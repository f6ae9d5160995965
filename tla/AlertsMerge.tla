------------------------------ MODULE AlertsMerge ------------------------------
(***************************************************************************)
(* Live.Alerts and mergeIDs (live.go): tools ask one shared snapshot for   *)
(* the alerts active at an instant, and alerts with the same text become   *)
(* one that names the routes of all of them.  What a tool is given starts  *)
(* as the snapshot's own slice of routes; append writes into the spare     *)
(* capacity decodeAlert left behind it, or moves to a new array when there *)
(* is none.  Stops and trips are merged as routes are.                     *)
(***************************************************************************)
EXTENDS Queries

CONSTANTS
  Callers,    (* Tools asking at once.                                     *)
  Instants,   (* Instants they may ask about.                              *)
  Texts,      (* Headers and descriptions; text is an alert's identity.    *)
  Affected,   (* Ids of the routes an alert may name.                      *)
  Alerts,     (* The snapshot's alerts: text, routes, and when active.     *)
  Room,       (* The capacity of the array append made for each of them.   *)
  None        (* A slot of an array that was never written.                *)

ASSUME AlertsAssumption ==
  /\ Alerts \in Seq([text : Texts, routes : Seq(Affected), from : Int, to : Int])
  /\ Room \in [DOMAIN Alerts -> Nat]
  /\ \A i \in DOMAIN Alerts : Room[i] >= Len(Alerts[i].routes)
  /\ None \notin Affected /\ Instants # {}

(* decodeAlert names a route once, however many of its stops are affected.  *)
ASSUME NamedOnceAssumption ==
  \A i \in DOMAIN Alerts :
    \A j, k \in DOMAIN Alerts[i].routes :
      Alerts[i].routes[j] = Alerts[i].routes[k] => j = k

VARIABLES
  array,      (* The array behind each alert's routes.                     *)
  pc,         (* What each caller is doing.                                *)
  when,       (* The instant each caller asked about.                      *)
  reached,    (* The alert each caller has come to.                        *)
  out,        (* The alerts each caller has collected.                     *)
  pending     (* Routes a merge has found to be new and not yet appended.  *)

alertsVars == <<array, pc, when, reached, out, pending>>

ActiveAt(a, t) == a.from <= t /\ t <= a.to

(* The routes of a collected alert: a slice of an alert's array, or its own.*)
RoutesOf(e) == IF e.of = 0 THEN e.own ELSE SubSeq(array[e.of], 1, e.len)

Entry(c, text) == {k \in DOMAIN out[c] : out[c][k].text = text}

AlertsInit ==
  /\ array = [i \in DOMAIN Alerts |->
                [k \in 1 .. Room[i] |->
                   IF k <= Len(Alerts[i].routes) THEN Alerts[i].routes[k] ELSE None]]
  /\ pc = [c \in Callers |-> "idle"]
  /\ when \in [Callers -> {CHOOSE t \in Instants : TRUE}]
  /\ reached = [c \in Callers |-> 1]
  /\ out = [c \in Callers |-> <<>>]
  /\ pending = [c \in Callers |-> <<>>]

(* A tool asks, and lets go of what it was given before.                    *)
AskAlerts(c, t) ==
  /\ pc[c] = "idle"
  /\ pc' = [pc EXCEPT ![c] = "scanning"]
  /\ when' = [when EXCEPT ![c] = t]
  /\ reached' = [reached EXCEPT ![c] = 1]
  /\ out' = [out EXCEPT ![c] = <<>>]
  /\ UNCHANGED <<array, pending>>

Scanning(c) == pc[c] = "scanning" /\ reached[c] <= Len(Alerts)

Inactive(c) ==
  /\ Scanning(c) /\ ~ActiveAt(Alerts[reached[c]], when[c])
  /\ reached' = [reached EXCEPT ![c] = @ + 1]
  /\ UNCHANGED <<array, pc, when, out, pending>>

(* Mutant of FirstOfText: the alert is collected without looking for it.    *)
FirstOfTextAlways(c) ==
  /\ Scanning(c) /\ ActiveAt(Alerts[reached[c]], when[c])
  /\ LET a == Alerts[reached[c]]
         e == [text |-> a.text, of |-> reached[c], own |-> <<>>, len |-> Len(a.routes)]
     IN  out' = [out EXCEPT ![c] = Append(@, e)]
  /\ reached' = [reached EXCEPT ![c] = @ + 1]
  /\ UNCHANGED <<array, pc, when, pending>>

(* The first alert with its text is collected with the slice it has.        *)
FirstOfText(c) ==
  /\ Scanning(c) /\ ActiveAt(Alerts[reached[c]], when[c])
  /\ LET a == Alerts[reached[c]]
         e == [text |-> a.text, of |-> reached[c], own |-> <<>>, len |-> Len(a.routes)]
     IN  /\ Entry(c, a.text) = {}
         /\ out' = [out EXCEPT ![c] = Append(@, e)]
  /\ reached' = [reached EXCEPT ![c] = @ + 1]
  /\ UNCHANGED <<array, pc, when, pending>>

(* mergeIDs notes what the collected alert has already, and so what is new. *)
Merge(c) ==
  /\ Scanning(c) /\ ActiveAt(Alerts[reached[c]], when[c])
  /\ \E k \in Entry(c, Alerts[reached[c]].text) :
       pending' = [pending EXCEPT ![c] =
         Among(Affected \ ToSet(RoutesOf(out[c][k])), Alerts[reached[c]].routes)]
  /\ pc' = [pc EXCEPT ![c] = "merging"]
  /\ UNCHANGED <<array, when, reached, out>>

(* Mutant of Slot: appending starts on the last element there is.           *)
SlotBefore(e) == e.len

(* Where append writes, if the array has room for it.                       *)
Slot(e) == e.len + 1

(* The next new route is appended, in place where there is room.            *)
Pool(c) ==
  /\ pc[c] = "merging" /\ pending[c] # <<>>
  /\ \E k \in Entry(c, Alerts[reached[c]].text) :
       LET e == out[c][k]  r == Head(pending[c]) IN
       IF e.of # 0 /\ e.len < Len(array[e.of])
         THEN /\ array' = [array EXCEPT ![e.of][Slot(e)] = r]
              /\ out' = [out EXCEPT ![c][k].len = @ + 1]
         ELSE /\ out' = [out EXCEPT ![c][k] =
                           [@ EXCEPT !.of = 0, !.own = Append(RoutesOf(e), r)]]
              /\ UNCHANGED array
  /\ pending' = [pending EXCEPT ![c] = Tail(@)]
  /\ UNCHANGED <<pc, when, reached>>

Merged(c) ==
  /\ pc[c] = "merging" /\ pending[c] = <<>>
  /\ pc' = [pc EXCEPT ![c] = "scanning"]
  /\ reached' = [reached EXCEPT ![c] = @ + 1]
  /\ UNCHANGED <<array, when, out, pending>>

(* The tool has its alerts, and goes on using them.                         *)
Answer(c) ==
  /\ pc[c] = "scanning" /\ reached[c] > Len(Alerts)
  /\ pc' = [pc EXCEPT ![c] = "idle"]
  /\ UNCHANGED <<array, when, reached, out, pending>>

AlertsNext ==
  \E c \in Callers :
    \/ \E t \in Instants : AskAlerts(c, t)
    \/ Inactive(c) \/ FirstOfText(c) \/ Merge(c) \/ Pool(c) \/ Merged(c) \/ Answer(c)

AlertsSpec == AlertsInit /\ [][AlertsNext]_alertsVars

-----------------------------------------------------------------------------

AllRoutes == UNION {ToSet(Alerts[i].routes) : i \in DOMAIN Alerts}

AlertsTypeOK ==
  /\ \A i \in DOMAIN Alerts : ToSet(array[i]) \subseteq AllRoutes \cup {None}
  /\ pc \in [Callers -> {"idle", "scanning", "merging"}]
  /\ when \in [Callers -> Instants]
  /\ reached \in [Callers -> 1 .. Len(Alerts) + 1]
  /\ \A c \in Callers : \A k \in DOMAIN out[c] :
       LET e == out[c][k] IN
         e.of # 0 => /\ e.own = <<>> /\ e.len <= Len(array[e.of])
                     /\ None \notin ToSet(RoutesOf(e))
  /\ \A c \in Callers : ToSet(pending[c]) \subseteq AllRoutes

(***************************************************************************)
(* live.go:63: whoever merges alerts, in whatever interleaving, never      *)
(* changes what the snapshot itself says an alert affects.                 *)
(***************************************************************************)
SnapshotUnchanged ==
  \A i \in DOMAIN Alerts :
    SubSeq(array[i], 1, Len(Alerts[i].routes)) = Alerts[i].routes

WithText(text) == {i \in DOMAIN Alerts : Alerts[i].text = text}
Named(S) == UNION {ToSet(Alerts[i].routes) : i \in S}

(***************************************************************************)
(* live.go:125: every incident active at the instant asked about comes out *)
(* once, and never names a route that no alert with its text names, even   *)
(* though other callers write behind its back.                             *)
(***************************************************************************)
OneOfEachIncident ==
  \A c \in Callers :
    /\ \A j, k \in DOMAIN out[c] : out[c][j].text = out[c][k].text => j = k
    /\ \A k \in DOMAIN out[c] :
         ToSet(RoutesOf(out[c][k])) \subseteq Named(WithText(out[c][k].text))
    /\ pc[c] = "idle" /\ reached[c] > 1 =>
         {out[c][k].text : k \in DOMAIN out[c]} =
           {Alerts[i].text : i \in {j \in DOMAIN Alerts : ActiveAt(Alerts[j], when[c])}}

(***************************************************************************)
(* live.go:63 and 126: the snapshot is immutable once built, so what a     *)
(* tool was given still names the routes of the alerts that were active at *)
(* the instant it asked about, whatever others ask since.                  *)
(***************************************************************************)
PoolsActiveRoutes ==
  \A c \in Callers : \A k \in DOMAIN out[c] :
    pc[c] = "idle" =>
      ToSet(RoutesOf(out[c][k])) =
        Named({i \in WithText(out[c][k].text) : ActiveAt(Alerts[i], when[c])})
=============================================================================
