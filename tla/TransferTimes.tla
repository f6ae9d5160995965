---------------------------- MODULE TransferTimes ----------------------------
(***************************************************************************)
(* How long a change takes (pathways.go, policy.go, transfers.go): what    *)
(* the caller stated, for this request or for the process, what the        *)
(* operator publishes, the walk through the station, or a default.         *)
(*                                                                         *)
(* Rules are a record: request and policy give some pairs of stops a time, *)
(* published is the rows [from, to, type, min] of transfers.txt (min is 0  *)
(* where it is blank), pathways the rows [from, to, bidir, seconds].       *)
(***************************************************************************)
EXTENDS Integers, SequencesExt, Totals

CONSTANTS
  DefaultTransferTime,
  MaxTransferTime,    (* What is believed of the pathway graph.            *)
  Detour, Pace,       (* Policy's WalkDetourFactor and WalkMetresPerSecond, *)
                      (* both scaled by the same number.                   *)
  Unknown             (* Of a change no source says anything of.           *)

ASSUME TransferAssumption ==
  /\ DefaultTransferTime \in Nat /\ MaxTransferTime \in Nat
  /\ Detour \in Nat /\ Pace \in Int
  /\ Unknown \notin Nat

(* Policy.WalkDuration: in whole seconds.                                   *)
WalkDuration(metres) == IF Pace <= 0 THEN 0 ELSE (metres * Detour) \div Pace

-----------------------------------------------------------------------------
(* What was stated *)

(* Either direction; the one asked for wins.                                *)
LookupPair(m, p, q) ==
  IF <<p, q>> \in DOMAIN m THEN m[<<p, q>>]
  ELSE IF <<q, p>> \in DOMAIN m THEN m[<<q, p>>] ELSE Unknown

(***************************************************************************)
(* LoadTransferTimes: an entry names a station, whose numbered platforms   *)
(* are plats (platformsOf), and gives the time of every change there       *)
(* (star, or Unknown) and of some pairs of platforms.  The entries come in *)
(* the order in which Go iterates over a map.                              *)
(***************************************************************************)
Entry(e) ==
  LET every == {ab \in (DOMAIN e.plats) \X (DOMAIN e.plats) : ab[1] # ab[2]}
      stop(pair) == <<e.plats[pair[1]], e.plats[pair[2]]>>
      timed(pairs, time(_)) ==
        [s \in {stop(pair) : pair \in pairs} |->
           time(CHOOSE pair \in pairs : stop(pair) = s)]
      star == timed(IF e.star = Unknown THEN {} ELSE every, LAMBDA pair : e.star)
  IN  timed(DOMAIN e.pairs, LAMBDA pair : e.pairs[pair]) @@ star

LoadTransferTimes(entries) == FoldLeft(LAMBDA m, e : Entry(e) @@ m, <<>>, entries)

(* A station or a platform that is not there is an error, not an override.  *)
Loadable(entries) ==
  \A n \in DOMAIN entries :
    /\ DOMAIN entries[n].plats # {}
    /\ \A pair \in DOMAIN entries[n].pairs :
         pair[1] \in DOMAIN entries[n].plats /\ pair[2] \in DOMAIN entries[n].plats

-----------------------------------------------------------------------------
(* What the operator published *)

PublishedTransfer(rules, p, q) ==
  LET rows == {r \in rules.published : r.from = p /\ r.to = q /\ r.type \in 0 .. 3}
      most == Max({r.min : r \in rows})
  IN  IF rows = {} THEN Unknown
      ELSE IF \E r \in rows : r.type = 3 THEN MaxTransferTime * 10
      ELSE IF most <= 0 THEN Unknown ELSE most

-----------------------------------------------------------------------------
(* The walk through the station *)

(* walkGraph: a row that is not one-way is an edge each way.                *)
Edges(rules) ==
  {<<r.from, r.to, r.seconds>> : r \in rules.pathways}
    \cup {<<r.to, r.from, r.seconds>> : r \in {x \in rules.pathways : x.bidir}}

Nodes(rules) == UNION {{r.from, r.to} : r \in rules.pathways}

(* What rules are, of whichever stops.  No pathway takes less than no time *)
(* (the index would let one in, and the search for a walk might then not   *)
(* come to an end).                                                        *)
AreRules(rules) ==
  /\ \A pq \in DOMAIN rules.request : rules.request[pq] \in Int
  /\ \A pq \in DOMAIN rules.policy : rules.policy[pq] \in Int
  /\ IsFiniteSet(rules.published) /\ \A r \in rules.published : r.min \in Int
  /\ IsFiniteSet(Nodes(rules)) /\ \A r \in rules.pathways : r.seconds \in Nat

Unreached == MaxTransferTime + 1

(* Mutant of Relaxed: a node keeps the distance it was first given.         *)
RelaxedOnce(dist, edges, cur) ==
  [n \in DOMAIN dist |->
     LET offers == {dist[cur] + e[3] : e \in {x \in edges : x[1] = cur /\ x[2] = n}}
                     \cap 0 .. MaxTransferTime
     IN  IF dist[n] # Unreached \/ offers = {} THEN dist[n] ELSE Min(offers)]

(* The node taken off the heap offers its neighbours a way through it; one *)
(* that takes more than the limit is not an offer.                         *)
Relaxed(dist, edges, cur) ==
  [n \in DOMAIN dist |->
     Min({dist[n]} \cup
         ({dist[cur] + e[3] : e \in {x \in edges : x[1] = cur /\ x[2] = n}}
            \cap 0 .. MaxTransferTime))]

(* One turn of the loop: the nearest node of the heap is the destination,   *)
(* or is settled and its neighbours relaxed.                               *)
Turn(s, edges, q) ==
  LET near == {n \in s.heap : \A m \in s.heap : s.dist[n] <= s.dist[m]}
      cur  == CHOOSE n \in near : TRUE
      dist == Relaxed(s.dist, edges, cur)
  IN  IF s.heap = {} \/ q \in near THEN s
      ELSE [dist |-> dist,
            heap |-> (s.heap \ {cur}) \cup {n \in DOMAIN dist : dist[n] < s.dist[n]}]

(* Dijkstra.  Each turn settles a node, so there are no more turns than     *)
(* nodes; the walk is known if the heap then still offers the destination. *)
WalkTime(rules, p, q) ==
  LET edges == Edges(rules)
      nodes == Nodes(rules) \cup {p, q}
      start == [dist |-> [n \in nodes |-> IF n = p THEN 0 ELSE Unreached], heap |-> {p}]
      after[n \in 0 .. Cardinality(nodes)] ==
        IF n = 0 THEN start ELSE Turn(after[n - 1], edges, q)
      final == after[Cardinality(nodes)]
  IN  IF p = q THEN 0
      ELSE IF edges = {} \/ q \notin final.heap THEN Unknown
      ELSE final.dist[q]

-----------------------------------------------------------------------------

(* transferTime: the first source that knows.  Only a walk is floored.      *)
TransferTime(rules, p, q) ==
  LET sources == <<LookupPair(rules.request, p, q), LookupPair(rules.policy, p, q),
                   PublishedTransfer(rules, p, q)>>
      known == {n \in DOMAIN sources : sources[n] # Unknown}
      walk == WalkTime(rules, p, q)
  IN  IF known # {} THEN sources[Min(known)]
      ELSE IF walk = Unknown THEN DefaultTransferTime
      ELSE Max({walk, DefaultTransferTime})

-----------------------------------------------------------------------------

(* The ways through a station that pass no place twice.                     *)
SimplePaths(rules, p, q) ==
  LET nodes == Nodes(rules) \cup {p, q}
  IN  {w \in UNION {[1 .. n -> nodes] : n \in 2 .. Cardinality(nodes)} :
         /\ w[1] = p /\ w[Len(w)] = q /\ IsInjective(w)
         /\ \A k \in 1 .. Len(w) - 1 : \E e \in Edges(rules) : e[1] = w[k] /\ e[2] = w[k + 1]}

(* How long one takes: from each place to the next by the shorter pathway. *)
Hop(edges, a, b) == Min({e[3] : e \in {x \in edges : x[1] = a /\ x[2] = b}})
TimeOf(rules, w) == TotalOf([k \in 1 .. Len(w) - 1 |-> Hop(Edges(rules), w[k], w[k + 1])])

(* How long the quickest of them takes.                                     *)
QuickestWay(rules, p, q) == Min({TimeOf(rules, w) : w \in SimplePaths(rules, p, q)})
=============================================================================
