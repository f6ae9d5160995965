------------------------------ MODULE StopUpdate ------------------------------
(***************************************************************************)
(* stopUpdateFor (live.go) as the loop it is: one pass over a trip's stop  *)
(* updates in the order the publisher sent them, stopping at the first     *)
(* that is the call's own and remembering the nearest one before it.       *)
(* LiveStatus says in one expression what the loop is to find.             *)
(***************************************************************************)
EXTENDS LiveStatus

CONSTANTS
  MaxSeq,     (* Largest stop_sequence; a bound of the model only.         *)
  MaxLen      (* Longest trip update; a bound of the model only.           *)

ASSUME UpdatesAssumption ==
  MaxSeq \in Nat /\ MaxLen \in Nat /\ NoStop \notin StopIds

VARIABLES
  tu,         (* The trip's updates: stop id and sequence of each.         *)
  call,       (* The call looked up: its sequence and stop id.             *)
  pos,        (* The update the loop has reached.                          *)
  best,       (* The index of the best fallback so far, 0 when not found.  *)
  result      (* How the lookup ended, and at which update.                *)

lookupVars == <<tu, call, pos, best, result>>

CallUpdates == [stop : StopIds, seq : 0 .. MaxSeq]
Calls   == [stop : StopIds \cup {NoStop}, seq : 0 .. MaxSeq]
Results == [kind : {"none", "own", "inherited"}, at : Nat]

Looking == [kind |-> "looking", at |-> 0]

(* A call is looked up in the updates a publisher sent, in their order.     *)
LookupInit ==
  /\ tu \in UNION {[1 .. n -> CallUpdates] : n \in 0 .. MaxLen}
  /\ call \in Calls
  /\ pos = 1
  /\ best = 0
  /\ result = Looking

IsOwn(u) == u.seq = call.seq \/ (u.seq = 0 /\ call.stop # NoStop /\ u.stop = call.stop)

(* Either the sequence or, where it is omitted, the stop is the call's own. *)
Match ==
  /\ result = Looking /\ pos <= Len(tu)
  /\ IsOwn(tu[pos])
  /\ result' = [kind |-> "own", at |-> pos]
  /\ UNCHANGED <<tu, call, pos, best>>

(* Mutant of Better: the latest of equals.                                  *)
BetterOrEqual(u) == u.seq < call.seq /\ (best = 0 \/ u.seq >= tu[best].seq)

(* Nearer to the call, from before, than the fallback held.                 *)
Better(u) == u.seq < call.seq /\ (best = 0 \/ u.seq > tu[best].seq)

Advance ==
  /\ result = Looking /\ pos <= Len(tu)
  /\ ~IsOwn(tu[pos])
  /\ best' = IF Better(tu[pos]) THEN pos ELSE best
  /\ pos' = pos + 1
  /\ UNCHANGED <<tu, call, result>>

(* The loop is over: nothing before the call, or the nearest thing before.  *)
Exhaust ==
  /\ result = Looking /\ pos > Len(tu)
  /\ result' = IF best = 0 THEN [kind |-> "none", at |-> 0]
                           ELSE [kind |-> "inherited", at |-> best]
  /\ UNCHANGED <<tu, call, pos, best>>

LookupNext == Match \/ Advance \/ Exhaust

LookupSpec == LookupInit /\ [][LookupNext]_lookupVars

-----------------------------------------------------------------------------

LookupTypeOK ==
  /\ tu \in Seq(CallUpdates)
  /\ call \in Calls
  /\ pos \in 1 .. Len(tu) + 1
  /\ best \in 0 .. Len(tu)
  /\ result \in Results \cup {Looking}
  /\ result.kind \in {"own", "inherited"} => result.at \in DOMAIN tu

(***************************************************************************)
(* The one pass finds what the definition asks for, whatever the order and *)
(* the gaps of the sequences: the first update of the call's own if there  *)
(* is one anywhere, otherwise the first of those nearest before it, and    *)
(* nothing only when nothing is before it.                                 *)
(***************************************************************************)
FindsUpdate ==
  /\ result.kind = "own" =>
       /\ result.at \in Own(tu, call.seq, call.stop)
       /\ \A k \in Own(tu, call.seq, call.stop) : result.at <= k
  /\ result.kind = "inherited" =>
       /\ Own(tu, call.seq, call.stop) = {}
       /\ result.at \in Before(tu, call.seq)
       /\ \A k \in Before(tu, call.seq) :
            \/ tu[k].seq < tu[result.at].seq
            \/ tu[k].seq = tu[result.at].seq /\ result.at <= k
  /\ result.kind = "none" => ~Covered(tu, call.seq, call.stop)

(* The loop invariant: best is the answer among the updates passed.         *)
PassedSoFar ==
  result = Looking =>
    /\ \A k \in 1 .. pos - 1 : ~IsOwn(tu[k])
    /\ best = 0 => \A k \in 1 .. pos - 1 : tu[k].seq >= call.seq
    /\ best # 0 =>
         /\ best < pos /\ tu[best].seq < call.seq
         /\ \A k \in 1 .. pos - 1 :
              tu[k].seq < call.seq =>
                \/ tu[k].seq < tu[best].seq
                \/ tu[k].seq = tu[best].seq /\ best <= k
=============================================================================
