------------------------------ MODULE Dominance ------------------------------
(***************************************************************************)
(* When one journey makes another not worth showing (plan.go): the order   *)
(* FilterDominated and PlanResults are about.  A journey has a depart and  *)
(* an arrive instant and a number of transfers, among other things.        *)
(***************************************************************************)
EXTENDS Integers

(* Leaving later is better: it is time not spent waiting.                   *)
NotWorse(a, b) ==
  a.depart >= b.depart /\ a.arrive <= b.arrive /\ a.transfers <= b.transfers

(* Mutants of Dominates: a tie dominates; arriving is all that counts.      *)
DominatesTies(a, b) == NotWorse(a, b)
DominatesOnOneAxis(a, b) == a.arrive < b.arrive \/ a.transfers < b.transfers

Dominates(a, b) ==
  /\ NotWorse(a, b)
  /\ a.depart > b.depart \/ a.arrive < b.arrive \/ a.transfers < b.transfers

(* The journeys of a list that no other of it dominates.                    *)
Survivors(js) ==
  {js[k] : k \in {m \in DOMAIN js : \A n \in DOMAIN js : ~Dominates(js[n], js[m])}}

(* At least as good on every axis, and not the other way round.             *)
Better(a, b) == NotWorse(a, b) /\ ~NotWorse(b, a)
=============================================================================
