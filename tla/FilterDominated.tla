--------------------------- MODULE FilterDominated ---------------------------
(***************************************************************************)
(* filterDominated (plan.go) as the nested loop it is: every journey still *)
(* kept is compared with every other one still kept, and drops those it    *)
(* dominates.  Journeys dropped on the way are no longer compared with     *)
(* anything, so that nothing is lost needs dominance to be transitive.     *)
(***************************************************************************)
EXTENDS Dominance, Sequences

CONSTANTS
  Times,      (* Instants a journey may leave or arrive at.                *)
  Changes,    (* Numbers of changes it may need.                           *)
  MaxFound    (* Journeys the search finds; a bound of the model only.     *)

ASSUME JourneysAssumption ==
  Times \subseteq Int /\ Changes \subseteq Nat /\ MaxFound \in Nat

VARIABLES
  in,         (* The journeys, as the search found them.                   *)
  keep,       (* Which of them are still to be shown.                      *)
  i,          (* The journey that is compared with the others.             *)
  j,          (* The one it is compared with.                              *)
  phase       (* "comparing", then "done".                                 *)

filterVars == <<in, keep, i, j, phase>>

Journeys == [depart : Times, arrive : Times, transfers : Changes]

(* Fewer than two journeys are returned as they are.                        *)
FilterInit ==
  /\ in \in UNION {[1 .. n -> Journeys] : n \in 0 .. MaxFound}
  /\ keep = [k \in DOMAIN in |-> TRUE]
  /\ i = 1
  /\ j = 1
  /\ phase = IF Len(in) < 2 THEN "done" ELSE "comparing"

(* A journey already dropped drops nothing itself.                          *)
Skip ==
  /\ phase = "comparing" /\ i <= Len(in)
  /\ ~keep[i]
  /\ i' = i + 1
  /\ j' = 1
  /\ UNCHANGED <<in, keep, phase>>

Compare ==
  /\ phase = "comparing" /\ i <= Len(in) /\ j <= Len(in)
  /\ keep[i]
  /\ keep' = [keep EXCEPT ![j] = @ /\ (i = j \/ ~Dominates(in[i], in[j]))]
  /\ j' = j + 1
  /\ UNCHANGED <<in, i, phase>>

NextJourney ==
  /\ phase = "comparing" /\ i <= Len(in) /\ j > Len(in)
  /\ keep[i]
  /\ i' = i + 1
  /\ j' = 1
  /\ UNCHANGED <<in, keep, phase>>

Finish ==
  /\ phase = "comparing" /\ i > Len(in)
  /\ phase' = "done"
  /\ UNCHANGED <<in, keep, i, j>>

FilterNext == Skip \/ Compare \/ NextJourney \/ Finish

FilterSpec == FilterInit /\ [][FilterNext]_filterVars

-----------------------------------------------------------------------------

FilterTypeOK ==
  /\ in \in Seq(Journeys)
  /\ keep \in [1 .. Len(in) -> BOOLEAN]
  /\ i \in 1 .. Len(in) + 1
  /\ j \in 1 .. Len(in) + 1
  /\ phase \in {"comparing", "done"}

(***************************************************************************)
(* plan.go:1057: a journey is removed exactly when another one found is    *)
(* better, whatever the order they were found in: although a journey       *)
(* dropped early is never compared again, none that only it would have     *)
(* dropped is shown; and of journeys that tie, all or none are.            *)
(***************************************************************************)
KeepsUndominated ==
  phase = "done" =>
    \A k \in DOMAIN in : keep[k] <=> \A m \in DOMAIN in : ~Better(in[m], in[k])

(* A journey is only ever dropped for one that is better and that is itself *)
(* kept, at every moment of the loop: no chain of drops loses its best.     *)
DroppedForKept ==
  \A k \in DOMAIN in :
    ~keep[k] => \E m \in DOMAIN in : keep[m] /\ Better(in[m], in[k])
=============================================================================
