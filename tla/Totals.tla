-------------------------------- MODULE Totals --------------------------------
(***************************************************************************)
(* The sum a loop over a list of numbers ends with (totalWalk, plan.go; and *)
(* the time on foot, live.go).                                             *)
(***************************************************************************)
EXTENDS Integers, Sequences

TotalOf(s) ==
  LET upTo[n \in 0 .. Len(s)] == IF n = 0 THEN 0 ELSE upTo[n - 1] + s[n]
  IN  upTo[Len(s)]
=============================================================================
