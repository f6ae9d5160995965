---------------------------- MODULE MCAlertsMerge ----------------------------
(* AlertsMerge for two tools and one incident told by four alerts, the      *)
(* first of which leaves room in its array, and an unrelated notice.        *)
EXTENDS AlertsMerge

CONSTANTS c1, c2, delay, works, r1, r2, r3, r4, r5

MCCallers == {c1, c2}
Alert(text, routes, from, to) == [text |-> text, routes |-> routes, from |-> from, to |-> to]
MCAlerts ==
  << Alert(delay, <<r1, r2, r3>>, 1, 3), Alert(works, <<r1>>, 1, 2),
     Alert(delay, <<r1, r4>>, 1, 1), Alert(delay, <<r5>>, 2, 3), Alert(delay, <<r4, r2>>, 3, 3) >>
MCInstants == 1 .. 3
MCTexts == {delay, works}
MCAffected == {r1, r2, r3, r4, r5}

(* append doubles an array that is full, from the empty one on.             *)
MCRoom ==
  [i \in DOMAIN MCAlerts |->
     LET n == Len(MCAlerts[i].routes) IN
     CHOOSE m \in {0, 1, 2, 4, 8} : n <= m /\ (m = 0 \/ m < 2 * n)]
=============================================================================
