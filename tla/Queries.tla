------------------------------- MODULE Queries -------------------------------
(***************************************************************************)
(* What a SQLite query may return (external): its rows in the order of a   *)
(* key (a function of them), those of one key in no stated order, and no   *)
(* more than its limit.                                                    *)
(***************************************************************************)
EXTENDS Integers, SequencesExt

First(n, s) == SubSeq(s, 1, IF n < Len(s) THEN n ELSE Len(s))

OrderByLimit(rows, key, n) ==
  LET sizes == {m \in 0 .. n : m <= Cardinality(rows)}
      sorted(s) == \A j, k \in DOMAIN s : j < k => s[j] # s[k] /\ key[s[j]] <= key[s[k]]
      left(s) == {r \in rows : \A k \in DOMAIN s : s[k] # r}
  IN  {s \in UNION {[1 .. m -> rows] : m \in sizes} :
         /\ sorted(s)
         /\ \A r \in left(s) : Len(s) = n /\ \A k \in DOMAIN s : key[s[k]] <= key[r]}

(* What a loop over a list, often a query's rows, keeps of it.              *)
Among(S, rows) ==
  LET kept[n \in 0 .. Len(rows)] ==
        IF n = 0 THEN <<>>
        ELSE IF rows[n] \in S THEN Append(kept[n - 1], rows[n]) ELSE kept[n - 1]
  IN  kept[Len(rows)]
=============================================================================
