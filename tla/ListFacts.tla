------------------------------ MODULE ListFacts ------------------------------
(***************************************************************************)
(* What the proofs of several components need of numbers and of lists:     *)
(* that a set of numbers has a least and a greatest, induction over a set  *)
(* of numbers, what a query may answer with and what a loop over its rows  *)
(* keeps.                                                                  *)
(***************************************************************************)
EXTENDS Queries, Totals, FiniteSetTheorems, WellFoundedInduction, TLAPS

-----------------------------------------------------------------------------
(* Least and greatest *)

(* Whatever holds of some number holds of a least one.                      *)
LEMMA Least ==
  ASSUME NEW S \in SUBSET Nat, S # {}
  PROVE  \E i \in S : \A k \in S : i <= k
<1>1. PICK i \in S : \A k \in S : <<k, i>> \notin OpToRel(<, Nat)
  BY NatLessThanWellFounded, WFMin
<1>2. \A j, k \in Nat : j < k => <<j, k>> \in OpToRel(<, Nat)
  BY DEF OpToRel
<1>3. \A k \in S : k \in Nat /\ i \in Nat /\ ~ k < i
  BY <1>1, <1>2
<1> QED
  BY <1>3

(* Induction, over the numbers up to N of which something holds.            *)
LEMMA UpTo ==
  ASSUME NEW N \in Nat, NEW Good \in SUBSET (0 .. N), 0 \in Good,
         \A n \in 1 .. N : n - 1 \in Good => n \in Good
  PROVE  \A n \in 0 .. N : n \in Good
<1> DEFINE Bad == (0 .. N) \ Good
<1> SUFFICES ASSUME Bad # {} PROVE FALSE
  OBVIOUS
<1>1. Bad \subseteq Nat
  OBVIOUS
<1>2. PICK n \in Bad : \A m \in Bad : n <= m
  <2> HIDE DEF Bad
  <2> QED
    BY <1>1, Least
<1>3. n \in 1 .. N /\ n - 1 \in 0 .. N /\ ~ n <= n - 1
  OBVIOUS
<1>4. n - 1 \in Good
  BY <1>2, <1>3
<1> QED
  BY <1>3, <1>4

LEMMA MinOf ==
  ASSUME NEW S, NEW low \in S, \A k \in S : low <= k
  PROVE  Min(S) \in S /\ \A k \in S : Min(S) <= k
BY DEF Min

LEMMA MaxOf ==
  ASSUME NEW S \in SUBSET Int, NEW high \in S, \A k \in S : k <= high
  PROVE  Max(S) \in S /\ \A k \in S : k <= Max(S)
<1>1. \A k \in S : high >= k
  OBVIOUS
<1>2. Max(S) \in S /\ \A k \in S : Max(S) >= k
  BY <1>1 DEF Max
<1> QED
  BY <1>2

(* Numbers within bounds have a greatest.                                   *)
LEMMA GreatestWithin ==
  ASSUME NEW lo \in Int, NEW hi \in Int, NEW S \in SUBSET (lo .. hi), S # {}
  PROVE  Max(S) \in S /\ \A k \in S : k <= Max(S)
<1> DEFINE under == {hi - k : k \in S}
<1>1. under \subseteq Nat /\ under # {}
  <2>1. \A k \in S : hi - k \in Nat
    OBVIOUS
  <2> QED
    BY <2>1
<1>2. PICK low \in under : \A k \in under : low <= k
  <2> HIDE DEF under
  <2> QED
    BY <1>1, Least
<1>3. PICK high \in S : low = hi - high
  OBVIOUS
<1>4. \A k \in S : k <= high
  <2>1. \A k \in S : hi - k \in under
    OBVIOUS
  <2> HIDE DEF under
  <2>2. \A k \in S : low <= hi - k
    BY <1>2, <2>1
  <2> QED
    BY <1>3, <2>2
<1> QED
  BY <1>4, MaxOf

(* And a least.                                                             *)
LEMMA LeastWithin ==
  ASSUME NEW lo \in Int, NEW hi \in Int, NEW S \in SUBSET (lo .. hi), S # {}
  PROVE  Min(S) \in S /\ \A k \in S : Min(S) <= k
<1> DEFINE over == {k - lo : k \in S}
<1>1. over \subseteq Nat /\ over # {}
  <2>1. \A k \in S : k - lo \in Nat
    OBVIOUS
  <2> QED
    BY <2>1
<1>2. PICK least \in over : \A k \in over : least <= k
  <2> HIDE DEF over
  <2> QED
    BY <1>1, Least
<1>3. PICK low \in S : least = low - lo
  OBVIOUS
<1>4. \A k \in S : low <= k
  <2>1. \A k \in S : k - lo \in over
    OBVIOUS
  <2> HIDE DEF over
  <2>2. \A k \in S : least <= k - lo
    BY <1>2, <2>1
  <2> QED
    BY <1>3, <2>2
<1> QED
  BY <1>4, MinOf

(* The greater of two numbers.                                              *)
LEMMA MaxOfTwo ==
  ASSUME NEW a \in Int, NEW b \in Int
  PROVE  Max({a, b}) = IF a >= b THEN a ELSE b
<1>1. CASE a >= b
  <2>1. Max({a, b}) \in {a, b} /\ \A k \in {a, b} : k <= Max({a, b})
    BY <1>1, MaxOf
  <2> QED
    BY <1>1, <2>1
<1>2. CASE ~ a >= b
  <2>1. Max({a, b}) \in {a, b} /\ \A k \in {a, b} : k <= Max({a, b})
    BY <1>2, MaxOf
  <2> QED
    BY <1>2, <2>1
<1> QED
  BY <1>1, <1>2

(* A finite set of numbers has a greatest.                                  *)
LEMMA Greatest ==
  ASSUME NEW S \in SUBSET Int, IsFiniteSet(S), S # {}
  PROVE  Max(S) \in S /\ \A k \in S : k <= Max(S)
<1> DEFINE Great(T) == \E h \in T : \A k \in T : k <= h
           Bad == {n \in Nat : \E T \in SUBSET Int :
                     IsFiniteSet(T) /\ T # {} /\ Cardinality(T) = n /\ ~ Great(T)}
<1>1. Bad = {}
  <2> SUFFICES ASSUME Bad # {} PROVE FALSE
    OBVIOUS
  <2>1. Bad \subseteq Nat
    OBVIOUS
  <2>2. PICK n \in Bad : \A m \in Bad : n <= m
    <3> HIDE DEF Bad
    <3> QED
      BY <2>1, Least
  <2>3. PICK T \in SUBSET Int : IsFiniteSet(T) /\ T # {} /\ Cardinality(T) = n /\ ~ Great(T)
    BY <2>2
  <2>4. PICK x \in T : TRUE
    BY <2>3
  <2> DEFINE U == T \ {x}
  <2>5. IsFiniteSet(U) /\ Cardinality(U) = n - 1 /\ n \in Nat /\ n # 0
    <3>1. Cardinality(U) = Cardinality(T) - 1 /\ IsFiniteSet(U)
      BY <2>3, <2>4, FS_RemoveElement
    <3> QED
      BY <2>3, <3>1, FS_EmptySet, FS_CardinalityType
  <2>6. CASE U = {}
    <3>1. \A k \in T : k <= x
      BY <2>4, <2>6
    <3> QED
      BY <2>3, <2>4, <3>1
  <2>7. CASE U # {}
    <3>1. n - 1 \notin Bad /\ n - 1 \in Nat
      BY <2>2, <2>5
    <3>2. Great(U)
      <4> HIDE DEF Great
      <4>1. U \in SUBSET Int
        OBVIOUS
      <4> HIDE DEF U
      <4> QED
        BY <2>5, <2>7, <3>1, <4>1
    <3>3. PICK y \in U : \A k \in U : k <= y
      BY <3>2
    <3>4. \A k \in T : k \in Int /\ (k = x \/ k <= y)
      BY <3>3
    <3>5. Great(T)
      BY <2>4, <3>3, <3>4
    <3> QED
      BY <2>3, <3>5
  <2> QED
    BY <2>6, <2>7
<1>2. Cardinality(S) \in Nat
  BY FS_CardinalityType
<1>3. Great(S)
  <2> HIDE DEF Great
  <2> QED
    BY <1>1, <1>2
<1> QED
  BY <1>3, MaxOf

-----------------------------------------------------------------------------
(* Lists, and what the queries return *)

(* What is appended to a list is in it, with what was.                      *)
LEMMA Appended ==
  ASSUME NEW T, NEW s \in Seq(T), NEW e \in T
  PROVE  /\ Append(s, e) \in Seq(T) /\ Len(Append(s, e)) = Len(s) + 1
         /\ \A k \in 1 .. Len(s) : Append(s, e)[k] = s[k]
         /\ Append(s, e)[Len(s) + 1] = e
         /\ \A r : (r = e \/ r \in ToSet(s)) => r \in ToSet(Append(s, e))
<1>1. /\ Append(s, e) \in Seq(T) /\ Len(Append(s, e)) = Len(s) + 1 /\ Len(s) \in Nat
      /\ \A k \in 1 .. Len(s) : Append(s, e)[k] = s[k]
      /\ Append(s, e)[Len(s) + 1] = e
  OBVIOUS
<1>2. DOMAIN s = 1 .. Len(s) /\ DOMAIN Append(s, e) = 1 .. Len(s) + 1
  OBVIOUS
<1>3. \A r : (r = e \/ r \in ToSet(s)) => r \in ToSet(Append(s, e))
  BY <1>1, <1>2 DEF ToSet
<1> QED
  BY <1>1, <1>3

(* f[n] is what the loop of Among has kept of the first n rows.             *)
Keeps(f, S, rows, N) ==
  f = [n \in 0 .. N |->
         IF n = 0 THEN <<>>
         ELSE IF rows[n] \in S THEN Append(f[n - 1], rows[n]) ELSE f[n - 1]]

(* There is such a function, however many rows there are.                   *)
LEMMA AmongDefined ==
  ASSUME NEW S, NEW rows, NEW N \in Nat
  PROVE  \E f : Keeps(f, S, rows, N)
<1> DEFINE After(prev, n) == IF rows[n] \in S THEN Append(prev, rows[n]) ELSE prev
           Def(f, k) == f = [n \in 0 .. k |-> IF n = 0 THEN <<>> ELSE After(f[n - 1], n)]
           Good == {k \in 0 .. N : \E f : Def(f, k)}
<1> HIDE DEF After
<1>1. 0 \in Good
  <2>1. Def([n \in 0 .. 0 |-> <<>>], 0)
    OBVIOUS
  <2> HIDE DEF Def
  <2> QED
    BY <2>1
<1>2. ASSUME NEW k \in 1 .. N, k - 1 \in Good PROVE k \in Good
  <2>1. PICK f : Def(f, k - 1)
    BY <1>2
  <2> DEFINE g == [n \in 0 .. k |-> IF n = 0 THEN <<>> ELSE After(f[n - 1], n)]
  <2>2. ASSUME NEW n \in 0 .. k, n # 0 PROVE g[n - 1] = f[n - 1]
    <3>1. n - 1 \in 0 .. k - 1 /\ n - 1 \in 0 .. k
      BY <2>2
    <3>2. f[n - 1] = IF n - 1 = 0 THEN <<>> ELSE After(f[(n - 1) - 1], n - 1)
      BY <2>1, <3>1
    <3> QED
      BY <3>1, <3>2
  <2>3. Def(g, k)
    <3>1. g = [n \in 0 .. k |-> IF n = 0 THEN <<>> ELSE After(g[n - 1], n)]
      BY <2>2
    <3> QED
      BY <3>1
  <2> HIDE DEF Def
  <2> QED
    BY <2>3
<1>3. N \in Good
  <2> HIDE DEF Good
  <2>1. Good \in SUBSET (0 .. N) /\ N \in 0 .. N
    BY DEF Good
  <2> QED
    BY <1>1, <1>2, <2>1, UpTo
<1>4. PICK f : Def(f, N)
  BY <1>3
<1> QED
  BY <1>4 DEF After, Keeps

(* The rows kept are those of the rows there were that are wanted.          *)
LEMMA AmongKept ==
  ASSUME NEW S, NEW T, NEW rows \in Seq(T)
  PROVE  /\ Among(S, rows) \in Seq(S \cap T)
         /\ \A r \in ToSet(rows) \cap S : r \in ToSet(Among(S, rows))
<1> DEFINE N == Len(rows)
           kept == CHOOSE f : Keeps(f, S, rows, N)
           Good(n) == /\ kept[n] \in Seq(S \cap T)
                      /\ \A k \in 1 .. n : rows[k] \in S => rows[k] \in ToSet(kept[n])
<1>1. N \in Nat /\ \A n \in 1 .. N : rows[n] \in T
  OBVIOUS
<1>2. Among(S, rows) = kept[N]
  BY DEF Among, Keeps
<1>3. Keeps(kept, S, rows, N)
  BY <1>1, AmongDefined
<1>0. ToSet(rows) = {rows[k] : k \in 1 .. N}
  BY DEF ToSet
<1> HIDE DEF kept, N
<1>4. /\ kept[0] = <<>>
      /\ \A n \in 1 .. N : kept[n] = IF rows[n] \in S THEN Append(kept[n - 1], rows[n])
                                                      ELSE kept[n - 1]
  <2>1. kept = [n \in 0 .. N |->
                  IF n = 0 THEN <<>>
                  ELSE IF rows[n] \in S THEN Append(kept[n - 1], rows[n]) ELSE kept[n - 1]]
    BY <1>3 DEF Keeps
  <2>2. \A n \in 0 .. N :
          kept[n] = IF n = 0 THEN <<>>
                    ELSE IF rows[n] \in S THEN Append(kept[n - 1], rows[n]) ELSE kept[n - 1]
    BY <2>1
  <2>3. 0 \in 0 .. N /\ \A n \in 1 .. N : n \in 0 .. N /\ n # 0
    BY <1>1
  <2> QED
    BY <2>2, <2>3
<1>5. Good(0)
  BY <1>4
<1>6. ASSUME NEW n \in 1 .. N, Good(n - 1) PROVE Good(n)
  <2>1. kept[n] = IF rows[n] \in S THEN Append(kept[n - 1], rows[n]) ELSE kept[n - 1]
    BY <1>4
  <2>2. \A k \in 1 .. n : k = n \/ k \in 1 .. n - 1
    BY <1>1
  <2>3. CASE rows[n] \in S
    <3>1. rows[n] \in S \cap T /\ kept[n - 1] \in Seq(S \cap T)
      BY <1>1, <1>6, <2>3
    <3>2. Append(kept[n - 1], rows[n]) \in Seq(S \cap T)
      BY <3>1
    <3>3. \A r : r = rows[n] \/ r \in ToSet(kept[n - 1]) =>
                 r \in ToSet(Append(kept[n - 1], rows[n]))
      BY <3>1, Appended
    <3> QED
      BY <1>6, <2>1, <2>2, <2>3, <3>2, <3>3
  <2>4. CASE rows[n] \notin S
    BY <1>6, <2>1, <2>2, <2>4
  <2> QED
    BY <2>3, <2>4
<1>8. Good(N)
  <2> DEFINE good == {n \in 0 .. N : Good(n)}
  <2> HIDE DEF Good
  <2>1. good \in SUBSET (0 .. N) /\ 0 \in good /\ N \in 0 .. N
    BY <1>1, <1>5
  <2>2. \A n \in 1 .. N : n - 1 \in good => n \in good
    BY <1>6
  <2> HIDE DEF good
  <2>3. N \in good
    BY <1>1, <2>1, <2>2, UpTo
  <2> QED
    BY <2>3 DEF good
<1> QED
  BY <1>0, <1>2, <1>8

(* A query's answer is a list of rows of the table it was asked of, and of  *)
(* all of them if its limit allows it.                                      *)
LEMMA AnswerIsOfTable ==
  ASSUME NEW table, NEW key, NEW n \in Nat, NEW rows \in OrderByLimit(table, key, n)
  PROVE  /\ rows \in Seq(table)
         /\ (IsFiniteSet(table) /\ Cardinality(table) <= n) => table \subseteq ToSet(rows)
<1> DEFINE left == {r \in table : \A k \in DOMAIN rows : rows[k] # r}
<1>1. PICK m \in 0 .. n : rows \in [1 .. m -> table]
  BY DEF OrderByLimit
<1>2. /\ \A j, k \in DOMAIN rows : j < k => rows[j] # rows[k]
      /\ \A r \in left : Len(rows) = n
  BY DEF OrderByLimit
<1>3. ASSUME IsFiniteSet(table), Cardinality(table) <= n, NEW r \in left PROVE FALSE
  <2> DEFINE rest == table \ {r}
  <2>1. m = n
    BY <1>1, <1>2, <1>3
  <2>2. rows \in Injection(1 .. n, rest)
    <3>1. rows \in [1 .. n -> rest]
      BY <1>1, <1>3, <2>1
    <3>2. \A j, k \in 1 .. n : rows[j] = rows[k] => j = k
      BY <1>2, <3>1
    <3> QED
      BY <3>1, <3>2 DEF Injection, IsInjective
  <2>3. IsFiniteSet(rest) /\ Cardinality(rest) = Cardinality(table) - 1
    <3>1. r \in table
      OBVIOUS
    <3> QED
      BY <1>3, <3>1, FS_RemoveElement
  <2>4. Cardinality(1 .. n) = n
    BY FS_Interval
  <2> HIDE DEF rest
  <2>5. n <= Cardinality(table) - 1
    BY <2>2, <2>3, <2>4, FS_Injection
  <2>6. Cardinality(table) \in Nat
    BY <1>3, FS_CardinalityType
  <2> QED
    BY <1>3, <2>5, <2>6
<1>4. ASSUME IsFiniteSet(table), Cardinality(table) <= n PROVE table \subseteq ToSet(rows)
  BY <1>3, <1>4 DEF ToSet
<1> QED
  BY <1>1, <1>4

(* The first n of a list.                                                   *)
LEMMA FirstFacts ==
  ASSUME NEW X, NEW s \in Seq(X), NEW n \in Nat
  PROVE  /\ First(n, s) \in Seq(X)
         /\ Len(First(n, s)) = IF n < Len(s) THEN n ELSE Len(s)
         /\ DOMAIN First(n, s) \subseteq DOMAIN s
         /\ \A k \in DOMAIN First(n, s) : First(n, s)[k] = s[k]
         /\ \A k \in DOMAIN s : k \in DOMAIN First(n, s) \/ (Len(First(n, s)) = n /\ k > n)
<1> DEFINE top == IF n < Len(s) THEN n ELSE Len(s)
<1>1. top \in 0 .. Len(s) /\ DOMAIN s = 1 .. Len(s) /\ Len(s) \in Nat
  OBVIOUS
<1>2. First(n, s) = SubSeq(s, 1, top)
  BY DEF First
<1> HIDE DEF top
<1>3. /\ First(n, s) \in Seq(X) /\ Len(First(n, s)) = top
      /\ DOMAIN First(n, s) = 1 .. top
      /\ \A k \in 1 .. top : First(n, s)[k] = s[k]
  BY <1>1, <1>2
<1>4. \A k \in 1 .. Len(s) : k \in 1 .. top \/ (top = n /\ k > n)
  <2>1. CASE n < Len(s)
    <3>1. top = n
      BY <2>1 DEF top
    <3> QED
      BY <1>1, <3>1
  <2>2. CASE ~ n < Len(s)
    <3>1. top = Len(s)
      BY <2>2 DEF top
    <3> QED
      BY <1>1, <3>1
  <2> QED
    BY <2>1, <2>2
<1> QED
  BY <1>1, <1>3, <1>4 DEF top

(* One list behind another.                                                 *)
LEMMA OneBehindAnother ==
  ASSUME NEW T, NEW s \in Seq(T), NEW t \in Seq(T)
  PROVE  /\ s \o t \in Seq(T)
         /\ \A c : (c \in ToSet(s) \/ c \in ToSet(t)) => c \in ToSet(s \o t)
<1>1. /\ s \o t \in Seq(T) /\ DOMAIN (s \o t) = 1 .. Len(s) + Len(t)
      /\ DOMAIN s = 1 .. Len(s) /\ DOMAIN t = 1 .. Len(t)
      /\ Len(s) \in Nat /\ Len(t) \in Nat
      /\ \A k \in 1 .. Len(s) : (s \o t)[k] = s[k]
  OBVIOUS
<1>2. \A k \in 1 .. Len(t) :
        k + Len(s) \in DOMAIN (s \o t) /\ (s \o t)[k + Len(s)] = t[k]
  BY <1>1
<1>3. \A k \in 1 .. Len(s) : k \in DOMAIN (s \o t)
  BY <1>1
<1> QED
  BY <1>1, <1>2, <1>3 DEF ToSet

-----------------------------------------------------------------------------
(* A total *)

(* f[n] is what the first n of some numbers come to.                        *)
SumsUpTo(f, s, N) == f = [n \in 0 .. N |-> IF n = 0 THEN 0 ELSE f[n - 1] + s[n]]

LEMMA TotalsDefined ==
  ASSUME NEW s, NEW N \in Nat
  PROVE  \E f : SumsUpTo(f, s, N)
<1> DEFINE After(prev, n) == prev + s[n]
           Def(f, k) == f = [n \in 0 .. k |-> IF n = 0 THEN 0 ELSE After(f[n - 1], n)]
           Good == {k \in 0 .. N : \E f : Def(f, k)}
<1> HIDE DEF After
<1>1. 0 \in Good
  <2>1. Def([n \in 0 .. 0 |-> 0], 0)
    OBVIOUS
  <2> HIDE DEF Def
  <2> QED
    BY <2>1
<1>2. ASSUME NEW k \in 1 .. N, k - 1 \in Good PROVE k \in Good
  <2>1. PICK f : Def(f, k - 1)
    BY <1>2
  <2> DEFINE g == [n \in 0 .. k |-> IF n = 0 THEN 0 ELSE After(f[n - 1], n)]
  <2>2. ASSUME NEW n \in 0 .. k, n # 0 PROVE g[n - 1] = f[n - 1]
    <3>1. n - 1 \in 0 .. k - 1 /\ n - 1 \in 0 .. k
      BY <2>2
    <3>2. f[n - 1] = IF n - 1 = 0 THEN 0 ELSE After(f[(n - 1) - 1], n - 1)
      BY <2>1, <3>1
    <3> QED
      BY <3>1, <3>2
  <2>3. Def(g, k)
    <3>1. g = [n \in 0 .. k |-> IF n = 0 THEN 0 ELSE After(g[n - 1], n)]
      BY <2>2
    <3> QED
      BY <3>1
  <2> HIDE DEF Def
  <2> QED
    BY <2>3
<1>3. N \in Good
  <2> HIDE DEF Good
  <2>1. Good \in SUBSET (0 .. N) /\ N \in 0 .. N
    BY DEF Good
  <2> QED
    BY <1>1, <1>2, <2>1, UpTo
<1>4. PICK f : Def(f, N)
  BY <1>3
<1> QED
  BY <1>4 DEF After, SumsUpTo

(* A total is come to number by number.                                     *)
LEMMA TotalInSteps ==
  ASSUME NEW s, Len(s) \in Nat
  PROVE  \E f : /\ f[0] = 0 /\ TotalOf(s) = f[Len(s)]
                /\ \A n \in 1 .. Len(s) : f[n] = f[n - 1] + s[n]
<1> DEFINE N == Len(s)
           upTo == CHOOSE f : SumsUpTo(f, s, N)
<1>1. TotalOf(s) = upTo[N]
  BY DEF TotalOf, SumsUpTo
<1>2. SumsUpTo(upTo, s, N)
  BY TotalsDefined
<1> HIDE DEF upTo, N
<1>3. N \in Nat
  BY DEF N
<1>4. \A n \in 0 .. N : upTo[n] = IF n = 0 THEN 0 ELSE upTo[n - 1] + s[n]
  <2>1. upTo = [n \in 0 .. N |-> IF n = 0 THEN 0 ELSE upTo[n - 1] + s[n]]
    BY <1>2 DEF SumsUpTo
  <2> QED
    BY <2>1
<1>5. 0 \in 0 .. N /\ \A n \in 1 .. N : n \in 0 .. N /\ n # 0
  BY <1>3
<1>6. upTo[0] = 0 /\ \A n \in 1 .. N : upTo[n] = upTo[n - 1] + s[n]
  BY <1>4, <1>5
<1> QED
  BY <1>1, <1>6 DEF N

(* Where each number adds to what was there, the total is there at the end. *)
LEMMA TotalAsTold ==
  ASSUME NEW s, Len(s) \in Nat, NEW f, f[0] = 0,
         \A n \in 1 .. Len(s) : f[n] = f[n - 1] + s[n]
  PROVE  TotalOf(s) = f[Len(s)]
<1> DEFINE N == Len(s)
<1>1. PICK g : /\ g[0] = 0 /\ TotalOf(s) = g[N]
               /\ \A n \in 1 .. N : g[n] = g[n - 1] + s[n]
  BY TotalInSteps
<1> HIDE DEF N
<1> DEFINE Good == {n \in 0 .. N : g[n] = f[n]}
<1>2. 0 \in Good
  BY <1>1 DEF N
<1>3. ASSUME NEW n \in 1 .. N, n - 1 \in Good PROVE n \in Good
  <2>1. n \in 0 .. N
    BY DEF N
  <2>2. f[n] = f[n - 1] + s[n]
    BY DEF N
  <2> QED
    BY <1>1, <1>3, <2>1, <2>2
<1>4. N \in Good
  <2> HIDE DEF Good
  <2>1. Good \in SUBSET (0 .. N) /\ N \in 0 .. N /\ N \in Nat
    BY DEF Good, N
  <2> QED
    BY <1>2, <1>3, <2>1, UpTo
<1> QED
  BY <1>1, <1>4 DEF N

-----------------------------------------------------------------------------
(* Places, and the order of what a loop keeps *)

(* Each comes after as many as are ahead of it.  If of any two one is ahead *)
(* of the other, and who is ahead of one is ahead of all it is ahead of,    *)
(* then every place is taken.                                               *)
LEMMA PlacesOfOrder ==
  ASSUME NEW N \in Nat, NEW ahead \in [1 .. N -> SUBSET (1 .. N)],
         \A a \in 1 .. N : a \notin ahead[a],
         \A a, b \in 1 .. N : a # b => a \in ahead[b] \/ b \in ahead[a],
         \A a, b, c \in 1 .. N : a \in ahead[b] /\ b \in ahead[c] => a \in ahead[c]
  PROVE  /\ \A a \in 1 .. N : Cardinality(ahead[a]) \in Nat /\ 1 + Cardinality(ahead[a]) \in 1 .. N
         /\ \A a, b \in 1 .. N : a \in ahead[b] => Cardinality(ahead[a]) < Cardinality(ahead[b])
         /\ \A n \in 1 .. N : \E a \in 1 .. N : 1 + Cardinality(ahead[a]) = n
<1> DEFINE place == [a \in 1 .. N |-> 1 + Cardinality(ahead[a])]
<1>1. IsFiniteSet(1 .. N) /\ Cardinality(1 .. N) = N
  <2>1. IsFiniteSet(1 .. N) /\ Cardinality(1 .. N) = IF 1 > N THEN 0 ELSE N - 1 + 1
    BY FS_Interval
  <2> QED
    BY <2>1
<1>2. \A a \in 1 .. N : IsFiniteSet(ahead[a]) /\ Cardinality(ahead[a]) \in Nat
  <2> TAKE a \in 1 .. N
  <2>1. ahead[a] \in SUBSET (1 .. N)
    OBVIOUS
  <2> QED
    BY <1>1, <2>1, FS_Subset, FS_CardinalityType
<1>3. ASSUME NEW a \in 1 .. N, NEW b \in 1 .. N, a \in ahead[b]
      PROVE  Cardinality(ahead[a]) < Cardinality(ahead[b])
  <2>1. ahead[a] \in SUBSET ahead[b] /\ ahead[a] # ahead[b]
    BY <1>3
  <2>2. IsFiniteSet(ahead[b]) /\ Cardinality(ahead[b]) \in Nat /\ Cardinality(ahead[a]) \in Nat
    BY <1>2
  <2>3. Cardinality(ahead[a]) <= Cardinality(ahead[b])
    BY <2>1, <2>2, FS_Subset
  <2>4. Cardinality(ahead[a]) # Cardinality(ahead[b])
    BY <2>1, <2>2, FS_Subset
  <2> QED
    BY <2>2, <2>3, <2>4
<1>4. \A a \in 1 .. N : Cardinality(ahead[a]) \in Nat /\ 1 + Cardinality(ahead[a]) \in 1 .. N
  <2> TAKE a \in 1 .. N
  <2>1. IsFiniteSet((1 .. N) \ {a}) /\ Cardinality((1 .. N) \ {a}) = N - 1
    BY <1>1, FS_RemoveElement
  <2>2. ahead[a] \in SUBSET ((1 .. N) \ {a})
    OBVIOUS
  <2>3. Cardinality(ahead[a]) <= N - 1
    BY <2>1, <2>2, FS_Subset
  <2>4. Cardinality(ahead[a]) \in Nat
    BY <1>2
  <2> QED
    BY <2>3, <2>4
<1>5. place \in Injection(1 .. N, 1 .. N)
  <2>1. place \in [1 .. N -> 1 .. N]
    BY <1>4
  <2>2. \A a, b \in 1 .. N : place[a] = place[b] => a = b
    <3> SUFFICES ASSUME NEW a \in 1 .. N, NEW b \in 1 .. N, a # b
                 PROVE  place[a] # place[b]
      OBVIOUS
    <3>1. Cardinality(ahead[a]) \in Nat /\ Cardinality(ahead[b]) \in Nat
      BY <1>2
    <3>2. Cardinality(ahead[a]) # Cardinality(ahead[b])
      BY <1>3, <3>1
    <3> QED
      BY <3>1, <3>2
  <2> HIDE DEF place
  <2> QED
    BY <2>1, <2>2 DEF Injection, IsInjective
<1>6. place \in Surjection(1 .. N, 1 .. N)
  <2> HIDE DEF place
  <2> QED
    BY <1>1, <1>5, FS_Injection
<1>7. \A n \in 1 .. N : \E a \in 1 .. N : 1 + Cardinality(ahead[a]) = n
  <2>1. \A n \in 1 .. N : \E a \in 1 .. N : place[a] = n
    <3> HIDE DEF place
    <3> QED
      BY <1>6 DEF Surjection
  <2> QED
    BY <2>1
<1> QED
  BY <1>3, <1>4, <1>7

(* What a loop keeps, it keeps in the order it came in, and each but once.  *)
LEMMA AmongPicks ==
  ASSUME NEW S, NEW T, NEW rows \in Seq(T)
  PROVE  \E f \in [1 .. Len(Among(S, rows)) -> 1 .. Len(rows)] :
           /\ \A n \in 1 .. Len(Among(S, rows)) : Among(S, rows)[n] = rows[f[n]]
           /\ \A m, n \in 1 .. Len(Among(S, rows)) : m < n => f[m] < f[n]
           /\ \A k \in 1 .. Len(rows) :
                rows[k] \in S => \E n \in 1 .. Len(Among(S, rows)) : f[n] = k
<1> DEFINE N == Len(rows)
           kept == CHOOSE f : Keeps(f, S, rows, N)
           Picks(f, n) ==
             /\ f \in Seq(1 .. n) /\ Len(f) = Len(kept[n])
             /\ \A j \in 1 .. Len(f) : kept[n][j] = rows[f[j]]
             /\ \A i, j \in 1 .. Len(f) : i < j => f[i] < f[j]
             /\ \A k \in 1 .. n : rows[k] \in S => \E j \in 1 .. Len(f) : f[j] = k
           Good(n) == kept[n] \in Seq(T) /\ \E f : Picks(f, n)
<1>1. N \in Nat /\ DOMAIN rows = 1 .. N /\ \A n \in 1 .. N : rows[n] \in T
  OBVIOUS
<1>2. Among(S, rows) = kept[N]
  BY DEF Among, Keeps
<1>3. Keeps(kept, S, rows, N)
  BY <1>1, AmongDefined
<1> HIDE DEF kept, N
<1>4. /\ kept[0] = <<>>
      /\ \A n \in 1 .. N : kept[n] = IF rows[n] \in S THEN Append(kept[n - 1], rows[n])
                                                      ELSE kept[n - 1]
  <2>1. kept = [n \in 0 .. N |->
                  IF n = 0 THEN <<>>
                  ELSE IF rows[n] \in S THEN Append(kept[n - 1], rows[n]) ELSE kept[n - 1]]
    BY <1>3 DEF Keeps
  <2>2. \A n \in 0 .. N :
          kept[n] = IF n = 0 THEN <<>>
                    ELSE IF rows[n] \in S THEN Append(kept[n - 1], rows[n]) ELSE kept[n - 1]
    BY <2>1
  <2>3. 0 \in 0 .. N /\ \A n \in 1 .. N : n \in 0 .. N /\ n # 0
    BY <1>1
  <2> QED
    BY <2>2, <2>3
<1>5. Good(0)
  <2>1. Picks(<<>>, 0)
    BY <1>4
  <2>2. kept[0] \in Seq(T)
    BY <1>4
  <2> HIDE DEF Picks
  <2> QED
    BY <2>1, <2>2
<1>6. ASSUME NEW n \in 1 .. N, Good(n - 1) PROVE Good(n)
  <2>1. kept[n] = IF rows[n] \in S THEN Append(kept[n - 1], rows[n]) ELSE kept[n - 1]
    BY <1>4
  <2>2. PICK f : Picks(f, n - 1)
    BY <1>6
  <2>3. /\ kept[n - 1] \in Seq(T) /\ f \in Seq(1 .. n - 1) /\ f \in Seq(1 .. n)
        /\ \A j \in 1 .. Len(f) : f[j] \in 1 .. n - 1
        /\ Len(f) \in Nat /\ Len(f) = Len(kept[n - 1])
    <3>1. f \in Seq(1 .. n - 1) /\ 1 .. n - 1 \subseteq 1 .. n
      BY <1>1, <2>2
    <3>2. \A j \in 1 .. Len(f) : f[j] \in 1 .. n - 1
      BY <3>1
    <3> QED
      BY <1>6, <2>2, <3>1, <3>2
  <2>4. \A k \in 1 .. n : k = n \/ k \in 1 .. n - 1
    BY <1>1
  <2>5. CASE rows[n] \in S
    <3> DEFINE g == Append(f, n)
    <3>1. n \in 1 .. n /\ rows[n] \in T
      BY <1>1
    <3>2. /\ g \in Seq(1 .. n) /\ Len(g) = Len(f) + 1
          /\ \A j \in 1 .. Len(f) : g[j] = f[j]
          /\ g[Len(f) + 1] = n
      BY <2>3, <3>1, Appended
    <3>3. /\ kept[n] \in Seq(T) /\ Len(kept[n]) = Len(f) + 1
          /\ \A j \in 1 .. Len(f) : kept[n][j] = kept[n - 1][j]
          /\ kept[n][Len(f) + 1] = rows[n]
      BY <2>1, <2>3, <2>5, <3>1, Appended
    <3> HIDE DEF g
    <3>4. \A j \in 1 .. Len(g) : j \in 1 .. Len(f) \/ j = Len(f) + 1
      BY <2>3, <3>2
    <3>5. \A j \in 1 .. Len(g) : kept[n][j] = rows[g[j]]
      BY <2>2, <3>2, <3>3, <3>4
    <3>6. \A i, j \in 1 .. Len(g) : i < j => g[i] < g[j]
      <4> SUFFICES ASSUME NEW i \in 1 .. Len(g), NEW j \in 1 .. Len(g), i < j
                   PROVE  g[i] < g[j]
        OBVIOUS
      <4>1. i \in 1 .. Len(f)
        BY <2>3, <3>2
      <4>2. CASE j \in 1 .. Len(f)
        BY <2>2, <3>2, <4>1, <4>2
      <4>3. CASE j = Len(f) + 1
        <5>1. g[j] = n /\ g[i] \in 1 .. n - 1
          BY <2>3, <3>2, <4>1, <4>3
        <5> QED
          BY <5>1
      <4> QED
        BY <3>4, <4>2, <4>3
    <3>7. \A k \in 1 .. n : rows[k] \in S => \E j \in 1 .. Len(g) : g[j] = k
      <4>1. Len(f) + 1 \in 1 .. Len(g) /\ 1 .. Len(f) \subseteq 1 .. Len(g)
        BY <2>3, <3>2
      <4>2. \A k \in 1 .. n - 1 : rows[k] \in S => \E j \in 1 .. Len(f) : f[j] = k
        BY <2>2
      <4> QED
        BY <2>4, <3>2, <4>1, <4>2
    <3>8. Picks(g, n)
      BY <3>2, <3>3, <3>5, <3>6, <3>7
    <3> QED
      BY <3>3, <3>8
  <2>6. CASE rows[n] \notin S
    <3>1. Picks(f, n)
      BY <2>1, <2>2, <2>3, <2>4, <2>6
    <3> QED
      BY <1>6, <2>1, <2>6, <3>1
  <2> QED
    BY <2>5, <2>6
<1>7. Good(N)
  <2> DEFINE good == {n \in 0 .. N : Good(n)}
  <2> HIDE DEF Good
  <2>1. good \in SUBSET (0 .. N) /\ 0 \in good /\ N \in 0 .. N
    BY <1>1, <1>5
  <2>2. \A n \in 1 .. N : n - 1 \in good => n \in good
    BY <1>6
  <2> HIDE DEF good
  <2>3. N \in good
    BY <1>1, <2>1, <2>2, UpTo
  <2> QED
    BY <2>3 DEF good
<1>8. PICK f : Picks(f, N)
  BY <1>7
<1>9. Len(Among(S, rows)) = Len(f) /\ f \in [1 .. Len(f) -> 1 .. N]
  <2>1. f \in Seq(1 .. N) /\ Len(f) = Len(kept[N]) /\ kept[N] \in Seq(T)
    BY <1>7, <1>8
  <2>2. \A X, s : s \in Seq(X) => s \in [1 .. Len(s) -> X]
    OBVIOUS
  <2>3. f \in [1 .. Len(f) -> 1 .. N]
    BY <2>1, <2>2
  <2> QED
    BY <1>2, <2>1, <2>3
<1>10. /\ \A j \in 1 .. Len(f) : Among(S, rows)[j] = rows[f[j]]
       /\ \A i, j \in 1 .. Len(f) : i < j => f[i] < f[j]
       /\ \A k \in 1 .. N : rows[k] \in S => \E j \in 1 .. Len(f) : f[j] = k
  BY <1>2, <1>8
<1> HIDE DEF Picks
<1> QED
  BY <1>9, <1>10 DEF N

(* The loop of Among, row by row.                                           *)
InSteps(f, S, rows, N) ==
  /\ f[0] = <<>>
  /\ \A n \in 1 .. N :
       f[n] = IF rows[n] \in S THEN Append(f[n - 1], rows[n]) ELSE f[n - 1]

LEMMA AmongInSteps ==
  ASSUME NEW S, NEW rows, Len(rows) \in Nat
  PROVE  \E f : InSteps(f, S, rows, Len(rows)) /\ Among(S, rows) = f[Len(rows)]
<1> DEFINE N == Len(rows)
           kept == CHOOSE f : Keeps(f, S, rows, N)
<1>1. Among(S, rows) = kept[N]
  BY DEF Among, Keeps
<1>2. Keeps(kept, S, rows, N)
  BY AmongDefined
<1> HIDE DEF kept, N
<1>3. N \in Nat
  BY DEF N
<1>4. \A n \in 0 .. N :
        kept[n] = IF n = 0 THEN <<>>
                  ELSE IF rows[n] \in S THEN Append(kept[n - 1], rows[n]) ELSE kept[n - 1]
  <2>1. kept = [n \in 0 .. N |->
                  IF n = 0 THEN <<>>
                  ELSE IF rows[n] \in S THEN Append(kept[n - 1], rows[n]) ELSE kept[n - 1]]
    BY <1>2 DEF Keeps
  <2> QED
    BY <2>1
<1>5. 0 \in 0 .. N /\ \A n \in 1 .. N : n \in 0 .. N /\ n # 0
  BY <1>3
<1>6. InSteps(kept, S, rows, N)
  BY <1>4, <1>5 DEF InSteps
<1> QED
  BY <1>1, <1>6 DEF N

(* What it has kept of the first rows does not depend on those to come, nor *)
(* on what else would be kept.                                              *)
LEMMA AmongAgrees ==
  ASSUME NEW S, NEW U, NEW s, NEW t, NEW N \in Nat, NEW f, NEW g,
         InSteps(f, S, s, N), InSteps(g, U, t, N),
         \A n \in 1 .. N : s[n] = t[n] /\ (s[n] \in S <=> t[n] \in U)
  PROVE  f[N] = g[N]
<1> DEFINE good == {n \in 0 .. N : f[n] = g[n]}
<1>1. good \in SUBSET (0 .. N) /\ 0 \in good /\ N \in 0 .. N
  BY DEF InSteps
<1>2. \A n \in 1 .. N : n - 1 \in good => n \in good
  BY DEF InSteps
<1>3. N \in good
  <2> HIDE DEF good
  <2> QED
    BY <1>1, <1>2, UpTo
<1> QED
  BY <1>3

LEMMA AmongAppend ==
  ASSUME NEW S, NEW T, NEW s \in Seq(T), NEW e \in T
  PROVE  Among(S, Append(s, e)) = IF e \in S THEN Append(Among(S, s), e) ELSE Among(S, s)
<1> DEFINE N == Len(s)
           t == Append(s, e)
<1>1. N \in Nat /\ Len(t) = N + 1 /\ t[N + 1] = e /\ \A n \in 1 .. N : t[n] = s[n]
  BY Appended
<1> HIDE DEF t
<1>2. PICK f : InSteps(f, S, s, N) /\ Among(S, s) = f[N]
  BY <1>1, AmongInSteps
<1> HIDE DEF N
<1>3. PICK g : InSteps(g, S, t, N + 1) /\ Among(S, t) = g[N + 1]
  <2>1. Len(t) \in Nat
    BY <1>1
  <2> QED
    BY <1>1, <2>1, AmongInSteps
<1>4. f[N] = g[N]
  <2>1. InSteps(g, S, t, N)
    BY <1>1, <1>3 DEF InSteps
  <2>2. \A n \in 1 .. N : s[n] = t[n] /\ (s[n] \in S <=> t[n] \in S)
    BY <1>1
  <2> QED
    BY <1>1, <1>2, <2>1, <2>2, AmongAgrees
<1>5. N + 1 \in 1 .. N + 1 /\ (N + 1) - 1 = N
  BY <1>1
<1>6. g[N + 1] = IF e \in S THEN Append(g[N], e) ELSE g[N]
  BY <1>1, <1>3, <1>5 DEF InSteps
<1> QED
  BY <1>2, <1>3, <1>4, <1>6 DEF t

LEMMA AmongSame ==
  ASSUME NEW S, NEW U, NEW T, NEW s \in Seq(T), \A r \in ToSet(s) : r \in S <=> r \in U
  PROVE  Among(S, s) = Among(U, s)
<1>1. Len(s) \in Nat /\ \A n \in 1 .. Len(s) : s[n] \in S <=> s[n] \in U
  <2>1. Len(s) \in Nat /\ DOMAIN s = 1 .. Len(s)
    OBVIOUS
  <2> QED
    BY <2>1 DEF ToSet
<1>2. PICK f : InSteps(f, S, s, Len(s)) /\ Among(S, s) = f[Len(s)]
  BY <1>1, AmongInSteps
<1>3. PICK g : InSteps(g, U, s, Len(s)) /\ Among(U, s) = g[Len(s)]
  BY <1>1, AmongInSteps
<1>4. f[Len(s)] = g[Len(s)]
  BY <1>1, <1>2, <1>3, AmongAgrees
<1> QED
  BY <1>2, <1>3, <1>4

(* What is wanted throughout is kept as it comes.                           *)
LEMMA AmongBehind ==
  ASSUME NEW S, NEW T, NEW s \in Seq(T), NEW t \in Seq(T), \A k \in 1 .. Len(t) : t[k] \in S
  PROVE  Among(S, s \o t) = Among(S, s) \o t
<1> DEFINE kept == Among(S, s)
           head(m) == SubSeq(t, 1, m)
           Kept(m) == Among(S, s \o head(m)) = kept \o head(m)
           good == {m \in 0 .. Len(t) : Kept(m)}
<1>1. Len(t) \in Nat /\ kept \in Seq(T)
  <2>1. kept \in Seq(S \cap T)
    BY AmongKept
  <2> HIDE DEF kept
  <2>2. \A X, Y : X \cap Y \subseteq Y
    OBVIOUS
  <2> QED
    BY <2>1, <2>2
<1>2. Kept(0)
  <2>1. s \o head(0) = s /\ (kept \in Seq(T) => kept \o head(0) = kept)
    <3> HIDE DEF kept
    <3> QED
      OBVIOUS
  <2> HIDE DEF head
  <2> QED
    BY <1>1, <2>1
<1> HIDE DEF kept
<1>3. ASSUME NEW m \in 1 .. Len(t), Kept(m - 1) PROVE Kept(m)
  <2>1. head(m - 1) \in Seq(T) /\ t[m] \in T /\ head(m) = Append(head(m - 1), t[m])
    BY <1>1
  <2> HIDE DEF head
  <2>2. \A a, u, e : a \in Seq(T) /\ u \in Seq(T) /\ e \in T =>
                    a \o Append(u, e) = Append(a \o u, e) /\ a \o u \in Seq(T)
    OBVIOUS
  <2>3. Among(S, Append(s \o head(m - 1), t[m])) = Append(Among(S, s \o head(m - 1)), t[m])
    <3>1. s \o head(m - 1) \in Seq(T)
      BY <2>1, <2>2
    <3> QED
      BY <2>1, <3>1, AmongAppend
  <2>4. \A a \in Seq(T) : a \o head(m) = Append(a \o head(m - 1), t[m])
    <3>1. \A a \in Seq(T) : a \o Append(head(m - 1), t[m]) = Append(a \o head(m - 1), t[m])
      BY <2>1, <2>2
    <3> QED
      BY <2>1, <3>1, Zenon
  <2>5. /\ s \o head(m) = Append(s \o head(m - 1), t[m])
        /\ kept \o head(m) = Append(kept \o head(m - 1), t[m])
    BY <1>1, <2>4
  <2> QED
    BY <1>3, <2>3, <2>5
<1>4. Kept(Len(t))
  <2> HIDE DEF Kept
  <2>1. good \in SUBSET (0 .. Len(t)) /\ 0 \in good /\ Len(t) \in 0 .. Len(t)
    BY <1>1, <1>2
  <2>2. \A m \in 1 .. Len(t) : m - 1 \in good => m \in good
    BY <1>3
  <2> HIDE DEF good
  <2>3. Len(t) \in good
    BY <1>1, <2>1, <2>2, UpTo
  <2> QED
    BY <2>3 DEF good
<1>5. head(Len(t)) = t
  BY <1>1
<1> HIDE DEF head
<1> QED
  BY <1>4, <1>5 DEF kept

LEMMA AmongNone ==
  ASSUME NEW S
  PROVE  Among(S, <<>>) = <<>>
<1>1. Len(<<>>) = 0 /\ Len(<<>>) \in Nat
  OBVIOUS
<1> QED
  BY <1>1, AmongInSteps DEF InSteps

LEMMA AmongAll ==
  ASSUME NEW S, NEW T, NEW t \in Seq(T), \A k \in 1 .. Len(t) : t[k] \in S
  PROVE  Among(S, t) = t
<1>1. <<>> \in Seq(T) /\ <<>> \o t = t
  OBVIOUS
<1>2. \A s \in Seq(T) : Among(S, s \o t) = Among(S, s) \o t
  BY AmongBehind
<1>3. Among(S, <<>> \o t) = Among(S, <<>>) \o t
  BY <1>1, <1>2
<1> QED
  BY <1>1, <1>3, AmongNone

-----------------------------------------------------------------------------
(* The first of many *)

(* What a loop keeps of a list in two turns, of nothing twice, is no longer *)
(* than the list.                                                          *)
LEMMA AmongApart ==
  ASSUME NEW S, NEW U, NEW T, NEW s \in Seq(T), \A r \in U : r \notin S
  PROVE  Len(Among(S, s)) + Len(Among(U, s)) <= Len(s)
<1>1. Len(s) \in Nat
  OBVIOUS
<1>2. PICK f : InSteps(f, S, s, Len(s)) /\ Among(S, s) = f[Len(s)]
  BY <1>1, AmongInSteps
<1>3. PICK g : InSteps(g, U, s, Len(s)) /\ Among(U, s) = g[Len(s)]
  BY <1>1, AmongInSteps
<1> DEFINE N == Len(s)
           Fits(n) == f[n] \in Seq(T) /\ g[n] \in Seq(T) /\ Len(f[n]) + Len(g[n]) <= n
           Good == {n \in 0 .. N : Fits(n)}
<1>4. Fits(0)
  <2>1. f[0] = <<>> /\ g[0] = <<>>
    BY <1>2, <1>3 DEF InSteps
  <2>2. <<>> \in Seq(T) /\ Len(<<>>) + Len(<<>>) <= 0
    OBVIOUS
  <2> QED
    BY <2>1, <2>2
<1>5. \A n \in 1 .. N : Fits(n - 1) => Fits(n)
  <2> SUFFICES ASSUME NEW n \in 1 .. N, Fits(n - 1) PROVE Fits(n)
    OBVIOUS
  <2>1. /\ f[n - 1] \in Seq(T) /\ g[n - 1] \in Seq(T)
        /\ Len(f[n - 1]) + Len(g[n - 1]) <= n - 1
    OBVIOUS
  <2>2. /\ f[n] = IF s[n] \in S THEN Append(f[n - 1], s[n]) ELSE f[n - 1]
        /\ g[n] = IF s[n] \in U THEN Append(g[n - 1], s[n]) ELSE g[n - 1]
    BY <1>2, <1>3 DEF InSteps
  <2>3. s[n] \in T /\ ~ (s[n] \in S /\ s[n] \in U)
    OBVIOUS
  <2>4. \A t \in Seq(T), e \in T : Append(t, e) \in Seq(T) /\ Len(Append(t, e)) = Len(t) + 1
    OBVIOUS
  <2>5. Len(f[n - 1]) \in Nat /\ Len(g[n - 1]) \in Nat
    BY <2>1
  <2>6. /\ f[n] \in Seq(T) /\ Len(f[n]) = IF s[n] \in S THEN Len(f[n - 1]) + 1 ELSE Len(f[n - 1])
        /\ g[n] \in Seq(T) /\ Len(g[n]) = IF s[n] \in U THEN Len(g[n - 1]) + 1 ELSE Len(g[n - 1])
    BY <2>1, <2>2, <2>3, <2>4
  <2>7. Len(f[n]) + Len(g[n]) <= n
    <3> DEFINE a == Len(f[n - 1])
               b == Len(g[n - 1])
    <3>1. a \in Nat /\ b \in Nat /\ a + b <= n - 1
      BY <2>1, <2>5, Zenon
    <3>2. n \in Int
      OBVIOUS
    <3>3. /\ Len(f[n]) = IF s[n] \in S THEN a + 1 ELSE a
          /\ Len(g[n]) = IF s[n] \in U THEN b + 1 ELSE b
      BY <2>6
    <3> HIDE DEF a, b
    <3> QED
      BY <2>3, <3>1, <3>2, <3>3
  <2> QED
    BY <2>6, <2>7
<1> HIDE DEF Fits
<1>6. N \in Good
  <2>1. Good \in SUBSET (0 .. N) /\ N \in 0 .. N /\ 0 \in Good
    BY <1>1, <1>4
  <2>2. \A n \in 1 .. N : n - 1 \in Good => n \in Good
    BY <1>1, <1>5
  <2> HIDE DEF Good
  <2> QED
    BY <1>1, <2>1, <2>2, UpTo
<1> QED
  BY <1>2, <1>3, <1>6 DEF Fits

(* If all up to a place of a list that repeats nothing are among finitely   *)
(* many, it is one of the first so many.                                   *)
LEMMA FewBefore ==
  ASSUME NEW T, NEW s \in Seq(T), NEW k \in 1 .. Len(s), NEW S, IsFiniteSet(S),
         \A i, j \in 1 .. Len(s) : i < j => s[i] # s[j],
         \A i \in 1 .. k : s[i] \in S
  PROVE  k <= Cardinality(S)
<1> DEFINE places == [i \in 1 .. k |-> s[i]]
<1>1. k \in Nat /\ Len(s) \in Nat /\ 1 .. k \subseteq 1 .. Len(s)
  OBVIOUS
<1>2. \A i, j \in 1 .. k : places[i] = places[j] => i = j
  BY <1>1
<1>3. places \in Injection(1 .. k, S)
  BY <1>2 DEF Injection, IsInjective
<1>4. Cardinality(1 .. k) <= Cardinality(S)
  BY <1>3, FS_Injection
<1>5. Cardinality(1 .. k) = k
  BY <1>1, FS_Interval
<1> QED
  BY <1>4, <1>5

(* What is at one of the first n places of a list is in its first part.     *)
LEMMA InFirst ==
  ASSUME NEW T, NEW s \in Seq(T), NEW n \in Nat, NEW k \in 1 .. Len(s), k <= n
  PROVE  s[k] \in ToSet(First(n, s))
<1>1. k \in DOMAIN s
  OBVIOUS
<1>2. /\ k \in DOMAIN First(n, s) \/ (Len(First(n, s)) = n /\ k > n)
      /\ \A j \in DOMAIN First(n, s) : First(n, s)[j] = s[j]
  BY <1>1, FirstFacts
<1>3. k \in DOMAIN First(n, s) /\ First(n, s)[k] = s[k]
  BY <1>2
<1> QED
  BY <1>3 DEF ToSet

(* A query whose limit is not met answers with its table, in order.         *)
LEMMA AnswerInOrder ==
  ASSUME NEW table, NEW key, NEW n \in Nat, NEW rows \in OrderByLimit(table, key, n)
  PROVE  /\ rows \in Seq(table) /\ Len(rows) <= Cardinality(table)
         /\ \A i, j \in 1 .. Len(rows) : i < j => rows[i] # rows[j] /\ key[rows[i]] <= key[rows[j]]
<1>1. PICK m \in 0 .. n : m <= Cardinality(table) /\ rows \in [1 .. m -> table]
  BY DEF OrderByLimit
<1>2. rows \in Seq(table) /\ Len(rows) = m /\ DOMAIN rows = 1 .. m
  BY <1>1
<1>3. \A i, j \in DOMAIN rows : i < j => rows[i] # rows[j] /\ key[rows[i]] <= key[rows[j]]
  BY DEF OrderByLimit
<1> QED
  BY <1>1, <1>2, <1>3

(* What a function makes of finitely many is finitely many.                 *)
LEMMA FewMade ==
  ASSUME NEW S, IsFiniteSet(S), NEW g, DOMAIN g = S, g = [x \in S |-> g[x]]
  PROVE  IsFiniteSet({g[x] : x \in S})
<1> DEFINE T == {g[x] : x \in S}
<1>1. g \in Surjection(S, T)
  BY DEF Surjection
<1> HIDE DEF T
<1>2. IsFiniteSet(T)
  BY <1>1, FS_Surjection
<1> QED
  BY <1>2 DEF T

(* What is left of a list without its head is behind it.                    *)
LEMMA HeadOrTail ==
  ASSUME NEW X, NEW s \in Seq(X), s # <<>>
  PROVE  /\ Tail(s) \in Seq(X)
         /\ \A e \in ToSet(s) : e = Head(s) \/ e \in ToSet(Tail(s))
<1>1. /\ Tail(s) \in Seq(X) /\ Head(s) = s[1] /\ DOMAIN s = 1 .. Len(s)
      /\ DOMAIN Tail(s) = 1 .. Len(s) - 1 /\ Len(s) \in Nat
      /\ \A n \in 1 .. Len(s) - 1 : Tail(s)[n] = s[n + 1]
  OBVIOUS
<1>2. ASSUME NEW e \in ToSet(s), e # Head(s) PROVE e \in ToSet(Tail(s))
  <2>1. PICK n \in 1 .. Len(s) : e = s[n]
    BY <1>1 DEF ToSet
  <2>2. n - 1 \in 1 .. Len(s) - 1 /\ (n - 1) + 1 = n
    BY <1>1, <1>2, <2>1
  <2>3. Tail(s)[n - 1] = e
    BY <1>1, <2>1, <2>2
  <2> QED
    BY <1>1, <2>2, <2>3 DEF ToSet
<1> QED
  BY <1>1, <1>2
=============================================================================
