-------------------------- MODULE ServiceWindowProofs --------------------------
(***************************************************************************)
(* Departures from the schedule, over every feed and request: what is      *)
(* shown runs and is shown once, in order; what leaves soonest is shown;   *)
(* no publication of it is lost; and the period of the feed is respected.  *)
(***************************************************************************)
EXTENDS ServiceWindow, ListFacts

-----------------------------------------------------------------------------
(* Days *)

(* The day of an instant is the last to have begun.                         *)
LEMMA DayBegun ==
  ASSUME NEW t \in Int, NEW first \in Days, Midnight[first] <= t
  PROVE  /\ DayOf(t) \in Days /\ Midnight[DayOf(t)] <= t
         /\ \A d \in Days : Midnight[d] <= t => d <= DayOf(t)
<1> DEFINE Begun == {d \in Days : Midnight[d] <= t}
<1>1. PICK lo \in Days, hi \in Days : Days = lo .. hi
  BY ClocksAssumption
<1>2. lo \in Int /\ hi \in Int /\ Begun \subseteq lo .. hi /\ Begun # {}
  BY <1>1, ClocksAssumption
<1>3. Max(Begun) \in Begun /\ \A d \in Begun : d <= Max(Begun)
  <2> HIDE DEF Begun
  <2> QED
    BY <1>2, GreatestWithin
<1> QED
  BY <1>3 DEF DayOf

-----------------------------------------------------------------------------
(* Putting the rows in order *)

InOrder(rows) == \A i, j \in DOMAIN rows : i < j => rows[i].at <= rows[j].at

(* What stands where, when e is put into a list at place i.                 *)
LEMMA Inserted ==
  ASSUME NEW T, NEW s \in Seq(T), NEW e \in T, NEW i \in 1 .. Len(s) + 1
  PROVE  /\ InsertAt(s, i, e) \in Seq(T) /\ Len(InsertAt(s, i, e)) = Len(s) + 1
         /\ \A k \in 1 .. Len(s) + 1 :
              InsertAt(s, i, e)[k] = IF k < i THEN s[k] ELSE IF k = i THEN e ELSE s[k - 1]
<1> DEFINE front == SubSeq(s, 1, i - 1)
           back == SubSeq(s, i, Len(s))
<1>1. Len(s) \in Nat /\ i \in Int /\ 1 <= i /\ i <= Len(s) + 1
  OBVIOUS
<1>2. /\ front \in Seq(T) /\ Len(front) = i - 1
      /\ \A k \in 1 .. i - 1 : front[k] = s[k]
  BY <1>1
<1>3. /\ back \in Seq(T) /\ Len(back) = Len(s) - i + 1
      /\ \A k \in 1 .. Len(s) - i + 1 : back[k] = s[i + k - 1]
  BY <1>1
<1>4. InsertAt(s, i, e) = (front \o <<e>>) \o back
  BY DEF InsertAt
<1> HIDE DEF front, back
<1> DEFINE begun == front \o <<e>>
<1>5. /\ begun \in Seq(T) /\ Len(begun) = i
      /\ \A k \in 1 .. i : begun[k] = IF k < i THEN front[k] ELSE e
  BY <1>1, <1>2
<1> HIDE DEF begun
<1>6. /\ begun \o back \in Seq(T) /\ Len(begun \o back) = Len(s) + 1
      /\ \A k \in 1 .. Len(s) + 1 :
           (begun \o back)[k] = IF k <= i THEN begun[k] ELSE back[k - i]
  <2>1. \A a, b \in Seq(T) :
          /\ a \o b \in Seq(T) /\ Len(a \o b) = Len(a) + Len(b)
          /\ \A k \in 1 .. Len(a) + Len(b) :
               (a \o b)[k] = IF k <= Len(a) THEN a[k] ELSE b[k - Len(a)]
    OBVIOUS
  <2>2. Len(begun) + Len(back) = Len(s) + 1
    BY <1>1, <1>3, <1>5
  <2>3. /\ begun \o back \in Seq(T) /\ Len(begun \o back) = Len(begun) + Len(back)
        /\ \A k \in 1 .. Len(begun) + Len(back) :
             (begun \o back)[k] = IF k <= Len(begun) THEN begun[k] ELSE back[k - Len(begun)]
    BY <1>3, <1>5, <2>1
  <2> QED
    BY <1>5, <2>2, <2>3
<1>7. \A k \in 1 .. Len(s) + 1 : k > i => back[k - i] = s[k - 1]
  <2> SUFFICES ASSUME NEW k \in 1 .. Len(s) + 1, k > i PROVE back[k - i] = s[k - 1]
    OBVIOUS
  <2>1. k - i \in 1 .. Len(s) - i + 1 /\ i + (k - i) - 1 = k - 1
    BY <1>1
  <2> QED
    BY <1>3, <2>1
<1>8. \A k \in 1 .. Len(s) + 1 :
        (begun \o back)[k] = IF k < i THEN s[k] ELSE IF k = i THEN e ELSE s[k - 1]
  <2> TAKE k \in 1 .. Len(s) + 1
  <2>1. CASE k < i
    <3>1. k \in 1 .. i /\ k \in 1 .. i - 1 /\ k <= i
      BY <1>1, <2>1
    <3>2. (begun \o back)[k] = begun[k] /\ begun[k] = front[k] /\ front[k] = s[k]
      BY <1>2, <1>5, <1>6, <2>1, <3>1
    <3> QED
      BY <2>1, <3>2
  <2>2. CASE k = i
    <3>1. k \in 1 .. i /\ k <= i /\ ~ k < i
      BY <1>1, <2>2
    <3>2. (begun \o back)[k] = begun[k] /\ begun[k] = e
      BY <1>5, <1>6, <3>1
    <3> QED
      BY <2>2, <3>1, <3>2
  <2>3. CASE k > i
    <3>1. ~ k <= i /\ ~ k < i /\ k # i
      BY <1>1, <2>3
    <3>2. (begun \o back)[k] = back[k - i]
      BY <1>6, <3>1
    <3> QED
      BY <1>7, <2>3, <3>1, <3>2
  <2>4. k \in Int /\ i \in Int
    BY <1>1
  <2>5. k < i \/ k = i \/ k > i
    BY <2>4
  <2> QED
    BY <2>1, <2>2, <2>3, <2>5, Zenon
<1> QED
  BY <1>4, <1>6, <1>8 DEF begun

(* A row that finds its place leaves the rows in order.                     *)
LEMMA PlacedFacts ==
  ASSUME NEW T, \A r \in T : r.at \in Int, NEW s \in Seq(T), InOrder(s), NEW e \in T
  PROVE  /\ Placed(s, e) \in Seq(T) /\ InOrder(Placed(s, e))
         /\ \A r : (r = e \/ r \in ToSet(s)) => r \in ToSet(Placed(s, e))
<1> DEFINE before == {0} \cup {k \in DOMAIN s : s[k].at <= e.at}
           p == Max(before)
           placed == Placed(s, e)
<1>1. Len(s) \in Nat /\ DOMAIN s = 1 .. Len(s) /\ \A k \in 1 .. Len(s) : s[k] \in T
  OBVIOUS
<1>2. p \in before /\ \A k \in before : k <= p
  <2>1. before \subseteq 0 .. Len(s) /\ before # {} /\ 0 \in Int /\ Len(s) \in Int
    BY <1>1
  <2> HIDE DEF before
  <2>2. Max(before) \in before /\ \A k \in before : k <= Max(before)
    BY <2>1, GreatestWithin
  <2> QED
    BY <2>2
<1>3. p \in 0 .. Len(s) /\ (p # 0 => s[p].at <= e.at)
  BY <1>1, <1>2
<1>4. \A k \in 1 .. Len(s) : k > p => s[k].at > e.at
  <2> SUFFICES ASSUME NEW k \in 1 .. Len(s), k > p PROVE s[k].at > e.at
    OBVIOUS
  <2>1. k \notin before
    BY <1>2, <1>3
  <2>2. s[k].at \in Int /\ e.at \in Int
    BY <1>1
  <2> QED
    BY <1>1, <2>1, <2>2
<1>5. \A k \in 1 .. Len(s) : k <= p => s[k].at <= e.at
  <2> SUFFICES ASSUME NEW k \in 1 .. Len(s), k <= p PROVE s[k].at <= e.at
    OBVIOUS
  <2>1. p \in 1 .. Len(s) /\ s[k].at \in Int /\ s[p].at \in Int /\ e.at \in Int
    BY <1>1, <1>3
  <2>2. k = p \/ s[k].at <= s[p].at
    BY <1>1, <2>1 DEF InOrder
  <2> QED
    BY <1>3, <2>1, <2>2
<1>6. placed = InsertAt(s, 1 + p, e)
  BY DEF Placed
<1> HIDE DEF before, p, placed
<1>7. 1 + p \in 1 .. Len(s) + 1
  BY <1>1, <1>3
<1>8. /\ placed \in Seq(T) /\ Len(placed) = Len(s) + 1
      /\ \A k \in 1 .. Len(s) + 1 :
           placed[k] = IF k < 1 + p THEN s[k] ELSE IF k = 1 + p THEN e ELSE s[k - 1]
  <2> DEFINE i == 1 + p
  <2>1. i \in 1 .. Len(s) + 1
    BY <1>7
  <2> HIDE DEF i
  <2>2. /\ InsertAt(s, i, e) \in Seq(T) /\ Len(InsertAt(s, i, e)) = Len(s) + 1
        /\ \A k \in 1 .. Len(s) + 1 :
             InsertAt(s, i, e)[k] = IF k < i THEN s[k] ELSE IF k = i THEN e ELSE s[k - 1]
    BY <2>1, Inserted
  <2> QED
    BY <1>6, <2>2 DEF i
<1>9. InOrder(placed)
  <2> SUFFICES ASSUME NEW i \in 1 .. Len(s) + 1, NEW j \in 1 .. Len(s) + 1, i < j
               PROVE  placed[i].at <= placed[j].at
    BY <1>1, <1>8 DEF InOrder
  <2>1. \A a, b \in 1 .. Len(s) : a < b => s[a].at <= s[b].at
    BY <1>1 DEF InOrder
  <2>2. \A a \in 1 .. Len(s) : s[a].at \in Int
    BY <1>1
  <2>3. e.at \in Int
    OBVIOUS
  <2>4. CASE j < 1 + p
    BY <1>1, <1>3, <1>8, <2>1, <2>4
  <2>5. CASE j = 1 + p
    <3>1. i \in 1 .. Len(s) /\ i <= p /\ placed[i] = s[i] /\ placed[j] = e
      BY <1>1, <1>3, <1>8, <2>5
    <3> QED
      BY <1>5, <3>1
  <2>6. CASE j > 1 + p
    <3>1. j - 1 \in 1 .. Len(s) /\ j - 1 > p /\ placed[j] = s[j - 1]
      BY <1>1, <1>3, <1>8, <2>6
    <3>2. CASE i < 1 + p
      <4>1. i \in 1 .. Len(s) /\ i < j - 1 /\ placed[i] = s[i]
        BY <1>1, <1>3, <1>8, <2>6, <3>2
      <4> QED
        BY <2>1, <3>1, <4>1
    <3>3. CASE i = 1 + p
      <4>1. placed[i] = e
        BY <1>3, <1>8, <3>3
      <4>2. s[j - 1].at > e.at /\ s[j - 1].at \in Int
        BY <1>4, <2>2, <3>1
      <4> QED
        <5>1. e.at <= s[j - 1].at
          BY <2>3, <4>2
        <5> QED
          BY <3>1, <4>1, <5>1
    <3>4. CASE i > 1 + p
      <4>1. i - 1 \in 1 .. Len(s) /\ placed[i] = s[i - 1] /\ i - 1 < j - 1
        BY <1>1, <1>3, <1>8, <3>4
      <4> QED
        BY <2>1, <3>1, <4>1
    <3> QED
      BY <1>3, <3>2, <3>3, <3>4
  <2> QED
    BY <1>3, <2>4, <2>5, <2>6
<1>10. ASSUME NEW r, r = e \/ r \in ToSet(s) PROVE r \in ToSet(placed)
  <2>1. DOMAIN placed = 1 .. Len(s) + 1
    BY <1>8
  <2>2. CASE r = e
    <3>1. 1 + p \in DOMAIN placed /\ placed[1 + p] = e
      BY <1>3, <1>7, <1>8, <2>1
    <3> QED
      BY <2>2, <3>1 DEF ToSet
  <2>3. CASE r \in ToSet(s)
    <3>1. PICK k \in 1 .. Len(s) : r = s[k]
      BY <1>1, <2>3 DEF ToSet
    <3>2. k < 1 + p => k \in 1 .. Len(s) + 1 /\ placed[k] = r
      BY <1>1, <1>8, <3>1
    <3>3. ~ k < 1 + p => k + 1 \in 1 .. Len(s) + 1 /\ placed[k + 1] = r
      <4> SUFFICES ASSUME ~ k < 1 + p PROVE k + 1 \in 1 .. Len(s) + 1 /\ placed[k + 1] = r
        OBVIOUS
      <4>1. k + 1 \in 1 .. Len(s) + 1 /\ ~ k + 1 < 1 + p /\ k + 1 # 1 + p /\ (k + 1) - 1 = k
        BY <1>1, <1>3
      <4> QED
        BY <1>8, <3>1, <4>1
    <3> QED
      BY <2>1, <3>2, <3>3 DEF ToSet
  <2> QED
    BY <1>10, <2>2, <2>3
<1> QED
  BY <1>8, <1>9, <1>10 DEF placed

(* f[n] is what sortDepartures has made of the first n rows.                *)
Sorts(f, rows, N) ==
  f = [n \in 0 .. N |-> IF n = 0 THEN <<>> ELSE Placed(f[n - 1], rows[n])]

LEMMA SortsDefined ==
  ASSUME NEW rows, NEW N \in Nat
  PROVE  \E f : Sorts(f, rows, N)
<1> DEFINE Good == {k \in 0 .. N : \E f : Sorts(f, rows, k)}
<1>1. 0 \in Good
  <2>1. Sorts([n \in 0 .. 0 |-> <<>>], rows, 0)
    BY DEF Sorts
  <2> QED
    BY <2>1
<1>2. ASSUME NEW k \in 1 .. N, k - 1 \in Good PROVE k \in Good
  <2>1. PICK f : Sorts(f, rows, k - 1)
    BY <1>2
  <2> DEFINE g == [n \in 0 .. k |-> IF n = 0 THEN <<>> ELSE Placed(f[n - 1], rows[n])]
  <2>2. ASSUME NEW n \in 0 .. k, n # 0 PROVE g[n - 1] = f[n - 1]
    <3>1. n - 1 \in 0 .. k - 1 /\ n - 1 \in 0 .. k
      BY <2>2
    <3>2. f[n - 1] = IF n - 1 = 0 THEN <<>> ELSE Placed(f[(n - 1) - 1], rows[n - 1])
      BY <2>1, <3>1 DEF Sorts
    <3> QED
      BY <3>1, <3>2
  <2>3. g = [n \in 0 .. k |-> IF n = 0 THEN <<>> ELSE Placed(g[n - 1], rows[n])]
    BY <2>2
  <2>4. Sorts(g, rows, k)
    BY <2>3 DEF Sorts
  <2> QED
    BY <2>4
<1>3. N \in Good
  <2>1. Good \in SUBSET (0 .. N) /\ N \in 0 .. N
    OBVIOUS
  <2> HIDE DEF Good
  <2> QED
    BY <1>1, <1>2, <2>1, UpTo
<1> QED
  BY <1>3

(* The rows put in order are in order, and none of them is lost.            *)
LEMMA SoonestFacts ==
  ASSUME NEW T, \A r \in T : r.at \in Int, NEW rows \in Seq(T)
  PROVE  /\ Soonest(rows) \in Seq(T) /\ InOrder(Soonest(rows))
         /\ \A r \in ToSet(rows) : r \in ToSet(Soonest(rows))
<1> DEFINE N == Len(rows)
           sorted == CHOOSE f : Sorts(f, rows, N)
           Good(n) == /\ sorted[n] \in Seq(T) /\ InOrder(sorted[n])
                      /\ \A k \in 1 .. n : rows[k] \in ToSet(sorted[n])
           good == {n \in 0 .. N : Good(n)}
<1>1. N \in Nat /\ \A n \in 1 .. N : rows[n] \in T
  OBVIOUS
<1>2. ToSet(rows) = {rows[k] : k \in 1 .. N}
  BY DEF ToSet
<1>3. Soonest(rows) = sorted[N]
  BY DEF Soonest, Sorts
<1>4. Sorts(sorted, rows, N)
  BY <1>1, SortsDefined
<1> HIDE DEF sorted, N
<1>5. /\ sorted[0] = <<>>
      /\ \A n \in 1 .. N : sorted[n] = Placed(sorted[n - 1], rows[n])
  <2>1. sorted = [n \in 0 .. N |->
                    IF n = 0 THEN <<>> ELSE Placed(sorted[n - 1], rows[n])]
    BY <1>4 DEF Sorts
  <2>2. \A n \in 0 .. N :
          sorted[n] = IF n = 0 THEN <<>> ELSE Placed(sorted[n - 1], rows[n])
    BY <2>1
  <2>3. 0 \in 0 .. N /\ \A n \in 1 .. N : n \in 0 .. N /\ n # 0
    BY <1>1
  <2> QED
    BY <2>2, <2>3
<1>6. Good(0)
  BY <1>5 DEF InOrder
<1>7. ASSUME NEW n \in 1 .. N, Good(n - 1) PROVE Good(n)
  <2>1. sorted[n - 1] \in Seq(T) /\ InOrder(sorted[n - 1]) /\ rows[n] \in T
    BY <1>1, <1>7
  <2>2. LET s == sorted[n - 1]
            e == rows[n]
        IN  /\ Placed(s, e) \in Seq(T) /\ InOrder(Placed(s, e))
            /\ \A r : (r = e \/ r \in ToSet(s)) => r \in ToSet(Placed(s, e))
    BY <2>1, PlacedFacts
  <2>3. \A k \in 1 .. n : k = n \/ k \in 1 .. n - 1
    BY <1>1
  <2>4. sorted[n] = Placed(sorted[n - 1], rows[n])
    BY <1>5
  <2> QED
    BY <1>7, <2>2, <2>3, <2>4
<1>8. Good(N)
  <2> HIDE DEF Good
  <2>1. good \in SUBSET (0 .. N) /\ 0 \in good /\ N \in 0 .. N
    BY <1>1, <1>6
  <2>2. \A n \in 1 .. N : n - 1 \in good => n \in good
    BY <1>7
  <2> HIDE DEF good
  <2>3. N \in good
    BY <1>1, <2>1, <2>2, UpTo
  <2> QED
    BY <2>3 DEF good
<1> QED
  BY <1>2, <1>3, <1>8

-----------------------------------------------------------------------------
(* Merging the publications of one service *)

(* A row shown, its alternatives being publications of the same service.    *)
Entries(T) ==
  {x \in [row : T, alts : Seq({Published(c) : c \in T})] :
     \A a \in DOMAIN x.alts : \E c \in T :
       Published(c) = x.alts[a] /\ Physical(c) = Physical(x.row)}

(* r is shown as x.                                                         *)
ShownAs(x, r) ==
  /\ Physical(x.row) = Physical(r)
  /\ Published(x.row) = Published(r) \/ \E a \in DOMAIN x.alts : x.alts[a] = Published(r)

(* The rows shown are of different services, in order.                      *)
Apart(m) ==
  \A i, j \in DOMAIN m :
    i < j => m[i].row.at <= m[j].row.at /\ Physical(m[i].row) # Physical(m[j].row)

LEMMA EntryBegins ==
  ASSUME NEW T, NEW e \in T
  PROVE  [row |-> e, alts |-> <<>>] \in Entries(T)
<1> DEFINE P == {Published(c) : c \in T}
           x == [row |-> e, alts |-> <<>>]
<1>1. <<>> \in Seq(P) /\ DOMAIN x.alts = {}
  OBVIOUS
<1> HIDE DEF P
<1>2. x \in [row : T, alts : Seq(P)]
  BY <1>1
<1> HIDE DEF x
<1> QED
  BY <1>1, <1>2 DEF Entries, P, x

LEMMA EntryGrows ==
  ASSUME NEW T, NEW x \in Entries(T), NEW e \in T, Physical(x.row) = Physical(e)
  PROVE  LET y == [x EXCEPT !.alts = Append(@, Published(e))]
         IN  /\ y \in Entries(T) /\ y.row = x.row
             /\ ShownAs(y, e)
             /\ \A r : ShownAs(x, r) => ShownAs(y, r)
<1> DEFINE P == {Published(c) : c \in T}
           p == Published(e)
           y == [x EXCEPT !.alts = Append(@, p)]
<1>1. /\ x \in [row : T, alts : Seq(P)]
      /\ \A a \in DOMAIN x.alts : \E c \in T :
           Published(c) = x.alts[a] /\ Physical(c) = Physical(x.row)
  BY DEF Entries
<1>2. p \in P
  OBVIOUS
<1> HIDE DEF P, p
<1>3. x.alts \in Seq(P) /\ Len(x.alts) \in Nat
  BY <1>1
<1>4. y \in [row : T, alts : Seq(P)] /\ y.row = x.row /\ y.alts = Append(x.alts, p)
  <2>1. Append(x.alts, p) \in Seq(P)
    BY <1>2, <1>3
  <2> QED
    BY <1>1, <2>1
<1>5. /\ DOMAIN x.alts = 1 .. Len(x.alts) /\ DOMAIN y.alts = 1 .. Len(x.alts) + 1
      /\ \A a \in 1 .. Len(x.alts) : y.alts[a] = x.alts[a]
      /\ y.alts[Len(x.alts) + 1] = p
  BY <1>2, <1>3, <1>4
<1> HIDE DEF y
<1>6. \A a \in 1 .. Len(x.alts) + 1 : a \in 1 .. Len(x.alts) \/ a = Len(x.alts) + 1
  BY <1>3
<1>7. \A a \in DOMAIN y.alts : \E c \in T :
        Published(c) = y.alts[a] /\ Physical(c) = Physical(y.row)
  <2> SUFFICES ASSUME NEW a \in DOMAIN y.alts
               PROVE  \E c \in T : Published(c) = y.alts[a] /\ Physical(c) = Physical(y.row)
    OBVIOUS
  <2>1. CASE a \in 1 .. Len(x.alts)
    BY <1>1, <1>4, <1>5, <2>1
  <2>2. CASE a = Len(x.alts) + 1
    BY <1>4, <1>5, <2>2 DEF p
  <2> QED
    BY <1>5, <1>6, <2>1, <2>2
<1>8. y \in Entries(T)
  BY <1>4, <1>7 DEF Entries, P
<1>9. Len(x.alts) + 1 \in DOMAIN y.alts /\ \A a \in DOMAIN x.alts : a \in DOMAIN y.alts
  BY <1>3, <1>5
<1>10. ShownAs(y, e)
  <2>1. Physical(y.row) = Physical(e) /\ y.alts[Len(x.alts) + 1] = Published(e)
    BY <1>4, <1>5 DEF p
  <2> QED
    BY <1>9, <2>1 DEF ShownAs
<1>11. \A r : ShownAs(x, r) => ShownAs(y, r)
  BY <1>4, <1>5, <1>9 DEF ShownAs
<1> QED
  BY <1>4, <1>8, <1>10, <1>11 DEF y, p

(* What one more row does to the rows shown, when none of them leaves later. *)
LEMMA MergedFacts ==
  ASSUME NEW T, \A r \in T : r.at \in Int, NEW m \in Seq(Entries(T)), Apart(m),
         NEW e \in T, \A k \in DOMAIN m : m[k].row.at <= e.at
  PROVE  /\ Merged(m, e) \in Seq(Entries(T)) /\ Apart(Merged(m, e))
         /\ \A k \in DOMAIN Merged(m, e) :
              \/ Merged(m, e)[k].row = e
              \/ \E j \in DOMAIN m : Merged(m, e)[k].row = m[j].row
         /\ \E k \in DOMAIN Merged(m, e) : ShownAs(Merged(m, e)[k], e)
         /\ \A r : (\E k \in DOMAIN m : ShownAs(m[k], r)) =>
              \E k \in DOMAIN Merged(m, e) : ShownAs(Merged(m, e)[k], r)
<1> DEFINE same == \E k \in DOMAIN m : Physical(m[k].row) = Physical(e)
           grown(x) == [x EXCEPT !.alts = Append(@, Published(e))]
           new == [row |-> e, alts |-> <<>>]
           n == Merged(m, e)
<1>1. DOMAIN m = 1 .. Len(m) /\ Len(m) \in Nat /\ \A k \in DOMAIN m : m[k] \in Entries(T)
  OBVIOUS
<1>2. \A x \in Entries(T) : Physical(x.row) = Physical(e) =>
         /\ grown(x) \in Entries(T) /\ grown(x).row = x.row /\ ShownAs(grown(x), e)
         /\ \A r : ShownAs(x, r) => ShownAs(grown(x), r)
  BY EntryGrows
<1>3. CASE same
  <2>1. n = [k \in DOMAIN m |-> IF Physical(m[k].row) = Physical(e) THEN grown(m[k])
                                                                    ELSE m[k]]
    BY <1>3 DEF Merged
  <2> HIDE DEF n, grown
  <2>2. DOMAIN n = DOMAIN m
    BY <2>1
  <2>3. \A k \in DOMAIN m :
          /\ n[k] \in Entries(T) /\ n[k].row = m[k].row
          /\ Physical(m[k].row) = Physical(e) => ShownAs(n[k], e)
          /\ \A r : ShownAs(m[k], r) => ShownAs(n[k], r)
    BY <1>1, <1>2, <2>1
  <2>4. n \in Seq(Entries(T))
    <3>1. n \in [1 .. Len(m) -> Entries(T)]
      BY <1>1, <2>1, <2>3
    <3> QED
      BY <1>1, <3>1
  <2>5. Apart(n)
    BY <2>2, <2>3 DEF Apart
  <2>6. \E k \in DOMAIN n : ShownAs(n[k], e)
    BY <1>3, <2>2, <2>3
  <2> QED
    BY <2>2, <2>3, <2>4, <2>5, <2>6 DEF n
<1>4. CASE ~ same
  <2>1. n = Append(m, new)
    BY <1>4 DEF Merged
  <2>2. new \in Entries(T) /\ new.row = e
    BY EntryBegins
  <2> HIDE DEF n, new
  <2>3. /\ n \in Seq(Entries(T)) /\ DOMAIN n = 1 .. Len(m) + 1
        /\ \A k \in 1 .. Len(m) : n[k] = m[k]
        /\ n[Len(m) + 1] = new
    BY <2>1, <2>2
  <2>4. /\ \A k \in DOMAIN n : k \in DOMAIN m \/ k = Len(m) + 1
        /\ Len(m) + 1 \in DOMAIN n /\ \A k \in DOMAIN m : k \in DOMAIN n
    BY <1>1, <2>3
  <2>5. Apart(n)
    <3> SUFFICES ASSUME NEW i \in DOMAIN n, NEW j \in DOMAIN n, i < j
                 PROVE  /\ n[i].row.at <= n[j].row.at
                        /\ Physical(n[i].row) # Physical(n[j].row)
      BY DEF Apart
    <3>1. i \in DOMAIN m /\ n[i] = m[i]
      BY <1>1, <2>3
    <3>2. CASE j \in DOMAIN m
      BY <1>1, <2>3, <3>1, <3>2 DEF Apart
    <3>3. CASE j = Len(m) + 1
      <4>1. n[j].row = e
        BY <2>2, <2>3, <3>3
      <4>2. m[i].row.at <= e.at /\ Physical(m[i].row) # Physical(e)
        BY <1>4, <3>1
      <4> QED
        BY <3>1, <4>1, <4>2
    <3> QED
      BY <2>4, <3>2, <3>3
  <2>6. \A k \in DOMAIN n : n[k].row = e \/ \E j \in DOMAIN m : n[k].row = m[j].row
    BY <1>1, <2>2, <2>3, <2>4
  <2>7. ShownAs(new, e)
    BY <2>2 DEF ShownAs
  <2> QED
    BY <1>1, <2>3, <2>4, <2>5, <2>6, <2>7 DEF n
<1> QED
  BY <1>3, <1>4

(* f[n] is what dedupeDepartures has made of the first n rows.              *)
Merges(f, rows, N) ==
  f = [n \in 0 .. N |-> IF n = 0 THEN <<>> ELSE Merged(f[n - 1], rows[n])]

LEMMA MergesDefined ==
  ASSUME NEW rows, NEW N \in Nat
  PROVE  \E f : Merges(f, rows, N)
<1> DEFINE Good == {k \in 0 .. N : \E f : Merges(f, rows, k)}
<1>1. 0 \in Good
  <2>1. Merges([n \in 0 .. 0 |-> <<>>], rows, 0)
    BY DEF Merges
  <2> QED
    BY <2>1
<1>2. ASSUME NEW k \in 1 .. N, k - 1 \in Good PROVE k \in Good
  <2>1. PICK f : Merges(f, rows, k - 1)
    BY <1>2
  <2> DEFINE g == [n \in 0 .. k |-> IF n = 0 THEN <<>> ELSE Merged(f[n - 1], rows[n])]
  <2>2. ASSUME NEW n \in 0 .. k, n # 0 PROVE g[n - 1] = f[n - 1]
    <3>1. n - 1 \in 0 .. k - 1 /\ n - 1 \in 0 .. k
      BY <2>2
    <3>2. f[n - 1] = IF n - 1 = 0 THEN <<>> ELSE Merged(f[(n - 1) - 1], rows[n - 1])
      BY <2>1, <3>1 DEF Merges
    <3> QED
      BY <3>1, <3>2
  <2>3. g = [n \in 0 .. k |-> IF n = 0 THEN <<>> ELSE Merged(g[n - 1], rows[n])]
    BY <2>2
  <2>4. Merges(g, rows, k)
    BY <2>3 DEF Merges
  <2> QED
    BY <2>4
<1>3. N \in Good
  <2>1. Good \in SUBSET (0 .. N) /\ N \in 0 .. N
    OBVIOUS
  <2> HIDE DEF Good
  <2> QED
    BY <1>1, <1>2, <2>1, UpTo
<1> QED
  BY <1>3

(* Rows in order, merged, are of different services, in order; none is      *)
(* lost, and none is invented.                                             *)
LEMMA DedupedFacts ==
  ASSUME NEW T, \A r \in T : r.at \in Int, NEW rows \in Seq(T), InOrder(rows)
  PROVE  /\ Deduped(rows) \in Seq(Entries(T)) /\ Apart(Deduped(rows))
         /\ \A r \in ToSet(rows) :
              \E k \in DOMAIN Deduped(rows) : ShownAs(Deduped(rows)[k], r)
<1> DEFINE N == Len(rows)
           merged == CHOOSE f : Merges(f, rows, N)
           Good(n) == /\ merged[n] \in Seq(Entries(T)) /\ Apart(merged[n])
                      /\ \A k \in DOMAIN merged[n] :
                           \E i \in 1 .. n : merged[n][k].row = rows[i]
                      /\ \A i \in 1 .. n :
                           \E k \in DOMAIN merged[n] : ShownAs(merged[n][k], rows[i])
           good == {n \in 0 .. N : Good(n)}
<1>1. N \in Nat /\ DOMAIN rows = 1 .. N /\ \A n \in 1 .. N : rows[n] \in T
  OBVIOUS
<1>2. ToSet(rows) = {rows[k] : k \in 1 .. N}
  BY DEF ToSet
<1>3. Deduped(rows) = merged[N]
  BY DEF Deduped, Merges
<1>4. Merges(merged, rows, N)
  BY <1>1, MergesDefined
<1> HIDE DEF merged, N
<1>5. /\ merged[0] = <<>>
      /\ \A n \in 1 .. N : merged[n] = Merged(merged[n - 1], rows[n])
  <2>1. merged = [n \in 0 .. N |->
                    IF n = 0 THEN <<>> ELSE Merged(merged[n - 1], rows[n])]
    BY <1>4 DEF Merges
  <2>2. \A n \in 0 .. N :
          merged[n] = IF n = 0 THEN <<>> ELSE Merged(merged[n - 1], rows[n])
    BY <2>1
  <2>3. 0 \in 0 .. N /\ \A n \in 1 .. N : n \in 0 .. N /\ n # 0
    BY <1>1
  <2> QED
    BY <2>2, <2>3
<1>6. Good(0)
  BY <1>5 DEF Apart
<1>7. ASSUME NEW n \in 1 .. N, Good(n - 1) PROVE Good(n)
  <2> DEFINE m == merged[n - 1]
             e == rows[n]
  <2>1. /\ m \in Seq(Entries(T)) /\ Apart(m) /\ e \in T
        /\ \A k \in DOMAIN m : \E i \in 1 .. n - 1 : m[k].row = rows[i]
        /\ \A i \in 1 .. n - 1 : \E k \in DOMAIN m : ShownAs(m[k], rows[i])
    BY <1>1, <1>7
  <2>2. merged[n] = Merged(m, e)
    BY <1>5
  <2>3. \A i \in 1 .. n - 1 : rows[i].at <= e.at
    BY <1>1 DEF InOrder
  <2>4. /\ \A k \in 1 .. n : k = n \/ k \in 1 .. n - 1
        /\ n \in 1 .. n /\ \A i \in 1 .. n - 1 : i \in 1 .. n
    BY <1>1
  <2> HIDE DEF m, e, Good
  <2>5. \A k \in DOMAIN m : m[k].row.at <= e.at
    <3> SUFFICES ASSUME NEW k \in DOMAIN m PROVE m[k].row.at <= e.at
      OBVIOUS
    <3>1. PICK i \in 1 .. n - 1 : m[k].row = rows[i]
      BY <2>1
    <3> QED
      BY <2>3, <3>1
  <2>6. /\ Merged(m, e) \in Seq(Entries(T)) /\ Apart(Merged(m, e))
        /\ \A k \in DOMAIN Merged(m, e) :
             \/ Merged(m, e)[k].row = e
             \/ \E j \in DOMAIN m : Merged(m, e)[k].row = m[j].row
        /\ \E k \in DOMAIN Merged(m, e) : ShownAs(Merged(m, e)[k], e)
        /\ \A r : (\E k \in DOMAIN m : ShownAs(m[k], r)) =>
             \E k \in DOMAIN Merged(m, e) : ShownAs(Merged(m, e)[k], r)
    BY <2>1, <2>5, MergedFacts
  <2>7. \A k \in DOMAIN Merged(m, e) : \E i \in 1 .. n : Merged(m, e)[k].row = rows[i]
    <3> SUFFICES ASSUME NEW k \in DOMAIN Merged(m, e)
                 PROVE  \E i \in 1 .. n : Merged(m, e)[k].row = rows[i]
      OBVIOUS
    <3>1. CASE Merged(m, e)[k].row = e
      BY <2>4, <3>1 DEF e
    <3>2. ASSUME NEW j \in DOMAIN m, Merged(m, e)[k].row = m[j].row
          PROVE  \E i \in 1 .. n : Merged(m, e)[k].row = rows[i]
      BY <2>1, <2>4, <3>2
    <3> QED
      BY <2>6, <3>1, <3>2
  <2>8. \A i \in 1 .. n : \E k \in DOMAIN Merged(m, e) : ShownAs(Merged(m, e)[k], rows[i])
    BY <2>1, <2>4, <2>6 DEF e
  <2> QED
    BY <2>2, <2>6, <2>7, <2>8 DEF Good
<1>8. Good(N)
  <2> HIDE DEF Good
  <2>1. good \in SUBSET (0 .. N) /\ 0 \in good /\ N \in 0 .. N
    BY <1>1, <1>6
  <2>2. \A n \in 1 .. N : n - 1 \in good => n \in good
    BY <1>7
  <2> HIDE DEF good
  <2>3. N \in good
    BY <1>1, <2>1, <2>2, UpTo
  <2> QED
    BY <2>3 DEF good
<1> QED
  BY <1>2, <1>3, <1>8

(* What is answered of the rows of both days: the first of the services,    *)
(* each with every publication there was of it.                             *)
LEMMA AnsweredFacts ==
  ASSUME NEW T, \A r \in T : r.at \in Int, NEW rows \in Seq(T), request.limit \in Nat
  PROVE  /\ Answered(rows) \in Seq(Entries(T)) /\ Apart(Answered(rows))
         /\ \A r \in ToSet(rows) :
              \/ \E k \in DOMAIN Answered(rows) : ShownAs(Answered(rows)[k], r)
              \/ /\ Len(Answered(rows)) = request.limit
                 /\ \A k \in DOMAIN Answered(rows) : Answered(rows)[k].row.at <= r.at
         /\ \A r \in ToSet(rows), k \in DOMAIN Answered(rows) :
              Physical(Answered(rows)[k].row) = Physical(r) => ShownAs(Answered(rows)[k], r)
<1> DEFINE s == Soonest(rows)
           m == Deduped(s)
           n == request.limit
           a == First(n, m)
<1>1. /\ s \in Seq(T) /\ InOrder(s)
      /\ \A r \in ToSet(rows) : r \in ToSet(s)
  BY SoonestFacts
<1>2. Answered(rows) = a
  BY DEF Answered
<1> HIDE DEF s
<1>3. /\ m \in Seq(Entries(T)) /\ Apart(m)
      /\ \A r \in ToSet(s) : \E k \in DOMAIN m : ShownAs(m[k], r)
  BY <1>1, DedupedFacts
<1> HIDE DEF m, n
<1>4. /\ a \in Seq(Entries(T))
      /\ DOMAIN a \subseteq DOMAIN m
      /\ \A k \in DOMAIN a : a[k] = m[k]
      /\ \A k \in DOMAIN m : k \in DOMAIN a \/ (Len(a) = n /\ k > n)
  BY <1>3, FirstFacts DEF n
<1> HIDE DEF a
<1>5. DOMAIN m = 1 .. Len(m) /\ Len(m) \in Nat /\ DOMAIN a = 1 .. Len(a) /\ Len(a) \in Nat
  BY <1>3, <1>4
<1>6. Apart(a)
  BY <1>3, <1>4 DEF Apart
<1>7. ASSUME NEW r \in ToSet(rows)
      PROVE  /\ \/ \E k \in DOMAIN a : ShownAs(a[k], r)
                \/ Len(a) = n /\ \A k \in DOMAIN a : a[k].row.at <= r.at
             /\ \A k \in DOMAIN a : Physical(a[k].row) = Physical(r) => ShownAs(a[k], r)
  <2>1. PICK j \in DOMAIN m : ShownAs(m[j], r)
    BY <1>1, <1>3
  <2>2. Physical(m[j].row) = Physical(r) /\ m[j].row.at = r.at
    BY <2>1 DEF ShownAs, Physical
  <2>5. ASSUME NEW k \in DOMAIN a, Physical(a[k].row) = Physical(r) PROVE ShownAs(a[k], r)
    <3>1. k \in DOMAIN m /\ a[k] = m[k] /\ Physical(m[k].row) = Physical(m[j].row)
      BY <1>4, <2>2, <2>5
    <3>2. ~ k < j /\ ~ j < k
      BY <1>3, <3>1 DEF Apart
    <3>3. k = j
      BY <1>5, <3>1, <3>2
    <3> QED
      BY <2>1, <3>1, <3>3
  <2>6. \A k \in DOMAIN a : Physical(a[k].row) = Physical(r) => ShownAs(a[k], r)
    BY <2>5
  <2>7. \/ \E k \in DOMAIN a : ShownAs(a[k], r)
        \/ Len(a) = n /\ \A k \in DOMAIN a : a[k].row.at <= r.at
    <3>1. CASE j \in DOMAIN a
      BY <1>4, <2>1, <3>1
    <3>2. CASE j \notin DOMAIN a
      <4>1. Len(a) = n /\ \A k \in DOMAIN a : k < j
        BY <1>4, <1>5, <3>2
      <4>2. \A k \in DOMAIN a : a[k].row.at <= m[j].row.at
        BY <1>3, <1>4, <4>1 DEF Apart
      <4> QED
        BY <2>2, <4>1, <4>2
    <3> QED
      BY <3>1, <3>2
  <2> QED
    BY <2>6, <2>7
<1> QED
  BY <1>2, <1>4, <1>6, <1>7 DEF n

-----------------------------------------------------------------------------
(* The two days asked about *)

LEMMA DaysAsked ==
  ASSUME request \in Requests
  PROVE  /\ request.after \in Int /\ request.within \in Nat /\ request.limit \in Nat
         /\ request.limit # 0
         /\ today \in Days /\ today - 1 \in Days /\ today \in Int
         /\ Midnight[today] <= request.after
         /\ \A d \in Days : Midnight[d] <= request.after => d <= today
<1>1. /\ request.after \in Int /\ request.within \in Nat /\ request.limit \in Nat
      /\ request.limit # 0
      /\ \E d \in Days : d + 1 \in Days /\ Midnight[d + 1] <= request.after
  BY InputsAssumption
<1>2. PICK d \in Days : d + 1 \in Days /\ Midnight[d + 1] <= request.after
  BY <1>1
<1>3. /\ today \in Days /\ Midnight[today] <= request.after
      /\ \A e \in Days : Midnight[e] <= request.after => e <= today
  BY <1>1, <1>2, DayBegun DEF today
<1> HIDE DEF today
<1>4. PICK lo \in Days, hi \in Days : Days = lo .. hi
  BY ClocksAssumption
<1>5. lo \in Int /\ hi \in Int /\ today \in Int /\ d \in Int
  BY <1>3, ClocksAssumption
<1>6. lo <= d /\ d + 1 <= today /\ today <= hi
  BY <1>2, <1>3, <1>4, <1>5
<1>7. today - 1 \in lo .. hi
  BY <1>5, <1>6
<1> QED
  BY <1>1, <1>3, <1>4, <1>5, <1>7

(* A call made on service day d.                                            *)
CallOf(d, c) ==
  LET trip == feed.trips[c[1]]
      call == trip.calls[c[2]]
  IN  [trip |-> c[1], seq |-> c[2], stop |-> call.stop, dep |-> call.dep,
       at |-> Instant(d, call.dep), route |-> trip.route, headsign |-> trip.headsign]

LEMMA RowsAreFinite ==
  ASSUME feed \in Feeds, NEW d
  PROVE  IsFiniteSet(RowsOn(d))
<1>1. IsFiniteSet(CallIds(feed))
  BY InputsAssumption
<1> DEFINE f == [c \in CallIds(feed) |-> CallOf(d, c)]
<1>2. CallsOn(d) = {CallOf(d, c) : c \in CallIds(feed)}
  BY DEF CallsOn, CallOf
<1> HIDE DEF CallsOn, CallIds
<1>3. f \in Surjection(CallIds(feed), CallsOn(d))
  <2> HIDE DEF CallOf
  <2> QED
    BY <1>2 DEF Surjection
<1> HIDE DEF f
<1>4. IsFiniteSet(CallsOn(d))
  BY <1>1, <1>3, FS_Surjection
<1>5. RowsOn(d) \subseteq CallsOn(d)
  BY DEF RowsOn
<1> QED
  BY <1>4, <1>5, FS_Subset

(* What is kept of a day's rows is what leaves on it: whether the window is *)
(* put to the seconds of the day or to its instants, and whether the        *)
(* database is asked for the day's services or the files are read.          *)
LEMMA RunsAreLeaving ==
  ASSUME feed \in Feeds, request \in Requests, NEW d \in Days
  PROVE  RunsOn(d) = LeavingOn(d)
<1>1. request.after \in Int /\ request.within \in Nat /\ Midnight[d] \in Int
  BY DaysAsked, ClocksAssumption
<1>2. \A c \in CallsOn(d) : c.dep \in Int /\ c.at = Midnight[d] + c.dep
  <2>1. \A c \in CallIds(feed) : feed.trips[c[1]].calls[c[2]].dep \in Int
    BY InputsAssumption
  <2> HIDE DEF CallIds
  <2> QED
    BY <2>1 DEF CallsOn, Instant
<1> DEFINE from == request.after - Midnight[d]
           to == from + request.within
<1>3. \A c \in CallsOn(d) :
        c.dep \in from .. to <=> c.at \in request.after .. request.after + request.within
  BY <1>1, <1>2
<1>4. \A s : s \in ServiceIDsOn(feed, d) <=> Runs(feed, s, d)
  BY DEF ServiceIDsOn, Runs
<1>5. RunsOn(d) = {c \in CallsOn(d) : /\ c.stop \in request.ids
                                      /\ Runs(feed, Service(c.trip), d)
                                      /\ c.dep \in from .. to}
  BY <1>4 DEF RunsOn, RowsOn
<1> HIDE DEF CallsOn, from, to
<1> QED
  BY <1>3, <1>5 DEF LeavingOn

(* What AskDay fetches of a day.                                            *)
LEMMA AskedFacts ==
  ASSUME feed \in Feeds, request \in Requests, NEW d \in Days,
         NEW rows \in OrderByLimit(RowsOn(d), [r \in RowsOn(d) |-> r.dep], OverFetch)
  PROVE  /\ Among(RunsOn(d), rows) \in Seq(LeavingOn(d))
         /\ Cardinality(RowsOn(d)) <= OverFetch =>
              \A c \in LeavingOn(d) : c \in ToSet(Among(RunsOn(d), rows))
<1> DEFINE key == [r \in RowsOn(d) |-> r.dep]
<1>1. OverFetch \in Nat
  <2>1. request.limit * Factor \in Nat /\ FetchCap \in Nat
    BY DaysAsked, FetchAssumption
  <2>2. Min({request.limit * Factor, FetchCap}) \in {request.limit * Factor, FetchCap}
    <3> DEFINE p == request.limit * Factor
               S == {p, FetchCap}
    <3>1. p \in Nat /\ FetchCap \in Nat
      BY <2>1
    <3> HIDE DEF p
    <3>2. \E low \in S : \A k \in S : low <= k
      BY <3>1
    <3> HIDE DEF S
    <3>3. Min(S) \in S
      BY <3>2, MinOf
    <3> QED
      BY <3>3 DEF S, p
  <2> QED
    BY <2>1, <2>2 DEF OverFetch
<1>2. /\ rows \in Seq(RowsOn(d))
      /\ (IsFiniteSet(RowsOn(d)) /\ Cardinality(RowsOn(d)) <= OverFetch) =>
           RowsOn(d) \subseteq ToSet(rows)
  <2> DEFINE table == RowsOn(d)
             n == OverFetch
  <2>1. rows \in OrderByLimit(table, key, n) /\ n \in Nat
    BY <1>1
  <2> HIDE DEF table, n, key
  <2>2. /\ rows \in Seq(table)
        /\ (IsFiniteSet(table) /\ Cardinality(table) <= n) => table \subseteq ToSet(rows)
    BY <2>1, AnswerIsOfTable
  <2> QED
    BY <2>2 DEF table, n
<1>3. IsFiniteSet(RowsOn(d))
  BY RowsAreFinite
<1>4. /\ Among(RunsOn(d), rows) \in Seq(RunsOn(d) \cap RowsOn(d))
      /\ \A r \in ToSet(rows) \cap RunsOn(d) : r \in ToSet(Among(RunsOn(d), rows))
  BY <1>2, AmongKept
<1>5. RunsOn(d) \cap RowsOn(d) = RunsOn(d)
  BY DEF RunsOn
<1>6. RunsOn(d) = LeavingOn(d)
  BY RunsAreLeaving
<1> QED
  BY <1>2, <1>3, <1>4, <1>5, <1>6

-----------------------------------------------------------------------------
(* The invariant *)

Answering == {"today", "yesterday", "answer", "done"}

(* A query answered is one the feed's period allows, as far as it is known. *)
WithinPeriod ==
  ~ unread =>
    /\ stage \in Answering => ~ OutOfRange(DaysDescribed(feed))
    /\ stage = "refused" => OutOfRange(DaysDescribed(feed))

(* What the answer owes c: its service is shown, or enough that leave no    *)
(* later; and where it is shown, so is this publication of it.              *)
IsAnswered(c) ==
  /\ \/ \E k \in DOMAIN out : ShownAs(out[k], c)
     \/ Len(out) = request.limit /\ \A k \in DOMAIN out : out[k].row.at <= c.at
  /\ \A k \in DOMAIN out : Physical(out[k].row) = Physical(c) => ShownAs(out[k], c)

(* At each stage, what the days asked about so far have given.              *)
Gathered ==
  /\ stage \in {"range", "today", "refused", "failed"} => out = <<>>
  /\ stage \in {"yesterday", "answer"} => out \in Seq(Leaving)
  /\ (stage = "yesterday" /\ AllFetched) => \A c \in LeavingOn(today) : c \in ToSet(out)
  /\ (stage = "answer" /\ AllFetched) => \A c \in Leaving : c \in ToSet(out)
  /\ stage = "done" => out \in Seq(Entries(Leaving)) /\ Apart(out)
  /\ (stage = "done" /\ AllFetched) => \A c \in Leaving : IsAnswered(c)

Stages == {"range", "today", "yesterday", "answer", "done", "refused", "failed"}

WindowInv ==
  /\ feed \in Feeds /\ request \in Requests /\ unread \in BOOLEAN /\ stage \in Stages
  /\ WithinPeriod
  /\ Gathered

(* What is asked of stays as it was, and so does what leaves.               *)
LEMMA AskedStays ==
  ASSUME feed' = feed, request' = request
  PROVE  /\ Leaving' = Leaving /\ LeavingOn(today)' = LeavingOn(today)
         /\ AllFetched' = AllFetched
         /\ OutOfRange(DaysDescribed(feed))' = OutOfRange(DaysDescribed(feed))
<1>1. today' = today
  BY DEF today
<1> HIDE DEF today
<1>2. Leaving' = Leaving /\ LeavingOn(today)' = LeavingOn(today)
  BY <1>1 DEF Leaving, LeavingOn, CallsOn, CallIds, Service
<1>3. AllFetched' = AllFetched
  BY <1>1 DEF AllFetched, RowsOn, CallsOn, CallIds
<1>4. OutOfRange(DaysDescribed(feed))' = OutOfRange(DaysDescribed(feed))
  BY DEF OutOfRange
<1> QED
  BY <1>2, <1>3, <1>4

LEMMA EnoughFetched ==
  ASSUME request \in Requests, AllFetched
  PROVE  \A d \in {today, today - 1} : Cardinality(RowsOn(d)) <= OverFetch
<1>1. request.limit * Factor = Factor * request.limit
  BY DaysAsked, FetchAssumption
<1> QED
  BY <1>1 DEF AllFetched, OverFetch

LEMMA InitWindow == Init => WindowInv
<1> SUFFICES ASSUME Init PROVE WindowInv
  OBVIOUS
<1>1. stage = "range" /\ out = <<>> /\ feed \in Feeds /\ request \in Requests /\ unread = FALSE
  BY DEF Init
<1> QED
  BY <1>1 DEF WindowInv, WithinPeriod, Answering, Gathered, Stages

LEMMA NextWindow == WindowInv /\ [Next]_vars => WindowInv'
<1> SUFFICES ASSUME WindowInv, [Next]_vars PROVE WindowInv'
  OBVIOUS
<1>1. /\ feed \in Feeds /\ request \in Requests /\ unread \in BOOLEAN /\ stage \in Stages
      /\ WithinPeriod /\ Gathered
  BY DEF WindowInv
<1>2. /\ today \in Days /\ today - 1 \in Days /\ request.limit \in Nat /\ request.after \in Int
      /\ request.within \in Nat
  BY <1>1, DaysAsked
<1>3. Leaving = LeavingOn(today) \cup LeavingOn(today - 1)
  BY DEF Leaving
<1>4. \A c \in Leaving : c.at \in Int
  BY <1>2 DEF Leaving, LeavingOn
<1> HIDE DEF today, Leaving, LeavingOn
<1>5. feed' = feed /\ request' = request
  BY DEF Next, CheckRange, AskToday, AskYesterday, AskDay, Answer, Fail, vars
<1>6. /\ Leaving' = Leaving /\ LeavingOn(today)' = LeavingOn(today)
      /\ AllFetched' = AllFetched
      /\ OutOfRange(DaysDescribed(feed))' = OutOfRange(DaysDescribed(feed))
  BY <1>5, AskedStays
<1>7. CASE CheckRange
  <2>1. /\ stage = "range" /\ out' = out
        /\ stage' \in {"refused", "today"} /\ unread' \in BOOLEAN
        /\ ~ unread' => stage' = IF OutOfRange(DaysDescribed(feed)) THEN "refused" ELSE "today"
    BY <1>7 DEF CheckRange
  <2>2. out' = <<>>
    BY <1>1, <2>1 DEF Gathered
  <2>3. Gathered'
    BY <2>1, <2>2 DEF Gathered
  <2>4. WithinPeriod'
    BY <1>6, <2>1 DEF WithinPeriod, Answering
  <2> QED
    BY <1>1, <1>5, <2>1, <2>3, <2>4 DEF WindowInv, Stages
<1>8. CASE AskToday
  <2>1. PICK rows \in OrderByLimit(RowsOn(today), [r \in RowsOn(today) |-> r.dep], OverFetch) :
          out' = out \o Among(RunsOn(today), rows)
    BY <1>8 DEF AskToday, AskDay
  <2>2. stage = "today" /\ stage' = "yesterday" /\ unread' = unread /\ out = <<>>
    BY <1>1, <1>8 DEF AskToday, AskDay, Gathered
  <2> DEFINE new == Among(RunsOn(today), rows)
  <2>3. /\ new \in Seq(LeavingOn(today))
        /\ Cardinality(RowsOn(today)) <= OverFetch => \A c \in LeavingOn(today) : c \in ToSet(new)
    BY <1>1, <1>2, AskedFacts
  <2> HIDE DEF new
  <2>4. out' = new
    BY <2>1, <2>2, <2>3 DEF new
  <2>5. out' \in Seq(Leaving)
    BY <1>3, <2>3, <2>4
  <2>6. AllFetched => \A c \in LeavingOn(today) : c \in ToSet(out')
    BY <1>1, <2>3, <2>4, EnoughFetched
  <2>7. Gathered'
    BY <1>6, <2>2, <2>5, <2>6 DEF Gathered
  <2>8. WithinPeriod'
    BY <1>1, <1>6, <2>2 DEF WithinPeriod, Answering
  <2> QED
    BY <1>1, <1>5, <2>2, <2>7, <2>8 DEF WindowInv, Stages
<1>9. CASE AskYesterday
  <2> DEFINE d == today - 1
  <2>1. PICK rows \in OrderByLimit(RowsOn(d), [r \in RowsOn(d) |-> r.dep], OverFetch) :
          out' = out \o Among(RunsOn(d), rows)
    BY <1>9 DEF AskYesterday, AskDay
  <2>2. /\ stage = "yesterday" /\ stage' = "answer" /\ unread' = unread
        /\ out \in Seq(Leaving)
        /\ AllFetched => \A c \in LeavingOn(today) : c \in ToSet(out)
    BY <1>1, <1>9 DEF AskYesterday, AskDay, Gathered
  <2> DEFINE new == Among(RunsOn(d), rows)
  <2>3. d \in Days /\ Leaving = LeavingOn(today) \cup LeavingOn(d)
    BY <1>2, <1>3
  <2>4. AllFetched => Cardinality(RowsOn(d)) <= OverFetch
    BY <1>1, EnoughFetched
  <2> HIDE DEF d
  <2>5. /\ new \in Seq(LeavingOn(d))
        /\ Cardinality(RowsOn(d)) <= OverFetch => \A c \in LeavingOn(d) : c \in ToSet(new)
    BY <1>1, <2>3, AskedFacts
  <2>6. out' = out \o new
    BY <2>1
  <2> HIDE DEF new
  <2>7. new \in Seq(Leaving)
    BY <2>3, <2>5
  <2>8. /\ out' \in Seq(Leaving)
        /\ \A c : (c \in ToSet(out) \/ c \in ToSet(new)) => c \in ToSet(out')
    BY <2>2, <2>6, <2>7, OneBehindAnother
  <2>9. AllFetched => \A c \in Leaving : c \in ToSet(out')
    BY <2>2, <2>3, <2>4, <2>5, <2>8
  <2>10. Gathered'
    BY <1>6, <2>2, <2>8, <2>9 DEF Gathered
  <2>11. WithinPeriod'
    BY <1>1, <1>6, <2>2 DEF WithinPeriod, Answering
  <2> QED
    BY <1>1, <1>5, <2>2, <2>10, <2>11 DEF WindowInv, Stages
<1>10. CASE Answer
  <2>1. /\ stage = "answer" /\ stage' = "done" /\ unread' = unread /\ out' = Answered(out)
        /\ out \in Seq(Leaving)
        /\ AllFetched => \A c \in Leaving : c \in ToSet(out)
    BY <1>1, <1>10 DEF Answer, Gathered
  <2> DEFINE a == Answered(out)
  <2>2. /\ a \in Seq(Entries(Leaving)) /\ Apart(a)
        /\ \A r \in ToSet(out) :
             \/ \E k \in DOMAIN a : ShownAs(a[k], r)
             \/ Len(a) = request.limit /\ \A k \in DOMAIN a : a[k].row.at <= r.at
        /\ \A r \in ToSet(out), k \in DOMAIN a :
             Physical(a[k].row) = Physical(r) => ShownAs(a[k], r)
    BY <1>2, <1>4, <2>1, AnsweredFacts
  <2>3. out' = a
    BY <2>1
  <2> HIDE DEF a
  <2>4. out' \in Seq(Entries(Leaving)) /\ Apart(out')
    BY <2>2, <2>3
  <2>5. \A r \in ToSet(out) :
          \/ \E k \in DOMAIN out' : ShownAs(out'[k], r)
          \/ Len(out') = request.limit /\ \A k \in DOMAIN out' : out'[k].row.at <= r.at
    BY <2>2, <2>3
  <2>6. \A r \in ToSet(out), k \in DOMAIN out' :
          Physical(out'[k].row) = Physical(r) => ShownAs(out'[k], r)
    BY <2>2, <2>3
  <2>7. AllFetched => \A c \in Leaving : IsAnswered(c)'
    <3> SUFFICES ASSUME AllFetched, NEW c \in Leaving PROVE IsAnswered(c)'
      BY <1>5, <2>1 DEF ShownAs, Physical, Published
    <3>1. c \in ToSet(out)
      BY <2>1
    <3>2. \/ \E k \in DOMAIN out' : ShownAs(out'[k], c)
          \/ Len(out') = request.limit /\ \A k \in DOMAIN out' : out'[k].row.at <= c.at
      BY <2>5, <3>1
    <3>3. \A k \in DOMAIN out' : Physical(out'[k].row) = Physical(c) => ShownAs(out'[k], c)
      BY <2>6, <3>1
    <3> QED
      BY <3>2, <3>3, <1>5 DEF IsAnswered, ShownAs, Physical, Published
  <2>8. Gathered'
    BY <1>6, <2>1, <2>4, <2>7 DEF Gathered, Apart, Entries, Physical, Published
  <2>9. WithinPeriod'
    BY <1>1, <1>6, <2>1 DEF WithinPeriod, Answering
  <2> QED
    BY <1>1, <1>5, <2>1, <2>8, <2>9 DEF WindowInv, Stages
<1>11. CASE Fail
  <2>1. stage' = "failed" /\ out' = <<>> /\ unread' = unread
    BY <1>11 DEF Fail
  <2>2. Gathered' /\ WithinPeriod'
    BY <2>1 DEF Gathered, WithinPeriod, Answering
  <2> QED
    BY <1>1, <1>5, <2>1, <2>2 DEF WindowInv, Stages
<1>12. CASE UNCHANGED vars
  <2>1. out' = out /\ stage' = stage /\ unread' = unread
    BY <1>12 DEF vars
  <2>2. WithinPeriod'
    BY <1>1, <1>6, <2>1 DEF WithinPeriod
  <2>3. \A c : IsAnswered(c)' = IsAnswered(c)
    BY <1>5, <2>1 DEF IsAnswered, ShownAs, Physical, Published
  <2>4. Apart(out)' = Apart(out) /\ Entries(Leaving)' = Entries(Leaving)
    BY <1>6, <2>1 DEF Apart, Entries, Physical, Published
  <2>5. Gathered'
    BY <1>1, <1>6, <2>1, <2>3, <2>4 DEF Gathered
  <2> QED
    BY <1>1, <1>5, <2>1, <2>2, <2>5 DEF WindowInv
<1> QED
  BY <1>7, <1>8, <1>9, <1>10, <1>11, <1>12 DEF Next

LEMMA WindowHolds == Spec => []WindowInv
<1>1. Init => WindowInv
  BY InitWindow
<1>2. WindowInv /\ [Next]_vars => WindowInv'
  BY NextWindow
<1> QED
  BY <1>1, <1>2, PTL DEF Spec

-----------------------------------------------------------------------------
(* What follows *)

(* Every row gathered or shown is a call of one of the two days.            *)
THEOREM TypesHold == Spec => []TypeOK
<1>1. ASSUME WindowInv PROVE TypeOK
  <2>1. Gathered /\ feed \in Feeds /\ request \in Requests /\ unread \in BOOLEAN
        /\ stage \in Stages
    BY <1>1 DEF WindowInv
  <2>2. Leaving \subseteq CallsOn(today) \cup CallsOn(today - 1)
    BY DEF Leaving, LeavingOn
  <2> HIDE DEF Leaving, CallsOn
  <2>3. CASE stage = "done"
    <3>1. \A k \in DOMAIN out : out[k] \in Entries(Leaving)
      BY <2>1, <2>3 DEF Gathered
    <3>2. \A k \in DOMAIN out : out[k].row \in Leaving
      BY <3>1 DEF Entries
    <3> QED
      BY <2>1, <2>2, <2>3, <3>2 DEF TypeOK, Stages
  <2>4. CASE stage # "done"
    <3>1. \A k \in DOMAIN out : out[k] \in Leaving
      <4>1. CASE out = <<>>
        BY <4>1
      <4>2. CASE out \in Seq(Leaving)
        BY <4>2
      <4> QED
        BY <2>1, <2>4, <4>1, <4>2 DEF Gathered, Stages
    <3> QED
      BY <2>1, <2>2, <2>4, <3>1 DEF TypeOK, Stages
  <2> QED
    BY <2>3, <2>4
<1> QED
  BY <1>1, WindowHolds, PTL

(* What is shown is what leaves soonest: a service of the window that is    *)
(* missing from the answer was crowded out by services that leave no later. *)
THEOREM SoonestAreShown == Spec => []SoonestShown
<1>1. ASSUME WindowInv PROVE SoonestShown
  <2> SUFFICES ASSUME stage = "done", AllFetched, NEW c \in Leaving
               PROVE  \/ \E k \in DOMAIN out : Physical(out[k].row) = Physical(c)
                      \/ /\ Len(out) = request.limit
                         /\ \A k \in DOMAIN out : out[k].row.at <= c.at
    BY DEF SoonestShown
  <2> HIDE DEF Leaving, AllFetched
  <2>1. IsAnswered(c)
    BY <1>1 DEF WindowInv, Gathered
  <2> QED
    BY <2>1 DEF IsAnswered, ShownAs
<1> QED
  BY <1>1, WindowHolds, PTL

(* Each service is shown once, in order of time, and really runs; and the   *)
(* alternatives of a row are publications of its service that really run.   *)
THEOREM ShownOnceAndReal == Spec => []OnceAndReal
<1>1. ASSUME WindowInv PROVE OnceAndReal
  <2> SUFFICES ASSUME stage = "done" PROVE OnceAndReal
    BY DEF OnceAndReal
  <2> HIDE DEF Leaving
  <2>1. out \in Seq(Entries(Leaving)) /\ Apart(out)
    BY <1>1 DEF WindowInv, Gathered
  <2>2. \A k \in DOMAIN out : out[k] \in Entries(Leaving)
    BY <2>1
  <2>3. ASSUME NEW i \in DOMAIN out, NEW j \in DOMAIN out, i < j
        PROVE  /\ out[i].row.at <= out[j].row.at
               /\ \/ out[i].row.stop # out[j].row.stop \/ out[i].row.at # out[j].row.at
                  \/ out[i].row.route # out[j].row.route
                  \/ out[i].row.headsign # out[j].row.headsign
    BY <2>1, <2>3 DEF Apart, Physical
  <2>4. ASSUME NEW k \in DOMAIN out
        PROVE  /\ out[k].row \in Leaving
               /\ \A a \in DOMAIN out[k].alts : \E c \in Leaving :
                    /\ Published(c) = out[k].alts[a]
                    /\ c.stop = out[k].row.stop /\ c.at = out[k].row.at
                    /\ c.route = out[k].row.route /\ c.headsign = out[k].row.headsign
    <3>1. /\ out[k].row \in Leaving
          /\ \A a \in DOMAIN out[k].alts : \E c \in Leaving :
               Published(c) = out[k].alts[a] /\ Physical(c) = Physical(out[k].row)
      BY <2>2 DEF Entries
    <3> QED
      BY <3>1 DEF Physical
  <2> QED
    BY <2>3, <2>4 DEF OnceAndReal
<1> QED
  BY <1>1, WindowHolds, PTL

(* Of a service that is shown no publication is lost, on whichever of the   *)
(* two service days it is published.                                        *)
THEOREM NoVariantIsLost == Spec => []VariantsKept
<1>1. ASSUME WindowInv PROVE VariantsKept
  <2> SUFFICES ASSUME stage = "done", AllFetched, NEW c \in Leaving, NEW k \in DOMAIN out,
                      Physical(out[k].row) = Physical(c)
               PROVE  \/ Published(out[k].row) = Published(c)
                      \/ \E a \in DOMAIN out[k].alts : out[k].alts[a] = Published(c)
    BY DEF VariantsKept
  <2> HIDE DEF Leaving, AllFetched
  <2>1. IsAnswered(c)
    BY <1>1 DEF WindowInv, Gathered
  <2> QED
    BY <2>1 DEF IsAnswered, ShownAs
<1> QED
  BY <1>1, WindowHolds, PTL

(* No day past the period of the feed is answered and none within it is     *)
(* refused, unless the clock changes on its last.                           *)
THEOREM PeriodHolds == Spec => []PeriodIsRespected
<1>1. ASSUME WindowInv PROVE PeriodIsRespected
  <2> DEFINE days == DaysDescribed(feed)
             from == ValidFrom(feed)
             to == ValidTo(feed)
             t == request.after
  <2> SUFFICES ASSUME days # {}, ~ unread, Midnight[to + 1] - Midnight[to] = Day24
               PROVE  /\ stage \in Answering => today <= to
                      /\ stage = "refused" => today \notin from .. to
    BY DEF PeriodIsRespected, Answering
  <2>1. feed \in Feeds /\ request \in Requests /\ WithinPeriod
    BY <1>1 DEF WindowInv
  <2>2. /\ t \in Int /\ today \in Days /\ Midnight[today] <= t
        /\ \A d \in Days : Midnight[d] <= t => d <= today
    BY <2>1, DaysAsked
  <2>3. \A d \in days : d \in Days /\ d + 1 \in Days
    BY <2>1, InputsAssumption
  <2>4. PICK lo \in Days, hi \in Days : Days = lo .. hi
    BY ClocksAssumption
  <2>5. /\ Days \subseteq Int /\ Day24 \in Int /\ \A d \in Days : Midnight[d] \in Int
        /\ \A d, e \in Days : d < e => Midnight[d] < Midnight[e]
    BY ClocksAssumption
  <2>6. from \in days /\ to \in days
    <3> HIDE DEF days
    <3>1. days \subseteq lo .. hi /\ lo \in Int /\ hi \in Int
      BY <2>3, <2>4, <2>5
    <3>2. Min(days) \in days /\ Max(days) \in days
      BY <3>1, GreatestWithin, LeastWithin
    <3> QED
      BY <3>2 DEF ValidFrom, ValidTo, days
  <2>7. from \in Days /\ to \in Days /\ to + 1 \in Days /\ from \in Int /\ to \in Int
        /\ today \in Int
    BY <2>2, <2>3, <2>5, <2>6
  <2>8. OutOfRange(days) <=> (t < Midnight[from] - Day24 \/ t > Midnight[to] + Day24 - 1)
    BY DEF OutOfRange, ValidFrom, ValidTo
  <2> HIDE DEF days, from, to, t, today
  <2>9. t > Midnight[to] + Day24 - 1 <=> Midnight[to + 1] <= t
    BY <2>2, <2>5, <2>7
  <2>10. Midnight[to + 1] <= t <=> to + 1 <= today
    <3>1. Midnight[to + 1] <= t => to + 1 <= today
      BY <2>2, <2>7
    <3>2. to + 1 <= today => Midnight[to + 1] <= Midnight[today]
      <4>1. to + 1 < today => Midnight[to + 1] < Midnight[today]
        BY <2>2, <2>5, <2>7
      <4>2. Midnight[to + 1] \in Int /\ Midnight[today] \in Int
        BY <2>2, <2>5, <2>7
      <4> QED
        BY <2>7, <4>1, <4>2
    <3>3. Midnight[to + 1] \in Int /\ Midnight[today] \in Int
      BY <2>2, <2>5, <2>7
    <3> QED
      BY <2>2, <3>1, <3>2, <3>3
  <2>11. t < Midnight[from] - Day24 => today < from
    <3> SUFFICES ASSUME t < Midnight[from] - Day24 PROVE today < from
      OBVIOUS
    <3>1. Midnight[from] \in Int /\ Midnight[today] \in Int /\ Day24 \in Nat
      BY <2>2, <2>5, <2>7, ClocksAssumption
    <3>2. Midnight[today] < Midnight[from]
      BY <2>2, <3>1
    <3>3. ~ from < today /\ from # today
      BY <2>2, <2>5, <2>7, <3>1, <3>2
    <3> QED
      BY <2>7, <3>3
  <2>12. stage \in Answering => ~ OutOfRange(days)
    BY <2>1 DEF WithinPeriod, days
  <2>13. stage = "refused" => OutOfRange(days)
    BY <2>1 DEF WithinPeriod, days
  <2>14. stage \in Answering => today <= to
    <3> SUFFICES ASSUME stage \in Answering PROVE today <= to
      OBVIOUS
    <3>1. ~ to + 1 <= today
      BY <2>8, <2>9, <2>10, <2>12
    <3> QED
      BY <2>7, <3>1
  <2>15. stage = "refused" => today < from \/ to + 1 <= today
    BY <2>8, <2>9, <2>10, <2>11, <2>13
  <2> QED
    BY <2>7, <2>14, <2>15
<1> QED
  BY <1>1, WindowHolds, PTL
=============================================================================
