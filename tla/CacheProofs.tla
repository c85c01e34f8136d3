----------------------------- MODULE CacheProofs ------------------------------
(* Proofs about RangeSet, for numbers up to any MaxNumber, about Cache,    *)
(* for every set of processors and of slabs, every size of slabs and       *)
(* magazines, every reservation and cap, and about Modules, for addresses  *)
(* up to any MaxAddress.  The last two use the lemmas on lists and on      *)
(* least numbers that RangeSet needs.                                      *)
EXTENDS RangeSet, Cache, Modules, FiniteSetTheorems, WellFoundedInduction, TLAPS

-----------------------------------------------------------------------------
(* RangeSet.                                                               *)
(* The invariant.                                                          *)

\* A range of the list, as RangeSetAdd makes it of the arguments of Put and
\* Get.
Interval == [start : 1 .. MaxNumber, end : 1 .. MaxNumber]

\* A number is in some range of the list.
Has(list, n) == \E i \in 1 .. Len(list) : list[i].start <= n /\ n <= list[i].end

Forward(list) == \A i \in 1 .. Len(list) : list[i].start <= list[i].end

\* Later ranges lie above earlier ones.
Ascending(list) ==
  \A i, j \in 1 .. Len(list) : i < j => list[i].end < list[j].start

\* Between a range and the next there is a number that is in neither:
\* RangeSetMerge would have joined them otherwise.
Gap(list, i) == list[i].end + 1 < list[i + 1].start

Gaps(list, except) == \A i \in (1 .. Len(list) - 1) \ except : Gap(list, i)

\* Ranges in order, perhaps still to be merged; and a list as the operations
\* leave it.
Listed(list) == list \in Seq(Interval) /\ Forward(list) /\ Ascending(list)

Sorted(list) == Listed(list) /\ Gaps(list, {})

Handle == [list : Seq(Interval), cursor : Nat, spare : BOOLEAN]

\* The inductive invariant: the list is in order without neighbours that
\* touch, and the cursor is a position of it or 0 (the list head).
RangeSetInv ==
  /\ rangeSet \in Handle
  /\ Sorted(rangeSet.list)
  /\ rangeSet.cursor <= Len(rangeSet.list)

-----------------------------------------------------------------------------
(* Searches, and lists position by position.                               *)

\* Every nonempty set of natural numbers has a least element.
LEMMA LeastNumber ==
  ASSUME NEW T, T \in SUBSET Nat, T # {}
  PROVE  \E n \in T : \A m \in T : n <= m
<1>1. IsWellFoundedOn(OpToRel(<, Nat), Nat)
  BY NatLessThanWellFounded
<1>2. PICK x \in T : \A y \in T : ~(<<y, x>> \in OpToRel(<, Nat))
  BY <1>1, WFMin, Zenon
<1>3. \A y \in T : x <= y
  <2>1. TAKE y \in T
  <2>2. x \in Nat /\ y \in Nat
    OBVIOUS
  <2>3. <<y, x>> \notin OpToRel(<, Nat)
    BY <1>2
  <2>4. ~(y < x)
    BY <2>2, <2>3 DEF OpToRel
  <2> QED
    BY <2>2, <2>4
<1> QED
  BY <1>3

\* The forward searches of RangeSetAddAfter and RangeSetGet stop at the first
\* range that they are looking for ...
LEMMA FirstFound ==
  ASSUME NEW low \in Nat, NEW high \in Nat, NEW found \in SUBSET (low + 1 .. high)
  PROVE  /\ found = {} => FirstOf(found) = 0
         /\ found # {} => /\ FirstOf(found) \in found
                          /\ \A k \in found : FirstOf(found) <= k
<1>1. found \in SUBSET Nat
  OBVIOUS
<1>2. ASSUME found # {}
      PROVE  \E j \in found : \A k \in found : j <= k
  BY <1>1, <1>2, LeastNumber
<1> QED
  BY <1>2, Zenon DEF FirstOf

\* ... and the backward searches of RangeSetAddBefore and RangeSetGet at the
\* last.
LEMMA LastFound ==
  ASSUME NEW n \in Nat, NEW found \in SUBSET (1 .. n)
  PROVE  /\ found = {} => LastOf(found) = 0
         /\ found # {} => /\ LastOf(found) \in found
                          /\ \A k \in found : LastOf(found) >= k
<1>1. ASSUME found # {}
      PROVE  \E j \in found : \A k \in found : j >= k
  <2> DEFINE above == {n - j : j \in found}
  <2>1. above \in SUBSET Nat /\ above # {}
    <3>1. \A j \in found : n - j \in Nat
      OBVIOUS
    <3> QED
      BY <1>1, <3>1
  <2>2. PICK a \in above : \A m \in above : a <= m
    BY <2>1, LeastNumber
  <2>3. PICK j \in found : a = n - j
    BY <2>2
  <2>4. ASSUME NEW k \in found
        PROVE  j >= k
    <3>1. n - k \in above
      OBVIOUS
    <3>2. a <= n - k
      BY <3>1, <2>2
    <3>3. j \in Int /\ k \in Int /\ n - j <= n - k
      BY <3>2, <2>3
    <3> QED
      BY <3>3
  <2> QED
    BY <2>4
<1>2. ASSUME found # {}
      PROVE  LastOf(found) \in found /\ \A k \in found : LastOf(found) >= k
  <2>1. LastOf(found) = CHOOSE j \in found : \A k \in found : j >= k
    BY <1>2, Zenon DEF LastOf
  <2> QED
    BY <1>1, <1>2, <2>1
<1>3. found = {} => LastOf(found) = 0
  BY Zenon DEF LastOf
<1> QED
  BY <1>2, <1>3, Zenon

\* A list with an element removed, position by position ...
LEMMA Removed ==
  ASSUME NEW S, NEW list \in Seq(S), NEW c \in 1 .. Len(list)
  PROVE  /\ RemoveAt(list, c) \in Seq(S)
         /\ Len(RemoveAt(list, c)) = Len(list) - 1
         /\ \A j \in 1 .. Len(list) - 1 :
              RemoveAt(list, c)[j] = IF j < c THEN list[j] ELSE list[j + 1]
<1> DEFINE n == Len(list)
           a == SubSeq(list, 1, c - 1)
           b == SubSeq(list, c + 1, n)
<1>1. n \in Nat /\ c \in Int
  OBVIOUS
<1>2. a \in Seq(S) /\ Len(a) = c - 1 /\ \A j \in 1 .. c - 1 : a[j] = list[j]
  OBVIOUS
<1>3. b \in Seq(S) /\ Len(b) = n - c /\ \A j \in 1 .. n - c : b[j] = list[c + j]
  BY <1>1
<1>4. RemoveAt(list, c) = a \o b
  BY DEF RemoveAt
<1> HIDE DEF a, b
<1> HIDE DEF n
<1>5. a \o b \in Seq(S) /\ Len(a \o b) = n - 1
  <2>0. a \in Seq(S) /\ b \in Seq(S)
    BY <1>2, <1>3
  <2>1. a \o b \in Seq(S) /\ Len(a \o b) = Len(a) + Len(b)
    BY <2>0
  <2>2. (c - 1) + (n - c) = n - 1
    BY <1>1
  <2> QED
    BY <2>1, <2>2, <1>2, <1>3
<1>6. ASSUME NEW j \in 1 .. n - 1
      PROVE  (a \o b)[j] = IF j < c THEN list[j] ELSE list[j + 1]
  <2>1. CASE j < c
    BY <2>1, <1>1, <1>2, <1>3
  <2>2. CASE ~(j < c)
    <3>1. (a \o b)[j] = b[j - (c - 1)]
      BY <2>2, <1>1, <1>2, <1>3
    <3>2. j - (c - 1) \in 1 .. n - c
      BY <2>2, <1>1
    <3>3. b[j - (c - 1)] = list[c + (j - (c - 1))]
      BY <3>2, <1>3
    <3>4. c + (j - (c - 1)) = j + 1
      BY <1>1
    <3> QED
      BY <2>2, <3>1, <3>3, <3>4
  <2> QED
    BY <2>1, <2>2
<1> QED
  BY <1>4, <1>5, <1>6 DEF n

\* ... and with one inserted.
LEMMA Inserted ==
  ASSUME NEW S, NEW list \in Seq(S), NEW at \in 1 .. Len(list) + 1, NEW r \in S
  PROVE  /\ InsertAt(list, at, r) \in Seq(S)
         /\ Len(InsertAt(list, at, r)) = Len(list) + 1
         /\ \A j \in 1 .. Len(list) + 1 :
              InsertAt(list, at, r)[j] = IF j < at THEN list[j] ELSE IF j = at THEN r ELSE list[j - 1]
<1> DEFINE n == Len(list)
           a == SubSeq(list, 1, at - 1)
           m == a \o <<r>>
           b == SubSeq(list, at, n)
<1>1. n \in Nat /\ at \in Int
  OBVIOUS
<1>2. a \in Seq(S) /\ Len(a) = at - 1 /\ \A j \in 1 .. at - 1 : a[j] = list[j]
  BY <1>1
<1>3. b \in Seq(S) /\ Len(b) = (n + 1) - at /\ \A j \in 1 .. (n + 1) - at : b[j] = list[at + (j - 1)]
  BY <1>1
<1>4. InsertAt(list, at, r) = m \o b
  BY DEF InsertAt
<1> HIDE DEF a, b
<1>5. <<r>> \in Seq(S) /\ Len(<<r>>) = 1 /\ <<r>>[1] = r
  OBVIOUS
<1>6. m \in Seq(S) /\ Len(m) = at
  BY <1>1, <1>2, <1>5
<1>7. (\A j \in 1 .. at - 1 : m[j] = list[j]) /\ m[at] = r
  BY <1>1, <1>2, <1>5
<1> HIDE DEF m
<1> HIDE DEF n
<1>8. m \o b \in Seq(S) /\ Len(m \o b) = n + 1
  <2>1. m \o b \in Seq(S) /\ Len(m \o b) = Len(m) + Len(b)
    BY <1>3, <1>6, SMTT(40)
  <2>2. at + ((n + 1) - at) = n + 1
    BY <1>1
  <2> QED
    BY <2>1, <2>2, <1>3, <1>6
<1>9. ASSUME NEW j \in 1 .. n + 1
      PROVE  (m \o b)[j] = IF j < at THEN list[j] ELSE IF j = at THEN r ELSE list[j - 1]
  <2>1. CASE j <= at
    <3>1. (m \o b)[j] = m[j]
      BY <2>1, <1>1, <1>6, <1>3
    <3> QED
      BY <2>1, <3>1, <1>1, <1>7
  <2>2. CASE ~(j <= at)
    <3>1. (m \o b)[j] = b[j - at]
      BY <2>2, <1>1, <1>6, <1>3
    <3>2. j - at \in 1 .. (n + 1) - at
      BY <2>2, <1>1
    <3>3. b[j - at] = list[at + ((j - at) - 1)]
      BY <3>2, <1>3
    <3>4. at + ((j - at) - 1) = j - 1
      BY <1>1
    <3>5. ~(j < at) /\ ~(j = at)
      BY <2>2, <1>1
    <3> QED
      BY <3>1, <3>3, <3>4, <3>5
  <2> QED
    BY <2>1, <2>2
<1> QED
  BY <1>4, <1>8, <1>9 DEF n

-----------------------------------------------------------------------------
(* Merging.                                                                *)

\* The ranges k and k + 1 as one.
Joined(list, k, joined) ==
  /\ joined \in Seq(Interval) /\ Len(joined) = Len(list) - 1
  /\ \A j \in 1 .. Len(list) - 1 :
       joined[j] = IF j < k THEN list[j]
                   ELSE IF j = k THEN [start |-> list[k].start, end |-> list[k + 1].end]
                   ELSE list[j + 1]

\* Joining neighbours that touch keeps the order and the numbers.
LEMMA Joins ==
  ASSUME NEW list, Listed(list), NEW k \in 1 .. Len(list) - 1,
         list[k + 1].start = list[k].end + 1,
         NEW joined, Joined(list, k, joined)
  PROVE  /\ Listed(joined)
         /\ \A i \in 1 .. Len(joined) - 1 :
              Gap(joined, i) <=> IF i < k THEN Gap(list, i) ELSE Gap(list, i + 1)
         /\ \A n \in Int : Has(joined, n) <=> Has(list, n)
<1> DEFINE m == Len(list)
<1>1. m \in Nat /\ k \in Int /\ Len(joined) = m - 1 /\ joined \in Seq(Interval)
  BY DEF Listed, Joined
<1>2. /\ \A i \in 1 .. m : list[i] \in Interval
      /\ \A i \in 1 .. m : list[i].start \in Int /\ list[i].end \in Int
      /\ \A i \in 1 .. m : list[i].start <= list[i].end
      /\ \A i, j \in 1 .. m : i < j => list[i].end < list[j].start
  <2>1. \A i \in 1 .. m : list[i] \in Interval
    BY DEF Listed
  <2>2. \A i \in 1 .. m : list[i].start \in Int /\ list[i].end \in Int
    BY <2>1, RangeSetAssumption DEF Interval
  <2> QED
    BY <2>1, <2>2 DEF Listed, Forward, Ascending
<1>3. /\ \A j \in 1 .. m - 1 :
           joined[j].start = IF j <= k THEN list[j].start ELSE list[j + 1].start
      /\ \A j \in 1 .. m - 1 :
           joined[j].end = IF j < k THEN list[j].end ELSE list[j + 1].end
  <2>1. ASSUME NEW j \in 1 .. m - 1
        PROVE  /\ joined[j].start = IF j <= k THEN list[j].start ELSE list[j + 1].start
               /\ joined[j].end = IF j < k THEN list[j].end ELSE list[j + 1].end
    <3>1. joined[j] = IF j < k THEN list[j]
                   ELSE IF j = k THEN [start |-> list[k].start, end |-> list[k + 1].end]
                   ELSE list[j + 1]
      BY DEF Joined
    <3>2. CASE j < k
      BY <3>1, <3>2, <1>1
    <3>3. CASE j = k
      BY <3>1, <3>3, <1>1
    <3>4. CASE j > k
      BY <3>1, <3>4, <1>1
    <3> QED
      BY <3>2, <3>3, <3>4, <1>1
  <2> QED
    BY <2>1
<1> HIDE DEF m
<1>4. Forward(joined)
  <2>1. ASSUME NEW i \in 1 .. m - 1
        PROVE  joined[i].start <= joined[i].end
    <3>1. i \in 1 .. m /\ i + 1 \in 1 .. m /\ i \in Int
      BY <1>1
    <3>2. CASE i = k
      <4>1. list[i].end < list[i + 1].start
        BY <3>1, <1>2
      <4> QED
        BY <4>1, <3>1, <3>2, <1>2, <1>3
    <3>3. CASE i < k
      BY <3>1, <3>3, <1>1, <1>2, <1>3
    <3>4. CASE i > k
      <4>1. ~(i <= k) /\ ~(i < k)
        BY <3>1, <3>4, <1>1
      <4>2. joined[i].start = list[i + 1].start /\ joined[i].end = list[i + 1].end
        BY <4>1, <1>3
      <4> QED
        BY <4>2, <3>1, <1>2
    <3> QED
      BY <3>1, <3>2, <3>3, <3>4, <1>1
  <2> QED
    BY <2>1, <1>1 DEF Forward
<1>5. Ascending(joined)
  <2>1. ASSUME NEW i \in 1 .. m - 1, NEW j \in 1 .. m - 1, i < j
        PROVE  joined[i].end < joined[j].start
    <3>1. /\ i \in 1 .. m /\ i + 1 \in 1 .. m /\ i \in Int
          /\ j \in 1 .. m /\ j + 1 \in 1 .. m /\ j \in Int
      BY <1>1
    <3>2. CASE i < k /\ j <= k
      BY <2>1, <3>1, <3>2, <1>2, <1>3
    <3>3. CASE i < k /\ ~(j <= k)
      <4>1. i < j + 1
        BY <2>1, <3>1
      <4> QED
        BY <4>1, <3>1, <3>3, <1>2, <1>3
    <3>4. CASE ~(i < k)
      <4>1. ~(j <= k) /\ i + 1 < j + 1
        BY <2>1, <3>1, <3>4, <1>1
      <4> QED
        BY <4>1, <3>1, <3>4, <1>2, <1>3
    <3> QED
      BY <3>2, <3>3, <3>4
  <2> QED
    BY <2>1, <1>1 DEF Ascending
<1>6. ASSUME NEW i \in 1 .. Len(joined) - 1
      PROVE  Gap(joined, i) <=> IF i < k THEN Gap(list, i) ELSE Gap(list, i + 1)
  <2>1. i \in 1 .. m - 1 /\ i + 1 \in 1 .. m - 1 /\ i \in Int
    BY <1>1
  <2>2. CASE i < k
    <3>1. i + 1 <= k
      BY <2>1, <2>2, <1>1
    <3> QED
      BY <3>1, <2>1, <2>2, <1>3 DEF Gap
  <2>3. CASE ~(i < k)
    <3>1. ~(i + 1 <= k)
      BY <2>1, <2>3, <1>1
    <3> QED
      BY <3>1, <2>1, <2>3, <1>3 DEF Gap
  <2> QED
    BY <2>2, <2>3
<1>7. ASSUME NEW n \in Int, Has(joined, n)
      PROVE  Has(list, n)
  <2>1. PICK j \in 1 .. m - 1 : joined[j].start <= n /\ n <= joined[j].end
    BY <1>1, <1>7 DEF Has
  <2>2. j \in 1 .. m /\ j + 1 \in 1 .. m /\ j \in Int
    BY <1>1
  <2>3. CASE j < k
    BY <2>1, <2>2, <2>3, <1>1, <1>3 DEF Has, m
  <2>4. CASE j > k
    BY <2>1, <2>2, <2>4, <1>1, <1>3 DEF Has, m
  <2>5. CASE j = k
    <3>1. list[j].start <= n /\ n <= list[j + 1].end
      BY <2>1, <2>5, <1>1, <1>3
    <3>2. list[j + 1].start = list[j].end + 1
      BY <2>5
    <3>3. (n <= list[j].end) \/ (list[j + 1].start <= n)
      BY <3>2, <2>2, <1>2
    <3> QED
      BY <3>1, <3>3, <2>2 DEF Has, m
  <2> QED
    BY <2>2, <2>3, <2>4, <2>5, <1>1
<1>8. ASSUME NEW n \in Int, Has(list, n)
      PROVE  Has(joined, n)
  <2>1. PICK i \in 1 .. m : list[i].start <= n /\ n <= list[i].end
    BY <1>8 DEF Has, m
  <2>2. CASE i <= k
    <3>1. i \in 1 .. m - 1 /\ i + 1 \in 1 .. m /\ i \in Int /\ i < i + 1
      BY <2>2, <1>1 DEF m
    <3>2. list[i].end < list[i + 1].start /\ list[i + 1].start <= list[i + 1].end
      BY <3>1, <1>2
    <3>3. n <= list[i + 1].end
      BY <3>1, <3>2, <2>1, <1>2
    <3>4. joined[i].start <= n /\ n <= joined[i].end
      BY <3>1, <3>3, <2>1, <2>2, <1>3
    <3> QED
      BY <3>1, <3>4, <1>1 DEF Has
  <2>3. CASE i = k + 1
    <3>1. k \in 1 .. m - 1 /\ k \in 1 .. m /\ k + 1 \in 1 .. m /\ k < k + 1 /\ ~(k < k) /\ k <= k
      BY <1>1 DEF m
    <3>2. list[k].end < list[k + 1].start /\ list[k].start <= list[k].end
      BY <3>1, <1>2
    <3>3. list[k].start <= n
      BY <3>1, <3>2, <2>1, <2>3, <1>2
    <3>4. joined[k].start <= n /\ n <= joined[k].end
      BY <3>1, <3>3, <2>1, <2>3, <1>3
    <3> QED
      BY <3>1, <3>4, <1>1 DEF Has
  <2>4. CASE i > k + 1
    <3>1. i - 1 \in 1 .. m - 1 /\ (i - 1) + 1 = i /\ ~(i - 1 <= k) /\ ~(i - 1 < k)
      BY <2>4, <1>1
    <3>2. joined[i - 1].start = list[i].start /\ joined[i - 1].end = list[i].end
      BY <3>1, <1>3
    <3>3. joined[i - 1].start <= n /\ n <= joined[i - 1].end
      BY <3>2, <2>1
    <3> QED
      BY <3>1, <3>3, <1>1 DEF Has
  <2> QED
    BY <2>2, <2>3, <2>4, <1>1
<1> QED
  BY <1>1, <1>4, <1>5, <1>6, <1>7, <1>8 DEF Listed

\* The bounds of a range are integers.
LEMMA Bounds ==
  ASSUME NEW list \in Seq(Interval), NEW i \in 1 .. Len(list)
  PROVE  list[i] \in Interval /\ list[i].start \in Int /\ list[i].end \in Int
<1>1. list[i] \in Interval
  OBVIOUS
<1> QED
  BY <1>1, RangeSetAssumption DEF Interval

\* RangeSetMergeBackwards joins the range at the cursor with the one before
\* it when they touch.
LEMMA MergesBackwards ==
  ASSUME NEW rs \in Handle, rs.cursor \in 1 .. Len(rs.list),
         Listed(rs.list), Gaps(rs.list, {rs.cursor - 1, rs.cursor}),
         NEW m, m = RangeSetMergeBackwards(rs)
  PROVE  /\ m \in Handle /\ m.cursor \in 1 .. Len(m.list)
         /\ Listed(m.list) /\ Gaps(m.list, {m.cursor})
         /\ \A n \in Int : Has(m.list, n) <=> Has(rs.list, n)
<1> DEFINE list == rs.list
           c == rs.cursor
           meets == c > 1 /\ list[c - 1].end = list[c].start - 1
<1>1. /\ list \in Seq(Interval) /\ c \in 1 .. Len(list) /\ Len(list) \in Nat /\ c \in Nat
      /\ rs.spare \in BOOLEAN
  BY DEF Handle
<1>2. \A i \in 1 .. Len(list) : /\ list[i] \in Interval
                                /\ list[i].start \in Int /\ list[i].end \in Int
  BY <1>1, Bounds
<1>3. CASE ~meets
  <2>1. m = rs
    BY <1>3 DEF RangeSetMergeBackwards
  <2>2. ASSUME NEW i \in (1 .. Len(list) - 1) \ {c}
        PROVE  Gap(list, i)
    <3>1. CASE i = c - 1
      <4>1. c > 1 /\ i \in 1 .. Len(list) /\ i + 1 \in 1 .. Len(list) /\ i + 1 = c /\ i < i + 1
        BY <3>1, <1>1
      <4>2. list[i].end < list[i + 1].start
        BY <4>1 DEF Listed, Ascending
      <4>3. list[i].end # list[i + 1].start - 1
        BY <4>1, <3>1, <1>3
      <4>4. list[i].end \in Int /\ list[i + 1].start \in Int
        BY <4>1, <1>2
      <4> QED
        BY <4>2, <4>3, <4>4 DEF Gap
    <3>2. CASE i # c - 1
      BY <3>2 DEF Gaps
    <3> QED
      BY <3>1, <3>2
  <2> QED
    BY <2>1, <2>2, <1>1 DEF Gaps
<1>4. CASE meets
  <2> DEFINE grown == [rs EXCEPT !.list[c - 1].end = list[c].end]
             long == [list EXCEPT ![c - 1].end = list[c].end]
             joined == RemoveAt(long, c)
  <2>1. c - 1 \in 1 .. Len(list) - 1 /\ c - 1 \in 1 .. Len(list) /\ (c - 1) + 1 = c /\ c - 1 # c
    BY <1>1, <1>4
  <2>2. [list[c - 1] EXCEPT !.end = list[c].end] = [start |-> list[c - 1].start, end |-> list[c].end]
    BY <1>2, <2>1 DEF Interval
  <2>3. [start |-> list[c - 1].start, end |-> list[c].end] \in Interval
    BY <1>1, <1>2, <2>1 DEF Interval
  <2>4. long \in Seq(Interval) /\ Len(long) = Len(list)
    BY <1>1, <2>1, <2>2, <2>3
  <2>5. \A j \in 1 .. Len(list) :
          long[j] = IF j = c - 1 THEN [start |-> list[c - 1].start, end |-> list[c].end] ELSE list[j]
    BY <1>1, <2>1, <2>2
  <2>6. grown = [rs EXCEPT !.list = long] /\ grown.list = long /\ grown.cursor = c
    BY <1>1 DEF Handle
  <2>7. m = RangeSetRemove(grown, FALSE)
    BY <1>4 DEF RangeSetMergeBackwards
  <2>8. m = [list |-> joined, spare |-> TRUE, cursor |-> c - 1]
    <3>1. c > 1
      BY <1>4
    <3> HIDE DEF grown, long, joined
    <3> QED
      BY <3>1, <2>6, <2>7 DEF RangeSetRemove, joined
  <2> HIDE DEF grown, long
  <2>9. /\ joined \in Seq(Interval) /\ Len(joined) = Len(list) - 1
        /\ \A j \in 1 .. Len(list) - 1 : joined[j] = IF j < c THEN long[j] ELSE long[j + 1]
    <3>1. c \in 1 .. Len(long)
      BY <2>4, <1>1
    <3> QED
      BY <3>1, <2>4, Removed
  <2> HIDE DEF joined
  <2>10. Joined(list, c - 1, joined)
    <3>1. ASSUME NEW j \in 1 .. Len(list) - 1
          PROVE  joined[j] = IF j < c - 1 THEN list[j]
                   ELSE IF j = c - 1 THEN [start |-> list[c - 1].start, end |-> list[(c - 1) + 1].end]
                   ELSE list[j + 1]
      <4>1. j \in Int /\ j \in 1 .. Len(list) /\ j + 1 \in 1 .. Len(list)
        BY <1>1
      <4>2. CASE j < c - 1
        BY <4>1, <4>2, <2>1, <2>5, <2>9
      <4>3. CASE j = c - 1
        BY <4>1, <4>3, <2>1, <2>5, <2>9
      <4>4. CASE j > c - 1
        <5>1. ~(j < c) /\ j + 1 # c - 1 /\ ~(j < c - 1) /\ j # c - 1
          BY <4>1, <4>4, <1>1
        <5> QED
          BY <5>1, <4>1, <2>5, <2>9
      <4> QED
        BY <4>1, <4>2, <4>3, <4>4, <1>1
    <3> QED
      BY <3>1, <2>9 DEF Joined
  <2>11. list[(c - 1) + 1].start = list[c - 1].end + 1
    BY <1>4, <1>2, <1>1, <2>1
  <2>12. /\ Listed(joined)
         /\ \A i \in 1 .. Len(joined) - 1 :
              Gap(joined, i) <=> IF i < c - 1 THEN Gap(list, i) ELSE Gap(list, i + 1)
         /\ \A n \in Int : Has(joined, n) <=> Has(list, n)
    BY <2>1, <2>10, <2>11, Joins
  <2>13. Gaps(joined, {c - 1})
    <3>1. ASSUME NEW i \in (1 .. Len(joined) - 1) \ {c - 1}
          PROVE  Gap(joined, i)
      <4>1. i \in Int /\ i \in 1 .. Len(list) - 1 /\ i + 1 \in 1 .. Len(list) - 1 /\ i # c - 1
        BY <1>1, <2>9
      <4>2. CASE i < c - 1
        <5>1. i \notin {c - 1, c}
          BY <4>1, <4>2, <1>1
        <5> QED
          BY <5>1, <4>1, <4>2, <2>12 DEF Gaps
      <4>3. CASE ~(i < c - 1)
        <5>1. i + 1 \notin {c - 1, c}
          BY <4>1, <4>3, <1>1
        <5> QED
          BY <5>1, <4>1, <4>3, <2>12 DEF Gaps
      <4> QED
        BY <4>2, <4>3
    <3> QED
      BY <3>1 DEF Gaps
  <2>14. m.list = joined /\ m.cursor = c - 1 /\ m.spare = TRUE
    BY <2>8
  <2>15. m \in Handle /\ m.cursor \in 1 .. Len(m.list)
    BY <2>8, <2>9, <2>1 DEF Handle
  <2> QED
    BY <2>12, <2>13, <2>14, <2>15
<1> QED
  BY <1>3, <1>4

\* RangeSetMergeForwards does so with the one after it, and leaves a list as
\* it should be.
LEMMA MergesForwards ==
  ASSUME NEW rs \in Handle, rs.cursor \in 1 .. Len(rs.list),
         Listed(rs.list), Gaps(rs.list, {rs.cursor}),
         NEW m, m = RangeSetMergeForwards(rs)
  PROVE  /\ m \in Handle /\ m.cursor \in 1 .. Len(m.list)
         /\ Sorted(m.list)
         /\ \A n \in Int : Has(m.list, n) <=> Has(rs.list, n)
<1> DEFINE list == rs.list
           c == rs.cursor
           meets == c < Len(list) /\ list[c + 1].start = list[c].end + 1
<1>1. /\ list \in Seq(Interval) /\ c \in 1 .. Len(list) /\ Len(list) \in Nat /\ c \in Nat
      /\ rs.spare \in BOOLEAN
  BY DEF Handle
<1>2. \A i \in 1 .. Len(list) : /\ list[i] \in Interval
                                /\ list[i].start \in Int /\ list[i].end \in Int
  BY <1>1, Bounds
<1>3. CASE ~meets
  <2>1. m = rs
    BY <1>3 DEF RangeSetMergeForwards
  <2>2. ASSUME NEW i \in (1 .. Len(list) - 1) \ {}
        PROVE  Gap(list, i)
    <3>1. CASE i = c
      <4>1. c < Len(list) /\ i \in 1 .. Len(list) /\ i + 1 \in 1 .. Len(list) /\ i < i + 1
        BY <3>1, <1>1
      <4>2. list[i].end < list[i + 1].start
        BY <4>1 DEF Listed, Ascending
      <4>3. list[i + 1].start # list[i].end + 1
        BY <4>1, <3>1, <1>3
      <4>4. list[i].end \in Int /\ list[i + 1].start \in Int
        BY <4>1, <1>2
      <4> QED
        BY <4>2, <4>3, <4>4 DEF Gap
    <3>2. CASE i # c
      BY <3>2 DEF Gaps
    <3> QED
      BY <3>1, <3>2
  <2> QED
    BY <2>1, <2>2, <1>1 DEF Gaps, Sorted
<1>4. CASE meets
  <2> DEFINE grown == [rs EXCEPT !.list[c + 1].start = list[c].start]
             long == [list EXCEPT ![c + 1].start = list[c].start]
             joined == RemoveAt(long, c)
  <2>1. c \in 1 .. Len(list) - 1 /\ c + 1 \in 1 .. Len(list) /\ c + 1 # c
    BY <1>1, <1>4
  <2>2. [list[c + 1] EXCEPT !.start = list[c].start] = [start |-> list[c].start, end |-> list[c + 1].end]
    BY <1>2, <2>1 DEF Interval
  <2>3. [start |-> list[c].start, end |-> list[c + 1].end] \in Interval
    BY <1>1, <1>2, <2>1 DEF Interval
  <2>4. long \in Seq(Interval) /\ Len(long) = Len(list)
    BY <1>1, <2>1, <2>2, <2>3
  <2>5. \A j \in 1 .. Len(list) :
          long[j] = IF j = c + 1 THEN [start |-> list[c].start, end |-> list[c + 1].end] ELSE list[j]
    BY <1>1, <2>1, <2>2
  <2>6. grown = [rs EXCEPT !.list = long] /\ grown.list = long /\ grown.cursor = c
    BY <1>1 DEF Handle
  <2>7. m = RangeSetRemove(grown, TRUE)
    BY <1>4 DEF RangeSetMergeForwards
  <2>8. m = [list |-> joined, spare |-> TRUE, cursor |-> c]
    <3>1. c <= Len(long) - 1
      BY <2>1, <2>4
    <3> HIDE DEF grown, long, joined
    <3> QED
      BY <3>1, <2>6, <2>7 DEF RangeSetRemove, joined
  <2> HIDE DEF grown, long
  <2>9. /\ joined \in Seq(Interval) /\ Len(joined) = Len(list) - 1
        /\ \A j \in 1 .. Len(list) - 1 : joined[j] = IF j < c THEN long[j] ELSE long[j + 1]
    <3>1. c \in 1 .. Len(long)
      BY <2>4, <1>1
    <3> QED
      BY <3>1, <2>4, Removed
  <2> HIDE DEF joined
  <2>10. Joined(list, c, joined)
    <3>1. ASSUME NEW j \in 1 .. Len(list) - 1
          PROVE  joined[j] = IF j < c THEN list[j]
                   ELSE IF j = c THEN [start |-> list[c].start, end |-> list[c + 1].end]
                   ELSE list[j + 1]
      <4>1. j \in Int /\ j \in 1 .. Len(list) /\ j + 1 \in 1 .. Len(list)
        BY <1>1
      <4>2. CASE j < c
        BY <4>1, <4>2, <2>1, <2>5, <2>9, <1>1
      <4>3. CASE j = c
        BY <4>1, <4>3, <2>1, <2>5, <2>9
      <4>4. CASE j > c
        <5>1. ~(j < c) /\ j + 1 # c + 1 /\ j # c
          BY <4>1, <4>4, <1>1
        <5> QED
          BY <5>1, <4>1, <2>5, <2>9
      <4> QED
        BY <4>1, <4>2, <4>3, <4>4, <1>1
    <3> QED
      BY <3>1, <2>9 DEF Joined
  <2>11. list[c + 1].start = list[c].end + 1
    BY <1>4
  <2>12. /\ Listed(joined)
         /\ \A i \in 1 .. Len(joined) - 1 :
              Gap(joined, i) <=> IF i < c THEN Gap(list, i) ELSE Gap(list, i + 1)
         /\ \A n \in Int : Has(joined, n) <=> Has(list, n)
    BY <2>1, <2>10, <2>11, Joins
  <2>13. Gaps(joined, {})
    <3>1. ASSUME NEW i \in (1 .. Len(joined) - 1) \ {}
          PROVE  Gap(joined, i)
      <4>1. i \in Int /\ i \in 1 .. Len(list) - 1 /\ i + 1 \in 1 .. Len(list) - 1
        BY <1>1, <2>9
      <4>2. CASE i < c
        <5>1. i \notin {c}
          BY <4>1, <4>2, <1>1
        <5> QED
          BY <5>1, <4>1, <4>2, <2>12 DEF Gaps
      <4>3. CASE ~(i < c)
        <5>1. i + 1 \notin {c}
          BY <4>1, <4>3, <1>1
        <5> QED
          BY <5>1, <4>1, <4>3, <2>12 DEF Gaps
      <4> QED
        BY <4>2, <4>3
    <3> QED
      BY <3>1 DEF Gaps
  <2>14. m.list = joined /\ m.cursor = c /\ m.spare = TRUE
    BY <2>8
  <2>15. m \in Handle /\ m.cursor \in 1 .. Len(m.list)
    BY <2>8, <2>9, <2>1 DEF Handle
  <2> QED
    BY <2>12, <2>13, <2>14, <2>15 DEF Sorted
<1> QED
  BY <1>3, <1>4

-----------------------------------------------------------------------------
(* Adding a range.                                                         *)

\* A range fits in a list before position at.
Fits(list, at, range) ==
  /\ at \in 1 .. Len(list) + 1 /\ range \in Interval /\ range.start <= range.end
  /\ \A i \in 1 .. Len(list) : IF i < at THEN list[i].end < range.start
                               ELSE range.end < list[i].start

\* The list with the range there.
Extended(list, at, range, longer) ==
  /\ longer \in Seq(Interval) /\ Len(longer) = Len(list) + 1
  /\ \A j \in 1 .. Len(list) + 1 :
       longer[j] = IF j < at THEN list[j] ELSE IF j = at THEN range ELSE list[j - 1]

\* InsertAt is that list.
LEMMA Extends ==
  ASSUME NEW list \in Seq(Interval), NEW at, at \in 1 .. Len(list) + 1,
         NEW range, range \in Interval
  PROVE  Extended(list, at, range, InsertAt(list, at, range))
<1>1. /\ InsertAt(list, at, range) \in Seq(Interval)
      /\ Len(InsertAt(list, at, range)) = Len(list) + 1
      /\ \A j \in 1 .. Len(list) + 1 :
           InsertAt(list, at, range)[j] =
             IF j < at THEN list[j] ELSE IF j = at THEN range ELSE list[j - 1]
  BY Inserted
<1> QED
  BY <1>1 DEF Extended

\* RangeSetAdd's insertion keeps the order; only the two gaps at the new
\* range may close.
LEMMA Inserts ==
  ASSUME NEW list, Sorted(list), NEW at, NEW range, Fits(list, at, range),
         NEW longer, longer = InsertAt(list, at, range)
  PROVE  /\ Listed(longer) /\ Gaps(longer, {at - 1, at}) /\ Len(longer) = Len(list) + 1
         /\ \A j \in 1 .. Len(list) + 1 :
              longer[j] = IF j < at THEN list[j] ELSE IF j = at THEN range ELSE list[j - 1]
         /\ \A n \in Int : Has(longer, n) <=> Has(list, n) \/ (range.start <= n /\ n <= range.end)
<1> DEFINE m == Len(list)
<1>1. m \in Nat /\ at \in 1 .. m + 1 /\ list \in Seq(Interval) /\ range \in Interval
  BY DEF Sorted, Listed, Fits
<1>2. \A i \in 1 .. m : list[i].start \in Int /\ list[i].end \in Int
  BY <1>1, Bounds
<1>3. range.start \in Int /\ range.end \in Int /\ range.start <= range.end
  BY <1>1, RangeSetAssumption DEF Interval, Fits
<1>4. /\ \A i \in 1 .. m : list[i].start <= list[i].end
      /\ \A i, j \in 1 .. m : i < j => list[i].end < list[j].start
      /\ \A i \in 1 .. m : i < at => list[i].end < range.start
      /\ \A i \in 1 .. m : i >= at => range.end < list[i].start
  BY <1>1 DEF Sorted, Listed, Forward, Ascending, Fits
<1>5. /\ longer \in Seq(Interval) /\ Len(longer) = m + 1
      /\ \A j \in 1 .. m + 1 :
           longer[j] = IF j < at THEN list[j] ELSE IF j = at THEN range ELSE list[j - 1]
  <2>1. at \in 1 .. Len(list) + 1
    BY <1>1
  <2>2. /\ InsertAt(list, at, range) \in Seq(Interval)
        /\ Len(InsertAt(list, at, range)) = Len(list) + 1
        /\ \A j \in 1 .. Len(list) + 1 :
             InsertAt(list, at, range)[j] =
               IF j < at THEN list[j] ELSE IF j = at THEN range ELSE list[j - 1]
    <3> HIDE DEF m
    <3>1. list \in Seq(Interval) /\ range \in Interval
      BY <1>1
    <3> QED
      BY <2>1, <3>1, Inserted, SMTT(40)
  <2> QED
    BY <2>2
<1>6. /\ \A j \in 1 .. m + 1 : j < at => j \in 1 .. m /\ longer[j] = list[j]
      /\ longer[at] = range
      /\ \A j \in 1 .. m + 1 : j > at => j - 1 \in 1 .. m /\ j - 1 >= at /\ longer[j] = list[j - 1]
  <2>1. ASSUME NEW j \in 1 .. m + 1
        PROVE  /\ j < at => j \in 1 .. m /\ longer[j] = list[j]
               /\ j > at => j - 1 \in 1 .. m /\ j - 1 >= at /\ longer[j] = list[j - 1]
    BY <1>1, <1>5
  <2>2. longer[at] = range
    BY <1>1, <1>5
  <2> QED
    BY <2>1, <2>2
<1> HIDE DEF m
<1>7. Forward(longer)
  <2>1. ASSUME NEW j \in 1 .. m + 1
        PROVE  longer[j].start <= longer[j].end
    <3>1. CASE j < at
      BY <3>1, <1>6, <1>4
    <3>2. CASE j = at
      BY <3>2, <1>6, <1>3
    <3>3. CASE j > at
      BY <3>3, <1>6, <1>4
    <3> QED
      BY <3>1, <3>2, <3>3, <1>1
  <2> QED
    BY <2>1, <1>5 DEF Forward
<1>8. Ascending(longer)
  <2>1. ASSUME NEW i \in 1 .. m + 1, NEW j \in 1 .. m + 1, i < j
        PROVE  longer[i].end < longer[j].start
    <3>0. i \in Int /\ j \in Int /\ at \in Int
      BY <1>1
    <3>1. CASE j < at
      BY <2>1, <3>0, <3>1, <1>6, <1>4
    <3>2. CASE j = at
      BY <2>1, <3>0, <3>2, <1>6, <1>4
    <3>3. CASE j > at /\ i < at
      <4>1. i < j - 1
        BY <3>0, <3>3
      <4>2. longer[i] = list[i] /\ longer[j] = list[j - 1] /\ i \in 1 .. m /\ j - 1 \in 1 .. m
        BY <3>3, <1>6
      <4> QED
        BY <4>1, <4>2, <1>4
    <3>4. CASE j > at /\ i = at
      BY <3>4, <1>6, <1>4
    <3>5. CASE j > at /\ i > at
      <4>1. i - 1 < j - 1
        BY <3>0, <2>1
      <4>2. /\ longer[i] = list[i - 1] /\ longer[j] = list[j - 1]
            /\ i - 1 \in 1 .. m /\ j - 1 \in 1 .. m
        BY <3>5, <1>6
      <4> QED
        BY <4>1, <4>2, <1>4
    <3> QED
      BY <2>1, <3>0, <3>1, <3>2, <3>3, <3>4, <3>5
  <2> QED
    BY <2>1, <1>5 DEF Ascending
<1>9. Gaps(longer, {at - 1, at})
  <2>1. ASSUME NEW i \in (1 .. Len(longer) - 1) \ {at - 1, at}
        PROVE  Gap(longer, i)
    <3>1. /\ i \in Int /\ at \in Int /\ i \in 1 .. m + 1 /\ i + 1 \in 1 .. m + 1
          /\ i # at - 1 /\ i # at
      BY <1>1, <1>5
    <3>2. CASE i < at
      <4>1. i + 1 < at
        BY <3>1, <3>2
      <4>2. longer[i] = list[i] /\ longer[i + 1] = list[i + 1] /\ i \in 1 .. m - 1
        BY <4>1, <3>1, <3>2, <1>6, <1>1
      <4>3. Gap(list, i)
        BY <4>2 DEF Sorted, Gaps, m
      <4> QED
        BY <4>2, <4>3 DEF Gap
    <3>3. CASE i > at
      <4>1. i + 1 > at /\ (i + 1) - 1 = i /\ (i - 1) + 1 = i
        BY <3>1, <3>3
      <4>2. longer[i] = list[i - 1] /\ longer[i + 1] = list[i] /\ i - 1 \in 1 .. m - 1
        BY <4>1, <3>1, <3>3, <1>6, <1>1
      <4>3. Gap(list, i - 1)
        BY <4>2 DEF Sorted, Gaps, m
      <4> QED
        BY <4>1, <4>2, <4>3 DEF Gap
    <3> QED
      BY <3>1, <3>2, <3>3
  <2> QED
    BY <2>1 DEF Gaps
<1>10. ASSUME NEW n \in Int, Has(longer, n)
       PROVE  Has(list, n) \/ (range.start <= n /\ n <= range.end)
  <2>1. PICK j \in 1 .. m + 1 : longer[j].start <= n /\ n <= longer[j].end
    BY <1>5, <1>10 DEF Has
  <2>2. CASE j < at
    BY <2>1, <2>2, <1>6 DEF Has, m
  <2>3. CASE j = at
    BY <2>1, <2>3, <1>6
  <2>4. CASE j > at
    BY <2>1, <2>4, <1>6 DEF Has, m
  <2> QED
    BY <2>2, <2>3, <2>4, <1>1
<1>11. ASSUME NEW n \in Int, Has(list, n) \/ (range.start <= n /\ n <= range.end)
       PROVE  Has(longer, n)
  <2>1. CASE Has(list, n)
    <3>1. PICK i \in 1 .. m : list[i].start <= n /\ n <= list[i].end
      BY <2>1 DEF Has, m
    <3>2. CASE i < at
      <4>1. i \in 1 .. m + 1 /\ longer[i] = list[i]
        BY <3>2, <1>1, <1>6
      <4> QED
        BY <4>1, <3>1, <1>5 DEF Has
    <3>3. CASE ~(i < at)
      <4>1. i + 1 \in 1 .. m + 1 /\ i + 1 > at /\ (i + 1) - 1 = i
        BY <3>3, <1>1
      <4>2. longer[i + 1] = list[i]
        BY <4>1, <1>6
      <4> QED
        BY <4>1, <4>2, <3>1, <1>5 DEF Has
    <3> QED
      BY <3>2, <3>3
  <2>2. CASE range.start <= n /\ n <= range.end
    BY <2>2, <1>6, <1>1, <1>5 DEF Has
  <2> QED
    BY <2>1, <2>2, <1>11
<1> QED
  BY <1>5, <1>7, <1>8, <1>9, <1>10, <1>11 DEF Listed, m

\* Where RangeSetAdd inserts: after the cursor or before it, at the end for
\* the list head.
Place(rs, after) ==
  IF after THEN rs.cursor + 1 ELSE IF rs.cursor = 0 THEN Len(rs.list) + 1 ELSE rs.cursor

\* RangeSetAdd inserts and merges: the set grows by the range.
LEMMA Adds ==
  ASSUME NEW rs \in Handle, Sorted(rs.list), NEW range, NEW after \in BOOLEAN,
         Fits(rs.list, Place(rs, after), range),
         NEW m, m = RangeSetAdd(rs, range, after)
  PROVE  /\ m \in Handle /\ m.cursor \in 1 .. Len(m.list) /\ Sorted(m.list)
         /\ \A n \in Int : Has(m.list, n) <=> Has(rs.list, n) \/ (range.start <= n /\ n <= range.end)
<1> DEFINE at == Place(rs, after)
           longer == InsertAt(rs.list, at, range)
           with == [list |-> longer, cursor |-> at, spare |-> FALSE]
           back == RangeSetMergeBackwards(with)
<1>1. m = RangeSetMergeForwards(back)
  BY Zenon DEF RangeSetAdd, Place
<1> HIDE DEF at
<1>2. at \in 1 .. Len(rs.list) + 1 /\ Fits(rs.list, at, range) /\ Len(rs.list) \in Nat
  BY DEF Fits, Sorted, Listed, at
<1>3. /\ Listed(longer) /\ Gaps(longer, {at - 1, at}) /\ Len(longer) = Len(rs.list) + 1
      /\ \A n \in Int :
           Has(longer, n) <=> Has(rs.list, n) \/ (range.start <= n /\ n <= range.end)
  <2> DEFINE l == rs.list
  <2> HIDE DEF l
  <2>1. Sorted(l) /\ Fits(l, at, range)
    BY <1>2 DEF l
  <2>2. LET k == InsertAt(l, at, range) IN
        /\ Listed(k) /\ Gaps(k, {at - 1, at}) /\ Len(k) = Len(l) + 1
        /\ \A n \in Int : Has(k, n) <=> Has(l, n) \/ (range.start <= n /\ n <= range.end)
    BY <2>1, Inserts, Zenon
  <2> QED
    BY <2>2 DEF l
<1> HIDE DEF longer
<1>4. /\ with \in Handle /\ with.cursor \in 1 .. Len(with.list)
      /\ Listed(with.list) /\ Gaps(with.list, {with.cursor - 1, with.cursor})
  BY <1>2, <1>3 DEF Handle, Listed
<1>5. with.list = longer
  OBVIOUS
<1> HIDE DEF with
<1>6. /\ back \in Handle /\ back.cursor \in 1 .. Len(back.list)
      /\ Listed(back.list) /\ Gaps(back.list, {back.cursor})
      /\ \A n \in Int : Has(back.list, n) <=> Has(with.list, n)
  BY <1>4, MergesBackwards
<1> HIDE DEF back
<1>7. /\ m \in Handle /\ m.cursor \in 1 .. Len(m.list)
      /\ Sorted(m.list)
      /\ \A n \in Int : Has(m.list, n) <=> Has(back.list, n)
  BY <1>1, <1>6, MergesForwards
<1> QED
  BY <1>3, <1>5, <1>6, <1>7

-----------------------------------------------------------------------------
(* Taking numbers out.                                                     *)

\* A number is in a range.
Within(r, n) == r.start <= n /\ n <= r.end

\* The list without its range c.
Shortened(list, c, shorter) ==
  /\ c \in 1 .. Len(list)
  /\ shorter \in Seq(Interval) /\ Len(shorter) = Len(list) - 1
  /\ \A j \in 1 .. Len(list) - 1 : shorter[j] = IF j < c THEN list[j] ELSE list[j + 1]

\* RangeSetRemove's removal: the set loses the range.
LEMMA Removes ==
  ASSUME NEW list, Sorted(list), NEW c, NEW shorter, Shortened(list, c, shorter)
  PROVE  /\ Sorted(shorter)
         /\ \A n \in Int : Has(shorter, n) <=> Has(list, n) /\ ~Within(list[c], n)
<1> DEFINE m == Len(list)
<1>1. m \in Nat /\ c \in 1 .. m /\ c \in Int /\ list \in Seq(Interval)
  BY DEF Sorted, Listed, Shortened
<1>2. \A i \in 1 .. m : list[i].start \in Int /\ list[i].end \in Int
  BY <1>1, Bounds
<1>3. /\ \A i \in 1 .. m : list[i].start <= list[i].end
      /\ \A i, j \in 1 .. m : i < j => list[i].end < list[j].start
      /\ \A i \in 1 .. m - 1 : Gap(list, i)
  BY <1>1 DEF Sorted, Listed, Forward, Ascending, Gaps
<1>4. \A j \in 1 .. m - 1 : /\ j < c => shorter[j] = list[j]
                            /\ j >= c => shorter[j] = list[j + 1]
                            /\ j \in 1 .. m /\ j + 1 \in 1 .. m /\ j \in Int
  BY <1>1 DEF Shortened
<1>5. Len(shorter) = m - 1 /\ shorter \in Seq(Interval)
  BY DEF Shortened
<1> HIDE DEF m
<1>6. Forward(shorter)
  <2>1. ASSUME NEW j \in 1 .. m - 1
        PROVE  shorter[j].start <= shorter[j].end
    <3>1. CASE j < c
      BY <3>1, <1>4, <1>3
    <3>2. CASE j >= c
      BY <3>2, <1>4, <1>3
    <3> QED
      BY <3>1, <3>2, <1>1
  <2> QED
    BY <2>1, <1>5 DEF Forward
<1>7. Ascending(shorter)
  <2>1. ASSUME NEW i \in 1 .. m - 1, NEW j \in 1 .. m - 1, i < j
        PROVE  shorter[i].end < shorter[j].start
    <3>1. i < j + 1 /\ i + 1 < j + 1 /\ i \in Int /\ j \in Int
      BY <2>1
    <3>2. CASE j < c
      BY <2>1, <3>1, <3>2, <1>1, <1>4, <1>3
    <3>3. CASE j >= c /\ i < c
      BY <2>1, <3>1, <3>3, <1>4, <1>3
    <3>4. CASE i >= c
      <4>1. j >= c
        BY <3>1, <3>4, <2>1, <1>1
      <4>2. shorter[i] = list[i + 1] /\ shorter[j] = list[j + 1]
        BY <3>4, <4>1, <1>4
      <4>3. i + 1 \in 1 .. m /\ j + 1 \in 1 .. m
        BY <1>4
      <4> QED
        BY <4>2, <4>3, <3>1, <1>3
    <3> QED
      BY <3>1, <3>2, <3>3, <3>4, <1>1
  <2> QED
    BY <2>1, <1>5 DEF Ascending
<1>8. Gaps(shorter, {})
  <2>1. ASSUME NEW i \in (1 .. Len(shorter) - 1) \ {}
        PROVE  Gap(shorter, i)
    <3>1. /\ i \in 1 .. m - 1 /\ i + 1 \in 1 .. m - 1 /\ i \in Int
          /\ i \in 1 .. m /\ i + 1 \in 1 .. m /\ (i + 1) + 1 \in 1 .. m
      BY <1>1, <1>5
    <3>2. CASE i + 1 < c
      <4>1. i < c
        BY <3>1, <3>2, <1>1
      <4> QED
        BY <4>1, <3>1, <3>2, <1>3, <1>4 DEF Gap
    <3>3. CASE i >= c
      <4>1. i + 1 >= c
        BY <3>1, <3>3, <1>1
      <4> QED
        BY <4>1, <3>1, <3>3, <1>3, <1>4 DEF Gap
    <3>4. CASE i + 1 = c
      <4>1. i < c /\ i + 1 >= c
        BY <3>1, <3>4
      <4>2. shorter[i] = list[i] /\ shorter[i + 1] = list[(i + 1) + 1]
        BY <4>1, <3>1, <1>4
      <4>3. list[i].end + 1 < list[i + 1].start
        BY <3>1, <1>3 DEF Gap
      <4>4. list[i + 1].start <= list[i + 1].end /\ list[i + 1].end < list[(i + 1) + 1].start
        <5>1. i + 1 < (i + 1) + 1
          BY <3>1
        <5> QED
          BY <5>1, <3>1, <1>3
      <4>5. /\ list[i].end \in Int /\ list[i + 1].start \in Int /\ list[i + 1].end \in Int
            /\ list[(i + 1) + 1].start \in Int
        BY <3>1, <1>2
      <4> QED
        BY <4>2, <4>3, <4>4, <4>5 DEF Gap
    <3> QED
      BY <3>1, <3>2, <3>3, <3>4, <1>1
  <2> QED
    BY <2>1 DEF Gaps
<1>9. ASSUME NEW n \in Int, Has(shorter, n)
      PROVE  Has(list, n) /\ ~Within(list[c], n)
  <2>1. PICK j \in 1 .. m - 1 : shorter[j].start <= n /\ n <= shorter[j].end
    BY <1>5, <1>9 DEF Has
  <2>2. CASE j < c
    <3>1. shorter[j] = list[j] /\ j \in 1 .. m /\ list[j].end < list[c].start
      BY <2>2, <1>1, <1>3, <1>4
    <3> QED
      BY <3>1, <2>1, <1>1, <1>2 DEF Has, Within, m
  <2>3. CASE j >= c
    <3>1. c < j + 1 /\ j + 1 \in 1 .. m
      BY <2>3, <1>1, <1>4
    <3>2. shorter[j] = list[j + 1] /\ list[c].end < list[j + 1].start
      BY <2>3, <3>1, <1>1, <1>3, <1>4
    <3>3. list[j + 1].start <= n /\ n <= list[j + 1].end
      BY <3>2, <2>1
    <3>4. Has(list, n)
      BY <3>1, <3>3 DEF Has, m
    <3>5. list[c].end < n
      BY <3>1, <3>2, <3>3, <1>1, <1>2
    <3> QED
      BY <3>4, <3>5, <1>1, <1>2 DEF Within
  <2> QED
    BY <2>2, <2>3, <1>1, <1>4
<1>10. ASSUME NEW n \in Int, Has(list, n), ~Within(list[c], n)
       PROVE  Has(shorter, n)
  <2>1. PICK i \in 1 .. m : list[i].start <= n /\ n <= list[i].end
    BY <1>10 DEF Has, m
  <2>2. i # c
    BY <2>1, <1>10 DEF Within
  <2>3. CASE i < c
    <3>1. i \in 1 .. m - 1 /\ shorter[i] = list[i]
      BY <2>3, <1>1, <1>4
    <3> QED
      BY <3>1, <2>1, <1>5 DEF Has
  <2>4. CASE i > c
    <3>1. i - 1 \in 1 .. m - 1 /\ i - 1 >= c /\ (i - 1) + 1 = i
      BY <2>4, <1>1
    <3>2. shorter[i - 1] = list[i]
      BY <3>1, <1>4
    <3> QED
      BY <3>1, <3>2, <2>1, <1>5 DEF Has
  <2> QED
    BY <2>2, <2>3, <2>4, <1>1
<1> QED
  BY <1>6, <1>7, <1>8, <1>9, <1>10, <1>5 DEF Sorted, Listed

\* The list with its range c cut down to r.
Trimmed(list, c, r, trimmed) ==
  /\ c \in 1 .. Len(list) /\ r \in Interval
  /\ list[c].start <= r.start /\ r.start <= r.end /\ r.end <= list[c].end
  /\ trimmed \in Seq(Interval) /\ Len(trimmed) = Len(list)
  /\ \A j \in 1 .. Len(list) : trimmed[j] = IF j = c THEN r ELSE list[j]

\* A trimmed range takes its numbers from the set, and no others.
LEMMA Trims ==
  ASSUME NEW list, Sorted(list), NEW c, NEW r, NEW trimmed, Trimmed(list, c, r, trimmed)
  PROVE  /\ Sorted(trimmed)
         /\ \A n \in Int : Has(trimmed, n)
              <=> Has(list, n) /\ (Within(list[c], n) => Within(r, n))
<1> DEFINE m == Len(list)
<1>1. /\ m \in Nat /\ c \in 1 .. m /\ c \in Int /\ list \in Seq(Interval)
      /\ r \in Interval /\ r.start <= r.end
      /\ list[c].start <= r.start /\ r.end <= list[c].end
  BY DEF Sorted, Listed, Trimmed
<1>2. /\ \A i \in 1 .. m : list[i].start \in Int /\ list[i].end \in Int
      /\ r.start \in Int /\ r.end \in Int
  <2>1. \A i \in 1 .. m : list[i].start \in Int /\ list[i].end \in Int
    BY <1>1, Bounds
  <2>2. r.start \in Int /\ r.end \in Int
    BY <1>1, RangeSetAssumption DEF Interval
  <2> QED
    BY <2>1, <2>2
<1>3. /\ \A i \in 1 .. m : list[i].start <= list[i].end
      /\ \A i, j \in 1 .. m : i < j => list[i].end < list[j].start
      /\ \A i \in 1 .. m - 1 : Gap(list, i)
  BY <1>1 DEF Sorted, Listed, Forward, Ascending, Gaps
<1>4. \A j \in 1 .. m : /\ j # c => trimmed[j] = list[j]
                        /\ j = c => trimmed[j] = r
  BY DEF Trimmed
<1>5. \A j \in 1 .. m : /\ list[j].start <= trimmed[j].start
                        /\ trimmed[j].start <= trimmed[j].end
                        /\ trimmed[j].end <= list[j].end
                        /\ trimmed[j].start \in Int /\ trimmed[j].end \in Int
  <2>1. ASSUME NEW j \in 1 .. m
        PROVE  /\ list[j].start <= trimmed[j].start
               /\ trimmed[j].start <= trimmed[j].end
               /\ trimmed[j].end <= list[j].end
               /\ trimmed[j].start \in Int /\ trimmed[j].end \in Int
    <3>1. CASE j = c
      BY <3>1, <1>1, <1>2, <1>4
    <3>2. CASE j # c
      BY <3>2, <1>2, <1>3, <1>4
    <3> QED
      BY <3>1, <3>2
  <2> QED
    BY <2>1
<1>6. Len(trimmed) = m /\ trimmed \in Seq(Interval)
  BY DEF Trimmed
<1> HIDE DEF m
<1>7. Forward(trimmed)
  BY <1>5, <1>6 DEF Forward
<1>8. Ascending(trimmed)
  <2>1. ASSUME NEW i \in 1 .. m, NEW j \in 1 .. m, i < j
        PROVE  trimmed[i].end < trimmed[j].start
    BY <2>1, <1>2, <1>3, <1>5
  <2> QED
    BY <2>1, <1>6 DEF Ascending
<1>9. Gaps(trimmed, {})
  <2>1. ASSUME NEW i \in (1 .. Len(trimmed) - 1) \ {}
        PROVE  Gap(trimmed, i)
    <3>1. i \in 1 .. m - 1 /\ i \in 1 .. m /\ i + 1 \in 1 .. m
      BY <1>1, <1>6
    <3>2. list[i].end + 1 < list[i + 1].start
      BY <3>1, <1>3 DEF Gap
    <3> QED
      BY <3>1, <3>2, <1>2, <1>5, SMTT(40) DEF Gap
  <2> QED
    BY <2>1 DEF Gaps
<1>10. ASSUME NEW n \in Int, Has(trimmed, n)
       PROVE  Has(list, n) /\ (Within(list[c], n) => Within(r, n))
  <2>1. PICK i \in 1 .. m : trimmed[i].start <= n /\ n <= trimmed[i].end
    BY <1>6, <1>10 DEF Has
  <2>2. list[i].start <= n /\ n <= list[i].end
    BY <2>1, <1>2, <1>5
  <2>3. CASE i = c
    BY <2>1, <2>2, <2>3, <1>1, <1>4 DEF Has, Within, m
  <2>4. CASE i # c
    <3>1. list[i].end < list[c].start \/ list[c].end < list[i].start
      BY <2>4, <1>1, <1>3
    <3>2. ~Within(list[c], n)
      BY <3>1, <2>2, <1>1, <1>2, SMTT(40) DEF Within
    <3> QED
      BY <3>2, <2>2 DEF Has, m
  <2> QED
    BY <2>3, <2>4
<1>11. ASSUME NEW n \in Int, Has(list, n), Within(list[c], n) => Within(r, n)
       PROVE  Has(trimmed, n)
  <2>1. PICK i \in 1 .. m : list[i].start <= n /\ n <= list[i].end
    BY <1>11 DEF Has, m
  <2>2. CASE i = c
    <3>1. Within(r, n)
      BY <2>1, <2>2, <1>11 DEF Within
    <3> QED
      BY <3>1, <2>2, <1>4, <1>6 DEF Has, Within
  <2>3. CASE i # c
    BY <2>1, <2>3, <1>4, <1>6 DEF Has
  <2> QED
    BY <2>2, <2>3
<1> QED
  BY <1>7, <1>8, <1>9, <1>10, <1>11, <1>6 DEF Sorted, Listed

\* Numbers in a row that are all in the set are in one range of a sorted
\* list: this is why RangeSetGet looks at one range only.
LEMMA SingleRange ==
  ASSUME NEW list, Sorted(list), NEW s \in Int, NEW e \in Int, s <= e,
         \A n \in s .. e : Has(list, n)
  PROVE  \E i \in 1 .. Len(list) : list[i].start <= s /\ e <= list[i].end
<1> DEFINE m == Len(list)
<1>1. m \in Nat /\ list \in Seq(Interval)
  BY DEF Sorted, Listed
<1>2. \A i \in 1 .. m : list[i].start \in Int /\ list[i].end \in Int
  BY <1>1, Bounds
<1>3. /\ \A i, j \in 1 .. m : i < j => list[i].end < list[j].start
      /\ \A i \in 1 .. m : list[i].start <= list[i].end
      /\ \A i \in 1 .. m - 1 : Gap(list, i)
  BY <1>1 DEF Sorted, Listed, Ascending, Gaps, Forward
<1>4. PICK i \in 1 .. m : list[i].start <= s /\ s <= list[i].end
  <2>1. s \in s .. e
    OBVIOUS
  <2> QED
    BY <2>1 DEF Has
<1>5. ASSUME list[i].end < e
      PROVE  FALSE
  <2>1. list[i].end + 1 \in s .. e
    BY <1>2, <1>4, <1>5
  <2>2. PICK j \in 1 .. m : list[j].start <= list[i].end + 1 /\ list[i].end + 1 <= list[j].end
    BY <2>1 DEF Has
  <2> HIDE DEF m
  <2>3. CASE j <= i
    <3>1. list[j].end <= list[i].end
      <4>1. CASE j = i
        BY <4>1, <1>2
      <4>2. CASE j < i
        BY <4>2, <1>2, <1>3
      <4> QED
        BY <2>3, <4>1, <4>2
    <3> QED
      BY <3>1, <2>2, <1>2
  <2>4. CASE j > i
    <3>1. i \in 1 .. m - 1 /\ i + 1 \in 1 .. m /\ i + 1 <= j
      BY <2>4, <1>1
    <3>2. list[i].end + 1 < list[i + 1].start
      BY <3>1, <1>3 DEF Gap
    <3>3. list[i + 1].start <= list[j].start
      <4>1. CASE j = i + 1
        BY <4>1, <1>2
      <4>2. CASE i + 1 < j
        <5>1. list[i + 1].start <= list[i + 1].end /\ list[i + 1].end < list[j].start
          BY <4>2, <3>1, <1>3
        <5> QED
          BY <5>1, <3>1, <1>2
      <4> QED
        BY <3>1, <4>1, <4>2
    <3> QED
      BY <3>1, <3>2, <3>3, <2>2, <1>2
  <2> QED
    BY <2>3, <2>4
<1> QED
  BY <1>2, <1>4, <1>5

\* Cut, the middle of RangeSetGet: a range of which an inner part goes
\* becomes two.
LEMMA Cuts ==
  ASSUME NEW rs \in Handle, NEW list, list = rs.list, NEW c, c = rs.cursor,
         Sorted(list), c \in 1 .. Len(list),
         NEW s \in Int, NEW e \in Int, s <= e, list[c].start < s, e < list[c].end,
         NEW cut, cut = Cut(rs, s, e)
  PROVE  /\ cut \in Handle /\ cut.cursor \in 1 .. Len(cut.list) /\ Sorted(cut.list)
         /\ \A n \in Int : Has(cut.list, n) <=> Has(list, n) /\ ~(s <= n /\ n <= e)
<1> DEFINE m == Len(list)
           upper == [start |-> e + 1, end |-> list[c].end]
           lower == [start |-> list[c].start, end |-> s - 1]
           longer == InsertAt(list, c + 1, upper)
           with == [list |-> longer, cursor |-> c + 1, spare |-> FALSE]
           trimmed == [list EXCEPT ![c] = lower]
           both == InsertAt(trimmed, c + 1, upper)
<1>1. /\ m \in Nat /\ c \in 1 .. m /\ c \in Int /\ list \in Seq(Interval)
      /\ c + 1 \in 1 .. m + 1 /\ c # c + 1
  BY DEF Sorted, Listed
<1>2. \A i \in 1 .. m : list[i].start \in Int /\ list[i].end \in Int
  BY <1>1, Bounds
<1>3. /\ \A i, j \in 1 .. m : i < j => list[i].end < list[j].start
      /\ \A i \in 1 .. m - 1 : Gap(list, i)
  BY <1>1 DEF Sorted, Listed, Ascending, Gaps
<1>4. /\ list[c].start < s /\ s <= e /\ e < list[c].end
      /\ list[c].start \in 1 .. MaxNumber /\ list[c].end \in 1 .. MaxNumber
      /\ list[c].start \in Int /\ list[c].end \in Int
  BY <1>1, <1>2, Bounds DEF Interval
<1>5. upper \in Interval /\ upper.start = e + 1 /\ upper.end = list[c].end
  <2>1. e + 1 \in 1 .. MaxNumber
    BY <1>4, RangeSetAssumption
  <2> QED
    BY <2>1, <1>4 DEF Interval
<1>6. lower \in Interval /\ lower.start = list[c].start /\ lower.end = s - 1
  <2>1. s - 1 \in 1 .. MaxNumber
    BY <1>4, RangeSetAssumption
  <2> QED
    BY <2>1, <1>4 DEF Interval
<1>7. /\ longer \in Seq(Interval) /\ Len(longer) = m + 1
      /\ \A j \in 1 .. m + 1 :
           longer[j] = IF j < c + 1 THEN list[j] ELSE IF j = c + 1 THEN upper ELSE list[j - 1]
  <2> HIDE DEF upper, m
  <2>1. c + 1 \in 1 .. Len(list) + 1 /\ list \in Seq(Interval) /\ upper \in Interval
    BY <1>1, <1>5 DEF m
  <2>2. Extended(list, c + 1, upper, InsertAt(list, c + 1, upper))
    BY <2>1, Extends, Zenon
  <2> QED
    BY <2>1, <2>2 DEF m, Extended
<1>8. /\ longer[c] = list[c] /\ longer[c + 1] = upper
      /\ c < m => longer[(c + 1) + 1] = list[c + 1]
  <2> HIDE DEF longer, upper, m
  <2>1. longer[c] = list[c] /\ longer[c + 1] = upper
    <3>1. c \in 1 .. m + 1 /\ c < c + 1 /\ c + 1 \in 1 .. m + 1 /\ ~(c + 1 < c + 1)
      BY <1>1
    <3> QED
      BY <3>1, <1>7
  <2>2. ASSUME c < m
        PROVE  longer[(c + 1) + 1] = list[c + 1]
    <3>1. /\ (c + 1) + 1 \in 1 .. m + 1 /\ ~((c + 1) + 1 < c + 1)
          /\ (c + 1) + 1 # c + 1 /\ ((c + 1) + 1) - 1 = c + 1
      BY <1>1, <2>2
    <3> QED
      BY <3>1, <1>7
  <2> QED
    BY <2>1, <2>2
<1>9. /\ trimmed \in Seq(Interval) /\ Len(trimmed) = m
      /\ \A j \in 1 .. m : trimmed[j] = IF j = c THEN lower ELSE list[j]
  BY <1>1, <1>6
<1> HIDE DEF longer, trimmed, upper, lower
<1>10. RangeSetMergeBackwards(with) = with
  <2>1. with.list = longer /\ with.cursor = c + 1
    OBVIOUS
  <2>2. (c + 1) - 1 = c
    BY <1>1
  <2>3. longer[c].end # upper.start - 1
    BY <1>4, <1>5, <1>8
  <2> HIDE DEF with
  <2> QED
    BY <2>1, <2>2, <2>3, <1>8 DEF RangeSetMergeBackwards
<1>11. RangeSetMergeForwards(with) = with
  <2>1. with.list = longer /\ with.cursor = c + 1
    OBVIOUS
  <2>2. ASSUME c + 1 < m + 1
        PROVE  longer[(c + 1) + 1].start # upper.end + 1
    <3>1. c < m /\ c \in 1 .. m - 1 /\ c + 1 \in 1 .. m
      BY <2>2, <1>1
    <3>2. list[c].end + 1 < list[c + 1].start
      BY <3>1, <1>3, SMTT(40) DEF Gap
    <3> QED
      BY <3>1, <3>2, <1>2, <1>5, <1>8, SMTT(40)
  <2> HIDE DEF with
  <2> QED
    BY <2>1, <2>2, <1>7, <1>8 DEF RangeSetMergeForwards
<1>12. RangeSetAdd(rs, upper, TRUE) = with
  BY <1>10, <1>11 DEF RangeSetAdd, longer
<1>13. cut = [with EXCEPT !.list[c].end = s - 1]
  BY <1>12 DEF Cut, upper
<1>14. [longer[c] EXCEPT !.end = s - 1] = lower
  <2>1. longer[c] = list[c] /\ list[c] \in Interval
    BY <1>1, <1>8, Bounds
  <2> QED
    BY <2>1 DEF lower, Interval
<1>15. cut = [list |-> [longer EXCEPT ![c] = lower], cursor |-> c + 1, spare |-> FALSE]
  BY <1>13, <1>14
<1>16. /\ [longer EXCEPT ![c] = lower] \in Seq(Interval)
       /\ Len([longer EXCEPT ![c] = lower]) = m + 1
       /\ \A j \in 1 .. m + 1 :
            [longer EXCEPT ![c] = lower][j] = IF j = c THEN lower ELSE longer[j]
  BY <1>1, <1>6, <1>7
<1>17. /\ Sorted(trimmed)
       /\ \A n \in Int : Has(trimmed, n)
            <=> Has(list, n) /\ (Within(list[c], n) => Within(lower, n))
  <2>1. lower.start <= lower.end /\ list[c].start <= lower.start /\ lower.end <= list[c].end
    BY <1>4, <1>6
  <2>3. /\ trimmed \in Seq(Interval) /\ Len(trimmed) = Len(list)
        /\ \A j \in 1 .. Len(list) : trimmed[j] = IF j = c THEN lower ELSE list[j]
    BY <1>9
  <2>4. c \in 1 .. Len(list) /\ lower \in Interval
    BY <1>1, <1>6
  <2>5. Trimmed(list, c, lower, trimmed)
    BY <2>1, <2>3, <2>4 DEF Trimmed
  <2> QED
    BY <2>5, Trims
<1>18. Fits(trimmed, c + 1, upper)
  <2>1. upper.start <= upper.end
    BY <1>4, <1>5
  <2>2. ASSUME NEW i \in 1 .. m
        PROVE  IF i < c + 1 THEN trimmed[i].end < upper.start ELSE upper.end < trimmed[i].start
    <3>1. CASE i = c
      BY <3>1, <1>1, <1>4, <1>5, <1>6, <1>9
    <3>2. CASE i < c
      <4>1. trimmed[i] = list[i] /\ list[i].end < list[c].start
        BY <3>2, <1>1, <1>3, <1>9, SMTT(40)
      <4> QED
        BY <4>1, <3>2, <1>1, <1>2, <1>4, <1>5, SMTT(40)
    <3>3. CASE i > c
      <4>1. trimmed[i] = list[i] /\ list[c].end < list[i].start /\ ~(i < c + 1)
        BY <3>3, <1>1, <1>3, <1>9
      <4> QED
        BY <4>1, <1>5
    <3> QED
      BY <3>1, <3>2, <3>3, <1>1
  <2> QED
    BY <2>1, <2>2, <1>1, <1>5, <1>9 DEF Fits
<1>19. /\ Listed(both) /\ Gaps(both, {(c + 1) - 1, c + 1}) /\ Len(both) = Len(trimmed) + 1
       /\ \A j \in 1 .. Len(trimmed) + 1 :
            both[j] = IF j < c + 1 THEN trimmed[j] ELSE IF j = c + 1 THEN upper ELSE trimmed[j - 1]
       /\ \A n \in Int :
            Has(both, n) <=> Has(trimmed, n) \/ (upper.start <= n /\ n <= upper.end)
  <2>1. \A at : Fits(trimmed, at, upper) =>
          LET k == InsertAt(trimmed, at, upper) IN
          /\ Listed(k) /\ Gaps(k, {at - 1, at}) /\ Len(k) = Len(trimmed) + 1
          /\ \A j \in 1 .. Len(trimmed) + 1 :
               k[j] = IF j < at THEN trimmed[j] ELSE IF j = at THEN upper ELSE trimmed[j - 1]
          /\ \A n \in Int :
               Has(k, n) <=> Has(trimmed, n) \/ (upper.start <= n /\ n <= upper.end)
    BY <1>17, Inserts, Zenon
  <2> QED
    BY <1>18, <2>1, Zenon
<1> HIDE DEF both
<1>20. cut.list = both
  <2>1. ASSUME NEW j \in 1 .. m + 1
        PROVE  [longer EXCEPT ![c] = lower][j] = both[j]
    <3>0. j \in Int /\ Len(trimmed) = m
      BY <1>1, <1>9
    <3>1. CASE j = c
      <4>1. both[j] = trimmed[j] /\ trimmed[j] = lower
        BY <3>0, <3>1, <1>1, <1>9, <1>19
      <4> QED
        BY <4>1, <3>1, <1>16
    <3>2. CASE j < c
      <4>0. j < c + 1 /\ j \in 1 .. m /\ j # c
        BY <3>0, <3>2, <1>1
      <4>1. both[j] = trimmed[j] /\ trimmed[j] = list[j] /\ longer[j] = list[j]
        BY <4>0, <3>0, <1>7, <1>9, <1>19
      <4> QED
        BY <4>1, <3>2, <1>1, <1>16
    <3>3. CASE j = c + 1
      BY <3>0, <3>3, <1>1, <1>7, <1>16, <1>19
    <3>4. CASE j > c + 1
      <4>1. ~(j < c + 1) /\ j # c + 1 /\ j # c /\ j - 1 \in 1 .. m /\ j - 1 # c
        BY <3>0, <3>4, <1>1
      <4>2. both[j] = trimmed[j - 1] /\ trimmed[j - 1] = list[j - 1] /\ longer[j] = list[j - 1]
        BY <4>1, <3>0, <1>7, <1>9, <1>19
      <4> QED
        BY <4>1, <4>2, <1>16
    <3> QED
      BY <3>0, <3>1, <3>2, <3>3, <3>4, <1>1
  <2>2. both \in Seq(Interval) /\ Len(both) = m + 1
    BY <1>9, <1>19 DEF Listed
  <2>3. [longer EXCEPT ![c] = lower] = both
    <3> DEFINE w == [longer EXCEPT ![c] = lower]
    <3> HIDE DEF w, m
    <3>1. w \in Seq(Interval) /\ Len(w) = m + 1 /\ \A j \in 1 .. m + 1 : w[j] = both[j]
      BY <2>1, <1>16 DEF w
    <3>2. w \in [1 .. m + 1 -> Interval] /\ both \in [1 .. m + 1 -> Interval]
      BY <3>1, <2>2
    <3>3. w = both
      BY <3>1, <3>2
    <3> QED
      BY <3>3 DEF w
  <2> QED
    BY <2>3, <1>15
<1>21. Gaps(both, {})
  <2>1. ASSUME NEW i \in (1 .. Len(both) - 1) \ {}
        PROVE  Gap(both, i)
    <3>0. i \in 1 .. m /\ i \in Int /\ Len(both) = m + 1 /\ Len(trimmed) = m
      BY <1>1, <1>9, <1>19
    <3>1. CASE i = c
      <4>1. both[c] = lower /\ both[c + 1] = upper
        BY <3>0, <1>1, <1>9, <1>19, SMTT(40)
      <4>2. s - 1 + 1 < e + 1
        BY <1>4
      <4> QED
        BY <4>1, <4>2, <3>1, <1>5, <1>6 DEF Gap
    <3>2. CASE i = c + 1
      <4>1. c \in 1 .. m - 1 /\ c + 1 \in 1 .. m /\ (c + 1) + 1 \in 1 .. m + 1 /\ c < m
        BY <3>0, <3>2, <1>1
      <4>2. both[c + 1] = upper
        BY <4>1, <3>0, <1>1, <1>19, SMTT(40)
      <4>3. both[(c + 1) + 1] = list[c + 1]
        <5>1. /\ ~((c + 1) + 1 < c + 1) /\ (c + 1) + 1 # c + 1 /\ ((c + 1) + 1) - 1 = c + 1
              /\ c + 1 # c
          BY <1>1
        <5>2. both[(c + 1) + 1] = trimmed[c + 1]
          BY <5>1, <4>1, <3>0, <1>19
        <5> QED
          BY <5>1, <5>2, <4>1, <1>9
      <4>4. list[c].end + 1 < list[c + 1].start
        BY <4>1, <1>3 DEF Gap
      <4> QED
        BY <4>2, <4>3, <4>4, <3>2, <1>5 DEF Gap
    <3>3. CASE i # c /\ i # c + 1
      <4>1. i \notin {(c + 1) - 1, c + 1}
        BY <3>0, <3>3, <1>1
      <4> QED
        BY <4>1, <1>19 DEF Gaps
    <3> QED
      BY <3>1, <3>2, <3>3
  <2> QED
    BY <2>1 DEF Gaps
<1>22. ASSUME NEW n \in Int
       PROVE  Has(both, n) <=> Has(list, n) /\ ~(s <= n /\ n <= e)
  <2>1. Has(both, n) <=> \/ Has(list, n) /\ (Within(list[c], n) => Within(lower, n))
                         \/ upper.start <= n /\ n <= upper.end
    BY <1>17, <1>19
  <2>2. Within(list[c], n) => Has(list, n)
    BY <1>1 DEF Has, Within
  <2>3. /\ Within(list[c], n) <=> list[c].start <= n /\ n <= list[c].end
        /\ Within(lower, n) <=> list[c].start <= n /\ n <= s - 1
        /\ (upper.start <= n /\ n <= upper.end) <=> (e + 1 <= n /\ n <= list[c].end)
    BY <1>5, <1>6 DEF Within
  <2>4. CASE Within(list[c], n)
    <3>1. list[c].start <= n /\ n <= list[c].end /\ Has(list, n)
      BY <2>2, <2>3, <2>4
    <3>2. Has(both, n) <=> (n <= s - 1) \/ (e + 1 <= n)
      BY <3>1, <2>1, <2>3, <2>4
    <3>3. (n <= s - 1) \/ (e + 1 <= n) <=> ~(s <= n /\ n <= e)
      OBVIOUS
    <3> QED
      BY <3>1, <3>2, <3>3
  <2>5. CASE ~Within(list[c], n)
    <3>1. ~(s <= n /\ n <= e)
      BY <2>3, <2>5, <1>4, SMTT(40)
    <3>2. ~(upper.start <= n /\ n <= upper.end)
      BY <2>3, <2>5, <1>4
    <3> QED
      BY <3>1, <3>2, <2>1, <2>5
  <2> QED
    BY <2>4, <2>5
<1>23. cut \in Handle /\ cut.cursor \in 1 .. Len(cut.list)
  <2>1. cut.cursor = c + 1 /\ Len(cut.list) = m + 1
    BY <1>15, <1>16
  <2> QED
    BY <2>1, <1>1, <1>15, <1>16 DEF Handle
<1> QED
  BY <1>19, <1>20, <1>21, <1>22, <1>23 DEF Sorted

-----------------------------------------------------------------------------
(* Put.                                                                    *)

\* Items, the mapping to the abstract set, in terms of the list.
LEMMA Contents ==
  ASSUME NEW rs \in Handle
  PROVE  \A n : n \in UNION {r.start .. r.end : r \in Ranges(rs)}
                  <=> n \in Int /\ Has(rs.list, n)
<1>1. rs.list \in Seq(Interval)
  BY DEF Handle
<1>2. ASSUME NEW n, n \in UNION {r.start .. r.end : r \in Ranges(rs)}
      PROVE  n \in Int /\ Has(rs.list, n)
  <2>1. PICK r \in Ranges(rs) : n \in r.start .. r.end
    BY <1>2
  <2>2. PICK i \in DOMAIN rs.list : r = rs.list[i]
    BY <2>1 DEF Ranges
  <2>3. i \in 1 .. Len(rs.list)
    BY <1>1
  <2>4. rs.list[i].start \in Int /\ rs.list[i].end \in Int
    BY <1>1, <2>3, Bounds
  <2> QED
    BY <2>1, <2>2, <2>3, <2>4 DEF Has
<1>3. ASSUME NEW n \in Int, Has(rs.list, n)
      PROVE  n \in UNION {r.start .. r.end : r \in Ranges(rs)}
  <2>1. PICK i \in 1 .. Len(rs.list) : rs.list[i].start <= n /\ n <= rs.list[i].end
    BY <1>3 DEF Has
  <2>2. rs.list[i].start \in Int /\ rs.list[i].end \in Int
    BY <1>1, Bounds
  <2>3. n \in rs.list[i].start .. rs.list[i].end
    BY <2>1, <2>2
  <2>4. rs.list[i] \in Ranges(rs)
    BY <1>1 DEF Ranges
  <2> QED
    BY <2>3, <2>4
<1> QED
  BY <1>2, <1>3

\* Where RangeSetAddBefore stops the new range fits ...
LEMMA Below ==
  ASSUME NEW list, Sorted(list), NEW c \in 1 .. Len(list),
         NEW s \in Int, NEW e \in Int, s <= e,
         \A i \in 1 .. Len(list) : e < list[i].start \/ list[i].end < s,
         s <= list[c].end,
         NEW p \in 0 .. c - 1, p # 0 => e > list[p].end,
         \A k \in 1 .. c - 1 : k > p => ~(e > list[k].end)
  PROVE  /\ p \in 0 .. Len(list)
         /\ \A i \in 1 .. Len(list) : IF i < p + 1 THEN list[i].end < s ELSE e < list[i].start
<1> DEFINE m == Len(list)
<1>1. m \in Nat /\ c \in 1 .. m /\ c \in Int /\ list \in Seq(Interval)
  BY DEF Sorted, Listed
<1>2. \A i \in 1 .. m : list[i].start \in Int /\ list[i].end \in Int
  BY <1>1, Bounds
<1>3. /\ \A i, j \in 1 .. m : i < j => list[i].end < list[j].start
      /\ \A i \in 1 .. m : list[i].start <= list[i].end
      /\ \A i \in 1 .. m : e < list[i].start \/ list[i].end < s
  BY <1>1 DEF Sorted, Listed, Ascending, Forward
<1>4. /\ p \in 0 .. c - 1 /\ p \in Int
      /\ p # 0 => p \in 1 .. m /\ e > list[p].end
      /\ \A k \in 1 .. c - 1 : k > p => ~(e > list[k].end)
  <2>1. p \in 0 .. c - 1 /\ p \in Int
    BY <1>1
  <2>2. p # 0 => p \in 1 .. m
    BY <1>1
  <2> QED
    BY <2>1, <2>2
<1> HIDE DEF m
<1>5. e < list[c].start
  <2>1. ~(list[c].end < s)
    BY <1>1, <1>2
  <2> QED
    BY <2>1, <1>1, <1>3
<1>6. ASSUME NEW i \in 1 .. m, i < p + 1
      PROVE  list[i].end < s
  <2>1. p \in 1 .. m /\ e > list[p].end /\ i \in Int
    BY <1>1, <1>4, <1>6
  <2>2. list[p].start <= list[p].end /\ list[p].start \in Int /\ list[p].end \in Int
    BY <2>1, <1>2, <1>3
  <2>3. list[p].end < s
    <3>1. ~(e < list[p].start)
      BY <2>1, <2>2
    <3> QED
      BY <3>1, <2>1, <1>3
  <2>4. CASE i < p
    <3>1. list[i].end < list[p].start /\ list[i].end \in Int
      BY <2>1, <2>4, <1>2, <1>3
    <3> QED
      BY <3>1, <2>2, <2>3
  <2> QED
    BY <2>1, <2>3, <2>4, <1>4, <1>6
<1>7. ASSUME NEW i \in 1 .. m, ~(i < p + 1)
      PROVE  e < list[i].start
  <2>1. i \in Int /\ i > p /\ list[i].start \in Int /\ list[i].end \in Int
    BY <1>2, <1>4, <1>7
  <2>2. CASE i < c
    <3>1. ~(e > list[i].end)
      BY <2>1, <2>2, <1>1, <1>4
    <3>2. ~(list[i].end < s)
      BY <3>1, <2>1
    <3> QED
      BY <3>2, <1>3
  <2>3. CASE i > c
    <3>1. /\ list[c].end < list[i].start /\ list[c].start <= list[c].end
          /\ list[c].start \in Int /\ list[c].end \in Int
      BY <2>3, <1>1, <1>2, <1>3
    <3> QED
      BY <3>1, <2>1, <1>5
  <2> QED
    BY <2>1, <2>2, <2>3, <1>1, <1>5
<1> QED
  BY <1>1, <1>4, <1>6, <1>7 DEF m

\* ... and where RangeSetAddAfter stops.
LEMMA Above ==
  ASSUME NEW list, Sorted(list), NEW c \in 1 .. Len(list),
         NEW s \in Int, NEW e \in Int, s <= e,
         \A i \in 1 .. Len(list) : e < list[i].start \/ list[i].end < s,
         ~(s <= list[c].end),
         NEW at \in c + 1 .. Len(list) + 1, at <= Len(list) => s < list[at].start,
         \A k \in c + 1 .. Len(list) : k < at => ~(s < list[k].start)
  PROVE  /\ at \in 1 .. Len(list) + 1
         /\ \A i \in 1 .. Len(list) : IF i < at THEN list[i].end < s ELSE e < list[i].start
<1> DEFINE m == Len(list)
<1>1. m \in Nat /\ c \in 1 .. m /\ c \in Int /\ list \in Seq(Interval)
  BY DEF Sorted, Listed
<1>2. \A i \in 1 .. m : list[i].start \in Int /\ list[i].end \in Int
  BY <1>1, Bounds
<1>3. /\ \A i, j \in 1 .. m : i < j => list[i].end < list[j].start
      /\ \A i \in 1 .. m : list[i].start <= list[i].end
      /\ \A i \in 1 .. m : e < list[i].start \/ list[i].end < s
  BY <1>1 DEF Sorted, Listed, Ascending, Forward
<1>4. /\ at \in 1 .. m + 1 /\ at \in Int
      /\ at <= m => at \in c + 1 .. m /\ s < list[at].start
      /\ \A k \in c + 1 .. m : k < at => ~(s < list[k].start)
  <2>1. at \in 1 .. m + 1 /\ at \in Int
    BY <1>1
  <2>2. at <= m => at \in c + 1 .. m
    BY <1>1
  <2> QED
    BY <2>1, <2>2
<1> HIDE DEF m
<1>5. list[c].end < s
  BY <1>1, <1>2
<1>6. ASSUME NEW i \in 1 .. m, i < at
      PROVE  list[i].end < s
  <2>1. i \in Int /\ list[i].start \in Int /\ list[i].end \in Int
    BY <1>2
  <2>2. CASE i > c
    <3>1. ~(s < list[i].start)
      BY <2>1, <2>2, <1>1, <1>4, <1>6
    <3>2. ~(e < list[i].start)
      BY <3>1, <2>1
    <3> QED
      BY <3>2, <1>3
  <2>3. CASE i < c
    <3>1. /\ list[i].end < list[c].start /\ list[c].start <= list[c].end
          /\ list[c].start \in Int /\ list[c].end \in Int
      BY <2>3, <1>1, <1>2, <1>3
    <3> QED
      BY <3>1, <2>1, <1>5, SMTT(40)
  <2> QED
    BY <2>1, <2>2, <2>3, <1>1, <1>5
<1>7. ASSUME NEW i \in 1 .. m, ~(i < at)
      PROVE  e < list[i].start
  <2>1. i \in Int /\ at <= i /\ at \in 1 .. m /\ s < list[at].start
    BY <1>1, <1>4, <1>7
  <2>2. /\ list[at].start <= list[at].end /\ list[at].start \in Int /\ list[at].end \in Int
        /\ list[i].start \in Int
    BY <2>1, <1>2, <1>3
  <2>3. e < list[at].start
    <3>1. ~(list[at].end < s)
      BY <2>1, <2>2
    <3> QED
      BY <3>1, <2>1, <1>3
  <2>4. CASE i > at
    <3>1. list[at].end < list[i].start
      BY <2>1, <2>4, <1>3
    <3> QED
      BY <3>1, <2>2, <2>3
  <2> QED
    BY <2>1, <2>3, <2>4, <1>4
<1> QED
  BY <1>1, <1>4, <1>6, <1>7 DEF m

\* RangeSetPut adds the range where it fits, whichever way it searched from
\* the cursor.
LEMMA PutFits ==
  ASSUME RangeSetInv, Usable, NEW s \in 1 .. MaxNumber, NEW e \in 1 .. MaxNumber, s <= e,
         (s .. e) \cap Items = {},
         NEW empty, empty = (rangeSet.list = <<>>),
         NEW after, after = (empty \/ s <= rangeSet.list[rangeSet.cursor].end),
         NEW sought, sought = IF empty THEN rangeSet
                              ELSE IF after THEN RangeSetAddBefore(e) ELSE RangeSetAddAfter(s)
  PROVE  /\ sought \in Handle /\ sought.list = rangeSet.list
         /\ sought.cursor <= Len(sought.list)
         /\ Fits(sought.list, Place(sought, after), [start |-> s, end |-> e])
<1> DEFINE list == rangeSet.list
           c == rangeSet.cursor
           m == Len(list)
           range == [start |-> s, end |-> e]
<1>1. /\ rangeSet \in Handle /\ list \in Seq(Interval) /\ m \in Nat /\ c \in Nat /\ c <= m
      /\ s \in Int /\ e \in Int
      /\ Sorted(list) /\ range \in Interval /\ range.start = s /\ range.end = e
  BY RangeSetAssumption DEF RangeSetInv, Handle, Interval
<1>2. \A i \in 1 .. m : list[i].start \in Int /\ list[i].end \in Int
  BY <1>1, Bounds
<1>3. /\ \A i, j \in 1 .. m : i < j => list[i].end < list[j].start
      /\ \A i \in 1 .. m : list[i].start <= list[i].end
  BY <1>1 DEF Sorted, Listed, Ascending, Forward
<1>4. \A i \in 1 .. m : e < list[i].start \/ list[i].end < s
  <2>1. ASSUME NEW i \in 1 .. m, ~(e < list[i].start), ~(list[i].end < s)
        PROVE  FALSE
    <3>0. list[i].start \in Int /\ list[i].end \in Int /\ list[i].start <= list[i].end
      BY <1>2, <1>3
    <3>1. \A n \in Int : Has(list, n) => n \in Items
      BY <1>1, Contents DEF Items
    <3>2. CASE list[i].start <= s
      <4>1. s \in s .. e /\ Has(list, s)
        BY <3>0, <3>2, <2>1, <1>1 DEF Has
      <4> QED
        BY <4>1, <3>1, <1>1
    <3>3. CASE s < list[i].start
      <4>1. list[i].start \in s .. e /\ Has(list, list[i].start)
        BY <3>0, <3>3, <2>1, <1>1 DEF Has
      <4> QED
        BY <4>1, <3>1, <3>0
    <3> QED
      BY <3>0, <3>2, <3>3, <1>1
  <2> QED
    BY <2>1
<1>8. ~empty => c \in 1 .. m
  <2>1. ~empty => c # 0
    BY DEF Usable
  <2> QED
    BY <2>1, <1>1
<1>5. CASE empty
  <2>1. sought = rangeSet /\ after /\ list = <<>>
    BY <1>5
  <2>2. m = 0 /\ c = 0
    BY <2>1, <1>1
  <2>3. Place(sought, after) = 1
    BY <2>1, <2>2 DEF Place
  <2>4. Fits(list, 1, range)
    BY <2>2, <1>1 DEF Fits
  <2> QED
    BY <2>1, <2>3, <2>4, <1>1
<1>6. CASE ~empty /\ after
  <2> DEFINE p == LastOf({j \in 1 .. c - 1 : e > list[j].end})
  <2>1. sought = [rangeSet EXCEPT !.cursor = p]
    BY <1>6 DEF RangeSetAddBefore
  <2>2. c \in 1 .. m /\ s <= list[c].end
    BY <1>6, <1>8, <1>1
  <2>3. /\ p \in 0 .. c - 1 /\ (p # 0 => e > list[p].end)
        /\ \A k \in 1 .. c - 1 : k > p => ~(e > list[k].end)
    <3> DEFINE found == {j \in 1 .. c - 1 : e > list[j].end}
    <3>1. c - 1 \in Nat /\ found \in SUBSET (1 .. c - 1)
      BY <2>2
    <3>2. \A k \in 1 .. c - 1 : k \in found <=> e > list[k].end
      OBVIOUS
    <3>3. p = LastOf(found)
      OBVIOUS
    <3> HIDE DEF found, p, list, c, m
    <3>4. /\ found = {} => p = 0
          /\ found # {} => p \in found /\ \A k \in found : p >= k
      BY <3>1, <3>3, LastFound
    <3>5. CASE found = {}
      BY <3>1, <3>2, <3>4, <3>5
    <3>6. CASE found # {}
      <4>1. p \in found
        BY <3>4, <3>6
      <4>2. p \in 1 .. c - 1
        BY <3>1, <4>1
      <4>3. e > list[p].end
        BY <3>2, <4>1, <4>2
      <4>4. ASSUME NEW k \in 1 .. c - 1, k > p
            PROVE  ~(e > list[k].end)
        <5>1. k \notin found
          BY <3>4, <3>6, <4>2, <4>4
        <5> QED
          BY <5>1, <3>2
      <4> QED
        BY <4>2, <4>3, <4>4
    <3> QED
      BY <3>5, <3>6
  <2> HIDE DEF p
  <2>7. \A i \in 1 .. m : IF i < p + 1 THEN list[i].end < s ELSE e < list[i].start
    <3> HIDE DEF list, c
    <3> QED
      BY <2>2, <2>3, <1>1, <1>4, Below
  <2> HIDE DEF p
  <2>4. sought \in Handle /\ sought.list = list /\ sought.cursor = p /\ p <= m
    BY <2>1, <2>2, <2>3, <1>1 DEF Handle
  <2>5. Place(sought, after) = p + 1
    BY <2>4, <1>6 DEF Place
  <2>6. Fits(list, p + 1, range)
    <3>1. p + 1 \in 1 .. m + 1
      BY <2>2, <2>3, <1>1
    <3> HIDE DEF range
    <3> QED
      BY <3>1, <2>7, <1>1 DEF Fits
  <2> QED
    BY <2>4, <2>5, <2>6
<1>7. CASE ~empty /\ ~after
  <2> DEFINE p == FirstOf({j \in c + 1 .. m : s < list[j].start})
             at == IF p = 0 THEN m + 1 ELSE p
  <2>1. sought = [rangeSet EXCEPT !.cursor = p]
    BY <1>7 DEF RangeSetAddAfter
  <2>2. c \in 1 .. m /\ ~(s <= list[c].end)
    BY <1>7, <1>8, <1>1
  <2>3. /\ p \in 0 .. m /\ at \in c + 1 .. m + 1 /\ (at <= m => s < list[at].start)
        /\ \A k \in c + 1 .. m : k < at => ~(s < list[k].start)
    <3> DEFINE found == {j \in c + 1 .. m : s < list[j].start}
    <3>1. c \in Nat /\ found \in SUBSET (c + 1 .. m)
      BY <1>1
    <3>2. \A k \in c + 1 .. m : k \in found <=> s < list[k].start
      OBVIOUS
    <3>3. p = FirstOf(found)
      OBVIOUS
    <3> HIDE DEF found, p, list, c, m
    <3>4. /\ found = {} => p = 0
          /\ found # {} => p \in found /\ \A k \in found : p <= k
      BY <1>1, <3>1, <3>3, FirstFound
    <3>5. CASE found = {}
      BY <3>2, <3>4, <3>5, <2>2, <1>1
    <3>6. CASE found # {}
      <4>0. p \in found
        BY <3>4, <3>6
      <4>3. p \in c + 1 .. m
        BY <3>1, <4>0
      <4>1. p \in c + 1 .. m /\ s < list[p].start /\ p \in Int /\ p # 0 /\ at = p
        BY <3>1, <3>2, <4>0, <4>3
      <4>2. \A k \in c + 1 .. m : k < p => k \notin found
        BY <4>1, <3>4, <3>6
      <4> QED
        BY <4>1, <4>2, <3>2, <2>2, <1>1
    <3> QED
      BY <3>5, <3>6
  <2> HIDE DEF p
  <2>7. /\ at \in 1 .. m + 1
        /\ \A i \in 1 .. m : IF i < at THEN list[i].end < s ELSE e < list[i].start
    <3> HIDE DEF list, c, at
    <3> QED
      BY <2>2, <2>3, <1>1, <1>4, Above, ZenonT(60)
  <2>4. sought \in Handle /\ sought.list = list /\ sought.cursor = p /\ p <= m
    BY <2>1, <2>3, <1>1, SMTT(40) DEF Handle
  <2>5. Place(sought, after) = at
    BY <2>4, <1>7 DEF Place
  <2>6. Fits(list, at, range)
    <3> HIDE DEF range, at
    <3> QED
      BY <2>7, <1>1 DEF Fits
  <2> QED
    BY <2>4, <2>5, <2>6
<1> QED
  BY <1>5, <1>6, <1>7

\* The new list has the numbers of the old one outside s .. e.
Kept(list, new, s, e) ==
  \A n \in Int : Has(new, n) <=> Has(list, n) /\ ~(s <= n /\ n <= e)

\* Items and the numbers of the list, now and after the step.
LEMMA ItemsNow ==
  /\ rangeSet \in Handle => \A n : n \in Items <=> n \in Int /\ Has(rangeSet.list, n)
  /\ rangeSet' \in Handle => \A n : n \in Items' <=> n \in Int /\ Has((rangeSet').list, n)
<1>1. rangeSet \in Handle => \A n : n \in Items <=> n \in Int /\ Has(rangeSet.list, n)
  BY Contents DEF Items
<1>2. ASSUME rangeSet' \in Handle
      PROVE  \A n : n \in Items' <=> n \in Int /\ Has((rangeSet').list, n)
  <2>1. Items' = UNION {r.start .. r.end : r \in Ranges(rangeSet')}
    BY DEF Items, Ranges
  <2> DEFINE rs == rangeSet'
  <2> HIDE DEF rs
  <2>2. rs \in Handle
    BY <1>2 DEF rs
  <2>3. \A n : n \in UNION {r.start .. r.end : r \in Ranges(rs)} <=> n \in Int /\ Has(rs.list, n)
    BY <2>2, Contents
  <2> QED
    BY <2>1, <2>3 DEF rs
<1> QED
  BY <1>1, <1>2

\* The invariant from its parts.
LEMMA Settled ==
  ASSUME rangeSet' \in Handle, Sorted((rangeSet').list),
         (rangeSet').cursor <= Len((rangeSet').list)
  PROVE  RangeSetInv'
  BY DEF RangeSetInv

\* RangeSetPut puts the numbers into the set or fails without an effect.
LEMMA PutStep ==
  ASSUME RangeSetInv, NEW s \in 1 .. MaxNumber, NEW e \in 1 .. MaxNumber, s <= e,
         RangeSetPut(s, e)
  PROVE  /\ RangeSetInv' /\ popped' = popped /\ (s .. e) \cap Items = {}
         /\ Items' = Items \/ Items' = Items \cup (s .. e)
<1> DEFINE empty == rangeSet.list = <<>>
           after == empty \/ s <= rangeSet.list[rangeSet.cursor].end
           sought == IF empty THEN rangeSet
                     ELSE IF after THEN RangeSetAddBefore(e) ELSE RangeSetAddAfter(s)
           range == [start |-> s, end |-> e]
           grown == RangeSetAdd(sought, range, after)
<1>1. /\ Usable /\ (s .. e) \cap Items = {} /\ popped' = popped
      /\ rangeSet' = grown \/ rangeSet' = sought
  BY DEF RangeSetPut, NoMemory
<1>2. /\ sought \in Handle /\ sought.list = rangeSet.list
      /\ sought.cursor <= Len(sought.list)
      /\ Fits(sought.list, Place(sought, after), range)
  BY <1>1, PutFits
<1>3. rangeSet \in Handle /\ Sorted(rangeSet.list)
  BY DEF RangeSetInv
<1>4. \A n : n \in Items <=> n \in Int /\ Has(rangeSet.list, n)
  BY <1>3, ItemsNow
<1>5. after \in BOOLEAN /\ s \in Int /\ e \in Int /\ range.start = s /\ range.end = e
  OBVIOUS
<1> HIDE DEF sought, after, range
<1>6. /\ grown \in Handle /\ grown.cursor \in 1 .. Len(grown.list) /\ Sorted(grown.list)
      /\ \A n \in Int :
           Has(grown.list, n) <=> Has(sought.list, n) \/ (range.start <= n /\ n <= range.end)
  BY <1>2, <1>3, <1>5, Adds
<1> HIDE DEF grown
<1>7. CASE rangeSet' = grown
  <2>1. RangeSetInv'
    <3>1. grown.cursor <= Len(grown.list)
      BY <1>6
    <3> QED
      BY <3>1, <1>6, <1>7, Settled
  <2>2. \A n : n \in Items' <=> n \in Int /\ Has(grown.list, n)
    BY <1>6, <1>7, ItemsNow
  <2>3. Items' = Items \cup (s .. e)
    BY <2>2, <1>2, <1>4, <1>5, <1>6
  <2> QED
    BY <2>1, <2>3, <1>1
<1>8. CASE rangeSet' = sought
  <2>1. RangeSetInv'
    BY <1>2, <1>3, <1>8, Settled
  <2>2. \A n : n \in Items' <=> n \in Int /\ Has(sought.list, n)
    BY <1>2, <1>8, ItemsNow
  <2>3. Items' = Items
    BY <2>2, <1>2, <1>4
  <2> QED
    BY <2>1, <2>3, <1>1
<1> QED
  BY <1>1, <1>7, <1>8

-----------------------------------------------------------------------------
(* Get and Pop.                                                            *)

\* RangeSetGet's search from the cursor finds the range that holds what is
\* taken.
LEMMA Found ==
  ASSUME NEW list, Sorted(list), NEW c \in 1 .. Len(list),
         NEW s \in Int, NEW e \in Int, s <= e, \A n \in s .. e : Has(list, n),
         NEW at, at = IF s < list[c].start
                      THEN LastOf({j \in 1 .. c - 1 : s >= list[j].start})
                      ELSE IF s > list[c].end
                      THEN FirstOf({j \in c + 1 .. Len(list) : s <= list[j].end})
                      ELSE c
  PROVE  at \in 1 .. Len(list) /\ list[at].start <= s /\ e <= list[at].end
<1> DEFINE m == Len(list)
           lower == {j \in 1 .. c - 1 : s >= list[j].start}
           upper == {j \in c + 1 .. m : s <= list[j].end}
<1>1. m \in Nat /\ c \in 1 .. m /\ c \in Int /\ list \in Seq(Interval)
  BY DEF Sorted, Listed
<1>2. \A i \in 1 .. m : list[i].start \in Int /\ list[i].end \in Int
  BY <1>1, Bounds
<1>3. /\ \A i, j \in 1 .. m : i < j => list[i].end < list[j].start
      /\ \A i \in 1 .. m : list[i].start <= list[i].end
  BY <1>1 DEF Sorted, Listed, Ascending, Forward
<1>4. PICK i \in 1 .. m : list[i].start <= s /\ e <= list[i].end
  BY SingleRange
<1>5. s <= list[i].end /\ i \in Int
  BY <1>2, <1>4
<1>6. /\ lower \in SUBSET (1 .. c - 1) /\ c - 1 \in Nat
      /\ upper \in SUBSET (c + 1 .. m) /\ c \in Nat
      /\ \A j \in 1 .. c - 1 : j \in lower <=> s >= list[j].start
      /\ \A j \in c + 1 .. m : j \in upper <=> s <= list[j].end
  BY <1>1
<1>7. at = IF s < list[c].start THEN LastOf(lower)
           ELSE IF s > list[c].end THEN FirstOf(upper) ELSE c
  OBVIOUS
<1> HIDE DEF lower, upper, m
<1>8. CASE s < list[c].start
  <2>1. i < c
    <3>1. i # c
      BY <1>1, <1>2, <1>4, <1>8
    <3>2. ~(c < i)
      <4>1. ASSUME c < i
            PROVE  FALSE
        <5>1. list[c].end < list[i].start /\ list[c].start <= list[c].end
          BY <4>1, <1>1, <1>3
        <5> QED
          BY <5>1, <1>1, <1>2, <1>4, <1>8
      <4> QED
        BY <4>1
    <3> QED
      BY <3>1, <3>2, <1>1, <1>5
  <2>2. i \in lower
    BY <2>1, <1>1, <1>2, <1>4, <1>6
  <2>3. at \in lower /\ at >= i
    BY <2>2, <1>6, <1>7, <1>8, LastFound
  <2>4. at \in 1 .. c - 1 /\ at \in 1 .. m /\ at \in Int /\ s >= list[at].start
    BY <2>3, <1>1, <1>6
  <2>5. ~(i < at)
    <3>1. ASSUME i < at
          PROVE  FALSE
      <4>1. list[i].end < list[at].start
        BY <3>1, <2>4, <1>3
      <4> QED
        BY <4>1, <2>4, <1>2, <1>4, <1>5
    <3> QED
      BY <3>1
  <2>6. at = i
    BY <2>3, <2>4, <2>5, <1>5
  <2> QED
    BY <2>6, <1>4 DEF m
<1>9. CASE s > list[c].end
  <2>1. i > c
    <3>1. i # c
      BY <1>1, <1>2, <1>5, <1>9
    <3>2. ~(i < c)
      <4>1. ASSUME i < c
            PROVE  FALSE
        <5>1. list[i].end < list[c].start /\ list[c].start <= list[c].end
          BY <4>1, <1>1, <1>3
        <5> QED
          BY <5>1, <1>1, <1>2, <1>5, <1>9
      <4> QED
        BY <4>1
    <3> QED
      BY <3>1, <3>2, <1>1, <1>5
  <2>2. i \in upper
    BY <2>1, <1>1, <1>5, <1>6
  <2>3. at \in upper /\ at <= i
    <3>1. at = FirstOf(upper)
      <4>1. ~(s < list[c].start)
        BY <1>1, <1>2, <1>3, <1>9
      <4> QED
        BY <4>1, <1>7, <1>9
    <3> QED
      BY <3>1, <2>2, <1>1, <1>6, FirstFound
  <2>4. at \in 1 .. m /\ at \in Int /\ s <= list[at].end
    BY <2>3, <1>1, <1>6
  <2>5. ~(at < i)
    <3>1. ASSUME at < i
          PROVE  FALSE
      <4>1. list[at].end < list[i].start
        BY <3>1, <2>4, <1>3
      <4> QED
        BY <4>1, <2>4, <1>2, <1>4
    <3> QED
      BY <3>1
  <2>6. at = i
    BY <2>3, <2>4, <2>5, <1>5
  <2> QED
    BY <2>6, <1>4 DEF m
<1>10. CASE ~(s < list[c].start) /\ ~(s > list[c].end)
  <2>1. at = c
    BY <1>7, <1>10
  <2>2. i = c
    <3>1. ~(i < c)
      <4>1. ASSUME i < c
            PROVE  FALSE
        <5>1. list[i].end < list[c].start
          BY <4>1, <1>1, <1>3
        <5> QED
          BY <5>1, <1>1, <1>2, <1>5, <1>10
      <4> QED
        BY <4>1
    <3>2. ~(c < i)
      <4>1. ASSUME c < i
            PROVE  FALSE
        <5>1. list[c].end < list[i].start
          BY <4>1, <1>1, <1>3
        <5> QED
          BY <5>1, <1>1, <1>2, <1>4, <1>10
      <4> QED
        BY <4>1
    <3> QED
      BY <3>1, <3>2, <1>1, <1>5
  <2> QED
    BY <2>1, <2>2, <1>4 DEF m
<1> QED
  BY <1>8, <1>9, <1>10

\* A sequence is a sequence of what its elements are.
LEMMA Elementwise ==
  ASSUME NEW S, NEW T, NEW seq \in Seq(T), \A i \in 1 .. Len(seq) : seq[i] \in S
  PROVE  seq \in Seq(S)
<1>1. seq \in [1 .. Len(seq) -> T] /\ Len(seq) \in Nat
  OBVIOUS
<1>2. seq \in [1 .. Len(seq) -> S]
  BY <1>1
<1> QED
  BY <1>1, <1>2

\* RangeSetRemove leaves the cursor in the list.
LEMMA CursorStays ==
  ASSUME NEW n \in Nat, NEW c \in 1 .. n + 1, NEW l, NEW left,
         left = [list |-> l, spare |-> TRUE,
                 cursor |-> IF c <= n THEN c ELSE IF n = 0 THEN 0 ELSE 1]
  PROVE  left.list = l /\ left.cursor \in Nat /\ left.cursor <= n /\ left.spare = TRUE
  OBVIOUS

\* A range that goes altogether.
LEMMA TakesWhole ==
  ASSUME NEW rs, rs.list \in Seq([start : Int, end : Int]), NEW list, Sorted(list),
         NEW c, c = rs.cursor, c \in 1 .. Len(list), Len(rs.list) = Len(list),
         \A j \in 1 .. Len(list) : j # c => rs.list[j] = list[j],
         NEW left, left = RangeSetRemove(rs, TRUE)
  PROVE  /\ left \in Handle /\ left.cursor <= Len(left.list) /\ Sorted(left.list)
         /\ Kept(list, left.list, list[c].start, list[c].end)
<1> DEFINE m == Len(list)
           shorter == RemoveAt(rs.list, c)
           n == Len(rs.list) - 1
<1>1. m \in Nat /\ c \in 1 .. m /\ list \in Seq(Interval) /\ n = m - 1
  BY DEF Sorted, Listed
<1>2. /\ Len(shorter) = m - 1
      /\ \A j \in 1 .. m - 1 : shorter[j] = IF j < c THEN rs.list[j] ELSE rs.list[j + 1]
      /\ shorter \in Seq([start : Int, end : Int])
  <2>1. c \in 1 .. Len(rs.list)
    BY <1>1
  <2> QED
    BY <2>1, Removed, ZenonT(60)
<1> HIDE DEF shorter
<1>3. \A j \in 1 .. m - 1 : shorter[j] = IF j < c THEN list[j] ELSE list[j + 1]
  <2>1. ASSUME NEW j \in 1 .. m - 1
        PROVE  shorter[j] = IF j < c THEN list[j] ELSE list[j + 1]
    <3>1. CASE j < c
      <4>1. j \in 1 .. m /\ j # c
        BY <3>1, <1>1
      <4> QED
        BY <4>1, <3>1, <1>2
    <3>2. CASE ~(j < c)
      <4>1. j + 1 \in 1 .. m /\ j + 1 # c
        BY <3>2, <1>1
      <4> QED
        BY <4>1, <3>2, <1>2
    <3> QED
      BY <3>1, <3>2
  <2> QED
    BY <2>1
<1>4. shorter \in Seq(Interval)
  <2>1. \A j \in 1 .. m - 1 : shorter[j] \in Interval
    <3>1. ASSUME NEW j \in 1 .. m - 1
          PROVE  shorter[j] \in Interval
      <4>1. list[j] \in Interval /\ list[j + 1] \in Interval
        BY <1>1
      <4> QED
        BY <4>1, <1>3
    <3> QED
      BY <3>1
  <2> HIDE DEF m
  <2>2. \A j \in 1 .. Len(shorter) : shorter[j] \in Interval
    BY <2>1, <1>2
  <2> QED
    BY <2>2, <1>2, Elementwise
<1>5. Shortened(list, c, shorter)
  BY <1>1, <1>2, <1>3, <1>4 DEF Shortened
<1>6. /\ Sorted(shorter)
      /\ \A k \in Int : Has(shorter, k) <=> Has(list, k) /\ ~Within(list[c], k)
  BY <1>5, Removes
<1>7. left = [list |-> shorter, spare |-> TRUE,
              cursor |-> IF c <= n THEN c ELSE IF n = 0 THEN 0 ELSE 1]
  BY DEF RangeSetRemove, shorter
<1> HIDE DEF n, m
<1>8. left.list = shorter /\ left.cursor \in Nat /\ left.cursor <= n /\ left.spare = TRUE
  <2>1. n \in Nat /\ c \in 1 .. n + 1
    BY <1>1
  <2> QED
    BY <2>1, <1>7, CursorStays
<1>9. left \in Handle /\ left.cursor <= Len(left.list)
  <2>1. Len(left.list) = n
    BY <1>1, <1>2, <1>8
  <2>2. left = [list |-> left.list, cursor |-> left.cursor, spare |-> left.spare]
    BY <1>7, Zenon
  <2> QED
    BY <2>1, <2>2, <1>4, <1>8 DEF Handle
<1> QED
  BY <1>6, <1>8, <1>9 DEF Kept, Within

\* A range that loses its first or its last numbers.
LEMMA TakesPart ==
  ASSUME NEW list, Sorted(list), NEW c \in 1 .. Len(list), NEW r, NEW s \in Int, NEW e \in Int,
         NEW first \in Int, NEW last \in Int, r = [start |-> first, end |-> last],
         list[c].start <= first, first <= last, last <= list[c].end,
         \A n \in Int : n \in list[c].start .. list[c].end =>
            (n \in first .. last <=> ~(s <= n /\ n <= e)),
         list[c].start <= s, e <= list[c].end
  PROVE  /\ [list EXCEPT ![c] = r] \in Seq(Interval)
         /\ Len([list EXCEPT ![c] = r]) = Len(list)
         /\ Sorted([list EXCEPT ![c] = r])
         /\ Kept(list, [list EXCEPT ![c] = r], s, e)
<1> DEFINE m == Len(list)
           trimmed == [list EXCEPT ![c] = r]
<1>1. /\ list \in Seq(Interval) /\ list[c] \in Interval
      /\ list[c].start \in Int /\ list[c].end \in Int
  <2>1. list \in Seq(Interval)
    BY DEF Sorted, Listed
  <2> QED
    BY <2>1, Bounds
<1>2. r \in Interval /\ r.start = first /\ r.end = last
  <2>1. first \in 1 .. MaxNumber /\ last \in 1 .. MaxNumber
    BY <1>1, RangeSetAssumption DEF Interval
  <2> QED
    BY <2>1 DEF Interval
<1>3. /\ trimmed \in Seq(Interval) /\ Len(trimmed) = m
      /\ \A j \in 1 .. m : trimmed[j] = IF j = c THEN r ELSE list[j]
  BY <1>1, <1>2
<1> HIDE DEF trimmed
<1>4. Trimmed(list, c, r, trimmed)
  BY <1>2, <1>3 DEF Trimmed
<1>5. /\ Sorted(trimmed)
      /\ \A n \in Int : Has(trimmed, n) <=> Has(list, n) /\ (Within(list[c], n) => Within(r, n))
  BY <1>4, Trims
<1>6. ASSUME NEW n \in Int
      PROVE  (Within(list[c], n) => Within(r, n)) <=> ~(s <= n /\ n <= e)
  <2>1. CASE Within(list[c], n)
    <3>1. n \in list[c].start .. list[c].end
      BY <2>1, <1>1 DEF Within
    <3>2. n \in first .. last <=> Within(r, n)
      BY <1>2 DEF Within
    <3> QED
      BY <2>1, <3>1, <3>2
  <2>2. CASE ~Within(list[c], n)
    BY <2>2, <1>1 DEF Within
  <2> QED
    BY <2>1, <2>2
<1>7. Kept(list, trimmed, s, e)
  BY <1>5, <1>6 DEF Kept
<1> QED
  BY <1>3, <1>5, <1>7 DEF trimmed

\* RangeSetGet takes the numbers out of the set or fails without an effect.
LEMMA GetStep ==
  ASSUME RangeSetInv, NEW s \in 1 .. MaxNumber, NEW e \in 1 .. MaxNumber, s <= e,
         RangeSetGet(s, e)
  PROVE  /\ RangeSetInv' /\ popped' = popped /\ (s .. e) \subseteq Items
         /\ Items' = Items \/ Items' = Items \ (s .. e)
<1> DEFINE list == rangeSet.list
           c == rangeSet.cursor
           at == IF s < list[c].start
                 THEN LastOf({j \in 1 .. c - 1 : s >= list[j].start})
                 ELSE IF s > list[c].end
                 THEN FirstOf({j \in c + 1 .. Len(list) : s <= list[j].end})
                 ELSE c
           rs == [rangeSet EXCEPT !.cursor = at]
           r == list[at]
<1>1. /\ Usable /\ (s .. e) \subseteq Items /\ popped' = popped
      /\ \/ s = r.start /\ e = r.end /\ rangeSet' = RangeSetRemove(rs, TRUE)
         \/ s = r.start /\ e # r.end /\ rangeSet' = [rs EXCEPT !.list[at].start = e + 1]
         \/ s # r.start /\ e = r.end /\ rangeSet' = [rs EXCEPT !.list[at].end = s - 1]
         \/ s # r.start /\ e # r.end /\ rangeSet' = Cut(rs, s, e)
         \/ rangeSet' = rs
  BY DEF RangeSetGet, NoMemory
<1>2. rangeSet \in Handle /\ Sorted(list) /\ c <= Len(list) /\ s \in Int /\ e \in Int
  BY RangeSetAssumption DEF RangeSetInv
<1>3. \A n : n \in Items <=> n \in Int /\ Has(list, n)
  BY <1>2, ItemsNow, SMTT(40)
<1>4. \A n \in s .. e : Has(list, n)
  BY <1>1, <1>3
<1>5. c \in 1 .. Len(list) /\ list \in Seq(Interval) /\ Len(list) \in Nat
  <2>1. Has(list, s)
    BY <1>2, <1>4
  <2>2. list # <<>>
    BY <2>1 DEF Has
  <2>3. list \in Seq(Interval) /\ c \in Nat
    BY <1>2, SMTT(40) DEF Handle
  <2>4. c # 0
    BY <2>2, <1>1 DEF Usable
  <2> HIDE DEF list, c
  <2> QED
    BY <2>3, <2>4, <1>2
<1> HIDE DEF list, c
<1>6. at \in 1 .. Len(list) /\ r.start <= s /\ e <= r.end
  BY <1>2, <1>4, <1>5, Found
<1> HIDE DEF at
<1>7. r \in Interval /\ r.start \in Int /\ r.end \in Int
  BY <1>5, <1>6, Bounds
<1>8. rs \in Handle /\ rs.list = list /\ rs.cursor = at
  BY <1>2, <1>5, <1>6 DEF Handle, list
<1>9. ASSUME rangeSet' \in Handle, (rangeSet').cursor <= Len((rangeSet').list),
             Sorted((rangeSet').list), Kept(list, (rangeSet').list, s, e)
      PROVE  RangeSetInv' /\ Items' = Items \ (s .. e)
  <2>1. RangeSetInv'
    BY <1>9, Settled
  <2>2. \A n : n \in Items' <=> n \in Int /\ Has((rangeSet').list, n)
    BY <1>9, ItemsNow
  <2>3. Items' = Items \ (s .. e)
    BY <2>2, <1>2, <1>3, <1>9 DEF Kept
  <2> QED
    BY <2>1, <2>3
<1> HIDE DEF rs
<1>10. CASE s = r.start /\ e = r.end /\ rangeSet' = RangeSetRemove(rs, TRUE)
  <2>1. rs.list \in Seq([start : Int, end : Int])
    <3>1. \A i \in 1 .. Len(list) : list[i] \in [start : Int, end : Int]
      <4>1. ASSUME NEW i \in 1 .. Len(list)
            PROVE  list[i] \in [start : Int, end : Int]
        <5>1. list[i] \in Interval /\ list[i].start \in Int /\ list[i].end \in Int
          BY <1>5, Bounds
        <5> QED
          BY <5>1 DEF Interval
      <4> QED
        BY <4>1
    <3>2. list \in Seq([start : Int, end : Int])
      BY <3>1, <1>5, Elementwise
    <3> QED
      BY <3>2, <1>8
  <2> DEFINE left == RangeSetRemove(rs, TRUE)
  <2> HIDE DEF left
  <2>2. /\ left \in Handle /\ left.cursor <= Len(left.list) /\ Sorted(left.list)
        /\ Kept(list, left.list, list[at].start, list[at].end)
    BY <2>1, <1>2, <1>6, <1>8, TakesWhole DEF left
  <2>3. rangeSet' = left
    BY <1>10 DEF left
  <2> QED
    BY <2>2, <2>3, <1>1, <1>9, <1>10
<1>11. CASE s = r.start /\ e # r.end /\ rangeSet' = [rs EXCEPT !.list[at].start = e + 1]
  <2> DEFINE rest == [start |-> e + 1, end |-> r.end]
             trimmed == [list EXCEPT ![at] = rest]
  <2>1. [r EXCEPT !.start = e + 1] = rest
    BY <1>7 DEF Interval
  <2>2. rangeSet' = [rs EXCEPT !.list = trimmed]
    BY <2>1, <1>8, <1>11
  <2>3. /\ trimmed \in Seq(Interval) /\ Len(trimmed) = Len(list)
        /\ Sorted(trimmed) /\ Kept(list, trimmed, s, e)
    <3>1. /\ e + 1 \in Int /\ r.start <= e + 1 /\ e + 1 <= r.end /\ r.end <= r.end
          /\ \A n \in Int : n \in r.start .. r.end =>
               (n \in e + 1 .. r.end <=> ~(s <= n /\ n <= e))
      BY <1>2, <1>6, <1>7, <1>11
    <3> HIDE DEF rest
    <3> QED
      BY <3>1, <1>2, <1>6, <1>7, TakesPart DEF rest
  <2> HIDE DEF trimmed
  <2>4. /\ rangeSet' \in Handle /\ (rangeSet').list = trimmed /\ (rangeSet').cursor = at
    BY <2>2, <2>3, <1>6, <1>8 DEF Handle
  <2> QED
    BY <2>3, <2>4, <1>1, <1>6, <1>9
<1>12. CASE s # r.start /\ e = r.end /\ rangeSet' = [rs EXCEPT !.list[at].end = s - 1]
  <2> DEFINE rest == [start |-> r.start, end |-> s - 1]
             trimmed == [list EXCEPT ![at] = rest]
  <2>1. [r EXCEPT !.end = s - 1] = rest
    BY <1>7 DEF Interval
  <2>2. rangeSet' = [rs EXCEPT !.list = trimmed]
    BY <2>1, <1>8, <1>12
  <2>3. /\ trimmed \in Seq(Interval) /\ Len(trimmed) = Len(list)
        /\ Sorted(trimmed) /\ Kept(list, trimmed, s, e)
    <3>1. /\ s - 1 \in Int /\ r.start <= s - 1 /\ s - 1 <= r.end /\ r.start <= r.start
          /\ \A n \in Int : n \in r.start .. r.end =>
               (n \in r.start .. s - 1 <=> ~(s <= n /\ n <= e))
      BY <1>2, <1>6, <1>7, <1>12
    <3> HIDE DEF rest
    <3> QED
      BY <3>1, <1>2, <1>6, <1>7, TakesPart DEF rest
  <2> HIDE DEF trimmed
  <2>4. /\ rangeSet' \in Handle /\ (rangeSet').list = trimmed /\ (rangeSet').cursor = at
    BY <2>2, <2>3, <1>6, <1>8 DEF Handle
  <2> QED
    BY <2>3, <2>4, <1>1, <1>6, <1>9
<1>13. CASE s # r.start /\ e # r.end /\ rangeSet' = Cut(rs, s, e)
  <2> DEFINE cut == Cut(rs, s, e)
  <2> HIDE DEF cut
  <2>1. list[at].start < s /\ e < list[at].end
    BY <1>2, <1>6, <1>7, <1>13
  <2>2. /\ cut \in Handle /\ cut.cursor \in 1 .. Len(cut.list) /\ Sorted(cut.list)
        /\ \A n \in Int : Has(cut.list, n) <=> Has(list, n) /\ ~(s <= n /\ n <= e)
    BY <2>1, <1>2, <1>6, <1>8, Cuts DEF cut
  <2>3. rangeSet' = cut
    BY <1>13 DEF cut
  <2>4. cut.cursor <= Len(cut.list)
    BY <2>2
  <2> QED
    BY <2>2, <2>3, <2>4, <1>1, <1>9 DEF Kept
<1>14. CASE rangeSet' = rs
  <2>1. RangeSetInv'
    <3>1. at <= Len(list)
      BY <1>5, <1>6
    <3> QED
      BY <3>1, <1>2, <1>8, <1>14, Settled
  <2>2. \A n : n \in Items' <=> n \in Int /\ Has(list, n)
    BY <1>8, <1>14, ItemsNow
  <2>3. Items' = Items
    BY <2>2, <1>3
  <2> QED
    BY <2>1, <2>3, <1>1
<1> QED
  BY <1>1, <1>10, <1>11, <1>12, <1>13, <1>14

\* RangeSetPop takes numbers that are in the set, and returns these.
LEMMA PopStep ==
  ASSUME RangeSetInv, NEW count \in 1 .. MaxNumber, RangeSetPop(count)
  PROVE  /\ RangeSetInv' /\ popped' \subseteq Items /\ popped' \in Abstract!Intervals
         /\ Items' = Items \ popped'
<1> DEFINE list == rangeSet.list
           found == {j \in DOMAIN list : list[j].end + 1 - list[j].start >= count}
           at == FirstOf(found)
           r == list[at]
           first == r.start + count
           last == first - 1
           left == [rangeSet EXCEPT !.cursor = at, !.list[at].start = first]
           long == [list EXCEPT ![at] = [start |-> first, end |-> r.end]]
<1>1. /\ at # 0
      /\ popped' = r.start .. r.start + count - 1
      /\ rangeSet' = IF first > r.end THEN RangeSetRemove(left, TRUE) ELSE left
  BY DEF RangeSetPop
<1>2. rangeSet \in Handle /\ Sorted(list) /\ list \in Seq(Interval) /\ count \in Int
  BY RangeSetAssumption DEF RangeSetInv, Handle
<1>3. \A n : n \in Items <=> n \in Int /\ Has(list, n)
  BY <1>2, ItemsNow
<1> HIDE DEF list
<1>4. at \in 1 .. Len(list) /\ r.end + 1 - r.start >= count
  <2>1. found \in SUBSET (1 .. Len(list)) /\ Len(list) \in Nat /\ 0 \in Nat /\ 0 + 1 = 1
    BY <1>2
  <2>2. \A j \in found : list[j].end + 1 - list[j].start >= count
    OBVIOUS
  <2>3. at = FirstOf(found)
    OBVIOUS
  <2> HIDE DEF found, at
  <2>4. found \in SUBSET (0 + 1 .. Len(list))
    BY <2>1
  <2>5. /\ found = {} => at = 0
        /\ found # {} => at \in found
    BY <2>1, <2>3, <2>4, FirstFound
  <2>6. at \in found
    BY <2>5, <1>1
  <2> QED
    BY <2>1, <2>2, <2>6
<1> HIDE DEF at
<1>5. r \in Interval /\ r.start \in Int /\ r.end \in Int
  BY <1>2, <1>4, Bounds
<1>6. r.start <= last /\ last <= r.end /\ first \in Int /\ last \in Int /\ first = last + 1
  BY <1>2, <1>4, <1>5
<1>7. popped' = r.start .. last
  <2>1. r.start + count - 1 = last
    BY <1>2, <1>5
  <2> QED
    BY <2>1, <1>1
<1>8. popped' \subseteq Items
  <2>1. ASSUME NEW n \in r.start .. last
        PROVE  n \in Items
    <3>1. n \in Int /\ list[at].start <= n /\ n <= list[at].end
      BY <1>5, <1>6
    <3>2. Has(list, n)
      BY <3>1, <1>4 DEF Has
    <3> QED
      BY <3>1, <3>2, <1>3
  <2> QED
    BY <2>1, <1>7
<1>9. popped' \in Abstract!Intervals
  <2>1. r.start \in 1 .. MaxNumber /\ last \in 1 .. MaxNumber
    BY <1>5, <1>6, RangeSetAssumption DEF Interval
  <2>2. r.start \in r.start .. last
    BY <1>5, <1>6
  <2> HIDE DEF r, last
  <2> QED
    BY <2>1, <2>2, <1>7 DEF Abstract!Intervals
<1>10. ASSUME rangeSet' \in Handle, (rangeSet').cursor <= Len((rangeSet').list),
              Sorted((rangeSet').list), Kept(list, (rangeSet').list, r.start, last)
       PROVE  RangeSetInv' /\ Items' = Items \ popped'
  <2>1. RangeSetInv'
    BY <1>10, Settled
  <2>2. \A n : n \in Items' <=> n \in Int /\ Has((rangeSet').list, n)
    BY <1>10, ItemsNow
  <2>3. \A n \in Int : n \in popped' <=> r.start <= n /\ n <= last
    BY <1>5, <1>6, <1>7
  <2> HIDE DEF r, last
  <2>4. Items' = Items \ popped'
    BY <2>2, <2>3, <1>3, <1>10 DEF Kept
  <2> QED
    BY <2>1, <2>4
<1>11. left = [rangeSet EXCEPT !.cursor = at, !.list = long]
  <2>1. [r EXCEPT !.start = first] = [start |-> first, end |-> r.end]
    BY <1>5 DEF Interval
  <2> QED
    BY <2>1, <1>2 DEF list, Handle
<1>12. left.list = long /\ left.cursor = at
  BY <1>2, <1>11 DEF Handle
<1>13. CASE first > r.end
  <2>1. last = r.end
    BY <1>5, <1>6, <1>13
  <2>2. /\ long \in Seq([start : Int, end : Int]) /\ Len(long) = Len(list)
        /\ \A j \in 1 .. Len(list) : j # at => long[j] = list[j]
    <3>1. \A i \in 1 .. Len(list) : list[i] \in [start : Int, end : Int]
      <4>1. ASSUME NEW i \in 1 .. Len(list)
            PROVE  list[i] \in [start : Int, end : Int]
        <5>1. list[i] \in Interval /\ list[i].start \in Int /\ list[i].end \in Int
          BY <1>2, Bounds
        <5> QED
          BY <5>1 DEF Interval
      <4> QED
        BY <4>1
    <3>2. list \in Seq([start : Int, end : Int])
      BY <3>1, <1>2, Elementwise
    <3>3. [start |-> first, end |-> r.end] \in [start : Int, end : Int]
      BY <1>5, <1>6
    <3> QED
      BY <3>2, <3>3, <1>4
  <2> DEFINE gone == RangeSetRemove(left, TRUE)
  <2> HIDE DEF gone, left, long
  <2>3. /\ gone \in Handle /\ gone.cursor <= Len(gone.list) /\ Sorted(gone.list)
        /\ Kept(list, gone.list, list[at].start, list[at].end)
    BY <2>2, <1>2, <1>4, <1>12, TakesWhole DEF gone
  <2>4. rangeSet' = gone
    BY <1>1, <1>13 DEF gone
  <2> QED
    BY <2>1, <2>3, <2>4, <1>8, <1>9, <1>10
<1>14. CASE ~(first > r.end)
  <2>1. /\ long \in Seq(Interval) /\ Len(long) = Len(list)
        /\ Sorted(long) /\ Kept(list, long, r.start, last)
    <3> DEFINE rest == [start |-> first, end |-> r.end]
    <3>1. /\ r.start <= first /\ first <= r.end /\ r.end <= r.end
          /\ \A n \in Int : n \in r.start .. r.end =>
               (n \in first .. r.end <=> ~(r.start <= n /\ n <= last))
          /\ r.start <= r.start /\ last <= r.end
      BY <1>5, <1>6, <1>14
    <3>2. r = list[at]
      OBVIOUS
    <3> HIDE DEF rest, r, first, last
    <3> QED
      BY <3>1, <3>2, <1>2, <1>4, <1>5, <1>6, TakesPart, ZenonT(60) DEF rest
  <2>2. rangeSet' = left
    BY <1>1, <1>14
  <2> HIDE DEF long, left
  <2>3. rangeSet' \in Handle /\ (rangeSet').list = long /\ (rangeSet').cursor = at
    <3>1. rangeSet.spare \in BOOLEAN
      BY <1>2 DEF Handle
    <3>2. at \in Nat
      BY <1>4
    <3>3. left \in Handle
      BY <2>1, <3>1, <3>2, <1>2, <1>11 DEF Handle
    <3> QED
      BY <3>3, <2>2, <1>12
  <2>4. at <= Len(list)
    BY <1>2, <1>4
  <2> QED
    BY <2>1, <2>3, <2>4, <1>8, <1>9, <1>10
<1> QED
  BY <1>13, <1>14, SMTT(40)

-----------------------------------------------------------------------------
(* The theorems.                                                           *)

\* RangeSetCreate makes an empty set.
LEMMA RangeSetStart == RangeSetCreate => RangeSetInv /\ Abstract!Init
<1>1. SUFFICES ASSUME RangeSetCreate
               PROVE  RangeSetInv /\ Abstract!Init
  OBVIOUS
<1>2. rangeSet = [list |-> <<>>, cursor |-> 0, spare |-> FALSE] /\ popped = {}
  BY <1>1 DEF RangeSetCreate, Empty
<1>3. <<>> \in Seq(Interval) /\ Len(<<>>) = 0
  OBVIOUS
<1>4. RangeSetInv
  BY <1>2, <1>3 DEF RangeSetInv, Handle, Sorted, Listed, Forward, Ascending, Gaps
<1>5. Items = {}
  BY <1>2 DEF Items, Ranges
<1> QED
  BY <1>2, <1>4, <1>5 DEF Abstract!Init

\* Every operation keeps the invariant and is a step of the abstract set.
LEMMA RangeSetStep ==
  ASSUME RangeSetInv, [RangeSetNext]_rsVars
  PROVE  RangeSetInv' /\ [Abstract!Next]_<<Items, popped>>
<1>1. ASSUME NEW n \in 1 .. MaxNumber, RangeSetPop(n)
      PROVE  RangeSetInv' /\ [Abstract!Next]_<<Items, popped>>
  <2>1. /\ RangeSetInv' /\ popped' \subseteq Items /\ popped' \in Abstract!Intervals
        /\ Items' = Items \ popped'
    BY <1>1, PopStep
  <2>2. popped' # {}
    BY <2>1 DEF Abstract!Intervals
  <2>3. Items' # Items
    BY <2>1, <2>2
  <2>4. Abstract!Pop(popped')
    BY <2>1 DEF Abstract!Pop
  <2> QED
    BY <2>1, <2>3, <2>4 DEF Abstract!Next
<1>2. ASSUME NEW s \in 1 .. MaxNumber, NEW e \in 1 .. MaxNumber, s <= e
      PROVE  s .. e \in Abstract!Intervals /\ s .. e # {}
  <2>1. s \in s .. e
    BY <1>2
  <2> QED
    BY <2>1 DEF Abstract!Intervals
<1>3. ASSUME NEW s \in 1 .. MaxNumber, NEW e \in 1 .. MaxNumber, s <= e, RangeSetPut(s, e)
      PROVE  RangeSetInv' /\ [Abstract!Next]_<<Items, popped>>
  <2>1. /\ RangeSetInv' /\ popped' = popped /\ (s .. e) \cap Items = {}
        /\ Items' = Items \/ Items' = Items \cup (s .. e)
    BY <1>3, PutStep
  <2>2. CASE Items' = Items
    BY <2>1, <2>2
  <2>3. CASE Items' = Items \cup (s .. e)
    <3>1. Items' # Items
      BY <2>1, <2>3, <1>2, <1>3
    <3>2. Abstract!Put(s .. e)
      BY <2>1, <2>3 DEF Abstract!Put
    <3> QED
      BY <2>1, <3>1, <3>2, <1>2, <1>3 DEF Abstract!Next
  <2> QED
    BY <2>1, <2>2, <2>3
<1>4. ASSUME NEW s \in 1 .. MaxNumber, NEW e \in 1 .. MaxNumber, s <= e, RangeSetGet(s, e)
      PROVE  RangeSetInv' /\ [Abstract!Next]_<<Items, popped>>
  <2>1. /\ RangeSetInv' /\ popped' = popped /\ (s .. e) \subseteq Items
        /\ Items' = Items \/ Items' = Items \ (s .. e)
    BY <1>4, GetStep
  <2>2. CASE Items' = Items
    BY <2>1, <2>2
  <2>3. CASE Items' = Items \ (s .. e)
    <3>1. Items' # Items
      BY <2>1, <2>3, <1>2, <1>4
    <3>2. Abstract!Get(s .. e)
      BY <2>1, <2>3 DEF Abstract!Get
    <3> QED
      BY <2>1, <3>1, <3>2, <1>2, <1>4 DEF Abstract!Next
  <2> QED
    BY <2>1, <2>2, <2>3
<1>5. ASSUME RangeSetDestroy
      PROVE  RangeSetInv' /\ [Abstract!Next]_<<Items, popped>>
  <2>1. rangeSet.list = <<>> /\ rangeSet' = [list |-> <<>>, cursor |-> 0, spare |-> FALSE]
        /\ popped' = popped
    BY <1>5 DEF RangeSetDestroy, Empty
  <2>2. <<>> \in Seq(Interval) /\ Len(<<>>) = 0 /\ Sorted(<<>>)
    BY DEF Sorted, Listed, Forward, Ascending, Gaps
  <2>3. rangeSet' \in Handle /\ (rangeSet').list = <<>> /\ (rangeSet').cursor = 0
    BY <2>1, <2>2 DEF Handle
  <2>4. RangeSetInv'
    BY <2>2, <2>3, Settled
  <2>5. /\ \A n : n \in Items <=> n \in Int /\ Has(<<>>, n)
        /\ \A n : n \in Items' <=> n \in Int /\ Has(<<>>, n)
    BY <2>1, <2>3, ItemsNow DEF RangeSetInv
  <2> QED
    BY <2>1, <2>4, <2>5
<1>6. ASSUME UNCHANGED rsVars
      PROVE  RangeSetInv' /\ [Abstract!Next]_<<Items, popped>>
  BY <1>6 DEF rsVars, RangeSetInv, Items, Ranges
<1> QED
  BY <1>1, <1>3, <1>4, <1>5, <1>6 DEF RangeSetNext

\* The doubly linked list of ranges with its cursor, its merging and its
\* splitting implements the set of numbers of NumberSet: Pop, Get and Put
\* never hand out a number that is not in the set, never lose one and never
\* have one twice, for numbers up to any MaxNumber.
THEOREM RangesAreASet == RangeSetSpec => ImplementsNumberSet
<1>1. RangeSetCreate => RangeSetInv /\ Abstract!Init
  BY RangeSetStart
<1>2. RangeSetInv /\ [RangeSetNext]_rsVars => RangeSetInv' /\ [Abstract!Next]_<<Items, popped>>
  BY RangeSetStep
<1> QED
  BY <1>1, <1>2, PTL DEF RangeSetSpec, ImplementsNumberSet, Abstract!Spec

\* After every operation the ranges are nonempty, ascending and apart, and
\* the cursor is in the list: what the searches from the cursor in
\* range_set.c rely on.
THEOREM RangesInOrder == RangeSetSpec => []RangeSetInv
  BY RangeSetStart, RangeSetStep, PTL DEF RangeSetSpec

-----------------------------------------------------------------------------
(* Cache.                                                                  *)
Indices == 0 .. SlabSize - 1
Points == {"idle", "get", "got", "put", "gave"}
Doing == [what : {"idle", "spill"}, count : Nat]

\* The type of every variable.
CacheTypeOK ==
  /\ life \in {"none", "live", "unlisted", "flushed", "bug"}
  /\ SlabList \in Seq(Slab) /\ Cursor \in Slab \cup {"head"}
  /\ Constructed \in [Slab -> SUBSET Indices] /\ Allocated \in [Slab -> SUBSET Indices]
  /\ Magazine \in [CacheCpu -> SUBSET Objects]
  /\ cachePc \in [CacheCpu -> Points]
  /\ object \in [CacheCpu -> Objects \cup {NoObject}]
  /\ \A p \in CacheCpu : cachePc[p] \in {"got", "put"} => object[p] \in Objects
  /\ inUse \in SUBSET Objects /\ CurrentObjects \in Int
  /\ monitor \in Doing

\* The objects of a slab are constructed in the order of their addresses.
SlabInv ==
  \A s \in Slab :
    /\ Allocated[s] \subseteq Constructed[s]
    /\ \E k \in 0 .. SlabSize : Constructed[s] = 0 .. k - 1
    /\ s \notin OnList => Constructed[s] = {}

\* Every object that is out is in one place.
Holds(p, o) == o \in Magazine[p] \/ o \in Out(p)

PlaceInv ==
  \A o \in Objects :
    /\ o[2] \in Allocated[o[1]] <=> (o \in inUse \/ \E p \in CacheCpu : Holds(p, o))
    /\ \A p \in CacheCpu :
         /\ o \in inUse => ~Holds(p, o)
         /\ ~(o \in Magazine[p] /\ o \in Out(p))
         /\ \A q \in CacheCpu : Holds(p, o) /\ Holds(q, o) => p = q

\* CurrentObjects counts a put object until Gave.
Counted == {p \in CacheCpu : cachePc[p] \in {"put", "gave"}}
CountInv == CurrentObjects = Cardinality(inUse) + Cardinality(Counted)

\* Nothing is out of a cache that is not live, except in magazines until the flush.
LifeInv ==
  /\ life # "live" => /\ inUse = {} /\ monitor.what = "idle"
                      /\ \A p \in CacheCpu : cachePc[p] = "idle"
  /\ life = "none" => SlabList = <<>>
  /\ life = "flushed" => \A s \in Slab : Allocated[s] = {}
  /\ monitor.what = "idle" => monitor = Idle
  /\ monitor.what = "spill" => monitor.count >= Reservation

\* Slabs in order, by the number of their objects that are out, with the cursor at
\* the first that has room.
Taken(a, s) == Cardinality(a[s])
Distinct(list) == \A i, j \in 1 .. Len(list) : i # j => list[i] # list[j]
Descending(list, a) ==
  \A i, j \in 1 .. Len(list) : i < j => Taken(a, list[i]) >= Taken(a, list[j])

CursorAt(list, a, c) ==
  /\ \A i \in 1 .. Len(list) :
       Taken(a, list[i]) < SlabSize /\ (\A j \in 1 .. i - 1 : Taken(a, list[j]) = SlabSize) => c = list[i]
  /\ (\A i \in 1 .. Len(list) : Taken(a, list[i]) = SlabSize) => c = "head"

OrderInv ==
  life = "live" => /\ Descending(SlabList, Allocated) /\ CursorAt(SlabList, Allocated, Cursor)
                   /\ Reservation <= Count /\ Count <= Cap

\* The inductive invariant.
CacheIInv == CacheTypeOK /\ Distinct(SlabList) /\ SlabInv /\ PlaceInv /\ CountInv /\ LifeInv /\ OrderInv
-----------------------------------------------------------------------------
(* Sets of indices and of positions.                                       *)

\* The masks of a slab: how one more or one less counts.
LEMMA IndexSets ==
  \A S \in SUBSET Indices :
    /\ IsFiniteSet(S) /\ Cardinality(S) \in Nat /\ Cardinality(S) <= SlabSize
    /\ Cardinality(S) = SlabSize => S = Indices
    /\ \A x \in Indices : x \notin S => Cardinality(S \cup {x}) = Cardinality(S) + 1
    /\ \A x \in S : Cardinality(S \ {x}) = Cardinality(S) - 1
<1>0. SlabSize \in Nat \ {0}  BY CacheAssumption
<1>1. IsFiniteSet(Indices) /\ Cardinality(Indices) = SlabSize
  <2>1. 0 \in Int /\ SlabSize - 1 \in Int /\ ~(0 > SlabSize - 1) /\ SlabSize - 1 - 0 + 1 = SlabSize
    BY <1>0
  <2> QED  BY <1>0, <2>1, FS_Interval DEF Indices
<1>2. SUFFICES ASSUME NEW S \in SUBSET Indices
      PROVE /\ IsFiniteSet(S) /\ Cardinality(S) \in Nat /\ Cardinality(S) <= SlabSize
            /\ Cardinality(S) = SlabSize => S = Indices
            /\ \A x \in Indices : x \notin S => Cardinality(S \cup {x}) = Cardinality(S) + 1
            /\ \A x \in S : Cardinality(S \ {x}) = Cardinality(S) - 1
  OBVIOUS
<1>3. IsFiniteSet(S) /\ Cardinality(S) <= SlabSize /\ (Cardinality(S) = SlabSize => S = Indices)
  BY <1>1, FS_Subset
<1>4. Cardinality(S) \in Nat  BY <1>3, FS_CardinalityType
<1>5. \A x \in Indices : x \notin S => Cardinality(S \cup {x}) = Cardinality(S) + 1
  BY <1>3, FS_AddElement
<1>6. \A x \in S : Cardinality(S \ {x}) = Cardinality(S) - 1
  BY <1>3, FS_RemoveElement
<1> QED  BY <1>3, <1>4, <1>5, <1>6

\* How many numbers 1 .. m has.
LEMMA Upto == ASSUME NEW m \in Nat PROVE IsFiniteSet(1 .. m) /\ Cardinality(1 .. m) = m
<1>1. CASE m = 0
  <2>1. 1 .. m = {}  BY <1>1
  <2> QED  BY <1>1, <2>1, FS_EmptySet
<1>2. CASE m # 0
  <2>1. 1 \in Int /\ m \in Int /\ ~(1 > m) /\ m - 1 + 1 = m  BY <1>2
  <2> QED  BY <2>1, FS_Interval
<1> QED  BY <1>1, <1>2

\* A prefix of the positions of a list is given by its size ...
LEMMA Prefix ==
  ASSUME NEW n \in Nat, NEW S \in SUBSET (1 .. n), \A i \in S : \A j \in 1 .. i : j \in S
  PROVE  Cardinality(S) \in 0 .. n /\ S = 1 .. Cardinality(S)
<1>1. {i \in 1 .. n + 1 : i \notin S} \in SUBSET Nat /\ {i \in 1 .. n + 1 : i \notin S} # {}
  <2>1. n + 1 \in 1 .. n + 1 /\ n + 1 \notin S  OBVIOUS
  <2> QED  BY <2>1
<1>2. PICK m \in {i \in 1 .. n + 1 : i \notin S} : \A j \in {i \in 1 .. n + 1 : i \notin S} : m <= j
  BY <1>1, LeastNumber
<1>3. \A i \in S : i < m
  <2>1. ASSUME NEW i \in S, ~(i < m) PROVE FALSE
    <3>1. i \in 1 .. n /\ m \in 1 .. i  BY <1>2, <2>1
    <3> QED  BY <1>2, <3>1
  <2> QED  BY <2>1
<1>4. \A i \in 1 .. n : i < m => i \in S  BY <1>2
<1>5. S = 1 .. m - 1
  <2>1. \A i \in S : i \in 1 .. m - 1  BY <1>2, <1>3
  <2>2. \A i \in 1 .. m - 1 : i \in S  BY <1>2, <1>4
  <2> QED  BY <2>1, <2>2
<1>6. Cardinality(1 .. m - 1) = m - 1
  <2>1. m - 1 \in Nat  BY <1>2
  <2> QED  BY <2>1, Upto
<1> QED  BY <1>2, <1>5, <1>6

\* ... and so is a suffix.
LEMMA Suffix ==
  ASSUME NEW n \in Nat, NEW S \in SUBSET (1 .. n), \A i \in S : \A j \in i .. n : j \in S
  PROVE  Cardinality(S) \in 0 .. n /\ S = (n - Cardinality(S)) + 1 .. n
<1> DEFINE R == (1 .. n) \ S
<1>1. R \in SUBSET (1 .. n) /\ \A i \in R : \A j \in 1 .. i : j \in R
  <2>1. ASSUME NEW i \in R, NEW j \in 1 .. i PROVE j \in R
    <3>1. i \in 1 .. n /\ j \in 1 .. n /\ i \in j .. n  BY <2>1
    <3> QED  BY <2>1, <3>1
  <2> QED  BY <2>1
<1>2. Cardinality(R) \in 0 .. n /\ R = 1 .. Cardinality(R)  BY <1>1, Prefix
<1>3. IsFiniteSet(1 .. n) /\ Cardinality(1 .. n) = n  BY Upto
<1>4. Cardinality(R) = n - Cardinality((1 .. n) \cap S)  BY <1>3, FS_Difference
<1>5. (1 .. n) \cap S = S  OBVIOUS
<1>6. IsFiniteSet(S)  BY <1>3, FS_Subset
<1>7. Cardinality(S) \in Nat  BY <1>6, FS_CardinalityType
<1>8. n - Cardinality(S) \in 0 .. n /\ R = 1 .. (n - Cardinality(S))  BY <1>2, <1>4, <1>5
<1>9. Cardinality(S) \in 0 .. n  BY <1>7, <1>8
<1>10. \A i \in 1 .. n : i \in S <=> i \notin R  OBVIOUS
<1> HIDE DEF R
<1>11. \A i \in S : i \in (n - Cardinality(S)) + 1 .. n  BY <1>8, <1>9, <1>10
<1>12. \A i \in (n - Cardinality(S)) + 1 .. n : i \in S  BY <1>8, <1>9, <1>10
<1> QED  BY <1>9, <1>11, <1>12
-----------------------------------------------------------------------------
(* What the operators on slabs do.                                         *)

Masks == [Slab -> SUBSET Indices]
On(list, s) == \E i \in 1 .. Len(list) : list[i] = s

\* The number of a slab's objects that are out, and what it means to be full.
LEMMA TakenBound ==
  ASSUME NEW a \in Masks, NEW s \in Slab PROVE Taken(a, s) \in 0 .. SlabSize
<1>1. a[s] \in SUBSET Indices  BY DEF Masks
<1> QED  BY <1>1, IndexSets, CacheAssumption DEF Taken

\* A slab is full when all its objects are out.
LEMMA FullTaken == ASSUME NEW a, NEW s PROVE Full(a, s) <=> Taken(a, s) = SlabSize
BY DEF Full, Taken

\* The cursor of a list that has room is the first slab with room.
LEMMA CursorFound ==
  ASSUME NEW list \in Seq(Slab), NEW a \in Masks, NEW c, CursorAt(list, a, c)
  PROVE  \/ c = "head" /\ \A i \in 1 .. Len(list) : Taken(a, list[i]) = SlabSize
         \/ \E i \in 1 .. Len(list) : /\ c = list[i] /\ Taken(a, list[i]) < SlabSize
                                      /\ \A j \in 1 .. i - 1 : Taken(a, list[j]) = SlabSize
<1>1. \A i \in 1 .. Len(list) : list[i] \in Slab  OBVIOUS
<1>2. \A i \in 1 .. Len(list) : Taken(a, list[i]) \in 0 .. SlabSize  BY <1>1, TakenBound
<1> DEFINE R == {i \in 1 .. Len(list) : Taken(a, list[i]) < SlabSize}
<1>3. SlabSize \in Nat /\ Len(list) \in Nat  BY CacheAssumption
<1>4. CASE R = {}
  <2>1. \A i \in 1 .. Len(list) : Taken(a, list[i]) = SlabSize  BY <1>2, <1>3, <1>4
  <2> QED  BY <2>1 DEF CursorAt
<1>5. CASE R # {}
  <2>1. R \in SUBSET Nat  BY <1>3
  <2>2. PICK i \in R : \A j \in R : i <= j  BY <2>1, <1>5, LeastNumber
  <2>3. \A j \in 1 .. i - 1 : Taken(a, list[j]) = SlabSize
    <3>1. ASSUME NEW j \in 1 .. i - 1 PROVE Taken(a, list[j]) = SlabSize
      <4>1. j \in 1 .. Len(list) /\ j \notin R  BY <2>2, <1>3, <3>1
      <4> QED  BY <4>1, <1>2, <1>3
    <3> QED  BY <3>1
  <2> QED  BY <2>2, <2>3 DEF CursorAt
<1> QED  BY <1>4, <1>5

\* A slab inserted after the first k.
LEMMA InsertedSlab ==
  ASSUME NEW list \in Seq(Slab), NEW k, k + 1 \in 1 .. Len(list) + 1, NEW new \in Slab
  PROVE  /\ InsertAt(list, k + 1, new) \in Seq(Slab)
         /\ Len(InsertAt(list, k + 1, new)) = Len(list) + 1
         /\ \A j \in 1 .. Len(list) + 1 :
              InsertAt(list, k + 1, new)[j] =
                IF j < k + 1 THEN list[j] ELSE IF j = k + 1 THEN new ELSE list[j - 1]
<1> DEFINE at == k + 1
<1>1. at \in 1 .. Len(list) + 1  OBVIOUS
<1> HIDE DEF at
<1>2. /\ InsertAt(list, at, new) \in Seq(Slab)
      /\ Len(InsertAt(list, at, new)) = Len(list) + 1
      /\ \A j \in 1 .. Len(list) + 1 :
           InsertAt(list, at, new)[j] =
             IF j < at THEN list[j] ELSE IF j = at THEN new ELSE list[j - 1]
  BY <1>1, Inserted
<1> QED  BY <1>2 DEF at

\* CacheInsertSlab keeps the order and leaves the cursor at the first slab with room.
LEMMA InsertsSlab ==
  ASSUME NEW list \in Seq(Slab), NEW a \in Masks, NEW new \in Slab, Distinct(list), Descending(list, a),
         ~On(list, new), Taken(a, new) < SlabSize
  PROVE  LET r == CacheInsertSlab(list, a, new)
         IN /\ r.list \in Seq(Slab) /\ Len(r.list) = Len(list) + 1 /\ Distinct(r.list)
            /\ Descending(r.list, a) /\ CursorAt(r.list, a, r.cursor) /\ r.cursor \in Slab
            /\ \A s : On(r.list, s) <=> s = new \/ On(list, s)
<1> DEFINE T(s) == Taken(a, s)
           n == Len(list)
           before == {i \in 1 .. n : \A j \in 1 .. i : T(list[j]) >= T(new)}
           k == Cardinality(before)
           room == {i \in before : T(list[i]) # SlabSize}
           l == InsertAt(list, k + 1, new)
           r == CacheInsertSlab(list, a, new)
           c == IF room = {} THEN new ELSE list[CHOOSE i \in room : \A j \in room : i <= j]
<1>1. n \in Nat /\ DOMAIN list = 1 .. n /\ SlabSize \in Nat /\ \A i \in 1 .. n : list[i] \in Slab
  BY CacheAssumption
<1>2. T(new) \in 0 .. SlabSize /\ \A i \in 1 .. n : T(list[i]) \in 0 .. SlabSize
  BY <1>1, TakenBound
<1>3. r = [list |-> l, cursor |-> c]
  <2>1. before = {i \in DOMAIN list : \A j \in 1 .. i : Cardinality(a[list[j]]) >= Cardinality(a[new])}
    BY <1>1 DEF Taken
  <2>2. room = {i \in before : ~Full(a, list[i])}  BY FullTaken
  <2> HIDE DEF before, room
  <2> QED  BY <2>1, <2>2 DEF CacheInsertSlab
<1>4. k \in 0 .. n /\ before = 1 .. k
  <2>1. before \in SUBSET (1 .. n) /\ \A i \in before : \A j \in 1 .. i : j \in before
    <3>1. ASSUME NEW i \in before, NEW j \in 1 .. i PROVE j \in before
      <4>1. i \in 1 .. n /\ j \in 1 .. n /\ \A m \in 1 .. j : m \in 1 .. i  BY <1>1, <3>1
      <4> QED  BY <3>1, <4>1
    <3> QED  BY <3>1
  <2> HIDE DEF before
  <2> QED  BY <1>1, <2>1, Prefix
<1> HIDE DEF k
<1>5. \A i \in 1 .. k : T(list[i]) >= T(new)
  BY <1>4
<1>6. \A i \in k + 1 .. n : T(list[i]) < T(new)
  <2>1. k < n => T(list[k + 1]) < T(new)
    <3>1. ASSUME k < n PROVE T(list[k + 1]) < T(new)
      <4>1. k + 1 \in 1 .. n /\ k + 1 \notin before  BY <1>1, <1>4, <3>1
      <4>2. PICK j \in 1 .. k + 1 : ~(T(list[j]) >= T(new))  BY <4>1
      <4>3. j = k + 1
        <5>1. j \notin 1 .. k  BY <4>2, <1>5
        <5> QED  BY <4>2, <5>1, <1>4
      <4> QED  BY <4>1, <4>2, <4>3, <1>2
    <3> QED  BY <3>1
  <2> HIDE DEF before, T
  <2>2. ASSUME NEW i \in k + 1 .. n PROVE T(list[i]) < T(new)
    <3>0. k \in Nat /\ k < n /\ i \in 1 .. n /\ k + 1 \in 1 .. n /\ (k + 1 = i \/ k + 1 < i)
      BY <1>1, <1>4, <2>2
    <3>1. T(list[k + 1]) >= T(list[i])  BY <3>0, <1>2 DEF Descending, T
    <3> QED  BY <1>2, <2>1, <3>0, <3>1
  <2> QED  BY <2>2
<1> HIDE DEF before, T
<1>7. /\ l \in Seq(Slab) /\ Len(l) = n + 1
      /\ \A j \in 1 .. n + 1 :
           l[j] = IF j < k + 1 THEN list[j] ELSE IF j = k + 1 THEN new ELSE list[j - 1]
  <2>1. k + 1 \in 1 .. Len(list) + 1  BY <1>1, <1>4
  <2> QED  BY <2>1, InsertedSlab
<1> HIDE DEF l, k
<1>8. \A j \in 1 .. k : j \in 1 .. n + 1 /\ l[j] = list[j]  BY <1>1, <1>4, <1>7
<1>9. k + 1 \in 1 .. n + 1 /\ l[k + 1] = new  BY <1>1, <1>4, <1>7
<1>10. \A j \in k + 2 .. n + 1 : j - 1 \in k + 1 .. n /\ l[j] = list[j - 1]
  BY <1>1, <1>4, <1>7
<1>11. \A j \in 1 .. n + 1 : j \in 1 .. k \/ j = k + 1 \/ j \in k + 2 .. n + 1
  BY <1>1, <1>4
<1>12. \A s : On(l, s) <=> s = new \/ On(list, s)
  <2>1. \A s : On(l, s) => s = new \/ On(list, s)
    <3>1. \A j \in 1 .. n + 1 : l[j] = new \/ On(list, l[j])
      BY <1>1, <1>4, <1>8, <1>9, <1>10, <1>11, SMTT(40) DEF On
    <3> QED  BY <3>1, <1>7 DEF On
  <2>2. ASSUME NEW i \in 1 .. n PROVE On(l, list[i])
    <3>1. CASE i <= k  BY <1>1, <1>4, <1>7, <1>8, <3>1 DEF On
    <3>2. CASE i > k
      <4>1. i + 1 \in 1 .. n + 1 /\ i + 1 - 1 = i /\ i + 1 \in k + 2 .. n + 1
        BY <1>1, <1>4, <3>2
      <4>2. l[i + 1] = list[i]  BY <4>1, <1>10
      <4> QED  BY <4>1, <4>2, <1>7 DEF On
    <3> QED  BY <1>1, <1>4, <3>1, <3>2
  <2>3. On(l, new)  BY <1>7, <1>9 DEF On
  <2> QED  BY <2>1, <2>2, <2>3 DEF On
<1>13. Distinct(l)
  <2>1. \A i \in 1 .. n : list[i] # new  BY DEF On
  <2>2. ASSUME NEW i \in 1 .. n + 1, NEW j \in 1 .. n + 1, i < j PROVE l[i] # l[j]
    <3>0. n \in Nat /\ k \in Nat /\ k <= n  BY <1>1, <1>4
    <3>1. CASE j \in 1 .. k
      <4>1. i \in 1 .. k /\ i \in 1 .. n /\ j \in 1 .. n /\ i # j  BY <2>2, <3>0, <3>1
      <4> QED  BY <4>1, <3>1, <1>8 DEF Distinct
    <3>2. CASE j = k + 1
      <4>1. i \in 1 .. k /\ i \in 1 .. n  BY <2>2, <3>0, <3>2
      <4> QED  BY <4>1, <3>2, <2>1, <1>8, <1>9
    <3>3. CASE j \in k + 2 .. n + 1
      <4>0. j - 1 \in 1 .. n /\ l[j] = list[j - 1]  BY <3>0, <3>3, <1>10
      <4>1. CASE i \in 1 .. k
        <5>1. i \in 1 .. n /\ i # j - 1  BY <3>0, <3>3, <4>1
        <5> QED  BY <4>0, <4>1, <5>1, <1>8 DEF Distinct
      <4>2. CASE i = k + 1  BY <4>0, <4>2, <2>1, <1>9
      <4>3. CASE i \in k + 2 .. n + 1
        <5>1. i - 1 \in 1 .. n /\ i - 1 # j - 1  BY <2>2, <3>0, <4>3
        <5> QED  BY <4>0, <4>3, <5>1, <1>10 DEF Distinct
      <4> QED  BY <4>1, <4>2, <4>3, <1>11
    <3> QED  BY <3>1, <3>2, <3>3, <1>11
  <2>3. ASSUME NEW i \in 1 .. Len(l), NEW j \in 1 .. Len(l), i # j PROVE l[i] # l[j]
    <3>1. i \in 1 .. n + 1 /\ j \in 1 .. n + 1 /\ (i < j \/ j < i)  BY <1>1, <1>7, <2>3
    <3> QED  BY <2>2, <3>1
  <2> QED  BY <2>3 DEF Distinct
<1>14. Descending(l, a)
  <2>0. n \in Nat /\ k \in Nat /\ k <= n  BY <1>1, <1>4
  <2>1. ASSUME NEW i \in 1 .. n + 1, NEW j \in 1 .. n + 1, i < j PROVE T(l[i]) >= T(l[j])
    <3>1. CASE j \in 1 .. k
      <4>1. i \in 1 .. k /\ i \in 1 .. n /\ j \in 1 .. n  BY <2>0, <2>1, <3>1
      <4> QED  BY <4>1, <2>1, <3>1, <1>8 DEF Descending, T
    <3>2. CASE j = k + 1
      <4>1. i \in 1 .. k  BY <2>0, <2>1, <3>2
      <4> QED  BY <4>1, <3>2, <1>5, <1>8, <1>9
    <3>3. CASE j \in k + 2 .. n + 1
      <4>0. j - 1 \in k + 1 .. n /\ j - 1 \in 1 .. n /\ l[j] = list[j - 1]  BY <2>0, <3>3, <1>10
      <4>1. CASE i \in 1 .. k
        <5>1. i \in 1 .. n /\ i < j - 1  BY <2>0, <3>3, <4>1
        <5> QED  BY <4>0, <4>1, <5>1, <1>8 DEF Descending, T
      <4>2. CASE i = k + 1
        <5>1. T(list[j - 1]) < T(new) /\ T(list[j - 1]) \in 0 .. SlabSize  BY <4>0, <1>2, <1>6
        <5> QED  BY <4>0, <4>2, <5>1, <1>1, <1>2, <1>9
      <4>3. CASE i \in k + 2 .. n + 1
        <5>1. i - 1 \in 1 .. n /\ i - 1 < j - 1 /\ l[i] = list[i - 1]
          BY <2>0, <2>1, <4>3, <1>10
        <5> QED  BY <4>0, <5>1 DEF Descending, T
      <4> QED  BY <4>1, <4>2, <4>3, <1>11
    <3> QED  BY <3>1, <3>2, <3>3, <1>11
  <2> QED  BY <2>1, <1>7 DEF Descending, T
<1>15. c \in Slab /\ CursorAt(l, a, c)
  <2>0. n \in Nat /\ k \in Nat /\ k <= n /\ room = {i \in 1 .. k : T(list[i]) # SlabSize}
    BY <1>1, <1>4
  <2>1. CASE room = {}
    <3>1. c = new /\ \A i \in 1 .. k : T(l[i]) = SlabSize  BY <2>0, <2>1, <1>8
    <3>2. T(l[k + 1]) < SlabSize  BY <1>9 DEF T
    <3>3. \A i \in 1 .. n + 1 : T(l[i]) < SlabSize /\ (\A j \in 1 .. i - 1 : T(l[j]) = SlabSize) => i = k + 1
      <4>1. ASSUME NEW i \in 1 .. n + 1, T(l[i]) < SlabSize, \A j \in 1 .. i - 1 : T(l[j]) = SlabSize
            PROVE i = k + 1
        <5>1. i \notin 1 .. k  BY <4>1, <3>1, <1>1
        <5>2. k + 1 \notin 1 .. i - 1
          <6>1. ASSUME k + 1 \in 1 .. i - 1 PROVE FALSE  BY <6>1, <4>1, <3>2, <1>1
          <6> QED  BY <6>1
        <5> QED  BY <2>0, <4>1, <5>1, <5>2
      <4> QED  BY <4>1
    <3>4. ~\A i \in 1 .. n + 1 : T(l[i]) = SlabSize  BY <3>2, <1>9, <1>1
    <3> HIDE DEF c
    <3> QED  BY <3>1, <3>3, <3>4, <1>7, <1>9 DEF CursorAt, T
  <2>2. CASE room # {}
    <3>1. room \in SUBSET Nat  BY <2>0
    <3>2. \E i \in room : \A j \in room : i <= j  BY <3>1, <2>2, LeastNumber
    <3> DEFINE m == CHOOSE i \in room : \A j \in room : i <= j
    <3>3. m \in room /\ \A j \in room : m <= j  BY <3>2
    <3>4. c = list[m]  BY <2>2
    <3> HIDE DEF m, c
    <3>5. m \in 1 .. k /\ m \in 1 .. n /\ T(list[m]) # SlabSize /\ l[m] = list[m]
      BY <2>0, <3>3, <1>8
    <3>6. \A j \in 1 .. m - 1 : T(l[j]) = SlabSize
      <4>1. ASSUME NEW j \in 1 .. m - 1 PROVE T(l[j]) = SlabSize
        <5>1. j \in 1 .. k /\ j \notin room  BY <2>0, <3>3, <3>5, <4>1
        <5> QED  BY <2>0, <5>1, <1>8
      <4> QED  BY <4>1
    <3>7. T(l[m]) < SlabSize  BY <3>5, <1>1, <1>2
    <3>8. \A i \in 1 .. n + 1 : T(l[i]) < SlabSize /\ (\A j \in 1 .. i - 1 : T(l[j]) = SlabSize) => i = m
      <4>1. ASSUME NEW i \in 1 .. n + 1, T(l[i]) < SlabSize, \A j \in 1 .. i - 1 : T(l[j]) = SlabSize
            PROVE i = m
        <5>1. i \notin 1 .. m - 1  BY <4>1, <3>6, <1>1
        <5>2. m \notin 1 .. i - 1
          <6>1. ASSUME m \in 1 .. i - 1 PROVE FALSE  BY <6>1, <4>1, <3>7, <1>1
          <6> QED  BY <6>1
        <5> QED  BY <2>0, <3>5, <4>1, <5>1, <5>2
      <4> QED  BY <4>1
    <3>9. m \in 1 .. n + 1 /\ ~\A i \in 1 .. n + 1 : T(l[i]) = SlabSize
      BY <2>0, <3>5, <3>7, <1>1
    <3> QED  BY <3>4, <3>5, <3>8, <3>9, <1>1, <1>7 DEF CursorAt, T
  <2> QED  BY <2>1, <2>2
<1> HIDE DEF c
<1>16. r.list = l /\ r.cursor = c  BY <1>3
<1> QED  BY <1>7, <1>12, <1>13, <1>14, <1>15, <1>16

\* Position finds a slab that is on the list.
LEMMA PositionFound ==
  ASSUME NEW list \in Seq(Slab), NEW s, On(list, s)
  PROVE  Position(list, s) \in 1 .. Len(list) /\ list[Position(list, s)] = s
<1>1. DOMAIN list = 1 .. Len(list)  OBVIOUS
<1>2. \E i \in DOMAIN list : list[i] = s  BY <1>1 DEF On
<1> QED  BY <1>1, <1>2 DEF Position

\* A slab taken off the list.
LEMMA RemovesSlab ==
  ASSUME NEW list \in Seq(Slab), NEW a \in Masks, NEW s, On(list, s), Distinct(list), Descending(list, a)
  PROVE  LET r == RemoveAt(list, Position(list, s))
         IN /\ r \in Seq(Slab) /\ Len(r) = Len(list) - 1 /\ Distinct(r) /\ Descending(r, a)
            /\ \A x : On(r, x) <=> On(list, x) /\ x # s
<1> DEFINE c == Position(list, s)
           n == Len(list)
           r == RemoveAt(list, c)
           at(j) == IF j < c THEN j ELSE j + 1
<1>1. n \in Nat /\ c \in 1 .. n /\ list[c] = s  BY PositionFound
<1> HIDE DEF c
<1>2. r \in Seq(Slab) /\ Len(r) = n - 1 /\ \A j \in 1 .. n - 1 : r[j] = IF j < c THEN list[j] ELSE list[j + 1]
  BY <1>1, Removed
<1> HIDE DEF r
<1>3. \A j \in 1 .. n - 1 : at(j) \in 1 .. n /\ at(j) # c /\ r[j] = list[at(j)]
  BY <1>1, <1>2
<1>4. \A i, j \in 1 .. n - 1 : i < j => at(i) < at(j)
  BY <1>1
<1>5. \A i, j \in 1 .. n - 1 : i # j => at(i) # at(j)
  BY <1>1
<1>6. \A m \in 1 .. n : m # c => \E j \in 1 .. n - 1 : at(j) = m
  <2>1. ASSUME NEW m \in 1 .. n, m # c PROVE \E j \in 1 .. n - 1 : at(j) = m
    <3>1. CASE m < c
      <4>1. m \in 1 .. n - 1 /\ at(m) = m  BY <1>1, <2>1, <3>1
      <4> QED  BY <4>1
    <3>2. CASE m > c
      <4>1. m - 1 \in 1 .. n - 1 /\ at(m - 1) = m  BY <1>1, <2>1, <3>2
      <4> QED  BY <4>1
    <3> QED  BY <1>1, <2>1, <3>1, <3>2
  <2> QED  BY <2>1
<1> HIDE DEF at
<1>7. Distinct(r)  BY <1>2, <1>3, <1>5 DEF Distinct
<1>8. Descending(r, a)  BY <1>2, <1>3, <1>4 DEF Descending
<1>9. \A x : On(r, x) => On(list, x) /\ x # s
  <2>1. \A j \in 1 .. n - 1 : r[j] # s  BY <1>1, <1>3 DEF Distinct
  <2>2. \A j \in 1 .. n - 1 : On(list, r[j])  BY <1>3 DEF On
  <2> QED  BY <2>1, <2>2, <1>2 DEF On
<1>10. \A x : On(list, x) /\ x # s => On(r, x)
  <2>1. ASSUME NEW x, NEW m \in 1 .. n, list[m] = x, x # s PROVE On(r, x)
    <3>1. m # c  BY <1>1, <2>1
    <3>2. PICK j \in 1 .. n - 1 : at(j) = m  BY <1>6, <2>1, <3>1
    <3> QED  BY <1>2, <1>3, <2>1, <3>2 DEF On
  <2> QED  BY <2>1 DEF On
<1> QED  BY <1>2, <1>7, <1>8, <1>9, <1>10 DEF r, c

\* CacheGetObjectFromSlab finds a free object with all before it constructed.
LEMMA FreeIndexFits ==
  ASSUME CacheTypeOK, SlabInv, NEW s \in Slab, Taken(Allocated, s) < SlabSize
  PROVE  /\ FreeIndex(s) \in Indices /\ FreeIndex(s) \notin Allocated[s]
         /\ \E k \in 0 .. SlabSize : Constructed[s] \cup {FreeIndex(s)} = 0 .. k - 1
<1> DEFINE free == Indices \ Allocated[s]
           from == IF Cardinality(Allocated[s]) < Cardinality(Constructed[s])
                   THEN 0 ELSE Cardinality(Constructed[s])
           F == {i \in free : i >= from}
<1>0. SlabSize \in Nat \ {0}  BY CacheAssumption
<1>1. PICK k \in 0 .. SlabSize : Constructed[s] = 0 .. k - 1  BY DEF SlabInv
<1>2. Allocated[s] \in SUBSET Indices /\ Constructed[s] \in SUBSET Indices
      /\ Allocated[s] \subseteq Constructed[s]
  BY DEF CacheTypeOK, SlabInv
<1>3. Cardinality(Constructed[s]) = k
  <2>1. CASE k = 0
    <3>1. Constructed[s] = {}  BY <1>1, <2>1
    <3> QED  BY <2>1, <3>1, FS_EmptySet
  <2>2. CASE k # 0
    <3>1. 0 \in Int /\ k - 1 \in Int /\ ~(0 > k - 1) /\ k - 1 - 0 + 1 = k  BY <1>1, <2>2
    <3> QED  BY <1>1, <3>1, FS_Interval
  <2> QED  BY <2>1, <2>2
<1>4. Cardinality(Allocated[s]) \in Nat /\ Cardinality(Allocated[s]) < SlabSize
  BY <1>2, IndexSets DEF Taken
<1>5. F # {} /\ \A m \in F : (\A j \in F : m <= j) => m \in Constructed[s] \/ m = k
  <2>1. CASE Cardinality(Allocated[s]) < k
    <3>1. from = 0  BY <1>3, <2>1
    <3>2. Allocated[s] # Constructed[s]  BY <1>3, <1>4, <2>1, <1>0
    <3>3. PICK x \in Constructed[s] : x \notin Allocated[s]  BY <1>2, <3>2
    <3>4. x \in F /\ x \in 0 .. k - 1  BY <1>0, <1>1, <1>2, <3>1, <3>3 DEF Indices
    <3>5. \A m \in F : m <= x => m \in 0 .. k - 1  BY <1>0, <1>1, <3>4 DEF Indices
    <3> QED  BY <1>1, <3>4, <3>5
  <2>2. CASE ~(Cardinality(Allocated[s]) < k)
    <3>1. from = k  BY <1>3, <2>2
    <3>2. IsFiniteSet(Constructed[s])  BY <1>2, IndexSets
    <3>3. Cardinality(Allocated[s]) <= k /\ (Cardinality(Allocated[s]) = k => Allocated[s] = Constructed[s])
      BY <1>2, <1>3, <3>2, FS_Subset
    <3>4. Allocated[s] = 0 .. k - 1 /\ k < SlabSize  BY <1>0, <1>1, <1>4, <2>2, <3>3
    <3>5. k \in F  BY <1>0, <1>1, <3>1, <3>4 DEF Indices
    <3>6. \A m \in F : m <= k => m = k  BY <1>0, <1>1, <3>1 DEF Indices
    <3> QED  BY <3>5, <3>6
  <2> QED  BY <2>1, <2>2
<1>6. F \in SUBSET Nat  BY <1>0 DEF Indices
<1>7. \E m \in F : \A j \in F : m <= j  BY <1>5, <1>6, LeastNumber
<1>8. \E i \in free : i >= from /\ \A j \in free : j >= from => i <= j  BY <1>7
<1>9. FreeIndex(s) = CHOOSE i \in free : i >= from /\ \A j \in free : j >= from => i <= j
  BY DEF FreeIndex, Indices
<1> HIDE DEF free, from
<1>10. FreeIndex(s) \in F /\ \A j \in F : FreeIndex(s) <= j  BY <1>8, <1>9
<1>11. FreeIndex(s) \in Indices /\ FreeIndex(s) \notin Allocated[s]  BY <1>10 DEF free
<1> HIDE DEF F
<1>12. FreeIndex(s) \in Constructed[s] \/ FreeIndex(s) = k  BY <1>5, <1>10
<1>13. CASE FreeIndex(s) \in Constructed[s]
  <2>1. Constructed[s] \cup {FreeIndex(s)} = 0 .. k - 1  BY <1>1, <1>13
  <2> QED  BY <2>1, <1>11
<1>14. CASE FreeIndex(s) = k
  <2>1. k + 1 \in 0 .. SlabSize /\ 0 .. (k + 1) - 1 = (0 .. k - 1) \cup {k}
    BY <1>0, <1>1, <1>11, <1>14 DEF Indices
  <2> QED  BY <2>1, <1>1, <1>11, <1>14
<1> QED  BY <1>12, <1>13, <1>14

\* An object is taken from the slab at the cursor, which steps on if that is full now.
LEMMA TakesFrom ==
  ASSUME NEW list \in Seq(Slab), NEW a \in Masks, NEW s \in Slab, Distinct(list), Descending(list, a),
         CursorAt(list, a, s), NEW i \in Indices, i \notin a[s]
  PROVE  LET b == [a EXCEPT ![s] = @ \cup {i}]
             c == IF Full(b, s) THEN Flink(list, s) ELSE s
         IN b \in Masks /\ Descending(list, b) /\ CursorAt(list, b, c) /\ c \in Slab \cup {"head"}
<1> DEFINE b == [a EXCEPT ![s] = @ \cup {i}]
           c == IF Full(b, s) THEN Flink(list, s) ELSE s
           n == Len(list)
<1>1. n \in Nat /\ SlabSize \in Nat \ {0} /\ s # "head" /\ \A j \in 1 .. n : list[j] \in Slab
  BY CacheAssumption
<1>2. PICK m \in 1 .. n : /\ s = list[m] /\ Taken(a, list[m]) < SlabSize
                          /\ \A j \in 1 .. m - 1 : Taken(a, list[j]) = SlabSize
  BY <1>1, CursorFound
<1>3. \A j \in 1 .. n : j # m => list[j] # s  BY <1>2 DEF Distinct
<1>4. a[s] \in SUBSET Indices /\ b[s] = a[s] \cup {i} /\ b \in Masks  BY DEF Masks
<1>5. Taken(b, s) = Taken(a, s) + 1  BY <1>4, IndexSets DEF Taken
<1>6. \A x \in Slab : x # s => Taken(b, x) = Taken(a, x)  BY DEF Taken, Masks
<1>7. \A x \in Slab : Taken(a, x) \in 0 .. SlabSize /\ Taken(b, x) \in 0 .. SlabSize
  BY <1>4, TakenBound
<1> HIDE DEF b
<1>8. \A j \in 1 .. n : j # m => Taken(b, list[j]) = Taken(a, list[j])  BY <1>1, <1>3, <1>6
<1>9. \A j \in 1 .. n : Taken(a, list[j]) \in 0 .. SlabSize /\ Taken(b, list[j]) \in 0 .. SlabSize
  BY <1>1, <1>7
<1>10. Descending(list, b)
  <2>1. ASSUME NEW x \in 1 .. n, NEW y \in 1 .. n, x < y PROVE Taken(b, list[x]) >= Taken(b, list[y])
    <3>1. Taken(a, list[x]) >= Taken(a, list[y])  BY <2>1 DEF Descending
    <3>2. CASE y = m
      <4>1. x \in 1 .. m - 1 /\ x # m  BY <1>1, <2>1, <3>2
      <4>2. Taken(b, list[x]) = SlabSize  BY <4>1, <1>2, <1>8
      <4> QED  BY <4>2, <1>1, <1>9
    <3>3. CASE y # m
      <4>1. Taken(b, list[y]) = Taken(a, list[y])  BY <1>8, <3>3
      <4>2. Taken(b, list[x]) = Taken(a, list[x]) \/ Taken(b, list[x]) = Taken(a, list[x]) + 1
        BY <1>2, <1>5, <1>8
      <4> QED  BY <3>1, <4>1, <4>2, <1>9
    <3> QED  BY <3>2, <3>3
  <2> QED  BY <2>1 DEF Descending
<1>11. CursorAt(list, b, c) /\ c \in Slab \cup {"head"}
  <2>1. CASE Taken(b, s) # SlabSize
    <3>1. c = s  BY <2>1, FullTaken
    <3>2. Taken(b, list[m]) < SlabSize  BY <1>1, <1>2, <1>9, <2>1
    <3>3. \A x \in 1 .. n : Taken(b, list[x]) < SlabSize /\ (\A j \in 1 .. x - 1 : Taken(b, list[j]) = SlabSize)
                              => x = m
      <4>1. ASSUME NEW x \in 1 .. n, Taken(b, list[x]) < SlabSize,
                   \A j \in 1 .. x - 1 : Taken(b, list[j]) = SlabSize
            PROVE x = m
        <5>1. ~(m < x)
          <6>1. ASSUME m < x PROVE FALSE
            <7>1. m \in 1 .. x - 1  BY <1>1, <6>1
            <7> QED  BY <7>1, <4>1, <3>2, <1>1
          <6> QED  BY <6>1
        <5>2. ~(x < m)
          <6>1. ASSUME x < m PROVE FALSE
            <7>1. x \in 1 .. m - 1 /\ x # m  BY <1>1, <6>1
            <7> QED  BY <7>1, <4>1, <1>1, <1>2, <1>8
          <6> QED  BY <6>1
        <5> QED  BY <5>1, <5>2, <1>1
      <4> QED  BY <4>1
    <3>4. ~\A x \in 1 .. n : Taken(b, list[x]) = SlabSize  BY <1>1, <3>2
    <3> HIDE DEF c
    <3> QED  BY <1>2, <3>1, <3>3, <3>4 DEF CursorAt
  <2>2. CASE Taken(b, s) = SlabSize
    <3>1. c = Flink(list, s)  BY <2>2, FullTaken
    <3>2. Position(list, s) = m
      <4>1. On(list, s)  BY <1>2 DEF On
      <4>2. Position(list, s) \in 1 .. n /\ list[Position(list, s)] = s  BY <4>1, PositionFound
      <4> QED  BY <4>2, <1>3
    <3>3. c = IF m = n THEN "head" ELSE list[m + 1]  BY <3>1, <3>2 DEF Flink
    <3>4. \A j \in 1 .. m : Taken(b, list[j]) = SlabSize
      <4>1. ASSUME NEW j \in 1 .. m PROVE Taken(b, list[j]) = SlabSize
        <5>1. CASE j = m  BY <5>1, <2>2, <1>2
        <5>2. CASE j # m
          <6>1. j \in 1 .. m - 1 /\ j \in 1 .. n  BY <1>1, <4>1, <5>2
          <6> QED  BY <6>1, <5>2, <1>2, <1>8
        <5> QED  BY <5>1, <5>2
      <4> QED  BY <4>1
    <3>5. \A j \in m + 1 .. n : Taken(b, list[j]) < SlabSize
      <4>1. ASSUME NEW j \in m + 1 .. n PROVE Taken(b, list[j]) < SlabSize
        <5>1. j \in 1 .. n /\ m < j /\ j # m  BY <1>1, <4>1
        <5>2. Taken(a, list[m]) >= Taken(a, list[j])  BY <5>1 DEF Descending
        <5> QED  BY <5>1, <5>2, <1>1, <1>2, <1>8, <1>9
      <4> QED  BY <4>1
    <3>6. \A x \in 1 .. n : Taken(b, list[x]) < SlabSize /\ (\A j \in 1 .. x - 1 : Taken(b, list[j]) = SlabSize)
                              => m # n /\ x = m + 1
      <4>1. ASSUME NEW x \in 1 .. n, Taken(b, list[x]) < SlabSize,
                   \A j \in 1 .. x - 1 : Taken(b, list[j]) = SlabSize
            PROVE m # n /\ x = m + 1
        <5>1. x \notin 1 .. m  BY <4>1, <3>4, <1>1
        <5>2. ~(m + 1 < x)
          <6>1. ASSUME m + 1 < x PROVE FALSE
            <7>1. m + 1 \in 1 .. x - 1 /\ m + 1 \in m + 1 .. n  BY <1>1, <6>1
            <7> QED  BY <7>1, <4>1, <3>5, <1>1
          <6> QED  BY <6>1
        <5> QED  BY <5>1, <5>2, <1>1
      <4> QED  BY <4>1
    <3>7. m # n => ~\A x \in 1 .. n : Taken(b, list[x]) = SlabSize
      <4>1. m # n => m + 1 \in 1 .. n /\ m + 1 \in m + 1 .. n  BY <1>1
      <4> QED  BY <4>1, <3>5, <1>1
    <3>8. m # n => m + 1 \in 1 .. n /\ list[m + 1] \in Slab  BY <1>1
    <3> HIDE DEF c
    <3> QED  BY <3>3, <3>6, <3>7, <3>8 DEF CursorAt
  <2> QED  BY <2>1, <2>2
<1> HIDE DEF c
<1> QED  BY <1>4, <1>10, <1>11 DEF b, c
-----------------------------------------------------------------------------
(* The slabs across a step.                                                *)

SlabsKept ==
  /\ SlabList' \in Seq(Slab) /\ Cursor' \in Slab \cup {"head"}
  /\ Constructed' \in Masks /\ Allocated' \in Masks
  /\ Distinct(SlabList)' /\ SlabInv'

OrderKept ==
  /\ Descending(SlabList, Allocated)' /\ CursorAt(SlabList, Allocated, Cursor)'
  /\ Reservation <= Count' /\ Count' <= Cap

\* OnList as the lemmas on lists say it.
LEMMA Linked == ASSUME CacheTypeOK, NEW s PROVE s \in OnList <=> On(SlabList, s)
<1>1. DOMAIN SlabList = 1 .. Len(SlabList)  BY DEF CacheTypeOK
<1> QED  BY <1>1 DEF OnList, On

\* As many slabs as their objects make.
LEMMA WholeSlabs ==
  ASSUME NEW b \in Nat \ {0}, NEW n \in Nat PROVE (b * n) \div b = n
<1> DEFINE q == (b * n) \div b
<1>1. b * n \in Nat  OBVIOUS
<1>2. q \in Nat /\ b * q <= b * n /\ b * n < (b * q) + b
  <2>1. \A x \in Nat : x \div b \in Nat /\ b * (x \div b) <= x /\ x < (b * (x \div b)) + b
    OBVIOUS
  <2> QED  BY <1>1, <2>1
<1> HIDE DEF q
<1>3. ~(q < n)
  <2>1. ASSUME q < n PROVE FALSE
    <3>1. n - (q + 1) \in Nat  BY <1>2, <2>1
    <3>2. b * (n - (q + 1)) \in Nat  BY <3>1
    <3>3. b * (n - (q + 1)) = (b * n) - ((b * q) + b)  BY <1>2
    <3> QED  BY <1>1, <1>2, <3>2, <3>3
  <2> QED  BY <2>1
<1>4. ~(q > n)
  <2>1. ASSUME q > n PROVE FALSE
    <3>1. q - (n + 1) \in Nat  BY <1>2, <2>1
    <3>2. b * (q - (n + 1)) \in Nat  BY <3>1
    <3>3. b * (q - (n + 1)) = (b * q) - ((b * n) + b)  BY <1>2
    <3>4. b * q \in Nat  BY <1>2
    <3> QED  BY <1>1, <1>2, <3>2, <3>3, <3>4
  <2> QED  BY <2>1
<1> QED  BY <1>2, <1>3, <1>4 DEF q

\* The numbers of slabs and of objects are numbers.
LEMMA Counts == CacheTypeOK => /\ Len(SlabList) \in Nat /\ Count \in Nat
                               /\ \A n \in Nat : SlabSize * n \in Nat
BY CacheAssumption DEF CacheTypeOK, Count

\* CacheSpill takes empty slabs, and no more than the target allows.
LEMMA SpillTakes ==
  ASSUME CacheTypeOK, NEW target \in Nat
  PROVE  /\ Spillable(target) \in 0 .. Len(SlabList)
         /\ \A i \in (Len(SlabList) - Spillable(target)) + 1 .. Len(SlabList) : Allocated[SlabList[i]] = {}
         /\ Count >= target => SlabSize * (Len(SlabList) - Spillable(target)) >= target
         /\ target = 0 /\ (\A s \in Slab : Allocated[s] = {}) => Spillable(target) = Len(SlabList)
<1> DEFINE n == Len(SlabList)
           E == {i \in 1 .. n : \A j \in i .. n : Allocated[SlabList[j]] = {}}
           e == Cardinality(E)
           d == (Count - target) \div SlabSize
           k == Spillable(target)
<1>1. n \in Nat /\ Count \in Nat /\ SlabSize \in Nat \ {0} /\ DOMAIN SlabList = 1 .. n
      /\ \A i \in 1 .. n : SlabList[i] \in Slab
  BY Counts, CacheAssumption DEF CacheTypeOK
<1>2. e \in 0 .. n /\ E = (n - e) + 1 .. n
  <2>1. E \in SUBSET (1 .. n) /\ \A i \in E : \A j \in i .. n : j \in E
    <3>1. ASSUME NEW i \in E, NEW j \in i .. n PROVE j \in E
      <4>1. i \in 1 .. n /\ j \in 1 .. n /\ \A m \in j .. n : m \in i .. n  BY <1>1, <3>1
      <4> QED  BY <3>1, <4>1
    <3> QED  BY <3>1
  <2> HIDE DEF E
  <2> QED  BY <1>1, <2>1, Suffix
<1>3. k = IF Count <= target THEN 0 ELSE IF e < d THEN e ELSE d
  <2>1. E = {i \in DOMAIN SlabList : \A j \in i .. Len(SlabList) : Allocated[SlabList[j]] = {}}
    BY <1>1
  <2> HIDE DEF E
  <2> QED  BY <2>1 DEF Spillable, Smaller
<1>4. \A i \in (n - e) + 1 .. n : Allocated[SlabList[i]] = {}
  <2>1. \A i \in E : Allocated[SlabList[i]] = {}
    <3>1. ASSUME NEW i \in E PROVE Allocated[SlabList[i]] = {}
      <4>1. i \in i .. n  BY <1>1, <3>1
      <4> QED  BY <3>1, <4>1
    <3> QED  BY <3>1
  <2> QED  BY <1>2, <2>1
<1>5. (\A s \in Slab : Allocated[s] = {}) => e = n
  <2>1. ASSUME \A s \in Slab : Allocated[s] = {} PROVE e = n
    <3>1. E = 1 .. n  BY <1>1, <2>1
    <3> HIDE DEF E
    <3> QED  BY <1>1, <3>1, Upto
  <2> QED  BY <2>1
<1> HIDE DEF E, e
<1>6. Count > target => d \in Nat /\ SlabSize * d <= Count - target
  BY <1>1
<1>7. target = 0 => d = (SlabSize * n) \div SlabSize  BY <1>1 DEF Count
<1> HIDE DEF d
<1>8. target = 0 => d = n
  <2>1. (SlabSize * n) \div SlabSize = n  BY <1>1, WholeSlabs
  <2> QED  BY <2>1, <1>7, ZenonT(60)
<1>9. k \in 0 .. n /\ k <= e
  BY <1>1, <1>2, <1>3, <1>6
<1>10. \A i \in (n - k) + 1 .. n : Allocated[SlabList[i]] = {}
  <2>1. \A i \in (n - k) + 1 .. n : i \in (n - e) + 1 .. n  BY <1>1, <1>2, <1>9
  <2> QED  BY <1>4, <2>1
<1>11. Count >= target => SlabSize * (n - k) >= target
  <2>1. CASE Count <= target
    <3>1. k = 0 /\ n - k = n  BY <1>1, <1>3, <2>1
    <3> QED  BY <3>1 DEF Count
  <2>2. CASE Count > target
    <3>1. k <= d  BY <1>1, <1>2, <1>3, <1>6, <2>2
    <3>2. SlabSize * k <= SlabSize * d  BY <1>1, <1>6, <1>9, <2>2, <3>1
    <3>3. SlabSize * (n - k) = (SlabSize * n) - (SlabSize * k)  BY <1>1, <1>9
    <3>4. SlabSize * k \in Nat /\ SlabSize * d \in Nat  BY <1>1, <1>6, <1>9, <2>2
    <3> HIDE DEF k
    <3> QED  BY <1>1, <1>6, <2>2, <3>2, <3>3, <3>4 DEF Count
  <2> QED  BY <1>1, <2>1, <2>2
<1>12. target = 0 /\ (\A s \in Slab : Allocated[s] = {}) => k = n
  <2>1. Count = 0 => n = 0  BY <1>1 DEF Count
  <2> QED  BY <1>1, <1>3, <1>5, <1>8, <2>1
<1> QED  BY <1>9, <1>10, <1>11, <1>12

\* CacheSpill: only empty slabs go, from the end, so the order and the cursor stand.
LEMMA SpillKeeps ==
  ASSUME CacheTypeOK, Distinct(SlabList), SlabInv, NEW target \in Nat, CacheSpill(target)
  PROVE  /\ SlabsKept /\ Allocated' = Allocated
         /\ /\ Descending(SlabList, Allocated) /\ CursorAt(SlabList, Allocated, Cursor)
            /\ target >= Reservation /\ Reservation <= Count /\ Count <= Cap
            => OrderKept
         /\ target = 0 /\ (\A s \in Slab : Allocated[s] = {}) => SlabList' = <<>>
<1> DEFINE m == Len(SlabList)
           k == Spillable(target)
           n == m - k
           gone == {SlabList[i] : i \in n + 1 .. m}
<1>1. m \in Nat /\ Count \in Nat /\ SlabSize \in Nat \ {0} /\ SlabList \in Seq(Slab)
      /\ (\A i \in 1 .. m : SlabList[i] \in Slab) /\ Cap \in Nat /\ Reservation \in Nat
  BY Counts, CacheAssumption DEF CacheTypeOK
<1>2. k \in 0 .. m /\ (\A i \in n + 1 .. m : Allocated[SlabList[i]] = {})
      /\ (Count >= target => SlabSize * n >= target)
      /\ (target = 0 /\ (\A s \in Slab : Allocated[s] = {}) => k = m)
  BY SpillTakes
<1>3. /\ SlabList' = SubSeq(SlabList, 1, n)
      /\ Cursor' = IF Cursor \in gone THEN "head" ELSE Cursor
      /\ Constructed' = [s \in Slab |-> IF s \in gone THEN {} ELSE Constructed[s]]
      /\ Allocated' = [s \in Slab |-> IF s \in gone THEN {} ELSE Allocated[s]]
  BY DEF CacheSpill
<1> HIDE DEF k
<1>4. n \in 0 .. m  BY <1>1, <1>2
<1>4a. \A i \in n + 1 .. m : Allocated[SlabList[i]] = {}  BY <1>2
<1> HIDE DEF n
<1>5. /\ SlabList' \in Seq(Slab) /\ Len(SlabList') = n
      /\ \A i \in 1 .. n : i \in 1 .. m /\ SlabList'[i] = SlabList[i]
  BY <1>1, <1>3, <1>4
<1>6. \A s \in gone : s \in Slab /\ Allocated[s] = {}
  <2>1. \A i \in n + 1 .. m : i \in 1 .. m  BY <1>1, <1>4
  <2>2. \A i \in n + 1 .. m : SlabList[i] \in Slab  BY <1>1, <2>1
  <2> QED  BY <1>4a, <2>2
<1>7. Allocated' = Allocated  BY <1>3, <1>6 DEF CacheTypeOK
<1>8. Constructed' \in Masks /\ Allocated' \in Masks /\ Cursor' \in Slab \cup {"head"}
  BY <1>3, <1>7 DEF CacheTypeOK, Masks
<1>9. \A i, j \in 1 .. n : i # j => SlabList'[i] # SlabList'[j]  BY <1>5 DEF Distinct
<1>10. \A s \in Slab : On(SlabList, s) => On(SlabList', s) \/ s \in gone
  <2>1. \A i \in 1 .. m : i \in 1 .. n \/ i \in n + 1 .. m  BY <1>1, <1>4
  <2> QED  BY <2>1, <1>5 DEF On
<1>11. SlabInv'
  <2>1. DOMAIN SlabList' = 1 .. Len(SlabList')  BY <1>5
  <2>2. \A s \in Slab : s \notin OnList' => ~On(SlabList', s)  BY <2>1 DEF OnList, On
  <2>3. \A s \in Slab : s \notin OnList' => Constructed'[s] = {}
    <3>1. \A s \in Slab : ~On(SlabList, s) => Constructed[s] = {}  BY Linked DEF SlabInv
    <3> HIDE DEF gone
    <3> QED  BY <2>2, <3>1, <1>3, <1>10
  <2>4. 0 \in 0 .. SlabSize /\ {} = 0 .. 0 - 1  BY <1>1
  <2>5. \A s \in Slab : Allocated'[s] \subseteq Constructed'[s]  BY <1>3, <1>6, <1>7 DEF SlabInv
  <2>6. \A s \in Slab : \E j \in 0 .. SlabSize : Constructed'[s] = 0 .. j - 1
    <3> HIDE DEF gone
    <3>1. \A s \in Slab : Constructed'[s] = Constructed[s] \/ Constructed'[s] = {}  BY <1>3
    <3> QED  BY <2>4, <3>1 DEF SlabInv
  <2> QED  BY <2>3, <2>5, <2>6 DEF SlabInv
<1>12. SlabsKept  BY <1>5, <1>8, <1>9, <1>11 DEF SlabsKept, Distinct
<1>13. ASSUME Descending(SlabList, Allocated), CursorAt(SlabList, Allocated, Cursor),
              target >= Reservation, Reservation <= Count, Count <= Cap
       PROVE  OrderKept
  <2>1. Descending(SlabList', Allocated)  BY <1>5, <1>13 DEF Descending
  <2>2. CursorAt(SlabList', Allocated, Cursor')
    <3>0. Allocated \in Masks  BY DEF CacheTypeOK, Masks
    <3>1. CASE Cursor = "head" /\ \A i \in 1 .. m : Taken(Allocated, SlabList[i]) = SlabSize
      <4>1. Cursor \notin gone  BY <1>6, <3>1, CacheAssumption
      <4>2. Cursor' = "head"  BY <1>3, <3>1, <4>1
      <4>3. \A i \in 1 .. n : Taken(Allocated, SlabList'[i]) = SlabSize  BY <1>5, <3>1
      <4> QED  BY <1>1, <1>5, <4>2, <4>3 DEF CursorAt
    <3>2. ASSUME NEW c \in 1 .. m, Cursor = SlabList[c], Taken(Allocated, SlabList[c]) < SlabSize,
                 \A j \in 1 .. c - 1 : Taken(Allocated, SlabList[j]) = SlabSize
          PROVE  CursorAt(SlabList', Allocated, Cursor')
      <4>1. CASE c \in 1 .. n
        <5>1. Cursor \notin gone
          <6>1. ASSUME NEW i \in n + 1 .. m, SlabList[i] = Cursor PROVE FALSE
            <7>1. i \in 1 .. m /\ i # c  BY <1>1, <1>4, <4>1
            <7> QED  BY <3>2, <6>1, <7>1 DEF Distinct
          <6> QED  BY <6>1
        <5>2. Cursor' = Cursor  BY <1>3, <5>1
        <5>3. \A x \in 1 .. n : (\A j \in 1 .. x - 1 : Taken(Allocated, SlabList'[j]) = SlabSize)
                                /\ Taken(Allocated, SlabList'[x]) < SlabSize => Cursor' = SlabList'[x]
          <6>1. ASSUME NEW x \in 1 .. n, \A j \in 1 .. x - 1 : Taken(Allocated, SlabList'[j]) = SlabSize,
                       Taken(Allocated, SlabList'[x]) < SlabSize
                PROVE  Cursor' = SlabList'[x]
            <7>1. x \in 1 .. m /\ SlabList'[x] = SlabList[x]  BY <1>5
            <7>2. \A j \in 1 .. x - 1 : Taken(Allocated, SlabList[j]) = SlabSize
              <8>1. \A j \in 1 .. x - 1 : j \in 1 .. n  BY <1>1, <1>4
              <8> QED  BY <8>1, <1>5, <6>1
            <7> QED  BY <1>13, <5>2, <6>1, <7>1, <7>2 DEF CursorAt
          <6> QED  BY <6>1
        <5>4. Taken(Allocated, SlabList'[c]) # SlabSize  BY <1>1, <1>5, <3>2, <4>1
        <5> QED  BY <1>5, <4>1, <5>3, <5>4 DEF CursorAt
      <4>2. CASE c \notin 1 .. n
        <5>1. c \in n + 1 .. m  BY <1>1, <1>4, <4>2
        <5>2. Cursor \in gone  BY <3>2, <5>1
        <5>3. Cursor' = "head"  BY <1>3, <5>2
        <5>4. \A i \in 1 .. n : i \in 1 .. c - 1  BY <1>1, <1>4, <5>1
        <5>5. \A i \in 1 .. n : Taken(Allocated, SlabList'[i]) = SlabSize  BY <1>5, <3>2, <5>4
        <5> QED  BY <1>1, <1>5, <5>3, <5>5 DEF CursorAt
      <4> QED  BY <4>1, <4>2
    <3> HIDE DEF gone
    <3> QED  BY <1>1, <1>13, <3>0, <3>1, <3>2, CursorFound
  <2>3. Count' = SlabSize * n  BY <1>5 DEF Count
  <2>4. SlabSize * n >= Reservation \/ n = m
    <3>1. CASE Count >= target
      <4>1. SlabSize * n >= target  BY <3>1, <1>2 DEF n
      <4>2. SlabSize * n \in Nat  BY <1>1, <1>4
      <4> QED  BY <4>1, <4>2, <1>1, <1>13
    <3>2. CASE Count < target
      <4>1. k = 0  BY <3>2, <1>1 DEF k, Spillable
      <4> QED  BY <4>1, <1>1 DEF n
    <3> QED  BY <3>1, <3>2, <1>1
  <2>5. Reservation <= SlabSize * n /\ SlabSize * n <= Cap
    <3>1. SlabSize * n <= SlabSize * m  BY <1>1, <1>4
    <3>2. SlabSize * n \in Nat /\ SlabSize * m \in Nat /\ Count = SlabSize * m
      BY <1>1, <1>4 DEF Count
    <3> QED  BY <2>4, <3>1, <3>2, <1>1, <1>13
  <2> QED  BY <2>1, <2>2, <2>3, <2>5, <1>7 DEF OrderKept
<1>14. ASSUME target = 0, \A s \in Slab : Allocated[s] = {} PROVE SlabList' = <<>>
  <2>1. n = 0  BY <1>1, <1>2, <1>14 DEF n
  <2> QED  BY <2>1, <1>5
<1> QED  BY <1>7, <1>12, <1>13, <1>14

\* CacheGetObjectFromSlab takes an object that is free, or nothing when the
\* constructor fails; CacheGet may have put a new slab on the list before.
Took(p) ==
  \E s \in Slab : \E i \in Indices :
    /\ i \notin Allocated[s] /\ Allocated' = [Allocated EXCEPT ![s] = @ \cup {i}]
    /\ object' = [object EXCEPT ![p] = <<s, i>>] /\ cachePc' = [cachePc EXCEPT ![p] = "got"]

TookNone(p) ==
  Allocated' = Allocated /\ object' = object /\ cachePc' = [cachePc EXCEPT ![p] = "idle"]

\* CacheGetObjectFromSlab at the cursor keeps the slabs in order.
LEMMA GetsObject ==
  ASSUME CacheTypeOK, SlabInv, NEW p \in CacheCpu, NEW list \in Seq(Slab), NEW s \in Slab, On(list, s),
         Distinct(list), Descending(list, Allocated), CursorAt(list, Allocated, s),
         \A x : On(list, x) <=> x = s \/ On(SlabList, x),
         Reservation <= SlabSize * Len(list), SlabSize * Len(list) <= Cap,
         CacheGetObjectFromSlab(p, s, list)
  PROVE  SlabsKept /\ OrderKept /\ (Took(p) \/ TookNone(p))
<1> DEFINE i == FreeIndex(s)
           b == [Allocated EXCEPT ![s] = @ \cup {i}]
<1>0. Allocated \in Masks /\ Constructed \in Masks  BY DEF CacheTypeOK, Masks
<1>1. SlabSize \in Nat \ {0} /\ s # "head"  BY CacheAssumption
<1>2. Taken(Allocated, s) < SlabSize
  <2>1. \E j \in 1 .. Len(list) : s = list[j] /\ Taken(Allocated, list[j]) < SlabSize
    BY <1>0, <1>1, CursorFound
  <2> QED  BY <2>1
<1>3. i \in Indices /\ i \notin Allocated[s]
      /\ \E k \in 0 .. SlabSize : Constructed[s] \cup {i} = 0 .. k - 1
  BY <1>2, FreeIndexFits
<1> HIDE DEF i
<1>4. SlabList' = list /\ Count' = SlabSize * Len(list)  BY DEF CacheGetObjectFromSlab, Count
<1>5. DOMAIN SlabList' = 1 .. Len(SlabList')  BY <1>4
<1>6. \A x \in Slab : x \notin OnList' => Constructed[x] = {} /\ x # s
  <2>1. \A x \in Slab : x \notin OnList' => ~On(list, x)  BY <1>4, <1>5 DEF OnList, On
  <2>2. \A x \in Slab : ~On(SlabList, x) => Constructed[x] = {}  BY Linked DEF SlabInv
  <2> QED  BY <2>1, <2>2
<1>7. CASE /\ Allocated' = b
           /\ Constructed' = [Constructed EXCEPT ![s] = @ \cup {i}]
           /\ Cursor' = IF Full(b, s) THEN Flink(list, s) ELSE s
           /\ object' = [object EXCEPT ![p] = <<s, i>>]
           /\ cachePc' = [cachePc EXCEPT ![p] = "got"]
  <2>1. /\ b \in Masks /\ Descending(list, b)
        /\ CursorAt(list, b, Cursor') /\ Cursor' \in Slab \cup {"head"}
    BY <1>0, <1>3, <1>7, TakesFrom
  <2>2. SlabInv'
    <3>1. \A x \in Slab : x # s => Constructed'[x] = Constructed[x] /\ Allocated'[x] = Allocated[x]
      BY <1>0, <1>7 DEF Masks
    <3>2. Constructed'[s] = Constructed[s] \cup {i} /\ Allocated'[s] = Allocated[s] \cup {i}
      BY <1>0, <1>7 DEF Masks
    <3> HIDE DEF b
    <3> QED  BY <1>3, <1>6, <3>1, <3>2 DEF SlabInv
  <2>3. Constructed' \in Masks  BY <1>0, <1>3, <1>7 DEF Masks
  <2>4. Took(p)  BY <1>3, <1>7 DEF Took
  <2> HIDE DEF b
  <2>5. SlabsKept  BY <1>4, <1>7, <2>1, <2>2, <2>3 DEF SlabsKept, Distinct
  <2>6. OrderKept  BY <1>4, <1>7, <2>1 DEF OrderKept
  <2> QED  BY <2>4, <2>5, <2>6
<1>8. CASE /\ cachePc' = [cachePc EXCEPT ![p] = "idle"]
           /\ Cursor' = s /\ UNCHANGED <<Allocated, Constructed, object>>
  <2>1. SlabInv'  BY <1>6, <1>8 DEF SlabInv
  <2>2. SlabsKept  BY <1>0, <1>4, <1>8, <2>1 DEF SlabsKept, Distinct
  <2>3. OrderKept  BY <1>4, <1>8 DEF OrderKept
  <2>4. TookNone(p)  BY <1>8 DEF TookNone
  <2> QED  BY <2>2, <2>3, <2>4
<1> QED  BY <1>7, <1>8 DEF CacheGetObjectFromSlab, i

\* CachePut under the lock: the object is out, so its slab is on the list; taken
\* off and inserted anew, with one object less, it keeps the order.
LEMMA LockedPut ==
  ASSUME CacheIInv, NEW p \in CacheCpu, CachePutLocked(p)
  PROVE  SlabsKept /\ OrderKept
<1> DEFINE s == object[p][1]
           i == object[p][2]
           b == [Allocated EXCEPT ![s] = @ \ {i}]
           r == RemoveAt(SlabList, Position(SlabList, s))
           new == CacheInsertSlab(r, b, s)
<1>1. cachePc[p] = "put" /\ object[p] \in Objects  BY DEF CachePutLocked, CacheIInv, CacheTypeOK
<1>2. s \in Slab /\ i \in Indices  BY <1>1 DEF Objects, Indices
<1>3. i \in Allocated[s] /\ Allocated[s] \subseteq Constructed[s]
  <2>1. Out(p) = {object[p]}  BY <1>1 DEF Out
  <2>2. Holds(p, object[p])  BY <2>1 DEF Holds
  <2>3. object[p][2] \in Allocated[object[p][1]]  BY <1>1, <2>2 DEF CacheIInv, PlaceInv
  <2> QED  BY <1>2, <2>3 DEF CacheIInv, SlabInv
<1>4. Distinct(SlabList) /\ CacheTypeOK /\ SlabList \in Seq(Slab) /\ Allocated \in Masks /\ Constructed \in Masks
  BY DEF CacheIInv, CacheTypeOK, Masks
<1>5. On(SlabList, s)
  <2>1. s \in OnList  BY <1>2, <1>3 DEF CacheIInv, SlabInv
  <2> QED  BY <1>4, <2>1, Linked
<1>6. Descending(SlabList, Allocated) /\ Reservation <= Count /\ Count <= Cap
  <2>1. life = "live"  BY <1>1 DEF CacheIInv, LifeInv
  <2> QED  BY <2>1 DEF CacheIInv, OrderInv
<1>7. /\ Allocated' = b /\ SlabList' = new.list /\ Cursor' = new.cursor /\ Constructed' = Constructed
  BY DEF CachePutLocked
<1> HIDE DEF s, i
<1>8. /\ r \in Seq(Slab) /\ Len(r) = Len(SlabList) - 1 /\ Distinct(r) /\ Descending(r, Allocated)
      /\ \A x : On(r, x) <=> On(SlabList, x) /\ x # s
  BY <1>4, <1>5, <1>6, RemovesSlab
<1> HIDE DEF r
<1>9. /\ b \in Masks /\ b[s] = Allocated[s] \ {i} /\ \A x \in Slab : x # s => b[x] = Allocated[x]
  BY <1>2, <1>4 DEF Masks
<1> HIDE DEF b
<1>10. Taken(b, s) < SlabSize
  <2>1. Allocated[s] \in SUBSET Indices  BY <1>2, <1>4 DEF Masks
  <2>2. Cardinality(Allocated[s] \ {i}) = Cardinality(Allocated[s]) - 1
    BY <1>3, <2>1, IndexSets
  <2>3. Cardinality(Allocated[s]) \in Nat /\ Cardinality(Allocated[s]) <= SlabSize
    BY <2>1, IndexSets
  <2> QED  BY <1>9, <2>2, <2>3, CacheAssumption DEF Taken
<1>11. Descending(r, b)
  <2>1. \A j \in 1 .. Len(r) : r[j] \in Slab /\ r[j] # s
    <3>1. ASSUME NEW j \in 1 .. Len(r) PROVE r[j] \in Slab /\ r[j] # s
      <4>1. On(r, r[j])  BY DEF On
      <4>2. r[j] # s  BY <4>1, <1>8
      <4> QED  BY <4>2, <1>8
    <3> QED  BY <3>1
  <2>2. \A j \in 1 .. Len(r) : Taken(b, r[j]) = Taken(Allocated, r[j])  BY <2>1, <1>9 DEF Taken
  <2>3. \A j, k \in 1 .. Len(r) : j < k => Taken(Allocated, r[j]) >= Taken(Allocated, r[k])
    BY <1>8 DEF Descending
  <2>4. \A j, k \in 1 .. Len(r) : j < k => Taken(b, r[j]) >= Taken(b, r[k])
    BY <2>2, <2>3
  <2> QED  BY <2>4 DEF Descending
<1>12. ~On(r, s)  BY <1>8
<1>13. /\ new.list \in Seq(Slab) /\ Len(new.list) = Len(r) + 1 /\ Distinct(new.list)
       /\ Descending(new.list, b) /\ CursorAt(new.list, b, new.cursor) /\ new.cursor \in Slab
       /\ \A x : On(new.list, x) <=> x = s \/ On(r, x)
  BY <1>2, <1>8, <1>9, <1>10, <1>11, <1>12, InsertsSlab
<1> HIDE DEF new
<1>14. Len(SlabList') = Len(SlabList) /\ Count' = Count
  <2>1. Len(SlabList') = Len(SlabList)  BY <1>4, <1>7, <1>8, <1>13
  <2> QED  BY <2>1 DEF Count
<1>15. SlabInv'
  <2>1. DOMAIN SlabList' = 1 .. Len(SlabList')  BY <1>7, <1>13
  <2>2. \A x : On(SlabList', x) <=> On(SlabList, x)  BY <1>5, <1>7, <1>8, <1>13
  <2>3. \A x \in Slab : x \notin OnList' => ~On(SlabList, x)  BY <2>1, <2>2 DEF OnList, On
  <2>4. \A x \in Slab : x \notin OnList' => Constructed'[x] = {}
    BY <2>3, <1>4, <1>7, Linked DEF CacheIInv, SlabInv
  <2>5. \A x \in Slab : Allocated'[x] \subseteq Constructed'[x]
    <3>1. \A x \in Slab : b[x] \subseteq Allocated[x]  BY <1>9
    <3> QED  BY <3>1, <1>7 DEF CacheIInv, SlabInv
  <2> QED  BY <2>4, <2>5, <1>7 DEF CacheIInv, SlabInv
<1>16. SlabsKept  BY <1>4, <1>7, <1>9, <1>13, <1>15 DEF SlabsKept
<1>17. OrderKept  BY <1>6, <1>7, <1>13, <1>14 DEF OrderKept
<1> QED  BY <1>16, <1>17

\* CacheGet under the lock: the cursor is a slab of the list with room, or every
\* slab is full and the new one, being empty, becomes the cursor.
LEMMA LockedGet ==
  ASSUME CacheIInv, NEW p \in CacheCpu, CacheGetLocked(p)
  PROVE  SlabsKept /\ OrderKept /\ (Took(p) \/ TookNone(p))
<1>1. CacheTypeOK /\ SlabInv /\ Distinct(SlabList) /\ SlabList \in Seq(Slab) /\ Allocated \in Masks
      /\ Constructed \in Masks /\ Cursor \in Slab \cup {"head"}
  BY DEF CacheIInv, CacheTypeOK, Masks
<1>2. life = "live"  BY DEF CacheGetLocked, CacheIInv, LifeInv
<1>3. Descending(SlabList, Allocated) /\ CursorAt(SlabList, Allocated, Cursor)
      /\ Reservation <= Count /\ Count <= Cap
  BY <1>2 DEF CacheIInv, OrderInv
<1>4. Len(SlabList) \in Nat /\ SlabSize \in Nat \ {0} /\ Count = SlabSize * Len(SlabList)
      /\ Reservation \in Nat /\ Cap \in Nat /\ Count \in Nat /\ "head" \notin Slab
  BY <1>1, Counts, CacheAssumption DEF Count
<1>5. CASE Cursor # "head" /\ CacheGetObjectFromSlab(p, Cursor, SlabList)
  <2>1. Cursor \in Slab  BY <1>1, <1>5
  <2>2. On(SlabList, Cursor)
    <3>1. \E i \in 1 .. Len(SlabList) : Cursor = SlabList[i]  BY <1>1, <1>3, <1>5, CursorFound
    <3> QED  BY <3>1 DEF On
  <2>3. \A x : On(SlabList, x) <=> x = Cursor \/ On(SlabList, x)  BY <2>2
  <2>4. Reservation <= SlabSize * Len(SlabList) /\ SlabSize * Len(SlabList) <= Cap
    BY <1>3, <1>4
  <2> QED  BY <1>1, <1>3, <1>5, <2>1, <2>2, <2>3, <2>4, GetsObject
<1>6. ASSUME Cursor = "head", Count + SlabSize <= Cap, NEW s \in Slab \ OnList,
             CacheGetObjectFromSlab(p, s, CacheInsertSlab(SlabList, Allocated, s).list)
      PROVE  SlabsKept /\ OrderKept /\ (Took(p) \/ TookNone(p))
  <2> DEFINE new == CacheInsertSlab(SlabList, Allocated, s)
             list == new.list
  <2>1. Allocated[s] = {}  BY <1>1, <1>6 DEF SlabInv
  <2>2. Taken(Allocated, s) = 0  BY <2>1, FS_EmptySet DEF Taken
  <2>3. ~On(SlabList, s)  BY <1>1, <1>6, Linked
  <2>4. /\ list \in Seq(Slab) /\ Len(list) = Len(SlabList) + 1 /\ Distinct(list)
        /\ Descending(list, Allocated) /\ CursorAt(list, Allocated, new.cursor) /\ new.cursor \in Slab
        /\ \A x : On(list, x) <=> x = s \/ On(SlabList, x)
    <3>1. Taken(Allocated, s) < SlabSize  BY <1>4, <2>2
    <3> QED  BY <1>1, <1>3, <1>6, <2>3, <3>1, InsertsSlab
  <2>5. new.cursor = s
    <3> HIDE DEF new
    <3>1. PICK i \in 1 .. Len(list) : new.cursor = list[i] /\ Taken(Allocated, list[i]) < SlabSize
      BY <1>1, <1>4, <2>4, CursorFound
    <3>2. list[i] = s \/ On(SlabList, list[i])  BY <2>4, <3>1 DEF On
    <3>3. \A x : On(SlabList, x) => Taken(Allocated, x) = SlabSize
      <4>1. \A j \in 1 .. Len(SlabList) : Taken(Allocated, SlabList[j]) = SlabSize
        BY <1>1, <1>3, <1>4, <1>6, CursorFound
      <4> QED  BY <4>1 DEF On
    <3> QED  BY <1>4, <3>1, <3>2, <3>3
  <2>6. On(list, s) /\ CursorAt(list, Allocated, s)  BY <2>4, <2>5
  <2>7. Reservation <= SlabSize * Len(list) /\ SlabSize * Len(list) <= Cap
    <3>1. SlabSize * (Len(SlabList) + 1) = (SlabSize * Len(SlabList)) + SlabSize  BY <1>4
    <3> QED  BY <1>3, <1>4, <1>6, <2>4, <3>1
  <2>8. CacheGetObjectFromSlab(p, s, list)  BY <1>6
  <2> HIDE DEF list
  <2> QED  BY <1>1, <1>6, <2>4, <2>6, <2>7, <2>8, GetsObject
<1>7. CASE cachePc' = [cachePc EXCEPT ![p] = "idle"] /\ UNCHANGED <<slabVars, object>>
  <2>1. SlabList' = SlabList /\ Cursor' = Cursor /\ Constructed' = Constructed /\ Allocated' = Allocated
        /\ object' = object
    BY <1>7 DEF slabVars
  <2>2. SlabInv' /\ Count' = Count  BY <1>1, <2>1 DEF SlabInv, OnList, Count
  <2>3. SlabsKept  BY <1>1, <2>1, <2>2 DEF SlabsKept
  <2>4. OrderKept  BY <1>3, <2>1, <2>2 DEF OrderKept
  <2>5. TookNone(p)  BY <1>7, <2>1 DEF TookNone
  <2> QED  BY <2>3, <2>4, <2>5
<1> QED  BY <1>5, <1>6, <1>7 DEF CacheGetLocked

\* CacheCreate: empty slabs, the first of them the cursor, at least the
\* reservation and at most the cap unless it fails.
LEMMA CreatesSlabs ==
  ASSUME CacheIInv, CacheCreate
  PROVE  SlabsKept /\ (life' = "live" => OrderKept) /\ (life' = "none" => SlabList' = <<>>)
<1>1. CacheTypeOK /\ SlabList = <<>> /\ Allocated \in Masks /\ Constructed \in Masks
  BY DEF CacheCreate, CacheIInv, LifeInv, CacheTypeOK, Masks
<1>2. \A s \in Slab : Constructed[s] = {} /\ Allocated[s] = {}
  <2>1. OnList = {}  BY <1>1 DEF OnList
  <2> QED  BY <2>1 DEF CacheIInv, SlabInv
<1>3. Constructed' = Constructed /\ Allocated' = Allocated  BY DEF CacheCreate
<1> DEFINE wanted == (Reservation + SlabSize - 1) \div SlabSize
<1>4. SlabSize \in Nat \ {0} /\ Reservation \in Nat /\ Cap \in Nat /\ Cardinality(Slab) \in Nat
  BY CacheAssumption, FS_CardinalityType
<1>5. wanted \in Nat /\ Reservation <= SlabSize * wanted
  <2>1. Reservation + SlabSize - 1 \in Nat  BY <1>4
  <2>2. \A x \in Nat : x \div SlabSize \in Nat /\ x < (SlabSize * (x \div SlabSize)) + SlabSize
    BY <1>4
  <2>3. wanted \in Nat /\ Reservation + SlabSize - 1 < (SlabSize * wanted) + SlabSize
    BY <2>1, <2>2
  <2>4. SlabSize * wanted \in Nat  BY <1>4, <2>3
  <2> HIDE DEF wanted
  <2> QED  BY <1>4, <2>3, <2>4
<1>6. PICK n \in 0 .. wanted, list \in SetToSeqs(Slab) :
        /\ n <= Cardinality(Slab) /\ n * SlabSize <= Cap
        /\ life' = IF n = wanted THEN "live" ELSE IF n = 0 THEN "none" ELSE "bug"
        /\ SlabList' = SubSeq(list, 1, n)
        /\ Cursor' = IF n = 0 THEN "head" ELSE list[1]
  BY DEF CacheCreate
<1> HIDE DEF wanted
<1>7. list \in [1 .. Cardinality(Slab) -> Slab] /\ \A i, j \in 1 .. Cardinality(Slab) : i # j => list[i] # list[j]
  BY <1>6 DEF SetToSeqs
<1>8. n \in Nat /\ n <= Cardinality(Slab)  BY <1>5, <1>6
<1>9. list \in Seq(Slab) /\ Len(list) = Cardinality(Slab)  BY <1>4, <1>7
<1>10. SlabList' \in Seq(Slab) /\ Len(SlabList') = n /\ \A i \in 1 .. n : SlabList'[i] = list[i]
  BY <1>4, <1>6, <1>8, <1>9
<1>11. Distinct(SlabList)'
  <2>1. \A i \in 1 .. n : i \in 1 .. Cardinality(Slab)  BY <1>4, <1>8
  <2> QED  BY <2>1, <1>7, <1>10 DEF Distinct
<1>12. Cursor' \in Slab \cup {"head"}
  <2>1. n # 0 => 1 \in 1 .. Cardinality(Slab)  BY <1>4, <1>8
  <2> QED  BY <2>1, <1>6, <1>7
<1>13. SlabInv'
  <2>1. 0 \in 0 .. SlabSize /\ {} = 0 .. 0 - 1  BY <1>4
  <2> QED  BY <2>1, <1>2, <1>3 DEF SlabInv
<1>14. SlabsKept  BY <1>1, <1>3, <1>10, <1>11, <1>12, <1>13 DEF SlabsKept
<1>15. ASSUME life' = "live" PROVE OrderKept
  <2>1. n = wanted  BY <1>6, <1>15
  <2>2. Count' = SlabSize * n  BY <1>10 DEF Count
  <2>3. Reservation <= Count' /\ Count' <= Cap
    <3>1. n * SlabSize = SlabSize * n  BY <1>4, <1>8
    <3> QED  BY <1>5, <1>6, <2>1, <2>2, <3>1
  <2>4. \A i \in 1 .. n : Taken(Allocated, SlabList'[i]) = 0
    <3>1. \A i \in 1 .. n : SlabList'[i] \in Slab  BY <1>10
    <3> QED  BY <3>1, <1>2, FS_EmptySet DEF Taken
  <2>5. Descending(SlabList, Allocated)'  BY <1>3, <1>10, <2>4 DEF Descending
  <2>6. CursorAt(SlabList', Allocated, Cursor')
    <3>1. \A i \in 1 .. n : (\A j \in 1 .. i - 1 : Taken(Allocated, SlabList'[j]) = SlabSize) => Cursor' = SlabList'[i]
      <4>1. ASSUME NEW i \in 1 .. n, \A j \in 1 .. i - 1 : Taken(Allocated, SlabList'[j]) = SlabSize
            PROVE  Cursor' = SlabList'[i]
        <5>1. i = 1
          <6>1. i # 1 => 1 \in 1 .. i - 1 /\ 1 \in 1 .. n  BY <1>8
          <6> QED  BY <6>1, <4>1, <2>4, <1>4
        <5> QED  BY <5>1, <1>6, <1>8, <1>10
      <4> QED  BY <4>1
    <3>2. (\A i \in 1 .. n : Taken(Allocated, SlabList'[i]) = SlabSize) => Cursor' = "head"
      <4>1. n # 0 => 1 \in 1 .. n  BY <1>8
      <4> QED  BY <4>1, <2>4, <1>4, <1>6
    <3> QED  BY <3>1, <3>2, <1>10 DEF CursorAt
  <2> QED  BY <2>3, <2>5, <2>6, <1>3 DEF OrderKept
<1>16. ASSUME life' = "none" PROVE SlabList' = <<>>
  <2>1. n = 0  BY <1>6, <1>16
  <2> QED  BY <2>1, <1>10
<1> QED  BY <1>14, <1>15, <1>16

-----------------------------------------------------------------------------
(* Every step keeps the invariant.                                         *)

\* The two callers of CacheSpill: the monitor with a target no less than the
\* reservation, CacheDestroy with 0 once nothing is out.
LEMMA SpillStep ==
  ASSUME CacheIInv, MonitorSpill \/ CacheDestroyed
  PROVE  SlabsKept /\ Allocated' = Allocated /\ (MonitorSpill => OrderKept)
         /\ (CacheDestroyed => SlabList' = <<>>)
<1>1. CacheTypeOK /\ SlabInv /\ Distinct(SlabList)  BY DEF CacheIInv
<1>2. CASE MonitorSpill
  <2>1. CacheSpill(monitor.count) /\ monitor.what = "spill"  BY <1>2 DEF MonitorSpill
  <2>2. monitor.count \in Nat  BY <1>1 DEF CacheTypeOK, Doing
  <2>3. life = "live" /\ monitor.count >= Reservation  BY <2>1 DEF CacheIInv, LifeInv
  <2>4. Descending(SlabList, Allocated) /\ CursorAt(SlabList, Allocated, Cursor)
        /\ Reservation <= Count /\ Count <= Cap
    BY <2>3 DEF CacheIInv, OrderInv
  <2>5. ~CacheDestroyed  BY <2>3 DEF CacheDestroyed
  <2> QED  BY <1>1, <2>1, <2>2, <2>3, <2>4, <2>5, SpillKeeps
<1>3. CASE CacheDestroyed
  <2>1. CacheSpill(0) /\ life = "flushed"  BY <1>3 DEF CacheDestroyed
  <2>2. \A s \in Slab : Allocated[s] = {}  BY <2>1 DEF CacheIInv, LifeInv
  <2>3. ~MonitorSpill  BY <2>1 DEF MonitorSpill, CacheIInv, LifeInv
  <2> QED  BY <1>1, <2>1, <2>2, <2>3, SpillKeeps
<1> QED  BY <1>2, <1>3

\* __CacheFlushMagazines: clients and processors have nothing, so every object that
\* is out is in a magazine and the flush gives it back.
LEMMA FlushTakes ==
  ASSUME CacheIInv, CacheFlushMagazines
  PROVE  Allocated' = [s \in Slab |-> {}]
<1>1. inUse = {} /\ \A p \in CacheCpu : Out(p) = {}
  BY DEF CacheFlushMagazines, CacheIInv, LifeInv, Out
<1>2. Allocated \in [Slab -> SUBSET Indices]  BY DEF CacheIInv, CacheTypeOK
<1>3. ASSUME NEW s \in Slab, NEW i \in Allocated[s]
      PROVE  \E p \in CacheCpu : <<s, i>> \in Magazine[p]
  <2>1. <<s, i>> \in Objects /\ <<s, i>>[1] = s /\ <<s, i>>[2] = i  BY <1>2 DEF Objects, Indices
  <2>2. \E p \in CacheCpu : Holds(p, <<s, i>>)  BY <1>1, <1>3, <2>1 DEF CacheIInv, PlaceInv
  <2> QED  BY <1>1, <2>2 DEF Holds
<1>4. \A s \in Slab :
        Allocated[s] \ {o[2] : o \in {x \in UNION {Magazine[p] : p \in CacheCpu} : x[1] = s}} = {}
  <2>1. SUFFICES ASSUME NEW s \in Slab, NEW i \in Allocated[s]
        PROVE  i \in {o[2] : o \in {x \in UNION {Magazine[p] : p \in CacheCpu} : x[1] = s}}
    OBVIOUS
  <2>2. PICK p \in CacheCpu : <<s, i>> \in Magazine[p]  BY <1>3
  <2>3. <<s, i>> \in {x \in UNION {Magazine[q] : q \in CacheCpu} : x[1] = s} /\ <<s, i>>[2] = i
    BY <2>2
  <2> QED  BY <2>3
<1> QED  BY <1>4 DEF CacheFlushMagazines

\* The slabs after any step.
SlabsAfter == SlabsKept /\ OrderInv'

\* Steps that leave the slabs alone.
LEMMA SlabsStay ==
  ASSUME CacheIInv, SlabList' = SlabList, Cursor' = Cursor, Constructed' = Constructed,
         Allocated' = Allocated, life' = "live" => life = "live"
  PROVE  SlabsAfter
<1>1. SlabInv' /\ Count' = Count  BY DEF CacheIInv, SlabInv, OnList, Count
<1>2. SlabsKept  BY <1>1 DEF CacheIInv, CacheTypeOK, SlabsKept, Masks
<1>3. OrderInv'  BY <1>1 DEF CacheIInv, OrderInv
<1> QED  BY <1>2, <1>3 DEF SlabsAfter

\* The slabs and their order, action by action.
LEMMA SlabsStep == CacheIInv /\ [CacheNext]_cacheVars => SlabsAfter
<1> SUFFICES ASSUME CacheIInv, [CacheNext]_cacheVars PROVE SlabsAfter
  OBVIOUS
<1>1. CASE CacheCreate
  BY <1>1, CreatesSlabs DEF SlabsAfter, OrderInv, OrderKept
<1>2. CASE CacheMonitor
  <2>1. SlabList' = SlabList /\ Cursor' = Cursor /\ Constructed' = Constructed /\ Allocated' = Allocated
    BY <1>2 DEF CacheMonitor, slabVars, cacheVars
  <2>2. life' = "live" => life = "live"  BY <1>2 DEF CacheMonitor, cacheVars
  <2> QED  BY <2>1, <2>2, SlabsStay
<1>3. CASE MonitorSpill
  BY <1>3, SpillStep DEF SlabsAfter, OrderInv, OrderKept
<1>4. CASE CacheDestroy
  <2>1. SlabList' = SlabList /\ Cursor' = Cursor /\ Constructed' = Constructed /\ Allocated' = Allocated
    BY <1>4 DEF CacheDestroy, slabVars, cacheVars
  <2>2. life' = "live" => life = "live"  BY <1>4 DEF CacheDestroy, cacheVars
  <2> QED  BY <2>1, <2>2, SlabsStay
<1>5. CASE CacheFlushMagazines
  <2>1. Allocated' = [s \in Slab |-> {}]  BY <1>5, FlushTakes
  <2>2. SlabList' = SlabList /\ Cursor' = Cursor /\ Constructed' = Constructed /\ life' = "flushed"
    BY <1>5 DEF CacheFlushMagazines
  <2>3. SlabInv'  BY <2>1, <2>2 DEF CacheIInv, SlabInv, OnList
  <2>4. SlabsKept  BY <2>1, <2>2, <2>3 DEF CacheIInv, CacheTypeOK, SlabsKept, Masks
  <2> QED  BY <2>2, <2>4 DEF SlabsAfter, OrderInv
<1>6. CASE CacheDestroyed
  <2>1. life' # "live"  BY <1>6 DEF CacheDestroyed
  <2> QED  BY <1>6, <2>1, SpillStep DEF SlabsAfter, OrderInv
<1>7. ASSUME NEW p \in CacheCpu, CacheGet(p) PROVE SlabsAfter
  <2>1. SlabList' = SlabList /\ Cursor' = Cursor /\ Constructed' = Constructed /\ Allocated' = Allocated
    BY <1>7 DEF CacheGet, slabVars, cacheVars
  <2>2. life' = "live" => life = "live"  BY <1>7 DEF CacheGet, cacheVars
  <2> QED  BY <2>1, <2>2, SlabsStay
<1>8. ASSUME NEW p \in CacheCpu, CacheGetLocked(p) PROVE SlabsAfter
  BY <1>8, LockedGet DEF SlabsAfter, OrderInv, OrderKept
<1>9. ASSUME NEW p \in CacheCpu, Got(p) PROVE SlabsAfter
  <2>1. SlabList' = SlabList /\ Cursor' = Cursor /\ Constructed' = Constructed /\ Allocated' = Allocated
    BY <1>9 DEF Got, slabVars, cacheVars
  <2>2. life' = "live" => life = "live"  BY <1>9 DEF Got, cacheVars
  <2> QED  BY <2>1, <2>2, SlabsStay
<1>10. ASSUME NEW p \in CacheCpu, CachePutLocked(p) PROVE SlabsAfter
  BY <1>10, LockedPut DEF SlabsAfter, OrderInv, OrderKept
<1>11. ASSUME NEW p \in CacheCpu, Gave(p) PROVE SlabsAfter
  <2>1. SlabList' = SlabList /\ Cursor' = Cursor /\ Constructed' = Constructed /\ Allocated' = Allocated
    BY <1>11 DEF Gave, slabVars, cacheVars
  <2>2. life' = "live" => life = "live"  BY <1>11 DEF Gave, cacheVars
  <2> QED  BY <2>1, <2>2, SlabsStay
<1>12. ASSUME NEW p \in CacheCpu, NEW o \in Objects, CachePut(p, o) PROVE SlabsAfter
  <2>1. SlabList' = SlabList /\ Cursor' = Cursor /\ Constructed' = Constructed /\ Allocated' = Allocated
    BY <1>12 DEF CachePut, slabVars, cacheVars
  <2>2. life' = "live" => life = "live"  BY <1>12 DEF CachePut, cacheVars
  <2> QED  BY <2>1, <2>2, SlabsStay
<1>13. CASE UNCHANGED cacheVars
  <2>1. SlabList' = SlabList /\ Cursor' = Cursor /\ Constructed' = Constructed /\ Allocated' = Allocated
    BY <1>13 DEF slabVars, cacheVars
  <2>2. life' = "live" => life = "live"  BY <1>13 DEF cacheVars
  <2> QED  BY <2>1, <2>2, SlabsStay
<1> QED
  BY <1>1, <1>2, <1>3, <1>4, <1>5, <1>6, <1>7, <1>8, <1>9, <1>10, <1>11, <1>12, <1>13
  DEF CacheNext

\* The type of the variables that are not the slabs'.
RestTyped ==
  /\ life' \in {"none", "live", "unlisted", "flushed", "bug"}
  /\ Magazine' \in [CacheCpu -> SUBSET Objects]
  /\ cachePc' \in [CacheCpu -> Points]
  /\ object' \in [CacheCpu -> Objects \cup {NoObject}]
  /\ \A p \in CacheCpu : cachePc'[p] \in {"got", "put"} => object'[p] \in Objects
  /\ inUse' \in SUBSET Objects /\ CurrentObjects' \in Int
  /\ monitor' \in Doing

\* The types of the other variables, action by action.
LEMMA TypesStep == CacheIInv /\ [CacheNext]_cacheVars => RestTyped
<1> SUFFICES ASSUME CacheIInv, [CacheNext]_cacheVars PROVE RestTyped
  OBVIOUS
<1>1. CASE CacheCreate
  <2>1. Magazine' \in [CacheCpu -> SUBSET Objects]
    BY <1>1 DEF CacheIInv, CacheTypeOK, CacheCreate
  <2>2. cachePc' \in [CacheCpu -> Points]
    BY <1>1 DEF CacheIInv, CacheTypeOK, Points, CacheCreate
  <2>3. object' \in [CacheCpu -> Objects \cup {NoObject}]
    BY <1>1 DEF CacheIInv, CacheTypeOK, CacheCreate
  <2>4. \A q \in CacheCpu : cachePc'[q] \in {"got", "put"} => object'[q] \in Objects
    BY <1>1 DEF CacheIInv, CacheTypeOK, CacheCreate
  <2>5. life' \in {"none", "live", "unlisted", "flushed", "bug"} /\ inUse' \in SUBSET Objects
        /\ CurrentObjects' \in Int /\ monitor' \in Doing
    BY <1>1 DEF CacheIInv, CacheTypeOK, CacheCreate
  <2> QED  BY <2>1, <2>2, <2>3, <2>4, <2>5 DEF RestTyped
<1>2. CASE CacheMonitor
  <2>1. Magazine' \in [CacheCpu -> SUBSET Objects]
    BY <1>2 DEF CacheIInv, CacheTypeOK, CacheMonitor
  <2>2. cachePc' \in [CacheCpu -> Points]
    BY <1>2 DEF CacheIInv, CacheTypeOK, Points, CacheMonitor
  <2>3. object' \in [CacheCpu -> Objects \cup {NoObject}]
    BY <1>2 DEF CacheIInv, CacheTypeOK, CacheMonitor
  <2>4. \A q \in CacheCpu : cachePc'[q] \in {"got", "put"} => object'[q] \in Objects
    BY <1>2 DEF CacheIInv, CacheTypeOK, CacheMonitor
  <2>5a. monitor' \in Doing
    <3>1. Count \in Nat  BY Counts DEF CacheIInv
    <3>2. Count \div 2 \in Nat  BY <3>1
    <3>3. Larger(Reservation, Count \div 2) \in Nat  BY <3>2, CacheAssumption DEF Larger
    <3>4. monitor' = [what |-> "spill", count |-> Larger(Reservation, Count \div 2)]
      BY <1>2 DEF CacheMonitor
    <3> QED  BY <3>3, <3>4 DEF Doing
  <2>5. life' \in {"none", "live", "unlisted", "flushed", "bug"} /\ inUse' \in SUBSET Objects
        /\ CurrentObjects' \in Int
    BY <1>2 DEF CacheIInv, CacheTypeOK, CacheMonitor
  <2> QED  BY <2>1, <2>2, <2>3, <2>4, <2>5, <2>5a DEF RestTyped
<1>3. CASE MonitorSpill
  <2>1. Magazine' \in [CacheCpu -> SUBSET Objects]
    BY <1>3 DEF CacheIInv, CacheTypeOK, MonitorSpill
  <2>2. cachePc' \in [CacheCpu -> Points]
    BY <1>3 DEF CacheIInv, CacheTypeOK, Points, MonitorSpill
  <2>3. object' \in [CacheCpu -> Objects \cup {NoObject}]
    BY <1>3 DEF CacheIInv, CacheTypeOK, MonitorSpill
  <2>4. \A q \in CacheCpu : cachePc'[q] \in {"got", "put"} => object'[q] \in Objects
    BY <1>3 DEF CacheIInv, CacheTypeOK, MonitorSpill
  <2>5a. monitor' \in Doing
    BY <1>3 DEF MonitorSpill, Idle, Doing
  <2>5. life' \in {"none", "live", "unlisted", "flushed", "bug"} /\ inUse' \in SUBSET Objects
        /\ CurrentObjects' \in Int
    BY <1>3 DEF CacheIInv, CacheTypeOK, MonitorSpill
  <2> QED  BY <2>1, <2>2, <2>3, <2>4, <2>5, <2>5a DEF RestTyped
<1>4. CASE CacheDestroy
  <2>1. Magazine' \in [CacheCpu -> SUBSET Objects]
    BY <1>4 DEF CacheIInv, CacheTypeOK, CacheDestroy
  <2>2. cachePc' \in [CacheCpu -> Points]
    BY <1>4 DEF CacheIInv, CacheTypeOK, Points, CacheDestroy
  <2>3. object' \in [CacheCpu -> Objects \cup {NoObject}]
    BY <1>4 DEF CacheIInv, CacheTypeOK, CacheDestroy
  <2>4. \A q \in CacheCpu : cachePc'[q] \in {"got", "put"} => object'[q] \in Objects
    BY <1>4 DEF CacheIInv, CacheTypeOK, CacheDestroy
  <2>5. life' \in {"none", "live", "unlisted", "flushed", "bug"} /\ inUse' \in SUBSET Objects
        /\ CurrentObjects' \in Int /\ monitor' \in Doing
    BY <1>4 DEF CacheIInv, CacheTypeOK, CacheDestroy
  <2> QED  BY <2>1, <2>2, <2>3, <2>4, <2>5 DEF RestTyped
<1>5. CASE CacheFlushMagazines
  <2>1. Magazine' \in [CacheCpu -> SUBSET Objects]
    BY <1>5 DEF CacheIInv, CacheTypeOK, CacheFlushMagazines
  <2>2. cachePc' \in [CacheCpu -> Points]
    BY <1>5 DEF CacheIInv, CacheTypeOK, Points, CacheFlushMagazines
  <2>3. object' \in [CacheCpu -> Objects \cup {NoObject}]
    BY <1>5 DEF CacheIInv, CacheTypeOK, CacheFlushMagazines
  <2>4. \A q \in CacheCpu : cachePc'[q] \in {"got", "put"} => object'[q] \in Objects
    BY <1>5 DEF CacheIInv, CacheTypeOK, CacheFlushMagazines
  <2>5. life' \in {"none", "live", "unlisted", "flushed", "bug"} /\ inUse' \in SUBSET Objects
        /\ CurrentObjects' \in Int /\ monitor' \in Doing
    BY <1>5 DEF CacheIInv, CacheTypeOK, CacheFlushMagazines
  <2> QED  BY <2>1, <2>2, <2>3, <2>4, <2>5 DEF RestTyped
<1>6. CASE CacheDestroyed
  <2>1. Magazine' \in [CacheCpu -> SUBSET Objects]
    BY <1>6 DEF CacheIInv, CacheTypeOK, CacheDestroyed
  <2>2. cachePc' \in [CacheCpu -> Points]
    BY <1>6 DEF CacheIInv, CacheTypeOK, Points, CacheDestroyed
  <2>3. object' \in [CacheCpu -> Objects \cup {NoObject}]
    BY <1>6 DEF CacheIInv, CacheTypeOK, CacheDestroyed
  <2>4. \A q \in CacheCpu : cachePc'[q] \in {"got", "put"} => object'[q] \in Objects
    BY <1>6 DEF CacheIInv, CacheTypeOK, CacheDestroyed
  <2>5. life' \in {"none", "live", "unlisted", "flushed", "bug"} /\ inUse' \in SUBSET Objects
        /\ CurrentObjects' \in Int /\ monitor' \in Doing
    BY <1>6 DEF CacheIInv, CacheTypeOK, CacheDestroyed
  <2> QED  BY <2>1, <2>2, <2>3, <2>4, <2>5 DEF RestTyped
<1>7. ASSUME NEW p \in CacheCpu, CacheGet(p) PROVE RestTyped
  <2>1. Magazine' \in [CacheCpu -> SUBSET Objects]  BY <1>7 DEF CacheIInv, CacheTypeOK, CacheGet
  <2>2. cachePc' \in [CacheCpu -> Points]  BY <1>7 DEF CacheIInv, CacheTypeOK, Points, CacheGet
  <2>3. object' \in [CacheCpu -> Objects \cup {NoObject}]
    BY <1>7 DEF CacheIInv, CacheTypeOK, CacheGet
  <2>4. \A q \in CacheCpu : cachePc'[q] \in {"got", "put"} => object'[q] \in Objects
    BY <1>7 DEF CacheIInv, CacheTypeOK, CacheGet
  <2>5. life' \in {"none", "live", "unlisted", "flushed", "bug"} /\ inUse' \in SUBSET Objects
        /\ CurrentObjects' \in Int /\ monitor' \in Doing
    BY <1>7 DEF CacheIInv, CacheTypeOK, CacheGet
  <2> QED  BY <2>1, <2>2, <2>3, <2>4, <2>5 DEF RestTyped
<1>8. ASSUME NEW p \in CacheCpu, CacheGetLocked(p) PROVE RestTyped
  <2>1. (Took(p) \/ TookNone(p)) /\ UNCHANGED <<life, Magazine, inUse, CurrentObjects, monitor>>
    BY <1>8, LockedGet DEF CacheGetLocked
  <2>2. /\ cachePc' \in [CacheCpu -> Points] /\ object' \in [CacheCpu -> Objects \cup {NoObject}]
        /\ \A q \in CacheCpu : cachePc'[q] \in {"got", "put"} => object'[q] \in Objects
    <3>1. CASE Took(p)
      <4>1. PICK o \in Objects : /\ object' = [object EXCEPT ![p] = o]
                                /\ cachePc' = [cachePc EXCEPT ![p] = "got"]
        BY <3>1 DEF Took, Objects, Indices
      <4> QED  BY <4>1 DEF CacheIInv, CacheTypeOK, Points
    <3>2. CASE TookNone(p)  BY <3>2 DEF TookNone, CacheIInv, CacheTypeOK, Points
    <3> QED  BY <2>1, <3>1, <3>2
  <2> QED  BY <2>1, <2>2 DEF CacheIInv, CacheTypeOK, RestTyped
<1>9. ASSUME NEW p \in CacheCpu, Got(p) PROVE RestTyped
  <2>1. Magazine' \in [CacheCpu -> SUBSET Objects]  BY <1>9 DEF CacheIInv, CacheTypeOK, Got
  <2>2. cachePc' \in [CacheCpu -> Points]  BY <1>9 DEF CacheIInv, CacheTypeOK, Points, Got
  <2>3. object' \in [CacheCpu -> Objects \cup {NoObject}]
    BY <1>9 DEF CacheIInv, CacheTypeOK, Got
  <2>4. \A q \in CacheCpu : cachePc'[q] \in {"got", "put"} => object'[q] \in Objects
    BY <1>9 DEF CacheIInv, CacheTypeOK, Got
  <2>5. life' \in {"none", "live", "unlisted", "flushed", "bug"} /\ inUse' \in SUBSET Objects
        /\ CurrentObjects' \in Int /\ monitor' \in Doing
    BY <1>9 DEF CacheIInv, CacheTypeOK, Got
  <2> QED  BY <2>1, <2>2, <2>3, <2>4, <2>5 DEF RestTyped
<1>10. ASSUME NEW p \in CacheCpu, CachePutLocked(p) PROVE RestTyped
  <2>1. Magazine' \in [CacheCpu -> SUBSET Objects]
    BY <1>10 DEF CacheIInv, CacheTypeOK, CachePutLocked
  <2>2. cachePc' \in [CacheCpu -> Points]
    BY <1>10 DEF CacheIInv, CacheTypeOK, Points, CachePutLocked
  <2>3. object' \in [CacheCpu -> Objects \cup {NoObject}]
    BY <1>10 DEF CacheIInv, CacheTypeOK, CachePutLocked
  <2>4. \A q \in CacheCpu : cachePc'[q] \in {"got", "put"} => object'[q] \in Objects
    BY <1>10 DEF CacheIInv, CacheTypeOK, CachePutLocked
  <2>5. life' \in {"none", "live", "unlisted", "flushed", "bug"} /\ inUse' \in SUBSET Objects
        /\ CurrentObjects' \in Int /\ monitor' \in Doing
    BY <1>10 DEF CacheIInv, CacheTypeOK, CachePutLocked
  <2> QED  BY <2>1, <2>2, <2>3, <2>4, <2>5 DEF RestTyped
<1>11. ASSUME NEW p \in CacheCpu, Gave(p) PROVE RestTyped
  <2>1. Magazine' \in [CacheCpu -> SUBSET Objects]  BY <1>11 DEF CacheIInv, CacheTypeOK, Gave
  <2>2. cachePc' \in [CacheCpu -> Points]  BY <1>11 DEF CacheIInv, CacheTypeOK, Points, Gave
  <2>3. object' \in [CacheCpu -> Objects \cup {NoObject}]
    BY <1>11 DEF CacheIInv, CacheTypeOK, Gave
  <2>4. \A q \in CacheCpu : cachePc'[q] \in {"got", "put"} => object'[q] \in Objects
    BY <1>11 DEF CacheIInv, CacheTypeOK, Gave
  <2>5. life' \in {"none", "live", "unlisted", "flushed", "bug"} /\ inUse' \in SUBSET Objects
        /\ CurrentObjects' \in Int /\ monitor' \in Doing
    BY <1>11 DEF CacheIInv, CacheTypeOK, Gave
  <2> QED  BY <2>1, <2>2, <2>3, <2>4, <2>5 DEF RestTyped
<1>12. ASSUME NEW p \in CacheCpu, NEW o \in Objects, CachePut(p, o) PROVE RestTyped
  <2>1. Magazine' \in [CacheCpu -> SUBSET Objects]
    BY <1>12 DEF CacheIInv, CacheTypeOK, CachePut
  <2>2. cachePc' \in [CacheCpu -> Points]  BY <1>12 DEF CacheIInv, CacheTypeOK, Points, CachePut
  <2>3. object' \in [CacheCpu -> Objects \cup {NoObject}]
    BY <1>12 DEF CacheIInv, CacheTypeOK, CachePut
  <2>4. \A q \in CacheCpu : cachePc'[q] \in {"got", "put"} => object'[q] \in Objects
    BY <1>12 DEF CacheIInv, CacheTypeOK, CachePut
  <2>5. life' \in {"none", "live", "unlisted", "flushed", "bug"} /\ inUse' \in SUBSET Objects
        /\ CurrentObjects' \in Int /\ monitor' \in Doing
    BY <1>12 DEF CacheIInv, CacheTypeOK, CachePut
  <2> QED  BY <2>1, <2>2, <2>3, <2>4, <2>5 DEF RestTyped
<1>13. CASE UNCHANGED cacheVars
  <2>1. Magazine' \in [CacheCpu -> SUBSET Objects]
    BY <1>13 DEF CacheIInv, CacheTypeOK, cacheVars
  <2>2. cachePc' \in [CacheCpu -> Points]
    BY <1>13 DEF CacheIInv, CacheTypeOK, Points, cacheVars
  <2>3. object' \in [CacheCpu -> Objects \cup {NoObject}]
    BY <1>13 DEF CacheIInv, CacheTypeOK, cacheVars
  <2>4. \A q \in CacheCpu : cachePc'[q] \in {"got", "put"} => object'[q] \in Objects
    BY <1>13 DEF CacheIInv, CacheTypeOK, cacheVars
  <2>5. life' \in {"none", "live", "unlisted", "flushed", "bug"} /\ inUse' \in SUBSET Objects
        /\ CurrentObjects' \in Int /\ monitor' \in Doing
    BY <1>13 DEF CacheIInv, CacheTypeOK, cacheVars
  <2> QED  BY <2>1, <2>2, <2>3, <2>4, <2>5 DEF RestTyped
<1> QED
  BY <1>1, <1>2, <1>3, <1>4, <1>5, <1>6, <1>7, <1>8, <1>9, <1>10, <1>11, <1>12, <1>13
  DEF CacheNext

\* What holds in each phase of the cache's life, action by action.
LEMMA LifeStep == CacheIInv /\ [CacheNext]_cacheVars => LifeInv'
<1> SUFFICES ASSUME CacheIInv, [CacheNext]_cacheVars PROVE LifeInv'
  OBVIOUS
<1>1. CASE CacheCreate
  BY <1>1, CreatesSlabs DEF CacheIInv, LifeInv, CacheCreate
<1>2. CASE CacheMonitor
  <2>1. life = "live" /\ life' = "live"  BY <1>2 DEF CacheMonitor
  <2>2. monitor' = [what |-> "spill", count |-> Larger(Reservation, Count \div 2)]
    BY <1>2 DEF CacheMonitor
  <2>3. Larger(Reservation, Count \div 2) >= Reservation
    <3>1. Count \in Nat  BY Counts DEF CacheIInv
    <3>2. Count \div 2 \in Nat  BY <3>1
    <3> QED  BY <3>2, CacheAssumption DEF Larger
  <2> QED  BY <2>1, <2>2, <2>3 DEF LifeInv
<1>3. CASE MonitorSpill
  <2>1. life = "live" /\ UNCHANGED life /\ monitor' = Idle
    BY <1>3 DEF CacheIInv, LifeInv, MonitorSpill
  <2> QED  BY <2>1 DEF LifeInv, Idle
<1>4. CASE CacheDestroy
  <2>1. monitor = Idle /\ monitor' = Idle /\ inUse' = {} /\ life' = "unlisted" /\ cachePc' = cachePc
    BY <1>4 DEF CacheDestroy
  <2>2. \A p \in CacheCpu : cachePc[p] = "idle"  BY <1>4 DEF CacheDestroy
  <2> QED  BY <2>1, <2>2 DEF LifeInv, Idle
<1>5. CASE CacheFlushMagazines
  BY <1>5, FlushTakes DEF CacheIInv, LifeInv, CacheFlushMagazines
<1>6. CASE CacheDestroyed
  <2>1. SlabList' = <<>> /\ life = "flushed" /\ life' \in {"none", "bug"}
    BY <1>6, SpillStep DEF CacheDestroyed
  <2> QED  BY <1>6, <2>1 DEF CacheIInv, LifeInv, CacheDestroyed
<1>7. ASSUME NEW p \in CacheCpu, CacheGet(p) PROVE LifeInv'
  BY <1>7 DEF CacheIInv, LifeInv, CacheGet, slabVars
<1>8. ASSUME NEW p \in CacheCpu, CacheGetLocked(p) PROVE LifeInv'
  <2>1. life = "live" /\ UNCHANGED <<life, monitor>>
    BY <1>8 DEF CacheIInv, LifeInv, CacheGetLocked
  <2> QED  BY <2>1 DEF CacheIInv, LifeInv
<1>9. ASSUME NEW p \in CacheCpu, Got(p) PROVE LifeInv'
  BY <1>9 DEF CacheIInv, LifeInv, Got, slabVars
<1>10. ASSUME NEW p \in CacheCpu, CachePutLocked(p) PROVE LifeInv'
  BY <1>10 DEF CacheIInv, LifeInv, CachePutLocked, slabVars
<1>11. ASSUME NEW p \in CacheCpu, Gave(p) PROVE LifeInv'
  BY <1>11 DEF CacheIInv, LifeInv, Gave, slabVars
<1>12. ASSUME NEW p \in CacheCpu, NEW o \in Objects, CachePut(p, o) PROVE LifeInv'
  BY <1>12 DEF CacheIInv, LifeInv, CachePut, slabVars
<1>13. CASE UNCHANGED cacheVars
  BY <1>13 DEF CacheIInv, LifeInv, cacheVars, slabVars
<1> QED
  BY <1>1, <1>2, <1>3, <1>4, <1>5, <1>6, <1>7, <1>8, <1>9, <1>10, <1>11, <1>12, <1>13
  DEF CacheNext

\* An object on which a step has no effect.
Same(o) ==
  /\ o[2] \in Allocated'[o[1]] <=> o[2] \in Allocated[o[1]]
  /\ o \in inUse' <=> o \in inUse
  /\ \A q \in CacheCpu : /\ o \in Magazine'[q] <=> o \in Magazine[q]
                         /\ o \in Out(q)' <=> o \in Out(q)

\* A step without effect on any object keeps them in place.
LEMMA Stays ==
  ASSUME PlaceInv, \A o \in Objects : Same(o)
  PROVE  PlaceInv'
<1> SUFFICES ASSUME NEW o \in Objects
    PROVE  /\ o[2] \in Allocated'[o[1]] <=> (o \in inUse' \/ \E p \in CacheCpu : Holds(p, o)')
           /\ \A p \in CacheCpu :
                /\ o \in inUse' => ~Holds(p, o)'
                /\ ~(o \in Magazine'[p] /\ o \in Out(p)')
                /\ \A q \in CacheCpu : Holds(p, o)' /\ Holds(q, o)' => p = q
  BY DEF PlaceInv
<1>1. Same(o)  OBVIOUS
<1>2. \A p \in CacheCpu : Holds(p, o)' <=> Holds(p, o)  BY <1>1 DEF Same, Holds
<1> QED  BY <1>1, <1>2 DEF Same, PlaceInv

\* One object moves, and only processor p may have it before or after.
LEMMA Moves ==
  ASSUME PlaceInv, NEW p \in CacheCpu, NEW o \in Objects,
         \A x \in Objects : x # o => Same(x),
         \A q \in CacheCpu : q # p => /\ o \notin Magazine[q] /\ o \notin Out(q)
                                      /\ o \notin Magazine'[q] /\ o \notin Out(q)',
         o[2] \in Allocated'[o[1]] <=> o \in inUse' \/ o \in Magazine'[p] \/ o \in Out(p)',
         o \in inUse' => o \notin Magazine'[p] /\ o \notin Out(p)',
         ~(o \in Magazine'[p] /\ o \in Out(p)')
  PROVE  PlaceInv'
<1>1. ASSUME NEW x \in Objects
      PROVE /\ x[2] \in Allocated'[x[1]] <=> (x \in inUse' \/ \E q \in CacheCpu : Holds(q, x)')
            /\ \A q \in CacheCpu :
                 /\ x \in inUse' => ~Holds(q, x)'
                 /\ ~(x \in Magazine'[q] /\ x \in Out(q)')
                 /\ \A r \in CacheCpu : Holds(q, x)' /\ Holds(r, x)' => q = r
  <2>1. CASE x = o
    <3>1. \A q \in CacheCpu : q # p => ~Holds(q, x)' /\ x \notin Magazine'[q] /\ x \notin Out(q)'
      BY <2>1 DEF Holds
    <3>2. Holds(p, x)' <=> x \in Magazine'[p] \/ x \in Out(p)'  BY DEF Holds
    <3> QED  BY <2>1, <3>1, <3>2
  <2>2. CASE x # o
    <3>1. Same(x)  BY <2>2
    <3>2. \A q \in CacheCpu : Holds(q, x)' <=> Holds(q, x)  BY <3>1 DEF Same, Holds
    <3> QED  BY <3>1, <3>2 DEF Same, PlaceInv
  <2> QED  BY <2>1, <2>2
<1> QED  BY <1>1 DEF PlaceInv

\* Where an object is before it moves.
LEMMA Alone ==
  ASSUME PlaceInv, NEW o \in Objects, NEW p \in CacheCpu,
         o \in inUse \/ o \in Magazine[p] \/ o \in Out(p) \/ o[2] \notin Allocated[o[1]]
  PROVE  /\ \A q \in CacheCpu : q # p => o \notin Magazine[q] /\ o \notin Out(q)
         /\ o \in inUse => o \notin Magazine[p] /\ o \notin Out(p)
         /\ o \in Magazine[p] => o \notin Out(p)
         /\ o[2] \in Allocated[o[1]] <=> o \in inUse \/ o \in Magazine[p] \/ o \in Out(p)
<1>1. \A q \in CacheCpu : Holds(q, o) <=> o \in Magazine[q] \/ o \in Out(q)  BY DEF Holds
<1> QED  BY <1>1 DEF PlaceInv

\* Each action moves one object at most, except the flush, which gives all back.
LEMMA PlaceStep == CacheIInv /\ [CacheNext]_cacheVars => PlaceInv'
<1> SUFFICES ASSUME CacheIInv, [CacheNext]_cacheVars PROVE PlaceInv'
  OBVIOUS
<1>0. PlaceInv /\ CacheTypeOK  BY DEF CacheIInv
<1>1. CASE CacheCreate
  <2>1. \A x \in Objects : Same(x)  BY <1>1 DEF CacheCreate, slabVars, Same, Out
  <2> QED  BY <1>0, <2>1, Stays
<1>2. CASE CacheMonitor
  <2>1. \A x \in Objects : Same(x)  BY <1>2 DEF CacheMonitor, slabVars, Same, Out
  <2> QED  BY <1>0, <2>1, Stays
<1>3. CASE MonitorSpill
  <2>1. Allocated' = Allocated  BY <1>3, SpillStep
  <2>2. \A x \in Objects : Same(x)  BY <1>3, <2>1 DEF MonitorSpill, Same, Out
  <2> QED  BY <1>0, <2>2, Stays
<1>4. CASE CacheDestroy
  <2>1. \A x \in Objects : Same(x)  BY <1>4 DEF CacheDestroy, slabVars, Same, Out
  <2> QED  BY <1>0, <2>1, Stays
<1>5. CASE CacheFlushMagazines
  <2>1. /\ inUse' = {} /\ \A q \in CacheCpu : Out(q)' = {} /\ Magazine'[q] = {}
    BY <1>5 DEF CacheFlushMagazines, CacheIInv, LifeInv, Out
  <2>2. Allocated' = [s \in Slab |-> {}]  BY <1>5, FlushTakes
  <2>3. \A x \in Objects : x[2] \notin Allocated'[x[1]]  BY <2>2 DEF Objects
  <2> QED  BY <2>1, <2>3 DEF PlaceInv, Holds
<1>6. CASE CacheDestroyed
  <2>1. Allocated' = Allocated  BY <1>6, SpillStep
  <2>2. \A x \in Objects : Same(x)  BY <1>6, <2>1 DEF CacheDestroyed, Same, Out
  <2> QED  BY <1>0, <2>2, Stays
<1>7. ASSUME NEW p \in CacheCpu, CacheGet(p) PROVE PlaceInv'
  <2>10. CASE Magazine[p] = {} /\ cachePc' = [cachePc EXCEPT ![p] = "get"] /\ UNCHANGED <<Magazine, object>>
    <3>1. \A x \in Objects : Same(x)
      BY <1>7, <1>0, <2>10 DEF CacheGet, slabVars, Same, Out, CacheTypeOK
    <3> QED  BY <1>0, <3>1, Stays
  <2>11. ASSUME NEW o \in Magazine[p], Magazine' = [Magazine EXCEPT ![p] = @ \ {o}],
               object' = [object EXCEPT ![p] = o], cachePc' = [cachePc EXCEPT ![p] = "got"]
        PROVE  PlaceInv'
    <3>1. o \in Objects /\ o \in Magazine[p] /\ p \in CacheCpu
      BY <1>7, <1>0, <2>11 DEF CacheTypeOK
    <3>2. \A q \in CacheCpu : q # p => /\ o \notin Magazine[q] /\ o \notin Out(q)
                                       /\ o \notin Magazine'[q] /\ o \notin Out(q)'
      <4>1. \A q \in CacheCpu : q # p => /\ o \notin Magazine[q] /\ o \notin Out(q)
        BY <1>0, <3>1, Alone
      <4>2. \A q \in CacheCpu : q # p => Magazine'[q] = Magazine[q] /\ Out(q)' = Out(q)
        BY <1>7, <1>0, <2>11 DEF CacheGet, Out, CacheTypeOK
      <4> QED  BY <4>1, <4>2
    <3>3. \A x \in Objects : x # o => Same(x)
      BY <1>7, <1>0, <2>11 DEF CacheGet, slabVars, Same, Out, CacheTypeOK
    <3>4. /\ o[2] \in Allocated'[o[1]] <=> o \in inUse' \/ o \in Magazine'[p] \/ o \in Out(p)'
          /\ o \in inUse' => o \notin Magazine'[p] /\ o \notin Out(p)'
          /\ ~(o \in Magazine'[p] /\ o \in Out(p)')
      <4>1. /\ o \notin inUse /\ inUse' = inUse /\ Allocated' = Allocated /\ o[2] \in Allocated[o[1]]
        BY <1>7, <1>0, <3>1, Alone DEF CacheGet, slabVars
      <4>2. Out(p)' = {o} /\ o \notin Magazine'[p]  BY <1>7, <1>0, <2>11 DEF Out, CacheTypeOK
      <4> QED  BY <4>1, <4>2
    <3> QED  BY <1>0, <3>1, <3>2, <3>3, <3>4, Moves
  <2> QED  BY <1>7, <2>10, <2>11 DEF CacheGet
<1>8. ASSUME NEW p \in CacheCpu, CacheGetLocked(p) PROVE PlaceInv'
  <2>10. (Took(p) \/ TookNone(p)) /\ UNCHANGED <<life, Magazine, inUse, CurrentObjects, monitor>>
    BY <1>8, LockedGet DEF CacheGetLocked
  <2>11. ASSUME NEW o \in Objects, o[2] \notin Allocated[o[1]],
               Allocated' = [Allocated EXCEPT ![o[1]] = @ \cup {o[2]}],
               object' = [object EXCEPT ![p] = o], cachePc' = [cachePc EXCEPT ![p] = "got"]
        PROVE  PlaceInv'
    <3>1. o \in Objects /\ o[2] \notin Allocated[o[1]] /\ p \in CacheCpu /\ Out(p) = {}
      BY <1>8, <2>11 DEF CacheGetLocked, Out
    <3>2. \A q \in CacheCpu : q # p => /\ o \notin Magazine[q] /\ o \notin Out(q)
                                       /\ o \notin Magazine'[q] /\ o \notin Out(q)'
      <4>1. \A q \in CacheCpu : q # p => /\ o \notin Magazine[q] /\ o \notin Out(q)
        BY <1>0, <3>1, Alone
      <4>2. \A q \in CacheCpu : q # p => Magazine'[q] = Magazine[q] /\ Out(q)' = Out(q)
        BY <2>10, <2>11, <1>0 DEF Out, CacheTypeOK
      <4> QED  BY <4>1, <4>2
    <3>3. \A x \in Objects : x # o => Same(x)
      <4>2. \A x \in Objects : x # o => x[1] # o[1] \/ x[2] # o[2]
        BY <3>1 DEF Objects
      <4>3. \A x \in Objects : x # o => (x[2] \in Allocated'[x[1]] <=> x[2] \in Allocated[x[1]])
        BY <1>0, <2>11, <4>2 DEF Objects, CacheTypeOK
      <4> QED  BY <2>10, <2>11, <1>0, <3>1, <4>3 DEF Same, Out, CacheTypeOK
    <3>4. /\ o[2] \in Allocated'[o[1]] <=> o \in inUse' \/ o \in Magazine'[p] \/ o \in Out(p)'
          /\ o \in inUse' => o \notin Magazine'[p] /\ o \notin Out(p)'
          /\ ~(o \in Magazine'[p] /\ o \in Out(p)')
      <4>1. o \notin Magazine[p] /\ o \notin inUse /\ Magazine' = Magazine /\ inUse' = inUse
        BY <2>10, <1>0, <3>1, Alone
      <4>2. Out(p)' = {o}  BY <2>11, <1>0 DEF Out, CacheTypeOK
      <4>3. o[2] \in Allocated'[o[1]]
        BY <2>11, <1>0, <3>1 DEF Objects, CacheTypeOK
      <4> QED  BY <4>1, <4>2, <4>3
    <3> QED  BY <1>0, <3>1, <3>2, <3>3, <3>4, Moves
  <2>12. CASE TookNone(p)
    <3>1. \A q \in CacheCpu : Out(q)' = Out(q)
      BY <1>8, <1>0, <2>12 DEF TookNone, CacheGetLocked, Out, CacheTypeOK
    <3>2. \A x \in Objects : Same(x)  BY <2>10, <2>12, <3>1 DEF TookNone, Same
    <3> QED  BY <1>0, <3>2, Stays
  <2>13. ASSUME Took(p) PROVE PlaceInv'
    <3>1. PICK s \in Slab, i \in Indices :
            /\ i \notin Allocated[s] /\ Allocated' = [Allocated EXCEPT ![s] = @ \cup {i}]
            /\ object' = [object EXCEPT ![p] = <<s, i>>] /\ cachePc' = [cachePc EXCEPT ![p] = "got"]
      BY <2>13 DEF Took
    <3>2. <<s, i>> \in Objects  BY DEF Objects, Indices
    <3>3. <<s, i>>[1] = s /\ <<s, i>>[2] = i  OBVIOUS
    <3> QED  BY <2>11, <3>1, <3>2, <3>3
  <2> QED  BY <2>10, <2>12, <2>13
<1>9. ASSUME NEW p \in CacheCpu, Got(p) PROVE PlaceInv'
  <2>1. object[p] \in Objects /\ object[p] \in Out(p) /\ p \in CacheCpu
    BY <1>9, <1>0 DEF Got, CacheTypeOK, Out
  <2>2. \A q \in CacheCpu : q # p => /\ object[p] \notin Magazine[q] /\ object[p] \notin Out(q)
                                     /\ object[p] \notin Magazine'[q] /\ object[p] \notin Out(q)'
    <3>1. \A q \in CacheCpu : q # p => /\ object[p] \notin Magazine[q] /\ object[p] \notin Out(q)
      BY <1>0, <2>1, Alone
    <3>2. \A q \in CacheCpu : q # p => Magazine'[q] = Magazine[q] /\ Out(q)' = Out(q)
      BY <1>9, <1>0, <2>1 DEF Got, Out, CacheTypeOK
    <3> QED  BY <3>1, <3>2
  <2>3. \A x \in Objects : x # object[p] => Same(x)
    BY <1>9, <1>0 DEF Got, slabVars, Same, Out, CacheTypeOK
  <2>4. /\ object[p][2] \in Allocated'[object[p][1]] <=> object[p] \in inUse' \/ object[p] \in Magazine'[p] \/ object[p] \in Out(p)'
        /\ object[p] \in inUse' => object[p] \notin Magazine'[p] /\ object[p] \notin Out(p)'
        /\ ~(object[p] \in Magazine'[p] /\ object[p] \in Out(p)')
    <3>1. /\ object[p] \notin Magazine[p] /\ Magazine' = Magazine /\ Allocated' = Allocated
          /\ object[p][2] \in Allocated[object[p][1]] /\ object[p] \in inUse'
      BY <1>9, <1>0, <2>1, Alone DEF Got, slabVars
    <3>2. Out(p)' = {}  BY <1>9, <1>0 DEF Got, Out, CacheTypeOK
    <3> QED  BY <3>1, <3>2
  <2> QED  BY <1>0, <2>1, <2>2, <2>3, <2>4, Moves
<1>10. ASSUME NEW p \in CacheCpu, CachePutLocked(p) PROVE PlaceInv'
  <2>1. object[p] \in Objects /\ object[p] \in Out(p) /\ p \in CacheCpu
    BY <1>10, <1>0 DEF CachePutLocked, CacheTypeOK, Out
  <2>2. \A q \in CacheCpu : q # p => /\ object[p] \notin Magazine[q] /\ object[p] \notin Out(q)
                                     /\ object[p] \notin Magazine'[q] /\ object[p] \notin Out(q)'
    <3>1. \A q \in CacheCpu : q # p => /\ object[p] \notin Magazine[q] /\ object[p] \notin Out(q)
      BY <1>0, <2>1, Alone
    <3>2. \A q \in CacheCpu : q # p => Magazine'[q] = Magazine[q] /\ Out(q)' = Out(q)
      BY <1>10, <1>0, <2>1 DEF CachePutLocked, Out, CacheTypeOK
    <3> QED  BY <3>1, <3>2
  <2>3. \A x \in Objects : x # object[p] => Same(x)
    <3>1. Allocated' = [Allocated EXCEPT ![object[p][1]] = @ \ {object[p][2]}]
      BY <1>10 DEF CachePutLocked
    <3>2. \A x \in Objects : x # object[p] => x[1] # object[p][1] \/ x[2] # object[p][2]
      BY <2>1 DEF Objects
    <3>3. \A x \in Objects : x # object[p] => (x[2] \in Allocated'[x[1]] <=> x[2] \in Allocated[x[1]])
      BY <1>0, <3>1, <3>2 DEF Objects, CacheTypeOK
    <3> QED  BY <1>10, <1>0, <3>3 DEF CachePutLocked, Same, Out, CacheTypeOK
  <2>4. /\ object[p][2] \in Allocated'[object[p][1]] <=> object[p] \in inUse' \/ object[p] \in Magazine'[p] \/ object[p] \in Out(p)'
        /\ object[p] \in inUse' => object[p] \notin Magazine'[p] /\ object[p] \notin Out(p)'
        /\ ~(object[p] \in Magazine'[p] /\ object[p] \in Out(p)')
    <3>1. object[p] \notin Magazine[p] /\ object[p] \notin inUse /\ Magazine' = Magazine /\ inUse' = inUse
      BY <1>10, <1>0, <2>1, Alone DEF CachePutLocked
    <3>2. Out(p)' = {}  BY <1>10, <1>0 DEF CachePutLocked, Out, CacheTypeOK
    <3>3. object[p][2] \notin Allocated'[object[p][1]]
      BY <1>10, <1>0, <2>1 DEF CachePutLocked, Objects, CacheTypeOK
    <3> QED  BY <3>1, <3>2, <3>3
  <2> QED  BY <1>0, <2>1, <2>2, <2>3, <2>4, Moves
<1>11. ASSUME NEW p \in CacheCpu, Gave(p) PROVE PlaceInv'
  <2>1. \A x \in Objects : Same(x)  BY <1>11 DEF Gave, slabVars, Same, Out
  <2> QED  BY <1>0, <2>1, Stays
<1>12. ASSUME NEW p \in CacheCpu, NEW o \in Objects, CachePut(p, o) PROVE PlaceInv'
  <2>1. o \in Objects /\ o \in inUse /\ p \in CacheCpu /\ Out(p) = {}
    BY <1>12 DEF CachePut, Out
  <2>2. \A q \in CacheCpu : q # p => /\ o \notin Magazine[q] /\ o \notin Out(q)
                                     /\ o \notin Magazine'[q] /\ o \notin Out(q)'
    <3>1. \A q \in CacheCpu : q # p => /\ o \notin Magazine[q] /\ o \notin Out(q)
      BY <1>0, <2>1, Alone
    <3>2. \A q \in CacheCpu : q # p => Magazine'[q] = Magazine[q] /\ Out(q)' = Out(q)
      BY <1>12, <1>0, <2>1 DEF CachePut, Out, CacheTypeOK
    <3> QED  BY <3>1, <3>2
  <2>3. \A x \in Objects : x # o => Same(x)
    BY <1>12, <1>0, <2>1 DEF CachePut, slabVars, Same, Out, CacheTypeOK
  <2>4. /\ o[2] \in Allocated'[o[1]] <=> o \in inUse' \/ o \in Magazine'[p] \/ o \in Out(p)'
        /\ o \in inUse' => o \notin Magazine'[p] /\ o \notin Out(p)'
        /\ ~(o \in Magazine'[p] /\ o \in Out(p)')
    <3>1. /\ o \notin Magazine[p] /\ o \notin inUse' /\ Allocated' = Allocated /\ o[2] \in Allocated[o[1]]
      BY <1>12, <1>0, <2>1, Alone DEF CachePut, slabVars
    <3>2. \/ o \in Magazine'[p] /\ Out(p)' = {}
          \/ Magazine' = Magazine /\ Out(p)' = {o}
      BY <1>12, <1>0, <2>1 DEF CachePut, Out, CacheTypeOK
    <3> QED  BY <3>1, <3>2
  <2> QED  BY <1>0, <2>1, <2>2, <2>3, <2>4, Moves
<1>13. CASE UNCHANGED cacheVars
  <2>1. \A x \in Objects : Same(x)  BY <1>13 DEF cacheVars, slabVars, Same, Out
  <2> QED  BY <1>0, <2>1, Stays
<1> QED
  BY <1>1, <1>2, <1>3, <1>4, <1>5, <1>6, <1>7, <1>8, <1>9, <1>10, <1>11, <1>12, <1>13
  DEF CacheNext

\* What CurrentObjects counts is finite.
LEMMA FiniteHere ==
  ASSUME CacheTypeOK
  PROVE  /\ IsFiniteSet(inUse) /\ Cardinality(inUse) \in Nat
         /\ IsFiniteSet(Counted) /\ Cardinality(Counted) \in Nat
<1>1. IsFiniteSet(Indices)
  <2>1. \E S \in SUBSET Indices : S = Indices  OBVIOUS
  <2> QED  BY <2>1, IndexSets
<1>2. IsFiniteSet(Slab \X Indices)  BY <1>1, CacheAssumption, FS_Product
<1>3. inUse \subseteq Slab \X Indices  BY DEF CacheTypeOK, Objects, Indices
<1>4. IsFiniteSet(inUse)  BY <1>2, <1>3, FS_Subset
<1>5. Counted \subseteq CacheCpu  BY DEF Counted
<1>6. IsFiniteSet(Counted)  BY <1>5, CacheAssumption, FS_Subset
<1> QED  BY <1>4, <1>6, FS_CardinalityType

\* CurrentObjects, action by action: Got and Gave make up for what CacheGet and
\* CachePut did before.
LEMMA CountStep == CacheIInv /\ [CacheNext]_cacheVars => CountInv'
<1> SUFFICES ASSUME CacheIInv, [CacheNext]_cacheVars PROVE CountInv'
  OBVIOUS
<1>0. /\ CacheTypeOK /\ PlaceInv /\ CurrentObjects \in Int
      /\ IsFiniteSet(inUse) /\ Cardinality(inUse) \in Nat /\ IsFiniteSet(Counted) /\ Cardinality(Counted) \in Nat
      /\ CurrentObjects = Cardinality(inUse) + Cardinality(Counted)
  BY FiniteHere DEF CacheIInv, CountInv, CacheTypeOK
<1>1. CASE CacheCreate
  <2>1. Counted' = Counted  BY <1>1, <1>0 DEF CacheCreate, Counted, CacheTypeOK
  <2>2. inUse' = inUse /\ CurrentObjects' = CurrentObjects  BY <1>1 DEF CacheCreate, cacheVars
  <2> QED  BY <1>0, <2>1, <2>2 DEF CountInv
<1>2. CASE CacheMonitor
  <2>1. Counted' = Counted  BY <1>2, <1>0 DEF CacheMonitor, Counted, CacheTypeOK
  <2>2. inUse' = inUse /\ CurrentObjects' = CurrentObjects  BY <1>2 DEF CacheMonitor, cacheVars
  <2> QED  BY <1>0, <2>1, <2>2 DEF CountInv
<1>3. CASE MonitorSpill
  <2>1. Counted' = Counted  BY <1>3, <1>0 DEF MonitorSpill, Counted, CacheTypeOK
  <2>2. inUse' = inUse /\ CurrentObjects' = CurrentObjects  BY <1>3 DEF MonitorSpill, cacheVars
  <2> QED  BY <1>0, <2>1, <2>2 DEF CountInv
<1>4. CASE CacheDestroy
  <2>1. Counted' = Counted  BY <1>4, <1>0 DEF CacheDestroy, Counted, CacheTypeOK
  <2>2. inUse' = inUse /\ CurrentObjects' = CurrentObjects  BY <1>4 DEF CacheDestroy, cacheVars
  <2> QED  BY <1>0, <2>1, <2>2 DEF CountInv
<1>5. CASE CacheFlushMagazines
  <2>1. Counted' = Counted  BY <1>5, <1>0 DEF CacheFlushMagazines, Counted, CacheTypeOK
  <2>2. inUse' = inUse /\ CurrentObjects' = CurrentObjects
    BY <1>5 DEF CacheFlushMagazines, cacheVars
  <2> QED  BY <1>0, <2>1, <2>2 DEF CountInv
<1>6. CASE CacheDestroyed
  <2>1. Counted' = Counted  BY <1>6, <1>0 DEF CacheDestroyed, Counted, CacheTypeOK
  <2>2. inUse' = inUse /\ CurrentObjects' = CurrentObjects
    BY <1>6 DEF CacheDestroyed, cacheVars
  <2> QED  BY <1>0, <2>1, <2>2 DEF CountInv
<1>7. ASSUME NEW p \in CacheCpu, CacheGet(p) PROVE CountInv'
  <2>1. Counted' = Counted  BY <1>7, <1>0 DEF CacheGet, Counted, CacheTypeOK
  <2>2. inUse' = inUse /\ CurrentObjects' = CurrentObjects  BY <1>7 DEF CacheGet, cacheVars
  <2> QED  BY <1>0, <2>1, <2>2 DEF CountInv
<1>8. ASSUME NEW p \in CacheCpu, CacheGetLocked(p) PROVE CountInv'
  <2>1. \A q \in CacheCpu : cachePc'[q] \in {"put", "gave"} <=> cachePc[q] \in {"put", "gave"}
    <3>1. (Took(p) \/ TookNone(p)) /\ cachePc[p] = "get"  BY <1>8, LockedGet DEF CacheGetLocked
    <3>2. cachePc' = [cachePc EXCEPT ![p] = "got"] \/ cachePc' = [cachePc EXCEPT ![p] = "idle"]
      BY <3>1 DEF Took, TookNone
    <3> QED  BY <1>0, <3>1, <3>2 DEF CacheTypeOK
  <2>2. Counted' = Counted  BY <2>1 DEF Counted
  <2>3. inUse' = inUse /\ CurrentObjects' = CurrentObjects  BY <1>8 DEF CacheGetLocked
  <2> QED  BY <1>0, <2>2, <2>3 DEF CountInv
<1>9. ASSUME NEW p \in CacheCpu, Got(p) PROVE CountInv'
  <2>1. Counted' = Counted  BY <1>9, <1>0 DEF Got, Counted, CacheTypeOK
  <2>2. object[p] \notin inUse
    <3>1. object[p] \in Objects /\ object[p] \in Out(p)  BY <1>9, <1>0 DEF Got, CacheTypeOK, Out
    <3> QED  BY <1>0, <3>1, Alone
  <2>3. Cardinality(inUse \cup {object[p]}) = Cardinality(inUse) + 1
    BY <1>0, <2>2, FS_AddElement
  <2>4. inUse' = inUse \cup {object[p]} /\ CurrentObjects' = CurrentObjects + 1  BY <1>9 DEF Got
  <2> QED  BY <1>0, <2>1, <2>3, <2>4 DEF CountInv
<1>10. ASSUME NEW p \in CacheCpu, CachePutLocked(p) PROVE CountInv'
  <2>1. Counted' = Counted  BY <1>10, <1>0 DEF CachePutLocked, Counted, CacheTypeOK
  <2>2. inUse' = inUse /\ CurrentObjects' = CurrentObjects
    BY <1>10 DEF CachePutLocked, cacheVars
  <2> QED  BY <1>0, <2>1, <2>2 DEF CountInv
<1>11. ASSUME NEW p \in CacheCpu, Gave(p) PROVE CountInv'
  <2>1. Counted' = Counted \ {p} /\ p \in Counted  BY <1>11, <1>0 DEF Gave, Counted, CacheTypeOK
  <2>2. Cardinality(Counted \ {p}) = Cardinality(Counted) - 1  BY <1>0, <2>1, FS_RemoveElement
  <2>3. inUse' = inUse /\ CurrentObjects' = CurrentObjects - 1  BY <1>11 DEF Gave
  <2> QED  BY <1>0, <2>1, <2>2, <2>3 DEF CountInv
<1>12. ASSUME NEW p \in CacheCpu, NEW o \in Objects, CachePut(p, o) PROVE CountInv'
  <2>1. Counted' = Counted \cup {p} /\ p \notin Counted
    BY <1>12, <1>0 DEF CachePut, Counted, CacheTypeOK
  <2>2. inUse' = inUse \ {o} /\ o \in inUse /\ CurrentObjects' = CurrentObjects
    BY <1>12 DEF CachePut
  <2>3. Cardinality(Counted \cup {p}) = Cardinality(Counted) + 1  BY <1>0, <2>1, FS_AddElement
  <2>4. Cardinality(inUse \ {o}) = Cardinality(inUse) - 1  BY <1>0, <2>2, FS_RemoveElement
  <2> QED  BY <1>0, <2>1, <2>2, <2>3, <2>4 DEF CountInv
<1>13. CASE UNCHANGED cacheVars
  <2>1. Counted' = Counted  BY <1>13, <1>0 DEF cacheVars, Counted, CacheTypeOK
  <2>2. inUse' = inUse /\ CurrentObjects' = CurrentObjects  BY <1>13 DEF cacheVars
  <2> QED  BY <1>0, <2>1, <2>2 DEF CountInv
<1> QED
  BY <1>1, <1>2, <1>3, <1>4, <1>5, <1>6, <1>7, <1>8, <1>9, <1>10, <1>11, <1>12, <1>13
  DEF CacheNext

-----------------------------------------------------------------------------
\* The invariant holds at the start, and after every step.
LEMMA CacheStart == CacheInit => CacheIInv
<1> SUFFICES ASSUME CacheInit PROVE CacheIInv
  OBVIOUS
<1>0. SlabSize \in Nat \ {0} /\ Len(SlabList) = 0 /\ OnList = {}
  BY CacheAssumption DEF CacheInit, OnList
<1>1. CacheTypeOK
  BY DEF CacheInit, CacheTypeOK, Points, Doing, Idle
<1>2. Distinct(SlabList)  BY <1>0 DEF Distinct
<1>3. SlabInv
  <2>1. 0 \in 0 .. SlabSize /\ {} = 0 .. 0 - 1  BY <1>0
  <2> QED  BY <1>0, <2>1 DEF CacheInit, SlabInv
<1>4. PlaceInv
  <2>1. \A p \in CacheCpu : Out(p) = {} /\ Magazine[p] = {}  BY DEF CacheInit, Out
  <2>2. \A o \in Objects : o[2] \notin Allocated[o[1]]  BY DEF CacheInit, Objects
  <2> QED  BY <2>1, <2>2 DEF CacheInit, PlaceInv, Holds
<1>5. CountInv
  <2>1. Counted = {}  BY DEF CacheInit, Counted
  <2> QED  BY <2>1, FS_EmptySet DEF CacheInit, CountInv
<1>6. LifeInv  BY DEF CacheInit, LifeInv, Idle
<1>7. OrderInv  BY DEF CacheInit, OrderInv
<1> QED  BY <1>1, <1>2, <1>3, <1>4, <1>5, <1>6, <1>7 DEF CacheIInv

\* Every step keeps it.
LEMMA CacheStep == CacheIInv /\ [CacheNext]_cacheVars => CacheIInv'
<1> SUFFICES ASSUME CacheIInv, [CacheNext]_cacheVars PROVE CacheIInv'
  OBVIOUS
<1>1. SlabsKept /\ OrderInv'  BY SlabsStep DEF SlabsAfter
<1>2. RestTyped  BY TypesStep
<1>3. CacheTypeOK'  BY <1>1, <1>2 DEF SlabsKept, RestTyped, CacheTypeOK, Masks
<1>4. PlaceInv' /\ CountInv' /\ LifeInv'  BY PlaceStep, CountStep, LifeStep
<1> QED  BY <1>1, <1>3, <1>4 DEF SlabsKept, CacheIInv

\* So it holds always.
LEMMA CacheAlways == CacheSpec => []CacheIInv
<1> QED  BY CacheStart, CacheStep, PTL DEF CacheSpec

\* The two parts of CacheInv follow from it.
LEMMA Placed == CacheIInv => ObjectsPlaced
<1> SUFFICES ASSUME CacheIInv PROVE ObjectsPlaced
  OBVIOUS
<1>0. CacheTypeOK /\ PlaceInv /\ SlabInv /\ CountInv  BY DEF CacheIInv
<1>1. \A o \in Objects : \A p \in CacheCpu : Holds(p, o) <=> o \in Magazine[p] \/ o \in Out(p)
  BY DEF Holds
<1>2. \A p \in CacheCpu : Out(p) \subseteq Objects /\ Magazine[p] \subseteq Objects
  BY <1>0 DEF Out, CacheTypeOK
<1>3. inUse \subseteq Objects  BY <1>0 DEF CacheTypeOK
<1>4. {o \in Objects : o[2] \in Allocated[o[1]]} = inUse \cup UNION {Magazine[p] \cup Out(p) : p \in CacheCpu}
  <2>1. ASSUME NEW o \in {x \in Objects : x[2] \in Allocated[x[1]]}
        PROVE  o \in inUse \cup UNION {Magazine[p] \cup Out(p) : p \in CacheCpu}
    <3>1. o \in inUse \/ \E p \in CacheCpu : Holds(p, o)  BY <1>0 DEF PlaceInv
    <3> QED  BY <1>1, <3>1
  <2>2. ASSUME NEW o \in inUse \cup UNION {Magazine[p] \cup Out(p) : p \in CacheCpu}
        PROVE  o \in {x \in Objects : x[2] \in Allocated[x[1]]}
    <3>1. o \in Objects /\ (o \in inUse \/ \E p \in CacheCpu : Holds(p, o))
      BY <1>1, <1>2, <1>3, <2>2
    <3> QED  BY <1>0, <3>1 DEF PlaceInv
  <2> QED  BY <2>1, <2>2
<1>5. \A p \in CacheCpu : Out(p) \cap (inUse \cup Magazine[p]) = {} /\ Magazine[p] \cap inUse = {}
  <2>1. ASSUME NEW p \in CacheCpu, NEW o \in Objects
        PROVE  ~(o \in Out(p) /\ (o \in inUse \/ o \in Magazine[p])) /\ ~(o \in Magazine[p] /\ o \in inUse)
    BY <1>0, <1>1 DEF PlaceInv
  <2> QED  BY <1>2, <2>1
<1>6. \A p, q \in CacheCpu : p # q => (Magazine[p] \cup Out(p)) \cap (Magazine[q] \cup Out(q)) = {}
  <2>1. ASSUME NEW p \in CacheCpu, NEW q \in CacheCpu, p # q, NEW o \in Objects
        PROVE  ~(o \in Magazine[p] \cup Out(p) /\ o \in Magazine[q] \cup Out(q))
    BY <1>0, <1>1, <2>1 DEF PlaceInv
  <2> QED  BY <1>2, <2>1
<1>7. \A s \in Slab : Constructed[s] = 0 .. Cardinality(Constructed[s]) - 1
  <2>1. SUFFICES ASSUME NEW s \in Slab PROVE Constructed[s] = 0 .. Cardinality(Constructed[s]) - 1
    OBVIOUS
  <2>2. PICK k \in 0 .. SlabSize : Constructed[s] = 0 .. k - 1  BY <1>0 DEF SlabInv
  <2>3. k \in Nat  BY CacheAssumption
  <2>4. Cardinality(0 .. k - 1) = k
    <3>1. CASE k = 0
      <4>1. 0 .. k - 1 = {}  BY <3>1
      <4> QED  BY <3>1, <4>1, FS_EmptySet
    <3>2. CASE k # 0
      <4>1. 0 \in Int /\ k - 1 \in Int /\ ~(0 > k - 1) /\ k - 1 - 0 + 1 = k  BY <2>3, <3>2
      <4> QED  BY <4>1, FS_Interval
    <3> QED  BY <3>1, <3>2
  <2> QED  BY <2>2, <2>4
<1>8. \A s \in Slab : Allocated[s] \subseteq Constructed[s]  BY <1>0 DEF SlabInv
<1>9. \A s \in Slab \ OnList : Constructed[s] = {}  BY <1>0 DEF SlabInv
<1>10. CurrentObjects = Cardinality(inUse) + Cardinality({p \in CacheCpu : cachePc[p] \in {"put", "gave"}})
  BY <1>0 DEF CountInv, Counted
<1> QED  BY <1>4, <1>5, <1>6, <1>7, <1>8, <1>9, <1>10 DEF ObjectsPlaced

\* The list of slabs, as CacheAudit reads it.
LEMMA Ordered == CacheIInv => SlabsOrdered
<1> SUFFICES ASSUME CacheIInv, life = "live" PROVE SlabsOrdered
  BY DEF SlabsOrdered
<1>0. /\ CacheTypeOK /\ SlabList \in Seq(Slab) /\ Allocated \in Masks
      /\ Descending(SlabList, Allocated) /\ CursorAt(SlabList, Allocated, Cursor)
      /\ Reservation <= Count /\ Count <= Cap
  BY DEF CacheIInv, CacheTypeOK, OrderInv, Masks
<1>1. DOMAIN SlabList = 1 .. Len(SlabList) /\ \A i \in DOMAIN SlabList : SlabList[i] \in Slab
  BY <1>0
<1>2. \A s \in Slab : Taken(Allocated, s) \in 0 .. SlabSize /\ (Full(Allocated, s) <=> Taken(Allocated, s) = SlabSize)
  BY <1>0, TakenBound, FullTaken
<1>3. \A i, j \in DOMAIN SlabList :
         i < j => Cardinality(Allocated[SlabList[i]]) >= Cardinality(Allocated[SlabList[j]])
  BY <1>0, <1>1 DEF Descending, Taken
<1>4. ASSUME NEW i \in DOMAIN SlabList, ~Full(Allocated, SlabList[i]),
             \A j \in 1 .. i - 1 : Full(Allocated, SlabList[j])
      PROVE  Cursor = SlabList[i]
  <2>1. Taken(Allocated, SlabList[i]) < SlabSize  BY <1>1, <1>2, <1>4, CacheAssumption
  <2>2. \A j \in 1 .. i - 1 : j \in DOMAIN SlabList  BY <1>1
  <2>3. \A j \in 1 .. i - 1 : Taken(Allocated, SlabList[j]) = SlabSize
    BY <1>1, <1>2, <1>4, <2>2
  <2> QED  BY <1>0, <1>1, <2>1, <2>3 DEF CursorAt
<1>5. Cursor = "head" <=> \A s \in OnList : Full(Allocated, s)
  <2>1. (\A s \in OnList : Full(Allocated, s)) <=> \A i \in 1 .. Len(SlabList) : Taken(Allocated, SlabList[i]) = SlabSize
    BY <1>1, <1>2 DEF OnList
  <2>2. (\A i \in 1 .. Len(SlabList) : Taken(Allocated, SlabList[i]) = SlabSize) => Cursor = "head"
    BY <1>0 DEF CursorAt
  <2>3. ASSUME Cursor = "head" PROVE \A i \in 1 .. Len(SlabList) : Taken(Allocated, SlabList[i]) = SlabSize
    <3>1. \A i \in 1 .. Len(SlabList) : SlabList[i] # Cursor  BY <1>1, <2>3, CacheAssumption
    <3> QED  BY <1>0, <3>1, CursorFound
  <2> QED  BY <2>1, <2>2, <2>3
<1> QED  BY <1>0, <1>3, <1>4, <1>5 DEF SlabsOrdered

\* Every object that a slab counts as out is with one client, in one magazine or in
\* the hands of one processor; CurrentObjects counts what clients have; the slabs of
\* a live cache are in order of occupancy with the cursor at the first that has
\* room, and between them hold the reservation and no more than the cap.  CacheGet,
\* CachePut, the monitor's CacheSpill and CacheDestroy keep this for any number of
\* processors, slabs and objects in a slab and any size of the magazines.
THEOREM ObjectsInOnePlace == CacheSpec => []CacheInv
<1>1. CacheIInv => CacheInv  BY Placed, Ordered DEF CacheInv
<1> QED  BY <1>1, CacheAlways, PTL

\* CacheDestroy finds every object back and every slab gone: the flush of the
\* magazines and CacheSpill(0) leave no slab and CurrentObjects 0, so its
\* assertions hold.
THEOREM DestroyedCachesAreEmpty == CacheSpec => CacheDrained
<1>1. CacheIInv /\ [CacheNext]_cacheVars
        => [life = "flushed" /\ life' # "flushed" => SlabList' = <<>> /\ CurrentObjects' = 0]_cacheVars
  <2> SUFFICES ASSUME CacheIInv, [CacheNext]_cacheVars, life = "flushed", life' # "flushed"
      PROVE  SlabList' = <<>> /\ CurrentObjects' = 0
    OBVIOUS
  <2>1. \A p \in CacheCpu : cachePc[p] = "idle"  BY DEF CacheIInv, LifeInv
  <2>2. CacheDestroyed
    <3>1. ~CacheCreate /\ ~CacheMonitor /\ ~CacheDestroy /\ ~CacheFlushMagazines
      BY DEF CacheCreate, CacheMonitor, CacheDestroy, CacheFlushMagazines
    <3>2. ~MonitorSpill  BY DEF MonitorSpill, CacheIInv, LifeInv
    <3>3. \A p \in CacheCpu : ~CacheGet(p) /\ ~CacheGetLocked(p) /\ ~Got(p) /\ ~CachePutLocked(p) /\ ~Gave(p)
      BY <2>1 DEF CacheGet, CacheGetLocked, Got, CachePutLocked, Gave
    <3>4. \A p \in CacheCpu, o \in Objects : ~CachePut(p, o)  BY DEF CachePut
    <3>5. ~UNCHANGED cacheVars  BY DEF cacheVars
    <3> QED  BY <3>1, <3>2, <3>3, <3>4, <3>5 DEF CacheNext
  <2>3. SlabList' = <<>>  BY <2>2, SpillStep
  <2>4. inUse = {} /\ Counted = {} /\ CurrentObjects = Cardinality(inUse) + Cardinality(Counted)
    BY <2>1 DEF CacheIInv, LifeInv, CountInv, Counted
  <2>5. CurrentObjects' = CurrentObjects  BY <2>2 DEF CacheDestroyed
  <2> QED  BY <2>3, <2>4, <2>5, FS_EmptySet
<1> QED  BY <1>1, CacheAlways, PTL DEF CacheSpec, CacheDrained

-----------------------------------------------------------------------------
(* Modules.                                                                *)

InOrder(l) == \A j, k \in 1 .. Len(l) : j < k => l[j].End < l[k].Start
ModulesOf(l) == {l[k] : k \in 1 .. Len(l)}

\* The list and the cursor before each turn of the loop of ModuleAdd.
Turns == {s \in [l : Seq(Module), c : Nat] :
            /\ InOrder(s.l)
            /\ s.c <= Len(s.l)
            /\ s.c = 0 <=> s.l = << >>}

ModuleIInv ==
  /\ [l |-> modules, c |-> here] \in Turns
  /\ loaded = ModulesOf(modules)
  /\ misplaced = FALSE

LEMMA ModuleBounds ==
  ASSUME NEW m \in Module
  PROVE  m.Start \in Int /\ m.End \in Int /\ m.Start <= m.End
BY DEF Module

LEMMA InsertedModule ==
  ASSUME NEW list \in Seq(Module), NEW at \in 1 .. Len(list) + 1, NEW m \in Module
  PROVE  /\ InsertAt(list, at, m) \in Seq(Module) /\ Len(InsertAt(list, at, m)) = Len(list) + 1
         /\ \A j \in 1 .. Len(list) + 1 :
              InsertAt(list, at, m)[j] = IF j < at THEN list[j] ELSE IF j = at THEN m ELSE list[j - 1]
BY Inserted

\* The searches stop at the first module that they do not pass over.
LEMMA Forwards ==
  ASSUME NEW l \in Seq(Module), NEW c \in 1 .. Len(l), NEW a \in Int
  PROVE  \/ /\ ModuleSearchForwards(l, c, a) = 0
            /\ \A j \in c .. Len(l) : l[j].End < a
         \/ \E k \in c .. Len(l) :
              /\ ModuleSearchForwards(l, c, a) = k
              /\ a <= l[k].End
              /\ \A j \in c .. k - 1 : l[j].End < a
<1> DEFINE Stop(k) == a <= l[k].End /\ \A j \in c .. k - 1 : l[j].End < a
<1>1. ASSUME NEW j \in c .. Len(l) PROVE l[j].End \in Int
  BY ModuleBounds
<1>2. CASE \A j \in c .. Len(l) : l[j].End < a
  BY <1>2 DEF ModuleSearchForwards
<1>3. CASE ~\A j \in c .. Len(l) : l[j].End < a
  <2> DEFINE found == {k \in c .. Len(l) : ~(l[k].End < a)}
  <2>1. found \in SUBSET Nat /\ found # {}
    BY <1>3
  <2>2. PICK k \in found : \A m \in found : k <= m
    <3> HIDE DEF found
    <3> QED  BY <2>1, LeastNumber
  <2>3. Stop(k) /\ k \in c .. Len(l)
    <3>1. a <= l[k].End
      BY <1>1
    <3>2. ASSUME NEW j \in c .. k - 1 PROVE l[j].End < a
      <4>1. j \in c .. Len(l) /\ ~(k <= j)
        OBVIOUS
      <4> QED
        BY <4>1, <2>2
    <3> QED
      BY <3>1, <3>2
  <2>4. ModuleSearchForwards(l, c, a) = CHOOSE i \in c .. Len(l) : Stop(i)
    BY <1>3 DEF ModuleSearchForwards
  <2> DEFINE r == CHOOSE i \in c .. Len(l) : Stop(i)
  <2>5. r \in c .. Len(l) /\ Stop(r)
    <3> HIDE DEF Stop
    <3> QED  BY <2>3
  <2> QED
    BY <2>4, <2>5
<1> QED
  BY <1>2, <1>3

LEMMA Backwards ==
  ASSUME NEW l \in Seq(Module), NEW c \in 1 .. Len(l), NEW a \in Int
  PROVE  \/ /\ ModuleSearchBackwards(l, c, a) = 0
            /\ \A j \in 1 .. c : a < l[j].Start
         \/ \E k \in 1 .. c :
              /\ ModuleSearchBackwards(l, c, a) = k
              /\ l[k].Start <= a
              /\ \A j \in k + 1 .. c : a < l[j].Start
<1> DEFINE Stop(k) == l[k].Start <= a /\ \A j \in k + 1 .. c : a < l[j].Start
<1>1. ASSUME NEW j \in 1 .. c PROVE l[j].Start \in Int
  BY ModuleBounds
<1>2. CASE \A j \in 1 .. c : a < l[j].Start
  BY <1>2 DEF ModuleSearchBackwards
<1>3. CASE ~\A j \in 1 .. c : a < l[j].Start
  <2> DEFINE found == {k \in 1 .. c : ~(a < l[k].Start)}
  <2>1. found \in SUBSET (1 .. c) /\ found # {} /\ c \in Nat
    BY <1>3
  <2>2. LastOf(found) \in found /\ \A m \in found : LastOf(found) >= m
    <3> HIDE DEF found
    <3> QED  BY <2>1, LastFound
  <2> DEFINE k == LastOf(found)
  <2>3. Stop(k) /\ k \in 1 .. c
    <3>0. k \in found /\ \A m \in found : k >= m
      BY <2>2
    <3> HIDE DEF k
    <3>1. k \in 1 .. c /\ l[k].Start <= a
      BY <1>1, <3>0
    <3>2. ASSUME NEW j \in k + 1 .. c PROVE a < l[j].Start
      <4>1. j \in 1 .. c /\ ~(k >= j)
        BY <3>1
      <4> QED
        BY <4>1, <3>0
    <3> QED
      BY <3>1, <3>2
  <2>4. ModuleSearchBackwards(l, c, a) = CHOOSE i \in 1 .. c : Stop(i)
    BY <1>3 DEF ModuleSearchBackwards
  <2> DEFINE r == CHOOSE i \in 1 .. c : Stop(i)
  <2>5. r \in 1 .. c /\ Stop(r)
    <3> HIDE DEF Stop, k
    <3> QED  BY <2>3
  <2> QED
    BY <2>4, <2>5
<1> QED
  BY <1>2, <1>3

\* A turn that finds a module in the way: its place, by the case it is in ...
LEMMA FoundInTheWay ==
  ASSUME NEW s \in Turns, NEW new \in Module, InTheWay(s, new)
  PROVE  /\ s.c \in 1 .. Len(s.l)
         /\ Reached(s, new) \in 1 .. Len(s.l)
         /\ Overlap(s.l[Reached(s, new)], new)
         /\ s.l[s.c].End < new.Start => Reached(s, new) > s.c
         /\ new.End < s.l[s.c].Start => Reached(s, new) < s.c
<1> DEFINE l == s.l
<1> DEFINE c == s.c
<1>1. l \in Seq(Module) /\ c \in Nat /\ c <= Len(l) /\ (c = 0 <=> l = << >>)
  BY DEF Turns
<1>2. c # 0
  BY DEF InTheWay, Reached
<1>3. c \in 1 .. Len(l) /\ l[c] \in Module
  BY <1>1, <1>2
<1>4. /\ l[c].Start \in Int /\ l[c].End \in Int /\ l[c].Start <= l[c].End
      /\ new.Start \in Int /\ new.End \in Int /\ new.Start <= new.End
  BY <1>3, ModuleBounds
<1> DEFINE k == Reached(s, new)
<1>5. k # 0 /\ Overlap(l[k], new)
  BY DEF InTheWay
<1>6. CASE l[c].End < new.Start
  <2>5. ~(new.End < l[c].Start)
    BY <1>4, <1>6
  <2>1. k = ModuleSearchForwards(l, c, new.Start)
    BY <1>2, <1>6, <2>5 DEF Reached
  <2>2. k \in c .. Len(l) /\ new.Start <= l[k].End
    <3> HIDE DEF k, l, c
    <3> QED  BY <2>1, <1>1, <1>3, <1>4, <1>5, Forwards
  <2>3. k # c
    BY <2>2, <1>4, <1>6
  <2> HIDE DEF k
  <2>4. k > c /\ k \in 1 .. Len(l)
    BY <2>2, <2>3, <1>3
  <2> QED
    BY <2>4, <2>5, <1>3, <1>5 DEF k
<1>7. CASE new.End < l[c].Start
  <2>0. ~(l[c].End < new.Start)
    BY <1>4, <1>7
  <2>1. k = ModuleSearchBackwards(l, c, new.End)
    BY <1>2, <1>7, <2>0 DEF Reached
  <2>2. k \in 1 .. c /\ l[k].Start <= new.End
    <3> HIDE DEF k, l, c
    <3> QED  BY <2>1, <1>1, <1>3, <1>4, <1>5, Backwards
  <2>3. k # c
    BY <2>2, <1>4, <1>7
  <2> HIDE DEF k
  <2>4. k < c /\ k \in 1 .. Len(l)
    BY <2>2, <2>3, <1>3
  <2> QED
    BY <2>0, <2>4, <1>3, <1>5 DEF k
<1>8. CASE ~(l[c].End < new.Start) /\ ~(new.End < l[c].Start)
  <2>1. k = c
    BY <1>2, <1>8 DEF Reached
  <2> HIDE DEF k
  <2> QED
    BY <2>1, <1>3, <1>5, <1>8 DEF k
<1> QED
  BY <1>6, <1>7, <1>8

\* ... and the list without it, which the next turn starts with.
LEMMA TurnTaken ==
  ASSUME NEW s \in Turns, NEW new \in Module, InTheWay(s, new)
  PROVE  /\ WithoutOne(s, new) \in Turns
         /\ Len(WithoutOne(s, new).l) = Len(s.l) - 1
         /\ ModulesOf(WithoutOne(s, new).l) \subseteq ModulesOf(s.l)
         /\ \A m \in ModulesOf(s.l) : m \in ModulesOf(WithoutOne(s, new).l) \/ Overlap(m, new)
<1> DEFINE l == s.l
<1> DEFINE c == s.c
<1> DEFINE k == Reached(s, new)
<1> DEFINE t == RemoveAt(l, k)
<1> DEFINE d == WithoutOne(s, new).c
<1>1. l \in Seq(Module) /\ InOrder(l)
  BY DEF Turns
<1>2. /\ c \in 1 .. Len(l) /\ k \in 1 .. Len(l) /\ Overlap(l[k], new)
      /\ l[c].End < new.Start => k > c
      /\ new.End < l[c].Start => k < c
  BY FoundInTheWay
<1>3. /\ t \in Seq(Module) /\ Len(t) = Len(l) - 1
      /\ \A j \in 1 .. Len(l) - 1 : t[j] = IF j < k THEN l[j] ELSE l[j + 1]
  <2> HIDE DEF l, k
  <2> QED  BY <1>1, <1>2, Removed
<1>4. WithoutOne(s, new) = [l |-> t, c |-> d]
  BY DEF WithoutOne
<1>5. d \in 0 .. Len(l) - 1 /\ (d = 0 <=> Len(l) = 1)
  <2> DEFINE next == IF k < Len(l) THEN k ELSE 0
  <2>1. d = CASE l[c].End < new.Start -> k - 1
              [] new.End < l[c].Start -> next
              [] OTHER -> IF next # 0 THEN next ELSE k - 1
    BY DEF WithoutOne
  <2>2. ~(l[c].End < new.Start /\ new.End < l[c].Start)
    BY <1>2
  <2>3. (~(l[c].End < new.Start) /\ ~(new.End < l[c].Start)) => k = c
    BY <1>2 DEF Reached
  <2>4. CASE l[c].End < new.Start
    <3>1. d = k - 1 /\ k > c
      BY <1>2, <2>1, <2>2, <2>4
    <3> HIDE DEF d, k, c, l
    <3> QED  BY <1>2, <3>1
  <2>5. CASE new.End < l[c].Start
    <3>1. d = next /\ k < c
      BY <1>2, <2>1, <2>2, <2>5
    <3> HIDE DEF d, k, c, l
    <3> QED  BY <1>2, <3>1
  <2>6. CASE ~(l[c].End < new.Start) /\ ~(new.End < l[c].Start)
    <3>1. d = IF next # 0 THEN next ELSE k - 1
      BY <2>1, <2>6
    <3> DEFINE n == Len(l)
    <3>2. n \in Nat /\ k \in 1 .. n
      BY <1>1, <1>2
    <3>3. d = IF k < n THEN k ELSE k - 1
      <4>1. d = IF next # 0 THEN next ELSE k - 1
        BY <3>1
      <4>2. k < n => next = k /\ k # 0
        BY <3>2
      <4>3. ~(k < n) => next = 0
        OBVIOUS
      <4> HIDE DEF d, k, n, next
      <4> QED  BY <4>1, <4>2, <4>3
    <3> HIDE DEF d, k, n
    <3>4. d \in 0 .. n - 1 /\ (d = 0 <=> n = 1)
      BY <3>2, <3>3
    <3> QED  BY <3>4 DEF n
  <2> QED
    BY <2>4, <2>5, <2>6
<1> HIDE DEF d, k, t
<1>6. Len(l) \in Nat /\ (t = << >> <=> Len(l) = 1)
  <2>1. Len(l) \in Nat /\ t \in Seq(Module)
    BY <1>1, <1>3
  <2>2. t = << >> <=> Len(t) = 0
    BY <2>1
  <2> HIDE DEF l
  <2> QED
    BY <1>3, <2>1, <2>2
<1>7. InOrder(t)
  <2> SUFFICES ASSUME NEW i \in 1 .. Len(t), NEW j \in 1 .. Len(t), i < j
               PROVE  t[i].End < t[j].Start
    BY DEF InOrder
  <2> DEFINE p == IF i < k THEN i ELSE i + 1
  <2> DEFINE q == IF j < k THEN j ELSE j + 1
  <2>1. p \in 1 .. Len(l) /\ q \in 1 .. Len(l) /\ p < q
    BY <1>2, <1>3, <1>6
  <2>2. t[i] = l[p] /\ t[j] = l[q]
    BY <1>3
  <2> QED
    BY <1>1, <2>1, <2>2 DEF InOrder
<1>8. WithoutOne(s, new) \in Turns
  <2>1. d \in Nat /\ d <= Len(t) /\ (d = 0 <=> t = << >>)
    BY <1>3, <1>5, <1>6
  <2> QED
    BY <1>3, <1>4, <1>7, <2>1 DEF Turns
<1>9. ModulesOf(t) \subseteq ModulesOf(l)
  <2> SUFFICES ASSUME NEW i \in 1 .. Len(t) PROVE t[i] \in ModulesOf(l)
    BY DEF ModulesOf
  <2> DEFINE p == IF i < k THEN i ELSE i + 1
  <2>1. p \in 1 .. Len(l) /\ t[i] = l[p]
    BY <1>2, <1>3, <1>6
  <2> HIDE DEF p, l
  <2> QED
    BY <2>1 DEF ModulesOf
<1>10. ASSUME NEW i \in 1 .. Len(l) PROVE l[i] \in ModulesOf(t) \/ Overlap(l[i], new)
  <2>1. CASE i = k
    BY <2>1, <1>2
  <2>2. CASE i # k
    <3> DEFINE p == IF i < k THEN i ELSE i - 1
    <3>1. p \in 1 .. Len(t) /\ t[p] = l[i]
      BY <2>2, <1>2, <1>3, <1>6
    <3> HIDE DEF p, l
    <3> QED
      BY <3>1 DEF ModulesOf
  <2> QED
    BY <2>1, <2>2
<1>11. \A m \in ModulesOf(l) : m \in ModulesOf(t) \/ Overlap(m, new)
  BY <1>10 DEF ModulesOf
<1>12. WithoutOne(s, new).l = t
  BY <1>4
<1> QED
  BY <1>3, <1>8, <1>9, <1>11, <1>12

\* With no module in the way, the new one fits at its place.
LEMMA NoneInTheWay ==
  ASSUME NEW s \in Turns, NEW new \in Module, ~InTheWay(s, new)
  PROVE  /\ PlaceFor(s, new) \in 1 .. Len(s.l) + 1
         /\ \A j \in 1 .. Len(s.l) : j < PlaceFor(s, new) => s.l[j].End < new.Start
         /\ \A j \in 1 .. Len(s.l) : PlaceFor(s, new) <= j => new.End < s.l[j].Start
<1> DEFINE l == s.l
<1> DEFINE c == s.c
<1> DEFINE k == Reached(s, new)
<1> DEFINE p == PlaceFor(s, new)
<1>1. l \in Seq(Module) /\ InOrder(l) /\ c \in Nat /\ c <= Len(l) /\ (c = 0 <=> l = << >>)
  BY DEF Turns
<1>2. k = 0 \/ ~Overlap(l[k], new)
  BY DEF InTheWay
<1>3. new.Start \in Int /\ new.End \in Int /\ new.Start <= new.End
  BY ModuleBounds
<1>4. \A j \in 1 .. Len(l) : l[j].Start \in Int /\ l[j].End \in Int /\ l[j].Start <= l[j].End
  BY <1>1, ModuleBounds
<1>5. \A i, j \in 1 .. Len(l) : i < j => l[i].End < l[j].Start
  BY <1>1 DEF InOrder
<1>6. CASE c = 0
  <2>1. k = 0 /\ Len(l) = 0
    BY <1>1, <1>6 DEF Reached
  <2>2. p = 1
    BY <1>6, <2>1 DEF PlaceFor
  <2> QED
    BY <2>1, <2>2
<1>7. CASE c # 0 /\ l[c].End < new.Start
  <2>1. c \in 1 .. Len(l) /\ Len(l) \in Nat
    BY <1>1, <1>7
  <2>2. ~(new.End < l[c].Start)
    BY <1>3, <1>4, <1>7, <2>1
  <2>3. k = ModuleSearchForwards(l, c, new.Start)
    BY <1>7, <2>2 DEF Reached
  <2>4. p = IF k = 0 THEN Len(l) + 1 ELSE k
    BY <1>7 DEF PlaceFor
  <2>5. \/ k = 0 /\ \A j \in c .. Len(l) : l[j].End < new.Start
        \/ k \in c .. Len(l) /\ new.Start <= l[k].End /\ \A j \in c .. k - 1 : l[j].End < new.Start
    <3> HIDE DEF k, l, c
    <3> QED  BY <2>1, <2>3, <1>1, <1>3, Forwards
  <2> HIDE DEF k, l, c, p
  <2>6. \A j \in 1 .. Len(l) : j < c => l[j].End < new.Start
    BY <1>3, <1>4, <1>5, <1>7, <2>1
  <2>7. CASE k = 0
    <3>1. \A j \in 1 .. Len(l) : l[j].End < new.Start
      BY <2>1, <2>5, <2>6, <2>7
    <3>2. p = Len(l) + 1
      BY <2>4, <2>7
    <3> QED
      BY <2>1, <3>1, <3>2 DEF p, l
  <2>8. CASE k # 0
    <3>1. p = k /\ k \in c .. Len(l) /\ k \in 1 .. Len(l)
      BY <2>1, <2>4, <2>5, <2>8
    <3>2. new.End < l[k].Start
      BY <1>2, <1>3, <1>4, <2>5, <2>8, <3>1 DEF Overlap
    <3>3. \A j \in 1 .. Len(l) : j < k => l[j].End < new.Start
      BY <2>1, <2>5, <2>6, <2>8, <3>1
    <3>4. \A j \in 1 .. Len(l) : k <= j => new.End < l[j].Start
      BY <1>3, <1>4, <1>5, <3>1, <3>2
    <3> QED
      BY <2>1, <3>1, <3>3, <3>4 DEF p, l
  <2> QED
    BY <2>7, <2>8
<1>8. CASE c # 0 /\ ~(l[c].End < new.Start)
  <2>1. c \in 1 .. Len(l) /\ Len(l) \in Nat
    BY <1>1, <1>8
  <2>2. new.End < l[c].Start
    <3> SUFFICES ASSUME ~(new.End < l[c].Start) PROVE FALSE
      OBVIOUS
    <3>1. k = c
      BY <1>8 DEF Reached
    <3>2. ~Overlap(l[c], new)
      BY <1>2, <1>8, <3>1
    <3> HIDE DEF l, c
    <3> QED
      BY <1>3, <1>4, <1>8, <2>1, <3>2 DEF Overlap
  <2>3. k = ModuleSearchBackwards(l, c, new.End)
    BY <1>8, <2>2 DEF Reached
  <2>4. p = k + 1
    BY <1>8 DEF PlaceFor
  <2>5. \/ k = 0 /\ \A j \in 1 .. c : new.End < l[j].Start
        \/ k \in 1 .. c /\ l[k].Start <= new.End /\ \A j \in k + 1 .. c : new.End < l[j].Start
    <3> HIDE DEF k, l, c
    <3> QED  BY <2>1, <2>3, <1>1, <1>3, Backwards
  <2> HIDE DEF k, l, c, p
  <2>6. \A j \in 1 .. Len(l) : c <= j => new.End < l[j].Start
    BY <1>3, <1>4, <1>5, <2>1, <2>2
  <2>7. CASE k = 0
    <3>1. \A j \in 1 .. Len(l) : new.End < l[j].Start
      BY <2>1, <2>5, <2>6, <2>7
    <3>2. p = 1
      BY <2>4, <2>7
    <3> QED
      BY <2>1, <3>1, <3>2 DEF p, l
  <2>8. CASE k # 0
    <3>1. p = k + 1 /\ k \in 1 .. c /\ k \in 1 .. Len(l)
      BY <2>1, <2>4, <2>5, <2>8
    <3>2. l[k].End < new.Start
      BY <1>2, <1>3, <1>4, <2>5, <2>8, <3>1 DEF Overlap
    <3>3. \A j \in 1 .. Len(l) : j <= k => l[j].End < new.Start
      BY <1>3, <1>4, <1>5, <3>1, <3>2
    <3>4. \A j \in 1 .. Len(l) : k + 1 <= j => new.End < l[j].Start
      BY <2>1, <2>5, <2>6, <2>8, <3>1
    <3> QED
      BY <2>1, <3>1, <3>3, <3>4 DEF p, l
  <2> QED
    BY <2>7, <2>8
<1> QED
  BY <1>6, <1>7, <1>8

\* The turns of the loop.
AfterTurn(s, new) == IF InTheWay(s, new) THEN WithoutOne(s, new) ELSE s
TurnsOf(start, cursor, new, last) ==
  LET turn[n \in 0 .. last] ==
        IF n = 0 THEN [l |-> start, c |-> cursor] ELSE AfterTurn(turn[n - 1], new)
  IN turn
IsTurns(turn, first, new, last) ==
  turn = [n \in 0 .. last |-> IF n = 0 THEN first ELSE AfterTurn(turn[n - 1], new)]

LEMMA TurnsExist ==
  ASSUME NEW first, NEW new, NEW last \in Nat
  PROVE  \E turn : IsTurns(turn, first, new, last)
<1> DEFINE bad == {m \in Nat : ~\E f : IsTurns(f, first, new, m)}
<1> SUFFICES ASSUME bad # {} PROVE FALSE
  OBVIOUS
<1>1. PICK m \in bad : \A x \in bad : m <= x
  <2>1. bad \in SUBSET Nat
    OBVIOUS
  <2> HIDE DEF bad
  <2> QED  BY <2>1, LeastNumber
<1>2. m \in Nat /\ ~\E f : IsTurns(f, first, new, m)
  OBVIOUS
<1>3. m # 0
  <2> SUFFICES ASSUME m = 0 PROVE FALSE
    OBVIOUS
  <2> DEFINE f == [n \in 0 .. m |-> first]
  <2>1. f = [n \in 0 .. m |-> IF n = 0 THEN first ELSE AfterTurn(f[n - 1], new)]
    BY <1>2
  <2> QED
    BY <1>2, <2>1 DEF IsTurns
<1>4. PICK g : IsTurns(g, first, new, m - 1)
  BY <1>1, <1>2, <1>3
<1> DEFINE Step(f, n) == IF n = 0 THEN first ELSE AfterTurn(f[n - 1], new)
<1> DEFINE f == [n \in 0 .. m |-> Step(g, n)]
<1>5. \A n \in 0 .. m - 1 : f[n] = g[n]
  <2>1. g = [n \in 0 .. m - 1 |-> Step(g, n)]
    BY <1>4 DEF IsTurns
  <2>2. \A n \in 0 .. m - 1 : g[n] = Step(g, n)
    <3> HIDE DEF Step
    <3> QED  BY <2>1
  <2>3. \A n \in 0 .. m - 1 : f[n] = Step(g, n)
    <3> HIDE DEF Step
    <3> QED  BY <1>2
  <2> QED
    BY <2>2, <2>3
<1>6. \A n \in 0 .. m : Step(g, n) = Step(f, n)
  <2> SUFFICES ASSUME NEW n \in 0 .. m PROVE Step(g, n) = Step(f, n)
    OBVIOUS
  <2>1. CASE n = 0
    BY <2>1
  <2>2. CASE n # 0
    <3>1. n - 1 \in 0 .. m - 1
      BY <1>2, <2>2
    <3>2. f[n - 1] = g[n - 1]
      BY <1>5, <3>1
    <3> HIDE DEF f
    <3> QED
      BY <2>2, <3>2
  <2> QED
    BY <2>1, <2>2
<1>7. f = [n \in 0 .. m |-> Step(f, n)]
  <2>1. f = [n \in 0 .. m |-> Step(g, n)]
    OBVIOUS
  <2> HIDE DEF f, Step
  <2> QED
    BY <1>6, <2>1
<1> QED
  BY <1>2, <1>7 DEF IsTurns

LEMMA TurnEquation ==
  ASSUME NEW start, NEW cursor, NEW new, NEW last \in Nat
  PROVE  LET turn == TurnsOf(start, cursor, new, last)
         IN /\ turn[0] = [l |-> start, c |-> cursor]
            /\ \A n \in 1 .. last : turn[n] = AfterTurn(turn[n - 1], new)
<1> DEFINE first == [l |-> start, c |-> cursor]
<1> DEFINE turn == TurnsOf(start, cursor, new, last)
<1>1. turn = CHOOSE f : IsTurns(f, first, new, last)
  BY DEF TurnsOf, IsTurns
<1>2. \E f : IsTurns(f, first, new, last)
  BY TurnsExist
<1>3. IsTurns(turn, first, new, last)
  <2> HIDE DEF turn, first
  <2> QED  BY <1>1, <1>2
<1> DEFINE Step(n) == IF n = 0 THEN first ELSE AfterTurn(turn[n - 1], new)
<1>4. \A n \in 0 .. last : turn[n] = Step(n)
  <2>1. turn = [n \in 0 .. last |-> Step(n)]
    BY <1>3 DEF IsTurns
  <2> HIDE DEF turn, Step
  <2> QED  BY <2>1
<1> QED
  BY <1>4

\* ModuleAdd leaves the list in order, with exactly the modules in the way gone.
LEMMA AddsModule ==
  ASSUME NEW s \in Turns, NEW new \in Module
  PROVE  LET added == ModuleAdd(s.l, s.c, new)
         IN /\ [l |-> added.l, c |-> added.at] \in Turns
            /\ ModulesOf(added.l) = {m \in ModulesOf(s.l) : ~Overlap(m, new)} \cup {new}
            /\ added.bad = FALSE
<1> DEFINE N == Len(s.l)
<1> DEFINE turn == TurnsOf(s.l, s.c, new, N)
<1> DEFINE e == turn[N]
<1> DEFINE p == PlaceFor(e, new)
<1>1. N \in Nat /\ s = [l |-> s.l, c |-> s.c]
  BY DEF Turns
<1>2. ModuleAdd(s.l, s.c, new) = [l |-> InsertAt(e.l, p, new), at |-> p, bad |-> e.c = 0 /\ e.l # << >>]
  BY DEF ModuleAdd, TurnsOf, AfterTurn
<1>3. turn[0] = s /\ \A n \in 1 .. N : turn[n] = AfterTurn(turn[n - 1], new)
  <2> HIDE DEF N
  <2> QED  BY <1>1, TurnEquation
<1> DEFINE Spared(x) == /\ x \in Turns
                      /\ ModulesOf(x.l) \subseteq ModulesOf(s.l)
                      /\ \A m \in ModulesOf(s.l) : m \in ModulesOf(x.l) \/ Overlap(m, new)
<1> DEFINE Fine(n) == /\ Spared(turn[n])
                      /\ ~InTheWay(turn[n], new) \/ Len(turn[n].l) = N - n
<1>4. \A n \in 0 .. N : Fine(n)
  <2> DEFINE bad == {n \in 0 .. N : ~Fine(n)}
  <2> SUFFICES ASSUME bad # {} PROVE FALSE
    OBVIOUS
  <2>1. PICK n \in bad : \A x \in bad : n <= x
    <3>1. bad \in SUBSET Nat
      OBVIOUS
    <3> HIDE DEF bad
    <3> QED  BY <3>1, LeastNumber
  <2>2. n \in 0 .. N /\ ~Fine(n)
    OBVIOUS
  <2>3. n # 0
    <3> SUFFICES ASSUME n = 0 PROVE FALSE
      OBVIOUS
    <3>1. turn[n] = s /\ Len(turn[n].l) = N - n
      BY <1>1, <1>3
    <3> HIDE DEF turn, N
    <3> QED  BY <2>2, <3>1
  <2>4. n - 1 \in 0 .. N /\ n \in 1 .. N
    BY <1>1, <2>2, <2>3
  <2>5. Fine(n - 1)
    <3>1. n - 1 \notin bad
      BY <2>1, <2>2
    <3> HIDE DEF Fine
    <3> QED  BY <2>4, <3>1
  <2> DEFINE x == turn[n - 1]
  <2>6. Spared(x) /\ (~InTheWay(x, new) \/ Len(x.l) = N - (n - 1)) /\ turn[n] = AfterTurn(x, new)
    BY <1>3, <2>4, <2>5
  <2> HIDE DEF turn, x, N
  <2>7. CASE ~InTheWay(x, new)
    <3>1. turn[n] = x
      BY <2>6, <2>7 DEF AfterTurn
    <3> QED  BY <2>2, <2>6, <2>7, <3>1
  <2>8. CASE InTheWay(x, new)
    <3>1. turn[n] = WithoutOne(x, new)
      BY <2>6, <2>8 DEF AfterTurn
    <3>2. x \in Turns
      BY <2>6
    <3>3. /\ WithoutOne(x, new) \in Turns
          /\ Len(WithoutOne(x, new).l) = Len(x.l) - 1
          /\ ModulesOf(WithoutOne(x, new).l) \subseteq ModulesOf(x.l)
          /\ \A m \in ModulesOf(x.l) : m \in ModulesOf(WithoutOne(x, new).l) \/ Overlap(m, new)
      BY <2>8, <3>2, TurnTaken
    <3>4. Spared(turn[n])
      BY <2>6, <3>1, <3>3
    <3>5. Len(turn[n].l) = N - n
      BY <1>1, <2>2, <2>6, <2>8, <3>1, <3>3
    <3> QED  BY <2>2, <3>4, <3>5
  <2> QED
    BY <2>7, <2>8
<1>5. Spared(e) /\ (~InTheWay(e, new) \/ Len(e.l) = 0)
  <2>1. Fine(N)
    <3> HIDE DEF Fine
    <3> QED  BY <1>1, <1>4
  <2>2. N - N = 0
    BY <1>1
  <2> QED  BY <2>1, <2>2
<1> HIDE DEF turn, N
<1>6. e \in Turns
  BY <1>5
<1>7. ~InTheWay(e, new)
  <2>1. InTheWay(e, new) => e.c \in 1 .. Len(e.l)
    BY <1>6, FoundInTheWay
  <2> QED  BY <1>5, <2>1
<1>8. /\ p \in 1 .. Len(e.l) + 1
      /\ \A j \in 1 .. Len(e.l) : j < p => e.l[j].End < new.Start
      /\ \A j \in 1 .. Len(e.l) : p <= j => new.End < e.l[j].Start
  BY <1>6, <1>7, NoneInTheWay
<1>9. e.l \in Seq(Module) /\ InOrder(e.l) /\ (e.c = 0 <=> e.l = << >>)
  BY <1>6 DEF Turns
<1> DEFINE l == e.l
<1> DEFINE t == InsertAt(l, p, new)
<1> HIDE DEF p, e
<1>10. /\ t \in Seq(Module) /\ Len(t) = Len(l) + 1
       /\ \A j \in 1 .. Len(l) + 1 : t[j] = IF j < p THEN l[j] ELSE IF j = p THEN new ELSE l[j - 1]
  <2>1. l \in Seq(Module) /\ p \in 1 .. Len(l) + 1 /\ new \in Module
    BY <1>8, <1>9
  <2> HIDE DEF l
  <2> QED  BY <2>1, InsertedModule
<1> HIDE DEF t
<1>11. /\ Len(l) \in Nat /\ p \in Nat
       /\ \A j \in 1 .. Len(l) : l[j].Start \in Int /\ l[j].End \in Int /\ l[j].Start <= l[j].End
       /\ new.Start \in Int /\ new.End \in Int /\ new.Start <= new.End
  BY <1>8, <1>9, ModuleBounds
<1>12. InOrder(t)
  <2> SUFFICES ASSUME NEW i \in 1 .. Len(t), NEW j \in 1 .. Len(t), i < j
               PROVE  t[i].End < t[j].Start
    BY DEF InOrder
  <2>0. i \in 1 .. Len(l) + 1 /\ j \in 1 .. Len(l) + 1
    BY <1>10
  <2>1. CASE j < p
    <3>1. /\ i \in 1 .. Len(l) /\ j \in 1 .. Len(l)
          /\ t[i] = l[i] /\ t[j] = l[j]
      BY <2>0, <2>1, <1>8, <1>10, <1>11
    <3> QED  BY <3>1, <1>9 DEF InOrder
  <2>2. CASE j = p
    BY <2>0, <2>2, <1>8, <1>10, <1>11
  <2>3. CASE i = p
    <3>1. t[i] = new /\ t[j] = l[j - 1] /\ j - 1 \in 1 .. Len(l) /\ p <= j - 1
      BY <2>0, <2>3, <1>8, <1>10, <1>11
    <3> QED  BY <3>1, <1>8
  <2>4. CASE i < p /\ p < j
    <3>1. t[i] = l[i] /\ t[j] = l[j - 1] /\ j - 1 \in 1 .. Len(l) /\ p <= j - 1 /\ i \in 1 .. Len(l)
      BY <2>0, <2>4, <1>8, <1>10, <1>11
    <3>2. l[i].End < new.Start /\ new.End < l[j - 1].Start
      BY <3>1, <2>4, <1>8
    <3> HIDE DEF l
    <3> QED  BY <3>1, <3>2, <1>11
  <2>5. CASE p < i
    <3>1. /\ t[i] = l[i - 1] /\ t[j] = l[j - 1] /\ i - 1 < j - 1
          /\ i - 1 \in 1 .. Len(l) /\ j - 1 \in 1 .. Len(l)
      BY <2>0, <2>5, <1>8, <1>10, <1>11
    <3> QED  BY <3>1, <1>9 DEF InOrder
  <2> QED
    BY <2>0, <2>1, <2>2, <2>3, <2>4, <2>5, <1>11
<1>13. ModulesOf(t) = ModulesOf(l) \cup {new}
  <2>1. ASSUME NEW j \in 1 .. Len(t) PROVE t[j] \in ModulesOf(l) \cup {new}
    <3>1. j \in 1 .. Len(l) + 1
      BY <1>10
    <3>2. CASE j = p
      BY <3>1, <3>2, <1>10
    <3>3. CASE j # p
      <4> DEFINE q == IF j < p THEN j ELSE j - 1
      <4>0. t[j] = l[q]
        <5> HIDE DEF l
        <5> QED  BY <3>1, <3>3, <1>10
      <4>1. q \in 1 .. Len(l)
        <5>1. p \in 1 .. Len(l) + 1  BY <1>8
        <5> HIDE DEF l
        <5> QED  BY <5>1, <3>1, <3>3, <1>11
      <4> HIDE DEF q, l
      <4> QED  BY <4>0, <4>1 DEF ModulesOf
    <3> QED  BY <3>2, <3>3
  <2>2. ASSUME NEW j \in 1 .. Len(l) PROVE l[j] \in ModulesOf(t)
    <3>1. CASE j < p
      <4>1. j \in 1 .. Len(t) /\ t[j] = l[j]
        BY <3>1, <1>10, <1>11
      <4> HIDE DEF l
      <4> QED  BY <4>1 DEF ModulesOf
    <3>2. CASE ~(j < p)
      <4>1. j + 1 \in 1 .. Len(t) /\ ~(j + 1 < p) /\ j + 1 # p /\ (j + 1) - 1 = j
        BY <3>2, <1>10, <1>11
      <4>2. t[j + 1] = l[j]
        <5> HIDE DEF l
        <5> QED  BY <4>1, <1>10
      <4> HIDE DEF l
      <4> QED  BY <4>1, <4>2 DEF ModulesOf
    <3> QED  BY <3>1, <3>2
  <2>3. new \in ModulesOf(t)
    <3>1. p \in 1 .. Len(t) /\ t[p] = new
      BY <1>8, <1>10, <1>11
    <3> QED  BY <3>1 DEF ModulesOf
  <2> QED
    BY <2>1, <2>2, <2>3 DEF ModulesOf
<1>14. \A m \in ModulesOf(l) : ~Overlap(m, new)
  <2> SUFFICES ASSUME NEW j \in 1 .. Len(l) PROVE ~Overlap(l[j], new)
    BY DEF ModulesOf
  <2>1. l[j].End < new.Start \/ new.End < l[j].Start
    BY <1>8, <1>11
  <2> HIDE DEF l
  <2> QED  BY <2>1, <1>11 DEF Overlap
<1>15. ModulesOf(t) = {m \in ModulesOf(s.l) : ~Overlap(m, new)} \cup {new}
  BY <1>5, <1>13, <1>14
<1>16. [l |-> t, c |-> p] \in Turns
  <2>1. p \in Nat /\ p <= Len(t) /\ p # 0 /\ t # << >>
    BY <1>8, <1>10, <1>11
  <2> QED  BY <2>1, <1>10, <1>12 DEF Turns
<1>17. ModuleAdd(s.l, s.c, new) = [l |-> t, at |-> p, bad |-> FALSE]
  BY <1>2, <1>9 DEF t, e, p
<1> QED
  BY <1>15, <1>16, <1>17

\* The search of ModuleLookup finds the one module that holds an address.
LEMMA FoundInList ==
  ASSUME ModuleIInv, NEW a \in 1 .. MaxAddress
  PROVE  LET k == ModuleLookup(a) owner == {m \in loaded : m.Start <= a /\ a <= m.End}
         IN IF k = 0 THEN owner = {} ELSE owner = {modules[k]}
<1> DEFINE owner == {m \in loaded : m.Start <= a /\ a <= m.End}
<1> DEFINE Miss(j) == a < modules[j].Start \/ modules[j].End < a
<1> DEFINE Hit(k) == /\ modules[k].Start <= a /\ a <= modules[k].End
                     /\ \A j \in 1 .. k - 1 : Miss(j)
<1>1. modules \in Seq(Module) /\ InOrder(modules) /\ loaded = ModulesOf(modules)
  BY DEF ModuleIInv, Turns
<1>2. /\ Len(modules) \in Nat /\ a \in Int
      /\ \A j \in 1 .. Len(modules) :
           /\ modules[j].Start \in Int /\ modules[j].End \in Int
           /\ modules[j].Start <= modules[j].End
  BY <1>1, ModuleBounds
<1>3. CASE \A j \in 1 .. Len(modules) : Miss(j)
  <2>1. ModuleLookup(a) = 0
    BY <1>3 DEF ModuleLookup
  <2>2. owner = {}
    BY <1>1, <1>2, <1>3 DEF ModulesOf
  <2> QED
    BY <2>1, <2>2
<1>4. CASE ~\A j \in 1 .. Len(modules) : Miss(j)
  <2> DEFINE found == {k \in 1 .. Len(modules) : ~Miss(k)}
  <2>1. PICK k \in found : \A m \in found : k <= m
    <3>1. found \in SUBSET Nat /\ found # {}
      BY <1>4
    <3> HIDE DEF found
    <3> QED  BY <3>1, LeastNumber
  <2>2. k \in 1 .. Len(modules) /\ Hit(k)
    <3>1. k \in 1 .. Len(modules) /\ ~Miss(k)
      OBVIOUS
    <3>2. modules[k].Start <= a /\ a <= modules[k].End
      BY <1>2, <3>1
    <3>3. ASSUME NEW j \in 1 .. k - 1 PROVE Miss(j)
      <4>1. j \in 1 .. Len(modules) /\ ~(k <= j)
        BY <1>2, <3>1
      <4> QED
        BY <4>1, <2>1
    <3> QED
      BY <3>1, <3>2, <3>3
  <2> DEFINE r == CHOOSE i \in 1 .. Len(modules) : Hit(i)
  <2>3. ModuleLookup(a) = r
    BY <1>4 DEF ModuleLookup
  <2>4. r \in 1 .. Len(modules) /\ Hit(r)
    <3> HIDE DEF Hit
    <3> QED  BY <2>2
  <2> HIDE DEF r
  <2>5. r # 0
    BY <2>4
  <2>6. modules[r] \in owner
    BY <1>1, <2>4 DEF ModulesOf
  <2>7. ASSUME NEW i \in 1 .. Len(modules), modules[i].Start <= a, a <= modules[i].End
        PROVE  i = r
    <3>1. i < r => modules[i].End < modules[r].Start
      BY <1>1, <2>4 DEF InOrder
    <3>2. r < i => modules[r].End < modules[i].Start
      BY <1>1, <2>4 DEF InOrder
    <3> QED
      BY <1>2, <2>4, <2>7, <3>1, <3>2
  <2>8. \A m \in owner : m = modules[r]
    BY <1>1, <2>7 DEF ModulesOf
  <2>9. owner = {modules[r]}
    <3> HIDE DEF owner
    <3> QED  BY <2>6, <2>8
  <2> QED
    BY <2>3, <2>5, <2>9
<1> QED
  BY <1>3, <1>4

ModuleSpec == ModuleInit /\ [][ModuleNext]_moduleVars

LEMMA ModuleStart == ModuleInit => ModuleIInv
<1> SUFFICES ASSUME ModuleInit PROVE ModuleIInv
  OBVIOUS
<1>1. [l |-> modules, c |-> here] \in Turns
  <2>1. modules = << >> /\ here = 0 /\ Len(<< >>) = 0 /\ << >> \in Seq(Module)
    BY DEF ModuleInit
  <2>2. InOrder(<< >>)
    BY DEF InOrder
  <2> QED
    BY <2>1, <2>2 DEF Turns
<1>2. loaded = ModulesOf(modules)
  BY DEF ModuleInit, ModulesOf
<1> QED
  BY <1>1, <1>2 DEF ModuleIInv, ModuleInit

LEMMA ModuleStep == ModuleIInv /\ [ModuleNext]_moduleVars => ModuleIInv'
<1> SUFFICES ASSUME ModuleIInv, [ModuleNext]_moduleVars PROVE ModuleIInv'
  OBVIOUS
<1>1. CASE UNCHANGED moduleVars
  BY <1>1 DEF ModuleIInv, moduleVars, Turns, ModulesOf, InOrder
<1>2. ASSUME NEW new \in Module, ModuleLoad(new) PROVE ModuleIInv'
  <2> DEFINE s == [l |-> modules, c |-> here]
  <2> DEFINE added == ModuleAdd(modules, here, new)
  <2>1. s \in Turns /\ s.l = modules /\ s.c = here
    BY DEF ModuleIInv
  <2>2. /\ [l |-> added.l, c |-> added.at] \in Turns
        /\ ModulesOf(added.l) = {m \in ModulesOf(modules) : ~Overlap(m, new)} \cup {new}
        /\ added.bad = FALSE
    <3> HIDE DEF s
    <3> QED  BY <2>1, AddsModule
  <2>3. modules' = added.l /\ here' = added.at /\ misplaced' = (misplaced \/ added.bad)
    BY <1>2 DEF ModuleLoad
  <2>4. loaded' = {m \in loaded : ~Overlap(m, new)} \cup {new}
    BY <1>2 DEF ModuleLoad
  <2> HIDE DEF added
  <2>5. misplaced' = FALSE
    BY <2>2, <2>3 DEF ModuleIInv
  <2>6. ([l |-> modules, c |-> here] \in Turns)'
    BY <2>2, <2>3 DEF Turns, InOrder
  <2>7. (loaded = ModulesOf(modules))'
    BY <2>2, <2>3, <2>4 DEF ModuleIInv, ModulesOf
  <2> QED
    BY <2>5, <2>6, <2>7 DEF ModuleIInv
<1> QED
  BY <1>1, <1>2 DEF ModuleNext

\* ModuleAdd and ModuleLookup (module.c): whatever modules are loaded where, exactly those
\* that overlap a new one go, its ASSERT holds, the list stays sorted, and an address is
\* found in the module that was loaded there last.
THEOREM AddressesAreFound == ModuleSpec => []ModuleInv
<1>1. ModuleIInv => ModuleInv
  <2> SUFFICES ASSUME ModuleIInv PROVE ModuleInv
    OBVIOUS
  <2>1. modules \in Seq(Module) /\ InOrder(modules) /\ ~misplaced
    BY DEF ModuleIInv, Turns
  <2>2. \A k \in 1 .. Len(modules) - 1 : modules[k].End < modules[k + 1].Start
    <3> SUFFICES ASSUME NEW k \in 1 .. Len(modules) - 1
                 PROVE  modules[k].End < modules[k + 1].Start
      OBVIOUS
    <3>1. k \in 1 .. Len(modules) /\ k + 1 \in 1 .. Len(modules) /\ k < k + 1
      BY <2>1
    <3> QED
      BY <2>1, <3>1 DEF InOrder
  <2> QED
    BY <2>1, <2>2, FoundInList DEF ModuleInv
<1> QED
  BY <1>1, ModuleStart, ModuleStep, PTL DEF ModuleSpec
=============================================================================
