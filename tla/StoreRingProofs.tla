-------------------------- MODULE StoreRingProofs --------------------------
(***************************************************************************)
(* The rings of store.c carry messages whole and in order (TransportInv).  *)
(*                                                                         *)
(* The argument follows the bytes.  Upward, what xenstored has read of the *)
(* request under way and what is on the ring are together the bytes that   *)
(* were published of it.  Downward, Context->Response and the bytes on the *)
(* ring that were not copied yet are one Stream: whole messages one after  *)
(* another, each byte once, with the message that xenstored is writing at  *)
(* its end.  Context->Lock makes the request under way the only one, and a *)
(* reply is under way only when all of that request was read.              *)
(*                                                                         *)
(* The lemmas come first: numbers and remainders, sequences, sums, the     *)
(* copies in and out of a ring whose indices wrap, chains of bytes; then   *)
(* one lemma for each step.                                                *)
(***************************************************************************)
EXTENDS StoreRing, FiniteSetTheorems, WellFoundedInduction, TLAPS
\* Every nonempty set of natural numbers has a least element ...
LEMMA LeastNumber ==
  ASSUME NEW S \in SUBSET Nat, S # {}
  PROVE  \E x \in S : \A y \in S : x <= y
<1>1. \E x \in S : \A y \in S : <<y, x>> \notin OpToRel(<, Nat)
  BY NatLessThanWellFounded, WFMin
<1>2. PICK x \in S : \A y \in S : <<y, x>> \notin OpToRel(<, Nat)  BY <1>1
<1>3. \A y \in S : ~(y < x)  BY <1>2 DEF OpToRel
<1>4. \A y \in S : x <= y  BY <1>3
<1> QED  BY <1>4

\* ... so a set of counterexamples that goes down to 0 and does not hold 0 is empty.
LEMMA NoCounterexample ==
  ASSUME NEW N \in Nat, NEW B \in SUBSET (0 .. N), 0 \notin B,
         \A n \in 1 .. N : n \in B => n - 1 \in B
  PROVE  B = {}
<1> SUFFICES ASSUME B # {} PROVE FALSE  OBVIOUS
<1>1. B \in SUBSET Nat  OBVIOUS
<1>2. PICK n \in B : \A k \in B : n <= k  BY <1>1, LeastNumber
<1>3. n \in 1 .. N  BY <1>2
<1>4. n - 1 \in B  BY <1>2, <1>3
<1> QED  BY <1>2, <1>3, <1>4

-----------------------------------------------------------------------------
(* Sequences.                                                              *)

\* The elements of a concatenation, of a part and of an appended sequence.
LEMMA Concat ==
  ASSUME NEW B, NEW s \in Seq(B), NEW t \in Seq(B)
  PROVE  /\ s \o t \in Seq(B) /\ Len(s \o t) = Len(s) + Len(t)
         /\ \A i \in 1 .. Len(s) : (s \o t)[i] = s[i]
         /\ \A i \in 1 .. Len(t) : (s \o t)[Len(s) + i] = t[i]
         /\ \A i \in Len(s) + 1 .. Len(s) + Len(t) : (s \o t)[i] = t[i - Len(s)]
OBVIOUS

\* What is left of a sequence without its first elements.
LEMMA Part ==
  ASSUME NEW B, NEW s \in Seq(B), NEW n \in 0 .. Len(s)
  PROVE  LET r == SubSeq(s, n + 1, Len(s)) IN
         r \in Seq(B) /\ Len(r) = Len(s) - n /\ \A i \in 1 .. Len(s) - n : r[i] = s[n + i]
OBVIOUS

\* Sequences with the same elements are the same.
LEMMA SameElements ==
  ASSUME NEW B, NEW s \in Seq(B), NEW t \in Seq(B), Len(s) = Len(t),
         \A i \in 1 .. Len(s) : s[i] = t[i]
  PROVE  s = t
OBVIOUS

\* A part may be taken away in front again.
LEMMA Associative ==
  ASSUME NEW B, NEW s \in Seq(B), NEW t \in Seq(B), NEW u \in Seq(B)
  PROVE  (s \o t) \o u = s \o (t \o u)
OBVIOUS

\* Without what is in front of it, a sequence is itself.
LEMMA DropFront ==
  ASSUME NEW B, NEW s \in Seq(B), NEW t \in Seq(B)
  PROVE  SubSeq(s \o t, Len(s) + 1, Len(s \o t)) = t
OBVIOUS

\* Nothing is added by the empty sequence.
LEMMA EmptySides ==
  ASSUME NEW B, NEW s \in Seq(B)
  PROVE  s \o <<>> = s /\ <<>> \o s = s
OBVIOUS

-----------------------------------------------------------------------------
(* Arithmetic modulo a number.                                             *)

\* Quotient and remainder.
LEMMA Division ==
  ASSUME NEW m \in Nat \ {0}, NEW a \in Int
  PROVE  /\ a % m \in 0 .. m - 1 /\ a \div m \in Int
         /\ a = m * (a \div m) + (a % m)
OBVIOUS

\* A number is its remainder when it differs from it by a multiple.
LEMMA Remainder ==
  ASSUME NEW m \in Nat \ {0}, NEW q \in Int, NEW r \in 0 .. m - 1
  PROVE  (m * q + r) % m = r
<1> DEFINE a == m * q + r
<1>1. a \in Int  OBVIOUS
<1>2. a % m \in 0 .. m - 1 /\ a \div m \in Int /\ a = m * (a \div m) + (a % m)  BY <1>1, Division
<1> DEFINE d == q - (a \div m)
<1> DEFINE e == a % m
<1>3. d \in Int /\ e \in 0 .. m - 1  BY <1>2
<1>4. m * d = e - r
  <2>1. m * q + r = m * (a \div m) + e  BY <1>2
  <2>2. m * (q - (a \div m)) = m * q - m * (a \div m)  BY <1>2
  <2> QED  BY <1>2, <1>3, <2>1, <2>2
<1>5. d = 0
  <2> HIDE DEF d, e
  <2>1. d > 0 => m * d >= m  BY <1>3
  <2>2. d < 0 => m * d <= -m  BY <1>3
  <2>3. e - r < m /\ e - r > -m  BY <1>3
  <2> QED  BY <1>3, <1>4, <2>1, <2>2, <2>3
<1>6. e = r
  <2> HIDE DEF d, e
  <2>1. m * d = 0  BY <1>3, <1>5
  <2> QED  BY <1>3, <1>4, <2>1
<1> QED  BY <1>6

\* Numbers that differ by a multiple have the same remainder.
LEMMA Congruent ==
  ASSUME NEW m \in Nat \ {0}, NEW a \in Int, NEW b \in Int, NEW k \in Int, a = m * k + b
  PROVE  a % m = b % m
<1>1. b % m \in 0 .. m - 1 /\ b \div m \in Int /\ b = m * (b \div m) + (b % m)  BY Division
<1> DEFINE q == b \div m
<1> DEFINE r == b % m
<1>2. q \in Int /\ r \in 0 .. m - 1 /\ b = m * q + r  BY <1>1
<1>3. m * (k + q) = m * k + m * q  BY <1>2
<1>4. a = m * (k + q) + r
  <2> HIDE DEF q, r
  <2>1. m * k \in Int /\ m * q \in Int  BY <1>2
  <2> QED  BY <1>2, <1>3, <2>1
<1>5. (m * (k + q) + r) % m = r
  <2> HIDE DEF q, r
  <2>1. k + q \in Int  BY <1>2
  <2> QED  BY <1>2, <2>1, Remainder
<1> QED  BY <1>4, <1>5

\* Remainders may be taken early or late.
LEMMA Early ==
  ASSUME NEW m \in Nat \ {0}, NEW a \in Int, NEW b \in Int
  PROVE  /\ ((a % m) + b) % m = (a + b) % m
         /\ ((a % m) - (b % m)) % m = (a - b) % m
         /\ (b - (a % m)) % m = (b - a) % m
         /\ a \in 0 .. m - 1 => a % m = a
<1> DEFINE p == a \div m
<1> DEFINE q == b \div m
<1> DEFINE r == a % m
<1> DEFINE s == b % m
<1>1. /\ p \in Int /\ r \in Int /\ a = m * p + r /\ m * p \in Int
      /\ q \in Int /\ s \in Int /\ b = m * q + s /\ m * q \in Int
  BY Division
<1> HIDE DEF p, q, r, s
<1>2. m * (-p) = -(m * p) /\ m * (q - p) = m * q - m * p  BY <1>1
<1>3. (r + b) % m = (a + b) % m
  <2>1. r + b = m * (-p) + (a + b)  BY <1>1, <1>2
  <2>2. r + b \in Int /\ a + b \in Int /\ -p \in Int  BY <1>1
  <2> QED  BY <2>1, <2>2, Congruent
<1>4. (r - s) % m = (a - b) % m
  <2>1. r - s = m * (q - p) + (a - b)  BY <1>1, <1>2
  <2>2. r - s \in Int /\ a - b \in Int /\ q - p \in Int  BY <1>1
  <2> QED  BY <2>1, <2>2, Congruent
<1>5. (b - r) % m = (b - a) % m
  <2>1. b - r = m * p + (b - a)  BY <1>1
  <2>2. b - r \in Int /\ b - a \in Int /\ p \in Int  BY <1>1
  <2> QED  BY <2>1, <2>2, Congruent
<1>6. a \in 0 .. m - 1 => a % m = a
  <2>1. m * 0 + a = a  BY <1>1
  <2> QED  BY <2>1, Remainder
<1> QED  BY <1>3, <1>4, <1>5, <1>6 DEF r, s

\* The index of a byte gives its place in the ring.
LEMMA Place ==
  ASSUME NEW a \in Int
  PROVE  (a % IndexMod) % RingSize = a % RingSize
<1>1. RingSize \in Nat \ {0} /\ IndexMod \in Nat \ {0} /\ IndexMod % RingSize = 0  BY StoreRingAssumption
<1> DEFINE f == IndexMod \div RingSize
<1> DEFINE p == a \div IndexMod
<1> DEFINE r == a % IndexMod
<1>2. f \in Int /\ IndexMod = RingSize * f /\ p \in Int /\ r \in Int /\ a = IndexMod * p + r  BY <1>1, Division
<1> HIDE DEF f, p, r
<1>3. IndexMod * p = RingSize * (f * p)  BY <1>1, <1>2
<1>4. f * p \in Int /\ a = RingSize * (f * p) + r  BY <1>2, <1>3
<1>5. a % RingSize = r % RingSize
  <2>1. \A k \in Int : a = RingSize * k + r => a % RingSize = r % RingSize  BY <1>1, <1>2, Congruent, ZenonT(60)
  <2> QED  BY <1>4, <2>1
<1> QED  BY <1>5 DEF r

-----------------------------------------------------------------------------
(* Sums of sequences.                                                      *)

\* The sums of the prefixes of s.
Sums(s) == CHOOSE S : S = [i \in 0 .. Len(s) |-> IF i = 0 THEN 0 ELSE S[i - 1] + s[i]]
Adds(g, s, n) == g \in [0 .. n -> Nat] /\ g[0] = 0 /\ \A i \in 1 .. n : g[i] = g[i - 1] + s[i]

\* They exist ...
LEMMA SumsExist ==
  ASSUME NEW s \in Seq(Nat)
  PROVE  \E g : Adds(g, s, Len(s))
<1> DEFINE Bad == {n \in 0 .. Len(s) : ~ \E g : Adds(g, s, n)}
<1>0. Len(s) \in Nat /\ \A i \in 1 .. Len(s) : s[i] \in Nat  OBVIOUS
<1>1. 0 \notin Bad
  <2>1. Adds([i \in 0 .. 0 |-> 0], s, 0)  BY DEF Adds
  <2>2. \E g : Adds(g, s, 0)  BY <2>1
  <2> QED  BY <2>2
<1>2. ASSUME NEW n \in 1 .. Len(s), n - 1 \notin Bad PROVE n \notin Bad
  <2>1. n - 1 \in 0 .. Len(s)  BY <1>0
  <2>2. PICK g : Adds(g, s, n - 1)  BY <1>2, <2>1
  <2> DEFINE h == [i \in 0 .. n |-> IF i = n THEN g[n - 1] + s[n] ELSE g[i]]
  <2>3. g[n - 1] \in Nat /\ s[n] \in Nat /\ n \in Nat \ {0}  BY <1>0, <2>2 DEF Adds
  <2>4. h \in [0 .. n -> Nat] /\ h[0] = 0  BY <2>2, <2>3 DEF Adds
  <2>5. ASSUME NEW i \in 1 .. n PROVE h[i] = h[i - 1] + s[i]
    <3>1. i \in 0 .. n /\ i - 1 \in 0 .. n /\ i - 1 # n  BY <1>0
    <3>2. h[i - 1] = g[i - 1]  BY <3>1
    <3>3. CASE i = n  BY <3>1, <3>2, <3>3
    <3>4. CASE i # n
      <4>1. i \in 1 .. n - 1 /\ h[i] = g[i]  BY <3>1, <3>4
      <4>2. g[i] = g[i - 1] + s[i]  BY <2>2, <4>1 DEF Adds
      <4> QED  BY <3>2, <4>1, <4>2
    <3> QED  BY <3>3, <3>4
  <2>6. Adds(h, s, n)  BY <2>4, <2>5 DEF Adds
  <2> QED  BY <2>6
<1>3. Bad \in SUBSET (0 .. Len(s))  OBVIOUS
<1>4. Bad = {}
  <2> HIDE DEF Bad
  <2> QED  BY <1>0, <1>1, <1>2, <1>3, NoCounterexample
<1>5. Len(s) \notin Bad /\ Len(s) \in 0 .. Len(s)  BY <1>0, <1>4
<1> QED  BY <1>5

\* ... and are what the definition says.
LEMMA SumsAre ==
  ASSUME NEW s \in Seq(Nat)
  PROVE  Adds(Sums(s), s, Len(s)) /\ Sum(s) = Sums(s)[Len(s)]
<1> DEFINE Is(S) == S = [i \in 0 .. Len(s) |-> IF i = 0 THEN 0 ELSE S[i - 1] + s[i]]
<1>0. Len(s) \in Nat /\ \A i \in 1 .. Len(s) : s[i] \in Nat  OBVIOUS
<1>1. PICK g : Adds(g, s, Len(s))  BY SumsExist
<1>2. Is(g)  BY <1>0, <1>1 DEF Adds
<1>3. Is(Sums(s))
  <2>1. Sums(s) = CHOOSE S : Is(S)  BY DEF Sums
  <2> HIDE DEF Is
  <2> QED  BY <1>2, <2>1
<1> DEFINE G == Sums(s)
<1>4. G = [i \in 0 .. Len(s) |-> IF i = 0 THEN 0 ELSE G[i - 1] + s[i]]  BY <1>3
<1> HIDE DEF G, Is
<1>5. /\ DOMAIN G = 0 .. Len(s) /\ G[0] = 0 /\ G = [i \in 0 .. Len(s) |-> G[i]]
      /\ \A i \in 1 .. Len(s) : G[i] = G[i - 1] + s[i]
  BY <1>0, <1>4
<1> DEFINE Off == {i \in 0 .. Len(s) : G[i] \notin Nat}
<1>6. Off = {}
  <2>1. Off \in SUBSET (0 .. Len(s)) /\ 0 \notin Off  BY <1>5
  <2>2. ASSUME NEW n \in 1 .. Len(s), n - 1 \notin Off PROVE n \notin Off
    <3>1. n - 1 \in 0 .. Len(s)  BY <1>0
    <3>2. G[n - 1] \in Nat /\ s[n] \in Nat  BY <1>0, <2>2, <3>1
    <3>3. G[n] = G[n - 1] + s[n]  BY <1>5
    <3>4. G[n] \in Nat
      <4> HIDE DEF Off
      <4> QED  BY <3>2, <3>3
    <3> QED  BY <3>4
  <2> HIDE DEF Off
  <2> QED  BY <1>0, <2>1, <2>2, NoCounterexample
<1>7. G \in [0 .. Len(s) -> Nat]  BY <1>5, <1>6
<1>8. Adds(G, s, Len(s))  BY <1>5, <1>7 DEF Adds
<1>9. Sum(s) = Sums(s)[Len(s)]  BY DEF Sum, Sums
<1> QED  BY <1>8, <1>9 DEF G

\* Sums rise, and the sum of a prefix is one of them.
LEMMA SumsRise ==
  ASSUME NEW s \in Seq(Nat)
  PROVE  /\ \A i, j \in 0 .. Len(s) : i <= j => Sums(s)[i] <= Sums(s)[j]
         /\ \A k \in 0 .. Len(s) : Sum(SubSeq(s, 1, k)) = Sums(s)[k]
<1> DEFINE G == Sums(s)
<1>0. Len(s) \in Nat /\ \A i \in 1 .. Len(s) : s[i] \in Nat  OBVIOUS
<1>1. /\ G \in [0 .. Len(s) -> Nat] /\ G[0] = 0
      /\ \A i \in 1 .. Len(s) : G[i] = G[i - 1] + s[i]
  BY SumsAre DEF Adds
<1> HIDE DEF G
<1>2. ASSUME NEW i \in 0 .. Len(s), NEW j \in 0 .. Len(s), i <= j PROVE G[i] <= G[j]
  <2> DEFINE Off == {k \in 0 .. Len(s) : i <= k /\ ~ (G[i] <= G[k])}
  <2>1. Off \in SUBSET (0 .. Len(s)) /\ 0 \notin Off  BY <1>1
  <2>2. ASSUME NEW n \in 1 .. Len(s), n - 1 \notin Off PROVE n \notin Off
    <3>1. n - 1 \in 0 .. Len(s) /\ n \in 0 .. Len(s)  BY <1>0
    <3>2. G[n] = G[n - 1] + s[n] /\ s[n] \in Nat /\ G[n - 1] \in Nat /\ G[i] \in Nat  BY <1>0, <1>1, <3>1
    <3>3. CASE i <= n - 1
      <4>1. G[i] <= G[n - 1]  BY <2>2, <3>1, <3>3
      <4>2. G[i] <= G[n]  BY <3>2, <4>1
      <4> QED  BY <4>2
    <3>4. CASE i = n
      <4>1. G[i] <= G[n]  BY <3>2, <3>4
      <4> QED  BY <4>1
    <3>5. CASE i > n  BY <1>0, <3>5
    <3> QED  BY <1>0, <3>3, <3>4, <3>5
  <2>3. Off = {}
    <3> HIDE DEF Off
    <3> QED  BY <1>0, <2>1, <2>2, NoCounterexample
  <2>4. j \notin Off  BY <2>3
  <2> QED  BY <1>2, <2>4
<1>3. ASSUME NEW k \in 0 .. Len(s) PROVE Sum(SubSeq(s, 1, k)) = G[k]
  <2> DEFINE p == SubSeq(s, 1, k)
  <2> DEFINE H == Sums(p)
  <2>1. p \in Seq(Nat) /\ Len(p) = k /\ \A i \in 1 .. k : p[i] = s[i]  BY <1>0
  <2>2. /\ H \in [0 .. k -> Nat] /\ H[0] = 0 /\ Sum(p) = H[k]
        /\ \A i \in 1 .. k : H[i] = H[i - 1] + s[i]
    BY <2>1, SumsAre DEF Adds
  <2> HIDE DEF H, p
  <2> DEFINE Off == {i \in 0 .. k : H[i] # G[i]}
  <2>3. Off \in SUBSET (0 .. k) /\ 0 \notin Off  BY <1>1, <2>2
  <2>4. ASSUME NEW n \in 1 .. k, n - 1 \notin Off PROVE n \notin Off
    <3>1. n - 1 \in 0 .. k /\ n \in 1 .. Len(s)  BY <1>0
    <3>2. H[n - 1] = G[n - 1]  BY <2>4, <3>1
    <3>3. H[n] = G[n]  BY <1>1, <2>2, <3>1, <3>2
    <3> QED  BY <3>3
  <2>5. Off = {}
    <3> HIDE DEF Off
    <3>1. k \in Nat  BY <1>0
    <3> QED  BY <2>3, <2>4, <3>1, NoCounterexample
  <2>6. k \in 0 .. k /\ k \notin Off  BY <1>0, <2>5
  <2>7. H[k] = G[k]  BY <2>6
  <2> QED  BY <2>2, <2>7 DEF p
<1> QED  BY <1>2, <1>3 DEF G

\* No term exceeds the sum.
LEMMA SumTerm ==
  ASSUME NEW s \in Seq(Nat), NEW i \in 1 .. Len(s)
  PROVE  Sum(s) \in Nat /\ s[i] <= Sum(s)
<1> DEFINE G == Sums(s)
<1>0. Len(s) \in Nat /\ s[i] \in Nat /\ i - 1 \in 0 .. Len(s) /\ i \in 0 .. Len(s)  OBVIOUS
<1>1. G \in [0 .. Len(s) -> Nat] /\ G[i] = G[i - 1] + s[i] /\ Sum(s) = G[Len(s)]
  BY SumsAre DEF Adds
<1>2. G[i] <= G[Len(s)]  BY <1>0, SumsRise
<1> HIDE DEF G
<1> QED  BY <1>0, <1>1, <1>2, SMTT(40)

-----------------------------------------------------------------------------
(* Indices and bytes of a ring.                                            *)

\* How full a ring is, from its indices.
Fill(p, c) == (p - c) % IndexMod

\* The fill says how much room there is, and how far the producer is ahead.
LEMMA Room ==
  ASSUME NEW p \in 0 .. IndexMod - 1, NEW c \in 0 .. IndexMod - 1
  PROVE  /\ Fill(p, c) \in 0 .. IndexMod - 1
         /\ Fill(p, c) <= RingSize => (c + RingSize - p) % IndexMod = RingSize - Fill(p, c)
         /\ p % RingSize = (c + Fill(p, c)) % RingSize
<1> DEFINE f == (p - c) % IndexMod
<1> DEFINE q == (p - c) \div IndexMod
<1> DEFINE g == IndexMod \div RingSize
<1>0. /\ RingSize \in Nat \ {0} /\ IndexMod \in Nat \ {0} /\ RingSize < IndexMod
      /\ IndexMod % RingSize = 0 /\ p \in Int /\ c \in Int
  BY StoreRingAssumption
<1>1. f \in 0 .. IndexMod - 1 /\ q \in Int /\ p - c = IndexMod * q + f
  <2>1. p - c \in Int  BY <1>0
  <2> QED  BY <1>0, <2>1, Division
<1>2. g \in Int /\ IndexMod = RingSize * g  BY <1>0, Division
<1> HIDE DEF f, q, g
<1>3. IndexMod * q \in Int /\ IndexMod * (-q) = -(IndexMod * q) /\ -q \in Int  BY <1>0, <1>1
<1>4. ASSUME f <= RingSize PROVE (c + RingSize - p) % IndexMod = RingSize - f
  <2> DEFINE r == RingSize - f
  <2>1. r \in 0 .. IndexMod - 1 /\ c + RingSize - p = IndexMod * (-q) + r  BY <1>0, <1>1, <1>3, <1>4
  <2> HIDE DEF r
  <2>2. (IndexMod * (-q) + r) % IndexMod = r  BY <1>0, <1>3, <2>1, Remainder
  <2> QED  BY <2>1, <2>2 DEF r
<1>5. p % RingSize = (c + f) % RingSize
  <2> DEFINE k == g * q
  <2>1. k \in Int /\ IndexMod * q = RingSize * k  BY <1>0, <1>1, <1>2
  <2> HIDE DEF k
  <2>2. p = RingSize * k + (c + f) /\ c + f \in Int  BY <1>0, <1>1, <1>3, <2>1
  <2> QED  BY <1>0, <2>1, <2>2, Congruent
<1>6. f = Fill(p, c)  BY DEF f, Fill
<1> QED  BY <1>1, <1>4, <1>5, <1>6

\* Publishing adds to the fill, consuming takes from it.
LEMMA Publish ==
  ASSUME NEW p \in 0 .. IndexMod - 1, NEW c \in 0 .. IndexMod - 1, NEW n \in Nat,
         Fill(p, c) + n <= RingSize
  PROVE  (p + n) % IndexMod \in 0 .. IndexMod - 1 /\ Fill((p + n) % IndexMod, c) = Fill(p, c) + n
<1> DEFINE f == Fill(p, c)
<1> DEFINE r == f + n
<1>0. RingSize \in Nat \ {0} /\ IndexMod \in Nat \ {0} /\ RingSize < IndexMod /\ p \in Int /\ c \in Int
  BY StoreRingAssumption
<1>1. f \in 0 .. IndexMod - 1  BY Room
<1>2. r \in 0 .. IndexMod - 1  BY <1>0, <1>1
<1>3. p + n \in Int /\ -c \in Int /\ p - c \in Int  BY <1>0
<1>4. (p + n) % IndexMod \in 0 .. IndexMod - 1  BY <1>0, <1>3, Division
<1>5. Fill((p + n) % IndexMod, c) = ((p + n) + (-c)) % IndexMod
  <2>1. (((p + n) % IndexMod) + (-c)) % IndexMod = ((p + n) + (-c)) % IndexMod  BY <1>0, <1>3, Early
  <2>2. ((p + n) % IndexMod) - c = ((p + n) % IndexMod) + (-c)  BY <1>0, <1>4
  <2> QED  BY <2>1, <2>2 DEF Fill
<1>6. (f + n) % IndexMod = ((p - c) + n) % IndexMod
  <2> DEFINE a == p - c
  <2>1. a \in Int /\ n \in Int  BY <1>3
  <2> HIDE DEF a
  <2>2. ((a % IndexMod) + n) % IndexMod = (a + n) % IndexMod  BY <1>0, <2>1, Early
  <2> QED  BY <2>2 DEF a, Fill
<1>7. (p + n) + (-c) = (p - c) + n  BY <1>0
<1>8. r % IndexMod = r
  <2> HIDE DEF r
  <2>1. r \in Int  BY <1>0, <1>2
  <2> QED  BY <1>0, <1>2, <2>1, Early
<1> QED  BY <1>4, <1>5, <1>6, <1>7, <1>8

\* Consuming takes from the fill: the consumer index follows the producer.
LEMMA Consume ==
  ASSUME NEW p \in 0 .. IndexMod - 1, NEW c \in 0 .. IndexMod - 1, NEW n \in 0 .. Fill(p, c)
  PROVE  (c + n) % IndexMod \in 0 .. IndexMod - 1 /\ Fill(p, (c + n) % IndexMod) = Fill(p, c) - n
<1> DEFINE f == Fill(p, c)
<1> DEFINE r == f - n
<1>0. RingSize \in Nat \ {0} /\ IndexMod \in Nat \ {0} /\ p \in Int /\ c \in Int
  BY StoreRingAssumption
<1>1. f \in 0 .. IndexMod - 1 /\ n \in Nat  BY <1>0, Room
<1>2. r \in 0 .. IndexMod - 1  BY <1>0, <1>1
<1>3. c + n \in Int /\ -n \in Int /\ p - c \in Int  BY <1>0, <1>1
<1>4. (c + n) % IndexMod \in 0 .. IndexMod - 1  BY <1>0, <1>3, Division
<1>5. Fill(p, (c + n) % IndexMod) = (p - (c + n)) % IndexMod  BY <1>0, <1>3, Early DEF Fill
<1>6. (f + (-n)) % IndexMod = ((p - c) + (-n)) % IndexMod  BY <1>0, <1>3, Early, ZenonT(60) DEF Fill
<1>7. p - (c + n) = (p - c) + (-n) /\ f + (-n) = r  BY <1>0, <1>1
<1>8. r % IndexMod = r
  <2> HIDE DEF r
  <2>1. r \in Int  BY <1>0, <1>2
  <2> QED  BY <1>0, <1>2, <2>1, Early
<1> QED  BY <1>4, <1>5, <1>6, <1>7, <1>8

\* What is read from a place of the ring is what is there ...
LEMMA GetIs ==
  ASSUME NEW B, NEW ring \in [0 .. RingSize - 1 -> B], NEW i \in Int, NEW n \in Nat
  PROVE  Get(ring, i, n) \in Seq(B) /\ Len(Get(ring, i, n)) = n
<1>0. RingSize \in Nat \ {0}  BY StoreRingAssumption
<1>1. ASSUME NEW k \in 1 .. n PROVE ring[(i + k - 1) % RingSize] \in B
  <2> DEFINE x == i + k - 1
  <2>1. x \in Int  OBVIOUS
  <2> HIDE DEF x
  <2>2. x % RingSize \in 0 .. RingSize - 1  BY <1>0, <2>1, Division
  <2>3. ring[x % RingSize] \in B  BY <2>2
  <2> QED  BY <2>3 DEF x
<1> DEFINE g == Get(ring, i, n)
<1>2. g \in [1 .. n -> B]  BY <1>1 DEF Get
<1> HIDE DEF g
<1>3. g \in Seq(B) /\ Len(g) = n  BY <1>2
<1> QED  BY <1>3 DEF g

\* Which cell of the ring an element is read from.
LEMMA GetAt ==
  ASSUME NEW ring, NEW i \in Int, NEW n \in Nat, NEW k \in 1 .. n
  PROVE  Get(ring, i, n)[k] = ring[(i + (k - 1)) % RingSize]
BY DEF Get

\* ... whichever index is used for the place ...
LEMMA GetFrom ==
  ASSUME NEW B, NEW ring \in [0 .. RingSize - 1 -> B], NEW i \in Int, NEW j \in Int, NEW n \in Nat,
         i % RingSize = j % RingSize
  PROVE  Get(ring, i, n) = Get(ring, j, n)
<1>0. RingSize \in Nat \ {0}  BY StoreRingAssumption
<1>1. ASSUME NEW k \in 1 .. n PROVE Get(ring, i, n)[k] = Get(ring, j, n)[k]
  <2> DEFINE d == k - 1
  <2>1. d \in Int  OBVIOUS
  <2>2. Get(ring, i, n)[k] = ring[(i + d) % RingSize]  BY GetAt
  <2>3. Get(ring, j, n)[k] = ring[(j + d) % RingSize]  BY GetAt
  <2> HIDE DEF d
  <2>4. ((i % RingSize) + d) % RingSize = (i + d) % RingSize  BY <1>0, <2>1, Early
  <2>5. ((j % RingSize) + d) % RingSize = (j + d) % RingSize  BY <1>0, <2>1, Early
  <2> QED  BY <2>2, <2>3, <2>4, <2>5
<1>2. /\ Get(ring, i, n) \in Seq(B) /\ Len(Get(ring, i, n)) = n
      /\ Get(ring, j, n) \in Seq(B) /\ Len(Get(ring, j, n)) = n
  BY GetIs, ZenonT(60)
<1> QED  BY <1>1, <1>2, SameElements

\* ... and in as many pieces as one likes.
LEMMA GetSplit ==
  ASSUME NEW B, NEW ring \in [0 .. RingSize - 1 -> B], NEW i \in Int, NEW m \in Nat, NEW n \in Nat
  PROVE  Get(ring, i, m + n) = Get(ring, i, m) \o Get(ring, i + m, n)
<1> DEFINE a == Get(ring, i, m + n)
<1> DEFINE b == Get(ring, i, m)
<1> DEFINE c == Get(ring, i + m, n)
<1>0. m + n \in Nat /\ i + m \in Int  OBVIOUS
<1>1. a \in Seq(B) /\ Len(a) = m + n /\ b \in Seq(B) /\ Len(b) = m /\ c \in Seq(B) /\ Len(c) = n
  BY <1>0, GetIs, ZenonT(60)
<1>2. b \o c \in Seq(B) /\ Len(b \o c) = m + n  BY <1>1, Concat, ZenonT(60)
<1>3. ASSUME NEW k \in 1 .. m + n PROVE a[k] = (b \o c)[k]
  <2>1. a[k] = ring[(i + (k - 1)) % RingSize]  BY <1>0, GetAt
  <2>2. CASE k <= m
    <3>1. k \in 1 .. m  BY <2>2
    <3>2. b[k] = ring[(i + (k - 1)) % RingSize]  BY <3>1, GetAt
    <3>3. (b \o c)[k] = b[k]
      <4> HIDE DEF a, b, c
      <4> QED  BY <1>1, <3>1, Concat
    <3> QED  BY <2>1, <3>2, <3>3
  <2>3. CASE k > m
    <3>1. k - m \in 1 .. n /\ (i + m) + ((k - m) - 1) = i + (k - 1)  BY <2>3
    <3>2. c[k - m] = ring[((i + m) + ((k - m) - 1)) % RingSize]
      <4> DEFINE l == k - m
      <4> DEFINE h == i + m
      <4>1. l \in 1 .. n /\ h \in Int  BY <1>0, <3>1
      <4> HIDE DEF l, h, c
      <4>2. Get(ring, h, n)[l] = ring[(h + (l - 1)) % RingSize]  BY <4>1, GetAt
      <4> QED  BY <4>2 DEF l, h, c
    <3>3. (b \o c)[k] = c[k - m]
      <4> HIDE DEF a, b, c
      <4>1. k \in Len(b) + 1 .. Len(b) + Len(c) /\ Len(b) = m  BY <1>1, <2>3
      <4>2. (b \o c)[k] = c[k - Len(b)]  BY <1>1, <4>1, Concat
      <4> QED  BY <4>1, <4>2
    <3> QED  BY <2>1, <3>1, <3>2, <3>3
  <2>4. k <= m \/ k > m  OBVIOUS
  <2> HIDE DEF a, b, c
  <2> QED  BY <2>2, <2>3, <2>4
<1> HIDE DEF a, b, c
<1>4. a = b \o c  BY <1>1, <1>2, <1>3, SameElements
<1> QED  BY <1>4 DEF a, b, c

\* What is put into a ring is read again, and what was there is not disturbed if there
\* was room for it.
LEMMA PutGet ==
  ASSUME NEW B, NEW ring \in [0 .. RingSize - 1 -> B], NEW p \in Int, NEW bytes \in Seq(B),
         Len(bytes) <= RingSize
  PROVE  /\ Put(ring, p, bytes) \in [0 .. RingSize - 1 -> B]
         /\ Get(Put(ring, p, bytes), p, Len(bytes)) = bytes
         /\ \A c \in Int, f \in Nat :
              f + Len(bytes) <= RingSize /\ p % RingSize = (c + f) % RingSize
                => Get(Put(ring, p, bytes), c, f) = Get(ring, c, f)
<1> DEFINE n == Len(bytes)
<1> DEFINE new == Put(ring, p, bytes)
<1>0. RingSize \in Nat \ {0} /\ n \in Nat /\ n <= RingSize  BY StoreRingAssumption
<1>1. ASSUME NEW k \in Int
      PROVE  (k - p) % RingSize \in 0 .. RingSize - 1
  <2>1. k - p \in Int  OBVIOUS
  <2> QED  BY <1>0, <2>1, Division
<1>2. new \in [0 .. RingSize - 1 -> B]
  <2>1. \A k \in 0 .. RingSize - 1 :
          (k - p) % RingSize < Len(bytes) => bytes[((k - p) % RingSize) + 1] \in B
    <3> SUFFICES ASSUME NEW k \in 0 .. RingSize - 1, (k - p) % RingSize < Len(bytes)
                 PROVE  bytes[((k - p) % RingSize) + 1] \in B
      OBVIOUS
    <3>1. (k - p) % RingSize \in 0 .. RingSize - 1  BY <1>1
    <3> DEFINE d == (k - p) % RingSize
    <3>2. d \in 0 .. RingSize - 1 /\ d < Len(bytes)  BY <3>1
    <3> HIDE DEF d
    <3>3. bytes[d + 1] \in B  BY <1>0, <3>2
    <3> QED  BY <3>3 DEF d
  <2> QED  BY <2>1 DEF Put
<1>3. ASSUME NEW j \in Int, NEW x \in Int, (x - p) % RingSize = j
      PROVE  /\ x % RingSize \in 0 .. RingSize - 1
             /\ new[x % RingSize] = IF j < Len(bytes) THEN bytes[j + 1] ELSE ring[x % RingSize]
  <2>1. x % RingSize \in 0 .. RingSize - 1  BY <1>0, Division
  <2>2. ((x % RingSize) + (-p)) % RingSize = (x + (-p)) % RingSize
    <3>1. -p \in Int  OBVIOUS
    <3> QED  BY <1>0, <3>1, Early
  <2>3. ((x % RingSize) - p) % RingSize = j
    <3>1. (x % RingSize) + (-p) = (x % RingSize) - p /\ x + (-p) = x - p  BY <1>0, <2>1
    <3> QED  BY <1>3, <2>2, <3>1
  <2> DEFINE y == x % RingSize
  <2>4. y \in 0 .. RingSize - 1 /\ (y - p) % RingSize = j  BY <2>1, <2>3
  <2> HIDE DEF y
  <2>5. new[y] = IF j < Len(bytes) THEN bytes[j + 1] ELSE ring[y]  BY <2>4 DEF Put
  <2> QED  BY <2>1, <2>5 DEF y
<1> HIDE DEF new
<1>4. ASSUME NEW k \in 1 .. n PROVE Get(new, p, n)[k] = bytes[k]
  <2> DEFINE d == k - 1
  <2> DEFINE x == p + d
  <2>1. d \in 0 .. RingSize - 1 /\ d \in Int /\ x \in Int /\ x - p = d  BY <1>0
  <2>2. d < Len(bytes) /\ d + 1 = k  BY <1>0
  <2>3. Get(new, p, n)[k] = new[x % RingSize]  BY <1>0, GetAt
  <2> HIDE DEF d, x
  <2>4. d % RingSize = d  BY <1>0, <2>1, Early
  <2>5. (x - p) % RingSize = d  BY <2>1, <2>4
  <2>6. new[x % RingSize] = bytes[d + 1]  BY <1>3, <2>1, <2>2, <2>5
  <2> QED  BY <2>2, <2>3, <2>6
<1>5. Get(new, p, n) = bytes
  <2> DEFINE g == Get(new, p, n)
  <2>1. g \in Seq(B) /\ Len(g) = n /\ \A k \in 1 .. n : g[k] = bytes[k]  BY <1>0, <1>2, <1>4, GetIs
  <2> HIDE DEF g
  <2>2. g = bytes  BY <2>1, SameElements
  <2> QED  BY <2>2 DEF g
<1>6. ASSUME NEW c \in Int, NEW f \in Nat, f + Len(bytes) <= RingSize, p % RingSize = (c + f) % RingSize
      PROVE  Get(new, c, f) = Get(ring, c, f)
  <2>1. ASSUME NEW k \in 1 .. f PROVE Get(new, c, f)[k] = Get(ring, c, f)[k]
    <3> DEFINE x == c + (k - 1)
    <3> DEFINE j == (k - 1 - f) + RingSize
    <3>1. x \in Int /\ j \in 0 .. RingSize - 1 /\ ~ (j < Len(bytes)) /\ c + f \in Int  BY <1>0, <1>6
    <3>2. (x - p) % RingSize = j
      <4>1. ((x % RingSize) - (p % RingSize)) % RingSize = (x - p) % RingSize  BY <1>0, <3>1, Early, ZenonT(60)
      <4>2. ((x % RingSize) - ((c + f) % RingSize)) % RingSize = (x - (c + f)) % RingSize
        BY <1>0, <3>1, Early, ZenonT(60)
      <4>3. x - (c + f) = RingSize * (-1) + j  BY <1>0
      <4>4. (RingSize * (-1) + j) % RingSize = j
        <5> HIDE DEF j
        <5>1. -1 \in Int /\ j \in 0 .. RingSize - 1  BY <3>1
        <5>2. \A q \in Int : (RingSize * q + j) % RingSize = j  BY <1>0, <5>1, Remainder
        <5> QED  BY <5>1, <5>2
      <4> QED  BY <1>6, <4>1, <4>2, <4>3, <4>4
    <3>3. Get(new, c, f)[k] = new[x % RingSize] /\ Get(ring, c, f)[k] = ring[x % RingSize]  BY GetAt
    <3> HIDE DEF x, j
    <3>4. new[x % RingSize] = ring[x % RingSize]  BY <1>3, <3>1, <3>2
    <3> QED  BY <3>3, <3>4
  <2>2. Get(new, c, f) = Get(ring, c, f)
    <3> DEFINE g == Get(new, c, f)
    <3> DEFINE h == Get(ring, c, f)
    <3>1. g \in Seq(B) /\ Len(g) = f /\ h \in Seq(B) /\ Len(h) = f /\ \A k \in 1 .. f : g[k] = h[k]
      BY <1>2, <2>1, GetIs
    <3> HIDE DEF g, h
    <3>2. g = h  BY <3>1, SameElements
    <3> QED  BY <3>2 DEF g, h
  <2> QED  BY <2>2
<1> QED  BY <1>2, <1>5, <1>6 DEF new

-----------------------------------------------------------------------------
(* The invariant.                                                          *)

Message == Thread \cup Event
Byte    == Message \X (Nat \ {0})
Cell    == Int \X Int
Points  == {"none", "count", "send", "publish", "sent", "recv", "consume", "process", "read",
            "done", "wait"}

RequestLen == Sum(Segments)
Waiting(t) == State[t] \in {"submitted", "pending"}
Asking(t)  == State[t] \in {"submitted", "pending", "completed"}

\* Bytes of the request that were published, and bytes in the two rings.
Sent    == Sum(SubSeq(Segments, 1, Index - 1)) + Offset
ReqFill == Fill(req_prod, req_cons)
RspFill == Fill(rsp_prod, rsp_cons)

\* The type of every variable, copied left out where it means nothing.
RingTypeOK ==
  /\ req \in [0 .. RingSize - 1 -> Cell] /\ rsp \in [0 .. RingSize - 1 -> Cell]
  /\ req_prod \in 0 .. IndexMod - 1 /\ req_cons \in 0 .. IndexMod - 1
  /\ rsp_prod \in 0 .. IndexMod - 1 /\ rsp_cons \in 0 .. IndexMod - 1
  /\ State \in [Thread -> {"prepared", "submitted", "pending", "completed", "done"}]
  /\ owner \in {"none", "thread", "dpc", "watchdog"} /\ pc \in Points
  /\ Index \in 1 .. Len(Segments) + 1 /\ Offset \in Nat /\ Response \in Seq(Cell)
  /\ xsIn \in Seq(Cell) /\ xsOut \in Seq(Message) /\ xsPos \in Nat
  /\ made \in 0 .. MaxEvents /\ fired \in Nat
  /\ pc \in {"publish", "consume"} => copied \in 0 .. RingSize
FlagsOK == xsAwake \in BOOLEAN /\ counted \in BOOLEAN /\ dpc \in BOOLEAN

\* Context->Lock: a submitter keeps it until it has its response, so one request
\* at a time is under way.
HolderInv ==
  /\ (owner = "none") <=> (pc = "none")
  /\ pc = "wait" => owner = "thread"
  /\ pc = "publish" => Submitted # {}
  /\ \A t \in Thread : Asking(t) => owner = "thread" /\ \A u \in Thread : Asking(u) => t = u

\* The segment in progress; what was copied of it is not published yet.
SegmentInv ==
  \A t \in Thread :
    /\ State[t] = "submitted" =>
         /\ Index <= Len(Segments) /\ Offset <= Segments[Index]
         /\ pc \notin {"send", "publish"} => Offset < Segments[Index]
         /\ pc = "publish" => /\ Offset + copied <= Segments[Index] /\ ReqFill + copied <= RingSize
                              /\ Get(req, req_prod, copied) = Bytes(t, Sent, copied)
    /\ State[t] = "pending" => Index = Len(Segments) + 1 /\ Offset = 0

\* xenstored has read a part of the request and the rest of what was published is on
\* the ring, or it has read all of the request.
Answerable(t) == Waiting(t) /\ xsIn = <<>> /\ ReqFill = 0 /\ Sent = RequestLen
RequestInv ==
  /\ ReqFill <= RingSize
  /\ (\A t \in Thread : ~Waiting(t)) => xsIn = <<>> /\ ReqFill = 0
  /\ \A t \in Thread : Waiting(t) =>
       \/ Answerable(t)
       \/ xsIn \o Get(req, req_cons, ReqFill) = Bytes(t, 0, Sent) /\ Len(xsIn) < RequestLen

\* What xenstored has sent and the driver has not processed: the response so far and
\* the bytes on the ring that were not copied to it.
Skip   == IF pc = "consume" THEN copied ELSE 0
Stream == Response \o Get(rsp, rsp_cons + Skip, RspFill - Skip)

LastOf(s) == s[Len(s)]
Ends(b)   == b[2] = MsgLen(b[1])

\* Whole messages follow one another, no byte twice; the last may be incomplete.
Chain(s) ==
  /\ s \in Seq(Byte)
  /\ \A i \in 1 .. Len(s) : s[i][2] <= MsgLen(s[i][1])
  /\ s # <<>> => s[1][2] = 1
  /\ \A i \in 1 .. Len(s) - 1 :
       IF Ends(s[i]) THEN s[i + 1][2] = 1 ELSE s[i + 1] = <<s[i][1], s[i][2] + 1>>
  /\ \A i, j \in 1 .. Len(s) : i # j => s[i] # s[j]

ResponseInv ==
  /\ RspFill <= RingSize /\ Skip <= RspFill
  /\ Chain(Stream)
  /\ Response # <<>> => Len(Response) <= MsgLen(Response[1][1])
  /\ Response # <<>> /\ pc \notin {"consume", "process"} => Len(Response) < MsgLen(Response[1][1])
  /\ pc = "process" => Response # <<>> /\ Len(Response) = MsgLen(Response[1][1])
  /\ pc = "consume" => copied <= Len(Response)

\* The message that xenstored is writing continues the stream, those after it are not
\* in it yet.
WritingInv ==
  /\ xsPos = 0 => Stream = <<>> \/ Ends(LastOf(Stream))
  /\ xsPos > 0 => /\ xsOut # <<>> /\ xsPos < MsgLen(xsOut[1]) /\ Stream # <<>>
                  /\ LastOf(Stream) = <<xsOut[1], xsPos>>
  /\ \A i, j \in 1 .. Len(xsOut) : i # j => xsOut[i] # xsOut[j]
  /\ \A i \in 1 .. Len(xsOut) : \A k \in 1 .. Len(Stream) :
       Stream[k][1] = xsOut[i] => i = 1 /\ Stream[k][2] <= xsPos

\* The messages under way: the reply to the request under way and the events that were
\* made and have not fired.
Carried(m) == \/ \E i \in 1 .. Len(xsOut) : xsOut[i] = m
              \/ \E i \in 1 .. Len(Stream) : Stream[i][1] = m
Flying == {e \in Event : Carried(e)}
CarriedInv ==
  /\ \A t \in Thread : Carried(t) => Answerable(t)
  /\ \A e \in Event : Carried(e) => e <= Threads + made
  /\ fired + Cardinality(Flying) = made

RingIInv == /\ RingTypeOK /\ FlagsOK /\ HolderInv /\ SegmentInv /\ RequestInv /\ ResponseInv
            /\ WritingInv /\ CarriedInv

-----------------------------------------------------------------------------
(* Bytes of messages, and chains of them.                                  *)

\* Every message has a length, and the buffer for a response is long enough for it.
LEMMA MsgLens ==
  ASSUME NEW m \in Message
  PROVE  /\ MsgLen(m) \in Nat \ {0} /\ HeaderLen <= MsgLen(m) /\ HeaderLen \in Nat \ {0}
         /\ MsgLen(m) <= HeaderLen + EventLen + Sum(ReplyLen)
<1>0. /\ HeaderLen \in Nat \ {0} /\ Threads \in Nat \ {0} /\ MaxEvents \in Nat /\ EventLen \in Nat
      /\ ReplyLen \in [1 .. Threads -> Nat]
  BY StoreRingAssumption DEF Thread
<1>1. ReplyLen \in Seq(Nat) /\ Len(ReplyLen) = Threads  BY <1>0
<1>2. Sum(ReplyLen) \in Nat
  <2>1. 1 \in 1 .. Len(ReplyLen)  BY <1>0, <1>1
  <2> QED  BY <1>1, <2>1, SumTerm
<1>3. CASE m \in Event
  <2>1. MsgLen(m) = HeaderLen + EventLen  BY <1>3 DEF MsgLen
  <2> HIDE DEF MsgLen
  <2> QED  BY <1>0, <1>2, <2>1
<1>4. CASE m \notin Event
  <2>1. m \in 1 .. Len(ReplyLen)  BY <1>1, <1>4 DEF Message, Thread
  <2>2. ReplyLen[m] \in Nat /\ ReplyLen[m] <= Sum(ReplyLen)  BY <1>0, <1>1, <2>1, SumTerm
  <2>3. MsgLen(m) = HeaderLen + ReplyLen[m]  BY <1>4 DEF MsgLen
  <2> QED  BY <1>0, <1>2, <2>2, <2>3
<1> QED  BY <1>3, <1>4

\* Consecutive bytes of a message.
LEMMA BytesAre ==
  ASSUME NEW m \in Message, NEW a \in Nat, NEW n \in Nat
  PROVE  /\ Bytes(m, a, n) \in Seq(Byte) /\ Len(Bytes(m, a, n)) = n
         /\ \A i \in 1 .. n : Bytes(m, a, n)[i] = <<m, a + i>>
<1> DEFINE b == Bytes(m, a, n)
<1>1. b = [i \in 1 .. n |-> <<m, a + i>>]  BY DEF Bytes
<1>2. \A i \in 1 .. n : <<m, a + i>> \in Byte  BY DEF Byte
<1> HIDE DEF b
<1>3. b \in [1 .. n -> Byte]  BY <1>1, <1>2
<1>4. b \in Seq(Byte) /\ Len(b) = n  BY <1>3
<1>5. \A i \in 1 .. n : b[i] = <<m, a + i>>  BY <1>1
<1> QED  BY <1>4, <1>5 DEF b

\* The bytes of a message in two pieces.
LEMMA BytesSplit ==
  ASSUME NEW m \in Message, NEW a \in Nat, NEW n \in Nat, NEW k \in Nat
  PROVE  Bytes(m, a, n + k) = Bytes(m, a, n) \o Bytes(m, a + n, k)
<1> DEFINE b == Bytes(m, a, n)
<1> DEFINE c == Bytes(m, a + n, k)
<1> DEFINE d == Bytes(m, a, n + k)
<1>0. a + n \in Nat /\ n + k \in Nat  OBVIOUS
<1>1. b \in Seq(Byte) /\ Len(b) = n /\ \A i \in 1 .. n : b[i] = <<m, a + i>>  BY BytesAre
<1>2. c \in Seq(Byte) /\ Len(c) = k /\ \A i \in 1 .. k : c[i] = <<m, (a + n) + i>>  BY <1>0, BytesAre
<1>3. d \in Seq(Byte) /\ Len(d) = n + k /\ \A i \in 1 .. n + k : d[i] = <<m, a + i>>  BY <1>0, BytesAre
<1> HIDE DEF b, c, d
<1>4. b \o c \in Seq(Byte) /\ Len(b \o c) = n + k  BY <1>1, <1>2, Concat
<1>5. ASSUME NEW i \in 1 .. n + k PROVE d[i] = (b \o c)[i]
  <2>1. CASE i <= n
    <3>1. i \in 1 .. Len(b)  BY <1>1, <2>1
    <3>2. (b \o c)[i] = b[i]  BY <1>1, <1>2, <3>1, Concat
    <3> QED  BY <1>1, <1>3, <3>1, <3>2
  <2>2. CASE i > n
    <3>1. i \in Len(b) + 1 .. Len(b) + Len(c)  BY <1>1, <1>2, <2>2
    <3>2. (b \o c)[i] = c[i - Len(b)]  BY <1>1, <1>2, <3>1, Concat
    <3>3. i - n \in 1 .. k /\ (a + n) + (i - n) = a + i  BY <2>2
    <3>4. c[i - n] = <<m, (a + n) + (i - n)>>  BY <1>2, <3>3
    <3> QED  BY <1>1, <1>3, <3>2, <3>3, <3>4
  <2>3. i <= n \/ i > n  OBVIOUS
  <2> QED  BY <2>1, <2>2, <2>3
<1>6. d = b \o c  BY <1>3, <1>4, <1>5, SameElements
<1> QED  BY <1>6 DEF b, c, d

\* A chain begins with the bytes of one message, in order.
LEMMA HeadMessage ==
  ASSUME NEW s, Chain(s), s # <<>>, NEW n \in 0 .. Len(s), n <= MsgLen(s[1][1])
  PROVE  s[1][1] \in Message /\ \A i \in 1 .. n : s[i] = <<s[1][1], i>>
<1> DEFINE m == s[1][1]
<1>0. s \in Seq(Byte) /\ Len(s) \in Nat /\ 1 \in 1 .. Len(s) /\ n \in Nat  BY DEF Chain
<1>1. s[1] \in Byte /\ m \in Message /\ s[1] = <<m, s[1][2]>>
  <2>1. s[1] \in Byte  BY <1>0
  <2> QED  BY <2>1 DEF Byte
<1>2. s[1] = <<m, 1>>  BY <1>1 DEF Chain
<1>3. MsgLen(m) \in Nat  BY <1>1, MsgLens
<1> DEFINE Off == {i \in 0 .. n : i > 0 /\ s[i] # <<m, i>>}
<1> HIDE DEF m
<1>4. ASSUME NEW i \in 1 .. n, i - 1 \notin Off PROVE i \notin Off
  <2>1. CASE i = 1  BY <1>2, <2>1
  <2>2. CASE i # 1
    <3> DEFINE j == i - 1
    <3>1. j \in 1 .. Len(s) - 1 /\ j \in 0 .. n /\ j > 0 /\ j + 1 = i /\ j < MsgLen(m)
      BY <1>0, <1>3, <2>2 DEF m
    <3>2. s[j] = <<m, j>>  BY <1>4, <3>1
    <3> HIDE DEF j
    <3>3. ~Ends(s[j])  BY <1>3, <3>1, <3>2 DEF Ends
    <3>4. s[j + 1] = <<s[j][1], s[j][2] + 1>>  BY <3>1, <3>3 DEF Chain
    <3>5. s[i] = <<m, i>>  BY <3>1, <3>2, <3>4
    <3> QED  BY <3>5
  <2> QED  BY <2>1, <2>2
<1>5. Off \in SUBSET (0 .. n) /\ 0 \notin Off  OBVIOUS
<1>6. Off = {}
  <2> HIDE DEF Off
  <2> QED  BY <1>0, <1>4, <1>5, NoCounterexample
<1>7. \A i \in 1 .. n : i \in 0 .. n /\ i > 0  BY <1>0
<1>8. \A i \in 1 .. n : s[i] = <<m, i>>  BY <1>6, <1>7
<1> QED  BY <1>1, <1>8 DEF m

\* Without its first message, it is a chain that has no byte of that message.
LEMMA DropMessage ==
  ASSUME NEW s, Chain(s), s # <<>>, MsgLen(s[1][1]) <= Len(s)
  PROVE  LET n == MsgLen(s[1][1])
             r == SubSeq(s, n + 1, Len(s)) IN
         /\ Chain(r) /\ n \in 1 .. Len(s) /\ Len(r) = Len(s) - n
         /\ \A i \in 1 .. Len(r) : r[i] = s[n + i] /\ r[i][1] # s[1][1]
         /\ s[n] = <<s[1][1], n>>
         /\ \A i \in 1 .. n : s[i][1] = s[1][1]
<1> DEFINE m == s[1][1]
<1> DEFINE n == MsgLen(m)
<1> DEFINE r == SubSeq(s, n + 1, Len(s))
<1>0. s \in Seq(Byte) /\ Len(s) \in Nat /\ 1 \in 1 .. Len(s)  BY DEF Chain
<1>1. m \in Message /\ n \in Nat \ {0}
  <2>1. s[1] \in Byte  BY <1>0
  <2>2. m \in Message  BY <2>1 DEF Byte
  <2> QED  BY <2>2, MsgLens
<1>2. n \in 1 .. Len(s) /\ n \in 0 .. Len(s) /\ n <= n  BY <1>0, <1>1
<1>3. \A i \in 1 .. n : s[i] = <<m, i>>  BY <1>2, HeadMessage
<1>4. r \in Seq(Byte) /\ Len(r) = Len(s) - n /\ \A i \in 1 .. Len(s) - n : r[i] = s[n + i]
  <2> HIDE DEF n, m
  <2> QED  BY <1>0, <1>2, Part
<1> HIDE DEF r
<1>5. ASSUME NEW i \in 1 .. Len(s) - n PROVE r[i][1] # m
  <2> SUFFICES ASSUME r[i][1] = m PROVE FALSE  OBVIOUS
  <2> DEFINE j == n + i
  <2> DEFINE k == r[i][2]
  <2>1. j \in 1 .. Len(s) /\ j > n /\ s[j] = r[i]
    <3> HIDE DEF n, m
    <3> QED  BY <1>0, <1>1, <1>4
  <2>2. r[i] \in Byte /\ r[i] = <<m, k>> /\ k \in Nat \ {0}
    <3>1. r[i] \in Byte  BY <1>4
    <3> QED  BY <3>1 DEF Byte
  <2>3. k <= n
    <3>1. s[j][2] <= MsgLen(s[j][1])  BY <2>1 DEF Chain
    <3> QED  BY <2>1, <3>1
  <2> HIDE DEF j, k, n, m
  <2>4. k \in 1 .. n  BY <1>1, <2>2, <2>3
  <2>5. s[k] = r[i]  BY <1>3, <2>2, <2>4
  <2>6. k \in 1 .. Len(s) /\ k # j  BY <1>0, <1>2, <2>1, <2>4
  <2> QED  BY <2>1, <2>5, <2>6 DEF Chain
<1>6. Chain(r)
  <2> HIDE DEF n, m
  <2>1. \A i \in 1 .. Len(r) : r[i] = s[n + i] /\ n + i \in 1 .. Len(s)  BY <1>0, <1>1, <1>4
  <2>2. \A i \in 1 .. Len(r) : r[i][2] <= MsgLen(r[i][1])
    <3> TAKE i \in 1 .. Len(r)
    <3> DEFINE j == n + i
    <3>1. r[i] = s[j] /\ j \in 1 .. Len(s)  BY <2>1
    <3> HIDE DEF j
    <3> QED  BY <3>1 DEF Chain
  <2>3. r # <<>> => r[1][2] = 1
    <3> SUFFICES ASSUME r # <<>> PROVE r[1][2] = 1  OBVIOUS
    <3>1. 1 \in 1 .. Len(r) /\ n \in 1 .. Len(s) - 1  BY <1>0, <1>2, <1>4
    <3>2. s[n] = <<m, n>>  BY <1>2, <1>3
    <3>3. Ends(s[n])  BY <3>2 DEF Ends, n
    <3>4. s[n + 1][2] = 1  BY <3>1, <3>3 DEF Chain
    <3> QED  BY <2>1, <3>1, <3>4
  <2>4. ASSUME NEW i \in 1 .. Len(r) - 1
        PROVE  IF Ends(r[i]) THEN r[i + 1][2] = 1 ELSE r[i + 1] = <<r[i][1], r[i][2] + 1>>
    <3> DEFINE j == n + i
    <3>1. i \in 1 .. Len(r) /\ i + 1 \in 1 .. Len(r) /\ n + (i + 1) = j + 1 /\ j \in 1 .. Len(s) - 1
      BY <1>0, <1>1, <1>4
    <3>2. r[i] = s[j] /\ r[i + 1] = s[n + (i + 1)]  BY <2>1, <3>1
    <3> HIDE DEF j
    <3>3. IF Ends(s[j]) THEN s[j + 1][2] = 1 ELSE s[j + 1] = <<s[j][1], s[j][2] + 1>>
      BY <3>1 DEF Chain
    <3> QED  BY <3>1, <3>2, <3>3
  <2>5. ASSUME NEW i \in 1 .. Len(r), NEW j \in 1 .. Len(r), i # j PROVE r[i] # r[j]
    <3> DEFINE a == n + i
    <3> DEFINE b == n + j
    <3>1. r[i] = s[a] /\ r[j] = s[b] /\ a \in 1 .. Len(s) /\ b \in 1 .. Len(s)  BY <2>1
    <3>2. a # b  BY <1>1, <2>5
    <3> HIDE DEF a, b
    <3>3. s[a] # s[b]  BY <3>1, <3>2 DEF Chain
    <3> QED  BY <3>1, <3>3
  <2> QED  BY <1>4, <2>2, <2>3, <2>4, <2>5 DEF Chain
<1>7. /\ \A i \in 1 .. Len(r) : r[i] = s[n + i] /\ r[i][1] # m
      /\ s[n] = <<m, n>> /\ \A i \in 1 .. n : s[i][1] = m
  <2> HIDE DEF n, m
  <2> QED  BY <1>2, <1>3, <1>4, <1>5
<1> QED  BY <1>2, <1>4, <1>6, <1>7 DEF r

\* The next bytes of the message that is written, or the first ones of another.
LEMMA AppendBytes ==
  ASSUME NEW s, Chain(s), NEW m \in Message, NEW a \in Nat, NEW n \in Nat \ {0},
         a + n <= MsgLen(m),
         a = 0 => s = <<>> \/ Ends(LastOf(s)),
         a > 0 => s # <<>> /\ LastOf(s) = <<m, a>>,
         \A k \in 1 .. Len(s) : s[k][1] = m => s[k][2] <= a
  PROVE  LET r == s \o Bytes(m, a, n) IN
         /\ Chain(r) /\ r # <<>> /\ LastOf(r) = <<m, a + n>> /\ Len(r) = Len(s) + n
         /\ \A i \in 1 .. Len(s) : r[i] = s[i]
         /\ \A i \in Len(s) + 1 .. Len(s) + n : r[i] = <<m, a + (i - Len(s))>>
<1> DEFINE b == Bytes(m, a, n)
<1> DEFINE r == s \o b
<1> DEFINE l == Len(s)
<1>0. s \in Seq(Byte) /\ l \in Nat /\ MsgLen(m) \in Nat \ {0}  BY MsgLens DEF Chain
<1>1. b \in Seq(Byte) /\ Len(b) = n /\ \A i \in 1 .. n : b[i] = <<m, a + i>>  BY BytesAre
<1> HIDE DEF b
<1>2. /\ r \in Seq(Byte) /\ Len(r) = l + n
      /\ \A i \in 1 .. l : r[i] = s[i]
      /\ \A i \in l + 1 .. l + n : r[i] = b[i - l]
  BY <1>0, <1>1, Concat, ZenonT(60)
<1> HIDE DEF r, l
<1>3. ASSUME NEW i \in l + 1 .. l + n PROVE r[i] = <<m, a + (i - l)>>
  <2>1. i - l \in 1 .. n  BY <1>0
  <2> QED  BY <1>1, <1>2, <2>1
<1>4. LastOf(r) = <<m, a + n>> /\ r # <<>>
  <2>1. l + n \in l + 1 .. l + n /\ (l + n) - l = n  BY <1>0
  <2>2. r[l + n] = <<m, a + ((l + n) - l)>>  BY <1>3, <2>1
  <2>3. r # <<>>  BY <1>0, <1>2
  <2> QED  BY <1>2, <2>1, <2>2, <2>3 DEF LastOf
<1>5. ASSUME NEW i \in 1 .. l + n PROVE r[i][2] <= MsgLen(r[i][1])
  <2>1. CASE i \in 1 .. l
    <3>1. r[i] = s[i]  BY <1>2, <2>1
    <3>2. s[i][2] <= MsgLen(s[i][1])  BY <2>1 DEF Chain, l
    <3> QED  BY <3>1, <3>2
  <2>2. CASE i \in l + 1 .. l + n
    <3>1. r[i] = <<m, a + (i - l)>>  BY <1>3, <2>2
    <3>2. a + (i - l) <= MsgLen(m)  BY <1>0, <2>2
    <3> QED  BY <3>1, <3>2
  <2>3. i \in 1 .. l \/ i \in l + 1 .. l + n  BY <1>0
  <2> QED  BY <2>1, <2>2, <2>3
<1>6. r[1][2] = 1
  <2>1. CASE l = 0
    <3>1. s = <<>>  BY <1>0, <2>1 DEF l
    <3>2. a = 0 /\ 1 \in l + 1 .. l + n /\ 1 - l = 1  BY <1>0, <2>1, <3>1
    <3>3. r[1] = <<m, a + (1 - l)>>  BY <1>3, <3>2
    <3> QED  BY <3>2, <3>3
  <2>2. CASE l # 0
    <3>1. 1 \in 1 .. l /\ s # <<>>  BY <1>0, <2>2 DEF l
    <3>2. s[1][2] = 1  BY <3>1 DEF Chain
    <3> QED  BY <1>2, <3>1, <3>2
  <2> QED  BY <2>1, <2>2
<1>7. ASSUME NEW i \in 1 .. (l + n) - 1
      PROVE  IF Ends(r[i]) THEN r[i + 1][2] = 1 ELSE r[i + 1] = <<r[i][1], r[i][2] + 1>>
  <2>1. CASE i \in 1 .. l - 1
    <3>1. i \in 1 .. l /\ i + 1 \in 1 .. l  BY <1>0, <2>1
    <3>2. r[i] = s[i] /\ r[i + 1] = s[i + 1]  BY <1>2, <3>1
    <3>3. IF Ends(s[i]) THEN s[i + 1][2] = 1 ELSE s[i + 1] = <<s[i][1], s[i][2] + 1>>
      BY <2>1 DEF Chain, l
    <3> QED  BY <3>2, <3>3
  <2>2. CASE i = l
    <3>1. i \in 1 .. l /\ l + 1 \in l + 1 .. l + n /\ (l + 1) - l = 1 /\ s # <<>>  BY <1>0, <2>2 DEF l
    <3>2. r[l] = s[l] /\ r[l + 1] = <<m, a + 1>>  BY <1>2, <1>3, <2>2, <3>1
    <3>3. s[l] = LastOf(s)  BY DEF LastOf, l
    <3>4. CASE a = 0
      <4>1. Ends(s[l])  BY <3>1, <3>3, <3>4
      <4> QED  BY <2>2, <3>2, <3>4, <4>1
    <3>5. CASE a > 0
      <4>1. s[l] = <<m, a>> /\ a # MsgLen(m)  BY <1>0, <3>3, <3>5
      <4>2. ~Ends(s[l])  BY <4>1 DEF Ends
      <4> QED  BY <2>2, <3>2, <4>1, <4>2
    <3> QED  BY <3>4, <3>5
  <2>3. CASE i \in l + 1 .. (l + n) - 1
    <3> DEFINE d == a + (i - l)
    <3>1. /\ i \in l + 1 .. l + n /\ i + 1 \in l + 1 .. l + n
          /\ a + ((i + 1) - l) = d + 1 /\ d # MsgLen(m) /\ d \in Nat
      BY <1>0, <2>3
    <3>2. r[i] = <<m, d>>  BY <1>3, <3>1
    <3>3. r[i + 1] = <<m, a + ((i + 1) - l)>>  BY <1>3, <3>1
    <3>4. r[i + 1] = <<m, d + 1>>  BY <3>1, <3>3
    <3> HIDE DEF d
    <3>5. ~Ends(r[i])  BY <3>1, <3>2 DEF Ends
    <3> QED  BY <3>2, <3>4, <3>5
  <2>4. i \in 1 .. l - 1 \/ i = l \/ i \in l + 1 .. (l + n) - 1  BY <1>0
  <2> QED  BY <2>1, <2>2, <2>3, <2>4
<1>8. ASSUME NEW i \in 1 .. l, NEW j \in l + 1 .. l + n PROVE r[i] # r[j]
  <2> SUFFICES ASSUME r[i] = r[j] PROVE FALSE  OBVIOUS
  <2> DEFINE d == a + (j - l)
  <2>1. r[j] = <<m, d>> /\ d > a /\ d \in Nat  BY <1>0, <1>3
  <2> HIDE DEF d
  <2>2. s[i] = <<m, d>>  BY <1>2, <2>1
  <2>3. s[i][1] = m /\ s[i][2] = d  BY <2>2
  <2>4. d <= a  BY <2>3 DEF l
  <2> QED  BY <2>1, <2>4
<1>9. ASSUME NEW i \in 1 .. l + n, NEW j \in 1 .. l + n, i # j PROVE r[i] # r[j]
  <2>1. CASE i \in 1 .. l /\ j \in 1 .. l
    <3>1. s[i] # s[j]  BY <1>9, <2>1 DEF Chain, l
    <3> QED  BY <1>2, <2>1, <3>1
  <2>2. CASE i \in l + 1 .. l + n /\ j \in l + 1 .. l + n
    <3>1. r[i] = <<m, a + (i - l)>> /\ r[j] = <<m, a + (j - l)>>  BY <1>3, <2>2
    <3>2. a + (i - l) # a + (j - l)  BY <1>0, <1>9
    <3> QED  BY <3>1, <3>2
  <2>3. CASE i \in 1 .. l /\ j \in l + 1 .. l + n  BY <1>8, <2>3
  <2>4. CASE j \in 1 .. l /\ i \in l + 1 .. l + n  BY <1>8, <2>4
  <2>5. /\ i \in 1 .. l \/ i \in l + 1 .. l + n
        /\ j \in 1 .. l \/ j \in l + 1 .. l + n
    BY <1>0
  <2> QED  BY <2>1, <2>2, <2>3, <2>4, <2>5
<1>10. Chain(r)  BY <1>2, <1>5, <1>6, <1>7, <1>9 DEF Chain
<1> QED  BY <1>2, <1>3, <1>4, <1>10 DEF r, b, l

-----------------------------------------------------------------------------
(* What the steps share.                                                   *)

up   == <<req, req_prod, req_cons, State, Index, Offset, xsIn>>
down == <<rsp, rsp_prod, rsp_cons, Response, xsOut, xsPos, fired, made>>

\* The constants and the messages they make.
LEMMA Numbers ==
  /\ RingSize \in Nat \ {0} /\ IndexMod \in Nat \ {0} /\ RingSize < IndexMod
  /\ HeaderLen \in Nat \ {0} /\ Threads \in Nat \ {0} /\ MaxEvents \in Nat
  /\ Segments \in Seq(Nat) /\ Len(Segments) \in Nat \ {0} /\ Segments[1] = HeaderLen
  /\ Thread = 1 .. Threads /\ Event = Threads + 1 .. Threads + MaxEvents
  /\ Thread \subseteq Message /\ Event \subseteq Message /\ Thread \cap Event = {}
<1>1. /\ RingSize \in Nat \ {0} /\ IndexMod \in Nat \ {0} /\ RingSize < IndexMod
      /\ HeaderLen \in Nat \ {0} /\ Threads \in Nat \ {0} /\ MaxEvents \in Nat
      /\ Segments \in Seq(Nat) /\ Segments # <<>> /\ Segments[1] = HeaderLen
  BY StoreRingAssumption
<1>2. Len(Segments) \in Nat \ {0}  BY <1>1
<1> QED  BY <1>1, <1>2 DEF Thread, Event, Message

\* The bytes before a segment.
Before(i) == Sum(SubSeq(Segments, 1, i - 1))

\* The sums of the lengths of the first segments, up to the length of the request.
LEMMA Prefixes ==
  /\ RequestLen \in Nat /\ 0 < RequestLen
  /\ Before(1) = 0 /\ Before(Len(Segments) + 1) = RequestLen
  /\ \A i \in 1 .. Len(Segments) :
       /\ Before(i) \in Nat /\ Segments[i] \in Nat /\ Before(i + 1) = Before(i) + Segments[i]
       /\ Before(i) + Segments[i] <= RequestLen
<1> DEFINE G == Sums(Segments)
<1> DEFINE n == Len(Segments)
<1>0. /\ Segments \in Seq(Nat) /\ n \in Nat \ {0} /\ Segments[1] \in Nat \ {0}
      /\ \A i \in 1 .. n : Segments[i] \in Nat
  BY Numbers
<1>1. /\ G \in [0 .. n -> Nat] /\ G[0] = 0 /\ RequestLen = G[n]
      /\ \A i \in 1 .. n : G[i] = G[i - 1] + Segments[i]
  BY <1>0, SumsAre DEF Adds, RequestLen
<1>2. \A k \in 0 .. n : Sum(SubSeq(Segments, 1, k)) = G[k]  BY <1>0, SumsRise
<1>3. \A i \in 0 .. n : G[i] <= G[n]
  <2>1. \A i, j \in 0 .. n : i <= j => G[i] <= G[j]  BY <1>0, SumsRise
  <2> QED  BY <1>0, <2>1
<1>4. ASSUME NEW i \in 1 .. n + 1 PROVE Before(i) = G[i - 1]
  <2>1. i - 1 \in 0 .. n  BY <1>0
  <2> QED  BY <1>2, <2>1 DEF Before
<1> HIDE DEF G, n
<1>5. ASSUME NEW i \in 1 .. n
      PROVE  /\ Before(i) \in Nat /\ Segments[i] \in Nat /\ Before(i + 1) = Before(i) + Segments[i]
             /\ Before(i) + Segments[i] <= RequestLen
  <2>1. i \in 0 .. n /\ i - 1 \in 0 .. n /\ i \in 1 .. n + 1 /\ i + 1 \in 1 .. n + 1 /\ (i + 1) - 1 = i
    BY <1>0
  <2>2. Before(i) = G[i - 1] /\ Before(i + 1) = G[(i + 1) - 1]  BY <1>4, <2>1
  <2>3. G[i] = G[i - 1] + Segments[i] /\ G[i] <= G[n] /\ G[i - 1] \in Nat /\ Segments[i] \in Nat
    BY <1>0, <1>1, <1>3, <2>1
  <2> QED  BY <1>1, <2>1, <2>2, <2>3
<1>6. Before(1) = 0 /\ Before(n + 1) = RequestLen /\ RequestLen \in Nat
  <2>1. 1 \in 1 .. n + 1 /\ n + 1 \in 1 .. n + 1 /\ 1 - 1 = 0 /\ (n + 1) - 1 = n /\ n \in 0 .. n  BY <1>0
  <2>2. Before(1) = G[1 - 1] /\ Before(n + 1) = G[(n + 1) - 1]  BY <1>4, <2>1
  <2> QED  BY <1>1, <2>1, <2>2
<1>7. 0 < RequestLen
  <2>1. 1 \in 1 .. n  BY <1>0
  <2>2. Before(1) + Segments[1] <= RequestLen  BY <1>5, <2>1
  <2> QED  BY <1>0, <1>6, <2>2
<1> QED  BY <1>5, <1>6, <1>7 DEF n

\* How much of the request has been published.
LEMMA SentIs ==
  ASSUME RingTypeOK
  PROVE  /\ Sent \in Nat /\ Sent = Before(Index) + Offset /\ Before(Index) \in Nat
         /\ Index <= Len(Segments) => Before(Index) + Segments[Index] <= RequestLen
         /\ Index = Len(Segments) + 1 => Before(Index) = RequestLen
<1>1. Index \in 1 .. Len(Segments) + 1 /\ Offset \in Nat /\ Len(Segments) \in Nat
  BY Numbers DEF RingTypeOK
<1>2. Sent = Before(Index) + Offset  BY DEF Sent, Before
<1>3. CASE Index \in 1 .. Len(Segments)
  <2>1. Before(Index) \in Nat /\ Before(Index) + Segments[Index] <= RequestLen  BY <1>3, Prefixes
  <2> QED  BY <1>1, <1>2, <1>3, <2>1
<1>4. CASE Index = Len(Segments) + 1
  <2>1. Before(Index) = RequestLen /\ RequestLen \in Nat  BY <1>4, Prefixes
  <2> QED  BY <1>1, <1>2, <1>4, <2>1
<1>5. Index \in 1 .. Len(Segments) \/ Index = Len(Segments) + 1  BY <1>1
<1> QED  BY <1>3, <1>4, <1>5

\* The fills and what is on the rings.
LEMMA Fills ==
  ASSUME RingTypeOK
  PROVE  /\ ReqFill \in Nat /\ ReqFill < IndexMod /\ RspFill \in Nat /\ RspFill < IndexMod
         /\ req_prod \in Int /\ req_cons \in Int /\ rsp_prod \in Int /\ rsp_cons \in Int
         /\ req \in [0 .. RingSize - 1 -> Cell] /\ rsp \in [0 .. RingSize - 1 -> Cell]
<1>1. /\ req_prod \in 0 .. IndexMod - 1 /\ req_cons \in 0 .. IndexMod - 1
      /\ rsp_prod \in 0 .. IndexMod - 1 /\ rsp_cons \in 0 .. IndexMod - 1
      /\ req \in [0 .. RingSize - 1 -> Cell] /\ rsp \in [0 .. RingSize - 1 -> Cell]
  BY DEF RingTypeOK
<1>2. ReqFill \in 0 .. IndexMod - 1 /\ RspFill \in 0 .. IndexMod - 1
  BY <1>1, Room DEF ReqFill, RspFill
<1> QED  BY <1>1, <1>2, Numbers

\* The bytes of a request or of an answer can be on a ring.
LEMMA CellBytes ==
  ASSUME NEW m \in Message, NEW a \in Nat, NEW n \in Nat
  PROVE  Bytes(m, a, n) \in Seq(Cell) /\ Len(Bytes(m, a, n)) = n
<1>1. Byte \subseteq Cell  BY Numbers DEF Byte, Cell, Message
<1>2. Bytes(m, a, n) \in Seq(Byte) /\ Len(Bytes(m, a, n)) = n  BY BytesAre
<1> DEFINE b == Bytes(m, a, n)
<1> HIDE DEF b
<1>3. b \in Seq(Byte) /\ Len(b) = n  BY <1>2 DEF b
<1>4. b \in Seq(Cell)  BY <1>1, <1>3
<1> QED  BY <1>3, <1>4 DEF b

\* The stream, its length and what is first in it.
LEMMA StreamIs ==
  ASSUME RingTypeOK, ResponseInv
  PROVE  /\ RspFill - Skip \in Nat /\ Skip \in Nat /\ rsp_cons + Skip \in Int
         /\ Response \in Seq(Cell) /\ Get(rsp, rsp_cons + Skip, RspFill - Skip) \in Seq(Cell)
         /\ Len(Get(rsp, rsp_cons + Skip, RspFill - Skip)) = RspFill - Skip
         /\ Len(Stream) = Len(Response) + (RspFill - Skip)
         /\ \A i \in 1 .. Len(Response) : Stream[i] = Response[i]
         /\ Response # <<>> => /\ Stream # <<>> /\ Stream[1] = Response[1]
                               /\ Response[1][1] \in Message
<1>1. Skip \in Nat  BY Numbers DEF RingTypeOK, Skip
<1>2. RspFill - Skip \in Nat /\ rsp_cons + Skip \in Int  BY <1>1, Fills DEF ResponseInv
<1> DEFINE g == Get(rsp, rsp_cons + Skip, RspFill - Skip)
<1>3. g \in Seq(Cell) /\ Len(g) = RspFill - Skip  BY <1>2, Fills, GetIs, ZenonT(60)
<1>4. Response \in Seq(Cell)  BY DEF RingTypeOK
<1>5. Stream = Response \o g  BY DEF Stream
<1> HIDE DEF g
<1>6. Len(Stream) = Len(Response) + (RspFill - Skip) /\ \A i \in 1 .. Len(Response) : Stream[i] = Response[i]
  BY <1>3, <1>4, <1>5, Concat, ZenonT(60)
<1>7. ASSUME Response # <<>> PROVE Stream # <<>> /\ Stream[1] = Response[1] /\ Response[1][1] \in Message
  <2>1. 1 \in 1 .. Len(Response)  BY <1>4, <1>7
  <2>2. Stream[1] = Response[1] /\ 1 \in 1 .. Len(Stream)  BY <1>2, <1>6, <2>1
  <2>3. Stream \in Seq(Byte)  BY DEF ResponseInv, Chain
  <2>4. Stream[1] \in Byte /\ Stream # <<>>  BY <2>2, <2>3
  <2> QED  BY <2>2, <2>4 DEF Byte
<1> QED  BY <1>1, <1>2, <1>3, <1>4, <1>6, <1>7 DEF g

\* A step that leaves one direction alone.
LEMMA UpSame ==
  ASSUME UNCHANGED up
  PROVE  /\ Sent' = Sent /\ ReqFill' = ReqFill /\ (RequestInv => RequestInv')
         /\ \A t \in Thread : Answerable(t) => Answerable(t)'
BY DEF up, Sent, ReqFill, RequestInv, Answerable, Waiting

\* A step that does not touch the responses, the messages to send or their ring.
LEMMA DownSame ==
  ASSUME UNCHANGED <<rsp, rsp_prod, rsp_cons, Response, xsOut, xsPos>>, Skip' = Skip
  PROVE  /\ Stream' = Stream /\ RspFill' = RspFill /\ (WritingInv => WritingInv')
         /\ \A m : Carried(m)' <=> Carried(m)
         /\ Flying' = Flying
<1>1. Stream' = Stream /\ RspFill' = RspFill  BY DEF Stream, RspFill
<1>2. \A m : Carried(m)' <=> Carried(m)  BY <1>1 DEF Carried
<1>3. Flying' = Flying  BY <1>2 DEF Flying
<1>4. WritingInv => WritingInv'  BY <1>1 DEF WritingInv
<1> QED  BY <1>1, <1>2, <1>3, <1>4

\* A step of the holder of the lock that leaves the requests alone.
LEMMA UpKept ==
  ASSUME RingIInv, UNCHANGED up, pc' # "publish", pc # "publish",
         (Submitted # {} /\ pc' # "send") => pc # "send"
  PROVE  SegmentInv' /\ RequestInv'
<1>1. RequestInv' /\ Sent' = Sent /\ ReqFill' = ReqFill  BY UpSame DEF RingIInv
<1>2. SegmentInv'
  BY DEF RingIInv, SegmentInv, Submitted, up
<1> QED  BY <1>1, <1>2

\* A step that leaves the responses alone, outside of StoreReceiveResponse.
LEMMA DownKept ==
  ASSUME RingIInv, UNCHANGED down, pc \notin {"consume", "process"}, pc' \notin {"consume", "process"},
         \A t \in Thread : Answerable(t) => Answerable(t)'
  PROVE  ResponseInv' /\ WritingInv' /\ CarriedInv'
<1>0. ResponseInv /\ WritingInv /\ CarriedInv  BY DEF RingIInv
<1>1. Skip' = Skip /\ Skip = 0  BY DEF Skip
<1>2. UNCHANGED <<rsp, rsp_prod, rsp_cons, Response, xsOut, xsPos>> /\ fired' = fired /\ made' = made
  BY DEF down
<1>3. /\ Stream' = Stream /\ RspFill' = RspFill /\ WritingInv' /\ Flying' = Flying
      /\ \A m : Carried(m)' <=> Carried(m)
  BY <1>0, <1>1, <1>2, DownSame
<1>4. ResponseInv'  BY <1>0, <1>1, <1>2, <1>3 DEF ResponseInv
<1>5. CarriedInv'  BY <1>0, <1>2, <1>3 DEF CarriedInv
<1> QED  BY <1>3, <1>4, <1>5

-----------------------------------------------------------------------------
(* The steps.                                                              *)

core == <<up, down, owner, pc, copied>>

\* Steps that concern the event channel and the watchdog only.
LEMMA QuietStep ==
  ASSUME RingIInv, UNCHANGED core, FlagsOK'
  PROVE  RingIInv'
<1>0. UNCHANGED up /\ UNCHANGED down /\ owner' = owner /\ pc' = pc /\ copied' = copied  BY DEF core
<1>1. RingTypeOK'  BY <1>0 DEF RingIInv, RingTypeOK, up, down
<1>2. HolderInv'  BY <1>0 DEF RingIInv, HolderInv, Asking, Submitted, up
<1>3. /\ Sent' = Sent /\ ReqFill' = ReqFill /\ RequestInv'
      /\ \A t \in Thread : Answerable(t) => Answerable(t)'
  BY <1>0, UpSame DEF RingIInv
<1>4. SegmentInv'  BY <1>0, <1>3 DEF RingIInv, SegmentInv, up
<1>5. /\ Stream' = Stream /\ RspFill' = RspFill /\ WritingInv' /\ Skip' = Skip /\ Flying' = Flying
      /\ \A m : Carried(m)' <=> Carried(m)
  <2>1. Skip' = Skip  BY <1>0 DEF Skip
  <2>2. UNCHANGED <<rsp, rsp_prod, rsp_cons, Response, xsOut, xsPos>>  BY <1>0 DEF down
  <2> QED  BY <2>1, <2>2, DownSame DEF RingIInv
<1>6. ResponseInv'  BY <1>0, <1>5 DEF RingIInv, ResponseInv, down
<1>7. CarriedInv'  BY <1>0, <1>3, <1>5 DEF RingIInv, CarriedInv, down
<1> QED  BY <1>1, <1>2, <1>3, <1>4, <1>5, <1>6, <1>7 DEF RingIInv

\* Steps of the holder of the lock that move no byte.
LEMMA PointStep ==
  ASSUME RingIInv, UNCHANGED up, UNCHANGED down, FlagsOK', HolderInv',
         owner' \in {"none", "thread", "dpc", "watchdog"}, pc' \in Points,
         pc \notin {"publish", "consume", "process"}, pc' \notin {"publish", "consume", "process"},
         (Submitted # {} /\ pc' # "send") => pc # "send"
  PROVE  RingIInv'
<1>1. RingTypeOK'  BY DEF RingIInv, RingTypeOK, up, down
<1>2. SegmentInv' /\ RequestInv'  BY UpKept
<1>3. \A t \in Thread : Answerable(t) => Answerable(t)'  BY UpSame
<1>4. ResponseInv' /\ WritingInv' /\ CarriedInv'  BY <1>3, DownKept
<1> QED  BY <1>1, <1>2, <1>4 DEF RingIInv

\* The flags are flags.
LEMMA FlagsStep ==
  ASSUME FlagsOK, [Next]_vars
  PROVE  FlagsOK'
<1> USE DEF FlagsOK, page, sending, recving, channel, daemon, driver
<1>1. CASE \E t \in Thread : StoreSubmitRequest(t)  BY <1>1 DEF StoreSubmitRequest
<1>2. CASE StoreDpc \/ StoreWatchdog \/ StoreWatchdogIdle
  BY <1>2 DEF StoreDpc, StoreWatchdog, StoreWatchdogIdle
<1>3. CASE StorePollLocked \/ StoreSendRequests \/ StoreCopyToRing \/ StoreSendSegment
  BY <1>3 DEF StorePollLocked, StoreSendRequests, StoreCopyToRing, StoreSendSegment
<1>4. CASE EvtchnSendWritten \/ StoreCopyFromRing \/ StoreReceiveResponse \/ StoreProcessResponse
  BY <1>4 DEF EvtchnSendWritten, StoreCopyFromRing, StoreReceiveResponse, StoreProcessResponse
<1>5. CASE EvtchnSendRead \/ PollDone \/ EvtchnWait \/ EvtchnWaitTimeout
  BY <1>5 DEF EvtchnSendRead, PollDone, EvtchnWait, EvtchnWaitTimeout
<1>6. CASE PollAck \/ StoreEvtchnCallback  BY <1>6 DEF PollAck, StoreEvtchnCallback
<1>7. CASE XsWake \/ XsSleep \/ XsNotify \/ XsFire  BY <1>7 DEF XsWake, XsSleep, XsNotify, XsFire
<1>8. CASE XsRead \/ XsWrite  BY <1>8 DEF XsRead, XsWrite
<1>9. CASE UNCHANGED vars  BY <1>9 DEF vars
<1> QED  BY <1>1, <1>2, <1>3, <1>4, <1>5, <1>6, <1>7, <1>8, <1>9 DEF Next, Holder, Upcall, Xenstored

\* The quiet steps and the steps of the holder that move no byte.
LEMMA PlainSteps ==
  ASSUME RingIInv, FlagsOK',
         \/ StoreWatchdogIdle \/ PollAck \/ StoreEvtchnCallback \/ XsWake \/ XsSleep \/ XsNotify
         \/ StoreDpc \/ StoreWatchdog \/ StorePollLocked \/ StoreSendRequests
         \/ EvtchnSendWritten \/ EvtchnSendRead \/ EvtchnWait \/ EvtchnWaitTimeout
         \/ UNCHANGED vars
  PROVE  RingIInv'
<1>1. CASE StoreWatchdogIdle \/ PollAck \/ StoreEvtchnCallback \/ XsWake \/ XsSleep \/ XsNotify
             \/ UNCHANGED vars
  <2>1. UNCHANGED core
    BY <1>1 DEF core, up, down, vars, page, sending, recving, channel, daemon, driver,
       StoreWatchdogIdle, PollAck, StoreEvtchnCallback, XsWake, XsSleep, XsNotify
  <2> QED  BY <2>1, QuietStep
<1>2. CASE StoreDpc \/ StoreWatchdog \/ StorePollLocked \/ StoreSendRequests
           \/ EvtchnSendWritten \/ EvtchnSendRead \/ EvtchnWait \/ EvtchnWaitTimeout
  <2>1. UNCHANGED up /\ UNCHANGED down
    BY <1>2 DEF up, down, page, sending, recving, channel, daemon, StoreDpc, StoreWatchdog,
       StorePollLocked, StoreSendRequests, EvtchnSendWritten, EvtchnSendRead, EvtchnWait,
       EvtchnWaitTimeout
  <2>2. /\ owner' \in {"none", "thread", "dpc", "watchdog"} /\ pc' \in Points
        /\ pc \notin {"publish", "consume", "process"} /\ pc' \notin {"publish", "consume", "process"}
        /\ (owner' = "none") <=> (pc' = "none")
        /\ pc' # "wait"
        /\ owner # "none" => owner' = owner
        /\ (Submitted # {} /\ pc' # "send") => pc # "send"
    BY <1>2 DEF RingIInv, RingTypeOK, HolderInv, Points, StoreDpc, StoreWatchdog, StorePollLocked,
       StoreSendRequests, EvtchnSendWritten, EvtchnSendRead, EvtchnWait, EvtchnWaitTimeout
  <2>3. \A t \in Thread : Asking(t)' <=> Asking(t)  BY <2>1 DEF up, Asking
  <2>4. HolderInv'  BY <2>2, <2>3 DEF RingIInv, HolderInv
  <2> QED  BY <2>1, <2>2, <2>4, PointStep
<1> QED  BY <1>1, <1>2

\* StoreSubmitRequest: nothing of an earlier request is left.
LEMMA SubmitStep ==
  ASSUME RingIInv, FlagsOK', NEW t \in Thread, StoreSubmitRequest(t)
  PROVE  RingIInv'
<1>0. /\ owner = "none" /\ State[t] = "prepared" /\ owner' = "thread" /\ Index' = 1 /\ Offset' = 0
      /\ State' = [State EXCEPT ![t] = "submitted"] /\ pc' = "count" /\ UNCHANGED down
      /\ UNCHANGED <<req, req_prod, req_cons, xsIn>> /\ copied' = copied
  BY DEF StoreSubmitRequest, page, recving, channel, daemon, down
<1>1. pc = "none" /\ \A u \in Thread : ~Asking(u)
  BY <1>0 DEF RingIInv, HolderInv
<1>2. /\ \A u \in Thread : ~Waiting(u) /\ ~Answerable(u)
      /\ xsIn = <<>> /\ ReqFill = 0 /\ ReqFill' = 0 /\ xsIn' = <<>>
  BY <1>0, <1>1 DEF RingIInv, RequestInv, Waiting, Asking, Answerable, ReqFill
<1>3. \A u \in Thread : State'[u] = IF u = t THEN "submitted" ELSE State[u]
  BY <1>0 DEF RingIInv, RingTypeOK
<1>4. RingTypeOK'
  BY <1>0, Numbers DEF RingIInv, RingTypeOK, Points, down
<1>5. \A u \in Thread : Asking(u)' => u = t  BY <1>1, <1>3 DEF Asking
<1>6. HolderInv'  BY <1>0, <1>5 DEF HolderInv
<1>7. Sent' = 0
  <2>1. Sent' = Before(1) + 0  BY <1>0 DEF Sent, Before
  <2> QED  BY <2>1, Prefixes
<1>8. SegmentInv'
  <2>1. \A u \in Thread : (State'[u] = "submitted" => u = t) /\ State'[u] # "pending"
    BY <1>1, <1>3 DEF Asking
  <2>2. Index' <= Len(Segments) /\ Segments[Index'] \in Nat \ {0}  BY <1>0, Numbers
  <2> QED  BY <1>0, <2>1, <2>2 DEF SegmentInv
<1>9. RequestInv'
  <2>1. xsIn' \o Get(req', req_cons', ReqFill') = <<>> /\ Bytes(t, 0, Sent') = <<>>
    <3>1. t \in Message  BY Numbers
    <3>2. Get(req, req_cons, 0) \in Seq(Cell) /\ Len(Get(req, req_cons, 0)) = 0
      BY Fills, GetIs, ZenonT(60) DEF RingIInv
    <3>3. Get(req, req_cons, 0) = <<>>  BY <3>2
    <3>4. Bytes(t, 0, 0) \in Seq(Byte) /\ Len(Bytes(t, 0, 0)) = 0  BY <3>1, BytesAre
    <3>5. Bytes(t, 0, 0) = <<>>  BY <3>4
    <3> QED  BY <1>0, <1>2, <1>7, <3>3, <3>5
  <2>2. \A u \in Thread : Waiting(u)' => u = t  BY <1>2, <1>3 DEF Waiting
  <2>3. Waiting(t)'  BY <1>3 DEF Waiting
  <2>4. Len(xsIn') < RequestLen  BY <1>2, Prefixes
  <2>5. ReqFill' <= RingSize  BY <1>2, Numbers
  <2> QED  BY <2>1, <2>2, <2>3, <2>4, <2>5 DEF RequestInv
<1>10. ResponseInv' /\ WritingInv' /\ CarriedInv'
  <2>1. \A u \in Thread : Answerable(u) => Answerable(u)'  BY <1>2
  <2> QED  BY <1>0, <1>1, <2>1, DownKept
<1> QED  BY <1>4, <1>6, <1>8, <1>9, <1>10 DEF RingIInv

\* PollDone: the lock is given up by whoever has nothing to wait for.
LEMMA PollDoneStep ==
  ASSUME RingIInv, FlagsOK', PollDone
  PROVE  RingIInv'
<1>0. /\ pc = "done" /\ UNCHANGED down /\ copied' = copied
      /\ UNCHANGED <<req, req_prod, req_cons, Index, Offset, xsIn>>
      /\ IF owner = "thread" /\ Submitted \cup Pending # {}
         THEN pc' = "wait" /\ UNCHANGED <<owner, State>>
         ELSE /\ pc' = "none" /\ owner' = "none"
              /\ State' = [u \in Thread |-> IF State[u] = "completed" THEN "done" ELSE State[u]]
  BY DEF PollDone, page, sending, recving, channel, daemon, down
<1>1. CASE owner = "thread" /\ Submitted \cup Pending # {}
  <2>1. UNCHANGED up /\ pc' = "wait" /\ UNCHANGED <<owner, State>>  BY <1>0, <1>1 DEF up
  <2>2. HolderInv'  BY <1>0, <1>1, <2>1 DEF RingIInv, HolderInv, Asking
  <2> QED  BY <1>0, <1>1, <2>1, <2>2, PointStep DEF Points
<1>2. CASE ~ (owner = "thread" /\ Submitted \cup Pending # {})
  <2>1. /\ pc' = "none" /\ owner' = "none"
        /\ \A u \in Thread : State'[u] = IF State[u] = "completed" THEN "done" ELSE State[u]
        /\ State' \in [Thread -> {"prepared", "submitted", "pending", "completed", "done"}]
    BY <1>0, <1>2 DEF RingIInv, RingTypeOK
  <2>2. \A u \in Thread : ~Waiting(u)
    <3>1. CASE owner = "thread"
      <4>1. Submitted \cup Pending = {}  BY <1>2, <3>1
      <4> QED  BY <4>1 DEF Submitted, Pending, Waiting
    <3>2. CASE owner # "thread"  BY <3>2 DEF RingIInv, HolderInv, Asking, Waiting
    <3> QED  BY <3>1, <3>2
  <2>3. \A u \in Thread : ~Asking(u)' /\ ~Waiting(u)'  BY <2>1, <2>2 DEF Asking, Waiting
  <2>4. RingTypeOK'  BY <1>0, <2>1 DEF RingIInv, RingTypeOK, Points, down
  <2>5. HolderInv'  BY <2>1, <2>3 DEF HolderInv
  <2>6. SegmentInv'  BY <2>3 DEF SegmentInv, Waiting
  <2>7. ReqFill' = ReqFill  BY <1>0 DEF ReqFill
  <2>8. RequestInv'  BY <1>0, <2>2, <2>3, <2>7 DEF RingIInv, RequestInv
  <2>9. ResponseInv' /\ WritingInv' /\ CarriedInv'
    <3>1. \A u \in Thread : Answerable(u) => Answerable(u)'  BY <2>2 DEF Answerable
    <3> QED  BY <1>0, <2>1, <3>1, DownKept
  <2> QED  BY <2>4, <2>5, <2>6, <2>8, <2>9 DEF RingIInv
<1> QED  BY <1>1, <1>2

\* StoreCopyToRing: into the room there is, so that no byte on the ring is overwritten.
LEMMA CopyToStep ==
  ASSUME RingIInv, FlagsOK', StoreCopyToRing
  PROVE  RingIInv'
<1> DEFINE t == CHOOSE u \in Submitted : TRUE
<1> DEFINE avail == (req_cons + RingSize - req_prod) % IndexMod
<1> DEFINE n == MinOf(Segments[Index] - Offset, avail)
<1>0. /\ pc = "send" /\ Submitted # {} /\ pc' = "publish" /\ UNCHANGED down /\ copied' = n
      /\ req' = Put(req, req_prod, Bytes(t, Sent, n))
      /\ UNCHANGED <<req_prod, req_cons, State, owner, Index, Offset, xsIn>>
  BY DEF StoreCopyToRing, sending, recving, channel, daemon, down, Sent
<1>1. t \in Submitted  BY <1>0
<1>2. t \in Thread /\ State[t] = "submitted" /\ t \in Message
  BY <1>1, Numbers DEF Submitted
<1> HIDE DEF t
<1>3. /\ Index <= Len(Segments) /\ Offset <= Segments[Index] /\ Offset \in Nat /\ Segments[Index] \in Nat
      /\ ReqFill \in Nat /\ ReqFill <= RingSize /\ RingSize \in Nat /\ Sent \in Nat
  <2>1. Index \in 1 .. Len(Segments)  BY <1>2, Numbers DEF RingIInv, RingTypeOK, SegmentInv
  <2>2. Segments[Index] \in Nat /\ Index <= Len(Segments)  BY <2>1, Numbers
  <2>3. Offset <= Segments[Index] /\ Offset \in Nat  BY <1>2 DEF RingIInv, RingTypeOK, SegmentInv
  <2>4. ReqFill \in Nat /\ ReqFill <= RingSize  BY Fills DEF RingIInv, RequestInv
  <2>5. Sent \in Nat  BY SentIs DEF RingIInv
  <2> QED  BY <2>2, <2>3, <2>4, <2>5, Numbers
<1>4. avail = RingSize - ReqFill
  <2>1. req_prod \in 0 .. IndexMod - 1 /\ req_cons \in 0 .. IndexMod - 1  BY DEF RingIInv, RingTypeOK
  <2> QED  BY <1>3, <2>1, Room DEF ReqFill
<1> HIDE DEF avail
<1>5. n \in Nat /\ Offset + n <= Segments[Index] /\ ReqFill + n <= RingSize
  BY <1>3, <1>4 DEF MinOf
<1> HIDE DEF n
<1>6. Bytes(t, Sent, n) \in Seq(Cell) /\ Len(Bytes(t, Sent, n)) = n  BY <1>2, <1>3, <1>5, CellBytes
<1>7. /\ req' \in [0 .. RingSize - 1 -> Cell]
      /\ Get(req', req_prod, n) = Bytes(t, Sent, n)
      /\ Get(req', req_cons, ReqFill) = Get(req, req_cons, ReqFill)
  <2>1. /\ req \in [0 .. RingSize - 1 -> Cell] /\ req_prod \in Int /\ req_cons \in Int
    BY Fills DEF RingIInv
  <2>2. req_prod % RingSize = (req_cons + ReqFill) % RingSize
    <3>1. req_prod \in 0 .. IndexMod - 1 /\ req_cons \in 0 .. IndexMod - 1  BY DEF RingIInv, RingTypeOK
    <3> QED  BY <3>1, Room DEF ReqFill
  <2> DEFINE b == Bytes(t, Sent, n)
  <2>3. b \in Seq(Cell) /\ Len(b) = n /\ ReqFill + Len(b) <= RingSize /\ ReqFill \in Nat
    BY <1>3, <1>5, <1>6
  <2> HIDE DEF b
  <2>4. /\ Put(req, req_prod, b) \in [0 .. RingSize - 1 -> Cell]
        /\ Get(Put(req, req_prod, b), req_prod, Len(b)) = b
        /\ Get(Put(req, req_prod, b), req_cons, ReqFill) = Get(req, req_cons, ReqFill)
    <3>1. /\ Put(req, req_prod, b) \in [0 .. RingSize - 1 -> Cell]
          /\ Get(Put(req, req_prod, b), req_prod, Len(b)) = b
          /\ \A c \in Int, f \in Nat :
               f + Len(b) <= RingSize /\ req_prod % RingSize = (c + f) % RingSize
                 => Get(Put(req, req_prod, b), c, f) = Get(req, c, f)
      <4>1. Len(b) <= RingSize  BY <2>3, Numbers
      <4> QED  BY <2>1, <2>3, <4>1, PutGet
    <3> QED  BY <2>1, <2>2, <2>3, <3>1
  <2> QED  BY <1>0, <2>3, <2>4 DEF b
<1>8. Sent' = Sent /\ ReqFill' = ReqFill  BY <1>0 DEF Sent, ReqFill
<1>9. RingTypeOK'
  BY <1>0, <1>3, <1>5, <1>7, SMTT(40) DEF RingIInv, RingTypeOK, Points, down
<1>10. HolderInv'  BY <1>0 DEF RingIInv, HolderInv, Asking, Submitted
<1>11. SegmentInv'
  <2>1. \A u \in Thread : (State[u] = "submitted" => u = t) /\ State[u] # "pending"
    BY <1>2 DEF RingIInv, HolderInv, Asking
  <2>2. Get(req', req_prod', copied') = Bytes(t, Sent', copied')  BY <1>0, <1>7, <1>8
  <2> QED  BY <1>0, <1>3, <1>5, <1>8, <2>1, <2>2 DEF SegmentInv
<1>12. \A u \in Thread : Answerable(u)' <=> Answerable(u)
  BY <1>0, <1>8 DEF Answerable, Waiting
<1>13. RequestInv'  BY <1>0, <1>7, <1>8, <1>12 DEF RingIInv, RequestInv, Waiting
<1>14. ResponseInv' /\ WritingInv' /\ CarriedInv'  BY <1>0, <1>12, DownKept
<1> QED  BY <1>9, <1>10, <1>11, <1>13, <1>14 DEF RingIInv

\* StoreSendSegment: what was copied is what comes next of the request.
LEMMA SendStep ==
  ASSUME RingIInv, FlagsOK', StoreSendSegment
  PROVE  RingIInv'
<1> DEFINE whole == Offset + copied = Segments[Index]
<1>0. /\ pc = "publish" /\ UNCHANGED down /\ req_prod' = (req_prod + copied) % IndexMod
      /\ Index' = IF whole THEN Index + 1 ELSE Index
      /\ Offset' = IF whole THEN 0 ELSE Offset + copied
      /\ IF whole /\ Index < Len(Segments)
         THEN pc' = "send" /\ UNCHANGED State
         ELSE /\ pc' = "sent"
              /\ State' = [u \in Thread |-> IF u \in Submitted /\ whole THEN "pending" ELSE State[u]]
      /\ UNCHANGED <<req, req_cons, owner, xsIn, copied>>
  BY DEF StoreSendSegment, recving, channel, daemon, down
<1>1. PICK t \in Submitted : TRUE  BY <1>0 DEF RingIInv, HolderInv
<1>2. /\ t \in Thread /\ State[t] = "submitted" /\ t \in Message
      /\ \A u \in Thread : (State[u] = "submitted" => u = t) /\ State[u] # "pending"
      /\ owner = "thread"
  BY <1>1, Numbers DEF Submitted, RingIInv, HolderInv, Asking
<1>3. /\ Index \in 1 .. Len(Segments) /\ Offset <= Segments[Index] /\ Offset \in Nat /\ Segments[Index] \in Nat
      /\ ReqFill \in Nat /\ ReqFill <= RingSize /\ RingSize \in Nat /\ Sent \in Nat
      /\ copied \in Nat /\ Offset + copied <= Segments[Index] /\ ReqFill + copied <= RingSize
      /\ Get(req, req_prod, copied) = Bytes(t, Sent, copied)
      /\ Len(Segments) \in Nat
  <2>1. Index \in 1 .. Len(Segments)  BY <1>2, Numbers DEF RingIInv, RingTypeOK, SegmentInv
  <2>2. copied \in Nat  BY <1>0, Numbers DEF RingIInv, RingTypeOK
  <2>3. Segments[Index] \in Nat /\ Len(Segments) \in Nat  BY <2>1, Numbers
  <2>4. /\ Offset <= Segments[Index] /\ Offset \in Nat
        /\ Offset + copied <= Segments[Index] /\ ReqFill + copied <= RingSize
        /\ Get(req, req_prod, copied) = Bytes(t, Sent, copied)
    BY <1>0, <1>2 DEF RingIInv, RingTypeOK, SegmentInv
  <2>5. ReqFill \in Nat /\ ReqFill <= RingSize  BY Fills DEF RingIInv, RequestInv
  <2>6. Sent \in Nat  BY SentIs DEF RingIInv
  <2> QED  BY <2>1, <2>2, <2>3, <2>4, <2>5, <2>6, Numbers
<1>4. ReqFill' = ReqFill + copied /\ req_prod' \in 0 .. IndexMod - 1
  <2>1. req_prod \in 0 .. IndexMod - 1 /\ req_cons \in 0 .. IndexMod - 1  BY DEF RingIInv, RingTypeOK
  <2> QED  BY <1>0, <1>3, <2>1, Publish DEF ReqFill
<1>5. Sent' = Sent + copied /\ Sent + copied <= RequestLen
  <2>1. Sent = Before(Index) + Offset /\ Before(Index) \in Nat /\ Before(Index) + Segments[Index] <= RequestLen
    BY <1>3, SentIs DEF RingIInv
  <2>2. Sent' = Before(Index') + Offset'  BY DEF Sent, Before
  <2>3. Before(Index + 1) = Before(Index) + Segments[Index] /\ RequestLen \in Nat  BY <1>3, Prefixes
  <2>4. CASE whole
    <3>1. Sent' = Before(Index + 1) + 0  BY <1>0, <2>2, <2>4
    <3> QED  BY <1>3, <2>1, <2>3, <2>4, <3>1, SMTT(40)
  <2>5. CASE ~whole
    <3>1. Sent' = Before(Index) + (Offset + copied)  BY <1>0, <2>2, <2>5
    <3> QED  BY <1>3, <2>1, <2>3, <3>1, SMTT(40)
  <2> QED  BY <2>4, <2>5
<1>6. /\ \A u \in Thread : State'[u] = IF u = t /\ whole /\ Index = Len(Segments) THEN "pending" ELSE State[u]
      /\ State' \in [Thread -> {"prepared", "submitted", "pending", "completed", "done"}]
      /\ pc' = IF whole /\ Index < Len(Segments) THEN "send" ELSE "sent"
  <2>1. State \in [Thread -> {"prepared", "submitted", "pending", "completed", "done"}]  BY DEF RingIInv, RingTypeOK
  <2>2. \A u \in Thread : u \in Submitted <=> u = t  BY <1>2 DEF Submitted
  <2>3. CASE whole /\ Index < Len(Segments)  BY <1>0, <1>3, <2>1, <2>3
  <2>4. CASE ~ (whole /\ Index < Len(Segments))
    <3>1. pc' = "sent" /\ State' = [u \in Thread |-> IF u \in Submitted /\ whole THEN "pending" ELSE State[u]]
      BY <1>0, <2>4
    <3>2. whole => Index = Len(Segments)  BY <1>3, <2>4
    <3> HIDE DEF whole
    <3> QED  BY <2>1, <2>2, <2>4, <3>1, <3>2
  <2> QED  BY <2>3, <2>4
<1>7. RingTypeOK'
  <2>1. Index' \in 1 .. Len(Segments) + 1 /\ Offset' \in Nat  BY <1>0, <1>3
  <2> QED  BY <1>0, <1>4, <1>6, <2>1 DEF RingIInv, RingTypeOK, Points, down
<1>8. HolderInv'
  <2>1. \A u \in Thread : Asking(u)' <=> Asking(u)  BY <1>2, <1>6 DEF Asking
  <2>2. owner' = "thread" /\ pc' # "none" /\ pc' # "wait" /\ pc' # "publish"  BY <1>0, <1>2, <1>6
  <2> HIDE DEF whole
  <2> QED  BY <1>0, <2>1, <2>2 DEF RingIInv, HolderInv
<1>9. SegmentInv'
  <2>1. CASE whole /\ Index < Len(Segments)
    <3>1. /\ Index' = Index + 1 /\ Offset' = 0 /\ pc' = "send" /\ Index' \in 1 .. Len(Segments)
          /\ \A u \in Thread : State'[u] # "pending"
      BY <1>0, <1>2, <1>3, <2>1
    <3>2. Segments[Index'] \in Nat  BY <3>1, Prefixes
    <3> QED  BY <3>1, <3>2 DEF SegmentInv
  <2>2. CASE whole /\ Index = Len(Segments)
    <3>1. /\ Index' = Len(Segments) + 1 /\ Offset' = 0
          /\ \A u \in Thread : State'[u] # "submitted"
      BY <1>0, <1>2, <1>6, <2>2
    <3> QED  BY <3>1 DEF SegmentInv
  <2>3. CASE ~whole
    <3>1. /\ Index' = Index /\ Offset' = Offset + copied /\ Offset' < Segments[Index'] /\ pc' = "sent"
          /\ Index' <= Len(Segments) /\ Offset' <= Segments[Index']
          /\ \A u \in Thread : State'[u] # "pending"
      BY <1>0, <1>2, <1>3, <1>6, <2>3
    <3> QED  BY <3>1 DEF SegmentInv
  <2>4. Index < Len(Segments) \/ Index = Len(Segments)  BY <1>3
  <2> QED  BY <2>1, <2>2, <2>3, <2>4
<1> HIDE DEF whole
<1>10. \A u \in Thread : Waiting(u)' <=> u = t  BY <1>2, <1>6 DEF Waiting
<1>11. Waiting(t) /\ \A u \in Thread : Waiting(u) => u = t  BY <1>2 DEF Waiting
<1>12. Answerable(t) => Answerable(t)'
  <2> SUFFICES ASSUME Answerable(t) PROVE Answerable(t)'  OBVIOUS
  <2>1. ReqFill = 0 /\ Sent = RequestLen /\ xsIn = <<>>  BY DEF Answerable
  <2>2. copied = 0  BY <1>3, <1>5, <2>1
  <2> QED  BY <1>0, <1>2, <1>3, <1>4, <1>5, <1>10, <2>1, <2>2 DEF Answerable
<1>13. RequestInv'
  <2>1. ReqFill' <= RingSize  BY <1>3, <1>4
  <2>2. CASE Answerable(t)  BY <1>2, <1>10, <1>12, <2>1, <2>2 DEF RequestInv
  <2>3. CASE ~Answerable(t)
    <3>1. xsIn \o Get(req, req_cons, ReqFill) = Bytes(t, 0, Sent) /\ Len(xsIn) < RequestLen
      BY <1>2, <1>11, <2>3 DEF RingIInv, RequestInv
    <3>2. /\ req_prod \in Int /\ req_cons \in Int /\ req \in [0 .. RingSize - 1 -> Cell] /\ xsIn \in Seq(Cell)
      BY Fills DEF RingIInv, RingTypeOK
    <3>3. req_prod % RingSize = (req_cons + ReqFill) % RingSize
      <4>1. req_prod \in 0 .. IndexMod - 1 /\ req_cons \in 0 .. IndexMod - 1  BY DEF RingIInv, RingTypeOK
      <4> QED  BY <4>1, Room DEF ReqFill
    <3>4. Get(req, req_cons, ReqFill + copied)
            = Get(req, req_cons, ReqFill) \o Get(req, req_cons + ReqFill, copied)
      <4>1. ReqFill \in Nat /\ copied \in Nat  BY <1>3
      <4> QED  BY <3>2, <4>1, GetSplit, ZenonT(60)
    <3>5. Get(req, req_cons + ReqFill, copied) = Get(req, req_prod, copied)
      <4> DEFINE i == req_cons + ReqFill
      <4>1. i \in Int /\ i % RingSize = req_prod % RingSize  BY <1>3, <3>2, <3>3
      <4> HIDE DEF i
      <4>2. Get(req, i, copied) = Get(req, req_prod, copied)  BY <1>3, <3>2, <4>1, GetFrom, ZenonT(60)
      <4> QED  BY <4>2 DEF i
    <3> DEFINE g == Get(req, req_cons, ReqFill)
    <3> DEFINE h == Get(req, req_prod, copied)
    <3>6. g \in Seq(Cell) /\ h \in Seq(Cell)  BY <1>3, <3>2, GetIs
    <3>7. (xsIn \o g) \o h = xsIn \o (g \o h)
      <4> HIDE DEF g, h
      <4> QED  BY <3>2, <3>6, Associative
    <3>8. Bytes(t, 0, Sent + copied) = Bytes(t, 0, Sent) \o Bytes(t, 0 + Sent, copied)
      <4>1. 0 \in Nat /\ t \in Message /\ Sent \in Nat /\ copied \in Nat  BY <1>2, <1>3
      <4> QED  BY <4>1, BytesSplit
    <3>9. 0 + Sent = Sent  BY <1>3
    <3>10. xsIn \o Get(req, req_cons, ReqFill + copied) = Bytes(t, 0, Sent + copied)
      BY <1>3, <3>1, <3>4, <3>5, <3>7, <3>8, <3>9
    <3>11. xsIn' \o Get(req', req_cons', ReqFill') = Bytes(t, 0, Sent') /\ Len(xsIn') < RequestLen
      BY <1>0, <1>4, <1>5, <3>1, <3>10
    <3> QED  BY <1>2, <1>10, <2>1, <3>11 DEF RequestInv
  <2> QED  BY <2>2, <2>3
<1>14. ResponseInv' /\ WritingInv' /\ CarriedInv'
  <2>1. \A u \in Thread : Answerable(u) => Answerable(u)'  BY <1>11, <1>12 DEF Answerable
  <2>2. pc' \notin {"consume", "process"}  BY <1>6
  <2> QED  BY <1>0, <2>1, <2>2, DownKept
<1> QED  BY <1>7, <1>8, <1>9, <1>13, <1>14 DEF RingIInv

\* StoreCopyFromRing: bytes move from the ring to the response, and the stream stays.
LEMMA CopyFromStep ==
  ASSUME RingIInv, FlagsOK', StoreCopyFromRing
  PROVE  RingIInv'
<1> DEFINE n == MinOf(Wanted, RspFill)
<1>0. /\ pc = "recv" /\ pc' = "consume" /\ copied' = n
      /\ Response' = Response \o Get(rsp, rsp_cons, n)
      /\ UNCHANGED up /\ UNCHANGED <<rsp, rsp_prod, rsp_cons, owner, xsOut, xsPos, fired, made>>
  BY DEF StoreCopyFromRing, page, sending, channel, daemon, up, RspFill, Fill
<1>1. /\ Response \in Seq(Cell) /\ RspFill \in Nat /\ RspFill <= RingSize /\ RingSize \in Nat
      /\ rsp_cons \in Int /\ rsp \in [0 .. RingSize - 1 -> Cell] /\ Len(Response) \in Nat
      /\ Response # <<>> => /\ Response[1][1] \in Message /\ Stream[1] = Response[1]
                            /\ Len(Response) < MsgLen(Response[1][1])
  <2>1. RingTypeOK /\ ResponseInv  BY DEF RingIInv
  <2>2. Response \in Seq(Cell) /\ Len(Response) \in Nat  BY <2>1 DEF RingTypeOK
  <2> QED  BY <1>0, <2>1, <2>2, Fills, StreamIs, Numbers DEF ResponseInv
<1>2. /\ Wanted \in Nat
      /\ Response # <<>> => Len(Response) + Wanted <= MsgLen(Response[1][1])
      /\ Response = <<>> => Wanted = HeaderLen
  <2>1. HeaderLen \in Nat \ {0}  BY Numbers
  <2>2. CASE Response = <<>>  BY <2>1, <2>2 DEF Wanted
  <2>3. CASE Response # <<>>
    <3>1. MsgLen(Response[1][1]) \in Nat /\ HeaderLen <= MsgLen(Response[1][1])
      BY <1>1, <2>3, MsgLens
    <3> QED  BY <1>1, <2>1, <2>3, <3>1 DEF Wanted
  <2> QED  BY <2>2, <2>3
<1>3. n \in Nat /\ n <= Wanted /\ n <= RspFill  BY <1>1, <1>2 DEF MinOf
<1> HIDE DEF n
<1> DEFINE g == Get(rsp, rsp_cons, n)
<1> DEFINE h == Get(rsp, rsp_cons + n, RspFill - n)
<1>4. g \in Seq(Cell) /\ Len(g) = n /\ h \in Seq(Cell)
  <2>1. rsp_cons + n \in Int /\ RspFill - n \in Nat  BY <1>1, <1>3
  <2> QED  BY <1>1, <1>3, <2>1, GetIs
<1>5. Skip = 0 /\ Skip' = n /\ RspFill' = RspFill  BY <1>0 DEF Skip, RspFill
<1>6. Stream' = Stream
  <2>1. Stream = Response \o Get(rsp, rsp_cons, RspFill)
    <3>1. rsp_cons + 0 = rsp_cons /\ RspFill - 0 = RspFill  BY <1>1
    <3> QED  BY <1>5, <3>1 DEF Stream
  <2>2. Get(rsp, rsp_cons, n + (RspFill - n)) = g \o h
    <3> DEFINE k == RspFill - n
    <3>1. k \in Nat /\ n \in Nat /\ rsp_cons \in Int /\ rsp \in [0 .. RingSize - 1 -> Cell]  BY <1>1, <1>3
    <3> HIDE DEF k
    <3>2. Get(rsp, rsp_cons, n + k) = Get(rsp, rsp_cons, n) \o Get(rsp, rsp_cons + n, k)  BY <3>1, GetSplit
    <3> QED  BY <3>2 DEF k
  <2>3. n + (RspFill - n) = RspFill  BY <1>1, <1>3
  <2>4. Stream' = (Response \o g) \o h  BY <1>0, <1>5 DEF Stream
  <2> HIDE DEF g, h
  <2>5. (Response \o g) \o h = Response \o (g \o h)  BY <1>1, <1>4, Associative, SMTT(40)
  <2> QED  BY <2>1, <2>2, <2>3, <2>4, <2>5
<1>7. Response' \in Seq(Cell) /\ Len(Response') = Len(Response) + n
      /\ \A i \in 1 .. Len(Response) : Response'[i] = Response[i]
  <2> HIDE DEF g, h
  <2>1. Response' = Response \o g  BY <1>0 DEF g
  <2> QED  BY <1>1, <1>4, <2>1, Concat, ZenonT(60)
<1> HIDE DEF g, h
<1>8. RingTypeOK'
  BY <1>0, <1>1, <1>3, <1>7, SMTT(40) DEF RingIInv, RingTypeOK, Points, up
<1>9. HolderInv'  BY <1>0 DEF RingIInv, HolderInv, Asking, up
<1>10. SegmentInv' /\ RequestInv'  BY <1>0, UpKept
<1>11. ResponseInv'
  <2>1. RspFill' <= RingSize /\ Skip' <= RspFill' /\ copied' <= Len(Response') /\ Chain(Stream')
    <3>1. Chain(Stream)  BY DEF RingIInv, ResponseInv
    <3> QED  BY <1>0, <1>1, <1>3, <1>5, <1>6, <1>7, <3>1
  <2>2. ASSUME Response' # <<>> PROVE Len(Response') <= MsgLen(Response'[1][1])
    <3>1. CASE Response # <<>>
      <4>1. 1 \in 1 .. Len(Response)  BY <1>1, <3>1
      <4>2. Response'[1] = Response[1]  BY <1>7, <4>1
      <4>3. MsgLen(Response[1][1]) \in Nat  BY <1>1, <3>1, MsgLens
      <4> QED  BY <1>1, <1>2, <1>3, <1>7, <3>1, <4>2, <4>3
    <3>2. CASE Response = <<>>
      <4>1. Len(Response) = 0  BY <3>2
      <4>2. Len(Response') <= HeaderLen /\ HeaderLen \in Nat  BY <1>2, <1>3, <1>7, <3>2, <4>1, Numbers
      <4>3. Chain(Stream)  BY DEF RingIInv, ResponseInv
      <4>4. Response'[1] = Stream[1] /\ Stream # <<>>
        <5>1. RspFill' - Skip' \in Nat /\ Len(Response') >= 1 /\ Len(Response') = n
          BY <1>1, <1>3, <1>5, <1>7, <2>2, <4>1
        <5>2. Stream' = Response' \o h  BY <1>0, <1>5 DEF Stream, h
        <5>3. 1 \in 1 .. Len(Response')  BY <1>7, <5>1
        <5>4. Stream'[1] = Response'[1] /\ Len(Stream') >= 1  BY <1>4, <1>7, <5>2, <5>3, Concat
        <5> QED  BY <1>6, <5>4
      <4>5. Stream[1] \in Byte  BY <4>3, <4>4 DEF Chain
      <4>6. Response'[1][1] \in Message  BY <4>4, <4>5 DEF Byte
      <4>7. HeaderLen <= MsgLen(Response'[1][1]) /\ MsgLen(Response'[1][1]) \in Nat  BY <4>6, MsgLens
      <4>8. Len(Response') \in Nat  BY <1>7
      <4> QED  BY <4>2, <4>7, <4>8
    <3> QED  BY <3>1, <3>2
  <2> QED  BY <1>0, <2>1, <2>2 DEF ResponseInv
<1>12. WritingInv'  BY <1>0, <1>6 DEF RingIInv, WritingInv
<1>13. CarriedInv'
  <2>1. \A m : Carried(m)' <=> Carried(m)  BY <1>0, <1>6 DEF Carried
  <2>2. Flying' = Flying  BY <2>1 DEF Flying
  <2>3. \A t \in Thread : Answerable(t) => Answerable(t)'  BY <1>0, UpSame
  <2> QED  BY <1>0, <2>1, <2>2, <2>3 DEF RingIInv, CarriedInv
<1> QED  BY <1>8, <1>9, <1>10, <1>11, <1>12, <1>13 DEF RingIInv

\* StoreReceiveResponse: the bytes that were copied leave the ring.
LEMMA ReceiveStep ==
  ASSUME RingIInv, FlagsOK', StoreReceiveResponse
  PROVE  RingIInv'
<1>0. /\ pc = "consume" /\ rsp_cons' = (rsp_cons + copied) % IndexMod
      /\ pc' = IF Len(Response) < HeaderLen THEN "read"
               ELSE IF Wanted = 0 THEN "process"
               ELSE IF Len(Response) - copied < HeaderLen THEN "recv" ELSE "read"
      /\ UNCHANGED up /\ UNCHANGED <<rsp, rsp_prod, Response, owner, copied, xsOut, xsPos, fired, made>>
  BY DEF StoreReceiveResponse, sending, channel, daemon, up
<1>1. RingTypeOK /\ ResponseInv /\ Skip = copied /\ Skip' = 0  BY <1>0 DEF RingIInv, Skip
<1>2. /\ copied \in 0 .. RspFill /\ RspFill \in Nat /\ RspFill <= RingSize /\ RingSize \in Nat
      /\ rsp_cons \in 0 .. IndexMod - 1 /\ rsp_prod \in 0 .. IndexMod - 1
      /\ rsp_cons \in Int /\ rsp \in [0 .. RingSize - 1 -> Cell]
      /\ Response \in Seq(Cell) /\ Len(Response) \in Nat
      /\ Response # <<>> => /\ Response[1][1] \in Message
                            /\ Len(Response) <= MsgLen(Response[1][1])
  <2>1. Response \in Seq(Cell) /\ Len(Response) \in Nat /\ rsp_cons \in 0 .. IndexMod - 1
        /\ rsp_prod \in 0 .. IndexMod - 1
    BY <1>1 DEF RingTypeOK
  <2>2. copied \in 0 .. RspFill  BY <1>0, <1>1, Numbers, Fills DEF RingTypeOK, ResponseInv
  <2> QED  BY <1>1, <2>1, <2>2, Fills, StreamIs, Numbers DEF ResponseInv
<1>3. rsp_cons' \in 0 .. IndexMod - 1 /\ RspFill' = RspFill - copied
  <2>1. copied \in 0 .. Fill(rsp_prod, rsp_cons)  BY <1>2 DEF RspFill
  <2> QED  BY <1>0, <1>2, <2>1, Consume DEF RspFill
<1>4. Stream' = Stream
  <2> DEFINE i == rsp_cons + copied
  <2> DEFINE k == RspFill - copied
  <2>1. i \in Int /\ k \in Nat  BY <1>2
  <2>2. rsp_cons' \in Int /\ rsp_cons' + 0 = rsp_cons' /\ k - 0 = k
    <3> DEFINE c == rsp_cons'
    <3>1. c \in Int  BY <1>3, Numbers
    <3> HIDE DEF c
    <3>2. c + 0 = c /\ k - 0 = k  BY <1>2, <3>1
    <3> QED  BY <3>1, <3>2 DEF c
  <2>3. Stream' = Response \o Get(rsp, rsp_cons', k)  BY <1>0, <1>1, <1>3, <2>2 DEF Stream
  <2>4. Stream = Response \o Get(rsp, i, k)  BY <1>1 DEF Stream
  <2>5. rsp_cons' = i % IndexMod  BY <1>0
  <2> HIDE DEF i, k
  <2>6. rsp_cons' % RingSize = i % RingSize  BY <2>1, <2>5, Place
  <2>7. Get(rsp, rsp_cons', k) = Get(rsp, i, k)  BY <1>2, <2>1, <2>2, <2>6, GetFrom
  <2> QED  BY <2>3, <2>4, <2>7
<1>5. RingTypeOK'
  <2>1. pc' \in {"read", "process", "recv"}  BY <1>0
  <2> QED  BY <1>0, <1>1, <1>3, <2>1 DEF RingTypeOK, Points, up
<1>6. HolderInv'  BY <1>0 DEF RingIInv, HolderInv, Asking, up
<1>7. SegmentInv' /\ RequestInv'
  <2>1. pc' # "publish" /\ pc # "publish" /\ pc # "send"  BY <1>0
  <2> QED  BY <1>0, <2>1, UpKept
<1>8. ResponseInv'
  <2>1. RspFill' <= RingSize /\ Skip' <= RspFill' /\ Chain(Stream')
    BY <1>1, <1>2, <1>3, <1>4 DEF ResponseInv
  <2>2. HeaderLen \in Nat \ {0} /\ \A m \in Message : MsgLen(m) \in Nat /\ HeaderLen <= MsgLen(m)
    BY Numbers, MsgLens
  <2>3. CASE Response = <<>>
    <3>1. Len(Response) = 0  BY <2>3
    <3>2. pc' = "read" /\ Response' = <<>>  BY <1>0, <2>2, <2>3, <3>1
    <3> QED  BY <2>1, <3>2 DEF ResponseInv
  <2>4. CASE Response # <<>>
    <3> DEFINE L == MsgLen(Response[1][1])
    <3>1. L \in Nat /\ HeaderLen <= L /\ Len(Response) <= L  BY <1>2, <2>2, <2>4
    <3>2. pc' = "process" => Len(Response) = L
      <4> SUFFICES ASSUME pc' = "process" PROVE Len(Response) = L  OBVIOUS
      <4>1. ~ (Len(Response) < HeaderLen) /\ Wanted = 0  BY <1>0
      <4>2. Wanted = L - Len(Response)  BY <4>1 DEF Wanted
      <4> QED  BY <1>2, <3>1, <4>1, <4>2
    <3>3. pc' # "process" => Len(Response) < L
      <4> SUFFICES ASSUME pc' # "process" PROVE Len(Response) < L  OBVIOUS
      <4>1. CASE Len(Response) < HeaderLen  BY <1>2, <2>2, <3>1, <4>1
      <4>2. CASE ~ (Len(Response) < HeaderLen)
        <5>1. Wanted # 0 /\ Wanted = L - Len(Response)  BY <1>0, <4>2 DEF Wanted
        <5> QED  BY <1>2, <3>1, <5>1
      <4> QED  BY <4>1, <4>2
    <3>4. pc' # "consume"  BY <1>0
    <3> QED  BY <1>0, <2>1, <2>4, <3>1, <3>2, <3>3, <3>4 DEF ResponseInv
  <2> QED  BY <2>3, <2>4
<1>9. WritingInv'  BY <1>0, <1>4 DEF RingIInv, WritingInv
<1>10. CarriedInv'
  <2>1. \A m : Carried(m)' <=> Carried(m)  BY <1>0, <1>4 DEF Carried
  <2>2. Flying' = Flying  BY <2>1 DEF Flying
  <2>3. \A t \in Thread : Answerable(t) => Answerable(t)'  BY <1>0, UpSame
  <2> QED  BY <1>0, <2>1, <2>2, <2>3 DEF RingIInv, CarriedInv
<1> QED  BY <1>5, <1>6, <1>7, <1>8, <1>9, <1>10 DEF RingIInv

\* StoreProcessResponse: the first message of the stream is answered, all of it and nothing else.
LEMMA ProcessStep ==
  ASSUME RingIInv, FlagsOK', StoreProcessResponse
  PROVE  RingIInv'
<1> DEFINE m == Response[1][1]
<1> DEFINE n == MsgLen(m)
<1> DEFINE g == Get(rsp, rsp_cons, RspFill)
<1>0. /\ pc = "process" /\ pc' = "read" /\ Response' = <<>>
      /\ fired' = IF m \in Event THEN fired + 1 ELSE fired
      /\ State' = [t \in Thread |-> IF t = m /\ t \in Pending THEN "completed" ELSE State[t]]
      /\ UNCHANGED <<req, req_prod, req_cons, rsp, rsp_prod, rsp_cons, Index, Offset, owner, copied,
                     xsIn, xsOut, xsPos, made>>
  BY DEF StoreProcessResponse, page, sending, channel, daemon
<1>1. RingTypeOK /\ ResponseInv /\ WritingInv /\ CarriedInv /\ Skip = 0 /\ Skip' = 0
  BY <1>0 DEF RingIInv, Skip
<1>2. /\ Chain(Stream) /\ Response # <<>> /\ Len(Response) = n /\ Stream # <<>> /\ m = Stream[1][1]
      /\ m \in Message /\ n \in Nat \ {0} /\ RspFill <= RingSize /\ Len(Stream) = n + RspFill
      /\ Response \in Seq(Cell) /\ RspFill \in Nat
  <2>1. Chain(Stream) /\ Response # <<>> /\ Len(Response) = n /\ RspFill <= RingSize
    BY <1>0, <1>1 DEF ResponseInv
  <2>2. /\ Stream # <<>> /\ Stream[1] = Response[1] /\ m \in Message
        /\ Len(Stream) = Len(Response) + (RspFill - Skip) /\ Response \in Seq(Cell)
    BY <1>1, <2>1, StreamIs
  <2>3. n \in Nat \ {0} /\ RspFill \in Nat  BY <1>1, <2>2, MsgLens, Fills
  <2> HIDE DEF n
  <2> QED  BY <1>1, <2>1, <2>2, <2>3
<1>3. g \in Seq(Cell) /\ Stream = Response \o g /\ Stream' = g
  <2>1. rsp_cons + 0 = rsp_cons /\ RspFill - 0 = RspFill /\ rsp_cons \in Int  BY <1>1, <1>2, Fills
  <2>2. g \in Seq(Cell)  BY <1>1, <1>2, <2>1, Fills, GetIs
  <2>3. Stream = Response \o g  BY <1>1, <2>1 DEF Stream
  <2>4. RspFill' = RspFill  BY <1>0 DEF RspFill
  <2>5. Stream' = <<>> \o g  BY <1>0, <1>1, <2>1, <2>4 DEF Stream
  <2> HIDE DEF g
  <2>6. <<>> \o g = g  BY <2>2, EmptySides
  <2> QED  BY <2>2, <2>3, <2>5, <2>6
<1>4. /\ Chain(g) /\ Len(g) = Len(Stream) - n
      /\ \A i \in 1 .. Len(g) : g[i] = Stream[n + i] /\ g[i][1] # m
      /\ n \in 1 .. Len(Stream) /\ Stream[n] = <<m, n>> /\ \A i \in 1 .. n : Stream[i][1] = m
  <2> HIDE DEF g
  <2>1. g = SubSeq(Stream, n + 1, Len(Stream))
    <3>1. SubSeq(Response \o g, Len(Response) + 1, Len(Response \o g)) = g  BY <1>2, <1>3, DropFront
    <3> QED  BY <1>2, <1>3, <3>1
  <2>2. MsgLen(Stream[1][1]) <= Len(Stream) /\ n = MsgLen(Stream[1][1])  BY <1>2
  <2> DEFINE s == Stream
  <2>3. Chain(s) /\ s # <<>> /\ MsgLen(s[1][1]) <= Len(s)  BY <1>2, <2>2
  <2>4. s[1][1] = m /\ MsgLen(s[1][1]) = n /\ g = SubSeq(s, n + 1, Len(s))  BY <1>2, <2>1, <2>2
  <2> HIDE DEF m, n, s
  <2>5. /\ Chain(SubSeq(s, MsgLen(s[1][1]) + 1, Len(s))) /\ MsgLen(s[1][1]) \in 1 .. Len(s)
        /\ Len(SubSeq(s, MsgLen(s[1][1]) + 1, Len(s))) = Len(s) - MsgLen(s[1][1])
        /\ \A i \in 1 .. Len(SubSeq(s, MsgLen(s[1][1]) + 1, Len(s))) :
             /\ SubSeq(s, MsgLen(s[1][1]) + 1, Len(s))[i] = s[MsgLen(s[1][1]) + i]
             /\ SubSeq(s, MsgLen(s[1][1]) + 1, Len(s))[i][1] # s[1][1]
        /\ s[MsgLen(s[1][1])] = <<s[1][1], MsgLen(s[1][1])>>
        /\ \A i \in 1 .. MsgLen(s[1][1]) : s[i][1] = s[1][1]
    BY <2>3, DropMessage
  <2>6. /\ Chain(g) /\ n \in 1 .. Len(s) /\ Len(g) = Len(s) - n
        /\ \A i \in 1 .. Len(g) : g[i] = s[n + i] /\ g[i][1] # m
        /\ s[n] = <<m, n>> /\ \A i \in 1 .. n : s[i][1] = m
    BY <2>4, <2>5
  <2> QED  BY <2>6 DEF s
<1> HIDE DEF n, g
<1>5. Carried(m)
  <2>1. 1 \in 1 .. Len(Stream)  BY <1>4
  <2> QED  BY <1>2, <2>1 DEF Carried
<1>6. \A i \in 1 .. Len(xsOut) : xsOut[i] # m
  <2> SUFFICES ASSUME NEW i \in 1 .. Len(xsOut), xsOut[i] = m PROVE FALSE  OBVIOUS
  <2>1. Stream[n][1] = m /\ Stream[n][2] = n  BY <1>4
  <2>2. i = 1 /\ n <= xsPos  BY <1>1, <1>4, <2>1 DEF WritingInv
  <2>3. xsPos \in Nat  BY <1>1 DEF RingTypeOK
  <2>4. xsPos > 0 /\ xsPos < MsgLen(xsOut[1])  BY <1>1, <1>2, <2>2, <2>3 DEF WritingInv
  <2>5. xsPos < n  BY <2>2, <2>4 DEF n
  <2> QED  BY <1>2, <2>2, <2>3, <2>5
<1>7. ASSUME NEW w PROVE Carried(w)' <=> Carried(w) /\ w # m
  <2>1. (\E i \in 1 .. Len(Stream) : Stream[i][1] = w) /\ w # m <=> \E i \in 1 .. Len(g) : g[i][1] = w
    <3>1. ASSUME NEW i \in 1 .. Len(Stream), Stream[i][1] = w, w # m PROVE \E k \in 1 .. Len(g) : g[k][1] = w
      <4>1. i \notin 1 .. n  BY <1>4, <3>1
      <4>2. i - n \in 1 .. Len(g) /\ n + (i - n) = i  BY <1>2, <1>4, <4>1
      <4>3. g[i - n] = Stream[n + (i - n)]  BY <1>4, <4>2
      <4>4. g[i - n][1] = w  BY <3>1, <4>2, <4>3
      <4> QED  BY <4>2, <4>4
    <3>2. ASSUME NEW i \in 1 .. Len(g), g[i][1] = w
          PROVE  w # m /\ \E k \in 1 .. Len(Stream) : Stream[k][1] = w
      <4>1. n + i \in 1 .. Len(Stream) /\ Stream[n + i] = g[i]  BY <1>2, <1>4
      <4>2. w # m  BY <1>4, <3>2
      <4>3. Stream[n + i][1] = w  BY <3>2, <4>1
      <4> QED  BY <4>1, <4>2, <4>3
    <3> QED  BY <3>1, <3>2
  <2>2. (\E i \in 1 .. Len(xsOut) : xsOut[i] = w) => w # m  BY <1>6
  <2> HIDE DEF m
  <2>3. Carried(w)' <=> \/ \E i \in 1 .. Len(xsOut) : xsOut[i] = w
                        \/ \E i \in 1 .. Len(g) : g[i][1] = w
    BY <1>0, <1>3 DEF Carried
  <2> QED  BY <2>1, <2>2, <2>3 DEF Carried
<1>8. \A t \in Thread : State'[t] = IF t = m /\ State[t] = "pending" THEN "completed" ELSE State[t]
  BY <1>0 DEF Pending
<1>9. State' \in [Thread -> {"prepared", "submitted", "pending", "completed", "done"}]
  <2>1. State \in [Thread -> {"prepared", "submitted", "pending", "completed", "done"}]  BY <1>1 DEF RingTypeOK
  <2> HIDE DEF m
  <2> QED  BY <1>0, <2>1
<1>10. Sent' = Sent /\ ReqFill' = ReqFill  BY <1>0 DEF Sent, ReqFill
<1>11. ASSUME NEW t \in Thread, Answerable(t), t # m PROVE Answerable(t)'
  BY <1>0, <1>8, <1>10, <1>11 DEF Answerable, Waiting
<1>12. RingTypeOK'
  <2>1. fired' \in Nat  BY <1>0, <1>1 DEF RingTypeOK
  <2>2. Response' \in Seq(Cell)  BY <1>0
  <2> HIDE DEF m
  <2> QED  BY <1>0, <1>1, <1>9, <2>1, <2>2 DEF RingTypeOK, Points
<1> HIDE DEF m
<1>13. HolderInv'
  <2>1. \A t \in Thread : Asking(t)' => Asking(t)  BY <1>8 DEF Asking
  <2> QED  BY <1>0, <2>1 DEF RingIInv, HolderInv
<1>14. SegmentInv'
  <2>1. \A t \in Thread : /\ State'[t] = "submitted" => State[t] = "submitted"
                          /\ State'[t] = "pending" => State[t] = "pending"
    BY <1>8
  <2>2. pc' # "publish" /\ pc \notin {"send", "publish"}  BY <1>0
  <2> QED  BY <1>0, <2>1, <2>2 DEF RingIInv, SegmentInv
<1>15. RequestInv'
  <2>1. RequestInv  BY DEF RingIInv
  <2>2. \A t \in Thread : Waiting(t)' => Waiting(t) /\ (State'[t] = State[t])  BY <1>8 DEF Waiting
  <2>3. CASE m \in Thread
    <3>1. Answerable(m)  BY <1>1, <1>5, <2>3 DEF CarriedInv
    <3>2. xsIn' = <<>> /\ ReqFill' = 0 /\ Sent' = RequestLen  BY <1>0, <1>10, <3>1 DEF Answerable
    <3>3. \A t \in Thread : Waiting(t)' => Answerable(t)'  BY <3>2 DEF Answerable
    <3>4. ReqFill' <= RingSize  BY <3>2, Numbers
    <3> QED  BY <3>2, <3>3, <3>4 DEF RequestInv
  <2>4. CASE m \notin Thread
    <3>1. \A t \in Thread : /\ Waiting(t)' <=> Waiting(t)
                            /\ Answerable(t) => Answerable(t)'
      BY <1>8, <1>11, <2>4 DEF Waiting
    <3> QED  BY <1>0, <1>10, <2>1, <3>1 DEF RequestInv
  <2> QED  BY <2>3, <2>4
<1>16. ResponseInv'
  <2>1. RspFill' = RspFill  BY <1>0 DEF RspFill
  <2>2. Skip' <= RspFill'  BY <1>1, <1>2, <2>1
  <2> QED  BY <1>0, <1>2, <1>3, <1>4, <2>1, <2>2 DEF ResponseInv
<1>17. WritingInv'
  <2>1. g # <<>> => LastOf(g) = LastOf(Stream)
    <3> SUFFICES ASSUME g # <<>> PROVE LastOf(g) = LastOf(Stream)  OBVIOUS
    <3>1. Len(g) \in Nat /\ Len(g) # 0  BY <1>3
    <3>2. Len(g) \in 1 .. Len(g) /\ n + Len(g) = Len(Stream)  BY <1>2, <1>4, <3>1
    <3> QED  BY <1>4, <3>2 DEF LastOf
  <2>2. g = <<>> => LastOf(Stream) = <<m, n>>
    <3> SUFFICES ASSUME g = <<>> PROVE LastOf(Stream) = <<m, n>>  OBVIOUS
    <3>1. Len(g) = 0  OBVIOUS
    <3>2. Len(Stream) = n  BY <1>2, <1>4, <3>1
    <3> QED  BY <1>4, <3>2 DEF LastOf
  <2>3. xsPos = 0 => g = <<>> \/ Ends(LastOf(g))
    BY <1>1, <1>2, <2>1 DEF WritingInv
  <2>4. xsPos > 0 => /\ xsOut # <<>> /\ xsPos < MsgLen(xsOut[1]) /\ g # <<>>
                     /\ LastOf(g) = <<xsOut[1], xsPos>>
    <3> SUFFICES ASSUME xsPos > 0
                 PROVE  /\ xsOut # <<>> /\ xsPos < MsgLen(xsOut[1]) /\ g # <<>>
                        /\ LastOf(g) = <<xsOut[1], xsPos>>
      OBVIOUS
    <3>1. xsOut # <<>> /\ xsPos < MsgLen(xsOut[1]) /\ LastOf(Stream) = <<xsOut[1], xsPos>>
      BY <1>1 DEF WritingInv
    <3>2. xsOut[1] # m
      <4>1. xsOut \in Seq(Message)  BY <1>1 DEF RingTypeOK
      <4>2. 1 \in 1 .. Len(xsOut)  BY <3>1, <4>1
      <4> QED  BY <1>6, <4>2
    <3>3. g # <<>>  BY <2>2, <3>1, <3>2
    <3> QED  BY <2>1, <3>1, <3>3
  <2>5. \A i \in 1 .. Len(xsOut) : \A k \in 1 .. Len(g) : g[k][1] = xsOut[i] => i = 1 /\ g[k][2] <= xsPos
    <3> SUFFICES ASSUME NEW i \in 1 .. Len(xsOut), NEW k \in 1 .. Len(g), g[k][1] = xsOut[i]
                 PROVE  i = 1 /\ g[k][2] <= xsPos
      OBVIOUS
    <3> DEFINE j == n + k
    <3>1. j \in 1 .. Len(Stream) /\ Stream[j] = g[k]  BY <1>2, <1>4
    <3> HIDE DEF j
    <3> QED  BY <1>1, <3>1 DEF WritingInv
  <2>6. \A i, j \in 1 .. Len(xsOut) : i # j => xsOut[i] # xsOut[j]  BY <1>1 DEF WritingInv
  <2> QED  BY <1>0, <1>3, <2>3, <2>4, <2>5, <2>6 DEF WritingInv
<1>18. CarriedInv'
  <2>1. \A t \in Thread : Carried(t)' => Answerable(t)'
    <3> SUFFICES ASSUME NEW t \in Thread, Carried(t)' PROVE Answerable(t)'  OBVIOUS
    <3>1. Carried(t) /\ t # m  BY <1>7
    <3>2. Answerable(t)  BY <1>1, <3>1 DEF CarriedInv
    <3> QED  BY <1>11, <3>1, <3>2
  <2>2. \A e \in Event : Carried(e)' => e <= Threads + made'  BY <1>0, <1>1, <1>7 DEF CarriedInv
  <2>3. fired' + Cardinality(Flying') = made'
    <3>1. Flying' = Flying \ {m}  BY <1>7 DEF Flying
    <3>2. IsFiniteSet(Flying)
      <4>1. IsFiniteSet(Event)  BY Numbers, FS_Interval
      <4>2. Flying \in SUBSET Event  BY DEF Flying
      <4> QED  BY <4>1, <4>2, FS_Subset
    <3>3. Cardinality(Flying \ {m}) = IF m \in Flying THEN Cardinality(Flying) - 1 ELSE Cardinality(Flying)
      BY <3>2, FS_RemoveElement
    <3>4. m \in Flying <=> m \in Event  BY <1>5 DEF Flying
    <3>5. Cardinality(Flying) \in Nat /\ fired \in Nat  BY <1>1, <3>2, FS_CardinalityType DEF RingTypeOK
    <3>6. fired + Cardinality(Flying) = made  BY <1>1 DEF CarriedInv
    <3> QED  BY <1>0, <3>1, <3>3, <3>4, <3>5, <3>6 DEF m
  <2> QED  BY <2>1, <2>2, <2>3 DEF CarriedInv
<1> QED  BY <1>12, <1>13, <1>14, <1>15, <1>16, <1>17, <1>18 DEF RingIInv


-----------------------------------------------------------------------------
(* The steps of xenstored.                                                 *)

\* Another message to send, which was not under way.
LEMMA QueueMessage ==
  ASSUME RingTypeOK, WritingInv, NEW e \in Message, ~Carried(e),
         Stream' = Stream, xsPos' = xsPos, xsOut' = Append(xsOut, e)
  PROVE  xsOut' \in Seq(Message) /\ WritingInv' /\ \A w : Carried(w)' <=> Carried(w) \/ w = e
<1> DEFINE l == Len(xsOut)
<1>1. xsOut \in Seq(Message) /\ l \in Nat  BY DEF RingTypeOK
<1>2. /\ xsOut' \in Seq(Message) /\ Len(xsOut') = l + 1
      /\ \A i \in 1 .. l : xsOut'[i] = xsOut[i]
      /\ xsOut'[l + 1] = e
  BY <1>1
<1>3. ASSUME NEW i \in 1 .. l + 1 PROVE i \in 1 .. l \/ i = l + 1  BY <1>1
<1>4. \A i \in 1 .. l : xsOut[i] # e  BY DEF Carried
<1>5. \A k \in 1 .. Len(Stream) : Stream[k][1] # e  BY DEF Carried
<1>6. ASSUME NEW w PROVE Carried(w)' <=> Carried(w) \/ w = e
  <2>1. (\E i \in 1 .. l + 1 : xsOut'[i] = w) <=> (\E i \in 1 .. l : xsOut[i] = w) \/ w = e
    <3>1. ASSUME NEW i \in 1 .. l + 1, xsOut'[i] = w PROVE (\E k \in 1 .. l : xsOut[k] = w) \/ w = e
      BY <1>2, <1>3, <3>1
    <3>2. ASSUME NEW i \in 1 .. l, xsOut[i] = w PROVE \E k \in 1 .. l + 1 : xsOut'[k] = w
      <4>1. i \in 1 .. l + 1  BY <1>1
      <4> QED  BY <1>2, <3>2, <4>1
    <3>3. ASSUME w = e PROVE \E k \in 1 .. l + 1 : xsOut'[k] = w
      <4>1. l + 1 \in 1 .. l + 1  BY <1>1
      <4> QED  BY <1>2, <3>3, <4>1
    <3> QED  BY <3>1, <3>2, <3>3
  <2>2. Carried(w)' <=> \/ \E i \in 1 .. l + 1 : xsOut'[i] = w
                        \/ \E i \in 1 .. Len(Stream) : Stream[i][1] = w
    BY <1>2 DEF Carried
  <2> QED  BY <2>1, <2>2 DEF Carried
<1>7. xsPos > 0 => /\ xsOut' # <<>> /\ xsPos < MsgLen(xsOut'[1]) /\ Stream # <<>>
                   /\ LastOf(Stream) = <<xsOut'[1], xsPos>>
  <2> SUFFICES ASSUME xsPos > 0
               PROVE  /\ xsOut' # <<>> /\ xsPos < MsgLen(xsOut'[1]) /\ Stream # <<>>
                      /\ LastOf(Stream) = <<xsOut'[1], xsPos>>
    OBVIOUS
  <2>1. /\ xsOut # <<>> /\ xsPos < MsgLen(xsOut[1]) /\ Stream # <<>>
        /\ LastOf(Stream) = <<xsOut[1], xsPos>>
    BY DEF WritingInv
  <2>2. 1 \in 1 .. l  BY <1>1, <2>1
  <2>3. xsOut'[1] = xsOut[1] /\ xsOut' # <<>>  BY <1>2, <2>2
  <2> QED  BY <2>1, <2>3
<1>8. ASSUME NEW i \in 1 .. l + 1, NEW j \in 1 .. l + 1, i # j PROVE xsOut'[i] # xsOut'[j]
  <2>1. CASE i \in 1 .. l /\ j \in 1 .. l
    <3>1. xsOut[i] # xsOut[j]  BY <1>8, <2>1 DEF WritingInv
    <3> QED  BY <1>2, <2>1, <3>1
  <2>2. CASE i \in 1 .. l /\ j = l + 1  BY <1>2, <1>4, <2>2
  <2>3. CASE j \in 1 .. l /\ i = l + 1  BY <1>2, <1>4, <2>3
  <2> QED  BY <1>3, <1>8, <2>1, <2>2, <2>3
<1>9. ASSUME NEW i \in 1 .. l + 1, NEW k \in 1 .. Len(Stream), Stream[k][1] = xsOut'[i]
      PROVE  i = 1 /\ Stream[k][2] <= xsPos
  <2>1. i # l + 1  BY <1>2, <1>5, <1>9
  <2>2. i \in 1 .. l  BY <1>3, <2>1
  <2>3. Stream[k][1] = xsOut[i]  BY <1>2, <1>9, <2>2
  <2> QED  BY <2>2, <2>3 DEF WritingInv
<1>10. xsPos = 0 => Stream = <<>> \/ Ends(LastOf(Stream))  BY DEF WritingInv
<1> QED  BY <1>2, <1>6, <1>7, <1>8, <1>9, <1>10 DEF WritingInv

\* No more of the request is published than there is.
LEMMA SentBound ==
  ASSUME RingIInv, NEW t \in Thread, Waiting(t)
  PROVE  Sent <= RequestLen /\ Sent \in Nat /\ RequestLen \in Nat \ {0}
<1>1. RingTypeOK /\ SegmentInv  BY DEF RingIInv
<1>2. /\ Sent \in Nat /\ Sent = Before(Index) + Offset /\ Before(Index) \in Nat
      /\ Index <= Len(Segments) => Before(Index) + Segments[Index] <= RequestLen
      /\ Index = Len(Segments) + 1 => Before(Index) = RequestLen
      /\ RequestLen \in Nat \ {0}
  BY <1>1, SentIs, Prefixes
<1>3. CASE State[t] = "submitted"
  <2>1. Index <= Len(Segments) /\ Offset <= Segments[Index]  BY <1>1, <1>3 DEF SegmentInv
  <2>2. Index \in 1 .. Len(Segments) /\ Offset \in Nat  BY <1>1, <2>1, Numbers DEF RingTypeOK
  <2>3. Segments[Index] \in Nat  BY <2>2, Prefixes
  <2> QED  BY <1>2, <2>1, <2>2, <2>3
<1>4. CASE State[t] = "pending"
  <2>1. Index = Len(Segments) + 1 /\ Offset = 0  BY <1>1, <1>4 DEF SegmentInv
  <2> QED  BY <1>2, <2>1
<1> QED  BY <1>3, <1>4 DEF Waiting

\* What XsRead finds: the rest of what the request under way has on the ring.
LEMMA Readable ==
  ASSUME RingIInv, ReqFill > 0
  PROVE  \E t \in Thread :
           /\ Waiting(t) /\ ~Answerable(t) /\ \A u \in Thread : Waiting(u) => u = t
           /\ xsIn \o Get(req, req_cons, ReqFill) = Bytes(t, 0, Sent)
           /\ Len(xsIn) \in Nat /\ Len(xsIn) + ReqFill = Sent /\ ReqFill \in Nat
           /\ Sent \in Nat /\ Sent <= RequestLen /\ RequestLen \in Nat
           /\ Len(Bytes(t, 0, Sent)) = Sent /\ Bytes(t, 0, Sent) \in Seq(Cell)
           /\ Bytes(t, 0, Sent)[1][1] = t
<1>1. RingTypeOK /\ RequestInv /\ HolderInv  BY DEF RingIInv
<1>2. ReqFill \in Nat /\ req_cons \in Int /\ req \in [0 .. RingSize - 1 -> Cell] /\ xsIn \in Seq(Cell)
  BY <1>1, Fills DEF RingTypeOK
<1>3. PICK t \in Thread : Waiting(t)  BY <1>1, <1>2 DEF RequestInv
<1>4. ~Answerable(t)  BY <1>2 DEF Answerable
<1>5. \A u \in Thread : Waiting(u) => u = t  BY <1>1, <1>3 DEF HolderInv, Asking, Waiting
<1>6. xsIn \o Get(req, req_cons, ReqFill) = Bytes(t, 0, Sent)  BY <1>1, <1>3, <1>4 DEF RequestInv
<1>7. Sent <= RequestLen /\ Sent \in Nat /\ RequestLen \in Nat  BY <1>3, SentBound
<1>8. t \in Message  BY Numbers
<1>9. Len(Bytes(t, 0, Sent)) = Sent /\ Bytes(t, 0, Sent) \in Seq(Cell)
      /\ \A i \in 1 .. Sent : Bytes(t, 0, Sent)[i] = <<t, 0 + i>>
  <2>1. 0 \in Nat  OBVIOUS
  <2> QED  BY <1>7, <1>8, <2>1, BytesAre, CellBytes
<1> DEFINE g == Get(req, req_cons, ReqFill)
<1>10. g \in Seq(Cell) /\ Len(g) = ReqFill  BY <1>2, GetIs
<1>11. Len(xsIn) \in Nat /\ Len(xsIn) + ReqFill = Sent
  <2> HIDE DEF g
  <2>1. xsIn \in Seq(Cell) /\ g \in Seq(Cell)  BY <1>2, <1>10
  <2>2. Len(xsIn \o g) = Len(xsIn) + Len(g)  BY <2>1, Concat
  <2>3. Len(xsIn) \in Nat  BY <2>1
  <2> QED  BY <1>6, <1>9, <1>10, <2>2, <2>3 DEF g
<1>12. 1 \in 1 .. Sent  BY <1>2, <1>7, <1>11
<1>13. Bytes(t, 0, Sent)[1][1] = t  BY <1>9, <1>12
<1> QED  BY <1>2, <1>3, <1>4, <1>5, <1>6, <1>7, <1>9, <1>11, <1>13

\* XsRead: xenstored has all of the request when it has read what was published of it, or
\* it waits for the rest.
LEMMA ReadStep ==
  ASSUME RingIInv, FlagsOK', XsRead
  PROVE  RingIInv'
<1> DEFINE n == MinOf(ReqFill, RequestLen - Len(xsIn))
<1> DEFINE in == xsIn \o Get(req, req_cons, n)
<1>0. /\ ReqFill > 0
      /\ req_cons' = (req_cons + n) % IndexMod
      /\ xsIn' = IF Len(in) = RequestLen THEN <<>> ELSE in
      /\ xsOut' = IF Len(in) = RequestLen THEN Append(xsOut, in[1][1]) ELSE xsOut
      /\ UNCHANGED <<req, req_prod, State, Index, Offset, owner, pc, copied>>
      /\ UNCHANGED <<rsp, rsp_prod, rsp_cons, Response, xsPos, fired, made>>
  BY DEF XsRead, XsReadable, ReqFill, Fill, RequestLen, driver, sending, recving
<1>1. /\ RingTypeOK /\ HolderInv /\ SegmentInv /\ RequestInv /\ ResponseInv
      /\ WritingInv /\ CarriedInv
  BY DEF RingIInv
<1>2. PICK t \in Thread :
        /\ Waiting(t) /\ ~Answerable(t) /\ \A u \in Thread : Waiting(u) => u = t
        /\ xsIn \o Get(req, req_cons, ReqFill) = Bytes(t, 0, Sent)
        /\ Len(xsIn) \in Nat /\ Len(xsIn) + ReqFill = Sent /\ ReqFill \in Nat
        /\ Sent \in Nat /\ Sent <= RequestLen /\ RequestLen \in Nat
        /\ Len(Bytes(t, 0, Sent)) = Sent /\ Bytes(t, 0, Sent) \in Seq(Cell)
        /\ Bytes(t, 0, Sent)[1][1] = t
  BY <1>0, Readable
<1>3. n = ReqFill  BY <1>2 DEF MinOf
<1>4. in = Bytes(t, 0, Sent)  BY <1>2, <1>3
<1> HIDE DEF n, in
<1>5. Sent' = Sent  BY <1>0 DEF Sent
<1>6. req_cons' \in 0 .. IndexMod - 1 /\ ReqFill' = 0
  <2>1. req_prod \in 0 .. IndexMod - 1 /\ req_cons \in 0 .. IndexMod - 1  BY <1>1 DEF RingTypeOK
  <2>2. n \in 0 .. Fill(req_prod, req_cons)  BY <1>2, <1>3 DEF ReqFill
  <2>3. req_cons' \in 0 .. IndexMod - 1 /\ Fill(req_prod, req_cons') = Fill(req_prod, req_cons) - n
    BY <1>0, <2>1, <2>2, Consume
  <2> QED  BY <1>0, <1>2, <1>3, <2>3 DEF ReqFill
<1>7. \A u \in Thread : ~Carried(u)
  BY <1>0, <1>1 DEF CarriedInv, Answerable
<1>8. Skip' = Skip /\ Stream' = Stream /\ RspFill' = RspFill  BY <1>0 DEF Skip, Stream, RspFill
<1>9. t \in Message  BY Numbers
<1>10. ASSUME Sent = RequestLen PROVE RingTypeOK' /\ RequestInv' /\ WritingInv' /\ CarriedInv'
  <2>1. xsIn' = <<>> /\ xsOut' = Append(xsOut, t)  BY <1>0, <1>2, <1>4, <1>10
  <2>2. xsOut' \in Seq(Message) /\ WritingInv' /\ \A w : Carried(w)' <=> Carried(w) \/ w = t
    BY <1>0, <1>1, <1>7, <1>8, <1>9, <2>1, QueueMessage
  <2>3. Waiting(t)'  BY <1>0, <1>2 DEF Waiting
  <2>4. Answerable(t)'  BY <1>5, <1>6, <1>10, <2>1, <2>3 DEF Answerable
  <2>5. \A u \in Thread : Waiting(u)' => u = t  BY <1>0, <1>2 DEF Waiting
  <2>6. RingTypeOK'
    <3>1. xsIn' \in Seq(Cell)  BY <2>1
    <3> QED  BY <1>0, <1>1, <1>6, <2>2, <3>1 DEF RingTypeOK, Points
  <2>7. RequestInv'
    <3>1. ReqFill' <= RingSize  BY <1>6, Numbers
    <3>2. \A u \in Thread : Waiting(u)' => Answerable(u)'  BY <2>4, <2>5
    <3> QED  BY <1>6, <2>1, <3>1, <3>2 DEF RequestInv
  <2>8. CarriedInv'
    <3>1. \A u \in Thread : Carried(u)' => Answerable(u)'  BY <1>7, <2>2, <2>4
    <3>2. \A e \in Event : Carried(e)' <=> Carried(e)
      <4>1. t \notin Event  BY Numbers
      <4> QED  BY <2>2, <4>1
    <3>3. Flying' = Flying  BY <3>2 DEF Flying
    <3> QED  BY <1>0, <1>1, <3>1, <3>2, <3>3 DEF CarriedInv
  <2> QED  BY <2>2, <2>6, <2>7, <2>8
<1>11. ASSUME Sent # RequestLen PROVE RingTypeOK' /\ RequestInv' /\ WritingInv' /\ CarriedInv'
  <2>1. xsIn' = Bytes(t, 0, Sent) /\ xsOut' = xsOut  BY <1>0, <1>2, <1>4, <1>11
  <2>2. WritingInv' /\ (\A w : Carried(w)' <=> Carried(w)) /\ Flying' = Flying
    BY <1>0, <1>1, <1>8, <2>1, DownSame
  <2>3. RingTypeOK'  BY <1>0, <1>1, <1>2, <1>6, <2>1 DEF RingTypeOK, Points
  <2>4. RequestInv'
    <3>0. Waiting(t)'  BY <1>0, <1>2 DEF Waiting
    <3>1. ReqFill' <= RingSize /\ ~ (\A u \in Thread : ~Waiting(u)')
      BY <1>6, <3>0, Numbers
    <3>2. Get(req', req_cons', ReqFill') = <<>>  BY <1>6 DEF Get
    <3>3. xsIn' \o Get(req', req_cons', ReqFill') = Bytes(t, 0, Sent)
      <4> DEFINE b == Bytes(t, 0, Sent)
      <4>1. b \in Seq(Cell)  BY <1>2
      <4> HIDE DEF b
      <4>2. b \o <<>> = b  BY <4>1, EmptySides
      <4> QED  BY <2>1, <3>2, <4>2 DEF b
    <3>4. Len(xsIn') < RequestLen  BY <1>2, <1>11, <2>1
    <3>5. \A u \in Thread : Waiting(u)' => u = t  BY <1>0, <1>2 DEF Waiting
    <3> QED  BY <1>5, <3>1, <3>3, <3>4, <3>5 DEF RequestInv
  <2>5. CarriedInv'  BY <1>0, <1>1, <1>7, <2>2 DEF CarriedInv
  <2> QED  BY <2>2, <2>3, <2>4, <2>5
<1>12. HolderInv'  BY <1>0, <1>1 DEF HolderInv, Submitted, Asking
<1>13. SegmentInv'
  <2>1. pc = "publish" => copied \in 0 .. RingSize  BY <1>1 DEF RingTypeOK
  <2>2. pc = "publish" => ReqFill' + copied <= RingSize  BY <1>6, <2>1, Numbers
  <2> QED  BY <1>0, <1>1, <1>5, <2>2 DEF SegmentInv
<1>14. ResponseInv'  BY <1>0, <1>1, <1>8 DEF ResponseInv
<1> QED  BY <1>10, <1>11, <1>12, <1>13, <1>14 DEF RingIInv

\* XsFire: another event is made.
LEMMA FireStep ==
  ASSUME RingIInv, FlagsOK', XsFire
  PROVE  RingIInv'
<1> DEFINE e == Threads + made + 1
<1>0. /\ made < MaxEvents /\ made' = made + 1 /\ xsOut' = Append(xsOut, e)
      /\ UNCHANGED <<req, req_prod, req_cons, State, Index, Offset, owner, pc, copied, xsIn>>
      /\ UNCHANGED <<rsp, rsp_prod, rsp_cons, Response, xsPos, fired>>
  BY DEF XsFire, page, driver, sending, recving
<1>1. /\ RingTypeOK /\ HolderInv /\ SegmentInv /\ RequestInv /\ ResponseInv
      /\ WritingInv /\ CarriedInv
  BY DEF RingIInv
<1>2. e \in Event /\ e \in Message /\ made \in Nat /\ e > Threads + made /\ e = Threads + made'
  <2>1. made \in 0 .. MaxEvents /\ Threads \in Nat /\ MaxEvents \in Nat  BY <1>1, Numbers DEF RingTypeOK
  <2>2. e \in Event  BY <1>0, <2>1 DEF Event
  <2> QED  BY <1>0, <2>1, <2>2, Numbers
<1>3. ~Carried(e)
  <2>1. Carried(e) => e <= Threads + made  BY <1>1, <1>2 DEF CarriedInv
  <2> QED  BY <1>2, <2>1, Numbers
<1>4. Skip' = Skip /\ Stream' = Stream /\ RspFill' = RspFill  BY <1>0 DEF Skip, Stream, RspFill
<1> HIDE DEF e
<1>5. xsOut' \in Seq(Message) /\ WritingInv' /\ \A w : Carried(w)' <=> Carried(w) \/ w = e
  BY <1>0, <1>1, <1>2, <1>3, <1>4, QueueMessage
<1>6. RingTypeOK'
  <2>1. made' \in 0 .. MaxEvents  BY <1>0, <1>2, Numbers
  <2> QED  BY <1>0, <1>1, <1>5, <2>1 DEF RingTypeOK, Points
<1>7. HolderInv'  BY <1>0, <1>1 DEF HolderInv, Submitted, Asking
<1>8. SegmentInv' /\ RequestInv' /\ \A t \in Thread : Answerable(t) => Answerable(t)'
  <2>1. UNCHANGED up  BY <1>0 DEF up
  <2>2. Sent' = Sent /\ ReqFill' = ReqFill /\ RequestInv' /\ \A t \in Thread : Answerable(t) => Answerable(t)'
    BY <1>1, <2>1, UpSame
  <2> QED  BY <1>0, <1>1, <2>2 DEF SegmentInv
<1>9. ResponseInv'  BY <1>0, <1>1, <1>4 DEF ResponseInv
<1>10. CarriedInv'
  <2>1. \A t \in Thread : Carried(t)' => Answerable(t)'
    <3>1. e \notin Thread  BY <1>2, Numbers
    <3> QED  BY <1>1, <1>5, <1>8, <3>1 DEF CarriedInv
  <2>2. ASSUME NEW v \in Event, Carried(v)' PROVE v <= Threads + made'
    <3>1. v \in Int /\ Threads \in Nat  BY Numbers
    <3>2. CASE v = e  BY <1>2, <3>1, <3>2
    <3>3. CASE Carried(v)
      <4>1. v <= Threads + made  BY <1>1, <3>3 DEF CarriedInv
      <4> QED  BY <1>0, <1>2, <3>1, <4>1
    <3> QED  BY <1>5, <2>2, <3>2, <3>3
  <2>3. fired' + Cardinality(Flying') = made'
    <3>1. Flying' = Flying \cup {e}  BY <1>2, <1>5 DEF Flying
    <3>2. e \notin Flying  BY <1>3 DEF Flying
    <3>3. IsFiniteSet(Flying)
      <4>1. IsFiniteSet(Event)  BY Numbers, FS_Interval
      <4>2. Flying \in SUBSET Event  BY DEF Flying
      <4> QED  BY <4>1, <4>2, FS_Subset
    <3>4. Cardinality(Flying \cup {e}) = Cardinality(Flying) + 1
      BY <3>2, <3>3, FS_AddElement
    <3>5. Cardinality(Flying) \in Nat /\ fired \in Nat  BY <1>1, <3>3, FS_CardinalityType DEF RingTypeOK
    <3>6. fired + Cardinality(Flying) = made  BY <1>1 DEF CarriedInv
    <3> QED  BY <1>0, <3>1, <3>4, <3>5, <3>6
  <2> QED  BY <2>1, <2>2, <2>3 DEF CarriedInv
<1> QED  BY <1>5, <1>6, <1>7, <1>8, <1>9, <1>10 DEF RingIInv

\* What XsWrite writes: at least a byte of the first message, and no more than there is
\* room for.
LEMMA Writable ==
  ASSUME RingIInv, XsWrite
  PROVE  \E n \in Nat \ {0} :
           LET m == xsOut[1] IN
           /\ xsOut # <<>> /\ m \in Message /\ RspFill + n <= RingSize /\ xsPos + n <= MsgLen(m)
           /\ rsp' = Put(rsp, rsp_prod, Bytes(m, xsPos, n))
           /\ rsp_prod' = (rsp_prod + n) % IndexMod
           /\ xsPos' = IF xsPos + n = MsgLen(m) THEN 0 ELSE xsPos + n
           /\ xsOut' = IF xsPos + n = MsgLen(m) THEN Tail(xsOut) ELSE xsOut
<1> DEFINE m == xsOut[1]
<1> DEFINE left == IF xsPos < HeaderLen THEN HeaderLen - xsPos ELSE MsgLen(m) - xsPos
<1> DEFINE n == MinOf(XsRoom, left)
<1>1. RingTypeOK /\ WritingInv /\ ResponseInv  BY DEF RingIInv
<1>2. xsOut # <<>> /\ xsOut \in Seq(Message) /\ xsPos \in Nat /\ XsRoom > 0
  BY <1>1 DEF XsWrite, RingTypeOK
<1>3. m \in Message /\ Head(xsOut) = m
  <2>1. 1 \in 1 .. Len(xsOut)  BY <1>2
  <2> QED  BY <1>2, <2>1
<1>4. MsgLen(m) \in Nat \ {0} /\ HeaderLen <= MsgLen(m) /\ HeaderLen \in Nat \ {0}  BY <1>3, MsgLens
<1>5. XsRoom = RingSize - RspFill /\ RspFill \in Nat /\ RspFill <= RingSize /\ RingSize \in Nat
  <2>1. rsp_prod \in 0 .. IndexMod - 1 /\ rsp_cons \in 0 .. IndexMod - 1  BY <1>1 DEF RingTypeOK
  <2>2. Fill(rsp_prod, rsp_cons) <= RingSize  BY <1>1 DEF ResponseInv, RspFill
  <2>3. (rsp_cons + RingSize - rsp_prod) % IndexMod = RingSize - Fill(rsp_prod, rsp_cons)
    BY <2>1, <2>2, Room
  <2> QED  BY <1>1, <2>2, <2>3, Fills, Numbers DEF XsRoom, RspFill
<1>6. /\ rsp' = Put(rsp, rsp_prod, Bytes(m, xsPos, n))
      /\ rsp_prod' = (rsp_prod + n) % IndexMod
      /\ xsPos' = IF xsPos + n = MsgLen(m) THEN 0 ELSE xsPos + n
      /\ xsOut' = IF xsPos + n = MsgLen(m) THEN Tail(xsOut) ELSE xsOut
  BY <1>3 DEF XsWrite
<1>7. xsPos < MsgLen(m)
  <2>1. xsPos > 0 => xsPos < MsgLen(m)  BY <1>1 DEF WritingInv
  <2> QED  BY <1>2, <1>4, <2>1
<1> HIDE DEF m
<1>8. left \in Nat \ {0} /\ xsPos + left <= MsgLen(m)  BY <1>2, <1>4, <1>7
<1> HIDE DEF left
<1>9. n \in Nat \ {0} /\ n <= left /\ n <= XsRoom  BY <1>2, <1>5, <1>8 DEF MinOf
<1> HIDE DEF n
<1>10. RspFill + n <= RingSize /\ xsPos + n <= MsgLen(m)  BY <1>2, <1>4, <1>5, <1>8, <1>9
<1> QED  BY <1>2, <1>3, <1>6, <1>9, <1>10 DEF m

\* XsWrite: the next bytes of the first message join the stream.
LEMMA WriteStream ==
  ASSUME RingIInv, NEW m \in Message, NEW n \in Nat \ {0}, RspFill + n <= RingSize,
         rsp' = Put(rsp, rsp_prod, Bytes(m, xsPos, n)),
         rsp_prod' = (rsp_prod + n) % IndexMod,
         UNCHANGED <<rsp_cons, Response, pc, copied>>
  PROVE  /\ rsp' \in [0 .. RingSize - 1 -> Cell] /\ rsp_prod' \in 0 .. IndexMod - 1
         /\ RspFill' = RspFill + n /\ Skip' = Skip
         /\ Stream' = Stream \o Bytes(m, xsPos, n)
<1> DEFINE b == Bytes(m, xsPos, n)
<1> DEFINE c == rsp_cons + Skip
<1> DEFINE f == RspFill - Skip
<1> DEFINE g == Get(rsp, c, f)
<1>1. RingTypeOK /\ ResponseInv  BY DEF RingIInv
<1>2. b \in Seq(Cell) /\ Len(b) = n
  <2>1. xsPos \in Nat /\ n \in Nat  BY <1>1 DEF RingTypeOK
  <2> QED  BY <2>1, CellBytes
<1>3. /\ rsp \in [0 .. RingSize - 1 -> Cell] /\ RspFill \in Nat /\ rsp_prod \in Int /\ rsp_cons \in Int
      /\ rsp_prod \in 0 .. IndexMod - 1 /\ rsp_cons \in 0 .. IndexMod - 1 /\ RingSize \in Nat \ {0}
  BY <1>1, Fills, Numbers DEF RingTypeOK
<1>4. /\ f \in Nat /\ Skip \in Nat /\ c \in Int /\ Response \in Seq(Cell)
      /\ g \in Seq(Cell) /\ Len(g) = f
  BY <1>1, StreamIs
<1>5. rsp_prod' \in 0 .. IndexMod - 1 /\ RspFill' = RspFill + n
  <2>1. Fill(rsp_prod, rsp_cons) + n <= RingSize  BY DEF RspFill
  <2>2. n \in Nat  OBVIOUS
  <2> QED  BY <1>3, <2>1, <2>2, Publish DEF RspFill
<1>6. Skip' = Skip  BY DEF Skip
<1>7. rsp_prod % RingSize = (c + f) % RingSize
  <2>1. rsp_prod % RingSize = (rsp_cons + Fill(rsp_prod, rsp_cons)) % RingSize  BY <1>3, Room
  <2>2. c + f = rsp_cons + RspFill  BY <1>3, <1>4
  <2> QED  BY <2>1, <2>2 DEF RspFill
<1>8. n <= RingSize /\ f + n <= RingSize  BY <1>3, <1>4
<1>9. RspFill' - Skip' = f + n /\ rsp_cons' + Skip' = c  BY <1>3, <1>4, <1>5, <1>6
<1>10. Stream = Response \o g  BY DEF Stream
<1>11. Stream' = Response \o Get(rsp', c, f + n)  BY <1>9 DEF Stream
<1>12. rsp' = Put(rsp, rsp_prod, b)  OBVIOUS
<1> HIDE DEF b, g, c, f
<1> DEFINE new == rsp'
<1>13. /\ new \in [0 .. RingSize - 1 -> Cell]
       /\ Get(new, rsp_prod, n) = b
       /\ Get(new, c, f) = Get(rsp, c, f)
  <2>1. Len(b) <= RingSize /\ f + Len(b) <= RingSize  BY <1>2, <1>8
  <2>2. /\ Put(rsp, rsp_prod, b) \in [0 .. RingSize - 1 -> Cell]
        /\ Get(Put(rsp, rsp_prod, b), rsp_prod, Len(b)) = b
        /\ \A x \in Int, y \in Nat :
             y + Len(b) <= RingSize /\ rsp_prod % RingSize = (x + y) % RingSize
               => Get(Put(rsp, rsp_prod, b), x, y) = Get(rsp, x, y)
    BY <1>2, <1>3, <2>1, PutGet
  <2>3. Get(Put(rsp, rsp_prod, b), c, f) = Get(rsp, c, f)  BY <1>4, <1>7, <2>1, <2>2
  <2> QED  BY <1>2, <1>12, <2>2, <2>3
<1> HIDE DEF new
<1>14. Get(new, c + f, n) = b
  <2>1. c + f \in Int /\ n \in Nat  BY <1>4
  <2>2. Get(new, rsp_prod, n) = Get(new, c + f, n)  BY <1>3, <1>7, <1>13, <2>1, GetFrom
  <2> QED  BY <1>13, <2>2
<1>15. Get(new, c, f + n) = g \o b
  <2>1. n \in Nat  OBVIOUS
  <2>3. new \in [0 .. RingSize - 1 -> Cell] /\ c \in Int /\ f \in Nat  BY <1>4, <1>13
  <2>2. Get(new, c, f + n) = Get(new, c, f) \o Get(new, c + f, n)  BY <2>1, <2>3, GetSplit, ZenonT(60)
  <2> QED  BY <1>13, <1>14, <2>2 DEF g
<1>16. Response \o (g \o b) = (Response \o g) \o b  BY <1>2, <1>4, Associative, SMTT(40)
<1>17. Stream' = Stream \o b  BY <1>10, <1>11, <1>15, <1>16 DEF new
<1> QED  BY <1>5, <1>6, <1>13, <1>17 DEF b, new

\* XsWrite keeps the invariant: the stream goes on, and a message that is complete leaves
\* the list of xenstored.
LEMMA WriteStep ==
  ASSUME RingIInv, FlagsOK', XsWrite
  PROVE  RingIInv'
<1> DEFINE m == xsOut[1]
<1> DEFINE l == Len(Stream)
<1>0. UNCHANGED up /\ UNCHANGED <<owner, pc, copied, rsp_cons, Response, fired, made>>
  BY DEF XsWrite, driver, sending, recving, up
<1>1. /\ RingTypeOK /\ HolderInv /\ SegmentInv /\ RequestInv /\ ResponseInv
      /\ WritingInv /\ CarriedInv
  BY DEF RingIInv
<1>2. PICK n \in Nat \ {0} :
        /\ xsOut # <<>> /\ m \in Message /\ RspFill + n <= RingSize /\ xsPos + n <= MsgLen(m)
        /\ rsp' = Put(rsp, rsp_prod, Bytes(m, xsPos, n))
        /\ rsp_prod' = (rsp_prod + n) % IndexMod
        /\ xsPos' = IF xsPos + n = MsgLen(m) THEN 0 ELSE xsPos + n
        /\ xsOut' = IF xsPos + n = MsgLen(m) THEN Tail(xsOut) ELSE xsOut
  BY Writable
<1>3. xsOut \in Seq(Message) /\ xsPos \in Nat /\ Len(xsOut) \in Nat /\ 1 \in 1 .. Len(xsOut)
  <2>1. xsOut \in Seq(Message) /\ xsPos \in Nat  BY <1>1 DEF RingTypeOK
  <2> QED  BY <1>2, <2>1
<1>4. MsgLen(m) \in Nat \ {0}  BY <1>2, MsgLens
<1>5. Tail(xsOut) \in Seq(Message) /\ Len(Tail(xsOut)) = Len(xsOut) - 1
      /\ \A i \in 1 .. Len(xsOut) - 1 : Tail(xsOut)[i] = xsOut[i + 1]
  BY <1>2, <1>3
<1> HIDE DEF m
<1>6. /\ rsp' \in [0 .. RingSize - 1 -> Cell] /\ rsp_prod' \in 0 .. IndexMod - 1
      /\ RspFill' = RspFill + n /\ Skip' = Skip
      /\ Stream' = Stream \o Bytes(m, xsPos, n)
  BY <1>0, <1>2, WriteStream
<1>7. Chain(Stream) /\ l \in Nat
  <2>1. Chain(Stream)  BY <1>1 DEF ResponseInv
  <2> QED  BY <2>1 DEF Chain
<1>8. /\ Chain(Stream') /\ Stream' # <<>> /\ LastOf(Stream') = <<m, xsPos + n>> /\ Len(Stream') = l + n
      /\ \A i \in 1 .. l : Stream'[i] = Stream[i]
      /\ \A i \in l + 1 .. l + n : Stream'[i] = <<m, xsPos + (i - l)>>
  <2> DEFINE s == Stream
  <2>1. xsPos = 0 => s = <<>> \/ Ends(LastOf(s))  BY <1>1 DEF WritingInv
  <2>2. xsPos > 0 => s # <<>> /\ LastOf(s) = <<m, xsPos>>  BY <1>1 DEF WritingInv, m
  <2>3. \A k \in 1 .. Len(s) : s[k][1] = m => s[k][2] <= xsPos  BY <1>1, <1>3 DEF WritingInv, m
  <2>4. Chain(s)  BY <1>7
  <2> DEFINE r == s \o Bytes(m, xsPos, n)
  <2> HIDE DEF s
  <2>5. /\ Chain(r) /\ r # <<>> /\ LastOf(r) = <<m, xsPos + n>> /\ Len(r) = Len(s) + n
        /\ \A i \in 1 .. Len(s) : r[i] = s[i]
        /\ \A i \in Len(s) + 1 .. Len(s) + n : r[i] = <<m, xsPos + (i - Len(s))>>
    BY <1>2, <1>3, <2>1, <2>2, <2>3, <2>4, AppendBytes, ZenonT(60)
  <2> HIDE DEF r
  <2>6. Stream' = r  BY <1>6 DEF r, s
  <2> QED  BY <2>5, <2>6 DEF s
<1> HIDE DEF l
<1>9. \A k \in 1 .. l + n : k \in 1 .. l \/ k \in l + 1 .. l + n  BY <1>7
<1>10. ASSUME NEW i \in 1 .. Len(xsOut), xsOut[i] = m PROVE i = 1
  BY <1>1, <1>3, <1>10 DEF WritingInv, m
<1>11. ASSUME NEW i \in 1 .. Len(xsOut), NEW k \in 1 .. l + n, Stream'[k][1] = xsOut[i]
       PROVE  i = 1 /\ Stream'[k][2] <= xsPos + n
  <2>1. CASE k \in 1 .. l
    <3>1. Stream[k][1] = xsOut[i] /\ Stream'[k] = Stream[k]  BY <1>8, <1>11, <2>1
    <3>2. i = 1 /\ Stream[k][2] <= xsPos  BY <1>1, <2>1, <3>1 DEF WritingInv, l
    <3>3. Stream[k][2] \in Nat
      <4>1. Stream \in Seq(Byte)  BY <1>7 DEF Chain
      <4>2. Stream[k] \in Byte  BY <2>1, <4>1 DEF l
      <4> QED  BY <4>2 DEF Byte
    <3> QED  BY <1>3, <3>1, <3>2, <3>3
  <2>2. CASE k \in l + 1 .. l + n
    <3>1. Stream'[k] = <<m, xsPos + (k - l)>>  BY <1>8, <2>2
    <3>2. xsPos + (k - l) <= xsPos + n  BY <1>3, <1>7, <2>2
    <3>3. xsOut[i] = m  BY <1>11, <3>1
    <3> QED  BY <1>10, <3>1, <3>2, <3>3
  <2> QED  BY <1>9, <2>1, <2>2
<1>12. WritingInv'
  <2>1. CASE xsPos + n = MsgLen(m)
    <3>1. xsPos' = 0 /\ xsOut' = Tail(xsOut) /\ Ends(LastOf(Stream'))
      BY <1>2, <1>8, <2>1 DEF Ends
    <3>2. ASSUME NEW i \in 1 .. Len(xsOut'), NEW j \in 1 .. Len(xsOut'), i # j PROVE xsOut'[i] # xsOut'[j]
      <4>1. i + 1 \in 1 .. Len(xsOut) /\ j + 1 \in 1 .. Len(xsOut) /\ i + 1 # j + 1
            /\ i \in 1 .. Len(xsOut) - 1 /\ j \in 1 .. Len(xsOut) - 1
        BY <1>3, <1>5, <3>1, <3>2
      <4>2. xsOut[i + 1] # xsOut[j + 1]  BY <1>1, <4>1 DEF WritingInv
      <4> QED  BY <1>5, <3>1, <4>1, <4>2
    <3>3. ASSUME NEW i \in 1 .. Len(xsOut'), NEW k \in 1 .. Len(Stream'), Stream'[k][1] = xsOut'[i]
          PROVE  FALSE
      <4>1. i + 1 \in 1 .. Len(xsOut) /\ i + 1 # 1 /\ i \in 1 .. Len(xsOut) - 1
        BY <1>3, <1>5, <3>1
      <4>2. Stream'[k][1] = xsOut[i + 1] /\ k \in 1 .. l + n  BY <1>5, <1>8, <3>1, <3>3, <4>1
      <4> QED  BY <1>11, <4>1, <4>2
    <3> QED  BY <3>1, <3>2, <3>3 DEF WritingInv
  <2>2. CASE xsPos + n # MsgLen(m)
    <3>1. xsPos' = xsPos + n /\ xsOut' = xsOut  BY <1>2, <2>2
    <3>2. xsPos' # 0 /\ xsPos' < MsgLen(xsOut'[1]) /\ LastOf(Stream') = <<xsOut'[1], xsPos'>>
      BY <1>2, <1>3, <1>4, <1>8, <2>2, <3>1 DEF m
    <3>3. \A i, j \in 1 .. Len(xsOut') : i # j => xsOut'[i] # xsOut'[j]
      BY <1>1, <3>1 DEF WritingInv
    <3>4. \A i \in 1 .. Len(xsOut') : \A k \in 1 .. Len(Stream') :
            Stream'[k][1] = xsOut'[i] => i = 1 /\ Stream'[k][2] <= xsPos'
      BY <1>8, <1>11, <3>1
    <3>5. xsOut' # <<>>  BY <1>2, <3>1
    <3> QED  BY <1>8, <3>2, <3>3, <3>4, <3>5 DEF WritingInv
  <2> QED  BY <2>1, <2>2
<1>13. ASSUME NEW w PROVE Carried(w)' <=> Carried(w)
  <2> DEFINE Out == \E i \in 1 .. Len(xsOut) : xsOut[i] = w
  <2> DEFINE In  == \E i \in 1 .. l : Stream[i][1] = w
  <2>1. (\E i \in 1 .. l + n : Stream'[i][1] = w) <=> In \/ w = m
    <3>1. ASSUME NEW i \in 1 .. l + n, Stream'[i][1] = w PROVE In \/ w = m
      <4>1. CASE i \in 1 .. l
        <5>1. Stream[i][1] = w  BY <1>8, <3>1, <4>1
        <5> QED  BY <4>1, <5>1
      <4>2. CASE i \in l + 1 .. l + n
        <5>1. Stream'[i][1] = m  BY <1>8, <4>2
        <5> QED  BY <3>1, <5>1
      <4> QED  BY <1>9, <4>1, <4>2
    <3>2. ASSUME NEW i \in 1 .. l, Stream[i][1] = w PROVE \E k \in 1 .. l + n : Stream'[k][1] = w
      <4>1. i \in 1 .. l + n  BY <1>7
      <4>2. Stream'[i][1] = w  BY <1>8, <3>2
      <4> QED  BY <4>1, <4>2
    <3>3. \E k \in 1 .. l + n : Stream'[k][1] = m
      <4>1. l + 1 \in 1 .. l + n /\ l + 1 \in l + 1 .. l + n  BY <1>7
      <4>2. Stream'[l + 1][1] = m  BY <1>8, <4>1
      <4> QED  BY <4>1, <4>2
    <3> QED  BY <3>1, <3>2, <3>3
  <2>2. m = w => Out  BY <1>3 DEF m
  <2>3. (\E i \in 1 .. Len(xsOut') : xsOut'[i] = w) => Out
    <3> SUFFICES ASSUME NEW i \in 1 .. Len(xsOut'), xsOut'[i] = w PROVE Out  OBVIOUS
    <3>1. CASE xsPos + n = MsgLen(m)
      <4>1. xsOut' = Tail(xsOut)  BY <1>2, <3>1
      <4>2. i \in 1 .. Len(xsOut) - 1 /\ i + 1 \in 1 .. Len(xsOut)  BY <1>3, <1>5, <4>1
      <4>3. xsOut[i + 1] = w  BY <1>5, <4>1, <4>2
      <4> QED  BY <4>2, <4>3
    <3>2. CASE xsPos + n # MsgLen(m)
      <4>1. xsOut' = xsOut  BY <1>2, <3>2
      <4> QED  BY <4>1
    <3> QED  BY <3>1, <3>2
  <2>4. Out => w = m \/ \E i \in 1 .. Len(xsOut') : xsOut'[i] = w
    <3> SUFFICES ASSUME NEW i \in 1 .. Len(xsOut), xsOut[i] = w, w # m
                 PROVE  \E k \in 1 .. Len(xsOut') : xsOut'[k] = w
      OBVIOUS
    <3>1. CASE xsPos + n = MsgLen(m)
      <4>1. xsOut' = Tail(xsOut)  BY <1>2, <3>1
      <4>2. i # 1  BY DEF m
      <4> DEFINE k == i - 1
      <4>3. k \in 1 .. Len(xsOut) - 1 /\ k + 1 = i  BY <1>3, <4>2
      <4> HIDE DEF k
      <4>4. k \in 1 .. Len(xsOut') /\ xsOut'[k] = w  BY <1>5, <4>1, <4>3
      <4> QED  BY <4>4
    <3>2. CASE xsPos + n # MsgLen(m)
      <4>1. xsOut' = xsOut  BY <1>2, <3>2
      <4> QED  BY <4>1
    <3> QED  BY <3>1, <3>2
  <2>5. Carried(w)' <=> \/ \E i \in 1 .. Len(xsOut') : xsOut'[i] = w
                        \/ \E i \in 1 .. l + n : Stream'[i][1] = w
    BY <1>8 DEF Carried
  <2>6. Carried(w) <=> Out \/ In  BY DEF Carried, l
  <2> HIDE DEF Out, In
  <2> QED  BY <2>1, <2>2, <2>3, <2>4, <2>5, <2>6
<1>14. RingTypeOK'
  <2>1. xsPos' \in Nat  BY <1>2, <1>3
  <2>2. xsOut' \in Seq(Message)  BY <1>2, <1>3, <1>5
  <2> QED  BY <1>0, <1>1, <1>6, <2>1, <2>2 DEF RingTypeOK, Points, up
<1>15. HolderInv'  BY <1>0, <1>1 DEF HolderInv, Submitted, Asking, up
<1>16. SegmentInv' /\ RequestInv' /\ \A t \in Thread : Answerable(t) => Answerable(t)'
  <2>1. Sent' = Sent /\ ReqFill' = ReqFill /\ RequestInv' /\ \A t \in Thread : Answerable(t) => Answerable(t)'
    BY <1>0, <1>1, UpSame
  <2>2. SegmentInv'  BY <1>0, <1>1, <2>1 DEF SegmentInv, up
  <2> QED  BY <2>1, <2>2
<1>17. ResponseInv'
  <2>1. RspFill' <= RingSize  BY <1>2, <1>6
  <2>2. Skip' <= RspFill'
    <3>1. RspFill \in Nat /\ Skip \in Nat /\ Skip <= RspFill  BY <1>1, Fills, StreamIs DEF ResponseInv
    <3> QED  BY <1>6, <3>1
  <2> QED  BY <1>0, <1>1, <1>8, <2>1, <2>2 DEF ResponseInv
<1>18. CarriedInv'
  <2>1. Flying' = Flying  BY <1>13 DEF Flying
  <2> QED  BY <1>0, <1>1, <1>13, <1>16, <2>1 DEF CarriedInv
<1> QED  BY <1>12, <1>14, <1>15, <1>16, <1>17, <1>18 DEF RingIInv

-----------------------------------------------------------------------------
(* The theorem.                                                            *)

\* The invariant holds when the interface is connected, ...
LEMMA RingInit ==
  ASSUME Init
  PROVE  RingIInv
<1>0. /\ RingSize \in Nat \ {0} /\ IndexMod \in Nat \ {0} /\ Len(Segments) \in Nat \ {0}
      /\ MaxEvents \in Nat /\ RingSize < IndexMod
  BY Numbers
<1>1. req = [k \in 0 .. RingSize - 1 |-> <<0, 0>>] /\ rsp = req  BY DEF Init
<1>2. /\ req_prod = 0 /\ req_cons = 0 /\ rsp_prod = 0 /\ rsp_cons = 0
      /\ State = [t \in Thread |-> "prepared"]
      /\ owner = "none" /\ pc = "none" /\ Index = 1 /\ Offset = 0 /\ Response = <<>>
      /\ counted = FALSE /\ dpc = TRUE /\ fired = 0 /\ xsAwake = FALSE /\ xsIn = <<>> /\ xsOut = <<>>
      /\ xsPos = 0 /\ made = 0
  BY DEF Init
<1>3. RingTypeOK
  <2>1. req \in [0 .. RingSize - 1 -> Cell] /\ rsp \in [0 .. RingSize - 1 -> Cell]
    <3>1. <<0, 0>> \in Cell  BY DEF Cell
    <3> QED  BY <1>1, <3>1
  <2>2. 0 \in 0 .. IndexMod - 1 /\ 1 \in 1 .. Len(Segments) + 1 /\ 0 \in 0 .. MaxEvents  BY <1>0
  <2>3. State \in [Thread -> {"prepared", "submitted", "pending", "completed", "done"}]  BY <1>2
  <2>4. xsIn \in Seq(Cell) /\ xsOut \in Seq(Message) /\ Response \in Seq(Cell)  BY <1>2
  <2> QED  BY <1>2, <2>1, <2>2, <2>3, <2>4 DEF RingTypeOK, Points
<1>4. FlagsOK  BY <1>2 DEF FlagsOK
<1>5. \A t \in Thread : State[t] = "prepared" /\ ~Waiting(t) /\ ~Asking(t)
  BY <1>2 DEF Waiting, Asking
<1>6. HolderInv  BY <1>2, <1>5 DEF HolderInv
<1>7. SegmentInv  BY <1>5 DEF SegmentInv
<1>8. ReqFill = 0 /\ RspFill = 0
  <2>1. Fill(0, 0) = 0  BY <1>0 DEF Fill
  <2> QED  BY <1>2, <2>1 DEF ReqFill, RspFill
<1>9. RequestInv  BY <1>0, <1>2, <1>5, <1>8 DEF RequestInv
<1>10. Skip = 0 /\ Stream = <<>>
  <2>1. Skip = 0  BY <1>2 DEF Skip
  <2>2. RspFill - Skip = 0  BY <1>8, <2>1
  <2>3. Get(rsp, rsp_cons + Skip, 0) = <<>>  BY DEF Get
  <2> QED  BY <1>2, <2>1, <2>2, <2>3 DEF Stream
<1>11. ResponseInv
  <2>1. Chain(<<>>)  BY DEF Chain
  <2> QED  BY <1>0, <1>2, <1>8, <1>10, <2>1 DEF ResponseInv
<1>12. WritingInv  BY <1>2, <1>10 DEF WritingInv
<1>13. CarriedInv
  <2>1. \A m : ~Carried(m)  BY <1>2, <1>10 DEF Carried
  <2>2. Flying = {}  BY <2>1 DEF Flying
  <2>3. Cardinality(Flying) = 0  BY <2>2, FS_EmptySet
  <2> QED  BY <1>2, <2>1, <2>3 DEF CarriedInv, Flying
<1> QED  BY <1>3, <1>4, <1>6, <1>7, <1>9, <1>11, <1>12, <1>13 DEF RingIInv

\* ... every step of a holder of the lock, of the upcall and of xenstored keeps it, ...
LEMMA RingStep ==
  ASSUME RingIInv, [Next]_vars
  PROVE  RingIInv'
<1>0. FlagsOK'
  <2>1. FlagsOK  BY DEF RingIInv
  <2> QED  BY <2>1, FlagsStep
<1>1. ASSUME NEW t \in Thread, StoreSubmitRequest(t) PROVE RingIInv'  BY <1>0, <1>1, SubmitStep
<1>2. CASE StoreCopyToRing  BY <1>0, <1>2, CopyToStep
<1>3. CASE StoreSendSegment  BY <1>0, <1>3, SendStep
<1>4. CASE StoreCopyFromRing  BY <1>0, <1>4, CopyFromStep
<1>5. CASE StoreReceiveResponse  BY <1>0, <1>5, ReceiveStep
<1>6. CASE StoreProcessResponse  BY <1>0, <1>6, ProcessStep
<1>7. CASE PollDone  BY <1>0, <1>7, PollDoneStep
<1>8. CASE XsRead  BY <1>0, <1>8, ReadStep
<1>9. CASE XsWrite  BY <1>0, <1>9, WriteStep
<1>10. CASE XsFire  BY <1>0, <1>10, FireStep
<1>11. CASE \/ StoreWatchdogIdle \/ PollAck \/ StoreEvtchnCallback \/ XsWake \/ XsSleep \/ XsNotify
            \/ StoreDpc \/ StoreWatchdog \/ StorePollLocked \/ StoreSendRequests
            \/ EvtchnSendWritten \/ EvtchnSendRead \/ EvtchnWait \/ EvtchnWaitTimeout
            \/ UNCHANGED vars
  BY <1>0, <1>11, PlainSteps
<1> QED
  BY <1>1, <1>2, <1>3, <1>4, <1>5, <1>6, <1>7, <1>8, <1>9, <1>10, <1>11
  DEF Next, Holder, Upcall, Xenstored

\* ... and it has what is claimed of the transport.
LEMMA RingImplies ==
  ASSUME RingIInv
  PROVE  TransportInv
<1>1. /\ RingTypeOK /\ FlagsOK /\ HolderInv /\ SegmentInv /\ RequestInv /\ ResponseInv
      /\ CarriedInv
  BY DEF RingIInv
<1>2. Response \in Seq(Cell) /\ Len(Response) \in Nat /\ xsIn \in Seq(Cell) /\ Len(xsIn) \in Nat
  BY <1>1 DEF RingTypeOK
<1>3. Response # <<>> => /\ Response[1][1] \in Message /\ Stream # <<>> /\ Stream[1] = Response[1]
                         /\ Len(Response) <= MsgLen(Response[1][1])
  BY <1>1, StreamIs DEF ResponseInv
<1>4. TypeOK
  <2>1. Len(Response) <= HeaderLen + EventLen + Sum(ReplyLen)
    <3>1. ASSUME NEW m \in Message, Len(Response) <= MsgLen(m)
          PROVE  Len(Response) <= HeaderLen + EventLen + Sum(ReplyLen)
      <4> DEFINE M == MsgLen(m)
      <4> DEFINE S == Sum(ReplyLen)
      <4>0. M \in Nat /\ M <= HeaderLen + EventLen + S /\ HeaderLen \in Nat  BY MsgLens
      <4>1. S \in Nat /\ EventLen \in Nat
        <5>1. ReplyLen \in [1 .. Threads -> Nat] /\ Threads \in Nat \ {0} /\ EventLen \in Nat
          BY StoreRingAssumption DEF Thread
        <5>2. ReplyLen \in Seq(Nat) /\ 1 \in 1 .. Len(ReplyLen)  BY <5>1
        <5> QED  BY <5>1, <5>2, SumTerm
      <4>2. Len(Response) <= M  BY <3>1
      <4> HIDE DEF M, S
      <4>3. Len(Response) <= HeaderLen + EventLen + S  BY <1>2, <4>0, <4>1, <4>2
      <4> QED  BY <4>3 DEF S
    <3>2. CASE Response # <<>>  BY <1>3, <3>1, <3>2
    <3>3. CASE Response = <<>>
      <4>1. 1 \in Message
        <5>1. 1 \in Thread  BY Numbers
        <5> QED  BY <5>1, Numbers
      <4>2. MsgLen(1) \in Nat  BY <4>1, MsgLens
      <4>3. Len(Response) <= MsgLen(1)  BY <3>3, <4>2
      <4> QED  BY <3>1, <4>1, <4>3
    <3> QED  BY <3>2, <3>3
  <2>2. fired \in 0 .. made
    <3>1. IsFiniteSet(Event)  BY Numbers, FS_Interval
    <3>2. Flying \in SUBSET Event  BY DEF Flying
    <3>3. Cardinality(Flying) \in Nat  BY <3>1, <3>2, FS_Subset, FS_CardinalityType
    <3>4. fired + Cardinality(Flying) = made /\ fired \in Nat  BY <1>1 DEF CarriedInv, RingTypeOK
    <3> QED  BY <3>3, <3>4
  <2> QED  BY <1>1, <2>1, <2>2 DEF TypeOK, RingTypeOK, FlagsOK
<1>5. RingInv
  BY <1>1, <1>4 DEF RingInv, RequestInv, ResponseInv, ReqFill, RspFill, Fill
<1>6. ASSUME NEW i \in 1 .. Len(xsIn) PROVE xsIn[i] = <<xsIn[1][1], i>>
  <2> DEFINE g == Get(req, req_cons, ReqFill)
  <2>1. xsIn # <<>>  BY <1>2
  <2>2. PICK t \in Thread : Waiting(t) /\ xsIn \o g = Bytes(t, 0, Sent)
    BY <1>1, <2>1 DEF RequestInv, Answerable
  <2>3. g \in Seq(Cell) /\ Len(g) \in Nat
    <3>1. ReqFill \in Nat /\ req_cons \in Int /\ req \in [0 .. RingSize - 1 -> Cell]  BY <1>1, Fills
    <3> QED  BY <3>1, GetIs
  <2> DEFINE b == Bytes(t, 0, Sent)
  <2>4. t \in Message /\ Sent \in Nat /\ 0 \in Nat  BY <2>2, Numbers, SentBound
  <2>5. Len(b) = Sent /\ \A k \in 1 .. Sent : b[k] = <<t, 0 + k>>  BY <2>4, BytesAre
  <2> HIDE DEF g, b
  <2>6. Len(xsIn \o g) = Len(xsIn) + Len(g) /\ \A k \in 1 .. Len(xsIn) : (xsIn \o g)[k] = xsIn[k]
    BY <1>2, <2>3, Concat
  <2>7. xsIn \o g = b  BY <2>2 DEF b
  <2>8. \A k \in 1 .. Len(xsIn) : k \in 1 .. Sent /\ xsIn[k] = b[k] /\ 0 + k = k
    BY <1>2, <2>3, <2>4, <2>5, <2>6, <2>7
  <2>9. \A k \in 1 .. Len(xsIn) : xsIn[k] = <<t, k>>  BY <2>5, <2>8
  <2>10. 1 \in 1 .. Len(xsIn)  BY <1>2, <2>1
  <2>11. xsIn[i] = <<t, i>> /\ xsIn[1] = <<t, 1>>  BY <2>9, <2>10
  <2> QED  BY <2>11
<1>7. ASSUME NEW i \in 1 .. Len(Response) PROVE Response[i] = <<Response[1][1], i>>
  <2>1. Response # <<>>  BY <1>2
  <2>2. \A k \in 1 .. Len(Response) : Stream[k] = Response[k]  BY <1>1, StreamIs
  <2>3. Len(Response) \in 0 .. Len(Stream)
    <3>1. Len(Stream) = Len(Response) + (RspFill - Skip) /\ RspFill - Skip \in Nat  BY <1>1, StreamIs
    <3> QED  BY <1>2, <3>1
  <2>4. Chain(Stream) /\ Stream # <<>> /\ Stream[1][1] = Response[1][1]
    BY <1>1, <1>3, <2>1 DEF ResponseInv
  <2>5. Len(Response) <= MsgLen(Stream[1][1])  BY <1>3, <2>1, <2>4
  <2> DEFINE s == Stream
  <2> DEFINE n == Len(Response)
  <2>6. Chain(s) /\ s # <<>> /\ n \in 0 .. Len(s) /\ n <= MsgLen(s[1][1])  BY <2>3, <2>4, <2>5
  <2> HIDE DEF s, n
  <2>7. \A k \in 1 .. n : s[k] = <<s[1][1], k>>  BY <2>6, HeadMessage
  <2> QED  BY <2>2, <2>4, <2>7 DEF s, n
<1>8. NoSpurious
  <2> DEFINE m == Response[1][1]
  <2> SUFFICES ASSUME pc = "process", m \in Thread PROVE m \in Pending /\ owner = "thread"
    BY DEF NoSpurious
  <2>1. Response # <<>>  BY <1>1 DEF ResponseInv
  <2>2. Stream # <<>> /\ Stream[1][1] = m  BY <1>3, <2>1
  <2>3. 1 \in 1 .. Len(Stream)
    <3>1. Chain(Stream)  BY <1>1 DEF ResponseInv
    <3>2. Stream \in Seq(Byte)  BY <3>1 DEF Chain
    <3> QED  BY <2>2, <3>2
  <2>4. Carried(m)  BY <2>2, <2>3 DEF Carried
  <2>5. Answerable(m)  BY <1>1, <2>4 DEF CarriedInv
  <2> HIDE DEF m
  <2>6. owner = "thread"  BY <1>1, <2>5 DEF HolderInv, Answerable, Waiting, Asking
  <2>7. State[m] # "submitted"
    <3> SUFFICES ASSUME State[m] = "submitted" PROVE FALSE  OBVIOUS
    <3>1. Index <= Len(Segments) /\ Offset < Segments[Index]  BY <1>1 DEF SegmentInv
    <3>2. /\ Sent = Before(Index) + Offset /\ Before(Index) \in Nat
          /\ Before(Index) + Segments[Index] <= RequestLen
      BY <1>1, <3>1, SentIs
    <3>3. Index \in 1 .. Len(Segments) /\ Offset \in Nat  BY <1>1, <3>1, Numbers DEF RingTypeOK
    <3>4. Segments[Index] \in Nat /\ RequestLen \in Nat  BY <3>3, Prefixes
    <3>5. Sent = RequestLen  BY <2>5 DEF Answerable
    <3> QED  BY <3>1, <3>2, <3>3, <3>4, <3>5
  <2> QED  BY <2>5, <2>6, <2>7 DEF Answerable, Waiting, Pending
<1> QED  BY <1>5, <1>6, <1>7, <1>8 DEF TransportInv, StreamInv

\* Whatever the size of the rings, the width of their indices, the segments of a request and
\* the lengths of replies and events: StoreCopyToRing and StoreCopyFromRing never fill a ring
\* beyond its size or read beyond what is there, each side receives the bytes of a message
\* whole and in order, and StoreProcessResponse finds the request it answers on the pending
\* list with its submitter waiting.
THEOREM MessagesArriveInOrder == Spec => []TransportInv
<1>1. Init => RingIInv  BY RingInit
<1>2. RingIInv /\ [Next]_vars => RingIInv'  BY RingStep
<1>3. RingIInv => TransportInv  BY RingImplies
<1> QED  BY <1>1, <1>2, <1>3, PTL DEF Spec
=============================================================================
