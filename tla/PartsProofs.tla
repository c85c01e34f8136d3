----------------------------- MODULE PartsProofs ------------------------------
(* Proofs about the console, the filter driver and the objects of the      *)
(* STORE interface, each for every value of its constants.                 *)
EXTENDS Console, Filter, Store, FiniteSetTheorems, WellFoundedInduction, TLAPS

-----------------------------------------------------------------------------
(* Console.                                                                *)

-----------------------------------------------------------------------------
(* Arithmetic modulo a number.                                             *)

\* Quotient and remainder.
LEMMA Division ==
  ASSUME NEW m \in Nat \ {0}, NEW a \in Int
  PROVE  /\ a % m \in 0 .. m - 1 /\ a \div m \in Int
         /\ a = m * (a \div m) + (a % m)
OBVIOUS

\* A number is its remainder when it differs from it by a multiple.
LEMMA Remainder ==
  ASSUME NEW m \in Nat \ {0}, NEW q \in Int, NEW r \in 0 .. m - 1
  PROVE  (m * q + r) % m = r
<1> DEFINE a == m * q + r
<1>1. a \in Int  OBVIOUS
<1>2. a % m \in 0 .. m - 1 /\ a \div m \in Int /\ a = m * (a \div m) + (a % m)  BY <1>1, Division
<1> DEFINE d == q - (a \div m)
<1> DEFINE e == a % m
<1>3. d \in Int /\ e \in 0 .. m - 1  BY <1>2
<1>4. m * d = e - r
  <2>1. m * q + r = m * (a \div m) + e  BY <1>2
  <2>2. m * (q - (a \div m)) = m * q - m * (a \div m)  BY <1>2
  <2> QED  BY <1>2, <1>3, <2>1, <2>2
<1>5. d = 0
  <2> HIDE DEF d, e
  <2>1. d > 0 => m * d >= m  BY <1>3
  <2>2. d < 0 => m * d <= -m  BY <1>3
  <2>3. e - r < m /\ e - r > -m  BY <1>3
  <2> QED  BY <1>3, <1>4, <2>1, <2>2, <2>3
<1>6. e = r
  <2> HIDE DEF d, e
  <2>1. m * d = 0  BY <1>3, <1>5
  <2> QED  BY <1>3, <1>4, <2>1
<1> QED  BY <1>6

\* Numbers that differ by a multiple have the same remainder.
LEMMA Congruent ==
  ASSUME NEW m \in Nat \ {0}, NEW a \in Int, NEW b \in Int, NEW k \in Int, a = m * k + b
  PROVE  a % m = b % m
<1>1. b % m \in 0 .. m - 1 /\ b \div m \in Int /\ b = m * (b \div m) + (b % m)  BY Division
<1> DEFINE q == b \div m
<1> DEFINE r == b % m
<1>2. q \in Int /\ r \in 0 .. m - 1 /\ b = m * q + r  BY <1>1
<1>3. m * (k + q) = m * k + m * q  BY <1>2
<1>4. a = m * (k + q) + r
  <2> HIDE DEF q, r
  <2>1. m * k \in Int /\ m * q \in Int  BY <1>2
  <2> QED  BY <1>2, <1>3, <2>1
<1>5. (m * (k + q) + r) % m = r
  <2> HIDE DEF q, r
  <2>1. k + q \in Int  BY <1>2
  <2> QED  BY <1>2, <2>1, Remainder
<1> QED  BY <1>4, <1>5

\* Remainders may be taken early or late.
LEMMA Early ==
  ASSUME NEW m \in Nat \ {0}, NEW a \in Int, NEW b \in Int
  PROVE  /\ ((a % m) + b) % m = (a + b) % m
         /\ ((a % m) - (b % m)) % m = (a - b) % m
         /\ (b - (a % m)) % m = (b - a) % m
         /\ a \in 0 .. m - 1 => a % m = a
<1> DEFINE p == a \div m
<1> DEFINE q == b \div m
<1> DEFINE r == a % m
<1> DEFINE s == b % m
<1>1. /\ p \in Int /\ r \in Int /\ a = m * p + r /\ m * p \in Int
      /\ q \in Int /\ s \in Int /\ b = m * q + s /\ m * q \in Int
  BY Division
<1> HIDE DEF p, q, r, s
<1>2. m * (-p) = -(m * p) /\ m * (q - p) = m * q - m * p  BY <1>1
<1>3. (r + b) % m = (a + b) % m
  <2>1. r + b = m * (-p) + (a + b)  BY <1>1, <1>2
  <2>2. r + b \in Int /\ a + b \in Int /\ -p \in Int  BY <1>1
  <2> QED  BY <2>1, <2>2, Congruent
<1>4. (r - s) % m = (a - b) % m
  <2>1. r - s = m * (q - p) + (a - b)  BY <1>1, <1>2
  <2>2. r - s \in Int /\ a - b \in Int /\ q - p \in Int  BY <1>1
  <2> QED  BY <2>1, <2>2, Congruent
<1>5. (b - r) % m = (b - a) % m
  <2>1. b - r = m * p + (b - a)  BY <1>1
  <2>2. b - r \in Int /\ b - a \in Int /\ p \in Int  BY <1>1
  <2> QED  BY <2>1, <2>2, Congruent
<1>6. a \in 0 .. m - 1 => a % m = a
  <2>1. m * 0 + a = a  BY <1>1
  <2> QED  BY <2>1, Remainder
<1> QED  BY <1>3, <1>4, <1>5, <1>6 DEF r, s

\* Fewer than m apart, numbers have different remainders.
LEMMA Distinct ==
  ASSUME NEW m \in Nat \ {0}, NEW a \in Int, NEW b \in Int, a < b, b - a < m
  PROVE  a % m # b % m
<1> SUFFICES ASSUME a % m = b % m PROVE FALSE  OBVIOUS
<1> DEFINE p == a \div m
<1> DEFINE q == b \div m
<1>1. /\ p \in Int /\ a = m * p + (a % m) /\ m * p \in Int /\ a % m \in Int
      /\ q \in Int /\ b = m * q + (b % m) /\ m * q \in Int
  BY Division
<1> HIDE DEF p, q
<1>2. b - a = m * q - m * p  BY <1>1
<1>3. m * q - m * p = m * (q - p)  BY <1>1
<1>4. q - p \in Int /\ (q - p > 0 => m * (q - p) >= m) /\ (q - p <= 0 => m * (q - p) <= 0)  BY <1>1
<1> QED  BY <1>2, <1>3, <1>4

\* The index of a byte gives its place in the ring.
LEMMA Place ==
  ASSUME NEW a \in Int
  PROVE  (a % Width) % RingSize = a % RingSize
<1>1. RingSize \in Nat \ {0} /\ Width \in Nat \ {0} /\ Width % RingSize = 0  BY ConsoleAssumption
<1> DEFINE f == Width \div RingSize
<1> DEFINE p == a \div Width
<1> DEFINE r == a % Width
<1>2. f \in Int /\ Width = RingSize * f /\ p \in Int /\ r \in Int /\ a = Width * p + r  BY <1>1, Division
<1> HIDE DEF f, p, r
<1>3. Width * p = RingSize * (f * p)  BY <1>1, <1>2
<1>4. f * p \in Int /\ a = RingSize * (f * p) + r  BY <1>2, <1>3
<1>5. a % RingSize = r % RingSize
  <2>1. \A k \in Int : a = RingSize * k + r => a % RingSize = r % RingSize  BY <1>1, <1>2, Congruent, ZenonT(60)
  <2> QED  BY <1>4, <2>1
<1> QED  BY <1>5 DEF r

-----------------------------------------------------------------------------
(* The invariant.                                                          *)

\* The type of the rings.
RingsTypeOK ==
  /\ data \in [Way -> [0 .. RingSize - 1 -> Int]]
  /\ prod \in [Way -> Int] /\ cons \in [Way -> Int]
  /\ sent \in [Way -> Nat] /\ got \in [Way -> Nat]

\* The indices count the bytes, and what is between them is what was sent.
RingInv(w) ==
  /\ prod[w] = sent[w] % Width /\ cons[w] = got[w] % Width
  /\ got[w] <= sent[w] /\ sent[w] - got[w] <= RingSize
  /\ \A k \in got[w] .. sent[w] - 1 : data[w][k % RingSize] = k % Width

\* Both rings, and no byte was read that was not written.
RingsInv == RingsTypeOK /\ ~garbled /\ \A w \in Way : RingInv(w)

\* The type of what the clients do.
ClientsTypeOK ==
  wakeup \in [Way -> {"none", "running", "waiting"}] /\ event \in SUBSET Way

\* The inductive invariant.
ConsoleIInv == RingsInv /\ ClientsTypeOK /\ WakeupComes

\* The sizes of the rings.
LEMMA Sizes ==
  RingSize \in Nat \ {0} /\ Width \in Nat \ {0} /\ RingSize < Width
BY ConsoleAssumption

\* The unsigned differences are the true ones.
LEMMA Availability ==
  ASSUME RingsTypeOK, NEW w \in Way, RingInv(w)
  PROVE  /\ InAvailable(w) = sent[w] - got[w] /\ InAvailable(w) \in 0 .. RingSize
         /\ OutAvailable(w) = RingSize - (sent[w] - got[w]) /\ OutAvailable(w) \in 0 .. RingSize
<1> DEFINE S == sent[w]
<1> DEFINE G == got[w]
<1>1. S \in Nat /\ G \in Nat /\ G <= S /\ S - G <= RingSize  BY DEF RingsTypeOK, RingInv
<1>2. prod[w] = S % Width /\ cons[w] = G % Width  BY DEF RingInv
<1> HIDE DEF S, G
<1>3. InAvailable(w) = S - G
  <2>0. S \in Int /\ G \in Int  BY <1>1
  <2>1. ((S % Width) - (G % Width)) % Width = (S - G) % Width  BY <2>0, Sizes, Early
  <2>2. S - G \in 0 .. Width - 1 /\ S - G \in Int  BY <1>1, Sizes
  <2>3. (S - G) % Width = S - G  BY <2>2, Sizes, Early
  <2> QED  BY <1>2, <2>1, <2>3 DEF InAvailable
<1>4. OutAvailable(w) = RingSize - (S - G)
  <2> DEFINE g == G % Width
  <2>0. g \in Int  BY <1>1, Sizes, Division
  <2>1. ((g + RingSize) - (S % Width)) % Width = ((g + RingSize) - S) % Width
    <3>1. g + RingSize \in Int /\ S \in Int  BY <1>1, <2>0, Sizes
    <3> HIDE DEF g
    <3> QED  BY <3>1, Sizes, Early
  <2>2. (g + RingSize) - S = g + (RingSize - S)  BY <1>1, <2>0, Sizes
  <2>3. (g + (RingSize - S)) % Width = (G + (RingSize - S)) % Width
    <3>1. G \in Int /\ RingSize - S \in Int  BY <1>1, Sizes
    <3> QED  BY <3>1, Sizes, Early
  <2>4. G + (RingSize - S) = RingSize - (S - G)  BY <1>1, Sizes
  <2>5. RingSize - (S - G) \in 0 .. Width - 1 /\ RingSize - (S - G) \in Int  BY <1>1, Sizes
  <2>6. (RingSize - (S - G)) % Width = RingSize - (S - G)  BY <2>5, Sizes, Early
  <2>7. OutAvailable(w) = ((g + RingSize) - (S % Width)) % Width
    <3>1. OutAvailable(w) = (cons[w] + (RingSize - prod[w])) % Width  BY DEF OutAvailable
    <3>2. g + (RingSize - (S % Width)) = (g + RingSize) - (S % Width)
      <4>1. g \in Int /\ (S % Width) \in Int /\ RingSize \in Int  BY <1>1, <2>0, Sizes, Division
      <4> QED  BY <4>1
    <3> QED  BY <1>2, <3>1, <3>2
  <2>8. OutAvailable(w) = (G + (RingSize - S)) % Width  BY <2>1, <2>2, <2>3, <2>7
  <2> QED  BY <2>4, <2>6, <2>8
<1>5. S - G \in 0 .. RingSize /\ RingSize - (S - G) \in 0 .. RingSize  BY <1>1, Sizes
<1> QED  BY <1>3, <1>4, <1>5 DEF S, G

\* ConsoleCopyToOut and the backend write as much as there is room for: the
\* bytes that were there stay, and the new ones follow.
LEMMA PutStep ==
  ASSUME RingsInv, NEW w \in Way, NEW n \in Nat, n <= OutAvailable(w), Put(w, n)
  PROVE  RingsInv'
<1> DEFINE S == sent[w]
<1> DEFINE G == got[w]
<1>0. RingsTypeOK /\ RingInv(w)  BY DEF RingsInv
<1>1. S \in Nat /\ G \in Nat /\ G <= S /\ S - G <= RingSize  BY <1>0 DEF RingsTypeOK, RingInv
<1>2. prod[w] = S % Width /\ cons[w] = G % Width  BY <1>0 DEF RingInv
<1>3. n <= RingSize - (S - G)  BY <1>0, Availability
<1>4. /\ sent' = [sent EXCEPT ![w] = @ + n] /\ prod' = [prod EXCEPT ![w] = (@ + n) % Width]
      /\ data' = [data EXCEPT ![w] = [i \in DOMAIN data[w] |->
           IF \E k \in 0 .. n - 1 : (prod[w] + k) % RingSize = i
           THEN (sent[w] + ((i - prod[w]) % RingSize)) % Width ELSE data[w][i]]]
      /\ UNCHANGED <<cons, got, garbled>>
  BY DEF Put
<1>5. DOMAIN data[w] = 0 .. RingSize - 1  BY <1>0 DEF RingsTypeOK
<1>6. /\ sent'[w] = S + n /\ prod'[w] = ((S % Width) + n) % Width
      /\ data'[w] = [i \in 0 .. RingSize - 1 |->
           IF \E k \in 0 .. n - 1 : ((S % Width) + k) % RingSize = i
           THEN (S + ((i - (S % Width)) % RingSize)) % Width ELSE data[w][i]]
      /\ \A v \in Way : v # w => sent'[v] = sent[v] /\ prod'[v] = prod[v] /\ data'[v] = data[v]
  BY <1>0, <1>2, <1>4, <1>5 DEF RingsTypeOK
<1> HIDE DEF S, G
<1>7. RingsTypeOK'
  <2>1. S + n \in Nat /\ prod'[w] \in Int
    <3> DEFINE x == (S % Width) + n
    <3>1. x \in Int  BY <1>1, Sizes, Division
    <3>2. prod'[w] = x % Width  BY <1>6
    <3> HIDE DEF x
    <3>3. x % Width \in 0 .. Width - 1  BY <3>1, Sizes, Division
    <3> QED  BY <1>1, <3>2, <3>3, Sizes
  <2>2. data'[w] \in [0 .. RingSize - 1 -> Int]
    <3>1. ASSUME NEW i \in 0 .. RingSize - 1 PROVE (S + ((i - (S % Width)) % RingSize)) % Width \in Int
      <4>1. i - (S % Width) \in Int  BY <1>1, Sizes, Division
      <4>2. (i - (S % Width)) % RingSize \in Int  BY <4>1, Sizes, Division
      <4>3. S + ((i - (S % Width)) % RingSize) \in Int  BY <1>1, <4>2
      <4> QED  BY <4>3, Sizes, Division
    <3>2. \A i \in 0 .. RingSize - 1 : data[w][i] \in Int  BY <1>0 DEF RingsTypeOK
    <3> QED  BY <1>6, <3>1, <3>2
  <2>3. sent' \in [Way -> Nat]  BY <1>0, <1>4, <1>6, <2>1 DEF RingsTypeOK
  <2>4. prod' \in [Way -> Int]  BY <1>0, <1>4, <1>6, <2>1 DEF RingsTypeOK
  <2>5. data' \in [Way -> [0 .. RingSize - 1 -> Int]]  BY <1>0, <1>4, <1>6, <2>2 DEF RingsTypeOK
  <2> QED  BY <1>0, <1>4, <2>3, <2>4, <2>5 DEF RingsTypeOK
<1>8. \A v \in Way : v # w => RingInv(v)'
  BY <1>4, <1>6 DEF RingsInv, RingInv
<1>9. \A k \in 0 .. n - 1 :
        /\ ((S % Width) + k) % RingSize = (S + k) % RingSize
        /\ (((S + k) % RingSize) - (S % Width)) % RingSize = k
  <2>1. ASSUME NEW k \in 0 .. n - 1
        PROVE  /\ ((S % Width) + k) % RingSize = (S + k) % RingSize
               /\ (((S + k) % RingSize) - (S % Width)) % RingSize = k
    <3> DEFINE s == S % Width
    <3>1. s \in Int /\ k \in Int /\ S \in Int /\ S + k \in Int  BY <1>1, Sizes, Division
    <3>2. s % RingSize = S % RingSize  BY <3>1, Place
    <3> HIDE DEF s
    <3>3. (s + k) % RingSize = ((s % RingSize) + k) % RingSize  BY <3>1, Sizes, Early
    <3>4. ((S % RingSize) + k) % RingSize = (S + k) % RingSize  BY <3>1, Sizes, Early
    <3>5. (s + k) % RingSize = (S + k) % RingSize  BY <3>2, <3>3, <3>4
    <3>6. (((s + k) % RingSize) - s) % RingSize = ((s + k) - s) % RingSize
      <4>1. s + k \in Int /\ -s \in Int  BY <3>1
      <4>2. (((s + k) % RingSize) + (-s)) % RingSize = ((s + k) + (-s)) % RingSize  BY <4>1, Sizes, Early
      <4>3. (s + k) % RingSize \in Int  BY <4>1, Sizes, Division
      <4>4. ((s + k) % RingSize) + (-s) = ((s + k) % RingSize) - s /\ (s + k) + (-s) = (s + k) - s
        BY <3>1, <4>3
      <4> QED  BY <4>2, <4>4
    <3>7. (s + k) - s = k  BY <3>1
    <3>8. k % RingSize = k
      <4>1. k \in 0 .. RingSize - 1  BY <1>1, <1>3, Sizes
      <4> QED  BY <3>1, <4>1, Sizes, Early
    <3>9. (((S + k) % RingSize) - s) % RingSize = k  BY <3>5, <3>6, <3>7, <3>8
    <3> QED  BY <3>5, <3>9 DEF s
  <2> QED  BY <2>1
<1>10. ASSUME NEW j \in G .. (S + n) - 1 PROVE data'[w][j % RingSize] = j % Width
  <2>0. j \in Nat /\ j % RingSize \in 0 .. RingSize - 1  BY <1>1, Sizes, Division
  <2>1. CASE j < S
    <3>1. \A k \in 0 .. n - 1 : (S + k) % RingSize # j % RingSize
      <4>1. ASSUME NEW k \in 0 .. n - 1 PROVE (S + k) % RingSize # j % RingSize
        <5>1. j \in Int /\ S + k \in Int /\ j < S + k /\ (S + k) - j < RingSize
          BY <1>1, <1>3, <2>0, <2>1, Sizes
        <5> QED  BY <5>1, Sizes, Distinct
      <4> QED  BY <4>1
    <3>2. data'[w][j % RingSize] = data[w][j % RingSize]  BY <1>6, <1>9, <2>0, <3>1
    <3>3. j \in got[w] .. sent[w] - 1  BY <1>1, <2>0, <2>1 DEF S, G
    <3> QED  BY <1>0, <3>2, <3>3 DEF RingInv
  <2>2. CASE j >= S
    <3> DEFINE k == j - S
    <3>1. k \in 0 .. n - 1 /\ S + k = j  BY <1>1, <2>0, <2>2
    <3> HIDE DEF k
    <3>2. ((S % Width) + k) % RingSize = j % RingSize  BY <1>9, <3>1
    <3>3. ((j % RingSize) - (S % Width)) % RingSize = k  BY <1>9, <3>1
    <3> QED  BY <1>6, <2>0, <3>1, <3>2, <3>3
  <2> QED  BY <1>1, <2>0, <2>1, <2>2
<1>11. RingInv(w)'
  <2>1. prod'[w] = sent'[w] % Width
    <3>1. S \in Int /\ n \in Int  BY <1>1
    <3>2. ((S % Width) + n) % Width = (S + n) % Width  BY <3>1, Sizes, Early
    <3> QED  BY <1>6, <3>2
  <2>2. cons'[w] = got'[w] % Width /\ got'[w] = G  BY <1>2, <1>4 DEF G
  <2>3. got'[w] <= sent'[w] /\ sent'[w] - got'[w] <= RingSize  BY <1>1, <1>3, <1>6, <2>2, Sizes
  <2> QED  BY <1>6, <1>10, <2>1, <2>2, <2>3 DEF RingInv
<1> QED  BY <1>4, <1>7, <1>8, <1>11 DEF RingsInv

\* ConsoleCopyFromIn and the backend read the oldest bytes.
LEMMA TakeStep ==
  ASSUME RingsInv, NEW w \in Way, NEW n \in Nat, n <= InAvailable(w), Take(w, n)
  PROVE  RingsInv'
<1> DEFINE S == sent[w]
<1> DEFINE G == got[w]
<1>0. RingsTypeOK /\ RingInv(w)  BY DEF RingsInv
<1>1. S \in Nat /\ G \in Nat /\ G <= S /\ S - G <= RingSize  BY <1>0 DEF RingsTypeOK, RingInv
<1>2. cons[w] = G % Width  BY <1>0 DEF RingInv
<1>3. n <= S - G  BY <1>0, Availability
<1>4. /\ got' = [got EXCEPT ![w] = @ + n] /\ cons' = [cons EXCEPT ![w] = (@ + n) % Width]
      /\ garbled' = (garbled \/ \E k \in 0 .. n - 1 : data[w][(cons[w] + k) % RingSize] # (got[w] + k) % Width)
      /\ UNCHANGED <<data, prod, sent>>
  BY DEF Take
<1>5. /\ got'[w] = G + n /\ cons'[w] = ((G % Width) + n) % Width
      /\ \A v \in Way : v # w => got'[v] = got[v] /\ cons'[v] = cons[v]
  BY <1>0, <1>2, <1>4 DEF RingsTypeOK
<1> HIDE DEF S, G
<1>6. \A k \in 0 .. n - 1 : data[w][((G % Width) + k) % RingSize] = (G + k) % Width
  <2>1. ASSUME NEW k \in 0 .. n - 1 PROVE data[w][((G % Width) + k) % RingSize] = (G + k) % Width
    <3> DEFINE g == G % Width
    <3>1. g \in Int /\ k \in Int /\ G \in Int  BY <1>1, Sizes, Division
    <3>2. g % RingSize = G % RingSize  BY <3>1, Place
    <3> HIDE DEF g
    <3>3. (g + k) % RingSize = ((g % RingSize) + k) % RingSize  BY <3>1, Sizes, Early
    <3>4. ((G % RingSize) + k) % RingSize = (G + k) % RingSize  BY <3>1, Sizes, Early
    <3>5. (g + k) % RingSize = (G + k) % RingSize  BY <3>2, <3>3, <3>4
    <3>6. G + k \in got[w] .. sent[w] - 1  BY <1>1, <1>3 DEF S, G
    <3> QED  BY <1>0, <3>5, <3>6 DEF RingInv, g
  <2> QED  BY <2>1
<1>7. ~garbled'  BY <1>2, <1>4, <1>6 DEF RingsInv, G
<1>8. RingsTypeOK'
  <2>1. G + n \in Nat /\ cons'[w] \in Int
    <3>1. G \in Int /\ n \in Nat /\ G + n \in Nat  BY <1>1
    <3>2. G % Width \in Int  BY <3>1, Sizes, Division
    <3> DEFINE z == (G % Width) + n
    <3>3. z \in Int  BY <3>1, <3>2
    <3> HIDE DEF z
    <3>4. z % Width \in Int  BY <3>3, Sizes, Division
    <3>5. cons'[w] = z % Width  BY <1>5 DEF z
    <3> QED  BY <3>1, <3>4, <3>5
  <2>2. got' \in [Way -> Nat]  BY <1>0, <1>4, <1>5, <2>1 DEF RingsTypeOK
  <2>3. cons' \in [Way -> Int]  BY <1>0, <1>4, <1>5, <2>1 DEF RingsTypeOK
  <2> QED  BY <1>0, <1>4, <2>2, <2>3 DEF RingsTypeOK
<1>9. \A v \in Way : v # w => RingInv(v)'
  BY <1>4, <1>5 DEF RingsInv, RingInv
<1>10. RingInv(w)'
  <2>1. cons'[w] = got'[w] % Width
    <3>1. G \in Int /\ n \in Int  BY <1>1
    <3>2. ((G % Width) + n) % Width = (G + n) % Width  BY <3>1, Sizes, Early
    <3> QED  BY <1>5, <3>2
  <2>2. prod'[w] = sent'[w] % Width /\ sent'[w] = S  BY <1>0, <1>4 DEF S, RingInv
  <2>3. got'[w] <= sent'[w] /\ sent'[w] - got'[w] <= RingSize  BY <1>1, <1>3, <1>5, <2>2, Sizes
  <2>4. \A k \in G + n .. S - 1 : k \in got[w] .. sent[w] - 1  BY <1>1 DEF S, G
  <2>5. \A k \in got'[w] .. sent'[w] - 1 : data'[w][k % RingSize] = k % Width
    BY <1>0, <1>4, <1>5, <2>2, <2>4 DEF RingInv
  <2> QED  BY <2>1, <2>2, <2>3, <2>5 DEF RingInv
<1> QED  BY <1>7, <1>8, <1>9, <1>10 DEF RingsInv

-----------------------------------------------------------------------------
(* Wakeups.                                                                *)

\* A ring that stays as it is has as much in it, and as much room.
LEMMA RingSame ==
  ASSUME UNCHANGED <<prod, cons>>
  PROVE  \A w \in Way : /\ InAvailable(w)' = InAvailable(w) /\ OutAvailable(w)' = OutAvailable(w)
                        /\ Available(w)' = Available(w)
BY DEF InAvailable, OutAvailable, Available

\* The other ring stays as it is.
LEMMA OtherSame ==
  ASSUME RingsTypeOK, NEW w \in Way, NEW n, Put(w, n) \/ Take(w, n)
  PROVE  \A v \in Way : v # w => /\ InAvailable(v)' = InAvailable(v)
                                 /\ OutAvailable(v)' = OutAvailable(v) /\ Available(v)' = Available(v)
<1>1. \A v \in Way : v # w => prod'[v] = prod[v] /\ cons'[v] = cons[v]
  BY DEF Put, Take, RingsTypeOK
<1> QED  BY <1>1 DEF InAvailable, OutAvailable, Available

\* ConsoleRead and ConsoleWrite move no more than there is.
LEMMA Quantity ==
  ASSUME RingsInv, NEW w \in Way, NEW length \in 1 .. RingSize
  PROVE  /\ Fewer(length, InAvailable(w)) \in Nat /\ Fewer(length, InAvailable(w)) <= InAvailable(w)
         /\ Fewer(length, OutAvailable(w)) \in Nat /\ Fewer(length, OutAvailable(w)) <= OutAvailable(w)
<1>1. InAvailable(w) \in Nat /\ OutAvailable(w) \in Nat  BY Availability, Sizes DEF RingsInv
<1>2. length \in Nat  BY Sizes
<1> QED  BY <1>1, <1>2 DEF Fewer

\* Every step keeps the invariant.
LEMMA ConsoleStep == ASSUME ConsoleIInv, [ConsoleNext]_consoleVars PROVE ConsoleIInv'
<1> USE DEF ConsoleIInv
<1>0. RingsTypeOK /\ "in" \in Way /\ "out" \in Way  BY DEF RingsInv, Way
<1>1. ASSUME NEW length \in 1 .. RingSize, ConsoleRead(length) PROVE ConsoleIInv'
  <2> DEFINE n == Fewer(length, InAvailable("in"))
  <2>1. n \in Nat /\ n <= InAvailable("in")  BY <1>0, Quantity
  <2>2. /\ Take("in", n) /\ wakeup["in"] = "running" /\ notifying' = {"in"} /\ Unlocked
        /\ UNCHANGED <<wakeupVars, dpc, port, backend, owed, migrations>>
    BY <1>1 DEF ConsoleRead
  <2>3. RingsInv'  BY <1>0, <2>1, <2>2, TakeStep
  <2>4. /\ InAvailable("out")' = InAvailable("out") /\ Available("out")' = Available("out")
    BY <1>0, <2>2, OtherSame
  <2>5. WakeupComes'  BY <2>2, <2>4 DEF WakeupComes, Way, wakeupVars, Unlocked
  <2> QED  BY <2>2, <2>3, <2>5 DEF ClientsTypeOK, wakeupVars
<1>2. ASSUME NEW length \in 1 .. RingSize, ConsoleWrite(length) PROVE ConsoleIInv'
  <2> DEFINE n == Fewer(length, OutAvailable("out"))
  <2>1. n \in Nat /\ n <= OutAvailable("out")  BY <1>0, Quantity
  <2>2. /\ Put("out", n) /\ wakeup["out"] = "running" /\ notifying' = {"out"} /\ Unlocked
        /\ UNCHANGED <<wakeupVars, dpc, port, backend, owed, migrations>>
    BY <1>2 DEF ConsoleWrite
  <2>3. RingsInv'  BY <1>0, <2>1, <2>2, PutStep
  <2>4. Available("in")' = Available("in")  BY <1>0, <2>2, OtherSame
  <2>5. WakeupComes'  BY <2>2, <2>4 DEF WakeupComes, Way, wakeupVars, Unlocked
  <2> QED  BY <2>2, <2>3, <2>5 DEF ClientsTypeOK, wakeupVars
<1>3. ASSUME UNCHANGED ringVars PROVE RingsInv'
  BY <1>3 DEF ringVars, RingsInv, RingsTypeOK, RingInv
<1>4. CASE ConsoleSend
  <2>1. /\ UNCHANGED <<ringVars, wakeupVars, dpc, port, owed>> /\ backend' = TRUE
    BY <1>4 DEF ConsoleSend
  <2>2. WakeupComes'  BY <2>1, RingSame DEF WakeupComes, ringVars, wakeupVars
  <2> QED  BY <1>3, <2>1, <2>2 DEF ClientsTypeOK, wakeupVars
<1>5. ASSUME NEW w \in Way, ConsoleCan(w) \/ Woken(w) \/ ConsoleWakeupAdd(w) \/ ConsoleWakeupRemove(w)
      PROVE  ConsoleIInv'
  <2>1. /\ UNCHANGED <<ringVars, notifyVars>>
        /\ \A v \in Way : v # w => wakeup'[v] = wakeup[v] /\ (v \in event' <=> v \in event)
        /\ wakeup'[w] = "waiting" => Available(w) = 0
        /\ ClientsTypeOK'
    <3>1. CASE ConsoleCan(w)
      <4>1. /\ wakeup' = [wakeup EXCEPT ![w] = "waiting"] /\ Available(w) = 0 /\ UNCHANGED <<ringVars, event, notifyVars>>
        BY <3>1 DEF ConsoleCan
      <4> QED  BY <4>1 DEF ClientsTypeOK
    <3>2. CASE Woken(w)
      <4>1. /\ wakeup' = [wakeup EXCEPT ![w] = "running"] /\ event' = event \ {w} /\ UNCHANGED <<ringVars, notifyVars>>
        BY <3>2 DEF Woken
      <4> QED  BY <4>1 DEF ClientsTypeOK
    <3>3. CASE ConsoleWakeupAdd(w)
      <4>1. /\ wakeup' = [wakeup EXCEPT ![w] = "running"] /\ UNCHANGED <<ringVars, event, notifyVars>>
        BY <3>3 DEF ConsoleWakeupAdd
      <4> QED  BY <4>1 DEF ClientsTypeOK
    <3>4. CASE ConsoleWakeupRemove(w)
      <4>1. /\ wakeup' = [wakeup EXCEPT ![w] = "none"] /\ event' = event \ {w} /\ UNCHANGED <<ringVars, notifyVars>>
        BY <3>4 DEF ConsoleWakeupRemove
      <4> QED  BY <4>1 DEF ClientsTypeOK
    <3> QED  BY <1>5, <3>1, <3>2, <3>3, <3>4
  <2>2. \A v \in Way : InAvailable(v)' = InAvailable(v) /\ Available(v)' = Available(v)
    BY <2>1, RingSame DEF ringVars
  <2>3. ASSUME NEW v \in Way, wakeup'[v] = "waiting", Available(v)' > 0
        PROVE  v \in event' \/ dpc' \/ port' \/ owed'
    <3>1. CASE v = w
      <4>1. Available(w) = 0  BY <2>1, <2>3, <3>1
      <4>2. ~(0 > 0)  OBVIOUS
      <4> QED  BY <2>2, <2>3, <3>1, <4>1, <4>2
    <3>2. CASE v # w
      <4>1. v \in event \/ dpc \/ port \/ owed  BY <2>1, <2>2, <2>3, <3>2 DEF WakeupComes
      <4> QED  BY <2>1, <3>2, <4>1 DEF notifyVars
    <3> QED  BY <3>1, <3>2
  <2>4. ~backend' /\ InAvailable("out")' > 0 => ~Unlocked'
    BY <1>0, <2>1, <2>2 DEF WakeupComes, notifyVars, Unlocked
  <2>5. WakeupComes'  BY <2>3, <2>4 DEF WakeupComes
  <2> QED  BY <1>3, <2>1, <2>5
<1>6. CASE ConsoleEvtchnCallback
  <2>1. UNCHANGED <<ringVars, wakeupVars, notifying, backend, owed, migrations>> /\ dpc' = TRUE
    BY <1>6 DEF ConsoleEvtchnCallback
  <2>2. WakeupComes'  BY <1>0, <2>1, RingSame DEF WakeupComes, ringVars, wakeupVars, Unlocked
  <2> QED  BY <1>3, <2>1, <2>2 DEF ClientsTypeOK, wakeupVars
<1>7. CASE ConsoleDpc
  <2>1. /\ UNCHANGED <<ringVars, wakeup, notifying, port, backend, owed, migrations>>
        /\ event' = {w \in Way : wakeup[w] # "none"}
    BY <1>7 DEF ConsoleDpc, ConsolePoll
  <2>2. \A w \in Way : wakeup'[w] = "waiting" => w \in event'  BY <2>1
  <2>3. WakeupComes'  BY <1>0, <2>1, <2>2, RingSame DEF WakeupComes, ringVars, Unlocked
  <2> QED  BY <1>3, <2>1, <2>3 DEF ClientsTypeOK
<1>8. CASE ConsoleSuspendCallbackLate
  <2>1. /\ UNCHANGED <<ringVars, wakeupVars, notifying>> /\ dpc' = TRUE /\ backend' = TRUE
    BY <1>8 DEF ConsoleSuspendCallbackLate, ConsoleEnable
  <2>2. WakeupComes'  BY <2>1 DEF WakeupComes
  <2> QED  BY <1>3, <2>1, <2>2 DEF ClientsTypeOK, wakeupVars
<1>9. CASE BackendMoves
  <2>1. /\ backend /\ owed' = TRUE /\ UNCHANGED <<wakeupVars, notifying, dpc, port, backend, migrations>>
        /\ \/ InAvailable("out") > 0 /\ Take("out", 1)
           \/ OutAvailable("in") > 0 /\ Put("in", 1)
    BY <1>9 DEF BackendMoves
  <2>2. RingsInv'
    <3>1. InAvailable("out") \in Nat /\ OutAvailable("in") \in Nat
      BY <1>0, Availability, Sizes DEF RingsInv
    <3>2. 1 \in Nat /\ (InAvailable("out") > 0 => 1 <= InAvailable("out"))
            /\ (OutAvailable("in") > 0 => 1 <= OutAvailable("in"))
      BY <3>1
    <3> QED  BY <1>0, <2>1, <3>2, TakeStep, PutStep
  <2>3. WakeupComes'  BY <2>1 DEF WakeupComes
  <2> QED  BY <2>1, <2>2, <2>3 DEF ClientsTypeOK, wakeupVars
<1>10. CASE BackendNotifies
  <2>1. UNCHANGED <<ringVars, wakeupVars, notifying, dpc, backend, migrations>> /\ port' = TRUE
    BY <1>10 DEF BackendNotifies
  <2>2. WakeupComes'  BY <1>0, <2>1, RingSame DEF WakeupComes, ringVars, wakeupVars, Unlocked
  <2> QED  BY <1>3, <2>1, <2>2 DEF ClientsTypeOK, wakeupVars
<1>11. CASE BackendSleeps
  <2>1. UNCHANGED <<ringVars, wakeupVars, notifying, dpc, port, owed, migrations>> /\ InAvailable("out") = 0
    BY <1>11 DEF BackendSleeps
  <2>2. ~(InAvailable("out")' > 0)
    <3>1. ~(0 > 0)  OBVIOUS
    <3> QED  BY <1>0, <2>1, <3>1, RingSame DEF ringVars
  <2>3. WakeupComes'  BY <2>1, <2>2, RingSame DEF WakeupComes, ringVars, wakeupVars
  <2> QED  BY <1>3, <2>1, <2>3 DEF ClientsTypeOK, wakeupVars
<1>12. CASE UNCHANGED consoleVars
  <2>1. UNCHANGED <<ringVars, wakeupVars, notifying, dpc, port, owed, backend>>
    BY <1>12 DEF consoleVars, ringVars, wakeupVars
  <2>2. WakeupComes'  BY <1>0, <2>1, RingSame DEF WakeupComes, ringVars, wakeupVars, Unlocked
  <2> QED  BY <1>3, <2>1, <2>2 DEF ClientsTypeOK, wakeupVars
<1> QED
  BY <1>1, <1>2, <1>4, <1>5, <1>6, <1>7, <1>8, <1>9, <1>10, <1>11, <1>12 DEF ConsoleNext

\* Bytes come out of each ring in the order they went in, none lost or
\* repeated across the wrap of the indices, and a client that waits while
\* there is something to do has been woken or is about to be: ConsoleRead,
\* ConsoleWrite, the DPC and the backend for any size of the ring.
THEOREM BytesArriveAndWake == ConsoleSpec => []ConsoleInv
<1>1. ConsoleInit => ConsoleIInv
  <2>1. ASSUME ConsoleInit PROVE ConsoleIInv
    <3>0. \A w \in Way : sent[w] = 0 /\ got[w] = 0 /\ prod[w] = 0 /\ cons[w] = 0 /\ wakeup[w] = "none"
      BY <2>1 DEF ConsoleInit
    <3>1. 0 \in Int /\ 0 \in 0 .. Width - 1 /\ 0 % Width = 0
      <4>1. 0 \in Int /\ 0 \in 0 .. Width - 1  BY Sizes
      <4> QED  BY <4>1, Sizes, Early
    <3>2. RingsTypeOK
      <4>1. [i \in 0 .. RingSize - 1 |-> 0] \in [0 .. RingSize - 1 -> Int]  OBVIOUS
      <4> QED  BY <2>1, <4>1 DEF ConsoleInit, RingsTypeOK
    <3>3. \A w \in Way : RingInv(w)
      <4>1. 0 .. 0 - 1 = {} /\ 0 <= 0 /\ 0 - 0 <= RingSize  BY Sizes
      <4> QED  BY <3>0, <3>1, <4>1 DEF RingInv
    <3>4. WakeupComes /\ ClientsTypeOK /\ ~garbled
      BY <2>1, <3>0 DEF ConsoleInit, WakeupComes, ClientsTypeOK
    <3> QED  BY <3>2, <3>3, <3>4 DEF ConsoleIInv, RingsInv
  <2> QED  BY <2>1
<1>2. ConsoleIInv /\ [ConsoleNext]_consoleVars => ConsoleIInv'  BY ConsoleStep
<1>3. ConsoleIInv => ConsoleInv
  <2>1. ASSUME ConsoleIInv PROVE ConsoleInv
    <3>1. \A w \in Way : /\ got[w] <= sent[w] /\ sent[w] - got[w] = InAvailable(w) /\ InAvailable(w) <= RingSize
      <4>1. ASSUME NEW w \in Way
            PROVE  got[w] <= sent[w] /\ sent[w] - got[w] = InAvailable(w) /\ InAvailable(w) <= RingSize
        <5>1. RingsTypeOK /\ RingInv(w)  BY <2>1 DEF ConsoleIInv, RingsInv
        <5>2. InAvailable(w) = sent[w] - got[w] /\ InAvailable(w) \in 0 .. RingSize  BY <5>1, Availability
        <5> QED  BY <5>1, <5>2, Sizes DEF RingInv
      <4> QED  BY <4>1
    <3> QED  BY <2>1, <3>1 DEF ConsoleIInv, RingsInv, ConsoleInv, StreamsIntact
  <2> QED  BY <2>1
<1> QED  BY <1>1, <1>2, <1>3, PTL DEF ConsoleSpec

-----------------------------------------------------------------------------
(* The filter driver.                                                      *)

PnpState == {"None", "Present", "Enumerated", "Added", "Started", "StopPending", "Stopped",
             "RemovePending", "SurpriseRemovePending", "Deleted"}
Dx == [pnp : PnpState, prev : PnpState, power : {"D0", "D3"}, system : {"S0", "S4"}]

\* A bus that may be queried, or become so again without a start; a device that got requests.
Asking == {"Started", "StopPending", "RemovePending"}
Reported == Asking \cup {"Enumerated", "Stopped", "SurpriseRemovePending"}

\* What a state says of the one before it, and of the power.
DxOK(dx) ==
  /\ dx \in Dx
  /\ dx.pnp \in {"StopPending", "RemovePending"} => dx.prev = "Started"
  /\ dx.pnp = "SurpriseRemovePending" => dx.prev \in {"Started", "Stopped"}
  /\ dx.pnp \in {"Added", "Stopped"} => dx.power = "D3"
  /\ dx.pnp = "SurpriseRemovePending" /\ dx.prev = "Stopped" => dx.power = "D3"

BusRecord == [dx : Dx, references : Int, enumerated : BOOLEAN]
DeviceRecord == [dx : Dx, missing : BOOLEAN, object : BOOLEAN,
                 active : {"neutral", "registry", "forced", "deactivated"}, known : BOOLEAN]
FilterTypes ==
  /\ FilterState \in {"ENABLED", "PENDING", "DISABLED"} /\ unplugged \in BOOLEAN /\ oneBus \in BOOLEAN
  /\ bus \in [Bus -> BusRecord] /\ device \in [Device -> DeviceRecord]
  /\ query \in [Bus -> [at : {"idle", "lower", "enumerated", "set"}, found : SUBSET Device]]
  /\ onBus \in SUBSET Device /\ ejecting \in SUBSET Device
  /\ \A b \in Bus : DxOK(bus[b].dx)
  /\ \A d \in Device : DxOK(device[d].dx)

Below(b) == {d \in Device : BusOf[d] = b}
References(b) ==
  bus[b].references = Cardinality(Children(b)) + (IF bus[b].dx.pnp \in {"None", "Deleted"} THEN 0 ELSE 1)

BusOK(b) ==
  /\ References(b)
  /\ bus[b].dx.pnp \notin {"Enumerated", "Present"}
  /\ bus[b].dx.pnp = "None" => bus[b] = NoBus
  /\ query[b].found \in SUBSET Below(b)
  /\ query[b].at # "idle" => bus[b].dx.pnp = "Started" /\ ejecting \cap Below(b) = {}
  /\ FilterState # "DISABLED" /\ bus[b].dx.pnp \in Asking /\ bus[b].enumerated /\ b \notin failed =>
       b \in invalid \/ query[b].at # "idle"

\* A device that is missing stays away as long as it is on the list, also from a query under
\* way; one that a query did not find has left.
DeviceOK(d) ==
  LET b == BusOf[d] IN
  /\ device[d].dx.pnp = "None" => device[d] = NoDevice
  /\ device[d].dx.pnp # "Added"
  /\ device[d].known => device[d].dx.pnp \in Reported
  /\ device[d].dx.pnp = "Deleted" => device[d].missing
  /\ d \in ejecting => device[d].dx.pnp = "Deleted" /\ ~device[d].known
  /\ device[d].missing /\ d \notin ejecting => d \notin onBus /\ (query[b].at = "lower" => d \notin query[b].found)
  /\ query[b].at = "lower" /\ device[d].dx.pnp # "None" /\ d \notin query[b].found => d \notin onBus
  /\ FilterState # "DISABLED" => ~device[d].known

\* An emulated device that was unplugged is found by no query, so that a query that looks at its
\* list takes the device for missing.
UnpluggedOK(d) ==
  LET b == BusOf[d] IN
  oneBus /\ unplugged =>
    /\ d \notin onBus
    /\ query[b].at = "lower" => d \notin query[b].found
    /\ device[d].known /\ ~device[d].missing => b \in failed
    /\ \/ query[b].at = "enumerated"
       \/ query[b].at = "set" /\ FilterState = "DISABLED"
       => b \in failed \/ device[d].dx.pnp = "None" \/ device[d].missing

MineOK(b) == /\ BusOK(b)
             /\ \A d \in Below(b) : DeviceOK(d)
             /\ \A d \in Below(b) \cap Emulated : UnpluggedOK(d)

OneQuery == oneBus => \A b, c \in Bus : query[b].at # "idle" /\ query[c].at # "idle" => b = c

FilterIInv == FilterTypes /\ OneQuery /\ ~violated /\ \A b \in Bus : MineOK(b)

\* Counting devices.
LEMMA Counted ==
  ASSUME NEW S, S \subseteq Device
  PROVE  IsFiniteSet(S) /\ Cardinality(S) \in Nat /\ (Cardinality(S) = 0 <=> S = {})
<1>1. IsFiniteSet(S)  BY FilterAssumption, FS_Subset
<1> QED  BY <1>1, FS_CardinalityType, FS_EmptySet

LEMMA Counting ==
  ASSUME NEW S, S \subseteq Device, NEW T, T \subseteq S, NEW U, U \subseteq Device, U \cap S = {}
  PROVE  Cardinality((S \ T) \cup U) = (Cardinality(S) - Cardinality(T)) + Cardinality(U)
<1>1. /\ IsFiniteSet(S) /\ Cardinality(S) \in Nat /\ IsFiniteSet(T) /\ Cardinality(T) \in Nat
      /\ IsFiniteSet(U) /\ Cardinality(U) \in Nat
  <2>1. T \subseteq Device  OBVIOUS
  <2> QED  BY <2>1, Counted
<1>2. IsFiniteSet(S \ T) /\ Cardinality(S \ T) = Cardinality(S) - Cardinality(S \cap T)
  BY <1>1, FS_Difference
<1>3. S \cap T = T /\ (S \ T) \cap U = {}  OBVIOUS
<1>4. Cardinality((S \ T) \cup U) = Cardinality(S \ T) + Cardinality(U) - Cardinality((S \ T) \cap U)
  BY <1>1, <1>2, FS_Union
<1>5. Cardinality((S \ T) \cap U) = 0  BY <1>3, FS_EmptySet
<1>6. Cardinality(S \ T) = Cardinality(S) - Cardinality(T)  BY <1>2, <1>3
<1> QED  BY <1>1, <1>4, <1>5, <1>6

\* What happens at one bus leaves the others alone.
LEMMA Elsewhere ==
  ASSUME FilterIInv, NEW b \in Bus, UNCHANGED <<FilterState, unplugged, oneBus>>,
         \A c \in Bus \ {b} : /\ bus'[c] = bus[c] /\ query'[c] = query[c]
                              /\ (c \in invalid' <=> c \in invalid) /\ (c \in failed' <=> c \in failed),
         \A d \in Device \ Below(b) : /\ device'[d] = device[d]
                                    /\ (d \in onBus' <=> d \in onBus) /\ (d \in ejecting' <=> d \in ejecting),
         FilterTypes', OneQuery', ~violated', MineOK(b)'
  PROVE  FilterIInv'
<1> SUFFICES ASSUME NEW c \in Bus \ {b} PROVE MineOK(c)'
  BY DEF FilterIInv
<1>1. \A d \in Below(c) : d \in Device \ Below(b) /\ BusOf[d] = c  BY DEF Below
<1>2. MineOK(c)  BY DEF FilterIInv
<1>3. Children(c)' = Children(c)  BY <1>1 DEF Children, Below
<1>4. ejecting' \cap Below(c) = ejecting \cap Below(c)  BY <1>1
<1>5. bus'[c] = bus[c] /\ query'[c] = query[c]
  OBVIOUS
<1>6. BusOK(c)'  BY <1>2, <1>3, <1>4, <1>5 DEF MineOK, BusOK, References, Below
<1>7. \A d \in Below(c) : DeviceOK(d)'
  <2> SUFFICES ASSUME NEW d \in Below(c) PROVE DeviceOK(d)'
    OBVIOUS
  <2>1. /\ DeviceOK(d) /\ device'[d] = device[d] /\ query'[BusOf[d]] = query[BusOf[d]]
        /\ (d \in onBus' <=> d \in onBus) /\ (d \in ejecting' <=> d \in ejecting)
    BY <1>1, <1>2, <1>5 DEF MineOK
  <2> QED  BY <2>1 DEF DeviceOK
<1>8. \A d \in Below(c) \cap Emulated : UnpluggedOK(d)'
  <2> SUFFICES ASSUME NEW d \in Below(c) \cap Emulated PROVE UnpluggedOK(d)'
    OBVIOUS
  <2>1. /\ UnpluggedOK(d) /\ device'[d] = device[d] /\ query'[BusOf[d]] = query[BusOf[d]]
        /\ (d \in onBus' <=> d \in onBus) /\ (BusOf[d] \in failed' <=> BusOf[d] \in failed)
    BY <1>1, <1>2, <1>5 DEF MineOK
  <2> QED  BY <2>1 DEF UnpluggedOK
<1> QED  BY <1>6, <1>7, <1>8 DEF MineOK, Below

LEMMA FilterStart == ASSUME FilterInit PROVE FilterIInv
<1>1. /\ \A b \in Bus : bus[b] = NoBus /\ query[b] = [at |-> "idle", found |-> {}]
      /\ \A d \in Device : device[d] = NoDevice
      /\ FilterState = "ENABLED" /\ unplugged = FALSE /\ oneBus \in BOOLEAN /\ ~violated
      /\ onBus = Device /\ ejecting = {}
  BY DEF FilterInit
<1>2. NoDx \in Dx /\ DxOK(NoDx)  BY DEF NoDx, Dx, PnpState, DxOK
<1>3. FilterTypes
  <2>1. /\ NoBus \in BusRecord /\ NoDevice \in DeviceRecord
        /\ NoBus.dx = NoDx /\ NoDevice.dx = NoDx
    BY <1>2 DEF NoBus, NoDevice, BusRecord, DeviceRecord
  <2>2. /\ bus \in [Bus -> BusRecord] /\ device \in [Device -> DeviceRecord]
        /\ query \in [Bus -> [at : {"idle", "lower", "enumerated", "set"}, found : SUBSET Device]]
    BY <2>1 DEF FilterInit
  <2>3. (\A b \in Bus : DxOK(bus[b].dx)) /\ (\A d \in Device : DxOK(device[d].dx))
    BY <1>1, <1>2, <2>1
  <2>4. onBus \in SUBSET Device /\ ejecting \in SUBSET Device  BY <1>1
  <2> QED  BY <1>1, <2>2, <2>3, <2>4 DEF FilterTypes
<1>4. OneQuery  BY <1>1 DEF OneQuery
<1>5. ASSUME NEW b \in Bus PROVE MineOK(b)
  <2>1. Children(b) = {}  BY <1>1 DEF Children, NoDevice, NoDx
  <2>2. Cardinality({}) = 0  BY FS_EmptySet
  <2>3. BusOK(b)  BY <1>1, <2>1, <2>2 DEF BusOK, References, NoBus, NoDx, Asking
  <2>4. \A d \in Below(b) : DeviceOK(d) /\ UnpluggedOK(d)
    BY <1>1, FilterAssumption DEF DeviceOK, UnpluggedOK, NoDevice, NoDx, Below
  <2> QED  BY <2>3, <2>4 DEF MineOK
<1> QED  BY <1>1, <1>3, <1>4, <1>5 DEF FilterIInv

\* What requests make of the state of a bus or a device.
LEMMA Requested ==
  ASSUME NEW dx, DxOK(dx), NEW r \in StopRequests(dx) \cup RemoveRequests(dx), dx.pnp \in r.on
  PROVE  /\ DxOK(r.dx) /\ r.dx.system = dx.system
         /\ dx.pnp \in Reported \cup {"Added"} /\ r.dx.pnp \in Asking \cup {"Stopped", "SurpriseRemovePending"}
         /\ r.dx.pnp \in Asking /\ dx.pnp \notin Asking =>
              r.dx.pnp = "Started" /\ dx.pnp \in {"Enumerated", "Added", "Stopped"}
<1> DEFINE Claim(x) == /\ DxOK(x) /\ x.system = dx.system
                       /\ x.pnp \in Asking \cup {"Stopped", "SurpriseRemovePending"}
                       /\ x.pnp \in Asking /\ dx.pnp \notin Asking =>
                            x.pnp = "Started" /\ dx.pnp \in {"Enumerated", "Added", "Stopped"}
<1>0. dx \in Dx  BY DEF DxOK
<1>1. CASE r = [on |-> {"Enumerated", "Added", "Stopped"}, dx |-> StartDevice(dx)]
  <2>1. /\ StartDevice(dx) \in Dx /\ StartDevice(dx).pnp = "Started" /\ StartDevice(dx).system = dx.system
    BY <1>0 DEF StartDevice, SetPnp, Dx, PnpState
  <2>2. r.dx = StartDevice(dx) /\ dx.pnp \in {"Enumerated", "Added", "Stopped"}  BY <1>1
  <2> QED  BY <2>1, <2>2 DEF DxOK, Asking, Reported
<1>2. ASSUME NEW state \in {"StopPending", "RemovePending"}, r = [on |-> {"Started"}, dx |-> SetPnp(dx, state)]
      PROVE  Claim(r.dx) /\ dx.pnp = "Started"
  <2>1. r.dx = SetPnp(dx, state) /\ dx.pnp = "Started"  BY <1>2
  <2>2. /\ SetPnp(dx, state) \in Dx /\ SetPnp(dx, state).pnp = state /\ SetPnp(dx, state).prev = "Started"
        /\ SetPnp(dx, state).system = dx.system
    BY <1>0, <2>1 DEF SetPnp, Dx, PnpState
  <2> QED  BY <2>1, <2>2 DEF DxOK, Asking
<1>3. ASSUME NEW state \in {"StopPending", "RemovePending"}, r = [on |-> {state}, dx |-> RestorePnp(dx, state)]
      PROVE  Claim(r.dx) /\ dx.pnp = state
  <2>1. r.dx = RestorePnp(dx, state) /\ dx.pnp = state  BY <1>3
  <2>2. dx.prev = "Started"  BY <2>1 DEF DxOK
  <2>3. /\ RestorePnp(dx, state) \in Dx /\ RestorePnp(dx, state).pnp = "Started"
        /\ RestorePnp(dx, state).system = dx.system
    BY <1>0, <2>1, <2>2 DEF RestorePnp, Dx, PnpState
  <2> QED  BY <2>1, <2>3 DEF DxOK, Asking
<1>4. CASE r = [on |-> {"StopPending"}, dx |-> StopDevice(dx)]
  <2>1. /\ StopDevice(dx) \in Dx /\ StopDevice(dx).pnp = "Stopped" /\ StopDevice(dx).power = "D3"
        /\ StopDevice(dx).system = dx.system
    BY <1>0 DEF StopDevice, SetPnp, Dx, PnpState
  <2>2. r.dx = StopDevice(dx) /\ dx.pnp = "StopPending"  BY <1>4
  <2> QED  BY <2>1, <2>2 DEF DxOK, Asking, Reported
<1>5. CASE r = [on |-> {"Started", "Stopped"}, dx |-> SetPnp(dx, "SurpriseRemovePending")]
  <2> DEFINE x == SetPnp(dx, "SurpriseRemovePending")
  <2>1. r.dx = x /\ dx.pnp \in {"Started", "Stopped"}  BY <1>5
  <2>2. /\ x \in Dx /\ x.pnp = "SurpriseRemovePending" /\ x.prev = dx.pnp /\ x.power = dx.power
        /\ x.system = dx.system
    BY <1>0 DEF SetPnp, Dx, PnpState
  <2>3. dx.pnp = "Stopped" => dx.power = "D3"  BY DEF DxOK
  <2> HIDE DEF x
  <2> QED  BY <2>1, <2>2, <2>3 DEF DxOK, Asking, Reported
<1>6. \/ r = [on |-> {"Enumerated", "Added", "Stopped"}, dx |-> StartDevice(dx)]
      \/ \E state \in {"StopPending", "RemovePending"} : r = [on |-> {"Started"}, dx |-> SetPnp(dx, state)]
      \/ \E state \in {"StopPending", "RemovePending"} : r = [on |-> {state}, dx |-> RestorePnp(dx, state)]
      \/ r = [on |-> {"StopPending"}, dx |-> StopDevice(dx)]
      \/ r = [on |-> {"Started", "Stopped"}, dx |-> SetPnp(dx, "SurpriseRemovePending")]
  BY DEF StopRequests, RemoveRequests
<1>7. CASE \E state \in {"StopPending", "RemovePending"} : r = [on |-> {"Started"}, dx |-> SetPnp(dx, state)]
  BY <1>2, <1>7 DEF Asking, Reported
<1>8. CASE \E state \in {"StopPending", "RemovePending"} : r = [on |-> {state}, dx |-> RestorePnp(dx, state)]
  BY <1>3, <1>8 DEF Asking, Reported
<1> QED  BY <1>1, <1>4, <1>5, <1>6, <1>7, <1>8

\* The number of queries does not grow.
LEMMA Quiet ==
  ASSUME FilterIInv, UNCHANGED oneBus, \A c \in Bus : query'[c].at # "idle" => query[c].at # "idle"
  PROVE  OneQuery'
BY DEF FilterIInv, OneQuery

\* A request that leaves a bus on the list.
LEMMA BusRequest ==
  ASSUME FilterIInv, NEW b \in Bus, ~Busy(b), NEW dx, DxOK(dx),
         bus[b].dx.pnp \notin {"None", "Deleted"},
         dx.pnp \in Asking \cup {"Stopped", "SurpriseRemovePending"},
         bus' = [bus EXCEPT ![b].dx = dx],
         dx.pnp \in Asking => bus[b].dx.pnp \in Asking \/ b \in invalid',
         invalid \subseteq invalid', invalid' \subseteq invalid \cup {b},
         UNCHANGED <<driverVars, device, query, failed, onBus, ejecting, oneBus, violated>>
  PROVE  FilterIInv'
<1>0. /\ FilterTypes /\ MineOK(b) /\ BusOK(b) /\ ~violated  BY DEF FilterIInv, MineOK
<1>1. /\ UNCHANGED <<FilterState, unplugged, device, query, failed, onBus, ejecting, oneBus, violated>>
  BY DEF driverVars
<1>2. /\ bus'[b] = [bus[b] EXCEPT !.dx = dx] /\ \A c \in Bus \ {b} : bus'[c] = bus[c]
      /\ bus' \in [Bus -> BusRecord] /\ bus[b] \in BusRecord
  BY <1>0 DEF FilterTypes, BusRecord, DxOK
<1>3. bus'[b].dx = dx /\ bus'[b].references = bus[b].references /\ bus'[b].enumerated = bus[b].enumerated
  BY <1>2 DEF BusRecord
<1>4. \A c \in Bus : DxOK(bus'[c].dx)
  <2>1. \A c \in Bus : DxOK(bus[c].dx)  BY <1>0 DEF FilterTypes
  <2> QED  BY <1>2, <1>3, <2>1
<1>5. FilterTypes'  BY <1>0, <1>1, <1>2, <1>4 DEF FilterTypes
<1>6. OneQuery'  BY <1>1, Quiet
<1>7. BusOK(b)'
  <2>1. Children(b)' = Children(b)  BY <1>1 DEF Children
  <2>2. References(b)'  BY <1>0, <1>3, <2>1 DEF BusOK, References, Asking
  <2>3. query[b].at = "idle"  BY DEF Busy
  <2> QED  BY <1>0, <1>1, <1>3, <2>2, <2>3 DEF BusOK, Asking, Below
<1>8. MineOK(b)'
  <2>1. \A d \in Below(b) : DeviceOK(d)'  BY <1>0, <1>1 DEF MineOK, DeviceOK
  <2>2. \A d \in Below(b) \cap Emulated : UnpluggedOK(d)'  BY <1>0, <1>1 DEF MineOK, UnpluggedOK
  <2> QED  BY <1>7, <2>1, <2>2 DEF MineOK, Below
<1>9. \A c \in Bus \ {b} : c \in invalid' <=> c \in invalid
  OBVIOUS
<1> QED  BY <1>0, <1>1, <1>2, <1>5, <1>6, <1>8, <1>9, Elsewhere

LEMMA BusRequests ==
  ASSUME FilterIInv, NEW b \in Bus,
         \/ FdoDispatchStop(b) \/ FdoDispatchRemove(b) \/ FdoSetDevicePower(b) \/ FdoSetSystemPower(b)
  PROVE  FilterIInv'
<1>0. /\ DxOK(bus[b].dx) /\ BusOK(b) /\ bus[b] \in BusRecord  BY DEF FilterIInv, FilterTypes, MineOK
<1>1. CASE FdoDispatchStop(b)
  <2>1. PICK r \in StopRequests(bus[b].dx) :
          /\ bus[b].dx.pnp \in r.on /\ bus' = [bus EXCEPT ![b].dx = r.dx]
          /\ invalid' = IF r.dx.pnp = "Started" /\ bus[b].dx.pnp \in {"Added", "Stopped"}
                        THEN invalid \cup {b} ELSE invalid
    BY <1>1 DEF FdoDispatchStop
  <2>2. /\ DxOK(r.dx) /\ bus[b].dx.pnp \in Reported \cup {"Added"}
        /\ r.dx.pnp \in Asking \cup {"Stopped", "SurpriseRemovePending"}
        /\ r.dx.pnp \in Asking /\ bus[b].dx.pnp \notin Asking =>
              r.dx.pnp = "Started" /\ bus[b].dx.pnp \in {"Enumerated", "Added", "Stopped"}
    BY <1>0, <2>1, Requested
  <2>3. bus[b].dx.pnp \notin {"None", "Deleted"}  BY <2>2 DEF Reported, Asking
  <2>4. r.dx.pnp \in Asking => bus[b].dx.pnp \in Asking \/ b \in invalid'
    BY <1>0, <2>1, <2>2 DEF BusOK
  <2>5. /\ ~Busy(b)
        /\ UNCHANGED <<driverVars, device, query, failed, onBus, ejecting, oneBus, violated>>
    BY <1>1 DEF FdoDispatchStop
  <2>6. invalid \subseteq invalid' /\ invalid' \subseteq invalid \cup {b}  BY <2>1
  <2> QED  BY <2>1, <2>2, <2>3, <2>4, <2>5, <2>6, BusRequest
<1>2. CASE FdoDispatchRemove(b)
  <2>1. PICK r \in RemoveRequests(bus[b].dx) : bus[b].dx.pnp \in r.on /\ bus' = [bus EXCEPT ![b].dx = r.dx]
    BY <1>2 DEF FdoDispatchRemove
  <2>2. /\ DxOK(r.dx) /\ bus[b].dx.pnp \in Reported \cup {"Added"}
        /\ r.dx.pnp \in Asking \cup {"Stopped", "SurpriseRemovePending"}
    BY <1>0, <2>1, Requested
  <2>3. bus[b].dx.pnp \notin {"None", "Deleted"}  BY <2>2 DEF Reported, Asking
  <2>4. r.dx.pnp \in Asking => bus[b].dx.pnp \in Asking
    <3>1. CASE bus[b].dx.pnp = "Stopped"
      <4>1. r.dx = SetPnp(bus[b].dx, "SurpriseRemovePending")  BY <2>1, <3>1 DEF RemoveRequests
      <4>2. r.dx.pnp = "SurpriseRemovePending"  BY <1>0, <4>1 DEF SetPnp, DxOK, Dx
      <4> QED  BY <4>2 DEF Asking
    <3>2. bus[b].dx.pnp \in {"Started", "Stopped", "RemovePending"}  BY <2>1 DEF RemoveRequests
    <3> QED  BY <3>1, <3>2 DEF Asking
  <2>5. /\ ~Busy(b)
        /\ UNCHANGED <<driverVars, device, query, failed, onBus, ejecting, oneBus, violated>>
        /\ invalid' = invalid
    BY <1>2 DEF FdoDispatchRemove, relationVars
  <2> QED  BY <2>1, <2>2, <2>3, <2>4, <2>5, BusRequest
<1>3. CASE FdoSetDevicePower(b) \/ FdoSetSystemPower(b)
  <2>1. /\ ~Busy(b) /\ Powered(bus[b].dx)
        /\ UNCHANGED <<driverVars, device, query, failed, onBus, ejecting, oneBus, violated>>
        /\ invalid' = invalid
    BY <1>3 DEF FdoSetDevicePower, FdoSetSystemPower, FdoDispatchPower, relationVars
  <2>2. bus[b].dx.pnp \in {"Started", "StopPending", "RemovePending"}  BY <2>1 DEF Powered
  <2>3. PICK dx : DxOK(dx) /\ dx.pnp = bus[b].dx.pnp /\ bus' = [bus EXCEPT ![b].dx = dx]
    <3>1. CASE FdoSetDevicePower(b)
      <4>1. PICK state \in {"D0", "D3"} : bus' = [bus EXCEPT ![b].dx.power = state]
        BY <3>1 DEF FdoSetDevicePower
      <4> DEFINE dx == [bus[b].dx EXCEPT !.power = state]
      <4>2. DxOK(dx) /\ dx.pnp = bus[b].dx.pnp  BY <1>0, <2>2 DEF DxOK, Dx
      <4>3. bus' = [bus EXCEPT ![b].dx = dx]  BY <4>1
      <4> QED  BY <4>2, <4>3
    <3>2. CASE FdoSetSystemPower(b)
      <4>1. PICK state \in {"S0", "S4"} : bus' = [bus EXCEPT ![b].dx.system = state]
        BY <3>2 DEF FdoSetSystemPower
      <4> DEFINE dx == [bus[b].dx EXCEPT !.system = state]
      <4>2. DxOK(dx) /\ dx.pnp = bus[b].dx.pnp  BY <1>0, <2>2 DEF DxOK, Dx
      <4>3. bus' = [bus EXCEPT ![b].dx = dx]  BY <4>1
      <4> QED  BY <4>2, <4>3
    <3> QED  BY <1>3, <3>1, <3>2
  <2>4. dx.pnp \in Asking /\ bus[b].dx.pnp \in Asking /\ bus[b].dx.pnp \notin {"None", "Deleted"}
    BY <2>2, <2>3 DEF Asking
  <2> QED  BY <2>1, <2>3, <2>4, BusRequest
<1> QED  BY <1>1, <1>2, <1>3

LEMMA DriverAdds == ASSUME FilterIInv, NEW b \in Bus, DriverAddDevice(b) PROVE FilterIInv'
<1>0. /\ FilterTypes /\ MineOK(b) /\ BusOK(b) /\ ~violated  BY DEF FilterIInv, MineOK
<1>1. /\ bus[b].dx.pnp = "None" /\ bus' = [bus EXCEPT ![b] = FdoCreate]
      /\ UNCHANGED <<FilterState, unplugged, device, query, invalid, failed, onBus, ejecting, oneBus, violated>>
  BY DEF DriverAddDevice, driverVars, relationVars
<1>2. /\ FdoCreate \in BusRecord /\ FdoCreate.dx.pnp = "Added" /\ FdoCreate.references = 1
      /\ DxOK(FdoCreate.dx)
  <2>1. NoBus \in BusRecord /\ NoBus.dx = NoDx /\ NoDx \in Dx /\ NoDx.power = "D3"
    BY DEF NoBus, NoDx, BusRecord, Dx, PnpState
  <2> DEFINE dx == [NoDx EXCEPT !.pnp = "Added"]
  <2>2. dx \in Dx /\ dx.pnp = "Added" /\ dx.power = "D3"  BY <2>1 DEF Dx, PnpState
  <2>3. FdoCreate = [NoBus EXCEPT !.dx = dx, !.references = 1]  BY <2>1 DEF FdoCreate
  <2> HIDE DEF dx
  <2>4. DxOK(dx)  BY <2>2 DEF DxOK
  <2>5. FdoCreate \in BusRecord
    <3>1. NoBus = [dx |-> NoDx, references |-> 0, enumerated |-> FALSE]  BY DEF NoBus
    <3>2. FdoCreate = [dx |-> dx, references |-> 1, enumerated |-> FALSE]  BY <2>3, <3>1
    <3>3. dx \in Dx /\ 1 \in Int /\ FALSE \in BOOLEAN  BY <2>2
    <3> QED  BY <3>2, <3>3 DEF BusRecord
  <2>6. FdoCreate.dx = dx /\ FdoCreate.references = 1  BY <2>1, <2>3 DEF BusRecord
  <2> QED  BY <2>2, <2>4, <2>5, <2>6
<1>3. /\ bus'[b] = FdoCreate /\ \A c \in Bus \ {b} : bus'[c] = bus[c]
      /\ bus' \in [Bus -> BusRecord]
  BY <1>0, <1>1, <1>2 DEF FilterTypes
<1>4. FilterTypes'  BY <1>0, <1>1, <1>2, <1>3 DEF FilterTypes
<1>5. OneQuery'  BY <1>1, Quiet
<1>6. BusOK(b)'
  <2>1. Children(b)' = Children(b) /\ Children(b) \subseteq Device  BY <1>1 DEF Children
  <2>2. Cardinality(Children(b)) \in Nat  BY <2>1, Counted
  <2>3. bus[b].references = 0  BY <1>0, <1>1 DEF BusOK, NoBus
  <2>4. References(b)'  BY <1>0, <1>1, <1>2, <1>3, <2>1, <2>2, <2>3 DEF BusOK, References
  <2>5. query[b].at = "idle"  BY <1>0, <1>1 DEF BusOK
  <2> QED  BY <1>0, <1>1, <1>2, <1>3, <2>4, <2>5 DEF BusOK, Asking, Below
<1>7. MineOK(b)'
  <2>1. \A d \in Below(b) : DeviceOK(d)'  BY <1>0, <1>1 DEF MineOK, DeviceOK
  <2>2. \A d \in Below(b) \cap Emulated : UnpluggedOK(d)'  BY <1>0, <1>1 DEF MineOK, UnpluggedOK
  <2> QED  BY <1>6, <2>1, <2>2 DEF MineOK, Below
<1> QED  BY <1>0, <1>1, <1>3, <1>4, <1>5, <1>7, Elsewhere

\* A bus that goes takes the devices with it that it had when it was started.
LEMMA BusGoes == ASSUME FilterIInv, NEW b \in Bus, FdoRemoveDevice(b) PROVE FilterIInv'
<1> DEFINE dx == bus[b].dx
           leaving == IF dx.prev = "Started" THEN Children(b) ELSE {}
           left == bus[b].references - Cardinality(leaving) - 1
           power == IF dx.prev = "Started" THEN "D3" ELSE dx.power
           deleted == SetPnp([dx EXCEPT !.power = power], "Deleted")
           kept == [bus[b] EXCEPT !.dx = deleted, !.references = left]
<1>0. /\ FilterTypes /\ MineOK(b) /\ BusOK(b) /\ ~violated /\ DxOK(dx) /\ bus[b] \in BusRecord /\ dx \in Dx
  BY DEF FilterIInv, MineOK, FilterTypes, BusRecord
<1>1. /\ ~Busy(b) /\ dx.pnp \in {"Added", "RemovePending", "SurpriseRemovePending"}
      /\ device' = [d \in Device |-> PdoDestroy(leaving, d)]
      /\ bus' = [bus EXCEPT ![b] = IF left = 0 THEN NoBus ELSE kept]
      /\ violated' = (violated \/ (left = 0 /\ power # "D3"))
      /\ invalid' = invalid \ {b} /\ failed' = (IF left = 0 THEN failed \ {b} ELSE failed)
      /\ UNCHANGED <<FilterState, unplugged, query, onBus, ejecting, oneBus>>
  BY DEF FdoRemoveDevice, driverVars
<1>2. Children(b) \in SUBSET Device /\ leaving \in SUBSET Children(b) /\ {} \in SUBSET (Device \ Children(b))
  BY DEF Children
<1>3. /\ Cardinality(Children(b)) \in Nat /\ Cardinality(leaving) \in Nat
      /\ Cardinality(Children(b) \ leaving) = Cardinality(Children(b)) - Cardinality(leaving)
      /\ Cardinality(Children(b) \ leaving) = 0 <=> Children(b) \ leaving = {}
  <2> HIDE DEF leaving
  <2>1. /\ Children(b) \subseteq Device /\ leaving \subseteq Children(b) /\ leaving \subseteq Device
        /\ Children(b) \ leaving \subseteq Device
    BY <1>2
  <2>2. Cardinality({}) = 0  BY FS_EmptySet
  <2>3. {} \subseteq Device /\ {} \cap Children(b) = {} /\ (Children(b) \ leaving) \cup {} = Children(b) \ leaving
    OBVIOUS
  <2>4. Cardinality((Children(b) \ leaving) \cup {}) =
          (Cardinality(Children(b)) - Cardinality(leaving)) + Cardinality({})
    BY <2>1, <2>3, Counting
  <2>5. Cardinality(Children(b)) \in Nat /\ Cardinality(leaving) \in Nat  BY <2>1, Counted
  <2>6. Cardinality(Children(b) \ leaving) = 0 <=> Children(b) \ leaving = {}  BY <2>1, Counted
  <2> QED  BY <2>2, <2>3, <2>4, <2>5, <2>6
<1>4. left = Cardinality(Children(b) \ leaving)
  <2>1. bus[b].references = Cardinality(Children(b)) + 1  BY <1>0, <1>1 DEF BusOK, References
  <2> HIDE DEF leaving
  <2> QED  BY <1>3, <2>1
<1>5. /\ NoBus \in BusRecord /\ DxOK(NoBus.dx) /\ NoBus.dx.pnp = "None" /\ NoBus.references = 0
      /\ NoDevice \in DeviceRecord /\ DxOK(NoDevice.dx) /\ NoDevice.dx.pnp = "None"
  BY DEF NoBus, NoDevice, NoDx, BusRecord, DeviceRecord, Dx, PnpState, DxOK
<1>6. kept \in BusRecord /\ DxOK(kept.dx) /\ kept.dx.pnp = "Deleted" /\ kept.references = left
  <2>1. power \in {"D0", "D3"}  BY <1>0 DEF Dx
  <2>2. deleted \in Dx /\ deleted.pnp = "Deleted"  BY <1>0, <2>1 DEF SetPnp, Dx, PnpState
  <2>3. DxOK(deleted)  BY <2>2 DEF DxOK
  <2>4. left \in Int  BY <1>3, <1>4
  <2> HIDE DEF left, deleted
  <2> QED  BY <1>0, <2>2, <2>3, <2>4 DEF BusRecord
<1>7. left = 0 => power = "D3"  BY <1>0, <1>1 DEF DxOK, Dx
<1> HIDE DEF left, leaving, power, kept, deleted
<1>8. /\ bus'[b] = (IF left = 0 THEN NoBus ELSE kept) /\ \A c \in Bus \ {b} : bus'[c] = bus[c]
      /\ bus' \in [Bus -> BusRecord] /\ \A c \in Bus : DxOK(bus'[c].dx)
  <2>1. (IF left = 0 THEN NoBus ELSE kept) \in BusRecord /\ DxOK((IF left = 0 THEN NoBus ELSE kept).dx)
    BY <1>5, <1>6
  <2>2. bus \in [Bus -> BusRecord] /\ \A c \in Bus : DxOK(bus[c].dx)  BY <1>0 DEF FilterTypes
  <2> QED  BY <1>1, <2>1, <2>2
<1>9. /\ \A d \in Device : device'[d] = (IF d \in leaving THEN NoDevice ELSE device[d])
      /\ device' \in [Device -> DeviceRecord] /\ \A d \in Device : DxOK(device'[d].dx)
  <2>1. device \in [Device -> DeviceRecord] /\ \A d \in Device : DxOK(device[d].dx)
    BY <1>0 DEF FilterTypes
  <2>2. \A d \in Device : device'[d] = (IF d \in leaving THEN NoDevice ELSE device[d])
    BY <1>1 DEF PdoDestroy
  <2>3. \A d \in Device : device'[d] \in DeviceRecord /\ DxOK(device'[d].dx)  BY <1>5, <2>1, <2>2
  <2>4. device' \in [Device -> DeviceRecord]  BY <1>1, <2>3
  <2> QED  BY <2>2, <2>3, <2>4
<1>10. FilterTypes'  BY <1>0, <1>1, <1>8, <1>9 DEF FilterTypes
<1>11. OneQuery'  BY <1>1, Quiet
<1>12. Children(b)' = Children(b) \ leaving  BY <1>5, <1>9 DEF Children
<1>13. BusOK(b)'
  <2>1. References(b)'  BY <1>3, <1>4, <1>5, <1>6, <1>8, <1>12 DEF References
  <2>2. query[b].at = "idle"  BY <1>1 DEF Busy
  <2>3. query[b].found \in SUBSET Below(b)  BY <1>0 DEF BusOK
  <2> QED  BY <1>1, <1>5, <1>6, <1>8, <2>1, <2>2, <2>3 DEF BusOK, Asking, Below
<1>14. ASSUME NEW d \in Below(b) PROVE DeviceOK(d)'
  <2>1. d \in Device /\ BusOf[d] = b /\ DeviceOK(d)  BY <1>0 DEF Below, MineOK
  <2>2. query'[b].at = "idle" /\ d \notin ejecting'  BY <1>1, <2>1 DEF Busy
  <2>3. CASE d \in leaving
    <3>1. device'[d] = NoDevice  BY <1>9, <2>1, <2>3
    <3> QED  BY <2>1, <2>2, <3>1 DEF DeviceOK, NoDevice, NoDx
  <2>4. CASE d \notin leaving
    <3>1. device'[d] = device[d]  BY <1>9, <2>1, <2>4
    <3> QED  BY <1>1, <2>1, <2>2, <3>1 DEF DeviceOK
  <2> QED  BY <2>3, <2>4
<1>15. ASSUME NEW d \in Below(b) \cap Emulated PROVE UnpluggedOK(d)'
  <2>1. d \in Device /\ BusOf[d] = b /\ UnpluggedOK(d) /\ DeviceOK(d)'  BY <1>0, <1>14 DEF Below, MineOK
  <2>2. query'[b].at = "idle"  BY <1>1 DEF Busy
  <2>3. device'[d].known => device'[d] = device[d] /\ d \in Children(b)'
    <3>1. device'[d].known => device'[d].dx.pnp # "None"  BY <2>1 DEF DeviceOK, Reported, Asking
    <3> QED  BY <1>5, <1>9, <2>1, <3>1 DEF Children
  <2>4. device'[d].known => failed' = failed  BY <1>1, <1>3, <1>4, <1>12, <2>3
  <2> QED  BY <1>1, <2>1, <2>2, <2>3, <2>4 DEF UnpluggedOK
<1>16. MineOK(b)'  BY <1>13, <1>14, <1>15 DEF MineOK, Below
<1>17. ~violated'  BY <1>0, <1>1, <1>7
<1>18. \A d \in Device \ Below(b) : device'[d] = device[d]
  BY <1>2, <1>9 DEF Children, Below
<1>19. \A c \in Bus \ {b} : (c \in invalid' <=> c \in invalid) /\ (c \in failed' <=> c \in failed)
  BY <1>1
<1> QED  BY <1>1, <1>8, <1>10, <1>11, <1>16, <1>17, <1>18, <1>19, Elsewhere

\* The lower driver answers: what it does not report has left.
LEMMA QueryStarts == ASSUME FilterIInv, NEW b \in Bus, FdoQueryDeviceRelations(b) PROVE FilterIInv'
<1> DEFINE found == {d \in onBus : BusOf[d] = b}
<1>0. /\ FilterTypes /\ MineOK(b) /\ BusOK(b) /\ ~violated  BY DEF FilterIInv, MineOK
<1>1. /\ ~Busy(b) /\ bus[b].dx.pnp = "Started" /\ invalid' = invalid \ {b}
      /\ query' = [query EXCEPT ![b] = [at |-> "lower", found |-> found]]
      /\ oneBus => \A c \in Bus : query[c].at = "idle"
      /\ UNCHANGED <<FilterState, unplugged, bus, device, failed, onBus, ejecting, oneBus, violated>>
  BY DEF FdoQueryDeviceRelations, driverVars
<1>2. found \in SUBSET Below(b) /\ found \in SUBSET Device  BY <1>0 DEF FilterTypes, Below
<1>3. /\ query'[b].at = "lower" /\ query'[b].found = found /\ \A c \in Bus \ {b} : query'[c] = query[c]
      /\ query' \in [Bus -> [at : {"idle", "lower", "enumerated", "set"}, found : SUBSET Device]]
  <2> HIDE DEF found
  <2> QED  BY <1>0, <1>1, <1>2 DEF FilterTypes
<1> HIDE DEF found
<1>4. FilterTypes'  BY <1>0, <1>1, <1>3 DEF FilterTypes
<1>5. OneQuery'  BY <1>1, <1>3 DEF OneQuery
<1>6. ejecting \cap Below(b) = {}  BY <1>1 DEF Busy, Below
<1>7. BusOK(b)'
  <2>1. Children(b)' = Children(b)  BY <1>1 DEF Children
  <2>2. References(b)'  BY <1>0, <1>1, <2>1 DEF BusOK, References
  <2> QED  BY <1>0, <1>1, <1>2, <1>3, <1>6, <2>2 DEF BusOK, Below
<1>8. \A d \in Below(b) : d \in found <=> d \in onBus  BY DEF found, Below
<1>9. ASSUME NEW d \in Below(b) PROVE DeviceOK(d)'
  <2>1. d \in Device /\ BusOf[d] = b /\ DeviceOK(d) /\ d \notin ejecting  BY <1>0, <1>6 DEF Below, MineOK
  <2> QED  BY <1>1, <1>3, <1>8, <2>1 DEF DeviceOK
<1>10. ASSUME NEW d \in Below(b) \cap Emulated PROVE UnpluggedOK(d)'
  <2>1. d \in Device /\ BusOf[d] = b /\ UnpluggedOK(d)  BY <1>0 DEF Below, MineOK
  <2> QED  BY <1>1, <1>3, <1>8, <2>1 DEF UnpluggedOK
<1>11. MineOK(b)'  BY <1>7, <1>9, <1>10 DEF MineOK, Below
<1> QED  BY <1>0, <1>1, <1>3, <1>4, <1>5, <1>11, Elsewhere

\* A query takes in its list: it creates the devices that are new, as far as there is memory, and
\* marks or destroys those that are not on it.
LEMMA ListTakenIn == ASSUME FilterIInv, NEW b \in Bus, FdoEnumerate(b) PROVE FilterIInv'
<1> DEFINE found == query[b].found
           seen == {d \in Children(b) : ~device[d].missing /\ device[d].dx.pnp # "Deleted"}
           lost == seen \ found
           unknown == {d \in lost : device[d].dx.pnp = "Present"}
           new == found \ seen
<1>0. /\ FilterTypes /\ MineOK(b) /\ BusOK(b) /\ ~violated /\ bus[b] \in BusRecord
      /\ device \in [Device -> DeviceRecord] /\ \A d \in Device : DxOK(device[d].dx)
  BY DEF FilterIInv, MineOK, FilterTypes
<1>1. PICK made \in SUBSET new :
        /\ device' = [d \in Device |-> IF d \in made THEN PdoCreate(d, new)
               ELSE IF d \in lost \ unknown THEN [device[d] EXCEPT !.missing = TRUE]
               ELSE PdoDestroy(unknown, d)]
        /\ bus' = [bus EXCEPT ![b].references = @ + Cardinality(made) - Cardinality(unknown),
                              ![b].enumerated = TRUE]
  BY DEF FdoEnumerate
<1>2. /\ query[b].at = "lower" /\ query' = [query EXCEPT ![b].at = "enumerated"]
      /\ failed' = failed \ {b}
      /\ violated' = (violated \/ \E d \in new : device[d].dx.pnp # "None")
      /\ UNCHANGED <<FilterState, unplugged, invalid, onBus, ejecting, oneBus>>
  BY DEF FdoEnumerate, driverVars
<1>3. /\ found \in SUBSET Below(b) /\ bus[b].dx.pnp = "Started" /\ ejecting \cap Below(b) = {}
  BY <1>0, <1>2 DEF BusOK
<1>4. Children(b) \in SUBSET Below(b) /\ Below(b) \in SUBSET Device  BY DEF Children, Below
<1>5. ASSUME NEW d \in Below(b), device[d].dx.pnp # "None"
      PROVE  \/ device[d].missing /\ d \notin found
             \/ d \in lost
             \/ d \in found /\ ~device[d].missing /\ d \in seen
  <2>1. d \in Children(b) /\ BusOf[d] = b /\ DeviceOK(d) /\ d \notin ejecting
    BY <1>0, <1>3, <1>5 DEF Children, Below, MineOK
  <2>2. device[d].dx.pnp = "Deleted" => device[d].missing  BY <2>1 DEF DeviceOK
  <2>3. device[d].missing => d \notin found  BY <1>2, <2>1 DEF DeviceOK
  <2> QED  BY <2>1, <2>2, <2>3
<1>6. \A d \in new : d \in Below(b) /\ device[d].dx.pnp = "None"  BY <1>3, <1>5
<1>7. \A d \in lost : d \in Below(b) /\ d \in Children(b) /\ d \notin found /\ device[d].dx.pnp # "None"
  BY <1>4 DEF Children
<1>8. /\ made \in SUBSET (Device \ Children(b)) /\ unknown \in SUBSET Children(b)
      /\ Children(b) \in SUBSET Device /\ made \in SUBSET Below(b)
  BY <1>4, <1>6, <1>7 DEF Children
<1>9. ~violated'  BY <1>0, <1>2, <1>6
<1> HIDE DEF found
<1>10. ASSUME NEW d \in made
       PROVE  /\ PdoCreate(d, new) \in DeviceRecord /\ PdoCreate(d, new).dx.pnp = "Present"
              /\ DxOK(PdoCreate(d, new).dx) /\ ~PdoCreate(d, new).missing /\ ~PdoCreate(d, new).known
  <2> DEFINE active == PdoSetDeviceInformation(d, new)
             dx == [pnp |-> "Present", prev |-> "None", power |-> "D3", system |-> "S0"]
  <2>1. active \in {"neutral", "registry", "forced", "deactivated"}  BY DEF PdoSetDeviceInformation
  <2>2. PdoCreate(d, new) = [dx |-> dx, missing |-> FALSE, object |-> TRUE, active |-> active, known |-> FALSE]
    <3> HIDE DEF active
    <3>1. PdoCreate(d, new) = EmulatedAddObject([NoDevice EXCEPT !.dx.pnp = "Present", !.active = active])
      BY DEF PdoCreate, active
    <3> QED  BY <3>1 DEF EmulatedAddObject, NoDevice, NoDx
  <2>3. dx \in Dx /\ dx.pnp = "Present"  BY DEF Dx, PnpState
  <2> HIDE DEF active, dx
  <2>4. DxOK(dx)  BY <2>3 DEF DxOK
  <2>5. PdoCreate(d, new) \in DeviceRecord
    <3>1. [dx |-> dx, missing |-> FALSE, object |-> TRUE, active |-> active, known |-> FALSE] \in DeviceRecord
      BY <2>1, <2>3 DEF DeviceRecord
    <3> QED  BY <2>2, <3>1
  <2>6. PdoCreate(d, new).dx = dx /\ ~PdoCreate(d, new).missing /\ ~PdoCreate(d, new).known  BY <2>2
  <2> QED  BY <2>3, <2>4, <2>5, <2>6
<1>11. NoDevice \in DeviceRecord /\ DxOK(NoDevice.dx) /\ NoDevice.dx.pnp = "None"
  BY DEF NoDevice, NoDx, DeviceRecord, Dx, PnpState, DxOK
<1> HIDE DEF seen, new, lost, unknown
\* What becomes of a device.
<1>12. ASSUME NEW d \in Device
       PROVE  /\ d \in made => device'[d] = PdoCreate(d, new)
              /\ d \in lost \ unknown => device'[d] = [device[d] EXCEPT !.missing = TRUE]
              /\ d \in unknown => device'[d] = NoDevice
              /\ d \notin made \cup lost => device'[d] = device[d]
  <2>1. device'[d] = IF d \in made THEN PdoCreate(d, new)
                     ELSE IF d \in lost \ unknown THEN [device[d] EXCEPT !.missing = TRUE]
                     ELSE IF d \in unknown THEN NoDevice ELSE device[d]
    BY <1>1 DEF PdoDestroy
  <2>2. made \cap lost = {} /\ unknown \subseteq lost  BY <1>6, <1>7 DEF unknown
  <2> QED  BY <2>1, <2>2
<1>13. \A d \in Device : device'[d] \in DeviceRecord /\ DxOK(device'[d].dx)
  <2> SUFFICES ASSUME NEW d \in Device PROVE device'[d] \in DeviceRecord /\ DxOK(device'[d].dx)
    OBVIOUS
  <2>1. CASE d \in made  BY <1>10, <1>12, <2>1
  <2>2. CASE d \in unknown  BY <1>11, <1>12, <2>2
  <2>3. CASE d \in lost \ unknown
    <3>1. /\ device'[d] = [device[d] EXCEPT !.missing = TRUE]
          /\ device[d] \in DeviceRecord /\ DxOK(device[d].dx)
      BY <1>0, <1>12, <2>3
    <3> QED  BY <3>1 DEF DeviceRecord
  <2>4. CASE d \notin made \cup lost  BY <1>0, <1>12, <2>4
  <2> QED  BY <2>1, <2>2, <2>3, <2>4
<1>14. Children(b)' = (Children(b) \ unknown) \cup made
  <2>1. ASSUME NEW d \in Device
        PROVE  device'[d].dx.pnp # "None" <=> (device[d].dx.pnp # "None" /\ d \notin unknown) \/ d \in made
    <3>1. CASE d \in made  BY <1>10, <1>12, <3>1
    <3>2. CASE d \in unknown
      <4>1. d \notin made  BY <1>8, <3>2
      <4> QED  BY <1>11, <1>12, <3>2, <4>1
    <3>3. CASE d \in lost \ unknown
      <4>1. /\ device'[d] = [device[d] EXCEPT !.missing = TRUE] /\ device[d] \in DeviceRecord
            /\ device[d].dx.pnp # "None"
        BY <1>0, <1>7, <1>12, <3>3
      <4>2. device'[d].dx = device[d].dx  BY <4>1 DEF DeviceRecord
      <4> QED  BY <3>3, <4>1, <4>2
    <3>4. CASE d \notin made \cup lost
      <4>1. d \notin unknown  BY <3>4 DEF unknown
      <4> QED  BY <1>12, <3>4, <4>1
    <3> QED  BY <3>1, <3>2, <3>3, <3>4
  <2> QED  BY <1>8, <2>1 DEF Children, Below
<1>15. /\ bus'[b].dx = bus[b].dx /\ bus'[b].enumerated = TRUE
       /\ bus'[b].references = bus[b].references + Cardinality(made) - Cardinality(unknown)
       /\ \A c \in Bus \ {b} : bus'[c] = bus[c]
       /\ bus' \in [Bus -> BusRecord] /\ \A c \in Bus : DxOK(bus'[c].dx)
  <2> DEFINE n == bus[b].references + Cardinality(made) - Cardinality(unknown)
  <2>1. n \in Int
    <3>0. made \subseteq Device /\ unknown \subseteq Device  BY <1>8
    <3>1. Cardinality(made) \in Nat /\ Cardinality(unknown) \in Nat  BY <3>0, Counted
    <3>2. bus[b].references \in Int  BY <1>0 DEF BusRecord
    <3> QED  BY <3>1, <3>2
  <2>2. bus \in [Bus -> BusRecord] /\ \A c \in Bus : DxOK(bus[c].dx)  BY <1>0 DEF FilterTypes
  <2>3. bus' = [bus EXCEPT ![b] = [bus[b] EXCEPT !.references = n, !.enumerated = TRUE]]
    BY <1>1, <2>2
  <2> HIDE DEF n
  <2>4. /\ bus'[b] = [bus[b] EXCEPT !.references = n, !.enumerated = TRUE]
        /\ \A c \in Bus \ {b} : bus'[c] = bus[c]
    BY <2>2, <2>3
  <2>5. /\ bus'[b].dx = bus[b].dx /\ bus'[b].enumerated = TRUE /\ bus'[b].references = n
        /\ bus'[b] \in BusRecord
    BY <1>0, <2>1, <2>4 DEF BusRecord
  <2>6. bus' \in [Bus -> BusRecord]  BY <2>2, <2>3, <2>4, <2>5
  <2>7. \A c \in Bus : DxOK(bus'[c].dx)  BY <2>2, <2>4, <2>5
  <2> QED  BY <2>4, <2>5, <2>6, <2>7 DEF n
<1>16. /\ query'[b].at = "enumerated" /\ query'[b].found = query[b].found
       /\ \A c \in Bus \ {b} : query'[c] = query[c]
       /\ query' \in [Bus -> [at : {"idle", "lower", "enumerated", "set"}, found : SUBSET Device]]
  BY <1>0, <1>2 DEF FilterTypes
<1>17. FilterTypes'
  <2>1. device' \in [Device -> DeviceRecord]  BY <1>1, <1>13
  <2> QED  BY <1>0, <1>2, <1>13, <1>15, <1>16, <2>1 DEF FilterTypes
<1>18. OneQuery'
  <2>1. \A c \in Bus : query'[c].at # "idle" => query[c].at # "idle"  BY <1>2, <1>16
  <2> QED  BY <1>2, <2>1, Quiet
<1>19. BusOK(b)'
  <2>1. /\ Children(b) \subseteq Device /\ unknown \subseteq Children(b) /\ unknown \subseteq Device
        /\ made \subseteq Device /\ made \cap Children(b) = {}
    BY <1>8
  <2>2. Cardinality((Children(b) \ unknown) \cup made) =
          (Cardinality(Children(b)) - Cardinality(unknown)) + Cardinality(made)
    BY <2>1, Counting
  <2>3. Cardinality(Children(b)) \in Nat /\ Cardinality(made) \in Nat /\ Cardinality(unknown) \in Nat
    BY <2>1, Counted
  <2>4. bus[b].references = Cardinality(Children(b)) + 1  BY <1>0, <1>3 DEF BusOK, References
  <2>5. bus'[b].references = Cardinality(Children(b)') + 1  BY <1>14, <1>15, <2>2, <2>3, <2>4
  <2>6. References(b)'  BY <1>3, <1>15, <2>5 DEF References
  <2> QED  BY <1>0, <1>2, <1>3, <1>15, <1>16, <2>6 DEF BusOK, Below
<1>20. ASSUME NEW d \in Below(b) PROVE DeviceOK(d)'
  <2>1. d \in Device /\ BusOf[d] = b /\ DeviceOK(d) /\ query'[b].at = "enumerated" /\ d \notin ejecting
        /\ UNCHANGED <<FilterState, onBus, ejecting>>
    BY <1>0, <1>2, <1>3, <1>4, <1>16 DEF MineOK, Below
  <2>2. CASE d \in made
    <3>1. device'[d].dx.pnp = "Present" /\ ~device'[d].missing /\ ~device'[d].known
      BY <1>10, <1>12, <2>1, <2>2
    <3> QED  BY <2>1, <3>1 DEF DeviceOK
  <2>3. CASE d \in unknown
    <3>1. device'[d] = NoDevice  BY <1>12, <2>1, <2>3
    <3> QED  BY <2>1, <3>1 DEF DeviceOK, NoDevice, NoDx
  <2>4. CASE d \in lost \ unknown
    <3>1. /\ device'[d] = [device[d] EXCEPT !.missing = TRUE] /\ device[d] \in DeviceRecord
          /\ device[d].dx.pnp # "None" /\ d \notin found
      BY <1>0, <1>7, <1>12, <2>1, <2>4
    <3>2. device'[d].dx = device[d].dx /\ device'[d].known = device[d].known /\ device'[d].missing = TRUE
      BY <3>1 DEF DeviceRecord
    <3>3. d \notin onBus  BY <1>2, <2>1, <3>1 DEF DeviceOK, found
    <3> QED  BY <2>1, <3>1, <3>2, <3>3 DEF DeviceOK
  <2>5. CASE d \notin made \cup lost
    <3>1. device'[d] = device[d]  BY <1>12, <2>1, <2>5
    <3> QED  BY <2>1, <3>1 DEF DeviceOK
  <2> QED  BY <2>2, <2>3, <2>4, <2>5
<1>21. ASSUME NEW d \in Below(b) \cap Emulated, oneBus, unplugged
       PROVE  d \notin onBus /\ (device'[d].dx.pnp = "None" \/ device'[d].missing)
  <2>1. d \in Device /\ BusOf[d] = b /\ UnpluggedOK(d)  BY <1>0, <1>4 DEF MineOK, Below
  <2>2. d \notin onBus /\ d \notin found  BY <1>2, <1>21, <2>1 DEF UnpluggedOK, found
  <2>3. d \notin made  BY <2>2 DEF new
  <2>4. CASE d \in unknown  BY <1>11, <1>12, <2>1, <2>2, <2>4
  <2>5. CASE d \in lost \ unknown
    <3>1. device'[d] = [device[d] EXCEPT !.missing = TRUE] /\ device[d] \in DeviceRecord
      BY <1>0, <1>12, <2>1, <2>5
    <3> QED  BY <2>2, <3>1 DEF DeviceRecord
  <2>6. CASE d \notin lost
    <3>1. device'[d] = device[d]  BY <1>12, <2>1, <2>3, <2>6
    <3>2. device[d].dx.pnp = "None" \/ device[d].missing  BY <1>5, <2>2, <2>6
    <3> QED  BY <2>2, <3>1, <3>2
  <2> QED  BY <2>4, <2>5, <2>6
<1>22. ASSUME NEW d \in Below(b) \cap Emulated PROVE UnpluggedOK(d)'
  <2>1. d \in Device /\ BusOf[d] = b /\ DeviceOK(d)'  BY <1>4, <1>20 DEF Below
  <2>2. device'[d].known => device'[d].dx.pnp # "None"  BY <2>1 DEF DeviceOK, Reported, Asking
  <2> QED  BY <1>2, <1>16, <1>21, <2>1, <2>2 DEF UnpluggedOK
<1>23. MineOK(b)'  BY <1>19, <1>20, <1>22 DEF MineOK, Below
<1>24. \A d \in Device \ Below(b) : device'[d] = device[d]  BY <1>7, <1>8, <1>12
<1>25. \A c \in Bus \ {b} : c \in failed' <=> c \in failed  BY <1>2
<1> QED  BY <1>2, <1>9, <1>15, <1>16, <1>17, <1>18, <1>23, <1>24, <1>25, Elsewhere

\* A query that finds nothing to look at, or fails.
LEMMA QueryFails ==
  ASSUME FilterIInv, NEW b \in Bus, FdoEnumerateNothing(b) \/ FdoQueryFails(b)
  PROVE  FilterIInv'
<1>0. /\ FilterTypes /\ MineOK(b) /\ BusOK(b) /\ ~violated  BY DEF FilterIInv, MineOK
<1>1. /\ query[b].at \in {"lower", "set"} /\ failed' = failed \cup {b}
      /\ UNCHANGED <<FilterState, unplugged, bus, device, invalid, onBus, ejecting, oneBus, violated>>
  BY DEF FdoEnumerateNothing, FdoQueryFails, driverVars
<1>2. /\ query'[b].at \in {"idle", "set"} /\ query'[b].found \in SUBSET query[b].found
      /\ \A c \in Bus \ {b} : query'[c] = query[c]
      /\ query' \in [Bus -> [at : {"idle", "lower", "enumerated", "set"}, found : SUBSET Device]]
  <2>1. query \in [Bus -> [at : {"idle", "lower", "enumerated", "set"}, found : SUBSET Device]]
    BY <1>0 DEF FilterTypes
  <2>2. CASE FdoEnumerateNothing(b)  BY <2>1, <2>2 DEF FdoEnumerateNothing
  <2>3. CASE FdoQueryFails(b)  BY <2>1, <2>3 DEF FdoQueryFails
  <2> QED  BY <2>2, <2>3
<1>3. FilterTypes'  BY <1>0, <1>1, <1>2 DEF FilterTypes
<1>4. OneQuery'
  <2>1. \A c \in Bus : query'[c].at # "idle" => query[c].at # "idle"  BY <1>1, <1>2
  <2> QED  BY <1>1, <2>1, Quiet
<1>5. BusOK(b)'
  <2>1. Children(b)' = Children(b)  BY <1>1 DEF Children
  <2>2. References(b)'  BY <1>0, <1>1, <2>1 DEF BusOK, References
  <2> QED  BY <1>0, <1>1, <1>2, <2>2 DEF BusOK, Below
<1>6. ASSUME NEW d \in Below(b) PROVE DeviceOK(d)'
  <2>1. d \in Device /\ BusOf[d] = b /\ DeviceOK(d)  BY <1>0 DEF Below, MineOK
  <2> QED  BY <1>1, <1>2, <2>1 DEF DeviceOK
<1>7. ASSUME NEW d \in Below(b) \cap Emulated PROVE UnpluggedOK(d)'
  <2>1. d \in Device /\ BusOf[d] = b /\ UnpluggedOK(d)  BY <1>0 DEF Below, MineOK
  <2> QED  BY <1>1, <1>2, <2>1 DEF UnpluggedOK
<1>8. MineOK(b)'  BY <1>5, <1>6, <1>7 DEF MineOK, Below
<1>9. \A c \in Bus \ {b} : c \in failed' <=> c \in failed  BY <1>1
<1> QED  BY <1>0, <1>1, <1>2, <1>3, <1>4, <1>8, <1>9, Elsewhere

\* The end of FdoEnumerate decides for all buses whether the filter unplugs or opens.
LEMMA FilterMovesOn == ASSUME FilterIInv, NEW b \in Bus, FdoSetEnumerated(b) PROVE FilterIInv'
<1>0. /\ FilterTypes /\ OneQuery /\ ~violated /\ \A c \in Bus : MineOK(c)  BY DEF FilterIInv
<1>1. /\ query[b].at = "enumerated" /\ query' = [query EXCEPT ![b].at = "set"] /\ DriverSetFilterState
      /\ UNCHANGED <<bus, device, invalid, failed, ejecting, oneBus, violated>>
  BY DEF FdoSetEnumerated
<1>2. /\ query'[b].at = "set" /\ query'[b].found = query[b].found
      /\ \A c \in Bus \ {b} : query'[c] = query[c]
      /\ query' \in [Bus -> [at : {"idle", "lower", "enumerated", "set"}, found : SUBSET Device]]
  BY <1>0, <1>1 DEF FilterTypes
\* Either nothing was unplugged just now, or the filter goes on to be pending.
<1>3. /\ FilterState' \in {"ENABLED", "PENDING", "DISABLED"} /\ (FilterState = "DISABLED" => FilterState' = "DISABLED")
      /\ \/ unplugged' = unplugged /\ onBus' = onBus
         \/ unplugged' = TRUE /\ onBus' = onBus \ Emulated /\ FilterState = "ENABLED" /\ FilterState' = "PENDING"
  BY <1>0, <1>1 DEF FilterTypes, DriverSetFilterState, UnplugOnce, driverVars
<1>4. FilterTypes'
  <2>1. unplugged' \in BOOLEAN /\ onBus' \in SUBSET Device  BY <1>0, <1>3 DEF FilterTypes
  <2> QED  BY <1>0, <1>1, <1>2, <1>3, <2>1 DEF FilterTypes
<1>5. OneQuery'
  <2>1. \A c \in Bus : query'[c].at # "idle" => query[c].at # "idle"  BY <1>1, <1>2
  <2> QED  BY <1>1, <2>1, Quiet
<1>6. \A c \in Bus : Children(c)' = Children(c)  BY <1>1 DEF Children
<1>7. \A c \in Bus \ {b} : oneBus => query[c].at = "idle"  BY <1>0, <1>1 DEF OneQuery
<1>8. ASSUME NEW c \in Bus PROVE MineOK(c)'
  <2>1. BusOK(c)'
    <3>1. BusOK(c)  BY <1>0 DEF MineOK
    <3>2. References(c)'  BY <1>1, <1>6, <3>1 DEF BusOK, References
    <3>3. query'[c].found = query[c].found /\ (query'[c].at # "idle" <=> query[c].at # "idle")
      BY <1>1, <1>2
    <3> QED  BY <1>1, <1>3, <3>1, <3>2, <3>3 DEF BusOK, Below
  <2>2. ASSUME NEW d \in Below(c) PROVE DeviceOK(d)'
    <3>1. d \in Device /\ BusOf[d] = c /\ DeviceOK(d)  BY <1>0 DEF MineOK, Below
    <3>2. query'[c].at = "lower" => query[c].at = "lower" /\ query'[c].found = query[c].found
      BY <1>1, <1>2
    <3>3. d \in onBus' => d \in onBus  BY <1>3
    <3> QED  BY <1>1, <1>3, <3>1, <3>2, <3>3 DEF DeviceOK
  <2>3. ASSUME NEW d \in Below(c) \cap Emulated PROVE UnpluggedOK(d)'
    <3>1. d \in Device /\ BusOf[d] = c /\ UnpluggedOK(d) /\ DeviceOK(d)  BY <1>0 DEF MineOK, Below
    <3>2. CASE unplugged' = unplugged /\ onBus' = onBus
      <4>1. CASE c = b  BY <1>1, <1>2, <3>1, <3>2, <4>1 DEF UnpluggedOK
      <4>2. CASE c # b  BY <1>1, <1>2, <1>7, <3>1, <3>2, <4>2 DEF UnpluggedOK
      <4> QED  BY <4>1, <4>2
    <3>3. CASE unplugged' = TRUE /\ onBus' = onBus \ Emulated /\ FilterState = "ENABLED" /\ FilterState' = "PENDING"
      <4>1. d \notin onBus' /\ ~device[d].known  BY <3>1, <3>3 DEF DeviceOK
      <4>2. oneBus => query'[c].at \in {"idle", "set"}  BY <1>2, <1>7
      <4> QED  BY <1>1, <3>1, <3>3, <4>1, <4>2 DEF UnpluggedOK
    <3> QED  BY <1>3, <3>2, <3>3
  <2> QED  BY <2>1, <2>2, <2>3 DEF MineOK, Below
<1> QED  BY <1>0, <1>1, <1>4, <1>5, <1>8 DEF FilterIInv

\* An open filter reports the devices that are there and destroys those that left.
LEMMA RelationsReported == ASSUME FilterIInv, NEW b \in Bus, FdoReportRelations(b) PROVE FilterIInv'
<1> DEFINE leaving == {d \in Children(b) : device[d].missing /\ device[d].dx.pnp = "Deleted"}
           there == {d \in Children(b) : ~device[d].missing}
           reported(d) == [device[d] EXCEPT !.known = TRUE,
                             !.dx = IF @.pnp = "Present" THEN SetPnp(@, "Enumerated") ELSE @]
<1>0. /\ FilterTypes /\ MineOK(b) /\ BusOK(b) /\ ~violated /\ bus[b] \in BusRecord
      /\ device \in [Device -> DeviceRecord] /\ \A d \in Device : DxOK(device[d].dx)
  BY DEF FilterIInv, MineOK, FilterTypes
<1>1. /\ query[b].at = "set" /\ query' = [query EXCEPT ![b] = [at |-> "idle", found |-> {}]]
      /\ UNCHANGED <<FilterState, unplugged, failed, onBus, ejecting, oneBus, violated>>
  BY DEF FdoReportRelations, driverVars
<1>2. /\ query'[b].at = "idle" /\ query'[b].found = {}
      /\ \A c \in Bus \ {b} : query'[c] = query[c]
      /\ query' \in [Bus -> [at : {"idle", "lower", "enumerated", "set"}, found : SUBSET Device]]
  BY <1>0, <1>1 DEF FilterTypes
<1>3. OneQuery'
  <2>1. \A c \in Bus : query'[c].at # "idle" => query[c].at # "idle"  BY <1>1, <1>2
  <2> QED  BY <1>1, <2>1, Quiet
<1>4. bus[b].dx.pnp = "Started" /\ ejecting \cap Below(b) = {}  BY <1>0, <1>1 DEF BusOK
<1>5. CASE FilterState # "DISABLED"
  <2>1. invalid' = invalid \cup {b} /\ UNCHANGED <<bus, device>>  BY <1>5 DEF FdoReportRelations
  <2>2. FilterTypes'  BY <1>0, <1>1, <1>2, <2>1 DEF FilterTypes
  <2>3. BusOK(b)'
    <3>1. Children(b)' = Children(b)  BY <2>1 DEF Children
    <3>2. References(b)'  BY <1>0, <2>1, <3>1 DEF BusOK, References
    <3> QED  BY <1>0, <1>1, <1>2, <2>1, <3>2 DEF BusOK
  <2>4. ASSUME NEW d \in Below(b) PROVE DeviceOK(d)'
    <3>1. d \in Device /\ BusOf[d] = b /\ DeviceOK(d)  BY <1>0 DEF Below, MineOK
    <3> QED  BY <1>1, <1>2, <2>1, <3>1 DEF DeviceOK
  <2>5. ASSUME NEW d \in Below(b) \cap Emulated PROVE UnpluggedOK(d)'
    <3>1. d \in Device /\ BusOf[d] = b /\ UnpluggedOK(d)  BY <1>0 DEF Below, MineOK
    <3> QED  BY <1>1, <1>2, <2>1, <3>1 DEF UnpluggedOK
  <2>6. MineOK(b)'  BY <2>3, <2>4, <2>5 DEF MineOK, Below
  <2>7. \A c \in Bus \ {b} : c \in invalid' <=> c \in invalid  BY <2>1
  <2> QED  BY <1>0, <1>1, <1>2, <1>3, <2>1, <2>2, <2>6, <2>7, Elsewhere
<1>6. CASE FilterState = "DISABLED"
  <2>1. /\ device' = [d \in Device |-> IF d \in Children(b) /\ ~device[d].missing THEN reported(d)
                                       ELSE PdoDestroy(leaving, d)]
        /\ bus' = [bus EXCEPT ![b].references = @ - Cardinality(leaving)]
        /\ UNCHANGED invalid
    BY <1>6 DEF FdoReportRelations
  <2>2. /\ there \in SUBSET Children(b) /\ leaving \in SUBSET Children(b) /\ there \cap leaving = {}
        /\ Children(b) \in SUBSET Below(b) /\ Below(b) \in SUBSET Device
    BY DEF Children, Below
  <2>3. ASSUME NEW d \in Device
        PROVE  /\ d \in there => device'[d] = reported(d)
               /\ d \in leaving => device'[d] = NoDevice
               /\ d \notin there \cup leaving => device'[d] = device[d]
    BY <2>1 DEF PdoDestroy
  <2>4. ASSUME NEW d \in there
        PROVE  /\ reported(d) \in DeviceRecord /\ DxOK(reported(d).dx) /\ reported(d).known = TRUE
               /\ reported(d).missing = FALSE /\ reported(d).dx.pnp \in Reported
    <3> DEFINE dx == IF device[d].dx.pnp = "Present" THEN SetPnp(device[d].dx, "Enumerated") ELSE device[d].dx
    <3>1. /\ device[d] \in DeviceRecord /\ device[d].missing = FALSE /\ DxOK(device[d].dx)
          /\ device[d].dx \in Dx /\ device[d].dx.pnp # "None" /\ DeviceOK(d)
      BY <1>0, <2>2 DEF DeviceRecord, MineOK, Children
    <3>2. device[d].dx.pnp \in Reported \cup {"Present"}
      BY <3>1 DEF DeviceOK, Dx, PnpState, Reported, Asking
    <3>3. DxOK(dx) /\ dx \in Dx /\ dx.pnp \in Reported
      <4>1. CASE device[d].dx.pnp = "Present"
        <5>1. dx \in Dx /\ dx.pnp = "Enumerated"  BY <3>1, <4>1 DEF SetPnp, Dx, PnpState
        <5> QED  BY <5>1 DEF DxOK, Reported
      <4>2. CASE device[d].dx.pnp # "Present"  BY <3>1, <3>2, <4>2
      <4> QED  BY <4>1, <4>2
    <3>4. reported(d) = [device[d] EXCEPT !.known = TRUE, !.dx = dx]  BY <3>1 DEF DeviceRecord
    <3> HIDE DEF dx
    <3> QED  BY <3>1, <3>3, <3>4 DEF DeviceRecord
  <2>5. NoDevice \in DeviceRecord /\ DxOK(NoDevice.dx) /\ NoDevice.dx.pnp = "None"
    BY DEF NoDevice, NoDx, DeviceRecord, Dx, PnpState, DxOK
  <2>6. \A d \in there : d \in Below(b) /\ device[d].dx.pnp # "None" /\ ~device[d].missing
    BY <2>2 DEF Children
  <2>7. \A d \in Below(b) : device[d].dx.pnp # "None" => d \in Children(b)  BY DEF Children, Below
  <2>8. \A d \in Below(b) : d \notin there => device[d].dx.pnp = "None" \/ device[d].missing  BY <2>7
  <2> HIDE DEF leaving, there, reported
  <2>9. \A d \in Device : device'[d] \in DeviceRecord /\ DxOK(device'[d].dx)
    BY <1>0, <2>3, <2>4, <2>5
  <2>10. Children(b)' = (Children(b) \ leaving) \cup {}
    <3>1. ASSUME NEW d \in Device
          PROVE  device'[d].dx.pnp # "None" <=> device[d].dx.pnp # "None" /\ d \notin leaving
      <4>1. CASE d \in there
        <5>1. device'[d].dx.pnp \in Reported  BY <2>3, <2>4, <4>1
        <5> QED  BY <2>2, <2>6, <4>1, <5>1 DEF Reported, Asking
      <4>2. CASE d \in leaving  BY <2>3, <2>5, <4>2
      <4>3. CASE d \notin there \cup leaving  BY <2>3, <4>3
      <4> QED  BY <4>1, <4>2, <4>3
    <3> QED  BY <2>2, <3>1 DEF Children
  <2>11. /\ bus'[b].dx = bus[b].dx /\ bus'[b].enumerated = bus[b].enumerated
         /\ bus'[b].references = bus[b].references - Cardinality(leaving)
         /\ \A c \in Bus \ {b} : bus'[c] = bus[c]
         /\ bus' \in [Bus -> BusRecord] /\ \A c \in Bus : DxOK(bus'[c].dx)
         /\ bus'[b].references = Cardinality(Children(b)') + 1
    <3>1. /\ Children(b) \subseteq Device /\ leaving \subseteq Children(b) /\ leaving \subseteq Device
          /\ {} \subseteq Device /\ {} \cap Children(b) = {}
      BY <2>2
    <3>2. /\ Cardinality((Children(b) \ leaving) \cup {}) =
               (Cardinality(Children(b)) - Cardinality(leaving)) + Cardinality({})
          /\ Cardinality(Children(b)) \in Nat /\ Cardinality(leaving) \in Nat
      <4>1. Cardinality((Children(b) \ leaving) \cup {}) =
              (Cardinality(Children(b)) - Cardinality(leaving)) + Cardinality({})
        BY <3>1, Counting
      <4> QED  BY <3>1, <4>1, Counted
    <3>3. Cardinality({}) = 0  BY FS_EmptySet
    <3>4. bus[b].references = Cardinality(Children(b)) + 1  BY <1>0, <1>4 DEF BusOK, References
    <3>5. bus \in [Bus -> BusRecord] /\ \A c \in Bus : DxOK(bus[c].dx)  BY <1>0 DEF FilterTypes
    <3> DEFINE n == bus[b].references - Cardinality(leaving)
    <3>6. n \in Int /\ n = Cardinality(Children(b)') + 1  BY <2>10, <3>2, <3>3, <3>4
    <3>7. bus' = [bus EXCEPT ![b] = [bus[b] EXCEPT !.references = n]]  BY <2>1, <3>5
    <3> HIDE DEF n
    <3>8. bus'[b] = [bus[b] EXCEPT !.references = n] /\ \A c \in Bus \ {b} : bus'[c] = bus[c]
      BY <3>5, <3>7
    <3>9. /\ bus'[b].dx = bus[b].dx /\ bus'[b].enumerated = bus[b].enumerated /\ bus'[b].references = n
          /\ bus'[b] \in BusRecord
      BY <1>0, <3>6, <3>8 DEF BusRecord
    <3>10. bus' \in [Bus -> BusRecord] /\ \A c \in Bus : DxOK(bus'[c].dx)
      BY <3>5, <3>7, <3>8, <3>9
    <3> QED  BY <3>6, <3>8, <3>9, <3>10 DEF n
  <2>12. FilterTypes'
    <3>1. device' \in [Device -> DeviceRecord]  BY <2>1, <2>9
    <3> QED  BY <1>0, <1>1, <1>2, <2>9, <2>11, <3>1 DEF FilterTypes
  <2>13. BusOK(b)'
    <3>1. References(b)'  BY <1>4, <2>11 DEF References
    <3> QED  BY <1>1, <1>2, <1>4, <1>6, <2>11, <3>1 DEF BusOK
  <2>14. ASSUME NEW d \in Below(b) PROVE DeviceOK(d)'
    <3>1. d \in Device /\ BusOf[d] = b /\ DeviceOK(d) /\ d \notin ejecting'
          /\ FilterState' = "DISABLED" /\ query'[b].at = "idle" /\ UNCHANGED onBus
      BY <1>0, <1>1, <1>2, <1>4, <1>6 DEF Below, MineOK
    <3>2. CASE d \in there
      <4>1. device'[d].known = TRUE /\ device'[d].missing = FALSE /\ device'[d].dx.pnp \in Reported
        BY <2>3, <2>4, <3>1, <3>2
      <4> QED  BY <3>1, <4>1 DEF DeviceOK, Reported, Asking
    <3>3. CASE d \in leaving
      <4>1. device'[d] = NoDevice  BY <2>3, <3>1, <3>3
      <4> QED  BY <3>1, <4>1 DEF DeviceOK, NoDevice, NoDx
    <3>4. CASE d \notin there \cup leaving
      <4>1. device'[d] = device[d]  BY <2>3, <3>1, <3>4
      <4> QED  BY <1>1, <3>1, <4>1 DEF DeviceOK
    <3> QED  BY <3>2, <3>3, <3>4
  <2>15. ASSUME NEW d \in Below(b) \cap Emulated PROVE UnpluggedOK(d)'
    <3>1. d \in Device /\ BusOf[d] = b /\ UnpluggedOK(d) /\ DeviceOK(d)'
      BY <1>0, <2>14 DEF Below, MineOK
    <3>2. oneBus /\ unplugged /\ d \in there => b \in failed
      BY <1>1, <1>6, <2>6, <3>1 DEF UnpluggedOK
    <3>3. oneBus /\ unplugged /\ device'[d].known /\ ~device'[d].missing => b \in failed
      <4>1. CASE d \in there  BY <3>2, <4>1
      <4>2. CASE d \in leaving  BY <2>3, <3>1, <4>2 DEF NoDevice
      <4>3. CASE d \notin there \cup leaving  BY <2>3, <3>1, <4>3 DEF UnpluggedOK
      <4> QED  BY <4>1, <4>2, <4>3
    <3> QED  BY <1>1, <1>2, <3>1, <3>3 DEF UnpluggedOK
  <2>16. MineOK(b)'  BY <2>13, <2>14, <2>15 DEF MineOK, Below
  <2>17. \A d \in Device \ Below(b) : device'[d] = device[d]  BY <2>2, <2>3
  <2> QED  BY <1>0, <1>1, <1>2, <1>3, <2>1, <2>11, <2>12, <2>16, <2>17, Elsewhere
<1> QED  BY <1>5, <1>6

\* A request that leaves a device on the list of its bus.
LEMMA DeviceStep ==
  ASSUME FilterIInv, NEW d \in Device, ~Busy(BusOf[d]), device[d].dx.pnp # "None",
         NEW dev, dev \in DeviceRecord, DxOK(dev.dx), dev.dx.pnp # "None",
         device' = [device EXCEPT ![d] = dev],
         DeviceOK(d)', d \in Emulated => UnpluggedOK(d)',
         invalid \subseteq invalid', invalid' \subseteq invalid \cup {BusOf[d]},
         ejecting' = ejecting \/ ejecting' = ejecting \cup {d},
         UNCHANGED <<driverVars, bus, query, failed, onBus, oneBus, violated>>
  PROVE  FilterIInv'
<1> DEFINE b == BusOf[d]
<1>0. b \in Bus /\ d \in Below(b)  BY FilterAssumption DEF Below
<1>1. /\ FilterTypes /\ MineOK(b) /\ BusOK(b) /\ ~violated  BY <1>0 DEF FilterIInv, MineOK
<1>2. UNCHANGED <<FilterState, unplugged, bus, query, failed, onBus, oneBus, violated>>
  BY DEF driverVars
<1>3. /\ device'[d] = dev /\ \A e \in Device \ {d} : device'[e] = device[e]
      /\ device' \in [Device -> DeviceRecord] /\ \A e \in Device : DxOK(device'[e].dx)
  <2>1. device \in [Device -> DeviceRecord] /\ \A e \in Device : DxOK(device[e].dx)
    BY <1>1 DEF FilterTypes
  <2> QED  BY <2>1
<1>4. FilterTypes'
  <2>1. ejecting' \in SUBSET Device  BY <1>1 DEF FilterTypes
  <2> QED  BY <1>1, <1>2, <1>3, <2>1 DEF FilterTypes
<1>5. OneQuery'  BY <1>2, Quiet
<1>6. \A e \in Device \ {d} : e \in ejecting' <=> e \in ejecting
  OBVIOUS
<1>7. query[b].at = "idle"  BY DEF Busy
<1> HIDE DEF b
<1>8. BusOK(b)'
  <2>1. Children(b)' = Children(b)  BY <1>3 DEF Children
  <2>2. References(b)'  BY <1>1, <1>2, <2>1 DEF BusOK, References
  <2> QED  BY <1>1, <1>2, <1>7, <2>2 DEF BusOK, Below
<1>9. ASSUME NEW e \in Below(b) PROVE DeviceOK(e)'
  <2>1. CASE e = d  BY <2>1
  <2>2. CASE e # d
    <3>1. /\ e \in Device /\ DeviceOK(e) /\ device'[e] = device[e] /\ (e \in ejecting' <=> e \in ejecting)
      BY <1>1, <1>3, <1>6, <2>2 DEF Below, MineOK
    <3> QED  BY <1>2, <3>1 DEF DeviceOK
  <2> QED  BY <2>1, <2>2
<1>10. ASSUME NEW e \in Below(b) \cap Emulated PROVE UnpluggedOK(e)'
  <2>1. CASE e = d  BY <2>1
  <2>2. CASE e # d
    <3>1. e \in Device /\ UnpluggedOK(e) /\ device'[e] = device[e]  BY <1>1, <1>3, <2>2 DEF Below, MineOK
    <3> QED  BY <1>2, <3>1 DEF UnpluggedOK
  <2> QED  BY <2>1, <2>2
<1>11. MineOK(b)'  BY <1>8, <1>9, <1>10 DEF MineOK, Below
<1>12. \A c \in Bus \ {b} : c \in invalid' <=> c \in invalid  BY DEF b
<1>13. \A e \in Device \ Below(b) : device'[e] = device[e] /\ (e \in ejecting' <=> e \in ejecting)
  BY <1>0, <1>3, <1>6
<1> QED  BY <1>0, <1>1, <1>2, <1>4, <1>5, <1>11, <1>12, <1>13, Elsewhere

\* Requests of the first two kinds and power requests change no more than the states.
LEMMA DeviceRequest ==
  ASSUME FilterIInv, NEW d \in Device, ~Busy(BusOf[d]), device[d].dx.pnp \in Reported \cup {"Added"},
         NEW dx, DxOK(dx), dx.pnp \in Reported, device' = [device EXCEPT ![d].dx = dx],
         UNCHANGED <<driverVars, bus, relationVars, onBus, ejecting, oneBus, violated>>
  PROVE  FilterIInv'
<1>0. /\ BusOf[d] \in Bus /\ d \in Below(BusOf[d])  BY FilterAssumption DEF Below
<1>1. /\ FilterTypes /\ DeviceOK(d) /\ (d \in Emulated => UnpluggedOK(d)) /\ device[d] \in DeviceRecord
  BY <1>0 DEF FilterIInv, MineOK, FilterTypes
<1>2. UNCHANGED <<FilterState, unplugged, bus, query, invalid, failed, onBus, ejecting, oneBus, violated>>
  BY DEF driverVars, relationVars
<1> DEFINE dev == [device[d] EXCEPT !.dx = dx]
<1>3. device' = [device EXCEPT ![d] = dev]
  OBVIOUS
<1>4. /\ dev \in DeviceRecord /\ dev.dx = dx /\ dev.known = device[d].known /\ dev.missing = device[d].missing
  BY <1>1 DEF DeviceRecord, DxOK
<1> HIDE DEF dev
<1>5. device'[d] = dev  BY <1>1, <1>3 DEF FilterTypes
<1>6. device[d].dx.pnp \notin {"None", "Deleted", "Added"} /\ dx.pnp \notin {"None", "Deleted", "Added"}
  BY <1>1 DEF DeviceOK, Reported, Asking
<1>7. DeviceOK(d)'  BY <1>1, <1>2, <1>4, <1>5, <1>6 DEF DeviceOK
<1>8. d \in Emulated => UnpluggedOK(d)'  BY <1>1, <1>2, <1>4, <1>5, <1>6 DEF UnpluggedOK
<1> QED  BY <1>2, <1>3, <1>4, <1>6, <1>7, <1>8, DeviceStep

LEMMA DeviceRequests ==
  ASSUME FilterIInv, NEW d \in Device,
         \/ PdoDispatchStop(d) \/ PdoDispatchRemove(d) \/ PdoSetDevicePower(d) \/ PdoSetSystemPower(d)
  PROVE  FilterIInv'
<1>0. /\ DxOK(device[d].dx) /\ device[d] \in DeviceRecord  BY DEF FilterIInv, FilterTypes
<1>1. CASE PdoDispatchStop(d) \/ PdoDispatchRemove(d)
  <2>1. PICK r \in StopRequests(device[d].dx) \cup RemoveRequests(device[d].dx) :
          device[d].dx.pnp \in r.on /\ device' = [device EXCEPT ![d].dx = r.dx]
    BY <1>1 DEF PdoDispatchStop, PdoDispatchRemove
  <2>2. /\ DxOK(r.dx) /\ device[d].dx.pnp \in Reported \cup {"Added"}
        /\ r.dx.pnp \in Asking \cup {"Stopped", "SurpriseRemovePending"}
    BY <1>0, <2>1, Requested
  <2>3. r.dx.pnp \in Reported  BY <2>2 DEF Reported
  <2>4. /\ ~Busy(BusOf[d])
        /\ UNCHANGED <<driverVars, bus, relationVars, onBus, ejecting, oneBus, violated>>
    BY <1>1 DEF PdoDispatchStop, PdoDispatchRemove
  <2> QED  BY <2>1, <2>2, <2>3, <2>4, DeviceRequest
<1>2. CASE PdoSetDevicePower(d) \/ PdoSetSystemPower(d)
  <2>1. /\ ~Busy(BusOf[d]) /\ Powered(device[d].dx)
        /\ UNCHANGED <<driverVars, bus, relationVars, onBus, ejecting, oneBus, violated>>
    BY <1>2 DEF PdoSetDevicePower, PdoSetSystemPower, PdoDispatchPower
  <2>2. device[d].dx.pnp \in {"Started", "StopPending", "RemovePending"}  BY <2>1 DEF Powered
  <2>3. PICK dx : DxOK(dx) /\ dx.pnp = device[d].dx.pnp /\ device' = [device EXCEPT ![d].dx = dx]
    <3>1. CASE PdoSetDevicePower(d)
      <4>1. PICK state \in {"D0", "D3"} : device' = [device EXCEPT ![d].dx.power = state]
        BY <3>1 DEF PdoSetDevicePower
      <4> DEFINE dx == [device[d].dx EXCEPT !.power = state]
      <4>2. DxOK(dx) /\ dx.pnp = device[d].dx.pnp  BY <1>0, <2>2 DEF DxOK, Dx
      <4>3. device' = [device EXCEPT ![d].dx = dx]  BY <4>1
      <4> QED  BY <4>2, <4>3
    <3>2. CASE PdoSetSystemPower(d)
      <4>1. PICK state \in {"S0", "S4"} : device' = [device EXCEPT ![d].dx.system = state]
        BY <3>2 DEF PdoSetSystemPower
      <4> DEFINE dx == [device[d].dx EXCEPT !.system = state]
      <4>2. DxOK(dx) /\ dx.pnp = device[d].dx.pnp  BY <1>0, <2>2 DEF DxOK, Dx
      <4>3. device' = [device EXCEPT ![d].dx = dx]  BY <4>1
      <4> QED  BY <4>2, <4>3
    <3> QED  BY <1>2, <3>1, <3>2
  <2>4. dx.pnp \in Reported /\ device[d].dx.pnp \in Reported \cup {"Added"}
    BY <2>2, <2>3 DEF Reported, Asking
  <2> QED  BY <2>1, <2>3, <2>4, DeviceRequest
<1> QED  BY <1>1, <1>2

\* A device that goes, and its bus with it when that was deleted before and has no other device.
LEMMA DeviceGoes ==
  ASSUME FilterIInv, NEW d \in Device, device[d].dx.pnp # "None", device[d].missing,
         query[BusOf[d]].at = "idle",
         device' = [device EXCEPT ![d] = NoDevice], ejecting' = ejecting \ {d},
         FdoReleaseMutex(BusOf[d], 1), ~violated',
         UNCHANGED <<driverVars, relationVars, onBus, oneBus>>
  PROVE  FilterIInv'
<1> DEFINE b == BusOf[d]
           kept == [bus[b] EXCEPT !.references = bus[b].references - 1]
<1>0. b \in Bus /\ d \in Below(b)  BY FilterAssumption DEF Below
<1>1. /\ FilterTypes /\ MineOK(b) /\ BusOK(b) /\ bus[b] \in BusRecord
  BY <1>0 DEF FilterIInv, MineOK, FilterTypes
<1>2. UNCHANGED <<FilterState, unplugged, query, invalid, failed, onBus, oneBus>>
  BY DEF driverVars, relationVars
<1>3. NoDevice \in DeviceRecord /\ DxOK(NoDevice.dx) /\ NoDevice.dx.pnp = "None"
  BY DEF NoDevice, NoDx, DeviceRecord, Dx, PnpState, DxOK
<1>4. /\ device'[d] = NoDevice /\ \A e \in Device \ {d} : device'[e] = device[e]
      /\ device' \in [Device -> DeviceRecord] /\ \A e \in Device : DxOK(device'[e].dx)
  <2>1. device \in [Device -> DeviceRecord] /\ \A e \in Device : DxOK(device[e].dx)
    BY <1>1 DEF FilterTypes
  <2> QED  BY <1>3, <2>1
<1>5. NoBus \in BusRecord /\ DxOK(NoBus.dx) /\ NoBus.dx.pnp = "None" /\ NoBus.references = 0
  BY DEF NoBus, NoDx, BusRecord, Dx, PnpState, DxOK
<1>6. Children(b)' = (Children(b) \ {d}) \cup {}  BY <1>3, <1>4 DEF Children
<1>7. /\ Cardinality(Children(b)') = Cardinality(Children(b)) - 1
      /\ Cardinality(Children(b)) \in Nat /\ Cardinality(Children(b)') \in Nat
  <2>1. /\ Children(b) \subseteq Device /\ {d} \subseteq Children(b) /\ Children(b)' \subseteq Device
        /\ {} \subseteq Device /\ {} \cap Children(b) = {}
    BY <1>6 DEF Children
  <2> HIDE DEF b
  <2>2. Cardinality((Children(b) \ {d}) \cup {}) = (Cardinality(Children(b)) - Cardinality({d})) + Cardinality({})
    BY <2>1, Counting
  <2>3. Cardinality({}) = 0 /\ Cardinality({d}) = 1  BY FS_EmptySet, FS_Singleton
  <2>4. Cardinality(Children(b)) \in Nat  BY <2>1, Counted
  <2>5. Cardinality(Children(b)') \in Nat  BY <2>1, Counted
  <2> QED  BY <1>6, <2>2, <2>3, <2>4, <2>5
<1>8. bus' = [bus EXCEPT ![b] = IF bus[b].references = 1 THEN NoBus ELSE kept]
  BY DEF FdoReleaseMutex
<1> HIDE DEF b
<1>9. kept \in BusRecord /\ kept.dx = bus[b].dx /\ kept.references = bus[b].references - 1
      /\ kept.enumerated = bus[b].enumerated
  BY <1>1 DEF BusRecord
<1> HIDE DEF kept
<1>10. /\ bus'[b] = (IF bus[b].references = 1 THEN NoBus ELSE kept) /\ \A c \in Bus \ {b} : bus'[c] = bus[c]
       /\ bus' \in [Bus -> BusRecord] /\ \A c \in Bus : DxOK(bus'[c].dx)
  <2>1. bus \in [Bus -> BusRecord] /\ \A c \in Bus : DxOK(bus[c].dx)  BY <1>1 DEF FilterTypes
  <2>2. /\ (IF bus[b].references = 1 THEN NoBus ELSE kept) \in BusRecord
        /\ DxOK((IF bus[b].references = 1 THEN NoBus ELSE kept).dx)
    BY <1>0, <1>5, <1>9, <2>1
  <2> QED  BY <1>0, <1>8, <2>1, <2>2
<1>11. FilterTypes'
  <2>1. ejecting' \in SUBSET Device /\ violated' = violated'  BY <1>1 DEF FilterTypes
  <2> QED  BY <1>1, <1>2, <1>4, <1>10, <2>1 DEF FilterTypes
<1>12. OneQuery'  BY <1>2, Quiet
<1>13. query[b].at = "idle"  BY DEF b
<1>14. BusOK(b)'
  <2>1. References(b)  BY <1>1 DEF BusOK
  <2>2. CASE bus[b].references = 1
    <3>1. bus'[b] = NoBus  BY <1>10, <2>2
    <3>2. Cardinality(Children(b)') = 0  BY <1>7, <2>1, <2>2 DEF References
    <3>3. References(b)'  BY <1>5, <3>1, <3>2 DEF References
    <3> QED  BY <1>1, <1>2, <1>5, <1>13, <3>1, <3>3 DEF BusOK, Asking, Below
  <2>3. CASE bus[b].references # 1
    <3>1. bus'[b] = kept  BY <1>10, <2>3
    <3>2. References(b)'  BY <1>7, <1>9, <2>1, <3>1 DEF References
    <3>3. bus[b].dx.pnp # "None"
      <4>1. bus[b].dx.pnp = "None" => Cardinality(Children(b)) = 0
        BY <1>1, <1>7, <2>1 DEF References, BusOK, NoBus
      <4> QED  BY <1>7, <4>1
    <3> QED  BY <1>1, <1>2, <1>9, <1>13, <3>1, <3>2, <3>3 DEF BusOK, Below
  <2> QED  BY <2>2, <2>3
<1>15. ASSUME NEW e \in Below(b) PROVE DeviceOK(e)'
  <2>1. e \in Device /\ BusOf[e] = b /\ DeviceOK(e)  BY <1>1 DEF Below, MineOK
  <2>2. CASE e = d  BY <1>2, <1>4, <1>13, <2>1, <2>2 DEF DeviceOK, NoDevice, NoDx
  <2>3. CASE e # d
    <3>1. device'[e] = device[e] /\ (e \in ejecting' <=> e \in ejecting)  BY <1>4, <2>1, <2>3
    <3> QED  BY <1>2, <2>1, <3>1 DEF DeviceOK
  <2> QED  BY <2>2, <2>3
<1>16. ASSUME NEW e \in Below(b) \cap Emulated PROVE UnpluggedOK(e)'
  <2>1. e \in Device /\ BusOf[e] = b /\ UnpluggedOK(e)  BY <1>1 DEF Below, MineOK
  <2>2. CASE e = d  BY <1>2, <1>4, <1>13, <2>1, <2>2 DEF UnpluggedOK, NoDevice, NoDx
  <2>3. CASE e # d
    <3>1. device'[e] = device[e]  BY <1>4, <2>1, <2>3
    <3> QED  BY <1>2, <2>1, <3>1 DEF UnpluggedOK
  <2> QED  BY <2>2, <2>3
<1>17. MineOK(b)'  BY <1>14, <1>15, <1>16 DEF MineOK, Below
<1>18. \A e \in Device \ Below(b) : device'[e] = device[e] /\ (e \in ejecting' <=> e \in ejecting)
  BY <1>0, <1>4 DEF b
<1>19. UNCHANGED <<FilterState, unplugged, oneBus>>
       /\ \A c \in Bus \ {b} : /\ bus'[c] = bus[c] /\ query'[c] = query[c]
                               /\ (c \in invalid' <=> c \in invalid) /\ (c \in failed' <=> c \in failed)
  BY <1>2, <1>10
<1>20. \A e \in Device \ Below(b) : /\ device'[e] = device[e]
                                  /\ (e \in onBus' <=> e \in onBus) /\ (e \in ejecting' <=> e \in ejecting)
  BY <1>2, <1>18
<1>21. b \in Bus  BY <1>0 DEF b
<1> QED  BY <1>11, <1>12, <1>17, <1>19, <1>20, <1>21, Elsewhere

LEMMA DeviceEnds ==
  ASSUME FilterIInv, NEW d \in Device, PdoRemoveDevice(d) \/ PdoEject(d) \/ PdoEjected(d)
  PROVE  FilterIInv'
<1> DEFINE b == BusOf[d]
<1>0. b \in Bus /\ d \in Below(b)  BY FilterAssumption DEF Below
<1>1. /\ FilterTypes /\ BusOK(b) /\ DeviceOK(d) /\ (d \in Emulated => UnpluggedOK(d)) /\ ~violated
      /\ device[d] \in DeviceRecord /\ DxOK(device[d].dx) /\ device[d].dx \in Dx
      /\ device \in [Device -> DeviceRecord]
  BY <1>0 DEF FilterIInv, MineOK, FilterTypes, DeviceRecord
<1>2. CASE PdoRemoveDevice(d)
  <2> DEFINE dx == [device[d].dx EXCEPT !.power = "D3"]
             now == device[d].missing /\ dx.pnp = "SurpriseRemovePending"
             next == SetPnp(dx, IF device[d].missing THEN "Deleted" ELSE "Enumerated")
             dev == [device[d] EXCEPT !.dx = next, !.known = ~device[d].missing]
  <2>1. /\ device[d].known /\ ~Busy(b)
        /\ device' = [device EXCEPT ![d] = IF now THEN NoDevice ELSE dev]
        /\ IF now THEN FdoReleaseMutex(b, 1) ELSE UNCHANGED bus
        /\ invalid' = IF device[d].missing /\ ~now THEN invalid \cup {b} ELSE invalid
        /\ UNCHANGED <<driverVars, query, failed, onBus, ejecting, oneBus, violated>>
    BY <1>2 DEF PdoRemoveDevice
  <2>2. /\ query[b].at = "idle" /\ d \notin ejecting  BY <2>1 DEF Busy
  <2>3. device[d].dx.pnp \in Reported /\ device[d].dx.pnp # "None"
    BY <1>1, <2>1 DEF DeviceOK, Reported, Asking
  <2>4. CASE now
    <3>1. /\ device' = [device EXCEPT ![d] = NoDevice] /\ FdoReleaseMutex(BusOf[d], 1)
          /\ UNCHANGED <<driverVars, relationVars, onBus, oneBus>> /\ ~violated'
      BY <1>1, <2>1, <2>4 DEF relationVars
    <3>2. ejecting' = ejecting \ {d}  BY <2>1, <2>2
    <3>3. query[BusOf[d]].at = "idle" /\ device[d].missing  BY <2>2, <2>4
    <3> QED  BY <2>3, <3>1, <3>2, <3>3, DeviceGoes
  <2>5. CASE ~now
    <3>1. /\ next \in Dx /\ next.pnp = (IF device[d].missing THEN "Deleted" ELSE "Enumerated")
      BY <1>1 DEF SetPnp, Dx, PnpState
    <3>2. DxOK(next) /\ next.pnp # "None" /\ next.pnp # "Added"
      <4> HIDE DEF next
      <4> QED  BY <3>1 DEF DxOK
    <3>3. device' = [device EXCEPT ![d] = dev]  BY <2>1, <2>5
    <3> HIDE DEF next
    <3>4. /\ dev \in DeviceRecord /\ dev.dx = next /\ dev.known = ~device[d].missing
          /\ dev.missing = device[d].missing
      BY <1>1, <3>1 DEF DeviceRecord
    <3> HIDE DEF dev
    <3>5. device'[d] = dev  BY <1>1, <3>3
    <3>6. UNCHANGED <<FilterState, unplugged, bus, query, failed, onBus, ejecting, oneBus, violated>>
      BY <2>1, <2>5 DEF driverVars
    <3>7. DeviceOK(d)'  BY <1>1, <2>1, <2>2, <3>1, <3>2, <3>4, <3>5, <3>6 DEF DeviceOK, Reported
    <3>8. d \in Emulated => UnpluggedOK(d)'  BY <1>1, <2>1, <2>2, <3>4, <3>5, <3>6 DEF UnpluggedOK
    <3>9. invalid \subseteq invalid' /\ invalid' \subseteq invalid \cup {BusOf[d]}  BY <2>1
    <3>10. /\ UNCHANGED <<driverVars, bus, query, failed, onBus, oneBus, violated>> /\ ejecting' = ejecting
           /\ ~Busy(BusOf[d])
      BY <2>1, <2>5
    <3> QED  BY <2>3, <3>2, <3>3, <3>4, <3>7, <3>8, <3>9, <3>10, DeviceStep
  <2> QED  BY <2>4, <2>5
<1>3. CASE PdoEject(d)
  <2> DEFINE next == SetPnp(device[d].dx, "Deleted")
             dev == [device[d] EXCEPT !.missing = TRUE, !.dx = next, !.known = FALSE]
  <2>1. /\ device[d].known /\ ~Busy(b) /\ device[d].dx.pnp = "Enumerated"
        /\ device' = [device EXCEPT ![d] = dev]
        /\ ejecting' = ejecting \cup {d} /\ invalid' = invalid
        /\ UNCHANGED <<driverVars, bus, query, failed, onBus, oneBus, violated>>
    <3>1. device' = [device EXCEPT ![d].missing = TRUE, ![d].dx = SetPnp(@, "Deleted"), ![d].known = FALSE]
      BY <1>3 DEF PdoEject
    <3>2. device' = [device EXCEPT ![d] = dev]  BY <1>1, <3>1 DEF DeviceRecord
    <3> QED  BY <1>3, <3>2 DEF PdoEject, relationVars
  <2>2. next \in Dx /\ next.pnp = "Deleted"  BY <1>1 DEF SetPnp, Dx, PnpState
  <2> HIDE DEF next
  <2>3. DxOK(next)  BY <2>2 DEF DxOK
  <2>4. dev \in DeviceRecord /\ dev.dx = next /\ dev.known = FALSE /\ dev.missing = TRUE
    BY <1>1, <2>2 DEF DeviceRecord
  <2> HIDE DEF dev
  <2>5. device'[d] = dev /\ d \in ejecting'  BY <1>1, <2>1
  <2>6. query[b].at = "idle"  BY <2>1 DEF Busy
  <2>7. UNCHANGED <<FilterState, unplugged, bus, query, failed, onBus, oneBus, violated>>
    BY <2>1 DEF driverVars
  <2>8. DeviceOK(d)'  BY <1>1, <2>2, <2>4, <2>5, <2>6, <2>7 DEF DeviceOK
  <2>9. d \in Emulated => UnpluggedOK(d)'  BY <1>1, <2>4, <2>5, <2>6, <2>7 DEF UnpluggedOK
  <2>10. /\ invalid \subseteq invalid' /\ invalid' \subseteq invalid \cup {BusOf[d]}
         /\ device[d].dx.pnp # "None" /\ dev.dx.pnp # "None" /\ DxOK(dev.dx)
    BY <2>1, <2>2, <2>3, <2>4
  <2> QED  BY <2>1, <2>4, <2>8, <2>9, <2>10, DeviceStep
<1>4. CASE PdoEjected(d)
  <2>1. /\ d \in ejecting /\ ejecting' = ejecting \ {d}
        /\ violated' = (violated \/ device[d].dx.pnp # "Deleted")
        /\ device' = [device EXCEPT ![d] = NoDevice]
        /\ FdoReleaseMutex(BusOf[d], 1)
        /\ UNCHANGED <<driverVars, relationVars, onBus, oneBus>>
    BY <1>4 DEF PdoEjected
  <2>2. device[d].dx.pnp = "Deleted" /\ device[d].missing  BY <1>1, <2>1 DEF DeviceOK
  <2>3. query[BusOf[d]].at = "idle"  BY <1>0, <1>1, <2>1 DEF BusOK
  <2>4. ~violated'  BY <1>1, <2>1, <2>2
  <2>5. device[d].dx.pnp # "None"  BY <2>2
  <2> QED  BY <2>1, <2>2, <2>3, <2>4, <2>5, DeviceGoes
<1> QED  BY <1>2, <1>3, <1>4

LEMMA Plugged == ASSUME FilterIInv, NEW d \in Device, Hotplug(d) PROVE FilterIInv'
<1> DEFINE b == BusOf[d]
<1>0. b \in Bus /\ d \in Below(b)  BY FilterAssumption DEF Below
<1>1. /\ FilterTypes /\ MineOK(b) /\ BusOK(b) /\ DeviceOK(d) /\ ~violated
  BY <1>0 DEF FilterIInv, MineOK
<1>2. /\ \/ onBus' = onBus \ {d}
         \/ /\ d \notin onBus \cup (IF unplugged THEN Emulated ELSE {})
            /\ device[d].dx.pnp = "None" /\ onBus' = onBus \cup {d}
      /\ invalid' = invalid \cup {b}
      /\ UNCHANGED <<FilterState, unplugged, bus, device, query, failed, ejecting, oneBus, violated>>
  BY DEF Hotplug, driverVars
<1> HIDE DEF b
<1>3. FilterTypes'
  <2>1. onBus' \in SUBSET Device  BY <1>1, <1>2 DEF FilterTypes
  <2> QED  BY <1>1, <1>2, <2>1 DEF FilterTypes
<1>4. OneQuery'  BY <1>2, Quiet
<1>5. \A e \in Device \ {d} : e \in onBus' <=> e \in onBus  BY <1>2
<1>6. BusOK(b)'
  <2>1. Children(b)' = Children(b)  BY <1>2 DEF Children
  <2>2. References(b)'  BY <1>1, <1>2, <2>1 DEF BusOK, References
  <2> QED  BY <1>1, <1>2, <2>2 DEF BusOK, Below
<1>7. ASSUME NEW e \in Below(b) PROVE DeviceOK(e)'
  <2>1. e \in Device /\ BusOf[e] = b /\ DeviceOK(e)  BY <1>1 DEF Below, MineOK
  <2>2. CASE e # d
    <3>1. e \in onBus' <=> e \in onBus  BY <1>5, <2>1, <2>2
    <3> QED  BY <1>2, <2>1, <3>1 DEF DeviceOK
  <2>3. CASE e = d /\ onBus' = onBus \ {d}  BY <1>2, <2>1, <2>3 DEF DeviceOK
  <2>4. CASE e = d /\ device[d].dx.pnp = "None"
    <3>1. device'[e] = NoDevice  BY <1>2, <2>1, <2>4 DEF DeviceOK
    <3> QED  BY <1>2, <2>1, <3>1 DEF DeviceOK, NoDevice, NoDx
  <2> QED  BY <1>2, <2>2, <2>3, <2>4
<1>8. ASSUME NEW e \in Below(b) \cap Emulated PROVE UnpluggedOK(e)'
  <2>1. e \in Device /\ BusOf[e] = b /\ UnpluggedOK(e)  BY <1>1 DEF Below, MineOK
  <2>2. unplugged /\ e \notin onBus => e \notin onBus'  BY <1>2
  <2> QED  BY <1>2, <2>1, <2>2 DEF UnpluggedOK
<1>9. MineOK(b)'  BY <1>6, <1>7, <1>8 DEF MineOK, Below
<1>10. b \in Bus /\ \A e \in Device \ Below(b) : e \in onBus' <=> e \in onBus  BY <1>0, <1>5 DEF b
<1>11. \A c \in Bus \ {b} : c \in invalid' <=> c \in invalid  BY <1>2
<1> QED  BY <1>1, <1>2, <1>3, <1>4, <1>9, <1>10, <1>11, Elsewhere

LEMMA FilterSteps == ASSUME FilterIInv, [FilterNext]_filterVars PROVE FilterIInv'
<1>1. CASE UNCHANGED filterVars
  <2>1. UNCHANGED <<FilterState, unplugged, bus, device, query, onBus, invalid, failed, ejecting, oneBus,
                    violated>>
    BY <1>1 DEF filterVars
  <2>2. FilterTypes' = FilterTypes  BY <2>1 DEF FilterTypes
  <2>3. OneQuery' = OneQuery  BY <2>1 DEF OneQuery
  <2>4. ASSUME NEW b \in Bus PROVE MineOK(b)'
    <3>1. MineOK(b)  BY DEF FilterIInv
    <3>2. Children(b)' = Children(b)  BY <2>1 DEF Children
    <3>3. BusOK(b)'  BY <2>1, <3>1, <3>2 DEF MineOK, BusOK, References, Below
    <3>4. \A d \in Below(b) : DeviceOK(d)'  BY <2>1, <3>1 DEF MineOK, DeviceOK
    <3>5. \A d \in Below(b) \cap Emulated : UnpluggedOK(d)'  BY <2>1, <3>1 DEF MineOK, UnpluggedOK
    <3> QED  BY <3>3, <3>4, <3>5 DEF MineOK, Below
  <2> QED  BY <2>1, <2>2, <2>3, <2>4 DEF FilterIInv
<1>2. ASSUME NEW b \in Bus,
             \/ DriverAddDevice(b) \/ FdoDispatchStop(b) \/ FdoDispatchRemove(b) \/ FdoRemoveDevice(b)
             \/ FdoQueryDeviceRelations(b) \/ FdoEnumerate(b) \/ FdoEnumerateNothing(b)
             \/ FdoSetEnumerated(b) \/ FdoReportRelations(b) \/ FdoQueryFails(b)
             \/ FdoSetDevicePower(b) \/ FdoSetSystemPower(b)
      PROVE  FilterIInv'
  BY <1>2, DriverAdds, BusRequests, BusGoes, QueryStarts, ListTakenIn, QueryFails, FilterMovesOn,
     RelationsReported
<1>3. ASSUME NEW d \in Device,
             \/ PdoDispatchStop(d) \/ PdoDispatchRemove(d) \/ PdoRemoveDevice(d)
             \/ PdoEject(d) \/ PdoEjected(d)
             \/ PdoSetDevicePower(d) \/ PdoSetSystemPower(d) \/ Hotplug(d)
      PROVE  FilterIInv'
  BY <1>3, DeviceRequests, DeviceEnds, Plugged
<1> QED  BY <1>1, <1>2, <1>3 DEF FilterNext

\* Whatever PnP and power requests come, from however many buses: the assertions of the filter
\* hold, a bus is kept by as many references as it needs, and nothing is reported that should be
\* hidden or was unplugged.
THEOREM HiddenUntilOpen == FilterSpec => []FilterInv
<1>1. FilterInit => FilterIInv  BY FilterStart
<1>2. FilterIInv /\ [FilterNext]_filterVars => FilterIInv'  BY FilterSteps
<1>3. FilterIInv => FilterInv
  <2> SUFFICES ASSUME FilterIInv PROVE FilterInv
    OBVIOUS
  <2>1. /\ FilterTypes /\ ~violated
        /\ \A b \in Bus : BusOK(b)
        /\ \A d \in Device : DeviceOK(d) /\ (d \in Emulated => UnpluggedOK(d)) /\ BusOf[d] \in Bus
    BY FilterAssumption DEF FilterIInv, MineOK, Below
  <2>2. FilterReferences  BY <2>1 DEF FilterReferences, BusOK, References
  <2>3. FilterState # "DISABLED" => \A d \in Device : ~device[d].known  BY <2>1 DEF DeviceOK
  <2>4. unplugged /\ oneBus => \A d \in Emulated : device[d].known /\ ~device[d].missing =>
          BusOf[d] \in invalid \cup failed \/ query[BusOf[d]].at # "idle"
    BY <2>1, FilterAssumption DEF UnpluggedOK
  <2>5. FilterState # "DISABLED" => \A b \in Attached \ failed :
          bus[b].enumerated /\ bus[b].dx.pnp = "Started" => b \in invalid \/ query[b].at # "idle"
    BY <2>1 DEF Attached, BusOK, Asking
  <2> QED  BY <2>2, <2>3, <2>4, <2>5 DEF FilterInv, HiddenUntilUnplugged
<1> QED  BY <1>1, <1>2, <1>3, PTL DEF FilterSpec

-----------------------------------------------------------------------------
(* Store.                                                                  *)

-----------------------------------------------------------------------------
(* The invariant: what the lists, the calls and xenstored know of a client *)

WatchIds == 0 .. IdMod - 1
Calls == {"none", "TransactionStart", "TransactionEnd", "WatchAdd", "WatchRemove", "Read", "Write"}
Requests == [type : {"none", "TRANSACTION_START", "TRANSACTION_END", "WATCH", "UNWATCH", "READ"},
             tx_id : TxIds \union {0}]
Responses == [status : {"none", "ok", "again", "error", "null"}, id : TxIds \union {0}]

\* StoreInv without the identity of the watches: the context and its objects, the
\* calls, and what xenstored and the bounds keep.
ObjectTypes ==
  /\ references \subseteq Clients /\ WatchId \in WatchIds
  /\ TransactionList \subseteq Clients /\ WatchList \subseteq Clients /\ BufferList \subseteq Clients
  /\ transaction \in [Clients -> [Id : TxIds \union {0}, Active : BOOLEAN]]
  /\ watch \in [Clients -> [Id : WatchIds, Active : BOOLEAN]]
  /\ held \in [Clients -> SUBSET Kinds]

CallTypes ==
  /\ call \in [Clients -> Calls]
  /\ pc \in [Clients -> {"idle", "listed", "submit", "reply"}]
  /\ request \in [Clients -> Requests] /\ response \in [Clients -> Responses]

DaemonTypes ==
  /\ signalled \subseteq Clients /\ woken \subseteq Clients
  /\ ring \in Seq(WatchIds \X Clients) /\ Len(ring) <= MaxRing
  /\ xsTransactions \subseteq TxIds /\ xsWatches \subseteq WatchIds \X Clients
  /\ suspends \in 0 .. MaxSuspends /\ bugcheck \in BOOLEAN

StoreTypes == ObjectTypes /\ CallTypes /\ DaemonTypes

Unique == \A c, d \in WatchList : watch[c].Id = watch[d].Id => c = d

\* Where a call is, and what it asks of xenstored.
CallOK(c) ==
  /\ pc[c] = "idle" <=> call[c] = "none"
  /\ pc[c] = "listed" => call[c] = "WatchAdd"
  /\ pc[c] # "idle" \/ held[c] # {} => c \in references
  /\ pc[c] = "submit" => \/ call[c] = "TransactionStart" /\ request[c].type = "TRANSACTION_START"
                         \/ call[c] = "TransactionEnd" /\ request[c].type = "TRANSACTION_END"
                         \/ call[c] = "WatchAdd" /\ request[c].type = "WATCH"
                         \/ call[c] = "WatchRemove" /\ request[c].type = "UNWATCH"
                         \/ call[c] \in {"Read", "Write"} /\ request[c].type = "READ"
  /\ response[c].status = "null" => NoMemory
  /\ call[c] = "TransactionStart" => "transaction" \in Kinds
  /\ call[c] = "WatchAdd" => "watch" \in Kinds
  /\ call[c] = "Read" => "buffer" \in Kinds

Told == signalled \union woken

\* A client's handles and calls, and the objects on the lists.
HandleOK(c) ==
  /\ "watch" \in held[c] => c \in WatchList
  /\ call[c] = "WatchAdd" => c \in WatchList /\ "watch" \notin held[c]
  /\ call[c] = "WatchRemove" => "watch" \in held[c]
  /\ call[c] = "TransactionStart" => c \notin TransactionList
  /\ call[c] = "TransactionEnd" => "transaction" \in held[c]
  /\ "transaction" \in held[c] => c \in TransactionList
  /\ c \in WatchList /\ ~watch[c].Active => c \in Told

Listed == WatchList \union TransactionList \union BufferList

EmptyInv == references = {} /\ ~bugcheck => Listed = {}

\* What is on a list belongs to a handle, or to the call that makes it.
HeldOK(c) ==
  /\ c \in WatchList => "watch" \in held[c] \/ call[c] = "WatchAdd"
  /\ c \in TransactionList => "transaction" \in held[c]
  /\ c \in BufferList => "buffer" \in held[c]

LeakInv == Passive = {} /\ ~NoMemory => ~bugcheck /\ \A c \in Clients : HeldOK(c)

\* The daemon's watch of a client, through StoreWatchAdd and StoreWatchRemove.
Watched(c, id) == <<id, c>> \in xsWatches
Unwatched(c)   == \A id \in WatchIds : ~Watched(c, id)

WatchOK(c) ==
  /\ \A id \in WatchIds : Watched(c, id) => c \in WatchList /\ watch[c] = [Id |-> id, Active |-> TRUE]
  /\ c \in WatchList /\ watch[c].Active =>
       Watched(c, watch[c].Id) \/ call[c] = "WatchAdd" \/ Answered(c, "WatchRemove")
  /\ call[c] = "WatchAdd" /\ ~(pc[c] = "reply" /\ response[c].status = "ok") => Unwatched(c)
  /\ Answered(c, "WatchAdd") /\ response[c].status = "ok" => Watched(c, watch[c].Id)
  /\ call[c] = "WatchAdd" => watch[c].Active
  /\ call[c] = "WatchRemove" /\ pc[c] = "submit" => watch[c].Active
  /\ Answered(c, "WatchRemove") => IF response[c].status = "ok" THEN Unwatched(c)
                                   ELSE response[c].status = "null" /\ Watched(c, watch[c].Id)

\* Whose a transaction of the daemon is.
Ended(c) == Answered(c, "TransactionEnd") /\ response[c].status # "null"
Open(c, id) == c \in TransactionList /\ ~Ended(c) /\ transaction[c] = [Id |-> id, Active |-> TRUE]
Started(c, id) == Answered(c, "TransactionStart") /\ response[c] = [status |-> "ok", id |-> id]
Owns(c, id) == Open(c, id) \/ Started(c, id)

EndOK(c) ==
  /\ call[c] = "TransactionEnd" /\ pc[c] = "submit" =>
       transaction[c].Active /\ request[c].tx_id = transaction[c].Id
  /\ Answered(c, "TransactionEnd") => response[c].status \in {"ok", "again", "null"}

OwnerInv ==
  /\ \A c \in Clients, id \in TxIds \union {0} : Owns(c, id) => id \in xsTransactions
  /\ \A id \in xsTransactions :
       \E c \in Clients : Owns(c, id) /\ \A d \in Clients : Owns(d, id) => d = c

StoreIInv ==
  /\ StoreTypes /\ Unique
  /\ \A c \in Clients : CallOK(c) /\ HandleOK(c)
  /\ EmptyInv /\ LeakInv
  /\ Passive = {} => OwnerInv /\ \A c \in Clients : WatchOK(c) /\ EndOK(c)

\* What a step leaves of a client that does not take it.
Same(d) ==
  /\ call'[d] = call[d] /\ pc'[d] = pc[d] /\ held'[d] = held[d]
  /\ request'[d] = request[d] /\ response'[d] = response[d]
  /\ transaction'[d] = transaction[d] /\ watch'[d] = watch[d]
  /\ d \in references' <=> d \in references
  /\ d \in TransactionList' <=> d \in TransactionList
  /\ d \in WatchList' <=> d \in WatchList
  /\ d \in BufferList' <=> d \in BufferList
  /\ d \in Told => d \in Told'
  /\ \A id \in WatchIds : <<id, d>> \in xsWatches' <=> <<id, d>> \in xsWatches

LEMMA SameKeeps ==
  ASSUME NEW d \in Clients, Same(d), mix' = mix
  PROVE  /\ CallOK(d) => CallOK(d)'
         /\ HandleOK(d) => HandleOK(d)'
         /\ HeldOK(d) => HeldOK(d)'
<1>1. CallOK(d) => CallOK(d)'  BY DEF Same, CallOK, NoMemory, Kinds
<1>2. HandleOK(d) => HandleOK(d)'  BY DEF Same, HandleOK
<1>3. HeldOK(d) => HeldOK(d)'  BY DEF Same, HeldOK
<1> QED  BY <1>1, <1>2, <1>3

LEMMA SameWatched ==
  ASSUME NEW d \in Clients, Same(d), WatchOK(d), StoreTypes
  PROVE  WatchOK(d)'
<1>1. watch[d].Id \in WatchIds /\ watch'[d] = watch[d]  BY DEF StoreTypes, ObjectTypes, CallTypes, DaemonTypes, Same
<1>2. \A id \in WatchIds : Watched(d, id)' <=> Watched(d, id)  BY DEF Same, Watched
<1>3. Unwatched(d)' <=> Unwatched(d)  BY <1>2 DEF Unwatched
<1>4. Watched(d, watch[d].Id)' <=> Watched(d, watch[d].Id)  BY <1>1, <1>2 DEF Watched
<1> QED  BY <1>1, <1>2, <1>3, <1>4 DEF Same, WatchOK, Answered

LEMMA SameOwned ==
  ASSUME NEW d \in Clients, Same(d)
  PROVE  \A id : Owns(d, id)' <=> Owns(d, id)
BY DEF Same, Owns, Open, Started, Ended, Answered

-----------------------------------------------------------------------------
(* StoreSubmitRequest, split by the call it is made for.                   *)

Sent(c) == request' = [request EXCEPT ![c] = Zero] /\ Drain

SubmitNull(c)    == NoMemory /\ Answer(c, "null", 0) /\ UNCHANGED <<request, signalled, ring, daemon>>
SubmitStart(c)   == /\ call[c] = "TransactionStart" /\ Sent(c) /\ XsTransactionStart(c)
                    /\ ring' = <<>> /\ UNCHANGED xsWatches
SubmitEnd(c)     == /\ call[c] = "TransactionEnd" /\ Sent(c) /\ XsTransactionEnd(c, request[c].tx_id)
                    /\ ring' = <<>> /\ UNCHANGED xsWatches
SubmitWatch(c)   == call[c] = "WatchAdd" /\ Sent(c) /\ XsWatch(c) /\ UNCHANGED xsTransactions
SubmitUnwatch(c) == /\ call[c] = "WatchRemove" /\ Sent(c) /\ XsUnwatch(c)
                    /\ ring' = <<>> /\ UNCHANGED xsTransactions
SubmitRead(c)    == /\ call[c] \in {"Read", "Write"} /\ Sent(c) /\ XsAccess(c, request[c].tx_id)
                    /\ ring' = <<>> /\ UNCHANGED daemon

Submitting(c) ==
  /\ pc[c] = "submit" /\ pc' = [pc EXCEPT ![c] = "reply"]
  /\ UNCHANGED <<references, lists, held, call, history, bugcheck>>

Submitted(c) == SubmitNull(c) \/ SubmitStart(c) \/ SubmitEnd(c) \/ SubmitWatch(c) \/ SubmitUnwatch(c)
                  \/ SubmitRead(c)

LEMMA SubmitCases ==
  ASSUME NEW c \in Clients, CallOK(c), StoreSubmitRequest(c)
  PROVE  Submitting(c) /\ Submitted(c)
<1>1. Submitting(c)  BY DEF StoreSubmitRequest, Submitting
<1>2. CASE NoMemory /\ Answer(c, "null", 0) /\ UNCHANGED <<request, signalled, ring, daemon>>
  BY <1>1, <1>2 DEF Submitted, SubmitNull
<1>3. CASE ~(NoMemory /\ Answer(c, "null", 0) /\ UNCHANGED <<request, signalled, ring, daemon>>)
  <2>1. Sent(c)  BY <1>3 DEF StoreSubmitRequest, Sent
  <2>2. CASE call[c] = "TransactionStart" /\ request[c].type = "TRANSACTION_START"
    <3>1. XsTransactionStart(c) /\ ring' = <<>> /\ UNCHANGED xsWatches
      BY <1>3, <2>2 DEF StoreSubmitRequest
    <3> QED  BY <1>1, <2>1, <2>2, <3>1 DEF Submitted, SubmitStart
  <2>3. CASE call[c] = "TransactionEnd" /\ request[c].type = "TRANSACTION_END"
    <3>1. XsTransactionEnd(c, request[c].tx_id) /\ ring' = <<>> /\ UNCHANGED xsWatches
      BY <1>3, <2>3 DEF StoreSubmitRequest
    <3> QED  BY <1>1, <2>1, <2>3, <3>1 DEF Submitted, SubmitEnd
  <2>4. CASE call[c] = "WatchAdd" /\ request[c].type = "WATCH"
    <3>1. XsWatch(c) /\ UNCHANGED xsTransactions
      BY <1>3, <2>4 DEF StoreSubmitRequest
    <3> QED  BY <1>1, <2>1, <2>4, <3>1 DEF Submitted, SubmitWatch
  <2>5. CASE call[c] = "WatchRemove" /\ request[c].type = "UNWATCH"
    <3>1. XsUnwatch(c) /\ ring' = <<>> /\ UNCHANGED xsTransactions
      BY <1>3, <2>5 DEF StoreSubmitRequest
    <3> QED  BY <1>1, <2>1, <2>5, <3>1 DEF Submitted, SubmitUnwatch
  <2>6. CASE call[c] \in {"Read", "Write"} /\ request[c].type = "READ"
    <3>1. XsAccess(c, request[c].tx_id) /\ ring' = <<>> /\ UNCHANGED daemon
      BY <1>3, <2>6 DEF StoreSubmitRequest
    <3> QED  BY <1>1, <2>1, <2>6, <3>1 DEF Submitted, SubmitRead
  <2> QED  BY <1>1, <2>2, <2>3, <2>4, <2>5, <2>6 DEF CallOK, Submitting
<1> QED  BY <1>1, <1>2, <1>3

LEMMA DrainTells ==
  ASSUME StoreTypes, Drain
  PROVE  signalled \subseteq signalled' /\ signalled' \subseteq Clients
<1>1. \A token : StoreProcessWatchEvent(token) \subseteq WatchList
  BY DEF StoreProcessWatchEvent, StoreFindWatch
<1>2. UNION {StoreProcessWatchEvent(ring[i]) : i \in 1 .. Len(ring)} \subseteq WatchList  BY <1>1
<1> QED  BY <1>2 DEF Drain, StoreTypes, ObjectTypes, CallTypes, DaemonTypes

-----------------------------------------------------------------------------
(* StoreNextWatchId finds an id that no watch has.                         *)

\* A set of numbers has a least one.
LEMMA LeastNumber ==
  ASSUME NEW S \in SUBSET Nat, S # {}
  PROVE  \E x \in S : \A y \in S : x <= y
<1>1. \E x \in S : \A y \in S : <<y, x>> \notin OpToRel(<, Nat)
  BY NatLessThanWellFounded, WFMin
<1>2. PICK x \in S : \A y \in S : <<y, x>> \notin OpToRel(<, Nat)  BY <1>1
<1>3. \A y \in S : ~(y < x)  BY <1>2 DEF OpToRel
<1>4. \A y \in S : x <= y  BY <1>3
<1> QED  BY <1>4

\* The ids are more than the watches.
LEMMA FreeWatchId ==
  ASSUME StoreAssumption, StoreTypes
  PROVE  \E id \in WatchIds : StoreFindWatch(id) = {}
<1> DEFINE used == {watch[d].Id : d \in WatchList}
<1>1. IdMod \in Nat \ {0} /\ IsFiniteSet(Clients) /\ Cardinality(Clients) \in Nat /\ Cardinality(Clients) < IdMod
  BY FS_CardinalityType DEF StoreAssumption
<1>2. IsFiniteSet(WatchList) /\ Cardinality(WatchList) <= Cardinality(Clients)
  BY <1>1, FS_Subset DEF StoreTypes, ObjectTypes, CallTypes, DaemonTypes
<1> DEFINE id_of == [d \in WatchList |-> watch[d].Id]
<1>3. IsFiniteSet(used) /\ Cardinality(used) <= Cardinality(WatchList)
  <2>1. id_of \in Surjection(WatchList, used)  BY DEF Surjection
  <2> QED  BY <1>2, <2>1, FS_Surjection
<1>4. IsFiniteSet(WatchIds) /\ Cardinality(WatchIds) = IdMod
  <2>1. IdMod - 1 \in Int /\ 0 \in Int  BY <1>1
  <2>2. IsFiniteSet(0 .. IdMod - 1)
        /\ Cardinality(0 .. IdMod - 1) = IF 0 > IdMod - 1 THEN 0 ELSE (IdMod - 1) - 0 + 1
    BY <2>1, FS_Interval
  <2> QED  BY <1>1, <2>2 DEF WatchIds
<1>5. used \subseteq WatchIds  BY DEF StoreTypes, ObjectTypes, CallTypes, DaemonTypes
<1>6. used # WatchIds
  <2>1. Cardinality(WatchList) \in Nat /\ Cardinality(used) \in Nat  BY <1>2, <1>3, FS_CardinalityType
  <2> QED  BY <1>1, <1>2, <1>3, <1>4, <2>1
<1>7. PICK id \in WatchIds : id \notin used  BY <1>5, <1>6
<1>8. StoreFindWatch(id) = {}  BY <1>7 DEF StoreFindWatch
<1> QED  BY <1>7, <1>8

LEMMA NextWatchIdIsFree ==
  ASSUME StoreAssumption, StoreTypes
  PROVE  StoreNextWatchId \in WatchIds /\ StoreFindWatch(StoreNextWatchId) = {}
<1> DEFINE at(k) == (WatchId + k) % IdMod
<1> DEFINE free == {k \in 0 .. IdMod - 1 : StoreFindWatch(at(k)) = {}}
<1>1. IdMod \in Nat \ {0} /\ WatchId \in WatchIds
  <2>1. Cardinality(Clients) \in Nat  BY FS_CardinalityType DEF StoreAssumption
  <2> QED  BY <2>1 DEF StoreAssumption, StoreTypes, ObjectTypes, CallTypes, DaemonTypes
<1>2. PICK id \in WatchIds : StoreFindWatch(id) = {}  BY FreeWatchId
<1>3. \E k \in 0 .. IdMod - 1 : at(k) = id
  <2>1. CASE id >= WatchId
    <3>1. id - WatchId \in 0 .. IdMod - 1  BY <1>1, <2>1 DEF WatchIds
    <3>2. WatchId + (id - WatchId) = IdMod * 0 + id  BY <1>1 DEF WatchIds
    <3>3. at(id - WatchId) = id  BY <1>1, <3>2, Remainder DEF WatchIds
    <3> QED  BY <3>1, <3>3
  <2>2. CASE id < WatchId
    <3>1. id - WatchId + IdMod \in 0 .. IdMod - 1  BY <1>1, <2>2 DEF WatchIds
    <3>2. WatchId + (id - WatchId + IdMod) = IdMod * 1 + id  BY <1>1 DEF WatchIds
    <3>3. at(id - WatchId + IdMod) = id  BY <1>1, <3>2, Remainder DEF WatchIds
    <3> QED  BY <3>1, <3>3
  <2> QED  BY <1>1, <2>1, <2>2 DEF WatchIds
<1>4. free \in SUBSET Nat /\ free # {}  BY <1>2, <1>3
<1>5. PICK n \in free : \A k \in free : n <= k  BY <1>4, LeastNumber
<1>6. /\ n \in 0 .. IdMod - 1 /\ StoreFindWatch(at(n)) = {}
      /\ \A j \in 0 .. n - 1 : StoreFindWatch(at(j)) # {}
  BY <1>1, <1>5
<1> DEFINE first(k) == /\ StoreFindWatch((WatchId + k) % IdMod) = {}
                       /\ \A j \in 0 .. k - 1 : StoreFindWatch((WatchId + j) % IdMod) # {}
<1> DEFINE m == CHOOSE k \in 0 .. IdMod - 1 : first(k)
<1>7. m \in 0 .. IdMod - 1 /\ first(m)
  <2>1. \E k \in 0 .. IdMod - 1 : first(k)  BY <1>6
  <2> HIDE DEF first
  <2> QED  BY <2>1
<1>8. StoreNextWatchId = (WatchId + m) % IdMod  BY DEF StoreNextWatchId
<1>9. StoreFindWatch((WatchId + m) % IdMod) = {}  BY <1>7
<1>10. (WatchId + m) % IdMod \in WatchIds
  <2> HIDE DEF m
  <2>1. WatchId + m \in Int  BY <1>1, <1>7 DEF WatchIds
  <2> QED  BY <1>1, <2>1, Division DEF WatchIds
<1> QED  BY <1>8, <1>9, <1>10

LEMMA NextWatchIdWraps ==
  ASSUME StoreAssumption, NEW id \in WatchIds
  PROVE  (id + 1) % IdMod \in WatchIds
<1>1. IdMod \in Nat \ {0}
  <2>1. Cardinality(Clients) \in Nat  BY FS_CardinalityType DEF StoreAssumption
  <2> QED  BY <2>1 DEF StoreAssumption
<1>2. id + 1 \in Int  BY <1>1 DEF WatchIds
<1> QED  BY <1>1, <1>2, Division DEF WatchIds

-----------------------------------------------------------------------------
(* The helpers keep the types of what they assign.                         *)

LEMMA HandleTypes ==
  ASSUME ObjectTypes, NEW c \in Clients, NEW kind,
         (Hold(c, kind) /\ kind \in Kinds) \/ Forget(c, kind)
  PROVE  held' \in [Clients -> SUBSET Kinds]
<1>1. held \in [Clients -> SUBSET Kinds]  BY DEF ObjectTypes
<1>2. CASE Hold(c, kind) /\ kind \in Kinds
  <2>1. held' = [held EXCEPT ![c] = held[c] \union {kind}]  BY <1>2 DEF Hold
  <2>2. held[c] \union {kind} \in SUBSET Kinds  BY <1>1, <1>2
  <2> QED  BY <1>1, <2>1, <2>2
<1>3. CASE Forget(c, kind)
  <2>1. held' = [held EXCEPT ![c] = held[c] \ {kind}]  BY <1>3 DEF Forget
  <2>2. held[c] \ {kind} \in SUBSET Kinds  BY <1>1
  <2> QED  BY <1>1, <2>1, <2>2
<1> QED  BY <1>2, <1>3

\* What ObjectTypes says of the objects, the clients' handles and references apart.
ListTypes ==
  /\ WatchId \in WatchIds
  /\ TransactionList \subseteq Clients /\ WatchList \subseteq Clients /\ BufferList \subseteq Clients
  /\ transaction \in [Clients -> [Id : TxIds \union {0}, Active : BOOLEAN]]
  /\ watch \in [Clients -> [Id : WatchIds, Active : BOOLEAN]]

LEMMA DestroyTypes ==
  ASSUME StoreAssumption, ListTypes, NEW c \in Clients,
         TransactionDestroy(c) \/ WatchDestroy(c) \/ UNCHANGED lists
  PROVE  ListTypes'
<1>1. 0 \in WatchIds
  <2>1. Cardinality(Clients) \in Nat  BY FS_CardinalityType DEF StoreAssumption
  <2> QED  BY <2>1 DEF StoreAssumption, WatchIds
<1>2. CASE TransactionDestroy(c)
  <2>1. [Id |-> 0, Active |-> FALSE] \in [Id : TxIds \union {0}, Active : BOOLEAN]  OBVIOUS
  <2>2. transaction' \in [Clients -> [Id : TxIds \union {0}, Active : BOOLEAN]]
    BY <1>2, <2>1 DEF TransactionDestroy, ListTypes
  <2> QED  BY <1>2, <2>2 DEF TransactionDestroy, ListTypes
<1>3. CASE WatchDestroy(c)
  <2>1. [Id |-> 0, Active |-> FALSE] \in [Id : WatchIds, Active : BOOLEAN]  BY <1>1
  <2>2. watch' \in [Clients -> [Id : WatchIds, Active : BOOLEAN]]
    BY <1>3, <2>1 DEF WatchDestroy, ListTypes
  <2> QED  BY <1>3, <2>2 DEF WatchDestroy, ListTypes
<1>4. CASE UNCHANGED lists  BY <1>4 DEF lists, ListTypes
<1> QED  BY <1>2, <1>3, <1>4

LEMMA PrepareTypes ==
  ASSUME CallTypes, NEW c \in Clients, NEW tx_id \in TxIds \union {0},
         NEW type \in {"TRANSACTION_START", "TRANSACTION_END", "WATCH", "UNWATCH", "READ"},
         StorePrepareRequest(c, type, tx_id)
  PROVE  /\ pc' \in [Clients -> {"idle", "listed", "submit", "reply"}]
         /\ request' \in [Clients -> Requests]
<1>1. [type |-> type, tx_id |-> tx_id] \in Requests  BY DEF Requests
<1> QED  BY <1>1 DEF StorePrepareRequest, CallTypes

LEMMA EnterTypes ==
  ASSUME CallTypes, NEW c \in Clients, NEW name \in Calls, Enter(c, name)
  PROVE  call' \in [Clients -> Calls]
BY DEF Enter, CallTypes

LEMMA AccessTypes ==
  ASSUME CallTypes, NEW c \in Clients, NEW tx_id \in TxIds \union {0}, NEW name \in {"Read", "Write"},
         StoreAccess(c, name, tx_id)
  PROVE  CallTypes'
<1>1. Enter(c, name) /\ StorePrepareRequest(c, "READ", tx_id) /\ response' = response
  BY DEF StoreAccess
<1>2. call' \in [Clients -> Calls]  BY <1>1, EnterTypes DEF Calls
<1>3. /\ pc' \in [Clients -> {"idle", "listed", "submit", "reply"}]
      /\ request' \in [Clients -> Requests]
  BY <1>1, PrepareTypes
<1> QED  BY <1>1, <1>2, <1>3 DEF CallTypes

-----------------------------------------------------------------------------
(* What a step of one client does to the types and to the other clients.   *)

LEMMA ClientTells ==
  ASSUME StoreTypes, NEW c \in Clients, CallOK(c), Client(c)
  PROVE  \A d \in Told : d \in Told'
<1>0. Drain => signalled \subseteq signalled'  BY DrainTells
<1>1. CASE StoreSubmitRequest(c)
  <2>0. Submitting(c) /\ Submitted(c)  BY <1>1, SubmitCases
  <2>1. CASE SubmitNull(c)
    BY <2>1, <2>0, <1>0 DEF SubmitNull, Submitting, Answer, lists, daemon, history, Told
  <2>2. CASE SubmitStart(c)
    BY <2>2, <2>0, <1>0 DEF SubmitStart, Submitting, Sent, XsTransactionStart, Answer, lists,
      daemon, history, Told
  <2>3. CASE SubmitEnd(c)
    BY <2>3, <2>0, <1>0 DEF SubmitEnd, Submitting, Sent, XsTransactionEnd, Answer, lists, daemon,
      history, Told
  <2>4. CASE SubmitWatch(c)
    BY <2>4, <2>0, <1>0 DEF SubmitWatch, Submitting, Sent, XsWatch, Answer, Token, lists, daemon,
      history, Told
  <2>5. CASE SubmitUnwatch(c)
    BY <2>5, <2>0, <1>0 DEF SubmitUnwatch, Submitting, Sent, XsUnwatch, Answer, Token, lists,
      daemon, history, Told
  <2>6. CASE SubmitRead(c)
    BY <2>6, <2>0, <1>0 DEF SubmitRead, Submitting, Sent, XsAccess, Answer, lists, daemon,
      history, Told
  <2> QED  BY <2>0, <2>1, <2>2, <2>3, <2>4, <2>5, <2>6 DEF Submitted
<1>2. CASE StoreAcquire(c)
  BY <1>2, <1>0 DEF StoreAcquire, lists, daemon, history, Told
<1>3. CASE StoreRelease(c)
  BY <1>3, <1>0 DEF StoreRelease, lists, daemon, history, Told
<1>4. CASE StoreTransactionStart(c)
  BY <1>4, <1>0 DEF StoreTransactionStart, Enter, StorePrepareRequest, lists, daemon, history,
    Told
<1>5. CASE TransactionStarted(c)
  BY <1>5, <1>0 DEF TransactionStarted, Answered, Return, Hold, lists, daemon, history, Told
<1>6. CASE StoreTransactionEnd(c)
  BY <1>6, <1>0 DEF StoreTransactionEnd, Enter, StorePrepareRequest, TransactionDestroy, Forget,
    lists, daemon, history, Told
<1>7. CASE TransactionEnded(c)
  BY <1>7, <1>0 DEF TransactionEnded, Answered, Return, TransactionDestroy, Forget, lists, daemon,
    history, Told
<1>8. CASE StoreWatchAdd(c)
  BY <1>8, <1>0 DEF StoreWatchAdd, Enter, lists, daemon, history, Told
<1>9. CASE WatchPrepare(c)
  BY <1>9, <1>0 DEF WatchPrepare, StorePrepareRequest, lists, daemon, history, Told
<1>10. CASE WatchAdded(c)
  BY <1>10, <1>0 DEF WatchAdded, Answered, Return, Hold, WatchDestroy, lists, daemon, history,
    Told
<1>11. CASE StoreWatchRemove(c)
  BY <1>11, <1>0 DEF StoreWatchRemove, Enter, StorePrepareRequest, WatchDestroy, Forget, lists,
    daemon, history, Told
<1>12. CASE WatchRemoved(c)
  BY <1>12, <1>0 DEF WatchRemoved, Answered, Return, WatchDestroy, Forget, lists, daemon, history,
    Told
<1>13. CASE ClientWait(c)
  BY <1>13, <1>0 DEF ClientWait, lists, daemon, history, Told
<1>14. CASE StoreRead(c)
  BY <1>14, <1>0 DEF StoreRead, StoreAccess, Enter, StorePrepareRequest, lists, daemon, history,
    Told
<1>15. CASE ReadDone(c)
  BY <1>15, <1>0 DEF ReadDone, Answered, Return, Hold, lists, daemon, history, Told
<1>16. CASE StoreFree(c)
  BY <1>16, <1>0 DEF StoreFree, Forget, lists, daemon, history, Told
<1>17. CASE StoreWrite(c)
  BY <1>17, <1>0 DEF StoreWrite, StoreAccess, Enter, StorePrepareRequest, lists, daemon, history,
    Told
<1>18. CASE WriteDone(c)
  BY <1>18, <1>0 DEF WriteDone, Answered, Return, lists, daemon, history, Told
<1> QED
  BY <1>1, <1>2, <1>3, <1>4, <1>5, <1>6, <1>7, <1>8, <1>9, <1>10, <1>11, <1>12, <1>13, <1>14,
    <1>15, <1>16, <1>17, <1>18 DEF Client

LEMMA OthersSame ==
  ASSUME StoreTypes, NEW c \in Clients, CallOK(c), Client(c), NEW d \in Clients, d # c
  PROVE  Same(d)
<1>0. d \in Told => d \in Told'  BY ClientTells
<1>a. c \in Clients /\ d \in Clients /\ d # c  OBVIOUS
<1>1. CASE StoreSubmitRequest(c)
  <2>0. Submitting(c) /\ Submitted(c)  BY <1>1, SubmitCases
  <2>1. CASE SubmitNull(c)
    BY <2>1, <2>0, <1>0, <1>a DEF SubmitNull, Submitting, Answer, lists, daemon, history,
      StoreTypes, ObjectTypes, CallTypes, Same
  <2>2. CASE SubmitStart(c)
    BY <2>2, <2>0, <1>0, <1>a DEF SubmitStart, Submitting, Sent, XsTransactionStart, Answer,
      lists, daemon, history, StoreTypes, ObjectTypes, CallTypes, Same
  <2>3. CASE SubmitEnd(c)
    BY <2>3, <2>0, <1>0, <1>a DEF SubmitEnd, Submitting, Sent, XsTransactionEnd, Answer, lists,
      daemon, history, StoreTypes, ObjectTypes, CallTypes, Same
  <2>4. CASE SubmitWatch(c)
    BY <2>4, <2>0, <1>0, <1>a DEF SubmitWatch, Submitting, Sent, XsWatch, Answer, Token, lists,
      daemon, history, StoreTypes, ObjectTypes, CallTypes, Same
  <2>5. CASE SubmitUnwatch(c)
    BY <2>5, <2>0, <1>0, <1>a DEF SubmitUnwatch, Submitting, Sent, XsUnwatch, Answer, Token,
      lists, daemon, history, StoreTypes, ObjectTypes, CallTypes, Same
  <2>6. CASE SubmitRead(c)
    BY <2>6, <2>0, <1>0, <1>a DEF SubmitRead, Submitting, Sent, XsAccess, Answer, lists, daemon,
      history, StoreTypes, ObjectTypes, CallTypes, Same
  <2> QED  BY <2>0, <2>1, <2>2, <2>3, <2>4, <2>5, <2>6 DEF Submitted
<1>2. CASE StoreAcquire(c)
  BY <1>2, <1>0, <1>a DEF StoreAcquire, lists, daemon, history, StoreTypes, ObjectTypes,
    CallTypes, Same
<1>3. CASE StoreRelease(c)
  BY <1>3, <1>0, <1>a DEF StoreRelease, lists, daemon, history, StoreTypes, ObjectTypes,
    CallTypes, Same
<1>4. CASE StoreTransactionStart(c)
  BY <1>4, <1>0, <1>a DEF StoreTransactionStart, Enter, StorePrepareRequest, lists, daemon,
    history, StoreTypes, ObjectTypes, CallTypes, Same
<1>5. CASE TransactionStarted(c)
  BY <1>5, <1>0, <1>a DEF TransactionStarted, Answered, Return, Hold, lists, daemon, history,
    StoreTypes, ObjectTypes, CallTypes, Same
<1>6. CASE StoreTransactionEnd(c)
  BY <1>6, <1>0, <1>a DEF StoreTransactionEnd, Enter, StorePrepareRequest, TransactionDestroy,
    Forget, lists, daemon, history, StoreTypes, ObjectTypes, CallTypes, Same
<1>7. CASE TransactionEnded(c)
  BY <1>7, <1>0, <1>a DEF TransactionEnded, Answered, Return, TransactionDestroy, Forget, lists,
    daemon, history, StoreTypes, ObjectTypes, CallTypes, Same
<1>8. CASE StoreWatchAdd(c)
  BY <1>8, <1>0, <1>a DEF StoreWatchAdd, Enter, lists, daemon, history, StoreTypes, ObjectTypes,
    CallTypes, Same
<1>9. CASE WatchPrepare(c)
  BY <1>9, <1>0, <1>a DEF WatchPrepare, StorePrepareRequest, lists, daemon, history, StoreTypes,
    ObjectTypes, CallTypes, Same
<1>10. CASE WatchAdded(c)
  BY <1>10, <1>0, <1>a DEF WatchAdded, Answered, Return, Hold, WatchDestroy, lists, daemon,
    history, StoreTypes, ObjectTypes, CallTypes, Same
<1>11. CASE StoreWatchRemove(c)
  BY <1>11, <1>0, <1>a DEF StoreWatchRemove, Enter, StorePrepareRequest, WatchDestroy, Forget,
    lists, daemon, history, StoreTypes, ObjectTypes, CallTypes, Same
<1>12. CASE WatchRemoved(c)
  BY <1>12, <1>0, <1>a DEF WatchRemoved, Answered, Return, WatchDestroy, Forget, lists, daemon,
    history, StoreTypes, ObjectTypes, CallTypes, Same
<1>13. CASE ClientWait(c)
  BY <1>13, <1>0, <1>a DEF ClientWait, lists, daemon, history, StoreTypes, ObjectTypes, CallTypes,
    Same
<1>14. CASE StoreRead(c)
  BY <1>14, <1>0, <1>a DEF StoreRead, StoreAccess, Enter, StorePrepareRequest, lists, daemon,
    history, StoreTypes, ObjectTypes, CallTypes, Same
<1>15. CASE ReadDone(c)
  BY <1>15, <1>0, <1>a DEF ReadDone, Answered, Return, Hold, lists, daemon, history, StoreTypes,
    ObjectTypes, CallTypes, Same
<1>16. CASE StoreFree(c)
  BY <1>16, <1>0, <1>a DEF StoreFree, Forget, lists, daemon, history, StoreTypes, ObjectTypes,
    CallTypes, Same
<1>17. CASE StoreWrite(c)
  BY <1>17, <1>0, <1>a DEF StoreWrite, StoreAccess, Enter, StorePrepareRequest, lists, daemon,
    history, StoreTypes, ObjectTypes, CallTypes, Same
<1>18. CASE WriteDone(c)
  BY <1>18, <1>0, <1>a DEF WriteDone, Answered, Return, lists, daemon, history, StoreTypes,
    ObjectTypes, CallTypes, Same
<1> QED
  BY <1>1, <1>2, <1>3, <1>4, <1>5, <1>6, <1>7, <1>8, <1>9, <1>10, <1>11, <1>12, <1>13, <1>14,
    <1>15, <1>16, <1>17, <1>18 DEF Client

LEMMA ClientObjectTypes ==
  ASSUME StoreAssumption, StoreTypes, NEW c \in Clients, CallOK(c), Client(c), mix' = mix
  PROVE  ObjectTypes'
<1>t. ObjectTypes /\ CallTypes /\ DaemonTypes /\ c \in Clients  BY DEF StoreTypes
<1>l. ListTypes  BY <1>t DEF ListTypes, ObjectTypes
<1>n. StoreNextWatchId \in WatchIds /\ (StoreNextWatchId + 1) % IdMod \in WatchIds
  BY NextWatchIdIsFree, NextWatchIdWraps
<1>1. CASE StoreSubmitRequest(c)
  <2>0. Submitting(c) /\ Submitted(c)  BY <1>1, SubmitCases
  <2>1. CASE SubmitNull(c)
    BY <2>1, <2>0, <1>t, <1>n DEF SubmitNull, Submitting, Answer, lists, daemon, history,
      ObjectTypes, CallTypes, Responses, Kinds
  <2>2. CASE SubmitStart(c)
    BY <2>2, <2>0, <1>t, <1>n DEF SubmitStart, Submitting, Sent, XsTransactionStart, Answer,
      lists, daemon, history, ObjectTypes, CallTypes, Responses, Kinds
  <2>3. CASE SubmitEnd(c)
    BY <2>3, <2>0, <1>t, <1>n DEF SubmitEnd, Submitting, Sent, XsTransactionEnd, Answer, lists,
      daemon, history, ObjectTypes, CallTypes, Responses, Kinds
  <2>4. CASE SubmitWatch(c)
    BY <2>4, <2>0, <1>t, <1>n DEF SubmitWatch, Submitting, Sent, XsWatch, Answer, Token, lists,
      daemon, history, ObjectTypes, CallTypes, Responses, Kinds
  <2>5. CASE SubmitUnwatch(c)
    BY <2>5, <2>0, <1>t, <1>n DEF SubmitUnwatch, Submitting, Sent, XsUnwatch, Answer, Token,
      lists, daemon, history, ObjectTypes, CallTypes, Responses, Kinds
  <2>6. CASE SubmitRead(c)
    BY <2>6, <2>0, <1>t, <1>n DEF SubmitRead, Submitting, Sent, XsAccess, Answer, lists, daemon,
      history, ObjectTypes, CallTypes, Responses, Kinds
  <2> QED  BY <2>0, <2>1, <2>2, <2>3, <2>4, <2>5, <2>6 DEF Submitted
<1>2. CASE StoreAcquire(c)
  BY <1>2, <1>t, <1>n DEF StoreAcquire, lists, daemon, history, ObjectTypes, CallTypes, Responses,
    Kinds
<1>3. CASE StoreRelease(c)
  BY <1>3, <1>t, <1>n DEF StoreRelease, lists, daemon, history, ObjectTypes, CallTypes, Responses,
    Kinds
<1>4. CASE StoreTransactionStart(c)
  BY <1>4, <1>t, <1>n DEF StoreTransactionStart, Enter, StorePrepareRequest, lists, daemon,
    history, ObjectTypes, CallTypes, Responses, Kinds
<1>5. CASE TransactionStarted(c)
  <2>1. "transaction" \in Kinds  BY <1>5 DEF TransactionStarted, Answered, CallOK
  <2>2. held' \in [Clients -> SUBSET Kinds]
    BY <1>5, <1>t, <2>1, HandleTypes DEF TransactionStarted, ObjectTypes
  <2>3. [Id |-> response[c].id, Active |-> TRUE] \in [Id : TxIds \union {0}, Active : BOOLEAN]
    BY <1>t DEF CallTypes, Responses
  <2> QED
    BY <1>5, <1>t, <2>2, <2>3 DEF TransactionStarted, ObjectTypes, Kinds, lists
<1>6. CASE StoreTransactionEnd(c)
  <2>1. ListTypes'  BY <1>6, <1>l, DestroyTypes DEF StoreTransactionEnd
  <2>2. held' \in [Clients -> SUBSET Kinds]  BY <1>6, <1>t, HandleTypes DEF StoreTransactionEnd, ObjectTypes
  <2> QED  BY <1>6, <1>t, <2>1, <2>2 DEF StoreTransactionEnd, ListTypes, ObjectTypes, Kinds
<1>7. CASE TransactionEnded(c)
  <2>1. ListTypes'  BY <1>7, <1>l, DestroyTypes DEF TransactionEnded
  <2>2. held' \in [Clients -> SUBSET Kinds]  BY <1>7, <1>t, HandleTypes DEF TransactionEnded, ObjectTypes
  <2> QED  BY <1>7, <1>t, <2>1, <2>2 DEF TransactionEnded, ListTypes, ObjectTypes, Kinds
<1>8. CASE StoreWatchAdd(c)
  BY <1>8, <1>t, <1>n DEF StoreWatchAdd, Enter, lists, daemon, history, ObjectTypes, CallTypes,
    Responses, Kinds
<1>9. CASE WatchPrepare(c)
  BY <1>9, <1>t, <1>n DEF WatchPrepare, StorePrepareRequest, lists, daemon, history, ObjectTypes,
    CallTypes, Responses, Kinds
<1>10. CASE WatchAdded(c)
  <2>1. "watch" \in Kinds  BY <1>10 DEF WatchAdded, Answered, CallOK
  <2>2. held' \in [Clients -> SUBSET Kinds]
    BY <1>10, <1>t, <2>1, HandleTypes DEF WatchAdded, ObjectTypes
  <2>3. ListTypes'  BY <1>10, <1>l, DestroyTypes DEF WatchAdded
  <2> QED  BY <1>10, <1>t, <2>2, <2>3 DEF WatchAdded, ListTypes, ObjectTypes, Kinds
<1>11. CASE StoreWatchRemove(c)
  <2>1. ListTypes'  BY <1>11, <1>l, DestroyTypes DEF StoreWatchRemove
  <2>2. held' \in [Clients -> SUBSET Kinds]  BY <1>11, <1>t, HandleTypes DEF StoreWatchRemove, ObjectTypes
  <2> QED  BY <1>11, <1>t, <2>1, <2>2 DEF StoreWatchRemove, ListTypes, ObjectTypes, Kinds
<1>12. CASE WatchRemoved(c)
  <2>1. ListTypes'  BY <1>12, <1>l, DestroyTypes DEF WatchRemoved
  <2>2. held' \in [Clients -> SUBSET Kinds]  BY <1>12, <1>t, HandleTypes DEF WatchRemoved, ObjectTypes
  <2> QED  BY <1>12, <1>t, <2>1, <2>2 DEF WatchRemoved, ListTypes, ObjectTypes, Kinds
<1>13. CASE ClientWait(c)
  BY <1>13, <1>t, <1>n DEF ClientWait, lists, daemon, history, ObjectTypes, CallTypes, Responses,
    Kinds
<1>14. CASE StoreRead(c)
  BY <1>14, <1>t, <1>n DEF StoreRead, StoreAccess, Enter, StorePrepareRequest, lists, daemon,
    history, ObjectTypes, CallTypes, Responses, Kinds
<1>15. CASE ReadDone(c)
  <2>1. "buffer" \in Kinds  BY <1>15 DEF ReadDone, Answered, CallOK
  <2>2. held' \in [Clients -> SUBSET Kinds]
    BY <1>15, <1>t, <2>1, HandleTypes DEF ReadDone, ObjectTypes
  <2> QED
    BY <1>15, <1>t, <2>2 DEF ReadDone, ObjectTypes, CallTypes, Responses, Kinds, lists
<1>16. CASE StoreFree(c)
  BY <1>16, <1>t, <1>n DEF StoreFree, Forget, lists, daemon, history, ObjectTypes, CallTypes,
    Responses, Kinds
<1>17. CASE StoreWrite(c)
  BY <1>17, <1>t, <1>n DEF StoreWrite, StoreAccess, Enter, StorePrepareRequest, lists, daemon,
    history, ObjectTypes, CallTypes, Responses, Kinds
<1>18. CASE WriteDone(c)
  BY <1>18, <1>t, <1>n DEF WriteDone, Answered, Return, lists, daemon, history, ObjectTypes,
    CallTypes, Responses, Kinds
<1> QED
  BY <1>1, <1>2, <1>3, <1>4, <1>5, <1>6, <1>7, <1>8, <1>9, <1>10, <1>11, <1>12, <1>13, <1>14,
    <1>15, <1>16, <1>17, <1>18 DEF Client

LEMMA ClientCallTypes ==
  ASSUME StoreTypes, NEW c \in Clients, CallOK(c), Client(c), mix' = mix
  PROVE  CallTypes'
<1>t. ObjectTypes /\ CallTypes /\ DaemonTypes /\ c \in Clients  BY DEF StoreTypes
<1>1. CASE StoreSubmitRequest(c)
  <2>0. Submitting(c) /\ Submitted(c)  BY <1>1, SubmitCases
  <2>1. CASE SubmitNull(c)
    BY <2>1, <2>0, <1>t DEF SubmitNull, Submitting, Answer, lists, daemon, history, ObjectTypes,
      CallTypes, Calls, Requests, Responses, Zero, NoAnswer
  <2>2. CASE SubmitStart(c)
    BY <2>2, <2>0, <1>t DEF SubmitStart, Submitting, Sent, XsTransactionStart, Answer, lists,
      daemon, history, ObjectTypes, CallTypes, Calls, Requests, Responses, Zero, NoAnswer
  <2>3. CASE SubmitEnd(c)
    BY <2>3, <2>0, <1>t DEF SubmitEnd, Submitting, Sent, XsTransactionEnd, Answer, lists, daemon,
      history, ObjectTypes, CallTypes, Calls, Requests, Responses, Zero, NoAnswer
  <2>4. CASE SubmitWatch(c)
    BY <2>4, <2>0, <1>t DEF SubmitWatch, Submitting, Sent, XsWatch, Answer, Token, lists, daemon,
      history, ObjectTypes, CallTypes, Calls, Requests, Responses, Zero, NoAnswer
  <2>5. CASE SubmitUnwatch(c)
    BY <2>5, <2>0, <1>t DEF SubmitUnwatch, Submitting, Sent, XsUnwatch, Answer, Token, lists,
      daemon, history, ObjectTypes, CallTypes, Calls, Requests, Responses, Zero, NoAnswer
  <2>6. CASE SubmitRead(c)
    BY <2>6, <2>0, <1>t DEF SubmitRead, Submitting, Sent, XsAccess, Answer, lists, daemon,
      history, ObjectTypes, CallTypes, Calls, Requests, Responses, Zero, NoAnswer
  <2> QED  BY <2>0, <2>1, <2>2, <2>3, <2>4, <2>5, <2>6 DEF Submitted
<1>2. CASE StoreAcquire(c)
  BY <1>2, <1>t DEF StoreAcquire, lists, daemon, history, ObjectTypes, CallTypes, Calls, Requests,
    Responses, Zero, NoAnswer
<1>3. CASE StoreRelease(c)
  BY <1>3, <1>t DEF StoreRelease, lists, daemon, history, ObjectTypes, CallTypes, Calls, Requests,
    Responses, Zero, NoAnswer
<1>4. CASE StoreTransactionStart(c)
  BY <1>4, <1>t DEF StoreTransactionStart, Enter, StorePrepareRequest, lists, daemon, history,
    ObjectTypes, CallTypes, Calls, Requests, Responses, Zero, NoAnswer
<1>5. CASE TransactionStarted(c)
  BY <1>5, <1>t DEF TransactionStarted, Answered, Return, Hold, lists, daemon, history,
    ObjectTypes, CallTypes, Calls, Requests, Responses, Zero, NoAnswer
<1>6. CASE StoreTransactionEnd(c)
  <2>1. CASE transaction[c].Active
    <3>1. transaction[c].Id \in TxIds \union {0}  BY <1>t DEF ObjectTypes
    <3>2. Enter(c, "TransactionEnd") /\ response' = response  BY <1>6, <2>1 DEF StoreTransactionEnd
    <3>3. \E tx_id \in TxIds \union {0} : StorePrepareRequest(c, "TRANSACTION_END", tx_id)
      BY <1>6, <2>1, <3>1 DEF StoreTransactionEnd
    <3>4. /\ pc' \in [Clients -> {"idle", "listed", "submit", "reply"}]
          /\ request' \in [Clients -> Requests]
      BY <1>t, <3>3, PrepareTypes
    <3>5. call' \in [Clients -> Calls]  BY <1>t, <3>2, EnterTypes DEF Calls
    <3> QED  BY <1>t, <3>2, <3>4, <3>5 DEF CallTypes
  <2>2. CASE ~transaction[c].Active
    BY <1>6, <1>t, <2>2 DEF StoreTransactionEnd, CallTypes
  <2> QED  BY <2>1, <2>2
<1>7. CASE TransactionEnded(c)
  BY <1>7, <1>t DEF TransactionEnded, Answered, Return, TransactionDestroy, Forget, lists, daemon,
    history, ObjectTypes, CallTypes, Calls, Requests, Responses, Zero, NoAnswer
<1>8. CASE StoreWatchAdd(c)
  BY <1>8, <1>t DEF StoreWatchAdd, Enter, lists, daemon, history, ObjectTypes, CallTypes, Calls,
    Requests, Responses, Zero, NoAnswer
<1>9. CASE WatchPrepare(c)
  BY <1>9, <1>t DEF WatchPrepare, StorePrepareRequest, lists, daemon, history, ObjectTypes,
    CallTypes, Calls, Requests, Responses, Zero, NoAnswer
<1>10. CASE WatchAdded(c)
  BY <1>10, <1>t DEF WatchAdded, Answered, Return, Hold, WatchDestroy, lists, daemon, history,
    ObjectTypes, CallTypes, Calls, Requests, Responses, Zero, NoAnswer
<1>11. CASE StoreWatchRemove(c)
  <2>1. CASE watch[c].Active
    <3>1. 0 \in TxIds \union {0}  OBVIOUS
    <3>2. Enter(c, "WatchRemove") /\ response' = response  BY <1>11, <2>1 DEF StoreWatchRemove
    <3>3. \E tx_id \in TxIds \union {0} : StorePrepareRequest(c, "UNWATCH", tx_id)
      BY <1>11, <2>1, <3>1 DEF StoreWatchRemove
    <3>4. /\ pc' \in [Clients -> {"idle", "listed", "submit", "reply"}]
          /\ request' \in [Clients -> Requests]
      BY <1>t, <3>3, PrepareTypes
    <3>5. call' \in [Clients -> Calls]  BY <1>t, <3>2, EnterTypes DEF Calls
    <3> QED  BY <1>t, <3>2, <3>4, <3>5 DEF CallTypes
  <2>2. CASE ~watch[c].Active
    BY <1>11, <1>t, <2>2 DEF StoreWatchRemove, CallTypes
  <2> QED  BY <2>1, <2>2
<1>12. CASE WatchRemoved(c)
  BY <1>12, <1>t DEF WatchRemoved, Answered, Return, WatchDestroy, Forget, lists, daemon, history,
    ObjectTypes, CallTypes, Calls, Requests, Responses, Zero, NoAnswer
<1>13. CASE ClientWait(c)
  BY <1>13, <1>t DEF ClientWait, lists, daemon, history, ObjectTypes, CallTypes, Calls, Requests,
    Responses, Zero, NoAnswer
<1>14. CASE StoreRead(c)
  <2>1. \E tx_id \in TxIds \union {0} : StoreAccess(c, "Read", tx_id)
    BY <1>14, <1>t DEF StoreRead, ObjectTypes
  <2> QED  BY <1>t, <2>1, AccessTypes
<1>15. CASE ReadDone(c)
  BY <1>15, <1>t DEF ReadDone, Answered, Return, Hold, lists, daemon, history, ObjectTypes,
    CallTypes, Calls, Requests, Responses, Zero, NoAnswer
<1>16. CASE StoreFree(c)
  BY <1>16, <1>t DEF StoreFree, Forget, lists, daemon, history, ObjectTypes, CallTypes, Calls,
    Requests, Responses, Zero, NoAnswer
<1>17. CASE StoreWrite(c)
  <2>1. \E tx_id \in TxIds \union {0} : StoreAccess(c, "Write", tx_id)
    BY <1>17, <1>t DEF StoreWrite, ObjectTypes
  <2> QED  BY <1>t, <2>1, AccessTypes
<1>18. CASE WriteDone(c)
  BY <1>18, <1>t DEF WriteDone, Answered, Return, lists, daemon, history, ObjectTypes, CallTypes,
    Calls, Requests, Responses, Zero, NoAnswer
<1> QED
  BY <1>1, <1>2, <1>3, <1>4, <1>5, <1>6, <1>7, <1>8, <1>9, <1>10, <1>11, <1>12, <1>13, <1>14,
    <1>15, <1>16, <1>17, <1>18 DEF Client

LEMMA ClientDaemonTypes ==
  ASSUME StoreAssumption, StoreTypes, NEW c \in Clients, CallOK(c), Client(c), mix' = mix
  PROVE  DaemonTypes'
<1>t. ObjectTypes /\ CallTypes /\ DaemonTypes /\ c \in Clients  BY DEF StoreTypes
<1>0. Drain => signalled' \subseteq Clients  BY DrainTells
<1>m. /\ MaxRing \in Nat \ {0} /\ MaxSuspends \in Nat
      /\ <<>> \in Seq(WatchIds \X Clients) /\ Len(<<>>) = 0
      /\ <<Token(c)>> \in Seq(WatchIds \X Clients) /\ Len(<<Token(c)>>) = 1
      /\ Token(c) \in WatchIds \X Clients
  BY <1>t DEF StoreAssumption, Token, ObjectTypes
<1>1. CASE StoreSubmitRequest(c)
  <2>0. Submitting(c) /\ Submitted(c)  BY <1>1, SubmitCases
  <2>1. CASE SubmitNull(c)
    BY <2>1, <2>0, <1>t, <1>0, <1>m DEF SubmitNull, Submitting, Answer, lists, daemon, history,
      ObjectTypes, CallTypes, DaemonTypes, Requests
  <2>2. CASE SubmitStart(c)
    <3>1. ring' \in Seq(WatchIds \X Clients) /\ Len(ring') <= MaxRing
      BY <2>2, <1>m DEF SubmitStart, XsTransactionStart
    <3>2. signalled' \subseteq Clients /\ woken' = woken /\ suspends' = suspends /\ bugcheck' = bugcheck
      BY <2>2, <1>0, <2>0 DEF SubmitStart, Sent, Submitting, history
    <3>3. xsTransactions' \subseteq TxIds /\ xsWatches' \subseteq WatchIds \X Clients
      BY <2>2, <1>t, <1>m DEF SubmitStart, XsTransactionStart, DaemonTypes
    <3> QED  BY <1>t, <3>1, <3>2, <3>3 DEF DaemonTypes
  <2>3. CASE SubmitEnd(c)
    <3>1. ring' \in Seq(WatchIds \X Clients) /\ Len(ring') <= MaxRing
      BY <2>3, <1>m DEF SubmitEnd, XsTransactionEnd
    <3>2. signalled' \subseteq Clients /\ woken' = woken /\ suspends' = suspends /\ bugcheck' = bugcheck
      BY <2>3, <1>0, <2>0 DEF SubmitEnd, Sent, Submitting, history
    <3>3. xsTransactions' \subseteq TxIds /\ xsWatches' \subseteq WatchIds \X Clients
      BY <2>3, <1>t, <1>m DEF SubmitEnd, XsTransactionEnd, DaemonTypes
    <3> QED  BY <1>t, <3>1, <3>2, <3>3 DEF DaemonTypes
  <2>4. CASE SubmitWatch(c)
    <3>1. ring' \in Seq(WatchIds \X Clients) /\ Len(ring') <= MaxRing
      <4>1. ring' = <<Token(c)>> \/ ring' = <<>>  BY <2>4 DEF SubmitWatch, XsWatch
      <4>2. CASE ring' = <<>>  BY <4>2, <1>m
      <4>3. CASE ring' = <<Token(c)>>  BY <4>3, <1>m
      <4> QED  BY <4>1, <4>2, <4>3
    <3>2. signalled' \subseteq Clients /\ woken' = woken /\ suspends' = suspends /\ bugcheck' = bugcheck
      BY <2>4, <1>0, <2>0 DEF SubmitWatch, Sent, Submitting, history
    <3>3. xsTransactions' \subseteq TxIds /\ xsWatches' \subseteq WatchIds \X Clients
      BY <2>4, <1>t, <1>m DEF SubmitWatch, XsWatch, DaemonTypes
    <3> QED  BY <1>t, <3>1, <3>2, <3>3 DEF DaemonTypes
  <2>5. CASE SubmitUnwatch(c)
    BY <2>5, <2>0, <1>t, <1>0, <1>m DEF SubmitUnwatch, Submitting, Sent, XsUnwatch, Answer, Token,
      lists, daemon, history, ObjectTypes, CallTypes, DaemonTypes, Requests
  <2>6. CASE SubmitRead(c)
    BY <2>6, <2>0, <1>t, <1>0, <1>m DEF SubmitRead, Submitting, Sent, XsAccess, Answer, lists,
      daemon, history, ObjectTypes, CallTypes, DaemonTypes, Requests
  <2> QED  BY <2>0, <2>1, <2>2, <2>3, <2>4, <2>5, <2>6 DEF Submitted
<1>2. CASE StoreAcquire(c)
  BY <1>2, <1>t, <1>0, <1>m DEF StoreAcquire, lists, daemon, history, ObjectTypes, CallTypes,
    DaemonTypes, Requests
<1>3. CASE StoreRelease(c)
  <2>1. ring' \in Seq(WatchIds \X Clients) /\ Len(ring') <= MaxRing
    <3>1. ring' = <<>> \/ ring' = ring  BY <1>3 DEF StoreRelease
    <3>2. CASE ring' = <<>>  BY <3>2, <1>m
    <3>3. CASE ring' = ring  BY <3>3, <1>t DEF DaemonTypes
    <3> QED  BY <3>1, <3>2, <3>3
  <2>2. signalled' \subseteq Clients  BY <1>3, <1>0, <1>t DEF StoreRelease, DaemonTypes
  <2>3. bugcheck' \in BOOLEAN
    <3>1. bugcheck' = bugcheck \/ bugcheck' = (WatchList \union TransactionList \union BufferList # {})
      BY <1>3 DEF StoreRelease
    <3>2. bugcheck \in BOOLEAN  BY <1>t DEF DaemonTypes
    <3>3. (WatchList \union TransactionList \union BufferList # {}) \in BOOLEAN  OBVIOUS
    <3> QED  BY <3>1, <3>2, <3>3
  <2> QED  BY <1>3, <1>t, <2>1, <2>2, <2>3 DEF StoreRelease, daemon, history, DaemonTypes
<1>4. CASE StoreTransactionStart(c)
  BY <1>4, <1>t, <1>0, <1>m DEF StoreTransactionStart, Enter, StorePrepareRequest, lists, daemon,
    history, ObjectTypes, CallTypes, DaemonTypes, Requests
<1>5. CASE TransactionStarted(c)
  BY <1>5, <1>t, <1>0, <1>m DEF TransactionStarted, Answered, Return, Hold, lists, daemon,
    history, ObjectTypes, CallTypes, DaemonTypes, Requests
<1>6. CASE StoreTransactionEnd(c)
  BY <1>6, <1>t, <1>0, <1>m DEF StoreTransactionEnd, Enter, StorePrepareRequest,
    TransactionDestroy, Forget, lists, daemon, history, ObjectTypes, CallTypes, DaemonTypes,
    Requests
<1>7. CASE TransactionEnded(c)
  BY <1>7, <1>t, <1>0, <1>m DEF TransactionEnded, Answered, Return, TransactionDestroy, Forget,
    lists, daemon, history, ObjectTypes, CallTypes, DaemonTypes, Requests
<1>8. CASE StoreWatchAdd(c)
  BY <1>8, <1>t, <1>0, <1>m DEF StoreWatchAdd, Enter, lists, daemon, history, ObjectTypes,
    CallTypes, DaemonTypes, Requests
<1>9. CASE WatchPrepare(c)
  BY <1>9, <1>t, <1>0, <1>m DEF WatchPrepare, StorePrepareRequest, lists, daemon, history,
    ObjectTypes, CallTypes, DaemonTypes, Requests
<1>10. CASE WatchAdded(c)
  BY <1>10, <1>t, <1>0, <1>m DEF WatchAdded, Answered, Return, Hold, WatchDestroy, lists, daemon,
    history, ObjectTypes, CallTypes, DaemonTypes, Requests
<1>11. CASE StoreWatchRemove(c)
  BY <1>11, <1>t, <1>0, <1>m DEF StoreWatchRemove, Enter, StorePrepareRequest, WatchDestroy,
    Forget, lists, daemon, history, ObjectTypes, CallTypes, DaemonTypes, Requests
<1>12. CASE WatchRemoved(c)
  BY <1>12, <1>t, <1>0, <1>m DEF WatchRemoved, Answered, Return, WatchDestroy, Forget, lists,
    daemon, history, ObjectTypes, CallTypes, DaemonTypes, Requests
<1>13. CASE ClientWait(c)
  BY <1>13, <1>t, <1>0, <1>m DEF ClientWait, lists, daemon, history, ObjectTypes, CallTypes,
    DaemonTypes, Requests
<1>14. CASE StoreRead(c)
  BY <1>14, <1>t, <1>0, <1>m DEF StoreRead, StoreAccess, Enter, StorePrepareRequest, lists,
    daemon, history, ObjectTypes, CallTypes, DaemonTypes, Requests
<1>15. CASE ReadDone(c)
  BY <1>15, <1>t, <1>0, <1>m DEF ReadDone, Answered, Return, Hold, lists, daemon, history,
    ObjectTypes, CallTypes, DaemonTypes, Requests
<1>16. CASE StoreFree(c)
  BY <1>16, <1>t, <1>0, <1>m DEF StoreFree, Forget, lists, daemon, history, ObjectTypes,
    CallTypes, DaemonTypes, Requests
<1>17. CASE StoreWrite(c)
  BY <1>17, <1>t, <1>0, <1>m DEF StoreWrite, StoreAccess, Enter, StorePrepareRequest, lists,
    daemon, history, ObjectTypes, CallTypes, DaemonTypes, Requests
<1>18. CASE WriteDone(c)
  BY <1>18, <1>t, <1>0, <1>m DEF WriteDone, Answered, Return, lists, daemon, history, ObjectTypes,
    CallTypes, DaemonTypes, Requests
<1> QED
  BY <1>1, <1>2, <1>3, <1>4, <1>5, <1>6, <1>7, <1>8, <1>9, <1>10, <1>11, <1>12, <1>13, <1>14,
    <1>15, <1>16, <1>17, <1>18 DEF Client

-----------------------------------------------------------------------------
(* What a step of a client does to its own part of the invariant.          *)

LEMMA CallStep ==
  ASSUME StoreTypes, NEW c \in Clients, CallOK(c), Client(c), mix' = mix
  PROVE  CallOK(c)'
<1>t. ObjectTypes /\ CallTypes /\ c \in Clients  BY DEF StoreTypes
<1>1. CASE StoreSubmitRequest(c)
  <2>0. Submitting(c) /\ Submitted(c)  BY <1>1, SubmitCases
  <2>1. CASE SubmitNull(c)
    BY <2>1, <2>0, <1>t DEF SubmitNull, Submitting, Answer, lists, daemon, history, ObjectTypes,
      CallTypes, CallOK, NoMemory, Kinds, Zero, NoAnswer
  <2>2. CASE SubmitStart(c)
    BY <2>2, <2>0, <1>t DEF SubmitStart, Submitting, Sent, XsTransactionStart, Answer, lists,
      daemon, history, ObjectTypes, CallTypes, CallOK, NoMemory, Kinds, Zero, NoAnswer
  <2>3. CASE SubmitEnd(c)
    BY <2>3, <2>0, <1>t DEF SubmitEnd, Submitting, Sent, XsTransactionEnd, Answer, lists, daemon,
      history, ObjectTypes, CallTypes, CallOK, NoMemory, Kinds, Zero, NoAnswer
  <2>4. CASE SubmitWatch(c)
    BY <2>4, <2>0, <1>t DEF SubmitWatch, Submitting, Sent, XsWatch, Answer, Token, lists, daemon,
      history, ObjectTypes, CallTypes, CallOK, NoMemory, Kinds, Zero, NoAnswer
  <2>5. CASE SubmitUnwatch(c)
    BY <2>5, <2>0, <1>t DEF SubmitUnwatch, Submitting, Sent, XsUnwatch, Answer, Token, lists,
      daemon, history, ObjectTypes, CallTypes, CallOK, NoMemory, Kinds, Zero, NoAnswer
  <2>6. CASE SubmitRead(c)
    BY <2>6, <2>0, <1>t DEF SubmitRead, Submitting, Sent, XsAccess, Answer, lists, daemon,
      history, ObjectTypes, CallTypes, CallOK, NoMemory, Kinds, Zero, NoAnswer
  <2> QED  BY <2>0, <2>1, <2>2, <2>3, <2>4, <2>5, <2>6 DEF Submitted
<1>2. CASE StoreAcquire(c)
  BY <1>2, <1>t DEF StoreAcquire, lists, daemon, history, ObjectTypes, CallTypes, CallOK,
    NoMemory, Kinds, Zero, NoAnswer
<1>3. CASE StoreRelease(c)
  BY <1>3, <1>t DEF StoreRelease, lists, daemon, history, ObjectTypes, CallTypes, CallOK,
    NoMemory, Kinds, Zero, NoAnswer
<1>4. CASE StoreTransactionStart(c)
  BY <1>4, <1>t DEF StoreTransactionStart, Enter, StorePrepareRequest, lists, daemon, history,
    ObjectTypes, CallTypes, CallOK, NoMemory, Kinds, Zero, NoAnswer
<1>5. CASE TransactionStarted(c)
  BY <1>5, <1>t DEF TransactionStarted, Answered, Return, Hold, lists, daemon, history,
    ObjectTypes, CallTypes, CallOK, NoMemory, Kinds, Zero, NoAnswer
<1>6. CASE StoreTransactionEnd(c)
  BY <1>6, <1>t DEF StoreTransactionEnd, Enter, StorePrepareRequest, TransactionDestroy, Forget,
    lists, daemon, history, ObjectTypes, CallTypes, CallOK, NoMemory, Kinds, Zero, NoAnswer
<1>7. CASE TransactionEnded(c)
  BY <1>7, <1>t DEF TransactionEnded, Answered, Return, TransactionDestroy, Forget, lists, daemon,
    history, ObjectTypes, CallTypes, CallOK, NoMemory, Kinds, Zero, NoAnswer
<1>8. CASE StoreWatchAdd(c)
  BY <1>8, <1>t DEF StoreWatchAdd, Enter, lists, daemon, history, ObjectTypes, CallTypes, CallOK,
    NoMemory, Kinds, Zero, NoAnswer
<1>9. CASE WatchPrepare(c)
  BY <1>9, <1>t DEF WatchPrepare, StorePrepareRequest, lists, daemon, history, ObjectTypes,
    CallTypes, CallOK, NoMemory, Kinds, Zero, NoAnswer
<1>10. CASE WatchAdded(c)
  BY <1>10, <1>t DEF WatchAdded, Answered, Return, Hold, WatchDestroy, lists, daemon, history,
    ObjectTypes, CallTypes, CallOK, NoMemory, Kinds, Zero, NoAnswer
<1>11. CASE StoreWatchRemove(c)
  BY <1>11, <1>t DEF StoreWatchRemove, Enter, StorePrepareRequest, WatchDestroy, Forget, lists,
    daemon, history, ObjectTypes, CallTypes, CallOK, NoMemory, Kinds, Zero, NoAnswer
<1>12. CASE WatchRemoved(c)
  BY <1>12, <1>t DEF WatchRemoved, Answered, Return, WatchDestroy, Forget, lists, daemon, history,
    ObjectTypes, CallTypes, CallOK, NoMemory, Kinds, Zero, NoAnswer
<1>13. CASE ClientWait(c)
  BY <1>13, <1>t DEF ClientWait, lists, daemon, history, ObjectTypes, CallTypes, CallOK, NoMemory,
    Kinds, Zero, NoAnswer
<1>14. CASE StoreRead(c)
  BY <1>14, <1>t DEF StoreRead, StoreAccess, Enter, StorePrepareRequest, lists, daemon, history,
    ObjectTypes, CallTypes, CallOK, NoMemory, Kinds, Zero, NoAnswer
<1>15. CASE ReadDone(c)
  BY <1>15, <1>t DEF ReadDone, Answered, Return, Hold, lists, daemon, history, ObjectTypes,
    CallTypes, CallOK, NoMemory, Kinds, Zero, NoAnswer
<1>16. CASE StoreFree(c)
  BY <1>16, <1>t DEF StoreFree, Forget, lists, daemon, history, ObjectTypes, CallTypes, CallOK,
    NoMemory, Kinds, Zero, NoAnswer
<1>17. CASE StoreWrite(c)
  BY <1>17, <1>t DEF StoreWrite, StoreAccess, Enter, StorePrepareRequest, lists, daemon, history,
    ObjectTypes, CallTypes, CallOK, NoMemory, Kinds, Zero, NoAnswer
<1>18. CASE WriteDone(c)
  BY <1>18, <1>t DEF WriteDone, Answered, Return, lists, daemon, history, ObjectTypes, CallTypes,
    CallOK, NoMemory, Kinds, Zero, NoAnswer
<1> QED
  BY <1>1, <1>2, <1>3, <1>4, <1>5, <1>6, <1>7, <1>8, <1>9, <1>10, <1>11, <1>12, <1>13, <1>14,
    <1>15, <1>16, <1>17, <1>18 DEF Client

LEMMA HandleStep ==
  ASSUME StoreTypes, NEW c \in Clients, CallOK(c), HandleOK(c), Client(c), mix' = mix
  PROVE  HandleOK(c)'
<1>t. ObjectTypes /\ CallTypes /\ c \in Clients  BY DEF StoreTypes
<1>0. c \in Told => c \in Told'  BY ClientTells
<1>1. CASE StoreSubmitRequest(c)
  <2>0. Submitting(c) /\ Submitted(c)  BY <1>1, SubmitCases
  <2>1. CASE SubmitNull(c)
    BY <2>1, <2>0, <1>t, <1>0 DEF SubmitNull, Submitting, Answer, lists, daemon, history,
      ObjectTypes, CallTypes, CallOK, HandleOK
  <2>2. CASE SubmitStart(c)
    BY <2>2, <2>0, <1>t, <1>0 DEF SubmitStart, Submitting, Sent, XsTransactionStart, Answer,
      lists, daemon, history, ObjectTypes, CallTypes, CallOK, HandleOK
  <2>3. CASE SubmitEnd(c)
    BY <2>3, <2>0, <1>t, <1>0 DEF SubmitEnd, Submitting, Sent, XsTransactionEnd, Answer, lists,
      daemon, history, ObjectTypes, CallTypes, CallOK, HandleOK
  <2>4. CASE SubmitWatch(c)
    BY <2>4, <2>0, <1>t, <1>0 DEF SubmitWatch, Submitting, Sent, XsWatch, Answer, Token, lists,
      daemon, history, ObjectTypes, CallTypes, CallOK, HandleOK
  <2>5. CASE SubmitUnwatch(c)
    BY <2>5, <2>0, <1>t, <1>0 DEF SubmitUnwatch, Submitting, Sent, XsUnwatch, Answer, Token,
      lists, daemon, history, ObjectTypes, CallTypes, CallOK, HandleOK
  <2>6. CASE SubmitRead(c)
    BY <2>6, <2>0, <1>t, <1>0 DEF SubmitRead, Submitting, Sent, XsAccess, Answer, lists, daemon,
      history, ObjectTypes, CallTypes, CallOK, HandleOK
  <2> QED  BY <2>0, <2>1, <2>2, <2>3, <2>4, <2>5, <2>6 DEF Submitted
<1>2. CASE StoreAcquire(c)
  BY <1>2, <1>t, <1>0 DEF StoreAcquire, lists, daemon, history, ObjectTypes, CallTypes, CallOK,
    HandleOK
<1>3. CASE StoreRelease(c)
  BY <1>3, <1>t, <1>0 DEF StoreRelease, lists, daemon, history, ObjectTypes, CallTypes, CallOK,
    HandleOK
<1>4. CASE StoreTransactionStart(c)
  BY <1>4, <1>t, <1>0 DEF StoreTransactionStart, Enter, StorePrepareRequest, lists, daemon,
    history, ObjectTypes, CallTypes, CallOK, HandleOK
<1>5. CASE TransactionStarted(c)
  BY <1>5, <1>t, <1>0 DEF TransactionStarted, Answered, Return, Hold, lists, daemon, history,
    ObjectTypes, CallTypes, CallOK, HandleOK
<1>6. CASE StoreTransactionEnd(c)
  BY <1>6, <1>t, <1>0 DEF StoreTransactionEnd, Enter, StorePrepareRequest, TransactionDestroy,
    Forget, lists, daemon, history, ObjectTypes, CallTypes, CallOK, HandleOK
<1>7. CASE TransactionEnded(c)
  BY <1>7, <1>t, <1>0 DEF TransactionEnded, Answered, Return, TransactionDestroy, Forget, lists,
    daemon, history, ObjectTypes, CallTypes, CallOK, HandleOK
<1>8. CASE StoreWatchAdd(c)
  BY <1>8, <1>t, <1>0 DEF StoreWatchAdd, Enter, lists, daemon, history, ObjectTypes, CallTypes,
    CallOK, HandleOK
<1>9. CASE WatchPrepare(c)
  BY <1>9, <1>t, <1>0 DEF WatchPrepare, StorePrepareRequest, lists, daemon, history, ObjectTypes,
    CallTypes, CallOK, HandleOK
<1>10. CASE WatchAdded(c)
  BY <1>10, <1>t, <1>0 DEF WatchAdded, Answered, Return, Hold, WatchDestroy, lists, daemon,
    history, ObjectTypes, CallTypes, CallOK, HandleOK
<1>11. CASE StoreWatchRemove(c)
  BY <1>11, <1>t, <1>0 DEF StoreWatchRemove, Enter, StorePrepareRequest, WatchDestroy, Forget,
    lists, daemon, history, ObjectTypes, CallTypes, CallOK, HandleOK
<1>12. CASE WatchRemoved(c)
  BY <1>12, <1>t, <1>0 DEF WatchRemoved, Answered, Return, WatchDestroy, Forget, lists, daemon,
    history, ObjectTypes, CallTypes, CallOK, HandleOK
<1>13. CASE ClientWait(c)
  BY <1>13, <1>t, <1>0 DEF ClientWait, lists, daemon, history, ObjectTypes, CallTypes, CallOK,
    HandleOK
<1>14. CASE StoreRead(c)
  BY <1>14, <1>t, <1>0 DEF StoreRead, StoreAccess, Enter, StorePrepareRequest, lists, daemon,
    history, ObjectTypes, CallTypes, CallOK, HandleOK
<1>15. CASE ReadDone(c)
  BY <1>15, <1>t, <1>0 DEF ReadDone, Answered, Return, Hold, lists, daemon, history, ObjectTypes,
    CallTypes, CallOK, HandleOK
<1>16. CASE StoreFree(c)
  BY <1>16, <1>t, <1>0 DEF StoreFree, Forget, lists, daemon, history, ObjectTypes, CallTypes,
    CallOK, HandleOK
<1>17. CASE StoreWrite(c)
  BY <1>17, <1>t, <1>0 DEF StoreWrite, StoreAccess, Enter, StorePrepareRequest, lists, daemon,
    history, ObjectTypes, CallTypes, CallOK, HandleOK
<1>18. CASE WriteDone(c)
  BY <1>18, <1>t, <1>0 DEF WriteDone, Answered, Return, lists, daemon, history, ObjectTypes,
    CallTypes, CallOK, HandleOK
<1> QED
  BY <1>1, <1>2, <1>3, <1>4, <1>5, <1>6, <1>7, <1>8, <1>9, <1>10, <1>11, <1>12, <1>13, <1>14,
    <1>15, <1>16, <1>17, <1>18 DEF Client

\* No answer of xenstored has left an object on its list.
Freed(c) == /\ Answered(c, "TransactionEnd") => response[c].status \in {"ok", "again"}
            /\ Answered(c, "WatchRemove") => response[c].status = "ok"

LEMMA HeldStep ==
  ASSUME StoreTypes, NEW c \in Clients, CallOK(c), Freed(c), HeldOK(c), Client(c)
  PROVE  HeldOK(c)'
<1>t. ObjectTypes /\ CallTypes /\ c \in Clients  BY DEF StoreTypes
<1>1. CASE StoreSubmitRequest(c)
  <2>0. Submitting(c) /\ Submitted(c)  BY <1>1, SubmitCases
  <2>1. CASE SubmitNull(c)
    BY <2>1, <2>0, <1>t DEF SubmitNull, Submitting, Answer, lists, daemon, history, ObjectTypes,
      CallTypes, CallOK, HeldOK, Freed
  <2>2. CASE SubmitStart(c)
    BY <2>2, <2>0, <1>t DEF SubmitStart, Submitting, Sent, XsTransactionStart, Answer, lists,
      daemon, history, ObjectTypes, CallTypes, CallOK, HeldOK, Freed
  <2>3. CASE SubmitEnd(c)
    BY <2>3, <2>0, <1>t DEF SubmitEnd, Submitting, Sent, XsTransactionEnd, Answer, lists, daemon,
      history, ObjectTypes, CallTypes, CallOK, HeldOK, Freed
  <2>4. CASE SubmitWatch(c)
    BY <2>4, <2>0, <1>t DEF SubmitWatch, Submitting, Sent, XsWatch, Answer, Token, lists, daemon,
      history, ObjectTypes, CallTypes, CallOK, HeldOK, Freed
  <2>5. CASE SubmitUnwatch(c)
    BY <2>5, <2>0, <1>t DEF SubmitUnwatch, Submitting, Sent, XsUnwatch, Answer, Token, lists,
      daemon, history, ObjectTypes, CallTypes, CallOK, HeldOK, Freed
  <2>6. CASE SubmitRead(c)
    BY <2>6, <2>0, <1>t DEF SubmitRead, Submitting, Sent, XsAccess, Answer, lists, daemon,
      history, ObjectTypes, CallTypes, CallOK, HeldOK, Freed
  <2> QED  BY <2>0, <2>1, <2>2, <2>3, <2>4, <2>5, <2>6 DEF Submitted
<1>2. CASE StoreAcquire(c)
  BY <1>2, <1>t DEF StoreAcquire, lists, daemon, history, ObjectTypes, CallTypes, CallOK, HeldOK,
    Freed
<1>3. CASE StoreRelease(c)
  BY <1>3, <1>t DEF StoreRelease, lists, daemon, history, ObjectTypes, CallTypes, CallOK, HeldOK,
    Freed
<1>4. CASE StoreTransactionStart(c)
  BY <1>4, <1>t DEF StoreTransactionStart, Enter, StorePrepareRequest, lists, daemon, history,
    ObjectTypes, CallTypes, CallOK, HeldOK, Freed
<1>5. CASE TransactionStarted(c)
  BY <1>5, <1>t DEF TransactionStarted, Answered, Return, Hold, lists, daemon, history,
    ObjectTypes, CallTypes, CallOK, HeldOK, Freed
<1>6. CASE StoreTransactionEnd(c)
  BY <1>6, <1>t DEF StoreTransactionEnd, Enter, StorePrepareRequest, TransactionDestroy, Forget,
    lists, daemon, history, ObjectTypes, CallTypes, CallOK, HeldOK, Freed
<1>7. CASE TransactionEnded(c)
  BY <1>7, <1>t DEF TransactionEnded, Answered, Return, TransactionDestroy, Forget, lists, daemon,
    history, ObjectTypes, CallTypes, CallOK, HeldOK, Freed
<1>8. CASE StoreWatchAdd(c)
  BY <1>8, <1>t DEF StoreWatchAdd, Enter, lists, daemon, history, ObjectTypes, CallTypes, CallOK,
    HeldOK, Freed
<1>9. CASE WatchPrepare(c)
  BY <1>9, <1>t DEF WatchPrepare, StorePrepareRequest, lists, daemon, history, ObjectTypes,
    CallTypes, CallOK, HeldOK, Freed
<1>10. CASE WatchAdded(c)
  BY <1>10, <1>t DEF WatchAdded, Answered, Return, Hold, WatchDestroy, lists, daemon, history,
    ObjectTypes, CallTypes, CallOK, HeldOK, Freed
<1>11. CASE StoreWatchRemove(c)
  BY <1>11, <1>t DEF StoreWatchRemove, Enter, StorePrepareRequest, WatchDestroy, Forget, lists,
    daemon, history, ObjectTypes, CallTypes, CallOK, HeldOK, Freed
<1>12. CASE WatchRemoved(c)
  BY <1>12, <1>t DEF WatchRemoved, Answered, Return, WatchDestroy, Forget, lists, daemon, history,
    ObjectTypes, CallTypes, CallOK, HeldOK, Freed
<1>13. CASE ClientWait(c)
  BY <1>13, <1>t DEF ClientWait, lists, daemon, history, ObjectTypes, CallTypes, CallOK, HeldOK,
    Freed
<1>14. CASE StoreRead(c)
  BY <1>14, <1>t DEF StoreRead, StoreAccess, Enter, StorePrepareRequest, lists, daemon, history,
    ObjectTypes, CallTypes, CallOK, HeldOK, Freed
<1>15. CASE ReadDone(c)
  BY <1>15, <1>t DEF ReadDone, Answered, Return, Hold, lists, daemon, history, ObjectTypes,
    CallTypes, CallOK, HeldOK, Freed
<1>16. CASE StoreFree(c)
  BY <1>16, <1>t DEF StoreFree, Forget, lists, daemon, history, ObjectTypes, CallTypes, CallOK,
    HeldOK, Freed
<1>17. CASE StoreWrite(c)
  BY <1>17, <1>t DEF StoreWrite, StoreAccess, Enter, StorePrepareRequest, lists, daemon, history,
    ObjectTypes, CallTypes, CallOK, HeldOK, Freed
<1>18. CASE WriteDone(c)
  BY <1>18, <1>t DEF WriteDone, Answered, Return, lists, daemon, history, ObjectTypes, CallTypes,
    CallOK, HeldOK, Freed
<1> QED
  BY <1>1, <1>2, <1>3, <1>4, <1>5, <1>6, <1>7, <1>8, <1>9, <1>10, <1>11, <1>12, <1>13, <1>14,
    <1>15, <1>16, <1>17, <1>18 DEF Client

LEMMA ReferencedStep ==
  ASSUME StoreTypes, NEW c \in Clients, CallOK(c), Client(c), ~StoreRelease(c)
  PROVE  c \in references' /\ bugcheck' = bugcheck
<1>t. ObjectTypes /\ CallTypes /\ c \in Clients  BY DEF StoreTypes
<1>1. CASE StoreSubmitRequest(c)
  <2>0. Submitting(c) /\ Submitted(c)  BY <1>1, SubmitCases
  <2>1. CASE SubmitNull(c)
    BY <2>1, <2>0, <1>t DEF SubmitNull, Submitting, Answer, lists, daemon, history, ObjectTypes,
      CallTypes, CallOK
  <2>2. CASE SubmitStart(c)
    BY <2>2, <2>0, <1>t DEF SubmitStart, Submitting, Sent, XsTransactionStart, Answer, lists,
      daemon, history, ObjectTypes, CallTypes, CallOK
  <2>3. CASE SubmitEnd(c)
    BY <2>3, <2>0, <1>t DEF SubmitEnd, Submitting, Sent, XsTransactionEnd, Answer, lists, daemon,
      history, ObjectTypes, CallTypes, CallOK
  <2>4. CASE SubmitWatch(c)
    BY <2>4, <2>0, <1>t DEF SubmitWatch, Submitting, Sent, XsWatch, Answer, Token, lists, daemon,
      history, ObjectTypes, CallTypes, CallOK
  <2>5. CASE SubmitUnwatch(c)
    BY <2>5, <2>0, <1>t DEF SubmitUnwatch, Submitting, Sent, XsUnwatch, Answer, Token, lists,
      daemon, history, ObjectTypes, CallTypes, CallOK
  <2>6. CASE SubmitRead(c)
    BY <2>6, <2>0, <1>t DEF SubmitRead, Submitting, Sent, XsAccess, Answer, lists, daemon,
      history, ObjectTypes, CallTypes, CallOK
  <2> QED  BY <2>0, <2>1, <2>2, <2>3, <2>4, <2>5, <2>6 DEF Submitted
<1>2. CASE StoreAcquire(c)
  BY <1>2, <1>t DEF StoreAcquire, lists, daemon, history, ObjectTypes, CallTypes, CallOK
<1>3. CASE StoreRelease(c)
  BY <1>3, <1>t DEF StoreRelease, lists, daemon, history, ObjectTypes, CallTypes, CallOK
<1>4. CASE StoreTransactionStart(c)
  BY <1>4, <1>t DEF StoreTransactionStart, Enter, StorePrepareRequest, lists, daemon, history,
    ObjectTypes, CallTypes, CallOK
<1>5. CASE TransactionStarted(c)
  BY <1>5, <1>t DEF TransactionStarted, Answered, Return, Hold, lists, daemon, history,
    ObjectTypes, CallTypes, CallOK
<1>6. CASE StoreTransactionEnd(c)
  BY <1>6, <1>t DEF StoreTransactionEnd, Enter, StorePrepareRequest, TransactionDestroy, Forget,
    lists, daemon, history, ObjectTypes, CallTypes, CallOK
<1>7. CASE TransactionEnded(c)
  BY <1>7, <1>t DEF TransactionEnded, Answered, Return, TransactionDestroy, Forget, lists, daemon,
    history, ObjectTypes, CallTypes, CallOK
<1>8. CASE StoreWatchAdd(c)
  BY <1>8, <1>t DEF StoreWatchAdd, Enter, lists, daemon, history, ObjectTypes, CallTypes, CallOK
<1>9. CASE WatchPrepare(c)
  BY <1>9, <1>t DEF WatchPrepare, StorePrepareRequest, lists, daemon, history, ObjectTypes,
    CallTypes, CallOK
<1>10. CASE WatchAdded(c)
  BY <1>10, <1>t DEF WatchAdded, Answered, Return, Hold, WatchDestroy, lists, daemon, history,
    ObjectTypes, CallTypes, CallOK
<1>11. CASE StoreWatchRemove(c)
  BY <1>11, <1>t DEF StoreWatchRemove, Enter, StorePrepareRequest, WatchDestroy, Forget, lists,
    daemon, history, ObjectTypes, CallTypes, CallOK
<1>12. CASE WatchRemoved(c)
  BY <1>12, <1>t DEF WatchRemoved, Answered, Return, WatchDestroy, Forget, lists, daemon, history,
    ObjectTypes, CallTypes, CallOK
<1>13. CASE ClientWait(c)
  BY <1>13, <1>t DEF ClientWait, lists, daemon, history, ObjectTypes, CallTypes, CallOK
<1>14. CASE StoreRead(c)
  BY <1>14, <1>t DEF StoreRead, StoreAccess, Enter, StorePrepareRequest, lists, daemon, history,
    ObjectTypes, CallTypes, CallOK
<1>15. CASE ReadDone(c)
  BY <1>15, <1>t DEF ReadDone, Answered, Return, Hold, lists, daemon, history, ObjectTypes,
    CallTypes, CallOK
<1>16. CASE StoreFree(c)
  BY <1>16, <1>t DEF StoreFree, Forget, lists, daemon, history, ObjectTypes, CallTypes, CallOK
<1>17. CASE StoreWrite(c)
  BY <1>17, <1>t DEF StoreWrite, StoreAccess, Enter, StorePrepareRequest, lists, daemon, history,
    ObjectTypes, CallTypes, CallOK
<1>18. CASE WriteDone(c)
  BY <1>18, <1>t DEF WriteDone, Answered, Return, lists, daemon, history, ObjectTypes, CallTypes,
    CallOK
<1> QED
  BY <1>1, <1>2, <1>3, <1>4, <1>5, <1>6, <1>7, <1>8, <1>9, <1>10, <1>11, <1>12, <1>13, <1>14,
    <1>15, <1>16, <1>17, <1>18 DEF Client

\* The watch of a client that takes a step keeps its id, or has one that no watch had.
FreshId(c) == c \in WatchList' => \/ c \in WatchList /\ watch'[c].Id = watch[c].Id
                                 \/ \A d \in WatchList : watch[d].Id # watch'[c].Id

LEMMA FreshStep ==
  ASSUME StoreAssumption, StoreTypes, NEW c \in Clients, CallOK(c), Client(c)
  PROVE  FreshId(c)
<1>t. ObjectTypes /\ CallTypes /\ c \in Clients  BY DEF StoreTypes
<1>f. \A d \in WatchList : watch[d].Id # StoreNextWatchId
  BY NextWatchIdIsFree DEF StoreFindWatch
<1>1. CASE StoreSubmitRequest(c)
  <2>0. Submitting(c) /\ Submitted(c)  BY <1>1, SubmitCases
  <2>1. CASE SubmitNull(c)
    BY <2>1, <2>0, <1>t, <1>f DEF SubmitNull, Submitting, Answer, lists, daemon, history,
      ObjectTypes, CallTypes, FreshId
  <2>2. CASE SubmitStart(c)
    BY <2>2, <2>0, <1>t, <1>f DEF SubmitStart, Submitting, Sent, XsTransactionStart, Answer,
      lists, daemon, history, ObjectTypes, CallTypes, FreshId
  <2>3. CASE SubmitEnd(c)
    BY <2>3, <2>0, <1>t, <1>f DEF SubmitEnd, Submitting, Sent, XsTransactionEnd, Answer, lists,
      daemon, history, ObjectTypes, CallTypes, FreshId
  <2>4. CASE SubmitWatch(c)
    BY <2>4, <2>0, <1>t, <1>f DEF SubmitWatch, Submitting, Sent, XsWatch, Answer, Token, lists,
      daemon, history, ObjectTypes, CallTypes, FreshId
  <2>5. CASE SubmitUnwatch(c)
    BY <2>5, <2>0, <1>t, <1>f DEF SubmitUnwatch, Submitting, Sent, XsUnwatch, Answer, Token,
      lists, daemon, history, ObjectTypes, CallTypes, FreshId
  <2>6. CASE SubmitRead(c)
    BY <2>6, <2>0, <1>t, <1>f DEF SubmitRead, Submitting, Sent, XsAccess, Answer, lists, daemon,
      history, ObjectTypes, CallTypes, FreshId
  <2> QED  BY <2>0, <2>1, <2>2, <2>3, <2>4, <2>5, <2>6 DEF Submitted
<1>2. CASE StoreAcquire(c)
  BY <1>2, <1>t, <1>f DEF StoreAcquire, lists, daemon, history, ObjectTypes, CallTypes, FreshId
<1>3. CASE StoreRelease(c)
  BY <1>3, <1>t, <1>f DEF StoreRelease, lists, daemon, history, ObjectTypes, CallTypes, FreshId
<1>4. CASE StoreTransactionStart(c)
  BY <1>4, <1>t, <1>f DEF StoreTransactionStart, Enter, StorePrepareRequest, lists, daemon,
    history, ObjectTypes, CallTypes, FreshId
<1>5. CASE TransactionStarted(c)
  BY <1>5, <1>t, <1>f DEF TransactionStarted, Answered, Return, Hold, lists, daemon, history,
    ObjectTypes, CallTypes, FreshId
<1>6. CASE StoreTransactionEnd(c)
  BY <1>6, <1>t, <1>f DEF StoreTransactionEnd, Enter, StorePrepareRequest, TransactionDestroy,
    Forget, lists, daemon, history, ObjectTypes, CallTypes, FreshId
<1>7. CASE TransactionEnded(c)
  BY <1>7, <1>t, <1>f DEF TransactionEnded, Answered, Return, TransactionDestroy, Forget, lists,
    daemon, history, ObjectTypes, CallTypes, FreshId
<1>8. CASE StoreWatchAdd(c)
  BY <1>8, <1>t, <1>f DEF StoreWatchAdd, Enter, lists, daemon, history, ObjectTypes, CallTypes,
    FreshId
<1>9. CASE WatchPrepare(c)
  BY <1>9, <1>t, <1>f DEF WatchPrepare, StorePrepareRequest, lists, daemon, history, ObjectTypes,
    CallTypes, FreshId
<1>10. CASE WatchAdded(c)
  BY <1>10, <1>t, <1>f DEF WatchAdded, Answered, Return, Hold, WatchDestroy, lists, daemon,
    history, ObjectTypes, CallTypes, FreshId
<1>11. CASE StoreWatchRemove(c)
  BY <1>11, <1>t, <1>f DEF StoreWatchRemove, Enter, StorePrepareRequest, WatchDestroy, Forget,
    lists, daemon, history, ObjectTypes, CallTypes, FreshId
<1>12. CASE WatchRemoved(c)
  BY <1>12, <1>t, <1>f DEF WatchRemoved, Answered, Return, WatchDestroy, Forget, lists, daemon,
    history, ObjectTypes, CallTypes, FreshId
<1>13. CASE ClientWait(c)
  BY <1>13, <1>t, <1>f DEF ClientWait, lists, daemon, history, ObjectTypes, CallTypes, FreshId
<1>14. CASE StoreRead(c)
  BY <1>14, <1>t, <1>f DEF StoreRead, StoreAccess, Enter, StorePrepareRequest, lists, daemon,
    history, ObjectTypes, CallTypes, FreshId
<1>15. CASE ReadDone(c)
  BY <1>15, <1>t, <1>f DEF ReadDone, Answered, Return, Hold, lists, daemon, history, ObjectTypes,
    CallTypes, FreshId
<1>16. CASE StoreFree(c)
  BY <1>16, <1>t, <1>f DEF StoreFree, Forget, lists, daemon, history, ObjectTypes, CallTypes,
    FreshId
<1>17. CASE StoreWrite(c)
  BY <1>17, <1>t, <1>f DEF StoreWrite, StoreAccess, Enter, StorePrepareRequest, lists, daemon,
    history, ObjectTypes, CallTypes, FreshId
<1>18. CASE WriteDone(c)
  BY <1>18, <1>t, <1>f DEF WriteDone, Answered, Return, lists, daemon, history, ObjectTypes,
    CallTypes, FreshId
<1> QED
  BY <1>1, <1>2, <1>3, <1>4, <1>5, <1>6, <1>7, <1>8, <1>9, <1>10, <1>11, <1>12, <1>13, <1>14,
    <1>15, <1>16, <1>17, <1>18 DEF Client

LEMMA WatchStep ==
  ASSUME StoreTypes, NEW c \in Clients, CallOK(c), HandleOK(c), WatchOK(c), Client(c)
  PROVE  WatchOK(c)'
<1>t. ObjectTypes /\ CallTypes /\ c \in Clients  BY DEF StoreTypes
<1>1. CASE StoreSubmitRequest(c)
  <2>0. Submitting(c) /\ Submitted(c)  BY <1>1, SubmitCases
  <2>1. CASE SubmitNull(c)
    BY <2>1, <2>0, <1>t DEF SubmitNull, Submitting, Answer, lists, daemon, history, ObjectTypes,
      CallTypes, CallOK, HandleOK, WatchOK, Watched, Unwatched, Answered, NoAnswer
  <2>2. CASE SubmitStart(c)
    BY <2>2, <2>0, <1>t DEF SubmitStart, Submitting, Sent, XsTransactionStart, Answer, lists,
      daemon, history, ObjectTypes, CallTypes, CallOK, HandleOK, WatchOK, Watched, Unwatched,
      Answered, NoAnswer
  <2>3. CASE SubmitEnd(c)
    BY <2>3, <2>0, <1>t DEF SubmitEnd, Submitting, Sent, XsTransactionEnd, Answer, lists, daemon,
      history, ObjectTypes, CallTypes, CallOK, HandleOK, WatchOK, Watched, Unwatched, Answered,
      NoAnswer
  <2>4. CASE SubmitWatch(c)
    BY <2>4, <2>0, <1>t DEF SubmitWatch, Submitting, Sent, XsWatch, Answer, Token, lists, daemon,
      history, ObjectTypes, CallTypes, CallOK, HandleOK, WatchOK, Watched, Unwatched, Answered,
      NoAnswer
  <2>5. CASE SubmitUnwatch(c)
    BY <2>5, <2>0, <1>t DEF SubmitUnwatch, Submitting, Sent, XsUnwatch, Answer, Token, lists,
      daemon, history, ObjectTypes, CallTypes, CallOK, HandleOK, WatchOK, Watched, Unwatched,
      Answered, NoAnswer
  <2>6. CASE SubmitRead(c)
    BY <2>6, <2>0, <1>t DEF SubmitRead, Submitting, Sent, XsAccess, Answer, lists, daemon,
      history, ObjectTypes, CallTypes, CallOK, HandleOK, WatchOK, Watched, Unwatched, Answered,
      NoAnswer
  <2> QED  BY <2>0, <2>1, <2>2, <2>3, <2>4, <2>5, <2>6 DEF Submitted
<1>2. CASE StoreAcquire(c)
  BY <1>2, <1>t DEF StoreAcquire, lists, daemon, history, ObjectTypes, CallTypes, CallOK,
    HandleOK, WatchOK, Watched, Unwatched, Answered, NoAnswer
<1>3. CASE StoreRelease(c)
  BY <1>3, <1>t DEF StoreRelease, lists, daemon, history, ObjectTypes, CallTypes, CallOK,
    HandleOK, WatchOK, Watched, Unwatched, Answered, NoAnswer
<1>4. CASE StoreTransactionStart(c)
  BY <1>4, <1>t DEF StoreTransactionStart, Enter, StorePrepareRequest, lists, daemon, history,
    ObjectTypes, CallTypes, CallOK, HandleOK, WatchOK, Watched, Unwatched, Answered, NoAnswer
<1>5. CASE TransactionStarted(c)
  BY <1>5, <1>t DEF TransactionStarted, Answered, Return, Hold, lists, daemon, history,
    ObjectTypes, CallTypes, CallOK, HandleOK, WatchOK, Watched, Unwatched, NoAnswer
<1>6. CASE StoreTransactionEnd(c)
  BY <1>6, <1>t DEF StoreTransactionEnd, Enter, StorePrepareRequest, TransactionDestroy, Forget,
    lists, daemon, history, ObjectTypes, CallTypes, CallOK, HandleOK, WatchOK, Watched, Unwatched,
    Answered, NoAnswer
<1>7. CASE TransactionEnded(c)
  BY <1>7, <1>t DEF TransactionEnded, Answered, Return, TransactionDestroy, Forget, lists, daemon,
    history, ObjectTypes, CallTypes, CallOK, HandleOK, WatchOK, Watched, Unwatched,
    NoAnswer
<1>8. CASE StoreWatchAdd(c)
  BY <1>8, <1>t DEF StoreWatchAdd, Enter, lists, daemon, history, ObjectTypes, CallTypes, CallOK,
    HandleOK, WatchOK, Watched, Unwatched, Answered, NoAnswer
<1>9. CASE WatchPrepare(c)
  BY <1>9, <1>t DEF WatchPrepare, StorePrepareRequest, lists, daemon, history, ObjectTypes,
    CallTypes, CallOK, HandleOK, WatchOK, Watched, Unwatched, Answered, NoAnswer
<1>10. CASE WatchAdded(c)
  BY <1>10, <1>t DEF WatchAdded, Answered, Return, Hold, WatchDestroy, lists, daemon, history,
    ObjectTypes, CallTypes, CallOK, HandleOK, WatchOK, Watched, Unwatched, NoAnswer
<1>11. CASE StoreWatchRemove(c)
  <2>1. CASE watch[c].Active
    BY <1>11, <2>1, <1>t DEF StoreWatchRemove, Enter, StorePrepareRequest, lists, daemon, history,
      ObjectTypes, CallTypes, HandleOK, WatchOK, Watched, Unwatched, Answered
  <2>2. CASE ~watch[c].Active
    BY <1>11, <2>2, <1>t DEF StoreWatchRemove, WatchDestroy, Forget, CallOK, lists, daemon, history,
      ObjectTypes, CallTypes, HandleOK, WatchOK, Watched, Unwatched, Answered
  <2> QED  BY <2>1, <2>2
<1>12. CASE WatchRemoved(c)
  BY <1>12, <1>t DEF WatchRemoved, Answered, Return, WatchDestroy, Forget, lists, daemon, history,
    ObjectTypes, CallTypes, CallOK, HandleOK, WatchOK, Watched, Unwatched, NoAnswer
<1>13. CASE ClientWait(c)
  BY <1>13, <1>t DEF ClientWait, lists, daemon, history, ObjectTypes, CallTypes, CallOK, HandleOK,
    WatchOK, Watched, Unwatched, Answered, NoAnswer
<1>14. CASE StoreRead(c)
  BY <1>14, <1>t DEF StoreRead, StoreAccess, Enter, StorePrepareRequest, lists, daemon, history,
    ObjectTypes, CallTypes, CallOK, HandleOK, WatchOK, Watched, Unwatched, Answered, NoAnswer
<1>15. CASE ReadDone(c)
  BY <1>15, <1>t DEF ReadDone, Answered, Return, Hold, lists, daemon, history, ObjectTypes,
    CallTypes, CallOK, HandleOK, WatchOK, Watched, Unwatched, NoAnswer
<1>16. CASE StoreFree(c)
  BY <1>16, <1>t DEF StoreFree, Forget, lists, daemon, history, ObjectTypes, CallTypes, CallOK,
    HandleOK, WatchOK, Watched, Unwatched, Answered, NoAnswer
<1>17. CASE StoreWrite(c)
  BY <1>17, <1>t DEF StoreWrite, StoreAccess, Enter, StorePrepareRequest, lists, daemon, history,
    ObjectTypes, CallTypes, CallOK, HandleOK, WatchOK, Watched, Unwatched, Answered, NoAnswer
<1>18. CASE WriteDone(c)
  BY <1>18, <1>t DEF WriteDone, Answered, Return, lists, daemon, history, ObjectTypes, CallTypes,
    CallOK, HandleOK, WatchOK, Watched, Unwatched, NoAnswer
<1> QED
  BY <1>1, <1>2, <1>3, <1>4, <1>5, <1>6, <1>7, <1>8, <1>9, <1>10, <1>11, <1>12, <1>13, <1>14,
    <1>15, <1>16, <1>17, <1>18 DEF Client

LEMMA EndStep ==
  ASSUME StoreTypes, NEW c \in Clients, CallOK(c), HandleOK(c), EndOK(c), Client(c),
         \A id \in TxIds \union {0} : Owns(c, id) => id \in xsTransactions
  PROVE  EndOK(c)'
<1>t. ObjectTypes /\ CallTypes /\ c \in Clients  BY DEF StoreTypes
<1>1. CASE StoreSubmitRequest(c)
  <2>0. Submitting(c) /\ Submitted(c)  BY <1>1, SubmitCases
  <2>1. CASE SubmitNull(c)
    BY <2>1, <2>0, <1>t DEF SubmitNull, Submitting, Answer, lists, daemon, history, ObjectTypes,
      CallTypes, CallOK, EndOK, Requests, HandleOK, Answered, NoAnswer, Owns, Open, Ended
  <2>2. CASE SubmitStart(c)
    BY <2>2, <2>0, <1>t DEF SubmitStart, Submitting, Sent, XsTransactionStart, Answer, lists,
      daemon, history, ObjectTypes, CallTypes, CallOK, EndOK, Requests, HandleOK, Answered,
      NoAnswer, Owns, Open, Ended
  <2>3. CASE SubmitEnd(c)
    BY <2>3, <2>0, <1>t DEF SubmitEnd, Submitting, Sent, XsTransactionEnd, Answer, lists, daemon,
      history, ObjectTypes, CallTypes, CallOK, EndOK, Requests, HandleOK, Answered, NoAnswer, Owns,
      Open, Ended
  <2>4. CASE SubmitWatch(c)
    BY <2>4, <2>0, <1>t DEF SubmitWatch, Submitting, Sent, XsWatch, Answer, Token, lists, daemon,
      history, ObjectTypes, CallTypes, CallOK, EndOK, Requests, HandleOK, Answered, NoAnswer, Owns,
      Open, Ended
  <2>5. CASE SubmitUnwatch(c)
    BY <2>5, <2>0, <1>t DEF SubmitUnwatch, Submitting, Sent, XsUnwatch, Answer, Token, lists,
      daemon, history, ObjectTypes, CallTypes, CallOK, EndOK, Requests, HandleOK, Answered,
      NoAnswer, Owns, Open, Ended
  <2>6. CASE SubmitRead(c)
    BY <2>6, <2>0, <1>t DEF SubmitRead, Submitting, Sent, XsAccess, Answer, lists, daemon,
      history, ObjectTypes, CallTypes, CallOK, EndOK, Requests, HandleOK, Answered, NoAnswer, Owns,
      Open, Ended
  <2> QED  BY <2>0, <2>1, <2>2, <2>3, <2>4, <2>5, <2>6 DEF Submitted
<1>2. CASE StoreAcquire(c)
  BY <1>2, <1>t DEF StoreAcquire, lists, daemon, history, ObjectTypes, CallTypes, CallOK, EndOK,
    Requests, HandleOK, Answered, NoAnswer, Owns, Open, Ended
<1>3. CASE StoreRelease(c)
  BY <1>3, <1>t DEF StoreRelease, lists, daemon, history, ObjectTypes, CallTypes, CallOK, EndOK,
    Requests, HandleOK, Answered, NoAnswer, Owns, Open, Ended
<1>4. CASE StoreTransactionStart(c)
  BY <1>4, <1>t DEF StoreTransactionStart, Enter, StorePrepareRequest, lists, daemon, history,
    ObjectTypes, CallTypes, CallOK, EndOK, Requests, HandleOK, Answered, NoAnswer, Owns, Open, Ended
<1>5. CASE TransactionStarted(c)
  BY <1>5, <1>t DEF TransactionStarted, Answered, Return, Hold, lists, daemon, history,
    ObjectTypes, CallTypes, CallOK, EndOK, Requests, HandleOK, NoAnswer, Owns, Open, Ended
<1>6. CASE StoreTransactionEnd(c)
  BY <1>6, <1>t DEF StoreTransactionEnd, Enter, StorePrepareRequest, TransactionDestroy, Forget,
    lists, daemon, history, ObjectTypes, CallTypes, CallOK, EndOK, Requests, HandleOK, Answered,
    NoAnswer, Owns, Open, Ended
<1>7. CASE TransactionEnded(c)
  BY <1>7, <1>t DEF TransactionEnded, Answered, Return, TransactionDestroy, Forget, lists, daemon,
    history, ObjectTypes, CallTypes, CallOK, EndOK, Requests, HandleOK, NoAnswer, Owns,
    Open, Ended
<1>8. CASE StoreWatchAdd(c)
  BY <1>8, <1>t DEF StoreWatchAdd, Enter, lists, daemon, history, ObjectTypes, CallTypes, CallOK,
    EndOK, Requests, HandleOK, Answered, NoAnswer, Owns, Open, Ended
<1>9. CASE WatchPrepare(c)
  BY <1>9, <1>t DEF WatchPrepare, StorePrepareRequest, lists, daemon, history, ObjectTypes,
    CallTypes, CallOK, EndOK, Requests, HandleOK, Answered, NoAnswer, Owns, Open, Ended
<1>10. CASE WatchAdded(c)
  BY <1>10, <1>t DEF WatchAdded, Answered, Return, Hold, WatchDestroy, lists, daemon, history,
    ObjectTypes, CallTypes, CallOK, EndOK, Requests, HandleOK, NoAnswer, Owns, Open, Ended
<1>11. CASE StoreWatchRemove(c)
  BY <1>11, <1>t DEF StoreWatchRemove, Enter, StorePrepareRequest, WatchDestroy, Forget, lists,
    daemon, history, ObjectTypes, CallTypes, CallOK, EndOK, Requests, HandleOK, Answered, NoAnswer,
    Owns, Open, Ended
<1>12. CASE WatchRemoved(c)
  BY <1>12, <1>t DEF WatchRemoved, Answered, Return, WatchDestroy, Forget, lists, daemon, history,
    ObjectTypes, CallTypes, CallOK, EndOK, Requests, HandleOK, NoAnswer, Owns, Open, Ended
<1>13. CASE ClientWait(c)
  BY <1>13, <1>t DEF ClientWait, lists, daemon, history, ObjectTypes, CallTypes, CallOK, EndOK,
    Requests, HandleOK, Answered, NoAnswer, Owns, Open, Ended
<1>14. CASE StoreRead(c)
  BY <1>14, <1>t DEF StoreRead, StoreAccess, Enter, StorePrepareRequest, lists, daemon, history,
    ObjectTypes, CallTypes, CallOK, EndOK, Requests, HandleOK, Answered, NoAnswer, Owns, Open, Ended
<1>15. CASE ReadDone(c)
  BY <1>15, <1>t DEF ReadDone, Answered, Return, Hold, lists, daemon, history, ObjectTypes,
    CallTypes, CallOK, EndOK, Requests, HandleOK, NoAnswer, Owns, Open, Ended
<1>16. CASE StoreFree(c)
  BY <1>16, <1>t DEF StoreFree, Forget, lists, daemon, history, ObjectTypes, CallTypes, CallOK,
    EndOK, Requests, HandleOK, Answered, NoAnswer, Owns, Open, Ended
<1>17. CASE StoreWrite(c)
  BY <1>17, <1>t DEF StoreWrite, StoreAccess, Enter, StorePrepareRequest, lists, daemon, history,
    ObjectTypes, CallTypes, CallOK, EndOK, Requests, HandleOK, Answered, NoAnswer, Owns, Open, Ended
<1>18. CASE WriteDone(c)
  BY <1>18, <1>t DEF WriteDone, Answered, Return, lists, daemon, history, ObjectTypes, CallTypes,
    CallOK, EndOK, Requests, HandleOK, NoAnswer, Owns, Open, Ended
<1> QED
  BY <1>1, <1>2, <1>3, <1>4, <1>5, <1>6, <1>7, <1>8, <1>9, <1>10, <1>11, <1>12, <1>13, <1>14,
    <1>15, <1>16, <1>17, <1>18 DEF Client

-----------------------------------------------------------------------------
(* What a step of a client does to the transactions of the daemon.         *)

Ids == TxIds \union {0}

Kept(c) == xsTransactions' = xsTransactions /\ \A id \in Ids : Owns(c, id)' <=> Owns(c, id)

Gained(c) == \E n \in TxIds \ xsTransactions :
  /\ xsTransactions' = xsTransactions \union {n}
  /\ \A id \in Ids : ~Owns(c, id) /\ (Owns(c, id)' <=> id = n)

Lost(c) == \E n \in Ids :
  /\ xsTransactions' = xsTransactions \ {n}
  /\ \A id \in Ids : (Owns(c, id) <=> id = n) /\ ~Owns(c, id)'

LEMMA OwnStep ==
  ASSUME StoreTypes, NEW c \in Clients, CallOK(c), HandleOK(c), EndOK(c), Client(c),
         \A id \in TxIds \union {0} : Owns(c, id) => id \in xsTransactions
  PROVE  Kept(c) \/ Gained(c) \/ Lost(c)
<1>t. ObjectTypes /\ CallTypes /\ c \in Clients  BY DEF StoreTypes
<1>1. CASE StoreSubmitRequest(c)
  <2>0. Submitting(c) /\ Submitted(c)  BY <1>1, SubmitCases
  <2>1. CASE SubmitNull(c)
    BY <2>1, <2>0, <1>t DEF SubmitNull, Submitting, Answer, lists, daemon, history, ObjectTypes,
      CallTypes, HandleOK, EndOK, Kept, Owns, Open, Started, Ended, Answered, NoAnswer
  <2>2. CASE SubmitStart(c)
    <3>1. \A id \in Ids : ~Owns(c, id)
      BY <2>2, <2>0, <1>t DEF SubmitStart, Submitting, HandleOK, Owns, Open, Started, Answered
    <3>2. /\ pc'[c] = "reply" /\ call'[c] = "TransactionStart" /\ c \notin TransactionList'
      BY <2>2, <2>0, <1>t DEF SubmitStart, Submitting, lists, HandleOK, CallTypes
    <3>3. CASE \E n \in TxIds \ xsTransactions :
                 xsTransactions' = xsTransactions \union {n} /\ Answer(c, "ok", n)
      <4>1. PICK n \in TxIds \ xsTransactions :
              xsTransactions' = xsTransactions \union {n} /\ Answer(c, "ok", n)
        BY <3>3
      <4>2. response'[c] = [status |-> "ok", id |-> n]  BY <4>1, <1>t DEF Answer, CallTypes
      <4>3. \A id \in Ids : Owns(c, id)' <=> id = n
        <5>1. \A id \in Ids : ~Open(c, id)'  BY <3>2 DEF Open
        <5>2. \A id \in Ids : Started(c, id)' <=> response'[c] = [status |-> "ok", id |-> id]
          BY <3>2 DEF Started, Answered
        <5>3. \A id : [status |-> "ok", id |-> n] = [status |-> "ok", id |-> id] <=> id = n
          <6> TAKE id
          <6>1. [status |-> "ok", id |-> n].id = n /\ [status |-> "ok", id |-> id].id = id  OBVIOUS
          <6> QED  BY <6>1
        <5> QED  BY <4>2, <5>1, <5>2, <5>3 DEF Owns
      <4> QED  BY <3>1, <4>1, <4>3 DEF Gained
    <3>4. CASE xsTransactions' = xsTransactions /\ Answer(c, "error", 0)
      <4>1. response'[c] = [status |-> "error", id |-> 0]  BY <3>4, <1>t DEF Answer, CallTypes
      <4>2. \A id \in Ids : ~Owns(c, id)'
        <5>1. \A id \in Ids : ~Open(c, id)'  BY <3>2 DEF Open
        <5>2. response'[c].status = "error"  BY <4>1
        <5>3. \A id \in Ids : ~Started(c, id)'  BY <5>2 DEF Started
        <5> QED  BY <5>1, <5>3 DEF Owns
      <4> QED  BY <3>1, <3>4, <4>2 DEF Kept
    <3> QED  BY <2>2, <3>3, <3>4 DEF SubmitStart, XsTransactionStart
  <2>3. CASE SubmitEnd(c)
    <3> DEFINE n == transaction[c].Id
    <3>1. request[c].tx_id = n /\ transaction[c] = [Id |-> n, Active |-> TRUE] /\ n \in Ids
      BY <2>3, <2>0, <1>t DEF SubmitEnd, Submitting, EndOK, ObjectTypes, Ids
    <3>2. \A id \in Ids : Owns(c, id) <=> id = n
      <4>1. c \in TransactionList /\ pc[c] # "reply"
        BY <2>3, <2>0 DEF SubmitEnd, Submitting, HandleOK
      <4>2. ~Ended(c) /\ \A id \in Ids : ~Started(c, id)  BY <4>1 DEF Ended, Started, Answered
      <4>3. \A id \in Ids : Open(c, id) <=> transaction[c] = [Id |-> id, Active |-> TRUE]
        BY <4>1, <4>2 DEF Open
      <4> HIDE DEF n
      <4>4. \A id : [Id |-> n, Active |-> TRUE] = [Id |-> id, Active |-> TRUE] <=> id = n
        <5> TAKE id
        <5>1. [Id |-> n, Active |-> TRUE].Id = n /\ [Id |-> id, Active |-> TRUE].Id = id  OBVIOUS
        <5> QED  BY <5>1
      <4>5. ASSUME NEW id \in Ids  PROVE Owns(c, id) <=> id = n
        <5>1. Owns(c, id) <=> transaction[c] = [Id |-> id, Active |-> TRUE]  BY <4>2, <4>3 DEF Owns
        <5> QED  BY <3>1, <4>4, <5>1
      <4> QED  BY <4>5
    <3>3. n \in xsTransactions  BY <3>1, <3>2 DEF Ids
    <3>4. /\ xsTransactions' = xsTransactions \ {n}
          /\ \E status \in {"ok", "again"} : Answer(c, status, 0)
      BY <2>3, <3>1, <3>3 DEF SubmitEnd, XsTransactionEnd
    <3>5. response'[c].status \in {"ok", "again"}  BY <3>4, <1>t DEF Answer, CallTypes
    <3>6. pc'[c] = "reply" /\ call'[c] = "TransactionEnd"
      BY <2>3, <2>0, <1>t DEF SubmitEnd, Submitting, CallTypes
    <3>7. \A id \in Ids : ~Owns(c, id)'
      BY <3>5, <3>6 DEF Owns, Open, Started, Ended, Answered
    <3> QED  BY <3>1, <3>2, <3>4, <3>7 DEF Lost
  <2>4. CASE SubmitWatch(c)
    BY <2>4, <2>0, <1>t DEF SubmitWatch, Submitting, Sent, XsWatch, Answer, Token, lists, daemon,
      history, ObjectTypes, CallTypes, HandleOK, EndOK, Kept, Owns, Open, Started, Ended, Answered,
      NoAnswer
  <2>5. CASE SubmitUnwatch(c)
    BY <2>5, <2>0, <1>t DEF SubmitUnwatch, Submitting, Sent, XsUnwatch, Answer, Token, lists,
      daemon, history, ObjectTypes, CallTypes, HandleOK, EndOK, Kept, Owns, Open, Started, Ended,
      Answered, NoAnswer
  <2>6. CASE SubmitRead(c)
    BY <2>6, <2>0, <1>t DEF SubmitRead, Submitting, Sent, XsAccess, Answer, lists, daemon,
      history, ObjectTypes, CallTypes, HandleOK, EndOK, Kept, Owns, Open, Started, Ended, Answered,
      NoAnswer
  <2> QED  BY <2>0, <2>1, <2>2, <2>3, <2>4, <2>5, <2>6 DEF Submitted
<1>2. CASE StoreAcquire(c)
  BY <1>2, <1>t DEF StoreAcquire, lists, daemon, history, ObjectTypes, CallTypes, HandleOK, EndOK,
    Kept, Owns, Open, Started, Ended, Answered, NoAnswer
<1>3. CASE StoreRelease(c)
  BY <1>3, <1>t DEF StoreRelease, lists, daemon, history, ObjectTypes, CallTypes, HandleOK, EndOK,
    Kept, Owns, Open, Started, Ended, Answered, NoAnswer
<1>4. CASE StoreTransactionStart(c)
  BY <1>4, <1>t DEF StoreTransactionStart, Enter, StorePrepareRequest, lists, daemon, history,
    ObjectTypes, CallTypes, HandleOK, EndOK, Kept, Owns, Open, Started, Ended, Answered, NoAnswer
<1>5. CASE TransactionStarted(c)
  <2>1. /\ xsTransactions' = xsTransactions /\ pc'[c] = "idle" /\ c \notin TransactionList
        /\ call[c] = "TransactionStart" /\ pc[c] = "reply"
    BY <1>5, <1>t DEF TransactionStarted, Answered, Return, HandleOK, daemon, CallTypes
  <2>2. \A id \in Ids : Owns(c, id) <=> response[c] = [status |-> "ok", id |-> id]
    BY <2>1 DEF Owns, Open, Started, Answered
  <2>3. \A id \in Ids : Owns(c, id)' <=> c \in TransactionList' /\ transaction'[c] = [Id |-> id, Active |-> TRUE]
    BY <2>1 DEF Owns, Open, Started, Ended, Answered
  <2>4. CASE response[c].status = "ok"
    <3>1. c \in TransactionList' /\ transaction'[c] = [Id |-> response[c].id, Active |-> TRUE]
      BY <1>5, <2>4, <1>t DEF TransactionStarted, ObjectTypes
    <3>2. \A id : response[c] = [status |-> "ok", id |-> id] <=> id = response[c].id
      BY <2>4, <1>t DEF CallTypes, Responses
    <3>3. \A id : transaction'[c] = [Id |-> id, Active |-> TRUE] <=> id = response[c].id
      <4> DEFINE n == response[c].id
      <4>1. transaction'[c] = [Id |-> n, Active |-> TRUE]  BY <3>1
      <4> HIDE DEF n
      <4>2. transaction'[c].Id = n  BY <4>1
      <4>3. ASSUME NEW id  PROVE transaction'[c] = [Id |-> id, Active |-> TRUE] <=> id = n
        <5>1. [Id |-> id, Active |-> TRUE].Id = id  OBVIOUS
        <5> QED  BY <4>1, <4>2, <5>1
      <4> QED  BY <4>3 DEF n
    <3> QED  BY <2>1, <2>2, <2>3, <3>1, <3>2, <3>3 DEF Kept
  <2>5. CASE response[c].status # "ok"
    <3>1. c \notin TransactionList'  BY <1>5, <2>1, <2>5 DEF TransactionStarted
    <3>2. \A id : response[c] # [status |-> "ok", id |-> id]  BY <2>5
    <3> QED  BY <2>1, <2>2, <2>3, <3>1, <3>2 DEF Kept
  <2> QED  BY <2>4, <2>5
<1>6. CASE StoreTransactionEnd(c)
  <2>1. xsTransactions' = xsTransactions /\ pc[c] = "idle" /\ pc'[c] # "reply"
    BY <1>6, <1>t DEF StoreTransactionEnd, Enter, StorePrepareRequest, daemon, CallTypes
  <2>2. \A id \in Ids :
          /\ Owns(c, id) <=> c \in TransactionList /\ transaction[c] = [Id |-> id, Active |-> TRUE]
          /\ Owns(c, id)' <=> c \in TransactionList' /\ transaction'[c] = [Id |-> id, Active |-> TRUE]
    BY <2>1 DEF Owns, Open, Started, Ended, Answered
  <2>3. CASE transaction[c].Active
    <3>1. UNCHANGED <<TransactionList, transaction>>  BY <1>6, <2>3 DEF StoreTransactionEnd, lists
    <3>2. ASSUME NEW id \in Ids  PROVE Owns(c, id)' <=> Owns(c, id)  BY <2>2, <3>1
    <3> QED  BY <2>1, <3>2 DEF Kept
  <2>4. CASE ~transaction[c].Active
    <3>1. c \notin TransactionList'  BY <1>6, <2>4 DEF StoreTransactionEnd, TransactionDestroy
    <3>2. ASSUME NEW id \in Ids  PROVE Owns(c, id)' <=> Owns(c, id)
      <4>1. transaction[c] # [Id |-> id, Active |-> TRUE]  BY <2>4
      <4> QED  BY <2>2, <3>1, <4>1
    <3> QED  BY <2>1, <3>2 DEF Kept
  <2> QED  BY <2>3, <2>4
<1>7. CASE TransactionEnded(c)
  BY <1>7, <1>t DEF TransactionEnded, Answered, Return, TransactionDestroy, Forget, lists, daemon,
    history, ObjectTypes, CallTypes, HandleOK, EndOK, Kept, Owns, Open, Started, Ended,
    NoAnswer
<1>8. CASE StoreWatchAdd(c)
  BY <1>8, <1>t DEF StoreWatchAdd, Enter, lists, daemon, history, ObjectTypes, CallTypes,
    HandleOK, EndOK, Kept, Owns, Open, Started, Ended, Answered, NoAnswer
<1>9. CASE WatchPrepare(c)
  BY <1>9, <1>t DEF WatchPrepare, StorePrepareRequest, lists, daemon, history, ObjectTypes,
    CallTypes, HandleOK, EndOK, Kept, Owns, Open, Started, Ended, Answered, NoAnswer
<1>10. CASE WatchAdded(c)
  BY <1>10, <1>t DEF WatchAdded, Answered, Return, Hold, WatchDestroy, lists, daemon, history,
    ObjectTypes, CallTypes, HandleOK, EndOK, Kept, Owns, Open, Started, Ended, NoAnswer
<1>11. CASE StoreWatchRemove(c)
  BY <1>11, <1>t DEF StoreWatchRemove, Enter, StorePrepareRequest, WatchDestroy, Forget, lists,
    daemon, history, ObjectTypes, CallTypes, HandleOK, EndOK, Kept, Owns, Open, Started, Ended,
    Answered, NoAnswer
<1>12. CASE WatchRemoved(c)
  BY <1>12, <1>t DEF WatchRemoved, Answered, Return, WatchDestroy, Forget, lists, daemon, history,
    ObjectTypes, CallTypes, HandleOK, EndOK, Kept, Owns, Open, Started, Ended, NoAnswer
<1>13. CASE ClientWait(c)
  BY <1>13, <1>t DEF ClientWait, lists, daemon, history, ObjectTypes, CallTypes, HandleOK, EndOK,
    Kept, Owns, Open, Started, Ended, Answered, NoAnswer
<1>14. CASE StoreRead(c)
  BY <1>14, <1>t DEF StoreRead, StoreAccess, Enter, StorePrepareRequest, lists, daemon, history,
    ObjectTypes, CallTypes, HandleOK, EndOK, Kept, Owns, Open, Started, Ended, Answered, NoAnswer
<1>15. CASE ReadDone(c)
  BY <1>15, <1>t DEF ReadDone, Answered, Return, Hold, lists, daemon, history, ObjectTypes,
    CallTypes, HandleOK, EndOK, Kept, Owns, Open, Started, Ended, NoAnswer
<1>16. CASE StoreFree(c)
  BY <1>16, <1>t DEF StoreFree, Forget, lists, daemon, history, ObjectTypes, CallTypes, HandleOK,
    EndOK, Kept, Owns, Open, Started, Ended, Answered, NoAnswer
<1>17. CASE StoreWrite(c)
  BY <1>17, <1>t DEF StoreWrite, StoreAccess, Enter, StorePrepareRequest, lists, daemon, history,
    ObjectTypes, CallTypes, HandleOK, EndOK, Kept, Owns, Open, Started, Ended, Answered, NoAnswer
<1>18. CASE WriteDone(c)
  BY <1>18, <1>t DEF WriteDone, Answered, Return, lists, daemon, history, ObjectTypes, CallTypes,
    HandleOK, EndOK, Kept, Owns, Open, Started, Ended, NoAnswer
<1> QED
  BY <1>1, <1>2, <1>3, <1>4, <1>5, <1>6, <1>7, <1>8, <1>9, <1>10, <1>11, <1>12, <1>13, <1>14,
    <1>15, <1>16, <1>17, <1>18 DEF Client

LEMMA OwnersStep ==
  ASSUME NEW c \in Clients, OwnerInv, xsTransactions \subseteq TxIds,
         Kept(c) \/ Gained(c) \/ Lost(c), \A d \in Clients \ {c} : Same(d)
  PROVE  OwnerInv'
<1>1. \A d \in Clients \ {c}, id \in Ids : Owns(d, id)' <=> Owns(d, id)  BY SameOwned
<1>2. /\ \A d \in Clients, id \in Ids : Owns(d, id) => id \in xsTransactions
      /\ \A id \in xsTransactions :
           \E d \in Clients : Owns(d, id) /\ \A e \in Clients : Owns(e, id) => e = d
  BY DEF OwnerInv, Ids
<1>3. TxIds \subseteq Ids  BY DEF Ids
<1>4. /\ \A d \in Clients, id \in Ids : Owns(d, id)' => id \in xsTransactions'
      /\ \A id \in xsTransactions' :
           \E d \in Clients : Owns(d, id)' /\ \A e \in Clients : Owns(e, id)' => e = d
  <2>1. CASE Kept(c)
    <3>1. \A d \in Clients, id \in Ids : Owns(d, id)' <=> Owns(d, id)  BY <1>1, <2>1 DEF Kept
    <3> QED  BY <1>2, <1>3, <2>1, <3>1 DEF Kept
  <2>2. CASE Gained(c)
    <3>1. PICK n \in TxIds \ xsTransactions :
            /\ xsTransactions' = xsTransactions \union {n}
            /\ \A id \in Ids : ~Owns(c, id) /\ (Owns(c, id)' <=> id = n)
      BY <2>2 DEF Gained
    <3>2. \A d \in Clients \ {c} : ~Owns(d, n)'  BY <1>1, <1>2, <1>3, <3>1
    <3>3. ASSUME NEW id \in xsTransactions
          PROVE  \E d \in Clients : Owns(d, id)' /\ \A e \in Clients : Owns(e, id)' => e = d
      <4>1. PICK d \in Clients : Owns(d, id) /\ \A e \in Clients : Owns(e, id) => e = d  BY <1>2
      <4>2. d # c /\ id \in Ids /\ id # n /\ ~Owns(c, id)'  BY <1>3, <3>1, <4>1
      <4> QED  BY <1>1, <4>1, <4>2
    <3> QED  BY <1>1, <1>2, <1>3, <3>1, <3>2, <3>3
  <2>3. CASE Lost(c)
    <3>1. PICK n \in Ids :
            /\ xsTransactions' = xsTransactions \ {n}
            /\ \A id \in Ids : (Owns(c, id) <=> id = n) /\ ~Owns(c, id)'
      BY <2>3 DEF Lost
    <3>2. \A d \in Clients \ {c} : ~Owns(d, n)
      <4>1. n \in xsTransactions  BY <1>2, <3>1
      <4>2. PICK d \in Clients : Owns(d, n) /\ \A e \in Clients : Owns(e, n) => e = d  BY <1>2, <4>1
      <4> QED  BY <3>1, <4>2
    <3>3. ASSUME NEW id \in xsTransactions \ {n}
          PROVE  \E d \in Clients : Owns(d, id)' /\ \A e \in Clients : Owns(e, id)' => e = d
      <4>1. PICK d \in Clients : Owns(d, id) /\ \A e \in Clients : Owns(e, id) => e = d  BY <1>2
      <4>2. d # c /\ id \in Ids /\ ~Owns(c, id)'  BY <1>3, <3>1, <4>1
      <4> QED  BY <1>1, <4>1, <4>2
    <3> QED  BY <1>1, <1>2, <1>3, <3>1, <3>2, <3>3
  <2> QED  BY <2>1, <2>2, <2>3
<1> QED  BY <1>4 DEF OwnerInv, Ids

-----------------------------------------------------------------------------
(* The invariant is inductive.                                             *)

LEMMA StoreInit == ASSUME StoreAssumption, Init  PROVE StoreIInv
<1>1. 0 \in WatchIds
  <2>1. Cardinality(Clients) \in Nat  BY FS_CardinalityType DEF StoreAssumption
  <2> QED  BY <2>1 DEF StoreAssumption, WatchIds
<1>2. StoreTypes
  <2>1. ObjectTypes  BY <1>1 DEF Init, ObjectTypes
  <2>2. CallTypes  BY DEF Init, CallTypes, Calls, Requests, Responses, Zero, NoAnswer
  <2>3. DaemonTypes
    <3>1. <<>> \in Seq(WatchIds \X Clients) /\ Len(<<>>) = 0  OBVIOUS
    <3>2. MaxRing \in Nat /\ MaxSuspends \in Nat  BY DEF StoreAssumption
    <3>3. ring \in Seq(WatchIds \X Clients) /\ Len(ring) <= MaxRing  BY <3>1, <3>2 DEF Init
    <3>4. suspends \in 0 .. MaxSuspends  BY <3>2 DEF Init
    <3> QED  BY <3>3, <3>4 DEF Init, DaemonTypes
  <2> QED  BY <2>1, <2>2, <2>3 DEF StoreTypes
<1>3. Unique  BY DEF Init, Unique
<1>4. ASSUME NEW c \in Clients  PROVE CallOK(c) /\ HandleOK(c) /\ HeldOK(c)
  BY DEF Init, CallOK, HandleOK, HeldOK, NoAnswer
<1>5. EmptyInv /\ LeakInv  BY <1>4 DEF Init, EmptyInv, Listed, LeakInv
<1>6. ASSUME NEW c \in Clients  PROVE WatchOK(c) /\ EndOK(c)
  BY DEF Init, WatchOK, EndOK, Watched, Unwatched, Answered
<1>7. OwnerInv  BY DEF Init, OwnerInv, Owns, Open, Started, Answered
<1> QED  BY <1>2, <1>3, <1>4, <1>5, <1>6, <1>7 DEF StoreIInv

LEMMA ReleaseFindsNothing ==
  ASSUME StoreTypes, NEW c \in Clients, StoreRelease(c), ~bugcheck,
         \A d \in Clients : CallOK(d) /\ HeldOK(d)
  PROVE  ~bugcheck'
<1>1. CASE references' # {}  BY <1>1 DEF StoreRelease
<1>2. CASE references' = {}
  <2>1. \A d \in Clients : held[d] = {} /\ call[d] = "none"
    <3>1. ASSUME NEW d \in Clients \ {c}  PROVE held[d] = {} /\ call[d] = "none"
      <4>1. d \notin references  BY <1>2 DEF StoreRelease
      <4> QED  BY <4>1 DEF CallOK
    <3>2. held[c] = {} /\ call[c] = "none"  BY DEF StoreRelease, CallOK
    <3> QED  BY <3>1, <3>2
  <2>2. \A d \in Clients : d \notin WatchList \union TransactionList \union BufferList
    BY <2>1 DEF HeldOK
  <2>3. WatchList \union TransactionList \union BufferList = {}
    BY <2>2 DEF StoreTypes, ObjectTypes
  <2>4. bugcheck' = (WatchList \union TransactionList \union BufferList # {})
    BY <1>2 DEF StoreRelease
  <2> QED  BY <2>3, <2>4
<1> QED  BY <1>1, <1>2

LEMMA ClientKeeps ==
  ASSUME StoreAssumption, StoreIInv, ~bugcheck, NEW c \in Clients, Client(c), mix' = mix
  PROVE  StoreIInv'
<1>1. StoreTypes /\ \A d \in Clients : CallOK(d) /\ HandleOK(d)  BY DEF StoreIInv
<1>2. \A d \in Clients \ {c} : Same(d)  BY <1>1, OthersSame
<1>3. StoreTypes'
  BY <1>1, ClientObjectTypes, ClientCallTypes, ClientDaemonTypes DEF StoreTypes
<1>4. Unique'
  <2>1. FreshId(c)  BY <1>1, FreshStep
  <2>2. Unique  BY DEF StoreIInv
  <2>3. SUFFICES ASSUME NEW d \in WatchList', NEW e \in WatchList', watch'[d].Id = watch'[e].Id
                 PROVE  d = e
    BY DEF Unique
  <2>4. d \in Clients /\ e \in Clients  BY <1>3 DEF StoreTypes, ObjectTypes
  <2>5. \A x \in Clients \ {c} : x \in WatchList' => x \in WatchList /\ watch'[x] = watch[x]
    BY <1>2 DEF Same
  <2> QED  BY <2>1, <2>2, <2>3, <2>4, <2>5 DEF FreshId, Unique
<1>5. ASSUME NEW d \in Clients  PROVE CallOK(d)' /\ HandleOK(d)'
  <2>1. CASE d = c  BY <1>1, <2>1, CallStep, HandleStep
  <2>2. CASE d # c  BY <1>1, <1>2, <2>2, SameKeeps
  <2> QED  BY <2>1, <2>2
<1>6. EmptyInv'
  <2>1. CASE StoreRelease(c)
    <3>1. UNCHANGED lists  BY <2>1 DEF StoreRelease
    <3>2. references' = {} => bugcheck' = (WatchList \union TransactionList \union BufferList # {})
      BY <2>1 DEF StoreRelease
    <3> QED  BY <3>1, <3>2 DEF lists, EmptyInv, Listed
  <2>2. CASE ~StoreRelease(c)
    <3>1. c \in references'  BY <1>1, <2>2, ReferencedStep
    <3> QED  BY <3>1 DEF EmptyInv
  <2> QED  BY <2>1, <2>2
<1>7. Passive = {} => OwnerInv /\ \A d \in Clients : WatchOK(d) /\ EndOK(d)  BY DEF StoreIInv
<1>8. LeakInv'
  <2>1. SUFFICES ASSUME Passive = {}, ~NoMemory
                 PROVE  ~bugcheck' /\ \A d \in Clients : HeldOK(d)'
    BY DEF LeakInv, Passive, NoMemory
  <2>2. \A d \in Clients : HeldOK(d)  BY <2>1 DEF StoreIInv, LeakInv
  <2>3. Freed(c)  BY <1>1, <1>7, <2>1 DEF Freed, EndOK, WatchOK, CallOK
  <2>4. ASSUME NEW d \in Clients  PROVE HeldOK(d)'
    <3>1. CASE d = c  BY <1>1, <2>2, <2>3, <3>1, HeldStep
    <3>2. CASE d # c  BY <1>2, <2>2, <3>2, SameKeeps
    <3> QED  BY <3>1, <3>2
  <2>5. ~bugcheck'
    <3>1. CASE StoreRelease(c)  BY <1>1, <2>2, <3>1, ReleaseFindsNothing
    <3>2. CASE ~StoreRelease(c)  BY <1>1, <3>2, ReferencedStep
    <3> QED  BY <3>1, <3>2
  <2> QED  BY <2>4, <2>5
<1>9. ASSUME Passive = {}
      PROVE  OwnerInv' /\ \A d \in Clients : WatchOK(d)' /\ EndOK(d)'
  <2>1. OwnerInv /\ \A d \in Clients : WatchOK(d) /\ EndOK(d)  BY <1>7, <1>9
  <2>2. \A id \in TxIds \union {0} : Owns(c, id) => id \in xsTransactions  BY <2>1 DEF OwnerInv
  <2>3. OwnerInv'
    <3>1. Kept(c) \/ Gained(c) \/ Lost(c)  BY <1>1, <2>1, <2>2, OwnStep
    <3>2. xsTransactions \subseteq TxIds  BY <1>1 DEF StoreTypes, DaemonTypes
    <3> QED  BY <1>2, <2>1, <3>1, <3>2, OwnersStep
  <2>4. ASSUME NEW d \in Clients  PROVE WatchOK(d)' /\ EndOK(d)'
    <3>1. CASE d = c  BY <1>1, <2>1, <2>2, <3>1, WatchStep, EndStep
    <3>2. CASE d # c
      <4>1. EndOK(d)'  BY <1>2, <2>1, <3>2 DEF Same, EndOK, Answered
      <4> QED  BY <1>1, <1>2, <2>1, <3>2, <4>1, SameWatched
    <3> QED  BY <3>1, <3>2
  <2> QED  BY <2>3, <2>4
<1> QED  BY <1>3, <1>4, <1>5, <1>6, <1>8, <1>9 DEF StoreIInv, Passive

\* StorePoll and XsFire leave the clients, their objects and xenstored alone.
LEMMA QuietKeeps ==
  ASSUME StoreAssumption, StoreIInv, StorePoll \/ XsFire, mix' = mix
  PROVE  StoreIInv'
<1>1. StoreTypes  BY DEF StoreIInv
<1>2. UNCHANGED <<references, lists, held, call, pc, request, response, daemon, history, bugcheck>>
  BY DEF StorePoll, XsFire
<1>3. signalled \subseteq signalled' /\ signalled' \subseteq Clients
  BY <1>1, DrainTells DEF StorePoll, XsFire, StoreTypes, DaemonTypes
<1>4. ring' \in Seq(WatchIds \X Clients) /\ Len(ring') <= MaxRing
  <2>1. /\ ring \in Seq(WatchIds \X Clients) /\ Len(ring) <= MaxRing
        /\ xsWatches \subseteq WatchIds \X Clients /\ MaxRing \in Nat
    BY <1>1 DEF StoreTypes, DaemonTypes, StoreAssumption
  <2>2. CASE StorePoll
    <3>1. <<>> \in Seq(WatchIds \X Clients) /\ Len(<<>>) = 0  OBVIOUS
    <3> QED  BY <2>1, <2>2, <3>1 DEF StorePoll
  <2>3. CASE XsFire
    <3>1. PICK token \in xsWatches : ring' = Append(ring, token)  BY <2>3 DEF XsFire
    <3>2. Len(ring) < MaxRing  BY <2>3 DEF XsFire
    <3> QED  BY <2>1, <3>1, <3>2
  <2> QED  BY <2>2, <2>3
<1>5. ASSUME NEW d \in Clients  PROVE Same(d)
  BY <1>2, <1>3 DEF Same, Told, lists, daemon, history
<1>6. StoreTypes'
  BY <1>1, <1>2, <1>3, <1>4 DEF StoreTypes, ObjectTypes, CallTypes, DaemonTypes, lists, daemon, history, Kinds
<1>7. Unique'  BY <1>2 DEF StoreIInv, Unique, lists
<1>8. \A d \in Clients : CallOK(d)' /\ HandleOK(d)'  BY <1>5, SameKeeps DEF StoreIInv
<1>9. EmptyInv'  BY <1>2 DEF StoreIInv, EmptyInv, Listed, lists
<1>10. LeakInv'
  <2>1. (Passive = {} /\ ~NoMemory)' => Passive = {} /\ ~NoMemory  BY DEF Passive, NoMemory
  <2>2. ASSUME Passive = {}, ~NoMemory  PROVE ~bugcheck' /\ \A d \in Clients : HeldOK(d)'
    BY <1>2, <1>5, <2>2, SameKeeps DEF StoreIInv, LeakInv
  <2> QED  BY <2>1, <2>2 DEF LeakInv
<1>11. ASSUME Passive = {}
       PROVE  OwnerInv' /\ \A d \in Clients : WatchOK(d)' /\ EndOK(d)'
  <2>1. OwnerInv /\ \A d \in Clients : WatchOK(d) /\ EndOK(d)  BY <1>11 DEF StoreIInv
  <2>2. \A d \in Clients : WatchOK(d)'  BY <1>1, <1>5, <2>1, SameWatched
  <2>3. \A d \in Clients : EndOK(d)'  BY <1>5, <2>1 DEF Same, EndOK, Answered
  <2>4. \A d \in Clients, id \in TxIds \union {0} : Owns(d, id)' <=> Owns(d, id)  BY <1>5, SameOwned
  <2>5. xsTransactions' = xsTransactions /\ xsTransactions \subseteq TxIds
    BY <1>1, <1>2 DEF daemon, StoreTypes, DaemonTypes
  <2> QED  BY <2>1, <2>2, <2>3, <2>4, <2>5 DEF OwnerInv
<1> QED  BY <1>6, <1>7, <1>8, <1>9, <1>10, <1>11 DEF StoreIInv, Passive

LEMMA Deactivated ==
  ASSUME ObjectTypes, StoreSuspendCallbackEarly
  PROVE  /\ transaction' \in [Clients -> [Id : TxIds \union {0}, Active : BOOLEAN]]
         /\ watch' \in [Clients -> [Id : WatchIds, Active : BOOLEAN]]
         /\ \A c \in Clients : /\ watch'[c].Id = watch[c].Id
                               /\ c \in WatchList => ~watch'[c].Active
                               /\ c \notin WatchList => watch'[c] = watch[c]
                               /\ c \in TransactionList => ~transaction'[c].Active
                               /\ c \notin TransactionList => transaction'[c] = transaction[c]
<1>1. transaction' = [c \in Clients |-> IF c \in TransactionList
                                        THEN [transaction[c] EXCEPT !.Active = FALSE] ELSE transaction[c]]
  BY DEF StoreSuspendCallbackEarly, Deactivate
<1>2. watch' = [c \in Clients |-> IF c \in WatchList
                                  THEN [watch[c] EXCEPT !.Active = FALSE] ELSE watch[c]]
  BY DEF StoreSuspendCallbackEarly, Deactivate
<1>3. \A c \in Clients : /\ transaction[c] \in [Id : TxIds \union {0}, Active : BOOLEAN]
                         /\ watch[c] \in [Id : WatchIds, Active : BOOLEAN]
  BY DEF ObjectTypes
<1> QED  BY <1>1, <1>2, <1>3

LEMMA SuspendKeeps ==
  ASSUME StoreAssumption, StoreIInv, ~bugcheck, Suspend, mix' = mix
  PROVE  StoreIInv'
<1>1. StoreTypes /\ ObjectTypes /\ CallTypes /\ DaemonTypes  BY DEF StoreIInv, StoreTypes
<1>2. /\ UNCHANGED <<references, TransactionList, WatchList, WatchId, BufferList, held, call, pc, request,
                     response, bugcheck>>
      /\ xsTransactions' = {} /\ xsWatches' = {} /\ woken' = {}
      /\ suspends < MaxSuspends /\ suspends' = suspends + 1
  BY DEF Suspend
<1>3. /\ transaction' \in [Clients -> [Id : TxIds \union {0}, Active : BOOLEAN]]
      /\ watch' \in [Clients -> [Id : WatchIds, Active : BOOLEAN]]
      /\ \A c \in Clients : /\ watch'[c].Id = watch[c].Id
                            /\ c \in WatchList => ~watch'[c].Active
                            /\ c \in TransactionList => ~transaction'[c].Active
      /\ signalled' \subseteq Clients /\ WatchList \subseteq signalled'
  <2>1. CASE references # {}
    <3>1. StoreSuspendCallbackEarly /\ StoreSuspendCallbackLate  BY <2>1 DEF Suspend
    <3> QED  BY <1>1, <3>1, Deactivated DEF StoreSuspendCallbackLate, ObjectTypes, DaemonTypes
  <2>2. CASE references = {}
    <3>1. WatchList = {} /\ TransactionList = {}  BY <2>2 DEF StoreIInv, EmptyInv, Listed
    <3>2. UNCHANGED <<transaction, watch, signalled>>  BY <2>2 DEF Suspend
    <3> QED  BY <1>1, <3>1, <3>2 DEF ObjectTypes, DaemonTypes
  <2> QED  BY <2>1, <2>2
<1>4. ring' \in Seq(WatchIds \X Clients) /\ Len(ring') <= MaxRing
  <2>1. PICK n \in 0 .. Len(ring) : ring' = SubSeq(ring, 1, n)  BY DEF Suspend
  <2>2. ring \in Seq(WatchIds \X Clients) /\ Len(ring) <= MaxRing /\ MaxRing \in Nat
    BY <1>1 DEF DaemonTypes, StoreAssumption
  <2>3. SubSeq(ring, 1, n) \in Seq(WatchIds \X Clients) /\ Len(SubSeq(ring, 1, n)) = n  BY <2>2
  <2> QED  BY <2>1, <2>2, <2>3
<1>5. StoreTypes'
  <2>1. ObjectTypes'  BY <1>1, <1>2, <1>3 DEF ObjectTypes, Kinds
  <2>2. CallTypes'  BY <1>1, <1>2 DEF CallTypes
  <2>3. DaemonTypes'  BY <1>1, <1>2, <1>3, <1>4 DEF DaemonTypes, StoreAssumption
  <2> QED  BY <2>1, <2>2, <2>3 DEF StoreTypes
<1>6. Unique'  BY <1>1, <1>2, <1>3 DEF StoreIInv, Unique, ObjectTypes
<1>7. ASSUME NEW c \in Clients  PROVE CallOK(c)' /\ HandleOK(c)'
  <2>1. CallOK(c) /\ HandleOK(c)  BY DEF StoreIInv
  <2>2. CallOK(c)'  BY <1>2, <2>1 DEF CallOK, NoMemory, Kinds
  <2>3. HandleOK(c)'  BY <1>2, <1>3, <2>1 DEF HandleOK, Told
  <2> QED  BY <2>2, <2>3
<1>8. EmptyInv'  BY <1>2 DEF StoreIInv, EmptyInv, Listed
<1>9. LeakInv'  BY <1>2 DEF StoreIInv, LeakInv, HeldOK, Passive, NoMemory
<1>10. ASSUME Passive = {}
       PROVE  OwnerInv' /\ \A c \in Clients : WatchOK(c)' /\ EndOK(c)'
  <2>1. \A c \in Clients : pc'[c] = "idle" /\ call'[c] = "none"
    <3>1. \A c \in Clients : pc[c] = "idle"  BY <1>10 DEF Suspend
    <3> QED  BY <1>2, <3>1 DEF StoreIInv, CallOK
  <2>2. \A c \in Clients : WatchOK(c)'  BY <1>2, <1>3, <2>1 DEF WatchOK, Watched, Answered
  <2>3. \A c \in Clients : EndOK(c)'  BY <2>1 DEF EndOK, Answered
  <2>4. ASSUME NEW c \in Clients, NEW id  PROVE ~Owns(c, id)'
    <3>1. ~Started(c, id)'  BY <2>1 DEF Started, Answered
    <3>2. ~Open(c, id)'  BY <1>2, <1>3 DEF Open
    <3> QED  BY <3>1, <3>2 DEF Owns
  <2>5. OwnerInv'  BY <1>2, <2>4 DEF OwnerInv
  <2> QED  BY <2>2, <2>3, <2>5
<1> QED  BY <1>5, <1>6, <1>7, <1>8, <1>9, <1>10 DEF StoreIInv, Passive

-----------------------------------------------------------------------------
(* The theorems.                                                           *)

LEMMA StoreSteps == ASSUME StoreAssumption, StoreIInv, [Next]_vars PROVE StoreIInv'
<1>1. CASE UNCHANGED vars
  <2>1. UNCHANGED <<references, TransactionList, transaction, WatchList, watch, WatchId, BufferList, held,
                    signalled, call, pc, request, response, ring, xsTransactions, xsWatches, suspends,
                    woken, bugcheck, mix>>
    BY <1>1 DEF vars, lists, daemon, history
  <2>2. StoreTypes'
    BY <2>1 DEF StoreIInv, StoreTypes, ObjectTypes, CallTypes, DaemonTypes, Kinds
  <2>3. Unique' /\ EmptyInv' /\ LeakInv'
    BY <2>1 DEF StoreIInv, Unique, EmptyInv, Listed, LeakInv, HeldOK, Passive, NoMemory
  <2>4. \A c \in Clients : CallOK(c)' /\ HandleOK(c)'
    BY <2>1 DEF StoreIInv, CallOK, HandleOK, Told, NoMemory, Kinds
  <2>5. (Passive = {})' => Passive = {}  BY <2>1 DEF Passive
  <2>6. ASSUME Passive = {}  PROVE OwnerInv' /\ \A c \in Clients : WatchOK(c)' /\ EndOK(c)'
    <3>1. OwnerInv /\ \A c \in Clients : WatchOK(c) /\ EndOK(c)  BY <2>6 DEF StoreIInv
    <3>2. \A c, id : Owns(c, id)' <=> Owns(c, id)
      BY <2>1 DEF Owns, Open, Started, Ended, Answered
    <3> QED  BY <2>1, <3>1, <3>2 DEF OwnerInv, WatchOK, EndOK, Watched, Unwatched, Answered
  <2> QED  BY <2>2, <2>3, <2>4, <2>5, <2>6 DEF StoreIInv
<1>2. CASE Next
  <2>1. ~bugcheck /\ mix' = mix  BY <1>2 DEF Next
  <2>2. CASE StorePoll \/ XsFire  BY <2>1, <2>2, QuietKeeps
  <2>3. CASE Suspend  BY <2>1, <2>3, SuspendKeeps
  <2>4. CASE \E c \in Clients : Client(c)  BY <2>1, <2>4, ClientKeeps
  <2> QED  BY <1>2, <2>2, <2>3, <2>4 DEF Next
<1> QED  BY <1>1, <1>2

LEMMA OneOwner ==
  ASSUME OwnerInv, NEW id \in xsTransactions
  PROVE  Cardinality({c \in Clients : Owns(c, id)}) = 1
<1>1. PICK c \in Clients : Owns(c, id) /\ \A d \in Clients : Owns(d, id) => d = c  BY DEF OwnerInv
<1>2. {d \in Clients : Owns(d, id)} = {c}  BY <1>1
<1> QED  BY <1>2, FS_Singleton

LEMMA StoreImplies ==
  ASSUME StoreIInv
  PROVE  ListsInv /\ WakeInv
<1>1. StoreTypes /\ Unique /\ \A c \in Clients : CallOK(c) /\ HandleOK(c)  BY DEF StoreIInv
<1>2. StoreInv
  BY <1>1 DEF StoreInv, StoreTypes, ObjectTypes, CallTypes, DaemonTypes, Unique, WatchIds, Calls, Requests,
    Responses
<1>3. TransactionInv
  <2>1. SUFFICES ASSUME Passive = {}
                 PROVE  /\ \A c \in TransactionList :
                            transaction[c].Active /\ ~Ended(c) => transaction[c].Id \in xsTransactions
                        /\ \A id \in xsTransactions : Cardinality({c \in Clients : Owns(c, id)}) = 1
    BY DEF TransactionInv, Owns, Open, Started, Ended
  <2>2. OwnerInv  BY <2>1 DEF StoreIInv
  <2>3. ASSUME NEW c \in TransactionList, transaction[c].Active, ~Ended(c)
        PROVE  transaction[c].Id \in xsTransactions
    <3>1. c \in Clients /\ transaction[c] \in [Id : TxIds \union {0}, Active : BOOLEAN]
      BY <1>1 DEF StoreTypes, ObjectTypes
    <3>2. transaction[c] = [Id |-> transaction[c].Id, Active |-> TRUE]  BY <2>3, <3>1
    <3>3. Owns(c, transaction[c].Id)  BY <2>3, <3>2 DEF Owns, Open
    <3> QED  BY <2>2, <3>1, <3>3 DEF OwnerInv
  <2> QED  BY <2>2, <2>3, OneOwner
<1>4. WatchInv
  <2>1. SUFFICES ASSUME Passive = {}
                 PROVE  /\ \A c \in WatchList : watch[c].Active => \/ Token(c) \in xsWatches
                                                                   \/ call[c] = "WatchAdd"
                                                                   \/ Answered(c, "WatchRemove")
                        /\ \A token \in xsWatches :
                             token[2] \in WatchList /\ Token(token[2]) = token /\ watch[token[2]].Active
    BY DEF WatchInv
  <2>2. \A c \in Clients : WatchOK(c)  BY <2>1 DEF StoreIInv
  <2>3. ASSUME NEW c \in WatchList, watch[c].Active
        PROVE  Token(c) \in xsWatches \/ call[c] = "WatchAdd" \/ Answered(c, "WatchRemove")
    <3>1. c \in Clients  BY <1>1 DEF StoreTypes, ObjectTypes
    <3> QED  BY <2>2, <2>3, <3>1 DEF WatchOK, Watched, Token
  <2>4. ASSUME NEW token \in xsWatches
        PROVE  token[2] \in WatchList /\ Token(token[2]) = token /\ watch[token[2]].Active
    <3>1. PICK id \in WatchIds, c \in Clients : token = <<id, c>>
      BY <1>1 DEF StoreTypes, DaemonTypes
    <3>2. c \in WatchList /\ watch[c] = [Id |-> id, Active |-> TRUE]
      BY <2>2, <3>1 DEF WatchOK, Watched
    <3> QED  BY <3>1, <3>2 DEF Token
  <2> QED  BY <2>3, <2>4
<1>5. NoBugCheck  BY DEF StoreIInv, LeakInv, NoBugCheck
<1>6. WakeInv  BY <1>1 DEF WakeInv, HandleOK, Told
<1> QED  BY <1>2, <1>3, <1>4, <1>5, <1>6 DEF ListsInv

\* However many clients, of whatever mix, and however many suspends: no two watches on the list
\* share an id; the driver and xenstored agree on the open transactions and the watches of
\* callers at DISPATCH_LEVEL, and StoreRelease then finds nothing on its lists.
THEOREM ListsAgree == Spec => []ListsInv
<1>1. Init => StoreIInv  BY StoreInit, StoreAssumption
<1>2. StoreIInv /\ [Next]_vars => StoreIInv'  BY StoreSteps, StoreAssumption
<1>3. StoreIInv => ListsInv  BY StoreImplies
<1> QED  BY <1>1, <1>2, <1>3, PTL DEF Spec

\* No client waits for ever on a watch that a suspend has made inactive: StoreSuspendCallbackLate
\* has set its event, and until the next suspend the client has it set or has waited for it.
THEOREM ClientsAreWoken == Spec => []WakeInv
<1>1. Init => StoreIInv  BY StoreInit, StoreAssumption
<1>2. StoreIInv /\ [Next]_vars => StoreIInv'  BY StoreSteps, StoreAssumption
<1>3. StoreIInv => WakeInv  BY StoreImplies
<1> QED  BY <1>1, <1>2, <1>3, PTL DEF Spec
=============================================================================
