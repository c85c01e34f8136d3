-------------------------- MODULE EvtchnFifoProofs --------------------------
(* The FIFO ABI, for any ports, priorities, page size and number of        *)
(* releases: LinksInv, and that the ABI implements EvtchnAbi.  FifoIInv    *)
(* says that for each queue there is an order of its linked ports in which *)
(* each links to the next, the first is where a poll would begin and the   *)
(* last is the hypervisor's tail; a link puts a port at the end, an unlink *)
(* takes the first away, and no other step touches the order.              *)
EXTENDS EvtchnFifo, FiniteSetTheorems, WellFoundedInduction, TLAPS

-----------------------------------------------------------------------------
(* The inductive invariant.                                                *)

\* The linked ports of queue q are s[1] .. s[k], each linked to the next.
Order(q, k, s) ==
  /\ {s[i] : i \in 1 .. k} = Linked(q)
  /\ \A i, j \in 1 .. k : s[i] = s[j] => i = j
  /\ \A i \in 1 .. k : link[s[i]] = IF i < k THEN s[i + 1] ELSE 0
  /\ IF k = 0 THEN First(q) = 0 ELSE First(q) = s[1] /\ tail[q] = s[k]

InOrder(q) == \E k \in Nat : \E s \in [1 .. k -> Port] : Order(q, k, s)

\* A queue is known to be ready in one place, and exactly while it has a port.
ReadyInv ==
  /\ ready \cap LocalReady = {} /\ ready \cap setting = {} /\ LocalReady \cap setting = {}
  /\ \A q \in Priority : q \in ready \cup LocalReady \cup setting <=> Linked(q) # {}

\* The poll has a queue while it is between two of its ports.
PollInv ==
  /\ pc = "idle" => LocalReady = {}
  /\ pc \in {"select", "unlink"} => LocalReady # {}
  /\ pc = "event" => port \in Port
  /\ \A q \in Priority : CachedHead[q] # 0 => q \in LocalReady

\* Only ports in use are linked, and a port that is not links to none.
LinkInv ==
  /\ linked \cup sending \cup unmasking \subseteq enabled
  /\ \A p \in Port \ linked : link[p] = 0
  /\ \A q \in Priority : tail[q] # 0 => PriorityOf[tail[q]] = q

FifoIInv == TypeOK /\ ReadyInv /\ PollInv /\ LinkInv /\ \A q \in Priority : InOrder(q)

-----------------------------------------------------------------------------
(* Numbers.                                                                *)

\* Every nonempty set of natural numbers has a least element.
LEMMA LeastNumber ==
  ASSUME NEW S \in SUBSET Nat, S # {}
  PROVE  \E x \in S : \A y \in S : x <= y
<1>1. \E x \in S : \A y \in S : <<y, x>> \notin OpToRel(<, Nat)
  BY NatLessThanWellFounded, WFMin
<1>2. PICK x \in S : \A y \in S : <<y, x>> \notin OpToRel(<, Nat)  BY <1>1
<1>3. \A y \in S : ~(y < x)  BY <1>2 DEF OpToRel
<1>4. \A y \in S : x <= y  BY <1>3
<1> QED  BY <1>4

\* A property of 0 that passes on from each number below N to the next holds of N.
LEMMA NoCounterexample ==
  ASSUME NEW N \in Nat, NEW B \in SUBSET (0 .. N), 0 \notin B,
         \A n \in 1 .. N : n \in B => n - 1 \in B
  PROVE  B = {}
<1> SUFFICES ASSUME B # {} PROVE FALSE  OBVIOUS
<1>1. B \in SUBSET Nat  OBVIOUS
<1>2. PICK n \in B : \A k \in B : n <= k  BY <1>1, LeastNumber
<1>3. n \in 1 .. N  BY <1>2
<1>4. n - 1 \in B  BY <1>2, <1>3
<1> QED  BY <1>2, <1>3, <1>4

LEMMA Constants ==
  /\ PortCount \in Nat \ {0} /\ Port = 1 .. PortCount /\ 0 \notin Port
  /\ Priority \subseteq Nat /\ \A p \in Port : PriorityOf[p] \in Priority
BY FifoAssumption DEF Port, Priority

\* The priorities are bounded, as the ports are finitely many.
LEMMA Bounded == \E b \in Nat : \A q \in Priority : q <= b
<1> DEFINE Bound(m, b) == \A p \in 1 .. m : PriorityOf[p] <= b
           B == {m \in 0 .. PortCount : \A b \in Nat : ~Bound(m, b)}
<1>0. PortCount \in Nat /\ \A p \in 1 .. PortCount : PriorityOf[p] \in Nat
  BY FifoAssumption DEF Port
<1>1. 0 \notin B
  <2>1. Bound(0, 0)  OBVIOUS
  <2> QED  BY <2>1
<1>2. ASSUME NEW n \in 1 .. PortCount, n - 1 \notin B PROVE n \notin B
  <2>1. PICK b \in Nat : Bound(n - 1, b)  BY <1>0, <1>2
  <2>2. PICK c \in Nat : b <= c /\ PriorityOf[n] <= c
    <3>1. CASE b <= PriorityOf[n]  BY <1>0, <3>1
    <3>2. CASE PriorityOf[n] <= b  BY <1>0, <3>2
    <3> QED  BY <1>0, <3>1, <3>2
  <2>3. Bound(n, c)
    <3> SUFFICES ASSUME NEW p \in 1 .. n PROVE PriorityOf[p] <= c
      OBVIOUS
    <3>1. CASE p = n  BY <2>2, <3>1
    <3>2. CASE p # n
      <4>1. p \in 1 .. n - 1  BY <1>0, <3>2
      <4>2. PriorityOf[p] <= b /\ PriorityOf[p] \in Nat  BY <1>0, <2>1, <4>1
      <4> QED  BY <2>2, <4>2
    <3> QED  BY <3>1, <3>2
  <2> QED  BY <2>3
<1>3. B = {}
  <2>1. \A n \in 1 .. PortCount : n \in B => n - 1 \in B  BY <1>2
  <2> HIDE DEF B
  <2>2. B \in SUBSET (0 .. PortCount)  BY DEF B
  <2> QED  BY <1>0, <1>1, <2>1, <2>2, NoCounterexample
<1>4. PICK b \in Nat : Bound(PortCount, b)
  <2>1. PortCount \in 0 .. PortCount  BY <1>0
  <2> QED  BY <1>3, <2>1
<1> QED  BY <1>4 DEF Priority, Port

\* EvtchnFifoPollPriority finds the highest ready queue.
LEMMA Highest == ASSUME NEW S \in SUBSET Priority, S # {} PROVE Max(S) \in S
<1>0. S \subseteq Nat  BY Constants
<1> DEFINE U == {n \in Nat : \A x \in S : x <= n}
<1>1. U \in SUBSET Nat /\ U # {}  BY Bounded
<1>2. PICK n \in U : \A m \in U : n <= m  BY <1>1, LeastNumber
<1>3. n \in S
  <2> SUFFICES ASSUME n \notin S PROVE FALSE  OBVIOUS
  <2>1. \A x \in S : x < n  BY <1>0
  <2>2. PICK x \in S : TRUE  OBVIOUS
  <2>3. n - 1 \in Nat /\ \A y \in S : y <= n - 1  BY <1>0, <2>1, <2>2
  <2>4. n - 1 \in U  BY <2>3
  <2> QED  BY <1>2, <2>4
<1>4. \A x \in S : n >= x  BY <1>0
<1> QED  BY <1>3, <1>4 DEF Max

-----------------------------------------------------------------------------
(* Orders.                                                                 *)

\* An order is disturbed only through the links of its ports, where a poll would
\* begin, and the tail.
LEMMA Kept ==
  ASSUME NEW q, InOrder(q), Linked(q)' = Linked(q), \A p \in Linked(q) : link'[p] = link[p],
         tail'[q] = tail[q], First(q)' = First(q)
  PROVE  InOrder(q)'
<1>0. PICK k \in Nat : \E s \in [1 .. k -> Port] : Order(q, k, s)  BY DEF InOrder
<1>1. PICK s \in [1 .. k -> Port] : Order(q, k, s)  BY <1>0
<1>2. \A i \in 1 .. k : s[i] \in Linked(q)  BY <1>1 DEF Order
<1>3. \A i \in 1 .. k : link'[s[i]] = link[s[i]]  BY <1>2
<1>4. Order(q, k, s)'  BY <1>1, <1>3 DEF Order
<1> QED  BY <1>4 DEF InOrder

\* HvLink on a queue that has ports.
LEMMA Appended ==
  ASSUME NEW q, NEW p \in Port, p \notin linked, InOrder(q), Linked(q) # {}, linked \subseteq Port,
         link \in [Port -> Port \cup {0}], link[p] = 0, link' = [link EXCEPT ![tail[q]] = p],
         Linked(q)' = Linked(q) \cup {p}, tail'[q] = p, First(q)' = First(q)
  PROVE  InOrder(q)'
<1>0. PICK k \in Nat : \E s \in [1 .. k -> Port] : Order(q, k, s)  BY DEF InOrder
<1>1. PICK s \in [1 .. k -> Port] : Order(q, k, s)  BY <1>0
<1>2. {s[i] : i \in 1 .. k} = Linked(q) /\ \A i \in 1 .. k : s[i] \in Linked(q) /\ s[i] \in linked
  BY <1>1 DEF Order, Linked
<1>3. k > 0 /\ k \in 1 .. k
  <2>1. k # 0
    <3> SUFFICES ASSUME k = 0 PROVE FALSE  OBVIOUS
    <3>1. 1 .. k = {}  OBVIOUS
    <3>2. Linked(q) = {}  BY <1>2, <3>1
    <3> QED  BY <3>2
  <2> QED  BY <2>1
<1>4. First(q) = s[1] /\ tail[q] = s[k]  BY <1>1, <1>3 DEF Order
<1>5. \A i \in 1 .. k : s[i] # p  BY <1>2
<1> DEFINE t == [i \in 1 .. k + 1 |-> IF i = k + 1 THEN p ELSE s[i]]
<1>6. k + 1 \in Nat /\ t \in [1 .. k + 1 -> Port] /\ k + 1 # 0 /\ t[1] = s[1] /\ t[k + 1] = p
  BY <1>3
<1>6a. \A i \in 1 .. k : i \in 1 .. k + 1 /\ t[i] = s[i] /\ i # k + 1
  BY <1>3
<1>6b. \A i \in 1 .. k + 1 : i = k + 1 \/ i \in 1 .. k
  BY <1>3
<1> HIDE DEF t
<1>7. {t[i] : i \in 1 .. k + 1} = Linked(q)'
  <2>1. \A x \in Linked(q) : \E i \in 1 .. k : t[i] = x  BY <1>2, <1>6a
  <2>2. \A i \in 1 .. k : t[i] \in Linked(q)  BY <1>2, <1>6a
  <2>3. k + 1 \in 1 .. k + 1  BY <1>3
  <2> QED  BY <1>6, <1>6a, <1>6b, <2>1, <2>2, <2>3
<1>8. \A i, j \in 1 .. k + 1 : t[i] = t[j] => i = j
  <2>1. \A i, j \in 1 .. k : s[i] = s[j] => i = j  BY <1>1 DEF Order
  <2> QED  BY <1>5, <1>6, <1>6a, <1>6b, <2>1
<1>9. \A i \in 1 .. k + 1 : link'[t[i]] = IF i < k + 1 THEN t[i + 1] ELSE 0
  <2> SUFFICES ASSUME NEW i \in 1 .. k + 1
               PROVE  link'[t[i]] = IF i < k + 1 THEN t[i + 1] ELSE 0
    OBVIOUS
  <2>1. CASE i = k + 1
    <3>1. p # s[k] /\ p # tail[q]  BY <1>3, <1>4, <1>5
    <3>2. link'[p] = 0  BY <3>1
    <3> QED  BY <1>6, <2>1, <3>2
  <2>2. CASE i = k
    <3>1. link'[s[k]] = p  BY <1>3, <1>4
    <3>2. t[i] = s[k] /\ t[i + 1] = p /\ i < k + 1  BY <1>3, <1>6, <1>6a, <2>2
    <3> QED  BY <3>1, <3>2
  <2>3. CASE i \in 1 .. k /\ i # k
    <3>1. i + 1 \in 1 .. k /\ i < k /\ i < k + 1  BY <1>3, <2>3
    <3>2. link[s[i]] = s[i + 1]  BY <1>1, <3>1, <2>3 DEF Order
    <3>3. s[i] # s[k]  BY <1>1, <1>3, <2>3 DEF Order
    <3>4. link'[s[i]] = link[s[i]]  BY <1>4, <3>3, <2>3
    <3>5. t[i] = s[i] /\ t[i + 1] = s[i + 1]  BY <1>6a, <2>3, <3>1
    <3> QED  BY <3>1, <3>2, <3>4, <3>5
  <2> QED  BY <1>6b, <2>1, <2>2, <2>3
<1>10. First(q)' = t[1] /\ tail'[q] = t[k + 1]  BY <1>4, <1>6
<1>11. Order(q, k + 1, t)'  BY <1>6, <1>7, <1>8, <1>9, <1>10 DEF Order
<1> QED  BY <1>6, <1>11 DEF InOrder

\* HvLink on an empty queue.
LEMMA Alone ==
  ASSUME NEW q, NEW p \in Port, link'[p] = 0, Linked(q)' = {p}, tail'[q] = p, First(q)' = p
  PROVE  InOrder(q)'
<1> DEFINE s == [i \in 1 .. 1 |-> p]
<1>1. s \in [1 .. 1 -> Port] /\ s[1] = p  OBVIOUS
<1>2. \A i \in 1 .. 1 : i = 1  OBVIOUS
<1> HIDE DEF s
<1>3. {s[i] : i \in 1 .. 1} = {p}  BY <1>1, <1>2
<1>4. Order(q, 1, s)'  BY <1>1, <1>2, <1>3 DEF Order
<1> QED  BY <1>1, <1>4 DEF InOrder

\* A queue without ports, at the start and after a release.
LEMMA Empty ==
  ASSUME NEW q
  PROVE  (Linked(q) = {} /\ First(q) = 0 => InOrder(q)) /\ (Linked(q)' = {} /\ First(q)' = 0 => InOrder(q)')
<1> DEFINE s == [i \in 1 .. 0 |-> 0]
<1>1. 1 .. 0 = {} /\ 0 \in Nat  OBVIOUS
<1>2. s \in [1 .. 0 -> Port]  BY <1>1
<1>3. {s[i] : i \in 1 .. 0} = {}  BY <1>1
<1> HIDE DEF s
<1>4. Linked(q) = {} /\ First(q) = 0 => Order(q, 0, s)  BY <1>1, <1>3 DEF Order
<1>5. Linked(q)' = {} /\ First(q)' = 0 => Order(q, 0, s)'  BY <1>1, <1>3 DEF Order
<1> QED  BY <1>1, <1>2, <1>4, <1>5 DEF InOrder

\* What an order says of the first port and of the tail.
LEMMA FirstLinked ==
  ASSUME NEW q, InOrder(q)
  PROVE  /\ Linked(q) # {} => First(q) \in Linked(q) /\ tail[q] \in Linked(q)
         /\ Linked(q) = {} => First(q) = 0
<1>0. PICK k \in Nat : \E s \in [1 .. k -> Port] : Order(q, k, s)  BY DEF InOrder
<1>1. PICK s \in [1 .. k -> Port] : Order(q, k, s)  BY <1>0
<1>2. {s[i] : i \in 1 .. k} = Linked(q)  BY <1>1 DEF Order
<1>3. CASE k = 0
  <2>1. 1 .. k = {} /\ First(q) = 0  BY <1>1, <1>3 DEF Order
  <2> QED  BY <1>2, <2>1
<1>4. CASE k # 0
  <2>1. 1 \in 1 .. k /\ k \in 1 .. k  BY <1>4
  <2>2. s[1] \in Linked(q) /\ s[k] \in Linked(q)  BY <1>2, <2>1
  <2>3. First(q) = s[1] /\ tail[q] = s[k]  BY <1>1, <1>4 DEF Order
  <2> QED  BY <2>2, <2>3
<1> QED  BY <1>3, <1>4

\* EvtchnFifoUnlink takes the first port away: the next one, if any, is where its
\* link led.
LEMMA Unlinked ==
  ASSUME NEW q, InOrder(q), NEW p \in Port, p = First(q), Linked(q) # {}, link \in [Port -> Port \cup {0}],
         link' = [link EXCEPT ![p] = 0], Linked(q)' = Linked(q) \ {p}, tail'[q] = tail[q],
         First(q)' = link[p]
  PROVE  InOrder(q)' /\ (link[p] = 0 <=> Linked(q)' = {})
<1>0. PICK k \in Nat : \E s \in [1 .. k -> Port] : Order(q, k, s)  BY DEF InOrder
<1>1. PICK s \in [1 .. k -> Port] : Order(q, k, s)  BY <1>0
<1>2. {s[i] : i \in 1 .. k} = Linked(q) /\ \A i, j \in 1 .. k : s[i] = s[j] => i = j  BY <1>1 DEF Order
<1>3. k > 0 /\ 1 \in 1 .. k /\ k \in 1 .. k
  <2>1. k # 0
    <3> SUFFICES ASSUME k = 0 PROVE FALSE  OBVIOUS
    <3>1. 1 .. k = {}  OBVIOUS
    <3>2. Linked(q) = {}  BY <1>2, <3>1
    <3> QED  BY <3>2
  <2> QED  BY <2>1
<1>4. p = s[1] /\ tail[q] = s[k]  BY <1>1, <1>3 DEF Order
<1> DEFINE t == [i \in 1 .. k - 1 |-> s[i + 1]]
<1>5. k - 1 \in Nat /\ \A i \in 1 .. k - 1 : i + 1 \in 1 .. k /\ i + 1 # 1  BY <1>3
<1>6. t \in [1 .. k - 1 -> Port] /\ \A i \in 1 .. k - 1 : t[i] = s[i + 1]  BY <1>5
<1>6a. \A i \in 1 .. k : i = 1 \/ (i - 1 \in 1 .. k - 1 /\ i = (i - 1) + 1)  BY <1>3
<1> HIDE DEF t
<1>7. {t[i] : i \in 1 .. k - 1} = Linked(q)'
  <2>1. \A i \in 1 .. k - 1 : t[i] \in Linked(q) /\ t[i] # p  BY <1>2, <1>3, <1>4, <1>5, <1>6
  <2>2. ASSUME NEW x \in Linked(q), x # p PROVE \E i \in 1 .. k - 1 : t[i] = x
    <3>1. PICK i \in 1 .. k : s[i] = x  BY <1>2
    <3>2. i # 1  BY <1>4, <2>2, <3>1
    <3>3. i - 1 \in 1 .. k - 1 /\ t[i - 1] = s[i]  BY <1>6, <1>6a, <3>2
    <3> QED  BY <3>1, <3>3
  <2> QED  BY <2>1, <2>2
<1>8. \A i, j \in 1 .. k - 1 : t[i] = t[j] => i = j
  <2> SUFFICES ASSUME NEW i \in 1 .. k - 1, NEW j \in 1 .. k - 1, t[i] = t[j] PROVE i = j
    OBVIOUS
  <2>1. s[i + 1] = s[j + 1]  BY <1>6
  <2>2. i + 1 = j + 1  BY <1>2, <1>5, <2>1
  <2> QED  BY <2>2
<1>9. \A i \in 1 .. k - 1 : link'[t[i]] = IF i < k - 1 THEN t[i + 1] ELSE 0
  <2> SUFFICES ASSUME NEW i \in 1 .. k - 1
               PROVE  link'[t[i]] = IF i < k - 1 THEN t[i + 1] ELSE 0
    OBVIOUS
  <2>1. i + 1 \in 1 .. k /\ i + 1 # 1 /\ t[i] = s[i + 1]  BY <1>5, <1>6
  <2>2. s[i + 1] # p  BY <1>2, <1>3, <1>4, <2>1
  <2>3. link'[t[i]] = link[s[i + 1]]  BY <2>1, <2>2
  <2>4. link[s[i + 1]] = IF i + 1 < k THEN s[(i + 1) + 1] ELSE 0  BY <1>1, <2>1 DEF Order
  <2>5. CASE i < k - 1
    <3>1. i + 1 \in 1 .. k - 1 /\ i + 1 < k  BY <1>3, <2>5
    <3>2. t[i + 1] = s[(i + 1) + 1]  BY <1>6, <3>1
    <3> QED  BY <2>3, <2>4, <2>5, <3>1, <3>2
  <2>6. CASE ~(i < k - 1)
    <3>1. ~(i + 1 < k)  BY <1>3, <2>6
    <3> QED  BY <2>3, <2>4, <2>6, <3>1
  <2> QED  BY <2>5, <2>6
<1>10. link[p] = IF 1 < k THEN s[1 + 1] ELSE 0  BY <1>1, <1>3, <1>4 DEF Order
<1>11. CASE k = 1
  <2>1. 1 .. k - 1 = {} /\ link[p] = 0 /\ k - 1 = 0  BY <1>10, <1>11
  <2>2. Linked(q)' = {}  BY <1>7, <2>1
  <2>3. Order(q, k - 1, t)'  BY <1>7, <1>8, <1>9, <2>1 DEF Order
  <2> QED  BY <1>5, <1>6, <2>1, <2>2, <2>3 DEF InOrder
<1>12. CASE k # 1
  <2>1. 1 < k /\ 1 \in 1 .. k - 1 /\ k - 1 \in 1 .. k - 1 /\ k - 1 # 0 /\ (k - 1) + 1 = k /\ 1 + 1 \in 1 .. k
    BY <1>3, <1>12
  <2>2. link[p] = s[1 + 1] /\ t[1] = s[1 + 1] /\ t[k - 1] = s[k]  BY <1>6, <1>10, <2>1
  <2>3. First(q)' = t[1] /\ tail'[q] = t[k - 1]  BY <1>4, <2>2
  <2>4. Order(q, k - 1, t)'  BY <1>7, <1>8, <1>9, <2>1, <2>3 DEF Order
  <2>5. link[p] # 0 /\ Linked(q)' # {}
    <3>1. s[1 + 1] \in Port  BY <2>1
    <3>2. t[1] \in Linked(q)'  BY <1>7, <2>1
    <3> QED  BY <2>2, <3>1, <3>2, Constants
  <2> QED  BY <1>5, <1>6, <2>4, <2>5 DEF InOrder
<1> QED  BY <1>11, <1>12

\* Following the links from where a poll would begin meets the order.
LEMMA ChainMeets ==
  ASSUME NEW q, NEW k \in 0 .. PortCount, NEW s \in [1 .. k -> Port], Order(q, k, s)
  PROVE  \A n \in 0 .. PortCount : Chain(q)[n] = IF n < k THEN s[n + 1] ELSE 0
<1> DEFINE Is(C) == C = [n \in 0 .. PortCount |->
                           IF n = 0 THEN First(q)
                           ELSE IF C[n - 1] = 0 THEN 0 ELSE link[C[n - 1]]]
           met == [n \in 0 .. PortCount |-> IF n < k THEN s[n + 1] ELSE 0]
<1>0. PortCount \in Nat /\ k \in Nat /\ 0 \notin Port  BY Constants
<1>1. IF k = 0 THEN First(q) = 0 ELSE First(q) = s[1]  BY DEF Order
<1>2. ASSUME NEW n \in 1 .. PortCount
      PROVE  met[n] = IF met[n - 1] = 0 THEN 0 ELSE link[met[n - 1]]
  <2>1. n \in 0 .. PortCount /\ n - 1 \in 0 .. PortCount /\ (n - 1) + 1 = n  BY <1>0
  <2>2. met[n] = (IF n < k THEN s[n + 1] ELSE 0) /\ met[n - 1] = (IF n - 1 < k THEN s[n] ELSE 0)
    BY <2>1
  <2>3. CASE n - 1 < k
    <3>1. n \in 1 .. k  BY <1>0, <2>3
    <3>2. met[n - 1] = s[n] /\ s[n] # 0  BY <1>0, <2>2, <2>3, <3>1
    <3>3. link[s[n]] = IF n < k THEN s[n + 1] ELSE 0  BY <3>1 DEF Order
    <3> HIDE DEF met
    <3> QED  BY <2>2, <3>2, <3>3
  <2>4. CASE ~(n - 1 < k)
    <3>1. ~(n < k)  BY <1>0, <2>4
    <3> HIDE DEF met
    <3> QED  BY <2>2, <2>4, <3>1
  <2> QED  BY <2>3, <2>4
<1>3. met[0] = First(q)
  <2>1. 0 \in 0 .. PortCount  BY <1>0
  <2>2. met[0] = IF 0 < k THEN s[1] ELSE 0  BY <2>1
  <2>3. k = 0 <=> ~(0 < k)  BY <1>0
  <2> HIDE DEF met
  <2> QED  BY <1>1, <2>2, <2>3
<1>4. Is(met)
  <2> DEFINE F == [n \in 0 .. PortCount |->
                     IF n = 0 THEN First(q)
                     ELSE IF met[n - 1] = 0 THEN 0 ELSE link[met[n - 1]]]
  <2>1. DOMAIN met = 0 .. PortCount /\ met = [n \in 0 .. PortCount |-> met[n]]  OBVIOUS
  <2> HIDE DEF met
  <2>2. \A n \in 0 .. PortCount : n # 0 => n \in 1 .. PortCount  BY <1>0
  <2>3. \A n \in 0 .. PortCount :
          met[n] = IF n = 0 THEN First(q) ELSE IF met[n - 1] = 0 THEN 0 ELSE link[met[n - 1]]
    BY <1>2, <1>3, <2>2
  <2> QED  BY <2>1, <2>3
<1>5. ASSUME NEW C, Is(C) PROVE \A n \in 0 .. PortCount : C[n] = met[n]
  <2> DEFINE B == {n \in 0 .. PortCount : C[n] # met[n]}
  <2>1. \A n \in 0 .. PortCount :
          C[n] = IF n = 0 THEN First(q) ELSE IF C[n - 1] = 0 THEN 0 ELSE link[C[n - 1]]
    BY <1>5
  <2> HIDE DEF met, Is
  <2>2. 0 \notin B  BY <1>0, <1>3, <2>1
  <2>3. ASSUME NEW n \in 1 .. PortCount, n - 1 \notin B PROVE n \notin B
    <3>1. n \in 0 .. PortCount /\ n - 1 \in 0 .. PortCount /\ n # 0  BY <1>0
    <3>2. C[n - 1] = met[n - 1]  BY <2>3, <3>1
    <3>3. C[n] = IF C[n - 1] = 0 THEN 0 ELSE link[C[n - 1]]  BY <2>1, <3>1
    <3> QED  BY <1>2, <3>2, <3>3
  <2>4. B = {}
    <3>1. \A n \in 1 .. PortCount : n \in B => n - 1 \in B  BY <2>3
    <3>2. B \in SUBSET (0 .. PortCount)  OBVIOUS
    <3> HIDE DEF B
    <3> QED  BY <1>0, <2>2, <3>1, <3>2, NoCounterexample
  <2> QED  BY <2>4
<1> HIDE DEF met
<1>6. Chain(q) = CHOOSE C : Is(C)  BY DEF Chain
<1> HIDE DEF Is
<1>7. Is(Chain(q))  BY <1>4, <1>6
<1>8. \A n \in 0 .. PortCount : Chain(q)[n] = met[n]  BY <1>5, <1>7
<1> QED  BY <1>8 DEF met

\* What QueueInv says of one queue follows from its order.
LEMMA ChainHolds ==
  ASSUME NEW q, InOrder(q), linked \subseteq Port
  PROVE  /\ {Chain(q)[n] : n \in 0 .. PortCount} \ {0} = Linked(q)
         /\ Chain(q)[Cardinality(Linked(q))] = 0
<1>0. PICK k \in Nat : \E s \in [1 .. k -> Port] : Order(q, k, s)  BY DEF InOrder
<1>1. PICK s \in [1 .. k -> Port] : Order(q, k, s)  BY <1>0
<1>2. /\ {s[i] : i \in 1 .. k} = Linked(q)
      /\ \A i, j \in 1 .. k : s[i] = s[j] => i = j
  BY <1>1 DEF Order
<1>3. PortCount \in Nat /\ Port = 1 .. PortCount /\ 0 \notin Port  BY Constants
<1>4. IsFiniteSet(Linked(q)) /\ Cardinality(Linked(q)) = k
  <2>1. IsFiniteSet(1 .. k) /\ Cardinality(1 .. k) = k  BY FS_Interval
  <2>2. s \in Bijection(1 .. k, Linked(q))
    BY <1>2 DEF Bijection, Injection, Surjection, IsInjective
  <2>3. ExistsBijection(1 .. k, Linked(q))  BY <2>2 DEF ExistsBijection
  <2> QED  BY <2>1, <2>3, FS_Bijection
<1>5. k <= PortCount
  <2>1. Linked(q) \subseteq Port  BY DEF Linked
  <2>2. IsFiniteSet(Port) /\ Cardinality(Port) = PortCount  BY <1>3, FS_Interval
  <2> QED  BY <1>3, <1>4, <2>1, <2>2, FS_Subset
<1>6. k \in 0 .. PortCount  BY <1>3, <1>5
<1>7. \A n \in 0 .. PortCount : Chain(q)[n] = IF n < k THEN s[n + 1] ELSE 0
  BY <1>1, <1>6, ChainMeets
<1>8. ASSUME NEW p \in Linked(q) PROVE \E n \in 0 .. PortCount : Chain(q)[n] = p /\ p # 0
  <2>1. PICK i \in 1 .. k : s[i] = p  BY <1>2
  <2>2. i - 1 \in 0 .. PortCount /\ i - 1 < k /\ (i - 1) + 1 = i  BY <1>3, <1>5
  <2>3. Chain(q)[i - 1] = s[i]  BY <1>7, <2>2
  <2> QED  BY <1>3, <2>1, <2>2, <2>3
<1>9. ASSUME NEW n \in 0 .. PortCount PROVE Chain(q)[n] \in Linked(q) \cup {0}
  <2>1. CASE n < k
    <3>1. n + 1 \in 1 .. k  BY <1>3, <2>1
    <3> QED  BY <1>2, <1>7, <2>1, <3>1
  <2>2. CASE ~(n < k)  BY <1>7, <2>2
  <2> QED  BY <2>1, <2>2
<1>10. 0 \notin Linked(q)  BY <1>3 DEF Linked
<1>11. {Chain(q)[n] : n \in 0 .. PortCount} \ {0} = Linked(q)
  BY <1>8, <1>9, <1>10
<1>12. Chain(q)[k] = 0  BY <1>6, <1>7
<1> QED  BY <1>4, <1>11, <1>12

-----------------------------------------------------------------------------
(* Steps.                                                                  *)

Ordered == \A q \in Priority : InOrder(q)

links == <<linked, link, head, tail, ready, setting>>

LEMMA Types ==
  ASSUME FifoIInv
  PROVE  /\ TypeOK /\ linked \subseteq Port /\ link \in [Port -> Port \cup {0}]
         /\ \A q \in Priority : InOrder(q) /\ (Linked(q) # {} => First(q) \in Linked(q))
         /\ \A q \in Priority : Linked(q) = {} => First(q) = 0
         /\ 0 \notin Port
<1>1. TypeOK /\ \A q \in Priority : InOrder(q)  BY DEF FifoIInv
<1>2. linked \subseteq Port /\ link \in [Port -> Port \cup {0}]  BY <1>1 DEF TypeOK
<1> QED  BY <1>1, <1>2, FirstLinked, Constants

\* The port that EvtchnFifoUnlink takes is the first of the highest ready queue.
LEMMA AboutToUnlink ==
  ASSUME FifoIInv, pc = "unlink", NEW q, q = Max(LocalReady)
  PROVE  /\ q \in LocalReady /\ q \in Priority /\ First(q) = port
         /\ port \in Linked(q) /\ port \in linked /\ port \in Port /\ PriorityOf[port] = q
<1>1. LocalReady # {} /\ LocalReady \subseteq Priority  BY DEF FifoIInv, PollInv, TypeOK
<1>2. q \in LocalReady /\ q \in Priority  BY <1>1, Highest
<1>3. First(q) = port  BY DEF First
<1>4. Linked(q) # {}  BY <1>2 DEF FifoIInv, ReadyInv
<1>5. port \in Linked(q)  BY <1>2, <1>3, <1>4, Types
<1> QED  BY <1>2, <1>3, <1>5, Types DEF Linked

\* Steps that touch neither the links nor the poll.
LEMMA Untouched ==
  ASSUME FifoIInv, UNCHANGED <<links, polling>>
  PROVE  ReadyInv' /\ PollInv' /\ Ordered'
<1>1. UNCHANGED <<linked, link, head, tail, ready, setting, CachedHead, LocalReady, pc, port>>
  BY DEF links, polling
<1>2. \A q : Linked(q)' = Linked(q) /\ First(q)' = First(q)  BY <1>1 DEF Linked, First
<1>3. ReadyInv'  BY <1>1, <1>2 DEF FifoIInv, ReadyInv
<1>4. PollInv'  BY <1>1 DEF FifoIInv, PollInv
<1>5. Ordered'
  <2>1. \A q \in Priority : InOrder(q)  BY DEF FifoIInv
  <2>2. ASSUME NEW q \in Priority PROVE InOrder(q)'
    <3>1. \A p \in Linked(q) : link'[p] = link[p]  BY <1>1
    <3>2. tail'[q] = tail[q]  BY <1>1
    <3> QED  BY <1>2, <2>1, <3>1, <3>2, Kept
  <2> QED  BY <2>2 DEF Ordered
<1> QED  BY <1>3, <1>4, <1>5

LEMMA HvSendStep ==
  ASSUME FifoIInv, NEW p \in Port, HvSend(p)
  PROVE  FifoIInv'
<1>1. UNCHANGED <<links, polling>>  BY DEF HvSend, links, polling, control, hyper
<1>2. ReadyInv' /\ PollInv' /\ Ordered'  BY <1>1, Untouched
<1>3. TypeOK'
  BY DEF FifoIInv, TypeOK, HvSend, control, polling, callers, EvtchnFifoEventWord
<1>4. LinkInv'  BY DEF FifoIInv, LinkInv, HvSend, callers
<1> QED  BY <1>2, <1>3, <1>4 DEF FifoIInv, Ordered

LEMMA EnableStep ==
  ASSUME FifoIInv, NEW p \in Port, EvtchnFifoPortEnable(p)
  PROVE  FifoIInv'
<1>0. TypeOK  BY DEF FifoIInv
<1>1. UNCHANGED <<links, polling>>
  BY DEF EvtchnFifoPortEnable, links, polling, control, hyper, words
<1>2. ReadyInv' /\ PollInv' /\ Ordered'  BY <1>1, Untouched
<1>3. pages \in Nat /\ \A c \in Port : c \div PerPage \in Nat
  <2>1. \A a \in Nat, b \in Nat \ {0} : a \div b \in Nat  OBVIOUS
  <2>2. PerPage \in Nat \ {0} /\ pages \in Nat /\ \A c \in Port : c \in Nat
    BY <1>0, FifoAssumption DEF TypeOK, Port
  <2> QED  BY <2>1, <2>2
<1>4. pages' \in Nat /\ pages <= pages' /\ p \div PerPage < pages'
  <2>1. pages' = IF p \div PerPage < pages THEN pages ELSE p \div PerPage + 1
    BY DEF EvtchnFifoPortEnable, EvtchnFifoEventWord
  <2>2. p \div PerPage \in Nat  BY <1>3
  <2> DEFINE d == p \div PerPage
  <2> HIDE DEF d
  <2>3. d \in Nat /\ pages' = IF d < pages THEN pages ELSE d + 1  BY <2>1, <2>2 DEF d
  <2>4. pages' \in Nat /\ pages <= pages' /\ d < pages'  BY <1>3, <2>3
  <2> QED  BY <2>4 DEF d
<1>5. \A c \in enabled' : EvtchnFifoEventWord(c)'
  <2> SUFFICES ASSUME NEW c \in enabled' PROVE c \div PerPage < pages'
    BY DEF EvtchnFifoEventWord
  <2>1. CASE c = p  BY <1>4, <2>1
  <2>2. CASE c # p
    <3>1. c \in enabled  BY <2>2 DEF EvtchnFifoPortEnable
    <3>2. c \in Port /\ c \div PerPage < pages  BY <1>0, <3>1 DEF TypeOK, EvtchnFifoEventWord
    <3>3. c \div PerPage \in Nat  BY <1>3, <3>2
    <3> DEFINE d == c \div PerPage
    <3> HIDE DEF d
    <3>4. d \in Nat /\ d < pages  BY <3>2, <3>3 DEF d
    <3>5. d < pages'  BY <1>3, <1>4, <3>4
    <3> QED  BY <3>5 DEF d
  <2> QED  BY <2>1, <2>2
<1>6. TypeOK'
  <2>1. enabled' \subseteq Port  BY <1>0 DEF TypeOK, EvtchnFifoPortEnable
  <2> QED  BY <1>0, <1>4, <1>5, <2>1 DEF TypeOK, EvtchnFifoPortEnable, words, control, hyper, polling
<1>7. LinkInv'  BY DEF FifoIInv, LinkInv, EvtchnFifoPortEnable, words, hyper
<1> QED  BY <1>2, <1>6, <1>7 DEF FifoIInv, Ordered

\* The calls of evtchn.c.
LEMMA CallerSteps ==
  ASSUME FifoIInv, NEW p \in Port,
         \/ EvtchnFifoPortAck(p) \/ EvtchnFifoPortMask(p) \/ EvtchnFifoPortUnmask(p)
         \/ PortUnmaskTest(p)
  PROVE  FifoIInv'
<1>1. UNCHANGED <<links, polling, enabled, pages, resets>>
  BY DEF EvtchnFifoPortAck, EvtchnFifoPortMask, EvtchnFifoPortUnmask, PortUnmaskTest, links,
         control, hyper, callers
<1>2. ReadyInv' /\ PollInv' /\ Ordered'  BY <1>1, Untouched
<1>3. /\ pending' \subseteq Port /\ masked' \subseteq Port /\ sending' \subseteq Port
      /\ unmasking' \subseteq Port /\ taken' \subseteq Port
  BY DEF FifoIInv, TypeOK, EvtchnFifoPortAck, EvtchnFifoPortMask, EvtchnFifoPortUnmask,
         PortUnmaskTest, hyper, callers
<1>4. TypeOK'
  BY <1>1, <1>3 DEF FifoIInv, TypeOK, links, polling, EvtchnFifoEventWord
<1>5. sending' \cup unmasking' \subseteq enabled
  BY DEF FifoIInv, LinkInv, EvtchnFifoPortAck, EvtchnFifoPortMask, EvtchnFifoPortUnmask,
         PortUnmaskTest, hyper, callers
<1>6. LinkInv'  BY <1>1, <1>5 DEF FifoIInv, LinkInv, links
<1> QED  BY <1>2, <1>4, <1>6 DEF FifoIInv, Ordered

\* The ready bit reaches the control block.
LEMMA HvReadyStep ==
  ASSUME FifoIInv, NEW r \in Priority, HvReady(r)
  PROVE  FifoIInv'
<1>1. UNCHANGED <<pending, masked, linked, link, head, tail, sending, CachedHead, LocalReady, pc,
                  port, enabled, unmasking, taken, pages, resets>>
  BY DEF HvReady, words, polling, callers
<1>2. r \in setting /\ setting' = setting \ {r} /\ ready' = ready \cup {r}  BY DEF HvReady
<1>3. ready' \cup LocalReady' \cup setting' = ready \cup LocalReady \cup setting  BY <1>1, <1>2
<1>4. \A q : Linked(q)' = Linked(q) /\ First(q)' = First(q)  BY <1>1, <1>3 DEF Linked, First
<1>5. ReadyInv'  BY <1>1, <1>2, <1>3, <1>4 DEF FifoIInv, ReadyInv
<1>6. PollInv'  BY <1>1 DEF FifoIInv, PollInv
<1>7. LinkInv'  BY <1>1 DEF FifoIInv, LinkInv
<1>8. TypeOK'  BY <1>1, <1>2 DEF FifoIInv, TypeOK, EvtchnFifoEventWord
<1>9. \A q \in Priority : InOrder(q)'
  <2> TAKE q \in Priority
  <2>1. InOrder(q)  BY DEF FifoIInv
  <2>2. \A p \in Linked(q) : link'[p] = link[p]  BY <1>1
  <2>3. tail'[q] = tail[q]  BY <1>1
  <2> QED  BY <1>4, <2>1, <2>2, <2>3, Kept
<1> QED  BY <1>5, <1>6, <1>7, <1>8, <1>9 DEF FifoIInv

\* The hypervisor appends a port to its queue.
LEMMA HvLinkStep ==
  ASSUME FifoIInv, NEW p \in Port, HvLink(p)
  PROVE  FifoIInv'
<1> DEFINE q == PriorityOf[p]
           t == IF tail[q] = p THEN 0 ELSE tail[q]
<1>1. /\ p \in sending /\ q \notin setting /\ sending' = sending \ {p}
      /\ UNCHANGED <<pending, masked, ready, CachedHead, LocalReady, pc, port, enabled, unmasking,
                     taken, pages, resets>>
  BY DEF HvLink, polling, callers
<1>2. q \in Priority /\ 0 \notin Port  BY Constants
<1>3. TypeOK /\ ReadyInv /\ PollInv /\ LinkInv /\ \A r \in Priority : InOrder(r)  BY DEF FifoIInv
<1>4. linked \subseteq Port /\ link \in [Port -> Port \cup {0}] /\ tail \in [Priority -> Port \cup {0}]
      /\ head \in [Priority -> Port \cup {0}] /\ LocalReady \subseteq Priority
  BY <1>3 DEF TypeOK
<1>5. CASE p \in linked
  <2>1. UNCHANGED <<links, polling>>  BY <1>1, <1>5 DEF HvLink, links, polling
  <2>2. ReadyInv' /\ PollInv' /\ Ordered'  BY <2>1, Untouched
  <2>3. TypeOK'  BY <1>1, <1>3, <2>1 DEF TypeOK, links, EvtchnFifoEventWord
  <2>4. LinkInv'  BY <1>1, <1>3, <2>1 DEF LinkInv, links
  <2> QED  BY <2>2, <2>3, <2>4 DEF FifoIInv, Ordered
<1>6. CASE p \notin linked
  <2>1. linked' = linked \cup {p} /\ tail' = [tail EXCEPT ![q] = p]  BY <1>6 DEF HvLink
  <2>2. tail'[q] = p /\ \A r \in Priority : r # q => tail'[r] = tail[r]  BY <1>2, <1>4, <2>1
  <2>3. Linked(q)' = Linked(q) \cup {p} /\ \A r : r # q => Linked(r)' = Linked(r)
    BY <2>1 DEF Linked
  <2>4. link[p] = 0  BY <1>3, <1>6 DEF LinkInv
  <2>5. PollInv'  BY <1>1, <1>3 DEF PollInv
  <2>6. linked' \cup sending' \cup unmasking' \subseteq enabled'
    BY <1>1, <1>3, <2>1 DEF LinkInv
  <2>7. \A r \in Priority : tail'[r] # 0 => PriorityOf[tail'[r]] = r
    BY <1>3, <2>2 DEF LinkInv
  <2>8. tail' \in [Priority -> Port \cup {0}]  BY <1>4, <2>1
  <2>9. CASE t \in linked
    <3>1. link' = [link EXCEPT ![t] = p] /\ UNCHANGED <<head, setting>>  BY <1>6, <2>9 DEF HvLink
    <3>2. t = tail[q] /\ t # p /\ t # 0 /\ t \in Port  BY <1>2, <1>4, <1>6, <2>9
    <3>3. t \in Linked(q)  BY <1>2, <1>3, <2>9, <3>2 DEF LinkInv, Linked
    <3>4. \A r \in Priority : First(r)' = First(r)  BY <1>1, <3>1 DEF First
    <3>5. InOrder(q)'
      <4>1. link' = [link EXCEPT ![tail[q]] = p]  BY <3>1, <3>2
      <4> HIDE DEF t
      <4>2. First(q)' = First(q)  BY <1>2, <3>4
      <4>3. InOrder(q) /\ Linked(q) # {} /\ tail'[q] = p  BY <1>2, <1>3, <2>2, <3>3
      <4>4. Linked(q)' = Linked(q) \cup {p}  BY <2>3
      <4> HIDE DEF q
      <4> QED  BY <1>4, <1>6, <2>4, <4>1, <4>2, <4>3, <4>4, Appended
    <3>6. ASSUME NEW r \in Priority, r # q PROVE InOrder(r)'
      <4>1. \A x \in Linked(r) : x # t  BY <3>3, <3>6 DEF Linked
      <4>2. \A x \in Linked(r) : link'[x] = link[x]  BY <1>4, <3>1, <4>1 DEF Linked
      <4>3. InOrder(r) /\ Linked(r)' = Linked(r) /\ tail'[r] = tail[r] /\ First(r)' = First(r)
        BY <1>3, <2>2, <2>3, <3>4, <3>6
      <4> QED  BY <4>2, <4>3, Kept
    <3>7. \A r \in Priority : InOrder(r)'  BY <3>5, <3>6
    <3>8. link' \in [Port -> Port \cup {0}]  BY <1>4, <3>1
    <3>9. \A x \in Port \ linked' : link'[x] = 0
      <4> SUFFICES ASSUME NEW x \in Port \ linked' PROVE link'[x] = 0  OBVIOUS
      <4>1. x \notin linked /\ x # t  BY <2>1, <2>9
      <4>2. link[x] = 0  BY <1>3, <4>1 DEF LinkInv
      <4> QED  BY <1>4, <3>1, <4>1, <4>2
    <3>10. ReadyInv'
      <4>1. UNCHANGED <<ready, LocalReady, setting>>  BY <1>1, <3>1
      <4>2. \A r \in Priority : Linked(r)' # {} <=> Linked(r) # {}  BY <2>3, <3>3
      <4> QED  BY <1>3, <4>1, <4>2 DEF ReadyInv
    <3>11. TypeOK'
      BY <1>1, <1>3, <2>1, <2>8, <3>1, <3>8 DEF TypeOK, EvtchnFifoEventWord
    <3>12. LinkInv'  BY <2>6, <2>7, <3>9 DEF LinkInv
    <3> QED  BY <2>5, <3>7, <3>10, <3>11, <3>12 DEF FifoIInv
  <2>10. CASE t \notin linked
    <3>1. head' = [head EXCEPT ![q] = p] /\ setting' = setting \cup {q} /\ link' = link
      BY <1>6, <2>10 DEF HvLink
    <3>2. Linked(q) = {}
      <4> SUFFICES ASSUME Linked(q) # {} PROVE FALSE  OBVIOUS
      <4>1. tail[q] \in Linked(q)  BY <1>2, <1>3, FirstLinked
      <4>2. tail[q] \in linked  BY <4>1 DEF Linked
      <4>3. tail[q] # p  BY <1>6, <4>2
      <4> QED  BY <2>10, <4>2, <4>3
    <3>3. q \notin ready \cup LocalReady \cup setting  BY <1>2, <1>3, <3>2 DEF ReadyInv
    <3>4. First(q)' = p
      <4>1. ~(pc = "unlink" /\ q = Max(LocalReady))
        <5> SUFFICES ASSUME pc = "unlink" PROVE q # Max(LocalReady)  OBVIOUS
        <5>1. LocalReady # {}  BY <1>3 DEF PollInv
        <5>2. Max(LocalReady) \in LocalReady  BY <1>4, <5>1, Highest
        <5> QED  BY <3>3, <5>2
      <4>2. CachedHead[q] = 0  BY <1>2, <1>3, <3>3 DEF PollInv
      <4>3. head'[q] = p /\ q \in setting'  BY <1>2, <1>4, <3>1
      <4> HIDE DEF q
      <4> QED  BY <1>1, <4>1, <4>2, <4>3 DEF First
    <3>5. InOrder(q)'
      <4>1. link'[p] = 0  BY <2>4, <3>1
      <4>2. Linked(q)' = {p}  BY <2>3, <3>2
      <4> HIDE DEF q
      <4> QED  BY <2>2, <3>4, <4>1, <4>2, Alone
    <3>6. ASSUME NEW r \in Priority, r # q PROVE InOrder(r)'
      <4>1. head'[r] = head[r] /\ (r \in ready' \cup LocalReady' \cup setting' <=> r \in ready \cup LocalReady \cup setting)
        BY <1>1, <1>4, <3>1, <3>6
      <4>2. First(r)' = First(r)  BY <1>1, <4>1 DEF First
      <4>3. InOrder(r) /\ Linked(r)' = Linked(r) /\ tail'[r] = tail[r]
        BY <1>3, <2>2, <2>3, <3>6
      <4>4. \A x \in Linked(r) : link'[x] = link[x]  BY <3>1
      <4> QED  BY <4>2, <4>3, <4>4, Kept
    <3>7. \A r \in Priority : InOrder(r)'  BY <3>5, <3>6
    <3>8. ReadyInv'
      <4>1. ready' = ready /\ LocalReady' = LocalReady /\ setting' = setting \cup {q}
        BY <1>1, <3>1
      <4>2. /\ ready' \cap LocalReady' = {} /\ ready' \cap setting' = {}
            /\ LocalReady' \cap setting' = {}
        BY <1>3, <3>3, <4>1 DEF ReadyInv
      <4>3. Linked(q)' # {}  BY <2>3
      <4>4. \A r \in Priority : r \in ready' \cup LocalReady' \cup setting' <=> Linked(r)' # {}
        BY <1>3, <2>3, <4>1, <4>3 DEF ReadyInv
      <4> QED  BY <4>2, <4>4 DEF ReadyInv
    <3>9. head' \in [Priority -> Port \cup {0}]  BY <1>4, <3>1
    <3>10. TypeOK'
      BY <1>1, <1>2, <1>3, <2>1, <2>8, <3>1, <3>9 DEF TypeOK, EvtchnFifoEventWord
    <3>11. LinkInv'
      <4>1. \A x \in Port \ linked' : link'[x] = 0  BY <1>3, <2>1, <3>1 DEF LinkInv
      <4> QED  BY <2>6, <2>7, <4>1 DEF LinkInv
    <3> QED  BY <2>5, <3>7, <3>8, <3>10, <3>11 DEF FifoIInv
  <2> QED  BY <2>9, <2>10
<1> QED  BY <1>5, <1>6

\* The ready bits are taken.
LEMMA PollStepHolds ==
  ASSUME FifoIInv, EvtchnFifoPoll
  PROVE  FifoIInv'
<1>1. TypeOK /\ ReadyInv /\ PollInv /\ LinkInv /\ \A r \in Priority : InOrder(r)  BY DEF FifoIInv
<1>2. /\ pc \in {"idle", "exchange"} /\ ready' = {}
      /\ pc' = IF LocalReady' = {} THEN "idle" ELSE "select"
      /\ UNCHANGED <<pending, masked, linked, link, head, tail, sending, setting, CachedHead, port,
                     enabled, unmasking, taken, pages, resets>>
  BY DEF EvtchnFifoPoll, words, hyper, callers
<1>3. LocalReady' = LocalReady \cup ready  BY <1>1, <1>2 DEF EvtchnFifoPoll, PollInv
<1>4. ready' \cup LocalReady' \cup setting' = ready \cup LocalReady \cup setting  BY <1>2, <1>3
<1>5. \A r : Linked(r)' = Linked(r) /\ First(r)' = First(r)  BY <1>2, <1>4 DEF Linked, First
<1>6. \A r \in Priority : InOrder(r)'
  <2> TAKE r \in Priority
  <2>1. InOrder(r) /\ (\A x \in Linked(r) : link'[x] = link[x]) /\ tail'[r] = tail[r]  BY <1>1, <1>2
  <2> QED  BY <1>5, <2>1, Kept
<1>7. ReadyInv'  BY <1>1, <1>2, <1>3, <1>4, <1>5 DEF ReadyInv
<1>8. PollInv'  BY <1>1, <1>2, <1>3 DEF PollInv
<1>9. LinkInv'  BY <1>1, <1>2 DEF LinkInv
<1>10. TypeOK'  BY <1>1, <1>2, <1>3 DEF TypeOK, EvtchnFifoEventWord
<1> QED  BY <1>6, <1>7, <1>8, <1>9, <1>10 DEF FifoIInv

\* The highest ready queue is chosen, and its first port.
LEMMA PriorityStep ==
  ASSUME FifoIInv, EvtchnFifoPollPriority
  PROVE  FifoIInv'
<1>1. TypeOK /\ ReadyInv /\ PollInv /\ LinkInv /\ \A r \in Priority : InOrder(r)  BY DEF FifoIInv
<1>2. /\ pc = "select" /\ pc' = "unlink"
      /\ UNCHANGED <<pending, masked, linked, link, ready, head, tail, sending, setting, CachedHead,
                     LocalReady, enabled, unmasking, taken, pages, resets>>
  BY DEF EvtchnFifoPollPriority, words, control, hyper, callers
<1>3. PICK q : q = Max(LocalReady)  OBVIOUS
<1>4. q \in LocalReady /\ q \in Priority  BY <1>1, <1>2, <1>3, Highest DEF PollInv, TypeOK
<1>5. port' = IF CachedHead[q] = 0 THEN head[q] ELSE CachedHead[q]
  BY <1>3 DEF EvtchnFifoPollPriority
<1>6. q = Max(LocalReady')  BY <1>2, <1>3
<1>7. ASSUME NEW r \in Priority PROVE First(r)' = First(r)
  <2>1. First(r) = IF CachedHead[r] # 0 THEN CachedHead[r]
                   ELSE IF r \in ready \cup LocalReady \cup setting THEN head[r] ELSE 0
    BY <1>2 DEF First
  <2>2. CASE r = q
    <3>1. First(r)' = port'  BY <1>2, <1>6, <2>2 DEF First
    <3> QED  BY <1>4, <1>5, <2>1, <2>2, <3>1
  <2>3. CASE r # q  BY <1>2, <1>6, <2>1, <2>3 DEF First
  <2> QED  BY <2>2, <2>3
<1>8. \A r : Linked(r)' = Linked(r)  BY <1>2 DEF Linked
<1>9. \A r \in Priority : InOrder(r)'
  <2> TAKE r \in Priority
  <2>1. InOrder(r) /\ (\A x \in Linked(r) : link'[x] = link[x]) /\ tail'[r] = tail[r]  BY <1>1, <1>2
  <2> QED  BY <1>7, <1>8, <2>1, Kept
<1>10. ReadyInv'  BY <1>1, <1>2, <1>8 DEF ReadyInv
<1>11. PollInv'  BY <1>1, <1>2 DEF PollInv
<1>12. LinkInv'  BY <1>1, <1>2 DEF LinkInv
<1>13. port' \in Port \cup {0}  BY <1>1, <1>4, <1>5 DEF TypeOK
<1>14. TypeOK'  BY <1>1, <1>2, <1>13 DEF TypeOK, EvtchnFifoEventWord
<1> QED  BY <1>9, <1>10, <1>11, <1>12, <1>14 DEF FifoIInv

\* The first port leaves its queue.
LEMMA UnlinkStep ==
  ASSUME FifoIInv, EvtchnFifoUnlink
  PROVE  FifoIInv'
<1>1. TypeOK /\ ReadyInv /\ PollInv /\ LinkInv /\ \A r \in Priority : InOrder(r)  BY DEF FifoIInv
<1>2. /\ pc = "unlink" /\ pc' = "event" /\ linked' = linked \ {port}
      /\ link' = [link EXCEPT ![port] = 0]
      /\ UNCHANGED <<pending, masked, ready, head, tail, sending, setting, port, enabled, unmasking,
                     taken, pages, resets>>
  BY DEF EvtchnFifoUnlink, control, hyper, callers
<1>3. PICK q : q = Max(LocalReady)  OBVIOUS
<1>4. /\ q \in LocalReady /\ q \in Priority /\ First(q) = port
      /\ port \in Linked(q) /\ port \in linked /\ port \in Port /\ PriorityOf[port] = q
  BY <1>2, <1>3, AboutToUnlink
<1>5. /\ CachedHead' = [CachedHead EXCEPT ![q] = link[port]]
      /\ LocalReady' = IF link[port] = 0 THEN LocalReady \ {q} ELSE LocalReady
  BY <1>3 DEF EvtchnFifoUnlink
<1>6. /\ CachedHead \in [Priority -> Port \cup {0}] /\ link \in [Port -> Port \cup {0}]
      /\ linked \subseteq Port
  BY <1>1 DEF TypeOK
<1>7. CachedHead'[q] = link[port] /\ \A r \in Priority : r # q => CachedHead'[r] = CachedHead[r]
  BY <1>4, <1>5, <1>6
<1>8. q \notin ready \cup setting  BY <1>1, <1>4 DEF ReadyInv
<1>9. Linked(q)' = Linked(q) \ {port} /\ \A r : r # q => Linked(r)' = Linked(r)
  BY <1>2, <1>4 DEF Linked
<1>10. First(q)' = link[port]
  <2>1. First(q)' = IF CachedHead'[q] # 0 THEN CachedHead'[q]
                    ELSE IF q \in ready' \cup LocalReady' \cup setting' THEN head'[q] ELSE 0
    BY <1>2 DEF First
  <2>2. link[port] = 0 => q \notin ready' \cup LocalReady' \cup setting'  BY <1>2, <1>5, <1>8
  <2> QED  BY <1>7, <2>1, <2>2
<1>11. InOrder(q)' /\ (link[port] = 0 <=> Linked(q)' = {})
  BY <1>1, <1>2, <1>4, <1>6, <1>9, <1>10, Unlinked
<1>12. ASSUME NEW r \in Priority, r # q PROVE InOrder(r)'
  <2>1. \A x \in Linked(r) : link'[x] = link[x]
    <3>1. \A x \in Linked(r) : x # port  BY <1>4, <1>12 DEF Linked
    <3> QED  BY <1>2, <1>6, <3>1 DEF Linked
  <2>2. r \in ready' \cup LocalReady' \cup setting' <=> r \in ready \cup LocalReady \cup setting
    BY <1>2, <1>5, <1>12
  <2>3. First(r) = IF CachedHead[r] # 0 THEN CachedHead[r]
                   ELSE IF r \in ready \cup LocalReady \cup setting THEN head[r] ELSE 0
    BY <1>3, <1>12 DEF First
  <2>4. First(r)' = IF CachedHead'[r] # 0 THEN CachedHead'[r]
                    ELSE IF r \in ready' \cup LocalReady' \cup setting' THEN head'[r] ELSE 0
    BY <1>2 DEF First
  <2>5. First(r)' = First(r)  BY <1>2, <1>7, <1>12, <2>2, <2>3, <2>4
  <2>6. InOrder(r) /\ Linked(r)' = Linked(r) /\ tail'[r] = tail[r]  BY <1>1, <1>2, <1>9, <1>12
  <2> QED  BY <2>1, <2>5, <2>6, Kept
<1>13. \A r \in Priority : InOrder(r)'  BY <1>11, <1>12
<1>14. ReadyInv'
  <2>1. /\ ready' \cap LocalReady' = {} /\ ready' \cap setting' = {}
        /\ LocalReady' \cap setting' = {}
    BY <1>1, <1>2, <1>5 DEF ReadyInv
  <2>2. ASSUME NEW r \in Priority
        PROVE  r \in ready' \cup LocalReady' \cup setting' <=> Linked(r)' # {}
    <3>1. CASE r = q  BY <1>2, <1>4, <1>5, <1>8, <1>11, <3>1
    <3>2. CASE r # q
      <4>1. r \in ready' \cup LocalReady' \cup setting' <=> r \in ready \cup LocalReady \cup setting
        BY <1>2, <1>5, <3>2
      <4>2. Linked(r)' = Linked(r)  BY <1>9, <3>2
      <4> QED  BY <1>1, <4>1, <4>2 DEF ReadyInv
    <3> QED  BY <3>1, <3>2
  <2> QED  BY <2>1, <2>2 DEF ReadyInv
<1>15. PollInv'
  <2>1. ASSUME NEW r \in Priority, CachedHead'[r] # 0 PROVE r \in LocalReady'
    <3>1. CASE r = q  BY <1>4, <1>5, <1>7, <2>1, <3>1
    <3>2. CASE r # q  BY <1>1, <1>5, <1>7, <2>1, <3>2 DEF PollInv
    <3> QED  BY <3>1, <3>2
  <2> QED  BY <1>2, <1>4, <2>1 DEF PollInv
<1>16. LinkInv'
  <2>1. linked' \cup sending' \cup unmasking' \subseteq enabled'  BY <1>1, <1>2 DEF LinkInv
  <2>2. \A x \in Port \ linked' : link'[x] = 0  BY <1>1, <1>2, <1>6 DEF LinkInv
  <2>3. \A r \in Priority : tail'[r] # 0 => PriorityOf[tail'[r]] = r  BY <1>1, <1>2 DEF LinkInv
  <2> QED  BY <2>1, <2>2, <2>3 DEF LinkInv
<1>17. TypeOK'
  <2>1. CachedHead' \in [Priority -> Port \cup {0}] /\ link' \in [Port -> Port \cup {0}]
    BY <1>2, <1>4, <1>5, <1>6
  <2>2. linked' \subseteq Port /\ LocalReady' \subseteq Priority  BY <1>1, <1>2, <1>5 DEF TypeOK
  <2> QED  BY <1>1, <1>2, <2>1, <2>2 DEF TypeOK, EvtchnFifoEventWord
<1> QED  BY <1>13, <1>14, <1>15, <1>16, <1>17 DEF FifoIInv

\* The callback.
LEMMA EventStep ==
  ASSUME FifoIInv, EvtchnFifoEvent
  PROVE  FifoIInv'
<1>1. TypeOK /\ ReadyInv /\ PollInv /\ LinkInv /\ \A r \in Priority : InOrder(r)  BY DEF FifoIInv
<1>2. /\ pc = "event" /\ pc' = "exchange" /\ port' = 0
      /\ taken' = IF port \in pending \ masked THEN taken \cup {port} ELSE taken
      /\ UNCHANGED <<pending, masked, linked, link, ready, head, tail, sending, setting, CachedHead,
                     LocalReady, enabled, unmasking, pages, resets>>
  BY DEF EvtchnFifoEvent, words, control, hyper
<1>3. \A r : Linked(r)' = Linked(r) /\ First(r)' = First(r)  BY <1>2 DEF Linked, First
<1>4. \A r \in Priority : InOrder(r)'
  <2> TAKE r \in Priority
  <2>1. InOrder(r) /\ (\A x \in Linked(r) : link'[x] = link[x]) /\ tail'[r] = tail[r]  BY <1>1, <1>2
  <2> QED  BY <1>3, <2>1, Kept
<1>5. ReadyInv'  BY <1>1, <1>2, <1>3 DEF ReadyInv
<1>6. PollInv'  BY <1>1, <1>2 DEF PollInv
<1>7. LinkInv'  BY <1>1, <1>2 DEF LinkInv
<1>8. TypeOK'  BY <1>1, <1>2 DEF TypeOK, EvtchnFifoEventWord
<1> QED  BY <1>4, <1>5, <1>6, <1>7, <1>8 DEF FifoIInv

\* New event pages and control blocks, with Context->Head as the last poll left it.
LEMMA ReleaseStep ==
  ASSUME FifoIInv, EvtchnFifoRelease
  PROVE  FifoIInv'
<1>1. TypeOK /\ ReadyInv /\ PollInv /\ LinkInv  BY DEF FifoIInv
<1>2. /\ pc = "idle" /\ resets < MaxReset /\ resets' = resets + 1
      /\ pending' = {} /\ masked' = Port /\ linked' = {} /\ link' = [p \in Port |-> 0]
      /\ ready' = {} /\ head' = [q \in Priority |-> 0] /\ tail' = [q \in Priority |-> 0]
      /\ sending' = {} /\ setting' = {} /\ pages' = 0 /\ enabled' = {} /\ unmasking' = {}
      /\ taken' = {} /\ UNCHANGED <<CachedHead, LocalReady, pc, port>>
  BY DEF EvtchnFifoRelease, polling
<1>3. LocalReady' = {} /\ \A q \in Priority : CachedHead'[q] = 0
  BY <1>1, <1>2 DEF PollInv
<1>4. \A q : Linked(q)' = {}  BY <1>2 DEF Linked
<1>5. \A q \in Priority : First(q)' = 0  BY <1>2, <1>3 DEF First
<1>6. \A q \in Priority : InOrder(q)'  BY <1>4, <1>5, Empty
<1>7. ReadyInv'  BY <1>2, <1>3, <1>4 DEF ReadyInv
<1>8. PollInv'  BY <1>1, <1>2, <1>3 DEF PollInv
<1>9. LinkInv'  BY <1>2 DEF LinkInv
<1>10. TypeOK'
  <2>1. resets' \in 0 .. MaxReset  BY <1>1, <1>2, FifoAssumption DEF TypeOK
  <2>2. /\ head' \in [Priority -> Port \cup {0}] /\ tail' \in [Priority -> Port \cup {0}]
        /\ link' \in [Port -> Port \cup {0}] /\ pages' \in Nat
    BY <1>2
  <2> QED  BY <1>1, <1>2, <2>1, <2>2 DEF TypeOK
<1> QED  BY <1>6, <1>7, <1>8, <1>9, <1>10 DEF FifoIInv

LEMMA InitInv == Init => FifoIInv
<1> SUFFICES ASSUME Init PROVE FifoIInv  OBVIOUS
<1>1. \A q \in Priority : Linked(q) = {} /\ First(q) = 0  BY DEF Init, Linked, First
<1>2. \A q \in Priority : InOrder(q)  BY <1>1, Empty
<1>3. TypeOK  BY FifoAssumption DEF Init, TypeOK
<1>4. ReadyInv  BY <1>1 DEF Init, ReadyInv
<1>5. PollInv /\ LinkInv  BY DEF Init, PollInv, LinkInv
<1> QED  BY <1>2, <1>3, <1>4, <1>5 DEF FifoIInv

LEMMA StepInv == FifoIInv /\ [Next]_vars => FifoIInv'
<1> SUFFICES ASSUME FifoIInv, [Next]_vars PROVE FifoIInv'  OBVIOUS
<1>1. ASSUME NEW p \in Port,
             \/ HvSend(p) \/ HvLink(p) \/ EvtchnFifoPortEnable(p) \/ EvtchnFifoPortAck(p)
             \/ EvtchnFifoPortMask(p) \/ EvtchnFifoPortUnmask(p) \/ PortUnmaskTest(p)
      PROVE  FifoIInv'
  BY <1>1, HvSendStep, HvLinkStep, EnableStep, CallerSteps
<1>2. ASSUME NEW q \in Priority, HvReady(q) PROVE FifoIInv'  BY <1>2, HvReadyStep
<1>3. CASE PollStep  BY <1>3, PollStepHolds, PriorityStep, UnlinkStep, EventStep DEF PollStep
<1>4. CASE EvtchnFifoRelease  BY <1>4, ReleaseStep
<1>5. CASE UNCHANGED vars
  <2>1. UNCHANGED <<links, polling>> /\ UNCHANGED vars
    BY <1>5 DEF vars, words, control, hyper, links
  <2>2. ReadyInv' /\ PollInv' /\ Ordered'  BY <2>1, Untouched
  <2>3. TypeOK' /\ LinkInv'
    BY <2>1 DEF FifoIInv, TypeOK, LinkInv, vars, words, control, hyper, polling, callers,
                EvtchnFifoEventWord
  <2> QED  BY <2>2, <2>3 DEF FifoIInv, Ordered
<1> QED  BY <1>1, <1>2, <1>3, <1>4, <1>5 DEF Next

LEMMA Invariance == Spec => []FifoIInv
BY InitInv, StepInv, PTL DEF Spec

LEMMA LinksHold == FifoIInv => LinksInv
<1> SUFFICES ASSUME FifoIInv PROVE LinksInv  OBVIOUS
<1>1. TypeOK /\ ReadyInv /\ PollInv /\ LinkInv /\ \A q \in Priority : InOrder(q)  BY DEF FifoIInv
<1>2. \A p \in linked : PriorityOf[p] \in ready \cup LocalReady \cup setting
  <2> TAKE p \in linked
  <2>1. p \in Port /\ PriorityOf[p] \in Priority  BY <1>1, Constants DEF TypeOK
  <2>2. p \in Linked(PriorityOf[p])  BY DEF Linked
  <2> QED  BY <1>1, <2>1, <2>2 DEF ReadyInv
<1>3. \A q \in Priority : /\ {Chain(q)[n] : n \in 0 .. PortCount} \ {0} = Linked(q)
                          /\ Chain(q)[Cardinality(Linked(q))] = 0
  BY <1>1, ChainHolds DEF TypeOK
<1>4. QueueInv  BY <1>1, <1>2, <1>3 DEF QueueInv
<1>5. pc = "idle" => \A q \in Priority : CachedHead[q] = 0  BY <1>1 DEF PollInv
<1>6. ASSUME pc = "unlink" PROVE port \in linked /\ EvtchnFifoEventWord(port)
  <2>1. PICK q : q = Max(LocalReady)  OBVIOUS
  <2>2. port \in linked  BY <1>6, <2>1, AboutToUnlink
  <2> QED  BY <1>1, <2>2 DEF LinkInv, TypeOK
<1> QED  BY <1>4, <1>5, <1>6 DEF LinksInv, HeadInv

\* Each queue holds the ports that are linked and nothing else, is known to be
\* ready while it holds one, and no poll follows a stale head: of the event
\* words, control block and Context->Head that evtchn_fifo.c shares with Xen.
THEOREM LinksFollowed == Spec => []LinksInv
BY Invariance, LinksHold, PTL

-----------------------------------------------------------------------------
(* The abstract ABI.                                                       *)

\* The ports that a poll is bound to visit, as Abi has them.
Due == linked \cup sending \cup (IF pc = "event" THEN {port} ELSE {})

\* The words change hands only as EvtchnAbi allows; the links, ready bits and
\* event pages do not show in it.
LEMMA AbiStep ==
  ASSUME FifoIInv, [Next]_vars
  PROVE  Abi!Next \/ UNCHANGED Abi!vars
<1>0. /\ pending \subseteq Port /\ linked \subseteq Port /\ sending \subseteq Port
      /\ linked \cup sending \subseteq enabled
  BY DEF FifoIInv, TypeOK, LinkInv
<1>1. ASSUME UNCHANGED <<pending, masked, unmasking, taken>>, Due' = Due
      PROVE  Abi!Next \/ UNCHANGED Abi!vars
  BY <1>1 DEF Abi!vars, Due
<1>2. ASSUME NEW p \in Port, HvSend(p) PROVE Abi!Next
  <2>1. /\ pending' = pending \cup {p} /\ UNCHANGED <<masked, linked, pc, port, unmasking, taken>>
        /\ sending' = IF p \in masked \cup linked THEN sending ELSE sending \cup {p}
    BY <1>2 DEF HvSend, polling, callers
  <2>2. CASE p \in masked \cup linked
    <3>1. Due' = Due  BY <2>1, <2>2 DEF Due
    <3>2. Due' = Due \cup (IF p \in masked \cup pending THEN {} ELSE {p}) \cup {}
      BY <2>2, <3>1 DEF Due
    <3>3. Abi!DueAlso(IF p \in masked \cup pending THEN {} ELSE {p})
      BY <3>2 DEF Abi!DueAlso, Due
    <3> QED  BY <2>1, <3>3 DEF Abi!Next, Abi!Send
  <2>3. CASE p \notin masked \cup linked
    <3>1. Due' = Due \cup {p} /\ {p} \in SUBSET (pending' \ masked')  BY <2>1, <2>3 DEF Due
    <3>2. Due' = Due \cup (IF p \in masked \cup pending THEN {} ELSE {p}) \cup {p}
      BY <3>1
    <3>3. Abi!DueAlso(IF p \in masked \cup pending THEN {} ELSE {p})
      BY <3>1, <3>2 DEF Abi!DueAlso, Due
    <3> QED  BY <2>1, <3>3 DEF Abi!Next, Abi!Send
  <2> QED  BY <2>2, <2>3
<1>3. ASSUME NEW p \in Port, HvLink(p) PROVE Abi!Next \/ UNCHANGED Abi!vars
  <2>1. /\ UNCHANGED <<pending, masked, pc, port, unmasking, taken>> /\ p \in sending
        /\ sending' = sending \ {p} /\ linked' = linked \cup {p}
    BY <1>3 DEF HvLink, polling, callers
  <2>2. Due' = Due  BY <2>1 DEF Due
  <2> QED  BY <1>1, <2>1, <2>2
<1>4. ASSUME NEW p \in Port, EvtchnFifoPortEnable(p) PROVE Abi!Next \/ UNCHANGED Abi!vars
  <2>1. UNCHANGED <<pending, masked, linked, sending, pc, port, unmasking, taken>>
    BY <1>4 DEF EvtchnFifoPortEnable, words, hyper, polling
  <2>2. Due' = Due  BY <2>1 DEF Due
  <2> QED  BY <1>1, <2>1, <2>2
<1>5. ASSUME NEW p \in Port, EvtchnFifoPortAck(p) PROVE Abi!Next
  <2>1. UNCHANGED <<linked, sending, pc, port, unmasking>>
    BY <1>5 DEF EvtchnFifoPortAck, hyper, polling
  <2>2. Due' = Due  BY <2>1 DEF Due
  <2>3. Abi!Ack(p)  BY <1>5, <2>1, <2>2 DEF EvtchnFifoPortAck, Abi!Ack, Due
  <2> QED  BY <2>3 DEF Abi!Next
<1>6. ASSUME NEW p \in Port, EvtchnFifoPortMask(p) PROVE Abi!Next
  <2>1. UNCHANGED <<pending, linked, sending, pc, port, unmasking, taken>> /\ masked' = masked \cup {p}
    BY <1>6 DEF EvtchnFifoPortMask, hyper, polling, callers
  <2>2. Due' = Due  BY <2>1 DEF Due
  <2>3. Abi!Mask(p)  BY <2>1, <2>2 DEF Abi!Mask, Due
  <2> QED  BY <2>3 DEF Abi!Next
<1>7. ASSUME NEW p \in Port, EvtchnFifoPortUnmask(p) PROVE Abi!Next
  <2>1. /\ UNCHANGED <<pending, linked, sending, pc, port, taken>>
        /\ masked' = masked \ {p} /\ unmasking' = unmasking \cup {p}
    BY <1>7 DEF EvtchnFifoPortUnmask, hyper, polling
  <2>2. Due' = Due \cup {} \cup {}  BY <2>1 DEF Due
  <2>3. Abi!DueAlso({})  BY <2>2 DEF Abi!DueAlso, Due
  <2>4. Abi!Unmask(p)  BY <2>1, <2>3 DEF Abi!Unmask
  <2> QED  BY <2>4 DEF Abi!Next
<1>8. ASSUME NEW p \in Port, PortUnmaskTest(p) PROVE Abi!Next
  <2>1. p \in unmasking /\ unmasking' = unmasking \ {p} /\ UNCHANGED <<linked, pc, port, taken>>
    BY <1>8 DEF PortUnmaskTest, polling
  <2>2. CASE p \notin pending /\ UNCHANGED <<pending, masked, sending>>
    <3>1. Due' = Due \cup (({p} \cap pending) \ masked') \cup {}  BY <2>1, <2>2 DEF Due
    <3>2. Abi!DueAlso(({p} \cap pending) \ masked')  BY <3>1 DEF Abi!DueAlso, Due
    <3>3. Abi!UnmaskTest(p)  BY <2>1, <2>2, <3>2 DEF Abi!UnmaskTest
    <3> QED  BY <3>3 DEF Abi!Next
  <2>3. CASE /\ p \in pending /\ masked' = masked \ {p} /\ UNCHANGED pending
             /\ sending' = IF p \in linked THEN sending ELSE sending \cup {p}
    <3>1. Due' = Due \cup (({p} \cap pending) \ masked') \cup {}  BY <2>1, <2>3 DEF Due
    <3>2. Abi!DueAlso(({p} \cap pending) \ masked')  BY <3>1 DEF Abi!DueAlso, Due
    <3>3. Abi!UnmaskTest(p)  BY <2>1, <2>3, <3>2 DEF Abi!UnmaskTest
    <3> QED  BY <3>3 DEF Abi!Next
  <2>4. CASE /\ p \in pending /\ pending' = pending \ {p}
             /\ masked' \in {masked, masked \cup {p}} /\ UNCHANGED sending
    <3>1. Due' = Due  BY <2>1, <2>4 DEF Due
    <3>2. Abi!UnmaskTake(p)  BY <2>1, <2>4, <3>1 DEF Abi!UnmaskTake, Due
    <3> QED  BY <3>2 DEF Abi!Next
  <2> QED  BY <1>8, <2>2, <2>3, <2>4 DEF PortUnmaskTest
<1>9. ASSUME NEW q \in Priority, HvReady(q) PROVE Abi!Next \/ UNCHANGED Abi!vars
  <2>1. UNCHANGED <<pending, masked, linked, sending, pc, port, unmasking, taken>>
    BY <1>9 DEF HvReady, words, polling, callers
  <2>2. Due' = Due  BY <2>1 DEF Due
  <2> QED  BY <1>1, <2>1, <2>2
<1>10. ASSUME EvtchnFifoPoll \/ EvtchnFifoPollPriority PROVE Abi!Next \/ UNCHANGED Abi!vars
  <2>1. UNCHANGED <<pending, masked, linked, sending, unmasking, taken>> /\ pc # "event" /\ pc' # "event"
    BY <1>10 DEF EvtchnFifoPoll, EvtchnFifoPollPriority, words, hyper, callers
  <2>2. Due' = Due  BY <2>1 DEF Due
  <2> QED  BY <1>1, <2>1, <2>2
<1>11. ASSUME EvtchnFifoUnlink PROVE Abi!Next \/ UNCHANGED Abi!vars
  <2>1. PICK q : q = Max(LocalReady)  OBVIOUS
  <2>2. pc = "unlink"  BY <1>11 DEF EvtchnFifoUnlink
  <2>3. port \in linked  BY <2>1, <2>2, AboutToUnlink
  <2>4. /\ pc' = "event" /\ linked' = linked \ {port}
        /\ UNCHANGED <<pending, masked, sending, port, unmasking, taken>>
    BY <1>11 DEF EvtchnFifoUnlink, hyper, callers
  <2>5. Due' = Due  BY <2>2, <2>3, <2>4 DEF Due
  <2> QED  BY <1>1, <2>4, <2>5
<1>12. ASSUME EvtchnFifoEvent PROVE Abi!Next \/ UNCHANGED Abi!vars
  <2>1. /\ pc = "event" /\ pc' = "exchange"
        /\ taken' = IF port \in pending \ masked THEN taken \cup {port} ELSE taken
        /\ UNCHANGED <<pending, masked, linked, sending, unmasking>>
    BY <1>12 DEF EvtchnFifoEvent, words, hyper
  <2>2. port \in Port  BY <2>1 DEF FifoIInv, PollInv
  <2>3. PICK p \in Port : p = port  BY <2>2
  <2>4. Due = linked \cup sending \cup {p} /\ Due' = linked \cup sending  BY <2>1, <2>3 DEF Due
  <2>5. Due' \in {Due, Due \ {p}}  BY <2>4
  <2>6. CASE p \in pending \ masked
    <3>1. taken' = taken \cup {p}  BY <2>1, <2>3, <2>6
    <3>2. Abi!Visit(p)  BY <2>1, <2>5, <3>1 DEF Abi!Visit, Due
    <3> QED  BY <3>2 DEF Abi!Next
  <2>7. CASE p \notin pending \ masked
    <3>1. taken' = taken /\ (p \notin pending \/ p \in masked)  BY <2>1, <2>3, <2>7
    <3>2. CASE Due' = Due  BY <1>1, <2>1, <3>1, <3>2
    <3>3. CASE Due' = Due \ {p}
      <4>1. Abi!Skip(p)  BY <2>1, <3>1, <3>3 DEF Abi!Skip, Due
      <4> QED  BY <4>1 DEF Abi!Next
    <3> QED  BY <2>5, <3>2, <3>3
  <2> QED  BY <2>6, <2>7
<1>13. ASSUME EvtchnFifoRelease PROVE Abi!Next
  <2>1. /\ pc = "idle" /\ pc' = pc /\ pending' = {} /\ masked' = Port /\ linked' = {} /\ sending' = {}
        /\ unmasking' = {} /\ taken' = {}
    BY <1>13 DEF EvtchnFifoRelease, polling
  <2>2. Due' = {}  BY <2>1 DEF Due
  <2>3. Abi!Reset  BY <2>1, <2>2 DEF Abi!Reset, Due
  <2> QED  BY <2>3 DEF Abi!Next
<1>14. CASE UNCHANGED vars
  <2>1. UNCHANGED <<pending, masked, linked, sending, pc, port, unmasking, taken>>
    BY <1>14 DEF vars, words, hyper, polling, callers
  <2>2. Due' = Due  BY <2>1 DEF Due
  <2> QED  BY <1>1, <2>1, <2>2
<1> QED
  BY <1>2, <1>3, <1>4, <1>5, <1>6, <1>7, <1>8, <1>9, <1>10, <1>11, <1>12, <1>13, <1>14
  DEF Next, PollStep

\* The FIFO ABI implements EvtchnAbi: the links, the ready bits and the poll's
\* copies of them lose no event that evtchn.c is promised.
THEOREM FifoImplementsAbi == Spec => ImplementsAbi
<1>1. Init => Abi!Init  BY DEF Init, Abi!Init
<1>2. FifoIInv /\ [Next]_vars => Abi!Next \/ UNCHANGED Abi!vars  BY AbiStep
<1> QED  BY <1>1, <1>2, Invariance, PTL DEF Spec, ImplementsAbi, Abi!Spec

\* The promise that EvtchnPoll relies on: NotLost is inductive as it stands.
LEMMA NotLostStep ==
  ASSUME Abi!NotLost, Abi!Next \/ UNCHANGED Abi!vars
  PROVE  Abi!NotLost'
<1>0. pending \ masked \subseteq Due \cup taken \cup unmasking  BY DEF Abi!NotLost, Due
<1>1. ASSUME pending' \ masked' \subseteq Due' \cup taken' \cup unmasking' PROVE Abi!NotLost'
  BY <1>1 DEF Abi!NotLost, Due
<1>2. ASSUME NEW c \in Port, Abi!Send(c) PROVE Abi!NotLost'
  <2>1. Due \cup (IF c \in masked \cup pending THEN {} ELSE {c}) \subseteq Due'  BY <1>2 DEF Abi!Send, Abi!DueAlso, Due
  <2> QED  BY <1>0, <1>1, <1>2, <2>1 DEF Abi!Send
<1>3. ASSUME NEW c \in Port, Abi!Mask(c) PROVE Abi!NotLost'
  <2>1. Due' \in {Due, Due \ {c}}  BY <1>3 DEF Abi!Mask, Due
  <2> QED  BY <1>0, <1>1, <1>3, <2>1 DEF Abi!Mask
<1>4. ASSUME NEW c \in Port, Abi!Unmask(c) PROVE Abi!NotLost'
  <2>1. Due \subseteq Due'  BY <1>4 DEF Abi!Unmask, Abi!DueAlso, Due
  <2> QED  BY <1>0, <1>1, <1>4, <2>1 DEF Abi!Unmask
<1>5. ASSUME NEW c \in Port, Abi!UnmaskTest(c) PROVE Abi!NotLost'
  <2>1. Due \cup (({c} \cap pending) \ masked') \subseteq Due'  BY <1>5 DEF Abi!UnmaskTest, Abi!DueAlso, Due
  <2> QED  BY <1>0, <1>1, <1>5, <2>1 DEF Abi!UnmaskTest
<1>6. ASSUME NEW c \in Port, Abi!UnmaskTake(c) PROVE Abi!NotLost'
  <2>1. Due' \in {Due, Due \ {c}}  BY <1>6 DEF Abi!UnmaskTake, Due
  <2> QED  BY <1>0, <1>1, <1>6, <2>1 DEF Abi!UnmaskTake
<1>7. ASSUME NEW c \in Port, Abi!Visit(c) PROVE Abi!NotLost'
  <2>1. Due' \in {Due, Due \ {c}}  BY <1>7 DEF Abi!Visit, Due
  <2> QED  BY <1>0, <1>1, <1>7, <2>1 DEF Abi!Visit
<1>8. ASSUME NEW c \in Port, Abi!Skip(c) PROVE Abi!NotLost'
  <2>1. Due' = Due \ {c}  BY <1>8 DEF Abi!Skip, Due
  <2> QED  BY <1>0, <1>1, <1>8, <2>1 DEF Abi!Skip
<1>9. ASSUME NEW c \in Port, Abi!Ack(c) PROVE Abi!NotLost'
  <2>1. Due' \in {Due, Due \ {c}}  BY <1>9 DEF Abi!Ack, Due
  <2> QED  BY <1>0, <1>1, <1>9, <2>1 DEF Abi!Ack
<1>10. CASE Abi!Reset  BY <1>1, <1>10 DEF Abi!Reset
<1>11. CASE UNCHANGED Abi!vars
  <2>1. Due' = Due  BY <1>11 DEF Abi!vars, Due
  <2> QED  BY <1>0, <1>1, <1>11, <2>1 DEF Abi!vars
<1> QED
  BY <1>2, <1>3, <1>4, <1>5, <1>6, <1>7, <1>8, <1>9, <1>10, <1>11 DEF Abi!Next

\* No event on an unmasked port is lost by evtchn_fifo.c: the port is linked or about
\* to be, the callback has it, or an unmask will find it.
THEOREM FifoNotLost == Spec => []Abi!NotLost
<1>1. Abi!Init => Abi!NotLost  BY DEF Abi!Init, Abi!NotLost
<1>2. Abi!NotLost /\ [Abi!Next]_(Abi!vars) => Abi!NotLost'  BY NotLostStep
<1> QED  BY <1>1, <1>2, FifoImplementsAbi, PTL DEF ImplementsAbi, Abi!Spec

=============================================================================
