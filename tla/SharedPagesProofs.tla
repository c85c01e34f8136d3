-------------------------- MODULE SharedPagesProofs ---------------------------
(* Proofs about the pages that the driver shares with the hypervisor, for  *)
(* every value of their constants: the two-level event bits and the clock  *)
(* of the shared info page, the vcpu_info areas, the hole for foreign      *)
(* mappings, the grant tables, and the balloon.                            *)
EXTENDS EvtchnTwoLevel, SharedInfo, Vcpu, Hole, Gnttab, Balloon, FiniteSetTheorems,
        WellFoundedInduction, TLAPS

-----------------------------------------------------------------------------
\* Every nonempty set of natural numbers has a least element.
LEMMA LeastNumber ==
  ASSUME NEW S \in SUBSET Nat, S # {}
  PROVE  \E x \in S : \A y \in S : x <= y
<1>1. \E x \in S : \A y \in S : <<y, x>> \notin OpToRel(<, Nat)
  BY NatLessThanWellFounded, WFMin
<1>2. PICK x \in S : \A y \in S : <<y, x>> \notin OpToRel(<, Nat)  BY <1>1
<1>3. \A y \in S : ~(y < x)  BY <1>2 DEF OpToRel
<1>4. \A y \in S : x <= y  BY <1>3
<1> QED  BY <1>4

-----------------------------------------------------------------------------
(* The two-level ABI: what the poll holds.                                 *)


\* What the poll holds of the two masks, by how far it has come.
PollInv ==
  /\ pc \in {"idle", "exchange", "scan", "mask", "event"}
  /\ pending \subseteq Port /\ PortMask \subseteq Port
  /\ pc \in {"idle", "exchange"} => SelectorMask = {}
  /\ pc \in {"idle", "exchange", "scan"} => PortMask = {}


\* PollEvent finds the lowest port of the word.
LEMMA FirstPort == ASSUME NEW S \in SUBSET Port, S # {} PROVE Min(S) \in S
<1>1. S \in SUBSET Nat  BY TwoLevelAssumption DEF Port
<1>2. \E x \in S : \A y \in S : x <= y  BY <1>1, LeastNumber
<1> QED  BY <1>2 DEF Min

LEMMA PollInvHolds == Spec => []PollInv
<1>1. Init => PollInv  BY DEF Init, PollInv
<1>2. PollInv /\ [Next]_vars => PollInv'
  <2> SUFFICES ASSUME PollInv, [Next]_vars PROVE PollInv'  OBVIOUS
  <2>1. ASSUME NEW p \in Port,
               \/ HvSend(p) \/ HvMark(p) \/ SharedInfoEvtchnAck(p) \/ SharedInfoEvtchnMask(p)
               \/ SharedInfoEvtchnUnmask(p) \/ UnmaskTest(p)
        PROVE  PollInv'
    <3>1. UNCHANGED <<pc, SelectorMask, PortMask>> /\ pending' \subseteq Port
      BY <2>1 DEF PollInv, HvSend, HvMark, SharedInfoEvtchnAck, SharedInfoEvtchnMask,
                  SharedInfoEvtchnUnmask, UnmaskTest, polling, shared
    <3> QED  BY <3>1 DEF PollInv
  <2>2. CASE Flush  BY <2>2 DEF PollInv, Flush, shared
  <2>3. CASE SharedInfoUpcallPending  BY <2>3 DEF PollInv, SharedInfoUpcallPending, shared
  <2>4. CASE PollExchange  BY <2>4 DEF PollInv, PollExchange, shared
  <2>5. CASE SharedInfoEvtchnPoll  BY <2>5 DEF PollInv, SharedInfoEvtchnPoll, shared, Word
  <2>6. CASE PollMask  BY <2>6 DEF PollInv, PollMask, shared
  <2>7. CASE PollEvent
    <3>1. CASE PortMask # {}
      <4>1. PortMask' \subseteq PortMask /\ UNCHANGED <<pc, SelectorMask, pending>> /\ pc = "event"
        BY <2>7, <3>1 DEF PollEvent, shared
      <4> QED  BY <4>1 DEF PollInv
    <3>2. CASE PortMask = {}
      <4>1. pc' = "scan" /\ UNCHANGED <<PortMask, pending>>
        BY <2>7, <3>2 DEF PollEvent, shared
      <4> QED  BY <3>2, <4>1 DEF PollInv
    <3> QED  BY <3>1, <3>2
  <2>8. CASE PollDone  BY <2>8 DEF PollInv, PollDone, shared
  <2>9. CASE UNCHANGED vars  BY <2>9 DEF PollInv, vars, shared, polling
  <2> QED
    BY <2>1, <2>2, <2>3, <2>4, <2>5, <2>6, <2>7, <2>8, <2>9 DEF Next, PollStep
<1> QED  BY <1>1, <1>2, PTL DEF Spec

-----------------------------------------------------------------------------
(* The abstract ABI.                                                       *)

\* The ports that a poll is bound to visit, as Abi has them.
Due == {p \in pending \ masked : p \in sending \cup PortMask \/ Selector(p) \in sel \cup ToVisit}

\* Whatever is due after a step may have become so in it.
LEMMA Also == Due' \in SUBSET (pending' \ masked')
BY DEF Due

\* Steps of the hypervisor and of the poll that only find more ports due: a raised
\* port that is sent again.
LEMMA MoreDue ==
  ASSUME pending \subseteq Port, UNCHANGED <<pending, masked, unmasking, taken>>, Due \subseteq Due'
  PROVE  Abi!Next \/ UNCHANGED Abi!vars
<1>1. CASE Due' = Due  BY <1>1 DEF Abi!vars, Due
<1>2. CASE Due' # Due
  <2>1. PICK c \in Due' \ Due : TRUE  BY <1>2
  <2>2. c \in pending /\ c \notin masked /\ c \in Port  BY <2>1 DEF Due
  <2>3. Due' = Due \cup (IF c \in masked \cup pending THEN {} ELSE {c}) \cup Due'  BY <2>2
  <2>4. Abi!DueAlso(IF c \in masked \cup pending THEN {} ELSE {c})
    BY <2>3, Also DEF Abi!DueAlso, Due
  <2>5. pending' = pending \cup {c}  BY <2>2
  <2>6. Abi!Send(c)  BY <2>4, <2>5 DEF Abi!Send
  <2> QED  BY <2>2, <2>6 DEF Abi!Next
<1> QED  BY <1>1, <1>2

LEMMA AbiStep ==
  ASSUME PollInv, [Next]_vars
  PROVE  Abi!Next \/ UNCHANGED Abi!vars
<1>0. pending \subseteq Port /\ PortMask \subseteq Port  BY DEF PollInv
<1>1. ASSUME NEW p \in Port, HvSend(p) PROVE Abi!Next
  <2>1. /\ pending' = pending \cup {p} /\ sending' = sending \cup {p} /\ p \notin pending
        /\ UNCHANGED <<masked, sel, pc, SelectorMask, PortMask, cursor, unmasking, taken>>
    BY <1>1 DEF HvSend, vcpu, polling, callers
  <2>2. Due \subseteq Due' /\ (p \notin masked => p \in Due')  BY <2>1 DEF Due, ToVisit
  <2>3. Due' = Due \cup (IF p \in masked \cup pending THEN {} ELSE {p}) \cup Due'  BY <2>2
  <2>4. Abi!DueAlso(IF p \in masked \cup pending THEN {} ELSE {p})
    BY <2>3, Also DEF Abi!DueAlso, Due
  <2>5. Abi!Send(p)  BY <2>1, <2>4 DEF Abi!Send
  <2> QED  BY <2>5 DEF Abi!Next
<1>2. ASSUME NEW p \in Port, HvMark(p) PROVE Abi!Next \/ UNCHANGED Abi!vars
  <2>1. /\ sending' = sending \ {p}
        /\ UNCHANGED <<pending, masked, pc, SelectorMask, PortMask, cursor, unmasking, taken>>
        /\ sel \subseteq sel' /\ (p \notin masked => Selector(p) \in sel')
    BY <1>2 DEF HvMark, SetSelector, shared, vcpu, polling, callers
  <2>2. Due \subseteq Due'  BY <2>1 DEF Due, ToVisit
  <2> QED  BY <1>0, <2>1, <2>2, MoreDue
<1>3. ASSUME NEW p \in Port, SharedInfoEvtchnAck(p) PROVE Abi!Next
  <2>1. /\ p \in taken /\ taken' = taken \ {p} /\ pending' = pending \ {p}
        /\ masked' \in {masked, masked \cup {p}}
        /\ UNCHANGED <<sel, sending, pc, SelectorMask, PortMask, cursor, unmasking>>
    BY <1>3 DEF SharedInfoEvtchnAck, vcpu, polling
  <2>2. Due' = Due \ {p}  BY <2>1 DEF Due, ToVisit
  <2>3. Abi!Ack(p)  BY <2>1, <2>2 DEF Abi!Ack, Due
  <2> QED  BY <2>3 DEF Abi!Next
<1>4. ASSUME NEW p \in Port, SharedInfoEvtchnMask(p) PROVE Abi!Next
  <2>1. /\ masked' = masked \cup {p}
        /\ UNCHANGED <<pending, sel, sending, pc, SelectorMask, PortMask, cursor, unmasking, taken>>
    BY <1>4 DEF SharedInfoEvtchnMask, vcpu, polling, callers
  <2>2. Due' = Due \ {p}  BY <2>1 DEF Due, ToVisit
  <2>3. Abi!Mask(p)  BY <2>1, <2>2 DEF Abi!Mask, Due
  <2> QED  BY <2>3 DEF Abi!Next
<1>5. ASSUME NEW p \in Port, SharedInfoEvtchnUnmask(p) PROVE Abi!Next
  <2>1. /\ masked' = masked \ {p} /\ unmasking' = unmasking \cup {p}
        /\ UNCHANGED <<pending, sel, sending, pc, SelectorMask, PortMask, cursor, taken>>
    BY <1>5 DEF SharedInfoEvtchnUnmask, vcpu, polling
  <2>2. Due \subseteq Due'  BY <2>1 DEF Due, ToVisit
  <2>3. Due' = Due \cup {} \cup Due'  BY <2>2
  <2>4. Abi!DueAlso({})  BY <2>3, Also DEF Abi!DueAlso, Due
  <2>5. Abi!Unmask(p)  BY <2>1, <2>4 DEF Abi!Unmask
  <2> QED  BY <2>5 DEF Abi!Next
<1>6. ASSUME NEW p \in Port, UnmaskTest(p) PROVE Abi!Next
  <2>1. /\ p \in unmasking /\ unmasking' = unmasking \ {p}
        /\ UNCHANGED <<sending, pc, SelectorMask, PortMask, cursor, taken>>
    BY <1>6 DEF UnmaskTest, polling
  <2>2. CASE p \notin pending /\ UNCHANGED <<shared, vcpu>>
    <3>1. UNCHANGED <<pending, masked, sel>>  BY <2>2 DEF shared, vcpu
    <3>2. Due' = Due  BY <2>1, <3>1 DEF Due, ToVisit
    <3>3. Due' = Due \cup (({p} \cap pending) \ masked') \cup Due'  BY <2>2, <3>2
    <3>4. Abi!DueAlso(({p} \cap pending) \ masked')  BY <3>3, Also DEF Abi!DueAlso, Due
    <3>5. Abi!UnmaskTest(p)  BY <2>1, <3>1, <3>4 DEF Abi!UnmaskTest
    <3> QED  BY <3>5 DEF Abi!Next
  <2>3. CASE p \in pending /\ masked' = masked \ {p} /\ SetSelector(p) /\ UNCHANGED pending
    <3>1. sel' = sel \cup {Selector(p)}  BY <2>3 DEF SetSelector
    <3>2. Due \subseteq Due' /\ p \in Due'  BY <2>1, <2>3, <3>1 DEF Due, ToVisit
    <3>3. Due' = Due \cup (({p} \cap pending) \ masked') \cup Due'  BY <3>2
    <3>4. Abi!DueAlso(({p} \cap pending) \ masked')  BY <3>3, Also DEF Abi!DueAlso, Due
    <3>5. Abi!UnmaskTest(p)  BY <2>1, <2>3, <3>4 DEF Abi!UnmaskTest
    <3> QED  BY <3>5 DEF Abi!Next
  <2>4. CASE /\ p \in pending /\ pending' = pending \ {p}
             /\ masked' \in {masked, masked \cup {p}} /\ UNCHANGED vcpu
    <3>1. sel' = sel  BY <2>4 DEF vcpu
    <3>2. Due' = Due \ {p}  BY <2>1, <2>4, <3>1 DEF Due, ToVisit
    <3>3. Abi!UnmaskTake(p)  BY <2>1, <2>4, <3>2 DEF Abi!UnmaskTake, Due
    <3> QED  BY <3>3 DEF Abi!Next
  <2> QED  BY <1>6, <2>2, <2>3, <2>4 DEF UnmaskTest
<1>7. ASSUME Flush \/ SharedInfoUpcallPending PROVE Abi!Next \/ UNCHANGED Abi!vars
  <2>1. /\ UNCHANGED <<pending, masked, sel, sending, SelectorMask, PortMask, cursor, unmasking, taken>>
        /\ pc = "idle" /\ pc' = "exchange"
    BY <1>7 DEF Flush, SharedInfoUpcallPending, shared, vcpu, callers
  <2>2. Due \subseteq Due'  BY <2>1 DEF Due, ToVisit
  <2> QED  BY <1>0, <2>1, <2>2, MoreDue
<1>8. ASSUME PollExchange PROVE Abi!Next \/ UNCHANGED Abi!vars
  <2>1. /\ UNCHANGED <<pending, masked, sending, PortMask, cursor, unmasking, taken>>
        /\ pc = "exchange" /\ pc' = "scan" /\ SelectorMask' = sel /\ sel' = {}
    BY <1>8 DEF PollExchange, shared, callers
  <2>2. SelectorMask = {}  BY <2>1 DEF PollInv
  <2>3. Due \subseteq Due'  BY <2>1, <2>2 DEF Due, ToVisit
  <2> QED  BY <1>0, <2>1, <2>3, MoreDue
<1>9. ASSUME SharedInfoEvtchnPoll PROVE Abi!Next \/ UNCHANGED Abi!vars
  <2>1. /\ UNCHANGED <<pending, masked, sel, sending, SelectorMask, unmasking, taken>>
        /\ pc = "scan"
        /\ IF cursor \in SelectorMask
           THEN PortMask' = pending \cap Word(cursor) /\ pc' = "mask" /\ cursor' = cursor
           ELSE UNCHANGED <<PortMask, pc>>
    BY <1>9 DEF SharedInfoEvtchnPoll, shared, vcpu, callers
  <2>2. PortMask = {} /\ ToVisit = SelectorMask  BY <2>1 DEF PollInv, ToVisit
  <2>3. Due \subseteq Due'
    <3>1. CASE cursor \in SelectorMask
      <4>1. ToVisit' = SelectorMask \ {cursor}  BY <2>1, <3>1 DEF ToVisit
      <4>2. \A p \in pending : Selector(p) = cursor => p \in PortMask'
        BY <1>0, <2>1, <3>1 DEF Word
      <4> QED  BY <2>1, <2>2, <4>1, <4>2 DEF Due
    <3>2. CASE cursor \notin SelectorMask
      <4>1. ToVisit' = SelectorMask /\ PortMask' = PortMask  BY <2>1, <3>2 DEF ToVisit
      <4> QED  BY <2>1, <2>2, <4>1 DEF Due
    <3> QED  BY <3>1, <3>2
  <2> QED  BY <1>0, <2>1, <2>3, MoreDue
<1>10. ASSUME PollMask PROVE Abi!Next \/ UNCHANGED Abi!vars
  <2>1. /\ UNCHANGED <<pending, masked, sel, sending, SelectorMask, cursor, unmasking, taken>>
        /\ pc = "mask" /\ pc' = "event" /\ PortMask' = PortMask \ masked
    BY <1>10 DEF PollMask, shared, vcpu, callers
  <2>2. Due \subseteq Due'  BY <2>1 DEF Due, ToVisit
  <2> QED  BY <1>0, <2>1, <2>2, MoreDue
<1>11. ASSUME PollEvent PROVE Abi!Next \/ UNCHANGED Abi!vars
  <2>1. UNCHANGED <<pending, masked, sel, sending, unmasking>> /\ pc = "event"
    BY <1>11 DEF PollEvent, shared, vcpu
  <2>2. CASE PortMask # {}
    <3>1. Min(PortMask) \in PortMask  BY <1>0, <2>2, FirstPort
    <3>2. PICK p \in Port : p = Min(PortMask)  BY <1>0, <3>1
    <3>3. /\ taken' = taken \cup {p} /\ PortMask' = PortMask \ {p}
          /\ UNCHANGED <<pc, SelectorMask, cursor>>
      BY <1>11, <2>2, <3>2 DEF PollEvent
    <3>4. Due' \in {Due, Due \ {p}}  BY <2>1, <3>3 DEF Due, ToVisit
    <3>5. Abi!Visit(p)  BY <2>1, <3>3, <3>4 DEF Abi!Visit, Due
    <3> QED  BY <3>5 DEF Abi!Next
  <2>3. CASE PortMask = {}
    <3>1. SelectorMask' = SelectorMask \ {cursor} /\ pc' = "scan" /\ UNCHANGED <<PortMask, taken>>
      BY <1>11, <2>3 DEF PollEvent
    <3>2. Due \subseteq Due'  BY <2>1, <3>1 DEF Due, ToVisit
    <3> QED  BY <1>0, <2>1, <3>1, <3>2, MoreDue
  <2> QED  BY <2>2, <2>3
<1>12. ASSUME PollDone PROVE Abi!Next \/ UNCHANGED Abi!vars
  <2>1. /\ UNCHANGED <<pending, masked, sel, sending, SelectorMask, PortMask, unmasking, taken>>
        /\ pc = "scan" /\ pc' = "idle"
    BY <1>12 DEF PollDone, shared, vcpu, callers
  <2>2. Due \subseteq Due'  BY <2>1 DEF Due, ToVisit
  <2> QED  BY <1>0, <2>1, <2>2, MoreDue
<1>13. CASE UNCHANGED vars
  <2>1. UNCHANGED <<pending, masked, sel, sending, pc, SelectorMask, PortMask, cursor, unmasking, taken>>
    BY <1>13 DEF vars, shared, vcpu, polling, callers
  <2>2. Due \subseteq Due'  BY <2>1 DEF Due, ToVisit
  <2> QED  BY <1>0, <2>1, <2>2, MoreDue
<1> QED
  BY <1>1, <1>2, <1>3, <1>4, <1>5, <1>6, <1>7, <1>8, <1>9, <1>10, <1>11, <1>12, <1>13
  DEF Next, PollStep

\* The two-level ABI implements EvtchnAbi: an event whose port bit, selector bit
\* and mask are read one after another by the poll is visited nonetheless.
THEOREM TwoLevelImplementsAbi == Spec => ImplementsAbi
<1>1. Init => Abi!Init  BY DEF Init, Abi!Init
<1>2. PollInv /\ [Next]_vars => Abi!Next \/ UNCHANGED Abi!vars  BY AbiStep
<1> QED  BY <1>1, <1>2, PollInvHolds, PTL DEF Spec, ImplementsAbi, Abi!Spec

\* The promise that EvtchnPoll relies on: NotLost is inductive as it stands.
LEMMA NotLostStep ==
  ASSUME Abi!NotLost, Abi!Next \/ UNCHANGED Abi!vars
  PROVE  Abi!NotLost'
<1>0. pending \ masked \subseteq Due \cup taken \cup unmasking  BY DEF Abi!NotLost, Due
<1>1. ASSUME pending' \ masked' \subseteq Due' \cup taken' \cup unmasking' PROVE Abi!NotLost'
  BY <1>1 DEF Abi!NotLost, Due
<1>2. ASSUME NEW c \in Port, Abi!Send(c) PROVE Abi!NotLost'
  <2>1. Due \cup (IF c \in masked \cup pending THEN {} ELSE {c}) \subseteq Due'  BY <1>2 DEF Abi!Send, Abi!DueAlso, Due
  <2> QED  BY <1>0, <1>1, <1>2, <2>1 DEF Abi!Send
<1>3. ASSUME NEW c \in Port, Abi!Mask(c) PROVE Abi!NotLost'
  <2>1. Due' \in {Due, Due \ {c}}  BY <1>3 DEF Abi!Mask, Due
  <2> QED  BY <1>0, <1>1, <1>3, <2>1 DEF Abi!Mask
<1>4. ASSUME NEW c \in Port, Abi!Unmask(c) PROVE Abi!NotLost'
  <2>1. Due \subseteq Due'  BY <1>4 DEF Abi!Unmask, Abi!DueAlso, Due
  <2> QED  BY <1>0, <1>1, <1>4, <2>1 DEF Abi!Unmask
<1>5. ASSUME NEW c \in Port, Abi!UnmaskTest(c) PROVE Abi!NotLost'
  <2>1. Due \cup (({c} \cap pending) \ masked') \subseteq Due'  BY <1>5 DEF Abi!UnmaskTest, Abi!DueAlso, Due
  <2> QED  BY <1>0, <1>1, <1>5, <2>1 DEF Abi!UnmaskTest
<1>6. ASSUME NEW c \in Port, Abi!UnmaskTake(c) PROVE Abi!NotLost'
  <2>1. Due' \in {Due, Due \ {c}}  BY <1>6 DEF Abi!UnmaskTake, Due
  <2> QED  BY <1>0, <1>1, <1>6, <2>1 DEF Abi!UnmaskTake
<1>7. ASSUME NEW c \in Port, Abi!Visit(c) PROVE Abi!NotLost'
  <2>1. Due' \in {Due, Due \ {c}}  BY <1>7 DEF Abi!Visit, Due
  <2> QED  BY <1>0, <1>1, <1>7, <2>1 DEF Abi!Visit
<1>8. ASSUME NEW c \in Port, Abi!Skip(c) PROVE Abi!NotLost'
  <2>1. Due' = Due \ {c}  BY <1>8 DEF Abi!Skip, Due
  <2> QED  BY <1>0, <1>1, <1>8, <2>1 DEF Abi!Skip
<1>9. ASSUME NEW c \in Port, Abi!Ack(c) PROVE Abi!NotLost'
  <2>1. Due' \in {Due, Due \ {c}}  BY <1>9 DEF Abi!Ack, Due
  <2> QED  BY <1>0, <1>1, <1>9, <2>1 DEF Abi!Ack
<1>10. CASE Abi!Reset  BY <1>1, <1>10 DEF Abi!Reset
<1>11. CASE UNCHANGED Abi!vars
  <2>1. Due' = Due  BY <1>11 DEF Abi!vars, Due
  <2> QED  BY <1>0, <1>1, <1>11, <2>1 DEF Abi!vars
<1> QED
  BY <1>2, <1>3, <1>4, <1>5, <1>6, <1>7, <1>8, <1>9, <1>10, <1>11 DEF Abi!Next

\* No event on an unmasked port is lost by the two-level ABI: its selector bit leads a
\* poll to it, the callback has it, or an unmask will find it.
THEOREM TwoLevelNotLost == Spec => []Abi!NotLost
<1>1. Abi!Init => Abi!NotLost  BY DEF Abi!Init, Abi!NotLost
<1>2. Abi!NotLost /\ [Abi!Next]_(Abi!vars) => Abi!NotLost'  BY NotLostStep
<1> QED  BY <1>1, <1>2, TwoLevelImplementsAbi, PTL DEF ImplementsAbi, Abi!Spec

-----------------------------------------------------------------------------
(* The time of the shared info page.                                       *)

\* Where SharedInfoGetTime is.
Points == {"idle", "wc_version", "version", "wc_sec", "wc_nsec", "system_time", "tsc_timestamp",
           "check", "check time", "done"}
Even(n) == n % 2 = 0

SharedInfoTypeOK ==
  /\ wall \in [version : Nat, sec : Nat, nsec : Nat]
  /\ time \in [version : Nat, system : Nat, stamp : Nat]
  /\ clock \in [pc : Points, WcVersion : Nat, TimeVersion : Nat, Seconds : Nat, NanoSeconds : Nat,
                SystemTime : Nat, Timestamp : Nat]

\* Even versions: the fields belong to the version. Odd ones: each is old or
\* new.
Fields ==
  LET w == wall.version \div 2  t == time.version \div 2 IN
  /\ Even(wall.version) => wall.sec = w /\ wall.nsec = w
  /\ ~Even(wall.version) => wall.sec \in {w, w + 1} /\ wall.nsec \in {w, w + 1}
  /\ Even(time.version) => time.system = t /\ time.stamp = t
  /\ ~Even(time.version) => time.system \in {t, t + 1} /\ time.stamp \in {t, t + 1}

\* What was in force together while the clock was read.
JointInv == clock.pc # "idle" => InForce \subseteq joint

\* What was read of the boot time belongs to WcVersion if that is still in force ...
WallRead ==
  LET point == clock.pc  w == clock.WcVersion IN
  point \notin {"idle", "wc_version", "check time", "done"} =>
    /\ w <= wall.version
    /\ w = wall.version /\ Even(w) =>
         /\ point \notin {"version", "wc_sec"} => clock.Seconds = w \div 2
         /\ point \notin {"version", "wc_sec", "wc_nsec"} => clock.NanoSeconds = w \div 2

\* ... and of the time since boot to TimeVersion;
TimeRead ==
  LET point == clock.pc  t == clock.TimeVersion IN
  point \notin {"idle", "wc_version", "version", "done"} =>
    /\ t <= time.version
    /\ t = time.version /\ Even(t) =>
         /\ point \notin {"wc_sec", "wc_nsec", "system_time"} => clock.SystemTime = t \div 2
         /\ point \notin {"wc_sec", "wc_nsec", "system_time", "tsc_timestamp"} => clock.Timestamp = t \div 2

\* the first comparison of the loop's condition settles the boot time.
WallSettled ==
  LET w == clock.WcVersion  t == clock.TimeVersion IN
  clock.pc = "check time" /\ Even(w) =>
    /\ clock.Seconds = w \div 2 /\ clock.NanoSeconds = w \div 2
    /\ t = time.version /\ Even(t) => <<w \div 2, t \div 2>> \in joint

\* What SharedInfoGetTime knows.
ReadInv == JointInv /\ WallRead /\ TimeRead /\ WallSettled
ClockInv == SharedInfoTypeOK /\ Fields /\ ReadInv /\ TimeConsistent

\* Versions as numbers of updates.
LEMMA Parity ==
  ASSUME NEW n \in Nat
  PROVE  /\ n \div 2 \in Nat
         /\ Even(n) => ~Even(n + 1) /\ (n + 1) \div 2 = n \div 2
         /\ ~Even(n) => Even(n + 1) /\ (n + 1) \div 2 = n \div 2 + 1
BY DEF Even

\* The kinds of step of an update of the boot time: begin, the fields in
\* order, and end.
LEMMA WallStep ==
  ASSUME SharedInfoTypeOK, UpdateWall
  PROVE  LET v == wall.version  n == wall.version \div 2 + 1 IN
         /\ wall' \in [version : Nat, sec : Nat, nsec : Nat]
         /\ \/ /\ Even(v) \/ (wall.sec = n /\ wall.nsec = n)
               /\ wall'.version = v + 1 /\ wall'.sec = wall.sec /\ wall'.nsec = wall.nsec
            \/ /\ ~Even(v) /\ wall.sec # n
               /\ wall'.version = v /\ wall'.sec = n /\ wall'.nsec = wall.nsec
            \/ /\ ~Even(v) /\ wall.sec = n /\ wall.nsec # n
               /\ wall'.version = v /\ wall'.sec = n /\ wall'.nsec = n
<1> DEFINE n == wall.version \div 2 + 1
<1>1. n \in Nat  BY Parity DEF SharedInfoTypeOK
<1>2. CASE wall' = [wall EXCEPT !.version = @ + 1] /\ (Even(wall.version) \/ (wall.sec = n /\ wall.nsec = n))
  BY <1>2 DEF SharedInfoTypeOK
<1>3. CASE wall' = [wall EXCEPT !.sec = n] /\ ~Even(wall.version) /\ wall.sec # n
  BY <1>1, <1>3 DEF SharedInfoTypeOK
<1>4. CASE wall' = [wall EXCEPT !.nsec = n] /\ ~Even(wall.version) /\ wall.sec = n /\ wall.nsec # n
  BY <1>1, <1>4 DEF SharedInfoTypeOK
<1>5. \/ wall' = [wall EXCEPT !.version = @ + 1] /\ (Even(wall.version) \/ (wall.sec = n /\ wall.nsec = n))
      \/ wall' = [wall EXCEPT !.sec = n] /\ ~Even(wall.version) /\ wall.sec # n
      \/ wall' = [wall EXCEPT !.nsec = n] /\ ~Even(wall.version) /\ wall.sec = n /\ wall.nsec # n
  BY DEF UpdateWall, Even
<1> QED  BY <1>2, <1>3, <1>4, <1>5

\* Likewise for the time since boot.
LEMMA TimeStep ==
  ASSUME SharedInfoTypeOK, UpdateTime
  PROVE  LET v == time.version  n == time.version \div 2 + 1 IN
         /\ time' \in [version : Nat, system : Nat, stamp : Nat]
         /\ \/ /\ Even(v) \/ (time.stamp = n /\ time.system = n)
               /\ time'.version = v + 1 /\ time'.stamp = time.stamp /\ time'.system = time.system
            \/ /\ ~Even(v) /\ time.stamp # n
               /\ time'.version = v /\ time'.stamp = n /\ time'.system = time.system
            \/ /\ ~Even(v) /\ time.stamp = n /\ time.system # n
               /\ time'.version = v /\ time'.stamp = n /\ time'.system = n
<1> DEFINE n == time.version \div 2 + 1
<1>1. n \in Nat  BY Parity DEF SharedInfoTypeOK
<1>2. CASE time' = [time EXCEPT !.version = @ + 1] /\ (Even(time.version) \/ (time.stamp = n /\ time.system = n))
  BY <1>2 DEF SharedInfoTypeOK
<1>3. CASE time' = [time EXCEPT !.stamp = n] /\ ~Even(time.version) /\ time.stamp # n
  BY <1>1, <1>3 DEF SharedInfoTypeOK
<1>4. CASE time' = [time EXCEPT !.system = n] /\ ~Even(time.version) /\ time.stamp = n /\ time.system # n
  BY <1>1, <1>4 DEF SharedInfoTypeOK
<1>5. \/ time' = [time EXCEPT !.version = @ + 1] /\ (Even(time.version) \/ (time.stamp = n /\ time.system = n))
      \/ time' = [time EXCEPT !.stamp = n] /\ ~Even(time.version) /\ time.stamp # n
      \/ time' = [time EXCEPT !.system = n] /\ ~Even(time.version) /\ time.stamp = n /\ time.system # n
  BY DEF UpdateTime, Even
<1> QED  BY <1>2, <1>3, <1>4, <1>5

\* A version once passed does not come back.
LEMMA Behind ==
  \A a, b, c \in Nat : c <= a /\ a <= b /\ a # b => c < b /\ c <= b /\ c # b
OBVIOUS

\* Every step of the hypervisor and of SharedInfoGetTime keeps the invariant.
LEMMA ClockStep == ASSUME ClockInv, [SharedInfoNext]_sharedVars PROVE ClockInv'
<1> USE DEF ClockInv
<1>1. CASE UpdateWall
  <2>1. /\ SharedInfoTypeOK /\ UNCHANGED <<time, clock>>
        /\ joint' = IF clock.pc = "idle" THEN joint ELSE joint \cup InForce'
    BY <1>1 DEF UpdateWall
  <2>2. SharedInfoTypeOK'  BY <1>1, <2>1, WallStep DEF SharedInfoTypeOK
  <2>3. Fields'
    <3>1. wall.version \in Nat  BY DEF SharedInfoTypeOK
    <3> QED BY <1>1, <2>1, <3>1, WallStep, Parity DEF Fields
  <2>4. ReadInv'
    <3>1. wall.version \in Nat /\ wall'.version \in Nat /\ wall.version <= wall'.version
      BY <1>1, <2>1, <2>2, WallStep DEF SharedInfoTypeOK
    <3>2. Even(wall.version) => wall'.version # wall.version
      BY <1>1, <2>1, WallStep DEF SharedInfoTypeOK
    <3>3. clock.WcVersion \in Nat /\ clock.TimeVersion \in Nat  BY DEF SharedInfoTypeOK
    <3>4. clock.pc # "idle" => InForce' \subseteq joint'  BY <2>1
    <3>5. joint \subseteq joint'  BY <2>1
    <3>6. JointInv'  BY <2>1, <3>4 DEF JointInv
    <3>7. WallRead'
      <4>1. clock' = clock  BY <2>1
      <4>2. CASE wall'.version = wall.version  BY <3>2, <4>1, <4>2 DEF ReadInv, WallRead
      <4>3. CASE wall'.version # wall.version
        <5>1. SUFFICES ASSUME clock.pc \notin {"idle", "wc_version", "check time", "done"}
                       PROVE  clock.WcVersion <= wall'.version /\ clock.WcVersion # wall'.version
          BY <4>1 DEF WallRead
        <5>2. clock.WcVersion <= wall.version  BY <5>1 DEF ReadInv, WallRead
        <5> QED  BY <3>1, <3>3, <4>3, <5>2, Behind
      <4> QED  BY <4>2, <4>3
    <3>8. TimeRead'  BY <2>1, <3>1, <3>2, <3>3 DEF ReadInv, TimeRead
    <3>9. WallSettled'  BY <2>1, <3>1, <3>2, <3>3, <3>5 DEF ReadInv, WallSettled, TimeRead
    <3> QED  BY <3>6, <3>7, <3>8, <3>9 DEF ReadInv
  <2>5. TimeConsistent'  BY <2>1 DEF TimeConsistent
  <2> QED  BY <2>2, <2>3, <2>4, <2>5
<1>2. CASE UpdateTime
  <2>1. /\ SharedInfoTypeOK /\ UNCHANGED <<wall, clock>>
        /\ joint' = IF clock.pc = "idle" THEN joint ELSE joint \cup InForce'
    BY <1>2 DEF UpdateTime
  <2>2. SharedInfoTypeOK'  BY <1>2, <2>1, TimeStep DEF SharedInfoTypeOK
  <2>3. Fields'
    <3>1. time.version \in Nat  BY DEF SharedInfoTypeOK
    <3> QED BY <1>2, <2>1, <3>1, TimeStep, Parity DEF Fields
  <2>4. ReadInv'
    <3>1. time.version \in Nat /\ time'.version \in Nat /\ time.version <= time'.version
      BY <1>2, <2>1, <2>2, TimeStep DEF SharedInfoTypeOK
    <3>2. Even(time.version) => time'.version # time.version
      BY <1>2, <2>1, TimeStep DEF SharedInfoTypeOK
    <3>3. clock.WcVersion \in Nat /\ clock.TimeVersion \in Nat  BY DEF SharedInfoTypeOK
    <3>4. clock.pc # "idle" => InForce' \subseteq joint'  BY <2>1
    <3>5. joint \subseteq joint'  BY <2>1
    <3>6. JointInv'  BY <2>1, <3>4 DEF JointInv
    <3>7. WallRead'  BY <2>1, <3>1, <3>2, <3>3 DEF ReadInv, WallRead
    <3>8. TimeRead'  BY <2>1, <3>1, <3>2, <3>3 DEF ReadInv, TimeRead
    <3>9. WallSettled'
      <4>1. clock' = clock  BY <2>1
      <4>2. CASE time'.version = time.version  BY <3>5, <4>1, <4>2 DEF ReadInv, WallSettled
      <4>3. CASE time'.version # time.version
        <5>1. SUFFICES ASSUME clock.pc = "check time" PROVE  clock.TimeVersion # time'.version
          BY <4>1 DEF ReadInv, WallSettled
        <5>2. clock.TimeVersion <= time.version  BY <5>1 DEF ReadInv, TimeRead
        <5> QED  BY <3>1, <3>3, <4>3, <5>2, Behind
      <4> QED  BY <4>2, <4>3
    <3> QED  BY <3>6, <3>7, <3>8, <3>9 DEF ReadInv
  <2>5. TimeConsistent'  BY <2>1 DEF TimeConsistent
  <2> QED  BY <2>2, <2>3, <2>4, <2>5
<1>3. CASE SharedInfoGetTime
  BY <1>3 DEF SharedInfoTypeOK, Points, SharedInfoGetTime, Asleep, Fields, ReadInv, JointInv,
     WallRead, TimeRead, WallSettled, InForce, TimeConsistent
<1>4. CASE ReadTime
  <2>1. SharedInfoTypeOK'  BY <1>4, ZenonT(60) DEF ReadTime, Read, SharedInfoTypeOK, Points
  <2>2. Fields'  BY <1>4 DEF ReadTime, Read, Fields
  <2>3. ReadInv'
    <3>0. InForce' = InForce /\ UNCHANGED <<wall, time, joint>>
      BY <1>4 DEF ReadTime, Read, InForce
    <3> USE <3>0 DEF SharedInfoTypeOK, Read, ReadInv, JointInv, WallRead, TimeRead, WallSettled, Fields
    <3>1. CASE Read("wc_version", "WcVersion", wall.version, "version")
      <4>1. clock'.pc = "version" /\ clock'.WcVersion = wall.version /\ clock.pc = "wc_version"  BY <3>1
      <4>2. wall.version \in Nat OBVIOUS
      <4> QED BY <4>1, <4>2
    <3>2. CASE Read("version", "TimeVersion", time.version, "wc_sec")
      <4>1. clock'.pc = "wc_sec" /\ clock'.TimeVersion = time.version /\ clock.pc = "version"
            /\ clock'.WcVersion = clock.WcVersion BY <3>2
      <4>2. time.version \in Nat OBVIOUS
      <4> QED BY <4>1, <4>2
    <3>3. CASE Read("wc_sec", "Seconds", wall.sec, "wc_nsec")  BY <3>3
    <3>4. CASE Read("wc_nsec", "NanoSeconds", wall.nsec, "system_time")  BY <3>4
    <3>5. CASE Read("system_time", "SystemTime", time.system, "tsc_timestamp")  BY <3>5
    <3>6. CASE Read("tsc_timestamp", "Timestamp", time.stamp, "check")  BY <3>6
    <3> QED  BY <1>4, <3>1, <3>2, <3>3, <3>4, <3>5, <3>6 DEF ReadTime
  <2>4. TimeConsistent'  BY <1>4 DEF ReadTime, Read, TimeConsistent, SharedInfoTypeOK
  <2> QED  BY <2>1, <2>2, <2>3, <2>4
<1>5. CASE CheckVersions
  <2>1. SharedInfoTypeOK'  BY <1>5 DEF CheckVersions, SharedInfoTypeOK, Points
  <2>2. Fields'  BY <1>5 DEF CheckVersions, Fields
  <2>3. ReadInv'
    BY <1>5 DEF CheckVersions, ReadInv, JointInv, WallRead, TimeRead, WallSettled, Fields,
       InForce, Even, SharedInfoTypeOK, Points
  <2>4. TimeConsistent'
    <3>1. CASE clock'.pc = "done"
      <4>1. clock.TimeVersion \in Nat /\ clock.WcVersion \in Nat
        BY DEF SharedInfoTypeOK
      <4>2. clock.pc = "check time" /\ Even(clock.WcVersion) /\ Even(clock.TimeVersion)
              /\ time.version = clock.TimeVersion /\ UNCHANGED joint /\ clock' = [clock EXCEPT !.pc = "done"]
        <5>1. \A n \in Nat : n % 2 = 1 <=> ~Even(n)  BY DEF Even
        <5> QED  BY <1>5, <3>1, <4>1, <5>1 DEF CheckVersions, SharedInfoTypeOK
      <4> QED  BY <4>2 DEF ReadInv, WallSettled, TimeRead, TimeConsistent, SharedInfoTypeOK
    <3> QED  BY <3>1 DEF TimeConsistent
  <2> QED  BY <2>1, <2>2, <2>3, <2>4
<1>6. CASE UNCHANGED sharedVars
  BY <1>6, ZenonT(60) DEF sharedVars, SharedInfoTypeOK, Fields, ReadInv, JointInv, WallRead, TimeRead,
     WallSettled, InForce, TimeConsistent
<1> QED  BY <1>1, <1>2, <1>3, <1>4, <1>5, <1>6 DEF SharedInfoNext

\* Whatever SharedInfoGetTime returns was in force at one moment while it
\* read: its loop over two version counters, for any number of updates and of
\* rounds.
THEOREM TimesBelongTogether == SharedInfoSpec => []TimeConsistent
<1>1. SharedInfoInit => ClockInv
  BY DEF SharedInfoInit, Asleep, ClockInv, SharedInfoTypeOK, Points, Fields, ReadInv, JointInv,
     WallRead, TimeRead, WallSettled, TimeConsistent, Even
<1>2. ClockInv /\ [SharedInfoNext]_sharedVars => ClockInv'  BY ClockStep
<1>3. ClockInv => TimeConsistent  BY DEF ClockInv
<1> QED  BY <1>1, <1>2, <1>3, PTL DEF SharedInfoSpec

-----------------------------------------------------------------------------
(* The vcpu_info areas.                                                    *)

\* The last page has a name only with all the others; the flag of a processor in that page
\* is set exactly when Xen has its area, which is in the first one.
VcpuIInv ==
  /\ key \in [Index -> PhysicalPage \cup {Nowhere}]
  /\ key[VcpuPages] # Nowhere => Found
  /\ Found => \A i \in Index : key[i] \in allocated
  /\ mdl # << >> => mdl = key /\ Found
  /\ processor \in [VcpuCpu -> [Initialized : BOOLEAN, Registered : BOOLEAN]]
  /\ mdl = << >> => processor = [c \in VcpuCpu |-> Offline]
  /\ \A c \in VcpuCpu : processor[c].Registered => processor[c].Initialized /\ xen[c] = key[1]
  /\ xen \in [VcpuCpu -> {Nowhere, key[1]}]
  /\ IF Found THEN \A c \in VcpuCpu : <<key[VcpuPages], c>> \in flags <=> xen[c] # Nowhere
     ELSE \A c \in VcpuCpu : xen[c] = Nowhere
  /\ ~refused

LEMMA Pages == 1 \in Index /\ VcpuPages \in Index
BY VcpuAssumption DEF Index

LEMMA VcpuStart == ASSUME VcpuInit PROVE VcpuIInv
<1>1. ~Found  BY Pages DEF VcpuInit, Found
<1>2. key \in [Index -> PhysicalPage \cup {Nowhere}] /\ key[VcpuPages] = Nowhere
  BY Pages DEF VcpuInit
<1>3. /\ processor \in [VcpuCpu -> [Initialized : BOOLEAN, Registered : BOOLEAN]]
      /\ processor = [c \in VcpuCpu |-> Offline]
      /\ \A c \in VcpuCpu : ~processor[c].Registered
  BY DEF VcpuInit, Offline
<1> QED  BY <1>1, <1>2, <1>3 DEF VcpuInit, VcpuIInv

\* Pages that are found again keep their areas and flags.
LEMMA GetStep == ASSUME VcpuIInv, GetPfnArray PROVE VcpuIInv'
BY DEF VcpuIInv, GetPfnArray, Loadable, Found

\* The pages of a name that is only partly there belong to nobody, and no processor is registered
\* in them; new pages have no flags.
LEMMA AllocateStep == ASSUME VcpuIInv, AllocatePfnArray PROVE VcpuIInv'
<1>1. /\ mdl = << >> /\ ~Found /\ UNCHANGED <<processor, xen, refused>>
      /\ \A c \in VcpuCpu : xen[c] = Nowhere
      /\ key[VcpuPages] = Nowhere
  BY DEF AllocatePfnArray, Loadable, VcpuIInv
<1>2. PICK pages \in Fresh, written \in 0 .. VcpuPages, undeleted \in SUBSET Index, mapped \in BOOLEAN :
        /\ key' = SetPfnArray(pages, written, undeleted)
        /\ flags' = {f \in flags : \A i \in Index : f[1] # pages[i]}
        /\ allocated' = IF written = VcpuPages THEN allocated \cup {pages[i] : i \in Index} ELSE allocated
        /\ mdl' = IF written = VcpuPages /\ mapped THEN pages ELSE << >>
  BY DEF AllocatePfnArray
<1>3. pages \in [Index -> PhysicalPage]  BY DEF Fresh
<1>4. key' \in [Index -> PhysicalPage \cup {Nowhere}]  BY <1>2, <1>3 DEF SetPfnArray, VcpuIInv
<1>5. xen' \in [VcpuCpu -> {Nowhere, key'[1]}] /\ \A c \in VcpuCpu : xen'[c] = Nowhere
  BY <1>1 DEF VcpuIInv
<1>6. /\ processor' \in [VcpuCpu -> [Initialized : BOOLEAN, Registered : BOOLEAN]]
      /\ processor' = [c \in VcpuCpu |-> Offline] /\ \A c \in VcpuCpu : ~processor'[c].Registered
  BY <1>1 DEF VcpuIInv, Offline
<1>7. CASE written = VcpuPages
  <2>1. key' = pages
    <3>1. \A i \in Index : ~(i > written)  BY <1>7, VcpuAssumption DEF Index
    <3> QED  BY <1>2, <1>3, <1>7, <3>1 DEF SetPfnArray
  <2>2. Found'  BY <1>3, <2>1, VcpuAssumption DEF Found
  <2>3. \A i \in Index : key'[i] \in allocated'  BY <1>2, <1>7, <2>1
  <2>4. \A c \in VcpuCpu : <<key'[VcpuPages], c>> \notin flags'  BY <1>2, <2>1, Pages
  <2>5. mdl' # << >> => mdl' = key'  BY <1>2, <2>1
  <2> QED  BY <1>1, <1>4, <1>5, <1>6, <2>2, <2>3, <2>4, <2>5 DEF VcpuIInv
<1>8. CASE written # VcpuPages
  <2>1. VcpuPages > written  BY <1>8, VcpuAssumption
  <2>2. key'[VcpuPages] = Nowhere  BY <1>1, <1>2, <2>1, Pages DEF SetPfnArray
  <2>3. ~Found' /\ mdl' = << >>  BY <1>2, <1>8, <2>2, Pages DEF Found
  <2> QED  BY <1>1, <1>4, <1>5, <1>6, <2>2, <2>3 DEF VcpuIInv
<1> QED  BY <1>7, <1>8

\* SystemProcessorDpc: the flag tells whether Xen has the area, so that it is asked only once.
LEMMA DpcStep == ASSUME VcpuIInv, NEW c \in VcpuCpu, SystemProcessorDpc(c) PROVE VcpuIInv'
<1>1. /\ mdl # << >> /\ UNCHANGED <<key, allocated, mdl>>
      /\ mdl = key /\ Found /\ Flag(c) = <<key[VcpuPages], c>> /\ Area = key[1]
      /\ Flag(c) \in flags <=> xen[c] # Nowhere
  BY DEF SystemProcessorDpc, VcpuIInv, Flag, Area
<1>2. PICK succeeds \in BOOLEAN :
        LET needed == Flag(c) \notin flags
            done == ~needed \/ (succeeds /\ xen[c] = Nowhere)
        IN /\ processor' = [processor EXCEPT ![c] = [Initialized |-> TRUE, Registered |-> done]]
           /\ xen' = IF needed /\ done THEN [xen EXCEPT ![c] = Area] ELSE xen
           /\ flags' = IF done THEN flags \cup {Flag(c)} ELSE flags
           /\ refused' = (refused \/ (needed /\ xen[c] # Nowhere))
  BY DEF SystemProcessorDpc
<1> DEFINE needed == Flag(c) \notin flags
           done == ~needed \/ (succeeds /\ xen[c] = Nowhere)
<1>3. done \in BOOLEAN /\ (done /\ needed => xen'[c] = Area /\ xen' = [xen EXCEPT ![c] = Area])
      /\ (~(done /\ needed) => xen' = xen)
  BY <1>2 DEF VcpuIInv
<1>4. processor' \in [VcpuCpu -> [Initialized : BOOLEAN, Registered : BOOLEAN]]
  BY <1>2, <1>3 DEF VcpuIInv
<1>5. xen' \in [VcpuCpu -> {Nowhere, key'[1]}]  BY <1>1, <1>3 DEF VcpuIInv
<1>6. key[1] # Nowhere  BY <1>1, Pages DEF Found
<1>7. xen'[c] # Nowhere <=> done
  BY <1>1, <1>2, <1>3, <1>6 DEF VcpuIInv
<1>8. \A d \in VcpuCpu : <<key[VcpuPages], d>> \in flags' <=> xen'[d] # Nowhere
  <2>1. <<key[VcpuPages], c>> \in flags' <=> done  BY <1>1, <1>2
  <2>2. \A d \in VcpuCpu \ {c} : /\ xen'[d] = xen[d]
                                 /\ <<key[VcpuPages], d>> \in flags' <=> <<key[VcpuPages], d>> \in flags
    BY <1>1, <1>2, <1>3 DEF VcpuIInv
  <2> QED  BY <1>1, <1>7, <2>1, <2>2 DEF VcpuIInv
<1>9. \A d \in VcpuCpu : processor'[d].Registered => processor'[d].Initialized /\ xen'[d] = key[1]
  <2> HIDE DEF done
  <2>1. processor'[c] = [Initialized |-> TRUE, Registered |-> done]  BY <1>2 DEF VcpuIInv, done
  <2>2. \A d \in VcpuCpu \ {c} : processor'[d] = processor[d] /\ xen'[d] = xen[d]
    BY <1>2, <1>3 DEF VcpuIInv, done
  <2>3. done => xen'[c] = key[1]  BY <1>1, <1>5, <1>7
  <2>4. \A d \in VcpuCpu \ {c} : processor'[d].Registered => processor'[d].Initialized /\ xen'[d] = key[1]
    <3>1. \A d \in VcpuCpu : processor[d].Registered => processor[d].Initialized /\ xen[d] = key[1]
      BY DEF VcpuIInv
    <3> QED  BY <2>2, <3>1
  <2>5. processor'[c].Initialized /\ processor'[c].Registered = done  BY <2>1
  <2> QED  BY <2>3, <2>4, <2>5
<1>10. ~refused'  BY <1>1, <1>2 DEF VcpuIInv
<1>11. Found' <=> Found  BY <1>1 DEF Found
<1> QED  BY <1>1, <1>4, <1>5, <1>8, <1>9, <1>10, <1>11 DEF VcpuIInv

\* SuspendEarly: every processor is in its area again.
LEMMA EarlyStep == ASSUME VcpuIInv, SuspendEarlyVcpu PROVE VcpuIInv'
<1>1. /\ mdl # << >> /\ UNCHANGED <<key, allocated, mdl, refused>>
      /\ mdl = key /\ Found /\ Area = key[1] /\ \A c \in VcpuCpu : Flag(c) = <<key[VcpuPages], c>>
      /\ \A c \in VcpuCpu : processor[c].Initialized
  BY DEF SuspendEarlyVcpu, VcpuIInv, Flag, Area
<1>2. key[1] # Nowhere  BY <1>1, Pages DEF Found
<1>3. /\ xen' = [c \in VcpuCpu |-> key[1]]
      /\ flags' = flags \cup {Flag(c) : c \in VcpuCpu}
      /\ processor' = [c \in VcpuCpu |-> [processor[c] EXCEPT !.Registered = TRUE]]
  BY <1>1 DEF SuspendEarlyVcpu
<1>4. \A c \in VcpuCpu : processor'[c] = [Initialized |-> TRUE, Registered |-> TRUE]
  BY <1>1, <1>3 DEF VcpuIInv
<1>5. processor' \in [VcpuCpu -> [Initialized : BOOLEAN, Registered : BOOLEAN]]  BY <1>3, <1>4
<1>6. \A c \in VcpuCpu : <<key[VcpuPages], c>> \in flags'  BY <1>1, <1>3
<1>7. Found' <=> Found  BY <1>1 DEF Found
<1> QED  BY <1>1, <1>2, <1>3, <1>4, <1>5, <1>6, <1>7 DEF VcpuIInv

LEMMA DeregisterStep == ASSUME VcpuIInv, SystemDeregister PROVE VcpuIInv'
<1>1. /\ UNCHANGED <<key, allocated, flags, xen, refused>> /\ mdl' = << >>
      /\ processor' = [c \in VcpuCpu |-> Offline]
  BY DEF SystemDeregister, DriverPutNamedPages
<1>2. /\ processor' \in [VcpuCpu -> [Initialized : BOOLEAN, Registered : BOOLEAN]]
      /\ \A c \in VcpuCpu : ~processor'[c].Registered
  BY <1>1 DEF Offline
<1>3. Found' <=> Found  BY <1>1 DEF Found
<1> QED  BY <1>1, <1>2, <1>3 DEF VcpuIInv

\* Memory in use is not given to others, so that the flags stay.
LEMMA OtherStep == ASSUME VcpuIInv, OtherAllocates PROVE VcpuIInv'
<1>1. PICK p \in PhysicalPage \ allocated :
        allocated' = allocated \cup {p} /\ flags' = {f \in flags : f[1] # p}
  BY DEF OtherAllocates
<1>2. UNCHANGED <<key, mdl, processor, xen, refused>>  BY DEF OtherAllocates
<1>3. Found' <=> Found  BY <1>2 DEF Found
<1>4. Found => key[VcpuPages] # p  BY <1>1, Pages DEF VcpuIInv
<1>5. Found => \A c \in VcpuCpu : <<key[VcpuPages], c>> \in flags' <=> <<key[VcpuPages], c>> \in flags
  BY <1>1, <1>4
<1> QED  BY <1>1, <1>2, <1>3, <1>5 DEF VcpuIInv

\* Through unloads, names that could not be written and suspends: Xen never writes to a page that
\* was given back, a processor that is taken for registered is registered in the page that the
\* driver reads, and Xen is never asked for a registration that it must refuse.
THEOREM AreasStayAllocated == VcpuSpec => []VcpuInv
<1>1. ASSUME VcpuIInv, [VcpuNext]_vcpuVars PROVE VcpuIInv'
  <2>1. CASE UNCHANGED vcpuVars  BY <1>1, <2>1 DEF VcpuIInv, vcpuVars, Found
  <2>2. CASE VcpuNext
    BY <1>1, <2>2, GetStep, AllocateStep, DpcStep, EarlyStep, DeregisterStep, OtherStep DEF VcpuNext
  <2> QED  BY <1>1, <2>1, <2>2
<1>2. ASSUME VcpuIInv PROVE VcpuInv
  <2>1. \A c \in VcpuCpu : xen[c] # Nowhere => Found /\ xen[c] = key[1]  BY <1>2 DEF VcpuIInv
  <2>2. \A c \in VcpuCpu : xen[c] # Nowhere => xen[c] \in allocated  BY <1>2, <2>1, Pages DEF VcpuIInv
  <2>3. ASSUME NEW c \in VcpuCpu, processor[c].Registered PROVE xen[c] = Area
    BY <1>2, <2>3 DEF VcpuIInv, Area, Offline
  <2> QED  BY <1>2, <2>1, <2>2, <2>3 DEF VcpuInv, VcpuIInv
<1> QED  BY <1>1, <1>2, VcpuStart, PTL DEF VcpuSpec

-----------------------------------------------------------------------------
(* Hole.                                                                   *)

-----------------------------------------------------------------------------
(* The pages of a mapping, in order.                                       *)

\* How many numbers of S are below x.
Rank(S, x) == Cardinality({y \in S : y < x})

\* In a finite set every number has a rank of its own ...
LEMMA Ranks ==
  ASSUME NEW S \in SUBSET Int, IsFiniteSet(S)
  PROVE  /\ Cardinality(S) \in Nat
         /\ \A x \in S : Rank(S, x) \in 0 .. Cardinality(S) - 1
         /\ \A x, y \in S : x # y => Rank(S, x) # Rank(S, y)
<1>0. Cardinality(S) \in Nat  BY FS_CardinalityType
<1>1. ASSUME NEW x \in S
      PROVE  /\ IsFiniteSet({y \in S : y < x}) /\ Rank(S, x) \in Nat
             /\ Rank(S, x) \in 0 .. Cardinality(S) - 1
  <2> DEFINE T == {y \in S : y < x}
  <2>1. T \in SUBSET S /\ x \notin T  OBVIOUS
  <2>2. IsFiniteSet(T) /\ Cardinality(T) <= Cardinality(S) /\ (Cardinality(S) = Cardinality(T) => S = T)
    BY <2>1, FS_Subset
  <2>3. Cardinality(T) \in Nat  BY <2>2, FS_CardinalityType
  <2>4. Cardinality(T) # Cardinality(S)  BY <2>1, <2>2
  <2>5. Cardinality(T) \in 0 .. Cardinality(S) - 1  BY <1>0, <2>2, <2>3, <2>4
  <2> QED  BY <2>2, <2>3, <2>5 DEF Rank
<1>2. ASSUME NEW x \in S, NEW y \in S, x < y PROVE Rank(S, x) # Rank(S, y)
  <2> DEFINE T == {z \in S : z < x}
  <2> DEFINE U == {z \in S : z < y}
  <2>0. \A z \in S : z < x => z < y  BY <1>2
  <2>1. T \in SUBSET U /\ x \in U /\ x \notin T
    <3>1. x \in Int /\ ~(x < x)  OBVIOUS
    <3> QED  BY <1>2, <2>0, <3>1
  <2>2. IsFiniteSet(U)  BY <1>1
  <2>3. Cardinality(U) = Cardinality(T) => U = T  BY <2>1, <2>2, FS_Subset
  <2> QED  BY <2>1, <2>3 DEF Rank
<1>3. \A x, y \in S : x # y => x < y \/ y < x  OBVIOUS
<1> QED  BY <1>0, <1>1, <1>2, <1>3

\* ... so Nth numbers the pages of an MDL, each once.
LEMMA NthPages ==
  ASSUME NEW S \in SUBSET Int, IsFiniteSet(S)
  PROVE  /\ Cardinality(S) \in Nat
         /\ \A k \in 0 .. Cardinality(S) - 1 : Nth(S, k) \in S
         /\ \A k, j \in 0 .. Cardinality(S) - 1 : k # j => Nth(S, k) # Nth(S, j)
         /\ \A x \in S : \E k \in 0 .. Cardinality(S) - 1 : x = Nth(S, k)
<1>0. Cardinality(S) \in Nat /\ IsFiniteSet(0 .. Cardinality(S) - 1)
  BY Ranks, FS_Interval
<1>1. Cardinality(0 .. Cardinality(S) - 1) = Cardinality(S)
  <2>1. 0 \in Int /\ Cardinality(S) - 1 \in Int  BY <1>0
  <2>2. Cardinality(0 .. Cardinality(S) - 1)
          = IF 0 > Cardinality(S) - 1 THEN 0 ELSE (Cardinality(S) - 1) - 0 + 1
    BY <2>1, FS_Interval
  <2> QED  BY <1>0, <2>2
<1> DEFINE rank == [x \in S |-> Rank(S, x)]
<1>2. rank \in Injection(S, 0 .. Cardinality(S) - 1)  BY Ranks DEF Injection, IsInjective
<1>3. rank \in Surjection(S, 0 .. Cardinality(S) - 1)  BY <1>0, <1>1, <1>2, FS_Injection
<1>4. \A k \in 0 .. Cardinality(S) - 1 : \E x \in S : Rank(S, x) = k  BY <1>3 DEF Surjection
<1>5. \A k \in 0 .. Cardinality(S) - 1 : Nth(S, k) \in S /\ Rank(S, Nth(S, k)) = k
  BY <1>4 DEF Nth, Rank
<1>6. \A x \in S : x = Nth(S, Rank(S, x))  BY <1>5, Ranks
<1> QED  BY <1>0, <1>5, <1>6, Ranks

-----------------------------------------------------------------------------
(* The invariant.                                                          *)

\* The type of every variable; without a hole there is no MDL and nobody
\* maps.
HoleTypeOK ==
  /\ holeMode \in {"none", "pci", "memory"} /\ holeFree \in SUBSET Hole
  /\ \A S \in mdls : S \in SUBSET Hole /\ S # {}
  /\ mapper \in [Mapper -> [pc : {"idle", "map", "unwind", "unmap"}, mdl : SUBSET Hole, page : Nat]]
  /\ holeMode = "none" =>
       /\ holeFree = {} /\ mdls = {}
       /\ \A t \in Mapper : mapper[t] = Resting

\* Pages are in the hole or in one MDL, and none is lost.
PagesInv ==
  /\ \A S \in mdls : S \cap holeFree = {}
  /\ \A S, T \in mdls : S = T \/ S \cap T = {}
  /\ holeMode # "none" /\ ~holeFailed =>
       /\ \A x \in Hole : x \in holeFree \/ \E S \in mdls : x \in S
       /\ holeMode = "memory" => holeMemory = holeFree

\* An MDL is in the table or with one thread.
OwnersInv ==
  /\ MapTable \subseteq mdls
  /\ \A t \in Mapper : mapper[t].pc # "idle" =>
       /\ mapper[t].mdl \in mdls /\ mapper[t].mdl \notin MapTable
       /\ mapper[t].page \in 0 .. Cardinality(mapper[t].mdl)
  /\ \A t \in Mapper : mapper[t].pc = "idle" => mapper[t].mdl = {}
  /\ \A t, u \in Mapper : t # u /\ mapper[t].pc # "idle" /\ mapper[u].pc # "idle" =>
       mapper[t].mdl # mapper[u].mdl

\* Which of its pages are mapped follows from how far the thread has come.
Done(m) == IF m.pc = "unmap" THEN m.page .. Cardinality(m.mdl) - 1 ELSE 0 .. m.page - 1

\* Which of its pages are mapped follows from how far the thread has come.
MappedInv ==
  /\ \A x \in foreign : \E S \in mdls : x \in S
  /\ \A S \in MapTable : S \subseteq foreign
  /\ \A t \in Mapper : mapper[t].pc # "idle" =>
       foreign \cap mapper[t].mdl = {Nth(mapper[t].mdl, k) : k \in Done(mapper[t])}

HoleIInv == HoleTypeOK /\ PagesInv /\ OwnersInv /\ MappedInv

\* The pages of an MDL can be counted.
LEMMA MdlPages ==
  ASSUME NEW S \in SUBSET Hole
  PROVE  /\ S \in SUBSET Int /\ IsFiniteSet(S) /\ Cardinality(S) \in Nat
         /\ S # {} => Cardinality(S) # 0
<1>1. HoleCount \in Nat  BY HoleAssumption
<1>2. Hole \in SUBSET Int /\ IsFiniteSet(Hole)
  <2>1. 0 \in Int /\ HoleCount - 1 \in Int  BY <1>1
  <2> QED  BY <2>1, FS_Interval DEF Hole
<1>3. IsFiniteSet(S)  BY <1>2, FS_Subset
<1> QED  BY <1>2, <1>3, FS_CardinalityType, FS_EmptySet

\* The invariant says what HoleExact does.
LEMMA HoleImplies == ASSUME HoleIInv PROVE HoleExact
<1>1. foreign \subseteq UNION mdls /\ foreign \cap holeFree = {}
  BY DEF HoleIInv, MappedInv, PagesInv
<1>2. /\ \A S, T \in mdls : S = T \/ S \cap T = {}
      /\ holeMode # "none" /\ ~holeFailed =>
           /\ holeFree \cup UNION mdls = Hole
           /\ holeMode = "memory" => holeMemory = holeFree
      /\ holeFree \cap UNION mdls = {}
  BY DEF HoleIInv, PagesInv, HoleTypeOK
<1>3. MapTable \subseteq mdls /\ UNION MapTable \subseteq foreign
  BY DEF HoleIInv, OwnersInv, MappedInv
<1>4. \A t, u \in Mapper : t # u /\ mapper[t].mdl # {} => mapper[t].mdl # mapper[u].mdl
  BY DEF HoleIInv, OwnersInv
<1>5. \A t \in Mapper : mapper[t].pc = "unmap" =>
        \A k \in mapper[t].page .. Cardinality(mapper[t].mdl) - 1 : Nth(mapper[t].mdl, k) \in foreign
  BY DEF HoleIInv, MappedInv, Done
<1> QED  BY <1>1, <1>2, <1>3, <1>4, <1>5 DEF HoleExact

-----------------------------------------------------------------------------
(* Steps.                                                                  *)

\* Of the runs that are long enough one is the lowest, and none is empty.
LEMMA Run ==
  ASSUME NEW n \in 1 .. MapCount, Runs(n) # {}
  PROVE  (CHOOSE R \in Runs(n) : \A Q \in Runs(n) : Lowest(R) <= Lowest(Q)) # {}
<1>0. HoleCount \in Nat \ {0} /\ MapCount \in Nat /\ n \in Nat \ {0}  BY HoleAssumption
<1>1. \A s \in Hole : Lowest(s .. s + n - 1) = s
  <2>1. ASSUME NEW s \in Hole PROVE Lowest(s .. s + n - 1) = s
    <3>1. s \in Int /\ s \in s .. s + n - 1 /\ \A y \in s .. s + n - 1 : s <= y
      BY <1>0 DEF Hole
    <3>2. \A x \in s .. s + n - 1 : (\A y \in s .. s + n - 1 : x <= y) => x = s  BY <3>1
    <3> QED  BY <3>1, <3>2 DEF Lowest
  <2> QED  BY <2>1
<1> DEFINE Starts == {s \in Hole : s .. s + n - 1 \in Runs(n)}
<1>2. Starts \in SUBSET Nat /\ Starts # {}  BY <1>0 DEF Runs, Hole
<1>3. PICK s \in Starts : \A y \in Starts : s <= y  BY <1>2, LeastNumber
<1>4. s .. s + n - 1 \in Runs(n)  OBVIOUS
<1>5. \A Q \in Runs(n) : Lowest(s .. s + n - 1) <= Lowest(Q)
  <2>1. ASSUME NEW Q \in Runs(n) PROVE Lowest(s .. s + n - 1) <= Lowest(Q)
    <3>1. PICK q \in Hole : Q = q .. q + n - 1  BY DEF Runs
    <3>2. q \in Starts  BY <3>1
    <3> QED  BY <1>1, <1>3, <3>1, <3>2
  <2> QED  BY <2>1
<1>6. (CHOOSE R \in Runs(n) : \A Q \in Runs(n) : Lowest(R) <= Lowest(Q)) \in Runs(n)  BY <1>4, <1>5
<1>7. {} \notin Runs(n)
  <2>1. \A q \in Hole : q \in q .. q + n - 1  BY <1>0 DEF Hole
  <2> QED  BY <2>1 DEF Runs
<1> QED  BY <1>6, <1>7

\* What an allocation gives its caller, and what a failed one leaves behind.
LEMMA Allocated ==
  ASSUME NEW n \in 1 .. MapCount, NEW has \in BOOLEAN, NEW S \in SUBSET holeFree,
         holeFree \in SUBSET Hole, FdoHoleAllocate(n, has, S)
  PROVE  /\ has => /\ S # {} /\ holeFree' = holeFree \ S /\ holeFailed' = holeFailed
                   /\ holeMode = "memory" => holeMemory' = holeMemory \ S
         /\ ~has => /\ holeFree' \subseteq holeFree
                    /\ ~holeFailed' => /\ ~holeFailed /\ holeFree' = holeFree
                                       /\ holeMode = "memory" => holeMemory' = holeMemory
<1>1. CASE FdoPciHoleAllocate(n, has, S)
  <2>1. S # {}  BY <1>1, Run DEF FdoPciHoleAllocate
  <2> QED  BY <1>1, <2>1, SMTT(40) DEF FdoPciHoleAllocate
<1>2. CASE FdoMemoryHoleAllocate(n, has, S)
  <2>1. S # {}
    <3>1. Cardinality(S) = n  BY <1>2 DEF FdoMemoryHoleAllocate, Windows
    <3>2. n # 0  BY HoleAssumption
    <3> QED  BY <3>1, <3>2, FS_EmptySet
  <2>2. CASE has  BY <1>2, <2>1, <2>2 DEF FdoMemoryHoleAllocate
  <2>3. CASE ~has
    <3>1. PICK T \in SUBSET S :
            holeMemory' = holeMemory \ T /\ holeFailed' = (holeFailed \/ T # {})
      BY <1>2, <2>3 DEF FdoMemoryHoleAllocate
    <3>2. UNCHANGED holeFree  BY <1>2, <2>3 DEF FdoMemoryHoleAllocate
    <3> QED  BY <2>3, <3>1, <3>2
  <2> QED  BY <2>2, <2>3
<1> QED  BY <1>1, <1>2 DEF FdoHoleAllocate

Task == [pc : {"idle", "map", "unwind", "unmap"}, mdl : SUBSET Hole, page : Nat]
AtRest(t) == \A u \in Mapper : u # t => mapper'[u] = mapper[u]

\* A thread gives an MDL of which no page is mapped back to the hole.
LEMMA Freed ==
  ASSUME HoleIInv, NEW t \in Mapper, mapper[t].pc # "idle",
         foreign \cap mapper[t].mdl = {}, FdoHoleFree(mapper[t].mdl),
         mdls' = mdls \ {mapper[t].mdl}, mapper' = [mapper EXCEPT ![t] = Resting],
         UNCHANGED <<holeMode, MapTable, foreign>>
  PROVE  HoleIInv'
<1> DEFINE S == mapper[t].mdl
<1> USE DEF HoleIInv
<1>1. /\ S \in mdls /\ S \notin MapTable /\ S \in SUBSET Hole
      /\ \A u \in Mapper : u # t /\ mapper[u].pc # "idle" => mapper[u].mdl # S
  BY DEF OwnersInv, HoleTypeOK
<1>2. holeFree' = holeFree \cup S /\ holeMemory' = (IF holeMode = "memory" THEN holeMemory \cup S ELSE holeMemory)
        /\ holeFailed' = holeFailed
  BY DEF FdoHoleFree
<1>3. AtRest(t) /\ mapper'[t] = Resting /\ mapper \in [Mapper -> Task]
  BY DEF AtRest, HoleTypeOK, Task
<1>4. holeMode # "none"  BY DEF HoleTypeOK, Resting
<1>5. HoleTypeOK'
  <2>1. Resting \in Task  BY DEF Resting, Task
  <2>2. mapper' \in [Mapper -> Task]  BY <1>3, <2>1
  <2> QED  BY <1>1, <1>2, <1>4, <2>2 DEF HoleTypeOK, Task
<1>6. PagesInv'
  <2>1. \A Q \in mdls' : Q \in mdls /\ Q \cap S = {}  BY <1>1 DEF PagesInv
  <2>2. \A Q \in mdls' : Q \cap holeFree' = {}  BY <1>2, <2>1 DEF PagesInv
  <2>3. \A Q, T \in mdls' : Q = T \/ Q \cap T = {}  BY <2>1 DEF PagesInv
  <2>4. ASSUME ~holeFailed', NEW x \in Hole PROVE x \in holeFree' \/ \E Q \in mdls' : x \in Q
    BY <1>2, <1>4, <2>4 DEF PagesInv
  <2>5. ~holeFailed' /\ holeMode' = "memory" => holeMemory' = holeFree'
    BY <1>2, <1>4 DEF PagesInv
  <2> QED  BY <1>2, <2>2, <2>3, <2>4, <2>5 DEF PagesInv
<1>7. OwnersInv'
  <2>1. MapTable' \subseteq mdls'  BY <1>1 DEF OwnersInv
  <2>2. ASSUME NEW u \in Mapper, mapper'[u].pc # "idle" PROVE mapper'[u] = mapper[u] /\ u # t
    BY <1>3, <2>2 DEF AtRest, Resting
  <2>3. \A u \in Mapper : mapper'[u].pc = "idle" => mapper'[u].mdl = {}
    BY <1>3 DEF AtRest, Resting, OwnersInv
  <2> QED  BY <1>1, <2>1, <2>2, <2>3 DEF OwnersInv
<1>8. MappedInv'
  <2>1. \A x \in foreign : \E Q \in mdls' : x \in Q  BY <1>1 DEF MappedInv
  <2>2. ASSUME NEW u \in Mapper, mapper'[u].pc # "idle" PROVE mapper'[u] = mapper[u]
    BY <1>3, <2>2 DEF AtRest, Resting
  <2> QED  BY <2>1, <2>2 DEF MappedInv, Done
<1> QED  BY <1>5, <1>6, <1>7, <1>8

\* A thread maps or unmaps a page of its own MDL, or turns back.
LEMMA Moved ==
  ASSUME HoleIInv, NEW t \in Mapper, mapper[t].pc # "idle",
         AtRest(t), mapper' \in [Mapper -> Task], mapper'[t].mdl = mapper[t].mdl,
         mapper'[t].pc # "idle", mapper'[t].page \in 0 .. Cardinality(mapper[t].mdl),
         \A x : x \notin mapper[t].mdl => (x \in foreign' <=> x \in foreign),
         foreign' \cap mapper[t].mdl = {Nth(mapper[t].mdl, k) : k \in Done(mapper'[t])},
         UNCHANGED <<holeMode, holeFree, holeMemory, mdls, MapTable, holeFailed>>
  PROVE  HoleIInv'
<1> DEFINE S == mapper[t].mdl
<1> USE DEF HoleIInv
<1>1. /\ S \in mdls /\ S \notin MapTable
      /\ \A u \in Mapper : u # t /\ mapper[u].pc # "idle" => mapper[u].mdl \in mdls /\ mapper[u].mdl # S
  BY DEF OwnersInv
<1>2. \A Q \in mdls : Q # S => Q \cap S = {}  BY <1>1 DEF PagesInv
<1>3. HoleTypeOK'
  <2>1. holeMode # "none"  BY DEF HoleTypeOK, Resting
  <2> QED  BY <2>1 DEF HoleTypeOK, Task
<1>4. PagesInv'  BY DEF PagesInv
<1>5. OwnersInv'
  <2>1. \A u \in Mapper : mapper'[u].mdl = mapper[u].mdl /\ (mapper'[u].pc = "idle" <=> mapper[u].pc = "idle")
    BY DEF AtRest
  <2>2. \A u \in Mapper : u # t => mapper'[u].page = mapper[u].page  BY DEF AtRest
  <2> QED  BY <2>1, <2>2 DEF OwnersInv
<1>6. MappedInv'
  <2>1. \A x \in foreign' : \E Q \in mdls : x \in Q  BY <1>1 DEF MappedInv
  <2>2. \A Q \in MapTable : Q \subseteq foreign'
    <3>1. \A Q \in MapTable : Q \in mdls /\ Q # S  BY <1>1 DEF OwnersInv
    <3> QED  BY <1>2, <3>1 DEF MappedInv
  <2>3. ASSUME NEW u \in Mapper, u # t, mapper[u].pc # "idle"
        PROVE  foreign' \cap mapper[u].mdl = {Nth(mapper[u].mdl, k) : k \in Done(mapper[u])}
    <3>1. mapper[u].mdl \cap S = {}  BY <1>1, <1>2, <2>3
    <3>2. foreign' \cap mapper[u].mdl = foreign \cap mapper[u].mdl  BY <3>1
    <3> QED  BY <2>3, <3>2 DEF MappedInv
  <2>4. ASSUME NEW u \in Mapper, mapper'[u].pc # "idle"
        PROVE  foreign' \cap mapper'[u].mdl = {Nth(mapper'[u].mdl, k) : k \in Done(mapper'[u])}
    <3>1. CASE u = t  BY <3>1
    <3>2. CASE u # t
      <4>1. mapper'[u] = mapper[u]  BY <3>2 DEF AtRest
      <4> QED  BY <2>3, <2>4, <3>2, <4>1
    <3> QED  BY <3>1, <3>2
  <2> QED  BY <2>1, <2>2, <2>4 DEF MappedInv, Done
<1> QED  BY <1>3, <1>4, <1>5, <1>6

\* What holds of the MDL of a thread that is doing something.
LEMMA Own ==
  ASSUME HoleIInv, NEW t \in Mapper, mapper[t].pc # "idle"
  PROVE  /\ mapper[t] \in Task /\ mapper[t].mdl \in SUBSET Int /\ IsFiniteSet(mapper[t].mdl)
         /\ mapper[t].page \in Nat /\ mapper[t].page <= Cardinality(mapper[t].mdl)
         /\ Cardinality(mapper[t].mdl) \in Nat
         /\ foreign \cap mapper[t].mdl = {Nth(mapper[t].mdl, k) : k \in Done(mapper[t])}
<1>1. mapper[t] \in Task  BY DEF HoleIInv, HoleTypeOK, Task
<1>2. mapper[t].mdl \in SUBSET Hole /\ mapper[t].page \in Nat  BY <1>1 DEF Task
<1>3. mapper[t].mdl \in SUBSET Int /\ IsFiniteSet(mapper[t].mdl) /\ Cardinality(mapper[t].mdl) \in Nat
  BY <1>2, MdlPages
<1>4. mapper[t].page \in 0 .. Cardinality(mapper[t].mdl)  BY DEF HoleIInv, OwnersInv
<1> QED  BY <1>1, <1>2, <1>3, <1>4 DEF HoleIInv, MappedInv

\* GnttabMapForeignPages maps the next page, or turns back at a failure.
LEMMA StepMapPage == ASSUME HoleIInv, NEW t \in Mapper, MapPage(t) PROVE HoleIInv'
<1> DEFINE S == mapper[t].mdl
<1> DEFINE p == mapper[t].page
<1>0. mapper \in [Mapper -> Task]  BY DEF HoleIInv, HoleTypeOK, Task
<1>1. /\ mapper[t].pc = "map" /\ p < Cardinality(S)
      /\ UNCHANGED <<holeMode, holeFree, holeMemory, mdls, MapTable, holeFailed>>
  BY DEF MapPage
<1>2. /\ mapper[t] \in Task /\ S \in SUBSET Int /\ IsFiniteSet(S) /\ p \in Nat /\ Cardinality(S) \in Nat
      /\ foreign \cap S = {Nth(S, k) : k \in 0 .. p - 1}
  BY <1>1, Own DEF Done
<1>3. CASE foreign' = foreign \cup {Nth(S, p)} /\ mapper' = [mapper EXCEPT ![t].page = @ + 1]
  <2>1. /\ AtRest(t) /\ mapper'[t].mdl = S /\ mapper'[t].pc = "map" /\ mapper'[t].page = p + 1
        /\ mapper'[t] \in Task
    BY <1>0, <1>1, <1>2, <1>3 DEF AtRest, Task
  <2>2. mapper' \in [Mapper -> Task]  BY <1>0, <1>3, <2>1
  <2>3. Nth(S, p) \in S  BY <1>1, <1>2, NthPages
  <2>4. 0 .. (p + 1) - 1 = (0 .. p - 1) \cup {p}  BY <1>2
  <2>5. foreign' \cap S = {Nth(S, k) : k \in 0 .. (p + 1) - 1}  BY <1>2, <1>3, <2>3, <2>4
  <2>6. foreign' \cap S = {Nth(S, k) : k \in Done(mapper'[t])}  BY <2>1, <2>5 DEF Done
  <2>7. \A x : x \notin S => (x \in foreign' <=> x \in foreign)  BY <1>3, <2>3
  <2>8. mapper'[t].page \in 0 .. Cardinality(S)  BY <1>1, <1>2, <2>1
  <2> QED  BY <1>1, <2>1, <2>2, <2>6, <2>7, <2>8, Moved
<1>4. CASE mapper' = [mapper EXCEPT ![t].pc = "unwind"] /\ UNCHANGED foreign
  <2>1. /\ AtRest(t) /\ mapper'[t].mdl = S /\ mapper'[t].pc = "unwind" /\ mapper'[t].page = p
        /\ mapper'[t] \in Task
    BY <1>0, <1>2, <1>4 DEF AtRest, Task
  <2>2. mapper' \in [Mapper -> Task]  BY <1>0, <1>4, <2>1
  <2>3. foreign' \cap S = {Nth(S, k) : k \in Done(mapper'[t])}  BY <1>2, <1>4, <2>1 DEF Done
  <2>4. mapper'[t].page \in 0 .. Cardinality(S)  BY <1>1, <1>2, <2>1
  <2> QED  BY <1>1, <1>4, <2>1, <2>2, <2>3, <2>4, Moved
<1> QED  BY <1>3, <1>4 DEF MapPage

\* The MDL is complete and goes to the table, or is unmapped again when there
\* is no room.
LEMMA StepMapAdd == ASSUME HoleIInv, NEW t \in Mapper, MapAdd(t) PROVE HoleIInv'
<1> DEFINE S == mapper[t].mdl
<1> DEFINE p == mapper[t].page
<1>0. mapper \in [Mapper -> Task]  BY DEF HoleIInv, HoleTypeOK, Task
<1>1. /\ mapper[t].pc = "map" /\ p = Cardinality(S)
      /\ UNCHANGED <<holeMode, holeFree, holeMemory, mdls, foreign, holeFailed>>
  BY DEF MapAdd
<1>2. /\ mapper[t] \in Task /\ S \in SUBSET Int /\ IsFiniteSet(S) /\ p \in Nat /\ Cardinality(S) \in Nat
      /\ foreign \cap S = {Nth(S, k) : k \in 0 .. p - 1}
  BY <1>1, Own DEF Done
<1>3. CASE MapTable' = MapTable \cup {S} /\ mapper' = [mapper EXCEPT ![t] = Resting]
  <2>1. AtRest(t) /\ mapper'[t] = Resting  BY <1>0, <1>3 DEF AtRest
  <2>2. \A u \in Mapper : mapper'[u].pc # "idle" => u # t /\ mapper'[u] = mapper[u]
    BY <2>1 DEF AtRest, Resting
  <2>3. S \subseteq foreign
    <3>1. \A x \in S : \E k \in 0 .. p - 1 : x = Nth(S, k)  BY <1>1, <1>2, NthPages
    <3> QED  BY <1>2, <3>1
  <2>4. HoleTypeOK'
    <3>1. Resting \in Task  BY DEF Resting, Task
    <3>2. mapper' \in [Mapper -> Task]  BY <1>0, <1>3, <3>1
    <3>3. holeMode # "none"  BY <1>1 DEF HoleIInv, HoleTypeOK, Resting
    <3> QED  BY <1>1, <3>2, <3>3 DEF HoleIInv, HoleTypeOK, Task
  <2>5. PagesInv'  BY <1>1 DEF HoleIInv, PagesInv
  <2>6. S \in mdls /\ \A u \in Mapper : u # t /\ mapper[u].pc # "idle" => mapper[u].mdl # S
    BY <1>1 DEF HoleIInv, OwnersInv
  <2>7. OwnersInv'
    <3>1. \A u \in Mapper : mapper'[u].pc = "idle" => mapper'[u].mdl = {}
      BY <2>1 DEF AtRest, Resting, HoleIInv, OwnersInv
    <3> QED  BY <1>1, <1>3, <2>2, <2>6, <3>1 DEF HoleIInv, OwnersInv
  <2>8. MappedInv'  BY <1>1, <1>3, <2>2, <2>3 DEF HoleIInv, MappedInv, Done
  <2> QED  BY <2>4, <2>5, <2>7, <2>8 DEF HoleIInv
<1>4. CASE mapper' = [mapper EXCEPT ![t].pc = "unwind"] /\ UNCHANGED MapTable
  <2>1. /\ AtRest(t) /\ mapper'[t].mdl = S /\ mapper'[t].pc = "unwind" /\ mapper'[t].page = p
        /\ mapper'[t] \in Task
    BY <1>0, <1>2, <1>4 DEF AtRest, Task
  <2>2. mapper' \in [Mapper -> Task]  BY <1>0, <1>4, <2>1
  <2>3. foreign' \cap S = {Nth(S, k) : k \in Done(mapper'[t])}
    BY <1>1, <1>2, <1>4, <2>1 DEF Done
  <2>4. mapper'[t].page \in 0 .. Cardinality(S)  BY <1>1, <1>2, <2>1
  <2> QED  BY <1>1, <1>4, <2>1, <2>2, <2>3, <2>4, Moved
<1> QED  BY <1>3, <1>4 DEF MapAdd

\* A page is unmapped on the way back; after the first one the MDL goes back.
LEMMA StepMapUnwind == ASSUME HoleIInv, NEW t \in Mapper, MapUnwind(t) PROVE HoleIInv'
<1> DEFINE S == mapper[t].mdl
<1> DEFINE p == mapper[t].page
<1>0. mapper \in [Mapper -> Task]  BY DEF HoleIInv, HoleTypeOK, Task
<1>1. mapper[t].pc = "unwind" /\ UNCHANGED <<holeMode, MapTable>>  BY DEF MapUnwind
<1>2. /\ mapper[t] \in Task /\ S \in SUBSET Int /\ IsFiniteSet(S) /\ p \in Nat /\ Cardinality(S) \in Nat
      /\ foreign \cap S = {Nth(S, k) : k \in 0 .. p - 1} /\ p <= Cardinality(S)
  BY <1>1, Own DEF Done
<1>3. CASE p > 0
  <2>0. /\ foreign' = foreign \ {Nth(S, p - 1)} /\ mapper' = [mapper EXCEPT ![t].page = @ - 1]
        /\ UNCHANGED <<holeFree, holeMemory, mdls, holeFailed>>
    BY <1>3 DEF MapUnwind
  <2>1. /\ AtRest(t) /\ mapper'[t].mdl = S /\ mapper'[t].pc = "unwind" /\ mapper'[t].page = p - 1
        /\ mapper'[t] \in Task
    BY <1>0, <1>1, <1>2, <1>3, <2>0 DEF AtRest, Task
  <2>2. mapper' \in [Mapper -> Task]  BY <1>0, <2>0, <2>1
  <2>3. Nth(S, p - 1) \in S  BY <1>2, <1>3, NthPages
  <2>4. 0 .. (p - 1) - 1 = (0 .. p - 1) \ {p - 1}  BY <1>2, <1>3
  <2>5. \A k \in 0 .. (p - 1) - 1 : Nth(S, k) # Nth(S, p - 1)  BY <1>2, <1>3, NthPages
  <2>6. foreign' \cap S = {Nth(S, k) : k \in 0 .. (p - 1) - 1}  BY <1>2, <2>0, <2>4, <2>5
  <2>7. foreign' \cap S = {Nth(S, k) : k \in Done(mapper'[t])}  BY <2>1, <2>6 DEF Done
  <2>8. \A x : x \notin S => (x \in foreign' <=> x \in foreign)  BY <2>0, <2>3
  <2>9. mapper'[t].page \in 0 .. Cardinality(S)  BY <1>2, <1>3, <2>1
  <2> QED  BY <1>1, <2>0, <2>1, <2>2, <2>7, <2>8, <2>9, Moved
<1>4. CASE ~(p > 0)
  <2>1. /\ FdoHoleFree(S) /\ mdls' = mdls \ {S}
        /\ mapper' = [mapper EXCEPT ![t] = Resting] /\ UNCHANGED foreign
    BY <1>4 DEF MapUnwind
  <2>2. foreign \cap S = {}
    <3>1. 0 .. p - 1 = {}  BY <1>2, <1>4
    <3> QED  BY <1>2, <3>1
  <2> QED  BY <1>1, <2>1, <2>2, Freed
<1> QED  BY <1>3, <1>4

\* Pages are unmapped in order; after the last one the MDL goes back.
LEMMA StepUnmapPage == ASSUME HoleIInv, NEW t \in Mapper, UnmapPage(t) PROVE HoleIInv'
<1> DEFINE S == mapper[t].mdl
<1> DEFINE p == mapper[t].page
<1>0. mapper \in [Mapper -> Task]  BY DEF HoleIInv, HoleTypeOK, Task
<1>1. mapper[t].pc = "unmap" /\ UNCHANGED <<holeMode, MapTable>>  BY DEF UnmapPage
<1>2. /\ mapper[t] \in Task /\ S \in SUBSET Int /\ IsFiniteSet(S) /\ p \in Nat /\ Cardinality(S) \in Nat
      /\ foreign \cap S = {Nth(S, k) : k \in p .. Cardinality(S) - 1} /\ p <= Cardinality(S)
  BY <1>1, Own DEF Done
<1>3. CASE p < Cardinality(S)
  <2>0. /\ foreign' = foreign \ {Nth(S, p)} /\ mapper' = [mapper EXCEPT ![t].page = @ + 1]
        /\ UNCHANGED <<holeFree, holeMemory, mdls, holeFailed>>
    BY <1>3 DEF UnmapPage
  <2>1. /\ AtRest(t) /\ mapper'[t].mdl = S /\ mapper'[t].pc = "unmap" /\ mapper'[t].page = p + 1
        /\ mapper'[t] \in Task
    BY <1>0, <1>1, <1>2, <1>3, <2>0 DEF AtRest, Task
  <2>2. mapper' \in [Mapper -> Task]  BY <1>0, <2>0, <2>1
  <2>3. Nth(S, p) \in S  BY <1>2, <1>3, NthPages
  <2>4. (p + 1) .. Cardinality(S) - 1 = (p .. Cardinality(S) - 1) \ {p}  BY <1>2, <1>3
  <2>5. \A k \in (p + 1) .. Cardinality(S) - 1 : Nth(S, k) # Nth(S, p)  BY <1>2, <1>3, NthPages
  <2>6. foreign' \cap S = {Nth(S, k) : k \in (p + 1) .. Cardinality(S) - 1}  BY <1>2, <2>0, <2>4, <2>5
  <2>7. foreign' \cap S = {Nth(S, k) : k \in Done(mapper'[t])}  BY <2>1, <2>6 DEF Done
  <2>8. \A x : x \notin S => (x \in foreign' <=> x \in foreign)  BY <2>0, <2>3
  <2>9. mapper'[t].page \in 0 .. Cardinality(S)  BY <1>2, <1>3, <2>1
  <2> QED  BY <1>1, <2>0, <2>1, <2>2, <2>7, <2>8, <2>9, Moved
<1>4. CASE ~(p < Cardinality(S))
  <2>1. /\ FdoHoleFree(S) /\ mdls' = mdls \ {S}
        /\ mapper' = [mapper EXCEPT ![t] = Resting] /\ UNCHANGED foreign
    BY <1>4 DEF UnmapPage
  <2>2. foreign \cap S = {}
    <3>1. p .. Cardinality(S) - 1 = {}  BY <1>2, <1>4
    <3> QED  BY <1>2, <3>1
  <2> QED  BY <1>1, <2>1, <2>2, Freed
<1> QED  BY <1>3, <1>4

\* The MDL is taken from the table by the thread that unmaps it.
LEMMA StepUnmapRemove == ASSUME HoleIInv, NEW t \in Mapper, NEW S \in MapTable, UnmapRemove(t, S) PROVE HoleIInv'
<1>0. mapper \in [Mapper -> Task]  BY DEF HoleIInv, HoleTypeOK, Task
<1>1. /\ mapper[t] = Resting /\ MapTable' = MapTable \ {S}
      /\ mapper' = [mapper EXCEPT ![t] = [pc |-> "unmap", mdl |-> S, page |-> 0]]
      /\ UNCHANGED <<holeMode, holeFree, holeMemory, mdls, foreign, holeFailed>>
  BY DEF UnmapRemove
<1>2. S \in mdls /\ S \in SUBSET Hole /\ S \subseteq foreign
  BY DEF HoleIInv, OwnersInv, HoleTypeOK, MappedInv
<1>3. S \in SUBSET Int /\ IsFiniteSet(S) /\ Cardinality(S) \in Nat  BY <1>2, MdlPages
<1>4. AtRest(t) /\ mapper'[t] = [pc |-> "unmap", mdl |-> S, page |-> 0]
  BY <1>0, <1>1 DEF AtRest
<1>5. HoleTypeOK'
  <2>1. [pc |-> "unmap", mdl |-> S, page |-> 0] \in Task  BY <1>2 DEF Task
  <2>2. mapper' \in [Mapper -> Task]  BY <1>0, <1>1, <2>1
  <2>3. holeMode # "none"  BY <1>2 DEF HoleIInv, HoleTypeOK
  <2> QED  BY <1>1, <2>2, <2>3 DEF HoleIInv, HoleTypeOK, Task
<1>6. PagesInv'  BY <1>1 DEF HoleIInv, PagesInv
<1>7. OwnersInv'
  <2>1. \A u \in Mapper : mapper'[u].pc = "idle" => mapper'[u].mdl = {}
    BY <1>4 DEF AtRest, HoleIInv, OwnersInv
  <2>2. MapTable' \subseteq mdls'  BY <1>1 DEF HoleIInv, OwnersInv
  <2>3. \A u \in Mapper : u # t /\ mapper'[u].pc # "idle" =>
          /\ mapper'[u] = mapper[u] /\ mapper[u].mdl \in mdls /\ mapper[u].mdl \notin MapTable
          /\ mapper[u].page \in 0 .. Cardinality(mapper[u].mdl)
    BY <1>4 DEF AtRest, HoleIInv, OwnersInv
  <2>4. mapper'[t].mdl = S /\ mapper'[t].page = 0 /\ mapper'[t].page \in 0 .. Cardinality(S)
    BY <1>3, <1>4
  <2>5. \A u \in Mapper : mapper'[u].pc # "idle" =>
          /\ mapper'[u].mdl \in mdls' /\ mapper'[u].mdl \notin MapTable'
          /\ mapper'[u].page \in 0 .. Cardinality(mapper'[u].mdl)
    BY <1>1, <1>2, <2>3, <2>4
  <2>6. ASSUME NEW u \in Mapper, NEW v \in Mapper, u # v, mapper'[u].pc # "idle", mapper'[v].pc # "idle"
        PROVE  mapper'[u].mdl # mapper'[v].mdl
    <3>1. CASE u # t /\ v # t  BY <2>3, <2>6, <3>1 DEF HoleIInv, OwnersInv
    <3>2. CASE u = t \/ v = t  BY <2>3, <2>4, <2>6, <3>2
    <3> QED  BY <3>1, <3>2
  <2> QED  BY <2>1, <2>2, <2>5, <2>6 DEF OwnersInv
<1>8. MappedInv'
  <2>1. foreign \cap S = {Nth(S, k) : k \in 0 .. Cardinality(S) - 1}
    <3>1. \A x \in S : \E k \in 0 .. Cardinality(S) - 1 : x = Nth(S, k)  BY <1>3, NthPages
    <3>2. \A k \in 0 .. Cardinality(S) - 1 : Nth(S, k) \in S  BY <1>3, NthPages
    <3> QED  BY <1>2, <3>1, <3>2
  <2>2. Done(mapper'[t]) = 0 .. Cardinality(S) - 1 /\ mapper'[t].mdl = S  BY <1>4 DEF Done
  <2>3. ASSUME NEW u \in Mapper, mapper'[u].pc # "idle"
        PROVE  foreign' \cap mapper'[u].mdl = {Nth(mapper'[u].mdl, k) : k \in Done(mapper'[u])}
    <3>1. CASE u = t  BY <1>1, <2>1, <2>2, <3>1
    <3>2. CASE u # t
      <4>1. mapper'[u] = mapper[u]  BY <1>4, <3>2 DEF AtRest
      <4> QED  BY <1>1, <2>3, <4>1 DEF HoleIInv, MappedInv
    <3> QED  BY <3>1, <3>2
  <2>4. \A x \in foreign' : \E Q \in mdls' : x \in Q  BY <1>1 DEF HoleIInv, MappedInv
  <2>5. \A Q \in MapTable' : Q \subseteq foreign'  BY <1>1 DEF HoleIInv, MappedInv
  <2> QED  BY <2>3, <2>4, <2>5 DEF MappedInv, Done
<1> QED  BY <1>5, <1>6, <1>7, <1>8 DEF HoleIInv

\* FdoHoleAllocate takes pages out of the hole for a new MDL.
LEMMA StepMapAllocate ==
  ASSUME HoleIInv, NEW t \in Mapper, NEW n \in 1 .. MapCount, MapAllocate(t, n) PROVE HoleIInv'
<1>0. mapper \in [Mapper -> Task] /\ holeFree \in SUBSET Hole  BY DEF HoleIInv, HoleTypeOK, Task
<1>1. holeMode # "none" /\ mapper[t] = Resting /\ UNCHANGED <<holeMode, MapTable, foreign>>
  BY DEF MapAllocate
<1>2. PICK has \in BOOLEAN, S \in SUBSET holeFree :
        /\ FdoHoleAllocate(n, has, S)
        /\ mdls' = IF has THEN mdls \cup {S} ELSE mdls
        /\ mapper' = IF has THEN [mapper EXCEPT ![t] = [pc |-> "map", mdl |-> S, page |-> 0]] ELSE mapper
  BY DEF MapAllocate
<1>3. CASE has
  <2>1. /\ S # {} /\ holeFree' = holeFree \ S /\ holeFailed' = holeFailed
        /\ holeMode = "memory" => holeMemory' = holeMemory \ S
    BY <1>0, <1>2, <1>3, Allocated
  <2>2. mdls' = mdls \cup {S} /\ mapper' = [mapper EXCEPT ![t] = [pc |-> "map", mdl |-> S, page |-> 0]]
    BY <1>2, <1>3
  <2>3. S \in SUBSET Hole /\ Cardinality(S) \in Nat  BY <1>0, MdlPages
  <2>4. AtRest(t) /\ mapper'[t] = [pc |-> "map", mdl |-> S, page |-> 0]
    BY <1>0, <2>2 DEF AtRest
  <2>5. \A Q \in mdls : Q \cap S = {} /\ Q # S
    BY <2>1 DEF HoleIInv, PagesInv
  <2>6. HoleTypeOK'
    <3>1. [pc |-> "map", mdl |-> S, page |-> 0] \in Task  BY <2>3 DEF Task
    <3>2. mapper' \in [Mapper -> Task]  BY <1>0, <2>2, <3>1
    <3> QED  BY <1>0, <1>1, <2>1, <2>2, <2>3, <3>2 DEF HoleIInv, HoleTypeOK, Task
  <2>7. PagesInv'
    <3>1. \A Q \in mdls' : Q \cap holeFree' = {}  BY <2>1, <2>2 DEF HoleIInv, PagesInv
    <3>2. \A Q, T \in mdls' : Q = T \/ Q \cap T = {}  BY <2>2, <2>5 DEF HoleIInv, PagesInv
    <3>3. ASSUME ~holeFailed', NEW x \in Hole PROVE x \in holeFree' \/ \E Q \in mdls' : x \in Q
      BY <1>1, <2>1, <2>2, <3>3 DEF HoleIInv, PagesInv
    <3>4. ~holeFailed' /\ holeMode' = "memory" => holeMemory' = holeFree'
      BY <1>1, <2>1 DEF HoleIInv, PagesInv
    <3> QED  BY <3>1, <3>2, <3>3, <3>4 DEF PagesInv
  <2>8. OwnersInv'
    <3>1. \A u \in Mapper : mapper'[u].pc = "idle" => mapper'[u].mdl = {}
      BY <2>4 DEF AtRest, HoleIInv, OwnersInv
    <3>2. S \notin MapTable /\ MapTable' \subseteq mdls'
      BY <1>1, <2>2, <2>5 DEF HoleIInv, OwnersInv
    <3>3. \A u \in Mapper : u # t /\ mapper'[u].pc # "idle" =>
            /\ mapper'[u] = mapper[u] /\ mapper[u].mdl \in mdls /\ mapper[u].mdl \notin MapTable
            /\ mapper[u].page \in 0 .. Cardinality(mapper[u].mdl)
      BY <2>4 DEF AtRest, HoleIInv, OwnersInv
    <3>4. mapper'[t].mdl = S /\ mapper'[t].page = 0 /\ mapper'[t].page \in 0 .. Cardinality(S)
      BY <2>3, <2>4
    <3>5. \A u \in Mapper : mapper'[u].pc # "idle" =>
            /\ mapper'[u].mdl \in mdls' /\ mapper'[u].mdl \notin MapTable'
            /\ mapper'[u].page \in 0 .. Cardinality(mapper'[u].mdl)
      BY <1>1, <2>2, <3>2, <3>3, <3>4
    <3>6. ASSUME NEW u \in Mapper, NEW v \in Mapper, u # v, mapper'[u].pc # "idle", mapper'[v].pc # "idle"
          PROVE  mapper'[u].mdl # mapper'[v].mdl
      <4>1. CASE u # t /\ v # t  BY <3>3, <3>6, <4>1 DEF HoleIInv, OwnersInv
      <4>2. CASE u = t \/ v = t  BY <2>5, <3>3, <3>4, <3>6, <4>2
      <4> QED  BY <4>1, <4>2
    <3> QED  BY <3>1, <3>2, <3>5, <3>6 DEF OwnersInv
  <2>9. MappedInv'
    <3>1. foreign \cap S = {}  BY <2>5 DEF HoleIInv, MappedInv
    <3>2. Done(mapper'[t]) = {} /\ mapper'[t].mdl = S  BY <2>4 DEF Done
    <3>3. ASSUME NEW u \in Mapper, mapper'[u].pc # "idle"
          PROVE  foreign' \cap mapper'[u].mdl = {Nth(mapper'[u].mdl, k) : k \in Done(mapper'[u])}
      <4>1. CASE u = t  BY <1>1, <3>1, <3>2, <4>1
      <4>2. CASE u # t
        <5>1. mapper'[u] = mapper[u]  BY <2>4, <4>2 DEF AtRest
        <5> QED  BY <1>1, <3>3, <5>1 DEF HoleIInv, MappedInv
      <4> QED  BY <4>1, <4>2
    <3>4. \A x \in foreign' : \E Q \in mdls' : x \in Q  BY <1>1, <2>2 DEF HoleIInv, MappedInv
    <3>5. \A Q \in MapTable' : Q \subseteq foreign'  BY <1>1 DEF HoleIInv, MappedInv
    <3> QED  BY <3>3, <3>4, <3>5 DEF MappedInv, Done
  <2> QED  BY <2>6, <2>7, <2>8, <2>9 DEF HoleIInv
<1>4. CASE ~has
  <2>1. /\ holeFree' \subseteq holeFree
        /\ ~holeFailed' => /\ ~holeFailed /\ holeFree' = holeFree
                           /\ holeMode = "memory" => holeMemory' = holeMemory
    BY <1>0, <1>2, <1>4, Allocated
  <2>2. UNCHANGED <<mdls, mapper>>  BY <1>2, <1>4
  <2>3. HoleTypeOK'  BY <1>1, <2>1, <2>2 DEF HoleIInv, HoleTypeOK
  <2>4. PagesInv'
    <3>1. \A Q \in mdls' : Q \cap holeFree' = {}  BY <2>1, <2>2 DEF HoleIInv, PagesInv
    <3> QED  BY <1>1, <2>1, <2>2, <3>1 DEF HoleIInv, PagesInv
  <2>5. OwnersInv' /\ MappedInv'  BY <1>1, <2>2 DEF HoleIInv, OwnersInv, MappedInv, Done
  <2> QED  BY <2>3, <2>4, <2>5 DEF HoleIInv
<1> QED  BY <1>3, <1>4

\* The hole is made and destroyed while nothing is mapped.
LEMMA StepHole == ASSUME HoleIInv, FdoHoleCreate \/ FdoHoleDestroy PROVE HoleIInv'
<1> USE DEF HoleIInv
<1>1. UNCHANGED <<mdls, MapTable, foreign, mapper, holeFailed>> /\ mdls = {}
  BY DEF FdoHoleCreate, FdoHoleDestroy, HoleTypeOK
<1>2. OwnersInv' /\ MappedInv'  BY <1>1 DEF OwnersInv, MappedInv, Done
<1>3. HoleTypeOK' /\ PagesInv'
  <2>1. CASE FdoHoleCreate
    <3>1. /\ holeMode' \in {"none", "pci", "memory"} /\ holeMode' # "none"
          /\ holeFree' = Hole /\ holeMemory' = Hole
      BY <2>1 DEF FdoHoleCreate
    <3> QED  BY <1>1, <3>1 DEF HoleTypeOK, PagesInv
  <2>2. CASE FdoHoleDestroy
    <3>1. holeMode' = "none" /\ holeFree' = {} /\ \A t \in Mapper : mapper[t] = Resting
      BY <2>2 DEF FdoHoleDestroy
    <3> QED  BY <1>1, <3>1 DEF HoleTypeOK, PagesInv
  <2> QED  BY <2>1, <2>2
<1> QED  BY <1>2, <1>3

\* A page of the hole is free or belongs to one MDL, and foreign memory is
\* mapped at no free page: FdoHoleAllocate and FdoHoleFree,
\* GnttabMapForeignPages with its unwinding and GnttabUnmapForeignPages, for
\* any number of threads and any size of the hole.
THEOREM ForeignPagesOwned == HoleSpec => []HoleExact
<1>1. HoleInit => HoleIInv
  <2>1. ASSUME HoleInit PROVE HoleIInv
    <3>1. Resting \in Task  BY DEF Resting, Task
    <3>2. \A t \in Mapper : mapper[t] = Resting  BY <2>1 DEF HoleInit
    <3>3. HoleTypeOK  BY <2>1, <3>1, <3>2 DEF HoleInit, HoleTypeOK, Task
    <3>4. OwnersInv /\ MappedInv  BY <2>1, <3>2 DEF HoleInit, OwnersInv, MappedInv, Resting
    <3>5. PagesInv  BY <2>1 DEF HoleInit, PagesInv
    <3> QED  BY <3>3, <3>4, <3>5 DEF HoleIInv
  <2> QED  BY <2>1
<1>2. HoleIInv /\ [HoleNext]_holeVars => HoleIInv'
  <2>1. ASSUME HoleIInv, HoleNext PROVE HoleIInv'
    BY <2>1, StepHole, StepMapAllocate, StepMapPage, StepMapAdd, StepMapUnwind, StepUnmapPage,
       StepUnmapRemove DEF HoleNext
  <2>2. ASSUME HoleIInv, UNCHANGED holeVars PROVE HoleIInv'
    BY <2>2 DEF holeVars, HoleIInv, HoleTypeOK, PagesInv, OwnersInv, MappedInv, Done
  <2> QED  BY <2>1, <2>2
<1>3. HoleIInv => HoleExact  BY HoleImplies
<1> QED  BY <1>1, <1>2, <1>3, PTL DEF HoleSpec

-----------------------------------------------------------------------------
(* The grant tables, for every set of clients, every size of the table and *)
(* every number of frames.  The hypotheses, OneLock and GtPassive = {}, are*)
(* the values of the runs: caches with locks of their own expand the table *)
(* at once and share a frame, and a suspend may find a client that calls at*)
(* PASSIVE_LEVEL between two writes of an entry.                           *)

GtPoints == {"idle", "pop", "expand", "write", "permit", "revoke", "clear"}
GtPages == Page \cup {0}
Entry == [page : GtPages, permit : BOOLEAN, reading : BOOLEAN]
Doing == [pc : GtPoints, ref : Reference, page : GtPages, index : Int, attempt : Int]

\* The type of every variable, with the frames and indices only known to be
\* integers here: LockInv bounds them.
GnttabTypeOK ==
  /\ gtAcquired \in BOOLEAN /\ FrameIndex \in Int /\ Frame \in SUBSET Int
  /\ references \in SUBSET Reference
  /\ cached \in [GtThread -> SUBSET Reference]
  /\ granted \in [GtThread -> SUBSET (Reference \X GtPages)]
  /\ table \in [Reference -> Entry]
  /\ mapping \in SUBSET (Reference \X GtPages)
  /\ gt \in [GtThread -> Doing]
  /\ stale \in SUBSET Reference /\ exhausted \in SUBSET Reference

\* Only one thread constructs an entry, so only one adds a frame.
LockInv ==
  /\ \A t, u \in GtThread :
       gt[t].pc \in {"pop", "expand"} /\ gt[u].pc \in {"pop", "expand"} => t = u
  /\ \A t \in GtThread : gt[t].pc = "expand" => gt[t].index = FrameIndex /\ 0 < FrameIndex
  /\ (\A t \in GtThread : gt[t].pc # "expand") => FrameIndex < MaximumFrameCount
  /\ \A t \in GtThread : gt[t].pc # "idle" => gtAcquired
  /\ IndexBound

\* A released table is as GnttabReset leaves it.
Nothing ==
  ~gtAcquired => /\ FrameIndex = -1 /\ references = {} /\ mapping = {}
                 /\ \A t \in GtThread : cached[t] = {} /\ granted[t] = {} /\ gt[t] = Rest
                 /\ \A r \in Reference : table[r] = Blank
AcquiredInv ==
  /\ gtAcquired => 0 <= FrameIndex
  /\ Nothing

\* An entry being revoked is still granted.
RevokeInv ==
  \A t \in GtThread : gt[t].pc \in {"revoke", "clear"} => gt[t].ref \in Held(t)

\* What keeps every reference in one place.
KeptInv == GnttabTypeOK /\ LockInv /\ AcquiredInv /\ RevokeInv /\ ReferencesKept

\* The page of an entry stays written until its flags are set: WriteEntry
\* comes before PermitEntry in GnttabPermitForeignAccess.
PageWritten == \A t \in GtThread : gt[t].pc = "permit" => table[gt[t].ref].page = gt[t].page
MappedOnce  == \A m, n \in mapping : m[1] = n[1] => m = n
MappedRead  == \A m \in mapping : m[1] \in exhausted \/ table[m[1]].reading
ClearShut   ==
  \A t \in GtThread : gt[t].pc = "clear" =>
    gt[t].ref \in exhausted \/ (~table[gt[t].ref].permit /\ \A m \in mapping : m[1] # gt[t].ref)
EntryInv == PageWritten /\ MappedOnce /\ MappedRead /\ ClearShut

-----------------------------------------------------------------------------
(* References and frames.                                                  *)

\* Frames lie in the table, side by side.
LEMMA Frames ==
  /\ Reference \in SUBSET Int /\ 0 \in Reference
  /\ \A i \in 0 .. MaximumFrameCount - 1 : InFrame(i) \in SUBSET Reference
  /\ \A i, j \in 0 .. MaximumFrameCount - 1 : i # j => InFrame(i) \cap InFrame(j) = {}
<1>1. PerFrame \in Nat \ {0} /\ MaximumFrameCount \in Nat \ {0} /\ Reserved \in Nat
  BY GnttabAssumption
<1>2. \A i, j \in Nat : i < j => (i + 1) * PerFrame <= j * PerFrame  BY <1>1
<1>3. \A i \in Nat : 0 <= i * PerFrame /\ i * PerFrame \in Int /\ (i + 1) * PerFrame \in Int  BY <1>1
<1>4. PerFrame * MaximumFrameCount \in Nat /\ 0 < PerFrame * MaximumFrameCount  BY <1>1
<1>5. Reference \in SUBSET Int /\ 0 \in Reference  BY <1>4 DEF Reference
<1>6. ASSUME NEW i \in 0 .. MaximumFrameCount - 1 PROVE InFrame(i) \in SUBSET Reference
  <2>1. (i + 1) * PerFrame <= PerFrame * MaximumFrameCount  BY <1>1, <1>2
  <2> QED  BY <1>1, <1>3, <1>4, <2>1 DEF InFrame, Reference
<1>7. ASSUME NEW i \in 0 .. MaximumFrameCount - 1, NEW j \in 0 .. MaximumFrameCount - 1, i < j
      PROVE  InFrame(i) \cap InFrame(j) = {}
  <2>0. i \in Nat /\ j \in Nat  BY <1>1
  <2>1. (i + 1) * PerFrame <= j * PerFrame  BY <1>2, <1>7, <2>0
  <2> QED  BY <1>1, <1>3, <2>1 DEF InFrame
<1>8. \A i, j \in 0 .. MaximumFrameCount - 1 : i < j \/ j < i \/ i = j  BY <1>1
<1> QED  BY <1>5, <1>6, <1>7, <1>8


\* The constructor gets a reference that is in the range set.
LEMMA PopTakes ==
  ASSUME GnttabTypeOK, NEW t \in GtThread, GnttabEntryCtor(t)
  PROVE  \E r \in references :
           /\ references' = references \ {r}
           /\ gt' = [gt EXCEPT ![t] = [@ EXCEPT !.pc = "write", !.ref = r]]
<1>1. references \in SUBSET Nat /\ references # {}
  BY Frames, GnttabAssumption, SMTT(40) DEF GnttabTypeOK, GnttabEntryCtor, Reference
<1>2. \E x \in references : \A y \in references : x <= y  BY <1>1, LeastNumber
<1>3. (CHOOSE x \in references : \A y \in references : x <= y) \in references  BY <1>2
<1> QED  BY <1>3 DEF GnttabEntryCtor

\* What the steps make of a record of gt has its type.
LEMMA Goes ==
  /\ Rest \in Doing
  /\ \A d \in Doing :
       /\ d.pc \in GtPoints /\ d.ref \in Reference /\ d.page \in GtPages /\ d.index \in Int
       /\ d.attempt \in Int /\ d.attempt + 1 \in Int
  /\ \A d \in Doing, point \in GtPoints :
       /\ [d EXCEPT !.pc = point] \in Doing
       /\ \A i \in Int : [d EXCEPT !.pc = point, !.index = i] \in Doing
       /\ \A i \in Int : [d EXCEPT !.attempt = i, !.pc = point] \in Doing
       /\ \A r \in Reference : [d EXCEPT !.pc = point, !.ref = r] \in Doing
       /\ \A p \in GtPages : [d EXCEPT !.pc = point, !.page = p] \in Doing
       /\ \A r \in Reference, p \in GtPages : [d EXCEPT !.pc = point, !.ref = r, !.page = p] \in Doing
<1>1. Rest \in Doing
  <2>1. 0 \in Reference  BY Frames
  <2> QED  BY <2>1 DEF Doing, Rest, GtPoints, GtPages
<1>2. ASSUME NEW d \in Doing
      PROVE  /\ d.pc \in GtPoints /\ d.ref \in Reference /\ d.page \in GtPages /\ d.index \in Int
             /\ d.attempt \in Int /\ d.attempt + 1 \in Int
  BY DEF Doing
<1>3. ASSUME NEW d \in Doing, NEW point \in GtPoints
      PROVE  /\ [d EXCEPT !.pc = point] \in Doing
             /\ \A i \in Int : [d EXCEPT !.pc = point, !.index = i] \in Doing
             /\ \A i \in Int : [d EXCEPT !.attempt = i, !.pc = point] \in Doing
  BY DEF Doing
<1>4. ASSUME NEW d \in Doing, NEW point \in GtPoints
      PROVE  /\ \A r \in Reference : [d EXCEPT !.pc = point, !.ref = r] \in Doing
             /\ \A p \in GtPages : [d EXCEPT !.pc = point, !.page = p] \in Doing
             /\ \A r \in Reference, p \in GtPages : [d EXCEPT !.pc = point, !.ref = r, !.page = p] \in Doing
  BY DEF Doing
<1> QED  BY <1>1, <1>2, <1>3, <1>4

\* Likewise for the entries of the table.
LEMMA Entries ==
  /\ Blank \in Entry /\ \A p \in GtPages : [Blank EXCEPT !.page = p] \in Entry
  /\ \A e \in Entry, b \in BOOLEAN :
       e.page \in GtPages /\ [e EXCEPT !.permit = b] \in Entry /\ [e EXCEPT !.reading = b] \in Entry
BY DEF Entry, Blank, GtPages

\* Every step keeps the variables well typed.
LEMMA TypeStep == ASSUME GnttabTypeOK, LockInv, [GnttabNext]_gtVars PROVE GnttabTypeOK'
<1> USE DEF GnttabTypeOK
<1>a. \A t \in GtThread : gt[t] \in Doing  OBVIOUS
<1>b. /\ {"idle", "pop", "expand", "write", "permit", "revoke", "clear"} \subseteq GtPoints
      /\ Page \subseteq GtPages /\ Blank \in Entry /\ Rest \in Doing
  BY Goes, Entries DEF GtPoints, GtPages
<1>1. CASE GnttabAcquire
  <2>1. InFrame(0) \in SUBSET Reference  BY Frames, GnttabAssumption
  <2> QED  BY <1>1, <2>1 DEF GnttabAcquire
<1>2. CASE GnttabRelease
  <2>1. table' \in [Reference -> Entry]  BY <1>2, <1>b DEF GnttabRelease
  <2>2. references' \in SUBSET Reference  BY <1>2 DEF GnttabRelease
  <2>3. /\ gtAcquired' = FALSE /\ FrameIndex' = -1 /\ Frame' = {} /\ mapping' = {}
        /\ stale' = {} /\ exhausted' = {} /\ UNCHANGED <<cached, granted, gt>>
    BY <1>2 DEF GnttabRelease
  <2>4. FrameIndex' \in Int  BY <2>3
  <2>6. /\ gtAcquired' \in BOOLEAN /\ Frame' \in SUBSET Int
        /\ mapping' \in SUBSET (Reference \X GtPages)
        /\ stale' \in SUBSET Reference /\ exhausted' \in SUBSET Reference
    BY <2>3
  <2>5. /\ cached' \in [GtThread -> SUBSET Reference]
        /\ granted' \in [GtThread -> SUBSET (Reference \X GtPages)] /\ gt' \in [GtThread -> Doing]
    BY <2>3
  <2> QED  BY <2>1, <2>2, <2>4, <2>5, <2>6
<1>3. CASE Resume
  <2>1. UNION {Held(t) : t \in GtThread} \in SUBSET Reference  BY DEF Held
  <2> QED  BY <1>3, <1>b, <2>1 DEF Resume
<1>4. ASSUME NEW t \in GtThread, GnttabExpand(t) PROVE GnttabTypeOK'
  <2>0. [gt[t] EXCEPT !.pc = "expand", !.index = FrameIndex + 1] \in Doing
    <3>1. FrameIndex + 1 \in Int  OBVIOUS
    <3> QED  BY <1>a, <1>b, <3>1, Goes
  <2>1. gt' \in [GtThread -> Doing]  BY <1>4, <2>0 DEF GnttabExpand
  <2> QED  BY <1>4, <2>1 DEF GnttabExpand
<1>5. ASSUME NEW t \in GtThread, GnttabExpanded(t) PROVE GnttabTypeOK'
  <2>1. gt[t].index < MaximumFrameCount => InFrame(gt[t].index) \in SUBSET Reference
    <3>1. gt[t].index = FrameIndex /\ 0 < FrameIndex  BY <1>5 DEF GnttabExpanded, LockInv
    <3> QED  BY <3>1, Frames, GnttabAssumption
  <2>0. [gt[t] EXCEPT !.pc = "pop"] \in Doing  BY <1>a, <1>b, Goes
  <2>2. gt' \in [GtThread -> Doing]  BY <1>5, <1>b, <2>0 DEF GnttabExpanded
  <2>3. gt[t].index \in Int  BY <1>a, Goes
  <2> QED  BY <1>5, <2>1, <2>2, <2>3 DEF GnttabExpanded
<1>6. ASSUME NEW t \in GtThread, GnttabEntryCtor(t) PROVE GnttabTypeOK'
  <2>1. PICK r \in references :
          /\ references' = references \ {r}
          /\ gt' = [gt EXCEPT ![t] = [@ EXCEPT !.pc = "write", !.ref = r]]
    BY <1>6, PopTakes
  <2>2. gt' \in [GtThread -> Doing]  BY <2>1, <1>a, <1>b, Goes
  <2> QED  BY <1>6, <2>1, <2>2 DEF GnttabEntryCtor
<1>7. ASSUME NEW t \in GtThread, WriteEntry(t) PROVE GnttabTypeOK'
  <2>1. gt' \in [GtThread -> Doing]  BY <1>7, <1>a, <1>b, Goes DEF WriteEntry
  <2>2. table' \in [Reference -> Entry]  BY <1>7, <1>a, <1>b, Goes, Entries DEF WriteEntry
  <2> QED  BY <1>7, <2>1, <2>2 DEF WriteEntry
<1>8. ASSUME NEW t \in GtThread, PermitEntry(t) PROVE GnttabTypeOK'
  <2>1. gt[t].ref \in Reference /\ gt[t].page \in GtPages  BY <1>a, <1>b, Goes
  <2>2. gt' \in [GtThread -> Doing]  BY <1>8, <1>b DEF PermitEntry
  <2>3. table' \in [Reference -> Entry]  BY <1>8, <2>1, Entries DEF PermitEntry
  <2>4. granted' \in [GtThread -> SUBSET (Reference \X GtPages)]  BY <1>8, <2>1 DEF PermitEntry
  <2> QED  BY <1>8, <2>2, <2>3, <2>4 DEF PermitEntry
<1>9. ASSUME NEW t \in GtThread, AttemptRevoke(t) PROVE GnttabTypeOK'
  <2>3. gt[t].ref \in Reference /\ gt[t].attempt + 1 \in Int  BY <1>a, Goes
  <2>4. /\ [gt[t] EXCEPT !.pc = "clear"] \in Doing
        /\ [gt[t] EXCEPT !.attempt = gt[t].attempt + 1, !.pc = "clear"] \in Doing
        /\ [gt[t] EXCEPT !.attempt = gt[t].attempt + 1, !.pc = "revoke"] \in Doing
    BY <1>a, <1>b, <2>3, Goes
  <2>1. gt' \in [GtThread -> Doing]
    <3>1. CASE gt[t].attempt + 1 = Attempts  BY <1>9, <1>b, <2>4, <3>1 DEF AttemptRevoke
    <3>2. CASE gt[t].attempt + 1 # Attempts  BY <1>9, <1>b, <2>4, <3>2 DEF AttemptRevoke
    <3> QED  BY <3>1, <3>2
  <2>5. [table[gt[t].ref] EXCEPT !.permit = FALSE] \in Entry  BY <2>3, Entries
  <2>2. table' \in [Reference -> Entry]  BY <1>9, <2>5 DEF AttemptRevoke
  <2> QED  BY <1>9, <2>1, <2>2, <2>3 DEF AttemptRevoke
<1>10. ASSUME NEW t \in GtThread, ClearEntry(t) PROVE GnttabTypeOK'
  <2>1. gt[t].ref \in Reference  BY <1>a, <1>b, Goes
  <2> QED  BY <1>10, <1>b, <2>1 DEF ClearEntry
<1>11. ASSUME NEW t \in GtThread, Spill(t) PROVE GnttabTypeOK'
  BY <1>11 DEF Spill
<1>12. ASSUME NEW t \in GtThread, NEW page \in Page, GnttabPermitForeignAccess(t, page) PROVE GnttabTypeOK'
  <2>1. gt' \in [GtThread -> Doing]
    <3>1. CASE gt' = [gt EXCEPT ![t] = [Rest EXCEPT !.pc = "pop", !.page = page]]  BY <3>1, <1>b, Goes
    <3>2. ASSUME NEW r \in cached[t],
                 gt' = [gt EXCEPT ![t] = [Rest EXCEPT !.pc = "write", !.ref = r, !.page = page]]
          PROVE  gt' \in [GtThread -> Doing]
      <4>1. r \in Reference  OBVIOUS
      <4> QED  BY <3>2, <4>1, <1>b, Goes
    <3> QED  BY <1>12, <3>1, <3>2 DEF GnttabPermitForeignAccess
  <2> QED  BY <1>12, <2>1, ZenonT(60) DEF GnttabPermitForeignAccess
<1>13. ASSUME NEW t \in GtThread, NEW r \in Reference, GnttabRevokeForeignAccess(t, r) PROVE GnttabTypeOK'
  <2>1. gt' \in [GtThread -> Doing]  BY <1>13, <1>b, Goes DEF GnttabRevokeForeignAccess
  <2> QED  BY <1>13, <2>1 DEF GnttabRevokeForeignAccess
<1>14. ASSUME NEW r \in Reference, BackendMap(r) PROVE GnttabTypeOK'
  <2>1. table' \in [Reference -> Entry]  BY <1>14, Entries DEF BackendMap
  <2>2. table[r].page \in GtPages  BY Entries
  <2> QED  BY <1>14, <2>1, <2>2 DEF BackendMap
<1>15. ASSUME NEW r \in Reference, BackendUnmap(r) PROVE GnttabTypeOK'
  <2>1. table' \in [Reference -> Entry]  BY <1>15, Entries DEF BackendUnmap
  <2> QED  BY <1>15, <2>1 DEF BackendUnmap
<1>16. CASE UNCHANGED gtVars  BY <1>16 DEF gtVars
<1> QED
  BY <1>1, <1>2, <1>3, <1>4, <1>5, <1>6, <1>7, <1>8, <1>9, <1>10, <1>11, <1>12, <1>13, <1>14,
     <1>15, <1>16 DEF GnttabNext

-----------------------------------------------------------------------------
(* The lock, the index and what threads do.                                *)

\* No thread but t does anything else than before.
Others(t) == \A u \in GtThread : u # t => gt'[u] = gt[u]
Point(t, from, to) == gt[t].pc = from /\ gt'[t].pc = to

\* What the steps of GnttabPermitForeignAccess do to the thread that takes
\* them; no other thread moves.
LEMMA Turn ==
  ASSUME GnttabTypeOK, NEW t \in GtThread
  PROVE  /\ GnttabExpand(t) => Others(t) /\ Point(t, "pop", "expand") /\ gt'[t].index = FrameIndex + 1
         /\ GnttabExpanded(t) => /\ Others(t) /\ gt[t].pc = "expand"
                                 /\ \/ gt'[t].pc = "pop" /\ gt'[t].index = gt[t].index /\ gt[t].index < MaximumFrameCount
                                    \/ gt'[t].pc = "idle" /\ gt'[t].index = 0
         /\ GnttabEntryCtor(t) => Others(t) /\ Point(t, "pop", "write") /\ gt'[t].index = gt[t].index
         /\ WriteEntry(t) => Others(t) /\ Point(t, "write", "permit") /\ gt'[t] = [gt[t] EXCEPT !.pc = "permit"]
         /\ PermitEntry(t) => Others(t) /\ gt[t].pc = "permit" /\ gt'[t] = Rest
<1>1. gt[t] \in Doing /\ gt \in [GtThread -> Doing]  BY DEF GnttabTypeOK
<1>2. ASSUME GnttabExpand(t)
      PROVE  Others(t) /\ Point(t, "pop", "expand") /\ gt'[t].index = FrameIndex + 1
  BY <1>1, <1>2 DEF GnttabExpand, Others, Point, Doing
<1>3. ASSUME GnttabExpanded(t)
      PROVE  /\ Others(t) /\ gt[t].pc = "expand"
             /\ \/ gt'[t].pc = "pop" /\ gt'[t].index = gt[t].index /\ gt[t].index < MaximumFrameCount
                \/ gt'[t].pc = "idle" /\ gt'[t].index = 0
  BY <1>1, <1>3 DEF GnttabExpanded, Others, Doing, Rest
<1>4. ASSUME GnttabEntryCtor(t)
      PROVE  Others(t) /\ Point(t, "pop", "write") /\ gt'[t].index = gt[t].index
  <2>1. PICK r \in references : gt' = [gt EXCEPT ![t] = [@ EXCEPT !.pc = "write", !.ref = r]]
    BY <1>4, PopTakes
  <2>2. gt[t].pc = "pop"  BY <1>4 DEF GnttabEntryCtor
  <2> QED  BY <1>1, <2>1, <2>2 DEF Others, Point, Doing
<1>5. ASSUME WriteEntry(t)
      PROVE  Others(t) /\ Point(t, "write", "permit") /\ gt'[t] = [gt[t] EXCEPT !.pc = "permit"]
  BY <1>1, <1>5 DEF WriteEntry, Others, Point, Doing
<1>6. ASSUME PermitEntry(t) PROVE Others(t) /\ gt[t].pc = "permit" /\ gt'[t] = Rest
  BY <1>1, <1>6 DEF PermitEntry, Others
<1> QED  BY <1>2, <1>3, <1>4, <1>5, <1>6

\* Likewise for the steps of GnttabRevokeForeignAccess, and for the calls.
LEMMA TurnClient ==
  ASSUME GnttabTypeOK, NEW t \in GtThread
  PROVE  /\ AttemptRevoke(t) =>
              /\ Others(t) /\ gt[t].pc = "revoke"
              /\ \/ gt'[t] = Rest
                 \/ gt'[t].pc \in {"revoke", "clear"} /\ gt'[t].ref = gt[t].ref /\ gt'[t].index = gt[t].index
         /\ ClearEntry(t) => Others(t) /\ gt[t].pc = "clear" /\ gt'[t] = Rest
         /\ \A page \in Page : GnttabPermitForeignAccess(t, page) =>
              /\ Others(t) /\ gt[t] = Rest /\ gt'[t].index = 0 /\ gt'[t].pc \in {"pop", "write"} /\ gtAcquired
              /\ gt'[t].pc = "pop" => LockFree(t)
         /\ \A r \in Reference : GnttabRevokeForeignAccess(t, r) =>
              /\ Others(t) /\ gt[t] = Rest /\ gt'[t].index = 0 /\ gt'[t].pc = "revoke" /\ gt'[t].ref = r
<1>1. gt[t] \in Doing /\ gt \in [GtThread -> Doing]  BY DEF GnttabTypeOK
<1>2. ASSUME AttemptRevoke(t)
      PROVE  /\ Others(t) /\ gt[t].pc = "revoke"
             /\ \/ gt'[t] = Rest
                \/ gt'[t].pc \in {"revoke", "clear"} /\ gt'[t].ref = gt[t].ref /\ gt'[t].index = gt[t].index
  <2>1. Others(t) /\ gt[t].pc = "revoke"  BY <1>1, <1>2 DEF AttemptRevoke, Others
  <2>2. CASE gt' = [gt EXCEPT ![t] = Rest]  BY <1>1, <2>1, <2>2
  <2>3. CASE gt' = [gt EXCEPT ![t] = [@ EXCEPT !.pc = "clear"]]  BY <1>1, <2>1, <2>3 DEF Doing
  <2>4. ASSUME NEW point \in {"revoke", "clear"},
               gt' = [gt EXCEPT ![t] = [@ EXCEPT !.attempt = gt[t].attempt + 1, !.pc = point]]
        PROVE  gt'[t].pc \in {"revoke", "clear"} /\ gt'[t].ref = gt[t].ref /\ gt'[t].index = gt[t].index
    BY <1>1, <2>4 DEF Doing
  <2>5. CASE gt[t].attempt + 1 = Attempts
    BY <1>2, <2>1, <2>2, <2>3, <2>4, <2>5 DEF AttemptRevoke
  <2>6. CASE gt[t].attempt + 1 # Attempts
    BY <1>2, <2>1, <2>2, <2>3, <2>4, <2>6 DEF AttemptRevoke
  <2> QED  BY <2>5, <2>6
<1>3. ASSUME ClearEntry(t) PROVE Others(t) /\ gt[t].pc = "clear" /\ gt'[t] = Rest
  BY <1>1, <1>3 DEF ClearEntry, Others
<1>4. ASSUME NEW page \in Page, GnttabPermitForeignAccess(t, page)
      PROVE  /\ Others(t) /\ gt[t] = Rest /\ gt'[t].index = 0 /\ gt'[t].pc \in {"pop", "write"} /\ gtAcquired
             /\ gt'[t].pc = "pop" => LockFree(t)
  BY <1>1, <1>4 DEF GnttabPermitForeignAccess, Others, Rest
<1>5. ASSUME NEW r \in Reference, GnttabRevokeForeignAccess(t, r)
      PROVE  /\ Others(t) /\ gt[t] = Rest /\ gt'[t].index = 0 /\ gt'[t].pc = "revoke" /\ gt'[t].ref = r
  BY <1>1, <1>5 DEF GnttabRevokeForeignAccess, Others, Rest
<1> QED  BY <1>2, <1>3, <1>4, <1>5

\* The lock of the cache keeps other constructors out while a thread is in
\* GnttabExpand, so that FrameIndex is its own.
LEMMA LockStep ==
  ASSUME OneLock, GnttabTypeOK, LockInv, AcquiredInv, [GnttabNext]_gtVars
  PROVE  LockInv'
<1> USE DEF LockInv
<1>0. gt \in [GtThread -> Doing] /\ FrameIndex \in Int /\ MaximumFrameCount \in Nat \ {0}
  BY GnttabAssumption DEF GnttabTypeOK
<1>1. CASE GnttabAcquire
  <2>1. UNCHANGED gt /\ gtAcquired' = TRUE /\ FrameIndex' = 0 /\ \A t \in GtThread : gt[t] = Rest
    BY <1>1 DEF GnttabAcquire, AcquiredInv, Nothing
  <2> QED  BY <1>0, <2>1 DEF Rest, IndexBound
<1>2. CASE GnttabRelease
  <2>1. UNCHANGED gt /\ FrameIndex' = -1 /\ \A t \in GtThread : gt[t] = Rest
    BY <1>2 DEF GnttabRelease
  <2> QED  BY <1>0, <2>1 DEF Rest, IndexBound
<1>3. CASE Resume
  <2>1. UNCHANGED <<gt, FrameIndex, gtAcquired>>  BY <1>3 DEF Resume
  <2> QED  BY <2>1 DEF IndexBound
<1>4. ASSUME NEW t \in GtThread, GnttabExpand(t) PROVE LockInv'
  <2>1. Others(t) /\ Point(t, "pop", "expand") /\ gt'[t].index = FrameIndex + 1  BY <1>4, Turn
  <2>2. UNCHANGED gtAcquired /\ FrameIndex' = FrameIndex + 1  BY <1>4 DEF GnttabExpand
  <2>3. \A u \in GtThread : u # t => gt[u].pc \notin {"pop", "expand"}  BY <2>1 DEF Point
  <2>4. FrameIndex < MaximumFrameCount /\ 0 <= FrameIndex  BY <2>1, <2>3 DEF Point, AcquiredInv
  <2> QED  BY <1>0, <2>1, <2>2, <2>3, <2>4 DEF Others, Point, IndexBound
<1>5. ASSUME NEW t \in GtThread, GnttabExpanded(t) PROVE LockInv'
  <2>1. /\ Others(t) /\ gt[t].pc = "expand"
        /\ \/ gt'[t].pc = "pop" /\ gt'[t].index = gt[t].index /\ gt[t].index < MaximumFrameCount
           \/ gt'[t].pc = "idle" /\ gt'[t].index = 0
    BY <1>5, Turn
  <2>2. UNCHANGED gtAcquired  BY <1>5 DEF GnttabExpanded
  <2>3. \A u \in GtThread : u # t => gt[u].pc \notin {"pop", "expand"}  BY <2>1
  <2>4. gt[t].index = FrameIndex /\ FrameIndex <= MaximumFrameCount  BY <2>1 DEF IndexBound
  <2>5. FrameIndex' = FrameIndex \/ FrameIndex' = FrameIndex - 1  BY <1>5 DEF GnttabExpanded
  <2>6. FrameIndex' < MaximumFrameCount
    <3>1. CASE gt'[t].pc = "pop" /\ gt[t].index < MaximumFrameCount  BY <1>0, <2>4, <2>5, <3>1
    <3>2. CASE gt'[t].pc = "idle"
      <4>1. gt' # [gt EXCEPT ![t].pc = "pop"]  BY <1>0, <3>2 DEF Doing
      <4>2. FrameIndex' = FrameIndex - 1  BY <1>5, <4>1 DEF GnttabExpanded
      <4> QED  BY <1>0, <2>4, <4>2
    <3> QED  BY <2>1, <3>1, <3>2
  <2> QED  BY <1>0, <2>1, <2>2, <2>3, <2>4, <2>6 DEF Others, IndexBound
<1>6. ASSUME NEW t \in GtThread, GnttabEntryCtor(t) PROVE LockInv'
  <2>1. Others(t) /\ Point(t, "pop", "write") /\ gt'[t].index = gt[t].index  BY <1>6, Turn
  <2>2. UNCHANGED <<gtAcquired, FrameIndex>>  BY <1>6 DEF GnttabEntryCtor
  <2> QED  BY <2>1, <2>2 DEF Others, Point, IndexBound
<1>7. ASSUME NEW t \in GtThread, WriteEntry(t) PROVE LockInv'
  <2>1. Others(t) /\ Point(t, "write", "permit") /\ gt'[t] = [gt[t] EXCEPT !.pc = "permit"]  BY <1>7, Turn
  <2>2. UNCHANGED <<gtAcquired, FrameIndex>>  BY <1>7 DEF WriteEntry
  <2>3. gt'[t].index = gt[t].index  BY <1>0, <2>1 DEF Doing
  <2> QED  BY <2>1, <2>2, <2>3 DEF Others, Point, IndexBound
<1>8. ASSUME NEW t \in GtThread, PermitEntry(t) PROVE LockInv'
  <2>1. Others(t) /\ gt[t].pc = "permit" /\ gt'[t] = Rest  BY <1>8, Turn
  <2>2. UNCHANGED <<gtAcquired, FrameIndex>>  BY <1>8 DEF PermitEntry
  <2> QED  BY <1>0, <2>1, <2>2 DEF Others, IndexBound, Rest
<1>9. ASSUME NEW t \in GtThread, AttemptRevoke(t) PROVE LockInv'
  <2>1. /\ Others(t) /\ gt[t].pc = "revoke"
        /\ \/ gt'[t] = Rest
           \/ gt'[t].pc \in {"revoke", "clear"} /\ gt'[t].index = gt[t].index
    BY <1>9, TurnClient
  <2>2. UNCHANGED <<gtAcquired, FrameIndex>>  BY <1>9 DEF AttemptRevoke
  <2> QED  BY <1>0, <2>1, <2>2 DEF Others, IndexBound, Rest
<1>10. ASSUME NEW t \in GtThread, ClearEntry(t) PROVE LockInv'
  <2>1. Others(t) /\ gt[t].pc = "clear" /\ gt'[t] = Rest  BY <1>10, TurnClient
  <2>2. UNCHANGED <<gtAcquired, FrameIndex>>  BY <1>10 DEF ClearEntry
  <2> QED  BY <1>0, <2>1, <2>2 DEF Others, IndexBound, Rest
<1>11. ASSUME NEW t \in GtThread, Spill(t) PROVE LockInv'
  <2>1. UNCHANGED <<gt, FrameIndex, gtAcquired>>  BY <1>11 DEF Spill
  <2> QED  BY <2>1 DEF IndexBound
<1>12. ASSUME NEW t \in GtThread, NEW page \in Page, GnttabPermitForeignAccess(t, page) PROVE LockInv'
  <2>1. /\ Others(t) /\ gt[t] = Rest /\ gt'[t].index = 0 /\ gt'[t].pc \in {"pop", "write"} /\ gtAcquired
        /\ gt'[t].pc = "pop" => LockFree(t)
    BY <1>12, TurnClient
  <2>2. UNCHANGED <<gtAcquired, FrameIndex>>  BY <1>12 DEF GnttabPermitForeignAccess
  <2>3. gt'[t].pc = "pop" => \A u \in GtThread : gt[u].pc \notin {"pop", "expand"}
    BY <2>1 DEF LockFree
  <2> QED  BY <1>0, <2>1, <2>2, <2>3 DEF Others, IndexBound, Rest
<1>13. ASSUME NEW t \in GtThread, NEW r \in Reference, GnttabRevokeForeignAccess(t, r) PROVE LockInv'
  <2>1. Others(t) /\ gt[t] = Rest /\ gt'[t].index = 0 /\ gt'[t].pc = "revoke"
    BY <1>13, TurnClient
  <2>2. UNCHANGED <<gtAcquired, FrameIndex>>  BY <1>13 DEF GnttabRevokeForeignAccess
  <2>3. gtAcquired
    <3>1. granted[t] # {}  BY <1>13 DEF GnttabRevokeForeignAccess, Held
    <3> QED  BY <3>1 DEF AcquiredInv, Nothing
  <2> QED  BY <1>0, <2>1, <2>2, <2>3 DEF Others, IndexBound, Rest
<1>14. ASSUME NEW r \in Reference, BackendMap(r) \/ BackendUnmap(r) PROVE LockInv'
  <2>1. UNCHANGED <<gt, FrameIndex, gtAcquired>>  BY <1>14 DEF BackendMap, BackendUnmap
  <2> QED  BY <2>1 DEF IndexBound
<1>15. CASE UNCHANGED gtVars  BY <1>15 DEF gtVars, IndexBound
<1> QED
  BY <1>1, <1>2, <1>3, <1>4, <1>5, <1>6, <1>7, <1>8, <1>9, <1>10, <1>11, <1>12, <1>13, <1>14,
     <1>15 DEF GnttabNext

\* GnttabRelease leaves nothing, and nobody works on a released table.
LEMMA AcquiredStep ==
  ASSUME OneLock, KeptInv, [GnttabNext]_gtVars
  PROVE  AcquiredInv'
<1> USE DEF KeptInv
<1>0. gt \in [GtThread -> Doing] /\ FrameIndex \in Int /\ MaximumFrameCount \in Nat \ {0}
  BY GnttabAssumption DEF GnttabTypeOK
<1>1. CASE GnttabAcquire  BY <1>1 DEF GnttabAcquire, AcquiredInv, Nothing
<1>2. CASE GnttabRelease
  <2>1. Frame = 0 .. FrameIndex
    <3>1. \A t \in GtThread : gt[t].pc # "expand"  BY <1>2 DEF GnttabRelease, Rest
    <3> QED  BY <3>1 DEF ReferencesKept
  <2>2. references \subseteq UNION {InFrame(i) : i \in 0 .. FrameIndex}
    BY <2>1 DEF ReferencesKept
  <2>3. references' = {}  BY <1>2, <2>2 DEF GnttabRelease
  <2>4. /\ gtAcquired' = FALSE /\ FrameIndex' = -1 /\ mapping' = {} /\ UNCHANGED <<cached, granted, gt>>
        /\ table' = [r \in Reference |-> Blank]
        /\ \A t \in GtThread : cached[t] = {} /\ granted[t] = {} /\ gt[t] = Rest
    BY <1>2 DEF GnttabRelease
  <2> QED  BY <2>3, <2>4 DEF AcquiredInv, Nothing
<1>3. CASE Resume  BY <1>3 DEF Resume, AcquiredInv, Nothing
<1>4. CASE gtAcquired /\ gtAcquired' /\ 0 <= FrameIndex'  BY <1>4 DEF AcquiredInv, Nothing
<1>5. CASE \E t \in GtThread : gt[t].pc # "idle" /\ UNCHANGED <<gtAcquired, FrameIndex>>
  BY <1>4, <1>5 DEF LockInv, AcquiredInv
<1>6. ASSUME NEW t \in GtThread, GnttabExpand(t) PROVE AcquiredInv'
  <2>1. gt[t].pc = "pop" /\ UNCHANGED gtAcquired /\ FrameIndex' = FrameIndex + 1
    BY <1>6 DEF GnttabExpand
  <2>2. gtAcquired /\ 0 <= FrameIndex  BY <2>1 DEF LockInv, AcquiredInv
  <2> QED  BY <1>0, <1>4, <2>1, <2>2
<1>7. ASSUME NEW t \in GtThread, GnttabExpanded(t) PROVE AcquiredInv'
  <2>1. gt[t].pc = "expand" /\ UNCHANGED gtAcquired /\ (FrameIndex' = FrameIndex \/ FrameIndex' = FrameIndex - 1)
    BY <1>7 DEF GnttabExpanded
  <2>2. gtAcquired /\ 0 < FrameIndex  BY <2>1 DEF LockInv
  <2>3. 0 <= FrameIndex'  BY <1>0, <2>1, <2>2
  <2> QED  BY <1>4, <2>1, <2>2, <2>3
<1>8. ASSUME NEW t \in GtThread,
             GnttabEntryCtor(t) \/ WriteEntry(t) \/ PermitEntry(t) \/ AttemptRevoke(t) \/ ClearEntry(t)
      PROVE  AcquiredInv'
  <2>1. gt[t].pc # "idle" /\ UNCHANGED <<gtAcquired, FrameIndex>>
    BY <1>8 DEF GnttabEntryCtor, WriteEntry, PermitEntry, AttemptRevoke, ClearEntry
  <2> QED  BY <1>5, <2>1
<1>9. CASE gtAcquired /\ UNCHANGED <<gtAcquired, FrameIndex>>  BY <1>4, <1>9 DEF AcquiredInv
<1>10. ASSUME NEW t \in GtThread, Spill(t) PROVE AcquiredInv'
  <2>1. cached[t] # {} /\ UNCHANGED <<gtAcquired, FrameIndex>>  BY <1>10 DEF Spill
  <2>2. gtAcquired  BY <2>1 DEF AcquiredInv, Nothing
  <2> QED  BY <1>9, <2>1, <2>2
<1>11. ASSUME NEW t \in GtThread, NEW page \in Page, GnttabPermitForeignAccess(t, page) PROVE AcquiredInv'
  BY <1>9, <1>11 DEF GnttabPermitForeignAccess
<1>12. ASSUME NEW t \in GtThread, NEW r \in Reference, GnttabRevokeForeignAccess(t, r) PROVE AcquiredInv'
  <2>1. granted[t] # {} /\ UNCHANGED <<gtAcquired, FrameIndex>>
    BY <1>12 DEF GnttabRevokeForeignAccess, Held
  <2>2. gtAcquired  BY <2>1 DEF AcquiredInv, Nothing
  <2> QED  BY <1>9, <2>1, <2>2
<1>13. ASSUME NEW r \in Reference, BackendMap(r) \/ BackendUnmap(r) PROVE AcquiredInv'
  <2>1. UNCHANGED <<gtAcquired, FrameIndex>>  BY <1>13 DEF BackendMap, BackendUnmap
  <2>2. gtAcquired
    <3>1. table[r] # Blank \/ mapping # {}  BY <1>13 DEF BackendMap, BackendUnmap, Blank
    <3> QED  BY <3>1 DEF AcquiredInv, Nothing
  <2> QED  BY <1>9, <2>1, <2>2
<1>14. CASE UNCHANGED gtVars  BY <1>14 DEF gtVars, AcquiredInv, Nothing
<1> QED
  BY <1>1, <1>2, <1>3, <1>6, <1>7, <1>8, <1>10, <1>11, <1>12, <1>13, <1>14 DEF GnttabNext

\* An entry stays granted until the step that clears it.
LEMMA RevokeStep ==
  ASSUME GnttabTypeOK, RevokeInv, [GnttabNext]_gtVars
  PROVE  RevokeInv'
<1> USE DEF RevokeInv
<1>0. /\ gt \in [GtThread -> Doing]
      /\ granted \in [GtThread -> SUBSET (Reference \X GtPages)]
  BY DEF GnttabTypeOK
<1>1. CASE UNCHANGED <<gt, granted>>  BY <1>1 DEF Held
<1>2. CASE GnttabRelease  BY <1>1, <1>2 DEF GnttabRelease
<1>3. ASSUME NEW t \in GtThread, Others(t), gt'[t].pc \notin {"revoke", "clear"},
             \A u \in GtThread : u # t => granted'[u] = granted[u]
      PROVE  RevokeInv'
  BY <1>3 DEF Others, Held
<1>4. ASSUME NEW t \in GtThread, UNCHANGED granted,
             GnttabExpand(t) \/ GnttabExpanded(t) \/ GnttabEntryCtor(t) \/ WriteEntry(t)
      PROVE  RevokeInv'
  <2>1. Others(t) /\ gt'[t].pc \notin {"revoke", "clear"}
    <3>1. CASE GnttabExpand(t)  BY <3>1, Turn DEF Point
    <3>2. CASE GnttabExpanded(t)  BY <3>2, Turn
    <3>3. CASE GnttabEntryCtor(t)  BY <3>3, Turn DEF Point
    <3>4. CASE WriteEntry(t)
      <4>1. Others(t) /\ Point(t, "write", "permit")  BY <3>4, Turn
      <4> QED  BY <4>1 DEF Point
    <3> QED  BY <1>4, <3>1, <3>2, <3>3, <3>4
  <2> QED  BY <1>3, <1>4, <2>1
<1>5. ASSUME NEW t \in GtThread, PermitEntry(t) PROVE RevokeInv'
  <2>1. Others(t) /\ gt'[t] = Rest  BY <1>5, Turn
  <2>2. \A u \in GtThread : u # t => granted'[u] = granted[u]  BY <1>0, <1>5 DEF PermitEntry
  <2> QED  BY <1>3, <2>1, <2>2 DEF Rest
<1>6. ASSUME NEW t \in GtThread, ClearEntry(t) PROVE RevokeInv'
  <2>1. Others(t) /\ gt'[t] = Rest  BY <1>6, TurnClient
  <2>2. \A u \in GtThread : u # t => granted'[u] = granted[u]  BY <1>0, <1>6 DEF ClearEntry
  <2> QED  BY <1>3, <2>1, <2>2 DEF Rest
<1>7. ASSUME NEW t \in GtThread, AttemptRevoke(t) PROVE RevokeInv'
  <2>1. /\ Others(t) /\ gt[t].pc = "revoke"
        /\ \/ gt'[t] = Rest
           \/ gt'[t].pc \in {"revoke", "clear"} /\ gt'[t].ref = gt[t].ref
    BY <1>7, TurnClient
  <2>2. UNCHANGED granted  BY <1>7 DEF AttemptRevoke
  <2> QED  BY <2>1, <2>2 DEF Others, Held, Rest
<1>8. ASSUME NEW t \in GtThread, NEW page \in Page, GnttabPermitForeignAccess(t, page) PROVE RevokeInv'
  <2>1. Others(t) /\ gt'[t].pc \in {"pop", "write"}  BY <1>8, TurnClient
  <2>2. UNCHANGED granted  BY <1>8 DEF GnttabPermitForeignAccess
  <2> QED  BY <1>3, <2>1, <2>2
<1>9. ASSUME NEW t \in GtThread, NEW r \in Reference, GnttabRevokeForeignAccess(t, r) PROVE RevokeInv'
  <2>1. Others(t) /\ gt'[t].pc = "revoke" /\ gt'[t].ref = r  BY <1>9, TurnClient
  <2>2. UNCHANGED granted /\ r \in Held(t)  BY <1>9, SMTT(40) DEF GnttabRevokeForeignAccess
  <2> QED  BY <2>1, <2>2 DEF Others, Held
<1>10. [GnttabNext]_gtVars =>
         \/ GnttabRelease \/ UNCHANGED <<gt, granted>>
         \/ \E t \in GtThread :
              \/ UNCHANGED granted /\ (GnttabExpand(t) \/ GnttabExpanded(t) \/ GnttabEntryCtor(t) \/ WriteEntry(t))
              \/ PermitEntry(t) \/ ClearEntry(t) \/ AttemptRevoke(t)
              \/ \E page \in Page : GnttabPermitForeignAccess(t, page)
              \/ \E r \in Reference : GnttabRevokeForeignAccess(t, r)
  BY DEF GnttabNext, gtVars, GnttabAcquire, Resume, Spill, BackendMap, BackendUnmap,
         GnttabExpand, GnttabExpanded, GnttabEntryCtor, WriteEntry
<1> QED  BY <1>1, <1>2, <1>4, <1>5, <1>6, <1>7, <1>8, <1>9, <1>10

-----------------------------------------------------------------------------
(* Every reference is in one place.                                        *)

Adding == {gt[t].index : t \in {u \in GtThread : gt[u].pc = "expand"}}

\* What one thread does with references it has, or takes from and gives to the
\* range set, leaves every reference in one place.
LEMMA Exchange ==
  ASSUME ReferencesKept, NEW t \in GtThread,
         UNCHANGED <<Frame, FrameIndex>>, Adding' = Adding,
         \A u \in GtThread : u # t => cached'[u] = cached[u] /\ Held(u)' = Held(u) /\ Using(u)' = Using(u),
         references' \cup Owned(t)' = references \cup Owned(t), Owned(t)' \cap references' = {},
         cached'[t] \cap (Held(t)' \cup Using(t)') = {}, Held(t)' \cap Using(t)' = {}
  PROVE  ReferencesKept'
<1>1. \A u \in GtThread : u # t => Owned(u)' = Owned(u)  BY DEF Owned
<1>2. /\ references \cup UNION {Owned(u) : u \in GtThread} = UNION {InFrame(i) : i \in Frame}
      /\ \A u \in GtThread :
           /\ Owned(u) \cap references = {}
           /\ cached[u] \cap (Held(u) \cup Using(u)) = {} /\ Held(u) \cap Using(u) = {}
           /\ \A v \in GtThread : v # u => Owned(u) \cap Owned(v) = {}
      /\ Frame = (0 .. FrameIndex) \ Adding
  BY DEF ReferencesKept, Adding
<1>3. (references \cup UNION {Owned(u) : u \in GtThread})' = references \cup UNION {Owned(u) : u \in GtThread}
  <2>1. ASSUME NEW r PROVE (r \in references' \/ \E u \in GtThread : r \in Owned(u)')
                             <=> (r \in references \/ \E u \in GtThread : r \in Owned(u))
    BY <1>1
  <2> QED  BY <2>1
<1>4. Owned(t)' \subseteq references \cup Owned(t) /\ references' \subseteq references \cup Owned(t)  OBVIOUS
<1>5. \A u \in GtThread : u # t => Owned(u) \cap Owned(t)' = {} /\ Owned(u) \cap references' = {}
  BY <1>2, <1>4
<1>6. \A u \in GtThread :
        /\ Owned(u)' \cap references' = {}
        /\ cached'[u] \cap (Held(u)' \cup Using(u)') = {} /\ Held(u)' \cap Using(u)' = {}
  BY <1>1, <1>2, <1>5
<1>7. \A u, v \in GtThread : v # u => Owned(u)' \cap Owned(v)' = {}
  BY <1>1, <1>2, <1>5
<1>8. (UNION {InFrame(i) : i \in Frame})' = UNION {InFrame(i) : i \in Frame}  BY DEF InFrame
<1>9. Frame' = (0 .. FrameIndex') \ Adding'  BY <1>2
<1> QED  BY <1>2, <1>3, <1>6, <1>7, <1>8, <1>9 DEF ReferencesKept, Adding

\* A thread that expands is alone, and its frame is the last one.
LEMMA OneExpands ==
  ASSUME KeptInv, NEW t \in GtThread, gt[t].pc = "expand"
  PROVE  /\ Adding = {FrameIndex} /\ gt[t].index = FrameIndex /\ Frame = 0 .. FrameIndex - 1
         /\ \A u \in GtThread : u # t => gt[u].pc # "expand"
<1>1. \A u \in GtThread : gt[u].pc = "expand" => u = t  BY DEF KeptInv, LockInv
<1>2. gt[t].index = FrameIndex  BY DEF KeptInv, LockInv
<1>3. Adding = {FrameIndex}  BY <1>1, <1>2 DEF Adding
<1>4. Frame = (0 .. FrameIndex) \ {FrameIndex}  BY <1>3 DEF KeptInv, ReferencesKept, Adding
<1>5. FrameIndex \in Int  BY DEF KeptInv, GnttabTypeOK
<1>6. Frame = 0 .. FrameIndex - 1  BY <1>4, <1>5
<1> QED  BY <1>1, <1>2, <1>3, <1>6

\* Frames change as GnttabExpand, GnttabAcquire and GnttabContract have them.
LEMMA KeptFrames ==
  ASSUME OneLock, KeptInv,
         GnttabAcquire \/ GnttabRelease \/ Resume
           \/ \E t \in GtThread : GnttabExpand(t) \/ GnttabExpanded(t)
  PROVE  ReferencesKept'
<1>0. /\ gt \in [GtThread -> Doing] /\ FrameIndex \in Int /\ MaximumFrameCount \in Nat \ {0}
      /\ ReferencesKept
  BY GnttabAssumption DEF GnttabTypeOK, KeptInv
<1>a. Frame = (0 .. FrameIndex) \ Adding  BY <1>0 DEF ReferencesKept, Adding
<1>1. CASE GnttabAcquire
  <2>1. /\ FrameIndex' = 0 /\ Frame' = {0} /\ references' = InFrame(0) /\ UNCHANGED <<cached, granted, gt>>
        /\ \A t \in GtThread : cached[t] = {} /\ granted[t] = {} /\ gt[t] = Rest
    BY <1>1 DEF GnttabAcquire, KeptInv, AcquiredInv, Nothing
  <2>2. \A t \in GtThread : /\ Held(t)' = {} /\ Using(t)' = {} /\ Owned(t)' = {} /\ cached'[t] = {}
                            /\ gt'[t].pc # "expand"
    BY <2>1 DEF Held, Using, Owned, Rest
  <2>3. Adding' = {} /\ 0 .. FrameIndex' = {0}  BY <2>1, <2>2 DEF Adding
  <2>4. UNION {InFrame(i) : i \in Frame'} = InFrame(0)  BY <2>1
  <2>5. (UNION {InFrame(i) : i \in Frame})' = InFrame(0)  BY <2>4 DEF InFrame
  <2> QED  BY <2>1, <2>2, <2>3, <2>5 DEF ReferencesKept, Adding
<1>2. CASE GnttabRelease
  <2>1. /\ FrameIndex' = -1 /\ Frame' = {} /\ UNCHANGED <<cached, granted, gt>>
        /\ references' = references \ UNION {InFrame(i) : i \in 0 .. FrameIndex}
        /\ \A t \in GtThread : cached[t] = {} /\ granted[t] = {} /\ gt[t] = Rest
    BY <1>2 DEF GnttabRelease
  <2>2. \A t \in GtThread : /\ Held(t)' = {} /\ Using(t)' = {} /\ Owned(t)' = {} /\ cached'[t] = {}
                            /\ gt'[t].pc # "expand" /\ gt[t].pc # "expand"
    BY <2>1 DEF Held, Using, Owned, Rest
  <2>3. Adding = {} /\ Adding' = {} /\ 0 .. FrameIndex' = {}  BY <2>1, <2>2 DEF Adding
  <2>4. references \subseteq UNION {InFrame(i) : i \in 0 .. FrameIndex}
    BY <1>0, <1>a, <2>3 DEF ReferencesKept
  <2>5. references' = {}  BY <2>1, <2>4
  <2>6. (UNION {InFrame(i) : i \in Frame})' = {}  BY <2>1
  <2> QED  BY <2>1, <2>2, <2>3, <2>5, <2>6 DEF ReferencesKept, Adding
<1>3. CASE Resume
  <2>1. /\ UNCHANGED <<FrameIndex, references, cached, granted, gt>> /\ Frame' = 0 .. FrameIndex
        /\ \A t \in GtThread : gt[t].pc # "expand"
    BY <1>3 DEF Resume
  <2>2. Frame' = Frame /\ Adding' = Adding  BY <1>a, <2>1 DEF Adding
  <2>3. \A t \in GtThread : /\ cached'[t] = cached[t] /\ Held(t)' = Held(t) /\ Using(t)' = Using(t)
                            /\ Owned(t)' = Owned(t)
    BY <2>1 DEF Held, Using, Owned
  <2> QED  BY <1>0, <2>1, <2>2, <2>3 DEF ReferencesKept, Adding, InFrame
<1>4. ASSUME NEW t \in GtThread, GnttabExpand(t) PROVE ReferencesKept'
  <2>1. Others(t) /\ Point(t, "pop", "expand") /\ gt'[t].index = FrameIndex + 1
    BY <1>4, Turn DEF KeptInv
  <2>2. /\ FrameIndex' = FrameIndex + 1 /\ UNCHANGED <<Frame, references, cached, granted>>
    BY <1>4 DEF GnttabExpand
  <2>3. \A u \in GtThread : u # t => gt[u].pc \notin {"pop", "expand"}
    BY <2>1 DEF KeptInv, LockInv, Point
  <2>4. Adding = {} /\ Adding' = {FrameIndex + 1}  BY <2>1, <2>3 DEF Adding, Others, Point
  <2>5. Frame' = (0 .. FrameIndex') \ Adding'
    <3>1. 0 <= FrameIndex
      BY <2>1 DEF KeptInv, LockInv, AcquiredInv, Point
    <3> QED  BY <1>0, <1>a, <2>2, <2>4, <3>1
  <2>6. \A u \in GtThread : /\ cached'[u] = cached[u] /\ Held(u)' = Held(u) /\ Using(u)' = Using(u)
                            /\ Owned(u)' = Owned(u)
    BY <2>1, <2>2 DEF Held, Using, Owned, Others, Point
  <2> QED  BY <1>0, <2>2, <2>5, <2>6 DEF ReferencesKept, Adding, InFrame
<1>5. ASSUME NEW t \in GtThread, GnttabExpanded(t) PROVE ReferencesKept'
  <2>1. /\ Others(t) /\ gt[t].pc = "expand" /\ gt'[t].pc \in {"pop", "idle"}
    BY <1>5, Turn DEF KeptInv
  <2>2. /\ Adding = {FrameIndex} /\ gt[t].index = FrameIndex /\ Frame = 0 .. FrameIndex - 1
        /\ \A u \in GtThread : u # t => gt[u].pc # "expand"
    BY <2>1, OneExpands
  <2>3. Adding' = {}  BY <2>1, <2>2 DEF Adding, Others
  <2>4. UNCHANGED <<cached, granted>>  BY <1>5 DEF GnttabExpanded
  <2>5. \A u \in GtThread : /\ cached'[u] = cached[u] /\ Held(u)' = Held(u) /\ Using(u)' = Using(u)
                            /\ Owned(u)' = Owned(u)
    BY <2>1, <2>4 DEF Held, Using, Owned, Others
  <2>6. CASE FrameIndex' = FrameIndex - 1 /\ UNCHANGED <<Frame, references>>
    <3>1. Frame' = (0 .. FrameIndex') \ Adding'  BY <1>0, <2>2, <2>3, <2>6
    <3>2. (UNION {InFrame(i) : i \in Frame})' = UNION {InFrame(i) : i \in Frame}
      BY <2>6 DEF InFrame
    <3> QED  BY <1>0, <2>5, <2>6, <3>1, <3>2 DEF ReferencesKept, Adding
  <2>7. CASE /\ FrameIndex < MaximumFrameCount /\ UNCHANGED FrameIndex
             /\ Frame' = Frame \cup {FrameIndex} /\ references' = references \cup InFrame(FrameIndex)
    <3>1. 0 < FrameIndex  BY <2>1 DEF KeptInv, LockInv
    <3>2. Frame' = (0 .. FrameIndex') \ Adding'  BY <1>0, <2>2, <2>3, <2>7, <3>1
    <3>3. \A i \in Frame : InFrame(i) \cap InFrame(FrameIndex) = {}
      BY <1>0, <2>2, <2>7, <3>1, Frames
    <3>4. \A u \in GtThread : Owned(u) \cap InFrame(FrameIndex) = {}
      <4>1. ASSUME NEW u \in GtThread, NEW r \in Owned(u) PROVE r \notin InFrame(FrameIndex)
        <5>1. PICK i \in Frame : r \in InFrame(i)  BY <1>0 DEF ReferencesKept
        <5> QED  BY <3>3, <5>1
      <4> QED  BY <4>1
    <3>5. (UNION {InFrame(i) : i \in Frame})' = (UNION {InFrame(i) : i \in Frame}) \cup InFrame(FrameIndex)
      <4>1. (UNION {InFrame(i) : i \in Frame})' = UNION {InFrame(i) : i \in Frame'}
        BY DEF InFrame
      <4>2. Frame' = Frame \cup {FrameIndex}  BY <2>7
      <4>3. UNION {InFrame(i) : i \in Frame \cup {FrameIndex}}
              = (UNION {InFrame(i) : i \in Frame}) \cup InFrame(FrameIndex)
        OBVIOUS
      <4> QED  BY <4>1, <4>2, <4>3
    <3>6. (references \cup UNION {Owned(u) : u \in GtThread})' = (UNION {InFrame(i) : i \in Frame})'
      BY <1>0, <2>5, <2>7, <3>5 DEF ReferencesKept
    <3>7. \A u \in GtThread :
            /\ Owned(u)' \cap references' = {}
            /\ cached'[u] \cap (Held(u)' \cup Using(u)') = {} /\ Held(u)' \cap Using(u)' = {}
            /\ \A v \in GtThread : v # u => Owned(u)' \cap Owned(v)' = {}
      BY <1>0, <2>5, <2>7, <3>4 DEF ReferencesKept
    <3> QED  BY <3>2, <3>6, <3>7 DEF ReferencesKept, Adding
  <2> QED  BY <1>5, <2>2, <2>6, <2>7 DEF GnttabExpanded
<1> QED  BY <1>1, <1>2, <1>3, <1>4, <1>5

\* What the steps of one thread do with references, each an exchange.
LEMMA KeptClient ==
  ASSUME OneLock, KeptInv, NEW t \in GtThread,
         \/ GnttabEntryCtor(t) \/ WriteEntry(t) \/ PermitEntry(t) \/ AttemptRevoke(t) \/ ClearEntry(t) \/ Spill(t)
         \/ \E page \in Page : GnttabPermitForeignAccess(t, page)
         \/ \E r \in Reference : GnttabRevokeForeignAccess(t, r)
  PROVE  ReferencesKept'
<1>0. /\ gt \in [GtThread -> Doing] /\ gt[t] \in Doing /\ ReferencesKept /\ GnttabTypeOK
      /\ granted \in [GtThread -> SUBSET (Reference \X GtPages)]
      /\ cached \in [GtThread -> SUBSET Reference]
  BY DEF GnttabTypeOK, KeptInv
<1>a. /\ Owned(t) \cap references = {}
      /\ cached[t] \cap (Held(t) \cup Using(t)) = {} /\ Held(t) \cap Using(t) = {}
  BY <1>0 DEF ReferencesKept
<1>b. ASSUME Others(t), gt[t].pc # "expand", gt'[t].pc # "expand",
             UNCHANGED <<Frame, FrameIndex>>,
             \A u \in GtThread : u # t => cached'[u] = cached[u] /\ granted'[u] = granted[u],
             references' \cup Owned(t)' = references \cup Owned(t), Owned(t)' \cap references' = {},
             cached'[t] \cap (Held(t)' \cup Using(t)') = {}, Held(t)' \cap Using(t)' = {}
      PROVE  ReferencesKept'
  <2>1. \A u \in GtThread : u # t => cached'[u] = cached[u] /\ Held(u)' = Held(u) /\ Using(u)' = Using(u)
    BY <1>b DEF Others, Held, Using
  <2>2. Adding' = Adding  BY <1>b DEF Adding, Others
  <2> QED  BY <1>0, <1>b, <2>1, <2>2, Exchange
<1>1. CASE GnttabEntryCtor(t)
  <2>1. PICK r \in references :
          /\ references' = references \ {r}
          /\ gt' = [gt EXCEPT ![t] = [@ EXCEPT !.pc = "write", !.ref = r]]
    BY <1>0, <1>1, PopTakes
  <2>2. /\ Others(t) /\ gt[t].pc = "pop" /\ gt'[t].pc = "write" /\ gt'[t].ref = r
        /\ UNCHANGED <<Frame, FrameIndex, cached, granted>>
    BY <1>0, <1>1, <2>1 DEF GnttabEntryCtor, Others, Doing
  <2>3. Using(t) = {} /\ Using(t)' = {r} /\ Held(t)' = Held(t)  BY <2>2 DEF Using, Held
  <2>4. r \notin Owned(t)  BY <1>a
  <2> QED  BY <1>a, <1>b, <2>1, <2>2, <2>3, <2>4 DEF Owned
<1>2. CASE WriteEntry(t)
  <2>1. Others(t) /\ gt[t].pc = "write" /\ gt'[t] = [gt[t] EXCEPT !.pc = "permit"]
    BY <1>0, <1>2, Turn DEF Point
  <2>2. gt'[t].pc = "permit" /\ gt'[t].ref = gt[t].ref  BY <1>0, <2>1 DEF Doing
  <2>3. UNCHANGED <<Frame, FrameIndex, cached, granted, references>>  BY <1>2 DEF WriteEntry
  <2>4. Using(t)' = Using(t) /\ Held(t)' = Held(t)  BY <2>1, <2>2, <2>3 DEF Using, Held
  <2> QED  BY <1>a, <1>b, <2>1, <2>2, <2>3, <2>4 DEF Owned
<1>3. CASE PermitEntry(t)
  <2>1. Others(t) /\ gt[t].pc = "permit" /\ gt'[t] = Rest  BY <1>0, <1>3, Turn
  <2>2. /\ UNCHANGED <<Frame, FrameIndex, cached, references>>
        /\ granted' = [granted EXCEPT ![t] = @ \cup {<<gt[t].ref, gt[t].page>>}]
    BY <1>3 DEF PermitEntry
  <2>3. Held(t)' = Held(t) \cup {gt[t].ref}
    <3>1. granted'[t] = granted[t] \cup {<<gt[t].ref, gt[t].page>>}  BY <1>0, <2>2
    <3>2. <<gt[t].ref, gt[t].page>>[1] = gt[t].ref  OBVIOUS
    <3> QED  BY <3>1, <3>2 DEF Held
  <2>4. Using(t) = {gt[t].ref} /\ Using(t)' = {} /\ gt'[t].pc # "expand" BY <2>1 DEF Using, Rest
  <2>5. \A u \in GtThread : u # t => granted'[u] = granted[u]  BY <1>0, <2>2
  <2> QED  BY <1>a, <1>b, <2>1, <2>2, <2>3, <2>4, <2>5 DEF Owned
<1>4. CASE AttemptRevoke(t)
  <2>1. Others(t) /\ gt[t].pc = "revoke" /\ (gt'[t] = Rest \/ gt'[t].pc \in {"revoke", "clear"})
    BY <1>0, <1>4, TurnClient
  <2>2. UNCHANGED <<Frame, FrameIndex, cached, granted, references>>  BY <1>4 DEF AttemptRevoke
  <2>3. Using(t)' = {} /\ Using(t) = {} /\ Held(t)' = Held(t) /\ gt'[t].pc # "expand"
    BY <2>1, <2>2 DEF Using, Held, Rest
  <2> QED  BY <1>a, <1>b, <2>1, <2>2, <2>3 DEF Owned
<1>5. CASE ClearEntry(t)
  <2>1. Others(t) /\ gt[t].pc = "clear" /\ gt'[t] = Rest  BY <1>0, <1>5, TurnClient
  <2>2. /\ UNCHANGED <<Frame, FrameIndex, references>>
        /\ granted' = [granted EXCEPT ![t] = {g \in @ : g[1] # gt[t].ref}]
        /\ cached' = [cached EXCEPT ![t] = @ \cup {gt[t].ref}]
    BY <1>5 DEF ClearEntry
  <2>3. Held(t)' = Held(t) \ {gt[t].ref}  BY <1>0, <2>2 DEF Held
  <2>4. gt[t].ref \in Held(t)  BY <2>1 DEF KeptInv, RevokeInv
  <2>5. Using(t) = {} /\ Using(t)' = {} /\ gt'[t].pc # "expand"  BY <2>1 DEF Using, Rest
  <2>6. /\ \A u \in GtThread : u # t => granted'[u] = granted[u] /\ cached'[u] = cached[u]
        /\ cached'[t] = cached[t] \cup {gt[t].ref}
    BY <1>0, <2>2
  <2> QED  BY <1>a, <1>b, <2>1, <2>2, <2>3, <2>4, <2>5, <2>6 DEF Owned
<1>6. CASE Spill(t)
  <2>1. PICK S \in SUBSET cached[t] :
          cached' = [cached EXCEPT ![t] = @ \ S] /\ references' = references \cup S
    BY <1>6 DEF Spill
  <2>2. UNCHANGED <<Frame, FrameIndex, granted, gt>>  BY <1>6 DEF Spill
  <2>3. \A u \in GtThread : cached'[u] = IF u = t THEN cached[t] \ S ELSE cached[u]  BY <1>0, <2>1
  <2>4. Adding' = Adding /\ \A u \in GtThread : Held(u)' = Held(u) /\ Using(u)' = Using(u)
    BY <2>2 DEF Adding, Held, Using
  <2>5. references' \cup Owned(t)' = references \cup Owned(t) /\ Owned(t)' \cap references' = {}
    BY <1>a, <2>1, <2>3, <2>4 DEF Owned
  <2> QED  BY <1>0, <1>a, <2>2, <2>3, <2>4, <2>5, Exchange
<1>7. ASSUME NEW page \in Page, GnttabPermitForeignAccess(t, page) PROVE ReferencesKept'
  <2>1. Others(t) /\ gt[t] = Rest /\ gt'[t].pc \in {"pop", "write"}  BY <1>0, <1>7, TurnClient
  <2>2. UNCHANGED <<Frame, FrameIndex, granted, references>>
    BY <1>7 DEF GnttabPermitForeignAccess
  <2>3. Using(t) = {} /\ Held(t)' = Held(t) /\ gt[t].pc # "expand"
    BY <2>1, <2>2 DEF Using, Held, Rest
  <2>4. CASE gt'[t].pc = "pop" /\ UNCHANGED cached
    <3>1. Using(t)' = {}  BY <2>4 DEF Using
    <3> QED  BY <1>a, <1>b, <2>1, <2>2, <2>3, <2>4, <3>1 DEF Owned
  <2>5. ASSUME NEW r \in cached[t], cached' = [cached EXCEPT ![t] = @ \ {r}],
               gt'[t].pc = "write", gt'[t].ref = r
        PROVE  ReferencesKept'
    <3>1. Using(t)' = {r}  BY <2>5 DEF Using
    <3>2. \A u \in GtThread : cached'[u] = IF u = t THEN cached[t] \ {r} ELSE cached[u]  BY <1>0, <2>5
    <3> QED  BY <1>a, <1>b, <2>1, <2>2, <2>3, <2>5, <3>1, <3>2 DEF Owned
  <2> QED  BY <1>0, <1>7, <2>4, <2>5, ZenonT(60) DEF GnttabPermitForeignAccess, Rest
<1>8. ASSUME NEW r \in Reference, GnttabRevokeForeignAccess(t, r) PROVE ReferencesKept'
  <2>1. Others(t) /\ gt[t] = Rest /\ gt'[t].pc = "revoke"  BY <1>0, <1>8, TurnClient
  <2>2. UNCHANGED <<Frame, FrameIndex, cached, granted, references>>
    BY <1>8 DEF GnttabRevokeForeignAccess
  <2>3. Using(t)' = {} /\ Using(t) = {} /\ Held(t)' = Held(t) /\ gt[t].pc # "expand"
    BY <2>1, <2>2 DEF Using, Held, Rest
  <2> QED  BY <1>a, <1>b, <2>1, <2>2, <2>3 DEF Owned
<1> QED  BY <1>1, <1>2, <1>3, <1>4, <1>5, <1>6, <1>7, <1>8

\* Every step keeps the references in one place.
LEMMA KeptStep == ASSUME OneLock, KeptInv, [GnttabNext]_gtVars PROVE KeptInv'
<1>1. GnttabTypeOK' /\ LockInv' /\ AcquiredInv' /\ RevokeInv'
  BY TypeStep, LockStep, AcquiredStep, RevokeStep DEF KeptInv
<1>2. CASE UNCHANGED <<Frame, FrameIndex, references, cached, granted, gt>>
  <2>1. \A u \in GtThread : /\ cached'[u] = cached[u] /\ Held(u)' = Held(u) /\ Using(u)' = Using(u)
                            /\ Owned(u)' = Owned(u)
    BY <1>2 DEF Held, Using, Owned
  <2>2. ReferencesKept'  BY <1>2, <2>1 DEF KeptInv, ReferencesKept, InFrame
  <2> QED  BY <1>1, <2>2 DEF KeptInv
<1>3. ASSUME GnttabNext, ~UNCHANGED <<Frame, FrameIndex, references, cached, granted, gt>>
      PROVE  ReferencesKept'
  <2>1. ~(\E r \in Reference : BackendMap(r) \/ BackendUnmap(r))
    BY <1>3 DEF BackendMap, BackendUnmap
  <2> QED  BY <1>3, <2>1, KeptFrames, KeptClient DEF GnttabNext
<1> QED  BY <1>1, <1>2, <1>3 DEF KeptInv, gtVars

-----------------------------------------------------------------------------
(* What the hypervisor lets the backend do.                                *)

Granted == UNION {granted[t] : t \in GtThread}
PermitGranted == \A r \in Reference : table[r].permit => <<r, table[r].page>> \in Granted
GrantedPermit ==
  \A t \in GtThread : \A g \in granted[t] :
    g[1] \in stale \/ table[g[1]].permit \/ (gt[t].pc = "clear" /\ gt[t].ref = g[1])
MappedGranted == \A m \in mapping : m[1] \in exhausted \/ m \in Granted

\* GrantsExact in three parts ...
LEMMA Exact == GrantsExact <=> PermitGranted /\ GrantedPermit /\ MappedGranted
BY DEF GrantsExact, PermitGranted, GrantedPermit, MappedGranted, Granted

\* ... and after a step.
LEMMA ExactNext == GrantsExact' <=> PermitGranted' /\ GrantedPermit' /\ MappedGranted'
BY DEF GrantsExact, PermitGranted, GrantedPermit, MappedGranted, Granted

\* A reference in use by one thread is not granted, and not in use by another.
LEMMA Apart ==
  ASSUME KeptInv, NEW t \in GtThread
  PROVE  /\ gt[t].pc \in {"write", "permit"} =>
              /\ \A u \in GtThread : gt[t].ref \notin Held(u)
              /\ \A u \in GtThread : u # t /\ gt[u].pc \in {"write", "permit"} => gt[u].ref # gt[t].ref
         /\ \A u \in GtThread : u # t => Held(t) \cap Held(u) = {}
<1>1. \A u \in GtThread : Held(u) \cap Using(u) = {} /\ \A v \in GtThread : v # u => Owned(u) \cap Owned(v) = {}
  BY DEF KeptInv, ReferencesKept
<1>2. \A u \in GtThread : Held(u) \subseteq Owned(u) /\ Using(u) \subseteq Owned(u)
  BY DEF Owned
<1>3. \A u \in GtThread : gt[u].pc \in {"write", "permit"} => gt[u].ref \in Using(u)
  BY DEF Using
<1>4. ASSUME gt[t].pc \in {"write", "permit"}, NEW u \in GtThread PROVE gt[t].ref \notin Held(u)
  <2>1. CASE u = t  BY <1>1, <1>3, <1>4, <2>1
  <2>2. CASE u # t  BY <1>1, <1>2, <1>3, <1>4, <2>2
  <2> QED  BY <2>1, <2>2
<1>5. ASSUME gt[t].pc \in {"write", "permit"}, NEW u \in GtThread, u # t, gt[u].pc \in {"write", "permit"}
      PROVE  gt[u].ref # gt[t].ref
  BY <1>1, <1>2, <1>3, <1>5
<1>6. \A u \in GtThread : u # t => Held(t) \cap Held(u) = {}  BY <1>1, <1>2
<1> QED  BY <1>4, <1>5, <1>6

\* Whoever has a grant holds its reference.
LEMMA Holds ==
  ASSUME GnttabTypeOK
  PROVE  /\ \A t \in GtThread : \A g \in granted[t] : g[1] \in Held(t) /\ g[1] \in Reference
         /\ \A g \in Granted : \E t \in GtThread : g \in granted[t] /\ g[1] \in Held(t)
         /\ \A m \in mapping : m[1] \in Reference
<1>1. \A t \in GtThread : granted[t] \in SUBSET (Reference \X GtPages)  BY DEF GnttabTypeOK
<1>2. \A t \in GtThread : \A g \in granted[t] : g[1] \in Held(t) /\ g[1] \in Reference
  BY <1>1 DEF Held
<1>3. \A m \in mapping : m[1] \in Reference  BY DEF GnttabTypeOK
<1> QED  BY <1>2, <1>3 DEF Granted

\* The entries and the grants agree.
Exactly == EntryInv /\ GrantsExact

\* A step that touches no entry, and whose thread is at neither end of a grant.
LEMMA Untouched ==
  ASSUME KeptInv, Exactly, UNCHANGED <<table, granted, mapping, stale, exhausted>>,
         NEW t \in GtThread, Others(t), gt[t].pc # "clear", gt'[t].pc \notin {"permit", "clear"}
  PROVE  Exactly'
<1>1. PageWritten' /\ ClearShut'  BY DEF Exactly, EntryInv, PageWritten, ClearShut, Others
<1>2. MappedOnce' /\ MappedRead'  BY DEF Exactly, EntryInv, MappedOnce, MappedRead
<1>3. Granted' = Granted  BY DEF Granted
<1>4. PermitGranted' /\ MappedGranted'  BY Exact, <1>3 DEF Exactly, PermitGranted, MappedGranted
<1>5. GrantedPermit'  BY Exact DEF Exactly, GrantedPermit, Others
<1> QED  BY <1>1, <1>2, <1>4, <1>5, ExactNext DEF Exactly, EntryInv

\* A step that leaves all threads and entries alone.
LEMMA UntouchedAll ==
  ASSUME KeptInv, Exactly, UNCHANGED <<table, granted, mapping, stale, exhausted, gt>>
  PROVE  Exactly'
<1>1. PageWritten' /\ ClearShut'  BY DEF Exactly, EntryInv, PageWritten, ClearShut
<1>2. MappedOnce' /\ MappedRead'  BY DEF Exactly, EntryInv, MappedOnce, MappedRead
<1>3. Granted' = Granted  BY DEF Granted
<1>4. PermitGranted' /\ MappedGranted'  BY Exact, <1>3 DEF Exactly, PermitGranted, MappedGranted
<1>5. GrantedPermit'  BY Exact DEF Exactly, GrantedPermit
<1> QED  BY <1>1, <1>2, <1>4, <1>5, ExactNext DEF Exactly, EntryInv

\* GnttabRelease and a resume leave no entry.
LEMMA Emptied ==
  ASSUME KeptInv, table' = [r \in Reference |-> Blank], mapping' = {},
         \A t \in GtThread : gt'[t].pc \notin {"permit", "clear"},
         \A t \in GtThread : \A g \in granted'[t] : g[1] \in stale'
  PROVE  Exactly'
<1>1. PageWritten' /\ ClearShut' /\ MappedOnce' /\ MappedRead' /\ MappedGranted'
  BY DEF PageWritten, ClearShut, MappedOnce, MappedRead, MappedGranted
<1>2. PermitGranted' /\ GrantedPermit'  BY DEF PermitGranted, GrantedPermit, Blank
<1> QED  BY <1>1, <1>2, ExactNext DEF Exactly, EntryInv

\* GnttabPermitForeignAccess writes domain and page: no flag is set yet, so
\* the backend cannot map.
LEMMA ExactWrite ==
  ASSUME KeptInv, Exactly, NEW t \in GtThread, WriteEntry(t)
  PROVE  Exactly'
<1> DEFINE r == gt[t].ref
<1>0. /\ GnttabTypeOK /\ gt \in [GtThread -> Doing] /\ table \in [Reference -> Entry] /\ r \in Reference
  BY Goes DEF KeptInv, GnttabTypeOK
<1>1. Others(t) /\ gt[t].pc = "write" /\ gt'[t].pc = "permit" /\ gt'[t].ref = r /\ gt'[t].page = gt[t].page
  BY <1>0, Turn DEF Doing, Point
<1>2. UNCHANGED <<granted, mapping, stale, exhausted>>  BY DEF WriteEntry
<1>3. /\ table'[r].page = gt[t].page /\ ~table'[r].permit /\ ~table'[r].reading
      /\ \A q \in Reference : q # r => table'[q] = table[q]
  <2>1. table' = [table EXCEPT ![r] = [Blank EXCEPT !.page = gt[t].page]]  BY DEF WriteEntry
  <2> QED  BY <1>0, <2>1 DEF Blank
<1>4. /\ \A u \in GtThread : r \notin Held(u)
      /\ \A u \in GtThread : u # t /\ gt[u].pc \in {"write", "permit"} => gt[u].ref # r
  BY <1>1, Apart
<1>5. \A u \in GtThread : gt[u].ref \in Reference  BY <1>0, Goes
<1>6. PageWritten'
  <2>1. ASSUME NEW u \in GtThread, u # t, gt'[u].pc = "permit" PROVE table'[gt'[u].ref].page = gt'[u].page
    <3>1. gt'[u] = gt[u]  BY <1>1, <2>1 DEF Others
    <3>2. gt[u].ref # r /\ gt[u].ref \in Reference  BY <1>4, <1>5, <2>1, <3>1
    <3> QED  BY <1>3, <2>1, <3>1, <3>2 DEF Exactly, EntryInv, PageWritten
  <2> QED  BY <1>1, <1>3, <2>1 DEF PageWritten
<1>7. MappedOnce'  BY <1>2 DEF Exactly, EntryInv, MappedOnce
<1>8. \A m \in mapping : m[1] = r => m[1] \in exhausted
  BY <1>0, <1>4, Holds, Exact DEF Exactly, MappedGranted
<1>9. MappedRead'
  BY <1>0, <1>2, <1>3, <1>8, Holds DEF Exactly, EntryInv, MappedRead
<1>10. ClearShut'
  <2>1. ASSUME NEW u \in GtThread, gt'[u].pc = "clear" PROVE gt[u] = gt'[u] /\ gt[u].ref # r
    <3>1. u # t /\ gt'[u] = gt[u]  BY <1>1, <2>1 DEF Others
    <3> QED  BY <1>4, <2>1, <3>1 DEF KeptInv, RevokeInv
  <2> QED  BY <1>2, <1>3, <1>5, <2>1 DEF Exactly, EntryInv, ClearShut
<1>11. Granted' = Granted  BY <1>2 DEF Granted
<1>12. PermitGranted'  BY <1>3, <1>11, Exact DEF Exactly, PermitGranted
<1>13. MappedGranted'  BY <1>2, <1>11, Exact DEF Exactly, MappedGranted
<1>14. GrantedPermit'
  <2>1. ASSUME NEW u \in GtThread, NEW g \in granted[u]
        PROVE  g[1] \in stale' \/ table'[g[1]].permit \/ (gt'[u].pc = "clear" /\ gt'[u].ref = g[1])
    <3>1. g[1] # r /\ g[1] \in Reference  BY <1>0, <1>4, Holds
    <3>2. u # t => gt'[u] = gt[u]  BY <1>1 DEF Others
    <3> QED  BY <1>1, <1>2, <1>3, <3>1, <3>2, Exact DEF Exactly, GrantedPermit
  <2> QED  BY <1>2, <2>1 DEF GrantedPermit
<1> QED
  BY <1>6, <1>7, <1>9, <1>10, <1>12, <1>13, <1>14, ExactNext DEF Exactly, EntryInv

\* It sets the flags: from here on the backend may map the page.
LEMMA ExactPermit ==
  ASSUME KeptInv, Exactly, NEW t \in GtThread, PermitEntry(t)
  PROVE  Exactly'
<1> DEFINE r == gt[t].ref
<1>0. /\ GnttabTypeOK /\ gt \in [GtThread -> Doing] /\ table \in [Reference -> Entry] /\ r \in Reference
      /\ granted \in [GtThread -> SUBSET (Reference \X GtPages)]
  BY Goes DEF KeptInv, GnttabTypeOK
<1>1. Others(t) /\ gt[t].pc = "permit" /\ gt'[t].pc = "idle"
  <2>1. Others(t) /\ gt[t].pc = "permit" /\ gt'[t] = Rest  BY <1>0, Turn
  <2> QED  BY <2>1 DEF Rest
<1>2. /\ UNCHANGED <<mapping, stale, exhausted>>
      /\ granted'[t] = granted[t] \cup {<<r, gt[t].page>>}
      /\ \A u \in GtThread : u # t => granted'[u] = granted[u]
  BY <1>0 DEF PermitEntry
<1>3. /\ table'[r].page = table[r].page /\ table'[r].permit /\ table'[r].reading = table[r].reading
      /\ \A q \in Reference : q # r => table'[q] = table[q]
  <2>1. table' = [table EXCEPT ![r] = [table[r] EXCEPT !.permit = TRUE]] /\ table[r] \in Entry
    BY <1>0 DEF PermitEntry
  <2> QED  BY <1>0, <2>1 DEF Entry
<1>4. \A u \in GtThread : r \notin Held(u)  BY <1>1, Apart
<1>5. \A u \in GtThread : gt[u].ref \in Reference  BY <1>0, Goes
<1>6. PageWritten'
  <2>1. ASSUME NEW u \in GtThread, gt'[u].pc = "permit" PROVE table'[gt'[u].ref].page = gt'[u].page
    <3>1. u # t /\ gt'[u] = gt[u]  BY <1>1, <2>1 DEF Others
    <3>2. table'[gt[u].ref].page = table[gt[u].ref].page  BY <1>3, <1>5
    <3> QED  BY <2>1, <3>1, <3>2 DEF Exactly, EntryInv, PageWritten
  <2> QED  BY <2>1 DEF PageWritten
<1>7. MappedOnce'  BY <1>2 DEF Exactly, EntryInv, MappedOnce
<1>8. MappedRead'
  <2>1. \A q \in Reference : table'[q].reading = table[q].reading  BY <1>3
  <2> QED  BY <1>0, <1>2, <2>1, Holds DEF Exactly, EntryInv, MappedRead
<1>9. ClearShut'
  <2>1. ASSUME NEW u \in GtThread, gt'[u].pc = "clear" PROVE gt[u] = gt'[u] /\ gt[u].ref # r
    <3>1. u # t /\ gt'[u] = gt[u]  BY <1>1, <2>1 DEF Others
    <3> QED  BY <1>4, <2>1, <3>1 DEF KeptInv, RevokeInv
  <2> QED  BY <1>2, <1>3, <1>5, <2>1 DEF Exactly, EntryInv, ClearShut
<1>10. Granted \subseteq Granted' /\ <<r, gt[t].page>> \in Granted'  BY <1>2 DEF Granted
<1>11. PermitGranted'
  <2>1. table'[r].page = gt[t].page  BY <1>1, <1>3 DEF Exactly, EntryInv, PageWritten
  <2> QED  BY <1>3, <1>10, <2>1, Exact DEF Exactly, PermitGranted
<1>12. MappedGranted'  BY <1>2, <1>10, Exact DEF Exactly, MappedGranted
<1>13. GrantedPermit'
  <2>1. ASSUME NEW u \in GtThread, NEW g \in granted[u]
        PROVE  g[1] \in stale' \/ table'[g[1]].permit \/ (gt'[u].pc = "clear" /\ gt'[u].ref = g[1])
    <3>1. g[1] # r /\ g[1] \in Reference  BY <1>0, <1>4, Holds
    <3>2. u # t => gt'[u] = gt[u]  BY <1>1 DEF Others
    <3> QED  BY <1>1, <1>2, <1>3, <3>1, <3>2, Exact DEF Exactly, GrantedPermit
  <2>2. \A g \in granted'[t] : g \in granted[t] \/ g[1] = r  BY <1>2
  <2> QED  BY <1>2, <1>3, <2>1, <2>2 DEF GrantedPermit
<1> QED
  BY <1>6, <1>7, <1>8, <1>9, <1>11, <1>12, <1>13, ExactNext DEF Exactly, EntryInv

\* GnttabRevokeForeignAccess exchanges the flags: it succeeds only while
\* nobody reads or writes through the entry.
LEMMA ExactAttempt ==
  ASSUME KeptInv, Exactly, NEW t \in GtThread, AttemptRevoke(t)
  PROVE  Exactly'
<1> DEFINE r == gt[t].ref
<1>0. /\ GnttabTypeOK /\ gt \in [GtThread -> Doing] /\ table \in [Reference -> Entry] /\ r \in Reference
  BY Goes DEF KeptInv, GnttabTypeOK
<1>1. /\ Others(t) /\ gt[t].pc = "revoke"
      /\ gt'[t] = Rest \/ (gt'[t].pc \in {"revoke", "clear"} /\ gt'[t].ref = r)
  BY <1>0, TurnClient
<1>2. UNCHANGED <<mapping, granted>> /\ Granted' = Granted  BY DEF AttemptRevoke, Granted
<1>3. gt'[t].pc # "permit"  BY <1>1 DEF Rest
<1>4. \A u \in GtThread : gt[u].ref \in Reference  BY <1>0, Goes
<1>5. CASE /\ ~table[r].reading /\ table' = [table EXCEPT ![r].permit = FALSE] /\ UNCHANGED exhausted
           /\ stale \subseteq stale'
           /\ \/ gt'[t].pc = "clear" /\ gt'[t].ref = r
              \/ r \in stale'
  <2>1. /\ table'[r].page = table[r].page /\ ~table'[r].permit /\ table'[r].reading = table[r].reading
        /\ \A q \in Reference : q # r => table'[q] = table[q]
    <3>1. table' = [table EXCEPT ![r] = [table[r] EXCEPT !.permit = FALSE]] /\ table[r] \in Entry
      BY <1>0, <1>5
    <3> QED  BY <1>0, <3>1 DEF Entry
  <2>2. PageWritten'
    <3>1. \A u \in GtThread : table'[gt[u].ref].page = table[gt[u].ref].page  BY <1>4, <2>1
    <3> QED  BY <1>1, <1>3, <3>1 DEF Exactly, EntryInv, PageWritten, Others
  <2>3. MappedOnce'  BY <1>2 DEF Exactly, EntryInv, MappedOnce
  <2>4. MappedRead'
    <3>1. \A q \in Reference : table'[q].reading = table[q].reading  BY <2>1
    <3> QED  BY <1>0, <1>2, <1>5, <3>1, Holds DEF Exactly, EntryInv, MappedRead
  <2>5. \A m \in mapping : m[1] = r => r \in exhausted
    BY <1>5 DEF Exactly, EntryInv, MappedRead
  <2>6. ClearShut'
    <3>1. ASSUME NEW u \in GtThread, gt'[u].pc = "clear"
          PROVE  gt'[u].ref \in exhausted' \/ (~table'[gt'[u].ref].permit /\ \A m \in mapping' : m[1] # gt'[u].ref)
      <4>1. CASE u = t
        <5>1. gt'[t].ref = r  BY <1>1, <3>1, <4>1 DEF Rest
        <5> QED  BY <1>2, <1>5, <2>1, <2>5, <4>1, <5>1
      <4>2. CASE u # t
        <5>1. gt'[u] = gt[u]  BY <1>1, <4>2 DEF Others
        <5>2. table'[gt[u].ref].permit => table[gt[u].ref].permit  BY <1>4, <2>1
        <5>3. gt[u].ref \in exhausted \/ (~table[gt[u].ref].permit /\ \A m \in mapping : m[1] # gt[u].ref)
          BY <3>1, <5>1 DEF Exactly, EntryInv, ClearShut
        <5> QED  BY <1>2, <1>5, <5>1, <5>2, <5>3
      <4> QED  BY <4>1, <4>2
    <3> QED  BY <3>1 DEF ClearShut
  <2>7. PermitGranted'  BY <1>2, <2>1, Exact DEF Exactly, PermitGranted
  <2>8. MappedGranted'  BY <1>2, <1>5, Exact DEF Exactly, MappedGranted
  <2>9. GrantedPermit'
    <3>1. ASSUME NEW u \in GtThread, NEW g \in granted[u]
          PROVE  g[1] \in stale' \/ table'[g[1]].permit \/ (gt'[u].pc = "clear" /\ gt'[u].ref = g[1])
      <4>1. g[1] \in Held(u) /\ g[1] \in Reference  BY <1>0, Holds
      <4>2. g[1] \in stale \/ table[g[1]].permit \/ (gt[u].pc = "clear" /\ gt[u].ref = g[1])
        BY Exact DEF Exactly, GrantedPermit
      <4>3. CASE g[1] = r
        <5>1. u = t
          <6>1. r \in Held(t)  BY <1>1 DEF KeptInv, RevokeInv
          <6> QED  BY <4>1, <4>3, <6>1, Apart
        <5> QED  BY <1>5, <4>3, <5>1
      <4>4. CASE g[1] # r
        <5>1. table'[g[1]] = table[g[1]]  BY <2>1, <4>1, <4>4
        <5>2. u # t => gt'[u] = gt[u]  BY <1>1 DEF Others
        <5> QED  BY <1>1, <1>5, <4>2, <5>1, <5>2
      <4> QED  BY <4>3, <4>4
    <3> QED  BY <1>2, <3>1 DEF GrantedPermit
  <2> QED  BY <2>2, <2>3, <2>4, <2>6, <2>7, <2>8, <2>9, ExactNext DEF Exactly, EntryInv
<1>6. CASE /\ UNCHANGED <<table, stale>> /\ exhausted \subseteq exhausted'
           /\ gt'[t].pc = "clear" => r \in exhausted'
  <2>1. PageWritten'  BY <1>1, <1>3, <1>6 DEF Exactly, EntryInv, PageWritten, Others
  <2>2. MappedOnce' /\ MappedRead'  BY <1>2, <1>6 DEF Exactly, EntryInv, MappedOnce, MappedRead
  <2>3. ClearShut'
    <3>1. gt'[t].pc = "clear" => gt'[t].ref \in exhausted'  BY <1>1, <1>6 DEF Rest
    <3> QED  BY <1>1, <1>2, <1>6, <3>1 DEF Exactly, EntryInv, ClearShut, Others
  <2>4. PermitGranted' /\ MappedGranted'
    BY <1>2, <1>6, Exact DEF Exactly, PermitGranted, MappedGranted
  <2>5. GrantedPermit'  BY <1>1, <1>2, <1>6, Exact DEF Exactly, GrantedPermit, Others
  <2> QED  BY <2>1, <2>2, <2>3, <2>4, <2>5, ExactNext DEF Exactly, EntryInv
<1>7. CASE gt[t].attempt + 1 = Attempts
  BY <1>0, <1>5, <1>6, <1>7 DEF AttemptRevoke
<1>8. CASE gt[t].attempt + 1 # Attempts
  <2>1. CASE ~table[r].reading /\ gt' = [gt EXCEPT ![t] = [@ EXCEPT !.pc = "clear"]]
    <3>1. gt'[t].pc = "clear" /\ gt'[t].ref = r  BY <1>0, <2>1 DEF Doing
    <3>2. table' = [table EXCEPT ![r].permit = FALSE] /\ UNCHANGED <<stale, exhausted>>
      BY <1>8, <2>1 DEF AttemptRevoke
    <3> QED  BY <1>5, <2>1, <3>1, <3>2
  <2>2. CASE /\ UNCHANGED <<table, stale, exhausted>>
             /\ gt' = [gt EXCEPT ![t] = [@ EXCEPT !.attempt = gt[t].attempt + 1, !.pc = "revoke"]]
    <3>1. gt'[t].pc = "revoke"  BY <1>0, <2>2 DEF Doing
    <3> QED  BY <1>6, <2>2, <3>1
  <2> QED  BY <1>8, <2>1, <2>2 DEF AttemptRevoke
<1> QED  BY <1>7, <1>8

\* It clears the entry and gives the reference back.
LEMMA ExactClear ==
  ASSUME KeptInv, Exactly, NEW t \in GtThread, ClearEntry(t)
  PROVE  Exactly'
<1> DEFINE r == gt[t].ref
<1>0. /\ GnttabTypeOK /\ gt \in [GtThread -> Doing] /\ table \in [Reference -> Entry] /\ r \in Reference
      /\ granted \in [GtThread -> SUBSET (Reference \X GtPages)]
  BY Goes DEF KeptInv, GnttabTypeOK
<1>1. Others(t) /\ gt[t].pc = "clear" /\ gt'[t].pc = "idle"  BY <1>0, TurnClient DEF Rest
<1>2. /\ UNCHANGED <<mapping, exhausted>> /\ stale' = stale \ {r}
      /\ granted'[t] = {g \in granted[t] : g[1] # r}
      /\ \A u \in GtThread : u # t => granted'[u] = granted[u]
  BY <1>0 DEF ClearEntry
<1>3. table'[r] = Blank /\ \A q \in Reference : q # r => table'[q] = table[q]
  BY <1>0 DEF ClearEntry
<1>4. r \in Held(t) /\ \A u \in GtThread : u # t => r \notin Held(u)
  BY <1>1, Apart DEF KeptInv, RevokeInv
<1>5. \A u \in GtThread : gt[u].ref \in Reference  BY <1>0, Goes
<1>6. PageWritten'
  <2>1. ASSUME NEW u \in GtThread, gt'[u].pc = "permit" PROVE table'[gt'[u].ref].page = gt'[u].page
    <3>1. u # t /\ gt'[u] = gt[u]  BY <1>1, <2>1 DEF Others
    <3>2. gt[u].ref # r  BY <1>4, <2>1, <3>1, Apart
    <3> QED  BY <1>3, <1>5, <2>1, <3>1, <3>2 DEF Exactly, EntryInv, PageWritten
  <2> QED  BY <2>1 DEF PageWritten
<1>7. MappedOnce'  BY <1>2 DEF Exactly, EntryInv, MappedOnce
<1>8. \A m \in mapping : m[1] = r => r \in exhausted
  BY <1>1 DEF Exactly, EntryInv, ClearShut
<1>9. MappedRead'  BY <1>0, <1>2, <1>3, <1>8, Holds DEF Exactly, EntryInv, MappedRead
<1>10. ClearShut'
  <2>1. ASSUME NEW u \in GtThread, gt'[u].pc = "clear" PROVE gt[u] = gt'[u] /\ gt[u].ref # r
    <3>1. u # t /\ gt'[u] = gt[u]  BY <1>1, <2>1 DEF Others
    <3> QED  BY <1>4, <2>1, <3>1 DEF KeptInv, RevokeInv
  <2> QED  BY <1>2, <1>3, <1>5, <2>1 DEF Exactly, EntryInv, ClearShut
<1>11. \A g \in Granted : g[1] # r => g \in Granted'  BY <1>2 DEF Granted
<1>12. PermitGranted'
  <2>1. ASSUME NEW q \in Reference, table'[q].permit PROVE <<q, table'[q].page>> \in Granted'
    <3>1. q # r  BY <1>3, <2>1 DEF Blank
    <3>2. <<q, table[q].page>> \in Granted
      BY <1>3, <2>1, <3>1, Exact DEF Exactly, PermitGranted
    <3>3. <<q, table[q].page>>[1] = q  OBVIOUS
    <3> QED  BY <1>3, <1>11, <3>1, <3>2, <3>3
  <2> QED  BY <2>1 DEF PermitGranted
<1>13. MappedGranted'  BY <1>2, <1>8, <1>11, Exact DEF Exactly, MappedGranted
<1>14. GrantedPermit'
  <2>1. ASSUME NEW u \in GtThread, NEW g \in granted'[u]
        PROVE  g[1] \in stale' \/ table'[g[1]].permit \/ (gt'[u].pc = "clear" /\ gt'[u].ref = g[1])
    <3>1. g \in granted[u] /\ g[1] # r  BY <1>0, <1>2, <1>4, <2>1, Holds
    <3>2. g[1] \in Reference  BY <1>0, <3>1, Holds
    <3>3. u # t => gt'[u] = gt[u]  BY <1>1 DEF Others
    <3>4. g[1] \in stale \/ table[g[1]].permit \/ (gt[u].pc = "clear" /\ gt[u].ref = g[1])
      BY <3>1, Exact DEF Exactly, GrantedPermit
    <3> QED  BY <1>2, <1>3, <3>1, <3>2, <3>3, <3>4
  <2> QED  BY <2>1 DEF GrantedPermit
<1> QED
  BY <1>6, <1>7, <1>9, <1>10, <1>12, <1>13, <1>14, ExactNext DEF Exactly, EntryInv

\* The hypervisor maps what an entry permits, and marks the entry.
LEMMA ExactMap ==
  ASSUME KeptInv, Exactly, NEW r \in Reference, BackendMap(r)
  PROVE  Exactly'
<1>0. /\ GnttabTypeOK /\ gt \in [GtThread -> Doing] /\ table \in [Reference -> Entry]
  BY DEF KeptInv, GnttabTypeOK
<1>1. /\ table[r].permit /\ \A m \in mapping : m[1] # r
      /\ mapping' = mapping \cup {<<r, table[r].page>>}
      /\ UNCHANGED <<gt, granted, stale, exhausted>>
  BY DEF BackendMap
<1>2. /\ table'[r].page = table[r].page /\ table'[r].permit = table[r].permit /\ table'[r].reading
      /\ \A q \in Reference : q # r => table'[q] = table[q]
  <2>1. table' = [table EXCEPT ![r] = [table[r] EXCEPT !.reading = TRUE]] /\ table[r] \in Entry
    BY <1>0 DEF BackendMap
  <2> QED  BY <1>0, <2>1 DEF Entry
<1>3. \A q \in Reference : table'[q].page = table[q].page /\ table'[q].permit = table[q].permit  BY <1>2
<1>4. \A u \in GtThread : gt[u].ref \in Reference  BY <1>0, Goes
<1>5. PageWritten'  BY <1>1, <1>3, <1>4 DEF Exactly, EntryInv, PageWritten
<1>6. <<r, table[r].page>>[1] = r  OBVIOUS
<1>7. MappedOnce'
  <2>1. ASSUME NEW m \in mapping', NEW n \in mapping', m[1] = n[1] PROVE m = n
    BY <1>1, <1>6, <2>1 DEF Exactly, EntryInv, MappedOnce
  <2> QED  BY <2>1 DEF MappedOnce
<1>8. MappedRead'
  <2>1. ASSUME NEW m \in mapping' PROVE m[1] \in exhausted' \/ table'[m[1]].reading
    <3>1. CASE m \in mapping
      BY <1>0, <1>1, <1>2, <3>1, Holds DEF Exactly, EntryInv, MappedRead
    <3>2. CASE m = <<r, table[r].page>>  BY <1>2, <1>6, <3>2
    <3> QED  BY <1>1, <3>1, <3>2
  <2> QED  BY <2>1 DEF MappedRead
<1>9. ClearShut'
  <2>1. ASSUME NEW u \in GtThread, gt[u].pc = "clear"
        PROVE  gt[u].ref \in exhausted \/ (~table'[gt[u].ref].permit /\ \A m \in mapping' : m[1] # gt[u].ref)
    <3>1. gt[u].ref \in exhausted \/ (~table[gt[u].ref].permit /\ \A m \in mapping : m[1] # gt[u].ref)
      BY <2>1 DEF Exactly, EntryInv, ClearShut
    <3> QED  BY <1>1, <1>3, <1>4, <1>6, <3>1
  <2> QED  BY <1>1, <2>1 DEF ClearShut
<1>10. Granted' = Granted  BY <1>1 DEF Granted
<1>11. PermitGranted'  BY <1>3, <1>10, Exact DEF Exactly, PermitGranted
<1>12. MappedGranted'
  <2>1. <<r, table[r].page>> \in Granted  BY <1>1, Exact DEF Exactly, PermitGranted
  <2> QED  BY <1>1, <1>10, <2>1, Exact DEF Exactly, MappedGranted
<1>13. GrantedPermit'  BY <1>0, <1>1, <1>3, Exact, Holds DEF Exactly, GrantedPermit
<1> QED
  BY <1>5, <1>7, <1>8, <1>9, <1>11, <1>12, <1>13, ExactNext DEF Exactly, EntryInv

\* It unmaps, and the mark goes with the last mapping.
LEMMA ExactUnmap ==
  ASSUME KeptInv, Exactly, NEW r \in Reference, BackendUnmap(r)
  PROVE  Exactly'
<1>0. /\ GnttabTypeOK /\ gt \in [GtThread -> Doing] /\ table \in [Reference -> Entry]
  BY DEF KeptInv, GnttabTypeOK
<1>1. /\ \E m \in mapping : m[1] = r /\ mapping' = mapping \ {m}
      /\ exhausted' = IF table[r].permit THEN exhausted ELSE exhausted \ {r}
      /\ UNCHANGED <<gt, granted, stale>>
  BY DEF BackendUnmap
<1>2. /\ table'[r].page = table[r].page /\ table'[r].permit = table[r].permit
      /\ \A q \in Reference : q # r => table'[q] = table[q]
  <2>1. table' = [table EXCEPT ![r] = [table[r] EXCEPT !.reading = FALSE]] /\ table[r] \in Entry
    BY <1>0 DEF BackendUnmap
  <2> QED  BY <1>0, <2>1 DEF Entry
<1>3. \A q \in Reference : table'[q].page = table[q].page /\ table'[q].permit = table[q].permit  BY <1>2
<1>4. \A u \in GtThread : gt[u].ref \in Reference  BY <1>0, Goes
<1>5. PageWritten'  BY <1>1, <1>3, <1>4 DEF Exactly, EntryInv, PageWritten
<1>6. /\ mapping' \subseteq mapping /\ \A m \in mapping' : m[1] # r
      /\ \A q : q # r /\ q \in exhausted => q \in exhausted'
  BY <1>1 DEF Exactly, EntryInv, MappedOnce
<1>7. MappedOnce'  BY <1>6 DEF Exactly, EntryInv, MappedOnce
<1>8. MappedRead'  BY <1>0, <1>2, <1>6, Holds DEF Exactly, EntryInv, MappedRead
<1>9. ClearShut'
  <2>1. ASSUME NEW u \in GtThread, gt[u].pc = "clear"
        PROVE  gt[u].ref \in exhausted' \/ (~table'[gt[u].ref].permit /\ \A m \in mapping' : m[1] # gt[u].ref)
    <3>1. gt[u].ref \in exhausted \/ (~table[gt[u].ref].permit /\ \A m \in mapping : m[1] # gt[u].ref)
      BY <2>1 DEF Exactly, EntryInv, ClearShut
    <3> QED  BY <1>1, <1>3, <1>4, <1>6, <3>1
  <2> QED  BY <1>1, <2>1 DEF ClearShut
<1>10. Granted' = Granted  BY <1>1 DEF Granted
<1>11. PermitGranted'  BY <1>3, <1>10, Exact DEF Exactly, PermitGranted
<1>12. MappedGranted'  BY <1>6, <1>10, Exact DEF Exactly, MappedGranted
<1>13. GrantedPermit'  BY <1>0, <1>1, <1>3, Exact, Holds DEF Exactly, GrantedPermit
<1> QED
  BY <1>5, <1>7, <1>8, <1>9, <1>11, <1>12, <1>13, ExactNext DEF Exactly, EntryInv

\* Every step keeps entries and grants in agreement.
LEMMA ExactStep == ASSUME OneLock, GtPassive = {}, KeptInv, Exactly, [GnttabNext]_gtVars PROVE Exactly'
<1>0. GnttabTypeOK  BY DEF KeptInv
<1>1. CASE GnttabAcquire  BY <1>1, UntouchedAll DEF GnttabAcquire
<1>2. CASE GnttabRelease
  <2>1. /\ table' = [r \in Reference |-> Blank] /\ mapping' = {}
        /\ \A t \in GtThread : gt'[t].pc \notin {"permit", "clear"} /\ granted'[t] = {}
    BY <1>2 DEF GnttabRelease, Rest
  <2> QED  BY <2>1, Emptied
<1>3. CASE Resume
  <2>1. /\ table' = [r \in Reference |-> Blank] /\ mapping' = {}
        /\ stale' = UNION {Held(t) : t \in GtThread} /\ UNCHANGED <<gt, granted>>
        /\ \A t \in GtThread : gt[t].pc = "idle"
    BY <1>3 DEF Resume
  <2>2. \A t \in GtThread : \A g \in granted'[t] : g[1] \in stale'  BY <2>1 DEF Held
  <2> QED  BY <2>1, <2>2, Emptied
<1>4. ASSUME NEW t \in GtThread,
             UNCHANGED <<table, granted, mapping, stale, exhausted>>,
             GnttabExpand(t) \/ GnttabExpanded(t) \/ GnttabEntryCtor(t)
      PROVE  Exactly'
  <2>1. Others(t) /\ gt[t].pc # "clear" /\ gt'[t].pc \notin {"permit", "clear"}
    BY <1>0, <1>4, Turn DEF Point
  <2> QED  BY <1>4, <2>1, Untouched
<1>5. ASSUME NEW t \in GtThread, NEW page \in Page, GnttabPermitForeignAccess(t, page) PROVE Exactly'
  <2>1. Others(t) /\ gt[t] = Rest /\ gt'[t].pc \in {"pop", "write"}  BY <1>0, <1>5, TurnClient
  <2>2. UNCHANGED <<table, granted, mapping, stale, exhausted>>
    BY <1>5 DEF GnttabPermitForeignAccess
  <2> QED  BY <2>1, <2>2, Untouched DEF Rest
<1>6. ASSUME NEW t \in GtThread, NEW r \in Reference, GnttabRevokeForeignAccess(t, r) PROVE Exactly'
  <2>1. Others(t) /\ gt[t] = Rest /\ gt'[t].pc = "revoke"  BY <1>0, <1>6, TurnClient
  <2>2. UNCHANGED <<table, granted, mapping, stale, exhausted>>
    BY <1>6 DEF GnttabRevokeForeignAccess
  <2> QED  BY <2>1, <2>2, Untouched DEF Rest
<1>7. ASSUME NEW t \in GtThread, Spill(t) PROVE Exactly'  BY <1>7, UntouchedAll DEF Spill
<1>8. ASSUME NEW t \in GtThread, WriteEntry(t) \/ PermitEntry(t) \/ AttemptRevoke(t) \/ ClearEntry(t)
      PROVE  Exactly'
  BY <1>8, ExactWrite, ExactPermit, ExactAttempt, ExactClear
<1>9. ASSUME NEW r \in Reference, BackendMap(r) \/ BackendUnmap(r) PROVE Exactly'
  BY <1>9, ExactMap, ExactUnmap
<1>10. CASE UNCHANGED gtVars  BY <1>10, UntouchedAll DEF gtVars
<1>11. ASSUME NEW t \in GtThread, GnttabExpand(t) \/ GnttabExpanded(t) \/ GnttabEntryCtor(t)
       PROVE  UNCHANGED <<table, granted, mapping, stale, exhausted>>
  BY <1>11 DEF GnttabExpand, GnttabExpanded, GnttabEntryCtor
<1> QED
  BY <1>1, <1>2, <1>3, <1>4, <1>5, <1>6, <1>7, <1>8, <1>9, <1>10, <1>11 DEF GnttabNext

\* The initial state satisfies the invariant.
LEMMA GnttabStart == ASSUME GnttabInit PROVE KeptInv /\ Exactly
<1> USE DEF GnttabInit
<1>0. GnttabTypeOK
  <2>1. gt \in [GtThread -> Doing]  BY Goes
  <2>2. table \in [Reference -> Entry]  BY Entries
  <2>3. FrameIndex \in Int  OBVIOUS
  <2> QED  BY <2>1, <2>2, <2>3 DEF GnttabTypeOK
<1>1. \A t \in GtThread : gt[t] = Rest /\ cached[t] = {} /\ granted[t] = {}  OBVIOUS
<1>2. LockInv  BY <1>1, GnttabAssumption DEF LockInv, IndexBound, Rest
<1>3. AcquiredInv  BY <1>1 DEF AcquiredInv, Nothing
<1>4. RevokeInv  BY <1>1 DEF RevokeInv, Rest
<1>5. ReferencesKept
  <2>1. \A t \in GtThread : Owned(t) = {} /\ cached[t] = {} /\ Held(t) = {} /\ Using(t) = {}
    BY <1>1 DEF Owned, Held, Using, Rest
  <2>2. Frame = {} /\ 0 .. FrameIndex = {} /\ references = {}  OBVIOUS
  <2> QED  BY <2>1, <2>2 DEF ReferencesKept
<1>6. EntryInv  BY <1>1 DEF EntryInv, PageWritten, MappedOnce, MappedRead, ClearShut, Rest
<1>7. GrantsExact
  <2>1. PermitGranted /\ GrantedPermit /\ MappedGranted
    BY <1>1 DEF PermitGranted, GrantedPermit, MappedGranted, Blank
  <2> QED  BY <2>1, Exact
<1> QED  BY <1>0, <1>2, <1>3, <1>4, <1>5, <1>6, <1>7 DEF KeptInv, Exactly

\* Every reference of the table is free, cached, granted or being handed
\* over, and in one of these places only; FrameIndex stays within the table.
\* This is what GnttabEntryCtor, GnttabEntryDtor, GnttabExpand and
\* GnttabContract keep for any number of threads, given that the constructor
\* is called under one lock (OneLock).
THEOREM ReferencesInOnePlace ==
  ASSUME OneLock PROVE GnttabSpec => [](ReferencesKept /\ IndexBound)
<1>1. GnttabInit => KeptInv  BY GnttabStart
<1>2. KeptInv /\ [GnttabNext]_gtVars => KeptInv'  BY KeptStep
<1>3. KeptInv => ReferencesKept /\ IndexBound  BY DEF KeptInv, LockInv
<1> QED  BY <1>1, <1>2, <1>3, PTL DEF GnttabSpec

\* In addition the backend can map a page only through an entry that is
\* granted, and an entry whose revocation succeeded is mapped by nobody:
\* GnttabPermitForeignAccess and GnttabRevokeForeignAccess for any number of
\* threads, across suspends, given one lock and clients that call at
\* DISPATCH_LEVEL (GtPassive = {}), so that no suspend finds a call half
\* done.
THEOREM GrantsInOrder ==
  ASSUME OneLock, GtPassive = {} PROVE GnttabSpec => []GnttabInv
<1>1. GnttabInit => KeptInv /\ Exactly  BY GnttabStart
<1>2. KeptInv /\ Exactly /\ [GnttabNext]_gtVars => (KeptInv /\ Exactly)'  BY KeptStep, ExactStep
<1>3. KeptInv /\ Exactly => GnttabInv  BY DEF KeptInv, LockInv, Exactly, GnttabInv
<1> QED  BY <1>1, <1>2, <1>3, PTL DEF GnttabSpec

-----------------------------------------------------------------------------
(* Balloon.                                                                *)

-----------------------------------------------------------------------------
(* The heap sort of the page array.                                        *)

Arrays(L) == [1 .. L -> Nat]
Distinct(h) == \A i, j \in DOMAIN h : h[i] = h[j] => i = j

\* r is h with the elements in places a to n in another order.
Shuffle(L, h, r, a, n) ==
  /\ r \in Arrays(L)
  /\ \A i \in 1 .. L : i \notin a .. n => r[i] = h[i]
  /\ \A i \in a .. n : \E j \in a .. n : r[i] = h[j]
  /\ \A i \in a .. n : \E j \in a .. n : h[i] = r[j]
  /\ Distinct(h) => Distinct(r)

Child(i) == {2 * i, 2 * i + 1}

\* From node a on, no child is larger; and the same but for node i.
IsHeap(h, a, n) == \A j \in a .. n : \A c \in Child(j) : c <= n => h[c] <= h[j]
AlmostHeap(h, a, i, n) ==
  /\ \A j \in a .. n : \A c \in Child(j) : c <= n /\ j # i => h[c] <= h[j]
  /\ \A j \in a .. n : \A c \in Child(i) : i \in Child(j) /\ c <= n => h[c] <= h[j]

LEMMA SwapShuffles ==
  ASSUME NEW L \in Nat, NEW h \in Arrays(L), NEW a \in 1 .. L, NEW n \in 1 .. L,
         NEW i \in a .. n, NEW j \in a .. n
  PROVE  /\ Shuffle(L, h, SwapNodes(h, i, j), a, n)
         /\ \A k \in 1 .. L : SwapNodes(h, i, j)[k] = IF k = j THEN h[i] ELSE IF k = i THEN h[j] ELSE h[k]
<1> DEFINE r == SwapNodes(h, i, j)
<1>1. i \in 1 .. L /\ j \in 1 .. L  OBVIOUS
<1>2. r \in Arrays(L)  BY <1>1 DEF SwapNodes, Arrays
<1>3. \A k \in 1 .. L : r[k] = IF k = j THEN h[i] ELSE IF k = i THEN h[j] ELSE h[k]
  BY <1>1 DEF SwapNodes, Arrays
<1> HIDE DEF r
<1>4. \A k \in a .. n : k \in 1 .. L  OBVIOUS
<1>5. \A k \in a .. n : \E l \in a .. n : r[k] = h[l]  BY <1>3, <1>4
<1>6. \A k \in a .. n : \E l \in a .. n : h[k] = r[l]
  <2> SUFFICES ASSUME NEW k \in a .. n PROVE \E l \in a .. n : h[k] = r[l]  OBVIOUS
  <2>1. r[j] = h[i] /\ (i # j => r[i] = h[j])  BY <1>1, <1>3
  <2>2. CASE k = i  BY <2>1, <2>2
  <2>3. CASE k = j /\ i # j  BY <2>1, <2>3
  <2>4. CASE k # i /\ k # j  BY <1>3, <1>4, <2>4
  <2> QED  BY <2>2, <2>3, <2>4
<1>7. DOMAIN h = 1 .. L /\ DOMAIN r = 1 .. L  BY <1>2 DEF Arrays
<1>8. ASSUME Distinct(h) PROVE Distinct(r)
  <2>1. \A k, l \in 1 .. L : h[k] = h[l] => k = l  BY <1>7, <1>8 DEF Distinct
  <2> SUFFICES ASSUME NEW k \in 1 .. L, NEW l \in 1 .. L, r[k] = r[l] PROVE k = l
    BY <1>7 DEF Distinct
  <2> QED  BY <1>1, <1>3, <2>1
<1>9. \A k \in 1 .. L : k \notin a .. n => r[k] = h[k]  BY <1>3
<1>10. Shuffle(L, h, r, a, n)  BY <1>2, <1>5, <1>6, <1>8, <1>9 DEF Shuffle
<1> QED  BY <1>3, <1>10 DEF r

LEMMA ShuffleTwice ==
  ASSUME NEW L \in Nat, NEW h, NEW g, NEW r, NEW a \in Nat, NEW n \in Nat, NEW b \in Nat, NEW m \in Nat,
         1 <= a, n <= L, a <= b, m <= n, Shuffle(L, h, g, a, n), Shuffle(L, g, r, b, m)
  PROVE  Shuffle(L, h, r, a, n)
<1>1. \A i \in b .. m : i \in a .. n  OBVIOUS
<1>2. \A i \in a .. n : i \in 1 .. L  OBVIOUS
<1>3. r \in Arrays(L) /\ (Distinct(h) => Distinct(r))  BY DEF Shuffle
<1>4. \A i \in 1 .. L : i \notin a .. n => r[i] = h[i]  BY <1>1 DEF Shuffle
<1>5. ASSUME NEW i \in a .. n PROVE \E j \in a .. n : r[i] = h[j]
  <2>1. \E k \in a .. n : r[i] = g[k]
    <3>1. CASE i \in b .. m  BY <1>1, <3>1 DEF Shuffle
    <3>2. CASE i \notin b .. m  BY <1>2, <3>2 DEF Shuffle
    <3> QED  BY <3>1, <3>2
  <2> QED  BY <2>1 DEF Shuffle
<1>6. ASSUME NEW i \in a .. n PROVE \E j \in a .. n : h[i] = r[j]
  <2>1. PICK k \in a .. n : h[i] = g[k]  BY DEF Shuffle
  <2>2. \E j \in a .. n : g[k] = r[j]
    <3>1. CASE k \in b .. m  BY <1>1, <3>1 DEF Shuffle
    <3>2. CASE k \notin b .. m  BY <1>2, <3>2 DEF Shuffle
    <3> QED  BY <3>1, <3>2
  <2> QED  BY <2>1, <2>2
<1> QED  BY <1>3, <1>4, <1>5, <1>6 DEF Shuffle

\* The children of a node that are larger, and the largest of them.
Larger(h, i, n) == {c \in {2 * i, 2 * i + 1} : c <= n /\ h[c] > h[i]}
Largest(h, i, n) == CHOOSE x \in Larger(h, i, n) : \A y \in Larger(h, i, n) : h[x] >= h[y]
Sunk(h, i, n) == SwapNodes(h, i, Largest(h, i, n))

LEMMA LargestChild ==
  ASSUME NEW L \in Nat, NEW h \in Arrays(L), NEW n \in 0 .. L, NEW i \in 1 .. n, Larger(h, i, n) # {}
  PROVE  /\ Largest(h, i, n) \in Larger(h, i, n)
         /\ \A y \in Larger(h, i, n) : h[y] <= h[Largest(h, i, n)]
         /\ Largest(h, i, n) \in i + 1 .. n
<1> DEFINE S == Larger(h, i, n)
<1>1. \A c \in S : c \in i + 1 .. n /\ c \in 1 .. L /\ h[c] \in Nat  BY DEF Larger, Arrays
<1>2. \E x \in S : \A y \in S : h[x] >= h[y]
  <2>1. PICK x \in S : TRUE  OBVIOUS
  <2>2. S \subseteq {2 * i, 2 * i + 1}  BY DEF Larger
  <2> HIDE DEF S
  <2>3. CASE S \subseteq {x}  BY <1>1, <2>1, <2>3
  <2>4. CASE \E y \in S : y # x
    <3>1. PICK y \in S : y # x  BY <2>4
    <3>2. S \subseteq {x, y}  BY <2>2, <3>1
    <3>3. h[x] \in Nat /\ h[y] \in Nat  BY <1>1
    <3>4. h[x] >= h[y] \/ h[y] >= h[x]  BY <3>3
    <3>5. h[x] >= h[x] /\ h[y] >= h[y]  BY <3>3
    <3> QED  BY <3>1, <3>2, <3>4, <3>5
  <2> QED  BY <2>3, <2>4
<1>3. Largest(h, i, n) \in S /\ \A y \in S : h[Largest(h, i, n)] >= h[y]  BY <1>2 DEF Largest
<1> HIDE DEF S
<1>4. \A y \in S : h[y] <= h[Largest(h, i, n)]  BY <1>1, <1>3
<1> QED  BY <1>1, <1>3, <1>4 DEF S

\* A node that sinks leaves a heap behind, but for its new place.
LEMMA SinkOnce ==
  ASSUME NEW L \in Nat, NEW h \in Arrays(L), NEW n \in 0 .. L, NEW a \in 1 .. n, NEW i \in a .. n,
         AlmostHeap(h, a, i, n)
  PROVE  /\ Larger(h, i, n) = {} => IsHeap(h, a, n)
         /\ Larger(h, i, n) # {} =>
              /\ Sunk(h, i, n) \in Arrays(L) /\ Largest(h, i, n) \in i + 1 .. n
              /\ Shuffle(L, h, Sunk(h, i, n), a, n)
              /\ AlmostHeap(Sunk(h, i, n), a, Largest(h, i, n), n)
<1>0. i \in 1 .. n /\ \A k \in a .. n : k \in 1 .. L /\ h[k] \in Nat  BY DEF Arrays
<1>1. ASSUME Larger(h, i, n) = {} PROVE IsHeap(h, a, n)
  <2> SUFFICES ASSUME NEW j \in a .. n, NEW c \in Child(j), c <= n PROVE h[c] <= h[j]  BY DEF IsHeap
  <2>1. CASE j # i  BY <2>1 DEF AlmostHeap
  <2>2. CASE j = i
    <3>1. ~(h[c] > h[i])  BY <1>1, <2>2 DEF Larger, Child
    <3>2. c \in a .. n  BY <2>2 DEF Child
    <3> QED  BY <1>0, <2>2, <3>1, <3>2
  <2> QED  BY <2>1, <2>2
<1>2. ASSUME Larger(h, i, n) # {}
      PROVE  /\ Sunk(h, i, n) \in Arrays(L) /\ Largest(h, i, n) \in i + 1 .. n
             /\ Shuffle(L, h, Sunk(h, i, n), a, n)
             /\ AlmostHeap(Sunk(h, i, n), a, Largest(h, i, n), n)
  <2> DEFINE c == Largest(h, i, n)
  <2> DEFINE r == Sunk(h, i, n)
  <2>1. c \in Larger(h, i, n) /\ (\A y \in Larger(h, i, n) : h[y] <= h[c]) /\ c \in i + 1 .. n
    BY <1>0, <1>2, LargestChild
  <2>2. c \in Child(i) /\ h[c] > h[i] /\ c \in a .. n /\ c # i  BY <2>1 DEF Larger, Child
  <2>3. /\ Shuffle(L, h, r, a, n)
        /\ \A k \in 1 .. L : r[k] = IF k = c THEN h[i] ELSE IF k = i THEN h[c] ELSE h[k]
    <3>1. a \in 1 .. L /\ n \in 1 .. L  OBVIOUS
    <3> QED  BY <2>2, <3>1, SwapShuffles DEF Sunk
  <2> HIDE DEF c, r
  <2>4. \A k \in a .. n : r[k] = IF k = c THEN h[i] ELSE IF k = i THEN h[c] ELSE h[k]  BY <1>0, <2>3
  <2>5. ASSUME NEW j \in a .. n, NEW d \in Child(j), d <= n, j # c PROVE r[d] <= r[j]
    <3>0. d \in a .. n /\ d > j  BY <2>5 DEF Child
    <3>1. CASE j = i
      <4>1. r[j] = h[c]  BY <2>2, <2>4, <3>1
      <4>2. CASE d = c  BY <1>0, <2>2, <2>4, <4>1, <4>2
      <4>3. CASE d # c
        <5>1. r[d] = h[d]  BY <2>4, <3>0, <3>1, <4>3
        <5>2. CASE d \in Larger(h, i, n)  BY <2>1, <4>1, <5>1, <5>2
        <5>3. CASE d \notin Larger(h, i, n)
          <6>1. ~(h[d] > h[i])  BY <2>5, <3>1, <5>3 DEF Larger, Child
          <6> QED  BY <1>0, <2>2, <3>0, <4>1, <5>1, <6>1
        <5> QED  BY <5>2, <5>3
      <4> QED  BY <4>2, <4>3
    <3>2. CASE j # i
      <4>1. r[j] = h[j]  BY <2>4, <2>5, <3>2
      <4>2. d # c  BY <2>2, <3>0, <3>2 DEF Child
      <4>3. CASE d = i
        <5>1. h[c] <= h[j]  BY <2>2, <2>5, <4>3 DEF AlmostHeap
        <5>2. r[d] = h[c]  BY <2>2, <2>4, <4>3
        <5> QED  BY <4>1, <5>1, <5>2
      <4>4. CASE d # i
        <5>1. r[d] = h[d]  BY <2>4, <3>0, <4>2, <4>4
        <5>2. h[d] <= h[j]  BY <2>5, <3>2 DEF AlmostHeap
        <5> QED  BY <4>1, <5>1, <5>2
      <4> QED  BY <4>3, <4>4
    <3> QED  BY <3>1, <3>2
  <2>6. ASSUME NEW j \in a .. n, NEW d \in Child(c), c \in Child(j), d <= n PROVE r[d] <= r[j]
    <3>1. j = i  BY <2>2, <2>6 DEF Child
    <3>2. d \in a .. n /\ d # c /\ d # i  BY <2>1, <2>2, <2>6 DEF Child
    <3>3. r[d] = h[d] /\ r[j] = h[c]  BY <2>2, <2>4, <3>1, <3>2
    <3>4. h[d] <= h[c]  BY <2>2, <2>6 DEF AlmostHeap
    <3> QED  BY <3>3, <3>4
  <2>7. AlmostHeap(r, a, c, n)  BY <2>5, <2>6 DEF AlmostHeap
  <2> QED  BY <2>1, <2>3, <2>7 DEF c, r, Shuffle
<1> QED  BY <1>1, <1>2

\* BalloonHeapPushDown, applied to arrays of L pages.
Sinks(f, L, n, m) ==
  f = [k \in Arrays(L) \X (m + 1 .. n) |->
        IF Larger(k[1], k[2], n) = {} THEN k[1]
        ELSE f[<<Sunk(k[1], k[2], n), Largest(k[1], k[2], n)>>]]
Down(L, n) == CHOOSE f : f = [k \in [1 .. L -> Nat] \X (1 .. n) |->
                IF Larger(k[1], k[2], n) = {} THEN k[1]
                ELSE f[<<Sunk(k[1], k[2], n), Largest(k[1], k[2], n)>>]]

\* There is such a function: nodes have larger numbers further down, so it can be made
\* for the last nodes first.
LEMMA SinksExist ==
  ASSUME NEW L \in Nat, NEW n \in 0 .. L
  PROVE  \A m \in 0 .. n : \E f : Sinks(f, L, n, n - m)
<1> DEFINE bad == {m \in 0 .. n : ~\E f : Sinks(f, L, n, n - m)}
<1> SUFFICES ASSUME bad # {} PROVE FALSE  OBVIOUS
<1>1. bad \in SUBSET Nat  OBVIOUS
<1>2. PICK m \in bad : \A x \in bad : m <= x
  <2> HIDE DEF bad
  <2> QED  BY <1>1, LeastNumber
<1>3. m \in 0 .. n /\ ~\E f : Sinks(f, L, n, n - m)  OBVIOUS
<1>4. m # 0
  <2> SUFFICES ASSUME m = 0 PROVE FALSE  OBVIOUS
  <2> DEFINE D == Arrays(L) \X (n - m + 1 .. n)
  <2> DEFINE f == [k \in D |-> 0]
  <2>1. D = {}  BY <1>3
  <2> HIDE DEF D
  <2>2. f = [k \in D |-> IF Larger(k[1], k[2], n) = {} THEN k[1]
                         ELSE f[<<Sunk(k[1], k[2], n), Largest(k[1], k[2], n)>>]]
    BY <2>1
  <2>3. Sinks(f, L, n, n - m)  BY <2>2 DEF Sinks, D
  <2> QED  BY <1>3, <2>3
<1>5. m - 1 \in 0 .. n /\ m - 1 \notin bad  BY <1>2, <1>3, <1>4
<1>6. PICK g : Sinks(g, L, n, n - (m - 1))  BY <1>5
<1> DEFINE D == Arrays(L) \X (n - m + 1 .. n)
<1> DEFINE E == Arrays(L) \X (n - (m - 1) + 1 .. n)
<1> DEFINE Step(f, k) == IF Larger(k[1], k[2], n) = {} THEN k[1]
                         ELSE f[<<Sunk(k[1], k[2], n), Largest(k[1], k[2], n)>>]
<1> DEFINE f == [k \in D |-> Step(g, k)]
<1>7. ASSUME NEW k \in D PROVE f[k] = Step(f, k)
  <2>1. k[1] \in Arrays(L) /\ k[2] \in n - m + 1 .. n /\ k[2] \in 1 .. n /\ n - m + 1 \in 1 .. n
    BY <1>3, <1>4
  <2>2. CASE Larger(k[1], k[2], n) = {}  BY <2>2
  <2>3. CASE Larger(k[1], k[2], n) # {}
    <3> DEFINE c == Largest(k[1], k[2], n)
    <3> DEFINE h == Sunk(k[1], k[2], n)
    <3>1. c \in k[2] + 1 .. n  BY <2>1, <2>3, LargestChild
    <3>2. h \in Arrays(L)
      <4>1. c \in k[2] .. n /\ k[2] \in k[2] .. n /\ k[2] \in 1 .. L /\ n \in 1 .. L  BY <2>1, <3>1
      <4>2. c \in k[2] .. n /\ k[2] \in k[2] .. n /\ k[1] \in Arrays(L)  BY <2>1, <4>1
      <4> HIDE DEF c
      <4>3. Shuffle(L, k[1], SwapNodes(k[1], k[2], c), k[2], n)  BY <4>1, <4>2, SwapShuffles
      <4> QED  BY <4>3 DEF Sunk, Shuffle, c
    <3>3. c \in n - (m - 1) + 1 .. n /\ c \in n - m + 1 .. n  BY <1>3, <2>1, <3>1
    <3> HIDE DEF c, h
    <3>4. <<h, c>> \in D /\ <<h, c>> \in E  BY <3>2, <3>3
    <3>5. f[<<h, c>>] = Step(g, <<h, c>>)  BY <3>4
    <3>6. g[<<h, c>>] = Step(g, <<h, c>>)
      <4>1. g = [l \in E |-> Step(g, l)]  BY <1>6 DEF Sinks
      <4> HIDE DEF E, Step
      <4> QED  BY <3>4, <4>1
    <3>7. f[k] = g[<<h, c>>] /\ Step(f, k) = f[<<h, c>>]  BY <2>3 DEF h, c
    <3> QED  BY <3>5, <3>6, <3>7
  <2> QED  BY <2>2, <2>3
<1>8. f = [k \in D |-> Step(f, k)]
  <2>1. f = [k \in D |-> f[k]]  OBVIOUS
  <2> HIDE DEF f, Step, D
  <2> QED  BY <1>7, <2>1
<1>9. Sinks(f, L, n, n - m)  BY <1>8 DEF Sinks
<1> QED  BY <1>3, <1>9

LEMMA DownEquation ==
  ASSUME NEW L \in Nat, NEW n \in 0 .. L, NEW h \in Arrays(L), NEW i \in 1 .. n
  PROVE  /\ BalloonHeapPushDown(h, i, n) = Down(L, n)[<<h, i>>]
         /\ Down(L, n)[<<h, i>>] = IF Larger(h, i, n) = {} THEN h
                                   ELSE Down(L, n)[<<Sunk(h, i, n), Largest(h, i, n)>>]
<1> DEFINE D == [1 .. L -> Nat] \X (1 .. n)
<1> DEFINE Step(f, k) == IF Larger(k[1], k[2], n) = {} THEN k[1]
                         ELSE f[<<Sunk(k[1], k[2], n), Largest(k[1], k[2], n)>>]
<1>1. Len(h) = L  BY DEF Arrays
<1>2. BalloonHeapPushDown(h, i, n) = Down(L, n)[<<h, i>>]
  BY <1>1 DEF BalloonHeapPushDown, Down, Larger, Largest, Sunk
<1>3. \E f : f = [k \in D |-> Step(f, k)]
  <2>1. n - n = 0 /\ n \in 0 .. n /\ 0 + 1 = 1  OBVIOUS
  <2>2. PICK f : Sinks(f, L, n, 0)
    <3>1. \E f : Sinks(f, L, n, n - n)  BY <2>1, SinksExist
    <3> QED  BY <2>1, <3>1
  <2>3. f = [k \in Arrays(L) \X (0 + 1 .. n) |-> Step(f, k)]  BY <2>2 DEF Sinks
  <2> HIDE DEF Step
  <2>4. f = [k \in D |-> Step(f, k)]  BY <2>1, <2>3 DEF Arrays
  <2> QED  BY <2>4
<1>4. Down(L, n) = [k \in D |-> Step(Down(L, n), k)]  BY <1>3 DEF Down
<1>5. <<h, i>> \in D  BY DEF Arrays
<1>6. Down(L, n)[<<h, i>>] = Step(Down(L, n), <<h, i>>)
  <2> HIDE DEF D, Step
  <2> QED  BY <1>4, <1>5
<1> QED  BY <1>2, <1>6

\* A node that was pushed down leaves a heap.
LEMMA PushDown ==
  ASSUME NEW L \in Nat, NEW n \in 0 .. L, NEW h \in Arrays(L), NEW a \in 1 .. n, AlmostHeap(h, a, a, n)
  PROVE  LET r == BalloonHeapPushDown(h, a, n)
         IN r \in Arrays(L) /\ IsHeap(r, a, n) /\ Shuffle(L, h, r, a, n)
<1> DEFINE Good(g, i) == LET r == Down(L, n)[<<g, i>>]
                         IN IsHeap(r, a, n) /\ Shuffle(L, g, r, a, n)
<1> DEFINE bad == {m \in 0 .. n : \E g \in Arrays(L), i \in a .. n :
                                     i = n - m /\ AlmostHeap(g, a, i, n) /\ ~Good(g, i)}
<1>1. bad = {}
  <2> SUFFICES ASSUME bad # {} PROVE FALSE  OBVIOUS
  <2>1. bad \in SUBSET Nat  OBVIOUS
  <2>2. PICK m \in bad : \A x \in bad : m <= x
    <3> HIDE DEF bad
    <3> QED  BY <2>1, LeastNumber
  <2>3. PICK g \in Arrays(L), i \in a .. n : i = n - m /\ AlmostHeap(g, a, i, n) /\ ~Good(g, i)
    OBVIOUS
  <2>4. i \in 1 .. n /\ m \in 0 .. n  OBVIOUS
  <2>5. CASE Larger(g, i, n) = {}
    <3>1. Down(L, n)[<<g, i>>] = g  BY <2>4, <2>5, DownEquation
    <3>2. IsHeap(g, a, n)  BY <2>3, <2>5, SinkOnce
    <3>3. Shuffle(L, g, g, a, n)  BY DEF Shuffle
    <3> QED  BY <2>3, <3>1, <3>2, <3>3
  <2>6. CASE Larger(g, i, n) # {}
    <3> DEFINE s == Sunk(g, i, n)
    <3> DEFINE c == Largest(g, i, n)
    <3>1. s \in Arrays(L) /\ c \in i + 1 .. n /\ Shuffle(L, g, s, a, n) /\ AlmostHeap(s, a, c, n)
      BY <2>3, <2>6, SinkOnce
    <3>2. Down(L, n)[<<g, i>>] = Down(L, n)[<<s, c>>]  BY <2>4, <2>6, DownEquation
    <3> HIDE DEF s, c
    <3>3. n - c \in 0 .. n /\ n - c < m /\ c = n - (n - c) /\ c \in a .. n  BY <2>3, <2>4, <3>1
    <3>4. n - c \notin bad
      <4> HIDE DEF bad
      <4> QED  BY <2>2, <2>4, <3>3
    <3>5. Good(s, c)  BY <3>1, <3>3, <3>4
    <3>6. Shuffle(L, g, Down(L, n)[<<s, c>>], a, n)  BY <3>1, <3>5, ShuffleTwice
    <3> QED  BY <2>3, <3>2, <3>5, <3>6
  <2> QED  BY <2>5, <2>6
<1>2. n - a \in 0 .. n /\ a = n - (n - a) /\ a \in a .. n  OBVIOUS
<1>3. Good(h, a)  BY <1>1, <1>2
<1>4. BalloonHeapPushDown(h, a, n) = Down(L, n)[<<h, a>>]  BY DownEquation
<1> QED  BY <1>3, <1>4 DEF Shuffle

\* The same for a node above a heap.
LEMMA PushRoot ==
  ASSUME NEW L \in Nat, NEW n \in 0 .. L, NEW h \in Arrays(L), NEW a \in 1 .. n, IsHeap(h, a + 1, n)
  PROVE  LET r == BalloonHeapPushDown(h, a, n)
         IN r \in Arrays(L) /\ IsHeap(r, a, n) /\ Shuffle(L, h, r, a, n)
<1>1. \A j \in a .. n : \A c \in Child(j) : c <= n /\ j # a => h[c] <= h[j]
  <2>1. \A j \in a .. n : j # a => j \in a + 1 .. n  OBVIOUS
  <2> QED  BY <2>1 DEF IsHeap
<1>2. \A j \in a .. n : a \notin Child(j)  BY DEF Child
<1>3. AlmostHeap(h, a, a, n)  BY <1>1, <1>2 DEF AlmostHeap
<1> QED  BY <1>3, PushDown

\* BalloonCreateHeap makes a heap.
LEMMA CreateHeap ==
  ASSUME NEW L \in Nat, NEW s \in Arrays(L)
  PROVE  LET h == BalloonCreateHeap(s) IN IsHeap(h, 1, L) /\ Shuffle(L, s, h, 1, L)
<1> DEFINE Step(f, i) == IF i > L THEN s ELSE BalloonHeapPushDown(f[i + 1], i, L)
<1> DEFINE Good(f, i) == IsHeap(f[i], i, L) /\ Shuffle(L, s, f[i], 1, L)
<1> DEFINE Makes(f, m) == /\ f = [i \in L + 1 - m .. L + 1 |-> Step(f, i)]
<1>1. \A m \in 0 .. L : \E f : Makes(f, m)
  <2> DEFINE bad == {m \in 0 .. L : ~\E f : Makes(f, m)}
  <2> SUFFICES ASSUME bad # {} PROVE FALSE  OBVIOUS
  <2>1. bad \in SUBSET Nat  OBVIOUS
  <2>2. PICK m \in bad : \A x \in bad : m <= x
    <3> HIDE DEF bad
    <3> QED  BY <2>1, LeastNumber
  <2>3. m \in 0 .. L /\ ~\E f : Makes(f, m)  OBVIOUS
  <2> HIDE DEF Step
  <2>4. m # 0
    <3> SUFFICES ASSUME m = 0 PROVE FALSE  OBVIOUS
    <3> DEFINE f == [i \in L + 1 .. L + 1 |-> s]
    <3>1. L + 1 - m = L + 1 /\ \A i \in L + 1 .. L + 1 : i > L  OBVIOUS
    <3>2. \A i \in L + 1 .. L + 1 : Step(f, i) = s  BY <3>1 DEF Step
    <3>3. f = [i \in L + 1 .. L + 1 |-> Step(f, i)]  BY <3>2
    <3> HIDE DEF f
    <3>4. Makes(f, m)  BY <3>1, <3>3
    <3> QED  BY <2>3, <3>4
  <2>5. m - 1 \in 0 .. L /\ m - 1 \notin bad
    <3>1. m - 1 \in 0 .. L /\ ~(m <= m - 1)  BY <2>3, <2>4
    <3> HIDE DEF bad
    <3> QED  BY <2>2, <3>1
  <2>6. PICK g : Makes(g, m - 1)  BY <2>5
  <2> DEFINE D == L + 1 - m .. L + 1
  <2> DEFINE E == L + 1 - (m - 1) .. L + 1
  <2> DEFINE f == [i \in D |-> Step(g, i)]
  <2>7. ASSUME NEW i \in D PROVE f[i] = Step(f, i)
    <3>1. f[i] = Step(g, i)  OBVIOUS
    <3>2. CASE i > L  BY <3>1, <3>2 DEF Step
    <3>3. CASE ~(i > L)
      <4>1. i + 1 \in D /\ i + 1 \in E  BY <2>3, <2>4, <3>3
      <4>2. f[i + 1] = Step(g, i + 1)  BY <4>1
      <4>3. g[i + 1] = Step(g, i + 1)
        <5>1. g = [j \in E |-> Step(g, j)]  BY <2>6
        <5> HIDE DEF E
        <5> QED  BY <4>1, <5>1
      <4> HIDE DEF f
      <4> QED  BY <3>1, <3>3, <4>2, <4>3 DEF Step
    <3> QED  BY <3>2, <3>3
  <2>8. f = [i \in D |-> Step(f, i)]
    <3>1. f = [i \in D |-> f[i]]  OBVIOUS
    <3> HIDE DEF f, D
    <3> QED  BY <2>7, <3>1
  <2> HIDE DEF f
  <2>9. Makes(f, m)  BY <2>8
  <2> QED  BY <2>3, <2>9
<1> DEFINE heap == CHOOSE f : f = [i \in 1 .. L + 1 |-> Step(f, i)]
<1>2. heap = [i \in 1 .. L + 1 |-> Step(heap, i)]
  <2> HIDE DEF Step
  <2>1. L + 1 - L = 1 /\ L \in 0 .. L  OBVIOUS
  <2>2. PICK f : Makes(f, L)  BY <1>1, <2>1
  <2>3. f = [i \in 1 .. L + 1 |-> Step(f, i)]  BY <2>1, <2>2
  <2> QED  BY <2>3
<1>3. BalloonCreateHeap(s) = heap[1]
  <2>1. Len(s) = L  BY DEF Arrays
  <2> QED  BY <2>1 DEF BalloonCreateHeap
<1> HIDE DEF heap
<1>4. \A i \in 1 .. L + 1 : heap[i] = IF i > L THEN s ELSE BalloonHeapPushDown(heap[i + 1], i, L)
  BY <1>2
<1>5. \A m \in 0 .. L : Good(heap, L + 1 - m)
  <2> DEFINE bad == {m \in 0 .. L : ~Good(heap, L + 1 - m)}
  <2> SUFFICES ASSUME bad # {} PROVE FALSE  OBVIOUS
  <2>1. bad \in SUBSET Nat  OBVIOUS
  <2>2. PICK m \in bad : \A x \in bad : m <= x
    <3> HIDE DEF bad
    <3> QED  BY <2>1, LeastNumber
  <2> DEFINE i == L + 1 - m
  <2>3. m \in 0 .. L /\ ~Good(heap, i) /\ i \in 1 .. L + 1  OBVIOUS
  <2>4. m # 0
    <3> SUFFICES ASSUME m = 0 PROVE FALSE  OBVIOUS
    <3>1. i = L + 1 /\ i \in 1 .. L + 1  BY <2>3
    <3>2. heap[i] = s  BY <1>4, <3>1
    <3>3. IsHeap(s, L + 1, L)
      <4>1. L + 1 .. L = {}  OBVIOUS
      <4> QED  BY <4>1 DEF IsHeap
    <3>4. Shuffle(L, s, s, 1, L)  BY DEF Shuffle
    <3> QED  BY <2>3, <3>1, <3>2, <3>3, <3>4
  <2>5. m - 1 \in 0 .. L /\ m - 1 \notin bad
    <3>1. m - 1 \in 0 .. L /\ ~(m <= m - 1)  BY <2>3, <2>4
    <3> HIDE DEF bad
    <3> QED  BY <2>2, <3>1
  <2>6. i \in 1 .. L /\ L + 1 - (m - 1) = i + 1  BY <2>3, <2>4
  <2>7. Good(heap, i + 1)
    <3>1. Good(heap, L + 1 - (m - 1))  BY <2>5
    <3> QED  BY <2>6, <3>1
  <2>8. heap[i] = BalloonHeapPushDown(heap[i + 1], i, L)  BY <1>4, <2>6
  <2> HIDE DEF i
  <2>9. heap[i + 1] \in Arrays(L) /\ IsHeap(heap[i + 1], i + 1, L)  BY <2>7 DEF Shuffle
  <2>10. L \in 0 .. L  OBVIOUS
  <2>11. IsHeap(heap[i], i, L) /\ Shuffle(L, heap[i + 1], heap[i], i, L)
    BY <2>6, <2>8, <2>9, <2>10, PushRoot
  <2>12. Shuffle(L, s, heap[i], 1, L)
    <3>1. i \in Nat /\ 1 <= i /\ 1 \in Nat /\ 1 <= 1 /\ L <= L  BY <2>6
    <3> QED  BY <2>7, <2>11, <3>1, ShuffleTwice
  <2> QED  BY <2>3, <2>11, <2>12
<1>6. Good(heap, 1)
  <2>1. L \in 0 .. L /\ L + 1 - L = 1  OBVIOUS
  <2> QED  BY <1>5, <2>1
<1> QED  BY <1>3, <1>6

\* The root of a heap is its largest node.
LEMMA RootIsLargest ==
  ASSUME NEW L \in Nat, NEW h \in Arrays(L), NEW n \in 1 .. L, IsHeap(h, 1, n)
  PROVE  \A i \in 1 .. n : h[i] <= h[1]
<1> DEFINE bad == {i \in 1 .. n : ~(h[i] <= h[1])}
<1> SUFFICES ASSUME bad # {} PROVE FALSE  OBVIOUS
<1>1. bad \in SUBSET Nat  OBVIOUS
<1>2. PICK i \in bad : \A x \in bad : i <= x
  <2> HIDE DEF bad
  <2> QED  BY <1>1, LeastNumber
<1>3. i \in 1 .. n /\ ~(h[i] <= h[1]) /\ \A k \in 1 .. n : h[k] \in Nat  BY DEF Arrays
<1>4. i # 1 /\ 1 \in 1 .. n  BY <1>3
<1>5. \E p \in 1 .. n : i \in Child(p) /\ p < i
  <2>1. \E p \in Nat : i = 2 * p \/ i = 2 * p + 1
    <3>1. i \in Nat /\ i \div 2 \in Nat /\ (i = 2 * (i \div 2) \/ i = 2 * (i \div 2) + 1)  BY <1>3
    <3> QED  BY <3>1
  <2>2. PICK p \in Nat : i = 2 * p \/ i = 2 * p + 1  BY <2>1
  <2>3. p \in 1 .. n /\ p < i  BY <1>3, <1>4, <2>2
  <2> QED  BY <2>2, <2>3 DEF Child
<1>6. PICK p \in 1 .. n : i \in Child(p) /\ p < i  BY <1>5
<1>7. h[i] <= h[p]  BY <1>3, <1>6 DEF IsHeap
<1>8. h[p] <= h[1]
  <2>1. p \notin bad
    <3>1. ~(i <= p)  BY <1>3, <1>6
    <3> HIDE DEF bad
    <3> QED  BY <1>2, <3>1
  <2> QED  BY <2>1
<1> QED  BY <1>3, <1>4, <1>6, <1>7, <1>8

\* What has been sorted from place n on: each place has more than all those before it.
Sorted(L, h, n) == \A i \in 1 .. L : \A j \in n .. L : i < j => h[i] < h[j]

\* One turn of BalloonSort: the root goes to place n, and its successor is pushed down.
LEMMA SortOnce ==
  ASSUME NEW L \in Nat, NEW t \in Arrays(L), NEW n \in 1 .. L, Distinct(t), IsHeap(t, 1, n), Sorted(L, t, n + 1),
         NEW r, r = (IF n = 1 THEN SwapNodes(t, 1, n) ELSE BalloonHeapPushDown(SwapNodes(t, 1, n), 1, n - 1))
  PROVE  Shuffle(L, t, r, 1, L) /\ IsHeap(r, 1, n - 1) /\ Sorted(L, r, n)
<1> DEFINE u == SwapNodes(t, 1, n)
<1>0. 1 \in 1 .. L /\ L \in 1 .. L /\ 1 \in 1 .. n /\ n \in 1 .. n /\ L \in Nat /\ 1 \in Nat
  OBVIOUS
<1>1. /\ Shuffle(L, t, u, 1, n)
      /\ \A k \in 1 .. L : u[k] = IF k = n THEN t[1] ELSE IF k = 1 THEN t[n] ELSE t[k]
  BY <1>0, SwapShuffles
<1> HIDE DEF u
<1>2. \A i \in 1 .. n : t[i] <= t[1]  BY RootIsLargest
<1>3. u \in Arrays(L) /\ \A k \in 1 .. L : t[k] \in Nat  BY <1>1 DEF Shuffle, Arrays
<1>4. Shuffle(L, u, r, 1, n - 1) /\ IsHeap(r, 1, n - 1)
  <2>1. CASE n = 1
    <3>1. r = u /\ 1 .. n - 1 = {}  BY <2>1 DEF u
    <3> QED  BY <1>3, <3>1 DEF Shuffle, IsHeap
  <2>2. CASE n # 1
    <3>1. r = BalloonHeapPushDown(u, 1, n - 1)  BY <2>2 DEF u
    <3>2. n - 1 \in 0 .. L /\ 1 \in 1 .. n - 1  BY <2>2
    <3>3. IsHeap(u, 1 + 1, n - 1)
      <4> SUFFICES ASSUME NEW j \in 1 + 1 .. n - 1, NEW c \in Child(j), c <= n - 1 PROVE u[c] <= u[j]
        BY DEF IsHeap
      <4>1. j \in 1 .. n /\ j \in 1 .. L /\ c \in 1 .. L /\ c <= n /\ j # 1 /\ j # n /\ c # 1 /\ c # n
        BY DEF Child
      <4>2. t[c] <= t[j]  BY <4>1 DEF IsHeap
      <4> QED  BY <1>1, <4>1, <4>2
    <3> QED  BY <1>3, <3>1, <3>2, <3>3, PushRoot
  <2> QED  BY <2>1, <2>2
<1>5. Shuffle(L, t, r, 1, L)
  <2>1. n \in Nat /\ n - 1 \in Nat /\ n - 1 <= n /\ n <= L /\ 1 <= 1 /\ L <= L  OBVIOUS
  <2>2. Shuffle(L, t, r, 1, n)  BY <1>0, <1>1, <1>4, <2>1, ShuffleTwice
  <2>3. Shuffle(L, t, t, 1, L)  BY DEF Shuffle
  <2> QED  BY <1>0, <2>1, <2>2, <2>3, ShuffleTwice
<1>6. \A i \in 1 .. n - 1 : \E k \in 1 .. n : k # 1 /\ r[i] = t[k]
  <2> SUFFICES ASSUME NEW i \in 1 .. n - 1 PROVE \E k \in 1 .. n : k # 1 /\ r[i] = t[k]  OBVIOUS
  <2>1. PICK l \in 1 .. n - 1 : r[i] = u[l]  BY <1>4 DEF Shuffle
  <2>2. l \in 1 .. L /\ l # n /\ l \in 1 .. n  OBVIOUS
  <2>3. CASE l = 1
    <3>1. u[l] = t[n] /\ n # 1  BY <1>1, <2>2, <2>3
    <3> QED  BY <1>0, <2>1, <3>1
  <2>4. CASE l # 1
    <3>1. u[l] = t[l]  BY <1>1, <2>2, <2>4
    <3> QED  BY <2>1, <2>2, <2>4, <3>1
  <2> QED  BY <2>3, <2>4
<1>7. \A i \in n .. L : i \in 1 .. L /\ r[i] = IF i = n THEN t[1] ELSE t[i]
  <2> SUFFICES ASSUME NEW i \in n .. L PROVE i \in 1 .. L /\ r[i] = IF i = n THEN t[1] ELSE t[i]  OBVIOUS
  <2>1. i \in 1 .. L /\ i \notin 1 .. n - 1  OBVIOUS
  <2>2. r[i] = u[i]  BY <1>4, <2>1 DEF Shuffle
  <2>3. u[i] = IF i = n THEN t[1] ELSE IF i = 1 THEN t[n] ELSE t[i]  BY <1>1, <2>1
  <2>4. i = 1 => i = n  OBVIOUS
  <2> QED  BY <2>1, <2>2, <2>3, <2>4
<1>8. Sorted(L, r, n)
  <2> SUFFICES ASSUME NEW i \in 1 .. L, NEW j \in n .. L, i < j PROVE r[i] < r[j]  BY DEF Sorted
  <2>1. \E k \in 1 .. L : /\ r[i] = t[k] /\ (j = n => k # 1 /\ k \in 1 .. n) /\ (j # n => k < j)
    <3>1. CASE i \in 1 .. n - 1
      <4>1. PICK k \in 1 .. n : k # 1 /\ r[i] = t[k]  BY <1>6, <3>1
      <4> QED  BY <4>1
    <3>2. CASE i \notin 1 .. n - 1
      <4>1. i \in n .. L /\ j # n  BY <3>2
      <4>2. r[i] = IF i = n THEN t[1] ELSE t[i]  BY <1>7, <4>1
      <4>3. 1 < j  OBVIOUS
      <4> QED  BY <1>0, <4>1, <4>2, <4>3
    <3> QED  BY <3>1, <3>2
  <2>2. PICK k \in 1 .. L : /\ r[i] = t[k] /\ (j = n => k # 1 /\ k \in 1 .. n) /\ (j # n => k < j)  BY <2>1
  <2>3. CASE j = n
    <3>1. r[j] = t[1]  BY <1>7, <2>3
    <3>2. t[k] <= t[1] /\ t[k] \in Nat /\ t[1] \in Nat  BY <1>0, <1>2, <1>3, <2>2, <2>3
    <3>3. t[k] # t[1]  BY <1>0, <2>2, <2>3 DEF Distinct, Arrays
    <3> QED  BY <2>2, <3>1, <3>2, <3>3
  <2>4. CASE j # n
    <3>1. r[j] = t[j]  BY <1>7, <2>4
    <3>2. j \in n + 1 .. L  BY <2>4
    <3>3. t[k] < t[j]  BY <2>2, <2>4, <3>2 DEF Sorted
    <3> QED  BY <2>2, <3>1, <3>3
  <2> QED  BY <2>3, <2>4
<1> QED  BY <1>4, <1>5, <1>8

\* BalloonSort sorts.
LEMMA SortSorts ==
  ASSUME NEW L \in Nat \ {0}, NEW s \in Arrays(L), Distinct(s)
  PROVE  LET r == BalloonSort(s) IN Shuffle(L, s, r, 1, L) /\ Sorted(L, r, 1)
<1> DEFINE Pass(t, n) == LET swapped == SwapNodes(t, 1, n)
                         IN IF n = 1 THEN swapped ELSE BalloonHeapPushDown(swapped, 1, n - 1)
<1> DEFINE Step(f, n) == IF n > L THEN BalloonCreateHeap(s) ELSE Pass(f[n + 1], n)
<1> DEFINE Good(f, n) == Shuffle(L, s, f[n], 1, L) /\ IsHeap(f[n], 1, n - 1) /\ Sorted(L, f[n], n)
<1> DEFINE Makes(f, m) == /\ f = [i \in L + 1 - m .. L + 1 |-> Step(f, i)]
<1>1. \A m \in 0 .. L : \E f : Makes(f, m)
  <2> DEFINE bad == {m \in 0 .. L : ~\E f : Makes(f, m)}
  <2> SUFFICES ASSUME bad # {} PROVE FALSE  OBVIOUS
  <2>1. bad \in SUBSET Nat  OBVIOUS
  <2>2. PICK m \in bad : \A x \in bad : m <= x
    <3> HIDE DEF bad
    <3> QED  BY <2>1, LeastNumber
  <2>3. m \in 0 .. L /\ ~\E f : Makes(f, m)  OBVIOUS
  <2> HIDE DEF Step
  <2>4. m # 0
    <3> SUFFICES ASSUME m = 0 PROVE FALSE  OBVIOUS
    <3> DEFINE f == [i \in L + 1 .. L + 1 |-> BalloonCreateHeap(s)]
    <3>1. L + 1 - m = L + 1 /\ \A i \in L + 1 .. L + 1 : i > L  OBVIOUS
    <3>2. \A i \in L + 1 .. L + 1 : Step(f, i) = BalloonCreateHeap(s)  BY <3>1 DEF Step
    <3>3. f = [i \in L + 1 .. L + 1 |-> Step(f, i)]  BY <3>2
    <3> HIDE DEF f
    <3>4. Makes(f, m)  BY <3>1, <3>3
    <3> QED  BY <2>3, <3>4
  <2>5. m - 1 \in 0 .. L /\ m - 1 \notin bad
    <3>1. m - 1 \in 0 .. L /\ ~(m <= m - 1)  BY <2>3, <2>4
    <3> HIDE DEF bad
    <3> QED  BY <2>2, <3>1
  <2>6. PICK g : Makes(g, m - 1)  BY <2>5
  <2> DEFINE D == L + 1 - m .. L + 1
  <2> DEFINE E == L + 1 - (m - 1) .. L + 1
  <2> DEFINE f == [i \in D |-> Step(g, i)]
  <2>7. ASSUME NEW i \in D PROVE f[i] = Step(f, i)
    <3>1. f[i] = Step(g, i)  OBVIOUS
    <3>2. CASE i > L  BY <3>1, <3>2 DEF Step
    <3>3. CASE ~(i > L)
      <4>1. i + 1 \in D /\ i + 1 \in E  BY <2>3, <2>4, <3>3
      <4>2. f[i + 1] = Step(g, i + 1)  BY <4>1
      <4>3. g[i + 1] = Step(g, i + 1)
        <5>1. g = [j \in E |-> Step(g, j)]  BY <2>6
        <5> HIDE DEF E
        <5> QED  BY <4>1, <5>1
      <4> HIDE DEF f, Pass
      <4> QED  BY <3>1, <3>3, <4>2, <4>3 DEF Step
    <3> QED  BY <3>2, <3>3
  <2>8. f = [i \in D |-> Step(f, i)]
    <3>1. f = [i \in D |-> f[i]]  OBVIOUS
    <3> HIDE DEF f, D
    <3> QED  BY <2>7, <3>1
  <2> HIDE DEF f
  <2>9. Makes(f, m)  BY <2>8
  <2> QED  BY <2>3, <2>9
<1> DEFINE sorted == CHOOSE f : f = [n \in 1 .. L + 1 |-> Step(f, n)]
<1>2. sorted = [n \in 1 .. L + 1 |-> Step(sorted, n)]
  <2> HIDE DEF Step
  <2>1. L + 1 - L = 1 /\ L \in 0 .. L  OBVIOUS
  <2>2. PICK f : Makes(f, L)  BY <1>1, <2>1
  <2>3. f = [n \in 1 .. L + 1 |-> Step(f, n)]  BY <2>1, <2>2
  <2> QED  BY <2>3
<1>3. BalloonSort(s) = sorted[1]
  <2>1. Len(s) = L  BY DEF Arrays
  <2> QED  BY <2>1 DEF BalloonSort
<1> HIDE DEF sorted
<1>4. \A n \in 1 .. L + 1 : sorted[n] = IF n > L THEN BalloonCreateHeap(s) ELSE Pass(sorted[n + 1], n)
  <2> HIDE DEF Pass
  <2> QED  BY <1>2
<1> HIDE DEF Pass
<1>5. \A m \in 0 .. L : Good(sorted, L + 1 - m)
  <2> DEFINE bad == {m \in 0 .. L : ~Good(sorted, L + 1 - m)}
  <2> SUFFICES ASSUME bad # {} PROVE FALSE  OBVIOUS
  <2>1. bad \in SUBSET Nat  OBVIOUS
  <2>2. PICK m \in bad : \A x \in bad : m <= x
    <3> HIDE DEF bad
    <3> QED  BY <2>1, LeastNumber
  <2> DEFINE n == L + 1 - m
  <2>3. m \in 0 .. L /\ ~Good(sorted, n) /\ n \in 1 .. L + 1  OBVIOUS
  <2>4. m # 0
    <3> SUFFICES ASSUME m = 0 PROVE FALSE  OBVIOUS
    <3>1. n = L + 1 /\ n \in 1 .. L + 1 /\ n - 1 = L  BY <2>3
    <3>2. sorted[n] = BalloonCreateHeap(s)  BY <1>4, <3>1
    <3>3. Sorted(L, sorted[n], L + 1)
      <4>1. L + 1 .. L = {}  OBVIOUS
      <4> QED  BY <4>1 DEF Sorted
    <3>4. IsHeap(sorted[n], 1, L) /\ Shuffle(L, s, sorted[n], 1, L)  BY <3>2, CreateHeap
    <3> QED  BY <2>3, <3>1, <3>3, <3>4
  <2>5. m - 1 \in 0 .. L /\ m - 1 \notin bad
    <3>1. m - 1 \in 0 .. L /\ ~(m <= m - 1)  BY <2>3, <2>4
    <3> HIDE DEF bad
    <3> QED  BY <2>2, <3>1
  <2>6. n \in 1 .. L /\ L + 1 - (m - 1) = n + 1 /\ (n + 1) - 1 = n  BY <2>3, <2>4
  <2>7. Shuffle(L, s, sorted[n + 1], 1, L) /\ IsHeap(sorted[n + 1], 1, n) /\ Sorted(L, sorted[n + 1], n + 1)
    <3>1. Good(sorted, L + 1 - (m - 1))  BY <2>5
    <3> HIDE DEF n
    <3> QED  BY <2>6, <3>1
  <2>8. sorted[n] = Pass(sorted[n + 1], n)  BY <1>4, <2>6
  <2> HIDE DEF n
  <2>9. sorted[n + 1] \in Arrays(L) /\ Distinct(sorted[n + 1])  BY <2>7 DEF Shuffle
  <2>10. Shuffle(L, sorted[n + 1], sorted[n], 1, L) /\ IsHeap(sorted[n], 1, n - 1) /\ Sorted(L, sorted[n], n)
    <3>1. L \in Nat  OBVIOUS
    <3>2. sorted[n] = IF n = 1 THEN SwapNodes(sorted[n + 1], 1, n)
                      ELSE BalloonHeapPushDown(SwapNodes(sorted[n + 1], 1, n), 1, n - 1)
      BY <2>8 DEF Pass
    <3> QED  BY <2>6, <2>7, <2>9, <3>1, <3>2, SortOnce
  <2>11. Shuffle(L, s, sorted[n], 1, L)
    <3>1. 1 \in Nat /\ 1 <= 1 /\ L <= L /\ L \in Nat  OBVIOUS
    <3> QED  BY <2>7, <2>10, <3>1, ShuffleTwice
  <2> QED  BY <2>3, <2>10, <2>11
<1>6. Good(sorted, 1)
  <2>1. L \in 0 .. L /\ L + 1 - L = 1  OBVIOUS
  <2> QED  BY <1>5, <2>1
<1> QED  BY <1>3, <1>6

\* The array of pages ends up with the pages it was given, ascending.
LEMMA GivenSorted ==
  ASSUME NEW S \in SUBSET Pfn, S # {}, NEW given \in Orders(S)
  PROVE  LET n == Cardinality(S)
             sorted == BalloonSort(given)
         IN /\ {sorted[i] : i \in 1 .. n} = S
            /\ \A i, j \in 1 .. n : i < j => sorted[i] < sorted[j]
<1> DEFINE n == Cardinality(S)
<1> DEFINE sorted == BalloonSort(given)
<1>1. IsFiniteSet(S) /\ n \in Nat \ {0}
  <2>1. IsFiniteSet(S)  BY BalloonAssumption, FS_Subset
  <2>2. n \in Nat /\ n # 0  BY <2>1, FS_CardinalityType, FS_EmptySet
  <2> QED  BY <2>1, <2>2
<1>2. given \in [1 .. n -> S] /\ \A i, j \in 1 .. n : given[i] = given[j] => i = j
  BY DEF Orders
<1>3. S \subseteq Nat  BY BalloonAssumption
<1>4. \A x \in S : \E i \in 1 .. n : given[i] = x
  <2>1. Cardinality(1 .. n) = n
    <3>1. 1 \in Int /\ n \in Int /\ ~(1 > n)  BY <1>1
    <3>2. Cardinality(1 .. n) = IF 1 > n THEN 0 ELSE n - 1 + 1  BY <3>1, FS_Interval
    <3> HIDE DEF n
    <3> QED  BY <3>1, <3>2
  <2>2. given \in Injection(1 .. n, S)  BY <1>2 DEF Injection, IsInjective
  <2>3. given \in Surjection(1 .. n, S)  BY <1>1, <2>1, <2>2, FS_Injection
  <2> QED  BY <2>3 DEF Surjection
<1> HIDE DEF n
<1>5. given \in Arrays(n) /\ Distinct(given)  BY <1>2, <1>3 DEF Arrays, Distinct
<1>6. Shuffle(n, given, sorted, 1, n) /\ Sorted(n, sorted, 1)  BY <1>1, <1>5, SortSorts
<1> HIDE DEF sorted
<1>7. \A i \in 1 .. n : sorted[i] \in S  BY <1>2, <1>6 DEF Shuffle
<1>8. \A x \in S : \E i \in 1 .. n : sorted[i] = x
  <2> SUFFICES ASSUME NEW x \in S PROVE \E i \in 1 .. n : sorted[i] = x  OBVIOUS
  <2>1. PICK i \in 1 .. n : given[i] = x  BY <1>4
  <2>2. \E j \in 1 .. n : given[i] = sorted[j]  BY <1>6 DEF Shuffle
  <2> QED  BY <2>1, <2>2
<1>9. {sorted[i] : i \in 1 .. n} = S  BY <1>7, <1>8
<1>10. \A i, j \in 1 .. n : i < j => sorted[i] < sorted[j]  BY <1>6 DEF Sorted
<1> QED  BY <1>9, <1>10 DEF n, sorted

-----------------------------------------------------------------------------
(* The invariant: where each page is, through an adjustment.               *)

BalloonStates == {"idle", "adjust", "inflate", "put", "decrease", "free", "deflate", "give"}
ArrayInUse == balloon.pc \in {"put", "decrease", "free", "give"}

BalloonTypes ==
  /\ windows \subseteq backed /\ backed \subseteq Pfn /\ balloonSet \subseteq Pfn
  /\ PfnArray \in [1 .. ArraySize -> Nat] /\ Size \in Int
  /\ balloon \in [pc : BalloonStates, size : Int, requested : Int, count : Int,
                  n : 0 .. ArraySize, done : 0 .. ArraySize,
                  status : {"success", "fist", "low_memory", "retry"},
                  inflation : BOOLEAN, deflation : BOOLEAN]

\* What is left in the array, once the hypervisor has taken the first of it.
FirstLeft == IF balloon.pc = "free" THEN balloon.done + 1 ELSE 1
Remaining == FirstLeft .. balloon.n
PagesLeft == IF ArrayInUse THEN {PfnArray[i] : i \in Remaining} ELSE {}

\* The pages in the array: each once, taken from those with memory, and on the way to the
\* hypervisor ascending and not with Windows.
ArrayInv ==
  /\ ArrayInUse => /\ PagesLeft \subseteq backed
                   /\ \A i, j \in Remaining : PfnArray[i] = PfnArray[j] => i = j
  /\ balloon.pc \in {"put", "decrease"} =>
       \A i, j \in 1 .. balloon.n : i < j => PfnArray[i] < PfnArray[j]
  /\ balloon.pc \in {"put", "decrease", "free"} => windows \cap PagesLeft = {}
  /\ balloon.pc \in {"decrease", "free"} => balloon.done <= balloon.n
  /\ balloon.pc = "free" => \A i \in 1 .. balloon.done : PfnArray[i] = 0

\* What the hypervisor has taken or populated that Size does not count yet.
Uncounted ==
  CASE balloon.pc \in {"inflate", "put", "decrease"} -> balloon.count
    [] balloon.pc = "free"    -> balloon.count + balloon.done
    [] balloon.pc = "deflate" -> 0 - balloon.count
    [] balloon.pc = "give"    -> 0 - (balloon.count + balloon.n)
    [] OTHER                  -> 0

InSet == IF balloon.pc = "decrease" THEN FirstPages(balloon.done) ELSE {}

\* Every page is in one place, and Size counts those that are without memory.
PlacesInv ==
  /\ windows \cap PagesLeft = {} /\ windows \cap leaked = {} /\ PagesLeft \cap leaked = {}
  /\ windows \cup PagesLeft \cup leaked = backed
  /\ balloonSet = (Pfn \ backed) \cup InSet
  /\ Cardinality(Pfn \ backed) = Size + Uncounted

BalloonIInv == BalloonTypes /\ ArrayInv /\ (~balloonFailed => PlacesInv)

\* The invariant says what BalloonExact does.
LEMMA BalloonImplies == ASSUME BalloonIInv PROVE BalloonExact
<1> USE DEF BalloonIInv
<1>0. balloon.n \in Nat /\ balloon.done \in Nat /\ balloon.pc \in BalloonStates
  BY BalloonAssumption DEF BalloonTypes
<1>1. windows \subseteq backed  BY DEF BalloonTypes
<1>2. ASSUME balloon.pc \in {"put", "decrease"}, NEW i \in 1 .. balloon.n - 1
      PROVE  PfnArray[i] < PfnArray[i + 1]
  <2>1. i \in 1 .. balloon.n /\ i + 1 \in 1 .. balloon.n /\ i < i + 1  BY <1>0
  <2> QED  BY <1>2, <2>1 DEF ArrayInv
<1>3. InArray \subseteq PagesLeft
  <2>1. CASE ~ArrayInUse  BY <2>1 DEF InArray, ArrayInUse
  <2>2. CASE ArrayInUse /\ balloon.pc # "free"
    BY <2>2 DEF InArray, PagesLeft, Remaining, FirstLeft, ArrayInUse
  <2>3. CASE balloon.pc = "free"
    <3>1. ASSUME NEW x \in InArray PROVE x \in PagesLeft
      <4>1. PICK i \in 1 .. balloon.n : x = PfnArray[i] /\ x # 0  BY <2>3, <3>1 DEF InArray
      <4>2. i \notin 1 .. balloon.done  BY <2>3, <4>1 DEF ArrayInv
      <4>3. i \in balloon.done + 1 .. balloon.n  BY <1>0, <4>2
      <4> QED  BY <2>3, <4>1, <4>3 DEF PagesLeft, Remaining, FirstLeft, ArrayInUse
    <3> QED  BY <3>1
  <2> QED  BY <2>1, <2>2, <2>3
<1>4. ASSUME ~balloonFailed
      PROVE  /\ windows \cap InArray = {} /\ (windows \cup InArray) \cap leaked = {}
             /\ balloon.pc \in {"idle", "adjust", "inflate", "deflate"} =>
                  windows \cup leaked = backed /\ balloonSet = Pfn \ backed
             /\ balloon.pc \in {"idle", "adjust"} => Size = Cardinality(balloonSet)
  <2>0. PlacesInv  BY <1>4
  <2>1. windows \cap InArray = {} /\ (windows \cup InArray) \cap leaked = {}  BY <1>3, <2>0 DEF PlacesInv
  <2>2. ASSUME balloon.pc \in {"idle", "adjust", "inflate", "deflate"}
        PROVE  windows \cup leaked = backed /\ balloonSet = Pfn \ backed
    BY <2>0, <2>2 DEF PlacesInv, PagesLeft, ArrayInUse, InSet
  <2>3. ASSUME balloon.pc \in {"idle", "adjust"} PROVE Size = Cardinality(balloonSet)
    <3>1. balloonSet = Pfn \ backed  BY <2>2, <2>3
    <3>2. Uncounted = 0  BY <2>3 DEF Uncounted
    <3>3. Cardinality(Pfn \ backed) = Size + 0  BY <2>0, <3>2 DEF PlacesInv
    <3> QED  BY <3>1, <3>3 DEF BalloonTypes
  <2> QED  BY <2>1, <2>2, <2>3
<1> QED  BY <1>1, <1>2, <1>4 DEF BalloonExact

-----------------------------------------------------------------------------
(* Counting pages.                                                         *)

\* A set of k pages that are listed once each has k elements.
LEMMA Listed ==
  ASSUME NEW k \in Nat, NEW f, \A i, j \in 1 .. k : f[i] = f[j] => i = j
  PROVE  LET T == {f[i] : i \in 1 .. k} IN IsFiniteSet(T) /\ Cardinality(T) = k
<1> DEFINE T == {f[i] : i \in 1 .. k}
<1> DEFINE g == [i \in 1 .. k |-> f[i]]
<1>1. IsFiniteSet(1 .. k) /\ Cardinality(1 .. k) = k
  <2>1. 1 \in Int /\ k \in Int /\ (1 > k => k = 0)  OBVIOUS
  <2>2. Cardinality(1 .. k) = IF 1 > k THEN 0 ELSE k - 1 + 1  BY <2>1, FS_Interval
  <2>3. Cardinality(1 .. k) = k  BY <2>1, <2>2
  <2> QED  BY <2>1, <2>3, FS_Interval
<1>2. g \in Surjection(1 .. k, T) /\ g \in Injection(1 .. k, T)
  BY DEF Surjection, Injection, IsInjective
<1>3. IsFiniteSet(T)  BY <1>1, <1>2, FS_Surjection
<1>4. Cardinality(T) = Cardinality(1 .. k)  BY <1>1, <1>2, FS_Surjection
<1> QED  BY <1>1, <1>3, <1>4

\* Pages that lose their memory, or get it, change the number of those without.
LEMMA Taken ==
  ASSUME NEW B \in SUBSET Pfn, NEW T \in SUBSET B
  PROVE  /\ IsFiniteSet(T) /\ Cardinality(T) \in Nat /\ Cardinality(Pfn \ B) \in Nat
         /\ Cardinality(Pfn \ (B \ T)) = Cardinality(Pfn \ B) + Cardinality(T)
<1>1. IsFiniteSet(Pfn \ B) /\ IsFiniteSet(T)
  <2>1. (Pfn \ B) \subseteq Pfn /\ T \subseteq Pfn  OBVIOUS
  <2> QED  BY <2>1, BalloonAssumption, FS_Subset
<1>2. (Pfn \ B) \cap T = {} /\ Pfn \ (B \ T) = (Pfn \ B) \cup T  OBVIOUS
<1>3. Cardinality((Pfn \ B) \cup T) = Cardinality(Pfn \ B) + Cardinality(T) - Cardinality((Pfn \ B) \cap T)
  BY <1>1, FS_Union
<1>4. Cardinality((Pfn \ B) \cap T) = 0  BY <1>2, FS_EmptySet
<1>5. Cardinality(Pfn \ B) \in Nat /\ Cardinality(T) \in Nat  BY <1>1, FS_CardinalityType
<1>6. Cardinality(Pfn \ (B \ T)) = Cardinality((Pfn \ B) \cup T)  BY <1>2
<1> DEFINE u == Cardinality(Pfn \ B)
<1> DEFINE t == Cardinality(T)
<1>7. u \in Nat /\ t \in Nat /\ Cardinality(Pfn \ (B \ T)) = u + t - 0  BY <1>3, <1>4, <1>5, <1>6
<1> HIDE DEF u, t
<1>8. u + t - 0 = u + t  BY <1>7
<1>9. Cardinality(Pfn \ (B \ T)) = u + t  BY <1>7, <1>8
<1> QED  BY <1>1, <1>5, <1>9 DEF u, t

\* The lowest pages of a set are its elements, each once.
LEMMA LowPages ==
  ASSUME NEW S \in SUBSET Pfn
  PROVE  /\ Cardinality(S) \in Nat
         /\ \A i \in 1 .. Cardinality(S) : IthLowest(S, i) \in S
         /\ \A i, j \in 1 .. Cardinality(S) : IthLowest(S, i) = IthLowest(S, j) => i = j
<1>1. S \in SUBSET Int /\ IsFiniteSet(S)
  <2>1. IsFiniteSet(S)  BY BalloonAssumption, FS_Subset
  <2> QED  BY <2>1, BalloonAssumption
<1>2. Cardinality(S) \in Nat  BY <1>1, FS_CardinalityType
<1>3. ASSUME NEW i \in 1 .. Cardinality(S)
      PROVE  i - 1 \in 0 .. Cardinality(S) - 1 /\ IthLowest(S, i) = Nth(S, i - 1)
  BY <1>2 DEF IthLowest, Nth
<1>4. ASSUME NEW i \in 1 .. Cardinality(S), NEW j \in 1 .. Cardinality(S),
             IthLowest(S, i) = IthLowest(S, j)
      PROVE  i = j
  <2>1. Nth(S, i - 1) = Nth(S, j - 1)  BY <1>3, <1>4
  <2>2. i - 1 = j - 1  BY <1>1, <1>3, <2>1, NthPages
  <2> QED  BY <1>2, <2>2
<1> QED  BY <1>1, <1>2, <1>3, <1>4, NthPages

-----------------------------------------------------------------------------
(* Steps.                                                                  *)

BalloonType ==
  [pc : BalloonStates, size : Int, requested : Int, count : Int, n : 0 .. ArraySize,
   done : 0 .. ArraySize, status : {"success", "fist", "low_memory", "retry"},
   inflation : BOOLEAN, deflation : BOOLEAN]

LEMMA BalloonFields ==
  ASSUME BalloonIInv
  PROVE  /\ balloon \in BalloonType /\ ArraySize \in Nat /\ 0 \in 0 .. ArraySize
         /\ balloon.count \in Int /\ balloon.requested \in Int /\ balloon.size \in Int
         /\ balloon.n \in 0 .. ArraySize /\ balloon.done \in 0 .. ArraySize /\ Size \in Int
         /\ balloon.n \in Nat /\ balloon.done \in Nat
<1>1. balloon \in BalloonType  BY DEF BalloonIInv, BalloonTypes, BalloonType
<1>2. ArraySize \in Nat  BY BalloonAssumption
<1> QED  BY <1>1, <1>2 DEF BalloonType, BalloonIInv, BalloonTypes

LEMMA LoopFields ==
  ASSUME balloon \in BalloonType, 0 \in 0 .. ArraySize, NEW to \in BalloonStates, NEW count \in Int,
         NEW status \in {"success", "fist", "low_memory", "retry"},
         balloon' = [balloon EXCEPT !.pc = to, !.count = count, !.status = status, !.n = 0, !.done = 0]
  PROVE  balloon' \in BalloonType /\ balloon'.pc = to /\ balloon'.count = count
<1>1. balloon' \in BalloonType  BY DEF BalloonType
<1>2. balloon'.pc = to /\ balloon'.count = count  BY DEF BalloonType
<1> QED  BY <1>1, <1>2

\* A step of the loops: the array is not in use, no page moves, and what Size does not
\* count yet is added to it.
LEMMA LoopStep ==
  ASSUME BalloonIInv, ~ArrayInUse, ~ArrayInUse', balloon' \in BalloonType, Size' \in Int,
         Size' + Uncounted' = Size + Uncounted,
         UNCHANGED <<windows, backed, balloonSet, PfnArray, leaked, balloonFailed>>
  PROVE  BalloonIInv'
<1>1. BalloonTypes'  BY DEF BalloonIInv, BalloonTypes, BalloonType
<1>2. ArrayInv'  BY DEF ArrayInv, ArrayInUse
<1>3. PagesLeft = {} /\ PagesLeft' = {} /\ InSet = {} /\ InSet' = {}
  BY DEF PagesLeft, InSet, ArrayInUse
<1>4. ASSUME ~balloonFailed' PROVE PlacesInv'
  BY <1>3, <1>4 DEF BalloonIInv, PlacesInv
<1> QED  BY <1>1, <1>2, <1>4 DEF BalloonIInv

LEMMA AdjustStep == ASSUME BalloonIInv, NEW size \in 0 .. Cardinality(Pfn), BalloonAdjust(size) PROVE BalloonIInv'
<1>1. size \in Int  OBVIOUS
<1>2. PICK inflation \in BOOLEAN, deflation \in BOOLEAN :
        balloon' = [Still EXCEPT !.pc = "adjust", !.size = size,
                                 !.inflation = inflation, !.deflation = deflation]
  BY DEF BalloonAdjust
<1>3. balloon' \in BalloonType
  <2>1. balloon' = [pc |-> "adjust", size |-> size, requested |-> 0, count |-> 0, n |-> 0, done |-> 0,
                    status |-> "success", inflation |-> inflation, deflation |-> deflation]
    BY <1>2 DEF Still
  <2> QED  BY <1>1, <2>1, BalloonFields DEF BalloonType, BalloonStates
<1>4. balloon'.pc = "adjust" /\ balloon.pc = "idle"  BY <1>2 DEF BalloonAdjust, Still
<1>5. Uncounted = 0 /\ Uncounted' = 0  BY <1>4 DEF Uncounted
<1>6. ~ArrayInUse /\ ~ArrayInUse'  BY <1>4 DEF ArrayInUse
<1>7. UNCHANGED <<windows, backed, balloonSet, PfnArray, Size, leaked, balloonFailed>>  BY DEF BalloonAdjust
<1> QED  BY <1>3, <1>5, <1>6, <1>7, LoopStep, BalloonFields

LEMMA RoundStep == ASSUME BalloonIInv, BalloonRound PROVE BalloonIInv'
<1>0. balloon \in BalloonType /\ balloon.pc = "adjust"  BY BalloonFields DEF BalloonRound
<1>1. /\ balloon' \in BalloonType
      /\ \/ balloon'.pc \in {"idle", "adjust"}
         \/ balloon'.pc \in {"inflate", "deflate"} /\ balloon'.count = 0
  <2>1. CASE balloon' = Still
    BY <2>1, BalloonFields DEF BalloonType, Still, BalloonStates
  <2>2. CASE \E status \in {"fist", "low_memory"} : balloon' = [balloon EXCEPT !.status = status]
    BY <1>0, <2>2 DEF BalloonType
  <2>3. CASE \E to \in {"inflate", "deflate"}, n \in Int :
               balloon' = [balloon EXCEPT !.pc = to, !.requested = n, !.count = 0]
    <3>1. PICK to \in {"inflate", "deflate"}, n \in Int :
            balloon' = [balloon EXCEPT !.pc = to, !.requested = n, !.count = 0]  BY <2>3
    <3>2. to \in BalloonStates /\ 0 \in Int  BY DEF BalloonStates
    <3>3. balloon' \in BalloonType  BY <1>0, <3>1, <3>2 DEF BalloonType
    <3>4. balloon'.pc = to /\ balloon'.count = 0  BY <1>0, <3>1 DEF BalloonType
    <3> QED  BY <3>3, <3>4
  <2>4. balloon.size - Size \in Int /\ Size - balloon.size \in Int  BY BalloonFields
  <2> QED  BY <2>1, <2>2, <2>3, <2>4 DEF BalloonRound
<1>2. Uncounted = 0 /\ Uncounted' = 0  BY <1>0, <1>1 DEF Uncounted
<1>3. ~ArrayInUse /\ ~ArrayInUse'  BY <1>0, <1>1 DEF ArrayInUse
<1>4. UNCHANGED <<windows, backed, balloonSet, PfnArray, Size, leaked, balloonFailed>>  BY DEF BalloonRound
<1> QED  BY <1>1, <1>2, <1>3, <1>4, LoopStep, BalloonFields

LEMMA InflatedStep == ASSUME BalloonIInv, BalloonInflated \/ BalloonDeflated PROVE BalloonIInv'
<1>1. /\ balloon' = [balloon EXCEPT !.pc = "adjust", !.count = 0, !.status = balloon.status, !.n = 0, !.done = 0]
      /\ UNCHANGED <<windows, backed, balloonSet, PfnArray, leaked, balloonFailed>>
      /\ \/ balloon.pc = "inflate" /\ Size' = Size + balloon.count
         \/ balloon.pc = "deflate" /\ Size' = Size - balloon.count
  BY DEF BalloonInflated, BalloonDeflated, Loop
<1>2. balloon' \in BalloonType /\ balloon'.pc = "adjust"
  <2>1. "adjust" \in BalloonStates /\ 0 \in Int /\ 0 \in 0 .. ArraySize  BY BalloonFields DEF BalloonStates
  <2>2. balloon \in BalloonType  BY BalloonFields
  <2>3. balloon.status \in {"success", "fist", "low_memory", "retry"}  BY <2>2 DEF BalloonType
  <2> QED  BY <1>1, <2>1, <2>2, <2>3, LoopFields
<1>3. ~ArrayInUse /\ ~ArrayInUse'  BY <1>1, <1>2 DEF ArrayInUse
<1>4. Size' \in Int /\ Uncounted' = 0 /\ Size' + Uncounted' = Size + Uncounted
  BY <1>1, <1>2, BalloonFields DEF Uncounted
<1> QED  BY <1>1, <1>2, <1>3, <1>4, LoopStep

LEMMA AllocateArrayStep == ASSUME BalloonIInv, BalloonAllocatePfnArray PROVE BalloonIInv'
<1> USE DEF BalloonIInv
<1>0. balloon \in BalloonType /\ balloon.pc = "inflate"  BY BalloonFields DEF BalloonAllocatePfnArray
<1>1. PICK S \in SUBSET windows : /\ Cardinality(S) <= ThisTime /\ windows' = windows \ S
        /\ \E given \in Orders(S), slow \in BOOLEAN :
             LET n == Cardinality(S)
                 sorted == IF n = 0 THEN given ELSE BalloonSort(given) IN
             /\ PfnArray' = [i \in 1 .. ArraySize |-> IF i <= n THEN sorted[i] ELSE PfnArray[i]]
             /\ balloon' = [balloon EXCEPT !.pc = "put", !.n = n,
                              !.status = IF n < ThisTime \/ slow THEN "retry" ELSE @]
  BY DEF BalloonAllocatePfnArray
<1> DEFINE n == Cardinality(S)
<1>2. PICK given \in Orders(S), slow \in BOOLEAN :
        LET sorted == IF n = 0 THEN given ELSE BalloonSort(given) IN
             /\ PfnArray' = [i \in 1 .. ArraySize |-> IF i <= n THEN sorted[i] ELSE PfnArray[i]]
             /\ balloon' = [balloon EXCEPT !.pc = "put", !.n = n,
                              !.status = IF n < ThisTime \/ slow THEN "retry" ELSE @]
  BY <1>1
<1> DEFINE sorted == IF n = 0 THEN given ELSE BalloonSort(given)
<1>3. UNCHANGED <<backed, balloonSet, Size, leaked, balloonFailed>>  BY DEF BalloonAllocatePfnArray
<1>4. S \subseteq backed /\ S \subseteq Pfn  BY DEF BalloonTypes
<1>5. n \in 0 .. ArraySize
  <2>1. n \in Nat /\ IsFiniteSet(S)  BY <1>4, Taken, FS_CardinalityType, BalloonAssumption, FS_Subset
  <2>2. ThisTime <= ArraySize  BY BalloonFields DEF ThisTime, Least
  <2>3. ThisTime \in Int  BY BalloonFields DEF ThisTime, Least
  <2> QED  BY <1>1, <2>1, <2>2, <2>3, BalloonFields
<1>6. /\ {sorted[i] : i \in 1 .. n} = S
      /\ \A i, j \in 1 .. n : i < j => sorted[i] < sorted[j]
  <2>1. CASE n # 0
    <3>1. S # {}  BY <2>1, FS_EmptySet
    <3>2. S \in SUBSET Pfn  BY <1>4
    <3> QED  BY <2>1, <3>1, <3>2, GivenSorted
  <2>2. CASE n = 0
    <3>1. S = {}
      <4>1. IsFiniteSet(S)  BY <1>4, BalloonAssumption, FS_Subset
      <4> QED  BY <2>2, <4>1, FS_EmptySet
    <3>2. 1 .. n = {}  BY <2>2
    <3> QED  BY <3>1, <3>2
  <2> QED  BY <2>1, <2>2
<1>7. PfnArray' = [i \in 1 .. ArraySize |-> IF i <= n THEN sorted[i] ELSE PfnArray[i]]  BY <1>2
<1>9. balloon' \in BalloonType /\ balloon'.pc = "put" /\ balloon'.n = n /\ balloon'.count = balloon.count
  <2>1. balloon' = [balloon EXCEPT !.pc = "put", !.n = n,
                              !.status = IF n < ThisTime \/ slow THEN "retry" ELSE @]  BY <1>2
  <2> HIDE DEF n
  <2> QED  BY <1>0, <1>5, <2>1 DEF BalloonType, BalloonStates
<1> HIDE DEF n, sorted
<1>8. \A i \in 1 .. n : i \in 1 .. ArraySize /\ PfnArray'[i] = sorted[i] /\ sorted[i] \in S
  <2> SUFFICES ASSUME NEW i \in 1 .. n
               PROVE  i \in 1 .. ArraySize /\ PfnArray'[i] = sorted[i] /\ sorted[i] \in S  OBVIOUS
  <2>1. i \in 1 .. ArraySize /\ i <= n  BY <1>5, BalloonFields
  <2>2. PfnArray'[i] = sorted[i]  BY <1>7, <2>1
  <2>3. sorted[i] \in S  BY <1>6
  <2> QED  BY <2>1, <2>2, <2>3
<1>10. PagesLeft' = S /\ ArrayInUse' /\ Remaining' = 1 .. n
  <2>1. ArrayInUse' /\ Remaining' = 1 .. n  BY <1>9 DEF ArrayInUse, Remaining, FirstLeft
  <2>2. PagesLeft' = {PfnArray'[i] : i \in 1 .. n}  BY <2>1 DEF PagesLeft
  <2> QED  BY <1>6, <1>8, <2>1, <2>2
<1>11. BalloonTypes'
  <2>1. windows' \subseteq backed' /\ backed' \subseteq Pfn /\ balloonSet' \subseteq Pfn /\ Size' \in Int
    BY <1>1, <1>3 DEF BalloonTypes
  <2>2. \A i \in 1 .. ArraySize : i <= n => i \in 1 .. n  BY <1>5
  <2>3. S \subseteq Nat  BY <1>4, BalloonAssumption
  <2>4. PfnArray' \in [1 .. ArraySize -> Nat]  BY <1>7, <1>8, <2>2, <2>3 DEF BalloonTypes
  <2> QED  BY <1>9, <2>1, <2>4 DEF BalloonTypes, BalloonType
<1>12. ArrayInv'
  <2>1. \A i, j \in 1 .. n : i < j => PfnArray'[i] < PfnArray'[j]  BY <1>6, <1>8
  <2>2. \A i \in 1 .. n : PfnArray'[i] \in Nat  BY <1>8, <1>4, BalloonAssumption
  <2>3. \A i, j \in 1 .. n : PfnArray'[i] = PfnArray'[j] => i = j
    <3> SUFFICES ASSUME NEW i \in 1 .. n, NEW j \in 1 .. n, PfnArray'[i] = PfnArray'[j], i # j
                 PROVE  FALSE  OBVIOUS
    <3>1. i < j \/ j < i  BY <1>5
    <3> QED  BY <2>1, <2>2, <3>1
  <2> QED  BY <1>1, <1>3, <1>4, <1>9, <1>10, <2>1, <2>3 DEF ArrayInv
<1>13. ASSUME ~balloonFailed' PROVE PlacesInv'
  <2>1. PlacesInv /\ PagesLeft = {} /\ InSet = {} /\ InSet' = {}
    BY <1>0, <1>3, <1>9, <1>13 DEF PagesLeft, InSet, ArrayInUse
  <2>2. Uncounted' = Uncounted  BY <1>0, <1>9 DEF Uncounted
  <2> QED  BY <1>1, <1>3, <1>10, <2>1, <2>2 DEF PlacesInv
<1> QED  BY <1>11, <1>12, <1>13

LEMMA ReleasePutStep == ASSUME BalloonIInv, ReleasePut PROVE BalloonIInv'
<1> USE DEF BalloonIInv
<1>0. balloon \in BalloonType /\ balloon.pc = "put"  BY BalloonFields DEF ReleasePut
<1>1. PICK k \in 0 .. balloon.n : /\ balloonSet' = balloonSet \cup FirstPages(k)
                                  /\ balloon' = [balloon EXCEPT !.pc = "decrease", !.done = k]
  BY DEF ReleasePut
<1>2. UNCHANGED <<windows, backed, PfnArray, Size, leaked, balloonFailed>>  BY DEF ReleasePut
<1>3. k \in 0 .. ArraySize /\ k <= balloon.n  BY BalloonFields
<1>4. /\ balloon' \in BalloonType /\ balloon'.pc = "decrease" /\ balloon'.done = k
      /\ balloon'.n = balloon.n /\ balloon'.count = balloon.count
  BY <1>0, <1>1, <1>3 DEF BalloonType, BalloonStates
<1>5. /\ ArrayInUse /\ ArrayInUse' /\ Remaining = 1 .. balloon.n /\ Remaining' = 1 .. balloon.n
      /\ PagesLeft' = PagesLeft
  BY <1>0, <1>2, <1>4 DEF ArrayInUse, Remaining, FirstLeft, PagesLeft
<1>6. FirstPages(k) \subseteq PagesLeft /\ FirstPages(k) \subseteq Pfn
  <2>1. 1 .. k \subseteq 1 .. balloon.n  BY <1>3, BalloonFields
  <2>2. FirstPages(k) \subseteq PagesLeft  BY <1>5, <2>1 DEF FirstPages, PagesLeft
  <2> QED  BY <1>5, <2>2 DEF ArrayInv, BalloonTypes
<1>7. BalloonTypes'  BY <1>1, <1>2, <1>4, <1>6 DEF BalloonTypes, BalloonType
<1>8. ArrayInv'  BY <1>0, <1>2, <1>3, <1>4, <1>5 DEF ArrayInv
<1>9. ASSUME ~balloonFailed' PROVE PlacesInv'
  <2>1. PlacesInv /\ InSet = {}  BY <1>0, <1>2, <1>9 DEF InSet
  <2>2. InSet' = FirstPages(k)  BY <1>2, <1>4 DEF InSet, FirstPages
  <2>3. Uncounted' = Uncounted  BY <1>0, <1>4 DEF Uncounted
  <2> QED  BY <1>1, <1>2, <1>5, <2>1, <2>2, <2>3 DEF PlacesInv
<1> QED  BY <1>7, <1>8, <1>9

\* A list cut in two.
LEMMA Cut ==
  ASSUME NEW f, NEW n \in Nat, NEW r \in 0 .. n, \A i, j \in 1 .. n : f[i] = f[j] => i = j
  PROVE  /\ {f[i] : i \in 1 .. r} \cap {f[i] : i \in r + 1 .. n} = {}
         /\ {f[i] : i \in 1 .. r} \cup {f[i] : i \in r + 1 .. n} = {f[i] : i \in 1 .. n}
<1>1. \A i \in 1 .. r : i \in 1 .. n  OBVIOUS
<1>2. \A i \in r + 1 .. n : i \in 1 .. n  OBVIOUS
<1>3. \A i \in 1 .. r, j \in r + 1 .. n : i # j  OBVIOUS
<1>4. \A i \in 1 .. n : i \in 1 .. r \/ i \in r + 1 .. n  OBVIOUS
<1>5. \A i \in 1 .. r, j \in r + 1 .. n : f[i] # f[j]  BY <1>1, <1>2, <1>3
<1> QED  BY <1>1, <1>2, <1>4, <1>5

LEMMA ReleaseDecreaseStep == ASSUME BalloonIInv, ReleaseDecrease PROVE BalloonIInv'
<1> USE DEF BalloonIInv
<1>0. balloon \in BalloonType /\ balloon.pc = "decrease"  BY BalloonFields DEF ReleaseDecrease
<1> DEFINE d == balloon.done
<1> DEFINE n == balloon.n
<1>1. PICK r \in 0 .. d :
        LET kept == {PfnArray[i] : i \in r + 1 .. d} IN
        /\ backed' = backed \ FirstPages(r)
        /\ PfnArray' = Zeroed(PfnArray, r)
        /\ \/ balloonSet' = balloonSet \ kept /\ UNCHANGED balloonFailed
           \/ \E x \in kept : /\ {x - 1, x + 1} \subseteq balloonSet
                              /\ balloonSet' = balloonSet \ (kept \ {x}) /\ balloonFailed' = TRUE
        /\ balloon' = [balloon EXCEPT !.pc = "free", !.done = r]
  BY DEF ReleaseDecrease
<1>2. UNCHANGED <<windows, Size, leaked>>  BY DEF ReleaseDecrease
<1> DEFINE kept == {PfnArray[i] : i \in r + 1 .. d}
<1>3. /\ n \in Nat /\ d \in Nat /\ r \in Nat /\ r <= d /\ d <= n /\ n <= ArraySize
      /\ r \in 0 .. n /\ d \in 0 .. n /\ r \in 0 .. ArraySize
  BY <1>0, BalloonFields DEF ArrayInv
<1>4. /\ balloon' \in BalloonType /\ balloon'.pc = "free" /\ balloon'.done = r
      /\ balloon'.n = n /\ balloon'.count = balloon.count
  BY <1>0, <1>1, <1>3 DEF BalloonType, BalloonStates
<1>5. /\ ArrayInUse /\ Remaining = 1 .. n /\ PagesLeft = FirstPages(n)
      /\ ArrayInUse' /\ Remaining' = r + 1 .. n
  BY <1>0, <1>4 DEF ArrayInUse, Remaining, FirstLeft, PagesLeft, FirstPages
<1>6. PfnArray' = [i \in 1 .. ArraySize |-> IF i <= r THEN 0 ELSE PfnArray[i]]  BY <1>1 DEF Zeroed
<1> HIDE DEF n, d
<1>7. /\ \A i \in 1 .. r : PfnArray'[i] = 0
      /\ \A i \in r + 1 .. n : PfnArray'[i] = PfnArray[i] /\ i \in 1 .. n
  <2>0. ArraySize \in Nat  BY BalloonFields
  <2>1. \A i \in 1 .. r : i \in 1 .. ArraySize /\ i <= r  BY <1>3, <2>0
  <2>2. \A i \in r + 1 .. n : i \in 1 .. ArraySize /\ ~(i <= r) /\ i \in 1 .. n  BY <1>3, <2>0
  <2>3. \A i \in 1 .. ArraySize : PfnArray'[i] = IF i <= r THEN 0 ELSE PfnArray[i]  BY <1>6
  <2> QED  BY <2>1, <2>2, <2>3
<1>8. PagesLeft' = {PfnArray[i] : i \in r + 1 .. n}
  <2>1. PagesLeft' = {PfnArray'[i] : i \in r + 1 .. n}  BY <1>5 DEF PagesLeft
  <2> QED  BY <1>7, <2>1
<1>9. \A i, j \in 1 .. n : PfnArray[i] = PfnArray[j] => i = j  BY <1>5 DEF ArrayInv
<1>10. FirstPages(r) \cap PagesLeft' = {} /\ FirstPages(r) \cup PagesLeft' = PagesLeft
  BY <1>3, <1>5, <1>8, <1>9, Cut DEF FirstPages
<1>11. FirstPages(r) \cap kept = {} /\ FirstPages(r) \cup kept = FirstPages(d)
  <2>1. \A i, j \in 1 .. d : PfnArray[i] = PfnArray[j] => i = j  BY <1>3, <1>9
  <2>2. r \in 0 .. d  BY <1>3
  <2> QED  BY <1>3, <2>1, <2>2, Cut DEF FirstPages
<1> HIDE DEF kept
<1>12. FirstPages(d) \subseteq PagesLeft
  <2>1. \A i \in 1 .. d : i \in 1 .. n  BY <1>3
  <2> QED  BY <1>5, <2>1 DEF FirstPages
<1>13. PagesLeft \subseteq backed /\ backed \subseteq Pfn /\ windows \cap PagesLeft = {}
  BY <1>0, <1>5 DEF ArrayInv, BalloonTypes
<1>14. BalloonTypes'
  <2>1. PfnArray' \in [1 .. ArraySize -> Nat]  BY <1>6 DEF BalloonTypes
  <2>2. windows' \subseteq backed'  BY <1>1, <1>2, <1>10, <1>13 DEF BalloonTypes
  <2>3. balloonSet' \subseteq balloonSet  BY <1>1
  <2> QED  BY <1>1, <1>2, <1>4, <1>13, <2>1, <2>2, <2>3 DEF BalloonTypes, BalloonType
<1>15. ArrayInv'
  <2>1. PagesLeft' \subseteq backed'  BY <1>1, <1>10, <1>13
  <2>2. \A i, j \in Remaining' : PfnArray'[i] = PfnArray'[j] => i = j  BY <1>5, <1>7, <1>9
  <2>3. windows' \cap PagesLeft' = {}  BY <1>2, <1>10, <1>13
  <2>4. balloon'.done <= balloon'.n  BY <1>3, <1>4
  <2> QED  BY <1>4, <1>7, <2>1, <2>2, <2>3, <2>4 DEF ArrayInv
<1>16. ASSUME ~balloonFailed' PROVE PlacesInv'
  <2>1. balloonSet' = balloonSet \ kept /\ PlacesInv  BY <1>1, <1>16 DEF kept
  <2>2. InSet = FirstPages(d) /\ InSet' = {}  BY <1>0, <1>4 DEF InSet, d
  <2>3. balloonSet' = Pfn \ backed'  BY <1>1, <1>11, <1>12, <1>13, <2>1, <2>2 DEF PlacesInv
  <2>4. Cardinality(Pfn \ backed') = Cardinality(Pfn \ backed) + r
    <3>1. FirstPages(r) \subseteq backed  BY <1>10, <1>13
    <3>2. \A i, j \in 1 .. r : PfnArray[i] = PfnArray[j] => i = j  BY <1>3, <1>9
    <3>3. Cardinality(FirstPages(r)) = r  BY <1>3, <3>2, Listed DEF FirstPages
    <3> QED  BY <1>1, <1>13, <3>1, <3>3, Taken
  <2>5. Uncounted = balloon.count /\ Uncounted' = balloon.count + r  BY <1>0, <1>4 DEF Uncounted
  <2>6. Cardinality(Pfn \ backed') = Size' + Uncounted'
    <3>1. Cardinality(Pfn \ backed) = Size + Uncounted  BY <2>1 DEF PlacesInv
    <3> QED  BY <1>2, <1>3, <2>4, <2>5, <3>1, BalloonFields
  <2>7. windows' \cup PagesLeft' \cup leaked' = backed'  BY <1>1, <1>2, <1>10, <1>13, <2>1 DEF PlacesInv
  <2>8. windows' \cap PagesLeft' = {} /\ windows' \cap leaked' = {} /\ PagesLeft' \cap leaked' = {}
    BY <1>2, <1>10, <2>1 DEF PlacesInv
  <2> QED  BY <2>2, <2>3, <2>6, <2>7, <2>8 DEF PlacesInv
<1> QED  BY <1>14, <1>15, <1>16

\* BalloonFreePages empties the array: a page is with Windows then, or leaked.
LEMMA FreeStep ==
  ASSUME BalloonIInv, balloon.pc \in {"free", "give"}, ~ArrayInUse', balloon' \in BalloonType,
         NEW f, NEW m \in Nat, {f[i] : i \in 1 .. m} = PagesLeft,
         \A i, j \in 1 .. m : f[i] = f[j] => i = j,
         BalloonFreePages(f, m), PfnArray' \in [1 .. ArraySize -> Nat], Uncounted' = Uncounted,
         UNCHANGED <<backed, balloonSet, Size, balloonFailed>>
  PROVE  BalloonIInv'
<1> USE DEF BalloonIInv
<1>1. PICK k \in 0 .. m : /\ windows' = windows \cup {f[i] : i \in 1 .. k}
                          /\ leaked' = leaked \cup {f[i] : i \in k + 1 .. m}
  BY DEF BalloonFreePages
<1> DEFINE added == {f[i] : i \in 1 .. k}
<1> DEFINE lost == {f[i] : i \in k + 1 .. m}
<1>2. added \cap lost = {} /\ added \cup lost = PagesLeft  BY Cut
<1> HIDE DEF added, lost
<1>3. windows' = windows \cup added /\ leaked' = leaked \cup lost  BY <1>1 DEF added, lost
<1>4. PagesLeft \subseteq backed  BY DEF ArrayInv, ArrayInUse
<1>5. BalloonTypes'  BY <1>2, <1>3, <1>4 DEF BalloonTypes, BalloonType
<1>6. ArrayInv'  BY DEF ArrayInv, ArrayInUse
<1>7. PagesLeft' = {} /\ InSet' = {} /\ InSet = {}  BY DEF PagesLeft, InSet, ArrayInUse
<1>8. ASSUME ~balloonFailed' PROVE PlacesInv'
  <2>1. PlacesInv  BY <1>8
  <2> QED  BY <1>2, <1>3, <1>7, <2>1 DEF PlacesInv
<1> QED  BY <1>5, <1>6, <1>8

LEMMA InflateFreeStep == ASSUME BalloonIInv, InflateFree PROVE BalloonIInv'
<1> USE DEF BalloonIInv
<1> DEFINE r == balloon.done
<1> DEFINE n == balloon.n
<1> DEFINE left == n - r
<1> DEFINE moved == [i \in 1 .. ArraySize |-> IF i <= left THEN PfnArray[i + r] ELSE PfnArray[i]]
<1>0. balloon \in BalloonType /\ balloon.pc = "free"  BY BalloonFields DEF InflateFree
<1>1. /\ PfnArray' = Zeroed(moved, left) /\ BalloonFreePages(moved, left)
      /\ Loop("inflate", balloon.count + r, IF r = 0 THEN "retry" ELSE balloon.status)
      /\ UNCHANGED <<backed, balloonSet, Size, balloonFailed>>
  BY DEF InflateFree
<1>2. /\ r \in Nat /\ n \in Nat /\ r <= n /\ n <= ArraySize /\ left \in 0 .. n
      /\ ArraySize \in Nat /\ left \in Nat
  BY <1>0, BalloonFields DEF ArrayInv
<1>3. ArrayInUse /\ Remaining = r + 1 .. n /\ PagesLeft = {PfnArray[i] : i \in r + 1 .. n}
  BY <1>0 DEF ArrayInUse, Remaining, FirstLeft, PagesLeft
<1>4. /\ balloon' \in BalloonType /\ balloon'.pc = "inflate" /\ balloon'.count = balloon.count + r
  <2>1. balloon' = [balloon EXCEPT !.pc = "inflate", !.count = balloon.count + r,
                     !.status = IF r = 0 THEN "retry" ELSE balloon.status, !.n = 0, !.done = 0]
    BY <1>1 DEF Loop
  <2>2. balloon.count + r \in Int /\ 0 \in 0 .. ArraySize  BY <1>2, BalloonFields
  <2>3. "inflate" \in BalloonStates  BY DEF BalloonStates
  <2>4. (IF r = 0 THEN "retry" ELSE balloon.status) \in {"success", "fist", "low_memory", "retry"}
    BY <1>0 DEF BalloonType
  <2> QED  BY <1>0, <2>1, <2>2, <2>3, <2>4, LoopFields
<1>5. Uncounted' = Uncounted /\ ~ArrayInUse'  BY <1>0, <1>4 DEF Uncounted, ArrayInUse
<1>6. PfnArray' \in [1 .. ArraySize -> Nat]
  <2>1. \A i \in 1 .. ArraySize : i <= left => i + r \in 1 .. ArraySize  BY <1>2
  <2>2. moved \in [1 .. ArraySize -> Nat]  BY <2>1 DEF BalloonTypes
  <2> HIDE DEF moved
  <2>3. PfnArray' = [i \in 1 .. ArraySize |-> IF i <= left THEN 0 ELSE moved[i]]  BY <1>1 DEF Zeroed
  <2> QED  BY <2>2, <2>3
<1>7. \A i \in 1 .. left : moved[i] = PfnArray[i + r] /\ i + r \in r + 1 .. n
  BY <1>2
<1>8. \A j \in r + 1 .. n : j - r \in 1 .. left /\ moved[j - r] = PfnArray[j]
  <2>1. \A j \in r + 1 .. n : j - r \in 1 .. left /\ (j - r) + r = j  BY <1>2
  <2> QED  BY <1>7, <2>1
<1> HIDE DEF moved, left
<1>9. {moved[i] : i \in 1 .. left} = PagesLeft
  <2>1. \A i \in 1 .. left : moved[i] \in PagesLeft  BY <1>3, <1>7
  <2>2. \A x \in PagesLeft : \E i \in 1 .. left : x = moved[i]  BY <1>3, <1>8
  <2> QED  BY <2>1, <2>2
<1>10. \A i, j \in 1 .. left : moved[i] = moved[j] => i = j
  <2> SUFFICES ASSUME NEW i \in 1 .. left, NEW j \in 1 .. left, moved[i] = moved[j] PROVE i = j  OBVIOUS
  <2>1. i + r \in Remaining /\ j + r \in Remaining /\ PfnArray[i + r] = PfnArray[j + r]  BY <1>3, <1>7
  <2>2. i + r = j + r  BY <1>3, <2>1 DEF ArrayInv
  <2> QED  BY <1>2, <2>2
<1>11. BalloonFreePages(moved, left)  BY <1>1
<1> HIDE DEF r, n
<1> QED  BY <1>0, <1>1, <1>2, <1>4, <1>5, <1>6, <1>9, <1>10, <1>11, FreeStep

LEMMA DeflateFreeStep == ASSUME BalloonIInv, DeflateFree PROVE BalloonIInv'
<1> USE DEF BalloonIInv
<1> DEFINE n == balloon.n
<1>0. balloon \in BalloonType /\ balloon.pc = "give"  BY BalloonFields DEF DeflateFree
<1>1. /\ PfnArray' = Zeroed(PfnArray, n) /\ BalloonFreePages(PfnArray, n)
      /\ balloon' = [balloon EXCEPT !.pc = "deflate", !.count = balloon.count + n,
                       !.status = balloon.status, !.n = 0, !.done = 0]
      /\ UNCHANGED <<backed, balloonSet, Size, balloonFailed>>
  BY DEF DeflateFree, Loop
<1>2. n \in Nat  BY BalloonFields
<1>3. ArrayInUse /\ Remaining = 1 .. n /\ PagesLeft = {PfnArray[i] : i \in 1 .. n}
  BY <1>0 DEF ArrayInUse, Remaining, FirstLeft, PagesLeft
<1>4. balloon' \in BalloonType /\ balloon'.pc = "deflate" /\ balloon'.count = balloon.count + n
  <2>2. balloon.count + n \in Int /\ 0 \in 0 .. ArraySize  BY <1>2, BalloonFields
  <2>3. "deflate" \in BalloonStates  BY DEF BalloonStates
  <2>4. balloon.status \in {"success", "fist", "low_memory", "retry"}  BY <1>0 DEF BalloonType
  <2> QED  BY <1>0, <1>1, <2>2, <2>3, <2>4, LoopFields
<1>5. Uncounted' = Uncounted /\ ~ArrayInUse'  BY <1>0, <1>4 DEF Uncounted, ArrayInUse
<1>6. PfnArray' \in [1 .. ArraySize -> Nat]  BY <1>1 DEF Zeroed, BalloonTypes
<1>7. \A i, j \in 1 .. n : PfnArray[i] = PfnArray[j] => i = j  BY <1>3 DEF ArrayInv
<1> HIDE DEF n
<1> QED  BY <1>0, <1>1, <1>2, <1>3, <1>4, <1>5, <1>6, <1>7, FreeStep

LEMMA PopulateStep == ASSUME BalloonIInv, BalloonPopulatePfnArray PROVE BalloonIInv'
<1> USE DEF BalloonIInv
<1> DEFINE ask == ThisTime
<1> DEFINE low == [i \in 1 .. ask |-> IthLowest(balloonSet, i)]
<1>0. balloon \in BalloonType /\ balloon.pc = "deflate" /\ ask <= Cardinality(balloonSet)
  BY BalloonFields DEF BalloonPopulatePfnArray
<1>1. PICK k \in 0 .. ask :
        LET back == {low[i] : i \in k + 1 .. ask}
            out  == {low[i] : i \in 1 .. k}
        IN /\ backed' = backed \cup out
           /\ PfnArray' = [i \in 1 .. ArraySize |-> IF i <= k THEN low[i] ELSE IF i <= ask THEN 0 ELSE PfnArray[i]]
           /\ \/ balloonSet' = balloonSet \ out /\ UNCHANGED balloonFailed
              \/ \E x \in back : balloonSet' = balloonSet \ (out \cup {x}) /\ balloonFailed' = TRUE
           /\ balloon' = [balloon EXCEPT !.pc = "give", !.n = k, !.status = IF k < ask THEN "retry" ELSE @]
  BY DEF BalloonPopulatePfnArray
<1>2. UNCHANGED <<windows, Size, leaked>>  BY DEF BalloonPopulatePfnArray
<1> DEFINE out == {low[i] : i \in 1 .. k}
<1>3. ask \in Nat /\ ask <= ArraySize /\ k \in Nat /\ k <= ask /\ k \in 0 .. ArraySize
  <2>1. balloon.count < balloon.requested  BY DEF BalloonPopulatePfnArray
  <2>2. ask \in Nat /\ ask <= ArraySize  BY <2>1, BalloonFields DEF ThisTime, Least
  <2> HIDE DEF ask
  <2> QED  BY <2>2, BalloonFields
<1>4. /\ balloon' \in BalloonType /\ balloon'.pc = "give" /\ balloon'.n = k
      /\ balloon'.count = balloon.count
  <2>1. balloon' = [balloon EXCEPT !.pc = "give", !.n = k, !.status = IF k < ask THEN "retry" ELSE @]
    BY <1>1
  <2> HIDE DEF ask
  <2> QED  BY <1>0, <1>3, <2>1 DEF BalloonType, BalloonStates
<1>5. PfnArray' = [i \in 1 .. ArraySize |-> IF i <= k THEN low[i] ELSE IF i <= ask THEN 0 ELSE PfnArray[i]]
  BY <1>1
<1> HIDE DEF ask
<1>6. Cardinality(balloonSet) \in Nat /\ balloonSet \subseteq Pfn  BY LowPages DEF BalloonTypes
<1>7. \A i \in 1 .. k : i \in 1 .. ask /\ i \in 1 .. Cardinality(balloonSet)  BY <1>0, <1>3, <1>6
<1>8. \A i \in 1 .. k : low[i] = IthLowest(balloonSet, i)  BY <1>7
<1> HIDE DEF low
<1>9. /\ \A i \in 1 .. k : low[i] \in balloonSet
      /\ \A i, j \in 1 .. k : low[i] = low[j] => i = j
  BY <1>6, <1>7, <1>8, LowPages
<1>10. \A i \in 1 .. k : i \in 1 .. ArraySize /\ i <= k /\ PfnArray'[i] = low[i]
  <2>0. ArraySize \in Nat  BY BalloonFields
  <2>1. \A i \in 1 .. k : i \in 1 .. ArraySize /\ i <= k  BY <1>3, <2>0
  <2>2. \A i \in 1 .. ArraySize :
          PfnArray'[i] = IF i <= k THEN low[i] ELSE IF i <= ask THEN 0 ELSE PfnArray[i]  BY <1>5
  <2> QED  BY <2>1, <2>2
<1>11. out \subseteq balloonSet  BY <1>9
<1>16. Cardinality(out) = k
  <2>1. \A i, j \in 1 .. k : low[i] = low[j] => i = j  BY <1>9
  <2>2. k \in Nat  BY <1>3
  <2>3. \A f : (\A i, j \in 1 .. k : f[i] = f[j] => i = j) => Cardinality({f[i] : i \in 1 .. k}) = k
    <3> SUFFICES ASSUME NEW f, \A i, j \in 1 .. k : f[i] = f[j] => i = j
                 PROVE  Cardinality({f[i] : i \in 1 .. k}) = k  OBVIOUS
    <3> QED  BY <2>2, Listed
  <2> QED  BY <2>1, <2>3
<1>12. ArrayInUse' /\ Remaining' = 1 .. k /\ PagesLeft' = out
  <2>1. ArrayInUse' /\ Remaining' = 1 .. k  BY <1>4 DEF ArrayInUse, Remaining, FirstLeft
  <2>2. PagesLeft' = {PfnArray'[i] : i \in 1 .. k}  BY <2>1 DEF PagesLeft
  <2>3. {PfnArray'[i] : i \in 1 .. k} = out  BY <1>10
  <2> QED  BY <2>1, <2>2, <2>3
<1>13. BalloonTypes'
  <2>1. \A i \in 1 .. ArraySize : i <= k => i \in 1 .. k  BY <1>3
  <2>2. \A i \in 1 .. k : low[i] \in Nat  BY <1>6, <1>9, BalloonAssumption
  <2>3. PfnArray' \in [1 .. ArraySize -> Nat]  BY <1>5, <2>1, <2>2 DEF BalloonTypes
  <2>4. balloonSet' \subseteq balloonSet /\ backed' = backed \cup out  BY <1>1
  <2>5. windows' \subseteq backed' /\ backed' \subseteq Pfn /\ balloonSet' \subseteq Pfn
    BY <1>2, <1>6, <1>11, <2>4 DEF BalloonTypes
  <2> QED  BY <1>2, <1>4, <2>3, <2>5 DEF BalloonTypes, BalloonType
<1>14. ArrayInv'
  <2>1. PagesLeft' \subseteq backed'  BY <1>1, <1>12
  <2>2. \A i, j \in Remaining' : PfnArray'[i] = PfnArray'[j] => i = j  BY <1>9, <1>10, <1>12
  <2> QED  BY <1>4, <2>1, <2>2 DEF ArrayInv
<1>15. ASSUME ~balloonFailed' PROVE PlacesInv'
  <2>1. /\ PlacesInv /\ balloonSet' = balloonSet \ out /\ backed' = backed \cup out
    BY <1>1, <1>15
  <2>2. PagesLeft = {} /\ InSet = {} /\ InSet' = {}
    BY <1>0, <1>4 DEF PagesLeft, ArrayInUse, InSet
  <2>3. balloonSet = Pfn \ backed /\ windows \cup leaked = backed  BY <2>1, <2>2 DEF PlacesInv
  <2>4. balloonSet' = Pfn \ backed'  BY <2>1, <2>3
  <2>5. Cardinality(Pfn \ backed) = Cardinality(Pfn \ backed') + k
    <3>1. Cardinality(out) = k  BY <1>16
    <3>2. backed' \subseteq Pfn /\ out \subseteq backed' /\ backed' \ out = backed
      BY <1>6, <1>11, <2>1, <2>3 DEF BalloonTypes
    <3> QED  BY <3>1, <3>2, Taken
  <2>6. Uncounted = 0 - balloon.count /\ Uncounted' = 0 - (balloon.count + k)
    BY <1>0, <1>4 DEF Uncounted
  <2>7. Cardinality(Pfn \ backed') = Size' + Uncounted'
    <3>1. Cardinality(Pfn \ backed) = Size + Uncounted  BY <2>1 DEF PlacesInv
    <3>2. Cardinality(Pfn \ backed') \in Nat
      <4>1. backed' \in SUBSET Pfn /\ {} \in SUBSET backed'  BY <1>13 DEF BalloonTypes
      <4> QED  BY <4>1, Taken
    <3> QED  BY <1>2, <1>3, <2>5, <2>6, <3>1, <3>2, BalloonFields
  <2>8. windows' \cup PagesLeft' \cup leaked' = backed'  BY <1>2, <1>12, <2>1, <2>3
  <2>9. windows' \cap PagesLeft' = {} /\ windows' \cap leaked' = {} /\ PagesLeft' \cap leaked' = {}
    BY <1>2, <1>11, <1>12, <2>1, <2>3 DEF PlacesInv
  <2> QED  BY <2>2, <2>4, <2>7, <2>8, <2>9 DEF PlacesInv
<1> QED  BY <1>13, <1>14, <1>15

LEMMA BalloonStart == ASSUME BalloonInit PROVE BalloonIInv
<1>1. /\ windows = Pfn /\ backed = Pfn /\ balloonSet = {} /\ Size = 0 /\ balloon = Still /\ leaked = {}
      /\ PfnArray = [i \in 1 .. ArraySize |-> 0]
  BY DEF BalloonInit
<1>2. ArraySize \in Nat  BY BalloonAssumption
<1>3. balloon \in BalloonType /\ balloon.pc = "idle"
  BY <1>1, <1>2 DEF Still, BalloonType, BalloonStates
<1>4. BalloonTypes
  <2>1. PfnArray \in [1 .. ArraySize -> Nat]  BY <1>1
  <2> QED  BY <1>1, <1>3, <2>1 DEF BalloonTypes, BalloonType
<1>5. ArrayInv  BY <1>3 DEF ArrayInv, ArrayInUse
<1>6. PlacesInv
  <2>1. PagesLeft = {} /\ InSet = {} /\ Uncounted = 0
    BY <1>3 DEF PagesLeft, ArrayInUse, InSet, Uncounted
  <2>2. Cardinality(Pfn \ backed) = 0
    <3>1. Pfn \ backed = {}  BY <1>1
    <3> QED  BY <3>1, FS_EmptySet
  <2> QED  BY <1>1, <2>1, <2>2 DEF PlacesInv
<1> QED  BY <1>4, <1>5, <1>6 DEF BalloonIInv

\* Whatever part of a chunk the hypervisor, the memory manager or the range set takes:
\* Windows has only pages with memory, the array is released in ascending order, and
\* while the calls succeed that BalloonReleasePfnArray and BalloonPopulatePfnArray assert
\* to, no page is in two places and Size counts the pages that were given up.
THEOREM PagesAreCounted == BalloonSpec => []BalloonExact
<1>1. BalloonIInv /\ [BalloonNext]_balloonVars => BalloonIInv'
  <2> SUFFICES ASSUME BalloonIInv, [BalloonNext]_balloonVars PROVE BalloonIInv'  OBVIOUS
  <2>1. CASE UNCHANGED balloonVars
    BY <2>1 DEF balloonVars, BalloonIInv, BalloonTypes, ArrayInv, PlacesInv, ArrayInUse, PagesLeft,
       Remaining, FirstLeft, InSet, FirstPages, Uncounted
  <2>2. CASE BalloonNext
    BY <2>2, AdjustStep, RoundStep, InflatedStep, AllocateArrayStep, ReleasePutStep,
       ReleaseDecreaseStep, InflateFreeStep, PopulateStep, DeflateFreeStep DEF BalloonNext
  <2> QED  BY <2>1, <2>2
<1> QED  BY <1>1, BalloonStart, BalloonImplies, PTL DEF BalloonSpec
=============================================================================
