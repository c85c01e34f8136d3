---------------------------- MODULE EvtchnProofs ----------------------------
(* Proofs about Evtchn for every set of channels, processors and threads.  *)
EXTENDS Evtchn, TLAPS

\* A part of the state that an action leaves alone keeps its type.
LEMMA Frame ==
  /\ TypeObjects /\ UNCHANGED objects => TypeObjects'
  /\ TypeHyper /\ UNCHANGED hyper => TypeHyper'
  /\ TypePolls /\ UNCHANGED polls => TypePolls'
  /\ TypeDpcs /\ UNCHANGED dpcs => TypeDpcs'
  /\ TypeThreads /\ UNCHANGED threads => TypeThreads'
BY DEF TypeObjects, objects, TypeHyper, hyper, TypePolls, polls, TypeDpcs,
       dpcs, TypeThreads, threads

\* Every actor's program points and every field keep their types.
LEMMA TypeStep == ASSUME TypeOK, [Next]_vars PROVE TypeOK'
<1> USE EvtchnAssumption DEF TypeOK
<1>1. ASSUME NEW c \in Channel, HvSend(c) PROVE TypeOK'
  <2>1. TypeHyper'  BY <1>1 DEF HvSend, HvNotify, TypeHyper, hyper
  <2> QED  BY <1>1, <2>1, Frame DEF HvSend, globals
<1>2. ASSUME NEW t \in Thread, ThreadStep(t) PROVE TypeOK'
  <2>1. CASE EvtchnBindStore(t)
    <3>1. TypeThreads'  BY <2>1 DEF EvtchnBindStore, Finish, Begin, Goto, TypeThreads
    <3>2. TypeObjects'  BY <2>1 DEF EvtchnBindStore, TypeThreads, TypeObjects
    <3> QED  BY <2>1, <3>1, <3>2, Frame DEF EvtchnBindStore, globals
  <2>2. CASE EvtchnUnmaskTest(t)
    <3>1. TypeThreads'  BY <2>2 DEF EvtchnUnmaskTest, Finish, Begin, Goto, TypeThreads
    <3>2. TypeHyper'  BY <2>2 DEF EvtchnUnmaskTest, EventChannelUnmask, HvNotify, TypeThreads,
       TypeHyper
    <3> QED  BY <2>2, <3>1, <3>2, Frame DEF EvtchnUnmaskTest, globals
  <2>3. CASE EvtchnCloseRemove(t)
    <3>1. TypeThreads'  BY <2>3 DEF EvtchnCloseRemove, Goto, TypeThreads
    <3>2. TypeObjects'  BY <2>3 DEF EvtchnCloseRemove, TypeObjects
    <3> QED  BY <2>3, <3>1, <3>2, Frame DEF EvtchnCloseRemove, globals
  <2>4. CASE EvtchnCloseMark(t)
    <3>1. TypeThreads'  BY <2>4 DEF EvtchnCloseMark, Goto, TypeThreads
    <3>2. TypeObjects'  BY <2>4 DEF EvtchnCloseMark, TypeThreads, TypeObjects
    <3> QED  BY <2>4, <3>1, <3>2, Frame DEF EvtchnCloseMark, globals
  <2>5. CASE pc[t] = "trigger" /\ EvtchnTrigger(t, handle[t])
    <3>1. TypeThreads'  BY <2>5 DEF EvtchnTrigger, Begin, Goto, TypeObjects, TypeThreads
    <3> QED  BY <2>5, <3>1, Frame DEF EvtchnTrigger, globals
  <2>6. CASE EvtchnTriggerQueue(t)
    <3>1. TypeThreads'  BY <2>6 DEF EvtchnTriggerQueue, Finish, Begin, Goto, TypeThreads
    <3>2. TypeObjects'  BY <2>6 DEF EvtchnTriggerQueue, TypeThreads, TypeObjects
    <3> QED  BY <2>6, <3>1, <3>2, Frame DEF EvtchnTriggerQueue, globals
  <2> QED  BY <1>2, <2>1, <2>2, <2>3, <2>4, <2>5, <2>6 DEF ThreadStep
<1>3. ASSUME NEW t \in Thread, NEW c \in Channel, Client(t, c) PROVE TypeOK'
  <2>1. CASE \E v \in Cpu : EvtchnOpen(t, c, v)
    <3>1. TypeObjects'  BY <2>1 DEF EvtchnOpen, TypeObjects
    <3>2. TypeHyper'  BY <2>1 DEF EvtchnOpen, TypeHyper
    <3> QED  BY <2>1, <3>1, <3>2, Frame DEF EvtchnOpen, globals
  <2>2. CASE \E p \in Cpu : EvtchnBind(t, c, p)
    <3>1. TypeThreads'  BY <2>2 DEF EvtchnBind, Usable, Begin, Goto, TypeThreads
    <3>2. TypeHyper'  BY <2>2 DEF EvtchnBind, TypeHyper
    <3> QED  BY <2>2, <3>1, <3>2, Frame DEF EvtchnBind, globals
  <2>3. CASE EvtchnUnmask(t, c)
    <3>1. TypeThreads'  BY <2>3 DEF EvtchnUnmask, Usable, Begin, Goto, TypeThreads
    <3>2. TypeHyper'  BY <2>3 DEF EvtchnUnmask, TypeHyper
    <3> QED  BY <2>3, <3>1, <3>2, Frame DEF EvtchnUnmask, globals
  <2>4. CASE pc[t] = "idle" /\ EvtchnTrigger(t, c)
    <3>1. TypeThreads'  BY <2>4 DEF EvtchnTrigger, Usable, Begin, Goto, TypeObjects, TypeThreads
    <3> QED  BY <2>4, <3>1, Frame DEF EvtchnTrigger, globals
  <2>5. CASE EvtchnClose(t, c)
    <3>1. TypeThreads'  BY <2>5 DEF EvtchnClose, Usable, Begin, Goto, TypeThreads
    <3>2. TypeObjects'  BY <2>5 DEF EvtchnClose, TypeObjects
    <3>3. TypeHyper'  BY <2>5 DEF EvtchnClose, TypeHyper
    <3> QED  BY <2>5, <3>1, <3>2, <3>3, Frame DEF EvtchnClose, globals
  <2>6. CASE EvtchnCloseInactive(t, c)
    <3>1. TypeObjects'  BY <2>6 DEF EvtchnCloseInactive, EvtchnReap, TypeObjects
    <3>2. TypeHyper'  BY <2>6 DEF EvtchnCloseInactive, EvtchnReap, TypeHyper
    <3> QED  BY <2>6, <3>1, <3>2, Frame DEF EvtchnCloseInactive, globals
  <2> QED  BY <1>3, <2>1, <2>2, <2>3, <2>4, <2>5, <2>6 DEF Client
<1>4. ASSUME NEW p \in Cpu, EvtchnInterruptCallback(p) PROVE TypeOK'
  <2>1. TypePolls'
    BY <1>4 DEF EvtchnInterruptCallback, BeginPoll, Visited, TypePolls, TypeHyper
  <2>2. TypeHyper'  BY <1>4 DEF EvtchnInterruptCallback, BeginPoll, TypeHyper
  <2> QED  BY <1>4, <2>1, <2>2, Frame DEF EvtchnInterruptCallback, globals
<1>5. ASSUME NEW p \in Cpu, PollStep(p) PROVE TypeOK'
  <2>1. CASE PollLookup(p)
    <3>1. TypePolls'  BY <2>1 DEF PollLookup, TypePolls
    <3> QED  BY <2>1, <3>1, Frame DEF PollLookup, globals
  <2>2. CASE EvtchnPollCallback(p)
    <3>1. TypePolls'  BY <2>2 DEF EvtchnPollCallback, TypePolls
    <3>2. TypeObjects'  BY <2>2 DEF EvtchnPollCallback, TypePolls, TypeObjects
    <3> QED  BY <2>2, <3>1, <3>2, Frame DEF EvtchnPollCallback, globals
  <2>3. CASE PollScanned(p)
    <3>1. TypePolls'  BY <2>3 DEF PollScanned, TypeObjects, TypePolls
    <3> QED  BY <2>3, <3>1, Frame DEF PollScanned, globals
  <2>4. CASE EvtchnPoll(p)
    <3>1. TypePolls'  BY <2>4 DEF EvtchnPoll, TypePolls
    <3>2. TypeObjects'  BY <2>4 DEF EvtchnPoll, TypePolls, TypeObjects
    <3>3. TypeDpcs'  BY <2>4 DEF EvtchnPoll, TypePolls, TypeDpcs
    <3> QED  BY <2>4, <3>1, <3>2, <3>3, Frame DEF EvtchnPoll, globals
  <2>5. CASE PollAck(p)
    <3>1. TypePolls'  BY <2>5 DEF PollAck, TypePolls
    <3>2. TypeHyper'  BY <2>5 DEF PollAck, TypeHyper
    <3> QED  BY <2>5, <3>1, <3>2, Frame DEF PollAck, globals
  <2>6. CASE PollCallback(p)
    <3>1. TypePolls'  BY <2>6 DEF PollCallback, TypePolls
    <3>2. TypeHyper'  BY <2>6 DEF PollCallback, EventChannelUnmask, HvNotify, TypePolls,
       TypeHyper
    <3> QED  BY <2>6, <3>1, <3>2, Frame DEF PollCallback, globals
  <2>7. CASE PollDone(p)
    <3>1. TypePolls'  BY <2>7 DEF PollDone, BeginPoll, Visited, TypeHyper, TypePolls
    <3>2. TypeHyper'  BY <2>7 DEF PollDone, BeginPoll, TypeHyper
    <3>3. TypeDpcs'  BY <2>7 DEF PollDone, TypeDpcs
    <3> QED  BY <2>7, <3>1, <3>2, <3>3, Frame DEF PollDone, globals
  <2> QED  BY <1>5, <2>1, <2>2, <2>3, <2>4, <2>5, <2>6, <2>7 DEF PollStep
<1>6. ASSUME NEW p \in Cpu, DpcStep(p) PROVE TypeOK'
  <2>1. CASE DpcStart(p)
    <3>1. TypeObjects'  BY <2>1 DEF DpcStart, TypeObjects
    <3>2. TypeDpcs'  BY <2>1 DEF DpcStart, TypeDpcs
    <3> QED  BY <2>1, <3>1, <3>2, Frame DEF DpcStart, globals
  <2>2. CASE EvtchnDpc(p)
    <3>1. TypeDpcs'  BY <2>2 DEF EvtchnDpc, TypeDpcs
    <3> QED  BY <2>2, <3>1, Frame DEF EvtchnDpc, globals
  <2>3. CASE EvtchnFlush(p)
    <3>1. TypeDpcs'  BY <2>3 DEF EvtchnFlush, TypeDpcs
    <3>2. TypePolls'  BY <2>3 DEF EvtchnFlush, BeginPoll, Visited, TypeHyper, TypePolls
    <3>3. TypeHyper'  BY <2>3 DEF EvtchnFlush, BeginPoll, TypeHyper
    <3> QED  BY <2>3, <3>1, <3>2, <3>3, Frame DEF EvtchnFlush, globals
  <2>4. CASE EvtchnFlushReap(p)
    <3>1. TypeDpcs'  BY <2>4 DEF EvtchnFlushReap, TypeDpcs
    <3>2. TypeObjects'  BY <2>4 DEF EvtchnFlushReap, EvtchnReap, TypeDpcs, TypeObjects
    <3>3. TypeHyper'  BY <2>4 DEF EvtchnFlushReap, EvtchnReap, TypeHyper
    <3> QED  BY <2>4, <3>1, <3>2, <3>3, Frame DEF EvtchnFlushReap, globals
  <2>5. CASE DpcDone(p)
    <3>1. TypeDpcs'  BY <2>5 DEF DpcDone, TypeDpcs
    <3> QED  BY <2>5, <3>1, Frame DEF DpcDone, globals
  <2> QED  BY <1>6, <2>1, <2>2, <2>3, <2>4, <2>5 DEF DpcStep
<1>7. CASE EvtchnSuspend
  <2>1. TypeObjects'
    BY <1>7 DEF EvtchnSuspend, EvtchnSuspendCallbackEarly, TypeObjects
  <2>2. TypeHyper'
    BY <1>7 DEF EvtchnSuspend, EvtchnSuspendCallbackLate, EvtchnAbiRelease, TypeHyper
  <2> QED  BY <1>7, <2>1, <2>2, Frame DEF EvtchnSuspend
<1>8. CASE EvtchnAcquire
  BY <1>8, Frame DEF EvtchnAcquire
<1>9. CASE EvtchnRelease
  <2>1. TypeObjects'  BY <1>9 DEF EvtchnRelease, TypeObjects
  <2>2. TypeHyper'  BY <1>9 DEF EvtchnRelease, EvtchnAbiRelease, TypeHyper
  <2> QED  BY <1>9, <2>1, <2>2, Frame DEF EvtchnRelease
<1>10. CASE UNCHANGED vars
  BY <1>10, Frame DEF vars, globals
<1> QED
  BY <1>1, <1>2, <1>3, <1>4, <1>5, <1>6, <1>7, <1>8, <1>9, <1>10 DEF Next, Step

\* The type invariant of every instance.
THEOREM TypeCorrect == Spec => []TypeOK
<1>1. Init => TypeOK
  <2> SUFFICES ASSUME Init PROVE TypeOK
    OBVIOUS
  <2> USE EvtchnAssumption DEF Init
  <2>1. TypeObjects /\ TypeHyper  BY DEF TypeObjects, TypeHyper
  <2>2. TypePolls /\ TypeDpcs  BY DEF TypePolls, TypeDpcs
  <2>3. TypeThreads  BY DEF TypeThreads
  <2> QED  BY <2>1, <2>2, <2>3 DEF TypeOK
<1>2. TypeOK /\ [Next]_vars => TypeOK'
  BY TypeStep
<1> QED  BY <1>1, <1>2, PTL DEF Spec

-----------------------------------------------------------------------------
(* The lists.  PendingInv needs SnapshotInv: a poll removes the entries of  *)
(* the snapshot it took, so these must still be on its own list, and the    *)
(* release of the interface empties the lists but not what a flush has set  *)
(* aside.                                                                   *)

ListInv == PendingInv /\ SnapshotInv

\* Steps that do not touch a list, or a poll's snapshot, keep the invariant.
LEMMA ListFrame ==
  ASSUME ListInv, UNCHANGED <<pending, queue, reap, work>>,
         \A p \in Cpu : poll'[p] \in {"loop", "ack", "callback"}
                          => poll[p] \in {"loop", "ack", "callback"},
         \A p \in Cpu : dpcpc[p] \in {"poll", "reap"} => dpcpc'[p] \in {"poll", "reap"}
  PROVE  ListInv'
BY DEF ListInv, PendingInv, SnapshotInv

\* A channel that no list holds is queued on one CPU.
LEMMA QueueOne ==
  ASSUME TypeOK, ListInv, NEW c \in Channel, NEW p \in Cpu, c \notin pending,
         pending' = pending \cup {c}, queue' = [queue EXCEPT ![p] = @ \cup {c}],
         UNCHANGED reap
  PROVE  PendingInv'
BY DEF ListInv, PendingInv, TypeOK, TypeObjects

\* A channel is unlinked from the one list that holds it ...
LEMMA DequeueOne ==
  ASSUME TypeOK, ListInv, NEW p \in Cpu, NEW c \in queue[p],
         pending' = pending \ {c}, queue' = [queue EXCEPT ![p] = @ \ {c}],
         UNCHANGED reap
  PROVE  PendingInv'
<1> USE DEF TypeOK, TypeObjects
<1>1. \A q \in Cpu : c \notin queue'[q] /\ c \notin reap'[q]
  BY DEF ListInv, PendingInv
<1>2. \A q \in Cpu, d \in Channel \ {c} : (d \in queue'[q] <=> d \in queue[q])
  OBVIOUS
<1> QED  BY <1>1, <1>2 DEF ListInv, PendingInv

\* ... or set aside by the flush of its CPU.
LEMMA MoveOne ==
  ASSUME TypeOK, ListInv, NEW p \in Cpu, NEW c \in queue[p],
         queue' = [queue EXCEPT ![p] = @ \ {c}],
         reap' = [reap EXCEPT ![p] = @ \cup {c}], UNCHANGED pending
  PROVE  PendingInv'
<1> USE DEF TypeOK, TypeObjects, TypeDpcs
<1>1. /\ \A q \in Cpu : c \notin queue'[q] /\ (c \in reap'[q] <=> q = p)
      /\ c \in pending'
  BY DEF ListInv, PendingInv
<1>2. \A q \in Cpu, d \in Channel \ {c} : /\ d \in queue'[q] <=> d \in queue[q]
                                          /\ d \in reap'[q] <=> d \in reap[q]
  OBVIOUS
<1> QED  BY <1>1, <1>2 DEF ListInv, PendingInv

\* Every step of evtchn.c keeps the lists and Channel->Pending in agreement.
LEMMA ListStep == ASSUME QuietRelease, TypeOK, ListInv, [Next]_vars PROVE ListInv'
<1> USE DEF TypeOK, TypeObjects, TypePolls, TypeDpcs, TypeThreads
<1>1. ASSUME NEW c \in Channel, HvSend(c) PROVE ListInv'
  BY <1>1, ListFrame DEF HvSend, objects, polls, dpcs
<1>2. ASSUME NEW t \in Thread, ThreadStep(t) PROVE ListInv'
  <2>1. CASE EvtchnTriggerQueue(t) /\ handle[t] \notin pending
    <3>1. PendingInv'
      BY <2>1, QueueOne DEF EvtchnTriggerQueue, dpcs
    <3>2. SnapshotInv'
      BY <2>1 DEF EvtchnTriggerQueue, ListInv, SnapshotInv, polls, dpcs
    <3> QED  BY <3>1, <3>2 DEF ListInv
  <2>2. CASE EvtchnTriggerQueue(t) /\ handle[t] \in pending
    BY <2>2, ListFrame DEF EvtchnTriggerQueue, polls, dpcs
  <2>3. CASE ~EvtchnTriggerQueue(t)
    BY <1>2, <2>3, ListFrame DEF ThreadStep, EvtchnBindStore, EvtchnUnmaskTest,
       EvtchnCloseRemove, EvtchnCloseMark, EvtchnTrigger, objects, polls, dpcs
  <2> QED  BY <2>1, <2>2, <2>3
<1>3. ASSUME Sound, NEW t \in Thread, NEW c \in Channel, Client(t, c) PROVE ListInv'
  <2>1. ASSUME NEW v \in Cpu, EvtchnOpen(t, c, v) PROVE ListInv'
    <3>1. c \notin pending
      BY <1>3, <2>1 DEF EvtchnOpen, Sound, ListFreed, ListInv, PendingInv
    <3> QED  BY <2>1, <3>1, ListFrame DEF EvtchnOpen, polls, dpcs
  <2>2. CASE ~\E v \in Cpu : EvtchnOpen(t, c, v)
    BY <1>3, <2>2, ListFrame DEF Client, EvtchnBind, EvtchnUnmask, EvtchnTrigger,
       EvtchnClose, EvtchnCloseInactive, objects, polls, dpcs
  <2> QED  BY <2>1, <2>2
<1>4. ASSUME NEW p \in Cpu, EvtchnInterruptCallback(p) PROVE ListInv'
  BY <1>4, ListFrame DEF EvtchnInterruptCallback, BeginPoll, objects, dpcs
<1>5. ASSUME NEW p \in Cpu, PollStep(p) PROVE ListInv'
  <2>1. CASE PollLookup(p)
    BY <2>1, ListFrame DEF PollLookup, objects, dpcs
  <2>2. CASE EvtchnPollCallback(p)
    <3>1. CASE cpu[cur[p]] = p /\ cur[p] \notin pending
      <4>1. PendingInv'
        BY <2>2, <3>1, QueueOne DEF EvtchnPollCallback, dpcs
      <4>2. SnapshotInv'
        BY <2>2, <3>1 DEF EvtchnPollCallback, ListInv, SnapshotInv, dpcs
      <4> QED  BY <4>1, <4>2 DEF ListInv
    <3>2. CASE ~(cpu[cur[p]] = p /\ cur[p] \notin pending)
      BY <2>2, <3>2, ListFrame DEF EvtchnPollCallback, dpcs
    <3> QED  BY <3>1, <3>2
  <2>3. CASE PollScanned(p)
    BY <2>3 DEF PollScanned, ListInv, PendingInv, SnapshotInv, objects, dpcs
  <2>4. CASE EvtchnPoll(p)
    <3>1. PICK c \in work[p] : EvtchnPoll(p)!2!(c)
      BY <2>4 DEF EvtchnPoll
    <3>2. c \in Channel /\ c \in queue[p]
      BY <2>4, <3>1 DEF EvtchnPoll, ListInv, SnapshotInv
    <3>3. PendingInv'
      <4>1. CASE c \notin closed
        <5>1. /\ pending' = pending \ {c}
              /\ queue' = [queue EXCEPT ![p] = @ \ {c}]
              /\ UNCHANGED reap
          BY <3>1, <4>1
        <5> QED  BY <5>1, <3>2, DequeueOne
      <4>2. CASE c \in closed /\ InFlush(p)
        <5>1. /\ queue' = [queue EXCEPT ![p] = @ \ {c}]
              /\ reap' = [reap EXCEPT ![p] = @ \cup {c}]
              /\ UNCHANGED pending
          BY <3>1, <4>2
        <5> QED  BY <5>1, <3>2, MoveOne
      <4>3. CASE c \in closed /\ ~InFlush(p)
        BY <3>1, <3>2, <4>3 DEF ListInv, PendingInv
      <4> QED  BY <4>1, <4>2, <4>3
    <3>4. SnapshotInv'
      BY <2>4, <3>1, <3>2 DEF EvtchnPoll, ListInv, SnapshotInv, InFlush
    <3> QED  BY <3>3, <3>4 DEF ListInv
  <2>5. CASE PollAck(p)
    BY <2>5, ListFrame DEF PollAck, objects, dpcs
  <2>6. CASE PollCallback(p)
    BY <2>6, ListFrame DEF PollCallback, objects, dpcs
  <2>7. CASE PollDone(p)
    BY <2>7, ListFrame DEF PollDone, BeginPoll, InFlush, objects
  <2> QED  BY <1>5, <2>1, <2>2, <2>3, <2>4, <2>5, <2>6, <2>7 DEF PollStep
<1>6. ASSUME NEW p \in Cpu, DpcStep(p) PROVE ListInv'
  <2>1. CASE DpcStart(p)
    BY <2>1, ListFrame DEF DpcStart, polls
  <2>2. CASE EvtchnDpc(p)
    BY <2>2, ListFrame DEF EvtchnDpc, objects, polls
  <2>3. CASE EvtchnFlush(p)
    BY <2>3, ListFrame DEF EvtchnFlush, BeginPoll, objects
  <2>4. CASE EvtchnFlushReap(p)
    <3>1. PendingInv'
      BY <2>4 DEF EvtchnFlushReap, ListInv, PendingInv
    <3>2. SnapshotInv'
      BY <2>4 DEF EvtchnFlushReap, ListInv, SnapshotInv, polls
    <3> QED  BY <3>1, <3>2 DEF ListInv
  <2>5. CASE DpcDone(p)
    BY <2>5 DEF DpcDone, ListInv, PendingInv, SnapshotInv, objects, polls
  <2> QED  BY <1>6, <2>1, <2>2, <2>3, <2>4, <2>5 DEF DpcStep
<1>7. CASE EvtchnSuspend
  BY <1>7, ListFrame DEF EvtchnSuspend, polls, dpcs
<1>8. CASE EvtchnAcquire
  BY <1>8, ListFrame DEF EvtchnAcquire, objects, polls, dpcs
<1>9. CASE EvtchnRelease
  <2>1. \A p \in Cpu : reap[p] = {}
    BY <1>9 DEF EvtchnRelease, ContextLockFree, ListInv, SnapshotInv
  <2>2. pending' = {}
    BY <1>9, <2>1 DEF EvtchnRelease, ListInv, PendingInv
  <2> QED
    BY <1>9, <2>1, <2>2 DEF EvtchnRelease, InterruptLockFree, ListInv, PendingInv,
       SnapshotInv, polls, dpcs
<1>10. CASE UNCHANGED vars
  BY <1>10, ListFrame DEF vars, objects, polls, dpcs
<1> QED
  BY <1>1, <1>2, <1>3, <1>4, <1>5, <1>6, <1>7, <1>8, <1>9, <1>10 DEF Next, Step

\* A channel is on one list at most, exactly while Channel->Pending is set,
\* and a poll's saved list entries stay valid: EvtchnPollCallback,
\* EvtchnTrigger, EvtchnPoll and EvtchnFlush never corrupt a list, whatever
\* the channels, processors and threads and whichever ABI is in use.  The last
\* release must not meet a running upcall: EvtchnFlush takes another lock then.
THEOREM ListsSafe ==
  ASSUME QuietRelease PROVE Spec => [](PendingInv /\ SnapshotInv)
<1>1. Init => ListInv
  BY DEF Init, ListInv, PendingInv, SnapshotInv
<1>2. TypeOK /\ ListInv /\ [Next]_vars => ListInv'
  BY ListStep
<1>3. ListInv => PendingInv /\ SnapshotInv
  BY DEF ListInv
<1> QED  BY <1>1, <1>2, <1>3, TypeCorrect, PTL DEF Spec

-----------------------------------------------------------------------------
(* Closing.  ClosedQueued is inductive given the lists; with it the release *)
(* of the last reference finds every closed channel on a list.              *)

CloseInv == ClosedQueued /\ NoneOutstanding

\* CloseInv depends on these parts of the state only.
LEMMA CloseFrame ==
  ASSUME CloseInv, alloc' = alloc, closed' \subseteq closed, pending \subseteq pending',
         UNCHANGED <<pc, handle, refs>>
  PROVE  CloseInv'
BY DEF CloseInv, ClosedQueued, NoneOutstanding

\* A thread that was not handing a channel over starts or ends a call.
LEMMA CloseThreadFrame ==
  ASSUME CloseInv, TypeOK, NEW t \in Thread, pc[t] \notin {"trigger", "queue"},
         NEW h, NEW l, pc' = [pc EXCEPT ![t] = l], handle' = [handle EXCEPT ![t] = h],
         UNCHANGED <<alloc, closed, pending, refs>>
  PROVE  CloseInv'
BY DEF CloseInv, ClosedQueued, NoneOutstanding, TypeOK, TypeThreads

\* Every step keeps the closed channels where a flush finds them.
LEMMA CloseStep == ASSUME TypeOK, ListInv, CloseInv, [Next]_vars PROVE CloseInv'
<1> USE DEF TypeOK, TypeObjects, TypePolls, TypeDpcs, TypeThreads
<1>1. ASSUME NEW c \in Channel, HvSend(c) PROVE CloseInv'
  BY <1>1, CloseFrame DEF HvSend, objects, threads, globals
<1>2. ASSUME NEW t \in Thread, ThreadStep(t) PROVE CloseInv'
  <2>1. CASE EvtchnBindStore(t)
    BY <2>1, CloseThreadFrame DEF EvtchnBindStore, Finish, Begin, Goto, globals
  <2>2. CASE EvtchnUnmaskTest(t)
    BY <2>2, CloseThreadFrame DEF EvtchnUnmaskTest, Finish, Begin, Goto, globals, objects
  <2>3. CASE EvtchnCloseRemove(t)
    BY <2>3 DEF EvtchnCloseRemove, Goto, globals, CloseInv, ClosedQueued, NoneOutstanding
  <2>4. CASE EvtchnCloseMark(t)
    BY <2>4 DEF EvtchnCloseMark, Goto, globals, CloseInv, ClosedQueued, NoneOutstanding
  <2>5. CASE pc[t] = "trigger" /\ EvtchnTrigger(t, handle[t])
    BY <2>5 DEF EvtchnTrigger, Begin, Goto, globals, objects, CloseInv, ClosedQueued,
                NoneOutstanding
  <2>6. CASE EvtchnTriggerQueue(t)
    BY <2>6 DEF EvtchnTriggerQueue, Finish, Begin, Goto, globals, CloseInv, ClosedQueued,
                NoneOutstanding
  <2> QED  BY <1>2, <2>1, <2>2, <2>3, <2>4, <2>5, <2>6 DEF ThreadStep
<1>3. ASSUME NEW t \in Thread, NEW c \in Channel, Client(t, c) PROVE CloseInv'
  <2>1. ASSUME NEW v \in Cpu, EvtchnOpen(t, c, v) PROVE CloseInv'
    BY <2>1 DEF EvtchnOpen, threads, globals, CloseInv, ClosedQueued, NoneOutstanding
  <2>2. ASSUME NEW p \in Cpu, EvtchnBind(t, c, p) PROVE CloseInv'
    BY <2>2, CloseThreadFrame DEF EvtchnBind, Usable, Begin, Goto, objects, globals
  <2>3. CASE EvtchnUnmask(t, c)
    BY <2>3, CloseThreadFrame DEF EvtchnUnmask, Usable, Begin, Goto, objects, globals
  <2>4. CASE pc[t] = "idle" /\ EvtchnTrigger(t, c)
    BY <2>4, CloseThreadFrame DEF EvtchnTrigger, Begin, Goto, objects, globals
  <2>5. CASE EvtchnClose(t, c)
    BY <2>5, CloseThreadFrame DEF EvtchnClose, Usable, Begin, Goto, globals
  <2>6. CASE EvtchnCloseInactive(t, c)
    BY <2>6 DEF EvtchnCloseInactive, EvtchnReap, threads, globals, CloseInv, ClosedQueued,
                NoneOutstanding
  <2> QED  BY <1>3, <2>1, <2>2, <2>3, <2>4, <2>5, <2>6 DEF Client
<1>4. ASSUME NEW p \in Cpu, EvtchnInterruptCallback(p) PROVE CloseInv'
  BY <1>4, CloseFrame DEF EvtchnInterruptCallback, objects, threads, globals
<1>5. ASSUME NEW p \in Cpu, PollStep(p) PROVE CloseInv'
  <2>1. CASE EvtchnPoll(p)
    BY <2>1 DEF EvtchnPoll, threads, globals, CloseInv, ClosedQueued, NoneOutstanding
  <2>2. CASE ~EvtchnPoll(p)
    BY <1>5, <2>2, CloseFrame DEF PollStep, PollLookup, EvtchnPollCallback, PollScanned,
       PollAck, PollCallback, PollDone, objects, threads, globals
  <2> QED  BY <2>1, <2>2
<1>6. ASSUME NEW p \in Cpu, DpcStep(p) PROVE CloseInv'
  <2>1. CASE EvtchnFlushReap(p)
    BY <2>1 DEF EvtchnFlushReap, EvtchnReap, threads, globals, CloseInv, ClosedQueued,
                NoneOutstanding
  <2>2. CASE ~EvtchnFlushReap(p)
    BY <1>6, <2>2, CloseFrame DEF DpcStep, DpcStart, EvtchnDpc, EvtchnFlush, DpcDone,
       objects, threads, globals
  <2> QED  BY <2>1, <2>2
<1>7. CASE EvtchnSuspend
  BY <1>7, CloseFrame DEF EvtchnSuspend, threads
<1>8. CASE EvtchnAcquire
  BY <1>8 DEF EvtchnAcquire, objects, threads, CloseInv, ClosedQueued, NoneOutstanding
<1>9. CASE EvtchnRelease
  <2>1. \A p \in Cpu : reap[p] = {}
    BY <1>9 DEF EvtchnRelease, ContextLockFree, ListInv, SnapshotInv
  <2>2. alloc \subseteq pending
    BY <1>9 DEF EvtchnRelease, CloseInv, ClosedQueued
  <2>3. \A c \in alloc : \E p \in Cpu : c \in queue[p]
    BY <2>1, <2>2 DEF ListInv, PendingInv
  <2>4. alloc' = {}
    BY <1>9, <2>3 DEF EvtchnRelease
  <2> QED
    BY <2>4 DEF CloseInv, ClosedQueued, NoneOutstanding
<1>10. CASE UNCHANGED vars
  BY <1>10, CloseFrame DEF vars, objects, threads, globals
<1> QED
  BY <1>1, <1>2, <1>3, <1>4, <1>5, <1>6, <1>7, <1>8, <1>9, <1>10 DEF Next, Step

\* EvtchnClose never loses an object: a closed channel is on a list or still in
\* the hands of the call that closes it.
THEOREM CloseKeepsChannel == ASSUME QuietRelease PROVE Spec => []ClosedQueued
<1>1. Init => CloseInv
  BY DEF Init, CloseInv, ClosedQueued, NoneOutstanding
<1>2. TypeOK /\ ListInv /\ CloseInv /\ [Next]_vars => CloseInv'
  BY CloseStep
<1>3. PendingInv /\ SnapshotInv => ListInv
  BY DEF ListInv
<1>4. CloseInv => ClosedQueued
  BY DEF CloseInv
<1> QED  BY <1>1, <1>2, <1>3, <1>4, TypeCorrect, ListsSafe, PTL DEF Spec

\* EvtchnRelease of the last reference leaves no channel behind, so its check
\* for outstanding event channels never fires when clients closed theirs.
THEOREM ReleaseLeavesNone == ASSUME QuietRelease PROVE Spec => []NoneOutstanding
<1>1. Init => CloseInv
  BY DEF Init, CloseInv, ClosedQueued, NoneOutstanding
<1>2. TypeOK /\ ListInv /\ CloseInv /\ [Next]_vars => CloseInv'
  BY CloseStep
<1>3. PendingInv /\ SnapshotInv => ListInv
  BY DEF ListInv
<1>4. CloseInv => NoneOutstanding
  BY DEF CloseInv
<1> QED  BY <1>1, <1>2, <1>3, <1>4, TypeCorrect, ListsSafe, PTL DEF Spec
-----------------------------------------------------------------------------
(* What a poll and a flush follow.  With one processor in use no list and no *)
(* poll of another can hold a channel (AtCpu0); an object that is not closed *)
(* is freed only by its client, once a suspend has made it inactive, and the *)
(* suspend finds no such object on a list or with a poll (Held).             *)

\* The clients of this tree, none of which calls EvtchnBind or EvtchnTrigger, while
\* the watchdog is off: with it fdo.c opens a VIRQ_TIMER for every processor.
OneCpu == BindTo \subseteq {Cpu0} /\ VirqCpus \subseteq {Cpu0} /\ ~ClientTrigger

Delivering(p) == poll[p] \in {"check", "ack", "callback"}

AtCpu0 ==
  /\ \A c \in Channel : cpu[c] = Cpu0 /\ vcpu[c] = Cpu0
  /\ \A t \in Thread : trigcpu[t] = Cpu0
  /\ \A p \in Cpu \ {Cpu0} :
       sel[p] = {} /\ todo[p] = {} /\ queue[p] = {} /\ reap[p] = {} /\ work[p] = {} /\ ~Delivering(p)

\* A call in progress has its channel to itself; while it closes the channel the
\* port is disabled, and Closed is set before EvtchnTrigger is called.
HandleInv ==
  /\ \A t, u \in Thread : t # u /\ pc[t] # "idle" /\ pc[u] # "idle" => handle[t] # handle[u]
  /\ \A t \in Thread :
       /\ pc[t] # "bind"
       /\ pc[t] \in {"unmask", "remove", "mark"} => handle[t] \in alloc /\ handle[t] \notin closed
       /\ pc[t] \in {"remove", "mark", "trigger", "queue"} => handle[t] \notin active
       /\ pc[t] \in {"trigger", "queue"} /\ handle[t] \in alloc => handle[t] \in closed
  /\ closed \cap active = {}

\* A port leaves the hash table before its channel is marked as closed.
TableInv ==
  \A c \in table :
    /\ c \in alloc /\ c \notin closed
    /\ c \in active \/ \E t \in Thread : pc[t] = "remove" /\ handle[t] = c

\* No client can free the channel at once.
Held(c) == \/ c \in active \/ c \in closed
           \/ \E t \in Thread : pc[t] \in {"remove", "mark"} /\ handle[t] = c

\* But for a suspend, a channel that stays allocated stays held.
KeepsHeld == \A c \in alloc' : Held(c) /\ suspends' = suspends => Held(c)'

EntriesInv ==
  /\ queue[Cpu0] \subseteq alloc /\ reap[Cpu0] \subseteq alloc
  /\ reap[Cpu0] \subseteq closed
  /\ \A c \in queue[Cpu0] : Held(c)
  /\ poll[Cpu0] = "idle" => queue[Cpu0] \subseteq closed
  /\ poll[Cpu0] \in {"loop", "ack", "callback"} => queue[Cpu0] \ work[Cpu0] \subseteq closed

DeliverInv ==
  Delivering(Cpu0) => /\ cur[Cpu0] \in alloc /\ cur[Cpu0] \notin reap[Cpu0]
                      /\ Held(cur[Cpu0])

FollowInv == AtCpu0 /\ HandleInv /\ TableInv /\ EntriesInv /\ DeliverInv

\* No step brings another processor in.
LEMMA AtCpu0Step ==
  ASSUME OneCpu, QuietRelease, TypeOK, ListInv, FollowInv, Sound, Step PROVE AtCpu0'
<1> USE DEF TypeOK, TypeObjects, TypeHyper, TypePolls, TypeDpcs, TypeThreads,
   FollowInv, AtCpu0, OneCpu, Delivering
<1>1. ASSUME NEW c \in Channel, HvSend(c) PROVE AtCpu0'
  BY <1>1, EvtchnAssumption DEF HvSend, HvNotify, objects, hyper, polls, dpcs, threads, globals
<1>2. ASSUME NEW t \in Thread, EvtchnBindStore(t) PROVE AtCpu0'
  BY <1>2, EvtchnAssumption DEF EvtchnBindStore, Finish, Begin, Goto, objects, hyper, polls,
     dpcs, threads, globals
<1>3. ASSUME NEW t \in Thread, EvtchnUnmaskTest(t) PROVE AtCpu0'
  BY <1>3, EvtchnAssumption DEF EvtchnUnmaskTest, EventChannelUnmask, HvNotify, Finish, Begin,
     Goto, objects, hyper, polls, dpcs, threads, globals
<1>4. ASSUME NEW t \in Thread, EvtchnCloseRemove(t) PROVE AtCpu0'
  BY <1>4, EvtchnAssumption DEF EvtchnCloseRemove, Finish, Begin, Goto, objects, hyper, polls,
     dpcs, threads, globals
<1>5. ASSUME NEW t \in Thread, EvtchnCloseMark(t) PROVE AtCpu0'
  BY <1>5, EvtchnAssumption DEF EvtchnCloseMark, Finish, Begin, Goto, objects, hyper, polls,
     dpcs, threads, globals
<1>6. ASSUME NEW t \in Thread, pc[t] = "trigger" /\ EvtchnTrigger(t, handle[t]) PROVE AtCpu0'
  BY <1>6, EvtchnAssumption DEF EvtchnTrigger, Usable, Finish, Begin, Goto, objects, hyper,
     polls, dpcs, threads, globals
<1>7. ASSUME NEW t \in Thread, EvtchnTriggerQueue(t) PROVE AtCpu0'
  BY <1>7, EvtchnAssumption DEF EvtchnTriggerQueue, InterruptLockFree, Finish, Begin, Goto,
     objects, hyper, polls, dpcs, threads, globals
<1>8. ASSUME NEW t \in Thread, NEW c \in Channel, NEW v \in Cpu, EvtchnOpen(t, c, v) PROVE AtCpu0'
  BY <1>8, EvtchnAssumption DEF EvtchnOpen, EvtchnOpenVirq, objects, hyper, polls, dpcs,
     threads, globals
<1>9. ASSUME NEW t \in Thread, NEW c \in Channel, NEW p \in Cpu, EvtchnBind(t, c, p) PROVE AtCpu0'
  BY <1>9, EvtchnAssumption DEF EvtchnBind, Usable, Finish, Begin, Goto, objects, hyper,
     polls, dpcs, threads, globals
<1>10. ASSUME NEW t \in Thread, NEW c \in Channel, EvtchnUnmask(t, c) PROVE AtCpu0'
  BY <1>10, EvtchnAssumption DEF EvtchnUnmask, Usable, Finish, Begin, Goto, objects, hyper,
     polls, dpcs, threads, globals
<1>11. ASSUME NEW t \in Thread, NEW c \in Channel, pc[t] = "idle" /\ EvtchnTrigger(t, c) PROVE AtCpu0'
  BY <1>11, EvtchnAssumption DEF EvtchnTrigger, Usable, Finish, Begin, Goto, objects, hyper,
     polls, dpcs, threads, globals
<1>12. ASSUME NEW t \in Thread, NEW c \in Channel, EvtchnClose(t, c) PROVE AtCpu0'
  BY <1>12, EvtchnAssumption DEF EvtchnClose, Usable, Finish, Begin, Goto, objects, hyper,
     polls, dpcs, threads, globals
<1>13. ASSUME NEW t \in Thread, NEW c \in Channel, EvtchnCloseInactive(t, c) PROVE AtCpu0'
  BY <1>13, EvtchnAssumption DEF EvtchnCloseInactive, Usable, EvtchnReap, objects, hyper,
     polls, dpcs, threads, globals
<1>14. ASSUME NEW p \in Cpu, EvtchnInterruptCallback(p) PROVE AtCpu0'
  BY <1>14, EvtchnAssumption DEF EvtchnInterruptCallback, InterruptLockFree, BeginPoll,
     Visited, objects, hyper, polls, dpcs, threads, globals
<1>15. ASSUME NEW p \in Cpu, PollLookup(p) PROVE AtCpu0'
  BY <1>15, EvtchnAssumption DEF PollLookup, objects, hyper, polls, dpcs, threads, globals
<1>16. ASSUME NEW p \in Cpu, EvtchnPollCallback(p) PROVE AtCpu0'
  BY <1>16, EvtchnAssumption DEF EvtchnPollCallback, objects, hyper, polls, dpcs, threads,
     globals
<1>17. ASSUME NEW p \in Cpu, PollScanned(p) PROVE AtCpu0'
  BY <1>17, EvtchnAssumption DEF PollScanned, objects, hyper, polls, dpcs, threads, globals
<1>18. ASSUME NEW p \in Cpu, EvtchnPoll(p) PROVE AtCpu0'
  BY <1>18, EvtchnAssumption DEF EvtchnPoll, InFlush, objects, hyper, polls, dpcs, threads,
     globals
<1>19. ASSUME NEW p \in Cpu, PollAck(p) PROVE AtCpu0'
  BY <1>19, EvtchnAssumption DEF PollAck, objects, hyper, polls, dpcs, threads, globals
<1>20. ASSUME NEW p \in Cpu, PollCallback(p) PROVE AtCpu0'
  BY <1>20, EvtchnAssumption DEF PollCallback, EventChannelUnmask, HvNotify, objects, hyper,
     polls, dpcs, threads, globals
<1>21. ASSUME NEW p \in Cpu, PollDone(p) PROVE AtCpu0'
  BY <1>21, EvtchnAssumption DEF PollDone, BeginPoll, Visited, InFlush, objects, hyper, polls,
     dpcs, threads, globals
<1>22. ASSUME NEW p \in Cpu, DpcStart(p) PROVE AtCpu0'
  BY <1>22, EvtchnAssumption DEF DpcStart, objects, hyper, polls, dpcs, threads, globals
<1>23. ASSUME NEW p \in Cpu, EvtchnDpc(p) PROVE AtCpu0'
  BY <1>23, EvtchnAssumption DEF EvtchnDpc, objects, hyper, polls, dpcs, threads, globals
<1>24. ASSUME NEW p \in Cpu, EvtchnFlush(p) PROVE AtCpu0'
  BY <1>24, EvtchnAssumption DEF EvtchnFlush, InterruptLockFree, BeginPoll, Visited, objects,
     hyper, polls, dpcs, threads, globals
<1>25. ASSUME NEW p \in Cpu, EvtchnFlushReap(p) PROVE AtCpu0'
  BY <1>25, EvtchnAssumption DEF EvtchnFlushReap, EvtchnReap, objects, hyper, polls, dpcs,
     threads, globals
<1>26. ASSUME NEW p \in Cpu, DpcDone(p) PROVE AtCpu0'
  BY <1>26, EvtchnAssumption DEF DpcDone, objects, hyper, polls, dpcs, threads, globals
<1>27. ASSUME EvtchnSuspend PROVE AtCpu0'
  BY <1>27, EvtchnAssumption DEF EvtchnSuspend, Captured, EvtchnSuspendCallbackEarly,
     EvtchnSuspendCallbackLate, EvtchnAbiRelease, objects, hyper, polls, dpcs, threads,
     globals
<1>28. ASSUME EvtchnAcquire PROVE AtCpu0'
  BY <1>28, EvtchnAssumption DEF EvtchnAcquire, objects, hyper, polls, dpcs, threads, globals
<1>29. ASSUME EvtchnRelease PROVE AtCpu0'
  BY <1>29, EvtchnAssumption DEF EvtchnRelease, EvtchnAbiRelease, InterruptLockFree,
     ContextLockFree, objects, hyper, polls, dpcs, threads, globals
<1> QED
  BY <1>1, <1>2, <1>3, <1>4, <1>5, <1>6, <1>7, <1>8, <1>9, <1>10, <1>11, <1>12, <1>13, <1>14,
     <1>15, <1>16, <1>17, <1>18, <1>19, <1>20, <1>21, <1>22, <1>23, <1>24, <1>25, <1>26,
     <1>27, <1>28, <1>29 DEF Step, ThreadStep, Client, PollStep, DpcStep

\* Usable keeps two calls from one channel, and EvtchnClose keeps its order.
LEMMA HandleStep ==
  ASSUME OneCpu, QuietRelease, TypeOK, ListInv, FollowInv, Sound, Step PROVE HandleInv'
<1> USE DEF TypeOK, TypeObjects, TypeHyper, TypePolls, TypeDpcs, TypeThreads,
   FollowInv, HandleInv, OneCpu
<1>1. ASSUME NEW c \in Channel, HvSend(c) PROVE HandleInv'
  BY <1>1, EvtchnAssumption DEF HvSend, HvNotify, objects, hyper, polls, dpcs, threads, globals
<1>2. ASSUME NEW t \in Thread, EvtchnBindStore(t) PROVE HandleInv'
  BY <1>2, EvtchnAssumption DEF EvtchnBindStore, Finish, Begin, Goto, objects, hyper, polls,
     dpcs, threads, globals
<1>3. ASSUME NEW t \in Thread, EvtchnUnmaskTest(t) PROVE HandleInv'
  BY <1>3, EvtchnAssumption DEF EvtchnUnmaskTest, EventChannelUnmask, HvNotify, Finish, Begin,
     Goto, objects, hyper, polls, dpcs, threads, globals
<1>4. ASSUME NEW t \in Thread, EvtchnCloseRemove(t) PROVE HandleInv'
  BY <1>4, EvtchnAssumption DEF EvtchnCloseRemove, Finish, Begin, Goto, objects, hyper, polls,
     dpcs, threads, globals
<1>5. ASSUME NEW t \in Thread, EvtchnCloseMark(t) PROVE HandleInv'
  BY <1>5, EvtchnAssumption DEF EvtchnCloseMark, Finish, Begin, Goto, objects, hyper, polls,
     dpcs, threads, globals
<1>6. ASSUME NEW t \in Thread, pc[t] = "trigger" /\ EvtchnTrigger(t, handle[t]) PROVE HandleInv'
  BY <1>6, EvtchnAssumption DEF EvtchnTrigger, Usable, Finish, Begin, Goto, objects, hyper,
     polls, dpcs, threads, globals
<1>7. ASSUME NEW t \in Thread, EvtchnTriggerQueue(t) PROVE HandleInv'
  BY <1>7, EvtchnAssumption DEF EvtchnTriggerQueue, InterruptLockFree, Finish, Begin, Goto,
     objects, hyper, polls, dpcs, threads, globals
<1>8. ASSUME NEW t \in Thread, NEW c \in Channel, NEW v \in Cpu, EvtchnOpen(t, c, v) PROVE HandleInv'
  <2>1. \A u \in Thread : pc[u] # "idle" => handle[u] # c
    BY <1>8 DEF EvtchnOpen, Sound, TriggerFreed, HandleInv
  <2> QED  BY <1>8, <2>1 DEF EvtchnOpen, EvtchnOpenVirq, objects, hyper, polls, dpcs, threads,
     globals
<1>9. ASSUME NEW t \in Thread, NEW c \in Channel, NEW p \in Cpu, EvtchnBind(t, c, p) PROVE HandleInv'
  BY <1>9 DEF EvtchnBind, Usable, AtCpu0
<1>10. ASSUME NEW t \in Thread, NEW c \in Channel, EvtchnUnmask(t, c) PROVE HandleInv'
  BY <1>10, EvtchnAssumption DEF EvtchnUnmask, Usable, Finish, Begin, Goto, objects, hyper,
     polls, dpcs, threads, globals
<1>11. ASSUME NEW t \in Thread, NEW c \in Channel, pc[t] = "idle" /\ EvtchnTrigger(t, c) PROVE HandleInv'
  BY <1>11, EvtchnAssumption DEF EvtchnTrigger, Usable, Finish, Begin, Goto, objects, hyper,
     polls, dpcs, threads, globals
<1>12. ASSUME NEW t \in Thread, NEW c \in Channel, EvtchnClose(t, c) PROVE HandleInv'
  BY <1>12, EvtchnAssumption DEF EvtchnClose, Usable, Finish, Begin, Goto, objects, hyper,
     polls, dpcs, threads, globals
<1>13. ASSUME NEW t \in Thread, NEW c \in Channel, EvtchnCloseInactive(t, c) PROVE HandleInv'
  BY <1>13, EvtchnAssumption DEF EvtchnCloseInactive, Usable, EvtchnReap, objects, hyper,
     polls, dpcs, threads, globals
<1>14. ASSUME NEW p \in Cpu, EvtchnInterruptCallback(p) PROVE HandleInv'
  BY <1>14, EvtchnAssumption DEF EvtchnInterruptCallback, InterruptLockFree, BeginPoll,
     Visited, objects, hyper, polls, dpcs, threads, globals
<1>15. ASSUME NEW p \in Cpu, PollLookup(p) PROVE HandleInv'
  BY <1>15, EvtchnAssumption DEF PollLookup, objects, hyper, polls, dpcs, threads, globals
<1>16. ASSUME NEW p \in Cpu, EvtchnPollCallback(p) PROVE HandleInv'
  BY <1>16, EvtchnAssumption DEF EvtchnPollCallback, objects, hyper, polls, dpcs, threads,
     globals
<1>17. ASSUME NEW p \in Cpu, PollScanned(p) PROVE HandleInv'
  BY <1>17, EvtchnAssumption DEF PollScanned, objects, hyper, polls, dpcs, threads, globals
<1>18. ASSUME NEW p \in Cpu, EvtchnPoll(p) PROVE HandleInv'
  BY <1>18, EvtchnAssumption DEF EvtchnPoll, InFlush, objects, hyper, polls, dpcs, threads,
     globals
<1>19. ASSUME NEW p \in Cpu, PollAck(p) PROVE HandleInv'
  BY <1>19, EvtchnAssumption DEF PollAck, objects, hyper, polls, dpcs, threads, globals
<1>20. ASSUME NEW p \in Cpu, PollCallback(p) PROVE HandleInv'
  BY <1>20, EvtchnAssumption DEF PollCallback, EventChannelUnmask, HvNotify, objects, hyper,
     polls, dpcs, threads, globals
<1>21. ASSUME NEW p \in Cpu, PollDone(p) PROVE HandleInv'
  BY <1>21, EvtchnAssumption DEF PollDone, BeginPoll, Visited, InFlush, objects, hyper, polls,
     dpcs, threads, globals
<1>22. ASSUME NEW p \in Cpu, DpcStart(p) PROVE HandleInv'
  BY <1>22, EvtchnAssumption DEF DpcStart, objects, hyper, polls, dpcs, threads, globals
<1>23. ASSUME NEW p \in Cpu, EvtchnDpc(p) PROVE HandleInv'
  BY <1>23, EvtchnAssumption DEF EvtchnDpc, objects, hyper, polls, dpcs, threads, globals
<1>24. ASSUME NEW p \in Cpu, EvtchnFlush(p) PROVE HandleInv'
  BY <1>24, EvtchnAssumption DEF EvtchnFlush, InterruptLockFree, BeginPoll, Visited, objects,
     hyper, polls, dpcs, threads, globals
<1>25. ASSUME NEW p \in Cpu, EvtchnFlushReap(p) PROVE HandleInv'
  <2>1. PICK c \in reap[p] : EvtchnFlushReap(p)!2!(c)  BY <1>25 DEF EvtchnFlushReap
  <2>2. p = Cpu0 /\ c \in closed /\ c \in Channel  BY <2>1, EvtchnAssumption DEF AtCpu0,
     EntriesInv
  <2> QED  BY <1>25, <2>1, <2>2 DEF EvtchnFlushReap, EvtchnReap, objects, hyper, polls, dpcs,
     threads, globals
<1>26. ASSUME NEW p \in Cpu, DpcDone(p) PROVE HandleInv'
  BY <1>26, EvtchnAssumption DEF DpcDone, objects, hyper, polls, dpcs, threads, globals
<1>27. ASSUME EvtchnSuspend PROVE HandleInv'
  BY <1>27, EvtchnAssumption DEF EvtchnSuspend, Captured, EvtchnSuspendCallbackEarly,
     EvtchnSuspendCallbackLate, EvtchnAbiRelease, objects, hyper, polls, dpcs, threads,
     globals
<1>28. ASSUME EvtchnAcquire PROVE HandleInv'
  BY <1>28, EvtchnAssumption DEF EvtchnAcquire, objects, hyper, polls, dpcs, threads, globals
<1>29. ASSUME EvtchnRelease PROVE HandleInv'
  BY <1>29, EvtchnAssumption DEF EvtchnRelease, EvtchnAbiRelease, InterruptLockFree,
     ContextLockFree, objects, hyper, polls, dpcs, threads, globals
<1> QED
  BY <1>1, <1>2, <1>3, <1>4, <1>5, <1>6, <1>7, <1>8, <1>9, <1>10, <1>11, <1>12, <1>13, <1>14,
     <1>15, <1>16, <1>17, <1>18, <1>19, <1>20, <1>21, <1>22, <1>23, <1>24, <1>25, <1>26,
     <1>27, <1>28, <1>29 DEF Step, ThreadStep, Client, PollStep, DpcStep

\* EvtchnCloseRemove comes before EvtchnCloseMark, and a suspend empties the table.
LEMMA TableStep ==
  ASSUME OneCpu, QuietRelease, TypeOK, ListInv, FollowInv, Sound, Step PROVE TableInv'
<1> USE DEF TypeOK, TypeObjects, TypeHyper, TypePolls, TypeDpcs, TypeThreads,
   FollowInv, TableInv, HandleInv
<1>1. ASSUME NEW c \in Channel, HvSend(c) PROVE TableInv'
  BY <1>1, EvtchnAssumption DEF HvSend, HvNotify, objects, hyper, polls, dpcs, threads, globals
<1>2. ASSUME NEW t \in Thread, EvtchnBindStore(t) PROVE TableInv'
  BY <1>2, EvtchnAssumption DEF EvtchnBindStore, Finish, Begin, Goto, objects, hyper, polls,
     dpcs, threads, globals
<1>3. ASSUME NEW t \in Thread, EvtchnUnmaskTest(t) PROVE TableInv'
  BY <1>3, EvtchnAssumption DEF EvtchnUnmaskTest, EventChannelUnmask, HvNotify, Finish, Begin,
     Goto, objects, hyper, polls, dpcs, threads, globals
<1>4. ASSUME NEW t \in Thread, EvtchnCloseRemove(t) PROVE TableInv'
  BY <1>4, EvtchnAssumption DEF EvtchnCloseRemove, Finish, Begin, Goto, objects, hyper, polls,
     dpcs, threads, globals
<1>5. ASSUME NEW t \in Thread, EvtchnCloseMark(t) PROVE TableInv'
  BY <1>5, EvtchnAssumption DEF EvtchnCloseMark, Finish, Begin, Goto, objects, hyper, polls,
     dpcs, threads, globals
<1>6. ASSUME NEW t \in Thread, pc[t] = "trigger" /\ EvtchnTrigger(t, handle[t]) PROVE TableInv'
  BY <1>6, EvtchnAssumption DEF EvtchnTrigger, Usable, Finish, Begin, Goto, objects, hyper,
     polls, dpcs, threads, globals
<1>7. ASSUME NEW t \in Thread, EvtchnTriggerQueue(t) PROVE TableInv'
  BY <1>7, EvtchnAssumption DEF EvtchnTriggerQueue, InterruptLockFree, Finish, Begin, Goto,
     objects, hyper, polls, dpcs, threads, globals
<1>8. ASSUME NEW t \in Thread, NEW c \in Channel, NEW v \in Cpu, EvtchnOpen(t, c, v) PROVE TableInv'
  BY <1>8, EvtchnAssumption DEF EvtchnOpen, EvtchnOpenVirq, objects, hyper, polls, dpcs,
     threads, globals
<1>9. ASSUME NEW t \in Thread, NEW c \in Channel, NEW p \in Cpu, EvtchnBind(t, c, p) PROVE TableInv'
  BY <1>9, EvtchnAssumption DEF EvtchnBind, Usable, Finish, Begin, Goto, objects, hyper,
     polls, dpcs, threads, globals
<1>10. ASSUME NEW t \in Thread, NEW c \in Channel, EvtchnUnmask(t, c) PROVE TableInv'
  BY <1>10, EvtchnAssumption DEF EvtchnUnmask, Usable, Finish, Begin, Goto, objects, hyper,
     polls, dpcs, threads, globals
<1>11. ASSUME NEW t \in Thread, NEW c \in Channel, pc[t] = "idle" /\ EvtchnTrigger(t, c) PROVE TableInv'
  BY <1>11, EvtchnAssumption DEF EvtchnTrigger, Usable, Finish, Begin, Goto, objects, hyper,
     polls, dpcs, threads, globals
<1>12. ASSUME NEW t \in Thread, NEW c \in Channel, EvtchnClose(t, c) PROVE TableInv'
  BY <1>12, EvtchnAssumption DEF EvtchnClose, Usable, Finish, Begin, Goto, objects, hyper,
     polls, dpcs, threads, globals
<1>13. ASSUME NEW t \in Thread, NEW c \in Channel, EvtchnCloseInactive(t, c) PROVE TableInv'
  BY <1>13, EvtchnAssumption DEF EvtchnCloseInactive, Usable, EvtchnReap, objects, hyper,
     polls, dpcs, threads, globals
<1>14. ASSUME NEW p \in Cpu, EvtchnInterruptCallback(p) PROVE TableInv'
  BY <1>14, EvtchnAssumption DEF EvtchnInterruptCallback, InterruptLockFree, BeginPoll,
     Visited, objects, hyper, polls, dpcs, threads, globals
<1>15. ASSUME NEW p \in Cpu, PollLookup(p) PROVE TableInv'
  BY <1>15, EvtchnAssumption DEF PollLookup, objects, hyper, polls, dpcs, threads, globals
<1>16. ASSUME NEW p \in Cpu, EvtchnPollCallback(p) PROVE TableInv'
  BY <1>16, EvtchnAssumption DEF EvtchnPollCallback, objects, hyper, polls, dpcs, threads,
     globals
<1>17. ASSUME NEW p \in Cpu, PollScanned(p) PROVE TableInv'
  BY <1>17, EvtchnAssumption DEF PollScanned, objects, hyper, polls, dpcs, threads, globals
<1>18. ASSUME NEW p \in Cpu, EvtchnPoll(p) PROVE TableInv'
  BY <1>18, EvtchnAssumption DEF EvtchnPoll, InFlush, objects, hyper, polls, dpcs, threads,
     globals
<1>19. ASSUME NEW p \in Cpu, PollAck(p) PROVE TableInv'
  BY <1>19, EvtchnAssumption DEF PollAck, objects, hyper, polls, dpcs, threads, globals
<1>20. ASSUME NEW p \in Cpu, PollCallback(p) PROVE TableInv'
  BY <1>20, EvtchnAssumption DEF PollCallback, EventChannelUnmask, HvNotify, objects, hyper,
     polls, dpcs, threads, globals
<1>21. ASSUME NEW p \in Cpu, PollDone(p) PROVE TableInv'
  BY <1>21, EvtchnAssumption DEF PollDone, BeginPoll, Visited, InFlush, objects, hyper, polls,
     dpcs, threads, globals
<1>22. ASSUME NEW p \in Cpu, DpcStart(p) PROVE TableInv'
  BY <1>22, EvtchnAssumption DEF DpcStart, objects, hyper, polls, dpcs, threads, globals
<1>23. ASSUME NEW p \in Cpu, EvtchnDpc(p) PROVE TableInv'
  BY <1>23, EvtchnAssumption DEF EvtchnDpc, objects, hyper, polls, dpcs, threads, globals
<1>24. ASSUME NEW p \in Cpu, EvtchnFlush(p) PROVE TableInv'
  BY <1>24, EvtchnAssumption DEF EvtchnFlush, InterruptLockFree, BeginPoll, Visited, objects,
     hyper, polls, dpcs, threads, globals
<1>25. ASSUME NEW p \in Cpu, EvtchnFlushReap(p) PROVE TableInv'
  <2>1. PICK c \in reap[p] : EvtchnFlushReap(p)!2!(c)  BY <1>25 DEF EvtchnFlushReap
  <2>2. p = Cpu0 /\ c \in closed /\ c \in Channel  BY <2>1, EvtchnAssumption DEF AtCpu0,
     EntriesInv
  <2> QED  BY <1>25, <2>1, <2>2 DEF EvtchnFlushReap, EvtchnReap, objects, hyper, polls, dpcs,
     threads, globals
<1>26. ASSUME NEW p \in Cpu, DpcDone(p) PROVE TableInv'
  BY <1>26, EvtchnAssumption DEF DpcDone, objects, hyper, polls, dpcs, threads, globals
<1>27. ASSUME EvtchnSuspend PROVE TableInv'
  BY <1>27, EvtchnAssumption DEF EvtchnSuspend, Captured, EvtchnSuspendCallbackEarly,
     EvtchnSuspendCallbackLate, EvtchnAbiRelease, objects, hyper, polls, dpcs, threads,
     globals
<1>28. ASSUME EvtchnAcquire PROVE TableInv'
  BY <1>28, EvtchnAssumption DEF EvtchnAcquire, objects, hyper, polls, dpcs, threads, globals
<1>29. ASSUME EvtchnRelease PROVE TableInv'
  BY <1>29, EvtchnAssumption DEF EvtchnRelease, EvtchnAbiRelease, InterruptLockFree,
     ContextLockFree, objects, hyper, polls, dpcs, threads, globals
<1> QED
  BY <1>1, <1>2, <1>3, <1>4, <1>5, <1>6, <1>7, <1>8, <1>9, <1>10, <1>11, <1>12, <1>13, <1>14,
     <1>15, <1>16, <1>17, <1>18, <1>19, <1>20, <1>21, <1>22, <1>23, <1>24, <1>25, <1>26,
     <1>27, <1>28, <1>29 DEF Step, ThreadStep, Client, PollStep, DpcStep

\* EvtchnClose passes a channel from Active through its own steps to Closed.
LEMMA HeldStep ==
  ASSUME OneCpu, QuietRelease, TypeOK, ListInv, FollowInv, Sound, Step PROVE KeepsHeld
<1> USE DEF TypeOK, TypeObjects, TypeHyper, TypePolls, TypeDpcs, TypeThreads,
   FollowInv, Held, KeepsHeld, HandleInv
<1>1. ASSUME NEW c \in Channel, HvSend(c) PROVE KeepsHeld
  BY <1>1, EvtchnAssumption DEF HvSend, HvNotify, objects, hyper, polls, dpcs, threads, globals
<1>2. ASSUME NEW t \in Thread, EvtchnBindStore(t) PROVE KeepsHeld
  BY <1>2, EvtchnAssumption DEF EvtchnBindStore, Finish, Begin, Goto, objects, hyper, polls,
     dpcs, threads, globals
<1>3. ASSUME NEW t \in Thread, EvtchnUnmaskTest(t) PROVE KeepsHeld
  BY <1>3, EvtchnAssumption DEF EvtchnUnmaskTest, EventChannelUnmask, HvNotify, Finish, Begin,
     Goto, objects, hyper, polls, dpcs, threads, globals
<1>4. ASSUME NEW t \in Thread, EvtchnCloseRemove(t) PROVE KeepsHeld
  BY <1>4, EvtchnAssumption DEF EvtchnCloseRemove, Finish, Begin, Goto, objects, hyper, polls,
     dpcs, threads, globals
<1>5. ASSUME NEW t \in Thread, EvtchnCloseMark(t) PROVE KeepsHeld
  BY <1>5, EvtchnAssumption DEF EvtchnCloseMark, Finish, Begin, Goto, objects, hyper, polls,
     dpcs, threads, globals
<1>6. ASSUME NEW t \in Thread, pc[t] = "trigger" /\ EvtchnTrigger(t, handle[t]) PROVE KeepsHeld
  BY <1>6, EvtchnAssumption DEF EvtchnTrigger, Usable, Finish, Begin, Goto, objects, hyper,
     polls, dpcs, threads, globals
<1>7. ASSUME NEW t \in Thread, EvtchnTriggerQueue(t) PROVE KeepsHeld
  BY <1>7, EvtchnAssumption DEF EvtchnTriggerQueue, InterruptLockFree, Finish, Begin, Goto,
     objects, hyper, polls, dpcs, threads, globals
<1>8. ASSUME NEW t \in Thread, NEW c \in Channel, NEW v \in Cpu, EvtchnOpen(t, c, v) PROVE KeepsHeld
  BY <1>8, EvtchnAssumption DEF EvtchnOpen, EvtchnOpenVirq, objects, hyper, polls, dpcs,
     threads, globals
<1>9. ASSUME NEW t \in Thread, NEW c \in Channel, NEW p \in Cpu, EvtchnBind(t, c, p) PROVE KeepsHeld
  BY <1>9, EvtchnAssumption DEF EvtchnBind, Usable, Finish, Begin, Goto, objects, hyper,
     polls, dpcs, threads, globals
<1>10. ASSUME NEW t \in Thread, NEW c \in Channel, EvtchnUnmask(t, c) PROVE KeepsHeld
  BY <1>10, EvtchnAssumption DEF EvtchnUnmask, Usable, Finish, Begin, Goto, objects, hyper,
     polls, dpcs, threads, globals
<1>11. ASSUME NEW t \in Thread, NEW c \in Channel, pc[t] = "idle" /\ EvtchnTrigger(t, c) PROVE KeepsHeld
  BY <1>11, EvtchnAssumption DEF EvtchnTrigger, Usable, Finish, Begin, Goto, objects, hyper,
     polls, dpcs, threads, globals
<1>12. ASSUME NEW t \in Thread, NEW c \in Channel, EvtchnClose(t, c) PROVE KeepsHeld
  BY <1>12, EvtchnAssumption DEF EvtchnClose, Usable, Finish, Begin, Goto, objects, hyper,
     polls, dpcs, threads, globals
<1>13. ASSUME NEW t \in Thread, NEW c \in Channel, EvtchnCloseInactive(t, c) PROVE KeepsHeld
  BY <1>13, EvtchnAssumption DEF EvtchnCloseInactive, Usable, EvtchnReap, objects, hyper,
     polls, dpcs, threads, globals
<1>14. ASSUME NEW p \in Cpu, EvtchnInterruptCallback(p) PROVE KeepsHeld
  BY <1>14, EvtchnAssumption DEF EvtchnInterruptCallback, InterruptLockFree, BeginPoll,
     Visited, objects, hyper, polls, dpcs, threads, globals
<1>15. ASSUME NEW p \in Cpu, PollLookup(p) PROVE KeepsHeld
  BY <1>15, EvtchnAssumption DEF PollLookup, objects, hyper, polls, dpcs, threads, globals
<1>16. ASSUME NEW p \in Cpu, EvtchnPollCallback(p) PROVE KeepsHeld
  BY <1>16, EvtchnAssumption DEF EvtchnPollCallback, objects, hyper, polls, dpcs, threads,
     globals
<1>17. ASSUME NEW p \in Cpu, PollScanned(p) PROVE KeepsHeld
  BY <1>17, EvtchnAssumption DEF PollScanned, objects, hyper, polls, dpcs, threads, globals
<1>18. ASSUME NEW p \in Cpu, EvtchnPoll(p) PROVE KeepsHeld
  BY <1>18, EvtchnAssumption DEF EvtchnPoll, InFlush, objects, hyper, polls, dpcs, threads,
     globals
<1>19. ASSUME NEW p \in Cpu, PollAck(p) PROVE KeepsHeld
  BY <1>19, EvtchnAssumption DEF PollAck, objects, hyper, polls, dpcs, threads, globals
<1>20. ASSUME NEW p \in Cpu, PollCallback(p) PROVE KeepsHeld
  BY <1>20, EvtchnAssumption DEF PollCallback, EventChannelUnmask, HvNotify, objects, hyper,
     polls, dpcs, threads, globals
<1>21. ASSUME NEW p \in Cpu, PollDone(p) PROVE KeepsHeld
  BY <1>21, EvtchnAssumption DEF PollDone, BeginPoll, Visited, InFlush, objects, hyper, polls,
     dpcs, threads, globals
<1>22. ASSUME NEW p \in Cpu, DpcStart(p) PROVE KeepsHeld
  BY <1>22, EvtchnAssumption DEF DpcStart, objects, hyper, polls, dpcs, threads, globals
<1>23. ASSUME NEW p \in Cpu, EvtchnDpc(p) PROVE KeepsHeld
  BY <1>23, EvtchnAssumption DEF EvtchnDpc, objects, hyper, polls, dpcs, threads, globals
<1>24. ASSUME NEW p \in Cpu, EvtchnFlush(p) PROVE KeepsHeld
  BY <1>24, EvtchnAssumption DEF EvtchnFlush, InterruptLockFree, BeginPoll, Visited, objects,
     hyper, polls, dpcs, threads, globals
<1>25. ASSUME NEW p \in Cpu, EvtchnFlushReap(p) PROVE KeepsHeld
  BY <1>25, EvtchnAssumption DEF EvtchnFlushReap, EvtchnReap, objects, hyper, polls, dpcs,
     threads, globals
<1>26. ASSUME NEW p \in Cpu, DpcDone(p) PROVE KeepsHeld
  BY <1>26, EvtchnAssumption DEF DpcDone, objects, hyper, polls, dpcs, threads, globals
<1>27. ASSUME EvtchnSuspend PROVE KeepsHeld
  BY <1>27, EvtchnAssumption DEF EvtchnSuspend, Captured, EvtchnSuspendCallbackEarly,
     EvtchnSuspendCallbackLate, EvtchnAbiRelease, objects, hyper, polls, dpcs, threads,
     globals
<1>28. ASSUME EvtchnAcquire PROVE KeepsHeld
  BY <1>28, EvtchnAssumption DEF EvtchnAcquire, objects, hyper, polls, dpcs, threads, globals
<1>29. ASSUME EvtchnRelease PROVE KeepsHeld
  BY <1>29, EvtchnAssumption DEF EvtchnRelease, EvtchnAbiRelease, InterruptLockFree,
     ContextLockFree, objects, hyper, polls, dpcs, threads, globals
<1> QED
  BY <1>1, <1>2, <1>3, <1>4, <1>5, <1>6, <1>7, <1>8, <1>9, <1>10, <1>11, <1>12, <1>13, <1>14,
     <1>15, <1>16, <1>17, <1>18, <1>19, <1>20, <1>21, <1>22, <1>23, <1>24, <1>25, <1>26,
     <1>27, <1>28, <1>29 DEF Step, ThreadStep, Client, PollStep, DpcStep

\* The lists have allocated channels only, and between two polls only closed ones.
LEMMA EntriesStep ==
  ASSUME OneCpu, QuietRelease, TypeOK, ListInv, FollowInv, Sound, Step PROVE EntriesInv'
<1> USE DEF TypeOK, TypeObjects, TypeHyper, TypePolls, TypeDpcs, TypeThreads,
   FollowInv, EntriesInv, KeepsHeld
<1>0. KeepsHeld  BY HeldStep
<1>1. ASSUME NEW c \in Channel, HvSend(c) PROVE EntriesInv'
  BY <1>1, EvtchnAssumption, <1>0 DEF HvSend, HvNotify, objects, hyper, polls, dpcs, threads,
     globals
<1>2. ASSUME NEW t \in Thread, EvtchnBindStore(t) PROVE EntriesInv'
  BY <1>2, EvtchnAssumption, <1>0 DEF EvtchnBindStore, Finish, Begin, Goto, objects, hyper,
     polls, dpcs, threads, globals
<1>3. ASSUME NEW t \in Thread, EvtchnUnmaskTest(t) PROVE EntriesInv'
  BY <1>3, EvtchnAssumption, <1>0 DEF EvtchnUnmaskTest, EventChannelUnmask, HvNotify, Finish,
     Begin, Goto, objects, hyper, polls, dpcs, threads, globals
<1>4. ASSUME NEW t \in Thread, EvtchnCloseRemove(t) PROVE EntriesInv'
  BY <1>4, EvtchnAssumption, <1>0 DEF EvtchnCloseRemove, Finish, Begin, Goto, objects, hyper,
     polls, dpcs, threads, globals
<1>5. ASSUME NEW t \in Thread, EvtchnCloseMark(t) PROVE EntriesInv'
  BY <1>5, EvtchnAssumption, <1>0 DEF EvtchnCloseMark, Finish, Begin, Goto, objects, hyper,
     polls, dpcs, threads, globals
<1>6. ASSUME NEW t \in Thread, pc[t] = "trigger" /\ EvtchnTrigger(t, handle[t]) PROVE EntriesInv'
  BY <1>6, EvtchnAssumption, <1>0 DEF EvtchnTrigger, Usable, Finish, Begin, Goto, objects,
     hyper, polls, dpcs, threads, globals
<1>7. ASSUME NEW t \in Thread, EvtchnTriggerQueue(t) PROVE EntriesInv'
  <2>1. handle[t] \in alloc /\ handle[t] \in closed /\ trigcpu[t] = Cpu0
    BY <1>7 DEF EvtchnTriggerQueue, Sound, TriggerFreed, HandleInv, AtCpu0
  <2>2. UNCHANGED <<alloc, closed, poll, work, reap, suspends>> /\ poll[Cpu0] = "idle"
    BY <1>7, <2>1 DEF EvtchnTriggerQueue, InterruptLockFree, polls, dpcs, globals
  <2>3. \A d \in queue'[Cpu0] : d \in queue[Cpu0] \/ d = handle[t]
    <3>1. queue' = queue \/ queue' = [queue EXCEPT ![Cpu0] = queue[Cpu0] \cup {handle[t]}]
      BY <1>7, <2>1 DEF EvtchnTriggerQueue
    <3> QED  BY <3>1, EvtchnAssumption
  <2>4. \A d \in closed : Held(d)'  BY <2>2 DEF Held
  <2> QED  BY <1>0, <2>1, <2>2, <2>3, <2>4
<1>8. ASSUME NEW t \in Thread, NEW c \in Channel, NEW v \in Cpu, EvtchnOpen(t, c, v) PROVE EntriesInv'
  BY <1>8, EvtchnAssumption, <1>0 DEF EvtchnOpen, EvtchnOpenVirq, objects, hyper, polls, dpcs,
     threads, globals
<1>9. ASSUME NEW t \in Thread, NEW c \in Channel, NEW p \in Cpu, EvtchnBind(t, c, p) PROVE EntriesInv'
  BY <1>9, EvtchnAssumption, <1>0 DEF EvtchnBind, Usable, Finish, Begin, Goto, objects, hyper,
     polls, dpcs, threads, globals
<1>10. ASSUME NEW t \in Thread, NEW c \in Channel, EvtchnUnmask(t, c) PROVE EntriesInv'
  BY <1>10, EvtchnAssumption, <1>0 DEF EvtchnUnmask, Usable, Finish, Begin, Goto, objects,
     hyper, polls, dpcs, threads, globals
<1>11. ASSUME NEW t \in Thread, NEW c \in Channel, pc[t] = "idle" /\ EvtchnTrigger(t, c) PROVE EntriesInv'
  BY <1>11, EvtchnAssumption, <1>0 DEF EvtchnTrigger, Usable, Finish, Begin, Goto, objects,
     hyper, polls, dpcs, threads, globals
<1>12. ASSUME NEW t \in Thread, NEW c \in Channel, EvtchnClose(t, c) PROVE EntriesInv'
  BY <1>12, EvtchnAssumption, <1>0 DEF EvtchnClose, Usable, Finish, Begin, Goto, objects,
     hyper, polls, dpcs, threads, globals
<1>13. ASSUME NEW t \in Thread, NEW c \in Channel, EvtchnCloseInactive(t, c) PROVE EntriesInv'
  <2>1. ~Held(c) /\ c \notin closed  BY <1>13 DEF EvtchnCloseInactive, Usable, Held
  <2>2. c \notin queue[Cpu0] /\ c \notin reap[Cpu0]  BY <2>1
  <2> QED  BY <1>13, <1>0, <2>2 DEF EvtchnCloseInactive, Usable, EvtchnReap, objects, hyper,
     polls, dpcs, threads, globals
<1>14. ASSUME NEW p \in Cpu, EvtchnInterruptCallback(p) PROVE EntriesInv'
  BY <1>14, EvtchnAssumption, <1>0 DEF EvtchnInterruptCallback, InterruptLockFree, BeginPoll,
     Visited, objects, hyper, polls, dpcs, threads, globals
<1>15. ASSUME NEW p \in Cpu, PollLookup(p) PROVE EntriesInv'
  BY <1>15, EvtchnAssumption, <1>0 DEF PollLookup, objects, hyper, polls, dpcs, threads, globals
<1>16. ASSUME NEW p \in Cpu, EvtchnPollCallback(p) PROVE EntriesInv'
  <2>1. p = Cpu0 /\ cur[p] \in alloc /\ Held(cur[p])
    BY <1>16 DEF EvtchnPollCallback, AtCpu0, Delivering, DeliverInv
  <2>2. UNCHANGED <<alloc, closed, reap, suspends>> /\ poll'[p] = "scan"
    BY <1>16 DEF EvtchnPollCallback, dpcs, globals
  <2>3. queue'[p] \subseteq queue[p] \cup {cur[p]}  BY <1>16 DEF EvtchnPollCallback
  <2> QED  BY <1>0, <2>1, <2>2, <2>3
<1>17. ASSUME NEW p \in Cpu, PollScanned(p) PROVE EntriesInv'
  BY <1>17, EvtchnAssumption, <1>0 DEF PollScanned, objects, hyper, polls, dpcs, threads,
     globals
<1>18. ASSUME NEW p \in Cpu, EvtchnPoll(p) PROVE EntriesInv'
  <2>1. PICK c \in work[p] : EvtchnPoll(p)!2!(c)  BY <1>18 DEF EvtchnPoll
  <2>2. p = Cpu0  BY <2>1, EvtchnAssumption DEF AtCpu0
  <2>3. UNCHANGED <<alloc, closed, suspends>> /\ poll[p] = "loop" /\ poll'[p] # "idle"
    BY <1>18, <2>1 DEF EvtchnPoll, globals
  <2>4. work'[p] = work[p] \ {c} /\ c \in queue[p]
    BY <1>18, <2>1 DEF ListInv, SnapshotInv, EvtchnPoll
  <2>5. queue'[p] \subseteq queue[p] /\ reap'[p] \subseteq reap[p] \cup {c}
        /\ (c \in reap'[p] => c \in reap[p] \/ c \in closed)
        /\ (c \in queue'[p] => c \in closed)
    BY <2>1
  <2>6. poll'[p] \in {"loop", "ack", "callback"} => queue'[p] \ work'[p] \subseteq closed'
    BY <2>2, <2>3, <2>4, <2>5
  <2> QED  BY <1>0, <2>2, <2>3, <2>4, <2>5, <2>6
<1>19. ASSUME NEW p \in Cpu, PollAck(p) PROVE EntriesInv'
  BY <1>19, EvtchnAssumption, <1>0 DEF PollAck, objects, hyper, polls, dpcs, threads, globals
<1>20. ASSUME NEW p \in Cpu, PollCallback(p) PROVE EntriesInv'
  BY <1>20, EvtchnAssumption, <1>0 DEF PollCallback, EventChannelUnmask, HvNotify, objects,
     hyper, polls, dpcs, threads, globals
<1>21. ASSUME NEW p \in Cpu, PollDone(p) PROVE EntriesInv'
  BY <1>21, EvtchnAssumption, <1>0 DEF PollDone, BeginPoll, Visited, InFlush, objects, hyper,
     polls, dpcs, threads, globals
<1>22. ASSUME NEW p \in Cpu, DpcStart(p) PROVE EntriesInv'
  BY <1>22, EvtchnAssumption, <1>0 DEF DpcStart, objects, hyper, polls, dpcs, threads, globals
<1>23. ASSUME NEW p \in Cpu, EvtchnDpc(p) PROVE EntriesInv'
  BY <1>23, EvtchnAssumption, <1>0 DEF EvtchnDpc, objects, hyper, polls, dpcs, threads, globals
<1>24. ASSUME NEW p \in Cpu, EvtchnFlush(p) PROVE EntriesInv'
  BY <1>24, EvtchnAssumption, <1>0 DEF EvtchnFlush, InterruptLockFree, BeginPoll, Visited,
     objects, hyper, polls, dpcs, threads, globals
<1>25. ASSUME NEW p \in Cpu, EvtchnFlushReap(p) PROVE EntriesInv'
  <2>1. PICK c \in reap[p] : EvtchnFlushReap(p)!2!(c)  BY <1>25 DEF EvtchnFlushReap
  <2>2. p = Cpu0 /\ c \in closed /\ c \in Channel  BY <2>1, EvtchnAssumption DEF AtCpu0,
     EntriesInv
  <2>3. c \notin queue[p]  BY <2>1, <2>2 DEF ListInv, PendingInv
  <2> QED  BY <1>25, <1>0, <2>1, <2>2, <2>3 DEF EvtchnFlushReap, EvtchnReap, objects, hyper,
     polls, dpcs, threads, globals
<1>26. ASSUME NEW p \in Cpu, DpcDone(p) PROVE EntriesInv'
  BY <1>26, EvtchnAssumption, <1>0 DEF DpcDone, objects, hyper, polls, dpcs, threads, globals
<1>27. ASSUME EvtchnSuspend PROVE EntriesInv'
  <2>1. queue[Cpu0] \subseteq closed /\ poll[Cpu0] = "idle" /\ UNCHANGED <<alloc, closed, poll, queue, reap>>
    BY <1>27, EvtchnAssumption DEF EvtchnSuspend, Captured, polls, dpcs
  <2> QED  BY <2>1 DEF Held
<1>28. ASSUME EvtchnAcquire PROVE EntriesInv'
  BY <1>28, EvtchnAssumption, <1>0 DEF EvtchnAcquire, objects, hyper, polls, dpcs, threads,
     globals
<1>29. ASSUME EvtchnRelease PROVE EntriesInv'
  <2>1. reap[Cpu0] = {} /\ queue'[Cpu0] = {} /\ reap' = reap /\ poll'[Cpu0] = "idle"
    BY <1>29, EvtchnAssumption DEF EvtchnRelease, ContextLockFree, InterruptLockFree, ListInv,
       SnapshotInv,
       polls, dpcs
  <2> QED  BY <2>1
<1> QED
  BY <1>1, <1>2, <1>3, <1>4, <1>5, <1>6, <1>7, <1>8, <1>9, <1>10, <1>11, <1>12, <1>13, <1>14,
     <1>15, <1>16, <1>17, <1>18, <1>19, <1>20, <1>21, <1>22, <1>23, <1>24, <1>25, <1>26,
     <1>27, <1>28, <1>29 DEF Step, ThreadStep, Client, PollStep, DpcStep

\* The channel a poll is at is not one that a flush has set aside.
LEMMA DeliverStep ==
  ASSUME OneCpu, QuietRelease, TypeOK, ListInv, FollowInv, Sound, Step PROVE DeliverInv'
<1> USE DEF TypeOK, TypeObjects, TypeHyper, TypePolls, TypeDpcs, TypeThreads,
   FollowInv, DeliverInv, Delivering, KeepsHeld
<1>0. KeepsHeld  BY HeldStep
<1>1. ASSUME NEW c \in Channel, HvSend(c) PROVE DeliverInv'
  BY <1>1, EvtchnAssumption, <1>0 DEF HvSend, HvNotify, objects, hyper, polls, dpcs, threads,
     globals
<1>2. ASSUME NEW t \in Thread, EvtchnBindStore(t) PROVE DeliverInv'
  BY <1>2, EvtchnAssumption, <1>0 DEF EvtchnBindStore, Finish, Begin, Goto, objects, hyper,
     polls, dpcs, threads, globals
<1>3. ASSUME NEW t \in Thread, EvtchnUnmaskTest(t) PROVE DeliverInv'
  BY <1>3, EvtchnAssumption, <1>0 DEF EvtchnUnmaskTest, EventChannelUnmask, HvNotify, Finish,
     Begin, Goto, objects, hyper, polls, dpcs, threads, globals
<1>4. ASSUME NEW t \in Thread, EvtchnCloseRemove(t) PROVE DeliverInv'
  BY <1>4, EvtchnAssumption, <1>0 DEF EvtchnCloseRemove, Finish, Begin, Goto, objects, hyper,
     polls, dpcs, threads, globals
<1>5. ASSUME NEW t \in Thread, EvtchnCloseMark(t) PROVE DeliverInv'
  BY <1>5, EvtchnAssumption, <1>0 DEF EvtchnCloseMark, Finish, Begin, Goto, objects, hyper,
     polls, dpcs, threads, globals
<1>6. ASSUME NEW t \in Thread, pc[t] = "trigger" /\ EvtchnTrigger(t, handle[t]) PROVE DeliverInv'
  BY <1>6, EvtchnAssumption, <1>0 DEF EvtchnTrigger, Usable, Finish, Begin, Goto, objects,
     hyper, polls, dpcs, threads, globals
<1>7. ASSUME NEW t \in Thread, EvtchnTriggerQueue(t) PROVE DeliverInv'
  BY <1>7, EvtchnAssumption, <1>0 DEF EvtchnTriggerQueue, InterruptLockFree, Finish, Begin,
     Goto, objects, hyper, polls, dpcs, threads, globals
<1>8. ASSUME NEW t \in Thread, NEW c \in Channel, NEW v \in Cpu, EvtchnOpen(t, c, v) PROVE DeliverInv'
  BY <1>8, EvtchnAssumption, <1>0 DEF EvtchnOpen, EvtchnOpenVirq, objects, hyper, polls, dpcs,
     threads, globals
<1>9. ASSUME NEW t \in Thread, NEW c \in Channel, NEW p \in Cpu, EvtchnBind(t, c, p) PROVE DeliverInv'
  BY <1>9, EvtchnAssumption, <1>0 DEF EvtchnBind, Usable, Finish, Begin, Goto, objects, hyper,
     polls, dpcs, threads, globals
<1>10. ASSUME NEW t \in Thread, NEW c \in Channel, EvtchnUnmask(t, c) PROVE DeliverInv'
  BY <1>10, EvtchnAssumption, <1>0 DEF EvtchnUnmask, Usable, Finish, Begin, Goto, objects,
     hyper, polls, dpcs, threads, globals
<1>11. ASSUME NEW t \in Thread, NEW c \in Channel, pc[t] = "idle" /\ EvtchnTrigger(t, c) PROVE DeliverInv'
  BY <1>11, EvtchnAssumption, <1>0 DEF EvtchnTrigger, Usable, Finish, Begin, Goto, objects,
     hyper, polls, dpcs, threads, globals
<1>12. ASSUME NEW t \in Thread, NEW c \in Channel, EvtchnClose(t, c) PROVE DeliverInv'
  BY <1>12, EvtchnAssumption, <1>0 DEF EvtchnClose, Usable, Finish, Begin, Goto, objects,
     hyper, polls, dpcs, threads, globals
<1>13. ASSUME NEW t \in Thread, NEW c \in Channel, EvtchnCloseInactive(t, c) PROVE DeliverInv'
  <2>1. ~Held(c) /\ c \notin closed  BY <1>13 DEF EvtchnCloseInactive, Usable, Held
  <2>2. Delivering(Cpu0) => cur[Cpu0] # c  BY <2>1
  <2> QED  BY <1>13, <1>0, <2>2 DEF EvtchnCloseInactive, Usable, EvtchnReap, objects, hyper,
     polls, dpcs, threads, globals
<1>14. ASSUME NEW p \in Cpu, EvtchnInterruptCallback(p) PROVE DeliverInv'
  BY <1>14, EvtchnAssumption, <1>0 DEF EvtchnInterruptCallback, InterruptLockFree, BeginPoll,
     Visited, objects, hyper, polls, dpcs, threads, globals
<1>15. ASSUME NEW p \in Cpu, PollLookup(p) PROVE DeliverInv'
  <2>1. PICK c \in todo[p] : PollLookup(p)!2!(c)  BY <1>15 DEF PollLookup
  <2>2. p = Cpu0 /\ UNCHANGED <<alloc, reap, suspends>>
    BY <1>15, <2>1, EvtchnAssumption DEF AtCpu0, PollLookup, objects, dpcs, globals
  <2>3. c \in table => Held(c) /\ c \in alloc /\ c \notin reap[p]
    BY <2>2 DEF TableInv, Held, EntriesInv
  <2>4. Delivering(p)' => c \in table /\ cur'[p] = c
    BY <1>15, <2>1 DEF PollLookup
  <2> QED  BY <1>0, <2>2, <2>3, <2>4
<1>16. ASSUME NEW p \in Cpu, EvtchnPollCallback(p) PROVE DeliverInv'
  BY <1>16, EvtchnAssumption, <1>0 DEF EvtchnPollCallback, objects, hyper, polls, dpcs,
     threads, globals
<1>17. ASSUME NEW p \in Cpu, PollScanned(p) PROVE DeliverInv'
  BY <1>17, EvtchnAssumption, <1>0 DEF PollScanned, objects, hyper, polls, dpcs, threads,
     globals
<1>18. ASSUME NEW p \in Cpu, EvtchnPoll(p) PROVE DeliverInv'
  <2>1. PICK c \in work[p] : EvtchnPoll(p)!2!(c)  BY <1>18 DEF EvtchnPoll
  <2>2. p = Cpu0 /\ UNCHANGED <<alloc, suspends>>
    BY <1>18, <2>1, EvtchnAssumption DEF AtCpu0, EvtchnPoll, globals
  <2>3. c \in queue[p] /\ poll[p] = "loop"  BY <1>18, <2>1 DEF ListInv, SnapshotInv, EvtchnPoll
  <2>4. c \in alloc /\ Held(c) /\ c \notin reap[p]
    BY <2>2, <2>3 DEF EntriesInv, ListInv, PendingInv
  <2>5. Delivering(p)' => cur'[p] = c /\ reap' = reap  BY <1>18, <2>1, <2>3 DEF EvtchnPoll
  <2> QED  BY <1>0, <2>2, <2>4, <2>5
<1>19. ASSUME NEW p \in Cpu, PollAck(p) PROVE DeliverInv'
  BY <1>19, EvtchnAssumption, <1>0 DEF PollAck, objects, hyper, polls, dpcs, threads, globals
<1>20. ASSUME NEW p \in Cpu, PollCallback(p) PROVE DeliverInv'
  BY <1>20, EvtchnAssumption, <1>0 DEF PollCallback, EventChannelUnmask, HvNotify, objects,
     hyper, polls, dpcs, threads, globals
<1>21. ASSUME NEW p \in Cpu, PollDone(p) PROVE DeliverInv'
  BY <1>21, EvtchnAssumption, <1>0 DEF PollDone, BeginPoll, Visited, InFlush, objects, hyper,
     polls, dpcs, threads, globals
<1>22. ASSUME NEW p \in Cpu, DpcStart(p) PROVE DeliverInv'
  BY <1>22, EvtchnAssumption, <1>0 DEF DpcStart, objects, hyper, polls, dpcs, threads, globals
<1>23. ASSUME NEW p \in Cpu, EvtchnDpc(p) PROVE DeliverInv'
  BY <1>23, EvtchnAssumption, <1>0 DEF EvtchnDpc, objects, hyper, polls, dpcs, threads, globals
<1>24. ASSUME NEW p \in Cpu, EvtchnFlush(p) PROVE DeliverInv'
  BY <1>24, EvtchnAssumption, <1>0 DEF EvtchnFlush, InterruptLockFree, BeginPoll, Visited,
     objects, hyper, polls, dpcs, threads, globals
<1>25. ASSUME NEW p \in Cpu, EvtchnFlushReap(p) PROVE DeliverInv'
  <2>1. PICK c \in reap[p] : EvtchnFlushReap(p)!2!(c)  BY <1>25 DEF EvtchnFlushReap
  <2>2. p = Cpu0 /\ c \in closed /\ c \in Channel  BY <2>1, EvtchnAssumption DEF AtCpu0,
     EntriesInv
  <2>3. Delivering(p) => cur[p] # c  BY <2>1, <2>2
  <2> QED  BY <1>25, <1>0, <2>1, <2>2, <2>3 DEF EvtchnFlushReap, EvtchnReap, objects, hyper,
     polls, dpcs, threads, globals
<1>26. ASSUME NEW p \in Cpu, DpcDone(p) PROVE DeliverInv'
  BY <1>26, EvtchnAssumption, <1>0 DEF DpcDone, objects, hyper, polls, dpcs, threads, globals
<1>27. ASSUME EvtchnSuspend PROVE DeliverInv'
  BY <1>27, EvtchnAssumption, <1>0 DEF EvtchnSuspend, Captured, EvtchnSuspendCallbackEarly,
     EvtchnSuspendCallbackLate, EvtchnAbiRelease, objects, hyper, polls, dpcs, threads,
     globals
<1>28. ASSUME EvtchnAcquire PROVE DeliverInv'
  BY <1>28, EvtchnAssumption, <1>0 DEF EvtchnAcquire, objects, hyper, polls, dpcs, threads,
     globals
<1>29. ASSUME EvtchnRelease PROVE DeliverInv'
  BY <1>29, EvtchnAssumption, <1>0 DEF EvtchnRelease, EvtchnAbiRelease, InterruptLockFree,
     ContextLockFree, objects, hyper, polls, dpcs, threads, globals
<1> QED
  BY <1>1, <1>2, <1>3, <1>4, <1>5, <1>6, <1>7, <1>8, <1>9, <1>10, <1>11, <1>12, <1>13, <1>14,
     <1>15, <1>16, <1>17, <1>18, <1>19, <1>20, <1>21, <1>22, <1>23, <1>24, <1>25, <1>26,
     <1>27, <1>28, <1>29 DEF Step, ThreadStep, Client, PollStep, DpcStep

\* Every step keeps FollowInv ...
LEMMA FollowStep == ASSUME OneCpu, QuietRelease, TypeOK, ListInv, FollowInv, [Next]_vars PROVE FollowInv'
<1>1. CASE Next
  BY <1>1, AtCpu0Step, HandleStep, TableStep, EntriesStep, DeliverStep DEF Next, FollowInv
<1>2. CASE UNCHANGED vars
  BY <1>2 DEF vars, objects, hyper, polls, dpcs, threads, globals, FollowInv, AtCpu0,
     HandleInv, TableInv,
     EntriesInv, DeliverInv, Delivering, Held
<1> QED  BY <1>1, <1>2

\* Nothing that EvtchnPoll or EvtchnFlush follows has been freed: the entries it
\* saved are on the list, the list has only allocated channels, and so is the
\* channel it looked up or delivers; for any number of channels, threads and
\* processors, in both ABIs and across suspends.  The channels of one processor
\* are assumed (OneCpu) and that the last release meets no running upcall; where
\* clients bind channels to several processors the theorem is false.
THEOREM PollsSafe == ASSUME OneCpu, QuietRelease PROVE Spec => []PollSafe
<1>1. Init => FollowInv
  BY EvtchnAssumption DEF Init, FollowInv, AtCpu0, HandleInv, TableInv, EntriesInv,
     DeliverInv, Delivering
<1>2. TypeOK /\ ListInv /\ FollowInv /\ [Next]_vars => FollowInv'
  BY FollowStep
<1>3. PendingInv /\ SnapshotInv => ListInv
  BY DEF ListInv
<1>4. TypeOK /\ ListInv /\ FollowInv => PollSafe
  <2>1. ASSUME TypeOK, ListInv, FollowInv PROVE PollSafe
    <3>1. \A p \in Cpu : queue[p] \cup reap[p] \subseteq alloc
      BY <2>1 DEF FollowInv, AtCpu0, EntriesInv
    <3>2. \A p \in Cpu : Delivering(p) => cur[p] \in alloc
      BY <2>1 DEF FollowInv, AtCpu0, DeliverInv
    <3> QED  BY <2>1, <3>1, <3>2 DEF PollSafe, ListInv, NoDanglingEntry, ListFreed,
       PolledLive, PollFreed,
                Delivering
  <2> QED  BY <2>1
<1> QED  BY <1>1, <1>2, <1>3, <1>4, TypeCorrect, ListsSafe, PTL DEF Spec
=====
