------------------------------ MODULE SyncProofs ------------------------------
(* Proofs about Sync for every finite set of processors, every number of   *)
(* suspends, and workers that lag behind arbitrarily (timely is used only  *)
(* for SingleThreaded, which says so itself); about the callbacks that a   *)
(* crash or a debug key runs on the processor that is left; and about the  *)
(* ladders of the interfaces, for every finite set of threads.             *)
EXTENDS Integers, Sync, Debug, Ladder, FiniteSetTheorems, WellFoundedInduction, TLAPS

\* Sets of processors: how one more or one less counts.
LEMMA CpuSets ==
  /\ ProcessorCount \in Nat
  /\ \A S \in SUBSET Cpu :
       /\ Cardinality(S) \in Nat /\ Cardinality(S) <= ProcessorCount
       /\ Cardinality(S) = ProcessorCount => S = Cpu
       /\ \A x \in Cpu : x \notin S => Cardinality(S \cup {x}) = Cardinality(S) + 1
       /\ \A x \in S : Cardinality(S \ {x}) = Cardinality(S) - 1
<1>1. IsFiniteSet(Cpu)  BY SyncAssumption
<1>2. ProcessorCount \in Nat  BY <1>1, FS_CardinalityType DEF ProcessorCount
<1>3. SUFFICES ASSUME NEW S \in SUBSET Cpu
      PROVE /\ Cardinality(S) \in Nat /\ Cardinality(S) <= ProcessorCount
            /\ Cardinality(S) = ProcessorCount => S = Cpu
            /\ \A x \in Cpu : x \notin S => Cardinality(S \cup {x}) = Cardinality(S) + 1
            /\ \A x \in S : Cardinality(S \ {x}) = Cardinality(S) - 1
  BY <1>2
<1>4. IsFiniteSet(S) /\ Cardinality(S) <= ProcessorCount
      /\ (Cardinality(S) = ProcessorCount => S = Cpu)
  BY <1>1, FS_Subset DEF ProcessorCount
<1>5. Cardinality(S) \in Nat  BY <1>4, FS_CardinalityType
<1>6. \A x \in Cpu : x \notin S => Cardinality(S \cup {x}) = Cardinality(S) + 1
  BY <1>4, FS_AddElement
<1>7. \A x \in S : Cardinality(S \ {x}) = Cardinality(S) - 1
  BY <1>4, FS_RemoveElement
<1> QED  BY <1>4, <1>5, <1>6, <1>7

\* One conjunct of the counting per change of a set.
LEMMA CountGrows ==
  ASSUME NEW S \in SUBSET Cpu, NEW T \in SUBSET Cpu, NEW x \in Cpu,
         x \notin S, T = S \cup {x}
  PROVE  Cardinality(T) = Cardinality(S) + 1
BY CpuSets

\* A set of processors that includes another has at least its size.
LEMMA CountMonotone ==
  ASSUME NEW T \in SUBSET Cpu, NEW S \in SUBSET T
  PROVE  Cardinality(S) <= Cardinality(T)
BY SyncAssumption, FS_Subset

\* A set with a member has a size of at least one.
LEMMA CountSome ==
  ASSUME NEW S \in SUBSET Cpu, NEW x \in S
  PROVE  Cardinality(S) >= 1
<1>1. S \ {x} \in SUBSET Cpu  OBVIOUS
<1>2. Cardinality(S \ {x}) \in Nat /\ Cardinality(S) \in Nat  BY <1>1, CpuSets
<1>3. Cardinality(S \ {x}) = Cardinality(S) - 1  BY CpuSets
<1> QED  BY <1>2, <1>3

\* A processor that leaves a set makes it one smaller.
LEMMA CountShrinks ==
  ASSUME NEW S \in SUBSET Cpu, NEW T \in SUBSET Cpu, NEW x \in S, T = S \ {x}
  PROVE  Cardinality(T) = Cardinality(S) - 1
BY CpuSets

-----------------------------------------------------------------------------
(* Types.                                                                  *)

\* The words of sync.c and the program points keep their types.
LEMMA TypeStep == ASSUME TypeOK, [Next]_vars PROVE TypeOK'
<1> USE SyncAssumption DEF TypeOK
<1>1. CASE SyncDisableInterrupts
  BY <1>1 DEF SyncDisableInterrupts, ctx, owners, worker, ran, counts
<1>2. CASE OwnerRaise  BY <1>2 DEF OwnerRaise, Raise, ctx, owners, worker, ran, counts
<1>3. CASE OwnerSpin  BY <1>3 DEF OwnerSpin, BackOff, ctx, owners, worker, ran, counts
<1>4. CASE SchedShutdown  BY <1>4 DEF SchedShutdown, ctx, owners, worker, ran, counts
<1>5. CASE PhaseReset  BY <1>5 DEF PhaseReset, ctx, owners, worker, ran, counts
<1>6. CASE PhaseRun
  BY <1>6 DEF PhaseRun, SuspendEarly, SuspendLate, ctx, owners, worker, ran, counts
<1>7. CASE PhasePost  BY <1>7 DEF PhasePost, ctx, owners, worker, ran, counts
<1>8. CASE PhaseWait  BY <1>8 DEF PhaseWait, NextPhase, ctx, owners, worker, ran, counts
<1>9. CASE SyncRelease  BY <1>9 DEF SyncRelease, ctx, owners, worker, ran, counts
<1>10. ASSUME NEW c \in Cpu, SyncCapture(c) PROVE TypeOK'  BY <1>10 DEF SyncCapture, counts
<1>11. ASSUME NEW c \in Cpu, WorkerStart(c) PROVE TypeOK'
  BY <1>11 DEF WorkerStart, Goto, ctx, owners, worker, ran, counts
<1>12. ASSUME NEW c \in Cpu, WorkerRaise(c) PROVE TypeOK'
  BY <1>12 DEF WorkerRaise, Raise, Asked, Goto, ctx, owners, worker, ran, counts
<1>13. ASSUME NEW c \in Cpu, WorkerSpin(c) PROVE TypeOK'
  BY <1>13 DEF WorkerSpin, BackOff, Goto, ctx, owners, worker, ran, counts
<1>14. ASSUME NEW c \in Cpu, WorkerEarly(c) PROVE TypeOK'
  BY <1>14 DEF WorkerEarly, Asked, Goto, ctx, owners, worker, ran, counts
<1>15. ASSUME NEW c \in Cpu, WorkerEarlyDone(c) PROVE TypeOK'
  BY <1>15 DEF WorkerEarlyDone, SuspendEarly, Goto, ctx, owners, worker, ran, counts
<1>16. ASSUME NEW c \in Cpu, WorkerEnable(c) PROVE TypeOK'
  BY <1>16 DEF WorkerEnable, Asked, Goto, ctx, owners, worker, ran, counts
<1>17. ASSUME NEW c \in Cpu, WorkerLate(c) PROVE TypeOK'
  BY <1>17 DEF WorkerLate, Asked, Goto, ctx, owners, worker, ran, counts
<1>18. ASSUME NEW c \in Cpu, WorkerLateDone(c) PROVE TypeOK'
  BY <1>18 DEF WorkerLateDone, SuspendLate, Goto, ctx, owners, worker, ran, counts
<1>19. ASSUME NEW c \in Cpu, WorkerReread(c) PROVE TypeOK'
  BY <1>19 DEF WorkerReread, Goto, ctx, owners, worker, ran, counts
<1>20. ASSUME NEW c \in Cpu, WorkerExit(c) PROVE TypeOK'
  BY <1>20 DEF WorkerExit, Goto, ctx, owners, worker, ran, counts
<1>21. ASSUME NEW c \in Cpu, SuspendRegister(c) PROVE TypeOK'
  BY <1>21 DEF SuspendRegister, ctx, owners, worker, ran, counts
<1>22. ASSUME NEW c \in Cpu, SuspendRegistered(c) PROVE TypeOK'
  BY <1>22 DEF SuspendRegistered, ctx, owners, worker, ran, counts
<1>23. CASE UNCHANGED vars  BY <1>23 DEF vars, ctx, owners, worker, ran, counts
<1> QED
  BY <1>1, <1>2, <1>3, <1>4, <1>5, <1>6, <1>7, <1>8, <1>9, <1>10, <1>11, <1>12, <1>13,
     <1>14, <1>15, <1>16, <1>17, <1>18, <1>19, <1>20, <1>21, <1>22, <1>23 DEF Next, Owner,
     SyncWorker

\* The state of SyncContext, of its owner and of the workers is well typed, and
\* a capture in progress always has an owner.
THEOREM TypeCorrect == Spec => []TypeOK
<1>1. Init => TypeOK  BY SyncAssumption DEF Init, TypeOK
<1>2. TypeOK /\ [Next]_vars => TypeOK'  BY TypeStep
<1> QED  BY <1>1, <1>2, PTL DEF Spec

-----------------------------------------------------------------------------
(* The counting.                                                           *)

\* Where the owner is while a worker is at a given point.
LEMMA Points ==
  ASSUME TypeOK, RendezvousInv, NEW c \in Cpu
  PROVE  /\ wpc[c] # "none" => opc # "idle" /\ c # SyncOwner
         /\ wpc[c] = "queued" => opc = "capture"
         /\ wpc[c] \in {"early", "late"} => opc = "wait" /\ phase # "EXIT"
         /\ wpc[c] = "spin" => \/ opc \notin {"idle", "capture", "wait"} /\ Request = "DISABLE"
                               \/ opc = "wait" /\ phase # "EXIT"
         /\ wpc[c] = "loop" /\ Request = "EXIT" => opc = "wait" /\ phase = "EXIT"
<1> USE DEF TypeOK, RendezvousInv, WorkersIn
<1>1. wpc[c] # "none" => opc # "idle" /\ c # SyncOwner  BY DEF OwnerInv
<1>2. CASE opc \in {"idle", "capture"}  BY <1>1, <1>2 DEF CaptureInv, OwnerInv
<1>3. CASE opc \in {"raise", "spin", "shutdown"}  BY <1>1, <1>3 DEF DisableInv
<1>4. CASE opc \in {"reset", "run", "post"} /\ Request = "DISABLE"
  BY <1>1, <1>4 DEF DisableInv, DrainInv
<1>5. CASE opc \in {"reset", "run", "post"} /\ Request # "DISABLE"
  BY <1>1, <1>5 DEF SettledInv, Settled
<1>6. CASE opc = "wait"  BY <1>1, <1>6 DEF WaitInv
<1> QED  BY <1>1, <1>2, <1>3, <1>4, <1>5, <1>6

\* No step counts a CPU for a request it has still to carry out.
LEMMA RendezvousStep == ASSUME TypeOK, RendezvousInv, [Next]_vars PROVE RendezvousInv'
<1> USE SyncAssumption DEF TypeOK, RendezvousInv
<1>1. CASE SyncDisableInterrupts
  <2>1. OwnerInv'  BY <1>1 DEF SyncDisableInterrupts, ctx, owners, worker, ran, counts, OwnerInv
  <2>2. CaptureInv'
    BY <1>1 DEF SyncDisableInterrupts, ctx, owners, worker, ran, counts, CaptureInv,
       WorkersIn, Joined
  <2>3. DisableInv'
    <3>1. Joined = Cpu  BY <1>1, CpuSets DEF SyncDisableInterrupts, CaptureInv, Joined
    <3>2. \A w \in Cpu : irql[w] # "high" /\ (w # SyncOwner => wpc[w] = "loop" /\
         seen[w] = "NONE")
      BY <1>1, <3>1 DEF SyncDisableInterrupts, CaptureInv, Joined
    <3>3. High' = {}
      <4>1. irql' = irql  BY <1>1 DEF SyncDisableInterrupts
      <4> QED  BY <3>2, <4>1 DEF High
    <3>4. CompletionCount' = Cardinality(High')
      BY <1>1, <3>3, FS_EmptySet DEF SyncDisableInterrupts
    <3>5. /\ SyncOwner' = SyncOwner /\ irql' = irql /\ wpc' = wpc /\ seen' = seen
          /\ opc' = "raise" /\ Request' = "DISABLE" /\ SyncOwner \in Cpu
          /\ wpc[SyncOwner] = "none"
      BY <1>1 DEF SyncDisableInterrupts, worker, OwnerInv
    <3> QED  BY <3>2, <3>4, <3>5 DEF DisableInv, WorkersIn, Back
  <2>4. DrainInv'
    BY <1>1 DEF SyncDisableInterrupts, ctx, owners, worker, ran, counts, DrainInv,
       WorkersIn, Back, Own
  <2>5. SettledInv'
    BY <1>1 DEF SyncDisableInterrupts, ctx, owners, worker, ran, counts, SettledInv,
       Settled, Own
  <2>6. WaitInv'
    BY <1>1 DEF SyncDisableInterrupts, ctx, owners, worker, ran, counts, WaitInv,
       WorkersIn, Settled, Gone
  <2> QED  BY <2>1, <2>2, <2>3, <2>4, <2>5, <2>6
<1>2. CASE OwnerRaise
  <2>1. OwnerInv'  BY <1>2 DEF OwnerRaise, Raise, ctx, owners, worker, ran, counts, OwnerInv
  <2>2. CaptureInv'
    BY <1>2 DEF OwnerRaise, Raise, ctx, owners, worker, ran, counts, CaptureInv,
       WorkersIn, Joined
  <2>3. DisableInv'
    <3>1. SyncOwner \in Cpu \ High  BY <1>2 DEF OwnerRaise, DisableInv, High
    <3>2. CompletionCount # ProcessorCount
      BY <1>2, <3>1, CpuSets DEF OwnerRaise, DisableInv, High
    <3>3. High' = High \cup {SyncOwner}  BY <1>2, <3>1 DEF OwnerRaise, Raise, High
    <3>4. CompletionCount' = Cardinality(High')
      <4>1. High \in SUBSET Cpu /\ High' \in SUBSET Cpu  BY DEF High
      <4>2. Cardinality(High') = Cardinality(High) + 1  BY <3>1, <3>3, <4>1, CountGrows
      <4> QED  BY <1>2, <4>2 DEF OwnerRaise, Raise, DisableInv
    <3> QED
    
        BY <1>2, <3>1, <3>2, <3>4 DEF OwnerRaise, Raise, worker, OwnerInv,
           DisableInv, WorkersIn, Back
  <2>4. DrainInv'
    BY <1>2 DEF OwnerRaise, Raise, ctx, owners, worker, ran, counts, DrainInv,
       WorkersIn, Back, Own
  <2>5. SettledInv'
    BY <1>2 DEF OwnerRaise, Raise, ctx, owners, worker, ran, counts, SettledInv,
       Settled, Own
  <2>6. WaitInv'
    BY <1>2 DEF OwnerRaise, Raise, ctx, owners, worker, ran, counts, WaitInv, WorkersIn,
       Settled, Gone
  <2> QED  BY <2>1, <2>2, <2>3, <2>4, <2>5, <2>6
<1>3. CASE OwnerSpin
  <2>1. OwnerInv'  BY <1>3 DEF OwnerSpin, BackOff, ctx, owners, worker, ran, counts, OwnerInv
  <2>2. CaptureInv'
    BY <1>3 DEF OwnerSpin, BackOff, ctx, owners, worker, ran, counts, CaptureInv,
       WorkersIn, Joined
  <2>3. DisableInv'
    <3>1. CASE CompletionCount = ProcessorCount
      BY <1>3, <3>1 DEF OwnerSpin, worker, DisableInv, WorkersIn, High, Back
    <3>2. CASE CompletionCount # ProcessorCount
      <4>1. High' = High \ {SyncOwner} /\ SyncOwner \in High
        BY <1>3, <3>2 DEF OwnerSpin, BackOff, DisableInv, High
      <4>2. High \in SUBSET Cpu /\ High' \in SUBSET Cpu  BY DEF High
      <4>3. Cardinality(High') = Cardinality(High) - 1  BY <4>1, <4>2, CountShrinks
      <4>4. CompletionCount' = Cardinality(High')
        BY <1>3, <3>2, <4>3 DEF OwnerSpin, BackOff, DisableInv
      <4> QED
      
          BY <1>3, <3>2, <4>4 DEF OwnerSpin, BackOff, worker, OwnerInv,
             DisableInv, WorkersIn, Back
    <3> QED  BY <3>1, <3>2
  <2>4. DrainInv'
    BY <1>3 DEF OwnerSpin, BackOff, ctx, owners, worker, ran, counts, DrainInv,
       WorkersIn, Back, Own
  <2>5. SettledInv'
    BY <1>3 DEF OwnerSpin, BackOff, ctx, owners, worker, ran, counts, SettledInv,
       Settled, Own
  <2>6. WaitInv'
    BY <1>3 DEF OwnerSpin, BackOff, ctx, owners, worker, ran, counts, WaitInv,
       WorkersIn, Settled, Gone
  <2> QED  BY <2>1, <2>2, <2>3, <2>4, <2>5, <2>6
<1>4. CASE SchedShutdown
  <2>1. OwnerInv'  BY <1>4 DEF SchedShutdown, ctx, owners, worker, ran, counts, OwnerInv
  <2>2. CaptureInv'
    BY <1>4 DEF SchedShutdown, ctx, owners, worker, ran, counts, CaptureInv, WorkersIn,
       Joined
  <2>3. DisableInv'
    BY <1>4 DEF SchedShutdown, ctx, owners, worker, ran, counts, DisableInv, WorkersIn,
       High, Back
  <2>4. DrainInv'
    BY <1>4 DEF SchedShutdown, ctx, owners, worker, ran, counts, DrainInv, WorkersIn,
       Back, Own
  <2>5. SettledInv'  BY <1>4 DEF SchedShutdown, ctx, DisableInv, SettledInv
  <2>6. WaitInv'
    BY <1>4 DEF SchedShutdown, ctx, owners, worker, ran, counts, WaitInv, WorkersIn,
       Settled, Gone
  <2> QED  BY <2>1, <2>2, <2>3, <2>4, <2>5, <2>6
<1>5. CASE PhaseReset
  <2>1. OwnerInv'  BY <1>5 DEF PhaseReset, ctx, owners, worker, ran, counts, OwnerInv
  <2>2. CaptureInv'
    BY <1>5 DEF PhaseReset, ctx, owners, worker, ran, counts, CaptureInv, WorkersIn,
       Joined
  <2>3. DisableInv'
    BY <1>5 DEF PhaseReset, ctx, owners, worker, ran, counts, DisableInv, WorkersIn,
       High, Back
  <2>4. DrainInv'
    <3>1. SUFFICES ASSUME Request = "DISABLE" PROVE DrainInv'
      BY <1>5 DEF PhaseReset, DrainInv
    <3>2. High = Cpu  BY <1>5, <3>1, CpuSets DEF PhaseReset, DisableInv, High
    <3>3. Back' = {}  BY <1>5, <3>1, <3>2 DEF PhaseReset, worker, DisableInv, High, Back
    <3> QED
    
        BY <1>5, <3>1, <3>3, FS_EmptySet DEF PhaseReset, worker, DisableInv,
           DrainInv, WorkersIn, Own
  <2>5. SettledInv'
    BY <1>5 DEF PhaseReset, ctx, owners, worker, ran, counts, SettledInv, Settled, Own
  <2>6. WaitInv'
    BY <1>5 DEF PhaseReset, ctx, owners, worker, ran, counts, WaitInv, WorkersIn,
       Settled, Gone
  <2> QED  BY <2>1, <2>2, <2>3, <2>4, <2>5, <2>6
<1>6. CASE PhaseRun
  <2>1. OwnerInv'
    BY <1>6 DEF PhaseRun, SuspendEarly, SuspendLate, ctx, owners, worker, ran, counts,
       OwnerInv
  <2>2. CaptureInv'
    BY <1>6 DEF PhaseRun, SuspendEarly, SuspendLate, ctx, owners, worker, ran, counts,
       CaptureInv, WorkersIn, Joined
  <2>3. DisableInv'
    BY <1>6 DEF PhaseRun, SuspendEarly, SuspendLate, ctx, owners, worker, ran, counts,
       DisableInv, WorkersIn, High, Back
  <2>4. DrainInv'
    BY <1>6, CpuSets DEF PhaseRun, SuspendEarly, SuspendLate, ctx, owners, worker, ran,
       counts, DrainInv, WorkersIn, Back, Own
  <2>5. SettledInv'
    BY <1>6 DEF PhaseRun, SuspendEarly, SuspendLate, ctx, owners, worker, ran, counts,
       SettledInv, Settled, Own
  <2>6. WaitInv'
    BY <1>6 DEF PhaseRun, SuspendEarly, SuspendLate, ctx, owners, worker, ran, counts,
       WaitInv, WorkersIn, Settled, Gone
  <2> QED  BY <2>1, <2>2, <2>3, <2>4, <2>5, <2>6
<1>7. CASE PhasePost
  <2>1. OwnerInv'  BY <1>7 DEF PhasePost, ctx, owners, worker, ran, counts, OwnerInv
  <2>2. CaptureInv'
    BY <1>7 DEF PhasePost, ctx, owners, worker, ran, counts, CaptureInv, WorkersIn,
       Joined
  <2>3. DisableInv'
    BY <1>7 DEF PhasePost, ctx, owners, worker, ran, counts, DisableInv, WorkersIn,
       High, Back
  <2>4. DrainInv'
    BY <1>7 DEF PhasePost, ctx, owners, worker, ran, counts, DrainInv, WorkersIn, Back,
       Own
  <2>5. SettledInv'
    BY <1>7 DEF PhasePost, ctx, owners, worker, ran, counts, SettledInv, Settled, Own
  <2>6. WaitInv'
    <3>1. Cardinality(Back) \in Nat  BY CpuSets DEF Back
    <3>2. CompletionCount' <= 1
      BY <1>7, <3>1 DEF PhasePost, DrainInv, SettledInv, Own
    <3>3. SyncOwner \in Settled' /\ SyncOwner \in Gone'  BY <1>7 DEF PhasePost, Settled, Gone
    <3>4. Settled' \in SUBSET Cpu /\ Gone' \in SUBSET Cpu  BY DEF Settled, Gone
    <3>5. Cardinality(Settled') >= 1 /\ Cardinality(Gone') >= 1  BY <3>3, <3>4, CountSome
    <3>6. Cardinality(Settled') \in Nat /\ Cardinality(Gone') \in Nat  BY <3>4, CpuSets
    <3>7. CompletionCount' <= Cardinality(Settled') /\ CompletionCount' <= Cardinality(Gone')
      BY <1>7, <3>2, <3>5, <3>6 DEF PhasePost
    <3>8. WorkersIn({"loop", "spin", "reread"})'
      BY <1>7 DEF PhasePost, worker, DrainInv, SettledInv, Settled, WorkersIn
    <3>9. phase = "EXIT" => WorkersIn({"loop", "reread", "none"})'
      BY <1>7 DEF PhasePost, worker, DrainInv, SettledInv, Settled, WorkersIn
    <3> QED  BY <1>7, <3>7, <3>8, <3>9 DEF PhasePost, WaitInv, WorkersIn
  <2> QED  BY <2>1, <2>2, <2>3, <2>4, <2>5, <2>6
<1>8. CASE PhaseWait
  <2>1. OwnerInv'  BY <1>8 DEF PhaseWait, NextPhase, ctx, owners, worker, ran, counts, OwnerInv
  <2>2. CaptureInv'
    BY <1>8 DEF PhaseWait, NextPhase, ctx, owners, worker, ran, counts, CaptureInv,
       WorkersIn, Joined
  <2>3. DisableInv'  BY <1>8 DEF PhaseWait, ctx, WaitInv, DisableInv
  <2>4. DrainInv'
    BY <1>8 DEF PhaseWait, NextPhase, ctx, owners, worker, ran, counts, DrainInv,
       WorkersIn, Back, Own
  <2>5. SettledInv'
    <3>1. Settled = Cpu  BY <1>8, CpuSets DEF PhaseWait, WaitInv, Settled
    <3>2. Settled' = Cpu  BY <1>8, <3>1 DEF PhaseWait, ctx, worker, Settled
    <3> QED  BY <1>8, <3>2 DEF PhaseWait, ctx, WaitInv, SettledInv
  <2>6. WaitInv'
    BY <1>8 DEF PhaseWait, NextPhase, ctx, owners, worker, ran, counts, WaitInv,
       WorkersIn, Settled, Gone
  <2> QED  BY <2>1, <2>2, <2>3, <2>4, <2>5, <2>6
<1>9. CASE SyncRelease
  <2>1. OwnerInv'
    <3>1. Gone = Cpu  BY <1>9, CpuSets DEF SyncRelease, WaitInv, Gone
    <3> QED  BY <1>9, <3>1 DEF SyncRelease, worker, OwnerInv, Gone
  <2>2. CaptureInv'
    BY <1>9 DEF SyncRelease, ctx, owners, worker, ran, counts, CaptureInv, WorkersIn,
       Joined
  <2>3. DisableInv'
    BY <1>9 DEF SyncRelease, ctx, owners, worker, ran, counts, DisableInv, WorkersIn,
       High, Back
  <2>4. DrainInv'
    BY <1>9 DEF SyncRelease, ctx, owners, worker, ran, counts, DrainInv, WorkersIn,
       Back, Own
  <2>5. SettledInv'
    BY <1>9 DEF SyncRelease, ctx, owners, worker, ran, counts, SettledInv, Settled, Own
  <2>6. WaitInv'
    BY <1>9 DEF SyncRelease, ctx, owners, worker, ran, counts, WaitInv, WorkersIn,
       Settled, Gone
  <2> QED  BY <2>1, <2>2, <2>3, <2>4, <2>5, <2>6
<1>10. ASSUME NEW c \in Cpu, SyncCapture(c) PROVE RendezvousInv'
  <2>1. OwnerInv'  BY <1>10 DEF SyncCapture, counts, OwnerInv
  <2>2. CaptureInv'
    <3>1. Joined' = {c}  BY <1>10 DEF SyncCapture, Joined
    <3>2. Cardinality(Joined') = 1  BY <3>1, FS_Singleton
    <3> QED  BY <1>10, <3>1, <3>2 DEF SyncCapture, OwnerInv, CaptureInv, WorkersIn
  <2>3. DisableInv'  BY <1>10 DEF SyncCapture, counts, DisableInv, WorkersIn, High, Back
  <2>4. DrainInv'  BY <1>10 DEF SyncCapture, counts, DrainInv, WorkersIn, Back, Own
  <2>5. SettledInv'  BY <1>10 DEF SyncCapture, counts, SettledInv, Settled, Own
  <2>6. WaitInv'  BY <1>10 DEF SyncCapture, counts, WaitInv, WorkersIn, Settled, Gone
  <2> QED  BY <2>1, <2>2, <2>3, <2>4, <2>5, <2>6
<1>11. ASSUME NEW c \in Cpu, WorkerStart(c) PROVE RendezvousInv'
  <2>1. OwnerInv'  BY <1>11 DEF WorkerStart, Goto, ctx, owners, worker, ran, counts, OwnerInv
  <2>2. CaptureInv'
    <3>1. opc = "capture" /\ c # SyncOwner  BY <1>11, Points DEF WorkerStart
    <3>2. Joined' = Joined \cup {c} /\ c \notin Joined
      BY <1>11, <3>1 DEF WorkerStart, Goto, Joined
    <3>3. Joined \in SUBSET Cpu /\ Joined' \in SUBSET Cpu  BY DEF Joined
    <3>4. Cardinality(Joined') = Cardinality(Joined) + 1  BY <3>2, <3>3, CountGrows
    <3>5. CompletionCount' = Cardinality(Joined')
      BY <1>11, <3>1, <3>4 DEF WorkerStart, CaptureInv
    <3> QED
      BY <1>11, <3>1, <3>2, <3>5 DEF WorkerStart, Goto, owners, CaptureInv, WorkersIn, Joined
  <2>3. DisableInv'  BY <1>11, Points DEF WorkerStart, owners, DisableInv
  <2>4. DrainInv'  BY <1>11, Points DEF WorkerStart, owners, DrainInv
  <2>5. SettledInv'  BY <1>11, Points DEF WorkerStart, owners, SettledInv
  <2>6. WaitInv'  BY <1>11, Points DEF WorkerStart, owners, WaitInv
  <2> QED  BY <2>1, <2>2, <2>3, <2>4, <2>5, <2>6
<1>12. ASSUME NEW c \in Cpu, WorkerRaise(c) PROVE RendezvousInv'
  <2>1. OwnerInv'
    BY <1>12 DEF WorkerRaise, Raise, Asked, Goto, ctx, owners, worker, ran, counts,
       OwnerInv
  <2>2. CaptureInv'
    BY <1>12 DEF WorkerRaise, Raise, Asked, Goto, ctx, owners, worker, ran, counts,
       CaptureInv, WorkersIn, Joined
  <2>3. DisableInv'
    <3>1. SUFFICES ASSUME opc \in {"raise", "spin", "shutdown", "reset"} PROVE DisableInv'
      BY <1>12 DEF WorkerRaise, owners, DisableInv
    <3>2. c \in Back /\ c # SyncOwner  BY <1>12, Points DEF WorkerRaise, Asked, Back
    <3>3. c \in Cpu \ High  BY <1>12, <3>1, <3>2 DEF WorkerRaise, Asked, DisableInv, High
    <3>4. CompletionCount # ProcessorCount
      BY <1>12, <3>1, <3>3, CpuSets DEF WorkerRaise, Asked, DisableInv, High
    <3>5. High' = High \cup {c}  BY <1>12 DEF WorkerRaise, Raise, High
    <3>6. High \in SUBSET Cpu /\ High' \in SUBSET Cpu  BY DEF High
    <3>7. Cardinality(High') = Cardinality(High) + 1  BY <3>3, <3>5, <3>6, CountGrows
    <3>8. CompletionCount' = Cardinality(High')
      BY <1>12, <3>1, <3>7 DEF WorkerRaise, Raise, Asked, DisableInv
    <3> QED
      BY <1>12, <3>1, <3>2, <3>4, <3>8
      DEF WorkerRaise, Raise, Asked, Goto, owners, DisableInv, WorkersIn, Back
  <2>4. DrainInv'
    BY <1>12, CpuSets DEF WorkerRaise, Raise, Asked, Goto, ctx, owners, worker, ran,
       counts, DrainInv, WorkersIn, Back, Own
  <2>5. SettledInv'
    BY <1>12 DEF WorkerRaise, Raise, Asked, Goto, ctx, owners, worker, ran, counts,
       SettledInv, Settled, Own
  <2>6. WaitInv'
    BY <1>12 DEF WorkerRaise, Raise, Asked, Goto, ctx, owners, worker, ran, counts,
       WaitInv, WorkersIn, Settled, Gone
  <2> QED  BY <2>1, <2>2, <2>3, <2>4, <2>5, <2>6
<1>13. ASSUME NEW c \in Cpu, WorkerSpin(c) PROVE RendezvousInv'
  <2>1. OwnerInv'
    BY <1>13 DEF WorkerSpin, BackOff, Goto, ctx, owners, worker, ran, counts, OwnerInv
  <2>2. CaptureInv'  BY <1>13, Points DEF WorkerSpin, owners, CaptureInv
  <2>3. DisableInv'
    <3>1. SUFFICES ASSUME opc \in {"raise", "spin", "shutdown", "reset"}, Request = "DISABLE"
          PROVE  DisableInv'
      BY <1>13, Points DEF WorkerSpin, owners, DisableInv
    <3>2. c # SyncOwner /\ c \in High /\ seen[c] # "DISABLE"
      BY <1>13, <3>1, Points DEF WorkerSpin, DisableInv, High
    <3>3. CASE CompletionCount = ProcessorCount
      BY <1>13, <3>1, <3>2, <3>3 DEF WorkerSpin, Goto, owners, DisableInv, WorkersIn, High, Back
    <3>4. CASE CompletionCount # ProcessorCount
      <4>1. High' = High \ {c}  BY <1>13, <3>4 DEF WorkerSpin, BackOff, High
      <4>2. High \in SUBSET Cpu /\ High' \in SUBSET Cpu  BY DEF High
      <4>3. Cardinality(High') = Cardinality(High) - 1  BY <3>2, <4>1, <4>2, CountShrinks
      <4>4. CompletionCount' = Cardinality(High')
        BY <1>13, <3>1, <3>4, <4>3 DEF WorkerSpin, BackOff, DisableInv
      <4> QED
        BY <1>13, <3>1, <3>2, <3>4, <4>4
        DEF WorkerSpin, BackOff, Goto, owners, DisableInv, WorkersIn, Back
    <3> QED  BY <3>3, <3>4
  <2>4. DrainInv'
    <3>1. SUFFICES ASSUME opc \in {"run", "post"}, Request = "DISABLE" PROVE DrainInv'
      BY <1>13 DEF WorkerSpin, owners, DrainInv
    <3>2. c \notin Back  BY <1>13 DEF WorkerSpin, Back
    <3>3. Back \in SUBSET Cpu /\ Back' \in SUBSET Cpu  BY DEF Back
    <3>4. Cardinality(Back) \in Nat /\ Cardinality(Back') \in Nat  BY <3>3, CpuSets
    <3>5. CASE CompletionCount = ProcessorCount
      <4>1. Back' = Back  BY <1>13, <3>5 DEF WorkerSpin, Goto, Back
      <4> QED
        BY <1>13, <3>1, <3>5, <4>1 DEF WorkerSpin, Goto, owners, DrainInv, WorkersIn, Own
    <3>6. CASE CompletionCount # ProcessorCount
      <4>1. Back' = Back \/ Back' = Back \cup {c}
        BY <1>13, <3>6 DEF WorkerSpin, Goto, Back
      <4>2. Cardinality(Back') <= Cardinality(Back) + 1
        BY <3>2, <3>3, <3>4, <4>1, CountGrows
      <4>3. CompletionCount' = CompletionCount - 1  BY <1>13, <3>6 DEF WorkerSpin, BackOff
      <4>4. CompletionCount' + Cardinality(Back') <= Own'
        BY <1>13, <3>1, <3>4, <4>2, <4>3 DEF WorkerSpin, owners, DrainInv, Own
      <4> QED
        BY <1>13, <3>1, <3>6, <4>4 DEF WorkerSpin, Goto, owners, DrainInv, WorkersIn
    <3> QED  BY <3>5, <3>6
  <2>5. SettledInv'  BY <1>13, Points DEF WorkerSpin, owners, SettledInv
  <2>6. WaitInv'
    <3>1. SUFFICES ASSUME opc = "wait" PROVE WaitInv'  BY <1>13 DEF WorkerSpin, owners, WaitInv
    <3>2. phase # "EXIT"  BY <1>13, <3>1, Points DEF WorkerSpin
    <3>3. Settled \in SUBSET Settled' /\ Settled' \in SUBSET Cpu
      BY <1>13 DEF WorkerSpin, Goto, Settled
    <3>4. Cardinality(Settled) <= Cardinality(Settled')  BY <3>3, CountMonotone
    <3>5. Cardinality(Settled) \in Nat /\ Cardinality(Settled') \in Nat
      BY <3>3, CpuSets
    <3>6. CompletionCount' <= CompletionCount  BY <1>13 DEF WorkerSpin, BackOff
    <3>7. CompletionCount' \in Int  BY <1>13 DEF WorkerSpin, BackOff
    <3>8. CompletionCount' <= Cardinality(Settled')
      BY <3>1, <3>2, <3>4, <3>5, <3>6, <3>7 DEF WaitInv
    <3> QED
      BY <1>13, <3>1, <3>2, <3>8 DEF WorkerSpin, Goto, owners, WaitInv, WorkersIn
  <2> QED  BY <2>1, <2>2, <2>3, <2>4, <2>5, <2>6
<1>14. ASSUME NEW c \in Cpu, WorkerEarly(c) PROVE RendezvousInv'
  <2>1. OwnerInv'
    BY <1>14 DEF WorkerEarly, Asked, Goto, ctx, owners, worker, ran, counts, OwnerInv
  <2>2. CaptureInv'
    BY <1>14 DEF WorkerEarly, Asked, Goto, ctx, owners, worker, ran, counts, CaptureInv,
       WorkersIn, Joined
  <2>3. DisableInv'
    BY <1>14 DEF WorkerEarly, Asked, Goto, ctx, owners, worker, ran, counts, DisableInv,
       WorkersIn, High, Back
  <2>4. DrainInv'
    BY <1>14 DEF WorkerEarly, Asked, Goto, ctx, owners, worker, ran, counts, DrainInv,
       WorkersIn, Back, Own
  <2>5. SettledInv'
    BY <1>14 DEF WorkerEarly, Asked, Goto, ctx, owners, worker, ran, counts, SettledInv,
       Settled, Own
  <2>6. WaitInv'
    BY <1>14 DEF WorkerEarly, Asked, Goto, ctx, owners, worker, ran, counts, WaitInv,
       WorkersIn, Settled, Gone
  <2> QED  BY <2>1, <2>2, <2>3, <2>4, <2>5, <2>6
<1>15. ASSUME NEW c \in Cpu, WorkerEarlyDone(c) PROVE RendezvousInv'
  <2>1. OwnerInv'
    BY <1>15 DEF WorkerEarlyDone, SuspendEarly, Goto, ctx, owners, worker, ran, counts,
       OwnerInv
  <2>2. CaptureInv'  BY <1>15, Points DEF WorkerEarlyDone, owners, CaptureInv
  <2>3. DisableInv'  BY <1>15, Points DEF WorkerEarlyDone, owners, DisableInv
  <2>4. DrainInv'  BY <1>15, Points DEF WorkerEarlyDone, owners, DrainInv
  <2>5. SettledInv'  BY <1>15, Points DEF WorkerEarlyDone, owners, SettledInv
  <2>6. WaitInv'
    <3>1. opc = "wait" /\ phase # "EXIT" /\ c # SyncOwner  BY <1>15, Points DEF WorkerEarlyDone
    <3>2. Settled' = Settled \cup {c} /\ c \notin Settled
      BY <1>15, <3>1 DEF WorkerEarlyDone, Goto, Settled
    <3>3. Settled \in SUBSET Cpu /\ Settled' \in SUBSET Cpu  BY DEF Settled
    <3>4. Cardinality(Settled') = Cardinality(Settled) + 1  BY <3>2, <3>3, CountGrows
    <3>5. Cardinality(Settled) \in Nat  BY <3>3, CpuSets
    <3>6. CompletionCount' <= Cardinality(Settled')
      BY <1>15, <3>1, <3>4, <3>5 DEF WorkerEarlyDone, WaitInv
    <3> QED  BY <1>15, <3>1, <3>6 DEF WorkerEarlyDone, Goto, owners, WaitInv, WorkersIn
  <2> QED  BY <2>1, <2>2, <2>3, <2>4, <2>5, <2>6
<1>16. ASSUME NEW c \in Cpu, WorkerEnable(c) PROVE RendezvousInv'
  <2>1. OwnerInv'
    BY <1>16 DEF WorkerEnable, Asked, Goto, ctx, owners, worker, ran, counts, OwnerInv
  <2>2. CaptureInv'
    BY <1>16 DEF WorkerEnable, Asked, Goto, ctx, owners, worker, ran, counts,
       CaptureInv, WorkersIn, Joined
  <2>3. DisableInv'
    BY <1>16 DEF WorkerEnable, Asked, Goto, ctx, owners, worker, ran, counts,
       DisableInv, WorkersIn, High, Back
  <2>4. DrainInv'
    BY <1>16 DEF WorkerEnable, Asked, Goto, ctx, owners, worker, ran, counts, DrainInv,
       WorkersIn, Back, Own
  <2>5. SettledInv'
    <3>1. Request = "ENABLE" /\ c \notin Settled
      BY <1>16, Points DEF WorkerEnable, Asked, Settled
    <3> QED  BY <1>16, <3>1 DEF WorkerEnable, owners, SettledInv
  <2>6. WaitInv'
    <3>1. SUFFICES ASSUME opc = "wait" PROVE WaitInv'
      BY <1>16 DEF WorkerEnable, owners, WaitInv
    <3>2. phase = "ENABLE" /\ c # SyncOwner
      BY <1>16, <3>1, Points DEF WorkerEnable, Asked, WaitInv
    <3>3. Settled' = Settled \cup {c} /\ c \notin Settled
      BY <1>16, <3>2 DEF WorkerEnable, Asked, Goto, Settled
    <3>4. Settled \in SUBSET Cpu /\ Settled' \in SUBSET Cpu  BY DEF Settled
    <3>5. Cardinality(Settled') = Cardinality(Settled) + 1  BY <3>3, <3>4, CountGrows
    <3>6. Cardinality(Settled) \in Nat  BY <3>4, CpuSets
    <3>7. CompletionCount' <= Cardinality(Settled')
      BY <1>16, <3>1, <3>2, <3>5, <3>6 DEF WorkerEnable, WaitInv
    <3> QED
      BY <1>16, <3>1, <3>2, <3>7 DEF WorkerEnable, Asked, Goto, owners, WaitInv,
         WorkersIn
  <2> QED  BY <2>1, <2>2, <2>3, <2>4, <2>5, <2>6
<1>17. ASSUME NEW c \in Cpu, WorkerLate(c) PROVE RendezvousInv'
  <2>1. OwnerInv'
    BY <1>17 DEF WorkerLate, Asked, Goto, ctx, owners, worker, ran, counts, OwnerInv
  <2>2. CaptureInv'
    BY <1>17 DEF WorkerLate, Asked, Goto, ctx, owners, worker, ran, counts, CaptureInv,
       WorkersIn, Joined
  <2>3. DisableInv'
    BY <1>17 DEF WorkerLate, Asked, Goto, ctx, owners, worker, ran, counts, DisableInv,
       WorkersIn, High, Back
  <2>4. DrainInv'
    BY <1>17 DEF WorkerLate, Asked, Goto, ctx, owners, worker, ran, counts, DrainInv,
       WorkersIn, Back, Own
  <2>5. SettledInv'
    BY <1>17 DEF WorkerLate, Asked, Goto, ctx, owners, worker, ran, counts, SettledInv,
       Settled, Own
  <2>6. WaitInv'
    BY <1>17 DEF WorkerLate, Asked, Goto, ctx, owners, worker, ran, counts, WaitInv,
       WorkersIn, Settled, Gone
  <2> QED  BY <2>1, <2>2, <2>3, <2>4, <2>5, <2>6
<1>18. ASSUME NEW c \in Cpu, WorkerLateDone(c) PROVE RendezvousInv'
  <2>1. OwnerInv'
    BY <1>18 DEF WorkerLateDone, SuspendLate, Goto, ctx, owners, worker, ran, counts,
       OwnerInv
  <2>2. CaptureInv'  BY <1>18, Points DEF WorkerLateDone, owners, CaptureInv
  <2>3. DisableInv'  BY <1>18, Points DEF WorkerLateDone, owners, DisableInv
  <2>4. DrainInv'  BY <1>18, Points DEF WorkerLateDone, owners, DrainInv
  <2>5. SettledInv'  BY <1>18, Points DEF WorkerLateDone, owners, SettledInv
  <2>6. WaitInv'
    <3>1. opc = "wait" /\ phase # "EXIT" /\ c # SyncOwner  BY <1>18, Points DEF WorkerLateDone
    <3>2. Settled' = Settled \cup {c} /\ c \notin Settled
      BY <1>18, <3>1 DEF WorkerLateDone, Goto, Settled
    <3>3. Settled \in SUBSET Cpu /\ Settled' \in SUBSET Cpu  BY DEF Settled
    <3>4. Cardinality(Settled') = Cardinality(Settled) + 1  BY <3>2, <3>3, CountGrows
    <3>5. Cardinality(Settled) \in Nat  BY <3>3, CpuSets
    <3>6. CompletionCount' <= Cardinality(Settled')
      BY <1>18, <3>1, <3>4, <3>5 DEF WorkerLateDone, WaitInv
    <3> QED  BY <1>18, <3>1, <3>6 DEF WorkerLateDone, Goto, owners, WaitInv, WorkersIn
  <2> QED  BY <2>1, <2>2, <2>3, <2>4, <2>5, <2>6
<1>19. ASSUME NEW c \in Cpu, WorkerReread(c) PROVE RendezvousInv'
  <2>1. OwnerInv'  BY <1>19 DEF WorkerReread, Goto, ctx, owners, worker, ran, counts, OwnerInv
  <2>2. CaptureInv'
    BY <1>19 DEF WorkerReread, Goto, ctx, owners, worker, ran, counts, CaptureInv,
       WorkersIn, Joined
  <2>3. DisableInv'
    BY <1>19 DEF WorkerReread, Goto, ctx, owners, worker, ran, counts, DisableInv,
       WorkersIn, High, Back
  <2>4. DrainInv'
    BY <1>19 DEF WorkerReread, Goto, ctx, owners, worker, ran, counts, DrainInv,
       WorkersIn, Back, Own
  <2>5. SettledInv'
    BY <1>19 DEF WorkerReread, Goto, ctx, owners, worker, ran, counts, SettledInv,
       Settled, Own
  <2>6. WaitInv'
    BY <1>19 DEF WorkerReread, Goto, ctx, owners, worker, ran, counts, WaitInv,
       WorkersIn, Settled, Gone
  <2> QED  BY <2>1, <2>2, <2>3, <2>4, <2>5, <2>6
<1>20. ASSUME NEW c \in Cpu, WorkerExit(c) PROVE RendezvousInv'
  <2>1. OwnerInv'  BY <1>20 DEF WorkerExit, Goto, ctx, owners, worker, ran, counts, OwnerInv
  <2>2. CaptureInv'
    BY <1>20 DEF WorkerExit, Goto, ctx, owners, worker, ran, counts, CaptureInv,
       WorkersIn, Joined
  <2>3. DisableInv'
    BY <1>20 DEF WorkerExit, Goto, ctx, owners, worker, ran, counts, DisableInv,
       WorkersIn, High, Back
  <2>4. DrainInv'
    BY <1>20 DEF WorkerExit, Goto, ctx, owners, worker, ran, counts, DrainInv,
       WorkersIn, Back, Own
  <2>5. SettledInv'
    BY <1>20 DEF WorkerExit, Goto, ctx, owners, worker, ran, counts, SettledInv,
       Settled, Own
  <2>6. WaitInv'
    <3>1. opc = "wait" /\ phase = "EXIT" /\ c # SyncOwner  BY <1>20, Points DEF WorkerExit
    <3>2. Gone' = Gone \cup {c} /\ c \notin Gone  BY <1>20, <3>1 DEF WorkerExit, Goto, Gone
    <3>3. Gone \in SUBSET Cpu /\ Gone' \in SUBSET Cpu  BY DEF Gone
    <3>4. Cardinality(Gone') = Cardinality(Gone) + 1  BY <3>2, <3>3, CountGrows
    <3>5. Cardinality(Gone) \in Nat  BY <3>3, CpuSets
    <3>6. CompletionCount' <= Cardinality(Gone')
      BY <1>20, <3>1, <3>4, <3>5 DEF WorkerExit, WaitInv
    <3> QED  BY <1>20, <3>1, <3>6 DEF WorkerExit, Goto, owners, WaitInv, WorkersIn
  <2> QED  BY <2>1, <2>2, <2>3, <2>4, <2>5, <2>6
<1>21. ASSUME NEW c \in Cpu, SuspendRegister(c) PROVE RendezvousInv'

    BY <1>21 DEF SuspendRegister, ctx, owners, worker, ran, counts, OwnerInv,
       CaptureInv, DisableInv, DrainInv, SettledInv, WaitInv, WorkersIn, Joined, High,
       Back,
         Settled, Gone, Own
<1>22. ASSUME NEW c \in Cpu, SuspendRegistered(c) PROVE RendezvousInv'

    BY <1>22 DEF SuspendRegistered, ctx, owners, worker, ran, counts, OwnerInv,
       CaptureInv, DisableInv, DrainInv, SettledInv, WaitInv, WorkersIn, Joined, High,
       Back,
         Settled, Gone, Own
<1>23. CASE UNCHANGED vars

    BY <1>23 DEF vars, ctx, owners, worker, ran, counts, OwnerInv, CaptureInv,
       DisableInv, DrainInv, SettledInv, WaitInv, WorkersIn, Joined, High, Back,
         Settled, Gone, Own
<1> QED
  BY <1>1, <1>2, <1>3, <1>4, <1>5, <1>6, <1>7, <1>8, <1>9, <1>10, <1>11, <1>12, <1>13,
     <1>14, <1>15, <1>16, <1>17, <1>18, <1>19, <1>20, <1>21, <1>22, <1>23 DEF Next, Owner,
     SyncWorker

\* The invariant behind Quiesced and ReleasedAll holds throughout.
LEMMA Rendezvous == Spec => [](TypeOK /\ RendezvousInv)
<1>1. Init => RendezvousInv
  BY DEF Init, RendezvousInv, OwnerInv, CaptureInv, DisableInv, DrainInv, SettledInv, WaitInv
<1>2. TypeOK /\ RendezvousInv /\ [Next]_vars => RendezvousInv'  BY RendezvousStep
<1> QED  BY <1>1, <1>2, TypeCorrect, PTL DEF Spec

\* SuspendTrigger calls SchedShutdown only with every CPU at HIGH_LEVEL: the
\* back-off of __SyncProcessorDisableInterrupts never leaves a CPU counted that
\* has lowered its IRQL.
THEOREM SuspendsQuiesced == Spec => []Quiesced
<1>1. TypeOK /\ RendezvousInv => Quiesced
  <2>1. SUFFICES ASSUME TypeOK, RendezvousInv, opc = "shutdown"
        PROVE  \A c \in Cpu : irql[c] = "high"
    BY DEF Quiesced
  <2>2. Cardinality(High) = ProcessorCount /\ High \in SUBSET Cpu
    BY <2>1 DEF RendezvousInv, DisableInv, High
  <2>3. High = Cpu  BY <2>2, CpuSets
  <2> QED  BY <2>3 DEF High
<1> QED  BY <1>1, Rendezvous, PTL

\* SyncRelease clears the context and frees the DPC array only after every
\* worker has left, however late the workers are with the earlier requests.
THEOREM ReleasesAll == Spec => []ReleasedAll
<1>1. TypeOK /\ RendezvousInv => ReleasedAll
  BY DEF RendezvousInv, OwnerInv, ReleasedAll
<1> QED  BY <1>1, Rendezvous, PTL

-----------------------------------------------------------------------------
(* The protocol.                                                           *)
\* The owner carries out one of the requests that share a shape.
Phased == opc \in {"reset", "run", "post", "wait"}

\* Where a suspend runs its callbacks.
Whole == IF status = "ok" THEN Cpu ELSE {}

\* The request before the one at hand, and which callbacks may be under way.
\* SyncRunEarly, SyncEnableInterrupts, SyncRunLate and SyncRelease follow
\* each other.
RequestInv ==
  /\ opc \in {"reset", "run", "post"} =>
       Request = CASE phase = "EARLY"  -> "DISABLE"
                   [] phase = "ENABLE" -> IF status = "ok" THEN "EARLY" ELSE "DISABLE"
                   [] phase = "LATE"   -> "ENABLE"
                   [] OTHER            -> IF status = "ok" THEN "LATE" ELSE "ENABLE"
  /\ Phased /\ phase \in {"EARLY", "LATE"} => status = "ok"
  /\ \A w \in Cpu : wpc[w] = "early" => phase = "EARLY"
  /\ \A w \in Cpu : wpc[w] = "late" => phase = "LATE"

\* S are the CPUs that have carried out request p so far. Only these are
\* counted: a CPU that takes the request for done (it read the shared word
\* again too late) never completes the count.
RunBy(S, p) ==
  Phased /\ phase = p =>
    /\ opc \in {"reset", "run"} => S = {}
    /\ opc = "post" => S = {SyncOwner}
    /\ opc = "wait" => S \subseteq Settled /\ CompletionCount <= Cardinality(S)

\* Where the callbacks have run.
RanInv ==
  /\ opc \in {"capture", "raise", "spin", "shutdown"} => early = {} /\ late = {}
  /\ opc = "idle" => early = Whole /\ late = Whole
  /\ RunBy(early, "EARLY") /\ RunBy(late, "LATE")
  /\ Phased /\ phase # "EARLY" => early = Whole
  /\ Phased /\ phase \in {"EARLY", "ENABLE"} => late = {}
  /\ Phased /\ phase = "EXIT" => late = Whole

\* CPUs that have carried out ENABLE.
Enabled == {c \in Settled : irql[c] = "dispatch"}

\* After SyncEnableInterrupts every captured CPU is at DISPATCH_LEVEL.
LowInv ==
  /\ opc = "wait" /\ phase = "ENABLE" => CompletionCount <= Cardinality(Enabled)
  /\ opc \in {"post", "wait"} /\ phase = "ENABLE" => irql[SyncOwner] = "dispatch"
  /\ Phased /\ phase \in {"LATE", "EXIT"} =>
       \A c \in Cpu : c = SyncOwner \/ wpc[c] # "none" => irql[c] = "dispatch"

\* No CPU that is captured changes the lists of callbacks: SuspendRegister
\* has been left before the DPC runs.
LoneInv ==
  \A c \in Cpu :
    \/ opc # "idle" /\ c = SyncOwner
    \/ wpc[c] \notin {"none", "queued"}
    => irql[c] # "passive" /\ c \notin editing

\* On a timely machine nobody backs off once the count was complete.
TimelyInv ==
  timely =>
    /\ opc = "shutdown" \/ (Phased /\ phase = "EARLY") => \A c \in Cpu : irql[c] = "high"
    /\ opc \in {"run", "post", "wait"} => \A w \in Cpu : wpc[w] # "spin"
    /\ opc \in {"run", "post"} /\ Request = "DISABLE" => Back = {}

\* With RendezvousInv, the inductive invariant.
ProtocolInv == RequestInv /\ RanInv /\ LowInv /\ LoneInv /\ TimelyInv

\* Where the owner is while a worker has a request to carry out.
LEMMA AskedPoint ==
  ASSUME TypeOK, RendezvousInv, NEW c \in Cpu, wpc[c] = "loop", seen[c] # Request
  PROVE  /\ c # SyncOwner /\ c \notin Settled
         /\ opc \in {"reset", "run", "post"} => Request = "DISABLE"
         /\ opc = "wait" => Request = phase
         /\ opc \in {"idle", "capture"} => Request = "NONE"
         /\ opc \in {"raise", "spin", "shutdown"} => Request = "DISABLE"
<1> USE DEF TypeOK
<1>1. c # SyncOwner /\ c \notin Settled /\ opc # "idle"  BY Points DEF Settled
<1>2. opc \in {"reset", "run", "post"} => Request = "DISABLE"
  BY <1>1 DEF RendezvousInv, SettledInv
<1>3. opc = "wait" => Request = phase  BY DEF RendezvousInv, WaitInv
<1>4. opc = "capture" => Request = "NONE"  BY DEF RendezvousInv, CaptureInv
<1>5. opc \in {"raise", "spin", "shutdown"} => Request = "DISABLE"
  BY DEF RendezvousInv, DisableInv
<1> QED  BY <1>1, <1>2, <1>3, <1>4, <1>5

\* A worker is asked for a request of the second kind only while the owner
\* waits for it, and has not been counted.
LEMMA AskedFor ==
  ASSUME TypeOK, RendezvousInv, NEW c \in Cpu, NEW r \in {"EARLY", "ENABLE", "LATE"}, Asked(c, r)
  PROVE  c # SyncOwner /\ opc = "wait" /\ phase = r /\ c \notin Settled
<1>1. wpc[c] = "loop" /\ Request = r /\ seen[c] # Request  BY DEF Asked
<1>2. Request \notin {"NONE", "DISABLE"}  BY <1>1
<1> QED  BY <1>1, <1>2, AskedPoint DEF TypeOK

\* A worker raises its IRQL only before the requests that follow.
LEMMA AskedToRaise ==
  ASSUME TypeOK, RendezvousInv, RequestInv, NEW c \in Cpu, Asked(c, "DISABLE")
  PROVE  /\ c # SyncOwner /\ Request = "DISABLE" /\ opc # "wait" /\ c \in Back
         /\ Phased => phase \in {"EARLY", "ENABLE"}
<1>1. wpc[c] = "loop" /\ Request = "DISABLE" /\ seen[c] # Request  BY DEF Asked
<1>2. c # SyncOwner /\ opc # "wait"  BY <1>1, AskedPoint DEF TypeOK
<1>3. c \in Back  BY <1>1 DEF Back
<1>4. Phased => phase \in {"EARLY", "ENABLE"}  BY <1>1, <1>2 DEF RequestInv, Phased, TypeOK
<1> QED  BY <1>1, <1>2, <1>3, <1>4

\* When the count is complete every CPU has settled, and a set of CPUs that
\* bounds the count is all of them.
LEMMA Complete ==
  ASSUME TypeOK, RendezvousInv, opc = "wait", CompletionCount = ProcessorCount, phase # "EXIT"
  PROVE  /\ Settled = Cpu /\ Request = phase
         /\ \A w \in Cpu : wpc[w] \notin {"early", "late", "spin"}
         /\ \A S \in SUBSET Cpu : CompletionCount <= Cardinality(S) => S = Cpu
<1> USE DEF TypeOK
<1>1. \A S \in SUBSET Cpu : CompletionCount <= Cardinality(S) => S = Cpu
  <2>1. \A S \in SUBSET Cpu : Cardinality(S) \in Nat /\ Cardinality(S) <= ProcessorCount
          /\ (Cardinality(S) = ProcessorCount => S = Cpu)
    BY CpuSets
  <2>2. ProcessorCount \in Nat  BY CpuSets
  <2> QED  BY <2>1, <2>2
<1>2. Settled = Cpu  BY <1>1 DEF RendezvousInv, WaitInv, Settled
<1>3. \A w \in Cpu : wpc[w] \notin {"early", "late", "spin"}
  BY <1>2, Points DEF Settled
<1> QED  BY <1>1, <1>2, <1>3 DEF RendezvousInv, WaitInv

\* Each request follows the one before it.
LEMMA RequestStep == ASSUME TypeOK, RendezvousInv, ProtocolInv, [Next]_vars PROVE RequestInv'
<1> USE SyncAssumption DEF TypeOK, ProtocolInv
<1>1. CASE SyncDisableInterrupts
  BY <1>1, Points DEF SyncDisableInterrupts, ctx, owners, worker, ran, counts, RequestInv,
     Phased
<1>2. CASE OwnerRaise
  BY <1>2, Points DEF OwnerRaise, Raise, ctx, owners, worker, ran, counts, RequestInv, Phased
<1>3. CASE OwnerSpin
  BY <1>3, Points DEF OwnerSpin, BackOff, ctx, owners, worker, ran, counts, RequestInv, Phased
<1>4. CASE SchedShutdown
  <2>1. Request' = "DISABLE" /\ wpc' = wpc /\ opc' = "reset"
        /\ phase' = (IF status' = "ok" THEN "EARLY" ELSE "ENABLE") /\ status' \in {"ok", "cancelled"}
    BY <1>4 DEF SchedShutdown, ctx, worker, RendezvousInv, DisableInv
  <2>2. \A w \in Cpu : wpc[w] \notin {"early", "late"}  BY <1>4, Points DEF SchedShutdown
  <2>3. \/ status' = "ok" /\ phase' = "EARLY"
        \/ status' = "cancelled" /\ phase' = "ENABLE"
    BY <2>1
  <2> QED  BY <2>1, <2>2, <2>3 DEF RequestInv, Phased
<1>5. CASE PhaseReset
  BY <1>5, Points DEF PhaseReset, ctx, owners, worker, ran, counts, RequestInv, Phased
<1>6. CASE PhaseRun
  BY <1>6, Points DEF PhaseRun, SuspendEarly, SuspendLate, ctx, owners, worker, ran, counts,
     RequestInv, Phased
<1>7. CASE PhasePost
  BY <1>7, Points DEF PhasePost, ctx, owners, worker, ran, counts, RequestInv, Phased
<1>8. CASE PhaseWait
  <2>0. opc = "wait" /\ phase # "EXIT" /\ CompletionCount = ProcessorCount
    BY <1>8 DEF PhaseWait
  <2>1. Request' = phase /\ wpc' = wpc /\ opc' = "reset" /\ status' = status /\ phase' = NextPhase
    BY <1>8, <2>0, Complete DEF PhaseWait, ctx, worker
  <2>2. \A w \in Cpu : wpc[w] \notin {"early", "late"}  BY <2>0, Complete
  <2>3. CASE phase = "EARLY"  BY <2>0, <2>1, <2>2, <2>3 DEF RequestInv, Phased, NextPhase
  <2>4. CASE phase = "ENABLE"  BY <2>0, <2>1, <2>2, <2>4 DEF RequestInv, Phased, NextPhase
  <2>5. CASE phase = "LATE"  BY <2>0, <2>1, <2>2, <2>5 DEF RequestInv, Phased, NextPhase
  <2> QED  BY <2>0, <2>3, <2>4, <2>5
<1>9. CASE SyncRelease
  BY <1>9, Points DEF SyncRelease, ctx, owners, worker, ran, counts, RequestInv, Phased
<1>10. ASSUME NEW c \in Cpu, SyncCapture(c) PROVE RequestInv'
  BY <1>10, Points DEF SyncCapture, ctx, owners, worker, ran, counts, RequestInv, Phased
<1>11. ASSUME NEW c \in Cpu, WorkerStart(c) PROVE RequestInv'
  BY <1>11, Points DEF WorkerStart, Goto, ctx, owners, worker, ran, counts, RequestInv, Phased
<1>12. ASSUME NEW c \in Cpu, WorkerRaise(c) PROVE RequestInv'
  BY <1>12, Points DEF WorkerRaise, Raise, Asked, Goto, ctx, owners, worker, ran, counts,
     RequestInv, Phased
<1>13. ASSUME NEW c \in Cpu, WorkerSpin(c) PROVE RequestInv'
  BY <1>13, Points DEF WorkerSpin, BackOff, Goto, ctx, owners, worker, ran, counts, RequestInv,
     Phased
<1>14. ASSUME NEW c \in Cpu, WorkerEarly(c) PROVE RequestInv'
  BY <1>14, AskedFor DEF WorkerEarly, Goto, ctx, owners, worker, ran, counts, RequestInv, Phased
<1>15. ASSUME NEW c \in Cpu, WorkerEarlyDone(c) PROVE RequestInv'
  BY <1>15, Points DEF WorkerEarlyDone, SuspendEarly, Goto, ctx, owners, worker, ran, counts,
     RequestInv, Phased
<1>16. ASSUME NEW c \in Cpu, WorkerEnable(c) PROVE RequestInv'
  BY <1>16, Points DEF WorkerEnable, Asked, Goto, ctx, owners, worker, ran, counts, RequestInv,
     Phased
<1>17. ASSUME NEW c \in Cpu, WorkerLate(c) PROVE RequestInv'
  BY <1>17, AskedFor DEF WorkerLate, Goto, ctx, owners, worker, ran, counts, RequestInv, Phased
<1>18. ASSUME NEW c \in Cpu, WorkerLateDone(c) PROVE RequestInv'
  BY <1>18, Points DEF WorkerLateDone, SuspendLate, Goto, ctx, owners, worker, ran, counts,
     RequestInv, Phased
<1>19. ASSUME NEW c \in Cpu, WorkerReread(c) PROVE RequestInv'
  BY <1>19, Points DEF WorkerReread, Goto, ctx, owners, worker, ran, counts, RequestInv, Phased
<1>20. ASSUME NEW c \in Cpu, WorkerExit(c) PROVE RequestInv'
  BY <1>20, Points DEF WorkerExit, Goto, ctx, owners, worker, ran, counts, RequestInv, Phased
<1>21. ASSUME NEW c \in Cpu, SuspendRegister(c) PROVE RequestInv'
  BY <1>21, Points DEF SuspendRegister, ctx, owners, worker, ran, counts, RequestInv, Phased
<1>22. ASSUME NEW c \in Cpu, SuspendRegistered(c) PROVE RequestInv'
  BY <1>22, Points DEF SuspendRegistered, ctx, owners, worker, ran, counts, RequestInv, Phased
<1>23. CASE UNCHANGED vars
  BY <1>23 DEF vars, ctx, owners, worker, ran, counts, RequestInv, Phased
<1> QED
  BY <1>1, <1>2, <1>3, <1>4, <1>5, <1>6, <1>7, <1>8, <1>9, <1>10, <1>11, <1>12, <1>13, <1>14,
     <1>15, <1>16, <1>17, <1>18, <1>19, <1>20, <1>21, <1>22, <1>23 DEF Next, Owner, SyncWorker

\* A callback is counted where it has run.
LEMMA RanStep == ASSUME TypeOK, RendezvousInv, ProtocolInv, [Next]_vars PROVE RanInv'
<1> USE SyncAssumption DEF TypeOK, ProtocolInv
<1>1. CASE SyncDisableInterrupts
  BY <1>1, Points DEF SyncDisableInterrupts, ctx, owners, worker, ran, counts, RanInv, RunBy,
     Phased, Whole, Settled
<1>2. CASE OwnerRaise
  BY <1>2, Points DEF OwnerRaise, Raise, ctx, owners, worker, ran, counts, RanInv, RunBy,
     Phased, Whole, Settled
<1>3. CASE OwnerSpin
  BY <1>3, Points DEF OwnerSpin, BackOff, ctx, owners, worker, ran, counts, RanInv, RunBy,
     Phased, Whole, Settled
<1>4. CASE SchedShutdown
  BY <1>4, Points DEF SchedShutdown, ctx, owners, worker, ran, counts, RanInv, RunBy, Phased,
     Whole, Settled
<1>5. CASE PhaseReset
  BY <1>5, Points DEF PhaseReset, ctx, owners, worker, ran, counts, RanInv, RunBy, Phased,
     Whole, Settled
<1>6. CASE PhaseRun
  BY <1>6, Points DEF PhaseRun, SuspendEarly, SuspendLate, ctx, owners, worker, ran, counts,
     RanInv, RunBy, Phased, Whole, Settled
<1>7. CASE PhasePost
  <2>0. opc = "post" /\ opc' = "wait" /\ UNCHANGED <<SyncOwner, CompletionCount, phase, status, worker, ran>>
    BY <1>7 DEF PhasePost
  <2>1. CompletionCount <= 1
    <3>1. Cardinality(Back) \in Nat  BY CpuSets DEF Back
    <3> QED  BY <2>0, <3>1 DEF RendezvousInv, DrainInv, SettledInv, Own
  <2>2. SyncOwner \in Settled'  BY <2>0 DEF Settled
  <2>3. Cardinality({SyncOwner}) = 1  BY FS_Singleton
  <2>4. ASSUME NEW S \in SUBSET Cpu, S = {SyncOwner}
        PROVE  S \subseteq Settled' /\ CompletionCount <= Cardinality(S)
    BY <2>1, <2>2, <2>3, <2>4
  <2>5. early' = early /\ late' = late /\ wpc' = wpc /\ phase' = phase /\ status' = status
        /\ CompletionCount' = CompletionCount
    BY <2>0 DEF worker, ran
  <2>6. RunBy(early, "EARLY")' /\ RunBy(late, "LATE")'
    BY <2>0, <2>4, <2>5 DEF RanInv, RunBy, Phased
  <2> QED  BY <2>0, <2>5, <2>6 DEF RanInv, Phased, Whole
<1>8. CASE PhaseWait
  <2>0. opc = "wait" /\ phase # "EXIT" /\ CompletionCount = ProcessorCount
    BY <1>8 DEF PhaseWait
  <2>1. /\ opc' = "reset" /\ status' = status /\ phase' = NextPhase /\ UNCHANGED <<early, late>>
    BY <1>8 DEF PhaseWait, ran
  <2>2. phase = "EARLY" => early = Cpu  BY <2>0, Complete DEF RanInv, RunBy, Phased
  <2>3. phase = "LATE" => late = Cpu  BY <2>0, Complete DEF RanInv, RunBy, Phased
  <2>4. phase \in {"EARLY", "LATE"} => status = "ok"  BY <2>0 DEF RequestInv, Phased
  <2>5. CASE phase = "EARLY"
    BY <2>0, <2>1, <2>2, <2>4, <2>5 DEF RanInv, RunBy, Phased, NextPhase, Whole
  <2>6. CASE phase = "ENABLE"  BY <2>0, <2>1, <2>6 DEF RanInv, RunBy, Phased, NextPhase, Whole
  <2>7. CASE phase = "LATE"
    BY <2>0, <2>1, <2>3, <2>4, <2>7 DEF RanInv, RunBy, Phased, NextPhase, Whole
  <2> QED  BY <2>0, <2>5, <2>6, <2>7
<1>9. CASE SyncRelease
  BY <1>9, Points DEF SyncRelease, ctx, owners, worker, ran, counts, RanInv, RunBy, Phased,
     Whole, Settled
<1>10. ASSUME NEW c \in Cpu, SyncCapture(c) PROVE RanInv'
  BY <1>10, Points DEF SyncCapture, ctx, owners, worker, ran, counts, RanInv, RunBy, Phased,
     Whole, Settled
<1>11. ASSUME NEW c \in Cpu, WorkerStart(c) PROVE RanInv'
  BY <1>11, Points DEF WorkerStart, Goto, ctx, owners, worker, ran, counts, RanInv, RunBy,
     Phased, Whole, Settled
<1>12. ASSUME NEW c \in Cpu, WorkerRaise(c) PROVE RanInv'
  <2>1. UNCHANGED <<SyncOwner, Request, opc, phase, status, early, late>>
    BY <1>12 DEF WorkerRaise, owners, ran
  <2>0. Asked(c, "DISABLE")  BY <1>12 DEF WorkerRaise
  <2>2. opc # "wait"  BY <2>0, AskedToRaise
  <2> QED  BY <2>1, <2>2 DEF RanInv, RunBy, Phased, Whole
<1>13. ASSUME NEW c \in Cpu, WorkerSpin(c) PROVE RanInv'
  <2>1. UNCHANGED <<SyncOwner, Request, opc, phase, status, early, late>>
    BY <1>13 DEF WorkerSpin, owners, ran
  <2>2. Settled \subseteq Settled'  BY <1>13, <2>1 DEF WorkerSpin, Goto, Settled
  <2>3. CompletionCount' <= CompletionCount /\ CompletionCount' \in Int
    BY <1>13 DEF WorkerSpin, BackOff
  <2>4. ASSUME NEW S \in SUBSET Cpu, S \subseteq Settled, CompletionCount <= Cardinality(S)
        PROVE  S \subseteq Settled' /\ CompletionCount' <= Cardinality(S)
    <3>1. Cardinality(S) \in Int  BY CpuSets
    <3> QED  BY <2>2, <2>3, <2>4, <3>1
  <2>5. RunBy(early, "EARLY")' /\ RunBy(late, "LATE")'  BY <2>1, <2>4 DEF RanInv, RunBy, Phased
  <2> QED  BY <2>1, <2>5 DEF RanInv, Phased, Whole
<1>14. ASSUME NEW c \in Cpu, WorkerEarly(c) PROVE RanInv'
  BY <1>14, Points DEF WorkerEarly, Asked, Goto, ctx, owners, worker, ran, counts, RanInv,
     RunBy, Phased, Whole, Settled
<1>15. ASSUME NEW c \in Cpu, WorkerEarlyDone(c) PROVE RanInv'
  <2>1. /\ UNCHANGED <<SyncOwner, Request, opc, phase, status, late>> /\ early' = early \cup {c}
        /\ wpc' = [wpc EXCEPT ![c] = "reread"] /\ seen' = seen /\ CompletionCount' = CompletionCount + 1
    BY <1>15 DEF WorkerEarlyDone, SuspendEarly, Goto, owners
  <2>2. wpc[c] = "early" /\ opc = "wait" /\ c # SyncOwner /\ phase = "EARLY"
    BY <1>15, Points DEF WorkerEarlyDone, RequestInv
  <2>3. c \notin Settled /\ Settled' = Settled \cup {c}  BY <2>1, <2>2 DEF Settled
  <2>4. early \subseteq Settled /\ CompletionCount <= Cardinality(early)
    BY <2>2 DEF RanInv, RunBy, Phased
  <2>5. Cardinality(early') = Cardinality(early) + 1  BY <2>1, <2>3, <2>4, CountGrows
  <2>6. Cardinality(early) \in Int /\ CompletionCount' <= Cardinality(early')
    <3>1. Cardinality(early) \in Int  BY CpuSets
    <3> QED  BY <2>1, <2>4, <2>5, <3>1
  <2>7. early' \subseteq Settled'  BY <2>1, <2>3, <2>4
  <2> QED  BY <2>1, <2>2, <2>6, <2>7 DEF RanInv, RunBy, Phased, Whole
<1>16. ASSUME NEW c \in Cpu, WorkerEnable(c) PROVE RanInv'
  <2>1. UNCHANGED <<SyncOwner, Request, opc, phase, status, early, late>>
    BY <1>16 DEF WorkerEnable, owners, ran
  <2>2. opc = "wait" /\ phase = "ENABLE"  BY <1>16, AskedFor DEF WorkerEnable
  <2> QED  BY <2>1, <2>2 DEF RanInv, RunBy, Phased, Whole
<1>17. ASSUME NEW c \in Cpu, WorkerLate(c) PROVE RanInv'
  BY <1>17, Points DEF WorkerLate, Asked, Goto, ctx, owners, worker, ran, counts, RanInv, RunBy,
     Phased, Whole, Settled
<1>18. ASSUME NEW c \in Cpu, WorkerLateDone(c) PROVE RanInv'
  <2>1. /\ UNCHANGED <<SyncOwner, Request, opc, phase, status, early>> /\ late' = late \cup {c}
        /\ wpc' = [wpc EXCEPT ![c] = "reread"] /\ seen' = seen /\ CompletionCount' = CompletionCount + 1
    BY <1>18 DEF WorkerLateDone, SuspendLate, Goto, owners
  <2>2. wpc[c] = "late" /\ opc = "wait" /\ c # SyncOwner /\ phase = "LATE"
    BY <1>18, Points DEF WorkerLateDone, RequestInv
  <2>3. c \notin Settled /\ Settled' = Settled \cup {c}  BY <2>1, <2>2 DEF Settled
  <2>4. late \subseteq Settled /\ CompletionCount <= Cardinality(late)
    BY <2>2 DEF RanInv, RunBy, Phased
  <2>5. Cardinality(late') = Cardinality(late) + 1  BY <2>1, <2>3, <2>4, CountGrows
  <2>6. Cardinality(late) \in Int /\ CompletionCount' <= Cardinality(late')
    <3>1. Cardinality(late) \in Int  BY CpuSets
    <3> QED  BY <2>1, <2>4, <2>5, <3>1
  <2>7. late' \subseteq Settled'  BY <2>1, <2>3, <2>4
  <2> QED  BY <2>1, <2>2, <2>6, <2>7 DEF RanInv, RunBy, Phased, Whole
<1>19. ASSUME NEW c \in Cpu, WorkerReread(c) PROVE RanInv'
  BY <1>19, Points DEF WorkerReread, Goto, ctx, owners, worker, ran, counts, RanInv, RunBy,
     Phased, Whole, Settled
<1>20. ASSUME NEW c \in Cpu, WorkerExit(c) PROVE RanInv'
  BY <1>20, Points DEF WorkerExit, Goto, ctx, owners, worker, ran, counts, RanInv, RunBy,
     Phased, Whole, Settled
<1>21. ASSUME NEW c \in Cpu, SuspendRegister(c) PROVE RanInv'
  BY <1>21, Points DEF SuspendRegister, ctx, owners, worker, ran, counts, RanInv, RunBy, Phased,
     Whole, Settled
<1>22. ASSUME NEW c \in Cpu, SuspendRegistered(c) PROVE RanInv'
  BY <1>22, Points DEF SuspendRegistered, ctx, owners, worker, ran, counts, RanInv, RunBy,
     Phased, Whole, Settled
<1>23. CASE UNCHANGED vars
  BY <1>23 DEF vars, ctx, owners, worker, ran, counts, RanInv, RunBy, Phased, Whole, Settled
<1> QED
  BY <1>1, <1>2, <1>3, <1>4, <1>5, <1>6, <1>7, <1>8, <1>9, <1>10, <1>11, <1>12, <1>13, <1>14,
     <1>15, <1>16, <1>17, <1>18, <1>19, <1>20, <1>21, <1>22, <1>23 DEF Next, Owner, SyncWorker

\* IRQLs are lowered by SyncEnableInterrupts, once and for all.
LEMMA LowStep == ASSUME TypeOK, RendezvousInv, ProtocolInv, [Next]_vars PROVE LowInv'
<1> USE SyncAssumption DEF TypeOK, ProtocolInv
<1>1. CASE SyncDisableInterrupts
  BY <1>1, Points DEF SyncDisableInterrupts, ctx, owners, worker, ran, counts, LowInv, Enabled,
     Phased, Settled
<1>2. CASE OwnerRaise
  BY <1>2, Points DEF OwnerRaise, Raise, ctx, owners, worker, ran, counts, LowInv, Enabled,
     Phased, Settled
<1>3. CASE OwnerSpin
  BY <1>3, Points DEF OwnerSpin, BackOff, ctx, owners, worker, ran, counts, LowInv, Enabled,
     Phased, Settled
<1>4. CASE SchedShutdown
  BY <1>4, Points DEF SchedShutdown, ctx, owners, worker, ran, counts, LowInv, Enabled, Phased,
     Settled
<1>5. CASE PhaseReset
  BY <1>5, Points DEF PhaseReset, ctx, owners, worker, ran, counts, LowInv, Enabled, Phased,
     Settled
<1>6. CASE PhaseRun
  BY <1>6, Points DEF PhaseRun, SuspendEarly, SuspendLate, ctx, owners, worker, ran, counts,
     LowInv, Enabled, Phased, Settled
<1>7. CASE PhasePost
  <2>0. /\ opc = "post" /\ opc' = "wait" /\ Request' = phase
        /\ UNCHANGED <<SyncOwner, CompletionCount, phase, worker, irql>>
    BY <1>7 DEF PhasePost
  <2>1. CompletionCount <= 1
    <3>1. Cardinality(Back) \in Nat  BY CpuSets DEF Back
    <3> QED  BY <2>0, <3>1 DEF RendezvousInv, DrainInv, SettledInv, Own
  <2>2. ASSUME phase = "ENABLE" PROVE CompletionCount <= Cardinality(Enabled')
    <3>1. SyncOwner \in Enabled'  BY <2>0, <2>2 DEF Enabled, Settled, LowInv
    <3>2. Enabled' \in SUBSET Cpu  BY DEF Enabled, Settled
    <3>3. Cardinality(Enabled') >= 1 /\ Cardinality(Enabled') \in Int  BY <3>1, <3>2, CountSome, CpuSets
    <3> QED  BY <2>1, <3>3
  <2> QED  BY <2>0, <2>2 DEF LowInv, Phased, worker
<1>8. CASE PhaseWait
  <2>0. opc = "wait" /\ phase # "EXIT" /\ CompletionCount = ProcessorCount
    BY <1>8 DEF PhaseWait
  <2>1. /\ opc' = "reset" /\ phase' = NextPhase /\ UNCHANGED <<SyncOwner, wpc, irql>>
    BY <1>8 DEF PhaseWait, ctx, worker
  <2>2. ASSUME phase = "ENABLE" PROVE \A c \in Cpu : irql[c] = "dispatch"
    <3>1. Enabled \in SUBSET Cpu  BY DEF Enabled, Settled
    <3>2. Enabled = Cpu  BY <2>0, <2>2, <3>1, Complete DEF LowInv
    <3> QED  BY <3>2 DEF Enabled
  <2>3. CASE phase = "EARLY"  BY <2>1, <2>3 DEF LowInv, Phased, NextPhase
  <2>4. CASE phase = "ENABLE"  BY <2>1, <2>2, <2>4 DEF LowInv, Phased
  <2>5. CASE phase = "LATE"  BY <2>0, <2>1, <2>5 DEF LowInv, Phased, NextPhase
  <2> QED  BY <2>0, <2>3, <2>4, <2>5
<1>9. CASE SyncRelease
  BY <1>9, Points DEF SyncRelease, ctx, owners, worker, ran, counts, LowInv, Enabled, Phased,
     Settled
<1>10. ASSUME NEW c \in Cpu, SyncCapture(c) PROVE LowInv'
  BY <1>10, Points DEF SyncCapture, ctx, owners, worker, ran, counts, LowInv, Enabled, Phased,
     Settled
<1>11. ASSUME NEW c \in Cpu, WorkerStart(c) PROVE LowInv'
  BY <1>11, Points DEF WorkerStart, Goto, ctx, owners, worker, ran, counts, LowInv, Enabled,
     Phased, Settled
<1>12. ASSUME NEW c \in Cpu, WorkerRaise(c) PROVE LowInv'
  <2>1. /\ UNCHANGED <<SyncOwner, opc, phase>> /\ irql' = [irql EXCEPT ![c] = "high"]
        /\ wpc' = [wpc EXCEPT ![c] = "spin"]
    BY <1>12 DEF WorkerRaise, Raise, Goto, owners
  <2>0. Asked(c, "DISABLE")  BY <1>12 DEF WorkerRaise
  <2>2. opc # "wait" /\ c # SyncOwner /\ (Phased => phase \notin {"LATE", "EXIT"})
    BY <2>0, AskedToRaise
  <2> QED  BY <2>1, <2>2 DEF LowInv, Phased
<1>13. ASSUME NEW c \in Cpu, WorkerSpin(c) PROVE LowInv'
  <2>1. /\ UNCHANGED <<SyncOwner, Request, opc, phase, seen>> /\ wpc[c] = "spin"
        /\ \/ UNCHANGED <<CompletionCount, irql>> /\ wpc' = [wpc EXCEPT ![c] = "reread"]
           \/ /\ irql' = [irql EXCEPT ![c] = "dispatch"] /\ CompletionCount' = CompletionCount - 1
              /\ wpc' = [wpc EXCEPT ![c] = "loop"]
    BY <1>13 DEF WorkerSpin, BackOff, Goto, owners
  <2>2. CompletionCount' <= CompletionCount /\ CompletionCount' \in Int  BY <2>1
  <2>3. Enabled \subseteq Enabled' /\ Enabled' \in SUBSET Cpu  BY <2>1 DEF Enabled, Settled
  <2>4. Cardinality(Enabled) <= Cardinality(Enabled')  BY <2>3, CountMonotone
  <2>5. Cardinality(Enabled) \in Int /\ Cardinality(Enabled') \in Int  BY <2>3, CpuSets
  <2>6. CompletionCount <= Cardinality(Enabled) => CompletionCount' <= Cardinality(Enabled')
    BY <2>2, <2>4, <2>5
  <2>7. \A w \in Cpu : irql[w] = "dispatch" => irql'[w] = "dispatch"  BY <2>1
  <2>8. \A w \in Cpu : wpc'[w] # "none" => wpc[w] # "none"  BY <2>1
  <2> QED  BY <2>1, <2>6, <2>7, <2>8 DEF LowInv, Phased
<1>14. ASSUME NEW c \in Cpu, WorkerEarly(c) PROVE LowInv'
  BY <1>14, Points DEF WorkerEarly, Asked, Goto, ctx, owners, worker, ran, counts, LowInv,
     Enabled, Phased, Settled
<1>15. ASSUME NEW c \in Cpu, WorkerEarlyDone(c) PROVE LowInv'
  <2>1. /\ UNCHANGED <<SyncOwner, opc, phase, irql>> /\ wpc' = [wpc EXCEPT ![c] = "reread"]
    BY <1>15 DEF WorkerEarlyDone, Goto, owners
  <2>2. wpc[c] \in {"early", "late"} /\ phase # "ENABLE"
    BY <1>15 DEF WorkerEarlyDone, RequestInv
  <2> QED  BY <2>1, <2>2 DEF LowInv, Phased
<1>16. ASSUME NEW c \in Cpu, WorkerEnable(c) PROVE LowInv'
  <2>1. /\ UNCHANGED <<SyncOwner, Request, opc, phase, seen>> /\ irql' = [irql EXCEPT ![c] = "dispatch"]
        /\ CompletionCount' = CompletionCount + 1 /\ wpc' = [wpc EXCEPT ![c] = "reread"]
    BY <1>16 DEF WorkerEnable, Goto, owners
  <2>2. opc = "wait" /\ phase = "ENABLE" /\ c \notin Settled /\ c # SyncOwner
    BY <1>16, AskedFor DEF WorkerEnable
  <2>3. Enabled' = Enabled \cup {c} /\ c \notin Enabled  BY <2>1, <2>2 DEF Enabled, Settled
  <2>4. Enabled \in SUBSET Cpu /\ Enabled' \in SUBSET Cpu  BY DEF Enabled, Settled
  <2>5. Cardinality(Enabled') = Cardinality(Enabled) + 1 /\ Cardinality(Enabled) \in Int
    BY <2>3, <2>4, CountGrows, CpuSets
  <2>6. CompletionCount' <= Cardinality(Enabled')  BY <2>1, <2>2, <2>5 DEF LowInv
  <2> QED  BY <2>1, <2>2, <2>6 DEF LowInv, Phased
<1>17. ASSUME NEW c \in Cpu, WorkerLate(c) PROVE LowInv'
  BY <1>17, Points, SMTT(40) DEF WorkerLate, Asked, Goto, ctx, owners, worker, ran, counts, LowInv,
     Enabled, Phased, Settled
<1>18. ASSUME NEW c \in Cpu, WorkerLateDone(c) PROVE LowInv'
  <2>1. /\ UNCHANGED <<SyncOwner, opc, phase, irql>> /\ wpc' = [wpc EXCEPT ![c] = "reread"]
    BY <1>18 DEF WorkerLateDone, Goto, owners
  <2>2. wpc[c] \in {"early", "late"} /\ phase # "ENABLE"
    BY <1>18 DEF WorkerLateDone, RequestInv
  <2> QED  BY <2>1, <2>2 DEF LowInv, Phased
<1>19. ASSUME NEW c \in Cpu, WorkerReread(c) PROVE LowInv'
  BY <1>19, Points, SMTT(40) DEF WorkerReread, Goto, ctx, owners, worker, ran, counts, LowInv, Enabled,
     Phased, Settled
<1>20. ASSUME NEW c \in Cpu, WorkerExit(c) PROVE LowInv'
  BY <1>20, Points DEF WorkerExit, Goto, ctx, owners, worker, ran, counts, LowInv, Enabled,
     Phased, Settled
<1>21. ASSUME NEW c \in Cpu, SuspendRegister(c) PROVE LowInv'
  BY <1>21, Points DEF SuspendRegister, ctx, owners, worker, ran, counts, LowInv, Enabled,
     Phased, Settled
<1>22. ASSUME NEW c \in Cpu, SuspendRegistered(c) PROVE LowInv'
  BY <1>22, Points DEF SuspendRegistered, ctx, owners, worker, ran, counts, LowInv, Enabled,
     Phased, Settled
<1>23. CASE UNCHANGED vars
  BY <1>23 DEF vars, ctx, owners, worker, ran, counts, LowInv, Enabled, Phased, Settled
<1> QED
  BY <1>1, <1>2, <1>3, <1>4, <1>5, <1>6, <1>7, <1>8, <1>9, <1>10, <1>11, <1>12, <1>13, <1>14,
     <1>15, <1>16, <1>17, <1>18, <1>19, <1>20, <1>21, <1>22, <1>23 DEF Next, Owner, SyncWorker

\* SuspendRegister and the capture of a CPU exclude each other.
LEMMA LoneStep == ASSUME TypeOK, RendezvousInv, ProtocolInv, [Next]_vars PROVE LoneInv'
<1> USE SyncAssumption DEF TypeOK, ProtocolInv
<1>1. CASE SyncDisableInterrupts
  BY <1>1, Points DEF SyncDisableInterrupts, ctx, owners, worker, ran, counts, LoneInv
<1>2. CASE OwnerRaise
  BY <1>2, Points DEF OwnerRaise, Raise, ctx, owners, worker, ran, counts, LoneInv
<1>3. CASE OwnerSpin
  BY <1>3, Points DEF OwnerSpin, BackOff, ctx, owners, worker, ran, counts, LoneInv
<1>4. CASE SchedShutdown
  BY <1>4, Points DEF SchedShutdown, ctx, owners, worker, ran, counts, LoneInv
<1>5. CASE PhaseReset
  BY <1>5, Points DEF PhaseReset, ctx, owners, worker, ran, counts, LoneInv
<1>6. CASE PhaseRun
  BY <1>6, Points DEF PhaseRun, SuspendEarly, SuspendLate, ctx, owners, worker, ran, counts,
     LoneInv
<1>7. CASE PhasePost
  BY <1>7, Points DEF PhasePost, ctx, owners, worker, ran, counts, LoneInv
<1>8. CASE PhaseWait
  BY <1>8, Points DEF PhaseWait, NextPhase, ctx, owners, worker, ran, counts, LoneInv
<1>9. CASE SyncRelease
  BY <1>9, Points DEF SyncRelease, ctx, owners, worker, ran, counts, LoneInv
<1>10. ASSUME NEW c \in Cpu, SyncCapture(c) PROVE LoneInv'
  BY <1>10, Points DEF SyncCapture, ctx, owners, worker, ran, counts, LoneInv
<1>11. ASSUME NEW c \in Cpu, WorkerStart(c) PROVE LoneInv'
  BY <1>11, Points DEF WorkerStart, Goto, ctx, owners, worker, ran, counts, LoneInv
<1>12. ASSUME NEW c \in Cpu, WorkerRaise(c) PROVE LoneInv'
  BY <1>12, Points DEF WorkerRaise, Raise, Asked, Goto, ctx, owners, worker, ran, counts,
     LoneInv
<1>13. ASSUME NEW c \in Cpu, WorkerSpin(c) PROVE LoneInv'
  BY <1>13, Points DEF WorkerSpin, BackOff, Goto, ctx, owners, worker, ran, counts, LoneInv
<1>14. ASSUME NEW c \in Cpu, WorkerEarly(c) PROVE LoneInv'
  BY <1>14, Points DEF WorkerEarly, Asked, Goto, ctx, owners, worker, ran, counts, LoneInv
<1>15. ASSUME NEW c \in Cpu, WorkerEarlyDone(c) PROVE LoneInv'
  BY <1>15, Points DEF WorkerEarlyDone, SuspendEarly, Goto, ctx, owners, worker, ran, counts,
     LoneInv
<1>16. ASSUME NEW c \in Cpu, WorkerEnable(c) PROVE LoneInv'
  BY <1>16, Points DEF WorkerEnable, Asked, Goto, ctx, owners, worker, ran, counts, LoneInv
<1>17. ASSUME NEW c \in Cpu, WorkerLate(c) PROVE LoneInv'
  BY <1>17, Points DEF WorkerLate, Asked, Goto, ctx, owners, worker, ran, counts, LoneInv
<1>18. ASSUME NEW c \in Cpu, WorkerLateDone(c) PROVE LoneInv'
  BY <1>18, Points DEF WorkerLateDone, SuspendLate, Goto, ctx, owners, worker, ran, counts,
     LoneInv
<1>19. ASSUME NEW c \in Cpu, WorkerReread(c) PROVE LoneInv'
  BY <1>19, Points DEF WorkerReread, Goto, ctx, owners, worker, ran, counts, LoneInv
<1>20. ASSUME NEW c \in Cpu, WorkerExit(c) PROVE LoneInv'
  BY <1>20, Points DEF WorkerExit, Goto, ctx, owners, worker, ran, counts, LoneInv
<1>21. ASSUME NEW c \in Cpu, SuspendRegister(c) PROVE LoneInv'
  BY <1>21, Points DEF SuspendRegister, ctx, owners, worker, ran, counts, LoneInv
<1>22. ASSUME NEW c \in Cpu, SuspendRegistered(c) PROVE LoneInv'
  BY <1>22, Points DEF SuspendRegistered, ctx, owners, worker, ran, counts, LoneInv
<1>23. CASE UNCHANGED vars  BY <1>23 DEF vars, ctx, owners, worker, ran, counts, LoneInv
<1> QED
  BY <1>1, <1>2, <1>3, <1>4, <1>5, <1>6, <1>7, <1>8, <1>9, <1>10, <1>11, <1>12, <1>13, <1>14,
     <1>15, <1>16, <1>17, <1>18, <1>19, <1>20, <1>21, <1>22, <1>23 DEF Next, Owner, SyncWorker

\* No back-off after the capture.
LEMMA TimelyStep == ASSUME TypeOK, RendezvousInv, ProtocolInv, [Next]_vars PROVE TimelyInv'
<1> USE SyncAssumption DEF TypeOK, ProtocolInv
<1>1. CASE SyncDisableInterrupts
  BY <1>1, Points DEF SyncDisableInterrupts, ctx, owners, worker, ran, counts, TimelyInv,
     Phased, Back
<1>2. CASE OwnerRaise
  BY <1>2, Points DEF OwnerRaise, Raise, ctx, owners, worker, ran, counts, TimelyInv, Phased,
     Back
<1>3. CASE OwnerSpin
  <2>1. SyncOwner' = SyncOwner /\ timely' = timely /\ wpc' = wpc /\ phase' = phase /\ opc' \in {"shutdown", "raise"}
    BY <1>3 DEF OwnerSpin, worker, counts
  <2>2. ASSUME opc' = "shutdown" PROVE \A c \in Cpu : irql'[c] = "high"
    <3>1. CompletionCount = ProcessorCount /\ irql' = irql  BY <1>3, <2>2 DEF OwnerSpin
    <3>2. Cardinality(High) = ProcessorCount /\ High \in SUBSET Cpu
      BY <1>3, <3>1 DEF OwnerSpin, RendezvousInv, DisableInv, High
    <3>3. High = Cpu  BY <3>2, CpuSets
    <3> QED  BY <3>1, <3>3 DEF High
  <2> QED  BY <2>1, <2>2 DEF TimelyInv, Phased
<1>4. CASE SchedShutdown
  BY <1>4, Points DEF SchedShutdown, ctx, owners, worker, ran, counts, TimelyInv, Phased, Back
<1>5. CASE PhaseReset
  <2>1. /\ opc = "reset" /\ opc' = "run" /\ UNCHANGED <<Request, phase, wpc, seen, irql, timely>>
        /\ timely => \A w \in Cpu : wpc[w] # "spin"
    BY <1>5 DEF PhaseReset, worker, counts
  <2>2. Request = "DISABLE" => Back = {}
    <3>1. ASSUME Request = "DISABLE" PROVE High = Cpu
      <4>1. Cardinality(High) = ProcessorCount /\ High \in SUBSET Cpu
        BY <2>1, <3>1 DEF RendezvousInv, DisableInv, High
      <4> QED  BY <4>1, CpuSets
    <3> QED  BY <2>1, <3>1 DEF RendezvousInv, DisableInv, High, Back
  <2>3. Back' = Back  BY <2>1 DEF Back
  <2> QED  BY <2>1, <2>2, <2>3 DEF TimelyInv, Phased
<1>6. CASE PhaseRun
  BY <1>6, Points DEF PhaseRun, SuspendEarly, SuspendLate, ctx, owners, worker, ran, counts,
     TimelyInv, Phased, Back
<1>7. CASE PhasePost
  BY <1>7, Points DEF PhasePost, ctx, owners, worker, ran, counts, TimelyInv, Phased, Back
<1>8. CASE PhaseWait
  BY <1>8, Points DEF PhaseWait, NextPhase, ctx, owners, worker, ran, counts, TimelyInv, Phased,
     Back
<1>9. CASE SyncRelease
  BY <1>9, Points DEF SyncRelease, ctx, owners, worker, ran, counts, TimelyInv, Phased, Back
<1>10. ASSUME NEW c \in Cpu, SyncCapture(c) PROVE TimelyInv'
  BY <1>10, Points DEF SyncCapture, ctx, owners, worker, ran, counts, TimelyInv, Phased, Back
<1>11. ASSUME NEW c \in Cpu, WorkerStart(c) PROVE TimelyInv'
  BY <1>11, Points DEF WorkerStart, Goto, ctx, owners, worker, ran, counts, TimelyInv, Phased,
     Back
<1>12. ASSUME NEW c \in Cpu, WorkerRaise(c) PROVE TimelyInv'
  <2>1. /\ UNCHANGED <<Request, opc, phase, seen, timely>> /\ irql' = [irql EXCEPT ![c] = "high"]
        /\ wpc' = [wpc EXCEPT ![c] = "spin"]
    BY <1>12 DEF WorkerRaise, Raise, Goto, owners, counts
  <2>0. Asked(c, "DISABLE")  BY <1>12 DEF WorkerRaise
  <2>2. c \in Back /\ opc # "wait" /\ Request = "DISABLE"  BY <2>0, AskedToRaise
  <2>3. timely => opc \notin {"run", "post", "wait"}  BY <2>2 DEF TimelyInv
  <2> QED  BY <2>1, <2>3 DEF TimelyInv, Phased
<1>13. ASSUME NEW c \in Cpu, WorkerSpin(c) PROVE TimelyInv'
  <2>1. /\ UNCHANGED <<Request, opc, phase, seen, timely>> /\ wpc[c] = "spin"
        /\ wpc' = [wpc EXCEPT ![c] = "reread"] \/ wpc' = [wpc EXCEPT ![c] = "loop"]
    BY <1>13 DEF WorkerSpin, Goto, owners, counts
  <2>2. timely => opc \notin {"run", "post", "wait"}  BY <2>1 DEF TimelyInv
  <2>3. ASSUME opc = "shutdown" \/ (opc = "reset" /\ phase = "EARLY") PROVE irql' = irql
    <3>1. Request = "DISABLE"  BY <2>3 DEF RendezvousInv, DisableInv, RequestInv
    <3>2. CompletionCount = ProcessorCount  BY <2>3, <3>1 DEF RendezvousInv, DisableInv
    <3> QED  BY <1>13, <3>2 DEF WorkerSpin
  <2> QED  BY <2>1, <2>2, <2>3 DEF TimelyInv, Phased
<1>14. ASSUME NEW c \in Cpu, WorkerEarly(c) PROVE TimelyInv'
  BY <1>14, Points DEF WorkerEarly, Asked, Goto, ctx, owners, worker, ran, counts, TimelyInv,
     Phased, Back
<1>15. ASSUME NEW c \in Cpu, WorkerEarlyDone(c) PROVE TimelyInv'
  BY <1>15, Points DEF WorkerEarlyDone, SuspendEarly, Goto, ctx, owners, worker, ran, counts,
     TimelyInv, Phased, Back
<1>16. ASSUME NEW c \in Cpu, WorkerEnable(c) PROVE TimelyInv'
  <2>1. /\ UNCHANGED <<Request, opc, phase, seen, timely>> /\ wpc' = [wpc EXCEPT ![c] = "reread"]
    BY <1>16 DEF WorkerEnable, Goto, owners, counts
  <2>2. opc = "wait" /\ phase = "ENABLE"  BY <1>16, AskedFor DEF WorkerEnable
  <2> QED  BY <2>1, <2>2 DEF TimelyInv, Phased
<1>17. ASSUME NEW c \in Cpu, WorkerLate(c) PROVE TimelyInv'
  BY <1>17, Points DEF WorkerLate, Asked, Goto, ctx, owners, worker, ran, counts, TimelyInv,
     Phased, Back
<1>18. ASSUME NEW c \in Cpu, WorkerLateDone(c) PROVE TimelyInv'
  BY <1>18, Points DEF WorkerLateDone, SuspendLate, Goto, ctx, owners, worker, ran, counts,
     TimelyInv, Phased, Back
<1>19. ASSUME NEW c \in Cpu, WorkerReread(c) PROVE TimelyInv'
  BY <1>19, Points DEF WorkerReread, Goto, ctx, owners, worker, ran, counts, TimelyInv, Phased,
     Back
<1>20. ASSUME NEW c \in Cpu, WorkerExit(c) PROVE TimelyInv'
  BY <1>20, Points DEF WorkerExit, Goto, ctx, owners, worker, ran, counts, TimelyInv, Phased,
     Back
<1>21. ASSUME NEW c \in Cpu, SuspendRegister(c) PROVE TimelyInv'
  BY <1>21, Points DEF SuspendRegister, ctx, owners, worker, ran, counts, TimelyInv, Phased,
     Back
<1>22. ASSUME NEW c \in Cpu, SuspendRegistered(c) PROVE TimelyInv'
  BY <1>22, Points DEF SuspendRegistered, ctx, owners, worker, ran, counts, TimelyInv, Phased,
     Back
<1>23. CASE UNCHANGED vars
  BY <1>23 DEF vars, ctx, owners, worker, ran, counts, TimelyInv, Phased, Back
<1> QED
  BY <1>1, <1>2, <1>3, <1>4, <1>5, <1>6, <1>7, <1>8, <1>9, <1>10, <1>11, <1>12, <1>13, <1>14,
     <1>15, <1>16, <1>17, <1>18, <1>19, <1>20, <1>21, <1>22, <1>23 DEF Next, Owner, SyncWorker

\* Every step keeps the invariant.
LEMMA ProtocolStep == ASSUME TypeOK, RendezvousInv, ProtocolInv, [Next]_vars PROVE ProtocolInv'
BY RequestStep, RanStep, LowStep, LoneStep, TimelyStep DEF ProtocolInv

\* It leaves the callbacks alone with their lists ...
LEMMA ProtocolAlone == ASSUME TypeOK, RendezvousInv, ProtocolInv PROVE CallbackAlone
<1> USE SyncAssumption DEF TypeOK, ProtocolInv
<1>1. InEarly(Cpu0) => Phased /\ phase = "EARLY" /\ opc \in {"run", "wait"}
  BY Points DEF InEarly, RequestInv, Phased
<1>2. InLate(Cpu0) => Phased /\ phase = "LATE" /\ opc \in {"run", "wait"}
  BY Points DEF InLate, RequestInv, Phased
<1>3. timely => SingleThreaded  BY <1>1 DEF TimelyInv, SingleThreaded
<1>4. ASSUME InEarly(Cpu0) \/ InLate(Cpu0)
      PROVE  opc \in {"run", "wait"} /\ WorkersIn({"loop", "spin", "early", "late", "reread"})
  <2>1. opc \in {"run", "wait"} /\ phase \in {"EARLY", "LATE"}  BY <1>1, <1>2, <1>4
  <2>2. CASE opc = "wait"  BY <2>1, <2>2 DEF RendezvousInv, WaitInv
  <2>3. CASE opc = "run" /\ Request = "DISABLE"
    BY <2>3 DEF RendezvousInv, DrainInv, WorkersIn
  <2>4. CASE opc = "run" /\ Request # "DISABLE"
    BY <2>4 DEF RendezvousInv, SettledInv, Settled, WorkersIn
  <2> QED  BY <2>1, <2>2, <2>3, <2>4
<1>5. ASSUME InEarly(Cpu0) \/ InLate(Cpu0)
      PROVE  editing = {} /\ \A c \in Cpu \ {SyncOwner} : wpc[c] \notin {"none", "queued"}
  <2>1. \A c \in Cpu \ {SyncOwner} : wpc[c] \notin {"none", "queued"}
    BY <1>4, <1>5 DEF WorkersIn
  <2>2. \A c \in Cpu : c \notin editing  BY <1>4, <1>5, <2>1 DEF LoneInv
  <2> QED  BY <2>1, <2>2
<1> QED  BY <1>3, <1>5 DEF CallbackAlone

\* ... and runs them once on every CPU.
LEMMA ProtocolOnce == ASSUME TypeOK, RendezvousInv, ProtocolInv PROVE OncePerSuspend
<1>1. opc = "idle" => early = Whole /\ late = Whole  BY DEF ProtocolInv, RanInv
<1>2. ASSUME NEW w \in Cpu, wpc[w] = "loop", Request = "EXIT" PROVE irql[w] = "dispatch"
  <2>1. opc = "wait" /\ phase = "EXIT"  BY <1>2, Points
  <2> QED  BY <1>2, <2>1 DEF ProtocolInv, LowInv, Phased
<1> QED  BY <1>1, <1>2 DEF OncePerSuspend, Whole

\* The protocol of SuspendTrigger for any number of CPUs: the early and late
\* callbacks run on every CPU of a successful suspend and on none of a
\* cancelled one, never while a CPU changes the lists of callbacks or is not
\* captured, the early ones (on a timely machine) only while no CPU takes
\* interrupts; and SyncWorker leaves at DISPATCH_LEVEL.
THEOREM SuspendProtocol == Spec => []SuspendInv
<1>1. Init => ProtocolInv
  BY DEF Init, ProtocolInv, RequestInv, RanInv, RunBy, LowInv, LoneInv, TimelyInv, Phased, Whole
<1>2. TypeOK /\ RendezvousInv /\ ProtocolInv /\ [Next]_vars => ProtocolInv'  BY ProtocolStep
<1>3. TypeOK /\ RendezvousInv /\ ProtocolInv => SuspendInv
  BY ProtocolAlone, ProtocolOnce DEF SuspendInv
<1> QED  BY <1>1, <1>2, <1>3, Rendezvous, PTL DEF Spec

-----------------------------------------------------------------------------
(* The debug callbacks.                                                    *)

\* The callbacks that the links forward and backward go through: while one is put in or taken
\* out they differ.
Stage == {"none", "allocated", "flink", "blink", "linked", "registered", "removing", "unlinked"}
Forward == {n \in Reporter : at[n] \in {"linked", "registered", "removing"}}
Backward == {n \in Reporter : at[n] \in {"registered", "removing", "unlinked"}}

\* In the order of their registration, a and b of S, or an end of the list, have none between them.
Neighbours(rank, S, a, b) ==
  /\ a # "list" /\ b # "list" => rank[a] < rank[b]
  /\ \A m \in S : ~((a = "list" \/ rank[a] < rank[m]) /\ (b = "list" \/ rank[m] < rank[b]))

LockedStages ==
  /\ at \in [Reporter -> Stage] /\ callbackLock \in Reporter \cup {"free", "trigger"}
  /\ flink \in [Reporter \cup {"list"} -> Reporter \cup {"list"}]
  /\ blink \in [Reporter \cup {"list"} -> Reporter \cup {"list"}]
  /\ \A n \in Reporter : at[n] \notin {"none", "registered"} <=> callbackLock = n

Linked(rank) ==
  /\ \A a \in Forward \cup {"list"} : /\ flink[a] \in Forward \cup {"list"}
                                      /\ Neighbours(rank, Forward, a, flink[a])
  /\ \A b \in Backward \cup {"list"} : /\ blink[b] \in Backward \cup {"list"}
                                       /\ Neighbours(rank, Backward, blink[b], b)
  /\ \A n \in Reporter :
       /\ at[n] \in {"flink", "blink", "linked"} => flink[n] = "list"
       /\ at[n] \in {"blink", "linked"} => blink[n] = blink["list"]
       /\ at[n] = "unlinked" => /\ flink[n] \in Forward \cup {"list"}
                                /\ Neighbours(rank, Backward, n, flink[n])

\* A walk has called those before its cursor.
Walked(rank) ==
  /\ cursor \in Forward \cup {"list", "none"} /\ ~walkedFreed /\ crashed \in BOOLEAN
  /\ cursor # "none" => /\ crashed \/ callbackLock = "trigger"
                        /\ called = {m \in Forward : cursor = "list" \/ rank[m] < rank[cursor]}
  /\ crashed => called \subseteq Forward

Order(rank, top) ==
  /\ rank \in [Reporter -> Nat] /\ top \in Nat /\ \A n \in Reporter : rank[n] < top
  /\ \A m, n \in Forward \cup Backward : rank[m] = rank[n] => m = n

DebugOrder(rank, top) == Order(rank, top) /\ LockedStages /\ Linked(rank) /\ Walked(rank)
DebugIInv == \E rank, top : DebugOrder(rank, top)

\* Each end of a neighbourhood determines the other.
LEMMA OneNeighbour ==
  ASSUME NEW S \in SUBSET Reporter, NEW rank \in [Reporter -> Nat],
         \A m, n \in S : rank[m] = rank[n] => m = n,
         NEW a \in S \cup {"list"}, NEW b \in S \cup {"list"}, NEW c \in S \cup {"list"}
  PROVE  /\ Neighbours(rank, S, a, c) /\ Neighbours(rank, S, b, c) => a = b
         /\ Neighbours(rank, S, c, a) /\ Neighbours(rank, S, c, b) => a = b
<1>1. ASSUME a # "list", b # "list", a # b PROVE rank[a] < rank[b] \/ rank[b] < rank[a]
  <2>1. rank[a] \in Nat /\ rank[b] \in Nat /\ rank[a] # rank[b]  BY <1>1
  <2> QED  BY <2>1
<1>2. ASSUME Neighbours(rank, S, a, c), Neighbours(rank, S, b, c), a # b PROVE FALSE
  BY <1>1, <1>2 DEF Neighbours
<1>3. ASSUME Neighbours(rank, S, c, a), Neighbours(rank, S, c, b), a # b PROVE FALSE
  BY <1>1, <1>3 DEF Neighbours
<1> QED  BY <1>2, <1>3

\* Taking out one makes its neighbours neighbours.
LEMMA TakeOut ==
  ASSUME NEW S \in SUBSET Reporter, NEW rank \in [Reporter -> Nat],
         \A m, n \in S : rank[m] = rank[n] => m = n,
         NEW n \in S, NEW p \in S \cup {"list"}, NEW f \in S \cup {"list"},
         Neighbours(rank, S, p, n), Neighbours(rank, S, n, f)
  PROVE  Neighbours(rank, S \ {n}, p, f) /\ p # n /\ f # n
<1>1. n # "list" /\ rank[n] \in Nat  BY DebugAssumption
<1>2. p # n /\ f # n  BY <1>1 DEF Neighbours
<1>3. p # "list" /\ f # "list" => rank[p] < rank[f]
  <2>1. p # "list" => rank[p] \in Nat /\ rank[p] < rank[n]  BY <1>1 DEF Neighbours
  <2>2. f # "list" => rank[f] \in Nat /\ rank[n] < rank[f]  BY <1>1 DEF Neighbours
  <2> QED  BY <1>1, <2>1, <2>2
<1>4. ASSUME NEW m \in S \ {n}, p = "list" \/ rank[p] < rank[m], f = "list" \/ rank[m] < rank[f]
      PROVE  FALSE
  <2>1. rank[m] \in Nat /\ rank[m] # rank[n]  OBVIOUS
  <2>2. CASE rank[m] < rank[n]  BY <1>1, <1>4, <2>2 DEF Neighbours
  <2>3. CASE rank[n] < rank[m]  BY <1>1, <1>4, <2>3 DEF Neighbours
  <2> QED  BY <1>1, <2>1, <2>2, <2>3
<1> QED  BY <1>2, <1>3, <1>4 DEF Neighbours

\* One that ranks above all is the last.
LEMMA PutLast ==
  ASSUME NEW S \in SUBSET Reporter, NEW rank \in [Reporter -> Nat], NEW n \in Reporter \ S,
         \A m \in S : rank[m] < rank[n]
  PROVE  /\ \A a \in S \cup {"list"}, b \in S :
              Neighbours(rank, S, a, b) => Neighbours(rank, S \cup {n}, a, b)
         /\ \A a \in S \cup {"list"} : Neighbours(rank, S, a, "list") => Neighbours(rank, S \cup {n}, a, n)
         /\ Neighbours(rank, S \cup {n}, n, "list")
<1>1. n # "list" /\ rank[n] \in Nat /\ \A m \in S : rank[m] \in Nat /\ m # "list" /\ ~(rank[n] < rank[m])
  BY DebugAssumption
<1>2. ASSUME NEW a \in S \cup {"list"}, NEW b \in S, Neighbours(rank, S, a, b)
      PROVE  Neighbours(rank, S \cup {n}, a, b)
  BY <1>1, <1>2 DEF Neighbours
<1>3. ASSUME NEW a \in S \cup {"list"}, Neighbours(rank, S, a, "list")
      PROVE  Neighbours(rank, S \cup {n}, a, n)
  BY <1>1, <1>3 DEF Neighbours
<1>4. Neighbours(rank, S \cup {n}, n, "list")  BY <1>1 DEF Neighbours
<1> QED  BY <1>2, <1>3, <1>4

LEMMA DebugStart == ASSUME DebugInit PROVE DebugIInv
<1> DEFINE rank == [n \in Reporter |-> 0]
<1>1. Forward = {} /\ Backward = {}  BY DEF DebugInit, Forward, Backward
<1>2. Order(rank, 1)  BY <1>1 DEF Order
<1>3. LockedStages  BY DebugAssumption DEF DebugInit, LockedStages, Stage
<1>4. flink["list"] = "list" /\ blink["list"] = "list"  BY DEF DebugInit
<1>5. Linked(rank)
  <2>1. \A n \in Reporter : at[n] = "none"  BY DEF DebugInit
  <2> QED  BY <1>1, <1>4, <2>1 DEF Linked, Neighbours
<1>6. Walked(rank)  BY <1>1 DEF Walked, DebugInit
<1> QED  BY <1>2, <1>3, <1>5, <1>6 DEF DebugIInv, DebugOrder

\* Who changes the list has it alone, and nobody walks it.
LEMMA Alone ==
  ASSUME NEW rank, NEW top, DebugOrder(rank, top), NEW n \in Reporter,
         ~crashed, callbackLock \in {"free", n}
  PROVE  /\ cursor = "none"
         /\ \A m \in Reporter \ {n} : at[m] \in {"none", "registered"}
         /\ at[n] \in Stage
<1>1. n # "trigger" /\ "free" \notin Reporter  BY DebugAssumption
<1> QED  BY <1>1 DEF DebugOrder, Walked, LockedStages

\* A stage whose links nobody follows: the lock is taken, or a link of one that is not listed is set.
LEMMA QuietStep ==
  ASSUME NEW rank, NEW top, DebugOrder(rank, top), NEW n \in Reporter, NEW from, NEW to,
         At(n, from, to), UNCHANGED walkVars, callbackLock' = n,
         \/ /\ <<from, to>> \in {<<"none", "allocated">>, <<"registered", "removing">>}
            /\ callbackLock = "free" /\ UNCHANGED linkVars
         \/ /\ <<from, to>> = <<"allocated", "flink">> /\ Link(n, "list") /\ callbackLock = n
         \/ /\ <<from, to>> = <<"flink", "blink">> /\ BackLink(n, blink["list"]) /\ callbackLock = n
  PROVE  DebugOrder(rank, top)'
<1>1. /\ ~crashed /\ at[n] = from /\ at' = [at EXCEPT ![n] = to] /\ callbackLock \in {"free", n}
      /\ UNCHANGED <<cursor, called, crashed, walkedFreed>>
  BY DEF At, walkVars
<1>2. cursor = "none" /\ \A m \in Reporter \ {n} : at[m] \in {"none", "registered"}  BY <1>1, Alone
<1>3. /\ at'[n] = to /\ \A m \in Reporter \ {n} : at'[m] = at[m]
      /\ to \in Stage /\ to \notin {"none", "registered"} /\ at' \in [Reporter -> Stage]
  BY <1>1 DEF DebugOrder, LockedStages, Stage
<1>4. Forward' = Forward /\ Backward' = Backward
  BY <1>1, <1>3 DEF Forward, Backward
<1>5. /\ n \in Reporter \cup {"list"} /\ "list" \in Reporter \cup {"list"} /\ n # "list"
      /\ blink["list"] \in Reporter \cup {"list"}
  BY DebugAssumption DEF DebugOrder, LockedStages
<1>6. /\ flink' \in [Reporter \cup {"list"} -> Reporter \cup {"list"}]
      /\ blink' \in [Reporter \cup {"list"} -> Reporter \cup {"list"}]
      /\ \A m \in (Reporter \cup {"list"}) \ {n} : flink'[m] = flink[m] /\ blink'[m] = blink[m]
      /\ to # "flink" => flink'[n] = flink[n]
      /\ to # "blink" => blink'[n] = blink[n]
      /\ to = "flink" => flink'[n] = "list"
      /\ to = "blink" => blink'[n] = blink["list"]
  BY <1>5 DEF DebugOrder, LockedStages, linkVars, Link, BackLink
<1>7. LockedStages'  BY <1>2, <1>3, <1>6 DEF DebugOrder, LockedStages
<1>8. \A m \in Forward \cup Backward \cup {"list"} :
        /\ m \in Forward \cup {"list"} => flink'[m] = flink[m]
        /\ m \in Backward \cup {"list"} => blink'[m] = blink[m]
  <2>1. n \in Forward => from = "registered"  BY <1>1 DEF Forward
  <2>2. n \in Backward => from = "registered"  BY <1>1 DEF Backward
  <2>3. from = "registered" => to = "removing"  OBVIOUS
  <2>4. Forward \subseteq Reporter /\ Backward \subseteq Reporter  BY DEF Forward, Backward
  <2> QED  BY <1>5, <1>6, <2>1, <2>2, <2>3, <2>4
<1>9. \A m \in Reporter :
        /\ at'[m] \in {"flink", "blink", "linked"} => flink'[m] = "list"
        /\ at'[m] \in {"blink", "linked"} => blink'[m] = blink'["list"]
        /\ at'[m] # "unlinked"
  <2>1. ASSUME NEW m \in Reporter \ {n} PROVE at'[m] \in {"none", "registered"}  BY <1>2, <1>3
  <2>2. to \in {"allocated", "removing", "flink", "blink"}  OBVIOUS
  <2>3. to = "blink" => flink'[n] = "list" /\ blink'[n] = blink["list"]
    BY <1>1, <1>6 DEF DebugOrder, Linked
  <2>4. blink'["list"] = blink["list"]  BY <1>5, <1>6
  <2> QED  BY <1>3, <1>6, <2>1, <2>2, <2>3, <2>4
<1>10. Linked(rank)'
  <2>1. \A a \in Forward' \cup {"list"} : /\ flink'[a] \in Forward' \cup {"list"}
                                          /\ Neighbours(rank, Forward', a, flink'[a])
    BY <1>4, <1>8 DEF DebugOrder, Linked
  <2>2. \A b \in Backward' \cup {"list"} : /\ blink'[b] \in Backward' \cup {"list"}
                                           /\ Neighbours(rank, Backward', blink'[b], b)
    BY <1>4, <1>8 DEF DebugOrder, Linked
  <2> QED  BY <1>9, <2>1, <2>2 DEF Linked
<1>11. Walked(rank)'  BY <1>1, <1>2, <1>4 DEF DebugOrder, Walked
<1>12. Order(rank, top)'  BY <1>4 DEF DebugOrder, Order
<1> QED  BY <1>7, <1>10, <1>11, <1>12 DEF DebugOrder

\* InsertTailList: the last callback is linked to the new one, which then ranks above all.
LEMMA LinkStep ==
  ASSUME NEW rank, NEW top, DebugOrder(rank, top), NEW n \in Reporter,
         At(n, "blink", "linked"), Link(blink["list"], n), UNCHANGED <<callbackLock, walkVars>>
  PROVE  DebugIInv'
<1> DEFINE newrank == [rank EXCEPT ![n] = top]
           last == blink["list"]
<1>1. /\ ~crashed /\ at[n] = "blink" /\ at' = [at EXCEPT ![n] = "linked"]
      /\ flink' = [flink EXCEPT ![last] = n] /\ blink' = blink
      /\ UNCHANGED <<callbackLock, cursor, called, crashed, walkedFreed>>
  BY DEF At, walkVars, Link
<1>2. callbackLock = n  BY <1>1 DEF DebugOrder, LockedStages
<1>3. cursor = "none" /\ \A m \in Reporter \ {n} : at[m] \in {"none", "registered"}  BY <1>1, <1>2, Alone
<1>4. /\ at'[n] = "linked" /\ (\A m \in Reporter \ {n} : at'[m] = at[m]) /\ at' \in [Reporter -> Stage]
  BY <1>1 DEF DebugOrder, LockedStages, Stage
<1>5. /\ n \notin Forward /\ Forward' = Forward \cup {n}
      /\ Backward' = Backward /\ Backward = Forward /\ n # "list"
      /\ Forward \in SUBSET Reporter
  BY <1>1, <1>3, <1>4, DebugAssumption DEF Forward, Backward
<1>6. last \in Forward \cup {"list"} /\ Neighbours(rank, Forward, last, "list") /\ last # n
  BY <1>5 DEF DebugOrder, Linked
<1>7. /\ flink' \in [Reporter \cup {"list"} -> Reporter \cup {"list"}] /\ flink'[last] = n
      /\ \A a \in (Reporter \cup {"list"}) \ {last} : flink'[a] = flink[a]
  BY <1>1, <1>5, <1>6 DEF DebugOrder, LockedStages
<1>8. LockedStages'  BY <1>1, <1>2, <1>3, <1>4, <1>7 DEF DebugOrder, LockedStages
<1>9. /\ newrank \in [Reporter -> Nat] /\ newrank[n] = top
      /\ \A m \in Reporter \ {n} : newrank[m] = rank[m] /\ rank[m] < top
      /\ top \in Nat /\ rank \in [Reporter -> Nat]
  BY DEF DebugOrder, Order
<1> HIDE DEF newrank
<1>10. Order(newrank, top + 1)'
  <2>1. top + 1 \in Nat /\ \A m \in Reporter : newrank[m] < top + 1
    <3>1. \A m \in Reporter : newrank[m] \in Nat /\ newrank[m] <= top  BY <1>9
    <3> QED  BY <1>9, <3>1
  <2>2. ASSUME NEW k \in Forward' \cup Backward', NEW m \in Forward' \cup Backward', newrank[k] = newrank[m]
        PROVE  k = m
    <3>1. \A i, j \in Forward : rank[i] = rank[j] => i = j  BY DEF DebugOrder, Order
    <3>2. \A i \in Forward : i \in Reporter \ {n} /\ newrank[i] \in Nat /\ newrank[i] < top /\ newrank[i] = rank[i]
      BY <1>5, <1>9
    <3> QED  BY <1>5, <1>9, <2>2, <3>1, <3>2
  <2> QED  BY <1>9, <2>1, <2>2 DEF Order
<1>11. \A a, b \in Forward \cup {"list"}, S \in {Forward} :
         Neighbours(rank, S, a, b) => Neighbours(newrank, S, a, b)
  <2>1. \A i \in Forward : newrank[i] = rank[i]  BY <1>5, <1>9
  <2> QED  BY <2>1 DEF Neighbours
<1>12. /\ \A a \in Forward \cup {"list"}, b \in Forward :
            Neighbours(newrank, Forward, a, b) => Neighbours(newrank, Forward \cup {n}, a, b)
       /\ \A a \in Forward \cup {"list"} :
            Neighbours(newrank, Forward, a, "list") => Neighbours(newrank, Forward \cup {n}, a, n)
       /\ Neighbours(newrank, Forward \cup {n}, n, "list")
  <2>1. n \in Reporter \ Forward /\ \A m \in Forward : newrank[m] < newrank[n]  BY <1>5, <1>9
  <2> QED  BY <1>5, <1>9, <2>1, PutLast
<1>13. ASSUME NEW a \in Forward' \cup {"list"}
       PROVE  flink'[a] \in Forward' \cup {"list"} /\ Neighbours(newrank, Forward', a, flink'[a])
  <2>1. CASE a = n
    <3>1. flink'[n] = "list"  BY <1>1, <1>5, <1>6, <1>7 DEF DebugOrder, Linked
    <3> QED  BY <1>5, <1>12, <2>1, <3>1
  <2>2. CASE a = last
    <3>1. Neighbours(newrank, Forward, last, "list")  BY <1>6, <1>11
    <3> QED  BY <1>5, <1>6, <1>7, <1>12, <2>2, <3>1
  <2>3. CASE a # n /\ a # last
    <3>1. a \in Forward \cup {"list"} /\ flink'[a] = flink[a]  BY <1>5, <1>7, <2>3
    <3>2. flink[a] \in Forward \cup {"list"} /\ Neighbours(rank, Forward, a, flink[a])
      BY <3>1 DEF DebugOrder, Linked
    <3>3. \A i, j \in Forward : rank[i] = rank[j] => i = j  BY DEF DebugOrder, Order
    <3>4. "list" \in Forward \cup {"list"} /\ last \in Forward \cup {"list"}  BY <1>6
    <3>5. Neighbours(rank, Forward, a, "list") => a = last
      BY <1>5, <1>6, <1>9, <3>1, <3>3, <3>4, OneNeighbour
    <3>6. flink[a] # "list"  BY <2>3, <3>2, <3>5
    <3>7. Neighbours(newrank, Forward, a, flink[a])  BY <1>11, <3>1, <3>2
    <3> QED  BY <1>5, <1>12, <3>1, <3>2, <3>6, <3>7
  <2> QED  BY <2>1, <2>2, <2>3
<1>14. ASSUME NEW b \in Backward' \cup {"list"}
       PROVE  blink'[b] \in Backward' \cup {"list"} /\ Neighbours(newrank, Backward', blink'[b], b)
  <2>1. blink[b] \in Backward \cup {"list"} /\ Neighbours(rank, Backward, blink[b], b)
    BY <1>5 DEF DebugOrder, Linked
  <2> QED  BY <1>1, <1>5, <1>11, <2>1
<1>15. Linked(newrank)'
  <2>1. \A m \in Reporter :
          /\ at'[m] \in {"flink", "blink", "linked"} => flink'[m] = "list"
          /\ at'[m] \in {"blink", "linked"} => blink'[m] = blink'["list"]
          /\ at'[m] # "unlinked"
    <3>1. flink[n] = "list" /\ blink[n] = last  BY <1>1 DEF DebugOrder, Linked
    <3> QED  BY <1>1, <1>3, <1>4, <1>6, <1>7, <3>1
  <2> QED  BY <1>13, <1>14, <2>1 DEF Linked
<1>16. Walked(newrank)'  BY <1>1, <1>3 DEF DebugOrder, Walked
<1>17. DebugOrder(newrank, top + 1)'  BY <1>8, <1>10, <1>15, <1>16 DEF DebugOrder
<1> QED  BY <1>17 DEF DebugIInv

\* The end of InsertTailList: the new callback becomes the last one also on the way back.
LEMMA EnlistStep ==
  ASSUME NEW rank, NEW top, DebugOrder(rank, top), NEW n \in Reporter,
         At(n, "linked", "registered"), BackLink("list", n), callbackLock' = "free", UNCHANGED walkVars
  PROVE  DebugOrder(rank, top)'
<1> DEFINE last == blink["list"]
<1>1. /\ ~crashed /\ at[n] = "linked" /\ at' = [at EXCEPT ![n] = "registered"]
      /\ blink' = [blink EXCEPT !["list"] = n] /\ flink' = flink
      /\ callbackLock' = "free" /\ UNCHANGED <<cursor, called, crashed, walkedFreed>>
  BY DEF At, walkVars, BackLink
<1>2. callbackLock = n  BY <1>1 DEF DebugOrder, LockedStages
<1>3. cursor = "none" /\ \A m \in Reporter \ {n} : at[m] \in {"none", "registered"}  BY <1>1, <1>2, Alone
<1>4. /\ at'[n] = "registered" /\ (\A m \in Reporter \ {n} : at'[m] = at[m]) /\ at' \in [Reporter -> Stage]
  BY <1>1 DEF DebugOrder, LockedStages, Stage
<1>5. /\ Forward' = Forward /\ Backward' = Forward /\ Forward = Backward \cup {n} /\ n \notin Backward
      /\ n # "list" /\ Backward \in SUBSET Reporter
  BY <1>1, <1>3, <1>4, DebugAssumption DEF Forward, Backward
<1>6. /\ blink' \in [Reporter \cup {"list"} -> Reporter \cup {"list"}] /\ blink'["list"] = n
      /\ \A b \in Reporter : blink'[b] = blink[b]
  BY <1>1, DebugAssumption DEF DebugOrder, LockedStages
<1>7. LockedStages'
  <2>1. \A m \in Reporter : m # "free"  BY DebugAssumption
  <2> QED  BY <1>1, <1>3, <1>4, <1>6, <2>1 DEF DebugOrder, LockedStages
<1>8. Order(rank, top)'  BY <1>5 DEF DebugOrder, Order
<1>9. rank \in [Reporter -> Nat] /\ \A m \in Backward : rank[m] < rank[n]
  <2>1. Neighbours(rank, Forward, n, "list")  BY <1>1, <1>5 DEF DebugOrder, Linked
  <2>2. rank \in [Reporter -> Nat] /\ \A m \in Backward : rank[m] # rank[n]
    BY <1>5 DEF DebugOrder, Order
  <2>3. \A m \in Backward : ~(rank[n] < rank[m])  BY <1>5, <2>1 DEF Neighbours
  <2> QED  BY <1>5, <2>2, <2>3
<1>10. /\ \A a \in Backward \cup {"list"}, b \in Backward :
            Neighbours(rank, Backward, a, b) => Neighbours(rank, Backward \cup {n}, a, b)
       /\ \A a \in Backward \cup {"list"} :
            Neighbours(rank, Backward, a, "list") => Neighbours(rank, Backward \cup {n}, a, n)
       /\ Neighbours(rank, Backward \cup {n}, n, "list")
  BY <1>5, <1>9, PutLast
<1>11. \A b \in Backward \cup {"list"} : blink[b] \in Backward \cup {"list"} /\ Neighbours(rank, Backward, blink[b], b)
  BY DEF DebugOrder, Linked
<1>12. ASSUME NEW b \in Backward' \cup {"list"}
       PROVE  blink'[b] \in Backward' \cup {"list"} /\ Neighbours(rank, Backward', blink'[b], b)
  <2>1. CASE b = n
    <3>1. blink'[n] = last  BY <1>1, <1>6 DEF DebugOrder, Linked
    <3> QED  BY <1>5, <1>10, <1>11, <2>1, <3>1
  <2>2. CASE b = "list"  BY <1>5, <1>6, <1>10, <2>2
  <2>3. CASE b # n /\ b # "list"
    <3>1. b \in Backward /\ blink'[b] = blink[b]  BY <1>5, <1>6, <2>3
    <3> QED  BY <1>5, <1>10, <1>11, <3>1
  <2> QED  BY <2>1, <2>2, <2>3
<1>13. Linked(rank)'
  <2>1. \A m \in Reporter : at'[m] \in {"none", "registered"}  BY <1>3, <1>4
  <2>2. \A a \in Forward' \cup {"list"} : /\ flink'[a] \in Forward' \cup {"list"}
                                          /\ Neighbours(rank, Forward', a, flink'[a])
    BY <1>1, <1>5 DEF DebugOrder, Linked
  <2> QED  BY <1>12, <2>1, <2>2 DEF Linked
<1>14. Walked(rank)'  BY <1>1, <1>3 DEF DebugOrder, Walked
<1> QED  BY <1>7, <1>8, <1>13, <1>14 DEF DebugOrder

\* RemoveEntryList: the one before is linked to the one behind.
LEMMA UnlinkStep ==
  ASSUME NEW rank, NEW top, DebugOrder(rank, top), NEW n \in Reporter,
         At(n, "removing", "unlinked"), Link(blink[n], flink[n]), UNCHANGED <<callbackLock, walkVars>>
  PROVE  DebugOrder(rank, top)'
<1> DEFINE p == blink[n]
           f == flink[n]
<1>1. /\ ~crashed /\ at[n] = "removing" /\ at' = [at EXCEPT ![n] = "unlinked"]
      /\ flink' = [flink EXCEPT ![p] = f] /\ blink' = blink
      /\ UNCHANGED <<callbackLock, cursor, called, crashed, walkedFreed>>
  BY DEF At, walkVars, Link
<1>2. callbackLock = n  BY <1>1 DEF DebugOrder, LockedStages
<1>3. cursor = "none" /\ \A m \in Reporter \ {n} : at[m] \in {"none", "registered"}  BY <1>1, <1>2, Alone
<1>4. /\ at'[n] = "unlinked" /\ (\A m \in Reporter \ {n} : at'[m] = at[m]) /\ at' \in [Reporter -> Stage]
  BY <1>1 DEF DebugOrder, LockedStages, Stage
<1>5. /\ Backward' = Backward /\ Forward = Backward /\ Forward' = Forward \ {n} /\ n \in Forward
      /\ n # "list" /\ Forward \in SUBSET Reporter
  BY <1>1, <1>3, <1>4, DebugAssumption DEF Forward, Backward
<1>6. Order(rank, top)'  BY <1>5 DEF DebugOrder, Order
<1>7. rank \in [Reporter -> Nat] /\ \A i, j \in Forward : rank[i] = rank[j] => i = j
  BY DEF DebugOrder, Order
<1>8. /\ p \in Forward \cup {"list"} /\ Neighbours(rank, Forward, p, n)
      /\ f \in Forward \cup {"list"} /\ Neighbours(rank, Forward, n, f)
  BY <1>5 DEF DebugOrder, Linked
<1>9. Neighbours(rank, Forward \ {n}, p, f) /\ p # n /\ f # n  BY <1>5, <1>7, <1>8, TakeOut
<1>10. /\ flink' \in [Reporter \cup {"list"} -> Reporter \cup {"list"}] /\ flink'[p] = f
       /\ \A a \in (Reporter \cup {"list"}) \ {p} : flink'[a] = flink[a]
  BY <1>1, <1>5, <1>8 DEF DebugOrder, LockedStages
<1>11. LockedStages'  BY <1>1, <1>2, <1>3, <1>4, <1>10 DEF DebugOrder, LockedStages
<1>12. ASSUME NEW a \in Forward' \cup {"list"}
       PROVE  flink'[a] \in Forward' \cup {"list"} /\ Neighbours(rank, Forward', a, flink'[a])
  <2>1. CASE a = p  BY <1>5, <1>8, <1>9, <1>10, <2>1
  <2>2. CASE a # p
    <3>1. a \in Forward \cup {"list"} /\ flink'[a] = flink[a]  BY <1>5, <1>10, <2>2
    <3>2. flink[a] \in Forward \cup {"list"} /\ Neighbours(rank, Forward, a, flink[a])
      BY <3>1 DEF DebugOrder, Linked
    <3>3. n \in Forward \cup {"list"}  BY <1>5
    <3>4. Neighbours(rank, Forward, a, n) => a = p
      BY <1>5, <1>7, <1>8, <3>1, <3>3, OneNeighbour
    <3>5. flink[a] # n  BY <2>2, <3>2, <3>4
    <3>6. Neighbours(rank, Forward \ {n}, a, flink[a])  BY <3>2 DEF Neighbours
    <3> QED  BY <1>5, <3>1, <3>2, <3>5, <3>6
  <2> QED  BY <2>1, <2>2
<1>13. Linked(rank)'
  <2>1. \A m \in Reporter :
          /\ at'[m] \notin {"flink", "blink", "linked"}
          /\ at'[m] = "unlinked" => m = n
    BY <1>3, <1>4
  <2>2. flink'[n] = f /\ f \in Forward' \cup {"list"} /\ Neighbours(rank, Backward', n, f)
    BY <1>5, <1>8, <1>9, <1>10
  <2>3. \A b \in Backward' \cup {"list"} : /\ blink'[b] \in Backward' \cup {"list"}
                                           /\ Neighbours(rank, Backward', blink'[b], b)
    BY <1>1, <1>5 DEF DebugOrder, Linked
  <2> QED  BY <1>12, <2>1, <2>2, <2>3 DEF Linked
<1>14. Walked(rank)'  BY <1>1, <1>3 DEF DebugOrder, Walked
<1> QED  BY <1>6, <1>11, <1>13, <1>14 DEF DebugOrder

\* The end of RemoveEntryList: nothing leads to the callback any more, and it is freed.
LEMMA FreeStep ==
  ASSUME NEW rank, NEW top, DebugOrder(rank, top), NEW n \in Reporter,
         At(n, "unlinked", "none"), BackLink(flink[n], blink[n]), callbackLock' = "free", UNCHANGED walkVars
  PROVE  DebugOrder(rank, top)'
<1> DEFINE p == blink[n]
           f == flink[n]
<1>1. /\ ~crashed /\ at[n] = "unlinked" /\ at' = [at EXCEPT ![n] = "none"]
      /\ blink' = [blink EXCEPT ![f] = p] /\ flink' = flink
      /\ callbackLock' = "free" /\ UNCHANGED <<cursor, called, crashed, walkedFreed>>
  BY DEF At, walkVars, BackLink
<1>2. callbackLock = n  BY <1>1 DEF DebugOrder, LockedStages
<1>3. cursor = "none" /\ \A m \in Reporter \ {n} : at[m] \in {"none", "registered"}  BY <1>1, <1>2, Alone
<1>4. /\ at'[n] = "none" /\ (\A m \in Reporter \ {n} : at'[m] = at[m]) /\ at' \in [Reporter -> Stage]
  BY <1>1 DEF DebugOrder, LockedStages, Stage
<1>5. /\ Forward' = Forward /\ Backward' = Forward /\ Forward = Backward \ {n} /\ n \in Backward
      /\ n # "list" /\ Backward \in SUBSET Reporter
  BY <1>1, <1>3, <1>4, DebugAssumption DEF Forward, Backward
<1>6. Order(rank, top)'  BY <1>5 DEF DebugOrder, Order
<1>7. rank \in [Reporter -> Nat] /\ \A i, j \in Backward : rank[i] = rank[j] => i = j
  BY DEF DebugOrder, Order
<1>8. /\ p \in Backward \cup {"list"} /\ Neighbours(rank, Backward, p, n)
      /\ f \in Backward \cup {"list"} /\ Neighbours(rank, Backward, n, f)
  BY <1>1, <1>5 DEF DebugOrder, Linked
<1>9. Neighbours(rank, Backward \ {n}, p, f) /\ p # n /\ f # n  BY <1>5, <1>7, <1>8, TakeOut
<1>10. /\ blink' \in [Reporter \cup {"list"} -> Reporter \cup {"list"}] /\ blink'[f] = p
       /\ \A b \in (Reporter \cup {"list"}) \ {f} : blink'[b] = blink[b]
  BY <1>1, <1>5, <1>8 DEF DebugOrder, LockedStages
<1>11. LockedStages'
  <2>1. \A m \in Reporter : m # "free"  BY DebugAssumption
  <2> QED  BY <1>1, <1>3, <1>4, <1>10, <2>1 DEF DebugOrder, LockedStages
<1>12. ASSUME NEW b \in Backward' \cup {"list"}
       PROVE  blink'[b] \in Backward' \cup {"list"} /\ Neighbours(rank, Backward', blink'[b], b)
  <2>1. CASE b = f  BY <1>5, <1>8, <1>9, <1>10, <2>1
  <2>2. CASE b # f
    <3>1. b \in Backward \cup {"list"} /\ blink'[b] = blink[b]  BY <1>5, <1>10, <2>2
    <3>2. blink[b] \in Backward \cup {"list"} /\ Neighbours(rank, Backward, blink[b], b)
      BY <3>1 DEF DebugOrder, Linked
    <3>3. n \in Backward \cup {"list"}  BY <1>5
    <3>4. Neighbours(rank, Backward, n, b) => b = f
      BY <1>5, <1>7, <1>8, <3>1, <3>3, OneNeighbour
    <3>5. blink[b] # n  BY <2>2, <3>2, <3>4
    <3>6. Neighbours(rank, Backward \ {n}, blink[b], b)  BY <3>2 DEF Neighbours
    <3> QED  BY <1>5, <3>1, <3>2, <3>5, <3>6
  <2> QED  BY <2>1, <2>2
<1>13. Linked(rank)'
  <2>1. \A m \in Reporter : at'[m] \in {"none", "registered"}  BY <1>3, <1>4
  <2>2. \A a \in Forward' \cup {"list"} : /\ flink'[a] \in Forward' \cup {"list"}
                                          /\ Neighbours(rank, Forward', a, flink'[a])
    BY <1>1, <1>5 DEF DebugOrder, Linked
  <2> QED  BY <1>12, <2>1, <2>2 DEF Linked
<1>14. Walked(rank)'  BY <1>1, <1>3 DEF DebugOrder, Walked
<1> QED  BY <1>6, <1>11, <1>13, <1>14 DEF DebugOrder

\* What a walk leaves alone.
LEMMA ListAlone ==
  ASSUME NEW rank, NEW top, DebugOrder(rank, top), UNCHANGED <<linkVars, at>>
  PROVE  /\ Order(rank, top)' /\ Linked(rank)' /\ Forward' = Forward
         /\ callbackLock' = callbackLock => LockedStages'
<1>1. Forward' = Forward /\ Backward' = Backward /\ UNCHANGED <<flink, blink, at>>
  BY DEF linkVars, Forward, Backward
<1>2. Order(rank, top)'  BY <1>1 DEF DebugOrder, Order
<1>3. Linked(rank)'  BY <1>1 DEF DebugOrder, Linked
<1>4. callbackLock' = callbackLock => LockedStages'  BY <1>1 DEF DebugOrder, LockedStages
<1> QED  BY <1>1, <1>2, <1>3, <1>4

\* The walk begins at the first callback, in a crash wherever the list is.
LEMMA WalkStart ==
  ASSUME NEW rank, NEW top, DebugOrder(rank, top), DebugTrigger \/ DebugBugCheckCallback
  PROVE  DebugOrder(rank, top)'
<1>1. /\ UNCHANGED <<linkVars, at, walkedFreed>> /\ cursor' = flink["list"] /\ called' = {}
      /\ (crashed' \/ callbackLock' = "trigger") /\ crashed' \in BOOLEAN
  BY DEF DebugTrigger, DebugBugCheckCallback, DebugOrder, Walked
<1>2. Order(rank, top)' /\ Linked(rank)' /\ Forward' = Forward  BY <1>1, ListAlone
<1>3. LockedStages'
  <2>1. CASE DebugTrigger
    <3>1. \A n \in Reporter : n # "free" /\ n # "trigger"  BY DebugAssumption
    <3>2. UNCHANGED <<flink, blink, at>> /\ callbackLock = "free" /\ callbackLock' = "trigger"
      BY <2>1 DEF DebugTrigger, linkVars
    <3> QED  BY <3>1, <3>2 DEF DebugOrder, LockedStages
  <2>2. CASE DebugBugCheckCallback  BY <1>1, <2>2, ListAlone DEF DebugBugCheckCallback
  <2> QED  BY <2>1, <2>2
<1>4. flink["list"] \in Forward \cup {"list"} /\ Neighbours(rank, Forward, "list", flink["list"])
  BY DEF DebugOrder, Linked
<1>5. {m \in Forward : cursor' = "list" \/ rank[m] < rank[cursor']} = {}
  BY <1>1, <1>4 DEF Neighbours
<1>6. Walked(rank)'  BY <1>1, <1>2, <1>4, <1>5 DEF DebugOrder, Walked
<1> QED  BY <1>2, <1>3, <1>6 DEF DebugOrder

\* DebugTriggerLocked calls one that is in the list, for the first time.
LEMMA WalkStep ==
  ASSUME NEW rank, NEW top, DebugOrder(rank, top), DebugTriggerLocked
  PROVE  DebugOrder(rank, top)'
<1>1. /\ cursor \in Reporter /\ called' = called \cup {cursor} /\ cursor' = flink[cursor]
      /\ walkedFreed' = (walkedFreed \/ at[cursor] = "none" \/ cursor \in called)
      /\ UNCHANGED <<linkVars, at, callbackLock, crashed>>
  BY DEF DebugTriggerLocked
<1>2. Order(rank, top)' /\ Linked(rank)' /\ Forward' = Forward /\ LockedStages'  BY <1>1, ListAlone
<1>3. /\ cursor # "none" /\ cursor # "list" /\ cursor \in Forward
      /\ called = {m \in Forward : rank[m] < rank[cursor]}
      /\ crashed \/ callbackLock = "trigger"
  BY <1>1, DebugAssumption DEF DebugOrder, Walked
<1>4. /\ rank \in [Reporter -> Nat] /\ \A i, j \in Forward : rank[i] = rank[j] => i = j
      /\ Forward \subseteq Reporter
  BY DEF DebugOrder, Order, Forward
<1>5. ~walkedFreed'
  <2>1. at[cursor] # "none"  BY <1>3 DEF Forward
  <2>2. cursor \notin called  BY <1>1, <1>3, <1>4
  <2> QED  BY <1>1, <2>1, <2>2 DEF DebugOrder, Walked
<1>6. cursor' \in Forward \cup {"list"} /\ Neighbours(rank, Forward, cursor, cursor')
  BY <1>1, <1>3 DEF DebugOrder, Linked
<1>7. called' = {m \in Forward : cursor' = "list" \/ rank[m] < rank[cursor']}
  <2>1. ASSUME NEW m \in Forward
        PROVE  (rank[m] < rank[cursor] \/ m = cursor) <=> (cursor' = "list" \/ rank[m] < rank[cursor'])
    <3>1. rank[m] \in Nat /\ rank[cursor] \in Nat /\ (rank[m] = rank[cursor] <=> m = cursor)
      BY <1>1, <1>3, <1>4
    <3>2. CASE cursor' = "list"
      <4>1. ~(rank[cursor] < rank[m])  BY <1>3, <1>6, <3>2 DEF Neighbours
      <4> QED  BY <3>1, <3>2, <4>1
    <3>3. CASE cursor' # "list"
      <4>1. rank[cursor'] \in Nat /\ rank[cursor] < rank[cursor']  BY <1>3, <1>4, <1>6, <3>3 DEF Neighbours
      <4>2. ~(rank[cursor] < rank[m] /\ rank[m] < rank[cursor'])  BY <1>3, <1>6, <3>3 DEF Neighbours
      <4> QED  BY <3>1, <3>3, <4>1, <4>2
    <3> QED  BY <3>2, <3>3
  <2>2. called' = {m \in Forward : rank[m] < rank[cursor] \/ m = cursor}  BY <1>1, <1>3
  <2> QED  BY <2>1, <2>2
<1>8. Walked(rank)'
  <2>1. called' \subseteq Forward  BY <1>7
  <2>2. crashed \in BOOLEAN  BY DEF DebugOrder, Walked
  <2> QED  BY <1>1, <1>2, <1>3, <1>5, <1>6, <1>7, <2>1, <2>2 DEF Walked
<1> QED  BY <1>2, <1>8 DEF DebugOrder

LEMMA WalkEnd ==
  ASSUME NEW rank, NEW top, DebugOrder(rank, top), DebugTriggered
  PROVE  DebugOrder(rank, top)'
<1>1. /\ cursor = "list" /\ cursor' = "none" /\ callbackLock' = (IF crashed THEN callbackLock ELSE "free")
      /\ UNCHANGED <<linkVars, at, called, crashed, walkedFreed>>
  BY DEF DebugTriggered
<1>2. Order(rank, top)' /\ Linked(rank)' /\ Forward' = Forward  BY <1>1, ListAlone
<1>3. LockedStages'
  <2>1. CASE crashed  BY <1>1, <2>1, ListAlone
  <2>2. CASE ~crashed
    <3>1. callbackLock = "trigger" /\ callbackLock' = "free" /\ UNCHANGED <<flink, blink, at>>
      BY <1>1, <2>2 DEF DebugOrder, Walked, linkVars
    <3>2. \A n \in Reporter : n # "free" /\ n # "trigger"  BY DebugAssumption
    <3> QED  BY <3>1, <3>2 DEF DebugOrder, LockedStages
  <2> QED  BY <2>1, <2>2
<1>4. Walked(rank)'  BY <1>1, <1>2 DEF DebugOrder, Walked
<1> QED  BY <1>2, <1>3, <1>4 DEF DebugOrder

\* A crash at any step of a change of the list: the bug check reaches the end, calls every
\* registered callback once, and touches none that is freed or only half linked.
THEOREM CrashWalksTheList == DebugSpec => []DebugInv
<1>1. ASSUME DebugIInv, [DebugNext]_debugVars PROVE DebugIInv'
  <2>1. PICK rank, top : DebugOrder(rank, top)  BY <1>1 DEF DebugIInv
  <2>2. CASE UNCHANGED debugVars
    <3>1. UNCHANGED <<linkVars, at, callbackLock, cursor, called, crashed, walkedFreed>>
      BY <2>2 DEF debugVars, linkVars
    <3>2. Order(rank, top)' /\ Linked(rank)' /\ Forward' = Forward /\ LockedStages'  BY <2>1, <3>1, ListAlone
    <3>3. Walked(rank)'  BY <2>1, <3>1, <3>2 DEF DebugOrder, Walked
    <3> QED  BY <3>2, <3>3 DEF DebugIInv, DebugOrder
  <2>3. ASSUME NEW n \in Reporter, DebugRegister(n) PROVE DebugIInv'
    <3>1. CASE At(n, "none", "allocated") /\ callbackLock = "free" /\ callbackLock' = n
               /\ UNCHANGED <<linkVars, walkVars>>
      <4>1. DebugOrder(rank, top)'  BY <2>1, <3>1, QuietStep
      <4> QED  BY <4>1 DEF DebugIInv
    <3>2. CASE At(n, "allocated", "flink") /\ Link(n, "list") /\ UNCHANGED <<callbackLock, walkVars>>
      <4>1. callbackLock = n  BY <2>1, <3>2 DEF DebugOrder, LockedStages, At
      <4>2. DebugOrder(rank, top)'  BY <2>1, <3>2, <4>1, QuietStep
      <4> QED  BY <4>2 DEF DebugIInv
    <3>3. CASE At(n, "flink", "blink") /\ BackLink(n, blink["list"]) /\ UNCHANGED <<callbackLock, walkVars>>
      <4>1. callbackLock = n  BY <2>1, <3>3 DEF DebugOrder, LockedStages, At
      <4>2. DebugOrder(rank, top)'  BY <2>1, <3>3, <4>1, QuietStep
      <4> QED  BY <4>2 DEF DebugIInv
    <3>4. CASE At(n, "blink", "linked") /\ Link(blink["list"], n) /\ UNCHANGED <<callbackLock, walkVars>>
      BY <2>1, <3>4, LinkStep
    <3>5. CASE At(n, "linked", "registered") /\ BackLink("list", n) /\ callbackLock' = "free" /\ UNCHANGED walkVars
      <4>1. DebugOrder(rank, top)'  BY <2>1, <3>5, EnlistStep
      <4> QED  BY <4>1 DEF DebugIInv
    <3> QED  BY <2>3, <3>1, <3>2, <3>3, <3>4, <3>5 DEF DebugRegister
  <2>4. ASSUME NEW n \in Reporter, DebugDeregister(n) PROVE DebugIInv'
    <3>1. CASE At(n, "registered", "removing") /\ callbackLock = "free" /\ callbackLock' = n
               /\ UNCHANGED <<linkVars, walkVars>>
      <4>1. DebugOrder(rank, top)'  BY <2>1, <3>1, QuietStep
      <4> QED  BY <4>1 DEF DebugIInv
    <3>2. CASE At(n, "removing", "unlinked") /\ Link(blink[n], flink[n]) /\ UNCHANGED <<callbackLock, walkVars>>
      <4>1. DebugOrder(rank, top)'  BY <2>1, <3>2, UnlinkStep
      <4> QED  BY <4>1 DEF DebugIInv
    <3>3. CASE At(n, "unlinked", "none") /\ BackLink(flink[n], blink[n]) /\ callbackLock' = "free"
               /\ UNCHANGED walkVars
      <4>1. DebugOrder(rank, top)'  BY <2>1, <3>3, FreeStep
      <4> QED  BY <4>1 DEF DebugIInv
    <3> QED  BY <2>4, <3>1, <3>2, <3>3 DEF DebugDeregister
  <2>5. ASSUME DebugTrigger \/ DebugBugCheckCallback PROVE DebugIInv'
    <3>1. DebugOrder(rank, top)'  BY <2>1, <2>5, WalkStart
    <3> QED  BY <3>1 DEF DebugIInv
  <2>6. ASSUME DebugTriggerLocked PROVE DebugIInv'
    <3>1. DebugOrder(rank, top)'  BY <2>1, <2>6, WalkStep
    <3> QED  BY <3>1 DEF DebugIInv
  <2>7. ASSUME DebugTriggered PROVE DebugIInv'
    <3>1. DebugOrder(rank, top)'  BY <2>1, <2>7, WalkEnd
    <3> QED  BY <3>1 DEF DebugIInv
  <2> QED  BY <1>1, <2>2, <2>3, <2>4, <2>5, <2>6, <2>7 DEF DebugNext
<1>2. ASSUME DebugIInv PROVE DebugInv
  <2>1. PICK rank, top : DebugOrder(rank, top)  BY <1>2 DEF DebugIInv
  <2>2. ~walkedFreed /\ (crashed => called \subseteq Forward)  BY <2>1 DEF DebugOrder, Walked
  <2>3. crashed /\ cursor = "list" => \A n \in Reporter : at[n] = "registered" => n \in called
    BY <2>1 DEF DebugOrder, Walked, Forward
  <2> QED  BY <2>2, <2>3 DEF DebugInv, Forward
<1> QED  BY <1>1, <1>2, DebugStart, PTL DEF DebugSpec
-----------------------------------------------------------------------------
(* Ladder.                                                                 *)

\* Interfaces acquire those of a lower rank.
Rank == [debug |-> 0, unplug |-> 0, suspend |-> 1, range_set |-> 1, cache |-> 1, gnttab |-> 2,
         shared_info |-> 2, evtchn_two_level |-> 3, evtchn_fifo |-> 3, evtchn |-> 4, store |-> 5,
         console |-> 5, balloon |-> 6]
\* The ABIs are acquired by evtchn alone.
Abis == {"evtchn_two_level", "evtchn_fifo"}
Public == Counted \ Abis
Callable(n, w) == \/ w \in Public /\ Rank[w] < Rank[n]
                  \/ w = "abi" /\ n = "evtchn"
Private(w) == w \notin DOMAIN Ladders /\ w # "abi" /\ w \notin DOMAIN Copies /\ w \notin Probes

Ups(n) == Ladders[n].up
Unwinds(n) == Ladders[n].unwind
Downs(n) == Ladders[n].down

\* What a function has before place k of its table.
UpTo(n, k)       == {Ups(n)[i][1] : i \in 1 .. k - 1}
StillThere(n, k) == {Downs(n)[i] : i \in k .. Len(Downs(n))}
Everything(n)    == UpTo(n, Len(Ups(n)) + 1)

\* What w needs to be there.
Based(n, w, S) ==
  /\ \A x \in DOMAIN Registered : w \in Registered[x] => x \in S
  /\ n \in DOMAIN Prints /\ w = "report" => Prints[n] \subseteq S
Sound(n, S) == \A w \in S : Based(n, w, S)

UpTable(n) ==
  /\ Len(Ups(n)) \in Nat
  /\ \A i, j \in 1 .. Len(Ups(n)) : Ups(n)[i][1] = Ups(n)[j][1] => i = j
  /\ \A i \in 1 .. Len(Ups(n)) :
       /\ Ups(n)[i][2] \in 0 .. 10
       /\ Private(Ups(n)[i][1]) \/ (Callable(n, Ups(n)[i][1]) /\ Ups(n)[i][2] # 0)
       /\ Based(n, Ups(n)[i][1], UpTo(n, i))
UnwindTable(n) ==
  /\ Len(Ups(n)) > 0 => /\ Len(Unwinds(n)) = Len(Ups(n)) - 1
                        /\ DOMAIN Unwinds(n) = 1 .. Len(Ups(n)) - 1
  /\ \A i \in 1 .. Len(Ups(n)) - 1 : Unwinds(n)[i][2] = Ups(n)[Len(Ups(n)) - i][1]
  /\ \A i \in 1 .. Len(Ups(n)) - 1 : \A k \in 1 .. Len(Ups(n)) :
       Ups(n)[k][2] # 0 => (Unwinds(n)[i][1] <= Ups(n)[k][2] <=> Len(Ups(n)) - i < k)
DownTable(n) ==
  /\ Len(Downs(n)) \in Nat
  /\ \A i, j \in 1 .. Len(Downs(n)) : Downs(n)[i] = Downs(n)[j] => i = j
  /\ \A i \in 1 .. Len(Downs(n)) : Downs(n)[i] \in Everything(n) /\ Based(n, Downs(n)[i], StillThere(n, i + 1))
  /\ StillThere(n, 1) = Everything(n)

-----------------------------------------------------------------------------
(* The inductive invariant.  What the books say of an interface fits the   *)
(* frame that has its lock, and there is one such frame or none.           *)
Frame == [of : Counted, way : {"up", "unwind", "down"}, at : Nat]

Clients(n) == {t \in Climber : n \in owned[t]}
Users(n) == {m \in Counted : n \in held[m] \/ ("abi" \in held[m] /\ abi = n)}
Book == [n \in Counted |-> [lock |-> lock[n], refs |-> refs[n], held |-> held[n],
                            users |-> Cardinality(Clients(n)) + Cardinality(Users(n))]]

\* Nobody is inside n.
Rests(n, b) == b.refs = b.users /\ b.held = IF b.refs = 0 THEN {} ELSE Everything(n)
\* f is the frame inside its interface.
FitsUp(f, b) ==
  /\ f.at \in 1 .. Len(Ups(f.of)) + 1
  /\ b.refs = b.users + 1
  /\ f.at <= Len(Ups(f.of)) => b.refs = 1
  /\ b.held = UpTo(f.of, f.at)
FitsUnwind(f, b) ==
  /\ f.of # "evtchn_two_level"
  /\ f.at \in 1 .. Len(Ups(f.of))
  /\ b.refs = 1 /\ b.users = 0
  /\ b.held = UpTo(f.of, Len(Ups(f.of)) - f.at + 1)
FitsDown(f, b) ==
  /\ f.at \in 1 .. Len(Downs(f.of)) + 1
  /\ b.users = b.refs + 1
  /\ b.refs # 0 => f.at = Len(Downs(f.of)) + 1
  /\ b.held = IF b.refs = 0 THEN StillThere(f.of, f.at) ELSE Everything(f.of)
Fits(f, b) == CASE f.way = "up" -> FitsUp(f, b)
                [] f.way = "unwind" -> FitsUnwind(f, b)
                [] f.way = "down" -> FitsDown(f, b)
\* f waits for g.
Calling(f, g, ab) ==
  /\ f.at <= Len(Table(f))
  /\ f.way = "up" <=> g.way # "down"
  /\ \/ What(f) = g.of /\ g.of \in Public
     \/ What(f) = "abi" /\ f.of = "evtchn" /\ g.of = ab /\ ab \in Abis
  /\ Rank[g.of] < Rank[f.of]
StackOK(t, s, bk, ab, has) ==
  /\ \A k \in 1 .. Len(s) : bk[s[k].of].lock = t /\ Fits(s[k], bk[s[k].of])
  /\ \A k \in 1 .. Len(s) - 1 : Calling(s[k], s[k + 1], ab)
  /\ \A j, k \in 1 .. Len(s) : j < k => Rank[s[k].of] < Rank[s[j].of]
  /\ Len(s) > 0 => s[1].of \in Public /\ (s[1].way = "down" <=> s[1].of \in has)
Consistent(bk, fr, has, ab) ==
  /\ \A t \in Climber : StackOK(t, fr[t], bk, ab, has[t])
  /\ \A n \in Counted : bk[n].lock = "free" => Rests(n, bk[n])
  /\ \A n \in Counted : bk[n].lock # "free" =>
       bk[n].lock \in Climber /\ \E k \in 1 .. Len(fr[bk[n].lock]) : fr[bk[n].lock][k].of = n

Things == UNION {Everything(n) : n \in Counted}
LadderTypeOK ==
  /\ Top \subseteq Public
  /\ refs \in [Counted -> Nat] /\ lock \in [Counted -> Climber \cup {"free"}]
  /\ held \in [Counted -> SUBSET Things]
  /\ abi \in Abis \cup {"none"} /\ fifo \in BOOLEAN
  /\ frames \in [Climber -> Seq(Frame)]
  /\ owned \in [Climber -> SUBSET Public]
  /\ broken = FALSE
LadderIInv ==
  /\ LadderTypeOK
  /\ Consistent(Book, frames, owned, abi)
  /\ "abi" \in held["evtchn"] => abi \in Abis

-----------------------------------------------------------------------------
(* The tables of the interfaces.                                           *)
Tables(n, u, w, d) == Ups(n) = u /\ Unwinds(n) = w /\ Downs(n) = d

LEMMA TheTables ==
  /\ Tables("debug", DebugUp, DebugUnwind, DebugDown)
  /\ Tables("suspend", ReporterUp, ReporterUnwind, ReporterDown)
  /\ Tables("range_set", ReporterUp, ReporterUnwind, ReporterDown)
  /\ Tables("cache", ReporterUp, ReporterUnwind, ReporterDown)
  /\ Tables("gnttab", GnttabUp, GnttabUnwind, GnttabDown)
  /\ Tables("shared_info", SharedInfoUp, SharedInfoUnwind, SharedInfoDown)
  /\ Tables("evtchn", EvtchnUp, EvtchnUnwind, EvtchnDown)
  /\ Tables("evtchn_two_level", TwoLevelUp, TwoLevelUnwind, TwoLevelDown)
  /\ Tables("evtchn_fifo", FifoUp, FifoUnwind, FifoDown)
  /\ Tables("store", StoreUp, StoreUnwind, StoreDown)
  /\ Tables("console", ConsoleUp, ConsoleUnwind, ConsoleDown)
  /\ Tables("balloon", BalloonUp, BalloonUnwind, BalloonDown)
  /\ Tables("unplug", UnplugUp, UnplugUnwind, UnplugDown)
BY DEF Tables, Ups, Unwinds, Downs, Ladders, Run

\* Things that are no interface.
OwnThings == {"bugcheck_record", "report", "maximum", "frame", "ranges", "early", "reserved", "page",
              "processors", "vcpus", "late", "interrupt", "control_blocks", "address", "shared",
              "channel"}
LEMMA OwnThingsAreOwn == \A w \in OwnThings : Private(w)
<1>1. \A w \in OwnThings : w \notin DOMAIN Ladders
  BY DEF OwnThings, Ladders
<1>2. \A w \in OwnThings : w # "abi"
  BY DEF OwnThings
<1>3. \A w \in OwnThings : w \notin DOMAIN Copies
  BY DEF OwnThings, Copies
<1>4. \A w \in OwnThings : w \notin Probes
  BY DEF OwnThings, Probes
<1> QED
  BY <1>1, <1>2, <1>3, <1>4 DEF Private

\* What w needs, spelled out.
LEMMA WhatIsNeeded ==
  ASSUME NEW n, NEW w, NEW S,
         w \in {"early", "late"} => "suspend" \in S,
         w = "ranges" => "range_set" \in S,
         w = "channel" => "evtchn" \in S,
         w = "report" => /\ "debug" \in S
                         /\ n \in {"store", "console"} => "address" \in S /\ "shared" \in S
                         /\ n = "gnttab" => "frame" \in S
                         /\ n = "shared_info" => "page" \in S
  PROVE  Based(n, w, S)
BY DEF Based, Registered, Prints

\* A table of the usual shape: k ways up, and the same k ways down.
LEMMA UsualShape ==
  ASSUME NEW n, NEW k \in Nat \ {0},
         Len(Ups(n)) = k, Len(Unwinds(n)) = k - 1, DOMAIN Unwinds(n) = 1 .. k - 1, Len(Downs(n)) = k,
         \A i, j \in 1 .. k : Ups(n)[i][1] = Ups(n)[j][1] => i = j,
         \A i \in 1 .. k : Ups(n)[i][2] \in 0 .. 10,
         \A i \in 1 .. k : Private(Ups(n)[i][1]) \/ (Callable(n, Ups(n)[i][1]) /\ Ups(n)[i][2] # 0),
         \A i \in 1 .. k : Based(n, Ups(n)[i][1], UpTo(n, i)),
         \A i \in 1 .. k - 1 : Unwinds(n)[i][2] = Ups(n)[k - i][1],
         \A i \in 1 .. k - 1 : \A j \in 1 .. k :
           Ups(n)[j][2] # 0 => (Unwinds(n)[i][1] <= Ups(n)[j][2] <=> k - i < j),
         \A i, j \in 1 .. k : Downs(n)[i] = Downs(n)[j] => i = j,
         \A i \in 1 .. k : \E j \in 1 .. k : Downs(n)[i] = Ups(n)[j][1],
         \A j \in 1 .. k : \E i \in 1 .. k : Downs(n)[i] = Ups(n)[j][1],
         \A i \in 1 .. k : Based(n, Downs(n)[i], StillThere(n, i + 1))
  PROVE  UpTable(n) /\ UnwindTable(n) /\ DownTable(n)
<1>1. UpTable(n)
  BY DEF UpTable
<1>2. UnwindTable(n)
  BY DEF UnwindTable
<1>3. StillThere(n, 1) = Everything(n)
  <2>0. Everything(n) = {Ups(n)[j][1] : j \in 1 .. k}
    <3>1. (Len(Ups(n)) + 1) - 1 = k
      OBVIOUS
    <3> QED  BY <3>1 DEF Everything, UpTo
  <2>1. ASSUME NEW w \in StillThere(n, 1) PROVE w \in Everything(n)
    <3>1. PICK i \in 1 .. k : w = Downs(n)[i]
      BY <2>1 DEF StillThere
    <3>2. PICK j \in 1 .. k : w = Ups(n)[j][1]
      BY <3>1
    <3> QED  BY <3>2, <2>0, Zenon
  <2>2. ASSUME NEW w \in Everything(n) PROVE w \in StillThere(n, 1)
    <3>1. PICK j \in 1 .. k : w = Ups(n)[j][1]
      BY <2>2, <2>0
    <3>2. PICK i \in 1 .. k : w = Downs(n)[i]
      BY <3>1
    <3> QED  BY <3>2 DEF StillThere
  <2> QED  BY <2>1, <2>2
<1>4. \A i \in 1 .. k : Downs(n)[i] \in Everything(n)
  BY <1>3 DEF StillThere
<1>5. DownTable(n)
  BY <1>3, <1>4 DEF DownTable
<1> QED  BY <1>1, <1>2, <1>5

LEMMA LaterDown ==
  ASSUME NEW n, NEW k \in Nat, Len(Downs(n)) = k, NEW i \in 1 .. k, NEW j \in 1 .. k, i < j
  PROVE  Downs(n)[j] \in StillThere(n, i + 1)
BY DEF StillThere

LEMMA ReporterTables ==
  ASSUME NEW n \in {"suspend", "range_set", "cache"}
  PROVE  UpTable(n) /\ UnwindTable(n) /\ DownTable(n)
<1> DEFINE up == Ups(n)
           unwind == Unwinds(n)
           down == Downs(n)
<1>1. up = ReporterUp /\ unwind = ReporterUnwind /\ down = ReporterDown
  BY TheTables DEF Tables
<1>2. Len(up) = 2 /\ Len(unwind) = 1 /\ DOMAIN unwind = 1 .. 1 /\ Len(down) = 2
  BY <1>1 DEF ReporterUp, ReporterUnwind, ReporterDown
<1>3. \A i, j \in 1 .. 2 : up[i][1] = up[j][1] => i = j
  BY <1>1 DEF ReporterUp
<1>4. \A i \in 1 .. 2 : up[i][2] = i
  BY <1>1 DEF ReporterUp
<1>5. \A i \in 1 .. 2 : up[i][1] \in OwnThings \/ Callable(n, up[i][1])
  BY <1>1 DEF ReporterUp, OwnThings, Callable, Public, Counted, Abis, Rank
<1>6. \A i \in 1 .. 2 : Based(n, up[i][1], UpTo(n, i))
  BY <1>1 DEF ReporterUp, Based, UpTo, Registered, Prints
<1>7. \A i \in 1 .. 1 : unwind[i][1] = 3 - i /\ unwind[i][2] = up[2 - i][1]
  BY <1>1 DEF ReporterUnwind, ReporterUp
<1>8. /\ down[1] = "report" /\ down[2] = "debug"
  BY <1>1 DEF ReporterDown
<1>9. /\ \A i \in 1 .. 2 : \E j \in 1 .. 2 : down[i] = up[j][1]
      /\ \A j \in 1 .. 2 : \E i \in 1 .. 2 : down[i] = up[j][1]
  BY <1>1 DEF ReporterDown, ReporterUp
<1>10. \A i \in 1 .. 1 : \A j \in 1 .. 2 : up[j][2] # 0 => (unwind[i][1] <= up[j][2] <=> 2 - i < j)
  BY <1>4, <1>7
<1> HIDE DEF up, unwind, down
<1>11. \A i \in 1 .. 2 : Based(n, down[i], StillThere(n, i + 1))
  <2> SUFFICES ASSUME NEW i \in 1 .. 2 PROVE Based(n, down[i], StillThere(n, i + 1))
    OBVIOUS
  <2>1. ASSUME NEW j \in 1 .. 2, i < j PROVE down[j] \in StillThere(n, i + 1)
    <3>1. Len(Downs(n)) = 2
      BY <1>2 DEF down
    <3> QED  BY <2>1, <3>1, LaterDown DEF down
  <2>2. i = 1 => "debug" \in StillThere(n, i + 1)
    BY <1>8, <2>1
  <2>3. /\ down[i] = "report" <=> i = 1
        /\ down[i] \notin {"early", "late", "ranges", "channel"}
    BY <1>8
  <2>4. n \notin {"store", "console", "gnttab", "shared_info"}
    OBVIOUS
  <2> HIDE DEF down
  <2> QED  BY <2>2, <2>3, <2>4, WhatIsNeeded
<1>12. \A i, j \in 1 .. 2 : down[i] = down[j] => i = j
  BY <1>8
<1>13. \A i \in 1 .. 2 : Private(up[i][1]) \/ (Callable(n, up[i][1]) /\ up[i][2] # 0)
  BY <1>4, <1>5, OwnThingsAreOwn
<1>14. \A i \in 1 .. 2 : up[i][2] \in 0 .. 10
  <2> SUFFICES ASSUME NEW i \in 1 .. 2 PROVE up[i][2] \in 0 .. 10
    OBVIOUS
  <2>1. up[i][2] = i
    BY <1>4
  <2>2. i \in 0 .. 10
    OBVIOUS
  <2> QED  BY <2>1, <2>2, Zenon
<1>15. 2 \in Nat \ {0} /\ 2 - 1 = 1
  OBVIOUS
<1>16. UpTable(n) /\ UnwindTable(n) /\ DownTable(n)
  BY <1>2, <1>3, <1>6, <1>7, <1>9, <1>10, <1>11, <1>12, <1>13, <1>14, <1>15, UsualShape
  DEF up, down, unwind
<1> QED  BY <1>16

LEMMA GnttabTables ==
  UpTable("gnttab") /\ UnwindTable("gnttab") /\ DownTable("gnttab")
<1> DEFINE n == "gnttab"
           up == Ups(n)
           unwind == Unwinds(n)
           down == Downs(n)
<1>1. up = GnttabUp /\ unwind = GnttabUnwind /\ down = GnttabDown
  BY TheTables DEF Tables
<1>2. Len(up) = 10 /\ Len(unwind) = 9 /\ DOMAIN unwind = 1 .. 9 /\ Len(down) = 10
  BY <1>1 DEF GnttabUp, GnttabUnwind, GnttabDown
<1>3. \A i, j \in 1 .. 10 : up[i][1] = up[j][1] => i = j
  BY <1>1 DEF GnttabUp
<1>4. \A i \in 1 .. 10 : up[i][2] = i
  BY <1>1 DEF GnttabUp
<1>5. \A i \in 1 .. 10 : up[i][1] \in OwnThings \/ Callable(n, up[i][1])
  BY <1>1 DEF GnttabUp, OwnThings, Callable, Public, Counted, Abis, Rank
<1>6. \A i \in 1 .. 10 : Based(n, up[i][1], UpTo(n, i))
  BY <1>1 DEF GnttabUp, Based, UpTo, Registered, Prints
<1>7. \A i \in 1 .. 9 : unwind[i][1] = 11 - i /\ unwind[i][2] = up[10 - i][1]
  BY <1>1 DEF GnttabUnwind, GnttabUp
<1>8. /\ down[1] = "report" /\ down[2] = "debug" /\ down[3] = "early" /\ down[4] = "suspend"
      /\ down[5] = "cache" /\ down[6] = "reserved" /\ down[7] = "ranges" /\ down[8] = "range_set"
      /\ down[9] = "frame" /\ down[10] = "maximum"
  BY <1>1 DEF GnttabDown
<1>9. /\ \A i \in 1 .. 10 : \E j \in 1 .. 10 : down[i] = up[j][1]
      /\ \A j \in 1 .. 10 : \E i \in 1 .. 10 : down[i] = up[j][1]
  BY <1>1 DEF GnttabDown, GnttabUp
<1>10. \A i \in 1 .. 9 : \A j \in 1 .. 10 : up[j][2] # 0 => (unwind[i][1] <= up[j][2] <=> 10 - i < j)
  BY <1>4, <1>7
<1> HIDE DEF n, up, unwind, down
<1>11. \A i \in 1 .. 10 : Based(n, down[i], StillThere(n, i + 1))
  <2> SUFFICES ASSUME NEW i \in 1 .. 10 PROVE Based(n, down[i], StillThere(n, i + 1))
    OBVIOUS
  <2>1. ASSUME NEW j \in 1 .. 10, i < j PROVE down[j] \in StillThere(n, i + 1)
    <3>1. Len(Downs(n)) = 10
      BY <1>2 DEF down
    <3> QED  BY <2>1, <3>1, LaterDown DEF down
  <2>2. /\ i = 1 => "debug" \in StillThere(n, i + 1) /\ "frame" \in StillThere(n, i + 1)
        /\ i = 3 => "suspend" \in StillThere(n, i + 1)
        /\ i = 7 => "range_set" \in StillThere(n, i + 1)
    BY <1>8, <2>1
  <2>3. /\ down[i] = "report" <=> i = 1
        /\ down[i] = "early" <=> i = 3
        /\ down[i] = "ranges" <=> i = 7
        /\ down[i] \notin {"late", "channel"}
    BY <1>8
  <2>4. n \notin {"store", "console", "shared_info"}
    BY DEF n
  <2> HIDE DEF n, down
  <2> QED  BY <2>2, <2>3, <2>4, WhatIsNeeded
<1>12. \A i, j \in 1 .. 10 : down[i] = down[j] => i = j
  BY <1>8
<1>13. \A i \in 1 .. 10 : Private(up[i][1]) \/ (Callable(n, up[i][1]) /\ up[i][2] # 0)
  BY <1>4, <1>5, OwnThingsAreOwn
<1>14. \A i \in 1 .. 10 : up[i][2] \in 0 .. 10
  <2> SUFFICES ASSUME NEW i \in 1 .. 10 PROVE up[i][2] \in 0 .. 10
    OBVIOUS
  <2>1. up[i][2] = i
    BY <1>4
  <2>2. i \in 0 .. 10
    OBVIOUS
  <2> QED  BY <2>1, <2>2, Zenon
<1>15. 10 \in Nat \ {0} /\ 10 - 1 = 9
  OBVIOUS
<1>16. UpTable(n) /\ UnwindTable(n) /\ DownTable(n)
  BY <1>2, <1>3, <1>6, <1>7, <1>9, <1>10, <1>11, <1>12, <1>13, <1>14, <1>15, UsualShape
  DEF up, down, unwind
<1> QED  BY <1>16 DEF n

LEMMA SharedInfoTables ==
  UpTable("shared_info") /\ UnwindTable("shared_info") /\ DownTable("shared_info")
<1> DEFINE n == "shared_info"
           up == Ups(n)
           unwind == Unwinds(n)
           down == Downs(n)
<1>1. up = SharedInfoUp /\ unwind = SharedInfoUnwind /\ down = SharedInfoDown
  BY TheTables DEF Tables
<1>2. Len(up) = 7 /\ Len(unwind) = 6 /\ DOMAIN unwind = 1 .. 6 /\ Len(down) = 7
  BY <1>1 DEF SharedInfoUp, SharedInfoUnwind, SharedInfoDown
<1>3. \A i, j \in 1 .. 7 : up[i][1] = up[j][1] => i = j
  BY <1>1 DEF SharedInfoUp
<1>4. \A i \in 1 .. 7 : up[i][2] = i
  BY <1>1 DEF SharedInfoUp
<1>5. \A i \in 1 .. 7 : up[i][1] \in OwnThings \/ Callable(n, up[i][1])
  BY <1>1 DEF SharedInfoUp, OwnThings, Callable, Public, Counted, Abis, Rank
<1>6. \A i \in 1 .. 7 : Based(n, up[i][1], UpTo(n, i))
  BY <1>1 DEF SharedInfoUp, Based, UpTo, Registered, Prints
<1>7. \A i \in 1 .. 6 : unwind[i][1] = 8 - i /\ unwind[i][2] = up[7 - i][1]
  BY <1>1 DEF SharedInfoUnwind, SharedInfoUp
<1>8. /\ down[1] = "vcpus" /\ down[2] = "processors" /\ down[3] = "report" /\ down[4] = "debug"
      /\ down[5] = "early" /\ down[6] = "suspend" /\ down[7] = "page"
  BY <1>1 DEF SharedInfoDown
<1>9. /\ \A i \in 1 .. 7 : \E j \in 1 .. 7 : down[i] = up[j][1]
      /\ \A j \in 1 .. 7 : \E i \in 1 .. 7 : down[i] = up[j][1]
  BY <1>1 DEF SharedInfoDown, SharedInfoUp
<1>10. \A i \in 1 .. 6 : \A j \in 1 .. 7 : up[j][2] # 0 => (unwind[i][1] <= up[j][2] <=> 7 - i < j)
  BY <1>4, <1>7
<1> HIDE DEF n, up, unwind, down
<1>11. \A i \in 1 .. 7 : Based(n, down[i], StillThere(n, i + 1))
  <2> SUFFICES ASSUME NEW i \in 1 .. 7 PROVE Based(n, down[i], StillThere(n, i + 1))
    OBVIOUS
  <2>1. ASSUME NEW j \in 1 .. 7, i < j PROVE down[j] \in StillThere(n, i + 1)
    <3>1. Len(Downs(n)) = 7
      BY <1>2 DEF down
    <3> QED  BY <2>1, <3>1, LaterDown DEF down
  <2>2. /\ i = 3 => "debug" \in StillThere(n, i + 1) /\ "page" \in StillThere(n, i + 1)
        /\ i = 5 => "suspend" \in StillThere(n, i + 1)
    BY <1>8, <2>1
  <2>3. /\ down[i] = "report" <=> i = 3
        /\ down[i] = "early" <=> i = 5
        /\ down[i] \notin {"late", "ranges", "channel"}
    BY <1>8
  <2>4. n \notin {"store", "console", "gnttab"}
    BY DEF n
  <2> HIDE DEF n, down
  <2> QED  BY <2>2, <2>3, <2>4, WhatIsNeeded
<1>12. \A i, j \in 1 .. 7 : down[i] = down[j] => i = j
  BY <1>8
<1>13. \A i \in 1 .. 7 : Private(up[i][1]) \/ (Callable(n, up[i][1]) /\ up[i][2] # 0)
  BY <1>4, <1>5, OwnThingsAreOwn
<1>14. \A i \in 1 .. 7 : up[i][2] \in 0 .. 10
  <2> SUFFICES ASSUME NEW i \in 1 .. 7 PROVE up[i][2] \in 0 .. 10
    OBVIOUS
  <2>1. up[i][2] = i
    BY <1>4
  <2>2. i \in 0 .. 10
    OBVIOUS
  <2> QED  BY <2>1, <2>2, Zenon
<1>15. 7 \in Nat \ {0} /\ 7 - 1 = 6
  OBVIOUS
<1>16. UpTable(n) /\ UnwindTable(n) /\ DownTable(n)
  BY <1>2, <1>3, <1>6, <1>7, <1>9, <1>10, <1>11, <1>12, <1>13, <1>14, <1>15, UsualShape
  DEF up, down, unwind
<1> QED  BY <1>16 DEF n

LEMMA EvtchnTables ==
  UpTable("evtchn") /\ UnwindTable("evtchn") /\ DownTable("evtchn")
<1> DEFINE n == "evtchn"
           up == Ups(n)
           unwind == Unwinds(n)
           down == Downs(n)
<1>1. up = EvtchnUp /\ unwind = EvtchnUnwind /\ down = EvtchnDown
  BY TheTables DEF Tables
<1>2. Len(up) = 9 /\ Len(unwind) = 8 /\ DOMAIN unwind = 1 .. 8 /\ Len(down) = 9
  BY <1>1 DEF EvtchnUp, EvtchnUnwind, EvtchnDown
<1>3. \A i, j \in 1 .. 9 : up[i][1] = up[j][1] => i = j
  BY <1>1 DEF EvtchnUp
<1>4. \A i \in 1 .. 9 : up[i][2] = i
  BY <1>1 DEF EvtchnUp
<1>5. \A i \in 1 .. 9 : up[i][1] \in OwnThings \/ Callable(n, up[i][1])
  BY <1>1 DEF EvtchnUp, OwnThings, Callable, Public, Counted, Abis, Rank
<1>6. \A i \in 1 .. 9 : Based(n, up[i][1], UpTo(n, i))
  BY <1>1 DEF EvtchnUp, Based, UpTo, Registered, Prints
<1>7. \A i \in 1 .. 8 : unwind[i][1] = 10 - i /\ unwind[i][2] = up[9 - i][1]
  BY <1>1 DEF EvtchnUnwind, EvtchnUp
<1>8. /\ down[1] = "processors" /\ down[2] = "interrupt" /\ down[3] = "abi"
      /\ down[4] = "shared_info" /\ down[5] = "report" /\ down[6] = "debug" /\ down[7] = "late"
      /\ down[8] = "early" /\ down[9] = "suspend"
  BY <1>1 DEF EvtchnDown
<1>9. /\ \A i \in 1 .. 9 : \E j \in 1 .. 9 : down[i] = up[j][1]
      /\ \A j \in 1 .. 9 : \E i \in 1 .. 9 : down[i] = up[j][1]
  BY <1>1 DEF EvtchnDown, EvtchnUp
<1>10. \A i \in 1 .. 8 : \A j \in 1 .. 9 : up[j][2] # 0 => (unwind[i][1] <= up[j][2] <=> 9 - i < j)
  BY <1>4, <1>7
<1> HIDE DEF n, up, unwind, down
<1>11. \A i \in 1 .. 9 : Based(n, down[i], StillThere(n, i + 1))
  <2> SUFFICES ASSUME NEW i \in 1 .. 9 PROVE Based(n, down[i], StillThere(n, i + 1))
    OBVIOUS
  <2>1. ASSUME NEW j \in 1 .. 9, i < j PROVE down[j] \in StillThere(n, i + 1)
    <3>1. Len(Downs(n)) = 9
      BY <1>2 DEF down
    <3> QED  BY <2>1, <3>1, LaterDown DEF down
  <2>2. /\ i = 5 => "debug" \in StillThere(n, i + 1)
        /\ i = 7 => "suspend" \in StillThere(n, i + 1)
        /\ i = 8 => "suspend" \in StillThere(n, i + 1)
    BY <1>8, <2>1
  <2>3. /\ down[i] = "report" <=> i = 5
        /\ down[i] = "late" <=> i = 7
        /\ down[i] = "early" <=> i = 8
        /\ down[i] \notin {"ranges", "channel"}
    BY <1>8
  <2>4. n \notin {"store", "console", "gnttab", "shared_info"}
    BY DEF n
  <2> HIDE DEF n, down
  <2> QED  BY <2>2, <2>3, <2>4, WhatIsNeeded
<1>12. \A i, j \in 1 .. 9 : down[i] = down[j] => i = j
  BY <1>8
<1>13. \A i \in 1 .. 9 : Private(up[i][1]) \/ (Callable(n, up[i][1]) /\ up[i][2] # 0)
  BY <1>4, <1>5, OwnThingsAreOwn
<1>14. \A i \in 1 .. 9 : up[i][2] \in 0 .. 10
  <2> SUFFICES ASSUME NEW i \in 1 .. 9 PROVE up[i][2] \in 0 .. 10
    OBVIOUS
  <2>1. up[i][2] = i
    BY <1>4
  <2>2. i \in 0 .. 10
    OBVIOUS
  <2> QED  BY <2>1, <2>2, Zenon
<1>15. 9 \in Nat \ {0} /\ 9 - 1 = 8
  OBVIOUS
<1>16. UpTable(n) /\ UnwindTable(n) /\ DownTable(n)
  BY <1>2, <1>3, <1>6, <1>7, <1>9, <1>10, <1>11, <1>12, <1>13, <1>14, <1>15, UsualShape
  DEF up, down, unwind
<1> QED  BY <1>16 DEF n

LEMMA StoreTables ==
  UpTable("store") /\ UnwindTable("store") /\ DownTable("store")
<1> DEFINE n == "store"
           up == Ups(n)
           unwind == Unwinds(n)
           down == Downs(n)
<1>1. up = StoreUp /\ unwind = StoreUnwind /\ down = StoreDown
  BY TheTables DEF Tables
<1>2. Len(up) = 10 /\ Len(unwind) = 9 /\ DOMAIN unwind = 1 .. 9 /\ Len(down) = 10
  BY <1>1 DEF StoreUp, StoreUnwind, StoreDown
<1>3. \A i, j \in 1 .. 10 : up[i][1] = up[j][1] => i = j
  BY <1>1 DEF StoreUp
<1>4. \A i \in 1 .. 10 : up[i][2] \in 0 .. 10
  BY <1>1 DEF StoreUp
<1>5. \A i \in 1 .. 10 : up[i][1] \in OwnThings \/ (Callable(n, up[i][1]) /\ up[i][2] # 0)
  BY <1>1 DEF StoreUp, OwnThings, Callable, Public, Counted, Abis, Rank
<1>6. \A i \in 1 .. 10 : Based(n, up[i][1], UpTo(n, i))
  BY <1>1 DEF StoreUp, Based, UpTo, Registered, Prints
<1>7. \A i \in 1 .. 9 : unwind[i][2] = up[10 - i][1]
  BY <1>1 DEF StoreUnwind, StoreUp
<1>8. /\ down[1] = "report" /\ down[2] = "debug" /\ down[3] = "late" /\ down[4] = "early"
      /\ down[5] = "suspend" /\ down[6] = "channel" /\ down[7] = "evtchn" /\ down[8] = "shared"
      /\ down[9] = "address" /\ down[10] = "gnttab"
  BY <1>1 DEF StoreDown
<1>9. /\ \A i \in 1 .. 10 : \E j \in 1 .. 10 : down[i] = up[j][1]
      /\ \A j \in 1 .. 10 : \E i \in 1 .. 10 : down[i] = up[j][1]
  BY <1>1 DEF StoreDown, StoreUp
<1>10. \A i \in 1 .. 9 : \A j \in 1 .. 10 : up[j][2] # 0 => (unwind[i][1] <= up[j][2] <=> 10 - i < j)
  <2>1. /\ up[1][2] = 1 /\ up[2][2] = 2 /\ up[3][2] = 3 /\ up[4][2] = 4 /\ up[5][2] = 0
        /\ up[6][2] = 5 /\ up[7][2] = 6 /\ up[8][2] = 7 /\ up[9][2] = 8 /\ up[10][2] = 9
    BY <1>1 DEF StoreUp
  <2>2. /\ unwind[1][1] = 9 /\ unwind[2][1] = 8 /\ unwind[3][1] = 7 /\ unwind[4][1] = 6
        /\ unwind[5][1] = 5 /\ unwind[6][1] = 5 /\ unwind[7][1] = 4 /\ unwind[8][1] = 3
        /\ unwind[9][1] = 2
    BY <1>1 DEF StoreUnwind
  <2> HIDE DEF up, unwind
  <2> QED  BY <2>1, <2>2
<1> HIDE DEF n, up, unwind, down
<1>11. \A i \in 1 .. 10 : Based(n, down[i], StillThere(n, i + 1))
  <2> SUFFICES ASSUME NEW i \in 1 .. 10 PROVE Based(n, down[i], StillThere(n, i + 1))
    OBVIOUS
  <2>1. ASSUME NEW j \in 1 .. 10, i < j PROVE down[j] \in StillThere(n, i + 1)
    <3>1. Len(Downs(n)) = 10
      BY <1>2 DEF down
    <3> QED  BY <2>1, <3>1, LaterDown DEF down
  <2>2. /\ i = 1 => "debug" \in StillThere(n, i + 1) /\ "address" \in StillThere(n, i + 1) /\ "shared" \in StillThere(n, i + 1)
        /\ i = 3 => "suspend" \in StillThere(n, i + 1)
        /\ i = 4 => "suspend" \in StillThere(n, i + 1)
        /\ i = 6 => "evtchn" \in StillThere(n, i + 1)
    BY <1>8, <2>1
  <2>3. /\ down[i] = "report" <=> i = 1
        /\ down[i] = "late" <=> i = 3
        /\ down[i] = "early" <=> i = 4
        /\ down[i] = "channel" <=> i = 6
        /\ down[i] \notin {"ranges"}
    BY <1>8
  <2>4. n \notin {"console", "gnttab", "shared_info"}
    BY DEF n
  <2> HIDE DEF n, down
  <2> QED  BY <2>2, <2>3, <2>4, WhatIsNeeded
<1>12. \A i, j \in 1 .. 10 : down[i] = down[j] => i = j
  BY <1>8
<1>13. \A i \in 1 .. 10 : Private(up[i][1]) \/ (Callable(n, up[i][1]) /\ up[i][2] # 0)
  BY <1>4, <1>5, OwnThingsAreOwn
<1>14. \A i \in 1 .. 10 : up[i][2] \in 0 .. 10
  BY <1>4
<1>15. 10 \in Nat \ {0} /\ 10 - 1 = 9
  OBVIOUS
<1>16. UpTable(n) /\ UnwindTable(n) /\ DownTable(n)
  BY <1>2, <1>3, <1>6, <1>7, <1>9, <1>10, <1>11, <1>12, <1>13, <1>14, <1>15, UsualShape
  DEF up, down, unwind
<1> QED  BY <1>16 DEF n

LEMMA ConsoleTables ==
  UpTable("console") /\ UnwindTable("console") /\ DownTable("console")
<1> DEFINE n == "console"
           up == Ups(n)
           unwind == Unwinds(n)
           down == Downs(n)
<1>1. up = ConsoleUp /\ unwind = ConsoleUnwind /\ down = ConsoleDown
  BY TheTables DEF Tables
<1>2. Len(up) = 9 /\ Len(unwind) = 8 /\ DOMAIN unwind = 1 .. 8 /\ Len(down) = 9
  BY <1>1 DEF ConsoleUp, ConsoleUnwind, ConsoleDown
<1>3. \A i, j \in 1 .. 9 : up[i][1] = up[j][1] => i = j
  BY <1>1 DEF ConsoleUp
<1>4. \A i \in 1 .. 9 : up[i][2] = i
  BY <1>1 DEF ConsoleUp
<1>5. \A i \in 1 .. 9 : up[i][1] \in OwnThings \/ Callable(n, up[i][1])
  BY <1>1 DEF ConsoleUp, OwnThings, Callable, Public, Counted, Abis, Rank
<1>6. \A i \in 1 .. 9 : Based(n, up[i][1], UpTo(n, i))
  BY <1>1 DEF ConsoleUp, Based, UpTo, Registered, Prints
<1>7. \A i \in 1 .. 8 : unwind[i][1] = 10 - i /\ unwind[i][2] = up[9 - i][1]
  BY <1>1 DEF ConsoleUnwind, ConsoleUp
<1>8. /\ down[1] = "report" /\ down[2] = "debug" /\ down[3] = "late" /\ down[4] = "suspend"
      /\ down[5] = "channel" /\ down[6] = "evtchn" /\ down[7] = "shared" /\ down[8] = "address"
      /\ down[9] = "gnttab"
  BY <1>1 DEF ConsoleDown
<1>9. /\ \A i \in 1 .. 9 : \E j \in 1 .. 9 : down[i] = up[j][1]
      /\ \A j \in 1 .. 9 : \E i \in 1 .. 9 : down[i] = up[j][1]
  BY <1>1 DEF ConsoleDown, ConsoleUp
<1>10. \A i \in 1 .. 8 : \A j \in 1 .. 9 : up[j][2] # 0 => (unwind[i][1] <= up[j][2] <=> 9 - i < j)
  BY <1>4, <1>7
<1> HIDE DEF n, up, unwind, down
<1>11. \A i \in 1 .. 9 : Based(n, down[i], StillThere(n, i + 1))
  <2> SUFFICES ASSUME NEW i \in 1 .. 9 PROVE Based(n, down[i], StillThere(n, i + 1))
    OBVIOUS
  <2>1. ASSUME NEW j \in 1 .. 9, i < j PROVE down[j] \in StillThere(n, i + 1)
    <3>1. Len(Downs(n)) = 9
      BY <1>2 DEF down
    <3> QED  BY <2>1, <3>1, LaterDown DEF down
  <2>2. /\ i = 1 => "debug" \in StillThere(n, i + 1) /\ "address" \in StillThere(n, i + 1) /\ "shared" \in StillThere(n, i + 1)
        /\ i = 3 => "suspend" \in StillThere(n, i + 1)
        /\ i = 5 => "evtchn" \in StillThere(n, i + 1)
    BY <1>8, <2>1
  <2>3. /\ down[i] = "report" <=> i = 1
        /\ down[i] = "late" <=> i = 3
        /\ down[i] = "channel" <=> i = 5
        /\ down[i] \notin {"early", "ranges"}
    BY <1>8
  <2>4. n \notin {"store", "gnttab", "shared_info"}
    BY DEF n
  <2> HIDE DEF n, down
  <2> QED  BY <2>2, <2>3, <2>4, WhatIsNeeded
<1>12. \A i, j \in 1 .. 9 : down[i] = down[j] => i = j
  BY <1>8
<1>13. \A i \in 1 .. 9 : Private(up[i][1]) \/ (Callable(n, up[i][1]) /\ up[i][2] # 0)
  BY <1>4, <1>5, OwnThingsAreOwn
<1>14. \A i \in 1 .. 9 : up[i][2] \in 0 .. 10
  <2> SUFFICES ASSUME NEW i \in 1 .. 9 PROVE up[i][2] \in 0 .. 10
    OBVIOUS
  <2>1. up[i][2] = i
    BY <1>4
  <2>2. i \in 0 .. 10
    OBVIOUS
  <2> QED  BY <2>1, <2>2, Zenon
<1>15. 9 \in Nat \ {0} /\ 9 - 1 = 8
  OBVIOUS
<1>16. UpTable(n) /\ UnwindTable(n) /\ DownTable(n)
  BY <1>2, <1>3, <1>6, <1>7, <1>9, <1>10, <1>11, <1>12, <1>13, <1>14, <1>15, UsualShape
  DEF up, down, unwind
<1> QED  BY <1>16 DEF n

LEMMA BalloonTables ==
  UpTable("balloon") /\ UnwindTable("balloon") /\ DownTable("balloon")
<1> DEFINE n == "balloon"
           up == Ups(n)
           unwind == Unwinds(n)
           down == Downs(n)
<1>1. up = BalloonUp /\ unwind = BalloonUnwind /\ down = BalloonDown
  BY TheTables DEF Tables
<1>2. Len(up) = 3 /\ Len(unwind) = 2 /\ DOMAIN unwind = 1 .. 2 /\ Len(down) = 3
  BY <1>1 DEF BalloonUp, BalloonUnwind, BalloonDown
<1>3. \A i, j \in 1 .. 3 : up[i][1] = up[j][1] => i = j
  BY <1>1 DEF BalloonUp
<1>4. \A i \in 1 .. 3 : up[i][2] = i
  BY <1>1 DEF BalloonUp
<1>5. \A i \in 1 .. 3 : up[i][1] \in OwnThings \/ Callable(n, up[i][1])
  BY <1>1 DEF BalloonUp, OwnThings, Callable, Public, Counted, Abis, Rank
<1>6. \A i \in 1 .. 3 : Based(n, up[i][1], UpTo(n, i))
  BY <1>1 DEF BalloonUp, Based, UpTo, Registered, Prints
<1>7. \A i \in 1 .. 2 : unwind[i][1] = 4 - i /\ unwind[i][2] = up[3 - i][1]
  BY <1>1 DEF BalloonUnwind, BalloonUp
<1>8. /\ down[1] = "store" /\ down[2] = "ranges" /\ down[3] = "range_set"
  BY <1>1 DEF BalloonDown
<1>9. /\ \A i \in 1 .. 3 : \E j \in 1 .. 3 : down[i] = up[j][1]
      /\ \A j \in 1 .. 3 : \E i \in 1 .. 3 : down[i] = up[j][1]
  BY <1>1 DEF BalloonDown, BalloonUp
<1>10. \A i \in 1 .. 2 : \A j \in 1 .. 3 : up[j][2] # 0 => (unwind[i][1] <= up[j][2] <=> 3 - i < j)
  BY <1>4, <1>7
<1> HIDE DEF n, up, unwind, down
<1>11. \A i \in 1 .. 3 : Based(n, down[i], StillThere(n, i + 1))
  <2> SUFFICES ASSUME NEW i \in 1 .. 3 PROVE Based(n, down[i], StillThere(n, i + 1))
    OBVIOUS
  <2>1. ASSUME NEW j \in 1 .. 3, i < j PROVE down[j] \in StillThere(n, i + 1)
    <3>1. Len(Downs(n)) = 3
      BY <1>2 DEF down
    <3> QED  BY <2>1, <3>1, LaterDown DEF down
  <2>2. i = 2 => "range_set" \in StillThere(n, i + 1)
    BY <1>8, <2>1
  <2>3. /\ down[i] = "ranges" <=> i = 2
        /\ down[i] \notin {"early", "late", "report", "channel"}
    BY <1>8
  <2>4. n \notin {"store", "console", "gnttab", "shared_info"}
    BY DEF n
  <2> HIDE DEF n, down
  <2> QED  BY <2>2, <2>3, <2>4, WhatIsNeeded
<1>12. \A i, j \in 1 .. 3 : down[i] = down[j] => i = j
  BY <1>8
<1>13. \A i \in 1 .. 3 : Private(up[i][1]) \/ (Callable(n, up[i][1]) /\ up[i][2] # 0)
  BY <1>4, <1>5, OwnThingsAreOwn
<1>14. \A i \in 1 .. 3 : up[i][2] \in 0 .. 10
  <2> SUFFICES ASSUME NEW i \in 1 .. 3 PROVE up[i][2] \in 0 .. 10
    OBVIOUS
  <2>1. up[i][2] = i
    BY <1>4
  <2>2. i \in 0 .. 10
    OBVIOUS
  <2> QED  BY <2>1, <2>2, Zenon
<1>15. 3 \in Nat \ {0} /\ 3 - 1 = 2
  OBVIOUS
<1>16. UpTable(n) /\ UnwindTable(n) /\ DownTable(n)
  BY <1>2, <1>3, <1>6, <1>7, <1>9, <1>10, <1>11, <1>12, <1>13, <1>14, <1>15, UsualShape
  DEF up, down, unwind
<1> QED  BY <1>16 DEF n

LEMMA SmallTables ==
  /\ UpTable("debug") /\ UnwindTable("debug") /\ DownTable("debug")
  /\ UpTable("evtchn_fifo") /\ UnwindTable("evtchn_fifo") /\ DownTable("evtchn_fifo")
  /\ UpTable("unplug") /\ UnwindTable("unplug") /\ DownTable("unplug")
<1>1. ASSUME NEW n \in {"debug", "evtchn_fifo"}, NEW w \in OwnThings \ {"early", "late", "ranges", "channel", "report"},
             Ups(n) = << <<w, 1>> >>, Unwinds(n) = << >>, Downs(n) = <<w>>
      PROVE  UpTable(n) /\ UnwindTable(n) /\ DownTable(n)
  <2>1. Len(Ups(n)) = 1 /\ Len(Unwinds(n)) = 1 - 1 /\ DOMAIN Unwinds(n) = 1 .. 1 - 1 /\ Len(Downs(n)) = 1
    BY <1>1
  <2>2. \A S : Based(n, w, S)
    BY WhatIsNeeded, <1>1
  <2>3. Private(w) /\ 1 \in Nat \ {0}
    BY OwnThingsAreOwn
  <2>4. Ups(n)[1] = <<w, 1>> /\ Ups(n)[1][1] = w /\ Ups(n)[1][2] = 1 /\ Downs(n)[1] = w
    BY <1>1
  <2>5. \A i \in 1 .. 1 :
          /\ i = 1
          /\ Ups(n)[i][1] = w /\ Ups(n)[i][2] = 1 /\ Downs(n)[i] = w
    BY <2>4
  <2>6. \A i \in 1 .. 1 : /\ \E j \in 1 .. 1 : Downs(n)[i] = Ups(n)[j][1]
                          /\ \E j \in 1 .. 1 : Downs(n)[j] = Ups(n)[i][1]
    BY <2>5
  <2>7. 1 .. 1 - 1 = {}
    OBVIOUS
  <2>8. \A i, j \in 1 .. 1 : i = j
    OBVIOUS
  <2>9. \A i \in 1 .. 1 : /\ Private(Ups(n)[i][1]) /\ Ups(n)[i][2] \in 0 .. 10
                          /\ Based(n, Ups(n)[i][1], UpTo(n, i))
                          /\ Based(n, Downs(n)[i], StillThere(n, i + 1))
    BY <2>2, <2>3, <2>5
  <2> QED
    BY <2>1, <2>3, <2>6, <2>7, <2>8, <2>9, UsualShape
<1>2. UpTable("debug") /\ UnwindTable("debug") /\ DownTable("debug")
  BY <1>1, TheTables DEF Tables, DebugUp, DebugUnwind, DebugDown, OwnThings
<1>3. UpTable("evtchn_fifo") /\ UnwindTable("evtchn_fifo") /\ DownTable("evtchn_fifo")
  BY <1>1, TheTables DEF Tables, FifoUp, FifoUnwind, FifoDown, OwnThings
<1>4. Ups("unplug") = << >> /\ Downs("unplug") = << >>
  BY TheTables DEF Tables, UnplugUp, UnplugDown
<1>5. UpTable("unplug") /\ UnwindTable("unplug")
  BY <1>4 DEF UpTable, UnwindTable
<1>6. DownTable("unplug")
  BY <1>4 DEF DownTable, StillThere, Everything, UpTo
<1> QED  BY <1>2, <1>3, <1>5, <1>6

LEMMA TwoLevelTables == UpTable("evtchn_two_level") /\ DownTable("evtchn_two_level")
<1> DEFINE n == "evtchn_two_level"
<1>1. Ups(n) = << <<"shared_info", 1>> >> /\ Downs(n) = <<"shared_info">>
  BY TheTables DEF Tables, TwoLevelUp, TwoLevelDown
<1>2. /\ Len(Ups(n)) = 1 /\ Len(Downs(n)) = 1
      /\ Ups(n)[1][1] = "shared_info" /\ Ups(n)[1][2] = 1 /\ Downs(n)[1] = "shared_info"
  BY <1>1
<1>3. \A S : Based(n, "shared_info", S)
  BY WhatIsNeeded
<1>4. Callable(n, "shared_info")
  BY DEF Callable, Public, Counted, Abis, Rank
<1>5. \A i \in 1 .. 1 : i = 1
  OBVIOUS
<1>6. Everything(n) = {"shared_info"} /\ StillThere(n, 1) = {"shared_info"}
  <2> HIDE DEF n
  <2>1. (1 + 1) - 1 = 1
    OBVIOUS
  <2> QED  BY <1>2, <1>5, <2>1 DEF Everything, StillThere, UpTo
<1> HIDE DEF n
<1>7. UpTable(n)
  BY <1>2, <1>3, <1>4, <1>5 DEF UpTable
<1>8. DownTable(n)
  BY <1>2, <1>3, <1>5, <1>6 DEF DownTable
<1> QED  BY <1>7, <1>8 DEF n

\* The tables of every interface; EvtchnTwoLevelAcquire is the exception: what
\* it gives back when it fails is what it did not get.
LEMMA TablesInOrder ==
  ASSUME NEW n \in Counted
  PROVE  UpTable(n) /\ DownTable(n) /\ (n # "evtchn_two_level" => UnwindTable(n))
<1>1. n \in {"suspend", "range_set", "cache"} => UpTable(n) /\ UnwindTable(n) /\ DownTable(n)
  BY ReporterTables
<1> QED
  BY <1>1, GnttabTables, SharedInfoTables, EvtchnTables, StoreTables, ConsoleTables, BalloonTables,
     SmallTables, TwoLevelTables DEF Counted

LEMMA UpFacts ==
  ASSUME NEW n \in Counted, NEW k \in 1 .. Len(Ups(n))
  PROVE  /\ Ups(n)[k][1] \notin UpTo(n, k)
         /\ UpTo(n, k + 1) = UpTo(n, k) \cup {Ups(n)[k][1]}
         /\ Ups(n)[k][1] \in Everything(n)
<1> USE DEF UpTable
<1>0. Len(Ups(n)) \in Nat
  BY TablesInOrder
<1>1. Ups(n)[k][1] \notin UpTo(n, k)
  <2> SUFFICES ASSUME NEW i \in 1 .. k - 1, Ups(n)[i][1] = Ups(n)[k][1] PROVE FALSE
    BY DEF UpTo
  <2>1. i \in 1 .. Len(Ups(n)) /\ i # k
    BY <1>0
  <2> QED  BY <2>1, TablesInOrder
<1>2. UpTo(n, k + 1) = UpTo(n, k) \cup {Ups(n)[k][1]}
  <2>1. 1 .. (k + 1) - 1 = (1 .. k - 1) \cup {k}
    BY <1>0
  <2> QED  BY <2>1 DEF UpTo
<1>3. Ups(n)[k][1] \in Everything(n)
  <2>1. k \in 1 .. (Len(Ups(n)) + 1) - 1
    BY <1>0
  <2> QED  BY <2>1 DEF Everything, UpTo
<1> QED  BY <1>1, <1>2, <1>3

LEMMA UpToSound ==
  ASSUME NEW n \in Counted, NEW k \in 1 .. Len(Ups(n)) + 1
  PROVE  /\ UpTo(n, k) \subseteq Everything(n)
         /\ Sound(n, UpTo(n, k))
<1>0. Len(Ups(n)) \in Nat
  BY TablesInOrder DEF UpTable
<1>1. \A j \in 1 .. k : UpTo(n, j) \subseteq UpTo(n, k)
  <2> SUFFICES ASSUME NEW j \in 1 .. k, NEW i \in 1 .. j - 1 PROVE Ups(n)[i][1] \in UpTo(n, k)
    BY DEF UpTo
  <2>1. i \in 1 .. k - 1
    BY <1>0
  <2> QED  BY <2>1 DEF UpTo
<1>2. UpTo(n, k) \subseteq Everything(n)
  <2> SUFFICES ASSUME NEW i \in 1 .. k - 1 PROVE Ups(n)[i][1] \in Everything(n)
    BY DEF UpTo
  <2>1. i \in 1 .. Len(Ups(n))
    BY <1>0
  <2> QED  BY <2>1, UpFacts
<1>3. Sound(n, UpTo(n, k))
  <2> SUFFICES ASSUME NEW i \in 1 .. k - 1 PROVE Based(n, Ups(n)[i][1], UpTo(n, k))
    BY DEF UpTo, Sound
  <2>1. i \in 1 .. Len(Ups(n)) /\ i \in 1 .. k
    BY <1>0
  <2>2. Based(n, Ups(n)[i][1], UpTo(n, i)) /\ UpTo(n, i) \subseteq UpTo(n, k)
    BY <2>1, <1>1, TablesInOrder DEF UpTable
  <2> QED  BY <2>2 DEF Based
<1> QED  BY <1>2, <1>3

LEMMA DownFacts ==
  ASSUME NEW n \in Counted
  PROVE  /\ StillThere(n, 1) = Everything(n) /\ StillThere(n, Len(Downs(n)) + 1) = {}
         /\ \A k \in 1 .. Len(Downs(n)) :
              /\ Downs(n)[k] \notin StillThere(n, k + 1)
              /\ StillThere(n, k) = StillThere(n, k + 1) \cup {Downs(n)[k]}
         /\ \A k \in 1 .. Len(Downs(n)) + 1 :
              StillThere(n, k) \subseteq Everything(n) /\ Sound(n, StillThere(n, k))
<1>0. Len(Downs(n)) \in Nat
  BY TablesInOrder DEF DownTable
<1>1. StillThere(n, 1) = Everything(n)
  BY TablesInOrder DEF DownTable
<1>2. StillThere(n, Len(Downs(n)) + 1) = {}
  BY <1>0 DEF StillThere
<1>3. ASSUME NEW k \in 1 .. Len(Downs(n)) PROVE Downs(n)[k] \notin StillThere(n, k + 1)
  <2> SUFFICES ASSUME NEW i \in k + 1 .. Len(Downs(n)), Downs(n)[i] = Downs(n)[k] PROVE FALSE
    BY DEF StillThere
  <2>1. i \in 1 .. Len(Downs(n)) /\ i # k
    BY <1>0
  <2> QED  BY <2>1, TablesInOrder DEF DownTable
<1>4. ASSUME NEW k \in 1 .. Len(Downs(n)) PROVE StillThere(n, k) = StillThere(n, k + 1) \cup {Downs(n)[k]}
  <2>1. k .. Len(Downs(n)) = (k + 1 .. Len(Downs(n))) \cup {k}
    BY <1>0
  <2> QED  BY <2>1 DEF StillThere
<1>5. ASSUME NEW k \in 1 .. Len(Downs(n)) + 1
      PROVE  StillThere(n, k) \subseteq Everything(n) /\ Sound(n, StillThere(n, k))
  <2> SUFFICES ASSUME NEW i \in k .. Len(Downs(n))
               PROVE  Downs(n)[i] \in Everything(n) /\ Based(n, Downs(n)[i], StillThere(n, k))
    BY DEF StillThere, Sound
  <2>1. i \in 1 .. Len(Downs(n))
    BY <1>0
  <2>2. Downs(n)[i] \in Everything(n) /\ Based(n, Downs(n)[i], StillThere(n, i + 1))
    BY <2>1, TablesInOrder DEF DownTable
  <2>3. StillThere(n, i + 1) \subseteq StillThere(n, k)
    <3> SUFFICES ASSUME NEW j \in i + 1 .. Len(Downs(n)) PROVE Downs(n)[j] \in StillThere(n, k)
      BY DEF StillThere
    <3>1. j \in k .. Len(Downs(n))
      BY <1>0
    <3> QED  BY <3>1 DEF StillThere
  <2> QED  BY <2>2, <2>3 DEF Based
<1> QED  BY <1>1, <1>2, <1>3, <1>4, <1>5

\* A failure at place k goes to where what came before place k is given back.
LEMMA GoToLands ==
  ASSUME NEW n \in Counted, n # "evtchn_two_level", NEW k \in 1 .. Len(Ups(n)), Ups(n)[k][2] # 0,
         NEW f, f.of = n
  PROVE  GoTo(f, Ups(n)[k][2]) = Activation(n, "unwind", Len(Ups(n)) - k + 1)
<1> DEFINE u == Unwinds(n)
           size == Len(Ups(n))
           N == Ups(n)[k][2]
           reached == {i \in DOMAIN u : u[i][1] <= N}
<1>1. size \in Nat /\ size > 0 /\ N \in Nat
  BY TablesInOrder DEF UpTable
<1>2. /\ Len(u) = size - 1
      /\ \A i \in 1 .. size - 1 : u[i][1] <= N <=> size - i < k
  BY <1>1, TablesInOrder DEF UnwindTable
<1>3. DOMAIN u = 1 .. size - 1
  BY <1>1, TablesInOrder DEF UnwindTable
<1>4. reached = {i \in 1 .. size - 1 : i > size - k}
  <2> HIDE DEF u, size, N
  <2> QED  BY <1>1, <1>2, <1>3 DEF size
<1>5. GoTo(f, N) = Activation(n, "unwind",
        IF reached = {} THEN Len(u) + 1 ELSE CHOOSE i \in reached : \A j \in reached : i <= j)
  BY DEF GoTo, Unwinds
<1> HIDE DEF u, N, reached
<1>6. k \in 1 .. size
  OBVIOUS
<1> HIDE DEF size
<1>7. CASE k = 1
  <2>1. reached = {}
    BY <1>1, <1>4, <1>7
  <2> QED  BY <2>1, <1>1, <1>2, <1>5, <1>7 DEF N, size
<1>8. CASE k > 1
  <2>1. size - k + 1 \in reached /\ \A i \in reached : size - k + 1 <= i /\ i \in Int
    BY <1>1, <1>4, <1>6, <1>8
  <2>2. \A i \in reached : (\A j \in reached : i <= j) => i = size - k + 1
    BY <2>1, <1>1, <1>6
  <2>3. (CHOOSE i \in reached : \A j \in reached : i <= j) = size - k + 1
    BY <2>1, <2>2
  <2> QED  BY <2>1, <2>3, <1>5 DEF N, size
<1> QED  BY <1>1, <1>6, <1>7, <1>8

-----------------------------------------------------------------------------
(* The books and the stacks.                                               *)
LEMMA PlainFacts ==
  /\ \A n \in Counted : n # "abi" /\ n \in DOMAIN Ladders
  /\ Abis \subseteq Counted /\ "none" \notin Abis /\ "evtchn" \in Public /\ "evtchn" \notin Abis
  /\ Counted = Public \cup Abis
  /\ \A n \in Counted : Rank[n] \in 0 .. 6
  /\ \A n \in Abis : Rank[n] < Rank["evtchn"]
<1>1. \A n \in Counted : n # "abi"
  BY DEF Counted
<1>2. \A n \in Counted : n \in DOMAIN Ladders
  BY DEF Counted, Ladders
<1>3. /\ Abis \subseteq Counted /\ "none" \notin Abis /\ "evtchn" \in Public /\ "evtchn" \notin Abis
      /\ Counted = Public \cup Abis
  BY DEF Public, Counted, Abis
<1>4. \A n \in Counted : Rank[n] \in 0 .. 6
  BY DEF Counted, Rank
<1>5. \A n \in Abis : Rank[n] < Rank["evtchn"]
  BY DEF Abis, Rank
<1> QED  BY <1>1, <1>2, <1>3, <1>4, <1>5

LEMMA OwnIsNoInterface == \A w : Private(w) => w \notin Counted /\ w # "abi"
BY PlainFacts DEF Private

LEMMA FrameFacts ==
  ASSUME NEW f \in Frame
  PROVE  /\ f.way = "up" => /\ Table(f) = Ups(f.of) /\ What(f) = Ups(f.of)[f.at][1]
                            /\ FailLabel(f) = Ups(f.of)[f.at][2]
         /\ f.way = "unwind" => Table(f) = Unwinds(f.of) /\ What(f) = Unwinds(f.of)[f.at][2]
         /\ f.way = "down" => Table(f) = Downs(f.of) /\ What(f) = Downs(f.of)[f.at]
BY DEF Table, What, FailLabel, Rung, Ups, Unwinds, Downs, Frame

LEMMA FitsWhich ==
  ASSUME NEW f \in Frame, NEW b
  PROVE  /\ f.way = "up" => (Fits(f, b) <=> FitsUp(f, b))
         /\ f.way = "unwind" => (Fits(f, b) <=> FitsUnwind(f, b))
         /\ f.way = "down" => (Fits(f, b) <=> FitsDown(f, b))
BY DEF Fits, Frame

LEMMA FewOf ==
  ASSUME NEW T, IsFiniteSet(T), NEW S \in SUBSET T
  PROVE  /\ Cardinality(S) \in Nat
         /\ Cardinality(S) = 0 <=> S = {}
         /\ \A x \in T : x \notin S => Cardinality(S \cup {x}) = Cardinality(S) + 1
         /\ \A x \in S : Cardinality(S \ {x}) = Cardinality(S) - 1
<1>1. IsFiniteSet(S)
  BY FS_Subset
<1> QED
  BY <1>1, FS_CardinalityType, FS_EmptySet, FS_AddElement, FS_RemoveElement

LEMMA CountedIsFinite == IsFiniteSet(Counted)
<1>1. ASSUME NEW a, NEW b, NEW c, NEW d, NEW e PROVE IsFiniteSet({a, b, c, d, e})
  <2>1. IsFiniteSet({a})
    BY FS_Singleton
  <2>2. IsFiniteSet(({a} \cup {b}) \cup {c})
    BY <2>1, FS_AddElement
  <2>3. IsFiniteSet(((({a} \cup {b}) \cup {c}) \cup {d}) \cup {e})
    BY <2>2, FS_AddElement
  <2>4. ((({a} \cup {b}) \cup {c}) \cup {d}) \cup {e} = {a, b, c, d, e}
    OBVIOUS
  <2> QED  BY <2>3, <2>4
<1> DEFINE A == {"debug", "suspend", "range_set", "cache", "gnttab"}
           B == {"shared_info", "evtchn", "evtchn_two_level", "evtchn_fifo", "store"}
           C == {"console", "balloon", "unplug", "unplug", "unplug"}
<1>2. IsFiniteSet(A) /\ IsFiniteSet(B) /\ IsFiniteSet(C)
  BY <1>1
<1>3. Counted = (A \cup B) \cup C
  BY DEF Counted
<1> HIDE DEF A, B, C
<1>4. IsFiniteSet((A \cup B) \cup C)
  BY <1>2, FS_Union
<1> QED  BY <1>3, <1>4

LEMMA StackFrames ==
  ASSUME NEW s \in Seq(Frame), NEW k \in 1 .. Len(s)
  PROVE  s[k] \in Frame /\ s[k].of \in Counted /\ Rank[s[k].of] \in Nat
<1>1. s[k] \in Frame
  OBVIOUS
<1>2. s[k].of \in Counted
  BY <1>1 DEF Frame
<1>3. Rank[s[k].of] \in 0 .. 6
  BY <1>2, PlainFacts
<1> QED  BY <1>1, <1>2, <1>3

\* The frames of a thread after it has gone back to its p-th frame and put f
\* on it.
LEMMA Restack ==
  ASSUME NEW t, NEW s \in Seq(Frame), NEW s2 \in Seq(Frame),
         NEW bk, NEW bk2, NEW ab, NEW ab2, NEW has, NEW has2,
         StackOK(t, s, bk, ab, has),
         Len(s2) \in 1 .. Len(s) + 1,
         \A k \in 1 .. Len(s2) - 1 : s2[k] = s[k] /\ bk2[s[k].of] = bk[s[k].of],
         bk2[s2[Len(s2)].of].lock = t, Fits(s2[Len(s2)], bk2[s2[Len(s2)].of]),
         Len(s2) > 1 => Calling(s[Len(s2) - 1], s2[Len(s2)], ab2) /\ has2 = has,
         Len(s2) = 1 => s2[1].of \in Public /\ (s2[1].way = "down" <=> s2[1].of \in has2),
         ab2 # ab => \A k \in 1 .. Len(s2) - 2 : s[k].of # "evtchn"
  PROVE  StackOK(t, s2, bk2, ab2, has2)
<1> DEFINE p == Len(s2) - 1
           f == s2[Len(s2)]
<1>a. /\ p \in 0 .. Len(s) /\ Len(s2) = p + 1 /\ s2[p + 1] = f /\ f \in Frame
      /\ \A k \in 1 .. p : s2[k] = s[k] /\ bk2[s[k].of] = bk[s[k].of]
      /\ bk2[f.of].lock = t /\ Fits(f, bk2[f.of])
      /\ p > 0 => Calling(s[p], f, ab2) /\ has2 = has
      /\ p = 0 => f.of \in Public /\ (f.way = "down" <=> f.of \in has2)
      /\ ab2 # ab => \A k \in 1 .. p - 1 : s[k].of # "evtchn"
  OBVIOUS
<1> HIDE DEF p, f
<1>0. 1 .. Len(s2) = 1 .. p + 1 /\ 1 .. Len(s2) - 1 = 1 .. p
  BY <1>a
<1>1. \A k \in 1 .. Len(s2) : bk2[s2[k].of].lock = t /\ Fits(s2[k], bk2[s2[k].of])
  <2> SUFFICES ASSUME NEW k \in 1 .. p + 1 PROVE bk2[s2[k].of].lock = t /\ Fits(s2[k], bk2[s2[k].of])
    BY <1>a, <1>0
  <2>1. CASE k = p + 1
    BY <1>a, <2>1
  <2>2. CASE k \in 1 .. p
    <3>1. k \in 1 .. Len(s) /\ s2[k] = s[k] /\ bk2[s[k].of] = bk[s[k].of]
      BY <1>a, <2>2
    <3> QED  BY <3>1 DEF StackOK
  <2> QED  BY <1>a, <2>1, <2>2
<1>2. \A k \in 1 .. Len(s2) - 1 : Calling(s2[k], s2[k + 1], ab2)
  <2> SUFFICES ASSUME NEW k \in 1 .. p PROVE Calling(s2[k], s2[k + 1], ab2)
    BY <1>a, <1>0
  <2>1. CASE k = p
    BY <1>a, <2>1
  <2>2. CASE k < p
    <3>1. /\ k \in 1 .. Len(s) - 1 /\ k \in 1 .. p - 1
          /\ s2[k] = s[k] /\ s2[k + 1] = s[k + 1]
      BY <1>a, <2>2
    <3>2. Calling(s[k], s[k + 1], ab)
      BY <1>a, <3>1 DEF StackOK
    <3>3. CASE ab2 = ab
      BY <1>a, <3>1, <3>2, <3>3
    <3>4. CASE ab2 # ab
      BY <1>a, <3>1, <3>2, <3>4 DEF Calling
    <3> QED  BY <3>3, <3>4
  <2> QED  BY <1>a, <2>1, <2>2
<1>3. \A j, k \in 1 .. Len(s2) : j < k => Rank[s2[k].of] < Rank[s2[j].of]
  <2> SUFFICES ASSUME NEW j \in 1 .. p + 1, NEW k \in 1 .. p + 1, j < k
               PROVE  Rank[s2[k].of] < Rank[s2[j].of]
    BY <1>a, <1>0
  <2>1. CASE k \in 1 .. p
    <3>1. j \in 1 .. Len(s) /\ k \in 1 .. Len(s) /\ s2[j] = s[j] /\ s2[k] = s[k]
      BY <1>a, <2>1
    <3> QED  BY <3>1 DEF StackOK
  <2>2. CASE k = p + 1
    <3>1. p \in 1 .. Len(s) /\ j \in 1 .. p /\ j \in 1 .. Len(s) /\ s2[j] = s[j] /\ s2[k] = f
      BY <1>a, <2>2
    <3>2. Rank[f.of] < Rank[s[p].of]
      BY <1>a, <3>1 DEF Calling
    <3>3. j < p => Rank[s[p].of] < Rank[s[j].of]
      BY <1>a, <3>1 DEF StackOK
    <3>4. Rank[f.of] \in Nat /\ Rank[s[p].of] \in Nat /\ Rank[s[j].of] \in Nat
      <4>1. f.of \in Counted
        BY <1>a DEF Frame
      <4>2. Rank[f.of] \in 0 .. 6
        BY <4>1, PlainFacts
      <4>3. Rank[s[p].of] \in Nat
        BY <3>1, StackFrames
      <4>4. Rank[s[j].of] \in Nat
        BY <3>1, StackFrames
      <4>5. Rank[f.of] \in Nat
        BY <4>2
      <4> QED  BY <4>3, <4>4, <4>5
    <3> QED  BY <3>1, <3>2, <3>3, <3>4
  <2> QED  BY <1>a, <2>1, <2>2
<1>4. Len(s2) > 0 => s2[1].of \in Public /\ (s2[1].way = "down" <=> s2[1].of \in has2)
  <2>1. CASE p = 0
    BY <1>a, <2>1
  <2>2. CASE p > 0
    <3>1. s2[1] = s[1] /\ Len(s) > 0 /\ has2 = has
      BY <1>a, <2>2
    <3> QED  BY <3>1 DEF StackOK
  <2> QED  BY <1>a, <2>1, <2>2
<1> QED  BY <1>1, <1>2, <1>3, <1>4 DEF StackOK

\* A stack depends on the books of its own interfaces only, and on the ABI
\* only if EVTCHN is among them.
LEMMA Untouched ==
  ASSUME NEW u, NEW s \in Seq(Frame), NEW bk, NEW bk2, NEW ab, NEW ab2, NEW has,
         StackOK(u, s, bk, ab, has),
         \A n \in Counted : bk[n].lock = u => bk2[n] = bk[n],
         ab2 # ab => bk["evtchn"].lock # u
  PROVE  StackOK(u, s, bk2, ab2, has)
<1>1. ASSUME NEW k \in 1 .. Len(s)
      PROVE  bk[s[k].of].lock = u /\ bk2[s[k].of] = bk[s[k].of] /\ Fits(s[k], bk[s[k].of])
  <2>1. bk[s[k].of].lock = u /\ Fits(s[k], bk[s[k].of])
    BY DEF StackOK
  <2> QED  BY <2>1, StackFrames
<1>2. ASSUME NEW k \in 1 .. Len(s) - 1 PROVE Calling(s[k], s[k + 1], ab2)
  <2>1. Calling(s[k], s[k + 1], ab)
    BY DEF StackOK
  <2>2. k \in 1 .. Len(s)
    OBVIOUS
  <2>3. CASE ab2 = ab
    BY <2>1, <2>3
  <2>4. CASE ab2 # ab
    <3>1. s[k].of # "evtchn"
      BY <2>2, <2>4, <1>1
    <3> QED  BY <2>1, <3>1 DEF Calling
  <2> QED  BY <2>3, <2>4
<1>3. \A k \in 1 .. Len(s) : bk2[s[k].of].lock = u /\ Fits(s[k], bk2[s[k].of])
  BY <1>1
<1> QED  BY <1>2, <1>3 DEF StackOK

\* n is none of t's, or is left at rest, or is inside t's stack.
Accounted(n, t, s, b, b2) ==
  \/ b2 = b /\ b.lock # t
  \/ /\ b.lock \in {t, "free"}
     /\ \/ b2.lock = "free" /\ Rests(n, b2)
        \/ b2.lock = t /\ \E k \in 1 .. Len(s) : s[k].of = n

\* One thread takes a step: what it does to interfaces whose locks it has or
\* takes, and to its own stack, leaves everything consistent.
LEMMA OneSteps ==
  ASSUME NEW t \in Climber,
         NEW fr \in [Climber -> Seq(Frame)], NEW fr2 \in [Climber -> Seq(Frame)],
         NEW has, NEW has2, NEW bk, NEW bk2, NEW ab, NEW ab2,
         Consistent(bk, fr, has, ab),
         \A n \in Counted : Accounted(n, t, fr2[t], bk[n], bk2[n]),
         \A u \in Climber \ {t} : fr2[u] = fr[u] /\ has2[u] = has[u],
         ab2 # ab => bk["evtchn"].lock = t,
         StackOK(t, fr2[t], bk2, ab2, has2[t])
  PROVE  Consistent(bk2, fr2, has2, ab2)
<1> USE DEF Accounted
<1>0. "free" \notin Climber
  BY LadderAssumption
<1>1. ASSUME NEW u \in Climber PROVE StackOK(u, fr2[u], bk2, ab2, has2[u])
  <2>1. CASE u = t
    BY <2>1
  <2>2. CASE u # t
    <3>1. StackOK(u, fr[u], bk, ab, has[u]) /\ fr2[u] = fr[u] /\ has2[u] = has[u] /\ fr[u] \in Seq(Frame)
      BY <2>2 DEF Consistent
    <3>2. \A n \in Counted : bk[n].lock = u => bk2[n] = bk[n]
      BY <1>0, <2>2
    <3>3. ab2 # ab => bk["evtchn"].lock # u
      BY <2>2
    <3> QED  BY <3>1, <3>2, <3>3, Untouched
  <2> QED  BY <2>1, <2>2
<1>2. ASSUME NEW n \in Counted, bk2[n].lock = "free" PROVE Rests(n, bk2[n])
  BY <1>0, <1>2 DEF Consistent
<1>3. ASSUME NEW n \in Counted, bk2[n].lock # "free"
      PROVE  bk2[n].lock \in Climber /\ \E k \in 1 .. Len(fr2[bk2[n].lock]) : fr2[bk2[n].lock][k].of = n
  <2>1. CASE bk2[n].lock = t
    <3>1. \E k \in 1 .. Len(fr2[t]) : fr2[t][k].of = n
      BY <1>0, <2>1
    <3> QED  BY <2>1, <3>1
  <2>2. CASE bk2[n].lock # t
    <3>1. bk2[n] = bk[n]
      BY <1>3, <2>2
    <3>2. bk[n].lock \in Climber /\ \E k \in 1 .. Len(fr[bk[n].lock]) : fr[bk[n].lock][k].of = n
      BY <1>3, <3>1 DEF Consistent
    <3> QED  BY <2>2, <3>1, <3>2
  <2> QED  BY <2>1, <2>2
<1> QED  BY <1>1, <1>2, <1>3 DEF Consistent

\* Entering a function whose lock is free: it does everything or nothing.
LEMMA Entering ==
  ASSUME NEW n \in Counted, NEW way \in {"up", "down"}, NEW b, NEW b2, b.refs \in Nat,
         Rests(n, b), way = "down" => b.refs > 0,
         b2.held = b.held, b2.users = b.users,
         b2.refs = IF way = "up" THEN b.refs + 1 ELSE b.refs - 1
  PROVE  LET first == IF way = "up" THEN b.refs = 0 ELSE b.refs = 1
             f == Activation(n, way, IF first THEN 1 ELSE Len(Table(Activation(n, way, 1))) + 1)
         IN  f \in Frame /\ f.of = n /\ f.way = way /\ Fits(f, b2)
<1> DEFINE first == IF way = "up" THEN b.refs = 0 ELSE b.refs = 1
           start == IF first THEN 1 ELSE Len(Table(Activation(n, way, 1))) + 1
           f == Activation(n, way, start)
<1>1. Len(Ups(n)) \in Nat /\ Len(Downs(n)) \in Nat
  BY TablesInOrder DEF UpTable, DownTable
<1>2. /\ way = "up" => start = IF b.refs = 0 THEN 1 ELSE Len(Ups(n)) + 1
      /\ way = "down" => start = IF b.refs = 1 THEN 1 ELSE Len(Downs(n)) + 1
  BY DEF Table, Activation, Ups, Downs
<1> HIDE DEF start
<1>3. f \in Frame /\ f.of = n /\ f.way = way /\ f.at = start
  BY <1>1, <1>2 DEF Activation, Frame
<1>4. UpTo(n, 1) = {}
  BY DEF UpTo
<1> HIDE DEF f
<1>5. b.refs = b.users /\ b.held = IF b.refs = 0 THEN {} ELSE Everything(n)
  BY DEF Rests
<1>6. CASE way = "up"
  <2>1. f.at \in 1 .. Len(Ups(n)) + 1 /\ (f.at <= Len(Ups(n)) => b.refs = 0)
    BY <1>1, <1>2, <1>3, <1>6
  <2>2. b2.refs = b2.users + 1 /\ (b.refs = 0 => b2.refs = 1)
    BY <1>5, <1>6
  <2>3. b2.held = UpTo(n, f.at)
    BY <1>2, <1>3, <1>4, <1>5, <1>6 DEF Everything
  <2>4. FitsUp(f, b2)
    BY <1>3, <2>1, <2>2, <2>3 DEF FitsUp
  <2> QED  BY <1>3, <1>6, <2>4, FitsWhich DEF f, start
<1>7. CASE way = "down"
  <2>1. /\ f.at \in 1 .. Len(Downs(n)) + 1
        /\ b.refs # 1 => f.at = Len(Downs(n)) + 1
        /\ b.refs = 1 => f.at = 1
    BY <1>1, <1>2, <1>3, <1>7
  <2>2. b2.users = b2.refs + 1 /\ (b2.refs = 0 <=> b.refs = 1)
    BY <1>5, <1>7
  <2>3. b2.held = Everything(n) /\ StillThere(n, 1) = Everything(n)
    BY <1>5, <1>7, DownFacts
  <2>4. FitsDown(f, b2)
    BY <1>3, <2>1, <2>2, <2>3 DEF FitsDown
  <2> QED  BY <1>3, <1>7, <2>4, FitsWhich DEF f, start
<1> QED  BY <1>6, <1>7

-----------------------------------------------------------------------------
(* What a frame does next.                                                 *)
LEMMA ThingsOf ==
  ASSUME NEW n \in Counted, NEW w \in Everything(n)
  PROVE  (Private(w) \/ Callable(n, w)) /\ w \in Things
<1>1. Len(Ups(n)) \in Nat
  BY TablesInOrder DEF UpTable
<1>2. PICK k \in 1 .. Len(Ups(n)) : w = Ups(n)[k][1]
  <2>1. (Len(Ups(n)) + 1) - 1 = Len(Ups(n))
    BY <1>1
  <2> QED  BY <2>1 DEF Everything, UpTo
<1>3. Private(w) \/ Callable(n, w)
  BY <1>2, TablesInOrder DEF UpTable
<1> QED  BY <1>3 DEF Things

LEMMA CallableIs ==
  ASSUME NEW n \in Counted, NEW w, Callable(n, w)
  PROVE  /\ w \in Public => Rank[w] < Rank[n]
         /\ w \notin Public => w = "abi" /\ n = "evtchn"
         /\ w \in DOMAIN Ladders \cup {"abi"} /\ w \notin Abis /\ ~Private(w)
<1>1. w \in Public \/ (w = "abi" /\ n = "evtchn")
  BY DEF Callable
<1>2. w \in Public => Rank[w] < Rank[n]
  BY PlainFacts DEF Callable
<1>3. w \in DOMAIN Ladders \cup {"abi"} /\ w \notin Abis
  <2>1. "abi" \notin Abis
    BY PlainFacts
  <2> QED  BY <1>1, <2>1, PlainFacts DEF Public
<1>4. ~Private(w)
  BY <1>3 DEF Private
<1> QED  BY <1>1, <1>2, <1>3, <1>4

LEMMA TwoLevelCalls == \A k \in 1 .. Len(Ups("evtchn_two_level")) : Ups("evtchn_two_level")[k][1] = "shared_info"
<1>1. Ups("evtchn_two_level") = << <<"shared_info", 1>> >>
  BY TheTables DEF Tables, TwoLevelUp
<1> QED  BY <1>1

\* On the way up: it goes on, or to the label of its failure.
LEMMA GoingUp ==
  ASSUME NEW f \in Frame, NEW b, b.users \in Nat, Fits(f, b), ~Ended(f), f.way = "up"
  PROVE  /\ Private(What(f)) \/ (Callable(f.of, What(f)) /\ FailLabel(f) # 0)
         /\ What(f) \notin b.held /\ What(f) \in Everything(f.of)
         /\ FailLabel(f) \in 0 .. 10 /\ b.refs = 1 /\ b.users = 0
         /\ f.at \in 1 .. Len(Ups(f.of)) /\ b.held = UpTo(f.of, f.at)
         /\ \A b2 : b2.held = b.held \cup {What(f)} /\ b2.refs = b.refs /\ b2.users = b.users =>
              Fits(Beyond(f), b2)
         /\ f.of # "evtchn_two_level" /\ FailLabel(f) # 0 =>
              /\ GoTo(f, FailLabel(f)) \in Frame /\ GoTo(f, FailLabel(f)).of = f.of
              /\ GoTo(f, FailLabel(f)).way = "unwind"
              /\ \A b2 : b2.held = b.held /\ b2.refs = b.refs /\ b2.users = b.users =>
                   Fits(GoTo(f, FailLabel(f)), b2)
<1> DEFINE n == f.of
           size == Len(Ups(n))
<1>1. n \in Counted /\ f.at \in Nat
  BY DEF Frame
<1>2. size \in Nat
  BY <1>1, TablesInOrder DEF UpTable
<1>3. FitsUp(f, b)
  BY FitsWhich
<1>4. f.at \in 1 .. size
  BY <1>1, <1>2, <1>3, FrameFacts DEF Ended, FitsUp
<1>5. What(f) = Ups(n)[f.at][1] /\ FailLabel(f) = Ups(n)[f.at][2]
  BY FrameFacts
<1>6. b.refs = 1 /\ b.users = 0 /\ b.held = UpTo(n, f.at)
  <2>1. b.refs = 1 /\ b.refs = b.users + 1 /\ b.held = UpTo(n, f.at)
    BY <1>3, <1>4 DEF FitsUp
  <2> QED  BY <2>1
<1>7. /\ Private(What(f)) \/ (Callable(n, What(f)) /\ FailLabel(f) # 0)
      /\ FailLabel(f) \in 0 .. 10
  BY <1>1, <1>4, <1>5, TablesInOrder DEF UpTable
<1>8. /\ What(f) \notin b.held /\ What(f) \in Everything(n)
      /\ UpTo(n, f.at + 1) = b.held \cup {What(f)}
  BY <1>1, <1>4, <1>5, <1>6, UpFacts
<1>9. ASSUME NEW b2, b2.held = b.held \cup {What(f)}, b2.refs = b.refs, b2.users = b.users
      PROVE  Fits(Beyond(f), b2)
  <2>1. Beyond(f) \in Frame /\ Beyond(f).of = n /\ Beyond(f).at = f.at + 1 /\ Beyond(f).way = "up"
    BY <1>1 DEF Beyond, Frame
  <2>2. f.at + 1 \in 1 .. size + 1
    BY <1>2, <1>4
  <2>3. FitsUp(Beyond(f), b2)
    BY <1>3, <1>6, <1>8, <1>9, <2>1, <2>2 DEF FitsUp
  <2> QED  BY <2>1, <2>3, FitsWhich
<1>10. ASSUME n # "evtchn_two_level", FailLabel(f) # 0,
              NEW b2, b2.held = b.held, b2.refs = b.refs, b2.users = b.users
       PROVE  /\ GoTo(f, FailLabel(f)) \in Frame /\ GoTo(f, FailLabel(f)).of = n
              /\ GoTo(f, FailLabel(f)).way = "unwind" /\ Fits(GoTo(f, FailLabel(f)), b2)
  <2> DEFINE g == GoTo(f, FailLabel(f))
  <2>1. g = Activation(n, "unwind", size - f.at + 1)
    BY <1>1, <1>4, <1>5, <1>10, GoToLands
  <2>2. size - f.at + 1 \in 1 .. size /\ size - (size - f.at + 1) + 1 = f.at
    BY <1>2, <1>4
  <2> HIDE DEF g
  <2>3. g \in Frame /\ g.of = n /\ g.way = "unwind" /\ g.at = size - f.at + 1
    BY <1>1, <2>1, <2>2 DEF Activation, Frame
  <2>4. FitsUnwind(g, b2)
    BY <1>6, <1>10, <2>2, <2>3 DEF FitsUnwind
  <2> QED  BY <2>3, <2>4, FitsWhich DEF g
<1> QED  BY <1>4, <1>6, <1>7, <1>8, <1>9, <1>10

\* On the way down, after a failure or at the last reference.
LEMMA GoingDown ==
  ASSUME NEW f \in Frame, NEW b, Fits(f, b), ~Ended(f), f.way # "up"
  PROVE  /\ Private(What(f)) \/ Callable(f.of, What(f))
         /\ What(f) \in b.held
         /\ Sound(f.of, b.held \ {What(f)})
         /\ \A b2 : b2.held = b.held \ {What(f)} /\ b2.refs = b.refs /\ b2.users = b.users =>
              Fits(Beyond(f), b2)
<1> DEFINE n == f.of
           size == Len(Ups(n))
<1>1. n \in Counted /\ f.at \in Nat
  BY DEF Frame
<1>2. size \in Nat /\ Len(Downs(n)) \in Nat
  BY <1>1, TablesInOrder DEF UpTable, DownTable
<1>3. Beyond(f) \in Frame /\ Beyond(f).of = n /\ Beyond(f).at = f.at + 1 /\ Beyond(f).way = f.way
  BY <1>1 DEF Beyond, Frame
<1>4. CASE f.way = "unwind"
  <2> DEFINE k == size - f.at
  <2>1. FitsUnwind(f, b)
    BY <1>4, FitsWhich
  <2>2. Len(Unwinds(n)) = size - 1 /\ f.at \in 1 .. size
    BY <1>1, <1>2, <2>1, TablesInOrder DEF UnwindTable, FitsUnwind
  <2>3. f.at \in 1 .. size - 1
    BY <1>2, <1>4, <2>2, FrameFacts DEF Ended
  <2>4. k \in 1 .. size /\ What(f) = Ups(n)[k][1]
    <3>1. What(f) = Unwinds(n)[f.at][2]
      BY <1>4, FrameFacts
    <3>2. n # "evtchn_two_level"
      BY <2>1 DEF FitsUnwind
    <3>3. \A i \in 1 .. size - 1 : Unwinds(n)[i][2] = Ups(n)[size - i][1]
      BY <1>1, <3>2, TablesInOrder DEF UnwindTable
    <3>4. k \in 1 .. size
      BY <1>2, <2>3
    <3> QED  BY <2>3, <3>1, <3>3, <3>4
  <2>5. /\ b.held = UpTo(n, k + 1) /\ UpTo(n, k + 1) = UpTo(n, k) \cup {What(f)} /\ What(f) \notin UpTo(n, k)
        /\ What(f) \in Everything(n)
    <3> HIDE DEF k
    <3>1. b.held = UpTo(n, k + 1)
      BY <2>1 DEF FitsUnwind, k
    <3> QED  BY <1>1, <2>4, <3>1, UpFacts
  <2>6. b.held \ {What(f)} = UpTo(n, k)
    BY <2>5
  <2>7. Sound(n, UpTo(n, k))
    <3>1. k \in 1 .. size + 1
      BY <1>2, <2>4
    <3> QED  BY <1>1, <3>1, UpToSound
  <2>8. ASSUME NEW b2, b2.held = b.held \ {What(f)}, b2.refs = b.refs, b2.users = b.users
        PROVE  Fits(Beyond(f), b2)
    <3>1. f.at + 1 \in 1 .. size /\ size - (f.at + 1) + 1 = k
      BY <1>2, <2>3
    <3> HIDE DEF k
    <3>2. FitsUnwind(Beyond(f), b2)
      BY <1>3, <1>4, <2>1, <2>6, <2>8, <3>1 DEF FitsUnwind
    <3> QED  BY <1>3, <1>4, <3>2, FitsWhich
  <2>9. Private(What(f)) \/ Callable(n, What(f))
    BY <1>1, <2>5, ThingsOf
  <2> QED  BY <2>5, <2>6, <2>7, <2>8, <2>9
<1>5. CASE f.way = "down"
  <2>1. FitsDown(f, b)
    BY <1>5, FitsWhich
  <2>2. f.at \in 1 .. Len(Downs(n)) /\ What(f) = Downs(n)[f.at]
    BY <1>1, <1>2, <1>5, <2>1, FrameFacts DEF Ended, FitsDown
  <2>3. b.refs = 0 /\ b.held = StillThere(n, f.at) /\ f.at # Len(Downs(n)) + 1
    BY <1>2, <2>1, <2>2 DEF FitsDown
  <2>4. f.at + 1 \in 1 .. Len(Downs(n)) + 1 /\ f.at \in 1 .. Len(Downs(n)) + 1
    BY <1>2, <2>2
  <2>5. /\ What(f) \notin StillThere(n, f.at + 1)
        /\ StillThere(n, f.at) = StillThere(n, f.at + 1) \cup {What(f)}
        /\ Sound(n, StillThere(n, f.at + 1)) /\ StillThere(n, f.at) \subseteq Everything(n)
    BY <1>1, <2>2, <2>4, DownFacts
  <2>6. b.held \ {What(f)} = StillThere(n, f.at + 1)
    BY <2>3, <2>5
  <2>7. ASSUME NEW b2, b2.held = b.held \ {What(f)}, b2.refs = b.refs, b2.users = b.users
        PROVE  Fits(Beyond(f), b2)
    <3>1. FitsDown(Beyond(f), b2)
      BY <1>3, <1>5, <2>1, <2>3, <2>4, <2>6, <2>7 DEF FitsDown
    <3> QED  BY <1>3, <1>5, <3>1, FitsWhich
  <2>8. Private(What(f)) \/ Callable(n, What(f))
    BY <1>1, <2>5, ThingsOf
  <2> QED  BY <2>3, <2>5, <2>6, <2>7, <2>8
<1> QED  BY <1>4, <1>5 DEF Frame

\* At the end of a function its interface is held whole or not at all.
LEMMA Arriving ==
  ASSUME NEW f \in Frame, NEW b, b.refs \in Nat, b.users \in Nat, Fits(f, b), Ended(f)
  PROVE  /\ f.way = "up" => \A b2 : b2.held = b.held /\ b2.refs = b.refs /\ b2.users = b.users + 1 => Rests(f.of, b2)
         /\ f.way = "unwind" => /\ f.of # "evtchn_two_level" /\ b.users = 0 /\ b.refs = 1
                                /\ \A b2 : b2.held = b.held /\ b2.refs = b.refs - 1 /\ b2.users = b.users =>
                                     Rests(f.of, b2)
         /\ f.way = "down" => /\ b.users > 0
                              /\ \A b2 : b2.held = b.held /\ b2.refs = b.refs /\ b2.users = b.users - 1 =>
                                   Rests(f.of, b2)
<1> DEFINE n == f.of
           size == Len(Ups(n))
<1>1. n \in Counted /\ f.at \in Nat
  BY DEF Frame
<1>2. size \in Nat /\ Len(Downs(n)) \in Nat
  BY <1>1, TablesInOrder DEF UpTable, DownTable
<1>3. CASE f.way = "up"
  <2>1. FitsUp(f, b) /\ f.at > size
    BY <1>3, FitsWhich, FrameFacts DEF Ended
  <2>2. f.at = size + 1
    BY <1>2, <2>1 DEF FitsUp
  <2>3. b.held = Everything(n) /\ b.refs = b.users + 1
    BY <2>1, <2>2 DEF FitsUp, Everything
  <2> QED  BY <1>3, <2>3 DEF Rests
<1>4. CASE f.way = "unwind"
  <2>1. FitsUnwind(f, b) /\ f.at > Len(Unwinds(n))
    BY <1>4, FitsWhich, FrameFacts DEF Ended
  <2>2. Len(Unwinds(n)) = size - 1 /\ f.at \in 1 .. size /\ n # "evtchn_two_level"
    BY <1>1, <1>2, <2>1, TablesInOrder DEF UnwindTable, FitsUnwind
  <2>3. f.at = size /\ size - size + 1 = 1
    BY <1>2, <2>1, <2>2
  <2>4. b.held = {} /\ b.refs = 1 /\ b.users = 0
    BY <2>1, <2>3 DEF FitsUnwind, UpTo
  <2>5. ASSUME NEW b2, b2.held = b.held, b2.refs = b.refs - 1, b2.users = b.users PROVE Rests(n, b2)
    <3>1. b2.refs = 0 /\ b2.users = 0 /\ b2.held = {}
      BY <2>4, <2>5
    <3> QED  BY <3>1 DEF Rests
  <2> QED  BY <1>4, <2>2, <2>4, <2>5
<1>5. CASE f.way = "down"
  <2>1. FitsDown(f, b) /\ f.at > Len(Downs(n))
    BY <1>5, FitsWhich, FrameFacts DEF Ended
  <2>2. f.at = Len(Downs(n)) + 1
    BY <1>2, <2>1 DEF FitsDown
  <2>3. b.held = (IF b.refs = 0 THEN {} ELSE Everything(n)) /\ b.users = b.refs + 1
    BY <1>1, <2>1, <2>2, DownFacts DEF FitsDown
  <2> QED  BY <1>5, <2>3 DEF Rests
<1> QED  BY <1>3, <1>4, <1>5 DEF Frame

-----------------------------------------------------------------------------
(* What the invariant says of the state.                                   *)
LEMMA BookFacts ==
  ASSUME LadderTypeOK, NEW n \in Counted
  PROVE  /\ Book[n].lock = lock[n] /\ Book[n].refs = refs[n] /\ Book[n].held = held[n]
         /\ Book[n].users = Cardinality(Clients(n)) + Cardinality(Users(n))
         /\ Cardinality(Clients(n)) \in Nat /\ Cardinality(Users(n)) \in Nat
         /\ Book[n].users \in Nat /\ Book[n].refs \in Nat
<1>1. /\ Book[n].lock = lock[n] /\ Book[n].refs = refs[n] /\ Book[n].held = held[n]
      /\ Book[n].users = Cardinality(Clients(n)) + Cardinality(Users(n))
  BY DEF Book
<1>2. Cardinality(Clients(n)) \in Nat
  BY LadderAssumption, FewOf DEF Clients
<1>3. Cardinality(Users(n)) \in Nat
  BY CountedIsFinite, FewOf DEF Users
<1>4. refs[n] \in Nat
  BY DEF LadderTypeOK
<1> QED  BY <1>1, <1>2, <1>3, <1>4

LEMMA InnerFacts ==
  ASSUME LadderIInv, NEW t \in Climber, frames[t] # << >>
  PROVE  /\ frames[t] \in Seq(Frame) /\ Len(frames[t]) \in Nat \ {0}
         /\ Inner(t) = frames[t][Len(frames[t])] /\ Inner(t) \in Frame /\ Inner(t).of \in Counted
         /\ StackOK(t, frames[t], Book, abi, owned[t])
         /\ lock[Inner(t).of] = t /\ Fits(Inner(t), Book[Inner(t).of])
         /\ \A k \in 1 .. Len(frames[t]) - 1 : frames[t][k].of # Inner(t).of
         /\ \A k \in 1 .. Len(frames[t]) : lock[frames[t][k].of] = t
<1>1. frames[t] \in Seq(Frame) /\ Len(frames[t]) \in Nat \ {0}
  BY DEF LadderIInv, LadderTypeOK
<1>2. Inner(t) = frames[t][Len(frames[t])] /\ Len(frames[t]) \in 1 .. Len(frames[t])
  BY <1>1 DEF Inner
<1>3. Inner(t) \in Frame /\ Inner(t).of \in Counted
  BY <1>1, <1>2, StackFrames
<1>4. StackOK(t, frames[t], Book, abi, owned[t])
  BY DEF LadderIInv, Consistent
<1>5. \A k \in 1 .. Len(frames[t]) : Book[frames[t][k].of].lock = t /\ Fits(frames[t][k], Book[frames[t][k].of])
  BY <1>4 DEF StackOK
<1>6. \A k \in 1 .. Len(frames[t]) : lock[frames[t][k].of] = t
  BY <1>1, <1>5, StackFrames, BookFacts DEF LadderIInv
<1>7. ASSUME NEW k \in 1 .. Len(frames[t]) - 1 PROVE frames[t][k].of # Inner(t).of
  <2>1. k \in 1 .. Len(frames[t]) /\ k < Len(frames[t])
    BY <1>1
  <2>2. Rank[Inner(t).of] < Rank[frames[t][k].of]
    BY <1>2, <1>4, <2>1 DEF StackOK
  <2>3. Rank[Inner(t).of] \in Nat
    BY <1>1, <1>2, StackFrames
  <2> QED  BY <2>2, <2>3
<1> QED  BY <1>1, <1>2, <1>3, <1>4, <1>5, <1>6, <1>7

\* What an interface has at any time belongs together.
LEMMA WhatIsHeld ==
  ASSUME LadderIInv, NEW n \in Counted
  PROVE  held[n] \subseteq Everything(n) /\ Sound(n, held[n])
<1>1. Book[n].lock = lock[n] /\ Book[n].held = held[n] /\ LadderTypeOK
  BY BookFacts DEF LadderIInv
<1>2. Len(Ups(n)) \in Nat /\ Len(Downs(n)) \in Nat
  BY TablesInOrder DEF UpTable, DownTable
<1>3. Len(Ups(n)) + 1 \in 1 .. Len(Ups(n)) + 1
  BY <1>2
<1>4. Everything(n) \subseteq Everything(n) /\ Sound(n, Everything(n))
  BY <1>3, UpToSound DEF Everything
<1>5. CASE lock[n] = "free"
  <2>1. held[n] = {} \/ held[n] = Everything(n)
    BY <1>1, <1>5 DEF LadderIInv, Consistent, Rests
  <2> QED  BY <1>4, <2>1 DEF Sound
<1>6. CASE lock[n] # "free"
  <2>1. /\ lock[n] \in Climber
        /\ \E k \in 1 .. Len(frames[lock[n]]) : frames[lock[n]][k].of = n
    BY <1>1, <1>6 DEF LadderIInv, Consistent
  <2>2. PICK k \in 1 .. Len(frames[lock[n]]) : frames[lock[n]][k].of = n
    BY <2>1
  <2> DEFINE f == frames[lock[n]][k]
  <2>3. f \in Frame
    BY <2>1, <2>2, StackFrames DEF LadderIInv, LadderTypeOK
  <2>4. Fits(f, Book[n])
    BY <2>1, <2>2 DEF LadderIInv, Consistent, StackOK
  <2> HIDE DEF f
  <2>5. f.of = n
    BY <2>2 DEF f
  <2>6. CASE f.way = "up"
    <3>1. f.at \in 1 .. Len(Ups(n)) + 1 /\ held[n] = UpTo(n, f.at)
      BY <1>1, <2>3, <2>4, <2>5, <2>6, FitsWhich DEF FitsUp
    <3> QED  BY <3>1, UpToSound
  <2>7. CASE f.way = "unwind"
    <3>1. f.at \in 1 .. Len(Ups(n)) /\ held[n] = UpTo(n, Len(Ups(n)) - f.at + 1)
      BY <1>1, <2>3, <2>4, <2>5, <2>7, FitsWhich DEF FitsUnwind
    <3>2. Len(Ups(n)) - f.at + 1 \in 1 .. Len(Ups(n)) + 1
      BY <1>2, <3>1
    <3> QED  BY <3>1, <3>2, UpToSound
  <2>8. CASE f.way = "down"
    <3>1. f.at \in 1 .. Len(Downs(n)) + 1 /\ held[n] \in {StillThere(n, f.at), Everything(n)}
      BY <1>1, <2>3, <2>4, <2>5, <2>8, FitsWhich DEF FitsDown
    <3> QED  BY <1>4, <3>1, DownFacts
  <2> QED  BY <2>3, <2>6, <2>7, <2>8 DEF Frame
<1> QED  BY <1>5, <1>6

LEMMA WhoHasTheAbi ==
  ASSUME LadderIInv, NEW n \in Counted
  PROVE  /\ "abi" \in held[n] => n = "evtchn"
         /\ held[n] \cap Abis = {}
<1>1. ASSUME NEW w \in held[n], ~Private(w) PROVE Callable(n, w)
  <2>1. w \in Everything(n)
    BY WhatIsHeld
  <2> QED  BY <1>1, <2>1, ThingsOf
<1>2. ~Private("abi") /\ "abi" \notin Public
  BY PlainFacts DEF Private, Public
<1>3. \A w \in Abis : ~Private(w)
  BY PlainFacts, OwnIsNoInterface
<1> QED  BY <1>1, <1>2, <1>3, CallableIs

-----------------------------------------------------------------------------
(* Entering a function: Client and Call.                                   *)

\* Who gives back the last reference is the only one who had it, and has
\* nothing registered any more.
LEMMA NothingOutstanding ==
  ASSUME LadderIInv, NEW n \in Counted, lock[n] = "free", refs[n] = 1,
         \/ \E t \in Climber : n \in owned[t]
         \/ \E m \in Users(n) : \E w \in held[m] : Sound(m, held[m] \ {w}) /\ (w = n \/ n \in Abis)
  PROVE  ~Outstanding(n)
<1> SUFFICES ASSUME n \in DOMAIN Registered, NEW y \in DOMAIN held, held[y] \cap Registered[n] # {} PROVE FALSE
  BY DEF Outstanding
<1>1. LadderTypeOK /\ DOMAIN held = Counted
  BY DEF LadderIInv, LadderTypeOK
<1>2. PICK x \in held[y] : x \in Registered[n]
  OBVIOUS
<1>3. n \notin Abis /\ x # n
  BY <1>2 DEF Registered, Abis
<1>4. y \in Users(n)
  <2>1. Based(y, x, held[y])
    BY <1>1, WhatIsHeld DEF Sound
  <2>2. n \in held[y]
    BY <1>2, <2>1 DEF Based
  <2> QED  BY <1>1, <2>2 DEF Users
<1>5. Cardinality(Clients(n)) + Cardinality(Users(n)) = 1
  <2>1. Rests(n, Book[n])
    BY <1>1, BookFacts DEF LadderIInv, Consistent
  <2> QED  BY <1>1, <2>1, BookFacts DEF Rests
<1>6. IsFiniteSet(Climber) /\ IsFiniteSet(Counted) /\ Users(n) \subseteq Counted /\ Clients(n) \subseteq Climber
  BY LadderAssumption, CountedIsFinite DEF Users, Clients
<1>7. Cardinality(Users(n)) # 0
  BY <1>4, <1>6, FewOf
<1>8. Cardinality(Users(n)) = 1 /\ Cardinality(Clients(n)) = 0
  <2>1. Cardinality(Clients(n)) \in Nat /\ Cardinality(Users(n)) \in Nat
    BY <1>1, BookFacts
  <2> QED  BY <1>5, <1>7, <2>1
<1>9. Clients(n) = {}
  BY <1>6, <1>8, FewOf
<1>10. PICK m \in Users(n) : \E w \in held[m] : Sound(m, held[m] \ {w}) /\ (w = n \/ n \in Abis)
  BY <1>9 DEF Clients
<1>11. Sound(m, held[m] \ {n})
  BY <1>3, <1>10
<1>12. y = m
  <2>1. Cardinality(Users(n) \ {m}) = 0
    BY <1>6, <1>8, FewOf
  <2>2. Users(n) \ {m} = {}
    <3>1. Users(n) \ {m} \subseteq Counted
      BY <1>6
    <3> QED  BY <1>6, <2>1, <3>1, FewOf
  <2> QED  BY <1>4, <2>2
<1>13. Based(m, x, held[m] \ {n})
  BY <1>3, <1>11, <1>12 DEF Sound
<1> QED  BY <1>2, <1>13 DEF Based

LEMMA EnterStep ==
  ASSUME LadderIInv, UNCHANGED <<Top, held, fifo, owned>>,
         NEW t \in Climber, NEW n \in Counted, NEW way \in {"up", "down"},
         Enter(t, n, way, frames[t]),
         abi' \in Abis \cup {"none"}, abi' # abi => abi' \in Abis /\ "abi" \notin held["evtchn"],
         frames[t] = << >> => n \in Public /\ (way = "down" <=> n \in owned[t]) /\ abi' = abi,
         frames[t] # << >> => LET f == Inner(t)
                              IN  /\ ~Ended(f) /\ (f.way = "up" <=> way = "up")
                                  /\ \/ What(f) = n /\ n \in Public
                                     \/ What(f) = "abi" /\ f.of = "evtchn" /\ n = abi' /\ abi' \in Abis
                                  /\ Rank[n] < Rank[f.of]
                                  /\ abi' # abi => f.of = "evtchn",
         way = "down" => Book[n].users > 0 /\ (refs[n] = 1 => ~Outstanding(n))
  PROVE  LadderIInv'
<1> DEFINE s == frames[t]
           first == IF way = "up" THEN refs[n] = 0 ELSE refs[n] = 1
           g == Activation(n, way, IF first THEN 1 ELSE Len(Table(Activation(n, way, 1))) + 1)
           s2 == Append(s, g)
<1>1. LadderTypeOK /\ Consistent(Book, frames, owned, abi)
  BY DEF LadderIInv
<1>2. /\ lock[n] = "free" /\ lock' = [lock EXCEPT ![n] = t]
      /\ refs' = [refs EXCEPT ![n] = IF way = "up" THEN @ + 1 ELSE @ - 1]
      /\ frames' = [frames EXCEPT ![t] = s2]
      /\ broken' = (broken \/ (way = "down" /\ refs[n] = 0) \/ (~first /\ n \notin Counted)
                           \/ (way = "down" /\ first /\ Outstanding(n)))
  BY DEF Enter
<1>3. Rests(n, Book[n])
  BY <1>1, <1>2, BookFacts DEF Consistent
<1>4. refs[n] \in Nat /\ (way = "down" => refs[n] > 0)
  BY <1>1, <1>3, BookFacts DEF Rests
<1>5. broken' = FALSE
  <2>1. ~(way = "down" /\ refs[n] = 0) /\ ~(~first /\ n \notin Counted)
    BY <1>4
  <2>2. ~(way = "down" /\ first /\ Outstanding(n))
    BY <1>4
  <2>3. broken = FALSE
    BY <1>1 DEF LadderTypeOK
  <2> HIDE DEF first
  <2> QED  BY <1>2, <2>1, <2>2, <2>3
<1>6. refs' \in [Counted -> Nat]
  BY <1>1, <1>2, <1>4 DEF LadderTypeOK
<1>7. \A x \in Counted : Users(x)' = Users(x) /\ Clients(x)' = Clients(x)
  <2> SUFFICES ASSUME NEW x \in Counted PROVE Users(x)' = Users(x) /\ Clients(x)' = Clients(x)
    OBVIOUS
  <2>1. Clients(x)' = Clients(x)
    BY DEF Clients
  <2>2. CASE abi' = abi
    BY <2>1, <2>2 DEF Users
  <2>3. CASE abi' # abi
    <3>1. \A m \in Counted : "abi" \notin held[m]
      BY <2>3, WhoHasTheAbi
    <3> QED  BY <2>1, <3>1 DEF Users
  <2> QED  BY <2>2, <2>3
<1>8. /\ \A x \in Counted \ {n} : Book'[x] = Book[x]
      /\ Book'[n].lock = t /\ Book'[n].held = Book[n].held /\ Book'[n].users = Book[n].users
      /\ Book'[n].refs = IF way = "up" THEN Book[n].refs + 1 ELSE Book[n].refs - 1
  <2>1. \A x \in Counted : lock'[x] = (IF x = n THEN t ELSE lock[x])
    BY <1>1, <1>2 DEF LadderTypeOK
  <2>2. \A x \in Counted : refs'[x] = (IF x = n THEN IF way = "up" THEN refs[x] + 1 ELSE refs[x] - 1 ELSE refs[x])
    BY <1>1, <1>2 DEF LadderTypeOK
  <2> QED  BY <1>7, <2>1, <2>2 DEF Book
<1>9. g \in Frame /\ g.of = n /\ g.way = way /\ Fits(g, Book'[n])
  <2>1. Book[n].refs = refs[n] /\ Book[n].refs \in Nat
    BY <1>1, BookFacts
  <2> DEFINE b == Book[n]
             b2 == Book'[n]
  <2>2. /\ b.refs \in Nat /\ Rests(n, b) /\ (way = "down" => b.refs > 0)
        /\ b2.held = b.held /\ b2.users = b.users
        /\ b2.refs = IF way = "up" THEN b.refs + 1 ELSE b.refs - 1
    BY <1>3, <1>4, <1>8, <2>1
  <2>3. b.refs = refs[n]
    BY <2>1
  <2> HIDE DEF b, b2
  <2>4. LET first1 == IF way = "up" THEN b.refs = 0 ELSE b.refs = 1
            f == Activation(n, way, IF first1 THEN 1 ELSE Len(Table(Activation(n, way, 1))) + 1)
        IN  f \in Frame /\ f.of = n /\ f.way = way /\ Fits(f, b2)
    BY <2>2, Entering
  <2> QED  BY <2>3, <2>4 DEF b2
<1> HIDE DEF g
<1>10. s \in Seq(Frame) /\ Len(s) \in Nat
  BY <1>1 DEF LadderTypeOK
<1>11. /\ s2 \in Seq(Frame) /\ Len(s2) = Len(s) + 1 /\ s2[Len(s) + 1] = g
       /\ \A k \in 1 .. Len(s) : s2[k] = s[k]
  BY <1>9, <1>10
<1> HIDE DEF s2
<1>12. frames' \in [Climber -> Seq(Frame)] /\ lock' \in [Counted -> Climber \cup {"free"}]
  BY <1>1, <1>2, <1>11 DEF LadderTypeOK
<1>13. "free" \notin Climber
  BY LadderAssumption
<1>14. StackOK(t, s, Book, abi, owned[t])
  BY <1>1 DEF Consistent
<1>15. \A k \in 1 .. Len(s) : s[k].of # n /\ Book'[s[k].of] = Book[s[k].of]
  <2> SUFFICES ASSUME NEW k \in 1 .. Len(s) PROVE s[k].of # n /\ Book'[s[k].of] = Book[s[k].of]
    OBVIOUS
  <2>1. Book[s[k].of].lock = t /\ s[k].of \in Counted
    BY <1>10, <1>14, StackFrames DEF StackOK
  <2>2. Book[n].lock = "free"
    BY <1>1, <1>2, BookFacts
  <2> QED  BY <1>8, <1>13, <2>1, <2>2
<1>16. Len(s) > 0 => /\ Calling(s[Len(s)], g, abi')
                     /\ abi' # abi => \A k \in 1 .. Len(s) - 1 : s[k].of # "evtchn"
  <2> SUFFICES ASSUME Len(s) > 0
               PROVE  /\ Calling(s[Len(s)], g, abi')
                      /\ abi' # abi => \A k \in 1 .. Len(s) - 1 : s[k].of # "evtchn"
    OBVIOUS
  <2>1. s # << >> /\ frames[t] # << >>
    BY <1>10
  <2>2. /\ Inner(t) = s[Len(s)] /\ Inner(t) \in Frame
        /\ \A k \in 1 .. Len(s) - 1 : s[k].of # Inner(t).of
    BY <2>1, InnerFacts
  <2>3. Inner(t).at <= Len(Table(Inner(t)))
    <3>1. Len(Table(Inner(t))) \in Nat /\ Inner(t).at \in Nat
      <4>1. Inner(t).of \in Counted /\ Inner(t).at \in Nat /\ Inner(t).way \in {"up", "unwind", "down"}
        BY <2>2 DEF Frame
      <4>2. Inner(t).way = "unwind" => Len(Ups(Inner(t).of)) > 0 /\ Inner(t).of # "evtchn_two_level"
        <5>1. Fits(Inner(t), Book[Inner(t).of])
          BY <2>1, InnerFacts
        <5>2. Inner(t).way = "unwind" => FitsUnwind(Inner(t), Book[Inner(t).of])
          BY <2>2, <5>1, FitsWhich
        <5>3. Len(Ups(Inner(t).of)) \in Nat
          BY <4>1, TablesInOrder DEF UpTable
        <5> QED  BY <5>2, <5>3 DEF FitsUnwind
      <4> QED  BY <2>2, <4>1, <4>2, FrameFacts, TablesInOrder DEF UpTable, UnwindTable, DownTable
    <3> QED  BY <2>1, <3>1 DEF Ended
  <2>4. Calling(s[Len(s)], g, abi')
    BY <1>9, <2>1, <2>2, <2>3 DEF Calling
  <2> QED  BY <2>1, <2>2, <2>4
<1> DEFINE bk2 == Book'
<1>17. StackOK(t, s2, bk2, abi', owned[t])
  <2>1. /\ Len(s2) \in 1 .. Len(s) + 1 /\ Len(s2) - 1 = Len(s)
        /\ Len(s2) - 2 = Len(s) - 1 /\ s2[Len(s2)] = g
        /\ Len(s2) > 1 <=> Len(s) > 0
        /\ Len(s2) = 1 <=> Len(s) = 0
    BY <1>10, <1>11
  <2>2. Len(s) = 0 => n \in Public /\ (way = "down" <=> n \in owned[t]) /\ abi' = abi
    BY <1>10
  <2>3. /\ \A k \in 1 .. Len(s2) - 1 : s2[k] = s[k] /\ bk2[s[k].of] = Book[s[k].of]
        /\ bk2[s2[Len(s2)].of].lock = t /\ Fits(s2[Len(s2)], bk2[s2[Len(s2)].of])
    BY <1>8, <1>9, <1>11, <1>15, <2>1
  <2>4. Len(s2) > 1 => Calling(s[Len(s2) - 1], s2[Len(s2)], abi')
    BY <1>16, <2>1
  <2>5. Len(s2) = 1 => s2[1].of \in Public /\ (s2[1].way = "down" <=> s2[1].of \in owned[t])
    BY <1>9, <2>1, <2>2
  <2>6. abi' # abi => \A k \in 1 .. Len(s2) - 2 : s[k].of # "evtchn"
    BY <1>10, <1>16, <2>1, <2>2
  <2> HIDE DEF s, bk2
  <2> QED  BY <1>10, <1>11, <1>14, <2>1, <2>3, <2>4, <2>5, <2>6, Restack
<1>18. Consistent(bk2, frames', owned', abi')
  <2>1. frames'[t] = s2 /\ \A u \in Climber \ {t} : frames'[u] = frames[u] /\ owned'[u] = owned[u]
    BY <1>1, <1>2 DEF LadderTypeOK
  <2>2. ASSUME NEW x \in Counted \ {n}
        PROVE  /\ bk2[x] = Book[x]
               /\ Book[x].lock = t => \E k \in 1 .. Len(s2) : s2[k].of = x
    <3>1. \A k \in 1 .. Len(s) : k \in 1 .. Len(s2) /\ s2[k].of = s[k].of
      BY <1>10, <1>11
    <3>2. Book[x].lock = t => \E k \in 1 .. Len(s) : s[k].of = x
      BY <1>1, <1>13 DEF Consistent
    <3> QED  BY <1>8, <3>1, <3>2
  <2>3. Book[n].lock = "free" /\ bk2[n].lock = t /\ \E k \in 1 .. Len(s2) : s2[k].of = n
    <3>1. Len(s) + 1 \in 1 .. Len(s2) /\ s2[Len(s) + 1].of = n
      BY <1>9, <1>10, <1>11
    <3> QED  BY <1>1, <1>2, <1>8, <3>1, BookFacts
  <2> HIDE DEF s, bk2
  <2>4. ASSUME NEW x \in Counted
        PROVE  \/ bk2[x] = Book[x] /\ Book[x].lock # t
               \/ /\ Book[x].lock \in {t, "free"}
                  /\ bk2[x].lock = t /\ \E k \in 1 .. Len(s2) : s2[k].of = x
    BY <2>2, <2>3
  <2>5. abi' # abi => Book["evtchn"].lock = t
    <3> SUFFICES ASSUME abi' # abi PROVE Book["evtchn"].lock = t
      OBVIOUS
    <3>1. frames[t] # << >> /\ Inner(t).of = "evtchn"
      OBVIOUS
    <3>2. lock["evtchn"] = t /\ "evtchn" \in Counted
      BY <3>1, InnerFacts
    <3> QED  BY <1>1, <3>2, BookFacts
  <2>6. frames \in [Climber -> Seq(Frame)]
    BY <1>1 DEF LadderTypeOK
  <2>7. StackOK(t, s2, bk2, abi', owned'[t])
    BY <1>17
  <2> DEFINE fr2 == frames'
             has2 == owned'
  <2>8. /\ \A u \in Climber \ {t} : fr2[u] = frames[u] /\ has2[u] = owned[u]
        /\ StackOK(t, fr2[t], bk2, abi', has2[t])
        /\ \A x \in Counted : Accounted(x, t, fr2[t], Book[x], bk2[x])
        /\ fr2 \in [Climber -> Seq(Frame)]
    BY <1>12, <2>1, <2>4, <2>7 DEF Accounted
  <2> HIDE DEF fr2, has2
  <2>9. Consistent(bk2, fr2, has2, abi')
    BY <1>1, <2>5, <2>6, <2>8, OneSteps
  <2> QED  BY <2>9 DEF fr2, has2
<1>19. LadderTypeOK'
  BY <1>1, <1>5, <1>6, <1>12 DEF LadderTypeOK
<1>20. ("abi" \in held["evtchn"] => abi \in Abis)'
  BY DEF LadderIInv
<1> QED  BY <1>18, <1>19, <1>20 DEF LadderIInv, bk2

LEMMA SomeUser ==
  ASSUME LadderTypeOK, NEW n \in Counted, (\E t \in Climber : n \in owned[t]) \/ Users(n) # {}
  PROVE  Book[n].users > 0
<1>1. IsFiniteSet(Climber) /\ IsFiniteSet(Counted) /\ Users(n) \subseteq Counted /\ Clients(n) \subseteq Climber
  BY LadderAssumption, CountedIsFinite DEF Users, Clients
<1>2. Cardinality(Clients(n)) # 0 \/ Cardinality(Users(n)) # 0
  <2>1. Clients(n) # {} \/ Users(n) # {}
    BY DEF Clients
  <2> QED  BY <1>1, <2>1, FewOf
<1>3. /\ Cardinality(Clients(n)) \in Nat /\ Cardinality(Users(n)) \in Nat
      /\ Book[n].users = Cardinality(Clients(n)) + Cardinality(Users(n))
  BY BookFacts
<1> QED  BY <1>2, <1>3

LEMMA ClientStep ==
  ASSUME LadderIInv, UNCHANGED Top, NEW t \in Climber, Client(t)
  PROVE  LadderIInv'
<1>1. LadderTypeOK
  BY DEF LadderIInv
<1>2. PICK n \in Top : \/ n \notin owned[t] /\ Enter(t, n, "up", << >>)
                       \/ n \in owned[t] /\ Enter(t, n, "down", << >>)
  BY DEF Client
<1>3. frames[t] = << >> /\ UNCHANGED <<held, abi, fifo, owned>>
  BY DEF Client
<1>4. n \in Public /\ n \in Counted /\ abi \in Abis \cup {"none"}
  BY <1>1, PlainFacts DEF LadderTypeOK
<1>5. CASE n \notin owned[t]
  <2>1. Enter(t, n, "up", frames[t])
    BY <1>2, <1>3, <1>5
  <2> QED  BY <1>3, <1>4, <1>5, <2>1, EnterStep
<1>6. CASE n \in owned[t]
  <2>1. Enter(t, n, "down", frames[t]) /\ lock[n] = "free"
    BY <1>2, <1>3, <1>4, <1>6 DEF Enter
  <2>2. Book[n].users > 0 /\ (refs[n] = 1 => ~Outstanding(n))
    BY <1>1, <1>4, <1>6, <2>1, SomeUser, NothingOutstanding
  <2> QED  BY <1>3, <1>4, <1>6, <2>1, <2>2, EnterStep
<1> QED  BY <1>5, <1>6

LEMMA CallStep ==
  ASSUME LadderIInv, UNCHANGED Top, NEW t \in Climber, Call(t)
  PROVE  LadderIInv'
<1> DEFINE f == Inner(t)
           w == What(f)
           n == Callee(f)
           b == Book[f.of]
           way == IF f.way = "up" THEN "up" ELSE "down"
<1>1. /\ frames[t] # << >> /\ ~Ended(f) /\ w \in DOMAIN Ladders \cup {"abi"}
      /\ UNCHANGED <<held, fifo, owned>>
      /\ abi' = IF w = "abi" THEN n ELSE abi
      /\ Enter(t, n, way, frames[t])
  BY DEF Call
<1>2. LadderTypeOK /\ abi \in Abis \cup {"none"} /\ ("abi" \in held["evtchn"] => abi \in Abis)
  BY DEF LadderIInv, LadderTypeOK
<1>3. f \in Frame /\ f.of \in Counted /\ Fits(f, b) /\ b.held = held[f.of] /\ b.users \in Nat
  BY <1>1, <1>2, InnerFacts, BookFacts
<1>4. n = IF w # "abi" THEN w ELSE IF abi # "none" THEN abi ELSE IF fifo THEN "evtchn_fifo" ELSE "evtchn_two_level"
  BY DEF Callee
<1> HIDE DEF f, w, n, b
<1>5. Callable(f.of, w) /\ (f.way = "up" => w \notin held[f.of]) /\ (f.way # "up" => w \in held[f.of])
  <2>1. f.way = "up" => Private(w) \/ Callable(f.of, w)
    BY <1>1, <1>3, GoingUp DEF w
  <2>2. f.way # "up" => Private(w) \/ Callable(f.of, w)
    BY <1>1, <1>3, GoingDown DEF w
  <2>3. ~Private(w)
    BY <1>1 DEF Private
  <2>4. f.way = "up" => w \notin held[f.of]
    BY <1>1, <1>3, GoingUp DEF w
  <2>5. f.way # "up" => w \in held[f.of]
    BY <1>1, <1>3, GoingDown DEF w
  <2> QED  BY <2>1, <2>2, <2>3, <2>4, <2>5
<1>6. /\ \/ w = n /\ n \in Public /\ abi' = abi
         \/ w = "abi" /\ f.of = "evtchn" /\ n = abi' /\ n \in Abis
      /\ abi' \in Abis \cup {"none"} /\ n \in Counted /\ Rank[n] < Rank[f.of]
  <2>1. CASE w \in Public
    <3>1. w # "abi" /\ w \in Counted
      BY <2>1, PlainFacts
    <3> QED  BY <1>1, <1>2, <1>3, <1>4, <1>5, <2>1, <3>1, CallableIs
  <2>2. CASE w \notin Public
    <3>1. w = "abi" /\ f.of = "evtchn"
      BY <1>3, <1>5, <2>2, CallableIs
    <3>2. n \in Abis
      BY <1>2, <1>4, <3>1 DEF Abis
    <3> QED  BY <1>1, <3>1, <3>2, PlainFacts
  <2> QED  BY <2>1, <2>2
<1>7. abi' # abi => f.of = "evtchn" /\ abi' \in Abis /\ f.way = "up" /\ "abi" \notin held["evtchn"]
  <2> SUFFICES ASSUME abi' # abi PROVE f.of = "evtchn" /\ abi' \in Abis /\ f.way = "up" /\ "abi" \notin held["evtchn"]
    OBVIOUS
  <2>1. w = "abi" /\ f.of = "evtchn" /\ n = abi' /\ n \in Abis
    BY <1>6
  <2>2. CASE f.way # "up"
    BY <1>2, <1>4, <1>5, <2>1, <2>2, PlainFacts
  <2> QED  BY <1>5, <2>1, <2>2
<1>8. way = "down" => Book[n].users > 0 /\ (refs[n] = 1 => ~Outstanding(n))
  <2> SUFFICES ASSUME f.way # "up" PROVE Book[n].users > 0 /\ (refs[n] = 1 => ~Outstanding(n))
    OBVIOUS
  <2>1. w \in held[f.of] /\ abi' = abi
    BY <1>5, <1>7
  <2>2. f.of \in Users(n)
    BY <1>3, <1>6, <2>1 DEF Users
  <2>3. Sound(f.of, held[f.of] \ {w})
    BY <1>1, <1>3, GoingDown DEF w
  <2>4. lock[n] = "free"
    BY <1>1, <1>6 DEF Enter
  <2>5. w = n \/ n \in Abis
    BY <1>6
  <2> QED  BY <1>2, <1>6, <2>1, <2>2, <2>3, <2>4, <2>5, SomeUser, NothingOutstanding
<1>9. (f.way = "up" <=> way = "up") /\ way \in {"up", "down"}
  OBVIOUS
<1> HIDE DEF way
<1> QED
  BY <1>1, <1>6, <1>7, <1>8, <1>9, EnterStep DEF f, w

-----------------------------------------------------------------------------
(* Things of a function's own: TakeStep, FailStep and DropStep.            *)
LEMMA OuterFacts ==
  ASSUME NEW t \in Climber, frames[t] \in Seq(Frame), Len(frames[t]) \in Nat \ {0}
  PROVE  /\ Outer(t) \in Seq(Frame) /\ Len(Outer(t)) = Len(frames[t]) - 1
         /\ \A k \in 1 .. Len(frames[t]) - 1 : Outer(t)[k] = frames[t][k]
         /\ \A g \in Frame : /\ Append(Outer(t), g) \in Seq(Frame)
                             /\ Len(Append(Outer(t), g)) = Len(frames[t])
                             /\ Append(Outer(t), g)[Len(frames[t])] = g
                             /\ \A k \in 1 .. Len(frames[t]) - 1 : Append(Outer(t), g)[k] = frames[t][k]
<1>1. /\ Outer(t) \in Seq(Frame) /\ Len(Outer(t)) = Len(frames[t]) - 1
      /\ \A k \in 1 .. Len(frames[t]) - 1 : Outer(t)[k] = frames[t][k]
  BY DEF Outer
<1> QED  BY <1>1

LEMMA OwnStep ==
  ASSUME LadderIInv, UNCHANGED <<Top, refs, lock, abi, fifo, owned>>,
         NEW t \in Climber, frames[t] # << >>,
         NEW g \in Frame, g.of = Inner(t).of, g.way = "down" <=> Inner(t).way = "down",
         frames' = [frames EXCEPT ![t] = Append(Outer(t), g)],
         NEW H \in SUBSET Things, held' = [held EXCEPT ![g.of] = H],
         \A w \in Counted \cup {"abi"} : w \in H <=> w \in held[g.of],
         \A b2 : b2.held = H /\ b2.refs = Book[g.of].refs /\ b2.users = Book[g.of].users => Fits(g, b2),
         broken' = FALSE
  PROVE  LadderIInv'
<1> DEFINE s == frames[t]
           s2 == Append(Outer(t), g)
           bk2 == Book'
           n == g.of
<1>1. LadderTypeOK /\ Consistent(Book, frames, owned, abi)
  BY DEF LadderIInv
<1>2. /\ s \in Seq(Frame) /\ Len(s) \in Nat \ {0}
      /\ Inner(t) = s[Len(s)] /\ Inner(t) \in Frame /\ n \in Counted
      /\ StackOK(t, s, Book, abi, owned[t])
      /\ lock[n] = t
      /\ \A k \in 1 .. Len(s) - 1 : s[k].of # n
  BY InnerFacts
<1>3. /\ s2 \in Seq(Frame) /\ Len(s2) = Len(s) /\ s2[Len(s)] = g
      /\ \A k \in 1 .. Len(s) - 1 : s2[k] = s[k]
  BY <1>2, OuterFacts
<1>4. held' \in [Counted -> SUBSET Things] /\ frames' \in [Climber -> Seq(Frame)]
  BY <1>1, <1>2, <1>3 DEF LadderTypeOK
<1>5. \A x \in Counted : held'[x] = IF x = n THEN H ELSE held[x]
  BY <1>1, <1>2 DEF LadderTypeOK
<1> HIDE DEF s2
<1>6. \A x \in Counted : Users(x)' = Users(x) /\ Clients(x)' = Clients(x)
  <2> SUFFICES ASSUME NEW x \in Counted PROVE Users(x)' = Users(x) /\ Clients(x)' = Clients(x)
    OBVIOUS
  <2>1. \A m \in Counted : (x \in held'[m] <=> x \in held[m]) /\ ("abi" \in held'[m] <=> "abi" \in held[m])
    BY <1>5
  <2> QED  BY <2>1 DEF Users, Clients
<1>7. /\ \A x \in Counted \ {n} : bk2[x] = Book[x]
      /\ bk2[n].lock = t /\ bk2[n].held = H /\ bk2[n].users = Book[n].users /\ bk2[n].refs = Book[n].refs
  BY <1>2, <1>5, <1>6 DEF Book
<1> HIDE DEF bk2
<1>8. Fits(g, bk2[n])
  BY <1>7
<1>9. StackOK(t, s2, bk2, abi, owned[t])
  <2>1. \A k \in 1 .. Len(s2) - 1 : s2[k] = s[k] /\ bk2[s[k].of] = Book[s[k].of]
    <3>1. \A k \in 1 .. Len(s) - 1 : k \in 1 .. Len(s) /\ s[k].of \in Counted
      BY <1>2, StackFrames
    <3> QED  BY <1>2, <1>3, <1>7, <3>1
  <2>2. Len(s2) > 1 => Calling(s[Len(s2) - 1], s2[Len(s2)], abi)
    <3> SUFFICES ASSUME Len(s) > 1 PROVE Calling(s[Len(s) - 1], g, abi)
      BY <1>3
    <3>1. Len(s) - 1 \in 1 .. Len(s) - 1 /\ (Len(s) - 1) + 1 = Len(s)
      BY <1>2
    <3>2. Calling(s[Len(s) - 1], s[Len(s)], abi)
      BY <1>2, <3>1 DEF StackOK
    <3> QED  BY <1>2, <3>2 DEF Calling
  <2>3. Len(s2) = 1 => s2[1].of \in Public /\ (s2[1].way = "down" <=> s2[1].of \in owned[t])
    <3> SUFFICES ASSUME Len(s) = 1 PROVE g.of \in Public /\ (g.way = "down" <=> g.of \in owned[t])
      BY <1>3
    <3> QED  BY <1>2 DEF StackOK
  <2>4. Len(s2) \in 1 .. Len(s) + 1 /\ bk2[s2[Len(s2)].of].lock = t /\ Fits(s2[Len(s2)], bk2[s2[Len(s2)].of])
    BY <1>2, <1>3, <1>7, <1>8
  <2> HIDE DEF s
  <2> QED  BY <1>2, <1>3, <2>1, <2>2, <2>3, <2>4, Restack
<1>10. Consistent(bk2, frames', owned', abi')
  <2> DEFINE fr2 == frames'
             has2 == owned'
             ab2 == abi'
  <2>1. /\ fr2[t] = s2 /\ has2 = owned /\ ab2 = abi
        /\ \A u \in Climber \ {t} : fr2[u] = frames[u] /\ has2[u] = owned[u]
    BY <1>1 DEF LadderTypeOK, s2
  <2>2. ASSUME NEW x \in Counted PROVE Accounted(x, t, fr2[t], Book[x], bk2[x])
    <3>1. Book[x].lock = t => \E k \in 1 .. Len(s2) : s2[k].of = x
      <4> SUFFICES ASSUME Book[x].lock = t PROVE \E k \in 1 .. Len(s2) : s2[k].of = x
        OBVIOUS
      <4>1. PICK k \in 1 .. Len(s) : s[k].of = x
        BY <1>1, LadderAssumption DEF Consistent
      <4>2. CASE k = Len(s)
        <5>1. s2[k].of = x
          BY <1>2, <1>3, <4>1, <4>2
        <5> QED  BY <1>3, <5>1
      <4>3. CASE k # Len(s)
        <5>1. k \in 1 .. Len(s) - 1
          BY <1>2, <4>3
        <5>2. s2[k].of = x
          BY <1>3, <4>1, <5>1
        <5> QED  BY <1>3, <5>2
      <4> QED  BY <4>2, <4>3
    <3>2. Book[n].lock = t
      BY <1>1, <1>2, BookFacts
    <3>3. bk2[x] = Book[x] \/ (Book[x].lock = t /\ bk2[x].lock = t)
      BY <1>7, <3>2
    <3> QED  BY <2>1, <3>1, <3>3 DEF Accounted
  <2>3. StackOK(t, fr2[t], bk2, ab2, has2[t])
    BY <1>9, <2>1
  <2>4. fr2 \in [Climber -> Seq(Frame)] /\ frames \in [Climber -> Seq(Frame)]
    BY <1>1, <1>4 DEF LadderTypeOK
  <2> HIDE DEF fr2, has2, ab2
  <2>5. Consistent(bk2, fr2, has2, ab2)
    BY <1>1, <2>1, <2>2, <2>3, <2>4, OneSteps
  <2> QED  BY <2>5 DEF fr2, has2, ab2
<1>11. LadderTypeOK'
  BY <1>1, <1>4 DEF LadderTypeOK
<1>12. ("abi" \in held["evtchn"] => abi \in Abis)'
  <2>1. "evtchn" \in Counted
    BY PlainFacts
  <2> QED  BY <1>5, <2>1 DEF LadderIInv
<1> QED  BY <1>10, <1>11, <1>12 DEF LadderIInv, bk2

LEMMA TakeIsFine ==
  ASSUME LadderIInv, UNCHANGED Top, NEW t \in Climber, TakeStep(t)
  PROVE  LadderIInv'
<1> DEFINE f == Inner(t)
           w == What(f)
           b == Book[f.of]
           H == held[f.of] \cup {w}
<1>1. /\ frames[t] # << >> /\ ~Ended(f) /\ f.way = "up"
      /\ w \notin DOMAIN Ladders /\ w # "abi"
      /\ UNCHANGED <<refs, lock, abi, fifo, owned>>
      /\ frames' = [frames EXCEPT ![t] = Append(Outer(t), Beyond(f))]
      /\ CASE FailLabel(f) = Give -> /\ held' = [held EXCEPT ![f.of] = @ \ {w}]
                                     /\ broken' = (broken \/ w \notin held[f.of])
           [] FailLabel(f) = Maybe -> /\ \E x \in {{}, {w}} : held' = [held EXCEPT ![f.of] = @ \cup x]
                                      /\ UNCHANGED broken
           [] w \in Probes -> UNCHANGED <<held, broken>>
           [] OTHER -> /\ held' = [held EXCEPT ![f.of] = @ \cup {w}]
                       /\ broken' = (broken \/ w \in held[f.of] \ Residue
                                            \/ (w \in DOMAIN Copies /\ refs[Copies[w]] = 0))
  BY DEF TakeStep
<1>2. LadderTypeOK
  BY DEF LadderIInv
<1>3. f \in Frame /\ f.of \in Counted /\ Fits(f, b) /\ b.held = held[f.of] /\ b.users \in Nat
  BY <1>1, <1>2, InnerFacts, BookFacts
<1> HIDE DEF f, w, b
<1>4. /\ Private(w) /\ w \notin held[f.of] /\ w \in Everything(f.of) /\ FailLabel(f) \in 0 .. 10
      /\ \A b2 : b2.held = b.held \cup {w} /\ b2.refs = b.refs /\ b2.users = b.users => Fits(Beyond(f), b2)
  <2>1. /\ Private(w) \/ Callable(f.of, w)
        /\ w \notin held[f.of] /\ w \in Everything(f.of) /\ FailLabel(f) \in 0 .. 10
        /\ \A b2 : b2.held = b.held \cup {w} /\ b2.refs = b.refs /\ b2.users = b.users => Fits(Beyond(f), b2)
    BY <1>1, <1>3, GoingUp DEF w
  <2> QED  BY <1>1, <1>3, <2>1, CallableIs
<1>5. held' = [held EXCEPT ![f.of] = H] /\ broken' = FALSE
  <2>1. FailLabel(f) # Give /\ FailLabel(f) # Maybe
    BY <1>4 DEF Give, Maybe
  <2>2. w \notin Probes /\ w \notin DOMAIN Copies
    BY <1>4 DEF Private
  <2>3. /\ held' = [held EXCEPT ![f.of] = @ \cup {w}]
        /\ broken' = (broken \/ w \in held[f.of] \ Residue \/ (w \in DOMAIN Copies /\ refs[Copies[w]] = 0))
    BY <1>1, <2>1, <2>2
  <2>4. broken = FALSE
    BY <1>2 DEF LadderTypeOK
  <2>5. held' = [held EXCEPT ![f.of] = H]
    BY <2>3
  <2> QED  BY <1>4, <2>2, <2>3, <2>4, <2>5
<1>6. H \in SUBSET Things /\ \A x \in Counted \cup {"abi"} : x \in H <=> x \in held[f.of]
  <2>1. held[f.of] \subseteq Things /\ w \in Things
    BY <1>2, <1>3, <1>4, ThingsOf DEF LadderTypeOK
  <2>2. w \notin Counted /\ w # "abi"
    BY <1>4, OwnIsNoInterface
  <2> QED  BY <2>1, <2>2
<1>7. Beyond(f) \in Frame /\ Beyond(f).of = f.of /\ Beyond(f).way = f.way
  BY <1>3 DEF Beyond, Frame
<1>8. \A b2 : b2.held = H /\ b2.refs = b.refs /\ b2.users = b.users => Fits(Beyond(f), b2)
  BY <1>3, <1>4
<1>9. /\ frames[t] # << >> /\ UNCHANGED <<refs, lock, abi, fifo, owned>>
      /\ frames' = [frames EXCEPT ![t] = Append(Outer(t), Beyond(f))]
  BY <1>1
<1> HIDE DEF H
<1> QED
  BY <1>3, <1>5, <1>6, <1>7, <1>8, <1>9, OwnStep DEF f, b

LEMMA FailIsFine ==
  ASSUME LadderIInv, UNCHANGED Top, NEW t \in Climber, FailStep(t)
  PROVE  LadderIInv'
<1> DEFINE f == Inner(t)
           w == What(f)
           b == Book[f.of]
           g == GoTo(f, FailLabel(f))
<1>1. /\ frames[t] # << >> /\ ~Ended(f) /\ f.way = "up"
      /\ w \notin DOMAIN Ladders /\ w # "abi"
      /\ UNCHANGED <<refs, lock, held, abi, fifo, owned, broken>>
      /\ FailLabel(f) \in 1 .. 96 \/ (FailLabel(f) = Done /\ TouchFails)
      /\ frames' = [frames EXCEPT ![t] = Append(Outer(t),
           IF FailLabel(f) = Done THEN Activation(f.of, "up", Len(Table(f)) + 1) ELSE g)]
  BY DEF FailStep
<1>2. LadderTypeOK
  BY DEF LadderIInv
<1>3. f \in Frame /\ f.of \in Counted /\ Fits(f, b) /\ b.held = held[f.of] /\ b.users \in Nat
  BY <1>1, <1>2, InnerFacts, BookFacts
<1> HIDE DEF f, w, b
<1>4. f.at \in 1 .. Len(Ups(f.of)) /\ FailLabel(f) \in 0 .. 10 /\ w = Ups(f.of)[f.at][1]
  BY <1>1, <1>3, GoingUp, FrameFacts DEF w
<1>5. f.of # "evtchn_two_level"
  <2> SUFFICES ASSUME f.of = "evtchn_two_level" PROVE FALSE
    OBVIOUS
  <2>1. w = "shared_info"
    BY <1>4, TwoLevelCalls
  <2> QED  BY <1>1, <2>1, PlainFacts DEF Counted
<1>6. FailLabel(f) # Done /\ FailLabel(f) # 0
  <2>1. FailLabel(f) # Done
    BY <1>4 DEF Done
  <2>2. FailLabel(f) \in 1 .. 96 \/ (FailLabel(f) = Done /\ TouchFails)
    BY <1>1, Zenon
  <2>3. FailLabel(f) \in 1 .. 96
    BY <2>1, <2>2, Zenon
  <2> QED  BY <2>1, <2>3
<1>7. /\ g \in Frame /\ g.of = f.of /\ g.way = "unwind"
      /\ \A b2 : b2.held = b.held /\ b2.refs = b.refs /\ b2.users = b.users => Fits(g, b2)
  BY <1>1, <1>3, <1>5, <1>6, GoingUp
<1> HIDE DEF g
<1>8. frames' = [frames EXCEPT ![t] = Append(Outer(t), g)]
  BY <1>1, <1>6
<1>9. held' = [held EXCEPT ![f.of] = held[f.of]] /\ held[f.of] \in SUBSET Things /\ broken' = FALSE
  BY <1>1, <1>2, <1>3 DEF LadderTypeOK
<1>10. \A b2 : b2.held = held[f.of] /\ b2.refs = b.refs /\ b2.users = b.users => Fits(g, b2)
  BY <1>3, <1>7
<1>11. frames[t] # << >> /\ UNCHANGED <<refs, lock, abi, fifo, owned>> /\ f.way = "up"
  BY <1>1
<1>12. /\ g.of = Inner(t).of /\ (g.way = "down" <=> Inner(t).way = "down")
       /\ held[g.of] \in SUBSET Things /\ held' = [held EXCEPT ![g.of] = held[g.of]]
       /\ \A b2 : b2.held = held[g.of] /\ b2.refs = Book[g.of].refs /\ b2.users = Book[g.of].users => Fits(g, b2)
  BY <1>7, <1>9, <1>10, <1>11 DEF f, b
<1> QED
  BY <1>7, <1>8, <1>9, <1>11, <1>12, OwnStep

LEMMA DropIsFine ==
  ASSUME LadderIInv, UNCHANGED Top, NEW t \in Climber, DropStep(t)
  PROVE  LadderIInv'
<1> DEFINE f == Inner(t)
           w == What(f)
           b == Book[f.of]
           H == held[f.of] \ {w}
<1>1. /\ frames[t] # << >> /\ ~Ended(f) /\ f.way # "up"
      /\ w \notin DOMAIN Ladders /\ w # "abi"
      /\ UNCHANGED <<refs, lock, abi, fifo, owned>>
      /\ frames' = [frames EXCEPT ![t] = Append(Outer(t), Beyond(f))]
      /\ held' = [held EXCEPT ![f.of] = H]
      /\ broken' = (broken \/ w \notin held[f.of] \cup Optional)
  BY DEF DropStep
<1>2. LadderTypeOK
  BY DEF LadderIInv
<1>3. f \in Frame /\ f.of \in Counted /\ Fits(f, b) /\ b.held = held[f.of]
  BY <1>1, <1>2, InnerFacts, BookFacts
<1> HIDE DEF f, w, b
<1>4. /\ w \in held[f.of]
      /\ \A b2 : b2.held = b.held \ {w} /\ b2.refs = b.refs /\ b2.users = b.users => Fits(Beyond(f), b2)
  BY <1>1, <1>3, GoingDown DEF w
<1>5. broken' = FALSE
  <2>1. broken = FALSE /\ w \in held[f.of] \cup Optional
    BY <1>2, <1>4 DEF LadderTypeOK
  <2> QED  BY <1>1, <2>1
<1>6. H \in SUBSET Things /\ \A x \in Counted \cup {"abi"} : x \in H <=> x \in held[f.of]
  <2>1. held[f.of] \subseteq Things
    BY <1>2, <1>3 DEF LadderTypeOK
  <2>2. w \notin Counted /\ w # "abi"
    BY <1>1, PlainFacts
  <2> QED  BY <2>1, <2>2
<1>7. Beyond(f) \in Frame /\ Beyond(f).of = f.of /\ Beyond(f).way = f.way
  BY <1>3 DEF Beyond, Frame
<1>8. \A b2 : b2.held = H /\ b2.refs = b.refs /\ b2.users = b.users => Fits(Beyond(f), b2)
  BY <1>3, <1>4
<1> HIDE DEF H
<1> QED
  BY <1>1, <1>3, <1>5, <1>6, <1>7, <1>8, OwnStep DEF f, b

-----------------------------------------------------------------------------
(* Leaving a function: Return.                                             *)
Caller(t) == frames[t][Len(frames[t]) - 1]

LEMMA TableLength ==
  ASSUME NEW f \in Frame, NEW b, Fits(f, b)
  PROVE  Len(Table(f)) \in Nat /\ f.at \in Nat
<1>1. f.of \in Counted /\ f.at \in Nat /\ f.way \in {"up", "unwind", "down"}
  BY DEF Frame
<1>2. Len(Ups(f.of)) \in Nat /\ Len(Downs(f.of)) \in Nat
  BY <1>1, TablesInOrder DEF UpTable, DownTable
<1>3. CASE f.way = "unwind"
  <2>1. f.of # "evtchn_two_level" /\ Len(Ups(f.of)) > 0
    BY <1>2, <1>3, FitsWhich DEF FitsUnwind
  <2>2. Len(Unwinds(f.of)) \in Nat
    BY <1>1, <1>2, <2>1, TablesInOrder DEF UnwindTable
  <2> QED  BY <1>1, <1>3, <2>2, FrameFacts
<1> QED  BY <1>1, <1>2, <1>3, FrameFacts

LEMMA WhoCalled ==
  ASSUME LadderIInv, NEW t \in Climber, frames[t] # << >>
  PROVE  /\ Len(frames[t]) = 1 => /\ Inner(t).of \in Public
                                  /\ Inner(t).way = "down" <=> Inner(t).of \in owned[t]
         /\ Len(frames[t]) > 1 =>
              /\ Caller(t) \in Frame /\ Caller(t).of \in Counted /\ Caller(t).of # Inner(t).of
              /\ lock[Caller(t).of] = t /\ Fits(Caller(t), Book[Caller(t).of]) /\ ~Ended(Caller(t))
              /\ Calling(Caller(t), Inner(t), abi)
              /\ \A k \in 1 .. Len(frames[t]) - 2 : frames[t][k].of # Caller(t).of
<1> DEFINE s == frames[t]
           m == Len(s) - 1
<1>1. /\ s \in Seq(Frame) /\ Len(s) \in Nat \ {0}
      /\ Inner(t) = s[Len(s)] /\ StackOK(t, s, Book, abi, owned[t])
      /\ \A k \in 1 .. Len(s) - 1 : s[k].of # Inner(t).of
      /\ \A k \in 1 .. Len(s) : lock[s[k].of] = t
  BY InnerFacts
<1>2. Len(s) = 1 => /\ Inner(t).of \in Public
                    /\ Inner(t).way = "down" <=> Inner(t).of \in owned[t]
  BY <1>1 DEF StackOK
<1>3. ASSUME Len(s) > 1
      PROVE  /\ s[m] \in Frame /\ s[m].of \in Counted /\ s[m].of # Inner(t).of
             /\ lock[s[m].of] = t /\ Fits(s[m], Book[s[m].of]) /\ ~Ended(s[m])
             /\ Calling(s[m], Inner(t), abi)
             /\ \A k \in 1 .. Len(s) - 2 : s[k].of # s[m].of
  <2>1. m \in 1 .. Len(s) - 1 /\ m \in 1 .. Len(s) /\ m + 1 = Len(s)
    BY <1>1, <1>3
  <2>2. s[m] \in Frame /\ s[m].of \in Counted /\ Rank[s[m].of] \in Nat
    BY <1>1, <2>1, StackFrames
  <2>3. Fits(s[m], Book[s[m].of]) /\ Calling(s[m], Inner(t), abi)
    BY <1>1, <2>1 DEF StackOK
  <2>4. ~Ended(s[m])
    <3>1. Len(Table(s[m])) \in Nat /\ s[m].at \in Nat
      BY <2>2, <2>3, TableLength
    <3>2. s[m].at <= Len(Table(s[m]))
      BY <2>3 DEF Calling
    <3> QED  BY <3>1, <3>2 DEF Ended
  <2>5. ASSUME NEW k \in 1 .. Len(s) - 2 PROVE s[k].of # s[m].of
    <3>1. k \in 1 .. Len(s) /\ k < m
      BY <1>1, <1>3
    <3>2. Rank[s[m].of] < Rank[s[k].of]
      BY <1>1, <2>1, <3>1 DEF StackOK
    <3> QED  BY <2>2, <3>2
  <2> QED  BY <1>1, <2>1, <2>2, <2>3, <2>4, <2>5
<1> QED  BY <1>2, <1>3 DEF Caller

\* The frames s2 of t after the innermost has returned, and the books then.
BackAt(t, s2) ==
  /\ s2 \in Seq(Frame) /\ Len(s2) = Len(frames[t]) - 1
  /\ \A k \in 1 .. Len(s2) - 1 : s2[k] = frames[t][k]
  /\ Len(s2) > 0 => /\ s2[Len(s2)].of = Caller(t).of
                    /\ s2[Len(s2)].way = "down" <=> Caller(t).way = "down"
LeftIn(t, s2, bk2) ==
  /\ bk2[Inner(t).of].lock = "free" /\ Rests(Inner(t).of, bk2[Inner(t).of])
  /\ \A x \in Counted : x # Inner(t).of /\ (Len(s2) > 0 => x # Caller(t).of) => bk2[x] = Book[x]
  /\ Len(s2) > 0 => bk2[Caller(t).of].lock = t /\ Fits(s2[Len(s2)], bk2[Caller(t).of])
GoesBack(t, s2) ==
  /\ BackAt(t, s2) /\ frames' = [frames EXCEPT ![t] = s2]
  /\ Len(s2) > 0 => owned' = owned
  /\ \A u \in Climber \ {t} : owned'[u] = owned[u]
  /\ abi' # abi => Len(s2) > 0 /\ Caller(t).of = "evtchn"

LEMMA Unstack ==
  ASSUME NEW t, NEW s \in Seq(Frame), NEW s2 \in Seq(Frame), Len(s) = Len(s2) + 1,
         NEW bk, NEW bk2, NEW ab, NEW ab2, NEW has, NEW has2,
         StackOK(t, s, bk, ab, has),
         \A k \in 1 .. Len(s2) - 1 : s2[k] = s[k] /\ bk2[s[k].of] = bk[s[k].of],
         Len(s2) > 0 => /\ s2[Len(s2)].of = s[Len(s2)].of
                        /\ s2[Len(s2)].way = "down" <=> s[Len(s2)].way = "down"
                        /\ bk2[s2[Len(s2)].of].lock = t /\ Fits(s2[Len(s2)], bk2[s2[Len(s2)].of])
                        /\ has2 = has,
         ab2 # ab => s[Len(s2)].of = "evtchn" /\ \A k \in 1 .. Len(s2) - 1 : s[k].of # "evtchn"
  PROVE  StackOK(t, s2, bk2, ab2, has2)
<1> DEFINE g == s2[Len(s2)]
           c == s[Len(s2)]
<1>1. Len(s2) \in Nat /\ "evtchn" \in Public /\ "evtchn" \notin Abis
  BY PlainFacts
<1>2. CASE Len(s2) = 0
  <2>1. 1 .. Len(s2) = {} /\ 1 .. Len(s2) - 1 = {}
    BY <1>2
  <2> QED  BY <1>2, <2>1 DEF StackOK
<1>3. CASE Len(s2) > 0
  <2>1. Len(s2) > 1 => Calling(s[Len(s2) - 1], g, ab2) /\ has2 = has
    <3> SUFFICES ASSUME Len(s2) > 1 PROVE Calling(s[Len(s2) - 1], g, ab2)
      BY <1>3
    <3>1. Len(s2) - 1 \in 1 .. Len(s) - 1 /\ (Len(s2) - 1) + 1 = Len(s2)
      BY <1>1
    <3>2. Calling(s[Len(s2) - 1], c, ab)
      BY <3>1 DEF StackOK
    <3>3. c.of = "evtchn" \/ ab2 = ab
      OBVIOUS
    <3> QED  BY <1>1, <1>3, <3>2, <3>3 DEF Calling
  <2>2. Len(s2) = 1 => s2[1].of \in Public /\ (s2[1].way = "down" <=> s2[1].of \in has2)
    <3> SUFFICES ASSUME Len(s2) = 1 PROVE g.of \in Public /\ (g.way = "down" <=> g.of \in has2)
      OBVIOUS
    <3>1. c = s[1] /\ Len(s) > 0
      OBVIOUS
    <3> QED  BY <1>3, <3>1 DEF StackOK
  <2>3. ab2 # ab => \A k \in 1 .. Len(s2) - 2 : s[k].of # "evtchn"
    <3>1. \A k \in 1 .. Len(s2) - 2 : k \in 1 .. Len(s2) - 1
      BY <1>1
    <3> QED  BY <3>1
  <2>4. Len(s2) \in 1 .. Len(s) + 1 /\ bk2[g.of].lock = t /\ Fits(g, bk2[g.of])
    BY <1>1, <1>3
  <2> QED  BY <2>1, <2>2, <2>3, <2>4, Restack
<1> QED  BY <1>1, <1>2, <1>3

LEMMA LeaveStep ==
  ASSUME LadderIInv, NEW t \in Climber, frames[t] # << >>,
         NEW s2, GoesBack(t, s2), LeftIn(t, s2, Book'),
         LadderTypeOK',
         ("abi" \in held["evtchn"] => abi \in Abis)'
  PROVE  LadderIInv'
<1> DEFINE s == frames[t]
           n == Inner(t).of
           c == Caller(t)
           g == s2[Len(s2)]
           bk2 == Book'
           ab2 == abi'
           fr2 == frames'
           has2 == owned'
<1>1. /\ s \in Seq(Frame) /\ Len(s) \in Nat \ {0} /\ n \in Counted
      /\ Inner(t) = s[Len(s)] /\ StackOK(t, s, Book, abi, owned[t])
      /\ lock[n] = t
      /\ \A k \in 1 .. Len(s) - 1 : s[k].of # n
  BY InnerFacts
<1>2. LadderTypeOK /\ Consistent(Book, frames, owned, abi)
  BY DEF LadderIInv
<1>3. /\ s2 \in Seq(Frame) /\ Len(s2) \in Nat /\ Len(s) = Len(s2) + 1
      /\ \A k \in 1 .. Len(s2) - 1 : s2[k] = s[k]
  BY <1>1 DEF GoesBack, BackAt
<1>4. /\ frames \in [Climber -> Seq(Frame)] /\ fr2 \in [Climber -> Seq(Frame)]
      /\ fr2[t] = s2 /\ \A u \in Climber \ {t} : fr2[u] = frames[u]
  BY <1>2, <1>3 DEF LadderTypeOK, GoesBack
<1>5. Len(s2) > 0 => /\ c = s[Len(s2)] /\ c.of \in Counted /\ c.of # n /\ lock[c.of] = t
                     /\ \A k \in 1 .. Len(s2) - 1 : s[k].of # c.of
                     /\ g.of = c.of /\ (g.way = "down" <=> c.way = "down")
                     /\ bk2[c.of].lock = t /\ Fits(g, bk2[c.of]) /\ has2 = owned
  <2> SUFFICES ASSUME Len(s2) > 0
               PROVE  /\ c = s[Len(s2)] /\ c.of \in Counted /\ c.of # n /\ lock[c.of] = t
                      /\ \A k \in 1 .. Len(s2) - 1 : s[k].of # c.of
                      /\ g.of = c.of /\ (g.way = "down" <=> c.way = "down")
                      /\ bk2[c.of].lock = t /\ Fits(g, bk2[c.of]) /\ has2 = owned
    OBVIOUS
  <2>1. Len(s) > 1 /\ Len(s) - 1 = Len(s2) /\ Len(s) - 2 = Len(s2) - 1
    BY <1>3
  <2>2. /\ c.of \in Counted /\ c.of # n /\ lock[c.of] = t
        /\ \A k \in 1 .. Len(s2) - 1 : s[k].of # c.of
    BY <2>1, WhoCalled
  <2>3. c = s[Len(s2)]
    BY <2>1 DEF Caller
  <2>4. g.of = c.of /\ (g.way = "down" <=> c.way = "down")
    BY DEF GoesBack, BackAt
  <2>5. bk2[c.of].lock = t /\ Fits(g, bk2[c.of])
    BY DEF LeftIn
  <2>6. has2 = owned
    BY DEF GoesBack
  <2> QED  BY <2>2, <2>3, <2>4, <2>5, <2>6
<1>6. /\ bk2[n].lock = "free" /\ Rests(n, bk2[n])
      /\ \A x \in Counted : x # n /\ (Len(s2) > 0 => x # c.of) => bk2[x] = Book[x]
  BY DEF LeftIn
<1>7. ab2 # abi => Len(s2) > 0 /\ c.of = "evtchn"
  BY DEF GoesBack
<1>8. \A u \in Climber \ {t} : fr2[u] = frames[u] /\ has2[u] = owned[u]
  BY <1>4 DEF GoesBack
<1> HIDE DEF s, n, c, g, bk2, ab2, fr2, has2
<1>9. StackOK(t, s2, bk2, ab2, has2[t])
  <2>1. \A k \in 1 .. Len(s2) - 1 : s2[k] = s[k] /\ bk2[s[k].of] = Book[s[k].of]
    <3> SUFFICES ASSUME NEW k \in 1 .. Len(s2) - 1 PROVE s2[k] = s[k] /\ bk2[s[k].of] = Book[s[k].of]
      OBVIOUS
    <3>1. k \in 1 .. Len(s) - 1 /\ k \in 1 .. Len(s) /\ Len(s2) > 0
      BY <1>3
    <3>2. s[k].of \in Counted
      BY <1>1, <3>1, StackFrames
    <3>3. s[k].of # n /\ s[k].of # c.of
      BY <1>1, <1>5, <3>1
    <3> QED  BY <1>3, <1>6, <3>2, <3>3
  <2>2. Len(s2) > 0 => /\ g.of = s[Len(s2)].of
                       /\ g.way = "down" <=> s[Len(s2)].way = "down"
                       /\ bk2[g.of].lock = t /\ Fits(g, bk2[g.of])
                       /\ has2[t] = owned[t]
    BY <1>5
  <2>3. ab2 # abi => s[Len(s2)].of = "evtchn" /\ \A k \in 1 .. Len(s2) - 1 : s[k].of # "evtchn"
    BY <1>5, <1>7
  <2> QED  BY <1>1, <1>3, <2>1, <2>2, <2>3, Unstack DEF g
<1>10. ASSUME NEW x \in Counted PROVE Accounted(x, t, fr2[t], Book[x], bk2[x])
  <2>0. Book[x].lock = lock[x]
    BY <1>2, BookFacts
  <2>1. CASE x = n
    BY <1>1, <1>6, <2>0, <2>1 DEF Accounted
  <2>2. CASE x # n /\ Len(s2) > 0 /\ x = c.of
    <3>1. Len(s2) \in 1 .. Len(s2) /\ s2[Len(s2)].of = x /\ bk2[x].lock = t /\ lock[x] = t
      BY <1>3, <1>5, <2>2 DEF g
    <3> QED  BY <1>4, <2>0, <3>1 DEF Accounted
  <2>3. CASE x # n /\ (Len(s2) > 0 => x # c.of)
    <3>1. bk2[x] = Book[x]
      BY <1>6, <2>3
    <3>2. Book[x].lock = t => \E k \in 1 .. Len(s2) : s2[k].of = x
      <4> SUFFICES ASSUME Book[x].lock = t PROVE \E k \in 1 .. Len(s2) : s2[k].of = x
        OBVIOUS
      <4>1. PICK k \in 1 .. Len(s) : s[k].of = x
        BY <1>2, LadderAssumption DEF Consistent, s
      <4>2. k # Len(s)
        BY <1>1, <2>3, <4>1 DEF n
      <4>3. k \in 1 .. Len(s2) /\ Len(s2) > 0
        BY <1>3, <4>2
      <4>4. k # Len(s2)
        BY <1>5, <2>3, <4>1, <4>3
      <4>5. k \in 1 .. Len(s2) - 1
        BY <1>3, <4>3, <4>4
      <4> QED  BY <1>3, <4>1, <4>3, <4>5
    <3> QED  BY <1>4, <3>1, <3>2 DEF Accounted
  <2> QED  BY <2>1, <2>2, <2>3
<1>11. ab2 # abi => Book["evtchn"].lock = t
  <2> SUFFICES ASSUME ab2 # abi PROVE Book["evtchn"].lock = t
    OBVIOUS
  <2>1. lock["evtchn"] = t /\ "evtchn" \in Counted
    BY <1>5, <1>7
  <2> QED  BY <1>2, <2>1, BookFacts
<1>12. Consistent(bk2, fr2, has2, ab2)
  <2>1. StackOK(t, fr2[t], bk2, ab2, has2[t])
    BY <1>4, <1>9
  <2>2. \A x \in Counted : Accounted(x, t, fr2[t], Book[x], bk2[x])
    BY <1>10
  <2>3. frames \in [Climber -> Seq(Frame)] /\ fr2 \in [Climber -> Seq(Frame)]
    BY <1>4
  <2>4. Consistent(Book, frames, owned, abi)
    BY <1>2
  <2> QED  BY <1>8, <1>11, <2>1, <2>2, <2>3, <2>4, OneSteps
<1> QED  BY <1>12 DEF LadderIInv, bk2, fr2, has2, ab2

LEMMA WhatWasCalled ==
  ASSUME LadderIInv, NEW t \in Climber, frames[t] # << >>
  PROVE  /\ Inner(t).of \in Abis => /\ Len(frames[t]) > 1 /\ Caller(t).of = "evtchn"
                                    /\ What(Caller(t)) = "abi" /\ abi = Inner(t).of
         /\ Inner(t).of \notin Abis => /\ Inner(t).of \in Public /\ Inner(t).of # abi
                                       /\ Len(frames[t]) > 1 => What(Caller(t)) = Inner(t).of
<1> DEFINE n == Inner(t).of
           c == Caller(t)
           m == Len(frames[t])
<1>1. m \in Nat \ {0} /\ n \in Counted
  BY InnerFacts
<1>2. Public \cap Abis = {} /\ Counted = Public \cup Abis /\ abi \in Abis \cup {"none"} /\ "none" \notin Counted
  <2>1. "none" \notin Counted
    BY DEF Counted
  <2> QED  BY <2>1, PlainFacts DEF LadderIInv, LadderTypeOK, Public
<1>3. m = 1 => n \in Public
  BY WhoCalled
<1>4. m > 1 => Calling(c, Inner(t), abi)
  BY WhoCalled
<1> HIDE DEF c, m
<1>5. m > 1 => \/ What(c) = n /\ n \in Public
               \/ What(c) = "abi" /\ c.of = "evtchn" /\ n = abi /\ abi \in Abis
  BY <1>4 DEF Calling
<1>6. m = 1 \/ m > 1
  BY <1>1
<1> HIDE DEF n
<1>7. n \in Abis => m > 1 /\ c.of = "evtchn" /\ What(c) = "abi" /\ abi = n
  BY <1>2, <1>3, <1>5, <1>6
<1>8. n \notin Abis => n \in Public /\ n # abi /\ (m > 1 => What(c) = n)
  BY <1>1, <1>2, <1>5
<1> QED  BY <1>7, <1>8 DEF n, c, m

\* What every return does to the interface that it leaves.
LEMMA Leaving ==
  ASSUME LadderIInv, NEW t \in Climber, Return(t)
  PROVE  LET f == Inner(t) n == f.of
         IN  /\ fifo' = fifo /\ broken' = FALSE
             /\ lock' \in [Counted -> Climber \cup {"free"}] /\ refs' \in [Counted -> Nat]
             /\ \A x \in Counted : lock'[x] = IF x = n THEN "free" ELSE lock[x]
             /\ \A x \in Counted : refs'[x] = IF x = n /\ f.way = "unwind" THEN refs[x] - 1 ELSE refs[x]
             /\ f.way = "unwind" => n # "evtchn_two_level" /\ Book[n].users = 0
             /\ abi' = IF n = "evtchn_fifo" /\ f.way = "unwind" THEN "evtchn_two_level"
                       ELSE IF n \in Abis /\ f.way = "down" THEN "none" ELSE abi
<1> DEFINE f == Inner(t)
           n == f.of
<1>1. LadderTypeOK
  BY DEF LadderIInv
<1>2. /\ frames[t] # << >> /\ Ended(f)
      /\ fifo' = fifo /\ broken' = broken
      /\ lock' = IF n \in Counted THEN [lock EXCEPT ![n] = "free"] ELSE lock
      /\ refs' = IF f.way = "unwind" THEN [refs EXCEPT ![n] = @ - 1] ELSE refs
      /\ abi' = CASE f.way = "unwind" /\ n = "evtchn_fifo" -> "evtchn_two_level"
                  [] n = abi /\ ~(f.way = "unwind" /\ n = "evtchn_fifo") /\ (f.way = "unwind" \/ f.way = "down") -> "none"
                  [] OTHER -> abi
  BY DEF Return
<1>3. f \in Frame /\ n \in Counted /\ Fits(f, Book[n])
  BY <1>2, InnerFacts
<1>4. Book[n].refs = refs[n] /\ Book[n].refs \in Nat /\ Book[n].users \in Nat
  BY <1>1, <1>3, BookFacts
<1>5. f.way = "unwind" => n # "evtchn_two_level" /\ Book[n].users = 0 /\ refs[n] = 1
  <2> DEFINE b == Book[n]
  <2>1. b.refs \in Nat /\ b.users \in Nat /\ Fits(f, b) /\ Ended(f) /\ b.refs = refs[n]
    BY <1>2, <1>3, <1>4
  <2> HIDE DEF b, f
  <2>2. f.way = "unwind" => f.of # "evtchn_two_level" /\ b.users = 0 /\ b.refs = 1
    BY <1>3, <2>1, Arriving
  <2> QED  BY <2>1, <2>2 DEF b
<1>6. (n \in Abis => abi = n) /\ (n \notin Abis => n # abi)
  BY <1>2, WhatWasCalled
<1> HIDE DEF f, n
<1>7. /\ lock' \in [Counted -> Climber \cup {"free"}]
      /\ \A x \in Counted : lock'[x] = IF x = n THEN "free" ELSE lock[x]
  BY <1>1, <1>2, <1>3 DEF LadderTypeOK
<1>8. /\ refs' \in [Counted -> Nat]
      /\ \A x \in Counted : refs'[x] = IF x = n /\ f.way = "unwind" THEN refs[x] - 1 ELSE refs[x]
  <2>1. CASE f.way = "unwind"
    BY <1>1, <1>2, <1>3, <1>5, <2>1 DEF LadderTypeOK
  <2>2. CASE f.way # "unwind"
    BY <1>1, <1>2, <2>2 DEF LadderTypeOK
  <2> QED  BY <2>1, <2>2
<1>9. abi' = IF n = "evtchn_fifo" /\ f.way = "unwind" THEN "evtchn_two_level"
             ELSE IF n \in Abis /\ f.way = "down" THEN "none" ELSE abi
  <2>1. CASE f.way = "unwind" /\ n = "evtchn_fifo"
    BY <1>2, <2>1
  <2>2. CASE f.way = "unwind" /\ n # "evtchn_fifo"
    <3>1. n # abi
      BY <1>5, <1>6, <2>2 DEF Abis
    <3> QED  BY <1>2, <2>2, <3>1
  <2>3. CASE f.way # "unwind"
    BY <1>2, <1>6, <2>3
  <2> QED  BY <2>1, <2>2, <2>3
<1> QED
  BY <1>1, <1>2, <1>5, <1>7, <1>8, <1>9 DEF LadderTypeOK, n, f

LEMMA LeftBooks ==
  ASSUME LadderIInv, NEW t \in Climber, Return(t), NEW s2, BackAt(t, s2),
         \A x \in Counted : x # Inner(t).of => Users(x)' = Users(x) /\ Clients(x)' = Clients(x),
         Inner(t).way = "up" => Book'[Inner(t).of].users = Book[Inner(t).of].users + 1,
         Inner(t).way = "down" => Book'[Inner(t).of].users = Book[Inner(t).of].users - 1,
         Inner(t).way = "unwind" => Book'[Inner(t).of].users = Book[Inner(t).of].users,
         \A x \in Counted : (Len(s2) > 0 => x # Caller(t).of) => held'[x] = held[x],
         Len(s2) > 0 => LET b == Book[Caller(t).of] IN
           \A b2 : b2.held = held'[Caller(t).of] /\ b2.refs = b.refs /\ b2.users = b.users =>
             Fits(s2[Len(s2)], b2)
  PROVE  LeftIn(t, s2, Book')
<1> DEFINE f == Inner(t)
           n == f.of
           m == Caller(t).of
           bk2 == Book'
<1>1. LadderTypeOK /\ frames[t] # << >> /\ Ended(f)
  BY DEF LadderIInv, Return
<1>2. f \in Frame /\ n \in Counted /\ Fits(f, Book[n])
  BY <1>1, InnerFacts
<1>3. Len(s2) > 0 => m \in Counted /\ m # n /\ lock[m] = t
  <2>1. Len(s2) > 0 => Len(frames[t]) > 1
    BY <1>1, InnerFacts DEF BackAt
  <2> QED  BY <1>1, <2>1, WhoCalled
<1>4. \A x \in Counted : /\ bk2[x].lock = lock'[x] /\ bk2[x].refs = refs'[x] /\ bk2[x].held = held'[x]
                         /\ x # n => bk2[x].users = Book[x].users
  BY DEF Book
<1>5. \A x \in Counted : Book[x].lock = lock[x] /\ Book[x].refs = refs[x] /\ Book[x].held = held[x]
  BY DEF Book
<1>6. /\ \A x \in Counted : lock'[x] = IF x = n THEN "free" ELSE lock[x]
      /\ \A x \in Counted : refs'[x] = IF x = n /\ f.way = "unwind" THEN refs[x] - 1 ELSE refs[x]
  BY Leaving
<1>7. bk2[n].lock = "free" /\ Rests(n, bk2[n])
  <2> DEFINE b == Book[n]
             b2 == bk2[n]
  <2>1. b2.lock = "free" /\ b2.held = b.held /\ b2.refs = IF f.way = "unwind" THEN b.refs - 1 ELSE b.refs
    BY <1>2, <1>3, <1>4, <1>5, <1>6
  <2>2. /\ f.way = "up" => b2.users = b.users + 1
        /\ f.way = "down" => b2.users = b.users - 1
        /\ f.way = "unwind" => b2.users = b.users
    OBVIOUS
  <2>3. b.refs \in Nat /\ b.users \in Nat /\ Fits(f, b) /\ Ended(f) /\ f.way \in {"up", "unwind", "down"}
    BY <1>1, <1>2, BookFacts DEF Frame
  <2> HIDE DEF b, b2, f
  <2>4. Rests(f.of, b2)
    BY <1>2, <2>1, <2>2, <2>3, Arriving
  <2> QED  BY <2>1, <2>4 DEF b2
<1>8. \A x \in Counted : x # n /\ (Len(s2) > 0 => x # m) => bk2[x] = Book[x]
  <2> SUFFICES ASSUME NEW x \in Counted, x # n, Len(s2) > 0 => x # m PROVE bk2[x] = Book[x]
    OBVIOUS
  <2>1. lock'[x] = lock[x] /\ refs'[x] = refs[x] /\ held'[x] = held[x]
    BY <1>6
  <2>2. Users(x)' = Users(x) /\ Clients(x)' = Clients(x)
    OBVIOUS
  <2> QED  BY <2>1, <2>2 DEF Book
<1>9. Len(s2) > 0 => bk2[m].lock = t /\ Fits(s2[Len(s2)], bk2[m])
  <2> SUFFICES ASSUME Len(s2) > 0 PROVE bk2[m].lock = t /\ Fits(s2[Len(s2)], bk2[m])
    OBVIOUS
  <2>1. /\ bk2[m].lock = t /\ bk2[m].held = held'[m]
        /\ bk2[m].refs = Book[m].refs /\ bk2[m].users = Book[m].users
    BY <1>3, <1>4, <1>5, <1>6
  <2>2. \A b2 : b2.held = held'[m] /\ b2.refs = Book[m].refs /\ b2.users = Book[m].users => Fits(s2[Len(s2)], b2)
    OBVIOUS
  <2> QED  BY <2>1, <2>2
<1> QED  BY <1>7, <1>8, <1>9 DEF LeftIn

\* The function of a client returns.
LEMMA ReturnToClient ==
  ASSUME LadderIInv, UNCHANGED Top, NEW t \in Climber, Return(t), Len(frames[t]) = 1
  PROVE  LadderIInv'
<1> DEFINE f == Inner(t)
           s2 == << >>
<1>0. PICK n \in Counted : n = f.of
  <2>1. frames[t] # << >>
    BY DEF Return
  <2> QED  BY <2>1, InnerFacts
<1>1. LadderTypeOK /\ frames[t] # << >> /\ frames[t] \in Seq(Frame) /\ t \in Climber
  BY DEF LadderIInv, LadderTypeOK, Return
<1>2. f \in Frame /\ n \in Counted /\ n \in Public /\ n \notin Abis /\ (f.way = "down" <=> n \in owned[t])
  BY <1>0, <1>1, InnerFacts, WhoCalled, WhatWasCalled
<1>3. Outer(t) = << >>
  <2>1. Outer(t) \in Seq(Frame) /\ Len(Outer(t)) = 0
    BY <1>1, OuterFacts
  <2> QED  BY <2>1
<1>4. /\ frames' = [frames EXCEPT ![t] = s2] /\ held' = held
      /\ owned' = [owned EXCEPT ![t] = IF f.way = "up" THEN @ \cup {n} ELSE @ \ {n}]
  BY <1>0, <1>3 DEF Return
<1>5. abi' = abi
  <2>1. n # "evtchn_fifo"
    BY <1>2 DEF Abis
  <2> QED  BY <1>0, <1>2, <2>1, Leaving
<1>6. owned' \in [Climber -> SUBSET Public]
  BY <1>1, <1>2, <1>4 DEF LadderTypeOK
<1>7. \A u \in Climber : owned'[u] = IF u # t THEN owned[u] ELSE IF f.way = "up" THEN owned[t] \cup {n} ELSE owned[t] \ {n}
  BY <1>1, <1>4 DEF LadderTypeOK
<1>8. \A x \in Counted : /\ Users(x)' = Users(x)
                         /\ x # n => Clients(x)' = Clients(x)
  <2>1. \A x \in Counted : Users(x)' = Users(x)
    BY <1>4, <1>5 DEF Users
  <2> HIDE DEF f
  <2>2. \A x \in Counted : x # n => Clients(x)' = Clients(x)
    BY <1>7 DEF Clients
  <2> QED  BY <2>1, <2>2
<1>9. Book'[n].users = Cardinality(Clients(n)') + Cardinality(Users(n))
  BY <1>2, <1>8 DEF Book
<1>10. /\ Book[n].users = Cardinality(Clients(n)) + Cardinality(Users(n))
       /\ Cardinality(Clients(n)) \in Nat /\ Cardinality(Users(n)) \in Nat
  BY <1>1, <1>2, BookFacts
<1>11. IsFiniteSet(Climber) /\ Clients(n) \in SUBSET Climber
  BY LadderAssumption DEF Clients
<1>12. f.way = "up" => Book'[n].users = Book[n].users + 1
  <2> SUFFICES ASSUME f.way = "up" PROVE Book'[n].users = Book[n].users + 1
    OBVIOUS
  <2>1. n \notin owned[t]
    BY <1>2
  <2>2. Clients(n)' = Clients(n) \cup {t} /\ t \notin Clients(n)
    BY <1>7, <2>1 DEF Clients
  <2>3. Cardinality(Clients(n)') = Cardinality(Clients(n)) + 1
    BY <1>11, <2>2, FewOf
  <2> QED  BY <1>9, <1>10, <2>3
<1>13. f.way = "down" => Book'[n].users = Book[n].users - 1
  <2> SUFFICES ASSUME f.way = "down" PROVE Book'[n].users = Book[n].users - 1
    OBVIOUS
  <2>1. n \in owned[t]
    BY <1>2
  <2>2. Clients(n)' = Clients(n) \ {t} /\ t \in Clients(n)
    BY <1>7, <2>1 DEF Clients
  <2>3. Cardinality(Clients(n)') = Cardinality(Clients(n)) - 1
    BY <1>11, <2>2, FewOf
  <2> QED  BY <1>9, <1>10, <2>3
<1>14. f.way = "unwind" => Book'[n].users = Book[n].users
  <2> SUFFICES ASSUME f.way = "unwind" PROVE Book'[n].users = Book[n].users
    OBVIOUS
  <2>1. n \notin owned[t]
    BY <1>2
  <2>2. Clients(n)' = Clients(n)
    BY <1>7, <2>1 DEF Clients
  <2> QED  BY <1>9, <1>10, <2>2
<1>15. BackAt(t, s2)
  BY DEF BackAt
<1>16. LeftIn(t, s2, Book')
  <2>1. Len(s2) = 0 /\ \A x \in Counted : held'[x] = held[x]
    BY <1>4
  <2>2. \A x \in Counted : x # n => Users(x)' = Users(x) /\ Clients(x)' = Clients(x)
    BY <1>8
  <2> HIDE DEF s2
  <2> QED  BY <1>0, <1>12, <1>13, <1>14, <1>15, <2>1, <2>2, LeftBooks
<1>17. GoesBack(t, s2)
  <2>1. Len(s2) = 0 /\ \A u \in Climber \ {t} : owned'[u] = owned[u]
    BY <1>7
  <2> HIDE DEF s2
  <2> QED  BY <1>4, <1>5, <1>15, <2>1 DEF GoesBack
<1>18. LadderTypeOK'
  <2>1. frames' \in [Climber -> Seq(Frame)]
    BY <1>1, <1>4 DEF LadderTypeOK
  <2>2. fifo' = fifo /\ broken' = FALSE /\ lock' \in [Counted -> Climber \cup {"free"}] /\ refs' \in [Counted -> Nat]
    BY Leaving
  <2> QED  BY <1>1, <1>4, <1>5, <1>6, <2>1, <2>2 DEF LadderTypeOK
<1>19. ("abi" \in held["evtchn"] => abi \in Abis)'
  BY <1>4, <1>5 DEF LadderIInv
<1> QED  BY <1>1, <1>16, <1>17, <1>18, <1>19, LeaveStep

\* A function returns to the one that called it: how the users of its
\* interface change, and what its caller has then.
UsersOf(t, n) ==
  /\ n = Inner(t).of
  /\ \A x \in Counted : x # n => Users(x)' = Users(x)
  /\ Inner(t).way = "up" => \E k \in Counted : k \notin Users(n) /\ Users(n)' = Users(n) \cup {k}
  /\ Inner(t).way = "down" => \E k \in Users(n) : Users(n)' = Users(n) \ {k}
  /\ Inner(t).way = "unwind" => Users(n)' = Users(n)
GoesOnWith(t, s2, H) ==
  /\ BackAt(t, s2) /\ frames' = [frames EXCEPT ![t] = s2] /\ owned' = owned
  /\ H \in SUBSET Things /\ held' = [held EXCEPT ![Caller(t).of] = H]
  /\ LET b == Book[Caller(t).of]
     IN  \A b2 : b2.held = H /\ b2.refs = b.refs /\ b2.users = b.users => Fits(s2[Len(s2)], b2)
  /\ abi' # abi => Caller(t).of = "evtchn"

LEMMA ReturnToCaller ==
  ASSUME LadderIInv, UNCHANGED Top, NEW t \in Climber, Return(t), Len(frames[t]) > 1,
         NEW n, UsersOf(t, n), NEW s2, NEW H, GoesOnWith(t, s2, H),
         ("abi" \in held["evtchn"] => abi \in Abis)'
  PROVE  LadderIInv'
<1> DEFINE f == Inner(t)
           c == Caller(t)
<1>1. LadderTypeOK /\ frames[t] # << >>
  BY DEF LadderIInv, Return
<1>0. n = f.of /\ BackAt(t, s2) /\ frames' = [frames EXCEPT ![t] = s2] /\ owned' = owned
      /\ H \in SUBSET Things /\ held' = [held EXCEPT ![c.of] = H]
  BY DEF UsersOf, GoesOnWith
<1>2. f \in Frame /\ n \in Counted /\ c.of \in Counted /\ frames[t] \in Seq(Frame) /\ Len(frames[t]) \in Nat
  BY <1>0, <1>1, InnerFacts, WhoCalled
<1>3. s2 \in Seq(Frame) /\ Len(s2) > 0 /\ Len(s2) \in Nat
  BY <1>0, <1>2 DEF BackAt
<1>4. \A x \in Counted : held'[x] = IF x = c.of THEN H ELSE held[x]
  BY <1>0, <1>1, <1>2 DEF LadderTypeOK
<1>5. \A x \in Counted : Clients(x)' = Clients(x)
  BY <1>0 DEF Clients
<1>6. Book'[n].users = Cardinality(Clients(n)) + Cardinality(Users(n)')
  BY <1>2, <1>5 DEF Book
<1>7. /\ Book[n].users = Cardinality(Clients(n)) + Cardinality(Users(n))
      /\ Cardinality(Clients(n)) \in Nat /\ Cardinality(Users(n)) \in Nat
  BY <1>1, <1>2, BookFacts
<1>8. IsFiniteSet(Counted) /\ Users(n) \in SUBSET Counted
  BY CountedIsFinite DEF Users
<1>9. f.way = "up" => Book'[n].users = Book[n].users + 1
  <2> SUFFICES ASSUME f.way = "up" PROVE Book'[n].users = Book[n].users + 1
    OBVIOUS
  <2>1. PICK k \in Counted : k \notin Users(n) /\ Users(n)' = Users(n) \cup {k}
    BY DEF UsersOf
  <2>2. Cardinality(Users(n)') = Cardinality(Users(n)) + 1
    BY <1>8, <2>1, FewOf
  <2> QED  BY <1>6, <1>7, <2>2
<1>10. f.way = "down" => Book'[n].users = Book[n].users - 1
  <2> SUFFICES ASSUME f.way = "down" PROVE Book'[n].users = Book[n].users - 1
    OBVIOUS
  <2>1. PICK k \in Users(n) : Users(n)' = Users(n) \ {k}
    BY DEF UsersOf
  <2>2. Cardinality(Users(n)') = Cardinality(Users(n)) - 1
    BY <1>8, <2>1, FewOf
  <2> QED  BY <1>6, <1>7, <2>2
<1>11. f.way = "unwind" => Book'[n].users = Book[n].users
  BY <1>6, <1>7 DEF UsersOf
<1>12. LeftIn(t, s2, Book')
  <2>1. \A x \in Counted : x # n => Users(x)' = Users(x) /\ Clients(x)' = Clients(x)
    BY <1>5 DEF UsersOf
  <2>2. \A x \in Counted : (Len(s2) > 0 => x # c.of) => held'[x] = held[x]
    BY <1>3, <1>4
  <2>3. \A b2 : b2.held = held'[c.of] /\ b2.refs = Book[c.of].refs /\ b2.users = Book[c.of].users => Fits(s2[Len(s2)], b2)
    BY <1>2, <1>4 DEF GoesOnWith
  <2> QED  BY <1>0, <1>9, <1>10, <1>11, <2>1, <2>2, <2>3, LeftBooks
<1>13. GoesBack(t, s2)
  BY <1>0, <1>3 DEF GoesBack, GoesOnWith
<1>14. LadderTypeOK'
  <2>1. frames' \in [Climber -> Seq(Frame)] /\ held' \in [Counted -> SUBSET Things]
    BY <1>0, <1>1, <1>2, <1>3 DEF LadderTypeOK
  <2>2. /\ fifo' = fifo /\ broken' = FALSE /\ lock' \in [Counted -> Climber \cup {"free"}] /\ refs' \in [Counted -> Nat]
        /\ abi' \in {"evtchn_two_level", "none", abi}
    <3>1. abi' \in {"evtchn_two_level", "none", abi}
      BY Leaving
    <3> QED  BY <3>1, Leaving
  <2>3. abi' \in Abis \cup {"none"}
    BY <1>1, <2>2 DEF LadderTypeOK, Abis
  <2> QED  BY <1>0, <1>1, <2>1, <2>2, <2>3 DEF LadderTypeOK
<1> QED  BY <1>1, <1>12, <1>13, <1>14, LeaveStep

\* The frames of t when its innermost frame has returned and the one before it
\* goes on at g.
LEMMA GoesOn ==
  ASSUME LadderIInv, NEW t \in Climber, frames[t] # << >>, Len(frames[t]) > 1,
         NEW g \in Frame, g.of = Caller(t).of, g.way = "down" <=> Caller(t).way = "down"
  PROVE  LET s2 == Append(SubSeq(Outer(t), 1, Len(Outer(t)) - 1), g)
         IN  BackAt(t, s2) /\ s2[Len(s2)] = g
<1> DEFINE s == frames[t]
           o == Outer(t)
           r == SubSeq(o, 1, Len(o) - 1)
           s2 == Append(r, g)
<1>1. s \in Seq(Frame) /\ Len(s) \in Nat \ {0}
  BY InnerFacts
<1>2. o \in Seq(Frame) /\ Len(o) = Len(s) - 1 /\ \A k \in 1 .. Len(s) - 1 : o[k] = s[k]
  BY <1>1, OuterFacts
<1>3. Len(o) \in Nat \ {0}
  BY <1>1, <1>2
<1> HIDE DEF o
<1>4. r \in Seq(Frame) /\ Len(r) = Len(o) - 1 /\ \A k \in 1 .. Len(o) - 1 : r[k] = o[k]
  BY <1>2, <1>3
<1> HIDE DEF r
<1>5. s2 \in Seq(Frame) /\ Len(s2) = Len(r) + 1 /\ s2[Len(r) + 1] = g /\ \A k \in 1 .. Len(r) : s2[k] = r[k]
  BY <1>4
<1> HIDE DEF s2
<1>6. Len(s2) = Len(s) - 1 /\ s2[Len(s2)] = g
  BY <1>1, <1>2, <1>3, <1>4, <1>5
<1>7. \A k \in 1 .. Len(s2) - 1 : s2[k] = s[k]
  <2> SUFFICES ASSUME NEW k \in 1 .. Len(s2) - 1 PROVE s2[k] = s[k]
    OBVIOUS
  <2>1. k \in 1 .. Len(r) /\ k \in 1 .. Len(o) - 1 /\ k \in 1 .. Len(s) - 1
    BY <1>1, <1>2, <1>3, <1>4, <1>6
  <2> QED  BY <1>2, <1>4, <1>5, <2>1
<1>8. BackAt(t, s2)
  BY <1>5, <1>6, <1>7 DEF BackAt
<1> QED  BY <1>6, <1>8 DEF s2, r, o

LEMMA ReturningTo ==
  ASSUME LadderIInv, NEW t \in Climber, Return(t), Len(frames[t]) > 1
  PROVE  LET f == Inner(t)
             c == Caller(t)
             retry == f.way = "unwind" /\ f.of = "evtchn_fifo"
             rest == SubSeq(Outer(t), 1, Len(Outer(t)) - 1)
         IN  /\ owned' = owned
             /\ retry => frames' = [frames EXCEPT ![t] = Outer(t)] /\ held' = held
             /\ f.way = "unwind" /\ ~retry =>
                  frames' = [frames EXCEPT ![t] = Append(rest, GoTo(c, FailLabel(c)))] /\ held' = held
             /\ f.way = "up" => /\ frames' = [frames EXCEPT ![t] = Append(rest, Beyond(c))]
                                /\ held' = [held EXCEPT ![c.of] = @ \cup {What(c)}]
             /\ f.way = "down" => /\ frames' = [frames EXCEPT ![t] = Append(rest, Beyond(c))]
                                  /\ held' = [held EXCEPT ![c.of] = @ \ {What(c)}]
<1>1. frames[t] # << >> /\ frames[t] \in Seq(Frame) /\ Len(frames[t]) \in Nat
  BY DEF LadderIInv, LadderTypeOK, Return
<1>2. Outer(t) # << >> /\ Outer(t)[Len(Outer(t))] = Caller(t)
  <2>1. /\ Outer(t) \in Seq(Frame) /\ Len(Outer(t)) = Len(frames[t]) - 1
        /\ \A k \in 1 .. Len(frames[t]) - 1 : Outer(t)[k] = frames[t][k]
    BY <1>1, OuterFacts
  <2>2. Len(Outer(t)) > 0 /\ Len(Outer(t)) \in 1 .. Len(frames[t]) - 1
    BY <1>1, <2>1
  <2> QED  BY <2>1, <2>2 DEF Caller
<1> DEFINE f == Inner(t)
           c == Caller(t)
           o == Outer(t)
           retry == f.way = "unwind" /\ f.of = "evtchn_fifo"
           rest == SubSeq(Outer(t), 1, Len(Outer(t)) - 1)
           go == Append(rest, GoTo(c, FailLabel(c)))
           on == Append(rest, Beyond(c))
<1>3. /\ owned' = owned
      /\ frames' = [frames EXCEPT ![t] = CASE retry -> o
                                           [] f.way = "unwind" /\ ~retry -> go
                                           [] f.way # "unwind" -> on]
      /\ held' = CASE f.way = "unwind" -> held
                   [] f.way = "up" -> [held EXCEPT ![c.of] = @ \cup {What(c)}]
                   [] f.way = "down" -> [held EXCEPT ![c.of] = @ \ {What(c)}]
  BY <1>2 DEF Return
<1> HIDE DEF go, on, c, o
<1>4. retry => frames' = [frames EXCEPT ![t] = o] /\ held' = held
  BY <1>3
<1>5. f.way = "unwind" /\ ~retry => frames' = [frames EXCEPT ![t] = go] /\ held' = held
  BY <1>3
<1>6. f.way = "up" => /\ frames' = [frames EXCEPT ![t] = on]
                      /\ held' = [held EXCEPT ![c.of] = @ \cup {What(c)}]
  <2>1. f.way = "up" => ~retry /\ f.way # "unwind" /\ f.way # "down"
    OBVIOUS
  <2> QED  BY <1>3, <2>1
<1>7. f.way = "down" => /\ frames' = [frames EXCEPT ![t] = on]
                        /\ held' = [held EXCEPT ![c.of] = @ \ {What(c)}]
  <2>1. f.way = "down" => ~retry /\ f.way # "unwind" /\ f.way # "up"
    OBVIOUS
  <2> QED  BY <1>3, <2>1
<1> QED  BY <1>3, <1>4, <1>5, <1>6, <1>7 DEF go, on, c, o

\* Its caller has one thing more.
LEMMA ReturnUp ==
  ASSUME LadderIInv, UNCHANGED Top, NEW t \in Climber, Return(t), Len(frames[t]) > 1, Inner(t).way = "up"
  PROVE  LadderIInv'
<1>1. LadderTypeOK /\ frames[t] # << >>
  BY DEF LadderIInv, Return
<1>2. PICK n \in Counted : n = Inner(t).of
  BY <1>1, InnerFacts
<1>3. PICK c \in Frame : c = Caller(t)
  BY <1>1, WhoCalled
<1> DEFINE b == Book[c.of]
           w == What(c)
           H == held[c.of] \cup {w}
           s2 == Append(SubSeq(Outer(t), 1, Len(Outer(t)) - 1), Beyond(c))
<1>4. c.of \in Counted /\ Fits(c, b) /\ ~Ended(c) /\ Calling(c, Inner(t), abi)
  BY <1>1, <1>3, WhoCalled
<1>5. c.way = "up" /\ b.held = held[c.of] /\ b.users \in Nat
  BY <1>1, <1>4, BookFacts DEF Calling
<1>6. frames' = [frames EXCEPT ![t] = s2] /\ held' = [held EXCEPT ![c.of] = H] /\ owned' = owned
  BY <1>3, ReturningTo
<1>7. abi' = abi
  BY Leaving
<1>8. /\ n \in Abis => c.of = "evtchn" /\ w = "abi" /\ abi = n
      /\ n \notin Abis => n # abi /\ w = n
  BY <1>1, <1>2, <1>3, WhatWasCalled
<1>9. Beyond(c) \in Frame /\ Beyond(c).of = c.of /\ Beyond(c).way = c.way
  BY <1>4 DEF Beyond, Frame
<1>10. BackAt(t, s2) /\ s2[Len(s2)] = Beyond(c)
  BY <1>1, <1>3, <1>9, GoesOn
<1> HIDE DEF s2
<1>11. /\ w \notin held[c.of] /\ w \in Everything(c.of)
       /\ \A b2 : b2.held = b.held \cup {w} /\ b2.refs = b.refs /\ b2.users = b.users => Fits(Beyond(c), b2)
  BY <1>4, <1>5, GoingUp
<1> HIDE DEF w
<1>12. H \in SUBSET Things
  <2>1. w \in Things
    BY <1>4, <1>11, ThingsOf
  <2> QED  BY <1>1, <1>4, <2>1 DEF LadderTypeOK
<1>13. \A x \in Counted : held'[x] = IF x = c.of THEN H ELSE held[x]
  BY <1>1, <1>6 DEF LadderTypeOK
<1>14. /\ \A x \in Counted : x # n => Users(x)' = Users(x)
       /\ c.of \notin Users(n) /\ Users(n)' = Users(n) \cup {c.of}
  <2>1. \A x \in Counted : x # "abi"
    BY PlainFacts
  <2>2. n \in Abis => n \notin held[c.of]
    BY <1>4, WhoHasTheAbi
  <2>3. ASSUME NEW x \in Counted, x # n PROVE Users(x)' = Users(x)
    <3>1. \A k \in Counted : x \in held'[k] <=> x \in held[k]
      BY <1>8, <1>13, <2>1, <2>3
    <3>2. abi = x => \A k \in Counted : "abi" \in held'[k] <=> "abi" \in held[k]
      BY <1>8, <1>13, <2>1, <2>3
    <3> QED  BY <1>7, <3>1, <3>2 DEF Users
  <2>4. c.of \notin Users(n)
    BY <1>8, <1>11, <2>2 DEF Users
  <2>5. Users(n)' = Users(n) \cup {c.of}
    BY <1>4, <1>7, <1>8, <1>13, <2>1 DEF Users
  <2> QED  BY <2>3, <2>4, <2>5
<1>15. \A b2 : b2.held = H /\ b2.refs = b.refs /\ b2.users = b.users => Fits(s2[Len(s2)], b2)
  BY <1>5, <1>10, <1>11
<1>16. ("abi" \in held["evtchn"] => abi \in Abis)'
  <2> SUFFICES ASSUME "abi" \in held'["evtchn"] PROVE abi \in Abis
    BY <1>7
  <2>1. CASE "abi" \in held["evtchn"]
    BY <2>1 DEF LadderIInv
  <2>2. CASE "abi" \notin held["evtchn"]
    <3>1. w = "abi"
      BY <1>13, <2>2, PlainFacts
    <3> QED  BY <1>8, <3>1, PlainFacts
  <2> QED  BY <2>1, <2>2
<1> HIDE DEF H, b
<1>17. UNCHANGED <<Top, owned>>
  BY <1>6
<1>18. UsersOf(t, n)
  BY <1>2, <1>4, <1>14 DEF UsersOf
<1>19. GoesOnWith(t, s2, H)
  <2>1. b = Book[Caller(t).of]
    BY <1>3 DEF b
  <2> QED  BY <1>3, <1>6, <1>7, <1>10, <1>12, <1>15, <2>1 DEF GoesOnWith
<1> QED
  BY <1>16, <1>17, <1>18, <1>19, ReturnToCaller

\* Its caller has one thing less.
LEMMA ReturnDown ==
  ASSUME LadderIInv, UNCHANGED Top, NEW t \in Climber, Return(t), Len(frames[t]) > 1, Inner(t).way = "down"
  PROVE  LadderIInv'
<1>1. LadderTypeOK /\ frames[t] # << >>
  BY DEF LadderIInv, Return
<1>2. PICK n \in Counted : n = Inner(t).of
  BY <1>1, InnerFacts
<1>3. PICK c \in Frame : c = Caller(t)
  BY <1>1, WhoCalled
<1> DEFINE b == Book[c.of]
           w == What(c)
           H == held[c.of] \ {w}
           s2 == Append(SubSeq(Outer(t), 1, Len(Outer(t)) - 1), Beyond(c))
<1>4. c.of \in Counted /\ Fits(c, b) /\ ~Ended(c) /\ Calling(c, Inner(t), abi)
  BY <1>1, <1>3, WhoCalled
<1>5. c.way # "up" /\ b.held = held[c.of]
  BY <1>1, <1>4, BookFacts DEF Calling
<1>6. frames' = [frames EXCEPT ![t] = s2] /\ held' = [held EXCEPT ![c.of] = H] /\ owned' = owned
  BY <1>3, ReturningTo
<1>7. abi' = IF n \in Abis THEN "none" ELSE abi
  BY <1>2, Leaving
<1>8. /\ n \in Abis => c.of = "evtchn" /\ w = "abi" /\ abi = n
      /\ n \notin Abis => n # abi /\ w = n
  BY <1>1, <1>2, <1>3, WhatWasCalled
<1>9. Beyond(c) \in Frame /\ Beyond(c).of = c.of /\ Beyond(c).way = c.way
  BY <1>4 DEF Beyond, Frame
<1>10. BackAt(t, s2) /\ s2[Len(s2)] = Beyond(c)
  BY <1>1, <1>3, <1>9, GoesOn
<1> HIDE DEF s2
<1>11. /\ w \in held[c.of]
       /\ \A b2 : b2.held = b.held \ {w} /\ b2.refs = b.refs /\ b2.users = b.users => Fits(Beyond(c), b2)
  BY <1>4, <1>5, GoingDown
<1> HIDE DEF w
<1>12. H \in SUBSET Things
  BY <1>1, <1>4 DEF LadderTypeOK
<1>13. \A x \in Counted : held'[x] = IF x = c.of THEN H ELSE held[x]
  BY <1>1, <1>6 DEF LadderTypeOK
<1>14. /\ \A x \in Counted : x # n => Users(x)' = Users(x)
       /\ c.of \in Users(n) /\ Users(n)' = Users(n) \ {c.of}
  <2>1. \A x \in Counted : x # "abi" /\ x # "none"
    BY PlainFacts DEF Counted
  <2>2. \A k \in Counted : n \in Abis => n \notin held[k] /\ ("abi" \in held[k] => k = c.of)
    BY <1>8, WhoHasTheAbi
  <2>3. ASSUME NEW x \in Counted, x # n PROVE Users(x)' = Users(x)
    <3>1. \A k \in Counted : x \in held'[k] <=> x \in held[k]
      BY <1>8, <1>13, <2>1, <2>3
    <3>2. (abi' = x <=> abi = x) /\ (abi = x => \A k \in Counted : "abi" \in held'[k] <=> "abi" \in held[k])
      BY <1>7, <1>8, <1>13, <2>1, <2>3
    <3> QED  BY <3>1, <3>2 DEF Users
  <2>4. c.of \in Users(n)
    BY <1>4, <1>8, <1>11 DEF Users
  <2>5. Users(n)' = Users(n) \ {c.of}
    <3>1. CASE n \in Abis
      <4>1. Users(n)' = {} /\ Users(n) \subseteq {c.of}
        BY <1>7, <1>8, <1>13, <2>1, <2>2, <3>1 DEF Users
      <4> QED  BY <4>1
    <3>2. CASE n \notin Abis
      BY <1>4, <1>7, <1>8, <1>13, <2>1, <3>2 DEF Users
    <3> QED  BY <3>1, <3>2
  <2> QED  BY <2>3, <2>4, <2>5
<1>15. \A b2 : b2.held = H /\ b2.refs = b.refs /\ b2.users = b.users => Fits(s2[Len(s2)], b2)
  BY <1>5, <1>10, <1>11
<1>16. ("abi" \in held["evtchn"] => abi \in Abis)'
  <2> SUFFICES ASSUME "abi" \in held'["evtchn"] PROVE abi' \in Abis
    OBVIOUS
  <2>1. "evtchn" \in Counted
    BY PlainFacts
  <2>2. "abi" \in held["evtchn"] /\ ("evtchn" = c.of => "abi" # w)
    BY <1>13, <2>1
  <2>3. abi' = abi
    BY <1>7, <1>8, <2>2
  <2> QED  BY <2>2, <2>3 DEF LadderIInv
<1> HIDE DEF H, b
<1>17. UsersOf(t, n)
  BY <1>2, <1>14 DEF UsersOf
<1>18. GoesOnWith(t, s2, H)
  <2>1. b = Book[Caller(t).of] /\ (abi' # abi => c.of = "evtchn")
    BY <1>3, <1>7, <1>8 DEF b
  <2> QED  BY <1>3, <1>6, <1>10, <1>12, <1>15, <2>1 DEF GoesOnWith
<1> QED
  BY <1>16, <1>17, <1>18, ReturnToCaller

\* It has failed: its caller fails, too, or tries the other ABI.
LEMMA ReturnFailed ==
  ASSUME LadderIInv, UNCHANGED Top, NEW t \in Climber, Return(t), Len(frames[t]) > 1, Inner(t).way = "unwind"
  PROVE  LadderIInv'
<1>1. LadderTypeOK /\ frames[t] # << >>
  BY DEF LadderIInv, Return
<1>2. PICK n \in Counted : n = Inner(t).of
  BY <1>1, InnerFacts
<1>3. PICK c \in Frame : c = Caller(t)
  BY <1>1, WhoCalled
<1> DEFINE b == Book[c.of]
           w == What(c)
           H == held[c.of]
           retry == n = "evtchn_fifo"
           g == IF retry THEN c ELSE GoTo(c, FailLabel(c))
           s2 == IF retry THEN Outer(t) ELSE Append(SubSeq(Outer(t), 1, Len(Outer(t)) - 1), g)
<1>4. /\ c.of \in Counted /\ Fits(c, b) /\ ~Ended(c) /\ Calling(c, Inner(t), abi)
      /\ frames[t] \in Seq(Frame) /\ Len(frames[t]) \in Nat
  BY <1>1, <1>3, InnerFacts, WhoCalled
<1>5. c.way = "up" /\ b.held = held[c.of] /\ b.users \in Nat
  BY <1>1, <1>4, BookFacts DEF Calling
<1>6. frames' = [frames EXCEPT ![t] = s2] /\ held' = held /\ owned' = owned
  <2>1. owned' = owned
    BY ReturningTo
  <2>2. CASE retry
    BY <1>2, <2>1, <2>2, ReturningTo
  <2>3. CASE ~retry
    BY <1>2, <1>3, <2>1, <2>3, ReturningTo
  <2> QED  BY <2>2, <2>3
<1>7. /\ n # "evtchn_two_level" /\ Book[n].users = 0
      /\ abi' = IF retry THEN "evtchn_two_level" ELSE abi
  BY <1>2, Leaving
<1>8. /\ n \in Abis => c.of = "evtchn" /\ w = "abi" /\ abi = n
      /\ n \notin Abis => n \in Public /\ n # abi /\ w = n
  BY <1>1, <1>2, <1>3, WhatWasCalled
<1>9. retry <=> n \in Abis
  BY <1>7 DEF Abis
<1>10. /\ w \notin held[c.of] /\ c.at \in 1 .. Len(Ups(c.of))
       /\ Private(w) \/ FailLabel(c) # 0
       /\ c.of # "evtchn_two_level" /\ FailLabel(c) # 0 =>
              /\ GoTo(c, FailLabel(c)) \in Frame /\ GoTo(c, FailLabel(c)).of = c.of
              /\ GoTo(c, FailLabel(c)).way = "unwind"
              /\ \A b2 : b2.held = b.held /\ b2.refs = b.refs /\ b2.users = b.users =>
                   Fits(GoTo(c, FailLabel(c)), b2)
  BY <1>4, <1>5, GoingUp
\* EvtchnTwoLevelAcquire calls only SharedInfoAcquire, which evtchn has then
\* acquired itself: it cannot fail.
<1>11. c.of # "evtchn_two_level"
  <2> SUFFICES ASSUME c.of = "evtchn_two_level" PROVE FALSE
    OBVIOUS
  <2> DEFINE s == frames[t]
             p == Len(s) - 2
             e == s[p]
  <2>1. w = "shared_info" /\ n = "shared_info"
    <3>1. w = Ups("evtchn_two_level")[c.at][1]
      BY <1>5, FrameFacts
    <3>2. w = "shared_info"
      BY <1>10, <3>1, TwoLevelCalls
    <3>3. w # "abi"
      BY <3>2
    <3> QED  BY <1>8, <3>2, <3>3
  <2>2. StackOK(t, s, Book, abi, owned[t]) /\ c = s[Len(s) - 1]
    BY <1>1, <1>3, InnerFacts DEF Caller
  <2>3. c.of \notin Public
    BY DEF Public, Abis
  <2>4. Len(s) > 2
    <3>1. Len(s) = 2 => c = s[1]
      BY <2>2
    <3>2. Len(s) # 2
      BY <2>2, <2>3, <3>1 DEF StackOK
    <3> DEFINE m == Len(s)
    <3>3. m \in Nat /\ m > 1 /\ m # 2
      BY <1>4, <3>2
    <3> HIDE DEF m
    <3>4. m > 2
      BY <3>3
    <3> QED  BY <3>4 DEF m
  <2>5. p \in 1 .. Len(s) - 1 /\ p \in 1 .. Len(s) /\ p + 1 = Len(s) - 1
    BY <1>4, <2>4
  <2>6. Calling(e, c, abi) /\ Fits(e, Book[e.of]) /\ e \in Frame
    <3>1. Calling(s[p], s[p + 1], abi) /\ Fits(s[p], Book[s[p].of])
      BY <2>2, <2>5 DEF StackOK
    <3>2. s[p] \in Frame
      BY <1>4, <2>5, StackFrames
    <3> QED  BY <2>2, <2>5, <3>1, <3>2
  <2> HIDE DEF e
  <2>7. What(e) = "abi" /\ e.of = "evtchn" /\ e.way = "up"
    BY <1>5, <2>3, <2>6 DEF Calling
  <2>8. ~Ended(e)
    <3>1. Len(Table(e)) \in Nat /\ e.at \in Nat
      BY <2>6, TableLength
    <3> QED  BY <2>6, <3>1 DEF Calling, Ended
  <2>9. e.at \in 1 .. Len(Ups("evtchn")) /\ held["evtchn"] = UpTo("evtchn", e.at)
    <3>1. Book["evtchn"].users \in Nat /\ Book["evtchn"].held = held["evtchn"]
      BY <1>1, PlainFacts, BookFacts
    <3> QED  BY <2>6, <2>7, <2>8, <3>1, GoingUp
  <2>10. "shared_info" \in held["evtchn"]
    <3>1. Ups("evtchn") = EvtchnUp
      BY TheTables DEF Tables
    <3>2. /\ Len(EvtchnUp) = 9 /\ EvtchnUp[6][1] = "shared_info"
          /\ \A i \in 1 .. 9 : EvtchnUp[i][1] = "abi" => i = 7
      BY DEF EvtchnUp
    <3>3. EvtchnUp[e.at][1] = "abi"
      BY <2>6, <2>7, <3>1, FrameFacts
    <3>4. e.at = 7
      BY <2>9, <3>1, <3>2, <3>3
    <3>5. 6 \in 1 .. e.at - 1
      BY <3>4
    <3> QED  BY <2>9, <3>1, <3>2, <3>5 DEF UpTo
  <2>11. "evtchn" \in Users(n)
    BY <2>1, <2>10, PlainFacts DEF Users
  <2>12. Book[n].users > 0
    BY <1>1, <2>11, SomeUser
  <2> QED  BY <1>7, <2>12
<1>12. ~retry => FailLabel(c) # 0
  <2> SUFFICES ASSUME ~retry PROVE FailLabel(c) # 0
    OBVIOUS
  <2>1. w \in Counted
    BY <1>8, <1>9, PlainFacts
  <2>2. ~Private(w)
    BY <2>1, OwnIsNoInterface
  <2> QED  BY <1>10, <2>2
<1> HIDE DEF w
<1>13. /\ g \in Frame /\ g.of = c.of /\ g.way # "down"
       /\ \A b2 : b2.held = H /\ b2.refs = b.refs /\ b2.users = b.users => Fits(g, b2)
  <2>1. CASE retry
    <3>1. \A b2 : b2.held = H /\ b2.refs = b.refs /\ b2.users = b.users => Fits(c, b2)
      <4>1. FitsUp(c, b)
        BY <1>4, <1>5, FitsWhich
      <4> SUFFICES ASSUME NEW b2, b2.held = H, b2.refs = b.refs, b2.users = b.users PROVE Fits(c, b2)
        OBVIOUS
      <4>2. FitsUp(c, b2)
        BY <1>5, <4>1 DEF FitsUp
      <4> QED  BY <1>5, <4>2, FitsWhich
    <3> QED  BY <1>4, <1>5, <2>1, <3>1
  <2>2. CASE ~retry
    BY <1>5, <1>10, <1>11, <1>12, <2>2
  <2> QED  BY <2>1, <2>2
<1> HIDE DEF g
<1>14. BackAt(t, s2) /\ s2[Len(s2)] = g
  <2>1. CASE retry
    <3> DEFINE o == Outer(t)
    <3>1. /\ o \in Seq(Frame) /\ Len(o) = Len(frames[t]) - 1
          /\ \A k \in 1 .. Len(frames[t]) - 1 : o[k] = frames[t][k]
      BY <1>1, InnerFacts, OuterFacts
    <3> HIDE DEF o
    <3>2. Len(o) \in 1 .. Len(frames[t]) - 1 /\ \A k \in 1 .. Len(o) - 1 : k \in 1 .. Len(frames[t]) - 1
      BY <1>4, <3>1
    <3>3. o[Len(o)] = c
      BY <1>3, <3>1, <3>2 DEF Caller
    <3>4. BackAt(t, o)
      BY <1>3, <3>1, <3>2, <3>3 DEF BackAt
    <3> QED  BY <2>1, <3>3, <3>4 DEF o, g
  <2>2. CASE ~retry
    BY <1>1, <1>3, <1>5, <1>13, <2>2, GoesOn
  <2> QED  BY <2>1, <2>2
<1> HIDE DEF s2
<1>15. \A x \in Counted : Users(x)' = Users(x)
  <2>1. CASE retry
    <3>1. \A k \in Counted : "abi" \notin held[k]
      BY <1>8, <1>9, <1>10, <2>1, WhoHasTheAbi
    <3> QED  BY <1>6, <3>1 DEF Users
  <2>2. CASE ~retry
    BY <1>6, <1>7, <2>2 DEF Users
  <2> QED  BY <2>1, <2>2
<1>16. ("abi" \in held["evtchn"] => abi \in Abis)'
  BY <1>6, <1>7 DEF LadderIInv, Abis
<1>17. UsersOf(t, n)
  BY <1>2, <1>15 DEF UsersOf
<1>18. GoesOnWith(t, s2, H)
  <2>1. b = Book[Caller(t).of] /\ (abi' # abi => Caller(t).of = "evtchn")
    BY <1>3, <1>7, <1>8, <1>9 DEF b
  <2>2. H \in SUBSET Things /\ held' = [held EXCEPT ![Caller(t).of] = H]
    BY <1>1, <1>3, <1>4, <1>6 DEF LadderTypeOK
  <2> HIDE DEF H, b
  <2>3. \A b2 : b2.held = H /\ b2.refs = b.refs /\ b2.users = b.users => Fits(s2[Len(s2)], b2)
    BY <1>13, <1>14
  <2> QED  BY <1>6, <1>14, <2>1, <2>2, <2>3 DEF GoesOnWith
<1> QED
  BY <1>16, <1>17, <1>18, ReturnToCaller

LEMMA ReturnIsFine ==
  ASSUME LadderIInv, UNCHANGED Top, NEW t \in Climber, Return(t)
  PROVE  LadderIInv'
<1>1. frames[t] # << >>
  BY DEF Return
<1>2. Len(frames[t]) \in Nat \ {0} /\ Inner(t) \in Frame
  BY <1>1, InnerFacts
<1>3. Inner(t).way \in {"up", "unwind", "down"}
  BY <1>2 DEF Frame
<1>4. Len(frames[t]) = 1 \/ Len(frames[t]) > 1
  <2> DEFINE m == Len(frames[t])
  <2>1. m \in Nat \ {0}
    BY <1>2
  <2> HIDE DEF m
  <2>2. m = 1 \/ m > 1
    BY <2>1
  <2> QED  BY <2>2 DEF m
<1> QED  BY <1>3, <1>4, ReturnToClient, ReturnUp, ReturnDown, ReturnFailed

-----------------------------------------------------------------------------
(* The invariant of Ladder, for the interfaces.                            *)
LEMMA LadderStep ==
  ASSUME LadderIInv, [LadderNext]_ladderVars
  PROVE  LadderIInv'
<1>1. ASSUME UNCHANGED ladderVars PROVE LadderIInv'
  <2>1. /\ UNCHANGED <<Top, refs, lock, held, abi, fifo, frames, owned, broken>>
        /\ LadderTypeOK /\ Consistent(Book, frames, owned, abi)
    BY <1>1 DEF ladderVars, LadderIInv
  <2>2. Book' = Book
    BY <2>1 DEF Book, Clients, Users
  <2>3. Consistent(Book', frames', owned', abi')
    BY <2>1, <2>2
  <2>4. LadderTypeOK'
    BY <2>1 DEF LadderTypeOK
  <2>5. ("abi" \in held["evtchn"] => abi \in Abis)'
    BY <2>1 DEF LadderIInv
  <2> QED  BY <2>3, <2>4, <2>5 DEF LadderIInv
<1>2. ASSUME UNCHANGED Top, NEW t \in Climber,
             Client(t) \/ TakeStep(t) \/ FailStep(t) \/ Call(t) \/ DropStep(t) \/ Return(t)
      PROVE  LadderIInv'
  BY <1>2, ClientStep, TakeIsFine, FailIsFine, CallStep, DropIsFine, ReturnIsFine
<1> QED  BY <1>1, <1>2 DEF LadderNext

LEMMA LadderStart ==
  ASSUME LadderInit, Top \in (SUBSET Public) \ {{}}
  PROVE  LadderIInv
<1>1. Needed(Top) = Counted
  <2>1. \A n \in Top : n \in Counted
    BY PlainFacts
  <2>2. Needed(Top) = UNION {Counted : n \in Top}
    BY <2>1 DEF Needed
  <2> QED  BY <2>2
<1>2. /\ refs = [n \in Counted |-> 0] /\ lock = [n \in Counted |-> "free"] /\ held = [n \in Counted |-> {}]
      /\ abi = "none" /\ fifo \in BOOLEAN
      /\ frames = [t \in Climber |-> << >>] /\ owned = [t \in Climber |-> {}] /\ broken = FALSE
  BY <1>1 DEF LadderInit
<1>3. LadderTypeOK
  BY <1>2 DEF LadderTypeOK
<1>4. ASSUME NEW n \in Counted PROVE Book[n].lock = "free" /\ Rests(n, Book[n])
  <2>1. Clients(n) = {} /\ Users(n) = {}
    BY <1>2 DEF Clients, Users
  <2>2. Cardinality(Clients(n)) = 0 /\ Cardinality(Users(n)) = 0
    BY <2>1, FS_EmptySet
  <2>3. Book[n].lock = "free" /\ Book[n].refs = 0 /\ Book[n].held = {} /\ Book[n].users = 0
    <3>1. lock[n] = "free" /\ refs[n] = 0 /\ held[n] = {}
      BY <1>2
    <3>2. Book[n].users = 0 + 0
      BY <1>3, <2>2, BookFacts
    <3>3. Book[n].lock = lock[n] /\ Book[n].refs = refs[n] /\ Book[n].held = held[n]
      BY <1>3, BookFacts
    <3> QED  BY <3>1, <3>2, <3>3
  <2> QED  BY <2>3 DEF Rests
<1>5. \A t \in Climber : StackOK(t, frames[t], Book, abi, owned[t])
  BY <1>2 DEF StackOK
<1>6. Consistent(Book, frames, owned, abi)
  BY <1>4, <1>5 DEF Consistent
<1>7. "abi" \notin held["evtchn"]
  BY <1>2, PlainFacts
<1> QED  BY <1>3, <1>6, <1>7 DEF LadderIInv

LEMMA UpsAreSequences == \A n \in Counted : DOMAIN Ups(n) = 1 .. Len(Ups(n))
<1>1. \A n \in {"debug", "suspend", "range_set", "cache"} : DOMAIN Ups(n) = 1 .. Len(Ups(n))
  BY TheTables DEF Tables, DebugUp, ReporterUp
<1>2. \A n \in {"gnttab", "shared_info"} : DOMAIN Ups(n) = 1 .. Len(Ups(n))
  BY TheTables DEF Tables, GnttabUp, SharedInfoUp
<1>3. DOMAIN Ups("evtchn") = 1 .. Len(Ups("evtchn"))
  BY TheTables DEF Tables, EvtchnUp
<1>4. \A n \in {"evtchn_two_level", "evtchn_fifo", "unplug"} : DOMAIN Ups(n) = 1 .. Len(Ups(n))
  BY TheTables DEF Tables, TwoLevelUp, FifoUp, UnplugUp
<1>5. \A n \in {"store", "console"} : DOMAIN Ups(n) = 1 .. Len(Ups(n))
  BY TheTables DEF Tables, StoreUp, ConsoleUp
<1>6. DOMAIN Ups("balloon") = 1 .. Len(Ups("balloon"))
  BY TheTables DEF Tables, BalloonUp
<1> QED  BY <1>1, <1>2, <1>3, <1>4, <1>5, <1>6 DEF Counted

LEMMA IsBalanced == ASSUME LadderIInv PROVE Balanced
<1>1. LadderTypeOK /\ DOMAIN held = Counted /\ broken = FALSE
  BY DEF LadderIInv, LadderTypeOK
<1>2. ASSUME NEW n \in Counted, lock[n] = "free"
      PROVE  /\ refs[n] = Cardinality(Clients(n)) + Cardinality(Users(n))
             /\ held[n] = IF refs[n] = 0 THEN {} ELSE Everything(n)
  <2>1. Rests(n, Book[n])
    BY <1>1, <1>2, BookFacts DEF LadderIInv, Consistent
  <2> QED  BY <1>1, <2>1, BookFacts DEF Rests
<1>3. ASSUME NEW n \in Counted, lock[n] # "free"
      PROVE  \E t \in Climber : \E k \in 1 .. Len(frames[t]) : frames[t][k].of = n
  BY <1>1, <1>3, BookFacts DEF LadderIInv, Consistent
<1>4. ASSUME NEW n \in Counted, ~Inside(n)
      PROVE  /\ refs[n] = 0 => held[n] \ Residue = {}
             /\ refs[n] > 0 => AllOf(n) \ (held[n] \cup Probes) = {}
  <2>1. lock[n] = "free"
    <3>1. \A t \in Climber : frames[t] \in Seq(Frame)
      BY <1>1 DEF LadderTypeOK
    <3>2. \A t \in Climber : DOMAIN frames[t] = 1 .. Len(frames[t])
      BY <3>1
    <3> QED  BY <1>3, <1>4, <3>2 DEF Inside
  <2>2. AllOf(n) \subseteq Everything(n)
    <3>1. Len(Ups(n)) \in Nat
      BY TablesInOrder DEF UpTable
    <3>2. \A k \in DOMAIN Ups(n) : k \in 1 .. (Len(Ups(n)) + 1) - 1
      BY <3>1, UpsAreSequences
    <3>3. AllOf(n) \subseteq {Ups(n)[k][1] : k \in DOMAIN Ups(n)}
      BY DEF AllOf, Ups
    <3> QED  BY <3>2, <3>3 DEF Everything, UpTo
  <2>3. refs[n] \in Nat
    BY <1>1 DEF LadderTypeOK
  <2> QED  BY <1>2, <2>1, <2>2, <2>3
<1>5. ASSUME \A t \in Climber : frames[t] = << >>, NEW n \in Counted
      PROVE  refs[n] = Holders(n)
  <2>1. lock[n] = "free"
    <3>1. \A t \in Climber : Len(frames[t]) = 0
      BY <1>5
    <3> QED  BY <1>3, <3>1
  <2> QED  BY <1>1, <1>2, <2>1 DEF Holders, Clients, Users
<1> QED  BY <1>1, <1>4, <1>5 DEF Balanced

LEMMA PrintsWhatIsThere == ASSUME LadderIInv PROVE ReportSafe
<1> SUFFICES ASSUME NEW n \in DOMAIN Prints, n \in DOMAIN held, "report" \in held[n]
             PROVE  Prints[n] \subseteq held[n]
  BY DEF ReportSafe
<1>1. n \in Counted
  BY DEF LadderIInv, LadderTypeOK
<1>2. Based(n, "report", held[n])
  BY <1>1, WhatIsHeld DEF Sound
<1> QED  BY <1>2 DEF Based

\* The thread whose innermost function is of the lowest rank waits for nobody.
LEMMA SomebodyRuns == ASSUME LadderIInv PROVE NoDeadlock
<1> DEFINE Inward == {Rank[Inner(t).of] : t \in {u \in Climber : frames[u] # << >>}}
<1> SUFFICES ASSUME NEW u \in Climber, frames[u] # << >>
             PROVE  \E t \in Climber : frames[t] # << >> /\
                      (Ended(Inner(t)) \/ Callee(Inner(t)) \notin Counted \/ lock[Callee(Inner(t))] = "free")
  BY DEF NoDeadlock
<1>1. LadderTypeOK
  BY DEF LadderIInv
<1>2. \A t \in Climber : frames[t] # << >> => Rank[Inner(t).of] \in Nat
  <2> SUFFICES ASSUME NEW t \in Climber, frames[t] # << >> PROVE Rank[Inner(t).of] \in Nat
    OBVIOUS
  <2>1. Rank[Inner(t).of] \in 0 .. 6
    BY InnerFacts, PlainFacts
  <2> QED  BY <2>1
<1>3. PICK r \in Inward : \A q \in Inward : r <= q
  <2>1. Inward \in SUBSET Nat /\ Inward # {}
    BY <1>2
  <2>2. IsWellFoundedOn(OpToRel(<, Nat), Nat)
    BY NatLessThanWellFounded
  <2> HIDE DEF Inward
  <2>3. PICK r \in Inward : \A q \in Inward : ~(<<q, r>> \in OpToRel(<, Nat))
    BY <2>1, <2>2, WFMin, Zenon
  <2>4. \A q \in Inward : r <= q
    <3>1. TAKE q \in Inward
    <3>2. r \in Nat /\ q \in Nat
      BY <2>1
    <3>3. <<q, r>> \notin OpToRel(<, Nat)
      BY <2>3
    <3>4. ~(q < r)
      BY <3>2, <3>3 DEF OpToRel
    <3> QED  BY <3>2, <3>4
  <2> QED  BY <2>4
<1>4. PICK t \in Climber : frames[t] # << >> /\ r = Rank[Inner(t).of]
  OBVIOUS
<1>5. \A v \in Climber : frames[v] # << >> => Rank[Inner(t).of] <= Rank[Inner(v).of]
  BY <1>3, <1>4
<1> HIDE DEF Inward
<1> DEFINE f == Inner(t)
           w == What(f)
           c == Callee(f)
<1>6. f \in Frame /\ f.of \in Counted /\ Fits(f, Book[f.of])
  BY <1>4, InnerFacts
<1>7. ASSUME ~Ended(f), c \in Counted PROVE lock[c] = "free"
  <2>1. Private(w) \/ Callable(f.of, w)
    <3>1. Book[f.of].users \in Nat
      BY <1>1, <1>6, BookFacts
    <3> QED  BY <1>6, <1>7, <3>1, GoingUp, GoingDown
  <2>2. c = IF w # "abi" THEN w ELSE IF abi # "none" THEN abi ELSE IF fifo THEN "evtchn_fifo" ELSE "evtchn_two_level"
    BY DEF Callee
  <2> HIDE DEF w, c, f
  <2>3. ~Private(w)
    BY <1>7, <2>2, OwnIsNoInterface
  <2>4. Callable(f.of, w)
    BY <2>1, <2>3
  <2>5. Rank[c] < Rank[f.of]
    <3>1. CASE w \in Public
      <4>1. w # "abi"
        BY <3>1, PlainFacts
      <4> QED  BY <1>6, <2>2, <2>4, <3>1, <4>1, CallableIs
    <3>2. CASE w \notin Public
      <4>1. w = "abi" /\ f.of = "evtchn"
        BY <1>6, <2>4, <3>2, CallableIs
      <4>2. c \in Abis
        <5>1. abi \in Abis \cup {"none"}
          BY <1>1 DEF LadderTypeOK
        <5> QED  BY <2>2, <4>1, <5>1 DEF Abis
      <4> QED  BY <4>1, <4>2, PlainFacts
    <3> QED  BY <3>1, <3>2
  <2> SUFFICES ASSUME lock[c] # "free" PROVE FALSE
    OBVIOUS
  <2>6. PICK v \in Climber : \E k \in 1 .. Len(frames[v]) : frames[v][k].of = c
    BY <1>1, <1>7, BookFacts DEF LadderIInv, Consistent
  <2>7. PICK k \in 1 .. Len(frames[v]) : frames[v][k].of = c
    BY <2>6
  <2>8. frames[v] \in Seq(Frame) /\ frames[v] # << >>
    BY <1>1, <2>7 DEF LadderTypeOK
  <2>9. Len(frames[v]) \in Nat \ {0} /\ Inner(v) = frames[v][Len(frames[v])] /\ StackOK(v, frames[v], Book, abi, owned[v])
    BY <2>8, InnerFacts
  <2>10. Rank[Inner(v).of] <= Rank[c]
    <3>1. Rank[c] \in Nat
      BY <2>7, <2>8, StackFrames
    <3>2. CASE k = Len(frames[v])
      BY <2>7, <2>9, <3>1, <3>2
    <3>3. CASE k # Len(frames[v])
      <4>1. k \in 1 .. Len(frames[v]) /\ Len(frames[v]) \in 1 .. Len(frames[v]) /\ k < Len(frames[v])
        BY <2>9, <3>3
      <4>2. Rank[Inner(v).of] < Rank[c]
        BY <2>7, <2>9, <4>1 DEF StackOK
      <4> QED  BY <1>2, <2>8, <3>1, <4>2
    <3> QED  BY <3>2, <3>3
  <2>11. Rank[f.of] <= Rank[Inner(v).of]
    BY <1>5, <2>8 DEF f
  <2>12. Rank[f.of] \in Nat /\ Rank[Inner(v).of] \in Nat /\ Rank[c] \in Nat
    <3>1. Rank[f.of] \in Nat /\ Rank[Inner(v).of] \in Nat
      BY <1>2, <1>4, <2>8 DEF f
    <3>2. Rank[c] \in Nat
      BY <2>7, <2>8, StackFrames
    <3> QED  BY <3>1, <3>2
  <2> QED  BY <2>5, <2>10, <2>11, <2>12
<1> QED  BY <1>4, <1>7

LadderSpec == LadderInit /\ [][LadderNext]_ladderVars

\* The Acquire and the Release of every interface of xenbus (debug.c, suspend.c,
\* range_set.c, cache.c, gnttab.c, shared_info.c, evtchn.c and its ABIs, store.c,
\* console.c, balloon.c, unplug.c): whichever of them any number of threads acquire and
\* release, in any order, and whatever fails on the way, nothing is taken or given back
\* twice, an interface is held whole or not at all with one reference for each holder, a
\* debug callback prints what is there, and no two threads wait for each other's locks.
THEOREM InterfacesBalanced == LadderSpec /\ Top \in (SUBSET Public) \ {{}} => []LadderInv
<1>1. LadderInit /\ Top \in (SUBSET Public) \ {{}} => LadderIInv
  BY LadderStart
<1>2. LadderIInv /\ [LadderNext]_ladderVars => LadderIInv'
  BY LadderStep
<1>3. LadderIInv => LadderInv
  BY IsBalanced, PrintsWhatIsThere, SomebodyRuns DEF LadderInv
<1> QED  BY <1>1, <1>2, <1>3, PTL DEF LadderSpec
=============================================================================
