-------------------------------- MODULE Sync --------------------------------
(***************************************************************************)
(* Suspend and resume of the whole machine: SuspendTrigger (suspend.c)     *)
(* captures every CPU with sync.c (both in src/src/xenbus), has the        *)
(* hypervisor suspend the domain, runs the early callbacks with interrupts *)
(* disabled and the late ones without, and lets the CPUs go.               *)
(*                                                                         *)
(* The CPU that called SuspendTrigger is SyncOwner and steps through opc;  *)
(* each other CPU runs the DPC SyncWorker and steps through wpc.  They     *)
(* talk through two words, Request and CompletionCount.                    *)
(***************************************************************************)
EXTENDS Integers, FiniteSets

CONSTANTS
  Cpu,         \* the processors
  Cpu0,        \* the one that runs the registered callbacks
  None,        \* no processor
  MaxSuspend   \* bound on the calls of SuspendTrigger

ASSUME SyncAssumption ==
  /\ IsFiniteSet(Cpu) /\ Cpu0 \in Cpu /\ None \notin Cpu
  /\ MaxSuspend \in Nat

ProcessorCount == Cardinality(Cpu)

VARIABLES
  SyncOwner, Request, CompletionCount,   \* sync.c
  opc, phase,     \* the owner: program point, and the request at hand
  wpc, seen,      \* workers: program point, and their local Request
  irql,           \* of each CPU; at "high" it takes no interrupt
  status,         \* of the SCHEDOP_shutdown hypercall
  early, late,    \* CPUs that ran the callback in this suspend
  editing,        \* CPUs inside the locked part of SuspendRegister
  Count, old,     \* Context->Count, and its value before an increment
  suspends,       \* suspends that were not cancelled
  timely          \* of the machine: a worker that was counted is back in its
                  \* loop before the owner starts on the next request

ctx    == <<SyncOwner, Request, CompletionCount>>
owners == <<opc, phase, status>>
worker == <<wpc, seen>>
ran    == <<early, late>>
counts == <<Count, old, suspends, timely>>
vars   == <<ctx, owners, worker, irql, ran, editing, counts>>

-----------------------------------------------------------------------------
(* The owner.                                                              *)

\* SyncCapture: a DPC for each other CPU, then one increment of its own.
SyncCapture(c) ==
  /\ opc = "idle" /\ suspends < MaxSuspend
  /\ c \notin editing
  /\ SyncOwner' = c
  /\ CompletionCount' = 1
  /\ opc'  = "capture"
  /\ wpc'  = [w \in Cpu |-> IF w = c THEN "none" ELSE "queued"]
  /\ irql' = [irql EXCEPT ![c] = "dispatch"]
  /\ early' = {} /\ late' = {}
  /\ UNCHANGED <<Request, phase, status, seen, editing, counts>>

\* __SyncWait of SyncCapture, and the request of SyncDisableInterrupts.
SyncDisableInterrupts ==
  /\ opc = "capture" /\ CompletionCount = ProcessorCount
  /\ CompletionCount' = 0
  /\ Request' = "DISABLE"
  /\ opc' = "raise"
  /\ UNCHANGED <<SyncOwner, phase, status, worker, irql, ran, editing, counts>>

\* __SyncProcessorDisableInterrupts, on the owner or on a worker: raise to
\* HIGH_LEVEL and count ...
Raise(c) ==
  /\ irql' = [irql EXCEPT ![c] = "high"]
  /\ CompletionCount' = CompletionCount + 1

\* Mutant: the back-off does not take the count back.
BackOffKeepsCount(c) ==
  /\ irql' = [irql EXCEPT ![c] = "dispatch"]
  /\ UNCHANGED CompletionCount

\* ... and, when some CPU does not show up, take the count back (by
\* compare-and-swap, so never once it is complete) and drop to DISPATCH_LEVEL.
BackOff(c) ==
  /\ irql' = [irql EXCEPT ![c] = "dispatch"]
  /\ CompletionCount' = CompletionCount - 1

OwnerRaise ==
  /\ opc = "raise"
  /\ Raise(SyncOwner)
  /\ opc' = "spin"
  /\ UNCHANGED <<SyncOwner, Request, phase, status, worker, ran, editing, counts>>

OwnerSpin ==
  /\ opc = "spin"
  /\ IF CompletionCount = ProcessorCount
     THEN opc' = "shutdown" /\ UNCHANGED <<CompletionCount, irql>>
     ELSE opc' = "raise" /\ BackOff(SyncOwner)
  /\ UNCHANGED <<SyncOwner, Request, phase, status, worker, ran, editing, counts>>

\* SchedShutdown(SHUTDOWN_suspend) returns once the domain is resumed, or the
\* suspend was cancelled (or the hypercall failed).
SchedShutdown ==
  /\ opc = "shutdown"
  /\ \E s \in {"ok", "cancelled"} :
       /\ status'   = s
       /\ phase'    = IF s = "ok" THEN "EARLY" ELSE "ENABLE"
       /\ suspends' = IF s = "ok" THEN suspends + 1 ELSE suspends
  /\ opc' = "reset"
  /\ UNCHANGED <<ctx, worker, irql, ran, editing, Count, old, timely>>

\* SyncRunEarly, SyncEnableInterrupts, SyncRunLate and SyncRelease share one
\* shape.  The count is reset ...
PhaseReset ==
  /\ opc = "reset"
  /\ timely => \A w \in Cpu : wpc[w] \notin {"spin", "reread"}
  /\ CompletionCount' = 0
  /\ opc' = "run"
  /\ UNCHANGED <<SyncOwner, Request, phase, status, worker, irql, ran, editing, counts>>

\* SuspendEarly counts the suspend on every CPU; SuspendLate changes nothing
\* of its own.
SuspendEarly(c) == early' = early \cup {c}
SuspendLate(c)  == late' = late \cup {c}

\* ... the owner does its own part and counts itself ...
PhaseRun ==
  /\ opc = "run"
  /\ CompletionCount' = CompletionCount + 1
  /\ opc' = "post"
  /\ IF phase = "EARLY" THEN SuspendEarly(SyncOwner) /\ Count' = Count + 1
                        ELSE UNCHANGED <<early, Count>>
  /\ IF phase = "LATE" THEN SuspendLate(SyncOwner) ELSE UNCHANGED late
  /\ irql' = IF phase = "ENABLE" THEN [irql EXCEPT ![SyncOwner] = "dispatch"] ELSE irql
  /\ UNCHANGED <<SyncOwner, Request, phase, status, worker, editing, old, suspends, timely>>

\* ... then posts the request ...
PhasePost ==
  /\ opc = "post"
  /\ Request' = phase
  /\ opc' = "wait"
  /\ UNCHANGED <<SyncOwner, CompletionCount, phase, status, worker, irql, ran,
                 editing, counts>>

\* Mutant: the late callbacks are run after a cancelled suspend too.
NextPhaseAlwaysLate ==
  CASE phase = "EARLY"  -> "ENABLE"
    [] phase = "ENABLE" -> "LATE"
    [] OTHER            -> "EXIT"

NextPhase ==
  CASE phase = "EARLY"  -> "ENABLE"
    [] phase = "ENABLE" -> IF status = "ok" THEN "LATE" ELSE "EXIT"
    [] OTHER            -> "EXIT"

\* ... and waits (__SyncWait).
PhaseWait ==
  /\ opc = "wait" /\ phase # "EXIT"
  /\ CompletionCount = ProcessorCount
  /\ phase' = NextPhase
  /\ opc'   = "reset"
  /\ UNCHANGED <<ctx, status, worker, irql, ran, editing, counts>>

\* Mutant: SyncRelease does not wait for the workers.
SyncReleaseEager ==
  /\ opc = "wait" /\ phase = "EXIT"
  /\ CompletionCount' = 0 /\ Request' = "NONE" /\ SyncOwner' = None
  /\ irql' = [irql EXCEPT ![SyncOwner] = "passive"]
  /\ opc'  = "idle"
  /\ UNCHANGED <<phase, status, worker, ran, editing, counts>>

\* The end of SyncRelease and SuspendTrigger.
SyncRelease ==
  /\ opc = "wait" /\ phase = "EXIT"
  /\ CompletionCount = ProcessorCount
  /\ CompletionCount' = 0 /\ Request' = "NONE" /\ SyncOwner' = None
  /\ irql' = [irql EXCEPT ![SyncOwner] = "passive"]
  /\ opc'  = "idle"
  /\ UNCHANGED <<phase, status, worker, ran, editing, counts>>

Owner ==
  \/ SyncDisableInterrupts \/ OwnerRaise \/ OwnerSpin \/ SchedShutdown
  \/ PhaseReset \/ PhaseRun \/ PhasePost \/ PhaseWait \/ SyncRelease

-----------------------------------------------------------------------------
(* SyncWorker on CPU w.                                                    *)

Goto(w, l) == wpc' = [wpc EXCEPT ![w] = l]

\* The DPC preempts whatever runs below DISPATCH_LEVEL.
WorkerStart(w) ==
  /\ wpc[w] = "queued" /\ w \notin editing
  /\ Goto(w, "loop")
  /\ seen' = [seen EXCEPT ![w] = "NONE"]
  /\ irql' = [irql EXCEPT ![w] = "dispatch"]
  /\ CompletionCount' = CompletionCount + 1
  /\ UNCHANGED <<SyncOwner, Request, owners, ran, editing, counts>>

\* A request that differs from the last one seen is carried out.
Asked(w, r) == wpc[w] = "loop" /\ Request = r /\ seen[w] # r

WorkerRaise(w) ==
  /\ Asked(w, "DISABLE")
  /\ Raise(w)
  /\ Goto(w, "spin")
  /\ UNCHANGED <<SyncOwner, Request, owners, seen, ran, editing, counts>>

WorkerSpin(w) ==
  /\ wpc[w] = "spin"
  /\ IF CompletionCount = ProcessorCount
     THEN Goto(w, "reread") /\ UNCHANGED <<CompletionCount, irql>>
     ELSE Goto(w, "loop") /\ BackOff(w)
  /\ UNCHANGED <<SyncOwner, Request, owners, seen, ran, editing, counts>>

\* __SyncProcessorRunEarly: the callback's increment of Context->Count is a
\* read and a write.
WorkerEarly(w) ==
  /\ Asked(w, "EARLY")
  /\ Goto(w, "early")
  /\ old' = [old EXCEPT ![w] = Count]
  /\ UNCHANGED <<ctx, owners, seen, irql, ran, editing, Count, suspends, timely>>

WorkerEarlyDone(w) ==
  /\ wpc[w] = "early"
  /\ Goto(w, "reread")
  /\ SuspendEarly(w)
  /\ Count' = old[w] + 1
  /\ old' = [old EXCEPT ![w] = 0]
  /\ CompletionCount' = CompletionCount + 1
  /\ UNCHANGED <<SyncOwner, Request, owners, seen, irql, late, editing, suspends, timely>>

WorkerEnable(w) ==
  /\ Asked(w, "ENABLE")
  /\ irql' = [irql EXCEPT ![w] = "dispatch"]
  /\ CompletionCount' = CompletionCount + 1
  /\ Goto(w, "reread")
  /\ UNCHANGED <<SyncOwner, Request, owners, seen, ran, editing, counts>>

WorkerLate(w) ==
  /\ Asked(w, "LATE")
  /\ Goto(w, "late")
  /\ UNCHANGED <<ctx, owners, seen, irql, ran, editing, counts>>

WorkerLateDone(w) ==
  /\ wpc[w] = "late"
  /\ Goto(w, "reread")
  /\ SuspendLate(w)
  /\ CompletionCount' = CompletionCount + 1
  /\ UNCHANGED <<SyncOwner, Request, owners, seen, irql, early, editing, counts>>

\* Mutant: the local Request is never brought up to date.
WorkerRereadForgets(w) ==
  /\ wpc[w] = "reread"
  /\ Goto(w, "loop")
  /\ UNCHANGED <<ctx, owners, seen, irql, ran, editing, counts>>

\* "Request = Context->Request" reads the shared word once more, after the
\* worker was counted.
WorkerReread(w) ==
  /\ wpc[w] = "reread"
  /\ seen' = [seen EXCEPT ![w] = Request]
  /\ Goto(w, "loop")
  /\ UNCHANGED <<ctx, owners, irql, ran, editing, counts>>

WorkerExit(w) ==
  /\ wpc[w] = "loop" /\ Request = "EXIT"
  /\ Goto(w, "none")
  /\ irql' = [irql EXCEPT ![w] = "passive"]
  /\ CompletionCount' = CompletionCount + 1
  /\ UNCHANGED <<SyncOwner, Request, owners, seen, ran, editing, counts>>

SyncWorker(w) ==
  \/ WorkerStart(w) \/ WorkerRaise(w) \/ WorkerSpin(w)
  \/ WorkerEarly(w) \/ WorkerEarlyDone(w) \/ WorkerEnable(w)
  \/ WorkerLate(w) \/ WorkerLateDone(w) \/ WorkerReread(w) \/ WorkerExit(w)

-----------------------------------------------------------------------------
(* SuspendRegister or SuspendDeregister on a CPU: the callback lists are   *)
(* changed under Context->Lock, at DISPATCH_LEVEL.                         *)

SuspendRegister(c) ==
  /\ editing = {} /\ irql[c] = "passive"
  /\ editing' = {c}
  /\ UNCHANGED <<ctx, owners, worker, irql, ran, counts>>

SuspendRegistered(c) ==
  /\ c \in editing
  /\ editing' = {}
  /\ UNCHANGED <<ctx, owners, worker, irql, ran, counts>>

Init ==
  /\ SyncOwner = None /\ Request = "NONE" /\ CompletionCount = 0
  /\ opc = "idle" /\ phase = "EXIT" /\ status = "cancelled"
  /\ wpc  = [c \in Cpu |-> "none"]
  /\ seen = [c \in Cpu |-> "NONE"]
  /\ irql = [c \in Cpu |-> "passive"]
  /\ early = {} /\ late = {} /\ editing = {}
  /\ Count = 0 /\ old = [c \in Cpu |-> 0] /\ suspends = 0
  /\ timely \in BOOLEAN

Next ==
  \/ Owner
  \/ \E c \in Cpu : \/ SyncCapture(c) \/ SyncWorker(c)
                    \/ SuspendRegister(c) \/ SuspendRegistered(c)

Spec == Init /\ [][Next]_vars

\* Every CPU keeps running.
FairSpec ==
  /\ Spec
  /\ WF_vars(Owner)
  /\ \A c \in Cpu : WF_vars(SyncWorker(c)) /\ WF_vars(SuspendRegistered(c))
-----------------------------------------------------------------------------

\* Type invariant; also, a capture in progress has an owner (ASSERT(SyncOwner >= 0)).
TypeOK ==
  /\ SyncOwner \in Cpu \cup {None}
  /\ Request \in {"NONE", "DISABLE", "EARLY", "ENABLE", "LATE", "EXIT"}
  /\ CompletionCount \in Int
  /\ opc \in {"idle", "capture", "raise", "spin", "shutdown", "reset", "run", "post", "wait"}
  /\ opc # "idle" => SyncOwner \in Cpu
  /\ phase \in {"EARLY", "ENABLE", "LATE", "EXIT"}
  /\ status \in {"ok", "cancelled"}
  /\ wpc \in [Cpu -> {"none", "queued", "loop", "spin", "early", "late", "reread"}]
  /\ seen \in [Cpu -> {"NONE", "DISABLE", "EARLY", "ENABLE", "LATE", "EXIT"}]
  /\ irql \in [Cpu -> {"passive", "dispatch", "high"}]
  /\ early \subseteq Cpu /\ late \subseteq Cpu /\ editing \subseteq Cpu
  /\ Count \in Nat /\ old \in [Cpu -> Nat] /\ suspends \in Nat

\* The hypervisor is asked to suspend the domain only while every CPU sits at
\* HIGH_LEVEL in sync.c, whatever the back-offs before that.
Quiesced == opc = "shutdown" => \A c \in Cpu : irql[c] = "high"

InEarly(c) == wpc[c] = "early" \/ (c = SyncOwner /\ opc = "run" /\ phase = "EARLY")
InLate(c)  == wpc[c] = "late" \/ (c = SyncOwner /\ opc = "run" /\ phase = "LATE")

\* "No lock is required here as the VM is single-threaded with interrupts
\* disabled" (suspend.c:196): while CPU 0 runs the early callbacks no CPU can
\* take an interrupt.
SingleThreaded == InEarly(Cpu0) => \A c \in Cpu : irql[c] = "high"

\* The callback lists are walked without their lock: neither the early nor the
\* late callbacks run while a CPU is changing the lists or is still to be
\* captured, and on a timely machine the early ones run single-threaded.
CallbackAlone ==
  /\ timely => SingleThreaded
  /\ InEarly(Cpu0) \/ InLate(Cpu0) =>
       /\ editing = {}
       /\ \A c \in Cpu \ {SyncOwner} : wpc[c] \notin {"none", "queued"}

\* A suspend runs both callbacks on every CPU, a cancelled one on none, and all
\* CPUs are let go at DISPATCH_LEVEL (assertion at the end of SyncWorker).
OncePerSuspend ==
  /\ opc = "idle" =>
       /\ early = (IF status = "ok" THEN Cpu ELSE {})
       /\ late  = (IF status = "ok" THEN Cpu ELSE {})
  /\ \A w \in Cpu : wpc[w] = "loop" /\ Request = "EXIT" => irql[w] = "dispatch"

\* The DPC array is freed, and the shared context cleared, only after the last
\* worker has left (SyncRelease "spins until all DPCs have completed").
ReleasedAll == opc = "idle" => \A w \in Cpu : wpc[w] = "none"

\* Who may have been counted in CompletionCount, step by step.  Joined: CPUs
\* captured.  High: CPUs at HIGH_LEVEL.  Back: workers that have not completed
\* the disable step.  Settled: CPUs that will do nothing more for the current
\* request (some of them because they took it for done).  Gone: workers that
\* have left.
Joined  == {c \in Cpu : c = SyncOwner \/ wpc[c] = "loop"}
High    == {c \in Cpu : irql[c] = "high"}
Back    == {c \in Cpu : wpc[c] = "loop" /\ seen[c] # "DISABLE"}
Settled == {c \in Cpu : \/ c = SyncOwner \/ wpc[c] = "reread"
                        \/ wpc[c] = "loop" /\ seen[c] = Request}
Gone    == {c \in Cpu : c = SyncOwner \/ wpc[c] = "none"}
WorkersIn(S) == \A w \in Cpu : w # SyncOwner => wpc[w] \in S

OwnerInv ==
  /\ opc = "idle" => Request = "NONE" /\ \A w \in Cpu : wpc[w] = "none"
  /\ opc # "idle" => wpc[SyncOwner] = "none"

CaptureInv ==
  opc = "capture" =>
    /\ Request = "NONE"
    /\ WorkersIn({"queued", "loop"})
    /\ \A c \in Joined : irql[c] # "high"
    /\ \A w \in Cpu : wpc[w] = "loop" => seen[w] = "NONE"
    /\ CompletionCount = Cardinality(Joined)

DisableInv ==
  opc \in {"raise", "spin", "shutdown"} \/ (opc = "reset" /\ Request = "DISABLE") =>
    /\ Request = "DISABLE"
    /\ WorkersIn({"loop", "spin", "reread"})
    /\ irql[SyncOwner] = "high" <=> opc # "raise"
    /\ \A w \in Cpu :
         /\ wpc[w] = "spin" => irql[w] = "high" /\ seen[w] # "DISABLE"
         /\ w \in Back => irql[w] # "high"
         /\ wpc[w] = "reread" \/ (wpc[w] = "loop" /\ w \notin Back) =>
              irql[w] = "high" /\ CompletionCount = ProcessorCount
    /\ CompletionCount = Cardinality(High)
    /\ opc \in {"shutdown", "reset"} => CompletionCount = ProcessorCount
    /\ opc = "reset" => phase # "EXIT"

\* Counted so far by the owner itself.
Own == IF opc = "post" THEN 1 ELSE 0

DrainInv ==
  opc \in {"run", "post"} /\ Request = "DISABLE" =>
    /\ phase # "EXIT"
    /\ WorkersIn({"loop", "spin", "reread"})
    /\ CompletionCount + Cardinality(Back) <= Own

SettledInv ==
  opc \in {"reset", "run", "post"} /\ Request # "DISABLE" =>
    /\ Request \in {"EARLY", "ENABLE", "LATE"}
    /\ Settled = Cpu
    /\ opc # "reset" => CompletionCount <= Own

WaitInv ==
  opc = "wait" =>
    /\ Request = phase
    /\ IF phase = "EXIT"
       THEN WorkersIn({"loop", "reread", "none"}) /\ CompletionCount <= Cardinality(Gone)
       ELSE /\ WorkersIn({"loop", "spin", "early", "late", "reread"})
            /\ CompletionCount <= Cardinality(Settled)

\* Why Quiesced and ReleasedAll hold: no CPU is ever counted for a request it
\* has still to carry out, although the counter is shared by all the requests
\* and workers lag behind.
RendezvousInv ==
  /\ OwnerInv /\ CaptureInv /\ DisableInv /\ DrainInv /\ SettledInv /\ WaitInv

\* The protocol of a suspend: who is counted when, who is alone with the
\* callback lists, and on which CPUs the callbacks have run in the end.
SuspendInv == TypeOK /\ RendezvousInv /\ CallbackAlone /\ OncePerSuspend

\* SyncRelease "spins until all DPCs have completed and then returns": once the
\* hypervisor has returned, a timely machine comes back.
Resumes == opc = "shutdown" /\ timely ~> opc = "idle"
=============================================================================
