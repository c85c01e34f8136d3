------------------------------- MODULE Evtchn -------------------------------
(***************************************************************************)
(* Event channels of xenbus.sys (src/src/xenbus/evtchn.c): the life of a   *)
(* channel object between the interrupt upcall, the per-CPU DPC, the       *)
(* threads of the clients that own the handles, and the hypervisor.        *)
(*                                                                         *)
(* A channel object and the local port it is bound to are one element of   *)
(* Channel.  A port is given back to the hypervisor only by EvtchnReap, so *)
(* no two objects hold a port at once.                                     *)
(*                                                                         *)
(* Locks are not variables: the interrupt lock of CPU p is held exactly    *)
(* while poll[p] # "idle", Context->Lock exactly while some DPC is past    *)
(* its lock acquisition.  A section that one thread runs under a lock      *)
(* without touching anything that is read outside the lock is one action.  *)
(*                                                                         *)
(* The two ABIs (evtchn_fifo.c, evtchn_2l.c) are seen here only through    *)
(* what a poll of a CPU visits; EvtchnFifo and EvtchnTwoLevel model them.  *)
(***************************************************************************)
EXTENDS Naturals, FiniteSets

CONSTANTS
  Channel,       \* channel objects, each with its local port
  Cpu,           \* processors with the per-CPU upcall enabled
  Cpu0,          \* the processor a new channel is bound to
  Thread,        \* client threads
  AutoMask,      \* channels whose client opens them with Mask = TRUE
  VirqCpus,      \* processors on which a client opens a VIRQ channel
  TwoLevel,      \* TRUE: two-level ABI, a poll visits whole selector words
  BindTo,        \* processors to which clients re-bind their channels
  ClientTrigger, \* TRUE: clients call EvtchnTrigger (no client in this tree does)
  MaxSuspend,    \* bound on suspend/resume cycles
  QuietRelease,  \* TRUE: no upcall is running when the last reference is dropped
  None           \* no channel

ASSUME EvtchnAssumption ==
  /\ Cpu0 \in Cpu
  /\ AutoMask \subseteq Channel
  /\ VirqCpus \subseteq Cpu
  /\ TwoLevel \in BOOLEAN
  /\ BindTo \subseteq Cpu
  /\ ClientTrigger \in BOOLEAN
  /\ MaxSuspend \in Nat
  /\ QuietRelease \in BOOLEAN
  /\ None \notin Channel

VARIABLES
  alloc,     \* channel objects allocated (Magic is valid)
  active,    \* Channel->Active
  closed,    \* Channel->Closed
  pending,   \* Channel->Pending
  cpu,       \* Channel->Cpu
  table,     \* Context->Table: ports that have a hash table entry
  queue,     \* Processor->PendingList of each CPU
  dpc,       \* CPUs whose Processor->Dpc is queued
  refs,      \* Context->References is not zero
  suspends,  \* suspend/resume cycles so far
  bound, raised, masked, vcpu, sel, upcall,   \* hypervisor and shared pages
  poll, todo, cur, work,                      \* EvtchnPoll of each CPU
  dpcpc, reap,                                \* EvtchnDpc of each CPU
  pc, handle, trigcpu                         \* client threads

objects  == <<alloc, active, closed, pending, cpu, table, queue, dpc>>
hyper    == <<bound, raised, masked, vcpu, sel, upcall>>
polls    == <<poll, todo, cur, work>>
dpcs     == <<dpcpc, reap>>
threads  == <<pc, handle, trigcpu>>
globals  == <<refs, suspends>>
vars     == <<objects, hyper, polls, dpcs, threads, globals>>

-----------------------------------------------------------------------------
(* The hypervisor's side, as the driver uses it.                           *)

\* evtchn set-pending in Xen: an unmasked port is entered in the queue (FIFO)
\* or selector (two-level) of its vCPU and the upcall is raised.  Two-level
\* does nothing for a port that is already pending.
HvNotify(c, R, M) ==
  /\ raised' = R
  /\ masked' = M
  /\ IF c \in R /\ c \notin M
     THEN /\ sel' = [sel EXCEPT ![vcpu[c]] = @ \cup {c}]
          /\ upcall' = upcall \cup {vcpu[c]}
     ELSE UNCHANGED <<sel, upcall>>

\* A remote domain (or a virtual interrupt) raises the port.
HvSend(c) ==
  /\ c \in bound
  /\ IF TwoLevel /\ c \in raised
     THEN UNCHANGED hyper
     ELSE HvNotify(c, raised \cup {c}, masked) /\ UNCHANGED <<bound, vcpu>>
  /\ UNCHANGED <<objects, polls, dpcs, threads, globals>>

\* EVTCHNOP_unmask: clear the mask and re-raise what is pending.
EventChannelUnmask(c) == HvNotify(c, raised, masked \ {c})

-----------------------------------------------------------------------------
(* Client threads.  A client runs one operation at a time on a channel and *)
(* closes it once: it does not use a handle after EvtchnClose.             *)

InterruptLockFree(p) == poll[p] = "idle"
ContextLockFree      == \A p \in Cpu : dpcpc[p] \in {"idle", "spin"}

Usable(t, c) ==
  /\ pc[t] = "idle"
  /\ c \in alloc /\ c \notin closed
  /\ \A u \in Thread : pc[u] # "idle" => handle[u] # c

Goto(t, l)     == pc' = [pc EXCEPT ![t] = l]
Begin(t, c, l) == Goto(t, l) /\ handle' = [handle EXCEPT ![t] = c]
Finish(t)      == /\ Begin(t, None, "idle")
                  /\ trigcpu' = [trigcpu EXCEPT ![t] = Cpu0]

\* The vCPU whose interrupt a new port raises: vCPU 0 for a fixed, unbound or
\* inter-domain port, the one the client names for a virtual interrupt.
EvtchnOpenVirq(v) == v \in {Cpu0} \cup VirqCpus

\* EvtchnOpen.  The port is masked (MaskAll, PortDisable, or a fresh event
\* page), so the object is not seen by a poll before it is complete.  Channel->Cpu
\* is zero whatever vCPU the hypervisor bound the port to.  An open that fails
\* (no memory, no port, no event page) undoes itself and changes nothing.
EvtchnOpen(t, c, v) ==
  /\ refs
  /\ pc[t] = "idle"
  /\ c \notin alloc
  /\ EvtchnOpenVirq(v)
  /\ ContextLockFree
  /\ alloc'   = alloc \cup {c}
  /\ active'  = active \cup {c}
  /\ closed'  = closed \ {c}
  /\ pending' = pending \ {c}
  /\ cpu'     = [cpu EXCEPT ![c] = Cpu0]
  /\ table'   = table \cup {c}
  /\ bound'   = bound \cup {c}
  /\ masked'  = masked \cup {c}
  /\ vcpu'    = [vcpu EXCEPT ![c] = v]
  /\ UNCHANGED <<queue, dpc, raised, sel, upcall, polls, dpcs, threads, globals>>

\* EvtchnBind: the hypercall and the assignment of Channel->Cpu are two
\* stores that a poll of another CPU can see apart.
EvtchnBind(t, c, p) ==
  /\ Usable(t, c)
  /\ p \in BindTo
  /\ c \in active /\ cpu[c] # p
  /\ vcpu' = [vcpu EXCEPT ![c] = p]
  /\ Begin(t, c, "bind")
  /\ trigcpu' = [trigcpu EXCEPT ![t] = p]
  /\ UNCHANGED <<objects, bound, raised, masked, sel, upcall, polls, dpcs, globals>>

EvtchnBindStore(t) ==
  /\ pc[t] = "bind"
  /\ cpu' = [cpu EXCEPT ![handle[t]] = trigcpu[t]]
  /\ Finish(t)
  /\ UNCHANGED <<alloc, active, closed, pending, table, queue, dpc, hyper,
                 polls, dpcs, globals>>

\* EvtchnUnmask outside the upcall: PortUnmask clears the mask first ...
EvtchnUnmask(t, c) ==
  /\ Usable(t, c)
  /\ c \in active
  /\ masked' = masked \ {c}
  /\ Begin(t, c, "unmask")
  /\ UNCHANGED <<objects, bound, raised, vcpu, sel, upcall, polls, dpcs, trigcpu, globals>>

\* Mutant: the pending bit is not tested, as if no event could have come in
\* while the port was masked.
EvtchnUnmaskTestBlind(t) ==
  /\ pc[t] = "unmask"
  /\ Finish(t)
  /\ UNCHANGED <<objects, hyper, polls, dpcs, globals>>

\* ... then tests for a pending event.  With one, the port is masked again
\* and unmasked by hypercall (Force, or a client on another CPU), or else
\* the event is acknowledged and reported to the caller, who handles it.
EvtchnUnmaskTest(t) ==
  LET c == handle[t] IN
  /\ pc[t] = "unmask"
  /\ Finish(t)
  /\ \/ /\ c \notin raised
        /\ UNCHANGED <<raised, masked, sel, upcall>>
     \/ /\ c \in raised
        /\ EventChannelUnmask(c)
     \/ /\ c \in raised
        /\ raised' = raised \ {c}
        /\ masked' = IF c \in AutoMask THEN masked \cup {c} ELSE masked
        /\ UNCHANGED <<sel, upcall>>
  /\ UNCHANGED <<objects, bound, vcpu, polls, dpcs, globals>>

\* EvtchnTrigger, called by a client or at the end of EvtchnClose:
\* Channel->Cpu is read under Channel->Lock ...
EvtchnTrigger(t, c) ==
  /\ \/ ClientTrigger /\ Usable(t, c)
     \/ pc[t] = "trigger" /\ handle[t] = c
  /\ Begin(t, c, "queue")
  /\ trigcpu' = [trigcpu EXCEPT ![t] = cpu[c]]
  /\ UNCHANGED <<objects, hyper, polls, dpcs, globals>>

\* Mutant: Channel->Pending is set without testing it.
EvtchnTriggerQueueAlways(t) ==
  LET c == handle[t]
      p == trigcpu[t] IN
  /\ pc[t] = "queue"
  /\ InterruptLockFree(p)
  /\ Finish(t)
  /\ pending' = pending \cup {c}
  /\ queue'   = [queue EXCEPT ![p] = @ \cup {c}]
  /\ dpc'     = dpc \cup {p}
  /\ UNCHANGED <<alloc, active, closed, cpu, table, hyper, polls, dpcs, globals>>

\* ... and the channel is queued later, under that CPU's interrupt lock.  The
\* DPC is inserted only by the thread that queued the channel.
EvtchnTriggerQueue(t) ==
  LET c == handle[t]
      p == trigcpu[t] IN
  /\ pc[t] = "queue"
  /\ InterruptLockFree(p)
  /\ Finish(t)
  /\ IF c \in pending
     THEN UNCHANGED <<pending, queue, dpc>>
     ELSE /\ pending' = pending \cup {c}
          /\ queue'   = [queue EXCEPT ![p] = @ \cup {c}]
          /\ dpc'     = dpc \cup {p}
  /\ UNCHANGED <<alloc, active, closed, cpu, table, hyper, polls, dpcs, globals>>

\* EvtchnClose of an active channel: disable the port and drop the hash table
\* entry; mark the object closed; hand it to the DPC through EvtchnTrigger.
EvtchnClose(t, c) ==
  /\ Usable(t, c)
  /\ c \in active
  /\ active' = active \ {c}
  /\ masked' = masked \cup {c}
  /\ Begin(t, c, "remove")
  /\ UNCHANGED <<alloc, closed, pending, cpu, table, queue, dpc, bound, raised,
                 vcpu, sel, upcall, polls, dpcs, trigcpu, globals>>

EvtchnCloseRemove(t) ==
  /\ pc[t] = "remove"
  /\ table' = table \ {handle[t]}
  /\ Goto(t, "mark")
  /\ UNCHANGED <<alloc, active, closed, pending, cpu, queue, dpc, hyper,
                 polls, dpcs, handle, trigcpu, globals>>

EvtchnCloseMark(t) ==
  /\ pc[t] = "mark"
  /\ closed' = closed \cup {handle[t]}
  /\ Goto(t, "trigger")
  /\ UNCHANGED <<alloc, active, pending, cpu, table, queue, dpc, hyper,
                 polls, dpcs, handle, trigcpu, globals>>

\* Mutant: the object's CPU is left invalid rather than zeroed.
EvtchnReapNoCpu(c, Close) ==
  /\ alloc'  = alloc \ {c}
  /\ closed' = closed \ {c}
  /\ cpu'    = [cpu EXCEPT ![c] = None]
  /\ bound'  = IF Close THEN bound \ {c} ELSE bound
  /\ raised' = IF Close THEN raised \ {c} ELSE raised

\* EvtchnReap: the object is freed; Close gives the port back as well.
EvtchnReap(c, Close) ==
  /\ alloc'  = alloc \ {c}
  /\ closed' = closed \ {c}
  /\ cpu'    = [cpu EXCEPT ![c] = Cpu0]
  /\ bound'  = IF Close THEN bound \ {c} ELSE bound
  /\ raised' = IF Close THEN raised \ {c} ELSE raised

\* Mutant: EvtchnClose reaps at once without looking at Channel->Active.
EvtchnCloseAtOnce(t, c) ==
  /\ Usable(t, c)
  /\ ContextLockFree
  /\ EvtchnReap(c, FALSE)
  /\ UNCHANGED <<active, pending, table, queue, dpc, masked, vcpu, sel, upcall,
                 polls, dpcs, threads, globals>>

\* EvtchnClose of a channel that a suspend made inactive: reaped at once.
EvtchnCloseInactive(t, c) ==
  /\ Usable(t, c)
  /\ c \notin active
  /\ ContextLockFree
  /\ EvtchnReap(c, FALSE)
  /\ UNCHANGED <<active, pending, table, queue, dpc, masked, vcpu, sel, upcall,
                 polls, dpcs, threads, globals>>

-----------------------------------------------------------------------------
(* EvtchnPoll of CPU p, run by the upcall (dpcpc[p] # "poll") or by the    *)
(* flush of the DPC, under the CPU's interrupt lock.                       *)

InFlush(p) == dpcpc[p] = "poll"

\* What the ABI's poll of p visits: the ports linked on p's queues, or each
\* pending unmasked port that shares a selector word with one of them.
Visited(p) ==
  IF TwoLevel /\ sel[p] # {} THEN sel[p] \cup (raised \ masked) ELSE sel[p]

BeginPoll(p) ==
  /\ poll' = [poll EXCEPT ![p] = "scan"]
  /\ todo' = [todo EXCEPT ![p] = Visited(p)]
  /\ sel'  = [sel EXCEPT ![p] = {}]

\* EvtchnInterruptCallback, entered with the interrupt lock held.
EvtchnInterruptCallback(p) ==
  /\ refs
  /\ p \in upcall
  /\ InterruptLockFree(p)
  /\ upcall' = upcall \ {p}
  /\ BeginPoll(p)
  /\ UNCHANGED <<objects, bound, raised, masked, vcpu, cur, work, dpcs, threads, globals>>

\* EvtchnPollCallback, first half: the hash table lookup.
PollLookup(p) ==
  /\ poll[p] = "scan"
  /\ \E c \in todo[p] :
       /\ todo' = [todo EXCEPT ![p] = @ \ {c}]
       /\ IF c \in raised /\ c \notin masked /\ c \in table
          THEN /\ cur'  = [cur EXCEPT ![p] = c]
               /\ poll' = [poll EXCEPT ![p] = "check"]
          ELSE UNCHANGED <<cur, poll>>
  /\ UNCHANGED <<objects, hyper, work, dpcs, threads, globals>>

\* EvtchnPollCallback, second half: the object is read and queued.
EvtchnPollCallback(p) ==
  LET c == cur[p] IN
  /\ poll[p] = "check"
  /\ poll' = [poll EXCEPT ![p] = "scan"]
  /\ cur'  = [cur EXCEPT ![p] = None]
  /\ IF cpu[c] = p /\ c \notin pending
     THEN /\ pending' = pending \cup {c}
          /\ queue'   = [queue EXCEPT ![p] = @ \cup {c}]
     ELSE UNCHANGED <<pending, queue>>
  /\ UNCHANGED <<alloc, active, closed, cpu, table, dpc, hyper, todo,
                 work, dpcs, threads, globals>>

PollScanned(p) ==
  /\ poll[p] = "scan" /\ todo[p] = {}
  /\ poll' = [poll EXCEPT ![p] = "loop"]
  /\ work' = [work EXCEPT ![p] = queue[p]]
  /\ UNCHANGED <<objects, hyper, todo, cur, dpcs, threads, globals>>

\* Mutant: the upcall drops a closed channel.
EvtchnPollDropsClosed(p) ==
  /\ poll[p] = "loop"
  /\ \E c \in work[p] :
       /\ work'    = [work EXCEPT ![p] = @ \ {c}]
       /\ queue'   = [queue EXCEPT ![p] = @ \ {c}]
       /\ pending' = pending \ {c}
       /\ cur'     = [cur EXCEPT ![p] = c]
       /\ poll'    = [poll EXCEPT ![p] = "ack"]
  /\ UNCHANGED <<alloc, active, closed, cpu, table, dpc, hyper, todo,
                 dpcs, threads, globals>>

\* One entry of the pending list: an open channel is unlinked and delivered,
\* a closed one moves to the flush's list or, in the upcall, stays queued.
EvtchnPoll(p) ==
  /\ poll[p] = "loop"
  /\ \E c \in work[p] :
       /\ work' = [work EXCEPT ![p] = @ \ {c}]
       /\ IF c \notin closed
          THEN /\ queue'   = [queue EXCEPT ![p] = @ \ {c}]
               /\ pending' = pending \ {c}
               /\ cur'     = [cur EXCEPT ![p] = c]
               /\ poll'    = [poll EXCEPT ![p] = "ack"]
               /\ UNCHANGED reap
          ELSE /\ IF InFlush(p)
                  THEN /\ queue' = [queue EXCEPT ![p] = @ \ {c}]
                       /\ reap'  = [reap EXCEPT ![p] = @ \cup {c}]
                  ELSE UNCHANGED <<queue, reap>>
               /\ UNCHANGED <<pending, cur, poll>>
  /\ UNCHANGED <<alloc, active, closed, cpu, table, dpc, hyper, todo, dpcpc,
                 threads, globals>>

\* Mask if the client asked for it, then acknowledge.
PollAck(p) ==
  LET c == cur[p] IN
  /\ poll[p] = "ack"
  /\ poll'   = [poll EXCEPT ![p] = "callback"]
  /\ masked' = IF c \in AutoMask THEN masked \cup {c} ELSE masked
  /\ raised' = raised \ {c}
  /\ UNCHANGED <<objects, bound, vcpu, sel, upcall, todo, cur, work, dpcs,
                 threads, globals>>

\* Channel->Callback, which may call EvtchnUnmask with InUpcall set.
PollCallback(p) ==
  LET c == cur[p] IN
  /\ poll[p] = "callback"
  /\ poll' = [poll EXCEPT ![p] = "loop"]
  /\ cur'  = [cur EXCEPT ![p] = None]
  /\ \/ UNCHANGED <<raised, masked, sel, upcall>>
     \/ c \in active /\ EventChannelUnmask(c)
  /\ UNCHANGED <<objects, bound, vcpu, todo, work, dpcs, threads, globals>>

\* The upcall polls again while the shared page says so, then unlocks.
PollDone(p) ==
  /\ poll[p] = "loop" /\ work[p] = {}
  /\ IF InFlush(p)
     THEN /\ poll'  = [poll EXCEPT ![p] = "idle"]
          /\ dpcpc' = [dpcpc EXCEPT ![p] = "reap"]
          /\ UNCHANGED <<todo, sel, upcall>>
     ELSE /\ IF p \in upcall
             THEN BeginPoll(p) /\ upcall' = upcall \ {p}
             ELSE poll' = [poll EXCEPT ![p] = "idle"] /\ UNCHANGED <<todo, sel, upcall>>
          /\ UNCHANGED dpcpc
  /\ UNCHANGED <<objects, bound, raised, masked, vcpu, cur, work, reap,
                 threads, globals>>

-----------------------------------------------------------------------------
(* EvtchnDpc of CPU p: dequeued, it spins for Context->Lock, then flushes. *)

DpcStart(p) ==
  /\ p \in dpc /\ dpcpc[p] = "idle"
  /\ dpc'   = dpc \ {p}
  /\ dpcpc' = [dpcpc EXCEPT ![p] = "spin"]
  /\ UNCHANGED <<alloc, active, closed, pending, cpu, table, queue, hyper,
                 polls, reap, threads, globals>>

EvtchnDpc(p) ==
  /\ dpcpc[p] = "spin"
  /\ ContextLockFree
  /\ dpcpc' = [dpcpc EXCEPT ![p] = IF refs THEN "flush" ELSE "idle"]
  /\ UNCHANGED <<objects, hyper, polls, reap, threads, globals>>

EvtchnFlush(p) ==
  /\ dpcpc[p] = "flush"
  /\ InterruptLockFree(p)
  /\ dpcpc' = [dpcpc EXCEPT ![p] = "poll"]
  /\ BeginPoll(p)
  /\ UNCHANGED <<objects, bound, raised, masked, vcpu, upcall, cur, work, reap,
                 threads, globals>>

\* The flush reaps what its poll moved aside, then the DPC drops the lock.
EvtchnFlushReap(p) ==
  /\ dpcpc[p] = "reap"
  /\ \E c \in reap[p] :
       /\ reap'    = [reap EXCEPT ![p] = @ \ {c}]
       /\ pending' = pending \ {c}
       /\ EvtchnReap(c, TRUE)
  /\ UNCHANGED <<active, table, queue, dpc, masked, vcpu, sel, upcall, polls,
                 dpcpc, threads, globals>>

DpcDone(p) ==
  /\ dpcpc[p] = "reap" /\ reap[p] = {}
  /\ dpcpc' = [dpcpc EXCEPT ![p] = "idle"]
  /\ UNCHANGED <<objects, hyper, polls, reap, threads, globals>>

-----------------------------------------------------------------------------
(* Suspend and the life of the interface.                                  *)

\* Every CPU is captured by its sync DPC: no upcall or event DPC is running
\* and no thread holds DISPATCH_LEVEL, but a DPC may be queued, and a thread
\* at PASSIVE_LEVEL may be between the two halves of EvtchnTrigger.
Captured ==
  /\ \A p \in Cpu : poll[p] = "idle" /\ dpcpc[p] = "idle"
  /\ \A t \in Thread : pc[t] = "idle" \/ (pc[t] = "queue" /\ handle[t] \notin closed)

\* Each active channel becomes inactive and loses its hash table entry.
EvtchnSuspendCallbackEarly ==
  /\ active' = {}
  /\ table'  = table \ active

\* Releasing the ABI resets the event channels of the domain.
EvtchnAbiRelease ==
  /\ bound'  = {}
  /\ raised' = {}
  /\ masked' = Channel
  /\ sel'    = [p \in Cpu |-> {}]
  /\ upcall' = {}

\* The ABI is released and acquired again, the interrupts disabled and enabled.
EvtchnSuspendCallbackLate == EvtchnAbiRelease

\* The two callbacks run on the processor that does the suspend, the others
\* being captured, so nothing runs between them.
EvtchnSuspend ==
  /\ refs /\ suspends < MaxSuspend
  /\ Captured
  /\ EvtchnSuspendCallbackEarly
  /\ EvtchnSuspendCallbackLate
  /\ suspends' = suspends + 1
  /\ UNCHANGED <<alloc, closed, pending, cpu, queue, dpc, vcpu, polls, dpcs,
                 threads, refs>>

EvtchnAcquire ==
  /\ ~refs
  /\ ContextLockFree
  /\ refs' = TRUE
  /\ UNCHANGED <<objects, hyper, polls, dpcs, threads, suspends>>

\* Mutant: the CPUs are not flushed before the DPCs are removed.
EvtchnReleaseNoFlush ==
  /\ refs
  /\ ContextLockFree
  /\ QuietRelease => \A p \in Cpu : InterruptLockFree(p)
  /\ \A t \in Thread : pc[t] = "idle"
  /\ alloc \subseteq closed
  /\ queue'  = [p \in Cpu |-> {}]
  /\ dpc'    = {}
  /\ refs'   = FALSE
  /\ EvtchnAbiRelease
  /\ UNCHANGED <<alloc, active, closed, pending, cpu, table, vcpu, polls, dpcs,
                 threads, suspends>>

\* EvtchnRelease of the last reference, after the clients closed what they
\* opened: interrupts off, flush each CPU, remove its DPC, reset the ABI.  With
\* UpcallEnabled already FALSE, EvtchnFlush takes the lock of Context->Interrupt:
\* it does not keep out an upcall that is still running on the CPU it flushes.
EvtchnRelease ==
  /\ refs
  /\ ContextLockFree
  /\ QuietRelease => \A p \in Cpu : InterruptLockFree(p)
  /\ \A t \in Thread : pc[t] = "idle"
  /\ alloc \subseteq closed
  /\ LET gone == UNION {queue[p] : p \in Cpu} IN
       /\ alloc'   = alloc \ gone
       /\ closed'  = closed \ gone
       /\ pending' = pending \ gone
       /\ cpu'     = [c \in Channel |-> IF c \in gone THEN Cpu0 ELSE cpu[c]]
  /\ queue'  = [p \in Cpu |-> {}]
  /\ dpc'    = {}
  /\ refs'   = FALSE
  /\ EvtchnAbiRelease
  /\ UNCHANGED <<active, table, vcpu, polls, dpcs, threads, suspends>>

-----------------------------------------------------------------------------

Init ==
  /\ alloc = {} /\ table = {} /\ dpc = {} /\ refs = FALSE /\ suspends = 0
  /\ active  = {}
  /\ closed  = {}
  /\ pending = {}
  /\ cpu     = [c \in Channel |-> Cpu0]
  /\ queue   = [p \in Cpu |-> {}]
  /\ bound = {} /\ raised = {} /\ masked = Channel /\ upcall = {}
  /\ vcpu    = [c \in Channel |-> Cpu0]
  /\ sel     = [p \in Cpu |-> {}]
  /\ poll    = [p \in Cpu |-> "idle"]
  /\ todo    = [p \in Cpu |-> {}]
  /\ cur     = [p \in Cpu |-> None]
  /\ work    = [p \in Cpu |-> {}]
  /\ dpcpc   = [p \in Cpu |-> "idle"]
  /\ reap    = [p \in Cpu |-> {}]
  /\ pc      = [t \in Thread |-> "idle"]
  /\ handle  = [t \in Thread |-> None]
  /\ trigcpu = [t \in Thread |-> Cpu0]

\* A thread, or a poll, is about to touch a channel object that was freed; a
\* pending list leads to one.  What follows is undefined, so a behaviour ends
\* in the first such state.
TriggerFreed == \E t \in Thread : pc[t] \in {"trigger", "queue"} /\ handle[t] \notin alloc
PollFreed    == \E p \in Cpu : poll[p] \in {"check", "ack", "callback"} /\ cur[p] \notin alloc
ListFreed    == \E p \in Cpu : ~(queue[p] \cup reap[p] \subseteq alloc)
Sound        == ~TriggerFreed /\ ~PollFreed /\ ~ListFreed

PollStep(p) ==
  \/ PollLookup(p) \/ EvtchnPollCallback(p) \/ PollScanned(p)
  \/ EvtchnPoll(p) \/ PollAck(p) \/ PollCallback(p) \/ PollDone(p)

DpcStep(p) ==
  \/ DpcStart(p) \/ EvtchnDpc(p) \/ EvtchnFlush(p)
  \/ EvtchnFlushReap(p) \/ DpcDone(p)

ThreadStep(t) ==
  \/ EvtchnBindStore(t) \/ EvtchnUnmaskTest(t)
  \/ EvtchnCloseRemove(t) \/ EvtchnCloseMark(t)
  \/ pc[t] = "trigger" /\ EvtchnTrigger(t, handle[t])
  \/ EvtchnTriggerQueue(t)

Client(t, c) ==
  \/ \E v \in Cpu : EvtchnOpen(t, c, v)
  \/ \E p \in Cpu : EvtchnBind(t, c, p)
  \/ EvtchnUnmask(t, c)
  \/ pc[t] = "idle" /\ EvtchnTrigger(t, c)
  \/ EvtchnClose(t, c) \/ EvtchnCloseInactive(t, c)

Step ==
  \/ \E c \in Channel : HvSend(c)
  \/ \E t \in Thread : ThreadStep(t)
  \/ \E t \in Thread, c \in Channel : Client(t, c)
  \/ \E p \in Cpu : EvtchnInterruptCallback(p) \/ PollStep(p) \/ DpcStep(p)
  \/ EvtchnSuspend \/ EvtchnAcquire \/ EvtchnRelease

Next == Sound /\ Step

Spec == Init /\ [][Next]_vars

\* The processors keep running: an upcall that is pending is taken once its
\* lock is free, a poll, a DPC and a call in progress go on.
Fairness ==
  /\ \A p \in Cpu : /\ WF_vars(Sound /\ EvtchnInterruptCallback(p))
                     /\ WF_vars(Sound /\ PollStep(p))
                     /\ WF_vars(Sound /\ DpcStep(p))
  /\ \A t \in Thread : WF_vars(Sound /\ ThreadStep(t))

FairSpec == Spec /\ Fairness
-----------------------------------------------------------------------------
(* Properties.                                                             *)

TypeObjects ==
  /\ alloc \subseteq Channel /\ table \subseteq Channel /\ dpc \subseteq Cpu
  /\ active \subseteq Channel
  /\ closed \subseteq Channel
  /\ pending \subseteq Channel
  /\ cpu \in [Channel -> Cpu]
  /\ queue \in [Cpu -> SUBSET Channel]

TypeHyper ==
  /\ bound \subseteq Channel /\ raised \subseteq Channel
  /\ masked \subseteq Channel /\ upcall \subseteq Cpu
  /\ vcpu \in [Channel -> Cpu]
  /\ sel \in [Cpu -> SUBSET Channel]

\* An entry of a list is handled, and Channel->Callback runs, on a channel.
TypePolls ==
  /\ poll \in [Cpu -> {"idle", "scan", "check", "loop", "ack", "callback"}]
  /\ todo \in [Cpu -> SUBSET Channel]
  /\ work \in [Cpu -> SUBSET Channel]
  /\ cur \in [Cpu -> Channel \cup {None}]
  /\ \A p \in Cpu : poll[p] \in {"check", "ack", "callback"} => cur[p] \in Channel

TypeDpcs ==
  /\ dpcpc \in [Cpu -> {"idle", "spin", "flush", "poll", "reap"}]
  /\ reap \in [Cpu -> SUBSET Channel]

\* A call in progress has a handle.
TypeThreads ==
  /\ pc \in [Thread -> {"idle", "bind", "unmask", "trigger", "queue", "remove", "mark"}]
  /\ handle \in [Thread -> Channel \cup {None}]
  /\ \A t \in Thread : pc[t] # "idle" => handle[t] \in Channel
  /\ trigcpu \in [Thread -> Cpu]

\* Types of the state, and the object each program point works on.
TypeOK ==
  /\ TypeObjects /\ TypeHyper /\ TypePolls /\ TypeDpcs /\ TypeThreads
  /\ refs \in BOOLEAN /\ suspends \in Nat

\* A channel is on a list exactly while Channel->Pending is set, and on one
\* list only: what the interlocked test-and-set of EvtchnPollCallback and
\* EvtchnTrigger is for, and the assertion at evtchn.c:518 that an object
\* about to be queued has no list entry.
PendingInv ==
  \A c \in Channel :
    /\ c \in pending <=> \E p \in Cpu : c \in queue[p] \cup reap[p]
    /\ \A p, q \in Cpu :
         /\ c \in queue[p] /\ c \in queue[q] => p = q
         /\ c \in reap[p] /\ c \in reap[q] => p = q
         /\ ~(c \in queue[p] /\ c \in reap[q])

\* A poll keeps the next list entry across a callback (Next in EvtchnPoll): what
\* it has yet to look at stays on its CPU's list.  Channels are set aside for
\* reaping only by a flush that is still going on.
SnapshotInv ==
  \A p \in Cpu :
    /\ poll[p] \in {"loop", "ack", "callback"} => work[p] \subseteq queue[p]
    /\ dpcpc[p] \notin {"poll", "reap"} => reap[p] = {}

\* No list holds a freed channel (the Magic assertion of EvtchnPoll and
\* EvtchnFlush): an object is reaped only once it is off every list.
NoDanglingEntry == ~ListFreed

\* An object that a poll has looked up, or is delivering, is not freed under
\* it (the LocalPort assertion of EvtchnPollCallback).
PolledLive == ~PollFreed

\* What EvtchnPoll and EvtchnFlush rely on when they follow an entry.
PollSafe == SnapshotInv /\ NoDanglingEntry /\ PolledLive

\* A closed channel that no call is still handing over is on a list, where a
\* flush finds it: closing never loses an object.
ClosedQueued ==
  \A c \in alloc : c \in closed =>
    \/ c \in pending
    \/ \E t \in Thread : handle[t] = c /\ pc[t] \in {"trigger", "queue"}

\* When the last reference is dropped no channel is left
\* (BUG("OUTSTANDING EVENT CHANNELS") in EvtchnRelease).
NoneOutstanding == ~refs => alloc = {}

\* An event raised on an open, unmasked channel is taken: a poll acknowledges
\* it and runs the callback, or EvtchnUnmask reports it, unless the channel
\* is masked, closed or suspended first, or the machine has stopped.
EventTaken ==
  \A c \in Channel :
    (c \in raised /\ c \notin masked /\ c \in active)
      ~> (c \notin raised \/ c \in masked \/ c \notin active \/ ~Sound)

=============================================================================
