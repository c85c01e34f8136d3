----------------------------- MODULE EvtchnFifo -----------------------------
(***************************************************************************)
(* The FIFO event channel ABI (src/src/xenbus/evtchn_fifo.c) of one vCPU:  *)
(* the event words and the control block that the driver shares with the   *)
(* hypervisor, and the poll, mask, unmask and acknowledge operations.      *)
(*                                                                         *)
(* An event word is split into its flags and its link.  A port belongs to  *)
(* one queue, that of its priority; ports start at 1, link 0 ends a queue. *)
(* The BUSY flag only makes the compare-and-swap of PortUnmask retry.      *)
(***************************************************************************)
EXTENDS Naturals, FiniteSets, FiniteSetsExt

CONSTANTS
  PortCount,    \* ports 1 .. PortCount
  PriorityOf,   \* the queue of each port, PriorityOf[port]
  PerPage,      \* event words per page
  MaxReset      \* bound on releases of the ABI

Port     == 1 .. PortCount
Priority == {PriorityOf[p] : p \in Port}

ASSUME FifoAssumption ==
  /\ PortCount \in Nat \ {0}
  /\ \A p \in Port : PriorityOf[p] \in Nat
  /\ PerPage \in Nat \ {0}
  /\ MaxReset \in Nat

VARIABLES
  pending, masked, linked, link,  \* event words
  ready, head,                    \* control block
  tail, sending, setting,         \* hypervisor: tails, links and ready bits due
  CachedHead, LocalReady, pc, port,  \* Context->Head, and the poll in progress
  pages,                          \* Context->EventPageCount
  enabled,                        \* ports passed to PortEnable
  unmasking, taken,               \* callers of the ABI
  resets

words   == <<pending, masked, linked, link>>
control == <<ready, head>>
hyper   == <<tail, sending, setting>>
polling == <<CachedHead, LocalReady, pc, port>>
callers == <<enabled, unmasking, taken>>
vars    == <<words, control, hyper, polling, callers, pages, resets>>

-----------------------------------------------------------------------------
(* The hypervisor, as the ABI defines its side.                            *)

\* Set the pending flag; a port that is neither masked nor linked gets linked.
HvSend(p) ==
  /\ p \in enabled
  /\ pending' = pending \cup {p}
  /\ sending' = IF p \in masked \cup linked THEN sending ELSE sending \cup {p}
  /\ UNCHANGED <<masked, linked, link, control, tail, setting, polling, callers,
                 pages, resets>>

\* Append the port to its queue: link the tail to it if the tail is still
\* linked, otherwise the queue is empty and the port becomes its head.
HvLink(p) ==
  LET q == PriorityOf[p]
      t == IF tail[q] = p THEN 0 ELSE tail[q] IN
  /\ p \in sending
  /\ q \notin setting
  /\ sending' = sending \ {p}
  /\ IF p \in linked
     THEN UNCHANGED <<linked, link, head, tail, setting>>
     ELSE /\ linked' = linked \cup {p}
          /\ tail'   = [tail EXCEPT ![q] = p]
          /\ IF t \in linked
             THEN /\ link' = [link EXCEPT ![t] = p]
                  /\ UNCHANGED <<head, setting>>
             ELSE /\ head' = [head EXCEPT ![q] = p]
                  /\ setting' = setting \cup {q}
                  /\ UNCHANGED link
  /\ UNCHANGED <<pending, masked, ready, polling, callers, pages, resets>>

HvReady(q) ==
  /\ q \in setting
  /\ setting' = setting \ {q}
  /\ ready'   = ready \cup {q}
  /\ UNCHANGED <<words, head, tail, sending, polling, callers, pages, resets>>

-----------------------------------------------------------------------------
(* EvtchnFifoPoll.                                                         *)

\* The event page of a port is mapped once it lies below the page count.
EvtchnFifoEventWord(p) == p \div PerPage < pages

\* Mutant: the poll ends after the queues that were ready when it began.
EvtchnFifoPollOnce ==
  /\ pc \in {"idle", "exchange"}
  /\ LocalReady' = ready
  /\ ready' = {}
  /\ pc'    = IF LocalReady' = {} \/ pc = "exchange" THEN "idle" ELSE "select"
  /\ UNCHANGED <<words, head, hyper, CachedHead, port, callers, pages, resets>>

\* The ready bits are taken by an atomic exchange, before the first queue and
\* again after each port.
EvtchnFifoPoll ==
  /\ pc \in {"idle", "exchange"}
  /\ LocalReady' = (IF pc = "idle" THEN {} ELSE LocalReady) \cup ready
  /\ ready' = {}
  /\ pc'    = IF LocalReady' = {} THEN "idle" ELSE "select"
  /\ UNCHANGED <<words, head, hyper, CachedHead, port, callers, pages, resets>>

\* EvtchnFifoPollPriority of the highest ready queue: its first port comes
\* from the last link followed, or else from the control block.
EvtchnFifoPollPriority ==
  LET q == Max(LocalReady) IN
  /\ pc = "select"
  /\ port' = IF CachedHead[q] = 0 THEN head[q] ELSE CachedHead[q]
  /\ pc'   = "unlink"
  /\ UNCHANGED <<words, control, hyper, CachedHead, LocalReady, callers, pages, resets>>

\* Mutant: the link is read after it was cleared.
EvtchnFifoUnlinkLate ==
  LET q == Max(LocalReady) IN
  /\ pc = "unlink"
  /\ linked' = linked \ {port}
  /\ link'   = [link EXCEPT ![port] = 0]
  /\ CachedHead' = [CachedHead EXCEPT ![q] = 0]
  /\ LocalReady' = LocalReady \ {q}
  /\ pc'     = "event"
  /\ UNCHANGED <<pending, masked, control, hyper, port, callers, pages, resets>>

\* The link is read and cleared with the linked flag in one compare-and-swap;
\* the last port of a queue takes the queue off the local ready set.
EvtchnFifoUnlink ==
  LET q == Max(LocalReady) IN
  /\ pc = "unlink"
  /\ linked' = linked \ {port}
  /\ link'   = [link EXCEPT ![port] = 0]
  /\ CachedHead' = [CachedHead EXCEPT ![q] = link[port]]
  /\ LocalReady' = IF link[port] = 0 THEN LocalReady \ {q} ELSE LocalReady
  /\ pc'     = "event"
  /\ UNCHANGED <<pending, masked, control, hyper, port, callers, pages, resets>>

\* The flags are tested after the unlink; the callback takes the port.
EvtchnFifoEvent ==
  /\ pc = "event"
  /\ taken' = IF port \in pending \ masked THEN taken \cup {port} ELSE taken
  /\ pc'    = "exchange"
  /\ port'  = 0
  /\ UNCHANGED <<words, control, hyper, CachedHead, LocalReady, enabled, unmasking, pages, resets>>

-----------------------------------------------------------------------------
(* The other operations, called from evtchn.c.                             *)

\* PortEnable: pages are added until the port's word exists; a new page is
\* masked throughout before the hypervisor gets it.
EvtchnFifoPortEnable(p) ==
  /\ p \notin enabled
  /\ enabled' = enabled \cup {p}
  /\ pages'   = IF EvtchnFifoEventWord(p) THEN pages ELSE p \div PerPage + 1
  /\ UNCHANGED <<words, control, hyper, polling, unmasking, taken, resets>>

\* PortAck of a port the callback has taken, after a PortMask if the client
\* asked for it.
EvtchnFifoPortAck(p) ==
  /\ p \in taken
  /\ taken'   = taken \ {p}
  /\ pending' = pending \ {p}
  /\ masked'  \in {masked, masked \cup {p}}
  /\ UNCHANGED <<linked, link, control, hyper, polling, enabled, unmasking, pages, resets>>

EvtchnFifoPortMask(p) ==
  /\ p \in enabled \ unmasking
  /\ masked' = masked \cup {p}
  /\ UNCHANGED <<pending, linked, link, control, hyper, polling, callers, pages, resets>>

\* Mutant: the new value of the word drops the pending flag as well.
EvtchnFifoPortUnmaskClears(p) ==
  /\ p \in enabled \ unmasking
  /\ masked'    = masked \ {p}
  /\ pending'   = pending \ {p}
  /\ unmasking' = unmasking \cup {p}
  /\ UNCHANGED <<linked, link, control, hyper, polling, enabled, taken, pages, resets>>

\* PortUnmask: the mask is cleared by compare-and-swap ...
EvtchnFifoPortUnmask(p) ==
  /\ p \in enabled \ unmasking
  /\ masked'    = masked \ {p}
  /\ unmasking' = unmasking \cup {p}
  /\ UNCHANGED <<pending, linked, link, control, hyper, polling, enabled, taken, pages,
                 resets>>

\* ... and the pending flag is tested after it.  A caller that is told of an
\* event masks the port and has the hypervisor unmask it, which links a
\* pending port, or acknowledges the event itself.
PortUnmaskTest(p) ==
  /\ p \in unmasking
  /\ unmasking' = unmasking \ {p}
  /\ \/ /\ p \notin pending
        /\ UNCHANGED <<pending, masked, sending>>
     \/ /\ p \in pending
        /\ masked'  = masked \ {p}
        /\ sending' = IF p \in linked THEN sending ELSE sending \cup {p}
        /\ UNCHANGED pending
     \/ /\ p \in pending
        /\ pending' = pending \ {p}
        /\ masked'  \in {masked, masked \cup {p}}
        /\ UNCHANGED sending
  /\ UNCHANGED <<linked, link, control, tail, setting, polling, enabled, taken, pages,
                 resets>>

\* EvtchnFifoRelease and EvtchnFifoAcquire around a suspend, with every CPU
\* captured: new event pages and control blocks.  Context->Head is kept.
EvtchnFifoRelease ==
  /\ pc = "idle" /\ resets < MaxReset
  /\ resets'  = resets + 1
  /\ pending' = {} /\ masked' = Port /\ linked' = {} /\ link' = [p \in Port |-> 0]
  /\ ready'   = {} /\ head' = [q \in Priority |-> 0]
  /\ tail'    = [q \in Priority |-> 0] /\ sending' = {} /\ setting' = {}
  /\ pages'   = 0
  /\ enabled' = {} /\ unmasking' = {} /\ taken' = {}
  /\ UNCHANGED polling

-----------------------------------------------------------------------------
Init ==
  /\ pending = {} /\ masked = Port /\ linked = {} /\ link = [p \in Port |-> 0]
  /\ ready = {} /\ head = [q \in Priority |-> 0]
  /\ tail = [q \in Priority |-> 0] /\ sending = {} /\ setting = {}
  /\ CachedHead = [q \in Priority |-> 0] /\ LocalReady = {} /\ pc = "idle" /\ port = 0
  /\ pages = 0 /\ enabled = {} /\ unmasking = {} /\ taken = {} /\ resets = 0

PollStep == \/ EvtchnFifoPoll /\ (pc = "exchange" \/ ready # {})
            \/ EvtchnFifoPollPriority \/ EvtchnFifoUnlink \/ EvtchnFifoEvent

Next ==
  \/ \E p \in Port : \/ HvSend(p) \/ HvLink(p)
                     \/ EvtchnFifoPortEnable(p) \/ EvtchnFifoPortAck(p)
                     \/ EvtchnFifoPortMask(p) \/ EvtchnFifoPortUnmask(p)
                     \/ PortUnmaskTest(p)
  \/ \E q \in Priority : HvReady(q)
  \/ PollStep
  \/ EvtchnFifoRelease

Spec == Init /\ [][Next]_vars

\* The hypervisor completes what it started (its queue lock is a ticket lock,
\* hence strong fairness), and the upcall it raises with a ready bit is taken
\* and runs to its end.
FairSpec ==
  /\ Spec
  /\ WF_vars(PollStep)
  /\ \A p \in Port : SF_vars(HvLink(p)) /\ WF_vars(PortUnmaskTest(p))
  /\ \A q \in Priority : WF_vars(HvReady(q))
-----------------------------------------------------------------------------

\* Types; and EvtchnFifoPortEnable has made room for each port in use.
TypeOK ==
  /\ pending \subseteq Port /\ masked \subseteq Port /\ linked \subseteq Port
  /\ link \in [Port -> Port \cup {0}]
  /\ ready \subseteq Priority /\ setting \subseteq Priority /\ LocalReady \subseteq Priority
  /\ head \in [Priority -> Port \cup {0}] /\ tail \in [Priority -> Port \cup {0}]
  /\ CachedHead \in [Priority -> Port \cup {0}]
  /\ sending \subseteq Port /\ port \in Port \cup {0}
  /\ pc \in {"idle", "select", "unlink", "event", "exchange"}
  /\ enabled \subseteq Port /\ unmasking \subseteq Port /\ taken \subseteq Port
  /\ pages \in Nat /\ resets \in 0 .. MaxReset
  /\ \A p \in enabled : EvtchnFifoEventWord(p)

\* The ports that a poll of queue q reaches by following the links.
First(q) ==
  IF pc = "unlink" /\ q = Max(LocalReady) THEN port
  ELSE IF CachedHead[q] # 0 THEN CachedHead[q]
  ELSE IF q \in ready \cup LocalReady \cup setting THEN head[q] ELSE 0

\* What following the links from there meets, link by link.
Chain(q) ==
  LET chain[n \in 0 .. PortCount] ==
        IF n = 0 THEN First(q)
        ELSE IF chain[n - 1] = 0 THEN 0 ELSE link[chain[n - 1]]
  IN  chain

Linked(q) == {p \in linked : PriorityOf[p] = q}

\* Queue q holds its linked ports and nothing else, each once: following the
\* links from the first port meets all of them before it meets link 0.  The
\* driver's cached head, the control block and the event words agree.  A queue
\* that is not empty is known to be ready, by the control block, the poll in
\* progress or the hypervisor.
QueueInv ==
  /\ TypeOK
  /\ \A p \in linked : PriorityOf[p] \in ready \cup LocalReady \cup setting
  /\ \A q \in Priority :
       LET chain == Chain(q)
       IN  /\ {chain[n] : n \in 0 .. PortCount} \ {0} = Linked(q)
           /\ chain[Cardinality(Linked(q))] = 0

\* The poll follows no stale head: between polls Context->Head is zero, so that
\* new control blocks start with empty queues although EvtchnFifoRelease does
\* not clear it; and a poll never unlinks port 0 or a port without a page.
HeadInv ==
  /\ pc = "idle" => \A q \in Priority : CachedHead[q] = 0
  /\ pc = "unlink" => port \in linked /\ EvtchnFifoEventWord(port)

\* The links, and the driver's idea of where they start.
LinksInv == QueueInv /\ HeadInv

\* The FIFO ABI keeps the promise of EvtchnAbi: a linked port is due.
Abi == INSTANCE EvtchnAbi WITH
  raised <- pending,
  due <- linked \cup sending \cup (IF pc = "event" THEN {port} ELSE {})

\* Every step of the FIFO ABI is one the abstract ABI allows.
ImplementsAbi == Abi!Spec

\* An event on an unmasked port reaches the callback, unless the port is masked
\* or the event taken by an unmask first, or a higher queue keeps the poll busy:
\* EvtchnFifoPoll turns to a queue only when those above it are empty.
Delivered ==
  \A p \in Port :
    p \in pending \ masked ~> \/ p \in taken \/ p \notin pending \ masked
                             \/ \E q \in LocalReady : q > PriorityOf[p]
=============================================================================
