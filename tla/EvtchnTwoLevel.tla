--------------------------- MODULE EvtchnTwoLevel ---------------------------
(***************************************************************************)
(* The two-level event channel ABI of one vCPU: evtchn_2l.c hands each     *)
(* operation to shared_info.c (src/src/xenbus).  The shared page holds a   *)
(* pending and a mask bit for each port, and the vCPU's page a selector    *)
(* bit for each word of ports and the upcall flag.                         *)
(***************************************************************************)
EXTENDS Naturals, FiniteSetsExt

CONSTANTS
  PortCount,     \* ports 0 .. PortCount - 1
  PerSelector    \* ports in a word of the shared page

Port        == 0 .. PortCount - 1
Selector(p) == p \div PerSelector
Selectors   == {Selector(p) : p \in Port}
Word(s)     == {p \in Port : Selector(p) = s}

ASSUME TwoLevelAssumption ==
  /\ PortCount \in Nat \ {0}
  /\ PerSelector \in Nat \ {0}

VARIABLES
  pending, masked,      \* evtchn_pending and evtchn_mask
  sel, upcall,          \* evtchn_pending_sel and evtchn_upcall_pending
  sending,              \* hypervisor: ports raised whose selector is not set yet
  pc, SelectorMask, PortMask, cursor,   \* the poll; cursor is Processor->Port
  unmasking, taken      \* callers of the ABI

shared  == <<pending, masked>>
vcpu    == <<sel, upcall>>
polling == <<pc, SelectorMask, PortMask, cursor>>
callers == <<unmasking, taken>>
vars    == <<shared, vcpu, sending, polling, callers>>

-----------------------------------------------------------------------------
(* The hypervisor.  A port that is raised already is left alone.           *)

HvSend(p) ==
  /\ p \notin pending
  /\ pending' = pending \cup {p}
  /\ sending' = sending \cup {p}
  /\ UNCHANGED <<masked, vcpu, polling, callers>>

\* Set the selector bit of an unmasked port, and the upcall flag with it.
SetSelector(p) ==
  /\ sel'    = sel \cup {Selector(p)}
  /\ upcall' = (upcall \/ Selector(p) \notin sel)

HvMark(p) ==
  /\ p \in sending
  /\ sending' = sending \ {p}
  /\ IF p \in masked THEN UNCHANGED vcpu ELSE SetSelector(p)
  /\ UNCHANGED <<shared, polling, callers>>

-----------------------------------------------------------------------------
(* SharedInfoEvtchnPoll.                                                   *)

\* SharedInfoUpcallPending exchanges the upcall flag for zero; a flush of the
\* CPU polls without looking at it.
SharedInfoUpcallPending ==
  /\ pc = "idle" /\ upcall
  /\ upcall' = FALSE
  /\ pc'     = "exchange"
  /\ UNCHANGED <<shared, sel, sending, SelectorMask, PortMask, cursor, callers>>

Flush ==
  /\ pc = "idle"
  /\ pc' = "exchange"
  /\ UNCHANGED <<shared, vcpu, sending, SelectorMask, PortMask, cursor, callers>>

PollExchange ==
  /\ pc = "exchange"
  /\ SelectorMask' = sel
  /\ sel' = {}
  /\ pc'  = "scan"
  /\ UNCHANGED <<shared, upcall, sending, PortMask, cursor, callers>>

\* Starting where the last poll ended, the words whose selector bit was set are
\* visited in turn.
NextSelector(s) == (s + 1) % (Max(Selectors) + 1)

SharedInfoEvtchnPoll ==
  /\ pc = "scan" /\ SelectorMask # {}
  /\ IF cursor \in SelectorMask
     THEN /\ PortMask' = pending \cap Word(cursor)
          /\ pc' = "mask"
          /\ UNCHANGED cursor
     ELSE /\ cursor' = NextSelector(cursor)
          /\ UNCHANGED <<PortMask, pc>>
  /\ UNCHANGED <<shared, vcpu, sending, SelectorMask, callers>>

\* The mask is a second read of the shared page.
PollMask ==
  /\ pc = "mask"
  /\ PortMask' = PortMask \ masked
  /\ pc' = "event"
  /\ UNCHANGED <<shared, vcpu, sending, SelectorMask, cursor, callers>>

\* Mutant: the scan stops one port short of the end of the word.
PollEventShort ==
  LET near == {p \in PortMask : p % PerSelector < PerSelector - 1} IN
  /\ pc = "event"
  /\ IF near # {}
     THEN LET p == Min(near) IN
          /\ taken'    = taken \cup {p}
          /\ PortMask' = PortMask \ {p}
          /\ UNCHANGED <<pc, SelectorMask, cursor>>
     ELSE /\ SelectorMask' = IF PortMask = {} THEN SelectorMask \ {cursor} ELSE SelectorMask
          /\ cursor' = NextSelector(cursor)
          /\ pc' = "scan"
          /\ UNCHANGED <<PortMask, taken>>
  /\ UNCHANGED <<shared, vcpu, sending, unmasking>>

PollEvent ==
  /\ pc = "event"
  /\ IF PortMask # {}
     THEN LET p == Min(PortMask) IN
          /\ taken'    = taken \cup {p}
          /\ PortMask' = PortMask \ {p}
          /\ UNCHANGED <<pc, SelectorMask, cursor>>
     ELSE /\ SelectorMask' = SelectorMask \ {cursor}
          /\ cursor' = NextSelector(cursor)
          /\ pc' = "scan"
          /\ UNCHANGED <<PortMask, taken>>
  /\ UNCHANGED <<shared, vcpu, sending, unmasking>>

PollDone ==
  /\ pc = "scan" /\ SelectorMask = {}
  /\ pc' = "idle"
  /\ UNCHANGED <<shared, vcpu, sending, SelectorMask, PortMask, cursor, callers>>

-----------------------------------------------------------------------------
(* The other operations.                                                   *)

\* SharedInfoEvtchnAck of a taken port, after SharedInfoEvtchnMask if the
\* client asked for it.
SharedInfoEvtchnAck(p) ==
  /\ p \in taken
  /\ taken'   = taken \ {p}
  /\ pending' = pending \ {p}
  /\ masked'  \in {masked, masked \cup {p}}
  /\ UNCHANGED <<vcpu, sending, polling, unmasking>>

SharedInfoEvtchnMask(p) ==
  /\ p \notin unmasking
  /\ masked' = masked \cup {p}
  /\ UNCHANGED <<pending, vcpu, sending, polling, callers>>

\* Mutant: the caller does not look for an event that came while masked.
SharedInfoEvtchnUnmaskBlind(p) ==
  /\ p \notin unmasking
  /\ masked' = masked \ {p}
  /\ UNCHANGED <<pending, vcpu, sending, polling, callers>>

SharedInfoEvtchnUnmask(p) ==
  /\ p \notin unmasking
  /\ masked'    = masked \ {p}
  /\ unmasking' = unmasking \cup {p}
  /\ UNCHANGED <<pending, vcpu, sending, polling, taken>>

\* The pending bit is tested after the mask was cleared.  The caller then masks
\* the port and has the hypervisor unmask it, or acknowledges the event.
UnmaskTest(p) ==
  /\ p \in unmasking
  /\ unmasking' = unmasking \ {p}
  /\ \/ p \notin pending /\ UNCHANGED <<shared, vcpu>>
     \/ /\ p \in pending
        /\ masked' = masked \ {p}
        /\ SetSelector(p)
        /\ UNCHANGED pending
     \/ /\ p \in pending
        /\ pending' = pending \ {p}
        /\ masked'  \in {masked, masked \cup {p}}
        /\ UNCHANGED vcpu
  /\ UNCHANGED <<sending, polling, taken>>

Init ==
  /\ pending = {} /\ masked = Port /\ sel = {} /\ upcall = FALSE /\ sending = {}
  /\ pc = "idle" /\ SelectorMask = {} /\ PortMask = {} /\ cursor = 0
  /\ unmasking = {} /\ taken = {}

PollStep == \/ SharedInfoUpcallPending \/ PollExchange \/ SharedInfoEvtchnPoll
            \/ PollMask \/ PollEvent \/ PollDone

Next ==
  \/ \E p \in Port : \/ HvSend(p) \/ HvMark(p) \/ SharedInfoEvtchnAck(p)
                     \/ SharedInfoEvtchnMask(p) \/ SharedInfoEvtchnUnmask(p)
                     \/ UnmaskTest(p)
  \/ Flush
  \/ PollStep

Spec == Init /\ [][Next]_vars

\* The hypervisor finishes a notification, the upcall it raised is taken and
\* runs to its end, and a call that unmasks returns.
FairSpec ==
  /\ Spec
  /\ WF_vars(PollStep)
  /\ \A p \in Port : WF_vars(HvMark(p)) /\ WF_vars(UnmaskTest(p))
-----------------------------------------------------------------------------

\* A port that is raised and unmasked is due while its selector bit is set, or
\* was set and its word has yet to be read, or the poll holds it.
ToVisit == IF pc \in {"mask", "event"} THEN SelectorMask \ {cursor} ELSE SelectorMask

Abi == INSTANCE EvtchnAbi WITH
  raised <- pending,
  due <- {p \in pending \ masked :
            p \in sending \cup PortMask \/ Selector(p) \in sel \cup ToVisit}

\* The two-level ABI keeps the promise of EvtchnAbi.
ImplementsAbi == Abi!Spec

\* An event on an unmasked port reaches the callback, unless the port is masked
\* or the event taken by an unmask first.
Delivered == \A p \in Port : p \in pending \ masked ~> p \in taken \/ p \notin pending \ masked
=============================================================================
