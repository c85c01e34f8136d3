----------------------------- MODULE StoreRing -----------------------------
(***************************************************************************)
(* How xenbus.sys talks to xenstored (src/src/xenbus/store.c): two byte    *)
(* rings in a shared page, an event channel, and a poll that moves         *)
(* requests out and responses in.  A thread that submits a request keeps   *)
(* Context->Lock until its response has come, polling whenever the channel *)
(* reports an event; at other times a DPC polls.                           *)
(*                                                                         *)
(* A byte on a ring is <<m, n>>, the n-th of message m.  Message m is the  *)
(* request of thread m, or its reply; a larger m is a watch event.  What   *)
(* the header says of the length is MsgLen.                                *)
(***************************************************************************)
EXTENDS Integers, Sequences, FiniteSets

CONSTANTS
  RingSize,     \* XENSTORE_RING_SIZE
  IndexMod,     \* ring indices are unsigned and wrap (2^32 in the code)
  HeaderLen,    \* sizeof (struct xsd_sockmsg)
  Threads,      \* threads 1 .. Threads, with one request each
  Segments,     \* the lengths of a request's segments, the header first
  ReplyLen,     \* ReplyLen[t]: payload of the reply to thread t
  EventLen,     \* payload of a watch event
  MaxEvents     \* bound on the watch events

Thread == 1 .. Threads
Event  == Threads + 1 .. Threads + MaxEvents

ASSUME StoreRingAssumption ==
  /\ RingSize \in Nat \ {0} /\ IndexMod \in Nat \ {0}
  /\ IndexMod > RingSize /\ IndexMod % RingSize = 0
  /\ HeaderLen \in Nat \ {0} /\ Threads \in Nat \ {0}
  /\ Segments \in Seq(Nat) /\ Segments # <<>> /\ Segments[1] = HeaderLen
  /\ ReplyLen \in [Thread -> Nat] /\ EventLen \in Nat /\ MaxEvents \in Nat

VARIABLES
  req, req_prod, req_cons, rsp, rsp_prod, rsp_cons,   \* the shared page
  State,                     \* of each thread's request
  owner, pc,                 \* Context->Lock, and what its holder is doing
  Index, Offset, Response,   \* segment in progress; bytes of Context->Response
  copied, Written, Read,     \* of the copy and of the round of the poll
  counted,                   \* Channel->Count has moved since GetCount
  raised, upcall, dpc,       \* event channel, its callback, Context->Dpc
  fired,                     \* watch events signalled
  last,                      \* the indices the watchdog saw the last time
  xsEvent, xsAwake, xsIn, xsOut, xsPos, xsOwes, made  \* xenstored

page    == <<req, req_prod, req_cons, rsp, rsp_prod, rsp_cons>>
indices == <<req_prod, req_cons, rsp_prod, rsp_cons>>
sending == <<Index, Offset, Written>>
recving == <<Response, Read>>
channel == <<raised, upcall, dpc, counted>>
daemon  == <<xsAwake, xsIn, xsOut, xsPos, xsOwes, made>>
vars    == <<page, State, owner, pc, sending, recving, copied, channel, fired, last, xsEvent, daemon>>

MinOf(a, b) == IF a < b THEN a ELSE b
Sum(s)      == LET S[i \in 0 .. Len(s)] == IF i = 0 THEN 0 ELSE S[i - 1] + s[i] IN S[Len(s)]
MsgLen(m)   == HeaderLen + (IF m \in Event THEN EventLen ELSE ReplyLen[m])
Bytes(m, from, n) == [i \in 1 .. n |-> <<m, from + i>>]

\* Copy bytes into a ring from index i on, and out of it.
Put(ring, i, bytes) ==
  [k \in 0 .. RingSize - 1 |->
     LET d == (k - i) % RingSize IN IF d < Len(bytes) THEN bytes[d + 1] ELSE ring[k]]
Get(ring, i, n) == [k \in 1 .. n |-> ring[(i + k - 1) % RingSize]]

-----------------------------------------------------------------------------
(* The holder of Context->Lock.                                            *)

\* StoreSubmitRequest of thread t; StoreDpc.
StoreSubmitRequest(t) ==
  /\ owner = "none" /\ State[t] = "prepared"
  /\ owner' = "thread"
  /\ State' = [State EXCEPT ![t] = "submitted"]
  /\ Index' = 1 /\ Offset' = 0
  /\ pc' = "count"
  /\ UNCHANGED <<page, recving, Written, copied, channel, fired, last, xsEvent, daemon>>

StoreDpc ==
  /\ owner = "none" /\ dpc
  /\ owner' = "dpc" /\ dpc' = FALSE
  /\ pc' = "count"
  /\ UNCHANGED <<page, State, sending, recving, copied, raised, upcall, counted,
                 fired, last, xsEvent, daemon>>

\* StoreWatchdog polls, and sends an event, when a producer index moved since
\* the last period and its consumer index did not.
Stuck ==
  \/ rsp_prod # last[3] /\ rsp_cons = last[4]
  \/ req_prod # last[1] /\ req_cons = last[2]

StoreWatchdog ==
  /\ owner = "none" /\ Stuck
  /\ owner' = "watchdog" /\ xsEvent' = TRUE
  /\ pc' = "count"
  /\ UNCHANGED <<page, State, sending, recving, copied, channel, fired, last, daemon>>

StoreWatchdogIdle ==
  /\ owner = "none" /\ ~Stuck
  /\ last' = indices
  /\ UNCHANGED <<page, State, owner, pc, sending, recving, copied, channel, fired, xsEvent, daemon>>

\* StorePollLocked reads the event count before it looks at the rings.
StorePollLocked ==
  /\ pc = "count"
  /\ counted' = FALSE
  /\ Written' = 0 /\ Read' = 0
  /\ pc' = "send"
  /\ UNCHANGED <<page, State, owner, Index, Offset, Response, copied, raised, upcall, dpc,
                 fired, last, xsEvent, daemon>>

Submitted == {t \in Thread : State[t] = "submitted"}
Pending   == {t \in Thread : State[t] = "pending"}

\* StoreSendRequests takes the request at the head of the list, if any.
StoreSendRequests ==
  /\ pc = "send" /\ Submitted = {}
  /\ pc' = "sent"
  /\ UNCHANGED <<page, State, owner, sending, recving, copied, channel, fired, last, xsEvent, daemon>>

\* StoreCopyToRing of the rest of the segment: as much as there is room for ...
StoreCopyToRing ==
  /\ pc = "send" /\ Submitted # {}
  /\ LET t     == CHOOSE u \in Submitted : TRUE
         avail == (req_cons + RingSize - req_prod) % IndexMod
         n     == MinOf(Segments[Index] - Offset, avail)
         done  == Sum(SubSeq(Segments, 1, Index - 1)) + Offset
     IN  /\ req' = Put(req, req_prod, Bytes(t, done, n))
         /\ copied' = n
  /\ pc' = "publish"
  /\ UNCHANGED <<req_prod, req_cons, rsp, rsp_prod, rsp_cons, State, owner, sending,
                 recving, channel, fired, last, xsEvent, daemon>>

\* Mutant: a segment that did not fit is taken as sent.
StoreSendSegmentShort ==
  /\ pc = "publish"
  /\ req_prod' = (req_prod + copied) % IndexMod
  /\ Written'  = Written + copied
  /\ Index' = Index + 1 /\ Offset' = 0
  /\ IF Index < Len(Segments)
     THEN pc' = "send" /\ UNCHANGED State
     ELSE /\ pc' = "sent"
          /\ State' = [t \in Thread |-> IF t \in Submitted THEN "pending" ELSE State[t]]
  /\ UNCHANGED <<req, req_cons, rsp, rsp_prod, rsp_cons, owner, recving, copied,
                 channel, fired, last, xsEvent, daemon>>

\* ... and the index that publishes it.  After the last segment the request
\* moves to the pending list; a segment that did not fit is left for later.
StoreSendSegment ==
  LET whole == Offset + copied = Segments[Index] IN
  /\ pc = "publish"
  /\ req_prod' = (req_prod + copied) % IndexMod
  /\ Written'  = Written + copied
  /\ Index'    = IF whole THEN Index + 1 ELSE Index
  /\ Offset'   = IF whole THEN 0 ELSE Offset + copied
  /\ IF whole /\ Index < Len(Segments)
     THEN pc' = "send" /\ UNCHANGED State
     ELSE /\ pc' = "sent"
          /\ State' = [t \in Thread |->
                         IF t \in Submitted /\ whole THEN "pending" ELSE State[t]]
  /\ UNCHANGED <<req, req_cons, rsp, rsp_prod, rsp_cons, owner, recving, copied,
                 channel, fired, last, xsEvent, daemon>>

\* xenstored is notified of what was written.
EvtchnSendWritten ==
  /\ pc = "sent"
  /\ xsEvent' = (xsEvent \/ Written # 0)
  /\ pc' = "recv"
  /\ UNCHANGED <<page, State, owner, sending, recving, copied, channel, fired, last, daemon>>

\* StoreReceiveResponse: the header, then the payload whose length it holds.
Wanted ==
  IF Len(Response) < HeaderLen THEN HeaderLen - Len(Response)
  ELSE MsgLen(Response[1][1]) - Len(Response)

StoreCopyFromRing ==
  /\ pc = "recv"
  /\ LET n == MinOf(Wanted, (rsp_prod - rsp_cons) % IndexMod)
     IN  /\ Response' = Response \o Get(rsp, rsp_cons, n)
         /\ copied' = n
  /\ pc' = "consume"
  /\ UNCHANGED <<page, State, owner, sending, Read, channel, fired, last, xsEvent, daemon>>

StoreReceiveResponse ==
  /\ pc = "consume"
  /\ rsp_cons' = (rsp_cons + copied) % IndexMod
  /\ Read'     = Read + copied
  /\ pc' = IF Len(Response) < HeaderLen THEN "read"
           ELSE IF Wanted = 0 THEN "process"
           ELSE IF Len(Response) - copied < HeaderLen THEN "recv" ELSE "read"
  /\ UNCHANGED <<req, req_prod, req_cons, rsp, rsp_prod, State, owner, sending, Response,
                 copied, channel, fired, last, xsEvent, daemon>>

\* StoreProcessResponse: a watch event signals the watch's event object, a
\* response completes the pending request of its id; the buffer is reset.
StoreProcessResponse ==
  LET m == Response[1][1] IN
  /\ pc = "process"
  /\ fired' = IF m \in Event THEN fired + 1 ELSE fired
  /\ State' = [t \in Thread |-> IF t = m /\ t \in Pending THEN "completed" ELSE State[t]]
  /\ Response' = <<>>
  /\ pc' = "read"
  /\ UNCHANGED <<page, owner, sending, Read, copied, channel, last, xsEvent, daemon>>

\* xenstored is notified of what was read, and the poll goes round until
\* nothing moves.
EvtchnSendRead ==
  /\ pc = "read"
  /\ xsEvent' = (xsEvent \/ Read # 0)
  /\ pc' = IF Written # 0 \/ Read # 0 THEN "send" ELSE "done"
  /\ Written' = 0 /\ Read' = 0
  /\ UNCHANGED <<page, State, owner, Index, Offset, Response, copied, channel, fired, last, daemon>>

\* Mutant: the count to wait for is read after the poll.
PollDoneCountsLate ==
  /\ pc = "done"
  /\ IF owner = "thread" /\ Submitted \cup Pending # {}
     THEN pc' = "wait" /\ UNCHANGED <<owner, State>>
     ELSE /\ pc' = "none" /\ owner' = "none"
          /\ State' = [t \in Thread |-> IF State[t] = "completed" THEN "done" ELSE State[t]]
  /\ counted' = FALSE
  /\ UNCHANGED <<page, sending, recving, copied, raised, upcall, dpc, fired, last, xsEvent, daemon>>

\* The lock is dropped after a poll, by a submitter only once it has a response.
PollDone ==
  /\ pc = "done"
  /\ IF owner = "thread" /\ Submitted \cup Pending # {}
     THEN pc' = "wait" /\ UNCHANGED <<owner, State>>
     ELSE /\ pc' = "none" /\ owner' = "none"
          /\ State' = [t \in Thread |-> IF State[t] = "completed" THEN "done" ELSE State[t]]
  /\ last' = IF owner = "watchdog" THEN indices ELSE last
  /\ UNCHANGED <<page, sending, recving, copied, channel, fired, xsEvent, daemon>>

\* EvtchnWait for a count above the one read before the poll, or its timeout.
EvtchnWait ==
  /\ pc = "wait" /\ counted
  /\ pc' = "count"
  /\ UNCHANGED <<page, State, owner, sending, recving, copied, channel, fired, last, xsEvent, daemon>>

EvtchnWaitTimeout ==
  /\ pc = "wait"
  /\ pc' = "count"
  /\ UNCHANGED <<page, State, owner, sending, recving, copied, channel, fired, last, xsEvent, daemon>>

-----------------------------------------------------------------------------
(* The upcall: EvtchnPoll acknowledges the event before it counts it and   *)
(* runs StoreEvtchnCallback, which queues the DPC.                         *)

PollAck ==
  /\ raised /\ ~upcall
  /\ raised' = FALSE /\ upcall' = TRUE
  /\ UNCHANGED <<page, State, owner, pc, sending, recving, copied, dpc, counted, fired, last,
                 xsEvent, daemon>>

\* Mutant: the DPC is not queued.
StoreEvtchnCallbackNoDpc ==
  /\ upcall
  /\ upcall' = FALSE
  /\ counted' = TRUE
  /\ UNCHANGED <<page, State, owner, pc, sending, recving, copied, raised, dpc, fired, last, xsEvent, daemon>>

StoreEvtchnCallback ==
  /\ upcall
  /\ upcall' = FALSE
  /\ counted' = TRUE /\ dpc' = TRUE
  /\ UNCHANGED <<page, State, owner, pc, sending, recving, copied, raised, fired, last, xsEvent, daemon>>

-----------------------------------------------------------------------------
(* xenstored: woken by an event, it reads requests, answers each, writes   *)
(* replies and watch events, notifies the guest of both, and sleeps when   *)
(* neither ring lets it go on.                                             *)

driver == <<State, owner, pc, sending, recving, copied, upcall, dpc, counted, fired, last>>

XsReadable == (req_prod - req_cons) % IndexMod
XsRoom     == (rsp_cons + RingSize - rsp_prod) % IndexMod

XsWake ==
  /\ ~xsAwake /\ xsEvent
  /\ xsAwake' = TRUE /\ xsEvent' = FALSE
  /\ UNCHANGED <<page, driver, raised, xsIn, xsOut, xsPos, xsOwes, made>>

XsRead ==
  LET n    == MinOf(XsReadable, Sum(Segments) - Len(xsIn))
      in   == xsIn \o Get(req, req_cons, n)
      full == Len(in) = Sum(Segments)
  IN
  /\ xsAwake /\ XsReadable > 0
  /\ req_cons' = (req_cons + n) % IndexMod
  /\ xsIn'  = IF full THEN <<>> ELSE in
  /\ xsOut' = IF full THEN Append(xsOut, in[1][1]) ELSE xsOut
  /\ xsOwes' = TRUE
  /\ UNCHANGED <<req, req_prod, rsp, rsp_prod, rsp_cons, driver, raised, xsEvent, xsAwake,
                 xsPos, made>>

\* The header is written first, and on its own.
XsWrite ==
  LET m    == Head(xsOut)
      left == IF xsPos < HeaderLen THEN HeaderLen - xsPos ELSE MsgLen(m) - xsPos
      n    == MinOf(XsRoom, left)
      full == xsPos + n = MsgLen(m)
  IN
  /\ xsAwake /\ xsOut # <<>> /\ XsRoom > 0
  /\ rsp' = Put(rsp, rsp_prod, Bytes(m, xsPos, n))
  /\ rsp_prod' = (rsp_prod + n) % IndexMod
  /\ xsPos' = IF full THEN 0 ELSE xsPos + n
  /\ xsOut' = IF full THEN Tail(xsOut) ELSE xsOut
  /\ xsOwes' = TRUE
  /\ UNCHANGED <<req, req_prod, req_cons, rsp_cons, driver, raised, xsEvent, xsAwake,
                 xsIn, made>>

XsNotify ==
  /\ xsOwes
  /\ xsOwes' = FALSE /\ raised' = TRUE
  /\ UNCHANGED <<page, driver, xsEvent, xsAwake, xsIn, xsOut, xsPos, made>>

XsSleep ==
  /\ xsAwake /\ ~xsOwes
  /\ XsReadable = 0 /\ (xsOut = <<>> \/ XsRoom = 0)
  /\ xsAwake' = FALSE
  /\ UNCHANGED <<page, driver, raised, xsEvent, xsIn, xsOut, xsPos, xsOwes, made>>

\* A watched node changes.
XsFire ==
  /\ made < MaxEvents
  /\ made'  = made + 1
  /\ xsOut' = Append(xsOut, Threads + made + 1)
  /\ xsAwake' = TRUE
  /\ UNCHANGED <<page, driver, raised, xsEvent, xsIn, xsPos, xsOwes>>

-----------------------------------------------------------------------------

Init ==
  /\ req = [k \in 0 .. RingSize - 1 |-> <<0, 0>>] /\ rsp = req
  /\ req_prod = 0 /\ req_cons = 0 /\ rsp_prod = 0 /\ rsp_cons = 0
  /\ State = [t \in Thread |-> "prepared"]
  /\ owner = "none" /\ pc = "none" /\ Index = 1 /\ Offset = 0 /\ Response = <<>>
  /\ copied = 0 /\ Written = 0 /\ Read = 0
  /\ counted = FALSE /\ raised = FALSE /\ upcall = FALSE
  /\ dpc = TRUE   \* StoreEnable triggers an initial poll
  /\ fired = 0 /\ last = <<0, 0, 0, 0>> /\ xsEvent = FALSE /\ xsAwake = FALSE /\ xsIn = <<>> /\ xsOut = <<>>
  /\ xsPos = 0 /\ xsOwes = FALSE /\ made = 0

Holder ==
  \/ StorePollLocked \/ StoreSendRequests \/ StoreCopyToRing \/ StoreSendSegment
  \/ EvtchnSendWritten \/ StoreCopyFromRing \/ StoreReceiveResponse
  \/ StoreProcessResponse \/ EvtchnSendRead \/ PollDone \/ EvtchnWait

Upcall == PollAck \/ StoreEvtchnCallback
Xenstored == XsWake \/ XsRead \/ XsWrite \/ XsSleep

Next ==
  \/ \E t \in Thread : StoreSubmitRequest(t)
  \/ StoreDpc \/ StoreWatchdog \/ StoreWatchdogIdle \/ Holder \/ EvtchnWaitTimeout
  \/ Upcall \/ Xenstored \/ XsNotify \/ XsFire

Spec == Init /\ [][Next]_vars

\* The CPUs and xenstored keep running, and the lock is handed out in turn (the
\* DPC gets it in the end).  Nothing is assumed of the timeout or the watchdog.
FairSpec ==
  /\ Spec
  /\ WF_vars(Holder) /\ WF_vars(Upcall) /\ WF_vars(Xenstored) /\ WF_vars(XsNotify)
  /\ SF_vars(StoreDpc)
-----------------------------------------------------------------------------

\* Type invariant: indices stay within their width, and Context->Response within its
\* buffer; no more watch events are signalled than were sent.
TypeOK ==
  /\ req_prod \in 0 .. IndexMod - 1 /\ req_cons \in 0 .. IndexMod - 1
  /\ rsp_prod \in 0 .. IndexMod - 1 /\ rsp_cons \in 0 .. IndexMod - 1
  /\ State \in [Thread -> {"prepared", "submitted", "pending", "completed", "done"}]
  /\ owner \in {"none", "thread", "dpc", "watchdog"}
  /\ Offset \in Nat /\ Index \in 1 .. Len(Segments) + 1
  /\ Len(Response) <= HeaderLen + EventLen + Sum(ReplyLen)
  /\ xsAwake \in BOOLEAN /\ counted \in BOOLEAN /\ dpc \in BOOLEAN
  /\ fired \in 0 .. made

\* Neither ring is ever filled beyond its size, nor read beyond what is there,
\* also when the indices wrap (and the state is well typed).
RingInv ==
  /\ TypeOK
  /\ (req_prod - req_cons) % IndexMod <= RingSize
  /\ (rsp_prod - rsp_cons) % IndexMod <= RingSize

\* Each side receives the bytes of one message at a time, all of them and in
\* order, however the copies were cut up.
StreamInv ==
  /\ \A i \in 1 .. Len(xsIn) : xsIn[i] = <<xsIn[1][1], i>>
  /\ \A i \in 1 .. Len(Response) : Response[i] = <<Response[1][1], i>>

\* No response is spurious: the request it answers is on the pending list when
\* the response is processed, and its submitter has kept the lock.
NoSpurious ==
  pc = "process" /\ Response[1][1] \in Thread =>
    Response[1][1] \in Pending /\ owner = "thread"

\* The rings and the messages that go through them.
TransportInv == RingInv /\ StreamInv /\ NoSpurious

\* A submitted request gets its response although the watchdog may never look and
\* no timeout may elapse (neither has fairness):
\* no notification is lost between the poll and EvtchnWait.
Completes == \A t \in Thread : State[t] = "submitted" ~> State[t] = "done"

\* Every watch event reaches its watch, whoever polls.
EventsSeen == \A k \in 1 .. MaxEvents : made >= k ~> fired >= k
=============================================================================
