------------------------------- MODULE Store -------------------------------
(***************************************************************************)
(* The objects that clients of the STORE interface hold                    *)
(* (src/src/xenbus/store.c): transactions, watches and value buffers, each *)
(* on a list of the context, and their counterparts in xenstored.  Moving  *)
(* bytes is StoreRing's business: here StoreSubmitRequest is one step,     *)
(* under the lock at DISPATCH_LEVEL, in which the watch events ahead of    *)
(* the reply are taken off the ring, the daemon answers and the reply is   *)
(* read.                                                                   *)
(*                                                                         *)
(* A call is a series of sections that hold Context->Lock.  Between two of *)
(* them the IRQL is what the caller's was: a caller at PASSIVE_LEVEL can   *)
(* find that the domain was suspended and resumed there, with a xenstored  *)
(* that knows none of its transactions and watches; one at DISPATCH_LEVEL, *)
(* as fdo.c asserts of its own calls, cannot.                              *)
(*                                                                         *)
(* A client has at most one object of each kind, named after the client;   *)
(* an object's Caller is the client.                                       *)
(***************************************************************************)
EXTENDS Integers, Sequences, FiniteSets

CONSTANTS
  Clients,      \* threads that use the interface
  Mixes,        \* bound: how the clients of one behaviour may use the interface
  IdMod,        \* WatchId is a USHORT and wraps (2^16 in the code)
  TxIds,        \* transaction ids of the daemon
  MaxRing,      \* bound on the watch events on the ring
  MaxSuspends   \* bound on the number of suspends

ASSUME StoreAssumption ==
  /\ IsFiniteSet(Clients)
  /\ Mixes \subseteq [passive : SUBSET Clients, noMemory : BOOLEAN,
                     kinds : SUBSET {"transaction", "watch", "buffer"}]
  /\ IdMod \in Nat /\ IdMod > Cardinality(Clients)
  /\ TxIds \subseteq Nat \ {0}
  /\ MaxRing \in Nat \ {0} /\ MaxSuspends \in Nat

VARIABLES
  references,                    \* clients between StoreAcquire and StoreRelease
  TransactionList, transaction,  \* the list, and the fields of each transaction
  WatchList, watch, WatchId,     \* the same for watches; the next id to try
  BufferList,                    \* buffers that StoreFree has not been given
  held,                          \* held[c]: kinds of object client c has a handle to
  signalled,                     \* watches whose KEVENT is set
  call, pc,                      \* each client's call, and where it is
  request, response,             \* its Request and what came of it
  ring,                          \* tokens of the watch events on the ring
  xsTransactions, xsWatches,     \* what xenstored knows
  suspends, woken,               \* count; clients that waited since the last one
  bugcheck,                      \* BUG was called
  mix                            \* the member of Mixes this behaviour is of

lists   == <<TransactionList, transaction, WatchList, watch, WatchId, BufferList>>
daemon  == <<xsTransactions, xsWatches>>
history == <<suspends, woken>>
vars    == <<references, lists, held, signalled, call, pc, request, response, ring,
             daemon, history, bugcheck, mix>>

Passive  == mix.passive    \* the clients that call at PASSIVE_LEVEL
Kinds    == mix.kinds      \* the kinds of object the clients use
NoMemory == mix.noMemory   \* the allocation of a response may fail

Zero     == [type |-> "none", tx_id |-> 0]        \* RtlZeroMemory(&Request)
NoAnswer == [status |-> "none", id |-> 0]
Token(c) == <<watch[c].Id, c>>                    \* "TOK|Caller|Id"

Init ==
  /\ references = {} /\ held = [c \in Clients |-> {}] /\ signalled = {}
  /\ TransactionList = {} /\ transaction = [c \in Clients |-> [Id |-> 0, Active |-> FALSE]]
  /\ WatchList = {} /\ watch = [c \in Clients |-> [Id |-> 0, Active |-> FALSE]] /\ WatchId = 0
  /\ BufferList = {} /\ call = [c \in Clients |-> "none"] /\ pc = [c \in Clients |-> "idle"]
  /\ request = [c \in Clients |-> Zero] /\ response = [c \in Clients |-> NoAnswer]
  /\ ring = <<>> /\ xsTransactions = {} /\ xsWatches = {} /\ suspends = 0 /\ woken = {}
  /\ bugcheck = FALSE /\ mix \in Mixes

----------------------------------------------------------------------------
(* The watch events of the ring, taken one after another                   *)

StoreFindWatch(id) == {c \in WatchList : watch[c].Id = id}

\* StoreProcessWatchEvent: an id that is not found is a spurious event, a watch
\* that is not active is left alone
StoreProcessWatchEvent(token) == {c \in StoreFindWatch(token[1]) : watch[c].Active}

Drain == signalled' = signalled \union UNION {StoreProcessWatchEvent(ring[i]) : i \in 1 .. Len(ring)}

\* StoreDpc, StorePoll: the interface's poll and the DPC of the event channel
StorePoll ==
  /\ references # {} /\ ring # <<>> /\ Drain /\ ring' = <<>>
  /\ UNCHANGED <<references, lists, held, call, pc, request, response, daemon, history, bugcheck>>

----------------------------------------------------------------------------
(* xenstored                                                               *)

Answer(c, status, id) == response' = [response EXCEPT ![c] = [status |-> status, id |-> id]]

XsTransactionStart(c) ==
  \/ \E id \in TxIds \ xsTransactions :
       xsTransactions' = xsTransactions \union {id} /\ Answer(c, "ok", id)
  \/ xsTransactions' = xsTransactions /\ Answer(c, "error", 0)

XsTransactionEnd(c, tx) ==
  IF tx \in xsTransactions
  THEN /\ xsTransactions' = xsTransactions \ {tx}
       /\ \E status \in {"ok", "again"} : Answer(c, status, 0)
  ELSE xsTransactions' = xsTransactions /\ Answer(c, "error", 0)

\* A watch that is set fires once at once, after the reply
XsWatch(c) ==
  \/ Token(c) \notin xsWatches /\ xsWatches' = xsWatches \union {Token(c)}
     /\ Answer(c, "ok", 0) /\ ring' = <<Token(c)>>
  \/ UNCHANGED xsWatches /\ Answer(c, "error", 0) /\ ring' = <<>>

XsUnwatch(c) ==
  /\ xsWatches' = xsWatches \ {Token(c)}
  /\ Answer(c, IF Token(c) \in xsWatches THEN "ok" ELSE "error", 0)

XsAccess(c, tx) == \E status \in (IF tx \in xsTransactions \union {0} THEN {"ok", "error"} ELSE {"error"}) :
                     Answer(c, status, 0)

XsFire ==
  /\ Len(ring) < MaxRing
  /\ \E token \in xsWatches : ring' = Append(ring, token)
  /\ UNCHANGED <<references, lists, held, signalled, call, pc, request, response, daemon, history, bugcheck>>

----------------------------------------------------------------------------
(* The request of a call                                                   *)

Enter(c, name) == pc[c] = "idle" /\ c \in references /\ call' = [call EXCEPT ![c] = name]

\* StorePrepareRequest, under the lock: a transaction that is not active is refused
StorePrepareRequest(c, type, tx_id) ==
  /\ request' = [request EXCEPT ![c] = [type |-> type, tx_id |-> tx_id]]
  /\ pc' = [pc EXCEPT ![c] = "submit"]

\* StoreSubmitRequest: fail1 leaves the request as it was
StoreSubmitRequest(c) ==
  /\ pc[c] = "submit"
  /\ pc' = [pc EXCEPT ![c] = "reply"]
  /\ \/ /\ NoMemory /\ Answer(c, "null", 0)
        /\ UNCHANGED <<request, signalled, ring, daemon>>
     \/ /\ request' = [request EXCEPT ![c] = Zero]
        /\ Drain
        /\ CASE request[c].type = "TRANSACTION_START" ->
                  XsTransactionStart(c) /\ ring' = <<>> /\ UNCHANGED xsWatches
             [] request[c].type = "TRANSACTION_END" ->
                  XsTransactionEnd(c, request[c].tx_id) /\ ring' = <<>> /\ UNCHANGED xsWatches
             [] request[c].type = "WATCH" -> XsWatch(c) /\ UNCHANGED xsTransactions
             [] request[c].type = "UNWATCH" ->
                  XsUnwatch(c) /\ ring' = <<>> /\ UNCHANGED xsTransactions
             [] request[c].type = "READ" ->
                  XsAccess(c, request[c].tx_id) /\ ring' = <<>> /\ UNCHANGED daemon
  /\ UNCHANGED <<references, lists, held, call, history, bugcheck>>

\* The call returns: its stack frame, and with it the request, is gone
Return(c) ==
  /\ pc' = [pc EXCEPT ![c] = "idle"] /\ call' = [call EXCEPT ![c] = "none"]
  /\ request' = [request EXCEPT ![c] = Zero] /\ response' = [response EXCEPT ![c] = NoAnswer]

Hold(c, kind)   == held' = [held EXCEPT ![c] = @ \union {kind}]
Forget(c, kind) == held' = [held EXCEPT ![c] = @ \ {kind}]
Answered(c, name) == pc[c] = "reply" /\ call[c] = name

----------------------------------------------------------------------------
(* Transactions                                                            *)

StoreTransactionStart(c) ==
  /\ "transaction" \in Kinds /\ c \notin TransactionList /\ Enter(c, "TransactionStart")
  /\ StorePrepareRequest(c, "TRANSACTION_START", 0)
  /\ UNCHANGED <<references, lists, held, signalled, response, ring, daemon, history, bugcheck>>

\* The last section of the call, with the lock taken again
TransactionStarted(c) ==
  /\ Answered(c, "TransactionStart") /\ Return(c)
  /\ IF response[c].status = "ok"
     THEN /\ transaction' = [transaction EXCEPT ![c] = [Id |-> response[c].id, Active |-> TRUE]]
          /\ TransactionList' = TransactionList \union {c}
          /\ Hold(c, "transaction")
     ELSE UNCHANGED <<transaction, TransactionList, held>>
  /\ UNCHANGED <<references, WatchList, watch, WatchId, BufferList, signalled, ring, daemon,
                 history, bugcheck>>

\* done: off the list, zeroed and freed
TransactionDestroy(c) ==
  /\ TransactionList' = TransactionList \ {c}
  /\ transaction' = [transaction EXCEPT ![c] = [Id |-> 0, Active |-> FALSE]]
  /\ UNCHANGED <<WatchList, watch, WatchId, BufferList>>

StoreTransactionEnd(c) ==
  /\ "transaction" \in held[c]
  /\ IF transaction[c].Active
     THEN /\ Enter(c, "TransactionEnd")
          /\ StorePrepareRequest(c, "TRANSACTION_END", transaction[c].Id)
          /\ UNCHANGED <<lists, held>>
     ELSE /\ pc[c] = "idle" /\ TransactionDestroy(c) /\ Forget(c, "transaction")
          /\ UNCHANGED <<call, pc, request>>
  /\ UNCHANGED <<references, signalled, response, ring, daemon, history, bugcheck>>

\* fail1 to fail3 leave the transaction on its list; the caller has its status
TransactionEnded(c) ==
  /\ Answered(c, "TransactionEnd") /\ Return(c) /\ Forget(c, "transaction")
  /\ IF response[c].status \in {"ok", "again"} THEN TransactionDestroy(c) ELSE UNCHANGED lists
  /\ UNCHANGED <<references, signalled, ring, daemon, history, bugcheck>>

----------------------------------------------------------------------------
(* Watches                                                                 *)

\* StoreNextWatchId: the first id from WatchId on that no watch has
StoreNextWatchId ==
  LET n == CHOOSE k \in 0 .. IdMod - 1 :
             /\ StoreFindWatch((WatchId + k) % IdMod) = {}
             /\ \A j \in 0 .. k - 1 : StoreFindWatch((WatchId + j) % IdMod) # {}
  IN (WatchId + n) % IdMod

StoreWatchAdd(c) ==
  /\ "watch" \in Kinds /\ c \notin WatchList /\ Enter(c, "WatchAdd")
  /\ pc' = [pc EXCEPT ![c] = "listed"]
  /\ watch' = [watch EXCEPT ![c] = [Id |-> StoreNextWatchId, Active |-> TRUE]]
  /\ WatchId' = (StoreNextWatchId + 1) % IdMod
  /\ WatchList' = WatchList \union {c}
  /\ UNCHANGED <<references, TransactionList, transaction, BufferList, held, signalled, request,
                 response, ring, daemon, history, bugcheck>>

\* The lock is dropped and taken again around the token's formatting
WatchPrepare(c) ==
  /\ pc[c] = "listed" /\ StorePrepareRequest(c, "WATCH", 0)
  /\ UNCHANGED <<references, lists, held, signalled, call, response, ring, daemon, history, bugcheck>>

WatchDestroy(c) ==
  /\ WatchList' = WatchList \ {c}
  /\ watch' = [watch EXCEPT ![c] = [Id |-> 0, Active |-> FALSE]]
  /\ UNCHANGED <<TransactionList, transaction, WatchId, BufferList>>

\* Mutant: a watch that could not be set stays on the list.
WatchAddedKeeps(c) ==
  /\ Answered(c, "WatchAdd") /\ Return(c)
  /\ IF response[c].status = "ok" THEN Hold(c, "watch") ELSE UNCHANGED held
  /\ UNCHANGED <<references, lists, signalled, ring, daemon, history, bugcheck>>

\* fail5, fail6: off the list again
WatchAdded(c) ==
  /\ Answered(c, "WatchAdd") /\ Return(c)
  /\ IF response[c].status = "ok"
     THEN Hold(c, "watch") /\ UNCHANGED lists
     ELSE WatchDestroy(c) /\ UNCHANGED held
  /\ UNCHANGED <<references, signalled, ring, daemon, history, bugcheck>>

StoreWatchRemove(c) ==
  /\ "watch" \in held[c]
  /\ IF watch[c].Active
     THEN /\ Enter(c, "WatchRemove") /\ StorePrepareRequest(c, "UNWATCH", 0)
          /\ UNCHANGED <<lists, held>>
     ELSE /\ pc[c] = "idle" /\ WatchDestroy(c) /\ Forget(c, "watch")
          /\ UNCHANGED <<call, pc, request>>
  /\ UNCHANGED <<references, signalled, response, ring, daemon, history, bugcheck>>

\* fail1 to fail3 leave the watch on its list; fdo.c ignores the status
WatchRemoved(c) ==
  /\ Answered(c, "WatchRemove") /\ Return(c) /\ Forget(c, "watch")
  /\ IF response[c].status = "ok" THEN WatchDestroy(c) ELSE UNCHANGED lists
  /\ UNCHANGED <<references, signalled, ring, daemon, history, bugcheck>>

\* The client waits for the watch's event, which is reset by the wait
ClientWait(c) ==
  /\ "watch" \in held[c] /\ pc[c] = "idle" /\ c \in signalled
  /\ signalled' = signalled \ {c} /\ woken' = woken \union {c}
  /\ UNCHANGED <<references, lists, held, call, pc, request, response, ring, daemon, suspends, bugcheck>>

----------------------------------------------------------------------------
(* Values.  StoreRead and StoreDirectory return a buffer; StorePrintf,     *)
(* StoreRemove and StorePermissionsSet send a request in the same way and  *)
(* keep nothing.                                                           *)

StoreAccess(c, name, tx_id) ==
  /\ Enter(c, name) /\ StorePrepareRequest(c, "READ", tx_id)
  /\ UNCHANGED <<references, lists, held, signalled, response, ring, daemon, history, bugcheck>>

StoreRead(c) ==
  /\ "buffer" \in Kinds \ held[c]
  /\ \/ StoreAccess(c, "Read", 0)
     \/ "transaction" \in held[c] /\ transaction[c].Active /\ StoreAccess(c, "Read", transaction[c].Id)

StoreWrite(c) ==
  \/ "buffer" \in Kinds /\ StoreAccess(c, "Write", 0)
  \/ "transaction" \in held[c] /\ transaction[c].Active /\ StoreAccess(c, "Write", transaction[c].Id)

\* StoreCopyPayload
ReadDone(c) ==
  /\ Answered(c, "Read") /\ Return(c)
  /\ IF response[c].status = "ok"
     THEN BufferList' = BufferList \union {c} /\ Hold(c, "buffer")
     ELSE UNCHANGED <<BufferList, held>>
  /\ UNCHANGED <<references, TransactionList, transaction, WatchList, watch, WatchId, signalled,
                 ring, daemon, history, bugcheck>>

WriteDone(c) ==
  /\ Answered(c, "Write") /\ Return(c)
  /\ UNCHANGED <<references, lists, held, signalled, ring, daemon, history, bugcheck>>

StoreFree(c) ==
  /\ "buffer" \in held[c] /\ pc[c] = "idle"
  /\ BufferList' = BufferList \ {c} /\ Forget(c, "buffer")
  /\ UNCHANGED <<references, TransactionList, transaction, WatchList, watch, WatchId, signalled, call,
                 pc, request, response, ring, daemon, history, bugcheck>>

----------------------------------------------------------------------------
(* References                                                              *)

StoreAcquire(c) ==
  /\ c \notin references /\ references' = references \union {c}
  /\ UNCHANGED <<lists, held, signalled, call, pc, request, response, ring, daemon, history, bugcheck>>

\* The last reference: BUG if a list is not empty, otherwise a last poll
StoreRelease(c) ==
  /\ c \in references /\ pc[c] = "idle" /\ held[c] = {}
  /\ references' = references \ {c}
  /\ IF references' = {}
     THEN /\ bugcheck' = (WatchList \union TransactionList \union BufferList # {})
          /\ Drain /\ ring' = <<>>
     ELSE UNCHANGED <<bugcheck, signalled, ring>>
  /\ UNCHANGED <<lists, held, call, pc, request, response, daemon, history>>

----------------------------------------------------------------------------
(* Suspend and resume.  Every processor is captured and the callbacks run  *)
(* alone (module Sync), so for the clients this is one step.               *)

Deactivate(objects, list) == [c \in Clients |-> IF c \in list THEN [objects[c] EXCEPT !.Active = FALSE]
                                                              ELSE objects[c]]

StoreSuspendCallbackEarly ==
  /\ transaction' = Deactivate(transaction, TransactionList)
  /\ watch' = Deactivate(watch, WatchList)

\* Mutant: only watches that are active are signalled.
StoreSuspendCallbackLateActive == signalled' = signalled \union {c \in WatchList : watch'[c].Active}

StoreSuspendCallbackLate == signalled' = signalled \union WatchList

\* The daemon on the other side starts afresh; events it had not written are lost
Suspend ==
  /\ suspends < MaxSuspends /\ suspends' = suspends + 1
  /\ \A c \in Clients \ Passive : pc[c] = "idle"
  /\ xsTransactions' = {} /\ xsWatches' = {} /\ woken' = {}
  /\ \E n \in 0 .. Len(ring) : ring' = SubSeq(ring, 1, n)
  /\ IF references # {}
     THEN StoreSuspendCallbackEarly /\ StoreSuspendCallbackLate
     ELSE UNCHANGED <<transaction, watch, signalled>>
  /\ UNCHANGED <<references, TransactionList, WatchList, WatchId, BufferList, held, call, pc, request,
                 response, bugcheck>>

----------------------------------------------------------------------------
Client(c) ==
  \/ StoreAcquire(c) \/ StoreRelease(c) \/ StoreSubmitRequest(c)
  \/ StoreTransactionStart(c) \/ TransactionStarted(c) \/ StoreTransactionEnd(c) \/ TransactionEnded(c)
  \/ StoreWatchAdd(c) \/ WatchPrepare(c) \/ WatchAdded(c) \/ StoreWatchRemove(c) \/ WatchRemoved(c)
  \/ ClientWait(c) \/ StoreRead(c) \/ ReadDone(c) \/ StoreFree(c) \/ StoreWrite(c) \/ WriteDone(c)

Next ==
  /\ ~bugcheck /\ UNCHANGED mix
  /\ StorePoll \/ XsFire \/ Suspend \/ \E c \in Clients : Client(c)

Spec == Init /\ [][Next]_vars

----------------------------------------------------------------------------
(* Properties                                                              *)

\* The values the fields of the context, of its objects and of a call take, and what
\* StoreNextWatchId is for: however often the counter wraps and whatever fails, no two
\* watches on the list share an id, so that an event finds its watch.
StoreInv ==
  /\ references \subseteq Clients /\ signalled \subseteq Clients /\ woken \subseteq Clients
  /\ TransactionList \subseteq Clients /\ WatchList \subseteq Clients /\ BufferList \subseteq Clients
  /\ transaction \in [Clients -> [Id : TxIds \union {0}, Active : BOOLEAN]]
  /\ watch \in [Clients -> [Id : 0 .. IdMod - 1, Active : BOOLEAN]] /\ WatchId \in 0 .. IdMod - 1
  /\ held \in [Clients -> SUBSET Kinds]
  /\ call \in [Clients -> {"none", "TransactionStart", "TransactionEnd", "WatchAdd", "WatchRemove",
                           "Read", "Write"}]
  /\ pc \in [Clients -> {"idle", "listed", "submit", "reply"}]
  /\ request \in [Clients -> [type : {"none", "TRANSACTION_START", "TRANSACTION_END", "WATCH",
                                      "UNWATCH", "READ"}, tx_id : TxIds \union {0}]]
  /\ response \in [Clients -> [status : {"none", "ok", "again", "error", "null"},
                               id : TxIds \union {0}]]
  /\ ring \in Seq((0 .. IdMod - 1) \X Clients) /\ Len(ring) <= MaxRing
  /\ xsTransactions \subseteq TxIds /\ xsWatches \subseteq (0 .. IdMod - 1) \X Clients
  /\ suspends \in 0 .. MaxSuspends /\ bugcheck \in BOOLEAN
  /\ \A c, d \in WatchList : watch[c].Id = watch[d].Id => c = d

\* The driver and xenstored agree on the open transactions: one that StoreTransactionStart
\* made active is known to the daemon until its end has been answered, and every
\* transaction of the daemon belongs to exactly one that is active, or to one whose start
\* is about to be recorded, whatever suspends happened.  Stated of callers at
\* DISPATCH_LEVEL, as fdo.c's are: no suspend comes between two of their sections.
TransactionInv ==
  LET ending(c)   == Answered(c, "TransactionEnd") /\ response[c].status # "null"
      open(c, id) == c \in TransactionList /\ ~ending(c) /\ transaction[c] = [Id |-> id, Active |-> TRUE]
      started(c, id) == Answered(c, "TransactionStart") /\ response[c] = [status |-> "ok", id |-> id]
  IN Passive = {} =>
     /\ \A c \in TransactionList : transaction[c].Active /\ ~ending(c) => transaction[c].Id \in xsTransactions
     /\ \A id \in xsTransactions : Cardinality({c \in Clients : open(c, id) \/ started(c, id)}) = 1

\* The driver and xenstored agree on the watches: an active watch whose StoreWatchAdd has
\* returned is set in the daemon until StoreWatchRemove has been answered, and a watch
\* that is set in the daemon is on WatchList, active and with the id of its token.
\* Of callers at DISPATCH_LEVEL.
WatchInv == Passive = {} =>
  /\ \A c \in WatchList : watch[c].Active => \/ Token(c) \in xsWatches
                                             \/ call[c] = "WatchAdd"
                                             \/ Answered(c, "WatchRemove")
  /\ \A token \in xsWatches :
       token[2] \in WatchList /\ Token(token[2]) = token /\ watch[token[2]].Active

\* A watch that a suspend has made inactive will not fire again, so its client must be
\* told to set it anew: its event is set, or the client has waited for it since.
WakeInv == \A c \in Clients : "watch" \in held[c] /\ ~watch[c].Active => c \in signalled \union woken

\* StoreRelease finds its lists empty: clients that have ended every transaction, removed
\* every watch and freed every buffer leave nothing behind, as long as allocations succeed
\* (a StoreWatchRemove that has no memory for its response leaves the watch on the list).
\* Of callers at DISPATCH_LEVEL: a suspend between StorePrepareRequest and
\* StoreSubmitRequest has xenstored refuse to end what it no longer knows, and that stays
\* on its list too.
NoBugCheck == bugcheck => NoMemory \/ Passive # {}

\* The driver's lists: unique ids, the same transactions and watches as the daemon's,
\* and nothing left at the end.
ListsInv == StoreInv /\ TransactionInv /\ WatchInv /\ NoBugCheck
=============================================================================
