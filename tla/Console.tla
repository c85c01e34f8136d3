------------------------------ MODULE Console ------------------------------
(***************************************************************************)
(* The console (src/src/xenbus/console.c): two rings of bytes shared with  *)
(* the backend, an event channel in each direction, and the events of the  *)
(* clients that wait for bytes or for space.                               *)
(*                                                                         *)
(* A byte is its position in its stream, modulo Width like the indices of  *)
(* the rings.  What is done under RingLock, at HIGH_LEVEL, is one step up   *)
(* to the notification of the backend.                                     *)
(***************************************************************************)
EXTENDS Integers, FiniteSets

CONSTANTS
  RingSize,     \* bytes in each ring
  Width,        \* the indices are numbers modulo Width (2^32 in the code)
  MaxBytes,     \* bound on the bytes of each stream
  MaxMigrations \* bound on suspends

ASSUME ConsoleAssumption ==
  /\ RingSize \in Nat \ {0} /\ Width \in Nat /\ Width % RingSize = 0 /\ Width > RingSize
  /\ MaxBytes \in Nat /\ MaxMigrations \in Nat

Way == {"in", "out"}      \* to the guest and from it; each has one client

VARIABLES
  data, prod, cons,  \* the shared page
  sent, got,         \* bytes that went into each stream and came out of it
  wakeup,            \* what each client does: none, running, waiting
  event,             \* clients whose event is set
  notifying,         \* clients with RingLock, about to notify the backend
  dpc, port,         \* the DPC is queued; the guest's port is pending
  backend, owed,     \* the backend is awake; it is about to notify the guest
  migrations, garbled

consoleVars == <<data, prod, cons, sent, got, wakeup, event, notifying, dpc, port,
                 backend, owed, migrations, garbled>>
ringVars == <<data, prod, cons, sent, got, garbled>>
wakeupVars == <<wakeup, event>>
notifyVars == <<notifying, dpc, port, backend, owed, migrations>>

ConsoleInit ==
  /\ data = [w \in Way |-> [i \in 0 .. RingSize - 1 |-> 0]]
  /\ prod = [w \in Way |-> 0] /\ cons = [w \in Way |-> 0]
  /\ sent = [w \in Way |-> 0] /\ got = [w \in Way |-> 0]
  /\ wakeup = [w \in Way |-> "none"] /\ event = {} /\ notifying = {}
  /\ dpc = TRUE /\ port = FALSE /\ backend = TRUE /\ owed = FALSE
  /\ migrations = 0 /\ garbled = FALSE

\* ConsoleInAvailable and ConsoleOutAvailable, in unsigned arithmetic.
InAvailable(w)  == (prod[w] - cons[w]) % Width
OutAvailable(w) == (cons[w] + RingSize - prod[w]) % Width
Fewer(a, b) == IF a < b THEN a ELSE b
Available(w) == IF w = "in" THEN InAvailable(w) ELSE OutAvailable(w)

\* ConsoleCopyToOut: the bytes go in pieces that end where the ring ends, and
\* the producer index is published after them.
Put(w, n) ==
  /\ sent' = [sent EXCEPT ![w] = @ + n]
  /\ data' = [data EXCEPT ![w] = [i \in DOMAIN data[w] |->
       IF \E k \in 0 .. n - 1 : (prod[w] + k) % RingSize = i
       THEN (sent[w] + ((i - prod[w]) % RingSize)) % Width ELSE data[w][i]]]
  /\ prod' = [prod EXCEPT ![w] = (@ + n) % Width]
  /\ UNCHANGED <<cons, got, garbled>>

\* ConsoleCopyFromIn.
Take(w, n) ==
  /\ got' = [got EXCEPT ![w] = @ + n]
  /\ garbled' = (garbled \/ \E k \in 0 .. n - 1 :
                   data[w][(cons[w] + k) % RingSize] # (got[w] + k) % Width)
  /\ cons' = [cons EXCEPT ![w] = (@ + n) % Width]
  /\ UNCHANGED <<data, prod, sent>>

Unlocked == notifying = {}    \* RingLock is free

ConsoleRead(length) ==
  LET n == Fewer(length, InAvailable("in"))
  IN /\ Unlocked /\ wakeup["in"] = "running" /\ n > 0
     /\ Take("in", n)
     /\ notifying' = {"in"}
     /\ UNCHANGED <<wakeupVars, dpc, port, backend, owed, migrations>>

ConsoleWrite(length) ==
  LET n == Fewer(length, OutAvailable("out"))
  IN /\ Unlocked /\ wakeup["out"] = "running" /\ n > 0 /\ sent["out"] + n <= MaxBytes
     /\ Put("out", n)
     /\ notifying' = {"out"}
     /\ UNCHANGED <<wakeupVars, dpc, port, backend, owed, migrations>>

\* XENBUS_EVTCHN(Send) and the release of RingLock.
ConsoleSend ==
  /\ ~Unlocked
  /\ notifying' = {} /\ backend' = TRUE
  /\ UNCHANGED <<ringVars, wakeupVars, dpc, port, owed, migrations>>

\* A client that finds nothing available by ConsoleCanRead or ConsoleCanWrite
\* waits for its event, which the wait clears.
ConsoleCan(w) ==
  /\ Unlocked /\ wakeup[w] = "running" /\ Available(w) = 0
  /\ wakeup' = [wakeup EXCEPT ![w] = "waiting"]
  /\ UNCHANGED <<ringVars, event, notifyVars>>

Woken(w) ==
  /\ wakeup[w] = "waiting" /\ w \in event
  /\ wakeup' = [wakeup EXCEPT ![w] = "running"]
  /\ event' = event \ {w}
  /\ UNCHANGED <<ringVars, notifyVars>>

\* A client adds its event before it looks at the ring for the first time.
ConsoleWakeupAdd(w) ==
  /\ wakeup[w] = "none"
  /\ wakeup' = [wakeup EXCEPT ![w] = "running"]
  /\ UNCHANGED <<ringVars, event, notifyVars>>

ConsoleWakeupRemove(w) ==
  /\ wakeup[w] = "running" /\ w \notin notifying
  /\ wakeup' = [wakeup EXCEPT ![w] = "none"]
  /\ event' = event \ {w}
  /\ UNCHANGED <<ringVars, notifyVars>>

\* ConsoleEvtchnCallback: a DPC that is queued already is not queued again.
ConsoleEvtchnCallback ==
  /\ port /\ port' = FALSE /\ dpc' = TRUE
  /\ UNCHANGED <<ringVars, wakeupVars, notifying, backend, owed, migrations>>

\* ConsolePoll: the events of all clients are set, for either ring.
ConsolePoll == event' = {w \in Way : wakeup[w] # "none"}
ConsoleDpc ==
  /\ dpc /\ dpc' = FALSE
  /\ ConsolePoll
  /\ UNCHANGED <<ringVars, wakeup, notifying, port, backend, owed, migrations>>

\* Mutant: nobody looks at what came while the channel was closed.
ConsoleEnableQuiet == UNCHANGED dpc
\* ConsoleEnable on a new channel: the DPC is queued.
ConsoleEnable == dpc' = TRUE

\* ConsoleSuspendCallbackLate, with the other processors captured: none of
\* them is inside RingLock.  An event that was pending is lost, and the
\* backend of the new host starts by looking at the rings.
ConsoleSuspendCallbackLate ==
  /\ migrations < MaxMigrations /\ Unlocked
  /\ migrations' = migrations + 1
  /\ port' = FALSE /\ owed' = FALSE /\ backend' = TRUE
  /\ ConsoleEnable
  /\ UNCHANGED <<ringVars, wakeupVars, notifying>>

---------------------------------------------------------------------------
(* The backend: it moves bytes, notifies the guest, and sleeps when it can  *)
(* do nothing more.                                                        *)
BackendMoves ==
  /\ backend /\ ~owed
  /\ owed' = TRUE
  /\ \/ InAvailable("out") > 0 /\ Take("out", 1)
     \/ OutAvailable("in") > 0 /\ sent["in"] < MaxBytes /\ Put("in", 1)
  /\ UNCHANGED <<wakeupVars, notifying, dpc, port, backend, migrations>>

BackendNotifies ==
  /\ owed /\ owed' = FALSE /\ port' = TRUE
  /\ UNCHANGED <<ringVars, wakeupVars, notifying, dpc, backend, migrations>>

BackendSleeps ==
  /\ backend /\ ~owed /\ InAvailable("out") = 0
  /\ OutAvailable("in") = 0 \/ sent["in"] = MaxBytes
  /\ backend' = FALSE
  /\ UNCHANGED <<ringVars, wakeupVars, notifying, dpc, port, owed, migrations>>

ConsoleNext ==
  \/ \E length \in 1 .. RingSize : ConsoleRead(length) \/ ConsoleWrite(length)
  \/ ConsoleSend
  \/ \E w \in Way : ConsoleCan(w) \/ Woken(w) \/ ConsoleWakeupAdd(w) \/ ConsoleWakeupRemove(w)
  \/ ConsoleEvtchnCallback \/ ConsoleDpc \/ ConsoleSuspendCallbackLate
  \/ BackendMoves \/ BackendNotifies \/ BackendSleeps

ConsoleSpec == ConsoleInit /\ [][ConsoleNext]_consoleVars

---------------------------------------------------------------------------
(* Each byte arrives once, in order and unchanged, also when the indices     *)
(* wrap; a ring never holds more than its size.                              *)
StreamsIntact ==
  /\ ~garbled
  /\ \A w \in Way : got[w] <= sent[w] /\ sent[w] - got[w] = InAvailable(w)
                 /\ InAvailable(w) <= RingSize

(* No wakeup is lost, also not by a suspend: a client that waits although    *)
(* there are bytes or space for it will be woken, and so will a backend that *)
(* sleeps with bytes to fetch.                                               *)
WakeupComes ==
  /\ \A w \in Way : wakeup[w] = "waiting" /\ Available(w) > 0 =>
       w \in event \/ dpc \/ port \/ owed
  /\ ~backend /\ InAvailable("out") > 0 => ~Unlocked

ConsoleInv == StreamsIntact /\ WakeupComes
=============================================================================
