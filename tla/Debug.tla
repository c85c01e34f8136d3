-------------------------------- MODULE Debug --------------------------------
(***************************************************************************)
(* The debug callbacks (src/src/xenbus/debug.c): a doubly linked list       *)
(* changed under CallbackLock and printed under it by DebugTrigger, but     *)
(* printed without it when the system crashes: the other processors are     *)
(* stopped wherever they are.  One assignment to a link is one step.        *)
(***************************************************************************)
EXTENDS Naturals, FiniteSets

CONSTANTS Reporter    \* callbacks, each registered and deregistered by its owner
ASSUME DebugAssumption ==
  IsFiniteSet(Reporter) /\ Reporter \cap {"list", "none", "free", "trigger"} = {}

VARIABLES
  flink, blink,  \* links of the callbacks and of the head, "list"
  at,            \* what the owner of each callback does
  callbackLock,  \* owner of CallbackLock, or "trigger", or "free"
  cursor,        \* of DebugTriggerLocked
  called,        \* callbacks that it called
  crashed,       \* nobody but the bug check runs
  walkedFreed    \* it went to a callback that is not allocated

debugVars == <<flink, blink, at, callbackLock, cursor, called, crashed, walkedFreed>>
linkVars == <<flink, blink>>
walkVars == <<cursor, called, crashed, walkedFreed>>

DebugInit ==
  /\ flink = [n \in Reporter \cup {"list"} |-> "list"]
  /\ blink = [n \in Reporter \cup {"list"} |-> "list"]
  /\ at = [n \in Reporter |-> "none"] /\ callbackLock = "free"
  /\ cursor = "none" /\ called = {} /\ crashed = FALSE /\ walkedFreed = FALSE

At(n, from, to) == ~crashed /\ at[n] = from /\ at' = [at EXCEPT ![n] = to]
Link(from, to) == flink' = [flink EXCEPT ![from] = to] /\ UNCHANGED blink
BackLink(from, to) == blink' = [blink EXCEPT ![from] = to] /\ UNCHANGED flink

\* DebugRegister, with InsertTailList.
DebugRegister(n) ==
  \/ /\ At(n, "none", "allocated") /\ callbackLock = "free"
     /\ callbackLock' = n /\ UNCHANGED <<linkVars, walkVars>>
  \/ /\ At(n, "allocated", "flink")
     /\ Link(n, "list") /\ UNCHANGED <<callbackLock, walkVars>>
  \/ /\ At(n, "flink", "blink")
     /\ BackLink(n, blink["list"]) /\ UNCHANGED <<callbackLock, walkVars>>
  \/ /\ At(n, "blink", "linked")
     /\ Link(blink["list"], n) /\ UNCHANGED <<callbackLock, walkVars>>
  \/ /\ At(n, "linked", "registered")
     /\ BackLink("list", n) /\ callbackLock' = "free" /\ UNCHANGED walkVars

\* Mutant: the callback is freed before it is taken from the list.
DebugDeregisterFreed(n) ==
  \/ /\ At(n, "registered", "none") /\ callbackLock = "free"
     /\ callbackLock' = n /\ UNCHANGED <<linkVars, walkVars>>
  \/ /\ callbackLock = n /\ At(n, "none", "none") /\ flink[blink[n]] = n
     /\ Link(blink[n], flink[n]) /\ UNCHANGED <<callbackLock, walkVars>>
  \/ /\ callbackLock = n /\ At(n, "none", "none") /\ flink[blink[n]] # n
     /\ BackLink(flink[n], blink[n]) /\ callbackLock' = "free" /\ UNCHANGED walkVars

\* DebugDeregister, with RemoveEntryList; the callback is freed at the end.
DebugDeregister(n) ==
  \/ /\ At(n, "registered", "removing") /\ callbackLock = "free"
     /\ callbackLock' = n /\ UNCHANGED <<linkVars, walkVars>>
  \/ /\ At(n, "removing", "unlinked")
     /\ Link(blink[n], flink[n]) /\ UNCHANGED <<callbackLock, walkVars>>
  \/ /\ At(n, "unlinked", "none")
     /\ BackLink(flink[n], blink[n]) /\ callbackLock' = "free" /\ UNCHANGED walkVars

\* DebugTrigger takes the lock; DebugBugCheckCallback does not.  A crash may come
\* while DebugTrigger is under way.
DebugTrigger ==
  /\ ~crashed /\ callbackLock = "free"
  /\ callbackLock' = "trigger" /\ cursor' = flink["list"] /\ called' = {}
  /\ UNCHANGED <<linkVars, at, crashed, walkedFreed>>

DebugBugCheckCallback ==
  /\ ~crashed /\ crashed' = TRUE
  /\ cursor' = flink["list"] /\ called' = {}
  /\ UNCHANGED <<linkVars, at, callbackLock, walkedFreed>>

\* DebugTriggerLocked.
DebugTriggerLocked ==
  /\ cursor \in Reporter
  /\ called' = called \cup {cursor} /\ cursor' = flink[cursor]
  /\ walkedFreed' = (walkedFreed \/ at[cursor] = "none" \/ cursor \in called)
  /\ UNCHANGED <<linkVars, at, callbackLock, crashed>>

DebugTriggered ==
  /\ cursor = "list" /\ cursor' = "none"
  /\ callbackLock' = IF crashed THEN callbackLock ELSE "free"
  /\ UNCHANGED <<linkVars, at, called, crashed, walkedFreed>>

DebugNext ==
  \/ \E n \in Reporter : DebugRegister(n) \/ DebugDeregister(n)
  \/ DebugTrigger \/ DebugBugCheckCallback \/ DebugTriggerLocked \/ DebugTriggered

DebugSpec == DebugInit /\ [][DebugNext]_debugVars

---------------------------------------------------------------------------
(* A crash at any step of a change of the list: the bug check reaches the   *)
(* end, calls every registered callback once, and touches none that is      *)
(* freed or only half linked.                                               *)
DebugInv ==
  /\ ~walkedFreed
  /\ \A n \in called : at[n] \in {"linked", "registered", "removing"} \/ ~crashed
  /\ crashed /\ cursor = "list" => \A n \in Reporter : at[n] = "registered" => n \in called
=============================================================================
