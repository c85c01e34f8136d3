----------------------------- MODULE EvtchnAbi -----------------------------
(***************************************************************************)
(* What an event channel ABI promises evtchn.c (evtchn_abi.h): a port that *)
(* is raised while unmasked is handed to the poll callback, and the ABI    *)
(* never forgets it in between.  EvtchnFifo and EvtchnTwoLevel implement   *)
(* this specification.                                                     *)
(***************************************************************************)
CONSTANT Port

VARIABLES
  raised,     \* ports whose pending flag is set
  masked,     \* ports whose mask flag is set
  due,        \* ports that a poll of their vCPU is bound to visit
  unmasking,  \* ports with an unmask between its two steps
  taken       \* ports handed to the poll callback and not yet acknowledged

vars == <<raised, masked, due, unmasking, taken>>

Init ==
  /\ raised = {} /\ due = {} /\ unmasking = {} /\ taken = {}
  /\ masked = Port

\* The ABI may have other raised ports visited along with those it must.
DueAlso(S) == \E T \in SUBSET (raised' \ masked') : due' = due \cup S \cup T

\* An event arrives.  One that finds its port raised already may be merged.
Send(c) ==
  /\ raised' = raised \cup {c}
  /\ DueAlso(IF c \in masked \cup raised THEN {} ELSE {c})
  /\ UNCHANGED <<masked, unmasking, taken>>

Mask(c) ==
  /\ masked' = masked \cup {c}
  /\ due' \in {due, due \ {c}}
  /\ UNCHANGED <<raised, unmasking, taken>>

\* Unmasking clears the flag, then looks whether the port is raised.
Unmask(c) ==
  /\ masked' = masked \ {c}
  /\ unmasking' = unmasking \cup {c}
  /\ DueAlso({})
  /\ UNCHANGED <<raised, taken>>

UnmaskTest(c) ==
  /\ c \in unmasking
  /\ unmasking' = unmasking \ {c}
  /\ masked' \in {masked, masked \ {c}}
  /\ DueAlso(({c} \cap raised) \ masked')
  /\ UNCHANGED <<raised, taken>>

\* ... or acknowledges it and reports the event to the caller.
UnmaskTake(c) ==
  /\ c \in unmasking
  /\ unmasking' = unmasking \ {c}
  /\ raised' = raised \ {c}
  /\ masked' \in {masked, masked \cup {c}}
  /\ due' \in {due, due \ {c}}
  /\ UNCHANGED taken

\* A poll visits a port: the callback gets it, or it is no longer wanted.
Visit(c) ==
  /\ due' \in {due, due \ {c}}
  /\ taken' = taken \cup {c}
  /\ UNCHANGED <<raised, masked, unmasking>>

Skip(c) ==
  /\ c \notin raised \/ c \in masked
  /\ due' = due \ {c}
  /\ UNCHANGED <<raised, masked, unmasking, taken>>

\* The handler acknowledges, masking first if the client asked for it.
Ack(c) ==
  /\ c \in taken
  /\ taken' = taken \ {c}
  /\ raised' = raised \ {c}
  /\ masked' \in {masked, masked \cup {c}}
  /\ due' \in {due, due \ {c}}
  /\ UNCHANGED unmasking

\* The ABI is released and acquired: each port is unbound, masked and clear.
Reset ==
  /\ raised' = {} /\ due' = {} /\ unmasking' = {} /\ taken' = {}
  /\ masked' = Port

Next ==
  \/ \E c \in Port : \/ Send(c) \/ Mask(c) \/ Unmask(c) \/ UnmaskTest(c)
                     \/ UnmaskTake(c) \/ Visit(c) \/ Skip(c) \/ Ack(c)
  \/ Reset

Spec == Init /\ [][Next]_vars
-----------------------------------------------------------------------------

\* Type invariant of the abstract ABI.
TypeOK ==
  /\ raised \subseteq Port /\ masked \subseteq Port /\ due \subseteq Port
  /\ unmasking \subseteq Port /\ taken \subseteq Port

\* An event on an unmasked port is never lost: a poll will visit the port, its
\* handler has it, or the unmask in progress will find it.
NotLost == raised \ masked \subseteq due \cup taken \cup unmasking
=============================================================================
