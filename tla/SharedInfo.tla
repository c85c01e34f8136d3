----------------------------- MODULE SharedInfo -----------------------------
(***************************************************************************)
(* The wall clock of the shared info page (SharedInfoGetTime,              *)
(* src/src/xenbus/shared_info.c).  The hypervisor updates the time of boot *)
(* (wc_sec and wc_nsec) and the time since boot (system_time with the      *)
(* counter it was taken at) each under a version of its own, which is odd  *)
(* while an update is under way.  The guest reads everything between two   *)
(* looks at both versions, which takes many steps.                         *)
(*                                                                         *)
(* Every update writes its own number in each field.  A read is of one     *)
(* field; within the loop's two barriers the order is that of the code.    *)
(***************************************************************************)
EXTENDS Integers

CONSTANT MaxUpdates    \* bound on the number of updates of both kinds

ASSUME SharedInfoAssumption == MaxUpdates \in Nat

VARIABLES
  wall,     \* version, sec and nsec of the boot time in the shared page
  time,     \* version, system (system_time) and stamp (tsc_timestamp) of the VCPU
  clock,    \* where SharedInfoGetTime is, and what it has read
  joint     \* pairs of complete updates, in force together at some moment since it was called

sharedVars == <<wall, time, clock, joint>>

Asleep == [pc |-> "idle", WcVersion |-> 0, TimeVersion |-> 0, Seconds |-> 0, NanoSeconds |-> 0,
           SystemTime |-> 0, Timestamp |-> 0]
InForce == IF wall.version % 2 = 0 /\ time.version % 2 = 0 THEN {<<wall.sec, time.system>>} ELSE {}

SharedInfoInit ==
  /\ wall = [version |-> 0, sec |-> 0, nsec |-> 0]
  /\ time = [version |-> 0, system |-> 0, stamp |-> 0]
  /\ clock = Asleep /\ joint = {}

-----------------------------------------------------------------------------
(* The hypervisor.                                                         *)

\* An update: the version is made odd, the fields are written and it is made even.
UpdateWall ==
  LET n == wall.version \div 2 + 1 IN
  /\ wall' = IF wall.version % 2 = 0 THEN [wall EXCEPT !.version = @ + 1]
             ELSE IF wall.sec # n THEN [wall EXCEPT !.sec = n]
             ELSE IF wall.nsec # n THEN [wall EXCEPT !.nsec = n]
             ELSE [wall EXCEPT !.version = @ + 1]
  /\ wall'.version + time.version <= 2 * MaxUpdates
  /\ UNCHANGED <<time, clock>>
  /\ joint' = IF clock.pc = "idle" THEN joint ELSE joint \cup InForce'

UpdateTime ==
  LET n == time.version \div 2 + 1 IN
  /\ time' = IF time.version % 2 = 0 THEN [time EXCEPT !.version = @ + 1]
             ELSE IF time.stamp # n THEN [time EXCEPT !.stamp = n]
             ELSE IF time.system # n THEN [time EXCEPT !.system = n]
             ELSE [time EXCEPT !.version = @ + 1]
  /\ wall.version + time'.version <= 2 * MaxUpdates
  /\ UNCHANGED <<wall, clock>>
  /\ joint' = IF clock.pc = "idle" THEN joint ELSE joint \cup InForce'

-----------------------------------------------------------------------------
(* SharedInfoGetTime.                                                      *)

SharedInfoGetTime ==
  /\ clock.pc \in {"idle", "done"} /\ clock' = [Asleep EXCEPT !.pc = "wc_version"]
  /\ joint' = InForce
  /\ UNCHANGED <<wall, time>>

Read(from, field, value, next) ==
  /\ clock.pc = from
  /\ clock' = [clock EXCEPT ![field] = value, !.pc = next]
  /\ UNCHANGED <<wall, time, joint>>

ReadTime ==
  \/ Read("wc_version", "WcVersion", wall.version, "version")
  \/ Read("version", "TimeVersion", time.version, "wc_sec")
  \/ Read("wc_sec", "Seconds", wall.sec, "wc_nsec")
  \/ Read("wc_nsec", "NanoSeconds", wall.nsec, "system_time")
  \/ Read("system_time", "SystemTime", time.system, "tsc_timestamp")
  \/ Read("tsc_timestamp", "Timestamp", time.stamp, "check")

\* Mutant: a version that was odd from the start passes.
CheckChangedOnly ==
  /\ \/ /\ clock.pc = "check"
        /\ clock' = [clock EXCEPT !.pc = IF wall.version # clock.WcVersion THEN "wc_version" ELSE "check time"]
     \/ /\ clock.pc = "check time"
        /\ clock' = [clock EXCEPT !.pc = IF time.version # clock.TimeVersion THEN "wc_version" ELSE "done"]
  /\ UNCHANGED <<wall, time, joint>>

\* The loop's condition, one version after the other.
CheckVersions ==
  /\ \/ /\ clock.pc = "check"
        /\ clock' = [clock EXCEPT !.pc = IF wall.version # clock.WcVersion THEN "wc_version" ELSE "check time"]
     \/ /\ clock.pc = "check time"
        /\ clock' = [clock EXCEPT !.pc =
             IF time.version # clock.TimeVersion \/ clock.WcVersion % 2 = 1 \/ clock.TimeVersion % 2 = 1
             THEN "wc_version" ELSE "done"]
  /\ UNCHANGED <<wall, time, joint>>

SharedInfoNext == UpdateWall \/ UpdateTime \/ SharedInfoGetTime \/ ReadTime \/ CheckVersions

SharedInfoSpec == SharedInfoInit /\ [][SharedInfoNext]_sharedVars

-----------------------------------------------------------------------------
\* The time that SharedInfoGetTime works out comes from one update of the boot time and
\* one of the time since boot, that were in force together while it was reading: never
\* from half an update, nor from a boot time and a time since another boot.
TimeConsistent ==
  clock.pc = "done" =>
    /\ clock.Seconds = clock.NanoSeconds /\ clock.SystemTime = clock.Timestamp
    /\ <<clock.Seconds, clock.SystemTime>> \in joint
=============================================================================
