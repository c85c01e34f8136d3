-------------------------------- MODULE Fdo --------------------------------
(***************************************************************************)
(* The bus driver (src/src/xenbus/fdo.c): creation, PnP and power requests, *)
(* the interfaces it holds in D0, its three threads (thread.c) and the      *)
(* children they add and remove.                                           *)
(*                                                                         *)
(* A request to the device stack is one at a time, as the PnP and power    *)
(* managers issue them; it steps through ipc.  The threads step through    *)
(* tpc beside it.  The scan thread reads the devices in the store and      *)
(* changes the list of children; the suspend thread answers control/       *)
(* shutdown; the balloon thread follows memory/target.  An event of a      *)
(* thread is in the set event, its idle event (ScanEvent, SuspendEvent,    *)
(* BalloonEvent) in the set done.                                          *)
(***************************************************************************)
EXTENDS Pdo, Sequences

CONSTANTS
  Synthetic,    \* classes the registry adds to those of the store
  Workloads,    \* bound: the kinds of request and outside event one behaviour has
  Budget        \* bound on the number of outside events and failures

ASSUME FdoAssumption == IsFiniteSet(Pdos) /\ Synthetic \subseteq Class /\ Budget \in Nat

VARIABLES
  dx,           \* the FDO's own PnP, power and system state
  active,       \* Fdo->Active
  ballooning,   \* there is a balloon context
  made,         \* stages of FdoCreate and FdoStartDevice that are in place
  held,         \* stages of FdoD3ToD0 that are in place
  tpc, event, alerted, done,    \* the threads
  owner,        \* of BalloonSuspendMutex
  balActive, wanted, Size,      \* the balloon thread and the balloon
  classes,      \* the list FdoScan has read
  ipc, op,      \* the request being handled
  invalid,      \* IoInvalidateDeviceRelations was called
  relations,    \* the children FdoQueryDeviceRelations is reporting
  device, shutdown, target,     \* the store: device/, control/shutdown, memory/target
  lost,       \* an allocation, a read or a request failed, or a scan was skipped
  budget, workload

fdos    == <<dx, active, ballooning, made, held>>
threads == <<tpc, event, alerted, done>>
balloon == <<owner, balActive, wanted, Size>>
irps    == <<ipc, op, relations>>
store   == <<device, shutdown, target>>
moving  == <<pdo, references, fdos, threads, balloon, classes, irps, invalid, store, lost, budget>>
vars    == <<moving, workload>>

Threads == {"scan", "suspend", "balloon"}

CreateStages ==
  <<"device", "fdo", "attach", "systemwork", "devicework", "lowerbus", "vendor", "emulated",
    "debug", "suspend", "sharedinfo", "evtchn", "rangeset", "cache", "gnttab", "store",
    "console", "unplug", "balloon">>
StartStages == <<"raw", "translated", "lower", "interrupt", "scan", "suspend", "balloon">>
PowerStages ==
  <<"debug", "suspend", "rangeset", "pcihole", "evtchn", "store", "console", "balloon",
    "virq", "disposition", "scanwatch", "suspendwatch", "balloonwatch", "late", "debugcallback">>

\* The stages of a chain that got as far as n, and those its error labels undo.
Taken(stages, n)   == {stages[i] : i \in 1..n}
Unwound(stages, n) == Taken(stages, n)
Left(stages, n) ==
  IF n = Len(stages) THEN Taken(stages, n) ELSE Taken(stages, n) \ Unwound(stages, n)

Spend == budget > 0 /\ budget' = budget - 1
Fail  == "failure" \in workload /\ Spend /\ lost' = TRUE

-----------------------------------------------------------------------------
(* Threads (thread.c): Wake, Alert, and what each idle loop waits for.     *)

Wake(ts) == event \cup {t \in ts : tpc[t] # "none"}
Goto(t, pc) == tpc' = [tpc EXCEPT ![t] = pc]
Existing == {t \in Threads : tpc[t] # "none"}

\* A watch of the store signals the thread's event.
Watched(t) == IF t \o "watch" \in held THEN {t} ELSE {}

\* KeWaitForSingleObject and KeClearEvent; the balloon thread times out while
\* it is Active.
ThreadAwake(t) ==
  /\ tpc[t] = "wait"
  /\ t \in event \/ (t = "balloon" /\ balActive)
  /\ event' = event \ {t}
  /\ Goto(t, "check")
  /\ UNCHANGED <<alerted, done, pdo, references, fdos, balloon, classes, irps, invalid,
                 store, lost, budget>>

\* The end of ThreadFunction's loop: the idle event, for the waiter of the
\* drain protocol, and the next wait or the exit.
ThreadLoop(t) ==
  /\ tpc[t] = "loop"
  /\ done' = IF t = "balloon" /\ balActive THEN done ELSE done \cup {t}
  /\ Goto(t, "wait")
  /\ UNCHANGED <<event, alerted, pdo, references, fdos, balloon, classes, irps, invalid,
                 store, lost, budget>>

ThreadExit(t) ==
  /\ tpc[t] = "check" /\ t \in alerted
  /\ done' = done \cup {t}
  /\ Goto(t, "exited")
  /\ UNCHANGED <<event, alerted, pdo, references, fdos, balloon, classes, irps, invalid,
                 store, lost, budget>>

-----------------------------------------------------------------------------
(* FdoScan: read the classes, and FdoEnumerate under the mutex.            *)

CaughtUp == {pdo[p].class : p \in Live} = device \cup Synthetic

\* Mutant: without the comparison of the class names, every scan creates anew.
NewClassesAll == classes

ScanGuard ==
  /\ tpc["scan"] = "check" /\ "scan" \notin alerted
  /\ Goto("scan", IF dx.pnp = "Started" THEN "read" ELSE "loop")
  /\ lost' = (lost \/ (dx.pnp \in {"StopPending", "RemovePending"} /\ ~CaughtUp))
  /\ UNCHANGED <<event, alerted, done, pdo, references, fdos, balloon, classes, irps,
                 invalid, store, budget>>

\* A Directory that fails is taken for an empty list.
ScanRead ==
  /\ tpc["scan"] = "read"
  /\ \/ classes' = device \cup Synthetic /\ UNCHANGED <<lost, budget>>
     \/ classes' = Synthetic /\ Fail
  /\ Goto("scan", "enumerate")
  /\ UNCHANGED <<event, alerted, done, pdo, references, fdos, balloon, irps, invalid, store>>

\* The children whose class is gone, and the classes that have no child.
Vanished == {p \in Live : pdo[p].pnp # "Deleted" /\ pdo[p].class \notin classes}
Dropped  == {p \in Vanished : pdo[p].pnp = "Present"}
NewClasses == classes \ {pdo[p].class : p \in Live}

\* Free identities for the new classes, for those whose PdoCreate succeeds.
Chosen(made_) ==
  {f \in [made_ -> Pdos \ Listed] : \A c, d \in made_ : c # d => f[c] # f[d]}

AfterEnumerate(f) ==
  [p \in Pdos |->
     IF \E c \in DOMAIN f : f[c] = p THEN NewPdo(CHOOSE c \in DOMAIN f : f[c] = p)
     ELSE IF p \in Dropped THEN NoPdo
     ELSE IF p \in Vanished THEN SetMissing(pdo[p])
     ELSE pdo[p]]

\* Mutant: the state of a child that disappeared is not looked at.
FdoEnumerateDropsAll ==
  /\ tpc["scan"] = "enumerate"
  /\ Chosen(NewClasses) # {}
  /\ LET f == CHOOSE g \in Chosen(NewClasses) : TRUE IN
       /\ pdo' = [p \in Pdos |-> IF p \in Vanished THEN NoPdo ELSE AfterEnumerate(f)[p]]
       /\ references' = references + Cardinality(NewClasses) - Cardinality(Vanished)
  /\ invalid' = (invalid \/ NewClasses # {})
  /\ Goto("scan", "loop")
  /\ UNCHANGED <<event, alerted, done, fdos, balloon, classes, irps, store, lost, budget>>

FdoEnumerate ==
  /\ tpc["scan"] = "enumerate"
  /\ \E born \in {NewClasses} \cup (IF "failure" \in workload THEN SUBSET NewClasses ELSE {}) :
       /\ Chosen(born) # {}
       /\ LET f == CHOOSE g \in Chosen(born) : TRUE IN
            /\ pdo' = AfterEnumerate(f)
            /\ references' = references + Cardinality(born) - Cardinality(Dropped)
       /\ IF born = NewClasses THEN UNCHANGED <<lost, budget>> ELSE Fail
       /\ invalid' = (invalid \/ born # {} \/ Vanished # Dropped)
  /\ event' = IF Dropped # {} THEN Wake({"scan"}) ELSE event
  /\ classes' = {} /\ Goto("scan", "loop")
  /\ UNCHANGED <<alerted, done, fdos, balloon, irps, store>>

-----------------------------------------------------------------------------
(* FdoSuspend.                                                             *)

SuspendGuard ==
  /\ tpc["suspend"] = "check" /\ "suspend" \notin alerted
  /\ Goto("suspend", IF dx.power = "D0" THEN "read" ELSE "loop")
  /\ UNCHANGED <<event, alerted, done, pdo, references, fdos, balloon, classes, irps,
                 invalid, store, lost, budget>>

\* control/shutdown, and __FdoSuspendSetActive.
SuspendRead ==
  /\ tpc["suspend"] = "read"
  /\ IF shutdown /\ owner = "free"
       THEN Goto("suspend", "trigger") /\ owner' = "suspend"
       ELSE Goto("suspend", "loop") /\ UNCHANGED owner
  /\ UNCHANGED <<event, alerted, done, pdo, references, fdos, balActive, wanted, Size,
                 classes, irps, invalid, store, lost, budget>>

\* Clear the request and trigger.  FdoSuspendCallbackLate takes the watches off
\* and puts them back, and a new watch fires; PdoSuspendCallbackLate takes each
\* child through D3 and back.
SuspendTrigger ==
  /\ tpc["suspend"] = "trigger"
  /\ shutdown' = FALSE
  /\ event' = Wake(UNION {Watched(t) : t \in Threads})
  /\ Goto("suspend", "clear")
  /\ UNCHANGED <<alerted, done, pdo, references, fdos, balloon, classes, irps, invalid,
                 device, target, lost, budget>>

\* __FdoSuspendClearActive.
SuspendClearActive ==
  /\ tpc["suspend"] = "clear"
  /\ owner' = "free"
  /\ event' = IF ballooning THEN Wake({"balloon"}) ELSE event
  /\ Goto("suspend", "loop")
  /\ UNCHANGED <<alerted, done, pdo, references, fdos, balActive, wanted, Size, classes,
                 irps, invalid, store, lost, budget>>

-----------------------------------------------------------------------------
(* FdoBalloon.                                                             *)

\* Mutant: the suspend thread is not woken.
BalloonClearsQuietly == owner' = "free" /\ balActive' = FALSE /\ UNCHANGED event

\* __FdoBalloonClearActive.
BalloonClears == owner' = "free" /\ balActive' = FALSE /\ event' = Wake({"suspend"})

\* Mutant: Active is kept when the device has left D0.
BalloonGuardKeeps ==
  /\ tpc["balloon"] = "check" /\ "balloon" \notin alerted
  /\ Goto("balloon", CASE dx.power = "D0" -> "read" [] OTHER -> "loop")
  /\ UNCHANGED <<event, alerted, done, pdo, references, fdos, balloon, classes, irps,
                 invalid, store, lost, budget>>

BalloonGuard ==
  /\ tpc["balloon"] = "check" /\ "balloon" \notin alerted
  /\ Goto("balloon", CASE dx.power = "D0" -> "read" [] balActive -> "clear" [] OTHER -> "loop")
  /\ UNCHANGED <<event, alerted, done, pdo, references, fdos, balloon, classes, irps,
                 invalid, store, lost, budget>>

\* memory/static-max and memory/target give the wanted size; nothing to do, or
\* __FdoBalloonSetActive.
BalloonRead ==
  /\ tpc["balloon"] = "read"
  /\ wanted' = IF Size = target THEN 0 ELSE target
  /\ IF Size = target \/ (~balActive /\ owner # "free")
       THEN Goto("balloon", "loop") /\ UNCHANGED <<owner, balActive>>
       ELSE Goto("balloon", "adjust") /\ owner' = "balloon" /\ balActive' = TRUE
  /\ UNCHANGED <<event, alerted, done, pdo, references, fdos, Size, classes, irps, invalid,
                 store, lost, budget>>

\* BalloonAdjust reaches the size, or stops short and is retried after the
\* timeout with Active still set.
BalloonAdjust ==
  /\ tpc["balloon"] = "adjust"
  /\ Size' = wanted /\ wanted' = 0
  /\ Goto("balloon", "clear")
  /\ UNCHANGED <<event, alerted, done, pdo, references, fdos, owner, balActive,
                 classes, irps, invalid, store, lost, budget>>

BalloonAdjustFails ==
  /\ tpc["balloon"] = "adjust"
  /\ Goto("balloon", "loop") /\ wanted' = 0
  /\ UNCHANGED <<event, alerted, done, pdo, references, fdos, owner, balActive, Size, classes, irps, invalid,
                 store, lost, budget>>

BalloonClearActive ==
  /\ tpc["balloon"] = "clear"
  /\ BalloonClears
  /\ Goto("balloon", "loop")
  /\ UNCHANGED <<alerted, done, pdo, references, fdos, wanted, Size, classes, irps, invalid,
                 store, lost, budget>>

ThreadStep(t) == ThreadAwake(t) \/ ThreadLoop(t) \/ ThreadExit(t)
ScanNext    == ThreadStep("scan") \/ ScanGuard \/ ScanRead \/ FdoEnumerate
SuspendNext == ThreadStep("suspend") \/ SuspendGuard \/ SuspendRead \/ SuspendTrigger
               \/ SuspendClearActive
BalloonNext == ThreadStep("balloon") \/ BalloonGuard \/ BalloonRead \/ BalloonAdjust
               \/ BalloonAdjustFails \/ BalloonClearActive
ThreadNext  == ScanNext \/ SuspendNext \/ BalloonNext

-----------------------------------------------------------------------------
(* Requests.  At moves the request on; Complete ends it.                   *)

Idle == ipc = "none"
Awake == dx.system = "S0"
At(pc) == ipc' = pc /\ UNCHANGED <<op, relations>>
Complete == ipc' = "none" /\ op' = "none" /\ relations' = {}
Begin(o, pc) == Idle /\ op' = o /\ ipc' = pc /\ UNCHANGED relations

\* FdoCreate.  Only the active FDO has contexts; the balloon's is optional.
Created(n) ==
  LET left == Left(CreateStages, n)
      out  == (IF active' THEN {} ELSE {CreateStages[i] : i \in 9..19})
              \cup (IF ballooning' THEN {} ELSE {"balloon"})
  IN  left \ out

FdoCreate(n) ==
  /\ dx.pnp = "None" /\ Idle
  /\ active' \in BOOLEAN /\ ballooning' \in {b \in BOOLEAN : b => active' /\ "target" \in workload}
  /\ made' = Created(n)
  /\ IF n = Len(CreateStages)
       THEN dx' = [NoPdo EXCEPT !.pnp = "Added"] /\ references' = 1 /\ UNCHANGED <<lost, budget>>
       ELSE Fail /\ UNCHANGED <<dx, references>>
  /\ UNCHANGED <<pdo, held, threads, balloon, classes, irps, invalid, store>>

\* FdoDestroy, when the last reference is gone.
Destroyed ==
  /\ dx' = NoPdo /\ made' = {} /\ active' = FALSE /\ ballooning' = FALSE

\* FdoStartDevice as far as stage n: the resource lists, the lower driver, the
\* interrupt and the threads.  The threads of a start that fails are joined.
ThreadStages == {"scan", "suspend"} \cup (IF ballooning THEN {"balloon"} ELSE {})
FirstStages  == Threads \cup {"interrupt"}
Starting(n) ==
  Taken(StartStages, n) \ (IF active THEN Threads \ ThreadStages ELSE FirstStages)

FdoStartDevice(n) ==
  /\ dx.pnp \in {"Added", "Stopped"} /\ Awake
  /\ Begin(IF n = Len(StartStages) THEN "start" ELSE "startfailed",
           IF n = Len(StartStages) THEN "d3tod0" ELSE "join")
  /\ made' = made \cup (Starting(n) \ (Threads \cup {"lower"}))
  /\ tpc' = [t \in Threads |-> IF t \in Starting(n) THEN "wait" ELSE tpc[t]]
  /\ IF n = Len(StartStages) THEN UNCHANGED <<lost, budget>> ELSE Fail
  /\ UNCHANGED <<dx, active, ballooning, held, event, alerted, done, pdo, references, balloon,
                 classes, invalid, store>>

-----------------------------------------------------------------------------
(* FdoD3ToD0 and FdoD0ToD3.  Both take and release the interfaces at       *)
(* DISPATCH_LEVEL, one step here.                                          *)

\* An inactive FDO takes nothing; the console, and the hole in a BAR, are
\* optional.
Optional == {"console", "disposition", "pcihole"}
Applicable ==
  IF ~active THEN {}
  ELSE Taken(PowerStages, Len(PowerStages))
       \ (IF ballooning THEN {} ELSE {"balloon", "balloonwatch"})

FdoD3ToD0(n) ==
  /\ ipc = "d3tod0"
  /\ held' = held \cup (Left(PowerStages, n) \cap Applicable)
  /\ IF n = Len(PowerStages)
       THEN /\ dx' = [dx EXCEPT !.power = "D0"]
            /\ event' = Wake({t \in Threads : t \o "watch" \in Applicable})
            /\ UNCHANGED <<lost, budget>>
       ELSE active /\ Fail /\ UNCHANGED <<dx, event>>
  /\ ipc' = IF op = "wake" THEN "finish" ELSE IF n < Len(PowerStages) THEN "join"
            ELSE IF ballooning THEN "startdrain" ELSE "finish"
  /\ op' = IF op = "start" /\ n < Len(PowerStages) THEN "startfailed" ELSE op
  /\ UNCHANGED relations
  /\ UNCHANGED <<active, ballooning, made, tpc, alerted, done, pdo, references, balloon,
                 classes, invalid, store>>

\* The drain protocol: clear the idle event, wake the thread, and wait.
Drain(t) == done' = done \ {t} /\ event' = Wake({t})

FdoStartDrain ==
  /\ ipc = "startdrain"
  /\ Drain("balloon") /\ At("startwait")
  /\ UNCHANGED <<tpc, alerted, pdo, references, fdos, balloon, classes, invalid, store,
                 lost, budget>>

FdoStartWait ==
  /\ ipc = "startwait" /\ "balloon" \in done
  /\ At("finish")
  /\ UNCHANGED <<pdo, references, fdos, threads, balloon, classes, invalid, store, lost, budget>>

\* FdoD0ToD3, entered by a request that finds the device in D0: set D3 and
\* drain the balloon thread ...
FdoSetD3 ==
  /\ ipc = "d0tod3"
  /\ dx' = [dx EXCEPT !.power = "D3"]
  /\ IF ballooning THEN Drain("balloon") ELSE UNCHANGED <<done, event>>
  /\ At(IF active THEN "drainsuspend" ELSE "release")
  /\ UNCHANGED <<active, ballooning, made, held, tpc, alerted, pdo, references, balloon,
                 classes, invalid, store, lost, budget>>

\* Mutant: the wait for the balloon thread is left out.
FdoDrainSuspendEager ==
  /\ ipc = "drainsuspend"
  /\ Drain("suspend") /\ At("release")
  /\ UNCHANGED <<tpc, alerted, pdo, references, fdos, balloon, classes, invalid, store,
                 lost, budget>>

\* ... then the suspend thread ...
FdoDrainSuspend ==
  /\ ipc = "drainsuspend" /\ (ballooning => "balloon" \in done)
  /\ Drain("suspend") /\ At("release")
  /\ UNCHANGED <<tpc, alerted, pdo, references, fdos, balloon, classes, invalid, store,
                 lost, budget>>

\* ... and release everything.
FdoRelease ==
  /\ ipc = "release" /\ (active => "suspend" \in done)
  /\ held' = held \ Applicable
  /\ At(IF op \in {"stop", "remove"} THEN "join" ELSE "finish")
  /\ UNCHANGED <<dx, active, ballooning, made, threads, pdo, references, balloon, classes,
                 invalid, store, lost, budget>>

\* ThreadAlert and ThreadJoin: the balloon thread, the suspend thread, the scan
\* thread.
NextJoined == IF tpc["balloon"] # "none" THEN "balloon"
              ELSE IF tpc["suspend"] # "none" THEN "suspend" ELSE "scan"

ThreadAlert ==
  /\ ipc = "join" /\ Existing # {} /\ NextJoined \notin alerted
  /\ alerted' = alerted \cup {NextJoined} /\ event' = Wake({NextJoined})
  /\ UNCHANGED <<tpc, done, pdo, references, fdos, balloon, classes, irps, invalid, store,
                 lost, budget>>

ThreadJoin ==
  /\ ipc = "join" /\ Existing # {} /\ tpc[NextJoined] = "exited"
  /\ Goto(NextJoined, "none")
  /\ event' = event \ {NextJoined} /\ done' = done \ {NextJoined}
  /\ alerted' = alerted \ {NextJoined}
  /\ UNCHANGED <<pdo, references, fdos, balloon, classes, irps, invalid, store, lost, budget>>

\* FdoDestroyInterrupt and the resource lists.
Joined ==
  /\ ipc = "join" /\ Existing = {}
  /\ made' = made \ {"interrupt", "raw", "translated"}
  /\ At("finish")
  /\ UNCHANGED <<dx, active, ballooning, held, threads, pdo, references, balloon, classes,
                 invalid, store, lost, budget>>

-----------------------------------------------------------------------------
(* PnP requests to the FDO.                                                *)

InState(states) == dx.pnp \in states /\ Idle /\ Awake
Children(states) == {p \in Pdos : PdoIs(p, states)}
Fdos(d) == dx' = d /\ UNCHANGED <<active, ballooning, made, held>>

\* Mutant: the scan thread is not woken.
FdoStartedQuietly ==
  /\ ipc = "finish" /\ op = "start"
  /\ Fdos(SetPnp(dx, "Started"))
  /\ UNCHANGED event
  /\ Complete
  /\ UNCHANGED <<tpc, alerted, done, pdo, references, balloon, classes, invalid, store, lost, budget>>

\* FdoStartDevice, at its end.
FdoStarted ==
  /\ ipc = "finish" /\ op = "start"
  /\ Fdos(SetPnp(dx, "Started"))
  /\ event' = IF active THEN Wake({"scan"}) ELSE event
  /\ Complete
  /\ UNCHANGED <<tpc, alerted, done, pdo, references, balloon, classes, invalid, store, lost, budget>>

FdoStartFailed ==
  /\ ipc = "finish" /\ op = "startfailed"
  /\ Complete
  /\ UNCHANGED <<pdo, references, fdos, threads, balloon, classes, invalid, store, lost, budget>>

\* FdoQueryStopDevice and FdoQueryRemoveDevice refuse while pages are ballooned out.
Query(state) ==
  /\ ballooning => Size = 0
  /\ Fdos(SetPnp(dx, state))
  /\ UNCHANGED <<pdo, references, threads, balloon, classes, irps, invalid, store, lost, budget>>

FdoQueryStopDevice ==
  /\ "stop" \in workload
  /\ InState({"Started"}) /\ Children({"Started", "RemovePending"}) = {} /\ Query("StopPending")

FdoQueryRemoveDevice ==
  /\ "remove" \in workload
  /\ InState({"Started"}) /\ Children({"Started", "StopPending"}) = {} /\ Query("RemovePending")

\* FdoCancelStopDevice and FdoCancelRemoveDevice.
FdoCancelDevice(state) ==
  /\ InState({state}) /\ Children({"Stopped"}) = {}
  /\ Fdos(RestorePnp(dx, state))
  /\ UNCHANGED <<pdo, references, threads, balloon, classes, irps, invalid, store, lost, budget>>

\* FdoStopDevice.
ToD3(pc) == IF dx.power = "D0" THEN "d0tod3" ELSE pc

FdoStopDevice ==
  /\ InState({"StopPending"}) /\ Children({"Started", "StopPending"}) = {}
  /\ Begin("stop", ToD3("join"))
  /\ UNCHANGED <<pdo, references, fdos, threads, balloon, classes, invalid, store, lost, budget>>

FdoStopped ==
  /\ ipc = "finish" /\ op = "stop"
  /\ Fdos(SetPnp(dx, "Stopped")) /\ Complete
  /\ UNCHANGED <<pdo, references, threads, balloon, classes, invalid, store, lost, budget>>

\* FdoSurpriseRemoval.
FdoSurpriseRemoval ==
  /\ "remove" \in workload /\ InState({"Started", "Stopped"}) /\ Spend
  /\ Fdos(SetPnp(dx, "SurpriseRemovePending"))
  /\ pdo' = [p \in Pdos |-> IF p \in Listed THEN SetMissing(pdo[p]) ELSE pdo[p]]
  /\ UNCHANGED <<references, threads, balloon, classes, irps, invalid, store, lost>>

\* FdoRemoveDevice: skip to the end unless the device was started; else drain
\* the scan thread, ...
FdoRemoveDevice ==
  /\ InState({"Added", "RemovePending", "SurpriseRemovePending", "Stopped"})
  /\ Children({"Started", "StopPending", "Stopped", "RemovePending"}) = {}
  /\ IF dx.prev # "Started"
       THEN Begin("remove", "finish") /\ UNCHANGED <<event, done>>
       ELSE /\ Begin("remove", "removechildren")
            /\ IF active THEN Drain("scan") ELSE UNCHANGED <<event, done>>
  /\ UNCHANGED <<tpc, alerted, pdo, references, fdos, balloon, classes, invalid, store, lost, budget>>

\* ... mark every child missing and destroy those no REMOVE_DEVICE will follow for, ...
Doomed == {p \in Listed : pdo[p].pnp # "SurpriseRemovePending"}

FdoRemoveChildren ==
  /\ ipc = "removechildren" /\ (active => "scan" \in done)
  /\ pdo' = [p \in Pdos |-> IF p \in Doomed THEN NoPdo
                            ELSE IF p \in Listed THEN SetMissing(pdo[p]) ELSE pdo[p]]
  /\ references' = references - Cardinality(Doomed)
  /\ event' = IF Doomed # {} THEN Wake({"scan"}) ELSE event
  /\ At(ToD3("join"))
  /\ UNCHANGED <<tpc, alerted, done, fdos, balloon, classes, invalid, store, lost, budget>>

\* ... and, with the interfaces released and the threads joined, drop the last
\* reference or leave the FDO to its remaining children.
FdoRemoved ==
  /\ ipc = "finish" /\ op = "remove"
  /\ references' = references - 1
  /\ IF references = 1 THEN Destroyed
     ELSE dx' = SetPnp(dx, "Deleted") /\ UNCHANGED <<made, active, ballooning>>
  /\ invalid' = FALSE
  /\ Complete
  /\ UNCHANGED <<pdo, held, threads, balloon, classes, store, lost, budget>>

\* FdoQueryDeviceRelations: wait for a scan, report the children that are not
\* missing, and, when the lower drivers have seen the list, drop the deleted ones.
FdoQueryDeviceRelations ==
  /\ InState({"Started"})
  /\ Begin("relations", "report")
  /\ invalid' = FALSE
  /\ UNCHANGED <<pdo, references, fdos, threads, balloon, classes, store, lost, budget>>

FdoReportRelations ==
  /\ ipc = "report" /\ (active => "scan" \in done)
  /\ pdo' = [p \in Pdos |-> IF p \in Live /\ pdo[p].pnp = "Present"
                            THEN SetPnp(pdo[p], "Enumerated") ELSE pdo[p]]
  /\ relations' = Live
  /\ ipc' = "reported" /\ UNCHANGED op
  /\ UNCHANGED <<references, fdos, threads, balloon, classes, invalid, store, lost, budget>>

Pruned == {p \in Listed : pdo[p].pnp = "Deleted" /\ pdo[p].missing}

FdoRelationsReported ==
  /\ ipc = "reported"
  /\ pdo' = [p \in Pdos |->
               IF p \in Pruned THEN NoPdo
               ELSE IF p \in relations THEN [pdo[p] EXCEPT !.known = TRUE, !.gone = FALSE]
               ELSE [pdo[p] EXCEPT !.gone = pdo[p].known]]
  /\ references' = references - Cardinality(Pruned)
  /\ event' = IF Pruned # {} THEN Wake({"scan"}) ELSE event
  /\ Complete
  /\ UNCHANGED <<tpc, alerted, done, fdos, balloon, classes, invalid, store, lost, budget>>

FdoRelationsFailed ==
  /\ ipc = "reported" /\ Fail
  /\ Complete
  /\ UNCHANGED <<pdo, references, fdos, threads, balloon, classes, invalid, store>>

-----------------------------------------------------------------------------
(* Power requests.  The children go to D3 before their parent and come     *)
(* back after it.                                                          *)

\* PdoSetDevicePower and PdoSetSystemPower of every child, then
\* FdoSetSystemPowerDown, which requests D3 first.
FdoSleep(state) ==
  /\ "sleep" \in workload /\ InState({"Started"}) /\ Spend
  /\ pdo' = [p \in Pdos |-> IF p \in Listed
                            THEN PdoSetSystemPower(PdoSetDevicePower(pdo[p], "D3", TRUE), state)
                            ELSE pdo[p]]
  /\ Begin(state, ToD3("finish"))
  /\ UNCHANGED <<references, fdos, threads, balloon, classes, invalid, store, lost>>

\* FdoSetSystemPowerDownWorker and FdoRequestDevicePowerDownComplete.
FdoAsleep ==
  /\ ipc = "finish" /\ op \in {"S3", "S4"}
  /\ Fdos([dx EXCEPT !.system = op])
  /\ Complete
  /\ UNCHANGED <<pdo, references, threads, balloon, classes, invalid, store, lost, budget>>

\* FdoSetSystemPowerUpComplete, FdoSetSystemPowerUpWorker and
\* FdoSetDevicePowerUpWorker, which drops the status of FdoD3ToD0.
FdoWake ==
  /\ dx.system # "S0" /\ Begin("wake", IF dx.power = "D3" THEN "d3tod0" ELSE "finish")
  /\ Fdos([dx EXCEPT !.system = "S0"])
  /\ UNCHANGED <<pdo, references, threads, balloon, classes, invalid, store, lost, budget>>

FdoWoken ==
  /\ ipc = "finish" /\ op = "wake"
  /\ pdo' = [p \in Pdos |->
               IF p \in Listed
               THEN PdoSetSystemPower(PdoSetDevicePower(pdo[p],
                      IF pdo[p].pnp \in {"Started", "StopPending", "RemovePending"}
                      THEN "D0" ELSE "D3", TRUE), "S0")
               ELSE pdo[p]]
  /\ Complete
  /\ UNCHANGED <<references, fdos, threads, balloon, classes, invalid, store, lost, budget>>

FdoSteps ==
  \/ \E n \in 0..Len(PowerStages) : FdoD3ToD0(n)
  \/ FdoStartDrain \/ FdoStartWait
  \/ FdoSetD3 \/ FdoDrainSuspend \/ FdoRelease
  \/ ThreadAlert \/ ThreadJoin \/ Joined
  \/ FdoStarted \/ FdoStartFailed \/ FdoStopped \/ FdoRemoveChildren \/ FdoRemoved
  \/ FdoReportRelations \/ FdoRelationsReported \/ FdoRelationsFailed
  \/ FdoAsleep \/ FdoWoken

FdoRequests ==
  \/ \E n \in 0..Len(CreateStages) : FdoCreate(n)
  \/ \E n \in 0..Len(StartStages) : FdoStartDevice(n)
  \/ FdoQueryStopDevice \/ FdoQueryRemoveDevice
  \/ \E s \in {"StopPending", "RemovePending"} : FdoCancelDevice(s)
  \/ FdoStopDevice \/ FdoSurpriseRemoval \/ FdoRemoveDevice \/ FdoQueryDeviceRelations
  \/ \E s \in {"S3", "S4"} : FdoSleep(s)
  \/ FdoWake

-----------------------------------------------------------------------------
(* PnP requests to the children.                                           *)

PdoRest == UNCHANGED <<dx, active, ballooning, made, held, threads, balloon, classes, irps,
                       store>>
PdoIdle == Idle /\ Awake
Going(p) == pdo[p].gone \/ dx.pnp \in {"SurpriseRemovePending", "Deleted"}

StartChild(p, ok) ==
  /\ InState({"Started"}) /\ PdoIs(p, {"Enumerated", "Stopped"}) /\ ~pdo[p].gone
  /\ PdoStartDevice(p, ok)
  /\ IF ok THEN UNCHANGED <<lost, budget>> ELSE Fail
  /\ PdoRest /\ UNCHANGED invalid

QueryChild(p) ==
  /\ InState({"Started"}) /\ PdoIs(p, {"Started"})
  /\ \/ "stop" \in workload /\ PdoQueryStopDevice(p)
     \/ "remove" \in workload /\ PdoQueryRemoveDevice(p)
  /\ PdoRest /\ UNCHANGED <<invalid, lost, budget>>

CancelChild(p) ==
  /\ InState({"Started"})
  /\ \/ PdoIs(p, {"StopPending"}) /\ PdoCancelStopDevice(p)
     \/ PdoIs(p, {"RemovePending"}) /\ PdoCancelRemoveDevice(p)
  /\ PdoRest /\ UNCHANGED <<invalid, lost, budget>>

StopChild(p) ==
  /\ InState({"StopPending"}) /\ PdoIs(p, {"StopPending"})
  /\ PdoStopDevice(p)
  /\ PdoRest /\ UNCHANGED <<invalid, lost, budget>>

SurpriseChild(p) ==
  /\ PdoIdle /\ PdoIs(p, {"Started", "StopPending", "Stopped", "RemovePending"}) /\ Going(p)
  /\ PdoSurpriseRemoval(p)
  /\ PdoRest /\ UNCHANGED <<invalid, lost, budget>>

\* PdoRemoveDevice, whose FdoReleaseMutex destroys an FDO without references.
RemoveChild(p) ==
  /\ PdoIdle
  /\ \/ PdoIs(p, {"RemovePending", "SurpriseRemovePending"})
     \/ PdoIs(p, {"Enumerated"}) /\ Going(p)
  /\ PdoRemoveDevice(p)
  /\ invalid' = (invalid \/ (pdo[p].missing /\ ~PdoDestroysNow(p)))
  /\ event' = IF PdoDestroysNow(p) THEN Wake({"scan"}) ELSE event
  /\ IF references' = 0 THEN Destroyed ELSE UNCHANGED <<dx, made, active, ballooning>>
  /\ UNCHANGED <<held, tpc, alerted, done, balloon, classes, irps, store, lost, budget>>

EjectChild(p) ==
  /\ InState({"Started"}) /\ PdoIs(p, {"Enumerated"}) /\ Spend
  /\ PdoEject(p)
  /\ invalid' = TRUE
  /\ PdoRest /\ UNCHANGED lost

PdoRequests ==
  \E p \in Pdos :
    \/ \E ok \in BOOLEAN : StartChild(p, ok)
    \/ QueryChild(p) \/ CancelChild(p) \/ StopChild(p)
    \/ SurpriseChild(p) \/ RemoveChild(p) \/ EjectChild(p)

-----------------------------------------------------------------------------
(* The toolstack.                                                          *)

StoreChanges(t) ==
  /\ Spend
  /\ event' = Wake(Watched(t))
  /\ UNCHANGED <<tpc, alerted, done, pdo, references, fdos, balloon, classes, irps, invalid,
                 lost>>

DeviceChanges ==
  /\ "device" \in workload /\ StoreChanges("scan")
  /\ \E c \in Class : device' = (device \ {c}) \cup ({c} \ device)
  /\ UNCHANGED <<shutdown, target>>

ShutdownRequested ==
  /\ "shutdown" \in workload /\ StoreChanges("suspend")
  /\ shutdown' = TRUE /\ UNCHANGED <<device, target>>

TargetChanges ==
  /\ "target" \in workload /\ StoreChanges("balloon")
  /\ target' = 1 - target /\ UNCHANGED <<device, shutdown>>

Init ==
  /\ dx = NoPdo /\ active = FALSE /\ ballooning = FALSE /\ made = {} /\ held = {}
  /\ pdo = [p \in Pdos |-> NoPdo] /\ references = 0
  /\ tpc = [t \in Threads |-> "none"] /\ event = {} /\ alerted = {} /\ done = {}
  /\ owner = "free" /\ balActive = FALSE /\ wanted = 0 /\ Size = 0
  /\ classes = {} /\ ipc = "none" /\ op = "none" /\ relations = {}
  /\ invalid = FALSE /\ lost = FALSE /\ budget = Budget
  /\ workload \in Workloads
  /\ device \in (IF workload \cap {"device", "failure"} # {} THEN SUBSET Class ELSE {{}})
  /\ target \in (IF "target" \in workload THEN {0, 1} ELSE {0})
  /\ shutdown = FALSE

Next ==
  /\ ThreadNext \/ FdoSteps \/ FdoRequests \/ PdoRequests
       \/ DeviceChanges \/ ShutdownRequested \/ TargetChanges
  /\ UNCHANGED workload

Spec == Init /\ [][Next]_vars

\* The threads run; a request that has begun goes on; the PnP manager carries a
\* surprise removal through and takes up an invalidation; the balloon driver
\* gets its pages in the end.
FairSpec ==
  /\ Spec
  /\ WF_moving(ScanNext) /\ WF_moving(SuspendNext)
  /\ WF_moving(BalloonNext) /\ SF_moving(BalloonAdjust)
  /\ WF_moving(FdoSteps)
  /\ WF_moving(invalid /\ FdoQueryDeviceRelations)
  /\ \A p \in Pdos : WF_moving(SurpriseChild(p)) /\ WF_moving(Going(p) /\ RemoveChild(p))
  /\ WF_moving(dx.pnp = "SurpriseRemovePending" /\ FdoRemoveDevice)

-----------------------------------------------------------------------------
(* Properties.                                                             *)

TypeOK ==
  /\ \A d \in {dx} \cup {pdo[p] : p \in Pdos} :
       /\ d.pnp \in PnpStates /\ d.prev \in PnpStates
       /\ d.power \in {"D0", "D3"} /\ d.system \in {"S0", "S3", "S4"}
  /\ held \subseteq Taken(PowerStages, Len(PowerStages))
  /\ made \subseteq Taken(CreateStages, Len(CreateStages)) \cup {"raw", "translated", "interrupt"}
  /\ tpc \in [Threads -> {"none", "wait", "check", "read", "enumerate", "trigger", "clear",
                          "adjust", "loop", "exited"}]
  /\ event \cup alerted \cup done \subseteq Threads
  /\ owner \in {"free", "suspend", "balloon"}

\* While the suspend or the balloon thread uses an interface, FdoD0ToD3 has not
\* released it (the drain protocol of the idle events), and no suspend is
\* triggered between two steps of a balloon operation (BalloonSuspendMutex).
DrainSafe ==
  /\ tpc["suspend"] \in {"read", "trigger"} => {"store", "suspend"} \subseteq held
  /\ tpc["balloon"] \in {"read", "adjust", "clear"} => {"store", "balloon"} \subseteq held
  /\ owner = "balloon" => tpc["suspend"] \notin {"trigger", "clear"}

\* FdoS3ToS4, which stops the machine on a reference to an interface (BUG_ON),
\* finds none.
NoBugCheck ==
  ipc = "finish" /\ op = "S4" => held = {} /\ \A p \in Pdos : ~pdo[p].held

\* Between requests nothing is left behind by a failure and nothing is missing
\* after a success, in each PnP and power state.
Clean ==
  /\ NoBugCheck
  /\ Idle =>
    /\ dx.pnp = "None" => made = {} /\ held = {} /\ references = 0
    /\ held # {} <=> (dx.power = "D0" /\ active)
    /\ dx.power = "D0" => held = Applicable
    /\ dx.pnp \in {"None", "Added", "Stopped", "Deleted"} =>
         /\ Existing = {} /\ event = {} /\ alerted = {}
         /\ {"raw", "translated", "interrupt"} \cap made = {}
    /\ dx.pnp = "Started" /\ active => Existing = ThreadStages

\* What FdoD3ToD0 and FdoD0ToD3 keep, around the threads that run beside them.
PowerInv == TypeOK /\ DrainSafe /\ Clean

\* The list: one reference for each child and one for the FDO; no two live
\* children of a class; a child in D0 or one with a registered callback is one
\* that the PnP manager has started, and is never unlinked.
ListInv ==
  /\ references = Cardinality(Listed)
                  + (IF dx.pnp \in {"None", "Deleted"} THEN 0 ELSE 1)
  /\ \A p, q \in Live : pdo[p].class = pdo[q].class => p = q
  /\ \A p \in Pdos : pdo[p].held <=> pdo[p].power = "D0"
  /\ \A p \in Listed : pdo[p].pnp \in {"Present", "Enumerated", "Deleted"} => ~pdo[p].held

\* A child goes only when the PnP manager has sent it REMOVE_DEVICE or never
\* heard of it.
Released(p) ==
  \/ pdo[p].pnp = "SurpriseRemovePending"
  \/ ~pdo[p].held /\ (\/ ~pdo[p].known \/ pdo[p].pnp = "Deleted"
                      \/ pdo[p].pnp = "Enumerated" /\ op = "remove")
DestroyedOnce ==
  [][\A p \in Pdos : pdo[p].pnp # "None" /\ pdo'[p].pnp = "None"
                        => Released(p)]_vars

\* The balloon is at its target with Active still set: nothing clears it.
Stuck == balActive /\ Size = target

\* A request to the FDO completes, whatever the threads are doing.
Completes == ipc # "none" ~> (ipc = "none" \/ Stuck)

\* A suspend that was asked for is triggered, also while ballooning.
SuspendSeen == (shutdown /\ dx.power = "D0" /\ active)
                 ~> (~shutdown \/ dx.power # "D0" \/ ~Idle \/ Stuck)

\* The list catches up with the store.
Reported ==
  (dx.pnp = "Started" /\ active) ~>
    (CaughtUp \/ dx.pnp # "Started" \/ dx.power # "D0" \/ lost)
=============================================================================
