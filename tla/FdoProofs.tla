----------------------------- MODULE FdoProofs ------------------------------
(* What the bus FDO keeps for every set of child devices and every class:  *)
(* PowerInv, ListInv and the action property DestroyedOnce, from one       *)
(* inductive invariant.  FdoIInv says what the FDO is in at each step of   *)
(* a request (PhaseInv, StateInv), what it holds there (HeldInv), which    *)
(* threads exist and when they have been drained (ThreadInv, DrainInv),    *)
(* and of each child that it holds its interfaces while in D0 and is       *)
(* counted once (ChildrenInv).  Every request touches either the FDO or    *)
(* the children, so each action has one lemma for FdoInv and one for       *)
(* ChildrenInv with Unlinks, what DestroyedOnce says of a step.            *)
(* The last section is about the requests to unplug emulated devices.      *)
EXTENDS Fdo, Unplug, FiniteSetTheorems, FunctionTheorems, TLAPS
-----------------------------------------------------------------------------
(* The inductive invariant.                                                *)

Ext == [pnp : PnpStates, prev : PnpStates, power : {"D0", "D3"}, system : {"S0", "S3", "S4"},
        missing : BOOLEAN, held : BOOLEAN, class : Class \cup {"none"},
        known : BOOLEAN, gone : BOOLEAN]
ThreadPoints == {"none", "wait", "check", "read", "enumerate", "trigger", "clear", "adjust",
                 "loop", "exited"}
Resources == {"raw", "translated", "interrupt"}

FdoTypes ==
  /\ dx \in Ext /\ active \in BOOLEAN /\ ballooning \in BOOLEAN /\ (ballooning => active)
  /\ made \subseteq Taken(CreateStages, Len(CreateStages)) \cup Resources
  /\ tpc \in [Threads -> ThreadPoints]
  /\ event \subseteq Existing /\ alerted \subseteq Existing /\ done \subseteq Existing
  /\ owner \in {"free", "suspend", "balloon"} /\ balActive \in BOOLEAN

\* What a request may find the FDO in, at each of its steps.
PhaseInv ==
  \/ op = "none" /\ ipc = "none"
  \/ op = "start" /\ ipc \in {"d3tod0", "startdrain", "startwait", "finish"} /\ dx.pnp \in {"Added", "Stopped"}
  \/ op = "startfailed" /\ ipc \in {"join", "finish"} /\ dx.pnp \in {"Added", "Stopped"}
  \/ op = "stop" /\ ipc \in {"d0tod3", "drainsuspend", "release", "join", "finish"} /\ dx.pnp = "StopPending"
  \/ op = "remove" /\ ipc \in {"removechildren", "d0tod3", "drainsuspend", "release", "join"}
       /\ dx.pnp \in {"RemovePending", "SurpriseRemovePending"} /\ dx.prev = "Started"
  \/ op = "remove" /\ ipc = "finish"
       /\ dx.pnp \in {"Added", "RemovePending", "SurpriseRemovePending", "Stopped"}
  \/ op = "relations" /\ ipc \in {"report", "reported"} /\ dx.pnp = "Started"
  \/ op \in {"S3", "S4"} /\ ipc \in {"d0tod3", "drainsuspend", "release", "finish"} /\ dx.pnp = "Started"
  \/ op = "wake" /\ ipc \in {"d3tod0", "finish"} /\ dx.pnp = "Started"

\* The FDO has been started and not stopped or removed.
Running ==
  CASE op \in {"stop", "remove", "startfailed"} -> ipc \notin {"join", "finish"}
    [] op = "start" -> TRUE
    [] OTHER -> \/ dx.pnp \in {"Started", "StopPending", "RemovePending"}
                \/ dx.pnp = "SurpriseRemovePending" /\ dx.prev = "Started"

StateInv ==
  /\ dx.pnp \in {"None", "Added", "Started", "StopPending", "Stopped", "RemovePending",
                 "SurpriseRemovePending", "Deleted"}
  /\ dx.pnp \in {"StopPending", "RemovePending"} => dx.prev = "Started"
  /\ dx.pnp = "SurpriseRemovePending" => dx.prev \in {"Started", "Stopped"}
  /\ dx.pnp \in {"Added", "Stopped"} => dx.prev # "Started"
  /\ dx.system # "S0" => dx.pnp = "Started"
  /\ ipc \in {"d3tod0", "drainsuspend", "release", "join"} => dx.power = "D3"
  /\ ipc = "d0tod3" \/ (op = "start" /\ ipc # "d3tod0") => dx.power = "D0"
  /\ op \in {"S3", "S4"} /\ ipc = "finish" => dx.power = "D3"
  /\ ~Running => dx.power = "D3"
  /\ ipc = "drainsuspend" => active
  /\ dx.pnp = "None" => made = {}

\* What is held, and what threads there are.
HeldInv ==
  held = IF dx.power = "D0" \/ ipc \in {"drainsuspend", "release"} THEN Applicable ELSE {}
AllThreads == IF active THEN ThreadStages ELSE {}
ThreadInv ==
  /\ Existing \subseteq AllThreads
  /\ ipc # "join" => /\ Existing = (IF Running THEN AllThreads ELSE {})
                     /\ alerted = {}
                     /\ ~Running => Resources \cap made = {}

\* A thread that may be using an interface has not been drained.
DrainInv ==
  /\ tpc["suspend"] \in {"read", "trigger", "clear"} /\ dx.power = "D3" =>
       ipc = "drainsuspend" \/ (ipc = "release" /\ "suspend" \notin done)
  /\ tpc["balloon"] \in {"read", "adjust", "clear"} \/ balActive =>
       dx.power = "D0" \/ (ipc = "drainsuspend" /\ "balloon" \notin done)
  /\ balActive <=> owner = "balloon"
  /\ balActive => ballooning
  /\ tpc["balloon"] \in {"adjust", "clear"} => balActive
  /\ owner = "suspend" <=> tpc["suspend"] \in {"trigger", "clear"}

\* The children.
ChildStates == {"None", "Present", "Enumerated", "Started", "StopPending", "Stopped",
                "RemovePending", "SurpriseRemovePending", "Deleted"}
ChildInv(p) ==
  LET d == pdo[p] IN
  /\ d.pnp \in ChildStates
  /\ d.held <=> d.power = "D0"
  /\ d.pnp \in {"None", "Present", "Enumerated", "Deleted"} => ~d.held
  /\ d.pnp \in {"StopPending", "RemovePending"} => d.prev = "Started"
  /\ d.known => d.pnp \notin {"None", "Present"}
  /\ ~d.known => d.pnp \in {"None", "Present", "Enumerated"}
  /\ op \in {"S3", "S4"} => ~d.held
  /\ ipc = "removechildren" /\ d.known => d.pnp \in {"Enumerated", "SurpriseRemovePending", "Deleted"}
  /\ ipc = "reported" /\ p \in relations => d.pnp \notin {"None", "Present"}

ReferencesInv ==
  references = Cardinality(Listed) + (IF dx.pnp \in {"None", "Deleted"} THEN 0 ELSE 1)
OneOfAClass == \A p, q \in Live : pdo[p].class = pdo[q].class => p = q

ChildrenInv ==
  /\ pdo \in [Pdos -> Ext] /\ classes \subseteq Class /\ device \subseteq Class
  /\ relations \subseteq Pdos
  /\ ReferencesInv /\ OneOfAClass
  /\ dx.pnp = "None" => Listed = {}
  /\ \A p \in Pdos : ChildInv(p)

FdoInv == FdoTypes /\ PhaseInv /\ StateInv /\ HeldInv /\ ThreadInv /\ DrainInv
FdoIInv == FdoInv /\ ChildrenInv

-----------------------------------------------------------------------------
(* Stages and threads.                                                     *)

LEMMA Stages ==
  /\ Len(StartStages) = 7 /\ Len(PowerStages) = 15 /\ Len(CreateStages) = 19
  /\ Taken(StartStages, 7) = {"lower"} \cup Resources \cup Threads
  /\ \A n \in 0..7 : Taken(StartStages, n) \subseteq {"lower"} \cup Resources \cup Threads
  /\ {"store", "suspend", "balloon"} \subseteq Taken(PowerStages, 15)
<1>1. Len(StartStages) = 7 /\ Len(PowerStages) = 15 /\ Len(CreateStages) = 19
  BY DEF StartStages, PowerStages, CreateStages
<1>2. /\ StartStages[1] = "raw" /\ StartStages[2] = "translated" /\ StartStages[3] = "lower"
      /\ StartStages[4] = "interrupt" /\ StartStages[5] = "scan" /\ StartStages[6] = "suspend"
      /\ StartStages[7] = "balloon"
  BY DEF StartStages
<1>3. PowerStages[2] = "suspend" /\ PowerStages[6] = "store" /\ PowerStages[8] = "balloon"
  BY DEF PowerStages
<1>4. \A i \in 1..7 : i \in {1, 2, 3, 4, 5, 6, 7}
  OBVIOUS
<1>5. \A i \in 1..7 : StartStages[i] \in {"lower"} \cup Resources \cup Threads
  BY <1>2, <1>4 DEF Resources, Threads
<1>6. \A n \in 0..7 : Taken(StartStages, n) \subseteq {"lower"} \cup Resources \cup Threads
  <2> SUFFICES ASSUME NEW n \in 0..7 PROVE Taken(StartStages, n) \subseteq {"lower"} \cup Resources \cup Threads
    OBVIOUS
  <2>1. 1..n \subseteq 1..7
    OBVIOUS
  <2> QED  BY <1>5, <2>1 DEF Taken
<1>7. {"lower"} \cup Resources \cup Threads \subseteq Taken(StartStages, 7)
  <2>1. \A i \in 1..7 : StartStages[i] \in Taken(StartStages, 7)  BY DEF Taken
  <2>2. 1 \in 1..7 /\ 2 \in 1..7 /\ 3 \in 1..7 /\ 4 \in 1..7 /\ 5 \in 1..7 /\ 6 \in 1..7 /\ 7 \in 1..7
    OBVIOUS
  <2> QED  BY <1>2, <2>1, <2>2 DEF Resources, Threads
<1>8. {"store", "suspend", "balloon"} \subseteq Taken(PowerStages, 15)
  <2>1. \A i \in 1..15 : PowerStages[i] \in Taken(PowerStages, 15)  BY DEF Taken
  <2>2. 2 \in 1..15 /\ 6 \in 1..15 /\ 8 \in 1..15
    OBVIOUS
  <2> QED  BY <1>3, <2>1, <2>2
<1> QED  BY <1>1, <1>5, <1>6, <1>7, <1>8

\* What is left of a chain of stages: all or nothing.
LEMMA AllOrNothing == ASSUME NEW stages, NEW n PROVE Left(stages, n) = IF n = Len(stages) THEN Taken(stages, n) ELSE {}
BY DEF Left, Unwound

LEMMA Applied ==
  /\ Applicable \subseteq Taken(PowerStages, 15)
  /\ Left(PowerStages, 15) \cap Applicable = Applicable
  /\ ~active => Applicable = {}
  /\ active => {"store", "suspend"} \subseteq Applicable
  /\ active /\ ballooning => {"store", "balloon"} \subseteq Applicable
<1>1. Applicable \subseteq Taken(PowerStages, 15)  BY Stages DEF Applicable
<1>2. Left(PowerStages, 15) = Taken(PowerStages, 15)  BY Stages, AllOrNothing
<1> QED  BY <1>1, <1>2, Stages DEF Applicable

LEMMA Waking == \A ts \in SUBSET Threads : Wake(ts) \subseteq event \cup Existing /\ event \subseteq Wake(ts)
BY DEF Wake, Existing

LEMMA ThreadSets ==
  /\ ThreadStages = {"scan", "suspend"} \cup (IF ballooning THEN {"balloon"} ELSE {})
  /\ ThreadStages \subseteq Threads /\ Existing \subseteq Threads
BY DEF ThreadStages, Threads, Existing

-----------------------------------------------------------------------------
(* The threads.                                                            *)

\* A thread moves on: what there is to show is that nothing is used that was released.
LEMMA ThreadMoves ==
  ASSUME FdoInv, NEW t \in Threads, t \in Existing, NEW pc \in ThreadPoints \ {"none"}, Goto(t, pc),
         UNCHANGED <<dx, active, ballooning, made, held, alerted, ipc, op>>,
         event' \subseteq Existing, done' \subseteq Existing,
         owner' \in {"free", "suspend", "balloon"}, balActive' \in BOOLEAN, DrainInv'
  PROVE  FdoInv' /\ Existing' = Existing
<1>1. /\ FdoTypes /\ PhaseInv /\ StateInv /\ HeldInv /\ ThreadInv  BY DEF FdoInv
<1>2. tpc' = [tpc EXCEPT ![t] = pc] /\ tpc \in [Threads -> ThreadPoints]  BY <1>1 DEF Goto, FdoTypes
<1>3. tpc' \in [Threads -> ThreadPoints] /\ \A u \in Threads : tpc'[u] # "none" <=> tpc[u] # "none"
  BY <1>2 DEF Existing
<1>4. Existing' = Existing  BY <1>3 DEF Existing
<1>5. FdoTypes'  BY <1>1, <1>3, <1>4 DEF FdoTypes
<1>6. PhaseInv'  BY <1>1 DEF PhaseInv
<1>7. StateInv'  BY <1>1 DEF StateInv, Running
<1>8. HeldInv'  BY <1>1 DEF HeldInv, Applicable
<1>9. ThreadInv'  BY <1>1, <1>4 DEF ThreadInv, AllThreads, ThreadStages, Running
<1> QED  BY <1>4, <1>5, <1>6, <1>7, <1>8, <1>9 DEF FdoInv

\* The steps of thread.c.
LEMMA LoopSteps ==
  ASSUME FdoInv, NEW t \in Threads, ThreadAwake(t) \/ ThreadLoop(t) \/ ThreadExit(t)
  PROVE  FdoInv' /\ Existing' = Existing
<1>1. /\ FdoTypes /\ PhaseInv /\ StateInv /\ HeldInv /\ ThreadInv /\ DrainInv  BY DEF FdoInv
<1>2. tpc[t] # "none" /\ t \in Existing  BY DEF ThreadAwake, ThreadLoop, ThreadExit, Existing
<1>3. /\ UNCHANGED <<dx, active, ballooning, made, held, alerted, ipc, op, owner, balActive>>
      /\ event' \subseteq event
  BY DEF ThreadAwake, ThreadLoop, ThreadExit, fdos, balloon, irps
<1>4. PICK pc \in {"check", "wait", "exited"} : Goto(t, pc)
  BY DEF ThreadAwake, ThreadLoop, ThreadExit
<1>5. tpc'[t] = pc /\ \A u \in Threads \ {t} : tpc'[u] = tpc[u]
  BY <1>1, <1>4 DEF Goto, FdoTypes
<1>6. /\ done' = done \/ done' = done \cup {t}
      /\ t = "balloon" /\ done' # done => ~balActive
  <2>1. CASE ThreadAwake(t)  BY <2>1 DEF ThreadAwake
  <2>2. CASE ThreadLoop(t)  BY <2>2 DEF ThreadLoop
  <2>3. CASE ThreadExit(t)
    <3>1. t \in alerted /\ done' = done \cup {t}  BY <2>3 DEF ThreadExit
    <3>2. ipc = "join"  BY <1>1, <3>1 DEF ThreadInv
    <3>3. dx.power = "D3"  BY <1>1, <3>2 DEF StateInv
    <3> QED  BY <1>1, <3>1, <3>2, <3>3 DEF DrainInv
  <2> QED  BY <2>1, <2>2, <2>3
<1>7. tpc[t] \in {"wait", "loop", "check"}  BY DEF ThreadAwake, ThreadLoop, ThreadExit
<1>8. DrainInv'
  <2>1. CASE t = "suspend"  BY <1>1, <1>3, <1>5, <1>6, <1>7, <2>1 DEF DrainInv, Threads
  <2>2. CASE t = "balloon"  BY <1>1, <1>3, <1>5, <1>6, <1>7, <2>2 DEF DrainInv, Threads
  <2>3. CASE t = "scan"  BY <1>1, <1>3, <1>5, <1>6, <1>7, <2>3 DEF DrainInv, Threads
  <2> QED  BY <2>1, <2>2, <2>3 DEF Threads
<1>9. event' \subseteq Existing /\ done' \subseteq Existing /\ pc \in ThreadPoints \ {"none"}
  BY <1>1, <1>2, <1>3, <1>6 DEF FdoTypes, ThreadPoints
<1>10. owner' \in {"free", "suspend", "balloon"} /\ balActive' \in BOOLEAN  BY <1>1, <1>3 DEF FdoTypes
<1> QED  BY <1>2, <1>3, <1>4, <1>8, <1>9, <1>10, ThreadMoves

LEMMA ScanSteps ==
  ASSUME FdoInv, ScanGuard \/ ScanRead \/ FdoEnumerate
  PROVE  FdoInv' /\ Existing' = Existing
<1>1. FdoTypes /\ DrainInv  BY DEF FdoInv
<1>2. "scan" \in Threads /\ "suspend" \in Threads /\ "balloon" \in Threads  BY DEF Threads
<1>3. "scan" \in Existing  BY <1>2 DEF ScanGuard, ScanRead, FdoEnumerate, Existing
<1>4. /\ UNCHANGED <<dx, active, ballooning, made, held, alerted, ipc, op, owner, balActive, done>>
  BY DEF ScanGuard, ScanRead, FdoEnumerate, fdos, balloon, irps
<1>5. event' \subseteq Existing
  <2>1. event' = event \/ event' = Wake({"scan"})  BY DEF ScanGuard, ScanRead, FdoEnumerate
  <2>2. {"scan"} \in SUBSET Threads  BY <1>2
  <2> QED  BY <1>1, <2>1, <2>2, Waking DEF FdoTypes
<1>6. PICK pc \in {"read", "loop", "enumerate"} : Goto("scan", pc)  BY DEF ScanGuard, ScanRead, FdoEnumerate
<1>7. tpc'["suspend"] = tpc["suspend"] /\ tpc'["balloon"] = tpc["balloon"]
  BY <1>1, <1>2, <1>6 DEF Goto, FdoTypes
<1>8. DrainInv'  BY <1>1, <1>4, <1>7 DEF DrainInv
<1>9. pc \in ThreadPoints \ {"none"}  BY DEF ThreadPoints
<1>10. done' \subseteq Existing /\ owner' \in {"free", "suspend", "balloon"} /\ balActive' \in BOOLEAN
  BY <1>1, <1>4 DEF FdoTypes
<1> QED  BY <1>2, <1>3, <1>4, <1>5, <1>6, <1>8, <1>9, <1>10, ThreadMoves

LEMMA SuspendSteps ==
  ASSUME FdoInv, SuspendGuard \/ SuspendRead \/ SuspendTrigger \/ SuspendClearActive
  PROVE  FdoInv' /\ Existing' = Existing
<1>1. /\ FdoTypes /\ DrainInv  BY DEF FdoInv
<1>2. "scan" \in Threads /\ "suspend" \in Threads /\ "balloon" \in Threads  BY DEF Threads
<1>3. "suspend" \in Existing
  BY <1>2 DEF SuspendGuard, SuspendRead, SuspendTrigger, SuspendClearActive, Existing
<1>4. UNCHANGED <<dx, active, ballooning, made, held, alerted, ipc, op, balActive, done>>
  BY DEF SuspendGuard, SuspendRead, SuspendTrigger, SuspendClearActive, fdos, balloon, irps
<1>5. event' \subseteq Existing
  <2>1. \/ event' = event \/ event' = Wake({"balloon"})
        \/ event' = Wake(UNION {Watched(t) : t \in Threads})
    BY DEF SuspendGuard, SuspendRead, SuspendTrigger, SuspendClearActive
  <2>2. {"balloon"} \in SUBSET Threads /\ UNION {Watched(t) : t \in Threads} \in SUBSET Threads
    BY <1>2 DEF Watched
  <2> QED  BY <1>1, <2>1, <2>2, Waking DEF FdoTypes
<1>6. PICK pc \in {"read", "loop", "trigger", "clear"} :
        /\ Goto("suspend", pc)
        /\ \/ tpc["suspend"] = "check" /\ pc = "loop" /\ owner' = owner
           \/ tpc["suspend"] = "check" /\ pc = "read" /\ owner' = owner /\ dx.power = "D0"
           \/ tpc["suspend"] = "read" /\ pc = "trigger" /\ owner = "free" /\ owner' = "suspend"
           \/ tpc["suspend"] = "read" /\ pc = "loop" /\ owner' = owner
           \/ tpc["suspend"] = "trigger" /\ pc = "clear" /\ owner' = owner
           \/ tpc["suspend"] = "clear" /\ pc = "loop" /\ owner' = "free"
  <2>1. CASE SuspendGuard
    BY <2>1 DEF SuspendGuard, balloon
  <2>2. CASE SuspendRead
    BY <2>2 DEF SuspendRead
  <2>3. CASE SuspendTrigger
    BY <2>3 DEF SuspendTrigger, balloon
  <2>4. CASE SuspendClearActive
    BY <2>4 DEF SuspendClearActive
  <2> QED  BY <2>1, <2>2, <2>3, <2>4
<1>7. tpc'["suspend"] = pc /\ tpc'["balloon"] = tpc["balloon"]
  BY <1>1, <1>2, <1>6 DEF Goto, FdoTypes
<1>8. DrainInv'  BY <1>1, <1>4, <1>6, <1>7 DEF DrainInv
<1>9. pc \in ThreadPoints \ {"none"}  BY DEF ThreadPoints
<1>10. done' \subseteq Existing /\ owner' \in {"free", "suspend", "balloon"} /\ balActive' \in BOOLEAN
  BY <1>1, <1>4, <1>6 DEF FdoTypes
<1>11. Goto("suspend", pc)  BY <1>6
<1> QED  BY <1>2, <1>3, <1>4, <1>5, <1>8, <1>9, <1>10, <1>11, ThreadMoves

LEMMA BalloonSteps ==
  ASSUME FdoInv, \/ BalloonGuard \/ BalloonRead \/ BalloonAdjust \/ BalloonAdjustFails
                 \/ BalloonClearActive
  PROVE  FdoInv' /\ Existing' = Existing
<1>1. /\ FdoTypes /\ DrainInv /\ ThreadInv  BY DEF FdoInv
<1>2. "scan" \in Threads /\ "suspend" \in Threads /\ "balloon" \in Threads  BY DEF Threads
<1>3. "balloon" \in Existing
  BY <1>2 DEF BalloonGuard, BalloonRead, BalloonAdjust, BalloonAdjustFails, BalloonClearActive, Existing
<1>4. UNCHANGED <<dx, active, ballooning, made, held, alerted, ipc, op, done>>
  BY DEF BalloonGuard, BalloonRead, BalloonAdjust, BalloonAdjustFails, BalloonClearActive, fdos, irps
<1>5. event' \subseteq Existing
  <2>1. event' = event \/ event' = Wake({"suspend"})
    BY DEF BalloonGuard, BalloonRead, BalloonAdjust, BalloonAdjustFails, BalloonClearActive, BalloonClears
  <2>2. {"suspend"} \in SUBSET Threads  BY <1>2
  <2> QED  BY <1>1, <2>1, <2>2, Waking DEF FdoTypes
<1>6. PICK pc \in {"read", "loop", "adjust", "clear"} :
        /\ Goto("balloon", pc)
        /\ \/ /\ tpc["balloon"] = "check" /\ owner' = owner /\ balActive' = balActive
              /\ \/ pc = "read" /\ dx.power = "D0"
                 \/ pc = "clear" /\ balActive
                 \/ pc = "loop"
           \/ tpc["balloon"] = "read" /\ pc = "loop" /\ owner' = owner /\ balActive' = balActive
           \/ /\ tpc["balloon"] = "read" /\ pc = "adjust" /\ owner' = "balloon" /\ balActive' = TRUE
              /\ balActive \/ owner = "free"
           \/ tpc["balloon"] = "adjust" /\ pc \in {"clear", "loop"} /\ owner' = owner /\ balActive' = balActive
           \/ tpc["balloon"] = "clear" /\ pc = "loop" /\ owner' = "free" /\ balActive' = FALSE
  <2>1. CASE BalloonGuard
    <3>1. dx.power = "D0" \/ (dx.power # "D0" /\ balActive) \/ (dx.power # "D0" /\ ~balActive)
      OBVIOUS
    <3> QED  BY <2>1, <3>1 DEF BalloonGuard, balloon
  <2>2. CASE BalloonRead
    BY <2>2 DEF BalloonRead
  <2>3. CASE BalloonAdjust
    BY <2>3 DEF BalloonAdjust
  <2>4. CASE BalloonAdjustFails
    BY <2>4 DEF BalloonAdjustFails
  <2>5. CASE BalloonClearActive
    BY <2>5 DEF BalloonClearActive, BalloonClears
  <2> QED  BY <2>1, <2>2, <2>3, <2>4, <2>5
<1>7. tpc'["balloon"] = pc /\ tpc'["suspend"] = tpc["suspend"]
  BY <1>1, <1>2, <1>6 DEF Goto, FdoTypes
<1>8. ballooning  BY <1>1, <1>3, ThreadSets DEF ThreadInv, AllThreads, FdoTypes
<1>9. DrainInv'
  <2>1. balActive \in BOOLEAN /\ balActive' \in BOOLEAN  BY <1>1, <1>6 DEF FdoTypes
  <2> QED  BY <1>1, <1>4, <1>6, <1>7, <1>8, <2>1 DEF DrainInv
<1>10. pc \in ThreadPoints \ {"none"}  BY DEF ThreadPoints
<1>11. done' \subseteq Existing /\ owner' \in {"free", "suspend", "balloon"} /\ balActive' \in BOOLEAN
  BY <1>1, <1>4, <1>6 DEF FdoTypes
<1>12. Goto("balloon", pc)  BY <1>6
<1> QED  BY <1>2, <1>3, <1>4, <1>5, <1>9, <1>10, <1>11, <1>12, ThreadMoves

-----------------------------------------------------------------------------
(* Device extensions.                                                      *)

LEMMA Extensions ==
  ASSUME NEW d \in Ext, NEW s \in PnpStates
  PROVE  /\ SetPnp(d, s) \in Ext /\ SetPnp(d, s).pnp = s /\ SetPnp(d, s).prev = d.pnp
         /\ SetPnp(d, s).power = d.power /\ SetPnp(d, s).system = d.system
         /\ SetPnp(d, s).held = d.held /\ SetPnp(d, s).known = d.known
         /\ SetPnp(d, s).missing = d.missing /\ SetPnp(d, s).class = d.class
BY DEF SetPnp, Ext

LEMMA Restored ==
  ASSUME NEW d \in Ext, NEW s \in PnpStates
  PROVE  /\ RestorePnp(d, s) \in Ext
         /\ RestorePnp(d, s).pnp = (IF d.pnp = s THEN d.prev ELSE d.pnp)
         /\ RestorePnp(d, s).prev = d.prev
         /\ RestorePnp(d, s).power = d.power /\ RestorePnp(d, s).system = d.system
         /\ RestorePnp(d, s).held = d.held /\ RestorePnp(d, s).known = d.known
         /\ RestorePnp(d, s).missing = d.missing /\ RestorePnp(d, s).class = d.class
BY DEF RestorePnp, Ext

LEMMA Initial ==
  /\ NoPdo \in Ext /\ NoPdo.pnp = "None" /\ NoPdo.prev = "None" /\ NoPdo.power = "D3"
  /\ NoPdo.system = "S0" /\ NoPdo.held = FALSE /\ NoPdo.known = FALSE /\ NoPdo.missing = FALSE
BY DEF NoPdo, Ext, PnpStates

-----------------------------------------------------------------------------
(* The requests to the FDO.                                                *)

\* A step that leaves the threads and what is held as they are.
LEMMA RequestMoves ==
  ASSUME FdoInv, UNCHANGED <<active, ballooning, made, held, tpc, alerted, owner, balActive>>,
         dx' \in Ext, dx'.power = dx.power, event' \subseteq Existing, done' \subseteq Existing,
         PhaseInv', StateInv',
         ipc \notin {"drainsuspend", "release"}, ipc' \notin {"drainsuspend", "release"},
         ipc # "join", ipc' # "join" => Running' = Running
  PROVE  FdoInv' /\ Existing' = Existing
<1>1. /\ FdoTypes /\ HeldInv /\ ThreadInv /\ DrainInv  BY DEF FdoInv
<1>2. Existing' = Existing  BY DEF Existing
<1>3. FdoTypes'  BY <1>1, <1>2 DEF FdoTypes
<1>4. HeldInv'  BY <1>1 DEF HeldInv, Applicable
<1>5. ThreadInv'  BY <1>1, <1>2 DEF ThreadInv, AllThreads, ThreadStages
<1>6. DrainInv'
  <2>1. balActive \in BOOLEAN /\ owner = "balloon" <=> balActive  BY <1>1 DEF FdoTypes, DrainInv
  <2> QED  BY <1>1 DEF DrainInv
<1> QED  BY <1>2, <1>3, <1>4, <1>5, <1>6 DEF FdoInv

LEMMA FdoStartDrainStep ==
  ASSUME FdoInv, FdoStartDrain
  PROVE  FdoInv' /\ Existing' = Existing
<1>1. FdoTypes /\ PhaseInv /\ StateInv  BY DEF FdoInv
<1>2. /\ ipc = "startdrain" /\ ipc' = "startwait" /\ op' = op /\ dx' = dx
  BY DEF FdoStartDrain, At, fdos
<1>3. dx \in Ext /\ dx' \in Ext /\ dx'.power = dx.power /\ dx.power \in {"D0", "D3"}
  BY <1>1, <1>2 DEF FdoTypes, Ext
<1>4. UNCHANGED <<active, ballooning, made, held, tpc, alerted, owner, balActive>>
  BY DEF FdoStartDrain, fdos, balloon, threads, Fdos, Query
<1>5. event' \subseteq Existing /\ done' \subseteq Existing
  <2>1. {"balloon"} \in SUBSET Threads  BY DEF Threads
  <2>2. event' \in {event, Wake({"balloon"})} /\ done' \subseteq done
    BY DEF FdoStartDrain, Drain
  <2> QED  BY <1>1, <2>1, <2>2, Waking DEF FdoTypes
<1>6. PhaseInv'  BY <1>1, <1>2, <1>3, <1>4 DEF PhaseInv, StateInv
<1>7. Running' = Running  BY <1>1, <1>2, <1>3, <1>4 DEF Running, PhaseInv, StateInv
<1>8. StateInv'  BY <1>1, <1>2, <1>3, <1>4, <1>7 DEF StateInv, PhaseInv, Running
<1>9. /\ ipc \notin {"drainsuspend", "release", "join"} /\ ipc' \notin {"drainsuspend", "release"}
  BY <1>2
<1> QED  BY <1>3, <1>4, <1>5, <1>6, <1>7, <1>8, <1>9, RequestMoves

LEMMA FdoStartWaitStep ==
  ASSUME FdoInv, FdoStartWait
  PROVE  FdoInv' /\ Existing' = Existing
<1>1. FdoTypes /\ PhaseInv /\ StateInv  BY DEF FdoInv
<1>2. /\ ipc = "startwait" /\ ipc' = "finish" /\ op' = op /\ dx' = dx
  BY DEF FdoStartWait, At, fdos
<1>3. dx \in Ext /\ dx' \in Ext /\ dx'.power = dx.power /\ dx.power \in {"D0", "D3"}
  BY <1>1, <1>2 DEF FdoTypes, Ext
<1>4. UNCHANGED <<active, ballooning, made, held, tpc, alerted, owner, balActive>>
  BY DEF FdoStartWait, fdos, balloon, threads, Fdos, Query
<1>5. event' \subseteq Existing /\ done' \subseteq Existing
  BY <1>1 DEF FdoStartWait, threads, Query, FdoTypes
<1>6. PhaseInv'  BY <1>1, <1>2, <1>3, <1>4 DEF PhaseInv, StateInv
<1>7. Running' = Running  BY <1>1, <1>2, <1>3, <1>4 DEF Running, PhaseInv, StateInv
<1>8. StateInv'  BY <1>1, <1>2, <1>3, <1>4, <1>7 DEF StateInv, PhaseInv, Running
<1>9. /\ ipc \notin {"drainsuspend", "release", "join"} /\ ipc' \notin {"drainsuspend", "release"}
  BY <1>2
<1> QED  BY <1>3, <1>4, <1>5, <1>6, <1>7, <1>8, <1>9, RequestMoves

LEMMA FdoStartedStep ==
  ASSUME FdoInv, FdoStarted
  PROVE  FdoInv' /\ Existing' = Existing
<1>1. FdoTypes /\ PhaseInv /\ StateInv  BY DEF FdoInv
<1>2. /\ ipc = "finish" /\ op = "start" /\ ipc' = "none" /\ op' = "none"
        /\ dx' = SetPnp(dx, "Started")
  BY DEF FdoStarted, Complete, Fdos
<1>3. /\ dx \in Ext /\ dx' \in Ext /\ dx'.power = dx.power /\ dx'.system = dx.system
        /\ dx'.pnp = "Started" /\ dx'.prev = dx.pnp
  <2>1. dx \in Ext  BY <1>1 DEF FdoTypes
  <2>2. "Started" \in PnpStates  BY DEF PnpStates
  <2> QED  BY <1>2, <2>1, <2>2, Extensions
<1>4. UNCHANGED <<active, ballooning, made, held, tpc, alerted, owner, balActive>>
  BY DEF FdoStarted, fdos, balloon, threads, Fdos, Query
<1>5. event' \subseteq Existing /\ done' \subseteq Existing
  <2>1. {"scan"} \in SUBSET Threads  BY DEF Threads
  <2>2. event' \in {event, Wake({"scan"})} /\ done' \subseteq done
    BY DEF FdoStarted, Drain
  <2> QED  BY <1>1, <2>1, <2>2, Waking DEF FdoTypes
<1>6. PhaseInv'  BY <1>1, <1>2, <1>3, <1>4 DEF PhaseInv, StateInv
<1>7. Running' = Running  BY <1>1, <1>2, <1>3, <1>4 DEF Running, PhaseInv, StateInv
<1>8. StateInv'  BY <1>1, <1>2, <1>3, <1>4, <1>7 DEF StateInv, PhaseInv, Running
<1>9. /\ ipc \notin {"drainsuspend", "release", "join"} /\ ipc' \notin {"drainsuspend", "release"}
  BY <1>2
<1> QED  BY <1>3, <1>4, <1>5, <1>6, <1>7, <1>8, <1>9, RequestMoves

LEMMA FdoStartFailedStep ==
  ASSUME FdoInv, FdoStartFailed
  PROVE  FdoInv' /\ Existing' = Existing
<1>1. FdoTypes /\ PhaseInv /\ StateInv  BY DEF FdoInv
<1>2. /\ ipc = "finish" /\ op = "startfailed" /\ ipc' = "none" /\ op' = "none"
        /\ dx' = dx
  BY DEF FdoStartFailed, Complete, fdos
<1>3. dx \in Ext /\ dx' \in Ext /\ dx'.power = dx.power /\ dx.power \in {"D0", "D3"}
  BY <1>1, <1>2 DEF FdoTypes, Ext
<1>4. UNCHANGED <<active, ballooning, made, held, tpc, alerted, owner, balActive>>
  BY DEF FdoStartFailed, fdos, balloon, threads, Fdos, Query
<1>5. event' \subseteq Existing /\ done' \subseteq Existing
  BY <1>1 DEF FdoStartFailed, threads, Query, FdoTypes
<1>6. PhaseInv'  BY <1>1, <1>2, <1>3, <1>4 DEF PhaseInv, StateInv
<1>7. Running' = Running  BY <1>1, <1>2, <1>3, <1>4 DEF Running, PhaseInv, StateInv
<1>8. StateInv'  BY <1>1, <1>2, <1>3, <1>4, <1>7 DEF StateInv, PhaseInv, Running
<1>9. /\ ipc \notin {"drainsuspend", "release", "join"} /\ ipc' \notin {"drainsuspend", "release"}
  BY <1>2
<1> QED  BY <1>3, <1>4, <1>5, <1>6, <1>7, <1>8, <1>9, RequestMoves

LEMMA FdoStoppedStep ==
  ASSUME FdoInv, FdoStopped
  PROVE  FdoInv' /\ Existing' = Existing
<1>1. FdoTypes /\ PhaseInv /\ StateInv  BY DEF FdoInv
<1>2. /\ ipc = "finish" /\ op = "stop" /\ ipc' = "none" /\ op' = "none"
        /\ dx' = SetPnp(dx, "Stopped")
  BY DEF FdoStopped, Complete, Fdos
<1>3. /\ dx \in Ext /\ dx' \in Ext /\ dx'.power = dx.power /\ dx'.system = dx.system
        /\ dx'.pnp = "Stopped" /\ dx'.prev = dx.pnp
  <2>1. dx \in Ext  BY <1>1 DEF FdoTypes
  <2>2. "Stopped" \in PnpStates  BY DEF PnpStates
  <2> QED  BY <1>2, <2>1, <2>2, Extensions
<1>4. UNCHANGED <<active, ballooning, made, held, tpc, alerted, owner, balActive>>
  BY DEF FdoStopped, fdos, balloon, threads, Fdos, Query
<1>5. event' \subseteq Existing /\ done' \subseteq Existing
  BY <1>1 DEF FdoStopped, threads, Query, FdoTypes
<1>6. PhaseInv'  BY <1>1, <1>2, <1>3, <1>4 DEF PhaseInv, StateInv
<1>7. Running' = Running  BY <1>1, <1>2, <1>3, <1>4 DEF Running, PhaseInv, StateInv
<1>8. StateInv'  BY <1>1, <1>2, <1>3, <1>4, <1>7 DEF StateInv, PhaseInv, Running
<1>9. /\ ipc \notin {"drainsuspend", "release", "join"} /\ ipc' \notin {"drainsuspend", "release"}
  BY <1>2
<1> QED  BY <1>3, <1>4, <1>5, <1>6, <1>7, <1>8, <1>9, RequestMoves

LEMMA FdoQueryStopDeviceStep ==
  ASSUME FdoInv, FdoQueryStopDevice
  PROVE  FdoInv' /\ Existing' = Existing
<1>1. FdoTypes /\ PhaseInv /\ StateInv  BY DEF FdoInv
<1>2. /\ ipc = "none" /\ ipc' = ipc /\ op' = op /\ dx.pnp = "Started" /\ dx.system = "S0"
        /\ dx' = SetPnp(dx, "StopPending")
  BY DEF FdoQueryStopDevice, Query, Fdos, InState, Idle, Awake, irps
<1>3. /\ dx \in Ext /\ dx' \in Ext /\ dx'.power = dx.power /\ dx'.system = dx.system
        /\ dx'.pnp = "StopPending" /\ dx'.prev = dx.pnp
  <2>1. dx \in Ext  BY <1>1 DEF FdoTypes
  <2>2. "StopPending" \in PnpStates  BY DEF PnpStates
  <2> QED  BY <1>2, <2>1, <2>2, Extensions
<1>4. UNCHANGED <<active, ballooning, made, held, tpc, alerted, owner, balActive>>
  BY DEF FdoQueryStopDevice, fdos, balloon, threads, Fdos, Query
<1>5. event' \subseteq Existing /\ done' \subseteq Existing
  BY <1>1 DEF FdoQueryStopDevice, threads, Query, FdoTypes
<1>6. PhaseInv'  BY <1>1, <1>2, <1>3, <1>4 DEF PhaseInv, StateInv
<1>7. Running' = Running  BY <1>1, <1>2, <1>3, <1>4 DEF Running, PhaseInv, StateInv
<1>8. StateInv'  BY <1>1, <1>2, <1>3, <1>4, <1>7 DEF StateInv, PhaseInv, Running
<1>9. /\ ipc \notin {"drainsuspend", "release", "join"} /\ ipc' \notin {"drainsuspend", "release"}
  BY <1>2
<1> QED  BY <1>3, <1>4, <1>5, <1>6, <1>7, <1>8, <1>9, RequestMoves

LEMMA FdoQueryRemoveDeviceStep ==
  ASSUME FdoInv, FdoQueryRemoveDevice
  PROVE  FdoInv' /\ Existing' = Existing
<1>1. FdoTypes /\ PhaseInv /\ StateInv  BY DEF FdoInv
<1>2. /\ ipc = "none" /\ ipc' = ipc /\ op' = op /\ dx.pnp = "Started" /\ dx.system = "S0"
        /\ dx' = SetPnp(dx, "RemovePending")
  BY DEF FdoQueryRemoveDevice, Query, Fdos, InState, Idle, Awake, irps
<1>3. /\ dx \in Ext /\ dx' \in Ext /\ dx'.power = dx.power /\ dx'.system = dx.system
        /\ dx'.pnp = "RemovePending" /\ dx'.prev = dx.pnp
  <2>1. dx \in Ext  BY <1>1 DEF FdoTypes
  <2>2. "RemovePending" \in PnpStates  BY DEF PnpStates
  <2> QED  BY <1>2, <2>1, <2>2, Extensions
<1>4. UNCHANGED <<active, ballooning, made, held, tpc, alerted, owner, balActive>>
  BY DEF FdoQueryRemoveDevice, fdos, balloon, threads, Fdos, Query
<1>5. event' \subseteq Existing /\ done' \subseteq Existing
  BY <1>1 DEF FdoQueryRemoveDevice, threads, Query, FdoTypes
<1>6. PhaseInv'  BY <1>1, <1>2, <1>3, <1>4 DEF PhaseInv, StateInv
<1>7. Running' = Running  BY <1>1, <1>2, <1>3, <1>4 DEF Running, PhaseInv, StateInv
<1>8. StateInv'  BY <1>1, <1>2, <1>3, <1>4, <1>7 DEF StateInv, PhaseInv, Running
<1>9. /\ ipc \notin {"drainsuspend", "release", "join"} /\ ipc' \notin {"drainsuspend", "release"}
  BY <1>2
<1> QED  BY <1>3, <1>4, <1>5, <1>6, <1>7, <1>8, <1>9, RequestMoves

LEMMA FdoCancelDeviceStep ==
  ASSUME FdoInv, NEW s \in {"StopPending", "RemovePending"}, FdoCancelDevice(s)
  PROVE  FdoInv' /\ Existing' = Existing
<1>1. FdoTypes /\ PhaseInv /\ StateInv  BY DEF FdoInv
<1>2. /\ ipc = "none" /\ ipc' = ipc /\ op' = op /\ dx.pnp = s /\ dx.system = "S0"
        /\ dx' = RestorePnp(dx, s)
  BY DEF FdoCancelDevice, Fdos, InState, Idle, Awake, irps
<1>3. /\ dx \in Ext /\ dx' \in Ext /\ dx'.power = dx.power /\ dx'.system = dx.system
        /\ dx'.pnp = dx.prev /\ dx'.prev = dx.prev
  <2>1. dx \in Ext  BY <1>1 DEF FdoTypes
  <2>2. s \in PnpStates  BY DEF PnpStates
  <2> QED  BY <1>2, <2>1, <2>2, Restored
<1>4. UNCHANGED <<active, ballooning, made, held, tpc, alerted, owner, balActive>>
  BY DEF FdoCancelDevice, fdos, balloon, threads, Fdos, Query
<1>5. event' \subseteq Existing /\ done' \subseteq Existing
  BY <1>1 DEF FdoCancelDevice, threads, Query, FdoTypes
<1>6. PhaseInv'  BY <1>1, <1>2, <1>3, <1>4 DEF PhaseInv, StateInv
<1>7. Running' = Running  BY <1>1, <1>2, <1>3, <1>4 DEF Running, PhaseInv, StateInv
<1>8. StateInv'  BY <1>1, <1>2, <1>3, <1>4, <1>7 DEF StateInv, PhaseInv, Running
<1>9. /\ ipc \notin {"drainsuspend", "release", "join"} /\ ipc' \notin {"drainsuspend", "release"}
  BY <1>2
<1> QED  BY <1>3, <1>4, <1>5, <1>6, <1>7, <1>8, <1>9, RequestMoves

LEMMA FdoStopDeviceStep ==
  ASSUME FdoInv, FdoStopDevice
  PROVE  FdoInv' /\ Existing' = Existing
<1>1. FdoTypes /\ PhaseInv /\ StateInv  BY DEF FdoInv
<1>2. /\ ipc = "none" /\ dx.system = "S0" /\ dx.pnp = "StopPending" /\ op' = "stop"
        /\ dx' = dx
        /\ ipc' = (IF dx.power = "D0" THEN "d0tod3" ELSE "join")
  BY DEF FdoStopDevice, Begin, Idle, InState, Awake, ToD3, fdos
<1>3. dx \in Ext /\ dx' \in Ext /\ dx'.power = dx.power /\ dx.power \in {"D0", "D3"}
  BY <1>1, <1>2 DEF FdoTypes, Ext
<1>4. UNCHANGED <<active, ballooning, made, held, tpc, alerted, owner, balActive>>
  BY DEF FdoStopDevice, fdos, balloon, threads, Fdos, Query
<1>5. event' \subseteq Existing /\ done' \subseteq Existing
  BY <1>1 DEF FdoStopDevice, threads, Query, FdoTypes
<1>6. PhaseInv'  BY <1>1, <1>2, <1>3, <1>4 DEF PhaseInv, StateInv
<1>7. ipc' # "join" => Running' = Running  BY <1>1, <1>2, <1>3, <1>4 DEF Running, PhaseInv, StateInv
<1>8. StateInv'  BY <1>1, <1>2, <1>3, <1>4, <1>7 DEF StateInv, PhaseInv, Running
<1>9. /\ ipc \notin {"drainsuspend", "release", "join"} /\ ipc' \notin {"drainsuspend", "release"}
  BY <1>2
<1> QED  BY <1>3, <1>4, <1>5, <1>6, <1>7, <1>8, <1>9, RequestMoves

LEMMA FdoSurpriseRemovalStep ==
  ASSUME FdoInv, FdoSurpriseRemoval
  PROVE  FdoInv' /\ Existing' = Existing
<1>1. FdoTypes /\ PhaseInv /\ StateInv  BY DEF FdoInv
<1>2. /\ ipc = "none" /\ ipc' = ipc /\ op' = op /\ dx.pnp \in {"Started", "Stopped"} /\ dx.system = "S0"
        /\ dx' = SetPnp(dx, "SurpriseRemovePending")
  BY DEF FdoSurpriseRemoval, Fdos, InState, Idle, Awake, irps
<1>3. /\ dx \in Ext /\ dx' \in Ext /\ dx'.power = dx.power /\ dx'.system = dx.system
        /\ dx'.pnp = "SurpriseRemovePending" /\ dx'.prev = dx.pnp
  <2>1. dx \in Ext  BY <1>1 DEF FdoTypes
  <2>2. "SurpriseRemovePending" \in PnpStates  BY DEF PnpStates
  <2> QED  BY <1>2, <2>1, <2>2, Extensions
<1>4. UNCHANGED <<active, ballooning, made, held, tpc, alerted, owner, balActive>>
  BY DEF FdoSurpriseRemoval, fdos, balloon, threads, Fdos, Query
<1>5. event' \subseteq Existing /\ done' \subseteq Existing
  BY <1>1 DEF FdoSurpriseRemoval, threads, Query, FdoTypes
<1>6. PhaseInv'  BY <1>1, <1>2, <1>3, <1>4 DEF PhaseInv, StateInv
<1>7. Running' = Running  BY <1>1, <1>2, <1>3, <1>4 DEF Running, PhaseInv, StateInv
<1>8. StateInv'  BY <1>1, <1>2, <1>3, <1>4, <1>7 DEF StateInv, PhaseInv, Running
<1>9. /\ ipc \notin {"drainsuspend", "release", "join"} /\ ipc' \notin {"drainsuspend", "release"}
  BY <1>2
<1> QED  BY <1>3, <1>4, <1>5, <1>6, <1>7, <1>8, <1>9, RequestMoves

LEMMA FdoRemoveDeviceStep ==
  ASSUME FdoInv, FdoRemoveDevice
  PROVE  FdoInv' /\ Existing' = Existing
<1>1. FdoTypes /\ PhaseInv /\ StateInv  BY DEF FdoInv
<1>2. /\ ipc = "none" /\ dx.system = "S0" /\ op' = "remove" /\ dx' = dx
        /\ dx.pnp \in {"Added", "RemovePending", "SurpriseRemovePending", "Stopped"}
        /\ ipc' = (IF dx.prev # "Started" THEN "finish" ELSE "removechildren")
  BY DEF FdoRemoveDevice, Begin, Idle, InState, Awake, fdos
<1>3. dx \in Ext /\ dx' \in Ext /\ dx'.power = dx.power /\ dx.power \in {"D0", "D3"}
  BY <1>1, <1>2 DEF FdoTypes, Ext
<1>4. UNCHANGED <<active, ballooning, made, held, tpc, alerted, owner, balActive>>
  BY DEF FdoRemoveDevice, fdos, balloon, threads, Fdos, Query
<1>5. event' \subseteq Existing /\ done' \subseteq Existing
  <2>1. {"scan"} \in SUBSET Threads  BY DEF Threads
  <2>2. event' \in {event, Wake({"scan"})} /\ done' \subseteq done
    BY DEF FdoRemoveDevice, Drain
  <2> QED  BY <1>1, <2>1, <2>2, Waking DEF FdoTypes
<1>6. PhaseInv'  BY <1>1, <1>2, <1>3, <1>4 DEF PhaseInv, StateInv
<1>7. Running' = Running  BY <1>1, <1>2, <1>3, <1>4 DEF Running, PhaseInv, StateInv
<1>8. StateInv'  BY <1>1, <1>2, <1>3, <1>4, <1>7 DEF StateInv, PhaseInv, Running
<1>9. /\ ipc \notin {"drainsuspend", "release", "join"} /\ ipc' \notin {"drainsuspend", "release"}
  BY <1>2
<1> QED  BY <1>3, <1>4, <1>5, <1>6, <1>7, <1>8, <1>9, RequestMoves

LEMMA FdoRemoveChildrenStep ==
  ASSUME FdoInv, FdoRemoveChildren
  PROVE  FdoInv' /\ Existing' = Existing
<1>1. FdoTypes /\ PhaseInv /\ StateInv  BY DEF FdoInv
<1>2. /\ ipc = "removechildren" /\ op' = op /\ dx' = dx
        /\ ipc' = (IF dx.power = "D0" THEN "d0tod3" ELSE "join")
  BY DEF FdoRemoveChildren, At, ToD3, fdos
<1>3. dx \in Ext /\ dx' \in Ext /\ dx'.power = dx.power /\ dx.power \in {"D0", "D3"}
  BY <1>1, <1>2 DEF FdoTypes, Ext
<1>4. UNCHANGED <<active, ballooning, made, held, tpc, alerted, owner, balActive>>
  BY DEF FdoRemoveChildren, fdos, balloon, threads, Fdos, Query
<1>5. event' \subseteq Existing /\ done' \subseteq Existing
  <2>1. {"scan"} \in SUBSET Threads  BY DEF Threads
  <2>2. event' \in {event, Wake({"scan"})} /\ done' \subseteq done
    BY DEF FdoRemoveChildren, Drain
  <2> QED  BY <1>1, <2>1, <2>2, Waking DEF FdoTypes
<1>6. PhaseInv'  BY <1>1, <1>2, <1>3, <1>4 DEF PhaseInv, StateInv
<1>7. ipc' # "join" => Running' = Running  BY <1>1, <1>2, <1>3, <1>4 DEF Running, PhaseInv, StateInv
<1>8. StateInv'  BY <1>1, <1>2, <1>3, <1>4, <1>7 DEF StateInv, PhaseInv, Running
<1>9. /\ ipc \notin {"drainsuspend", "release", "join"} /\ ipc' \notin {"drainsuspend", "release"}
  BY <1>2
<1> QED  BY <1>3, <1>4, <1>5, <1>6, <1>7, <1>8, <1>9, RequestMoves

LEMMA FdoQueryDeviceRelationsStep ==
  ASSUME FdoInv, FdoQueryDeviceRelations
  PROVE  FdoInv' /\ Existing' = Existing
<1>1. FdoTypes /\ PhaseInv /\ StateInv  BY DEF FdoInv
<1>2. /\ ipc = "none" /\ dx.system = "S0" /\ dx.pnp = "Started" /\ ipc' = "report" /\ op' = "relations"
        /\ dx' = dx
  BY DEF FdoQueryDeviceRelations, Begin, Idle, InState, Awake, fdos
<1>3. dx \in Ext /\ dx' \in Ext /\ dx'.power = dx.power /\ dx.power \in {"D0", "D3"}
  BY <1>1, <1>2 DEF FdoTypes, Ext
<1>4. UNCHANGED <<active, ballooning, made, held, tpc, alerted, owner, balActive>>
  BY DEF FdoQueryDeviceRelations, fdos, balloon, threads, Fdos, Query
<1>5. event' \subseteq Existing /\ done' \subseteq Existing
  BY <1>1 DEF FdoQueryDeviceRelations, threads, Query, FdoTypes
<1>6. PhaseInv'  BY <1>1, <1>2, <1>3, <1>4 DEF PhaseInv, StateInv
<1>7. Running' = Running  BY <1>1, <1>2, <1>3, <1>4 DEF Running, PhaseInv, StateInv
<1>8. StateInv'  BY <1>1, <1>2, <1>3, <1>4, <1>7 DEF StateInv, PhaseInv, Running
<1>9. /\ ipc \notin {"drainsuspend", "release", "join"} /\ ipc' \notin {"drainsuspend", "release"}
  BY <1>2
<1> QED  BY <1>3, <1>4, <1>5, <1>6, <1>7, <1>8, <1>9, RequestMoves

LEMMA FdoReportRelationsStep ==
  ASSUME FdoInv, FdoReportRelations
  PROVE  FdoInv' /\ Existing' = Existing
<1>1. FdoTypes /\ PhaseInv /\ StateInv  BY DEF FdoInv
<1>2. /\ ipc = "report" /\ ipc' = "reported" /\ op' = op /\ dx' = dx
  BY DEF FdoReportRelations, fdos
<1>3. dx \in Ext /\ dx' \in Ext /\ dx'.power = dx.power /\ dx.power \in {"D0", "D3"}
  BY <1>1, <1>2 DEF FdoTypes, Ext
<1>4. UNCHANGED <<active, ballooning, made, held, tpc, alerted, owner, balActive>>
  BY DEF FdoReportRelations, fdos, balloon, threads, Fdos, Query
<1>5. event' \subseteq Existing /\ done' \subseteq Existing
  BY <1>1 DEF FdoReportRelations, threads, Query, FdoTypes
<1>6. PhaseInv'  BY <1>1, <1>2, <1>3, <1>4 DEF PhaseInv, StateInv
<1>7. Running' = Running  BY <1>1, <1>2, <1>3, <1>4 DEF Running, PhaseInv, StateInv
<1>8. StateInv'  BY <1>1, <1>2, <1>3, <1>4, <1>7 DEF StateInv, PhaseInv, Running
<1>9. /\ ipc \notin {"drainsuspend", "release", "join"} /\ ipc' \notin {"drainsuspend", "release"}
  BY <1>2
<1> QED  BY <1>3, <1>4, <1>5, <1>6, <1>7, <1>8, <1>9, RequestMoves

LEMMA FdoRelationsReportedStep ==
  ASSUME FdoInv, FdoRelationsReported
  PROVE  FdoInv' /\ Existing' = Existing
<1>1. FdoTypes /\ PhaseInv /\ StateInv  BY DEF FdoInv
<1>2. /\ ipc = "reported" /\ ipc' = "none" /\ op' = "none" /\ dx' = dx
  BY DEF FdoRelationsReported, Complete, fdos
<1>3. dx \in Ext /\ dx' \in Ext /\ dx'.power = dx.power /\ dx.power \in {"D0", "D3"}
  BY <1>1, <1>2 DEF FdoTypes, Ext
<1>4. UNCHANGED <<active, ballooning, made, held, tpc, alerted, owner, balActive>>
  BY DEF FdoRelationsReported, fdos, balloon, threads, Fdos, Query
<1>5. event' \subseteq Existing /\ done' \subseteq Existing
  <2>1. {"scan"} \in SUBSET Threads  BY DEF Threads
  <2>2. event' \in {event, Wake({"scan"})} /\ done' \subseteq done
    BY DEF FdoRelationsReported, Drain
  <2> QED  BY <1>1, <2>1, <2>2, Waking DEF FdoTypes
<1>6. PhaseInv'  BY <1>1, <1>2, <1>3, <1>4 DEF PhaseInv, StateInv
<1>7. Running' = Running  BY <1>1, <1>2, <1>3, <1>4 DEF Running, PhaseInv, StateInv
<1>8. StateInv'  BY <1>1, <1>2, <1>3, <1>4, <1>7 DEF StateInv, PhaseInv, Running
<1>9. /\ ipc \notin {"drainsuspend", "release", "join"} /\ ipc' \notin {"drainsuspend", "release"}
  BY <1>2
<1> QED  BY <1>3, <1>4, <1>5, <1>6, <1>7, <1>8, <1>9, RequestMoves

LEMMA FdoRelationsFailedStep ==
  ASSUME FdoInv, FdoRelationsFailed
  PROVE  FdoInv' /\ Existing' = Existing
<1>1. FdoTypes /\ PhaseInv /\ StateInv  BY DEF FdoInv
<1>2. /\ ipc = "reported" /\ ipc' = "none" /\ op' = "none" /\ dx' = dx
  BY DEF FdoRelationsFailed, Complete, fdos
<1>3. dx \in Ext /\ dx' \in Ext /\ dx'.power = dx.power /\ dx.power \in {"D0", "D3"}
  BY <1>1, <1>2 DEF FdoTypes, Ext
<1>4. UNCHANGED <<active, ballooning, made, held, tpc, alerted, owner, balActive>>
  BY DEF FdoRelationsFailed, fdos, balloon, threads, Fdos, Query
<1>5. event' \subseteq Existing /\ done' \subseteq Existing
  BY <1>1 DEF FdoRelationsFailed, threads, Query, FdoTypes
<1>6. PhaseInv'  BY <1>1, <1>2, <1>3, <1>4 DEF PhaseInv, StateInv
<1>7. Running' = Running  BY <1>1, <1>2, <1>3, <1>4 DEF Running, PhaseInv, StateInv
<1>8. StateInv'  BY <1>1, <1>2, <1>3, <1>4, <1>7 DEF StateInv, PhaseInv, Running
<1>9. /\ ipc \notin {"drainsuspend", "release", "join"} /\ ipc' \notin {"drainsuspend", "release"}
  BY <1>2
<1> QED  BY <1>3, <1>4, <1>5, <1>6, <1>7, <1>8, <1>9, RequestMoves

LEMMA FdoSleepStep ==
  ASSUME FdoInv, NEW s \in {"S3", "S4"}, FdoSleep(s)
  PROVE  FdoInv' /\ Existing' = Existing
<1>1. FdoTypes /\ PhaseInv /\ StateInv  BY DEF FdoInv
<1>2. /\ ipc = "none" /\ dx.system = "S0" /\ dx.pnp = "Started" /\ op' = s
        /\ dx' = dx
        /\ ipc' = (IF dx.power = "D0" THEN "d0tod3" ELSE "finish")
  BY DEF FdoSleep, Begin, Idle, InState, Awake, ToD3, fdos
<1>3. dx \in Ext /\ dx' \in Ext /\ dx'.power = dx.power /\ dx.power \in {"D0", "D3"}
  BY <1>1, <1>2 DEF FdoTypes, Ext
<1>4. UNCHANGED <<active, ballooning, made, held, tpc, alerted, owner, balActive>>
  BY DEF FdoSleep, fdos, balloon, threads, Fdos, Query
<1>5. event' \subseteq Existing /\ done' \subseteq Existing
  BY <1>1 DEF FdoSleep, threads, Query, FdoTypes
<1>6. PhaseInv'  BY <1>1, <1>2, <1>3, <1>4 DEF PhaseInv, StateInv
<1>7. Running' = Running  BY <1>1, <1>2, <1>3, <1>4 DEF Running, PhaseInv, StateInv
<1>8. StateInv'  BY <1>1, <1>2, <1>3, <1>4, <1>7 DEF StateInv, PhaseInv, Running
<1>9. /\ ipc \notin {"drainsuspend", "release", "join"} /\ ipc' \notin {"drainsuspend", "release"}
  BY <1>2
<1> QED  BY <1>3, <1>4, <1>5, <1>6, <1>7, <1>8, <1>9, RequestMoves

LEMMA FdoAsleepStep ==
  ASSUME FdoInv, FdoAsleep
  PROVE  FdoInv' /\ Existing' = Existing
<1>1. FdoTypes /\ PhaseInv /\ StateInv  BY DEF FdoInv
<1>2. /\ ipc = "finish" /\ op \in {"S3", "S4"} /\ ipc' = "none" /\ op' = "none"
        /\ dx' = [dx EXCEPT !.system = op]
  BY DEF FdoAsleep, Complete, Fdos
<1>3. /\ dx \in Ext /\ dx' \in Ext /\ dx'.power = dx.power /\ dx'.system = op
        /\ dx'.pnp = dx.pnp /\ dx'.prev = dx.prev
  BY <1>1, <1>2 DEF FdoTypes, Ext
<1>4. UNCHANGED <<active, ballooning, made, held, tpc, alerted, owner, balActive>>
  BY DEF FdoAsleep, fdos, balloon, threads, Fdos, Query
<1>5. event' \subseteq Existing /\ done' \subseteq Existing
  BY <1>1 DEF FdoAsleep, threads, Query, FdoTypes
<1>6. PhaseInv'  BY <1>1, <1>2, <1>3, <1>4 DEF PhaseInv, StateInv
<1>7. Running' = Running  BY <1>1, <1>2, <1>3, <1>4 DEF Running, PhaseInv, StateInv
<1>8. StateInv'  BY <1>1, <1>2, <1>3, <1>4, <1>7 DEF StateInv, PhaseInv, Running
<1>9. /\ ipc \notin {"drainsuspend", "release", "join"} /\ ipc' \notin {"drainsuspend", "release"}
  BY <1>2
<1> QED  BY <1>3, <1>4, <1>5, <1>6, <1>7, <1>8, <1>9, RequestMoves

LEMMA FdoWakeStep ==
  ASSUME FdoInv, FdoWake
  PROVE  FdoInv' /\ Existing' = Existing
<1>1. FdoTypes /\ PhaseInv /\ StateInv  BY DEF FdoInv
<1>2. /\ dx.system # "S0" /\ ipc = "none" /\ op' = "wake"
        /\ dx' = [dx EXCEPT !.system = "S0"]
        /\ ipc' = (IF dx.power = "D3" THEN "d3tod0" ELSE "finish")
  BY DEF FdoWake, Begin, Idle, Fdos
<1>3. /\ dx \in Ext /\ dx' \in Ext /\ dx'.power = dx.power /\ dx'.system = "S0"
        /\ dx'.pnp = dx.pnp /\ dx'.prev = dx.prev
  BY <1>1, <1>2 DEF FdoTypes, Ext
<1>4. UNCHANGED <<active, ballooning, made, held, tpc, alerted, owner, balActive>>
  BY DEF FdoWake, fdos, balloon, threads, Fdos, Query
<1>5. event' \subseteq Existing /\ done' \subseteq Existing
  BY <1>1 DEF FdoWake, threads, Query, FdoTypes
<1>6. PhaseInv'  BY <1>1, <1>2, <1>3, <1>4 DEF PhaseInv, StateInv
<1>7. Running' = Running  BY <1>1, <1>2, <1>3, <1>4 DEF Running, PhaseInv, StateInv
<1>8. StateInv'  BY <1>1, <1>2, <1>3, <1>4, <1>7 DEF StateInv, PhaseInv, Running
<1>9. /\ ipc \notin {"drainsuspend", "release", "join"} /\ ipc' \notin {"drainsuspend", "release"}
  BY <1>2
<1> QED  BY <1>3, <1>4, <1>5, <1>6, <1>7, <1>8, <1>9, RequestMoves

LEMMA FdoWokenStep ==
  ASSUME FdoInv, FdoWoken
  PROVE  FdoInv' /\ Existing' = Existing
<1>1. FdoTypes /\ PhaseInv /\ StateInv  BY DEF FdoInv
<1>2. /\ ipc = "finish" /\ op = "wake" /\ ipc' = "none" /\ op' = "none"
        /\ dx' = dx
  BY DEF FdoWoken, Complete, fdos
<1>3. dx \in Ext /\ dx' \in Ext /\ dx'.power = dx.power /\ dx.power \in {"D0", "D3"}
  BY <1>1, <1>2 DEF FdoTypes, Ext
<1>4. UNCHANGED <<active, ballooning, made, held, tpc, alerted, owner, balActive>>
  BY DEF FdoWoken, fdos, balloon, threads, Fdos, Query
<1>5. event' \subseteq Existing /\ done' \subseteq Existing
  BY <1>1 DEF FdoWoken, threads, Query, FdoTypes
<1>6. PhaseInv'  BY <1>1, <1>2, <1>3, <1>4 DEF PhaseInv, StateInv
<1>7. Running' = Running  BY <1>1, <1>2, <1>3, <1>4 DEF Running, PhaseInv, StateInv
<1>8. StateInv'  BY <1>1, <1>2, <1>3, <1>4, <1>7 DEF StateInv, PhaseInv, Running
<1>9. /\ ipc \notin {"drainsuspend", "release", "join"} /\ ipc' \notin {"drainsuspend", "release"}
  BY <1>2
<1> QED  BY <1>3, <1>4, <1>5, <1>6, <1>7, <1>8, <1>9, RequestMoves

-----------------------------------------------------------------------------
(* Power, the threads of a start and their end.                            *)

\* A step of a request that leaves the kinds of thread and the mutex as they are.
LEMMA PowerMoves ==
  ASSUME FdoInv, UNCHANGED <<active, ballooning, made, tpc, owner, balActive>>,
         dx' \in Ext, event' \subseteq Existing, done' \subseteq Existing,
         alerted' \subseteq Existing, ipc' # "join" => alerted' = {},
         PhaseInv', StateInv', HeldInv', DrainInv',
         ipc # "join", ipc' # "join" => Running' = Running
  PROVE  FdoInv' /\ Existing' = Existing
<1>1. FdoTypes /\ ThreadInv  BY DEF FdoInv
<1>2. Existing' = Existing  BY DEF Existing
<1>3. FdoTypes'  BY <1>1, <1>2 DEF FdoTypes
<1>4. ThreadInv'  BY <1>1, <1>2 DEF ThreadInv, AllThreads, ThreadStages
<1> QED  BY <1>2, <1>3, <1>4 DEF FdoInv

LEMMA FdoD3ToD0Step ==
  ASSUME FdoInv, NEW n \in 0..Len(PowerStages), FdoD3ToD0(n)
  PROVE  FdoInv' /\ Existing' = Existing
<1>1. FdoTypes /\ PhaseInv /\ StateInv /\ HeldInv /\ ThreadInv /\ DrainInv  BY DEF FdoInv
<1>2. n \in 0..15 /\ Len(PowerStages) = 15  BY Stages
<1>3. /\ ipc = "d3tod0" /\ dx.power = "D3" /\ held = {}
      /\ UNCHANGED <<active, ballooning, made, tpc, alerted, owner, balActive, done>>
  BY <1>1 DEF FdoD3ToD0, StateInv, HeldInv, balloon
<1>4. held' = (IF n = 15 THEN Applicable ELSE {})
  <2>1. held' = Left(PowerStages, n) \cap Applicable  BY <1>3 DEF FdoD3ToD0
  <2>2. CASE n = 15  BY <2>1, <2>2, Applied
  <2>3. CASE n # 15  BY <1>2, <2>1, <2>3, AllOrNothing
  <2> QED  BY <2>2, <2>3
<1>5. /\ dx' \in Ext /\ dx'.pnp = dx.pnp /\ dx'.prev = dx.prev /\ dx'.system = dx.system
      /\ dx'.power = (IF n = 15 THEN "D0" ELSE "D3")
  BY <1>1, <1>2, <1>3 DEF FdoD3ToD0, FdoTypes, Ext
<1>6. event' \subseteq Existing
  <2>1. {t \in Threads : t \o "watch" \in Applicable} \in SUBSET Threads  OBVIOUS
  <2>2. event' \in {event, Wake({t \in Threads : t \o "watch" \in Applicable})}
    BY DEF FdoD3ToD0
  <2> QED  BY <1>1, <2>1, <2>2, Waking DEF FdoTypes
<1>7. /\ op \in {"start", "wake"}
      /\ op = "wake" => ipc' = "finish" /\ op' = op
      /\ op = "start" /\ n = 15 => ipc' \in {"startdrain", "finish"} /\ op' = op
      /\ op = "start" /\ n # 15 => ipc' = "join" /\ op' = "startfailed"
  BY <1>1, <1>2, <1>3 DEF FdoD3ToD0, PhaseInv
<1>8. PhaseInv'  BY <1>1, <1>3, <1>5, <1>7 DEF PhaseInv
<1>9. ipc' # "join" => Running' = Running  BY <1>1, <1>3, <1>5, <1>7 DEF PhaseInv, Running
<1>10. StateInv'  BY <1>1, <1>3, <1>5, <1>7, <1>9 DEF StateInv, PhaseInv, Running
<1>11. HeldInv'  BY <1>3, <1>4, <1>5, <1>7 DEF HeldInv, Applicable
<1>12. DrainInv'  BY <1>1, <1>3, <1>5, <1>7 DEF DrainInv
<1>13. done' \subseteq Existing /\ alerted' \subseteq Existing /\ alerted' = {} /\ ipc # "join"
  BY <1>1, <1>3 DEF FdoTypes, ThreadInv
<1> QED  BY <1>3, <1>5, <1>6, <1>8, <1>9, <1>10, <1>11, <1>12, <1>13, PowerMoves

LEMMA FdoSetD3Step ==
  ASSUME FdoInv, FdoSetD3
  PROVE  FdoInv' /\ Existing' = Existing
<1>1. FdoTypes /\ PhaseInv /\ StateInv /\ HeldInv /\ ThreadInv /\ DrainInv  BY DEF FdoInv
<1>2. /\ ipc = "d0tod3" /\ ipc' = (IF active THEN "drainsuspend" ELSE "release") /\ op' = op
      /\ UNCHANGED <<active, ballooning, made, held, tpc, alerted, owner, balActive>>
  BY DEF FdoSetD3, At, balloon
<1>3. dx.power = "D0" /\ held = Applicable  BY <1>1, <1>2 DEF StateInv, HeldInv
<1>4. /\ dx' \in Ext /\ dx'.pnp = dx.pnp /\ dx'.prev = dx.prev /\ dx'.system = dx.system
      /\ dx'.power = "D3"
  BY <1>1 DEF FdoSetD3, FdoTypes, Ext
<1>5. event' \subseteq Existing /\ done' \subseteq done /\ (ballooning => "balloon" \notin done')
  <2>1. {"balloon"} \in SUBSET Threads  BY DEF Threads
  <2>2. event' \in {event, Wake({"balloon"})} /\ done' \subseteq done /\ (ballooning => "balloon" \notin done')
    BY DEF FdoSetD3, Drain
  <2> QED  BY <1>1, <2>1, <2>2, Waking DEF FdoTypes
<1>6. PhaseInv'  BY <1>1, <1>2, <1>4 DEF PhaseInv
<1>7. Running' = Running  BY <1>1, <1>2, <1>4 DEF PhaseInv, Running
<1>8. StateInv'  BY <1>1, <1>2, <1>3, <1>4, <1>7 DEF StateInv, PhaseInv
<1>9. HeldInv'  BY <1>2, <1>3, <1>4 DEF HeldInv, Applicable
<1>10. /\ tpc["suspend"] # "none" => active
       /\ tpc["balloon"] # "none" => active /\ ballooning
  <2>1. "suspend" \in Threads /\ "balloon" \in Threads  BY DEF Threads
  <2> QED  BY <1>1, <2>1, ThreadSets DEF ThreadInv, AllThreads, Existing, FdoTypes
<1>11. DrainInv'
  <2>1. ballooning => active  BY <1>1 DEF FdoTypes
  <2> QED  BY <1>1, <1>2, <1>3, <1>4, <1>5, <1>10, <2>1 DEF DrainInv
<1>12. done' \subseteq Existing /\ alerted' \subseteq Existing /\ alerted' = {} /\ ipc # "join" /\ ipc' # "join"
  BY <1>1, <1>2, <1>5 DEF FdoTypes, ThreadInv
<1> QED  BY <1>2, <1>4, <1>5, <1>6, <1>7, <1>8, <1>9, <1>11, <1>12, PowerMoves

LEMMA FdoDrainSuspendStep ==
  ASSUME FdoInv, FdoDrainSuspend
  PROVE  FdoInv' /\ Existing' = Existing
<1>1. FdoTypes /\ PhaseInv /\ StateInv /\ HeldInv /\ ThreadInv /\ DrainInv  BY DEF FdoInv
<1>2. /\ ipc = "drainsuspend" /\ ipc' = "release" /\ op' = op /\ (ballooning => "balloon" \in done)
      /\ UNCHANGED <<dx, active, ballooning, made, held, tpc, alerted, owner, balActive>>
      /\ done' = done \ {"suspend"}
  BY DEF FdoDrainSuspend, Drain, At, balloon, fdos
<1>3. dx.power = "D3" /\ active /\ dx \in Ext  BY <1>1, <1>2 DEF StateInv, FdoTypes
<1>4. event' \subseteq Existing
  <2>1. {"suspend"} \in SUBSET Threads  BY DEF Threads
  <2>2. event' = Wake({"suspend"})  BY DEF FdoDrainSuspend, Drain
  <2> QED  BY <1>1, <2>1, <2>2, Waking DEF FdoTypes
<1>5. PhaseInv'  BY <1>1, <1>2 DEF PhaseInv
<1>6. Running' = Running  BY <1>1, <1>2 DEF PhaseInv, Running
<1>7. StateInv'  BY <1>1, <1>2, <1>3, <1>6 DEF StateInv, PhaseInv
<1>8. HeldInv'  BY <1>1, <1>2, <1>3 DEF HeldInv, Applicable
<1>9. tpc["balloon"] # "none" => ballooning
  <2>1. "balloon" \in Threads  BY DEF Threads
  <2> QED  BY <1>1, <2>1, ThreadSets DEF ThreadInv, AllThreads, Existing, FdoTypes
<1>10. DrainInv'  BY <1>1, <1>2, <1>3, <1>9 DEF DrainInv
<1>11. done' \subseteq Existing /\ alerted' \subseteq Existing /\ alerted' = {} /\ ipc # "join" /\ ipc' # "join"
  BY <1>1, <1>2 DEF FdoTypes, ThreadInv
<1> QED  BY <1>2, <1>3, <1>4, <1>5, <1>6, <1>7, <1>8, <1>10, <1>11, PowerMoves

LEMMA FdoReleaseStep ==
  ASSUME FdoInv, FdoRelease
  PROVE  FdoInv' /\ Existing' = Existing
<1>1. FdoTypes /\ PhaseInv /\ StateInv /\ HeldInv /\ ThreadInv /\ DrainInv  BY DEF FdoInv
<1>2. /\ ipc = "release" /\ ipc' = (IF op \in {"stop", "remove"} THEN "join" ELSE "finish")
      /\ op' = op /\ (active => "suspend" \in done) /\ held' = held \ Applicable
      /\ UNCHANGED <<dx, active, ballooning, made, tpc, event, done, alerted, owner, balActive>>
  BY DEF FdoRelease, At, balloon, threads
<1>3. dx.power = "D3" /\ dx \in Ext /\ held' = {}  BY <1>1, <1>2 DEF StateInv, FdoTypes, HeldInv
<1>4. PhaseInv'  BY <1>1, <1>2 DEF PhaseInv
<1>5. ipc' # "join" => Running' = Running  BY <1>1, <1>2 DEF PhaseInv, Running
<1>6. StateInv'  BY <1>1, <1>2, <1>3 DEF StateInv, PhaseInv, Running
<1>7. HeldInv'  BY <1>2, <1>3 DEF HeldInv
<1>8. tpc["suspend"] # "none" => active
  <2>1. "suspend" \in Threads  BY DEF Threads
  <2> QED  BY <1>1, <2>1 DEF ThreadInv, AllThreads, Existing
<1>9. DrainInv'  BY <1>1, <1>2, <1>3, <1>8 DEF DrainInv
<1>10. /\ event' \subseteq Existing /\ done' \subseteq Existing /\ alerted' \subseteq Existing
       /\ alerted' = {} /\ ipc # "join"
  BY <1>1, <1>2 DEF FdoTypes, ThreadInv
<1> QED  BY <1>2, <1>3, <1>4, <1>5, <1>6, <1>7, <1>9, <1>10, PowerMoves

LEMMA ThreadAlertStep ==
  ASSUME FdoInv, ThreadAlert
  PROVE  FdoInv' /\ Existing' = Existing
<1>1. FdoTypes /\ PhaseInv /\ StateInv /\ HeldInv /\ ThreadInv /\ DrainInv  BY DEF FdoInv
<1>2. /\ ipc = "join" /\ Existing # {} /\ alerted' = alerted \cup {NextJoined}
      /\ event' = Wake({NextJoined})
      /\ UNCHANGED <<dx, active, ballooning, made, held, tpc, done, owner, balActive, ipc, op>>
  BY DEF ThreadAlert, balloon, fdos, irps
<1>3. NextJoined \in Existing /\ NextJoined \in Threads
  BY <1>2 DEF NextJoined, Existing, Threads
<1>4. Existing' = Existing  BY <1>2 DEF Existing
<1>5. event' \subseteq Existing
  <2>1. {NextJoined} \in SUBSET Threads  BY <1>3
  <2> QED  BY <1>1, <1>2, <2>1, Waking DEF FdoTypes
<1>6. FdoTypes'  BY <1>1, <1>2, <1>3, <1>4, <1>5 DEF FdoTypes
<1>7. PhaseInv'  BY <1>1, <1>2 DEF PhaseInv
<1>8. StateInv'  BY <1>1, <1>2 DEF StateInv, Running
<1>9. HeldInv'  BY <1>1, <1>2 DEF HeldInv, Applicable
<1>10. ThreadInv'  BY <1>1, <1>2, <1>4 DEF ThreadInv, AllThreads, ThreadStages
<1>11. DrainInv'  BY <1>1, <1>2 DEF DrainInv
<1> QED  BY <1>4, <1>6, <1>7, <1>8, <1>9, <1>10, <1>11 DEF FdoInv

LEMMA ThreadJoinStep ==
  ASSUME FdoInv, ThreadJoin
  PROVE  FdoInv'
<1>1. FdoTypes /\ PhaseInv /\ StateInv /\ HeldInv /\ ThreadInv /\ DrainInv  BY DEF FdoInv
<1>2. /\ ipc = "join" /\ Existing # {} /\ tpc[NextJoined] = "exited"
      /\ tpc' = [tpc EXCEPT ![NextJoined] = "none"]
      /\ event' = event \ {NextJoined} /\ done' = done \ {NextJoined}
      /\ alerted' = alerted \ {NextJoined}
      /\ UNCHANGED <<dx, active, ballooning, made, held, owner, balActive, ipc, op>>
  BY DEF ThreadJoin, balloon, fdos, irps, Goto
<1>3. NextJoined \in Existing /\ NextJoined \in Threads
  BY <1>2 DEF NextJoined, Existing, Threads
<1> DEFINE u == NextJoined
<1>4. /\ tpc' \in [Threads -> ThreadPoints] /\ tpc'[u] = "none" /\ tpc[u] = "exited"
      /\ \A t \in Threads \ {u} : tpc'[t] = tpc[t]
  BY <1>1, <1>2, <1>3 DEF FdoTypes, ThreadPoints
<1>5. Existing' = Existing \ {u}  BY <1>3, <1>4 DEF Existing
<1> HIDE DEF u
<1>6. event' = event \ {u} /\ done' = done \ {u} /\ alerted' = alerted \ {u} /\ u \in Threads
  BY <1>2, <1>3 DEF u
<1>7. FdoTypes'  BY <1>1, <1>2, <1>4, <1>5, <1>6 DEF FdoTypes
<1>8. PhaseInv'  BY <1>1, <1>2 DEF PhaseInv
<1>9. StateInv'  BY <1>1, <1>2 DEF StateInv, Running
<1>10. HeldInv'  BY <1>1, <1>2 DEF HeldInv, Applicable
<1>11. ThreadInv'
  BY <1>1, <1>2, <1>5 DEF ThreadInv, AllThreads, ThreadStages
<1>12. DrainInv'
  <2>1. \/ tpc'["suspend"] = tpc["suspend"]
        \/ tpc'["suspend"] = "none" /\ tpc["suspend"] = "exited"
    BY <1>4 DEF Threads
  <2>2. \/ tpc'["balloon"] = tpc["balloon"]
        \/ tpc'["balloon"] = "none" /\ tpc["balloon"] = "exited"
    BY <1>4 DEF Threads
  <2>3. balActive \in BOOLEAN /\ balActive' = balActive /\ dx' = dx /\ ipc' = ipc /\ ipc = "join"
    BY <1>1, <1>2 DEF FdoTypes
  <2> QED  BY <1>1, <1>2, <2>1, <2>2, <2>3 DEF DrainInv
<1> QED  BY <1>7, <1>8, <1>9, <1>10, <1>11, <1>12 DEF FdoInv

LEMMA JoinedStep ==
  ASSUME FdoInv, Joined
  PROVE  FdoInv'
<1>1. FdoTypes /\ PhaseInv /\ StateInv /\ HeldInv /\ ThreadInv /\ DrainInv  BY DEF FdoInv
<1>2. /\ ipc = "join" /\ ipc' = "finish" /\ op' = op /\ Existing = {}
      /\ made' = made \ Resources
      /\ UNCHANGED <<dx, active, ballooning, held, tpc, event, alerted, done, owner, balActive>>
  BY DEF Joined, balloon, threads, At, Resources
<1>3. op \in {"startfailed", "stop", "remove"}  BY <1>1, <1>2 DEF PhaseInv
<1>4. Existing' = {} /\ dx.power = "D3"  BY <1>1, <1>2 DEF Existing, StateInv
<1>5. FdoTypes'  BY <1>1, <1>2, <1>4 DEF FdoTypes
<1>6. PhaseInv'  BY <1>1, <1>2, <1>3 DEF PhaseInv
<1>7. ~Running'  BY <1>2, <1>3 DEF Running
<1>8. StateInv'  BY <1>1, <1>2, <1>3, <1>4, <1>7 DEF StateInv
<1>9. HeldInv'  BY <1>1, <1>2 DEF HeldInv, Applicable
<1>10. ThreadInv'
  <2>1. alerted' = {}  BY <1>1, <1>2 DEF FdoTypes
  <2> QED  BY <1>2, <1>4, <1>7, <2>1 DEF ThreadInv
<1>11. DrainInv'  BY <1>1, <1>2 DEF DrainInv
<1> QED  BY <1>5, <1>6, <1>8, <1>9, <1>10, <1>11 DEF FdoInv

LEMMA FdoStartDeviceStep ==
  ASSUME FdoInv, NEW n \in 0..Len(StartStages), FdoStartDevice(n)
  PROVE  FdoInv'
<1>1. FdoTypes /\ PhaseInv /\ StateInv /\ HeldInv /\ ThreadInv /\ DrainInv  BY DEF FdoInv
<1>2. n \in 0..7 /\ Len(StartStages) = 7  BY Stages
<1>3. /\ ipc = "none" /\ dx.pnp \in {"Added", "Stopped"} /\ dx.system = "S0"
      /\ op' = (IF n = 7 THEN "start" ELSE "startfailed")
      /\ ipc' = (IF n = 7 THEN "d3tod0" ELSE "join")
      /\ made' = made \cup (Starting(n) \ (Threads \cup {"lower"}))
      /\ tpc' = [t \in Threads |-> IF t \in Starting(n) THEN "wait" ELSE tpc[t]]
      /\ UNCHANGED <<dx, active, ballooning, held, event, alerted, done, owner, balActive>>
  BY <1>2 DEF FdoStartDevice, Begin, Idle, Awake, balloon
<1>4. ~Running  BY <1>1, <1>3 DEF Running, PhaseInv, StateInv
<1>5. /\ Existing = {} /\ alerted = {} /\ event = {} /\ done = {} /\ dx.power = "D3" /\ dx \in Ext
      /\ active \in BOOLEAN
  BY <1>1, <1>3, <1>4 DEF ThreadInv, StateInv, FdoTypes
<1>6. /\ Starting(n) \subseteq {"lower"} \cup Resources \cup AllThreads
      /\ n = 7 => AllThreads \subseteq Starting(n)
  <2>1. Starting(n) = Taken(StartStages, n) \ (IF active THEN Threads \ ThreadStages ELSE Threads \cup {"interrupt"})
    BY DEF Starting, FirstStages
  <2>2. Taken(StartStages, n) \subseteq {"lower"} \cup Resources \cup Threads  BY <1>2, Stages
  <2>3. n = 7 => Threads \subseteq Taken(StartStages, n)  BY Stages
  <2> QED  BY <1>5, <2>1, <2>2, <2>3, ThreadSets DEF AllThreads
<1>7. Existing' = Starting(n) \cap Threads
  BY <1>3, <1>5 DEF Existing
<1>8. /\ Existing' \subseteq AllThreads /\ (n = 7 => Existing' = AllThreads)
      /\ AllThreads' = AllThreads
  <2>1. AllThreads \cap ({"lower"} \cup Resources) = {} /\ Threads \cap ({"lower"} \cup Resources) = {}
    BY ThreadSets DEF AllThreads, Resources, Threads
  <2>2. AllThreads \subseteq Threads  BY ThreadSets DEF AllThreads
  <2>3. AllThreads' = AllThreads  BY <1>3 DEF AllThreads, ThreadStages
  <2> QED  BY <1>6, <1>7, <2>1, <2>2, <2>3
<1>9. FdoTypes'
  <2>1. made' \subseteq Taken(CreateStages, Len(CreateStages)) \cup Resources
    <3>1. AllThreads \subseteq Threads  BY ThreadSets DEF AllThreads
    <3> QED  BY <1>1, <1>3, <1>6, <3>1 DEF FdoTypes
  <2>2. tpc' \in [Threads -> ThreadPoints]  BY <1>1, <1>3 DEF FdoTypes, ThreadPoints
  <2> QED  BY <1>1, <1>3, <1>5, <2>1, <2>2 DEF FdoTypes
<1>10. PhaseInv'  BY <1>3 DEF PhaseInv
<1>11. ipc' # "join" => n = 7 /\ Running'  BY <1>3 DEF Running
<1>12. StateInv'  BY <1>1, <1>3, <1>5 DEF StateInv
<1>13. HeldInv'  BY <1>1, <1>3, <1>5 DEF HeldInv
<1>14. ThreadInv'  BY <1>5, <1>3, <1>8, <1>11 DEF ThreadInv
<1>15. DrainInv'
  <2>1. \A t \in Threads : tpc[t] = "none" /\ tpc'[t] \in {"none", "wait"}
    BY <1>1, <1>3, <1>5 DEF Existing, FdoTypes
  <2>2. tpc["suspend"] = "none" /\ tpc["balloon"] = "none" /\ tpc'["suspend"] \in {"none", "wait"}
        /\ tpc'["balloon"] \in {"none", "wait"}
    BY <2>1 DEF Threads
  <2> QED  BY <1>1, <1>3, <1>5, <2>2 DEF DrainInv
<1> QED  BY <1>9, <1>10, <1>12, <1>13, <1>14, <1>15 DEF FdoInv

\* The FDO is made, or what was left of it goes.
LEMMA BareSteps ==
  ASSUME FdoInv, Existing = {}, ~Running, ipc # "join", ipc' = "none", op' = "none",
         UNCHANGED <<held, tpc, alerted, done, owner, balActive>>, event' \subseteq Existing,
         dx' \in Ext, dx'.power = "D3", dx'.system = "S0",
         dx'.pnp \in {"None", "Added", "Deleted"}, dx'.pnp = "Added" => dx'.prev # "Started",
         dx'.pnp = "None" => made' = {}, Resources \cap made' = {},
         made' \subseteq Taken(CreateStages, Len(CreateStages)) \cup Resources,
         active' \in BOOLEAN, ballooning' \in BOOLEAN, ballooning' => active'
  PROVE  FdoInv'
<1>1. FdoTypes /\ PhaseInv /\ StateInv /\ HeldInv /\ ThreadInv /\ DrainInv  BY DEF FdoInv
<1>2. /\ alerted = {} /\ event' = {} /\ done = {} /\ dx.power = "D3" /\ held = {}
      /\ ipc \notin {"drainsuspend", "release"}
  <2>1. ipc \notin {"drainsuspend", "release"}
    BY <1>1 DEF PhaseInv, Running
  <2> QED  BY <1>1, <2>1 DEF FdoTypes, StateInv, HeldInv
<1>3. Existing' = {}  BY DEF Existing
<1>4. \A t \in Threads : tpc[t] = "none"  BY DEF Existing
<1>5. FdoTypes'  BY <1>1, <1>2, <1>3 DEF FdoTypes
<1>6. PhaseInv'  BY DEF PhaseInv
<1>7. ~Running'  BY DEF Running
<1>8. StateInv'  BY <1>7 DEF StateInv
<1>9. HeldInv'  BY <1>2 DEF HeldInv
<1>10. ThreadInv'  BY <1>2, <1>3, <1>7 DEF ThreadInv
<1>11. DrainInv'
  <2>1. tpc["suspend"] = "none" /\ tpc["balloon"] = "none"  BY <1>4 DEF Threads
  <2>2. balActive = FALSE  BY <1>1, <1>2, <2>1 DEF DrainInv, FdoTypes
  <2> QED  BY <1>1, <1>2, <2>1, <2>2 DEF DrainInv
<1> QED  BY <1>5, <1>6, <1>8, <1>9, <1>10, <1>11 DEF FdoInv

LEMMA FdoCreateStep ==
  ASSUME FdoInv, NEW n \in 0..Len(CreateStages), FdoCreate(n)
  PROVE  FdoInv'
<1>1. FdoTypes /\ PhaseInv /\ StateInv /\ HeldInv /\ ThreadInv /\ DrainInv  BY DEF FdoInv
<1>2. n \in 0..19 /\ Len(CreateStages) = 19  BY Stages
<1>3. /\ ipc = "none" /\ dx.pnp = "None" /\ made' = Created(n)
      /\ active' \in BOOLEAN /\ ballooning' \in BOOLEAN /\ (ballooning' => active')
      /\ dx' = (IF n = 19 THEN [NoPdo EXCEPT !.pnp = "Added"] ELSE dx)
      /\ UNCHANGED <<held, tpc, event, alerted, done, owner, balActive, ipc, op>>
  BY <1>2 DEF FdoCreate, Idle, threads, balloon, irps
<1>4. ~Running /\ op = "none"  BY <1>1, <1>3 DEF Running, PhaseInv
<1>5. Existing = {} /\ event' \subseteq Existing  BY <1>1, <1>3, <1>4 DEF ThreadInv, FdoTypes
<1>6. /\ dx' \in Ext /\ dx'.power = "D3" /\ dx'.system = "S0"
      /\ dx'.pnp = (IF n = 19 THEN "Added" ELSE "None")
      /\ dx'.pnp = "Added" => dx'.prev # "Started"
  <2>1. CASE n = 19
    <3>1. dx' = [NoPdo EXCEPT !.pnp = "Added"]  BY <1>3, <2>1
    <3> QED  BY <2>1, <3>1, Initial DEF Ext, PnpStates
  <2>2. CASE n # 19
    <3>1. dx' = dx  BY <1>3, <2>2
    <3> QED  BY <1>1, <1>3, <1>4, <2>2, <3>1 DEF FdoTypes, StateInv, Ext
  <2> QED  BY <2>1, <2>2
<1>7. /\ Created(n) \subseteq Taken(CreateStages, 19)
      /\ n # 19 => Created(n) = {}
      /\ Resources \cap Taken(CreateStages, 19) = {}
  <2>1. Created(n) \subseteq Left(CreateStages, n)  BY DEF Created
  <2>2. Left(CreateStages, n) = (IF n = 19 THEN Taken(CreateStages, 19) ELSE {})
    BY <1>2, AllOrNothing
  <2>3. \A i \in 1..19 : CreateStages[i] \notin Resources
    <3>1. \A i \in 1..19 : i \in {1, 2, 3, 4, 5, 6, 7, 8, 9, 10, 11, 12, 13, 14, 15, 16, 17, 18, 19}
      OBVIOUS
    <3> QED  BY <3>1 DEF CreateStages, Resources
  <2>4. Resources \cap Taken(CreateStages, 19) = {}  BY <2>3 DEF Taken
  <2> QED  BY <2>1, <2>2, <2>4
<1>8. /\ dx'.pnp = "None" => made' = {}
      /\ Resources \cap made' = {}
      /\ made' \subseteq Taken(CreateStages, Len(CreateStages)) \cup Resources
      /\ dx'.pnp \in {"None", "Added", "Deleted"}
  BY <1>2, <1>3, <1>6, <1>7
<1>9. ipc # "join" /\ ipc' = "none" /\ op' = "none"  BY <1>3, <1>4
<1> QED  BY <1>3, <1>4, <1>5, <1>6, <1>8, <1>9, BareSteps

\* The end of REMOVE_DEVICE, and the last reference to an FDO that has had its own.
LEMMA DestroyedStep ==
  ASSUME FdoInv, UNCHANGED <<held, tpc, alerted, done, owner, balActive>>,
         event' \subseteq Existing, ipc' = "none", op' = "none",
         \/ ipc = "finish" /\ op = "remove"
         \/ ipc = "none" /\ op = "none" /\ dx.pnp = "Deleted",
         \/ Destroyed
         \/ dx' = SetPnp(dx, "Deleted") /\ UNCHANGED <<made, active, ballooning>>
  PROVE  FdoInv'
<1>1. FdoTypes /\ PhaseInv /\ StateInv /\ HeldInv /\ ThreadInv /\ DrainInv  BY DEF FdoInv
<1>2. ~Running /\ ipc # "join" /\ dx.system = "S0" /\ dx.power = "D3"
  BY <1>1 DEF Running, StateInv, PhaseInv, FdoTypes, Ext
<1>3. Existing = {} /\ Resources \cap made = {} /\ dx \in Ext  BY <1>1, <1>2 DEF ThreadInv, FdoTypes
<1>4. CASE Destroyed
  <2>1. /\ dx' \in Ext /\ dx'.power = "D3" /\ dx'.system = "S0" /\ dx'.pnp = "None" /\ made' = {}
        /\ active' = FALSE /\ ballooning' = FALSE
    BY <1>4, Initial DEF Destroyed
  <2>2. /\ dx'.pnp \in {"None", "Added", "Deleted"} /\ (dx'.pnp = "Added" => dx'.prev # "Started")
        /\ Resources \cap made' = {}
        /\ made' \subseteq Taken(CreateStages, Len(CreateStages)) \cup Resources
        /\ active' \in BOOLEAN /\ ballooning' \in BOOLEAN /\ (ballooning' => active')
    BY <2>1
  <2> QED  BY <1>2, <1>3, <2>1, <2>2, BareSteps
<1>5. CASE dx' = SetPnp(dx, "Deleted") /\ UNCHANGED <<made, active, ballooning>>
  <2>1. "Deleted" \in PnpStates  BY DEF PnpStates
  <2>2. dx' \in Ext /\ dx'.power = "D3" /\ dx'.system = "S0" /\ dx'.pnp = "Deleted"
    BY <1>2, <1>3, <1>5, <2>1, Extensions
  <2>3. /\ dx'.pnp \in {"None", "Added", "Deleted"} /\ (dx'.pnp = "Added" => dx'.prev # "Started")
        /\ (dx'.pnp = "None" => made' = {}) /\ Resources \cap made' = {}
        /\ made' \subseteq Taken(CreateStages, Len(CreateStages)) \cup Resources
        /\ active' \in BOOLEAN /\ ballooning' \in BOOLEAN /\ (ballooning' => active')
    BY <1>1, <1>3, <1>5, <2>2 DEF FdoTypes
  <2> QED  BY <1>2, <1>3, <2>2, <2>3, BareSteps
<1> QED  BY <1>4, <1>5

\* Steps of the children and of the toolstack.
LEMMA QuietSteps ==
  ASSUME FdoInv, UNCHANGED <<dx, active, ballooning, made, held, tpc, alerted, done, owner,
                             balActive, ipc, op>>,
         event' \subseteq Existing
  PROVE  FdoInv'
<1>1. FdoTypes /\ PhaseInv /\ StateInv /\ HeldInv /\ ThreadInv /\ DrainInv  BY DEF FdoInv
<1>2. Existing' = Existing  BY DEF Existing
<1>3. FdoTypes'  BY <1>1, <1>2 DEF FdoTypes
<1>4. PhaseInv'  BY <1>1 DEF PhaseInv
<1>5. StateInv'  BY <1>1 DEF StateInv, Running
<1>6. HeldInv'  BY <1>1 DEF HeldInv, Applicable
<1>7. ThreadInv'  BY <1>1, <1>2 DEF ThreadInv, AllThreads, ThreadStages, Running
<1>8. DrainInv'  BY <1>1 DEF DrainInv
<1> QED  BY <1>3, <1>4, <1>5, <1>6, <1>7, <1>8 DEF FdoInv

-----------------------------------------------------------------------------
(* The children.                                                           *)

LEMMA Powered ==
  ASSUME NEW d \in Ext, d.held <=> d.power = "D0", NEW s \in {"D0", "D3"}
  PROVE  LET e == PdoSetDevicePower(d, s, TRUE) IN
         /\ e \in Ext /\ e.power = s /\ (e.held <=> s = "D0")
         /\ e.pnp = d.pnp /\ e.prev = d.prev /\ e.missing = d.missing /\ e.known = d.known
         /\ e.class = d.class
<1>1. d.power \in {"D0", "D3"} /\ d.held \in BOOLEAN  BY DEF Ext
<1>2. CASE s = "D0" /\ d.power = "D3"  BY <1>2 DEF PdoSetDevicePower, D3ToD0, Ext
<1>3. CASE s = "D3" /\ d.power = "D0"  BY <1>3 DEF PdoSetDevicePower, D0ToD3, Ext
<1>4. CASE s = d.power
  <2>1. PdoSetDevicePower(d, s, TRUE) = d  BY <1>4 DEF PdoSetDevicePower
  <2> QED  BY <1>1, <1>4, <2>1
<1> QED  BY <1>1, <1>2, <1>3, <1>4

LEMMA InSystemState ==
  ASSUME NEW d \in Ext, NEW s \in {"S0", "S3", "S4"}
  PROVE  LET e == PdoSetSystemPower(d, s) IN
         /\ e \in Ext /\ e.power = d.power /\ e.held = d.held
         /\ e.pnp = d.pnp /\ e.prev = d.prev /\ e.missing = d.missing /\ e.known = d.known
         /\ e.class = d.class
BY DEF PdoSetSystemPower, Ext

LEMMA Missed ==
  ASSUME NEW d \in Ext
  PROVE  LET e == SetMissing(d) IN
         /\ e \in Ext /\ e.missing = TRUE /\ e.power = d.power /\ e.held = d.held
         /\ e.pnp = d.pnp /\ e.prev = d.prev /\ e.known = d.known /\ e.class = d.class
BY DEF SetMissing, Ext

LEMMA NewBorn ==
  ASSUME NEW c \in Class
  PROVE  LET e == NewPdo(c) IN
         /\ e \in Ext /\ e.missing = FALSE /\ e.power = "D3" /\ e.held = FALSE
         /\ e.pnp = "Present" /\ e.known = FALSE /\ e.class = c
BY DEF NewPdo, NoPdo, Ext, PnpStates

LEMMA ListIsFinite == IsFiniteSet(Pdos) /\ (\A S \in SUBSET Pdos : IsFiniteSet(S) /\ Cardinality(S) \in Nat)
BY FdoAssumption, FS_Subset, FS_CardinalityType

LEMMA ListIsListed == Listed \subseteq Pdos /\ Live \subseteq Listed /\ \A p \in Pdos : p \in Listed <=> pdo[p].pnp # "None"
BY DEF Listed, Live

\* What goes off the list gives its reference back, and no class gets a second child.
LEMMA ListMoves ==
  ASSUME ReferencesInv, OneOfAClass, pdo \in [Pdos -> Ext], pdo' \in [Pdos -> Ext],
         NEW Gone \in SUBSET Listed, Listed' = Listed \ Gone,
         \A p \in Listed' : pdo'[p].class = pdo[p].class /\ (~pdo'[p].missing => ~pdo[p].missing),
         references' = references - Cardinality(Gone),
         dx'.pnp \in {"None", "Deleted"} <=> dx.pnp \in {"None", "Deleted"}
  PROVE  ReferencesInv' /\ OneOfAClass'
<1>1. IsFiniteSet(Listed) /\ IsFiniteSet(Gone)  BY ListIsFinite, ListIsListed
<1>2. Listed \cap Gone = Gone  OBVIOUS
<1>3. /\ Cardinality(Listed \ Gone) = Cardinality(Listed) - Cardinality(Gone)
      /\ Cardinality(Listed) \in Nat /\ Cardinality(Gone) \in Nat
  BY <1>1, <1>2, FS_Difference, FS_CardinalityType
<1>4. ReferencesInv'  BY <1>3 DEF ReferencesInv
<1>5. OneOfAClass'
  <2>1. \A p \in Live' : p \in Live /\ pdo'[p].class = pdo[p].class
    BY DEF Live
  <2> QED  BY <2>1 DEF OneOfAClass
<1> QED  BY <1>4, <1>5

\* A step that leaves the children alone.
LEMMA ChildrenKept ==
  ASSUME ChildrenInv, UNCHANGED <<pdo, references>>, classes' \subseteq Class, device' \subseteq Class,
         relations' \subseteq relations,
         dx'.pnp \in {"None", "Deleted"} <=> dx.pnp \in {"None", "Deleted"},
         dx'.pnp = "None" => dx.pnp = "None",
         op' \in {"S3", "S4"} => op \in {"S3", "S4"},
         ipc' = "reported" => ipc = "reported",
         ipc' = "removechildren" =>
           \A p \in Pdos : pdo[p].known => pdo[p].pnp \in {"Enumerated", "SurpriseRemovePending", "Deleted"}
  PROVE  ChildrenInv'
<1>1. /\ pdo \in [Pdos -> Ext] /\ relations \subseteq Pdos /\ ReferencesInv /\ OneOfAClass
      /\ (dx.pnp = "None" => Listed = {}) /\ \A p \in Pdos : ChildInv(p)
  BY DEF ChildrenInv
<1>2. Listed' = Listed /\ Live' = Live  BY DEF Listed, Live
<1>3. ReferencesInv'  BY <1>1, <1>2 DEF ReferencesInv
<1>4. OneOfAClass'  BY <1>1, <1>2 DEF OneOfAClass
<1>5. \A p \in Pdos : ChildInv(p)'
  <2> SUFFICES ASSUME NEW p \in Pdos PROVE ChildInv(p)'
    OBVIOUS
  <2>1. ChildInv(p)  BY <1>1
  <2> QED  BY <2>1 DEF ChildInv
<1> QED  BY <1>1, <1>2, <1>3, <1>4, <1>5 DEF ChildrenInv

\* A child goes off the list only when it may.
Unlinks == \A p \in Pdos : pdo[p].pnp # "None" /\ pdo'[p].pnp = "None" => Released(p)

LEMMA KeptUnlinks == ASSUME pdo' = pdo PROVE Unlinks
BY DEF Unlinks

LEMMA KeptSteps ==
  ASSUME FdoIInv,
         \/ ThreadStep("scan") \/ ThreadStep("suspend") \/ ThreadStep("balloon")
         \/ ScanGuard \/ ScanRead
         \/ SuspendGuard \/ SuspendRead \/ SuspendTrigger \/ SuspendClearActive
         \/ BalloonGuard \/ BalloonRead \/ BalloonAdjust \/ BalloonAdjustFails
         \/ BalloonClearActive
  PROVE  ChildrenInv' /\ Unlinks
<1>1. ChildrenInv /\ classes \subseteq Class /\ device \subseteq Class /\ Synthetic \subseteq Class
  BY FdoAssumption DEF FdoIInv, ChildrenInv
<1>2. UNCHANGED <<pdo, references, dx, ipc, op, relations, device>>
  BY DEF ThreadStep, ThreadAwake, ThreadLoop, ThreadExit, ScanGuard, ScanRead, SuspendGuard,
         SuspendRead, SuspendTrigger, SuspendClearActive, BalloonGuard, BalloonRead,
         BalloonAdjust, BalloonAdjustFails, BalloonClearActive, fdos, irps, store
<1>3. classes' \in {classes, device \cup Synthetic, Synthetic}
  BY DEF ThreadStep, ThreadAwake, ThreadLoop, ThreadExit, ScanGuard, ScanRead, SuspendGuard,
         SuspendRead, SuspendTrigger, SuspendClearActive, BalloonGuard, BalloonRead,
         BalloonAdjust, BalloonAdjustFails, BalloonClearActive
<1>4. classes' \subseteq Class  BY <1>1, <1>3
<1>5. ipc = "removechildren" =>
        \A p \in Pdos : pdo[p].known => pdo[p].pnp \in {"Enumerated", "SurpriseRemovePending", "Deleted"}
  BY <1>1 DEF ChildrenInv, ChildInv
<1>6. ChildrenInv'
  <2>1. device' \subseteq Class /\ relations' \subseteq relations  BY <1>1, <1>2
  <2> QED  BY <1>1, <1>2, <1>4, <1>5, <2>1, ChildrenKept
<1> QED  BY <1>2, <1>6, KeptUnlinks

\* The requests that leave the children alone.
LEMMA KeptRequests ==
  ASSUME FdoIInv,
         \/ (\E n \in 0..Len(PowerStages) : FdoD3ToD0(n))
         \/ FdoStartDrain \/ FdoStartWait \/ FdoSetD3 \/ FdoDrainSuspend \/ FdoRelease
         \/ ThreadAlert \/ ThreadJoin \/ Joined
         \/ FdoStarted \/ FdoStartFailed \/ FdoStopped \/ FdoRelationsFailed \/ FdoAsleep
         \/ (\E n \in 0..Len(StartStages) : FdoStartDevice(n))
         \/ FdoQueryStopDevice \/ FdoQueryRemoveDevice
         \/ (\E s \in {"StopPending", "RemovePending"} : FdoCancelDevice(s))
         \/ FdoStopDevice \/ FdoRemoveDevice \/ FdoQueryDeviceRelations \/ FdoWake
         \/ DeviceChanges \/ ShutdownRequested \/ TargetChanges
  PROVE  ChildrenInv' /\ Unlinks
<1>1. /\ ChildrenInv /\ classes \subseteq Class /\ device \subseteq Class /\ FdoTypes /\ PhaseInv
      /\ StateInv /\ dx \in Ext
  BY DEF FdoIInv, FdoInv, ChildrenInv, FdoTypes
<1>2. UNCHANGED <<pdo, references, classes>>
  BY DEF FdoD3ToD0, FdoStartDrain, FdoStartWait, FdoSetD3, FdoDrainSuspend, FdoRelease,
         ThreadAlert, ThreadJoin, Joined, FdoStarted, FdoStartFailed, FdoStopped,
         FdoRelationsFailed, FdoAsleep, FdoStartDevice, FdoQueryStopDevice,
         FdoQueryRemoveDevice, FdoCancelDevice, FdoStopDevice, FdoRemoveDevice,
         FdoQueryDeviceRelations, FdoWake, DeviceChanges, ShutdownRequested, TargetChanges,
         StoreChanges, Query
<1>3. relations' \in {relations, {}}
  BY DEF FdoD3ToD0, FdoStartDrain, FdoStartWait, FdoSetD3, FdoDrainSuspend, FdoRelease,
         ThreadAlert, ThreadJoin, Joined, FdoStarted, FdoStartFailed, FdoStopped,
         FdoRelationsFailed, FdoAsleep, FdoStartDevice, FdoQueryStopDevice,
         FdoQueryRemoveDevice, FdoCancelDevice, FdoStopDevice, FdoRemoveDevice,
         FdoQueryDeviceRelations, FdoWake, DeviceChanges, ShutdownRequested, TargetChanges,
         StoreChanges, Query, At, Begin, Complete, irps
<1>4. device' \subseteq Class
  <2>1. CASE DeviceChanges  BY <1>1, <2>1 DEF DeviceChanges
  <2>2. CASE ~DeviceChanges
    <3>1. device' = device
      BY <2>2 DEF FdoD3ToD0, FdoStartDrain, FdoStartWait, FdoSetD3, FdoDrainSuspend, FdoRelease,
         ThreadAlert, ThreadJoin, Joined, FdoStarted, FdoStartFailed, FdoStopped,
         FdoRelationsFailed, FdoAsleep, FdoStartDevice, FdoQueryStopDevice,
         FdoQueryRemoveDevice, FdoCancelDevice, FdoStopDevice, FdoRemoveDevice,
         FdoQueryDeviceRelations, FdoWake, ShutdownRequested, TargetChanges,
         Query, store
    <3> QED  BY <1>1, <3>1
  <2> QED  BY <2>1, <2>2
<1>5. /\ dx'.pnp \in {"None", "Deleted"} <=> dx.pnp \in {"None", "Deleted"}
      /\ dx'.pnp = "None" => dx.pnp = "None"
  <2>1. CASE dx' = dx  BY <2>1
  <2>2. CASE \E e \in {"D0", "D3"} : dx' = [dx EXCEPT !.power = e]
    BY <1>1, <2>2 DEF Ext
  <2>3. CASE \E e : dx' = [dx EXCEPT !.system = e]
    BY <1>1, <2>3 DEF Ext
  <2>4. CASE /\ dx.pnp \notin {"None", "Deleted"}
             /\ \E s \in {"Started", "Stopped", "StopPending", "RemovePending"} : dx' = SetPnp(dx, s)
    BY <1>1, <2>4 DEF Ext, SetPnp
  <2>5. CASE \E s \in {"StopPending", "RemovePending"} : dx.pnp = s /\ dx' = RestorePnp(dx, s)
    BY <1>1, <2>5 DEF Ext, RestorePnp, StateInv
  <2>6. (FdoStarted \/ FdoStopped) => <2>4!1
    BY <1>1 DEF FdoStarted, FdoStopped, Fdos, PhaseInv
  <2> QED
    BY <2>1, <2>2, <2>3, <2>4, <2>5, <2>6 DEF FdoD3ToD0, FdoStartDrain, FdoStartWait, FdoSetD3, FdoDrainSuspend, FdoRelease,
         ThreadAlert, ThreadJoin, Joined, FdoStartFailed,
         FdoRelationsFailed, FdoAsleep, FdoStartDevice, FdoQueryStopDevice,
         FdoQueryRemoveDevice, FdoCancelDevice, FdoStopDevice, FdoRemoveDevice,
         FdoQueryDeviceRelations, FdoWake, DeviceChanges, ShutdownRequested, TargetChanges,
         StoreChanges, Query, fdos, Fdos, InState
<1>6. /\ op' \in {op, "none", "start", "startfailed", "stop", "remove", "relations", "wake"}
      /\ ipc' = "reported" => ipc = "reported"
      /\ ipc' = "removechildren" => ipc = "removechildren" \/ FdoRemoveDevice
  BY DEF FdoD3ToD0, FdoStartDrain, FdoStartWait, FdoSetD3, FdoDrainSuspend, FdoRelease,
         ThreadAlert, ThreadJoin, Joined, FdoStarted, FdoStartFailed, FdoStopped,
         FdoRelationsFailed, FdoAsleep, FdoStartDevice, FdoQueryStopDevice,
         FdoQueryRemoveDevice, FdoCancelDevice, FdoStopDevice, ToD3,
         FdoQueryDeviceRelations, FdoWake, DeviceChanges, ShutdownRequested, TargetChanges,
         StoreChanges, Query, At, Begin, Complete, irps, FdoRemoveDevice
<1>7. ipc' = "removechildren" =>
        \A p \in Pdos : pdo[p].known => pdo[p].pnp \in {"Enumerated", "SurpriseRemovePending", "Deleted"}
  <2>1. CASE ipc = "removechildren"  BY <1>1, <2>1 DEF ChildrenInv, ChildInv
  <2>2. CASE FdoRemoveDevice
    <3>1. \A p \in Pdos : ~PdoIs(p, {"Started", "StopPending", "Stopped", "RemovePending"})
      BY <2>2 DEF FdoRemoveDevice, Children
    <3> QED  BY <1>1, <3>1 DEF PdoIs, ChildrenInv, ChildInv, ChildStates
  <2> QED  BY <1>6, <2>1, <2>2
<1>8. ChildrenInv'
  <2>1. classes' \subseteq Class /\ relations' \subseteq relations  BY <1>1, <1>2, <1>3
  <2>2. op' \in {"S3", "S4"} => op \in {"S3", "S4"}  BY <1>6
  <2> QED  BY <1>1, <1>2, <1>4, <1>5, <1>6, <1>7, <2>1, <2>2, ChildrenKept
<1> QED  BY <1>2, <1>8, KeptUnlinks

\* One child changes, and stays on the list.
LEMMA ChildMoves ==
  ASSUME ChildrenInv, Idle, NEW p \in Pdos, NEW d \in Ext, Becomes(p, d), pdo[p].pnp # "None",
         d.pnp # "None", d.class = pdo[p].class, d.missing = FALSE => pdo[p].missing = FALSE,
         UNCHANGED <<dx, ipc, op, relations, classes, device>>,
         op = "none",
         d.pnp \in ChildStates, d.held <=> d.power = "D0",
         d.pnp \in {"Present", "Enumerated", "Deleted"} => ~d.held,
         d.pnp \in {"StopPending", "RemovePending"} => d.prev = "Started",
         d.known = pdo[p].known, d.known, d.pnp # "Present"
  PROVE  ChildrenInv' /\ Unlinks
<1>1. /\ pdo \in [Pdos -> Ext] /\ classes \subseteq Class /\ device \subseteq Class
      /\ relations \subseteq Pdos /\ ReferencesInv /\ OneOfAClass
      /\ (dx.pnp = "None" => Listed = {}) /\ \A q \in Pdos : ChildInv(q)
  BY DEF ChildrenInv
<1>2. /\ pdo' \in [Pdos -> Ext] /\ pdo'[p] = d /\ \A q \in Pdos \ {p} : pdo'[q] = pdo[q]
      /\ references' = references
  BY <1>1 DEF Becomes
<1>3. Listed' = Listed
  <2>1. \A q \in Pdos : pdo'[q].pnp = "None" <=> pdo[q].pnp = "None"  BY <1>2
  <2> QED  BY <2>1 DEF Listed
<1>4. ReferencesInv' /\ OneOfAClass'
  <2>1. IsFiniteSet({}) /\ Cardinality({}) = 0  BY FS_EmptySet
  <2>2. references \in Int  BY <1>1, ListIsFinite, ListIsListed DEF ReferencesInv
  <2>3. {} \in SUBSET Listed /\ Listed' = Listed \ {} /\ references' = references - Cardinality({})
    BY <1>2, <1>3, <2>1, <2>2
  <2>4. \A q \in Listed' : pdo'[q].class = pdo[q].class /\ (~pdo'[q].missing => ~pdo[q].missing)
    <3>1. \A q \in Pdos : pdo[q].missing \in BOOLEAN /\ pdo'[q].missing \in BOOLEAN
      BY <1>1, <1>2 DEF Ext
    <3> QED  BY <1>2, <1>3, <3>1, ListIsListed
  <2>5. dx'.pnp \in {"None", "Deleted"} <=> dx.pnp \in {"None", "Deleted"}
    OBVIOUS
  <2> QED  BY <1>1, <1>2, <2>3, <2>4, <2>5, ListMoves
<1>5. \A q \in Pdos : ChildInv(q)'
  <2> SUFFICES ASSUME NEW q \in Pdos PROVE ChildInv(q)'
    OBVIOUS
  <2>1. ChildInv(q)  BY <1>1
  <2>2. CASE q = p  BY <1>2, <2>2 DEF ChildInv, Idle
  <2>3. CASE q # p  BY <1>2, <2>1, <2>3 DEF ChildInv
  <2> QED  BY <2>2, <2>3
<1>6. ChildrenInv'  BY <1>1, <1>2, <1>3, <1>4, <1>5 DEF ChildrenInv
<1>7. Unlinks  BY <1>2 DEF Unlinks
<1> QED  BY <1>6, <1>7

\* The requests to one child.
LEMMA ChildRequests ==
  ASSUME FdoIInv, NEW p \in Pdos,
         \/ \E ok \in BOOLEAN : StartChild(p, ok)
         \/ QueryChild(p) \/ CancelChild(p) \/ StopChild(p) \/ SurpriseChild(p) \/ EjectChild(p)
  PROVE  FdoInv' /\ ChildrenInv' /\ Unlinks
<1>1. FdoInv /\ ChildrenInv /\ FdoTypes /\ PhaseInv  BY DEF FdoIInv, FdoInv
<1>2. /\ UNCHANGED <<dx, active, ballooning, made, held, tpc, event, alerted, done, owner, balActive,
                     ipc, op, relations, classes, device>>
      /\ Idle
  BY DEF StartChild, QueryChild, CancelChild, StopChild, SurpriseChild, EjectChild, PdoRest,
         threads, balloon, irps, store, InState, PdoIdle
<1>3. op = "none" /\ event' \subseteq Existing  BY <1>1, <1>2 DEF PhaseInv, Idle, FdoTypes
<1>4. FdoInv'  BY <1>1, <1>2, <1>3, QuietSteps
<1> DEFINE d == pdo[p]
<1>5. /\ d \in Ext /\ ChildInv(p)  BY <1>1 DEF ChildrenInv
<1>6. /\ d.pnp \in ChildStates /\ (d.held <=> d.power = "D0") /\ d.held \in BOOLEAN
      /\ d.power \in {"D0", "D3"} /\ d.missing \in BOOLEAN /\ d.known \in BOOLEAN
      /\ d.pnp \in {"None", "Present", "Enumerated", "Deleted"} => ~d.held
      /\ d.pnp \in {"StopPending", "RemovePending"} => d.prev = "Started"
  BY <1>5 DEF ChildInv, Ext
<1>7. d.known /\ d.pnp # "None"
  BY DEF StartChild, QueryChild, CancelChild, StopChild, SurpriseChild, EjectChild, PdoIs,
         PdoQueryStopDevice, PdoQueryRemoveDevice
<1> HIDE DEF d
<1>8. \E e \in Ext :
        /\ Becomes(p, e) /\ e.pnp \in ChildStates \ {"None", "Present"} /\ (e.held <=> e.power = "D0")
        /\ e.class = d.class /\ (e.missing = FALSE => d.missing = FALSE) /\ e.known = d.known
        /\ e.pnp \in {"Enumerated", "Deleted"} => ~e.held
        /\ e.pnp \in {"StopPending", "RemovePending"} => e.prev = "Started"
  <2>1. ChildStates \subseteq PnpStates /\ ChildStates = {"None", "Present", "Enumerated", "Started", "StopPending",
                "Stopped", "RemovePending", "SurpriseRemovePending", "Deleted"}
    BY DEF ChildStates, PnpStates
  <2>2. ASSUME NEW e0 \in Ext, NEW s \in ChildStates \ {"None", "Present"}, Becomes(p, SetPnp(e0, s)),
               e0.held <=> e0.power = "D0", e0.class = d.class, e0.missing = d.missing, e0.known = d.known,
               s \in {"Enumerated", "Deleted"} => ~e0.held,
               s \in {"StopPending", "RemovePending"} => e0.pnp = "Started"
        PROVE  \E e \in Ext :
        /\ Becomes(p, e) /\ e.pnp \in ChildStates \ {"None", "Present"} /\ (e.held <=> e.power = "D0")
        /\ e.class = d.class /\ (e.missing = FALSE => d.missing = FALSE) /\ e.known = d.known
        /\ e.pnp \in {"Enumerated", "Deleted"} => ~e.held
        /\ e.pnp \in {"StopPending", "RemovePending"} => e.prev = "Started"
    <3>1. s \in PnpStates  BY <2>1
    <3> DEFINE e1 == SetPnp(e0, s)
    <3>2. /\ e1 \in Ext /\ e1.pnp = s /\ e1.prev = e0.pnp /\ e1.power = e0.power /\ e1.held = e0.held
          /\ e1.known = e0.known /\ e1.missing = e0.missing /\ e1.class = e0.class
      BY <3>1, Extensions
    <3>3. Becomes(p, e1)  BY <2>2
    <3> HIDE DEF e1
    <3> QED  BY <2>2, <3>2, <3>3
  <2>3. CASE \E ok \in BOOLEAN : StartChild(p, ok)
    <3>1. PICK ok \in BOOLEAN : StartChild(p, ok)  BY <2>3
    <3> DEFINE e0 == D3ToD0(d, ok)
    <3>2. /\ e0 \in Ext /\ (e0.held <=> e0.power = "D0") /\ e0.class = d.class /\ e0.missing = d.missing
          /\ e0.known = d.known
      BY <1>5, <1>6 DEF D3ToD0, Ext
    <3>3. Becomes(p, SetPnp(e0, "Started"))  BY <3>1 DEF StartChild, PdoStartDevice, d
    <3> HIDE DEF e0
    <3>4. "Started" \in ChildStates \ {"None", "Present"}  BY <2>1
    <3> QED  BY <2>2, <3>2, <3>3, <3>4
  <2>4. CASE QueryChild(p)
    <3>1. PICK s \in {"StopPending", "RemovePending"} : Becomes(p, SetPnp(d, s))
      BY <2>4 DEF QueryChild, PdoQueryStopDevice, PdoQueryRemoveDevice, d
    <3>2. d.pnp = "Started"  BY <2>4 DEF QueryChild, PdoIs, d
    <3>3. s \in ChildStates \ {"None", "Present"}  BY <2>1
    <3> QED  BY <1>5, <1>6, <2>2, <3>1, <3>2, <3>3 DEF d
  <2>5. CASE CancelChild(p)
    <3>1. PICK s \in {"StopPending", "RemovePending"} : d.pnp = s /\ Becomes(p, RestorePnp(d, s))
      BY <2>5 DEF CancelChild, PdoIs, PdoCancelStopDevice, PdoCancelRemoveDevice, d
    <3> DEFINE e1 == RestorePnp(d, s)
    <3>2. s \in PnpStates  BY <2>1
    <3>3. /\ e1 \in Ext /\ e1.pnp = d.prev /\ e1.power = d.power /\ e1.held = d.held
          /\ e1.known = d.known /\ e1.missing = d.missing /\ e1.class = d.class
      BY <1>5, <3>1, <3>2, Restored DEF d
    <3>4. Becomes(p, e1)  BY <3>1
    <3> HIDE DEF e1
    <3> QED  BY <1>6, <2>1, <3>1, <3>3, <3>4
  <2>6. CASE StopChild(p)
    <3> DEFINE e0 == D0ToD3(d)
    <3>1. /\ e0 \in Ext /\ (e0.held <=> e0.power = "D0") /\ e0.class = d.class /\ e0.missing = d.missing
          /\ e0.known = d.known
      BY <1>5, <1>6 DEF D0ToD3, Ext, d
    <3>2. Becomes(p, SetPnp(e0, "Stopped"))  BY <2>6 DEF StopChild, PdoStopDevice, d
    <3> HIDE DEF e0
    <3>3. "Stopped" \in ChildStates \ {"None", "Present"}  BY <2>1
    <3> QED  BY <2>2, <3>1, <3>2, <3>3
  <2>7. CASE SurpriseChild(p)
    <3>1. Becomes(p, SetPnp(d, "SurpriseRemovePending"))
      BY <2>7 DEF SurpriseChild, PdoSurpriseRemoval, d
    <3>2. "SurpriseRemovePending" \in ChildStates \ {"None", "Present"}  BY <2>1
    <3> QED  BY <1>5, <1>6, <2>2, <3>1, <3>2 DEF d
  <2>8. CASE EjectChild(p)
    <3> DEFINE e1 == SetMissing(SetPnp(d, "Deleted"))
    <3>1. "Deleted" \in PnpStates  BY DEF PnpStates
    <3>2. /\ e1 \in Ext /\ e1.pnp = "Deleted" /\ e1.power = d.power /\ e1.held = d.held
          /\ e1.known = d.known /\ e1.missing = TRUE /\ e1.class = d.class
      <4>1. d \in Ext  BY <1>5
      <4> DEFINE e0 == SetPnp(d, "Deleted")
      <4>2. /\ e0 \in Ext /\ e0.pnp = "Deleted" /\ e0.power = d.power /\ e0.held = d.held
            /\ e0.known = d.known /\ e0.class = d.class
        BY <3>1, <4>1, Extensions
      <4>3. e1 = SetMissing(e0)
        OBVIOUS
      <4> HIDE DEF e0, e1
      <4> QED  BY <4>2, <4>3, Missed
    <3>3. Becomes(p, e1)  BY <2>8 DEF EjectChild, PdoEject, d
    <3>4. d.pnp = "Enumerated"  BY <2>8 DEF EjectChild, PdoIs, d
    <3> HIDE DEF e1
    <3> QED  BY <1>6, <2>1, <3>2, <3>3, <3>4
  <2> QED  BY <2>3, <2>4, <2>5, <2>6, <2>7, <2>8
<1>9. ChildrenInv' /\ Unlinks
  <2>1. PICK e \in Ext :
        /\ Becomes(p, e) /\ e.pnp \in ChildStates \ {"None", "Present"} /\ (e.held <=> e.power = "D0")
        /\ e.class = d.class /\ (e.missing = FALSE => d.missing = FALSE) /\ e.known = d.known
        /\ e.pnp \in {"Enumerated", "Deleted"} => ~e.held
        /\ e.pnp \in {"StopPending", "RemovePending"} => e.prev = "Started"
    BY <1>8
  <2>2. e.pnp # "None" /\ e.pnp # "Present" /\ e.pnp \in ChildStates  BY <2>1
  <2>3. /\ pdo[p].pnp # "None" /\ e.class = pdo[p].class /\ (e.missing = FALSE => pdo[p].missing = FALSE)
        /\ e.known = pdo[p].known /\ e.known
    BY <1>7, <2>1 DEF d
  <2> QED  BY <1>1, <1>2, <1>3, <2>1, <2>2, <2>3, ChildMoves
<1> QED  BY <1>4, <1>9

LEMMA RemoveChildStep ==
  ASSUME FdoIInv, NEW p \in Pdos, RemoveChild(p)
  PROVE  FdoInv' /\ ChildrenInv' /\ Unlinks
<1>1. FdoInv /\ ChildrenInv /\ FdoTypes /\ PhaseInv  BY DEF FdoIInv, FdoInv
<1>2. /\ UNCHANGED <<held, tpc, alerted, done, owner, balActive, ipc, op, relations, classes, device>>
      /\ ipc = "none" /\ dx.system = "S0"
  BY DEF RemoveChild, balloon, irps, store, PdoIdle, Idle, Awake
<1>3. op = "none"  BY <1>1, <1>2 DEF PhaseInv
<1>4. event' \subseteq Existing
  <2>1. {"scan"} \in SUBSET Threads /\ event' \in {event, Wake({"scan"})}  BY DEF RemoveChild, Threads
  <2> QED  BY <1>1, <2>1, Waking DEF FdoTypes
<1>5. /\ pdo \in [Pdos -> Ext] /\ ReferencesInv /\ OneOfAClass /\ (dx.pnp = "None" => Listed = {})
      /\ \A q \in Pdos : ChildInv(q)
  BY <1>1 DEF ChildrenInv
<1>6. /\ pdo[p] \in Ext /\ ChildInv(p) /\ pdo[p].known
      /\ pdo[p].pnp \in {"Enumerated", "RemovePending", "SurpriseRemovePending"}
  BY <1>5 DEF RemoveChild, PdoIs
<1>7. p \in Listed /\ dx.pnp # "None"  BY <1>5, <1>6 DEF Listed
<1>8. IsFiniteSet(Listed) /\ Cardinality(Listed) \in Nat /\ Cardinality(Listed) >= 1
  <2>1. IsFiniteSet(Listed) /\ Cardinality(Listed) \in Nat  BY ListIsFinite, ListIsListed
  <2>2. Cardinality(Listed) # 0  BY <1>7, <2>1, FS_EmptySet
  <2> QED  BY <2>1, <2>2
<1>9. CASE PdoDestroysNow(p)
  <2>1. pdo' = PdoDestroy({p}) /\ references' = references - 1 /\ pdo[p].pnp = "SurpriseRemovePending"
    BY <1>9 DEF RemoveChild, PdoRemoveDevice, PdoDestroysNow
  <2>2. /\ pdo' \in [Pdos -> Ext] /\ pdo'[p] = NoPdo /\ \A q \in Pdos \ {p} : pdo'[q] = pdo[q]
    BY <1>5, <2>1, Initial DEF PdoDestroy
  <2>3. Listed' = Listed \ {p}  BY <1>7, <2>2, Initial DEF Listed
  <2>4. Cardinality({p}) = 1  BY FS_Singleton
  <2>5. \A q \in Listed' : pdo'[q].class = pdo[q].class /\ (~pdo'[q].missing => ~pdo[q].missing)
    BY <2>2, <2>3, ListIsListed
  <2>6. Cardinality(Listed') = Cardinality(Listed) - 1  BY <1>7, <1>8, <2>3, FS_RemoveElement
  <2>7. /\ (Destroyed /\ dx.pnp = "Deleted" /\ Listed' = {})
           \/ (UNCHANGED <<dx, made, active, ballooning>> /\ dx.pnp # "None")
    <3>1. CASE references' = 0
      <4>1. Destroyed  BY <3>1 DEF RemoveChild
      <4>2. references = Cardinality(Listed) + (IF dx.pnp \in {"None", "Deleted"} THEN 0 ELSE 1)
        BY <1>5 DEF ReferencesInv
      <4>3. dx.pnp = "Deleted" /\ Cardinality(Listed') = 0
        BY <1>7, <1>8, <2>1, <2>6, <3>1, <4>2
      <4>4. IsFiniteSet(Listed')  BY <1>8, <2>3, FS_Subset
      <4>5. Listed' = {}  BY <4>3, <4>4, FS_EmptySet
      <4> QED  BY <4>1, <4>3, <4>5
    <3>2. CASE references' # 0  BY <1>7, <3>2 DEF RemoveChild
    <3> QED  BY <3>1, <3>2
  <2>8. dx'.pnp \in {"None", "Deleted"} <=> dx.pnp \in {"None", "Deleted"}
    BY <2>7, Initial DEF Destroyed
  <2>9. ReferencesInv' /\ OneOfAClass'
    <3>1. {p} \in SUBSET Listed /\ references' = references - Cardinality({p})  BY <1>7, <2>1, <2>4
    <3> QED  BY <1>5, <2>2, <2>3, <2>5, <2>8, <3>1, ListMoves
  <2>10. \A q \in Pdos : ChildInv(q)'
    <3> SUFFICES ASSUME NEW q \in Pdos PROVE ChildInv(q)'
      OBVIOUS
    <3>1. ChildInv(q)  BY <1>5
    <3>2. CASE q = p  BY <1>2, <2>2, <3>2, Initial DEF ChildInv, ChildStates
    <3>3. CASE q # p  BY <1>2, <2>2, <3>1, <3>3 DEF ChildInv
    <3> QED  BY <3>2, <3>3
  <2>11. dx'.pnp = "None" => Listed' = {}  BY <2>7
  <2>12. ChildrenInv'  BY <1>1, <1>2, <2>2, <2>9, <2>10, <2>11 DEF ChildrenInv
  <2>13. Unlinks  BY <2>1, <2>2 DEF Unlinks, Released
  <2>14. FdoInv'
    <3>1. CASE Destroyed /\ dx.pnp = "Deleted"
      BY <1>1, <1>2, <1>3, <1>4, <3>1, DestroyedStep
    <3>2. CASE UNCHANGED <<dx, made, active, ballooning>>
      BY <1>1, <1>2, <1>4, <3>2, QuietSteps
    <3> QED  BY <2>7, <3>1, <3>2
  <2> QED  BY <2>12, <2>13, <2>14
<1>10. CASE ~PdoDestroysNow(p)
  <2> DEFINE e0 == IF pdo[p].power = "D0" THEN D0ToD3(pdo[p]) ELSE pdo[p]
             s == IF pdo[p].missing THEN "Deleted" ELSE "Enumerated"
             e1 == SetPnp(e0, s)
  <2>1. Becomes(p, e1) /\ references' = references
    BY <1>10 DEF RemoveChild, PdoRemoveDevice, Becomes
  <2>2. /\ e0 \in Ext /\ ~e0.held /\ e0.power = "D3" /\ e0.class = pdo[p].class
        /\ e0.missing = pdo[p].missing /\ e0.known = pdo[p].known
    BY <1>6 DEF D0ToD3, Ext, ChildInv
  <2>3. s \in PnpStates /\ s \in {"Deleted", "Enumerated"}  BY DEF PnpStates
  <2> HIDE DEF e0, s
  <2>4. /\ e1 \in Ext /\ e1.pnp = s /\ ~e1.held /\ e1.power = "D3" /\ e1.class = pdo[p].class
        /\ e1.missing = pdo[p].missing /\ e1.known = pdo[p].known
    BY <2>2, <2>3, Extensions
  <2> HIDE DEF e1
  <2>5. references' # 0
    <3>1. references = Cardinality(Listed) + (IF dx.pnp \in {"None", "Deleted"} THEN 0 ELSE 1)
      BY <1>5 DEF ReferencesInv
    <3>2. (IF dx.pnp \in {"None", "Deleted"} THEN 0 ELSE 1) \in {0, 1}
      OBVIOUS
    <3> QED  BY <1>8, <2>1, <3>1, <3>2
  <2>6. UNCHANGED <<dx, made, active, ballooning>>  BY <2>5 DEF RemoveChild
  <2>7. FdoInv'  BY <1>1, <1>2, <1>4, <2>6, QuietSteps
  <2>8. /\ pdo[p].pnp # "None" /\ e1.pnp # "None" /\ e1.pnp # "Present" /\ e1.pnp \in ChildStates
        /\ (e1.missing = FALSE => pdo[p].missing = FALSE) /\ (e1.held <=> e1.power = "D0")
        /\ (e1.pnp \in {"Present", "Enumerated", "Deleted"} => ~e1.held)
        /\ (e1.pnp \in {"StopPending", "RemovePending"} => e1.prev = "Started")
        /\ e1.known = pdo[p].known /\ e1.known
    BY <1>6, <2>3, <2>4 DEF ChildStates
  <2>9. ChildrenInv' /\ Unlinks
    BY <1>1, <1>2, <1>3, <2>1, <2>4, <2>6, <2>8, ChildMoves DEF Idle
  <2> QED  BY <2>7, <2>9
<1> QED  BY <1>9, <1>10

-----------------------------------------------------------------------------
(* The requests that change the list.                                      *)

LEMMA MapMoves ==
  ASSUME ChildrenInv, pdo' \in [Pdos -> Ext], NEW Gone \in SUBSET Listed, Listed' = Listed \ Gone,
         \A p \in Listed' : pdo'[p].class = pdo[p].class /\ (~pdo'[p].missing => ~pdo[p].missing),
         references' = references - Cardinality(Gone),
         dx'.pnp \in {"None", "Deleted"} <=> dx.pnp \in {"None", "Deleted"},
         dx'.pnp = "None" => dx.pnp = "None",
         UNCHANGED <<classes, device>>, relations' \subseteq Pdos,
         \A p \in Pdos : ChildInv(p)'
  PROVE  ChildrenInv'
<1>1. ReferencesInv' /\ OneOfAClass'
  BY ListMoves DEF ChildrenInv
<1> QED  BY <1>1 DEF ChildrenInv

\* A request after which every child is where it was on the list.
LEMMA SameList ==
  ASSUME ChildrenInv, pdo' \in [Pdos -> Ext], references' = references,
         \A p \in Pdos : /\ pdo'[p].pnp = "None" <=> pdo[p].pnp = "None"
                         /\ pdo'[p].class = pdo[p].class /\ (~pdo'[p].missing => ~pdo[p].missing),
         dx'.pnp \in {"None", "Deleted"} <=> dx.pnp \in {"None", "Deleted"},
         dx'.pnp = "None" => dx.pnp = "None",
         UNCHANGED <<classes, device>>, relations' \subseteq Pdos,
         \A p \in Pdos : ChildInv(p)'
  PROVE  ChildrenInv' /\ Unlinks
<1>1. Listed' = Listed  BY DEF Listed
<1>2. {} \in SUBSET Listed /\ Listed' = Listed \ {} /\ Cardinality({}) = 0  BY <1>1, FS_EmptySet
<1>3. references \in Int  BY ListIsFinite, ListIsListed DEF ChildrenInv, ReferencesInv
<1>4. references' = references - Cardinality({})  BY <1>2, <1>3
<1>5. \A p \in Listed' : pdo'[p].class = pdo[p].class /\ (~pdo'[p].missing => ~pdo[p].missing)
  BY <1>1, ListIsListed
<1>6. ChildrenInv'  BY <1>2, <1>4, <1>5, MapMoves
<1> QED  BY <1>6 DEF Unlinks

LEMMA CreateChildren ==
  ASSUME FdoIInv, NEW n \in 0..Len(CreateStages), FdoCreate(n)
  PROVE  ChildrenInv' /\ Unlinks
<1>1. ChildrenInv /\ FdoTypes  BY DEF FdoIInv, FdoInv
<1>2. /\ UNCHANGED <<pdo, classes, device, relations, ipc, op>> /\ dx.pnp = "None" /\ ipc = "none"
  BY DEF FdoCreate, irps, store, Idle
<1>3. Listed = {} /\ Listed' = Listed /\ Live' = Live  BY <1>1, <1>2 DEF ChildrenInv, Listed, Live
<1>4. ReferencesInv'
  <2>1. CASE n = Len(CreateStages)
    <3>1. dx' = [NoPdo EXCEPT !.pnp = "Added"] /\ references' = 1  BY <2>1 DEF FdoCreate
    <3>2. dx'.pnp = "Added"  BY <3>1 DEF NoPdo
    <3> QED  BY <1>3, <3>1, <3>2, FS_EmptySet DEF ReferencesInv
  <2>2. CASE n # Len(CreateStages)
    <3>1. UNCHANGED <<dx, references>>  BY <2>2 DEF FdoCreate
    <3> QED  BY <1>1, <1>3, <3>1 DEF ReferencesInv, ChildrenInv
  <2> QED  BY <2>1, <2>2
<1>5. OneOfAClass'  BY <1>1, <1>2, <1>3 DEF OneOfAClass, ChildrenInv
<1>6. \A p \in Pdos : ChildInv(p)'  BY <1>1, <1>2 DEF ChildInv, ChildrenInv
<1>7. ChildrenInv'  BY <1>1, <1>2, <1>3, <1>4, <1>5, <1>6 DEF ChildrenInv
<1> QED  BY <1>2, <1>7, KeptUnlinks

LEMMA RemovedStep ==
  ASSUME FdoIInv, FdoRemoved
  PROVE  FdoInv' /\ ChildrenInv' /\ Unlinks
<1>1. FdoInv /\ ChildrenInv /\ FdoTypes /\ PhaseInv  BY DEF FdoIInv, FdoInv
<1>2. /\ ipc = "finish" /\ op = "remove" /\ ipc' = "none" /\ op' = "none" /\ relations' = {}
      /\ references' = references - 1
      /\ UNCHANGED <<pdo, held, tpc, event, alerted, done, owner, balActive, classes, device>>
  BY DEF FdoRemoved, Complete, threads, balloon, store
<1>3. /\ dx.pnp \in {"Added", "RemovePending", "SurpriseRemovePending", "Stopped"} /\ dx \in Ext
  BY <1>1, <1>2 DEF PhaseInv, FdoTypes
<1>4. /\ IF references = 1 THEN Destroyed
         ELSE dx' = SetPnp(dx, "Deleted") /\ UNCHANGED <<made, active, ballooning>>
  BY DEF FdoRemoved
<1>5. FdoInv'
  <2>1. event' \subseteq Existing  BY <1>1, <1>2 DEF FdoTypes
  <2>2. Destroyed \/ (dx' = SetPnp(dx, "Deleted") /\ UNCHANGED <<made, active, ballooning>>)
    BY <1>4
  <2> QED  BY <1>1, <1>2, <2>1, <2>2, DestroyedStep
<1>6. Listed' = Listed /\ Live' = Live  BY <1>2 DEF Listed, Live
<1>7. references = Cardinality(Listed) + 1 /\ IsFiniteSet(Listed) /\ Cardinality(Listed) \in Nat
  BY <1>1, <1>3, ListIsFinite, ListIsListed DEF ChildrenInv, ReferencesInv
<1>8. /\ dx'.pnp \in {"None", "Deleted"}
      /\ dx'.pnp = "None" => Listed = {}
  <2>1. CASE references = 1
    <3>1. Cardinality(Listed) = 0  BY <1>7, <2>1
    <3>2. Listed = {}  BY <1>7, <3>1, FS_EmptySet
    <3>3. dx' = NoPdo  BY <1>4, <2>1 DEF Destroyed
    <3> QED  BY <3>2, <3>3, Initial
  <2>2. CASE references # 1
    <3>1. dx' = SetPnp(dx, "Deleted") /\ "Deleted" \in PnpStates  BY <1>4, <2>2 DEF PnpStates
    <3>2. dx'.pnp = "Deleted"  BY <1>3, <3>1, Extensions
    <3> QED  BY <3>2
  <2> QED  BY <2>1, <2>2
<1>9. ReferencesInv'  BY <1>2, <1>6, <1>7, <1>8 DEF ReferencesInv
<1>10. OneOfAClass'  BY <1>1, <1>2, <1>6 DEF OneOfAClass, ChildrenInv
<1>11. \A p \in Pdos : ChildInv(p)'  BY <1>1, <1>2 DEF ChildInv, ChildrenInv
<1>12. ChildrenInv'  BY <1>1, <1>2, <1>6, <1>8, <1>9, <1>10, <1>11 DEF ChildrenInv
<1> QED  BY <1>2, <1>5, <1>12, KeptUnlinks

LEMMA SurpriseChildren ==
  ASSUME FdoIInv, FdoSurpriseRemoval
  PROVE  ChildrenInv' /\ Unlinks
<1>1. ChildrenInv /\ FdoTypes /\ PhaseInv  BY DEF FdoIInv, FdoInv
<1>2. /\ UNCHANGED <<references, classes, device, relations, ipc, op>> /\ ipc = "none"
      /\ dx.pnp \in {"Started", "Stopped"} /\ dx' = SetPnp(dx, "SurpriseRemovePending")
      /\ pdo' = [p \in Pdos |-> IF p \in Listed THEN SetMissing(pdo[p]) ELSE pdo[p]]
  BY DEF FdoSurpriseRemoval, irps, store, Idle, InState, Fdos
<1>3. /\ pdo \in [Pdos -> Ext] /\ relations \subseteq Pdos /\ \A p \in Pdos : ChildInv(p)
  BY <1>1 DEF ChildrenInv
<1>4. dx'.pnp = "SurpriseRemovePending"
  <2>1. dx \in Ext /\ "SurpriseRemovePending" \in PnpStates  BY <1>1 DEF FdoTypes, PnpStates
  <2> QED  BY <1>2, <2>1, Extensions
<1>5. \A p \in Pdos : pdo'[p] \in {pdo[p], SetMissing(pdo[p])}  BY <1>2
<1>6. \A p \in Pdos :
        /\ pdo'[p] \in Ext /\ pdo'[p].pnp = pdo[p].pnp /\ pdo'[p].prev = pdo[p].prev
        /\ pdo'[p].power = pdo[p].power /\ pdo'[p].held = pdo[p].held
        /\ pdo'[p].known = pdo[p].known /\ pdo'[p].class = pdo[p].class
        /\ (~pdo'[p].missing => ~pdo[p].missing)
  <2> SUFFICES ASSUME NEW p \in Pdos
               PROVE  /\ pdo'[p] \in Ext /\ pdo'[p].pnp = pdo[p].pnp /\ pdo'[p].prev = pdo[p].prev
                      /\ pdo'[p].power = pdo[p].power /\ pdo'[p].held = pdo[p].held
                      /\ pdo'[p].known = pdo[p].known /\ pdo'[p].class = pdo[p].class
                      /\ (~pdo'[p].missing => ~pdo[p].missing)
    OBVIOUS
  <2>1. pdo[p] \in Ext  BY <1>3
  <2> QED  BY <1>5, <2>1, Missed
<1>7. pdo' \in [Pdos -> Ext]
  <2>1. pdo' = [p \in Pdos |-> pdo'[p]]  BY <1>2
  <2> QED  BY <1>6, <2>1
<1>8. \A p \in Pdos : ChildInv(p)'
  <2> SUFFICES ASSUME NEW p \in Pdos PROVE ChildInv(p)'
    OBVIOUS
  <2>1. ChildInv(p)  BY <1>3
  <2> QED  BY <1>2, <1>6, <2>1 DEF ChildInv
<1>9. relations' \subseteq Pdos  BY <1>2, <1>3
<1>10. \A p \in Pdos : /\ pdo'[p].pnp = "None" <=> pdo[p].pnp = "None"
                       /\ pdo'[p].class = pdo[p].class /\ (~pdo'[p].missing => ~pdo[p].missing)
  BY <1>6
<1>11. UNCHANGED <<classes, device>> /\ references' = references
  BY <1>2
<1>12. /\ dx'.pnp \in {"None", "Deleted"} <=> dx.pnp \in {"None", "Deleted"}
       /\ dx'.pnp = "None" => dx.pnp = "None"
  BY <1>2, <1>4
<1> QED  BY <1>1, <1>7, <1>8, <1>9, <1>10, <1>11, <1>12, SameList

LEMMA ReportChildren ==
  ASSUME FdoIInv, FdoReportRelations
  PROVE  ChildrenInv' /\ Unlinks
<1>1. ChildrenInv /\ FdoTypes /\ PhaseInv  BY DEF FdoIInv, FdoInv
<1>2. /\ UNCHANGED <<references, classes, device, op, dx>> /\ ipc = "report" /\ ipc' = "reported"
      /\ relations' = Live
      /\ pdo' = [p \in Pdos |-> IF p \in Live /\ pdo[p].pnp = "Present"
                                THEN SetPnp(pdo[p], "Enumerated") ELSE pdo[p]]
  BY DEF FdoReportRelations, fdos, store
<1>3. /\ pdo \in [Pdos -> Ext] /\ relations \subseteq Pdos /\ \A p \in Pdos : ChildInv(p)
  BY <1>1 DEF ChildrenInv
<1>4. \A p \in Pdos :
        /\ pdo'[p] \in Ext
        /\ pdo'[p].pnp = (IF p \in Live /\ pdo[p].pnp = "Present" THEN "Enumerated" ELSE pdo[p].pnp)
        /\ (pdo'[p].prev = pdo[p].prev \/ pdo[p].pnp = "Present")
        /\ pdo'[p].power = pdo[p].power /\ pdo'[p].held = pdo[p].held
        /\ pdo'[p].known = pdo[p].known /\ pdo'[p].class = pdo[p].class
        /\ pdo'[p].missing = pdo[p].missing
  <2> SUFFICES ASSUME NEW p \in Pdos
               PROVE  /\ pdo'[p] \in Ext
                      /\ pdo'[p].pnp = (IF p \in Live /\ pdo[p].pnp = "Present" THEN "Enumerated" ELSE pdo[p].pnp)
                      /\ (pdo'[p].prev = pdo[p].prev \/ pdo[p].pnp = "Present")
                      /\ pdo'[p].power = pdo[p].power /\ pdo'[p].held = pdo[p].held
                      /\ pdo'[p].known = pdo[p].known /\ pdo'[p].class = pdo[p].class
                      /\ pdo'[p].missing = pdo[p].missing
    OBVIOUS
  <2>1. pdo[p] \in Ext /\ "Enumerated" \in PnpStates  BY <1>3 DEF PnpStates
  <2>2. CASE p \in Live /\ pdo[p].pnp = "Present"
    <3>1. pdo'[p] = SetPnp(pdo[p], "Enumerated")  BY <1>2, <2>2
    <3> QED  BY <2>1, <2>2, <3>1, Extensions
  <2>3. CASE ~(p \in Live /\ pdo[p].pnp = "Present")
    <3>1. pdo'[p] = pdo[p]  BY <1>2, <2>3
    <3> QED  BY <2>1, <2>3, <3>1
  <2> QED  BY <2>2, <2>3
<1>5. pdo' \in [Pdos -> Ext]
  <2>1. pdo' = [p \in Pdos |-> pdo'[p]]  BY <1>2
  <2> QED  BY <1>4, <2>1
<1>6. \A p \in Pdos : ChildInv(p)'
  <2> SUFFICES ASSUME NEW p \in Pdos PROVE ChildInv(p)'
    OBVIOUS
  <2>1. ChildInv(p) /\ (p \in Live => pdo[p].pnp # "None")  BY <1>3, ListIsListed
  <2> QED  BY <1>2, <1>4, <2>1 DEF ChildInv, ChildStates
<1>7. relations' \subseteq Pdos  BY <1>2, ListIsListed
<1>9. UNCHANGED <<classes, device>> /\ references' = references  BY <1>2
<1>10. /\ dx'.pnp \in {"None", "Deleted"} <=> dx.pnp \in {"None", "Deleted"}
       /\ dx'.pnp = "None" => dx.pnp = "None"
  BY <1>2
<1>8. \A p \in Pdos : /\ pdo'[p].pnp = "None" <=> pdo[p].pnp = "None"
                      /\ pdo'[p].class = pdo[p].class /\ (~pdo'[p].missing => ~pdo[p].missing)
  BY <1>4
<1> QED  BY <1>1, <1>5, <1>6, <1>7, <1>8, <1>9, <1>10, SameList

LEMMA SleepChildren ==
  ASSUME FdoIInv, NEW s \in {"S3", "S4"}, FdoSleep(s)
  PROVE  ChildrenInv' /\ Unlinks
<1>1. ChildrenInv /\ FdoTypes /\ PhaseInv  BY DEF FdoIInv, FdoInv
<1>2. /\ UNCHANGED <<references, classes, device, relations, dx>> /\ op' = s /\ ipc' \in {"d0tod3", "finish"}
      /\ pdo' = [p \in Pdos |-> IF p \in Listed
                                THEN PdoSetSystemPower(PdoSetDevicePower(pdo[p], "D3", TRUE), s)
                                ELSE pdo[p]]
  BY DEF FdoSleep, fdos, store, Begin, ToD3
<1>3. /\ pdo \in [Pdos -> Ext] /\ relations \subseteq Pdos /\ \A p \in Pdos : ChildInv(p)
  BY <1>1 DEF ChildrenInv
<1>4. \A p \in Pdos :
        /\ pdo'[p] \in Ext /\ pdo'[p].pnp = pdo[p].pnp /\ pdo'[p].prev = pdo[p].prev
        /\ pdo'[p].power = "D3" /\ pdo'[p].held = FALSE
        /\ pdo'[p].known = pdo[p].known /\ pdo'[p].class = pdo[p].class
        /\ pdo'[p].missing = pdo[p].missing
  <2> SUFFICES ASSUME NEW p \in Pdos
               PROVE  /\ pdo'[p] \in Ext /\ pdo'[p].pnp = pdo[p].pnp /\ pdo'[p].prev = pdo[p].prev
                      /\ pdo'[p].power = "D3" /\ pdo'[p].held = FALSE
                      /\ pdo'[p].known = pdo[p].known /\ pdo'[p].class = pdo[p].class
                      /\ pdo'[p].missing = pdo[p].missing
    OBVIOUS
  <2>1. /\ pdo[p] \in Ext /\ (pdo[p].held <=> pdo[p].power = "D0") /\ pdo[p].held \in BOOLEAN
        /\ pdo[p].power \in {"D0", "D3"} /\ (pdo[p].pnp = "None" => ~pdo[p].held)
    BY <1>3 DEF ChildInv, Ext
  <2>2. CASE p \in Listed
    <3> DEFINE e == PdoSetDevicePower(pdo[p], "D3", TRUE)
    <3>1. /\ e \in Ext /\ e.power = "D3" /\ (e.held <=> FALSE) /\ e.pnp = pdo[p].pnp /\ e.prev = pdo[p].prev
          /\ e.missing = pdo[p].missing /\ e.known = pdo[p].known /\ e.class = pdo[p].class
      BY <2>1, Powered
    <3>2. pdo'[p] = PdoSetSystemPower(e, s)  BY <1>2, <2>2
    <3>3. s \in {"S0", "S3", "S4"} /\ e.held \in BOOLEAN  BY <3>1 DEF Ext
    <3> HIDE DEF e
    <3> QED  BY <3>1, <3>2, <3>3, InSystemState
  <2>3. CASE p \notin Listed
    <3>1. pdo'[p] = pdo[p] /\ pdo[p].pnp = "None"  BY <1>2, <2>3, ListIsListed
    <3> QED  BY <2>1, <3>1
  <2> QED  BY <2>2, <2>3
<1>5. pdo' \in [Pdos -> Ext]
  <2>1. pdo' = [p \in Pdos |-> pdo'[p]]  BY <1>2
  <2> QED  BY <1>4, <2>1
<1>6. \A p \in Pdos : ChildInv(p)'
  <2> SUFFICES ASSUME NEW p \in Pdos PROVE ChildInv(p)'
    OBVIOUS
  <2>1. ChildInv(p)  BY <1>3
  <2> QED  BY <1>2, <1>4, <2>1 DEF ChildInv
<1>7. relations' \subseteq Pdos  BY <1>2, <1>3
<1>8. \A p \in Pdos : /\ pdo'[p].pnp = "None" <=> pdo[p].pnp = "None"
                      /\ pdo'[p].class = pdo[p].class /\ (~pdo'[p].missing => ~pdo[p].missing)
  BY <1>4
<1>9. UNCHANGED <<classes, device>> /\ references' = references  BY <1>2
<1>10. /\ dx'.pnp \in {"None", "Deleted"} <=> dx.pnp \in {"None", "Deleted"}
       /\ dx'.pnp = "None" => dx.pnp = "None"
  BY <1>2
<1> QED  BY <1>1, <1>5, <1>6, <1>7, <1>8, <1>9, <1>10, SameList

LEMMA WakeChildren ==
  ASSUME FdoIInv, FdoWoken
  PROVE  ChildrenInv' /\ Unlinks
<1>1. ChildrenInv /\ FdoTypes /\ PhaseInv  BY DEF FdoIInv, FdoInv
<1> DEFINE to(p) == IF pdo[p].pnp \in {"Started", "StopPending", "RemovePending"} THEN "D0" ELSE "D3"
<1>2. /\ UNCHANGED <<references, classes, device, dx>> /\ op' = "none" /\ ipc' = "none" /\ relations' = {}
      /\ pdo' = [p \in Pdos |-> IF p \in Listed
                                THEN PdoSetSystemPower(PdoSetDevicePower(pdo[p], to(p), TRUE), "S0")
                                ELSE pdo[p]]
  BY DEF FdoWoken, fdos, store, Complete
<1>3. /\ pdo \in [Pdos -> Ext] /\ relations \subseteq Pdos /\ \A p \in Pdos : ChildInv(p)
  BY <1>1 DEF ChildrenInv
<1>4. \A p \in Pdos :
        /\ pdo'[p] \in Ext /\ pdo'[p].pnp = pdo[p].pnp /\ pdo'[p].prev = pdo[p].prev
        /\ pdo'[p].power \in {"D0", "D3"} /\ (pdo'[p].held <=> pdo'[p].power = "D0")
        /\ pdo'[p].held => pdo[p].pnp \in {"Started", "StopPending", "RemovePending"}
        /\ pdo'[p].known = pdo[p].known /\ pdo'[p].class = pdo[p].class
        /\ pdo'[p].missing = pdo[p].missing
  <2> SUFFICES ASSUME NEW p \in Pdos
               PROVE  /\ pdo'[p] \in Ext /\ pdo'[p].pnp = pdo[p].pnp /\ pdo'[p].prev = pdo[p].prev
                      /\ pdo'[p].power \in {"D0", "D3"} /\ (pdo'[p].held <=> pdo'[p].power = "D0")
                      /\ pdo'[p].held => pdo[p].pnp \in {"Started", "StopPending", "RemovePending"}
                      /\ pdo'[p].known = pdo[p].known /\ pdo'[p].class = pdo[p].class
                      /\ pdo'[p].missing = pdo[p].missing
    OBVIOUS
  <2>1. /\ pdo[p] \in Ext /\ (pdo[p].held <=> pdo[p].power = "D0") /\ pdo[p].held \in BOOLEAN
        /\ pdo[p].power \in {"D0", "D3"} /\ (pdo[p].pnp = "None" => ~pdo[p].held)
    BY <1>3 DEF ChildInv, Ext
  <2>2. CASE p \in Listed
    <3> DEFINE e == PdoSetDevicePower(pdo[p], to(p), TRUE)
    <3>1. to(p) \in {"D0", "D3"} /\ (to(p) = "D0" => pdo[p].pnp \in {"Started", "StopPending", "RemovePending"})
      OBVIOUS
    <3>2. pdo'[p] = PdoSetSystemPower(e, "S0")  BY <1>2, <2>2
    <3> HIDE DEF to
    <3>3. /\ e \in Ext /\ e.power = to(p) /\ (e.held <=> to(p) = "D0") /\ e.pnp = pdo[p].pnp /\ e.prev = pdo[p].prev
          /\ e.missing = pdo[p].missing /\ e.known = pdo[p].known /\ e.class = pdo[p].class
      BY <2>1, <3>1, Powered
    <3>4. "S0" \in {"S0", "S3", "S4"} /\ e.held \in BOOLEAN  BY <3>3 DEF Ext
    <3> HIDE DEF e
    <3>5. /\ pdo'[p] \in Ext /\ pdo'[p].power = e.power /\ pdo'[p].held = e.held
          /\ pdo'[p].pnp = e.pnp /\ pdo'[p].prev = e.prev /\ pdo'[p].missing = e.missing
          /\ pdo'[p].known = e.known /\ pdo'[p].class = e.class
      BY <3>2, <3>3, <3>4, InSystemState
    <3> QED  BY <3>1, <3>3, <3>4, <3>5
  <2>3. CASE p \notin Listed
    <3>1. pdo'[p] = pdo[p] /\ pdo[p].pnp = "None"  BY <1>2, <2>3, ListIsListed
    <3> QED  BY <2>1, <3>1
  <2> QED  BY <2>2, <2>3
<1>5. pdo' \in [Pdos -> Ext]
  <2>1. pdo' = [p \in Pdos |-> pdo'[p]]  BY <1>2
  <2> QED  BY <1>4, <2>1
<1>6. \A p \in Pdos : ChildInv(p)'
  <2> SUFFICES ASSUME NEW p \in Pdos PROVE ChildInv(p)'
    OBVIOUS
  <2>1. ChildInv(p)  BY <1>3
  <2> QED  BY <1>2, <1>4, <2>1 DEF ChildInv
<1>7. relations' \subseteq Pdos  BY <1>2
<1>8. \A p \in Pdos : /\ pdo'[p].pnp = "None" <=> pdo[p].pnp = "None"
                      /\ pdo'[p].class = pdo[p].class /\ (~pdo'[p].missing => ~pdo[p].missing)
  BY <1>4
<1>9. UNCHANGED <<classes, device>> /\ references' = references  BY <1>2
<1>10. /\ dx'.pnp \in {"None", "Deleted"} <=> dx.pnp \in {"None", "Deleted"}
       /\ dx'.pnp = "None" => dx.pnp = "None"
  BY <1>2
<1> QED  BY <1>1, <1>5, <1>6, <1>7, <1>8, <1>9, <1>10, SameList

LEMMA RemoveChildren ==
  ASSUME FdoIInv, FdoRemoveChildren
  PROVE  ChildrenInv' /\ Unlinks
<1>1. ChildrenInv /\ FdoTypes /\ PhaseInv  BY DEF FdoIInv, FdoInv
<1>2. /\ UNCHANGED <<classes, device, relations, dx, op>> /\ ipc = "removechildren" /\ ipc' \in {"d0tod3", "join"}
      /\ pdo' = [p \in Pdos |-> IF p \in Doomed THEN NoPdo
                                ELSE IF p \in Listed THEN SetMissing(pdo[p]) ELSE pdo[p]]
      /\ references' = references - Cardinality(Doomed)
  BY DEF FdoRemoveChildren, fdos, store, At, ToD3
<1>3. /\ pdo \in [Pdos -> Ext] /\ relations \subseteq Pdos /\ \A p \in Pdos : ChildInv(p)
  BY <1>1 DEF ChildrenInv
<1>4. Doomed \in SUBSET Listed  BY DEF Doomed
<1>5. \A p \in Pdos :
        /\ pdo'[p] \in Ext
        /\ p \in Doomed => pdo'[p] = NoPdo
        /\ p \notin Doomed =>
             /\ pdo'[p].pnp = pdo[p].pnp /\ pdo'[p].prev = pdo[p].prev
             /\ pdo'[p].power = pdo[p].power /\ pdo'[p].held = pdo[p].held
             /\ pdo'[p].known = pdo[p].known /\ pdo'[p].class = pdo[p].class
             /\ (~pdo'[p].missing => ~pdo[p].missing)
  <2> SUFFICES ASSUME NEW p \in Pdos
               PROVE  /\ pdo'[p] \in Ext
                      /\ p \in Doomed => pdo'[p] = NoPdo
                      /\ p \notin Doomed =>
                           /\ pdo'[p].pnp = pdo[p].pnp /\ pdo'[p].prev = pdo[p].prev
                           /\ pdo'[p].power = pdo[p].power /\ pdo'[p].held = pdo[p].held
                           /\ pdo'[p].known = pdo[p].known /\ pdo'[p].class = pdo[p].class
                           /\ (~pdo'[p].missing => ~pdo[p].missing)
    OBVIOUS
  <2>1. pdo[p] \in Ext  BY <1>3
  <2>2. CASE p \in Doomed  BY <1>2, <2>2, Initial
  <2>3. CASE p \notin Doomed
    <3>1. pdo'[p] \in {pdo[p], SetMissing(pdo[p])}  BY <1>2, <2>3
    <3> QED  BY <2>1, <2>3, <3>1, Missed
  <2> QED  BY <2>2, <2>3
<1>6. pdo' \in [Pdos -> Ext]
  <2>1. pdo' = [p \in Pdos |-> pdo'[p]]  BY <1>2
  <2> QED  BY <1>5, <2>1
<1>7. Listed' = Listed \ Doomed
  <2>1. \A p \in Pdos : pdo'[p].pnp # "None" <=> pdo[p].pnp # "None" /\ p \notin Doomed
    BY <1>5, Initial
  <2> QED  BY <2>1 DEF Listed
<1>8. \A p \in Pdos : ChildInv(p)'
  <2> SUFFICES ASSUME NEW p \in Pdos PROVE ChildInv(p)'
    OBVIOUS
  <2>1. ChildInv(p)  BY <1>3
  <2>2. CASE p \in Doomed  BY <1>2, <1>5, <2>2, Initial DEF ChildInv, ChildStates
  <2>3. CASE p \notin Doomed  BY <1>2, <1>5, <2>1, <2>3 DEF ChildInv
  <2> QED  BY <2>2, <2>3
<1>9. Unlinks
  <2>1. op = "remove"  BY <1>1, <1>2 DEF PhaseInv
  <2> SUFFICES ASSUME NEW p \in Pdos, pdo[p].pnp # "None", pdo'[p].pnp = "None" PROVE Released(p)
    BY DEF Unlinks
  <2>2. p \in Doomed  BY <1>5
  <2>3. pdo[p].pnp # "SurpriseRemovePending" /\ ChildInv(p) /\ pdo[p].known \in BOOLEAN /\ pdo[p].held \in BOOLEAN
    BY <1>3, <2>2 DEF Doomed, Ext
  <2> QED  BY <1>2, <2>1, <2>3 DEF Released, ChildInv
<1>10. \A p \in Listed' : pdo'[p].class = pdo[p].class /\ (~pdo'[p].missing => ~pdo[p].missing)
  BY <1>5, <1>7, ListIsListed
<1>11. relations' \subseteq Pdos /\ UNCHANGED <<classes, device>>  BY <1>2, <1>3
<1>12. /\ dx'.pnp \in {"None", "Deleted"} <=> dx.pnp \in {"None", "Deleted"}
       /\ dx'.pnp = "None" => dx.pnp = "None"
  BY <1>2
<1>13. references' = references - Cardinality(Doomed)  BY <1>2
<1>14. ChildrenInv'  BY <1>1, <1>4, <1>6, <1>7, <1>8, <1>10, <1>11, <1>12, <1>13, MapMoves
<1> QED  BY <1>9, <1>14

LEMMA RelationsReported ==
  ASSUME FdoIInv, FdoRelationsReported
  PROVE  ChildrenInv' /\ Unlinks
<1>1. ChildrenInv /\ FdoTypes /\ PhaseInv  BY DEF FdoIInv, FdoInv
<1>2. /\ UNCHANGED <<classes, device, dx>> /\ relations' = {} /\ op' = "none" /\ ipc = "reported" /\ ipc' = "none"
      /\ pdo' = [p \in Pdos |->
                   IF p \in Pruned THEN NoPdo
                   ELSE IF p \in relations THEN [pdo[p] EXCEPT !.known = TRUE, !.gone = FALSE]
                   ELSE [pdo[p] EXCEPT !.gone = pdo[p].known]]
      /\ references' = references - Cardinality(Pruned)
  BY DEF FdoRelationsReported, fdos, store, Complete
<1>3. /\ pdo \in [Pdos -> Ext] /\ relations \subseteq Pdos /\ \A p \in Pdos : ChildInv(p)
  BY <1>1 DEF ChildrenInv
<1>4. Pruned \in SUBSET Listed  BY DEF Pruned
<1>5. \A p \in Pdos :
        /\ pdo'[p] \in Ext
        /\ p \in Pruned => pdo'[p] = NoPdo
        /\ p \notin Pruned =>
             /\ pdo'[p].pnp = pdo[p].pnp /\ pdo'[p].prev = pdo[p].prev
             /\ pdo'[p].power = pdo[p].power /\ pdo'[p].held = pdo[p].held
             /\ pdo'[p].known = (IF p \in relations THEN TRUE ELSE pdo[p].known)
             /\ pdo'[p].class = pdo[p].class /\ pdo'[p].missing = pdo[p].missing
  <2> SUFFICES ASSUME NEW p \in Pdos
               PROVE  /\ pdo'[p] \in Ext
                      /\ p \in Pruned => pdo'[p] = NoPdo
                      /\ p \notin Pruned =>
                           /\ pdo'[p].pnp = pdo[p].pnp /\ pdo'[p].prev = pdo[p].prev
                           /\ pdo'[p].power = pdo[p].power /\ pdo'[p].held = pdo[p].held
                           /\ pdo'[p].known = (IF p \in relations THEN TRUE ELSE pdo[p].known)
                           /\ pdo'[p].class = pdo[p].class /\ pdo'[p].missing = pdo[p].missing
    OBVIOUS
  <2>1. pdo[p] \in Ext  BY <1>3
  <2>2. CASE p \in Pruned  BY <1>2, <2>2, Initial
  <2>3. CASE p \notin Pruned /\ p \in relations
    <3>1. pdo'[p] = [pdo[p] EXCEPT !.known = TRUE, !.gone = FALSE]  BY <1>2, <2>3
    <3> QED  BY <2>1, <2>3, <3>1 DEF Ext
  <2>4. CASE p \notin Pruned /\ p \notin relations
    <3>1. pdo'[p] = [pdo[p] EXCEPT !.gone = pdo[p].known]  BY <1>2, <2>4
    <3> QED  BY <2>1, <2>4, <3>1 DEF Ext
  <2> QED  BY <2>2, <2>3, <2>4
<1>6. pdo' \in [Pdos -> Ext]
  <2>1. pdo' = [p \in Pdos |-> pdo'[p]]  BY <1>2
  <2> QED  BY <1>5, <2>1
<1>7. Listed' = Listed \ Pruned
  <2>1. \A p \in Pdos : pdo'[p].pnp # "None" <=> pdo[p].pnp # "None" /\ p \notin Pruned
    BY <1>5, Initial
  <2> QED  BY <2>1 DEF Listed
<1>8. \A p \in Pdos : ChildInv(p)'
  <2> SUFFICES ASSUME NEW p \in Pdos PROVE ChildInv(p)'
    OBVIOUS
  <2>1. ChildInv(p)  BY <1>3
  <2>2. CASE p \in Pruned  BY <1>2, <1>5, <2>2, Initial DEF ChildInv, ChildStates
  <2>3. CASE p \notin Pruned  BY <1>2, <1>5, <2>1, <2>3 DEF ChildInv
  <2> QED  BY <2>2, <2>3
<1>9. Unlinks
  <2> SUFFICES ASSUME NEW p \in Pdos, pdo[p].pnp # "None", pdo'[p].pnp = "None" PROVE Released(p)
    BY DEF Unlinks
  <2>1. p \in Pruned  BY <1>5
  <2>2. pdo[p].pnp = "Deleted" /\ ChildInv(p)  BY <1>3, <2>1 DEF Pruned
  <2> QED  BY <2>2 DEF Released, ChildInv
<1>10. \A p \in Listed' : pdo'[p].class = pdo[p].class /\ (~pdo'[p].missing => ~pdo[p].missing)
  BY <1>5, <1>7, ListIsListed
<1>11. relations' \subseteq Pdos /\ UNCHANGED <<classes, device>>  BY <1>2, <1>3
<1>12. /\ dx'.pnp \in {"None", "Deleted"} <=> dx.pnp \in {"None", "Deleted"}
       /\ dx'.pnp = "None" => dx.pnp = "None"
  BY <1>2
<1>13. references' = references - Cardinality(Pruned)  BY <1>2
<1>14. ChildrenInv'  BY <1>1, <1>4, <1>6, <1>7, <1>8, <1>10, <1>11, <1>12, <1>13, MapMoves
<1> QED  BY <1>9, <1>14

\* What FdoEnumerate does to each child: f says where the new classes go.
LEMMA Enumerated ==
  ASSUME ChildrenInv, NEW born \in SUBSET NewClasses, NEW f \in Chosen(born), pdo' = AfterEnumerate(f)
  PROVE  /\ f \in [born -> Pdos] /\ \A c \in born : f[c] \notin Listed
         /\ \A c \in born : pdo'[f[c]] = NewPdo(c)
         /\ \A p \in Pdos : (\A c \in born : f[c] # p) =>
              pdo'[p] = (IF p \in Dropped THEN NoPdo
                         ELSE IF p \in Vanished THEN SetMissing(pdo[p]) ELSE pdo[p])
<1>1. /\ f \in [born -> Pdos \ Listed] /\ DOMAIN f = born
      /\ \A c, d \in born : c # d => f[c] # f[d]
  BY DEF Chosen
<1>2. ASSUME NEW c \in born PROVE pdo'[f[c]] = NewPdo(c)
  <2>1. (CHOOSE d \in DOMAIN f : f[d] = f[c]) = c  BY <1>1
  <2>2. f[c] \in Pdos  BY <1>1
  <2> QED  BY <1>1, <2>1, <2>2 DEF AfterEnumerate
<1>3. ASSUME NEW p \in Pdos, \A c \in born : f[c] # p
      PROVE  pdo'[p] = (IF p \in Dropped THEN NoPdo
                        ELSE IF p \in Vanished THEN SetMissing(pdo[p]) ELSE pdo[p])
  BY <1>1, <1>3 DEF AfterEnumerate
<1> QED  BY <1>1, <1>2, <1>3

\* A set of classes and the identities they are given are of one size.
LEMMA Numbered ==
  ASSUME NEW born, NEW f \in Chosen(born)
  PROVE  LET S == {f[c] : c \in born} IN
         S \subseteq Pdos \ Listed /\ IsFiniteSet(S) /\ Cardinality(S) = Cardinality(born)
                /\ Cardinality(S) \in Nat
<1> DEFINE S == {f[c] : c \in born}
<1>1. f \in [born -> Pdos \ Listed] /\ \A c, d \in born : c # d => f[c] # f[d]  BY DEF Chosen
<1>2. S \subseteq Pdos \ Listed  BY <1>1
<1>3. IsFiniteSet(S) /\ Cardinality(S) \in Nat  BY <1>2, ListIsFinite
<1>4. f \in Bijection(born, S)
  <2>1. f \in [born -> S]  BY <1>1
  <2>2. IsInjective(f)  BY <1>1 DEF IsInjective
  <2>3. \A s \in S : \E c \in born : f[c] = s  OBVIOUS
  <2> QED  BY <2>1, <2>2, <2>3 DEF Bijection, Injection, Surjection
<1>5. Cardinality(born) = Cardinality(S)
  <2>1. ExistsBijection(born, S)  BY <1>4 DEF ExistsBijection
  <2>2. ExistsBijection(S, born)  BY <2>1, Fun_ExistsBijSymmetric
  <2> QED  BY <1>3, <2>2, FS_Bijection
<1> QED  BY <1>2, <1>3, <1>5

LEMMA EnumerateChildren ==
  ASSUME FdoIInv, FdoEnumerate
  PROVE  ChildrenInv' /\ Unlinks
<1>1. ChildrenInv /\ FdoTypes /\ PhaseInv  BY DEF FdoIInv, FdoInv
<1>2. UNCHANGED <<device, relations, dx, op, ipc>> /\ classes' = {}
  BY DEF FdoEnumerate, fdos, store, irps
<1>3. /\ pdo \in [Pdos -> Ext] /\ relations \subseteq Pdos /\ classes \subseteq Class
      /\ device \subseteq Class /\ ReferencesInv /\ OneOfAClass
      /\ (dx.pnp = "None" => Listed = {}) /\ \A p \in Pdos : ChildInv(p)
  BY <1>1 DEF ChildrenInv
<1>4. PICK born \in SUBSET NewClasses : \E g \in Chosen(born) :
        /\ pdo' = AfterEnumerate(g)
        /\ references' = references + Cardinality(born) - Cardinality(Dropped)
  <2>1. PICK born \in SUBSET NewClasses :
          /\ Chosen(born) # {}
          /\ LET f == CHOOSE g \in Chosen(born) : TRUE IN
               /\ pdo' = AfterEnumerate(f)
               /\ references' = references + Cardinality(born) - Cardinality(Dropped)
    BY DEF FdoEnumerate
  <2>2. (CHOOSE g \in Chosen(born) : TRUE) \in Chosen(born)  BY <2>1
  <2> QED  BY <2>1, <2>2
<1>5. PICK f \in Chosen(born) :
        /\ pdo' = AfterEnumerate(f)
        /\ references' = references + Cardinality(born) - Cardinality(Dropped)
  BY <1>4
<1> DEFINE S == {f[c] : c \in born}
<1>6. /\ f \in [born -> Pdos] /\ \A c \in born : f[c] \notin Listed
      /\ \A c \in born : pdo'[f[c]] = NewPdo(c)
      /\ \A p \in Pdos \ S :
           pdo'[p] = (IF p \in Dropped THEN NoPdo
                      ELSE IF p \in Vanished THEN SetMissing(pdo[p]) ELSE pdo[p])
  BY <1>1, <1>5, Enumerated
<1>7. /\ S \subseteq Pdos \ Listed /\ IsFiniteSet(S) /\ Cardinality(S) = Cardinality(born)
      /\ Cardinality(S) \in Nat
  BY Numbered
<1>8. /\ Dropped \subseteq Vanished /\ Vanished \subseteq Live /\ Live \subseteq Listed
      /\ \A p \in Dropped : pdo[p].pnp = "Present"
  BY DEF Dropped, Vanished, Live
<1>9. \A p \in S : \E c \in born : p = f[c] /\ pdo'[p] = NewPdo(c) /\ c \in NewClasses /\ c \in Class
  BY <1>3, <1>6 DEF NewClasses
<1>10. ASSUME NEW p \in S
       PROVE  /\ pdo'[p] \in Ext /\ pdo'[p].missing = FALSE /\ pdo'[p].power = "D3" /\ pdo'[p].held = FALSE
              /\ pdo'[p].pnp = "Present" /\ pdo'[p].known = FALSE /\ pdo'[p].class \in NewClasses
  <2>1. PICK c \in born : p = f[c] /\ pdo'[p] = NewPdo(c) /\ c \in NewClasses /\ c \in Class  BY <1>9
  <2>2. LET e == NewPdo(c) IN
        /\ e \in Ext /\ e.missing = FALSE /\ e.power = "D3" /\ e.held = FALSE
        /\ e.pnp = "Present" /\ e.known = FALSE /\ e.class = c
    BY <2>1, NewBorn
  <2> QED  BY <2>1, <2>2
<1>11. ASSUME NEW p \in Pdos \ S
       PROVE  /\ pdo'[p] \in Ext
              /\ p \in Dropped => pdo'[p] = NoPdo
              /\ p \notin Dropped =>
                   /\ pdo'[p].pnp = pdo[p].pnp /\ pdo'[p].prev = pdo[p].prev
                   /\ pdo'[p].power = pdo[p].power /\ pdo'[p].held = pdo[p].held
                   /\ pdo'[p].known = pdo[p].known /\ pdo'[p].class = pdo[p].class
                   /\ (~pdo'[p].missing => ~pdo[p].missing)
  <2>1. pdo[p] \in Ext  BY <1>3
  <2>2. CASE p \in Dropped  BY <1>6, <2>2, Initial
  <2>3. CASE p \notin Dropped
    <3>1. pdo'[p] \in {pdo[p], SetMissing(pdo[p])}  BY <1>6, <2>3
    <3> QED  BY <2>1, <2>3, <3>1, Missed
  <2> QED  BY <2>2, <2>3
<1>12. pdo' \in [Pdos -> Ext]
  <2>1. \A p \in Pdos : pdo'[p] \in Ext  BY <1>10, <1>11
  <2>2. pdo' = [p \in Pdos |-> pdo'[p]]  BY <1>5 DEF AfterEnumerate
  <2> QED  BY <2>1, <2>2
<1> HIDE DEF S
<1>13. Listed' = (Listed \ Dropped) \cup S
  <2>1. \A p \in Pdos : pdo'[p].pnp # "None" <=> (p \in S \/ (pdo[p].pnp # "None" /\ p \notin Dropped))
    <3> TAKE p \in Pdos
    <3>1. CASE p \in S  BY <1>10, <3>1
    <3>2. CASE p \notin S  BY <1>11, <3>2, Initial
    <3> QED  BY <3>1, <3>2
  <2> QED  BY <1>7, <2>1 DEF Listed
<1>14. ReferencesInv'
  <2>1. IsFiniteSet(Listed) /\ IsFiniteSet(Dropped) /\ Cardinality(Listed) \in Nat /\ Cardinality(Dropped) \in Nat
    BY <1>8, ListIsFinite, ListIsListed
  <2>2. Cardinality(Listed \ Dropped) = Cardinality(Listed) - Cardinality(Dropped)
    <3>1. Listed \cap Dropped = Dropped  BY <1>8
    <3> QED  BY <2>1, <3>1, FS_Difference
  <2>3. IsFiniteSet(Listed \ Dropped) /\ (Listed \ Dropped) \cap S = {}
    BY <1>7, <2>1, FS_Difference
  <2>4. Cardinality((Listed \ Dropped) \cup S) = Cardinality(Listed \ Dropped) + Cardinality(S)
    <3> DEFINE T == Listed \ Dropped
    <3>1. IsFiniteSet(T) /\ IsFiniteSet(S) /\ Cardinality(T) \in Nat /\ Cardinality(S) \in Nat
          /\ Cardinality(T \cap S) = 0
      BY <1>7, <2>3, FS_EmptySet, FS_CardinalityType
    <3> HIDE DEF T
    <3>2. Cardinality(T \cup S) = Cardinality(T) + Cardinality(S) - Cardinality(T \cap S)
      BY <3>1, FS_Union
    <3>3. Cardinality(T \cup S) = Cardinality(T) + Cardinality(S)  BY <3>1, <3>2
    <3> QED  BY <3>3 DEF T
  <2> QED  BY <1>2, <1>3, <1>5, <1>7, <1>13, <2>1, <2>2, <2>4 DEF ReferencesInv
<1>15. OneOfAClass'
  <2>1. ASSUME NEW p \in Live'
        PROVE  p \in S \/ (p \in Live /\ p \notin S /\ pdo'[p].class = pdo[p].class)
    <3>1. p \in Listed' /\ ~pdo'[p].missing  BY DEF Live
    <3>2. CASE p \notin S
      <4>1. p \in Listed /\ p \notin Dropped /\ p \in Pdos  BY <1>13, <3>1, <3>2, ListIsListed
      <4> QED  BY <1>11, <3>1, <3>2, <4>1 DEF Live
    <3> QED  BY <3>2
  <2>2. \A q \in Live : pdo[q].class \notin NewClasses  BY DEF NewClasses
  <2>3. \A p, q \in S : pdo'[p].class = pdo'[q].class => p = q
    <3> TAKE p, q \in S
    <3>1. PICK c \in born : p = f[c] /\ pdo'[p] = NewPdo(c) /\ c \in Class  BY <1>9
    <3>2. PICK d \in born : q = f[d] /\ pdo'[q] = NewPdo(d) /\ d \in Class  BY <1>9
    <3>3. pdo'[p].class = c /\ pdo'[q].class = d  BY <3>1, <3>2, NewBorn
    <3> QED  BY <3>1, <3>2, <3>3
  <2> SUFFICES ASSUME NEW p \in Live', NEW q \in Live', pdo'[p].class = pdo'[q].class PROVE p = q
    BY DEF OneOfAClass
  <2>4. CASE p \in S /\ q \in S  BY <2>3, <2>4
  <2>5. CASE p \in S /\ q \notin S  BY <1>10, <2>1, <2>2, <2>5
  <2>6. CASE p \notin S /\ q \in S  BY <1>10, <2>1, <2>2, <2>6
  <2>7. CASE p \notin S /\ q \notin S  BY <1>3, <2>1, <2>7 DEF OneOfAClass
  <2> QED  BY <2>4, <2>5, <2>6, <2>7
<1>16. \A p \in Pdos : ChildInv(p)'
  <2> SUFFICES ASSUME NEW p \in Pdos PROVE ChildInv(p)'
    OBVIOUS
  <2>1. ChildInv(p)  BY <1>3
  <2>2. CASE p \in S
    <3>1. pdo[p].pnp = "None"  BY <1>7, <2>2, ListIsListed
    <3> QED  BY <1>2, <1>10, <2>1, <2>2, <3>1 DEF ChildInv, ChildStates
  <2>3. CASE p \in Dropped /\ p \notin S
    <3>1. pdo[p].pnp = "Present"  BY <1>8, <2>3
    <3> QED  BY <1>2, <1>11, <2>1, <2>3, <3>1, Initial DEF ChildInv, ChildStates
  <2>4. CASE p \notin Dropped /\ p \notin S
    BY <1>2, <1>11, <2>1, <2>4 DEF ChildInv
  <2> QED  BY <2>2, <2>3, <2>4
<1>17. dx'.pnp = "None" => Listed' = {}
  <2> SUFFICES ASSUME dx.pnp = "None" PROVE Listed' = {}
    BY <1>2
  <2>1. FALSE
    <3>1. tpc["scan"] = "enumerate" /\ "scan" \in Threads  BY DEF FdoEnumerate, Threads
    <3>2. "scan" \in Existing  BY <3>1 DEF Existing
    <3>3. ThreadInv /\ PhaseInv  BY DEF FdoIInv, FdoInv
    <3>4. ipc # "join" /\ ~Running  BY <3>3 DEF PhaseInv, Running
    <3> QED  BY <3>2, <3>3, <3>4 DEF ThreadInv
  <2> QED  BY <2>1
<1>18. Unlinks
  <2> SUFFICES ASSUME NEW p \in Pdos, pdo[p].pnp # "None", pdo'[p].pnp = "None" PROVE Released(p)
    BY DEF Unlinks
  <2>1. p \in Dropped  BY <1>10, <1>11
  <2>2. pdo[p].pnp = "Present" /\ ChildInv(p) /\ pdo[p].known \in BOOLEAN  BY <1>3, <1>8, <2>1 DEF Ext
  <2> QED  BY <2>2 DEF Released, ChildInv
<1>19. ChildrenInv'
  <2>1. classes' \subseteq Class /\ device' \subseteq Class /\ relations' \subseteq Pdos  BY <1>2, <1>3
  <2> QED  BY <1>12, <1>14, <1>15, <1>16, <1>17, <2>1 DEF ChildrenInv
<1> QED  BY <1>18, <1>19

-----------------------------------------------------------------------------
(* The invariant, and what it gives.                                       *)

LEMMA InitInv == ASSUME Init PROVE FdoIInv
<1>1. /\ dx = NoPdo /\ active = FALSE /\ ballooning = FALSE /\ made = {} /\ held = {}
      /\ pdo = [p \in Pdos |-> NoPdo] /\ references = 0
      /\ tpc = [t \in Threads |-> "none"] /\ event = {} /\ alerted = {} /\ done = {}
      /\ owner = "free" /\ balActive = FALSE /\ ipc = "none" /\ op = "none" /\ relations = {}
      /\ classes = {} /\ device \subseteq Class
  BY DEF Init
<1>2. Existing = {} /\ ~Running  BY <1>1, Initial DEF Existing, Running
<1>3. FdoTypes  BY <1>1, Initial DEF FdoTypes, ThreadPoints
<1>4. PhaseInv /\ HeldInv  BY <1>1, Initial DEF PhaseInv, HeldInv
<1>5. StateInv  BY <1>1, <1>2, Initial DEF StateInv
<1>6. ThreadInv  BY <1>1, <1>2 DEF ThreadInv
<1>7. DrainInv  BY <1>1 DEF DrainInv, Threads
<1>8. \A p \in Pdos : pdo[p] = NoPdo  BY <1>1
<1>9. Listed = {} /\ Live = {}  BY <1>8, Initial DEF Listed, Live
<1>10. \A p \in Pdos : ChildInv(p)  BY <1>1, <1>8, Initial DEF ChildInv, ChildStates
<1>11. ReferencesInv /\ OneOfAClass  BY <1>1, <1>9, FS_EmptySet, Initial DEF ReferencesInv, OneOfAClass
<1>12. ChildrenInv  BY <1>1, <1>9, <1>10, <1>11, Initial DEF ChildrenInv
<1> QED  BY <1>3, <1>4, <1>5, <1>6, <1>7, <1>12 DEF FdoIInv, FdoInv

LEMMA ThreadNextStep ==
  ASSUME FdoIInv, ThreadNext
  PROVE  FdoIInv' /\ Unlinks
<1>1. FdoInv  BY DEF FdoIInv
<1>2. CASE ThreadStep("scan") \/ ThreadStep("suspend") \/ ThreadStep("balloon")
  <2>1. PICK t \in Threads : ThreadStep(t)  BY <1>2 DEF Threads
  <2>2. FdoInv'  BY <1>1, <2>1, LoopSteps DEF ThreadStep
  <2> QED  BY <1>2, <2>2, KeptSteps DEF FdoIInv
<1>3. CASE ScanGuard \/ ScanRead
  BY <1>1, <1>3, ScanSteps, KeptSteps DEF FdoIInv
<1>4. CASE FdoEnumerate
  BY <1>1, <1>4, ScanSteps, EnumerateChildren DEF FdoIInv
<1>5. CASE SuspendGuard \/ SuspendRead \/ SuspendTrigger \/ SuspendClearActive
  BY <1>1, <1>5, SuspendSteps, KeptSteps DEF FdoIInv
<1>6. CASE BalloonGuard \/ BalloonRead \/ BalloonAdjust \/ BalloonAdjustFails \/ BalloonClearActive
  BY <1>1, <1>6, BalloonSteps, KeptSteps DEF FdoIInv
<1> QED  BY <1>2, <1>3, <1>4, <1>5, <1>6 DEF ThreadNext, ScanNext, SuspendNext, BalloonNext

LEMMA FdoStepsStep ==
  ASSUME FdoIInv, FdoSteps
  PROVE  FdoIInv' /\ Unlinks
<1>1. FdoInv  BY DEF FdoIInv
<1>2. CASE \E n \in 0..Len(PowerStages) : FdoD3ToD0(n)
  BY <1>1, <1>2, FdoD3ToD0Step, KeptRequests DEF FdoIInv
<1>3. CASE FdoStartDrain \/ FdoStartWait
  BY <1>1, <1>3, FdoStartDrainStep, FdoStartWaitStep, KeptRequests DEF FdoIInv
<1>4. CASE FdoSetD3 \/ FdoDrainSuspend \/ FdoRelease
  BY <1>1, <1>4, FdoSetD3Step, FdoDrainSuspendStep, FdoReleaseStep, KeptRequests DEF FdoIInv
<1>5. CASE ThreadAlert \/ ThreadJoin \/ Joined
  BY <1>1, <1>5, ThreadAlertStep, ThreadJoinStep, JoinedStep, KeptRequests DEF FdoIInv
<1>6. CASE FdoStarted \/ FdoStartFailed \/ FdoStopped \/ FdoRelationsFailed \/ FdoAsleep
  BY <1>1, <1>6, FdoStartedStep, FdoStartFailedStep, FdoStoppedStep, FdoRelationsFailedStep,
     FdoAsleepStep, KeptRequests DEF FdoIInv
<1>7. CASE FdoRemoveChildren  BY <1>1, <1>7, FdoRemoveChildrenStep, RemoveChildren DEF FdoIInv
<1>8. CASE FdoRemoved  BY <1>8, RemovedStep DEF FdoIInv
<1>9. CASE FdoReportRelations  BY <1>1, <1>9, FdoReportRelationsStep, ReportChildren DEF FdoIInv
<1>10. CASE FdoRelationsReported
  BY <1>1, <1>10, FdoRelationsReportedStep, RelationsReported DEF FdoIInv
<1>11. CASE FdoWoken  BY <1>1, <1>11, FdoWokenStep, WakeChildren DEF FdoIInv
<1> QED  BY <1>2, <1>3, <1>4, <1>5, <1>6, <1>7, <1>8, <1>9, <1>10, <1>11 DEF FdoSteps

LEMMA FdoRequestsStep ==
  ASSUME FdoIInv, FdoRequests
  PROVE  FdoIInv' /\ Unlinks
<1>1. FdoInv  BY DEF FdoIInv
<1>2. CASE \E n \in 0..Len(CreateStages) : FdoCreate(n)
  BY <1>1, <1>2, FdoCreateStep, CreateChildren DEF FdoIInv
<1>3. CASE \E n \in 0..Len(StartStages) : FdoStartDevice(n)
  BY <1>1, <1>3, FdoStartDeviceStep, KeptRequests DEF FdoIInv
<1>4. CASE FdoQueryStopDevice \/ FdoQueryRemoveDevice
  BY <1>1, <1>4, FdoQueryStopDeviceStep, FdoQueryRemoveDeviceStep, KeptRequests DEF FdoIInv
<1>5. CASE \E s \in {"StopPending", "RemovePending"} : FdoCancelDevice(s)
  BY <1>1, <1>5, FdoCancelDeviceStep, KeptRequests DEF FdoIInv
<1>6. CASE FdoStopDevice \/ FdoRemoveDevice \/ FdoQueryDeviceRelations
  BY <1>1, <1>6, FdoStopDeviceStep, FdoRemoveDeviceStep, FdoQueryDeviceRelationsStep,
     KeptRequests DEF FdoIInv
<1>7. CASE FdoSurpriseRemoval
  BY <1>1, <1>7, FdoSurpriseRemovalStep, SurpriseChildren DEF FdoIInv
<1>8. CASE \E s \in {"S3", "S4"} : FdoSleep(s)
  BY <1>1, <1>8, FdoSleepStep, SleepChildren DEF FdoIInv
<1>9. CASE FdoWake  BY <1>1, <1>9, FdoWakeStep, KeptRequests DEF FdoIInv
<1> QED  BY <1>2, <1>3, <1>4, <1>5, <1>6, <1>7, <1>8, <1>9 DEF FdoRequests

LEMMA OutsideStep ==
  ASSUME FdoIInv, PdoRequests \/ DeviceChanges \/ ShutdownRequested \/ TargetChanges
  PROVE  FdoIInv' /\ Unlinks
<1>1. FdoInv /\ FdoTypes  BY DEF FdoIInv, FdoInv
<1>2. CASE PdoRequests
  <2>1. PICK p \in Pdos :
          \/ \E ok \in BOOLEAN : StartChild(p, ok)
          \/ QueryChild(p) \/ CancelChild(p) \/ StopChild(p)
          \/ SurpriseChild(p) \/ RemoveChild(p) \/ EjectChild(p)
    BY <1>2 DEF PdoRequests
  <2>2. CASE RemoveChild(p)  BY <2>2, RemoveChildStep DEF FdoIInv
  <2>3. CASE ~RemoveChild(p)  BY <2>1, <2>3, ChildRequests DEF FdoIInv
  <2> QED  BY <2>2, <2>3
<1>3. CASE DeviceChanges \/ ShutdownRequested \/ TargetChanges
  <2>1. /\ UNCHANGED <<dx, active, ballooning, made, held, tpc, alerted, done, owner,
                       balActive, ipc, op>>
        /\ \E t \in Threads : event' = Wake(Watched(t))
    BY <1>3 DEF DeviceChanges, ShutdownRequested, TargetChanges, StoreChanges, fdos, balloon, irps, Threads
  <2>2. \A t \in Threads : Watched(t) \in SUBSET Threads  BY DEF Watched
  <2>3. event' \subseteq Existing  BY <1>1, <2>1, <2>2, Waking DEF FdoTypes
  <2>4. FdoInv'  BY <1>1, <2>1, <2>3, QuietSteps
  <2> QED  BY <1>3, <2>4, KeptRequests DEF FdoIInv
<1> QED  BY <1>2, <1>3

LEMMA Stutters == ASSUME FdoIInv, UNCHANGED vars PROVE FdoIInv' /\ Unlinks
<1>1. FdoInv /\ FdoTypes /\ ChildrenInv  BY DEF FdoIInv, FdoInv
<1>2. UNCHANGED <<dx, active, ballooning, made, held, tpc, event, alerted, done, owner, balActive, ipc, op,
                  pdo, references, classes, device, relations>>
  BY DEF vars, moving, fdos, threads, balloon, irps, store
<1>3. event' \subseteq Existing  BY <1>1, <1>2 DEF FdoTypes
<1>4. FdoInv'  BY <1>1, <1>2, <1>3, QuietSteps
<1>5. /\ classes' \subseteq Class /\ device' \subseteq Class /\ relations' \subseteq relations
      /\ (ipc' = "removechildren" =>
            \A p \in Pdos : pdo[p].known => pdo[p].pnp \in {"Enumerated", "SurpriseRemovePending", "Deleted"})
  BY <1>1, <1>2 DEF ChildrenInv, ChildInv
<1>6. ChildrenInv'  BY <1>1, <1>2, <1>5, ChildrenKept
<1> QED  BY <1>2, <1>4, <1>6, KeptUnlinks DEF FdoIInv

LEMMA StepInv == ASSUME FdoIInv, [Next]_vars PROVE FdoIInv' /\ Unlinks
<1>1. CASE ThreadNext  BY <1>1, ThreadNextStep
<1>2. CASE FdoSteps  BY <1>2, FdoStepsStep
<1>3. CASE FdoRequests  BY <1>3, FdoRequestsStep
<1>4. CASE PdoRequests \/ DeviceChanges \/ ShutdownRequested \/ TargetChanges  BY <1>4, OutsideStep
<1>5. CASE UNCHANGED vars  BY <1>5, Stutters
<1> QED  BY <1>1, <1>2, <1>3, <1>4, <1>5 DEF Next

LEMMA Invariance == Spec => []FdoIInv
<1>1. Init => FdoIInv  BY InitInv
<1>2. FdoIInv /\ [Next]_vars => FdoIInv'  BY StepInv
<1> QED  BY <1>1, <1>2, PTL DEF Spec

LEMMA PowerHolds == ASSUME FdoIInv PROVE PowerInv
<1>1. /\ FdoTypes /\ PhaseInv /\ StateInv /\ HeldInv /\ ThreadInv /\ DrainInv /\ ChildrenInv
  BY DEF FdoIInv, FdoInv
<1>2. dx \in Ext /\ pdo \in [Pdos -> Ext]  BY <1>1 DEF FdoTypes, ChildrenInv
<1>3. TypeOK
  <2>1. \A d \in {dx} \cup {pdo[p] : p \in Pdos} :
          /\ d.pnp \in PnpStates /\ d.prev \in PnpStates
          /\ d.power \in {"D0", "D3"} /\ d.system \in {"S0", "S3", "S4"}
    <3>1. \A d \in {dx} \cup {pdo[p] : p \in Pdos} : d \in Ext  BY <1>2
    <3> QED  BY <3>1 DEF Ext
  <2>2. held \subseteq Taken(PowerStages, Len(PowerStages))  BY <1>1, Applied, Stages DEF HeldInv
  <2>3. tpc \in [Threads -> {"none", "wait", "check", "read", "enumerate", "trigger", "clear",
                             "adjust", "loop", "exited"}]
    BY <1>1 DEF FdoTypes, ThreadPoints
  <2>4. event \cup alerted \cup done \subseteq Threads  BY <1>1, ThreadSets DEF FdoTypes
  <2> QED  BY <1>1, <2>1, <2>2, <2>3, <2>4 DEF TypeOK, FdoTypes, Resources
<1>4. /\ tpc["suspend"] # "none" => active
      /\ tpc["balloon"] # "none" => active /\ ballooning
  <2>1. "suspend" \in Threads /\ "balloon" \in Threads  BY DEF Threads
  <2> QED  BY <1>1, <2>1, ThreadSets DEF ThreadInv, AllThreads, Existing, FdoTypes
<1>5. DrainSafe
  <2>1. tpc["suspend"] \in {"read", "trigger"} => held = Applicable /\ active
    <3>1. dx.power \in {"D0", "D3"}  BY <1>2 DEF Ext
    <3> QED  BY <1>1, <1>4, <3>1 DEF DrainInv, HeldInv
  <2>2. tpc["balloon"] \in {"read", "adjust", "clear"} => held = Applicable /\ active /\ ballooning
    BY <1>1, <1>4 DEF DrainInv, HeldInv
  <2>3. owner = "balloon" => tpc["suspend"] \notin {"trigger", "clear"}  BY <1>1 DEF DrainInv
  <2> QED  BY <2>1, <2>2, <2>3, Applied DEF DrainSafe
<1>6. Clean
  <2>1. NoBugCheck
    <3> SUFFICES ASSUME ipc = "finish", op = "S4" PROVE held = {} /\ \A p \in Pdos : ~pdo[p].held
      BY DEF NoBugCheck
    <3>1. dx.power = "D3"  BY <1>1 DEF StateInv
    <3>2. held = {}  BY <1>1, <3>1 DEF HeldInv
    <3>3. \A p \in Pdos : ~pdo[p].held  BY <1>1 DEF ChildrenInv, ChildInv
    <3> QED  BY <3>2, <3>3
  <2> SUFFICES ASSUME Idle
               PROVE  /\ dx.pnp = "None" => made = {} /\ held = {} /\ references = 0
                      /\ held # {} <=> (dx.power = "D0" /\ active)
                      /\ dx.power = "D0" => held = Applicable
                      /\ dx.pnp \in {"None", "Added", "Stopped", "Deleted"} =>
                           /\ Existing = {} /\ event = {} /\ alerted = {}
                           /\ {"raw", "translated", "interrupt"} \cap made = {}
                      /\ dx.pnp = "Started" /\ active => Existing = ThreadStages
    BY <2>1 DEF Clean
  <2>2. ipc = "none" /\ op = "none"  BY <1>1 DEF Idle, PhaseInv
  <2>3. held = (IF dx.power = "D0" THEN Applicable ELSE {})  BY <1>1, <2>2 DEF HeldInv
  <2>4. Applicable # {} <=> active  BY Applied
  <2>5. held # {} <=> (dx.power = "D0" /\ active)  BY <2>3, <2>4
  <2>6. Running <=> \/ dx.pnp \in {"Started", "StopPending", "RemovePending"}
                    \/ dx.pnp = "SurpriseRemovePending" /\ dx.prev = "Started"
    BY <2>2 DEF Running
  <2>7. dx.pnp \in {"None", "Added", "Stopped", "Deleted"} =>
          /\ Existing = {} /\ event = {} /\ alerted = {}
          /\ {"raw", "translated", "interrupt"} \cap made = {}
    BY <1>1, <2>2, <2>6 DEF ThreadInv, FdoTypes, Resources
  <2>8. dx.pnp = "Started" /\ active => Existing = ThreadStages
    BY <1>1, <2>2, <2>6 DEF ThreadInv, AllThreads
  <2>9. dx.pnp = "None" => made = {} /\ held = {} /\ references = 0
    <3> SUFFICES ASSUME dx.pnp = "None" PROVE made = {} /\ held = {} /\ references = 0
      OBVIOUS
    <3>1. made = {} /\ dx.power = "D3"  BY <1>1, <2>6 DEF StateInv
    <3>2. Listed = {}  BY <1>1 DEF ChildrenInv
    <3>3. references = 0
      <4>1. references = Cardinality(Listed) + 0  BY <1>1 DEF ChildrenInv, ReferencesInv
      <4> QED  BY <3>2, <4>1, FS_EmptySet
    <3> QED  BY <2>3, <3>1, <3>3
  <2> QED  BY <2>3, <2>5, <2>7, <2>8, <2>9
<1> QED  BY <1>3, <1>5, <1>6 DEF PowerInv

LEMMA ListHolds == ASSUME FdoIInv PROVE ListInv
<1>1. ReferencesInv /\ OneOfAClass /\ \A p \in Pdos : ChildInv(p)
  BY DEF FdoIInv, ChildrenInv
<1>2. \A p \in Pdos : pdo[p].held <=> pdo[p].power = "D0"  BY <1>1 DEF ChildInv
<1>3. \A p \in Listed : pdo[p].pnp \in {"Present", "Enumerated", "Deleted"} => ~pdo[p].held
  BY <1>1, ListIsListed DEF ChildInv
<1> QED  BY <1>1, <1>2, <1>3 DEF ListInv, ReferencesInv, OneOfAClass

\* The drain protocol of FdoD0ToD3 and the mutex between the threads, what a
\* failed or finished request leaves (no interface, thread or resource that it
\* should not), and no reference to an interface when FdoS3ToS4 looks for one.
THEOREM PowerIsClean == Spec => []PowerInv
<1>1. FdoIInv => PowerInv  BY PowerHolds
<1> QED  BY <1>1, Invariance, PTL

\* Fdo->References counts the children on the list and the FDO itself; a class
\* has one live child; only a child the PnP manager has started is in D0.
THEOREM ListIsCounted == Spec => []ListInv
<1>1. FdoIInv => ListInv  BY ListHolds
<1> QED  BY <1>1, Invariance, PTL

\* PdoDestroy takes a child off the list only after its REMOVE_DEVICE, or if the
\* PnP manager never heard of it.
THEOREM ChildrenGoOnce == Spec => DestroyedOnce
<1>1. FdoIInv /\ [Next]_vars =>
        [\A p \in Pdos : pdo[p].pnp # "None" /\ pdo'[p].pnp = "None" => Released(p)]_vars
  BY StepInv DEF Unlinks
<1> QED  BY <1>1, Invariance, PTL DEF Spec, DestroyedOnce

-----------------------------------------------------------------------------
(* Unplug.                                                                 *)

\* The counts have drivers behind them, also the one that is being acted on; nothing is
\* unplugged before both counts were read.
UnplugIInv ==
  /\ value \in [UnplugType -> Int] /\ \A t \in UnplugType : value[t] >= Absent
  /\ Request \in [UnplugType -> BOOLEAN]
  /\ starting \subseteq UnplugType /\ owners \subseteq PvDriver /\ given \subseteq PvDriver
  /\ \A t \in UnplugType : value[t] <= Cardinality(Of(owners, t))
  /\ \A t \in UnplugType : Request[t] => t \in Forced \/ Of(given, t) # {}
  /\ gone \subseteq UnplugType /\ \A t \in gone : Request[t]
  /\ ~Started => gone = {}
  /\ deciding # NoDecision => /\ deciding.type \in UnplugType /\ deciding.on \in BOOLEAN
                              /\ deciding.on => \/ deciding.type \in Forced
                                                \/ Of(owners, deciding.type) # {}

\* The drivers of one type, with one more and with one less.
LEMMA DriversOf ==
  ASSUME NEW S \in SUBSET PvDriver, NEW t
  PROVE  /\ IsFiniteSet(Of(S, t)) /\ Cardinality(Of(S, t)) \in Nat
         /\ Of(S, t) = {} => Cardinality(Of(S, t)) = 0
         /\ \A d \in PvDriver \ S : Cardinality(Of(S \cup {d}, Wants[d])) = Cardinality(Of(S, Wants[d])) + 1
         /\ \A d \in S : Cardinality(Of(S \ {d}, Wants[d])) = Cardinality(Of(S, Wants[d])) - 1
         /\ \A d \in PvDriver : Wants[d] # t => /\ Of(S \cup {d}, t) = Of(S, t)
                                                /\ Of(S \ {d}, t) = Of(S, t)
<1>1. \A x : IsFiniteSet(Of(S, x))
  <2>1. IsFiniteSet(PvDriver)  BY UnplugAssumption
  <2>2. \A x : Of(S, x) \in SUBSET PvDriver  BY DEF Of
  <2> QED  BY <2>1, <2>2, FS_Subset
<1>2. Cardinality(Of(S, t)) \in Nat /\ (Of(S, t) = {} => Cardinality(Of(S, t)) = 0)
  BY <1>1, FS_CardinalityType, FS_EmptySet
<1>3. ASSUME NEW d \in PvDriver \ S
      PROVE  Cardinality(Of(S \cup {d}, Wants[d])) = Cardinality(Of(S, Wants[d])) + 1
  <2>1. Of(S \cup {d}, Wants[d]) = Of(S, Wants[d]) \cup {d} /\ d \notin Of(S, Wants[d])  BY DEF Of
  <2> QED  BY <1>1, <2>1, FS_AddElement
<1>4. ASSUME NEW d \in S
      PROVE  Cardinality(Of(S \ {d}, Wants[d])) = Cardinality(Of(S, Wants[d])) - 1
  <2>1. Of(S \ {d}, Wants[d]) = Of(S, Wants[d]) \ {d} /\ d \in Of(S, Wants[d])  BY DEF Of
  <2> QED  BY <1>1, <2>1, FS_RemoveElement, ZenonT(60)
<1>5. \A d \in PvDriver : Wants[d] # t => Of(S \cup {d}, t) = Of(S, t) /\ Of(S \ {d}, t) = Of(S, t)
  BY DEF Of
<1> QED  BY <1>1, <1>2, <1>3, <1>4, <1>5

LEMMA UnplugStart == ASSUME UnplugInit PROVE UnplugIInv
<1>1. {} \in SUBSET PvDriver  OBVIOUS
<1>2. \A t : Cardinality(Of({}, t)) \in Nat  BY <1>1, DriversOf
<1> QED  BY <1>2 DEF UnplugInit, UnplugIInv, Absent, Started

\* UnplugReadRequest: a count of which the drivers are not known is not acted on.
LEMMA ReadRequestStep ==
  ASSUME UnplugIInv, NEW t \in UnplugType, NEW found \in BOOLEAN, UnplugReadRequest(t, found)
  PROVE  UnplugIInv'
<1>0. /\ t \in starting /\ deciding = NoDecision
      /\ UNCHANGED <<value, Request, gone, given, boots>>
      /\ owners' = IF value[t] = Absent THEN owners \ Of(owners, t) ELSE owners
      /\ starting' = starting \ {t}
      /\ deciding' = IF t \notin Forced /\ value[t] = Absent THEN NoDecision
                     ELSE [type |-> t, on |-> t \in Forced \/ (value[t] # 0 /\ found)]
  BY DEF UnplugReadRequest
<1>1. owners \in SUBSET PvDriver /\ owners' \in SUBSET PvDriver  BY <1>0 DEF UnplugIInv, Of
<1>2. \A u \in UnplugType : u # t \/ value[t] # Absent => Of(owners', u) = Of(owners, u)  BY <1>0 DEF Of
<1>3. ASSUME NEW u \in UnplugType PROVE value'[u] <= Cardinality(Of(owners', u))
  <2>1. CASE u # t \/ value[t] # Absent  BY <1>0, <1>2, <2>1 DEF UnplugIInv
  <2>2. CASE u = t /\ value[t] = Absent
    <3>1. value'[u] = -1 /\ Cardinality(Of(owners', u)) \in Nat  BY <1>0, <1>1, <2>2, DriversOf DEF Absent
    <3> QED  BY <3>1
  <2> QED  BY <2>1, <2>2
<1>4. ASSUME deciding' # NoDecision
      PROVE  /\ deciding'.type \in UnplugType /\ deciding'.on \in BOOLEAN
             /\ deciding'.on => deciding'.type \in Forced \/ Of(owners', deciding'.type) # {}
  <2>1. /\ deciding'.type = t /\ deciding'.on = (t \in Forced \/ (value[t] # 0 /\ found))
        /\ t \in Forced \/ value[t] # Absent
    BY <1>0, <1>4
  <2>2. ASSUME value[t] # Absent, value[t] # 0 PROVE Of(owners', t) # {}
    <3>1. value[t] \in Int /\ value[t] >= -1 /\ value[t] # -1 /\ value[t] <= Cardinality(Of(owners, t))
      BY <2>2 DEF UnplugIInv, Absent
    <3>2. Cardinality(Of(owners, t)) # 0  BY <2>2, <3>1
    <3>3. Of(owners, t) # {}  BY <1>1, <3>2, DriversOf
    <3> QED  BY <1>2, <2>2, <3>3
  <2> QED  BY <2>1, <2>2
<1>5. gone' = {}  BY <1>0 DEF UnplugIInv, Started
<1> QED  BY <1>0, <1>1, <1>3, <1>4, <1>5 DEF UnplugIInv

\* UnplugSetRequest: the drivers behind the count are those of this boot.
LEMMA SetRequestStep ==
  ASSUME UnplugIInv, UnplugSetRequest
  PROVE  UnplugIInv'
<1> DEFINE t == deciding.type
<1>0. /\ deciding # NoDecision /\ deciding' = NoDecision
      /\ value' = [value EXCEPT ![t] = Absent]
      /\ Request' = [Request EXCEPT ![t] = deciding.on]
      /\ given' = given \cup Of(owners, t) /\ owners' = owners \ Of(owners, t)
      /\ UNCHANGED <<starting, gone, boots>>
  BY DEF UnplugSetRequest
<1>1. /\ t \in UnplugType /\ deciding.on \in BOOLEAN /\ owners \in SUBSET PvDriver
      /\ owners' \in SUBSET PvDriver /\ given' \in SUBSET PvDriver
      /\ deciding.on => t \in Forced \/ Of(owners, t) # {}
      /\ value \in [UnplugType -> Int] /\ Request \in [UnplugType -> BOOLEAN]
  BY <1>0 DEF UnplugIInv, Of
<1> HIDE DEF t
<1>2. /\ value'[t] = Absent /\ Request'[t] = deciding.on
      /\ \A u \in UnplugType : u # t => value'[u] = value[u] /\ Request'[u] = Request[u]
      /\ value' \in [UnplugType -> Int] /\ Request' \in [UnplugType -> BOOLEAN]
  BY <1>0, <1>1 DEF Absent
<1>3. ASSUME NEW u \in UnplugType
      PROVE  value'[u] >= Absent /\ value'[u] <= Cardinality(Of(owners', u))
  <2>1. CASE u = t
    <3>1. Cardinality(Of(owners', u)) \in Nat /\ value'[u] = -1  BY <1>1, <1>2, <2>1, DriversOf DEF Absent
    <3> QED  BY <3>1 DEF Absent
  <2>2. CASE u # t
    <3>1. Of(owners', u) = Of(owners, u)  BY <1>0, <2>2 DEF Of
    <3> QED  BY <1>2, <2>2, <3>1 DEF UnplugIInv
  <2> QED  BY <2>1, <2>2
<1>4. ASSUME NEW u \in UnplugType, Request'[u] PROVE u \in Forced \/ Of(given', u) # {}
  <2>1. CASE u = t
    <3>1. t \in Forced \/ Of(owners, t) # {}  BY <1>1, <1>2, <1>4, <2>1
    <3>2. Of(owners, t) \subseteq Of(given', t)  BY <1>0 DEF Of
    <3> QED  BY <2>1, <3>1, <3>2
  <2>2. CASE u # t
    <3>1. u \in Forced \/ Of(given, u) # {}  BY <1>2, <1>4, <2>2 DEF UnplugIInv
    <3>2. Of(given, u) \subseteq Of(given', u)  BY <1>0 DEF Of
    <3> QED  BY <3>1, <3>2
  <2> QED  BY <2>1, <2>2
<1>5. gone' = {}  BY <1>0 DEF UnplugIInv, Started
<1> QED  BY <1>0, <1>1, <1>2, <1>3, <1>4, <1>5 DEF UnplugIInv

\* UnplugRequest: the count follows its drivers up and, where it can be written, down.
LEMMA UnplugRequestStep ==
  ASSUME UnplugIInv, NEW d \in PvDriver, NEW Make \in BOOLEAN, UnplugRequest(d, Make)
  PROVE  UnplugIInv'
<1> DEFINE t == Wants[d]
<1>0. Started /\ Started' /\ (Make <=> d \notin owners) /\ UNCHANGED <<bootVars, gone>>
  BY DEF UnplugRequest, bootVars, Started
<1>1. /\ t \in UnplugType /\ owners \in SUBSET PvDriver /\ value \in [UnplugType -> Int]
      /\ \A u \in UnplugType : value[u] >= -1 /\ value[u] <= Cardinality(Of(owners, u))
  BY UnplugAssumption DEF UnplugIInv, Absent
<1>2. \A S \in SUBSET PvDriver, u \in UnplugType : Cardinality(Of(S, u)) \in Nat  BY DriversOf
<1>3. \A u \in UnplugType : u # t => /\ Of(owners \cup {d}, u) = Of(owners, u)
                                     /\ Of(owners \ {d}, u) = Of(owners, u)
  BY <1>1, DriversOf
<1>4. \E succeeds \in BOOLEAN :
        \/ Make /\ UnplugIncrementValue(t, succeeds) /\ owners' = owners \cup {d}
        \/ ~Make /\ UnplugDecrementValue(t, succeeds) /\ owners' = IF succeeds THEN owners \ {d} ELSE owners
  BY DEF UnplugRequest
<1> HIDE DEF t
<1>5. ASSUME NEW S \in SUBSET PvDriver, owners' = S, NEW v \in Int, v >= -1, v <= Cardinality(Of(S, t)),
             value' = [value EXCEPT ![t] = v],
             \A u \in UnplugType : u # t => Of(S, u) = Of(owners, u)
      PROVE  UnplugIInv'
  <2>1. value'[t] = v /\ \A u \in UnplugType : u # t => value'[u] = value[u]  BY <1>1, <1>5
  <2>2. value' \in [UnplugType -> Int]  BY <1>1, <1>5
  <2>3. \A u \in UnplugType : value'[u] >= -1 /\ value'[u] <= Cardinality(Of(owners', u))
    BY <1>1, <1>5, <2>1
  <2> QED  BY <1>0, <1>5, <2>2, <2>3 DEF UnplugIInv, bootVars, Absent, Started
<1>6. CASE Make
  <2>1. PICK succeeds \in BOOLEAN : UnplugIncrementValue(t, succeeds) /\ owners' = owners \cup {d}
    BY <1>4, <1>6
  <2> DEFINE S == owners \cup {d}
  <2>2. S \in SUBSET PvDriver /\ Cardinality(Of(S, t)) = Cardinality(Of(owners, t)) + 1
    BY <1>0, <1>1, <1>6, DriversOf DEF t
  <2>3. Cardinality(Of(owners, t)) \in Nat  BY <1>1, <1>2
  <2> DEFINE v == IF succeeds THEN IF value[t] = Absent THEN 1 ELSE value[t] + 1 ELSE value[t]
  <2>4. v \in Int /\ v >= -1 /\ v <= Cardinality(Of(S, t))
    <3> HIDE DEF S
    <3> QED  BY <1>1, <2>2, <2>3 DEF Absent
  <2>5. value' = [value EXCEPT ![t] = v]  BY <1>1, <2>1 DEF UnplugIncrementValue
  <2>6. \A u \in UnplugType : u # t => Of(S, u) = Of(owners, u)  BY <1>3
  <2> HIDE DEF S, v
  <2> QED  BY <1>5, <2>1, <2>2, <2>4, <2>5, <2>6 DEF S
<1>7. CASE ~Make
  <2>1. PICK succeeds \in BOOLEAN : /\ UnplugDecrementValue(t, succeeds)
                                    /\ owners' = IF succeeds THEN owners \ {d} ELSE owners
    BY <1>4, <1>7
  <2> DEFINE S == IF succeeds THEN owners \ {d} ELSE owners
  <2>2. /\ S \in SUBSET PvDriver
        /\ Cardinality(Of(S, t)) = Cardinality(Of(owners, t)) - (IF succeeds THEN 1 ELSE 0)
    <3>1. Cardinality(Of(owners \ {d}, t)) = Cardinality(Of(owners, t)) - 1
      BY <1>0, <1>1, <1>7, DriversOf DEF t
    <3>2. Cardinality(Of(owners, t)) \in Nat  BY <1>1, <1>2
    <3> QED  BY <1>1, <3>1, <3>2
  <2>3. Cardinality(Of(owners, t)) \in Nat /\ Cardinality(Of(S, t)) \in Nat  BY <1>1, <1>2, <2>2
  <2> DEFINE v == IF succeeds /\ value[t] > 0 THEN value[t] - 1 ELSE value[t]
  <2>4. v \in Int /\ v >= -1 /\ v <= Cardinality(Of(S, t))
    <3> HIDE DEF S
    <3>1. value[t] \in Int /\ value[t] >= -1 /\ value[t] <= Cardinality(Of(owners, t))  BY <1>1
    <3> QED  BY <2>2, <2>3, <3>1
  <2>5. value' = [value EXCEPT ![t] = v]  BY <1>1, <2>1 DEF UnplugDecrementValue
  <2>6. \A u \in UnplugType : u # t => Of(S, u) = Of(owners, u)  BY <1>3
  <2>7. owners' = S  BY <2>1
  <2> HIDE DEF S, v
  <2> QED  BY <1>5, <2>2, <2>4, <2>5, <2>6, <2>7
<1> QED  BY <1>6, <1>7

\* The requests of the PV drivers, whatever crashes and whatever is not written: a count
\* never exceeds the drivers behind it, UnplugDevices unplugs only what is forced or was
\* asked for after the last boot that read the count, and it stays away.
THEOREM UnpluggedOnRequest == UnplugSpec => []UnplugInv
<1>1. UnplugInit => UnplugIInv  BY UnplugStart
<1>2. UnplugIInv /\ [UnplugNext]_unplugVars => UnplugIInv'
  <2> SUFFICES ASSUME UnplugIInv, [UnplugNext]_unplugVars PROVE UnplugIInv'  OBVIOUS
  <2>1. CASE \E t \in UnplugType, found \in BOOLEAN : UnplugReadRequest(t, found)
    BY <2>1, ReadRequestStep
  <2>2. CASE UnplugSetRequest  BY <2>2, SetRequestStep
  <2>3. CASE \E d \in PvDriver, Make \in BOOLEAN : UnplugRequest(d, Make)  BY <2>3, UnplugRequestStep
  <2>4. CASE UnplugDevices \/ UnplugAgain
    BY <2>4 DEF UnplugDevices, UnplugAgain, bootVars, UnplugIInv, Started
  <2>5. CASE Reboot  BY <2>5 DEF Reboot, UnplugIInv, Started, Of
  <2>6. CASE UNCHANGED unplugVars  BY <2>6 DEF unplugVars, UnplugIInv, Started, Of
  <2> QED  BY <2>1, <2>2, <2>3, <2>4, <2>5, <2>6 DEF UnplugNext
<1>3. UnplugIInv => UnplugInv  BY DEF UnplugIInv, UnplugInv
<1> QED  BY <1>1, <1>2, <1>3, PTL DEF UnplugSpec
=============================================================================
