------------------------------- MODULE Ladder -------------------------------
(***************************************************************************)
(* How the tables of Rungs are run: the interfaces of xenbus, acquired and *)
(* released by several clients at once, and the contexts and drivers,      *)
(* created and destroyed by one thread.                                    *)
(*                                                                         *)
(* A thread has a stack of frames, one for each function it is in.  An     *)
(* interface is counted: its Acquire takes a spin lock, increments the     *)
(* references and climbs only from zero, its Release climbs down when none *)
(* is left; every other ladder is climbed once.                            *)
(***************************************************************************)
EXTENDS Rungs, FiniteSets

CONSTANTS
  Climber,      \* threads
  Tops,         \* sets of what they acquire: interfaces, contexts or drivers
  TouchFails    \* XenTouch may fail under xenfilt

ASSUME LadderAssumption == IsFiniteSet(Climber) /\ "free" \notin Climber /\ TouchFails \in BOOLEAN

VARIABLES
  Top,        \* the member of Tops of this behaviour
  refs,       \* Context->References, or 1 for what exists
  lock,       \* owner of Context->Lock
  held,       \* what each ladder has taken
  abi,        \* Context->EvtchnAbi of evtchn.c
  fifo,       \* Context->UseEvtchnFifoAbi
  frames,     \* the stack of each thread
  owned,      \* what each thread has acquired
  broken      \* something was taken twice, or given back without being there

ladderVars == <<Top, refs, lock, held, abi, fifo, frames, owned, broken>>

Run(up, unwind, down) == [up |-> up, unwind |-> unwind, down |-> down]
Ladders ==
  [debug |-> Run(DebugUp, DebugUnwind, DebugDown),
   suspend |-> Run(ReporterUp, ReporterUnwind, ReporterDown),
   range_set |-> Run(ReporterUp, ReporterUnwind, ReporterDown),
   cache |-> Run(ReporterUp, ReporterUnwind, ReporterDown),
   gnttab |-> Run(GnttabUp, GnttabUnwind, GnttabDown),
   shared_info |-> Run(SharedInfoUp, SharedInfoUnwind, SharedInfoDown),
   evtchn |-> Run(EvtchnUp, EvtchnUnwind, EvtchnDown),
   evtchn_two_level |-> Run(TwoLevelUp, TwoLevelUnwind, TwoLevelDown),
   evtchn_fifo |-> Run(FifoUp, FifoUnwind, FifoDown),
   store |-> Run(StoreUp, StoreUnwind, StoreDown),
   console |-> Run(ConsoleUp, ConsoleUnwind, ConsoleDown),
   balloon |-> Run(BalloonUp, BalloonUnwind, BalloonDown),
   unplug |-> Run(UnplugUp, UnplugUnwind, UnplugDown),
   \* the contexts behind them
   debug_context |-> Run(DebugContextUp, << >>, DebugContextDown),
   suspend_context |-> Run(SuspendContextUp, << >>, SuspendContextDown),
   shared_info_context |-> Run(SharedInfoContextUp, << >>, SharedInfoContextDown),
   two_level_context |-> Run(TwoLevelContextUp, << >>, TwoLevelContextDown),
   fifo_context |-> Run(FifoContextUp, << >>, FifoContextDown),
   evtchn_context |-> Run(EvtchnContextUp, EvtchnContextUnwind, EvtchnContextDown),
   range_set_context |-> Run(RangeSetContextUp, << >>, RangeSetContextDown),
   cache_context |-> Run(CacheContextUp, CacheContextUnwind, CacheContextDown),
   gnttab_context |-> Run(GnttabContextUp, GnttabContextUnwind, GnttabContextDown),
   store_context |-> Run(StoreContextUp, StoreContextUnwind, StoreContextDown),
   console_context |-> Run(ConsoleContextUp, << >>, ConsoleContextDown),
   unplug_context |-> Run(UnplugContextUp, << >>, UnplugContextDown),
   balloon_context |-> Run(BalloonContextUp, BalloonContextUnwind, BalloonContextDown),
   contexts_of_the_fdo |-> Run(FdoContextsUp, FdoContextsUnwind, FdoContextsDown),
   \* the drivers and their parts
   xen |-> Run(XenUp, XenUnwind, XenDown),
   log |-> Run(LogUp, << >>, LogDown),
   system |-> Run(SystemUp, SystemUnwind, SystemDown),
   processor_change |-> Run(ProcessorChangeUp, ProcessorChangeUnwind, ProcessorChangeDown),
   module |-> Run(ModuleUp, ModuleUnwind, ModuleDown),
   process |-> Run(ProcessUp, << >>, ProcessDown),
   bug_check |-> Run(BugCheckUp, << >>, BugCheckDown),
   unplug_requests |-> Run(UnplugRequestsUp, << >>, UnplugRequestsDown),
   xenbus |-> Run(XenbusUp, XenbusUnwind, XenbusDown),
   xenfilt |-> Run(XenfiltUp, XenfiltUnwind, XenfiltDown),
   emulated_context |-> Run(EmulatedContextUp, << >>, EmulatedContextDown)]
(* The interfaces. *)
Counted == {"debug", "suspend", "range_set", "cache", "gnttab", "shared_info", "evtchn", "evtchn_two_level",
            "evtchn_fifo", "store", "console", "balloon", "unplug"}

(* xGetInterface of a context copies its interface: the context must exist. *)
Copies ==
  [debug_interface |-> "debug_context",
   suspend_interface |-> "suspend_context",
   shared_info_interface |-> "shared_info_context",
   evtchn_interface |-> "evtchn_context",
   range_set_interface |-> "range_set_context",
   cache_interface |-> "cache_context",
   gnttab_interface |-> "gnttab_context",
   store_interface |-> "store_context",
   emulated_interface |-> "emulated_context"]

(* Steps that can fail and hold nothing. *)
Probes == {"start_options", "version", "processor_status", "buffer_size", "query", "touch"}
(* What a function leaves in static memory when it fails, and SystemTeardown *)
(* of the time zone: nobody gives it back, and nobody needs to.              *)
Residue == {"maximum_address", "universal_time", "cursor"}
(* The last Release of an interface is a BUG while somebody has these from it. *)
Registered == [suspend |-> {"early", "late"}, debug |-> {"report"}, range_set |-> {"ranges"},
               evtchn |-> {"channel"}]
Outstanding(n) == n \in DOMAIN Registered /\ \E m \in DOMAIN held : held[m] \cap Registered[n] # {}

\* The ladders that can be met from Top: interfaces acquire each other, contexts and
\* drivers create each other.
Needed(top) ==
  UNION {IF n \in Counted THEN Counted ELSE DOMAIN Ladders \ Counted : n \in top}

LadderInit ==
  /\ Top \in Tops
  /\ refs = [n \in Needed(Top) |-> 0]
  /\ lock = [n \in Needed(Top) \cap Counted |-> "free"]
  /\ held = [n \in Needed(Top) |-> {}]
  /\ abi = "none" /\ fifo \in IF Top \cap Counted # {} THEN BOOLEAN ELSE {FALSE}
  /\ frames = [t \in Climber |-> << >>]
  /\ owned = [t \in Climber |-> {}]
  /\ broken = FALSE

Activation(n, way, at) == [of |-> n, way |-> way, at |-> at]
Inner(t) == frames[t][Len(frames[t])]
Outer(t) == SubSeq(frames[t], 1, Len(frames[t]) - 1)
Table(f) == CASE f.way = "up" -> Ladders[f.of].up
              [] f.way = "unwind" -> Ladders[f.of].unwind
              [] f.way = "down" -> Ladders[f.of].down
Ended(f) == f.at > Len(Table(f))
Rung(f) == Table(f)[f.at]
What(f) == CASE f.way = "up" -> Rung(f)[1] [] f.way = "unwind" -> Rung(f)[2] [] f.way = "down" -> Rung(f)
FailLabel(f) == Rung(f)[2]
Beyond(f) == [f EXCEPT !.at = @ + 1]

(* goto failN: labels with nothing to give back fall through to the next. *)
GoTo(f, n) ==
  LET u == Ladders[f.of].unwind
      reached == {k \in DOMAIN u : u[k][1] <= n}
  IN Activation(f.of, "unwind", IF reached = {} THEN Len(u) + 1 ELSE CHOOSE k \in reached : \A j \in reached : k <= j)

(* The entry of a function: lock, count, and goto done unless it is the first *)
(* or the last reference.                                                     *)
Enter(t, n, way, outer) ==
  LET first == IF way = "up" THEN refs[n] = 0 ELSE refs[n] = 1
  IN /\ n \in Counted => lock[n] = "free"
     /\ lock' = IF n \in Counted THEN [lock EXCEPT ![n] = t] ELSE lock
     /\ refs' = [refs EXCEPT ![n] = IF way = "up" THEN @ + 1 ELSE @ - 1]
     /\ frames' = [frames EXCEPT ![t] = Append(outer, Activation(n, way,
                     IF first THEN 1 ELSE Len(Table(Activation(n, way, 1))) + 1))]
     /\ broken' = (broken \/ (way = "down" /\ refs[n] = 0) \/ (~first /\ n \notin Counted)
                          \/ (way = "down" /\ first /\ Outstanding(n)))

(* A client acquires something of Top, or releases what it has; contexts and  *)
(* drivers are created once, by one thread.                                   *)
Client(t) ==
  /\ frames[t] = << >>
  /\ UNCHANGED <<held, abi, fifo, owned>>
  /\ \E n \in Top :
       /\ n \in Counted \/ \A u \in Climber : frames[u] = << >> /\ owned[u] \subseteq owned[t]
       /\ \/ n \notin owned[t] /\ Enter(t, n, "up", << >>)
          \/ n \in owned[t] /\ Enter(t, n, "down", << >>)

(* One thing of the function's own is taken; FailStep is its failure. *)
TakeStep(t) ==
  LET f == Inner(t) w == What(f)
  IN /\ frames[t] # << >> /\ ~Ended(f) /\ f.way = "up"
     /\ w \notin DOMAIN Ladders /\ w # "abi"
     /\ UNCHANGED <<refs, lock, abi, fifo, owned>>
     /\ frames' = [frames EXCEPT ![t] = Append(Outer(t), Beyond(f))]
     /\ CASE FailLabel(f) = Give -> /\ held' = [held EXCEPT ![f.of] = @ \ {w}]
                                  /\ broken' = (broken \/ w \notin held[f.of])
          [] FailLabel(f) = Maybe -> /\ \E x \in {{}, {w}} : held' = [held EXCEPT ![f.of] = @ \cup x]
                                   /\ UNCHANGED broken
          [] w \in Probes -> UNCHANGED <<held, broken>>
          [] OTHER -> /\ held' = [held EXCEPT ![f.of] = @ \cup {w}]
                      /\ broken' = (broken \/ w \in held[f.of] \ Residue
                                          \/ (w \in DOMAIN Copies /\ refs[Copies[w]] = 0))

FailStep(t) ==
  LET f == Inner(t)
  IN /\ frames[t] # << >> /\ ~Ended(f) /\ f.way = "up"
     /\ What(f) \notin DOMAIN Ladders /\ What(f) # "abi"
     /\ UNCHANGED <<refs, lock, held, abi, fifo, owned, broken>>
     /\ FailLabel(f) \in 1 .. 96 \/ (FailLabel(f) = Done /\ TouchFails)
     /\ frames' = [frames EXCEPT ![t] = Append(Outer(t),
          IF FailLabel(f) = Done THEN Activation(f.of, "up", Len(Table(f)) + 1) ELSE GoTo(f, FailLabel(f)))]

(* A call of the function of another ladder.  EvtchnAbiAcquire tries the FIFO *)
(* ABI first when it may use it.                                             *)
Callee(f) == IF What(f) # "abi" THEN What(f)
             ELSE IF abi # "none" THEN abi
             ELSE IF fifo THEN "evtchn_fifo" ELSE "evtchn_two_level"
Call(t) ==
  LET f == Inner(t)
  IN /\ frames[t] # << >> /\ ~Ended(f)
     /\ What(f) \in (DOMAIN Ladders) \cup {"abi"}
     /\ UNCHANGED <<held, fifo, owned>>
     /\ abi' = IF What(f) = "abi" THEN Callee(f) ELSE abi
     /\ Enter(t, Callee(f), IF f.way = "up" THEN "up" ELSE "down", frames[t])

(* Something of its own is given back. *)
Optional == {"print_callback"}
DropStep(t) ==
  LET f == Inner(t) w == What(f)
  IN /\ frames[t] # << >> /\ ~Ended(f) /\ f.way # "up"
     /\ w \notin DOMAIN Ladders /\ w # "abi"
     /\ UNCHANGED <<refs, lock, abi, fifo, owned>>
     /\ frames' = [frames EXCEPT ![t] = Append(Outer(t), Beyond(f))]
     /\ held' = [held EXCEPT ![f.of] = @ \ {w}]
     /\ broken' = (broken \/ w \notin held[f.of] \cup Optional)

(* The end of a function and what its caller makes of it; an Acquire that    *)
(* failed takes its reference back.  When the FIFO ABI cannot be acquired    *)
(* the two-level one is tried next.                                          *)
Return(t) ==
  LET f == Inner(t)
      n == f.of
      failed == f.way = "unwind"
      caller == Outer(t)[Len(Outer(t))]
      rest == SubSeq(Outer(t), 1, Len(Outer(t)) - 1)
      retry == failed /\ n = "evtchn_fifo"
  IN /\ frames[t] # << >> /\ Ended(f)
     /\ UNCHANGED <<fifo, broken>>
     /\ lock' = IF n \in Counted THEN [lock EXCEPT ![n] = "free"] ELSE lock
     /\ refs' = IF failed THEN [refs EXCEPT ![n] = @ - 1] ELSE refs
     /\ abi' = CASE retry -> "evtchn_two_level"
               [] n = abi /\ ~retry /\ (failed \/ f.way = "down") -> "none"
               [] OTHER -> abi
     /\ IF Outer(t) = << >>
        THEN /\ frames' = [frames EXCEPT ![t] = << >>]
             /\ owned' = [owned EXCEPT ![t] = IF f.way = "up" THEN @ \cup {n} ELSE @ \ {n}]
             /\ UNCHANGED held
        ELSE /\ UNCHANGED owned
             /\ frames' = [frames EXCEPT ![t] =
                  CASE retry -> Outer(t)
                    [] failed /\ ~retry -> Append(rest, GoTo(caller, FailLabel(caller)))
                    [] ~failed -> Append(rest, Beyond(caller))]
             /\ held' = CASE failed -> held
                       [] f.way = "up" -> [held EXCEPT ![caller.of] = @ \cup {What(caller)}]
                       [] f.way = "down" -> [held EXCEPT ![caller.of] = @ \ {What(caller)}]

LadderNext ==
  /\ UNCHANGED Top
  /\ \E t \in Climber :
       Client(t) \/ TakeStep(t) \/ FailStep(t) \/ Call(t) \/ DropStep(t) \/ Return(t)

---------------------------------------------------------------------------
(* Whatever fails on the way up, and whoever releases what in which order:   *)
(* nothing is taken twice, given back twice or missing when it is given back, *)
(* and when no thread is inside a ladder it is held whole or not at all, by   *)
(* as many references as there are holders.                                  *)
AllOf(n) ==
  LET up == Ladders[n].up
  IN {up[k][1] : k \in {j \in DOMAIN up : up[j][2] # Maybe}} \
     {up[k][1] : k \in {j \in DOMAIN up : up[j][2] = Give}}
Inside(n) == \E t \in Climber : \E k \in DOMAIN frames[t] : frames[t][k].of = n
Holders(n) == Cardinality({t \in Climber : n \in owned[t]})
            + Cardinality({m \in DOMAIN held : n \in held[m] \/ ("abi" \in held[m] /\ abi = n)})
Balanced ==
  /\ ~broken
  /\ \A n \in DOMAIN held : Inside(n) \/
       /\ refs[n] = 0 => held[n] \ Residue = {}
       /\ refs[n] > 0 => AllOf(n) \ (held[n] \cup Probes) = {}
  /\ (\A t \in Climber : frames[t] = << >>) => \A n \in DOMAIN held : refs[n] = Holders(n)

(* A debug callback may run on another processor in the middle of an Acquire *)
(* or a Release, without the lock of the interface: while it is registered,  *)
(* the memory it prints is there.                                            *)
Prints == [store |-> {"address", "shared"}, console |-> {"address", "shared"},
           gnttab |-> {"frame"}, shared_info |-> {"page"}]
ReportSafe == \A n \in DOMAIN Prints \cap DOMAIN held : "report" \in held[n] => Prints[n] \subseteq held[n]

(* The locks of interfaces that acquire each other are taken while others are *)
(* held: no two threads wait for each other.                                 *)
NoDeadlock ==
  (\E t \in Climber : frames[t] # << >>) =>
    \E t \in Climber : frames[t] # << >> /\
      (Ended(Inner(t)) \/ Callee(Inner(t)) \notin Counted \/ lock[Callee(Inner(t))] = "free")

(* A failure at any point of any of these functions is undone exactly, the   *)
(* debug callbacks never print what is gone, and the locks cannot deadlock.  *)
LadderInv == Balanced /\ ReportSafe /\ NoDeadlock
=============================================================================
