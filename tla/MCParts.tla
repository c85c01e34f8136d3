------------------------------ MODULE MCParts ------------------------------
(* The components that the rest is built on, one per behaviour: part says    *)
(* which, and the variables of all others stay as they are.                  *)
EXTENDS RangeSet, Cache, Gnttab, Balloon, Hole, SharedInfo,
        Ladder, Filter, Console, Unplug, Debug, Modules, Vcpu

VARIABLE part

resourceVars == <<rsVars, cacheVars, gtVars, balloonVars, holeVars, sharedVars>>
serviceVars  == <<ladderVars, filterVars, consoleVars>>
xenVars      == <<unplugVars, debugVars, moduleVars, vcpuVars>>

Init ==
  /\ part \in {"range_set", "cache", "gnttab", "balloon", "hole", "shared_info",
               "ladder", "filter", "console", "unplug", "debug", "modules", "vcpu"}
  /\ RangeSetCreate /\ CacheInit /\ GnttabInit /\ BalloonInit /\ HoleInit /\ SharedInfoInit
  /\ LadderInit /\ (part # "ladder" <=> Top = {})
  /\ FilterInit /\ (part # "filter" => oneBus)
  /\ ConsoleInit /\ UnplugInit /\ DebugInit /\ ModuleInit /\ VcpuInit

Next ==
  /\ UNCHANGED part
  /\ \/ /\ UNCHANGED <<serviceVars, xenVars>>
        /\ \/ part = "range_set" /\ RangeSetNext
              /\ UNCHANGED <<cacheVars, gtVars, balloonVars, holeVars, sharedVars>>
           \/ part = "cache" /\ CacheNext
              /\ UNCHANGED <<rsVars, gtVars, balloonVars, holeVars, sharedVars>>
           \/ part = "gnttab" /\ GnttabNext
              /\ UNCHANGED <<rsVars, cacheVars, balloonVars, holeVars, sharedVars>>
           \/ part = "balloon" /\ BalloonNext
              /\ UNCHANGED <<rsVars, cacheVars, gtVars, holeVars, sharedVars>>
           \/ part = "hole" /\ HoleNext
              /\ UNCHANGED <<rsVars, cacheVars, gtVars, balloonVars, sharedVars>>
           \/ part = "shared_info" /\ SharedInfoNext
              /\ UNCHANGED <<rsVars, cacheVars, gtVars, balloonVars, holeVars>>
     \/ /\ UNCHANGED <<resourceVars, xenVars>>
        /\ \/ part = "ladder" /\ LadderNext /\ UNCHANGED <<filterVars, consoleVars>>
           \/ part = "filter" /\ FilterNext /\ UNCHANGED <<ladderVars, consoleVars>>
           \/ part = "console" /\ ConsoleNext /\ UNCHANGED <<ladderVars, filterVars>>
     \/ /\ UNCHANGED <<resourceVars, serviceVars>>
        /\ \/ part = "unplug" /\ UnplugNext /\ UNCHANGED <<debugVars, moduleVars, vcpuVars>>
           \/ part = "debug" /\ DebugNext /\ UNCHANGED <<unplugVars, moduleVars, vcpuVars>>
           \/ part = "modules" /\ ModuleNext /\ UNCHANGED <<unplugVars, debugVars, vcpuVars>>
           \/ part = "vcpu" /\ VcpuNext /\ UNCHANGED <<unplugVars, debugVars, moduleVars>>

Spec == Init /\ [][Next]_<<part, resourceVars, serviceVars, xenVars>>

BalloonPfns == {1, 2, 4}
AllTops == {{}, {"store", "balloon"}, {"console"}, {"evtchn", "gnttab", "store"},
            {"contexts_of_the_fdo"}, {"xen"}, {"xenbus"}, {"xenfilt"}}

\* The heap sort of the page array, on all orders of up to five pages.
ASSUME BalloonSorts ==
  \A n \in 1 .. 5 : \A s \in SetToSeqs(1 .. n) : BalloonSort(s) = [i \in 1 .. n |-> i]

TheBus == [d \in {"disk", "net", "cd"} |-> IF d = "cd" THEN "ide" ELSE "pci"]
NoPrecedence == [d \in {"disk", "net", "cd"} |-> 0]
Types == [d \in {"vbd1", "vbd2", "vif"} |-> IF d = "vif" THEN "nics" ELSE "disks"]
=============================================================================
