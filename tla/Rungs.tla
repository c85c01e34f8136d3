------------------------------- MODULE Rungs -------------------------------
(* What the functions of the driver take and give back, and in which order.  *)
(* They share one shape: a function takes things one after the other, each   *)
(* failure goes to a label failN, and from there the code falls through the  *)
(* labels below it; a second function gives everything back.  For each pair  *)
(* there are three tables, translated separately:                            *)
(*   Up       <<what, N>>: take it, at failure go to failN (0: cannot fail)  *)
(*   Unwind   <<N, what>>: what the code under label failN gives back        *)
(*   Down     what the opposite function gives back                          *)
(* In Up, Give means that the thing is given back again, Maybe that it may be *)
(* there or not, and Done that the function ends at once and succeeds.       *)
(* A thing is another interface or context, a callback registered with one,  *)
(* a copy of the interface of a context, or something of the function's own. *)
EXTENDS Naturals, Sequences

Give == 97
Maybe == 98
Done == 99

---------------------------------------------------------------------------
(* Acquire and Release of the interfaces: References++ and all of it under a *)
(* spin lock.                                                                *)
DebugUp == << <<"bugcheck_record", 1>> >>
DebugUnwind == << >>
DebugDown == <<"bugcheck_record">>

(* suspend.c, range_set.c and cache.c acquire alike. *)
ReporterUp == << <<"debug", 1>>, <<"report", 2>> >>
ReporterUnwind == << <<2, "debug">> >>
ReporterDown == <<"report", "debug">>

GnttabUp == << <<"maximum", 1>>, <<"frame", 2>>, <<"range_set", 3>>, <<"ranges", 4>>,
               <<"cache", 5>>, <<"suspend", 6>>, <<"early", 7>>, <<"debug", 8>>,
               <<"report", 9>>, <<"reserved", 10>> >>
GnttabUnwind == << <<10, "report">>, <<9, "debug">>, <<8, "early">>, <<7, "suspend">>,
                   <<6, "cache">>, <<5, "ranges">>, <<4, "range_set">>, <<3, "frame">>,
                   <<2, "maximum">> >>
GnttabDown == <<"report", "debug", "early", "suspend", "cache", "reserved", "ranges",
                "range_set", "frame", "maximum">>

SharedInfoUp == << <<"page", 1>>, <<"suspend", 2>>, <<"early", 3>>, <<"debug", 4>>,
                   <<"report", 5>>, <<"processors", 6>>, <<"vcpus", 7>> >>
SharedInfoUnwind == << <<7, "processors">>, <<6, "report">>, <<5, "debug">>,
                       <<4, "early">>, <<3, "suspend">>, <<2, "page">> >>
SharedInfoDown == <<"vcpus", "processors", "report", "debug", "early", "suspend", "page">>

EvtchnUp == << <<"suspend", 1>>, <<"early", 2>>, <<"late", 3>>, <<"debug", 4>>,
               <<"report", 5>>, <<"shared_info", 6>>, <<"abi", 7>>, <<"processors", 8>>,
               <<"interrupt", 9>> >>
\* Mutant: the early callback stays registered.
EvtchnUnwindOneShort == << <<9, "processors">>, <<8, "abi">>, <<7, "shared_info">>, <<6, "report">>,
                   <<5, "debug">>, <<4, "late">>, <<2, "suspend">> >>
EvtchnUnwind == << <<9, "processors">>, <<8, "abi">>, <<7, "shared_info">>, <<6, "report">>,
                   <<5, "debug">>, <<4, "late">>, <<3, "early">>, <<2, "suspend">> >>
EvtchnDown == <<"processors", "interrupt", "abi", "shared_info", "report", "debug",
                "late", "early", "suspend">>

(* fail1 gives back the reference that it did not get. *)
TwoLevelUp == << <<"shared_info", 1>> >>
TwoLevelUnwind == << <<1, "shared_info">> >>
TwoLevelDown == <<"shared_info">>
FifoUp == << <<"control_blocks", 1>> >>
FifoUnwind == << >>
FifoDown == <<"control_blocks">>

StoreUp == << <<"gnttab", 1>>, <<"address", 2>>, <<"shared", 3>>, <<"evtchn", 4>>,
              <<"channel", 0>>, <<"suspend", 5>>, <<"early", 6>>, <<"late", 7>>,
              <<"debug", 8>>, <<"report", 9>> >>
StoreUnwind == << <<9, "debug">>, <<8, "late">>, <<7, "early">>, <<6, "suspend">>,
                  <<5, "channel">>, <<5, "evtchn">>, <<4, "shared">>, <<3, "address">>,
                  <<2, "gnttab">> >>
StoreDown == <<"report", "debug", "late", "early", "suspend", "channel", "evtchn",
               "shared", "address", "gnttab">>

ConsoleUp == << <<"gnttab", 1>>, <<"address", 2>>, <<"shared", 3>>, <<"evtchn", 4>>,
                <<"channel", 5>>, <<"suspend", 6>>, <<"late", 7>>, <<"debug", 8>>,
                <<"report", 9>> >>
ConsoleUnwind == << <<9, "debug">>, <<8, "late">>, <<7, "suspend">>, <<6, "channel">>,
                    <<5, "evtchn">>, <<4, "shared">>, <<3, "address">>, <<2, "gnttab">> >>
ConsoleDown == <<"report", "debug", "late", "suspend", "channel", "evtchn", "shared",
                 "address", "gnttab">>

BalloonUp == << <<"range_set", 1>>, <<"ranges", 2>>, <<"store", 3>> >>
BalloonUnwind == << <<3, "ranges">>, <<2, "range_set">> >>
BalloonDown == <<"store", "ranges", "range_set">>

UnplugUp == << >>
UnplugUnwind == << >>
UnplugDown == << >>

---------------------------------------------------------------------------
(* Initialize and Teardown of the contexts behind the interfaces. *)
DebugContextUp == << <<"memory", 1>> >>
DebugContextDown == <<"memory">>
SuspendContextUp == << <<"memory", 1>>, <<"debug_interface", 0>> >>
SuspendContextDown == <<"debug_interface", "memory">>
SharedInfoContextUp == << <<"memory", 1>>, <<"suspend_interface", 0>>, <<"debug_interface", 0>> >>
SharedInfoContextDown == <<"debug_interface", "suspend_interface", "memory">>
TwoLevelContextUp == << <<"memory", 1>>, <<"shared_info_interface", 0>> >>
TwoLevelContextDown == <<"shared_info_interface", "memory">>
FifoContextUp == << <<"memory", 1>> >>
FifoContextDown == <<"memory">>
EvtchnContextUp == << <<"memory", 1>>, <<"table", 2>>, <<"two_level_context", 3>>,
  <<"fifo_context", 4>>, <<"suspend_interface", 0>>, <<"debug_interface", 0>>,
  <<"shared_info_interface", 0>> >>
EvtchnContextUnwind == << <<4, "two_level_context">>, <<3, "table">>, <<2, "memory">> >>
EvtchnContextDown == <<"shared_info_interface", "debug_interface", "suspend_interface",
  "fifo_context", "two_level_context", "table", "memory">>
RangeSetContextUp == << <<"memory", 1>>, <<"debug_interface", 0>> >>
RangeSetContextDown == <<"debug_interface", "memory">>
CacheContextUp == << <<"memory", 1>>, <<"debug_interface", 0>>, <<"monitor_thread", 2>> >>
CacheContextUnwind == << <<2, "debug_interface">>, <<2, "memory">> >>
CacheContextDown == <<"monitor_thread", "debug_interface", "memory">>
GnttabContextUp == << <<"memory", 1>>, <<"range_set_interface", 0>>, <<"cache_interface", 0>>,
  <<"suspend_interface", 0>>, <<"debug_interface", 0>>, <<"table", 2>> >>
(* The copies of the interfaces go with the memory. *)
GnttabContextUnwind == << <<2, "range_set_interface">>, <<2, "cache_interface">>,
  <<2, "suspend_interface">>, <<2, "debug_interface">>, <<2, "memory">> >>
GnttabContextDown == <<"table", "debug_interface", "suspend_interface", "cache_interface",
  "range_set_interface", "memory">>
StoreContextUp == << <<"memory", 1>>, <<"gnttab_interface", 0>>, <<"evtchn_interface", 0>>,
  <<"suspend_interface", 0>>, <<"debug_interface", 0>>, <<"watchdog_thread", 2>> >>
StoreContextUnwind == << <<2, "debug_interface">>, <<2, "suspend_interface">>,
  <<2, "evtchn_interface">>, <<2, "gnttab_interface">>, <<2, "memory">> >>
StoreContextDown == <<"watchdog_thread", "debug_interface", "suspend_interface",
  "evtchn_interface", "gnttab_interface", "memory">>
ConsoleContextUp == << <<"memory", 1>>, <<"gnttab_interface", 0>>, <<"evtchn_interface", 0>>,
  <<"suspend_interface", 0>>, <<"debug_interface", 0>> >>
ConsoleContextDown == <<"debug_interface", "suspend_interface", "evtchn_interface",
  "gnttab_interface", "memory">>
UnplugContextUp == << <<"memory", 1>> >>
UnplugContextDown == <<"memory">>
BalloonContextUp == << <<"memory", 1>>, <<"range_set_interface", 0>>, <<"store_interface", 0>>,
  <<"low_memory_event", 2>> >>
BalloonContextUnwind == << <<2, "store_interface">>, <<2, "range_set_interface">>, <<2, "memory">> >>
BalloonContextDown == <<"low_memory_event", "store_interface", "range_set_interface", "memory">>
(* The contexts in FdoCreate, from label fail11 on, and in FdoDestroy. *)
FdoContextsUp == << <<"debug_context", 11>>, <<"suspend_context", 12>>, <<"shared_info_context", 13>>,
  <<"evtchn_context", 14>>, <<"range_set_context", 15>>, <<"cache_context", 16>>,
  <<"gnttab_context", 17>>, <<"store_context", 18>>, <<"console_context", 19>>,
  <<"unplug_context", 20>>, <<"balloon_context", 21>> >>
FdoContextsUnwind == << <<21, "unplug_context">>, <<20, "console_context">>, <<19, "store_context">>,
  <<18, "gnttab_context">>, <<17, "cache_context">>, <<16, "range_set_context">>,
  <<15, "evtchn_context">>, <<14, "shared_info_context">>, <<13, "suspend_context">>,
  <<12, "debug_context">> >>
FdoContextsDown == <<"balloon_context", "unplug_context", "console_context", "store_context",
  "gnttab_context", "cache_context", "range_set_context", "evtchn_context",
  "shared_info_context", "suspend_context", "debug_context">>
---------------------------------------------------------------------------
(* The drivers: DllInitialize of xen and the parts it initializes. *)
XenUp == << <<"log", 1>>, <<"registry", 2>>, <<"service_key", 3>>, <<"parameters_key", 4>>,
  <<"dispositions", 0>>, <<"unplug_key", 5>>, <<"force_unplug_key", 6>>, <<"memory_key", 7>>,
  <<"hypercall", 8>>, <<"acpi", 9>>, <<"system", 10>>, <<"bug_check", 11>>, <<"module", 12>>,
  <<"process", 13>>, <<"unplug_requests", 14>>, <<"service_key", Give>> >>
XenUnwind == << <<14, "process">>, <<13, "module">>, <<12, "bug_check">>, <<11, "system">>,
  <<10, "acpi">>, <<9, "hypercall">>, <<8, "memory_key">>, <<7, "force_unplug_key">>,
  <<6, "unplug_key">>, <<5, "dispositions">>, <<5, "parameters_key">>, <<4, "service_key">>,
  <<3, "registry">>, <<2, "log">> >>
XenDown == <<"unplug_requests", "process", "module", "bug_check", "system", "acpi", "hypercall",
  "memory_key", "force_unplug_key", "unplug_key", "parameters_key", "registry",
  "dispositions", "log">>

LogUp == << <<"dpc", 0>>, <<"print_callback", Maybe>> >>
LogDown == <<"print_callback", "dpc">>

SystemUp == << <<"processors", 2>>, <<"start_options", 3>>, <<"version", 4>>,
  <<"maximum_address", 5>>, <<"madt", 6>>, <<"processor_change", 7>>, <<"power_callback", 8>>,
  <<"processor_status", 9>>, <<"universal_time", Maybe>> >>
SystemUnwind == << <<9, "power_callback">>, <<8, "processor_change">>, <<7, "madt">>,
  <<3, "processors">> >>
SystemDown == <<"power_callback", "processor_change", "madt", "maximum_address", "processors">>

ProcessorChangeUp == << <<"vcpu_pages", 1>>, <<"change_callback", 2>> >>
ProcessorChangeUnwind == << <<2, "vcpu_pages">> >>
ProcessorChangeDown == <<"change_callback", "vcpu_pages">>

ModuleUp == << <<"buffer_size", 2>>, <<"buffer", 4>>, <<"query", 5>>, <<"cursor", 0>>,
  <<"modules", 6>>, <<"load_notify", 7>>, <<"buffer", Give>> >>
ModuleUnwind == << <<7, "modules">>, <<5, "buffer">> >>
ModuleDown == <<"load_notify", "cursor", "modules">>

ProcessUp == << <<"process_notify", 2>> >>
ProcessDown == <<"process_notify">>
BugCheckUp == << <<"bugcheck_record", 1>> >>
BugCheckDown == <<"bugcheck_record">>
UnplugRequestsUp == << <<"requests", 0>> >>
UnplugRequestsDown == <<"requests">>

(* DriverEntry of xenbus: it goes on without a device when XenTouch fails. *)
XenbusUp == << <<"driver_object", 0>>, <<"registry", 1>>, <<"parameters_key", 2>>,
  <<"log_level", 0>>, <<"mutex_and_list", 0>> >>
XenbusUnwind == << <<2, "registry">>, <<1, "driver_object">> >>
XenbusDown == <<"mutex_and_list", "log_level", "parameters_key", "registry", "driver_object">>

(* DriverEntry of xenfilt. *)
XenfiltUp == << <<"driver_object", 0>>, <<"touch", Done>>, <<"registry", 1>>,
  <<"emulated_context", 2>>, <<"emulated_interface", 0>>, <<"mutex_and_list", 0>> >>
XenfiltUnwind == << <<2, "registry">>, <<1, "driver_object">> >>
XenfiltDown == <<"mutex_and_list", "emulated_interface", "emulated_context", "registry",
  "driver_object">>
EmulatedContextUp == << <<"memory", 1>> >>
EmulatedContextDown == <<"memory">>
=============================================================================
