------------------------------- MODULE Filter -------------------------------
(***************************************************************************)
(* The filter driver xenfilt: it sits on the emulated buses, above the bus *)
(* (fdo.c) and above each of its devices (pdo.c), and hides the devices    *)
(* until all buses have been enumerated and the emulated devices that have *)
(* PV replacements have been unplugged (driver.c, emulated.c).             *)
(*                                                                         *)
(* Requests to a bus and to its devices come one after the other; buses    *)
(* are independent of each other unless oneBus says that the PnP manager   *)
(* enumerates one at a time.                                               *)
(***************************************************************************)
EXTENDS Naturals, FiniteSets

CONSTANTS
  Bus,          \* physical device objects of the emulated buses
  Device,       \* device objects that they report
  BusOf,        \* the bus of each device
  Emulated,     \* devices that an unplug request removes
  ActiveID,     \* devices that the registry names as active
  Precedence,   \* precedence of each device in the registry, 0 without one
  SafeMode,
  MaxRequests   \* bound on PnP requests to what is started, power requests, and
                \* devices that leave

ASSUME FilterAssumption ==
  /\ IsFiniteSet(Bus) /\ IsFiniteSet(Device) /\ BusOf \in [Device -> Bus]
  /\ Emulated \subseteq Device /\ ActiveID \subseteq Device
  /\ Precedence \in [Device -> Nat] /\ SafeMode \in BOOLEAN
  /\ MaxRequests \in Nat

VARIABLES
  FilterState, unplugged,  \* Driver.FilterState; UnplugDevices was called
  bus, device,             \* device extensions
  query,                   \* each bus: the FdoQueryDeviceRelations in progress
  onBus,                   \* devices that the lower driver reports
  invalid, failed,         \* buses to be queried again; those whose last query
                           \* failed or left the list unread
  ejecting,                \* devices in PdoEject, with the mutex released
  oneBus, requests,        \* frozen; the number of those that count
  violated                 \* an ASSERT failed

filterVars == <<FilterState, unplugged, bus, device, query, onBus, invalid, failed,
                ejecting, oneBus, requests, violated>>
driverVars  == <<FilterState, unplugged>>
relationVars == <<query, invalid, failed>>

NoDx  == [pnp |-> "None", prev |-> "None", power |-> "D3", system |-> "S0"]
NoBus == [dx |-> NoDx, references |-> 0, enumerated |-> FALSE]
NoDevice == [dx |-> NoDx, missing |-> FALSE, object |-> FALSE, active |-> "neutral", known |-> FALSE]

Attached == {b \in Bus : bus[b].dx.pnp # "None"}             \* Driver.List
Children(b) == {d \in Device : BusOf[d] = b /\ device[d].dx.pnp # "None"}   \* Fdo->List

FilterInit ==
  /\ FilterState = "ENABLED" /\ unplugged = FALSE
  /\ bus = [b \in Bus |-> NoBus] /\ device = [d \in Device |-> NoDevice]
  /\ query = [b \in Bus |-> [at |-> "idle", found |-> {}]]
  /\ onBus = Device /\ invalid = {} /\ failed = {} /\ ejecting = {}
  /\ oneBus \in BOOLEAN /\ requests = 0 /\ violated = FALSE

---------------------------------------------------------------------------
(* States of a device extension: __FdoSetDevicePnpState and the like, and   *)
(* what each request makes of it.  fdo.c and pdo.c have the same functions. *)
SetPnp(dx, state)     == [dx EXCEPT !.prev = dx.pnp, !.pnp = state]
RestorePnp(dx, state) == IF dx.pnp = state THEN [dx EXCEPT !.pnp = dx.prev] ELSE dx
StartDevice(dx)       == SetPnp([dx EXCEPT !.power = "D0"], "Started")
StopDevice(dx)        == SetPnp([dx EXCEPT !.power = "D3"], "Stopped")

\* Requests that both kinds answer alike, with the states they are sent in.
StopRequests(dx) ==
  {[on |-> {"Enumerated", "Added", "Stopped"}, dx |-> StartDevice(dx)],
   [on |-> {"Started"}, dx |-> SetPnp(dx, "StopPending")],
   [on |-> {"StopPending"}, dx |-> RestorePnp(dx, "StopPending")],
   [on |-> {"StopPending"}, dx |-> StopDevice(dx)]}
RemoveRequests(dx) ==
  {[on |-> {"Started"}, dx |-> SetPnp(dx, "RemovePending")],
   [on |-> {"RemovePending"}, dx |-> RestorePnp(dx, "RemovePending")],
   [on |-> {"Started", "Stopped"}, dx |-> SetPnp(dx, "SurpriseRemovePending")]}

\* Only requests to what is started count, and not those to a device that went.
Counts(dx) == IF dx.pnp # "Started" THEN UNCHANGED requests
              ELSE requests < MaxRequests /\ requests' = requests + 1
Busy(b) == query[b].at # "idle" \/ \E d \in ejecting : BusOf[d] = b

---------------------------------------------------------------------------
(* The bus. *)

\* DriverAddDevice.  When FdoCreate fails, or the bus is of no known type, there
\* is no filter.
FdoCreate == [NoBus EXCEPT !.dx.pnp = "Added", !.references = 1]
DriverAddDevice(b) ==
  /\ bus[b].dx.pnp = "None"
  /\ bus' = [bus EXCEPT ![b] = FdoCreate]
  /\ UNCHANGED <<driverVars, device, relationVars, onBus, ejecting, oneBus, requests, violated>>

FdoDispatchStop(b) ==
  /\ ~Busy(b) /\ bus[b].dx.system = "S0" /\ Counts(bus[b].dx)
  /\ \E r \in StopRequests(bus[b].dx) :
       /\ bus[b].dx.pnp \in r.on
       /\ bus' = [bus EXCEPT ![b].dx = r.dx]
       /\ invalid' = IF r.dx.pnp = "Started" /\ bus[b].dx.pnp \in {"Added", "Stopped"}
                     THEN invalid \cup {b} ELSE invalid
  /\ UNCHANGED <<driverVars, device, query, failed, onBus, ejecting, oneBus, violated>>

FdoDispatchRemove(b) ==
  /\ ~Busy(b) /\ bus[b].dx.system = "S0" /\ Counts(bus[b].dx)
  /\ \E r \in RemoveRequests(bus[b].dx) :
       bus[b].dx.pnp \in r.on /\ bus' = [bus EXCEPT ![b].dx = r.dx]
  /\ UNCHANGED <<driverVars, device, relationVars, onBus, ejecting, oneBus, violated>>

\* PdoDestroy of the devices in gone, which must be missing and Deleted.
PdoDestroy(gone, d) == IF d \in gone THEN NoDevice ELSE device[d]

\* FdoRemoveDevice: the devices go with a bus that was started.  A bus that
\* was not is destroyed with the last of its devices.
FdoRemoveDevice(b) ==
  LET dx == bus[b].dx
      gone == IF dx.prev = "Started" THEN Children(b) ELSE {}
      left == bus[b].references - Cardinality(gone) - 1
      power == IF dx.prev = "Started" THEN "D3" ELSE dx.power
  IN /\ ~Busy(b) /\ dx.pnp \in {"Added", "RemovePending", "SurpriseRemovePending"}
     /\ dx.system = "S0"
     /\ \A d \in Children(b) : device[d].dx.pnp \in {"Present", "Enumerated", "Deleted"}
     /\ device' = [d \in Device |-> PdoDestroy(gone, d)]
     /\ bus' = [bus EXCEPT ![b] = IF left = 0 THEN NoBus
                  ELSE [@ EXCEPT !.dx = SetPnp([dx EXCEPT !.power = power], "Deleted"), !.references = left]]
     /\ violated' = (violated \/ (left = 0 /\ power # "D3"))
     /\ invalid' = invalid \ {b} /\ failed' = IF left = 0 THEN failed \ {b} ELSE failed
     /\ UNCHANGED <<driverVars, query, onBus, ejecting, oneBus, requests>>

---------------------------------------------------------------------------
(* FdoQueryDeviceRelations.                                                *)

\* The lower driver answers first, before the mutex of the bus is taken.
FdoQueryDeviceRelations(b) ==
  /\ b \in invalid /\ ~Busy(b) /\ bus[b].dx.pnp = "Started"
  /\ oneBus => \A c \in Bus : query[c].at = "idle"
  /\ query' = [query EXCEPT ![b] = [at |-> "lower", found |-> {d \in onBus : BusOf[d] = b}]]
  /\ invalid' = invalid \ {b}
  /\ UNCHANGED <<driverVars, bus, device, failed, onBus, ejecting, oneBus, requests, violated>>

\* DriverGetPrecedence: of the new devices the one of highest precedence is
\* activated and the others deactivated.
Highest(new) == {d \in new : Precedence[d] > 0 /\ \A e \in new : Precedence[e] <= Precedence[d]}
PdoSetDeviceInformation(d, new) ==
  IF Highest(new) = {} THEN IF d \in ActiveID THEN "registry" ELSE "neutral"
  ELSE IF d \in Highest(new) THEN "forced" ELSE "deactivated"

\* PdoCreate, with its object in the emulated context.
EmulatedAddObject(dev) == [dev EXCEPT !.object = TRUE]
PdoCreate(d, new) ==
  EmulatedAddObject([NoDevice EXCEPT !.dx.pnp = "Present", !.active = PdoSetDeviceInformation(d, new)])

\* FdoEnumerate: devices that disappeared are missing, or destroyed if nobody
\* was told of them; new ones get a PdoCreate, which may fail.  A list without
\* devices is not looked at, nor is any list when its copy cannot be allocated.
FdoEnumerate(b) ==
  LET found == query[b].found
      seen == {d \in Children(b) : ~device[d].missing /\ device[d].dx.pnp # "Deleted"}
      lost == seen \ found
      unknown == {d \in lost : device[d].dx.pnp = "Present"}
      new == found \ seen
  IN /\ query[b].at = "lower" /\ found # {}
     /\ \E made \in SUBSET new :
          /\ device' = [d \in Device |->
               IF d \in made THEN PdoCreate(d, new)
               ELSE IF d \in lost \ unknown THEN [device[d] EXCEPT !.missing = TRUE]
               ELSE PdoDestroy(unknown, d)]
          /\ bus' = [bus EXCEPT ![b].references = @ + Cardinality(made) - Cardinality(unknown),
                                ![b].enumerated = TRUE]
     /\ query' = [query EXCEPT ![b].at = "enumerated"]
     /\ failed' = failed \ {b}
     /\ violated' = (violated \/ \E d \in new : device[d].dx.pnp # "None")
     /\ UNCHANGED <<driverVars, invalid, onBus, ejecting, oneBus, requests>>

FdoEnumerateNothing(b) ==
  /\ query[b].at = "lower"
  /\ query' = [query EXCEPT ![b].at = "set"]
  /\ failed' = failed \cup {b}
  /\ UNCHANGED <<driverVars, bus, device, invalid, onBus, ejecting, oneBus, requests, violated>>

\* DriverIsActivePresent, by the objects in the emulated context.
DriverGetActive == ActiveID \cup {d \in Device : device[d].active = "forced"}
EmulatedIsDevicePresent(d) == device[d].object
DriverIsActivePresent == \E d \in DriverGetActive : EmulatedIsDevicePresent(d)

\* DriverSetFilterState, called at the end of FdoEnumerate: the last bus to be
\* enumerated unplugs, and the next enumeration of any bus opens the filter.
UnplugOnce ==
  IF DriverIsActivePresent /\ ~SafeMode
  THEN unplugged' = TRUE /\ onBus' = onBus \ Emulated
  ELSE UNCHANGED <<unplugged, onBus>>

\* Mutant: the filter opens with the unplug, not with the enumeration after it.
DriverSetFilterStateAtOnce ==
  CASE FilterState = "ENABLED" ->
         IF \A b \in Attached : bus[b].enumerated
         THEN FilterState' = "DISABLED" /\ UnplugOnce
         ELSE UNCHANGED <<driverVars, onBus>>
    [] OTHER -> UNCHANGED <<driverVars, onBus>>
DriverSetFilterState ==
  CASE FilterState = "ENABLED" ->
         IF \A b \in Attached : bus[b].enumerated
         THEN FilterState' = "PENDING" /\ UnplugOnce
         ELSE UNCHANGED <<driverVars, onBus>>
    [] FilterState = "PENDING" -> FilterState' = "DISABLED" /\ UNCHANGED <<unplugged, onBus>>
    [] FilterState = "DISABLED" -> UNCHANGED <<driverVars, onBus>>

FdoSetEnumerated(b) ==
  /\ query[b].at = "enumerated"
  /\ UNCHANGED <<bus, device, invalid, failed, ejecting, oneBus, requests, violated>>
  /\ query' = [query EXCEPT ![b].at = "set"]
  /\ DriverSetFilterState

\* The devices are reported through an open filter; before it opens the list is
\* empty and the bus is to be queried again.
FdoReportRelations(b) ==
  LET gone == {d \in Children(b) : device[d].missing /\ device[d].dx.pnp = "Deleted"}
  IN /\ query[b].at = "set"
     /\ query' = [query EXCEPT ![b] = [at |-> "idle", found |-> {}]]
     /\ IF FilterState = "DISABLED"
        THEN /\ device' = [d \in Device |->
                  IF d \in Children(b) /\ ~device[d].missing
                  THEN [device[d] EXCEPT !.known = TRUE,
                          !.dx = IF @.pnp = "Present" THEN SetPnp(@, "Enumerated") ELSE @]
                  ELSE PdoDestroy(gone, d)]
             /\ bus' = [bus EXCEPT ![b].references = @ - Cardinality(gone)]
             /\ UNCHANGED invalid
        ELSE invalid' = invalid \cup {b} /\ UNCHANGED <<bus, device>>
     /\ UNCHANGED <<driverVars, failed, onBus, ejecting, oneBus, requests, violated>>

\* fail2 and fail3: the lower driver failed, or there is no memory for the list.
FdoQueryFails(b) ==
  /\ query[b].at \in {"lower", "set"}
  /\ query' = [query EXCEPT ![b] = [at |-> "idle", found |-> {}]]
  /\ failed' = failed \cup {b}
  /\ UNCHANGED <<driverVars, bus, device, invalid, onBus, ejecting, oneBus, requests, violated>>

---------------------------------------------------------------------------
(* The devices.                                                            *)

PdoDispatchStop(d) ==
  /\ device[d].known /\ ~Busy(BusOf[d]) /\ device[d].dx.system = "S0" /\ Counts(device[d].dx)
  /\ \E r \in StopRequests(device[d].dx) :
       device[d].dx.pnp \in r.on /\ device' = [device EXCEPT ![d].dx = r.dx]
  /\ UNCHANGED <<driverVars, bus, relationVars, onBus, ejecting, oneBus, violated>>

PdoDispatchRemove(d) ==
  /\ device[d].known /\ ~Busy(BusOf[d]) /\ device[d].dx.system = "S0"
  /\ IF device[d].missing THEN UNCHANGED requests ELSE Counts(device[d].dx)
  /\ \E r \in RemoveRequests(device[d].dx) :
       device[d].dx.pnp \in r.on /\ device' = [device EXCEPT ![d].dx = r.dx]
  /\ UNCHANGED <<driverVars, bus, relationVars, onBus, ejecting, oneBus, violated>>

\* FdoReleaseMutex: the bus goes with its last reference.
FdoReleaseMutex(b, n) ==
  bus' = [bus EXCEPT ![b] = IF bus[b].references = n THEN NoBus
                            ELSE [bus[b] EXCEPT !.references = @ - n]]

\* PdoRemoveDevice: a missing device goes at once when it was surprise-removed,
\* or else when the bus is queried next; one that is there can be started again.
PdoRemoveDevice(d) ==
  LET dx == [device[d].dx EXCEPT !.power = "D3"]
      b == BusOf[d]
      now == device[d].missing /\ dx.pnp = "SurpriseRemovePending"
  IN /\ device[d].known /\ ~Busy(b) /\ dx.system = "S0"
     /\ dx.pnp \in {"Enumerated", "RemovePending", "SurpriseRemovePending"}
     /\ device' = [device EXCEPT ![d] =
          IF now THEN NoDevice
          ELSE [@ EXCEPT !.dx = SetPnp(dx, IF device[d].missing THEN "Deleted" ELSE "Enumerated"),
                         !.known = ~device[d].missing]]
     /\ IF now THEN FdoReleaseMutex(b, 1) ELSE UNCHANGED bus
     /\ invalid' = IF device[d].missing /\ ~now THEN invalid \cup {b} ELSE invalid
     /\ UNCHANGED <<driverVars, query, failed, onBus, ejecting, oneBus, requests, violated>>

\* PdoEject marks the device, forwards the request with the mutex released, and
\* destroys the device.
PdoEject(d) ==
  /\ device[d].known /\ ~Busy(BusOf[d]) /\ device[d].dx.pnp = "Enumerated"
  /\ device' = [device EXCEPT ![d].missing = TRUE, ![d].dx = SetPnp(@, "Deleted"), ![d].known = FALSE]
  /\ ejecting' = ejecting \cup {d}
  /\ UNCHANGED <<driverVars, bus, relationVars, onBus, oneBus, requests, violated>>

PdoEjected(d) ==
  /\ d \in ejecting
  /\ ejecting' = ejecting \ {d}
  /\ violated' = (violated \/ device[d].dx.pnp # "Deleted")
  /\ device' = [device EXCEPT ![d] = NoDevice]
  /\ FdoReleaseMutex(BusOf[d], 1)
  /\ UNCHANGED <<driverVars, relationVars, onBus, oneBus, requests>>

---------------------------------------------------------------------------
(* Power requests: the state is set when it differs, up after the lower    *)
(* driver and down before it.                                              *)
Powered(dx) == dx.pnp \in {"Started", "StopPending", "RemovePending"}

FdoDispatchPower(b) ==
  /\ requests < MaxRequests /\ ~Busy(b) /\ Powered(bus[b].dx)
  /\ requests' = requests + 1
  /\ UNCHANGED <<driverVars, device, relationVars, onBus, ejecting, oneBus, violated>>
FdoSetDevicePower(b) ==
  FdoDispatchPower(b) /\ \E state \in {"D0", "D3"} : bus' = [bus EXCEPT ![b].dx.power = state]
FdoSetSystemPower(b) ==
  FdoDispatchPower(b) /\ \E state \in {"S0", "S4"} : bus' = [bus EXCEPT ![b].dx.system = state]

PdoDispatchPower(d) ==
  /\ requests < MaxRequests /\ ~Busy(BusOf[d]) /\ Powered(device[d].dx)
  /\ requests' = requests + 1
  /\ UNCHANGED <<driverVars, bus, relationVars, onBus, ejecting, oneBus, violated>>
PdoSetDevicePower(d) ==
  PdoDispatchPower(d) /\ \E state \in {"D0", "D3"} : device' = [device EXCEPT ![d].dx.power = state]
PdoSetSystemPower(d) ==
  PdoDispatchPower(d) /\ \E state \in {"S0", "S4"} : device' = [device EXCEPT ![d].dx.system = state]

\* A device leaves the bus, or comes when nothing is left of its predecessor.
Hotplug(d) ==
  /\ bus[BusOf[d]].dx.pnp = "Started"
  /\ \/ d \in onBus /\ onBus' = onBus \ {d}
        /\ requests < MaxRequests /\ requests' = requests + 1
     \/ d \notin onBus \cup (IF unplugged THEN Emulated ELSE {})
        /\ device[d].dx.pnp = "None" /\ onBus' = onBus \cup {d} /\ UNCHANGED requests
  /\ invalid' = invalid \cup {BusOf[d]}
  /\ UNCHANGED <<driverVars, bus, device, query, failed, ejecting, oneBus, violated>>

FilterNext ==
  \/ \E b \in Bus : \/ DriverAddDevice(b) \/ FdoDispatchStop(b) \/ FdoDispatchRemove(b)
                    \/ FdoRemoveDevice(b)
                    \/ FdoQueryDeviceRelations(b) \/ FdoEnumerate(b) \/ FdoEnumerateNothing(b)
                    \/ FdoSetEnumerated(b) \/ FdoReportRelations(b) \/ FdoQueryFails(b)
                    \/ FdoSetDevicePower(b) \/ FdoSetSystemPower(b)
  \/ \E d \in Device : \/ PdoDispatchStop(d) \/ PdoDispatchRemove(d) \/ PdoRemoveDevice(d)
                       \/ PdoEject(d) \/ PdoEjected(d)
                       \/ PdoSetDevicePower(d) \/ PdoSetSystemPower(d) \/ Hotplug(d)

FilterSpec == FilterInit /\ [][FilterNext]_filterVars

---------------------------------------------------------------------------
(* Whatever the PnP manager does with buses and devices: a bus is kept by as *)
(* many references as it has devices on its list and itself, and no device   *)
(* or bus is destroyed in a state that the assertions of PdoDestroy and      *)
(* FdoDestroy exclude.                                                       *)
FilterReferences ==
  /\ ~violated
  /\ \A b \in Bus : bus[b].references =
       Cardinality(Children(b)) + (IF bus[b].dx.pnp \in {"None", "Deleted"} THEN 0 ELSE 1)

(* Nothing is reported before the filter is open.  While the PnP manager     *)
(* enumerates one bus at a time, an emulated device that was unplugged never  *)
(* stays reported, and until the filter opens a bus that was enumerated is    *)
(* queried again; both unless its last query failed, or FdoEnumerate was not  *)
(* called for want of devices or could not copy the list.                     *)
HiddenUntilUnplugged ==
  /\ FilterState # "DISABLED" => \A d \in Device : ~device[d].known
  /\ unplugged /\ oneBus => \A d \in Emulated : device[d].known /\ ~device[d].missing =>
       BusOf[d] \in invalid \cup failed \/ query[BusOf[d]].at # "idle"
  /\ FilterState # "DISABLED" => \A b \in Attached \ failed :
       bus[b].enumerated /\ bus[b].dx.pnp = "Started" => b \in invalid \/ query[b].at # "idle"

FilterInv == FilterReferences /\ HiddenUntilUnplugged
=============================================================================
