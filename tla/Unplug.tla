------------------------------- MODULE Unplug -------------------------------
(***************************************************************************)
(* Requests to unplug the emulated disks and NICs (xen/unplug.c, asked for *)
(* through xenbus/unplug.c).  A PV driver asks during one boot; the count  *)
(* of requests is in the registry, and the next boot reads it, deletes it, *)
(* and unplugs.  If that boot crashes before the drivers ask again, the    *)
(* boot after it has its emulated devices.                                 *)
(***************************************************************************)
EXTENDS Integers, FiniteSets

CONSTANTS
  PvDriver,     \* drivers that ask
  Wants,        \* the type of device each of them replaces
  Forced,       \* types with a value in the ForceUnplug key
  MaxBoots      \* bound on boots

UnplugType == {"disks", "nics"}
ASSUME UnplugAssumption ==
  /\ IsFiniteSet(PvDriver) /\ Wants \in [PvDriver -> UnplugType]
  /\ Forced \subseteq UnplugType /\ MaxBoots \in Nat

VARIABLES
  value,      \* the Unplug key: a count, or absent; it outlives a crash
  Request,    \* Context->Request
  starting,   \* types whose UnplugSetRequest is still to come
  deciding,   \* the type in UnplugSetRequest, and whether to unplug it
  gone,       \* types that were unplugged
  owners,     \* drivers that asked since value was read and did not withdraw, or
              \* whose withdrawal could not be written
  given,    \* the owners at that moment
  boots

unplugVars == <<value, Request, starting, deciding, gone, owners, given, boots>>
bootVars == <<Request, starting, deciding, given, boots>>

Absent == -1
NoDecision == [type |-> "none", on |-> FALSE]
Of(drivers, t) == {d \in drivers : Wants[d] = t}

UnplugInit ==
  /\ value = [t \in UnplugType |-> Absent] /\ Request = [t \in UnplugType |-> FALSE]
  /\ starting = UnplugType /\ deciding = NoDecision /\ gone = {}
  /\ owners = {} /\ given = {} /\ boots = 1

---------------------------------------------------------------------------
(* UnplugSetRequest: first the values are read; UnplugCheckEnumKey looks    *)
(* whether there is a PV device of the type, found, on the bus.            *)
UnplugReadRequest(t, found) ==
  /\ t \in starting /\ deciding = NoDecision
  /\ UNCHANGED <<value, Request, gone, given, boots>>
  /\ owners' = IF value[t] = Absent THEN owners \ Of(owners, t) ELSE owners
  /\ starting' = starting \ {t}
  /\ deciding' = IF t \notin Forced /\ value[t] = Absent THEN NoDecision
                 ELSE [type |-> t, on |-> t \in Forced \/ (value[t] # 0 /\ found)]

\* The value is deleted before the request is set.
UnplugSetRequest ==
  LET t == deciding.type
  IN /\ deciding # NoDecision
     /\ deciding' = NoDecision
     /\ value' = [value EXCEPT ![t] = Absent]
     /\ Request' = [Request EXCEPT ![t] = deciding.on]
     /\ given' = given \cup Of(owners, t) /\ owners' = owners \ Of(owners, t)
     /\ UNCHANGED <<starting, gone, boots>>

Started == starting = {} /\ deciding = NoDecision

\* UnplugIncrementValue.  That the update of the registry fails is not told to
\* the driver.
UnplugIncrementValue(t, succeeds) ==
  value' = IF succeeds THEN [value EXCEPT ![t] = IF @ = Absent THEN 1 ELSE @ + 1] ELSE value

\* Mutant: the count is not checked, and it is an unsigned number.
UnplugDecrementUnchecked(t, succeeds) ==
  value' = IF succeeds /\ value[t] # Absent THEN [value EXCEPT ![t] = (@ - 1) % 16] ELSE value
UnplugDecrementValue(t, succeeds) ==
  value' = IF succeeds /\ value[t] > 0 THEN [value EXCEPT ![t] = @ - 1] ELSE value

\* UnplugRequest of the interface, by a driver that starts (Make) and by one
\* that is removed.
UnplugRequest(d, Make) ==
  /\ Started
  /\ Make <=> d \notin owners
  /\ \E succeeds \in BOOLEAN :
       \/ Make /\ UnplugIncrementValue(Wants[d], succeeds) /\ owners' = owners \cup {d}
       \/ ~Make /\ UnplugDecrementValue(Wants[d], succeeds)
              /\ owners' = IF succeeds THEN owners \ {d} ELSE owners
  /\ UNCHANGED <<bootVars, gone>>

\* UnplugDevices with UnplugDeviceType: from the filter driver, once.
UnplugDevices ==
  /\ Started
  /\ gone' = gone \cup {t \in UnplugType : Request[t]}
  /\ UNCHANGED <<value, owners, bootVars>>

\* A device model that starts afresh has all devices again: SuspendEarly and
\* FdoS4ToS3 unplug before anybody runs.
UnplugAgain ==
  /\ Started /\ gone' = {t \in UnplugType : Request[t]}
  /\ UNCHANGED <<value, owners, bootVars>>

\* A shutdown, or a crash at any moment.  The drivers of the next boot have not
\* asked, but what they asked for in this one counts.
Reboot ==
  /\ boots < MaxBoots /\ boots' = boots + 1
  /\ Request' = [t \in UnplugType |-> FALSE]
  /\ starting' = UnplugType /\ deciding' = NoDecision /\ gone' = {} /\ given' = {}
  /\ UNCHANGED <<value, owners>>

UnplugNext ==
  \/ \E t \in UnplugType, found \in BOOLEAN : UnplugReadRequest(t, found)
  \/ UnplugSetRequest
  \/ \E d \in PvDriver, Make \in BOOLEAN : UnplugRequest(d, Make)
  \/ UnplugDevices \/ UnplugAgain \/ Reboot

UnplugSpec == UnplugInit /\ [][UnplugNext]_unplugVars

---------------------------------------------------------------------------
(* Whatever crashes and whatever fails to be written: the count never        *)
(* exceeds the drivers behind it, a type is unplugged only if it is forced   *)
(* or one of its drivers asked after the last boot that read the count, and  *)
(* what was unplugged stays away until the next boot.                        *)
UnplugInv ==
  /\ \A t \in UnplugType : value[t] <= Cardinality(Of(owners, t))
  /\ \A t \in UnplugType : Request[t] => t \in Forced \/ Of(given, t) # {}
  /\ \A t \in gone : Request[t]
=============================================================================
