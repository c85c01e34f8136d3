-------------------------------- MODULE Pdo --------------------------------
(***************************************************************************)
(* The child devices of the bus driver (src/src/xenbus/pdo.c): the PnP and *)
(* power state each keeps, the requests it answers, and its place on the   *)
(* list of its parent.  Fdo extends this module; the parent's mutex is held *)
(* by each operator that changes the list or the mark Missing, and those   *)
(* are single steps here.                                                  *)
(***************************************************************************)
EXTENDS Integers, FiniteSets

CONSTANTS
  Pdos,      \* identities of device objects
  Class      \* names of device classes

VARIABLES
  pdo,         \* the device extension of each child
  references   \* Fdo->References: one for each child, one of the parent's own

PnpStates == {"None", "Present", "Enumerated", "Added", "Started", "StopPending",
              "Stopped", "RemovePending", "SurpriseRemovePending", "Deleted"}

\* XENBUS_DX of a child, with the flag Missing and what its interface holds.
\* known and gone are the PnP manager's: it has been told of the device, and
\* the latest list it was given does not name it.
NoPdo == [pnp |-> "None", prev |-> "None", power |-> "D3", system |-> "S0",
          missing |-> FALSE, held |-> FALSE, class |-> "none",
          known |-> FALSE, gone |-> FALSE]

Listed == {p \in Pdos : pdo[p].pnp # "None"}
Live   == {p \in Listed : ~pdo[p].missing}

\* __PdoSetDevicePnpState, __FdoSetDevicePnpState.
SetPnp(dx, state) == [dx EXCEPT !.prev = dx.pnp, !.pnp = state]

\* __PdoRestoreDevicePnpState: only if the state is still the pending one.
RestorePnp(dx, state) ==
  IF dx.pnp = state THEN [dx EXCEPT !.pnp = dx.prev] ELSE dx

\* PdoSetMissing.
SetMissing(dx) == [dx EXCEPT !.missing = TRUE]

\* PdoD3ToD0: acquire the suspend interface, D0, register the late callback;
\* a failure of the registration undoes both.
D3ToD0(dx, ok) == IF ok THEN [dx EXCEPT !.power = "D0", !.held = TRUE] ELSE dx

\* PdoD0ToD3.
D0ToD3(dx) == [dx EXCEPT !.power = "D3", !.held = FALSE]

\* PdoCreate up to FdoAddPhysicalDeviceObject.
NewPdo(c) == [NoPdo EXCEPT !.pnp = "Present", !.class = c]

\* PdoDestroy and FdoRemovePhysicalDeviceObject, for the children in gone.
PdoDestroy(gone) == [p \in Pdos |-> IF p \in gone THEN NoPdo ELSE pdo[p]]

-----------------------------------------------------------------------------
(* Requests to one child.  The parent's dispatcher completes a request to  *)
(* a Deleted device before it gets here.                                   *)

PdoIs(p, states) == pdo[p].known /\ pdo[p].pnp \in states
Becomes(p, dx) == pdo' = [pdo EXCEPT ![p] = dx] /\ UNCHANGED references

\* PdoStartDevice: a failure of PdoD3ToD0 is not looked at.
PdoStartDevice(p, ok) ==
  Becomes(p, SetPnp(D3ToD0(pdo[p], ok), "Started"))

PdoQueryStopDevice(p)  == Becomes(p, SetPnp(pdo[p], "StopPending"))
PdoCancelStopDevice(p) == Becomes(p, RestorePnp(pdo[p], "StopPending"))
PdoStopDevice(p)       == Becomes(p, SetPnp(D0ToD3(pdo[p]), "Stopped"))

PdoQueryRemoveDevice(p)  == Becomes(p, SetPnp(pdo[p], "RemovePending"))
PdoCancelRemoveDevice(p) == Becomes(p, RestorePnp(pdo[p], "RemovePending"))
PdoSurpriseRemoval(p)    == Becomes(p, SetPnp(pdo[p], "SurpriseRemovePending"))

\* PdoRemoveDevice.  A device that was surprise-removed goes now; one that is
\* only missing waits for the relations to be queried; one that is still there
\* can be started again.
PdoDestroysNow(p) == pdo[p].missing /\ pdo[p].pnp = "SurpriseRemovePending"

PdoRemoveDevice(p) ==
  IF PdoDestroysNow(p)
  THEN pdo' = PdoDestroy({p}) /\ references' = references - 1
  ELSE Becomes(p, SetPnp(IF pdo[p].power = "D0" THEN D0ToD3(pdo[p]) ELSE pdo[p],
                         IF pdo[p].missing THEN "Deleted" ELSE "Enumerated"))

\* PdoEject.
PdoEject(p) == Becomes(p, SetMissing(SetPnp(pdo[p], "Deleted")))

\* PdoSetDevicePowerWorker: a failure to power up is dropped.
PdoSetDevicePower(dx, state, ok) ==
  CASE state = "D0" /\ dx.power = "D3" -> D3ToD0(dx, ok)
    [] state = "D3" /\ dx.power = "D0" -> D0ToD3(dx)
    [] OTHER -> dx

\* PdoSetSystemPowerWorker, with the steps through S3 and S4 folded.
PdoSetSystemPower(dx, state) == [dx EXCEPT !.system = state]
=============================================================================
