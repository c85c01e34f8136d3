-------------------------------- MODULE Vcpu --------------------------------
(***************************************************************************)
(* The vcpu_info areas (src/src/xen/system.c) and the named pages that they *)
(* are in (src/src/xen/driver.c).  A processor can be registered with Xen   *)
(* once, so the pages stay allocated when the driver is unloaded; their     *)
(* numbers are in a volatile registry key, one value for each page, and a   *)
(* flag for each processor in the last page tells that it is registered.    *)
(***************************************************************************)
EXTENDS Naturals, FiniteSets

CONSTANTS
  VcpuCpu,        \* processors
  PhysicalPage,   \* pages of the guest
  VcpuPages,      \* pages of the named allocation
  MaxReloads,     \* bound on loads of the driver
  MaxSuspends     \* bound on suspends

Index == 1 .. VcpuPages
Nowhere == "nowhere"

ASSUME VcpuAssumption ==
  /\ IsFiniteSet(VcpuCpu) /\ IsFiniteSet(PhysicalPage) /\ Nowhere \notin PhysicalPage
  /\ VcpuPages \in Nat \ {0} /\ MaxReloads \in Nat /\ MaxSuspends \in Nat

VARIABLES
  key,         \* the values of the Memory key
  allocated,   \* pages in use, by this driver or by others
  flags,       \* pages with the flag of a processor set: <<page, processor>>
  mdl,         \* Context->Mdl while the driver is loaded
  processor,   \* Initialized, Registered # NULL
  xen,         \* where Xen writes the vcpu_info of each processor
  reloads, suspends,
  refused      \* Xen refused a second registration

vcpuVars == <<key, allocated, flags, mdl, processor, xen, reloads, suspends, refused>>
Offline == [Initialized |-> FALSE, Registered |-> FALSE]

VcpuInit ==
  /\ key = [i \in Index |-> Nowhere] /\ allocated = {} /\ flags = {}
  /\ mdl = << >> /\ processor = [c \in VcpuCpu |-> Offline]
  /\ xen = [c \in VcpuCpu |-> Nowhere] /\ reloads = 0 /\ suspends = 0 /\ refused = FALSE

\* __DriverSetPfnArray: the values up to one that fails, which are deleted
\* again, each deletion with an outcome of its own.
SetPfnArray(pages, written, undeleted) ==
  [i \in Index |-> IF i > written THEN key[i]
                   ELSE IF written = VcpuPages \/ i \in undeleted THEN pages[i] ELSE Nowhere]

\* DriverGetNamedPages, for SystemAllocateVcpuInfo: __DriverGetPfnArray finds
\* all values, or __DriverAllocatePfnArray makes them.
Found == \A i \in Index : key[i] # Nowhere
Fresh == {p \in [Index -> PhysicalPage \ allocated] : \A i, j \in Index : p[i] = p[j] => i = j}
Loadable == mdl = << >> /\ reloads < MaxReloads

GetPfnArray ==
  /\ Loadable /\ Found
  /\ mdl' = key /\ reloads' = reloads + 1
  /\ UNCHANGED <<key, allocated, flags, processor, xen, suspends, refused>>

\* When a value cannot be written the pages are freed; when they cannot be
\* mapped they keep their name.
AllocatePfnArray ==
  /\ Loadable /\ ~Found
  /\ reloads' = reloads + 1
  /\ UNCHANGED <<processor, xen, suspends, refused>>
  /\ \E pages \in Fresh, written \in 0 .. VcpuPages, undeleted \in SUBSET Index, mapped \in BOOLEAN :
       /\ key' = SetPfnArray(pages, written, undeleted)
       /\ flags' = {f \in flags : \A i \in Index : f[1] # pages[i]}
       /\ allocated' = IF written = VcpuPages THEN allocated \cup {pages[i] : i \in Index} ELSE allocated
       /\ mdl' = IF written = VcpuPages /\ mapped THEN pages ELSE << >>

\* Mutant: the pages are freed with the mapping of them.
DriverPutNamedPagesFreed == mdl' = << >> /\ allocated' = {p \in allocated : \A i \in Index : key[i] # p}

DriverPutNamedPages == mdl' = << >> /\ UNCHANGED allocated

\* SystemProcessorRegisterVcpuInfo, in the DPC of a new processor and, with
\* Force, at the start of a resume, when Xen has forgotten all registrations.
Area == mdl[1]
Flag(c) == <<mdl[VcpuPages], c>>

\* SystemProcessorChangeCallback and SystemProcessorDpc.  Xen may have no memory.
SystemProcessorDpc(c) ==
  /\ mdl # << >> /\ ~processor[c].Initialized
  /\ UNCHANGED <<key, allocated, mdl, reloads, suspends>>
  /\ \E succeeds \in BOOLEAN :
       LET needed == Flag(c) \notin flags
           done == ~needed \/ (succeeds /\ xen[c] = Nowhere)
       IN /\ processor' = [processor EXCEPT ![c] = [Initialized |-> TRUE, Registered |-> done]]
          /\ xen' = IF needed /\ done THEN [xen EXCEPT ![c] = Area] ELSE xen
          /\ flags' = IF done THEN flags \cup {Flag(c)} ELSE flags
          /\ refused' = (refused \/ (needed /\ xen[c] # Nowhere))

\* SuspendEarly on each processor.  The registration is assumed to succeed: the
\* code does not look, and the flag stays set in any case.
SuspendEarlyVcpu ==
  /\ mdl # << >> /\ suspends < MaxSuspends /\ suspends' = suspends + 1
  /\ \A c \in VcpuCpu : processor[c].Initialized
  /\ xen' = [c \in VcpuCpu |-> Area]
  /\ flags' = flags \cup {Flag(c) : c \in VcpuCpu}
  /\ processor' = [c \in VcpuCpu |-> [processor[c] EXCEPT !.Registered = TRUE]]
  /\ UNCHANGED <<key, allocated, mdl, reloads, refused>>

\* SystemDeregisterProcessorChangeCallback.
SystemDeregister ==
  /\ mdl # << >>
  /\ processor' = [c \in VcpuCpu |-> Offline]
  /\ DriverPutNamedPages
  /\ UNCHANGED <<key, flags, xen, reloads, suspends, refused>>

\* Somebody else uses the memory meanwhile.
OtherAllocates ==
  /\ \E p \in PhysicalPage \ allocated : allocated' = allocated \cup {p} /\ flags' = {f \in flags : f[1] # p}
  /\ UNCHANGED <<key, mdl, processor, xen, reloads, suspends, refused>>

VcpuNext ==
  \/ GetPfnArray \/ AllocatePfnArray \/ SystemDeregister \/ SuspendEarlyVcpu \/ OtherAllocates
  \/ \E c \in VcpuCpu : SystemProcessorDpc(c)

VcpuSpec == VcpuInit /\ [][VcpuNext]_vcpuVars

---------------------------------------------------------------------------
(* Through unloads, failures to write the names and suspends: Xen never     *)
(* writes to a page that was given back, a processor that is taken for      *)
(* registered is registered in the page that the driver reads, and Xen is   *)
(* never asked for a registration that it must refuse.                      *)
VcpuInv ==
  /\ ~refused
  /\ \A c \in VcpuCpu : xen[c] # Nowhere => xen[c] \in allocated /\ Found /\ xen[c] = key[1]
  /\ \A c \in VcpuCpu : processor[c].Registered => xen[c] = Area
  /\ Found => \A i \in Index : key[i] \in allocated
=============================================================================
