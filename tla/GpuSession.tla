------------------------------ MODULE GpuSession ------------------------------
(* The VFIO session of a GPU VM (vfio/base.rs, vfio/device.rs) and the way   *)
(* its interrupts are wired into KVM (FreshBootBackend::setup_msi_routing,   *)
(* kvm.rs, arch/x86_64/vm.rs): probe, init with its early returns, INTx, MSI *)
(* and destroy.  Calls run one after another; what varies is which ioctl     *)
(* fails, what the device looks like and what the guest did before MSI is    *)
(* set up.  Descriptors are tracked by name, an eventfd by its vector.       *)
EXTENDS Integers, FiniteSets

CONSTANTS Pins,      \* IOAPIC pins and their GSIs are 0 .. Pins - 1; MSI GSIs follow (24)
          IntxGsi,   \* VFIO_INTX_GSI (18)
          Vectors,   \* MSI vectors the device reports, from 0 on
          Regions,   \* VFIO regions of the device; ConfigRegion is PCI config space
          MaxFaults  \* bound: how many calls fail in a behaviour

ConfigRegion == 6
VgaRegion == 7
NoRegion == -1

SessionAssumption ==
    /\ Pins \in Nat /\ IntxGsi \in 0 .. Pins - 1 /\ MaxFaults \in Nat
    /\ IsFiniteSet(Vectors) /\ Vectors = 0 .. Cardinality(Vectors) - 1
    /\ {ConfigRegion, VgaRegion} \subseteq Regions /\ Regions \subseteq 0 .. 7

VARIABLES looks,    \* what the first bytes of each region look like
          session,  \* "none", "probed", the steps of init, "open"
          fds,      \* VFIO descriptors open in this process
          events,   \* vectors whose eventfd is open in this process
          config,   \* valid_config_region_offset, by region
          dev,      \* the GPU: INTx on, MSI Enable bit, vectors with a trigger, used by a guest
          kvm,      \* the VM: GSIs in the routing table, GSIs with an irqfd
          vm,       \* there is a VM
          msi,      \* msi_gsi_base # 0
          refused,  \* KVM refused an irqfd of an MSI vector in this process
          faults

vars == <<looks, session, fds, events, config, dev, kvm, vm, msi, refused, faults>>

Gsi(v) == Pins + v
Default == 0 .. Pins - 1
QuietDev == [intx |-> FALSE, msi |-> FALSE, trigger |-> {}, dirty |-> FALSE]
FreshKvm == [routes |-> Default, irqfds |-> {}]

Fails == faults < MaxFaults /\ faults' = faults + 1
Works == UNCHANGED faults

Init ==
    /\ looks \in [Regions -> {"small", "garbage", "plausible", "ours"}]
    /\ session = "none" /\ fds = {} /\ events = {} /\ config = NoRegion
    /\ dev = QuietDev /\ kvm = FreshKvm /\ vm = FALSE
    /\ msi = FALSE /\ refused = FALSE /\ faults = 0

-----------------------------------------------------------------------------
(* Opening                                                                   *)

(* A VM boots; the first display device bound to vfio-pci is taken, complete *)
(* IOMMU group or not.                                                       *)
Probe ==
    /\ session = "none" /\ ~vm
    /\ vm' = TRUE
    /\ kvm' = FreshKvm
    /\ session' \in {"probed", "none"}
    /\ UNCHANGED <<looks, fds, events, config, dev, msi, refused, faults>>

(* An early return of init: what it held in locals is closed, and the        *)
(* session is dropped by its caller.                                         *)
InitFails ==
    /\ session \in {"probed", "container", "group", "iommu", "device", "ready"}
    /\ Fails
    /\ session' = "none"
    /\ fds' = fds \ {"container", "group", "device"}
    /\ config' = NoRegion
    /\ UNCHANGED <<looks, events, dev, kvm, vm, msi, refused>>

Step(from, to) == session = from /\ session' = to /\ Works

OpenContainer ==
    /\ Step("probed", "container")
    /\ fds' = fds \cup {"container"}
    /\ UNCHANGED <<looks, events, config, dev, kvm, vm, msi, refused>>

OpenGroup ==
    /\ Step("container", "group")
    /\ fds' = fds \cup {"group"}
    /\ UNCHANGED <<looks, events, config, dev, kvm, vm, msi, refused>>

(* The group goes into the container, the container gets an IOMMU (type 1 v2 *)
(* or type 1).                                                               *)
SetIommu ==
    /\ Step("group", "iommu")
    /\ UNCHANGED <<looks, fds, events, config, dev, kvm, vm, msi, refused>>

(* The device's descriptor; the reset that follows only warns. *)
GetDevice ==
    /\ session = "iommu" /\ session' = "device"
    /\ fds' = fds \cup {"device"}
    /\ \/ Works /\ dev' = QuietDev
       \/ Fails /\ UNCHANGED dev
    /\ UNCHANGED <<looks, events, config, kvm, vm, msi, refused>>

(* Regions 6 and 7 first, then all of them in order; too small a region is   *)
(* passed over, one whose first bytes are the known device or pass for a     *)
(* header is taken.  A region whose query fails is not in the list.          *)
QueryBarRegions(skipped) == Regions \ {skipped}
Passes(r) == looks[r] \in {"plausible", "ours"}
FindConfigRegion(found) ==
    LET fit == {r \in found : Passes(r)}
        first(s) == CHOOSE r \in s : \A q \in s : r <= q
    IN IF fit \cap {ConfigRegion, VgaRegion} # {} THEN first(fit \cap {ConfigRegion, VgaRegion})
       ELSE IF fit # {} THEN first(fit) ELSE NoRegion

(* The GPU's backend wakes it up and bus mastering is turned on where there  *)
(* is a config region; both only warn.                                       *)
Ready ==
    /\ session = "device" /\ session' = "ready"
    /\ \/ Works /\ config' = FindConfigRegion(QueryBarRegions(NoRegion))
       \/ \E r \in Regions : Fails /\ config' = FindConfigRegion(QueryBarRegions(r))
    /\ UNCHANGED <<looks, fds, events, dev, kvm, vm, msi, refused>>

(* The KVM device is created for this call and closed again. *)
RegisterWithKvm ==
    /\ Step("ready", "open")
    /\ UNCHANGED <<looks, fds, events, config, dev, kvm, vm, msi, refused>>

-----------------------------------------------------------------------------
(* Interrupts                                                                *)

(* The guest runs; its driver enables MSI through the config proxy. *)
GuestRuns ==
    /\ session = "open" /\ ~msi
    /\ \E on \in BOOLEAN : dev' = [dev EXCEPT !.dirty = TRUE, !.msi = on]
    /\ UNCHANGED <<looks, session, fds, events, config, kvm, vm, msi, refused, faults>>

(* Best effort: the eventfd is closed on every way out, KVM and VFIO hold    *)
(* references of their own.                                                  *)
SetupIntxIrqfd ==
    /\ session = "open" /\ ~msi /\ ~dev.intx
    /\ \/ Works /\ dev' = [dev EXCEPT !.intx = TRUE]
          /\ kvm' = [kvm EXCEPT !.irqfds = @ \cup {IntxGsi}]
       \/ Fails /\ UNCHANGED <<dev, kvm>>
       \/ Fails /\ dev' = [dev EXCEPT !.intx = TRUE] /\ UNCHANGED kvm
    /\ UNCHANGED <<looks, session, fds, events, config, vm, msi, refused>>

(* The whole table is replaced, so the IOAPIC pins are listed again. *)
BuildGsiRoutingTable(vectors) == Default \cup {Gsi(v) : v \in vectors}

(* Mutated: the MSI enable bit is left alone. *)
DisableMsiOnPhysicalDevice_Never(d) == d

(* Only a real config region has the capability to clear. *)
DisableMsiOnPhysicalDevice(d) ==
    IF config = ConfigRegion THEN [d EXCEPT !.msi = FALSE] ELSE d

DisableIntx(d, ok) == IF ok THEN [d EXCEPT !.intx = FALSE] ELSE d

(* VFIO refuses MSI triggers while INTx is on or the MSI Enable bit is set.  *)
SetIrqsAccepted(d) == ~d.intx /\ ~d.msi

(* Mutated: refused triggers close nothing. *)
LeftOpen_OnRefusedTriggers(ok, n) ==
    IF ok THEN {v \in Vectors : v < n /\ n < Cardinality(Vectors)} ELSE Vectors

(* setup_msi_irqfds: eventfds, the triggers, then one irqfd after the other. *)
(* The first n are connected when KVM refuses the next: that one and those   *)
(* behind it are closed, the first n stay open.                              *)
LeftOpen(ok, n) == {v \in Vectors : ok /\ v < n /\ n < Cardinality(Vectors)}

SetupMsiIrqfds(d, ok, n) ==
    /\ dev' = IF ok THEN [d EXCEPT !.msi = TRUE, !.trigger = Vectors] ELSE d
    /\ kvm' = [routes |-> BuildGsiRoutingTable(Vectors),
               irqfds |-> kvm.irqfds \cup {Gsi(v) : v \in {w \in Vectors : ok /\ w < n}}]
    /\ events' = events \cup LeftOpen(ok, n)
    /\ refused' = (refused \/ (ok /\ n < Cardinality(Vectors)))

QueryMsiVectorCount == Cardinality(Vectors)

(* setup_msi_routing, after an exec: what fails after the table is in place  *)
(* is not tried again.                                                       *)
SetupMsiRouting ==
    /\ session = "open" /\ ~msi /\ Vectors # {}
    /\ msi' = TRUE
    /\ LET all == QueryMsiVectorCount
           quiet(ok) == DisableIntx(DisableMsiOnPhysicalDevice(dev), ok)
           accepted(ok) == SetIrqsAccepted(quiet(ok))
       IN \/ Works /\ SetupMsiIrqfds(quiet(TRUE), accepted(TRUE), all)
          \/ Fails /\ SetupMsiIrqfds(quiet(FALSE), accepted(FALSE), all)
          \/ Fails /\ SetupMsiIrqfds(quiet(TRUE), FALSE, all)
          \/ \E n \in Vectors : Fails /\ SetupMsiIrqfds(quiet(TRUE), accepted(TRUE), n)
    /\ UNCHANGED <<looks, session, fds, config, vm>>

(* A routing table KVM refuses is offered again after the next exec. *)
SetGsiRoutingFails ==
    /\ session = "open" /\ ~msi /\ Vectors # {}
    /\ Fails
    /\ UNCHANGED <<looks, session, fds, events, config, dev, kvm, vm, msi, refused>>

-----------------------------------------------------------------------------
(* Closing                                                                   *)

Closed == {"container", "group", "device"}
DeassignIrqfds(k) == [k EXCEPT !.irqfds = @ \ {Gsi(v) : v \in Vectors}]

(* FreshBootBackend::destroy: the MSI irqfds, then the session with a reset  *)
(* that only warns; the VM goes last.  msi_gsi_base stays set.               *)
Destroy ==
    /\ session = "open"
    /\ session' = "none"
    /\ fds' = {}
    /\ config' = NoRegion
    /\ kvm' = DeassignIrqfds(kvm)
    /\ \/ Works /\ dev' = QuietDev
       \/ Fails /\ dev' = [dev EXCEPT !.intx = FALSE, !.msi = FALSE, !.trigger = {}]
    /\ UNCHANGED <<looks, events, vm, msi, refused>>

(* The VM goes, with or without a GPU; the backend is dropped and a new one  *)
(* made.                                                                     *)
DropVm ==
    /\ session = "none" /\ vm
    /\ vm' = FALSE
    /\ kvm' = FreshKvm
    /\ UNCHANGED <<looks, session, fds, events, config, dev, msi, refused, faults>>

NewBackend ==
    /\ session = "none" /\ ~vm /\ msi
    /\ msi' = FALSE
    /\ UNCHANGED <<looks, session, fds, events, config, dev, kvm, vm, refused, faults>>

Next ==
    \/ Probe \/ InitFails \/ OpenContainer \/ OpenGroup \/ SetIommu \/ GetDevice
    \/ Ready \/ RegisterWithKvm
    \/ GuestRuns \/ SetupIntxIrqfd \/ SetupMsiRouting \/ SetGsiRoutingFails
    \/ Destroy \/ DropVm \/ NewBackend

Spec == Init /\ [][Next]_vars

-----------------------------------------------------------------------------
(* What is open, routed and connected belongs to this device.                *)
TypeOK ==
    /\ session \in {"none", "probed", "container", "group", "iommu", "device", "ready", "open"}
    /\ fds \subseteq Closed /\ events \subseteq Vectors
    /\ config \in Regions \cup {NoRegion}
    /\ dev \in [intx : BOOLEAN, msi : BOOLEAN, trigger : SUBSET Vectors, dirty : BOOLEAN]
    /\ kvm \in [routes : SUBSET (Default \cup {Gsi(v) : v \in Vectors}),
                irqfds : SUBSET (Default \cup {Gsi(v) : v \in Vectors})]
    /\ faults \in 0 .. MaxFaults

(* Once MSI is set up in a life that had no failure, every vector of the GPU *)
(* goes to an eventfd KVM listens to, on a GSI the table routes as MSI, and  *)
(* the IOAPIC pins still have their routes: MSI Enable and INTx were cleared *)
(* before VFIO was asked, and the table was replaced as a whole.             *)
MsiWired ==
    session = "open" /\ dev.dirty /\ msi /\ faults = 0 /\ config = ConfigRegion =>
        \/ dev.trigger = {} /\ kvm.routes = Default  \* a second life: msi_gsi_base was never cleared
        \/ /\ dev.trigger = Vectors
           /\ \A v \in Vectors : Gsi(v) \in kvm.irqfds \cap kvm.routes
           /\ Default \subseteq kvm.routes

(* Between calls an eventfd is open only if KVM refused an irqfd, and no     *)
(* session means no descriptor of VFIO and, unless a call failed, a GPU that *)
(* was reset after its guest.                                                *)
OnlyRefusedLeak ==
    /\ events # {} => refused
    /\ session = "none" => fds = {} /\ (dev.dirty => faults > 0)

(* A device whose config space is readable at region 6 is driven through it, *)
(* never through a BAR that looks like a header.                             *)
ConfigIsConfig ==
    session \in {"ready", "open"} /\ looks[ConfigRegion] = "ours" /\ faults = 0
        => config = ConfigRegion

(* What base.rs says of destroy: all resources are released. *)
ReleasesAll == session = "none" => fds = {} /\ events = {}

=============================================================================
