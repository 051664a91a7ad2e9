------------------------------ MODULE MCDevices ------------------------------
(* What is built around one VCPU, in one run: the virtio-net device, the    *)
(* PCI bus with its UART, the BARs of a passed-through GPU, the VFIO session *)
(* behind it, and the fork engine with its memory.  They share no state     *)
(* here, so a behaviour picks one part and the others are off.              *)
EXTENDS TLC

CONSTANTS
  Part,      \* the parts of this run
  Off,       \* what the variables of the other parts hold
  QueueSize, IdxMod, Frames, IPv6, TapRoom,
  Dwords, Byte, MaxWrites, MaxCapture,
  Ram, Base32, Base64, Align64, End32, Top, HostPtr, MaxMoves,
  Pins, IntxGsi, Vectors, Regions, MaxFaults,
  VM, NoVM, Region, Addr, LoadAddr, MaxShared, MaxBatch

VARIABLES
  part,
  hasTap, live, isr, pending, rx, tx, tap, arrived, irq, napi, latest,
  loop, enabled, target, port, buses, bar0, gpu, dlab, divisor, ier, captured, serial, sent, writes,
  stage, bar, next32, next64, assigned, reg, slot, memslots, mappings, booked, mask, lazySlots, retry, moves,
  looks, session, fds, events, config, dev, kvm, vm, msi, refused, faults,
  capable, up, regions, forking, want, done, cur, owned, vmfd, vcpu, run, mapping, slots, copied, file, content

\* A GPU with one 32-bit BAR and two 64-bit ones.
GpuBars == <<0, 1, 3>>
GpuSize == 0 :> 1 @@ 1 :> 1 @@ 3 :> 2

Net == INSTANCE VirtioNet
Bus == INSTANCE PciBus
Bar == INSTANCE BarSlots WITH Bars <- GpuBars, Wide <- {1, 3}, Size <- GpuSize,
         i <- bar, kvm <- memslots, live <- mappings
Gpu == INSTANCE GpuSession
Fork == INSTANCE ForkEngine WITH stage <- forking, live <- owned

ASSUME Assumptions ==
  /\ Net!VirtioAssumption /\ Bus!PciBusAssumption /\ Bar!BarSlotsAssumption /\ Gpu!SessionAssumption
  /\ Fork!NumAssumption /\ Fork!NoVMAssumption /\ Fork!SnapshotAssumption

netVars == <<hasTap, live, isr, pending, rx, tx, tap, arrived, irq, napi, latest>>
busVars == <<loop, enabled, target, port, buses, bar0, gpu, dlab, divisor, ier,
             captured, serial, sent, writes>>
barVars == <<stage, bar, next32, next64, assigned, reg, slot, memslots, mappings,
             booked, mask, lazySlots, retry, moves>>
sessionVars == <<looks, session, fds, events, config, dev, kvm, vm, msi, refused, faults>>
engineVars == <<capable, up, regions, forking, want, done, cur, owned, vmfd, vcpu, run,
                mapping, slots, copied, file, content>>

netOff == hasTap = Off /\ live = Off /\ isr = Off /\ pending = Off /\ rx = Off /\
          tx = Off /\ tap = Off /\ arrived = Off /\ irq = Off /\ napi = Off /\
          latest = Off
busOff == loop = Off /\ enabled = Off /\ target = Off /\ port = Off /\ buses = Off /\
          bar0 = Off /\ gpu = Off /\ dlab = Off /\ divisor = Off /\ ier = Off /\
          captured = Off /\ serial = Off /\ sent = Off /\ writes = Off
barOff == stage = Off /\ bar = Off /\ next32 = Off /\ next64 = Off /\ assigned = Off /\
          reg = Off /\ slot = Off /\ memslots = Off /\ mappings = Off /\
          booked = Off /\ mask = Off /\ lazySlots = Off /\ retry = Off /\ moves = Off
sessionOff == looks = Off /\ session = Off /\ fds = Off /\ events = Off /\
              config = Off /\ dev = Off /\ kvm = Off /\ vm = Off /\ msi = Off /\
              refused = Off /\ faults = Off
engineOff == capable = Off /\ up = Off /\ regions = Off /\ forking = Off /\
             want = Off /\ done = Off /\ cur = Off /\ owned = Off /\ vmfd = Off /\
             vcpu = Off /\ run = Off /\ mapping = Off /\ slots = Off /\ copied = Off /\
             file = Off /\ content = Off

Init ==
  \/ part = "net" /\ "net" \in Part /\ Net!Init /\ busOff /\ barOff /\ sessionOff /\ engineOff
  \/ part = "bus" /\ "bus" \in Part /\ Bus!Init /\ netOff /\ barOff /\ sessionOff /\ engineOff
  \/ part = "bar" /\ "bar" \in Part /\ Bar!Init /\ netOff /\ busOff /\ sessionOff /\ engineOff
  \/ part = "session" /\ "session" \in Part /\ Gpu!Init /\ netOff /\ busOff /\ barOff /\ engineOff
  \/ part = "engine" /\ "engine" \in Part /\ Fork!Init /\ netOff /\ busOff /\ barOff /\ sessionOff

Next ==
  /\ UNCHANGED part
  /\ \/ part = "net" /\ Net!Next /\ UNCHANGED <<busVars, barVars, sessionVars, engineVars>>
     \/ part = "bus" /\ Bus!Next /\ UNCHANGED <<netVars, barVars, sessionVars, engineVars>>
     \/ part = "bar" /\ Bar!Next /\ UNCHANGED <<netVars, busVars, sessionVars, engineVars>>
     \/ part = "session" /\ Gpu!Next /\ UNCHANGED <<netVars, busVars, barVars, engineVars>>
     \/ part = "engine" /\ Fork!Next /\ UNCHANGED <<netVars, busVars, barVars, sessionVars>>

vars == <<part, netVars, busVars, barVars, sessionVars, engineVars>>
Spec == Init /\ [][Next]_vars

\* Host addresses are interchangeable, and so are VMs; one set serves both.
Alike == Permutations(HostPtr)

------------------------------------------------------------------------------
(* The states of all five parts are well formed.                            *)
TypeOK ==
  /\ part = "net" => Net!TypeOK
  /\ part = "bus" => Bus!TypeOK
  /\ part = "bar" => Bar!TypeOK
  /\ part = "session" => Gpu!TypeOK
  /\ part = "engine" => Fork!TypeOK

(* Virtio: a receive buffer is in one place, with the driver, offered or    *)
(* filled, through every wrap, reset and burst (fill_rx_queue).             *)
BuffersConserved == part = "net" => Net!BuffersConserved

(* Virtio: TAP frames reach the driver in the order they arrived, each at   *)
(* most once (try_rx).                                                      *)
FlowInOrder == part = "net" => Net!FlowInOrder

(* Virtio: a frame the driver has not seen never waits without an interrupt *)
(* pending or a poll scheduled (the ISR bit, inject_lapic_irq).             *)
InterruptDue == part = "net" => Net!InterruptDue

(* PCI and UART: byte and word reads are lanes of the dword, the root       *)
(* port's cached bus numbers are those of its registers, and the captured   *)
(* console is what the guest sent (PcieRootPort, Uart16550).                *)
BusFaithful == part = "bus" => Bus!LanesAgree /\ Bus!BusNumbersAgree /\ Bus!ConsoleFaithful

(* BARs: preassigned addresses are apart, aligned and, when 32 bits wide,   *)
(* below 4 GB; every mapping of the session is booked once; and an access   *)
(* that is retried after mapping on demand lands in a slot                  *)
(* (preassign_guest_bar_addresses, map_guest_bar_slots, lazy_map_bar).      *)
BarsSound == part = "bar" => Bar!AssignedApart /\ Bar!BooksBalance /\ Bar!RetryLands

(* VFIO: with MSI set up and no failure, every vector goes to an irqfd on a *)
(* GSI routed as MSI and the IOAPIC keeps its pins (setup_msi_irqfds).      *)
MsiWired == part = "session" => Gpu!MsiWired

(* VFIO: outside a session only a vector whose irqfd KVM refused can hold a *)
(* descriptor, and config space is taken from its own region unless that    *)
(* region did not look like it (destroy, find_config_region).               *)
SessionClean == part = "session" => Gpu!OnlyRefusedLeak /\ Gpu!ConfigIsConfig

(* Fork engine: a VM nobody owns holds nothing of the kernel but what a     *)
(* failed step between mmap and ForkedVm leaves (MmapGuard).                *)
OnlyRunLeaks == part = "engine" => Fork!OnlyRunLeaks

(* Fork engine: what a VM writes to its memory no other VM and no later     *)
(* fork sees, and a shared region stays the host's on a host that can map   *)
(* it read-only (MAP_PRIVATE, ept_map).                                     *)
Isolated == part = "engine" => Fork!Isolated /\ Fork!SharedKept

(* Fork engine: fork_batch hands over all the VMs it was asked for or none, *)
(* each with every memory slot in its place.                                *)
BatchWhole == [][part = "engine" => Fork!AllOrNone]_vars

(* Violated: unmapping the BARs leaves no memory slot behind them ("Unmap   *)
(* and clear all previously mapped VFIO BAR regions.", clear_mapped_bars).  *)
NoStaleSlot == part = "bar" => Bar!NoStaleSlot
==============================================================================
