------------------------------ MODULE BarSlots ------------------------------
(* The BARs of a passed-through GPU in guest memory: addresses given to them *)
(* before the boot (preassign_guest_bar_addresses), KVM slots made for them  *)
(* before and after it (map_guest_bar_slots, vfio/base.rs), and on demand    *)
(* when the guest touches one that has none (lazy_map_bar and the MMIO exit  *)
(* of run_until_ready, arch/x86_64/boot.rs), in the order of                 *)
(* FreshBootBackend::init (fresh_boot.rs).  Addresses are cells; the command *)
(* register, which the restoration clears and writes back, is left out.      *)
EXTENDS Naturals, Sequences, SequencesExt

CONSTANTS Bars,    \* indices of the mappable memory BARs, in region order
          Wide,    \* those with 64-bit addresses
          Size,    \* cells of each BAR, a power of two
          Ram,     \* cells behind the slots of guest memory
          Base32, Base64, \* where preassignment begins (0xE0000000, 1 << 36)
          Align64, \* least alignment of a 64-bit BAR (1 GB)
          End32,   \* the first cell that a 32-bit BAR cannot name (4 GB)
          Top,     \* the last cell
          HostPtr, \* addresses mmap may return
          MaxMoves \* bound: BAR registers written by the guest

BarSlotsAssumption ==
    /\ IsInjective(Bars) /\ ToSet(Bars) \subseteq 0 .. 5
    /\ Wide \subseteq ToSet(Bars)
    /\ Size \in [ToSet(Bars) -> {1, 2, 4}]
    /\ Top \in Nat /\ Ram \subseteq 1 .. Top /\ Base32 \in 1 .. Top /\ Base64 \in 1 .. Top
    /\ Align64 \in {1, 2, 4} /\ End32 \in 1 .. Top /\ MaxMoves \in Nat
    /\ End32 % 4 = 0 /\ End32 <= Base64

Bar == ToSet(Bars)
Cell == 1 .. Top
MaxLazy == Len(Bars)  \* bound: slots tried on demand
SlotId == {"early", "lazy"} \X (1 .. MaxLazy)  \* 250 + n - 1, 100 + n - 1

VARIABLES stage,    \* how far init is
          i,        \* the BAR a loop of the host is at
          next32, next64, \* the cursors of preassignment
          assigned, \* what it has collected to return: BAR to cell
          reg,      \* BAR registers of the device, 0 when unassigned
          slot,     \* map_guest_bar_slots: slots used so far
          kvm,      \* the VM's memory slots
          live,     \* host mappings of the device
          booked,   \* VfioPassthroughBase::mapped_bars
          mask,     \* VfioMmioInfo::mapped_bars
          lazySlots,\* VfioMmioInfo::next_slot - 100
          retry,    \* the cell whose access KVM_RUN is about to retry, or 0
          moves     \* registers the guest has written

loop == <<stage, i>>
cursors == <<next32, next64, assigned>>
mappings == <<slot, kvm, live, booked>>
onDemand == <<mask, lazySlots, retry>>
vars == <<loop, cursors, reg, mappings, onDemand, moves>>

NoSlot == [at |-> 0, size |-> 0, ptr |-> 0]
Address == Nat \ {0}
SlotState == [at : Address, size : {1, 2, 4}, ptr : HostPtr] \cup {NoSlot}
Stage == {"preassign", "map", "post", "restore", "boot", "remap", "run", "failed", "gone"}

(* Cursors, slots and mappings stay in range; what is not live shows nothing. *)
TypeOK ==
    /\ stage \in Stage /\ i \in 1 .. Len(Bars) + 1
    /\ next32 \in Nat /\ next64 \in Nat
    /\ assigned \in [Bar -> Nat]
    /\ reg \in [Bar -> Nat]
    /\ slot \in 0 .. Len(Bars)
    /\ kvm \in [SlotId -> SlotState]
    /\ live \subseteq [ptr : HostPtr, bar : Bar, by : {"early", "lazy"}]
    /\ \A e \in ToSet(booked) : e \in [at : Address, size : {1, 2, 4}, ptr : HostPtr]
    /\ mask \subseteq Bar
    /\ lazySlots \in 0 .. MaxLazy
    /\ retry \in 0 .. Top
    /\ moves \in 0 .. MaxMoves

Init ==
    /\ stage = "preassign" /\ i = 1
    /\ next32 = Base32 /\ next64 = Base64
    /\ assigned = [b \in Bar |-> 0]
    /\ reg = [b \in Bar |-> 0]
    /\ slot = 0
    /\ kvm = [s \in SlotId |-> NoSlot]
    /\ live = {} /\ booked = <<>>
    /\ mask = {} /\ lazySlots = 0 /\ retry = 0
    /\ moves = 0

-----------------------------------------------------------------------------
(* What the code asks of the host                                            *)

Cells(at, size) == at .. at + size - 1
Shows(s, a) == kvm[s] # NoSlot /\ a \in Cells(kvm[s].at, kvm[s].size)
Pointers == {m.ptr : m \in live}

(* KVM_SET_USER_MEMORY_REGION: no two slots may overlap, and a slot that     *)
(* exists may be moved but not resized nor given other host memory.          *)
KvmAccepts(s, at, size, ptr) ==
    /\ Cells(at, size) \cap Ram = {}
    /\ \A t \in SlotId \ {s} : \A a \in Cells(at, size) : ~Shows(t, a)
    /\ kvm[s] # NoSlot => kvm[s].size = size /\ kvm[s].ptr = ptr

SetRegion(s, at, size, ptr) ==
    kvm' = [kvm EXCEPT ![s] = [at |-> at, size |-> size, ptr |-> ptr]]

Mapping(b, by, ptr) == [ptr |-> ptr, bar |-> b, by |-> by]

-----------------------------------------------------------------------------
(* preassign_guest_bar_addresses                                             *)

RoundUp(n, align) == ((n + align - 1) \div align) * align
AtLeast(n, m) == IF n < m THEN m ELSE n

Place(b) ==
    LET align == IF b \in Wide THEN AtLeast(Size[b], Align64) ELSE Size[b]
        from == IF b \in Wide THEN next64 ELSE next32
    IN RoundUp(AtLeast(from, align), align)

Advance(b, at) ==
    /\ next64' = IF b \in Wide THEN at + Size[b] ELSE next64
    /\ next32' = IF b \in Wide THEN next32 ELSE at + Size[b]

(* One BAR: a register that cannot be read or written is skipped, and so is  *)
(* a 32-bit BAR whose address does not fit.  The halves of a 64-bit address  *)
(* are written one after the other.                                          *)
PreassignNext ==
    /\ stage \in {"preassign", "restore"} /\ i <= Len(Bars)
    /\ i' = i + 1
    /\ LET b == Bars[i]  at == Place(b)
       IN \/ /\ b \in Wide \/ at < End32
             /\ reg' = [reg EXCEPT ![b] = at]
             /\ assigned' = [assigned EXCEPT ![b] = at]
             /\ Advance(b, at)
          \/ /\ b \in Wide
             /\ reg' = [reg EXCEPT ![b] = at % End32]
             /\ UNCHANGED cursors
          \/ UNCHANGED <<reg, cursors>>
    /\ UNCHANGED <<stage, mappings, onDemand, moves>>

Rewind ==
    /\ next32' = Base32 /\ next64' = Base64
    /\ assigned' = [b \in Bar |-> 0]

(* init goes on: to the slots, or after the option ROM to the kernel. *)
PreassignDone ==
    /\ stage \in {"preassign", "restore"} /\ i > Len(Bars)
    /\ stage' = IF stage = "preassign" THEN "map" ELSE "boot"
    /\ i' = 1 /\ slot' = 0
    /\ Rewind
    /\ UNCHANGED <<reg, kvm, live, booked, onDemand, moves>>

-----------------------------------------------------------------------------
(* map_guest_bar_slots                                                       *)

(* What read_guest_bar_addr may return: nothing, the lower half, or all. *)
GuestAddr(b) == {reg[b]} \cup (IF b \in Wide THEN {reg[b] % End32} ELSE {})

(* Mutated: a BAR that KVM refuses stays mapped.                            *)
MapNext_Forgets ==
    /\ stage \in {"map", "remap"} /\ i <= Len(Bars)
    /\ i' = i + 1
    /\ LET b == Bars[i]  s == <<"early", slot + 1>>
       IN \/ /\ UNCHANGED mappings
          \/ \E p \in HostPtr \ Pointers, at \in GuestAddr(b) \ {0} :
                /\ live' = live \cup {Mapping(b, "early", p)}
                /\ IF KvmAccepts(s, at, Size[b], p)
                   THEN /\ SetRegion(s, at, Size[b], p)
                        /\ booked' = Append(booked, [at |-> at, size |-> Size[b], ptr |-> p])
                        /\ slot' = slot + 1
                   ELSE UNCHANGED <<kvm, booked, slot>>
    /\ UNCHANGED <<stage, cursors, reg, onDemand, moves>>

(* One BAR: mapped into this process, then into the VM; when KVM refuses, it *)
(* is unmapped again and the next BAR takes the same slot.                   *)
MapNext ==
    /\ stage \in {"map", "remap"} /\ i <= Len(Bars)
    /\ i' = i + 1
    /\ LET b == Bars[i]  s == <<"early", slot + 1>>
       IN \/ UNCHANGED mappings  \* no address yet, mmap failed, or KVM refused
          \/ \E p \in HostPtr \ Pointers, at \in GuestAddr(b) \ {0} :
                /\ KvmAccepts(s, at, Size[b], p)
                /\ SetRegion(s, at, Size[b], p)
                /\ live' = live \cup {Mapping(b, "early", p)}
                /\ booked' = Append(booked, [at |-> at, size |-> Size[b], ptr |-> p])
                /\ slot' = slot + 1
    /\ UNCHANGED <<stage, cursors, reg, onDemand, moves>>

(* With a ROM, the option ROM's POST comes between the slots and the kernel. *)
MapDone ==
    /\ stage \in {"map", "remap"} /\ i > Len(Bars)
    /\ \/ stage = "map" /\ stage' \in {"post", "boot"}
       \/ stage = "remap" /\ stage' = "run"
    /\ i' = 1
    /\ UNCHANGED <<cursors, reg, mappings, onDemand, moves>>

-----------------------------------------------------------------------------
(* The guest                                                                 *)

(* Firmware or kernel writes a BAR register; config space is forwarded. *)
Move(b, at) ==
    /\ stage \in {"post", "boot", "run"} /\ retry = 0 /\ moves < MaxMoves
    /\ at + Size[b] - 1 <= Top /\ at % Size[b] = 0
    /\ b \notin Wide => at < End32
    /\ reg' = [reg EXCEPT ![b] = at]
    /\ moves' = moves + 1
    /\ UNCHANGED <<loop, cursors, mappings, onDemand>>

(* POST is over: preassigned addresses are written again. *)
PostEnds ==
    /\ stage = "post"
    /\ stage' = "restore" /\ i' = 1
    /\ UNCHANGED <<cursors, reg, mappings, onDemand, moves>>

(* The BAR an MMIO exit is about: the first whose range holds the address. *)
Touched(a) ==
    LET hit == {n \in DOMAIN Bars : reg[Bars[n]] # 0
                                    /\ a \in Cells(reg[Bars[n]], Size[Bars[n]])}
    IN IF hit = {} THEN 0 ELSE CHOOSE n \in hit : \A k \in hit : n <= k

Covered(a) == a \in Ram \/ \E s \in SlotId : Shows(s, a)

(* lazy_map_bar: a BAR in the mask has been mapped, wherever that was. *)
LazyMap(b, a) ==
    \/ /\ b \in mask
       /\ retry' = a
       /\ UNCHANGED <<kvm, live, mask, lazySlots>>
    \/ \E p \in HostPtr \ Pointers :
          LET s == <<"lazy", lazySlots + 1>>
          IN /\ b \notin mask /\ lazySlots < MaxLazy
             /\ KvmAccepts(s, reg[b], Size[b], p)
             /\ SetRegion(s, reg[b], Size[b], p)
             /\ live' = live \cup {Mapping(b, "lazy", p)}
             /\ mask' = mask \cup {b}
             /\ lazySlots' = lazySlots + 1
             /\ retry' = a

(* The guest touches a cell without memory and the loop maps what is there. *)
MmioExit(a) ==
    /\ stage \in {"boot", "run"} /\ retry = 0
    /\ ~Covered(a)
    /\ Touched(a) # 0
    /\ LazyMap(Bars[Touched(a)], a)
    /\ UNCHANGED <<loop, cursors, reg, slot, booked, moves>>

(* KVM_RUN again: the access goes through, or exits as before. *)
Retry ==
    /\ retry # 0
    /\ Covered(retry)
    /\ retry' = 0
    /\ UNCHANGED <<loop, cursors, reg, mappings, mask, lazySlots, moves>>

(* The run ends in an error: nothing there, mmap or KVM refused (which uses  *)
(* up a slot), or, when the access keeps exiting, the timeout.  A boot that  *)
(* fails drops the VM; after it, the VM is kept.                             *)
RunFails(a) ==
    /\ stage \in {"boot", "run"}
    /\ ~Covered(a)
    /\ retry \in {0, a}
    /\ \/ UNCHANGED lazySlots
       \/ /\ Touched(a) # 0 /\ Bars[Touched(a)] \notin mask
          /\ lazySlots < MaxLazy
          /\ lazySlots' = lazySlots + 1
    /\ stage' = IF stage = "boot" THEN "failed" ELSE stage
    /\ retry' = 0
    /\ UNCHANGED <<i, cursors, reg, mappings, mask, moves>>

(* READY: clear_mapped_bars unmaps what the first round mapped; KVM is not   *)
(* told.                                                                     *)
Unmapped == {m \in live : m.ptr \notin {e.ptr : e \in ToSet(booked)}}

Clear ==
    /\ stage = "boot" /\ retry = 0
    /\ stage' = "remap" /\ i' = 1 /\ slot' = 0
    /\ live' = Unmapped
    /\ booked' = <<>>
    /\ UNCHANGED <<cursors, reg, kvm, onDemand, moves>>

(* destroy: the session unmaps what it booked, the VM goes with its slots;   *)
(* what lazy_map_bar mapped has no owner and stays until the process ends.   *)
Destroy ==
    /\ stage \in {"run", "failed"} /\ retry = 0
    /\ stage' = "gone" /\ i' = 1
    /\ live' = Unmapped
    /\ booked' = <<>>
    /\ kvm' = [s \in SlotId |-> NoSlot]
    /\ slot' = 0 /\ mask' = {} /\ lazySlots' = 0
    /\ UNCHANGED <<cursors, reg, retry, moves>>

(* The next backend opens the device; its reset has cleared the registers. *)
Attach ==
    /\ stage = "gone"
    /\ stage' = "preassign"
    /\ reg' = [b \in Bar |-> 0]
    /\ moves' = 0
    /\ UNCHANGED <<i, cursors, mappings, onDemand>>

Next ==
    \/ PreassignNext \/ PreassignDone \/ MapNext \/ MapDone
    \/ PostEnds \/ Retry \/ Clear \/ Destroy \/ Attach
    \/ \E b \in Bar, a \in Cell : Move(b, a)
    \/ \E a \in Cell : MmioExit(a) \/ RunFails(a)

Spec == Init /\ [][Next]_vars

-----------------------------------------------------------------------------
(* The addresses preassignment hands out do not overlap, are aligned to the  *)
(* BAR's size and, for a 32-bit BAR, end below 4 GB, also when some registers *)
(* could not be written.                                                     *)
AssignedApart ==
    \A b \in Bar : assigned[b] # 0 =>
        /\ assigned[b] % Size[b] = 0
        /\ b \notin Wide => assigned[b] + Size[b] <= End32
        /\ \A c \in Bar \ {b} : assigned[c] # 0 =>
              Cells(assigned[b], Size[b]) \cap Cells(assigned[c], Size[c]) = {}

(* mapped_bars is the truth about the mappings the session made: each is     *)
(* booked once, so that none is leaked and none is unmapped twice ("to avoid *)
(* double-mmap leak").                                                       *)
BooksBalance ==
    /\ \A m \in live : m.by = "early" =>
          \E n \in DOMAIN booked : booked[n].ptr = m.ptr
    /\ \A n \in DOMAIN booked :
          /\ \E m \in live : m.ptr = booked[n].ptr /\ m.by = "early"
          /\ \A k \in DOMAIN booked \ {n} : booked[k].ptr # booked[n].ptr

(* An access that is retried after an MMIO exit finds memory, unless its BAR  *)
(* is mapped on demand somewhere else, from where the guest has moved it     *)
(* since: then it exits for ever.                                            *)
RetryLands ==
    retry # 0 =>
        \/ Covered(retry)
        \/ \E s \in SlotId, m \in live :
              /\ m.bar = Bars[Touched(retry)] /\ m.by = "lazy"
              /\ kvm[s].ptr = m.ptr /\ kvm[s].at # reg[m.bar]

(* No slot of a running VM shows host memory that has been unmapped.         *)
NoStaleSlot ==
    stage \in {"post", "boot", "run"} =>
        \A s \in SlotId : kvm[s] # NoSlot => kvm[s].ptr \in Pointers
=============================================================================
