------------------------------ MODULE BootLinux ------------------------------
(***************************************************************************)
(* Cold boot of a VM, arch/x86_64/boot.rs: boot_linux loads a kernel into  *)
(* memory of its own and hands that memory to KVM, run_vbios_post lets a   *)
(* GPU's option ROM run in real mode in it, and reconfigure_long_mode      *)
(* prepares the VCPU for the kernel a second time.                         *)
(*                                                                         *)
(* Addresses and sizes are guest physical, in units of 64 bytes: that is   *)
(* enough for every structure written and keeps 64 GB within TLC's         *)
(* integers.  memory is the set of extents whose content is still what was *)
(* written there: a write takes away every extent it touches.              *)
(***************************************************************************)
EXTENDS Integers, Sequences, FiniteSets, FiniteSetsExt, SequencesExt

CONSTANTS
  Memory,   \* memory sizes to boot with
  Kernel,   \* kernels: a sequence of segments [lo, file, mem, whole]; the
            \* entry point is the start of the first one
  Initrd,   \* initrd sizes, None for a boot without one
  Bars,     \* sets of the BARs [lo, hi) the host gave the GPU
  Rom,      \* VBIOS image sizes, None when no ROM is found
  None

KB(n) == n * 16
MB(n) == n * 16384

VARIABLES
  config,  \* the BootConfig; aligned is load_addr & 0xFFF = 0
  stage,   \* the call boot is at, "entered" when the kernel may run
  memory,  \* extents [lo, hi, what] of guest memory that hold what was written
  slots,   \* RAM given to KVM: a set of [lo, hi]
  e820,    \* the memory map of boot_params: a set of [lo, hi, usable]
  initrd,  \* where boot_params says the initrd is, None if nowhere
  cpu,     \* mode and registers of the VCPU
  late,    \* the 5 seconds of the option ROM are over
  beat     \* turns with every exit of the option ROM (not in the code)

vars == <<config, stage, memory, slots, e820, initrd, cpu, late, beat>>

GdtAddr == KB(384)          \* 0x60000
Pml4Addr == KB(448)         \* 0x70000
StackTop == KB(512)         \* 0x80000
BootParamsAddr == KB(64)    \* 0x10000
PvhStartInfo == KB(8)       \* 0x2000
PvhCmdline == KB(8) + 2     \* 0x2080
LoadAddr == MB(1)           \* DEFAULT_LOAD_ADDR
RomAddr == KB(768)          \* 0xC0000
StubAddr == KB(32)          \* 0x8000

Extent(lo, size, what) == [lo |-> lo, hi |-> lo + size, what |-> what]
Touch(x, y) == x.lo < y.hi /\ y.lo < x.hi
Inside(x, y) == y.lo <= x.lo /\ x.hi <= y.hi
RoundUp(n, unit) == ((n + unit - 1) \div unit) * unit

Segment(s, i) == Extent(s.lo, s.file, <<"segment", i>>)
Claim(s) == [lo |-> s.lo, hi |-> s.lo + s.mem]

(* Mutated: the kernel ends where its file's bytes end. *)
KernelEnd_File(k) == Max({k[i].lo + k[i].file : i \in DOMAIN k})

KernelEnd(k) == Max({k[i].lo + k[i].mem : i \in DOMAIN k})
InitrdStart(k) == RoundUp(KernelEnd(k), MB(2))

Wrote(W) == {e \in memory : \A w \in W : ~Touch(e, w)} \cup W

\* overlaps_reserved and validate_guest_range
OverlapsReserved(x) ==
  \/ Touch(x, [lo |-> GdtAddr, hi |-> GdtAddr + 4])
  \/ Touch(x, [lo |-> Pml4Addr, hi |-> Pml4Addr + KB(20)])
ValidRange(x) == x.lo < x.hi /\ x.hi <= config.mem /\ ~OverlapsReserved(x)

\* gpu_bar_reserved_regions: the host's BARs inside [1 MB, mem)
Reserved(c) ==
  {[lo |-> Max({b.lo, LoadAddr}), hi |-> Min({b.hi, c.mem})] : b \in
     {b \in c.bars : b.lo < c.mem /\ b.hi > LoadAddr}}

\* They are sorted by their starts.
Holes ==
  CHOOSE s \in [1 .. Cardinality(Reserved(config)) -> Reserved(config)] :
    \A i, j \in DOMAIN s : i < j => s[i].lo < s[j].lo

SizesAssumption ==
  /\ Memory \subseteq Nat /\ None \notin Nat /\ None \notin [leaf : BOOLEAN, to : Nat]
  /\ (Initrd \cup Rom) \ {None} \subseteq Nat

\* Segments do not overlap.
KernelAssumption ==
  /\ Kernel \subseteq Seq([lo : Nat, file : Nat, mem : Nat, whole : BOOLEAN])
  /\ \A k \in Kernel : \A i \in DOMAIN k :
       /\ k[i].file <= k[i].mem
       /\ \A j \in DOMAIN k \ {i} : ~Touch(Claim(k[i]), Claim(k[j]))

\* BARs do not either, and the host has them above 1 MB.
BarsAssumption ==
  \A B \in Bars :
    /\ IsFiniteSet(B) /\ B \subseteq [lo : Nat, hi : Nat]
    /\ \A b \in B : LoadAddr <= b.lo /\ b.lo < b.hi
    /\ \A b, c \in B : b # c => b.hi <= c.lo \/ c.hi <= b.lo

ConfigAssumption == SizesAssumption /\ KernelAssumption /\ BarsAssumption

\* What boot_linux takes for granted: a kernel it accepts is linked at 1 MB or
\* above, as is Linux, and leaves the first GB room for the start of the initrd.
LinkedHigh ==
  \A k \in Kernel : \A i \in DOMAIN k :
    /\ LoadAddr <= k[i].lo \/ OverlapsReserved(Claim(k[i]))
    /\ k[i].lo + k[i].mem <= MB(1022)

\* Kernel and initrd end before the host's first BAR.
BarsAboveInitrd ==
  \A B \in Bars, k \in Kernel, n \in Initrd \ {None} : k # <<>> =>
    \A b \in B : InitrdStart(k) + n <= b.lo

RoomAssumption == LinkedHigh /\ BarsAboveInitrd

Init ==
  /\ config \in [mem : Memory, aligned : BOOLEAN, kernel : Kernel, initrd : Initrd,
                 bars : Bars, pvh : BOOLEAN, rom : Rom]
  /\ stage = "validate"
  /\ memory = {} /\ slots = {} /\ e820 = {}
  /\ initrd = None
  /\ cpu = [mode |-> "none", rip |-> 0, rsi |-> 0, rsp |-> 0]
  /\ late = FALSE /\ beat = 0

Goto(s) == stage' = s

-----------------------------------------------------------------------------
(* boot_linux.  A call that fails ends the boot; the VM's descriptors are  *)
(* closed, the mapping of its memory, which nothing owns yet, is not.      *)

Fail == Goto("failed") /\ UNCHANGED <<config, memory, slots, e820, initrd, cpu, late, beat>>

Valid ==
  /\ config.mem >= MB(1) /\ config.mem <= MB(65536)
  /\ config.aligned

Validate ==
  /\ stage = "validate"
  /\ IF Valid THEN Goto("elf") ELSE Goto("failed")
  /\ UNCHANGED <<config, memory, slots, e820, initrd, cpu, late, beat>>

\* The kernel is read and parsed; one without a PT_LOAD segment is refused.
ParseKernelElf ==
  /\ stage = "elf"
  /\ IF config.kernel # <<>> THEN Goto("segments") ELSE Goto("failed")
  /\ UNCHANGED <<config, memory, slots, e820, initrd, cpu, late, beat>>

\* Each segment is checked with its bss and copied without it.
LoadElfSegments ==
  LET k == config.kernel IN
  /\ stage = "segments"
  /\ IF \A i \in DOMAIN k : ValidRange(Claim(k[i])) /\ k[i].whole
       THEN Goto("initrd") /\ memory' = Wrote({Segment(k[i], i) : i \in DOMAIN k})
       ELSE Goto("failed") /\ UNCHANGED memory
  /\ UNCHANGED <<config, slots, e820, initrd, cpu, late, beat>>

InitrdAt(c) == Extent(InitrdStart(c.kernel), c.initrd, "initrd")

LoadInitrd ==
  /\ stage = "initrd"
  /\ CASE config.initrd = None -> Goto("params") /\ UNCHANGED <<memory, initrd>>
       [] config.initrd # None /\ ValidRange(InitrdAt(config)) ->
            /\ memory' = Wrote({InitrdAt(config)})
            /\ initrd' = InitrdAt(config).lo
            /\ Goto("params")
       [] OTHER -> Goto("failed") /\ UNCHANGED <<memory, initrd>>
  /\ UNCHANGED <<config, slots, e820, cpu, late, beat>>

Usable(lo, hi) == [lo |-> lo, hi |-> hi, usable |-> TRUE]
Taken(lo, hi) == [lo |-> lo, hi |-> hi, usable |-> FALSE]

LowMap == {Usable(0, KB(320)), Taken(KB(320), KB(512)), Usable(KB(512), KB(639))}

\* Main RAM around the first n of the sorted reserved regions.
Split(holes) ==
  LET split[n \in 0 .. Len(holes)] ==
        IF n = 0 THEN [at |-> MB(1), map |-> {}]
        ELSE LET m == split[n - 1]
                 region == holes[n]
             IN IF region.hi <= m.at THEN m
                ELSE [at |-> region.hi,
                      map |-> m.map \cup
                        (IF region.lo <= m.at THEN {}
                         ELSE {Usable(m.at, region.lo), Taken(region.lo, region.hi)})]
  IN split

MainMap ==
  LET last == Split(Holes)[Len(Holes)]
  IN last.map \cup
       (IF last.at < config.mem THEN {Usable(last.at, config.mem)} ELSE {})

BootParams == Extent(BootParamsAddr, KB(4), "boot_params")
Cmdline(what) == Extent(PvhCmdline, 4, what)

\* The fallback command line is written where PVH's will be.
SetupBootParams ==
  /\ stage = "params"
  /\ ValidRange(BootParams)
  /\ memory' = Wrote({BootParams, Cmdline("fallback")})
  /\ e820' = LowMap \cup MainMap
  /\ Goto("pvh")
  /\ UNCHANGED <<config, slots, initrd, cpu, late, beat>>

\* hvm_start_info, the module list and the command line, which is the
\* caller's only here.
WritePvh ==
  /\ stage = "pvh"
  /\ memory' = IF config.pvh
                 THEN Wrote({Extent(PvhStartInfo, 1, "start_info"), Cmdline("cmdline")})
                 ELSE memory
  /\ Goto("slots")
  /\ UNCHANGED <<config, slots, e820, initrd, cpu, late, beat>>

\* Slots before the first n holes.
Around(holes) ==
  LET around[n \in 0 .. Len(holes)] ==
        IF n = 0 THEN [at |-> 0, ram |-> {}]
        ELSE LET r == around[n - 1]
                 hole == holes[n]
             IN [at |-> hole.hi,
                 ram |-> r.ram \cup
                   (IF r.at < hole.lo THEN {[lo |-> r.at, hi |-> hole.lo]} ELSE {})]
  IN around

RamSlots ==
  LET last == Around(Holes)[Len(Holes)]
      all == last.ram \cup
               (IF last.at < config.mem THEN {[lo |-> last.at, hi |-> config.mem]} ELSE {})
  IN IF all = {} THEN {[lo |-> 0, hi |-> config.mem]} ELSE all

SetMemoryRegions ==
  /\ stage = "slots"
  /\ slots' = RamSlots
  /\ Goto("vcpu")
  /\ UNCHANGED <<config, memory, e820, initrd, cpu, late, beat>>

\* TSS address, interrupt chip and PIT if asked for, then the VCPU and CPUID:
\* KVM creates no chip once there is a VCPU.
CreateVcpu ==
  /\ stage = "vcpu"
  /\ cpu' = [cpu EXCEPT !.mode = "reset"]
  /\ Goto("tables")
  /\ UNCHANGED <<config, memory, slots, e820, initrd, late, beat>>

CallFails ==
  stage \in {"elf", "segments", "slots", "vcpu", "tables", "booted", "post", "long"} /\ Fail

PageEntries(c) == RoundUp(c.mem, MB(2)) \div MB(2)

\* Eight entries of a table fill a unit.
Tables(n) == Extent(Pml4Addr, Max({KB(16), KB(8) + RoundUp(n, 8) \div 8}), <<"tables", n>>)
Gdt == Extent(GdtAddr, 1, "gdt")

LongMode == [mode |-> "long", rip |-> config.kernel[1].lo,
             rsi |-> BootParamsAddr, rsp |-> StackTop]

\* setup_page_tables, setup_gdt and the registers; the page directory must
\* end within 0x76000.
Prepare(from, to) ==
  /\ stage = from
  /\ IF PageEntries(config) * 8 <= 16384
       THEN /\ memory' = Wrote({Tables(PageEntries(config)), Gdt})
            /\ cpu' = LongMode
            /\ Goto(to)
       ELSE Goto("failed") /\ UNCHANGED <<memory, cpu>>
  /\ UNCHANGED <<config, slots, e820, initrd, late, beat>>

FirstPrepare == Prepare("tables", "booted")

-----------------------------------------------------------------------------
(* FreshBootBackend::init goes on with the ROM it finds, if any.           *)

\* find_and_read_vbios takes no file below 512 bytes or above 4 MB.
RomFound(c) == c.rom # None /\ c.rom >= 8 /\ c.rom <= MB(4)

NoRom ==
  /\ stage = "booted" /\ ~RomFound(config)
  /\ Goto("entered")
  /\ UNCHANGED <<config, memory, slots, e820, initrd, cpu, late, beat>>

\* A ROM is cut off where the kernel may begin.
RomCopied(c) == Min({c.rom, LoadAddr - RomAddr})

\* vbios_write_ivt, _bda, vbios_copy_rom and vbios_write_stub; then the VCPU
\* starts at the stub's far call, in real mode.
StartPost ==
  /\ stage = "booted" /\ RomFound(config)
  /\ memory' = Wrote({Extent(0, 16, "ivt"), Extent(16, 4, "bda"),
                      Extent(StubAddr, 1, "stub"), Extent(RomAddr, RomCopied(config), "rom")})
  /\ cpu' = [mode |-> "real", rip |-> StubAddr, rsi |-> 0, rsp |-> KB(56)]
  /\ Goto("post")
  /\ UNCHANGED <<config, slots, e820, initrd, late, beat>>

\* After the time is up, whatever the exit says, the boot goes on.
PostExit ==
  /\ stage = "post"
  /\ \E reason \in {"hlt", "io", "mmio", "fail_entry", "other"} :
       stage' = CASE late \/ reason = "hlt" -> "long"
                  [] ~late /\ reason \in {"io", "mmio"} -> "post"
                  [] OTHER -> "failed"
  /\ beat' = 1 - beat
  /\ UNCHANGED <<config, memory, slots, e820, initrd, cpu, late>>

TimePasses ==
  /\ stage = "post" /\ ~late
  /\ late' = TRUE
  /\ UNCHANGED <<config, stage, memory, slots, e820, initrd, cpu, beat>>

ReconfigureLongMode == Prepare("long", "entered")

Boot ==
  \/ Validate \/ ParseKernelElf \/ LoadElfSegments \/ LoadInitrd
  \/ SetupBootParams \/ WritePvh \/ SetMemoryRegions \/ CreateVcpu \/ FirstPrepare
  \/ NoRom \/ StartPost \/ PostExit \/ ReconfigureLongMode

Done == stage \in {"entered", "failed"} /\ UNCHANGED vars

Next == Boot \/ CallFails \/ TimePasses \/ Done

\* The host runs the boot; the ROM keeps exiting, to a port, a register or by
\* HLT, as the code's own timeout presumes.
Spec == Init /\ [][Next]_vars /\ WF_vars(Boot) /\ WF_vars(TimePasses)

-----------------------------------------------------------------------------
(* Properties                                                              *)

Stages == {"validate", "elf", "segments", "initrd", "params", "pvh", "slots",
           "vcpu", "tables", "booted", "post", "long", "entered", "failed"}

\* The stages, the extents and the mode of the VCPU are those of the code.
TypeOK ==
  /\ stage \in Stages
  /\ \A e \in memory : e.lo \in Nat /\ e.hi \in Nat
  /\ cpu.mode \in {"none", "reset", "real", "long"}
  /\ late \in BOOLEAN /\ beat \in {0, 1}

Segments == {Segment(config.kernel[i], i) : i \in DOMAIN config.kernel}

\* Everything the kernel will look for is still what was written when it is
\* entered, with the ROM's stubs and tables between: its segments, the initrd
\* outside the room of every segment (the kernel clears its bss), boot_params,
\* GDT, page tables and the command line, the caller's if PVH is on.
ImageIntact ==
  stage = "entered" =>
    /\ Segments \cup {BootParams, Gdt, Tables(PageEntries(config))} \subseteq memory
    /\ Cmdline(IF config.pvh THEN "cmdline" ELSE "fallback") \in memory
    /\ initrd # None =>
         /\ InitrdAt(config) \in memory
         /\ \A i \in DOMAIN config.kernel : ~Touch(InitrdAt(config), Claim(config.kernel[i]))

\* What KVM backs and what e820 tells the kernel agree: usable memory lies
\* within one slot, no BAR of the host is backed or usable, nothing is listed
\* twice, and the initrd lies in usable memory.
MemoryMapAgrees ==
  stage \in {"booted", "post", "long", "entered"} =>
    /\ \A e \in e820 : e.usable =>
         /\ e.lo < e.hi
         /\ \E s \in slots : Inside(e, s)
         /\ \A b \in config.bars : ~Touch(e, b) \/ b.hi <= LoadAddr
         /\ \A f \in e820 \ {e} : ~Touch(e, f)
    /\ \A b \in config.bars : \A s \in slots : b.lo >= LoadAddr => ~Touch(b, s)
    /\ initrd # None => \E e \in e820 : e.usable /\ Inside(InitrdAt(config), e)

(* The tables setup_page_tables leaves, by the 8-byte entries it writes:   *)
(* the directory last, over whatever its n entries reach.  Entry e of the  *)
(* table at page t is number 512 * t + e from PML4 on.                     *)
Link == [i \in {0, 511, 512, 3 * 512 + 510} |-> IF i = 0 THEN 1 ELSE IF i = 511 THEN 3 ELSE 2]

EntryAt(n, i) ==
  CASE i >= 1024 /\ i < 1024 + n -> [leaf |-> TRUE, to |-> i - 1024]
    [] ~(i >= 1024 /\ i < 1024 + n) /\ i \in DOMAIN Link -> [leaf |-> FALSE, to |-> Link[i]]
    [] OTHER -> None

\* The 2 MB page that a walk reaches from entry a of PML4, b of the next
\* table and c of the directory; None if an entry is missing or is a page
\* where a table must be.
Walk(n, a, b, c) ==
  LET top == EntryAt(n, a)
      mid == IF top = None \/ top.leaf THEN None ELSE EntryAt(n, 512 * top.to + b)
      low == IF mid = None \/ mid.leaf THEN None ELSE EntryAt(n, 512 * mid.to + c)
  IN IF low = None \/ ~low.leaf THEN None ELSE low.to

Identity(n, page) == Walk(n, 0, page \div 512, page % 512)
KernelHalf(n, page) == Walk(n, 511, 510 + page \div 512, page % 512)

\* The kernel is entered in long mode, on tables that identity-map its entry
\* point, its stack, boot_params and the initrd's first page, whether or not
\* a ROM ran in real mode before it.
EntryMapped ==
  stage = "entered" =>
    /\ cpu.mode = "long" /\ cpu.rip = config.kernel[1].lo /\ cpu.rsi = BootParamsAddr
    /\ \A a \in {cpu.rip, cpu.rsi, cpu.rsp - 1} \cup ({initrd} \ {None}) :
         Identity(PageEntries(config), a \div MB(2)) = a \div MB(2)

\* As setup_page_tables is documented: the identity map covers the first
\* mem_size bytes, and 0xffffffff80000000 maps to physical 0 and on.
MapsAllMemory ==
  stage = "entered" =>
    LET n == PageEntries(config) IN
    /\ \A p \in 0..(n - 1) : Identity(n, p) = p
    /\ KernelHalf(n, 0) = 0

\* A boot ends, with the kernel entered or with an error, however long the
\* ROM goes on with ports and registers.
BootReturns == <>(stage \in {"entered", "failed"})

=============================================================================
