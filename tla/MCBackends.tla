----------------------------- MODULE MCBackends -----------------------------
(* How the backends bring up a machine and run code on it, in one run:      *)
(* boot_linux, the CPU state a fork is given, a QEMU process, a host GPU    *)
(* worker, and the deferred scheduler on its pools.  They share no state    *)
(* here, so a behaviour picks one part and the others are off.              *)
EXTENDS Naturals, Sequences, TLC

CONSTANTS
  Part,  \* the parts of this run
  Off,   \* what the variables of the other parts hold
  None,
  Memory, Kernel, Initrd, Bars, Rom,
  Host, NMsrs, MaxFaults,
  Programs, PipeMax,
  Proc, NoProc, Variant, Supported, NoVariant, MaxCall,
  Engine, NoEngine, VM, MaxAsk, MaxBatch,
  v1, v2, i1, i2, i3

VARIABLES
  part,
  config, stage, memory, slots, e820, initrd, cpu, late, beat,
  pc, irqchip, booted, snap, vm, lapic, net, timer, faults,
  up, kind, vbios, process, orphans, gpu, bound, at, code, overdue, lines, found,
  outcome, console, pipe,
  phase, goal, wanted, initialized, variant, worker, child, call, last, proc, input,
  reply, job, ran,
  registered, engine, limits, idle, held, image, used, owed, queue, pending, manager,
  step, items, eff, base, pos, acquired, running, outputs, results, failed

\* The memory sizes of the variants (128 MB is 512 MB's case, 3 GB and the
\* 0xFEC00000 of the GPU ones), the smallest, and sizes that are refused; a stub
\* at 1 MB, a Linux kernel with a bss, and kernels that cannot be loaded; BARs
\* as firmware places them below 4 GB.  The unit is 64 bytes (BootLinux).
KB(n) == n * 16
MB(n) == n * 16384

Seg(lo, file, mem, whole) == [lo |-> lo, file |-> file, mem |-> mem, whole |-> whole]

MCMemory == {KB(512), MB(1), MB(64), MB(512), MB(3072), MB(4076), MB(5120)}

MCKernel ==
  {<<>>,
   <<Seg(MB(1), 1, 1, TRUE)>>,
   <<Seg(MB(16), MB(10), MB(10), TRUE), Seg(MB(28), MB(1), MB(9), TRUE),
     Seg(MB(26), KB(8), KB(64), TRUE)>>,
   <<Seg(MB(16), MB(10), MB(10), FALSE)>>,
   <<Seg(KB(444), KB(8), KB(8), TRUE)>>}

MCInitrd == {None, MB(25), MB(1100)}

Bar(lo, hi) == [lo |-> lo, hi |-> hi]

MCBars ==
  {{}, {Bar(MB(3584), MB(3840)), Bar(MB(3840), MB(3872)), Bar(MB(4064), MB(4080))},
   {Bar(MB(4000), MB(4016)), Bar(MB(6144), MB(8192))}}

MCRom == {None, 1, KB(64), KB(512), MB(5)}


\* What the programs given to QEMU print.
MCPrograms == {<<"out">>, <<"out", "blank", "out">>, <<"bye", "out">>, <<"DONE", "out">>}

\* Three snippets, two of one variant; pools that may hold a VM or must.
MCConfig == {[min |-> 0, max |-> 1], [min |-> 1, max |-> 2]}
MCVariantOf == (i1 :> v1) @@ (i2 :> v2) @@ (i3 :> v1)

Boot == INSTANCE BootLinux
Cpu == INSTANCE CpuState WITH boot <- booted
Emu == INSTANCE Qemu WITH initialized <- up, variant <- kind,
         child <- process, phase <- at, late <- overdue, guest <- console
Gpu == INSTANCE HostGpu WITH asked <- wanted
Lazy == INSTANCE LazyFork WITH Variant <- {v1, v2}, Config <- MCConfig,
          Item <- {i1, i2, i3}, VariantOf <- MCVariantOf,
          config <- limits, timer <- pending, phase <- step

ASSUME Assumptions ==
  /\ Boot!ConfigAssumption /\ Boot!RoomAssumption /\ Cpu!CpuAssumption /\ Emu!QemuAssumption
  /\ Gpu!ProcAssumption /\ Gpu!VariantAssumption /\ Gpu!CallAssumption
  /\ Lazy!ConfigAssumption /\ Lazy!AskAssumption /\ Lazy!EngineAssumption
  /\ Lazy!ItemAssumption /\ Lazy!BatchAssumption

bootVars == <<config, stage, memory, slots, e820, initrd, cpu, late, beat>>
cpuVars == <<pc, irqchip, booted, snap, vm, lapic, net, timer, faults>>
qemuVars == <<up, kind, vbios, process, orphans, gpu, bound, at, code, overdue, lines,
              found, outcome, console, pipe>>
workerVars == <<phase, goal, wanted, initialized, variant, worker, child, call, last,
                proc, input, reply, job, ran>>
lazyVars == <<registered, engine, limits, idle, held, image, used, owed, queue,
              pending, manager, step, items, eff, base, pos, acquired, running,
              outputs, results, failed>>

bootOff == config = Off /\ stage = Off /\ memory = Off /\ slots = Off /\ e820 = Off /\
           initrd = Off /\ cpu = Off /\ late = Off /\ beat = Off
cpuOff == pc = Off /\ irqchip = Off /\ booted = Off /\ snap = Off /\ vm = Off /\
          lapic = Off /\ net = Off /\ timer = Off /\ faults = Off
qemuOff == up = Off /\ kind = Off /\ vbios = Off /\ process = Off /\ orphans = Off /\
           gpu = Off /\ bound = Off /\ at = Off /\ code = Off /\ overdue = Off /\
           lines = Off /\ found = Off /\ outcome = Off /\ console = Off /\ pipe = Off
workerOff == phase = Off /\ goal = Off /\ wanted = Off /\ initialized = Off /\
             variant = Off /\ worker = Off /\ child = Off /\ call = Off /\
             last = Off /\ proc = Off /\ input = Off /\ reply = Off /\ job = Off /\
             ran = Off
lazyOff == registered = Off /\ engine = Off /\ limits = Off /\ idle = Off /\
           held = Off /\ image = Off /\ used = Off /\ owed = Off /\ queue = Off /\
           pending = Off /\ manager = Off /\ step = Off /\ items = Off /\ eff = Off /\
           base = Off /\ pos = Off /\ acquired = Off /\ running = Off /\
           outputs = Off /\ results = Off /\ failed = Off

Init ==
  \/ part = "boot" /\ "boot" \in Part /\ Boot!Init /\ cpuOff /\ qemuOff /\ workerOff /\ lazyOff
  \/ part = "cpu" /\ "cpu" \in Part /\ Cpu!Init /\ bootOff /\ qemuOff /\ workerOff /\ lazyOff
  \/ part = "qemu" /\ "qemu" \in Part /\ Emu!Init /\ bootOff /\ cpuOff /\ workerOff /\ lazyOff
  \/ part = "worker" /\ "worker" \in Part /\ Gpu!Init /\ bootOff /\ cpuOff /\ qemuOff /\ lazyOff
  \/ part = "lazy" /\ "lazy" \in Part /\ Lazy!LazyInit /\ bootOff /\ cpuOff /\ qemuOff /\ workerOff

Next ==
  /\ UNCHANGED part
  /\ \/ part = "boot" /\ Boot!Next /\ UNCHANGED <<cpuVars, qemuVars, workerVars, lazyVars>>
     \/ part = "cpu" /\ Cpu!Next /\ UNCHANGED <<bootVars, qemuVars, workerVars, lazyVars>>
     \/ part = "qemu" /\ Emu!Next /\ UNCHANGED <<bootVars, cpuVars, workerVars, lazyVars>>
     \/ part = "worker" /\ Gpu!Next /\ UNCHANGED <<bootVars, cpuVars, qemuVars, lazyVars>>
     \/ part = "lazy" /\ Lazy!LazyNext /\ UNCHANGED <<bootVars, cpuVars, qemuVars, workerVars>>

\* The fairness of each part, see there.
Fairness ==
  /\ WF_bootVars(part = "boot" /\ Boot!Boot) /\ WF_bootVars(part = "boot" /\ Boot!TimePasses)
  /\ WF_cpuVars(part = "cpu" /\ Cpu!Prepare) /\ WF_cpuVars(part = "cpu" /\ Cpu!Enter)
  /\ SF_cpuVars(part = "cpu" /\ Cpu!ExitAndDrain)
  /\ SF_cpuVars(part = "cpu" /\ Cpu!TakeNetIrq) /\ SF_cpuVars(part = "cpu" /\ Cpu!TakeTimer)
  /\ WF_qemuVars(part = "qemu" /\ Emu!HostStep) /\ WF_qemuVars(part = "qemu" /\ Emu!GuestStep)
  /\ WF_qemuVars(part = "qemu" /\ Emu!TimePasses)
  /\ WF_workerVars(part = "worker" /\ Gpu!TimesOut) /\ WF_workerVars(part = "worker" /\ Gpu!Stopped)
  /\ WF_lazyVars(part = "lazy" /\ Lazy!RealizeStep)

vars == <<part, bootVars, cpuVars, qemuVars, workerVars, lazyVars>>
Spec == Init /\ [][Next]_vars
FairSpec == Spec /\ Fairness

------------------------------------------------------------------------------
(* The states of all five parts are well formed.                            *)
TypeOK ==
  /\ part = "boot" => Boot!TypeOK
  /\ part = "cpu" => Cpu!TypeOK
  /\ part = "qemu" => Emu!TypeOK
  /\ part = "worker" => Gpu!TypeOK
  /\ part = "lazy" => Lazy!LazyTypeOK

(* boot_linux: when the kernel is entered everything it will look for is    *)
(* where boot_params, the page tables and the registers say, untouched by   *)
(* later writes and by the ROM; memory map, slots and BARs agree.           *)
BootImageRight == part = "boot" => Boot!ImageIntact /\ Boot!MemoryMapAgrees /\ Boot!EntryMapped

(* A fork that starts to run has the state that was captured, with a clean  *)
(* XSAVE area XCR0 allows and IRQ 11 open on both chips (CpuState, fork).   *)
CpuRestored == part = "cpu" => Cpu!CpuRestored

(* With an irqchip and no failing ioctl the interrupt of a received frame   *)
(* and the timer's reach the guest (inject_lapic_irq, clear_lapic_isr).     *)
IrqsArrive ==
  /\ (part = "cpu" /\ irqchip /\ net.isr /\ faults = 0) ~> (part # "cpu" \/ ~net.isr \/ faults > 0)
  /\ (part = "cpu" /\ timer /\ faults = 0) ~> (part # "cpu" \/ ~timer \/ faults > 0)

(* QemuBackend: between calls no QEMU runs, however the last exec ended;    *)
(* and a result that ends in DONE has every line the program printed,       *)
(* whether or not the console echoed the command.                           *)
QemuSound == part = "qemu" => Emu!NoQemuLeft /\ Emu!OutputKept

(* HostGpuForkBackend: a reply is the reply to the call that returns it, no *)
(* process is left behind, and after reset the worker is one that has       *)
(* executed nothing.                                                        *)
WorkerSound == part = "worker" => Gpu!OwnReply /\ Gpu!NoStrayWorker /\ Gpu!ResetIsInit

(* LazyForkScheduler: whatever failed or panicked in a batch, when          *)
(* realize() is over every VM is back in a pool or destroyed, and a pool    *)
(* holds VMs of its own engine only.                                        *)
EveryVmBack == part = "lazy" => Lazy!EveryVmBack /\ Lazy!IdlePure

(* LazyForkScheduler: a result from a chunk with no failed acquire is that  *)
(* of the snippet queued at its place, run on a VM of its own variant.      *)
InOrderUnlessFailed == part = "lazy" => Lazy!InOrderUnlessFailed

\* A call is under way; an exec of QEMU does not count once its guest hangs in
\* silence, as the deadline is looked at only when there is a line.
Waiting ==
  \/ part = "boot" /\ stage \notin {"entered", "failed"}
  \/ part = "qemu" /\ at = "reading" /\ ~(Emu!Running /\ pipe = <<>> /\ console = "hung")
  \/ part = "worker" /\ phase = "waiting"
  \/ part = "lazy" /\ step # "idle"

(* Every call ends: boot_linux whatever its ROM does, an exec of QEMU, a    *)
(* command of the host worker though it never answers, and realize().       *)
CallsReturn == Waiting ~> ~Waiting

==============================================================================
