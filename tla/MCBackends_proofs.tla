-------------------------- MODULE MCBackends_proofs --------------------------
(***************************************************************************)
(* Proofs about MCBackends, the composition that is model-checked: what is *)
(* proved of a component in a module of its own is carried over, as a step *)
(* of the composition is a step of one part and a stutter of the others.   *)
(***************************************************************************)
EXTENDS MCBackends, FiniteSetTheorems, SequenceTheorems, WellFoundedInduction, TLAPS

Worker == INSTANCE HostGpu_proofs WITH asked <- wanted

-----------------------------------------------------------------------------
(* The host GPU worker                                                     *)

WorkerInv == part = "worker" => Worker!IInv

LEMMA WorkerAssumed == Worker!Assumptions
  BY Assumptions DEF Worker!Assumptions, Worker!ProcAssumption, Gpu!ProcAssumption,
     Worker!VariantAssumption, Gpu!VariantAssumption, Worker!CallAssumption,
     Gpu!CallAssumption

LEMMA WorkerInit == Init => WorkerInv
  BY WorkerAssumed, Worker!InitEstablishes DEF Init, WorkerInv, Gpu!Init, Worker!Init,
     Gpu!Ended, Worker!Ended

(* The worker's steps are the same under either name.                      *)
LEMMA WorkerSame == Gpu!Next <=> Worker!Next
  BY DEF Gpu!Next, Worker!Next, Gpu!InitAgain, Worker!InitAgain,
     Gpu!InitFresh, Worker!InitFresh, Gpu!Spawn, Worker!Spawn,
     Gpu!SpawnFails, Worker!SpawnFails, Gpu!SpawnReady, Worker!SpawnReady,
     Gpu!SpawnRefused, Worker!SpawnRefused, Gpu!Command, Worker!Command,
     Gpu!Receive, Worker!Receive, Gpu!ReceiveEnd, Worker!ReceiveEnd,
     Gpu!TimesOut, Worker!TimesOut, Gpu!Reset, Worker!Reset, Gpu!Stop,
     Worker!Stop, Gpu!Stopped, Worker!Stopped, Gpu!New, Worker!New,
     Gpu!WorkerBoots, Worker!WorkerBoots, Gpu!WorkerTakes,
     Worker!WorkerTakes, Gpu!WorkerAnswers, Worker!WorkerAnswers,
     Gpu!WorkerDies, Worker!WorkerDies, Gpu!Return, Worker!Return, Gpu!GoOn,
     Worker!GoOn, Gpu!AskToStop, Worker!AskToStop, Gpu!Alive, Worker!Alive,
     Gpu!Message, Worker!Message, Gpu!Ended, Worker!Ended, Gpu!backend,
     Worker!backend, Gpu!pipes, Worker!pipes, Gpu!processes,
     Worker!processes

LEMMA WorkerMoves ==
  ASSUME [Next]_vars, part' = "worker"
  PROVE  part = "worker" /\ [Worker!Next]_(Worker!vars)
  <1>1. part = "worker"
    BY DEF Next, vars
  <1> QED BY <1>1, WorkerSame DEF Next, vars, workerVars, Worker!vars

LEMMA WorkerStep == WorkerInv /\ [Next]_vars => WorkerInv'
  BY WorkerMoves, WorkerAssumed, Worker!StepKeeps DEF WorkerInv

THEOREM WorkerInvariance == Spec => []WorkerInv
  BY WorkerInit, WorkerStep, PTL DEF Spec

(* A reply is the reply to the call that returns it, no process is left    *)
(* behind, and reset() gives a worker that has run nothing.                *)
THEOREM WorkerIsSound == Spec => []WorkerSound
  <1>1. WorkerInv => WorkerSound
    BY DEF WorkerInv, WorkerSound, Worker!IInv, Gpu!OwnReply, Worker!OwnReply,
           Gpu!NoStrayWorker, Worker!NoStrayWorker, Gpu!ResetIsInit, Worker!ResetIsInit,
           Gpu!Ended, Worker!Ended
  <1> QED BY <1>1, WorkerInvariance, PTL

-----------------------------------------------------------------------------
(***************************************************************************)
(* The processor of a fork.  What a stage has put in place stays in place  *)
(* to the last one, and each stage relies on those before it: a clean      *)
(* XSAVE area fits XCR0 only because XCR0 was captured, is not empty and   *)
(* was accepted.                                                           *)
(***************************************************************************)
Executes == {"top", "guest"}
HasArea == Executes \cup {"apic"}
HasXcrs == HasArea \cup {"xsave"}
HasMsrs == HasXcrs \cup {"xcrs"}
HasRegs == HasMsrs \cup {"msrs"}
HasSregs == HasRegs \cup {"regs"}
HasCpuid == HasSregs \cup {"sregs"}
HasChips == HasCpuid \cup {"cpuid"}
HasSnapshot == HasChips \cup {"fork", "chips", "irq11"}

(* What the guest kernel turned on is among what it was offered.           *)
GuestRight ==
  /\ 0 \in booted.xcr0 /\ booted.open \subseteq {"slave"}
  /\ pc # "boot" => booted.cpuid = Cpu!SetupCpuid(Host)
  /\ booted.xcr0 \subseteq booted.cpuid \cup {0}

SnapshotRight ==
  pc \in HasSnapshot /\ faults = 0 => snap.xcrs = booted.xcr0 /\ snap.chips = Cpu!Chip

ChipsRight ==
  /\ pc = "irq11" /\ faults = 0 => vm.chips = Cpu!Chip
  /\ pc \in {"irq11"} => vm.open \subseteq {"slave"}
  /\ pc \in HasChips /\ faults = 0 /\ irqchip =>
       vm.chips = Cpu!Chip /\ vm.open = {"slave", "ioapic"}

VcpuRight ==
  /\ pc \in HasCpuid => vm.cpuid = booted.cpuid
  /\ pc \in HasSregs => vm.sregs
  /\ pc \in HasRegs => vm.regs
  /\ pc \in HasMsrs /\ faults = 0 => vm.msrs = snap.msrs
  /\ pc \in HasXcrs /\ faults = 0 => vm.xcr0 = booted.xcr0
  /\ pc \in HasArea /\ faults = 0 => vm.xstate \subseteq vm.xcr0

CpuInv == Cpu!TypeOK /\ GuestRight /\ SnapshotRight /\ ChipsRight /\ VcpuRight

LEMMA CpuAssumed ==
  /\ {0, 1, 2} \subseteq Host /\ NMsrs \in Nat \ {0} /\ MaxFaults \in Nat
  BY Assumptions DEF Cpu!CpuAssumption

LEMMA CpuFault ==
  ASSUME NEW o, Cpu!Ioctl(o), faults \in 0 .. MaxFaults
  PROVE  faults' \in 0 .. MaxFaults /\ (faults' = 0 => o = "ok" /\ faults = 0)
  BY CpuAssumed, SMT DEF Cpu!Ioctl

LEMMA CpuInit == Cpu!Init => CpuInv
  <1> SUFFICES ASSUME Cpu!Init PROVE CpuInv
    OBVIOUS
  <1> USE DEF Cpu!Init, Cpu!FreshVm, Cpu!FreshLapic, Cpu!NoSnapshot
  <1>1. Cpu!TypeOK
    <2>0. {0} \in SUBSET Host /\ 0 \in 0 .. NMsrs /\ 0 \in 0 .. MaxFaults
      BY CpuAssumed
    <2>1. booted \in [cpuid : SUBSET Host, xcr0 : SUBSET Host, apic : BOOLEAN, open : SUBSET Cpu!Chip]
      BY <2>0
    <2>2. vm \in [cpuid : SUBSET Host, sregs : BOOLEAN, regs : BOOLEAN, msrs : 0 .. NMsrs,
                  xcr0 : SUBSET Host, xstate : SUBSET Host, chips : SUBSET Cpu!Chip,
                  open : SUBSET Cpu!Chip, queued : BOOLEAN]
      BY <2>0
    <2>3. snap \in [msrs : 0 .. NMsrs, xcrs : SUBSET Host, chips : SUBSET Cpu!Chip]
      BY <2>0
    <2> QED BY <2>0, <2>1, <2>2, <2>3 DEF Cpu!TypeOK
  <1>2. GuestRight
    BY DEF GuestRight
  <1>3. SnapshotRight /\ ChipsRight /\ VcpuRight
    BY DEF SnapshotRight, ChipsRight, VcpuRight, HasSnapshot, HasChips, HasCpuid,
       HasSregs, HasRegs, HasMsrs, HasXcrs, HasArea, Executes
  <1> QED BY <1>1, <1>2, <1>3 DEF CpuInv

LEMMA CpuBoots == CpuInv /\ Cpu!GuestBoots => CpuInv'
  <1> SUFFICES ASSUME CpuInv, Cpu!GuestBoots PROVE CpuInv'
    OBVIOUS
  <1>0. PICK on \in SUBSET Cpu!SetupCpuid(Host), apic \in BOOLEAN, open \in SUBSET {"slave"} :
          /\ 0 \in on
          /\ booted' = [cpuid |-> Cpu!SetupCpuid(Host), xcr0 |-> on, apic |-> apic, open |-> open]
    BY DEF Cpu!GuestBoots
  <1> USE DEF Cpu!GuestBoots, Cpu!Rest
  <1>1. Cpu!TypeOK'
    <2>1. Cpu!SetupCpuid(Host) \subseteq Host
      BY DEF Cpu!SetupCpuid
    <2>2. booted' \in [cpuid : SUBSET Host, xcr0 : SUBSET Host, apic : BOOLEAN, open : SUBSET Cpu!Chip]
      BY <1>0, <2>1 DEF Cpu!Chip
    <2> QED BY <2>2 DEF CpuInv, Cpu!TypeOK
  <1>2. GuestRight'
    BY <1>0 DEF GuestRight
  <1>3. (SnapshotRight /\ ChipsRight /\ VcpuRight)'
    BY DEF SnapshotRight, ChipsRight, VcpuRight, HasSnapshot, HasChips, HasCpuid,
       HasSregs, HasRegs, HasMsrs, HasXcrs, HasArea, Executes
  <1> QED BY <1>1, <1>2, <1>3 DEF CpuInv

LEMMA CpuCaptures == CpuInv /\ (Cpu!Capture \/ Cpu!CaptureFails) => CpuInv'
  <1> SUFFICES ASSUME CpuInv, Cpu!Capture \/ Cpu!CaptureFails PROVE CpuInv'
    OBVIOUS
  <1> USE DEF HasSnapshot, HasChips, HasCpuid, HasSregs, HasRegs, HasMsrs, HasXcrs,
       HasArea, Executes, Cpu!Rest
  <1>1. CASE Cpu!CaptureFails
    <2>1. Cpu!TypeOK'
      BY <1>1, CpuFault DEF CpuInv, Cpu!TypeOK, Cpu!CaptureFails
    <2>2. (GuestRight /\ SnapshotRight /\ ChipsRight /\ VcpuRight)'
      BY <1>1 DEF CpuInv, GuestRight, SnapshotRight, ChipsRight, VcpuRight, Cpu!CaptureFails
    <2> QED BY <2>1, <2>2 DEF CpuInv
  <1>2. CASE Cpu!Capture
    <2>0. PICK o \in Cpu!Outcome, what \in {"msrs", "xcrs"} \cup Cpu!Chip, n \in 0 .. NMsrs :
            /\ Cpu!Ioctl(o)
            /\ snap' = [msrs |-> Cpu!SaveCriticalMsrs(o = "ok" \/ what # "msrs", n),
                        xcrs |-> Cpu!GetXcrs(o = "ok" \/ what # "xcrs"),
                        chips |-> IF o = "ok" THEN Cpu!Chip ELSE Cpu!SaveIrqchipState(what)]
      BY <1>2 DEF Cpu!Capture
    <2>f. faults' \in 0 .. MaxFaults /\ (faults' = 0 => o = "ok" /\ faults = 0)
      BY <2>0, CpuFault DEF CpuInv, Cpu!TypeOK
    <2>1. Cpu!TypeOK'
      <3>1. Cpu!SaveCriticalMsrs(o = "ok" \/ what # "msrs", n) \in 0 .. NMsrs
        BY CpuAssumed DEF Cpu!SaveCriticalMsrs
      <3>2. Cpu!GetXcrs(o = "ok" \/ what # "xcrs") \in SUBSET Host
        BY DEF Cpu!GetXcrs, CpuInv, Cpu!TypeOK
      <3>3. (IF o = "ok" THEN Cpu!Chip ELSE Cpu!SaveIrqchipState(what)) \in SUBSET Cpu!Chip
        BY DEF Cpu!SaveIrqchipState
      <3>4. snap' \in [msrs : 0 .. NMsrs, xcrs : SUBSET Host, chips : SUBSET Cpu!Chip]
        BY <2>0, <3>1, <3>2, <3>3
      <3> QED BY <1>2, <2>f, <3>4 DEF CpuInv, Cpu!TypeOK, Cpu!Capture
    <2>2. GuestRight'
      BY <1>2 DEF CpuInv, GuestRight, Cpu!Capture
    <2>3. SnapshotRight'
      BY <1>2, <2>0, <2>f DEF SnapshotRight, Cpu!Capture, Cpu!GetXcrs
    <2>4. (ChipsRight /\ VcpuRight)'
      BY <1>2 DEF ChipsRight, VcpuRight, Cpu!Capture
    <2> QED BY <2>1, <2>2, <2>3, <2>4 DEF CpuInv
  <1> QED BY <1>1, <1>2

(***************************************************************************)
(* fork(): a step that only writes the VM and faults.                      *)
(***************************************************************************)
VmType == [cpuid : SUBSET Host, sregs : BOOLEAN, regs : BOOLEAN, msrs : 0 .. NMsrs,
           xcr0 : SUBSET Host, xstate : SUBSET Host, chips : SUBSET Cpu!Chip,
           open : SUBSET Cpu!Chip, queued : BOOLEAN]

LapicType == [base : BOOLEAN, sw : BOOLEAN, extint : BOOLEAN, irr : BOOLEAN, isr : BOOLEAN]

(* The stages of the fork only write the VM, its LAPIC and the faults.     *)
LEMMA CpuFrame ==
  ASSUME CpuInv, UNCHANGED <<booted, snap, irqchip, net, timer>>,
         pc \in HasSnapshot, vm' \in VmType, lapic' \in LapicType,
         faults' \in 0 .. MaxFaults, faults' = 0 => faults = 0
  PROVE  Cpu!TypeOK' /\ (pc' # "boot" => GuestRight') /\ SnapshotRight'
  <1>0. pc # "boot"
    BY DEF HasSnapshot, HasChips, HasCpuid, HasSregs, HasRegs, HasMsrs, HasXcrs,
           HasArea, Executes
  <1>1. Cpu!TypeOK'
    BY DEF CpuInv, Cpu!TypeOK, VmType, LapicType
  <1>2. pc' # "boot" => GuestRight'
    BY <1>0 DEF CpuInv, GuestRight
  <1>3. SnapshotRight'
    BY DEF CpuInv, SnapshotRight
  <1> QED BY <1>1, <1>2, <1>3

LEMMA CpuTypes ==
  ASSUME CpuInv
  PROVE  /\ vm \in VmType /\ lapic \in LapicType /\ faults \in 0 .. MaxFaults
         /\ irqchip \in BOOLEAN
         /\ booted \in [cpuid : SUBSET Host, xcr0 : SUBSET Host, apic : BOOLEAN, open : SUBSET Cpu!Chip]
         /\ snap \in [msrs : 0 .. NMsrs, xcrs : SUBSET Host, chips : SUBSET Cpu!Chip]
  BY DEF CpuInv, Cpu!TypeOK, VmType, LapicType

LEMMA CpuChips ==
  CpuInv /\ (Cpu!CreateIrqchip \/ Cpu!RestoreIrqchips \/ Cpu!OpenIrq11) => CpuInv'
  <1> SUFFICES ASSUME CpuInv, Cpu!CreateIrqchip \/ Cpu!RestoreIrqchips \/ Cpu!OpenIrq11
               PROVE  CpuInv'
    OBVIOUS
  <1> USE CpuTypes DEF HasSnapshot, HasChips, HasCpuid, HasSregs, HasRegs, HasMsrs, HasXcrs,
       HasArea, Executes, Cpu!Rest
  <1>1. CASE Cpu!CreateIrqchip
    <2>0. PICK o \in Cpu!Outcome :
            /\ irqchip \/ o = "ok"
            /\ Cpu!Ioctl(o)
            /\ pc' = IF ~irqchip THEN "cpuid" ELSE IF o = "ok" THEN "chips" ELSE "fork"
      BY <1>1 DEF Cpu!CreateIrqchip
    <2>1. faults' \in 0 .. MaxFaults /\ (faults' = 0 => o = "ok" /\ faults = 0)
      BY <2>0, CpuFault
    <2>2. vm' \in VmType
      <3>1. {0} \in SUBSET Host /\ 0 \in 0 .. NMsrs
        BY CpuAssumed
      <3> QED BY <1>1, <3>1 DEF Cpu!CreateIrqchip, Cpu!FreshVm, VmType
    <2>3. lapic' \in LapicType
      BY <1>1 DEF Cpu!CreateIrqchip, Cpu!FreshLapic, LapicType
    <2>4. Cpu!TypeOK' /\ (pc' # "boot" => GuestRight') /\ SnapshotRight'
      BY <1>1, <2>1, <2>2, <2>3, CpuFrame DEF Cpu!CreateIrqchip
    <2>5. ChipsRight' /\ VcpuRight'
      BY <1>1, <2>0 DEF Cpu!CreateIrqchip, ChipsRight, VcpuRight
    <2> QED BY <2>0, <2>4, <2>5 DEF CpuInv
  <1>2. CASE Cpu!RestoreIrqchips
    <2>0. PICK o \in Cpu!Outcome, c \in snap.chips \cup {"slave"} :
            /\ Cpu!Ioctl(o)
            /\ vm' = [vm EXCEPT !.chips = IF o = "ok" THEN snap.chips ELSE snap.chips \ {c},
                                !.open = IF "slave" \in (IF o = "ok" THEN snap.chips
                                                         ELSE snap.chips \ {c})
                                         THEN booted.open ELSE {}]
      BY <1>2 DEF Cpu!RestoreIrqchips
    <2>1. faults' \in 0 .. MaxFaults /\ (faults' = 0 => o = "ok" /\ faults = 0)
      BY <2>0, CpuFault
    <2>2. vm' \in VmType
      BY <2>0 DEF VmType
    <2>3. lapic' \in LapicType
      BY <1>2 DEF Cpu!RestoreIrqchips
    <2>4. Cpu!TypeOK' /\ (pc' # "boot" => GuestRight') /\ SnapshotRight'
      BY <1>2, <2>1, <2>2, <2>3, CpuFrame DEF Cpu!RestoreIrqchips
    <2>5. ChipsRight'
      BY <1>2, <2>0, <2>1 DEF Cpu!RestoreIrqchips, ChipsRight, VmType, CpuInv, SnapshotRight,
                              GuestRight
    <2>6. VcpuRight'
      BY <1>2 DEF Cpu!RestoreIrqchips, VcpuRight
    <2> QED BY <1>2, <2>4, <2>5, <2>6 DEF CpuInv, Cpu!RestoreIrqchips
  <1>3. CASE Cpu!OpenIrq11
    <2> DEFINE Able(o, c, x) == o = "ok" \/ c # x
    <2>0. PICK o \in Cpu!Outcome, c \in {"slave", "ioapic"} :
            /\ Cpu!Ioctl(o)
            /\ vm' = [vm EXCEPT
                  !.open = @ \cup {x \in {"slave"} : Able(o, c, x)}
                             \cup {x \in {"ioapic"} : Able(o, c, x) /\ x \in snap.chips},
                  !.chips = @ \cup {x \in {"ioapic"} : Able(o, c, x) /\ x \in snap.chips}]
      BY <1>3 DEF Cpu!OpenIrq11
    <2>1. faults' \in 0 .. MaxFaults /\ (faults' = 0 => o = "ok" /\ faults = 0)
      BY <2>0, CpuFault
    <2>2. vm' \in VmType
      BY <2>0 DEF VmType, Cpu!Chip
    <2>3. lapic' \in LapicType
      BY <1>3 DEF Cpu!OpenIrq11
    <2>4. Cpu!TypeOK' /\ (pc' # "boot" => GuestRight') /\ SnapshotRight'
      BY <1>3, <2>1, <2>2, <2>3, CpuFrame DEF Cpu!OpenIrq11
    <2>5. ChipsRight'
      <3>1. ASSUME faults' = 0
            PROVE  vm'.chips = Cpu!Chip /\ vm'.open = {"slave", "ioapic"}
        <4>1. vm.chips = Cpu!Chip /\ vm.open \subseteq {"slave"} /\ snap.chips = Cpu!Chip
          BY <1>3, <2>1, <3>1 DEF CpuInv, ChipsRight, SnapshotRight, Cpu!OpenIrq11
        <4>2. vm'.open = vm.open \cup {x \in {"slave"} : Able(o, c, x)}
                             \cup {x \in {"ioapic"} : Able(o, c, x) /\ x \in snap.chips}
          BY <2>0 DEF VmType
        <4>3. vm'.chips = vm.chips \cup {x \in {"ioapic"} : Able(o, c, x) /\ x \in snap.chips}
          BY <2>0 DEF VmType
        <4> QED BY <2>1, <3>1, <4>1, <4>2, <4>3 DEF Cpu!Chip
      <3> QED BY <1>3, <3>1 DEF Cpu!OpenIrq11, ChipsRight
    <2>6. VcpuRight'
      BY <1>3 DEF Cpu!OpenIrq11, VcpuRight
    <2> QED BY <1>3, <2>4, <2>5, <2>6 DEF CpuInv, Cpu!OpenIrq11
  <1> QED BY <1>1, <1>2, <1>3

(* The registers: a step that fails starts the fork anew.                  *)
LEMMA CpuRegisters ==
  CpuInv /\ (Cpu!SetCpuid2 \/ Cpu!SetSregs \/ Cpu!SetRegs) => CpuInv'
  <1> SUFFICES ASSUME CpuInv, Cpu!SetCpuid2 \/ Cpu!SetSregs \/ Cpu!SetRegs
               PROVE  CpuInv'
    OBVIOUS
  <1> USE CpuTypes DEF HasSnapshot, HasChips, HasCpuid, HasSregs, HasRegs, HasMsrs, HasXcrs,
       HasArea, Executes, Cpu!Rest
  <1>0. PICK o \in Cpu!Outcome : Cpu!Ioctl(o)
    BY DEF Cpu!SetCpuid2, Cpu!SetSregs, Cpu!SetRegs
  <1>1. faults' \in 0 .. MaxFaults /\ (faults' = 0 => faults = 0)
    BY <1>0, CpuFault
  <1>2. UNCHANGED <<booted, snap, irqchip, net, timer>> /\ pc \in HasSnapshot /\ pc' # "boot"
    BY DEF Cpu!SetCpuid2, Cpu!SetSregs, Cpu!SetRegs, Cpu!ForkFails
  <1>3. booted.cpuid = Cpu!FilterCpuidForFork(Host)
    BY <1>2 DEF CpuInv, GuestRight, Cpu!FilterCpuidForFork, Cpu!SetupCpuid
  <1>4. vm' \in VmType
    BY <1>3 DEF VmType, Cpu!SetCpuid2, Cpu!SetSregs, Cpu!SetRegs, Cpu!ForkFails
  <1>5. lapic' \in LapicType
    BY DEF LapicType, Cpu!SetCpuid2, Cpu!SetSregs, Cpu!SetRegs, Cpu!ForkFails
  <1>6. Cpu!TypeOK' /\ GuestRight' /\ SnapshotRight'
    BY <1>1, <1>2, <1>4, <1>5, CpuFrame
  <1>7. CASE pc' = "fork"
    BY <1>6, <1>7 DEF CpuInv, ChipsRight, VcpuRight
  <1>8. CASE pc' # "fork"
    <2>1. \/ pc = "cpuid" /\ pc' = "sregs" /\ vm' = [vm EXCEPT !.cpuid = booted.cpuid]
          \/ pc = "sregs" /\ pc' = "regs" /\ vm' = [vm EXCEPT !.sregs = TRUE]
          \/ pc = "regs" /\ pc' = "msrs" /\ vm' = [vm EXCEPT !.regs = TRUE]
      BY <1>3, <1>8 DEF Cpu!SetCpuid2, Cpu!SetSregs, Cpu!SetRegs, Cpu!ForkFails
    <2>2. vm'.chips = vm.chips /\ vm'.open = vm.open
      BY <2>1 DEF VmType
    <2>3. ChipsRight'
      BY <1>1, <1>2, <2>1, <2>2 DEF CpuInv, ChipsRight
    <2>4. VcpuRight'
      BY <1>1, <1>2, <2>1 DEF CpuInv, VcpuRight, VmType
    <2> QED BY <1>6, <2>3, <2>4 DEF CpuInv
  <1> QED BY <1>7, <1>8

(* What is left may fail; what was captured is put back when nothing does. *)
LEMMA CpuExtended ==
  CpuInv /\ (Cpu!RestoreMsrs \/ Cpu!SetXcrs \/ Cpu!SetXsave) => CpuInv'
  <1> SUFFICES ASSUME CpuInv, Cpu!RestoreMsrs \/ Cpu!SetXcrs \/ Cpu!SetXsave
               PROVE  CpuInv'
    OBVIOUS
  <1> USE CpuTypes DEF HasSnapshot, HasChips, HasCpuid, HasSregs, HasRegs, HasMsrs, HasXcrs,
       HasArea, Executes, Cpu!Rest
  <1>0. PICK o \in Cpu!Outcome :
          /\ Cpu!Ioctl(o)
          /\ \/ pc = "msrs" /\ pc' = "xcrs"
                /\ \E n \in 0 .. snap.msrs :
                     (n < snap.msrs <=> o # "ok") /\ vm' = [vm EXCEPT !.msrs = n]
             \/ pc = "xcrs" /\ pc' = "xsave"
                /\ vm' = IF o = "ok" /\ snap.xcrs # {} /\ snap.xcrs \subseteq Host
                         THEN [vm EXCEPT !.xcr0 = snap.xcrs] ELSE vm
             \/ pc = "xsave" /\ pc' \in {"apic", "top"}
                /\ vm' = IF o # "ok" THEN vm
                         ELSE [vm EXCEPT !.xstate =
                                 Cpu!BuildCleanXsave(IF snap.xcrs = {} THEN {0, 1, 2}
                                                     ELSE snap.xcrs)]
    BY DEF Cpu!RestoreMsrs, Cpu!SetXcrs, Cpu!SetXsave
  <1>1. faults' \in 0 .. MaxFaults /\ (faults' = 0 => o = "ok" /\ faults = 0)
    BY <1>0, CpuFault
  <1>2. UNCHANGED <<booted, snap, irqchip, net, timer, lapic>> /\ pc \in HasSnapshot /\ pc' # "boot"
    BY DEF Cpu!RestoreMsrs, Cpu!SetXcrs, Cpu!SetXsave
  <1>3. Cpu!BuildCleanXsave(IF snap.xcrs = {} THEN {0, 1, 2} ELSE snap.xcrs) \in SUBSET Host
    BY CpuAssumed DEF Cpu!BuildCleanXsave
  <1>4. vm' \in VmType
    <2>1. \A n \in 0 .. snap.msrs : n \in 0 .. NMsrs
      BY CpuAssumed
    <2> QED BY <1>0, <1>3, <2>1 DEF VmType
  <1>5. Cpu!TypeOK' /\ GuestRight' /\ SnapshotRight'
    BY <1>1, <1>2, <1>4, CpuFrame
  <1>6. /\ vm'.chips = vm.chips /\ vm'.open = vm.open /\ vm'.cpuid = vm.cpuid
        /\ vm'.sregs = vm.sregs /\ vm'.regs = vm.regs
    BY <1>0 DEF VmType
  <1>7. ChipsRight'
    BY <1>0, <1>1, <1>2, <1>6 DEF CpuInv, ChipsRight
  <1>8. faults' = 0 => snap.xcrs = booted.xcr0 /\ snap.xcrs # {} /\ snap.xcrs \subseteq Host
    BY <1>1, <1>2 DEF CpuInv, SnapshotRight, GuestRight
  <1>9. VcpuRight'
    <2>1. CASE pc = "msrs"
      <3>1. faults' = 0 => vm'.msrs = snap.msrs
        <4>1. snap.msrs \in Nat
          BY CpuAssumed
        <4> QED BY <1>0, <1>1, <2>1, <4>1 DEF VmType
      <3> QED BY <1>0, <1>1, <1>2, <1>6, <2>1, <3>1 DEF CpuInv, VcpuRight
    <2>2. CASE pc = "xcrs"
      <3>1. vm'.msrs = vm.msrs /\ (faults' = 0 => vm'.xcr0 = booted.xcr0)
        BY <1>0, <1>1, <1>8, <2>2 DEF VmType
      <3> QED BY <1>0, <1>1, <1>2, <1>6, <2>2, <3>1 DEF CpuInv, VcpuRight
    <2>3. CASE pc = "xsave"
      <3>1. vm'.msrs = vm.msrs /\ vm'.xcr0 = vm.xcr0
        BY <1>0, <2>3 DEF VmType
      <3>2. faults' = 0 => vm'.xstate = Cpu!BuildCleanXsave(booted.xcr0)
        BY <1>0, <1>1, <1>8, <2>3 DEF VmType
      <3>3. faults' = 0 => vm.xcr0 = booted.xcr0
        BY <1>1, <2>3 DEF CpuInv, VcpuRight
      <3>4. faults' = 0 => vm'.xstate \subseteq vm'.xcr0
        BY <3>1, <3>2, <3>3 DEF Cpu!BuildCleanXsave
      <3> QED BY <1>0, <1>1, <1>2, <1>6, <2>3, <3>1, <3>4 DEF CpuInv, VcpuRight
    <2> QED BY <1>0, <2>1, <2>2, <2>3
  <1> QED BY <1>5, <1>7, <1>9 DEF CpuInv

(* The LAPIC, the run loop and the guest: of the VM only the queued vector *)
(* changes.                                                                *)
LEMMA CpuOnly ==
  ASSUME CpuInv, UNCHANGED <<booted, snap, irqchip>>,
         pc \in HasArea, pc' \in Executes,
         vm' = vm \/ (\E q \in BOOLEAN : vm' = [vm EXCEPT !.queued = q]),
         lapic' \in LapicType, timer' \in BOOLEAN, net' \in [waiting : BOOLEAN, isr : BOOLEAN],
         faults' \in 0 .. MaxFaults, faults' = 0 => faults = 0
  PROVE  CpuInv'
  <1> USE CpuTypes DEF HasSnapshot, HasChips, HasCpuid, HasSregs, HasRegs, HasMsrs, HasXcrs,
       HasArea, Executes
  <1>1. vm' \in VmType
    BY DEF VmType
  <1>2. /\ vm'.chips = vm.chips /\ vm'.open = vm.open /\ vm'.cpuid = vm.cpuid
        /\ vm'.sregs = vm.sregs /\ vm'.regs = vm.regs /\ vm'.msrs = vm.msrs
        /\ vm'.xcr0 = vm.xcr0 /\ vm'.xstate = vm.xstate
    BY DEF VmType
  <1>3. Cpu!TypeOK'
    BY <1>1 DEF CpuInv, Cpu!TypeOK, VmType, LapicType
  <1>4. GuestRight' /\ SnapshotRight'
    BY DEF CpuInv, GuestRight, SnapshotRight
  <1>5. ChipsRight'
    BY <1>2 DEF CpuInv, ChipsRight
  <1>6. VcpuRight'
    BY <1>2 DEF CpuInv, VcpuRight
  <1> QED BY <1>3, <1>4, <1>5, <1>6 DEF CpuInv

LEMMA CpuApic == CpuInv /\ Cpu!EnableApic => CpuInv'
  <1> SUFFICES ASSUME CpuInv, Cpu!EnableApic PROVE CpuInv'
    OBVIOUS
  <1>0. PICK o \in Cpu!Outcome, a \in {"base", "off", "on", "lapic"} :
          /\ Cpu!Ioctl(o)
          /\ lapic' = LET based == Cpu!SetApicBase(lapic)
                          toggled == IF o # "ok" /\ a = "off" THEN based
                                     ELSE Cpu!ToggleApic(based, o = "ok" \/ a # "on")
                      IN CASE o # "ok" /\ a = "base"  -> lapic
                           [] o # "ok" /\ a = "lapic" -> toggled
                           [] OTHER                   -> Cpu!SetLapic(toggled)
    BY DEF Cpu!EnableApic
  <1>1. faults' \in 0 .. MaxFaults /\ (faults' = 0 => faults = 0)
    BY <1>0, CpuFault, CpuTypes
  <1>2. lapic' \in LapicType
    <2>1. \A l \in LapicType : Cpu!SetApicBase(l) \in LapicType /\ Cpu!SetLapic(l) \in LapicType
      BY DEF LapicType, Cpu!SetApicBase, Cpu!SetLapic
    <2>2. \A l : Cpu!ToggleApic(l, o = "ok" \/ a # "on") \in LapicType
      BY DEF LapicType, Cpu!ToggleApic, Cpu!FreshLapic
    <2> DEFINE based == Cpu!SetApicBase(lapic)
               toggled == IF o # "ok" /\ a = "off" THEN based
                          ELSE Cpu!ToggleApic(based, o = "ok" \/ a # "on")
    <2>3. based \in LapicType /\ toggled \in LapicType
      BY <2>1, <2>2, CpuTypes
    <2>4. Cpu!SetLapic(toggled) \in LapicType
      BY <2>1, <2>3
    <2>5. lapic' \in {lapic, toggled, Cpu!SetLapic(toggled)}
      BY <1>0
    <2> QED BY <2>3, <2>4, <2>5, CpuTypes
  <1>3. net' = net /\ timer' = timer /\ vm' = vm /\ UNCHANGED <<booted, snap, irqchip>>
        /\ pc = "apic" /\ pc' = "top"
    BY DEF Cpu!EnableApic, Cpu!Rest
  <1>4. net \in [waiting : BOOLEAN, isr : BOOLEAN] /\ timer \in BOOLEAN
    BY DEF CpuInv, Cpu!TypeOK
  <1>5. pc \in HasArea /\ pc' \in Executes
    BY <1>3 DEF HasArea, Executes
  <1> QED BY <1>1, <1>2, <1>3, <1>4, <1>5, CpuOnly

LEMMA CpuRuns ==
  CpuInv /\ (Cpu!Enter \/ Cpu!ExitAndDrain \/ Cpu!ExitOnly \/ Cpu!TakeNetIrq
             \/ Cpu!TakeTimer \/ Cpu!TimerFires \/ Cpu!FrameArrives) => CpuInv'
  <1> SUFFICES ASSUME CpuInv,
                      Cpu!Enter \/ Cpu!ExitAndDrain \/ Cpu!ExitOnly \/ Cpu!TakeNetIrq
                        \/ Cpu!TakeTimer \/ Cpu!TimerFires \/ Cpu!FrameArrives
               PROVE  CpuInv'
    OBVIOUS
  <1>1. UNCHANGED <<booted, snap, irqchip>> /\ pc \in Executes /\ pc' \in Executes
    BY DEF Cpu!Enter, Cpu!ExitAndDrain, Cpu!ExitOnly, Cpu!TakeNetIrq, Cpu!TakeTimer,
           Cpu!TimerFires, Cpu!FrameArrives, Executes, Cpu!Running
  <1>2. \A l \in LapicType : Cpu!ClearLapicIsr(l) \in LapicType /\ Cpu!InjectLapicIrq(l) \in LapicType
    BY DEF LapicType, Cpu!ClearLapicIsr, Cpu!InjectLapicIrq
  <1>3. net \in [waiting : BOOLEAN, isr : BOOLEAN] /\ timer \in BOOLEAN
    BY DEF CpuInv, Cpu!TypeOK
  <1> DEFINE Moved == /\ vm' = vm \/ (\E q \in BOOLEAN : vm' = [vm EXCEPT !.queued = q])
                      /\ lapic' \in LapicType /\ timer' \in BOOLEAN
                      /\ net' \in [waiting : BOOLEAN, isr : BOOLEAN]
                      /\ faults' \in 0 .. MaxFaults /\ (faults' = 0 => faults = 0)
  <1>4. ASSUME NEW l \in LapicType, NEW head \in BOOLEAN, Cpu!Drain(l, head), timer' = timer
        PROVE  Moved
    <2>0. PICK o \in Cpu!Outcome :
            /\ Cpu!Ioctl(o)
            /\ lapic' = IF (net.waiting /\ ~net.isr) /\ irqchip /\ o = "ok"
                        THEN Cpu!InjectLapicIrq(l) ELSE l
            /\ vm' = IF (net.waiting /\ ~net.isr) /\ ~irqchip /\ ~head /\ o = "ok"
                     THEN [vm EXCEPT !.queued = TRUE] ELSE vm
      BY <1>4 DEF Cpu!Drain
    <2>1. faults' \in 0 .. MaxFaults /\ (faults' = 0 => faults = 0)
      BY <2>0, CpuFault, CpuTypes
    <2>2. lapic' \in LapicType
      BY <1>2, <2>0
    <2>3. net' \in [waiting : BOOLEAN, isr : BOOLEAN]
      BY <1>3, <1>4 DEF Cpu!Drain
    <2>4. vm' = vm \/ (\E q \in BOOLEAN : vm' = [vm EXCEPT !.queued = q])
      BY <2>0
    <2> QED BY <1>3, <1>4, <2>1, <2>2, <2>3, <2>4
  <1>5. Moved
    <2>1. CASE Cpu!Enter
      BY <1>4, <2>1, CpuTypes DEF Cpu!Enter
    <2>2. CASE Cpu!ExitAndDrain
      <3>1. Cpu!ClearLapicIsr(lapic) \in LapicType
        BY <1>2, CpuTypes
      <3> QED BY <1>4, <2>2, <3>1 DEF Cpu!ExitAndDrain
    <2>3. CASE Cpu!ExitOnly
      BY <1>2, <1>3, <2>3, CpuTypes DEF Cpu!ExitOnly
    <2>4. CASE Cpu!TakeNetIrq
      <3>1. lapic' \in LapicType
        BY <2>4, CpuTypes DEF Cpu!TakeNetIrq, LapicType
      <3>2. net' \in [waiting : BOOLEAN, isr : BOOLEAN]
        BY <1>3, <2>4 DEF Cpu!TakeNetIrq
      <3> QED BY <1>3, <2>4, <3>1, <3>2, CpuTypes DEF Cpu!TakeNetIrq
    <2>5. CASE Cpu!TakeTimer
      BY <1>3, <2>5, CpuTypes DEF Cpu!TakeTimer
    <2>6. CASE Cpu!TimerFires
      BY <1>3, <2>6, CpuTypes DEF Cpu!TimerFires
    <2>7. CASE Cpu!FrameArrives
      BY <1>3, <2>7, CpuTypes DEF Cpu!FrameArrives
    <2> QED BY <2>1, <2>2, <2>3, <2>4, <2>5, <2>6, <2>7
  <1>6. pc \in HasArea
    BY <1>1 DEF HasArea
  <1> QED BY <1>1, <1>5, <1>6, CpuOnly

LEMMA CpuStutters == CpuInv /\ UNCHANGED cpuVars => CpuInv'
  BY DEF CpuInv, cpuVars, Cpu!TypeOK, GuestRight, SnapshotRight, ChipsRight, VcpuRight

LEMMA CpuNext == CpuInv /\ Cpu!Next => CpuInv'
  BY CpuBoots, CpuCaptures, CpuChips, CpuRegisters, CpuExtended, CpuApic, CpuRuns
     DEF Cpu!Next, Cpu!Prepare

LEMMA CpuSoundness == CpuInv => Cpu!CpuRestored
  BY DEF CpuInv, VcpuRight, ChipsRight, Cpu!CpuRestored, Cpu!Running, HasChips, HasCpuid,
         HasSregs, HasRegs, HasMsrs, HasXcrs, HasArea, Executes

CpuPart == part = "cpu" => CpuInv

LEMMA CpuPartInit == Init => CpuPart
  BY CpuInit DEF Init, CpuPart

LEMMA CpuPartStep == CpuPart /\ [Next]_vars => CpuPart'
  <1> SUFFICES ASSUME CpuPart, [Next]_vars, part' = "cpu" PROVE CpuInv'
    BY DEF CpuPart
  <1>1. part = "cpu" /\ (Cpu!Next \/ UNCHANGED cpuVars)
    BY DEF Next, vars
  <1> QED BY <1>1, CpuNext, CpuStutters DEF CpuPart

(* A fork runs with what was captured, in the order capture_snapshot and   *)
(* fork() put it there.                                                    *)
THEOREM CpuIsRestored == Spec => []CpuRestored
  <1>1. CpuPart => CpuRestored
    BY CpuSoundness DEF CpuPart, CpuRestored
  <1> QED BY <1>1, CpuPartInit, CpuPartStep, PTL DEF Spec


-----------------------------------------------------------------------------
(***************************************************************************)
(* The scheduler on its pools, carried over from ForkPool_proofs.          *)
(***************************************************************************)
Sched == INSTANCE ForkPool_proofs WITH Variant <- {v1, v2}, Config <- MCConfig,
           Item <- {i1, i2, i3}, VariantOf <- MCVariantOf,
           config <- limits, timer <- pending, phase <- step

LazyPart == part = "lazy" => Sched!LInv

LEMMA SchedAssumed ==
  /\ Sched!ConfigAssumption /\ Sched!AskAssumption /\ Sched!EngineAssumption
  /\ Sched!ItemAssumption /\ Sched!BatchAssumption
  BY Assumptions DEF Sched!ConfigAssumption, Lazy!ConfigAssumption, Sched!AskAssumption,
     Lazy!AskAssumption, Sched!EngineAssumption, Lazy!EngineAssumption,
     Sched!ItemAssumption, Lazy!ItemAssumption, Sched!BatchAssumption, Lazy!BatchAssumption

LEMMA LazyPartInit == Init => LazyPart
  <1>1. Lazy!LazyInit => Sched!LazyInit
    BY DEF Lazy!LazyInit, Sched!LazyInit, Lazy!Init, Sched!Init
  <1>2. Sched!LazyInit => Sched!LInv
    BY SchedAssumed, Sched!LazyStart
  <1>3. part = "lazy" /\ Init => Lazy!LazyInit
    BY DEF Init
  <1> QED BY <1>1, <1>2, <1>3 DEF LazyPart

(* The scheduler's steps are the same under either name.                   *)
LEMMA SchedSame == Lazy!LazyNext <=> Sched!LazyNext
  BY DEF Lazy!Elems, Sched!Elems, Lazy!Distinct, Sched!Distinct, Lazy!Live,
     Sched!Live, Lazy!Monus, Sched!Monus, Lazy!Least, Sched!Least,
     Lazy!FreshBatch, Sched!FreshBatch, Lazy!RefillSize, Sched!RefillSize,
     Lazy!Forked, Sched!Forked, Lazy!Dropped, Sched!Dropped, Lazy!Register,
     Sched!Register, Lazy!Refill, Sched!Refill, Lazy!AcquireWarm,
     Sched!AcquireWarm, Lazy!AcquireCold, Sched!AcquireCold, Lazy!Acquire,
     Sched!Acquire, Lazy!AcquireFails, Sched!AcquireFails, Lazy!FillTo,
     Sched!FillTo, Lazy!DropHeld, Sched!DropHeld, Lazy!Release, Sched!Release,
     Lazy!Remove, Sched!Remove, Lazy!Use, Sched!Use, Lazy!vars, Sched!vars,
     Lazy!lazyVars, Sched!lazyVars, Lazy!chunkVars, Sched!chunkVars,
     Lazy!NoResult, Sched!NoResult, Lazy!Ran, Sched!Ran, Lazy!AcquireError,
     Sched!AcquireError, Lazy!ChunkEnd, Sched!ChunkEnd, Lazy!EffectiveSizes,
     Sched!EffectiveSizes, Lazy!Drain, Sched!Drain, Lazy!Push, Sched!Push,
     Lazy!Realize, Sched!Realize, Lazy!Clear, Sched!Clear,
     Lazy!SetPoolManager, Sched!SetPoolManager, Lazy!Manage, Sched!Manage,
     Lazy!AcquireNext, Sched!AcquireNext, Lazy!Advance, Sched!Advance,
     Lazy!EndAcquire, Sched!EndAcquire, Lazy!RunThread, Sched!RunThread,
     Lazy!ReleaseNext, Sched!ReleaseNext, Lazy!EndChunk, Sched!EndChunk,
     Lazy!Return, Sched!Return, Lazy!RealizeStep, Sched!RealizeStep,
     Lazy!LazyNext, Sched!LazyNext

LEMMA LazyPartStep == LazyPart /\ [Next]_vars => LazyPart'
  <1> SUFFICES ASSUME LazyPart, [Next]_vars, part' = "lazy" PROVE Sched!LInv'
    BY DEF LazyPart
  <1>1. part = "lazy"
    BY DEF Next, vars
  <1>2. Lazy!LazyNext \/ UNCHANGED lazyVars
    BY <1>1 DEF Next, vars
  <1>3. UNCHANGED lazyVars => UNCHANGED Sched!allVars
    BY DEF lazyVars, Sched!allVars, Sched!vars, Sched!lazyVars
  <1>4. Sched!LInv
    BY <1>1 DEF LazyPart
  <1> QED BY <1>2, <1>3, <1>4, SchedSame, SchedAssumed, Sched!LazyStep

LEMMA LazyPartInvariance == Spec => []LazyPart
  BY LazyPartInit, LazyPartStep, PTL DEF Spec

(* Whatever failed or panicked in a batch, realize() leaves no VM behind,  *)
(* and a pool holds VMs of its own engine only.                            *)
THEOREM EveryVmComesBack == Spec => []EveryVmBack
  <1>1. LazyPart => EveryVmBack
    <2>1. Sched!LInv => Sched!EveryVmBack /\ Sched!IdlePure
      BY SchedAssumed, Sched!LazySoundness
    <2> QED BY <2>1 DEF LazyPart, EveryVmBack, Lazy!EveryVmBack, Sched!EveryVmBack,
         Lazy!IdlePure, Sched!IdlePure, Lazy!Elems, Sched!Elems
  <1> QED BY <1>1, LazyPartInvariance, PTL

(* The result at a place is of the snippet queued there, on a VM of its    *)
(* variant, unless an acquire of its chunk failed.                         *)
THEOREM ResultsInOrder == Spec => []InOrderUnlessFailed
  <1>1. LazyPart => InOrderUnlessFailed
    <2>1. Sched!LInv => Sched!InOrderUnlessFailed
      BY SchedAssumed, Sched!LazySoundness
    <2> QED BY <2>1 DEF LazyPart, InOrderUnlessFailed, Lazy!InOrderUnlessFailed,
         Sched!InOrderUnlessFailed
  <1> QED BY <1>1, LazyPartInvariance, PTL

-----------------------------------------------------------------------------
(* Loops                                                                   *)
LEMMA Least ==
  ASSUME NEW T, T \subseteq Nat, T # {}
  PROVE  \E m \in T : \A k \in T : m <= k
<1> DEFINE Below == OpToRel(<, Nat)
<1>1. IsWellFoundedOn(Below, Nat)
  BY NatLessThanWellFounded
<1>2. ASSUME NEW x \in Nat, NEW y \in Nat, y < x
      PROVE  <<y, x>> \in Below
  BY <1>2 DEF OpToRel
<1> HIDE DEF Below
<1>3. PICK x \in T : \A y \in T : ~(<<y, x>> \in Below)
  BY <1>1, WFMin
<1>4. ASSUME NEW k \in T
      PROVE  x <= k
  <2>1. ~(k < x)
    BY <1>2, <1>3
  <2> QED
    BY <2>1
<1> QED
  BY <1>4

LEMMA Climb ==
  ASSUME NEW N \in Nat, NEW G, 0 \in G, \A n \in 1 .. N : n - 1 \in G => n \in G
  PROVE  \A n \in 0 .. N : n \in G
<1> DEFINE T == {n \in 0 .. N : n \notin G}
<1> SUFFICES ASSUME T # {} PROVE FALSE
  OBVIOUS
<1>1. PICK m \in T : \A k \in T : m <= k
  <2>1. T \subseteq Nat
    OBVIOUS
  <2> HIDE DEF T
  <2> QED
    BY <2>1, Least
<1>2. m \in 1 .. N /\ m - 1 \in 0 .. N /\ ~(m <= m - 1)
  OBVIOUS
<1>3. m - 1 \in G
  BY <1>1, <1>2
<1> QED
  BY <1>2, <1>3

Stages(N, A, b, F) == N \in Nat /\ b \in A /\ F \in [1 .. N -> [A -> A]]
Staged(N, A, b, F, h) ==
  h \in [0 .. N -> A] /\ h[0] = b /\ \A n \in 1 .. N : h[n] = F[n][h[n - 1]]

LEMMA Iterates ==
  ASSUME NEW N, NEW A, NEW b, NEW F, Stages(N, A, b, F)
  PROVE  \E h : Staged(N, A, b, F, h)
<1> USE DEF Stages
<1> DEFINE Runs(n, h) == h \in [0 .. n -> A] /\ h[0] = b /\ \A m \in 1 .. n : h[m] = F[m][h[m - 1]]
           G == {n \in 0 .. N : \E h : Runs(n, h)}
<1>1. 0 \in G
  <2> DEFINE h == [m \in 0 .. 0 |-> b]
  <2>1. h \in [0 .. 0 -> A] /\ h[0] = b /\ 1 .. 0 = {}
    OBVIOUS
  <2> HIDE DEF h
  <2>2. Runs(0, h) /\ 0 \in 0 .. N
    BY <2>1
  <2> QED
    BY <2>2
<1>2. ASSUME NEW n \in 1 .. N, n - 1 \in G
      PROVE  n \in G
  <2>1. PICK h : Runs(n - 1, h)
    BY <1>2
  <2> DEFINE a == F[n][h[n - 1]]
             g == [m \in 0 .. n |-> IF m = n THEN a ELSE h[m]]
  <2>2. n - 1 \in 0 .. n - 1 /\ a \in A
    BY <2>1
  <2>3. \A m \in 0 .. n : m = n \/ m \in 0 .. n - 1
    OBVIOUS
  <2>4. g \in [0 .. n -> A]
    BY <2>1, <2>2, <2>3
  <2>5. g[0] = b
    BY <2>1
  <2>6. ASSUME NEW m \in 1 .. n
        PROVE  g[m] = F[m][g[m - 1]]
    <3>1. m \in 0 .. n /\ m - 1 \in 0 .. n /\ m - 1 # n
      OBVIOUS
    <3>2. g[m - 1] = h[m - 1]
      BY <3>1
    <3>3. CASE m = n
      BY <3>1, <3>2, <3>3
    <3>4. CASE m # n
      <4>1. m \in 1 .. n - 1 /\ g[m] = h[m]
        BY <3>1, <3>4
      <4> QED
        BY <2>1, <3>2, <4>1
    <3> QED
      BY <3>3, <3>4
  <2> HIDE DEF g
  <2>7. Runs(n, g)
    BY <2>4, <2>5, <2>6
  <2> QED
    BY <2>7
<1> HIDE DEF G
<1>3. N \in G
  <2>1. N \in 0 .. N /\ \A n \in 1 .. N : n - 1 \in G => n \in G
    BY <1>2
  <2> QED
    BY <1>1, <2>1, Climb
<1> QED
  BY <1>3 DEF G, Staged

-----------------------------------------------------------------------------
(* The loops of boot_linux and setup_boot_params over the sorted holes.    *)
Hole == [lo : Nat, hi : Nat]
Sorted(h, M) ==
  /\ h \in Seq(Hole)
  /\ \A i \in 1 .. Len(h) : 16384 <= h[i].lo /\ h[i].lo < h[i].hi /\ h[i].hi <= M
  /\ \A i, j \in 1 .. Len(h) : i < j => h[i].hi <= h[j].lo

(* No hole of the first n is in [a, b).                                    *)
Free(a, b, h, n) == \A i \in 1 .. n : h[i].hi <= a \/ b <= h[i].lo

Ram == [at : Nat, ram : SUBSET Hole]
Skip(r, hole) ==
  [at |-> hole.hi,
   ram |-> r.ram \cup (IF r.at < hole.lo THEN {[lo |-> r.at, hi |-> hole.lo]} ELSE {})]

LEMMA AroundSteps ==
  ASSUME NEW h \in Seq(Hole)
  PROVE  /\ Boot!Around(h)[0] = [at |-> 0, ram |-> {}]
         /\ \A n \in 1 .. Len(h) : Boot!Around(h)[n] = Skip(Boot!Around(h)[n - 1], h[n])
         /\ \A n \in 0 .. Len(h) : Boot!Around(h)[n] \in Ram
<1> DEFINE N == Len(h)
           none == [at |-> 0, ram |-> {}]
           F == [n \in 1 .. N |-> [r \in Ram |-> Skip(r, h[n])]]
           f == CHOOSE g : g = [n \in 0 .. N |-> IF n = 0 THEN none ELSE Skip(g[n - 1], h[n])]
<1>1. N \in Nat /\ \A n \in 1 .. N : h[n] \in Hole
  BY LenProperties
<1>2. none \in Ram
  BY DEF Ram
<1>3. ASSUME NEW n \in 1 .. N, NEW r \in Ram
      PROVE  Skip(r, h[n]) \in Ram
  BY <1>1 DEF Skip, Ram, Hole
<1>4. Boot!Around(h) = f
  BY DEF Boot!Around, Skip
<1> HIDE DEF N, none, f
<1>5. F \in [1 .. N -> [Ram -> Ram]]
  BY <1>3
<1>6. PICK g : Staged(N, Ram, none, F, g)
  <2>1. Stages(N, Ram, none, F)
    BY <1>1, <1>2, <1>5 DEF Stages
  <2> HIDE DEF F
  <2> QED BY <2>1, Iterates
<1>7. /\ g \in [0 .. N -> Ram] /\ g[0] = none
      /\ \A n \in 1 .. N : g[n] = F[n][g[n - 1]]
  BY <1>6 DEF Staged
<1>8. ASSUME NEW n \in 1 .. N
      PROVE  g[n - 1] \in Ram /\ g[n] = Skip(g[n - 1], h[n])
  <2>1. n - 1 \in 0 .. N
    BY <1>1
  <2>2. g[n - 1] \in Ram
    BY <1>7, <2>1
  <2> QED BY <1>7, <2>2
<1>9. \A n \in 0 .. N : n # 0 => n \in 1 .. N
  BY <1>1
<1> HIDE DEF F
<1>10. g = [n \in 0 .. N |-> IF n = 0 THEN none ELSE Skip(g[n - 1], h[n])]
  BY <1>7, <1>8, <1>9
<1>11. f = [n \in 0 .. N |-> IF n = 0 THEN none ELSE Skip(f[n - 1], h[n])]
  BY <1>10 DEF f
<1>12. /\ 0 \in 0 .. N /\ f[0] = none
       /\ \A n \in 1 .. N : n \in 0 .. N /\ f[n] = Skip(f[n - 1], h[n])
  <2>1. 0 \in 0 .. N /\ \A n \in 1 .. N : n \in 0 .. N /\ n # 0
    BY <1>1
  <2> QED BY <1>11, <2>1
<1>13. \A n \in 0 .. N : f[n] \in Ram
  <2> DEFINE G == {n \in 0 .. N : f[n] \in Ram}
  <2>1. 0 \in G
    BY <1>2, <1>12
  <2>2. ASSUME NEW n \in 1 .. N, n - 1 \in G
        PROVE  n \in G
    BY <1>3, <1>12, <2>2
  <2> HIDE DEF G
  <2>3. \A n \in 0 .. N : n \in G
    BY <1>1, <2>1, <2>2, Climb
  <2> QED BY <2>3 DEF G
<1> QED BY <1>4, <1>12, <1>13 DEF N, none

(* What the loop over the holes has made of the memory before the last one. *)
Backed(h, n, r) ==
  /\ r.at = IF n = 0 THEN 0 ELSE h[n].hi
  /\ \A s \in r.ram : s.lo < s.hi /\ s.hi <= r.at /\ Free(s.lo, s.hi, h, Len(h))
  /\ \A a, b \in Nat : a < b /\ b <= r.at /\ Free(a, b, h, n) =>
       \E s \in r.ram : s.lo <= a /\ b <= s.hi

LEMMA SortedHoles ==
  ASSUME NEW M \in Nat, NEW h, Sorted(h, M)
  PROVE  /\ h \in Seq(Hole) /\ Len(h) \in Nat
         /\ \A i \in 1 .. Len(h) : /\ h[i].lo \in Nat /\ h[i].hi \in Nat /\ 16384 <= h[i].lo
                                   /\ h[i].lo < h[i].hi /\ h[i].hi <= M
         /\ \A i, j \in 1 .. Len(h) : i < j => h[i].hi <= h[j].lo
  <1>1. h \in Seq(Hole) /\ Len(h) \in Nat
    BY LenProperties DEF Sorted
  <1>2. \A i \in 1 .. Len(h) : h[i] \in Hole
    BY <1>1, LenProperties
  <1>3. \A i \in 1 .. Len(h) : h[i].lo \in Nat /\ h[i].hi \in Nat
    BY <1>2 DEF Hole
  <1> QED BY <1>1, <1>3 DEF Sorted

(* The gap before hole n touches no hole.                                  *)
LEMMA GapFree ==
  ASSUME NEW M \in Nat, NEW h, Sorted(h, M), NEW n \in 1 .. Len(h), NEW a \in Nat,
         n > 1 => h[n - 1].hi <= a
  PROVE  Free(a, h[n].lo, h, Len(h))
  <1>1. /\ Len(h) \in Nat
        /\ \A i \in 1 .. Len(h) : h[i].lo \in Nat /\ h[i].hi \in Nat /\ h[i].lo < h[i].hi
        /\ \A i, j \in 1 .. Len(h) : i < j => h[i].hi <= h[j].lo
    BY SortedHoles
  <1>2. ASSUME NEW i \in 1 .. Len(h)
        PROVE  h[i].hi <= a \/ h[n].lo <= h[i].lo
    <2>1. CASE i < n
      <3>1. n - 1 \in 1 .. Len(h) /\ n > 1
        BY <1>1, <2>1
      <3>2. h[i].hi <= h[n - 1].hi
        <4>1. CASE i = n - 1
          BY <1>1, <3>1, <4>1
        <4>2. CASE i < n - 1
          <5>1. h[i].hi <= h[n - 1].lo
            BY <1>1, <3>1, <4>2
          <5> QED BY <1>1, <3>1, <5>1
        <4> QED BY <2>1, <4>1, <4>2
      <3>3. h[i].hi \in Nat /\ h[n - 1].hi \in Nat /\ h[n - 1].hi <= a
        BY <1>1, <3>1
      <3> QED BY <3>2, <3>3
    <2>2. CASE i = n
      BY <1>1, <2>2
    <2>3. CASE n < i
      <3>1. h[n].hi <= h[i].lo /\ h[n].lo < h[n].hi
        BY <1>1, <2>3
      <3> QED BY <1>1, <3>1
    <2> QED BY <1>1, <2>1, <2>2, <2>3
  <1> QED BY <1>2 DEF Free

LEMMA BackedStep ==
  ASSUME NEW M \in Nat, NEW h, Sorted(h, M), NEW n \in 1 .. Len(h), NEW r \in Ram,
         Backed(h, n - 1, r)
  PROVE  Backed(h, n, Skip(r, h[n]))
  <1> DEFINE q == Skip(r, h[n])
             gap == [lo |-> r.at, hi |-> h[n].lo]
  <1>1. /\ Len(h) \in Nat /\ n \in Nat /\ n # 0 /\ n \in 1 .. n
        /\ h[n].lo \in Nat /\ h[n].hi \in Nat /\ h[n].lo < h[n].hi
    BY SortedHoles
  <1>2. r.at \in Nat /\ r.ram \subseteq Hole
    BY DEF Ram
  <1>3. q.at = h[n].hi /\ q.ram = r.ram \cup (IF r.at < h[n].lo THEN {gap} ELSE {})
    BY DEF Skip
  <1>4. gap.lo = r.at /\ gap.hi = h[n].lo
    OBVIOUS
  <1> HIDE DEF q, gap
  <1>5. r.at <= h[n].lo
    <2>1. CASE n = 1
      BY <1>1, <1>2, <2>1 DEF Backed
    <2>2. CASE n > 1
      <3>1. n - 1 \in 1 .. Len(h) /\ n - 1 < n /\ n - 1 # 0
        BY <1>1, <2>2
      <3>2. h[n - 1].hi <= h[n].lo
        BY <3>1, SortedHoles
      <3> QED BY <3>1, <3>2 DEF Backed
    <2> QED BY <1>1, <2>1, <2>2
  <1>6. ASSUME NEW s \in q.ram
        PROVE  s.lo < s.hi /\ s.hi <= q.at /\ Free(s.lo, s.hi, h, Len(h))
    <2>1. CASE s \in r.ram
      <3>1. s.lo < s.hi /\ s.hi <= r.at /\ Free(s.lo, s.hi, h, Len(h)) /\ s \in Hole
        BY <1>2, <2>1 DEF Backed
      <3>2. s.hi \in Nat
        BY <3>1 DEF Hole
      <3> QED BY <1>1, <1>2, <1>3, <1>5, <3>1, <3>2
    <2>2. CASE s = gap /\ r.at < h[n].lo
      <3>1. n > 1 => h[n - 1].hi <= r.at
        <4>1. n > 1 => r.at = h[n - 1].hi
          BY <1>1 DEF Backed
        <4> QED BY <1>2, <4>1
      <3>2. Free(r.at, h[n].lo, h, Len(h))
        BY <1>2, <3>1, GapFree
      <3> QED BY <1>1, <1>3, <1>4, <2>2, <3>2
    <2> QED BY <1>3, <2>1, <2>2
  <1>7. ASSUME NEW a \in Nat, NEW b \in Nat, a < b, b <= q.at, Free(a, b, h, n)
        PROVE  \E s \in q.ram : s.lo <= a /\ b <= s.hi
    <2>1. h[n].hi <= a \/ b <= h[n].lo
      BY <1>1, <1>7 DEF Free
    <2>2. b <= h[n].lo
      BY <1>1, <1>3, <1>7, <2>1
    <2>3. CASE b <= r.at
      <3>1. Free(a, b, h, n - 1)
        <4>1. \A i \in 1 .. n - 1 : i \in 1 .. n
          BY <1>1
        <4> QED BY <1>7, <4>1 DEF Free
      <3>2. PICK s \in r.ram : s.lo <= a /\ b <= s.hi
        BY <1>7, <2>3, <3>1 DEF Backed
      <3> QED BY <1>3, <3>2
    <2>4. CASE r.at < b
      <3>1. r.at <= a
        <4>1. CASE n = 1
          BY <1>1, <1>2, <4>1 DEF Backed
        <4>2. CASE n > 1
          <5>1. n - 1 \in 1 .. n /\ n - 1 # 0 /\ n - 1 \in 1 .. Len(h)
            BY <1>1, <4>2
          <5>2. r.at = h[n - 1].hi
            BY <5>1 DEF Backed
          <5>3. h[n - 1].hi <= a \/ b <= h[n - 1].lo
            BY <1>7, <5>1 DEF Free
          <5>4. h[n - 1].lo \in Nat /\ h[n - 1].lo < h[n - 1].hi
            BY <5>1, SortedHoles
          <5> QED BY <1>2, <2>4, <5>2, <5>3, <5>4
        <4> QED BY <1>1, <4>1, <4>2
      <3>2. r.at < h[n].lo
        BY <1>1, <1>2, <1>7, <2>2, <3>1
      <3>3. gap \in q.ram
        BY <1>3, <3>2
      <3> QED BY <1>4, <2>2, <3>1, <3>3
    <2> QED BY <1>2, <2>3, <2>4
  <1>8. q.at = IF n = 0 THEN 0 ELSE h[n].hi
    BY <1>1, <1>3
  <1>9. Backed(h, n, q)
    BY <1>6, <1>7, <1>8 DEF Backed
  <1> QED BY <1>9 DEF q

LEMMA AllBacked ==
  ASSUME NEW M \in Nat, NEW h, Sorted(h, M)
  PROVE  Boot!Around(h)[Len(h)] \in Ram /\ Backed(h, Len(h), Boot!Around(h)[Len(h)])
  <1> DEFINE N == Len(h)
             f == Boot!Around(h)
             G == {n \in 0 .. N : Backed(h, n, f[n])}
  <1>1. N \in Nat /\ h \in Seq(Hole)
    BY SortedHoles
  <1>2. /\ f[0] = [at |-> 0, ram |-> {}] /\ \A n \in 1 .. N : f[n] = Skip(f[n - 1], h[n])
        /\ \A n \in 0 .. N : f[n] \in Ram
    BY <1>1, AroundSteps
  <1> HIDE DEF f
  <1>3. 0 \in G
    <2>1. f[0].at = 0 /\ f[0].ram = {}
      BY <1>2
    <2>2. Backed(h, 0, f[0])
      BY <2>1 DEF Backed
    <2> QED BY <1>1, <2>2
  <1>4. ASSUME NEW n \in 1 .. N, n - 1 \in G
        PROVE  n \in G
    <2>1. n - 1 \in 0 .. N /\ n \in 0 .. N
      BY <1>1
    <2>2. f[n - 1] \in Ram /\ Backed(h, n - 1, f[n - 1])
      BY <1>2, <1>4, <2>1
    <2>3. Backed(h, n, Skip(f[n - 1], h[n]))
      BY <2>2, BackedStep
    <2> QED BY <1>2, <2>1, <2>3
  <1>5. N \in 0 .. N
    BY <1>1
  <1> HIDE DEF G, N
  <1>6. N \in G
    BY <1>1, <1>3, <1>4, <1>5, Climb
  <1> QED BY <1>2, <1>5, <1>6 DEF G, N, f

-----------------------------------------------------------------------------
Entry == [lo : Nat, hi : Nat, usable : BOOLEAN]
Map == [at : Nat, map : SUBSET Entry]
Around2(m, hole) ==
  IF hole.hi <= m.at THEN m
  ELSE [at |-> hole.hi,
        map |-> m.map \cup
          (IF hole.lo <= m.at THEN {}
           ELSE {Boot!Usable(m.at, hole.lo), Boot!Taken(hole.lo, hole.hi)})]

LEMMA Entries ==
  ASSUME NEW a \in Nat, NEW b \in Nat
  PROVE  /\ Boot!Usable(a, b) \in Entry /\ Boot!Taken(a, b) \in Entry
         /\ Boot!Usable(a, b).lo = a /\ Boot!Usable(a, b).hi = b /\ Boot!Usable(a, b).usable
         /\ Boot!Taken(a, b).lo = a /\ Boot!Taken(a, b).hi = b /\ ~Boot!Taken(a, b).usable
  BY DEF Boot!Usable, Boot!Taken, Entry

LEMMA SplitSteps ==
  ASSUME NEW h \in Seq(Hole)
  PROVE  /\ Boot!Split(h)[0] = [at |-> 16384, map |-> {}]
         /\ \A n \in 1 .. Len(h) : Boot!Split(h)[n] = Around2(Boot!Split(h)[n - 1], h[n])
         /\ \A n \in 0 .. Len(h) : Boot!Split(h)[n] \in Map
<1> DEFINE N == Len(h)
           none == [at |-> Boot!MB(1), map |-> {}]
           F == [n \in 1 .. N |-> [m \in Map |-> Around2(m, h[n])]]
           f == CHOOSE g : g = [n \in 0 .. N |-> IF n = 0 THEN none ELSE Around2(g[n - 1], h[n])]
<1>1. N \in Nat /\ \A n \in 1 .. N : h[n] \in Hole
  BY LenProperties
<1>2. none \in Map /\ none = [at |-> 16384, map |-> {}]
  BY DEF Map, Boot!MB
<1>3. ASSUME NEW n \in 1 .. N, NEW m \in Map
      PROVE  Around2(m, h[n]) \in Map
  <2>1. m.at \in Nat /\ m.map \subseteq Entry /\ h[n].lo \in Nat /\ h[n].hi \in Nat
    BY <1>1 DEF Map, Hole
  <2>2. Boot!Usable(m.at, h[n].lo) \in Entry /\ Boot!Taken(h[n].lo, h[n].hi) \in Entry
    BY <2>1, Entries
  <2> QED BY <2>1, <2>2 DEF Around2, Map
<1>4. Boot!Split(h) = f
  BY DEF Boot!Split, Around2
<1> HIDE DEF N, none, f
<1>5. F \in [1 .. N -> [Map -> Map]]
  BY <1>3
<1>6. PICK g : Staged(N, Map, none, F, g)
  <2>1. Stages(N, Map, none, F)
    BY <1>1, <1>2, <1>5 DEF Stages
  <2> HIDE DEF F
  <2> QED BY <2>1, Iterates
<1>7. /\ g \in [0 .. N -> Map] /\ g[0] = none
      /\ \A n \in 1 .. N : g[n] = F[n][g[n - 1]]
  BY <1>6 DEF Staged
<1>8. ASSUME NEW n \in 1 .. N
      PROVE  g[n - 1] \in Map /\ g[n] = Around2(g[n - 1], h[n])
  <2>1. n - 1 \in 0 .. N
    BY <1>1
  <2>2. g[n - 1] \in Map
    BY <1>7, <2>1
  <2> QED BY <1>7, <2>2
<1>9. \A n \in 0 .. N : n # 0 => n \in 1 .. N
  BY <1>1
<1> HIDE DEF F
<1>10. g = [n \in 0 .. N |-> IF n = 0 THEN none ELSE Around2(g[n - 1], h[n])]
  BY <1>7, <1>8, <1>9
<1>11. f = [n \in 0 .. N |-> IF n = 0 THEN none ELSE Around2(f[n - 1], h[n])]
  BY <1>10 DEF f
<1>12. /\ 0 \in 0 .. N /\ f[0] = none
       /\ \A n \in 1 .. N : n \in 0 .. N /\ f[n] = Around2(f[n - 1], h[n])
  <2>1. 0 \in 0 .. N /\ \A n \in 1 .. N : n \in 0 .. N /\ n # 0
    BY <1>1
  <2> QED BY <1>11, <2>1
<1>13. \A n \in 0 .. N : f[n] \in Map
  <2> DEFINE G == {n \in 0 .. N : f[n] \in Map}
  <2>1. 0 \in G
    BY <1>2, <1>12
  <2>2. ASSUME NEW n \in 1 .. N, n - 1 \in G
        PROVE  n \in G
    BY <1>3, <1>12, <2>2
  <2> HIDE DEF G
  <2>3. \A n \in 0 .. N : n \in G
    BY <1>1, <2>1, <2>2, Climb
  <2> QED BY <2>3 DEF G
<1> QED BY <1>2, <1>4, <1>12, <1>13 DEF N

(* What the loop has made of main memory before the last hole.             *)
Mapped(h, n, m) ==
  /\ m.at = IF n = 0 THEN 16384 ELSE h[n].hi
  /\ \A e \in m.map : /\ 16384 <= e.lo /\ e.lo < e.hi /\ e.hi <= m.at
                      /\ e.usable => Free(e.lo, e.hi, h, Len(h))
  /\ \A e, f \in m.map : e # f => e.hi <= f.lo \/ f.hi <= e.lo
  /\ \A a, b \in Nat : 16384 <= a /\ a < b /\ b <= m.at /\ Free(a, b, h, n) =>
       \E e \in m.map : e.usable /\ e.lo <= a /\ b <= e.hi

LEMMA MappedStep ==
  ASSUME NEW M \in Nat, NEW h, Sorted(h, M), NEW n \in 1 .. Len(h), NEW m \in Map,
         Mapped(h, n - 1, m)
  PROVE  Mapped(h, n, Around2(m, h[n]))
  <1> DEFINE q == Around2(m, h[n])
             gap == Boot!Usable(m.at, h[n].lo)
             hole == Boot!Taken(h[n].lo, h[n].hi)
  <1>1. /\ Len(h) \in Nat /\ n \in Nat /\ n # 0 /\ n \in 1 .. n
        /\ h[n].lo \in Nat /\ h[n].hi \in Nat /\ h[n].lo < h[n].hi /\ 16384 <= h[n].lo
    BY SortedHoles
  <1>2. m.at \in Nat /\ m.map \subseteq Entry /\ \A e \in m.map : e.lo \in Nat /\ e.hi \in Nat
    BY DEF Map, Entry
  <1>3. 16384 <= m.at /\ m.at <= h[n].lo /\ (n > 1 => h[n - 1].hi <= m.at)
    <2>1. CASE n = 1
      BY <1>1, <1>2, <2>1 DEF Mapped
    <2>2. CASE n > 1
      <3>1. n - 1 \in 1 .. Len(h) /\ n - 1 < n /\ n - 1 # 0
        BY <1>1, <2>2
      <3>2. /\ h[n - 1].hi <= h[n].lo /\ h[n - 1].lo \in Nat /\ h[n - 1].hi \in Nat
            /\ 16384 <= h[n - 1].lo /\ h[n - 1].lo < h[n - 1].hi
        BY <3>1, SortedHoles
      <3>3. m.at = h[n - 1].hi
        BY <3>1 DEF Mapped
      <3> QED BY <3>2, <3>3
    <2> QED BY <1>1, <2>1, <2>2
  <1>4. /\ q.at = h[n].hi
        /\ q.map = m.map \cup (IF h[n].lo <= m.at THEN {} ELSE {gap, hole})
    <2>1. ~(h[n].hi <= m.at)
      BY <1>1, <1>2, <1>3
    <2> QED BY <2>1 DEF Around2
  <1>5. /\ gap.lo = m.at /\ gap.hi = h[n].lo /\ gap.usable
        /\ hole.lo = h[n].lo /\ hole.hi = h[n].hi /\ ~hole.usable
    <2>1. gap.lo = m.at /\ gap.hi = h[n].lo /\ gap.usable
      BY <1>1, <1>2, Entries
    <2>2. hole.lo = h[n].lo /\ hole.hi = h[n].hi /\ ~hole.usable
      BY <1>1, <1>2, Entries
    <2> QED BY <2>1, <2>2
  <1> HIDE DEF q, gap, hole
  <1>6. ASSUME NEW e \in q.map
        PROVE  /\ 16384 <= e.lo /\ e.lo < e.hi /\ e.hi <= q.at
               /\ e.usable => Free(e.lo, e.hi, h, Len(h))
    <2>1. CASE e \in m.map
      <3>1. /\ 16384 <= e.lo /\ e.lo < e.hi /\ e.hi <= m.at /\ e.hi \in Nat
            /\ e.usable => Free(e.lo, e.hi, h, Len(h))
        BY <1>2, <2>1 DEF Mapped
      <3> QED BY <1>1, <1>2, <1>3, <1>4, <3>1
    <2>2. CASE e = gap /\ ~(h[n].lo <= m.at)
      <3>1. Free(m.at, h[n].lo, h, Len(h))
        BY <1>2, <1>3, GapFree
      <3> QED BY <1>1, <1>2, <1>3, <1>4, <1>5, <2>2, <3>1
    <2>3. CASE e = hole
      BY <1>1, <1>4, <1>5, <2>3
    <2> QED BY <1>4, <2>1, <2>2, <2>3
  <1>7. ASSUME NEW e \in q.map, NEW f \in q.map, e # f
        PROVE  e.hi <= f.lo \/ f.hi <= e.lo
    <2>1. \A x \in m.map : x.hi <= m.at /\ x.hi \in Nat
      BY <1>2 DEF Mapped
    <2>2. CASE e \in m.map /\ f \in m.map
      BY <1>7, <2>2 DEF Mapped
    <2>3. CASE e \in m.map /\ f \in {gap, hole}
      BY <1>1, <1>2, <1>3, <1>5, <2>1, <2>3
    <2>4. CASE f \in m.map /\ e \in {gap, hole}
      BY <1>1, <1>2, <1>3, <1>5, <2>1, <2>4
    <2>5. CASE e \in {gap, hole} /\ f \in {gap, hole}
      BY <1>1, <1>5, <1>7, <2>5
    <2> QED BY <1>4, <2>2, <2>3, <2>4, <2>5
  <1>8. ASSUME NEW a \in Nat, NEW b \in Nat, 16384 <= a, a < b, b <= q.at, Free(a, b, h, n)
        PROVE  \E e \in q.map : e.usable /\ e.lo <= a /\ b <= e.hi
    <2>1. h[n].hi <= a \/ b <= h[n].lo
      BY <1>1, <1>8 DEF Free
    <2>2. b <= h[n].lo
      BY <1>1, <1>4, <1>8, <2>1
    <2>3. CASE b <= m.at
      <3>1. Free(a, b, h, n - 1)
        <4>1. \A i \in 1 .. n - 1 : i \in 1 .. n
          BY <1>1
        <4> QED BY <1>8, <4>1 DEF Free
      <3>2. PICK e \in m.map : e.usable /\ e.lo <= a /\ b <= e.hi
        BY <1>8, <2>3, <3>1 DEF Mapped
      <3> QED BY <1>4, <3>2
    <2>4. CASE m.at < b
      <3>1. m.at <= a
        <4>1. CASE n = 1
          BY <1>1, <1>2, <1>8, <4>1 DEF Mapped
        <4>2. CASE n > 1
          <5>1. n - 1 \in 1 .. n /\ n - 1 # 0 /\ n - 1 \in 1 .. Len(h)
            BY <1>1, <4>2
          <5>2. m.at = h[n - 1].hi
            BY <5>1 DEF Mapped
          <5>3. h[n - 1].hi <= a \/ b <= h[n - 1].lo
            BY <1>8, <5>1 DEF Free
          <5>4. h[n - 1].lo \in Nat /\ h[n - 1].lo < h[n - 1].hi
            BY <5>1, SortedHoles
          <5> QED BY <1>2, <2>4, <5>2, <5>3, <5>4
        <4> QED BY <1>1, <4>1, <4>2
      <3>2. ~(h[n].lo <= m.at)
        BY <1>1, <1>2, <1>8, <2>2, <3>1
      <3>3. gap \in q.map
        BY <1>4, <3>2
      <3> QED BY <1>5, <2>2, <3>1, <3>3
    <2> QED BY <1>2, <2>3, <2>4
  <1>9. q.at = IF n = 0 THEN 16384 ELSE h[n].hi
    BY <1>1, <1>4
  <1>10. Mapped(h, n, q)
    BY <1>6, <1>7, <1>8, <1>9 DEF Mapped
  <1> QED BY <1>10 DEF q

LEMMA AllMapped ==
  ASSUME NEW M \in Nat, NEW h, Sorted(h, M)
  PROVE  Boot!Split(h)[Len(h)] \in Map /\ Mapped(h, Len(h), Boot!Split(h)[Len(h)])
  <1> DEFINE N == Len(h)
             f == Boot!Split(h)
             G == {n \in 0 .. N : Mapped(h, n, f[n])}
  <1>1. N \in Nat /\ h \in Seq(Hole)
    BY SortedHoles
  <1>2. /\ f[0] = [at |-> 16384, map |-> {}] /\ \A n \in 1 .. N : f[n] = Around2(f[n - 1], h[n])
        /\ \A n \in 0 .. N : f[n] \in Map
    BY <1>1, SplitSteps
  <1> HIDE DEF f
  <1>3. 0 \in G
    <2>1. f[0].at = 16384 /\ f[0].map = {}
      BY <1>2
    <2>2. Mapped(h, 0, f[0])
      BY <2>1 DEF Mapped
    <2> QED BY <1>1, <2>2
  <1>4. ASSUME NEW n \in 1 .. N, n - 1 \in G
        PROVE  n \in G
    <2>1. n - 1 \in 0 .. N /\ n \in 0 .. N
      BY <1>1
    <2>2. f[n - 1] \in Map /\ Mapped(h, n - 1, f[n - 1])
      BY <1>2, <1>4, <2>1
    <2>3. Mapped(h, n, Around2(f[n - 1], h[n]))
      BY <2>2, MappedStep
    <2> QED BY <1>2, <2>1, <2>3
  <1>5. N \in 0 .. N
    BY <1>1
  <1> HIDE DEF G, N
  <1>6. N \in G
    BY <1>1, <1>3, <1>4, <1>5, Climb
  <1> QED BY <1>2, <1>5, <1>6 DEF G, N, f

-----------------------------------------------------------------------------
(* The holes, sorted.                                                      *)
Apart(R) ==
  /\ \A x \in R : x.lo < x.hi
  /\ \A x, y \in R : x # y => x.hi <= y.lo \/ y.hi <= x.lo

Increasing(s, n) == \A i, j \in 1 .. n : i < j => s[i].lo < s[j].lo

LEMMA Enumerated ==
  ASSUME NEW R, IsFiniteSet(R), R \subseteq Hole, Apart(R)
  PROVE  \E s \in [1 .. Cardinality(R) -> R] : Increasing(s, Cardinality(R))
  <1> DEFINE N == Cardinality(R)
             Listed(S, n) == \E s \in [1 .. n -> S] : Increasing(s, n)
             G == {n \in 0 .. N : \A S \in SUBSET R : Cardinality(S) = n => Listed(S, n)}
  <1>1. N \in Nat /\ \A S \in SUBSET R : IsFiniteSet(S) /\ Cardinality(S) \in Nat
    BY FS_CardinalityType, FS_Subset
  <1>2. 0 \in G
    <2>1. ASSUME NEW S \in SUBSET R
          PROVE  Listed(S, 0)
      <3> DEFINE s == [i \in 1 .. 0 |-> S]
      <3>1. s \in [1 .. 0 -> S] /\ 1 .. 0 = {}
        OBVIOUS
      <3> HIDE DEF s
      <3> QED BY <3>1 DEF Increasing
    <2> HIDE DEF Listed
    <2> QED BY <1>1, <2>1
  <1>3. ASSUME NEW n \in 1 .. N, n - 1 \in G
        PROVE  n \in G
    <2>1. n - 1 \in Nat /\ n \in 0 .. N /\ n \in Nat
      BY <1>1
    <2>2. ASSUME NEW S \in SUBSET R, Cardinality(S) = n
          PROVE  Listed(S, n)
      <3>1. S # {}
        BY <2>2, FS_EmptySet
      <3>2. \A y \in S : y.lo \in Nat /\ y.hi \in Nat /\ y.lo < y.hi
        BY DEF Hole, Apart
      <3>3. PICK x \in S : \A y \in S : x.lo <= y.lo
        <4> DEFINE T == {y.lo : y \in S}
        <4>1. T \subseteq Nat /\ T # {}
          BY <3>1, <3>2
        <4>2. PICK k \in T : \A l \in T : k <= l
          <5> HIDE DEF T
          <5> QED BY <4>1, Least
        <4> QED BY <4>2
      <3>4. S \ {x} \in SUBSET R /\ Cardinality(S \ {x}) = n - 1
        BY <1>1, <2>2, FS_RemoveElement
      <3>5. PICK t \in [1 .. n - 1 -> S \ {x}] : Increasing(t, n - 1)
        BY <1>3, <3>4
      <3> DEFINE s == [i \in 1 .. n |-> IF i = 1 THEN x ELSE t[i - 1]]
      <3>6. ASSUME NEW i \in 1 .. n, i # 1
            PROVE  i - 1 \in 1 .. n - 1 /\ t[i - 1] \in S \ {x}
        <4>1. i - 1 \in 1 .. n - 1
          BY <2>1, <3>6
        <4> QED BY <3>5, <4>1
      <3>7. s \in [1 .. n -> S]
        BY <3>6
      <3>8. \A i \in 1 .. n : s[i] = IF i = 1 THEN x ELSE t[i - 1]
        OBVIOUS
      <3> HIDE DEF s
      <3>9. ASSUME NEW i \in 1 .. n, NEW j \in 1 .. n, i < j
            PROVE  s[i].lo < s[j].lo
        <4>1. j # 1 /\ s[j] = t[j - 1] /\ j - 1 \in 1 .. n - 1 /\ t[j - 1] \in S \ {x}
          BY <2>1, <3>6, <3>8, <3>9
        <4>2. CASE i = 1
          <5>1. x.lo <= s[j].lo /\ s[j] # x /\ s[j] \in S
            BY <3>3, <4>1
          <5>2. x.hi <= s[j].lo \/ s[j].hi <= x.lo
            BY <5>1 DEF Apart
          <5>3. x.lo < s[j].lo
            BY <3>2, <5>1, <5>2
          <5> QED BY <3>8, <4>2, <5>3
        <4>3. CASE i # 1
          <5>1. i - 1 \in 1 .. n - 1 /\ s[i] = t[i - 1] /\ i - 1 < j - 1
            BY <2>1, <3>6, <3>8, <3>9, <4>3
          <5> QED BY <3>5, <4>1, <5>1 DEF Increasing
        <4> QED BY <4>2, <4>3
      <3> QED BY <3>7, <3>9 DEF Increasing
    <2> HIDE DEF Listed
    <2> QED BY <2>1, <2>2
  <1> HIDE DEF G
  <1>4. N \in G
    <2>1. N \in 0 .. N
      BY <1>1
    <2> HIDE DEF N
    <2> QED BY <1>1, <1>2, <1>3, <2>1, Climb
  <1>5. Listed(R, N)
    <2>1. R \in SUBSET R
      OBVIOUS
    <2> QED BY <1>4, <2>1 DEF G
  <1> QED BY <1>5

LEMMA Finite ==
  /\ \A S : Boot!IsFiniteSet(S) <=> IsFiniteSet(S)
  /\ \A S : Boot!Cardinality(S) = Cardinality(S)
  <1>1. ASSUME NEW S
        PROVE  Boot!IsFiniteSet(S) <=> IsFiniteSet(S)
    BY Zenon DEF Boot!IsFiniteSet, IsFiniteSet
  <1>2. ASSUME NEW S
        PROVE  Boot!Cardinality(S) = Cardinality(S)
    BY Zenon DEF Boot!Cardinality, Cardinality
  <1> QED BY <1>1, <1>2

LEMMA Extremes ==
  ASSUME NEW a \in Nat, NEW b \in Nat
  PROVE  /\ Boot!Max({a, b}) = IF b <= a THEN a ELSE b
         /\ Boot!Min({a, b}) = IF a <= b THEN a ELSE b
  <1> DEFINE big == IF b <= a THEN a ELSE b
             small == IF a <= b THEN a ELSE b
  <1>1. big \in {a, b} /\ \A x \in {a, b} : big >= x
    OBVIOUS
  <1>2. small \in {a, b} /\ \A x \in {a, b} : small <= x
    OBVIOUS
  <1>3. \A x \in {a, b} : (\A y \in {a, b} : x >= y) => x = big
    OBVIOUS
  <1>4. \A x \in {a, b} : (\A y \in {a, b} : x <= y) => x = small
    OBVIOUS
  <1> HIDE DEF big, small
  <1>5. Boot!Max({a, b}) = big
    BY <1>1, <1>3 DEF Boot!Max
  <1>6. Boot!Min({a, b}) = small
    BY <1>2, <1>4 DEF Boot!Min
  <1> QED BY <1>5, <1>6 DEF big, small

Configured ==
  config \in [mem : Memory, aligned : BOOLEAN, kernel : Kernel, initrd : Initrd,
              bars : Bars, pvh : BOOLEAN, rom : Rom]

LEMMA BarsAssumed ==
  ASSUME Configured
  PROVE  /\ config.mem \in Nat /\ IsFiniteSet(config.bars)
         /\ \A b \in config.bars : /\ b.lo \in Nat /\ b.hi \in Nat
                                   /\ 16384 <= b.lo /\ b.lo < b.hi
         /\ \A b, c \in config.bars : b # c => b.hi <= c.lo \/ c.hi <= b.lo
  <1>1. config.mem \in Memory /\ config.bars \in Bars
    BY DEF Configured
  <1>2. Boot!SizesAssumption /\ Boot!BarsAssumption /\ Boot!LoadAddr = 16384
    BY Assumptions DEF Boot!ConfigAssumption, Boot!LoadAddr, Boot!MB
  <1>3. /\ config.mem \in Nat /\ Boot!IsFiniteSet(config.bars)
        /\ config.bars \subseteq [lo : Nat, hi : Nat]
        /\ \A b \in config.bars : 16384 <= b.lo /\ b.lo < b.hi
        /\ \A b, c \in config.bars : b # c => b.hi <= c.lo \/ c.hi <= b.lo
    <2>1. config.mem \in Nat
      <3>1. Memory \subseteq Nat
        BY <1>2 DEF Boot!SizesAssumption
      <3> QED BY <1>1, <3>1
    <2>2. /\ Boot!IsFiniteSet(config.bars) /\ config.bars \subseteq [lo : Nat, hi : Nat]
          /\ \A b \in config.bars : Boot!LoadAddr <= b.lo /\ b.lo < b.hi
          /\ \A b, c \in config.bars : b # c => b.hi <= c.lo \/ c.hi <= b.lo
      BY <1>1, <1>2 DEF Boot!BarsAssumption
    <2> QED BY <1>2, <2>1, <2>2
  <1>4. \A b \in config.bars : b.lo \in Nat /\ b.hi \in Nat
    BY <1>3
  <1> QED BY <1>3, <1>4, Finite

(* A hole is what of a BAR is below the end of memory.                     *)
Clip(b) == [lo |-> b.lo, hi |-> IF b.hi <= config.mem THEN b.hi ELSE config.mem]
Within == {b \in config.bars : b.lo < config.mem}

LEMMA Reserving ==
  ASSUME Configured
  PROVE  /\ Boot!Reserved(config) = {Clip(b) : b \in Within}
         /\ Boot!Reserved(config) \subseteq Hole /\ IsFiniteSet(Boot!Reserved(config))
         /\ Apart(Boot!Reserved(config))
         /\ \A r \in Boot!Reserved(config) : 16384 <= r.lo /\ r.hi <= config.mem
  <1> DEFINE R == Boot!Reserved(config)
  <1>1. /\ config.mem \in Nat /\ IsFiniteSet(config.bars)
        /\ \A b \in config.bars : b.lo \in Nat /\ b.hi \in Nat /\ 16384 <= b.lo /\ b.lo < b.hi
        /\ \A b, c \in config.bars : b # c => b.hi <= c.lo \/ c.hi <= b.lo
    BY BarsAssumed
  <1>2. Boot!LoadAddr = 16384
    BY DEF Boot!LoadAddr, Boot!MB
  <1>3. ASSUME NEW b \in config.bars
        PROVE  /\ [lo |-> Boot!Max({b.lo, Boot!LoadAddr}), hi |-> Boot!Min({b.hi, config.mem})] = Clip(b)
               /\ b.hi > Boot!LoadAddr
    <2>0. b.lo \in Nat /\ b.hi \in Nat /\ 16384 <= b.lo /\ b.lo < b.hi /\ 16384 \in Nat
      BY <1>1
    <2>1. Boot!Max({b.lo, 16384}) = b.lo
      <3>1. Boot!Max({b.lo, 16384}) = IF 16384 <= b.lo THEN b.lo ELSE 16384
        BY <2>0, Extremes
      <3> QED BY <2>0, <3>1
    <2>2. Boot!Min({b.hi, config.mem}) = IF b.hi <= config.mem THEN b.hi ELSE config.mem
      <3>1. config.mem \in Nat
        BY <1>1
      <3>2. PICK hi \in Nat : hi = b.hi
        BY <2>0
      <3>3. PICK M \in Nat : M = config.mem
        BY <3>1
      <3>4. Boot!Min({hi, M}) = IF hi <= M THEN hi ELSE M
        BY Extremes
      <3> QED BY Zenon, <3>2, <3>3, <3>4
    <2> QED BY <1>2, <2>0, <2>1, <2>2 DEF Clip
  <1>4. R = {Clip(b) : b \in Within}
    BY <1>3 DEF Boot!Reserved, Within
  <1> HIDE DEF R
  <1>5. ASSUME NEW b \in Within
        PROVE  /\ Clip(b).lo = b.lo /\ Clip(b).hi \in Nat /\ Clip(b).hi <= b.hi
               /\ Clip(b).hi <= config.mem /\ Clip(b).lo < Clip(b).hi
               /\ Clip(b) \in Hole
    BY <1>1 DEF Clip, Within, Hole
  <1>6. IsFiniteSet(R)
    <2> DEFINE f == [b \in Within |-> Clip(b)]
    <2>1. IsFiniteSet(Within)
      <3>1. Within \in SUBSET config.bars
        BY DEF Within
      <3> QED BY <1>1, <3>1, FS_Subset
    <2>2. f \in Surjection(Within, R)
      BY <1>4 DEF Surjection
    <2> QED BY <2>1, <2>2, FS_Surjection
  <1>7. Apart(R)
    <2>1. ASSUME NEW x \in R, NEW y \in R, x # y
          PROVE  x.hi <= y.lo \/ y.hi <= x.lo
      <3>1. PICK b \in Within : x = Clip(b)
        BY <1>4
      <3>2. PICK c \in Within : y = Clip(c)
        BY <1>4
      <3>3. b # c /\ b \in config.bars /\ c \in config.bars
        BY <2>1, <3>1, <3>2 DEF Within
      <3>4. b.hi <= c.lo \/ c.hi <= b.lo
        BY <1>1, <3>3
      <3>5. x.lo = b.lo /\ x.hi <= b.hi /\ y.lo = c.lo /\ y.hi <= c.hi /\ x.hi \in Nat /\ y.hi \in Nat
        BY <1>5, <3>1, <3>2
      <3> QED BY <1>1, <3>3, <3>4, <3>5
    <2>2. \A x \in R : x.lo < x.hi
      BY <1>4, <1>5
    <2> QED BY <2>1, <2>2 DEF Apart
  <1>8. \A r \in R : r \in Hole /\ 16384 <= r.lo /\ r.hi <= config.mem
    <2>1. ASSUME NEW b \in Within
          PROVE  Clip(b) \in Hole /\ 16384 <= Clip(b).lo /\ Clip(b).hi <= config.mem
      BY <1>1, <1>5 DEF Within
    <2> QED BY <1>4, <2>1
  <1> QED BY <1>4, <1>6, <1>7, <1>8 DEF R

LEMMA HolesSorted ==
  ASSUME Configured
  PROVE  /\ Sorted(Boot!Holes, config.mem)
         /\ \A r \in Boot!Reserved(config) : \E i \in 1 .. Len(Boot!Holes) : Boot!Holes[i] = r
         /\ \A i \in 1 .. Len(Boot!Holes) : Boot!Holes[i] \in Boot!Reserved(config)
  <1> DEFINE R == Boot!Reserved(config)
             N == Cardinality(R)
             s == Boot!Holes
  <1>1. /\ R \subseteq Hole /\ IsFiniteSet(R) /\ Apart(R)
        /\ \A r \in R : 16384 <= r.lo /\ r.hi <= config.mem
    BY Reserving
  <1>2. N \in Nat
    BY <1>1, FS_CardinalityType
  <1>3. s \in [1 .. N -> R] /\ Increasing(s, N)
    <2>1. \E t \in [1 .. N -> R] : Increasing(t, N)
      BY <1>1, Enumerated
    <2>2. s = CHOOSE t \in [1 .. N -> R] : \A i, j \in DOMAIN t : i < j => t[i].lo < t[j].lo
      BY Finite DEF Boot!Holes
    <2> HIDE DEF s, N, R
    <2>3. \E t \in [1 .. N -> R] : \A i, j \in DOMAIN t : i < j => t[i].lo < t[j].lo
      BY <2>1 DEF Increasing
    <2>4. s \in [1 .. N -> R] /\ \A i, j \in DOMAIN s : i < j => s[i].lo < s[j].lo
      BY <2>2, <2>3
    <2> QED BY <2>4 DEF Increasing
  <1> HIDE DEF s, R
  <1>4. s \in Seq(Hole) /\ Len(s) = N /\ \A i \in 1 .. N : s[i] \in R
    <2> HIDE DEF N
    <2>1. s \in [1 .. N -> Hole]
      BY <1>1, <1>3
    <2> QED BY <1>2, <1>3, <2>1
  <1>5. \A i \in 1 .. N : s[i].lo \in Nat /\ s[i].hi \in Nat /\ s[i].lo < s[i].hi
    BY <1>1, <1>4 DEF Hole, Apart
  <1>6. ASSUME NEW i \in 1 .. N, NEW j \in 1 .. N, i < j
        PROVE  s[i].hi <= s[j].lo
    <2>1. s[i].lo < s[j].lo
      BY <1>3, <1>6 DEF Increasing
    <2>2. s[i] # s[j]
      BY <1>5, <2>1
    <2>3. s[i].hi <= s[j].lo \/ s[j].hi <= s[i].lo
      BY <1>1, <1>4, <2>2 DEF Apart
    <2> QED BY <1>5, <2>1, <2>3
  <1>7. Sorted(s, config.mem)
    BY <1>1, <1>4, <1>5, <1>6 DEF Sorted
  <1>8. s \in Surjection(1 .. N, R)
    <2>1. ASSUME NEW i \in 1 .. N, NEW j \in 1 .. N, s[i] = s[j]
          PROVE  i = j
      <3>1. ~(i < j) /\ ~(j < i)
        BY <1>3, <1>5, <2>1 DEF Increasing
      <3> QED BY <1>2, <3>1
    <2>2. s \in Injection(1 .. N, R)
      BY <1>3, <2>1 DEF Injection, IsInjective
    <2>3. Cardinality(1 .. N) = N
      <3> HIDE DEF N
      <3> QED BY <1>2, FS_Interval
    <2> QED BY <1>1, <2>2, <2>3, FS_Injection
  <1>9. \A r \in R : \E i \in 1 .. N : s[i] = r
    BY <1>8 DEF Surjection
  <1> QED BY <1>4, <1>7, <1>9 DEF s, R

-----------------------------------------------------------------------------
(* The memory given to KVM and the map given to the kernel.                *)
Hs == Boot!Holes
NH == Len(Boot!Holes)
Open(a, b) == a \in Nat /\ b \in Nat /\ a < b /\ b <= config.mem /\ Free(a, b, Hs, NH)

LEMMA RamFacts ==
  ASSUME Configured, config.mem >= 16384
  PROVE  /\ \A s \in Boot!RamSlots : s \in Hole /\ Open(s.lo, s.hi)
         /\ \A a, b \in Nat : Open(a, b) => \E s \in Boot!RamSlots : s.lo <= a /\ b <= s.hi
  <1> DEFINE h == Boot!Holes
             N == Len(h)
             final == Boot!Around(h)[N]
             M == config.mem
             tail == [lo |-> final.at, hi |-> M]
             all == final.ram \cup (IF final.at < M THEN {tail} ELSE {})
  <1>1. M \in Nat /\ M >= 16384 /\ Sorted(h, M)
    BY BarsAssumed, HolesSorted
  <1>2. final \in Ram /\ Backed(h, N, final)
    BY <1>1, AllBacked
  <1>3. Boot!RamSlots = IF all = {} THEN {[lo |-> 0, hi |-> M]} ELSE all
    BY DEF Boot!RamSlots
  <1>4. /\ N \in Nat
        /\ \A i \in 1 .. N : h[i].lo \in Nat /\ h[i].hi \in Nat /\ h[i].lo < h[i].hi
                             /\ 16384 <= h[i].lo /\ h[i].hi <= M
        /\ \A i, j \in 1 .. N : i < j => h[i].hi <= h[j].lo
    BY <1>1, SortedHoles
  <1>5. final.at \in Nat /\ final.ram \subseteq Hole
    BY <1>2 DEF Ram
  <1>6. tail.lo = final.at /\ tail.hi = M
    OBVIOUS
  <1>7. tail \in Hole
    BY <1>1, <1>5 DEF Hole
  <1>8. final.at = IF N = 0 THEN 0 ELSE h[N].hi
    BY <1>2 DEF Backed
  <1> HIDE DEF final, tail, M, h, N
  <1>9. final.at <= M
    BY <1>1, <1>4, <1>8
  <1>10. Free(final.at, M, h, N)
    <2>1. ASSUME NEW i \in 1 .. N
          PROVE  h[i].hi <= final.at
      <3>1. CASE i = N
        BY <1>4, <1>8, <3>1
      <3>2. CASE i < N
        <4>1. N \in 1 .. N /\ N # 0
          BY <1>4, <3>2
        <4>2. h[i].hi <= h[N].lo /\ h[N].lo < h[N].hi
          BY <1>4, <3>2, <4>1
        <4> QED BY <1>4, <1>8, <4>1, <4>2
      <3> QED BY <1>4, <3>1, <3>2
    <2> QED BY <2>1 DEF Free
  <1>11. all # {}
    <2>1. CASE N = 0
      BY <1>1, <1>8, <2>1
    <2>2. CASE N # 0
      <3>1. 1 \in 1 .. N /\ N \in 1 .. N
        BY <1>4, <2>2
      <3>2. Free(0, h[1].lo, h, N)
        BY <1>1, <3>1, GapFree DEF N
      <3>3. h[1].lo <= h[N].hi
        BY <1>4, <3>1
      <3>4. \E s \in final.ram : s.lo <= 0 /\ h[1].lo <= s.hi
        BY <1>2, <1>4, <1>8, <2>2, <3>1, <3>2, <3>3 DEF Backed
      <3> QED BY <3>4
    <2> QED BY <2>1, <2>2
  <1>12. Boot!RamSlots = all
    BY <1>3, <1>11
  <1>13. ASSUME NEW s \in all
         PROVE  s \in Hole /\ s.lo < s.hi /\ s.hi <= M /\ Free(s.lo, s.hi, h, N)
    <2>1. CASE s \in final.ram
      <3>1. s \in Hole /\ s.lo < s.hi /\ s.hi <= final.at /\ Free(s.lo, s.hi, h, N)
        BY <1>2, <1>5, <2>1 DEF Backed, N
      <3>2. s.hi \in Nat
        BY <3>1 DEF Hole
      <3> QED BY <1>1, <1>5, <1>9, <3>1, <3>2
    <2>2. CASE s = tail /\ final.at < M
      BY <1>6, <1>7, <1>1, <1>10, <2>2
    <2> QED BY <2>1, <2>2
  <1>14. ASSUME NEW a \in Nat, NEW b \in Nat, a < b, b <= M, Free(a, b, h, N)
         PROVE  \E s \in all : s.lo <= a /\ b <= s.hi
    <2>1. CASE b <= final.at
      <3>1. PICK s \in final.ram : s.lo <= a /\ b <= s.hi
        BY <1>2, <1>14, <2>1 DEF Backed
      <3> QED BY <3>1
    <2>2. CASE final.at < b
      <3>1. final.at <= a
        <4>1. CASE N = 0
          BY <1>8, <4>1
        <4>2. CASE N # 0
          <5>1. N \in 1 .. N
            BY <1>4, <4>2
          <5>2. h[N].hi <= a \/ b <= h[N].lo
            BY <1>14, <5>1 DEF Free
          <5> QED BY <1>4, <1>5, <1>8, <2>2, <4>2, <5>1, <5>2
        <4> QED BY <4>1, <4>2
      <3>2. final.at < M
        BY <1>1, <1>5, <1>14, <2>2
      <3>3. tail \in all
        BY <3>2
      <3> QED BY <1>1, <1>6, <1>14, <3>1, <3>3
    <2> QED BY <1>5, <2>1, <2>2
  <1> HIDE DEF all
  <1>15. \A s \in all : s \in Hole /\ Open(s.lo, s.hi)
    <2>1. ASSUME NEW s \in all
          PROVE  s \in Hole /\ Open(s.lo, s.hi)
      <3>1. s \in Hole /\ s.lo < s.hi /\ s.hi <= M /\ Free(s.lo, s.hi, h, N)
        BY <1>13
      <3>2. s.lo \in Nat /\ s.hi \in Nat
        BY <3>1 DEF Hole
      <3> QED BY <3>1, <3>2 DEF Open, Hs, NH, M, h, N
    <2> QED BY <2>1
  <1>16. \A a, b \in Nat : Open(a, b) => \E s \in all : s.lo <= a /\ b <= s.hi
    <2>1. ASSUME NEW a \in Nat, NEW b \in Nat, Open(a, b)
          PROVE  \E s \in all : s.lo <= a /\ b <= s.hi
      <3>1. a < b /\ b <= M /\ Free(a, b, h, N)
        BY <2>1 DEF Open, Hs, NH, M, h, N
      <3> QED BY <1>14, <3>1
    <2> QED BY <2>1
  <1> QED BY <1>12, <1>15, <1>16

LEMMA MapFacts ==
  ASSUME Configured, config.mem >= 16384
  PROVE  /\ \A e \in Boot!MainMap : /\ e \in Entry /\ 16384 <= e.lo /\ e.lo < e.hi
                                    /\ e.hi <= config.mem
                                    /\ e.usable => Open(e.lo, e.hi)
         /\ \A e, f \in Boot!MainMap : e # f => e.hi <= f.lo \/ f.hi <= e.lo
         /\ \A a, b \in Nat : Open(a, b) /\ 16384 <= a =>
              \E e \in Boot!MainMap : e.usable /\ e.lo <= a /\ b <= e.hi
  <1> DEFINE h == Boot!Holes
             N == Len(h)
             final == Boot!Split(h)[N]
             M == config.mem
             tail == Boot!Usable(final.at, M)
             all == final.map \cup (IF final.at < M THEN {tail} ELSE {})
  <1>1. M \in Nat /\ M >= 16384 /\ Sorted(h, M)
    BY BarsAssumed, HolesSorted
  <1>2. final \in Map /\ Mapped(h, N, final)
    BY <1>1, AllMapped
  <1>3. Boot!MainMap = all
    BY DEF Boot!MainMap
  <1>4. /\ N \in Nat
        /\ \A i \in 1 .. N : h[i].lo \in Nat /\ h[i].hi \in Nat /\ h[i].lo < h[i].hi
                             /\ 16384 <= h[i].lo /\ h[i].hi <= M
        /\ \A i, j \in 1 .. N : i < j => h[i].hi <= h[j].lo
    BY <1>1, SortedHoles
  <1>5. final.at \in Nat /\ final.map \subseteq Entry
    BY <1>2 DEF Map
  <1>6. tail \in Entry /\ tail.lo = final.at /\ tail.hi = M /\ tail.usable
    BY <1>1, <1>5, Entries
  <1>7. final.at = IF N = 0 THEN 16384 ELSE h[N].hi
    BY <1>2 DEF Mapped
  <1> HIDE DEF final, tail, M, h, N
  <1>8. 16384 <= final.at /\ final.at <= M
    <2>1. CASE N = 0
      BY <1>1, <1>7, <2>1
    <2>2. CASE N # 0
      <3>1. N \in 1 .. N
        BY <1>4, <2>2
      <3> QED BY <1>4, <1>7, <2>2, <3>1
    <2> QED BY <2>1, <2>2
  <1>9. Free(final.at, M, h, N)
    <2>1. ASSUME NEW i \in 1 .. N
          PROVE  h[i].hi <= final.at
      <3>1. CASE i = N
        BY <1>4, <1>7, <3>1
      <3>2. CASE i < N
        <4>1. N \in 1 .. N /\ N # 0
          BY <1>4, <3>2
        <4>2. h[i].hi <= h[N].lo /\ h[N].lo < h[N].hi
          BY <1>4, <3>2, <4>1
        <4> QED BY <1>4, <1>7, <4>1, <4>2
      <3> QED BY <1>4, <3>1, <3>2
    <2> QED BY <2>1 DEF Free
  <1>10. ASSUME NEW e \in final.map
         PROVE  /\ e \in Entry /\ 16384 <= e.lo /\ e.lo < e.hi /\ e.hi <= final.at
                /\ e.lo \in Nat /\ e.hi \in Nat
                /\ e.usable => Free(e.lo, e.hi, h, N)
    <2>1. e \in Entry /\ 16384 <= e.lo /\ e.lo < e.hi /\ e.hi <= final.at
      BY <1>2, <1>5 DEF Mapped
    <2>2. e.usable => Free(e.lo, e.hi, h, N)
      BY <1>2 DEF Mapped, N
    <2> QED BY <2>1, <2>2 DEF Entry
  <1>11. ASSUME NEW e \in all
         PROVE  /\ e \in Entry /\ 16384 <= e.lo /\ e.lo < e.hi /\ e.hi <= M
                /\ e.usable => Open(e.lo, e.hi)
    <2>1. CASE e \in final.map
      <3>1. /\ e \in Entry /\ 16384 <= e.lo /\ e.lo < e.hi /\ e.hi <= M
            /\ e.lo \in Nat /\ e.hi \in Nat
        BY <1>1, <1>5, <1>8, <1>10, <2>1
      <3>2. e.usable => Free(e.lo, e.hi, h, N)
        BY <1>10, <2>1
      <3> QED BY <3>1, <3>2 DEF Open, Hs, NH, M, h, N
    <2>2. CASE e = tail /\ final.at < M
      BY <1>1, <1>5, <1>6, <1>8, <1>9, <2>2 DEF Open, Hs, NH, M, h, N
    <2> QED BY <2>1, <2>2
  <1>12. ASSUME NEW e \in all, NEW f \in all, e # f
         PROVE  e.hi <= f.lo \/ f.hi <= e.lo
    <2>1. CASE e \in final.map /\ f \in final.map
      BY <1>2, <1>12, <2>1 DEF Mapped
    <2>2. CASE e \in final.map /\ f = tail
      BY <1>6, <1>10, <2>2
    <2>3. CASE f \in final.map /\ e = tail
      BY <1>6, <1>10, <2>3
    <2> QED BY <1>12, <2>1, <2>2, <2>3
  <1>13. ASSUME NEW a \in Nat, NEW b \in Nat, Open(a, b), 16384 <= a
         PROVE  \E e \in all : e.usable /\ e.lo <= a /\ b <= e.hi
    <2>0. a < b /\ b <= M /\ Free(a, b, h, N)
      BY <1>13 DEF Open, Hs, NH, M, h, N
    <2>1. CASE b <= final.at
      <3>1. PICK e \in final.map : e.usable /\ e.lo <= a /\ b <= e.hi
        BY <1>2, <1>13, <2>0, <2>1 DEF Mapped
      <3> QED BY <3>1
    <2>2. CASE final.at < b
      <3>1. final.at <= a
        <4>1. CASE N = 0
          BY <1>7, <1>13, <4>1
        <4>2. CASE N # 0
          <5>1. N \in 1 .. N
            BY <1>4, <4>2
          <5>2. h[N].hi <= a \/ b <= h[N].lo
            BY <2>0, <5>1 DEF Free
          <5> QED BY <1>4, <1>5, <1>7, <2>2, <4>2, <5>1, <5>2
        <4> QED BY <4>1, <4>2
      <3>2. final.at < M
        BY <1>1, <1>5, <2>0, <2>2
      <3>3. tail \in all
        BY <3>2
      <3> QED BY <2>0, <1>6, <3>1, <3>3
    <2> QED BY <1>5, <2>1, <2>2
  <1> HIDE DEF all
  <1>14. Boot!MainMap = all
    BY <1>3 DEF all, M, final, h, N, tail
  <1> QED BY <1>11, <1>12, <1>13, <1>14 DEF M

-----------------------------------------------------------------------------
(* What boot_linux is given.                                               *)
Segs == [lo : Nat, file : Nat, mem : Nat, whole : BOOLEAN]
(* The end of what a kernel and the start of an initrd may take. *)
Giga == Boot!MB(1022)

Ends(k) == {k[i].lo + k[i].mem : i \in DOMAIN k}

LEMMA Highest ==
  ASSUME NEW B \in Nat, NEW T, T \subseteq 0 .. B, T # {}
  PROVE  Boot!Max(T) \in T /\ \A x \in T : x <= Boot!Max(T)
  <1> DEFINE D == {B - x : x \in T}
  <1>0. \A x \in T : x \in Nat /\ B - x \in Nat
    OBVIOUS
  <1>1. D \subseteq Nat /\ D # {}
    BY <1>0
  <1>2. PICK m \in D : \A y \in D : m <= y
    <2> HIDE DEF D
    <2> QED BY <1>1, Least
  <1>3. PICK t \in T : m = B - t
    BY <1>2
  <1>4. \A x \in T : t >= x
    <2>1. ASSUME NEW x \in T
          PROVE  t >= x
      <3>1. B - x \in D
        OBVIOUS
      <3>2. B - t <= B - x
        BY <1>2, <1>3, <3>1
      <3> QED BY <3>2
    <2> QED BY <2>1
  <1> HIDE DEF D
  <1> DEFINE top == Boot!Max(T)
  <1>5. top = CHOOSE x \in T : \A y \in T : x >= y
    BY DEF Boot!Max
  <1> HIDE DEF top
  <1>6. top \in T /\ \A y \in T : top >= y
    BY <1>4, <1>5
  <1> QED BY <1>6 DEF top

LEMMA GigaIs == Giga \in Nat /\ Giga = 32768 * 511
  BY DEF Giga, Boot!MB

LEMMA KernelsAssumed ==
  ASSUME NEW k \in Kernel
  PROVE  /\ k \in Seq(Segs)
         /\ \A i \in DOMAIN k :
              /\ k[i] \in Segs /\ k[i].lo \in Nat /\ k[i].file \in Nat /\ k[i].mem \in Nat
              /\ k[i].file <= k[i].mem
              /\ 16384 <= k[i].lo \/ Boot!OverlapsReserved(Boot!Claim(k[i]))
              /\ k[i].lo + k[i].mem <= Giga
  <1>1. Boot!KernelAssumption /\ Boot!LinkedHigh
    BY Assumptions DEF Boot!ConfigAssumption, Boot!RoomAssumption
  <1>2. Boot!LoadAddr = 16384 /\ Boot!MB(1022) = Giga
    BY DEF Boot!LoadAddr, Boot!MB, Giga
  <1>3. Kernel \subseteq Seq(Segs)
    BY <1>1 DEF Boot!KernelAssumption, Segs
  <1>4. k \in Seq(Segs)
    BY <1>3
  <1>5. ASSUME NEW i \in DOMAIN k
        PROVE  k[i] \in Segs
    BY <1>4
  <1>6. \A i \in DOMAIN k : k[i].lo \in Nat /\ k[i].file \in Nat /\ k[i].mem \in Nat
    BY <1>5 DEF Segs
  <1>7. \A i \in DOMAIN k : k[i].file <= k[i].mem
    BY <1>1 DEF Boot!KernelAssumption
  <1>8. \A i \in DOMAIN k : /\ Boot!LoadAddr <= k[i].lo \/ Boot!OverlapsReserved(Boot!Claim(k[i]))
                            /\ k[i].lo + k[i].mem <= Boot!MB(1022)
    BY Zenon, <1>1 DEF Boot!LinkedHigh
  <1> QED BY <1>2, <1>4, <1>5, <1>6, <1>7, <1>8

LEMMA KernelEnds ==
  ASSUME NEW k \in Kernel, 1 \in DOMAIN k
  PROVE  /\ Boot!KernelEnd(k) \in Nat /\ Boot!KernelEnd(k) <= Giga
         /\ \A i \in DOMAIN k : k[i].lo + k[i].mem <= Boot!KernelEnd(k)
  <1>0. Giga \in Nat
    BY GigaIs
  <1> DEFINE T == Ends(k)
             End(i) == k[i].lo + k[i].mem
  <1>1. ASSUME NEW i \in DOMAIN k
        PROVE  End(i) \in 0 .. Giga
    <2>1. k[i].lo \in Nat /\ k[i].mem \in Nat /\ k[i].lo + k[i].mem <= Giga
      BY KernelsAssumed
    <2> QED BY <2>1
  <1>2. T = {End(i) : i \in DOMAIN k}
    BY DEF Ends
  <1>5. Boot!KernelEnd(k) = Boot!Max(T)
    BY DEF Boot!KernelEnd, Ends
  <1> HIDE DEF T, End
  <1>6. T \subseteq 0 .. Giga /\ T # {}
    BY <1>1, <1>2
  <1>7. Boot!Max(T) \in T /\ \A x \in T : x <= Boot!Max(T)
    BY <1>0, <1>6, Highest
  <1>8. Boot!Max(T) \in 0 .. Giga
    BY <1>6, <1>7
  <1>9. \A i \in DOMAIN k : End(i) <= Boot!Max(T)
    BY <1>2, <1>7
  <1>10. \A i \in DOMAIN k : End(i) <= Boot!KernelEnd(k)
    BY <1>5, <1>9
  <1>11. \A i \in DOMAIN k : k[i].lo + k[i].mem <= Boot!KernelEnd(k)
    BY Zenon, <1>10 DEF End
  <1>12. Boot!KernelEnd(k) \in Nat /\ Boot!KernelEnd(k) <= Giga
    BY <1>5, <1>8
  <1> QED BY Zenon, <1>11, <1>12

(* Rounding up to pages of 2 MB.                                           *)
Up(n) == Boot!RoundUp(n, 32768)
Pages(n) == Up(n) \div 32768

Rounded(n) ==
  /\ Up(n) \in Nat /\ n <= Up(n) /\ Up(n) <= n + 32767
  /\ Pages(n) \in Nat /\ Up(n) = 32768 * Pages(n)

LEMMA Rounds == ASSUME NEW n \in Nat PROVE Rounded(n)
  <1> DEFINE q == (n + 32767) \div 32768
  <1>1. q \in Nat /\ 32768 * q <= n + 32767 /\ n + 32767 < 32768 * q + 32768
    OBVIOUS
  <1>2. Boot!RoundUp(n, 32768) = q * 32768
    BY DEF Boot!RoundUp
  <1> HIDE DEF q
  <1>3. (q * 32768) \div 32768 = q
    BY <1>1
  <1>4. Up(n) = q * 32768 /\ Pages(n) = q
    BY <1>2, <1>3 DEF Up, Pages
  <1> QED BY <1>1, <1>4 DEF Rounded

LEMMA InitrdStarts ==
  ASSUME NEW k \in Kernel, 1 \in DOMAIN k
  PROVE  /\ Boot!InitrdStart(k) \in Nat /\ Boot!KernelEnd(k) <= Boot!InitrdStart(k)
         /\ Boot!InitrdStart(k) <= Giga
  <1>1. Boot!KernelEnd(k) \in Nat /\ Boot!KernelEnd(k) <= Giga
    BY KernelEnds
  <1>2. Boot!InitrdStart(k) = Up(Boot!KernelEnd(k))
    BY DEF Boot!InitrdStart, Boot!MB, Up
  <1>a. PICK e \in Nat : e = Boot!KernelEnd(k)
    BY <1>1
  <1> DEFINE q == Pages(e)
             r == Up(e)
  <1>3. r \in Nat /\ e <= r /\ r <= e + 32767 /\ q \in Nat /\ r = 32768 * q
    <2>1. Rounded(e)
      BY Rounds
    <2> QED BY <2>1 DEF Rounded
  <1> HIDE DEF q, r
  <1>4. e \in Nat /\ e <= Giga
    BY <1>1, <1>a
  <1>5. r <= Giga
    <2>1. Giga = 32768 * 511 /\ Giga \in Nat
      BY GigaIs
    <2>2. 32768 * q <= 32768 * 511 + 32767
      BY <1>3, <1>4, <2>1
    <2>3. q <= 511
      BY <1>3, <2>2
    <2> QED BY <1>3, <2>1, <2>3
  <1> QED BY <1>a, <1>2, <1>3, <1>5 DEF r

-----------------------------------------------------------------------------
(* Where things are written.                                               *)
Placed(e) == e.lo \in Nat /\ e.hi \in Nat
Low(e) == Placed(e) /\ e.hi <= 16384
High(e) == Placed(e) /\ 16384 <= e.lo

Fits(c, x) == x.lo < x.hi /\ x.hi <= c.mem /\ ~Boot!OverlapsReserved(x)
After(m, W) == {e \in m : \A w \in W : ~Boot!Touch(e, w)} \cup W

LEMMA Renamed ==
  /\ \A x : Boot!ValidRange(x) <=> Fits(config, x)
  /\ \A W : Boot!Wrote(W) = After(memory, W)
  <1>1. ASSUME NEW x PROVE Boot!ValidRange(x) <=> Fits(config, x)
    BY Zenon DEF Boot!ValidRange, Fits
  <1>2. ASSUME NEW W PROVE Boot!Wrote(W) = After(memory, W)
    BY DEF Boot!Wrote, After
  <1> QED BY <1>1, <1>2

(* A write leaves what is beside it, and nothing else appears.             *)
LEMMA Stays ==
  ASSUME NEW m, NEW W, NEW e \in m, Placed(e),
         \A w \in W : Placed(w) /\ (e.hi <= w.lo \/ w.hi <= e.lo)
  PROVE  e \in After(m, W)
  <1>1. ASSUME NEW w \in W
        PROVE  ~Boot!Touch(e, w)
    BY DEF Placed, Boot!Touch
  <1> QED BY <1>1 DEF After

LEMMA StaysHigh ==
  ASSUME NEW m, NEW W, NEW e \in m, High(e), \A w \in W : Low(w)
  PROVE  e \in After(m, W)
  <1>1. ASSUME NEW w \in W
        PROVE  Placed(w) /\ (e.hi <= w.lo \/ w.hi <= e.lo)
    BY DEF High, Low, Placed
  <1> QED BY <1>1, Stays DEF High

LEMMA Written ==
  ASSUME NEW m, NEW W
  PROVE  W \subseteq After(m, W) /\ After(m, W) \subseteq m \cup W
  BY DEF After

LEMMA Layout ==
  /\ Boot!BootParams.lo = 1024 /\ Boot!BootParams.hi = 1088
  /\ Boot!Gdt.lo = 6144 /\ Boot!Gdt.hi = 6145
  /\ \A w : Boot!Cmdline(w).lo = 130 /\ Boot!Cmdline(w).hi = 134
  /\ \A w : Boot!Extent(Boot!PvhStartInfo, 1, w).lo = 128 /\ Boot!Extent(Boot!PvhStartInfo, 1, w).hi = 129
  /\ \A w : Boot!Extent(Boot!StubAddr, 1, w).lo = 512 /\ Boot!Extent(Boot!StubAddr, 1, w).hi = 513
  /\ Boot!BootParamsAddr = 1024 /\ Boot!StackTop = 8192
  BY DEF Boot!BootParams, Boot!Gdt, Boot!Cmdline, Boot!Extent, Boot!BootParamsAddr, Boot!GdtAddr,
     Boot!PvhCmdline, Boot!PvhStartInfo, Boot!StubAddr, Boot!StackTop, Boot!KB

LEMMA TablesEnd ==
  ASSUME NEW n \in Nat, n * 8 <= 16384
  PROVE  Boot!Tables(n).lo = 7168 /\ Boot!Tables(n).hi \in Nat /\ Boot!Tables(n).hi <= 7552
  <1> DEFINE q == (n + 7) \div 8
  <1>1. q \in Nat /\ 8 * q <= n + 7 /\ n <= 2048 /\ (q * 8) \div 8 = q
    OBVIOUS
  <1>2. q <= 256
    BY <1>1
  <1>3. Boot!RoundUp(n, 8) \div 8 = q
    BY <1>1 DEF Boot!RoundUp
  <1> HIDE DEF q
  <1>4. PICK r \in Nat : r = 128 + q /\ r <= 384
    BY <1>1, <1>2
  <1>5. Boot!Max({256, r}) = IF r <= 256 THEN 256 ELSE r
    BY Extremes
  <1>6. Boot!Tables(n) = Boot!Extent(7168, Boot!Max({256, r}), <<"tables", n>>)
    BY <1>3, <1>4 DEF Boot!Tables, Boot!Pml4Addr, Boot!KB
  <1>7. PICK s \in Nat : s = Boot!Max({256, r}) /\ s <= 384
    BY <1>4, <1>5
  <1> QED BY <1>6, <1>7 DEF Boot!Extent

LEMMA RomEnd ==
  ASSUME Configured, Boot!RomFound(config)
  PROVE  LET rom == Boot!Extent(Boot!RomAddr, Boot!RomCopied(config), "rom")
         IN rom.lo = 12288 /\ rom.hi \in Nat /\ rom.hi <= 16384
  <1>1. config.rom \in Rom \ {None}
    BY DEF Configured, Boot!RomFound
  <1>2. Boot!SizesAssumption
    BY Assumptions DEF Boot!ConfigAssumption
  <1>3. (Initrd \cup Rom) \ {None} \subseteq Nat
    BY <1>2 DEF Boot!SizesAssumption
  <1>4. config.rom \in Nat
    BY <1>1, <1>3
  <1>5. PICK r \in Nat : r = config.rom
    BY <1>4
  <1>6. Boot!RomCopied(config) = Boot!Min({r, 4096})
    BY <1>5 DEF Boot!RomCopied, Boot!LoadAddr, Boot!RomAddr, Boot!MB, Boot!KB
  <1>7. Boot!Min({r, 4096}) = IF r <= 4096 THEN r ELSE 4096
    BY Extremes
  <1>8. PICK s \in Nat : s = Boot!RomCopied(config) /\ s <= 4096
    BY <1>6, <1>7
  <1> QED BY <1>8 DEF Boot!Extent, Boot!RomAddr, Boot!KB

-----------------------------------------------------------------------------
(* A kernel and an initrd that were accepted.                              *)
Accepted(c) == \A i \in DOMAIN c.kernel : Fits(c, Boot!Claim(c.kernel[i]))
SegmentsOf(c) == {Boot!Segment(c.kernel[i], i) : i \in DOMAIN c.kernel}

LEMMA SegmentsHigh ==
  ASSUME Configured, Accepted(config)
  PROVE  /\ \A i \in DOMAIN config.kernel : 16384 <= config.kernel[i].lo
         /\ \A e \in SegmentsOf(config) : High(e)
  <1> DEFINE k == config.kernel
  <1>1. k \in Kernel
    BY DEF Configured
  <1>2. ASSUME NEW i \in DOMAIN k
        PROVE  16384 <= k[i].lo /\ High(Boot!Segment(k[i], i))
    <2> DEFINE Above == 16384 <= k[i].lo
               Over == Boot!OverlapsReserved(Boot!Claim(k[i]))
    <2>1. k[i].lo \in Nat /\ k[i].file \in Nat
      BY <1>1, KernelsAssumed
    <2>2. Above \/ Over
      BY <1>1, KernelsAssumed
    <2>3. ~Over
      BY DEF Accepted, Fits
    <2> HIDE DEF Above, Over
    <2>a. Above
      BY <2>2, <2>3
    <2> USE DEF Above
    <2>4. /\ Boot!Segment(k[i], i).lo = k[i].lo
          /\ Boot!Segment(k[i], i).hi = k[i].lo + k[i].file
      BY DEF Boot!Segment, Boot!Extent
    <2> QED BY <2>1, <2>a, <2>4 DEF High, Placed
  <1> QED BY <1>2 DEF SegmentsOf

LEMMA InitrdHigh ==
  ASSUME Configured, Accepted(config), 1 \in DOMAIN config.kernel, config.initrd # None
  PROVE  /\ High(Boot!InitrdAt(config)) /\ Boot!InitrdAt(config).lo <= Giga
         /\ Boot!InitrdAt(config).lo = Boot!InitrdStart(config.kernel)
         /\ Boot!InitrdAt(config).hi = Boot!InitrdStart(config.kernel) + config.initrd
         /\ config.initrd \in Nat
         /\ \A i \in DOMAIN config.kernel :
              /\ config.kernel[i].lo + config.kernel[i].mem <= Boot!InitrdAt(config).lo
              /\ config.kernel[i].lo + config.kernel[i].file <= Boot!InitrdAt(config).lo
  <1> DEFINE k == config.kernel
  <1>1. k \in Kernel /\ config.initrd \in Initrd \ {None}
    BY DEF Configured
  <1>2. Boot!SizesAssumption
    BY Assumptions DEF Boot!ConfigAssumption
  <1>3. (Initrd \cup Rom) \ {None} \subseteq Nat
    BY <1>2 DEF Boot!SizesAssumption
  <1>4. config.initrd \in Nat
    BY <1>1, <1>3
  <1>5. PICK s \in Nat : s = Boot!InitrdStart(k) /\ s <= Giga /\ Boot!KernelEnd(k) <= s
    BY <1>1, InitrdStarts
  <1>6. Boot!InitrdAt(config).lo = s /\ Boot!InitrdAt(config).hi = s + config.initrd
    BY <1>5 DEF Boot!InitrdAt, Boot!Extent
  <1>7. Boot!KernelEnd(k) \in Nat
    BY <1>1, KernelEnds
  <1>8. ASSUME NEW i \in DOMAIN k
        PROVE  k[i].lo + k[i].mem <= s /\ k[i].lo + k[i].file <= s /\ 16384 <= s
    <2>1. /\ k[i].lo \in Nat /\ k[i].file \in Nat /\ k[i].mem \in Nat /\ k[i].file <= k[i].mem
      BY <1>1, KernelsAssumed
    <2>2. k[i].lo + k[i].mem <= Boot!KernelEnd(k)
      BY <1>1, KernelEnds
    <2>3. 16384 <= k[i].lo
      BY SegmentsHigh
    <2> QED BY <1>5, <1>7, <2>1, <2>2, <2>3
  <1>9. High(Boot!InitrdAt(config))
    BY <1>4, <1>6, <1>8 DEF High, Placed
  <1> QED BY <1>4, <1>5, <1>6, <1>8, <1>9

-----------------------------------------------------------------------------
(* What is in memory, stage by stage.                                      *)
Prepared == {"booted", "post", "long", "entered"}
WithSlots == {"vcpu", "tables"} \cup Prepared
WithCmdline == {"slots"} \cup WithSlots
WithParams == {"pvh"} \cup WithCmdline
WithInitrd == {"params"} \cup WithParams
Loaded == {"initrd"} \cup WithInitrd
Parsed == {"segments"} \cup Loaded
Checked == {"elf"} \cup Parsed

CmdlineOf(c) == Boot!Cmdline(IF c.pvh THEN "cmdline" ELSE "fallback")
TablesOf(c) == Boot!Tables(Boot!PageEntries(c))

TypedInv ==
  /\ Configured
  /\ stage \in Checked \cup {"validate", "failed"}
  /\ \A e \in memory : Placed(e)
  /\ cpu \in [mode : {"none", "reset", "real", "long"}, rip : Nat, rsi : Nat, rsp : Nat]
  /\ late \in BOOLEAN /\ beat \in {0, 1}
  /\ stage \in Checked => config.mem >= 16384
  /\ stage \in Parsed => 1 \in DOMAIN config.kernel

LoadedInv ==
  /\ stage \in Loaded => Accepted(config) /\ SegmentsOf(config) \subseteq memory
  /\ stage \in WithInitrd /\ config.initrd # None =>
       Fits(config, Boot!InitrdAt(config)) /\ Boot!InitrdAt(config) \in memory

InitrdInv ==
  /\ stage \in WithInitrd =>
       initrd = IF config.initrd = None THEN None ELSE Boot!InitrdAt(config).lo
  /\ stage \in {"validate", "elf", "segments", "initrd"} => initrd = None

ParamsInv ==
  /\ stage \in WithParams => Boot!BootParams \in memory /\ e820 = Boot!LowMap \cup Boot!MainMap
  /\ stage = "pvh" => Boot!Cmdline("fallback") \in memory
  /\ stage \in WithCmdline => CmdlineOf(config) \in memory
  /\ stage \in WithSlots => slots = Boot!RamSlots

TablesInv ==
  /\ stage \in Prepared => /\ Boot!PageEntries(config) * 8 <= 16384
                           /\ {TablesOf(config), Boot!Gdt} \subseteq memory
  /\ stage \in {"booted", "entered"} => cpu = Boot!LongMode

BootInv == TypedInv /\ LoadedInv /\ InitrdInv /\ ParamsInv /\ TablesInv

LEMMA BootInit == Boot!Init => BootInv
  <1> SUFFICES ASSUME Boot!Init PROVE BootInv
    OBVIOUS
  <1> USE DEF Prepared, WithSlots, WithCmdline, WithParams, WithInitrd, Loaded,
       Parsed, Checked
  <1>1. Configured
    BY DEF Boot!Init, Configured
  <1>2. /\ stage = "validate" /\ memory = {} /\ initrd = None /\ late = FALSE /\ beat = 0
        /\ cpu = [mode |-> "none", rip |-> 0, rsi |-> 0, rsp |-> 0]
    BY DEF Boot!Init
  <1>3. /\ stage \notin Checked /\ stage \notin Parsed
        /\ cpu \in [mode : {"none", "reset", "real", "long"}, rip : Nat, rsi : Nat, rsp : Nat]
        /\ late \in BOOLEAN /\ beat \in {0, 1} /\ \A e \in memory : Placed(e)
    BY <1>2
  <1>4. TypedInv
    BY <1>1, <1>2, <1>3 DEF TypedInv
  <1> QED BY <1>2, <1>4 DEF BootInv, LoadedInv, InitrdInv, ParamsInv, TablesInv

LEMMA BootFails ==
  ASSUME BootInv, UNCHANGED <<config, memory, slots, e820, initrd>>, stage' = "failed",
         cpu' \in [mode : {"none", "reset", "real", "long"}, rip : Nat, rsi : Nat, rsp : Nat],
         late' \in BOOLEAN, beat' \in {0, 1}
  PROVE  BootInv'
  <1> USE DEF Prepared, WithSlots, WithCmdline, WithParams, WithInitrd, Loaded,
       Parsed, Checked
  <1>1. Configured'
    BY DEF BootInv, TypedInv, Configured
  <1>2. TypedInv'
    BY <1>1 DEF BootInv, TypedInv
  <1> QED BY <1>2 DEF BootInv, LoadedInv, InitrdInv, ParamsInv, TablesInv

(* What depends on the configuration alone.                                *)
LEMMA Rigid ==
  ASSUME config' = config
  PROVE  /\ Configured' = Configured /\ Accepted(config)' = Accepted(config)
         /\ SegmentsOf(config)' = SegmentsOf(config)
         /\ Boot!InitrdAt(config)' = Boot!InitrdAt(config)
         /\ CmdlineOf(config)' = CmdlineOf(config) /\ TablesOf(config)' = TablesOf(config)
         /\ Boot!PageEntries(config)' = Boot!PageEntries(config)
         /\ Fits(config, Boot!InitrdAt(config))' = Fits(config, Boot!InitrdAt(config))
         /\ Boot!LongMode' = Boot!LongMode
  BY DEF Configured, Accepted, SegmentsOf, Boot!InitrdAt, CmdlineOf, TablesOf, Boot!PageEntries, Boot!LongMode

LEMMA RigidMap ==
  ASSUME config' = config
  PROVE  Boot!MainMap' = Boot!MainMap /\ Boot!RamSlots' = Boot!RamSlots
  <1>1. Boot!Holes' = Boot!Holes
    BY DEF Boot!Holes
  <1> QED BY <1>1 DEF Boot!MainMap, Boot!RamSlots

CpuType == [mode : {"none", "reset", "real", "long"}, rip : Nat, rsi : Nat, rsp : Nat]
Early == {"validate", "elf", "segments", "initrd"}

LEMMA Stage ==
  ASSUME NEW s
  PROVE  /\ s \in Prepared <=> s \in {"booted", "post", "long", "entered"}
         /\ s \in WithSlots <=> s \in {"vcpu", "tables"} \/ s \in Prepared
         /\ s \in WithCmdline <=> s = "slots" \/ s \in WithSlots
         /\ s \in WithParams <=> s = "pvh" \/ s \in WithCmdline
         /\ s \in WithInitrd <=> s = "params" \/ s \in WithParams
         /\ s \in Loaded <=> s = "initrd" \/ s \in WithInitrd
         /\ s \in Parsed <=> s = "segments" \/ s \in Loaded
         /\ s \in Checked <=> s = "elf" \/ s \in Parsed
         /\ s \in Early <=> s = "validate" \/ s = "elf" \/ s = "segments" \/ s = "initrd"
  BY DEF Prepared, WithSlots, WithCmdline, WithParams, WithInitrd, Loaded, Parsed, Checked, Early

(* A step that writes nothing.                                             *)
LEMMA Onward ==
  ASSUME BootInv, UNCHANGED <<config, memory, e820, initrd>>,
         stage' \in Checked, stage' \in Checked => config.mem >= 16384,
         stage' \in Parsed => 1 \in DOMAIN config.kernel,
         stage' \in Loaded => stage \in Loaded,
         stage' \in WithInitrd => stage \in WithInitrd,
         stage' \in WithParams => stage \in WithParams,
         stage' \in WithCmdline => stage \in WithCmdline,
         stage' \in Prepared => stage \in Prepared,
         stage' # "pvh", stage' \in Early => stage \in Early,
         stage' \in WithSlots => slots' = Boot!RamSlots,
         stage' \in {"booted", "entered"} => cpu' = Boot!LongMode,
         cpu' \in CpuType, late' \in BOOLEAN, beat' \in {0, 1}
  PROVE  BootInv'
  <1>1. TypedInv'
    BY Rigid DEF BootInv, TypedInv, CpuType
  <1>2. LoadedInv'
    BY Rigid DEF BootInv, LoadedInv
  <1>3. InitrdInv'
    BY Rigid DEF BootInv, InitrdInv, Early
  <1>4. ParamsInv'
    BY Rigid, RigidMap DEF BootInv, ParamsInv, Boot!BootParams, Boot!LowMap, Boot!Cmdline
  <1>5. TablesInv'
    BY Rigid DEF BootInv, TablesInv, Boot!Gdt
  <1> QED BY <1>1, <1>2, <1>3, <1>4, <1>5 DEF BootInv

LEMMA BootControls ==
  BootInv /\ (Boot!Validate \/ Boot!ParseKernelElf \/ Boot!SetMemoryRegions \/ Boot!CreateVcpu
             \/ Boot!NoRom \/ Boot!PostExit \/ Boot!TimePasses \/ Boot!CallFails \/ Boot!Done)
    => BootInv'
  <1> SUFFICES ASSUME BootInv PROVE (Boot!Validate \/ Boot!ParseKernelElf \/ Boot!SetMemoryRegions
        \/ Boot!CreateVcpu \/ Boot!NoRom \/ Boot!PostExit \/ Boot!TimePasses \/ Boot!CallFails
        \/ Boot!Done) => BootInv'
    OBVIOUS
  <1>0. /\ Configured /\ cpu \in CpuType /\ late \in BOOLEAN /\ beat \in {0, 1}
        /\ stage \in Checked => config.mem >= 16384
        /\ stage \in Parsed => 1 \in DOMAIN config.kernel
        /\ stage \in WithSlots => slots = Boot!RamSlots
        /\ stage \in {"booted", "entered"} => cpu = Boot!LongMode
        /\ stage \in Checked \cup {"validate", "failed"}
    BY DEF BootInv, TypedInv, ParamsInv, TablesInv, CpuType
  <1>1. ASSUME Boot!Validate
        PROVE  BootInv'
    <2>1. CASE Boot!Valid
      <3>1. stage = "validate" /\ stage' = "elf" /\ config.mem >= 16384
            /\ UNCHANGED <<config, memory, slots, e820, initrd, cpu, late, beat>>
        BY <1>1, <2>1 DEF Boot!Validate, Boot!Valid, Boot!Goto, Boot!MB
      <3>2. /\ stage' \in Checked /\ stage' \notin Parsed /\ stage' \notin Loaded /\ stage' \notin WithInitrd
            /\ stage' \notin WithParams /\ stage' \notin WithCmdline /\ stage' \notin WithSlots
            /\ stage' \notin Prepared /\ stage \in Early
        BY <3>1, Stage
      <3> QED BY <1>0, <3>1, <3>2, Onward
    <2>2. CASE ~Boot!Valid
      BY <1>0, <1>1, <2>2, BootFails DEF Boot!Validate, Boot!Goto, CpuType
    <2> QED BY <2>1, <2>2
  <1>2. ASSUME Boot!ParseKernelElf
        PROVE  BootInv'
    <2>1. CASE config.kernel # <<>>
      <3>1. stage = "elf" /\ stage' = "segments"
            /\ UNCHANGED <<config, memory, slots, e820, initrd, cpu, late, beat>>
        BY <1>2, <2>1 DEF Boot!ParseKernelElf, Boot!Goto
      <3>2. /\ stage' \in Checked /\ stage' \notin Loaded /\ stage' \notin WithInitrd
            /\ stage' \notin WithParams /\ stage' \notin WithCmdline /\ stage' \notin WithSlots
            /\ stage' \notin Prepared /\ stage \in Early /\ stage \in Checked
        BY <3>1, Stage
      <3>3. 1 \in DOMAIN config.kernel
        <4>1. config.kernel \in Seq(Segs)
          BY <1>0, KernelsAssumed DEF Configured
        <4> QED BY <2>1, <4>1
      <3> QED BY <1>0, <3>1, <3>2, <3>3, Onward
    <2>2. CASE config.kernel = <<>>
      BY <1>0, <1>2, <2>2, BootFails DEF Boot!ParseKernelElf, Boot!Goto, CpuType
    <2> QED BY <2>1, <2>2
  <1>3. ASSUME Boot!SetMemoryRegions
        PROVE  BootInv'
    <2>1. stage = "slots" /\ stage' = "vcpu" /\ slots' = Boot!RamSlots
          /\ UNCHANGED <<config, memory, e820, initrd, cpu, late, beat>>
      BY <1>3 DEF Boot!SetMemoryRegions, Boot!Goto
    <2>2. /\ stage' \in Checked /\ stage \in Checked /\ stage \in Parsed /\ stage \in Loaded
          /\ stage \in WithInitrd /\ stage \in WithParams /\ stage \in WithCmdline
          /\ stage' \notin Prepared /\ stage' \notin Early
      BY <2>1, Stage
    <2> QED BY <1>0, <2>1, <2>2, Onward
  <1>4. ASSUME Boot!CreateVcpu
        PROVE  BootInv'
    <2>1. stage = "vcpu" /\ stage' = "tables" /\ cpu' = [cpu EXCEPT !.mode = "reset"]
          /\ UNCHANGED <<config, memory, slots, e820, initrd, late, beat>>
      BY <1>4 DEF Boot!CreateVcpu, Boot!Goto
    <2>2. /\ stage' \in Checked /\ stage \in Checked /\ stage \in Parsed /\ stage \in Loaded
          /\ stage \in WithInitrd /\ stage \in WithParams /\ stage \in WithCmdline
          /\ stage \in WithSlots /\ stage' \notin Prepared /\ stage' \notin Early
      BY <2>1, Stage
    <2>3. cpu' \in CpuType
      BY <1>0, <2>1 DEF CpuType
    <2> QED BY <1>0, <2>1, <2>2, <2>3, Onward
  <1>5. ASSUME Boot!NoRom
        PROVE  BootInv'
    <2>1. stage = "booted" /\ stage' = "entered"
          /\ UNCHANGED <<config, memory, slots, e820, initrd, cpu, late, beat>>
      BY <1>5 DEF Boot!NoRom, Boot!Goto
    <2>2. /\ stage' \in Checked /\ stage \in Checked /\ stage \in Parsed /\ stage \in Loaded
          /\ stage \in WithInitrd /\ stage \in WithParams /\ stage \in WithCmdline
          /\ stage \in WithSlots /\ stage \in Prepared /\ stage' \notin Early
      BY <2>1, Stage
    <2> QED BY <1>0, <2>1, <2>2, Onward
  <1>6. ASSUME Boot!PostExit
        PROVE  BootInv'
    <2>1. stage = "post" /\ stage' \in {"long", "post", "failed"}
          /\ UNCHANGED <<config, memory, slots, e820, initrd, cpu, late>>
      BY <1>6 DEF Boot!PostExit
    <2>2. beat' \in {0, 1}
      BY <1>0, <1>6 DEF Boot!PostExit
    <2>3. CASE stage' = "failed"
      BY <1>0, <2>1, <2>2, <2>3, BootFails DEF CpuType
    <2>4. CASE stage' \in {"long", "post"}
      <3>1. /\ stage' \in Checked /\ stage \in Checked /\ stage \in Parsed /\ stage \in Loaded
            /\ stage \in WithInitrd /\ stage \in WithParams /\ stage \in WithCmdline
            /\ stage \in WithSlots /\ stage \in Prepared /\ stage' \notin Early
            /\ stage' \notin {"booted", "entered"} /\ stage' # "pvh"
        BY <2>1, <2>4, Stage
      <3> QED BY <1>0, <2>1, <2>2, <3>1, Onward
    <2> QED BY <2>1, <2>3, <2>4
  <1>7. ASSUME Boot!TimePasses
        PROVE  BootInv'
    <2>1. stage = "post" /\ stage' = "post" /\ late' = TRUE
          /\ UNCHANGED <<config, memory, slots, e820, initrd, cpu, beat>>
      BY <1>7 DEF Boot!TimePasses
    <2>2. /\ stage' \in Checked /\ stage \in Checked /\ stage \in Parsed /\ stage \in Loaded
          /\ stage \in WithInitrd /\ stage \in WithParams /\ stage \in WithCmdline
          /\ stage \in WithSlots /\ stage \in Prepared /\ stage' \notin Early
      BY <2>1, Stage
    <2> QED BY <1>0, <2>1, <2>2, Onward
  <1>8. ASSUME Boot!CallFails
        PROVE  BootInv'
    BY <1>0, <1>8, BootFails DEF Boot!CallFails, Boot!Fail, Boot!Goto, CpuType
  <1>9. ASSUME Boot!Done
        PROVE  BootInv'
    <2>1. stage \in {"entered", "failed"} /\ stage' = stage
          /\ UNCHANGED <<config, memory, slots, e820, initrd, cpu, late, beat>>
      BY <1>9 DEF Boot!Done, Boot!vars
    <2>2. CASE stage = "failed"
      BY <1>0, <2>1, <2>2, BootFails DEF CpuType
    <2>3. CASE stage = "entered"
      <3>1. /\ stage' \in Checked /\ stage \in Checked /\ stage \in Parsed /\ stage \in Loaded
            /\ stage \in WithInitrd /\ stage \in WithParams /\ stage \in WithCmdline
            /\ stage \in WithSlots /\ stage \in Prepared /\ stage' \notin Early
        BY <2>1, <2>3, Stage
      <3> QED BY <1>0, <2>1, <2>3, <3>1, Onward
    <2> QED BY <2>1, <2>2, <2>3
  <1> QED BY <1>1, <1>2, <1>3, <1>4, <1>5, <1>6, <1>7, <1>8, <1>9

-----------------------------------------------------------------------------
(* Steps that write.                                                       *)
LEMMA BootSegments == BootInv /\ Boot!LoadElfSegments => BootInv'
  <1> SUFFICES ASSUME BootInv, Boot!LoadElfSegments PROVE BootInv'
    OBVIOUS
  <1> DEFINE k == config.kernel
             ok == \A i \in DOMAIN k : Boot!ValidRange(Boot!Claim(k[i])) /\ k[i].whole
  <1>0. /\ Configured /\ cpu \in CpuType /\ late \in BOOLEAN /\ beat \in {0, 1}
        /\ \A e \in memory : Placed(e)
        /\ stage = "segments" /\ UNCHANGED <<config, slots, e820, initrd, cpu, late, beat>>
    BY DEF BootInv, TypedInv, CpuType, Boot!LoadElfSegments
  <1>1. stage \in Parsed /\ stage \in Checked /\ stage \in Early
    BY <1>0, Stage
  <1>2. config.mem >= 16384 /\ 1 \in DOMAIN k /\ initrd = None
    BY <1>1 DEF BootInv, TypedInv, InitrdInv, Early
  <1>3. CASE ok
    <2>1. stage' = "initrd" /\ memory' = After(memory, SegmentsOf(config))
      BY <1>3, Renamed DEF Boot!LoadElfSegments, Boot!Goto, SegmentsOf
    <2>2. Accepted(config)
      BY <1>3, Renamed DEF Accepted
    <2>3. SegmentsOf(config) \subseteq memory' /\ memory' \subseteq memory \cup SegmentsOf(config)
      BY <2>1, Written
    <2>4. \A e \in memory' : Placed(e)
      BY <1>0, <2>2, <2>3, SegmentsHigh DEF High
    <2>5. /\ stage' \in Checked /\ stage' \in Early /\ stage' \in Loaded /\ stage' \notin WithInitrd
          /\ stage' \notin WithParams /\ stage' \notin WithCmdline /\ stage' \notin WithSlots
          /\ stage' \notin Prepared
      BY <2>1, Stage
    <2>6. TypedInv'
      BY <1>0, <1>2, <2>4, <2>5, Rigid DEF TypedInv, CpuType
    <2>7. LoadedInv'
      BY <1>0, <2>2, <2>3, <2>5, Rigid DEF LoadedInv
    <2>8. InitrdInv' /\ ParamsInv' /\ TablesInv'
      BY <1>0, <1>2, <2>1, <2>5 DEF InitrdInv, ParamsInv, TablesInv
    <2> QED BY <2>6, <2>7, <2>8 DEF BootInv
  <1>4. CASE ~ok
    <2>1. stage' = "failed" /\ UNCHANGED memory
      BY <1>4 DEF Boot!LoadElfSegments, Boot!Goto
    <2> QED BY <1>0, <2>1, BootFails DEF CpuType
  <1> QED BY <1>3, <1>4

LEMMA BootInitrd == BootInv /\ Boot!LoadInitrd => BootInv'
  <1> SUFFICES ASSUME BootInv, Boot!LoadInitrd PROVE BootInv'
    OBVIOUS
  <1> DEFINE k == config.kernel
             x == Boot!InitrdAt(config)
  <1>0. /\ Configured /\ cpu \in CpuType /\ late \in BOOLEAN /\ beat \in {0, 1}
        /\ \A e \in memory : Placed(e)
        /\ stage = "initrd" /\ UNCHANGED <<config, slots, e820, cpu, late, beat>>
    BY DEF BootInv, TypedInv, CpuType, Boot!LoadInitrd
  <1>1. stage \in Parsed /\ stage \in Checked /\ stage \in Early /\ stage \in Loaded
    BY <1>0, Stage
  <1>2. /\ config.mem >= 16384 /\ 1 \in DOMAIN k /\ initrd = None
        /\ Accepted(config) /\ SegmentsOf(config) \subseteq memory
    BY <1>1 DEF BootInv, TypedInv, InitrdInv, LoadedInv, Early
  <1>3. ASSUME stage' = "params", SegmentsOf(config) \subseteq memory', \A e \in memory' : Placed(e),
               config.initrd # None => Fits(config, x) /\ x \in memory',
               initrd' = IF config.initrd = None THEN None ELSE x.lo
        PROVE  BootInv'
    <2>1. /\ stage' \in Checked /\ stage' \notin Early /\ stage' \in Loaded /\ stage' \in WithInitrd
          /\ stage' \notin WithParams /\ stage' \notin WithCmdline /\ stage' \notin WithSlots
          /\ stage' \notin Prepared
      BY <1>3, Stage
    <2>2. TypedInv'
      BY <1>0, <1>2, <1>3, <2>1, Rigid DEF TypedInv, CpuType
    <2>3. LoadedInv'
      BY <1>0, <1>2, <1>3, Rigid DEF LoadedInv
    <2>4. InitrdInv'
      BY <1>0, <1>3, Rigid DEF InitrdInv
    <2>5. ParamsInv' /\ TablesInv'
      BY <1>3, <2>1 DEF ParamsInv, TablesInv
    <2> QED BY <2>2, <2>3, <2>4, <2>5 DEF BootInv
  <1>4. CASE config.initrd = None
    <2>1. stage' = "params" /\ UNCHANGED <<memory, initrd>>
      BY <1>4 DEF Boot!LoadInitrd, Boot!Goto
    <2> QED BY <1>0, <1>2, <1>3, <1>4, <2>1
  <1>5. CASE config.initrd # None /\ Fits(config, x)
    <2>0. Boot!ValidRange(x)
      BY <1>5, Renamed
    <2>1. stage' = "params" /\ memory' = After(memory, {x}) /\ initrd' = x.lo
      BY <1>5, <2>0, Renamed DEF Boot!LoadInitrd, Boot!Goto
    <2>2. High(x) /\ \A i \in DOMAIN k : k[i].lo + k[i].file <= x.lo
      BY <1>0, <1>2, <1>5, InitrdHigh
    <2>3. x \in memory' /\ memory' \subseteq memory \cup {x}
      BY <2>1, Written
    <2>4. ASSUME NEW e \in SegmentsOf(config)
          PROVE  e \in memory'
      <3>1. PICK i \in DOMAIN k : e = Boot!Segment(k[i], i)
        BY DEF SegmentsOf
      <3>2. e.hi = k[i].lo + k[i].file
        BY <3>1 DEF Boot!Segment, Boot!Extent
      <3>3. e.hi <= x.lo
        BY <2>2, <3>2
      <3>4. Placed(e) /\ e \in memory /\ Placed(x)
        BY <1>0, <1>2, <2>2 DEF High
      <3> HIDE DEF x
      <3>5. \A w \in {x} : Placed(w) /\ (e.hi <= w.lo \/ w.hi <= e.lo)
        BY <3>3, <3>4
      <3>6. e \in After(memory, {x})
        BY <3>4, <3>5, Stays
      <3> QED BY <2>1, <3>6
    <2>5. \A e \in memory' : Placed(e)
      BY <1>0, <2>2, <2>3 DEF High
    <2> QED BY <1>3, <1>5, <2>1, <2>3, <2>4, <2>5
  <1>6. CASE config.initrd # None /\ ~Fits(config, x)
    <2>0. ~Boot!ValidRange(x)
      BY <1>6, Renamed
    <2>1. stage' = "failed" /\ UNCHANGED <<memory, initrd>>
      BY <1>6, <2>0 DEF Boot!LoadInitrd, Boot!Goto
    <2> QED BY <1>0, <2>1, BootFails DEF CpuType
  <1> QED BY <1>4, <1>5, <1>6

(* Later writes are below 1 MB: kernel and initrd stay.                    *)
LEMMA HighKept ==
  ASSUME BootInv, config' = config, NEW W, memory' = After(memory, W), \A w \in W : Low(w),
         stage \in WithInitrd
  PROVE  LoadedInv' /\ \A e \in memory' : Placed(e)
  <1>1. stage \in Loaded /\ stage \in Parsed
    BY Stage
  <1>2. /\ Configured /\ \A e \in memory : Placed(e)
        /\ 1 \in DOMAIN config.kernel
        /\ Accepted(config) /\ SegmentsOf(config) \subseteq memory
        /\ config.initrd # None =>
             Fits(config, Boot!InitrdAt(config)) /\ Boot!InitrdAt(config) \in memory
    BY <1>1 DEF BootInv, TypedInv, LoadedInv
  <1>3. SegmentsOf(config) \subseteq memory'
    BY <1>2, SegmentsHigh, StaysHigh
  <1>4. config.initrd # None => Boot!InitrdAt(config) \in memory'
    <2>1. ASSUME config.initrd # None
          PROVE  Boot!InitrdAt(config) \in memory'
      <3>1. High(Boot!InitrdAt(config)) /\ Boot!InitrdAt(config) \in memory
        BY <1>2, <2>1, InitrdHigh
      <3> QED BY <3>1, StaysHigh
    <2> QED BY <2>1
  <1>5. \A e \in memory' : Placed(e)
    BY <1>2, Written DEF Low
  <1> QED BY <1>2, <1>3, <1>4, <1>5, Rigid DEF LoadedInv

LEMMA LowExtents ==
  /\ Low(Boot!BootParams) /\ Low(Boot!Gdt)
  /\ \A w : Low(Boot!Cmdline(w)) /\ Low(Boot!Extent(Boot!PvhStartInfo, 1, w))
            /\ Low(Boot!Extent(Boot!StubAddr, 1, w))
  <1>1. \A e : e.lo \in Nat /\ e.hi \in Nat /\ e.hi <= 16384 => Low(e)
    BY DEF Low, Placed
  <1> QED BY <1>1, Layout

LEMMA BootSetsUp == BootInv /\ Boot!SetupBootParams => BootInv'
  <1> SUFFICES ASSUME BootInv, Boot!SetupBootParams PROVE BootInv'
    OBVIOUS
  <1> DEFINE W == {Boot!BootParams, Boot!Cmdline("fallback")}
  <1>1. /\ stage = "params" /\ stage' = "pvh" /\ memory' = After(memory, W)
        /\ e820' = Boot!LowMap \cup Boot!MainMap
        /\ UNCHANGED <<config, slots, initrd, cpu, late, beat>>
    BY Renamed DEF Boot!SetupBootParams, Boot!Goto
  <1>2. /\ stage \in WithInitrd /\ stage \in Parsed /\ stage \in Checked
        /\ stage' \in Checked /\ stage' \notin Early /\ stage' \in WithInitrd
        /\ stage' \in WithParams /\ stage' \notin WithCmdline /\ stage' \notin WithSlots
        /\ stage' \notin Prepared
    BY <1>1, Stage
  <1>3. \A w \in W : Low(w)
    BY LowExtents
  <1> HIDE DEF W
  <1>4. LoadedInv' /\ \A e \in memory' : Placed(e)
    BY <1>1, <1>2, <1>3, HighKept
  <1>5. W \subseteq memory'
    BY <1>1, Written
  <1>6. TypedInv'
    BY <1>1, <1>2, <1>4, Rigid DEF BootInv, TypedInv
  <1>7. InitrdInv'
    BY <1>1, <1>2, Rigid DEF BootInv, InitrdInv
  <1>8. ParamsInv'
    BY <1>1, <1>2, <1>5, RigidMap DEF ParamsInv, W, Boot!LowMap, Boot!BootParams, Boot!Cmdline
  <1>9. TablesInv'
    BY <1>1, <1>2 DEF TablesInv
  <1> QED BY <1>4, <1>6, <1>7, <1>8, <1>9 DEF BootInv

LEMMA BootPvh == BootInv /\ Boot!WritePvh => BootInv'
  <1> SUFFICES ASSUME BootInv, Boot!WritePvh PROVE BootInv'
    OBVIOUS
  <1> DEFINE info == Boot!Extent(Boot!PvhStartInfo, 1, "start_info")
             W == IF config.pvh THEN {info, Boot!Cmdline("cmdline")} ELSE {}
  <1>1. /\ stage = "pvh" /\ stage' = "slots" /\ memory' = After(memory, W)
        /\ UNCHANGED <<config, slots, e820, initrd, cpu, late, beat>>
    <2>1. After(memory, {}) = memory
      BY DEF After
    <2>2. stage = "pvh" /\ stage' = "slots" /\ UNCHANGED <<config, slots, e820, initrd, cpu, late, beat>>
      BY DEF Boot!WritePvh, Boot!Goto
    <2>3. memory' = IF config.pvh THEN After(memory, {info, Boot!Cmdline("cmdline")}) ELSE memory
      BY Renamed DEF Boot!WritePvh
    <2> QED BY <2>1, <2>2, <2>3
  <1>2. /\ stage \in WithInitrd /\ stage \in Parsed /\ stage \in Checked /\ stage \in WithParams
        /\ stage' \in Checked /\ stage' \notin Early /\ stage' \in WithInitrd
        /\ stage' \in WithParams /\ stage' \in WithCmdline /\ stage' \notin WithSlots
        /\ stage' \notin Prepared
    BY <1>1, Stage
  <1>3. \A w \in W : Low(w) /\ w.hi <= 1024
    <2>1. \A w \in W : w \in {info, Boot!Cmdline("cmdline")}
      OBVIOUS
    <2>2. Low(info) /\ info.hi = 129 /\ Low(Boot!Cmdline("cmdline")) /\ Boot!Cmdline("cmdline").hi = 134
      BY LowExtents, Layout
    <2> HIDE DEF W, info
    <2> QED BY <2>1, <2>2
  <1>4. config.pvh => Boot!Cmdline("cmdline") \in W
    OBVIOUS
  <1>5. ~config.pvh => W = {}
    OBVIOUS
  <1> HIDE DEF W
  <1>6. LoadedInv' /\ \A e \in memory' : Placed(e)
    BY <1>1, <1>2, <1>3, HighKept
  <1>7. W \subseteq memory'
    BY <1>1, Written
  <1>8. Boot!BootParams \in memory'
    <2>1. Boot!BootParams \in memory
      BY <1>2 DEF BootInv, ParamsInv
    <2>2. \A w \in W : Placed(w) /\ (Boot!BootParams.hi <= w.lo \/ w.hi <= Boot!BootParams.lo)
      BY <1>3, Layout DEF Low
    <2>3. Placed(Boot!BootParams)
      BY LowExtents DEF Low
    <2> QED BY <1>1, <2>1, <2>2, <2>3, Stays
  <1>9. CmdlineOf(config) \in memory'
    <2>1. CASE config.pvh
      BY <1>4, <1>7, <2>1 DEF CmdlineOf
    <2>2. CASE ~config.pvh
      <3>1. Boot!Cmdline("fallback") \in memory
        BY <1>1 DEF BootInv, ParamsInv
      <3>2. memory' = memory
        BY <1>1, <1>5, <2>2 DEF After
      <3> QED BY <2>2, <3>1, <3>2 DEF CmdlineOf
    <2> QED BY <2>1, <2>2
  <1>10. TypedInv'
    BY <1>1, <1>2, <1>6, Rigid DEF BootInv, TypedInv
  <1>11. InitrdInv'
    BY <1>1, <1>2, Rigid DEF BootInv, InitrdInv
  <1>12. e820 = Boot!LowMap \cup Boot!MainMap
    BY <1>2 DEF BootInv, ParamsInv
  <1>13. ParamsInv'
    BY <1>1, <1>2, <1>8, <1>9, <1>12, Rigid, RigidMap DEF ParamsInv, Boot!LowMap, Boot!BootParams
  <1>14. TablesInv'
    BY <1>1, <1>2 DEF TablesInv
  <1> QED BY <1>6, <1>10, <1>11, <1>13, <1>14 DEF BootInv

(* A step after boot_params that writes away from it and the command line. *)
LEMMA ParamsKept ==
  ASSUME BootInv, UNCHANGED <<config, e820, slots, initrd>>, NEW W, memory' = After(memory, W),
         \A w \in W : Low(w) /\ (w.hi <= 130 \/ (134 <= w.lo /\ (w.hi <= 1024 \/ 1088 <= w.lo))),
         stage \in WithSlots, stage' \in WithSlots
  PROVE  LoadedInv' /\ InitrdInv' /\ ParamsInv' /\ \A e \in memory' : Placed(e)
  <1>1. /\ stage \in WithInitrd /\ stage \in WithParams /\ stage \in WithCmdline
        /\ stage' \in WithInitrd /\ stage' \in WithParams /\ stage' \in WithCmdline
        /\ stage' \notin Early /\ stage' # "pvh"
    BY Stage DEF Early, WithSlots, Prepared
  <1>2. LoadedInv' /\ \A e \in memory' : Placed(e)
    BY <1>1, HighKept
  <1>3. /\ Boot!BootParams \in memory /\ CmdlineOf(config) \in memory
        /\ e820 = Boot!LowMap \cup Boot!MainMap /\ slots = Boot!RamSlots
    BY <1>1 DEF BootInv, ParamsInv
  <1>4. \A w \in W : w.lo \in Nat /\ w.hi \in Nat
    BY DEF Low, Placed
  <1>5. Boot!BootParams \in memory'
    <2>1. Boot!BootParams.lo = 1024 /\ Boot!BootParams.hi = 1088
      BY Layout
    <2>2. \A w \in W : Placed(w) /\ (Boot!BootParams.hi <= w.lo \/ w.hi <= Boot!BootParams.lo)
      BY <1>4, <2>1 DEF Placed
    <2>3. Placed(Boot!BootParams)
      BY LowExtents DEF Low
    <2> QED BY <1>3, <2>2, <2>3, Stays
  <1>6. CmdlineOf(config) \in memory'
    <2>1. CmdlineOf(config).lo = 130 /\ CmdlineOf(config).hi = 134 /\ Placed(CmdlineOf(config))
      BY LowExtents, Layout DEF Low, CmdlineOf
    <2>2. \A w \in W : Placed(w) /\ (CmdlineOf(config).hi <= w.lo \/ w.hi <= CmdlineOf(config).lo)
      BY <1>4, <2>1 DEF Placed
    <2> QED BY <1>3, <2>1, <2>2, Stays
  <1>7. InitrdInv'
    BY <1>1, Rigid DEF BootInv, InitrdInv, Early
  <1>8. ParamsInv'
    BY <1>1, <1>3, <1>5, <1>6, Rigid, RigidMap DEF ParamsInv, Boot!LowMap, Boot!BootParams
  <1> QED BY <1>2, <1>7, <1>8

LEMMA PageCount ==
  ASSUME Configured
  PROVE  /\ Boot!PageEntries(config) \in Nat
         /\ config.mem <= 32768 * Boot!PageEntries(config)
  <1>1. PICK m \in Nat : m = config.mem
    BY BarsAssumed
  <1>2. Rounded(m)
    BY Rounds
  <1>3. Boot!PageEntries(config) = Pages(m)
    BY <1>1 DEF Boot!PageEntries, Pages, Up, Boot!MB
  <1> QED BY <1>1, <1>2, <1>3 DEF Rounded

LEMMA LongModeType ==
  ASSUME Configured, 1 \in DOMAIN config.kernel
  PROVE  Boot!LongMode \in CpuType /\ Boot!LongMode.mode = "long"
         /\ Boot!LongMode.rip = config.kernel[1].lo /\ Boot!LongMode.rsi = Boot!BootParamsAddr
         /\ Boot!LongMode.rsp = Boot!StackTop
  <1>1. config.kernel[1].lo \in Nat
    BY KernelsAssumed DEF Configured
  <1> QED BY <1>1, Layout DEF Boot!LongMode, CpuType

LEMMA BootPrepares ==
  ASSUME BootInv, NEW from \in {"tables", "long"}, NEW to \in {"booted", "entered"},
         Boot!Prepare(from, to)
  PROVE  BootInv'
  <1> DEFINE n == Boot!PageEntries(config)
             W == {Boot!Tables(n), Boot!Gdt}
  <1>1. stage = from /\ UNCHANGED <<config, slots, e820, initrd, late, beat>>
    BY DEF Boot!Prepare
  <1>2. /\ stage \in WithSlots /\ stage \in Parsed /\ stage \in Checked
    BY <1>1, Stage
  <1>3. /\ Configured /\ config.mem >= 16384 /\ 1 \in DOMAIN config.kernel
        /\ cpu \in CpuType /\ late \in BOOLEAN /\ beat \in {0, 1}
    BY <1>2 DEF BootInv, TypedInv, CpuType
  <1>4. CASE n * 8 <= 16384
    <2>1. stage' = to /\ memory' = After(memory, W) /\ cpu' = Boot!LongMode
      BY <1>4, Renamed DEF Boot!Prepare, Boot!Goto
    <2>2. /\ stage' \in WithSlots /\ stage' \in Checked /\ stage' \in Prepared
      BY <2>1, Stage
    <2>3. n \in Nat
      BY <1>3, PageCount
    <2>4. Boot!Tables(n).lo = 7168 /\ Boot!Tables(n).hi \in Nat /\ Boot!Tables(n).hi <= 7552
      BY <1>4, <2>3, TablesEnd
    <2>5. Boot!Gdt.lo = 6144 /\ Boot!Gdt.hi = 6145
      BY Layout
    <2>6. W = {TablesOf(config), Boot!Gdt} /\ TablesOf(config) = Boot!Tables(n)
      BY DEF TablesOf
    <2> HIDE DEF n
    <2>7. \A w \in W : Low(w) /\ (w.hi <= 130 \/ (134 <= w.lo /\ (w.hi <= 1024 \/ 1088 <= w.lo)))
      BY <2>4, <2>5 DEF Low, Placed
    <2> HIDE DEF W
    <2>8. LoadedInv' /\ InitrdInv' /\ ParamsInv' /\ \A e \in memory' : Placed(e)
      BY <1>1, <1>2, <2>1, <2>2, <2>7, ParamsKept
    <2>9. TypedInv'
      BY <1>1, <1>3, <2>1, <2>2, <2>8, LongModeType, Rigid DEF TypedInv, CpuType
    <2>10. W \subseteq memory'
      BY <2>1, Written
    <2>11. TablesInv'
      BY <1>1, <1>4, <2>1, <2>6, <2>10, Rigid DEF TablesInv, n, Boot!Gdt
    <2> QED BY <2>8, <2>9, <2>11 DEF BootInv
  <1>5. CASE ~(n * 8 <= 16384)
    <2>1. stage' = "failed" /\ UNCHANGED <<memory, cpu>>
      BY <1>5 DEF Boot!Prepare, Boot!Goto
    <2> QED BY <1>1, <1>3, <2>1, BootFails DEF CpuType
  <1> QED BY <1>4, <1>5

LEMMA BootPosts == BootInv /\ Boot!StartPost => BootInv'
  <1> SUFFICES ASSUME BootInv, Boot!StartPost PROVE BootInv'
    OBVIOUS
  <1> DEFINE rom == Boot!Extent(Boot!RomAddr, Boot!RomCopied(config), "rom")
             stub == Boot!Extent(Boot!StubAddr, 1, "stub")
             ivt == Boot!Extent(0, 16, "ivt")
             bda == Boot!Extent(16, 4, "bda")
             W == {ivt, bda, stub, rom}
  <1>1. /\ stage = "booted" /\ stage' = "post" /\ memory' = After(memory, W)
        /\ Boot!RomFound(config)
        /\ UNCHANGED <<config, slots, e820, initrd, late, beat>>
    BY Renamed DEF Boot!StartPost, Boot!Goto
  <1>2. cpu' \in CpuType
    BY DEF Boot!StartPost, CpuType, Boot!StubAddr, Boot!KB
  <1>3. /\ stage \in WithSlots /\ stage \in Parsed /\ stage \in Checked /\ stage \in Prepared
        /\ stage' \in WithSlots /\ stage' \in Checked /\ stage' \in Prepared
    BY <1>1, Stage
  <1>4. /\ Configured /\ config.mem >= 16384 /\ 1 \in DOMAIN config.kernel
        /\ late \in BOOLEAN /\ beat \in {0, 1}
    BY <1>3 DEF BootInv, TypedInv
  <1>5. rom.lo = 12288 /\ rom.hi \in Nat /\ rom.hi <= 16384
    BY <1>1, <1>4, RomEnd
  <1>6. stub.lo = 512 /\ stub.hi = 513
    BY Layout
  <1>7. ivt.lo = 0 /\ ivt.hi = 16 /\ bda.lo = 16 /\ bda.hi = 20
    BY DEF Boot!Extent
  <1> HIDE DEF rom, stub, ivt, bda
  <1>8. \A w \in W : Low(w) /\ (w.hi <= 130 \/ (134 <= w.lo /\ (w.hi <= 1024 \/ 1088 <= w.lo)))
                     /\ (w.hi <= 6144 \/ 12288 <= w.lo)
    BY <1>5, <1>6, <1>7 DEF Low, Placed
  <1> HIDE DEF W
  <1>9. LoadedInv' /\ InitrdInv' /\ ParamsInv' /\ \A e \in memory' : Placed(e)
    BY <1>1, <1>3, <1>8, ParamsKept
  <1>10. /\ Boot!PageEntries(config) * 8 <= 16384 /\ TablesOf(config) \in memory
         /\ Boot!Gdt \in memory
    BY <1>3 DEF BootInv, TablesInv
  <1>11. TablesOf(config).lo = 7168 /\ TablesOf(config).hi \in Nat /\ TablesOf(config).hi <= 7552
    <2>1. Boot!PageEntries(config) \in Nat
      BY <1>4, PageCount
    <2> QED BY <1>10, <2>1, TablesEnd DEF TablesOf
  <1>12. Boot!Gdt.lo = 6144 /\ Boot!Gdt.hi = 6145
    BY Layout
  <1>13. ASSUME NEW e \in {TablesOf(config), Boot!Gdt}
         PROVE  e \in memory'
    <2>1. e \in memory /\ e.lo \in Nat /\ e.hi \in Nat /\ 6144 <= e.lo /\ e.hi <= 12288
      BY <1>10, <1>11, <1>12
    <2>2. \A w \in W : w.lo \in Nat /\ w.hi \in Nat
      BY <1>8 DEF Low, Placed
    <2>3. Placed(e) /\ \A w \in W : Placed(w) /\ (e.hi <= w.lo \/ w.hi <= e.lo)
      BY <1>8, <2>1, <2>2 DEF Placed
    <2> QED BY <1>1, <2>1, <2>3, Stays
  <1>14. TypedInv'
    BY <1>1, <1>2, <1>3, <1>4, <1>9, Rigid DEF TypedInv, CpuType
  <1>15. TablesInv'
    BY <1>1, <1>10, <1>13, Rigid DEF TablesInv, Boot!Gdt
  <1> QED BY <1>9, <1>14, <1>15 DEF BootInv

LEMMA BootStep == BootInv /\ Boot!Next => BootInv'
  <1> SUFFICES ASSUME BootInv, Boot!Next PROVE BootInv'
    OBVIOUS
  <1>1. CASE Boot!FirstPrepare
    BY <1>1, BootPrepares DEF Boot!FirstPrepare
  <1>2. CASE Boot!ReconfigureLongMode
    BY <1>2, BootPrepares DEF Boot!ReconfigureLongMode
  <1> QED BY <1>1, <1>2, BootControls, BootSegments, BootInitrd, BootSetsUp, BootPvh, BootPosts
       DEF Boot!Next, Boot!Boot

-----------------------------------------------------------------------------
(* What the kernel finds.                                                  *)
LEMMA BootTyped == BootInv => Boot!TypeOK
  <1> SUFFICES ASSUME BootInv PROVE Boot!TypeOK
    OBVIOUS
  <1>1. stage \in Boot!Stages
    BY DEF BootInv, TypedInv, Boot!Stages, Prepared, WithSlots, WithCmdline, WithParams, WithInitrd,
       Loaded, Parsed, Checked
  <1>2. \A e \in memory : e.lo \in Nat /\ e.hi \in Nat
    BY DEF BootInv, TypedInv, Placed
  <1>3. cpu.mode \in {"none", "reset", "real", "long"} /\ late \in BOOLEAN /\ beat \in {0, 1}
    BY DEF BootInv, TypedInv
  <1> QED BY <1>1, <1>2, <1>3 DEF Boot!TypeOK

LEMMA Entered ==
  ASSUME BootInv, stage \in Prepared
  PROVE  /\ Configured /\ config.mem >= 16384 /\ 1 \in DOMAIN config.kernel
         /\ Accepted(config) /\ SegmentsOf(config) \subseteq memory
         /\ config.initrd # None =>
              Fits(config, Boot!InitrdAt(config)) /\ Boot!InitrdAt(config) \in memory
         /\ initrd = IF config.initrd = None THEN None ELSE Boot!InitrdAt(config).lo
         /\ Boot!BootParams \in memory /\ e820 = Boot!LowMap \cup Boot!MainMap
         /\ CmdlineOf(config) \in memory /\ slots = Boot!RamSlots
         /\ {TablesOf(config), Boot!Gdt} \subseteq memory
         /\ Boot!PageEntries(config) * 8 <= 16384
  <1>1. /\ stage \in WithSlots /\ stage \in WithCmdline /\ stage \in WithParams
        /\ stage \in WithInitrd /\ stage \in Loaded /\ stage \in Parsed /\ stage \in Checked
    BY Stage
  <1>2. /\ Configured /\ config.mem >= 16384 /\ 1 \in DOMAIN config.kernel
    BY <1>1 DEF BootInv, TypedInv
  <1>3. /\ Accepted(config) /\ SegmentsOf(config) \subseteq memory
        /\ config.initrd # None =>
             Fits(config, Boot!InitrdAt(config)) /\ Boot!InitrdAt(config) \in memory
    BY <1>1 DEF BootInv, LoadedInv
  <1>4. initrd = IF config.initrd = None THEN None ELSE Boot!InitrdAt(config).lo
    BY <1>1 DEF BootInv, InitrdInv
  <1>5. /\ Boot!BootParams \in memory /\ e820 = Boot!LowMap \cup Boot!MainMap
        /\ CmdlineOf(config) \in memory /\ slots = Boot!RamSlots
    BY <1>1 DEF BootInv, ParamsInv
  <1>6. /\ {TablesOf(config), Boot!Gdt} \subseteq memory
        /\ Boot!PageEntries(config) * 8 <= 16384
    BY DEF BootInv, TablesInv
  <1> QED BY <1>2, <1>3, <1>4, <1>5, <1>6

(* initrd # None only if there is one.                                     *)
LEMMA InitrdGiven ==
  ASSUME BootInv, stage \in Prepared, initrd # None
  PROVE  config.initrd # None /\ High(Boot!InitrdAt(config)) /\ Fits(config, Boot!InitrdAt(config))
         /\ initrd = Boot!InitrdAt(config).lo
  <1>1. config.initrd # None /\ initrd = Boot!InitrdAt(config).lo
    BY Entered
  <1> QED BY <1>1, Entered, InitrdHigh

LEMMA ImageStays == BootInv => Boot!ImageIntact
  <1> SUFFICES ASSUME BootInv, stage = "entered"
               PROVE  /\ Boot!Segments \cup {Boot!BootParams, Boot!Gdt, Boot!Tables(Boot!PageEntries(config))}
                           \subseteq memory
                      /\ Boot!Cmdline(IF config.pvh THEN "cmdline" ELSE "fallback") \in memory
                      /\ initrd # None =>
                           /\ Boot!InitrdAt(config) \in memory
                           /\ \A i \in DOMAIN config.kernel :
                                ~Boot!Touch(Boot!InitrdAt(config), Boot!Claim(config.kernel[i]))
    BY DEF Boot!ImageIntact
  <1>1. stage \in Prepared
    BY Stage
  <1>2. Boot!Segments = SegmentsOf(config)
    BY DEF Boot!Segments, SegmentsOf
  <1>3. ASSUME initrd # None, NEW i \in DOMAIN config.kernel
        PROVE  ~Boot!Touch(Boot!InitrdAt(config), Boot!Claim(config.kernel[i]))
    <2>1. config.initrd # None /\ Configured /\ Accepted(config) /\ 1 \in DOMAIN config.kernel
      BY <1>1, <1>3, InitrdGiven, Entered
    <2>2. /\ config.kernel[i].lo + config.kernel[i].mem <= Boot!InitrdAt(config).lo
          /\ Boot!InitrdAt(config).lo \in Nat
      BY <2>1, InitrdHigh DEF High, Placed
    <2>3. config.kernel[i].lo \in Nat /\ config.kernel[i].mem \in Nat
      BY <2>1, KernelsAssumed DEF Configured
    <2>4. Boot!Claim(config.kernel[i]).hi <= Boot!InitrdAt(config).lo
          /\ Boot!Claim(config.kernel[i]).hi \in Nat
      BY <2>2, <2>3 DEF Boot!Claim
    <2> QED BY <2>2, <2>4 DEF Boot!Touch
  <1>4. initrd # None => Boot!InitrdAt(config) \in memory
    BY <1>1, Entered, InitrdGiven
  <1> QED BY <1>1, <1>2, <1>3, <1>4, Entered DEF CmdlineOf, TablesOf

(* What no hole covers no BAR covers.                                      *)
LEMMA BarsOutside ==
  ASSUME Configured, NEW a, NEW b, Open(a, b), NEW bar \in config.bars
  PROVE  b <= bar.lo \/ bar.hi <= a
  <1>1. /\ config.mem \in Nat /\ bar.lo \in Nat /\ bar.hi \in Nat /\ bar.lo < bar.hi
    BY BarsAssumed
  <1>2. a \in Nat /\ b \in Nat /\ a < b /\ b <= config.mem /\ Free(a, b, Hs, NH)
    BY DEF Open
  <1>3. CASE bar.lo < config.mem
    <2>1. Clip(bar) \in Boot!Reserved(config)
      BY <1>3, Reserving DEF Within
    <2>2. PICK i \in 1 .. NH : Hs[i] = Clip(bar)
      BY <2>1, HolesSorted DEF Hs, NH
    <2>3. Clip(bar).hi <= a \/ b <= Clip(bar).lo
      BY <1>2, <2>2 DEF Free
    <2>4. Clip(bar).lo = bar.lo /\ Clip(bar).hi = IF bar.hi <= config.mem THEN bar.hi ELSE config.mem
      BY DEF Clip
    <2> QED BY <1>1, <1>2, <2>3, <2>4
  <1>4. CASE ~(bar.lo < config.mem)
    BY <1>1, <1>2, <1>4
  <1> QED BY <1>3, <1>4

LEMMA OpenBelow ==
  ASSUME Configured, NEW a \in Nat, NEW b \in Nat, a < b, b <= config.mem,
         b <= 16384 \/ \A bar \in config.bars : b <= bar.lo
  PROVE  Open(a, b)
  <1>1. ASSUME NEW i \in 1 .. NH
        PROVE  b <= Hs[i].lo
    <2>1. Hs[i] \in Boot!Reserved(config)
      BY HolesSorted DEF Hs, NH
    <2>2. PICK bar \in Within : Hs[i] = Clip(bar)
      BY <2>1, Reserving
    <2>3. Hs[i].lo = bar.lo /\ bar \in config.bars
      BY <2>2 DEF Clip, Within
    <2>4. bar.lo \in Nat /\ 16384 <= bar.lo
      BY <2>3, BarsAssumed
    <2> QED BY <2>3, <2>4
  <1> QED BY <1>1 DEF Open, Free

LEMMA Lows ==
  /\ \A e \in Boot!LowMap : /\ e.lo \in Nat /\ e.hi \in Nat /\ e.lo < e.hi /\ e.hi <= 16384
  /\ \A e, f \in Boot!LowMap : e # f => e.hi <= f.lo \/ f.hi <= e.lo
  <1> DEFINE x == Boot!Usable(0, 5120)
             y == Boot!Taken(5120, 8192)
             z == Boot!Usable(8192, 10224)
  <1>1. Boot!LowMap = {x, y, z}
    BY DEF Boot!LowMap, Boot!KB
  <1>2. x.lo = 0 /\ x.hi = 5120 /\ y.lo = 5120 /\ y.hi = 8192 /\ z.lo = 8192 /\ z.hi = 10224
    BY DEF Boot!Usable, Boot!Taken
  <1> HIDE DEF x, y, z
  <1> QED BY <1>1, <1>2

LEMMA MapAgrees == BootInv => Boot!MemoryMapAgrees
  <1> SUFFICES ASSUME BootInv, stage \in Prepared
               PROVE  /\ \A e \in e820 : e.usable =>
                           /\ e.lo < e.hi
                           /\ \E s \in slots : Boot!Inside(e, s)
                           /\ \A b \in config.bars : ~Boot!Touch(e, b) \/ b.hi <= Boot!LoadAddr
                           /\ \A f \in e820 \ {e} : ~Boot!Touch(e, f)
                      /\ \A b \in config.bars : \A s \in slots : b.lo >= Boot!LoadAddr => ~Boot!Touch(b, s)
                      /\ initrd # None =>
                           \E e \in e820 : e.usable /\ Boot!Inside(Boot!InitrdAt(config), e)
    BY DEF Boot!MemoryMapAgrees, Prepared
  <1>1. Configured /\ config.mem >= 16384 /\ config.mem \in Nat
    BY Entered, BarsAssumed
  <1>2. e820 = Boot!LowMap \cup Boot!MainMap /\ slots = Boot!RamSlots
    BY Entered
  <1>3. /\ \A s \in slots : s \in Hole /\ Open(s.lo, s.hi)
        /\ \A a, b \in Nat : Open(a, b) => \E s \in slots : s.lo <= a /\ b <= s.hi
    BY <1>1, <1>2, RamFacts
  <1>4. ASSUME NEW e \in e820
        PROVE  /\ e.lo \in Nat /\ e.hi \in Nat /\ e.lo < e.hi
               /\ e.usable => Open(e.lo, e.hi)
               /\ \A f \in e820 \ {e} : e.hi <= f.lo \/ f.hi <= e.lo
    <2>1. ASSUME NEW g \in Boot!MainMap
          PROVE  g.lo \in Nat /\ g.hi \in Nat /\ g.lo < g.hi /\ 16384 <= g.lo
                 /\ (g.usable => Open(g.lo, g.hi))
      <3>1. g \in Entry /\ 16384 <= g.lo /\ g.lo < g.hi
        BY <1>1, MapFacts
      <3>2. g.usable => Open(g.lo, g.hi)
        BY <1>1, MapFacts
      <3> QED BY <3>1, <3>2 DEF Entry
    <2>2. CASE e \in Boot!MainMap
      <3>1. ASSUME NEW f \in e820 \ {e}
            PROVE  e.hi <= f.lo \/ f.hi <= e.lo
        <4>1. CASE f \in Boot!MainMap
          BY <1>1, <2>2, <3>1, <4>1, MapFacts
        <4>2. CASE f \in Boot!LowMap
          <5>1. f.hi \in Nat /\ f.hi <= 16384
            BY <4>2, Lows
          <5>2. e.lo \in Nat /\ 16384 <= e.lo
            BY <2>1, <2>2
          <5> QED BY <5>1, <5>2
        <4> QED BY <1>2, <3>1, <4>1, <4>2
      <3> QED BY <2>1, <2>2, <3>1
    <2>3. CASE e \in Boot!LowMap
      <3>0. e.lo \in Nat /\ e.hi \in Nat /\ e.lo < e.hi /\ e.hi <= 16384
        BY <2>3, Lows
      <3>1. ASSUME NEW f \in e820 \ {e}
            PROVE  e.hi <= f.lo \/ f.hi <= e.lo
        <4>1. CASE f \in Boot!MainMap
          <5>1. f.lo \in Nat /\ 16384 <= f.lo
            BY <2>1, <4>1
          <5> QED BY <3>0, <5>1
        <4>2. CASE f \in Boot!LowMap
          BY <2>3, <3>1, <4>2, Lows
        <4> QED BY <1>2, <3>1, <4>1, <4>2
      <3>2. e.hi <= config.mem
        BY <1>1, <3>0
      <3>3. Open(e.lo, e.hi)
        BY <1>1, <3>0, <3>2, OpenBelow
      <3> QED BY <3>0, <3>1, <3>3
    <2> QED BY <1>2, <2>2, <2>3
  <1>5. ASSUME NEW e \in e820, e.usable
        PROVE  /\ e.lo < e.hi
               /\ \E s \in slots : Boot!Inside(e, s)
               /\ \A b \in config.bars : ~Boot!Touch(e, b) \/ b.hi <= Boot!LoadAddr
               /\ \A f \in e820 \ {e} : ~Boot!Touch(e, f)
    <2>1. e.lo \in Nat /\ e.hi \in Nat /\ e.lo < e.hi /\ Open(e.lo, e.hi)
      BY <1>4, <1>5
    <2>2. PICK s \in slots : s.lo <= e.lo /\ e.hi <= s.hi
      BY <1>3, <2>1
    <2>3. ASSUME NEW b \in config.bars
          PROVE  ~Boot!Touch(e, b)
      <3>1. e.hi <= b.lo \/ b.hi <= e.lo
        BY <1>1, <2>1, BarsOutside
      <3>2. b.lo \in Nat /\ b.hi \in Nat
        BY <1>1, BarsAssumed
      <3> QED BY <2>1, <3>1, <3>2 DEF Boot!Touch
    <2>4. ASSUME NEW f \in e820 \ {e}
          PROVE  ~Boot!Touch(e, f)
      <3>1. e.hi <= f.lo \/ f.hi <= e.lo
        BY <1>4
      <3>2. f.lo \in Nat /\ f.hi \in Nat
        BY <1>4
      <3> QED BY <2>1, <3>1, <3>2 DEF Boot!Touch
    <2>5. Boot!Inside(e, s)
      BY <2>2 DEF Boot!Inside
    <2> QED BY <2>1, <2>3, <2>4, <2>5
  <1>6. ASSUME NEW b \in config.bars, NEW s \in slots
        PROVE  ~Boot!Touch(b, s)
    <2>1. s.lo \in Nat /\ s.hi \in Nat /\ Open(s.lo, s.hi)
      BY <1>3 DEF Hole
    <2>2. s.hi <= b.lo \/ b.hi <= s.lo
      BY <1>1, <2>1, BarsOutside
    <2>3. b.lo \in Nat /\ b.hi \in Nat
      BY <1>1, BarsAssumed
    <2> QED BY <2>1, <2>2, <2>3 DEF Boot!Touch
  <1>7. ASSUME initrd # None
        PROVE  \E e \in e820 : e.usable /\ Boot!Inside(Boot!InitrdAt(config), e)
    <2> DEFINE x == Boot!InitrdAt(config)
    <2>1. /\ config.initrd # None /\ High(x) /\ Fits(config, x)
          /\ Accepted(config) /\ 1 \in DOMAIN config.kernel
      BY <1>7, InitrdGiven, Entered
    <2>2. ASSUME NEW b \in config.bars
          PROVE  x.hi <= b.lo
      <3>1. Boot!BarsAboveInitrd
        BY Assumptions DEF Boot!RoomAssumption
      <3>2. config.bars \in Bars /\ config.kernel \in Kernel /\ config.initrd \in Initrd \ {None}
        BY <1>1, <2>1 DEF Configured
      <3>3. config.kernel # <<>>
        BY <2>1
      <3>4. Boot!InitrdStart(config.kernel) + config.initrd <= b.lo
        BY <3>1, <3>2, <3>3 DEF Boot!BarsAboveInitrd
      <3>5. x.hi = Boot!InitrdStart(config.kernel) + config.initrd
        BY <1>1, <2>1, InitrdHigh
      <3> QED BY <3>4, <3>5
    <2>3. x.lo \in Nat /\ x.hi \in Nat /\ x.lo < x.hi /\ x.hi <= config.mem /\ 16384 <= x.lo
      BY <2>1 DEF High, Placed, Fits
    <2> HIDE DEF x
    <2>4. Open(x.lo, x.hi)
      BY <1>1, <2>2, <2>3, OpenBelow
    <2>5. PICK e \in Boot!MainMap : e.usable /\ e.lo <= x.lo /\ x.hi <= e.hi
      BY <1>1, <2>3, <2>4, MapFacts
    <2>6. Boot!Inside(x, e)
      BY <2>5 DEF Boot!Inside
    <2> QED BY <1>2, <2>5, <2>6 DEF x
  <1> QED BY <1>5, <1>6, <1>7

-----------------------------------------------------------------------------
(* The tables.                                                             *)
LEMMA TableEntries ==
  ASSUME NEW n \in Nat, NEW p \in Nat, p < n, p < 512
  PROVE  /\ Boot!EntryAt(n, 0) = [leaf |-> FALSE, to |-> 1]
         /\ Boot!EntryAt(n, 512) = [leaf |-> FALSE, to |-> 2]
         /\ Boot!EntryAt(n, 1024 + p) = [leaf |-> TRUE, to |-> p]
  <1>1. /\ 0 \in DOMAIN Boot!Link /\ 512 \in DOMAIN Boot!Link
        /\ Boot!Link[0] = 1 /\ Boot!Link[512] = 2
    BY DEF Boot!Link
  <1>2. Boot!EntryAt(n, 0) = [leaf |-> FALSE, to |-> 1]
    BY <1>1 DEF Boot!EntryAt
  <1>3. Boot!EntryAt(n, 512) = [leaf |-> FALSE, to |-> 2]
    BY <1>1 DEF Boot!EntryAt
  <1>4. 1024 + p >= 1024 /\ 1024 + p < 1024 + n /\ (1024 + p) - 1024 = p
    OBVIOUS
  <1>5. Boot!EntryAt(n, 1024 + p) = [leaf |-> TRUE, to |-> p]
    <2>1. ASSUME NEW q \in Nat, q >= 1024, q < 1024 + n
          PROVE  Boot!EntryAt(n, q) = [leaf |-> TRUE, to |-> q - 1024]
      BY <2>1 DEF Boot!EntryAt
    <2>2. PICK q \in Nat : q = 1024 + p
      OBVIOUS
    <2>3. q >= 1024 /\ q < 1024 + n /\ q - 1024 = p
      BY <2>2
    <2>4. Boot!EntryAt(n, q) = [leaf |-> TRUE, to |-> q - 1024]
      BY <2>1, <2>3
    <2>5. Boot!EntryAt(n, q) = [leaf |-> TRUE, to |-> p]
      BY <2>3, <2>4
    <2> QED BY <2>2, <2>5
  <1> QED BY <1>2, <1>3, <1>5

LEMMA IdentityMaps ==
  ASSUME NEW n \in Nat, NEW p \in Nat, p < n, p < 512
  PROVE  Boot!Identity(n, p) = p
  <1> DEFINE top == Boot!EntryAt(n, 0)
             mid == Boot!EntryAt(n, 512)
             low == Boot!EntryAt(n, 1024 + p)
  <1>1. None \notin [leaf : BOOLEAN, to : Nat]
    BY Assumptions DEF Boot!ConfigAssumption, Boot!SizesAssumption
  <1>2. /\ top = [leaf |-> FALSE, to |-> 1] /\ mid = [leaf |-> FALSE, to |-> 2]
        /\ low = [leaf |-> TRUE, to |-> p]
    BY TableEntries
  <1> HIDE DEF top, mid, low
  <1>3. /\ top # None /\ ~top.leaf /\ top.to = 1 /\ mid # None /\ ~mid.leaf /\ mid.to = 2
        /\ low # None /\ low.leaf /\ low.to = p
    <2>1. top \in [leaf : BOOLEAN, to : Nat] /\ mid \in [leaf : BOOLEAN, to : Nat]
          /\ low \in [leaf : BOOLEAN, to : Nat]
      BY <1>2
    <2>2. top # None /\ mid # None /\ low # None
      BY <1>1, <2>1
    <2> QED BY <1>2, <2>2
  <1>4. p \div 512 = 0 /\ p % 512 = p
    OBVIOUS
  <1>5. Boot!Identity(n, p) = Boot!Walk(n, 0, 0, p)
    BY <1>4 DEF Boot!Identity
  <1>6. 512 * 1 + 0 = 512 /\ 512 * 2 + p = 1024 + p
    OBVIOUS
  <1>7. /\ Boot!EntryAt(n, 512 * top.to + 0) = mid
        /\ Boot!EntryAt(n, 512 * mid.to + p) = low
    BY <1>3, <1>6 DEF mid, low
  <1>8. Boot!Walk(n, 0, 0, p) = p
    BY <1>3, <1>7 DEF Boot!Walk, top
  <1> QED BY <1>5, <1>8

LEMMA Addressed ==
  ASSUME NEW a \in Nat, NEW m \in Nat, NEW n \in Nat, a < m, m <= 32768 * n, a <= Giga
  PROVE  Boot!Identity(n, a \div Boot!MB(2)) = a \div Boot!MB(2)
  <1> DEFINE p == a \div 32768
  <1>1. p \in Nat /\ 32768 * p <= a
    OBVIOUS
  <1>2. Boot!MB(2) = 32768
    BY DEF Boot!MB
  <1> HIDE DEF p
  <1>3. p < n
    <2>1. 32768 * p < 32768 * n
      BY <1>1
    <2> QED BY <1>1, <2>1
  <1>4. p < 512
    <2>1. Giga = 32768 * 511 /\ Giga \in Nat
      BY GigaIs
    <2>2. 32768 * p <= 32768 * 511
      BY <1>1, <2>1
    <2> QED BY <1>1, <2>2
  <1>5. Boot!Identity(n, p) = p
    BY <1>1, <1>3, <1>4, IdentityMaps
  <1> QED BY <1>2, <1>5 DEF p

LEMMA EntryStays == BootInv => Boot!EntryMapped
  <1> SUFFICES ASSUME BootInv, stage = "entered"
               PROVE  /\ cpu.mode = "long" /\ cpu.rip = config.kernel[1].lo
                      /\ cpu.rsi = Boot!BootParamsAddr
                      /\ \A a \in {cpu.rip, cpu.rsi, cpu.rsp - 1} \cup ({initrd} \ {None}) :
                           Boot!Identity(Boot!PageEntries(config), a \div Boot!MB(2)) = a \div Boot!MB(2)
    BY DEF Boot!EntryMapped
  <1>1. stage \in Prepared
    BY Stage
  <1>2. /\ Configured /\ config.mem >= 16384 /\ config.mem \in Nat /\ 1 \in DOMAIN config.kernel
        /\ Accepted(config)
    BY <1>1, Entered, BarsAssumed
  <1>3. cpu = Boot!LongMode
    BY DEF BootInv, TablesInv
  <1>4. /\ cpu.mode = "long" /\ cpu.rip = config.kernel[1].lo
        /\ cpu.rsi = Boot!BootParamsAddr /\ cpu.rsp = Boot!StackTop
    BY <1>2, <1>3, LongModeType
  <1>5. Boot!PageEntries(config) \in Nat /\ config.mem <= 32768 * Boot!PageEntries(config)
    BY <1>2, PageCount
  <1>6. Giga \in Nat /\ Giga > 16384
    BY GigaIs
  <1>7. cpu.rip \in Nat /\ cpu.rip < config.mem /\ cpu.rip <= Giga
    <2> DEFINE s == config.kernel[1]
    <2>1. s.lo \in Nat /\ s.mem \in Nat /\ s.lo + s.mem <= Giga
      BY <1>2, KernelsAssumed DEF Configured
    <2>2. Boot!Claim(s).lo < Boot!Claim(s).hi /\ Boot!Claim(s).hi <= config.mem
      BY <1>2 DEF Accepted, Fits
    <2>3. s.lo < s.lo + s.mem /\ s.lo + s.mem <= config.mem
      BY <2>2 DEF Boot!Claim
    <2> QED BY <1>2, <1>4, <1>6, <2>1, <2>3
  <1>8. cpu.rsi = 1024 /\ cpu.rsp - 1 = 8191
    BY <1>4, Layout
  <1>9. ASSUME initrd # None
        PROVE  initrd \in Nat /\ initrd < config.mem /\ initrd <= Giga
    <2> DEFINE x == Boot!InitrdAt(config)
    <2>1. initrd = x.lo /\ High(x) /\ x.lo < x.hi /\ x.hi <= config.mem /\ x.lo <= Giga
      BY <1>1, <1>2, <1>9, InitrdGiven, InitrdHigh DEF Fits
    <2> QED BY <1>2, <2>1 DEF High, Placed
  <1>10. ASSUME NEW a \in {cpu.rip, cpu.rsi, cpu.rsp - 1} \cup ({initrd} \ {None})
         PROVE  a \in Nat /\ a < config.mem /\ a <= Giga
    <2>1. 1024 <= Giga /\ 8191 <= Giga /\ 1024 < config.mem /\ 8191 < config.mem
      BY <1>2, <1>6
    <2> QED BY <1>7, <1>8, <1>9, <2>1
  <1>11. ASSUME NEW a \in {cpu.rip, cpu.rsi, cpu.rsp - 1} \cup ({initrd} \ {None})
         PROVE  Boot!Identity(Boot!PageEntries(config), a \div Boot!MB(2)) = a \div Boot!MB(2)
    <2>1. PICK m \in Nat : m = config.mem
      BY <1>2
    <2>2. PICK n \in Nat : n = Boot!PageEntries(config)
      BY <1>5
    <2>3. a \in Nat /\ a < m /\ a <= Giga /\ m <= 32768 * n
      BY <1>5, <1>10, <2>1, <2>2
    <2>4. Boot!Identity(n, a \div Boot!MB(2)) = a \div Boot!MB(2)
      BY <2>3, Addressed
    <2> QED BY <2>2, <2>4
  <1> QED BY <1>4, <1>11

-----------------------------------------------------------------------------
BootPart == part = "boot" => BootInv

LEMMA BootPartInit == Init => BootPart
  BY BootInit DEF Init, BootPart

LEMMA BootStutters == BootInv /\ UNCHANGED bootVars => BootInv'
  <1> SUFFICES ASSUME BootInv, UNCHANGED bootVars PROVE BootInv'
    OBVIOUS
  <1>1. /\ UNCHANGED <<config, stage, memory, slots, e820, initrd, cpu, late, beat>>
    BY DEF bootVars
  <1>2. TypedInv'
    BY <1>1, Rigid DEF BootInv, TypedInv
  <1>3. LoadedInv' /\ InitrdInv' /\ TablesInv'
    BY <1>1, Rigid DEF BootInv, LoadedInv, InitrdInv, TablesInv, Boot!Gdt
  <1>4. ParamsInv'
    BY <1>1, Rigid, RigidMap DEF BootInv, ParamsInv, Boot!BootParams, Boot!LowMap, Boot!Cmdline
  <1> QED BY <1>2, <1>3, <1>4 DEF BootInv

LEMMA BootPartStep == BootPart /\ [Next]_vars => BootPart'
  <1> SUFFICES ASSUME BootPart, [Next]_vars, part' = "boot" PROVE BootInv'
    BY DEF BootPart
  <1>1. part = "boot"
    BY DEF Next, vars
  <1>2. BootInv
    BY <1>1 DEF BootPart
  <1>3. Boot!Next \/ UNCHANGED bootVars
    BY <1>1 DEF Next, vars
  <1> QED BY <1>2, <1>3, BootStep, BootStutters

(* When a kernel is entered everything boot_linux promised it is in memory, *)
(* memory map, KVM's slots and the host's BARs agree, and it runs on tables *)
(* that map its entry point, whatever kernel, initrd, BARs and ROM.         *)
THEOREM BootImageIsRight == Spec => []BootImageRight
  <1>1. BootPart => BootImageRight
    BY ImageStays, MapAgrees, EntryStays DEF BootPart, BootImageRight
  <1> QED BY <1>1, BootPartInit, BootPartStep, PTL DEF Spec

-----------------------------------------------------------------------------
(* Selecting lines.                                                        *)
LEMMA Appended ==
  ASSUME NEW S, NEW G, <<>> \in G,
         \A s \in Seq(S), e \in S : s \in G => Append(s, e) \in G
  PROVE  Seq(S) \subseteq G
  <1> SUFFICES ASSUME NEW s \in Seq(S) PROVE s \in G
    OBVIOUS
  <1> DEFINE N == Len(s)
             T == {n \in 0 .. N : SubSeq(s, 1, n) \in G}
  <1>1. N \in Nat /\ SubSeq(s, 1, N) = s
    BY SubSeqFull, LenProperties
  <1>2. 0 \in T
    <2>1. SubSeq(s, 1, 0) = <<>>
      BY SubSeqEmpty
    <2>2. SubSeq(s, 1, 0) \in G
      BY <2>1
    <2>3. 0 \in 0 .. N
      BY <1>1
    <2> QED BY <2>2, <2>3
  <1>3. ASSUME NEW n \in 1 .. N, n - 1 \in T
        PROVE  n \in T
    <2>1. SubSeq(s, 1, n) = SubSeq(s, 1, n - 1) \o <<s[n]>>
      BY <1>1, SubSeqRecursiveSecond
    <2>2. s[n] \in S /\ SubSeq(s, 1, n - 1) \in Seq(S)
      <3>1. \A i \in 1 .. n - 1 : s[i] \in S
        BY <1>1, ElementOfSeq
      <3>2. SubSeq(s, 1, n - 1) \in Seq(S)
        BY <1>1, <3>1, SubSeqProperties
      <3> QED BY <1>1, <3>2, ElementOfSeq
    <2>3. SubSeq(s, 1, n) = Append(SubSeq(s, 1, n - 1), s[n])
      BY <2>1, <2>2, AppendIsConcat
    <2>4. SubSeq(s, 1, n - 1) \in G
      BY <1>3
    <2>5. SubSeq(s, 1, n) \in G
      BY <2>2, <2>3, <2>4
    <2> QED BY <1>1, <2>5
  <1>4. N \in 0 .. N
    BY <1>1
  <1> HIDE DEF T, N
  <1>5. N \in T
    BY <1>1, <1>2, <1>3, <1>4, Climb
  <1> QED BY <1>1, <1>5 DEF T

Text == Seq(Emu!Line)
Keep(r, x, K) == IF x \in K THEN Append(r, x) ELSE r
Keeps(s, K, f) ==
  /\ f \in [0 .. Len(s) -> Text] /\ f[0] = <<>>
  /\ \A n \in 1 .. Len(s) : f[n] = Keep(f[n - 1], s[n], K)

LEMMA OnlySteps ==
  ASSUME NEW s \in Text, NEW K
  PROVE  \E f : Keeps(s, K, f) /\ Emu!Only(s, K) = f[Len(s)]
<1> DEFINE N == Len(s)
           F == [n \in 1 .. N |-> [r \in Text |-> Keep(r, s[n], K)]]
           f == CHOOSE g : g = [n \in 0 .. N |-> IF n = 0 THEN <<>> ELSE
                                  IF s[n] \in K THEN Append(g[n - 1], s[n]) ELSE g[n - 1]]
<1>1. N \in Nat /\ \A n \in 1 .. N : s[n] \in Emu!Line
  BY LenProperties, ElementOfSeq DEF Text
<1>2. <<>> \in Text
  BY DEF Text
<1>3. ASSUME NEW n \in 1 .. N, NEW r \in Text
      PROVE  Keep(r, s[n], K) \in Text
  BY <1>1, AppendProperties DEF Keep, Text
<1>4. Emu!Only(s, K) = f[N]
  BY DEF Emu!Only
<1> HIDE DEF N, f
<1>5. F \in [1 .. N -> [Text -> Text]]
  BY <1>3
<1>6. PICK g : Staged(N, Text, <<>>, F, g)
  <2>1. Stages(N, Text, <<>>, F)
    BY <1>1, <1>2, <1>5 DEF Stages
  <2> HIDE DEF F
  <2> QED BY <2>1, Iterates
<1>7. /\ g \in [0 .. N -> Text] /\ g[0] = <<>>
      /\ \A n \in 1 .. N : g[n] = F[n][g[n - 1]]
  BY <1>6 DEF Staged
<1>8. ASSUME NEW n \in 1 .. N
      PROVE  g[n - 1] \in Text /\ g[n] = Keep(g[n - 1], s[n], K)
  <2>1. n - 1 \in 0 .. N
    BY <1>1
  <2>2. g[n - 1] \in Text
    BY <1>7, <2>1
  <2> QED BY <1>7, <2>2
<1>9. g = [n \in 0 .. N |-> IF n = 0 THEN <<>> ELSE
             IF s[n] \in K THEN Append(g[n - 1], s[n]) ELSE g[n - 1]]
  <2> DEFINE h == [n \in 0 .. N |-> IF n = 0 THEN <<>> ELSE
                     IF s[n] \in K THEN Append(g[n - 1], s[n]) ELSE g[n - 1]]
  <2>1. ASSUME NEW n \in 0 .. N PROVE g[n] = h[n]
    <3>1. CASE n = 0
      BY <1>7, <3>1
    <3>2. CASE n # 0
      <4>1. n \in 1 .. N
        BY <1>1, <3>2
      <4> QED BY <1>8, <3>2, <4>1 DEF Keep
    <3> QED BY <3>1, <3>2
  <2> HIDE DEF h
  <2>2. DOMAIN h = 0 .. N /\ h = [n \in DOMAIN h |-> h[n]]
    BY DEF h
  <2>3. g = h
    BY <1>7, <2>1, <2>2
  <2> QED BY <2>3 DEF h
<1>10. f = [n \in 0 .. N |-> IF n = 0 THEN <<>> ELSE
             IF s[n] \in K THEN Append(f[n - 1], s[n]) ELSE f[n - 1]]
  BY <1>9 DEF f
<1>11. f[0] = <<>> /\ \A n \in 1 .. N : f[n] = Keep(f[n - 1], s[n], K)
  <2>1. 0 \in 0 .. N /\ \A n \in 1 .. N : n \in 0 .. N /\ n # 0
    BY <1>1
  <2> QED BY <1>10, <2>1 DEF Keep
<1>12. \A n \in 0 .. N : f[n] = g[n]
  <2> DEFINE G == {n \in 0 .. N : f[n] = g[n]}
  <2>1. 0 \in G
    BY <1>1, <1>7, <1>11
  <2>2. ASSUME NEW n \in 1 .. N, n - 1 \in G PROVE n \in G
    <3>1. n \in 0 .. N /\ f[n - 1] = g[n - 1]
      BY <1>1, <2>2
    <3> QED BY <1>8, <1>11, <3>1
  <2> HIDE DEF G
  <2>3. \A n \in 0 .. N : n \in G
    BY <1>1, <2>1, <2>2, Climb
  <2> QED BY <2>3 DEF G
<1>13. N \in 0 .. N
  BY <1>1
<1>14. Keeps(s, K, g)
  BY <1>7, <1>8 DEF Keeps, N
<1> QED BY <1>4, <1>12, <1>13, <1>14 DEF N

LEMMA OnlyAppend ==
  ASSUME NEW s \in Text, NEW x \in Emu!Line, NEW K
  PROVE  Emu!Only(Append(s, x), K) = Keep(Emu!Only(s, K), x, K)
<1> DEFINE t == Append(s, x)
           N == Len(s)
<1>1. /\ t \in Text /\ N \in Nat /\ Len(t) = N + 1 /\ t[N + 1] = x
      /\ \A i \in 1 .. N : t[i] = s[i]
  BY AppendProperties, LenProperties DEF Text
<1> HIDE DEF t
<1>2. PICK f : Keeps(s, K, f) /\ Emu!Only(s, K) = f[N]
  BY OnlySteps
<1>3. PICK g : Keeps(t, K, g) /\ Emu!Only(t, K) = g[N + 1]
  BY <1>1, OnlySteps
<1> HIDE DEF N
<1>4. /\ f[0] = <<>> /\ g[0] = <<>>
      /\ \A n \in 1 .. N : f[n] = Keep(f[n - 1], s[n], K)
      /\ \A n \in 1 .. N + 1 : g[n] = Keep(g[n - 1], t[n], K)
  BY <1>1, <1>2, <1>3 DEF Keeps, N
<1> DEFINE G == {n \in 0 .. N : f[n] = g[n]}
<1>5. 0 \in G
  BY <1>1, <1>4
<1>6. ASSUME NEW n \in 1 .. N, n - 1 \in G PROVE n \in G
  <2>1. n \in 0 .. N /\ n \in 1 .. N + 1 /\ f[n - 1] = g[n - 1] /\ t[n] = s[n]
    BY <1>1, <1>6
  <2> QED BY <1>4, <2>1
<1>7. N \in 0 .. N /\ N + 1 \in 1 .. N + 1 /\ (N + 1) - 1 = N
  BY <1>1
<1> HIDE DEF G
<1>8. N \in G
  BY <1>1, <1>5, <1>6, <1>7, Climb
<1>9. f[N] = g[N]
  BY <1>8 DEF G
<1>10. g[N + 1] = Keep(g[N], x, K)
  BY <1>1, <1>4, <1>7
<1> QED BY <1>2, <1>3, <1>9, <1>10 DEF t

LEMMA OnlyNone ==
  ASSUME NEW K
  PROVE  Emu!Only(<<>>, K) = <<>>
  <1>1. <<>> \in Text /\ Len(<<>>) = 0
    BY DEF Text
  <1>2. PICK f : Keeps(<<>>, K, f) /\ Emu!Only(<<>>, K) = f[Len(<<>>)]
    BY <1>1, OnlySteps
  <1> QED BY <1>1, <1>2 DEF Keeps

LEMMA OnlyTyped ==
  ASSUME NEW s \in Text, NEW K
  PROVE  Emu!Only(s, K) \in Text
  <1>1. PICK f : Keeps(s, K, f) /\ Emu!Only(s, K) = f[Len(s)]
    BY OnlySteps
  <1>2. Len(s) \in 0 .. Len(s)
    BY LenProperties DEF Text
  <1> QED BY <1>1, <1>2 DEF Keeps

LEMMA OnlyConcat ==
  ASSUME NEW s \in Text, NEW t \in Text, NEW K
  PROVE  Emu!Only(s \o t, K) = Emu!Only(s, K) \o Emu!Only(t, K)
  <1> DEFINE P(u) == Emu!Only(s \o u, K) = Emu!Only(s, K) \o Emu!Only(u, K)
             G == {u \in Text : P(u)}
  <1>1. <<>> \in G
    <2>1. <<>> \in Text /\ s \o <<>> = s
      BY ConcatEmptySeq DEF Text
    <2>2. Emu!Only(s, K) \o <<>> = Emu!Only(s, K)
      BY OnlyTyped, ConcatEmptySeq DEF Text
    <2> QED BY <2>1, <2>2, OnlyNone
  <1>2. ASSUME NEW u \in Text, NEW x \in Emu!Line, u \in G
        PROVE  Append(u, x) \in G
    <2>1. PICK a \in Text, b \in Text : a = Emu!Only(s, K) /\ b = Emu!Only(u, K)
      BY OnlyTyped
    <2>2. /\ Append(u, x) \in Text /\ s \o u \in Text
          /\ s \o Append(u, x) = Append(s \o u, x)
      <3>1. <<x>> \in Text
        BY DEF Text
      <3>2. (s \o u) \o <<x>> = s \o (u \o <<x>>)
        BY <3>1, ConcatAssociative DEF Text
      <3>3. Append(u, x) \in Text /\ Append(u, x) = u \o <<x>> /\ s \o u \in Text
        BY AppendIsConcat, AppendProperties, ConcatProperties DEF Text
      <3>4. Append(s \o u, x) = (s \o u) \o <<x>>
        BY <3>3, AppendIsConcat DEF Text
      <3> QED BY <3>2, <3>3, <3>4
    <2>3. Emu!Only(s \o u, K) = a \o b
      BY <1>2, <2>1
    <2>4. Emu!Only(s \o Append(u, x), K) = Keep(a \o b, x, K)
      <3>1. PICK c \in Text : c = s \o u
        BY <2>2
      <3>2. s \o Append(u, x) = Append(c, x) /\ Emu!Only(c, K) = a \o b
        BY <2>2, <2>3, <3>1
      <3>3. Emu!Only(Append(c, x), K) = Keep(Emu!Only(c, K), x, K)
        BY OnlyAppend
      <3> QED BY <3>2, <3>3
    <2>5. Emu!Only(Append(u, x), K) = Keep(b, x, K)
      BY <2>1, OnlyAppend
    <2>6. Keep(a \o b, x, K) = a \o Keep(b, x, K)
      <3>1. <<x>> \in Text
        BY DEF Text
      <3>2. (a \o b) \o <<x>> = a \o (b \o <<x>>)
        BY <3>1, ConcatAssociative DEF Text
      <3>3. a \o b \in Text
        BY ConcatProperties DEF Text
      <3>4. Append(a \o b, x) = (a \o b) \o <<x>> /\ Append(b, x) = b \o <<x>>
        BY <3>3, AppendIsConcat DEF Text
      <3> QED BY <3>2, <3>4 DEF Keep
    <2>7. P(Append(u, x))
      BY <2>1, <2>4, <2>5, <2>6
    <2> QED BY <2>2, <2>7
  <1> HIDE DEF G
  <1>3. t \in G
    BY <1>1, <1>2, Appended DEF Text
  <1> QED BY <1>3 DEF G

LEMMA OnlyAbsent ==
  ASSUME NEW s \in Text, NEW K, \A i \in 1 .. Len(s) : s[i] \notin K
  PROVE  Emu!Only(s, K) = <<>>
  <1> DEFINE N == Len(s)
  <1>1. PICK f : Keeps(s, K, f) /\ Emu!Only(s, K) = f[N]
    BY OnlySteps
  <1> DEFINE G == {n \in 0 .. N : f[n] = <<>>}
  <1>2. N \in Nat
    BY LenProperties DEF Text
  <1>3. 0 \in G
    BY <1>1, <1>2 DEF Keeps
  <1>4. ASSUME NEW n \in 1 .. N, n - 1 \in G PROVE n \in G
    <2>1. n \in 0 .. N /\ f[n - 1] = <<>> /\ f[n] = Keep(f[n - 1], s[n], K) /\ s[n] \notin K
      BY <1>1, <1>2, <1>4 DEF Keeps
    <2> QED BY <2>1 DEF Keep
  <1>5. N \in 0 .. N
    BY <1>2
  <1> HIDE DEF N, G
  <1>6. N \in G
    BY <1>2, <1>3, <1>4, <1>5, Climb
  <1> QED BY <1>1, <1>6 DEF G

LEMMA OnlyTwice ==
  ASSUME NEW s \in Text, NEW J, NEW K, K \subseteq J
  PROVE  Emu!Only(Emu!Only(s, J), K) = Emu!Only(s, K)
  <1> DEFINE P(u) == Emu!Only(Emu!Only(u, J), K) = Emu!Only(u, K)
             G == {u \in Text : P(u)}
  <1>1. <<>> \in G
    BY OnlyNone DEF Text
  <1>2. ASSUME NEW u \in Text, NEW x \in Emu!Line, u \in G
        PROVE  Append(u, x) \in G
    <2>1. Append(u, x) \in Text
      BY AppendProperties DEF Text
    <2>2. PICK a \in Text : a = Emu!Only(u, J)
      BY OnlyTyped
    <2>3. Emu!Only(a, K) = Emu!Only(u, K)
      BY <1>2, <2>2
    <2>4. Emu!Only(Append(u, x), J) = Keep(a, x, J)
      BY <2>2, OnlyAppend
    <2>5. Emu!Only(Append(u, x), K) = Keep(Emu!Only(a, K), x, K)
      BY <2>3, OnlyAppend
    <2>6. Emu!Only(Keep(a, x, J), K) = Keep(Emu!Only(a, K), x, K)
      <3>1. CASE x \in J
        BY <3>1, OnlyAppend DEF Keep
      <3>2. CASE x \notin J
        BY <3>2 DEF Keep
      <3> QED BY <3>1, <3>2
    <2>7. P(Append(u, x))
      BY <2>4, <2>5, <2>6
    <2> QED BY <2>1, <2>7
  <1> HIDE DEF G
  <1>3. s \in G
    BY <1>1, <1>2, Appended DEF Text
  <1> QED BY <1>3 DEF G

-----------------------------------------------------------------------------
(* What the serial line holds.                                             *)
Lacks(s, x) == \A i \in 1 .. Len(s) : s[i] # x
OnlyLast(s, x) == \A i \in 1 .. Len(s) : s[i] = x => i = Len(s)
Outs(s) == Emu!Only(s, {"out"})

LEMMA JoinLacks ==
  ASSUME NEW s \in Text, NEW t \in Text, NEW x
  PROVE  Lacks(s \o t, x) <=> Lacks(s, x) /\ Lacks(t, x)
  <1> DEFINE u == s \o t
  <1>1. PICK m \in Nat, n \in Nat : m = Len(s) /\ n = Len(t)
    BY LenProperties DEF Text
  <1>2. Len(u) = m + n /\ \A i \in 1 .. m + n : u[i] = IF i <= m THEN s[i] ELSE t[i - m]
    BY <1>1, ConcatProperties DEF Text
  <1> HIDE DEF u
  <1>3. \A i \in 1 .. m : i \in 1 .. m + n /\ u[i] = s[i]
    BY <1>2
  <1>4. ASSUME NEW i \in 1 .. n PROVE m + i \in 1 .. m + n /\ u[m + i] = t[i]
    <2>1. m + i \in 1 .. m + n /\ ~(m + i <= m) /\ (m + i) - m = i
      OBVIOUS
    <2> QED BY <1>2, <2>1
  <1>5. ASSUME NEW i \in 1 .. m + n
        PROVE  (i \in 1 .. m /\ u[i] = s[i]) \/ (i - m \in 1 .. n /\ u[i] = t[i - m])
    BY <1>2
  <1>6. Lacks(u, x) => Lacks(s, x) /\ Lacks(t, x)
    BY <1>1, <1>2, <1>3, <1>4 DEF Lacks
  <1>7. Lacks(s, x) /\ Lacks(t, x) => Lacks(u, x)
    BY <1>1, <1>2, <1>5 DEF Lacks
  <1> QED BY <1>6, <1>7 DEF u

LEMMA JoinLast ==
  ASSUME NEW s \in Text, NEW t \in Text, NEW x, Lacks(s, x), OnlyLast(t, x)
  PROVE  OnlyLast(s \o t, x)
  <1> DEFINE u == s \o t
  <1>1. PICK m \in Nat, n \in Nat : m = Len(s) /\ n = Len(t)
    BY LenProperties DEF Text
  <1>2. Len(u) = m + n /\ \A i \in 1 .. m + n : u[i] = IF i <= m THEN s[i] ELSE t[i - m]
    BY <1>1, ConcatProperties DEF Text
  <1> HIDE DEF u
  <1>3. ASSUME NEW i \in 1 .. m + n, u[i] = x
        PROVE  i = m + n
    <2>1. CASE i <= m
      <3>1. i \in 1 .. m /\ u[i] = s[i]
        BY <1>2, <2>1
      <3> QED BY <1>1, <1>3, <3>1 DEF Lacks
    <2>2. CASE ~(i <= m)
      <3>1. i - m \in 1 .. n /\ u[i] = t[i - m]
        BY <1>2, <2>2
      <3>2. i - m = n
        BY <1>1, <1>3, <3>1 DEF OnlyLast
      <3> QED BY <3>2
    <2> QED BY <2>1, <2>2
  <1> QED BY <1>2, <1>3 DEF OnlyLast, u

LEMMA JoinFirst ==
  ASSUME NEW s \in Text, NEW t \in Text
  PROVE  /\ s \o t \in Text
         /\ s # <<>> => s \o t # <<>> /\ (s \o t)[1] = s[1]
         /\ s = <<>> => s \o t = t
         /\ t # <<>> => s \o t # <<>>
  <1>1. s \o t \in Text
    BY ConcatProperties DEF Text
  <1>2. s = <<>> => s \o t = t
    BY ConcatEmptySeq DEF Text
  <1>3. (s # <<>> \/ t # <<>>) => s \o t # <<>>
    BY ConcatEqualIffEmpty, ConcatSimplifications DEF Text
  <1>4. ASSUME s # <<>> PROVE (s \o t)[1] = s[1]
    <2>1. Len(s) \in Nat /\ Len(t) \in Nat /\ Len(s) # 0
      BY <1>4, LenProperties, EmptySeq DEF Text
    <2>2. 1 \in 1 .. Len(s) + Len(t) /\ 1 <= Len(s)
      BY <2>1
    <2> QED BY <2>2, ConcatProperties DEF Text
  <1> QED BY <1>1, <1>2, <1>3, <1>4

(* A line read: the head and what follows it.                              *)
LEMMA HeadAndTail ==
  ASSUME NEW s \in Text, s # <<>>
  PROVE  /\ Head(s) \in Emu!Line /\ Tail(s) \in Text /\ Head(s) = s[1]
         /\ Len(s) \in Nat /\ 1 \in 1 .. Len(s) /\ Len(Tail(s)) = Len(s) - 1
         /\ \A i \in 1 .. Len(Tail(s)) : i + 1 \in 1 .. Len(s) /\ Tail(s)[i] = s[i + 1]
         /\ <<Head(s)>> \in Text /\ s = <<Head(s)>> \o Tail(s)
  <1>1. Head(s) \in Emu!Line /\ Tail(s) \in Text /\ Head(s) = s[1]
    BY HeadTailProperties DEF Text
  <1>2. /\ Len(s) \in Nat /\ Len(s) # 0 /\ Len(Tail(s)) = Len(s) - 1
        /\ \A i \in 1 .. Len(Tail(s)) : Tail(s)[i] = s[i + 1]
    BY HeadTailProperties, LenProperties, EmptySeq DEF Text
  <1>3. \A i \in 1 .. Len(Tail(s)) : i + 1 \in 1 .. Len(s)
    BY <1>2
  <1>4. <<Head(s)>> \in Text
    BY <1>1 DEF Text
  <1>5. s = <<Head(s)>> \o Tail(s)
    <2> DEFINE u == <<Head(s)>> \o Tail(s)
    <2>1. /\ u \in Text /\ Len(u) = 1 + Len(Tail(s))
          /\ \A i \in 1 .. 1 + Len(Tail(s)) : u[i] = IF i <= 1 THEN Head(s) ELSE Tail(s)[i - 1]
      <3>1. Len(<<Head(s)>>) = 1 /\ <<Head(s)>>[1] = Head(s)
        OBVIOUS
      <3>2. /\ u \in Text /\ Len(u) = Len(<<Head(s)>>) + Len(Tail(s))
            /\ \A i \in 1 .. Len(<<Head(s)>>) + Len(Tail(s)) :
                 u[i] = IF i <= Len(<<Head(s)>>) THEN <<Head(s)>>[i] ELSE Tail(s)[i - Len(<<Head(s)>>)]
        BY <1>1, <1>4, ConcatProperties DEF Text
      <3> HIDE DEF u
      <3>3. ASSUME NEW i \in 1 .. 1 + Len(Tail(s))
            PROVE  u[i] = IF i <= 1 THEN Head(s) ELSE Tail(s)[i - 1]
        <4>1. i <= 1 => i = 1
          BY <1>2
        <4> QED BY <3>1, <3>2, <4>1
      <3> QED BY <3>1, <3>2, <3>3
    <2> HIDE DEF u
    <2>2. ASSUME NEW i \in 1 .. Len(s) PROVE s[i] = u[i]
      <3>1. i = 1 \/ (i - 1 \in 1 .. Len(Tail(s)) /\ (i - 1) + 1 = i /\ ~(i <= 1))
        BY <1>2
      <3>2. i \in 1 .. 1 + Len(Tail(s))
        BY <1>2
      <3> QED BY <1>1, <1>2, <2>1, <3>1, <3>2
    <2>3. Len(u) = Len(s)
      BY <1>2, <2>1
    <2>4. s = u
      BY <2>1, <2>2, <2>3, SeqEqual DEF Text
    <2> QED BY <2>4 DEF u
  <1> QED BY <1>1, <1>2, <1>3, <1>4, <1>5

LEMMA TailLacks ==
  ASSUME NEW s \in Text, s # <<>>, NEW x
  PROVE  /\ Lacks(s, x) => Head(s) # x /\ Lacks(Tail(s), x)
         /\ OnlyLast(s, x) => OnlyLast(Tail(s), x)
         /\ OnlyLast(s, x) /\ Head(s) = x => Tail(s) = <<>>
  <1>0. /\ Len(s) \in Nat /\ 1 \in 1 .. Len(s) /\ Len(Tail(s)) = Len(s) - 1
        /\ Tail(s) \in Text
    BY HeadAndTail
  <1>1. PICK n \in Nat : n = Len(s) /\ Len(Tail(s)) = n - 1 /\ n >= 1
    <2>1. \A n \in Nat : 1 \in 1 .. n => n >= 1
      OBVIOUS
    <2> QED BY <1>0, <2>1, Zenon
  <1>2. \A i \in 1 .. n - 1 : i + 1 \in 1 .. n /\ Tail(s)[i] = s[i + 1]
    BY <1>1, HeadAndTail
  <1>3. Head(s) = s[1] /\ 1 \in 1 .. n
    BY <1>1, HeadAndTail
  <1>4. Lacks(s, x) => Head(s) # x /\ Lacks(Tail(s), x)
    BY <1>1, <1>2, <1>3 DEF Lacks
  <1>5. ASSUME OnlyLast(s, x), NEW i \in 1 .. n - 1, Tail(s)[i] = x
        PROVE  i = n - 1
    <2>1. i + 1 = n
      BY <1>1, <1>2, <1>5 DEF OnlyLast
    <2> QED BY <2>1
  <1>6. ASSUME OnlyLast(s, x), Head(s) = x
        PROVE  Tail(s) = <<>>
    <2>1. n = 1
      BY <1>1, <1>3, <1>6 DEF OnlyLast
    <2>2. Len(Tail(s)) = 0 /\ Tail(s) \in Text
      BY <1>0, <1>1, <2>1
    <2> QED BY <2>2, EmptySeq DEF Text
  <1>7. OnlyLast(s, x) => OnlyLast(Tail(s), x)
    BY <1>1, <1>5 DEF OnlyLast
  <1> QED BY <1>4, <1>6, <1>7

(* The program's lines.                                                    *)
LEMMA OutsJoin ==
  ASSUME NEW s \in Text, NEW t \in Text
  PROVE  /\ Outs(s) \in Text
         /\ Outs(s \o t) = Outs(s) \o Outs(t)
         /\ Lacks(s, "out") => Outs(s) = <<>>
  <1>1. Outs(s) \in Text /\ Outs(s \o t) = Outs(s) \o Outs(t)
    BY OnlyTyped, OnlyConcat DEF Outs
  <1>2. Lacks(s, "out") => Outs(s) = <<>>
    BY OnlyAbsent DEF Outs, Lacks
  <1> QED BY <1>1, <1>2

(* What is read.                                                           *)
LEMMA AddLine ==
  ASSUME NEW s \in Text, NEW x \in Emu!Line
  PROVE  LET t == Emu!Add(s, x) IN
         /\ t \in Text /\ Len(t) \in Nat /\ Len(t) # 0 /\ t[Len(t)] = x
         /\ Len(s) \in Nat /\ Len(s) <= Len(t)
         /\ \A i \in 1 .. Len(s) : t[i] = s[i]
         /\ \A i \in 1 .. Len(t) : i \in 1 .. Len(s) \/ (i = Len(s) + 1 /\ i = Len(t))
         /\ x # "noise" => t = Append(s, x)
         /\ Outs(t) = Outs(s) \o Outs(<<x>>)
  <1> DEFINE t == Emu!Add(s, x)
  <1>1. Len(s) \in Nat /\ <<x>> \in Text
    BY LenProperties DEF Text
  <1>2. CASE t = Append(s, x)
    <2>1. /\ t \in Text /\ Len(t) = Len(s) + 1 /\ t[Len(s) + 1] = x
          /\ \A i \in 1 .. Len(s) : t[i] = s[i]
      BY <1>2, AppendProperties DEF Text
    <2>2. t = s \o <<x>>
      BY <1>2, AppendIsConcat DEF Text
    <2>3. Outs(t) = Outs(s) \o Outs(<<x>>)
      BY <1>1, <2>2, OutsJoin
    <2> HIDE DEF t
    <2>4. \A i \in 1 .. Len(t) : i \in 1 .. Len(s) \/ (i = Len(s) + 1 /\ i = Len(t))
      BY <1>1, <2>1
    <2>5. Len(t) \in Nat /\ Len(t) # 0 /\ Len(s) <= Len(t)
      BY <1>1, <2>1
    <2> QED BY <1>1, <1>2, <2>1, <2>3, <2>4, <2>5 DEF t
  <1>3. CASE t # Append(s, x)
    <2>1. t = s /\ x = "noise" /\ s # <<>> /\ Emu!Last(s) = "noise"
      BY <1>3 DEF Emu!Add
    <2>2. Len(s) # 0 /\ s[Len(s)] = x
      BY <2>1, EmptySeq DEF Emu!Last, Text
    <2>3. Outs(<<x>>) = <<>>
      <3>1. Lacks(<<x>>, "out")
        BY <2>1 DEF Lacks
      <3> QED BY <1>1, <3>1, OutsJoin
    <2>4. Outs(s) \o <<>> = Outs(s)
      BY OutsJoin, ConcatEmptySeq DEF Text
    <2> HIDE DEF t
    <2>5. t = s /\ x = "noise"
      BY <2>1
    <2>6. Outs(t) = Outs(s) \o Outs(<<x>>)
      BY <2>3, <2>4, <2>5
    <2>7. /\ t \in Text /\ Len(t) \in Nat /\ Len(t) # 0 /\ t[Len(t)] = x
          /\ Len(s) <= Len(t) /\ \A i \in 1 .. Len(s) : t[i] = s[i]
          /\ \A i \in 1 .. Len(t) : i \in 1 .. Len(s)
      BY <1>1, <2>2, <2>5
    <2> QED BY <1>1, <2>5, <2>6, <2>7 DEF t
  <1> QED BY <1>2, <1>3

-----------------------------------------------------------------------------
(* A call, told from what was read (l), what is in the pipe (p), whether   *)
(* READY was found (f) and what the guest does next (g).                   *)
Good(c) == c.fits /\ c.prints \in Text /\ \A i \in 1 .. Len(c.prints) : c.prints[i] \in {"out", "blank"}

(* Until READY is read the program has not run.                            *)
NotFound(g, l, p) ==
  /\ g \in {"boot", "poll", "hung"}
  /\ Lacks(l, "READY") /\ OnlyLast(p, "READY")
  /\ g = "boot" => Lacks(p, "READY")

Found(g, l, p) ==
  /\ g # "boot" /\ Lacks(p, "READY")
  /\ ~Lacks(l, "READY")

(* The program's lines are all there, or none of them is.                  *)
Silent(l, p) == Lacks(l, "out") /\ Lacks(p, "out") /\ Lacks(p, "DONE")
Whole(c, l, p) == Outs(l) \o Outs(p) = Outs(c.prints)
Printed(f, g, c, l, p) ==
  /\ ~f \/ g \in {"command", "run"} => Silent(l, p)
  /\ g = "finish" => Whole(c, l, p)
  /\ ~Lacks(p, "DONE") => Whole(c, l, p) /\ OnlyLast(p, "DONE") /\ g \in {"poll", "hung"}

(* Between READY and the program's lines there is another.                 *)
LateOuts(l) == \A i, j \in 1 .. Len(l) : l[i] = "out" /\ l[j] = "READY" => j + 1 < i
JustReady(l) == \E j \in 1 .. Len(l) : l[j] = "READY" /\ j = Len(l)
Announced(g, l, p) ==
  /\ LateOuts(l)
  /\ JustReady(l) => /\ p # <<>> => p[1] \in {"echo", "noise"}
                     /\ p = <<>> => g \notin {"run", "finish"}

Talk(f, g, c, l, p) ==
  /\ f => Found(g, l, p)
  /\ ~f => NotFound(g, l, p)
  /\ Printed(f, g, c, l, p) /\ Announced(g, l, p)

LEMMA TalkBegins ==
  ASSUME NEW c
  PROVE  Talk(FALSE, "boot", c, <<>>, <<>>)
  <1>1. \A x : Lacks(<<>>, x) /\ OnlyLast(<<>>, x)
    BY DEF Lacks, OnlyLast
  <1>2. LateOuts(<<>>) /\ ~JustReady(<<>>)
    BY DEF LateOuts, JustReady
  <1> QED BY <1>1, <1>2 DEF Talk, NotFound, Printed, Silent, Announced

LEMMA LiteralLines ==
  /\ \A x \in Emu!Line : <<x>> \in Text /\ <<x>> # <<>> /\ <<x>>[1] = x
                         /\ OnlyLast(<<x>>, x) /\ \A y : y # x => Lacks(<<x>>, y)
  /\ \A x, y \in Emu!Line :
       /\ <<x, y>> \in Text /\ <<x, y>> # <<>> /\ <<x, y>>[1] = x
       /\ x # y => OnlyLast(<<x, y>>, y)
       /\ \A z : z # x /\ z # y => Lacks(<<x, y>>, z)
  BY DEF Text, OnlyLast, Lacks

(* The guest prints.                                                       *)
LEMMA TalkBoots ==
  ASSUME NEW f \in BOOLEAN, NEW c, NEW l \in Text, NEW p \in Text, Talk(f, "boot", c, l, p)
  PROVE  Talk(f, "boot", c, l, p \o <<"noise">>)
  <1> DEFINE t == <<"noise">>
  <1>1. t \in Text /\ \A y \in {"READY", "DONE", "out"} : Lacks(t, y)
    BY LiteralLines DEF Emu!Line
  <1> HIDE DEF t
  <1>2. ~f /\ NotFound("boot", l, p) /\ Silent(l, p)
    BY DEF Talk, Found, Printed
  <1>3. \A y \in {"READY", "DONE", "out"} : Lacks(p, y) => Lacks(p \o t, y)
    BY <1>1, JoinLacks
  <1>4. Lacks(p \o t, "READY") /\ Silent(l, p \o t)
    BY <1>2, <1>3 DEF NotFound, Silent
  <1>5. OnlyLast(p \o t, "READY")
    BY <1>4 DEF Lacks, OnlyLast
  <1>6. LateOuts(l) /\ ~JustReady(l)
    BY <1>2 DEF NotFound, Lacks, LateOuts, JustReady
  <1>7. Talk(f, "boot", c, l, p \o t)
    BY <1>2, <1>4, <1>5, <1>6 DEF Talk, NotFound, Printed, Silent, Announced
  <1> QED BY <1>7 DEF t

LEMMA TalkReady ==
  ASSUME NEW f \in BOOLEAN, NEW c, NEW l \in Text, NEW p \in Text, Talk(f, "boot", c, l, p)
  PROVE  Talk(f, "poll", c, l, p \o <<"READY">>)
  <1> DEFINE t == <<"READY">>
  <1>1. t \in Text /\ OnlyLast(t, "READY") /\ \A y \in {"DONE", "out"} : Lacks(t, y)
    BY LiteralLines DEF Emu!Line
  <1> HIDE DEF t
  <1>2. ~f /\ NotFound("boot", l, p) /\ Silent(l, p)
    BY DEF Talk, Found, Printed
  <1>3. \A y \in {"DONE", "out"} : Lacks(p, y) => Lacks(p \o t, y)
    BY <1>1, JoinLacks
  <1>4. OnlyLast(p \o t, "READY") /\ Silent(l, p \o t)
    BY <1>1, <1>2, <1>3, JoinLast DEF NotFound, Silent
  <1>5. LateOuts(l) /\ ~JustReady(l)
    BY <1>2 DEF NotFound, Lacks, LateOuts, JustReady
  <1>6. Talk(f, "poll", c, l, p \o t)
    BY <1>2, <1>4, <1>5 DEF Talk, NotFound, Printed, Silent, Announced
  <1> QED BY <1>6 DEF t

(* The program is announced, or the kernel still writes while it runs.     *)
LEMMA TalkRuns ==
  ASSUME NEW f \in BOOLEAN, NEW g \in {"command", "run"}, NEW c, NEW l \in Text, NEW p \in Text,
         NEW t \in Text, t # <<>>, t[1] \in {"echo", "noise"},
         \A y \in {"READY", "DONE", "out"} : Lacks(t, y), Talk(f, g, c, l, p)
  PROVE  Talk(f, "run", c, l, p \o t)
  <1>1. f /\ Found(g, l, p) /\ Silent(l, p) /\ Announced(g, l, p)
    BY DEF Talk, NotFound, Printed
  <1>2. \A y \in {"READY", "DONE", "out"} : Lacks(p, y) => Lacks(p \o t, y)
    BY JoinLacks
  <1>3. Lacks(p \o t, "READY") /\ Silent(l, p \o t)
    BY <1>1, <1>2 DEF Found, Silent
  <1>4. p \o t # <<>> /\ (JustReady(l) => (p \o t)[1] \in {"echo", "noise"})
    <2>1. CASE p = <<>>
      BY <2>1, JoinFirst
    <2>2. CASE p # <<>>
      BY <1>1, <2>2, JoinFirst DEF Announced
    <2> QED BY <2>1, <2>2
  <1>5. Announced("run", l, p \o t)
    BY <1>1, <1>4 DEF Announced
  <1>6. Found("run", l, p \o t)
    BY <1>1, <1>3 DEF Found
  <1>7. Printed(f, "run", c, l, p \o t)
    BY <1>1, <1>3 DEF Printed, Silent
  <1> QED BY <1>1, <1>5, <1>6, <1>7 DEF Talk

LEMMA GoodLines ==
  ASSUME NEW c, Good(c)
  PROVE  c.prints \in Text /\ \A y \in {"READY", "DONE"} : Lacks(c.prints, y)
  BY DEF Good, Lacks

LEMMA TalkFinishes ==
  ASSUME NEW f \in BOOLEAN, NEW c, NEW l \in Text, NEW p \in Text, Good(c), Talk(f, "run", c, l, p)
  PROVE  Talk(f, "finish", c, l, p \o c.prints)
  <1> DEFINE t == c.prints
  <1>1. t \in Text /\ \A y \in {"READY", "DONE"} : Lacks(t, y)
    BY GoodLines
  <1>2. f /\ Found("run", l, p) /\ Silent(l, p) /\ Announced("run", l, p)
    BY DEF Talk, NotFound, Printed
  <1>3. Whole(c, l, p \o t)
    <2>1. Outs(l) = <<>> /\ Outs(p) = <<>> /\ Outs(p \o t) = Outs(p) \o Outs(t) /\ Outs(t) \in Text
      BY <1>1, <1>2, OutsJoin DEF Silent
    <2>2. <<>> \o Outs(t) = Outs(t)
      BY <2>1, ConcatEmptySeq DEF Text
    <2> QED BY <2>1, <2>2 DEF Whole
  <1> HIDE DEF t
  <1>4. Lacks(p \o t, "READY") /\ Lacks(p \o t, "DONE")
    BY <1>1, <1>2, JoinLacks DEF Found, Silent
  <1>5. Announced("finish", l, p \o t)
    <2>1. CASE p = <<>>
      <3>1. ~JustReady(l)
        BY <1>2, <2>1 DEF Announced
      <3> QED BY <1>2, <3>1 DEF Announced
    <2>2. CASE p # <<>>
      BY <1>1, <1>2, <2>2, JoinFirst DEF Announced
    <2> QED BY <2>1, <2>2
  <1>6. Talk(f, "finish", c, l, p \o t)
    BY <1>2, <1>3, <1>4, <1>5 DEF Talk, Found, Printed
  <1> QED BY <1>6 DEF t

LEMMA TalkDone ==
  ASSUME NEW f \in BOOLEAN, NEW c, NEW l \in Text, NEW p \in Text, Talk(f, "finish", c, l, p)
  PROVE  Talk(f, "poll", c, l, p \o <<"blank", "DONE">>)
  <1> DEFINE t == <<"blank", "DONE">>
  <1>1. t \in Text /\ OnlyLast(t, "DONE") /\ Lacks(t, "READY") /\ Lacks(t, "out")
    BY LiteralLines DEF Emu!Line
  <1> HIDE DEF t
  <1>2. f /\ Found("finish", l, p) /\ Whole(c, l, p) /\ Announced("finish", l, p) /\ Lacks(p, "DONE")
    BY DEF Talk, NotFound, Printed
  <1>3. Whole(c, l, p \o t)
    <2>1. Outs(t) = <<>> /\ Outs(p \o t) = Outs(p) \o Outs(t) /\ Outs(p) \in Text
      BY <1>1, OutsJoin
    <2>2. Outs(p) \o <<>> = Outs(p)
      BY <2>1, ConcatEmptySeq DEF Text
    <2> QED BY <1>2, <2>1, <2>2 DEF Whole
  <1>4. Lacks(p \o t, "READY") /\ OnlyLast(p \o t, "DONE")
    BY <1>1, <1>2, JoinLacks, JoinLast DEF Found
  <1>5. Announced("poll", l, p \o t)
    <2>1. CASE p = <<>>
      <3>1. ~JustReady(l)
        BY <1>2, <2>1 DEF Announced
      <3> QED BY <1>2, <3>1 DEF Announced
    <2>2. CASE p # <<>>
      BY <1>1, <1>2, <2>2, JoinFirst DEF Announced
    <2> QED BY <2>1, <2>2
  <1>6. Talk(f, "poll", c, l, p \o t)
    BY <1>2, <1>3, <1>4, <1>5 DEF Talk, Found, Printed
  <1> QED BY <1>6 DEF t

LEMMA TalkHangs ==
  ASSUME NEW f, NEW g, NEW c, NEW l, NEW p, Talk(f, g, c, l, p)
  PROVE  Talk(f, "hung", c, l, p)
  BY DEF Talk, NotFound, Found, Printed, Announced

LEMMA TextAssociative ==
  ASSUME NEW s \in Text, NEW t \in Text, NEW u \in Text
  PROVE  (s \o t) \o u = s \o (t \o u)
  BY ConcatAssociative DEF Text

(* The host reads a line.                                                  *)
LEMMA TalkReads ==
  ASSUME NEW f \in BOOLEAN, NEW g, NEW c, NEW l \in Text, NEW p \in Text, p # <<>>,
         c.prints \in Text, Head(p) # "DONE", Head(p) = "READY" => f, Talk(f, g, c, l, p)
  PROVE  Talk(f, g, c, Emu!Add(l, Head(p)), Tail(p))
  <1>0. /\ Head(p) \in Emu!Line /\ Tail(p) \in Text /\ Head(p) = p[1]
        /\ <<Head(p)>> \in Text /\ p = <<Head(p)>> \o Tail(p)
    BY HeadAndTail
  <1> DEFINE x == Head(p)
             q == Tail(p)
             m == Emu!Add(l, x)
  <1>1. /\ m \in Text /\ Len(m) \in Nat /\ Len(m) # 0 /\ m[Len(m)] = x
        /\ Len(l) \in Nat /\ Len(l) <= Len(m)
        /\ \A i \in 1 .. Len(l) : m[i] = l[i]
        /\ \A i \in 1 .. Len(m) : i \in 1 .. Len(l) \/ (i = Len(l) + 1 /\ i = Len(m))
        /\ Outs(m) = Outs(l) \o Outs(<<x>>)
    BY <1>0, AddLine
  <1>2. /\ \A y : Lacks(p, y) => x # y /\ Lacks(q, y)
        /\ \A y : OnlyLast(p, y) => OnlyLast(q, y)
    BY TailLacks
  <1> HIDE DEF x, q, m
  <1>3. \A y : Lacks(l, y) /\ x # y => Lacks(m, y)
    BY <1>1 DEF Lacks
  <1>4. x # "READY"
    BY <1>2, <1>0 DEF Talk, Found, x
  <1>5. f => Found(g, m, q)
    <2>1. ~Lacks(l, "READY") => ~Lacks(m, "READY")
      BY <1>1 DEF Lacks
    <2> QED BY <1>2, <2>1 DEF Talk, Found
  <1>6. ~f => NotFound(g, m, q)
    BY <1>2, <1>3, <1>4 DEF Talk, NotFound
  <1>7. Silent(l, p) => Silent(m, q)
    BY <1>2, <1>3 DEF Silent
  <1>8. Whole(c, l, p) => Whole(c, m, q)
    <2>1. /\ Outs(p) = Outs(<<x>>) \o Outs(q) /\ Outs(l) \in Text /\ Outs(<<x>>) \in Text
          /\ Outs(q) \in Text
      BY <1>0, OutsJoin DEF x, q
    <2>2. (Outs(l) \o Outs(<<x>>)) \o Outs(q) = Outs(l) \o (Outs(<<x>>) \o Outs(q))
      BY <2>1, TextAssociative
    <2> QED BY <1>1, <2>1, <2>2 DEF Whole
  <1>9. Printed(f, g, c, m, q)
    BY <1>2, <1>7, <1>8 DEF Talk, Printed
  <1>10. ~JustReady(m)
    BY <1>1, <1>4 DEF JustReady
  <1>11. LateOuts(m)
    <2>1. LateOuts(l) /\ (JustReady(l) => x # "out")
      BY <1>0 DEF Talk, Announced, x
    <2> SUFFICES ASSUME NEW i \in 1 .. Len(m), NEW j \in 1 .. Len(m), m[i] = "out", m[j] = "READY"
                 PROVE  j + 1 < i
      BY DEF LateOuts
    <2>2. j \in 1 .. Len(l) /\ l[j] = "READY"
      BY <1>1, <1>4
    <2>3. CASE i \in 1 .. Len(l)
      BY <1>1, <2>1, <2>2, <2>3 DEF LateOuts
    <2>4. CASE i = Len(l) + 1 /\ i = Len(m)
      <3>1. x = "out"
        BY <1>1, <2>4
      <3>2. ~JustReady(l)
        BY <2>1, <3>1
      <3>3. j # Len(l)
        BY <2>2, <3>2 DEF JustReady
      <3> QED BY <1>1, <2>2, <2>4, <3>3
    <2> QED BY <1>1, <2>3, <2>4
  <1>12. Announced(g, m, q)
    BY <1>10, <1>11 DEF Announced
  <1>13. Talk(f, g, c, m, q)
    BY <1>5, <1>6, <1>9, <1>12 DEF Talk
  <1> QED BY <1>13 DEF m, q, x

(* It finds READY, and writes the command if the guest waits for one.      *)
LEMMA TalkFinds ==
  ASSUME NEW g, NEW c, NEW l \in Text, NEW p \in Text, p # <<>>, Head(p) = "READY",
         Talk(FALSE, g, c, l, p)
  PROVE  Talk(TRUE, IF g = "poll" THEN "command" ELSE g, c, Emu!Add(l, Head(p)), Tail(p))
  <1> DEFINE h == IF g = "poll" THEN "command" ELSE g
             m == Emu!Add(l, "READY")
  <1>1. /\ m \in Text /\ Len(m) \in Nat /\ Len(m) # 0 /\ m[Len(m)] = "READY"
        /\ Len(l) \in Nat
        /\ \A i \in 1 .. Len(l) : m[i] = l[i]
        /\ \A i \in 1 .. Len(m) : i \in 1 .. Len(l) \/ (i = Len(l) + 1 /\ i = Len(m))
    <2>1. "READY" \in Emu!Line
      BY DEF Emu!Line
    <2> QED BY <2>1, AddLine
  <1> HIDE DEF m
  <1>2. NotFound(g, l, p) /\ Silent(l, p)
    BY DEF Talk, Printed
  <1>3. Tail(p) = <<>> /\ g # "boot"
    BY <1>2, TailLacks DEF NotFound
  <1>4. h \in {"command", "hung"}
    BY <1>2, <1>3 DEF NotFound
  <1> HIDE DEF h
  <1>5. Lacks(m, "out")
    BY <1>1, <1>2 DEF Silent, Lacks
  <1>6. ~Lacks(m, "READY")
    BY <1>1 DEF Lacks
  <1>7. LateOuts(m)
    BY <1>5 DEF Lacks, LateOuts
  <1>8. \A x : Lacks(<<>>, x)
    BY DEF Lacks
  <1>9. Talk(TRUE, h, c, m, <<>>)
    BY <1>4, <1>5, <1>6, <1>7, <1>8 DEF Talk, Found, Printed, Silent, Announced
  <1> QED BY <1>3, <1>9 DEF m, h

(* DONE: the lines after READY and the one that follows it are the result. *)
LEMMA TalkEnds ==
  ASSUME NEW f \in BOOLEAN, NEW g, NEW c, NEW l \in Text, NEW p \in Text, p # <<>>, Head(p) = "DONE",
         Lacks(l, "DONE"), Talk(f, g, c, l, p)
  PROVE  Outs(Emu!Extract(Append(l, "DONE"))) = Outs(c.prints)
  <1> DEFINE m == Append(l, "DONE")
             N == Len(l)
  <1>1. /\ m \in Text /\ Len(m) = N + 1 /\ m[N + 1] = "DONE" /\ N \in Nat
        /\ \A i \in 1 .. N : m[i] = l[i]
    <2>1. "DONE" \in Emu!Line
      BY DEF Emu!Line
    <2> QED BY <2>1, AppendProperties, LenProperties DEF Text
  <1> HIDE DEF m
  <1>2. ~Lacks(p, "DONE")
    BY TailLacks
  <1>3. f /\ Found(g, l, p) /\ Whole(c, l, p) /\ OnlyLast(p, "DONE") /\ LateOuts(l)
    BY <1>2 DEF Talk, Printed, Silent, Announced
  <1>4. Outs(l) = Outs(c.prints)
    <2>1. Tail(p) = <<>> /\ <<Head(p)>> \in Text /\ p = <<Head(p)>> \o Tail(p)
      BY <1>3, TailLacks, HeadAndTail
    <2>2. p = <<"DONE">>
      BY <2>1, ConcatEmptySeq DEF Text
    <2>3. Lacks(p, "out")
      BY <2>2 DEF Lacks
    <2>4. Outs(p) = <<>> /\ Outs(l) \in Text
      BY <2>3, OutsJoin
    <2>5. Outs(l) \o <<>> = Outs(l)
      BY <2>4, ConcatEmptySeq DEF Text
    <2> QED BY <1>3, <2>4, <2>5 DEF Whole
  <1>5. PICK r \in 1 .. N : m[r] = "READY" /\ Emu!Extract(m) = Emu!NonBlank(SubSeq(m, r + 2, N))
    <2> DEFINE R == {i \in 1 .. Len(m) : m[i] = "READY"}
               D == {i \in 1 .. Len(m) : m[i] = "DONE"}
    <2>1. D = {N + 1}
      BY <1>1 DEF Lacks
    <2>2. R # {} /\ R \subseteq 1 .. N
      <3>1. PICK j \in 1 .. N : l[j] = "READY"
        BY <1>3 DEF Found, Lacks
      <3>2. j \in R
        BY <1>1, <3>1
      <3>3. R \subseteq 1 .. N
        BY <1>1
      <3> QED BY <3>2, <3>3
    <2>3. PICK r \in R : \A k \in R : r <= k
      <3>1. R \subseteq Nat
        BY <1>1, <2>2
      <3> HIDE DEF R
      <3> QED BY <2>2, <3>1, Least
    <2>4. Emu!Min(R) = r /\ Emu!Min(D) = N + 1
      <3>1. \A x \in R : (\A k \in R : x <= k) => x = r
        BY <1>1, <2>2, <2>3
      <3>2. Emu!Min(R) = r
        BY <2>3, <3>1 DEF Emu!Min
      <3>3. Emu!Min(D) = N + 1
        BY <1>1, <2>1 DEF Emu!Min
      <3> QED BY <3>2, <3>3
    <2>5. /\ Emu!SelectInSeq(m, LAMBDA x : x = "READY") = r
          /\ Emu!SelectInSeq(m, LAMBDA x : x = "DONE") = N + 1
      BY <2>1, <2>2, <2>4 DEF Emu!SelectInSeq
    <2>6. r # 0 /\ (r + 1) + 1 = r + 2 /\ (N + 1) - 1 = N /\ r \in 1 .. N /\ m[r] = "READY"
      BY <1>1, <2>2
    <2>7. Emu!Extract(m) = Emu!NonBlank(SubSeq(m, r + 2, N))
      BY <2>5, <2>6 DEF Emu!Extract, Emu!Between
    <2> QED BY <2>6, <2>7
  <1> DEFINE a == IF r = N THEN N ELSE r + 1
             t == SubSeq(m, r + 2, N)
             u == SubSeq(l, 1, a)
             v == SubSeq(l, a + 1, N)
  <1>6. /\ u \in Text /\ v \in Text /\ u \o v = l /\ Lacks(u, "out") /\ t = v
    <2>1. a \in 1 .. N /\ a + 1 >= 1 /\ N >= 1
      BY <1>1, <1>5
    <2>2. \A i \in 1 .. N : l[i] \in Emu!Line
      BY <1>1, ElementOfSeq DEF Text
    <2>3. u \in Text /\ Len(u) = a /\ \A i \in 1 .. a : u[i] = l[i]
      <3>1. \A i \in 1 .. a : l[i] \in Emu!Line
        BY <1>1, <2>1, <2>2
      <3>2. /\ SubSeq(l, 1, a) \in Seq(Emu!Line)
            /\ Len(SubSeq(l, 1, a)) = IF 1 <= a THEN (a - 1) + 1 ELSE 0
            /\ \A i \in 1 .. (a - 1) + 1 : SubSeq(l, 1, a)[i] = l[(1 + i) - 1]
        BY <1>1, <2>1, <3>1, SubSeqProperties
      <3>3. (a - 1) + 1 = a /\ 1 <= a
        BY <1>1, <2>1
      <3>4. \A i \in 1 .. a : (1 + i) - 1 = i
        OBVIOUS
      <3> HIDE DEF a
      <3> QED BY <3>2, <3>3, <3>4 DEF Text
    <2>4. u \o v = l
      <3>1. 1 \in 1 .. N + 1 /\ a \in 1 - 1 .. N /\ N \in a .. N
        BY <1>1, <2>1
      <3>2. u \o v = SubSeq(l, 1, N)
        BY <3>1, ConcatAdjacentSubSeq DEF Text
      <3> QED BY <3>2, SubSeqFull DEF Text
    <2>5. Lacks(u, "out")
      <3>1. l[r] = "READY"
        BY <1>1, <1>5
      <3>2. ASSUME NEW i \in 1 .. a PROVE l[i] # "out"
        <4>1. i \in 1 .. N /\ ~(r + 1 < i)
          BY <1>1, <1>5, <2>1
        <4> QED BY <1>3, <1>5, <3>1, <4>1 DEF LateOuts
      <3> QED BY <2>3, <3>2 DEF Lacks
    <2>6. v \in Text /\ t = v
      <3>1. CASE r = N
        <4>1. v = SubSeq(l, N + 1, N) /\ t = SubSeq(m, N + 2, N)
          BY <3>1
        <4>2. SubSeq(l, N + 1, N) = <<>> /\ SubSeq(m, N + 2, N) = <<>>
          <5>1. N + 1 \in Int /\ N + 2 \in Int /\ N \in Int /\ N < N + 1 /\ N < N + 2
            BY <1>1
          <5> HIDE DEF N
          <5> QED BY <5>1, SubSeqEmpty
        <4>3. <<>> \in Text
          BY DEF Text
        <4> HIDE DEF t, v
        <4> QED BY <4>1, <4>2, <4>3
      <3>2. CASE r # N
        <4>1. a + 1 = r + 2 /\ r + 2 \in Nat
          BY <1>1, <1>5, <3>2
        <4>2. PICK b \in Nat : b = r + 2 /\ b >= 1
          BY <4>1
        <4>3. \A i \in b .. N : l[i] \in Emu!Line /\ m[i] \in Emu!Line /\ m[i] = l[i]
          BY <1>1, <2>2, <4>2
        <4>4. /\ SubSeq(l, b, N) \in Text /\ SubSeq(m, b, N) \in Text
              /\ Len(SubSeq(l, b, N)) = Len(SubSeq(m, b, N))
              /\ Len(SubSeq(l, b, N)) = IF b <= N THEN (N - b) + 1 ELSE 0
              /\ \A i \in 1 .. (N - b) + 1 :
                   SubSeq(l, b, N)[i] = l[(b + i) - 1] /\ SubSeq(m, b, N)[i] = m[(b + i) - 1]
          BY <1>1, <4>3, SubSeqProperties DEF Text
        <4>5. \A i \in 1 .. Len(SubSeq(l, b, N)) :
                 i \in 1 .. (N - b) + 1 /\ (b + i) - 1 \in b .. N
          BY <1>1, <4>4
        <4>6. \A i \in 1 .. Len(SubSeq(l, b, N)) : SubSeq(l, b, N)[i] = SubSeq(m, b, N)[i]
          BY <4>3, <4>4, <4>5
        <4>7. SubSeq(l, b, N) = SubSeq(m, b, N)
          BY <4>4, <4>6, SeqEqual DEF Text
        <4> QED BY <4>1, <4>2, <4>4, <4>7
      <3> QED BY <3>1, <3>2
    <2> QED BY <2>3, <2>4, <2>5, <2>6
  <1>7. Outs(Emu!NonBlank(v)) = Outs(v)
    <2>1. {"out"} \subseteq Emu!Line \ {"blank"}
      BY DEF Emu!Line
    <2> QED BY <1>6, <2>1, OnlyTwice DEF Outs, Emu!NonBlank
  <1>8. Outs(l) = Outs(v)
    <2>1. Outs(u) = <<>> /\ Outs(u \o v) = Outs(u) \o Outs(v) /\ Outs(v) \in Text
      BY <1>6, OutsJoin
    <2>2. <<>> \o Outs(v) = Outs(v)
      BY <2>1, ConcatEmptySeq DEF Text
    <2> QED BY <1>6, <2>1, <2>2
  <1>9. Emu!Extract(m) = Emu!NonBlank(v)
    BY <1>5, <1>6
  <1> HIDE DEF u, v, t, a
  <1> QED BY <1>4, <1>7, <1>8, <1>9 DEF m

-----------------------------------------------------------------------------
(* QEMU, its backend and the guest.                                        *)
EmuTyped ==
  /\ up \in BOOLEAN /\ kind \in {"none", "cpu", "gpu"} /\ vbios \in BOOLEAN
  /\ process \in {"none", "running", "dead", "reaped"}
  /\ orphans \subseteq {"dead"} /\ gpu \in BOOLEAN /\ bound \in BOOLEAN
  /\ at \in {"idle", "reading"} /\ overdue \in BOOLEAN /\ found \in BOOLEAN
  /\ outcome.how \in {"none", "uninitialized", "spawn", "late", "write", "silent", "done", "end"}
  /\ console \in {"boot", "poll", "command", "run", "finish", "hung"}

EmuLines ==
  /\ code \in Emu!Code
  /\ lines \in Text /\ pipe \in Text /\ Lacks(lines, "DONE")
  /\ Len(pipe) <= PipeMax + Len(code.prints) + 3

(* Between calls no QEMU runs, and what was local to try_exec is gone.     *)
EmuRest ==
  at = "idle" => /\ process # "running" /\ console = "boot"
                 /\ lines = <<>> /\ pipe = <<>> /\ found = FALSE /\ overdue = FALSE

EmuTalk == at = "reading" /\ Good(code) => Talk(found, console, code, lines, pipe)

EmuKept ==
  at = "idle" /\ outcome.how = "done" /\ Good(code) => Outs(outcome.lines) = Outs(code.prints)

EmuInv == EmuTyped /\ EmuLines /\ EmuRest /\ EmuTalk /\ EmuKept

LEMMA CodeTyped ==
  /\ PipeMax \in Nat
  /\ \A c \in Emu!Code : c.prints \in Text /\ Len(c.prints) \in Nat
  <1>1. PipeMax \in Nat /\ Programs \subseteq Seq({"out", "blank", "bye", "DONE"})
    BY Assumptions DEF Emu!QemuAssumption
  <1>2. ASSUME NEW s \in Seq({"out", "blank", "bye", "DONE"}) PROVE s \in Text
    BY SeqMonotonic DEF Text, Emu!Line
  <1>3. <<>> \in Text
    BY DEF Text
  <1>4. ASSUME NEW c \in Emu!Code PROVE c.prints \in Text
    <2>1. CASE c \in [prints : Programs, fits : {TRUE}, ends : {TRUE}]
      <3>1. c.prints \in Programs
        BY <2>1
      <3> QED BY <1>1, <1>2, <3>1
    <2>2. CASE c \in {Emu!TooLong, Emu!Endless}
      <3>1. c.prints = <<>>
        BY <2>2 DEF Emu!TooLong, Emu!Endless
      <3> QED BY <1>3, <3>1
    <2> QED BY <2>1, <2>2 DEF Emu!Code
  <1>5. \A s \in Text : Len(s) \in Nat
    BY LenProperties DEF Text
  <1> QED BY <1>1, <1>4, <1>5

LEMMA EmuBegins == Emu!Init => EmuInv
  <1> SUFFICES ASSUME Emu!Init PROVE EmuInv
    OBVIOUS
  <1>1. /\ code = Emu!TooLong /\ lines = <<>> /\ pipe = <<>> /\ outcome = Emu!Nothing
        /\ up = FALSE /\ kind = "none" /\ vbios = FALSE /\ process = "none" /\ orphans = {}
        /\ gpu = FALSE /\ bound \in BOOLEAN /\ at = "idle" /\ overdue = FALSE /\ found = FALSE
        /\ console = "boot"
    BY DEF Emu!Init
  <1>2. code \in Emu!Code
    BY <1>1 DEF Emu!Code
  <1>3. <<>> \in Text /\ Lacks(<<>>, "DONE") /\ Len(<<>>) = 0
    BY DEF Text, Lacks
  <1>4. Len(pipe) <= PipeMax + Len(code.prints) + 3
    BY <1>1, <1>2, <1>3, CodeTyped
  <1>5. outcome.how = "none"
    BY <1>1 DEF Emu!Nothing
  <1>6. EmuTyped
    BY <1>1, <1>5 DEF EmuTyped
  <1>7. EmuLines
    BY <1>1, <1>2, <1>3, <1>4 DEF EmuLines
  <1> QED BY <1>1, <1>5, <1>6, <1>7 DEF EmuInv, EmuRest, EmuTalk, EmuKept

(* Every way a call ends.                                                  *)
LEMMA EmuReturns ==
  ASSUME EmuInv, NEW how, NEW result, Emu!Return(how, result),
         how \in {"uninitialized", "spawn", "late", "write", "silent", "done", "end"},
         process' \in {"none", "dead", "reaped"},
         how = "done" /\ Good(code) => Outs(result) = Outs(code.prints)
  PROVE  EmuInv'
  <1>1. /\ at' = "idle" /\ outcome' = [how |-> how, lines |-> result] /\ overdue' = FALSE
        /\ lines' = <<>> /\ found' = FALSE /\ pipe' = <<>> /\ console' = "boot"
        /\ UNCHANGED <<up, kind, vbios, bound, code, orphans, gpu>>
    BY DEF Emu!Return, Emu!backend
  <1>2. outcome'.how = how /\ outcome'.lines = result
    BY <1>1
  <1>3. <<>> \in Text /\ Lacks(<<>>, "DONE") /\ Len(<<>>) = 0
    BY DEF Text, Lacks
  <1>4. EmuTyped'
    BY <1>1, <1>2 DEF EmuInv, EmuTyped
  <1>5. code' = code /\ code \in Emu!Code
    BY <1>1 DEF EmuInv, EmuLines
  <1>6. 0 <= PipeMax + Len(code.prints) + 3
    BY <1>5, CodeTyped
  <1>7. EmuLines'
    BY <1>1, <1>3, <1>5, <1>6 DEF EmuLines, Lacks
  <1>8. EmuRest'
    BY <1>1 DEF EmuRest
  <1>9. EmuTalk'
    BY <1>1 DEF EmuTalk
  <1>10. EmuKept'
    <2>1. Good(code)' = Good(code) /\ Outs(code.prints)' = Outs(code.prints)
      BY <1>5 DEF Good, Outs
    <2>2. Outs(outcome.lines)' = Outs(result)
      BY <1>2 DEF Outs
    <2> QED BY <1>2, <2>1, <2>2 DEF EmuKept
  <1> QED BY <1>4, <1>7, <1>8, <1>9, <1>10 DEF EmuInv

(* A step between calls, or one of the clock or of the process.            *)
LEMMA EmuKeepsTalk ==
  ASSUME EmuInv, EmuTyped', EmuRest', UNCHANGED <<at, code, lines, found, outcome, pipe>>,
         console' = console \/ console' = "hung"
  PROVE  EmuInv'
  <1>1. EmuLines'
    BY DEF EmuInv, EmuLines, Lacks
  <1>2. Good(code)' = Good(code) /\ Outs(code.prints)' = Outs(code.prints)
        /\ Outs(outcome.lines)' = Outs(outcome.lines)
    BY DEF Good, Outs
  <1>3. EmuKept'
    BY <1>2 DEF EmuInv, EmuKept
  <1>4. EmuTalk'
    <2> SUFFICES ASSUME at = "reading", Good(code)
                 PROVE  Talk(found', console', code', lines', pipe')
      BY <1>2 DEF EmuTalk, Talk, Found, NotFound, Printed, Announced, LateOuts, JustReady,
                  Silent, Whole, Outs, Lacks, OnlyLast
    <2>1. Talk(found, console, code, lines, pipe)
      BY DEF EmuInv, EmuTalk
    <2> QED BY <2>1, TalkHangs
  <1> QED BY <1>1, <1>3, <1>4 DEF EmuInv

LEMMA EmuIdles ==
  ASSUME EmuInv,
         \/ \E v \in {"cpu", "gpu"}, rom \in BOOLEAN : Emu!InitBackend(v, rom) \/ Emu!InitFails(v)
         \/ Emu!TimePasses \/ Emu!Reset \/ Emu!Destroy \/ Emu!Drop \/ Emu!Hangs \/ Emu!Dies
  PROVE  EmuInv'
  <1>1. /\ UNCHANGED <<at, code, lines, found, outcome, pipe, orphans, gpu>>
        /\ console' = console \/ console' = "hung"
    BY DEF Emu!InitBackend, Emu!InitFails, Emu!TimePasses, Emu!Reset, Emu!Destroy, Emu!Drop, Emu!Hangs,
       Emu!Dies, Emu!call, Emu!vm, Emu!process, Emu!backend
  <1>2. /\ up' \in BOOLEAN /\ kind' \in {"none", "cpu", "gpu"} /\ vbios' \in BOOLEAN
        /\ bound' \in BOOLEAN /\ overdue' \in BOOLEAN
    BY DEF EmuInv, EmuTyped, Emu!EnsureDmaMask,
       Emu!InitBackend, Emu!InitFails, Emu!TimePasses, Emu!Reset, Emu!Destroy, Emu!Drop, Emu!Hangs,
       Emu!Dies, Emu!call, Emu!vm, Emu!process, Emu!backend
  <1>3. /\ process' \in {process, "none", "dead"}
        /\ at = "idle" => console' = console /\ overdue' = overdue
    BY DEF EmuInv, EmuRest, Emu!Running,
       Emu!InitBackend, Emu!InitFails, Emu!TimePasses, Emu!Reset, Emu!Destroy, Emu!Drop, Emu!Hangs,
       Emu!Dies, Emu!call, Emu!vm, Emu!process, Emu!backend
  <1>4. EmuTyped'
    BY <1>1, <1>2, <1>3 DEF EmuInv, EmuTyped
  <1>5. EmuRest'
    BY <1>1, <1>3 DEF EmuInv, EmuRest
  <1> QED BY <1>1, <1>4, <1>5, EmuKeepsTalk

LEMMA EmuSpawns ==
  ASSUME EmuInv, NEW c \in Emu!Code, Emu!Spawn(c)
  PROVE  EmuInv'
  <1>1. /\ at = "idle" /\ at' = "reading" /\ code' = c /\ outcome' = Emu!Nothing
        /\ process' = "running" /\ gpu' = vbios
        /\ orphans' = orphans \cup ({process} \cap {"running", "dead"})
        /\ UNCHANGED <<up, kind, vbios, bound, overdue, lines, found, console, pipe>>
    BY DEF Emu!Spawn, Emu!backend
  <1>2. /\ process # "running" /\ console = "boot" /\ lines = <<>> /\ pipe = <<>> /\ found = FALSE
    BY <1>1 DEF EmuInv, EmuRest
  <1>3. outcome'.how = "none"
    BY <1>1 DEF Emu!Nothing
  <1>4. EmuTyped'
    BY <1>1, <1>2, <1>3 DEF EmuInv, EmuTyped
  <1>5. <<>> \in Text /\ Lacks(<<>>, "DONE") /\ Len(<<>>) = 0
    BY DEF Text, Lacks
  <1>6. 0 <= PipeMax + Len(c.prints) + 3
    BY CodeTyped
  <1>7. EmuLines'
    BY <1>1, <1>2, <1>5, <1>6 DEF EmuLines, Lacks
  <1>8. EmuTalk'
    <2>1. Talk(FALSE, "boot", c, <<>>, <<>>)
      BY TalkBegins
    <2>2. found' = FALSE /\ console' = "boot" /\ code' = c /\ lines' = <<>> /\ pipe' = <<>>
      BY <1>1, <1>2
    <2>3. Talk(found', console', code', lines', pipe')
      BY <2>1, <2>2
    <2> QED BY <2>3 DEF EmuTalk, Talk, Found, NotFound, Printed, Announced, LateOuts, JustReady,
                  Silent, Whole, Outs, Lacks, OnlyLast
  <1> QED BY <1>1, <1>4, <1>7, <1>8 DEF EmuInv, EmuRest, EmuKept

LEMMA EmuReads ==
  ASSUME EmuInv, Emu!ReadReady \/ Emu!ReadOther
  PROVE  EmuInv'
  <1>1. /\ at = "reading" /\ pipe # <<>>
        /\ pipe' = Tail(pipe) /\ lines' = Emu!Add(lines, Head(pipe))
        /\ UNCHANGED <<up, kind, vbios, bound, at, code, overdue, outcome, process, orphans, gpu>>
    BY DEF Emu!ReadReady, Emu!ReadOther, Emu!InTime, Emu!ReadOn, Emu!backend, Emu!process
  <1>2. /\ Head(pipe) # "DONE"
        /\ \/ Head(pipe) = "READY" /\ ~found /\ found' = TRUE
              /\ console' = IF console = "poll" THEN "command" ELSE console
           \/ (Head(pipe) = "READY" => found) /\ found' = found /\ console' = console
    BY DEF Emu!ReadReady, Emu!ReadOther, Emu!InTime, Emu!Line
  <1>3. EmuTyped'
    <2>1. found' \in BOOLEAN /\ console' \in {"boot", "poll", "command", "run", "finish", "hung"}
      BY <1>2 DEF EmuInv, EmuTyped
    <2> QED BY <1>1, <2>1 DEF EmuInv, EmuTyped
  <1>4. /\ lines \in Text /\ pipe \in Text /\ code \in Emu!Code /\ Lacks(lines, "DONE")
        /\ Len(pipe) <= PipeMax + Len(code.prints) + 3 /\ found \in BOOLEAN
    BY DEF EmuInv, EmuLines, EmuTyped
  <1>5. /\ Head(pipe) \in Emu!Line /\ Tail(pipe) \in Text /\ Len(pipe) \in Nat
        /\ Len(Tail(pipe)) = Len(pipe) - 1
    BY <1>1, <1>4, HeadAndTail
  <1>6. code.prints \in Text /\ Len(code.prints) \in Nat /\ PipeMax \in Nat
    BY <1>4, CodeTyped
  <1>7. EmuLines'
    <2>1. lines' \in Text /\ Lacks(lines', "DONE")
      <3> DEFINE m == Emu!Add(lines, Head(pipe))
      <3>1. /\ m \in Text /\ Len(m) \in Nat /\ Len(m) # 0 /\ m[Len(m)] = Head(pipe)
            /\ \A i \in 1 .. Len(lines) : m[i] = lines[i]
            /\ \A i \in 1 .. Len(m) : i \in 1 .. Len(lines) \/ (i = Len(lines) + 1 /\ i = Len(m))
        BY <1>4, <1>5, AddLine
      <3> HIDE DEF m
      <3>2. Lacks(m, "DONE")
        BY <1>2, <1>4, <3>1 DEF Lacks
      <3> QED BY <1>1, <3>1, <3>2 DEF m
    <2>2. pipe' \in Text /\ Len(pipe') <= PipeMax + Len(code.prints) + 3
      BY <1>1, <1>4, <1>5, <1>6
    <2> QED BY <1>1, <1>4, <2>1, <2>2 DEF EmuLines, Lacks
  <1>8. EmuTalk'
    <2> SUFFICES ASSUME Good(code) PROVE Talk(found', console', code', lines', pipe')
      BY <1>1 DEF EmuTalk, Good, Talk, Found, NotFound, Printed, Announced, LateOuts, JustReady,
                  Silent, Whole, Outs, Lacks, OnlyLast
    <2>1. Talk(found, console, code, lines, pipe)
      BY <1>1 DEF EmuInv, EmuTalk
    <2>2. CASE Head(pipe) = "READY" /\ ~found /\ found' = TRUE
               /\ console' = IF console = "poll" THEN "command" ELSE console
      <3>1. Talk(FALSE, console, code, lines, pipe)
        BY <1>4, <2>1, <2>2
      <3>2. Talk(TRUE, IF console = "poll" THEN "command" ELSE console, code,
                 Emu!Add(lines, Head(pipe)), Tail(pipe))
        BY <1>1, <1>4, <2>2, <3>1, TalkFinds
      <3> QED BY <1>1, <2>2, <3>2
    <2>3. CASE (Head(pipe) = "READY" => found) /\ found' = found /\ console' = console
      <3>1. Talk(found, console, code, Emu!Add(lines, Head(pipe)), Tail(pipe))
        BY <1>1, <1>2, <1>4, <1>6, <2>1, <2>3, TalkReads
      <3> QED BY <1>1, <2>3, <3>1
    <2> QED BY <1>2, <2>2, <2>3
  <1>9. EmuRest' /\ EmuKept'
    BY <1>1 DEF EmuRest, EmuKept
  <1> QED BY <1>3, <1>7, <1>8, <1>9 DEF EmuInv

(* A call that ends.                                                       *)
LEMMA EmuEnds ==
  ASSUME EmuInv,
         Emu!ExecFails \/ Emu!TooLate \/ Emu!WriteFails \/ Emu!ReadDone \/ Emu!ReadBye \/ Emu!ReadEof
  PROVE  EmuInv'
  <1>1. CASE Emu!ExecFails
    <2>1. /\ process' \in {"none", "dead", "reaped"}
          /\ Emu!Return("uninitialized", <<>>) \/ Emu!Return("spawn", <<>>)
      BY <1>1 DEF Emu!ExecFails, EmuInv, EmuRest, EmuTyped
    <2> QED BY <2>1, EmuReturns
  <1>2. CASE Emu!TooLate
    <2>1. process' = "reaped" /\ Emu!Return("late", <<>>)
      BY <1>2 DEF Emu!TooLate, Emu!Kill
    <2> QED BY <2>1, EmuReturns
  <1>3. CASE Emu!WriteFails
    <2>1. process' = "dead" /\ Emu!Return("write", <<>>)
      BY <1>3 DEF Emu!WriteFails
    <2> QED BY <2>1, EmuReturns
  <1>4. CASE Emu!ReadBye \/ Emu!ReadEof
    <2>1. /\ process' = "reaped"
          /\ Emu!Return("silent", <<>>) \/ \E all : Emu!Return("end", all)
      BY <1>4 DEF Emu!ReadBye, Emu!ReadEof, Emu!Ended, Emu!Kill
    <2> QED BY <2>1, EmuReturns
  <1>5. CASE Emu!ReadDone
    <2>1. /\ process' = "reaped" /\ Emu!Return("done", Emu!Extract(Append(lines, "DONE")))
          /\ at = "reading" /\ pipe # <<>> /\ Head(pipe) = "DONE"
      BY <1>5 DEF Emu!ReadDone, Emu!InTime, Emu!Kill
    <2>2. Good(code) => Outs(Emu!Extract(Append(lines, "DONE"))) = Outs(code.prints)
      <3>1. Good(code) => Talk(found, console, code, lines, pipe)
        BY <2>1 DEF EmuInv, EmuTalk
      <3>2. found \in BOOLEAN /\ lines \in Text /\ pipe \in Text /\ Lacks(lines, "DONE")
        BY DEF EmuInv, EmuTyped, EmuLines
      <3> QED BY <2>1, <3>1, <3>2, TalkEnds
    <2> QED BY <2>1, <2>2, EmuReturns
  <1> QED BY <1>1, <1>2, <1>3, <1>4, <1>5

(* The guest prints t.                                                     *)
LEMMA EmuPrints ==
  ASSUME EmuInv, NEW t \in Text, Emu!Prints(t), Len(t) <= Len(code.prints) + 3,
         console' \in {"boot", "poll", "run", "finish"},
         Good(code) /\ Talk(found, console, code, lines, pipe) =>
           Talk(found, console', code, lines, pipe \o t)
  PROVE  EmuInv'
  <1>1. /\ process = "running" /\ Len(pipe) < PipeMax /\ pipe' = pipe \o t
        /\ UNCHANGED <<up, kind, vbios, bound, at, code, overdue, lines, found, outcome,
                       process, orphans, gpu>>
    BY DEF Emu!Prints, Emu!Running, Emu!backend, Emu!call, Emu!process
  <1>2. at = "reading"
    BY <1>1 DEF EmuInv, EmuRest, EmuTyped
  <1>3. EmuTyped'
    BY <1>1 DEF EmuInv, EmuTyped
  <1>4. EmuRest' /\ EmuKept'
    BY <1>1, <1>2 DEF EmuRest, EmuKept
  <1>5. /\ lines \in Text /\ pipe \in Text /\ code \in Emu!Code /\ Lacks(lines, "DONE")
    BY DEF EmuInv, EmuLines
  <1>6. EmuLines'
    <2>1. pipe' \in Text /\ Len(pipe') = Len(pipe) + Len(t)
      BY <1>1, <1>5, ConcatProperties DEF Text
    <2>2. Len(pipe) \in Nat /\ Len(t) \in Nat /\ Len(code.prints) \in Nat /\ PipeMax \in Nat
      BY <1>5, CodeTyped, LenProperties DEF Text
    <2>3. Len(pipe') <= PipeMax + Len(code.prints) + 3
      BY <1>1, <2>1, <2>2
    <2> QED BY <1>1, <1>5, <2>1, <2>3 DEF EmuLines, Lacks
  <1>7. EmuTalk'
    <2> SUFFICES ASSUME Good(code) PROVE Talk(found', console', code', lines', pipe')
      BY <1>1 DEF EmuTalk, Good, Talk, Found, NotFound, Printed, Announced, LateOuts, JustReady,
                  Silent, Whole, Outs, Lacks, OnlyLast
    <2>1. Talk(found, console, code, lines, pipe)
      BY <1>2 DEF EmuInv, EmuTalk
    <2>2. Talk(found, console', code, lines, pipe \o t)
      BY <2>1
    <2> QED BY <1>1, <2>2
  <1> QED BY <1>3, <1>4, <1>6, <1>7 DEF EmuInv

LEMMA EmuGuest ==
  ASSUME EmuInv, Emu!GuestStep
  PROVE  EmuInv'
  <1>1. /\ found \in BOOLEAN /\ lines \in Text /\ pipe \in Text
        /\ code.prints \in Text /\ Len(code.prints) \in Nat
    BY CodeTyped DEF EmuInv, EmuTyped, EmuLines
  <1> DEFINE noise == <<"noise">>
             ready == <<"READY">>
             echo == <<"echo", "noise">>
             done == <<"blank", "DONE">>
  <1>2. /\ noise \in Text /\ ready \in Text /\ echo \in Text /\ done \in Text
        /\ Len(noise) = 1 /\ Len(ready) = 1 /\ Len(echo) = 2 /\ Len(done) = 2
        /\ noise # <<>> /\ echo # <<>>
        /\ \A y \in {"READY", "DONE", "out"} : Lacks(noise, y) /\ Lacks(echo, y)
        /\ noise[1] = "noise" /\ echo[1] = "echo"
    BY LiteralLines DEF Emu!Line
  <1>3. \A n \in {1, 2} : n <= Len(code.prints) + 3
    BY <1>1
  <1>4. Len(code.prints) <= Len(code.prints) + 3
    BY <1>1
  <1>5. CASE Emu!BootsOn
    <2>1. console = "boot" /\ console' = "boot" /\ Emu!Prints(noise)
      BY <1>5 DEF Emu!BootsOn
    <2>2. Talk(found, "boot", code, lines, pipe) => Talk(found, "boot", code, lines, pipe \o noise)
      BY <1>1, TalkBoots
    <2> HIDE DEF noise
    <2> QED BY <1>2, <1>3, <2>1, <2>2, EmuPrints
  <1>6. CASE Emu!SaysReady
    <2>1. console = "boot" /\ console' = "poll" /\ Emu!Prints(ready)
      BY <1>6 DEF Emu!SaysReady
    <2>2. Talk(found, "boot", code, lines, pipe) => Talk(found, "poll", code, lines, pipe \o ready)
      BY <1>1, TalkReady
    <2> HIDE DEF ready
    <2> QED BY <1>2, <1>3, <2>1, <2>2, EmuPrints
  <1>7. CASE Emu!Starts \/ Emu!Chatters
    <2>1. /\ console \in {"command", "run"} /\ console' = "run"
          /\ Emu!Prints(noise) \/ Emu!Prints(echo)
      BY <1>7 DEF Emu!Starts, Emu!Chatters
    <2> HIDE DEF noise, echo
    <2>2. ASSUME NEW t \in {noise, echo}, Talk(found, console, code, lines, pipe)
          PROVE  Talk(found, "run", code, lines, pipe \o t)
      <3>1. /\ t \in Text /\ t # <<>> /\ t[1] \in {"echo", "noise"}
            /\ \A y \in {"READY", "DONE", "out"} : Lacks(t, y)
        BY <1>2
      <3> QED BY <1>1, <2>1, <2>2, <3>1, TalkRuns
    <2> QED BY <1>2, <1>3, <2>1, <2>2, EmuPrints
  <1>8. CASE Emu!Finishes
    <2>1. /\ console = "run" /\ console' = "finish"
          /\ IF code.fits THEN Emu!Prints(code.prints) ELSE Emu!Prints(noise)
      BY <1>8 DEF Emu!Finishes
    <2>2. CASE code.fits
      <3>1. Good(code) /\ Talk(found, "run", code, lines, pipe) =>
              Talk(found, "finish", code, lines, pipe \o code.prints)
        BY <1>1, TalkFinishes
      <3> QED BY <1>1, <1>4, <2>1, <2>2, <3>1, EmuPrints
    <2>3. CASE ~code.fits
      <3>1. ~Good(code)
        BY <2>3 DEF Good
      <3> HIDE DEF noise
      <3> QED BY <1>2, <1>3, <2>1, <2>3, <3>1, EmuPrints
    <2> QED BY <2>2, <2>3
  <1>9. CASE Emu!SaysDone
    <2>1. console = "finish" /\ console' = "poll" /\ Emu!Prints(done)
      BY <1>9 DEF Emu!SaysDone
    <2>2. Talk(found, "finish", code, lines, pipe) => Talk(found, "poll", code, lines, pipe \o done)
      BY <1>1, TalkDone
    <2> HIDE DEF done
    <2> QED BY <1>2, <1>3, <2>1, <2>2, EmuPrints
  <1> QED BY <1>5, <1>6, <1>7, <1>8, <1>9 DEF Emu!GuestStep

LEMMA EmuStep == EmuInv /\ (Emu!Next \/ UNCHANGED qemuVars) => EmuInv'
  <1> SUFFICES ASSUME EmuInv, Emu!Next \/ UNCHANGED qemuVars PROVE EmuInv'
    OBVIOUS
  <1>1. CASE Emu!Next
    BY <1>1, EmuIdles, EmuSpawns, EmuReads, EmuEnds, EmuGuest DEF Emu!Next, Emu!HostStep
  <1>2. CASE UNCHANGED qemuVars
    <2>1. /\ UNCHANGED <<at, code, lines, found, outcome, pipe>>
          /\ UNCHANGED <<up, kind, vbios, process, orphans, gpu, bound, overdue, console>>
      BY <1>2 DEF qemuVars
    <2>2. EmuTyped' /\ EmuRest'
      BY <2>1 DEF EmuInv, EmuTyped, EmuRest
    <2> QED BY <2>1, <2>2, EmuKeepsTalk
  <1> QED BY <1>1, <1>2

LEMMA EmuSound == EmuInv => Emu!NoQemuLeft /\ Emu!OutputKept
  <1> SUFFICES ASSUME EmuInv PROVE Emu!NoQemuLeft /\ Emu!OutputKept
    OBVIOUS
  <1>1. Emu!NoQemuLeft
    BY DEF EmuInv, EmuTyped, EmuRest, Emu!NoQemuLeft, Emu!Running
  <1>2. ASSUME code.fits, Emu!ToSet(code.prints) \subseteq {"out", "blank"}
        PROVE  Good(code)
    <2>1. code.prints \in Text
      BY CodeTyped DEF EmuInv, EmuLines
    <2>2. DOMAIN code.prints = 1 .. Len(code.prints)
      BY <2>1, LenProperties DEF Text
    <2> QED BY <1>2, <2>1, <2>2 DEF Good, Emu!ToSet
  <1>3. Emu!OutputKept
    BY <1>2 DEF EmuInv, EmuKept, Emu!OutputKept, Outs
  <1> QED BY <1>1, <1>3

LEMMA EmuWellTyped == EmuInv => Emu!TypeOK
  <1> SUFFICES ASSUME EmuInv PROVE Emu!TypeOK
    OBVIOUS
  <1>1. ASSUME NEW s \in Text PROVE Emu!ToSet(s) \subseteq Emu!Line
    <2>1. DOMAIN s = 1 .. Len(s) /\ \A i \in 1 .. Len(s) : s[i] \in Emu!Line
      BY LenProperties, ElementOfSeq DEF Text
    <2> QED BY <2>1 DEF Emu!ToSet
  <1>2. Emu!ToSet(lines) \subseteq Emu!Line /\ Emu!ToSet(pipe) \subseteq Emu!Line
    BY <1>1 DEF EmuInv, EmuLines
  <1> QED BY <1>2 DEF EmuInv, EmuTyped, EmuLines, Emu!TypeOK

-----------------------------------------------------------------------------
EmuPart == part = "qemu" => EmuInv

LEMMA EmuPartInit == Init => EmuPart
  BY EmuBegins DEF Init, EmuPart

LEMMA EmuPartStep == EmuPart /\ [Next]_vars => EmuPart'
  <1> SUFFICES ASSUME EmuPart, [Next]_vars, part' = "qemu" PROVE EmuInv'
    BY DEF EmuPart
  <1>1. part = "qemu" /\ EmuInv
    BY DEF Next, vars, EmuPart
  <1>2. Emu!Next \/ UNCHANGED qemuVars
    BY <1>1 DEF Next, vars
  <1> QED BY <1>1, <1>2, EmuStep

LEMMA EmuInvariance == Spec => []EmuPart
  BY EmuPartInit, EmuPartStep, PTL DEF Spec

(* Between calls no QEMU of this backend runs, and a call that ends with   *)
(* DONE returns every line the program printed, whatever programs print,   *)
(* however much the pipe holds and wherever QEMU or the guest fails.       *)
THEOREM QemuIsSound == Spec => []QemuSound
  <1>1. EmuPart => QemuSound
    BY EmuSound DEF EmuPart, QemuSound
  <1> QED BY <1>1, EmuInvariance, PTL

-----------------------------------------------------------------------------
(* The states of all five parts are well formed: what is read from QEMU is *)
(* lines, every extent written has ends, every line in a pipe of the       *)
(* worker is one of the protocol and there is one at most.                 *)
THEOREM TypesHold == Spec => []TypeOK
  <1>1. BootPart => (part = "boot" => Boot!TypeOK)
    BY BootTyped DEF BootPart
  <1>2. CpuPart => (part = "cpu" => Cpu!TypeOK)
    BY DEF CpuPart, CpuInv
  <1>3. EmuPart => (part = "qemu" => Emu!TypeOK)
    BY EmuWellTyped DEF EmuPart
  <1>4. WorkerInv => (part = "worker" => Gpu!TypeOK)
    <2>1. Worker!IInv => Worker!TypeOK
      BY WorkerAssumed, Worker!TypedIsTypeOK
    <2>2. Worker!TypeOK => Gpu!TypeOK
      BY DEF Worker!TypeOK, Gpu!TypeOK, Worker!Phases, Gpu!Phases, Worker!States, Gpu!States,
         Worker!Kinds, Gpu!Kinds
    <2> QED BY <2>1, <2>2 DEF WorkerInv
  <1>5. LazyPart => (part = "lazy" => Lazy!LazyTypeOK)
    BY DEF LazyPart, Sched!LInv, Sched!LazyTypes, Sched!LazyTypeOK, Lazy!LazyTypeOK, Sched!TypeOK,
       Lazy!TypeOK, Sched!ChunkEnd, Lazy!ChunkEnd, Sched!Least, Lazy!Least, Sched!Elems, Lazy!Elems
  <1>6. BootPart /\ CpuPart /\ EmuPart /\ WorkerInv /\ LazyPart => TypeOK
    BY <1>1, <1>2, <1>3, <1>4, <1>5 DEF TypeOK
  <1> QED BY <1>6, BootPartInit, BootPartStep, CpuPartInit, CpuPartStep, EmuInvariance, WorkerInvariance,
       LazyPartInvariance, PTL DEF Spec
=============================================================================
