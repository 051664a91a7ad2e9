------------------------------- MODULE CpuState -------------------------------
(* The state of the processor and its interrupt controllers on the way from  *)
(* the booted VM into a snapshot (BootedVm::capture_snapshot), from there    *)
(* into a fork (ForkEngine::fork, arch/x86_64/vcpu.rs and vm.rs, kvm.rs),    *)
(* and then vector 0x3B, which the run loop puts into the LAPIC by hand.     *)
(* Most restore steps only warn when KVM refuses, so a fork may run with     *)
(* less than was captured.  A component of the extended state is named by    *)
(* its bit in XCR0; critical MSRs are counted, since KVM_GET_MSRS and        *)
(* KVM_SET_MSRS stop at the first one they refuse.                           *)
EXTENDS Naturals, FiniteSets

CONSTANTS Host,      \* state components KVM_GET_SUPPORTED_CPUID offers
          NMsrs,     \* length of CRITICAL_MSRS (12)
          MaxFaults  \* bound: how many ioctls fail in a behaviour

CpuAssumption == {0, 1, 2} \subseteq Host /\ Host \subseteq 0 .. 63
                        /\ NMsrs \in Nat \ {0} /\ MaxFaults \in Nat

VARIABLES pc,       \* where capture, fork or run stands
          irqchip,  \* enable_irqchip
          boot,     \* the booted VM: what its guest was offered and has turned on
          snap,     \* what the snapshot holds of it
          vm,       \* the forked VM: vcpu, PIC, IOAPIC
          lapic,    \* its LAPIC; irr and isr are the bits of vector 0x3B
          net,      \* a frame waits at the TAP; isr is the device's register
          timer,    \* the timer interrupt is pending
          faults

vars == <<pc, irqchip, boot, snap, vm, lapic, net, timer, faults>>

Chip == {"master", "slave", "ioapic"}
Outcome == {"ok", "refused", "failed"}  \* refused: EINVAL or ENXIO

(* An ioctl and the fault it may meet. *)
Ioctl(o) ==
    /\ o = "ok" \/ faults < MaxFaults
    /\ faults' = IF o = "ok" THEN faults ELSE faults + 1

FreshLapic == [base |-> TRUE, sw |-> FALSE, extint |-> FALSE, irr |-> FALSE, isr |-> FALSE]
FreshVm == [cpuid |-> {}, sregs |-> FALSE, regs |-> FALSE, msrs |-> 0, xcr0 |-> {0},
            xstate |-> {}, chips |-> {}, open |-> {}, queued |-> FALSE]
NoSnapshot == [msrs |-> 0, xcrs |-> {}, chips |-> {}]

(* Features whose state needs a bit the fork would lack: PKU (bit 9), CET    *)
(* user and supervisor (11, 12) and the branch records (15).  The code keeps *)
(* two copies of this filter, one for the boot and one for the forks.        *)
Hidden == {9, 11, 12, 15}
SetupCpuid(offered) == offered \ Hidden

(* Mutated: the filter of the forks keeps PKU. *)
FilterCpuidForFork_NoPku(offered) == offered \ {11, 12, 15}
FilterCpuidForFork(offered) == offered \ Hidden

(* 0x207: x87, SSE, AVX and bit 9. *)
BuildCleanXsave(xcr0) == xcr0 \cap {0, 1, 2, 9}

Init ==
    /\ pc = "boot"
    /\ irqchip \in BOOLEAN
    /\ boot = [cpuid |-> {}, xcr0 |-> {0}, apic |-> TRUE, open |-> {}]
    /\ snap = NoSnapshot
    /\ vm = FreshVm /\ lapic = FreshLapic
    /\ net = [waiting |-> FALSE, isr |-> FALSE] /\ timer = FALSE
    /\ faults = 0

Running == {"top", "guest"}
Rest == <<irqchip, net, timer>>

-----------------------------------------------------------------------------
(* Boot and capture                                                          *)

(* The guest kernel turns on state components it was offered, and saves what *)
(* its tasks use of them in memory the forks share; it may turn its APIC off *)
(* and unmask IRQ 11.                                                        *)
GuestBoots ==
    /\ pc = "boot"
    /\ pc' = "capture"
    /\ LET offered == SetupCpuid(Host)
       IN \E on \in SUBSET offered, apic \in BOOLEAN, open \in SUBSET {"slave"} :
            /\ 0 \in on
            /\ boot' = [cpuid |-> offered, xcr0 |-> on, apic |-> apic, open |-> open]
    /\ UNCHANGED <<snap, vm, lapic, faults, Rest>>

(* Registers that cannot be read fail the capture; MSRs, XCR0 and every chip *)
(* are simply missing when they cannot.                                      *)
CaptureFails ==
    /\ pc = "capture"
    /\ Ioctl("failed")
    /\ UNCHANGED <<pc, boot, snap, vm, lapic, Rest>>

SaveCriticalMsrs(ok, n) == IF ok THEN n ELSE 0
GetXcrs(ok) == IF ok THEN boot.xcr0 ELSE {}
SaveIrqchipState(missing) == Chip \ {missing}

Capture ==
    /\ pc = "capture"
    /\ \E o \in Outcome, what \in {"msrs", "xcrs"} \cup Chip, n \in 0 .. NMsrs :
         LET got(x) == o = "ok" \/ what # x
         IN /\ Ioctl(o)
            /\ snap' = [msrs  |-> SaveCriticalMsrs(got("msrs"), n),
                        xcrs  |-> GetXcrs(got("xcrs")),
                        chips |-> IF o = "ok" THEN Chip ELSE SaveIrqchipState(what)]
    /\ pc' = "fork"
    /\ UNCHANGED <<boot, vm, lapic, Rest>>

-----------------------------------------------------------------------------
(* fork()                                                                    *)

ForkFails == pc' = "fork" /\ UNCHANGED <<boot, snap, vm, lapic, Rest>>

(* irqchip and PIT; a PIT that cannot be programmed only warns. *)
CreateIrqchip ==
    /\ pc = "fork"
    /\ vm' = FreshVm /\ lapic' = FreshLapic
    /\ \E o \in Outcome :
         /\ irqchip \/ o = "ok"
         /\ Ioctl(o)
         /\ pc' = IF ~irqchip THEN "cpuid" ELSE IF o = "ok" THEN "chips" ELSE "fork"
    /\ UNCHANGED <<boot, snap, Rest>>

(* What the snapshot has of the three chips; one KVM refuses stays fresh,    *)
(* all lines masked.                                                         *)
RestoreIrqchips ==
    /\ pc = "chips"
    /\ \E o \in Outcome, c \in snap.chips \cup {"slave"} :
         LET set == IF o = "ok" THEN snap.chips ELSE snap.chips \ {c}
         IN /\ Ioctl(o)
            /\ vm' = [vm EXCEPT !.chips = set,
                                !.open = IF "slave" \in set THEN boot.open ELSE {}]
    /\ pc' = "irq11"
    /\ UNCHANGED <<boot, snap, lapic, Rest>>

(* IRQ 11 is opened on the slave PIC as read back from KVM, and in the       *)
(* IOAPIC, which only a captured IOAPIC can be patched for.                  *)
OpenIrq11 ==
    /\ pc = "irq11"
    /\ \E o \in Outcome, c \in {"slave", "ioapic"} :
         /\ Ioctl(o)
         /\ LET able(x) == o = "ok" \/ c # x
            IN vm' = [vm EXCEPT
                  !.open = @ \cup {x \in {"slave"} : able(x)}
                             \cup {x \in {"ioapic"} : able(x) /\ x \in snap.chips},
                  !.chips = @ \cup {x \in {"ioapic"} : able(x) /\ x \in snap.chips}]
    /\ pc' = "cpuid"
    /\ UNCHANGED <<boot, snap, lapic, Rest>>

(* The vcpu, then CPUID, which decides what XCR0 may be. *)
SetCpuid2 ==
    /\ pc = "cpuid"
    /\ \E o \in Outcome :
         /\ Ioctl(o)
         /\ IF o # "ok" THEN ForkFails
            ELSE /\ vm' = [vm EXCEPT !.cpuid = FilterCpuidForFork(Host)]
                 /\ pc' = "sregs"
                 /\ UNCHANGED <<boot, snap, lapic, Rest>>

(* Special registers carry the APIC base with its enable bit. *)
SetSregs ==
    /\ pc = "sregs"
    /\ \E o \in Outcome :
         /\ Ioctl(o)
         /\ IF o # "ok" THEN ForkFails
            ELSE /\ vm' = [vm EXCEPT !.sregs = TRUE]
                 /\ lapic' = [lapic EXCEPT !.base = boot.apic]
                 /\ pc' = "regs"
                 /\ UNCHANGED <<boot, snap, Rest>>

SetRegs ==
    /\ pc = "regs"
    /\ \E o \in Outcome :
         /\ Ioctl(o)
         /\ IF o # "ok" THEN ForkFails
            ELSE /\ vm' = [vm EXCEPT !.regs = TRUE]
                 /\ pc' = "msrs"
                 /\ UNCHANGED <<boot, snap, lapic, Rest>>

(* KVM_SET_MSRS writes the MSRs before the one it refuses. *)
RestoreMsrs ==
    /\ pc = "msrs"
    /\ \E o \in Outcome, n \in 0 .. snap.msrs :
         /\ n < snap.msrs <=> o # "ok"
         /\ Ioctl(o)
         /\ vm' = [vm EXCEPT !.msrs = n]
    /\ pc' = "xcrs"
    /\ UNCHANGED <<boot, snap, lapic, Rest>>

(* KVM takes an XCR0 the host supports; an absent one leaves x87 alone. *)
SetXcrs ==
    /\ pc = "xcrs"
    /\ \E o \in Outcome :
         /\ Ioctl(o)
         /\ vm' = IF o = "ok" /\ snap.xcrs # {} /\ snap.xcrs \subseteq Host
                  THEN [vm EXCEPT !.xcr0 = snap.xcrs] ELSE vm
    /\ pc' = "xsave"
    /\ UNCHANGED <<boot, snap, lapic, Rest>>

(* The captured XSAVE area is not put back: a clean one that claims what     *)
(* XCR0 had, or x87, SSE and AVX when no XCR0 was captured.                  *)
SetXsave ==
    /\ pc = "xsave"
    /\ \E o \in Outcome :
         /\ Ioctl(o)
         /\ vm' = IF o # "ok" THEN vm
                  ELSE [vm EXCEPT !.xstate = BuildCleanXsave(IF snap.xcrs = {} THEN {0, 1, 2}
                                                             ELSE snap.xcrs)]
    /\ pc' = IF irqchip THEN "apic" ELSE "top"
    /\ UNCHANGED <<boot, snap, lapic, Rest>>

(* Turning the APIC off resets its registers: the base bit is set, cleared   *)
(* and set again before the enable bit of SVR and LINT0 are written.         *)
SetApicBase(l) == [l EXCEPT !.base = TRUE]
ToggleApic(l, again) == [FreshLapic EXCEPT !.base = again]
SetLapic(l) == [l EXCEPT !.sw = TRUE, !.extint = TRUE]

(* Failures of the toggle are passed over, all others leave it at that; the  *)
(* fork goes on in any case.                                                 *)
EnableApic ==
    /\ pc = "apic"
    /\ \E o \in Outcome, at \in {"base", "off", "on", "lapic"} :
         /\ Ioctl(o)
         /\ LET based == SetApicBase(lapic)
                toggled == IF o # "ok" /\ at = "off" THEN based
                           ELSE ToggleApic(based, o = "ok" \/ at # "on")
            IN lapic' = CASE o # "ok" /\ at = "base"  -> lapic
                          [] o # "ok" /\ at = "lapic" -> toggled
                          [] OTHER                    -> SetLapic(toggled)
    /\ pc' = "top"
    /\ UNCHANGED <<boot, snap, vm, Rest>>

-----------------------------------------------------------------------------
(* Vector 0x3B in the run loop                                               *)

(* inject_lapic_irq: clear the stuck ISR bit, set IRR; when IRR is already   *)
(* set nothing is written, the cleared ISR bit included.                     *)
InjectLapicIrq(l) == IF l.irr THEN l ELSE [l EXCEPT !.isr = FALSE, !.irr = TRUE]

(* Mutated: the in-service bit of the LAPIC is left alone.                  *)
ClearLapicIsr_Never(l) == l
ClearLapicIsr(l) == [l EXCEPT !.isr = FALSE]

(* Frames read from the TAP; the vector goes in when the device's ISR        *)
(* register changed.  Without an irqchip it is queued with KVM_INTERRUPT,    *)
(* but not by the drain at the head of the loop.                             *)
Drain(l, head) ==
    LET raised == net.waiting /\ ~net.isr
    IN /\ net' = [waiting |-> FALSE, isr |-> net.isr \/ net.waiting]
       /\ \E o \in Outcome :
            /\ o = "ok" \/ (raised /\ (irqchip \/ ~head))
            /\ Ioctl(o)
            /\ lapic' = IF raised /\ irqchip /\ o = "ok" THEN InjectLapicIrq(l) ELSE l
            /\ vm' = IF raised /\ ~irqchip /\ ~head /\ o = "ok"
                     THEN [vm EXCEPT !.queued = TRUE] ELSE vm

Enter ==
    /\ pc = "top"
    /\ Drain(lapic, TRUE)
    /\ pc' = "guest"
    /\ UNCHANGED <<irqchip, boot, snap, timer>>

(* EINTR with the flag set, port I/O, a write to the device. *)
ExitAndDrain ==
    /\ pc = "guest"
    /\ Drain(ClearLapicIsr(lapic), FALSE)
    /\ pc' = "top"
    /\ UNCHANGED <<irqchip, boot, snap, timer>>

(* A halt, a read from a device, an EINTR without the flag. *)
ExitOnly ==
    /\ pc = "guest"
    /\ lapic' = ClearLapicIsr(lapic)
    /\ pc' = "top"
    /\ UNCHANGED <<irqchip, boot, snap, vm, net, timer, faults>>

(* KVM delivers what is pending once the guest takes interrupts; the handler *)
(* reads the device's ISR register, which clears it, and ends the interrupt  *)
(* at the PIC only, so the LAPIC's ISR bit stays.                            *)
Delivers == lapic.base /\ lapic.sw

TakeNetIrq ==
    /\ pc = "guest"
    /\ \/ irqchip /\ Delivers /\ lapic.irr /\ ~lapic.isr
          /\ lapic' = [lapic EXCEPT !.irr = FALSE, !.isr = TRUE] /\ UNCHANGED vm
       \/ vm.queued /\ vm' = [vm EXCEPT !.queued = FALSE] /\ UNCHANGED lapic
    /\ net' = [net EXCEPT !.isr = FALSE]
    /\ UNCHANGED <<pc, irqchip, boot, snap, timer, faults>>

(* The timer has the same priority class: a set ISR bit holds it back. *)
TakeTimer ==
    /\ pc = "guest" /\ timer
    /\ irqchip /\ Delivers /\ lapic.extint /\ ~lapic.isr
    /\ timer' = FALSE
    /\ UNCHANGED <<pc, irqchip, boot, snap, vm, lapic, net, faults>>

TimerFires ==
    /\ pc = "guest" /\ irqchip /\ ~timer
    /\ timer' = TRUE
    /\ UNCHANGED <<pc, irqchip, boot, snap, vm, lapic, net, faults>>

FrameArrives ==
    /\ pc \in Running /\ ~net.waiting
    /\ net' = [net EXCEPT !.waiting = TRUE]
    /\ UNCHANGED <<pc, irqchip, boot, snap, vm, lapic, timer, faults>>

Prepare ==
    \/ GuestBoots \/ Capture
    \/ CreateIrqchip \/ RestoreIrqchips \/ OpenIrq11
    \/ SetCpuid2 \/ SetSregs \/ SetRegs
    \/ RestoreMsrs \/ SetXcrs \/ SetXsave \/ EnableApic

Next ==
    \/ Prepare \/ CaptureFails
    \/ Enter \/ ExitAndDrain \/ ExitOnly
    \/ TakeNetIrq \/ TakeTimer \/ TimerFires \/ FrameArrives

(* The loop goes on; SIGALRM ends every stay in the guest and drains; a      *)
(* guest does not keep interrupts off for good.                              *)
Fairness ==
    /\ WF_vars(Prepare) /\ WF_vars(Enter)
    /\ SF_vars(ExitAndDrain) /\ SF_vars(TakeNetIrq) /\ SF_vars(TakeTimer)

Spec == Init /\ [][Next]_vars /\ Fairness

-----------------------------------------------------------------------------
(* Captured and restored state are sets of components and chips.             *)
TypeOK ==
    /\ irqchip \in BOOLEAN /\ timer \in BOOLEAN /\ faults \in 0 .. MaxFaults
    /\ boot \in [cpuid : SUBSET Host, xcr0 : SUBSET Host, apic : BOOLEAN, open : SUBSET Chip]
    /\ snap \in [msrs : 0 .. NMsrs, xcrs : SUBSET Host, chips : SUBSET Chip]
    /\ vm \in [cpuid : SUBSET Host, sregs : BOOLEAN, regs : BOOLEAN, msrs : 0 .. NMsrs,
               xcr0 : SUBSET Host, xstate : SUBSET Host, chips : SUBSET Chip,
               open : SUBSET Chip, queued : BOOLEAN]
    /\ lapic \in [base : BOOLEAN, sw : BOOLEAN, extint : BOOLEAN, irr : BOOLEAN, isr : BOOLEAN]
    /\ net \in [waiting : BOOLEAN, isr : BOOLEAN]

(* A fork that starts to run has the registers of the booted VM and is       *)
(* offered the same features by the second copy of the filter; if no ioctl   *)
(* failed it also has everything else that was captured, its XSAVE area      *)
(* claims nothing XCR0 lacks and IRQ 11 is open on both chips.               *)
CpuRestored ==
    pc \in Running =>
        /\ vm.sregs /\ vm.regs /\ vm.cpuid = boot.cpuid
        /\ faults = 0 =>
             /\ vm.msrs = snap.msrs
             /\ vm.xcr0 = boot.xcr0 /\ vm.xstate \subseteq vm.xcr0
             /\ irqchip => vm.chips = Chip /\ vm.open = {"slave", "ioapic"}

(* What vcpu.rs says of the clean area: xstate_bv is a subset of XCR0.  Not  *)
(* so when XCR0 could not be captured or restored.                           *)
XstateFits == pc \in Running => vm.xstate \subseteq vm.xcr0

(* With an irqchip and no failing ioctl, the interrupt of a received frame   *)
(* reaches the guest's handler.                                              *)
NetIrqArrives ==
    (irqchip /\ net.isr /\ faults = 0) ~> (~net.isr \/ faults > 0)

(* The stuck ISR bit of 0x3B does not hold the timer back for good.          *)
TimerArrives == (timer /\ faults = 0) ~> (~timer \/ faults > 0)
=============================================================================
