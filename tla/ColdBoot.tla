------------------------------ MODULE ColdBoot ------------------------------
(* BootedVm::run_until_ready and run_code (arch/x86_64/boot.rs): the loop    *)
(* that boots a VM until init says READY, and runs each later command.       *)
(* Every call starts a detached thread that sleeps for Timeout and then      *)
(* signals the calling thread.  Nothing cancels it, and the flag its signal  *)
(* sets, BOOT_SIGNAL_INTERRUPTED, belongs to the process: all loops share it *)
(* and none clears it before it starts.                                      *)
EXTENDS Naturals

CONSTANTS Thread,    \* threads of the host, each with a VM of its own
          Cmd,       \* commands
          None,      \* no command: the boot itself, an empty buffer
          Timeout,   \* the sleep of a timer thread (120 s)
          HardLimit, \* timeout_secs + 30
          MaxRuns    \* bound: runs of all threads, the boots included

ASSUME ColdBootAssumption ==
    /\ None \notin Cmd
    /\ Timeout \in Nat \ {0} /\ HardLimit \in Nat /\ Timeout < HardLimit
    /\ MaxRuns \in Nat \ {0}

VARIABLES flag,    \* BOOT_SIGNAL_INTERRUPTED
          sleep,   \* by run: whom its timer thread will signal, and when
          runs,    \* runs begun
          host,    \* where each thread is in run_until_ready
          asked,   \* the command of the current run
          elapsed, \* start.elapsed()
          cmdbuf, ready, out, \* guest memory: CMD_BUF, "READY", OUT_BUF's author
          guest,   \* where the guest is
          cur,     \* the command init has copied
          result,  \* how the last run ended, until the next begins
          trusted  \* every run on this VM so far was ended by READY

shared == <<flag, sleep, runs>>
hostVars == <<host, asked, elapsed, result, trusted>>
memory == <<cmdbuf, ready, out>>
guestVars == <<guest, cur>>
vars == <<shared, hostVars, memory, guestVars>>

Sleeper == [of : Thread, left : 0 .. Timeout]
Gone == [of |-> None]  \* no such timer thread: not started, refused or over
NoResult == [by |-> "none", of |-> None, out |-> None, late |-> FALSE]

HostAt == {"new", "idle", "top", "enter", "guest", "eintr"}
GuestAt == {"boot", "poll", "exec", "wrote", "stuck"}
Ending == {"none", "ready", "timeout", "hard", "exit"}

(* Every thread is at a place of run_until_ready, every guest at one of init. *)
TypeOK ==
    /\ flag \in BOOLEAN
    /\ sleep \in [1 .. MaxRuns -> Sleeper \cup {Gone}]
    /\ runs \in 0 .. MaxRuns
    /\ host \in [Thread -> HostAt]
    /\ asked \in [Thread -> Cmd \cup {None}]
    /\ elapsed \in [Thread -> 0 .. HardLimit + 1]
    /\ cmdbuf \in [Thread -> Cmd \cup {None}]
    /\ ready \in [Thread -> BOOLEAN]
    /\ out \in [Thread -> Cmd \cup {None}]
    /\ guest \in [Thread -> GuestAt]
    /\ cur \in [Thread -> Cmd \cup {None}]
    /\ result \in [Thread -> [by : Ending, of : Cmd \cup {None},
                              out : Cmd \cup {None}, late : BOOLEAN]]
    /\ trusted \in [Thread -> BOOLEAN]

Running(t) == host[t] \notin {"new", "idle"}

Init ==
    /\ flag = FALSE
    /\ sleep = [k \in 1 .. MaxRuns |-> Gone]
    /\ runs = 0
    /\ host = [t \in Thread |-> "new"]
    /\ asked = [t \in Thread |-> None]
    /\ elapsed = [t \in Thread |-> 0]
    /\ cmdbuf = [t \in Thread |-> None]
    /\ ready = [t \in Thread |-> FALSE]
    /\ out = [t \in Thread |-> None]
    /\ guest = [t \in Thread |-> "boot"]
    /\ cur = [t \in Thread |-> None]
    /\ result = [t \in Thread |-> NoResult]
    /\ trusted = [t \in Thread |-> TRUE]

-----------------------------------------------------------------------------
(* Starting a run                                                            *)

(* run_until_ready's prologue; the timer thread may fail to spawn, which     *)
(* only logs.                                                                *)
Begin(t, c, spawned) ==
    /\ runs < MaxRuns
    /\ runs' = runs + 1
    /\ sleep' = [sleep EXCEPT ![runs + 1] =
           IF spawned THEN [of |-> t, left |-> Timeout] ELSE Gone]
    /\ host' = [host EXCEPT ![t] = "top"]
    /\ asked' = [asked EXCEPT ![t] = c]
    /\ elapsed' = [elapsed EXCEPT ![t] = 0]
    /\ result' = [result EXCEPT ![t] = NoResult]
    /\ UNCHANGED <<flag, trusted, guestVars>>

(* A VM that boot_linux has just built: its memory is zero. *)
Boot(t, spawned) ==
    /\ host[t] = "new"
    /\ Begin(t, None, spawned)
    /\ UNCHANGED memory

(* Mutated: READY is left when the command goes in.                         *)
Prepare_KeepsReady(t, c) ==
    /\ cmdbuf' = [cmdbuf EXCEPT ![t] = c]
    /\ out' = [out EXCEPT ![t] = None]
    /\ UNCHANGED ready

(* prepare_vm_for_execution *)
Prepare(t, c) ==
    /\ cmdbuf' = [cmdbuf EXCEPT ![t] = c]
    /\ ready' = [ready EXCEPT ![t] = FALSE]
    /\ out' = [out EXCEPT ![t] = None]

(* A booted VM is given a command, also after a run that timed out; one whose *)
(* boot failed is not kept.                                                  *)
RunCode(t, c, spawned) ==
    /\ host[t] = "idle"
    /\ Prepare(t, c)
    /\ Begin(t, c, spawned)

-----------------------------------------------------------------------------
(* The loop                                                                  *)

(* run_until_ready returns.  The timer thread sleeps on. *)
Return(t, by) ==
    /\ host' = [host EXCEPT ![t] =
           IF asked[t] = None /\ by # "ready" THEN "new" ELSE "idle"]
    /\ result' = [result EXCEPT ![t] =
           [by |-> by, of |-> asked[t], late |-> elapsed[t] >= Timeout,
            out |-> IF by = "ready" THEN out[t] ELSE None]]
    \* a boot that failed drops its VM: the next one is new
    /\ IF host'[t] = "new"
       THEN /\ guest' = [guest EXCEPT ![t] = "boot"]
            /\ ready' = [ready EXCEPT ![t] = FALSE]
            /\ out' = [out EXCEPT ![t] = None]
            /\ trusted' = [trusted EXCEPT ![t] = TRUE]
       ELSE /\ trusted' = [trusted EXCEPT ![t] = @ /\ by = "ready"]
            /\ UNCHANGED <<guest, ready, out>>
    /\ asked' = [asked EXCEPT ![t] = None]
    /\ elapsed' = [elapsed EXCEPT ![t] = 0]
    /\ UNCHANGED <<sleep, runs, cmdbuf, cur>>

Goto(t, place) ==
    /\ host' = [host EXCEPT ![t] = place]
    /\ UNCHANGED <<sleep, runs, asked, elapsed, result, trusted, memory, guestVars>>

(* check_ready! *)
CheckReady(t) == IF ready[t] THEN Return(t, "ready") ELSE Goto(t, "top")

(* Mutated: only the signal ends a run.                                     *)
Head_NoHardLimit(t) ==
    /\ host[t] = "top"
    /\ flag' = FALSE
    /\ IF flag THEN Return(t, "timeout") ELSE Goto(t, "enter")

(* The head of the loop: a set flag is taken for the timeout, whoever set it *)
(* and for whom; then the hard limit.                                        *)
Head(t) ==
    /\ host[t] = "top"
    /\ flag' = FALSE
    /\ CASE flag -> Return(t, "timeout")
         [] ~flag /\ elapsed[t] > HardLimit -> Return(t, "hard")
         [] OTHER -> Goto(t, "enter")

(* KVM_RUN.  A signal between the head and here leaves its flag, and does    *)
(* not keep the vcpu from being entered.                                     *)
Enter(t) ==
    /\ host[t] = "enter"
    /\ Goto(t, "guest")
    /\ UNCHANGED flag

(* EINTR, from a timer or from a signal of no concern to this code; another  *)
(* loop may have swapped the flag away in the meantime.                      *)
Eintr(t) ==
    /\ host[t] \in {"eintr", "guest"}
    /\ flag' = FALSE
    /\ IF flag THEN Return(t, "timeout") ELSE CheckReady(t)

(* HLT or a port: READY is looked at after each. *)
Exit(t) ==
    /\ host[t] = "guest" /\ guest[t] # "stuck"
    /\ CheckReady(t)
    /\ UNCHANGED flag

(* MMIO of the virtio-net device, or of a GPU BAR that was mapped just now:  *)
(* round again, no look at READY.                                            *)
MmioExit(t) ==
    /\ host[t] = "guest" /\ guest[t] # "stuck"
    /\ Goto(t, "top")
    /\ UNCHANGED flag

(* Shutdown, failed entry, MMIO to nothing, a reason the match does not name, *)
(* a failed KVM_RUN.                                                         *)
BadExit(t) ==
    /\ host[t] = "guest"
    /\ Return(t, "exit")
    /\ UNCHANGED flag

-----------------------------------------------------------------------------
(* Timers and time                                                           *)

(* tgkill to the thread that made the call, whatever that does now. *)
Fire(k) ==
    /\ sleep[k] # Gone /\ sleep[k].left = 0
    /\ sleep' = [sleep EXCEPT ![k] = Gone]
    /\ flag' = TRUE
    /\ host' = [host EXCEPT ![sleep[k].of] = IF @ = "guest" THEN "eintr" ELSE @]
    /\ UNCHANGED <<runs, asked, elapsed, result, trusted, memory, guestVars>>

(* A unit of time passes.  A timer thread may oversleep. *)
Sleeping(k) == sleep[k] # Gone /\ sleep[k].left > 0
Counting(t) == Running(t) /\ elapsed[t] <= HardLimit

Tick ==
    /\ \/ \E t \in Thread : Counting(t)
       \/ \E k \in 1 .. MaxRuns : Sleeping(k)
    /\ sleep' = [k \in 1 .. MaxRuns |->
           IF Sleeping(k) THEN [sleep[k] EXCEPT !.left = @ - 1] ELSE sleep[k]]
    /\ elapsed' = [t \in Thread |->
           IF Counting(t) THEN elapsed[t] + 1 ELSE elapsed[t]]
    /\ UNCHANGED <<flag, runs, host, asked, result, trusted, memory, guestVars>>

-----------------------------------------------------------------------------
(* The guest, which moves only inside KVM_RUN                                *)

InGuest(t, pc) == host[t] = "guest" /\ guest[t] = pc

Booted(t) ==
    /\ InGuest(t, "boot")
    /\ ready' = [ready EXCEPT ![t] = TRUE]
    /\ guest' = [guest EXCEPT ![t] = "poll"]
    /\ UNCHANGED <<shared, hostVars, cmdbuf, out, cur>>

Fetch(t) ==
    /\ InGuest(t, "poll") /\ cmdbuf[t] # None
    /\ cur' = [cur EXCEPT ![t] = cmdbuf[t]]
    /\ cmdbuf' = [cmdbuf EXCEPT ![t] = None]
    /\ ready' = [ready EXCEPT ![t] = FALSE]
    /\ guest' = [guest EXCEPT ![t] = "exec"]
    /\ UNCHANGED <<shared, hostVars, out>>

WriteOut(t) ==
    /\ InGuest(t, "exec")
    /\ out' = [out EXCEPT ![t] = cur[t]]
    /\ guest' = [guest EXCEPT ![t] = "wrote"]
    /\ UNCHANGED <<shared, hostVars, cmdbuf, ready, cur>>

WriteReady(t) ==
    /\ InGuest(t, "wrote")
    /\ ready' = [ready EXCEPT ![t] = TRUE]
    /\ guest' = [guest EXCEPT ![t] = "poll"]
    /\ cur' = [cur EXCEPT ![t] = None]
    /\ UNCHANGED <<shared, hostVars, cmdbuf, out>>

(* A loop that never leaves KVM, while booting or in a snippet. *)
GetStuck(t) ==
    /\ InGuest(t, "boot") \/ InGuest(t, "exec")
    /\ guest' = [guest EXCEPT ![t] = "stuck"]
    /\ UNCHANGED <<shared, hostVars, memory, cur>>

-----------------------------------------------------------------------------
GuestStep(t) == Booted(t) \/ Fetch(t) \/ WriteOut(t) \/ WriteReady(t) \/ GetStuck(t)
HostStep(t) == Head(t) \/ Enter(t) \/ (host[t] = "eintr" /\ Eintr(t))
VcpuExit(t) == Exit(t) \/ MmioExit(t) \/ BadExit(t)

Next ==
    \/ Tick
    \/ \E t \in Thread :
          \/ \E spawned \in BOOLEAN :
                Boot(t, spawned) \/ \E c \in Cmd : RunCode(t, c, spawned)
          \/ HostStep(t) \/ VcpuExit(t) \/ Eintr(t) \/ GuestStep(t)
    \/ \E k \in 1 .. MaxRuns : Fire(k)

Spec == Init /\ [][Next]_vars

(* The loop is straight code; time passes; a guest that is not stuck leaves  *)
(* KVM now and then (its timer interrupts, its console).  Nothing is assumed *)
(* of the timer threads.                                                     *)
LiveSpec ==
    /\ Spec
    /\ WF_vars(Tick)
    /\ \A t \in Thread : WF_vars(HostStep(t)) /\ WF_vars(VcpuExit(t))

-----------------------------------------------------------------------------
(* run_code returns its own command's output, never an earlier one's nor     *)
(* that of the boot, on a VM all of whose runs ended with READY: the READY   *)
(* of the run before is cleared before the command goes in.                  *)
OwnOutput ==
    \A t \in Thread :
        result[t].by = "ready" /\ trusted[t] => result[t].out = result[t].of

(* The hard limit catches what the signal misses: a run whose timer thread   *)
(* never started, or whose flag another thread's loop swapped away, ends all *)
(* the same, unless its guest never leaves KVM again.                        *)
RunEnds ==
    \A t \in Thread : Running(t) ~> ~Running(t) \/ guest[t] = "stuck"

(* "Our timeout thread sent SIGUSR1 - guest didn't write READY in time": a   *)
(* run that reports the timeout has had its time.                            *)
TimeoutIsOwn ==
    \A t \in Thread : result[t].by = "timeout" => result[t].late
=============================================================================
