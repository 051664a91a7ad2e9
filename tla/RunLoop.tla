------------------------------ MODULE RunLoop ------------------------------
(* run_code on a forked VM: the host writes a command into guest memory,    *)
(* runs the vcpu until the guest's init has written READY, and reads OUT_BUF *)
(* back.  Host: ForkedVm::run_code and run_until_ready (fork.rs),            *)
(* prepare_vm_for_execution (boot.rs).  Guest: the command loop of           *)
(* tools/initramfs/init.c.  The interval timer and SIGNAL_INTERRUPTED belong *)
(* to the process and are shared by all threads that run VMs.                *)
(* Guest memory moves only while the thread is inside KVM_RUN, so each host  *)
(* action between two KVM_RUNs is one step.                                  *)
EXTENDS Naturals

CONSTANTS Thread,    \* threads of LazyFork::realize, each with a VM of its own
          Bystander, \* threads that may take SIGALRM but run no VM (the joiner)
          Cmd,       \* snippets
          Hang,      \* the snippets that never finish
          IoPeriod,  \* READY is checked on every IoPeriod-th I/O exit (1000)
          None       \* no command, no output

ASSUME RunLoopAssumption ==
    /\ Hang \subseteq Cmd
    /\ None \notin Cmd
    /\ IoPeriod \in Nat \ {0}

VARIABLES armed,   \* ITIMER_REAL is running
          flag,    \* SIGNAL_INTERRUPTED
          host,    \* where each thread is in run_until_ready
          asked,   \* the command its run was called with
          expired, \* start.elapsed() > 30 s
          io,      \* io_count modulo IoPeriod
          cmdbuf,  \* guest memory: CMD_BUF
          ready,   \* guest memory: "READY" at OUT_BUF + READY_SIGNAL_OFFSET
          out,     \* guest memory: OUT_BUF, named by the command that wrote it
          guest,   \* where init is in its loop
          cur,     \* the command init has copied and is executing
          result,  \* what the thread's last run_code returned, until it runs again
          trusted  \* every run on this VM so far was ended by READY

process == <<armed, flag>>
hostVars == <<host, asked, expired, io, result, trusted>>
memory == <<cmdbuf, ready, out>>
guestVars == <<guest, cur>>
vars == <<process, hostVars, memory, guestVars>>

HostAt == {"idle", "top", "guest", "eintr"}
GuestAt == {"poll", "exec", "wrote", "spin", "dead"}
Ending == {"none", "ready", "shutdown", "timeout", "exit", "kvm"}
Results == [by : Ending, of : Cmd \cup {None}, out : Cmd \cup {None}]

NoResult == [by |-> "none", of |-> None, out |-> None]

TypeOK ==
    /\ armed \in BOOLEAN /\ flag \in BOOLEAN
    /\ host \in [Thread -> HostAt]
    /\ asked \in [Thread -> Cmd \cup {None}]
    /\ expired \in [Thread -> BOOLEAN]
    /\ io \in [Thread -> 0 .. IoPeriod - 1]
    /\ cmdbuf \in [Thread -> Cmd \cup {None}]
    /\ ready \in [Thread -> BOOLEAN]
    /\ out \in [Thread -> Cmd \cup {None}]
    /\ guest \in [Thread -> GuestAt]
    /\ cur \in [Thread -> Cmd \cup {None}]
    /\ result \in [Thread -> Results]
    /\ trusted \in [Thread -> BOOLEAN]

Running(t) == host[t] # "idle"

(* A VM forked from the boot snapshot: init is polling, its boot READY is    *)
(* still in memory.                                                          *)
Init ==
    /\ armed = FALSE /\ flag = FALSE
    /\ host = [t \in Thread |-> "idle"]
    /\ asked = [t \in Thread |-> None]
    /\ expired = [t \in Thread |-> FALSE]
    /\ io = [t \in Thread |-> 0]
    /\ cmdbuf = [t \in Thread |-> None]
    /\ ready = [t \in Thread |-> TRUE]
    /\ out = [t \in Thread |-> None]
    /\ guest = [t \in Thread |-> "poll"]
    /\ cur = [t \in Thread |-> None]
    /\ result = [t \in Thread |-> NoResult]
    /\ trusted = [t \in Thread |-> TRUE]

-----------------------------------------------------------------------------
(* The host                                                                  *)

(* Mutated: READY is left when the command goes in.                         *)
Prepare_KeepsReady(t, c) ==
    /\ cmdbuf' = [cmdbuf EXCEPT ![t] = c]
    /\ out' = [out EXCEPT ![t] = None]
    /\ UNCHANGED ready

(* prepare_vm_for_execution: READY and OUT_BUF are zeroed before the command *)
(* goes in.  run_until_ready then (re)arms the process's timer.              *)
Prepare(t, c) ==
    /\ cmdbuf' = [cmdbuf EXCEPT ![t] = c]
    /\ ready' = [ready EXCEPT ![t] = FALSE]
    /\ out' = [out EXCEPT ![t] = None]

Start(t, c) ==
    /\ host[t] = "idle"
    /\ Prepare(t, c)
    /\ host' = [host EXCEPT ![t] = "top"]
    /\ asked' = [asked EXCEPT ![t] = c]
    /\ io' = [io EXCEPT ![t] = 0]
    /\ result' = [result EXCEPT ![t] = NoResult]
    /\ armed' = TRUE
    /\ UNCHANGED <<flag, expired, trusted, guestVars>>

(* run_until_ready returns; run_code reads OUT_BUF only when it returned Ok. *)
Return(t, by) ==
    /\ host' = [host EXCEPT ![t] = "idle"]
    /\ result' = [result EXCEPT ![t] =
           [by |-> by, of |-> asked[t],
            out |-> IF by \in {"ready", "shutdown"} THEN out[t] ELSE None]]
    /\ trusted' = [trusted EXCEPT ![t] = @ /\ by = "ready"]
    /\ asked' = [asked EXCEPT ![t] = None]
    /\ expired' = [expired EXCEPT ![t] = FALSE]

DisarmAndReturn(t, by) == armed' = FALSE /\ Return(t, by)

(* 30 seconds pass since Start. *)
Expire(t) ==
    /\ Running(t) /\ ~expired[t]
    /\ expired' = [expired EXCEPT ![t] = TRUE]
    /\ UNCHANGED <<process, host, asked, io, result, trusted, memory, guestVars>>

(* The head of the loop is the only place that looks at the clock. *)
Timeout(t) ==
    /\ host[t] = "top" /\ expired[t]
    /\ DisarmAndReturn(t, "timeout")
    /\ UNCHANGED <<flag, io, memory, guestVars>>

Enter(t) ==
    /\ host[t] = "top" /\ ~expired[t]
    /\ host' = [host EXCEPT ![t] = "guest"]
    /\ UNCHANGED <<process, asked, expired, io, result, trusted, memory, guestVars>>

(* SIGALRM goes to one thread of the process; only a thread inside KVM_RUN   *)
(* is thrown out of it.                                                      *)
Tick(r) ==
    /\ armed
    /\ flag' = TRUE
    /\ host' = [t \in Thread |->
                   IF t = r /\ host[t] = "guest" THEN "eintr" ELSE host[t]]
    /\ UNCHANGED <<armed, asked, expired, io, result, trusted, memory, guestVars>>

(* Whichever interrupted thread swaps the flag first checks READY; the other *)
(* finds it clear and goes round without a check.                            *)
Eintr(t) ==
    /\ host[t] = "eintr"
    /\ flag' = FALSE
    /\ IF flag /\ ready[t]
       THEN DisarmAndReturn(t, "ready")
       ELSE /\ host' = [host EXCEPT ![t] = "top"]
            /\ UNCHANGED <<armed, asked, expired, result, trusted>>
    /\ UNCHANGED <<io, memory, guestVars>>

(* Mutated: a port exit never looks at READY.                               *)
IoExit_NoCheck(t) ==
    /\ host[t] = "guest" /\ guest[t] # "dead"
    /\ io' = [io EXCEPT ![t] = (@ + 1) % IoPeriod]
    /\ host' = [host EXCEPT ![t] = "top"]
    /\ UNCHANGED <<process, asked, expired, result, trusted, memory, guestVars>>

(* Mutated: the counter is compared before it wraps.                        *)
IoExit_NoWrap(t) ==
    /\ host[t] = "guest" /\ guest[t] # "dead" /\ io[t] < IoPeriod
    /\ io' = [io EXCEPT ![t] = @ + 1]
    /\ IF io'[t] = IoPeriod /\ ready[t]
       THEN DisarmAndReturn(t, "ready")
       ELSE /\ host' = [host EXCEPT ![t] = "top"]
            /\ UNCHANGED <<armed, asked, expired, result, trusted>>
    /\ UNCHANGED <<flag, memory, guestVars>>

(* The guest touches a port.  Every IoPeriod-th exit looks at READY. *)
IoExit(t) ==
    /\ host[t] = "guest" /\ guest[t] # "dead"
    /\ io' = [io EXCEPT ![t] = (@ + 1) % IoPeriod]
    /\ IF io'[t] = 0 /\ ready[t]
       THEN DisarmAndReturn(t, "ready")
       ELSE /\ host' = [host EXCEPT ![t] = "top"]
            /\ UNCHANGED <<armed, asked, expired, result, trusted>>
    /\ UNCHANGED <<flag, memory, guestVars>>

(* The guest kernel idles: READY is checked, then it is woken (inject). *)
HltExit(t) ==
    /\ host[t] = "guest" /\ guest[t] # "dead"
    /\ IF ready[t]
       THEN DisarmAndReturn(t, "ready")
       ELSE /\ host' = [host EXCEPT ![t] = "top"]
            /\ UNCHANGED <<armed, asked, expired, result, trusted>>
    /\ UNCHANGED <<flag, io, memory, guestVars>>

(* Mutated: a shutdown returns with the timer armed.                        *)
Shutdown_KeepsTimer(t) ==
    /\ host[t] = "guest"
    /\ guest' = [guest EXCEPT ![t] = "dead"]
    /\ Return(t, "shutdown")
    /\ UNCHANGED <<process, io, memory, cur>>

(* Poweroff or triple fault: run_until_ready answers Ok. *)
Shutdown(t) ==
    /\ host[t] = "guest"
    /\ guest' = [guest EXCEPT ![t] = "dead"]
    /\ DisarmAndReturn(t, "shutdown")
    /\ UNCHANGED <<flag, io, memory, cur>>

(* KVM_EXIT_FAIL_ENTRY and every exit reason the match does not name. *)
BadExit(t) ==
    /\ host[t] = "guest"
    /\ DisarmAndReturn(t, "exit")
    /\ UNCHANGED <<flag, io, memory, guestVars>>

(* vcpu.run()? leaves through the question mark: nothing disarms the timer. *)
KvmError(t) ==
    /\ host[t] = "guest"
    /\ Return(t, "kvm")
    /\ UNCHANGED <<process, io, memory, guestVars>>

-----------------------------------------------------------------------------
(* The guest, which moves only inside KVM_RUN                                *)

InGuest(t, pc) == host[t] = "guest" /\ guest[t] = pc

(* Init copies the command, then clears CMD_BUF and READY. *)
Fetch(t) ==
    /\ InGuest(t, "poll") /\ cmdbuf[t] # None
    /\ cur' = [cur EXCEPT ![t] = cmdbuf[t]]
    /\ cmdbuf' = [cmdbuf EXCEPT ![t] = None]
    /\ ready' = [ready EXCEPT ![t] = FALSE]
    /\ guest' = [guest EXCEPT ![t] = "exec"]
    /\ UNCHANGED <<process, hostVars, out>>

WriteOut(t) ==
    /\ InGuest(t, "exec") /\ cur[t] \notin Hang
    /\ out' = [out EXCEPT ![t] = cur[t]]
    /\ guest' = [guest EXCEPT ![t] = "wrote"]
    /\ UNCHANGED <<process, hostVars, cmdbuf, ready, cur>>

WriteReady(t) ==
    /\ InGuest(t, "wrote")
    /\ ready' = [ready EXCEPT ![t] = TRUE]
    /\ guest' = [guest EXCEPT ![t] = "spin"]
    /\ cur' = [cur EXCEPT ![t] = None]
    /\ UNCHANGED <<process, hostVars, cmdbuf, out>>

SpinDone(t) ==
    /\ InGuest(t, "spin")
    /\ guest' = [guest EXCEPT ![t] = "poll"]
    /\ UNCHANGED <<process, hostVars, memory, cur>>

GuestStep(t) == Fetch(t) \/ WriteOut(t) \/ WriteReady(t) \/ SpinDone(t)

(* The spin after READY and the idle loop write to the serial port. *)
SerialWrite(t) ==
    /\ guest[t] = "spin" \/ (guest[t] = "poll" /\ cmdbuf[t] = None)
    /\ IoExit(t)

HostStep(t) == Timeout(t) \/ Enter(t) \/ Eintr(t)
Exit(t) == IoExit(t) \/ HltExit(t) \/ Shutdown(t) \/ BadExit(t) \/ KvmError(t)

Next ==
    \/ \E t \in Thread : \/ \E c \in Cmd : Start(t, c)
                         \/ Expire(t) \/ HostStep(t) \/ Exit(t) \/ GuestStep(t)
    \/ \E r \in Thread \cup Bystander : Tick(r)

Spec == Init /\ [][Next]_vars

(* The host's own steps run; an armed timer fires, though nothing says on    *)
(* which thread; a guest that is entered again and again takes init's next   *)
(* step, which in the idle and spin loops is a serial write.                 *)
Fairness ==
    /\ \A t \in Thread : /\ WF_vars(HostStep(t))
                         /\ SF_vars(GuestStep(t) \/ SerialWrite(t))
    /\ WF_vars(\E r \in Thread \cup Bystander : Tick(r))

LiveSpec == Spec /\ Fairness

(* ... and time passes. *)
ClockSpec == LiveSpec /\ \A t \in Thread : WF_vars(Expire(t))

-----------------------------------------------------------------------------
(* run_code returns the output of the snippet it was given, never an         *)
(* earlier one's and never an empty buffer, as long as every run before it   *)
(* on this VM ended with READY (prepare_vm_for_execution's step 6 and init's *)
(* rule that the idle loop never sets READY).                                *)
OwnOutput ==
    \A t \in Thread :
        result[t].by = "ready" /\ trusted[t] => result[t].out = result[t].of

(* SIGALRM stops once the last run is over, so no later system call of the   *)
(* process is interrupted; the one exception is a failed KVM_RUN.            *)
TimerOffAtRest ==
    /\ \A t \in Thread : ~Running(t)
    /\ \A t \in Thread : result[t].by # "kvm"
    => ~armed

(* lazy.rs on the shared timer: a thread whose ticks went elsewhere still    *)
(* sees its guest finish, later, through the guest's I/O exits, and needs no *)
(* timeout for it.                                                           *)
FinishedRunReturns ==
    \A t \in Thread : Running(t) /\ ready[t] ~> ~Running(t)

(* A guest whose snippet hangs is given up when its time is over, also when  *)
(* other threads run VMs in parallel.                                        *)
HungRunKilled ==
    \A t \in Thread :
        InGuest(t, "exec") /\ cur[t] \in Hang /\ expired[t] ~> ~Running(t)
=============================================================================
