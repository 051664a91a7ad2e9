--------------------------- MODULE RunLoop_proofs ---------------------------
(***************************************************************************)
(* Proofs about RunLoop, for every set of threads, of snippets and every   *)
(* period of the READY check.  What makes a READY trustworthy is where the *)
(* command is at each moment of a run: in CMD_BUF, with init, in OUT_BUF   *)
(* or answered.  READY is in memory only in the last of the four, and a    *)
(* VM that is at rest has fetched everything it was sent.                  *)
(***************************************************************************)
EXTENDS RunLoop, TLAPS

AtLoop(t) == guest[t] \in {"poll", "spin"}

(* prepare_vm_for_execution is done; init has not fetched the command.     *)
Sent(t) == AtLoop(t) /\ cmdbuf[t] = asked[t] /\ ~ready[t]

(* Init has the command.                                                   *)
Executing(t) ==
    guest[t] = "exec" /\ cur[t] = asked[t] /\ cmdbuf[t] = None /\ ~ready[t]

(* Its output is in OUT_BUF; READY is not written yet.                     *)
Written(t) ==
    guest[t] = "wrote" /\ out[t] = asked[t] /\ cmdbuf[t] = None /\ ~ready[t]

(* READY is written after the output of the command that was asked.        *)
Answered(t) ==
    AtLoop(t) /\ out[t] = asked[t] /\ cmdbuf[t] = None /\ ready[t]

(* Where the command of a run is, on a VM all of whose runs ended by READY; *)
(* between runs init has nothing left to fetch.                            *)
Followed(t) ==
    /\ Running(t) => result[t].by = "none"
    /\ trusted[t] /\ Running(t) =>
         Sent(t) \/ Executing(t) \/ Written(t) \/ Answered(t)
    /\ trusted[t] /\ ~Running(t) => AtLoop(t) /\ cmdbuf[t] = None
    /\ result[t].by = "ready" /\ trusted[t] => result[t].out = result[t].of

IInv == TypeOK /\ \A t \in Thread : Followed(t)

-----------------------------------------------------------------------------
(* The types                                                               *)

LEMMA InitIsTyped == Init => TypeOK
  <1>1. 0 \in 0 .. IoPeriod - 1
    BY RunLoopAssumption
  <1>2. NoResult \in Results
    BY DEF NoResult, Results, Ending
  <1> SUFFICES ASSUME Init PROVE TypeOK
    OBVIOUS
  <1>3. result \in [Thread -> Results]
    BY <1>2 DEF Init
  <1>4. io \in [Thread -> 0 .. IoPeriod - 1]
    BY <1>1 DEF Init
  <1> QED BY <1>3, <1>4 DEF Init, TypeOK, HostAt, GuestAt

(* The counter of I/O exits stays below its period when it wraps.          *)
LEMMA WrapInRange ==
  ASSUME NEW k \in 0 .. IoPeriod - 1
  PROVE  (k + 1) % IoPeriod \in 0 .. IoPeriod - 1
  BY RunLoopAssumption

(* A run that is returned from leaves its thread idle with a result.       *)
LEMMA ReturnIsTyped ==
  ASSUME TypeOK, NEW t \in Thread, NEW by \in Ending, Return(t, by)
  PROVE  /\ host' \in [Thread -> HostAt]
         /\ asked' \in [Thread -> Cmd \cup {None}]
         /\ expired' \in [Thread -> BOOLEAN]
         /\ result' \in [Thread -> Results]
         /\ trusted' \in [Thread -> BOOLEAN]
  <1>1. [by |-> by, of |-> asked[t],
         out |-> IF by \in {"ready", "shutdown"} THEN out[t] ELSE None] \in Results
    BY DEF TypeOK, Results
  <1>2. host' \in [Thread -> HostAt] /\ asked' \in [Thread -> Cmd \cup {None}]
    BY DEF TypeOK, HostAt, Return
  <1>3. expired' \in [Thread -> BOOLEAN]
    BY DEF TypeOK, Return
  <1>4. result' \in [Thread -> Results]
    BY <1>1 DEF TypeOK, Return
  <1>5. trusted' \in [Thread -> BOOLEAN]
    BY DEF TypeOK, Return
  <1> QED BY <1>2, <1>3, <1>4, <1>5

LEMMA StepIsTyped == TypeOK /\ [Next]_vars => TypeOK'
  <1> SUFFICES ASSUME TypeOK, [Next]_vars PROVE TypeOK'
    OBVIOUS
  <1> USE DEF process, hostVars, memory, guestVars
  <1>1. ASSUME NEW t \in Thread, NEW c \in Cmd, Start(t, c)
        PROVE  TypeOK'
    BY <1>1, RunLoopAssumption DEF TypeOK, Start, Prepare, HostAt, Results, NoResult, Ending
  <1>2. ASSUME NEW t \in Thread, Expire(t)
        PROVE  TypeOK'
    BY <1>2 DEF TypeOK, Expire
  <1>3. ASSUME NEW t \in Thread, HostStep(t)
        PROVE  TypeOK'
    <2>1. CASE Timeout(t)
      BY <2>1, ReturnIsTyped DEF TypeOK, Timeout, DisarmAndReturn, Ending
    <2>2. CASE Enter(t)
      BY <2>2 DEF TypeOK, Enter, HostAt
    <2>3. CASE Eintr(t)
      <3>1. CASE flag /\ ready[t]
        BY <2>3, <3>1, ReturnIsTyped DEF TypeOK, Eintr, DisarmAndReturn, Ending
      <3>2. CASE ~(flag /\ ready[t])
        BY <2>3, <3>2 DEF TypeOK, Eintr, HostAt
      <3> QED BY <3>1, <3>2
    <2> QED BY <1>3, <2>1, <2>2, <2>3 DEF HostStep
  <1>4. ASSUME NEW t \in Thread, Exit(t)
        PROVE  TypeOK'
    <2>1. CASE IoExit(t)
      <3>0. io' \in [Thread -> 0 .. IoPeriod - 1]
        BY <2>1, WrapInRange DEF TypeOK, IoExit
      <3>1. CASE io'[t] = 0 /\ ready[t]
        BY <2>1, <3>0, <3>1, ReturnIsTyped DEF TypeOK, IoExit, DisarmAndReturn, Ending
      <3>2. CASE ~(io'[t] = 0 /\ ready[t])
        BY <2>1, <3>0, <3>2 DEF TypeOK, IoExit, HostAt
      <3> QED BY <3>1, <3>2
    <2>2. CASE HltExit(t)
      <3>1. CASE ready[t]
        BY <2>2, <3>1, ReturnIsTyped DEF TypeOK, HltExit, DisarmAndReturn, Ending
      <3>2. CASE ~ready[t]
        BY <2>2, <3>2 DEF TypeOK, HltExit, HostAt
      <3> QED BY <3>1, <3>2
    <2>3. CASE Shutdown(t)
      BY <2>3, ReturnIsTyped DEF TypeOK, Shutdown, DisarmAndReturn, Ending, GuestAt
    <2>4. CASE BadExit(t)
      BY <2>4, ReturnIsTyped DEF TypeOK, BadExit, DisarmAndReturn, Ending
    <2>5. CASE KvmError(t)
      BY <2>5, ReturnIsTyped DEF TypeOK, KvmError, Ending
    <2> QED BY <1>4, <2>1, <2>2, <2>3, <2>4, <2>5 DEF Exit
  <1>5. ASSUME NEW t \in Thread, GuestStep(t)
        PROVE  TypeOK'
    BY <1>5 DEF TypeOK, GuestStep, Fetch, WriteOut, WriteReady, SpinDone, GuestAt
  <1>6. ASSUME NEW r \in Thread \cup Bystander, Tick(r)
        PROVE  TypeOK'
    BY <1>6 DEF TypeOK, Tick, HostAt
  <1>7. CASE UNCHANGED vars
    BY <1>7 DEF TypeOK, vars
  <1> QED BY <1>1, <1>2, <1>3, <1>4, <1>5, <1>6, <1>7 DEF Next

(* The hosts, their guests and the process's timer are where RunLoop says  *)
(* they can be; in particular io_count stays below its period.             *)
THEOREM TypeCorrect == Spec => []TypeOK
  BY InitIsTyped, StepIsTyped, PTL DEF Spec

-----------------------------------------------------------------------------
(* The timer                                                               *)

(* The timer is armed by run_until_ready and disarmed by every way out of  *)
(* it but the failed KVM_RUN; a thread that is still running will disarm   *)
(* it, so it is off once none is.                                          *)
THEOREM TimerOff == Spec => []TimerOffAtRest
  <1>1. Init => TimerOffAtRest
    BY DEF Init, TimerOffAtRest
  <1>2. TypeOK /\ TimerOffAtRest /\ [Next]_vars => TimerOffAtRest'
    <2> SUFFICES ASSUME TypeOK, TimerOffAtRest, [Next]_vars,
                        \A t \in Thread : ~Running(t)',
                        \A t \in Thread : result'[t].by # "kvm"
                 PROVE  armed' = FALSE
      BY DEF TimerOffAtRest
    <2> USE DEF process, hostVars, memory, guestVars
    <2>1. ASSUME NEW t \in Thread, NEW c \in Cmd, Start(t, c)
          PROVE  FALSE
      BY <2>1 DEF TypeOK, Start, Running
    <2>2. ASSUME NEW t \in Thread, Expire(t) \/ Enter(t) \/ GuestStep(t)
          PROVE  FALSE
      BY <2>2 DEF TypeOK, Expire, Enter, GuestStep, Fetch, WriteOut, WriteReady,
                  SpinDone, InGuest, Running
    <2>3. ASSUME NEW t \in Thread, Timeout(t) \/ Shutdown(t) \/ BadExit(t)
          PROVE  armed' = FALSE
      BY <2>3 DEF Timeout, Shutdown, BadExit, DisarmAndReturn
    <2>4. ASSUME NEW t \in Thread, Eintr(t) \/ IoExit(t) \/ HltExit(t)
          PROVE  armed' = FALSE
      BY <2>4 DEF TypeOK, Eintr, IoExit, HltExit, DisarmAndReturn, Running
    <2>5. ASSUME NEW t \in Thread, KvmError(t)
          PROVE  FALSE
      BY <2>5 DEF TypeOK, KvmError, Return
    <2>6. ASSUME NEW r \in Thread \cup Bystander, Tick(r)
          PROVE  armed' = FALSE
      BY <2>6 DEF TypeOK, Tick, Running, TimerOffAtRest
    <2>7. CASE UNCHANGED vars
      BY <2>7 DEF vars, TimerOffAtRest, Running
    <2> QED BY <2>1, <2>2, <2>3, <2>4, <2>5, <2>6, <2>7 DEF Next, HostStep, Exit
  <1> QED BY <1>1, <1>2, TypeCorrect, PTL DEF Spec

-----------------------------------------------------------------------------
(* Whose output a run returns                                              *)

(* A step that leaves a VM, its host and its last result alone leaves its  *)
(* command where it is.                                                    *)
LEMMA LeftAlone ==
  ASSUME NEW u \in Thread, Followed(u),
         Running(u)' = Running(u),
         asked'[u] = asked[u], cmdbuf'[u] = cmdbuf[u], ready'[u] = ready[u],
         out'[u] = out[u], guest'[u] = guest[u], cur'[u] = cur[u],
         result'[u] = result[u], trusted'[u] = trusted[u]
  PROVE  Followed(u)'
  BY DEF Followed, Sent, Executing, Written, Answered, AtLoop

(* prepare_vm_for_execution clears READY and puts the command where init,  *)
(* which is at rest, will look for it.                                     *)
LEMMA StartFollows ==
  ASSUME IInv, NEW t \in Thread, NEW c \in Cmd, Start(t, c), NEW u \in Thread
  PROVE  Followed(u)'
  <1>1. CASE u = t
    <2>1. Running(t)' /\ ~Running(t)
      BY DEF Start, Running, IInv, TypeOK
    <2>2. asked'[t] = c /\ cmdbuf'[t] = c /\ ~ready'[t] /\ result'[t].by = "none"
      BY DEF Start, Prepare, NoResult, IInv, TypeOK
    <2>3. trusted'[t] = trusted[t] /\ guest'[t] = guest[t]
      BY DEF Start, guestVars
    <2> QED BY <1>1, <2>1, <2>2, <2>3 DEF IInv, Followed, Sent, AtLoop
  <1>2. CASE u # t
    BY <1>2, LeftAlone DEF IInv, TypeOK, Start, Prepare, Running, guestVars
  <1> QED BY <1>1, <1>2

(* A run that ends by READY has READY in memory, so what it reads is the   *)
(* output of its own command; one that ends otherwise is not trusted again. *)
LEMMA ReturnFollows ==
  ASSUME IInv, NEW t \in Thread, Running(t), NEW by \in Ending \ {"none"},
         by = "ready" => ready[t], Return(t, by),
         UNCHANGED memory, UNCHANGED cur,
         \A v \in Thread : guest'[v] = guest[v] \/ v = t,
         by = "ready" => guest'[t] = guest[t],
         NEW u \in Thread
  PROVE  Followed(u)'
  <1>1. CASE u = t
    <2>1. ~Running(t)'
      BY DEF Return, Running, IInv, TypeOK
    <2>2. /\ trusted'[t] = (trusted[t] /\ by = "ready")
          /\ result'[t].by = by
          /\ result'[t].of = asked[t]
          /\ by = "ready" => result'[t].out = out[t]
      BY DEF Return, IInv, TypeOK
    <2>3. CASE trusted[t] /\ by = "ready"
      <3>1. Answered(t)
        BY <2>3 DEF IInv, Followed, Sent, Executing, Written
      <3> QED BY <1>1, <2>1, <2>2, <2>3, <3>1 DEF Followed, Answered, AtLoop, memory
    <2>4. CASE ~(trusted[t] /\ by = "ready")
      BY <1>1, <2>1, <2>2, <2>4 DEF Followed
    <2> QED BY <2>3, <2>4
  <1>2. CASE u # t
    BY <1>2, LeftAlone DEF IInv, TypeOK, Return, Running, memory
  <1> QED BY <1>1, <1>2

(* Init's loop takes the command from CMD_BUF to OUT_BUF and answers once. *)
LEMMA GuestFollows ==
  ASSUME IInv, NEW t \in Thread, GuestStep(t), NEW u \in Thread
  PROVE  Followed(u)'
  <1> USE DEF process, hostVars, memory, guestVars
  <1>0. Running(u)' = Running(u) /\ Running(t)
    BY DEF GuestStep, Fetch, WriteOut, WriteReady, SpinDone, InGuest, Running
  <1>1. CASE u = t
    <2>0. UNCHANGED hostVars
      BY DEF GuestStep, Fetch, WriteOut, WriteReady, SpinDone
    <2>1. CASE Fetch(t)
      <3>1. /\ cmdbuf'[t] = None /\ ~ready'[t] /\ guest'[t] = "exec"
            /\ cur'[t] = cmdbuf[t] /\ cmdbuf[t] # None /\ guest[t] = "poll"
        BY <2>1 DEF Fetch, InGuest, IInv, TypeOK
      <3> QED BY <1>0, <1>1, <2>0, <3>1
              DEF IInv, Followed, Sent, Executing, Written, Answered
    <2>2. CASE WriteOut(t)
      <3>1. /\ out'[t] = cur[t] /\ guest'[t] = "wrote" /\ guest[t] = "exec"
            /\ UNCHANGED <<cmdbuf, ready>>
        BY <2>2 DEF WriteOut, InGuest, IInv, TypeOK
      <3> QED BY <1>0, <1>1, <2>0, <3>1
              DEF IInv, Followed, Sent, Executing, Written, Answered, AtLoop
    <2>3. CASE WriteReady(t)
      <3>1. /\ ready'[t] /\ guest'[t] = "spin" /\ guest[t] = "wrote"
            /\ UNCHANGED <<cmdbuf, out>>
        BY <2>3 DEF WriteReady, InGuest, IInv, TypeOK
      <3> QED BY <1>0, <1>1, <2>0, <3>1
              DEF IInv, Followed, Sent, Executing, Written, Answered, AtLoop
    <2>4. CASE SpinDone(t)
      <3>1. guest'[t] = "poll" /\ guest[t] = "spin" /\ UNCHANGED <<memory, cur>>
        BY <2>4 DEF SpinDone, InGuest, IInv, TypeOK
      <3> QED BY <1>0, <1>1, <2>0, <3>1
              DEF IInv, Followed, Sent, Executing, Written, Answered, AtLoop
    <2> QED BY <2>1, <2>2, <2>3, <2>4 DEF GuestStep
  <1>2. CASE u # t
    BY <1>0, <1>2, LeftAlone
       DEF IInv, TypeOK, GuestStep, Fetch, WriteOut, WriteReady, SpinDone
  <1> QED BY <1>1, <1>2

(* The host's loop without a return: the thread moves, its VM does not.    *)
LEMMA RoundFollows ==
  ASSUME IInv, NEW u \in Thread, Running(u)' = Running(u),
         UNCHANGED <<asked, result, trusted, memory, guestVars>>
  PROVE  Followed(u)'
  BY LeftAlone DEF IInv, memory, guestVars

LEMMA StepFollows ==
  ASSUME IInv, [Next]_vars, NEW u \in Thread
  PROVE  Followed(u)'
  <1> USE DEF process, hostVars
  <1>1. ASSUME NEW t \in Thread, NEW c \in Cmd, Start(t, c)
        PROVE  Followed(u)'
    BY <1>1, StartFollows
  <1>2. ASSUME NEW t \in Thread, Expire(t)
        PROVE  Followed(u)'
    BY <1>2, RoundFollows DEF Expire, Running
  <1>3. ASSUME NEW t \in Thread, HostStep(t)
        PROVE  Followed(u)'
    <2>1. CASE Timeout(t)
      BY <2>1, ReturnFollows DEF Timeout, DisarmAndReturn, Ending, Running, guestVars
    <2>2. CASE Enter(t)
      BY <2>2, RoundFollows DEF Enter, Running, IInv, TypeOK
    <2>3. CASE Eintr(t)
      <3>1. CASE flag /\ ready[t]
        BY <2>3, <3>1, ReturnFollows DEF Eintr, DisarmAndReturn, Ending, Running, guestVars
      <3>2. CASE ~(flag /\ ready[t])
        BY <2>3, <3>2, RoundFollows DEF Eintr, Running, IInv, TypeOK
      <3> QED BY <3>1, <3>2
    <2> QED BY <1>3, <2>1, <2>2, <2>3 DEF HostStep
  <1>4. ASSUME NEW t \in Thread, Exit(t)
        PROVE  Followed(u)'
    <2>1. CASE IoExit(t)
      <3>1. CASE io'[t] = 0 /\ ready[t]
        BY <2>1, <3>1, ReturnFollows DEF IoExit, DisarmAndReturn, Ending, Running, guestVars
      <3>2. CASE ~(io'[t] = 0 /\ ready[t])
        BY <2>1, <3>2, RoundFollows DEF IoExit, Running, IInv, TypeOK
      <3> QED BY <3>1, <3>2
    <2>2. CASE HltExit(t)
      <3>1. CASE ready[t]
        BY <2>2, <3>1, ReturnFollows DEF HltExit, DisarmAndReturn, Ending, Running, guestVars
      <3>2. CASE ~ready[t]
        BY <2>2, <3>2, RoundFollows DEF HltExit, Running, IInv, TypeOK
      <3> QED BY <3>1, <3>2
    <2>3. CASE Shutdown(t)
      BY <2>3, ReturnFollows
         DEF Shutdown, DisarmAndReturn, Ending, Running, IInv, TypeOK
    <2>4. CASE BadExit(t)
      BY <2>4, ReturnFollows DEF BadExit, DisarmAndReturn, Ending, Running, guestVars
    <2>5. CASE KvmError(t)
      BY <2>5, ReturnFollows DEF KvmError, Ending, Running, guestVars
    <2> QED BY <1>4, <2>1, <2>2, <2>3, <2>4, <2>5 DEF Exit
  <1>5. ASSUME NEW t \in Thread, GuestStep(t)
        PROVE  Followed(u)'
    BY <1>5, GuestFollows
  <1>6. ASSUME NEW r \in Thread \cup Bystander, Tick(r)
        PROVE  Followed(u)'
    BY <1>6, RoundFollows DEF Tick, Running
  <1>7. CASE UNCHANGED vars
    BY <1>7, RoundFollows DEF vars, Running
  <1> QED BY <1>1, <1>2, <1>3, <1>4, <1>5, <1>6, <1>7 DEF Next

THEOREM Invariance == Spec => []IInv
  <1>1. Init => IInv
    BY InitIsTyped DEF Init, IInv, Followed, Running, AtLoop, NoResult
  <1>2. IInv /\ [Next]_vars => IInv'
    BY StepIsTyped, StepFollows DEF IInv
  <1> QED BY <1>1, <1>2, PTL DEF Spec

(* run_code returns its own snippet's output, as long as every run before  *)
(* it on this VM ended with READY: however the threads interleave, whoever *)
(* takes the timer's signal and however often READY is looked at.          *)
THEOREM OutputIsOwn == Spec => []OwnOutput
  <1>1. IInv => OwnOutput
    BY DEF IInv, Followed, OwnOutput
  <1> QED BY <1>1, Invariance, PTL

=============================================================================
