--------------------------- MODULE ColdBoot_proofs ---------------------------
(***************************************************************************)
(* Proofs about ColdBoot, for every set of threads and commands, and every *)
(* timeout and hard limit.  A boot is a run that asks for nothing; from it *)
(* to the last command the invariant follows where the command is, and     *)
(* whether READY can be another's.                                         *)
(***************************************************************************)
EXTENDS ColdBoot, TLAPS

(* init is not up: it will announce the boot, the run that asked nothing.  *)
Booting(t) ==
    /\ guest[t] = "boot" /\ asked[t] = None
    /\ cmdbuf[t] = None /\ ~ready[t] /\ out[t] = None

(* prepare_vm_for_execution is done; init has not fetched the command.     *)
Sent(t) == guest[t] = "poll" /\ cmdbuf[t] = asked[t] /\ ~ready[t]

(* Init has the command.                                                   *)
Executing(t) ==
    guest[t] = "exec" /\ cur[t] = asked[t] /\ cmdbuf[t] = None /\ ~ready[t]

(* Its output is in OUT_BUF; READY is not written yet.                     *)
Written(t) ==
    guest[t] = "wrote" /\ out[t] = asked[t] /\ cmdbuf[t] = None /\ ~ready[t]

(* READY was written after what was asked.                                 *)
Answered(t) ==
    guest[t] = "poll" /\ out[t] = asked[t] /\ cmdbuf[t] = None /\ ready[t]

(* The guest is in a loop it never leaves: it says READY no more.          *)
Lost(t) == guest[t] = "stuck" /\ ~ready[t]

(* Where the command of a run is.  A new VM is clean, a kept one whose runs *)
(* all ended by READY has fetched everything it was sent.                  *)
Followed(t) ==
    /\ Running(t) => result[t].by = "none"
    /\ trusted[t] /\ Running(t) =>
         \/ Booting(t) \/ Sent(t) \/ Executing(t)
         \/ Written(t) \/ Answered(t) \/ Lost(t)
    /\ host[t] = "idle" /\ trusted[t] => guest[t] = "poll" /\ cmdbuf[t] = None
    /\ host[t] = "new" =>
         /\ guest[t] = "boot" /\ cmdbuf[t] = None /\ ~ready[t] /\ out[t] = None
         /\ asked[t] = None /\ trusted[t]
    /\ Running(t) /\ asked[t] = None => trusted[t] /\ cmdbuf[t] = None
    /\ result[t].by = "ready" /\ trusted[t] => result[t].out = result[t].of

IInv == TypeOK /\ \A t \in Thread : Followed(t)

-----------------------------------------------------------------------------
(* The types                                                               *)

LEMMA NoResultIsTyped ==
  NoResult \in [by : Ending, of : Cmd \cup {None}, out : Cmd \cup {None},
                late : BOOLEAN]
  BY DEF NoResult, Ending

LEMMA InitIsTyped == Init => TypeOK
  <1> SUFFICES ASSUME Init PROVE TypeOK
    OBVIOUS
  <1> USE ColdBootAssumption DEF Init
  <1>1. sleep \in [1 .. MaxRuns -> Sleeper \cup {Gone}]
    OBVIOUS
  <1>2. result \in [Thread -> [by : Ending, of : Cmd \cup {None},
                              out : Cmd \cup {None}, late : BOOLEAN]]
    BY NoResultIsTyped
  <1>3. runs \in 0 .. MaxRuns /\ elapsed \in [Thread -> 0 .. HardLimit + 1]
    OBVIOUS
  <1> QED BY <1>1, <1>2, <1>3 DEF TypeOK, HostAt, GuestAt

(* A run that begins has a timer thread of its own, unless none was to be  *)
(* had.                                                                    *)
LEMMA BeginIsTyped ==
  ASSUME TypeOK, NEW t \in Thread, NEW c \in Cmd \cup {None},
         NEW spawned \in BOOLEAN, Begin(t, c, spawned),
         cmdbuf' \in [Thread -> Cmd \cup {None}],
         ready' \in [Thread -> BOOLEAN], out' \in [Thread -> Cmd \cup {None}]
  PROVE  TypeOK'
  <1> USE ColdBootAssumption DEF Begin, guestVars
  <1>1. runs' \in 0 .. MaxRuns /\ runs + 1 \in 1 .. MaxRuns
    BY DEF TypeOK
  <1>2. [of |-> t, left |-> Timeout] \in Sleeper
    BY DEF Sleeper
  <1>3. sleep' \in [1 .. MaxRuns -> Sleeper \cup {Gone}]
    BY <1>1, <1>2 DEF TypeOK
  <1>4. result' \in [Thread -> [by : Ending, of : Cmd \cup {None},
                               out : Cmd \cup {None}, late : BOOLEAN]]
    BY NoResultIsTyped DEF TypeOK
  <1>5. elapsed' \in [Thread -> 0 .. HardLimit + 1]
    BY DEF TypeOK
  <1> QED BY <1>1, <1>3, <1>4, <1>5 DEF TypeOK, HostAt

LEMMA ReturnIsTyped ==
  ASSUME TypeOK, NEW t \in Thread, NEW by \in Ending, Return(t, by), flag' \in BOOLEAN
  PROVE  TypeOK'
  <1> DEFINE r == [by |-> by, of |-> asked[t], late |-> elapsed[t] >= Timeout,
                   out |-> IF by = "ready" THEN out[t] ELSE None]
  <1>1. r \in [by : Ending, of : Cmd \cup {None}, out : Cmd \cup {None},
               late : BOOLEAN]
    BY ColdBootAssumption DEF TypeOK
  <1>2. result' \in [Thread -> [by : Ending, of : Cmd \cup {None},
                               out : Cmd \cup {None}, late : BOOLEAN]]
    BY <1>1 DEF Return, TypeOK
  <1>3. /\ host' \in [Thread -> HostAt]
        /\ asked' \in [Thread -> Cmd \cup {None}]
        /\ elapsed' \in [Thread -> 0 .. HardLimit + 1]
    BY ColdBootAssumption DEF Return, TypeOK, HostAt
  <1>4. /\ guest' \in [Thread -> GuestAt]
        /\ ready' \in [Thread -> BOOLEAN]
        /\ out' \in [Thread -> Cmd \cup {None}]
    BY DEF Return, TypeOK, GuestAt
  <1>5. trusted' \in [Thread -> BOOLEAN]
    BY DEF Return, TypeOK
  <1> QED BY <1>2, <1>3, <1>4, <1>5 DEF Return, TypeOK

LEMMA GotoIsTyped ==
  ASSUME TypeOK, NEW t \in Thread, NEW place \in HostAt, Goto(t, place),
         flag' \in BOOLEAN
  PROVE  TypeOK'
  BY DEF TypeOK, Goto, memory, guestVars

(* A signal goes to the thread that started the timer, wherever that is.   *)
LEMMA FireIsTyped ==
  ASSUME TypeOK, NEW k \in 1 .. MaxRuns, Fire(k)
  PROVE  TypeOK'
  <1>1. sleep' \in [1 .. MaxRuns -> Sleeper \cup {Gone}]
    BY DEF TypeOK, Fire
  <1>2. host' \in [Thread -> HostAt]
    BY DEF TypeOK, Fire, HostAt
  <1> QED BY <1>1, <1>2 DEF TypeOK, Fire, memory, guestVars

LEMMA TickIsTyped ==
  ASSUME TypeOK, Tick
  PROVE  TypeOK'
  <1>1. ASSUME NEW k \in 1 .. MaxRuns, Sleeping(k)
        PROVE  [sleep[k] EXCEPT !.left = @ - 1] \in Sleeper
    <2>1. sleep[k] \in Sleeper
      BY <1>1 DEF TypeOK, Sleeping
    <2> QED BY <1>1, <2>1, ColdBootAssumption DEF Sleeper, Sleeping
  <1>2. sleep' \in [1 .. MaxRuns -> Sleeper \cup {Gone}]
    BY <1>1 DEF TypeOK, Tick
  <1>3. elapsed' \in [Thread -> 0 .. HardLimit + 1]
    BY ColdBootAssumption DEF TypeOK, Tick, Counting
  <1> QED BY <1>2, <1>3 DEF TypeOK, Tick, memory, guestVars

LEMMA StepIsTyped == TypeOK /\ [Next]_vars => TypeOK'
  <1> SUFFICES ASSUME TypeOK, [Next]_vars PROVE TypeOK'
    OBVIOUS
  <1>1. CASE Tick
    BY <1>1, TickIsTyped
  <1>2. ASSUME NEW t \in Thread, NEW spawned \in BOOLEAN, Boot(t, spawned)
        PROVE  TypeOK'
    BY <1>2, BeginIsTyped DEF Boot, memory, TypeOK
  <1>3. ASSUME NEW t \in Thread, NEW spawned \in BOOLEAN, NEW c \in Cmd,
               RunCode(t, c, spawned)
        PROVE  TypeOK'
    BY <1>3, BeginIsTyped DEF RunCode, Prepare, TypeOK
  <1>4. ASSUME NEW t \in Thread, HostStep(t)
        PROVE  TypeOK'
    <2>1. CASE Head(t)
      BY <2>1, ReturnIsTyped, GotoIsTyped DEF Head, Ending, HostAt, TypeOK
    <2>2. CASE Enter(t)
      BY <2>2, GotoIsTyped DEF Enter, HostAt, TypeOK
    <2>3. CASE Eintr(t)
      BY <2>3, ReturnIsTyped, GotoIsTyped DEF Eintr, CheckReady, Ending, HostAt
    <2> QED BY <1>4, <2>1, <2>2, <2>3 DEF HostStep
  <1>5. ASSUME NEW t \in Thread, VcpuExit(t)
        PROVE  TypeOK'
    BY <1>5, ReturnIsTyped, GotoIsTyped
       DEF VcpuExit, Exit, MmioExit, BadExit, CheckReady, Ending, HostAt, TypeOK
  <1>6. ASSUME NEW t \in Thread, Eintr(t)
        PROVE  TypeOK'
    BY <1>6, ReturnIsTyped, GotoIsTyped DEF Eintr, CheckReady, Ending, HostAt
  <1>7. ASSUME NEW t \in Thread, GuestStep(t)
        PROVE  TypeOK'
    BY <1>7 DEF GuestStep, Booted, Fetch, WriteOut, WriteReady, GetStuck, TypeOK,
                GuestAt, shared, hostVars, memory
  <1>8. ASSUME NEW k \in 1 .. MaxRuns, Fire(k)
        PROVE  TypeOK'
    BY <1>8, FireIsTyped
  <1>9. CASE UNCHANGED vars
    BY <1>9 DEF TypeOK, vars, shared, hostVars, memory, guestVars
  <1> QED BY <1>1, <1>2, <1>3, <1>4, <1>5, <1>6, <1>7, <1>8, <1>9 DEF Next

(* The loops, the guests and the timer threads stay within their types:    *)
(* among them that every timer signals a thread, and that no clock runs    *)
(* past the hard limit by more than the unit in which it is looked at.     *)
THEOREM TypeCorrect == Spec => []TypeOK
  BY InitIsTyped, StepIsTyped, PTL DEF Spec

-----------------------------------------------------------------------------
(* Whose output a run returns                                              *)

(* A step that leaves a VM and its last result alone, and its host in or   *)
(* out of a run, leaves its command where it is.                           *)
LEMMA LeftAlone ==
  ASSUME NEW u \in Thread, Followed(u),
         host'[u] = host[u] \/ (Running(u) /\ Running(u)'),
         asked'[u] = asked[u], cmdbuf'[u] = cmdbuf[u], ready'[u] = ready[u],
         out'[u] = out[u], guest'[u] = guest[u], cur'[u] = cur[u],
         result'[u] = result[u], trusted'[u] = trusted[u]
  PROVE  Followed(u)'
  BY DEF Followed, Booting, Sent, Executing, Written, Answered, Lost, Running

(* A boot begins on clean memory; a command goes to an init that is at     *)
(* rest, with READY cleared.                                               *)
LEMMA BootFollows ==
  ASSUME IInv, NEW t \in Thread, NEW spawned \in BOOLEAN, Boot(t, spawned),
         NEW u \in Thread
  PROVE  Followed(u)'
  <1> USE DEF Boot, Begin, memory, guestVars
  <1>1. CASE u = t
    <2>1. Running(t)' /\ asked'[t] = None /\ result'[t].by = "none"
      BY DEF Running, NoResult, IInv, TypeOK
    <2> QED BY <1>1, <2>1 DEF IInv, Followed, Booting, Running
  <1>2. CASE u # t
    BY <1>2, LeftAlone DEF IInv, TypeOK
  <1> QED BY <1>1, <1>2

LEMMA RunCodeFollows ==
  ASSUME IInv, NEW t \in Thread, NEW spawned \in BOOLEAN, NEW c \in Cmd,
         RunCode(t, c, spawned), NEW u \in Thread
  PROVE  Followed(u)'
  <1> USE DEF RunCode, Begin, Prepare, guestVars
  <1>1. CASE u = t
    <2>1. Running(t)' /\ asked'[t] = c /\ result'[t].by = "none"
      BY DEF Running, NoResult, IInv, TypeOK
    <2>2. cmdbuf'[t] = c /\ ~ready'[t]
      BY DEF IInv, TypeOK
    <2> QED BY <1>1, <2>1, <2>2, ColdBootAssumption
            DEF IInv, Followed, Sent, Running
  <1>2. CASE u # t
    BY <1>2, LeftAlone DEF IInv, TypeOK
  <1> QED BY <1>1, <1>2

(* A run that ends by READY has READY in memory, so what it reads is the   *)
(* output of its own command; a boot that ends otherwise takes its VM with *)
(* it, and a command that ends otherwise leaves a VM that is not trusted.  *)
LEMMA ReturnFollows ==
  ASSUME IInv, NEW t \in Thread, Running(t), NEW by \in Ending \ {"none"},
         by = "ready" => ready[t], Return(t, by), NEW u \in Thread
  PROVE  Followed(u)'
  <1>1. CASE u = t
    <2>1. ~Running(t)' /\ asked'[t] = None
      BY DEF Return, Running, IInv, TypeOK
    <2>2. /\ result'[t].by = by
          /\ result'[t].of = asked[t]
          /\ by = "ready" => result'[t].out = out[t]
      BY DEF Return, IInv, TypeOK
    <2>3. CASE by = "ready"
      <3>1. host'[t] = "idle" /\ trusted'[t] = trusted[t]
        BY <2>3 DEF Return, IInv, TypeOK
      <3>2. UNCHANGED <<guest, ready, out, cmdbuf>>
        BY <2>3, <3>1 DEF Return
      <3>3. trusted[t] => Answered(t)
        BY <2>3 DEF IInv, Followed, Booting, Sent, Executing, Written, Lost
      <3> QED BY <1>1, <2>1, <2>2, <2>3, <3>1, <3>2, <3>3 DEF Followed, Answered, Running
    <2>4. CASE by # "ready" /\ asked[t] = None
      <3>1. host'[t] = "new" /\ trusted'[t] /\ cmdbuf'[t] = None
        BY <2>4 DEF Return, IInv, TypeOK, Followed
      <3>2. guest'[t] = "boot" /\ ~ready'[t] /\ out'[t] = None
        BY <2>4, <3>1 DEF Return, IInv, TypeOK
      <3> QED BY <1>1, <2>1, <2>2, <2>4, <3>1, <3>2 DEF Followed, Running
    <2>5. CASE by # "ready" /\ asked[t] # None
      <3>1. host'[t] = "idle" /\ ~trusted'[t]
        BY <2>5 DEF Return, IInv, TypeOK
      <3> QED BY <1>1, <2>1, <2>2, <2>5, <3>1 DEF Followed, Running
    <2> QED BY <2>3, <2>4, <2>5
  <1>2. CASE u # t
    BY <1>2, LeftAlone DEF IInv, TypeOK, Return
  <1> QED BY <1>1, <1>2

(* The host's loop without a return: the thread moves, its VM does not.    *)
LEMMA GotoFollows ==
  ASSUME IInv, NEW t \in Thread, Running(t), NEW place \in {"top", "enter", "guest"},
         Goto(t, place), NEW u \in Thread
  PROVE  Followed(u)'
  <1>1. host'[u] = host[u] \/ (Running(u) /\ Running(u)')
    BY DEF Goto, Running, IInv, TypeOK
  <1> QED BY <1>1, LeftAlone DEF Goto, IInv, memory, guestVars

(* Init's loop takes the command from CMD_BUF to OUT_BUF and answers once. *)
LEMMA GuestFollows ==
  ASSUME IInv, NEW t \in Thread, GuestStep(t), NEW u \in Thread
  PROVE  Followed(u)'
  <1> USE DEF shared, hostVars, memory, guestVars
  <1>0. Running(t) /\ host' = host /\ host[t] = "guest"
    BY DEF GuestStep, Booted, Fetch, WriteOut, WriteReady, GetStuck, InGuest, Running
  <1>1. CASE u = t
    <2>0. UNCHANGED hostVars /\ Running(t)'
      BY <1>0 DEF GuestStep, Booted, Fetch, WriteOut, WriteReady, GetStuck, Running
    <2> USE <1>0, <1>1, <2>0
        DEF IInv, Followed, Booting, Sent, Executing, Written, Answered, Lost
    <2>1. CASE Booted(t)
      <3>1. /\ ready'[t] /\ guest[t] = "boot" /\ guest'[t] = "poll"
            /\ UNCHANGED <<cmdbuf, out>>
        BY <2>1 DEF Booted, InGuest, TypeOK
      <3> QED BY <3>1
    <2>2. CASE Fetch(t)
      <3>1. /\ cmdbuf'[t] = None /\ ~ready'[t] /\ guest'[t] = "exec"
            /\ cur'[t] = cmdbuf[t] /\ cmdbuf[t] # None /\ guest[t] = "poll"
        BY <2>2 DEF Fetch, InGuest, TypeOK
      <3> QED BY <3>1
    <2>3. CASE WriteOut(t)
      <3>1. /\ out'[t] = cur[t] /\ guest'[t] = "wrote" /\ guest[t] = "exec"
            /\ UNCHANGED <<cmdbuf, ready>>
        BY <2>3 DEF WriteOut, InGuest, TypeOK
      <3> QED BY <3>1
    <2>4. CASE WriteReady(t)
      <3>1. /\ ready'[t] /\ guest'[t] = "poll" /\ guest[t] = "wrote"
            /\ UNCHANGED <<cmdbuf, out>>
        BY <2>4 DEF WriteReady, InGuest, TypeOK
      <3> QED BY <3>1
    <2>5. CASE GetStuck(t)
      <3>1. guest'[t] = "stuck" /\ guest[t] \in {"boot", "exec"} /\ UNCHANGED memory
        BY <2>5 DEF GetStuck, InGuest, TypeOK
      <3> QED BY <3>1
    <2> QED BY <2>1, <2>2, <2>3, <2>4, <2>5 DEF GuestStep
  <1>2. CASE u # t
    BY <1>0, <1>2, LeftAlone
       DEF IInv, TypeOK, GuestStep, Booted, Fetch, WriteOut, WriteReady, GetStuck
  <1> QED BY <1>1, <1>2

LEMMA StepFollows ==
  ASSUME IInv, [Next]_vars, NEW u \in Thread
  PROVE  Followed(u)'
  <1>1. CASE Tick
    BY <1>1, LeftAlone DEF Tick, IInv, memory, guestVars
  <1>2. ASSUME NEW t \in Thread, NEW spawned \in BOOLEAN, Boot(t, spawned)
        PROVE  Followed(u)'
    BY <1>2, BootFollows
  <1>3. ASSUME NEW t \in Thread, NEW spawned \in BOOLEAN, NEW c \in Cmd,
               RunCode(t, c, spawned)
        PROVE  Followed(u)'
    BY <1>3, RunCodeFollows
  <1>4. ASSUME NEW t \in Thread, Eintr(t)
        PROVE  Followed(u)'
    BY <1>4, ReturnFollows, GotoFollows DEF Eintr, CheckReady, Ending, Running
  <1>5. ASSUME NEW t \in Thread, HostStep(t)
        PROVE  Followed(u)'
    <2>1. CASE Head(t)
      BY <2>1, ReturnFollows, GotoFollows DEF Head, Ending, Running
    <2>2. CASE Enter(t)
      BY <2>2, GotoFollows DEF Enter, Running
    <2> QED BY <1>4, <1>5, <2>1, <2>2 DEF HostStep
  <1>6. ASSUME NEW t \in Thread, VcpuExit(t)
        PROVE  Followed(u)'
    BY <1>6, ReturnFollows, GotoFollows
       DEF VcpuExit, Exit, MmioExit, BadExit, CheckReady, Ending, Running
  <1>7. ASSUME NEW t \in Thread, GuestStep(t)
        PROVE  Followed(u)'
    BY <1>7, GuestFollows
  <1>8. ASSUME NEW k \in 1 .. MaxRuns, Fire(k)
        PROVE  Followed(u)'
    BY <1>8, LeftAlone DEF Fire, Running, IInv, TypeOK, memory, guestVars
  <1>9. CASE UNCHANGED vars
    BY <1>9, LeftAlone DEF vars, IInv, hostVars, memory, guestVars
  <1> QED BY <1>1, <1>2, <1>3, <1>4, <1>5, <1>6, <1>7, <1>8, <1>9 DEF Next

THEOREM Invariance == Spec => []IInv
  <1>1. Init => IInv
    BY InitIsTyped DEF Init, IInv, Followed, Running, NoResult
  <1>2. IInv /\ [Next]_vars => IInv'
    BY StepIsTyped, StepFollows DEF IInv
  <1> QED BY <1>1, <1>2, PTL DEF Spec

(* A run that ended by READY returns what its own command wrote, and a     *)
(* boot an empty buffer, as long as every run before it on the VM ended    *)
(* with READY: whichever timer fires late, and for whichever thread.       *)
THEOREM OutputIsOwn == Spec => []OwnOutput
  <1>1. IInv => OwnOutput
    BY DEF IInv, Followed, OwnOutput
  <1> QED BY <1>1, Invariance, PTL

=============================================================================
