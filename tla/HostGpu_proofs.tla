---------------------------- MODULE HostGpu_proofs ----------------------------
(***************************************************************************)
(* Proofs about HostGpu, for every set of processes and variants and any   *)
(* number of commands.  Nothing in a reply says which command it answers,  *)
(* so the invariant follows the one command that can be under way: in the  *)
(* worker's stdin, with the worker, or in the control pipe; and says that  *)
(* both pipes are empty whenever the backend is between calls.             *)
(***************************************************************************)
EXTENDS HostGpu, TLAPS

Assumptions == ProcAssumption /\ VariantAssumption /\ CallAssumption

Answer == [kind : Kinds, tag : 0..MaxCall]
Request == [kind : {"exec", "ping", "shutdown"}, tag : 0..MaxCall]

(* The worker between calls: nothing in its pipes, and nothing to do.      *)
Resting(p) ==
  proc[p] \in {"ready", "dead"} /\ input[p] = <<>> /\ reply[p] = <<>>

(* The new worker: it has run nothing, and has said READY, an error or     *)
(* nothing yet; a READY may be followed by its death.                      *)
Starting(p) ==
  /\ input[p] = <<>> /\ p \notin ran
  /\ \/ proc[p] = "booting" /\ reply[p] = <<>>
     \/ proc[p] \in {"ready", "dead"} /\ reply[p] = <<Message("ready", 0)>>
     \/ proc[p] = "dead" /\ reply[p] \in {<<>>, <<Message("error", 0)>>}

(* The worker while a call waits: the command it was sent is in one place, *)
(* or was lost with it.                                                    *)
Serving(p) ==
  \/ proc[p] = "ready" /\ input[p] = <<Message(goal, call)>> /\ reply[p] = <<>>
  \/ /\ proc[p] = "busy" /\ goal = "exec" /\ job[p] = call
     /\ input[p] = <<>> /\ reply[p] = <<>>
  \/ /\ proc[p] \in {"ready", "dead"} /\ input[p] = <<>>
     /\ reply[p] = <<Message(goal, call)>>
  \/ proc[p] = "dead" /\ input[p] = <<>> /\ reply[p] = <<>>

Typed ==
  /\ phase \in Phases /\ initialized \in BOOLEAN
  /\ asked \in Variant \cup {NoVariant} /\ variant \in Variant \cup {NoVariant}
  /\ worker \in Proc \cup {NoProc} /\ child \in Proc \cup {NoProc}
  /\ call \in 0..MaxCall /\ last.tag \in 0..MaxCall
  /\ proc \in [Proc -> States]
  /\ input \in [Proc -> Seq(Request)] /\ reply \in [Proc -> Seq(Answer)]
  /\ job \in [Proc -> 0..MaxCall] /\ ran \subseteq Proc

(* Which process there is in each phase, and what it is at.                *)
Protocol ==
  /\ initialized = (worker # NoProc)
  /\ phase \in {"spawn", "starting", "gone"} => worker = NoProc
  /\ (child # NoProc) = (phase = "starting")
  /\ phase = "starting" => Starting(child)
  /\ phase \in {"spawn", "starting"} => goal \in {"init", "reset"}
  /\ phase = "idle" /\ worker # NoProc => Resting(worker)
  /\ phase = "waiting" =>
       worker # NoProc /\ goal \in {"exec", "ping"} /\ Serving(worker)
  /\ phase = "stopping" =>
       /\ goal \in {"timeout", "reset", "destroy", "drop"}
       /\ worker # NoProc => proc[worker] \in {"ready", "busy", "dead"}

IInv == Typed /\ Protocol /\ NoStrayWorker /\ OwnReply /\ ResetIsInit

-----------------------------------------------------------------------------
(* Pipes hold one line at most while someone waits for it.                 *)

LEMMA OneLine ==
  ASSUME NEW m
  PROVE  /\ Head(<<m>>) = m /\ Tail(<<m>>) = <<>>
         /\ Append(<<>>, m) = <<m>> /\ <<m>> # <<>> /\ Len(<<m>>) = 1
  OBVIOUS

LEMMA Lines ==
  ASSUME NEW S, NEW s \in Seq(S)
  PROVE  /\ <<>> \in Seq(S) /\ Len(<<>>) = 0
         /\ \A m \in S : Append(s, m) \in Seq(S)
         /\ s # <<>> => Head(s) \in S /\ Tail(s) \in Seq(S)
  OBVIOUS

LEMMA Widen ==
  ASSUME NEW S, NEW T, S \subseteq T, NEW s \in Seq(S)
  PROVE  s \in Seq(T)
  OBVIOUS

LEMMA ZeroTag == Assumptions => 0 \in 0..MaxCall
  BY DEF Assumptions, CallAssumption

LEMMA MessageFacts ==
  /\ \A k, n : Message(k, n).kind = k /\ Message(k, n).tag = n
  /\ \A k \in Kinds, n \in 0..MaxCall : Message(k, n) \in Answer
  /\ \A k \in {"exec", "ping", "shutdown"}, n \in 0..MaxCall : Message(k, n) \in Request
  /\ Request \subseteq Answer
  BY DEF Message, Answer, Request, Kinds

(* The reply of a command that was sent is the only one there can be.      *)
LEMMA TypedIsTypeOK ==
  ASSUME Assumptions, IInv
  PROVE  TypeOK
  <1> USE DEF IInv
  <1>1. \A p \in Proc : input[p] \in Seq([kind : Kinds, tag : 0..MaxCall])
    <2>1. \A p \in Proc : input[p] \in Seq(Request)
      BY DEF Typed
    <2>2. Request \subseteq [kind : Kinds, tag : 0..MaxCall]
      BY MessageFacts DEF Answer
    <2>3. ASSUME NEW p \in Proc
          PROVE  input[p] \in Seq([kind : Kinds, tag : 0..MaxCall])
      BY <2>1, <2>2, Widen
    <2> QED BY <2>3
  <1>2. \A p \in Proc : reply[p] \in Seq([kind : Kinds, tag : 0..MaxCall])
    BY DEF Typed, Answer
  <1>3. ASSUME phase # "stopping", worker # NoProc
        PROVE  Len(input[worker]) + Len(reply[worker]) + (IF proc[worker] = "busy" THEN 1 ELSE 0)
                 <= (IF phase = "waiting" THEN 1 ELSE 0)
    <2> DEFINE i == Len(input[worker])
               r == Len(reply[worker])
    <2>0. Len(<<>>) = 0 /\ \A m : Len(<<m>>) = 1
      OBVIOUS
    <2>1. CASE phase = "idle"
      <3>1. i = 0 /\ r = 0 /\ proc[worker] # "busy"
        BY <1>3, <2>0, <2>1 DEF Protocol, Resting
      <3> HIDE DEF i, r
      <3>2. i + r + (IF proc[worker] = "busy" THEN 1 ELSE 0) <= (IF phase = "waiting" THEN 1 ELSE 0)
        BY <2>1, <3>1
      <3> QED BY <3>2 DEF i, r
    <2>2. CASE phase = "waiting"
      <3>1. \/ i = 1 /\ r = 0 /\ proc[worker] # "busy"
            \/ i = 0 /\ r = 1 /\ proc[worker] # "busy"
            \/ i = 0 /\ r = 0
        BY <1>3, <2>0, <2>2 DEF Protocol, Serving
      <3> HIDE DEF i, r
      <3>2. i + r + (IF proc[worker] = "busy" THEN 1 ELSE 0) <= (IF phase = "waiting" THEN 1 ELSE 0)
        BY <2>2, <3>1
      <3> QED BY <3>2 DEF i, r
    <2>3. CASE phase \in {"spawn", "starting", "gone"}
      BY <1>3, <2>3 DEF Protocol
    <2> QED BY <1>3, <2>1, <2>2, <2>3 DEF Typed, Phases
  <1> QED BY <1>1, <1>2, <1>3 DEF Typed, Protocol, TypeOK

LEMMA InitEstablishes == Assumptions /\ Init => IInv
  <1> SUFFICES ASSUME Assumptions, Init PROVE IInv
    OBVIOUS
  <1> USE DEF Init, Assumptions
  <1>1. Typed
    <2>1. input \in [Proc -> Seq(Request)] /\ reply \in [Proc -> Seq(Answer)]
      BY Lines
    <2>2. last.tag = 0
      BY DEF Ended
    <2> QED BY <2>1, <2>2, ZeroTag DEF Typed, Phases, States
  <1>2. Protocol
    BY DEF Protocol
  <1>3. NoStrayWorker /\ OwnReply /\ ResetIsInit
    BY DEF NoStrayWorker, OwnReply, ResetIsInit, Ended
  <1> QED BY <1>1, <1>2, <1>3 DEF IInv

-----------------------------------------------------------------------------
(* The backend's steps.                                                    *)

(* A call that returns without touching a process.                         *)
LEMMA ReturnKeeps ==
  ASSUME Assumptions, IInv, NEW op, NEW ok \in BOOLEAN, Return(op, ok, 0),
         phase \notin {"starting", "stopping"}, op = "reset" => ~ok,
         initialized' = initialized, worker' = worker, child' = NoProc, UNCHANGED call,
         UNCHANGED processes, asked' \in Variant \cup {NoVariant},
         variant' \in Variant \cup {NoVariant},
         phase = "waiting" => Resting(worker)
  PROVE  IInv'
  <1> USE DEF IInv, processes, Assumptions
  <1>1. last'.tag = 0 /\ phase' = "idle"
    BY DEF Return, Ended
  <1>2. Typed'
    BY <1>1 DEF Typed, Phases, ProcAssumption, CallAssumption
  <1>3. child = NoProc
    BY DEF Protocol
  <1>4. Protocol'
    BY <1>1 DEF Protocol, Resting, Typed, Phases
  <1>5. NoStrayWorker'
    BY <1>3 DEF NoStrayWorker
  <1>6. OwnReply' /\ ResetIsInit'
    BY <1>1 DEF OwnReply, ResetIsInit, Return, Ended
  <1> QED BY <1>2, <1>4, <1>5, <1>6

LEMMA InitAgainKeeps ==
  ASSUME Assumptions, IInv, NEW v \in Variant, InitAgain(v)
  PROVE  IInv'
  BY ReturnKeeps DEF InitAgain, IInv, Typed, Protocol

LEMMA InitFreshKeeps ==
  ASSUME Assumptions, IInv, NEW v \in Variant, InitFresh(v)
  PROVE  IInv'
  <1>1. CASE v \in Supported
    <2> USE <1>1 DEF IInv, InitFresh, GoOn, backend, processes
    <2>1. phase' = "spawn" /\ goal' = "init" /\ phase = "idle" /\ worker = NoProc
      BY DEF Protocol
    <2>2. Typed'
      BY DEF Typed, Phases
    <2>3. Protocol'
      BY <2>1 DEF Protocol
    <2>4. NoStrayWorker' /\ OwnReply' /\ ResetIsInit'
      BY <2>1 DEF NoStrayWorker, OwnReply, ResetIsInit
    <2> QED BY <2>2, <2>3, <2>4
  <1>2. CASE v \notin Supported
    BY <1>2, ReturnKeeps DEF InitFresh, backend, IInv, Typed, Protocol
  <1> QED BY <1>1, <1>2

(* The new process is one nobody has: all that exist are the backend's.    *)
LEMMA SpawnKeeps ==
  ASSUME Assumptions, IInv, NEW p \in Proc, Spawn(p)
  PROVE  IInv'
  <1> USE DEF IInv, Spawn, GoOn, backend
  <1>1. phase' = "starting" /\ worker = NoProc /\ child = NoProc /\ p # NoProc
    BY DEF Protocol, Assumptions, ProcAssumption
  <1>2. /\ proc'[p] = "booting" /\ input'[p] = <<>> /\ reply'[p] = <<>> /\ p \notin ran'
        /\ \A q \in Proc \ {p} : proc'[q] = proc[q]
    BY DEF Typed
  <1>3. Typed'
    <2>1. input' \in [Proc -> Seq(Request)] /\ reply' \in [Proc -> Seq(Answer)]
      BY Lines DEF Typed
    <2> QED BY <2>1 DEF Typed, Phases, States, Assumptions, CallAssumption
  <1>4. Protocol'
    BY <1>1, <1>2 DEF Protocol, Starting
  <1>5. NoStrayWorker'
    BY <1>1, <1>2 DEF NoStrayWorker
  <1>6. OwnReply' /\ ResetIsInit'
    BY <1>1 DEF OwnReply, ResetIsInit
  <1> QED BY <1>3, <1>4, <1>5, <1>6

LEMMA SpawnFailsKeeps ==
  ASSUME Assumptions, IInv, SpawnFails
  PROVE  IInv'
  BY ReturnKeeps DEF SpawnFails, backend, IInv, Typed, Protocol

(* READY was the new worker's only line, and it has run nothing.           *)
LEMMA SpawnReadyKeeps ==
  ASSUME Assumptions, IInv, SpawnReady
  PROVE  IInv'
  <1> USE DEF IInv, SpawnReady
  <1>1. child \in Proc /\ child # NoProc /\ Starting(child) /\ worker = NoProc
    BY DEF Protocol, Typed
  <1>2. proc[child] \in {"ready", "dead"} /\ reply[child] = <<Message("ready", 0)>>
    BY <1>1, OneLine, MessageFacts DEF Starting
  <1>3. /\ reply'[child] = <<>> /\ reply' \in [Proc -> Seq(Answer)]
        /\ input[child] = <<>> /\ child \notin ran
    BY <1>1, <1>2, OneLine, Lines DEF Typed, Starting
  <1>4. phase' = "idle" /\ last' = Ended(goal, TRUE, 0) /\ last'.tag = 0
    BY DEF Return, Ended
  <1>5. Typed'
    <2>1. last'.tag \in 0..MaxCall
      BY <1>4, ZeroTag
    <2>2. variant' \in Variant \cup {NoVariant}
      BY DEF Typed
    <2> QED BY <1>1, <1>3, <1>4, <2>1, <2>2 DEF Typed, Phases
  <1>6. Protocol'
    BY <1>1, <1>2, <1>3, <1>4 DEF Protocol, Resting
  <1>7. NoStrayWorker'
    BY <1>1 DEF NoStrayWorker
  <1>8. OwnReply' /\ ResetIsInit'
    BY <1>3, <1>4 DEF OwnReply, ResetIsInit
  <1> QED BY <1>5, <1>6, <1>7, <1>8

LEMMA SpawnRefusedKeeps ==
  ASSUME Assumptions, IInv, SpawnRefused
  PROVE  IInv'
  <1> USE DEF IInv, SpawnRefused, backend, pipes
  <1>1. child \in Proc /\ worker = NoProc
    BY DEF Protocol, Typed
  <1>2. proc'[child] = "none" /\ \A q \in Proc \ {child} : proc'[q] = proc[q]
    BY <1>1 DEF Typed
  <1>3. phase' = "idle" /\ last' = Ended(goal, FALSE, 0) /\ last'.tag = 0
    BY DEF Return, Ended
  <1>4. Typed'
    <2>1. last'.tag \in 0..MaxCall
      BY <1>3, ZeroTag
    <2>2. proc' \in [Proc -> States]
      BY DEF Typed, States
    <2> QED BY <1>3, <2>1, <2>2 DEF Typed, Phases
  <1>5. Protocol'
    BY <1>1, <1>3 DEF Protocol
  <1>6. NoStrayWorker'
    BY <1>1, <1>2 DEF NoStrayWorker
  <1>7. OwnReply' /\ ResetIsInit'
    BY <1>3 DEF OwnReply, ResetIsInit, Ended
  <1> QED BY <1>4, <1>5, <1>6, <1>7

(* A command goes into a pipe that is empty, to a worker that rests.       *)
LEMMA CommandKeeps ==
  ASSUME Assumptions, IInv, NEW k \in {"exec", "ping"}, Command(k)
  PROVE  IInv'
  <1>1. CASE (IF k = "exec" THEN initialized ELSE worker # NoProc) /\ Alive(worker)
    <2> USE <1>1 DEF IInv, Command, GoOn, backend
    <2>1. /\ call' = call + 1 /\ phase' = "waiting" /\ goal' = k /\ phase = "idle"
          /\ call < MaxCall
          /\ input' = [input EXCEPT ![worker] = Append(@, Message(k, call + 1))]
          /\ UNCHANGED <<last, asked, initialized, variant, worker, child, proc, reply,
                         job, ran>>
      OBVIOUS
    <2> HIDE DEF Command
    <2>0. call' \in 0..MaxCall
      BY <2>1 DEF Typed, Assumptions, CallAssumption
    <2>2. worker \in Proc /\ worker # NoProc /\ Resting(worker) /\ proc[worker] = "ready"
      BY <2>1 DEF Alive, Typed, Protocol, Resting
    <2>3. Message(k, call + 1) \in Request
      BY <2>0, <2>1, MessageFacts
    <2>4. /\ input'[worker] = <<Message(k, call + 1)>> /\ reply[worker] = <<>>
          /\ input' \in [Proc -> Seq(Request)]
      BY <2>1, <2>2, <2>3, OneLine, Lines DEF Typed, Resting
    <2>5. Typed'
      BY <2>0, <2>1, <2>4 DEF Typed, Phases
    <2>6. Protocol'
      BY <2>1, <2>2, <2>4 DEF Protocol, Serving
    <2>7. NoStrayWorker' /\ OwnReply' /\ ResetIsInit'
      BY <2>1 DEF NoStrayWorker, OwnReply, ResetIsInit
    <2> QED BY <2>5, <2>6, <2>7
  <1>2. CASE ~((IF k = "exec" THEN initialized ELSE worker # NoProc) /\ Alive(worker))
    BY <1>2, ReturnKeeps DEF Command, backend, processes, IInv, Typed, Protocol
  <1> QED BY <1>1, <1>2

(* The only line there can be is the reply to the call that waits.         *)
LEMMA ReceiveKeeps ==
  ASSUME Assumptions, IInv, Receive
  PROVE  IInv'
  <1> USE DEF IInv
  <1>1. worker \in Proc /\ worker # NoProc /\ child = NoProc /\ Serving(worker)
        /\ goal \in {"exec", "ping"} /\ reply[worker] # <<>>
    BY DEF Receive, Protocol, Typed
  <1>2. /\ proc[worker] \in {"ready", "dead"} /\ input[worker] = <<>>
        /\ reply[worker] = <<Message(goal, call)>>
    BY <1>1 DEF Serving
  <1>3. Head(reply[worker]).tag = call
    BY <1>2, OneLine, MessageFacts
  <1>4. /\ phase' = "idle" /\ last'.tag = call
        /\ last'.op \in {"exec", "ping"}
        /\ reply' = [reply EXCEPT ![worker] = Tail(@)]
        /\ UNCHANGED <<asked, initialized, variant, worker, child, call, proc, input,
                       job, ran>>
    BY <1>1, <1>3 DEF Receive, Return, Ended, backend
  <1>5. reply'[worker] = <<>> /\ reply' \in [Proc -> Seq(Answer)]
    BY <1>1, <1>2, <1>4, OneLine, Lines DEF Typed
  <1>6. Typed'
    BY <1>4, <1>5 DEF Typed, Phases
  <1>7. Protocol'
    BY <1>1, <1>2, <1>4, <1>5 DEF Protocol, Resting
  <1>8. NoStrayWorker' /\ OwnReply'
    BY <1>4 DEF NoStrayWorker, OwnReply
  <1>9. ResetIsInit'
    BY <1>4 DEF ResetIsInit, Ended
  <1> QED BY <1>6, <1>7, <1>8, <1>9

LEMMA ReceiveEndKeeps ==
  ASSUME Assumptions, IInv, ReceiveEnd
  PROVE  IInv'
  <1>1. Resting(worker) /\ goal # "reset"
    BY OneLine DEF ReceiveEnd, IInv, Protocol, Serving, Resting
  <1> QED BY <1>1, ReturnKeeps DEF ReceiveEnd, backend, IInv, Typed, Protocol

(* shutdown_worker writes a line to a worker that may rest or be at work.  *)
LEMMA AskToStopKeeps ==
  ASSUME Assumptions, IInv, NEW why \in {"timeout", "reset", "destroy", "drop"},
         phase \in {"idle", "waiting"}, AskToStop(why),
         UNCHANGED <<asked, backend, child, call, proc, reply, job, ran>>
  PROVE  IInv'
  <1> USE DEF IInv, AskToStop, GoOn, backend
  <1>1. phase' = "stopping" /\ goal' = why /\ UNCHANGED last
    OBVIOUS
  <1>2. input' \in [Proc -> Seq(Request)]
    <2>1. Message("shutdown", 0) \in Request
      BY MessageFacts, ZeroTag
    <2> QED BY <2>1, Lines DEF Typed
  <1>3. Typed'
    BY <1>1, <1>2 DEF Typed, Phases
  <1>4. Protocol'
    BY <1>1 DEF Protocol, Resting, Serving
  <1>5. NoStrayWorker' /\ OwnReply' /\ ResetIsInit'
    BY <1>1 DEF NoStrayWorker, OwnReply, ResetIsInit
  <1> QED BY <1>3, <1>4, <1>5

(* Whatever the worker was at, it is killed and reaped.                    *)
LEMMA StoppedKeeps ==
  ASSUME Assumptions, IInv, Stopped
  PROVE  IInv'
  <1> USE DEF IInv
  <1>1. /\ phase = "stopping" /\ child = NoProc
        /\ goal \in {"timeout", "reset", "destroy", "drop"}
        /\ worker' = NoProc /\ initialized' = FALSE
        /\ variant' = IF goal \in {"destroy", "drop"} THEN NoVariant ELSE variant
        /\ \A p \in Proc : proc'[p] = IF p = worker THEN "none" ELSE proc[p]
        /\ UNCHANGED <<asked, child, call, input, reply, job, ran>>
    BY DEF Stopped, Protocol, pipes
  <1>2. \/ phase' = "spawn" /\ goal' = "reset" /\ UNCHANGED last
        \/ phase' = "gone" /\ UNCHANGED last
        \/ /\ phase' = "idle" /\ last'.tag = 0
           /\ last'.op = "reset" => variant = NoVariant
    BY DEF Stopped, GoOn, Return, Ended
  <1>3. Typed'
    <2>1. proc' \in [Proc -> States]
      BY DEF Stopped, Typed, States
    <2>2. last'.tag \in 0..MaxCall
      BY <1>2, ZeroTag DEF Typed
    <2>3. phase' \in Phases
      BY <1>2 DEF Phases
    <2> QED BY <1>1, <2>1, <2>2, <2>3 DEF Typed
  <1>4. Protocol'
    BY <1>1, <1>2 DEF Protocol
  <1>5. NoStrayWorker'
    BY <1>1 DEF NoStrayWorker
  <1>6. OwnReply'
    BY <1>2 DEF OwnReply
  <1>7. ResetIsInit'
    BY <1>1, <1>2 DEF ResetIsInit, Ended
  <1> QED BY <1>3, <1>4, <1>5, <1>6, <1>7

LEMMA NewKeeps ==
  ASSUME Assumptions, IInv, New
  PROVE  IInv'
  BY ReturnKeeps DEF New, backend, IInv, Typed, Protocol

-----------------------------------------------------------------------------
(* The worker's steps, whenever they come.                                 *)

(* The process that moves is the worker or the one being started.          *)
LEMMA WorkerFrame ==
  ASSUME Assumptions, IInv, NEW p \in Proc, proc[p] # "none",
         UNCHANGED <<phase, goal, asked, backend, child, call, last>>, Typed',
         \A q \in Proc \ {p} : proc'[q] = proc[q] /\ input'[q] = input[q]
                               /\ reply'[q] = reply[q] /\ job'[q] = job[q],
         \A q \in Proc \ {p} : q \in ran' <=> q \in ran,
         phase = "idle" /\ p = worker => Resting(p)' /\ (p \in ran' <=> p \in ran),
         phase = "starting" /\ p = child => Starting(p)',
         phase = "waiting" /\ p = worker => Serving(p)',
         phase = "stopping" /\ p = worker => proc'[p] \in {"ready", "busy", "dead"}
  PROVE  IInv'
  <1> USE DEF IInv, backend
  <1>1. p \in {worker, child}
    BY DEF NoStrayWorker
  <1>2. Protocol'
    <2>1. worker # NoProc => worker \in Proc
      BY DEF Typed
    <2>2. phase = "starting" => child \in Proc
      BY DEF Protocol, Typed
    <2>3. phase = "idle" /\ worker # NoProc => Resting(worker)'
      BY <2>1 DEF Protocol, Resting
    <2>4. phase = "starting" => Starting(child)'
      BY <2>2 DEF Protocol, Starting
    <2>5. phase = "waiting" => worker # NoProc /\ Serving(worker)'
      BY <2>1 DEF Protocol, Serving
    <2>6. phase = "stopping" /\ worker # NoProc => proc'[worker] \in {"ready", "busy", "dead"}
      BY <2>1 DEF Protocol
    <2> QED BY <2>3, <2>4, <2>5, <2>6 DEF Protocol
  <1>3. NoStrayWorker'
    BY <1>1 DEF NoStrayWorker
  <1>4. OwnReply'
    BY DEF OwnReply
  <1>5. ResetIsInit'
    BY DEF ResetIsInit, Typed, Protocol
  <1> QED BY <1>2, <1>3, <1>4, <1>5

LEMMA WorkerBootsKeeps ==
  ASSUME Assumptions, IInv, NEW p \in Proc, WorkerBoots(p)
  PROVE  IInv'
  <1>1. /\ proc[p] = "booting" /\ p # NoProc
        /\ UNCHANGED <<phase, goal, asked, backend, child, call, last, input, job, ran>>
    BY DEF WorkerBoots, Assumptions, ProcAssumption
  <1>2. phase = "starting" /\ p = child /\ p # worker /\ Starting(p) /\ reply[p] = <<>>
    BY <1>1 DEF IInv, NoStrayWorker, Protocol, Resting, Serving, Starting, Typed, Phases
  <1>3. PICK m \in {Message("ready", 0), Message("error", 0)} :
          /\ proc' = [proc EXCEPT ![p] = IF m = Message("ready", 0) THEN "ready" ELSE "dead"]
          /\ reply' = [reply EXCEPT ![p] = Append(@, m)]
    BY DEF WorkerBoots, Message
  <1>4. m \in Answer
    BY MessageFacts, ZeroTag DEF Kinds
  <1>5. reply'[p] = <<m>> /\ reply' \in [Proc -> Seq(Answer)]
    BY <1>2, <1>3, <1>4, OneLine, Lines DEF IInv, Typed
  <1>6. proc' \in [Proc -> States]
    BY <1>3 DEF IInv, Typed, States
  <1>7. Typed'
    BY <1>1, <1>5, <1>6 DEF IInv, Typed, backend
  <1>8. Starting(p)'
    BY <1>1, <1>2, <1>3, <1>5 DEF Starting, IInv, Typed
  <1>9. \A q \in Proc \ {p} : proc'[q] = proc[q] /\ reply'[q] = reply[q]
    BY <1>3 DEF IInv, Typed
  <1> QED BY <1>1, <1>2, <1>7, <1>8, <1>9, WorkerFrame

(* A line of stdin is the command the call waits for, or comes while the   *)
(* worker is being stopped.                                                *)
LEMMA WorkerTakesKeeps ==
  ASSUME Assumptions, IInv, NEW p \in Proc, WorkerTakes(p)
  PROVE  IInv'
  <1> DEFINE cmd == Head(input[p])
  <1>1. /\ proc[p] = "ready" /\ input[p] # <<>> /\ p # NoProc
        /\ input' = [input EXCEPT ![p] = Tail(@)]
        /\ UNCHANGED <<phase, goal, asked, backend, child, call, last>>
    BY DEF WorkerTakes, Assumptions, ProcAssumption
  <1>2. /\ input[p] \in Seq(Request) /\ cmd \in Request /\ Tail(input[p]) \in Seq(Request)
        /\ cmd \in Answer
    BY <1>1, Lines, MessageFacts DEF IInv, Typed
  <1>3. /\ cmd.kind \in {"exec", "ping", "shutdown"} /\ cmd.tag \in 0..MaxCall
        /\ input' \in [Proc -> Seq(Request)]
        /\ input'[p] = Tail(input[p]) /\ \A q \in Proc \ {p} : input'[q] = input[q]
    BY <1>1, <1>2 DEF Request, IInv, Typed
  <1>4. /\ p = worker /\ phase \in {"waiting", "stopping"}
        /\ phase = "waiting" =>
             /\ input[p] = <<Message(goal, call)>> /\ reply[p] = <<>>
             /\ goal \in {"exec", "ping"}
    BY <1>1 DEF IInv, NoStrayWorker, Protocol, Resting, Serving, Starting, Typed, Phases
  <1>5. phase = "waiting" => cmd = Message(goal, call) /\ input'[p] = <<>>
    BY <1>3, <1>4, OneLine
  <1>6. phase = "waiting" => cmd.kind = goal /\ cmd.tag = call
    BY <1>5, MessageFacts
  <1>7. CASE cmd.kind = "exec"
    <2>1. /\ proc' = [proc EXCEPT ![p] = "busy"] /\ job' = [job EXCEPT ![p] = cmd.tag]
          /\ ran' = ran \cup {p} /\ reply' = reply
      BY <1>7 DEF WorkerTakes
    <2> HIDE DEF cmd
    <2>2. Typed'
      BY <1>1, <1>3, <2>1 DEF IInv, Typed, States, backend
    <2>3. phase = "waiting" => Serving(p)'
      BY <1>1, <1>4, <1>5, <1>6, <1>7, <2>1 DEF Serving, IInv, Typed
    <2>4. proc'[p] = "busy" /\ \A q \in Proc \ {p} : proc'[q] = proc[q] /\ job'[q] = job[q]
      BY <2>1 DEF IInv, Typed
    <2> QED BY <1>1, <1>3, <1>4, <2>1, <2>2, <2>3, <2>4, WorkerFrame
  <1>8. CASE cmd.kind = "ping"
    <2>1. /\ reply' = [reply EXCEPT ![p] = Append(@, cmd)]
          /\ UNCHANGED <<proc, job, ran>>
      BY <1>8 DEF WorkerTakes
    <2>2. /\ reply' \in [Proc -> Seq(Answer)] /\ reply'[p] = Append(reply[p], cmd)
          /\ \A q \in Proc \ {p} : reply'[q] = reply[q]
      BY <1>2, <2>1, Lines DEF IInv, Typed
    <2> HIDE DEF cmd
    <2>3. Typed'
      BY <1>1, <1>3, <2>1, <2>2 DEF IInv, Typed, backend
    <2>4. phase = "waiting" => reply'[p] = <<Message(goal, call)>>
      BY <1>4, <1>5, <2>2, OneLine
    <2>5. phase = "waiting" => Serving(p)'
      BY <1>1, <1>4, <1>5, <2>1, <2>4 DEF Serving
    <2> QED BY <1>1, <1>3, <1>4, <2>1, <2>2, <2>3, <2>5, WorkerFrame
  <1>9. CASE cmd.kind = "shutdown"
    <2>1. proc' = [proc EXCEPT ![p] = "dead"] /\ UNCHANGED <<reply, job, ran>>
      BY <1>9 DEF WorkerTakes
    <2>2. phase = "stopping"
      BY <1>4, <1>6, <1>9
    <2> HIDE DEF cmd
    <2>3. Typed'
      BY <1>1, <1>3, <2>1 DEF IInv, Typed, States, backend
    <2>4. proc'[p] = "dead" /\ \A q \in Proc \ {p} : proc'[q] = proc[q]
      BY <2>1 DEF IInv, Typed
    <2> QED BY <1>1, <1>3, <1>4, <2>1, <2>2, <2>3, <2>4, WorkerFrame
  <1> QED BY <1>3, <1>7, <1>8, <1>9

LEMMA WorkerAnswersKeeps ==
  ASSUME Assumptions, IInv, NEW p \in Proc, WorkerAnswers(p)
  PROVE  IInv'
  <1> DEFINE m == Message("exec", job[p])
  <1>1. /\ proc[p] = "busy" /\ p # NoProc
        /\ proc' = [proc EXCEPT ![p] = "ready"]
        /\ reply' = [reply EXCEPT ![p] = Append(@, m)]
        /\ job' = [job EXCEPT ![p] = 0]
        /\ UNCHANGED <<phase, goal, asked, backend, child, call, last, input, ran>>
    BY DEF WorkerAnswers, Assumptions, ProcAssumption
  <1>2. /\ p = worker /\ phase \in {"waiting", "stopping"}
        /\ phase = "waiting" =>
             input[p] = <<>> /\ reply[p] = <<>> /\ goal = "exec" /\ job[p] = call
    BY <1>1 DEF IInv, NoStrayWorker, Protocol, Resting, Serving, Starting, Typed, Phases
  <1>3. m \in Answer
    BY MessageFacts DEF IInv, Typed, Kinds
  <1>4. /\ reply' \in [Proc -> Seq(Answer)] /\ reply'[p] = Append(reply[p], m)
        /\ proc' \in [Proc -> States] /\ proc'[p] = "ready"
        /\ \A q \in Proc \ {p} : proc'[q] = proc[q] /\ reply'[q] = reply[q] /\ job'[q] = job[q]
    BY <1>1, <1>3, Lines DEF IInv, Typed, States
  <1>5. job' \in [Proc -> 0..MaxCall]
    BY <1>1, ZeroTag DEF IInv, Typed
  <1>6. Typed'
    BY <1>1, <1>4, <1>5 DEF IInv, Typed, backend
  <1>7. phase = "waiting" => Serving(p)'
    BY <1>1, <1>2, <1>4, OneLine DEF Serving
  <1> QED BY <1>1, <1>2, <1>4, <1>6, <1>7, WorkerFrame

(* It may die at any time: what it was sent is lost, what it wrote is not. *)
LEMMA WorkerDiesKeeps ==
  ASSUME Assumptions, IInv, NEW p \in Proc, WorkerDies(p)
  PROVE  IInv'
  <1>1. /\ proc[p] \in {"booting", "ready", "busy"} /\ p # NoProc
        /\ proc' = [proc EXCEPT ![p] = "dead"] /\ input' = [input EXCEPT ![p] = <<>>]
        /\ UNCHANGED <<phase, goal, asked, backend, child, call, last, reply, job, ran>>
    BY DEF WorkerDies, Alive
  <1>2. /\ input' \in [Proc -> Seq(Request)] /\ input'[p] = <<>>
        /\ proc' \in [Proc -> States] /\ proc'[p] = "dead"
        /\ \A q \in Proc \ {p} : proc'[q] = proc[q] /\ input'[q] = input[q]
    BY <1>1, Lines DEF IInv, Typed, States
  <1>3. Typed'
    BY <1>1, <1>2 DEF IInv, Typed, backend
  <1>4. phase = "idle" /\ p = worker => Resting(p)'
    BY <1>1, <1>2 DEF IInv, Protocol, Resting
  <1>5. phase = "starting" /\ p = child => Starting(p)'
    BY <1>1, <1>2 DEF IInv, Protocol, Starting
  <1>6. phase = "waiting" /\ p = worker => Serving(p)'
    BY <1>1, <1>2 DEF IInv, Protocol, Serving
  <1> QED BY <1>1, <1>2, <1>3, <1>4, <1>5, <1>6, WorkerFrame

LEMMA StepKeeps == Assumptions /\ IInv /\ [Next]_vars => IInv'
  <1> SUFFICES ASSUME Assumptions, IInv, [Next]_vars PROVE IInv'
    OBVIOUS
  <1>1. CASE TimesOut \/ Reset \/ \E why \in {"destroy", "drop"} : Stop(why)
    BY <1>1, AskToStopKeeps DEF TimesOut, Reset, Stop
  <1>2. CASE UNCHANGED vars
    BY <1>2 DEF vars, IInv, Typed, Protocol, Resting, Starting, Serving, NoStrayWorker,
                OwnReply, ResetIsInit
  <1> QED BY <1>1, <1>2, InitAgainKeeps, InitFreshKeeps, SpawnKeeps, SpawnFailsKeeps,
             SpawnReadyKeeps, SpawnRefusedKeeps, CommandKeeps, ReceiveKeeps,
             ReceiveEndKeeps, StoppedKeeps, NewKeeps, WorkerBootsKeeps, WorkerTakesKeeps,
             WorkerAnswersKeeps, WorkerDiesKeeps DEF Next

-----------------------------------------------------------------------------
(* The results.                                                            *)

THEOREM Invariance == ASSUME Assumptions PROVE Spec => []IInv
  BY InitEstablishes, StepKeeps, PTL DEF Spec

(* The backend's fields and the worker's pipes are well formed, and the    *)
(* pipes hold the one command or reply a call waits for, if that.          *)
THEOREM TypeCorrect == ASSUME Assumptions PROVE Spec => []TypeOK
  BY Invariance, TypedIsTypeOK, PTL

(* A call that returns a reply returns its own: what a call that timed out *)
(* left in a pipe went with its worker.                                    *)
THEOREM RepliesAreOwn == ASSUME Assumptions PROVE Spec => []OwnReply
  <1>1. IInv => OwnReply
    BY DEF IInv
  <1> QED BY <1>1, Invariance, PTL

(* No process is left behind, whatever was refused, timed out or dropped.  *)
THEOREM NoWorkerStrays == ASSUME Assumptions PROVE Spec => []NoStrayWorker
  <1>1. IInv => NoStrayWorker
    BY DEF IInv
  <1> QED BY <1>1, Invariance, PTL

(* After reset() the backend has a worker that has run no one's code.      *)
THEOREM ResetStartsFresh == ASSUME Assumptions PROVE Spec => []ResetIsInit
  <1>1. IInv => ResetIsInit
    BY DEF IInv
  <1> QED BY <1>1, Invariance, PTL

==============================================================================
