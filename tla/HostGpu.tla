-------------------------------- MODULE HostGpu --------------------------------
(***************************************************************************)
(* HostGpuForkBackend of tinymachine-fork/src/host_gpu_fork.rs and the     *)
(* Python worker it keeps: commands go down the worker's stdin, replies    *)
(* come back on a control pipe of their own, one line each.                *)
(*                                                                         *)
(* The caller holds &mut self, so one call runs at a time; the worker is   *)
(* another process and runs, stalls or dies on its own.  A command carries *)
(* the number of the call that sent it and its reply carries it back: the  *)
(* code has no such number, which is why order is all that pairs them.     *)
(***************************************************************************)
EXTENDS Integers, Sequences

CONSTANTS
  Proc,       \* process identities; one that was reaped may be used again
  NoProc,
  Variant,    \* the variants callers ask for
  Supported,  \* those init accepts: python:tinygrad and python:tinygrad-nv
  NoVariant,
  MaxCall     \* bound: the commands sent in a behaviour

ProcAssumption == NoProc \notin Proc
VariantAssumption == Supported \subseteq Variant /\ NoVariant \notin Variant
CallAssumption == MaxCall \in Nat

VARIABLES
  phase,        \* where the running call is, "idle" if none runs
  goal,         \* what that phase serves
  asked,        \* the variant of the init under way
  initialized,  \* HostGpuForkBackend.initialized
  variant,      \* HostGpuForkBackend.variant
  worker,       \* the process in HostGpuForkBackend.worker, with its pipes
  child,        \* the process spawn_worker has not stored yet
  call,         \* the number of the last command sent
  last,         \* the last call to end: [op, ok, tag] (tag 0: no reply)
  proc,         \* proc[p]: what process p is doing
  input,        \* input[p]: the commands in its stdin
  reply,        \* reply[p]: the messages in its control pipe
  job,          \* job[p]: the command it is executing, 0 if none
  ran           \* the processes that have executed code

vars == <<phase, goal, asked, initialized, variant, worker, child, call, last,
          proc, input, reply, job, ran>>

backend == <<initialized, variant, worker>>
pipes == <<input, reply>>
processes == <<proc, input, reply, job, ran>>

Phases == {"idle", "spawn", "starting", "waiting", "stopping", "gone"}
States == {"none", "booting", "ready", "busy", "dead"}   \* "dead": not reaped
Kinds == {"exec", "ping", "shutdown", "ready", "error"}

Alive(p) == p # NoProc /\ proc[p] \in {"booting", "ready", "busy"}

Message(k, n) == [kind |-> k, tag |-> n]

Ended(op, ok, tag) == [op |-> op, ok |-> ok, tag |-> tag]

-----------------------------------------------------------------------------
Init ==
  /\ phase = "idle" /\ goal = "none" /\ asked = NoVariant
  /\ initialized = FALSE /\ variant = NoVariant
  /\ worker = NoProc /\ child = NoProc
  /\ call = 0 /\ last = Ended("none", FALSE, 0)
  /\ proc = [p \in Proc |-> "none"]
  /\ input = [p \in Proc |-> <<>>] /\ reply = [p \in Proc |-> <<>>]
  /\ job = [p \in Proc |-> 0] /\ ran = {}

(* The call returns.                                                       *)
Return(op, ok, tag) ==
  /\ phase' = "idle" /\ goal' = "none"
  /\ last' = Ended(op, ok, tag)

(* The call goes on in phase f, for g.                                     *)
GoOn(f, g) == phase' = f /\ goal' = g /\ UNCHANGED last

----------------------------------------------------------------------------
(* init: once initialized it only records the variant, whatever it is.     *)
InitAgain(v) ==
  /\ phase = "idle" /\ initialized
  /\ variant' = v
  /\ Return("init", TRUE, 0)
  /\ UNCHANGED <<asked, initialized, worker, child, call, processes>>

InitFresh(v) ==
  /\ phase = "idle" /\ ~initialized
  /\ IF v \in Supported
     THEN GoOn("spawn", "init") /\ asked' = v
     ELSE Return("init", FALSE, 0) /\ UNCHANGED asked
  /\ UNCHANGED <<backend, child, call, processes>>

(* spawn_worker: the interpreter starts, or cannot be started.             *)
Spawn(p) ==
  /\ phase = "spawn" /\ proc[p] = "none"
  /\ child' = p
  /\ proc' = [proc EXCEPT ![p] = "booting"]
  /\ input' = [input EXCEPT ![p] = <<>>] /\ reply' = [reply EXCEPT ![p] = <<>>]
  /\ job' = [job EXCEPT ![p] = 0] /\ ran' = ran \ {p}
  /\ GoOn("starting", goal)
  /\ UNCHANGED <<asked, backend, call>>

SpawnFails ==
  /\ phase = "spawn"
  /\ Return(goal, FALSE, 0)
  /\ UNCHANGED <<asked, backend, child, call, processes>>

(* READY has been read, however late: the deadline is looked at only       *)
(* between two lines, and read_line blocks.                                *)
SpawnReady ==
  /\ phase = "starting"
  /\ reply[child] # <<>> /\ Head(reply[child]).kind = "ready"
  /\ reply' = [reply EXCEPT ![child] = Tail(@)]
  /\ worker' = child /\ child' = NoProc
  /\ initialized' = TRUE
  /\ variant' = IF goal = "init" THEN asked ELSE variant
  /\ Return(goal, TRUE, 0)
  /\ UNCHANGED <<asked, call, proc, input, job, ran>>

(* An error message, or the end of the pipe: killed if need be and reaped. *)
SpawnRefused ==
  /\ phase = "starting"
  /\ \/ reply[child] # <<>> /\ Head(reply[child]).kind = "error"
     \/ reply[child] = <<>> /\ proc[child] = "dead"
  /\ proc' = [proc EXCEPT ![child] = "none"]
  /\ child' = NoProc
  /\ Return(goal, FALSE, 0)
  /\ UNCHANGED <<asked, backend, call, pipes, job, ran>>

-----------------------------------------------------------------------------
(* exec and ping: exec asks for initialized, ping for a stdin; then        *)
(* send_command writes the line, which fails if no one reads it.           *)
Command(k) ==
  /\ phase = "idle"
  /\ call < MaxCall
  /\ IF (IF k = "exec" THEN initialized ELSE worker # NoProc) /\ Alive(worker)
     THEN /\ call' = call + 1
          /\ input' = [input EXCEPT ![worker] = Append(@, Message(k, call + 1))]
          /\ GoOn("waiting", k)
     ELSE Return(k, FALSE, 0) /\ UNCHANGED <<call, input>>
  /\ UNCHANGED <<asked, backend, child, proc, reply, job, ran>>

(* The reader thread has a line: the first in the pipe.                    *)
Receive ==
  /\ phase = "waiting" /\ reply[worker] # <<>>
  /\ LET msg == Head(reply[worker])
     IN \E ok \in BOOLEAN :
          /\ ok => msg.kind = goal
          /\ goal = "ping" => ok = (msg.kind = "ping")
          /\ Return(goal, ok, msg.tag)
  /\ reply' = [reply EXCEPT ![worker] = Tail(@)]
  /\ UNCHANGED <<asked, backend, child, call, proc, input, job, ran>>

(* The end of the pipe: WorkerDied; the backend stays initialized.         *)
ReceiveEnd ==
  /\ phase = "waiting" /\ reply[worker] = <<>> /\ proc[worker] = "dead"
  /\ Return(goal, FALSE, 0)
  /\ UNCHANGED <<asked, backend, child, call, processes>>

(* shutdown_worker, first half: the line is written, if anyone reads it.   *)
AskToStop(why) ==
  /\ input' = IF Alive(worker)
              THEN [input EXCEPT ![worker] = Append(@, Message("shutdown", 0))]
              ELSE input
  /\ GoOn("stopping", why)

(* Mutated: a plain recv.                                                  *)
TimesOut_Never ==
  /\ FALSE
  /\ AskToStop("timeout")
  /\ UNCHANGED <<asked, backend, child, call, proc, reply, job, ran>>

(* Mutated: the reader is put back and the worker kept.                    *)
TimesOut_Keeps ==
  /\ phase = "waiting"
  /\ Return("timeout", FALSE, 0)
  /\ UNCHANGED <<asked, backend, child, call, processes>>

(* recv_timeout: no line within EXEC_TIMEOUT_SECS; one may be on its way.  *)
TimesOut ==
  /\ phase = "waiting"
  /\ AskToStop("timeout")
  /\ UNCHANGED <<asked, backend, child, call, proc, reply, job, ran>>

Reset ==
  /\ phase = "idle"
  /\ AskToStop("reset")
  /\ UNCHANGED <<asked, backend, child, call, proc, reply, job, ran>>

(* destroy, and Drop, after which a caller may build another backend.      *)
Stop(why) ==
  /\ phase = "idle"
  /\ AskToStop(why)
  /\ UNCHANGED <<asked, backend, child, call, proc, reply, job, ran>>

(* Mutated: shutdown leaves the backend marked initialized.                *)
Stopped_KeepsFlag ==
  /\ phase = "stopping"
  /\ proc' = [p \in Proc |-> IF p = worker THEN "none" ELSE proc[p]]
  /\ worker' = NoProc
  /\ Return(goal, goal # "timeout", 0)
  /\ UNCHANGED <<asked, initialized, variant, child, call, pipes, job, ran>>

(* shutdown_worker, second half: 50 ms later, kill and wait, the fields    *)
(* cleared; then what the caller does next.  The variant outlives it.      *)
Stopped ==
  /\ phase = "stopping"
  /\ proc' = [p \in Proc |-> IF p = worker THEN "none" ELSE proc[p]]
  /\ worker' = NoProc /\ initialized' = FALSE
  /\ variant' = IF goal \in {"destroy", "drop"} THEN NoVariant ELSE variant
  /\ IF goal = "reset" /\ variant # NoVariant THEN GoOn("spawn", "reset")
     ELSE IF goal = "drop" THEN GoOn("gone", "none")
     ELSE Return(goal, goal # "timeout", 0)
  /\ UNCHANGED <<asked, child, call, pipes, job, ran>>

New ==
  /\ phase = "gone"
  /\ Return("new", TRUE, 0)
  /\ UNCHANGED <<asked, backend, child, call, processes>>

-----------------------------------------------------------------------------
(* The worker imports tinygrad and the NV device, and says so or why not.  *)
WorkerBoots(p) ==
  /\ proc[p] = "booting"
  /\ \/ proc' = [proc EXCEPT ![p] = "ready"]
        /\ reply' = [reply EXCEPT ![p] = Append(@, Message("ready", 0))]
     \/ proc' = [proc EXCEPT ![p] = "dead"]
        /\ reply' = [reply EXCEPT ![p] = Append(@, Message("error", 0))]
  /\ UNCHANGED <<phase, goal, asked, backend, child, call, last, input, job, ran>>

(* One line of stdin.                                                      *)
WorkerTakes(p) ==
  /\ proc[p] = "ready" /\ input[p] # <<>>
  /\ input' = [input EXCEPT ![p] = Tail(@)]
  /\ LET cmd == Head(input[p])
     IN CASE cmd.kind = "exec" ->
               /\ proc' = [proc EXCEPT ![p] = "busy"]
               /\ job' = [job EXCEPT ![p] = cmd.tag]
               /\ ran' = ran \cup {p}
               /\ UNCHANGED reply
          [] cmd.kind = "ping" ->
               /\ reply' = [reply EXCEPT ![p] = Append(@, cmd)]
               /\ UNCHANGED <<proc, job, ran>>
          [] cmd.kind = "shutdown" ->
               /\ proc' = [proc EXCEPT ![p] = "dead"]
               /\ UNCHANGED <<reply, job, ran>>
  /\ UNCHANGED <<phase, goal, asked, backend, child, call, last>>

(* exec() has returned, with an exit code of 0 or 1.                       *)
WorkerAnswers(p) ==
  /\ proc[p] = "busy"
  /\ proc' = [proc EXCEPT ![p] = "ready"]
  /\ reply' = [reply EXCEPT ![p] = Append(@, Message("exec", job[p]))]
  /\ job' = [job EXCEPT ![p] = 0]
  /\ UNCHANGED <<phase, goal, asked, backend, child, call, last, input, ran>>

(* A crash of the code it executes, an uncaught BaseException, RLIMIT_AS,  *)
(* the 40 s of RLIMIT_CPU that all the commands of its life share, a kill; *)
(* what it had not read of its stdin is lost.                              *)
WorkerDies(p) ==
  /\ Alive(p)
  /\ proc' = [proc EXCEPT ![p] = "dead"]
  /\ input' = [input EXCEPT ![p] = <<>>]
  /\ UNCHANGED <<phase, goal, asked, backend, child, call, last, reply, job, ran>>

Next ==
  \/ \E v \in Variant : InitAgain(v) \/ InitFresh(v)
  \/ \E p \in Proc : Spawn(p)
  \/ SpawnFails
  \/ SpawnReady
  \/ SpawnRefused
  \/ \E k \in {"exec", "ping"} : Command(k)
  \/ Receive
  \/ ReceiveEnd
  \/ TimesOut
  \/ Reset
  \/ \E why \in {"destroy", "drop"} : Stop(why)
  \/ Stopped
  \/ New
  \/ \E p \in Proc : WorkerBoots(p)
  \/ \E p \in Proc : WorkerTakes(p)
  \/ \E p \in Proc : WorkerAnswers(p)
  \/ \E p \in Proc : WorkerDies(p)

Spec == Init /\ [][Next]_vars

(* Time passes in recv_timeout and in shutdown_worker's sleep, whatever    *)
(* the worker does: of the worker nothing is assumed.                      *)
FairSpec == Spec /\ WF_vars(TimesOut) /\ WF_vars(Stopped)

-----------------------------------------------------------------------------
(* Types, and the protocol's window: the pipes of the backend's worker     *)
(* hold at most the one command or reply the running call waits for, and   *)
(* nothing at all between calls.                                           *)
TypeOK ==
  /\ phase \in Phases /\ initialized \in BOOLEAN
  /\ asked \in Variant \cup {NoVariant} /\ variant \in Variant \cup {NoVariant}
  /\ worker \in Proc \cup {NoProc} /\ child \in Proc \cup {NoProc}
  /\ call \in 0..MaxCall /\ last.tag \in 0..MaxCall
  /\ proc \in [Proc -> States]
  /\ \A p \in Proc : input[p] \in Seq([kind : Kinds, tag : 0..MaxCall])
  /\ \A p \in Proc : reply[p] \in Seq([kind : Kinds, tag : 0..MaxCall])
  /\ job \in [Proc -> 0..MaxCall] /\ ran \subseteq Proc
  /\ initialized = (worker # NoProc)
  /\ phase # "stopping" /\ worker # NoProc =>
       Len(input[worker]) + Len(reply[worker]) + (IF proc[worker] = "busy" THEN 1 ELSE 0)
         <= (IF phase = "waiting" THEN 1 ELSE 0)

(* A reply is the reply to the call that returns it: no exec ever returns  *)
(* the output of an earlier one that timed out, failed or was abandoned,   *)
(* though nothing in a reply says which command it answers.                *)
OwnReply == phase = "idle" /\ last.tag # 0 => last.tag = call

(* Every process that exists, zombies included, is the backend's worker or *)
(* the one it is starting: timeouts, refusals, resets and drops leave no   *)
(* worker holding the GPU behind.                                          *)
NoStrayWorker == \A p \in Proc : proc[p] # "none" => p \in {worker, child}

(* SandboxBackend::reset: after it the backend is as after init, with a    *)
(* worker that has executed nothing, whatever the code run before it did.  *)
ResetIsInit ==
  phase = "idle" /\ last = Ended("reset", TRUE, 0) /\ variant # NoVariant
    => initialized /\ worker \notin ran

(* exec and ping return, even if the worker never answers nor dies.        *)
CommandsReturn == phase = "waiting" ~> phase = "idle"

=============================================================================
