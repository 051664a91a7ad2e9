-------------------------------- MODULE Qemu --------------------------------
(* QemuBackend (qemu_backend.rs): init, exec, reset, destroy and drop, the   *)
(* process each exec starts, and the serial line to the guest's              *)
(* qemu_serial_loop and run_python (init.c).  A line is its kind: "READY"    *)
(* and "DONE" are the markers, "echo" is the command echoed by the console,  *)
(* "bye" contains "shutdown", "out" is any other line of the user's program, *)
(* "blank" an empty one and "noise" anything else.  Failures of QEMU and of  *)
(* the guest happen at any point.                                            *)
EXTENDS Naturals, Sequences, SequencesExt, FiniteSets

CONSTANTS Programs, \* what users' programs print: sequences of lines
          PipeMax   \* bound: lines the pipe holds before QEMU blocks

Line == {"READY", "DONE", "echo", "bye", "out", "blank", "noise"}

QemuAssumption ==
    /\ Programs \subseteq Seq({"out", "blank", "bye", "DONE"})
    /\ PipeMax \in Nat \ {0}

VARIABLES
    initialized, variant, vbios, \* QemuBackend: the kind of the last init, self.vbios.is_some()
    child,     \* self.child: none, or its process running, dead, or reaped (waited for)
    orphans,   \* states of processes whose handle was dropped before they were reaped
    gpu,       \* the child was given the GPU
    bound,     \* the GPU is bound to vfio-pci
    phase,     \* "idle", or "reading" inside try_exec
    code,      \* what the command of this call does
    late,      \* BOOT_TIMEOUT_MS have passed since it began
    lines, found, \* output_lines, found_ready
    outcome,   \* what the last exec returned
    guest,     \* what the guest does next
    pipe       \* lines QEMU has written and the host has not read

backend == <<initialized, variant, vbios>>
process == <<child, orphans, gpu>>
call == <<phase, code, late, lines, found, outcome>>
vm == <<process, guest, pipe>>
vars == <<backend, bound, call, vm>>

(* What a command makes the guest print, whether it fits into the guest's    *)
(* buffer, and whether it ends.                                              *)
TooLong == [prints |-> <<>>, fits |-> FALSE, ends |-> TRUE]
Endless == [prints |-> <<>>, fits |-> TRUE, ends |-> FALSE]
Code == [prints : Programs, fits : {TRUE}, ends : {TRUE}] \cup {TooLong, Endless}
Nothing == [how |-> "none", lines |-> <<>>]

(* The process, the call and the pipe are in states of the code.             *)
TypeOK ==
    /\ initialized \in BOOLEAN /\ variant \in {"none", "cpu", "gpu"} /\ vbios \in BOOLEAN
    /\ child \in {"none", "running", "dead", "reaped"}
    /\ orphans \subseteq {"running", "dead"} /\ gpu \in BOOLEAN
    /\ bound \in BOOLEAN
    /\ phase \in {"idle", "reading"} /\ code \in Code /\ late \in BOOLEAN
    /\ ToSet(lines) \subseteq Line /\ found \in BOOLEAN
    /\ outcome.how \in {"none", "uninitialized", "spawn", "late", "write", "silent", "done", "end"}
    /\ guest \in {"boot", "poll", "command", "run", "finish", "hung"}
    /\ ToSet(pipe) \subseteq Line /\ Len(pipe) <= PipeMax + Len(code.prints) + 3

Init ==
    /\ initialized = FALSE /\ variant = "none" /\ vbios = FALSE /\ child = "none"
    /\ orphans = {} /\ gpu = FALSE
    /\ bound \in BOOLEAN
    /\ phase = "idle" /\ late = FALSE /\ lines = <<>> /\ found = FALSE
    /\ code = TooLong /\ outcome = Nothing
    /\ guest = "boot" /\ pipe = <<>>

-----------------------------------------------------------------------------
(* init                                                                      *)

(* ensure_dma_mask_64, whose result init ignores: a device with a narrow     *)
(* mask may be unbound and bound again, and either step may fail.            *)
EnsureDmaMask == bound' \in BOOLEAN

(* A missing QEMU, kernel or initrd stops init with what it has set so far;  *)
(* only a GPU variant looks for the ROM.                                     *)
InitBackend(v, rom) ==
    /\ phase = "idle"
    /\ vbios' = IF v = "gpu" THEN rom ELSE vbios
    /\ initialized' = TRUE /\ variant' = v
    /\ IF v = "gpu" /\ rom /\ bound THEN EnsureDmaMask ELSE UNCHANGED bound
    /\ UNCHANGED <<call, vm>>

InitFails(v) ==
    /\ phase = "idle"
    /\ variant' = v
    /\ UNCHANGED <<initialized, vbios, bound, call, vm>>

-----------------------------------------------------------------------------
(* exec                                                                      *)

(* What is local to try_exec ends with it, its end of the pipe included. *)
Return(how, result) ==
    /\ phase' = "idle"
    /\ outcome' = [how |-> how, lines |-> result]
    /\ late' = FALSE /\ lines' = <<>> /\ found' = FALSE
    /\ pipe' = <<>> /\ guest' = "boot"
    /\ UNCHANGED <<backend, bound, code, orphans, gpu>>

(* Not initialized, no bound GPU for the ROM, or no process. *)
ExecFails ==
    /\ phase = "idle"
    /\ \/ ~initialized /\ Return("uninitialized", <<>>)
       \/ initialized /\ Return("spawn", <<>>)
    /\ UNCHANGED child

(* build_vfio_arg: a ROM needs a GPU that is bound to vfio-pci. *)
GpuThere == vbios => bound

(* Spawn: the handle of the process before, if any, is dropped, which        *)
(* neither kills nor waits for it.                                           *)
Spawn(c) ==
    /\ phase = "idle" /\ initialized
    /\ GpuThere
    /\ orphans' = orphans \cup ({child} \cap {"running", "dead"})
    /\ child' = "running" /\ gpu' = vbios
    /\ phase' = "reading" /\ code' = c /\ outcome' = Nothing
    /\ UNCHANGED <<backend, bound, late, lines, found, guest, pipe>>

(* child.kill() and child.wait() *)
Kill == child' = "reaped"

(* The lines of s that are of some kind in K. *)
Only(s, K) ==
    LET kept[n \in 0 .. Len(s)] ==
          IF n = 0 THEN <<>>
          ELSE IF s[n] \in K THEN Append(kept[n - 1], s[n]) ELSE kept[n - 1]
    IN kept[Len(s)]

NonBlank(s) == Only(s, Line \ {"blank"})

(* The lines after READY and a number of others, up to DONE. *)
Between(s, skip) ==
    LET from == SelectInSeq(s, LAMBDA x : x = "READY")
        to == SelectInSeq(s, LAMBDA x : x = "DONE")
    IN IF from = 0 THEN <<>> ELSE NonBlank(SubSeq(s, from + 1 + skip, to - 1))

(* Mutated: the line after the echo is skipped too. *)
Extract_SkipTwo(s) == Between(s, 2)

(* One line, the echo of the command, is skipped. *)
Extract(s) == Between(s, 1)

(* Lines of noise that follow one another are kept as one. *)
Add(s, x) == IF x = "noise" /\ s # <<>> /\ Last(s) = "noise" THEN s ELSE Append(s, x)

(* A line after the deadline. *)
TooLate ==
    /\ phase = "reading" /\ pipe # <<>> /\ late
    /\ Kill
    /\ Return("late", <<>>)

InTime(kinds) == phase = "reading" /\ pipe # <<>> /\ ~late /\ Head(pipe) \in kinds

ReadOn ==
    /\ pipe' = Tail(pipe)
    /\ lines' = Add(lines, Head(pipe))
    /\ UNCHANGED <<backend, bound, phase, code, late, outcome, process>>

(* The first READY: the command is written in one line. *)
ReadReady ==
    /\ InTime({"READY"}) /\ ~found
    /\ child = "running"
    /\ found' = TRUE
    /\ guest' = IF guest = "poll" THEN "command" ELSE guest
    /\ ReadOn

(* QEMU is gone: EPIPE, and it is not waited for. *)
WriteFails ==
    /\ InTime({"READY"}) /\ ~found
    /\ child = "dead"
    /\ UNCHANGED child
    /\ Return("write", <<>>)

ReadOther ==
    /\ InTime(Line \ {"DONE", "bye"})
    /\ Head(pipe) = "READY" => found
    /\ UNCHANGED <<found, guest>>
    /\ ReadOn

ReadDone ==
    /\ InTime({"DONE"})
    /\ Kill
    /\ Return("done", Extract(Append(lines, "DONE")))

(* Everything read so far is the result, unless it is nothing. *)
Ended(all) ==
    /\ Kill
    /\ IF all = <<>> THEN Return("silent", <<>>) ELSE Return("end", all)

ReadBye ==
    /\ InTime({"bye"})
    /\ Ended(Append(lines, "bye"))

ReadEof ==
    /\ phase = "reading" /\ pipe = <<>> /\ child = "dead"
    /\ Ended(lines)

TimePasses ==
    /\ phase = "reading" /\ ~late
    /\ late' = TRUE
    /\ UNCHANGED <<backend, bound, phase, code, lines, found, outcome, vm>>

-----------------------------------------------------------------------------
(* reset, destroy, drop                                                      *)

Reset ==
    /\ phase = "idle" /\ child # "none"
    /\ child' = "none"
    /\ UNCHANGED <<backend, bound, call, orphans, gpu, guest, pipe>>

Destroy ==
    /\ phase = "idle" /\ initialized
    /\ child' = "none"
    /\ initialized' = FALSE
    /\ UNCHANGED <<variant, vbios, bound, call, orphans, gpu, guest, pipe>>

(* Dropped, and a new backend made. *)
Drop ==
    /\ phase = "idle" /\ initialized
    /\ child' = "none"
    /\ initialized' = FALSE /\ variant' = "none" /\ vbios' = FALSE
    /\ UNCHANGED <<bound, call, orphans, gpu, guest, pipe>>

-----------------------------------------------------------------------------
(* QEMU and its guest                                                        *)

Running == child = "running"

Prints(s) ==
    /\ Running /\ Len(pipe) < PipeMax
    /\ pipe' = pipe \o s
    /\ UNCHANGED <<backend, bound, call, process>>

BootsOn == guest = "boot" /\ guest' = guest /\ lines = <<>> /\ Prints(<<"noise">>)

SaysReady == guest = "boot" /\ guest' = "poll" /\ Prints(<<"READY">>)

(* The command arrives, echoed by the console or not; run_python announces   *)
(* itself on the console, and its child lists directories first.             *)
Starts ==
    /\ guest = "command" /\ guest' = "run"
    /\ \/ Prints(<<"echo", "noise">>)
       \/ Prints(<<"noise">>)

(* The whole output is printed when the program has ended; a command longer  *)
(* than the buffer is cut and does not parse.                                *)
Finishes ==
    /\ guest = "run" /\ code.ends /\ guest' = "finish"
    /\ IF code.fits THEN Prints(code.prints) ELSE Prints(<<"noise">>)

SaysDone == guest = "finish" /\ guest' = "poll" /\ Prints(<<"blank", "DONE">>)

(* The kernel still writes to its console while the program runs.  *)
Chatters ==
    /\ guest = "run" /\ ~code.ends /\ guest' = guest
    /\ Prints(<<"noise">>)

Hangs ==
    /\ Running /\ guest # "hung"
    /\ guest' = "hung"
    /\ UNCHANGED <<backend, bound, call, process, pipe>>

Dies ==
    /\ Running
    /\ child' = "dead"
    /\ UNCHANGED <<backend, bound, call, orphans, gpu, guest, pipe>>

GuestStep == BootsOn \/ SaysReady \/ Starts \/ Finishes \/ SaysDone \/ Chatters
HostStep == TooLate \/ ReadReady \/ WriteFails \/ ReadDone \/ ReadOther \/ ReadBye \/ ReadEof

Next ==
    \/ \E v \in {"cpu", "gpu"}, rom \in BOOLEAN : InitBackend(v, rom) \/ InitFails(v)
    \/ ExecFails \/ \E c \in Code : Spawn(c)
    \/ HostStep \/ TimePasses
    \/ Reset \/ Destroy \/ Drop
    \/ GuestStep \/ Hangs \/ Dies

Spec ==
    /\ Init /\ [][Next]_vars
    /\ WF_vars(HostStep) /\ WF_vars(GuestStep) /\ WF_vars(TimePasses)

-----------------------------------------------------------------------------
(* When no exec is in progress no QEMU runs: however the last one ended, the *)
(* GPU and the memory of its VM are free.                                    *)
NoQemuLeft == "running" \notin orphans /\ (phase = "idle" => ~Running)

(* A result that ends in DONE has every line the program printed, whether or *)
(* not the console echoed the command, unless the program prints a line that *)
(* is a marker or the command was longer than the guest's buffer.            *)
OutputKept ==
    outcome.how = "done" /\ code.fits /\ ToSet(code.prints) \subseteq {"out", "blank"}
    /\ phase = "idle" =>
        Only(outcome.lines, {"out"}) = Only(code.prints, {"out"})

(* "returns stdout result": the program's output, the whole of it, and       *)
(* nothing else.                                                             *)
OutputOnly ==
    phase = "idle" /\ outcome.how \in {"done", "end"} =>
        outcome.lines = NonBlank(code.prints)

(* A process is given the GPU for a variant that asks for one.  *)
GpuForGpuOnly == gpu /\ phase = "reading" => variant = "gpu"

(* exec returns, also when the guest writes for ever, unless it hangs: the   *)
(* deadline is looked at only when there is a line.                          *)
ExecReturns ==
    phase = "reading" ~> (phase = "idle" \/ (Running /\ pipe = <<>> /\ guest = "hung"))
=============================================================================
