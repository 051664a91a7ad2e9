------------------------------ MODULE ExecBuffers ------------------------------
(* One command's way through guest memory: CMD_BUF, OUT_BUF and what shares  *)
(* OUT_BUF's page.  BUF_MAX is 4096; the READY word lies inside the buffer   *)
(* it announces, at READY_SIGNAL_OFFSET = 4090 = BUF_MAX - 6, and two bytes  *)
(* of entropy at BUF_MAX - 8.  Host: boot.rs and run_code; guest: init.c.    *)
(* A text is a sequence of tokens <<tag, position>>; position tells a byte   *)
(* that moved or was replaced from the one that was there.                   *)
EXTENDS Integers, Sequences, SequencesExt

CONSTANTS BUF_MAX,       \* size of either buffer
          READY_OFFSET,  \* READY_SIGNAL_OFFSET (layout.rs), READY_OFFSET (init.c)
          CodeLengths,   \* lengths of the snippets handed to run_code
          OutputLengths  \* lengths of what the snippets print

BuffersAssumption ==
    /\ BUF_MAX \in Nat /\ BUF_MAX >= 14
    /\ READY_OFFSET = BUF_MAX - 6
    /\ CodeLengths \subseteq Nat /\ OutputLengths \subseteq Nat

VARIABLES at,      \* the next step of the round trip
          code,    \* the snippet given to run_code
          divert,  \* ForkedVm::entropy_divergence
          printed, \* what the snippet printed, trailing newlines trimmed
          ran,     \* the command init copied out of CMD_BUF
          cmdbuf,  \* CMD_BUF
          outbuf,  \* OUT_BUF
          answer   \* read_vm_output's text

vars == <<at, code, divert, printed, ran, cmdbuf, outbuf, answer>>

Zero == <<"zero", 0>>
Stale == <<"stale", 0>>
Text(tag, n) == [i \in 1 .. n |-> <<tag, i>>]
Ready == Text("ready", 5)
Skip == Text("skip", 2)
Diagnostic == Text("empty output", 1)
Blank == [i \in 0 .. BUF_MAX - 1 |-> Zero]

(* A C copy of text into a buffer, from an offset on. *)
Write(buf, offset, text) ==
    [i \in DOMAIN buf |-> IF i - offset + 1 \in DOMAIN text
                          THEN text[i - offset + 1] ELSE buf[i]]

(* What a reader that stops at the first NUL, or after limit bytes, sees. *)
ReadString(buf, limit) ==
    LET ends == {i \in 0 .. limit - 1 : buf[i] = Zero}
        len == IF ends = {} THEN limit
               ELSE CHOOSE i \in ends : \A j \in ends : i <= j
    IN [i \in 1 .. len |-> buf[i - 1]]

Truncate(text, n) == IF Len(text) <= n THEN text ELSE SubSeq(text, 1, n)

(* Both buffers hold whatever the last run left there. *)
Init ==
    /\ at = "prepare"
    /\ code \in {Text("code", n) : n \in CodeLengths}
    /\ printed \in {Text("out", n) : n \in OutputLengths}
    /\ divert \in BOOLEAN
    /\ ran = <<>> /\ answer = <<>>
    /\ cmdbuf = [i \in 0 .. BUF_MAX - 1 |-> Stale]
    /\ outbuf = [i \in 0 .. BUF_MAX - 1 |-> Stale]

(* prepare_vm_for_execution: OUT_BUF (and READY in it) is zeroed, the code   *)
(* is cut to BUF_MAX - 1 bytes and terminated.                               *)
Prepare ==
    /\ at = "prepare" /\ at' = "fetch"
    /\ outbuf' = Blank
    /\ LET kept == Truncate(code, BUF_MAX - 1)
       IN cmdbuf' = Write(cmdbuf, 0, Append(kept, Zero))
    /\ UNCHANGED <<code, divert, printed, ran, answer>>

(* init.c copies the command, clears CMD_BUF and READY, and in normal mode   *)
(* records how many random bytes it skipped.  With no command it polls on.   *)
Fetch ==
    /\ at = "fetch"
    /\ LET cmd == ReadString(cmdbuf, BUF_MAX - 1)
           cleared == Write(outbuf, READY_OFFSET, [i \in 1 .. 6 |-> Zero])
       IN /\ cmd # <<>>
          /\ ran' = cmd
          /\ outbuf' = IF divert THEN Write(cleared, BUF_MAX - 8, Skip) ELSE cleared
    /\ cmdbuf' = Blank
    /\ at' = "exec"
    /\ UNCHANGED <<code, divert, printed, answer>>

(* The output is cut to BUF_MAX - 1 bytes; an empty one is replaced by a     *)
(* diagnostic.                                                               *)
WriteOut ==
    /\ at = "exec" /\ at' = "ready"
    /\ LET text == IF printed = <<>> THEN Diagnostic ELSE Truncate(printed, BUF_MAX - 1)
       IN outbuf' = Write(outbuf, 0, Append(text, Zero))
    /\ UNCHANGED <<code, divert, printed, ran, cmdbuf, answer>>

(* Mutated: READY is written one byte early.                                *)
WriteReady_Long ==
    /\ at = "ready" /\ at' = "read"
    /\ outbuf' = Write(outbuf, READY_OFFSET - 1, Append(Ready, Zero))
    /\ UNCHANGED <<code, divert, printed, ran, cmdbuf, answer>>

(* "READY" and a NUL. *)
WriteReady ==
    /\ at = "ready" /\ at' = "read"
    /\ outbuf' = Write(outbuf, READY_OFFSET, Append(Ready, Zero))
    /\ UNCHANGED <<code, divert, printed, ran, cmdbuf, answer>>

(* read_vm_output; what run_code then appends as ENTROPY: is left out. *)
ReadBack ==
    /\ at = "read" /\ at' = "done"
    /\ answer' = ReadString(outbuf, BUF_MAX)
    /\ UNCHANGED <<code, divert, printed, ran, cmdbuf, outbuf>>

Next == Prepare \/ Fetch \/ WriteOut \/ WriteReady \/ ReadBack

Spec == Init /\ [][Next]_vars

-----------------------------------------------------------------------------
(* Up to the byte before the entropy tail and READY, the answer is what the  *)
(* snippet printed (or init's diagnostic): nothing of an earlier run and     *)
(* nothing of READY gets into it.                                            *)
ShortOutputIntact ==
    at = "done" /\ Len(printed) < READY_OFFSET =>
        answer = IF printed = <<>> THEN Diagnostic ELSE printed

(* The command that runs is the snippet, or its first BUF_MAX - 1 bytes.     *)
CommandIsPrefix ==
    ran # <<>> => ran = Truncate(code, BUF_MAX - 1)
=============================================================================
