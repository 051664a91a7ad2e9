------------------------------ MODULE MCStores ------------------------------
(* What outlives a run, in one run of the checker: the templates on disk,   *)
(* the layers and composed initrds, the VMs kept booted by the fresh-boot   *)
(* pool, the buffers in guest memory that every run uses again, the results *)
(* remembered by the execution cache, the kernels templates were booted on, *)
(* and what a wasm sandbox keeps from program to program.  They share no    *)
(* state here, so a behaviour picks one part and the others are off.        *)
EXTENDS Integers, TLC

CONSTANTS
  Part,  \* the parts of this run
  Off,   \* what the variables of the other parts hold
  Session, Variant, Capture, MaxVersion, Absent, Torn,
  Proc, Packaged, MaxBytes, MaxBuild, MaxTime, MaxCalls,
  Backend, None, MinIdle, MaxIdle, GpuRequired, NetworkAllowed, Retries, MaxLives,
  Key, Result, MaxEntries, Ttl, MaxClock,
  BUF_MAX, READY_OFFSET, CodeLengths, OutputLengths,
  c1, c2, c3

VARIABLES
  part,
  disk, listed, broken, captured, session, overlapped,
  built, meta, toml, index, calls, proc, cache, now, shaken,
  owner, pc, goal, be, vm, dev, pool, call,
  at, code, divert, printed, ran, cmdbuf, outbuf, answer,
  entries, max_entries, default_ttl, clock, promised,
  file, compiled, registry, script, keeper, build, template, verdict,
  inner, last

\* The second capture lacks the network state that an abandoned store of the
\* first may have left in the same directory.
MCOptional == [c \in Capture |-> CASE c = c1 -> {"xsave", "net"} [] c = c2 -> {"xsave"} [] c = c3 -> {"net"}]

\* A base, a runtime and two versions of one package, which also provides a
\* second import, as build-layer.sh gives numpy.  Versions are numbers: their
\* strings compare the same way.  Packaged archives list their directories.
SlotOf(t, n, v) == [type |-> t, name |-> n, version |-> v]
MCBase == SlotOf("base", "base", 1)
Python == SlotOf("runtime", "python", 3)
Numpy(v) == SlotOf("pip", "numpy", v)
MCManaged == {Numpy(2)}
MCSlot == {MCBase, Python, Numpy(1), Numpy(2)}
MCProvides == [s \in MCSlot |-> IF s.type = "pip" THEN {"numpy", "scipy"} ELSE {}]
MCProfile == [s \in MCSlot |-> "base"]

MCDirectory == {"."}
MCEntry == [s \in MCSlot |->
              (IF s.type = "pip" THEN {"numpy.py"} ELSE {s.name})
              \cup (IF Packaged THEN {"."} ELSE {})]

Unversioned == 0  \* a dependency without a version asks for one called "latest"
Dep(v) == [name |-> "numpy", version |-> v]
Asks(i, c, g) == [imports |-> i, cli |-> c, pragmas |-> g]
MCRequest == {Asks(<<"numpy">>, <<>>, <<>>),
              Asks(<<"scipy", "numpy", "os">>, <<>>, <<Dep(1)>>),
              Asks(<<>>, <<Dep(Unversioned)>>, <<Dep(1)>>)}

\* A module that stores a string, one that imports WASI, one without a memory
\* and a text that does not compile; fuel for none, one or all of them.
MCTraits == [p \in {"good", "wasi", "bare", "bad"} |->
              CASE p = "good" -> {"compiles", "memory", "main"}
                [] p = "wasi" -> {"compiles", "imports", "memory", "_start"}
                [] p = "bare" -> {"compiles", "main", "_start"}
                [] p = "bad"  -> {}]
MCBurns == [p \in {"good", "wasi", "bare", "bad"} |-> IF p = "good" THEN 2 ELSE 1]

Store == INSTANCE TemplateStore WITH Optional <- MCOptional
Layers == INSTANCE LayerStore WITH Slot <- MCSlot, Managed <- MCManaged, Base <- MCBase,
            RuntimeName <- "python", Request <- MCRequest, Provides <- MCProvides,
            Profile <- MCProfile, Entry <- MCEntry, Directory <- MCDirectory
Fresh == INSTANCE FreshBoot
Buf == INSTANCE ExecBuffers
Memo == INSTANCE ExecCache WITH Miss <- None
Kernel == INSTANCE Kernels WITH Release <- {"6.6.1", "7.1.4"}, Newest <- "7.1.4", MaxKernel <- 2
Box == INSTANCE Wasm WITH Program <- {"good", "wasi", "bare", "bad"}, Traits <- MCTraits,
         Burns <- MCBurns, Limit <- {0, 1, 3}, Slots <- 3

ASSUME Assumptions ==
  /\ Store!StoreAssumption
  /\ Layers!SlotAssumption /\ Layers!ManagedAssumption /\ Layers!BoundAssumption
  /\ Layers!NameAssumption /\ Layers!RequestAssumption
  /\ Fresh!NoneAssumption /\ Fresh!SizeAssumption /\ Fresh!VariantAssumption
  /\ Buf!BuffersAssumption /\ Memo!CacheAssumption
  /\ Kernel!KernelsAssumption /\ Kernel!RegistryAssumption /\ Box!WasmAssumption

storeVars == <<disk, listed, broken, captured, session, overlapped>>
layersVars == <<built, meta, toml, index, calls, proc, cache, now, shaken>>
freshVars == <<owner, pc, goal, be, vm, dev, pool, call>>
buffersVars == <<at, code, divert, printed, ran, cmdbuf, outbuf, answer>>
memoVars == <<entries, max_entries, default_ttl, clock, promised>>
kernelVars == <<file, compiled, registry, script, keeper, build, template, verdict>>
wasmVars == <<inner, last>>

storeOff == disk = Off /\ listed = Off /\ broken = Off /\ captured = Off /\
            session = Off /\ overlapped = Off
layersOff == built = Off /\ meta = Off /\ toml = Off /\ index = Off /\
             calls = Off /\ proc = Off /\ cache = Off /\ now = Off /\ shaken = Off
freshOff == owner = Off /\ pc = Off /\ goal = Off /\ be = Off /\ vm = Off /\
            dev = Off /\ pool = Off /\ call = Off
buffersOff == at = Off /\ code = Off /\ divert = Off /\ printed = Off /\ ran = Off /\
              cmdbuf = Off /\ outbuf = Off /\ answer = Off
memoOff == entries = Off /\ max_entries = Off /\ default_ttl = Off /\ clock = Off /\
           promised = Off
kernelOff == file = Off /\ compiled = Off /\ registry = Off /\ script = Off /\
             keeper = Off /\ build = Off /\ template = Off /\ verdict = Off
wasmOff == inner = Off /\ last = Off

Init ==
  \/ part = "store" /\ "store" \in Part /\ Store!Init
     /\ layersOff /\ freshOff /\ buffersOff /\ memoOff /\ kernelOff /\ wasmOff
  \/ part = "layers" /\ "layers" \in Part /\ Layers!Init
     /\ storeOff /\ freshOff /\ buffersOff /\ memoOff /\ kernelOff /\ wasmOff
  \/ part = "fresh" /\ "fresh" \in Part /\ Fresh!Init
     /\ storeOff /\ layersOff /\ buffersOff /\ memoOff /\ kernelOff /\ wasmOff
  \/ part = "buffers" /\ "buffers" \in Part /\ Buf!Init
     /\ storeOff /\ layersOff /\ freshOff /\ memoOff /\ kernelOff /\ wasmOff
  \/ part = "memo" /\ "memo" \in Part /\ Memo!Init
     /\ storeOff /\ layersOff /\ freshOff /\ buffersOff /\ kernelOff /\ wasmOff
  \/ part = "kernel" /\ "kernel" \in Part /\ Kernel!Init
     /\ storeOff /\ layersOff /\ freshOff /\ buffersOff /\ memoOff /\ wasmOff
  \/ part = "wasm" /\ "wasm" \in Part /\ Box!Init
     /\ storeOff /\ layersOff /\ freshOff /\ buffersOff /\ memoOff /\ kernelOff

\* Where a part may stop: registry.json is half written, so that nobody can
\* open it; the processes have used up the calls the bound gives them; the run
\* is over, or init polls on as the command is empty.
Rests ==
  \/ part = "store" /\ broken /\ \A s \in Session : session[s].at = "idle"
  \/ part = "layers" /\ \A p \in Proc : proc[p].at = "idle" /\ calls[p] = MaxCalls
  \/ part = "buffers" /\ (at = "done" \/ (at = "fetch" /\ code = <<>>))

Next ==
  /\ UNCHANGED part
  /\ \/ part = "store" /\ Store!Next
        /\ UNCHANGED <<layersVars, freshVars, buffersVars, memoVars, kernelVars, wasmVars>>
     \/ part = "layers" /\ Layers!Next
        /\ UNCHANGED <<storeVars, freshVars, buffersVars, memoVars, kernelVars, wasmVars>>
     \/ part = "fresh" /\ Fresh!Next
        /\ UNCHANGED <<storeVars, layersVars, buffersVars, memoVars, kernelVars, wasmVars>>
     \/ part = "buffers" /\ Buf!Next
        /\ UNCHANGED <<storeVars, layersVars, freshVars, memoVars, kernelVars, wasmVars>>
     \/ part = "memo" /\ Memo!Next
        /\ UNCHANGED <<storeVars, layersVars, freshVars, buffersVars, kernelVars, wasmVars>>
     \/ part = "kernel" /\ Kernel!Next
        /\ UNCHANGED <<storeVars, layersVars, freshVars, buffersVars, memoVars, wasmVars>>
     \/ part = "wasm" /\ Box!Next
        /\ UNCHANGED <<storeVars, layersVars, freshVars, buffersVars, memoVars, kernelVars>>
     \/ Rests /\ UNCHANGED <<storeVars, layersVars, freshVars, buffersVars, memoVars, kernelVars, wasmVars>>

vars == <<part, storeVars, layersVars, freshVars, buffersVars, memoVars, kernelVars, wasmVars>>
Spec == Init /\ [][Next]_vars

\* Processes are interchangeable, and so are backends; one set serves both.
Alike == Permutations(Session)

------------------------------------------------------------------------------
(* The states of the parts are well formed.                                 *)
TypeOK ==
  /\ part = "store" => Store!TypeOK
  /\ part = "layers" => Layers!TypeOK
  /\ part = "fresh" => Fresh!TypeOK
  /\ part = "memo" => Memo!TypeOK
  /\ part = "kernel" => Kernel!TypeOK
  /\ part = "wasm" => Box!TypeOK

(* TemplateRegistry: without overlapping stores a listed template has all   *)
(* its files; what is loaded is one whole capture; and a snapshot that is   *)
(* mapped keeps its contents (store_snapshot, load_snapshot); and a base    *)
(* template that load accepts was booted on the kernel its version has      *)
(* (Snapshot::load, resolve_kernel_info, boot_linux).                       *)
StoredWhole ==
  /\ part = "store" => Store!ListedComplete /\ Store!LoadedWhole /\ Store!MappedMemoryKept
  /\ part = "kernel" => Kernel!LoadsItsKernel

(* Composer: what boots under a key is the composition the key names, and   *)
(* no layer silently replaces a file of another (compose_initrd).           *)
BootedIsKeyed == part = "layers" => Layers!BootedIsKeyed /\ Layers!NoHiddenOverwrite

(* Composer: a plan has what the request names, in the version it names     *)
(* (resolve).                                                               *)
PlanHonours == part = "layers" => Layers!PlanHonours

(* Whatever step of init fails, and however a backend is reset, destroyed   *)
(* or dropped, nothing is lost but what the code is known to lose; a VFIO   *)
(* session lives inside the life of its VM; and what a backend believes of  *)
(* its first VM is true of it (FreshBootBackend).                           *)
NothingElseLost ==
  part = "fresh" => Fresh!SessionInsideVm /\ Fresh!NothingElseLost /\ Fresh!FirstLifeTrue

(* An answer that fits is what the snippet printed, nothing of an earlier   *)
(* run; the command that runs is the snippet or its first bytes             *)
(* (prepare_vm_for_execution, read_vm_output, init.c).                      *)
AnswerIntact == part = "buffers" => Buf!ShortOutputIntact /\ Buf!CommandIsPrefix

(* ExecutionCache: get answers with the last result that was accepted for   *)
(* its key, as long as the time to live of that set and no longer, whatever *)
(* was refused, evicted or reconfigured since; and what a WasmSandbox keeps *)
(* changes no program's answer.                                             *)
RemembersExactly ==
  /\ part = "memo" => Memo!RemembersExactly
  /\ part = "wasm" => Box!AnswersAlone

(* No step takes a template from the listing, and an eviction takes the     *)
(* least recently used composition (save, enforce_max_size).                *)
StepsKeep ==
  [][/\ part = "store" => Store!KeepsListed
     /\ part = "layers" => Layers!EvictsOldest]_vars

(* Violated: two layers with no file in common compose (conflict_check).    *)
DisjointFilesCompose == part = "layers" => Layers!DisjointFilesCompose

(* Violated: after a backend is gone its GPU is free (FreshBootBackend).    *)
GpuReleased == [][part = "fresh" => Fresh!ClosesGpu]_vars
==============================================================================
