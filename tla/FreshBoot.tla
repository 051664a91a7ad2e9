------------------------------- MODULE FreshBoot -------------------------------
(***************************************************************************)
(* FreshBootBackend of tinymachine-fork/src/fresh_boot.rs, the sandbox     *)
(* that boots a VM of its own and may pass the GPU through to it, and the  *)
(* FreshBootPool of pool.rs that keeps some of them booted.                *)
(*                                                                         *)
(* A backend belongs to the pool or to one caller, who hold it by          *)
(* &mut self; backends of different callers and the pool's running call    *)
(* interleave.  What the guest does with a command is RunLoop's matter;    *)
(* here an exec is what it leaves in the backend, the VM and the device.   *)
(***************************************************************************)
EXTENDS Integers, Sequences, FiniteSets, SequencesExt

CONSTANTS
  Backend,         \* identities of backends; one that was dropped may be used again
  None,
  MinIdle,         \* FreshBootPool.min
  MaxIdle,         \* FreshBootPool.max
  GpuRequired,     \* variant.limits.gpu_required
  NetworkAllowed,  \* variant.limits.network_allowed
  Retries,         \* MSI_REFRESH_RETRIES
  MaxLives         \* bound: the VMs one backend boots

NoneAssumption == None \notin Backend
SizeAssumption == {MinIdle, MaxIdle, Retries} \subseteq Nat /\ MaxLives \in Nat \ {0}
VariantAssumption == {GpuRequired, NetworkAllowed} \subseteq BOOLEAN

VARIABLES
  owner,  \* who holds the backend: nobody, the pool (or its call) or a caller
  pc,     \* where init or destroy of the backend is, "rest" outside them
  goal,   \* what a running destroy serves: it alone, an init or a drop
  be,     \* the fields of the backend
  vm,     \* its VM, as the host kernel and the guest have it
  dev,    \* which descriptors of the GPU are open on its behalf
  pool,   \* FreshBootPool.pool
  call    \* the pool's running call: what it does, the backend it will
          \* return and how many more it is to boot

vars == <<owner, pc, goal, be, vm, dev, pool, call>>

Points == {"rest", "boot", "attach", "run", "undo", "undovm",
           "session", "vm"}
Ops == {"none", "new", "boot", "refill", "release", "clear", "gone"}

\* FreshBootBackend::new.  msi is msi_gsi_base # 0; lives is not in the code.
New == [initialized |-> FALSE, msi |-> FALSE, retries |-> Retries,
        modules |-> FALSE, tap |-> FALSE, lives |-> 0]

\* asked: !load-modules was sent to this VM; net: a virtio-net device has the TAP
NoVm == [open |-> FALSE, asked |-> FALSE, routing |-> "none", net |-> FALSE]

Attached(b) == "session" \in dev[b]

Idle(op) == [op |-> op, got |-> None, left |-> 0]

\* The backend the pool's call is booting or destroying, if there is one.
InHand(b) == owner[b] = "pool" /\ b \notin ToSet(pool) /\ b # call.got

Wants == /\ call.op \in {"new", "boot", "refill"}
         /\ call.left > 0
         /\ \A b \in Backend : ~InHand(b)

Missing(q) == IF Len(q) < MinIdle THEN MinIdle - Len(q) ELSE 0

Refilled(got, q) == [op |-> "refill", got |-> got, left |-> Missing(q)]

Init ==
  /\ owner = [b \in Backend |-> "none"]
  /\ pc = [b \in Backend |-> "rest"]
  /\ goal = [b \in Backend |-> "stay"]
  /\ be = [b \in Backend |-> New]
  /\ vm = [b \in Backend |-> NoVm]
  /\ dev = [b \in Backend |-> {}]
  /\ pool = <<>>
  /\ call = [Idle("new") EXCEPT !.left = MinIdle]

Goto(b, p) == pc' = [pc EXCEPT ![b] = p]

-----------------------------------------------------------------------------
(* init: every step that can fail, and what a failure gives back.          *)

\* KVM is opened, kernel and initrd are found and boot_linux loads them.
OpenVm(b) ==
  /\ pc[b] = "boot"
  /\ vm' = [vm EXCEPT ![b] = [NoVm EXCEPT !.open = TRUE]]
  /\ Goto(b, "attach")
  /\ UNCHANGED <<owner, goal, be, dev, pool, call>>

OpenFails(b) ==
  /\ pc[b] = "boot"
  /\ Goto(b, "rest")
  /\ UNCHANGED <<owner, goal, be, vm, dev, pool, call>>

\* The kernel admits no second user of a VFIO group while any descriptor of
\* its device is open.  The session keeps one; a copy proxies the config
\* space and a copy of that serves MMIO exits, unless dup fails or no BAR can
\* be mapped.
Attach(b) ==
  /\ pc[b] = "attach"
  /\ GpuRequired
  /\ \A x \in Backend : dev[x] = {}
  /\ \E copies \in {{}, {"config"}, {"config", "mmio"}} :
       dev' = [dev EXCEPT ![b] = {"session"} \cup copies]
  /\ Goto(b, "run")
  /\ UNCHANGED <<owner, goal, be, vm, pool, call>>

\* No GPU is wanted or bound to vfio-pci, or its init fails: CPU only.
NoGpu(b) ==
  /\ pc[b] = "attach"
  /\ Goto(b, "run")
  /\ UNCHANGED <<owner, goal, be, vm, dev, pool, call>>

\* VBIOS POST or the kernel fails before READY.
BootFails(b) ==
  /\ pc[b] = "run"
  /\ Goto(b, "undo")
  /\ UNCHANGED <<owner, goal, be, vm, dev, pool, call>>

\* Locals are dropped last declared first: vfio, then booted.
UndoSession(b) ==
  /\ pc[b] = "undo"
  /\ dev' = [dev EXCEPT ![b] = @ \ {"session"}]
  /\ Goto(b, "undovm")
  /\ UNCHANGED <<owner, goal, be, vm, pool, call>>

\* Closing the VM closes config_fd, a File; dev_fd of VfioMmioInfo is a plain
\* number that nothing closes.
VmGone(b) ==
  /\ vm' = [vm EXCEPT ![b] = NoVm]
  /\ dev' = [dev EXCEPT ![b] = @ \ {"config"}]

\* What the pool's call does when a backend it boots fails: new gives up with
\* all it has booted, refill stops and acquire returns the error.
BootLost(c) == CASE c.op = "new"    -> Idle("clear")
                 [] c.op = "refill" -> [c EXCEPT !.left = 0]
                 [] c.op = "boot"   -> Idle("none")

UndoVm(b) ==
  /\ pc[b] = "undovm"
  /\ VmGone(b)
  /\ Goto(b, "rest")
  /\ IF owner[b] = "pool"
       THEN /\ owner' = [owner EXCEPT ![b] = "none"]
            /\ be' = [be EXCEPT ![b] = New]
            /\ call' = BootLost(call)
       ELSE UNCHANGED <<owner, be, call>>
  /\ UNCHANGED <<goal, pool>>

\* The host lets one TAP of a name be open; without one the VM has no network.
Taps == IF NetworkAllowed /\ \A x \in Backend : ~be[x].tap THEN BOOLEAN ELSE {FALSE}

\* The fields an init sets; the others stay as an earlier life left them.
Booted(f, t) == [f EXCEPT !.initialized = TRUE, !.tap = @ \/ t, !.lives = @ + 1]

\* VBIOS POST if there is a ROM, the kernel up to READY, the TAP, and init
\* returns; a backend the pool booted goes where the running call wants it.
Boots(b) ==
  /\ pc[b] = "run"
  /\ \E t \in Taps :
       /\ be' = [be EXCEPT ![b] = Booted(@, t)]
       /\ vm' = [vm EXCEPT ![b].net = t]
  /\ Goto(b, "rest")
  /\ IF InHand(b)
       THEN \/ /\ call.op = "boot"
               /\ call' = Refilled(b, pool)
               /\ UNCHANGED pool
            \/ /\ call.op # "boot"
               /\ pool' = Append(pool, b)
               /\ call' = [call EXCEPT !.left = @ - 1]
       ELSE UNCHANGED <<pool, call>>
  /\ UNCHANGED <<owner, goal, dev>>

-----------------------------------------------------------------------------
(* destroy, alone, before another init or as the drop of the backend.      *)

\* booted, kvm and variant go; msi_gsi_base, num_msi_vectors,
\* msi_refresh_retries, modules_loaded and tap stay.
Closed(f) == [f EXCEPT !.initialized = FALSE]

\* What follows once the backend has no VM; dropping it drops its TAP too.
Done(b, g) ==
  /\ Goto(b, IF g = "init" THEN "boot" ELSE "rest")
  /\ owner' = [owner EXCEPT ![b] = IF g = "drop" THEN "none" ELSE @]
  /\ be' = [be EXCEPT ![b] = IF g = "drop" THEN New ELSE Closed(@)]

Destroy(b, g) ==
  IF be[b].initialized
    THEN /\ Goto(b, "session")
         /\ goal' = [goal EXCEPT ![b] = g]
         /\ UNCHANGED <<owner, be>>
    ELSE Done(b, g) /\ UNCHANGED goal

\* The irqfds are deassigned first, which removes none: the call names
\* descriptor 0 where KVM looks for their eventfd, so they go with the VM.
CloseSession(b) ==
  /\ pc[b] = "session"
  /\ dev' = [dev EXCEPT ![b] = @ \ {"session"}]
  /\ Goto(b, "vm")
  /\ UNCHANGED <<owner, goal, be, vm, pool, call>>

CloseVm(b) ==
  /\ pc[b] = "vm"
  /\ VmGone(b)
  /\ Done(b, goal[b])
  /\ goal' = [goal EXCEPT ![b] = "stay"]
  /\ call' = IF InHand(b) /\ call.op = "release" THEN Idle("none") ELSE call
  /\ UNCHANGED pool

-----------------------------------------------------------------------------
(* A caller's own backend.                                                 *)

Mine(b) == owner[b] = "caller" /\ pc[b] = "rest"

NewBackend(b) ==
  /\ owner[b] = "none"
  /\ owner' = [owner EXCEPT ![b] = "caller"]
  /\ be' = [be EXCEPT ![b] = New]
  /\ UNCHANGED <<pc, goal, vm, dev, pool, call>>

InitCall(b) ==
  /\ Mine(b)
  /\ be[b].lives < MaxLives
  /\ Destroy(b, "init")
  /\ UNCHANGED <<vm, dev, pool, call>>

DestroyCall(b) ==
  /\ Mine(b)
  /\ be[b].initialized
  /\ Destroy(b, "stay")
  /\ UNCHANGED <<vm, dev, pool, call>>

DropCall(b) ==
  /\ Mine(b)
  /\ Destroy(b, "drop")
  /\ UNCHANGED <<vm, dev, pool, call>>

\* setup_msi_routing: nothing is set up without vectors or if KVM refuses the
\* table; wiring the eventfds may fail and the rest stands.
MsiSetups(s) ==
  {s} \cup (IF s.msi THEN {} ELSE {[s EXCEPT !.msi = TRUE, !.routing = "placeholder"]})

\* refresh_msi_routing: the driver has not programmed MSI yet, or has.
MsiRefreshes(s) ==
  IF s.retries = 0 THEN {s}
  ELSE IF ~s.msi THEN {[s EXCEPT !.retries = 0]}
  ELSE {[s EXCEPT !.retries = @ - 1], [s EXCEPT !.retries = 0, !.routing = "guest"]}

\* exec: modules first if the GPU is not passed through, then the code; with
\* a GPU the MSI routing follows, whatever the code did.  modules_loaded is
\* set though !load-modules failed.
Exec(b) ==
  /\ Mine(b)
  /\ be[b].initialized
  /\ LET needs == ~be[b].modules /\ GpuRequired /\ ~Attached(b)
         before == [msi |-> be[b].msi, retries |-> be[b].retries,
                    routing |-> vm[b].routing]
     IN  \E after \in IF Attached(b) THEN UNION {MsiRefreshes(s) : s \in MsiSetups(before)}
                                    ELSE {before} :
           /\ be' = [be EXCEPT ![b].modules = @ \/ needs \/ Attached(b),
                               ![b].msi = after.msi, ![b].retries = after.retries]
           /\ vm' = [vm EXCEPT ![b].asked = @ \/ needs,
                               ![b].routing = after.routing]
  /\ UNCHANGED <<owner, pc, goal, dev, pool, call>>

-----------------------------------------------------------------------------
(* FreshBootPool: one call at a time.                                      *)

PoolBoot(b) ==
  /\ Wants
  /\ owner[b] = "none"
  /\ owner' = [owner EXCEPT ![b] = "pool"]
  /\ be' = [be EXCEPT ![b] = New]
  /\ vm' = [vm EXCEPT ![b] = [NoVm EXCEPT !.open = TRUE]]
  /\ Goto(b, "attach")
  /\ UNCHANGED <<goal, dev, pool, call>>

\* init fails before a VM exists and the new backend is dropped.
PoolBootFails ==
  /\ Wants
  /\ call' = BootLost(call)
  /\ UNCHANGED <<owner, pc, goal, be, vm, dev, pool>>

EndCall ==
  /\ call.op \in {"new", "refill"}
  /\ call.left = 0
  /\ call' = Idle("none")
  /\ owner' = [b \in Backend |-> IF b = call.got THEN "caller" ELSE owner[b]]
  /\ UNCHANGED <<pc, goal, be, vm, dev, pool>>

AcquireIdle ==
  /\ call.op = "none"
  /\ pool # <<>>
  /\ pool' = Tail(pool)
  /\ call' = Refilled(Head(pool), Tail(pool))
  /\ UNCHANGED <<owner, pc, goal, be, vm, dev>>

\* "Up to max" counts the idle ones only, of which there is none here.
AcquireBoot ==
  /\ call.op = "none"
  /\ pool = <<>>
  /\ Len(pool) + 1 <= MaxIdle
  /\ call' = [Idle("boot") EXCEPT !.left = 1]
  /\ UNCHANGED <<owner, pc, goal, be, vm, dev, pool>>

(* Mutated: no reset on release, so a backend that was destroyed becomes idle. *)
Release_NoReset(b) ==
  /\ call.op = "none"
  /\ Mine(b)
  /\ Len(pool) < MaxIdle
  /\ pool' = Append(pool, b)
  /\ owner' = [owner EXCEPT ![b] = "pool"]
  /\ UNCHANGED <<pc, goal, be, vm, dev, call>>

\* A backend that was destroyed cannot be reset: it is dropped like one that
\* finds the pool full.
Release(b) ==
  /\ call.op = "none"
  /\ Mine(b)
  /\ IF Len(pool) < MaxIdle /\ be[b].initialized
       THEN /\ pool' = Append(pool, b)
            /\ owner' = [owner EXCEPT ![b] = "pool"]
            /\ UNCHANGED <<pc, goal, be, call>>
       ELSE /\ UNCHANGED pool
            /\ IF be[b].initialized
                 THEN /\ call' = Idle("release")
                      /\ owner' = [owner EXCEPT ![b] = "pool"]
                      /\ Goto(b, "session")
                      /\ goal' = [goal EXCEPT ![b] = "drop"]
                      /\ UNCHANGED be
                 ELSE Done(b, "drop") /\ UNCHANGED <<goal, call>>
  /\ UNCHANGED <<vm, dev>>

\* The pool is dropped, and its backends one by one.
DropPool ==
  /\ call.op = "none"
  /\ call' = Idle("clear")
  /\ UNCHANGED <<owner, pc, goal, be, vm, dev, pool>>

ClearNext ==
  /\ call.op = "clear"
  /\ pool # <<>>
  /\ \A b \in Backend : ~InHand(b)
  /\ pool' = Tail(pool)
  /\ Destroy(Head(pool), "drop")
  /\ UNCHANGED <<vm, dev, call>>

Cleared ==
  /\ call.op = "clear"
  /\ pool = <<>>
  /\ \A b \in Backend : ~InHand(b)
  /\ call' = Idle("gone")
  /\ UNCHANGED <<owner, pc, goal, be, vm, dev, pool>>

NewPool ==
  /\ call.op = "gone"
  /\ call' = [Idle("new") EXCEPT !.left = MinIdle]
  /\ UNCHANGED <<owner, pc, goal, be, vm, dev, pool>>

InitStep(b) ==
  \/ OpenVm(b) \/ OpenFails(b) \/ Attach(b) \/ NoGpu(b) \/ Boots(b) \/ BootFails(b)
  \/ UndoSession(b) \/ UndoVm(b)

DestroyStep(b) == CloseSession(b) \/ CloseVm(b)

CallerStep(b) ==
  NewBackend(b) \/ InitCall(b) \/ DestroyCall(b) \/ DropCall(b) \/ Exec(b) \/ Release(b)

PoolStep ==
  \/ \E b \in Backend : PoolBoot(b)
  \/ PoolBootFails \/ EndCall \/ AcquireIdle \/ AcquireBoot
  \/ DropPool \/ ClearNext \/ Cleared \/ NewPool

Next ==
  \/ \E b \in Backend : InitStep(b) \/ DestroyStep(b) \/ CallerStep(b)
  \/ PoolStep

Spec == Init /\ [][Next]_vars

-----------------------------------------------------------------------------
BackendType ==
  [initialized : BOOLEAN, msi : BOOLEAN, retries : 0..Retries, modules : BOOLEAN,
   tap : BOOLEAN, lives : 0..MaxLives]
VmType ==
  [open : BOOLEAN, asked : BOOLEAN, routing : {"none", "placeholder", "guest"},
   net : BOOLEAN]

Larger == IF MinIdle > MaxIdle THEN MinIdle ELSE MaxIdle

\* The fields and resources stay within their types; the pool holds no more
\* idle backends than the larger of min and max.
TypeOK ==
  /\ owner \in [Backend -> {"none", "pool", "caller"}]
  /\ pc \in [Backend -> Points]
  /\ goal \in [Backend -> {"stay", "init", "drop"}]
  /\ be \in [Backend -> BackendType]
  /\ vm \in [Backend -> VmType]
  /\ dev \in [Backend -> SUBSET {"session", "config", "mmio"}]
  /\ pool \in Seq(Backend) /\ Len(pool) <= Larger
  /\ call \in [op : Ops, got : Backend \cup {None}, left : 0..Larger + 1]

\* On every path, a destroy, a drop or a failed boot, the VFIO session goes
\* before the VM it is registered with: what destroy's comment asks for and the
\* drop order of init's locals has to give.
SessionInsideVm == \A b \in Backend : Attached(b) => vm[b].open

\* Whatever fails or is dropped, in whatever order, a backend that is not
\* initialized and not at work has left nothing open but the copy of the
\* device descriptor for MMIO exits; an initialized one has an owner, and an
\* idle one is in the pool once, booted.
NothingElseLost ==
  /\ \A b \in Backend : pc[b] = "rest" =>
       /\ be[b].initialized <=> vm[b].open
       /\ ~be[b].initialized => dev[b] \subseteq {"mmio"}
       /\ owner[b] = "none" => be[b] = New
  /\ \A i, j \in DOMAIN pool : pool[i] = pool[j] => i = j
  /\ \A b \in ToSet(pool) \cup ({call.got} \ {None}) :
       owner[b] = "pool" /\ pc[b] = "rest" /\ be[b].initialized
  /\ call.got \notin ToSet(pool)

\* What a backend believes of its first VM is so: MSI routing it takes for set
\* up is set up, modules it takes for loaded were asked for (unless the GPU is
\* passed through) and the TAP it holds is that VM's.  Of a later VM none of it
\* need be, since destroy keeps the flags and the TAP.
FirstLifeTrue ==
  \A b \in Backend : (pc[b] = "rest" /\ be[b].initialized /\ be[b].lives = 1) =>
    /\ be[b].msi => vm[b].routing # "none"
    /\ be[b].modules => vm[b].asked \/ Attached(b)
    /\ be[b].tap => vm[b].net

\* "destroy() - close KVM fds, release VFIO GPU": a destroy or drop that ends
\* leaves no descriptor of the GPU open.  It does: the copy for MMIO exits.
ClosesGpu == \A b \in Backend : CloseVm(b) => dev'[b] = {}
GpuReleased == [][ClosesGpu]_vars

================================================================================
