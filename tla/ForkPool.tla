------------------------------- MODULE ForkPool -------------------------------
(***************************************************************************)
(* The warm pools of tinymachine-fork/src/pool.rs: a PoolManager holding   *)
(* one ForkPool per variant.  A ForkPool owns a fork engine (a snapshot to *)
(* fork from), a FIFO of idle forked VMs and a configuration (min, max).   *)
(*                                                                         *)
(* A caller owns what acquire and acquire_batch return; it may run code on *)
(* a VM, release it under any variant name, or let it drop.  Every         *)
(* operation takes &mut self, so each is one atomic step here.             *)
(***************************************************************************)
EXTENDS Integers, Sequences

CONSTANTS
  Variant,   \* the names pools are registered under
  Engine,    \* the fork engines (snapshots) a pool may be registered with
  NoEngine,  \* no engine: of an unregistered pool, of a VM that does not exist
  VM,        \* identities of VMs; one that was dropped may be used again
  Config,    \* the pool configurations in use, records [min, max]
  MaxAsk     \* bound: largest batch or fill target a caller asks for

ASSUME ConfigAssumption == Config \subseteq [min : Nat, max : Nat]
ASSUME AskAssumption == MaxAsk \in Nat
ASSUME EngineAssumption == NoEngine \notin Engine

VARIABLES
  registered,  \* the variants that have a pool
  engine,      \* engine[v]: the engine of v's pool
  config,      \* config[v]: the configuration of v's pool
  idle,        \* idle[v]: the FIFO of v's pool
  held,        \* the VMs owned by callers
  image,       \* image[x]: the engine x was forked from, NoEngine if no VM x
  used,        \* the VMs that ran code since they were forked
  owed         \* history: pools whose last refill failed or was deferred

vars == <<registered, engine, config, idle, held, image, used, owed>>

Elems(s) == {s[i] : i \in DOMAIN s}

Distinct(s) == \A i, j \in DOMAIN s : s[i] = s[j] => i = j

Live == {x \in VM : image[x] # NoEngine}

Monus(a, b) == IF a > b THEN a - b ELSE 0
Least(a, b) == IF a < b THEN a ELSE b

(* fork_batch(n): n new VMs in order, or (modelled at each caller) an      *)
(* error after which the ones already forked have been dropped.            *)
FreshBatch(n, alive) ==
  {s \in [1..n -> VM \ alive] : Distinct(s)}

(* How many VMs refill() asks of fork_batch for a pool of length len.      *)
RefillSize(c, len) == Least(Monus(c.min, len), Monus(c.max, len))

Forked(S, e) == [x \in VM |-> IF x \in S THEN e ELSE image[x]]
Dropped(S) == [x \in VM |-> IF x \in S THEN NoEngine ELSE image[x]]

-----------------------------------------------------------------------------
Init ==
  /\ registered = {}
  /\ engine = [v \in Variant |-> NoEngine]
  /\ config = [v \in Variant |-> [min |-> 0, max |-> 0]]
  /\ idle = [v \in Variant |-> <<>>]
  /\ held = {}
  /\ image = [x \in VM |-> NoEngine]
  /\ used = {}
  /\ owed = {}

(* Mutated: a failed pre-warm keeps the engine but registers no pool.      *)
Register_Half(v, e, c) ==
  /\ v \notin registered
  /\ engine' = [engine EXCEPT ![v] = e]
  /\ config' = [config EXCEPT ![v] = c]
  /\ UNCHANGED <<registered, idle, held, image, used, owed>>

(* register / register_composition: a registered pool wins over the        *)
(* arguments; a new one forks min VMs, and stays empty if that fails.      *)
Register(v, e, c) ==
  /\ v \notin registered
  /\ registered' = registered \cup {v}
  /\ engine' = [engine EXCEPT ![v] = e]
  /\ config' = [config EXCEPT ![v] = c]
  /\ \/ \E s \in FreshBatch(c.min, Live) :
          /\ idle' = [idle EXCEPT ![v] = s]
          /\ image' = Forked(Elems(s), e)
          /\ owed' = owed
     \/ /\ c.min > 0
        /\ owed' = owed \cup {v}
        /\ UNCHANGED <<idle, image>>
  /\ UNCHANGED <<held, used>>

(* refill(): q is the FIFO it finds and S the VMs forked so far in this    *)
(* operation.  A failed fork_batch is only logged.                         *)
Refill(v, q, S) ==
  \/ \E s \in FreshBatch(RefillSize(config[v], Len(q)), Live \cup S) :
       /\ idle' = [idle EXCEPT ![v] = q \o s]
       /\ image' = Forked(S \cup Elems(s), engine[v])
       /\ owed' = owed \ {v}
  \/ /\ RefillSize(config[v], Len(q)) > 0
     /\ idle' = [idle EXCEPT ![v] = q]
     /\ image' = Forked(S, engine[v])
     /\ owed' = owed \cup {v}

(* Mutated: front() in place of pop_front().                               *)
AcquireWarm_Peek(v, x) ==
  /\ v \in registered
  /\ idle[v] # <<>>
  /\ x = Head(idle[v])
  /\ held' = held \cup {x}
  /\ Refill(v, idle[v], {})
  /\ UNCHANGED <<registered, engine, config, used>>

(* Mutated: the on-demand branch of acquire() returns without a refill.    *)
AcquireCold_NoRefill(v, x) ==
  /\ v \in registered
  /\ idle[v] = <<>>
  /\ x \notin Live
  /\ held' = held \cup {x}
  /\ image' = Forked({x}, engine[v])
  /\ owed' = owed \ {v}
  /\ UNCHANGED <<registered, engine, config, idle, used>>

(* Mutated: a cold fork although the pool has a warm VM.                   *)
AcquireCold_Eager(v, x) ==
  /\ v \in registered
  /\ x \notin Live
  /\ held' = held \cup {x}
  /\ Refill(v, idle[v], {x})
  /\ UNCHANGED <<registered, engine, config, used>>

(* acquire(): the longest idle VM, or a new one when the pool is empty.    *)
AcquireWarm(v, x) ==
  /\ v \in registered
  /\ idle[v] # <<>>
  /\ x = Head(idle[v])
  /\ held' = held \cup {x}
  /\ Refill(v, Tail(idle[v]), {})
  /\ UNCHANGED <<registered, engine, config, used>>

AcquireCold(v, x) ==
  /\ v \in registered
  /\ idle[v] = <<>>
  /\ x \notin Live
  /\ held' = held \cup {x}
  /\ Refill(v, <<>>, {x})
  /\ UNCHANGED <<registered, engine, config, used>>

Acquire(v, x) == AcquireWarm(v, x) \/ AcquireCold(v, x)

(* acquire() returns an error: no such pool, or the on-demand fork failed, *)
(* which returns before the refill.                                        *)
AcquireFails(v) ==
  /\ v \in registered => idle[v] = <<>>
  /\ UNCHANGED vars

(* Mutated: the VMs drained before a failing fork_batch are forgotten.     *)
AcquireBatch_Forgets(v, n) ==
  /\ v \in registered
  /\ n > Len(idle[v])
  /\ idle' = [idle EXCEPT ![v] = <<>>]
  /\ owed' = owed \cup {v}
  /\ UNCHANGED <<registered, engine, config, held, image, used>>

(* acquire_batch(n): drain, then one fork_batch for the rest; no refill.   *)
(* When fork_batch fails `?` returns and the drained VMs are dropped.      *)
AcquireBatch(v, n) ==
  LET k    == Least(n, Len(idle[v]))
      warm == SubSeq(idle[v], 1, k)
      rest == SubSeq(idle[v], k + 1, Len(idle[v]))
  IN
  /\ v \in registered
  /\ idle' = [idle EXCEPT ![v] = rest]
  /\ owed' = owed \cup {v}
  /\ \/ \E s \in FreshBatch(n - k, Live) :
          /\ held' = held \cup Elems(warm) \cup Elems(s)
          /\ image' = Forked(Elems(s), engine[v])
          /\ UNCHANGED used
     \/ /\ n > k
        /\ image' = Dropped(Elems(warm))
        /\ used' = used \ Elems(warm)
        /\ UNCHANGED held
  /\ UNCHANGED <<registered, engine, config>>

(* fill_to(t): bypasses max; on an error nothing changes.                  *)
FillTo(v, t) ==
  /\ v \in registered
  /\ t > Len(idle[v])
  /\ \E s \in FreshBatch(t - Len(idle[v]), Live) :
       /\ idle' = [idle EXCEPT ![v] = idle[v] \o s]
       /\ image' = Forked(Elems(s), engine[v])
  /\ UNCHANGED <<registered, engine, config, held, used, owed>>

(* A VM goes out of scope: ForkedVm::drop unmaps its memory, its fds close. *)
DropHeld(x) ==
  /\ x \in held
  /\ held' = held \ {x}
  /\ image' = Dropped({x})
  /\ used' = used \ {x}
  /\ UNCHANGED <<registered, engine, config, idle, owed>>

(* Mutated: release compares with > in place of >=.                        *)
Release_OffByOne(v, x) ==
  /\ x \in held
  /\ v \in registered
  /\ Len(idle[v]) <= config[v].max
  /\ held' = held \ {x}
  /\ idle' = [idle EXCEPT ![v] = Append(idle[v], x)]
  /\ UNCHANGED <<registered, engine, config, image, used, owed>>

(* release(): pushed at the back as it is, or dropped when the pool is at  *)
(* max or there is no pool of that name.                                   *)
Release(v, x) ==
  \/ /\ x \in held
     /\ v \in registered
     /\ Len(idle[v]) < config[v].max
     /\ held' = held \ {x}
     /\ idle' = [idle EXCEPT ![v] = Append(idle[v], x)]
     /\ UNCHANGED <<registered, engine, config, image, used, owed>>
  \/ /\ v \in registered => Len(idle[v]) >= config[v].max
     /\ DropHeld(x)

(* remove(): the pool is handed back and dropped with its idle VMs.        *)
Remove(v) ==
  /\ v \in registered
  /\ registered' = registered \ {v}
  /\ engine' = [engine EXCEPT ![v] = NoEngine]
  /\ config' = [config EXCEPT ![v] = [min |-> 0, max |-> 0]]
  /\ idle' = [idle EXCEPT ![v] = <<>>]
  /\ image' = Dropped(Elems(idle[v]))
  /\ used' = used \ Elems(idle[v])
  /\ owed' = owed \ {v}
  /\ UNCHANGED held

(* A caller runs code on a VM it holds (ForkedVm::run_code).               *)
Use(x) ==
  /\ x \in held
  /\ used' = used \cup {x}
  /\ UNCHANGED <<registered, engine, config, idle, held, image, owed>>

Next ==
  \/ \E v \in Variant, e \in Engine, c \in Config : Register(v, e, c)
  \/ \E v \in Variant, x \in VM : Acquire(v, x)
  \/ \E v \in Variant, n \in 1..MaxAsk : AcquireBatch(v, n)
  \/ \E v \in Variant, t \in 1..MaxAsk : FillTo(v, t)
  \/ \E v \in Variant, x \in VM : Release(v, x)
  \/ \E v \in Variant : Remove(v)
  \/ \E x \in VM : Use(x) \/ DropHeld(x)

Spec == Init /\ [][Next]_vars

-----------------------------------------------------------------------------
(* Types of the variables of pool.rs; an unregistered name has no pool.    *)
TypeOK ==
  /\ registered \subseteq Variant
  /\ engine \in [Variant -> Engine \cup {NoEngine}]
  /\ config \in [Variant -> [min : Nat, max : Nat]]
  /\ idle \in [Variant -> Seq(VM)]
  /\ held \subseteq VM
  /\ image \in [VM -> Engine \cup {NoEngine}]
  /\ used \subseteq VM
  /\ owed \subseteq registered
  /\ \A v \in Variant : v \in registered <=> engine[v] # NoEngine
  /\ \A v \in Variant \ registered : idle[v] = <<>>

(* The VMs that exist are exactly those idle in a registered pool or held  *)
(* by a caller: no error path of acquire_batch, release or remove leaks a  *)
(* VM (an mmap and three fds), and none hands out one that is gone.        *)
NoLeak == Live = held \cup UNION {Elems(idle[v]) : v \in registered}

(* A VM has one owner: it is never both with a caller and idle, never in   *)
(* two pools, never twice in one FIFO (two callers would run one VM).      *)
OneOwner ==
  /\ \A v \in Variant : Elems(idle[v]) \cap held = {}
  /\ \A v, w \in Variant : v # w => Elems(idle[v]) \cap Elems(idle[w]) = {}
  /\ \A v \in Variant : Distinct(idle[v])

(* The warm floor: unless its last refill failed or was deferred by        *)
(* acquire_batch, a pool holds at least min idle VMs (or max, if lower).   *)
FloorKept ==
  \A v \in registered \ owed :
    Len(idle[v]) >= Least(config[v].min, config[v].max)

(* max is a limit on what release and the refills leave idle: a FIFO gets  *)
(* longer than max only by fill_to or by the pre-warming of new().         *)
PastMaxOnlyByFill ==
  [][\A v \in registered :
       Len(idle'[v]) > Len(idle[v]) /\ Len(idle'[v]) > config[v].max =>
         \E t \in 1..MaxAsk : FillTo(v, t)]_vars

(* The abstract pool, seen through the FIFOs as sets.                      *)
Ready == [v \in Variant |-> Elems(idle[v])]
Promise == INSTANCE SandboxPool WITH
             Pool <- Variant, Sandbox <- VM, ready <- Ready, out <- held

(* Every operation of the pools is a step the abstract pool allows:        *)
(* warm sandboxes first, nothing handed out twice, nothing reappears.      *)
KeepsPromise == Promise!Spec
=============================================================================
