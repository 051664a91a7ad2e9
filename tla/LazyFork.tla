------------------------------- MODULE LazyFork -------------------------------
(***************************************************************************)
(* The deferred batch scheduler of tinymachine-fork/src/lazy.rs, on top of *)
(* the pools it owns (ForkPool).  Snippets queue up; realize() drains the  *)
(* queue and takes it chunk by chunk: acquire one VM per snippet, run all  *)
(* VMs in parallel threads, then release them and place the results.       *)
(*                                                                         *)
(* realize() holds &mut self, so between its steps only its own threads    *)
(* move; the owner uses the pools (pool_manager_mut) between two calls.    *)
(***************************************************************************)
EXTENDS ForkPool

CONSTANTS
  Item,       \* the code snippets
  VariantOf,  \* VariantOf[i]: the variant snippet i was queued for
  MaxBatch    \* LazyConfig.max_batch

ItemAssumption == VariantOf \in [Item -> Variant]
BatchAssumption == MaxBatch \in Nat \ {0}

VARIABLES
  queue,      \* the queued snippets
  timer,      \* timer_start is set
  manager,    \* a PoolManager is attached
  phase,      \* where realize() is; "idle" when it is not running
  items,      \* the drained snippets
  eff,        \* effective batch size
  base,       \* chunk_base: how many snippets precede the current chunk
  pos,        \* snippets of items visited by the acquire loop
  acquired,   \* the chunk's VMs in the order acquired: records [variant, vm]
  running,    \* indices of acquired whose thread has not been joined
  outputs,    \* chunk_results: per index of acquired
  results,    \* per item: a Result or NoResult
  failed      \* history: positions whose acquire failed in this realize()

lazyVars == <<queue, timer, manager, phase, items, eff, base, pos, acquired,
              running, outputs, results, failed>>
allVars == <<vars, lazyVars>>

chunkVars == <<phase, items, eff, base, pos, acquired, running, outputs,
               results, failed>>

NoResult == [kind |-> "none"]
(* "code" names the snippet whose code ran; "own" says that the VM was     *)
(* forked from the engine of that snippet's variant.                       *)
Ran(i, x) ==
  [kind : {"output", "run_error"}, code : {i},
   own : {image[x] = engine[VariantOf[i]]}]
AcquireError(i) == [kind |-> "acquire_error", code |-> i]

ChunkEnd == Least(base + eff, Len(items))

(* effective_batch_size(): max_batch, or the profiler's scaling of it by   *)
(* the estimated RAM, which is at least 1.                                 *)
EffectiveSizes == 1..MaxBatch

-----------------------------------------------------------------------------
LazyInit ==
  /\ Init
  /\ queue = <<>> /\ timer = FALSE /\ manager = FALSE
  /\ phase = "idle" /\ items = <<>> /\ eff = 1 /\ base = 0 /\ pos = 0
  /\ acquired = <<>> /\ running = {} /\ outputs = <<>>
  /\ results = <<>> /\ failed = {}

(* The head of realize(): the queue is drained before the missing manager  *)
(* is noticed; without one the result is empty.                            *)
Drain(q) ==
  /\ queue' = <<>>
  /\ timer' = FALSE
  /\ failed' = {}
  /\ IF manager
     THEN /\ phase' = "acquire"
          /\ items' = q
          /\ eff' \in EffectiveSizes
          /\ results' = [k \in 1..Len(q) |-> NoResult]
     ELSE UNCHANGED <<phase, items, eff, results>>
  /\ UNCHANGED <<manager, base, pos, acquired, running, outputs>>

(* push(): the item that fills the batch realizes it at once.              *)
Push(i) ==
  /\ phase = "idle"
  /\ IF Len(queue) + 1 >= MaxBatch
     THEN Drain(Append(queue, i))
     ELSE /\ queue' = Append(queue, i)
          /\ timer' = TRUE
          /\ UNCHANGED <<manager, chunkVars>>
  /\ UNCHANGED vars

Realize ==
  /\ phase = "idle"
  /\ queue # <<>>
  /\ Drain(queue)
  /\ UNCHANGED vars

Clear ==
  /\ phase = "idle"
  /\ queue # <<>>
  /\ queue' = <<>>
  /\ timer' = FALSE
  /\ UNCHANGED <<manager, chunkVars, vars>>

(* set_pool_manager(): a manager that is replaced goes with all its pools. *)
SetPoolManager ==
  /\ phase = "idle"
  /\ manager' = TRUE
  /\ registered' = {} /\ owed' = {}
  /\ engine' = [v \in Variant |-> NoEngine]
  /\ config' = [v \in Variant |-> [min |-> 0, max |-> 0]]
  /\ idle' = [v \in Variant |-> <<>>]
  /\ LET gone == UNION {Elems(idle[v]) : v \in Variant}
     IN /\ image' = Dropped(gone)
        /\ used' = used \ gone
  /\ UNCHANGED <<held, queue, timer, chunkVars>>

(* pool_manager_mut(): the owner registers, fills and removes pools.       *)
Manage ==
  /\ phase = "idle"
  /\ manager
  /\ \/ \E v \in Variant, e \in Engine, c \in Config : Register(v, e, c)
     \/ \E v \in Variant, t \in 1..MaxAsk : FillTo(v, t)
     \/ \E v \in Variant : Remove(v)
  /\ UNCHANGED lazyVars

-----------------------------------------------------------------------------
(* One turn of the acquire loop.  What is kept of a success is the variant *)
(* and the VM: the snippet's position in the chunk is not.                 *)
AcquireNext ==
  /\ phase = "acquire"
  /\ pos < ChunkEnd
  /\ pos' = pos + 1
  /\ LET i == items[pos + 1]
         v == VariantOf[i]
     IN \/ \E x \in VM :
             /\ Acquire(v, x)
             /\ acquired' = Append(acquired, [variant |-> v, vm |-> x])
             /\ UNCHANGED <<results, failed>>
        \/ /\ AcquireFails(v)
           /\ results' = [results EXCEPT ![pos + 1] = AcquireError(i)]
           /\ failed' = failed \cup {pos + 1}
           /\ UNCHANGED acquired
  /\ UNCHANGED <<queue, timer, manager, phase, items, eff, base, running,
                 outputs>>

(* On to the next chunk, or to the return.                                 *)
Advance ==
  /\ base' = ChunkEnd
  /\ pos' = ChunkEnd
  /\ acquired' = <<>>
  /\ outputs' = <<>>
  /\ phase' = IF ChunkEnd < Len(items) THEN "acquire" ELSE "done"
  /\ UNCHANGED <<items, eff, failed>>

(* Nothing acquired: `continue`.  Otherwise one scoped thread per VM.      *)
EndAcquire ==
  /\ phase = "acquire"
  /\ pos = ChunkEnd
  /\ IF acquired = <<>>
     THEN Advance /\ UNCHANGED running
     ELSE /\ phase' = "run"
          /\ running' = DOMAIN acquired
          /\ outputs' = [k \in DOMAIN acquired |-> NoResult]
          /\ UNCHANGED <<items, eff, base, pos, acquired, failed>>
  /\ UNCHANGED <<vars, queue, timer, manager, results>>

(* Thread k: run_code with the k-th snippet of the chunk on the k-th VM    *)
(* acquired; it yields an output, an error or a caught panic.              *)
RunThread(k) ==
  /\ phase = "run"
  /\ k \in running
  /\ running' = running \ {k}
  /\ Use(acquired[k].vm)
  /\ \E r \in Ran(items[base + k], acquired[k].vm) :
       outputs' = [outputs EXCEPT ![k] = r]
  /\ UNCHANGED <<queue, timer, manager, phase, items, eff, base, pos, acquired,
                 results, failed>>

(* Mutated: the result is stored at its index in the chunk.                *)
ReleaseNext_NoBase ==
  /\ phase = "run"
  /\ running = {}
  /\ \E k \in DOMAIN acquired :
       /\ acquired[k].vm \in held
       /\ Release(acquired[k].variant, acquired[k].vm)
       /\ results' = [results EXCEPT ![k] = outputs[k]]
  /\ UNCHANGED <<queue, timer, manager, phase, items, eff, base, pos, acquired,
                 running, outputs, failed>>

(* Mutated: the release loop stops at the first result.                    *)
EndChunk_Early ==
  /\ phase = "run"
  /\ running = {}
  /\ \E k \in DOMAIN acquired : acquired[k].vm \notin held
  /\ Advance
  /\ UNCHANGED <<vars, queue, timer, manager, running, results>>

(* All threads joined: VMs go back in order and the k-th result is stored  *)
(* in the k-th slot of the chunk.                                          *)
ReleaseNext ==
  /\ phase = "run"
  /\ running = {}
  /\ \E k \in DOMAIN acquired :
       /\ acquired[k].vm \in held
       /\ \A j \in 1..(k - 1) : acquired[j].vm \notin held
       /\ Release(acquired[k].variant, acquired[k].vm)
       /\ results' = [results EXCEPT ![base + k] = outputs[k]]
  /\ UNCHANGED <<queue, timer, manager, phase, items, eff, base, pos, acquired,
                 running, outputs, failed>>

EndChunk ==
  /\ phase = "run"
  /\ running = {}
  /\ \A k \in DOMAIN acquired : acquired[k].vm \notin held
  /\ Advance
  /\ UNCHANGED <<vars, queue, timer, manager, running, results>>

(* A slot still empty becomes Err("internal: uninitialized result slot").  *)
Return ==
  /\ phase = "done"
  /\ phase' = "idle"
  /\ items' = <<>> /\ eff' = 1 /\ base' = 0 /\ pos' = 0
  /\ results' = <<>> /\ failed' = {}
  /\ UNCHANGED <<vars, queue, timer, manager, acquired, running, outputs>>

RealizeStep ==
  \/ AcquireNext \/ EndAcquire \/ ReleaseNext \/ EndChunk \/ Return
  \/ \E k \in running : RunThread(k)

LazyNext ==
  \/ \E i \in Item : Push(i)
  \/ Realize \/ Clear \/ SetPoolManager \/ Manage
  \/ RealizeStep

LazySpec == LazyInit /\ [][LazyNext]_allVars

(* realize() runs to its end: it never waits for the owner, and run_code   *)
(* is taken to return (run_until_ready gives up after 30 s).               *)
FairLazySpec == LazySpec /\ WF_allVars(RealizeStep)
-----------------------------------------------------------------------------
(* Types of lazy.rs; the latency timer runs exactly while snippets wait.   *)
LazyTypeOK ==
  /\ TypeOK
  /\ queue \in Seq(Item) /\ Len(queue) < MaxBatch
  /\ timer = (queue # <<>>)
  /\ manager \in BOOLEAN
  /\ phase \in {"idle", "acquire", "run", "done"}
  /\ items \in Seq(Item) /\ Len(results) = Len(items)
  /\ base \in 0..Len(items) /\ pos \in base..ChunkEnd
  /\ running \subseteq DOMAIN acquired
  /\ DOMAIN outputs \subseteq DOMAIN acquired

(* Whatever failed or panicked in a batch, when realize() is over no VM is *)
(* left with it: each is back in a pool or destroyed.                      *)
EveryVmBack == phase = "idle" => held = {}

(* The VMs idle in a pool were forked from that pool's engine, although    *)
(* pools are removed and registered again with other engines: realize()    *)
(* releases under the name it acquired under, and holds nothing between.   *)
IdlePure ==
  \A v \in registered : \A x \in Elems(idle[v]) : image[x] = engine[v]

(* A result that comes from a chunk with no failed acquire is the result   *)
(* of the snippet queued at that place, run on a VM of its own variant;    *)
(* a failure in one chunk does not disturb another.                        *)
InOrderUnlessFailed ==
  phase = "done" =>
    LET ChunkOf(n) == (n - 1) \div eff
    IN \A p \in DOMAIN items :
         (\A f \in failed : ChunkOf(f) # ChunkOf(p)) =>
            results[p] \in {[kind |-> k, code |-> items[p], own |-> TRUE] :
                             k \in {"output", "run_error"}}

(* Every call of realize() returns: the chunk loop makes progress on each  *)
(* of its paths.                                                           *)
RealizeReturns == phase # "idle" ~> phase = "idle"

(* The comment before the final unwrap, "every slot was filled since each  *)
(* position received either an acquire error or an execution result".      *)
EverySlotFilled ==
  phase = "done" => \A p \in DOMAIN items : results[p] # NoResult
=============================================================================
