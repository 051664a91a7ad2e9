-------------------------------- MODULE Wasm --------------------------------
(* WasmSandbox and WasmBackend (wasm.rs): programs run in this process, in   *)
(* one wasmtime store.  Three things outlive a program: the compiled         *)
(* modules, the fuel in the store, and a slot of the instance pool, which    *)
(* only a new store gives back.                                              *)
EXTENDS Naturals, FiniteSets

CONSTANTS Program,  \* sources; eval_wat and eval_wasm_binary share the cache
          Traits,   \* Traits[p]: what is true of p, see Trait
          Burns,    \* Burns[p]: the fuel its function uses
          Limit,    \* fuel limits in use; the greatest is the default
          Slots,    \* total_core_instances of the pool
          None

Trait == {"compiles", "imports", "memory", "main", "_start"}
Entry == {"eval_wat", "eval_wasm_binary"}

WasmAssumption ==
    /\ Traits \in [Program -> SUBSET Trait] /\ Burns \in [Program -> Nat \ {0}]
    /\ Limit \subseteq Nat /\ Limit # {} /\ IsFiniteSet(Limit)
    /\ Slots \in Nat \ {0}

Is(p, t) == t \in Traits[p]
Default == CHOOSE n \in Limit : \A m \in Limit : m <= n

VARIABLES inner, \* WasmBackend::inner
          last   \* history: the last program run, and how many since the store is new

vars == <<inner, last>>

Sandbox == [cache : SUBSET Program, fuel_limit : Limit, used : 0 .. Slots, fuel : Nat]

Init == inner = None /\ last = [runs |-> 0, at |-> None, answer |-> None]

(* WasmSandbox::new; an init on an initialised backend replaces it. *)
InitBackend ==
    /\ inner' = [cache |-> {}, fuel_limit |-> Default, used |-> 0, fuel |-> 0]
    /\ last' = [last EXCEPT !.runs = 0]

DestroyBackend ==
    /\ inner' = None
    /\ last' = [last EXCEPT !.runs = 0]

SetFuelLimit(n) == inner # None /\ inner' = [inner EXCEPT !.fuel_limit = n] /\ UNCHANGED last
ClearModuleCache == inner # None /\ inner' = [inner EXCEPT !.cache = {}] /\ UNCHANGED last

(* A new store; the modules stay. *)
Reset ==
    /\ inner # None
    /\ inner' = [inner EXCEPT !.used = 0, !.fuel = inner.fuel_limit]
    /\ last' = [last EXCEPT !.runs = 0]

(* The function each entry point calls, if the module has it. *)
Function(e) == IF e = "eval_wat" THEN "main" ELSE "_start"

(* Mutated: the fuel left by the last program is what the next one has. *)
Fuelled_Leftover(box) == box

(* set_fuel comes before every instantiation. *)
Fuelled(box) == [box EXCEPT !.fuel = box.fuel_limit]

(* Compile or find, set the fuel, instantiate, look for the memory (eval_wat *)
(* only), call: how far program p gets in a box with its fuel set.           *)
Answer(p, e, box) ==
    IF p \notin box.cache /\ ~Is(p, "compiles") THEN "compile error"
    ELSE IF e = "eval_wat" /\ Is(p, "imports") THEN "unknown import"
    ELSE IF box.used = Slots THEN "no slot"
    ELSE IF e = "eval_wat" /\ ~Is(p, "memory") THEN "no memory"
    ELSE IF Is(p, Function(e)) /\ Burns[p] > box.fuel THEN "out of fuel"
    ELSE "done"

(* An instance that was made keeps its slot, whatever follows.               *)
Exec(p, e) ==
    /\ inner # None
    /\ LET box == Fuelled(inner)
           answer == Answer(p, e, box)
           burnt == CASE answer = "out of fuel" -> box.fuel
                      [] answer = "done" /\ Is(p, Function(e)) -> Burns[p]
                      [] OTHER -> 0
       IN /\ inner' = IF answer = "compile error" THEN inner
                      ELSE [box EXCEPT !.cache = @ \cup {p}, !.fuel = @ - burnt,
                                !.used = IF answer \in {"unknown import", "no slot"}
                                         THEN @ ELSE @ + 1]
          /\ last' = [runs |-> IF last.runs < Slots THEN last.runs + 1 ELSE Slots,
                      at |-> [program |-> p, entry |-> e, limit |-> inner.fuel_limit,
                              before |-> last.runs],
                      answer |-> answer]

Next ==
    \/ InitBackend \/ DestroyBackend \/ Reset \/ ClearModuleCache
    \/ \E n \in Limit : SetFuelLimit(n)
    \/ \E p \in Program, e \in Entry : Exec(p, e)

Spec == Init /\ [][Next]_vars

-----------------------------------------------------------------------------
(* Only what compiles is in the cache, and no instance has more than a slot. *)
TypeOK ==
    /\ inner # None => inner \in Sandbox /\ \A p \in inner.cache : Is(p, "compiles")
    /\ last.runs \in 0 .. Slots
    /\ inner # None => inner.used <= last.runs

(* What a program answers in a backend of its own, with an empty pool.       *)
Alone(p, e, limit) ==
    Answer(p, e, [cache |-> {}, fuel_limit |-> limit, used |-> 0, fuel |-> limit])

(* A program's answer depends on nothing that ran before it: not on a module *)
(* another entry point compiled, not on the fuel others burnt.  The one      *)
(* exception is the pool: once as many programs as it has slots ran since    *)
(* the last init or reset, the next may find none (eval_wat,                 *)
(* eval_wasm_binary, reset).                                                 *)
AnswersAlone ==
    last.at # None =>
        \/ last.answer = Alone(last.at.program, last.at.entry, last.at.limit)
        \/ last.answer = "no slot" /\ last.at.before = Slots
=============================================================================
