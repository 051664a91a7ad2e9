----------------------------- MODULE SandboxPool -----------------------------
(***************************************************************************)
(* What the warm pools promise, without queues, configurations or engines: *)
(* sandboxes that are ready in some pool or out with a caller, and a cold  *)
(* fork only when the pool asked has nothing ready.                        *)
(***************************************************************************)
CONSTANTS Pool, Sandbox

VARIABLES
  ready,  \* ready[p]: the sandboxes waiting in pool p
  out     \* the sandboxes with callers

vars == <<ready, out>>

Existing == out \cup UNION {ready[p] : p \in Pool}
New == Sandbox \ Existing

Init == ready = [p \in Pool |-> {}] /\ out = {}

(* G is handed out and W is made ready in its place.  G takes a new        *)
(* sandbox only together with everything that was ready.                   *)
Provide(p, G, W) ==
  /\ G # {}
  /\ G \subseteq ready[p] \cup New
  /\ G \cap New # {} => ready[p] \subseteq G
  /\ W \subseteq New \ G
  /\ out' = out \cup G
  /\ ready' = [ready EXCEPT ![p] = (ready[p] \ G) \cup W]

(* A caller is done with s: it goes to some pool, or is destroyed.         *)
TakeBack(s) ==
  /\ s \in out
  /\ out' = out \ {s}
  /\ \/ ready' = ready
     \/ \E p \in Pool : ready' = [ready EXCEPT ![p] = ready[p] \cup {s}]

Warm(p, W) ==
  /\ W \subseteq New
  /\ ready' = [ready EXCEPT ![p] = ready[p] \cup W]
  /\ out' = out

Discard(p, D) ==
  /\ D \subseteq ready[p]
  /\ ready' = [ready EXCEPT ![p] = ready[p] \ D]
  /\ out' = out

Next ==
  \/ \E p \in Pool, G, W \in SUBSET Sandbox : Provide(p, G, W)
  \/ \E s \in Sandbox : TakeBack(s)
  \/ \E p \in Pool, S \in SUBSET Sandbox : Warm(p, S) \/ Discard(p, S)

Spec == Init /\ [][Next]_vars
=============================================================================
