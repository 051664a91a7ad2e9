------------------------------ MODULE MCForkPool ------------------------------
(* Small instances of ForkPool: two configurations, one whose min exceeds  *)
(* its max (from_variant caps each separately, so that can happen).        *)
EXTENDS ForkPool, TLC

SmallConfigs == {[min |-> 1, max |-> 2], [min |-> 2, max |-> 1]}

Symmetric == Permutations(VM) \cup Permutations(Engine) \cup Permutations(Variant)
=============================================================================
