------------------------------ MODULE MCLazyFork ------------------------------
(* Small instances of LazyFork: three snippets, two of one variant.        *)
EXTENDS LazyFork, TLC

CONSTANTS v1, v2, i1, i2, i3

SmallConfigs == {[min |-> 0, max |-> 1], [min |-> 1, max |-> 2]}
SmallVariantOf == (i1 :> v1) @@ (i2 :> v2) @@ (i3 :> v1)
Symmetric == Permutations(VM) \cup Permutations(Engine)
=============================================================================
