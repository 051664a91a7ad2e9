------------------------------ MODULE MCRunLoop ------------------------------
(* Small instances of RunLoop: two snippets that finish and one that hangs.  *)
EXTENDS RunLoop, TLC

CONSTANTS t1, t2, j, a, b, h

Symmetric == Permutations(Thread) \cup Permutations(Cmd \ Hang)
=============================================================================
