----------------------------- MODULE MCColdBoot -----------------------------
(* Small instances of ColdBoot: two threads that share the flag, or one      *)
(* alone with the timers of its own earlier runs.                            *)
EXTENDS ColdBoot

CONSTANTS t1, t2, a
=============================================================================
