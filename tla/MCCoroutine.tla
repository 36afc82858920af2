---------------------------- MODULE MCCoroutine -----------------------------
(***************************************************************************)
(* Instances of Coroutine for TLC.                                         *)
(***************************************************************************)
EXTENDS Coroutine

CONSTANTS f1, f2, f3, s1, s2, loop, starter, op, acc, nobody
=============================================================================
