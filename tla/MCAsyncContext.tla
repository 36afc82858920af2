--------------------------- MODULE MCAsyncContext ---------------------------
(***************************************************************************)
(* Instances of AsyncContext for TLC.                                      *)
(***************************************************************************)
EXTENDS AsyncContext, TLC

CONSTANTS c1, c2, o1, o2

Symmetry == Permutations(Clients)
=============================================================================
