--------------------------- MODULE MCRequestServing ---------------------------
(***************************************************************************)
(* Small instances of RequestServing: more requests than connections, and  *)
(* fewer threads than requests.                                            *)
(***************************************************************************)
EXTENDS RequestServing, TLC

CONSTANTS r1, r2, r3, r4

ThreeRequests == {r1, r2, r3}
FourRequests == {r1, r2, r3, r4}
RequestSymmetry == Permutations(FourRequests)
=============================================================================
