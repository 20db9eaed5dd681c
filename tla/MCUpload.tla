------------------------------ MODULE MCUpload ------------------------------
(***************************************************************************)
(* Small instances of Upload for TLC.                                      *)
(***************************************************************************)
EXTENDS Upload, TLC

CONSTANTS r1, r2

MCUploads == {r1, r2}
MCSymmetry == Permutations(MCUploads)
=============================================================================
