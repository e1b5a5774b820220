------------------------------- MODULE MCUdrm -------------------------------
(* Udrm for TLC.                                                           *)
EXTENDS Udrm, TLC

(* Ids and address ranges are only compared for equality.                  *)
Symmetry == Permutations(FbIds) \cup Permutations(Maps)
=============================================================================
