----------------------------- MODULE MCDbiSpi9 -----------------------------
(* DbiSpi9 for TLC.                                                        *)
EXTENDS DbiSpi9

(* A master that takes 3 blocks of 9 bytes: values within one transfer and *)
(* over two or three, with every remainder in the last block.              *)
MCParamLens == 0..17 \cup {40, 44, 55}
MCRamLens == {n \in 2..60 : n % 2 = 0}
=============================================================================
