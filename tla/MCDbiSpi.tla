------------------------------ MODULE MCDbiSpi ------------------------------
(* DbiSpi for TLC.                                                         *)
EXTENDS DbiSpi

(* A frame of 10 pixels goes out in 5 pieces like that of the panel.       *)
MCParamLens == {0, 1, 4}
MCRamLens == {2, 20}

M(len, bpw16, buffer) ==
    [max_dma_len |-> len, bpw16 |-> bpw16, buffer |-> buffer]

(* What main() sets up, without the kernel's buffer and with it.           *)
PlainMaster == M(20, TRUE, FALSE)
ThisMaster == M(20, TRUE, TRUE)

(* Masters that take a frame in one transfer, with 16-bit words or not;    *)
(* and ones with short transfers, for which there must be no kernel buffer *)
(* or the bytes must be swapped into the transmit buffer; the last one's   *)
(* transmit buffer would be too large.                                     *)
MCMasters == {ThisMaster, PlainMaster, M(20, FALSE, TRUE),
              M(7, TRUE, FALSE), M(7, FALSE, TRUE), M(3, FALSE, FALSE),
              M(24, TRUE, TRUE)}

(* The daemon as main() starts it.                                         *)
MCThisMaster == {ThisMaster}
MCPlainMaster == {PlainMaster}
=============================================================================
