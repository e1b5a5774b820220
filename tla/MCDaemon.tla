----------------------------- MODULE MCDaemon ------------------------------
(* Daemon for TLC.                                                         *)
EXTENDS Daemon

(* This board, one without a backlight, which is blanked, and one with a   *)
(* regulator, with and without a backlight.                                *)
MCBoards ==
    {ThisBoard,
     [backlight |-> FALSE, regulator |-> FALSE, reset |-> TRUE],
     [backlight |-> FALSE, regulator |-> TRUE, reset |-> FALSE],
     [backlight |-> TRUE, regulator |-> TRUE, reset |-> FALSE]}
=============================================================================
