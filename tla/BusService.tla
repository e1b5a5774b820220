----------------------------- MODULE BusService -----------------------------
(***************************************************************************)
(* What the display driver may rely on about its bus: it works on one      *)
(* request at a time; the panel gets the command first and then bytes of   *)
(* the value, never fewer than before and nothing without a request; and a *)
(* request that succeeds has arrived completely.  A request that fails may *)
(* have arrived in part.  A line that fails ("fault") may garble the       *)
(* request that is under way, and no other one.  Module MipiDbi takes its  *)
(* writes to behave like this, over lines that work.                       *)
(***************************************************************************)
EXTENDS Naturals

CONSTANTS Requests,    \* [reg, len]: a command and the length of its value
          NoReq        \* no request is under way

VARIABLES up,          \* the bus has been set up
          req,         \* the request
          begun,       \* its command has been sent
          panel,       \* [cmd, n]: the last command, and its bytes so far
          ok,          \* the last request succeeded
          fault        \* a line failed during the current or last request

vars == <<up, req, begun, panel, ok, fault>>

Junk == [cmd |-> "junk", n |-> 0]

Init ==
    /\ up = FALSE
    /\ req = NoReq
    /\ begun = FALSE
    /\ panel = [cmd |-> "none", n |-> 0]
    /\ ok = TRUE
    /\ fault = FALSE

Open ==
    /\ ~up
    /\ up' = TRUE
    /\ ok' = TRUE
    /\ UNCHANGED <<req, begun, panel, fault>>

(* The set-up fails, or a request is turned down before it is begun.       *)
Refuse ==
    /\ req = NoReq
    /\ ok' = FALSE
    /\ UNCHANGED <<up, req, begun, panel, fault>>

Ask ==
    /\ up
    /\ req = NoReq
    /\ req' \in Requests
    /\ fault' \in BOOLEAN
    /\ UNCHANGED <<up, begun, panel, ok>>

Fault ==
    /\ req # NoReq
    /\ fault' = TRUE
    /\ UNCHANGED <<up, req, begun, panel, ok>>

(* What the panel may hold after the next transfer: the command; or, when  *)
(* that has been sent, bytes of the value.                                 *)
Held ==
    IF begun
    THEN {p \in [cmd : {panel.cmd}, n : panel.n..req.len] : p.cmd # "junk"}
    ELSE {[cmd |-> req.reg, n |-> 0]}

Garbled == IF fault THEN {Junk} ELSE {}

Transfer ==
    /\ req # NoReq
    /\ begun' = TRUE
    /\ panel' \in Held \cup Garbled
    /\ UNCHANGED <<up, req, ok, fault>>

Succeed ==
    /\ req # NoReq
    /\ req' = NoReq
    /\ begun' = FALSE
    /\ panel' \in {p \in Held : p.cmd = req.reg /\ p.n = req.len} \cup Garbled
    /\ ok' = TRUE
    /\ UNCHANGED <<up, fault>>

Fail ==
    /\ req # NoReq
    /\ req' = NoReq
    /\ begun' = FALSE
    /\ panel' \in {panel} \cup Held \cup Garbled
    /\ ok' = FALSE
    /\ UNCHANGED <<up, fault>>

Next == Open \/ Refuse \/ Ask \/ Fault \/ Transfer \/ Succeed \/ Fail

Spec == Init /\ [][Next]_vars
=============================================================================
