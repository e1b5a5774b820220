---------------------------- MODULE LightService ----------------------------
(***************************************************************************)
(* What the kernel, and whoever looks at the panel, may rely on about the  *)
(* light: it goes on only in answer to a flush, and only while the kernel  *)
(* has the pipe enabled; once a disable has been answered it is off, and   *)
(* it is off when a new daemon is ready for its first event.  A daemon     *)
(* that stops leaves the light as it is.  An LED write that fails          *)
(* ("fault") may leave the light in the wrong state until the next one.    *)
(***************************************************************************)
CONSTANTS NoReq      \* no request is outstanding

VARIABLES phase,     \* "down", "starting", "up" or "asked"
          req,       \* the type of the outstanding request
          on,        \* the last pipe request that was answered was an enable
          light,
          fault      \* the last attempt to switch the light failed

vars == <<phase, req, on, light, fault>>

Requests == {"PIPE_ENABLE", "PIPE_DISABLE", "FB_DIRTY", "OTHER"}

Init ==
    /\ phase = "down"
    /\ req = NoReq
    /\ on = FALSE
    /\ light = FALSE
    /\ fault = FALSE

Start ==
    /\ phase = "down"
    /\ phase' = "starting"
    /\ UNCHANGED <<req, on, light, fault>>

(* Ready: the light is off.                                                *)
Ready ==
    /\ phase = "starting"
    /\ light => fault
    /\ phase' = "up"
    /\ UNCHANGED <<req, on, light, fault>>

Ask ==
    /\ phase = "up"
    /\ phase' = "asked"
    /\ req' \in Requests
    /\ UNCHANGED <<on, light, fault>>

(* An attempt to switch the light.                                         *)
SwitchTo(value) ==
    /\ \/ light' = value /\ fault' = FALSE
       \/ light' = light /\ fault' = TRUE
    /\ UNCHANGED <<phase, req, on>>

Switch ==
    \/ phase = "starting" /\ SwitchTo(FALSE)
    \/ phase = "asked" /\ req = "PIPE_DISABLE" /\ SwitchTo(FALSE)
    \/ phase = "asked" /\ req = "FB_DIRTY" /\ on /\ SwitchTo(TRUE)

Answer ==
    /\ phase = "asked"
    /\ req = "PIPE_DISABLE" => (light => fault)
    /\ phase' = "up"
    /\ req' = NoReq
    /\ on' = CASE req = "PIPE_ENABLE" -> TRUE
               [] req = "PIPE_DISABLE" -> FALSE
               [] OTHER -> on
    /\ UNCHANGED <<light, fault>>

Stop ==
    /\ phase # "down"
    /\ phase' = "down"
    /\ req' = NoReq
    /\ on' = FALSE
    /\ UNCHANGED <<light, fault>>

Next == Start \/ Ready \/ Ask \/ Switch \/ Answer \/ Stop

Spec == Init /\ [][Next]_vars
=============================================================================
