----------------------------- MODULE FbService -----------------------------
(***************************************************************************)
(* What the kernel driver behind /dev/udrm may rely on when it talks to    *)
(* the utinydrm daemon: one request is outstanding at a time, each request *)
(* is served once and answered once with the result of that very request,  *)
(* and the set of framebuffers the daemon can scan out changes only as     *)
(* stated here.  Udrm (the daemon) is shown to implement this module.      *)
(*                                                                         *)
(* The promise on destruction is weaker than one would like: destroying a  *)
(* framebuffer may forget one other framebuffer as well.  That is what     *)
(* utinydrm_fb_destroy() does (see Udrm!Unlink); nothing else is lost.     *)
(***************************************************************************)
EXTENDS Integers

CONSTANTS FbIds,     \* framebuffer object ids
          NoReq,     \* no request is outstanding
          NoFb       \* no framebuffer has been shown

VARIABLES phase,     \* "idle", "asked", "served" or "stopped"
          req,       \* the outstanding request
          ans,       \* the answer to it, 0 or a negative error
          known,     \* the ids the daemon has a mapping for
          shown      \* the id of the framebuffer put on the plane last

vars == <<phase, req, ans, known, shown>>

(* The requests: the event types utinydrm_event() tells apart.             *)
FbRequests == [type : {"FB_CREATE", "FB_DESTROY", "FB_DIRTY"}, id : FbIds]
PipeRequests == [type : {"PIPE_ENABLE", "PIPE_DISABLE", "OTHER"}]
Requests == FbRequests \cup PipeRequests

Init ==
    /\ phase = "idle"
    /\ req = NoReq
    /\ ans = 0
    /\ known = {}
    /\ shown = NoFb

Ask ==
    /\ phase = "idle"
    /\ phase' = "asked"
    /\ req' \in Requests
    /\ UNCHANGED <<ans, known, shown>>

(* A framebuffer becomes known, and was not known before, or the creation  *)
(* fails and changes nothing.                                              *)
ServeCreate ==
    /\ req.type = "FB_CREATE"
    /\ \/ /\ req.id \notin known
          /\ known' = known \cup {req.id}
          /\ ans' = 0
       \/ /\ known' = known
          /\ ans' = -1
    /\ UNCHANGED shown

(* The framebuffer is forgotten, and at most one other one with it.  An    *)
(* unknown one is an error that changes nothing.                           *)
ServeDestroy ==
    /\ req.type = "FB_DESTROY"
    /\ IF req.id \in known
       THEN /\ ans' = 0
            /\ \E other \in known : known' = known \ {req.id, other}
       ELSE /\ ans' = -1
            /\ known' = known
    /\ UNCHANGED shown

(* A known framebuffer is put on the plane, an unknown one is ignored.     *)
ServeDirty ==
    /\ req.type = "FB_DIRTY"
    /\ shown' = IF req.id \in known THEN req.id ELSE shown
    /\ ans' = 0
    /\ UNCHANGED known

ServeOther ==
    /\ req.type \in {"PIPE_ENABLE", "PIPE_DISABLE", "OTHER"}
    /\ ans' = 0
    /\ UNCHANGED <<known, shown>>

Serve ==
    /\ phase = "asked"
    /\ phase' = "served"
    /\ ServeCreate \/ ServeDestroy \/ ServeDirty \/ ServeOther
    /\ UNCHANGED req

Answer ==
    /\ phase = "served"
    /\ phase' = "idle"
    /\ req' = NoReq
    /\ UNCHANGED <<ans, known, shown>>

Stop ==
    /\ phase # "stopped"
    /\ phase' = "stopped"
    /\ UNCHANGED <<req, ans, known, shown>>

Next == Ask \/ Serve \/ Answer \/ Stop

(* The daemon may stop, but it may not sit on a request.                   *)
Fairness == WF_vars(Serve \/ Answer \/ (phase # "idle" /\ Stop))

Spec == Init /\ [][Next]_vars

FairSpec == Spec /\ Fairness
=============================================================================
