------------------------------- MODULE Udrm -------------------------------
(***************************************************************************)
(* The utinydrm daemon (utinydrm.c): its event loop against /dev/udrm, the *)
(* list of framebuffers it keeps and the memory and file descriptors       *)
(* behind them.  The other party is the kernel's udrm driver, which is not *)
(* part of the repository; its actions are what main() and the handlers    *)
(* rely on: one event outstanding at a time, each with one reply.          *)
(*                                                                         *)
(* The daemon is single threaded, so a handler is one step; the kernel's   *)
(* steps (a new event, the device going away) fall between the read, the   *)
(* handler, the reply and the poll.                                        *)
(***************************************************************************)
EXTENDS Integers, Sequences, FiniteSets

CONSTANTS FbIds,     \* framebuffer object ids of the kernel
          Maps,      \* address ranges mmap() can return
          FdLimit,   \* dma-buf descriptors the process may hold (RLIMIT_NOFILE)
          None       \* a null pointer

ASSUME FdLimitAssumption == FdLimit \in Nat

VARIABLES
    (* the kernel *)
    kfb,        \* the life of each framebuffer as the kernel sees it
    chan,       \* the event channel: "idle", "posted" or "taken" (being handled)
    req,        \* the event in the channel, None if idle
    hup,        \* the device is gone: POLLHUP, and read() fails
    (* the daemon *)
    pc,         \* where main() is: "read", "handle", "reply", "poll", "exit"
    ev,         \* the event buffer of main()
    event_ret,  \* the handler's result, 0 or a negative error
    fbs,        \* udev->fbs, head of the list first
    mapped,     \* the address ranges that are mapped
    nfds,       \* how many dma-buf descriptors are open: 1..nfds
    plane,      \* tdev->pipe.plane.state->fb
    dma         \* the entry whose buf_fd the last flush gave to spidev

kernel == <<kfb, chan, req, hup>>
memory == <<fbs, mapped, nfds>>
vars == <<kernel, pc, ev, event_ret, memory, plane, dma>>

(* struct utinydrm_fb *)
Entry == [id : FbIds, map : Maps, fd : 1..FdLimit]

NoEntry == [id |-> None]

FbEvents == [type : {"FB_CREATE", "FB_DESTROY", "FB_DIRTY"}, id : FbIds]
PipeEvents == [type : {"PIPE_ENABLE", "PIPE_DISABLE", "OTHER"}]
Events == FbEvents \cup PipeEvents

ASSUME NoneAssumption == None \notin FbIds /\ None \notin Events

KfbStates == {"free", "creating", "live", "refused", "removing"}

-----------------------------------------------------------------------------
(* Framebuffer list                                                        *)

Listed(s) == {s[i].id : i \in 1..Len(s)}

(* The first of a set of positions, 0 if there is none: where the for      *)
(* loops over udev->fbs stop.                                              *)
First(K) == IF K = {} THEN 0 ELSE CHOOSE i \in K : \A j \in K : i <= j

FindId(s, id) == First({i \in 1..Len(s) : s[i].id = id})

(* spi_sync() looks for the framebuffer a transfer address lies in.        *)
FindAddress(s, map) == First({i \in 1..Len(s) : s[i].map = map})

(* Variant: the entry is left in the list.                                 *)
UnlinkNothing(s, k) == s

(* utinydrm_fb_destroy() unlinks entry k through prev.  The loop advances  *)
(* prev to the old curr, so for k > 1 prev is the link that leads to entry *)
(* k-1 and storing the successor of k in it takes out both.                *)
Unlink(s, k) ==
    IF k = 1 THEN Tail(s)
    ELSE SubSeq(s, 1, k - 2) \o SubSeq(s, k + 1, Len(s))

-----------------------------------------------------------------------------
Init ==
    /\ kfb = [id \in FbIds |-> "free"]
    /\ chan = "idle"
    /\ req = None
    /\ hup = FALSE
    /\ pc = "read"
    /\ ev = None
    /\ event_ret = 0
    /\ fbs = << >>
    /\ mapped = {}
    /\ nfds = 0
    /\ plane = NoEntry
    /\ dma = NoEntry

-----------------------------------------------------------------------------
(* The kernel                                                              *)

PostFb(type, id, from, to) ==
    /\ kfb[id] \in from
    /\ kfb' = [kfb EXCEPT ![id] = to]
    /\ req' = [type |-> type, id |-> id]

(* A new event.  A framebuffer whose creation the daemon refused may still *)
(* be flushed and destroyed: the code in src/ does not say that the kernel *)
(* heeds the reply.                                                        *)
Post ==
    /\ chan = "idle"
    /\ ~hup
    /\ pc # "exit"
    /\ chan' = "posted"
    /\ \/ \E id \in FbIds :
            \/ PostFb("FB_CREATE", id, {"free"}, "creating")
            \/ PostFb("FB_DESTROY", id, {"live", "refused"}, "removing")
            \/ PostFb("FB_DIRTY", id, {"live", "refused"}, kfb[id])
       \/ req' \in PipeEvents /\ UNCHANGED kfb
    /\ UNCHANGED <<hup, pc, ev, event_ret, memory, plane, dma>>

HangUp ==
    /\ ~hup
    /\ hup' = TRUE
    /\ UNCHANGED <<kfb, chan, req, pc, ev, event_ret, memory, plane, dma>>

(* What a reply means to the kernel.                                       *)
Settled(r, ret) ==
    CASE r.type = "FB_CREATE" ->
            IF ret = 0 THEN {[kfb EXCEPT ![r.id] = "live"]}
            ELSE {[kfb EXCEPT ![r.id] = s] : s \in {"free", "refused"}}
      [] r.type = "FB_DESTROY" -> {[kfb EXCEPT ![r.id] = "free"]}
      [] OTHER -> {kfb}

-----------------------------------------------------------------------------
(* main()                                                                  *)

Read ==
    /\ pc = "read"
    /\ chan = "posted"
    /\ chan' = "taken"
    /\ ev' = req
    /\ pc' = "handle"
    /\ UNCHANGED <<kfb, req, hup, event_ret, memory, plane, dma>>

(* Variant: a failed read() is tried again.                                *)
ReadFailsRetry ==
    /\ pc = "read"
    /\ hup \/ chan = "posted"
    /\ UNCHANGED vars

(* read() returns -1: the daemon unregisters and leaves.                   *)
ReadFails ==
    /\ pc = "read"
    /\ hup \/ chan = "posted"
    /\ pc' = "exit"
    /\ UNCHANGED <<kernel, ev, event_ret, memory, plane, dma>>

(* Every handler: the event is not looked at again after its result.       *)
Handle(type) ==
    /\ pc = "handle"
    /\ ev.type = type
    /\ pc' = "reply"
    /\ UNCHANGED <<kernel, ev>>

(* Enabling and disabling drive the panel (module MipiDbi) and always      *)
(* report success; so does an event of an unknown type.                    *)
PipeEvent ==
    /\ \E type \in {"PIPE_ENABLE", "PIPE_DISABLE", "OTHER"} : Handle(type)
    /\ event_ret' = 0
    /\ UNCHANGED <<memory, plane, dma>>

(* Variant: a descriptor too many.                                         *)
FbCreateUnlimited ==
    /\ Handle("FB_CREATE")
    /\ nfds <= FdLimit
    /\ nfds' = nfds + 1
    /\ \E m \in Maps \ mapped :
          /\ mapped' = mapped \cup {m}
          /\ fbs' = <<[id |-> ev.id, map |-> m, fd |-> nfds + 1]>> \o fbs
    /\ event_ret' = 0
    /\ UNCHANGED <<plane, dma>>

FbCreate ==
    /\ Handle("FB_CREATE")
    /\ nfds < FdLimit
    /\ nfds' = nfds + 1
    /\ \E m \in Maps \ mapped :
          /\ mapped' = mapped \cup {m}
          /\ fbs' = <<[id |-> ev.id, map |-> m, fd |-> nfds + 1]>> \o fbs
    /\ event_ret' = 0
    /\ UNCHANGED <<plane, dma>>

(* calloc(), the GETFB ioctl or the PRIME ioctl fails: nothing is kept.    *)
FbCreateNoBuffer ==
    /\ Handle("FB_CREATE")
    /\ event_ret' = -1
    /\ UNCHANGED <<memory, plane, dma>>

(* Variant: the failure is reported as success.                            *)
FbCreateNoMapSilent ==
    /\ Handle("FB_CREATE")
    /\ nfds < FdLimit
    /\ nfds' = nfds + 1
    /\ event_ret' = 0
    /\ UNCHANGED <<fbs, mapped, plane, dma>>

(* mmap() fails: the entry is freed, the descriptor stays open.            *)
FbCreateNoMap ==
    /\ Handle("FB_CREATE")
    /\ nfds < FdLimit
    /\ nfds' = nfds + 1
    /\ event_ret' = -1
    /\ UNCHANGED <<fbs, mapped, plane, dma>>

(* Variant: a failing munmap() ends the handler before the entry is        *)
(* unlinked.                                                               *)
FbDestroyBailOut ==
    /\ Handle("FB_DESTROY")
    /\ LET k == FindId(fbs, ev.id) IN
          IF k = 0
          THEN /\ event_ret' = -1
               /\ UNCHANGED <<fbs, mapped>>
          ELSE \/ /\ event_ret' = 0
                  /\ fbs' = Unlink(fbs, k)
                  /\ mapped' = mapped \ {fbs[k].map}
               \/ /\ event_ret' = -1
                  /\ UNCHANGED <<fbs, mapped>>
    /\ UNCHANGED <<nfds, plane, dma>>

(* The result of munmap() is reported on the console only, and neither the *)
(* entry nor its descriptor is released.                                   *)
FbDestroy ==
    /\ Handle("FB_DESTROY")
    /\ LET k == FindId(fbs, ev.id) IN
          IF k = 0
          THEN /\ event_ret' = -1
               /\ UNCHANGED <<fbs, mapped>>
          ELSE /\ event_ret' = 0
               /\ fbs' = Unlink(fbs, k)
               /\ mapped' \in {mapped \ {fbs[k].map}, mapped}
    /\ UNCHANGED <<nfds, plane, dma>>

(* Variant: an unknown framebuffer falls back to the newest one.           *)
FbDirtyNewest ==
    /\ Handle("FB_DIRTY")
    /\ LET f == FindId(fbs, ev.id)
           k == IF f = 0 /\ fbs # << >> THEN 1 ELSE f
       IN IF k = 0
          THEN UNCHANGED <<plane, dma>>
          ELSE /\ plane' = fbs[k]
               /\ LET a == FindAddress(fbs, fbs[k].map) IN
                     dma' \in {dma, IF a = 0 THEN NoEntry ELSE fbs[a]}
    /\ event_ret' = 0
    /\ UNCHANGED memory

(* The flush of module FbFlush: no transfer if the display is not prepared *)
(* or the pixels are converted into a buffer of their own, otherwise       *)
(* spi_sync() finds the descriptor to transfer from by the address.        *)
FbDirty ==
    /\ Handle("FB_DIRTY")
    /\ LET k == FindId(fbs, ev.id) IN
          IF k = 0
          THEN UNCHANGED <<plane, dma>>
          ELSE /\ plane' = fbs[k]
               /\ LET a == FindAddress(fbs, fbs[k].map) IN
                     dma' \in {dma, IF a = 0 THEN NoEntry ELSE fbs[a]}
    /\ event_ret' = 0
    /\ UNCHANGED memory

Reply ==
    /\ pc = "reply"
    /\ chan' = "idle"
    /\ req' = None
    /\ kfb' \in Settled(req, event_ret)
    /\ pc' = "poll"
    /\ UNCHANGED <<hup, ev, event_ret, memory, plane, dma>>

(* write() returns -1: the daemon unregisters and leaves.                  *)
ReplyFails ==
    /\ pc = "reply"
    /\ pc' = "exit"
    /\ UNCHANGED <<kernel, ev, event_ret, memory, plane, dma>>

(* Variant: poll() waits for the hang-up only.                             *)
PollHupOnly ==
    /\ pc = "poll"
    /\ hup
    /\ pc' = "exit"
    /\ UNCHANGED <<kernel, ev, event_ret, memory, plane, dma>>

(* poll() without a timeout; the loop condition looks at the error bits.   *)
Poll ==
    /\ pc = "poll"
    /\ hup \/ chan = "posted"
    /\ pc' = IF hup THEN "exit" ELSE "read"
    /\ UNCHANGED <<kernel, ev, event_ret, memory, plane, dma>>

(* A poll() that fails leaves the old, error free revents behind.          *)
PollFails ==
    /\ pc = "poll"
    /\ pc' = "read"
    /\ UNCHANGED <<kernel, ev, event_ret, memory, plane, dma>>

Terminated ==
    /\ pc = "exit"
    /\ UNCHANGED vars

Handler ==
    \/ PipeEvent
    \/ FbCreate \/ FbCreateNoBuffer \/ FbCreateNoMap
    \/ FbDestroy
    \/ FbDirty

Daemon == Read \/ ReadFails \/ Handler \/ Reply \/ ReplyFails \/ Poll

Next == Post \/ HangUp \/ Daemon \/ PollFails \/ Terminated

Spec == Init /\ [][Next]_vars

(* The daemon is one runnable process: a step it can take it takes.  The   *)
(* kernel owes it neither events nor a hang-up, and poll() need not fail.  *)
FairSpec == Spec /\ WF_vars(Daemon)

-----------------------------------------------------------------------------
(* Properties                                                              *)

(* Every variable keeps its type: in particular no descriptor number above *)
(* the limit is ever recorded in the list utinydrm_fb_create() builds.     *)
TypeOK ==
    /\ kfb \in [FbIds -> KfbStates]
    /\ chan \in {"idle", "posted", "taken"}
    /\ req \in Events \cup {None}
    /\ hup \in BOOLEAN
    /\ pc \in {"read", "handle", "reply", "poll", "exit"}
    /\ ev \in Events \cup {None}
    /\ event_ret \in {0, -1}
    /\ fbs \in Seq(Entry)
    /\ mapped \in SUBSET Maps
    /\ nfds \in 0..FdLimit
    /\ plane \in Entry \cup {NoEntry}
    /\ dma \in Entry \cup {NoEntry}

(* Whatever was created and destroyed before, also with a failing munmap() *)
(* and an address range mmap() hands out again, each entry of udev->fbs    *)
(* points to memory that is mapped, and no two entries share an address    *)
(* range or a descriptor: a flush never reads unmapped memory and the      *)
(* address scan of spi_sync() is unambiguous.                              *)
ListedMapped ==
    \A i \in 1..Len(fbs) :
        /\ fbs[i].map \in mapped
        /\ fbs[i].fd <= nfds
        /\ \A j \in 1..Len(fbs) :
              i # j => /\ fbs[i].map # fbs[j].map
                       /\ fbs[i].fd # fbs[j].fd

(* udev->fbs holds no leftovers: each entry belongs to a framebuffer the   *)
(* kernel still has, with a different id each, so an id the kernel uses    *)
(* again never meets the entry of its former owner.                        *)
ListedExists ==
    \A i \in 1..Len(fbs) :
        /\ \/ kfb[fbs[i].id] = "live"
           \/ kfb[fbs[i].id] = "creating" /\ pc \in {"reply", "exit"}
           \/ kfb[fbs[i].id] = "removing" /\ pc # "reply"
        /\ \A j \in 1..Len(fbs) : i # j => fbs[i].id # fbs[j].id

(* The daemon and the kernel agree on the event between them: what main()  *)
(* handles is the event in the channel, the kernel waits for a creation or *)
(* destruction exactly while that event is outstanding, and the reply to a *)
(* creation says truthfully whether utinydrm_fb_create() listed it.        *)
Handshake ==
    /\ chan = "idle" <=> req = None
    /\ pc \in {"handle", "reply"} => chan = "taken" /\ ev = req
    /\ chan = "taken" => pc \in {"handle", "reply", "exit"}
    /\ \A id \in FbIds :
          /\ kfb[id] = "creating" <=> req = [type |-> "FB_CREATE", id |-> id]
          /\ kfb[id] = "removing" <=> req = [type |-> "FB_DESTROY", id |-> id]
          /\ req = [type |-> "FB_DIRTY", id |-> id]
                => kfb[id] \in {"live", "refused"}
          /\ pc = "reply" /\ req = [type |-> "FB_CREATE", id |-> id]
                => (event_ret = 0 <=> id \in Listed(fbs))

(* A flush (utinydrm_fb_dirty() down to spi_sync()) transfers from the     *)
(* buffer of the very framebuffer the event names, while that framebuffer  *)
(* is live and mapped.                                                     *)
FlushOwn ==
    [][dma' # dma => /\ ev.type = "FB_DIRTY"
                     /\ dma' = plane'
                     /\ dma'.id = ev.id
                     /\ kfb[ev.id] = "live"
                     /\ dma'.map \in mapped]_vars

(* An event the kernel posts is answered, unless the daemon leaves.        *)
EventAnswered == (chan # "idle") ~> (chan = "idle" \/ pc = "exit")

(* When the device goes away the daemon leaves its loop, wherever it is.   *)
HangUpExits == hup ~> (pc = "exit")

(* A framebuffer that was created successfully and is not being destroyed  *)
(* is in udev->fbs, so that utinydrm_fb_destroy() finds it and             *)
(* utinydrm_fb_dirty() shows it.  The code does not achieve this: Unlink   *)
(* takes out the predecessor of the destroyed entry as well.               *)
LiveListed == \A id \in FbIds : kfb[id] = "live" => id \in Listed(fbs)

-----------------------------------------------------------------------------
(* The daemon implements the service the kernel relies on.                 *)

Phase ==
    CASE pc = "exit" -> "stopped"
      [] pc # "exit" /\ chan = "idle" -> "idle"
      [] pc = "reply" /\ chan # "idle" -> "served"
      [] OTHER -> "asked"

Service == INSTANCE FbService WITH
    NoReq <- None, NoFb <- None,
    phase <- Phase, req <- req, ans <- event_ret,
    known <- Listed(fbs), shown <- plane.id

(* Every step of the daemon and the kernel is a step of FbService or       *)
(* leaves it alone, and the daemon does not sit on a request: at most one  *)
(* other framebuffer is lost with a destroyed one, a failed creation       *)
(* changes nothing, and each answer is the result of its own request.      *)
ImplementsService == Service!FairSpec
=============================================================================
