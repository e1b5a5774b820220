----------------------------- MODULE UdrmProofs -----------------------------
(***************************************************************************)
(* Proofs about module Udrm, for any sets of framebuffer ids and address   *)
(* ranges and any descriptor limit.                                        *)
(***************************************************************************)
EXTENDS Udrm, SequenceTheorems, TLAPS

(* What TypeOK says of the entries.                                        *)
LEMMA EntryFacts ==
    ASSUME NEW s \in Seq(Entry), NEW i \in 1..Len(s)
    PROVE  s[i] \in Entry /\ s[i].id \in FbIds /\ s[i].map \in Maps
  <1>1. s[i] \in Entry
    BY ElementOfSeq
  <1>2. QED
    BY <1>1 DEF Entry

(* An event about a framebuffer names one.                                 *)
LEMMA FbEventFacts ==
    ASSUME NEW e \in Events, e.type \notin {"PIPE_ENABLE", "PIPE_DISABLE", "OTHER"}
    PROVE  /\ e.id \in FbIds
           /\ e = [type |-> e.type, id |-> e.id]
  <1>1. e \in FbEvents
    BY DEF Events, PipeEvents
  <1>2. QED
    BY <1>1 DEF FbEvents

(* utinydrm_fb_create() puts the new entry in front.                       *)
LEMMA PrependFacts ==
    ASSUME NEW s \in Seq(Entry), NEW e \in Entry
    PROVE  /\ <<e>> \o s \in Seq(Entry)
           /\ Len(<<e>> \o s) = Len(s) + 1
           /\ (<<e>> \o s)[1] = e
           /\ \A i \in 2..(Len(s) + 1) : i - 1 \in 1..Len(s)
                                        /\ (<<e>> \o s)[i] = s[i - 1]
  <1>1. Len(s) \in Nat /\ <<e>> \in Seq(Entry) /\ Len(<<e>>) = 1 /\ <<e>>[1] = e
    BY LenProperties
  <1>2. QED
    BY <1>1, ConcatProperties

(* Where entry i of Unlink(s, k) was in s.                                 *)
Origin(k, i) == IF k = 1 THEN i + 1 ELSE IF i <= k - 2 THEN i ELSE i + 2

(* utinydrm_fb_destroy() keeps the other entries, in order, except the     *)
(* predecessor of the one it unlinks.                                      *)
LEMMA UnlinkFacts ==
    ASSUME NEW s \in Seq(Entry), NEW k \in 1..Len(s)
    PROVE  /\ Unlink(s, k) \in Seq(Entry)
           /\ Len(Unlink(s, k)) = Len(s) - (IF k = 1 THEN 1 ELSE 2)
           /\ \A i \in 1..Len(Unlink(s, k)) :
                 /\ Origin(k, i) \in 1..Len(s)
                 /\ Unlink(s, k)[i] = s[Origin(k, i)]
  <1>1. Len(s) \in Nat
    BY LenProperties
  <1>2. CASE k = 1
    <2>1. s # << >>
      BY <1>1, EmptySeq
    <2>2. QED
      BY <1>1, <1>2, <2>1, HeadTailProperties DEF Unlink, Origin
  <1>3. CASE k # 1
    <2> DEFINE a == SubSeq(s, 1, k - 2)
               b == SubSeq(s, k + 1, Len(s))
    <2>1. a \in Seq(Entry) /\ Len(a) = k - 2
          /\ \A i \in 1..(k - 2) : a[i] = s[i]
      BY <1>1, <1>3, SubSeqProperties
    <2>2. b \in Seq(Entry) /\ Len(b) = Len(s) - k
          /\ \A i \in 1..(Len(s) - k) : b[i] = s[k + i]
      BY <1>1, <1>3, SubSeqProperties
    <2> HIDE DEF a, b
    <2>3. /\ a \o b \in Seq(Entry)
          /\ Len(a \o b) = Len(a) + Len(b)
          /\ \A i \in 1..(Len(a) + Len(b)) :
                (a \o b)[i] = IF i <= Len(a) THEN a[i] ELSE b[i - Len(a)]
      BY <2>1, <2>2, ConcatProperties
    <2>4. Unlink(s, k) = a \o b
      BY <1>3 DEF Unlink, a, b
    <2>5. ASSUME NEW i \in 1..(Len(s) - 2)
          PROVE  /\ Origin(k, i) \in 1..Len(s)
                 /\ (a \o b)[i] = s[Origin(k, i)]
      BY <1>1, <1>3, <2>1, <2>2, <2>3 DEF Origin
    <2>6. Len(a \o b) = Len(s) - 2
      BY <1>1, <2>1, <2>2, <2>3
    <2>7. QED
      BY <1>3, <2>3, <2>4, <2>5, <2>6
  <1>4. QED
    BY <1>2, <1>3

(* The loop over udev->fbs finds the one entry with an id.                 *)
LEMMA FindIdFacts ==
    ASSUME NEW s \in Seq(Entry), NEW id,
           \A i, j \in 1..Len(s) : i # j => s[i].id # s[j].id
    PROVE  /\ FindId(s, id) = 0 => id \notin Listed(s)
           /\ FindId(s, id) # 0 =>
                 /\ FindId(s, id) \in 1..Len(s)
                 /\ s[FindId(s, id)].id = id
  <1> DEFINE K == {i \in 1..Len(s) : s[i].id = id}
  <1>1. Len(s) \in Nat
    BY LenProperties
  <1>2. CASE K = {}
    BY <1>2 DEF FindId, First, Listed
  <1>3. CASE K # {}
    <2>1. PICK n \in K : TRUE
      BY <1>3
    <2>2. n \in K /\ \A j \in K : n <= j
      BY <1>1, <2>1
    <2> HIDE DEF K
    <2>3. First(K) \in K
      BY <1>3, <2>2 DEF First
    <2>4. QED
      BY <1>1, <2>3 DEF K, FindId, Listed
  <1>4. QED
    BY <1>2, <1>3

(* The address scan of spi_sync() ends at the entry the address is in.     *)
LEMMA FindAddressFacts ==
    ASSUME NEW s \in Seq(Entry), NEW k \in 1..Len(s),
           \A i, j \in 1..Len(s) : i # j => s[i].map # s[j].map
    PROVE  FindAddress(s, s[k].map) = k
  <1> DEFINE K == {i \in 1..Len(s) : s[i].map = s[k].map}
  <1>1. Len(s) \in Nat
    BY LenProperties
  <1>2. K = {k}
    BY <1>1
  <1>3. QED
    BY <1>1, <1>2 DEF FindAddress, First

-----------------------------------------------------------------------------
(* The inductive invariant.  TypeOK and Handshake carry the protocol       *)
(* state, the other two what the list promises.                            *)
IInv == TypeOK /\ ListedMapped /\ ListedExists /\ Handshake

(* The daemon starts with an empty list and an idle channel.               *)
LEMMA InitIInv == Init => IInv
  <1> SUFFICES ASSUME Init PROVE IInv
    OBVIOUS
  <1>1. Len(fbs) = 0 /\ fbs \in Seq(Entry)
    BY DEF Init
  <1>2. TypeOK
    <2>1. kfb \in [FbIds -> KfbStates] /\ nfds \in 0..FdLimit
      BY FdLimitAssumption DEF Init, KfbStates
    <2>2. QED
      BY <1>1, <2>1 DEF Init, TypeOK
  <1>3. ListedMapped /\ ListedExists
    BY <1>1 DEF ListedMapped, ListedExists
  <1>4. Handshake
    BY NoneAssumption DEF Init, Handshake, Events, FbEvents
  <1>5. QED
    BY <1>2, <1>3, <1>4 DEF IInv

(* The kernel's event: the list is untouched, the framebuffer in question  *)
(* moves to a state ListedExists allows before the handler runs.           *)
LEMMA PostIInv == IInv /\ Post => IInv'
  <1> SUFFICES ASSUME IInv, Post PROVE IInv'
    OBVIOUS
  <1> USE DEF IInv
  <1>1. req' \in Events
    BY DEF Post, PostFb, Events, FbEvents, PipeEvents
  <1>2. TypeOK'
    BY <1>1 DEF Post, PostFb, TypeOK, KfbStates, memory
  <1>3. ListedMapped'
    BY DEF ListedMapped, Post, memory
  <1>4. \A id \in FbIds : kfb[id] \notin {"creating", "removing"}
    BY NoneAssumption DEF Post, Handshake, Events, FbEvents
  <1>5. pc \in {"read", "poll"} /\ pc' = pc
    BY DEF Post, Handshake, TypeOK
  <1>6. ListedExists'
    <2>1. fbs' = fbs /\ fbs \in Seq(Entry) /\ kfb \in [FbIds -> KfbStates]
      BY DEF Post, memory, TypeOK
    <2>2. \A i \in 1..Len(fbs) : fbs[i].id \in FbIds /\ kfb[fbs[i].id] = "live"
      BY <1>4, <2>1, EntryFacts DEF ListedExists
    <2>3. \A i \in 1..Len(fbs) : kfb'[fbs[i].id] \in {"live", "removing"}
      BY <2>1, <2>2 DEF Post, PostFb
    <2>4. QED
      BY <1>5, <2>1, <2>3 DEF ListedExists
  <1>7. Handshake'
    <2>1. kfb \in [FbIds -> KfbStates]
      BY DEF TypeOK
    <2>2. CASE req' \in PipeEvents /\ UNCHANGED kfb
      BY <1>1, <1>4, <1>5, <2>2, NoneAssumption
      DEF Handshake, Post, PipeEvents
    <2>3. CASE \E id \in FbIds :
                  \/ PostFb("FB_CREATE", id, {"free"}, "creating")
                  \/ PostFb("FB_DESTROY", id, {"live", "refused"}, "removing")
                  \/ PostFb("FB_DIRTY", id, {"live", "refused"}, kfb[id])
      BY <1>1, <1>4, <1>5, <2>1, <2>3, NoneAssumption
      DEF Handshake, Post, PostFb
    <2>4. QED
      BY <2>2, <2>3 DEF Post
  <1>8. QED
    BY <1>2, <1>3, <1>6, <1>7

(* Steps of main() and the hang-up, other than the reply, change neither   *)
(* the list nor the kernel's view of the framebuffers.                     *)
LEMMA LoopIInv ==
    IInv /\ (HangUp \/ Read \/ ReadFails \/ ReplyFails \/ Poll \/ PollFails)
        => IInv'
  <1> SUFFICES ASSUME IInv,
                      HangUp \/ Read \/ ReadFails \/ ReplyFails \/ Poll \/ PollFails
               PROVE  IInv'
    OBVIOUS
  <1> USE DEF IInv
  <1>1. UNCHANGED <<kfb, req, event_ret, fbs, mapped, nfds, plane, dma>>
    BY DEF HangUp, Read, ReadFails, ReplyFails, Poll, PollFails, kernel, memory
  <1>2. TypeOK'
    BY DEF TypeOK, HangUp, Read, ReadFails, ReplyFails, Poll, PollFails,
           kernel, memory
  <1>3. ListedMapped'
    BY <1>1 DEF ListedMapped
  <1>4. \/ pc' = pc
        \/ pc = "reply" /\ pc' = "exit"
        \/ pc \in {"read", "poll"} /\ pc' \in {"handle", "read", "exit"}
    BY DEF HangUp, Read, ReadFails, ReplyFails, Poll, PollFails
  <1>5. ListedExists'
    BY <1>1, <1>4 DEF ListedExists
  <1>6. Handshake'
    BY <1>1, NoneAssumption
    DEF Handshake, TypeOK, HangUp, Read, ReadFails, ReplyFails, Poll,
        PollFails, kernel, memory
  <1>7. QED
    BY <1>2, <1>3, <1>5, <1>6

(* The pipe events only produce a result.                                  *)
LEMMA PipeIInv == IInv /\ PipeEvent => IInv'
  <1> SUFFICES ASSUME IInv, PipeEvent PROVE IInv'
    OBVIOUS
  <1> USE DEF IInv
  <1>1. /\ UNCHANGED <<kfb, chan, req, hup, ev, fbs, mapped, nfds, plane, dma>>
        /\ pc = "handle" /\ pc' = "reply" /\ event_ret' = 0
        /\ ev.type \in {"PIPE_ENABLE", "PIPE_DISABLE", "OTHER"}
    BY DEF PipeEvent, Handle, kernel, memory
  <1>2. ev = req /\ chan = "taken"
    BY <1>1 DEF Handshake
  <1>3. \A id \in FbIds : /\ req # [type |-> "FB_CREATE", id |-> id]
                          /\ req # [type |-> "FB_DESTROY", id |-> id]
    BY <1>1, <1>2
  <1>4. TypeOK'
    BY <1>1 DEF TypeOK
  <1>5. ListedMapped'
    BY <1>1 DEF ListedMapped
  <1>6. ListedExists'
    <2>1. \A i \in 1..Len(fbs) : kfb[fbs[i].id] = "live"
      BY <1>1, <1>3, EntryFacts DEF ListedExists, Handshake, TypeOK
    <2>2. QED
      BY <1>1, <2>1 DEF ListedExists
  <1>7. Handshake'
    BY <1>1, <1>2, <1>3 DEF Handshake
  <1>8. QED
    BY <1>4, <1>5, <1>6, <1>7

(* A creation that fails leaves the list alone and says so.                *)
LEMMA CreateFailsIInv == IInv /\ (FbCreateNoBuffer \/ FbCreateNoMap) => IInv'
  <1> SUFFICES ASSUME IInv, FbCreateNoBuffer \/ FbCreateNoMap PROVE IInv'
    OBVIOUS
  <1> USE DEF IInv
  <1>1. /\ UNCHANGED <<kfb, chan, req, hup, ev, fbs, mapped, plane, dma>>
        /\ pc = "handle" /\ pc' = "reply" /\ event_ret' = -1
        /\ ev.type = "FB_CREATE"
        /\ nfds' = nfds \/ (nfds < FdLimit /\ nfds' = nfds + 1)
    BY DEF FbCreateNoBuffer, FbCreateNoMap, Handle, kernel, memory
  <1>2. ev = req /\ chan = "taken"
    BY <1>1 DEF Handshake
  <1>3. nfds \in Nat /\ nfds' \in 0..FdLimit /\ nfds <= nfds'
    BY <1>1, FdLimitAssumption DEF TypeOK
  <1>4. TypeOK'
    BY <1>1, <1>3 DEF TypeOK
  <1>5. ListedMapped'
    <2>1. \A i \in 1..Len(fbs) : fbs[i].fd <= nfds'
      <3>1. \A i \in 1..Len(fbs) : fbs[i].fd \in 1..FdLimit
        BY EntryFacts DEF TypeOK, Entry
      <3>2. QED
        BY <1>3, <3>1, FdLimitAssumption DEF ListedMapped
    <2>2. QED
      BY <1>1, <2>1 DEF ListedMapped
  <1>6. PICK new \in FbIds : req = [type |-> "FB_CREATE", id |-> new]
    <2>1. req \in Events
      BY <1>2 DEF TypeOK, Handshake
    <2>2. QED
      BY <1>1, <1>2, <2>1, FbEventFacts
  <1>7. \A i \in 1..Len(fbs) : fbs[i].id \in FbIds /\ kfb[fbs[i].id] = "live"
    <2>1. ASSUME NEW i \in 1..Len(fbs)
          PROVE  fbs[i].id \in FbIds /\ kfb[fbs[i].id] = "live"
      <3>1. fbs[i].id \in FbIds
        BY EntryFacts DEF TypeOK
      <3>2. kfb[fbs[i].id] # "removing"
        BY <1>6, <3>1 DEF Handshake
      <3>3. QED
        BY <1>1, <3>1, <3>2 DEF ListedExists
    <2>2. QED
      BY <2>1
  <1>8. ListedExists'
    BY <1>1, <1>7 DEF ListedExists
  <1>9. new \notin Listed(fbs)
    BY <1>6, <1>7 DEF Handshake, Listed
  <1>10. Handshake'
    BY <1>1, <1>2, <1>6, <1>9 DEF Handshake, Listed
  <1>11. QED
    BY <1>4, <1>5, <1>8, <1>10

(* A creation: the new range and descriptor are unused, and the id is not  *)
(* listed because the kernel is still creating it.                         *)
LEMMA CreateIInv == IInv /\ FbCreate => IInv'
  <1> SUFFICES ASSUME IInv, FbCreate PROVE IInv'
    OBVIOUS
  <1> USE DEF IInv
  <1>1. /\ UNCHANGED <<kfb, chan, req, hup, ev, plane, dma>>
        /\ pc = "handle" /\ pc' = "reply" /\ event_ret' = 0
        /\ ev.type = "FB_CREATE"
        /\ nfds < FdLimit /\ nfds' = nfds + 1
    BY DEF FbCreate, Handle, kernel
  <1>2. ev = req /\ chan = "taken" /\ req \in Events
    BY <1>1 DEF Handshake, TypeOK
  <1>3. ev.id \in FbIds /\ req = [type |-> "FB_CREATE", id |-> ev.id]
    BY <1>1, <1>2, FbEventFacts
  <1>4. PICK m \in Maps \ mapped :
            /\ mapped' = mapped \cup {m}
            /\ fbs' = <<[id |-> ev.id, map |-> m, fd |-> nfds + 1]>> \o fbs
    BY DEF FbCreate
  <1> DEFINE e == [id |-> ev.id, map |-> m, fd |-> nfds + 1]
  <1>5. nfds \in Nat /\ nfds + 1 \in 1..FdLimit
    BY <1>1, FdLimitAssumption DEF TypeOK
  <1>6. e \in Entry /\ e.id = ev.id /\ e.map = m /\ e.fd = nfds + 1
    BY <1>3, <1>5 DEF Entry
  <1>7. fbs \in Seq(Entry) /\ Len(fbs) \in Nat
    BY LenProperties DEF TypeOK
  <1>8. fbs' = <<e>> \o fbs
    BY <1>4
  <1> HIDE DEF e
  <1>9. /\ fbs' \in Seq(Entry)
        /\ Len(fbs') = Len(fbs) + 1
        /\ fbs'[1] = e
        /\ \A i \in 2..(Len(fbs) + 1) : i - 1 \in 1..Len(fbs)
                                       /\ fbs'[i] = fbs[i - 1]
    BY <1>6, <1>7, <1>8, PrependFacts
  <1>10. \A i \in 1..Len(fbs) :
            /\ fbs[i].id \in FbIds /\ fbs[i].fd \in 1..FdLimit
            /\ fbs[i].map \in mapped /\ fbs[i].fd <= nfds
            /\ kfb[fbs[i].id] = "live"
    <2>1. ASSUME NEW i \in 1..Len(fbs)
          PROVE  fbs[i].id \in FbIds /\ fbs[i].fd \in 1..FdLimit
      BY <1>7, EntryFacts DEF Entry
    <2>2. \A id \in FbIds : kfb[id] # "removing"
      BY <1>3 DEF Handshake
    <2>3. \A i \in 1..Len(fbs) : kfb[fbs[i].id] = "live"
      BY <1>1, <2>1, <2>2 DEF ListedExists
    <2>4. QED
      BY <2>1, <2>3 DEF ListedMapped
  <1>11. kfb[ev.id] = "creating"
    BY <1>3 DEF Handshake
  <1>12. TypeOK'
    BY <1>1, <1>4, <1>5, <1>9 DEF TypeOK
  <1>13. ListedMapped'
    <2> SUFFICES ASSUME NEW i \in 1..Len(fbs')
                 PROVE  /\ fbs'[i].map \in mapped'
                        /\ fbs'[i].fd <= nfds'
                        /\ \A j \in 1..Len(fbs') :
                              i # j => /\ fbs'[i].map # fbs'[j].map
                                       /\ fbs'[i].fd # fbs'[j].fd
      BY DEF ListedMapped
    <2>1. CASE i = 1
      <3>1. fbs'[i] = e
        BY <1>9, <2>1
      <3>2. ASSUME NEW j \in 1..Len(fbs'), i # j
            PROVE  fbs'[j].map \in mapped /\ fbs'[j].fd <= nfds
                   /\ fbs'[j].fd \in Int
        BY <1>7, <1>9, <1>10, <2>1, <3>2
      <3>3. QED
        BY <1>1, <1>4, <1>5, <1>6, <3>1, <3>2
    <2>2. CASE i # 1
      <3>1. i - 1 \in 1..Len(fbs) /\ fbs'[i] = fbs[i - 1]
        BY <1>7, <1>9, <2>2
      <3>2. fbs'[i].map \in mapped /\ fbs'[i].fd <= nfds /\ fbs'[i].fd \in Int
        BY <1>10, <3>1
      <3>3. ASSUME NEW j \in 1..Len(fbs'), i # j
            PROVE  fbs'[i].map # fbs'[j].map /\ fbs'[i].fd # fbs'[j].fd
        <4>1. CASE j = 1
          BY <1>4, <1>5, <1>6, <1>9, <3>2, <4>1
        <4>2. CASE j # 1
          <5>1. j - 1 \in 1..Len(fbs) /\ fbs'[j] = fbs[j - 1] /\ j - 1 # i - 1
            BY <1>7, <1>9, <3>3, <4>2
          <5>2. QED
            BY <3>1, <5>1 DEF ListedMapped
        <4>3. QED
          BY <4>1, <4>2
      <3>4. QED
        BY <1>1, <1>4, <1>5, <3>2, <3>3
    <2>3. QED
      BY <2>1, <2>2
  <1>14. ListedExists'
    <2> SUFFICES ASSUME NEW i \in 1..Len(fbs')
                 PROVE  /\ kfb[fbs'[i].id] \in {"live", "creating"}
                        /\ \A j \in 1..Len(fbs') : i # j => fbs'[i].id # fbs'[j].id
      BY <1>1 DEF ListedExists
    <2>1. CASE i = 1
      <3>1. fbs'[i].id = ev.id
        BY <1>6, <1>9, <2>1
      <3>2. ASSUME NEW j \in 1..Len(fbs'), i # j
            PROVE  kfb[fbs'[j].id] = "live"
        BY <1>7, <1>9, <1>10, <2>1, <3>2
      <3>3. QED
        BY <1>11, <3>1, <3>2
    <2>2. CASE i # 1
      <3>1. i - 1 \in 1..Len(fbs) /\ fbs'[i] = fbs[i - 1]
        BY <1>7, <1>9, <2>2
      <3>2. kfb[fbs'[i].id] = "live"
        BY <1>10, <3>1
      <3>3. ASSUME NEW j \in 1..Len(fbs'), i # j
            PROVE  fbs'[i].id # fbs'[j].id
        <4>1. CASE j = 1
          BY <1>6, <1>9, <1>11, <3>2, <4>1
        <4>2. CASE j # 1
          <5>1. j - 1 \in 1..Len(fbs) /\ fbs'[j] = fbs[j - 1] /\ j - 1 # i - 1
            BY <1>7, <1>9, <3>3, <4>2
          <5>2. QED
            BY <3>1, <5>1 DEF ListedExists
        <4>3. QED
          BY <4>1, <4>2
      <3>4. QED
        BY <3>2, <3>3
    <2>3. QED
      BY <2>1, <2>2
  <1>15. Handshake'
    <2>1. 1 \in 1..Len(fbs') /\ fbs'[1].id = ev.id
      BY <1>6, <1>7, <1>9
    <2>2. ev.id \in Listed(fbs')
      BY <2>1 DEF Listed
    <2>3. QED
      BY <1>1, <1>2, <1>3, <2>2 DEF Handshake
  <1>16. QED
    BY <1>12, <1>13, <1>14, <1>15

(* A destruction: what remains was listed before, the range that may be    *)
(* unmapped belongs to the entry that went, and so does the id.            *)
LEMMA DestroyIInv == IInv /\ FbDestroy => IInv'
  <1> SUFFICES ASSUME IInv, FbDestroy PROVE IInv'
    OBVIOUS
  <1> USE DEF IInv
  <1> DEFINE k == FindId(fbs, ev.id)
  <1>1. /\ UNCHANGED <<kfb, chan, req, hup, ev, nfds, plane, dma>>
        /\ pc = "handle" /\ pc' = "reply"
        /\ ev.type = "FB_DESTROY"
        /\ IF k = 0
           THEN event_ret' = -1 /\ UNCHANGED <<fbs, mapped>>
           ELSE /\ event_ret' = 0
                /\ fbs' = Unlink(fbs, k)
                /\ mapped' \in {mapped \ {fbs[k].map}, mapped}
    BY DEF FbDestroy, Handle, kernel
  <1>2. ev = req /\ chan = "taken" /\ req \in Events
    BY <1>1 DEF Handshake, TypeOK
  <1>3. ev.id \in FbIds /\ req = [type |-> "FB_DESTROY", id |-> ev.id]
    BY <1>1, <1>2, FbEventFacts
  <1>4. fbs \in Seq(Entry) /\ Len(fbs) \in Nat
    BY LenProperties DEF TypeOK
  <1>5. \A i, j \in 1..Len(fbs) : i # j => /\ fbs[i].id # fbs[j].id
                                          /\ fbs[i].map # fbs[j].map
                                          /\ fbs[i].fd # fbs[j].fd
    BY DEF ListedExists, ListedMapped
  <1>6. /\ k = 0 => ev.id \notin Listed(fbs)
        /\ k # 0 => k \in 1..Len(fbs) /\ fbs[k].id = ev.id
    BY <1>4, <1>5, FindIdFacts
  <1> HIDE DEF k
  <1>7. \A i \in 1..Len(fbs) :
           fbs[i].id \in FbIds /\ (fbs[i].id # ev.id => kfb[fbs[i].id] = "live")
    <2>1. \A i \in 1..Len(fbs) : fbs[i].id \in FbIds
      BY <1>4, EntryFacts
    <2>2. \A id \in FbIds : kfb[id] # "creating"
      BY <1>3 DEF Handshake
    <2>3. \A id \in FbIds : kfb[id] = "removing" => id = ev.id
      BY <1>3 DEF Handshake
    <2>4. QED
      BY <2>1, <2>2, <2>3 DEF ListedExists
  <1>8. CASE k = 0
    <2>1. UNCHANGED <<fbs, mapped>> /\ event_ret' = -1
      BY <1>1, <1>8
    <2>2. TypeOK' /\ ListedMapped'
      BY <1>1, <2>1 DEF TypeOK, ListedMapped
    <2>3. \A i \in 1..Len(fbs) : kfb[fbs[i].id] = "live"
      BY <1>6, <1>7, <1>8 DEF Listed
    <2>4. ListedExists'
      BY <1>1, <2>1, <2>3 DEF ListedExists
    <2>5. Handshake'
      BY <1>1, <1>2, <1>3, <2>1 DEF Handshake
    <2>6. QED
      BY <2>2, <2>4, <2>5
  <1>9. CASE k # 0
    <2>1. k \in 1..Len(fbs) /\ fbs[k].id = ev.id
      BY <1>6, <1>9
    <2>2. fbs' = Unlink(fbs, k) /\ mapped' \in {mapped \ {fbs[k].map}, mapped}
          /\ event_ret' = 0
      BY <1>1, <1>9
    <2>3. /\ fbs' \in Seq(Entry)
          /\ \A i \in 1..Len(fbs') :
                Origin(k, i) \in 1..Len(fbs) /\ fbs'[i] = fbs[Origin(k, i)]
      BY <1>4, <2>1, <2>2, UnlinkFacts
    <2>4. Len(fbs') \in Nat
      BY <2>3, LenProperties
    <2>5. \A i, j \in 1..Len(fbs') :
             Origin(k, i) # k /\ (i # j => Origin(k, i) # Origin(k, j))
      BY <1>4, <2>1, <2>4 DEF Origin
    <2>6. TypeOK'
      BY <1>1, <2>2, <2>3 DEF TypeOK
    <2>7. ListedMapped'
      <3> SUFFICES ASSUME NEW i \in 1..Len(fbs')
                   PROVE  /\ fbs'[i].map \in mapped'
                          /\ fbs'[i].fd <= nfds'
                          /\ \A j \in 1..Len(fbs') :
                                i # j => /\ fbs'[i].map # fbs'[j].map
                                         /\ fbs'[i].fd # fbs'[j].fd
        BY DEF ListedMapped
      <3>1. fbs'[i].map \in mapped /\ fbs'[i].fd <= nfds'
        BY <1>1, <2>3 DEF ListedMapped
      <3>2. fbs'[i].map # fbs[k].map
        BY <1>5, <2>1, <2>3, <2>5
      <3>3. \A j \in 1..Len(fbs') : i # j => /\ fbs'[i].map # fbs'[j].map
                                            /\ fbs'[i].fd # fbs'[j].fd
        BY <1>5, <2>3, <2>5
      <3>4. QED
        BY <2>2, <3>1, <3>2, <3>3
    <2>8. ListedExists'
      <3>1. \A i \in 1..Len(fbs') : kfb[fbs'[i].id] = "live"
        BY <1>5, <1>7, <2>1, <2>3, <2>5
      <3>2. \A i, j \in 1..Len(fbs') : i # j => fbs'[i].id # fbs'[j].id
        BY <1>5, <2>3, <2>5
      <3>3. QED
        BY <1>1, <3>1, <3>2 DEF ListedExists
    <2>9. Handshake'
      BY <1>1, <1>2, <1>3 DEF Handshake
    <2>10. QED
      BY <2>6, <2>7, <2>8, <2>9
  <1>10. QED
    BY <1>8, <1>9

(* What utinydrm_fb_dirty() does: the framebuffer it puts on the plane is  *)
(* the one the event names, it is live, and the address scan of spi_sync() *)
(* ends at the same entry.                                                 *)
LEMMA DirtyFacts ==
    ASSUME IInv, FbDirty
    PROVE  /\ UNCHANGED <<kfb, chan, req, hup, ev, fbs, mapped, nfds>>
           /\ pc = "handle" /\ pc' = "reply" /\ event_ret' = 0
           /\ ev = req /\ chan = "taken" /\ ev.type = "FB_DIRTY"
           /\ ev.id \in FbIds
           /\ req = [type |-> "FB_DIRTY", id |-> ev.id]
           /\ \/ ev.id \notin Listed(fbs) /\ UNCHANGED <<plane, dma>>
              \/ \E n \in 1..Len(fbs) :
                    /\ plane' = fbs[n]
                    /\ fbs[n].id = ev.id
                    /\ dma' \in {dma, fbs[n]}
  <1> USE DEF IInv
  <1> DEFINE k == FindId(fbs, ev.id)
             a == FindAddress(fbs, fbs[k].map)
  <1>1. /\ UNCHANGED <<kfb, chan, req, hup, ev, fbs, mapped, nfds>>
        /\ pc = "handle" /\ pc' = "reply" /\ event_ret' = 0
        /\ ev.type = "FB_DIRTY"
        /\ IF k = 0 THEN UNCHANGED <<plane, dma>>
           ELSE /\ plane' = fbs[k]
                /\ dma' \in {dma, IF a = 0 THEN NoEntry ELSE fbs[a]}
    BY DEF FbDirty, Handle, kernel, memory
  <1>2. ev = req /\ chan = "taken" /\ req \in Events
    BY <1>1 DEF Handshake, TypeOK
  <1>3. ev.id \in FbIds /\ req = [type |-> "FB_DIRTY", id |-> ev.id]
    BY <1>1, <1>2, FbEventFacts
  <1>4. fbs \in Seq(Entry) /\ Len(fbs) \in Nat
    BY LenProperties DEF TypeOK
  <1>5. \A i, j \in 1..Len(fbs) : i # j => /\ fbs[i].id # fbs[j].id
                                          /\ fbs[i].map # fbs[j].map
    BY DEF ListedExists, ListedMapped
  <1>6. /\ k = 0 => ev.id \notin Listed(fbs)
        /\ k # 0 => k \in 1..Len(fbs) /\ fbs[k].id = ev.id
    BY <1>4, <1>5, FindIdFacts
  <1>7. k # 0 => a = k
    BY <1>4, <1>5, <1>6, FindAddressFacts
  <1> HIDE DEF k, a
  <1>8. QED
    BY <1>1, <1>2, <1>3, <1>6, <1>7

(* A flush changes neither the list nor the kernel's view.                 *)
LEMMA DirtyIInv == IInv /\ FbDirty => IInv'
  <1> SUFFICES ASSUME IInv, FbDirty PROVE IInv'
    OBVIOUS
  <1>1. /\ UNCHANGED <<kfb, chan, req, hup, ev, fbs, mapped, nfds>>
        /\ pc = "handle" /\ pc' = "reply" /\ event_ret' = 0
        /\ ev = req /\ chan = "taken" /\ ev.id \in FbIds
        /\ req = [type |-> "FB_DIRTY", id |-> ev.id]
    BY DirtyFacts
  <1> USE DEF IInv
  <1>2. fbs \in Seq(Entry) /\ \A i \in 1..Len(fbs) :
            fbs[i] \in Entry /\ fbs[i].id \in FbIds
    BY EntryFacts DEF TypeOK
  <1>3. plane' \in Entry \cup {NoEntry} /\ dma' \in Entry \cup {NoEntry}
    BY <1>2, DirtyFacts DEF TypeOK
  <1>4. TypeOK'
    BY <1>1, <1>3 DEF TypeOK
  <1>5. ListedMapped'
    BY <1>1 DEF ListedMapped
  <1>6. \A i \in 1..Len(fbs) : kfb[fbs[i].id] = "live"
    <2>1. \A id \in FbIds : kfb[id] \notin {"creating", "removing"}
      <3>1. \A id \in FbIds : /\ req # [type |-> "FB_CREATE", id |-> id]
                              /\ req # [type |-> "FB_DESTROY", id |-> id]
        BY <1>1
      <3>2. QED
        BY <3>1 DEF Handshake
    <2>2. QED
      BY <1>2, <2>1 DEF ListedExists
  <1>7. ListedExists'
    BY <1>1, <1>6 DEF ListedExists
  <1>8. Handshake'
    BY <1>1 DEF Handshake
  <1>9. QED
    BY <1>4, <1>5, <1>7, <1>8

(* The reply: an event that created or destroyed a framebuffer settles its *)
(* state in the kernel, and Handshake says the list already agrees.        *)
LEMMA ReplyIInv == IInv /\ Reply => IInv'
  <1> SUFFICES ASSUME IInv, Reply PROVE IInv'
    OBVIOUS
  <1> USE DEF IInv
  <1>1. /\ UNCHANGED <<hup, ev, event_ret, fbs, mapped, nfds, plane, dma>>
        /\ pc = "reply" /\ pc' = "poll" /\ chan' = "idle" /\ req' = None
        /\ kfb' \in Settled(req, event_ret)
    BY DEF Reply, memory
  <1>2. req \in Events
    BY <1>1 DEF Handshake, TypeOK
  <1>3. kfb \in [FbIds -> KfbStates]
    BY DEF TypeOK
  <1>4. fbs \in Seq(Entry) /\ \A i \in 1..Len(fbs) :
            fbs[i].id \in FbIds /\ fbs[i].id \in Listed(fbs)
    BY EntryFacts DEF TypeOK, Listed
  <1>5. ListedMapped'
    BY <1>1 DEF ListedMapped
  <1>6. \A id \in FbIds : None # [type |-> "FB_CREATE", id |-> id]
                          /\ None # [type |-> "FB_DESTROY", id |-> id]
                          /\ None # [type |-> "FB_DIRTY", id |-> id]
    BY NoneAssumption DEF Events, FbEvents
  <1>7. /\ kfb' \in [FbIds -> {"free", "live", "refused"}]
        /\ \A i \in 1..Len(fbs) : kfb'[fbs[i].id] = "live"
    <2>1. CASE req.type = "FB_CREATE"
      <3>1. req.id \in FbIds /\ req = [type |-> "FB_CREATE", id |-> req.id]
        BY <1>2, <2>1, FbEventFacts
      <3>2. \A id \in FbIds \ {req.id} : kfb[id] \notin {"creating", "removing"}
        BY <3>1 DEF Handshake
      <3>3. event_ret = 0 <=> req.id \in Listed(fbs)
        BY <1>1, <3>1 DEF Handshake
      <3>4. \E s \in {"free", "live", "refused"} :
               /\ kfb' = [kfb EXCEPT ![req.id] = s]
               /\ event_ret = 0 => s = "live"
        BY <1>1, <2>1 DEF Settled
      <3>5. \A i \in 1..Len(fbs) : fbs[i].id # req.id => kfb[fbs[i].id] = "live"
        BY <1>4, <3>2 DEF ListedExists
      <3>6. \A i \in 1..Len(fbs) : kfb'[fbs[i].id] = "live"
        BY <1>3, <1>4, <3>1, <3>3, <3>4, <3>5
      <3>7. QED
        BY <1>3, <3>1, <3>2, <3>4, <3>6 DEF KfbStates
    <2>2. CASE req.type = "FB_DESTROY"
      <3>1. req.id \in FbIds /\ req = [type |-> "FB_DESTROY", id |-> req.id]
        BY <1>2, <2>2, FbEventFacts
      <3>2. \A id \in FbIds \ {req.id} : kfb[id] \notin {"creating", "removing"}
        BY <3>1 DEF Handshake
      <3>3. kfb' = [kfb EXCEPT ![req.id] = "free"]
        BY <1>1, <2>2 DEF Settled
      <3>4. kfb[req.id] = "removing"
        BY <3>1 DEF Handshake
      <3>5. \A i \in 1..Len(fbs) : fbs[i].id # req.id /\ kfb[fbs[i].id] = "live"
        BY <1>1, <1>4, <3>2, <3>4 DEF ListedExists
      <3>6. QED
        BY <1>3, <1>4, <3>1, <3>2, <3>3, <3>5 DEF KfbStates
    <2>3. CASE req.type \notin {"FB_CREATE", "FB_DESTROY"}
      <3>1. kfb' = kfb
        BY <1>1, <2>3 DEF Settled
      <3>2. \A id \in FbIds : /\ req # [type |-> "FB_CREATE", id |-> id]
                              /\ req # [type |-> "FB_DESTROY", id |-> id]
        BY <2>3
      <3>3. \A id \in FbIds : kfb[id] \notin {"creating", "removing"}
        BY <3>2 DEF Handshake
      <3>4. \A i \in 1..Len(fbs) : kfb[fbs[i].id] = "live"
        BY <1>4, <3>3 DEF ListedExists
      <3>5. QED
        BY <1>3, <3>1, <3>3, <3>4 DEF KfbStates
    <2>4. QED
      BY <2>1, <2>2, <2>3
  <1>8. TypeOK'
    BY <1>1, <1>7 DEF TypeOK, KfbStates
  <1>9. ListedExists'
    BY <1>1, <1>7 DEF ListedExists
  <1>10. Handshake'
    BY <1>1, <1>6, <1>7 DEF Handshake
  <1>11. QED
    BY <1>5, <1>8, <1>9, <1>10

(* Every step keeps the invariant.                                         *)
LEMMA NextIInv == IInv /\ [Next]_vars => IInv'
  <1> SUFFICES ASSUME IInv, [Next]_vars PROVE IInv'
    OBVIOUS
  <1>1. CASE UNCHANGED vars
    BY <1>1 DEF IInv, vars, kernel, memory, TypeOK, ListedMapped, ListedExists,
                Handshake
  <1>2. CASE Next
    <2>1. CASE Post
      BY <2>1, PostIInv
    <2>2. CASE HangUp \/ Read \/ ReadFails \/ ReplyFails \/ Poll \/ PollFails
      BY <2>2, LoopIInv
    <2>3. CASE Reply
      BY <2>3, ReplyIInv
    <2>4. CASE Handler
      BY <2>4, PipeIInv, CreateIInv, CreateFailsIInv, DestroyIInv, DirtyIInv
      DEF Handler
    <2>5. CASE Terminated
      BY <1>1, <2>5 DEF Terminated
    <2>6. QED
      BY <1>2, <2>1, <2>2, <2>3, <2>4, <2>5 DEF Next, Daemon
  <1>3. QED
    BY <1>1, <1>2

(* The invariant holds in every reachable state of the daemon.             *)
THEOREM Invariance == Spec => []IInv
  BY InitIInv, NextIInv, PTL DEF Spec

(* Types, in particular the descriptor limit, in every reachable state of  *)
(* the event loop.                                                         *)
THEOREM TypeCorrect == Spec => []TypeOK
  BY Invariance, PTL DEF IInv

(* Each entry utinydrm_fb_create() and utinydrm_fb_destroy() leave in      *)
(* udev->fbs is backed by mapped memory of its own.                        *)
THEOREM ListIsMapped == Spec => []ListedMapped
  BY Invariance, PTL DEF IInv

(* udev->fbs holds no entry of a framebuffer the kernel has destroyed, in  *)
(* spite of failing munmap() calls and of ids that are used again.         *)
THEOREM ListHasNoLeftovers == Spec => []ListedExists
  BY Invariance, PTL DEF IInv

(* main() and the kernel agree on the outstanding event, and the reply to  *)
(* a creation is truthful.                                                 *)
THEOREM HandshakeHolds == Spec => []Handshake
  BY Invariance, PTL DEF IInv

(* A step other than a flush leaves the transfer descriptor alone.         *)
LEMMA OnlyDirtyFlushes ==
    ASSUME [Next]_vars, dma' # dma
    PROVE  FbDirty
  BY DEF Next, Daemon, Handler, Post, HangUp, Read, ReadFails, PipeEvent,
         FbCreate, FbCreateNoBuffer, FbCreateNoMap, FbDestroy, Reply,
         ReplyFails, Poll, PollFails, Terminated, vars

(* A flush reads the buffer of the framebuffer the event names, which is   *)
(* live and mapped.                                                        *)
THEOREM FlushReadsOwn == Spec => FlushOwn
  <1> DEFINE Own == dma' # dma => /\ ev.type = "FB_DIRTY"
                                  /\ dma' = plane'
                                  /\ dma'.id = ev.id
                                  /\ kfb[ev.id] = "live"
                                  /\ dma'.map \in mapped
  <1>1. IInv /\ [Next]_vars => [Own]_vars
    <2> SUFFICES ASSUME IInv, [Next]_vars, dma' # dma PROVE Own
      OBVIOUS
    <2>1. FbDirty
      BY OnlyDirtyFlushes
    <2>2. /\ ev.id \in FbIds /\ ev.type = "FB_DIRTY"
          /\ req = [type |-> "FB_DIRTY", id |-> ev.id]
      BY <2>1, DirtyFacts
    <2>3. PICK n \in 1..Len(fbs) : /\ plane' = fbs[n]
                                   /\ fbs[n].id = ev.id
                                   /\ dma' = fbs[n]
      BY <2>1, DirtyFacts
    <2>4. fbs[n].map \in mapped
      BY DEF IInv, ListedMapped
    <2>5. kfb[ev.id] \in {"live", "refused"}
      BY <2>2 DEF IInv, Handshake
    <2>6. kfb[ev.id] = "live"
      BY <2>3, <2>5 DEF IInv, ListedExists
    <2>7. QED
      BY <2>2, <2>3, <2>4, <2>6
  <1>2. QED
    BY <1>1, Invariance, PTL DEF Spec, FlushOwn

-----------------------------------------------------------------------------
(* The list as the set of ids FbService speaks of.                         *)

LEMMA ListedPrepend ==
    ASSUME NEW s \in Seq(Entry), NEW e \in Entry
    PROVE  Listed(<<e>> \o s) = Listed(s) \cup {e.id}
  <1>1. Len(s) \in Nat
    BY LenProperties
  <1> DEFINE t == <<e>> \o s
  <1>2. /\ Len(t) = Len(s) + 1 /\ t[1] = e
        /\ \A i \in 2..(Len(s) + 1) : i - 1 \in 1..Len(s) /\ t[i] = s[i - 1]
    BY PrependFacts
  <1> HIDE DEF t
  <1>3. ASSUME NEW id, id \in Listed(t) PROVE id \in Listed(s) \cup {e.id}
    <2>1. PICK i \in 1..Len(t) : t[i].id = id
      BY <1>3 DEF Listed
    <2>2. i = 1 \/ (i - 1 \in 1..Len(s) /\ t[i] = s[i - 1])
      BY <1>1, <1>2
    <2>3. QED
      BY <1>2, <2>1, <2>2 DEF Listed
  <1>4. ASSUME NEW id, id \in Listed(s) PROVE id \in Listed(t)
    <2>1. PICK i \in 1..Len(s) : s[i].id = id
      BY <1>4 DEF Listed
    <2>2. i + 1 \in 1..Len(t) /\ t[i + 1] = s[i]
      BY <1>1, <1>2
    <2>3. QED
      BY <2>1, <2>2 DEF Listed
  <1>5. 1 \in 1..Len(t)
    BY <1>1, <1>2
  <1>6. e.id \in Listed(t)
    BY <1>2, <1>5 DEF Listed
  <1>7. QED
    BY <1>3, <1>4, <1>6 DEF t

(* Unlink forgets the id it is called for and that of the predecessor.     *)
LEMMA ListedUnlink ==
    ASSUME NEW s \in Seq(Entry), NEW k \in 1..Len(s),
           \A i, j \in 1..Len(s) : i # j => s[i].id # s[j].id
    PROVE  \E other \in Listed(s) :
              Listed(Unlink(s, k)) = Listed(s) \ {s[k].id, other}
  <1> DEFINE p == IF k = 1 THEN k ELSE k - 1
             t == Unlink(s, k)
  <1>1. Len(s) \in Nat /\ p \in 1..Len(s)
    BY LenProperties
  <1>2. /\ Len(t) = Len(s) - (IF k = 1 THEN 1 ELSE 2)
        /\ \A i \in 1..Len(t) : Origin(k, i) \in 1..Len(s)
                                /\ t[i] = s[Origin(k, i)]
    BY UnlinkFacts
  <1> HIDE DEF t
  <1>3. \A i \in 1..Len(t) : Origin(k, i) \notin {k, p}
    BY <1>1, <1>2 DEF Origin
  <1>4. \A j \in 1..Len(s) \ {k, p} : \E i \in 1..Len(t) : Origin(k, i) = j
    <2> SUFFICES ASSUME NEW j \in 1..Len(s) \ {k, p}
                 PROVE  \E i \in 1..Len(t) : Origin(k, i) = j
      OBVIOUS
    <2>1. CASE k = 1
      <3>1. j - 1 \in 1..Len(t) /\ Origin(k, j - 1) = j
        BY <1>1, <1>2, <2>1 DEF Origin
      <3>2. QED
        BY <3>1
    <2>2. CASE k # 1 /\ j < k
      <3>1. j \in 1..Len(t) /\ Origin(k, j) = j
        BY <1>1, <1>2, <2>2 DEF Origin
      <3>2. QED
        BY <3>1
    <2>3. CASE k # 1 /\ j > k
      <3>1. j - 2 \in 1..Len(t) /\ Origin(k, j - 2) = j
        BY <1>1, <1>2, <2>3 DEF Origin
      <3>2. QED
        BY <3>1
    <2>4. QED
      BY <1>1, <2>1, <2>2, <2>3
  <1> HIDE DEF p
  <1>5. ASSUME NEW id, id \in Listed(t)
        PROVE  id \in Listed(s) \ {s[k].id, s[p].id}
    <2>1. PICK i \in 1..Len(t) : t[i].id = id
      BY <1>5 DEF Listed
    <2>2. PICK j \in 1..Len(s) : j \notin {k, p} /\ s[j].id = id
      BY <1>2, <1>3, <2>1
    <2>3. QED
      BY <1>1, <2>2 DEF Listed
  <1>6. ASSUME NEW id, id \in Listed(s) \ {s[k].id, s[p].id}
        PROVE  id \in Listed(t)
    <2>1. PICK j \in 1..Len(s) : s[j].id = id
      BY <1>6 DEF Listed
    <2>2. PICK i \in 1..Len(t) : Origin(k, i) = j
      BY <1>4, <1>6, <2>1
    <2>3. t[i].id = id
      BY <1>2, <2>1, <2>2
    <2>4. QED
      BY <2>3 DEF Listed
  <1>7. s[p].id \in Listed(s)
    BY <1>1 DEF Listed
  <1>8. Listed(t) = Listed(s) \ {s[k].id, s[p].id}
    BY <1>5, <1>6
  <1>9. QED
    BY <1>7, <1>8 DEF t

(* The phase of the service while an event is handled and when it is.      *)
LEMMA HandledPhase ==
    ASSUME IInv, pc = "handle", pc' = "reply", UNCHANGED <<chan, req>>
    PROVE  Phase = "asked" /\ Phase' = "served" /\ ev = req /\ req \in Events
  <1>1. chan = "taken" /\ ev = req /\ req \in Events
    BY DEF IInv, Handshake, TypeOK
  <1>2. QED
    BY <1>1 DEF Phase

(* Each handler does what the service does for its request.                *)
LEMMA HandlerRefines == IInv /\ Handler => Service!Serve
  <1> SUFFICES ASSUME IInv, Handler PROVE Service!Serve
    OBVIOUS
  <1>1. UNCHANGED <<kfb, chan, req, hup, ev>> /\ pc = "handle" /\ pc' = "reply"
    BY DEF Handler, PipeEvent, FbCreate, FbCreateNoBuffer, FbCreateNoMap,
           FbDestroy, FbDirty, Handle, kernel
  <1>2. Phase = "asked" /\ Phase' = "served" /\ ev = req /\ req \in Events
    BY <1>1, HandledPhase
  <1>3. fbs \in Seq(Entry)
        /\ \A i, j \in 1..Len(fbs) : i # j => fbs[i].id # fbs[j].id
    BY DEF IInv, TypeOK, ListedExists
  <1>4. CASE PipeEvent
    <2>1. /\ req.type \in {"PIPE_ENABLE", "PIPE_DISABLE", "OTHER"}
          /\ event_ret' = 0 /\ UNCHANGED <<fbs, plane>>
      BY <1>2, <1>4 DEF PipeEvent, Handle, memory
    <2>2. Service!ServeOther
      BY <2>1 DEF Service!ServeOther, Listed
    <2>3. QED
      BY <1>1, <1>2, <2>2 DEF Service!Serve
  <1>5. CASE FbCreateNoBuffer \/ FbCreateNoMap
    <2>1. /\ req.type = "FB_CREATE" /\ event_ret' = -1
          /\ UNCHANGED <<fbs, plane>>
      BY <1>2, <1>5 DEF FbCreateNoBuffer, FbCreateNoMap, Handle, memory
    <2>2. Service!ServeCreate
      BY <2>1 DEF Service!ServeCreate, Listed
    <2>3. QED
      BY <1>1, <1>2, <2>2 DEF Service!Serve
  <1>6. CASE FbCreate
    <2>1. req.type = "FB_CREATE" /\ event_ret' = 0 /\ UNCHANGED plane
          /\ nfds < FdLimit
      BY <1>2, <1>6 DEF FbCreate, Handle
    <2>2. PICK m \in Maps :
             fbs' = <<[id |-> req.id, map |-> m, fd |-> nfds + 1]>> \o fbs
      BY <1>2, <1>6 DEF FbCreate
    <2>3. req.id \in FbIds /\ req = [type |-> "FB_CREATE", id |-> req.id]
      BY <1>2, <2>1, FbEventFacts
    <2>4. [id |-> req.id, map |-> m, fd |-> nfds + 1] \in Entry
      BY <2>1, <2>3, FdLimitAssumption DEF Entry, IInv, TypeOK
    <2>5. Listed(fbs') = Listed(fbs) \cup {req.id}
      BY <1>3, <2>2, <2>4, ListedPrepend
    <2>6. req.id \notin Listed(fbs)
      <3>1. kfb[req.id] = "creating"
        BY <2>3 DEF IInv, Handshake
      <3>2. QED
        BY <1>1, <3>1 DEF IInv, ListedExists, Listed
    <2>7. Listed(fbs)' = Listed(fbs')
      BY DEF Listed
    <2>8. Service!ServeCreate
      BY <2>1, <2>5, <2>6, <2>7 DEF Service!ServeCreate
    <2>9. QED
      BY <1>1, <1>2, <2>8 DEF Service!Serve
  <1>7. CASE FbDestroy
    <2> DEFINE k == FindId(fbs, req.id)
    <2>1. /\ req.type = "FB_DESTROY" /\ UNCHANGED plane
          /\ IF k = 0 THEN event_ret' = -1 /\ fbs' = fbs
             ELSE event_ret' = 0 /\ fbs' = Unlink(fbs, k)
      BY <1>2, <1>7 DEF FbDestroy, Handle
    <2>2. /\ k = 0 => req.id \notin Listed(fbs)
          /\ k # 0 => k \in 1..Len(fbs) /\ fbs[k].id = req.id
      BY <1>3, FindIdFacts
    <2> HIDE DEF k
    <2>3. Listed(fbs)' = Listed(fbs')
      BY DEF Listed
    <2>4. Service!ServeDestroy
      <3>1. CASE k = 0
        <4>1. req.id \notin Listed(fbs) /\ event_ret' = -1
              /\ Listed(fbs)' = Listed(fbs)
          BY <2>1, <2>2, <2>3, <3>1
        <4>2. QED
          BY <2>1, <4>1 DEF Service!ServeDestroy
      <3>2. CASE k # 0
        <4>1. req.id \in Listed(fbs) /\ event_ret' = 0
          BY <2>1, <2>2, <3>2 DEF Listed
        <4>2. \E other \in Listed(fbs) :
                 Listed(fbs)' = Listed(fbs) \ {req.id, other}
          BY <1>3, <2>1, <2>2, <2>3, <3>2, ListedUnlink
        <4>3. QED
          BY <2>1, <4>1, <4>2 DEF Service!ServeDestroy
      <3>3. QED
        BY <3>1, <3>2
    <2>5. QED
      BY <1>1, <1>2, <2>4 DEF Service!Serve
  <1>8. CASE FbDirty
    <2>1. /\ req.type = "FB_DIRTY" /\ event_ret' = 0 /\ UNCHANGED fbs
          /\ \/ req.id \notin Listed(fbs) /\ UNCHANGED plane
             \/ \E n \in 1..Len(fbs) : plane' = fbs[n] /\ fbs[n].id = req.id
      BY <1>2, <1>8, DirtyFacts
    <2>2. plane.id' = IF req.id \in Listed(fbs) THEN req.id ELSE plane.id
      BY <2>1 DEF Listed
    <2>3. Service!ServeDirty
      BY <2>1, <2>2 DEF Service!ServeDirty, Listed
    <2>4. QED
      BY <1>1, <1>2, <2>3 DEF Service!Serve
  <1>9. QED
    BY <1>4, <1>5, <1>6, <1>7, <1>8 DEF Handler

(* Outside the handlers the list and the plane do not change; the step is  *)
(* a request, an answer, the stop, or invisible.                           *)
LEMMA LoopRefines ==
    ASSUME IInv,
           Post \/ HangUp \/ Read \/ ReadFails \/ Reply \/ ReplyFails \/ Poll
             \/ PollFails
    PROVE  [Service!Next]_(Service!vars)
  <1>1. UNCHANGED <<event_ret, fbs, plane>>
    BY DEF Post, HangUp, Read, ReadFails, Reply, ReplyFails, Poll, PollFails,
           memory
  <1>2. Listed(fbs)' = Listed(fbs) /\ plane.id' = plane.id
    BY <1>1 DEF Listed
  <1>3. CASE Post
    <2>1. Phase = "idle" /\ Phase' = "asked" /\ req' \in Service!Requests
      <3>1. pc \in {"read", "poll"}
        BY <1>3 DEF Post, IInv, Handshake, TypeOK
      <3>2. req' \in Service!Requests
        BY <1>3 DEF Post, PostFb, PipeEvents, Service!Requests,
                    Service!FbRequests, Service!PipeRequests
      <3>3. QED
        BY <1>3, <3>1, <3>2 DEF Post, Phase
    <2>2. Service!Ask
      BY <1>1, <1>2, <2>1 DEF Service!Ask
    <2>3. QED
      BY <2>2 DEF Service!Next
  <1>4. CASE Reply
    <2>1. Phase = "served" /\ Phase' = "idle" /\ req' = None
      BY <1>4 DEF Reply, Phase, IInv, Handshake
    <2>2. Service!Answer
      BY <1>1, <1>2, <2>1 DEF Service!Answer
    <2>3. QED
      BY <2>2 DEF Service!Next
  <1>5. CASE HangUp \/ Read \/ ReadFails \/ ReplyFails \/ Poll \/ PollFails
    <2>1. UNCHANGED req
      BY <1>5 DEF HangUp, Read, ReadFails, ReplyFails, Poll, PollFails, kernel
    <2>2. \/ Phase' = Phase
          \/ Phase # "stopped" /\ Phase' = "stopped"
      BY <1>5 DEF HangUp, Read, ReadFails, ReplyFails, Poll, PollFails, kernel,
                  Phase
    <2>3. Service!Stop \/ UNCHANGED Service!vars
      BY <1>1, <1>2, <2>1, <2>2 DEF Service!Stop, Service!vars
    <2>4. QED
      BY <2>3 DEF Service!Next
  <1>6. QED
    BY <1>3, <1>4, <1>5

(* The daemon implements FbService: each step of the event loop, of its    *)
(* handlers and of the kernel is a step of the service or changes nothing  *)
(* of it.                                                                  *)
THEOREM Refinement == Spec => Service!Spec
  <1>1. Init => Service!Init
    BY DEF Init, Service!Init, Phase, Listed, NoEntry
  <1>2. IInv /\ [Next]_vars => [Service!Next]_(Service!vars)
    <2> SUFFICES ASSUME IInv, [Next]_vars
                 PROVE  [Service!Next]_(Service!vars)
      OBVIOUS
    <2>1. CASE Handler
      BY <2>1, HandlerRefines DEF Service!Next
    <2>2. CASE UNCHANGED vars
      BY <2>2 DEF vars, kernel, memory, Service!vars, Phase, Listed
    <2>3. CASE Terminated
      BY <2>2, <2>3 DEF Terminated
    <2>4. QED
      BY <2>1, <2>2, <2>3, LoopRefines DEF Next, Daemon
  <1>3. QED
    BY <1>1, <1>2, Invariance, PTL DEF Spec, Service!Spec
=============================================================================
