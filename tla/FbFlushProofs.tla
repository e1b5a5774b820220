--------------------------- MODULE FbFlushProofs ---------------------------
(***************************************************************************)
(* Proofs about module FbFlush, for any framebuffer size the assumptions   *)
(* allow, any rectangles and any number of them.                           *)
(***************************************************************************)
EXTENDS FbFlush, TLAPS

(* Quotient and remainder, from a decomposition and back.                  *)
LEMMA DivModUnique ==
    ASSUME NEW n \in Nat, NEW q \in Nat, NEW r \in 0..255, n = 256 * q + r
    PROVE  n \div 256 = q /\ n % 256 = r
  BY SMT

LEMMA DivModFacts ==
    ASSUME NEW n \in Int, NEW q \in Int, q = n \div 256,
           NEW r \in Int, r = n % 256
    PROVE  n = 256 * q + r /\ 0 <= r /\ r <= 255
  BY SMT

LEMMA HighByte ==
    ASSUME NEW q \in Int, NEW r \in Int, 0 <= r, r <= 255,
           0 <= 256 * q + r, 256 * q + r <= 65535
    PROVE  0 <= q /\ q <= 255
  BY SMT

(* The two bytes of a sixteen bit coordinate.                              *)
LEMMA TwoBytes ==
    ASSUME NEW n \in U16
    PROVE  \E q, r \in 0..255 :
              n = 256 * q + r /\ n \div 256 = q /\ n % 256 = r /\ q % 256 = q
  <1>1. n \in Int /\ 0 <= n /\ n <= 65535
    BY DEF U16
  <1>2. n \div 256 \in Int /\ n % 256 \in Int
    BY <1>1
  <1>3. PICK q \in Int, r \in Int : q = n \div 256 /\ r = n % 256
    BY <1>2
  <1>4. n = 256 * q + r /\ 0 <= r /\ r <= 255
    BY <1>1, <1>3, DivModFacts
  <1>5. 0 <= q /\ q <= 255
    BY <1>1, <1>4, HighByte
  <1>6. q \in 0..255 /\ r \in 0..255
    BY <1>4, <1>5
  <1>7. q % 256 = q
    BY <1>6
  <1>8. QED
    BY <1>3, <1>4, <1>6, <1>7

(* The low byte of the last coordinate, within a block of 256 and across   *)
(* the border of one.                                                      *)
LEMMA LastLowByte ==
    ASSUME NEW b \in Nat, NEW p \in Nat, NEW s \in Nat, s # 0, s <= 255,
           b = 256 * p + s
    PROVE  (b - 1) % 256 = s - 1
  BY SMT

LEMMA LastLowByteBorder ==
    ASSUME NEW b \in Nat, NEW p \in Nat \ {0}, b = 256 * p
    PROVE  (b - 1) % 256 = 255
  <1>1. PICK m \in Nat : m = p - 1
    OBVIOUS
  <1>2. PICK c \in Nat : c = b - 1
    OBVIOUS
  <1>3. c = 256 * m + 255
    BY <1>1, <1>2
  <1>4. 255 \in 0..255
    OBVIOUS
  <1>5. c % 256 = 255
    BY <1>3, <1>4, DivModUnique
  <1>6. QED
    BY <1>2, <1>5

(* The window bytes of mipi_dbi_fb_dirty() name the span a .. b-1 unless b *)
(* is a multiple of 256; then the end is 256 too large.                    *)
LEMMA LatchedFacts ==
    ASSUME NEW a \in U16, NEW b \in U16 \ {0}
    PROVE  /\ b % 256 # 0 =>
                 Latched(Params(a, b)) = [from |-> a, to |-> b - 1]
           /\ b % 256 = 0 =>
                 /\ Latched(Params(a, b)) = [from |-> a, to |-> b + 255]
                 /\ b + 255 <= 65535
  <1>1. PICK q \in 0..255, r \in 0..255 :
            a = 256 * q + r /\ a \div 256 = q /\ a % 256 = r /\ q % 256 = q
    BY TwoBytes
  <1>2. PICK p \in 0..255, s \in 0..255 :
            b = 256 * p + s /\ b \div 256 = p /\ b % 256 = s /\ p % 256 = p
    BY TwoBytes
  <1>3. PICK low : low = (b - 1) % 256
    OBVIOUS
  <1>4. Latched(Params(a, b)) = [from |-> q * 256 + r, to |-> p * 256 + low]
    BY <1>1, <1>2, <1>3 DEF Latched, Params
  <1>5. q * 256 + r = a
    BY <1>1
  <1>6. b \in Nat /\ b > 0 /\ p \in Nat /\ s \in Nat /\ s <= 255
    BY DEF U16
  <1>7. CASE s # 0
    <2>1. b = 256 * p + s
      BY <1>2
    <2>2. (b - 1) % 256 = s - 1
      BY <1>6, <1>7, <2>1, LastLowByte
    <2>3. p * 256 + low = b - 1
      BY <1>3, <1>6, <2>1, <2>2
    <2>4. QED
      BY <1>2, <1>4, <1>5, <1>7, <2>3
  <1>8. CASE s = 0
    <2>1. b = 256 * p /\ p \in Nat \ {0}
      BY <1>2, <1>6, <1>8
    <2>2. low = 255
      BY <1>3, <1>6, <2>1, LastLowByteBorder
    <2>3. p * 256 + low = b + 255 /\ b + 255 <= 65535
      BY <2>1, <2>2
    <2>4. QED
      BY <1>2, <1>4, <1>5, <1>8, <2>3
  <1>9. QED
    BY <1>7, <1>8

(* The panel latches sixteen bit addresses.                                *)
LEMMA LatchedType ==
    ASSUME NEW a \in U16, NEW b \in U16 \ {0}
    PROVE  Latched(Params(a, b)) \in Span
  <1>0. b \in Int /\ 0 <= b
    BY DEF U16
  <1>1. b - 1 \in U16
    BY DEF U16
  <1>2. ASSUME b + 255 <= 65535 PROVE b + 255 \in U16
    BY <1>0, <1>2 DEF U16
  <1>3. \/ Latched(Params(a, b)) = [from |-> a, to |-> b - 1]
        \/ /\ Latched(Params(a, b)) = [from |-> a, to |-> b + 255]
           /\ b + 255 \in U16
    BY <1>2, LatchedFacts
  <1>4. QED
    BY <1>1, <1>3 DEF Span

(* An area inside the frame: the run starts and ends in the buffer.        *)
LEMMA RunInside ==
    ASSUME NEW w \in 1..Width, NEW y1 \in Nat, NEW y2 \in Nat,
           y1 < y2, y2 <= Height
    PROVE  /\ y1 * w \in Nat /\ w * (y2 - y1) \in Nat
           /\ y1 * w + w * (y2 - y1) <= Width * Height
           /\ w * (y2 - y1) <= Width * Height
  <1>1. Width \in Nat /\ Height \in Nat
    BY SizeAssumption DEF U16
  <1>2. y1 * w \in Nat /\ w * (y2 - y1) \in Nat
    BY <1>1
  <1>3. y1 * w + w * (y2 - y1) = w * y2
    BY <1>1
  <1>4. w * y2 <= Width * y2
    BY <1>1
  <1>5. Width * y2 <= Width * Height
    BY <1>1
  <1>6. w * y2 \in Nat /\ Width * y2 \in Nat /\ Width * Height \in Nat
    BY <1>1
  <1>7. QED
    BY <1>2, <1>3, <1>4, <1>5, <1>6

(* Rectangles: merging yields one that covers both.                        *)
LEMMA GrowFacts ==
    ASSUME NEW d \in Rect, NEW s \in Rect
    PROVE  /\ Grow(d, s) \in Rect
           /\ Covers(Grow(d, s), d)
           /\ Covers(Grow(d, s), s)
  <1>1. /\ d.x1 \in U16 /\ d.x2 \in U16 /\ d.y1 \in U16 /\ d.y2 \in U16
        /\ s.x1 \in U16 /\ s.x2 \in U16 /\ s.y1 \in U16 /\ s.y2 \in U16
    BY DEF Rect
  <1>2. /\ Lower(d.x1, s.x1) \in U16 /\ Lower(d.y1, s.y1) \in U16
        /\ Upper(d.x2, s.x2) \in U16 /\ Upper(d.y2, s.y2) \in U16
    BY <1>1 DEF Lower, Upper
  <1>3. Grow(d, s) \in Rect
    BY <1>2 DEF Grow, Rect
  <1>4. /\ Lower(d.x1, s.x1) <= d.x1 /\ Lower(d.x1, s.x1) <= s.x1
        /\ Lower(d.y1, s.y1) <= d.y1 /\ Lower(d.y1, s.y1) <= s.y1
        /\ d.x2 <= Upper(d.x2, s.x2) /\ s.x2 <= Upper(d.x2, s.x2)
        /\ d.y2 <= Upper(d.y2, s.y2) /\ s.y2 <= Upper(d.y2, s.y2)
    BY <1>1 DEF Lower, Upper, U16
  <1>5. QED
    BY <1>3, <1>4 DEF Grow, Covers

LEMMA CoversTransitive ==
    ASSUME NEW a \in Rect, NEW b \in Rect, NEW c \in Rect,
           Covers(a, b), Covers(b, c)
    PROVE  Covers(a, c)
  <1>1. /\ a.x1 \in U16 /\ a.x2 \in U16 /\ a.y1 \in U16 /\ a.y2 \in U16
        /\ b.x1 \in U16 /\ b.x2 \in U16 /\ b.y1 \in U16 /\ b.y2 \in U16
        /\ c.x1 \in U16 /\ c.x2 \in U16 /\ c.y1 \in U16 /\ c.y2 \in U16
    BY DEF Rect
  <1>2. QED
    BY <1>1 DEF Covers, U16

LEMMA FullFacts ==
    /\ Full \in Rect /\ Empty \in Rect
    /\ 0 < Width /\ 0 < Height /\ Width \in Nat /\ Height \in Nat
  BY SizeAssumption DEF Full, Empty, Rect, U16

(* Pairs of rectangles: an even index below n has its partner below        *)
(* Held(n, TRUE).                                                          *)
LEMMA PairFacts ==
    ASSUME NEW k \in Nat, NEW n \in Nat, k % 2 = 0, k < n
    PROVE  /\ (k + 1) % 2 = 1 /\ (k + 2) % 2 = 0
           /\ k + 2 <= (IF n % 2 = 1 THEN n + 1 ELSE n)
  <1>1. (k + 1) % 2 = 1 /\ (k + 2) % 2 = 0
    BY SMT
  <1>2. n = k + 1 => n % 2 = 1
    BY <1>1
  <1>3. QED
    BY <1>1, <1>2

-----------------------------------------------------------------------------
(* The inductive invariant.                                                *)

(* During the merge the rectangle covers all the damage seen so far.       *)
MergeLoop ==
    pc = "merge" => /\ enabled
                    /\ num_clips > 0
                    /\ annotate => i % 2 = 0
                    /\ \A j \in Damage : j < i => Covers(clip, clips[j + 1])

HasInput ==
    num_clips > 0 => clips \in [1..Held(num_clips, annotate) -> Rects]

(* A display that is not enabled gets the whole frame.                     *)
FirstFull == HasClip /\ ~enabled => clip = Full

(* The panel has what the commands that did not fail said.                 *)
WindowLatched ==
    /\ Past({"page", "memory", "written"}) /\ "x" \notin lost
          => win.x = Latched(Params(clip.x1, clip.x2))
    /\ HasWindow /\ "y" \notin lost
          => win.y = Latched(Params(clip.y1, clip.y2))

RunOfClip ==
    pc = "written" =>
        /\ sent.count = FlushCount(clip)
        /\ \/ sent.from = "fb" /\ sent.start = FlushStart(clip)
           \/ sent.from = "kernel" /\ sent.start = 0

IInv == /\ TypeOK /\ ClipInside /\ CoversDamage /\ MergeLoop /\ HasInput
        /\ FirstFull /\ WindowLatched /\ RunOfClip /\ ReadsInside

(* What the conditions on the program counter say when nothing is merged,  *)
(* latched or sent yet.                                                    *)
USE DEF Past, HasClip, HasWindow

(* Between two events nothing of the invariant but types and the size of   *)
(* the last run is at stake.                                               *)
LEMMA IdleIInv ==
    ASSUME pc = "idle", TypeOK, HasInput, ReadsInside
    PROVE  IInv
  BY DEF IInv, ClipInside, CoversDamage, MergeLoop, FirstFull, WindowLatched,
         RunOfClip

LEMMA InitIInv == Init => IInv
  <1> SUFFICES ASSUME Init PROVE IInv
    OBVIOUS
  <1>1. NoWindow \in Span
    BY DEF NoWindow, Span, U16
  <1>2. TypeOK
    <2>1. num_clips \in 0..MaxClips /\ i \in 0..Held(num_clips, annotate)
      BY ClipsAssumption DEF Init, Held
    <2>2. win \in [x : Span, y : Span] /\ clip \in Rect
      BY <1>1, FullFacts DEF Init
    <2>3. sent \in [from : {"none", "fb", "kernel"}, start : Nat, count : Nat]
      BY DEF Init, NoRun
    <2>4. QED
      BY <2>1, <2>2, <2>3 DEF Init, TypeOK, Pcs
  <1>3. HasInput
    BY DEF Init, HasInput
  <1>4. ReadsInside
    <2>1. Width * Height >= 0
      BY FullFacts
    <2>2. QED
      BY <2>1 DEF Init, ReadsInside, NoRun
  <1>5. QED
    BY <1>2, <1>3, <1>4, IdleIInv DEF Init

(* The pipe steps and the ends of a flush lead back to idle.               *)
LEMMA IdleStepsIInv ==
    IInv /\ (PipeEnable \/ PipeDisable \/ WriteMemoryFails \/ Written) => IInv'
  <1> SUFFICES ASSUME IInv,
                      PipeEnable \/ PipeDisable \/ WriteMemoryFails \/ Written
               PROVE  IInv'
    OBVIOUS
  <1> USE DEF IInv
  <1>1. CASE PipeEnable \/ PipeDisable
    <2>1. TypeOK'
      BY <1>1 DEF TypeOK, PipeEnable, PipeDisable, input
    <2>2. pc' = "idle" /\ HasInput' /\ ReadsInside'
      BY <1>1 DEF PipeEnable, PipeDisable, input, HasInput, ReadsInside
    <2>3. QED
      BY <2>1, <2>2
      DEF ClipInside, CoversDamage, MergeLoop, FirstFull, WindowLatched, RunOfClip
  <1>2. CASE WriteMemoryFails \/ Written
    <2>1. /\ pc' = "idle" /\ clips' = << >> /\ num_clips' = 0
          /\ annotate' = FALSE /\ i' = 0 /\ clip' = Empty
          /\ UNCHANGED <<prepared, win, lost, sent>>
          /\ enabled' \in {enabled, TRUE}
      BY <1>2 DEF WriteMemoryFails, Written
    <2>2. num_clips' \in 0..MaxClips /\ i' \in 0..Held(num_clips', annotate')
      BY <2>1, ClipsAssumption DEF Held
    <2>3. TypeOK'
      BY <2>1, <2>2, FullFacts DEF TypeOK, Pcs
    <2>4. HasInput' /\ ReadsInside'
      BY <2>1 DEF HasInput, ReadsInside
    <2>5. QED
      BY <2>1, <2>3, <2>4
      DEF ClipInside, CoversDamage, MergeLoop, FirstFull, WindowLatched, RunOfClip
  <1>3. QED
    BY <1>1, <1>2

(* A new event: the whole frame, or the empty rectangle to start with.     *)
LEMMA FbDirtyIInv == IInv /\ FbDirty => IInv'
  <1> SUFFICES ASSUME IInv, FbDirty PROVE IInv'
    OBVIOUS
  <1> USE DEF IInv
  <1>1. PICK n \in 0..MaxClips, copies \in BOOLEAN :
            /\ num_clips' = CheckDirty(n)
            /\ annotate' = copies
            /\ IF CheckDirty(n) = 0
               THEN clips' = << >> /\ clip' = Full /\ pc' = "column"
               ELSE /\ clips' \in [1..Held(n, copies) -> Rects]
                    /\ clip' = Empty
                    /\ pc' = "merge"
    BY DEF FbDirty
  <1>2. i' = 0 /\ sent' = NoRun /\ lost' = {} /\ UNCHANGED <<prepared, enabled, win>>
    BY DEF FbDirty
  <1>3. n \in Nat /\ (enabled => CheckDirty(n) = n) /\ (~enabled => CheckDirty(n) = 0)
        /\ enabled \in BOOLEAN
    BY ClipsAssumption DEF CheckDirty, TypeOK
  <1>4. num_clips' \in 0..MaxClips /\ 0 \in 0..Held(num_clips', annotate')
    BY <1>1, <1>3, ClipsAssumption DEF Held
  <1>5. sent' \in [from : {"none", "fb", "kernel"}, start : Nat, count : Nat]
        /\ ReadsInside'
    <2>1. Width * Height >= 0
      BY FullFacts
    <2>2. QED
      BY <1>2, <2>1 DEF NoRun, ReadsInside
  <1>6. num_clips' # 0 => num_clips' = n /\ num_clips' > 0
    BY <1>1, <1>3
  <1>7. TypeOK'
    <2>1. clips' \in [1..Held(num_clips', annotate') -> Rects] \cup {<< >>}
      BY <1>1, <1>6
    <2>2. clip' \in Rect /\ pc' \in Pcs
      BY <1>1, FullFacts DEF Pcs
    <2>3. QED
      BY <1>1, <1>2, <1>4, <1>5, <2>1, <2>2 DEF TypeOK
  <1>8. CASE CheckDirty(n) = 0
    <2>1. /\ num_clips' = 0 /\ clip' = Full /\ pc' = "column"
      BY <1>1, <1>8
    <2>2. ClipInside'
      BY <2>1, FullFacts DEF ClipInside, Full
    <2>3. CoversDamage' /\ HasInput'
      BY <2>1 DEF CoversDamage, Damage, HasInput
    <2>4. QED
      BY <1>5, <1>7, <2>1, <2>2, <2>3
      DEF MergeLoop, FirstFull, WindowLatched, RunOfClip
  <1>9. CASE CheckDirty(n) # 0
    <2>1. /\ num_clips' = n /\ num_clips' > 0 /\ pc' = "merge" /\ enabled'
          /\ clips' \in [1..Held(num_clips', annotate') -> Rects]
      BY <1>1, <1>2, <1>3, <1>6, <1>9
    <2>2. MergeLoop'
      <3>1. i' % 2 = 0
        BY <1>2
      <3>2. \A j \in Damage' : ~(j < i')
        BY <1>2, <1>4 DEF Damage
      <3>3. QED
        BY <2>1, <3>1, <3>2 DEF MergeLoop
    <2>3. QED
      BY <1>5, <1>7, <2>1, <2>2
      DEF ClipInside, CoversDamage, HasInput, FirstFull, WindowLatched, RunOfClip
  <1>10. QED
    BY <1>8, <1>9

(* One turn of the merge loop.                                             *)
LEMMA MergeIInv == IInv /\ Merge => IInv'
  <1> SUFFICES ASSUME IInv, Merge PROVE IInv'
    OBVIOUS
  <1> USE DEF IInv
  <1> DEFINE j == IF annotate THEN i + 1 ELSE i
  <1>1. /\ pc = "merge" /\ pc' = "merge" /\ i < num_clips
        /\ clip' = Grow(clip, clips[j + 1]) /\ i' = j + 1
        /\ UNCHANGED <<prepared, enabled, clips, num_clips, annotate, win, lost, sent>>
    BY DEF Merge, input
  <1>2. /\ i \in Nat /\ num_clips \in Nat /\ annotate \in BOOLEAN
        /\ clip \in Rect
    BY ClipsAssumption DEF TypeOK, Held
  <1>3. /\ annotate => i % 2 = 0
        /\ clips \in [1..Held(num_clips, annotate) -> Rects]
        /\ \A k \in Damage : k < i => Covers(clip, clips[k + 1])
        /\ enabled /\ num_clips > 0
    BY <1>1 DEF MergeLoop, HasInput
  <1>4. Held(num_clips, annotate) \in Nat /\ j \in Nat
        /\ j + 1 <= Held(num_clips, annotate)
    <2>1. CASE annotate
      BY <1>1, <1>2, <1>3, <2>1, PairFacts DEF Held
    <2>2. CASE ~annotate
      BY <1>1, <1>2, <2>2 DEF Held
    <2>3. QED
      BY <2>1, <2>2
  <1>5. j + 1 \in 1..Held(num_clips, annotate)
    BY <1>4
  <1>6. clips[j + 1] \in Rect
    BY <1>3, <1>5, ClipsAssumption
  <1>7. ASSUME NEW k \in Damage
        PROVE  k \in Nat /\ k + 1 \in 1..Held(num_clips, annotate)
               /\ (k < i' => k < i \/ k = j)
    <2>1. k \in Nat /\ k < num_clips /\ (annotate => k % 2 = 1)
      BY <1>2 DEF Damage
    <2>2. k + 1 \in 1..Held(num_clips, annotate)
      BY <1>2, <2>1 DEF Held
    <2>3. annotate => k # i
      BY <1>3, <2>1
    <2>4. k < j + 1 => k < i \/ k = j
      BY <1>2, <2>1, <2>3
    <2>5. QED
      BY <1>1, <2>1, <2>2, <2>4
  <1> HIDE DEF j
  <1>8. clip' \in Rect /\ Covers(clip', clip) /\ Covers(clip', clips[j + 1])
    BY <1>1, <1>2, <1>6, GrowFacts
  <1>9. TypeOK'
    <2>1. i' \in 0..Held(num_clips, annotate)
      BY <1>1, <1>4
    <2>2. QED
      BY <1>1, <1>8, <2>1 DEF TypeOK
  <1>10. MergeLoop'
    <2>1. annotate => i' % 2 = 0
      BY <1>1, <1>2, <1>3, PairFacts DEF j
    <2>2. ASSUME NEW k \in Damage, k < i' PROVE Covers(clip', clips[k + 1])
      <3>1. CASE k = j
        BY <1>8, <3>1
      <3>2. CASE k < i
        <4>1. clips[k + 1] \in Rect
          BY <1>3, <1>7, ClipsAssumption
        <4>2. QED
          BY <1>2, <1>3, <1>8, <3>2, <4>1, CoversTransitive
      <3>3. QED
        BY <1>7, <2>2, <3>1, <3>2
    <2>3. Damage' = Damage
      BY <1>1 DEF Damage
    <2>4. QED
      BY <1>1, <1>3, <2>1, <2>2, <2>3 DEF MergeLoop
  <1>11. HasInput' /\ ReadsInside'
    BY <1>1 DEF HasInput, ReadsInside
  <1>12. QED
    BY <1>1, <1>9, <1>10, <1>11
    DEF ClipInside, CoversDamage, FirstFull, WindowLatched, RunOfClip

(* The end of the loop: a legal result covers all damage, and an illegal   *)
(* one gives way to the whole frame.                                       *)
LEMMA MergedIInv == IInv /\ Merged => IInv'
  <1> SUFFICES ASSUME IInv, Merged PROVE IInv'
    OBVIOUS
  <1> USE DEF IInv
  <1>1. /\ pc = "merge" /\ pc' = "column" /\ i >= num_clips
        /\ clip' = IF Illegal(clip) THEN Full ELSE clip
        /\ UNCHANGED <<prepared, enabled, clips, num_clips, annotate, i, win, lost, sent>>
    BY DEF Merged, input
  <1>2. /\ i \in Nat /\ num_clips \in Nat /\ clip \in Rect
    BY ClipsAssumption DEF TypeOK, Held
  <1>3. enabled
    BY <1>1 DEF MergeLoop
  <1>4. TypeOK'
    BY <1>1, FullFacts DEF TypeOK, Pcs
  <1>5. ClipInside'
    <2>1. CASE Illegal(clip)
      BY <1>1, <2>1, FullFacts DEF ClipInside, Full
    <2>2. CASE ~Illegal(clip)
      <3>1. clip.x1 \in Nat /\ clip.x2 \in Nat /\ clip.y1 \in Nat /\ clip.y2 \in Nat
        BY <1>2 DEF Rect, U16
      <3>2. QED
        BY <1>1, <2>2, <3>1, FullFacts DEF ClipInside, Illegal
    <2>3. QED
      BY <2>1, <2>2
  <1>6. CoversDamage'
    <2>1. \A k \in Damage : Covers(clip, clips[k + 1])
      <3>1. \A k \in Damage : k < i
        BY <1>1, <1>2 DEF Damage
      <3>2. QED
        BY <1>1, <3>1 DEF MergeLoop
    <2>2. Damage' = Damage
      BY <1>1 DEF Damage
    <2>3. \A k \in Damage : Covers(Full, clips[k + 1]) => Covers(clip', clips[k + 1])
      BY <1>1, <2>1
    <2>4. QED
      BY <1>1, <2>2, <2>3 DEF CoversDamage, Full, Covers
  <1>7. HasInput' /\ ReadsInside'
    BY <1>1 DEF HasInput, ReadsInside
  <1>8. QED
    BY <1>1, <1>3, <1>4, <1>5, <1>6, <1>7
    DEF MergeLoop, FirstFull, WindowLatched, RunOfClip

(* The two window commands.                                                *)
LEMMA WindowIInv == IInv /\ (SetColumnAddress \/ SetPageAddress) => IInv'
  <1> SUFFICES ASSUME IInv, SetColumnAddress \/ SetPageAddress PROVE IInv'
    OBVIOUS
  <1> USE DEF IInv
  <1>1. /\ UNCHANGED <<prepared, enabled, clips, num_clips, annotate, i, clip, sent>>
        /\ \/ /\ pc = "column" /\ pc' = "page"
              /\ win' \in {win, [win EXCEPT !.x = Latched(Params(clip.x1, clip.x2))]}
              /\ \/ /\ win' = [win EXCEPT !.x = Latched(Params(clip.x1, clip.x2))]
                    /\ lost' = lost
                 \/ lost' = lost \cup {"x"}
           \/ /\ pc = "page" /\ pc' = "memory"
              /\ win' \in {win, [win EXCEPT !.y = Latched(Params(clip.y1, clip.y2))]}
              /\ \/ /\ win' = [win EXCEPT !.y = Latched(Params(clip.y1, clip.y2))]
                    /\ lost' = lost
                 \/ lost' = lost \cup {"y"}
    BY DEF SetColumnAddress, SetPageAddress, input
  <1>2. win \in [x : Span, y : Span] /\ clip \in Rect
    BY DEF TypeOK
  <1>3. /\ clip.x1 < clip.x2 /\ clip.y1 < clip.y2
        /\ clip.x1 \in U16 /\ clip.x2 \in U16 /\ clip.y1 \in U16 /\ clip.y2 \in U16
    BY <1>1, <1>2 DEF ClipInside, Rect
  <1>4. clip.x2 # 0 /\ clip.y2 # 0
    BY <1>3 DEF U16
  <1>5. Latched(Params(clip.x1, clip.x2)) \in Span
        /\ Latched(Params(clip.y1, clip.y2)) \in Span
    BY <1>3, <1>4, LatchedType
  <1>6. TypeOK'
    <2>1. win' \in [x : Span, y : Span]
      BY <1>1, <1>2, <1>5
    <2>2. lost' \subseteq {"x", "y"}
      BY <1>1 DEF TypeOK
    <2>3. QED
      BY <1>1, <2>1, <2>2 DEF TypeOK, Pcs
  <1>7. WindowLatched'
    <2>1. CASE pc = "column"
      BY <1>1, <1>2, <2>1 DEF WindowLatched
    <2>2. CASE pc = "page"
      <3>1. win'.x = win.x
        BY <1>1, <1>2, <2>2
      <3>2. "x" \notin lost' => "x" \notin lost
        BY <1>1
      <3>3. "y" \notin lost' => win'.y = Latched(Params(clip.y1, clip.y2))
        BY <1>1, <1>2, <2>2
      <3>4. QED
        BY <1>1, <2>2, <3>1, <3>2, <3>3 DEF WindowLatched
    <2>3. QED
      BY <1>1, <2>1, <2>2
  <1>8. ClipInside' /\ FirstFull' /\ HasInput' /\ ReadsInside'
    BY <1>1 DEF ClipInside, FirstFull, HasInput, ReadsInside
  <1>9. CoversDamage'
    BY <1>1 DEF CoversDamage, Damage
  <1>10. QED
    BY <1>1, <1>6, <1>7, <1>8, <1>9 DEF MergeLoop, RunOfClip

(* The pixels: the run is inside the buffer, by the arithmetic above.      *)
LEMMA WriteIInv == IInv /\ WriteMemory => IInv'
  <1> SUFFICES ASSUME IInv, WriteMemory PROVE IInv'
    OBVIOUS
  <1> USE DEF IInv
  <1>1. /\ UNCHANGED <<prepared, enabled, clips, num_clips, annotate, i, clip, win, lost>>
        /\ pc = "memory" /\ pc' = "written"
        /\ \/ sent' = [from |-> "kernel", start |-> 0, count |-> FlushCount(clip)]
           \/ sent' = [from |-> "fb", start |-> FlushStart(clip),
                       count |-> FlushCount(clip)]
    BY DEF WriteMemory, input
  <1>2. /\ clip.x1 < clip.x2 /\ clip.x2 <= Width
        /\ clip.y1 < clip.y2 /\ clip.y2 <= Height
        /\ clip.x1 \in Nat /\ clip.x2 \in Nat /\ clip.y1 \in Nat /\ clip.y2 \in Nat
    BY <1>1 DEF ClipInside, TypeOK, Rect, U16
  <1>3. ClipWidth(clip) \in 1..Width
    BY <1>2, FullFacts DEF ClipWidth
  <1>4. /\ FlushStart(clip) \in Nat /\ FlushCount(clip) \in Nat
        /\ FlushStart(clip) + FlushCount(clip) <= Width * Height
        /\ FlushCount(clip) <= Width * Height
    BY <1>2, <1>3, RunInside DEF FlushStart, FlushCount, ClipHeight
  <1>5. TypeOK'
    <2>1. sent' \in [from : {"none", "fb", "kernel"}, start : Nat, count : Nat]
      BY <1>1, <1>4
    <2>2. QED
      BY <1>1, <2>1 DEF TypeOK, Pcs
  <1>6. ReadsInside'
    BY <1>1, <1>4 DEF ReadsInside
  <1>7. RunOfClip'
    BY <1>1 DEF RunOfClip
  <1>8. ClipInside' /\ FirstFull' /\ HasInput' /\ WindowLatched'
    BY <1>1 DEF ClipInside, FirstFull, HasInput, WindowLatched
  <1>9. CoversDamage'
    BY <1>1 DEF CoversDamage, Damage
  <1>10. QED
    BY <1>1, <1>5, <1>6, <1>7, <1>8, <1>9 DEF MergeLoop

LEMMA NextIInv == IInv /\ [Next]_vars => IInv'
  <1> SUFFICES ASSUME IInv, [Next]_vars PROVE IInv'
    OBVIOUS
  <1>1. CASE UNCHANGED vars
    BY <1>1 DEF vars, input, IInv, TypeOK, ClipInside, CoversDamage, Damage,
                MergeLoop, HasInput, FirstFull, WindowLatched, RunOfClip,
                ReadsInside
  <1>2. CASE Next
    BY <1>2, IdleStepsIInv, FbDirtyIInv, MergeIInv, MergedIInv, WindowIInv,
       WriteIInv
    DEF Next
  <1>3. QED
    BY <1>1, <1>2

(* The invariant holds throughout every sequence of flushes.               *)
THEOREM Invariance == Spec => []IInv
  BY InitIInv, NextIInv, PTL DEF Spec

(* Types, in particular that the merge loop stays within the rectangles of *)
(* the event and the one behind them.                                      *)
THEOREM TypeCorrect == Spec => []TypeOK
  BY Invariance, PTL DEF IInv

(* For every frame size, number of rectangles and their values, the result *)
(* of tinydrm_merge_clips() is a non-empty part of the frame.              *)
THEOREM ClipIsInside == Spec => []ClipInside
  BY Invariance, PTL DEF IInv

(* tinydrm_merge_clips() loses no damage.                                  *)
THEOREM NoDamageLost == Spec => []CoversDamage
  BY Invariance, PTL DEF IInv

(* tinydrm_regmap_flush_rgb565() reads inside the buffer.                  *)
THEOREM ReadIsInside == Spec => []ReadsInside
  BY Invariance, PTL DEF IInv

LEMMA ExactIInv == IInv => WindowExact
  <1> SUFFICES ASSUME IInv, HasWindow
               PROVE  /\ "x" \notin lost /\ clip.x2 % 256 # 0 => ColumnsAre(clip)
                      /\ "y" \notin lost /\ clip.y2 % 256 # 0 => RowsAre(clip)
    BY DEF WindowExact
  <1>1. /\ clip.x1 < clip.x2 /\ clip.y1 < clip.y2
        /\ clip.x1 \in U16 /\ clip.x2 \in U16 /\ clip.y1 \in U16 /\ clip.y2 \in U16
    BY DEF IInv, ClipInside, TypeOK, Rect
  <1>2. clip.x2 # 0 /\ clip.y2 # 0
    BY <1>1 DEF U16
  <1>3. /\ clip.x2 % 256 # 0 => Latched(Params(clip.x1, clip.x2))
                                  = [from |-> clip.x1, to |-> clip.x2 - 1]
        /\ clip.y2 % 256 # 0 => Latched(Params(clip.y1, clip.y2))
                                  = [from |-> clip.y1, to |-> clip.y2 - 1]
    BY <1>1, <1>2, LatchedFacts
  <1>4. QED
    BY <1>3 DEF IInv, WindowLatched, ColumnsAre, RowsAre

(* A window command of mipi_dbi_fb_dirty() that does not fail is right     *)
(* away from the multiples of 256, whatever window it finds.               *)
THEOREM WindowIsExact == Spec => []WindowExact
  BY ExactIInv, Invariance, PTL

(* Whole rows out of the framebuffer land where they belong in the window  *)
(* of their rectangle.                                                     *)
THEOREM FullRowsAreExact == Spec => []FullRowsExact
  <1>1. IInv => FullRowsExact
    <2> SUFFICES ASSUME IInv, pc = "written", sent.from = "fb",
                        ClipWidth(clip) = Width
                 PROVE  ShowsClip(clip)
      BY DEF FullRowsExact
    <2>1. /\ clip.x1 < clip.x2 /\ clip.x2 <= Width /\ Width \in Nat
          /\ clip.x1 \in Nat /\ clip.x2 \in Nat /\ clip.y1 \in Nat /\ clip.y2 \in Nat
      BY FullFacts DEF IInv, ClipInside, TypeOK, Rect, U16
    <2>2. clip.x1 = 0
      BY <2>1 DEF ClipWidth
    <2>3. sent.start = clip.y1 * Width
      BY DEF IInv, RunOfClip, FlushStart
    <2>4. \A x, y \in Int :
             clip.y1 * Width + (y - clip.y1) * Width + x = y * Width + x
      BY <2>1
    <2>5. ASSUME NEW x \in Int, NEW y \in Int
          PROVE  PixelShownAt(clip, x, y) = PixelAt(x, y)
      BY <2>2, <2>3, <2>4 DEF PixelShownAt, PixelAt
    <2>6. QED
      BY <2>1, <2>5 DEF ShowsClip
  <1>2. QED
    BY <1>1, Invariance, PTL

(* The backlight comes on with a whole frame, and on each axis in the      *)
(* whole window unless the command of this flush for the axis failed.      *)
THEOREM EnabledAfterFullFrame == Spec => EnabledByFullFrame
  <1> DEFINE Whole == ~enabled /\ enabled' => /\ sent.start = 0
                                              /\ sent.count = Width * Height
                                              /\ "x" \notin lost => ColumnsAre(Full)
                                              /\ "y" \notin lost => RowsAre(Full)
  <1>1. IInv /\ [Next]_vars => [Whole]_vars
    <2> SUFFICES ASSUME IInv, [Next]_vars, ~enabled, enabled' PROVE Whole
      OBVIOUS
    <2>1. Written
      BY DEF Next, PipeEnable, PipeDisable, FbDirty, Merge, Merged,
             SetColumnAddress, SetPageAddress, WriteMemory, WriteMemoryFails, vars
    <2>2. pc = "written" /\ clip = Full
      BY <2>1 DEF Written, IInv, FirstFull
    <2>3. Full.x2 % 256 # 0 /\ Full.y2 % 256 # 0
      BY SizeAssumption DEF Full
    <2>4. /\ "x" \notin lost => ColumnsAre(Full)
          /\ "y" \notin lost => RowsAre(Full)
      BY <2>2, <2>3, ExactIInv DEF WindowExact
    <2>5. sent.count = FlushCount(Full) /\ sent.start \in {0, FlushStart(Full)}
      BY <2>2 DEF IInv, RunOfClip
    <2>6. FlushCount(Full) = Width * Height /\ FlushStart(Full) = 0
      BY FullFacts DEF FlushCount, FlushStart, ClipWidth, ClipHeight, Full
    <2>7. QED
      BY <2>4, <2>5, <2>6
  <1>2. QED
    BY <1>1, Invariance, PTL DEF Spec, EnabledByFullFrame
=============================================================================
