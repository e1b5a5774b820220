------------------------------ MODULE FbFlush ------------------------------
(***************************************************************************)
(* The data path of a flush: mipi_dbi_fb_dirty() with the helpers it calls *)
(* (tinydrm_check_dirty, tinydrm_merge_clips, tinydrm_regmap_flush_rgb565) *)
(* and the choice of the transfer's source in spi_sync().  The rectangles  *)
(* of the event are merged one by one, the result is sent to the panel as  *)
(* a window, and a run of pixels follows.                                  *)
(*                                                                         *)
(* The results of the two window commands are ignored: one that fails      *)
(* leaves the panel with the old window, or with the new one if only the   *)
(* acknowledgement went wrong, and the pixels follow all the same.  A      *)
(* failing pixel write ends the flush.                                     *)
(***************************************************************************)
EXTENDS Integers, Sequences, FiniteSets

CONSTANTS Width, Height,     \* size of the framebuffer, fb->width and fb->height
          Rects,             \* the rectangles an event may carry
          MaxClips,          \* how many of them
          KernelBuffer       \* /dev/udrm offers a buffer: udev->buf_fd >= 0

U16 == {n \in Nat : n <= 65535}

(* struct drm_clip_rect; x2 and y2 are exclusive *)
Rect == [x1 : U16, y1 : U16, x2 : U16, y2 : U16]

(* A size that is a multiple of 256 would meet the flaw of Params in the   *)
(* full window already; no panel the code drives has one.  The product     *)
(* keeps the byte offsets of a frame within 32 bits.                       *)
ASSUME SizeAssumption ==
    /\ Width \in U16 \ {0} /\ Width % 256 # 0
    /\ Height \in U16 \ {0} /\ Height % 256 # 0
    /\ Width * Height <= 536870911

ASSUME ClipsAssumption == Rects \subseteq Rect /\ MaxClips \in Nat

ASSUME BufferAssumption == KernelBuffer \in BOOLEAN

VARIABLES
    prepared, enabled,   \* tdev->prepared, tdev->enabled
    pc,                  \* where mipi_dbi_fb_dirty() is
    clips, num_clips,    \* the event's rectangles, and how many it announces
    annotate,            \* flags & DRM_MODE_FB_DIRTY_ANNOTATE_COPY
    i,                   \* the merge loop's index, from 0
    clip,                \* the merged rectangle
    win,                 \* the window the panel has latched, inclusive
    lost,                \* history: the axes of this flush whose command failed
    sent                 \* the pixel run of the current or last flush

input == <<clips, num_clips, annotate>>
vars == <<prepared, enabled, pc, input, i, clip, win, lost, sent>>

-----------------------------------------------------------------------------
Full == [x1 |-> 0, y1 |-> 0, x2 |-> Width, y2 |-> Height]

(* Variant: ~0 keeps its sign.                                             *)
EmptySigned == [x1 |-> -1, y1 |-> -1, x2 |-> 0, y2 |-> 0]

(* ~0 stored in an unsigned short, and 0 *)
Empty == [x1 |-> 65535, y1 |-> 65535, x2 |-> 0, y2 |-> 0]

Lower(a, b) == IF a < b THEN a ELSE b
Upper(a, b) == IF a > b THEN a ELSE b

(* Variant: the smaller right edge wins.                                   *)
GrowLeft(d, s) == [x1 |-> Lower(d.x1, s.x1), y1 |-> Lower(d.y1, s.y1),
                   x2 |-> IF d.x2 = 0 THEN s.x2 ELSE Lower(d.x2, s.x2),
                   y2 |-> Upper(d.y2, s.y2)]

(* The body of the merge loop.                                             *)
Grow(d, s) == [x1 |-> Lower(d.x1, s.x1), y1 |-> Lower(d.y1, s.y1),
               x2 |-> Upper(d.x2, s.x2), y2 |-> Upper(d.y2, s.y2)]

(* Variant: only the right and lower edges are looked at.                  *)
IllegalEdges(d) == d.x2 > Width \/ d.y2 > Height

Illegal(d) == \/ d.x2 > Width \/ d.y2 > Height
              \/ d.x1 >= d.x2 \/ d.y1 >= d.y2

(* Variant: the exclusive end is sent.                                     *)
ParamsExclusive(from, to) ==
    <<(from \div 256) % 256, from % 256, (to \div 256) % 256, to % 256>>

(* The parameter bytes of SET_COLUMN_ADDRESS and SET_PAGE_ADDRESS: the     *)
(* high byte of the end is taken before the end is made inclusive.         *)
Params(from, to) ==
    <<(from \div 256) % 256, from % 256, (to \div 256) % 256, (to - 1) % 256>>

(* The panel: big endian start and end, both inclusive.                    *)
Latched(p) == [from |-> p[1] * 256 + p[2], to |-> p[3] * 256 + p[4]]

ClipWidth(c) == c.x2 - c.x1
ClipHeight(c) == c.y2 - c.y1

(* Variant: the run starts at the top whatever the clip is.                *)
FlushStartTop(c) == 0

(* Variant: the run starts at the lower edge.                              *)
FlushStartLow(c) == c.y2 * ClipWidth(c)

(* The first pixel tinydrm_regmap_flush_rgb565() sends, as an index into   *)
(* the framebuffer (2 bytes a pixel for RGB565, 4 for XRGB8888).           *)
FlushStart(c) == c.y1 * ClipWidth(c)

(* num_pixels *)
FlushCount(c) == ClipWidth(c) * ClipHeight(c)

-----------------------------------------------------------------------------
NoRun == [from |-> "none", start |-> 0, count |-> 0]

NoWindow == [from |-> 0, to |-> 0]

Init ==
    /\ prepared = FALSE
    /\ enabled = FALSE
    /\ pc = "idle"
    /\ clips = << >> /\ num_clips = 0 /\ annotate = FALSE
    /\ i = 0
    /\ clip = Empty
    /\ win = [x |-> NoWindow, y |-> NoWindow]
    /\ lost = {}
    /\ sent = NoRun

(* Enabling and disabling the pipe, as far as a flush can tell: module     *)
(* MipiDbi has the detail.  Enabling may fail, and a panel with neither    *)
(* backlight nor regulator stays prepared.                                 *)
PipeEnable ==
    /\ pc = "idle"
    /\ ~prepared
    /\ prepared' = TRUE
    /\ UNCHANGED <<enabled, pc, input, i, clip, win, lost, sent>>

PipeDisable ==
    /\ pc = "idle"
    /\ enabled' = FALSE
    /\ prepared' \in {prepared, FALSE}
    /\ UNCHANGED <<pc, input, i, clip, win, lost, sent>>

(* Memory behind the last rectangle is read if copies are annotated and    *)
(* the rectangles do not come in pairs.                                    *)
Held(n, copies) == IF copies /\ n % 2 = 1 THEN n + 1 ELSE n

(* Variant: the first flush is not special.                                *)
ClipsUsed(n) == n

(* tinydrm_check_dirty(): everything is flushed the first time.            *)
CheckDirty(n) == IF enabled THEN n ELSE 0

(* An event for a display that is not prepared returns at once.            *)
FbDirty ==
    /\ pc = "idle"
    /\ prepared
    /\ \E n \in 0..MaxClips, copies \in BOOLEAN :
         /\ num_clips' = CheckDirty(n)
         /\ annotate' = copies
         /\ IF CheckDirty(n) = 0
            THEN /\ clips' = << >>
                 /\ clip' = Full
                 /\ pc' = "column"
            ELSE /\ clips' \in [1..Held(n, copies) -> Rects]
                 /\ clip' = Empty
                 /\ pc' = "merge"
    /\ i' = 0
    /\ lost' = {}
    /\ sent' = NoRun
    /\ UNCHANGED <<prepared, enabled, win>>

(* One turn of the loop in tinydrm_merge_clips(): of an annotated pair the *)
(* second rectangle, the destination, counts.                              *)
Merge ==
    /\ pc = "merge"
    /\ i < num_clips
    /\ LET j == IF annotate THEN i + 1 ELSE i IN
         /\ clip' = Grow(clip, clips[j + 1])
         /\ i' = j + 1
    /\ UNCHANGED <<prepared, enabled, pc, input, win, lost, sent>>

(* A bounding box outside the framebuffer, or an empty one, is replaced.   *)
Merged ==
    /\ pc = "merge"
    /\ i >= num_clips
    /\ clip' = IF Illegal(clip) THEN Full ELSE clip
    /\ pc' = "column"
    /\ UNCHANGED <<prepared, enabled, input, i, win, lost, sent>>

(* A window command: the four parameters go out in one transfer, which the *)
(* panel takes or not; whether it failed is not looked at.                 *)
SetColumnAddress ==
    /\ pc = "column"
    /\ LET new == Latched(Params(clip.x1, clip.x2)) IN
         \/ win' = [win EXCEPT !.x = new] /\ UNCHANGED lost
         \/ /\ win' \in {win, [win EXCEPT !.x = new]}
            /\ lost' = lost \cup {"x"}
    /\ pc' = "page"
    /\ UNCHANGED <<prepared, enabled, input, i, clip, sent>>

SetPageAddress ==
    /\ pc = "page"
    /\ LET new == Latched(Params(clip.y1, clip.y2)) IN
         \/ win' = [win EXCEPT !.y = new] /\ UNCHANGED lost
         \/ /\ win' \in {win, [win EXCEPT !.y = new]}
            /\ lost' = lost \cup {"y"}
    /\ pc' = "memory"
    /\ UNCHANGED <<prepared, enabled, input, i, clip, sent>>

(* spi_sync() replaces the framebuffer by the kernel's buffer, from its    *)
(* beginning, if there is one and the address is that of a framebuffer.    *)
WriteMemory ==
    /\ pc = "memory"
    /\ \E format \in {"RGB565", "XRGB8888"} :
         sent' = IF format = "RGB565" /\ KernelBuffer
                 THEN [from |-> "kernel", start |-> 0,
                       count |-> FlushCount(clip)]
                 ELSE [from |-> "fb", start |-> FlushStart(clip),
                       count |-> FlushCount(clip)]
    /\ pc' = "written"
    /\ UNCHANGED <<prepared, enabled, input, i, clip, win, lost>>

(* The format is not supported, memory is short or the transfer fails.     *)
WriteMemoryFails ==
    /\ pc = "memory"
    /\ pc' = "idle"
    /\ clips' = << >> /\ num_clips' = 0 /\ annotate' = FALSE
    /\ i' = 0
    /\ clip' = Empty
    /\ UNCHANGED <<prepared, enabled, win, lost, sent>>

(* The backlight comes on with the first frame.                            *)
Written ==
    /\ pc = "written"
    /\ enabled' = TRUE
    /\ pc' = "idle"
    /\ clips' = << >> /\ num_clips' = 0 /\ annotate' = FALSE
    /\ i' = 0
    /\ clip' = Empty
    /\ UNCHANGED <<prepared, win, lost, sent>>

Next ==
    \/ PipeEnable \/ PipeDisable
    \/ FbDirty \/ Merge \/ Merged
    \/ SetColumnAddress \/ SetPageAddress
    \/ WriteMemory \/ WriteMemoryFails \/ Written

Spec == Init /\ [][Next]_vars

-----------------------------------------------------------------------------
(* Properties                                                              *)

Pcs == {"idle", "merge", "column", "page", "memory", "written"}

Span == [from : U16, to : U16]

Past(pcs) == pc \in pcs

HasClip == Past({"column", "page", "memory", "written"})
HasWindow == Past({"memory", "written"})

(* Every variable keeps its type; the merge loop of tinydrm_merge_clips()  *)
(* stays within the rectangles of the event and the one behind them.       *)
TypeOK ==
    /\ prepared \in BOOLEAN
    /\ enabled \in BOOLEAN
    /\ pc \in Pcs
    /\ num_clips \in 0..MaxClips
    /\ annotate \in BOOLEAN
    /\ clips \in [1..Held(num_clips, annotate) -> Rects] \cup {<< >>}
    /\ i \in 0..Held(num_clips, annotate)
    /\ clip \in Rect
    /\ win \in [x : Span, y : Span]
    /\ lost \subseteq {"x", "y"}
    /\ sent \in [from : {"none", "fb", "kernel"}, start : Nat, count : Nat]

(* Whatever rectangles an event carries, also inverted, empty or oversized *)
(* ones and one picked up behind the last, the merged rectangle is a non-  *)
(* empty part of the framebuffer.                                          *)
ClipInside ==
    HasClip => /\ clip.x1 < clip.x2 /\ clip.x2 <= Width
               /\ clip.y1 < clip.y2 /\ clip.y2 <= Height

(* The rectangles that name changed pixels, as indices from 0.             *)
Damage == {j \in 0..(num_clips - 1) : annotate => j % 2 = 1}

Covers(d, s) == d.x1 <= s.x1 /\ s.x2 <= d.x2 /\ d.y1 <= s.y1 /\ s.y2 <= d.y2

(* tinydrm_merge_clips() loses no damage: a changed rectangle within the   *)
(* framebuffer is part of the merged one, whatever the others are.         *)
CoversDamage ==
    HasClip => \A j \in Damage : Covers(Full, clips[j + 1])
                                    => Covers(clip, clips[j + 1])

ColumnsAre(c) == win.x = [from |-> c.x1, to |-> c.x2 - 1]
RowsAre(c) == win.y = [from |-> c.y1, to |-> c.y2 - 1]
WindowIs(c) == ColumnsAre(c) /\ RowsAre(c)

(* Before the pixels are sent the panel's window is the merged rectangle   *)
(* on each axis whose command did not fail, unless the end of the          *)
(* rectangle on this axis is a multiple of 256: a window that a failing    *)
(* command of an earlier flush left behind is gone.                        *)
WindowExact ==
    HasWindow => /\ "x" \notin lost /\ clip.x2 % 256 # 0 => ColumnsAre(clip)
                 /\ "y" \notin lost /\ clip.y2 % 256 # 0 => RowsAre(clip)

(* The pixel run tinydrm_regmap_flush_rgb565() reads is inside the buffer. *)
ReadsInside == sent.start + sent.count <= Width * Height

(* Index of pixel (x, y) in the framebuffer, and of the one that a run     *)
(* from there puts on (x, y) of the panel when the window is c.            *)
PixelAt(x, y) == y * Width + x
PixelShownAt(c, x, y) == sent.start + (y - c.y1) * ClipWidth(c) + (x - c.x1)

(* Both are affine, so the corners decide.                                 *)
ShowsClip(c) ==
    \A x \in {c.x1, c.x2 - 1}, y \in {c.y1, c.y2 - 1} :
        PixelShownAt(c, x, y) = PixelAt(x, y)

(* A flush of full rows out of the framebuffer shows each pixel in its     *)
(* place if the window is that of the rectangle.                           *)
FullRowsExact ==
    pc = "written" /\ sent.from = "fb" /\ ClipWidth(clip) = Width
        => ShowsClip(clip)

(* The display counts as enabled, and its backlight comes on, only after   *)
(* the whole frame was sent, and into the whole window unless a window     *)
(* command of that very flush failed: mipi_dbi_fb_dirty() ignores this,    *)
(* but nothing that went wrong before it (events that failed, windows that *)
(* are stale, a disabled pipe in between) makes a difference.              *)
EnabledByFullFrame ==
    [][~enabled /\ enabled' => /\ sent.start = 0
                               /\ sent.count = Width * Height
                               /\ "x" \notin lost => ColumnsAre(Full)
                               /\ "y" \notin lost => RowsAre(Full)]_vars

(* The panel's window is the merged rectangle whenever pixels are sent and *)
(* no command failed.  Not so if an end is a multiple of 256: see Params.  *)
WindowIsClip == HasWindow /\ lost = {} => WindowIs(clip)

(* What is read from the framebuffer are the pixels of the merged          *)
(* rectangle.  Not so if it does not span whole rows: see FlushStart.      *)
FlushSendsClip == pc = "written" /\ sent.from = "fb" => ShowsClip(clip)
=============================================================================
