# utinydrm in TLA+

utinydrm is a user space display driver: a daemon that talks to the kernel's
`udrm` driver through `/dev/udrm` and drives a Multi-Inno MI0283QT panel
(ILI9341 controller, 320x240) over spidev and sysfs GPIOs. Most of its code is
the kernel's tinydrm, compiled against headers that stand in for the kernel.
This directory models the daemon's logic, checks the models with TLC and proves
the main results with TLAPS.

## The system

| Part | Source | State | Operations |
|---|---|---|---|
| Event loop | `utinydrm.c` `main`, `utinydrm_event` | event buffer, `event_ret`, `pfd.revents` | read an event, handle it, write the result, poll |
| Framebuffer list | `utinydrm.c` `utinydrm_fb_*`, `drmP.h` | `udev->fbs` (newest first), mappings, dma-buf descriptors, `plane.state->fb` | create, destroy, dirty |
| Flush | `mipi-dbi.c` `mipi_dbi_fb_dirty`, `tinydrm-core.c`, `tinydrm-helpers.c`, `tinydrm-regmap.c` | `tdev->prepared`, `tdev->enabled`; the merged rectangle | check, merge the rectangles, set the window, send the pixels, light |
| Display pipe | `mi0283qt.c`, `mipi-dbi.c` | the two flags; panel registers, reset line and LED outside the process | probe, enable (with the "is on" shortcut), dirty, disable |
| Start | `utinydrm.c` `main`, `mi0283qt.c` `mi0283qt_probe`, `mipi-dbi.c` `mipi_dbi_init`, `tinydrm-core.c` | GPIOs, mode, descriptors, `dev->utinydrm`, driver data; the DRM device in the kernel | probe, rotate the mode, register, unregister |
| Register map | `regmap.h`, `mipi-dbi.c` `mipi_dbi_spi_init` | formats, work buffer | set up, place a single value |
| Bus, option 3 | `mipi-dbi.c` `mipi_dbi_spi3_*`, `tinydrm-regmap.c` `tinydrm_spi_transfer`, `spi.c`, `regmap.h`, `utinydrm.c` `utinydrm_get_tx_buf` | `tx_buf`, `mspi->tx_buf`, D/C line | write a register with its value, read a register |
| Bus, option 1 | `mipi-dbi.c` `mipi_dbi_spi1*` | none | pack 9-bit words into bytes |
| Format conversion, debugfs, dumps, headers | see PROJECT.json | | |

How they interact: the kernel posts one event at a time; `main` hands it to a
handler and writes the handler's result back. Creation and destruction work on
the list and on memory only. Enable, disable and dirty call the driver's pipe
functions, which send commands through the register map to the bus. `spi_sync`
closes the circle: it looks up the address of a transfer in the framebuffer
list to find the descriptor to transfer from, or replaces it by a buffer the
kernel keeps (`udev->buf_fd`), in which the bytes of each pixel are swapped
already.

What is hard about it:

- the process has one thread, but it shares state with the kernel and with
  hardware that outlives it. The device can disappear and the next event can
  arrive between any two steps of the loop, and the daemon can be killed
  between any two commands and started again on a panel in any state;
- the kernel may post events as soon as the device is created, some calls
  before the daemon has set what a transfer needs;
- every pipe event is answered with success, and a daemon that leaves turns
  nothing off: what an answer means, and what the next daemon finds lit,
  depends on the whole history;
- nearly every result of a GPIO write or a command is ignored;
- framebuffers come and go in any order, while mmap() and the kernel reuse
  addresses and ids;
- arithmetic on rectangles, chunks and blocks that is right for common values
  and wrong at some boundaries.

`PROJECT.json` lists these hazards at their lines, with the properties that
watch them.

## Modules

| Module | Models | Used by |
|---|---|---|
| `FbService` | what the kernel may rely on: one request, one truthful answer, how the set of known framebuffers changes | `Udrm` refines it |
| `Udrm` | event loop, handlers, framebuffer list; the kernel as the other actor | `MCUdrm`, `UdrmProofs` |
| `FbFlush` | the data of a flush: rectangles, window bytes, pixel run | `MCFbFlush`, `FbFlushProofs` |
| `MipiDbi` | probe, enable, dirty and disable, one step for each command or GPIO write; panel, LED, crashes | `Daemon`, `MipiDbiProofs` |
| `Start` | `main` up to its loop, the probe's other calls, registration, rotation of the mode | `Daemon` |
| `LightService` | what the kernel and the user may rely on about the light | `Daemon` refines it |
| `Daemon` | composition of `Start`, `MipiDbi` and the event channel | `MCDaemon`, `DaemonProofs`, `DaemonAnswerProofs` |
| `BusService` | what the pipe may rely on about its bus | `DbiSpi` refines it |
| `Regmap` | set-up of a register map and its work buffer, as operators on any configuration | `DbiSpi` |
| `DbiSpi` | set-up and use of the register map, bus with a D/C line, chunks, spidev | `MCDbiSpi`, `DbiSpiProofs`, `TransportProofs` |
| `DbiSpi9` | bus with 9-bit words | `MCDbiSpi9`, `DbiSpi9Proofs` |

`Daemon` composes: its steps are steps of `Start` and `MipiDbi`, some of both
at once. `Udrm`, `FbFlush` and the buses are specifications of their own, and
what one part takes from another is stated where it is used: `Udrm!PipeEvent`
and `Udrm!FbDirty` stand for the pipe; `Daemon` has the list's events as
"OTHER"; `FbFlush` sees enable and disable as two flags; `MipiDbi` sees a
rectangle as "full" or "part" and a write as delivered, lost or broken off,
which is `BusService` over lines that work, and `DbiSpi` implements
`BusService`.

A definition named as a *variant* in its comment is a plausible mistake in the
definition that follows. It is not part of any specification; replacing the
definition by it makes the property that PROJECT.json pairs it with fail, which
shows that the property depends on that piece of code.

### Udrm

The handlers are atomic, because nothing else in the process runs; `read`,
handler, `write` and `poll` are separate steps. `fbs` is the list as a sequence
with the head first, `mapped` the address ranges in use, `nfds` the number of
open dma-buf descriptors (none is ever closed, so they are 1..nfds). Each
system call of a handler may fail: `FbCreateNoBuffer` (calloc, GETFB, PRIME)
and `FbCreateNoMap` (mmap, after which the descriptor stays open); a failing
munmap() is a choice in `FbDestroy`. `Unlink` is the pointer manipulation of
the code, which takes out the predecessor too unless the entry is the head.

The kernel (`Post`, `HangUp`, `Settled`) is external. It creates an id that is
free, flushes and destroys what exists, and waits for the reply. When a
creation is refused the model lets it do both: forget the framebuffer, or go
on using it.

### FbFlush

The state is that of one call of `mipi_dbi_fb_dirty`, with one step per
turn of the merge loop, per window command and for the pixels. Coordinates are
16 bits wide as in `struct drm_clip_rect`; the window is translated to its
parameter bytes and back by the panel. A pixel run is its start and length in
the framebuffer. With an odd number of annotated rectangles the code reads the
one behind the last, which is an arbitrary member of `Rects` here.

`mipi_dbi_fb_dirty` does not look at the results of the two window commands.
One that fails leaves the panel with the old side of the window or with the new
one, the pixels follow and the display is enabled; `lost` holds the axes whose
command failed in this flush. `WindowExact` and `EnabledByFullFrame` speak of
each axis whose command went through, however the other one fared.

### MipiDbi

One step per bus write or GPIO write, so that `Exit` (kill, exit, failing
registration) can come between any two of them. Panel, reset line, LED and the
exported GPIOs survive it. `board` says which of backlight, regulator and reset
line exist: this build has backlight and reset, but `mipi-dbi.c` caters for all
combinations. A write that fails may have reached the panel or not; `lost` and
`ledLost` remember that one failed. Properties are conditional on them, because
the code ignores failures and promises nothing after one. `lost` is cleared by
a reset that reaches the panel, as everything is sent again after it.
`ProbeInterrupted` ends a start between the export of a GPIO and setting its
direction: the next start finds it exported, skips the direction, and its writes
to the line may all fail.

The panel's memory is "frame" after a whole frame in its window, "patched" once
a part of one has been sent over it, and "junk" otherwise. A part in its window
may leave "patched" although every command went well: the arithmetic of such
flushes is `FbFlush`, and its violated runs say when the pixels are wrong. So
the pipe promises a lit display a memory that a whole frame was sent to, and a
whole frame itself only until a part comes over it. Without a backlight
`mipi_dbi_blank` runs instead of the LED; `BlankNoMemory` is its return when
there is no memory for the black frame.

The bus lines are taken to work: a write that reports success has arrived. With
a stuck D/C line that is not so (`fault` in `BusService`), and the pipe promises
nothing.

### Start and Daemon

`Start` has one step per call of the start that can fail or that the kernel can
see. `Leave` is every way out of it and of the event loop: a step that fails,
an unregistration, a signal. It closes the descriptors, so the kernel's device
goes and the event in it with it, and leaves panel, LED and GPIOs as they are
(`drm_crtc_force_disable_all` is empty). `RotateMode` and `AddressMode` are
`tinydrm_rotate_mode` and the switch in `mi0283qt_enable`; the build always
reads rotation 0, the model any value, legal or not.

`Daemon` adds the channel (`Post` from the moment the device exists, `Read`,
`Reply`) and runs each pipe event through `MipiDbi` command by command: a step
is a conjunction of actions of `Start`, of `MipiDbi` and of the channel, so a
step that moves the pipe is one of `MipiDbi` by definition.
`Nothing` holds the early returns: an enable when prepared or when the regulator
fails, a flush when not prepared. `told` and `flushed` are history: what the
kernel was last answered, and whether the last flush since then was sent
completely. `lost` and `ledLost` of `MipiDbi` mark that a write failed.

`LightService` describes the same system by its light alone: on only by a flush
of an enabled pipe, off when a disable is answered or a daemon becomes ready,
unchanged when a daemon stops, and wrong only after an LED write that failed.

### Regmap

`__regmap_init` as operators on a configuration (`reg_bits`, `pad_bits`,
`val_bits`): which ones its switches accept, the size of the work buffer, and
whether values are parsed in place. No bus of the program names an endianness
and `regmap_get_*_endian` return a local variable that is not set then, so
`GetEndian` is any endianness. `WorkUse` is how far `_regmap_raw_write` writes
into the work buffer.

### DbiSpi

`SpiInit` creates the register map. A byte is its index in the value that is
written, so that the panel's record shows what arrived and in which order.
`Write` takes an operation through the transmit buffer, the D/C line, the
command byte, the D/C line and the chunks of the value; transfers break off
after any number of bytes. `Read` is the
power-mode read of `mipi_dbi_display_is_on`, with the two transfers of its one
message as one step.

A failing write to the D/C line leaves the line as it is and is ignored. A
command byte that goes out while the line is high is data to the panel: it
stays with the command before and keeps its bytes, and `stray` marks that
something foreign has come after them (bytes behind it are not recorded, which
keeps the record finite). Data that goes out while the line is low are commands
nobody knows, "junk".

For `BusService` a request is its command and length, the panel the number of
bytes it has; a stuck D/C line is a fault that may garble the request under way
and no other.

### DbiSpi9

`mipi_dbi_spi1e_transfer` with its three cases: the padded command, whole
blocks and the last, partial block. The wire is the sequence of complete 9-bit
words; `size` is the length of the last transfer. Transfers break off after any
number of words, the one of the command included. A last piece of more than 8
bytes that is not a multiple of 8 is packed as whole blocks: the code reads up
to 7 bytes behind the value and cuts the transfer off within the last word, but
no complete word comes of those bytes, so the panel does not see them.

## Runs

| Run | Result | Shows |
|---|---|---|
| `udrm_safety` | holds | `ListedMapped`, `ListedExists`, `Handshake`, `FlushOwn`: no stale or ambiguous entry whatever the history, truthful replies, a flush reads its own framebuffer |
| `udrm_live` | holds | `EventAnswered`, `HangUpExits`, and the daemon implements `FbService` with its fairness |
| `udrm_lost` | **violated** | `LiveListed`: destroying a framebuffer that is not the newest loses a live one |
| `flush` | holds | `ClipInside`, `CoversDamage`, `WindowExact`, `ReadsInside`, `FullRowsExact`, `EnabledByFullFrame`, with either window command failing or not |
| `flush_window` | **violated** | `WindowIsClip`: wrong end of the window if it is a multiple of 256 |
| `flush_part` | **violated** | `FlushSendsClip`: wrong pixels for rectangles narrower than the framebuffer, unless the kernel's buffer is used |
| `daemon` | holds | `LitShowsFrame`, `OnIsConfigured`, `PreparedIsUp`, `EnabledIsPrepared` of the pipe; `BusUsable`, `ModeFitsPanel` of the start; `DisabledIsDark`, `OnIsUp`, `FlushedIsShown` for what answers mean; `EventAnswered`; the daemon implements `LightService` (through failures, crashes and restarts) |
| `transport` | holds | `InPlace`, `FaultIsLocal`, `SwappedOrder`, `Returns` with the master `main` sets up and with others; `WorkBufFits` of the register map; the transport implements `BusService` |
| `transport_order` | **violated** | `WordOrder`: pixels that are not in the kernel's buffer go out low byte first |
| `transport_crash` | **violated** | `ReadsSurvive`: an error pointer is dereferenced after the transmit buffer could not be created |
| `transport9` | holds | `WordsInOrder`, `Complete`, `FitsMaster` |
| `transport9_pixels` | **violated** | `PixelsComplete`: a last piece of two or three pixels loses one |

Each violated run checks a statement of a comment in the source; PROJECT.json
quotes it. The passing runs state what the code does guarantee next to it:
`ListedMapped` and `ImplementsService` in spite of the lost entries (one other
framebuffer at most, nothing dangling), `WindowExact` for all other ends,
`FullRowsExact` for full rows, `Complete` for all other lengths.

### Bounds

- `udrm_safety`: 3 ids, 3 address ranges, 3 descriptors. Three entries are what
  it takes for an entry with two predecessors; with two entries one of which is
  lost, a third creation uses an id again while the range of its former owner
  is still mapped; and the limit of descriptors is met. Longer histories are
  covered by the proofs. Ids and ranges are only compared, so they are
  symmetric. `udrm_live` uses 2, 2 and 2
  and no symmetry, as it checks temporal properties.
- `flush`: the real size of the panel; events of up to 3 rectangles, annotated
  or not, drawn from 8 that cover the whole frame, full rows, an end at 256,
  the last corner, and illegal ones of each kind. Rectangles enter through
  minimum and maximum only, so three suffice for any pair of extremes and one
  illegal one between them.
- `daemon`: 2 configuration registers (a first and a last) and 4 boards: this
  one, one without a backlight (which is blanked instead), and one with a
  regulator with and without a backlight. Rotations 0, 90 and 45: a straight
  one, a quarter turn and an illegal one. Events, crashes and restarts are not
  bounded.
- `transport`: frames of 20 bytes in 5 pieces, as the code cuts 153600 bytes
  into 5 of 30720; parameter lists of 0, 1 and 4 bytes as the driver sends. The
  masters are the one of `main` with and without the kernel's buffer, ones with
  8-bit words only, ones that take 4 bytes at a time, and one whose transfers
  exceed the transmit buffer. Short transfers together with 16-bit words and
  the kernel's buffer are left out, by `FrameAssumption`: `spi_buf_transfer`
  would then send the beginning of the buffer for each chunk, which
  `max_dma_len` in `main` rules out.
  The register map is that of the driver; other configurations are the
  theorem's.
- `transport9`: a master that takes 3 blocks; every even length of pixels to
  60 bytes, parameter lists with every remainder.

`CHECK_DEADLOCK` is never switched off: the models end only in
`Udrm!Terminated` and `DbiSpi!Crashed`, which stutter.

### Fairness

The daemon is a single runnable process with no locks, so a step that it can
take it takes: weak fairness of `Udrm!Daemon`, of `DbiSpi!Step` within an
operation, and of a started daemon's own steps in `Daemon` (the rest of the
start and the event loop; nobody has to start it, and an exit or a kill is never
forced). Nothing is assumed of the kernel: it may never post an event and
never hang up. `PollFails` is not fair, a failing poll() need not happen; if it
fails forever the daemon merely goes back to read().

## Proofs

| Module | Theorems | Constants |
|---|---|---|
| `UdrmProofs` | `TypeCorrect`, `ListIsMapped`, `ListHasNoLeftovers`, `HandshakeHolds`, `FlushReadsOwn`, `Refinement` | any ids, address ranges and descriptor limit |
| `FbFlushProofs` | `TypeCorrect`, `ClipIsInside`, `NoDamageLost`, `WindowIsExact`, `ReadIsInside`, `FullRowsAreExact`, `EnabledAfterFullFrame` | any framebuffer size below 2^29 pixels whose sides are no multiples of 256, any rectangles |
| `MipiDbiProofs` | `TypeCorrect`, `LightShowsFrame`, `SkippedSetupIsDone`, `PreparedIsTrue`, `FlagsAgree` | any number of configuration registers, any boards |
| `DaemonProofs` | `DaemonTypeCorrect`, `BusIsUsable`, `ModeIsThePanels` | the same, and any rotations |
| `DaemonAnswerProofs` | `EnabledIsShown`, `DaemonKeepsPipe`, `DisabledStaysDark`, `AnsweredIsUp`, `FlushIsShown`, `LightRefinement`, `AnswersComeNearer` | the same |
| `DbiSpiProofs` | `WorkBufferHolds` for any configuration; `WorkBufIsKept` | any masters, chunks and lengths |
| `TransportProofs` | `TransportTypeCorrect`, `BytesStayInPlace`, `FaultStaysLocal`, `SwappedArriveInOrder`, `SuccessIsComplete`, `BusRefinement`, `OperationsEnd` | any masters, chunks and lengths |
| `DbiSpi9Proofs` | `PackTypeCorrect`, `TransfersFit`, `WordsStayInOrder`, `SuccessIsComplete`, `WritesEnd` | any limit of the master, any lengths |

Assumptions: `FdLimitAssumption` and `NoneAssumption` (None is neither an id
nor an event); `SizeAssumption`, `ClipsAssumption` and `BufferAssumption`;
`NConfigAssumption` and `BoardsAssumption`; `RotationsAssumption` and
`NoEventAssumption` (NoEvent is no event); `SizesAssumption` and
`FrameAssumption` (values fit into a frame, and a master that reads from the
kernel's buffer takes a frame in one transfer, as `main` sees to with
`max_dma_len`); `LensAssumption` (pixels have two bytes). TLC evaluates each of
them in the runs. A side of the framebuffer that is a multiple of 256 is excluded because
then the window of the whole frame itself is wrong, and the panel of this
driver has none.

Udrm. The inductive invariant is `TypeOK /\ ListedMapped /\ ListedExists /\
Handshake`; none of the parts is inductive alone. That a creation cannot put an
id into the list twice needs `ListedExists` (entries are live or about to go),
which needs `Handshake` (the id being created is "creating", hence not listed).
That entries stay mapped when one is unmapped needs that no two share a range.
The lemmas `UnlinkFacts`, `PrependFacts`, `FindIdFacts` and `FindAddressFacts`
say what the list operations return; the first names for each position of the
result the position it came from (`Origin`), which is all that the invariant
needs to know of the pointer manipulation. `Refinement` shows `Spec =>
Service!Spec` step by step from the same invariant: read, poll and hang-up
leave the service alone, a handler is `Serve`, a reply is `Answer`.

FbFlush. The invariant adds to the properties what the merge loop has seen so
far (all damage before `i` is covered, unless the result will be illegal) and,
for each axis, that the window is what the command latches once it has been
sent and did not fail (`WindowLatched`). `EnabledAfterFullFrame` rests on the
full run, which does not depend on the window, and on `WindowLatched` per axis:
a side that is wrong was lost in this very flush, since a stale window cannot
survive a command that went through. `LatchedFacts` is the
arithmetic of the parameter bytes, for both cases of the end modulo 256, from
lemmas on division by 256; `RunInside` bounds the pixel run.

MipiDbi. `Progress` says what the daemon knows at each step: a panel held in
reset is in its reset state; until the reset line is first exported the LED is
off; while it configures, the registers before `step` hold their values and the
display is off, which is why `OnIsConfigured` survives a kill at any point;
where the flags are set; and that a flush of a display that is not enabled is
for the whole frame, in a window that was set for it unless a command was lost.
With `Progress` the four
properties become inductive. There is one lemma per group of actions
(`StartKeeps`, `EnableKeeps` and so on) with a step per action.

Daemon. The lemma `DaemonIsPipe` carries the theorems of `MipiDbiProofs` over
to the composition. `BusUsable` needs
`RegInv`: descriptors, `dev->utinydrm` and driver data as they are at each step
of the start, and that the pipe is idle until the start is over.
`ModeFitsPanel` needs `ModeInv`: the mode follows a legal rotation from
`PipeInit` on, and the device does not exist before. `DaemonTypeOK` says also
that `main` is in a handler exactly while the pipe is at work, which rests on
`PipeStays`: a pipe step ends in another pipe step or in idle.

What the answers mean needs `AnswerInv` on top of the invariant of the pipe:
at each place of `main`, which pipe function runs for which event
(`PlaceInv`); that a daemon which is not ready has told nothing and has clear
flags (`Fresh`); that with a backlight a display the kernel has disabled is
neither enabled nor prepared up to the end of the next enable (`OffIsOff`), so
that `tinydrm_check_dirty` turns a late flush away; that the kernel is told "on"
only of a prepared display (`OnIsPrepared`); and that the pixels that were sent
belong to an enabled display (`FlushedEnabled`). `EnabledIsShown` is proved of
the pipe alone: light comes after a whole frame, and nothing but a write that
goes wrong takes either away. `LastFull` adds that after a flush of the whole
frame the memory is that frame and not a patched one. `FlushedIsShown` is their
conjunction.
`LightRefinement` maps the start to LightService's, a handler to its request,
the LED writes of the probe, `Disable` and `EnableBacklight` to `Switch`, and
every other step to none; that `EnableBacklight` switches an enabled pipe only is
`OffIsOff`.

`AnswersComeNearer` gives each place of `main` and of the pipe functions the
most steps that are left to the answer (`EventLeft`), and shows that it falls
with every step while an event is outstanding, also one that the kernel posts
before the start is over. With the fairness of `DaemonFairSpec` that is
`EventAnswered`, for any number of registers; the step from one to the other
needs ENABLED and stays with TLC.

DbiSpi. `WorkBufferHolds` is arithmetic on rounded bits for every configuration
the switches accept. `MapInv` (the map is none, or what the driver's
configuration gives, whichever endianness is read: the lemma
`EndianHasNoEffect`) carries it to the runs of the transport.

For the transfers `DbiInv` adds what was sent: `OpInv` says how far the loops
have come, `SendInv` that the panel holds exactly that many bytes of this
operation or was spoiled, `LineInv` that it was spoiled only after a write to
the D/C line failed in this operation, `PanelInv` that it holds the beginning
of some value otherwise, and `DoneInv` that an operation which succeeded is
complete. `FaultIsLocal` follows from the last three: each operation sets the
line low before its command, so what an earlier one left on it does not matter
unless that write fails too. The step is
the same for all ways to send: `TakeMore` says that a panel which holds m bytes
and takes n more, from position m, holds m + n. `ChunkFacts` is the arithmetic
of `tinydrm_spi_max_transfer_size`; it is where `FrameAssumption` is needed,
because a second chunk from the kernel's buffer would start at its beginning
again. `BusRefinement` maps a transfer to `Transfer` or, if it is the last, to
`Succeed`, every error return to `Fail`, and the D/C line to `Fault` or to
none. `OperationsEnd` counts the steps that are left, as above.

DbiSpi9. `Form` describes the wire after d bytes word by word: no-ops up to the
command in the 8th word, then the bytes, then no-ops. `LoopInv` says that at
the top of the loop the wire has that form for `off` bytes and that `off` is a
multiple of the piece, which makes the last piece the remainder that `Complete`
speaks of. `BlockFacts` shows that a piece of n bytes, cut off as it is, has
exactly n complete words; `SrcChunkFacts` that a piece with its D/C bits fits
the master; `PackedFacts` what the packing of the last block keeps.

Only model checked: `EventAnswered` (of `Udrm` and of `Daemon`), `HangUpExits`,
`Returns` and the fairness in `ImplementsService`, whose safety part is
`Refinement`. They are liveness under weak fairness, which needs ENABLED. All
other properties of the passing runs are theorems.

## Not modelled

- Conversion of pixel formats: `tinydrm_xrgb8888_to_rgb565` masks and shifts one
  pixel, and any statement about it would repeat it. The daemon offers the
  kernel RGB565 only.
- Masters with native 9-bit words: `main` announces 8 and 16 bits.
- Debugfs (not compiled), hex dumps and logging, suspend and resume (empty).
- The copied kernel headers. The lists of `list.h` that the program uses hold
  one or two transfers within one function.
- The kernel driver behind `/dev/udrm` is not in the repository: what read()
  returns other than a whole event or an error, how many rectangles an event
  may hold, and whether the kernel gives up on a slow reply, is open.
- Timing: the steps are in the order of the code, and the delays after reset and
  wake-up are taken to suffice.

## Plan

1. Done: all modules above; every invariant and every refinement that the
   passing runs check is proved, the refinement of `FbService` without its
   fairness.
2. Open: a bound on the steps of `Udrm` like the ones of `Daemon` and `DbiSpi`;
   what the code guarantees next to the violated runs as theorems of its own
   (which framebuffer `Unlink` loses, for which lengths `WordOrder` holds); how
   many rectangles fit into the 1024 bytes that `read` fills, once the layout of
   the event, in a header of the kernel driver, is at hand.
