------------------------------- MODULE DbiSpi -------------------------------
(***************************************************************************)
(* The transport below mipi_dbi_write() and mipi_dbi_display_is_on(): the  *)
(* register map, the MIPI DBI type C option 3 bus (8-bit SPI and a D/C     *)
(* line), the split into chunks of tinydrm_spi_transfer() and spi_sync()   *)
(* with the kernel's buffer and the transmit buffer behind it.             *)
(*                                                                         *)
(* A byte is represented by its index in the caller's buffer, so the panel *)
(* shows which bytes arrived and in which order.  The machine is little    *)
(* endian: byte 2k+1 of a pixel buffer is the high byte of pixel k.        *)
(***************************************************************************)
EXTENDS Regmap, Sequences

CONSTANTS Masters,        \* the SPI masters to drive: see Master
          FrameBytes,     \* bytes of a frame, the size of the transmit buffer
          BufChunk,       \* chunk of spi_buf_transfer()
          ParamLens,      \* lengths of parameter lists
          RamLens         \* lengths of pixel runs, in bytes

(* master->max_dma_len and whether bits_per_word_mask has 16, as main()    *)
(* sets them, and whether the kernel offers its buffer (udev->buf_fd).     *)
Master == [max_dma_len : Nat, bpw16 : BOOLEAN, buffer : BOOLEAN]

ASSUME SizesAssumption ==
    /\ Masters \subseteq Master
    /\ FrameBytes \in Nat
    /\ BufChunk \in Nat \ {0}
    /\ ParamLens \subseteq Nat
    /\ RamLens \subseteq {n \in Nat : n % 2 = 0}

(* Values fit into the transmit buffer, the frame is made of 32-bit words, *)
(* and a master that reads from the kernel's buffer takes a frame in one   *)
(* transfer, as with the max_dma_len of main().                            *)
ASSUME FrameAssumption ==
    /\ FrameBytes % 4 = 0
    /\ \A n \in ParamLens \cup RamLens : n <= FrameBytes
    /\ \A m \in Masters :
          m.bpw16 /\ m.buffer => m.max_dma_len >= FrameBytes

VARIABLES
    master,     \* the SPI master the daemon runs with
    map,        \* the register map, NoMap before mipi_dbi_spi_init()
    tx_buf,     \* the global: "null", "map" or "err" (an ERR_PTR)
    mspi,       \* mspi->tx_buf is set
    pc,         \* where the operation is, "idle" between two, "down" before
    op,         \* the current or last operation
    off,        \* bytes of the value tinydrm_spi_transfer() is done with
    boff,       \* bytes of the chunk spi_buf_transfer() is done with
    ret,        \* the last result, 0 or a negative error
    dc,         \* the D/C line, 1 for data
    dcBad,      \* a write to the D/C line failed in this operation
    panel       \* the last command the panel has seen, and its data: see Panel

value == <<off, boff>>
vars == <<master, map, tx_buf, mspi, pc, op, value, ret, dc, dcBad, panel>>

(* The value comes from a framebuffer the daemon has listed, or from       *)
(* memory it allocated: parameters, and pixels converted from XRGB8888.    *)
Writes == [reg : {"param"}, len : ParamLens, src : {"heap"}]
              \cup [reg : {"ram"}, len : RamLens, src : {"heap", "fb"}]

ReadOp == [reg |-> "read", len |-> 0, src |-> "heap"]

NoOp == [reg |-> "none", len |-> 0, src |-> "heap"]

(* The configuration and the bus default of mipi_dbi_spi_init().           *)
DriverConfig == [reg_bits |-> 8, pad_bits |-> 0, val_bits |-> 8]
ValEndianDefault == "DEFAULT"

NoMap == [reg_bytes |-> 0]

Least(a, b) == IF a < b THEN a ELSE b

(* tinydrm_spi_max_transfer_size(): a multiple of 4, at least 4.           *)
ChunkSize ==
    LET n == 4 * (master.max_dma_len \div 4) IN IF n < 4 THEN 4 ELSE n

(* tinydrm_spi_transfer() swaps the bytes of 16-bit words for a master     *)
(* that cannot.                                                            *)
Swap(o) == o.reg = "ram" /\ ~master.bpw16

(* spi_sync() sends the kernel's buffer if the address is in a framebuffer *)
(* and not in the swap buffer.                                             *)
UsesKernel(o) == o.src = "fb" /\ master.buffer /\ ~Swap(o)

SwapByte(b) == IF b % 2 = 0 THEN b + 1 ELSE b - 1

(* Variant: words go out as they are in memory.                            *)
BytesAsTheyAre(o, from, n) == [k \in 1..n |-> from + k - 1]

(* n bytes from position "from" as they go out: the words of the value     *)
(* themselves, low byte first, swapped by tinydrm_spi_transfer(), or       *)
(* swapped by the kernel in its buffer (UDRM_BUF_MODE_SWAP_BYTES).         *)
Bytes(o, from, n) ==
    [k \in 1..n |-> LET b == from + k - 1 IN
                    IF Swap(o) \/ UsesKernel(o) THEN SwapByte(b) ELSE b]

-----------------------------------------------------------------------------
(* The panel: a command, the data it has for it, and whether a command     *)
(* byte has come after them as data (D/C high).  What follows such a byte  *)
(* is out of place and not kept.  Data that comes as a command (D/C low)   *)
(* is a command nobody knows.                                              *)

Panel(cmd) == [cmd |-> cmd, data |-> << >>, stray |-> FALSE]

Spoiled(p) == p.cmd = "junk" \/ p.stray

TakeCommand(reg) ==
    IF dc = 0 THEN Panel(reg)
    ELSE [cmd |-> panel.cmd, data |-> panel.data, stray |-> TRUE]

TakeData(p, bytes) ==
    IF bytes = << >> \/ (dc = 1 /\ Spoiled(p)) THEN p
    ELSE IF dc = 0 THEN Panel("junk")
    ELSE [cmd |-> p.cmd, data |-> p.data \o bytes, stray |-> FALSE]

Init ==
    /\ master \in Masters
    /\ map = NoMap
    /\ tx_buf = "null"
    /\ mspi = FALSE
    /\ pc = "down"
    /\ op = NoOp
    /\ off = 0 /\ boff = 0
    /\ ret = 0
    /\ dc = 0
    /\ dcBad = FALSE
    /\ panel = Panel("none")

-----------------------------------------------------------------------------
(* mipi_dbi_spi_init()                                                     *)

SpiInit ==
    /\ pc = "down"
    /\ Accepted(DriverConfig)
    /\ \E endian \in GetEndian(ValEndianDefault) :
          map' = Map(DriverConfig, endian)
    /\ ret' = 0
    /\ pc' = "idle"
    /\ UNCHANGED <<master, tx_buf, mspi, op, value, dc, dcBad, panel>>

(* Out of memory for mspi, the map or its work buffer: the daemon leaves.  *)
SpiInitFails ==
    /\ pc = "down"
    /\ ret' = -1
    /\ UNCHANGED <<master, map, tx_buf, mspi, pc, op, value, dc, dcBad, panel>>

-----------------------------------------------------------------------------
(* regmap_raw_write()                                                      *)

(* A value of one byte is sent from the work buffer.                       *)
Write ==
    /\ pc = "idle"
    /\ \E o \in Writes :
          op' = IF Single(map, o.len) THEN [o EXCEPT !.src = "heap"] ELSE o
    /\ off' = 0 /\ boff' = 0
    /\ dcBad' = FALSE
    /\ pc' = "tx_buf"
    /\ UNCHANGED <<master, map, tx_buf, mspi, ret, dc, panel>>

(* mipi_dbi_write_buf(), or the flush, is out of memory.                   *)
WriteNoMemory ==
    /\ pc = "idle"
    /\ op' \in Writes
    /\ ret' = -1
    /\ UNCHANGED <<master, map, tx_buf, mspi, pc, value, dc, dcBad, panel>>

(* utinydrm_get_tx_buf() for the first write that gets here.  A buffer     *)
(* that cannot be created leaves an error pointer in tx_buf.               *)
GetTxBuf ==
    /\ pc = "tx_buf"
    /\ mspi \/ ChunkSize <= FrameBytes
    /\ mspi' = TRUE
    /\ tx_buf' = IF mspi THEN tx_buf ELSE "map"
    /\ pc' = "dc_low"
    /\ UNCHANGED <<master, map, op, value, ret, dc, dcBad, panel>>

(* Variant: the error pointer is handed on.                                *)
GetTxBufErrPtr ==
    /\ pc = "tx_buf"
    /\ ~mspi
    /\ tx_buf' = "err"
    /\ mspi' = TRUE
    /\ pc' = "dc_low"
    /\ UNCHANGED <<master, map, op, value, ret, dc, dcBad, panel>>

GetTxBufFails ==
    /\ pc = "tx_buf"
    /\ ~mspi
    /\ tx_buf' = IF ChunkSize > FrameBytes THEN tx_buf ELSE "err"
    /\ ret' = -1
    /\ pc' = "idle"
    /\ UNCHANGED <<master, map, mspi, op, value, dc, dcBad, panel>>

(* gpiod_set_value_cansleep(): a failure is printed only.                  *)
SetDc(level) ==
    \/ dc' = level /\ UNCHANGED dcBad
    \/ dc' = dc /\ dcBad' = TRUE

(* Variant: the line is taken to be low between two operations.            *)
DcLowAssumed ==
    /\ pc = "dc_low"
    /\ pc' = "command"
    /\ UNCHANGED <<master, map, tx_buf, mspi, op, value, ret, dc, dcBad, panel>>

DcLow ==
    /\ pc = "dc_low"
    /\ SetDc(0)
    /\ pc' = "command"
    /\ UNCHANGED <<master, map, tx_buf, mspi, op, value, ret, panel>>

SendCommand ==
    /\ pc = "command"
    /\ panel' = TakeCommand(op.reg)
    /\ IF op.len = 0 THEN ret' = 0 /\ pc' = "idle"
       ELSE UNCHANGED ret /\ pc' = "dc_high"
    /\ UNCHANGED <<master, map, tx_buf, mspi, op, value, dc, dcBad>>

(* Variant: a command that fails is sent again.                            *)
SendCommandRetry ==
    /\ pc = "command"
    /\ panel' \in {panel, TakeCommand(op.reg)}
    /\ pc' = "dc_low"
    /\ UNCHANGED <<master, map, tx_buf, mspi, op, value, ret, dc, dcBad>>

SendCommandFails ==
    /\ pc = "command"
    /\ panel' \in {panel, TakeCommand(op.reg)}
    /\ ret' = -1
    /\ pc' = "idle"
    /\ UNCHANGED <<master, map, tx_buf, mspi, op, value, dc, dcBad>>

DcHigh ==
    /\ pc = "dc_high"
    /\ SetDc(1)
    /\ pc' = "value"
    /\ UNCHANGED <<master, map, tx_buf, mspi, op, value, ret, panel>>

-----------------------------------------------------------------------------
(* tinydrm_spi_transfer() and spi_sync()                                   *)

(* The chunk at off.                                                       *)
Chunk == Least(op.len - off, ChunkSize)

(* The loop condition after a chunk.                                       *)
ChunkDone ==
    /\ off' = off + Chunk
    /\ IF off + Chunk = op.len THEN ret' = 0 /\ pc' = "idle"
       ELSE UNCHANGED ret /\ pc' = "value"

(* Variant: the length of the last chunk is that of the others.            *)
SendChunkWhole ==
    /\ pc = "value"
    /\ ~UsesKernel(op)
    /\ panel' = TakeData(panel, Bytes(op, off, ChunkSize))
    /\ ChunkDone
    /\ UNCHANGED <<master, map, tx_buf, mspi, op, boff, dc, dcBad>>

(* Out of the framebuffer, the swap buffer or the heap: one message.       *)
SendChunk ==
    /\ pc = "value"
    /\ ~UsesKernel(op)
    /\ panel' = TakeData(panel, Bytes(op, off, Chunk))
    /\ ChunkDone
    /\ UNCHANGED <<master, map, tx_buf, mspi, op, boff, dc, dcBad>>

(* A transfer may break off anywhere.                                      *)
SendChunkFails ==
    /\ pc = "value"
    /\ ~UsesKernel(op)
    /\ \E n \in 0..Chunk : panel' = TakeData(panel, Bytes(op, off, n))
    /\ ret' = -1
    /\ pc' = "idle"
    /\ UNCHANGED <<master, map, tx_buf, mspi, op, value, dc, dcBad>>

(* Out of the kernel's buffer: spi_buf_transfer() starts at its beginning  *)
(* for each chunk.                                                         *)
StartBuf ==
    /\ pc = "value"
    /\ UsesKernel(op)
    /\ boff' = 0
    /\ pc' = "buf"
    /\ UNCHANGED <<master, map, tx_buf, mspi, op, off, ret, dc, dcBad, panel>>

(* Variant: the offset does not advance with the length.                   *)
SendBufFromStart ==
    /\ pc = "buf"
    /\ LET n == Least(Chunk - boff, BufChunk) IN
         /\ panel' = TakeData(panel, Bytes(op, 0, n))
         /\ boff' = boff + n
         /\ IF boff + n = Chunk THEN ChunkDone ELSE UNCHANGED <<off, ret, pc>>
    /\ UNCHANGED <<master, map, tx_buf, mspi, op, dc, dcBad>>

SendBuf ==
    /\ pc = "buf"
    /\ LET n == Least(Chunk - boff, BufChunk) IN
         /\ panel' = TakeData(panel, Bytes(op, boff, n))
         /\ boff' = boff + n
         /\ IF boff + n = Chunk THEN ChunkDone ELSE UNCHANGED <<off, ret, pc>>
    /\ UNCHANGED <<master, map, tx_buf, mspi, op, dc, dcBad>>

SendBufFails ==
    /\ pc = "buf"
    /\ \E n \in 0..Least(Chunk - boff, BufChunk) :
          panel' = TakeData(panel, Bytes(op, boff, n))
    /\ ret' = -1
    /\ pc' = "idle"
    /\ UNCHANGED <<master, map, tx_buf, mspi, op, value, dc, dcBad>>

-----------------------------------------------------------------------------
(* regmap_raw_read(), mipi_dbi_spi3_read()                                 *)

Read ==
    /\ pc = "idle"
    /\ op' = ReadOp
    /\ off' = 0 /\ boff' = 0
    /\ \/ dc' = 0 /\ dcBad' = FALSE
       \/ dc' = dc /\ dcBad' = TRUE
    /\ pc' = "read"
    /\ UNCHANGED <<master, map, tx_buf, mspi, ret, panel>>

(* No memory for the answer: the D/C line is left alone.                   *)
ReadNoMemory ==
    /\ pc = "idle"
    /\ op' = ReadOp
    /\ ret' = -1
    /\ UNCHANGED <<master, map, tx_buf, mspi, pc, value, dc, dcBad, panel>>

(* spi_sync() looks whether the address is in the transmit buffer.         *)
ReadDone ==
    /\ pc = "read"
    /\ tx_buf # "err"
    /\ \/ panel' = TakeCommand(op.reg) /\ ret' = 0
       \/ panel' \in {panel, TakeCommand(op.reg)} /\ ret' = -1
    /\ pc' = "idle"
    /\ UNCHANGED <<master, map, tx_buf, mspi, op, value, dc, dcBad>>

(* An error pointer is followed like any other.                            *)
ReadCrashes ==
    /\ pc = "read"
    /\ tx_buf = "err"
    /\ pc' = "crashed"
    /\ UNCHANGED <<master, map, tx_buf, mspi, op, value, ret, dc, dcBad, panel>>

Crashed ==
    /\ pc = "crashed"
    /\ UNCHANGED vars

-----------------------------------------------------------------------------
Request == SpiInit \/ SpiInitFails
              \/ Write \/ WriteNoMemory \/ Read \/ ReadNoMemory

Step ==
    \/ GetTxBuf \/ GetTxBufFails
    \/ DcLow \/ SendCommand \/ SendCommandFails \/ DcHigh
    \/ SendChunk \/ SendChunkFails
    \/ StartBuf \/ SendBuf \/ SendBufFails
    \/ ReadDone \/ ReadCrashes

Next == Request \/ Step \/ Crashed

Spec == Init /\ [][Next]_vars

(* The daemon runs: an operation that can go on goes on.                   *)
FairSpec == Spec /\ WF_vars(Step)

-----------------------------------------------------------------------------
(* Properties                                                              *)

(* Every variable keeps its type; neither chunk loop runs past the end of  *)
(* the value.                                                              *)
TypeOK ==
    /\ master \in Masters
    /\ tx_buf \in {"null", "map", "err"}
    /\ mspi \in BOOLEAN
    /\ mspi => tx_buf = "map"
    /\ map = NoMap <=> pc = "down"
    /\ pc \in {"down", "idle", "tx_buf", "dc_low", "command", "dc_high",
               "value", "buf", "read", "crashed"}
    /\ op \in Writes \cup {ReadOp, NoOp}
    /\ off \in 0..op.len \/ pc = "idle"
    /\ pc = "buf" => boff < Chunk
    /\ ret \in {0, -1}
    /\ dc \in {0, 1}
    /\ dcBad \in BOOLEAN
    /\ panel.cmd \in {"none", "param", "ram", "read", "junk"}
    /\ Len(panel.data) \in 0..FrameBytes
    /\ panel.stray \in BOOLEAN

(* The bytes the panel has for a command, up to a stray command byte, are  *)
(* the first bytes of its value: parameters one by one, pixels word by     *)
(* word.  Transfers that break off in any chunk and operations in between  *)
(* included: nothing is repeated, skipped or taken from another value.     *)
InPlace ==
    \A k \in 1..Len(panel.data) :
        CASE panel.cmd = "param" -> panel.data[k] = k - 1
          [] panel.cmd = "ram" ->
                /\ panel.data[k] \div 2 = (k - 1) \div 2
                /\ k % 2 = 0 => panel.data[k] # panel.data[k - 1]
          [] OTHER -> FALSE

(* A write to the D/C line that fails spoils the operation under way and   *)
(* no later one: whatever an earlier operation left on the line and in the *)
(* panel, one whose own writes to the line went well has its command, and  *)
(* once it succeeds every byte of its value, taken for what they are.      *)
FaultIsLocal ==
    /\ pc \in {"dc_high", "value", "buf"} /\ ~dcBad
          => panel.cmd = op.reg /\ ~Spoiled(panel)
    /\ pc = "idle" /\ ret = 0 /\ op # NoOp /\ ~dcBad
          => /\ panel.cmd = op.reg /\ ~Spoiled(panel)
             /\ Len(panel.data) = op.len

(* Pixels that the kernel or tinydrm_spi_transfer() has swapped arrive     *)
(* high byte first, in every chunk and up to the one that fails.           *)
SwappedOrder ==
    (UsesKernel(op) \/ Swap(op)) /\ ~dcBad
        /\ (pc \in {"value", "buf"} \/ (pc = "idle" /\ ret = 0))
        => \A k \in 1..Len(panel.data) : panel.data[k] = SwapByte(k - 1)

(* Every operation returns, with a result or by a crash.                   *)
Returns == (pc \notin {"idle", "down"}) ~> (pc \in {"idle", "crashed"})

(* The work buffer that __regmap_init() allocates holds what the writes    *)
(* put there: the register, and a value of one byte behind it.             *)
WorkBufFits ==
    map # NoMap /\ op # NoOp => WorkUse(map, op.len) <= map.buf_size

Working == pc \notin {"down", "idle"}

Bus == INSTANCE BusService WITH
    Requests <- [reg : {"param", "ram", "read"}, len : Nat],
    NoReq <- NoOp,
    up <- map # NoMap,
    req <- IF Working THEN [reg |-> op.reg, len |-> op.len] ELSE NoOp,
    begun <- pc \in {"dc_high", "value", "buf"},
    panel <- IF Spoiled(panel) THEN [cmd |-> "junk", n |-> 0]
             ELSE [cmd |-> panel.cmd, n |-> Len(panel.data)],
    ok <- ret = 0,
    fault <- dcBad

(* The transport is the bus the pipe counts on: whatever fails and in      *)
(* which chunk, the panel sees the command and then a growing part of its  *)
(* value, during the request only, and success means all of it.            *)
ImplementsBus == Bus!Spec

(* Every pixel arrives high byte first, as the panel expects it.  Not so   *)
(* for pixels that spi_sync() sends from the heap or from a framebuffer:   *)
(* it sends words as bytes whatever bits_per_word says.                    *)
WordOrder ==
    pc = "idle" /\ ret = 0 /\ op.reg = "ram" /\ ~dcBad =>
        \A k \in 1..Len(panel.data) : panel.data[k] = SwapByte(k - 1)

(* Reading the power mode says whether the display is on, and false if it  *)
(* cannot be found out.  Not so after the transmit buffer could not be     *)
(* created: spi_sync() follows an error pointer.                           *)
ReadsSurvive == pc # "crashed"
=============================================================================
