------------------------------ MODULE DbiSpi9 ------------------------------
(***************************************************************************)
(* The MIPI DBI type C option 1 bus of mipi-dbi.c: no D/C line, but 9-bit  *)
(* words whose first bit is D/C.  The SPI master of main() has no 9-bit    *)
(* words, so mipi_dbi_spi1e_transfer() packs 8 words into blocks of 9      *)
(* bytes.  The mi0283qt driver comes here if it has no D/C GPIO, which the *)
(* GPIO header of this build never says.                                   *)
(*                                                                         *)
(* A byte is represented by its index in the caller's buffer; bytes 2k and *)
(* 2k+1 are the low and the high byte of pixel k.                          *)
(***************************************************************************)
EXTENDS Integers, Sequences

CONSTANTS MaxDmaLen,      \* master->max_dma_len
          ChunkArg,       \* max_chunk as passed by the caller: 4096
          ParamLens,      \* lengths of parameter lists
          RamLens         \* lengths of pixel runs, in bytes

ASSUME LensAssumption ==
    /\ MaxDmaLen \in Nat /\ ChunkArg \in Nat \ {0}
    /\ ParamLens \subseteq Nat
    /\ RamLens \subseteq {n \in Nat : n % 2 = 0}

VARIABLES
    pc,         \* "idle", "command" or "value"
    op,         \* the current or last write
    off,        \* source bytes the loop is done with
    size,       \* length of the last SPI transfer, in bytes
    wire,       \* the 9-bit words of this write
    ret         \* the last result, 0 or a negative error

vars == <<pc, op, off, size, wire, ret>>

Writes == [reg : {"param"}, len : ParamLens] \cup [reg : {"ram"}, len : RamLens]

NoOp == [reg |-> "none", len |-> 0]

Least(a, b) == IF a < b THEN a ELSE b
Most(a, b) == IF a > b THEN a ELSE b

(* mipi_dbi_spi_clamp_size() *)
MaxChunk == 4 * (Least(Most(ChunkArg, 4), MaxDmaLen) \div 4)

(* Variant: the bytes the D/C bits take are forgotten.                     *)
MaxSrcChunkTight(n) == Most(8, 8 * (Least(MaxChunk, n) \div 8))

(* The most source bytes for one transfer: whole blocks, at least one.     *)
MaxSrcChunk(n) == Most(8, 8 * (Least(8 * (MaxChunk \div 9), n) \div 8))

-----------------------------------------------------------------------------
(* Words *)

NopWord == [dc |-> 0, b |-> -1]
CommandWord == [dc |-> 0, b |-> 0]
DataWord(b) == [dc |-> 1, b |-> b]

SwapByte(b) == IF b % 2 = 0 THEN b + 1 ELSE b - 1

(* Variant: the low byte of a pixel goes first.                            *)
WordsAsTheyAre(reg, from, n) == [k \in 1..n |-> DataWord(from + k - 1)]

(* The words of n bytes: parameters in order, pixels high byte first.      *)
Words(reg, from, n) ==
    [k \in 1..n |-> LET b == from + k - 1 IN
                    DataWord(IF reg = "ram" THEN SwapByte(b) ELSE b)]

Nops(n) == [k \in 1..n |-> NopWord]

(* The first n words of a command's block, padded at its beginning.        *)
CommandBlock(n) == [k \in 1..n |-> IF k = 8 THEN CommandWord ELSE NopWord]

(* How many bytes of a last piece of n < 8 bytes are packed: the loop over *)
(* pixels counts bytes in steps of two, but only to half their number.     *)
Packed(reg, n) == IF reg = "ram" THEN 2 * ((n \div 2 + 1) \div 2) ELSE n

(* Blocks for n >= 8 bytes, the last one begun if n is not a multiple of   *)
(* 8.  The transfer takes n bytes and one more for each block.             *)
Blocks(n) == (n + 7) \div 8

(* The complete words in n + Blocks(n) bytes.  The last block is cut off   *)
(* within a word, and what the packing read behind the value, up to the    *)
(* end of that block, is not in a complete word.                           *)
WholeWords(n) == (8 * (n + Blocks(n))) \div 9

-----------------------------------------------------------------------------
Init ==
    /\ pc = "idle"
    /\ op = NoOp
    /\ off = 0 /\ size = 0
    /\ wire = << >>
    /\ ret = 0

(* mipi_dbi_spi1_gather_write() *)
Write ==
    /\ pc = "idle"
    /\ op' \in Writes
    /\ off' = 0 /\ size' = 0
    /\ wire' = << >>
    /\ pc' = "command"
    /\ UNCHANGED ret

SendCommand ==
    /\ pc = "command"
    /\ MaxChunk >= 9
    /\ wire' = CommandBlock(8)
    /\ size' = 9
    /\ IF op.len = 0 THEN ret' = 0 /\ pc' = "idle"
       ELSE UNCHANGED ret /\ pc' = "value"
    /\ UNCHANGED <<op, off>>

(* The master's limit is too small, memory is short or the transfer breaks *)
(* off, anywhere.                                                          *)
SendCommandFails ==
    /\ pc = "command"
    /\ \E n \in 0..8 : wire' = CommandBlock(n)
    /\ ret' = -1
    /\ pc' = "idle"
    /\ UNCHANGED <<op, off, size>>

(* Variant: the last piece is as long as the others.                       *)
ChunkWhole == MaxSrcChunk(op.len)

(* The piece of the value at off.                                          *)
Chunk == Least(op.len - off, MaxSrcChunk(op.len))

Advance ==
    /\ off' = off + Chunk
    /\ IF off + Chunk = op.len THEN ret' = 0 /\ pc' = "idle"
       ELSE UNCHANGED <<ret, pc>>

SendBlocks ==
    /\ pc = "value"
    /\ Chunk >= 8
    /\ size' = Chunk + Blocks(Chunk)
    /\ wire' = wire \o Words(op.reg, off, WholeWords(Chunk))
    /\ Advance
    /\ UNCHANGED op

(* Variant: the padding is not sent.                                       *)
SendPartialShort ==
    /\ pc = "value"
    /\ Chunk < 8
    /\ size' = Chunk
    /\ wire' = wire \o Words(op.reg, off, Packed(op.reg, Chunk) - 1)
    /\ Advance
    /\ UNCHANGED op

(* The rest is padded at the end of the block.                             *)
SendPartial ==
    /\ pc = "value"
    /\ Chunk < 8
    /\ size' = 9
    /\ LET n == Packed(op.reg, Chunk) IN
         wire' = wire \o Words(op.reg, off, n) \o Nops(8 - n)
    /\ Advance
    /\ UNCHANGED op

(* No memory, or a transfer breaks off anywhere.                           *)
SendFails ==
    /\ pc = "value"
    /\ \E n \in 0..(IF Chunk < 8 THEN Packed(op.reg, Chunk)
                   ELSE WholeWords(Chunk)) :
          wire' = wire \o Words(op.reg, off, n)
    /\ ret' = -1
    /\ pc' = "idle"
    /\ UNCHANGED <<op, off, size>>

(* mipi_dbi_spi1_read(): not supported.                                    *)
Read ==
    /\ pc = "idle"
    /\ ret' = -1
    /\ UNCHANGED <<pc, op, off, size, wire>>

Next == Write \/ Read \/ SendCommand \/ SendCommandFails
            \/ SendBlocks \/ SendPartial \/ SendFails

Spec == Init /\ [][Next]_vars

-----------------------------------------------------------------------------
(* Properties                                                              *)

(* Every variable keeps its type; the loop ends at the end of the value.   *)
TypeOK ==
    /\ pc \in {"idle", "command", "value"}
    /\ op \in Writes \cup {NoOp}
    /\ off \in 0..op.len
    /\ pc = "value" => off < op.len
    /\ size \in Nat
    /\ wire \in Seq([dc : {0, 1}, b : Nat \cup {-1}])
    /\ ret \in {0, -1}

(* The words that are data.  No-ops do nothing.                            *)
DataAt == {k \in 1..Len(wire) : wire[k].dc = 1}

(* The panel sees one command, at the end of the first block, and behind   *)
(* it the bytes of its value: the first ones, in order and without a gap,  *)
(* pixels high byte first, wherever a transfer of                          *)
(* mipi_dbi_spi1e_transfer() breaks off.                                   *)
WordsInOrder ==
    /\ \A k \in 1..Len(wire) \ DataAt :
          wire[k] = IF k = 8 THEN CommandWord ELSE NopWord
    /\ \A k \in DataAt :
          /\ k > 8
          /\ wire[k].b = IF op.reg = "ram" THEN SwapByte(k - 9) ELSE k - 9
          /\ k > 9 => k - 1 \in DataAt

(* The last piece of a run of pixels, the one whose length the packing     *)
(* gets wrong.                                                             *)
LastPiece == IF op.len <= MaxSrcChunk(op.len) THEN op.len
             ELSE op.len % MaxSrcChunk(op.len)

(* A write that reports success has sent every byte, unless two or three   *)
(* pixels are left for the last block.                                     *)
Complete ==
    pc = "idle" /\ ret = 0 /\ ~(op.reg = "ram" /\ LastPiece \in {4, 6})
        => DataAt = 9..(8 + op.len)

(* No transfer is longer than the master allows.                           *)
FitsMaster == size <= MaxChunk

(* A write of pixels that reports success has sent all of them.  Not so:   *)
(* see Packed.                                                             *)
PixelsComplete ==
    pc = "idle" /\ ret = 0 /\ op.reg = "ram" => DataAt = 9..(8 + op.len)
=============================================================================
