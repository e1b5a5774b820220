--------------------------- MODULE DbiSpi9Proofs ---------------------------
(***************************************************************************)
(* Proofs about the packing of 9-bit words in module DbiSpi9, for every    *)
(* master and every length of a value.                                     *)
(***************************************************************************)
EXTENDS DbiSpi9, TLAPS, SequenceTheorems

Word == [dc : {0, 1}, b : Nat \cup {-1}]

(* The byte that goes out at place b of a value.                           *)
ByteOf(reg, b) == IF reg = "ram" THEN SwapByte(b) ELSE b

(* The word at place k of a write that has sent d bytes of the value.      *)
WireWord(reg, d, k) ==
    IF k = 8 THEN CommandWord
    ELSE IF k \in 9..(8 + d) THEN DataWord(ByteOf(reg, k - 9))
    ELSE NopWord

(* n words with d bytes of the value.                                      *)
Form(w, reg, d, n) ==
    /\ w \in Seq(Word)
    /\ Len(w) = n
    /\ \A k \in 1..n : w[k] = WireWord(reg, d, k)

Typed ==
    /\ pc \in {"idle", "command", "value"}
    /\ op \in Writes \cup {NoOp}
    /\ off \in Nat /\ off <= op.len
    /\ size \in Nat /\ size <= MaxChunk
    /\ ret \in {0, -1}

(* The loop is at the beginning of a piece, and everything in front of it  *)
(* has been sent.                                                          *)
LoopInv ==
    /\ pc = "command" => op \in Writes /\ off = 0
    /\ pc = "value" =>
          /\ op \in Writes
          /\ off < op.len
          /\ off % 2 = 0
          /\ \E t \in Nat : off = t * MaxSrcChunk(op.len)
          /\ MaxChunk >= 9
          /\ Form(wire, op.reg, off, 8 + off)

(* Whatever broke off, the wire has a beginning of the write.              *)
WireInv ==
    \E d \in Nat, n \in Nat :
        (d > 0 => 8 + d <= n) /\ Form(wire, op.reg, d, n)

(* Success means all of it, but for the rests that are packed short.       *)
DoneInv ==
    pc = "idle" /\ ret = 0 /\ ~(op.reg = "ram" /\ LastPiece \in {4, 6})
        => IF op = NoOp THEN wire = << >>
           ELSE \E n \in Nat : 8 + op.len <= n /\ Form(wire, op.reg, op.len, n)

PackInv == Typed /\ LoopInv /\ WireInv /\ DoneInv

-----------------------------------------------------------------------------
(* Arithmetic of the blocks                                                *)

LEMMA OpsType ==
    /\ \A o \in Writes \cup {NoOp} : o.len \in Nat
    /\ \A o \in Writes : o.reg = "ram" => o.len % 2 = 0
    /\ \A o \in Writes : o.reg \in {"param", "ram"}
<1>1. ASSUME NEW o \in Writes
      PROVE  /\ o.len \in Nat /\ o.reg \in {"param", "ram"}
             /\ o.reg = "ram" => o.len % 2 = 0
  <2>1. CASE o \in [reg : {"param"}, len : ParamLens]
    BY <2>1, LensAssumption
  <2>2. CASE o \in [reg : {"ram"}, len : RamLens]
    BY <2>2, LensAssumption
  <2>3. QED BY <2>1, <2>2 DEF Writes
<1>2. NoOp.len \in Nat
  BY DEF NoOp
<1>3. QED BY <1>1, <1>2

LEMMA MaxChunkType == MaxChunk \in Nat
<1>1. PICK n \in Nat : n = Least(Most(ChunkArg, 4), MaxDmaLen)
  BY LensAssumption DEF Least, Most
<1>2. n \div 4 \in Nat
  OBVIOUS
<1>3. QED BY <1>1, <1>2 DEF MaxChunk

(* A transfer's worth of source bytes is made of whole blocks, which the   *)
(* master takes.                                                           *)
LEMMA SrcChunkFacts ==
    ASSUME NEW n \in Nat, MaxChunk >= 9
    PROVE  \E j \in Nat \ {0} : MaxSrcChunk(n) = 8 * j /\ 9 * j <= MaxChunk
<1>1. PICK g \in Nat : g = MaxChunk \div 9
  BY MaxChunkType
<1>2. g >= 1 /\ 9 * g <= MaxChunk
  BY <1>1, MaxChunkType
<1>3. PICK l \in Nat : l = Least(8 * g, n) /\ l <= 8 * g
  BY DEF Least
<1>4. PICK i \in Nat : i = l \div 8 /\ i <= g
  BY <1>3
<1>5. MaxSrcChunk(n) = Most(8, 8 * i)
  BY <1>1, <1>3, <1>4 DEF MaxSrcChunk
<1>6. CASE i = 0
  <2>1. MaxSrcChunk(n) = 8 * 1 /\ 9 * 1 <= MaxChunk
    BY <1>2, <1>5, <1>6, MaxChunkType DEF Most
  <2>2. QED BY <2>1
<1>7. CASE i > 0
  <2>1. MaxSrcChunk(n) = 8 * i /\ 9 * i <= MaxChunk
    BY <1>2, <1>4, <1>5, <1>7, MaxChunkType DEF Most
  <2>2. QED BY <1>7, <2>1
<1>8. QED BY <1>6, <1>7

(* The blocks of a piece hold its bytes, all of them and no others.        *)
LEMMA BlockFacts ==
    ASSUME NEW c \in Nat
    PROVE  /\ Blocks(c) \in Nat
           /\ WholeWords(c) = c
           /\ \A j \in Nat : c <= 8 * j => c + Blocks(c) <= 9 * j
<1>1. PICK q \in Nat, r \in 0..7 : c = (8 * q) + r
  <2>1. c = 8 * (c \div 8) + (c % 8) /\ c \div 8 \in Nat /\ c % 8 \in 0..7
    OBVIOUS
  <2>2. QED BY <2>1
<1>2. Blocks(c) = IF r = 0 THEN q ELSE q + 1
  BY <1>1 DEF Blocks
<1>3. CASE r = 0
  <2>1. 8 * (c + Blocks(c)) = 9 * (8 * q)
    BY <1>1, <1>2, <1>3
  <2>2. (9 * (8 * q)) \div 9 = 8 * q
    OBVIOUS
  <2>3. WholeWords(c) = c
    BY <1>1, <1>3, <2>1, <2>2 DEF WholeWords
  <2>4. QED BY <1>1, <1>2, <1>3, <2>3
<1>4. CASE r # 0
  <2>1. 8 * (c + Blocks(c)) = 9 * (8 * q + r) + (8 - r)
    BY <1>1, <1>2, <1>4
  <2>2. (9 * (8 * q + r) + (8 - r)) \div 9 = 8 * q + r
    BY <1>4
  <2>3. WholeWords(c) = c
    BY <1>1, <2>1, <2>2 DEF WholeWords
  <2>4. QED BY <1>1, <1>2, <1>4, <2>3
<1>5. QED BY <1>3, <1>4

(* What is packed of a last piece.                                         *)
LEMMA PackedFacts ==
    ASSUME NEW c \in 1..7, NEW reg
    PROVE  /\ Packed(reg, c) \in 0..c
           /\ reg # "ram" \/ c = 2 => Packed(reg, c) = c
BY DEF Packed

(* The remainder of a loop that advances by m.                             *)
LEMMA RemainderOfLoop ==
    ASSUME NEW m \in Nat \ {0}, NEW t \in Nat, NEW c \in Nat, c < m
    PROVE  (t * m + c) % m = c
<1>1. PICK x \in Nat : x = t * m + c
  OBVIOUS
<1>2. PICK r \in 0..(m - 1) : r = x % m
  OBVIOUS
<1>3. PICK q \in Nat : q = x \div m
  OBVIOUS
<1>4. x = m * q + r
  <2>1. x = m * (x \div m) + (x % m)
    OBVIOUS
  <2>2. QED BY <1>2, <1>3, <2>1
<1>5. m * q + r = t * m + c
  BY <1>1, <1>4
<1>6. CASE q > t
  <2>1. PICK u \in Nat \ {0} : q = t + u
    <3>1. q - t \in Nat \ {0} /\ q = t + (q - t)
      BY <1>6
    <3>2. QED BY <3>1
  <2>2. m * q = t * m + m * u
    BY <2>1
  <2>3. m * u >= m
    OBVIOUS
  <2>4. m * u \in Nat /\ m * q \in Nat /\ t * m \in Nat
    OBVIOUS
  <2>5. QED BY <1>5, <2>2, <2>3, <2>4
<1>7. CASE q < t
  <2>1. PICK u \in Nat \ {0} : t = q + u
    <3>1. t - q \in Nat \ {0} /\ t = q + (t - q)
      BY <1>7
    <3>2. QED BY <3>1
  <2>2. t * m = m * q + m * u
    BY <2>1
  <2>3. m * u >= m
    OBVIOUS
  <2>4. m * u \in Nat /\ m * q \in Nat /\ t * m \in Nat
    OBVIOUS
  <2>5. QED BY <1>5, <2>2, <2>3, <2>4
<1>8. CASE q = t
  <2>1. m * q = t * m /\ t * m \in Nat
    BY <1>8
  <2>2. QED BY <1>1, <1>2, <1>5, <2>1
<1>9. QED BY <1>6, <1>7, <1>8

-----------------------------------------------------------------------------
(* Words on the wire                                                       *)

LEMMA ByteOfType == ASSUME NEW b \in Nat, NEW reg PROVE ByteOf(reg, b) \in Nat
BY DEF ByteOf, SwapByte

LEMMA WireWordType ==
    ASSUME NEW reg, NEW d \in Nat, NEW k \in Nat
    PROVE  WireWord(reg, d, k) \in Word
<1>1. CASE k \in 9..(8 + d)
  <2>1. k - 9 \in Nat /\ k # 8
    BY <1>1
  <2>2. ByteOf(reg, k - 9) \in Nat
    BY <2>1, ByteOfType
  <2>3. WireWord(reg, d, k) = DataWord(ByteOf(reg, k - 9))
    BY <1>1, <2>1 DEF WireWord
  <2>4. QED BY <2>2, <2>3 DEF DataWord, Word
<1>2. CASE k \notin 9..(8 + d)
  BY <1>2 DEF WireWord, CommandWord, NopWord, Word
<1>3. QED BY <1>1, <1>2

(* Words that belong behind n others extend them.                          *)
LEMMA FormAppend ==
    ASSUME NEW reg, NEW d \in Nat, NEW e \in Nat, NEW n \in Nat, NEW i \in Nat,
           NEW w, Form(w, reg, d, n),
           NEW v, DOMAIN v = 1..i, v = [k \in 1..i |-> v[k]],
           \A k \in 1..n : WireWord(reg, e, k) = WireWord(reg, d, k),
           \A k \in 1..i : v[k] = WireWord(reg, e, n + k)
    PROVE  Form(w \o v, reg, e, n + i)
<1>1. w \in Seq(Word) /\ Len(w) = n
  BY DEF Form
<1>2. v \in Seq(Word) /\ Len(v) = i
  <2>1. ASSUME NEW k \in 1..i PROVE v[k] \in Word
    <3>1. n + k \in Nat
      OBVIOUS
    <3>2. QED BY <3>1, WireWordType
  <2>2. v \in [1..i -> Word]
    BY <2>1
  <2>3. v \in Seq(Word)
    BY <2>2, SeqDef
  <2>4. QED BY <2>3, LenProperties
<1>3. w \o v \in Seq(Word) /\ Len(w \o v) = n + i
  BY <1>1, <1>2
<1>4. ASSUME NEW k \in 1..(n + i)
      PROVE  (w \o v)[k] = WireWord(reg, e, k)
  <2>1. CASE k <= n
    <3>1. k \in 1..n
      BY <2>1
    <3>2. (w \o v)[k] = w[k]
      BY <1>1, <1>2, <3>1
    <3>3. w[k] = WireWord(reg, d, k)
      BY <3>1 DEF Form
    <3>4. QED BY <3>1, <3>2, <3>3
  <2>2. CASE k > n
    <3>1. PICK j \in 1..i : k - n = j /\ n + j = k
      BY <2>2
    <3>2. (w \o v)[k] = v[j]
      BY <1>1, <1>2, <2>2, <3>1
    <3>3. v[j] = WireWord(reg, e, n + j)
      OBVIOUS
    <3>4. QED BY <3>1, <3>2, <3>3, Zenon
  <2>3. k <= n \/ k > n
    OBVIOUS
  <2>4. QED BY <2>1, <2>2, <2>3, Zenon
<1>5. QED BY <1>3, <1>4 DEF Form

(* i more bytes of the value.                                              *)
LEMMA FormMore ==
    ASSUME NEW reg, NEW d \in Nat, NEW i \in Nat,
           NEW w, Form(w, reg, d, 8 + d)
    PROVE  Form(w \o Words(reg, d, i), reg, d + i, 8 + (d + i))
<1>1. PICK v : v = Words(reg, d, i)
  OBVIOUS
<1>2. DOMAIN v = 1..i /\ v = [k \in 1..i |-> v[k]]
  BY <1>1 DEF Words
<1>3. ASSUME NEW k \in 1..i
      PROVE  v[k] = WireWord(reg, d + i, (8 + d) + k)
  <2>1. v[k] = DataWord(ByteOf(reg, d + k - 1))
    BY <1>1 DEF Words, ByteOf
  <2>2. /\ (8 + d) + k \in 9..(8 + (d + i))
        /\ (8 + d) + k # 8
        /\ ((8 + d) + k) - 9 = d + k - 1
    OBVIOUS
  <2>3. WireWord(reg, d + i, (8 + d) + k)
           = DataWord(ByteOf(reg, ((8 + d) + k) - 9))
    BY <2>2 DEF WireWord
  <2>4. QED BY <2>1, <2>2, <2>3
<1>4. ASSUME NEW k \in 1..(8 + d)
      PROVE  WireWord(reg, d + i, k) = WireWord(reg, d, k)
  BY DEF WireWord
<1>5. d + i \in Nat /\ 8 + d \in Nat /\ (8 + d) + i = 8 + (d + i)
  OBVIOUS
<1>6. Form(w \o v, reg, d + i, (8 + d) + i)
  BY <1>2, <1>3, <1>4, <1>5, FormAppend
<1>7. QED BY <1>1, <1>5, <1>6

(* i no-ops.                                                               *)
LEMMA FormNops ==
    ASSUME NEW reg, NEW d \in Nat, NEW i \in Nat,
           NEW w, Form(w, reg, d, 8 + d)
    PROVE  Form(w \o Nops(i), reg, d, (8 + d) + i)
<1>1. PICK v : v = Nops(i)
  OBVIOUS
<1>2. DOMAIN v = 1..i /\ v = [k \in 1..i |-> v[k]]
  BY <1>1 DEF Nops
<1>3. ASSUME NEW k \in 1..i
      PROVE  v[k] = WireWord(reg, d, (8 + d) + k)
  BY <1>1 DEF Nops, WireWord
<1>4. 8 + d \in Nat
  OBVIOUS
<1>5. Form(w \o v, reg, d, (8 + d) + i)
  BY <1>2, <1>3, <1>4, FormAppend
<1>6. QED BY <1>1, <1>5

(* A command and what is there of its block.                               *)
LEMMA FormCommand ==
    ASSUME NEW reg, NEW n \in 0..8
    PROVE  Form(CommandBlock(n), reg, 0, n)
<1>1. PICK v : v = CommandBlock(n)
  OBVIOUS
<1>2. ASSUME NEW k \in 1..n PROVE v[k] = WireWord(reg, 0, k) /\ v[k] \in Word
  BY <1>1 DEF CommandBlock, WireWord, Word, CommandWord, NopWord
<1>3. DOMAIN v = 1..n /\ v = [k \in 1..n |-> v[k]]
  BY <1>1 DEF CommandBlock
<1>4. v \in [1..n -> Word]
  BY <1>2, <1>3
<1>5. v \in Seq(Word)
  BY <1>4, SeqDef
<1>6. Len(v) = n
  BY <1>3, <1>5, LenProperties
<1>7. QED BY <1>1, <1>2, <1>5, <1>6 DEF Form

LEMMA FormEmpty == \A reg : Form(<< >>, reg, 0, 0)
BY DEF Form

-----------------------------------------------------------------------------
(* PackInv is inductive                                                    *)

LEMMA PackInit == Init => PackInv
<1> SUFFICES ASSUME Init PROVE PackInv
  OBVIOUS
<1>1. Typed
  BY MaxChunkType DEF Init, Typed, NoOp
<1>2. WireInv
  BY FormEmpty DEF Init, WireInv
<1>3. LoopInv /\ DoneInv
  BY DEF Init, LoopInv, DoneInv
<1>4. QED BY <1>1, <1>2, <1>3 DEF PackInv

(* The piece at off: a whole transfer's worth, or what is left.            *)
LEMMA PieceFacts ==
    ASSUME op \in Writes, off \in Nat, off < op.len, MaxChunk >= 9
    PROVE  \E j \in Nat \ {0} :
              /\ MaxSrcChunk(op.len) = 8 * j
              /\ 9 * j <= MaxChunk
              /\ Chunk \in 1..(8 * j)
              /\ off + Chunk <= op.len
              /\ off + Chunk = op.len \/ Chunk = 8 * j
<1>1. op.len \in Nat
  BY OpsType
<1>2. PICK j \in Nat \ {0} : MaxSrcChunk(op.len) = 8 * j /\ 9 * j <= MaxChunk
  BY <1>1, SrcChunkFacts
<1>3. Chunk = Least(op.len - off, 8 * j)
  BY <1>2 DEF Chunk
<1>4. /\ Chunk \in 1..(8 * j)
      /\ off + Chunk <= op.len
      /\ off + Chunk = op.len \/ Chunk = 8 * j
  BY <1>1, <1>3 DEF Least
<1>5. QED BY <1>2, <1>4

(* A rest of less than a block is the last piece.                          *)
LEMMA RestIsLast ==
    ASSUME op \in Writes, off \in Nat, off < op.len, MaxChunk >= 9,
           NEW t \in Nat, off = t * MaxSrcChunk(op.len), Chunk < 8
    PROVE  off + Chunk = op.len /\ LastPiece = Chunk
<1>1. PICK j \in Nat \ {0} :
              /\ MaxSrcChunk(op.len) = 8 * j
              /\ Chunk \in 1..(8 * j)
              /\ off + Chunk = op.len \/ Chunk = 8 * j
  BY PieceFacts
<1>2. PICK m \in Nat \ {0} : m = 8 * j /\ m >= 8
  BY <1>1
<1>3. off + Chunk = op.len /\ Chunk \in Nat /\ Chunk < m /\ off = t * m
  BY <1>1, <1>2
<1>4. CASE op.len <= m
  <2>1. off < m
    BY <1>3, <1>4, OpsType
  <2>2. t = 0
    <3>1. SUFFICES ASSUME t # 0 PROVE FALSE
      OBVIOUS
    <3>2. t * m >= m
      BY <3>1
    <3>3. QED BY <1>3, <2>1, <3>2
  <2>3. off = 0
    BY <1>3, <2>2
  <2>4. QED BY <1>1, <1>2, <1>3, <1>4, <2>3 DEF LastPiece
<1>5. CASE op.len > m
  <2>1. (t * m + Chunk) % m = Chunk
    BY <1>3, RemainderOfLoop
  <2>2. op.len = t * m + Chunk
    BY <1>3
  <2>3. op.len % m = Chunk
    BY <2>1, <2>2
  <2>4. LastPiece = op.len % m
    BY <1>1, <1>2, <1>5, OpsType DEF LastPiece
  <2>5. QED BY <1>3, <2>3, <2>4
<1>6. op.len <= m \/ op.len > m
  BY <1>2, OpsType
<1>7. QED BY <1>4, <1>5, <1>6

LEMMA PackNext == PackInv /\ [Next]_vars => PackInv'
<1> SUFFICES ASSUME PackInv, [Next]_vars PROVE PackInv'
  OBVIOUS
<1>1. CASE Write
  <2>1. op' \in Writes /\ op'.len \in Nat
    BY <1>1, OpsType DEF Write
  <2>2. Typed'
    BY <1>1, <2>1, MaxChunkType DEF Write, PackInv, Typed
  <2>3. WireInv'
    BY <1>1, FormEmpty DEF Write, WireInv
  <2>4. LoopInv' /\ DoneInv'
    BY <1>1, <2>1 DEF Write, LoopInv, DoneInv
  <2>5. QED BY <2>2, <2>3, <2>4 DEF PackInv
<1>2. CASE Read
  BY <1>2 DEF Read, PackInv, Typed, LoopInv, WireInv, DoneInv
<1>3. CASE SendCommand
  <2>1. op \in Writes /\ op.len \in Nat /\ off = 0 /\ op' = op /\ off' = off
    BY <1>3, OpsType DEF SendCommand, PackInv, LoopInv
  <2>2. Form(wire', op.reg, 0, 8)
    BY <1>3, FormCommand DEF SendCommand
  <2>3. Typed'
    BY <1>3, <2>1 DEF SendCommand, PackInv, Typed
  <2>4. WireInv'
    BY <2>1, <2>2 DEF WireInv
  <2>5. LoopInv'
    <3>1. MaxSrcChunk(op.len) \in Nat
      BY <1>3, <2>1, SrcChunkFacts DEF SendCommand
    <3>2. off = 0 * MaxSrcChunk(op.len)
      BY <2>1, <3>1
    <3>3. pc' = "value" => off < op.len
      BY <1>3, <2>1 DEF SendCommand
    <3>4. off % 2 = 0 /\ 8 + off = 8
      BY <2>1
    <3>5. QED
      BY <1>3, <2>1, <2>2, <3>2, <3>3, <3>4 DEF SendCommand, LoopInv
  <2>6. DoneInv'
    <3>1. NoOp \notin Writes
      BY DEF NoOp, Writes
    <3>2. pc' = "idle" => op.len = 0
      BY <1>3 DEF SendCommand
    <3>3. QED BY <2>1, <2>2, <3>1, <3>2 DEF DoneInv
  <2>7. QED BY <2>3, <2>4, <2>5, <2>6 DEF PackInv
<1>4. CASE SendCommandFails
  <2>1. PICK n \in 0..8 : Form(wire', op'.reg, 0, n)
    BY <1>4, FormCommand DEF SendCommandFails
  <2>2. WireInv'
    BY <2>1 DEF WireInv
  <2>3. Typed' /\ LoopInv' /\ DoneInv'
    BY <1>4 DEF SendCommandFails, PackInv, Typed, LoopInv, DoneInv
  <2>4. QED BY <2>2, <2>3 DEF PackInv
<1>5. ASSUME pc = "value"
      PROVE  /\ op \in Writes /\ op # NoOp /\ op.len \in Nat
             /\ op.reg = "ram" => op.len % 2 = 0
             /\ off \in Nat /\ off < op.len /\ off % 2 = 0
             /\ \E t \in Nat : off = t * MaxSrcChunk(op.len)
             /\ MaxChunk >= 9
             /\ Form(wire, op.reg, off, 8 + off)
  BY <1>5, OpsType DEF PackInv, Typed, LoopInv, Writes, NoOp
<1>6. CASE SendBlocks
  <2>1. pc = "value" /\ Chunk >= 8
    BY <1>6 DEF SendBlocks
  <2>2. PICK j \in Nat \ {0} :
              /\ MaxSrcChunk(op.len) = 8 * j
              /\ 9 * j <= MaxChunk
              /\ Chunk \in 1..(8 * j)
              /\ off + Chunk <= op.len
              /\ off + Chunk = op.len \/ Chunk = 8 * j
    BY <1>5, <2>1, PieceFacts
  <2>3. PICK c \in Nat : c = Chunk
    BY <2>2
  <2>4. WholeWords(c) = c /\ c + Blocks(c) <= 9 * j /\ Blocks(c) \in Nat
    BY <2>2, <2>3, BlockFacts
  <2>5. Form(wire', op.reg, off + c, 8 + (off + c))
    BY <1>5, <1>6, <2>1, <2>3, <2>4, FormMore DEF SendBlocks
  <2>6. /\ off' = off + c /\ op' = op /\ size' = c + Blocks(c)
        /\ \/ off + c = op.len /\ ret' = 0 /\ pc' = "idle"
           \/ off + c # op.len /\ ret' = ret /\ pc' = "value"
    BY <1>6, <2>1, <2>3 DEF SendBlocks, Advance
  <2>7. Typed'
    BY <1>5, <2>1, <2>2, <2>3, <2>4, <2>6, MaxChunkType DEF PackInv, Typed
  <2>8. WireInv'
    <3>1. off + c \in Nat /\ 8 + (off + c) \in Nat
      BY <1>5, <2>1
    <3>2. QED BY <2>5, <2>6, <3>1 DEF WireInv
  <2>9. LoopInv'
    <3>1. CASE off + c = op.len
      BY <2>6, <3>1 DEF LoopInv
    <3>2. CASE off + c # op.len
      <4>1. c = 8 * j /\ off + c < op.len
        BY <1>5, <2>1, <2>2, <2>3, <3>2
      <4>2. (off + c) % 2 = 0
        <5>1. PICK u \in Nat : off = 2 * u
          BY <1>5, <2>1
        <5>2. off + c = 2 * (u + 4 * j)
          BY <4>1, <5>1
        <5>3. QED BY <5>2
      <4>3. PICK t \in Nat : off = t * (8 * j)
        BY <1>5, <2>1, <2>2
      <4>4. off + c = (t + 1) * (8 * j) /\ t + 1 \in Nat
        BY <4>1, <4>3
      <4>5. \E s \in Nat : off' = s * MaxSrcChunk(op'.len)
        BY <2>2, <2>6, <4>4
      <4>6. QED
        BY <1>5, <2>1, <2>5, <2>6, <4>1, <4>2, <4>5 DEF LoopInv
    <3>3. QED BY <3>1, <3>2
  <2>10. DoneInv'
    <3>1. CASE off + c = op.len
      <4>1. Form(wire', op.reg, op.len, 8 + op.len) /\ 8 + op.len \in Nat
        BY <1>5, <2>1, <2>5, <3>1
      <4>2. 8 + op.len <= 8 + op.len
        BY <1>5, <2>1
      <4>3. QED BY <1>5, <2>1, <2>6, <4>1, <4>2 DEF DoneInv
    <3>2. CASE off + c # op.len
      BY <2>6, <3>2 DEF DoneInv
    <3>3. QED BY <3>1, <3>2
  <2>11. QED BY <2>7, <2>8, <2>9, <2>10 DEF PackInv
<1>7. CASE SendPartial
  <2>1. pc = "value" /\ Chunk < 8
    BY <1>7 DEF SendPartial
  <2>2. Chunk \in Nat \ {0}
    BY <1>5, <2>1, PieceFacts
  <2>3. off + Chunk = op.len /\ LastPiece = Chunk
    BY <1>5, <2>1, RestIsLast
  <2>4. PICK c \in 1..7 : c = Chunk
    BY <2>1, <2>2
  <2>5. PICK p \in 0..c : p = Packed(op.reg, c)
    BY PackedFacts
  <2>6. Form(wire \o Words(op.reg, off, p), op.reg, off + p, 8 + (off + p))
    BY <1>5, <2>1, FormMore
  <2>7. off + p \in Nat /\ 8 - p \in Nat /\ (8 + (off + p)) + (8 - p) = 16 + off
    BY <1>5, <2>1
  <2>8. Form(wire', op.reg, off + p, 16 + off)
    <3>1. wire' = (wire \o Words(op.reg, off, p)) \o Nops(8 - p)
      BY <1>7, <2>4, <2>5 DEF SendPartial
    <3>2. Form((wire \o Words(op.reg, off, p)) \o Nops(8 - p), op.reg, off + p,
               (8 + (off + p)) + (8 - p))
      BY <2>6, <2>7, FormNops
    <3>3. QED BY <2>7, <3>1, <3>2
  <2>9. off' = op.len /\ op' = op /\ size' = 9 /\ ret' = 0 /\ pc' = "idle"
    BY <1>7, <2>3 DEF SendPartial, Advance
  <2>10. Typed' /\ LoopInv'
    BY <1>5, <2>1, <2>9, MaxChunkType DEF PackInv, Typed, LoopInv
  <2>11. WireInv'
    <3>1. 8 + (off + p) <= 16 + off /\ 16 + off \in Nat
      BY <1>5, <2>1
    <3>2. QED BY <2>7, <2>8, <2>9, <3>1 DEF WireInv
  <2>12. DoneInv'
    <3>1. LastPiece' = LastPiece
      BY <2>9 DEF LastPiece
    <3>2. SUFFICES ASSUME ~(op.reg = "ram" /\ c \in {4, 6})
                   PROVE  /\ 8 + op.len <= 16 + off /\ 16 + off \in Nat
                          /\ Form(wire', op.reg, op.len, 16 + off)
      BY <1>5, <2>1, <2>3, <2>4, <2>9, <3>1 DEF DoneInv
    <3>3. op.reg = "ram" => c = 2
      <4>1. ASSUME op.reg = "ram" PROVE c % 2 = 0
        BY <1>5, <2>1, <2>3, <2>4, <4>1
      <4>2. QED BY <3>2, <4>1
    <3>4. p = c
      BY <2>5, <3>3, PackedFacts
    <3>5. off + p = op.len
      BY <2>3, <2>4, <3>4
    <3>6. QED BY <1>5, <2>1, <2>3, <2>4, <2>8, <3>5
  <2>13. QED BY <2>10, <2>11, <2>12 DEF PackInv
<1>8. CASE SendFails
  <2>1. pc = "value"
    BY <1>8 DEF SendFails
  <2>2. PICK c \in Nat \ {0} : c = Chunk
    BY <1>5, <2>1, PieceFacts
  <2>3. PICK e \in Nat :
           e = IF c < 8 THEN Packed(op.reg, c) ELSE WholeWords(c)
    BY PackedFacts, BlockFacts
  <2>4. PICK n \in Nat : wire' = wire \o Words(op.reg, off, n)
    <3>1. \E n \in 0..e : wire' = wire \o Words(op.reg, off, n)
      BY <1>8, <2>2, <2>3, Zenon DEF SendFails
    <3>2. QED BY <3>1
  <2>5. Form(wire', op.reg, off + n, 8 + (off + n))
    BY <1>5, <2>1, <2>4, FormMore
  <2>6. off + n \in Nat /\ 8 + (off + n) \in Nat
    BY <1>5, <2>1
  <2>7. WireInv'
    BY <1>8, <2>5, <2>6 DEF SendFails, WireInv
  <2>8. Typed' /\ LoopInv' /\ DoneInv'
    BY <1>8 DEF SendFails, PackInv, Typed, LoopInv, DoneInv
  <2>9. QED BY <2>7, <2>8 DEF PackInv
<1>9. CASE UNCHANGED vars
  <2>1. Typed' /\ LoopInv' /\ WireInv'
    BY <1>9 DEF vars, PackInv, Typed, LoopInv, WireInv
  <2>2. DoneInv'
    BY <1>9 DEF vars, PackInv, DoneInv, LastPiece
  <2>3. QED BY <2>1, <2>2 DEF PackInv
<1>10. QED
  BY <1>1, <1>2, <1>3, <1>4, <1>6, <1>7, <1>8, <1>9 DEF Next

LEMMA PackAlways == Spec => []PackInv
BY PackInit, PackNext, PTL DEF Spec

-----------------------------------------------------------------------------
(* What the runs check                                                     *)

(* Every variable keeps its type, and the loop of                          *)
(* mipi_dbi_spi1e_transfer() ends at the end of the value, whatever its    *)
(* length and whatever the master takes.                                   *)
THEOREM PackTypeCorrect == Spec => []TypeOK
<1>1. PackInv => TypeOK
  <2> SUFFICES ASSUME PackInv PROVE TypeOK
    OBVIOUS
  <2>1. off \in 0..op.len
    BY OpsType DEF PackInv, Typed
  <2>2. wire \in Seq(Word)
    BY DEF PackInv, WireInv, Form
  <2>3. QED
    BY <2>1, <2>2 DEF PackInv, Typed, LoopInv, TypeOK, Word
<1>2. QED BY <1>1, PackAlways, PTL

(* Every transfer fits the master: the bytes that the D/C bits take are    *)
(* counted in max_src_chunk.                                               *)
THEOREM TransfersFit == Spec => []FitsMaster
<1>1. PackInv => FitsMaster
  BY DEF PackInv, Typed, FitsMaster
<1>2. QED BY <1>1, PackAlways, PTL

(* The words that are data in a wire of a known form.                      *)
LEMMA DataOfForm ==
    ASSUME NEW d \in Nat, NEW n \in Nat, d > 0 => 8 + d <= n,
           Form(wire, op.reg, d, n)
    PROVE  DataAt = 9..(8 + d)
<1>1. Len(wire) = n
  BY DEF Form
<1>2. ASSUME NEW k \in 1..n
      PROVE  wire[k].dc = 1 <=> k \in 9..(8 + d)
  <2>1. wire[k] = WireWord(op.reg, d, k)
    BY DEF Form
  <2>2. QED
    BY <2>1 DEF WireWord, CommandWord, NopWord, DataWord
<1>3. \A k \in 9..(8 + d) : k \in 1..n
  OBVIOUS
<1>4. QED BY <1>1, <1>2, <1>3 DEF DataAt

(* The panel sees its command once and the first bytes of the value behind *)
(* it, in order and without a gap, wherever a transfer breaks off.         *)
THEOREM WordsStayInOrder == Spec => []WordsInOrder
<1>1. PackInv => WordsInOrder
  <2> SUFFICES ASSUME PackInv PROVE WordsInOrder
    OBVIOUS
  <2>1. PICK d \in Nat, n \in Nat :
           (d > 0 => 8 + d <= n) /\ Form(wire, op.reg, d, n)
    BY DEF PackInv, WireInv
  <2>2. DataAt = 9..(8 + d)
    BY <2>1, DataOfForm
  <2>3. Len(wire) = n
    BY <2>1 DEF Form
  <2>4. ASSUME NEW k \in 1..Len(wire) \ DataAt
        PROVE  wire[k] = IF k = 8 THEN CommandWord ELSE NopWord
    BY <2>1, <2>2, <2>3 DEF Form, WireWord
  <2>5. ASSUME NEW k \in DataAt
        PROVE  /\ k > 8
               /\ wire[k].b = IF op.reg = "ram" THEN SwapByte(k - 9) ELSE k - 9
               /\ k > 9 => k - 1 \in DataAt
    <3>1. k \in 9..(8 + d) /\ k \in 1..n /\ k # 8
      BY <2>1, <2>2
    <3>2. wire[k] = DataWord(ByteOf(op.reg, k - 9))
      BY <2>1, <3>1 DEF Form, WireWord
    <3>3. wire[k].b = ByteOf(op.reg, k - 9)
      BY <3>2 DEF DataWord
    <3>4. k > 8 /\ (k > 9 => k - 1 \in 9..(8 + d))
      BY <3>1
    <3>5. QED BY <2>2, <3>3, <3>4 DEF ByteOf
  <2>6. QED BY <2>4, <2>5 DEF WordsInOrder
<1>2. QED BY <1>1, PackAlways, PTL

(* A write that reports success has sent its command and every byte,       *)
(* except for the rests of two and three pixels.                           *)
THEOREM SuccessIsComplete == Spec => []Complete
<1>1. PackInv => Complete
  <2> SUFFICES ASSUME PackInv, pc = "idle", ret = 0,
                      ~(op.reg = "ram" /\ LastPiece \in {4, 6})
               PROVE  DataAt = 9..(8 + op.len)
    BY DEF Complete
  <2>1. CASE op = NoOp
    <3>1. wire = << >>
      BY <2>1 DEF PackInv, DoneInv
    <3>2. DataAt = {} /\ op.len = 0
      BY <2>1, <3>1 DEF DataAt, NoOp
    <3>3. QED BY <3>2
  <2>2. CASE op # NoOp
    <3>1. PICK n \in Nat : 8 + op.len <= n /\ Form(wire, op.reg, op.len, n)
      BY <2>2 DEF PackInv, DoneInv
    <3>2. op.len \in Nat
      BY OpsType DEF PackInv, Typed
    <3>3. QED BY <3>1, <3>2, DataOfForm
  <2>3. QED BY <2>1, <2>2
<1>2. QED BY <1>1, PackAlways, PTL

-----------------------------------------------------------------------------
(* A write ends                                                            *)

(* The most transfers a write still takes: each takes at least one byte.   *)
StepsLeft ==
    IF pc = "command" THEN op.len + 1
    ELSE IF pc = "value" THEN op.len - off
    ELSE 0

Closer == StepsLeft \in 1..(op.len + 1) /\ StepsLeft' \in 0..(StepsLeft - 1)

(* Every write ends: whatever fails, each transfer of                      *)
(* mipi_dbi_spi1e_transfer() brings it closer to its return, and it has at *)
(* most len + 1 of them.                                                   *)
THEOREM WritesEnd == Spec => [][pc # "idle" => Closer]_vars
<1>1. PackInv /\ [Next]_vars => [pc # "idle" => Closer]_vars
  <2> SUFFICES ASSUME PackInv, Next, pc # "idle" PROVE Closer
    OBVIOUS
  <2>1. PICK len \in Nat : op.len = len
    BY OpsType DEF PackInv, Typed
  <2>2. off \in Nat /\ (pc = "value" => off < len)
    BY <2>1 DEF PackInv, Typed, LoopInv
  <2>3. CASE SendCommand \/ SendCommandFails
    <3>1. /\ pc = "command" /\ op' = op /\ off' = off
          /\ pc' = "idle" \/ pc' = "value"
      BY <2>3 DEF SendCommand, SendCommandFails
    <3>2. off = 0
      BY <3>1 DEF PackInv, Typed, LoopInv
    <3>3. QED BY <2>1, <3>1, <3>2 DEF Closer, StepsLeft
  <2>4. CASE SendBlocks \/ SendPartial
    <3>1. pc = "value" /\ op' = op
      BY <2>4 DEF SendBlocks, SendPartial
    <3>2. PICK c \in Nat \ {0} : c = Chunk /\ off + c <= len
      <4>1. op \in Writes /\ MaxChunk >= 9
        BY <3>1 DEF PackInv, LoopInv
      <4>2. QED BY <2>1, <2>2, <3>1, <4>1, PieceFacts
    <3>3. off' = off + c /\ pc' \in {"idle", "value"}
      BY <2>4, <3>1, <3>2 DEF SendBlocks, SendPartial, Advance
    <3>4. QED BY <2>1, <2>2, <3>1, <3>2, <3>3 DEF Closer, StepsLeft
  <2>5. CASE SendFails
    BY <2>1, <2>2, <2>5 DEF SendFails, Closer, StepsLeft
  <2>6. QED
    BY <2>3, <2>4, <2>5 DEF Next, Write, Read
<1>2. QED BY <1>1, PackAlways, PTL DEF Spec
=============================================================================
