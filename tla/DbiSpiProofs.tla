---------------------------- MODULE DbiSpiProofs ----------------------------
(***************************************************************************)
(* Proofs about the register map and its place in module DbiSpi: the work  *)
(* buffer and the endianness that is read without being set.               *)
(***************************************************************************)
EXTENDS DbiSpi, TLAPS

(* The work buffer of every configuration __regmap_init() accepts, padded  *)
(* ones included, holds what _regmap_raw_write() puts there.               *)
THEOREM WorkBufferHolds ==
    ASSUME NEW c \in Config, Accepted(c), NEW e, NEW len \in Nat
    PROVE  WorkUse(Map(c, e), len) <= Map(c, e).buf_size
<1>1. c.reg_bits \in Nat /\ c.pad_bits \in Nat /\ c.val_bits = 8
  BY DEF Config, Accepted, HasFormatVal
<1> DEFINE p == c.pad_bits
<1>2. PICK q \in Nat, r \in 0..7 : p \div 8 = q /\ p % 8 = r
  BY <1>1
<1>3. p = (8 * q) + r
  BY <1>1, <1>2
<1>4. c.reg_bits = 8 - r
  BY <1>1, <1>2 DEF Accepted, HasFormatReg, RegShift
<1>5. RoundUp8(c.reg_bits) = 1
  <2>1. (8 - r + 7) \div 8 = 1
    BY <1>2
  <2>2. QED BY <1>4, <2>1 DEF RoundUp8
<1>6. RoundUp8(c.val_bits) = 1
  BY <1>1 DEF RoundUp8
<1>7. BufSize(c) = q + 2
  <2>1. c.reg_bits + c.val_bits + c.pad_bits = 8 * (q + 2)
    BY <1>1, <1>2, <1>3, <1>4
  <2>2. (8 * (q + 2) + 7) \div 8 = q + 2
    BY <1>2
  <2>3. QED BY <2>1, <2>2 DEF BufSize, RoundUp8
<1>8. WorkUse(Map(c, e), len) <= q + 2
  BY <1>2, <1>5, <1>6 DEF WorkUse, Single, Map
<1>9. QED
  BY <1>7, <1>8 DEF Map

(* Whatever the endianness is that __regmap_init() happens to read, the    *)
(* map of an accepted configuration is the same.                           *)
LEMMA EndianHasNoEffect ==
    ASSUME NEW c \in Config, Accepted(c), NEW e, NEW f
    PROVE  Map(c, e) = Map(c, f)
BY DEF Accepted, HasFormatVal, Map, ParseInplace

LEMMA DriverAccepted == DriverConfig \in Config /\ Accepted(DriverConfig)
BY DEF DriverConfig, Config, Accepted, HasFormatReg, HasFormatVal, RegShift

-----------------------------------------------------------------------------
(* The map is that of the driver's configuration, and the length of every  *)
(* operation is a number of bytes.                                         *)
MapInv ==
    /\ op \in Writes \cup {ReadOp, NoOp}
    /\ map = NoMap \/ map = Map(DriverConfig, "BIG")

LEMMA WritesType == \A o \in Writes \cup {ReadOp, NoOp} : o.len \in Nat
<1>1. ASSUME NEW o \in Writes PROVE o.len \in Nat
  <2>1. o.len \in ParamLens \/ o.len \in RamLens
    BY <1>1 DEF Writes
  <2>2. QED BY <2>1, SizesAssumption
<1>2. ReadOp.len \in Nat /\ NoOp.len \in Nat
  BY DEF ReadOp, NoOp
<1>3. QED BY <1>1, <1>2

LEMMA MapInvInit == Init => MapInv
BY DEF Init, MapInv

LEMMA MapInvNext == MapInv /\ [Next]_vars => MapInv'
<1> SUFFICES ASSUME MapInv, [Next]_vars PROVE MapInv'
  OBVIOUS
<1>1. CASE SpiInit
  <2>1. PICK e : map' = Map(DriverConfig, e)
    BY <1>1 DEF SpiInit
  <2>2. map' = Map(DriverConfig, "BIG")
    BY <2>1, DriverAccepted, EndianHasNoEffect
  <2>3. QED
    BY <1>1, <2>2 DEF SpiInit, MapInv
<1>2. CASE Write
  <2>1. PICK o \in Writes :
           op' = IF Single(map, o.len) THEN [o EXCEPT !.src = "heap"] ELSE o
    BY <1>2 DEF Write
  <2>2. [o EXCEPT !.src = "heap"] \in Writes
    BY <2>1 DEF Writes
  <2>3. op' \in Writes
    BY <2>1, <2>2
  <2>4. map' = map
    BY <1>2 DEF Write
  <2>5. QED
    BY <2>3, <2>4 DEF MapInv
<1>3. CASE WriteNoMemory
  BY <1>3 DEF WriteNoMemory, MapInv
<1>4. CASE Read
  BY <1>4 DEF Read, MapInv
<1>5. CASE ReadNoMemory
  BY <1>5 DEF ReadNoMemory, MapInv
<1>6. CASE UNCHANGED <<map, op>>
  BY <1>6 DEF MapInv
<1>7. ASSUME SpiInitFails \/ Step \/ Crashed \/ UNCHANGED vars
      PROVE  UNCHANGED <<map, op>>
  BY <1>7 DEF SpiInitFails, Step, Crashed, vars, GetTxBuf, GetTxBufFails,
     DcLow, SendCommand, SendCommandFails, DcHigh, SendChunk, SendChunkFails,
     StartBuf, SendBuf, SendBufFails, ReadDone, ReadCrashes
<1>8. QED
  BY <1>1, <1>2, <1>3, <1>4, <1>5, <1>6, <1>7 DEF Next, Request

LEMMA MapInvAlways == Spec => []MapInv
BY MapInvInit, MapInvNext, PTL DEF Spec

(* The work buffer is never overrun, for any lengths of values.            *)
THEOREM WorkBufIsKept == Spec => []WorkBufFits
<1>1. MapInv => WorkBufFits
  <2> SUFFICES ASSUME MapInv, map # NoMap
               PROVE  WorkUse(map, op.len) <= map.buf_size
    BY DEF WorkBufFits
  <2>1. map = Map(DriverConfig, "BIG") /\ op.len \in Nat
    BY WritesType DEF MapInv
  <2>2. QED
    BY <2>1, DriverAccepted, WorkBufferHolds
<1>2. QED
  BY <1>1, MapInvAlways, PTL
=============================================================================
