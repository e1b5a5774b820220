-------------------------- MODULE TransportProofs --------------------------
(***************************************************************************)
(* Proofs about the transfers of module DbiSpi, for every length of a      *)
(* value and of a chunk: type correctness, the bytes the panel gets, and   *)
(* that the transport implements BusService.                               *)
(***************************************************************************)
EXTENDS DbiSpiProofs, SequenceTheorems

(* Byte k of a value as it goes out.                                       *)
ByteAt(o, k) == IF Swap(o) \/ UsesKernel(o) THEN SwapByte(k - 1) ELSE k - 1

(* The panel has the command and the first n bytes of operation o.         *)
Holds(p, o, n) ==
    /\ p \in [cmd : {o.reg}, data : Seq(Nat), stray : {FALSE}]
    /\ Len(p.data) = n
    /\ \A k \in 1..n : p.data[k] = ByteAt(o, k)

InOrder(s) == \A k \in 1..Len(s) : s[k] = k - 1
Swapped(s) == \A k \in 1..Len(s) : s[k] = SwapByte(k - 1)

(* Whatever was sent and broken off: the panel has the beginning of a      *)
(* value.                                                                  *)
PanelOK(p) ==
    /\ p \in [cmd : {"none", "param", "ram", "read", "junk"},
              data : Seq(Nat), stray : BOOLEAN]
    /\ Len(p.data) <= FrameBytes
    /\ p.cmd \in {"none", "read", "junk"} => p.data = << >>
    /\ p.cmd = "param" => InOrder(p.data)
    /\ p.cmd = "ram" => InOrder(p.data) \/ Swapped(p.data)

PanelInv == PanelOK(panel)

(* The bytes of the value that were sent.                                  *)
Sent == IF pc = "buf" THEN boff ELSE off

Sending == {"dc_high", "value", "buf"}

(* How far the operation has come.                                         *)
OpInv ==
    /\ op \in Writes \cup {ReadOp, NoOp}
    /\ off \in Nat /\ boff \in Nat
    /\ pc \in {"tx_buf", "dc_low", "command"} \cup Sending => op \in Writes
    /\ pc \in {"tx_buf", "dc_low", "command", "dc_high"} => off = 0
    /\ pc \in {"read", "crashed"} => op = ReadOp /\ off = 0
    /\ pc = "down" => op = NoOp /\ off = 0
    /\ pc \in Sending => Sent < op.len
    /\ pc \in {"value", "buf"} /\ UsesKernel(op) => off = 0
    /\ pc = "buf" => UsesKernel(op)

(* The panel has what was sent, unless the D/C line spoiled it.            *)
SendInv ==
    pc \in Sending => Spoiled(panel) \/ Holds(panel, op, Sent)

(* The D/C line has the right level, unless a write to it failed.          *)
LineInv ==
    /\ pc \in {"command", "read"} /\ ~dcBad => dc = 0
    /\ pc \in {"value", "buf"} /\ ~dcBad => dc = 1
    /\ pc \in Sending /\ ~dcBad => ~Spoiled(panel)

(* A write or read that succeeded is complete.                             *)
DoneInv ==
    pc = "idle" /\ ret = 0 /\ op # NoOp /\ ~dcBad
        => Holds(panel, op, op.len)

Typed ==
    /\ master \in Masters
    /\ tx_buf \in {"null", "map", "err"}
    /\ mspi \in BOOLEAN
    /\ mspi => tx_buf = "map"
    /\ map = NoMap <=> pc = "down"
    /\ pc \in {"down", "idle", "tx_buf", "dc_low", "command", "dc_high",
               "value", "buf", "read", "crashed"}
    /\ ret \in {0, -1}
    /\ dc \in {0, 1}
    /\ dcBad \in BOOLEAN

DbiInv == Typed /\ PanelInv /\ OpInv /\ SendInv /\ LineInv /\ DoneInv

-----------------------------------------------------------------------------
(* Bytes                                                                   *)

LEMMA SwapByteFacts ==
    ASSUME NEW b \in Nat
    PROVE  /\ SwapByte(b) \in Nat
           /\ SwapByte(b) \div 2 = b \div 2
           /\ b % 2 = 1 => SwapByte(b) # SwapByte(b - 1)
<1>1. PICK q \in Nat, r \in 0..1 : b = (2 * q) + r
  <2>1. b = 2 * (b \div 2) + (b % 2) /\ b \div 2 \in Nat /\ b % 2 \in 0..1
    OBVIOUS
  <2>2. QED BY <2>1
<1>2. CASE r = 0
  <2>1. b % 2 = 0 /\ b \div 2 = q
    BY <1>1, <1>2
  <2>2. (b + 1) \div 2 = q
    BY <1>1, <1>2
  <2>3. QED BY <2>1, <2>2 DEF SwapByte
<1>3. CASE r = 1
  <2>1. b % 2 = 1 /\ b \div 2 = q
    BY <1>1, <1>3
  <2>2. (b - 1) % 2 = 0 /\ (b - 1) \div 2 = q /\ b - 1 \in Nat
    BY <1>1, <1>3
  <2>3. SwapByte(b) = b - 1 /\ SwapByte(b - 1) = b
    BY <2>1, <2>2 DEF SwapByte
  <2>4. QED BY <2>1, <2>2, <2>3
<1>4. QED BY <1>2, <1>3

LEMMA BytesFacts ==
    ASSUME NEW o, NEW from \in Nat, NEW n \in Nat
    PROVE  /\ Bytes(o, from, n) \in Seq(Nat)
           /\ Len(Bytes(o, from, n)) = n
           /\ \A k \in 1..n : Bytes(o, from, n)[k] = ByteAt(o, from + k)
<1> DEFINE s == Bytes(o, from, n)
<1>1. ASSUME NEW k \in 1..n
      PROVE  s[k] = ByteAt(o, from + k) /\ s[k] \in Nat
  <2>1. from + k - 1 \in Nat
    OBVIOUS
  <2>2. SwapByte(from + k - 1) \in Nat
    BY <2>1, SwapByteFacts
  <2>3. s[k] = ByteAt(o, from + k)
    BY DEF Bytes, ByteAt
  <2>4. QED BY <2>1, <2>2, <2>3 DEF ByteAt
<1>2. DOMAIN s = 1..n /\ s = [k \in 1..n |-> s[k]]
  BY DEF Bytes
<1>3. s \in [1..n -> Nat]
  BY <1>1, <1>2
<1>4. s \in Seq(Nat)
  BY <1>3, SeqDef
<1>5. Len(s) = n
  BY <1>2, <1>4, LenProperties
<1>6. QED BY <1>1, <1>4, <1>5

(* The next n bytes.                                                       *)
LEMMA TakeMore ==
    ASSUME NEW p, NEW o, NEW m \in Nat, NEW n \in Nat,
           Holds(p, o, m), o.reg # "junk", dc = 1
    PROVE  Holds(TakeData(p, Bytes(o, m, n)), o, m + n)
<1>1. PICK b : b = Bytes(o, m, n)
  OBVIOUS
<1>2. /\ b \in Seq(Nat) /\ Len(b) = n
      /\ \A k \in 1..n : b[k] = ByteAt(o, m + k)
  BY <1>1, BytesFacts
<1>3. PICK s : s = p.data
  OBVIOUS
<1>4. /\ s \in Seq(Nat) /\ Len(s) = m /\ p.cmd = o.reg
      /\ \A k \in 1..m : s[k] = ByteAt(o, k)
  BY <1>3 DEF Holds
<1>5. CASE b = << >>
  <2>1. n = 0
    BY <1>2, <1>5
  <2>2. TakeData(p, b) = p
    BY <1>5 DEF TakeData
  <2>3. m + n = m
    BY <2>1
  <2>4. QED BY <1>1, <2>2, <2>3
<1>6. CASE b # << >>
  <2>1. TakeData(p, b) = [cmd |-> o.reg, data |-> s \o b, stray |-> FALSE]
    <3>1. p.stray = FALSE
      BY DEF Holds
    <3>2. ~Spoiled(p)
      BY <1>4, <3>1 DEF Spoiled
    <3>3. QED BY <1>3, <1>4, <1>6, <3>2 DEF TakeData
  <2>3. /\ s \o b \in Seq(Nat)
        /\ Len(s \o b) = m + n
        /\ \A k \in 1..(m + n) : (s \o b)[k] = ByteAt(o, k)
    <3>1. PICK t : t = s \o b
      OBVIOUS
    <3>2. /\ t \in Seq(Nat) /\ Len(t) = m + n
          /\ \A k \in 1..(m + n) : t[k] = IF k <= m THEN s[k] ELSE b[k - m]
      <4>1. s \in Seq(Nat) /\ b \in Seq(Nat) /\ Len(s) = m /\ Len(b) = n
        BY <1>2, <1>4
      <4>2. /\ s \o b \in Seq(Nat) /\ Len(s \o b) = Len(s) + Len(b)
            /\ \A i \in 1..Len(s) + Len(b) :
                  (s \o b)[i] = IF i <= Len(s) THEN s[i] ELSE b[i - Len(s)]
        BY <4>1, ConcatProperties, Zenon
      <4>3. QED BY <3>1, <4>1, <4>2, Zenon
    <3>3. ASSUME NEW k \in 1..(m + n) PROVE t[k] = ByteAt(o, k)
      <4>1. CASE k <= m
        <5>1. k \in 1..m
          BY <4>1
        <5>2. t[k] = s[k]
          BY <3>2, <4>1
        <5>3. QED BY <1>4, <5>1, <5>2, Zenon
      <4>2. CASE ~(k <= m)
        <5>1. PICK j \in 1..n : k - m = j /\ m + j = k
          BY <4>2
        <5>2. t[k] = b[j]
          BY <3>2, <4>2, <5>1, Zenon
        <5>3. b[j] = ByteAt(o, m + j)
          BY <1>2, Zenon
        <5>4. QED BY <5>1, <5>2, <5>3, Zenon
      <4>3. QED BY <4>1, <4>2
    <3>4. QED BY <3>1, <3>2, <3>3, Zenon
  <2>4. Holds([cmd |-> o.reg, data |-> s \o b, stray |-> FALSE], o, m + n)
    BY <2>3 DEF Holds
  <2>5. QED BY <1>1, <2>1, <2>4
<1>7. QED BY <1>5, <1>6

(* With the wrong level, or after a spoiled command, nothing is gained.    *)
LEMMA TakeJunk ==
    ASSUME NEW p, NEW b, dc \in {0, 1}, dc = 0 \/ Spoiled(p)
    PROVE  TakeData(p, b) \in {p, Panel("junk")}
BY DEF TakeData, Spoiled

(* The beginning of a value is in order.                                   *)
LEMMA HoldsPanel ==
    ASSUME NEW o \in Writes, NEW n \in 0..o.len, NEW p, Holds(p, o, n)
    PROVE  PanelOK(p) /\ ~Spoiled(p)
<1>1. o.reg \in {"param", "ram"} /\ o.len \in Nat /\ o.len <= FrameBytes
  BY WritesType, FrameAssumption DEF Writes
<1>2. o.reg = "param" => ~Swap(o) /\ ~UsesKernel(o)
  BY DEF Writes, Swap, UsesKernel
<1>3. /\ p \in [cmd : {"param", "ram"}, data : Seq(Nat), stray : {FALSE}]
      /\ p.cmd = o.reg /\ Len(p.data) = n
  BY <1>1 DEF Holds
<1>4. n <= FrameBytes
  BY <1>1, SizesAssumption
<1>5. p.cmd = "param" => InOrder(p.data)
  BY <1>2, <1>3 DEF Holds, InOrder, ByteAt
<1>6. p.cmd = "ram" => InOrder(p.data) \/ Swapped(p.data)
  BY <1>3 DEF Holds, InOrder, Swapped, ByteAt
<1>7. ~Spoiled(p)
  BY <1>3 DEF Spoiled
<1>8. QED
  BY <1>3, <1>4, <1>5, <1>6, <1>7 DEF PanelOK

LEMMA JunkPanel == PanelOK(Panel("junk")) /\ Spoiled(Panel("junk"))
BY SizesAssumption DEF PanelOK, Panel, Spoiled

(* The panel takes n more bytes of the value, or they spoil its command.   *)
LEMMA SendMore ==
    ASSUME NEW m \in Nat, NEW n \in Nat, NEW q,
           op \in Writes, m + n <= op.len, dc \in {0, 1}, PanelOK(panel),
           Spoiled(panel) \/ Holds(panel, op, m),
           q = TakeData(panel, Bytes(op, m, n))
    PROVE  /\ Spoiled(q) \/ Holds(q, op, m + n)
           /\ dc = 1 /\ ~Spoiled(panel) => Holds(q, op, m + n)
           /\ PanelOK(q)
<1>1. op.reg # "junk" /\ op.len \in Nat
  BY WritesType DEF Writes
<1>2. CASE dc = 1 /\ Holds(panel, op, m)
  <2>1. Holds(q, op, m + n)
    BY <1>1, <1>2, TakeMore
  <2>2. m + n \in 0..op.len
    BY <1>1
  <2>3. PanelOK(q)
    BY <2>1, <2>2, HoldsPanel
  <2>4. QED BY <2>1, <2>3
<1>3. CASE dc = 0 /\ Holds(panel, op, m)
  <2>1. m \in 0..op.len
    BY <1>1
  <2>2. PanelOK(panel)
    BY <1>3, <2>1, HoldsPanel
  <2>3. Len(Bytes(op, m, n)) = n /\ Bytes(op, m, n) \in Seq(Nat)
    BY BytesFacts
  <2>4. q = Panel("junk") \/ (q = panel /\ m + n = m)
    BY <1>3, <2>3 DEF TakeData
  <2>5. QED BY <1>3, <2>2, <2>4, JunkPanel
<1>4. CASE Spoiled(panel)
  <2>1. q \in {panel, Panel("junk")}
    BY <1>4, TakeJunk
  <2>2. QED BY <1>4, <2>1, JunkPanel
<1>5. QED BY <1>2, <1>3, <1>4

(* tinydrm_spi_max_transfer_size() and the chunk made with it.             *)
LEMMA ChunkFacts ==
    ASSUME master \in Masters, op \in Writes, off \in Nat, off < op.len
    PROVE  /\ Chunk \in Nat \ {0}
           /\ off + Chunk <= op.len
           /\ UsesKernel(op) /\ off = 0 => Chunk = op.len
<1>1. op.len \in Nat /\ op.len <= FrameBytes /\ FrameBytes \in Nat
  BY WritesType, FrameAssumption, SizesAssumption DEF Writes
<1>2. master.max_dma_len \in Nat
  BY SizesAssumption DEF Master
<1>3. PICK d \in Nat : d = master.max_dma_len \div 4
  BY <1>2
<1>4. ChunkSize = IF 4 * d < 4 THEN 4 ELSE 4 * d
  BY <1>3 DEF ChunkSize
<1>5. ChunkSize \in Nat /\ ChunkSize >= 4
  BY <1>4
<1>6. Chunk \in Nat \ {0} /\ off + Chunk <= op.len
  BY <1>1, <1>5 DEF Chunk, Least
<1>7. ASSUME UsesKernel(op), off = 0 PROVE Chunk = op.len
  <2>1. master.bpw16 /\ master.buffer
    BY <1>7 DEF UsesKernel, Swap, Writes
  <2>2. master.max_dma_len >= FrameBytes
    BY <2>1, FrameAssumption
  <2>3. PICK f \in Nat : FrameBytes = 4 * f
    BY <1>1, FrameAssumption
  <2>4. d >= f
    BY <1>2, <1>3, <2>2, <2>3
  <2>5. ChunkSize >= FrameBytes
    BY <1>4, <2>3, <2>4
  <2>6. QED
    BY <1>1, <1>5, <1>7, <2>5 DEF Chunk, Least
<1>8. QED BY <1>6, <1>7
-----------------------------------------------------------------------------
(* DbiInv is inductive                                                     *)

LEMMA DbiInit == Init => DbiInv
<1> SUFFICES ASSUME Init PROVE DbiInv
  OBVIOUS
<1>1. PanelOK(Panel("none"))
  BY SizesAssumption DEF PanelOK, Panel
<1>2. PanelInv
  BY <1>1 DEF Init, PanelInv
<1>3. QED
  BY <1>2 DEF Init, DbiInv, Typed, OpInv, SendInv, LineInv, DoneInv,
     Sending

LEMMA MapIsThere == Map(DriverConfig, "BIG") # NoMap
<1>1. Map(DriverConfig, "BIG").reg_bytes = 1
  BY DEF Map, DriverConfig, RoundUp8
<1>2. QED BY <1>1 DEF NoMap

(* Nothing is sent and no request begins or ends.                          *)
LEMMA QuietStep ==
    ASSUME DbiInv, UNCHANGED <<master, op, off, boff, panel>>,
           pc' \notin Sending \/ (pc \in Sending /\ Sent' = Sent),
           \/ pc' # "idle" \/ ret' # 0
           \/ pc = "idle" /\ ret' = ret /\ dcBad' = dcBad
    PROVE  PanelInv' /\ SendInv' /\ DoneInv'
<1>1. PanelInv'
  BY DEF DbiInv, PanelInv, PanelOK, InOrder, Swapped, SwapByte
<1>2. SendInv'
  BY DEF DbiInv, SendInv, Sent, Sending, Holds, Spoiled, ByteAt, Swap,
     UsesKernel
<1>3. DoneInv'
  BY DEF DbiInv, DoneInv, Holds, ByteAt, Swap, UsesKernel
<1>4. QED BY <1>1, <1>2, <1>3

(* The D/C line is set: the level may stay what it was.                    *)
LEMMA SetDcFacts ==
    ASSUME dc \in {0, 1}, dcBad \in BOOLEAN, NEW l \in {0, 1}, SetDc(l)
    PROVE  /\ dc' \in {0, 1} /\ dcBad' \in BOOLEAN
           /\ dcBad => dcBad'
           /\ ~dcBad' => dc' = l
BY DEF SetDc

LEMMA TakeCommandFacts ==
    ASSUME NEW o \in Writes \cup {ReadOp}, dc \in {0, 1}, PanelOK(panel)
    PROVE  /\ PanelOK(TakeCommand(o.reg))
           /\ dc = 0 => Holds(TakeCommand(o.reg), o, 0)
           /\ dc = 0 => ~Spoiled(TakeCommand(o.reg))
           /\ dc = 1 => Spoiled(TakeCommand(o.reg))
<1>1. o.reg \in {"param", "ram", "read"}
  BY DEF Writes, ReadOp
<1>2. CASE dc = 0
  <2>1. TakeCommand(o.reg) = Panel(o.reg)
    BY <1>2 DEF TakeCommand
  <2>2. Holds(Panel(o.reg), o, 0)
    BY DEF Holds, Panel
  <2>3. PanelOK(Panel(o.reg))
    BY <1>1, SizesAssumption DEF PanelOK, InOrder, Panel
  <2>4. ~Spoiled(Panel(o.reg))
    BY <1>1 DEF Spoiled, Panel
  <2>5. QED BY <1>2, <2>1, <2>2, <2>3, <2>4
<1>3. CASE dc = 1
  <2>1. PICK s : s = panel.data
    OBVIOUS
  <2>2. TakeCommand(o.reg) = [cmd |-> panel.cmd, data |-> s, stray |-> TRUE]
    BY <1>3, <2>1 DEF TakeCommand
  <2>3. PanelOK([cmd |-> panel.cmd, data |-> s, stray |-> TRUE])
    BY <2>1 DEF PanelOK
  <2>4. Spoiled([cmd |-> panel.cmd, data |-> s, stray |-> TRUE])
    BY DEF Spoiled
  <2>5. QED BY <1>3, <2>2, <2>3, <2>4
<1>4. QED BY <1>2, <1>3

LEMMA DbiNext == DbiInv /\ MapInv /\ MapInv' /\ [Next]_vars => DbiInv'
<1> SUFFICES ASSUME DbiInv, MapInv, MapInv', [Next]_vars PROVE DbiInv'
  OBVIOUS
<1> USE DEF Sending, Sent
<1>1. CASE SpiInit
  <2>1. map' # NoMap
    <3>1. PICK e : map' = Map(DriverConfig, e)
      BY <1>1 DEF SpiInit
    <3>2. map' = Map(DriverConfig, "BIG")
      BY <3>1, DriverAccepted, EndianHasNoEffect
    <3>3. QED BY <3>2, MapIsThere
  <2>2. op = NoOp /\ op' = op
    BY <1>1 DEF SpiInit, DbiInv, OpInv
  <2>3. Typed' /\ OpInv' /\ LineInv'
    BY <1>1, <2>1, <2>2 DEF SpiInit, DbiInv, Typed, OpInv, LineInv, value
  <2>4. PanelInv'
    BY <1>1 DEF SpiInit, DbiInv, PanelInv, PanelOK, InOrder, Swapped, SwapByte
  <2>5. SendInv' /\ DoneInv'
    BY <1>1, <2>2 DEF SpiInit, SendInv, DoneInv
  <2>6. QED BY <2>3, <2>4, <2>5 DEF DbiInv
<1>2. CASE SpiInitFails
  <2>1. PanelInv' /\ SendInv' /\ DoneInv'
    BY <1>2, QuietStep DEF SpiInitFails, value
  <2>2. Typed' /\ OpInv' /\ LineInv'
    BY <1>2 DEF SpiInitFails, DbiInv, Typed, OpInv, LineInv, value
  <2>3. QED BY <2>1, <2>2 DEF DbiInv
<1>3. CASE Write
  <2>1. op' \in Writes
    <3>1. PICK o \in Writes :
             op' = IF Single(map, o.len) THEN [o EXCEPT !.src = "heap"] ELSE o
      BY <1>3 DEF Write
    <3>2. [o EXCEPT !.src = "heap"] \in Writes
      BY DEF Writes
    <3>3. QED BY <3>1, <3>2
  <2>2. Typed' /\ OpInv' /\ LineInv'
    BY <1>3, <2>1 DEF Write, DbiInv, Typed, OpInv, LineInv
  <2>3. PanelInv'
    BY <1>3 DEF Write, DbiInv, PanelInv, PanelOK, InOrder, Swapped, SwapByte
  <2>4. SendInv' /\ DoneInv'
    BY <1>3 DEF Write, SendInv, DoneInv
  <2>5. QED BY <2>2, <2>3, <2>4 DEF DbiInv
<1>4. CASE WriteNoMemory \/ ReadNoMemory
  <2>1. op' \in Writes \cup {ReadOp}
    BY <1>4 DEF WriteNoMemory, ReadNoMemory
  <2>2. Typed' /\ OpInv' /\ LineInv'
    BY <1>4, <2>1 DEF WriteNoMemory, ReadNoMemory, DbiInv, Typed, OpInv,
       LineInv, value
  <2>3. PanelInv'
    BY <1>4 DEF WriteNoMemory, ReadNoMemory, DbiInv, PanelInv, PanelOK,
       InOrder, Swapped, SwapByte
  <2>4. SendInv' /\ DoneInv'
    BY <1>4 DEF WriteNoMemory, ReadNoMemory, SendInv, DoneInv
  <2>5. QED BY <2>2, <2>3, <2>4 DEF DbiInv
<1>5. CASE Read
  <2>1. op' = ReadOp /\ ReadOp \notin Writes
    BY <1>5 DEF Read, ReadOp, Writes
  <2>2. Typed' /\ OpInv' /\ LineInv'
    BY <1>5, <2>1 DEF Read, DbiInv, Typed, OpInv, LineInv
  <2>3. PanelInv'
    BY <1>5 DEF Read, DbiInv, PanelInv, PanelOK, InOrder, Swapped, SwapByte
  <2>4. SendInv' /\ DoneInv'
    BY <1>5 DEF Read, SendInv, DoneInv
  <2>5. QED BY <2>2, <2>3, <2>4 DEF DbiInv
<1>6. CASE GetTxBuf \/ GetTxBufFails
  <2>1. PanelInv' /\ SendInv' /\ DoneInv'
    BY <1>6, QuietStep DEF GetTxBuf, GetTxBufFails, value
  <2>2. Typed'
    <3>1. CASE mspi
      BY <1>6, <3>1 DEF GetTxBuf, GetTxBufFails, DbiInv, Typed
    <3>2. CASE ~mspi /\ GetTxBuf
      BY <3>2 DEF GetTxBuf, DbiInv, Typed
    <3>3. CASE ~mspi /\ GetTxBufFails
      BY <3>3 DEF GetTxBufFails, DbiInv, Typed
    <3>4. QED BY <1>6, <3>1, <3>2, <3>3
  <2>3. OpInv' /\ LineInv'
    BY <1>6 DEF GetTxBuf, GetTxBufFails, DbiInv, Typed, OpInv, LineInv, value
  <2>4. QED BY <2>1, <2>2, <2>3 DEF DbiInv
<1>7. CASE DcLow
  <2>1. PanelInv' /\ SendInv' /\ DoneInv'
    BY <1>7, QuietStep DEF DcLow, value
  <2>2. dc' \in {0, 1} /\ dcBad' \in BOOLEAN /\ (~dcBad' => dc' = 0)
    BY <1>7, SetDcFacts DEF DcLow, DbiInv, Typed
  <2>3. Typed' /\ OpInv' /\ LineInv'
    BY <1>7, <2>2 DEF DcLow, DbiInv, Typed, OpInv, LineInv, value
  <2>4. QED BY <2>1, <2>3 DEF DbiInv
<1>8. CASE DcHigh
  <2>1. PanelInv' /\ SendInv' /\ DoneInv'
    BY <1>8, QuietStep DEF DcHigh, value
  <2>2. /\ dc' \in {0, 1} /\ dcBad' \in BOOLEAN /\ (~dcBad' => dc' = 1)
        /\ dcBad => dcBad'
    BY <1>8, SetDcFacts DEF DcHigh, DbiInv, Typed
  <2>3. Typed' /\ OpInv' /\ LineInv'
    BY <1>8, <2>2 DEF DcHigh, DbiInv, Typed, OpInv, LineInv, value, Spoiled
  <2>4. QED BY <2>1, <2>3 DEF DbiInv
<1>9. CASE SendCommand
  <2>1. /\ op \in Writes /\ off = 0 /\ op.len \in Nat /\ dc \in {0, 1}
        /\ PanelOK(panel)
    BY <1>9, WritesType DEF SendCommand, DbiInv, OpInv, Typed, PanelInv
  <2>2. PICK q : q = TakeCommand(op.reg) /\ panel' = q
    BY <1>9 DEF SendCommand
  <2>3. PanelOK(q) /\ (Spoiled(q) \/ Holds(q, op, 0))
    BY <2>1, <2>2, TakeCommandFacts
  <2>4. ~dcBad => ~Spoiled(q) /\ Holds(q, op, 0)
    BY <1>9, <2>1, <2>2, TakeCommandFacts DEF SendCommand, DbiInv, LineInv
  <2>5. PanelInv'
    BY <2>2, <2>3 DEF PanelInv, PanelOK, InOrder, Swapped, SwapByte
  <2>6. SendInv'
    BY <1>9, <2>1, <2>2, <2>3 DEF SendCommand, SendInv, Holds, ByteAt, Swap,
       UsesKernel, Spoiled, value
  <2>7. DoneInv'
    BY <1>9, <2>1, <2>2, <2>4 DEF SendCommand, DoneInv, Holds, ByteAt, Swap,
       UsesKernel
  <2>8. Typed' /\ OpInv'
    BY <1>9, <2>1 DEF SendCommand, DbiInv, Typed, OpInv, value
  <2>9. LineInv'
    BY <1>9, <2>2, <2>4 DEF SendCommand, LineInv, Spoiled
  <2>10. QED BY <2>5, <2>6, <2>7, <2>8, <2>9 DEF DbiInv
<1>10. CASE SendCommandFails
  <2>1. op \in Writes /\ dc \in {0, 1}
    BY <1>10 DEF SendCommandFails, DbiInv, OpInv, Typed
  <2>2. PanelOK(panel) /\ PanelOK(TakeCommand(op.reg))
    BY <2>1, TakeCommandFacts DEF DbiInv, PanelInv
  <2>3. PICK q : panel' = q /\ PanelOK(q)
    BY <1>10, <2>2 DEF SendCommandFails
  <2>4. PanelInv'
    BY <2>3 DEF PanelInv, PanelOK, InOrder, Swapped, SwapByte
  <2>5. Typed' /\ OpInv' /\ LineInv' /\ SendInv' /\ DoneInv'
    BY <1>10 DEF SendCommandFails, DbiInv, Typed, OpInv, LineInv, SendInv,
       DoneInv, value
  <2>6. QED BY <2>4, <2>5 DEF DbiInv
<1>11. CASE SendChunk
  <2>1. /\ op \in Writes /\ op.len \in Nat /\ off \in Nat /\ off < op.len
        /\ dc \in {0, 1} /\ master \in Masters
        /\ Spoiled(panel) \/ Holds(panel, op, off)
        /\ PanelOK(panel)
    BY <1>11, WritesType DEF SendChunk, DbiInv, OpInv, Typed, SendInv, PanelInv
  <2>2. PICK c \in Nat \ {0} : c = Chunk /\ off + c <= op.len
    BY <2>1, ChunkFacts
  <2>3. PICK q : q = TakeData(panel, Bytes(op, off, c)) /\ panel' = q
    BY <1>11, <2>2 DEF SendChunk
  <2>4. /\ Spoiled(q) \/ Holds(q, op, off + c)
        /\ dc = 1 /\ ~Spoiled(panel) => Holds(q, op, off + c)
        /\ PanelOK(q)
    BY <2>1, <2>2, <2>3, SendMore
  <2>5. ~dcBad => Holds(q, op, off + c) /\ ~Spoiled(q)
    <3>1. ASSUME ~dcBad PROVE Holds(q, op, off + c)
      BY <1>11, <2>4, <3>1 DEF SendChunk, DbiInv, LineInv
    <3>2. off + c \in 0..op.len
      BY <2>1, <2>2
    <3>3. QED BY <2>1, <3>1, <3>2, HoldsPanel
  <2>6. /\ off' = off + c
        /\ \/ off + c = op.len /\ ret' = 0 /\ pc' = "idle"
           \/ off + c < op.len /\ ret' = ret /\ pc' = "value"
        /\ UNCHANGED <<master, map, tx_buf, mspi, op, boff, dc, dcBad>>
        /\ ~UsesKernel(op) /\ pc = "value"
    BY <1>11, <2>1, <2>2 DEF SendChunk, ChunkDone
  <2>7. PanelInv'
    BY <2>3, <2>4 DEF PanelInv, PanelOK, InOrder, Swapped, SwapByte
  <2>8. SendInv'
    BY <2>3, <2>4, <2>6 DEF SendInv, Holds, ByteAt, Swap, UsesKernel, Spoiled
  <2>9. DoneInv'
    BY <2>3, <2>5, <2>6 DEF DoneInv, Holds, ByteAt, Swap, UsesKernel
  <2>10. Typed' /\ OpInv'
    BY <2>1, <2>2, <2>6 DEF DbiInv, Typed, OpInv, UsesKernel, Swap
  <2>11. LineInv'
    BY <2>3, <2>5, <2>6 DEF DbiInv, LineInv, Spoiled
  <2>12. QED BY <2>7, <2>8, <2>9, <2>10, <2>11 DEF DbiInv
<1>12. CASE SendChunkFails \/ SendBufFails
  <2>1. PICK m \in Nat, n \in Nat :
           /\ op \in Writes /\ m + n <= op.len
           /\ Spoiled(panel) \/ Holds(panel, op, m)
           /\ panel' = TakeData(panel, Bytes(op, m, n))
    <3>1. op \in Writes /\ op.len \in Nat /\ master \in Masters
      BY <1>12, WritesType DEF SendChunkFails, SendBufFails, DbiInv, OpInv,
         Typed
    <3>2. CASE SendChunkFails
      <4>1. /\ off \in Nat /\ off < op.len
            /\ Spoiled(panel) \/ Holds(panel, op, off)
        BY <3>2 DEF SendChunkFails, DbiInv, OpInv, SendInv
      <4>2. Chunk \in Nat /\ off + Chunk <= op.len
        BY <3>1, <4>1, ChunkFacts
      <4>3. PICK n \in 0..Chunk : panel' = TakeData(panel, Bytes(op, off, n))
        BY <3>2 DEF SendChunkFails
      <4>4. n \in Nat /\ off + n <= op.len
        BY <3>1, <4>1, <4>2
      <4>5. QED BY <3>1, <4>1, <4>3, <4>4
    <3>3. CASE SendBufFails
      <4>1. /\ boff \in Nat /\ boff < op.len /\ off = 0 /\ UsesKernel(op)
            /\ Spoiled(panel) \/ Holds(panel, op, boff)
        BY <3>3 DEF SendBufFails, DbiInv, OpInv, SendInv
      <4>2. Chunk = op.len
        BY <3>1, <4>1, ChunkFacts
      <4>3. PICK n \in 0..Least(Chunk - boff, BufChunk) :
               panel' = TakeData(panel, Bytes(op, boff, n))
        BY <3>3 DEF SendBufFails
      <4>4. n \in Nat /\ boff + n <= op.len
        BY <3>1, <4>1, <4>2, SizesAssumption DEF Least
      <4>5. QED BY <3>1, <4>1, <4>3, <4>4
    <3>4. QED BY <1>12, <3>2, <3>3
  <2>2. PICK q : panel' = q /\ PanelOK(q)
    BY <2>1, SendMore DEF DbiInv, Typed, PanelInv
  <2>3. PanelInv'
    BY <2>2 DEF PanelInv, PanelOK, InOrder, Swapped, SwapByte
  <2>4. Typed' /\ OpInv' /\ LineInv' /\ SendInv' /\ DoneInv'
    BY <1>12 DEF SendChunkFails, SendBufFails, DbiInv, Typed, OpInv, LineInv,
       SendInv, DoneInv, value
  <2>5. QED BY <2>3, <2>4 DEF DbiInv
<1>13. CASE StartBuf
  <2>1. pc = "value" /\ off = 0 /\ UsesKernel(op)
    BY <1>13 DEF StartBuf, DbiInv, OpInv
  <2>2. PanelInv'
    BY <1>13 DEF StartBuf, DbiInv, PanelInv, PanelOK, InOrder, Swapped,
       SwapByte
  <2>3. SendInv'
    BY <1>13, <2>1 DEF StartBuf, DbiInv, SendInv, Holds, ByteAt, Swap,
       UsesKernel, Spoiled
  <2>4. Typed' /\ OpInv' /\ LineInv' /\ DoneInv'
    BY <1>13, <2>1 DEF StartBuf, DbiInv, Typed, OpInv, LineInv, DoneInv,
       UsesKernel, Swap, Spoiled
  <2>5. QED BY <2>2, <2>3, <2>4 DEF DbiInv
<1>14. CASE SendBuf
  <2>1. /\ op \in Writes /\ op.len \in Nat /\ boff \in Nat /\ boff < op.len
        /\ dc \in {0, 1} /\ master \in Masters /\ off = 0 /\ UsesKernel(op)
        /\ Spoiled(panel) \/ Holds(panel, op, boff)
        /\ PanelOK(panel)
    BY <1>14, WritesType DEF SendBuf, DbiInv, OpInv, Typed, SendInv, PanelInv
  <2>2. Chunk = op.len
    BY <2>1, ChunkFacts
  <2>3. PICK c \in Nat \ {0} :
           c = Least(Chunk - boff, BufChunk) /\ boff + c <= op.len
    BY <2>1, <2>2, SizesAssumption DEF Least
  <2>4. PICK q : q = TakeData(panel, Bytes(op, boff, c)) /\ panel' = q
    BY <1>14, <2>3 DEF SendBuf
  <2>5. /\ Spoiled(q) \/ Holds(q, op, boff + c)
        /\ dc = 1 /\ ~Spoiled(panel) => Holds(q, op, boff + c)
        /\ PanelOK(q)
    BY <2>1, <2>3, <2>4, SendMore
  <2>6. ~dcBad => Holds(q, op, boff + c) /\ ~Spoiled(q)
    <3>1. ASSUME ~dcBad PROVE Holds(q, op, boff + c)
      BY <1>14, <2>5, <3>1 DEF SendBuf, DbiInv, LineInv
    <3>2. boff + c \in 0..op.len
      BY <2>1, <2>3
    <3>3. QED BY <2>1, <3>1, <3>2, HoldsPanel
  <2>7. /\ boff' = boff + c
        /\ \/ /\ boff + c = op.len /\ ret' = 0 /\ pc' = "idle"
              /\ off' = op.len
           \/ /\ boff + c < op.len /\ ret' = ret /\ pc' = "buf"
              /\ off' = off
        /\ UNCHANGED <<master, map, tx_buf, mspi, op, dc, dcBad>>
        /\ pc = "buf"
    BY <1>14, <2>1, <2>2, <2>3 DEF SendBuf, ChunkDone
  <2>8. PanelInv'
    BY <2>4, <2>5 DEF PanelInv, PanelOK, InOrder, Swapped, SwapByte
  <2>9. SendInv'
    BY <2>4, <2>5, <2>7 DEF SendInv, Holds, ByteAt, Swap, UsesKernel, Spoiled
  <2>10. DoneInv'
    BY <2>4, <2>6, <2>7 DEF DoneInv, Holds, ByteAt, Swap, UsesKernel
  <2>11. Typed' /\ OpInv'
    BY <2>1, <2>3, <2>7 DEF DbiInv, Typed, OpInv, UsesKernel, Swap
  <2>12. LineInv'
    BY <2>4, <2>6, <2>7 DEF DbiInv, LineInv, Spoiled
  <2>13. QED BY <2>8, <2>9, <2>10, <2>11, <2>12 DEF DbiInv
<1>15. CASE ReadDone
  <2>1. op = ReadOp /\ op.len = 0 /\ dc \in {0, 1}
    BY <1>15 DEF ReadDone, DbiInv, OpInv, Typed, ReadOp
  <2>2. PanelOK(panel) /\ PanelOK(TakeCommand(op.reg))
    BY <2>1, TakeCommandFacts DEF DbiInv, PanelInv
  <2>3. PICK q : panel' = q /\ PanelOK(q)
    BY <1>15, <2>2 DEF ReadDone
  <2>4. PanelInv'
    BY <2>3 DEF PanelInv, PanelOK, InOrder, Swapped, SwapByte
  <2>5. Typed' /\ OpInv' /\ LineInv' /\ SendInv'
    BY <1>15, <2>1 DEF ReadDone, DbiInv, Typed, OpInv, LineInv, SendInv, value
  <2>6. DoneInv'
    <3>1. SUFFICES ASSUME ret' = 0, ~dcBad PROVE Holds(panel, op, op.len)'
      BY <1>15 DEF ReadDone, DoneInv
    <3>2. PICK r : r = TakeCommand(op.reg) /\ panel' = r
      BY <1>15, <3>1 DEF ReadDone
    <3>3. dc = 0
      BY <1>15, <3>1 DEF ReadDone, DbiInv, LineInv
    <3>4. Holds(r, op, 0)
      BY <2>1, <2>2, <3>2, <3>3, TakeCommandFacts
    <3>5. QED
      BY <1>15, <2>1, <3>2, <3>4 DEF ReadDone, Holds, ByteAt, Swap, UsesKernel
  <2>7. QED BY <2>4, <2>5, <2>6 DEF DbiInv
<1>16. CASE ReadCrashes \/ Crashed \/ UNCHANGED vars
  <2>1. PanelInv' /\ SendInv' /\ DoneInv'
    BY <1>16, QuietStep DEF ReadCrashes, Crashed, vars, value
  <2>2. Typed' /\ OpInv' /\ LineInv'
    BY <1>16 DEF ReadCrashes, Crashed, vars, DbiInv, Typed, OpInv, LineInv,
       value, UsesKernel, Swap, Spoiled
  <2>3. QED BY <2>1, <2>2 DEF DbiInv
<1>17. QED
  BY <1>1, <1>2, <1>3, <1>4, <1>5, <1>6, <1>7, <1>8, <1>9, <1>10, <1>11,
     <1>12, <1>13, <1>14, <1>15, <1>16 DEF Next, Request, Step

LEMMA DbiAlways == Spec => [](DbiInv /\ MapInv)
BY DbiInit, DbiNext, MapInvInit, MapInvNext, PTL DEF Spec

-----------------------------------------------------------------------------
(* What the runs check                                                     *)

(* Every variable keeps its type, and neither chunk loop runs past the end *)
(* of the value, whatever the lengths of values, transfers and chunks.     *)
THEOREM TransportTypeCorrect == Spec => []TypeOK
<1>1. DbiInv => TypeOK
  <2> SUFFICES ASSUME DbiInv PROVE TypeOK
    OBVIOUS
  <2>1. op.len \in Nat
    BY WritesType DEF DbiInv, OpInv
  <2>2. off \in 0..op.len \/ pc = "idle"
    <3>1. off \in Nat /\ boff \in Nat
      BY DEF DbiInv, OpInv
    <3>2. CASE pc \in {"dc_high", "value"}
      BY <2>1, <3>1, <3>2 DEF DbiInv, OpInv, Sending, Sent
    <3>3. CASE pc \notin {"idle", "dc_high", "value"}
      <4>1. off = 0
        BY <3>3 DEF DbiInv, OpInv, Typed
      <4>2. QED BY <2>1, <4>1
    <3>4. QED BY <3>2, <3>3
  <2>3. ASSUME pc = "buf" PROVE boff < Chunk
    <3>1. /\ op \in Writes /\ off = 0 /\ boff < op.len /\ UsesKernel(op)
          /\ boff \in Nat /\ master \in Masters
      BY <2>3 DEF DbiInv, OpInv, Typed, Sending, Sent
    <3>2. off < op.len
      BY <2>1, <3>1
    <3>3. Chunk = op.len
      BY <3>1, <3>2, ChunkFacts
    <3>4. QED BY <3>1, <3>3
  <2>4. /\ panel.cmd \in {"none", "param", "ram", "read", "junk"}
        /\ Len(panel.data) \in 0..FrameBytes /\ panel.stray \in BOOLEAN
    BY SizesAssumption DEF DbiInv, PanelInv, PanelOK
  <2>5. QED
    BY <2>2, <2>3, <2>4 DEF DbiInv, Typed, OpInv, TypeOK
<1>2. QED BY <1>1, DbiAlways, PTL

(* The panel never has anything but the first bytes of a value in their    *)
(* places: tinydrm_spi_transfer() and spi_buf_transfer() repeat nothing,   *)
(* skip nothing and mix no two values, wherever a transfer breaks off.     *)
THEOREM BytesStayInPlace == Spec => []InPlace
<1>1. DbiInv => InPlace
  <2> SUFFICES ASSUME DbiInv, NEW k \in 1..Len(panel.data)
               PROVE  \/ panel.cmd = "param" /\ panel.data[k] = k - 1
                      \/ /\ panel.cmd = "ram"
                         /\ panel.data[k] \div 2 = (k - 1) \div 2
                         /\ k % 2 = 0 => panel.data[k] # panel.data[k - 1]
    BY DEF InPlace
  <2>1. panel.cmd \in {"param", "ram"} /\ Len(panel.data) \in Nat
    BY DEF DbiInv, PanelInv, PanelOK
  <2>2. k \in Nat /\ k - 1 \in Nat
    BY <2>1
  <2>3. CASE panel.cmd = "param"
    BY <2>3 DEF DbiInv, PanelInv, PanelOK, InOrder
  <2>4. CASE panel.cmd = "ram" /\ InOrder(panel.data)
    <3>1. panel.data[k] = k - 1
      BY <2>4 DEF InOrder
    <3>2. ASSUME k % 2 = 0 PROVE panel.data[k - 1] = k - 2
      <4>1. k - 1 \in 1..Len(panel.data)
        BY <2>1, <2>2, <3>2
      <4>2. QED BY <2>2, <2>4, <4>1 DEF InOrder
    <3>3. QED BY <2>2, <2>4, <3>1, <3>2
  <2>5. CASE panel.cmd = "ram" /\ Swapped(panel.data)
    <3>1. panel.data[k] = SwapByte(k - 1)
      BY <2>5 DEF Swapped
    <3>2. SwapByte(k - 1) \div 2 = (k - 1) \div 2
      BY <2>2, SwapByteFacts
    <3>3. ASSUME k % 2 = 0 PROVE panel.data[k] # panel.data[k - 1]
      <4>1. k - 1 \in 1..Len(panel.data) /\ (k - 1) % 2 = 1
        BY <2>1, <2>2, <3>3
      <4>2. panel.data[k - 1] = SwapByte((k - 1) - 1)
        BY <2>5, <4>1 DEF Swapped
      <4>3. SwapByte(k - 1) # SwapByte((k - 1) - 1)
        BY <2>2, <4>1, SwapByteFacts
      <4>4. QED BY <3>1, <4>2, <4>3
    <3>4. QED BY <2>5, <3>1, <3>2, <3>3
  <2>6. QED
    BY <2>1, <2>3, <2>4, <2>5 DEF DbiInv, PanelInv, PanelOK
<1>2. QED BY <1>1, DbiAlways, PTL

(* A failing write to the D/C line spoils no operation but its own, for    *)
(* every length: the next one whose own writes to the line go well has its *)
(* command taken, and its whole value when it succeeds, whatever the line  *)
(* and the panel were left in.                                             *)
THEOREM FaultStaysLocal == Spec => []FaultIsLocal
<1>1. DbiInv => FaultIsLocal
  <2> SUFFICES ASSUME DbiInv, ~dcBad
               PROVE  /\ pc \in Sending
                            => panel.cmd = op.reg /\ ~Spoiled(panel)
                      /\ pc = "idle" /\ ret = 0 /\ op # NoOp
                            => /\ panel.cmd = op.reg /\ ~Spoiled(panel)
                               /\ Len(panel.data) = op.len
    BY DEF FaultIsLocal, Sending
  <2>1. ASSUME pc \in Sending PROVE panel.cmd = op.reg /\ ~Spoiled(panel)
    BY <2>1 DEF DbiInv, SendInv, LineInv, Holds
  <2>2. ASSUME pc = "idle", ret = 0, op # NoOp
        PROVE  /\ panel.cmd = op.reg /\ ~Spoiled(panel)
               /\ Len(panel.data) = op.len
    <3>1. op \in Writes \cup {ReadOp}
      BY <2>2 DEF DbiInv, OpInv
    <3>2. op.reg # "junk"
      BY <3>1 DEF Writes, ReadOp
    <3>3. QED BY <2>2, <3>2 DEF DbiInv, DoneInv, Holds, Spoiled
  <2>3. QED BY <2>1, <2>2
<1>2. QED BY <1>1, DbiAlways, PTL

(* Pixels that are swapped on their way, by tinydrm_spi_transfer() or by   *)
(* the kernel, arrive high byte first in every chunk.                      *)
THEOREM SwappedArriveInOrder == Spec => []SwappedOrder
<1>1. DbiInv => SwappedOrder
  <2> SUFFICES ASSUME DbiInv, UsesKernel(op) \/ Swap(op), ~dcBad,
                      pc \in {"value", "buf"} \/ (pc = "idle" /\ ret = 0),
                      NEW k \in 1..Len(panel.data)
               PROVE  panel.data[k] = SwapByte(k - 1)
    BY DEF SwappedOrder
  <2>1. op \in Writes
    BY DEF DbiInv, OpInv, UsesKernel, Swap, ReadOp, NoOp
  <2>2. PICK n : Holds(panel, op, n)
    <3>1. op # NoOp
      BY <2>1 DEF NoOp, Writes
    <3>2. QED
      BY <3>1 DEF DbiInv, SendInv, LineInv, DoneInv, Sending
  <2>3. QED
    BY <2>2 DEF Holds, ByteAt
<1>2. QED BY <1>1, DbiAlways, PTL

(* An operation that reports success, over a D/C line that works, has put  *)
(* the command and the whole value into the panel, byte for byte.          *)
THEOREM SuccessIsComplete == Spec => []DoneInv
<1>1. DbiInv => DoneInv
  BY DEF DbiInv
<1>2. QED BY <1>1, DbiAlways, PTL

-----------------------------------------------------------------------------
(* The transport implements BusService                                     *)

(* The panel as the bus sees it.                                           *)
Abs(p) == IF Spoiled(p) THEN [cmd |-> "junk", n |-> 0]
          ELSE [cmd |-> p.cmd, n |-> Len(p.data)]

(* What a transfer may leave in the panel, and what a success leaves.      *)
BusHeld == Bus!Held \cup Bus!Garbled
BusDone == {p \in Bus!Held : p.cmd = op.reg /\ p.n = op.len} \cup Bus!Garbled

LEMMA AbsFacts ==
    /\ \A p : Spoiled(p) => Abs(p) = Bus!Junk
    /\ \A p, o, n : Holds(p, o, n) /\ o.reg # "junk"
                       => Abs(p) = [cmd |-> o.reg, n |-> n]
<1>1. ASSUME NEW p, Spoiled(p) PROVE Abs(p) = Bus!Junk
  BY <1>1 DEF Abs, Bus!Junk
<1>2. ASSUME NEW p, NEW o, NEW n, Holds(p, o, n), o.reg # "junk"
      PROVE  Abs(p) = [cmd |-> o.reg, n |-> n]
  BY <1>2 DEF Abs, Holds, Spoiled
<1>3. QED BY <1>1, <1>2

(* The command goes out.                                                   *)
LEMMA AbsCommand ==
    ASSUME DbiInv, pc \in {"command", "read"}, NEW q, q = TakeCommand(op.reg)
    PROVE  Abs(q) \in BusHeld /\ (op.len = 0 => Abs(q) \in BusDone)
<1>1. /\ op \in Writes \cup {ReadOp} /\ dc \in {0, 1} /\ PanelOK(panel)
      /\ op.reg # "junk"
  BY DEF DbiInv, OpInv, Typed, PanelInv, Writes, ReadOp
<1>2. CASE dc = 0
  <2>1. Holds(q, op, 0)
    BY <1>1, <1>2, TakeCommandFacts
  <2>2. Abs(q) = [cmd |-> op.reg, n |-> 0]
    BY <1>1, <2>1, AbsFacts
  <2>3. Bus!Held = {[cmd |-> op.reg, n |-> 0]}
    BY DEF Bus!Held, Working
  <2>4. QED BY <2>2, <2>3 DEF BusHeld, BusDone
<1>3. CASE dc = 1
  <2>1. Spoiled(q)
    BY <1>1, <1>3, TakeCommandFacts
  <2>2. dcBad
    BY <1>3 DEF DbiInv, LineInv
  <2>3. Bus!Garbled = {Bus!Junk}
    BY <2>2 DEF Bus!Garbled
  <2>4. QED BY <2>1, <2>3, AbsFacts DEF BusHeld, BusDone
<1>4. QED BY <1>1, <1>2, <1>3

(* More bytes of the value go out.                                         *)
LEMMA AbsMore ==
    ASSUME DbiInv, pc \in {"value", "buf"}, NEW n \in Nat, Sent + n <= op.len,
           NEW q, q = TakeData(panel, Bytes(op, Sent, n))
    PROVE  Abs(q) \in BusHeld /\ (Sent + n = op.len => Abs(q) \in BusDone)
<1>1. PICK m \in Nat : m = Sent
  BY DEF DbiInv, OpInv, Sent
<1>2. /\ op \in Writes /\ dc \in {0, 1} /\ op.len \in Nat
      /\ Spoiled(panel) \/ Holds(panel, op, m)
      /\ PanelOK(panel) /\ op.reg # "junk"
  BY <1>1, WritesType DEF DbiInv, OpInv, Typed, SendInv, Sending, PanelInv,
     Writes
<1>3. /\ Spoiled(q) \/ Holds(q, op, m + n)
      /\ dc = 1 /\ ~Spoiled(panel) => Holds(q, op, m + n)
  BY <1>1, <1>2, SendMore
<1>4. CASE Spoiled(q)
  <2>1. dcBad
    <3>1. SUFFICES ASSUME ~dcBad PROVE FALSE
      OBVIOUS
    <3>2. Holds(q, op, m + n) /\ m + n \in 0..op.len
      BY <1>1, <1>2, <1>3, <3>1 DEF DbiInv, LineInv, Sending
    <3>3. QED BY <1>2, <1>4, <3>2, HoldsPanel
  <2>2. Bus!Garbled = {Bus!Junk}
    BY <2>1 DEF Bus!Garbled
  <2>3. QED BY <1>4, <2>2, AbsFacts DEF BusHeld, BusDone
<1>5. CASE ~Spoiled(q)
  <2>1. ~Spoiled(panel)
    <3>1. Spoiled(panel) => q \in {panel, Panel("junk")}
      BY <1>2, TakeJunk
    <3>2. QED BY <1>5, <3>1, JunkPanel
  <2>2. /\ Abs(q) = [cmd |-> op.reg, n |-> m + n]
        /\ Abs(panel) = [cmd |-> op.reg, n |-> m]
    BY <1>2, <1>3, <1>5, <2>1, AbsFacts
  <2>3. op.reg # "junk"
    BY <1>2 DEF Writes
  <2>4. Bus!Held = {p \in [cmd : {Abs(panel).cmd}, n : Abs(panel).n..op.len] :
                       p.cmd # "junk"}
    BY DEF Bus!Held, Working, Abs
  <2>5. Bus!Held = {p \in [cmd : {op.reg}, n : m..op.len] : p.cmd # "junk"}
    BY <2>2, <2>4
  <2>6. m + n \in m..op.len
    BY <1>1, <1>2
  <2>7. [cmd |-> op.reg, n |-> m + n] \in Bus!Held
    BY <2>3, <2>5, <2>6
  <2>8. QED BY <1>1, <2>2, <2>7 DEF BusHeld, BusDone
<1>6. QED BY <1>4, <1>5

LEMMA WorkingRequest ==
    ASSUME NEW o \in Writes \cup {ReadOp}
    PROVE  /\ [reg |-> o.reg, len |-> o.len] # NoOp
           /\ [reg |-> o.reg, len |-> o.len]
                 \in [reg : {"param", "ram", "read"}, len : Nat]
<1>1. o.reg \in {"param", "ram", "read"} /\ o.len \in Nat
  BY WritesType DEF Writes, ReadOp
<1>2. [reg |-> o.reg, len |-> o.len].reg # NoOp.reg
  BY <1>1 DEF NoOp
<1>3. QED BY <1>1, <1>2

LEMMA WorkingOp ==
    ASSUME DbiInv, Working
    PROVE  op \in Writes \cup {ReadOp}
BY DEF DbiInv, OpInv, Typed, Working, Sending

LEMMA ToFail ==
    ASSUME DbiInv, Working, pc' = "idle", ret' = -1, UNCHANGED <<map, dcBad>>,
           Abs(panel') \in {Abs(panel)} \cup BusHeld
    PROVE  Bus!Fail
<1>1. [reg |-> op.reg, len |-> op.len] # NoOp
  BY WorkingOp, WorkingRequest
<1>2. QED
  BY <1>1 DEF Bus!Fail, Working, Abs, BusHeld

LEMMA ToSucceed ==
    ASSUME DbiInv, Working, pc' = "idle", ret' = 0, UNCHANGED <<map, dcBad>>,
           Abs(panel') \in BusDone
    PROVE  Bus!Succeed
<1>1. [reg |-> op.reg, len |-> op.len] # NoOp
  BY WorkingOp, WorkingRequest
<1>2. {p \in Bus!Held : p.cmd = op.reg /\ p.n = op.len} =
      {p \in Bus!Held :
          /\ p.cmd = (IF Working THEN [reg |-> op.reg, len |-> op.len]
                      ELSE NoOp).reg
          /\ p.n = (IF Working THEN [reg |-> op.reg, len |-> op.len]
                    ELSE NoOp).len}
  OBVIOUS
<1>3. QED
  BY <1>1, <1>2 DEF Bus!Succeed, Working, Abs, BusDone

LEMMA ToTransfer ==
    ASSUME DbiInv, Working, pc' \in Sending,
           UNCHANGED <<map, op, ret, dcBad>>, Abs(panel') \in BusHeld
    PROVE  Bus!Transfer
<1>1. [reg |-> op.reg, len |-> op.len] # NoOp
  BY WorkingOp, WorkingRequest
<1>2. QED
  BY <1>1 DEF Bus!Transfer, Working, Sending, Abs, BusHeld

LEMMA ToStutter ==
    ASSUME UNCHANGED <<map, op, ret, dcBad, panel>>, Working' = Working,
           (pc \in Sending)' = (pc \in Sending)
    PROVE  UNCHANGED Bus!vars
BY DEF Bus!vars, Working, Sending

LEMMA BusInit == Init => Bus!Init
BY DEF Init, Bus!Init, Working, Panel, Spoiled

LEMMA BusRequest == DbiInv /\ MapInv' /\ Request => Bus!Next
<1> SUFFICES ASSUME DbiInv, MapInv', Request PROVE Bus!Next
  OBVIOUS
<1>1. CASE SpiInit
  <2>1. map = NoMap /\ map' # NoMap
    <3>1. PICK e : map' = Map(DriverConfig, e)
      BY <1>1 DEF SpiInit
    <3>2. map' = Map(DriverConfig, "BIG")
      BY <3>1, DriverAccepted, EndianHasNoEffect
    <3>3. QED BY <1>1, <3>2, MapIsThere DEF SpiInit, DbiInv, Typed
  <2>2. Bus!Open
    BY <1>1, <2>1 DEF SpiInit, Bus!Open, Working
  <2>3. QED BY <2>2 DEF Bus!Next
<1>2. CASE SpiInitFails \/ WriteNoMemory \/ ReadNoMemory
  <2>1. Bus!Refuse
    BY <1>2 DEF SpiInitFails, WriteNoMemory, ReadNoMemory, Bus!Refuse, Working
  <2>2. QED BY <2>1 DEF Bus!Next
<1>3. CASE Write \/ Read
  <2>1. op' \in Writes \cup {ReadOp}
    <3>1. CASE Read
      BY <3>1 DEF Read
    <3>2. CASE Write
      <4>1. PICK o \in Writes :
               op' = IF Single(map, o.len) THEN [o EXCEPT !.src = "heap"]
                     ELSE o
        BY <3>2 DEF Write
      <4>2. [o EXCEPT !.src = "heap"] \in Writes
        BY DEF Writes
      <4>3. QED BY <4>1, <4>2
    <3>3. QED BY <1>3, <3>1, <3>2
  <2>2. [reg |-> op'.reg, len |-> op'.len]
           \in [reg : {"param", "ram", "read"}, len : Nat]
    BY <2>1, WorkingRequest
  <2>3. /\ pc = "idle" /\ pc' \in {"tx_buf", "read"} /\ map' = map
        /\ map # NoMap /\ panel' = panel /\ ret' = ret /\ dcBad' \in BOOLEAN
    BY <1>3 DEF Write, Read, DbiInv, Typed
  <2>4. Bus!Ask
    BY <2>2, <2>3 DEF Bus!Ask, Working
  <2>5. QED BY <2>4 DEF Bus!Next
<1>4. QED BY <1>1, <1>2, <1>3 DEF Request

LEMMA BusStep == DbiInv /\ Step => [Bus!Next]_(Bus!vars)
<1> SUFFICES ASSUME DbiInv, Step PROVE Bus!Next \/ UNCHANGED Bus!vars
  OBVIOUS
<1>1. CASE GetTxBuf \/ StartBuf \/ ReadCrashes
  BY <1>1, ToStutter DEF GetTxBuf, StartBuf, ReadCrashes, Working, Sending
<1>2. CASE GetTxBufFails
  <2>1. Bus!Fail
    BY <1>2, ToFail DEF GetTxBufFails, Working
  <2>2. QED BY <2>1 DEF Bus!Next
<1>3. CASE DcLow \/ DcHigh
  <2>1. /\ Working /\ Working' /\ (pc \in Sending <=> pc' \in Sending)
        /\ UNCHANGED <<map, op, ret, panel>>
        /\ dcBad' = dcBad \/ dcBad' = TRUE
    BY <1>3 DEF DcLow, DcHigh, SetDc, Working, Sending
  <2>2. CASE dcBad' = dcBad
    BY <2>1, <2>2, ToStutter
  <2>3. CASE dcBad' = TRUE
    <3>1. [reg |-> op.reg, len |-> op.len] # NoOp
      BY <2>1, WorkingOp, WorkingRequest
    <3>2. Bus!Fault
      BY <2>1, <2>3, <3>1 DEF Bus!Fault, Sending
    <3>3. QED BY <3>2 DEF Bus!Next
  <2>4. QED BY <2>1, <2>2, <2>3
<1>4. CASE SendCommand
  <2>1. /\ Working /\ Abs(panel') \in BusHeld
        /\ op.len = 0 => Abs(panel') \in BusDone
    BY <1>4, AbsCommand DEF SendCommand, Working
  <2>2. CASE op.len = 0
    <3>1. Bus!Succeed
      BY <1>4, <2>1, <2>2, ToSucceed DEF SendCommand
    <3>2. QED BY <3>1 DEF Bus!Next
  <2>3. CASE op.len # 0
    <3>1. Bus!Transfer
      BY <1>4, <2>1, <2>3, ToTransfer DEF SendCommand, Sending
    <3>2. QED BY <3>1 DEF Bus!Next
  <2>4. QED BY <2>2, <2>3
<1>5. CASE SendCommandFails
  <2>1. Abs(TakeCommand(op.reg)) \in BusHeld
    BY <1>5, AbsCommand DEF SendCommandFails
  <2>2. Bus!Fail
    BY <1>5, <2>1, ToFail DEF SendCommandFails, Working
  <2>3. QED BY <2>2 DEF Bus!Next
<1>6. CASE SendChunk
  <2>1. /\ op \in Writes /\ op.len \in Nat /\ off \in Nat /\ off < op.len
        /\ master \in Masters /\ pc = "value" /\ Sent = off
    BY <1>6, WritesType DEF SendChunk, DbiInv, OpInv, Typed, Sending, Sent
  <2>2. PICK c \in Nat : c = Chunk /\ Sent + c <= op.len
    BY <2>1, ChunkFacts
  <2>3. panel' = TakeData(panel, Bytes(op, Sent, c))
    BY <1>6, <2>1, <2>2 DEF SendChunk
  <2>4. /\ Abs(panel') \in BusHeld
        /\ Sent + c = op.len => Abs(panel') \in BusDone
    BY <2>1, <2>2, <2>3, AbsMore
  <2>5. CASE Sent + c = op.len
    <3>1. Bus!Succeed
      BY <1>6, <2>1, <2>2, <2>4, <2>5, ToSucceed
         DEF SendChunk, ChunkDone, Working
    <3>2. QED BY <3>1 DEF Bus!Next
  <2>6. CASE Sent + c # op.len
    <3>1. Bus!Transfer
      BY <1>6, <2>1, <2>2, <2>4, <2>6, ToTransfer
         DEF SendChunk, ChunkDone, Working, Sending
    <3>2. QED BY <3>1 DEF Bus!Next
  <2>7. QED BY <2>5, <2>6
<1>7. CASE SendBuf
  <2>1. /\ op \in Writes /\ op.len \in Nat /\ boff \in Nat /\ boff < op.len
        /\ master \in Masters /\ off = 0 /\ UsesKernel(op)
        /\ pc = "buf" /\ Sent = boff
    BY <1>7, WritesType DEF SendBuf, DbiInv, OpInv, Typed, Sending, Sent
  <2>2. Chunk = op.len
    BY <2>1, ChunkFacts
  <2>3. PICK c \in Nat :
           c = Least(Chunk - boff, BufChunk) /\ Sent + c <= op.len
    BY <2>1, <2>2, SizesAssumption DEF Least
  <2>4. panel' = TakeData(panel, Bytes(op, Sent, c))
    BY <1>7, <2>1, <2>3 DEF SendBuf
  <2>5. /\ Abs(panel') \in BusHeld
        /\ Sent + c = op.len => Abs(panel') \in BusDone
    BY <2>1, <2>3, <2>4, AbsMore
  <2>6. CASE Sent + c = op.len
    <3>1. Bus!Succeed
      BY <1>7, <2>1, <2>2, <2>3, <2>5, <2>6, ToSucceed
         DEF SendBuf, ChunkDone, Working
    <3>2. QED BY <3>1 DEF Bus!Next
  <2>7. CASE Sent + c # op.len
    <3>1. Bus!Transfer
      BY <1>7, <2>1, <2>2, <2>3, <2>5, <2>7, ToTransfer
         DEF SendBuf, ChunkDone, Working, Sending
    <3>2. QED BY <3>1 DEF Bus!Next
  <2>8. QED BY <2>6, <2>7
<1>8. CASE SendChunkFails \/ SendBufFails
  <2>1. PICK n \in Nat : /\ Sent + n <= op.len
                         /\ panel' = TakeData(panel, Bytes(op, Sent, n))
    <3>1. op \in Writes /\ op.len \in Nat /\ master \in Masters
      BY <1>8, WritesType DEF SendChunkFails, SendBufFails, DbiInv, OpInv,
         Typed, Sending
    <3>2. CASE SendChunkFails
      <4>1. off \in Nat /\ off < op.len /\ Sent = off
        BY <3>2 DEF SendChunkFails, DbiInv, OpInv, Sending, Sent
      <4>2. Chunk \in Nat /\ off + Chunk <= op.len
        BY <3>1, <4>1, ChunkFacts
      <4>3. PICK n \in 0..Chunk : panel' = TakeData(panel, Bytes(op, off, n))
        BY <3>2 DEF SendChunkFails
      <4>4. n \in Nat /\ off + n <= op.len
        BY <3>1, <4>1, <4>2
      <4>5. QED BY <4>1, <4>3, <4>4
    <3>3. CASE SendBufFails
      <4>1. /\ boff \in Nat /\ boff < op.len /\ off = 0 /\ UsesKernel(op)
            /\ Sent = boff
        BY <3>3 DEF SendBufFails, DbiInv, OpInv, Sending, Sent
      <4>2. Chunk = op.len
        BY <3>1, <4>1, ChunkFacts
      <4>3. PICK n \in 0..Least(Chunk - boff, BufChunk) :
               panel' = TakeData(panel, Bytes(op, boff, n))
        BY <3>3 DEF SendBufFails
      <4>4. n \in Nat /\ boff + n <= op.len
        BY <3>1, <4>1, <4>2, SizesAssumption DEF Least
      <4>5. QED BY <4>1, <4>3, <4>4
    <3>4. QED BY <1>8, <3>2, <3>3
  <2>2. Abs(panel') \in BusHeld
    BY <1>8, <2>1, AbsMore DEF SendChunkFails, SendBufFails
  <2>3. Bus!Fail
    BY <1>8, <2>2, ToFail DEF SendChunkFails, SendBufFails, Working
  <2>4. QED BY <2>3 DEF Bus!Next
<1>9. CASE ReadDone
  <2>1. op = ReadOp /\ op.len = 0 /\ pc = "read"
    BY <1>9 DEF ReadDone, DbiInv, OpInv, ReadOp
  <2>2. /\ Abs(TakeCommand(op.reg)) \in BusHeld
        /\ Abs(TakeCommand(op.reg)) \in BusDone
    BY <2>1, AbsCommand
  <2>3. CASE ret' = 0
    <3>1. Bus!Succeed
      BY <1>9, <2>2, <2>3, ToSucceed DEF ReadDone, Working
    <3>2. QED BY <3>1 DEF Bus!Next
  <2>4. CASE ret' = -1
    <3>1. Bus!Fail
      BY <1>9, <2>2, <2>4, ToFail DEF ReadDone, Working
    <3>2. QED BY <3>1 DEF Bus!Next
  <2>5. QED BY <1>9, <2>3, <2>4 DEF ReadDone
<1>10. QED
  BY <1>1, <1>2, <1>3, <1>4, <1>5, <1>6, <1>7, <1>8, <1>9 DEF Step

(* The transport of mipi-dbi.c, tinydrm_spi_transfer() and spi_sync() is   *)
(* the bus that BusService promises, for every master, every length of a   *)
(* value and of a chunk, and whatever fails.                               *)
THEOREM BusRefinement == Spec => ImplementsBus
<1>1. Init => Bus!Init
  BY BusInit
<1>2. DbiInv /\ MapInv /\ MapInv' /\ [Next]_vars => [Bus!Next]_(Bus!vars)
  <2> SUFFICES ASSUME DbiInv, MapInv', [Next]_vars
               PROVE  Bus!Next \/ UNCHANGED Bus!vars
    OBVIOUS
  <2>1. CASE Request
    BY <2>1, BusRequest
  <2>2. CASE Step
    BY <2>2, BusStep
  <2>3. CASE Crashed \/ UNCHANGED vars
    BY <2>3, ToStutter DEF Crashed, vars, Working, Sending
  <2>4. QED BY <2>1, <2>2, <2>3 DEF Next
<1>3. QED
  BY <1>1, <1>2, DbiAlways, PTL DEF Spec, ImplementsBus, Bus!Spec

-----------------------------------------------------------------------------
(* An operation ends                                                       *)

(* The most steps an operation still takes.  A piece of the value costs at *)
(* most one step per byte, and one to start the kernel's buffer.           *)
StepsLeft ==
    IF pc = "tx_buf" THEN (2 * op.len) + 4
    ELSE IF pc = "dc_low" THEN (2 * op.len) + 3
    ELSE IF pc = "command" THEN (2 * op.len) + 2
    ELSE IF pc = "dc_high" THEN (2 * op.len) + 1
    ELSE IF pc = "value" THEN 2 * (op.len - off)
    ELSE IF pc = "buf" THEN (2 * (op.len - off)) - (boff + 1)
    ELSE IF pc = "read" THEN 1
    ELSE 0

Closer == StepsLeft \in 1..((2 * op.len) + 4) /\ StepsLeft' \in 0..(StepsLeft - 1)

(* Every operation ends: whatever fails, each step of regmap_raw_write(),  *)
(* tinydrm_spi_transfer(), spi_buf_transfer() or regmap_raw_read() brings  *)
(* it closer to its return, and it has at most 2 len + 4 of them.  With    *)
(* the fairness of FairSpec this is Returns, for every length.             *)
THEOREM OperationsEnd == Spec => [][Step => Closer]_vars
<1>1. DbiInv /\ [Next]_vars => [Step => Closer]_vars
  <2> SUFFICES ASSUME DbiInv, Step PROVE Closer
    OBVIOUS
  <2>1. PICK len \in Nat : op.len = len
    BY WritesType DEF DbiInv, OpInv, Writes, ReadOp, NoOp
  <2>2. off \in Nat /\ boff \in Nat
    BY DEF DbiInv, OpInv
  <2>3. CASE GetTxBuf \/ GetTxBufFails \/ DcLow
    BY <2>1, <2>3 DEF GetTxBuf, GetTxBufFails, DcLow, Closer, StepsLeft
  <2>4. CASE SendCommand \/ SendCommandFails
    BY <2>1, <2>4 DEF SendCommand, SendCommandFails, Closer, StepsLeft
  <2>5. CASE DcHigh
    <3>1. off = 0 /\ len > 0
      BY <2>1, <2>5 DEF DcHigh, DbiInv, OpInv, Sending, Sent
    <3>2. QED
      BY <2>1, <2>5, <3>1 DEF DcHigh, value, Closer, StepsLeft
  <2>6. CASE SendChunk
    <3>1. /\ off < len /\ pc = "value" /\ op \in Writes /\ master \in Masters
      BY <2>1, <2>6 DEF SendChunk, DbiInv, OpInv, Typed, Sending, Sent
    <3>2. PICK c \in Nat \ {0} : c = Chunk /\ off + c <= len
      BY <2>1, <2>2, <3>1, ChunkFacts
    <3>3. /\ op' = op /\ off' = off + c /\ pc' \in {"idle", "value"}
      BY <2>6, <3>2 DEF SendChunk, ChunkDone
    <3>4. StepsLeft = 2 * (len - off)
      BY <2>1, <3>1 DEF StepsLeft
    <3>5. StepsLeft' \in {0, 2 * (len - (off + c))}
      BY <2>1, <3>3 DEF StepsLeft
    <3>6. QED
      BY <2>1, <2>2, <3>1, <3>2, <3>4, <3>5 DEF Closer
  <2>7. CASE StartBuf
    <3>1. off < len /\ pc = "value"
      BY <2>1, <2>7 DEF StartBuf, DbiInv, OpInv, Sending, Sent
    <3>2. QED
      BY <2>1, <2>2, <2>7, <3>1 DEF StartBuf, Closer, StepsLeft
  <2>8. CASE SendBuf
    <3>1. /\ boff < len /\ pc = "buf" /\ op \in Writes /\ master \in Masters
          /\ off = 0 /\ UsesKernel(op)
      BY <2>1, <2>8 DEF SendBuf, DbiInv, OpInv, Typed, Sending, Sent
    <3>2. Chunk = len
      BY <2>1, <2>2, <3>1, ChunkFacts
    <3>3. PICK c \in Nat \ {0} : c = Least(Chunk - boff, BufChunk)
                                  /\ boff + c <= len
      BY <2>1, <2>2, <3>1, <3>2, SizesAssumption DEF Least
    <3>4. /\ op' = op /\ boff' = boff + c
          /\ \/ pc' = "idle"
             \/ pc' = "buf" /\ off' = off /\ boff + c # len
      BY <2>1, <2>8, <3>1, <3>2, <3>3 DEF SendBuf, ChunkDone
    <3>5. StepsLeft = (2 * len) - (boff + 1)
      BY <2>1, <3>1 DEF StepsLeft
    <3>6. StepsLeft' = 0 \/ (/\ StepsLeft' = (2 * len) - ((boff + c) + 1)
                             /\ boff + c < len)
      BY <2>1, <2>2, <3>1, <3>3, <3>4 DEF StepsLeft
    <3>7. QED
      BY <2>1, <2>2, <3>1, <3>3, <3>5, <3>6 DEF Closer
  <2>9. CASE SendChunkFails \/ SendBufFails
    <3>1. /\ pc = "value" => off < len
          /\ pc = "buf" => boff < len /\ off = 0
          /\ pc \in {"value", "buf"} /\ pc' = "idle"
      BY <2>1, <2>9 DEF SendChunkFails, SendBufFails, DbiInv, OpInv,
         Sending, Sent
    <3>2. QED
      BY <2>1, <2>2, <3>1 DEF Closer, StepsLeft
  <2>10. CASE ReadDone \/ ReadCrashes
    BY <2>1, <2>10 DEF ReadDone, ReadCrashes, Closer, StepsLeft
  <2>11. QED
    BY <2>3, <2>4, <2>5, <2>6, <2>7, <2>8, <2>9, <2>10 DEF Step
<1>2. QED BY <1>1, DbiAlways, PTL DEF Spec
=============================================================================
