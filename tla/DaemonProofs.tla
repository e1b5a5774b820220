---------------------------- MODULE DaemonProofs ----------------------------
(***************************************************************************)
(* Proofs about module Daemon: it uses the bus only when its registration  *)
(* is complete, and main() is in a handler exactly while the pipe is at    *)
(* work.  Its steps are steps of MipiDbi by construction, so what is       *)
(* proved of the pipe holds for it (DaemonIsPipe).                         *)
(***************************************************************************)
EXTENDS Daemon, TLAPS

-----------------------------------------------------------------------------
(* The pipe                                                                *)

LEMMA StartStep ==
    Begin \/ Backlight \/ Register \/ Leave \/ LeaveInterrupted \/ Post
        => [Next]_vars
BY DEF Begin, Backlight, Register, Leave, LeaveInterrupted, Post, Next

LEMMA HandleStep == Handle => Enable \/ Disable \/ Dirty
BY DEF Handle

LEMMA PipeIsStep ==
    Pipe => PipeStep \/ WriteMemory \/ WriteMemoryFails
BY DEF Pipe

LEMMA ServeStep == ServeNext => [Next]_vars
<1>1. Read \/ HandleNothing \/ Reply => UNCHANGED vars
  BY DEF Read, HandleNothing, Reply
<1>2. Handle => Next
  BY HandleStep DEF Next, EnableNext, DisableNext, DirtyNext
<1>3. Pipe => Next
  BY PipeIsStep DEF PipeStep, Next, EnableNext, DisableNext, DirtyNext
<1>4. QED
  BY <1>1, <1>2, <1>3 DEF ServeNext

(* Each step of Daemon takes one of MipiDbi with it, or none.              *)
LEMMA DaemonIsPipe == DaemonSpec => Spec
<1>1. DaemonInit => Init
  BY DEF DaemonInit
<1>2. [DaemonNext]_daemonVars => [Next]_vars
  BY StartStep, ServeStep DEF DaemonNext, daemonVars
<1>3. QED
  BY <1>1, <1>2, PTL DEF DaemonSpec, Spec

-----------------------------------------------------------------------------
(* The registration                                                        *)

Fds == {"udrm", "control"}

Busy == pc \notin {"down", "probe", "idle"}

(* How far the registration has come at each step of main(), and that the  *)
(* pipe is at work in the handler only.                                    *)
RegInv ==
    /\ at \in {"create", "control"} => fds = {"udrm"}
    /\ at = "drvdata" => fds = Fds /\ utinydrm
    /\ at \in {"read", "handle", "pipe", "reply"}
          => fds = Fds /\ utinydrm /\ drvdata
    /\ at # "pipe" => ~Busy

LEMMA RegInvInit == DaemonInit => RegInv
BY DEF DaemonInit, Init, St!Init, RegInv, Busy

LEMMA RegInvStart ==
    RegInv /\ (Begin \/ Backlight \/ Register \/ Leave \/ LeaveInterrupted)
        => RegInv'
<1> SUFFICES ASSUME RegInv,
                    Begin \/ Backlight \/ Register \/ Leave \/ LeaveInterrupted
             PROVE  RegInv'
  OBVIOUS
<1> USE DEF RegInv, Busy
<1>1. CASE Begin
  BY <1>1 DEF Begin, St!Begin, St!Advance, ProbeReset
<1>2. CASE Backlight
  BY <1>2 DEF Backlight, St!GetBacklight, St!Advance, ProbeBacklight
<1>3. CASE Register
  <2>1. pc' = pc
    BY <1>3 DEF Register, vars
  <2>2. CASE St!GetDc \/ St!SpiInit \/ St!PipeInit
    BY <2>1, <2>2 DEF St!GetDc, St!SpiInit, St!PipeInit, St!Advance
  <2>3. CASE St!OpenUdrm
    BY <2>1, <2>3 DEF St!OpenUdrm, St!Advance
  <2>4. CASE St!CreateDevice
    <3>1. at = "create" /\ at' = "control" /\ fds' = fds
      BY <2>4 DEF St!CreateDevice, St!Advance
    <3>2. QED
      BY <3>1, <2>1
  <2>5. CASE St!OpenControl
    BY <2>1, <2>5 DEF St!OpenControl, St!Advance, Fds
  <2>6. CASE St!SetDrvdata
    BY <2>1, <2>6 DEF St!SetDrvdata, St!Advance
  <2>7. QED
    BY <1>3, <2>2, <2>3, <2>4, <2>5, <2>6 DEF Register
<1>4. CASE Leave
  BY <1>4 DEF Leave, St!Leave, Exit
<1>5. CASE LeaveInterrupted
  BY <1>5 DEF LeaveInterrupted, St!Leave, ProbeInterrupted, start
<1>6. QED
  BY <1>1, <1>2, <1>3, <1>4, <1>5

LEMMA RegInvServe == RegInv /\ (ServeNext \/ Post) => RegInv'
<1> SUFFICES ASSUME RegInv, ServeNext \/ Post PROVE RegInv'
  OBVIOUS
<1>1. UNCHANGED <<fds, utinydrm, drvdata>>
  BY DEF ServeNext, Read, HandleNothing, Handle, Pipe, Reply, Post, start
<1>2. CASE Read \/ HandleNothing \/ Reply \/ Post
  <2>1. pc' = pc
    BY <1>2 DEF Read, HandleNothing, Reply, Post, vars
  <2>2. at' = at \/ (/\ at \in {"read", "handle", "reply"}
                     /\ at' \in {"read", "handle", "reply"})
    BY <1>2 DEF Read, HandleNothing, Reply, Post
  <2>3. QED
    BY <1>1, <2>1, <2>2 DEF RegInv, Busy
<1>3. CASE Handle \/ Pipe
  <2>1. /\ at \in {"handle", "pipe"}
        /\ at' = IF pc' = "idle" THEN "reply" ELSE "pipe"
    BY <1>3 DEF Handle, Pipe
  <2>2. QED
    BY <1>1, <2>1 DEF RegInv, Busy
<1>4. QED
  BY <1>2, <1>3 DEF ServeNext

LEMMA RegInvAlways == DaemonSpec => []RegInv
<1>1. RegInv /\ UNCHANGED daemonVars => RegInv'
  BY DEF daemonVars, vars, start, RegInv, Busy
<1>2. RegInv /\ [DaemonNext]_daemonVars => RegInv'
  BY <1>1, RegInvStart, RegInvServe DEF DaemonNext
<1>3. QED
  BY <1>2, RegInvInit, PTL DEF DaemonSpec

(* No transfer before the driver data and the descriptors are there, for   *)
(* any number of registers, any boards and rotations.                      *)
THEOREM BusIsUsable == DaemonSpec => []BusUsable
<1>1. RegInv => BusUsable
  BY DEF RegInv, Busy, BusUsable, Fds
<1>2. QED
  BY <1>1, RegInvAlways, PTL

-----------------------------------------------------------------------------
(* The mode                                                                *)

Registered == {"control", "drvdata", "read", "handle", "pipe", "reply"}

(* The rotation was legal when the mode was made from it, and neither has  *)
(* changed since.                                                          *)
ModeInv ==
    /\ at \in {"open", "create"} \cup Registered
          => /\ rotation \in St!LegalRotations
             /\ mode = St!RotateMode(St!PanelMode, rotation)
    /\ node => at \in Registered

LEMMA ModeInvInit == DaemonInit => ModeInv
BY DEF DaemonInit, St!Init, ModeInv, Registered

LEMMA ModeInvNext == ModeInv /\ [DaemonNext]_daemonVars => ModeInv'
<1> SUFFICES ASSUME ModeInv, [DaemonNext]_daemonVars PROVE ModeInv'
  OBVIOUS
<1> USE DEF ModeInv, Registered
<1>1. CASE Begin \/ Backlight
  BY <1>1 DEF Begin, Backlight, St!Begin, St!GetBacklight, St!Advance, St!start
<1>2. CASE Register
  <2>1. CASE St!GetDc \/ St!SpiInit
    BY <2>1 DEF St!GetDc, St!SpiInit, St!Advance, St!start
  <2>2. CASE St!PipeInit
    BY <2>2 DEF St!PipeInit, St!Advance
  <2>3. CASE St!OpenUdrm \/ St!CreateDevice \/ St!OpenControl \/ St!SetDrvdata
    BY <2>3 DEF St!OpenUdrm, St!CreateDevice, St!OpenControl, St!SetDrvdata,
                St!Advance
  <2>4. QED
    BY <1>2, <2>1, <2>2, <2>3 DEF Register
<1>3. CASE Leave \/ LeaveInterrupted
  BY <1>3 DEF Leave, LeaveInterrupted, St!Leave, start
<1>4. CASE Post \/ ServeNext \/ UNCHANGED daemonVars
  <2>1. UNCHANGED start
    BY <1>4 DEF Post, ServeNext, Read, HandleNothing, Handle, Pipe, Reply,
                daemonVars
  <2>2. at' = at \/ (/\ at \in {"read", "handle", "pipe", "reply"}
                     /\ at' \in {"read", "handle", "pipe", "reply"})
    BY <1>4 DEF Post, ServeNext, Read, HandleNothing, Handle, Pipe, Reply,
                daemonVars
  <2>3. QED
    BY <2>1, <2>2 DEF start
<1>5. QED
  BY <1>1, <1>2, <1>3, <1>4 DEF DaemonNext

(* The mode the kernel is given has the orientation of the panel memory.   *)
THEOREM ModeIsThePanels == DaemonSpec => []ModeFitsPanel
<1>1. ModeInv => ModeFitsPanel
  BY DEF ModeInv, ModeFitsPanel, St!RotateMode, St!PanelMode, St!Swapped,
         St!LegalRotations, St!AddressMode
<1>2. QED
  BY <1>1, ModeInvInit, ModeInvNext, PTL DEF DaemonSpec

-----------------------------------------------------------------------------
(* The type                                                                *)

(* A step of the pipe ends in the pipe or idle, never in the start.        *)
LEMMA PipeStays ==
    Enable \/ Disable \/ Dirty \/ PipeStep \/ WriteMemory \/ WriteMemoryFails
        => pc' \notin {"down", "probe"}
<1>1. Enable \/ Disable \/ Dirty => pc' \notin {"down", "probe"}
  BY DEF Enable, Disable, Dirty, PowerDown
<1>2. WriteMemory \/ WriteMemoryFails => pc' \notin {"down", "probe"}
  BY DEF WriteMemory, WriteMemoryFails
<1>3. PipeStep => pc' \notin {"down", "probe"}
  BY DEF PipeStep, EnableIsOn, EnableIsOff, ResetLow, ResetHigh, SoftReset,
         SoftResetFails, SetDisplayOff, Configure, ExitSleep, SetDisplayOn,
         SetColumnAddress, SetPageAddress, EnableBacklight, BlankNoMemory,
         BlankColumn, BlankPage, BlankMemory, PowerDown, DisableDisplayOff, EnterSleep,
         PowerOff
<1>4. QED
  BY <1>1, <1>2, <1>3

LEMMA TypeInit == DaemonInit => DaemonTypeOK
BY DEF DaemonInit, Init, St!Init, DaemonTypeOK, St!StartOK

LEMMA TypeStart ==
    DaemonTypeOK /\ (Begin \/ Backlight \/ Register \/ Leave \/ LeaveInterrupted)
        => DaemonTypeOK'
<1> SUFFICES ASSUME DaemonTypeOK,
                    Begin \/ Backlight \/ Register \/ Leave \/ LeaveInterrupted
             PROVE  DaemonTypeOK'
  OBVIOUS
<1> USE DEF DaemonTypeOK, St!StartOK, St!Starting, St!Running
<1>1. CASE Begin
  BY <1>1 DEF Begin, St!Begin, St!Advance, St!start, ProbeReset, channel, answers
<1>2. CASE Backlight
  BY <1>2 DEF Backlight, St!GetBacklight, St!Advance, St!start, ProbeBacklight,
              channel, answers
<1>3. CASE Register
  <2>1. pc' = pc /\ UNCHANGED <<chan, ev, told, flushed>>
    BY <1>3 DEF Register, vars, channel, answers
  <2>2. CASE St!GetDc \/ St!SpiInit
    BY <2>1, <2>2 DEF St!GetDc, St!SpiInit, St!Advance, St!start
  <2>3. CASE St!PipeInit
    BY <2>1, <2>3 DEF St!PipeInit, St!Advance, St!RotateMode
  <2>4. CASE St!OpenUdrm \/ St!OpenControl
    BY <2>1, <2>4 DEF St!OpenUdrm, St!OpenControl, St!Advance
  <2>5. CASE St!CreateDevice \/ St!SetDrvdata
    BY <2>1, <2>5 DEF St!CreateDevice, St!SetDrvdata, St!Advance
  <2>6. QED
    BY <1>3, <2>2, <2>3, <2>4, <2>5 DEF Register
<1>4. CASE Leave
  BY <1>4 DEF Leave, St!Leave, Exit, Abandon
<1>5. CASE LeaveInterrupted
  BY <1>5 DEF LeaveInterrupted, St!Leave, ProbeInterrupted, Abandon, start
<1>6. QED
  BY <1>1, <1>2, <1>3, <1>4, <1>5

LEMMA TypeServe == DaemonTypeOK /\ (ServeNext \/ Post) => DaemonTypeOK'
<1> SUFFICES ASSUME DaemonTypeOK, ServeNext \/ Post PROVE DaemonTypeOK'
  OBVIOUS
<1> DEFINE Typed == /\ chan \in {"idle", "posted", "taken"}
                    /\ ev \in Events \cup {NoEvent}
                    /\ told \in {"on", "off"}
                    /\ flushed \in BOOLEAN
           Agree == /\ at = "pipe" <=> pc \notin {"down", "probe", "idle"}
                    /\ chan = "taken" <=> at \in {"handle", "pipe", "reply"}
<1>1. UNCHANGED start
  BY DEF ServeNext, Read, HandleNothing, Handle, Pipe, Reply, Post
<1>2. at' = at \/ at' \in St!Running
  BY DEF ServeNext, Read, HandleNothing, Handle, Pipe, Reply, Post, St!Running
<1>3. (St!StartOK)'
  BY <1>1, <1>2 DEF DaemonTypeOK, St!StartOK, start
<1>4. CASE Read \/ HandleNothing \/ Reply \/ Post
  <2>1. Typed'
    BY <1>4 DEF Read, HandleNothing, Reply, Post, channel, answers, DaemonTypeOK
  <2>2. Agree'
    BY <1>4 DEF Read, HandleNothing, Reply, Post, channel, vars, DaemonTypeOK
  <2>3. QED
    BY <1>3, <2>1, <2>2 DEF DaemonTypeOK
<1>5. CASE Handle \/ Pipe
  <2>1. /\ chan' = chan /\ ev' = ev /\ told' = told
        /\ at \in {"handle", "pipe"}
        /\ at' = IF pc' = "idle" THEN "reply" ELSE "pipe"
    BY <1>5 DEF Handle, Pipe, channel
  <2>2. flushed' \in BOOLEAN
    BY <1>5 DEF Handle, Pipe, DaemonTypeOK
  <2>3. pc' \notin {"down", "probe"}
    BY <1>5, HandleStep, PipeIsStep, PipeStays
  <2>4. Agree'
    BY <2>1, <2>3 DEF DaemonTypeOK
  <2>5. Typed'
    BY <2>1, <2>2 DEF DaemonTypeOK
  <2>6. QED
    BY <1>3, <2>4, <2>5 DEF DaemonTypeOK
<1>6. QED
  BY <1>4, <1>5 DEF ServeNext

(* Every variable keeps its type, and main() is in a handler exactly while *)
(* the pipe is at work.                                                    *)
THEOREM DaemonTypeCorrect == DaemonSpec => []DaemonTypeOK
<1>1. DaemonTypeOK /\ UNCHANGED daemonVars => DaemonTypeOK'
  BY DEF daemonVars, vars, start, channel, answers, DaemonTypeOK, St!StartOK
<1>2. DaemonTypeOK /\ [DaemonNext]_daemonVars => DaemonTypeOK'
  BY <1>1, TypeStart, TypeServe DEF DaemonNext
<1>3. QED
  BY <1>2, TypeInit, PTL DEF DaemonSpec
=============================================================================
