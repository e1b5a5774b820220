------------------------- MODULE DaemonAnswerProofs -------------------------
(***************************************************************************)
(* What the answers of the daemon mean: proofs of DisabledIsDark, OnIsUp   *)
(* and FlushedIsShown, and that the daemon implements LightService.        *)
(***************************************************************************)
EXTENDS DaemonProofs, MipiDbiProofs

(* An enabled display has been sent a frame and is lit, unless a write     *)
(* went wrong.                                                             *)
EnabledShows ==
    /\ enabled /\ ~lost => panel.memory # "junk"
    /\ enabled /\ ~ledLost => led = board.backlight

(* Where the pipe is at each place of main(): a handler runs the steps of  *)
(* its own pipe function.                                                  *)
PlaceInv ==
    /\ at = "down" => pc = "down"
    /\ at \in {"dc", "backlight"} => pc = "probe"
    /\ at \in St!Starting \ {"dc", "backlight"} => pc = "idle"
    /\ at \in {"read", "handle", "reply"} => pc = "idle"
    /\ at = "pipe" => \/ ev = "PIPE_ENABLE" /\ pc \in Enabling
                      \/ ev = "FB_DIRTY" /\ pc \in Flushing
                      \/ ev = "PIPE_DISABLE" /\ pc \in Stopping
    /\ chan # "idle" => ev \in Events

(* A daemon that is not ready has told nothing, and its flags are clear.   *)
Fresh ==
    /\ at \notin St!Running => told = "off" /\ ~flushed
    /\ at \in St!Starting => ~prepared /\ ~enabled

(* With a backlight, a display the kernel has disabled is neither enabled  *)
(* nor prepared, up to the end of the next enable.                         *)
OffIsOff ==
    board.backlight /\ told = "off" /\ at \in St!Running
        => /\ ~enabled
           /\ prepared => at = "reply" /\ ev = "PIPE_ENABLE"

(* At the end of a disable.                                                *)
Disabled ==
    at = "reply" /\ ev = "PIPE_DISABLE"
        => ~enabled /\ (board.backlight => ~prepared)

(* The kernel has been told, or is about to be told, that the pipe is on.  *)
SaysOn ==
    \/ told = "on" /\ at \in {"read", "handle"}
    \/ told = "on" /\ at \in {"pipe", "reply"} /\ ev \in {"FB_DIRTY", "OTHER"}
    \/ at = "reply" /\ ev = "PIPE_ENABLE"

OnIsPrepared == SaysOn /\ ~lost /\ ~board.regulator => prepared

FlushedEnabled == flushed => enabled \/ pc = "backlight"

AnswerInv == /\ PlaceInv /\ Fresh /\ OffIsOff /\ Disabled
             /\ OnIsPrepared /\ FlushedEnabled

-----------------------------------------------------------------------------
(* An enabled display is shown                                             *)

LEMMA ShowsInit == Init => EnabledShows
BY DEF Init, EnabledShows

(* The light is switched on after a whole frame, and nothing but a write   *)
(* that goes wrong takes either away while the display is enabled.         *)
LEMMA ShowsNext == IInv /\ EnabledShows /\ [Next]_vars => EnabledShows'
<1> SUFFICES ASSUME IInv, EnabledShows, [Next]_vars PROVE EnabledShows'
  OBVIOUS
<1> USE DEF EnabledShows
<1>0. /\ panel \in Panels /\ board \in Board /\ led \in BOOLEAN
      /\ lost \in BOOLEAN /\ ledLost \in BOOLEAN /\ enabled \in BOOLEAN
      /\ led => board.backlight
      /\ pc \in Enabling \cup {"probe"} => ~enabled
      /\ pc = "backlight" /\ ~lost => panel.memory = "frame"
      /\ pc = "memory" /\ ~lost => panel.column = kind /\ panel.page = kind
      /\ kind \in Kinds
  BY BoardsAssumption DEF IInv, TypeOK, Progress, Dark, FlagsAt, Flush
<1>1. CASE ProbeReset
  BY <1>1 DEF ProbeReset
<1>2. CASE ProbeBacklight \/ ProbeInterrupted \/ Exit
  <2>1. ProbeBacklight => ~enabled'
    BY <1>0 DEF ProbeBacklight, flags
  <2>2. ProbeInterrupted \/ Exit
           => UNCHANGED <<board, panel, led, lost, ledLost, enabled>>
    BY DEF ProbeInterrupted, Exit, hardware, history, flags
  <2>3. QED BY <1>2, <2>1, <2>2
<1>3. CASE EnableNext
  <2>1. CASE Enable
    BY <2>1 DEF Enable, hardware, history, flags
  <2>2. CASE ~Enable
    <3>1. pc \in Enabling
      BY <1>3, <2>2 DEF EnableNext, Enabling, EnableIsOn, EnableIsOff, ResetLow,
         ResetHigh, SoftReset, SoftResetFails, SetDisplayOff, Configure,
         ExitSleep, SetDisplayOn
    <3>2. enabled' = enabled
      BY <1>3, <2>2 DEF EnableNext, EnableIsOn, EnableIsOff, ResetLow,
         ResetHigh, SoftReset, SoftResetFails, SetDisplayOff, Configure,
         ExitSleep, SetDisplayOn, flags
    <3>3. QED BY <1>0, <3>1, <3>2
  <2>3. QED BY <2>1, <2>2
<1>4. CASE Dirty
  BY <1>4 DEF Dirty, hardware, history, flags
<1>5. CASE SetColumnAddress
  BY <1>0, <1>5 DEF SetColumnAddress, WriteWindow, Sent, flags, Panels
<1>6. CASE SetPageAddress
  BY <1>0, <1>6 DEF SetPageAddress, WriteWindow, Sent, flags, Panels
<1>7. CASE WriteMemory
  BY <1>0, <1>7 DEF WriteMemory, Sent, Memory, flags, Panels, Kinds
<1>8. CASE WriteMemoryFails
  BY <1>0, <1>8 DEF WriteMemoryFails, Failed, flags
<1>9. CASE EnableBacklight
  <2>1. panel' = panel /\ lost' = lost /\ board' = board
    BY <1>9 DEF EnableBacklight
  <2>2. CASE board.backlight
    <3>1. board.backlight = TRUE
      BY <1>0, <2>2 DEF Board
    <3>2. ledLost' = TRUE \/ led' = TRUE
      BY <1>9, <2>2 DEF EnableBacklight, SetLed
    <3>3. pc = "backlight"
      BY <1>9 DEF EnableBacklight
    <3>4. QED BY <1>0, <2>1, <3>1, <3>2, <3>3
  <2>3. CASE ~board.backlight
    BY <1>0, <1>9, <2>1, <2>3 DEF EnableBacklight, Board
  <2>4. QED BY <2>2, <2>3
<1>10. CASE Disable
  BY <1>10 DEF Disable
<1>11. CASE BlankColumn
  BY <1>0, <1>11 DEF BlankColumn, Write, Sent, Failed, flags, Panels
<1>12. CASE BlankPage
  BY <1>0, <1>12 DEF BlankPage, Write, Sent, Failed, flags, Panels
<1>13. CASE BlankMemory
  BY <1>0, <1>13 DEF BlankMemory, Write, Sent, Failed, flags, Panels
<1>14. CASE DisableDisplayOff
  BY <1>0, <1>14 DEF DisableDisplayOff, Write, Sent, Failed, flags, Panels
<1>15. CASE EnterSleep
  BY <1>0, <1>15 DEF EnterSleep, Write, Sent, Failed, Panels
<1>16. CASE BlankNoMemory \/ PowerOff \/ UNCHANGED vars
  BY <1>16 DEF BlankNoMemory, PowerOff, hardware, history, flags, vars
<1>17. QED
  BY <1>1, <1>2, <1>3, <1>4, <1>5, <1>6, <1>7, <1>8, <1>9, <1>10, <1>11,
     <1>12, <1>13, <1>14, <1>15, <1>16 DEF Next, DirtyNext, DisableNext

(* In the pipe, a display that is enabled was sent a whole frame and is    *)
(* lit unless a write went wrong, whichever order the pipe functions come  *)
(* in.                                                                     *)
THEOREM EnabledIsShown == Spec => []EnabledShows
BY ShowsInit, ShowsNext, Invariance, PTL DEF Spec

-----------------------------------------------------------------------------
(* What the steps of the pipe do to the flags                              *)

LEMMA EnableMoves ==
    PipeStep /\ pc \in Enabling
        => /\ UNCHANGED <<board, led, ledLost, enabled>>
           /\ \/ pc' \in Enabling /\ prepared' = prepared
              \/ pc' = "idle" /\ (prepared' \/ lost')
<1> SUFFICES ASSUME PipeStep, pc \in Enabling
             PROVE  /\ UNCHANGED <<board, led, ledLost, enabled>>
                    /\ \/ pc' \in Enabling /\ prepared' = prepared
                       \/ pc' = "idle" /\ (prepared' \/ lost')
  OBVIOUS
<1>1. \/ EnableIsOn \/ EnableIsOff \/ ResetLow \/ ResetHigh \/ SoftReset
      \/ SoftResetFails \/ SetDisplayOff \/ Configure \/ ExitSleep
      \/ SetDisplayOn
  BY DEF PipeStep, Enabling, SetColumnAddress, SetPageAddress, EnableBacklight,
         BlankNoMemory, BlankColumn, BlankPage, BlankMemory, DisableDisplayOff,
         EnterSleep, PowerOff
<1>2. UNCHANGED <<board, led, ledLost, enabled>>
  BY <1>1 DEF EnableIsOn, EnableIsOff, ResetLow, ResetHigh, SoftReset,
     SoftResetFails, SetDisplayOff, Configure, ExitSleep, SetDisplayOn, flags,
     hardware, history
<1>3. CASE EnableIsOn \/ SetDisplayOn
  BY <1>2, <1>3 DEF EnableIsOn, SetDisplayOn
<1>4. CASE SoftResetFails
  BY <1>2, <1>4 DEF SoftResetFails, Failed
<1>5. CASE EnableIsOff \/ ResetLow \/ ResetHigh \/ SoftReset \/ SetDisplayOff
              \/ Configure \/ ExitSleep
  BY <1>2, <1>5 DEF EnableIsOff, ResetLow, ResetHigh, SoftReset, SetDisplayOff,
     Configure, ExitSleep, flags, Enabling
<1>6. QED BY <1>1, <1>3, <1>4, <1>5

LEMMA FlushMoves ==
    (PipeStep \/ WriteMemory \/ WriteMemoryFails) /\ pc \in Flushing
        => /\ UNCHANGED <<board, prepared>>
           /\ lost => lost'
           /\ pc' \in Flushing \cup {"idle"}
           /\ IF pc = "backlight" THEN enabled' /\ pc' = "idle"
              ELSE UNCHANGED <<led, ledLost, enabled>>
<1> SUFFICES ASSUME PipeStep \/ WriteMemory \/ WriteMemoryFails,
                    pc \in Flushing
             PROVE  /\ UNCHANGED <<board, prepared>>
                    /\ lost => lost'
                    /\ pc' \in Flushing \cup {"idle"}
                    /\ IF pc = "backlight" THEN enabled' /\ pc' = "idle"
                       ELSE UNCHANGED <<led, ledLost, enabled>>
  OBVIOUS
<1>1. SetColumnAddress \/ SetPageAddress \/ EnableBacklight
         \/ WriteMemory \/ WriteMemoryFails
  BY DEF PipeStep, Flushing, EnableIsOn, EnableIsOff, ResetLow, ResetHigh,
     SoftReset, SoftResetFails, SetDisplayOff, Configure, ExitSleep,
     SetDisplayOn, BlankNoMemory, BlankColumn, BlankPage, BlankMemory,
     DisableDisplayOff, EnterSleep, PowerOff
<1>2. CASE SetColumnAddress \/ SetPageAddress
  <2>1. lost => lost'
    BY <1>2 DEF SetColumnAddress, SetPageAddress, WriteWindow, Sent
  <2>2. /\ pc \in {"column", "page"} /\ pc' \in {"page", "memory"}
        /\ UNCHANGED <<board, led, ledLost, flags>>
    BY <1>2 DEF SetColumnAddress, SetPageAddress
  <2>3. QED BY <2>1, <2>2 DEF Flushing, flags
<1>3. CASE WriteMemory \/ WriteMemoryFails
  <2>1. lost => lost'
    BY <1>3 DEF WriteMemory, WriteMemoryFails, Sent, Failed
  <2>2. /\ pc = "memory" /\ pc' \in {"idle", "backlight"}
        /\ UNCHANGED <<board, led, ledLost, flags>>
    BY <1>3 DEF WriteMemory, WriteMemoryFails
  <2>3. QED BY <2>1, <2>2 DEF Flushing, flags
<1>4. CASE EnableBacklight
  BY <1>4 DEF EnableBacklight, Flushing
<1>5. QED BY <1>1, <1>2, <1>3, <1>4

LEMMA StopMoves ==
    PipeStep /\ pc \in Stopping
        => /\ UNCHANGED <<board, led, ledLost, enabled>>
           /\ pc' \in Stopping \cup {"idle"}
           /\ pc' = "idle" /\ board.backlight => ~prepared'
           /\ prepared' => prepared
<1> SUFFICES ASSUME PipeStep, pc \in Stopping
             PROVE  /\ UNCHANGED <<board, led, ledLost, enabled>>
                    /\ pc' \in Stopping \cup {"idle"}
                    /\ pc' = "idle" /\ board.backlight => ~prepared'
                    /\ prepared' => prepared
  OBVIOUS
<1>1. BlankNoMemory \/ BlankColumn \/ BlankPage \/ BlankMemory
         \/ DisableDisplayOff \/ EnterSleep \/ PowerOff
  BY DEF PipeStep, Stopping, EnableIsOn, EnableIsOff, ResetLow, ResetHigh,
     SoftReset, SoftResetFails, SetDisplayOff, Configure, ExitSleep,
     SetDisplayOn, SetColumnAddress, SetPageAddress, EnableBacklight
<1>2. UNCHANGED <<board, led, ledLost, enabled>>
  BY <1>1 DEF BlankNoMemory, BlankColumn, BlankPage, BlankMemory,
     DisableDisplayOff, EnterSleep, PowerOff, flags, hardware, history
<1>3. CASE BlankColumn \/ BlankPage \/ DisableDisplayOff
  BY <1>2, <1>3 DEF BlankColumn, BlankPage, DisableDisplayOff, Stopping, flags
<1>4. CASE BlankMemory \/ BlankNoMemory
  BY <1>2, <1>4 DEF BlankMemory, BlankNoMemory, PowerDown, flags, Stopping
<1>5. CASE EnterSleep \/ PowerOff
  BY <1>2, <1>5 DEF EnterSleep, PowerOff, Stopping
<1>6. QED BY <1>1, <1>3, <1>4, <1>5

-----------------------------------------------------------------------------
(* The invariant of the answers                                            *)

LEMMA AnswerInit == DaemonInit => AnswerInv
BY DEF DaemonInit, Init, St!Init, AnswerInv, PlaceInv, Fresh, OffIsOff,
       Disabled, OnIsPrepared, SaysOn, FlushedEnabled, St!Starting, St!Running

(* Coming up and leaving.                                                  *)
LEMMA AnswerStart ==
    IInv /\ AnswerInv
        /\ (Begin \/ Backlight \/ Register \/ Leave \/ LeaveInterrupted)
        => AnswerInv'
<1> SUFFICES ASSUME IInv, AnswerInv,
                    Begin \/ Backlight \/ Register \/ Leave \/ LeaveInterrupted
             PROVE  AnswerInv'
  OBVIOUS
<1> USE DEF AnswerInv, PlaceInv, Fresh, OffIsOff, Disabled, OnIsPrepared,
            SaysOn, FlushedEnabled, St!Starting, St!Running
<1>1. CASE Begin
  <2>1. /\ at = "down" /\ at' = "dc" /\ pc' = "probe"
        /\ ~prepared' /\ ~enabled'
        /\ UNCHANGED <<chan, ev, told, flushed>>
    BY <1>1 DEF Begin, St!Begin, St!Advance, ProbeReset, channel, answers
  <2>2. QED BY <2>1
<1>2. CASE Backlight
  <2>1. /\ at = "backlight" /\ at' = "spi_init" /\ pc' = "idle"
        /\ UNCHANGED <<prepared, enabled, chan, ev, told, flushed>>
    BY <1>2 DEF Backlight, St!GetBacklight, St!Advance, ProbeBacklight, flags,
                channel, answers
  <2>2. QED BY <2>1
<1>3. CASE Register
  <2>1. /\ UNCHANGED <<board, lost, pc, prepared, enabled>>
        /\ UNCHANGED <<chan, ev, told, flushed>>
    BY <1>3 DEF Register, vars, history, flags, channel, answers
  <2>2. \/ at = "dc" /\ at' = "backlight"
        \/ /\ at \in St!Starting \ {"dc", "backlight"}
           /\ at' \in (St!Starting \ {"dc", "backlight"}) \cup {"read"}
    BY <1>3 DEF Register, St!GetDc, St!SpiInit, St!PipeInit, St!OpenUdrm,
                St!CreateDevice, St!OpenControl, St!SetDrvdata, St!Advance
  <2>3. QED BY <2>1, <2>2
<1>4. CASE Leave \/ LeaveInterrupted
  <2>1. /\ at' = "down" /\ pc' = "down" /\ chan' = "idle" /\ told' = "off"
        /\ flushed' = FALSE
    BY <1>4 DEF Leave, LeaveInterrupted, St!Leave, Exit, ProbeInterrupted,
                Abandon
  <2>2. QED BY <2>1
<1>5. QED BY <1>1, <1>2, <1>3, <1>4

(* Steps of main() that leave the pipe alone.                              *)
LEMMA AnswerMain ==
    DaemonTypeOK /\ IInv /\ AnswerInv
        /\ (Post \/ Read \/ HandleNothing \/ Reply \/ UNCHANGED daemonVars)
        => AnswerInv'
<1> SUFFICES ASSUME DaemonTypeOK, IInv, AnswerInv,
                    Post \/ Read \/ HandleNothing \/ Reply
                        \/ UNCHANGED daemonVars
             PROVE  AnswerInv'
  OBVIOUS
<1> USE DEF AnswerInv, PlaceInv, Fresh, OffIsOff, Disabled, OnIsPrepared,
            SaysOn, FlushedEnabled, St!Starting, St!Running
<1>0. /\ told \in {"on", "off"} /\ ev \in Events \cup {NoEvent}
      /\ chan = "taken" <=> at \in {"handle", "pipe", "reply"}
      /\ NoEvent \notin Events
  BY NoEventAssumption DEF DaemonTypeOK
<1>1. UNCHANGED <<board, lost, pc, prepared, enabled, flushed>>
  BY DEF Post, Read, HandleNothing, Reply, daemonVars, vars, history, flags,
         answers
<1>2. CASE Post
  <2>1. /\ chan = "idle" /\ chan' = "posted" /\ ev' \in Events
        /\ UNCHANGED <<at, told>>
    BY <1>2 DEF Post, answers
  <2>2. at \notin {"handle", "pipe", "reply"}
    BY <1>0, <2>1
  <2>3. QED BY <1>1, <2>1, <2>2
<1>3. CASE Read
  BY <1>1, <1>3 DEF Read, answers
<1>4. CASE HandleNothing
  <2>1. /\ at = "handle" /\ at' = "reply" /\ Nothing
        /\ UNCHANGED <<chan, ev, told>>
    BY <1>4 DEF HandleNothing, channel, answers
  <2>2. /\ ev \in Events /\ ev # "PIPE_DISABLE"
        /\ ev = "PIPE_ENABLE" => prepared \/ board.regulator
    BY <1>0, <2>1 DEF Nothing, Events
  <2>3. ev \in {"PIPE_ENABLE", "FB_DIRTY", "OTHER"}
    BY <2>2 DEF Events
  <2>4. QED BY <1>1, <2>1, <2>2, <2>3
<1>5. CASE Reply
  <2>1. /\ at = "reply" /\ at' = "read" /\ chan' = "idle" /\ ev' = NoEvent
        /\ told' = CASE ev = "PIPE_ENABLE" -> "on"
                     [] ev = "PIPE_DISABLE" -> "off"
                     [] OTHER -> told
    BY <1>5 DEF Reply
  <2>2. ev \in {"PIPE_ENABLE", "PIPE_DISABLE", "FB_DIRTY", "OTHER"}
    BY <1>0, <2>1 DEF Events
  <2>3. CASE ev = "PIPE_ENABLE"
    BY <1>1, <2>1, <2>3
  <2>4. CASE ev = "PIPE_DISABLE"
    BY <1>1, <2>1, <2>4
  <2>5. CASE ev \in {"FB_DIRTY", "OTHER"}
    BY <1>1, <2>1, <2>5
  <2>6. QED BY <2>2, <2>3, <2>4, <2>5
<1>6. CASE UNCHANGED daemonVars
  BY <1>1, <1>6 DEF daemonVars, channel, answers
<1>7. QED BY <1>2, <1>3, <1>4, <1>5, <1>6

(* The first step of a handler.                                            *)
LEMMA AnswerHandle ==
    DaemonTypeOK /\ IInv /\ AnswerInv /\ Handle => AnswerInv'
<1> SUFFICES ASSUME DaemonTypeOK, IInv, AnswerInv, Handle PROVE AnswerInv'
  OBVIOUS
<1> USE DEF AnswerInv, PlaceInv, Fresh, OffIsOff, Disabled, OnIsPrepared,
            SaysOn, FlushedEnabled, St!Starting, St!Running
<1>0. /\ told \in {"on", "off"}
      /\ enabled => prepared
  BY DEF DaemonTypeOK, IInv, Safety, EnabledIsPrepared
<1>1. /\ at = "handle" /\ at' = IF pc' = "idle" THEN "reply" ELSE "pipe"
      /\ UNCHANGED <<chan, ev, told>>
      /\ flushed' = (flushed /\ ev # "PIPE_DISABLE")
  BY DEF Handle, channel
<1>2. CASE ev = "PIPE_ENABLE"
  <2>1. /\ pc' = "is_on" /\ UNCHANGED <<board, lost, prepared, enabled>>
        /\ ~prepared
    BY <1>2 DEF Handle, Enable, history, flags
  <2>2. ~flushed'
    BY <1>0, <1>1, <2>1
  <2>3. QED BY <1>0, <1>1, <1>2, <2>1, <2>2 DEF Enabling
<1>3. CASE ev = "FB_DIRTY"
  <2>1. /\ pc' = "column" /\ UNCHANGED <<board, lost, prepared, enabled>>
    BY <1>3 DEF Handle, Dirty, history, flags
  <2>2. QED BY <1>0, <1>1, <1>3, <2>1 DEF Flushing
<1>4. CASE ev = "PIPE_DISABLE"
  <2>1. /\ ~enabled' /\ UNCHANGED <<board, lost, prepared>>
        /\ pc' \in Stopping \cup {"idle"}
        /\ pc' = "idle" /\ board.backlight => ~prepared
    BY <1>4 DEF Handle, Disable, PowerDown, Stopping
  <2>2. QED BY <1>0, <1>1, <1>4, <2>1
<1>5. QED BY <1>2, <1>3, <1>4 DEF Handle

(* Its other steps.                                                        *)
LEMMA AnswerPipe ==
    DaemonTypeOK /\ IInv /\ AnswerInv /\ Pipe => AnswerInv'
<1> SUFFICES ASSUME DaemonTypeOK, IInv, AnswerInv, Pipe PROVE AnswerInv'
  OBVIOUS
<1> USE DEF AnswerInv, PlaceInv, Fresh, OffIsOff, Disabled, OnIsPrepared,
            SaysOn, FlushedEnabled, St!Starting, St!Running
<1>0. /\ told \in {"on", "off"}
      /\ enabled => prepared
      /\ pc \in Enabling => ~prepared /\ ~enabled
      /\ pc \in Flushing => prepared
      /\ pc \in Stopping => ~enabled
  BY DEF DaemonTypeOK, IInv, Safety, EnabledIsPrepared, Progress, FlagsAt
<1>1. /\ at = "pipe" /\ at' = IF pc' = "idle" THEN "reply" ELSE "pipe"
      /\ UNCHANGED <<chan, ev, told>>
  BY DEF Pipe, channel
<1>2. pc # "memory" => PipeStep /\ flushed' = flushed
  BY DEF Pipe, WriteMemory, WriteMemoryFails
<1>3. CASE ev = "PIPE_ENABLE"
  <2>1. pc \in Enabling /\ PipeStep /\ flushed' = flushed
    BY <1>1, <1>2, <1>3 DEF Enabling, Flushing
  <2>2. /\ UNCHANGED <<board, enabled>>
        /\ \/ pc' \in Enabling /\ prepared' = prepared
           \/ pc' = "idle" /\ (prepared' \/ lost')
    BY <2>1, EnableMoves
  <2>3. ~flushed
    BY <1>0, <2>1 DEF Enabling
  <2>4. CASE pc' = "idle"
    <3>1. at' = "reply" /\ (prepared' \/ lost') /\ ~enabled'
      BY <1>0, <1>1, <2>1, <2>2, <2>4 DEF Enabling
    <3>2. QED BY <1>1, <1>3, <2>1, <2>2, <2>3, <2>4, <3>1
  <2>5. CASE pc' # "idle"
    <3>1. at' = "pipe" /\ pc' \in Enabling /\ ~prepared' /\ ~enabled'
      BY <1>0, <1>1, <2>1, <2>2, <2>5
    <3>2. QED BY <1>1, <1>3, <2>1, <2>2, <2>3, <3>1
  <2>6. QED BY <2>4, <2>5
<1>4. CASE ev = "FB_DIRTY"
  <2>1. pc \in Flushing
    BY <1>1, <1>4
  <2>2. /\ UNCHANGED <<board, prepared>>
        /\ lost => lost'
        /\ pc' \in Flushing \cup {"idle"}
        /\ IF pc = "backlight" THEN enabled' /\ pc' = "idle"
           ELSE enabled' = enabled
    BY <2>1, PipeIsStep, FlushMoves
  <2>3. board.backlight => told = "on"
    BY <1>0, <1>1, <1>4, <2>1
  <2>4. flushed' => enabled' \/ pc' = "backlight"
    <3>1. CASE pc = "memory"
      <4>1. flushed' => WriteMemory
        BY <3>1 DEF Pipe, PipeStep, EnableIsOn, EnableIsOff, ResetLow,
           ResetHigh, SoftReset, SoftResetFails, SetDisplayOff, Configure,
           ExitSleep, SetDisplayOn, SetColumnAddress, SetPageAddress,
           EnableBacklight, BlankNoMemory, BlankColumn, BlankPage, BlankMemory,
           DisableDisplayOff, EnterSleep, PowerOff
      <4>2. WriteMemory => enabled \/ pc' = "backlight"
        BY DEF WriteMemory
      <4>3. QED BY <2>2, <3>1, <4>1, <4>2
    <3>2. CASE pc # "memory"
      BY <1>2, <2>2, <3>2
    <3>3. QED BY <3>1, <3>2
  <2>5. at' \in {"pipe", "reply"} /\ (at' = "pipe" => pc' \in Flushing)
    BY <1>1, <2>2
  <2>6. PlaceInv' /\ Fresh' /\ OffIsOff' /\ Disabled'
    BY <1>1, <1>4, <2>2, <2>3, <2>5
  <2>7. OnIsPrepared'
    BY <1>0, <2>1, <2>2
  <2>8. QED BY <2>4, <2>6, <2>7
<1>5. CASE ev = "PIPE_DISABLE"
  <2>1. pc \in Stopping /\ PipeStep /\ flushed' = flushed
    BY <1>1, <1>2, <1>5 DEF Stopping
  <2>2. /\ UNCHANGED <<board, enabled>>
        /\ pc' \in Stopping \cup {"idle"}
        /\ pc' = "idle" /\ board.backlight => ~prepared'
        /\ prepared' => prepared
    BY <2>1, StopMoves
  <2>3. ~flushed
    BY <1>0, <2>1 DEF Stopping
  <2>4. QED BY <1>0, <1>1, <1>5, <2>1, <2>2, <2>3
<1>6. QED BY <1>1, <1>3, <1>4, <1>5

LEMMA AnswerNext ==
    DaemonTypeOK /\ IInv /\ AnswerInv /\ [DaemonNext]_daemonVars => AnswerInv'
BY AnswerStart, AnswerMain, AnswerHandle, AnswerPipe DEF DaemonNext, ServeNext

(* What is proved of the pipe holds for the daemon.                        *)
LEMMA DaemonIInv == DaemonSpec => [](IInv /\ EnabledShows)
BY DaemonIsPipe, Invariance, EnabledIsShown, PTL

THEOREM AnswerInvariance == DaemonSpec => []AnswerInv
BY AnswerInit, AnswerNext, DaemonIInv, DaemonTypeCorrect, PTL DEF DaemonSpec

(* The pipe's own properties hold for the daemon.                          *)
THEOREM DaemonKeepsPipe == DaemonSpec => [](TypeOK /\ Safety)
<1>1. IInv => TypeOK /\ Safety
  BY DEF IInv
<1>2. QED BY <1>1, DaemonIInv, PTL

-----------------------------------------------------------------------------
(* The answers                                                             *)

(* After a disable was answered there is no light, whatever flushes come.  *)
THEOREM DisabledStaysDark == DaemonSpec => []DisabledIsDark
<1>1. IInv /\ AnswerInv => DisabledIsDark
  <2> SUFFICES ASSUME IInv, AnswerInv, told = "off", ~ledLost,
                      at \in {"read", "handle", "reply"}
               PROVE  ~led
    BY DEF DisabledIsDark
  <2>1. pc = "idle"
    BY DEF AnswerInv, PlaceInv
  <2>2. board.backlight => ~enabled
    BY DEF AnswerInv, OffIsOff, St!Running
  <2>3. led => board.backlight
    BY DEF IInv, Progress, Dark
  <2>4. QED
    BY <2>1, <2>2, <2>3 DEF IInv, Safety, EnabledIsPrepared
<1>2. QED BY <1>1, DaemonIInv, AnswerInvariance, PTL

(* An answered enable means a display that is on, unless a write was lost  *)
(* or the board has a regulator, which may fail.                           *)
THEOREM AnsweredIsUp == DaemonSpec => []OnIsUp
<1>1. IInv /\ AnswerInv => OnIsUp
  <2> SUFFICES ASSUME IInv, AnswerInv, told = "on", ~lost, ~board.regulator,
                      at = "read"
               PROVE  prepared /\ panel.on /\ panel.awake
    BY DEF OnIsUp
  <2>1. pc = "idle"
    BY DEF AnswerInv, PlaceInv
  <2>2. prepared
    BY DEF AnswerInv, OnIsPrepared, SaysOn
  <2>3. QED
    BY <2>1, <2>2 DEF IInv, Safety, PreparedIsUp, Disabling
<1>2. QED BY <1>1, DaemonIInv, AnswerInvariance, PTL

(* After a flush of the whole frame the memory is that frame until the     *)
(* next one starts.                                                        *)
LastFull ==
    flushed /\ kind = "full" /\ ~lost /\ pc \notin {"column", "page", "memory"}
        => panel.memory = "frame"

(* No memory is lost meanwhile: there is no reset while flushed is set.    *)
LEMMA LastFullNext ==
    DaemonTypeOK /\ IInv /\ AnswerInv /\ LastFull /\ [DaemonNext]_daemonVars
        => LastFull'
<1> SUFFICES ASSUME DaemonTypeOK, IInv, AnswerInv, LastFull,
                    [DaemonNext]_daemonVars, flushed', ~lost', kind' = "full",
                    pc' \notin {"column", "page", "memory"}
             PROVE  panel'.memory = "frame"
  BY DEF LastFull
<1>0. /\ panel \in Panels
      /\ flushed => enabled \/ pc = "backlight"
      /\ pc \in Enabling \cup Stopping => ~flushed
      /\ at \notin St!Running => ~flushed
  BY DEF AnswerInv, FlushedEnabled, Fresh, IInv, TypeOK, Progress, FlagsAt,
         Enabling, Stopping
<1>1. CASE Begin \/ Backlight
  BY <1>0, <1>1 DEF Begin, Backlight, St!Begin, St!GetBacklight, St!Advance,
     St!Running, answers
<1>2. CASE Register \/ Post \/ Read \/ HandleNothing \/ Reply
              \/ UNCHANGED daemonVars
  <2>1. UNCHANGED <<panel, lost, pc, kind, flushed>>
    BY <1>2 DEF Register, Post, Read, HandleNothing, Reply, daemonVars, vars,
       hardware, history, answers
  <2>2. QED BY <2>1 DEF LastFull
<1>3. CASE Leave \/ LeaveInterrupted
  BY <1>3 DEF Leave, LeaveInterrupted, Abandon
<1>4. CASE Handle
  <2>1. at = "handle" /\ flushed /\ ev # "PIPE_DISABLE"
    BY <1>4 DEF Handle, DaemonTypeOK
  <2>2. pc = "idle"
    BY <2>1 DEF AnswerInv, PlaceInv
  <2>3. enabled /\ prepared
    BY <1>0, <2>1, <2>2 DEF IInv, Safety, EnabledIsPrepared
  <2>4. Dirty
    BY <1>4, <2>1, <2>3 DEF Handle, Enable
  <2>5. QED BY <2>4 DEF Dirty
<1>5. CASE Pipe
  <2>1. CASE WriteMemory
    <3>1. pc = "memory" /\ kind = "full" /\ ~lost /\ ~rst
      BY <2>1 DEF WriteMemory, Sent
    <3>2. panel.column = kind /\ panel.page = kind
      BY <3>1 DEF IInv, Progress, Flush
    <3>3. panel' = [panel EXCEPT !.memory = "frame"]
      BY <2>1, <3>1, <3>2 DEF WriteMemory, Sent, Memory
    <3>4. QED BY <1>0, <3>3 DEF Panels
  <2>2. CASE ~WriteMemory
    <3>1. PipeStep /\ flushed' = flushed
      BY <1>5, <2>2 DEF Pipe
    <3>2. pc \notin Enabling \cup Stopping
      BY <1>0, <3>1
    <3>3. EnableBacklight \/ SetColumnAddress \/ SetPageAddress
      BY <3>1, <3>2 DEF PipeStep, Enabling, Stopping, EnableIsOn, EnableIsOff,
         ResetLow, ResetHigh, SoftReset, SoftResetFails, SetDisplayOff,
         Configure, ExitSleep, SetDisplayOn, BlankNoMemory, BlankColumn,
         BlankPage, BlankMemory, DisableDisplayOff, EnterSleep, PowerOff
    <3>4. EnableBacklight
      BY <3>3 DEF SetColumnAddress, SetPageAddress
    <3>5. UNCHANGED <<panel, lost, kind>> /\ pc = "backlight"
      BY <3>4 DEF EnableBacklight
    <3>6. QED BY <3>1, <3>5 DEF LastFull
  <2>3. QED BY <2>1, <2>2
<1>6. QED BY <1>1, <1>2, <1>3, <1>4, <1>5 DEF DaemonNext, ServeNext

LEMMA LastFullAlways == DaemonSpec => []LastFull
<1>1. DaemonInit => LastFull
  BY DEF DaemonInit, LastFull
<1>2. QED
  BY <1>1, LastFullNext, DaemonIInv, DaemonTypeCorrect, AnswerInvariance, PTL
     DEF DaemonSpec

(* A flush that was sent completely has put its frame on a lit display.    *)
THEOREM FlushIsShown == DaemonSpec => []FlushedIsShown
<1>1. IInv /\ EnabledShows /\ AnswerInv /\ LastFull => FlushedIsShown
  <2> SUFFICES ASSUME IInv, EnabledShows, AnswerInv, LastFull,
                      flushed, ~lost, ~ledLost, at = "read"
               PROVE  /\ led = board.backlight
                      /\ panel.on /\ panel.awake /\ panel.memory # "junk"
                      /\ kind = "full" => panel.memory = "frame"
    BY DEF FlushedIsShown
  <2>1. pc = "idle"
    BY DEF AnswerInv, PlaceInv
  <2>2. enabled
    BY <2>1 DEF AnswerInv, FlushedEnabled
  <2>3. prepared
    BY <2>2 DEF IInv, Safety, EnabledIsPrepared
  <2>4. panel.on /\ panel.awake
    BY <2>1, <2>3 DEF IInv, Safety, PreparedIsUp, Disabling
  <2>5. QED
    BY <2>1, <2>2, <2>4 DEF EnabledShows, LastFull
<1>2. QED BY <1>1, DaemonIInv, AnswerInvariance, LastFullAlways, PTL

-----------------------------------------------------------------------------
(* The light                                                               *)

LightInv == DaemonTypeOK /\ IInv /\ AnswerInv

LEMMA LightInit == DaemonInit => Light!Init
BY DEF DaemonInit, Init, St!Init, Light!Init, Phase, St!Starting

(* A start.                                                                *)
LEMMA LightStart ==
    LightInv /\ (Begin \/ Backlight \/ Register)
        => [Light!Next]_(Light!vars)
<1> SUFFICES ASSUME LightInv, Begin \/ Backlight \/ Register
             PROVE  [Light!Next]_(Light!vars)
  OBVIOUS
<1>1. CASE Begin
  <2>1. /\ at = "down" /\ at' = "dc" /\ UNCHANGED <<led, ledLost, told>>
    BY <1>1 DEF Begin, St!Begin, St!Advance, ProbeReset, answers
  <2>2. Phase = "down" /\ Phase' = "starting"
    BY <2>1 DEF Phase, St!Starting
  <2>3. Light!Start
    BY <2>1, <2>2 DEF Light!Start
  <2>4. QED BY <2>3 DEF Light!Next
<1>2. CASE Backlight
  <2>1. /\ at = "backlight" /\ at' = "spi_init" /\ UNCHANGED told
    BY <1>2 DEF Backlight, St!GetBacklight, St!Advance, answers
  <2>2. Phase = "starting" /\ Phase' = "starting"
    BY <2>1 DEF Phase, St!Starting
  <2>3. \/ led' = FALSE /\ ledLost' = FALSE
        \/ led' = led /\ ledLost' = TRUE
        \/ UNCHANGED <<led, ledLost>>
    BY <1>2 DEF Backlight, ProbeBacklight, SetLed
  <2>4. Light!SwitchTo(FALSE) \/ UNCHANGED Light!vars
    BY <2>1, <2>2, <2>3 DEF Light!SwitchTo, Light!vars
  <2>5. QED BY <2>2, <2>4 DEF Light!Next, Light!Switch
<1>3. CASE Register
  <2>1. UNCHANGED <<led, ledLost, told>>
    BY <1>3 DEF Register, vars, hardware, history, answers
  <2>2. CASE at = "drvdata"
    <3>1. at' = "read"
      BY <1>3, <2>2 DEF Register, St!GetDc, St!SpiInit, St!PipeInit,
         St!OpenUdrm, St!CreateDevice, St!OpenControl, St!SetDrvdata, St!Advance
    <3>2. pc = "idle" /\ ~enabled
      BY <2>2 DEF LightInv, AnswerInv, PlaceInv, Fresh, St!Starting
    <3>3. led => ledLost
      BY <3>2 DEF LightInv, IInv, Safety, EnabledIsPrepared
    <3>4. Phase = "starting" /\ Phase' = "up"
      BY <2>2, <3>1 DEF Phase, St!Starting
    <3>5. Light!Ready
      BY <2>1, <3>3, <3>4 DEF Light!Ready
    <3>6. QED BY <3>5 DEF Light!Next
  <2>3. CASE at # "drvdata"
    <3>1. at \in St!Starting /\ at' \in St!Starting
      BY <1>3, <2>3 DEF Register, St!GetDc, St!SpiInit, St!PipeInit,
         St!OpenUdrm, St!CreateDevice, St!OpenControl, St!SetDrvdata,
         St!Advance, St!Starting
    <3>2. Phase = "starting" /\ Phase' = "starting"
      BY <3>1 DEF Phase, St!Starting
    <3>3. QED BY <2>1, <3>2 DEF Light!vars
  <2>4. QED BY <2>2, <2>3
<1>4. QED BY <1>1, <1>2, <1>3

(* An end.                                                                 *)
LEMMA LightLeave ==
    LightInv /\ (Leave \/ LeaveInterrupted) => [Light!Next]_(Light!vars)
<1> SUFFICES ASSUME LightInv, Leave \/ LeaveInterrupted
             PROVE  [Light!Next]_(Light!vars)
  OBVIOUS
<1>1. /\ at' = "down" /\ told' = "off" /\ UNCHANGED <<led, ledLost>>
  BY DEF Leave, LeaveInterrupted, St!Leave, Exit, ProbeInterrupted, Abandon,
         hardware, history
<1>2. Phase' = "down"
  BY <1>1 DEF Phase, St!Starting
<1>3. CASE at = "down"
  <2>1. Phase = "down" /\ told = "off"
    BY <1>3 DEF Phase, LightInv, AnswerInv, Fresh, St!Running, St!Starting
  <2>2. QED BY <1>1, <1>2, <2>1 DEF Light!vars
<1>4. CASE at # "down"
  <2>1. Phase # "down"
    BY <1>4 DEF Phase
  <2>2. Light!Stop
    BY <1>1, <1>2, <2>1 DEF Light!Stop
  <2>3. QED BY <2>2 DEF Light!Next
<1>5. QED BY <1>3, <1>4

(* The event loop.                                                         *)
LEMMA LightMain ==
    LightInv /\ (Post \/ Read \/ HandleNothing \/ Reply
                     \/ UNCHANGED daemonVars)
        => [Light!Next]_(Light!vars)
<1> SUFFICES ASSUME LightInv, Post \/ Read \/ HandleNothing \/ Reply
                                  \/ UNCHANGED daemonVars
             PROVE  [Light!Next]_(Light!vars)
  OBVIOUS
<1>0. UNCHANGED <<led, ledLost>>
  BY DEF Post, Read, HandleNothing, Reply, daemonVars, vars, hardware, history
<1>1. CASE Post
  <2>1. chan = "idle" /\ UNCHANGED <<at, told>>
    BY <1>1 DEF Post, answers
  <2>2. at \notin {"handle", "pipe", "reply"}
    BY <2>1 DEF LightInv, DaemonTypeOK
  <2>3. Phase' = Phase /\ Phase # "asked"
    BY <2>1, <2>2 DEF Phase, LightInv, DaemonTypeOK, St!StartOK, St!Starting,
                      St!Running
  <2>4. QED BY <1>0, <2>1, <2>3 DEF Light!vars
<1>2. CASE Read
  <2>1. /\ at = "read" /\ at' = "handle" /\ chan = "posted"
        /\ UNCHANGED <<ev, told>>
    BY <1>2 DEF Read, answers
  <2>2. ev \in Events
    BY <2>1 DEF LightInv, AnswerInv, PlaceInv
  <2>3. Phase = "up" /\ Phase' = "asked"
    BY <2>1 DEF Phase, St!Starting
  <2>4. Light!Ask
    BY <1>0, <2>1, <2>2, <2>3 DEF Light!Ask, Light!Requests, Events
  <2>5. QED BY <2>4 DEF Light!Next
<1>3. CASE HandleNothing
  <2>1. at = "handle" /\ at' = "reply" /\ UNCHANGED <<ev, told>>
    BY <1>3 DEF HandleNothing, channel, answers
  <2>2. Phase = "asked" /\ Phase' = "asked"
    BY <2>1 DEF Phase, St!Starting
  <2>3. QED BY <1>0, <2>1, <2>2 DEF Light!vars
<1>4. CASE Reply
  <2>1. /\ at = "reply" /\ at' = "read"
        /\ told' = CASE ev = "PIPE_ENABLE" -> "on"
                     [] ev = "PIPE_DISABLE" -> "off"
                     [] OTHER -> told
    BY <1>4 DEF Reply
  <2>2. Phase = "asked" /\ Phase' = "up"
    BY <2>1 DEF Phase, St!Starting
  <2>3. ev = "PIPE_DISABLE" => (led => ledLost)
    <3>1. pc = "idle" /\ (ev = "PIPE_DISABLE" => ~enabled)
      BY <2>1 DEF LightInv, AnswerInv, PlaceInv, Disabled
    <3>2. QED BY <3>1 DEF LightInv, IInv, Safety, EnabledIsPrepared
  <2>4. (told' = "on") = CASE ev = "PIPE_ENABLE" -> TRUE
                           [] ev = "PIPE_DISABLE" -> FALSE
                           [] OTHER -> told = "on"
    BY <2>1
  <2>5. Light!Answer
    BY <1>0, <2>2, <2>3, <2>4 DEF Light!Answer
  <2>6. QED BY <2>5 DEF Light!Next
<1>5. CASE UNCHANGED daemonVars
  BY <1>0, <1>5 DEF daemonVars, channel, answers, Light!vars, Phase
<1>6. QED BY <1>1, <1>2, <1>3, <1>4, <1>5

(* A handler: the light goes off in a disable, and on in a flush of a pipe *)
(* that the kernel was told is on.                                         *)
LEMMA LightHandler ==
    LightInv /\ (Handle \/ Pipe) => [Light!Next]_(Light!vars)
<1> SUFFICES ASSUME LightInv, Handle \/ Pipe
             PROVE  [Light!Next]_(Light!vars)
  OBVIOUS
<1>1. /\ at \in {"handle", "pipe"} /\ at' \in {"reply", "pipe"}
      /\ UNCHANGED <<ev, told>>
  BY DEF Handle, Pipe, channel
<1>2. Phase = "asked" /\ Phase' = "asked"
  BY <1>1 DEF Phase, St!Starting
<1>3. CASE UNCHANGED <<led, ledLost>>
  BY <1>1, <1>2, <1>3 DEF Light!vars
<1>4. CASE Handle /\ ~UNCHANGED <<led, ledLost>>
  <2>1. ev = "PIPE_DISABLE" /\ Disable
    BY <1>4 DEF Handle, Enable, Dirty, hardware, history
  <2>2. Light!SwitchTo(FALSE)
    BY <1>1, <1>2, <1>4, <2>1 DEF Disable, SetLed, Light!SwitchTo
  <2>3. QED BY <1>2, <2>1, <2>2 DEF Light!Next, Light!Switch
<1>5. CASE Pipe /\ ~UNCHANGED <<led, ledLost>>
  <2>1. at = "pipe" /\ (PipeStep \/ WriteMemory \/ WriteMemoryFails)
    BY <1>5, PipeIsStep DEF Pipe
  <2>2. PipeStep \/ pc = "memory"
    BY <2>1 DEF WriteMemory, WriteMemoryFails
  <2>3. pc \notin Enabling /\ pc \notin Stopping
    BY <1>5, <2>2, EnableMoves, StopMoves DEF Enabling, Stopping
  <2>4. ev = "FB_DIRTY" /\ pc \in Flushing
    BY <2>1, <2>3 DEF LightInv, AnswerInv, PlaceInv
  <2>5. pc = "backlight"
    BY <1>5, <2>1, <2>4, FlushMoves
  <2>6. EnableBacklight
    BY <2>1, <2>5 DEF PipeStep, WriteMemory, WriteMemoryFails, EnableIsOn,
       EnableIsOff, ResetLow, ResetHigh, SoftReset, SoftResetFails,
       SetDisplayOff, Configure, ExitSleep, SetDisplayOn, SetColumnAddress,
       SetPageAddress, BlankNoMemory, BlankColumn, BlankPage, BlankMemory,
       DisableDisplayOff, EnterSleep, PowerOff
  <2>7. board.backlight
    BY <1>5, <2>6 DEF EnableBacklight
  <2>8. prepared
    BY <2>4 DEF LightInv, IInv, Progress, FlagsAt
  <2>9. told = "on"
    BY <2>1, <2>4, <2>7, <2>8 DEF LightInv, AnswerInv, OffIsOff, DaemonTypeOK,
                                  St!Running
  <2>10. Light!SwitchTo(TRUE)
    BY <1>1, <1>2, <2>6, <2>7 DEF EnableBacklight, SetLed, Light!SwitchTo
  <2>11. QED BY <1>2, <2>4, <2>9, <2>10 DEF Light!Next, Light!Switch
<1>6. QED BY <1>3, <1>4, <1>5

(* The daemon implements LightService: whatever fails and whenever it is   *)
(* killed, the light goes on only by a flush of an enabled pipe, and is    *)
(* off after a disable and when a daemon is ready.                         *)
THEOREM LightRefinement == DaemonSpec => ImplementsLight
<1>1. LightInv /\ [DaemonNext]_daemonVars => [Light!Next]_(Light!vars)
  BY LightStart, LightLeave, LightMain, LightHandler DEF DaemonNext, ServeNext
<1>2. DaemonSpec => []LightInv
  BY DaemonTypeCorrect, DaemonIInv, AnswerInvariance, PTL DEF LightInv
<1>3. QED
  BY <1>1, <1>2, LightInit, PTL
     DEF DaemonSpec, ImplementsLight, Light!Spec

-----------------------------------------------------------------------------
(* An event is answered after a bounded number of steps                    *)

(* The most steps a pipe function still takes.                             *)
PipeLeft ==
    IF pc = "is_on" THEN NConfig + 7
    ELSE IF pc = "reset_low" THEN NConfig + 6
    ELSE IF pc = "reset_high" THEN NConfig + 5
    ELSE IF pc = "soft_reset" THEN NConfig + 4
    ELSE IF pc = "display_off" THEN NConfig + 3
    ELSE IF pc = "config" THEN (NConfig - step) + 3
    ELSE IF pc = "blank_column" THEN 6
    ELSE IF pc = "blank_page" THEN 5
    ELSE IF pc \in {"column", "blank_memory"} THEN 4
    ELSE IF pc \in {"page", "sleep_off"} THEN 3
    ELSE IF pc \in {"exit_sleep", "memory", "enter_sleep"} THEN 2
    ELSE IF pc \in {"display_on", "backlight", "power_off"} THEN 1
    ELSE 0

(* The most steps to the answer, from where main() is.                     *)
EventLeft ==
    IF at = "control" THEN NConfig + 12
    ELSE IF at = "drvdata" THEN NConfig + 11
    ELSE IF at = "read" THEN NConfig + 10
    ELSE IF at = "handle" THEN NConfig + 9
    ELSE IF at = "pipe" THEN PipeLeft + 1
    ELSE IF at = "reply" THEN 1
    ELSE 0

NearerAnswer ==
    /\ EventLeft \in 1..(NConfig + 12)
    /\ chan' = "idle" \/ EventLeft' \in 1..(EventLeft - 1)

(* An event is there only while its device is.                             *)
PostedInv == chan # "idle" => node

LEMMA PostedAlways == DaemonSpec => [](PostedInv /\ ModeInv)
<1>1. DaemonInit => PostedInv
  BY DEF DaemonInit, PostedInv
<1>2. PostedInv /\ ModeInv /\ [DaemonNext]_daemonVars => PostedInv'
  <2> SUFFICES ASSUME PostedInv, ModeInv, [DaemonNext]_daemonVars
               PROVE  PostedInv'
    OBVIOUS
  <2>1. CASE Leave \/ LeaveInterrupted
    BY <2>1 DEF Leave, LeaveInterrupted, Abandon, PostedInv
  <2>2. CASE Begin \/ Backlight \/ Register
    <3>1. node => node'
      BY <2>2 DEF Begin, Backlight, Register, St!Begin, St!GetBacklight,
         St!GetDc, St!SpiInit, St!PipeInit, St!OpenUdrm, St!CreateDevice,
         St!OpenControl, St!SetDrvdata, St!start
    <3>2. chan' = chan
      BY <2>2 DEF Begin, Backlight, Register, channel
    <3>3. QED BY <3>1, <3>2 DEF PostedInv
  <2>3. CASE Post
    BY <2>3 DEF Post, PostedInv, start
  <2>4. CASE ServeNext \/ UNCHANGED daemonVars
    <3>1. node' = node
      BY <2>4 DEF ServeNext, Read, HandleNothing, Handle, Pipe, Reply, start,
         daemonVars
    <3>2. chan' = chan \/ chan' = "idle" \/ chan # "idle"
      BY <2>4 DEF ServeNext, Read, HandleNothing, Handle, Pipe, Reply,
         channel, daemonVars
    <3>3. QED BY <3>1, <3>2 DEF PostedInv
  <2>5. QED BY <2>1, <2>2, <2>3, <2>4 DEF DaemonNext
<1>3. QED BY <1>1, <1>2, ModeInvInit, ModeInvNext, PTL DEF DaemonSpec

(* Each step of a pipe function brings it closer to its end.               *)
LEMMA PipeNearer ==
    ASSUME TypeOK, PipeStep \/ WriteMemory \/ WriteMemoryFails
    PROVE  /\ PipeLeft \in 1..(NConfig + 7)
           /\ pc' = "idle" \/ PipeLeft' \in 1..(PipeLeft - 1)
<1>0. /\ NConfig \in Nat \ {0} /\ step \in 1..NConfig
  BY NConfigAssumption DEF TypeOK, Config
<1>1. CASE EnableIsOn \/ EnableIsOff
  <2>1. pc = "is_on" /\ pc' \in {"idle", "reset_low", "soft_reset"}
    BY <1>1 DEF EnableIsOn, EnableIsOff
  <2>2. QED BY <1>0, <2>1 DEF PipeLeft
<1>2. CASE ResetLow \/ ResetHigh
  <2>1. \/ pc = "reset_low" /\ pc' = "reset_high"
        \/ pc = "reset_high" /\ pc' = "soft_reset"
    BY <1>2 DEF ResetLow, ResetHigh
  <2>2. QED BY <1>0, <2>1 DEF PipeLeft
<1>3. CASE SoftReset \/ SoftResetFails
  BY <1>0, <1>3 DEF SoftReset, SoftResetFails, PipeLeft
<1>4. CASE SetDisplayOff
  BY <1>0, <1>4 DEF SetDisplayOff, PipeLeft
<1>5. CASE Configure
  <2>1. pc = "config"
    BY <1>5 DEF Configure
  <2>2. \/ pc' = "exit_sleep"
        \/ pc' = "config" /\ step # NConfig /\ step' = step + 1
    BY <1>5 DEF Configure
  <2>3. QED BY <1>0, <2>1, <2>2 DEF PipeLeft
<1>6. CASE ExitSleep \/ SetDisplayOn
  BY <1>0, <1>6 DEF ExitSleep, SetDisplayOn, PipeLeft
<1>7. CASE SetColumnAddress \/ SetPageAddress
  BY <1>0, <1>7 DEF SetColumnAddress, SetPageAddress, PipeLeft
<1>8. CASE WriteMemory \/ WriteMemoryFails \/ EnableBacklight
  <2>1. \/ pc = "memory" /\ pc' \in {"idle", "backlight"}
        \/ pc = "backlight" /\ pc' = "idle"
    BY <1>8 DEF WriteMemory, WriteMemoryFails, EnableBacklight
  <2>2. QED BY <1>0, <2>1 DEF PipeLeft
<1>9. CASE BlankColumn \/ BlankPage
  BY <1>0, <1>9 DEF BlankColumn, BlankPage, PipeLeft
<1>10. CASE BlankMemory \/ BlankNoMemory
  BY <1>0, <1>10 DEF BlankMemory, BlankNoMemory, PowerDown, PipeLeft
<1>11. CASE DisableDisplayOff \/ EnterSleep \/ PowerOff
  BY <1>0, <1>11 DEF DisableDisplayOff, EnterSleep, PowerOff, PipeLeft
<1>12. QED
  BY <1>1, <1>2, <1>3, <1>4, <1>5, <1>6, <1>7, <1>8, <1>9, <1>10, <1>11
     DEF PipeStep

(* From the moment the kernel posts an event, also one that comes while    *)
(* the daemon still registers, every step of main() and of the handlers    *)
(* brings its answer closer: the event is answered, or its device goes     *)
(* away, after at most NConfig + 12 steps, whatever commands fail.  With   *)
(* the fairness of DaemonFairSpec this is EventAnswered.                   *)
THEOREM AnswersComeNearer ==
    DaemonSpec => [][chan # "idle" => NearerAnswer]_daemonVars
<1>1. DaemonTypeOK /\ TypeOK /\ PostedInv /\ ModeInv
         /\ [DaemonNext]_daemonVars => [chan # "idle" => NearerAnswer]_daemonVars
  <2> SUFFICES ASSUME DaemonTypeOK, TypeOK, PostedInv, ModeInv, DaemonNext,
                      chan # "idle"
               PROVE  NearerAnswer
    OBVIOUS
  <2>0. NConfig \in Nat \ {0} /\ step \in 1..NConfig
    BY NConfigAssumption DEF TypeOK, Config
  <2>1. at \in Registered
    BY DEF PostedInv, ModeInv
  <2>2. at = "pipe" => PipeLeft \in 1..(NConfig + 7)
    BY <2>0 DEF DaemonTypeOK, TypeOK, Pcs, PipeLeft
  <2>3. EventLeft \in 1..(NConfig + 12)
    BY <2>0, <2>1, <2>2 DEF Registered, EventLeft
  <2>4. CASE Leave \/ LeaveInterrupted \/ Reply
    BY <2>3, <2>4 DEF Leave, LeaveInterrupted, Abandon, Reply, NearerAnswer
  <2>5. CASE Begin \/ Backlight \/ Register
    <3>1. \/ at = "control" /\ at' = "drvdata"
          \/ at = "drvdata" /\ at' = "read"
      BY <2>1, <2>5 DEF Registered, Begin, Backlight, Register, St!Begin,
         St!GetBacklight, St!GetDc, St!SpiInit, St!PipeInit, St!OpenUdrm,
         St!CreateDevice, St!OpenControl, St!SetDrvdata, St!Advance
    <3>2. QED BY <2>0, <2>3, <3>1 DEF EventLeft, NearerAnswer
  <2>6. CASE Post
    BY <2>6 DEF Post
  <2>7. CASE Read \/ HandleNothing
    BY <2>0, <2>3, <2>7 DEF Read, HandleNothing, EventLeft, NearerAnswer
  <2>8. CASE Handle
    <3>1. at = "handle" /\ at' = IF pc' = "idle" THEN "reply" ELSE "pipe"
      BY <2>8 DEF Handle
    <3>2. pc' = "idle" \/ PipeLeft' \in 1..(NConfig + 7)
      <4>1. pc' \in {"is_on", "column", "blank_column", "sleep_off",
                      "power_off", "idle"}
        BY <2>8, HandleStep DEF Enable, Disable, Dirty, PowerDown
      <4>2. QED BY <2>0, <4>1 DEF PipeLeft
    <3>3. QED BY <2>0, <2>3, <3>1, <3>2 DEF EventLeft, NearerAnswer
  <2>9. CASE Pipe
    <3>1. at = "pipe" /\ at' = IF pc' = "idle" THEN "reply" ELSE "pipe"
      BY <2>9 DEF Pipe
    <3>2. /\ PipeLeft \in 1..(NConfig + 7)
          /\ pc' = "idle" \/ PipeLeft' \in 1..(PipeLeft - 1)
      BY <2>9, PipeIsStep, PipeNearer
    <3>3. QED BY <2>0, <2>3, <3>1, <3>2 DEF EventLeft, NearerAnswer
  <2>10. QED
    BY <2>4, <2>5, <2>6, <2>7, <2>8, <2>9 DEF DaemonNext, ServeNext
<1>2. QED
  BY <1>1, DaemonTypeCorrect, DaemonKeepsPipe, PostedAlways, PTL
     DEF DaemonSpec
=============================================================================
