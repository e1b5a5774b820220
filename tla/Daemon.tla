------------------------------- MODULE Daemon -------------------------------
(***************************************************************************)
(* The whole daemon around one panel: it comes up (Start), takes events    *)
(* from the kernel, runs the display pipe (MipiDbi) command by command to  *)
(* serve them, and answers.  It may leave or be killed between any two     *)
(* steps and be started again.                                             *)
(*                                                                         *)
(* An event is its type.  Creating and destroying framebuffers does not    *)
(* touch the pipe and is "OTHER" here, as is the flush of a framebuffer    *)
(* that udev->fbs does not hold; module Udrm has these handlers, and the   *)
(* poll of the event loop.                                                 *)
(***************************************************************************)
EXTENDS MipiDbi

CONSTANTS Rotations,   \* see Start
          NoEvent      \* nothing in the event channel

ASSUME RotationsAssumption == Rotations \subseteq Nat

VARIABLES at, rotation, mode, fds, node, utinydrm, drvdata,    \* see Start
          chan,        \* the event channel: "idle", "posted" or "taken"
          ev,          \* the event in it
          told,        \* the last pipe event answered: "on" or "off"
          flushed      \* the last flush since then was sent completely

start == <<rotation, mode, fds, node, utinydrm, drvdata>>
channel == <<chan, ev>>
answers == <<told, flushed>>
daemonVars == <<vars, at, start, channel, answers>>

St == INSTANCE Start

Events == {"PIPE_ENABLE", "PIPE_DISABLE", "FB_DIRTY", "OTHER"}

ASSUME NoEventAssumption == NoEvent \notin Events

DaemonInit ==
    /\ Init
    /\ St!Init
    /\ chan = "idle"
    /\ ev = NoEvent
    /\ told = "off"
    /\ flushed = FALSE

-----------------------------------------------------------------------------
(* Coming up and leaving                                                   *)

Begin ==
    /\ St!Begin
    /\ ProbeReset
    /\ UNCHANGED <<channel, answers>>

Backlight ==
    /\ St!GetBacklight
    /\ ProbeBacklight
    /\ UNCHANGED <<channel, answers>>

(* The steps of the start that do not touch the panel.                     *)
Register ==
    /\ St!GetDc \/ St!SpiInit \/ St!PipeInit \/ St!OpenUdrm
          \/ St!CreateDevice \/ St!OpenControl \/ St!SetDrvdata
    /\ UNCHANGED <<vars, channel, answers>>

(* The event the kernel waits with dies with its device.                   *)
Abandon ==
    /\ chan' = "idle"
    /\ ev' = NoEvent
    /\ told' = "off"
    /\ flushed' = FALSE

(* An error on the way up, a failing read or write, or a signal.           *)
Leave ==
    /\ St!Leave
    /\ Exit
    /\ Abandon

(* The same in the middle of devm_gpiod_get_optional().                    *)
LeaveInterrupted ==
    /\ \/ St!Leave /\ at = "backlight"
       \/ at = "down" /\ UNCHANGED <<at, start>>
    /\ ProbeInterrupted
    /\ Abandon

-----------------------------------------------------------------------------
(* Events                                                                  *)

(* The kernel, as soon as it has the device.                               *)
Post ==
    /\ node
    /\ chan = "idle"
    /\ chan' = "posted"
    /\ ev' \in Events
    /\ UNCHANGED <<vars, at, start, answers>>

Read ==
    /\ at = "read"
    /\ chan = "posted"
    /\ at' = "handle"
    /\ chan' = "taken"
    /\ UNCHANGED <<vars, start, ev, answers>>

(* Variant: the pipe has no function for disabling.                        *)
NothingDisabled ==
    CASE ev = "PIPE_ENABLE" -> prepared \/ board.regulator
      [] ev = "PIPE_DISABLE" -> TRUE
      [] ev = "FB_DIRTY" -> ~prepared
      [] OTHER -> TRUE

(* Variant: an event of another type is not answered.                      *)
NothingElse ==
    CASE ev = "PIPE_ENABLE" -> prepared \/ board.regulator
      [] ev = "FB_DIRTY" -> ~prepared
      [] OTHER -> FALSE

(* The event needs no command: the pipe is prepared, or its regulator      *)
(* fails; a flush of a pipe that is not prepared; an event for the list.   *)
Nothing ==
    CASE ev = "PIPE_ENABLE" -> prepared \/ board.regulator
      [] ev = "PIPE_DISABLE" -> FALSE
      [] ev = "FB_DIRTY" -> ~prepared
      [] OTHER -> TRUE

HandleNothing ==
    /\ at = "handle"
    /\ Nothing
    /\ at' = "reply"
    /\ UNCHANGED <<vars, start, channel, answers>>

(* Variant: the framebuffer is flushed by enabling alone, as if the pipe   *)
(* ran the work that mi0283qt_enable() schedules.                          *)
HandleEager ==
    /\ at = "handle"
    /\ \/ ev = "PIPE_ENABLE" /\ Enable
       \/ ev = "PIPE_ENABLE" /\ Dirty
       \/ ev = "PIPE_DISABLE" /\ Disable
       \/ ev = "FB_DIRTY" /\ Dirty
    /\ at' = IF pc' = "idle" THEN "reply" ELSE "pipe"
    /\ flushed' = (flushed /\ ev # "PIPE_DISABLE")
    /\ UNCHANGED <<start, channel, told>>

(* utinydrm_pipe_enable(), utinydrm_pipe_disable(), utinydrm_fb_dirty():   *)
(* the first step of the pipe function.                                    *)
Handle ==
    /\ at = "handle"
    /\ \/ ev = "PIPE_ENABLE" /\ Enable
       \/ ev = "PIPE_DISABLE" /\ Disable
       \/ ev = "FB_DIRTY" /\ Dirty
    /\ at' = IF pc' = "idle" THEN "reply" ELSE "pipe"
    /\ flushed' = (flushed /\ ev # "PIPE_DISABLE")
    /\ UNCHANGED <<start, channel, told>>

(* Its other steps.  Only mipi_dbi_fb_dirty() sends pixels.                *)
PipeStep ==
    \/ EnableIsOn \/ EnableIsOff
    \/ ResetLow \/ ResetHigh \/ SoftReset \/ SoftResetFails
    \/ SetDisplayOff \/ Configure \/ ExitSleep \/ SetDisplayOn
    \/ SetColumnAddress \/ SetPageAddress \/ EnableBacklight
    \/ BlankNoMemory \/ BlankColumn \/ BlankPage \/ BlankMemory
    \/ DisableDisplayOff \/ EnterSleep \/ PowerOff

(* Variant: the answer is given after one more step of the pipe.           *)
PipeEarly ==
    /\ at = "pipe"
    /\ \/ PipeStep /\ UNCHANGED flushed
       \/ WriteMemory /\ flushed' = TRUE
       \/ WriteMemoryFails /\ flushed' = FALSE
    /\ at' = "reply"
    /\ UNCHANGED <<start, channel, told>>

Pipe ==
    /\ at = "pipe"
    /\ \/ PipeStep /\ UNCHANGED flushed
       \/ WriteMemory /\ flushed' = TRUE
       \/ WriteMemoryFails /\ flushed' = FALSE
    /\ at' = IF pc' = "idle" THEN "reply" ELSE "pipe"
    /\ UNCHANGED <<start, channel, told>>

(* The answer is 0, whatever became of the commands.                       *)
Reply ==
    /\ at = "reply"
    /\ at' = "read"
    /\ chan' = "idle"
    /\ ev' = NoEvent
    /\ told' = CASE ev = "PIPE_ENABLE" -> "on"
                 [] ev = "PIPE_DISABLE" -> "off"
                 [] OTHER -> told
    /\ UNCHANGED <<vars, start, flushed>>

-----------------------------------------------------------------------------
ServeNext == Read \/ HandleNothing \/ Handle \/ Pipe \/ Reply

DaemonNext == Begin \/ Backlight \/ Register \/ Leave \/ LeaveInterrupted
                  \/ Post \/ ServeNext

DaemonSpec == DaemonInit /\ [][DaemonNext]_daemonVars

(* A daemon that has been started goes on; nobody has to start it, or to   *)
(* post an event.                                                          *)
DaemonFairSpec ==
    DaemonSpec /\ WF_daemonVars(Backlight \/ Register \/ ServeNext)

-----------------------------------------------------------------------------
(* Properties                                                              *)

(* The variables that are not those of MipiDbi keep their type, and main() *)
(* is where the pipe is: in a handler exactly while the pipe is at work.   *)
DaemonTypeOK ==
    /\ St!StartOK
    /\ chan \in {"idle", "posted", "taken"}
    /\ ev \in Events \cup {NoEvent}
    /\ told \in {"on", "off"}
    /\ flushed \in BOOLEAN
    /\ at = "pipe" <=> pc \notin {"down", "probe", "idle"}
    /\ chan = "taken" <=> at \in {"handle", "pipe", "reply"}

(* The bus is used only after the registration is complete: spi_sync()     *)
(* follows the driver data, and the transmit buffer is made through        *)
(* dev->utinydrm, although the kernel may post its first event before      *)
(* either is set.                                                          *)
BusUsable ==
    pc \notin {"down", "probe", "idle"}
        => drvdata /\ utinydrm /\ fds = {"udrm", "control"}

(* The mode that is registered with the kernel has the orientation of the  *)
(* panel memory as mi0283qt_enable() sets it up for the same rotation.     *)
ModeFitsPanel ==
    node => (mode = St!PanelMode <=> "MV" \in St!AddressMode(rotation))

(* Once a disable has been answered the light stays off, whatever flushes  *)
(* the kernel still posts, until it enables the pipe again; and it is off  *)
(* before the first enable of a new daemon.                                *)
DisabledIsDark ==
    told = "off" /\ ~ledLost /\ at \in {"read", "handle", "reply"}
        /\ ev # "PIPE_DISABLE"
        => ~led

(* An enable that was answered, always with success, has the display up,   *)
(* unless a command failed or the regulator did.                           *)
OnIsUp ==
    told = "on" /\ ~lost /\ ~board.regulator /\ at = "read"
        => prepared /\ panel.on /\ panel.awake

(* After a flush of an enabled pipe whose pixels were sent, the display is *)
(* on, lit and holds a whole frame, exactly the one that was sent if the   *)
(* flush was of the whole frame; also on a display that was taken over     *)
(* from an earlier daemon, unless some write went wrong.                   *)
FlushedIsShown ==
    told = "on" /\ flushed /\ ~lost /\ ~ledLost /\ at = "read"
        => /\ led = board.backlight
           /\ panel.on /\ panel.awake /\ panel.memory # "junk"
           /\ kind = "full" => panel.memory = "frame"

(* Every event the kernel posts is answered, or its device goes away.      *)
EventAnswered == (chan # "idle") ~> (chan = "idle")

-----------------------------------------------------------------------------
(* The light                                                               *)

Phase ==
    CASE at = "down" -> "down"
      [] at = "read" -> "up"
      [] at \in St!Starting -> "starting"
      [] OTHER -> "asked"

Light == INSTANCE LightService WITH
    NoReq <- "none",
    phase <- Phase,
    req <- IF Phase = "asked" THEN ev ELSE "none",
    on <- told = "on", light <- led, fault <- ledLost

(* Whatever fails and whenever the daemon is killed, the light behaves as  *)
(* LightService says: on only by a flush of an enabled pipe, off after a   *)
(* disable and when a daemon is ready.                                     *)
ImplementsLight == Light!Spec
=============================================================================
