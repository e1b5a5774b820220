------------------------------ MODULE MipiDbi ------------------------------
(***************************************************************************)
(* The display pipe of the mi0283qt driver at the granularity of single    *)
(* bus writes: mi0283qt_enable(), mipi_dbi_fb_dirty() and                  *)
(* mipi_dbi_pipe_disable() with the probe that precedes them, against an   *)
(* ILI9341 panel and a backlight LED that keep their state when the daemon *)
(* is killed between two writes and started again.                         *)
(*                                                                         *)
(* A write may fail, and most results are ignored; a failed write may or   *)
(* may not have reached the panel.  "lost" remembers that a command was    *)
(* not acknowledged, or was sent while the panel was held in reset, since  *)
(* the panel last came out of a reset.  Rectangles are abstracted to       *)
(* "full" and "part", and a part may carry wrong pixels; module FbFlush    *)
(* has the arithmetic.  The lines of the bus are taken to work: a write    *)
(* that is acknowledged has arrived, which is BusService without its       *)
(* faults.                                                                 *)
(***************************************************************************)
EXTENDS Integers, FiniteSets

CONSTANTS NConfig,   \* registers mi0283qt_enable() writes between reset and wake-up
          Boards     \* the boards to drive: see Board

ASSUME NConfigAssumption == NConfig \in Nat \ {0}

(* Which of mipi->backlight, mipi->regulator and mipi->reset are not NULL. *)
(* The headers under include/linux give this build both GPIOs and no       *)
(* regulator (ThisBoard); mipi-dbi.c caters for every combination.         *)
Board == [backlight : BOOLEAN, regulator : BOOLEAN, reset : BOOLEAN]

ThisBoard == [backlight |-> TRUE, regulator |-> FALSE, reset |-> TRUE]

ASSUME BoardsAssumption == Boards \subseteq Board /\ ThisBoard \in Boards

VARIABLES
    board,           \* the board the daemon runs on
    (* hardware *)
    panel,           \* the ILI9341
    rst,             \* the reset line is active
    led,             \* the backlight is on
    exported,        \* the GPIOs that are exported through sysfs
    (* history *)
    lost, ledLost,   \* commands, or the last LED write, went wrong
    (* daemon *)
    pc,              \* where the daemon is, "down" when it does not run
    prepared, enabled,
    step,            \* the configuration register that is written next
    kind             \* the merged rectangle of the flush: "full" or "part"

hardware == <<panel, rst, led, exported>>
history == <<lost, ledLost>>
flags == <<prepared, enabled>>
vars == <<board, hardware, history, pc, flags, step, kind>>

Config == 1..NConfig

Kinds == {"full", "part"}

-----------------------------------------------------------------------------
(* What the frame memory holds: a frame, a frame with a part that was sent *)
(* later and may be wrong or misplaced, or anything.                       *)
Memories == {"frame", "patched", "junk"}

(* The panel: display output, sleep mode, the configuration registers that *)
(* hold the driver's values, the column and page window and the memory.    *)
Panels == [on : BOOLEAN, awake : BOOLEAN, config : SUBSET Config,
           column : Kinds \cup {"other"}, page : Kinds \cup {"other"},
           memory : Memories]

ResetPanel == [on |-> FALSE, awake |-> FALSE, config |-> {},
               column |-> "other", page |-> "other", memory |-> "junk"]

(* left behind by a bootloader *)
BootPanel == [on |-> TRUE, awake |-> TRUE, config |-> Config,
              column |-> "other", page |-> "other", memory |-> "junk"]

(* What pixels for a rectangle of kind k may make of the memory: right     *)
(* only in the window of that very rectangle.  A part updates what was     *)
(* there, but an end at a multiple of 256 (FbFlush!Params) or rows that    *)
(* are not whole (FbFlush!FlushStart) put other pixels in it.              *)
Memory(p, k) ==
    {m \in Memories :
        CASE p.column # k \/ p.page # k -> m = "junk"
          [] k = "full" -> m = "frame"
          [] OTHER -> m = p.memory \/ (m = "patched" /\ p.memory = "frame")}

(* A write that reports success, and one that reports an error, with the   *)
(* panel it should lead to.                                                *)
Sent(new) ==
    /\ panel' = IF rst THEN panel ELSE new
    /\ lost' = (lost \/ rst)

Failed(new) ==
    /\ panel' \in IF rst THEN {panel} ELSE {panel, new}
    /\ lost' = TRUE

(* mipi_dbi_write() with the result ignored.                               *)
Write(new) == Sent(new) \/ Failed(new)

(* A window command that gets lost leaves the window of an earlier flush.  *)
WriteWindow(new, old) ==
    \/ Sent(new)
    \/ panel' \in (IF rst THEN {panel} ELSE {old, new}) /\ lost' = TRUE

Stale(w) == IF w = "full" THEN "full" ELSE "other"

(* tinydrm_enable_backlight(), tinydrm_disable_backlight(): a GPIO write,  *)
(* errors are printed only.                                                *)
SetLed(value) == \/ led' = value /\ ledLost' = FALSE
                 \/ led' = led /\ ledLost' = TRUE

Init ==
    /\ board \in Boards
    /\ panel \in {ResetPanel, BootPanel}
    /\ rst = FALSE
    /\ led = FALSE
    /\ exported = {}
    /\ lost = FALSE /\ ledLost = FALSE
    /\ pc = "down"
    /\ prepared = FALSE /\ enabled = FALSE
    /\ step = 1
    /\ kind = "full"

-----------------------------------------------------------------------------
(* mi0283qt_probe()                                                        *)

(* The reset GPIO.  Exporting it makes it an output that is low at first;  *)
(* then it is set high, which may fail.                                    *)
ProbeReset ==
    /\ pc = "down"
    /\ IF board.reset
       THEN /\ exported' = exported \cup {"reset"}
            /\ IF "reset" \in exported
               THEN rst' \in {FALSE, rst} /\ UNCHANGED <<panel, lost>>
               ELSE rst' \in BOOLEAN /\ panel' = ResetPanel /\ lost' = FALSE
       ELSE UNCHANGED <<exported, rst, panel, lost>>
    /\ prepared' = FALSE /\ enabled' = FALSE
    /\ step' = 1 /\ kind' = "full"
    /\ pc' = "probe"
    /\ UNCHANGED <<board, led, ledLost>>

(* The LED GPIO: off.                                                      *)
ProbeBacklight ==
    /\ pc = "probe"
    /\ IF board.backlight
       THEN /\ exported' = exported \cup {"led"}
            /\ IF "led" \in exported THEN SetLed(FALSE)
               ELSE led' = FALSE /\ ledLost' = FALSE
       ELSE UNCHANGED <<exported, led, ledLost>>
    /\ pc' = "idle"
    /\ UNCHANGED <<board, panel, rst, lost, flags, step, kind>>

(* devm_gpiod_get_optional() breaks off between the export and the         *)
(* direction: the GPIO is exported, but still an input.  No later start    *)
(* will make it an output, so every write to it may fail from now on.      *)
ProbeInterrupted ==
    /\ \/ /\ pc = "down" /\ board.reset /\ "reset" \notin exported
          /\ exported' = exported \cup {"reset"}
       \/ /\ pc = "probe" /\ board.backlight /\ "led" \notin exported
          /\ exported' = exported \cup {"led"}
    /\ pc' = "down"
    /\ UNCHANGED <<board, panel, rst, led, history, flags, step, kind>>

(* The daemon leaves, fails to register or is killed, between any two      *)
(* steps.  tinydrm_unregister() does not touch the hardware.               *)
Exit ==
    /\ pc # "down"
    /\ pc' = "down"
    /\ UNCHANGED <<board, hardware, history, flags, step, kind>>

-----------------------------------------------------------------------------
(* mi0283qt_enable()                                                       *)

(* Nothing to do if prepared; a regulator may fail.                        *)
Enable ==
    /\ pc = "idle"
    /\ ~prepared
    /\ pc' = "is_on"
    /\ UNCHANGED <<board, hardware, history, flags, step, kind>>

(* mipi_dbi_display_is_on(): display on, awake and in normal mode.         *)
DisplayIsOn == ~rst /\ panel.on /\ panel.awake

(* Variant: the shortcut does not set the flag.                            *)
EnableIsOnOnly ==
    /\ pc = "is_on"
    /\ DisplayIsOn
    /\ pc' = "idle"
    /\ UNCHANGED <<board, hardware, history, flags, step, kind>>

(* The bootloader, or an earlier daemon, has done the setup.               *)
EnableIsOn ==
    /\ pc = "is_on"
    /\ DisplayIsOn
    /\ prepared' = TRUE
    /\ pc' = "idle"
    /\ UNCHANGED <<board, hardware, history, enabled, step, kind>>

(* The display is off, or the register cannot be read.                     *)
EnableIsOff ==
    /\ pc = "is_on"
    /\ pc' = IF board.reset THEN "reset_low" ELSE "soft_reset"
    /\ UNCHANGED <<board, hardware, history, flags, step, kind>>

(* mipi_dbi_hw_reset(): two GPIO writes 20 ms apart, errors printed only.  *)
ResetLow ==
    /\ pc = "reset_low"
    /\ \/ rst' = TRUE /\ panel' = ResetPanel /\ lost' = FALSE
       \/ UNCHANGED <<rst, panel, lost>>
    /\ pc' = "reset_high"
    /\ UNCHANGED <<board, led, exported, ledLost, flags, step, kind>>

ResetHigh ==
    /\ pc = "reset_high"
    /\ rst' \in {FALSE, rst}
    /\ pc' = "soft_reset"
    /\ UNCHANGED <<board, panel, led, exported, history, flags, step, kind>>

(* The one command whose result is checked.                                *)
SoftReset ==
    /\ pc = "soft_reset"
    /\ panel' = IF rst THEN panel ELSE ResetPanel
    /\ lost' = rst
    /\ pc' = "display_off"
    /\ UNCHANGED <<board, rst, led, exported, ledLost, flags, step, kind>>

SoftResetFails ==
    /\ pc = "soft_reset"
    /\ Failed(ResetPanel)
    /\ pc' = "idle"
    /\ UNCHANGED <<board, rst, led, exported, ledLost, flags, step, kind>>

SetDisplayOff ==
    /\ pc = "display_off"
    /\ Write([panel EXCEPT !.on = FALSE])
    /\ step' = 1
    /\ pc' = "config"
    /\ UNCHANGED <<board, rst, led, exported, ledLost, flags, kind>>

(* Variant: the last register is forgotten.                                *)
ConfigureShort ==
    /\ pc = "config"
    /\ Write([panel EXCEPT !.config = @ \cup ({step} \ {NConfig})])
    /\ step' = IF step = NConfig THEN 1 ELSE step + 1
    /\ pc' = IF step = NConfig THEN "exit_sleep" ELSE "config"
    /\ UNCHANGED <<board, rst, led, exported, ledLost, flags, kind>>

(* Variant: the index of the register is not taken back.                   *)
ConfigureOnePast ==
    /\ pc = "config"
    /\ Write([panel EXCEPT !.config = @ \cup {step}])
    /\ step' = step + 1
    /\ pc' = IF step = NConfig THEN "exit_sleep" ELSE "config"
    /\ UNCHANGED <<board, rst, led, exported, ledLost, flags, kind>>

(* PWCTRLB to DISCTRL, one after the other.                                *)
Configure ==
    /\ pc = "config"
    /\ Write([panel EXCEPT !.config = @ \cup {step}])
    /\ step' = IF step = NConfig THEN 1 ELSE step + 1
    /\ pc' = IF step = NConfig THEN "exit_sleep" ELSE "config"
    /\ UNCHANGED <<board, rst, led, exported, ledLost, flags, kind>>

ExitSleep ==
    /\ pc = "exit_sleep"
    /\ Write([panel EXCEPT !.awake = TRUE])
    /\ pc' = "display_on"
    /\ UNCHANGED <<board, rst, led, exported, ledLost, flags, step, kind>>

SetDisplayOn ==
    /\ pc = "display_on"
    /\ Write([panel EXCEPT !.on = TRUE])
    /\ prepared' = TRUE
    /\ pc' = "idle"
    /\ UNCHANGED <<board, rst, led, exported, ledLost, enabled, step, kind>>

-----------------------------------------------------------------------------
(* mipi_dbi_fb_dirty()                                                     *)

(* Variant: tinydrm_check_dirty() does not widen the first flush.          *)
DirtyAnyKind ==
    /\ pc = "idle"
    /\ prepared
    /\ kind' \in Kinds
    /\ pc' = "column"
    /\ UNCHANGED <<board, hardware, history, flags, step>>

(* tinydrm_check_dirty() and tinydrm_merge_clips(): nothing if the display *)
(* is not prepared, everything the first time.                             *)
Dirty ==
    /\ pc = "idle"
    /\ prepared
    /\ kind' \in IF enabled THEN Kinds ELSE {"full"}
    /\ pc' = "column"
    /\ UNCHANGED <<board, hardware, history, flags, step>>

SetColumnAddress ==
    /\ pc = "column"
    /\ WriteWindow([panel EXCEPT !.column = kind],
                   [panel EXCEPT !.column = Stale(@)])
    /\ pc' = "page"
    /\ UNCHANGED <<board, rst, led, exported, ledLost, flags, step, kind>>

SetPageAddress ==
    /\ pc = "page"
    /\ WriteWindow([panel EXCEPT !.page = kind],
                   [panel EXCEPT !.page = Stale(@)])
    /\ pc' = "memory"
    /\ UNCHANGED <<board, rst, led, exported, ledLost, flags, step, kind>>

(* Variant: the light is left to the next flush.                           *)
WriteMemoryOnly ==
    /\ pc = "memory"
    /\ \E m \in Memory(panel, kind) : Sent([panel EXCEPT !.memory = m])
    /\ pc' = "idle"
    /\ UNCHANGED <<board, rst, led, exported, ledLost, flags, step, kind>>

WriteMemory ==
    /\ pc = "memory"
    /\ \E m \in Memory(panel, kind) : Sent([panel EXCEPT !.memory = m])
    /\ pc' = IF enabled THEN "idle" ELSE "backlight"
    /\ UNCHANGED <<board, rst, led, exported, ledLost, flags, step, kind>>

(* No memory, a format that is not supported, or a transfer that breaks    *)
(* off: the flush ends here.                                               *)
WriteMemoryFails ==
    /\ pc = "memory"
    /\ \/ UNCHANGED <<panel, lost>>
       \/ Failed([panel EXCEPT !.memory = "junk"])
    /\ pc' = "idle"
    /\ UNCHANGED <<board, rst, led, exported, ledLost, flags, step, kind>>

EnableBacklight ==
    /\ pc = "backlight"
    /\ IF board.backlight THEN SetLed(TRUE) ELSE UNCHANGED <<led, ledLost>>
    /\ enabled' = TRUE
    /\ pc' = "idle"
    /\ UNCHANGED <<board, panel, rst, exported, lost, prepared, step, kind>>

-----------------------------------------------------------------------------
(* mipi_dbi_pipe_disable()                                                 *)

(* The step after the backlight.                                           *)
PowerDown ==
    CASE prepared /\ board.backlight -> "sleep_off"
      [] prepared /\ ~board.backlight /\ board.regulator -> "power_off"
      [] OTHER -> "idle"

(* Variant: the display is still taken for enabled.                        *)
DisableKeepsEnabled ==
    /\ pc = "idle"
    /\ IF enabled /\ board.backlight
       THEN SetLed(FALSE) ELSE UNCHANGED <<led, ledLost>>
    /\ pc' = IF enabled /\ ~board.backlight /\ ~board.regulator
             THEN "blank_column" ELSE PowerDown
    /\ UNCHANGED <<board, panel, rst, exported, lost, flags, step, kind>>

(* The backlight, or the blanking of a display without one, comes first.   *)
Disable ==
    /\ pc = "idle"
    /\ IF enabled /\ board.backlight
       THEN SetLed(FALSE) ELSE UNCHANGED <<led, ledLost>>
    /\ enabled' = FALSE
    /\ pc' = IF enabled /\ ~board.backlight /\ ~board.regulator
             THEN "blank_column" ELSE PowerDown
    /\ UNCHANGED <<board, panel, rst, exported, lost, prepared, step, kind>>

(* mipi_dbi_blank(): the minimum size is never set, so the window becomes  *)
(* columns and pages 0 to 255 and no pixel follows.                        *)
BlankColumn ==
    /\ pc = "blank_column"
    /\ Write([panel EXCEPT !.column = "other"])
    /\ pc' = "blank_page"
    /\ UNCHANGED <<board, rst, led, exported, ledLost, flags, step, kind>>

(* There is no memory for the black pixels: nothing is sent.               *)
BlankNoMemory ==
    /\ pc = "blank_column"
    /\ pc' = PowerDown
    /\ UNCHANGED <<board, hardware, history, flags, step, kind>>

BlankPage ==
    /\ pc = "blank_page"
    /\ Write([panel EXCEPT !.page = "other"])
    /\ pc' = "blank_memory"
    /\ UNCHANGED <<board, rst, led, exported, ledLost, flags, step, kind>>

BlankMemory ==
    /\ pc = "blank_memory"
    /\ Write(panel)
    /\ pc' = PowerDown
    /\ UNCHANGED <<board, rst, led, exported, ledLost, flags, step, kind>>

DisableDisplayOff ==
    /\ pc = "sleep_off"
    /\ Write([panel EXCEPT !.on = FALSE])
    /\ pc' = "enter_sleep"
    /\ UNCHANGED <<board, rst, led, exported, ledLost, flags, step, kind>>

(* Variant: the display is still taken for prepared.                       *)
EnterSleepKeepsPrepared ==
    /\ pc = "enter_sleep"
    /\ Write([panel EXCEPT !.awake = FALSE])
    /\ pc' = "idle"
    /\ UNCHANGED <<board, rst, led, exported, ledLost, flags, step, kind>>

EnterSleep ==
    /\ pc = "enter_sleep"
    /\ Write([panel EXCEPT !.awake = FALSE])
    /\ prepared' = FALSE
    /\ pc' = IF board.regulator THEN "power_off" ELSE "idle"
    /\ UNCHANGED <<board, rst, led, exported, ledLost, enabled, step, kind>>

(* The regulator calls of this program do nothing.                         *)
PowerOff ==
    /\ pc = "power_off"
    /\ prepared' = FALSE
    /\ pc' = "idle"
    /\ UNCHANGED <<board, hardware, history, enabled, step, kind>>

-----------------------------------------------------------------------------
EnableNext ==
    \/ Enable \/ EnableIsOn \/ EnableIsOff
    \/ ResetLow \/ ResetHigh \/ SoftReset \/ SoftResetFails
    \/ SetDisplayOff \/ Configure \/ ExitSleep \/ SetDisplayOn

DirtyNext ==
    \/ Dirty \/ SetColumnAddress \/ SetPageAddress
    \/ WriteMemory \/ WriteMemoryFails \/ EnableBacklight

DisableNext ==
    \/ Disable \/ BlankNoMemory \/ BlankColumn \/ BlankPage \/ BlankMemory
    \/ DisableDisplayOff \/ EnterSleep \/ PowerOff

Next == ProbeReset \/ ProbeBacklight \/ ProbeInterrupted \/ Exit
            \/ EnableNext \/ DirtyNext \/ DisableNext

Spec == Init /\ [][Next]_vars

-----------------------------------------------------------------------------
(* Properties                                                              *)

Pcs == {"down", "probe", "idle", "is_on", "reset_low", "reset_high",
        "soft_reset", "display_off", "config", "exit_sleep", "display_on",
        "column", "page", "memory", "backlight", "blank_column", "blank_page",
        "blank_memory", "sleep_off", "enter_sleep", "power_off"}

(* Every variable keeps its type; the configuration never runs past its    *)
(* last register.                                                          *)
TypeOK ==
    /\ board \in Boards
    /\ panel \in Panels
    /\ rst \in BOOLEAN /\ led \in BOOLEAN
    /\ exported \in SUBSET {"reset", "led"}
    /\ lost \in BOOLEAN /\ ledLost \in BOOLEAN
    /\ pc \in Pcs
    /\ prepared \in BOOLEAN /\ enabled \in BOOLEAN
    /\ step \in Config
    /\ kind \in Kinds

(* A lit backlight shines on a display that is on, awake and was sent a    *)
(* whole frame, patched by later parts at most, at every moment of every   *)
(* handler, also after the daemon died in the middle of one and while it   *)
(* starts again, unless a write went wrong.                                *)
LitShowsFrame ==
    led /\ ~lost /\ ~ledLost
        => panel.on /\ panel.awake /\ panel.memory # "junk"

(* mi0283qt_enable() skips the setup of a display that is on.  It may: a   *)
(* display that is on has been configured completely, even if the daemon   *)
(* that did it was killed half way, because turning it on comes last.      *)
OnIsConfigured ==
    panel.on /\ panel.awake /\ ~lost => panel.config = Config

(* The steps of mipi_dbi_pipe_disable() after which prepared is stale.     *)
Disabling == {"enter_sleep", "down"}

(* Unless commands were lost, tdev->prepared says that the display is on.  *)
PreparedIsUp ==
    prepared /\ ~lost /\ pc \notin Disabling => panel.on /\ panel.awake

(* The flags: a display is enabled only while prepared, so that the next   *)
(* mi0283qt_enable() is followed by a flush of the whole frame; and one    *)
(* that is not enabled is dark.                                            *)
EnabledIsPrepared ==
    /\ enabled => prepared
    /\ ~enabled /\ ~ledLost /\ pc \notin {"down", "probe"} => ~led
=============================================================================
