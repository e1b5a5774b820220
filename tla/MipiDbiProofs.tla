--------------------------- MODULE MipiDbiProofs ---------------------------
(***************************************************************************)
(* Proofs about the display pipe, for every number of configuration        *)
(* registers and every set of boards.                                      *)
(***************************************************************************)
EXTENDS MipiDbi, TLAPS

Enabling == {"is_on", "reset_low", "reset_high", "soft_reset",
             "display_off", "config", "exit_sleep", "display_on"}
Flushing == {"column", "page", "memory", "backlight"}
Stopping == {"blank_column", "blank_page", "blank_memory",
             "sleep_off", "enter_sleep", "power_off"}

(* A panel that is held in reset is in its reset state.                    *)
ResetHeld == rst => panel = ResetPanel

(* Before the first probe drives the reset line nothing is lit; after it   *)
(* the line stays exported.  There is no light without a backlight.        *)
Dark ==
    /\ board.reset /\ "reset" \notin exported => pc = "down" /\ ~led
    /\ led => board.backlight

(* How far mi0283qt_enable() has got, unless a command was lost.           *)
Configuring ==
    ~lost => /\ pc = "display_off" => panel = ResetPanel
             /\ pc = "config" => /\ ~panel.on
                                 /\ \A r \in 1..(step - 1) : r \in panel.config
             /\ pc = "exit_sleep" => ~panel.on /\ panel.config = Config
             /\ pc = "display_on" => panel.awake /\ panel.config = Config

(* The flags at each place of the handlers.                                *)
FlagsAt ==
    /\ pc \in Enabling \cup {"probe"} => ~prepared /\ ~enabled
    /\ pc \in Flushing => prepared
    /\ pc = "backlight" => ~enabled
    /\ pc \in Stopping => ~enabled

(* How far a flush has got, unless a command was lost; the first one is of *)
(* the whole frame.                                                        *)
Flush ==
    /\ pc \in Flushing /\ ~enabled => kind = "full"
    /\ ~lost => /\ pc = "page" => panel.column = kind
                /\ pc = "memory" => panel.column = kind /\ panel.page = kind
                /\ pc = "backlight" => panel.memory = "frame"

Progress == ResetHeld /\ Dark /\ Configuring /\ FlagsAt /\ Flush

Safety == LitShowsFrame /\ OnIsConfigured /\ PreparedIsUp /\ EnabledIsPrepared

IInv == TypeOK /\ Progress /\ Safety

(* Every value a command stores keeps the panel a panel.                   *)
LEMMA PanelTypes ==
    /\ ResetPanel \in Panels
    /\ \A p \in Panels :
          /\ \A b \in BOOLEAN : /\ [p EXCEPT !.on = b] \in Panels
                                /\ [p EXCEPT !.awake = b] \in Panels
          /\ \A r \in Config : [p EXCEPT !.config = @ \cup {r}] \in Panels
          /\ \A w \in Kinds \cup {"other"} : /\ [p EXCEPT !.column = w] \in Panels
                                             /\ [p EXCEPT !.page = w] \in Panels
          /\ \A m \in Memories : [p EXCEPT !.memory = m] \in Panels
          /\ Stale(p.column) \in Kinds \cup {"other"}
          /\ Stale(p.page) \in Kinds \cup {"other"}
<1>1. ResetPanel \in Panels
  BY DEF ResetPanel, Panels, Memories
<1>2. ASSUME NEW p \in Panels
      PROVE  /\ \A b \in BOOLEAN : /\ [p EXCEPT !.on = b] \in Panels
                                   /\ [p EXCEPT !.awake = b] \in Panels
             /\ \A r \in Config : [p EXCEPT !.config = @ \cup {r}] \in Panels
  BY DEF Panels
<1>3. ASSUME NEW p \in Panels
      PROVE  /\ \A w \in Kinds \cup {"other"} : /\ [p EXCEPT !.column = w] \in Panels
                                                /\ [p EXCEPT !.page = w] \in Panels
             /\ \A m \in Memories : [p EXCEPT !.memory = m] \in Panels
             /\ Stale(p.column) \in Kinds \cup {"other"}
             /\ Stale(p.page) \in Kinds \cup {"other"}
  BY DEF Panels, Kinds, Stale
<1> QED BY <1>1, <1>2, <1>3

(* Probing keeps the invariant, and so does the end of the daemon          *)
(* anywhere.                                                               *)
LEMMA StartKeeps ==
    IInv /\ (ProbeReset \/ ProbeBacklight \/ ProbeInterrupted \/ Exit) => IInv'
<1> SUFFICES ASSUME IInv,
                    ProbeReset \/ ProbeBacklight \/ ProbeInterrupted \/ Exit
             PROVE  IInv'
  OBVIOUS
<1> USE DEF IInv, TypeOK, Progress, ResetHeld, Dark, Configuring, FlagsAt, Flush,
            Enabling, Flushing, Stopping, Safety, LitShowsFrame, OnIsConfigured,
            PreparedIsUp, Disabling, EnabledIsPrepared
<1>1. CASE ProbeReset
  <2>1. TypeOK'
    <3>1. /\ panel' \in Panels /\ lost' \in BOOLEAN
          /\ rst' \in BOOLEAN
          /\ exported' \in SUBSET {"reset", "led"}
      <4>1. CASE board.reset /\ "reset" \notin exported
        BY <1>1, <4>1, PanelTypes DEF ProbeReset
      <4>2. CASE board.reset /\ "reset" \in exported
        BY <1>1, <4>2 DEF ProbeReset
      <4>3. CASE ~board.reset
        BY <1>1, <4>3 DEF ProbeReset
      <4> QED BY <4>1, <4>2, <4>3
    <3>2. step' \in Config /\ kind' \in Kinds
      BY <1>1, NConfigAssumption DEF ProbeReset, Config, Kinds
    <3>3. /\ pc' \in Pcs
          /\ prepared' \in BOOLEAN /\ enabled' \in BOOLEAN
          /\ UNCHANGED <<board, led, ledLost>>
      BY <1>1 DEF ProbeReset, Pcs
    <3> QED BY <3>1, <3>2, <3>3
  <2>2. Progress'
    BY <1>1 DEF ProbeReset, ResetPanel, Panels
  <2>3. Safety'
    <3>1. CASE board.reset /\ "reset" \notin exported
      BY <1>1, <3>1 DEF ProbeReset, ResetPanel
    <3>2. CASE ~(board.reset /\ "reset" \notin exported)
      BY <1>1, <3>2 DEF ProbeReset
    <3> QED BY <3>1, <3>2
  <2> QED BY <2>1, <2>2, <2>3
<1>2. CASE ProbeBacklight
  <2>1. TypeOK'
    BY <1>2 DEF ProbeBacklight, SetLed, flags, Pcs, Config
  <2>2. Progress'
    BY <1>2 DEF ProbeBacklight, SetLed, flags
  <2>3. Safety'
    BY <1>2 DEF ProbeBacklight, SetLed, flags
  <2> QED BY <2>1, <2>2, <2>3
<1>3. CASE Exit
  <2>1. TypeOK'
    BY <1>3 DEF Exit, hardware, history, flags, Pcs, Config
  <2>2. Progress'
    BY <1>3 DEF Exit, hardware, history, flags
  <2>3. Safety'
    BY <1>3 DEF Exit, hardware, history, flags
  <2> QED BY <2>1, <2>2, <2>3
<1>4. CASE ProbeInterrupted
  <2>1. TypeOK'
    BY <1>4 DEF ProbeInterrupted, history, flags, Pcs, Config
  <2>2. Progress'
    BY <1>4 DEF ProbeInterrupted, history, flags
  <2>3. Safety'
    BY <1>4 DEF ProbeInterrupted, history, flags
  <2> QED BY <2>1, <2>2, <2>3
<1> QED BY <1>1, <1>2, <1>3, <1>4

(* The steps of mi0283qt_enable() keep the invariant: turning the display  *)
(* on is the last command, after every register.                           *)
LEMMA EnableKeeps == IInv /\ EnableNext => IInv'
<1> SUFFICES ASSUME IInv, EnableNext PROVE IInv'
  OBVIOUS
<1> USE DEF IInv, TypeOK, Progress, ResetHeld, Dark, Configuring, FlagsAt, Flush,
            Enabling, Flushing, Stopping, Safety, LitShowsFrame, OnIsConfigured,
            PreparedIsUp, Disabling, EnabledIsPrepared
<1>1. CASE Enable
  <2>1. TypeOK'
    BY <1>1 DEF Enable, hardware, history, flags, Pcs, Config
  <2>2. Progress'
    BY <1>1 DEF Enable, hardware, history, flags
  <2>3. Safety'
    BY <1>1 DEF Enable, hardware, history, flags
  <2> QED BY <2>1, <2>2, <2>3
<1>2. CASE EnableIsOn
  <2>1. TypeOK'
    BY <1>2 DEF EnableIsOn, DisplayIsOn, hardware, history, Pcs, Config
  <2>2. Progress'
    BY <1>2 DEF EnableIsOn, DisplayIsOn, hardware, history
  <2>3. Safety'
    BY <1>2 DEF EnableIsOn, DisplayIsOn, hardware, history
  <2> QED BY <2>1, <2>2, <2>3
<1>3. CASE EnableIsOff
  <2>1. TypeOK'
    BY <1>3 DEF EnableIsOff, hardware, history, flags, Pcs, Config
  <2>2. Progress'
    BY <1>3 DEF EnableIsOff, hardware, history, flags
  <2>3. Safety'
    BY <1>3 DEF EnableIsOff, hardware, history, flags
  <2> QED BY <2>1, <2>2, <2>3
<1>4. CASE ResetLow
  <2>1. TypeOK'
    BY <1>4, PanelTypes DEF ResetLow, flags, Pcs, Config
  <2>2. Progress'
    BY <1>4 DEF ResetLow, ResetPanel, flags, Panels
  <2>3. Safety'
    BY <1>4 DEF ResetLow, ResetPanel, flags, Panels
  <2> QED BY <2>1, <2>2, <2>3
<1>5. CASE ResetHigh
  <2>1. TypeOK'
    BY <1>5 DEF ResetHigh, history, flags, Pcs, Config
  <2>2. Progress'
    <3>1. CASE rst' = rst
      BY <1>5, <3>1 DEF ResetHigh, history, flags
    <3>2. CASE rst' = FALSE
      BY <1>5, <3>2 DEF ResetHigh, history, flags
    <3> QED BY <1>5, <3>1, <3>2 DEF ResetHigh
  <2>3. Safety'
    BY <1>5 DEF ResetHigh, history, flags
  <2> QED BY <2>1, <2>2, <2>3
<1>6. CASE SoftReset
  <2>1. TypeOK'
    BY <1>6, PanelTypes DEF SoftReset, flags, Pcs, Config
  <2>2. Progress'
    BY <1>6 DEF SoftReset, ResetPanel, flags, Panels
  <2>3. Safety'
    BY <1>6 DEF SoftReset, ResetPanel, flags, Panels
  <2> QED BY <2>1, <2>2, <2>3
<1>7. CASE SoftResetFails
  <2>1. TypeOK'
    BY <1>7, PanelTypes DEF SoftResetFails, Failed, flags, Pcs, Config
  <2>2. Progress'
    BY <1>7 DEF SoftResetFails, Failed, ResetPanel, flags
  <2>3. Safety'
    BY <1>7 DEF SoftResetFails, Failed, ResetPanel, flags
  <2> QED BY <2>1, <2>2, <2>3
<1>8. CASE SetDisplayOff
  <2>1. TypeOK'
    <3>1. panel' \in Panels /\ lost' \in BOOLEAN
      BY <1>8 DEF SetDisplayOff, Write, Sent, Failed, Panels
    <3> QED BY <1>8, <3>1, NConfigAssumption DEF SetDisplayOff, flags, Pcs, Config
  <2>2. Progress'
    BY <1>8 DEF SetDisplayOff, Write, Sent, Failed, flags, Panels,
           ResetPanel
  <2>3. Safety'
    BY <1>8 DEF SetDisplayOff, Write, Sent, Failed, flags, Panels,
           ResetPanel
  <2> QED BY <2>1, <2>2, <2>3
<1>9. CASE Configure
  <2>1. TypeOK'
    <3>1. panel' \in {panel, [panel EXCEPT !.config = @ \cup {step}]}
      BY <1>9 DEF Configure, Write, Sent, Failed
    <3>2. panel' \in Panels
      BY <3>1 DEF Panels
    <3>3. lost' \in BOOLEAN
      BY <1>9 DEF Configure, Write, Sent, Failed
    <3>4. step' \in Config /\ pc' \in Pcs
      BY <1>9, NConfigAssumption DEF Configure, Config, Pcs
    <3> QED BY <1>9, <3>2, <3>3, <3>4 DEF Configure, flags
  <2>2. Progress'
    <3>1. ResetHeld' /\ Dark' /\ FlagsAt' /\ Flush'
      BY <1>9 DEF Configure, Write, Sent, Failed, flags
    <3>2. Configuring'
      <4> SUFFICES ASSUME ~lost' PROVE Configuring'
        OBVIOUS
      <4>1. ~lost /\ panel' = [panel EXCEPT !.config = @ \cup {step}]
        BY <1>9 DEF Configure, Write, Sent, Failed
      <4>2. ~panel'.on /\ panel'.config = panel.config \cup {step}
        BY <1>9, <4>1 DEF Configure, Panels
      <4>3. \A r \in 1..step : r \in panel'.config
        BY <1>9, <4>1, <4>2 DEF Configure, Config
      <4>4. CASE step = NConfig
        <5>1. panel'.config = Config
          BY <4>2, <4>3, <4>4 DEF Config, Panels
        <5> QED BY <1>9, <4>2, <4>4, <5>1 DEF Configure
      <4>5. CASE step # NConfig
        <5>1. step' = step + 1 /\ step' - 1 = step
          BY <1>9, <4>5, NConfigAssumption DEF Configure, Config
        <5> QED BY <1>9, <4>2, <4>3, <4>5, <5>1 DEF Configure
      <4> QED BY <4>4, <4>5
    <3> QED BY <3>1, <3>2
  <2>3. Safety'
    BY <1>9 DEF Configure, Write, Sent, Failed, flags, Panels, ResetPanel
  <2> QED BY <2>1, <2>2, <2>3
<1>10. CASE ExitSleep
  <2>1. TypeOK'
    BY <1>10, PanelTypes DEF ExitSleep, Write, Sent, Failed, flags, Pcs, Config
  <2>2. Progress'
    BY <1>10 DEF ExitSleep, Write, Sent, Failed, flags, Panels, ResetPanel
  <2>3. Safety'
    BY <1>10 DEF ExitSleep, Write, Sent, Failed, flags, Panels, ResetPanel
  <2> QED BY <2>1, <2>2, <2>3
<1>11. CASE SetDisplayOn
  <2>1. TypeOK'
    BY <1>11, PanelTypes DEF SetDisplayOn, Write, Sent, Failed, Pcs, Config
  <2>2. Progress'
    BY <1>11 DEF SetDisplayOn, Write, Sent, Failed, Panels, ResetPanel
  <2>3. Safety'
    BY <1>11 DEF SetDisplayOn, Write, Sent, Failed, Panels, ResetPanel
  <2> QED BY <2>1, <2>2, <2>3
<1> QED BY <1>1, <1>2, <1>3, <1>4, <1>5, <1>6, <1>7, <1>8, <1>9, <1>10,
           <1>11 DEF EnableNext

(* The steps of mipi_dbi_fb_dirty() keep the invariant: the light comes    *)
(* after the first whole frame.                                            *)
LEMMA DirtyKeeps == IInv /\ DirtyNext => IInv'
<1> SUFFICES ASSUME IInv, DirtyNext PROVE IInv'
  OBVIOUS
<1> USE DEF IInv, TypeOK, Progress, ResetHeld, Dark, Configuring, FlagsAt, Flush,
            Enabling, Flushing, Stopping, Safety, LitShowsFrame, OnIsConfigured,
            PreparedIsUp, Disabling, EnabledIsPrepared
<1>1. CASE Dirty
  <2>1. TypeOK'
    BY <1>1 DEF Dirty, Kinds, hardware, history, flags, Pcs, Config
  <2>2. Progress'
    BY <1>1 DEF Dirty, Kinds, hardware, history, flags
  <2>3. Safety'
    BY <1>1 DEF Dirty, Kinds, hardware, history, flags
  <2> QED BY <2>1, <2>2, <2>3
<1>2. CASE SetColumnAddress
  <2>1. TypeOK'
    <3>1. panel' \in {panel, [panel EXCEPT !.column = kind],
                     [panel EXCEPT !.column = Stale(panel.column)]}
      BY <1>2 DEF SetColumnAddress, WriteWindow, Sent
    <3>2. /\ kind \in Kinds \cup {"other"}
          /\ Stale(panel.column) \in Kinds \cup {"other"}
      BY PanelTypes
    <3>3. panel' \in Panels
      BY <3>1, <3>2, PanelTypes
    <3>4. lost' \in BOOLEAN
      BY <1>2 DEF SetColumnAddress, WriteWindow, Sent
    <3> QED BY <1>2, <3>3, <3>4 DEF SetColumnAddress, flags, Pcs
  <2>2. Progress'
    BY <1>2 DEF SetColumnAddress, WriteWindow, Stale, Sent, Kinds, flags,
           Panels, ResetPanel
  <2>3. Safety'
    BY <1>2 DEF SetColumnAddress, WriteWindow, Stale, Sent, Kinds, flags,
           Panels, ResetPanel
  <2> QED BY <2>1, <2>2, <2>3
<1>3. CASE SetPageAddress
  <2>1. TypeOK'
    <3>1. panel' \in {panel, [panel EXCEPT !.page = kind],
                     [panel EXCEPT !.page = Stale(panel.page)]}
      BY <1>3 DEF SetPageAddress, WriteWindow, Sent
    <3>2. /\ kind \in Kinds \cup {"other"}
          /\ Stale(panel.page) \in Kinds \cup {"other"}
      BY PanelTypes
    <3>3. panel' \in Panels
      BY <3>1, <3>2, PanelTypes
    <3>4. lost' \in BOOLEAN
      BY <1>3 DEF SetPageAddress, WriteWindow, Sent
    <3> QED BY <1>3, <3>3, <3>4 DEF SetPageAddress, flags, Pcs
  <2>2. Progress'
    BY <1>3 DEF SetPageAddress, WriteWindow, Stale, Sent, Kinds, flags,
           Panels, ResetPanel
  <2>3. Safety'
    BY <1>3 DEF SetPageAddress, WriteWindow, Stale, Sent, Kinds, flags,
           Panels, ResetPanel
  <2> QED BY <2>1, <2>2, <2>3
<1>4. CASE WriteMemory
  <2>0. PICK m \in Memory(panel, kind) :
           /\ panel' = IF rst THEN panel ELSE [panel EXCEPT !.memory = m]
           /\ lost' = (lost \/ rst)
    BY <1>4 DEF WriteMemory, Sent
  <2>1. TypeOK'
    <3>1. m \in Memories
      BY DEF Memory
    <3>2. panel' \in Panels /\ lost' \in BOOLEAN
      BY <2>0, <3>1, PanelTypes
    <3> QED BY <1>4, <3>2 DEF WriteMemory, flags, Pcs
  <2>2. /\ pc = "memory" /\ pc' = IF enabled THEN "idle" ELSE "backlight"
        /\ UNCHANGED <<board, rst, led, exported, ledLost, prepared, enabled,
                       step, kind>>
    BY <1>4 DEF WriteMemory, flags
  <2>3. ~lost => /\ kind = "full" => m = "frame"
                 /\ panel.memory # "junk" => m # "junk"
    <3> SUFFICES ASSUME ~lost
                 PROVE  /\ kind = "full" => m = "frame"
                        /\ panel.memory # "junk" => m # "junk"
      OBVIOUS
    <3>1. panel.column = kind /\ panel.page = kind
      BY <2>2
    <3>2. CASE kind = "full"
      BY <3>1, <3>2 DEF Memory
    <3>3. CASE kind # "full"
      BY <3>1, <3>3 DEF Memory
    <3> QED BY <3>2, <3>3
  <2>4. /\ panel'.on = panel.on /\ panel'.awake = panel.awake
        /\ panel'.config = panel.config
        /\ ~rst => panel'.memory = m
        /\ rst => panel' = panel
    BY <2>0 DEF Panels
  <2>5. Progress'
    BY <2>0, <2>2, <2>3, <2>4
  <2>6. Safety'
    BY <2>0, <2>2, <2>3, <2>4
  <2> QED BY <2>1, <2>5, <2>6
<1>5. CASE WriteMemoryFails
  <2>1. TypeOK'
    BY <1>5, PanelTypes DEF Memories, WriteMemoryFails, Failed, flags, Pcs, Config
  <2>2. Progress'
    BY <1>5 DEF WriteMemoryFails, Failed, flags, Panels, ResetPanel
  <2>3. Safety'
    BY <1>5 DEF WriteMemoryFails, Failed, flags, Panels, ResetPanel
  <2> QED BY <2>1, <2>2, <2>3
<1>6. CASE EnableBacklight
  <2>1. TypeOK'
    BY <1>6 DEF EnableBacklight, SetLed, Pcs, Config
  <2>2. Progress'
    BY <1>6 DEF EnableBacklight, SetLed
  <2>3. Safety'
    BY <1>6 DEF EnableBacklight, SetLed
  <2> QED BY <2>1, <2>2, <2>3
<1> QED BY <1>1, <1>2, <1>3, <1>4, <1>5, <1>6 DEF DirtyNext

(* The steps of mipi_dbi_pipe_disable() keep the invariant: the light goes *)
(* before the display.                                                     *)
LEMMA DisableKeeps == IInv /\ DisableNext => IInv'
<1> SUFFICES ASSUME IInv, DisableNext PROVE IInv'
  OBVIOUS
<1> USE DEF IInv, TypeOK, Progress, ResetHeld, Dark, Configuring, FlagsAt, Flush,
            Enabling, Flushing, Stopping, Safety, LitShowsFrame, OnIsConfigured,
            PreparedIsUp, Disabling, EnabledIsPrepared
<1>1. CASE Disable
  <2>1. TypeOK'
    BY <1>1 DEF Disable, SetLed, PowerDown, Pcs, Config
  <2>2. Progress'
    BY <1>1 DEF Disable, SetLed, PowerDown
  <2>3. Safety'
    BY <1>1 DEF Disable, SetLed, PowerDown
  <2> QED BY <2>1, <2>2, <2>3
<1>2. CASE BlankColumn
  <2>1. TypeOK'
    BY <1>2 DEF BlankColumn, Write, Sent, Failed, flags, Panels, Pcs
  <2>2. Progress'
    BY <1>2 DEF BlankColumn, Write, Sent, Failed, flags, Panels, ResetPanel
  <2>3. Safety'
    BY <1>2 DEF BlankColumn, Write, Sent, Failed, flags, Panels, ResetPanel
  <2> QED BY <2>1, <2>2, <2>3
<1>3. CASE BlankPage
  <2>1. TypeOK'
    BY <1>3 DEF BlankPage, Write, Sent, Failed, flags, Panels, Pcs
  <2>2. Progress'
    BY <1>3 DEF BlankPage, Write, Sent, Failed, flags, Panels, ResetPanel
  <2>3. Safety'
    BY <1>3 DEF BlankPage, Write, Sent, Failed, flags, Panels, ResetPanel
  <2> QED BY <2>1, <2>2, <2>3
<1>4. CASE BlankMemory
  <2>1. TypeOK'
    BY <1>4, PanelTypes DEF BlankMemory, Write, PowerDown,
       Sent, Failed, flags, Pcs
  <2>2. Progress'
    BY <1>4 DEF BlankMemory, Write, PowerDown, Sent, Failed, flags, Panels,
           ResetPanel
  <2>3. Safety'
    BY <1>4 DEF BlankMemory, Write, PowerDown, Sent, Failed, flags, Panels,
           ResetPanel
  <2> QED BY <2>1, <2>2, <2>3
<1>5. CASE DisableDisplayOff
  <2>1. TypeOK'
    BY <1>5, PanelTypes DEF DisableDisplayOff, Write, Sent,
       Failed, flags, Pcs
  <2>2. Progress'
    BY <1>5 DEF DisableDisplayOff, Write, Sent, Failed, flags, Panels,
           ResetPanel
  <2>3. Safety'
    BY <1>5 DEF DisableDisplayOff, Write, Sent, Failed, flags, Panels,
           ResetPanel
  <2> QED BY <2>1, <2>2, <2>3
<1>6. CASE EnterSleep
  <2>1. TypeOK'
    BY <1>6, PanelTypes DEF EnterSleep, Write, Sent, Failed, Pcs, Config
  <2>2. Progress'
    BY <1>6 DEF EnterSleep, Write, Sent, Failed, Panels, ResetPanel
  <2>3. Safety'
    BY <1>6 DEF EnterSleep, Write, Sent, Failed, Panels, ResetPanel
  <2> QED BY <2>1, <2>2, <2>3
<1>7. CASE PowerOff
  <2>1. TypeOK'
    BY <1>7 DEF PowerOff, hardware, history, Pcs, Config
  <2>2. Progress'
    BY <1>7 DEF PowerOff, hardware, history
  <2>3. Safety'
    BY <1>7 DEF PowerOff, hardware, history
  <2> QED BY <2>1, <2>2, <2>3
<1>8. CASE BlankNoMemory
  <2>1. TypeOK'
    BY <1>8 DEF BlankNoMemory, PowerDown, hardware, history, flags, Pcs, Config
  <2>2. Progress'
    BY <1>8 DEF BlankNoMemory, PowerDown, hardware, history, flags
  <2>3. Safety'
    BY <1>8 DEF BlankNoMemory, PowerDown, hardware, history, flags
  <2> QED BY <2>1, <2>2, <2>3
<1> QED BY <1>1, <1>2, <1>3, <1>4, <1>5, <1>6, <1>7, <1>8 DEF DisableNext

-----------------------------------------------------------------------------
(* The daemon starts with a dark display, whatever a bootloader left.      *)
LEMMA InitIInv == Init => IInv
<1> SUFFICES ASSUME Init PROVE IInv
  OBVIOUS
<1>0. /\ BootPanel \in Panels
      /\ BootPanel.config = Config
  BY DEF BootPanel, Panels, Memories
<1> USE DEF Init
<1>1. panel \in Panels
  BY <1>0, PanelTypes
<1>2. step \in Config
  BY NConfigAssumption DEF Config
<1>3. TypeOK
  BY <1>1, <1>2 DEF TypeOK, Pcs, Kinds
<1>4. Progress
  BY DEF Progress, ResetHeld, Dark, Configuring, FlagsAt, Flush,
         Enabling, Flushing, Stopping
<1>5. OnIsConfigured
  BY <1>0 DEF OnIsConfigured, ResetPanel
<1>6. Safety
  BY <1>5 DEF Safety, LitShowsFrame, PreparedIsUp, EnabledIsPrepared
<1> QED BY <1>3, <1>4, <1>6 DEF IInv

(* Nothing changes, nothing breaks.                                        *)
LEMMA StutterKeeps == IInv /\ UNCHANGED vars => IInv'
BY DEF vars, hardware, history, flags, IInv, TypeOK, Progress, ResetHeld, Dark,
       Configuring, FlagsAt, Flush, Enabling, Flushing, Stopping, Safety,
       LitShowsFrame, OnIsConfigured, PreparedIsUp, Disabling, EnabledIsPrepared

(* The invariant holds forever: the type, the progress of each handler and *)
(* the properties, however often the daemon is killed and started again.   *)
THEOREM Invariance == Spec => []IInv
<1>1. IInv /\ [Next]_vars => IInv'
  BY StartKeeps, EnableKeeps, DirtyKeeps, DisableKeeps, StutterKeeps DEF Next
<1> QED BY <1>1, InitIInv, PTL DEF Spec

(* Every variable keeps its type.                                          *)
THEOREM TypeCorrect == Spec => []TypeOK
<1>1. IInv => TypeOK
  BY DEF IInv
<1> QED BY <1>1, Invariance, PTL

(* A lit backlight shines on a display that is on and was sent a whole     *)
(* frame, patched by later parts at most.                                  *)
THEOREM LightShowsFrame == Spec => []LitShowsFrame
<1>1. IInv => LitShowsFrame
  BY DEF IInv, Safety
<1> QED BY <1>1, Invariance, PTL

(* A display mi0283qt_enable() finds on has all its registers.             *)
THEOREM SkippedSetupIsDone == Spec => []OnIsConfigured
<1>1. IInv => OnIsConfigured
  BY DEF IInv, Safety
<1> QED BY <1>1, Invariance, PTL

(* tdev->prepared tells the truth unless commands were lost.               *)
THEOREM PreparedIsTrue == Spec => []PreparedIsUp
<1>1. IInv => PreparedIsUp
  BY DEF IInv, Safety
<1> QED BY <1>1, Invariance, PTL

(* tdev->enabled implies tdev->prepared, and without it there is no light. *)
THEOREM FlagsAgree == Spec => []EnabledIsPrepared
<1>1. IInv => EnabledIsPrepared
  BY DEF IInv, Safety
<1> QED BY <1>1, Invariance, PTL
=============================================================================
