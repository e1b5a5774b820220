------------------------------- MODULE Start -------------------------------
(***************************************************************************)
(* How the daemon comes up: main() to its event loop, mi0283qt_probe(),    *)
(* mipi_dbi_spi_init(), mipi_dbi_init() and devm_tinydrm_register().  One  *)
(* step per call that can fail or that others can see.  What the GPIOs do  *)
(* to the panel is in MipiDbi; module Daemon puts the two together.        *)
(***************************************************************************)
EXTENDS Integers

CONSTANTS Rotations  \* values of the "rotation" property, 0 in this build

VARIABLES
    at,              \* where main() is, "down" when the process does not run
    rotation,        \* the property of the device
    mode,            \* udev->mode, <<hdisplay, vdisplay>>; NoMode before it is set
    fds,             \* open among "udrm" and "control"
    node,            \* the kernel has a DRM device, and may post events
    utinydrm,        \* dev->utinydrm is set: transfers find their buffer
    drvdata          \* spi_get_drvdata() gives the device: spi_sync() needs it

start == <<rotation, mode, fds, node, utinydrm, drvdata>>

NoMode == << >>

PanelMode == <<320, 240>>

Swapped(m) == <<m[2], m[1]>>

(* Variant: only one of the two quarter turns is known.                    *)
RotateModeOnce(m, r) == IF r = 270 THEN Swapped(m) ELSE m

(* tinydrm_rotate_mode() for a legal rotation.                             *)
RotateMode(m, r) == IF r \in {90, 270} THEN Swapped(m) ELSE m

LegalRotations == {0, 90, 180, 270}

(* The address mode mi0283qt_enable() sends: MV exchanges the 240 rows and *)
(* 320 columns of the panel memory.                                        *)
AddressMode(r) ==
    CASE r = 90 -> {"MY"}
      [] r = 180 -> {"MV"}
      [] r = 270 -> {"MX"}
      [] OTHER -> {"MV", "MY", "MX"}

Init ==
    /\ at = "down"
    /\ rotation \in Rotations
    /\ mode = NoMode
    /\ fds = {}
    /\ node = FALSE
    /\ utinydrm = FALSE
    /\ drvdata = FALSE

-----------------------------------------------------------------------------
Advance(from, to) == at = from /\ at' = to

(* The event buffer, spi_add_device(), the driver structure and the reset  *)
(* GPIO.                                                                   *)
Begin == Advance("down", "dc") /\ UNCHANGED start

(* The D/C GPIO and the regulator.                                         *)
GetDc == Advance("dc", "backlight") /\ UNCHANGED start

(* tinydrm_of_find_backlight(); its GPIO write is MipiDbi!ProbeBacklight.  *)
GetBacklight == Advance("backlight", "spi_init") /\ UNCHANGED start

(* mipi_dbi_spi_init(): the transport with its register map.               *)
SpiInit == Advance("spi_init", "pipe_init") /\ UNCHANGED start

(* mipi_dbi_init(): an illegal rotation ends the probe (Leave).            *)
PipeInit ==
    /\ Advance("pipe_init", "open")
    /\ rotation \in LegalRotations
    /\ mode' = RotateMode(PanelMode, rotation)
    /\ UNCHANGED <<rotation, fds, node, utinydrm, drvdata>>

(* devm_tinydrm_register()                                                 *)
OpenUdrm ==
    /\ Advance("open", "create")
    /\ fds' = {"udrm"}
    /\ UNCHANGED <<rotation, mode, node, utinydrm, drvdata>>

(* UDRM_DEV_CREATE: from here on the kernel may post events.               *)
CreateDevice ==
    /\ Advance("create", "control")
    /\ node' = TRUE
    /\ UNCHANGED <<rotation, mode, fds, utinydrm, drvdata>>

(* Variant: the device does not learn of the descriptors.                  *)
OpenControlOnly ==
    /\ Advance("control", "drvdata")
    /\ fds' = fds \cup {"control"}
    /\ UNCHANGED <<rotation, mode, node, utinydrm, drvdata>>

OpenControl ==
    /\ Advance("control", "drvdata")
    /\ fds' = fds \cup {"control"}
    /\ utinydrm' = TRUE
    /\ UNCHANGED <<rotation, mode, node, drvdata>>

(* spi_set_drvdata(), and main() enters its loop.                          *)
SetDrvdata ==
    /\ Advance("drvdata", "read")
    /\ drvdata' = TRUE
    /\ UNCHANGED <<rotation, mode, fds, node, utinydrm>>

(* A step that fails, tinydrm_unregister() or a signal: the memory of the  *)
(* process is gone, its descriptors are closed and the kernel drops the    *)
(* device.                                                                 *)
Leave ==
    /\ at # "down"
    /\ at' = "down"
    /\ mode' = NoMode
    /\ fds' = {}
    /\ node' = FALSE
    /\ utinydrm' = FALSE /\ drvdata' = FALSE
    /\ UNCHANGED rotation

-----------------------------------------------------------------------------
Starting == {"dc", "backlight", "spi_init", "pipe_init", "open", "create",
             "control", "drvdata"}

Running == {"read", "handle", "pipe", "reply"}

StartOK ==
    /\ at \in {"down"} \cup Starting \cup Running
    /\ rotation \in Rotations
    /\ mode \in {NoMode, PanelMode, Swapped(PanelMode)}
    /\ fds \in SUBSET {"udrm", "control"}
    /\ node \in BOOLEAN /\ utinydrm \in BOOLEAN /\ drvdata \in BOOLEAN
=============================================================================
