--------------------------- MODULE ViewerCommands ---------------------------
(***************************************************************************)
(* What viewers ask of the camera (send_camera messages on the main        *)
(* thread): the settings in memory (g_setting), in their file and in the   *)
(* camera, the presets, the factory reset; and the first tick of the       *)
(* heartbeat thread, which applies the settings of the file to the camera, *)
(* whatever the main thread is doing. Custom commands are in CommandPipe,  *)
(* whose main thread this is.                                              *)
(*                                                                         *)
(* Each step is one access to what the threads share, one call that waits, *)
(* or what lies between two of them. How a save fails or is cut short is   *)
(* in SettingsStore; the tour, the analysis and the moves are in AutoPtz.  *)
(***************************************************************************)
EXTENDS CommandPipe

CONSTANTS
  Palettes, Modes,    \* values of color_pallet and camera_dn_mode
  Presets,            \* the presets (of both lists)
  Spots, Unset,       \* their values
  Default             \* device_setting_org.json

Settings == [palette : Palettes, dn_mode : Modes, preset : [Presets -> Spots \cup {Unset}]]
Pictures == [palette : Palettes, dn_mode : Modes]

(* Where the main thread is while it changes a setting; "away" is any       *)
(* handler that changes nothing here.                                       *)
Changing == {"cam_ctl", "store", "dn_out"}

ASSUME ViewAssumption ==
  /\ Default \in Settings /\ Unset \notin Spots
  /\ Changing \cup {"save", "away"} \subseteq Elsewhere

VARIABLES
  g_setting,    \* in memory
  file,         \* device_setting.json
  camera,       \* the picture that the cameras were told to make
  pos_list,     \* PTZ_POS_LIST and AUTO_PTZ_POS_LIST
  value,        \* what the command under way carries
  heart,        \* where the heartbeat thread is in its first tick
  seen,         \* what it has read of g_setting
  overlapped    \* history: a command and the first tick have met in this run

settings == <<g_setting, file, camera, pos_list, value>>
heartbeat == <<heart, seen>>
viewVars == <<settings, heartbeat, overlapped>>
viewerVars == <<pipeVars, viewVars>>
pipeRest == <<serial, todo, echo, stream, results>>

InTick == heart \in {"palette", "dn_mode", "dn_out"}

ViewTypeOK ==
  /\ g_setting \in Settings /\ file \in Settings
  /\ camera \in Pictures
  /\ pos_list \in [Presets -> Spots \cup {Unset}]
  /\ value \in Palettes \cup {"none"}
  /\ heart \in {"start", "palette", "dn_mode", "dn_out", "beats"}
  /\ seen \in Palettes \cup Modes \cup {"none"}
  /\ overlapped \in BOOLEAN

ViewInit ==
  /\ PipeInit
  /\ g_setting = Default /\ file = Default /\ pos_list = Default.preset
  /\ camera \in Pictures
  /\ value = "none" /\ heart = "start" /\ seen = "none" /\ overlapped = FALSE
-----------------------------------------------------------------------------
(* process_message_cmd, on the main thread                                  *)

At(from) == main = from /\ UNCHANGED pipeRest
Goes(from, to) == At(from) /\ main' = to

(* color_palette: first the camera, by cam_ctl, then the setting.           *)
AskPalette(p) ==
  /\ Goes("loop", "cam_ctl")
  /\ value' = p
  /\ overlapped' = (overlapped \/ InTick)
  /\ UNCHANGED <<g_setting, file, camera, pos_list, heartbeat>>

CamCtl ==
  /\ Goes("cam_ctl", "store")
  /\ camera' = [camera EXCEPT !.palette = value]
  /\ UNCHANGED <<g_setting, file, pos_list, value, heartbeat, overlapped>>

\* mutant: the setting is not changed
StoreNothing ==
  /\ Goes("store", "save")
  /\ value' = "none"
  /\ UNCHANGED <<g_setting, file, camera, pos_list, heartbeat, overlapped>>

StorePalette ==
  /\ Goes("store", "save")
  /\ g_setting' = [g_setting EXCEPT !.palette = value]
  /\ value' = "none"
  /\ UNCHANGED <<file, camera, pos_list, heartbeat, overlapped>>

(* camera_dn_mode: first the setting, then the camera, if the line is open. *)
AskMode(m) ==
  /\ Goes("loop", "dn_out")
  /\ g_setting' = [g_setting EXCEPT !.dn_mode = m]
  /\ overlapped' = (overlapped \/ InTick)
  /\ UNCHANGED <<file, camera, pos_list, value, heartbeat>>

Told(m) == IF serial THEN [camera EXCEPT !.dn_mode = m] ELSE camera

ModeOut ==
  /\ Goes("dn_out", "save")
  /\ camera' = Told(g_setting.dn_mode)
  /\ UNCHANGED <<g_setting, file, pos_list, value, heartbeat, overlapped>>

(* set_ptz_pos, set_auto_ptz_pos: the position that the camera reports.     *)
SetPreset(p, spot) ==
  /\ Goes("loop", "save") /\ serial
  /\ pos_list' = [pos_list EXCEPT ![p] = spot]
  /\ g_setting' = [g_setting EXCEPT !.preset[p] = spot]
  /\ UNCHANGED <<file, camera, value, heartbeat, overlapped>>

\* mutant: the preset is deleted where the moves look for it
DeleteFromList(p) ==
  /\ Goes("loop", "save")
  /\ pos_list' = [pos_list EXCEPT ![p] = Unset]
  /\ UNCHANGED <<g_setting, file, camera, value, heartbeat, overlapped>>

(* del_ptz_pos: the list of the moves keeps it.                             *)
DeletePreset(p) ==
  /\ Goes("loop", "save")
  /\ g_setting' = [g_setting EXCEPT !.preset[p] = Unset]
  /\ UNCHANGED <<file, camera, pos_list, value, heartbeat, overlapped>>

(* record, analysis, enable_event_notify, auto_move_ptz, and a viewer who   *)
(* joins: another member of the settings is changed, and all are saved.     *)
ChangeOther ==
  /\ Goes("loop", "save")
  /\ UNCHANGED viewVars

(* update_setting, whose result no one looks at.                            *)
Save ==
  /\ Goes("save", "loop")
  /\ file' = g_setting \/ file' = file
  /\ UNCHANGED <<g_setting, camera, pos_list, value, heartbeat, overlapped>>

(* request_factory_default: the script copies the defaults and asks for a   *)
(* reboot, which comes when it comes; memory is left as it is.              *)
FactoryDefault ==
  /\ Goes("loop", "away")
  /\ file' = Default
  /\ UNCHANGED <<g_setting, camera, pos_list, value, heartbeat, overlapped>>

(* The commands that only ask (settings, image, address of the records),    *)
(* move or remove records, those with a missing or wrong value, and the     *)
(* other handlers of the main loop.                                         *)
Away == Goes("loop", "away") /\ UNCHANGED viewVars
Back == Goes("away", "loop") /\ UNCHANGED viewVars
-----------------------------------------------------------------------------
(* apply_setting, in the first tick of the heartbeat thread                 *)

TickStarts ==
  /\ heart = "start" /\ heart' = "palette"
  /\ seen' = g_setting.palette
  /\ overlapped' = (overlapped \/ main \in Changing)
  /\ UNCHANGED <<settings, pipeVars>>

TickCamCtl ==
  /\ heart = "palette" /\ heart' = "dn_mode"
  /\ camera' = [camera EXCEPT !.palette = seen]
  /\ seen' = "none"
  /\ UNCHANGED <<g_setting, file, pos_list, value, overlapped, pipeVars>>

TickMode ==
  /\ heart = "dn_mode" /\ heart' = "dn_out"
  /\ seen' = g_setting.dn_mode
  /\ UNCHANGED <<settings, overlapped, pipeVars>>

TickEnds ==
  /\ heart = "dn_out" /\ heart' = "beats"
  /\ camera' = Told(seen)
  /\ seen' = "none"
  /\ UNCHANGED <<g_setting, file, pos_list, value, overlapped, pipeVars>>
-----------------------------------------------------------------------------
(* The program stops or dies anywhere, and starts again with what the file  *)
(* has; the cameras may have been restarted too.                            *)
Restart ==
  /\ PipeRestart
  /\ g_setting' = file /\ pos_list' = file.preset
  /\ camera' \in Pictures
  /\ value' = "none" /\ heart' = "start" /\ seen' = "none" /\ overlapped' = FALSE
  /\ UNCHANGED file
-----------------------------------------------------------------------------
Command ==
  \/ \E p \in Palettes : AskPalette(p)
  \/ \E m \in Modes : AskMode(m)
  \/ \E p \in Presets : DeletePreset(p) \/ \E spot \in Spots : SetPreset(p, spot)
  \/ ChangeOther \/ FactoryDefault \/ Away

Handler == CamCtl \/ StorePalette \/ ModeOut \/ Save \/ Back

Tick == TickStarts \/ TickCamCtl \/ TickMode \/ TickEnds

ViewNext ==
  \/ PipeStep /\ UNCHANGED viewVars
  \/ Command \/ Handler \/ Tick
  \/ Restart

ViewSpec == ViewInit /\ [][ViewNext]_viewerVars

-----------------------------------------------------------------------------
(* Properties                                                               *)

(* The cameras make the picture that the settings say, after each command   *)
(* and after each restart, with saves that failed, crashes anywhere and     *)
(* cameras that forgot: unless a viewer has changed it in the very first    *)
(* tick of the heartbeat, which may then undo the change in the camera.     *)
Settled ==
  (heart = "beats" /\ main \notin Changing /\ ~overlapped)
    => /\ camera.palette = g_setting.palette
       /\ serial => camera.dn_mode = g_setting.dn_mode

(* A preset that a viewer is shown as set is one that the camera moves to,  *)
(* at the position shown: over deletions, failed saves, factory resets and  *)
(* restarts.                                                                *)
ShownIsSet ==
  \A p \in Presets : g_setting.preset[p] # Unset => pos_list[p] = g_setting.preset[p]
=============================================================================
