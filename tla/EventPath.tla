------------------------------ MODULE EventPath ------------------------------
(***************************************************************************)
(* From detection to clip: the probes that count what the network sees,    *)
(* the flagged objects, the one slot (g_event_class_id) in which an event  *)
(* waits, and the thread that takes it from there and asks for a clip.     *)
(*                                                                         *)
(* Threads: the streaming thread of each camera (osd_sink_pad_buffer_probe)*)
(* the event sender, and the main thread, which switches cameras and the   *)
(* analysis, counts seconds and ends recordings. A probe works on a frame  *)
(* in one step up to trigger_notification; from there, and in the sender,  *)
(* each access to a shared variable is a step.                             *)
(***************************************************************************)
EXTENDS ObjMonitor, FiniteSets

CONSTANTS
  Cams,         \* cameras whose frames are analysed
  RgbCam,       \* RGB_CAM
  ThermalCam,   \* THERMAL_CAM
  NumObjs,      \* NUM_OBJS
  Detections,   \* what the network may report of an object in a frame
  Absent,       \* an object that is not in the frame
  TempApply,    \* g_setting.temp_apply
  NotifyOn,     \* g_setting.enable_event_notify
  MaxTimers,    \* bound on the 30 s timers pending at once
  MaxEvidence   \* bound on the history variable evidence

Objs == 0 .. NumObjs - 1
AllCams == {RgbCam, ThermalCam}

ASSUME EventAssumption ==
  /\ RgbCam # ThermalCam
  /\ Cams \subseteq AllCams
  /\ NumObjs \in Nat \ {0}
  /\ Detections \subseteq Seen
  /\ Absent \notin Seen
  /\ TempApply \in BOOLEAN /\ NotifyOn \in BOOLEAN
  /\ MaxTimers \in Nat \ {0}
  /\ MaxEvidence \in Nat
  /\ \A k \in Alarms : Threshold[k] * (PerSec - 1) <= MaxEvidence

VARIABLES
  (* the probes *)
  obj_info,          \* ObjMonitor of each object of each camera
  g_frame_count,     \* frames of the current second
  g_cam_index,       \* camera of the frame that arrived last
  probe,             \* where the streaming thread of a camera is
  current,           \* the object it triggers, and the class it published
  (* main thread *)
  analysis_status,
  g_source_cam_idx,
  switching,         \* the command "analysis off" is half done
  (* shared with the sender *)
  g_event_class_id,
  g_noti_cam_idx,
  g_event_recording,
  timers,            \* pending event_recording_timeout timers
  (* event_sender_thread *)
  sender, class_id, cam_idx,
  (* history *)
  evidence,          \* alarm frames of an object since its last alarm or pause
  confirmed,         \* ResNet confirmed heat since the last HEAT published
  sinceHot,          \* seconds since the last OVER_TEMP of a thermal object
  fresh              \* the slot was written since the sender last read it

probes == <<obj_info, g_frame_count, g_cam_index, probe, current>>
mains == <<analysis_status, g_source_cam_idx, switching>>
slot == <<g_event_class_id, g_noti_cam_idx>>
recording == <<g_event_recording, timers>>
senders == <<sender, class_id, cam_idx>>
history == <<evidence, confirmed, sinceHot, fresh>>
vars == <<obj_info, g_frame_count, g_cam_index, probe, current,
          analysis_status, g_source_cam_idx, switching,
          g_event_class_id, g_noti_cam_idx, g_event_recording, timers,
          sender, class_id, cam_idx,
          evidence, confirmed, sinceHot, fresh>>

TypeOK ==
  /\ obj_info \in [Cams -> [Objs -> Monitors]]
  /\ g_frame_count \in [Cams -> 0 .. PerSec - 1]
  /\ g_cam_index \in AllCams
  /\ probe \in [Cams -> {"idle", "trigger", "finish"}]
  /\ current \in [Cams -> [obj : Objs, class : Classes]]
  /\ analysis_status \in BOOLEAN
  /\ g_source_cam_idx \in AllCams
  /\ switching \in BOOLEAN
  /\ g_event_class_id \in Classes
  /\ g_noti_cam_idx \in AllCams
  /\ g_event_recording \in BOOLEAN
  /\ timers \in 0 .. MaxTimers
  /\ sender \in {"poll", "take", "clear", "camera", "compare", "mark", "add", "ask"}
  /\ class_id \in Classes
  /\ cam_idx \in AllCams
  /\ evidence \in [Cams -> [Objs -> 0 .. MaxEvidence]]
  /\ confirmed \in [Cams -> [Objs -> BOOLEAN]]
  /\ sinceHot \in [Objs -> 0 .. TempGap]
  /\ fresh \in BOOLEAN

Init ==
  /\ obj_info = [c \in Cams |-> [o \in Objs |-> NewMonitor]]
  /\ g_frame_count = [c \in Cams |-> 0]
  /\ g_cam_index = RgbCam
  /\ probe = [c \in Cams |-> "idle"]
  /\ current = [c \in Cams |-> [obj |-> 0, class |-> "NORMAL"]]
  /\ analysis_status \in BOOLEAN
  /\ g_source_cam_idx \in AllCams
  /\ switching = FALSE
  /\ g_event_class_id = "NORMAL" /\ g_noti_cam_idx = RgbCam
  /\ g_event_recording = FALSE /\ timers = 0
  /\ sender = "poll" /\ class_id = "NORMAL" /\ cam_idx = RgbCam
  /\ evidence = [c \in Cams |-> [o \in Objs |-> 0]]
  /\ confirmed = [c \in Cams |-> [o \in Objs |-> FALSE]]
  /\ sinceHot = [o \in Objs |-> TempGap]
  /\ fresh = FALSE
-----------------------------------------------------------------------------
(* The probe of camera c                                                    *)

EndsSecond(c) == g_frame_count[c] + 1 >= PerSec

Look(o, d, isSource) == IF d = Absent THEN o ELSE Observe(o, d, isSource)

(* The history that a frame adds.                                           *)
AddEvidence(n, d, isSource) ==
  IF isSource /\ d # Absent /\ RaisesAlarm(d) THEN Upto(n, MaxEvidence) ELSE n
AddConfirmed(b, d) == b \/ (d # Absent /\ ConfirmsHeat(d))

(* The start of osd_sink_pad_buffer_probe, for every frame: g_cam_index,    *)
(* g_frame_count, and the objects as the frame shows them.                  *)
Arrives(c) ==
  /\ analysis_status
  /\ probe[c] = "idle"
  /\ g_cam_index' = c
  /\ g_frame_count' = [g_frame_count EXCEPT ![c] = IF EndsSecond(c) THEN 0 ELSE @ + 1]

(* A frame within a second, or of a camera that is not the source.          *)
Frame(c) ==
  /\ Arrives(c)
  /\ ~(EndsSecond(c) /\ c = g_source_cam_idx)
  /\ \E seen \in [Objs -> Detections \cup {Absent}] :
       /\ obj_info' = [obj_info EXCEPT ![c] = [o \in Objs |->
             Look(obj_info[c][o], seen[o], c = g_source_cam_idx)]]
       /\ evidence' = [evidence EXCEPT ![c] = [o \in Objs |->
             AddEvidence(evidence[c][o], seen[o], c = g_source_cam_idx)]]
       /\ confirmed' = [confirmed EXCEPT ![c] = [o \in Objs |->
             AddConfirmed(confirmed[c][o], seen[o])]]
  /\ UNCHANGED <<probe, current, mains, slot, recording, senders,
                 sinceHot, fresh>>

(* What the frame that ends a second does to an object of the source camera:*)
(* the events are checked, then the temperatures (on the thermal camera,    *)
(* when they could be measured), then the optical flow, when the frame has  *)
(* it.                                                                      *)
AfterSecond(o, d, measures, hot, flow, moves) ==
  LET checked == Checked(Look(o, d, TRUE))
      tempered == IF measures THEN Tempered(checked, hot) ELSE checked
  IN IF flow THEN Flowed(tempered, moves) ELSE tempered
SecondEvidence(n, o, d) ==
  IF Lasted(Look(o, d, TRUE)) THEN AddEvidence(n, d, TRUE) ELSE 0

Second(c) ==
  /\ Arrives(c)
  /\ EndsSecond(c) /\ c = g_source_cam_idx
  /\ \E seen \in [Objs -> Detections \cup {Absent}], hot \in [Objs -> BOOLEAN],
        moves \in [Objs -> BOOLEAN], measures \in BOOLEAN, flow \in BOOLEAN :
       /\ measures => TempApply /\ c = ThermalCam
       /\ \A o \in Objs : (hot[o] => measures) /\ (moves[o] => flow)
       /\ obj_info' = [obj_info EXCEPT ![c] = [o \in Objs |->
             AfterSecond(obj_info[c][o], seen[o], measures, hot[o], flow, moves[o])]]
       /\ evidence' = [evidence EXCEPT ![c] = [o \in Objs |->
             SecondEvidence(evidence[c][o], obj_info[c][o], seen[o])]]
       /\ confirmed' = [confirmed EXCEPT ![c] = [o \in Objs |->
             AddConfirmed(confirmed[c][o], seen[o])]]
  /\ probe' = [probe EXCEPT ![c] =
        IF \E o \in Objs : obj_info'[c][o].notification_flag THEN "trigger" ELSE @]
  /\ UNCHANGED <<current, mains, slot, recording, senders, sinceHot, fresh>>

Flagged(c) == {o \in Objs : obj_info[c][o].notification_flag}
(* trigger_notification goes through the objects in order.                  *)
IsNextFlagged(c, o) == o \in Flagged(c) /\ \A p \in Flagged(c) : o <= p

(* trigger_notification: the flag is cleared, the class is published.       *)
Publish(c, o) ==
  LET k == obj_info[c][o].class_id IN
  /\ probe[c] = "trigger" /\ IsNextFlagged(c, o)
  /\ obj_info' = [obj_info EXCEPT ![c][o].notification_flag = FALSE]
  /\ g_event_class_id' = k
  /\ current' = [current EXCEPT ![c] = [obj |-> o, class |-> k]]
  /\ probe' = [probe EXCEPT ![c] = "finish"]
  /\ evidence' = [evidence EXCEPT ![c][o] = IF k \in Alarms THEN 0 ELSE @]
  /\ confirmed' = [confirmed EXCEPT ![c][o] = IF k = "HEAT" THEN FALSE ELSE @]
  /\ fresh' = TRUE
  /\ sinceHot' = IF c = ThermalCam /\ k = "OVER_TEMP"
                 THEN [sinceHot EXCEPT ![o] = 0] ELSE sinceHot
  /\ UNCHANGED <<g_frame_count, g_cam_index, mains, g_noti_cam_idx, recording,
                 senders>>

(* The rest of its round. The class is read back from the shared slot, in   *)
(* which the probe of the other camera may have written since; a FLIP       *)
(* without enough movement goes no further, and sets no gap.                *)
Vetoed(o) == OptFlowApply /\ g_event_class_id = "FLIP" /\ ~Moved(o)

Finish(c) ==
  LET o == current[c].obj
      flip == OptFlowApply /\ g_event_class_id = "FLIP"
      mon == IF flip THEN init_opt_flow(obj_info[c][o], TRUE) ELSE obj_info[c][o]
  IN
  /\ probe[c] = "finish"
  /\ probe' = [probe EXCEPT ![c] = IF Flagged(c) = {} THEN "idle" ELSE "trigger"]
  /\ \/ /\ Vetoed(obj_info[c][o])
        /\ obj_info' = [obj_info EXCEPT ![c][o] = mon]
        /\ UNCHANGED <<g_noti_cam_idx, sinceHot>>
     \/ /\ ~Vetoed(obj_info[c][o])
        /\ g_noti_cam_idx' = g_cam_index
        /\ \E raced \in BOOLEAN :
             /\ raced => obj_info[c][o].temp_event_time_gap > 0
             /\ obj_info' = [obj_info EXCEPT ![c][o] = Notified(mon, raced)]
             /\ sinceHot' = IF raced /\ c = ThermalCam
                            THEN [sinceHot EXCEPT ![o] = Upto(@, TempGap)]
                            ELSE sinceHot
  /\ UNCHANGED <<g_frame_count, g_cam_index, current, mains, g_event_class_id,
                 recording, senders, evidence, confirmed, fresh>>
-----------------------------------------------------------------------------
(* The sender                                                               *)

(* The next round of the loop: the locals are gone.                         *)
NextRound == sender' = "poll" /\ class_id' = "NORMAL" /\ cam_idx' = RgbCam

(* event_sender_thread sees that an event waits,                            *)
SeeEvent ==
  /\ sender = "poll" /\ g_event_class_id # "NORMAL"
  /\ sender' = "take"
  /\ UNCHANGED <<probes, mains, slot, recording, class_id, cam_idx, history>>

(* reads it,                                                                *)
TakeEvent ==
  /\ sender = "take"
  /\ class_id' = g_event_class_id
  /\ sender' = "clear"
  /\ fresh' = FALSE
  /\ UNCHANGED <<probes, mains, slot, recording, cam_idx,
                 evidence, confirmed, sinceHot>>

(* and clears the slot.                                                     *)
KeepSlot ==                        \* mutant: the slot is not cleared
  /\ sender = "clear"
  /\ IF NotifyOn THEN sender' = "camera" /\ UNCHANGED <<class_id, cam_idx>> ELSE NextRound
  /\ UNCHANGED <<probes, mains, slot, recording, history>>
ClearSlot ==
  /\ sender = "clear"
  /\ g_event_class_id' = "NORMAL"
  /\ IF NotifyOn THEN sender' = "camera" /\ UNCHANGED <<class_id, cam_idx>> ELSE NextRound
  /\ UNCHANGED <<probes, mains, g_noti_cam_idx, recording, history>>

(* send_notification_to_server reads the camera the clip is asked for,      *)
ReadCamera ==
  /\ sender = "camera"
  /\ cam_idx' = g_noti_cam_idx
  /\ sender' = "compare"
  /\ UNCHANGED <<probes, mains, slot, recording, class_id, history>>

(* reads it again to compare it with the source camera,                     *)
CompareSource ==
  /\ sender = "compare"
  /\ IF g_noti_cam_idx = g_source_cam_idx
     THEN sender' = "mark" /\ UNCHANGED <<class_id, cam_idx>> ELSE NextRound
  /\ UNCHANGED <<probes, mains, slot, recording, history>>

(* sets the flag,                                                           *)
MarkRecording ==
  /\ sender = "mark" /\ timers < MaxTimers
  /\ g_event_recording' = TRUE
  /\ sender' = "add"
  /\ UNCHANGED <<probes, mains, slot, timers, class_id, cam_idx, history>>

(* starts the timer that will clear it,                                     *)
NoTimer ==                         \* mutant: the timer is not started
  /\ sender = "add"
  /\ sender' = "ask"
  /\ UNCHANGED <<probes, mains, slot, recording, class_id, cam_idx, history>>
AddTimer ==
  /\ sender = "add"
  /\ timers' = timers + 1
  /\ sender' = "ask"
  /\ UNCHANGED <<probes, mains, slot, g_event_recording, class_id, cam_idx, history>>

(* and asks for the clip unless one was asked for too recently. Neither     *)
(* outcome changes anything here: the workers are those of ClipBuffer.      *)
AskForClip ==
  /\ sender = "ask"
  /\ NextRound
  /\ UNCHANGED <<probes, mains, slot, recording, history>>
-----------------------------------------------------------------------------
(* The main thread and the tour                                             *)

(* event_recording_timeout                                                  *)
TimerFires ==
  /\ timers > 0
  /\ g_event_recording' = FALSE
  /\ timers' = timers - 1
  /\ UNCHANGED <<probes, mains, slot, senders, history>>

(* A viewer joins with a source: on_server_message, ROOM_PEER_JOINED.       *)
SwitchSource(c) ==
  /\ g_source_cam_idx' = c
  /\ UNCHANGED <<probes, analysis_status, switching, slot, recording, senders, history>>

(* check_events_for_notification with init, for every object.               *)
ForgetObjects ==
  /\ obj_info' = [c \in Cams |-> [o \in Objs |-> Forgotten(obj_info[c][o])]]
  /\ evidence' = [c \in Cams |-> [o \in Objs |-> 0]]

(* set_process_analysis(0) by the tour, before it moves the camera.         *)
TourPausesAnalysis ==
  /\ analysis_status
  /\ ForgetObjects
  /\ UNCHANGED <<g_frame_count, g_cam_index, probe, current, mains, slot,
                 recording, senders, confirmed, sinceHot, fresh>>

(* The command "analysis off" forgets the objects,                          *)
AnalysisOff ==
  /\ ~switching
  /\ ForgetObjects
  /\ switching' = TRUE
  /\ UNCHANGED <<g_frame_count, g_cam_index, probe, current, analysis_status,
                 g_source_cam_idx, slot, recording, senders, confirmed,
                 sinceHot, fresh>>

(* and then clears the status, which the probes read, and the frame counts; *)
(* "analysis on" does only the second.                                      *)
SetStatus ==
  /\ analysis_status' = ~switching
  /\ switching' = FALSE
  /\ g_frame_count' = [c \in Cams |-> 0]
  /\ UNCHANGED <<obj_info, g_cam_index, probe, current, g_source_cam_idx, slot,
                 recording, senders, history>>

(* One round of dec_temp_event_time_gap, once a second for each object.     *)
Tick(o) ==
  /\ ThermalCam \in Cams
  /\ obj_info' = [obj_info EXCEPT ![ThermalCam][o] = Dec(@)]
  /\ sinceHot' = [sinceHot EXCEPT ![o] = Upto(@, TempGap)]
  /\ UNCHANGED <<g_frame_count, g_cam_index, probe, current, mains, slot,
                 recording, senders, evidence, confirmed, fresh>>

SenderNext ==
  \/ SeeEvent
  \/ TakeEvent
  \/ ClearSlot
  \/ ReadCamera
  \/ CompareSource
  \/ MarkRecording
  \/ AddTimer
  \/ AskForClip

Next ==
  \/ \E c \in Cams : \/ Frame(c)
                     \/ Second(c)
                     \/ \E o \in Objs : Publish(c, o)
                     \/ Finish(c)
  \/ SenderNext
  \/ TimerFires
  \/ \E c \in AllCams : SwitchSource(c)
  \/ TourPausesAnalysis
  \/ AnalysisOff
  \/ SetStatus
  \/ \E o \in Objs : Tick(o)

Spec == Init /\ [][Next]_vars

(* The sender's loop goes on, and GLib calls a timer that has expired.      *)
FairSpec == Spec /\ WF_vars(SenderNext) /\ WF_vars(TimerFires)
-----------------------------------------------------------------------------
(* Properties                                                               *)

Publishes(c, o, k) ==
  /\ probe[c] = "trigger" /\ probe'[c] = "finish"
  /\ current'[c] = [obj |-> o, class |-> k]

(* threshold_event_duration: an alarm is published only for an object that  *)
(* has raised alarms in all but one of the frames of that many seconds,     *)
(* without a worse second, an alarm or a pause of the analysis in between,  *)
(* whichever way cameras and commands cut the seconds.                      *)
AlarmEarned ==
  [][\A c \in Cams, o \in Objs, k \in Alarms :
       Publishes(c, o, k) => evidence[c][o] >= Threshold[k] * (PerSec - 1)]_vars

(* check_heat_count: with ResNet on, heat is published only for an object   *)
(* in which ResNet saw heat since its last HEAT.                            *)
HeatConfirmed ==
  [][\A c \in Cams, o \in Objs :
       ResnetApply /\ Publishes(c, o, "HEAT") => confirmed[c][o]]_vars

(* TEMP_EVENT_TIME_GAP: an object is reported too hot again only after that *)
(* many seconds, although other notifications set the gap and the main      *)
(* thread counts it down without a lock. So it is where one camera is       *)
(* analysed, or the optical flow is off; with both, a FLIP of the other     *)
(* camera in the slot can keep trigger_notification from setting the gap.   *)
OverTempSpaced ==
  [][\A c \in Cams, o \in Objs :
       Publishes(c, o, "OVER_TEMP") => sinceHot[o] = TempGap]_vars

(* The sender takes no event twice: between two reads of an event the slot  *)
(* has been written.                                                        *)
EventOnce ==
  [][sender = "take" /\ sender' = "clear" /\ class_id' # "NORMAL" => fresh]_vars

(* g_event_recording, for which the tour waits, is always cleared again.    *)
RecordingEnds == g_event_recording ~> ~g_event_recording
=============================================================================
