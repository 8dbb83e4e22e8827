------------------------------ MODULE ObjMonitor ------------------------------
(***************************************************************************)
(* What nvds_process.c keeps about one tracked object (ObjMonitor), and    *)
(* what a frame, a second and a notification do to it. Positions, sizes,   *)
(* confidences and temperatures are abstracted to the outcome of the       *)
(* comparison they are used for.                                           *)
(***************************************************************************)
EXTENDS Integers

CONSTANTS
  PerSec,             \* PER_CAM_SEC_FRAME
  Threshold,          \* threshold_event_duration, by class
  HeatCountThreshold, \* HEAT_COUNT_THRESHOLD
  FlowThreshold,      \* THRESHOLD_OVER_OPTICAL_FLOW_COUNT
  OverTempTime,       \* g_setting.over_temp_time
  TempGap,            \* TEMP_EVENT_TIME_GAP
  ResnetApply,        \* g_setting.resnet50_apply
  OptFlowApply        \* g_setting.opt_flow_apply

Classes == {"NORMAL", "HEAT", "FLIP", "LABOR", "SITTING", "OVER_TEMP"}
Alarms == {"HEAT", "FLIP", "LABOR"}

ASSUME MonitorAssumption ==
  /\ PerSec \in Nat /\ PerSec > 1
  /\ Threshold \in [Classes -> Nat]
  /\ HeatCountThreshold \in Nat \ {0}
  /\ FlowThreshold \in Nat
  /\ OverTempTime \in Nat
  /\ TempGap \in Nat
  /\ ResnetApply \in BOOLEAN
  /\ OptFlowApply \in BOOLEAN

(* A detection: the class the network gives, whether its confidence reaches *)
(* threshold_confidence, and whether ResNet takes it for heat too.          *)
Seen == [class : Classes \ {"OVER_TEMP"}, sure : BOOLEAN, resnet : BOOLEAN]

Monitors ==
  [detected_frame_count : Nat, duration : Nat, class_id : Classes,
   notification_flag : BOOLEAN, heat_count : Nat, do_opt_flow : BOOLEAN,
   opt_flow_detected_count : Nat, temp_duration : Nat,
   temp_event_time_gap : 0 .. TempGap]

NewMonitor ==
  [detected_frame_count |-> 0, duration |-> 0, class_id |-> "NORMAL",
   notification_flag |-> FALSE, heat_count |-> 0, do_opt_flow |-> FALSE,
   opt_flow_detected_count |-> 0, temp_duration |-> 0,
   temp_event_time_gap |-> 0]

(* One more, up to m: the code never asks more than whether m is reached.   *)
Upto(n, m) == IF n < m THEN n + 1 ELSE n

(* The alarm a detection raises: event_class_id in the probe.               *)
RaisesAlarm(d) == d.sure /\ d.class \in Alarms
ConfirmsHeat(d) ==
  ResnetApply /\ RaisesAlarm(d) /\ d.class = "HEAT" /\ d.resnet

init_opt_flow(o, total) ==
  IF OptFlowApply
  THEN [o EXCEPT !.do_opt_flow = FALSE,
                 !.opt_flow_detected_count = IF total THEN 0 ELSE @]
  ELSE o

(* set_obj_rect_id, the ResNet count of the probe, and, on the source       *)
(* camera, gather_event.                                                    *)
Observe(o, d, isSource) ==
  [o EXCEPT !.class_id = d.class,
            !.heat_count = IF ConfirmsHeat(d)
                           THEN Upto(@, HeatCountThreshold) ELSE @,
            !.detected_frame_count = IF isSource /\ RaisesAlarm(d)
                                     THEN Upto(@, PerSec - 1) ELSE @]

-----------------------------------------------------------------------------
(* check_events_for_notification                                            *)

Lasted(o) == o.detected_frame_count >= PerSec - 1
AlwaysDue(o) == TRUE               \* mutant: the duration is not compared
Due(o) == o.duration + 1 >= Threshold[o.class_id]
Heated(o) == ResnetApply /\ o.class_id = "HEAT"
NeverUnconfirmed(o) == FALSE       \* mutant: check_heat_count is not called
(* check_heat_count                                                         *)
Unconfirmed(o) == Heated(o) /\ o.heat_count < HeatCountThreshold

(* An object that raised an alarm in (nearly) every frame of the second.    *)
Count(o) ==
  IF Due(o)
  THEN [o EXCEPT !.duration = 0,
                 !.notification_flag = ~Unconfirmed(o),
                 !.heat_count = IF Heated(o) THEN 0 ELSE @]
  ELSE [o EXCEPT !.duration = @ + 1]

KeepFlow(o) ==
  IF OptFlowApply /\ o.class_id = "FLIP"
  THEN [o EXCEPT !.do_opt_flow = TRUE] ELSE init_opt_flow(o, FALSE)

Checked(o) ==
  [(IF Lasted(o) THEN KeepFlow(Count(o))
    ELSE init_opt_flow([o EXCEPT !.duration = 0], TRUE))
   EXCEPT !.detected_frame_count = 0]

(* The same function called with init: the analysis is switched off.        *)
Forgotten(o) ==
  init_opt_flow([o EXCEPT !.detected_frame_count = 0, !.duration = 0,
                          !.temp_duration = 0, !.class_id = "NORMAL",
                          !.heat_count = 0], TRUE)

-----------------------------------------------------------------------------
(* The rest of the second                                                   *)

(* check_for_temp_notification, for an object that is hot or is not.        *)
Tempered(o, hot) ==
  IF ~hot
  THEN [o EXCEPT !.temp_duration = 0, !.class_id = "NORMAL"]
  ELSE IF o.temp_duration + 1 < OverTempTime
  THEN [o EXCEPT !.temp_duration = @ + 1]
  ELSE IF o.temp_event_time_gap = 0
  THEN [o EXCEPT !.temp_duration = 0, !.class_id = "OVER_TEMP",
                 !.notification_flag = TRUE]
  ELSE [o EXCEPT !.temp_duration = 0]

(* process_opt_flow on the frame that ends a second.                        *)
Flowed(o, moves) ==
  IF ~o.do_opt_flow THEN o
  ELSE init_opt_flow([o EXCEPT !.opt_flow_detected_count =
                        IF moves THEN Upto(@, FlowThreshold) ELSE @], FALSE)

KeepGap(o, raced) == o              \* mutant: the gap is not set
(* trigger_notification, after the class has been published. The gap is     *)
(* written while dec_temp_event_time_gap may be counting it down in another *)
(* thread (raced); then the count may be what stays.                        *)
Notified(o, raced) ==
  [o EXCEPT !.temp_event_time_gap = IF raced THEN @ - 1 ELSE TempGap]
Moved(o) == o.opt_flow_detected_count >= FlowThreshold     \* get_opt_flow_result

(* dec_temp_event_time_gap                                                  *)
Dec(o) == [o EXCEPT !.temp_event_time_gap = IF @ > 0 THEN @ - 1 ELSE @]
=============================================================================
