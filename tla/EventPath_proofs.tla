--------------------------- MODULE EventPath_proofs ---------------------------
(***************************************************************************)
(* The safety properties of EventPath hold for every number of objects,    *)
(* every threshold and every setting.                                      *)
(***************************************************************************)
EXTENDS EventPath, TLAPS

(* What holds of an object of camera c, given its evidence e and whether    *)
(* its heat was confirmed.                                                  *)
Earns(m, e) ==
  /\ e >= MaxEvidence \/ e >= m.duration * (PerSec - 1) + m.detected_frame_count
  /\ m.notification_flag /\ m.class_id \in Alarms
       => /\ e >= Threshold[m.class_id] * (PerSec - 1)
          /\ m.duration = 0 /\ m.detected_frame_count = 0
Confirms(m, f) ==
  ResnetApply =>
    /\ m.heat_count > 0 => f
    /\ m.notification_flag /\ m.class_id = "HEAT" => f /\ m.heat_count = 0
HotAfterGap(m, c) ==
  m.class_id = "OVER_TEMP" =>
    /\ c = ThermalCam
    /\ m.detected_frame_count = 0
    /\ m.notification_flag => m.temp_event_time_gap = 0
Good(m, e, f, c) == Earns(m, e) /\ Confirms(m, f) /\ HotAfterGap(m, c)

ObjectsGood ==
  \A c \in Cams, o \in Objs :
    Good(obj_info[c][o], evidence[c][o], confirmed[c][o], c)
IdleUnflagged == \A c \in Cams : probe[c] = "idle" => Flagged(c) = {}
(* No other camera can put a FLIP in the slot.                              *)
OneWriter == OptFlowApply => Cams \subseteq {ThermalCam}
Covered(o) == obj_info[ThermalCam][o].temp_event_time_gap + sinceHot[o] >= TempGap
(* Published as too hot, and the gap not set yet.                           *)
Reporting(o) ==
  probe[ThermalCam] = "finish" /\ current[ThermalCam] = [obj |-> o, class |-> "OVER_TEMP"]
GapKept ==
  OneWriter /\ ThermalCam \in Cams => \A o \in Objs : Reporting(o) \/ Covered(o)
SlotHot ==
  OneWriter /\ OptFlowApply =>
    \A c \in Cams : probe[c] = "finish" /\ current[c].class = "OVER_TEMP"
      => g_event_class_id # "FLIP"
HotUncounted ==
  \A c \in Cams : probe[c] = "finish" /\ current[c].class = "OVER_TEMP" =>
    obj_info[c][current[c].obj].temp_event_time_gap = 0
FinishUnflagged ==
  \A c \in Cams : probe[c] = "finish" =>
    ~obj_info[c][current[c].obj].notification_flag
SlotFresh == g_event_class_id # "NORMAL" /\ sender # "clear" => fresh
TimerRoom == sender = "add" => timers < MaxTimers

IInv ==
  /\ TypeOK
  /\ ObjectsGood
  /\ IdleUnflagged
  /\ GapKept
  /\ SlotHot
  /\ HotUncounted
  /\ FinishUnflagged
  /\ SlotFresh
  /\ TimerRoom

(* An object the invariant holds of, and how its values are typed.          *)
Fine(m, e, f, c) ==
  /\ m \in Monitors /\ e \in 0 .. MaxEvidence /\ f \in BOOLEAN
  /\ Good(m, e, f, c)
(* What a frame shows of an object.                                         *)
Shown == Detections \cup {Absent}
-----------------------------------------------------------------------------
(* Arithmetic                                                               *)

LEMMA Times ==
  ASSUME NEW a \in Nat, NEW b \in Nat, NEW p \in Nat, a <= b
  PROVE  a * p <= b * p
  OBVIOUS

LEMMA OneMore ==
  ASSUME NEW d \in Nat, NEW p \in Nat
  PROVE  (d + 1) * p = d * p + p /\ d * p \in Nat /\ (d + 1) * p \in Nat
  OBVIOUS
-----------------------------------------------------------------------------
(* One object through a frame, a second and a notification                  *)

LEMMA LookType ==
  ASSUME MonitorAssumption, EventAssumption,
         NEW m \in Monitors, NEW d \in Detections \cup {Absent}, NEW s \in BOOLEAN
  PROVE  /\ Look(m, d, s) \in Monitors
         /\ Look(m, d, s).notification_flag = m.notification_flag
         /\ Look(m, d, s).temp_event_time_gap = m.temp_event_time_gap
         /\ Look(m, d, s).duration = m.duration
  <1>1. CASE d = Absent
    BY <1>1 DEF Look
  <1>2. CASE d # Absent
    <2>1. d \in Seen
      BY <1>2 DEF EventAssumption
    <2>2. Upto(m.heat_count, HeatCountThreshold) \in Nat
          /\ Upto(m.detected_frame_count, PerSec - 1) \in Nat
      BY DEF Monitors, MonitorAssumption, Upto
    <2>3. d.class \in Classes
      BY <2>1 DEF Seen
    <2> QED
      BY <1>2, <2>2, <2>3 DEF Look, Observe, Monitors
  <1> QED
    BY <1>1, <1>2

LEMMA LookGood ==
  ASSUME MonitorAssumption, EventAssumption,
         NEW m, NEW e, NEW f, NEW c, Fine(m, e, f, c), ~m.notification_flag,
         NEW d, d \in Shown, NEW s \in BOOLEAN
  PROVE  /\ Fine(Look(m, d, s), AddEvidence(e, d, s), AddConfirmed(f, d), c)
         /\ ~Look(m, d, s).notification_flag
         /\ Look(m, d, s).temp_event_time_gap = m.temp_event_time_gap
  <1>0. /\ m \in Monitors /\ e \in 0 .. MaxEvidence /\ f \in BOOLEAN
        /\ Good(m, e, f, c) /\ d \in Detections \cup {Absent}
    BY DEF Fine, Shown
  <1>1. CASE d = Absent
    BY <1>0, <1>1 DEF Look, AddEvidence, AddConfirmed, Fine
  <1>2. CASE d # Absent
    <2> DEFINE n == Observe(m, d, s)
               e1 == AddEvidence(e, d, s)
               f1 == AddConfirmed(f, d)
    <2>1. d \in Seen
      BY <1>0, <1>2 DEF EventAssumption
    <2>l. /\ n = Look(m, d, s) /\ n \in Monitors
          /\ n.temp_event_time_gap = m.temp_event_time_gap
      BY <1>0, <1>2, LookType DEF Look
    <2>2. n.notification_flag = FALSE /\ n.duration = m.duration
      BY <1>0, <1>2 DEF Observe, Monitors
    <2>3. n.class_id = d.class /\ d.class # "OVER_TEMP"
      BY <1>0, <2>1 DEF Observe, Monitors, Seen
    <2>4. e1 \in 0 .. MaxEvidence /\ f1 \in BOOLEAN
      <3>1. e1 \in 0 .. MaxEvidence
        BY <1>0 DEF AddEvidence, EventAssumption, Upto
      <3>2. f1 \in BOOLEAN
        BY <1>0 DEF AddConfirmed
      <3> QED
        BY <3>1, <3>2
    <2>5. Earns(n, e1)
      <3>1. e1 >= MaxEvidence \/ e1 >= n.duration * (PerSec - 1) + n.detected_frame_count
        <4> DEFINE x == m.duration * (PerSec - 1)
        <4>1. x \in Nat /\ m.detected_frame_count \in Nat /\ PerSec - 1 \in Nat
              /\ MaxEvidence \in Nat
          BY <1>0, OneMore DEF Monitors, MonitorAssumption, EventAssumption
        <4>2. e >= MaxEvidence \/ e >= x + m.detected_frame_count
          BY <1>0 DEF Good, Earns
        <4>3. CASE s /\ RaisesAlarm(d)
          <5>1. n.detected_frame_count = Upto(m.detected_frame_count, PerSec - 1)
            BY <1>0, <4>3 DEF Observe, Monitors
          <5>2. e1 = Upto(e, MaxEvidence)
            BY <4>3, <1>2 DEF AddEvidence
          <5>3. n.detected_frame_count <= m.detected_frame_count + 1
                /\ n.detected_frame_count \in Nat
            BY <5>1, <4>1 DEF Upto
          <5> HIDE DEF x, n, e1
          <5>4. e1 >= MaxEvidence \/ e1 >= x + n.detected_frame_count
            BY <1>0, <5>2, <5>3, <4>1, <4>2 DEF Upto
          <5> QED
            BY <5>4, <2>2 DEF x
        <4>4. CASE ~(s /\ RaisesAlarm(d))
          <5>1. n.detected_frame_count = m.detected_frame_count /\ e1 = e
            BY <1>0, <4>4 DEF Observe, Monitors, AddEvidence
          <5> QED
            BY <5>1, <4>2, <2>2
        <4> QED
          BY <4>3, <4>4
      <3> QED
        BY <3>1, <2>2 DEF Earns
    <2>6. Confirms(n, f1)
      <3>1. n.heat_count = IF ConfirmsHeat(d) THEN Upto(m.heat_count, HeatCountThreshold)
                           ELSE m.heat_count
        BY <1>0 DEF Observe, Monitors
      <3>2. f1 <=> f \/ ConfirmsHeat(d)
        BY <1>2 DEF AddConfirmed
      <3>3. ResnetApply => (m.heat_count > 0 => f)
        BY <1>0 DEF Good, Confirms
      <3> QED
        BY <3>1, <3>2, <3>3, <2>2 DEF Confirms
    <2>7. HotAfterGap(n, c)
      BY <2>3 DEF HotAfterGap
    <2> QED
      BY <2>l, <2>2, <2>4, <2>5, <2>6, <2>7 DEF Good, Fine
  <1> QED
    BY <1>1, <1>2

(* init_opt_flow leaves alone what the invariant speaks of.                 *)
LEMMA FlowKeeps ==
  ASSUME MonitorAssumption, NEW m \in Monitors, NEW b \in BOOLEAN
  PROVE  LET n == init_opt_flow(m, b) IN
         /\ n \in Monitors
         /\ n.detected_frame_count = m.detected_frame_count
         /\ n.duration = m.duration
         /\ n.class_id = m.class_id
         /\ n.notification_flag = m.notification_flag
         /\ n.heat_count = m.heat_count
         /\ n.temp_event_time_gap = m.temp_event_time_gap
  BY DEF init_opt_flow, Monitors, MonitorAssumption

(* The invariant depends on these fields only.                              *)
LEMMA SameGood ==
  ASSUME NEW m \in Monitors, NEW n \in Monitors, NEW e, NEW f, NEW c,
         Good(m, e, f, c),
         n.detected_frame_count = m.detected_frame_count,
         n.duration = m.duration,
         n.class_id = m.class_id,
         n.notification_flag = m.notification_flag,
         n.heat_count = m.heat_count,
         n.temp_event_time_gap = m.temp_event_time_gap
  PROVE  Good(n, e, f, c)
  BY DEF Good, Earns, Confirms, HotAfterGap

(* Count, for an object that is due.                                        *)
LEMMA FlaggedType ==
  ASSUME NEW m \in Monitors, NEW b \in BOOLEAN, NEW h \in Nat
  PROVE  LET n == [m EXCEPT !.duration = 0, !.notification_flag = b, !.heat_count = h]
         IN /\ n \in Monitors
            /\ n.class_id = m.class_id
            /\ n.temp_event_time_gap = m.temp_event_time_gap
            /\ n.detected_frame_count = m.detected_frame_count
  BY DEF Monitors

(* check_events_for_notification: the heart of AlarmEarned and HeatConfirmed. *)
LEMMA CheckedGood ==
  ASSUME MonitorAssumption, EventAssumption, NEW m \in Monitors,
         NEW e \in 0 .. MaxEvidence, NEW f \in BOOLEAN, NEW c,
         ~m.notification_flag, Good(m, e, f, c)
  PROVE  /\ Checked(m) \in Monitors
         /\ Checked(m).temp_event_time_gap = m.temp_event_time_gap
         /\ Checked(m).detected_frame_count = 0
         /\ Good(Checked(m), IF Lasted(m) THEN e ELSE 0, f, c)
  <1>0. MaxEvidence \in Nat /\ PerSec - 1 \in Nat /\ PerSec - 1 > 0
        /\ m.duration \in Nat /\ m.detected_frame_count \in Nat /\ m.heat_count \in Nat
    BY DEF Monitors, MonitorAssumption, EventAssumption
  <1>1. CASE ~Lasted(m)
    <2> DEFINE p == [m EXCEPT !.duration = 0]
               n == [init_opt_flow(p, TRUE) EXCEPT !.detected_frame_count = 0]
    <2>1. p \in Monitors /\ p.duration = 0 /\ p.class_id = m.class_id
          /\ ~p.notification_flag /\ p.heat_count = m.heat_count
          /\ p.temp_event_time_gap = m.temp_event_time_gap
      BY DEF Monitors
    <2>2. init_opt_flow(p, TRUE) \in Monitors
          /\ init_opt_flow(p, TRUE).duration = 0
          /\ init_opt_flow(p, TRUE).class_id = m.class_id
          /\ ~init_opt_flow(p, TRUE).notification_flag
          /\ init_opt_flow(p, TRUE).heat_count = m.heat_count
          /\ init_opt_flow(p, TRUE).temp_event_time_gap = m.temp_event_time_gap
      BY <2>1, FlowKeeps
    <2>3. n \in Monitors /\ n.duration = 0 /\ n.class_id = m.class_id
          /\ n.detected_frame_count = 0
          /\ ~n.notification_flag /\ n.heat_count = m.heat_count
          /\ n.temp_event_time_gap = m.temp_event_time_gap
      BY <2>2 DEF Monitors
    <2>4. Checked(m) = n
      BY <1>1 DEF Checked
    <2>5. 0 * (PerSec - 1) = 0
      BY <1>0
    <2> HIDE DEF n
    <2>6. Earns(n, 0)
      BY <2>3, <2>5, <1>0 DEF Earns
    <2>7. Confirms(n, f) /\ HotAfterGap(n, c)
      BY <2>3 DEF Good, Confirms, HotAfterGap
    <2> QED
      BY <2>3, <2>4, <2>6, <2>7, <1>1 DEF Good
  <1>2. CASE Lasted(m)
    <2>p. PICK p : p = Count(m)
      OBVIOUS
    <2>q. PICK q : q = KeepFlow(p)
      OBVIOUS
    <2>n. PICK n : n = [q EXCEPT !.detected_frame_count = 0]
      OBVIOUS
    <2>1. m.detected_frame_count >= PerSec - 1 /\ m.class_id # "OVER_TEMP"
      BY <1>2, <1>0 DEF Lasted, Good, HotAfterGap
    <2>2. p \in Monitors /\ p.class_id = m.class_id
          /\ p.temp_event_time_gap = m.temp_event_time_gap
          /\ p.detected_frame_count = m.detected_frame_count
      <3>1. CASE ~Due(m)
        BY <3>1, <2>p DEF Count, Monitors
      <3>2. CASE Due(m) /\ Unconfirmed(m)
        <4>1. PICK h \in Nat : h = IF Heated(m) THEN 0 ELSE m.heat_count
          BY <1>0
        <4>2. p = [m EXCEPT !.duration = 0, !.notification_flag = FALSE, !.heat_count = h]
          BY <3>2, <4>1, <2>p DEF Count
        <4> QED
          BY <4>2, FlaggedType
      <3>3. CASE Due(m) /\ ~Unconfirmed(m)
        <4>1. PICK h \in Nat : h = IF Heated(m) THEN 0 ELSE m.heat_count
          BY <1>0
        <4>2. p = [m EXCEPT !.duration = 0, !.notification_flag = TRUE, !.heat_count = h]
          BY <3>3, <4>1, <2>p DEF Count
        <4> QED
          BY <4>2, FlaggedType
      <3> QED
        BY <3>1, <3>2, <3>3
    <2>3. q \in Monitors /\ q.class_id = m.class_id /\ q.duration = p.duration
          /\ q.notification_flag = p.notification_flag /\ q.heat_count = p.heat_count
          /\ q.temp_event_time_gap = m.temp_event_time_gap
      <3>1. CASE OptFlowApply /\ p.class_id = "FLIP"
        BY <3>1, <2>2, <2>q DEF KeepFlow, Monitors
      <3>2. CASE ~(OptFlowApply /\ p.class_id = "FLIP")
        BY <3>2, <2>2, <2>q, FlowKeeps DEF KeepFlow
      <3> QED
        BY <3>1, <3>2
    <2>4. n \in Monitors /\ n.class_id = m.class_id /\ n.duration = p.duration
          /\ n.notification_flag = p.notification_flag /\ n.heat_count = p.heat_count
          /\ n.temp_event_time_gap = m.temp_event_time_gap
          /\ n.detected_frame_count = 0
      BY <2>3, <2>n DEF Monitors
    <2>5. Checked(m) = n
      BY <1>2, <2>p, <2>q, <2>n DEF Checked
    <2>6. /\ p.duration = (IF Due(m) THEN 0 ELSE m.duration + 1)
          /\ p.notification_flag => Due(m) /\ ~Unconfirmed(m)
          /\ p.heat_count = (IF Due(m) /\ Heated(m) THEN 0 ELSE m.heat_count)
      <3>1. CASE ~Due(m)
        BY <3>1, <2>p DEF Count, Monitors
      <3>2. CASE Due(m) /\ Unconfirmed(m)
        <4>1. p = [m EXCEPT !.duration = 0, !.notification_flag = FALSE,
                            !.heat_count = IF Heated(m) THEN 0 ELSE @]
          BY <3>2, <2>p DEF Count
        <4> QED
          BY <4>1, <3>2 DEF Monitors
      <3>3. CASE Due(m) /\ ~Unconfirmed(m)
        <4>1. p = [m EXCEPT !.duration = 0, !.notification_flag = TRUE,
                            !.heat_count = IF Heated(m) THEN 0 ELSE @]
          BY <3>3, <2>p DEF Count
        <4> QED
          BY <4>1, <3>3 DEF Monitors
      <3> QED
        BY <3>1, <3>2, <3>3
    <2>7. Earns(n, e)
      <3> DEFINE x == (m.duration + 1) * (PerSec - 1)
      <3>1. x = m.duration * (PerSec - 1) + (PerSec - 1) /\ x \in Nat
            /\ m.duration * (PerSec - 1) \in Nat
        BY <1>0, OneMore
      <3>2. e >= MaxEvidence \/ e >= x
        BY <3>1, <2>1, <1>0 DEF Good, Earns
      <3>3. 0 * (PerSec - 1) = 0
        BY <1>0
      <3>4. e >= MaxEvidence \/ e >= n.duration * (PerSec - 1) + n.detected_frame_count
        BY <3>1, <3>2, <3>3, <2>4, <2>6, <1>0
      <3>5. ASSUME n.notification_flag, n.class_id \in Alarms
            PROVE  /\ e >= Threshold[n.class_id] * (PerSec - 1)
                   /\ n.duration = 0 /\ n.detected_frame_count = 0
        <4>1. Threshold[m.class_id] <= m.duration + 1 /\ Threshold[m.class_id] \in Nat
              /\ m.duration + 1 \in Nat
          BY <3>5, <2>4, <2>6, <1>0 DEF Due, Monitors, MonitorAssumption
        <4>2. Threshold[m.class_id] * (PerSec - 1) <= x
          BY <4>1, <1>0, Times
        <4>3. Threshold[m.class_id] * (PerSec - 1) <= MaxEvidence
          BY <3>5, <2>4 DEF EventAssumption
        <4>4. Threshold[m.class_id] * (PerSec - 1) \in Nat
          BY <4>1, <1>0, OneMore
        <4> HIDE DEF x
        <4> QED
          <5>1. e >= Threshold[n.class_id] * (PerSec - 1)
            BY <4>2, <4>3, <4>4, <3>1, <3>2, <2>4, <1>0
          <5>2. n.duration = 0 /\ n.detected_frame_count = 0
            BY <3>5, <2>4, <2>6
          <5> QED
            BY <5>1, <5>2
      <3> QED
        BY <3>4, <3>5 DEF Earns
    <2>8. Confirms(n, f)
      <3> SUFFICES ASSUME ResnetApply
                   PROVE  /\ n.heat_count > 0 => f
                          /\ n.notification_flag /\ n.class_id = "HEAT"
                               => f /\ n.heat_count = 0
        BY DEF Confirms
      <3>1. m.heat_count > 0 => f
        BY DEF Good, Confirms
      <3>2. n.heat_count > 0 => f
        BY <3>1, <2>4, <2>6, <1>0
      <3>3. ASSUME n.notification_flag, n.class_id = "HEAT"
            PROVE  f /\ n.heat_count = 0
        <4>1. Due(m) /\ ~Unconfirmed(m) /\ Heated(m)
          BY <3>3, <2>4, <2>6 DEF Heated
        <4>2. m.heat_count > 0
          BY <4>1, <1>0 DEF Unconfirmed, MonitorAssumption
        <4> QED
          BY <4>1, <4>2, <3>1, <2>4, <2>6
      <3> QED
        BY <3>2, <3>3
    <2>9. HotAfterGap(n, c)
      BY <2>1, <2>4 DEF HotAfterGap
    <2> QED
      BY <2>4, <2>5, <2>7, <2>8, <2>9, <1>2 DEF Good
  <1> QED
    BY <1>1, <1>2

(* check_for_temp_notification, which runs on the thermal camera only.      *)
LEMMA TemperedGood ==
  ASSUME MonitorAssumption, NEW m \in Monitors, NEW e \in 0 .. MaxEvidence,
         NEW f \in BOOLEAN, Good(m, e, f, ThermalCam), m.detected_frame_count = 0,
         NEW hot \in BOOLEAN
  PROVE  /\ Tempered(m, hot) \in Monitors
         /\ Tempered(m, hot).temp_event_time_gap = m.temp_event_time_gap
         /\ Good(Tempered(m, hot), e, f, ThermalCam)
  <1> DEFINE n == Tempered(m, hot)
  <1>1. n \in Monitors /\ n.temp_event_time_gap = m.temp_event_time_gap
        /\ n.duration = m.duration /\ n.detected_frame_count = 0
        /\ n.heat_count = m.heat_count
    <2>1. CASE ~hot
      BY <2>1 DEF Tempered, Monitors, Classes
    <2>2. CASE hot /\ m.temp_duration + 1 < OverTempTime
      BY <2>2 DEF Tempered, Monitors
    <2>3. CASE hot /\ ~(m.temp_duration + 1 < OverTempTime)
      <3>1. CASE m.temp_event_time_gap = 0
        BY <2>3, <3>1 DEF Tempered, Monitors, Classes
      <3>2. CASE m.temp_event_time_gap # 0
        BY <2>3, <3>2 DEF Tempered, Monitors
      <3> QED
        BY <3>1, <3>2
    <2> QED
      BY <2>1, <2>2, <2>3
  <1>2. \/ n.class_id = m.class_id /\ n.notification_flag = m.notification_flag
        \/ n.class_id = "NORMAL"
        \/ n.class_id = "OVER_TEMP" /\ n.temp_event_time_gap = 0
    BY DEF Tempered, Monitors
  <1> HIDE DEF n
  <1>3. Earns(n, e)
    BY <1>1, <1>2 DEF Earns, Good, Alarms
  <1>4. Confirms(n, f) /\ HotAfterGap(n, ThermalCam)
    BY <1>1, <1>2 DEF Confirms, HotAfterGap, Good
  <1> QED
    BY <1>1, <1>3, <1>4 DEF n, Good

LEMMA FlowedGood ==
  ASSUME MonitorAssumption, NEW m \in Monitors, NEW e, NEW f, NEW c,
         Good(m, e, f, c), NEW moves \in BOOLEAN
  PROVE  /\ Flowed(m, moves) \in Monitors
         /\ Flowed(m, moves).temp_event_time_gap = m.temp_event_time_gap
         /\ Good(Flowed(m, moves), e, f, c)
  <1> DEFINE p == [m EXCEPT !.opt_flow_detected_count =
                     IF moves THEN Upto(@, FlowThreshold) ELSE @]
  <1>1. p \in Monitors
        /\ p.detected_frame_count = m.detected_frame_count
        /\ p.duration = m.duration
        /\ p.class_id = m.class_id
        /\ p.notification_flag = m.notification_flag
        /\ p.heat_count = m.heat_count
        /\ p.temp_event_time_gap = m.temp_event_time_gap
    BY DEF Monitors, Upto, MonitorAssumption
  <1>2. CASE ~m.do_opt_flow
    BY <1>2 DEF Flowed
  <1>3. CASE m.do_opt_flow
    <2>1. Flowed(m, moves) = init_opt_flow(p, FALSE)
      BY <1>3 DEF Flowed
    <2> HIDE DEF p
    <2>2. init_opt_flow(p, FALSE) \in Monitors
          /\ init_opt_flow(p, FALSE).detected_frame_count = m.detected_frame_count
          /\ init_opt_flow(p, FALSE).duration = m.duration
          /\ init_opt_flow(p, FALSE).class_id = m.class_id
          /\ init_opt_flow(p, FALSE).notification_flag = m.notification_flag
          /\ init_opt_flow(p, FALSE).heat_count = m.heat_count
          /\ init_opt_flow(p, FALSE).temp_event_time_gap = m.temp_event_time_gap
      BY <1>1, FlowKeeps
    <2> QED
      BY <2>1, <2>2, SameGood
  <1> QED
    BY <1>2, <1>3

LEMMA ForgottenGood ==
  ASSUME MonitorAssumption, EventAssumption, NEW m \in Monitors,
         NEW f \in BOOLEAN, NEW c
  PROVE  /\ Forgotten(m) \in Monitors
         /\ Forgotten(m).notification_flag = m.notification_flag
         /\ Forgotten(m).temp_event_time_gap = m.temp_event_time_gap
         /\ Good(Forgotten(m), 0, f, c)
  <1> DEFINE p == [m EXCEPT !.detected_frame_count = 0, !.duration = 0,
                     !.temp_duration = 0, !.class_id = "NORMAL", !.heat_count = 0]
             n == init_opt_flow(p, TRUE)
  <1>1. p \in Monitors /\ p.detected_frame_count = 0 /\ p.duration = 0
        /\ p.class_id = "NORMAL" /\ p.heat_count = 0
        /\ p.notification_flag = m.notification_flag
        /\ p.temp_event_time_gap = m.temp_event_time_gap
    BY DEF Monitors, Classes
  <1>2. n = Forgotten(m)
    BY DEF Forgotten
  <1> HIDE DEF p
  <1>3. n \in Monitors /\ n.detected_frame_count = 0 /\ n.duration = 0
        /\ n.class_id = "NORMAL" /\ n.heat_count = 0
        /\ n.notification_flag = m.notification_flag
        /\ n.temp_event_time_gap = m.temp_event_time_gap
    BY <1>1, FlowKeeps
  <1>4. 0 * (PerSec - 1) = 0
    BY DEF MonitorAssumption
  <1> HIDE DEF n
  <1>5. Good(n, 0, f, c)
    BY <1>3, <1>4 DEF Good, Earns, Confirms, HotAfterGap, Alarms
  <1> QED
    BY <1>2, <1>3, <1>5
-----------------------------------------------------------------------------
(* The steps                                                                *)

(* Frames: what they do to one object, to the flags and to the gap.         *)
LEMMA FrameStep ==
  ASSUME MonitorAssumption, EventAssumption, IInv, NEW c \in Cams, Frame(c)
  PROVE  IInv'
  <1>1. PICK seen \in [Objs -> Detections \cup {Absent}] :
          /\ obj_info' = [obj_info EXCEPT ![c] = [o \in Objs |->
                Look(obj_info[c][o], seen[o], c = g_source_cam_idx)]]
          /\ evidence' = [evidence EXCEPT ![c] = [o \in Objs |->
                AddEvidence(evidence[c][o], seen[o], c = g_source_cam_idx)]]
          /\ confirmed' = [confirmed EXCEPT ![c] = [o \in Objs |->
                AddConfirmed(confirmed[c][o], seen[o])]]
    BY DEF Frame
  <1>2. PICK s \in BOOLEAN : s = (c = g_source_cam_idx)
    OBVIOUS
  <1>3. /\ obj_info' = [obj_info EXCEPT ![c] = [o \in Objs |->
              Look(obj_info[c][o], seen[o], s)]]
        /\ evidence' = [evidence EXCEPT ![c] = [o \in Objs |->
              AddEvidence(evidence[c][o], seen[o], s)]]
        /\ confirmed' = [confirmed EXCEPT ![c] = [o \in Objs |->
              AddConfirmed(confirmed[c][o], seen[o])]]
    BY <1>1, <1>2
  <1>4. /\ probe[c] = "idle" /\ probe' = probe /\ current' = current
        /\ sinceHot' = sinceHot /\ fresh' = fresh
        /\ g_event_class_id' = g_event_class_id /\ sender' = sender
    BY DEF Frame, Arrives, slot, senders
  <1>5. ASSUME NEW o \in Objs
        PROVE  LET m == obj_info[c][o] IN
               /\ m \in Monitors /\ ~m.notification_flag
               /\ evidence[c][o] \in 0 .. MaxEvidence /\ confirmed[c][o] \in BOOLEAN
               /\ Good(m, evidence[c][o], confirmed[c][o], c)
    BY <1>4 DEF IInv, TypeOK, ObjectsGood, IdleUnflagged, Flagged
  <1>6. ASSUME NEW o \in Objs
        PROVE  /\ obj_info'[c][o] \in Monitors
               /\ ~obj_info'[c][o].notification_flag
               /\ obj_info'[c][o].temp_event_time_gap = obj_info[c][o].temp_event_time_gap
               /\ evidence'[c][o] \in 0 .. MaxEvidence /\ confirmed'[c][o] \in BOOLEAN
               /\ Good(obj_info'[c][o], evidence'[c][o], confirmed'[c][o], c)
    <2>1. /\ obj_info'[c][o] = Look(obj_info[c][o], seen[o], s)
          /\ evidence'[c][o] = AddEvidence(evidence[c][o], seen[o], s)
          /\ confirmed'[c][o] = AddConfirmed(confirmed[c][o], seen[o])
      BY <1>3 DEF IInv, TypeOK
    <2>2. PICK m \in Monitors, e \in 0 .. MaxEvidence, f \in BOOLEAN :
            m = obj_info[c][o] /\ e = evidence[c][o] /\ f = confirmed[c][o]
      BY <1>5
    <2>4. PICK d \in Detections \cup {Absent} : d = seen[o]
      OBVIOUS
    <2>5. ~m.notification_flag /\ Fine(m, e, f, c) /\ d \in Shown
      BY <1>5, <2>2 DEF Fine, Shown
    <2>6. /\ Fine(Look(m, d, s), AddEvidence(e, d, s), AddConfirmed(f, d), c)
          /\ ~Look(m, d, s).notification_flag
          /\ Look(m, d, s).temp_event_time_gap = m.temp_event_time_gap
      BY <2>5, LookGood
    <2> QED
      BY <2>1, <2>2, <2>4, <2>6 DEF Fine
  <1>7. ASSUME NEW d \in Cams, d # c
        PROVE  /\ obj_info'[d] = obj_info[d]
               /\ evidence'[d] = evidence[d] /\ confirmed'[d] = confirmed[d]
    BY <1>3, <1>7 DEF IInv, TypeOK
  <1>8. TypeOK'
    <2>1. obj_info' \in [Cams -> [Objs -> Monitors]]
      BY <1>3, <1>6 DEF IInv, TypeOK
    <2>2. evidence' \in [Cams -> [Objs -> 0 .. MaxEvidence]]
      BY <1>3, <1>6 DEF IInv, TypeOK
    <2>3. confirmed' \in [Cams -> [Objs -> BOOLEAN]]
      BY <1>3, <1>6 DEF IInv, TypeOK
    <2>4. g_frame_count' \in [Cams -> 0 .. PerSec - 1] /\ g_cam_index' \in AllCams
      BY DEF IInv, TypeOK, Frame, Arrives, EndsSecond, EventAssumption, MonitorAssumption
    <2> QED
      BY <2>1, <2>2, <2>3, <2>4 DEF IInv, TypeOK, Frame, mains, slot, recording, senders
  <1>9. ObjectsGood'
    <2> SUFFICES ASSUME NEW d \in Cams, NEW o \in Objs
                 PROVE  Good(obj_info'[d][o], evidence'[d][o], confirmed'[d][o], d)
      BY DEF ObjectsGood, Good, Earns, Confirms, HotAfterGap
    <2>1. CASE d = c
      BY <2>1, <1>6
    <2>2. CASE d # c
      BY <2>2, <1>7 DEF IInv, ObjectsGood
    <2> QED
      BY <2>1, <2>2
  <1>10. IdleUnflagged'
    BY <1>4, <1>6, <1>7 DEF IInv, IdleUnflagged, Flagged
  <1>11. GapKept'
    BY <1>4, <1>6, <1>7 DEF IInv, GapKept, Reporting, Covered
  <1>h. SlotHot'
    BY <1>4 DEF IInv, SlotHot
  <1>12. HotUncounted'
    BY <1>4, <1>7 DEF IInv, HotUncounted
  <1>13. FinishUnflagged'
    BY <1>4, <1>7 DEF IInv, FinishUnflagged
  <1>14. SlotFresh'
    BY <1>4 DEF IInv, SlotFresh
  <1>t. TimerRoom'
    BY DEF IInv, TimerRoom, Frame, recording, senders
  <1> QED
    BY <1>8, <1>9, <1>10, <1>11, <1>12, <1>13, <1>14, <1>h, <1>t DEF IInv

(* The first half of that frame, for one object.                            *)
SeenChecked(m, d) == Checked(Look(m, d, TRUE))

LEMMA SeenAndChecked ==
  ASSUME MonitorAssumption, EventAssumption,
         NEW m, NEW e, NEW f, NEW c, Fine(m, e, f, c), ~m.notification_flag,
         NEW d, d \in Shown
  PROVE  /\ Fine(SeenChecked(m, d), SecondEvidence(e, m, d), AddConfirmed(f, d), c)
         /\ SeenChecked(m, d).temp_event_time_gap = m.temp_event_time_gap
         /\ SeenChecked(m, d).detected_frame_count = 0
  <1>0. PICK s \in BOOLEAN : s = TRUE
    OBVIOUS
  <1>1. /\ Fine(Look(m, d, s), AddEvidence(e, d, s), AddConfirmed(f, d), c)
        /\ ~Look(m, d, s).notification_flag
        /\ Look(m, d, s).temp_event_time_gap = m.temp_event_time_gap
    BY LookGood
  <1>2. PICK a, ea, f1 :
          a = Look(m, d, s) /\ ea = AddEvidence(e, d, s) /\ f1 = AddConfirmed(f, d)
    OBVIOUS
  <1>3. /\ a \in Monitors /\ ea \in 0 .. MaxEvidence /\ f1 \in BOOLEAN
        /\ Good(a, ea, f1, c) /\ ~a.notification_flag
        /\ a.temp_event_time_gap = m.temp_event_time_gap
    BY <1>1, <1>2 DEF Fine
  <1>4. PICK e1 : e1 = IF Lasted(a) THEN ea ELSE 0
    OBVIOUS
  <1>5. e1 \in 0 .. MaxEvidence /\ e1 = SecondEvidence(e, m, d)
    <2>1. 0 \in 0 .. MaxEvidence
      BY DEF EventAssumption
    <2>2. SecondEvidence(e, m, d) = IF Lasted(a) THEN ea ELSE 0
      BY <1>0, <1>2 DEF SecondEvidence
    <2> QED
      BY <1>3, <1>4, <2>1, <2>2
  <1>7. /\ Checked(a) \in Monitors
        /\ Checked(a).temp_event_time_gap = a.temp_event_time_gap
        /\ Checked(a).detected_frame_count = 0
        /\ Good(Checked(a), IF Lasted(a) THEN ea ELSE 0, f1, c)
    BY <1>3, CheckedGood
  <1>8. SeenChecked(m, d) = Checked(a)
    BY <1>0, <1>2 DEF SeenChecked
  <1>9. Fine(Checked(a), e1, f1, c)
    BY <1>3, <1>4, <1>5, <1>7 DEF Fine
  <1> QED
    BY <1>2, <1>3, <1>5, <1>7, <1>8, <1>9

(* The second half.                                                         *)
TemperedFlowed(b, x, hot, flow, moves) ==
  LET u == IF x THEN Tempered(b, hot) ELSE b
  IN IF flow THEN Flowed(u, moves) ELSE u

LEMMA TemperedAndFlowed ==
  ASSUME MonitorAssumption, EventAssumption,
         NEW b, NEW e, NEW f, NEW c, Fine(b, e, f, c), b.detected_frame_count = 0,
         NEW x \in BOOLEAN, NEW hot \in BOOLEAN, x => c = ThermalCam,
         NEW flow \in BOOLEAN, NEW moves \in BOOLEAN
  PROVE  /\ Fine(TemperedFlowed(b, x, hot, flow, moves), e, f, c)
         /\ TemperedFlowed(b, x, hot, flow, moves).temp_event_time_gap
              = b.temp_event_time_gap
  <1>a. /\ b \in Monitors /\ e \in 0 .. MaxEvidence /\ f \in BOOLEAN
        /\ Good(b, e, f, c)
    BY DEF Fine
  <1>b. PICK u : u = IF x THEN Tempered(b, hot) ELSE b
    OBVIOUS
  <1>1. /\ u \in Monitors /\ u.temp_event_time_gap = b.temp_event_time_gap
        /\ Good(u, e, f, c)
    <2>1. CASE ~x
      BY <2>1, <1>a, <1>b
    <2>2. CASE x
      <3>1. /\ Tempered(b, hot) \in Monitors
            /\ Tempered(b, hot).temp_event_time_gap = b.temp_event_time_gap
            /\ Good(Tempered(b, hot), e, f, ThermalCam)
        BY <1>a, <2>2, TemperedGood
      <3> QED
        BY <3>1, <2>2, <1>b
    <2> QED
      BY <2>1, <2>2
  <1>2. /\ Flowed(u, moves) \in Monitors
        /\ Flowed(u, moves).temp_event_time_gap = u.temp_event_time_gap
        /\ Good(Flowed(u, moves), e, f, c)
    BY <1>1, FlowedGood
  <1>3. TemperedFlowed(b, x, hot, flow, moves) = IF flow THEN Flowed(u, moves) ELSE u
    BY <1>b DEF TemperedFlowed
  <1> QED
    BY <1>a, <1>1, <1>2, <1>3 DEF Fine

(* The whole second, for one object.                                        *)
LEMMA AfterSecondGood ==
  ASSUME MonitorAssumption, EventAssumption,
         NEW m, NEW e, NEW f, NEW c, Fine(m, e, f, c), ~m.notification_flag,
         NEW d, d \in Shown,
         NEW x \in BOOLEAN, NEW hot \in BOOLEAN, x => c = ThermalCam,
         NEW flow \in BOOLEAN, NEW moves \in BOOLEAN
  PROVE  /\ Fine(AfterSecond(m, d, x, hot, flow, moves),
                 SecondEvidence(e, m, d), AddConfirmed(f, d), c)
         /\ AfterSecond(m, d, x, hot, flow, moves).temp_event_time_gap
              = m.temp_event_time_gap
  <1>1. PICK b, e1, f1 :
          b = SeenChecked(m, d) /\ e1 = SecondEvidence(e, m, d) /\ f1 = AddConfirmed(f, d)
    OBVIOUS
  <1>2. /\ Fine(SeenChecked(m, d), SecondEvidence(e, m, d), AddConfirmed(f, d), c)
        /\ SeenChecked(m, d).temp_event_time_gap = m.temp_event_time_gap
        /\ SeenChecked(m, d).detected_frame_count = 0
    BY SeenAndChecked
  <1>3. /\ Fine(b, e1, f1, c)
        /\ b.temp_event_time_gap = m.temp_event_time_gap
        /\ b.detected_frame_count = 0
    BY <1>1, <1>2, Zenon
  <1>4. /\ Fine(TemperedFlowed(b, x, hot, flow, moves), e1, f1, c)
        /\ TemperedFlowed(b, x, hot, flow, moves).temp_event_time_gap
             = b.temp_event_time_gap
    BY <1>3, TemperedAndFlowed
  <1>5. AfterSecond(m, d, x, hot, flow, moves) = TemperedFlowed(b, x, hot, flow, moves)
    BY <1>1 DEF AfterSecond, TemperedFlowed, SeenChecked
  <1> QED
    BY <1>1, <1>3, <1>4, <1>5, Zenon

(* The frame that ends a second.                                            *)
LEMMA SecondStep ==
  ASSUME MonitorAssumption, EventAssumption, IInv, NEW c \in Cams, Second(c)
  PROVE  IInv'
  <1>1. PICK seen \in [Objs -> Detections \cup {Absent}], hot \in [Objs -> BOOLEAN],
             moves \in [Objs -> BOOLEAN], measures \in BOOLEAN, flow \in BOOLEAN :
          /\ measures => TempApply /\ c = ThermalCam
          /\ \A o \in Objs : (hot[o] => measures) /\ (moves[o] => flow)
          /\ obj_info' = [obj_info EXCEPT ![c] = [o \in Objs |->
                AfterSecond(obj_info[c][o], seen[o], measures, hot[o], flow, moves[o])]]
          /\ evidence' = [evidence EXCEPT ![c] = [o \in Objs |->
                SecondEvidence(evidence[c][o], obj_info[c][o], seen[o])]]
          /\ confirmed' = [confirmed EXCEPT ![c] = [o \in Objs |->
                AddConfirmed(confirmed[c][o], seen[o])]]
    BY Zenon DEF Second
  <1>3. probe' = [probe EXCEPT ![c] =
          IF \E o \in Objs : obj_info'[c][o].notification_flag THEN "trigger" ELSE @]
    BY DEF Second
  <1>4. /\ probe[c] = "idle" /\ current' = current
        /\ sinceHot' = sinceHot /\ fresh' = fresh
        /\ g_event_class_id' = g_event_class_id /\ sender' = sender
    BY DEF Second, Arrives, slot, senders
  <1>5. ASSUME NEW o \in Objs
        PROVE  LET m == obj_info[c][o] IN
               /\ m \in Monitors /\ ~m.notification_flag
               /\ evidence[c][o] \in 0 .. MaxEvidence /\ confirmed[c][o] \in BOOLEAN
               /\ Good(m, evidence[c][o], confirmed[c][o], c)
    BY <1>4 DEF IInv, TypeOK, ObjectsGood, IdleUnflagged, Flagged
  <1>6. ASSUME NEW o \in Objs
        PROVE  /\ obj_info'[c][o] \in Monitors
               /\ obj_info'[c][o].temp_event_time_gap = obj_info[c][o].temp_event_time_gap
               /\ evidence'[c][o] \in 0 .. MaxEvidence /\ confirmed'[c][o] \in BOOLEAN
               /\ Good(obj_info'[c][o], evidence'[c][o], confirmed'[c][o], c)
    <2>2. PICK m \in Monitors, e \in 0 .. MaxEvidence, f \in BOOLEAN :
            m = obj_info[c][o] /\ e = evidence[c][o] /\ f = confirmed[c][o]
      BY <1>5
    <2>3. PICK d \in Detections \cup {Absent} : d = seen[o]
      OBVIOUS
    <2>4. PICK h \in BOOLEAN, v \in BOOLEAN : h = hot[o] /\ v = moves[o]
      OBVIOUS
    <2>5. ~m.notification_flag /\ Fine(m, e, f, c)
      BY <1>5, <2>2 DEF Fine
    <2>s. d \in Shown
      BY DEF Shown
    <2>6. /\ Fine(AfterSecond(m, d, measures, h, flow, v),
                  SecondEvidence(e, m, d), AddConfirmed(f, d), c)
          /\ AfterSecond(m, d, measures, h, flow, v).temp_event_time_gap
               = m.temp_event_time_gap
      BY <1>1, <2>5, <2>s, AfterSecondGood
    <2>7. /\ obj_info'[c][o] = AfterSecond(m, d, measures, h, flow, v)
          /\ evidence'[c][o] = SecondEvidence(e, m, d)
          /\ confirmed'[c][o] = AddConfirmed(f, d)
      BY <1>1, <2>2, <2>3, <2>4 DEF IInv, TypeOK
    <2> QED
      BY <2>2, <2>6, <2>7 DEF Fine
  <1>7. ASSUME NEW d \in Cams, d # c
        PROVE  /\ obj_info'[d] = obj_info[d] /\ probe'[d] = probe[d]
               /\ evidence'[d] = evidence[d] /\ confirmed'[d] = confirmed[d]
    BY <1>1, <1>3, <1>7 DEF IInv, TypeOK
  <1>8. TypeOK'
    <2>1. obj_info' \in [Cams -> [Objs -> Monitors]]
      BY <1>1, <1>6 DEF IInv, TypeOK
    <2>2. evidence' \in [Cams -> [Objs -> 0 .. MaxEvidence]]
      BY <1>1, <1>6 DEF IInv, TypeOK
    <2>3. confirmed' \in [Cams -> [Objs -> BOOLEAN]]
      BY <1>1, <1>6 DEF IInv, TypeOK
    <2>4. g_frame_count' \in [Cams -> 0 .. PerSec - 1] /\ g_cam_index' \in AllCams
      BY DEF IInv, TypeOK, Second, Arrives, EndsSecond, EventAssumption, MonitorAssumption
    <2>5. probe' \in [Cams -> {"idle", "trigger", "finish"}]
      BY <1>3 DEF IInv, TypeOK
    <2>6. UNCHANGED <<current, mains, slot, recording, senders, sinceHot, fresh>>
      BY DEF Second
    <2> QED
      BY <2>1, <2>2, <2>3, <2>4, <2>5, <2>6 DEF IInv, TypeOK, mains, slot, recording, senders
  <1>9. ObjectsGood'
    <2> SUFFICES ASSUME NEW d \in Cams, NEW o \in Objs
                 PROVE  Good(obj_info'[d][o], evidence'[d][o], confirmed'[d][o], d)
      BY DEF ObjectsGood, Good, Earns, Confirms, HotAfterGap
    <2>1. CASE d = c
      BY <2>1, <1>6
    <2>2. CASE d # c
      BY <2>2, <1>7 DEF IInv, ObjectsGood
    <2> QED
      BY <2>1, <2>2
  <1>10. IdleUnflagged'
    <2> SUFFICES ASSUME NEW d \in Cams, probe'[d] = "idle", NEW o \in Objs
                 PROVE  ~obj_info'[d][o].notification_flag
      BY DEF IdleUnflagged, Flagged
    <2>1. CASE d = c
      BY <2>1, <1>3 DEF IInv, TypeOK
    <2>2. CASE d # c
      BY <2>2, <1>7 DEF IInv, IdleUnflagged, Flagged
    <2> QED
      BY <2>1, <2>2
  <1>11. GapKept'
    <2> SUFFICES ASSUME OneWriter, ThermalCam \in Cams, NEW p \in Objs
                 PROVE  Reporting(p)' \/ Covered(p)'
      BY DEF GapKept
    <2>1. Reporting(p) \/ Covered(p)
      BY DEF IInv, GapKept
    <2>2. CASE c = ThermalCam
      <3>1. Covered(p)
        BY <2>1, <2>2, <1>4 DEF Reporting
      <3> QED
        BY <3>1, <2>2, <1>4, <1>6 DEF Covered
    <2>3. CASE c # ThermalCam
      BY <2>1, <2>3, <1>4, <1>7 DEF Covered, Reporting
    <2> QED
      BY <2>2, <2>3
  <1>a. probe'[c] # "finish"
    BY <1>3, <1>4 DEF IInv, TypeOK
  <1>h. SlotHot'
    BY <1>4, <1>7, <1>a DEF IInv, SlotHot
  <1>12. HotUncounted'
    BY <1>4, <1>7, <1>a DEF IInv, HotUncounted
  <1>13. FinishUnflagged'
    BY <1>4, <1>7, <1>a DEF IInv, FinishUnflagged
  <1>14. SlotFresh'
    BY <1>4 DEF IInv, SlotFresh
  <1>t. TimerRoom'
    BY DEF IInv, TimerRoom, Second, recording, senders
  <1> QED
    BY <1>8, <1>9, <1>10, <1>11, <1>12, <1>13, <1>14, <1>h, <1>t DEF IInv

(* A notification's start: what the evidence and the confirmation become.   *)
LEMMA PublishedGood ==
  ASSUME MonitorAssumption, EventAssumption,
         NEW m, NEW e, NEW f, NEW c, Fine(m, e, f, c), m.notification_flag,
         NEW n, n = [m EXCEPT !.notification_flag = FALSE],
         NEW e1, e1 = (IF m.class_id \in Alarms THEN 0 ELSE e),
         NEW f1, f1 = (IF m.class_id = "HEAT" THEN FALSE ELSE f)
  PROVE  /\ Fine(n, e1, f1, c)
         /\ ~n.notification_flag
         /\ n.temp_event_time_gap = m.temp_event_time_gap
         /\ m.class_id = "OVER_TEMP" => m.temp_event_time_gap = 0
  <1>0. /\ m \in Monitors /\ e \in 0 .. MaxEvidence /\ f \in BOOLEAN
        /\ Good(m, e, f, c)
    BY DEF Fine
  <1>1. /\ n \in Monitors /\ ~n.notification_flag /\ n.class_id = m.class_id
        /\ n.duration = m.duration /\ n.detected_frame_count = m.detected_frame_count
        /\ n.heat_count = m.heat_count
        /\ n.temp_event_time_gap = m.temp_event_time_gap
    BY <1>0 DEF Monitors
  <1>2. e1 \in 0 .. MaxEvidence /\ f1 \in BOOLEAN
    <2>1. 0 \in 0 .. MaxEvidence
      BY DEF EventAssumption
    <2>2. e1 \in 0 .. MaxEvidence
      BY <1>0, <2>1
    <2>3. f1 \in BOOLEAN
      BY <1>0
    <2> QED
      BY <2>2, <2>3
  <1>3. Earns(n, e1)
    <2>1. 0 * (PerSec - 1) = 0
      BY DEF MonitorAssumption
    <2>2. CASE m.class_id \in Alarms
      BY <1>0, <1>1, <2>1, <2>2 DEF Good, Earns
    <2>3. CASE m.class_id \notin Alarms
      BY <1>0, <1>1, <2>3 DEF Good, Earns
    <2> QED
      BY <2>2, <2>3
  <1>4. Confirms(n, f1)
    <2>1. CASE m.class_id = "HEAT"
      BY <1>0, <1>1, <2>1 DEF Good, Confirms
    <2>2. CASE m.class_id # "HEAT"
      BY <1>0, <1>1, <2>2 DEF Good, Confirms
    <2> QED
      BY <2>1, <2>2
  <1>5. HotAfterGap(n, c) /\ (m.class_id = "OVER_TEMP" => m.temp_event_time_gap = 0)
    BY <1>0, <1>1 DEF Good, HotAfterGap
  <1> QED
    BY <1>1, <1>2, <1>3, <1>4, <1>5 DEF Good, Fine

LEMMA PublishStep ==
  ASSUME MonitorAssumption, EventAssumption, IInv,
         NEW c \in Cams, NEW o \in Objs, Publish(c, o)
  PROVE  IInv'
  <1>1. PICK m, e, f : m = obj_info[c][o] /\ e = evidence[c][o] /\ f = confirmed[c][o]
    OBVIOUS
  <1>2. Fine(m, e, f, c) /\ m.notification_flag
    BY <1>1 DEF IInv, TypeOK, ObjectsGood, Fine, Publish, IsNextFlagged, Flagged
  <1>3. PICK n, e1, f1 :
          /\ n = [m EXCEPT !.notification_flag = FALSE]
          /\ e1 = (IF m.class_id \in Alarms THEN 0 ELSE e)
          /\ f1 = (IF m.class_id = "HEAT" THEN FALSE ELSE f)
    OBVIOUS
  <1>4. /\ Fine(n, e1, f1, c)
        /\ ~n.notification_flag
        /\ n.temp_event_time_gap = m.temp_event_time_gap
        /\ m.class_id = "OVER_TEMP" => m.temp_event_time_gap = 0
    BY <1>2, <1>3, PublishedGood
  <1>5. /\ m \in Monitors /\ n \in Monitors /\ e1 \in 0 .. MaxEvidence /\ f1 \in BOOLEAN
        /\ m.class_id \in Classes
    BY <1>2, <1>4 DEF Fine, Monitors
  <1>6. /\ obj_info' = [obj_info EXCEPT ![c] = [@ EXCEPT ![o] = n]]
        /\ evidence' = [evidence EXCEPT ![c] = [@ EXCEPT ![o] = e1]]
        /\ confirmed' = [confirmed EXCEPT ![c] = [@ EXCEPT ![o] = f1]]
    BY <1>1, <1>3 DEF Publish, IInv, TypeOK
  <1>7. /\ probe[c] = "trigger" /\ probe' = [probe EXCEPT ![c] = "finish"]
        /\ current' = [current EXCEPT ![c] = [obj |-> o, class |-> m.class_id]]
        /\ g_event_class_id' = m.class_id /\ fresh' = TRUE
        /\ sinceHot' = IF c = ThermalCam /\ m.class_id = "OVER_TEMP"
                       THEN [sinceHot EXCEPT ![o] = 0] ELSE sinceHot
    BY <1>1 DEF Publish
  <1>8. /\ obj_info'[c][o] = n /\ evidence'[c][o] = e1 /\ confirmed'[c][o] = f1
        /\ probe'[c] = "finish" /\ current'[c] = [obj |-> o, class |-> m.class_id]
    BY <1>6, <1>7 DEF IInv, TypeOK
  <1>9. ASSUME NEW d \in Cams, NEW p \in Objs, d # c \/ p # o
        PROVE  /\ obj_info'[d][p] = obj_info[d][p]
               /\ evidence'[d][p] = evidence[d][p] /\ confirmed'[d][p] = confirmed[d][p]
    BY <1>6, <1>9 DEF IInv, TypeOK
  <1>10. ASSUME NEW d \in Cams, d # c
         PROVE  probe'[d] = probe[d] /\ current'[d] = current[d]
    BY <1>7, <1>10 DEF IInv, TypeOK
  <1>11. TypeOK'
    <2>1. obj_info' \in [Cams -> [Objs -> Monitors]]
      BY <1>5, <1>6 DEF IInv, TypeOK
    <2>2. evidence' \in [Cams -> [Objs -> 0 .. MaxEvidence]]
      BY <1>5, <1>6 DEF IInv, TypeOK
    <2>3. confirmed' \in [Cams -> [Objs -> BOOLEAN]]
      BY <1>5, <1>6 DEF IInv, TypeOK
    <2>4. current' \in [Cams -> [obj : Objs, class : Classes]]
      BY <1>5, <1>7 DEF IInv, TypeOK
    <2>5. probe' \in [Cams -> {"idle", "trigger", "finish"}]
      BY <1>7 DEF IInv, TypeOK
    <2>6. UNCHANGED <<g_frame_count, g_cam_index, mains, g_noti_cam_idx, recording,
                      senders>>
      BY DEF Publish
    <2>7. sinceHot' \in [Objs -> 0 .. TempGap]
      BY <1>7 DEF IInv, TypeOK, MonitorAssumption
    <2> QED
      BY <1>5, <1>7, <2>1, <2>2, <2>3, <2>4, <2>5, <2>6, <2>7
      DEF IInv, TypeOK, mains, recording, senders
  <1>12. ObjectsGood'
    <2> SUFFICES ASSUME NEW d \in Cams, NEW p \in Objs
                 PROVE  Good(obj_info'[d][p], evidence'[d][p], confirmed'[d][p], d)
      BY DEF ObjectsGood, Good, Earns, Confirms, HotAfterGap
    <2>1. CASE d = c /\ p = o
      BY <2>1, <1>4, <1>8 DEF Fine
    <2>2. CASE d # c \/ p # o
      BY <2>2, <1>9 DEF IInv, ObjectsGood
    <2> QED
      BY <2>1, <2>2
  <1>13. IdleUnflagged'
    <2> SUFFICES ASSUME NEW d \in Cams, probe'[d] = "idle", NEW p \in Objs
                 PROVE  ~obj_info'[d][p].notification_flag
      BY DEF IdleUnflagged, Flagged
    <2> QED
      BY <1>8, <1>9, <1>10 DEF IInv, IdleUnflagged, Flagged
  <1>14. GapKept'
    <2> SUFFICES ASSUME OneWriter, ThermalCam \in Cams, NEW p \in Objs
                 PROVE  Reporting(p)' \/ Covered(p)'
      BY DEF GapKept
    <2>1. obj_info'[ThermalCam][p].temp_event_time_gap
            = obj_info[ThermalCam][p].temp_event_time_gap
      <3>1. CASE c = ThermalCam /\ p = o
        BY <3>1, <1>1, <1>4, <1>8
      <3>2. CASE c # ThermalCam \/ p # o
        BY <3>2, <1>9
      <3> QED
        BY <3>1, <3>2
    <2>2. Reporting(p) \/ Covered(p)
      BY DEF IInv, GapKept
    <2>3. CASE c = ThermalCam /\ m.class_id = "OVER_TEMP" /\ p = o
      BY <2>3, <1>8 DEF Reporting
    <2>4. CASE ~(c = ThermalCam /\ m.class_id = "OVER_TEMP" /\ p = o)
      <3>1. sinceHot'[p] = sinceHot[p]
        BY <2>4, <1>7 DEF IInv, TypeOK
      <3>2. Covered(p) => Covered(p)'
        BY <3>1, <2>1 DEF Covered
      <3>3. CASE c = ThermalCam
        BY <3>2, <3>3, <2>2, <1>7 DEF Reporting
      <3>4. CASE c # ThermalCam
        BY <3>2, <3>4, <2>2, <1>10 DEF Reporting
      <3> QED
        BY <3>3, <3>4
    <2> QED
      BY <2>3, <2>4
  <1>h. SlotHot'
    <2> SUFFICES ASSUME OneWriter, OptFlowApply, NEW d \in Cams, probe'[d] = "finish",
                        current'[d].class = "OVER_TEMP"
                 PROVE  g_event_class_id' # "FLIP"
      BY DEF SlotHot
    <2>1. d = c
      BY DEF OneWriter
    <2> QED
      BY <2>1, <1>7, <1>8
  <1>15. HotUncounted'
    <2> SUFFICES ASSUME NEW d \in Cams, probe'[d] = "finish",
                        current'[d].class = "OVER_TEMP"
                 PROVE  obj_info'[d][current'[d].obj].temp_event_time_gap = 0
      BY DEF HotUncounted
    <2>1. CASE d = c
      BY <2>1, <1>4, <1>8
    <2>2. CASE d # c
      BY <2>2, <1>9, <1>10 DEF IInv, HotUncounted, TypeOK
    <2> QED
      BY <2>1, <2>2
  <1>16. FinishUnflagged'
    <2> SUFFICES ASSUME NEW d \in Cams, probe'[d] = "finish"
                 PROVE  ~obj_info'[d][current'[d].obj].notification_flag
      BY DEF FinishUnflagged
    <2>1. CASE d = c
      BY <2>1, <1>4, <1>8
    <2>2. CASE d # c
      BY <2>2, <1>9, <1>10 DEF IInv, FinishUnflagged, TypeOK
    <2> QED
      BY <2>1, <2>2
  <1>17. SlotFresh'
    BY <1>7 DEF SlotFresh
  <1>t. TimerRoom'
    BY DEF IInv, TimerRoom, Publish, recording, senders
  <1> QED
    BY <1>11, <1>12, <1>13, <1>14, <1>15, <1>16, <1>17, <1>h, <1>t DEF IInv

(* A notification's end: only the gap and the optical flow change.          *)
LEMMA NotifiedGood ==
  ASSUME MonitorAssumption, NEW m, NEW e, NEW f, NEW c,
         Fine(m, e, f, c), ~m.notification_flag,
         NEW n \in Monitors,
         n.detected_frame_count = m.detected_frame_count,
         n.duration = m.duration,
         n.class_id = m.class_id,
         ~n.notification_flag,
         n.heat_count = m.heat_count
  PROVE  Fine(n, e, f, c)
  BY DEF Fine, Good, Earns, Confirms, HotAfterGap

LEMMA NotifiedFields ==
  ASSUME MonitorAssumption, NEW m \in Monitors, NEW raced \in BOOLEAN,
         raced => m.temp_event_time_gap > 0, NEW n, n = Notified(m, raced)
  PROVE  /\ n \in Monitors
         /\ n.detected_frame_count = m.detected_frame_count
         /\ n.duration = m.duration
         /\ n.class_id = m.class_id
         /\ n.notification_flag = m.notification_flag
         /\ n.heat_count = m.heat_count
         /\ n.temp_event_time_gap =
              IF raced THEN m.temp_event_time_gap - 1 ELSE TempGap
  <1>1. PICK g : g = IF raced THEN m.temp_event_time_gap - 1 ELSE TempGap
    OBVIOUS
  <1>2. g \in 0 .. TempGap
    BY <1>1 DEF Monitors, MonitorAssumption
  <1>3. n = [m EXCEPT !.temp_event_time_gap = g]
    BY <1>1 DEF Notified
  <1> QED
    BY <1>1, <1>2, <1>3 DEF Monitors

LEMMA FinishStep ==
  ASSUME MonitorAssumption, EventAssumption, IInv, NEW c \in Cams, Finish(c)
  PROVE  IInv'
  <1>0. PICK o \in Objs : o = current[c].obj
    BY DEF IInv, TypeOK
  <1>1. PICK m, e, f : m = obj_info[c][o] /\ e = evidence[c][o] /\ f = confirmed[c][o]
    OBVIOUS
  <1>2. /\ Fine(m, e, f, c) /\ ~m.notification_flag
        /\ current[c].class = "OVER_TEMP" => m.temp_event_time_gap = 0
        /\ m \in Monitors
    BY <1>0, <1>1 DEF IInv, TypeOK, ObjectsGood, Fine, Finish, FinishUnflagged,
                      HotUncounted
  <1>3. PICK mon : mon = IF OptFlowApply /\ g_event_class_id = "FLIP"
                         THEN init_opt_flow(m, TRUE) ELSE m
    OBVIOUS
  <1>4. /\ mon \in Monitors
        /\ mon.detected_frame_count = m.detected_frame_count
        /\ mon.duration = m.duration
        /\ mon.class_id = m.class_id
        /\ mon.notification_flag = m.notification_flag
        /\ mon.heat_count = m.heat_count
        /\ mon.temp_event_time_gap = m.temp_event_time_gap
    BY <1>2, <1>3, FlowKeeps
  <1>5. /\ probe[c] = "finish"
        /\ probe' = [probe EXCEPT ![c] = IF Flagged(c) = {} THEN "idle" ELSE "trigger"]
        /\ UNCHANGED <<g_frame_count, g_cam_index, current, mains, g_event_class_id,
                       recording, senders, evidence, confirmed, fresh>>
    BY DEF Finish
  <1>6. PICK n \in Monitors :
          /\ obj_info' = [obj_info EXCEPT ![c] = [@ EXCEPT ![o] = n]]
          /\ n.detected_frame_count = m.detected_frame_count
          /\ n.duration = m.duration
          /\ n.class_id = m.class_id
          /\ n.notification_flag = m.notification_flag
          /\ n.heat_count = m.heat_count
          /\ sinceHot' \in [Objs -> 0 .. TempGap]
          /\ g_noti_cam_idx' \in AllCams
          /\ c # ThermalCam => sinceHot' = sinceHot
          /\ \A p \in Objs : p # o => sinceHot'[p] = sinceHot[p]
          /\ OneWriter /\ c = ThermalCam
               => n.temp_event_time_gap + sinceHot'[o] >= TempGap
    <2>0. ASSUME OneWriter, c = ThermalCam,
                 current[c].class # "OVER_TEMP"
          PROVE  m.temp_event_time_gap + sinceHot[o] >= TempGap
      <3>1. ~Reporting(o)
        BY <2>0 DEF Reporting
      <3>2. Covered(o)
        BY <2>0, <3>1 DEF IInv, GapKept
      <3> QED
        BY <3>2, <2>0, <1>1 DEF Covered
    <2>1. CASE Vetoed(m)
      <3>1. obj_info' = [obj_info EXCEPT ![c][o] = mon]
            /\ g_noti_cam_idx' = g_noti_cam_idx /\ sinceHot' = sinceHot
        BY <2>1, <1>0, <1>1, <1>3 DEF Finish
      <3>2. obj_info' = [obj_info EXCEPT ![c] = [@ EXCEPT ![o] = mon]]
        BY <3>1
      <3>3. ASSUME OneWriter, c = ThermalCam
            PROVE  mon.temp_event_time_gap + sinceHot[o] >= TempGap
        <4>1. current[c].class # "OVER_TEMP"
          BY <2>1, <3>3, <1>5 DEF Vetoed, IInv, SlotHot
        <4> QED
          BY <4>1, <3>3, <2>0, <1>4
      <3> QED
        BY <3>1, <3>2, <3>3, <1>4 DEF IInv, TypeOK
    <2>2. CASE ~Vetoed(m)
      <3>1. PICK raced \in BOOLEAN :
              /\ raced => m.temp_event_time_gap > 0
              /\ obj_info' = [obj_info EXCEPT ![c][o] = Notified(mon, raced)]
              /\ sinceHot' = IF raced /\ c = ThermalCam
                             THEN [sinceHot EXCEPT ![o] = Upto(@, TempGap)]
                             ELSE sinceHot
        BY <2>2, <1>0, <1>1, <1>3 DEF Finish
      <3>2. g_noti_cam_idx' \in AllCams
        BY <2>2, <1>0, <1>1 DEF Finish, IInv, TypeOK
      <3>3. PICK n : n = Notified(mon, raced)
        OBVIOUS
      <3>4. /\ n \in Monitors
            /\ n.detected_frame_count = m.detected_frame_count
            /\ n.duration = m.duration
            /\ n.class_id = m.class_id
            /\ n.notification_flag = m.notification_flag
            /\ n.heat_count = m.heat_count
            /\ n.temp_event_time_gap =
                 IF raced THEN m.temp_event_time_gap - 1 ELSE TempGap
        BY <1>2, <1>4, <3>1, <3>3, NotifiedFields
      <3>5. obj_info' = [obj_info EXCEPT ![c] = [@ EXCEPT ![o] = n]]
        BY <3>1, <3>3
      <3>6. sinceHot \in [Objs -> 0 .. TempGap] /\ TempGap \in Nat
        BY DEF IInv, TypeOK, MonitorAssumption
      <3>7. sinceHot' \in [Objs -> 0 .. TempGap]
        BY <3>1, <3>6 DEF Upto
      <3>8. \A p \in Objs : p # o => sinceHot'[p] = sinceHot[p]
        BY <3>1, <3>6
      <3>9. ASSUME OneWriter, c = ThermalCam
            PROVE  n.temp_event_time_gap + sinceHot'[o] >= TempGap
        <4>2. CASE ~raced
          <5>1. n.temp_event_time_gap = TempGap
            BY <4>2, <3>4
          <5>2. sinceHot'[o] \in 0 .. TempGap
            BY <3>7
          <5> QED
            BY <5>1, <5>2, <3>6
        <4>3. CASE raced
          <5>1. n.temp_event_time_gap = m.temp_event_time_gap - 1
            BY <4>3, <3>4
          <5>2. sinceHot'[o] = Upto(sinceHot[o], TempGap)
            BY <4>3, <3>1, <3>6, <3>9
          <5>3. sinceHot[o] \in 0 .. TempGap
            BY <3>6
          <5>4. m.temp_event_time_gap > 0 /\ m.temp_event_time_gap \in Nat
            BY <4>3, <3>1, <1>2 DEF Monitors
          <5>5. current[c].class # "OVER_TEMP"
            BY <5>4, <1>2
          <5>6. m.temp_event_time_gap + sinceHot[o] >= TempGap
            BY <5>5, <3>9, <2>0
          <5> QED
            BY <5>1, <5>2, <5>3, <5>4, <5>6, <3>6 DEF Upto
        <4> QED
          BY <4>2, <4>3
      <3>10. c # ThermalCam => sinceHot' = sinceHot
        BY <3>1
      <3> QED
        BY <3>2, <3>4, <3>5, <3>7, <3>8, <3>9, <3>10
    <2> QED
      BY <2>1, <2>2
  <1>7. Fine(n, e, f, c)
    BY <1>2, <1>6, NotifiedGood
  <1>8. obj_info'[c][o] = n
    BY <1>6 DEF IInv, TypeOK
  <1>9. ASSUME NEW d \in Cams, NEW p \in Objs, d # c \/ p # o
        PROVE  obj_info'[d][p] = obj_info[d][p]
    BY <1>6, <1>9 DEF IInv, TypeOK
  <1>10. ASSUME NEW d \in Cams, d # c
         PROVE  probe'[d] = probe[d]
    BY <1>5, <1>10 DEF IInv, TypeOK
  <1>11. probe'[c] # "finish" /\ (probe'[c] = "idle" => Flagged(c) = {})
    BY <1>5 DEF IInv, TypeOK
  <1>12. TypeOK'
    <2>1. obj_info' \in [Cams -> [Objs -> Monitors]]
      BY <1>6 DEF IInv, TypeOK
    <2>2. probe' \in [Cams -> {"idle", "trigger", "finish"}]
      BY <1>5 DEF IInv, TypeOK
    <2> QED
      BY <1>5, <1>6, <2>1, <2>2 DEF IInv, TypeOK, mains, recording, senders
  <1>13. ObjectsGood'
    <2> SUFFICES ASSUME NEW d \in Cams, NEW p \in Objs
                 PROVE  Good(obj_info'[d][p], evidence'[d][p], confirmed'[d][p], d)
      BY DEF ObjectsGood, Good, Earns, Confirms, HotAfterGap
    <2>1. CASE d = c /\ p = o
      BY <2>1, <1>1, <1>5, <1>7, <1>8 DEF Fine
    <2>2. CASE d # c \/ p # o
      BY <2>2, <1>5, <1>9 DEF IInv, ObjectsGood
    <2> QED
      BY <2>1, <2>2
  <1>14. IdleUnflagged'
    <2> SUFFICES ASSUME NEW d \in Cams, probe'[d] = "idle", NEW p \in Objs
                 PROVE  ~obj_info'[d][p].notification_flag
      BY DEF IdleUnflagged, Flagged
    <2>1. ~obj_info[d][p].notification_flag
      BY <1>10, <1>11 DEF IInv, IdleUnflagged, Flagged
    <2>2. CASE d = c /\ p = o
      BY <2>2, <1>2, <1>6, <1>8
    <2>3. CASE d # c \/ p # o
      BY <2>1, <2>3, <1>9
    <2> QED
      BY <2>2, <2>3
  <1>15. GapKept'
    <2> SUFFICES ASSUME OneWriter, ThermalCam \in Cams, NEW p \in Objs
                 PROVE  Reporting(p)' \/ Covered(p)'
      BY DEF GapKept
    <2>1. CASE c = ThermalCam /\ p = o
      BY <2>1, <1>6, <1>8 DEF Covered
    <2>2. CASE c # ThermalCam \/ p # o
      <3>1. sinceHot'[p] = sinceHot[p]
        BY <2>2, <1>6
      <3>2. obj_info'[ThermalCam][p] = obj_info[ThermalCam][p]
        BY <2>2, <1>9
      <3>3. Reporting(p) \/ Covered(p)
        BY DEF IInv, GapKept
      <3>4. Covered(p) => Covered(p)'
        BY <3>1, <3>2 DEF Covered
      <3>5. CASE c = ThermalCam
        <4>1. ~Reporting(p)
          BY <3>5, <2>2, <1>0 DEF Reporting
        <4> QED
          BY <4>1, <3>3, <3>4
      <3>6. CASE c # ThermalCam
        BY <3>3, <3>4, <3>6, <1>5, <1>10 DEF Reporting
      <3> QED
        BY <3>5, <3>6
    <2> QED
      BY <2>1, <2>2
  <1>h. SlotHot'
    BY <1>5, <1>10, <1>11 DEF IInv, SlotHot
  <1>16. HotUncounted'
    <2> SUFFICES ASSUME NEW d \in Cams, probe'[d] = "finish",
                        current'[d].class = "OVER_TEMP"
                 PROVE  obj_info'[d][current'[d].obj].temp_event_time_gap = 0
      BY DEF HotUncounted
    <2> QED
      BY <1>5, <1>9, <1>10, <1>11 DEF IInv, HotUncounted, TypeOK
  <1>17. FinishUnflagged'
    <2> SUFFICES ASSUME NEW d \in Cams, probe'[d] = "finish"
                 PROVE  ~obj_info'[d][current'[d].obj].notification_flag
      BY DEF FinishUnflagged
    <2> QED
      BY <1>5, <1>9, <1>10, <1>11 DEF IInv, FinishUnflagged, TypeOK
  <1>18. SlotFresh'
    BY <1>5 DEF IInv, SlotFresh, senders
  <1>t. TimerRoom'
    BY DEF IInv, TimerRoom, Finish, recording, senders
  <1> QED
    BY <1>12, <1>13, <1>14, <1>15, <1>16, <1>17, <1>18, <1>h, <1>t DEF IInv

(* The analysis is paused: every object is forgotten.                       *)
LEMMA ForgetStep ==
  ASSUME MonitorAssumption, EventAssumption, IInv, ForgetObjects,
         UNCHANGED <<g_frame_count, g_cam_index, probe, current, slot, recording,
                     senders, confirmed, sinceHot, fresh>>,
         UNCHANGED <<analysis_status, g_source_cam_idx>>, switching' \in BOOLEAN
  PROVE  IInv'
  <1>1. /\ obj_info' = [c \in Cams |-> [o \in Objs |-> Forgotten(obj_info[c][o])]]
        /\ evidence' = [c \in Cams |-> [o \in Objs |-> 0]]
    BY DEF ForgetObjects
  <1>2. /\ probe' = probe /\ current' = current /\ confirmed' = confirmed
        /\ sinceHot' = sinceHot /\ fresh' = fresh /\ sender' = sender
        /\ g_event_class_id' = g_event_class_id
    BY DEF slot, senders
  <1>3. ASSUME NEW c \in Cams, NEW o \in Objs
        PROVE  /\ obj_info'[c][o] \in Monitors
               /\ obj_info'[c][o].notification_flag = obj_info[c][o].notification_flag
               /\ obj_info'[c][o].temp_event_time_gap = obj_info[c][o].temp_event_time_gap
               /\ Good(obj_info'[c][o], 0, confirmed[c][o], c)
    <2>1. PICK m \in Monitors, f \in BOOLEAN : m = obj_info[c][o] /\ f = confirmed[c][o]
      BY DEF IInv, TypeOK
    <2>2. /\ Forgotten(m) \in Monitors
          /\ Forgotten(m).notification_flag = m.notification_flag
          /\ Forgotten(m).temp_event_time_gap = m.temp_event_time_gap
          /\ Good(Forgotten(m), 0, f, c)
      BY ForgottenGood
    <2> QED
      BY <1>1, <2>1, <2>2
  <1>4. TypeOK'
    <2>1. obj_info' \in [Cams -> [Objs -> Monitors]]
      BY <1>1, <1>3
    <2>2. 0 \in 0 .. MaxEvidence
      BY DEF EventAssumption
    <2>3. evidence' \in [Cams -> [Objs -> 0 .. MaxEvidence]]
      BY <1>1, <2>2
    <2> QED
      BY <2>1, <2>3 DEF IInv, TypeOK, slot, recording, senders
  <1>5. ObjectsGood'
    <2> SUFFICES ASSUME NEW c \in Cams, NEW o \in Objs
                 PROVE  Good(obj_info'[c][o], evidence'[c][o], confirmed'[c][o], c)
      BY DEF ObjectsGood, Good, Earns, Confirms, HotAfterGap
    <2>1. evidence'[c][o] = 0
      BY <1>1
    <2> QED
      BY <1>2, <1>3, <2>1
  <1>6. IdleUnflagged'
    BY <1>2, <1>3 DEF IInv, IdleUnflagged, Flagged
  <1>7. GapKept'
    BY <1>2, <1>3 DEF IInv, GapKept, Reporting, Covered
  <1>h. SlotHot'
    BY <1>2 DEF IInv, SlotHot
  <1>8. HotUncounted'
    <2> SUFFICES ASSUME NEW d \in Cams, probe[d] = "finish",
                        current[d].class = "OVER_TEMP"
                 PROVE  obj_info'[d][current[d].obj].temp_event_time_gap = 0
      BY <1>2 DEF HotUncounted
    <2>1. current[d].obj \in Objs
      BY DEF IInv, TypeOK
    <2> QED
      BY <1>3, <2>1 DEF IInv, HotUncounted
  <1>9. FinishUnflagged'
    <2> SUFFICES ASSUME NEW d \in Cams, probe[d] = "finish"
                 PROVE  ~obj_info'[d][current[d].obj].notification_flag
      BY <1>2 DEF FinishUnflagged
    <2>1. current[d].obj \in Objs
      BY DEF IInv, TypeOK
    <2> QED
      BY <1>3, <2>1 DEF IInv, FinishUnflagged
  <1>10. SlotFresh'
    BY <1>2 DEF IInv, SlotFresh
  <1>t. TimerRoom'
    BY DEF IInv, TimerRoom, recording, senders
  <1> QED
    BY <1>4, <1>5, <1>6, <1>7, <1>8, <1>9, <1>10, <1>h, <1>t DEF IInv

LEMMA DecGood ==
  ASSUME MonitorAssumption, NEW m, NEW e, NEW f, NEW c, Fine(m, e, f, c),
         NEW n, n = Dec(m)
  PROVE  /\ Fine(n, e, f, c)
         /\ n.notification_flag = m.notification_flag
         /\ m.temp_event_time_gap \in Nat
         /\ n.temp_event_time_gap =
              IF m.temp_event_time_gap > 0 THEN m.temp_event_time_gap - 1 ELSE 0
  <1>0. /\ m \in Monitors /\ e \in 0 .. MaxEvidence /\ f \in BOOLEAN
        /\ Good(m, e, f, c)
    BY DEF Fine
  <1>1. PICK g : g = IF m.temp_event_time_gap > 0 THEN m.temp_event_time_gap - 1 ELSE 0
    OBVIOUS
  <1>2. g \in 0 .. TempGap /\ m.temp_event_time_gap \in 0 .. TempGap
    BY <1>0, <1>1 DEF Monitors, MonitorAssumption
  <1>3. n = [m EXCEPT !.temp_event_time_gap = g]
    BY <1>1, <1>2 DEF Dec
  <1>4. /\ n \in Monitors
        /\ n.detected_frame_count = m.detected_frame_count
        /\ n.duration = m.duration
        /\ n.class_id = m.class_id
        /\ n.notification_flag = m.notification_flag
        /\ n.heat_count = m.heat_count
        /\ n.temp_event_time_gap = g
    BY <1>0, <1>2, <1>3 DEF Monitors
  <1>5. Good(n, e, f, c)
    BY <1>0, <1>1, <1>2, <1>4 DEF Good, Earns, Confirms, HotAfterGap
  <1> QED
    BY <1>0, <1>1, <1>2, <1>4, <1>5, MonitorAssumption DEF Fine, MonitorAssumption

LEMMA GapTicks ==
  ASSUME NEW G \in Nat, NEW g \in Nat, NEW s \in 0 .. G, g + s >= G
  PROVE  (IF g > 0 THEN g - 1 ELSE 0) + Upto(s, G) >= G
  BY DEF Upto

LEMMA TickStep ==
  ASSUME MonitorAssumption, EventAssumption, IInv, NEW o \in Objs, Tick(o)
  PROVE  IInv'
  <1>0. /\ ThermalCam \in Cams
        /\ obj_info' = [obj_info EXCEPT ![ThermalCam][o] = Dec(@)]
        /\ sinceHot' = [sinceHot EXCEPT ![o] = Upto(@, TempGap)]
        /\ UNCHANGED <<g_frame_count, g_cam_index, probe, current, mains, slot,
                       recording, senders, evidence, confirmed, fresh>>
    BY DEF Tick
  <1>1. PICK c \in Cams : c = ThermalCam
    BY <1>0
  <1>2. PICK m, e, f : m = obj_info[c][o] /\ e = evidence[c][o] /\ f = confirmed[c][o]
    OBVIOUS
  <1>3. PICK n : n = Dec(m)
    OBVIOUS
  <1>4. Fine(m, e, f, c)
    BY <1>2 DEF IInv, TypeOK, ObjectsGood, Fine
  <1>5. /\ Fine(n, e, f, c)
        /\ n.notification_flag = m.notification_flag
        /\ m.temp_event_time_gap \in Nat
        /\ n.temp_event_time_gap =
             IF m.temp_event_time_gap > 0 THEN m.temp_event_time_gap - 1 ELSE 0
    BY <1>3, <1>4, DecGood
  <1>6. n \in Monitors
    BY <1>5 DEF Fine
  <1>7. obj_info' = [obj_info EXCEPT ![c] = [@ EXCEPT ![o] = n]]
    BY <1>0, <1>1, <1>2, <1>3 DEF IInv, TypeOK
  <1>8. obj_info'[c][o] = n
    BY <1>7 DEF IInv, TypeOK
  <1>9. ASSUME NEW d \in Cams, NEW p \in Objs, d # c \/ p # o
        PROVE  obj_info'[d][p] = obj_info[d][p]
    BY <1>7, <1>9 DEF IInv, TypeOK
  <1>10. /\ probe' = probe /\ current' = current /\ evidence' = evidence
         /\ confirmed' = confirmed /\ fresh' = fresh /\ sender' = sender
         /\ g_event_class_id' = g_event_class_id
    BY <1>0 DEF slot, senders
  <1>11. sinceHot \in [Objs -> 0 .. TempGap] /\ TempGap \in Nat
    BY DEF IInv, TypeOK, MonitorAssumption
  <1>12. ASSUME NEW d \in Cams, NEW p \in Objs
         PROVE  /\ obj_info'[d][p].notification_flag = obj_info[d][p].notification_flag
                /\ obj_info[d][p].temp_event_time_gap = 0
                     => obj_info'[d][p].temp_event_time_gap = 0
    <2>1. CASE d = c /\ p = o
      BY <2>1, <1>2, <1>5, <1>8
    <2>2. CASE d # c \/ p # o
      BY <2>2, <1>9
    <2> QED
      BY <2>1, <2>2
  <1>13. TypeOK'
    <2>1. obj_info' \in [Cams -> [Objs -> Monitors]]
      BY <1>6, <1>7 DEF IInv, TypeOK
    <2>2. sinceHot' \in [Objs -> 0 .. TempGap]
      BY <1>0, <1>11 DEF Upto
    <2> QED
      BY <1>0, <2>1, <2>2 DEF IInv, TypeOK, mains, slot, recording, senders
  <1>14. ObjectsGood'
    <2> SUFFICES ASSUME NEW d \in Cams, NEW p \in Objs
                 PROVE  Good(obj_info'[d][p], evidence'[d][p], confirmed'[d][p], d)
      BY DEF ObjectsGood, Good, Earns, Confirms, HotAfterGap
    <2>1. CASE d = c /\ p = o
      BY <2>1, <1>2, <1>5, <1>8, <1>10 DEF Fine
    <2>2. CASE d # c \/ p # o
      BY <2>2, <1>9, <1>10 DEF IInv, ObjectsGood
    <2> QED
      BY <2>1, <2>2
  <1>15. IdleUnflagged'
    BY <1>10, <1>12 DEF IInv, IdleUnflagged, Flagged
  <1>16. GapKept'
    <2>0. SUFFICES ASSUME OneWriter, NEW p \in Objs, ~Reporting(p)
                   PROVE  Covered(p)'
      BY <1>10 DEF GapKept, Reporting
    <2> SUFFICES obj_info'[ThermalCam][p].temp_event_time_gap + sinceHot'[p] >= TempGap
      BY DEF Covered
    <2>1. obj_info[c][p].temp_event_time_gap + sinceHot[p] >= TempGap
      BY <1>1, <2>0 DEF IInv, GapKept, Covered
    <2>2. CASE p = o
      <3>1. PICK s \in 0 .. TempGap, g \in Nat :
              s = sinceHot[o] /\ g = m.temp_event_time_gap
        BY <1>5, <1>11
      <3>2. g + s >= TempGap
        BY <3>1, <2>1, <2>2, <1>2
      <3>3. sinceHot'[o] = Upto(s, TempGap)
        BY <3>1, <1>0, <1>11
      <3>4. (IF g > 0 THEN g - 1 ELSE 0) + Upto(s, TempGap) >= TempGap
        BY <3>2, <1>11, GapTicks
      <3> QED
        BY <2>2, <3>1, <3>3, <3>4, <1>1, <1>5, <1>8
    <2>3. CASE p # o
      <3>1. sinceHot'[p] = sinceHot[p]
        BY <2>3, <1>0, <1>11
      <3> QED
        BY <2>1, <2>3, <3>1, <1>1, <1>9
    <2> QED
      BY <2>2, <2>3
  <1>h. SlotHot'
    BY <1>10 DEF IInv, SlotHot
  <1>17. HotUncounted'
    <2> SUFFICES ASSUME NEW d \in Cams, probe[d] = "finish",
                        current[d].class = "OVER_TEMP"
                 PROVE  obj_info'[d][current[d].obj].temp_event_time_gap = 0
      BY <1>10 DEF HotUncounted
    <2>1. current[d].obj \in Objs
      BY DEF IInv, TypeOK
    <2> QED
      BY <1>12, <2>1 DEF IInv, HotUncounted
  <1>18. FinishUnflagged'
    <2> SUFFICES ASSUME NEW d \in Cams, probe[d] = "finish"
                 PROVE  ~obj_info'[d][current[d].obj].notification_flag
      BY <1>10 DEF FinishUnflagged
    <2>1. current[d].obj \in Objs
      BY DEF IInv, TypeOK
    <2> QED
      BY <1>12, <2>1 DEF IInv, FinishUnflagged
  <1>19. SlotFresh'
    BY <1>10 DEF IInv, SlotFresh
  <1>t. TimerRoom'
    BY DEF IInv, TimerRoom, Tick, recording, senders
  <1> QED
    BY <1>13, <1>14, <1>15, <1>16, <1>17, <1>18, <1>19, <1>h, <1>t DEF IInv

(* What the parts about the objects need: nothing they speak of changes.    *)
LEMMA QuietStep ==
  ASSUME IInv,
         UNCHANGED <<obj_info, probe, current, evidence, confirmed, sinceHot>>,
         g_event_class_id' \in {g_event_class_id, "NORMAL"},
         TypeOK', SlotFresh', TimerRoom'
  PROVE  IInv'
  <1>1. ObjectsGood'
    BY DEF IInv, ObjectsGood, Good, Earns, Confirms, HotAfterGap
  <1>2. IdleUnflagged' /\ GapKept' /\ HotUncounted' /\ FinishUnflagged'
    BY DEF IInv, IdleUnflagged, Flagged, GapKept, Reporting, Covered, HotUncounted,
           FinishUnflagged
  <1>3. SlotHot'
    BY DEF IInv, SlotHot
  <1> QED
    BY <1>1, <1>2, <1>3 DEF IInv

(* The sender changes the slot and its own state.                           *)
LEMMA SenderStep ==
  ASSUME MonitorAssumption, EventAssumption, IInv, SenderNext
  PROVE  IInv'
  <1>1. UNCHANGED <<obj_info, probe, current, evidence, confirmed, sinceHot>>
    BY DEF SenderNext, SeeEvent, TakeEvent, ClearSlot, ReadCamera, CompareSource,
           MarkRecording, AddTimer, AskForClip, probes, history
  <1>s. g_event_class_id' \in {g_event_class_id, "NORMAL"}
    BY DEF SenderNext, SeeEvent, TakeEvent, ClearSlot, ReadCamera, CompareSource,
           MarkRecording, AddTimer, AskForClip, slot
  <1>2. TypeOK
    BY DEF IInv
  <1>3. TypeOK' /\ SlotFresh' /\ TimerRoom'
    <2>1. CASE SeeEvent
      BY <1>2, <2>1 DEF IInv, TypeOK, SlotFresh, TimerRoom, SeeEvent, probes, mains, slot,
                        recording, history
    <2>2. CASE TakeEvent
      BY <1>2, <2>2 DEF IInv, TypeOK, SlotFresh, TimerRoom, TakeEvent, probes, mains, slot,
                        recording
    <2>3. CASE ClearSlot
      BY <1>2, <2>3 DEF IInv, TypeOK, SlotFresh, TimerRoom, ClearSlot, NextRound, probes, mains,
                        recording, history, Classes, AllCams
    <2>4. CASE ReadCamera
      BY <1>2, <2>4 DEF IInv, TypeOK, SlotFresh, TimerRoom, ReadCamera, probes, mains, slot,
                        recording, history
    <2>5. CASE CompareSource
      BY <1>2, <2>5 DEF IInv, TypeOK, SlotFresh, TimerRoom, CompareSource, NextRound, probes,
                        mains, slot, recording, history, Classes, AllCams
    <2>6. CASE MarkRecording
      BY <1>2, <2>6 DEF IInv, TypeOK, SlotFresh, TimerRoom, MarkRecording, probes, mains, slot,
                        history
    <2>7. CASE AddTimer
      <3>1. timers' \in 0 .. MaxTimers
        BY <1>2, <2>7 DEF IInv, TypeOK, TimerRoom, AddTimer, EventAssumption
      <3> QED
        BY <1>2, <2>7, <3>1 DEF IInv, TypeOK, SlotFresh, TimerRoom, AddTimer, probes, mains, slot,
                        history
    <2>8. CASE AskForClip
      BY <1>2, <2>8 DEF IInv, TypeOK, SlotFresh, TimerRoom, AskForClip, NextRound, probes, mains,
                        slot, recording, history, Classes, AllCams
    <2> QED
      BY <2>1, <2>2, <2>3, <2>4, <2>5, <2>6, <2>7, <2>8 DEF SenderNext
  <1> QED
    BY <1>1, <1>s, <1>3, QuietStep

(* The steps of the main thread that leave the objects alone.               *)
LEMMA MainStep ==
  ASSUME MonitorAssumption, EventAssumption, IInv,
         \/ TimerFires
         \/ \E c \in AllCams : SwitchSource(c)
         \/ SetStatus
  PROVE  IInv'
  <1>1. UNCHANGED <<obj_info, probe, current, evidence, confirmed, sinceHot>>
    BY DEF TimerFires, SwitchSource, SetStatus, probes, history
  <1>s. g_event_class_id' \in {g_event_class_id, "NORMAL"}
    BY DEF TimerFires, SwitchSource, SetStatus, slot
  <1>2. TypeOK
    BY DEF IInv
  <1>3. TypeOK' /\ SlotFresh' /\ TimerRoom'
    <2>1. CASE TimerFires
      <3>1. timers' = timers - 1 /\ timers' \in 0 .. MaxTimers
            /\ MaxTimers \in Nat /\ timers \in 0 .. MaxTimers
        BY <1>2, <2>1 DEF TypeOK, TimerFires, EventAssumption
      <3>2. TypeOK' /\ SlotFresh'
        BY <1>2, <2>1, <3>1 DEF IInv, TypeOK, SlotFresh, TimerFires, probes, mains,
                                slot, senders, history
      <3>3. TimerRoom'
        BY <2>1, <3>1 DEF IInv, TimerRoom, TimerFires, senders
      <3> QED
        BY <3>2, <3>3
    <2>2. CASE \E c \in AllCams : SwitchSource(c)
      BY <1>2, <2>2 DEF IInv, TypeOK, SlotFresh, TimerRoom, SwitchSource, probes, slot,
                        recording, senders, history
    <2>3. CASE SetStatus
      <3>1. g_frame_count' \in [Cams -> 0 .. PerSec - 1]
        BY <2>3 DEF SetStatus, MonitorAssumption
      <3>2. analysis_status' \in BOOLEAN /\ switching' \in BOOLEAN
        BY <2>3 DEF SetStatus
      <3> QED
        BY <1>2, <2>3, <3>1, <3>2 DEF IInv, TypeOK, SlotFresh, TimerRoom, SetStatus, slot, recording,
                                senders, history
    <2> QED
      BY <2>1, <2>2, <2>3
  <1> QED
    BY <1>1, <1>s, <1>3, QuietStep

LEMMA InitInv ==
  ASSUME MonitorAssumption, EventAssumption, Init
  PROVE  IInv
  <1>1. NewMonitor \in Monitors
    BY DEF NewMonitor, Monitors, Classes, MonitorAssumption
  <1>2. 0 \in Objs /\ 0 \in 0 .. MaxEvidence /\ 0 \in 0 .. PerSec - 1
        /\ 0 \in 0 .. MaxTimers /\ TempGap \in 0 .. TempGap
        /\ "NORMAL" \in Classes /\ RgbCam \in AllCams
    BY DEF Objs, Classes, AllCams, EventAssumption, MonitorAssumption
  <1>3. TypeOK
    BY <1>1, <1>2 DEF Init, TypeOK
  <1>4. ObjectsGood
    <2>1. 0 * (PerSec - 1) + 0 = 0
      BY DEF MonitorAssumption
    <2>2. ASSUME NEW c \in Cams
          PROVE  Good(NewMonitor, 0, FALSE, c)
      BY <2>1 DEF NewMonitor, Good, Earns, Confirms, HotAfterGap
    <2>3. ASSUME NEW c \in Cams, NEW o \in Objs
          PROVE  /\ obj_info[c][o] = NewMonitor /\ evidence[c][o] = 0
                 /\ confirmed[c][o] = FALSE
      BY DEF Init
    <2> QED
      BY <2>2, <2>3 DEF ObjectsGood
  <1>5. /\ IdleUnflagged /\ HotUncounted /\ FinishUnflagged /\ SlotFresh /\ TimerRoom
        /\ SlotHot
    BY DEF Init, IdleUnflagged, Flagged, SlotHot, HotUncounted, FinishUnflagged, SlotFresh, TimerRoom,
           NewMonitor
  <1>6. GapKept
    BY DEF Init, GapKept, Covered, NewMonitor, MonitorAssumption
  <1> QED
    BY <1>3, <1>4, <1>5, <1>6 DEF IInv

LEMMA NextInv ==
  ASSUME MonitorAssumption, EventAssumption, IInv, [Next]_vars
  PROVE  IInv'
  <1>1. ASSUME NEW c \in Cams, Frame(c) PROVE IInv'
    BY <1>1, FrameStep
  <1>2. ASSUME NEW c \in Cams, Second(c) PROVE IInv'
    BY <1>2, SecondStep
  <1>3. ASSUME NEW c \in Cams, NEW o \in Objs, Publish(c, o) PROVE IInv'
    BY <1>3, PublishStep
  <1>4. ASSUME NEW c \in Cams, Finish(c) PROVE IInv'
    BY <1>4, FinishStep
  <1>5. CASE SenderNext
    BY <1>5, SenderStep
  <1>6. CASE TimerFires \/ (\E c \in AllCams : SwitchSource(c)) \/ SetStatus
    BY <1>6, MainStep
  <1>7. CASE TourPausesAnalysis
    <2>1. switching' \in BOOLEAN
      BY <1>7 DEF IInv, TypeOK, TourPausesAnalysis, mains
    <2> QED
      BY <1>7, <2>1, ForgetStep DEF TourPausesAnalysis, mains
  <1>8. CASE AnalysisOff
    BY <1>8, ForgetStep DEF AnalysisOff
  <1>9. ASSUME NEW o \in Objs, Tick(o) PROVE IInv'
    BY <1>9, TickStep
  <1>10. CASE UNCHANGED vars
    <2>1. TypeOK' /\ SlotFresh' /\ TimerRoom'
      BY <1>10 DEF IInv, TypeOK, SlotFresh, TimerRoom, vars
    <2>2. UNCHANGED <<obj_info, probe, current, evidence, confirmed, sinceHot>>
      BY <1>10 DEF vars
    <2>3. g_event_class_id' = g_event_class_id
      BY <1>10 DEF vars
    <2> QED
      BY <2>1, <2>2, <2>3, QuietStep
  <1> QED
    BY <1>1, <1>2, <1>3, <1>4, <1>5, <1>6, <1>7, <1>8, <1>9, <1>10 DEF Next

LEMMA Invariance == Spec => []IInv
  <1>1. Init => IInv
    BY InitInv, MonitorAssumption, EventAssumption
  <1>2. IInv /\ [Next]_vars => IInv'
    BY NextInv, MonitorAssumption, EventAssumption
  <1> QED
    BY <1>1, <1>2, PTL DEF Spec
-----------------------------------------------------------------------------
(* The properties                                                           *)

(* The records kept about the objects, the slot and the sender's locals are *)
(* well formed for every number of objects and every setting.               *)
THEOREM TypeCorrect == Spec => []TypeOK
  <1>1. IInv => TypeOK
    BY DEF IInv
  <1> QED
    BY <1>1, Invariance, PTL

(* What is published is the class of a flagged object.                      *)
LEMMA PublishesFlagged ==
  ASSUME IInv, [Next]_vars, NEW c \in Cams, NEW o \in Objs, NEW k \in Classes,
         Publishes(c, o, k)
  PROVE  /\ obj_info[c][o].notification_flag
         /\ obj_info[c][o].class_id = k
  <1>1. probe[c] = "trigger" /\ probe'[c] = "finish"
        /\ current'[c] = [obj |-> o, class |-> k]
    BY DEF Publishes
  <1>2. PICK p \in Objs : Publish(c, p)
    <2>1. ASSUME NEW d \in Cams, Frame(d) \/ Second(d) \/ Finish(d)
          PROVE  FALSE
      <3>1. probe[d] # "trigger"
        BY <2>1 DEF Frame, Second, Finish, Arrives
      <3>2. \A x \in Cams : x # d => probe'[x] = probe[x]
        BY <2>1 DEF Frame, Second, Finish, IInv, TypeOK
      <3> QED
        BY <1>1, <3>1, <3>2
    <2>2. ASSUME NEW d \in Cams, NEW p \in Objs, Publish(d, p), d # c
          PROVE  FALSE
      <3>1. probe'[c] = probe[c]
        BY <2>2 DEF Publish, IInv, TypeOK
      <3> QED
        BY <1>1, <3>1
    <2>3. ~(probe' = probe)
      BY <1>1
    <2>4. ~SenderNext
      BY <2>3 DEF SenderNext, SeeEvent, TakeEvent, ClearSlot, ReadCamera,
                  CompareSource, MarkRecording, AddTimer, AskForClip, probes
    <2>5. /\ ~TimerFires /\ ~TourPausesAnalysis /\ ~AnalysisOff /\ ~SetStatus
          /\ ~\E x \in AllCams : SwitchSource(x)
          /\ ~\E p \in Objs : Tick(p)
          /\ ~UNCHANGED vars
      BY <2>3 DEF TimerFires, TourPausesAnalysis, AnalysisOff, SetStatus,
                  SwitchSource, Tick, vars, probes
    <2> QED
      BY <2>1, <2>2, <2>4, <2>5 DEF Next
  <1>3. current'[c] = [obj |-> p, class |-> obj_info[c][p].class_id]
    BY <1>2 DEF Publish, IInv, TypeOK
  <1>4. p = o /\ obj_info[c][p].class_id = k
    BY <1>1, <1>3
  <1> QED
    BY <1>2, <1>4 DEF Publish, IsNextFlagged, Flagged

(* AlarmEarned, for every number of objects and frames per second: an alarm *)
(* is published only for an object with that many alarm frames.             *)
THEOREM AlarmsEarned == Spec => AlarmEarned
  <1>1. ASSUME IInv, [Next]_vars
        PROVE  \A c \in Cams, o \in Objs, k \in Alarms :
                 Publishes(c, o, k) => evidence[c][o] >= Threshold[k] * (PerSec - 1)
    <2> SUFFICES ASSUME NEW c \in Cams, NEW o \in Objs, NEW k \in Alarms,
                        Publishes(c, o, k)
                 PROVE  evidence[c][o] >= Threshold[k] * (PerSec - 1)
      OBVIOUS
    <2>1. k \in Classes
      BY DEF Alarms, Classes
    <2>2. obj_info[c][o].notification_flag /\ obj_info[c][o].class_id = k
      BY <1>1, <2>1, PublishesFlagged
    <2>3. Good(obj_info[c][o], evidence[c][o], confirmed[c][o], c)
      BY <1>1 DEF IInv, ObjectsGood
    <2> QED
      BY <2>2, <2>3 DEF Good, Earns
  <1> QED
    BY <1>1, Invariance, PTL DEF Spec, AlarmEarned

(* HeatConfirmed: with ResNet on, heat is published only when ResNet saw it. *)
THEOREM HeatIsConfirmed == Spec => HeatConfirmed
  <1>1. ASSUME IInv, [Next]_vars
        PROVE  \A c \in Cams, o \in Objs :
                 ResnetApply /\ Publishes(c, o, "HEAT") => confirmed[c][o]
    <2> SUFFICES ASSUME NEW c \in Cams, NEW o \in Objs, ResnetApply,
                        Publishes(c, o, "HEAT")
                 PROVE  confirmed[c][o]
      OBVIOUS
    <2>1. "HEAT" \in Classes
      BY DEF Classes
    <2>2. obj_info[c][o].notification_flag /\ obj_info[c][o].class_id = "HEAT"
      BY <1>1, <2>1, PublishesFlagged
    <2>3. Good(obj_info[c][o], evidence[c][o], confirmed[c][o], c)
      BY <1>1 DEF IInv, ObjectsGood
    <2> QED
      BY <2>2, <2>3 DEF Good, Confirms
  <1> QED
    BY <1>1, Invariance, PTL DEF Spec, HeatConfirmed

(* OverTempSpaced: where one camera is analysed, or the optical flow is off, *)
(* an object is reported too hot again only after TempGap counted seconds,  *)
(* whatever other notifications do to the gap.                              *)
THEOREM OverTempIsSpaced ==
  ASSUME OneWriter
  PROVE  Spec => OverTempSpaced
  <1>1. ASSUME IInv, [Next]_vars
        PROVE  \A c \in Cams, o \in Objs :
                 Publishes(c, o, "OVER_TEMP") => sinceHot[o] = TempGap
    <2> SUFFICES ASSUME NEW c \in Cams, NEW o \in Objs, Publishes(c, o, "OVER_TEMP")
                 PROVE  sinceHot[o] = TempGap
      OBVIOUS
    <2>1. "OVER_TEMP" \in Classes
      BY DEF Classes
    <2>2. obj_info[c][o].notification_flag /\ obj_info[c][o].class_id = "OVER_TEMP"
      BY <1>1, <2>1, PublishesFlagged
    <2>3. Good(obj_info[c][o], evidence[c][o], confirmed[c][o], c)
      BY <1>1 DEF IInv, ObjectsGood
    <2>4. c = ThermalCam /\ obj_info[c][o].temp_event_time_gap = 0
      BY <2>2, <2>3 DEF Good, HotAfterGap
    <2>5. ~Reporting(o)
      BY <2>4 DEF Reporting, Publishes
    <2>6. 0 + sinceHot[o] >= TempGap
      BY <1>1, <2>4, <2>5 DEF IInv, GapKept, Covered
    <2>7. sinceHot[o] \in 0 .. TempGap /\ TempGap \in Nat
      BY <1>1, MonitorAssumption DEF IInv, TypeOK, MonitorAssumption
    <2> QED
      BY <2>6, <2>7
  <1> QED
    BY <1>1, Invariance, PTL DEF Spec, OverTempSpaced

(* EventOnce: the sender takes an event only from a slot written since it   *)
(* last read it.                                                            *)
THEOREM EventsTakenOnce == Spec => EventOnce
  <1>1. ASSUME IInv, [Next]_vars
        PROVE  sender = "take" /\ sender' = "clear" /\ class_id' # "NORMAL" => fresh
    <2> SUFFICES ASSUME sender = "take", sender' = "clear", class_id' # "NORMAL"
                 PROVE  fresh
      OBVIOUS
    <2>1. TakeEvent
      <3>1. ~(sender' = sender)
        OBVIOUS
      <3>2. \A c \in Cams : /\ ~Frame(c) /\ ~Second(c) /\ ~Finish(c)
                            /\ \A o \in Objs : ~Publish(c, o)
        BY <3>1 DEF Frame, Second, Finish, Publish, senders
      <3>3. /\ ~TimerFires /\ ~TourPausesAnalysis /\ ~AnalysisOff /\ ~SetStatus
            /\ ~\E x \in AllCams : SwitchSource(x)
            /\ ~\E p \in Objs : Tick(p)
            /\ ~UNCHANGED vars
        BY <3>1 DEF TimerFires, TourPausesAnalysis, AnalysisOff, SetStatus,
                    SwitchSource, Tick, vars, senders
      <3>4. SenderNext
        BY <1>1, <3>2, <3>3 DEF Next
      <3> QED
        BY <3>4 DEF SenderNext, SeeEvent, ClearSlot, ReadCamera, CompareSource,
                    MarkRecording, AddTimer, AskForClip
    <2>2. g_event_class_id # "NORMAL"
      BY <2>1 DEF TakeEvent
    <2> QED
      BY <1>1, <2>2 DEF IInv, SlotFresh
  <1> QED
    BY <1>1, Invariance, PTL DEF Spec, EventOnce
=============================================================================
