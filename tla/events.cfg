SPECIFICATION FairSpec
CONSTANTS
  PerSec = 2
  Threshold <- MCThreshold
  HeatCountThreshold = 1
  FlowThreshold = 1
  OverTempTime = 1
  TempGap = 1
  ResnetApply = TRUE
  OptFlowApply = TRUE
  Cams = {1}
  RgbCam = 0
  ThermalCam = 1
  NumObjs = 1
  Detections <- MCDetections
  Absent = Absent
  TempApply = TRUE
  NotifyOn = TRUE
  MaxTimers = 1
  MaxEvidence = 2
PROPERTIES AlarmEarned HeatConfirmed OverTempSpaced EventOnce RecordingEnds
