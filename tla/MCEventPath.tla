---------------------------- MODULE MCEventPath -----------------------------
(* EventPath on a small instance: one animal of the thermal camera, which   *)
(* the network sees hot, with the confirmation of ResNet or without it.     *)
EXTENDS EventPath

MCThreshold ==
  [k \in Classes |-> IF k = "HEAT" THEN 2 ELSE IF k \in Alarms THEN 1 ELSE 0]
Detect(k, sure, resnet) == [class |-> k, sure |-> sure, resnet |-> resnet]
MCDetections == {Detect("HEAT", TRUE, TRUE), Detect("HEAT", TRUE, FALSE)}
=============================================================================
