------------------------------ MODULE MCAutoPtz ------------------------------
(* AutoPtz with two presets and two positions. From far to near the camera  *)
(* zooms out, so that the tour passes in two moves.                         *)
EXTENDS AutoPtz, TLC

Far == [tilt |-> 0, zoom |-> 256]
Near == [tilt |-> 20, zoom |-> 0]
MCSpots == {Far, Near}
MCSeqs == {<<>>, <<0, 0>>, <<0, 1, 1>>}
Start(user, seq, status) ==
  [AUTO_POS |-> (0 :> [set |-> TRUE, at |-> Far] @@ 1 :> [set |-> TRUE, at |-> Near]),
   USER_POS |-> user, auto_ptz_seq |-> seq, analysis_status |-> status]
MCStored == {Start([set |-> TRUE, at |-> Near], <<0, 1, 1>>, TRUE)}
MCAsked ==
  {Command("move", <<>>, 0, 0), Command("set", <<>>, 1, 1),
   Command("analysis", <<>>, 0, 0)}
=============================================================================
