-------------------------- MODULE MCViewerCommands --------------------------
(* ViewerCommands for TLC. A read takes one long line and its end, or two   *)
(* short ones; it cuts a long line that follows another.                    *)
EXTENDS ViewerCommands, TLC

MCSize == "up" :> 1 @@ "ir_init" :> 3

MCDefault ==
  [palette |-> "white", dn_mode |-> "auto", preset |-> [p \in Presets |-> Unset]]
=============================================================================
