----------------------------- MODULE PtzMotion -----------------------------
(***************************************************************************)
(* The camera on its serial line (serial_comm.c, ptz_control.c): moves to  *)
(* presets, moves for a time with their stop timer and the retries of a    *)
(* failed stop, and g_move_speed, by which detection knows of a move.      *)
(*                                                                         *)
(* The main thread runs commands and timers. The tour's thread moves and   *)
(* polls (AutoPtz has its control). g_mutex_2 makes a command and its      *)
(* answer one step. The camera is external. What goes wrong on the line is *)
(* of one kind in a behaviour: commands are lost or refused, or answers    *)
(* come after the second that read_serial_timeout waits, and are then read *)
(* by the next command.                                                    *)
(*                                                                         *)
(* Left out: the command "ptz", whose bytes a viewer chooses. It is written*)
(* outside g_mutex_2 and its answer is left for the next command to read.  *)
(***************************************************************************)
EXTENDS Integers

CONSTANTS
  MAX_STOP_RETRY,
  Faults,         \* what may go wrong on the line, of "none", "lost", "late"
  MaxJogs         \* bound on the moves for a time

ASSUME MotionAssumption ==
  /\ MAX_STOP_RETRY \in Nat /\ MaxJogs \in Nat
  /\ Faults \subseteq {"none", "lost", "late"}

VARIABLES
  goal,             \* what the camera does
  fault,            \* what goes wrong on the line in this behaviour
  line,             \* an answer that came late, still to be read
  auto_ptz_seq,     \* g_setting.auto_ptz_seq is not empty
  touring,          \* the tour's thread: not running, about to move, polling
  timer_id,         \* the stop timer is pending
  ptz_err_code, stop_retry_count,
  second_count,     \* count of is_second_count
  g_move_speed,     \* g_move_speed > 0
  jogs,             \* moves for a time so far
  stops             \* history: stop commands since the last of them

vars == <<goal, fault, line, auto_ptz_seq, touring, timer_id, ptz_err_code,
          stop_retry_count, second_count, g_move_speed, jogs, stops>>
stopping == <<timer_id, ptz_err_code, stop_retry_count, second_count, jogs, stops>>

(* Length of an answer: to a move or a stop 7 bytes, then the motors' state *)
(* and the position.                                                        *)
Length == [ack |-> 7, refusal |-> 7, state |-> 8, position |-> 17]
Answers == DOMAIN Length

TypeOK ==
  /\ goal \in {"stands", "jogs", "preset"}
  /\ fault \in Faults
  /\ line \in Answers \cup {"empty"}
  /\ auto_ptz_seq \in BOOLEAN
  /\ touring \in {"no", "move", "poll"}
  /\ timer_id \in BOOLEAN
  /\ ptz_err_code \in {"PTZ_NORMAL", "PTZ_STOP_FAILED"}
  /\ stop_retry_count \in 0 .. MAX_STOP_RETRY
  /\ second_count \in 0 .. 1
  /\ g_move_speed \in BOOLEAN
  /\ jogs \in 0 .. MaxJogs
  /\ stops \in 0 .. MAX_STOP_RETRY + 1

Init ==
  /\ goal = "stands" /\ fault \in Faults /\ line = "empty"
  /\ auto_ptz_seq \in BOOLEAN /\ touring = "no"
  /\ timer_id = FALSE
  /\ ptz_err_code = "PTZ_NORMAL" /\ stop_retry_count = 0 /\ second_count = 0
  /\ g_move_speed = FALSE
  /\ jogs = 0 /\ stops = 0
-----------------------------------------------------------------------------
(* The line                                                                 *)

(* The camera and a command: "does" is what a command that gets through     *)
(* changes in its movement. A camera that refuses answers a refusal.        *)
Sends(does) ==
  \/ goal' = does
  \/ fault = "lost" /\ goal' = goal

(* read_cmd_timeout of a command whose proper answer is "proper": what is   *)
(* read, or "nothing". An earlier answer that came late is read instead of  *)
(* the new one, or with it, when the length is wrong; and the new one is    *)
(* late in its turn.                                                        *)
ReadCmd(does, proper, got) ==
  IF line = "empty"
    THEN \/ got = proper /\ goal' = does /\ line' = line
         \/ fault = "lost" /\ got = "nothing" /\ Sends(does) /\ line' = line
         \/ /\ fault = "lost" /\ proper = "ack" /\ got = "refusal"
            /\ goal' = goal /\ line' = line
         \/ fault = "late" /\ got = "nothing" /\ goal' = does /\ line' = proper
    ELSE /\ goal' = does
         /\ \/ got = "nothing" /\ line' = "empty"
            \/ /\ got = IF Length[line] = Length[proper] THEN line ELSE "nothing"
               /\ line' = proper

(* check_speed: any answered command but a move to a preset, with a tour    *)
(* set, makes g_move_speed zero.                                            *)
CheckSpeed(got, isMove) ==
  g_move_speed' = IF got = "nothing" THEN g_move_speed ELSE isMove /\ auto_ptz_seq

(* The same for a query of the position, which move_ptz_pos makes first.    *)
MovePreset ==
  \E got \in Answers \cup {"nothing"} :
    /\ ReadCmd("preset", "ack", got)
    /\ CheckSpeed(got, TRUE)

Query(proper, got) == ReadCmd(goal, proper, got) /\ CheckSpeed(got, FALSE)

(* The camera arrives at a preset.                                          *)
Arrive ==
  /\ goal = "preset" /\ goal' = "stands"
  /\ UNCHANGED <<fault, line, auto_ptz_seq, touring, g_move_speed, stopping>>
-----------------------------------------------------------------------------
(* Moves for a time, on the main thread                                     *)

\* mutant: the failed stop of an earlier move is not forgotten
MoveOnly ==
  /\ jogs < MaxJogs /\ jogs' = jogs + 1
  /\ Sends("jogs") /\ line' = line
  /\ g_move_speed' = TRUE /\ timer_id' = TRUE /\ stops' = 0
  /\ UNCHANGED <<fault, auto_ptz_seq, touring, second_count, ptz_err_code, stop_retry_count>>

(* move_and_stop_ptz: the move is written and needs no answer; a timer for  *)
(* the stop replaces one that is pending.                                   *)
MoveAndStop ==
  /\ jogs < MaxJogs /\ jogs' = jogs + 1
  /\ Sends("jogs") /\ line' = line
  /\ ptz_err_code' = "PTZ_NORMAL" /\ stop_retry_count' = 0
  /\ g_move_speed' = TRUE
  /\ timer_id' = TRUE
  /\ stops' = 0
  /\ UNCHANGED <<fault, auto_ptz_seq, touring, second_count>>

\* mutant: any answer acknowledges the stop
SendStopAnyAnswer(retry) ==
  \E got \in Answers \cup {"nothing"} :
    /\ ReadCmd("stands", "ack", got)
    /\ ptz_err_code' = IF got = "nothing" THEN "PTZ_STOP_FAILED" ELSE "PTZ_NORMAL"
    /\ stop_retry_count' = retry + (IF got = "nothing" THEN stop_retry_count ELSE 0)
    /\ g_move_speed' = FALSE
    /\ stops' = stops + 1

(* send_ptz_move_cmd with speed 0: only a good answer clears the error and  *)
(* the count of retries, to which "retry" is added by the caller.           *)
SendStop(retry) ==
  \E got \in Answers \cup {"nothing"} :
    /\ ReadCmd("stands", "ack", got)
    /\ ptz_err_code' = IF got = "ack" THEN "PTZ_NORMAL" ELSE "PTZ_STOP_FAILED"
    /\ stop_retry_count' = retry + (IF got = "ack" THEN 0 ELSE stop_retry_count)
    /\ g_move_speed' = FALSE
    /\ stops' = stops + 1

(* timer_stop_ptz_callback                                                  *)
TimerStop ==
  /\ timer_id /\ timer_id' = FALSE
  /\ SendStop(0)
  /\ UNCHANGED <<fault, auto_ptz_seq, touring, second_count, jogs>>

(* check_ptz_stop_command, once a second: while a stop has failed, it is    *)
(* sent again every other second (is_second_count), MAX_STOP_RETRY times.   *)
Retry ==
  /\ ptz_err_code = "PTZ_STOP_FAILED"
  /\ second_count = 1 /\ second_count' = 0
  /\ stop_retry_count < MAX_STOP_RETRY
  /\ SendStop(1)
  /\ UNCHANGED <<fault, auto_ptz_seq, touring, timer_id, jogs>>

CountSecond ==
  /\ \/ ptz_err_code = "PTZ_STOP_FAILED" /\ second_count = 0 /\ second_count' = 1
     \/ /\ ptz_err_code = "PTZ_STOP_FAILED" /\ second_count = 1
        /\ stop_retry_count >= MAX_STOP_RETRY /\ second_count' = 0
     \/ ptz_err_code = "PTZ_NORMAL" /\ second_count' = 0
  /\ UNCHANGED <<goal, fault, line, auto_ptz_seq, touring, timer_id, ptz_err_code,
                 stop_retry_count, g_move_speed, jogs, stops>>
-----------------------------------------------------------------------------
(* Presets and tours                                                        *)

(* move_ptz_pos and set_ptz_pos first ask for the position.                 *)
AskPosition ==
  /\ \E got \in Answers \cup {"nothing"} : Query("position", got)
  /\ UNCHANGED <<fault, auto_ptz_seq, touring, stopping>>

(* move_ptz_pos of a viewer's preset stops the tour, of a tour's does not.  *)
UserMove ==
  /\ MovePreset
  /\ touring' \in {touring, "no"}
  /\ UNCHANGED <<fault, auto_ptz_seq, stopping>>

(* auto_move_ptz of a sequence, or of none.                                 *)
StartTour ==
  /\ auto_ptz_seq' = TRUE /\ touring' = "move"
  /\ UNCHANGED <<goal, fault, line, g_move_speed, stopping>>

StopTour ==
  /\ auto_ptz_seq' \in {auto_ptz_seq, FALSE} /\ touring' = "no"
  /\ UNCHANGED <<goal, fault, line, g_move_speed, stopping>>

(* The tour's thread moves to a preset, and asks for the state of the       *)
(* motors each second until they stand, or for as long as it waits.         *)
TourMove ==
  /\ touring = "move" /\ touring' = "poll"
  /\ MovePreset
  /\ UNCHANGED <<fault, auto_ptz_seq, stopping>>

TourPoll ==
  /\ touring = "poll" /\ touring' \in {"poll", "move"}
  /\ \E got \in Answers \cup {"nothing"} : Query("state", got)
  /\ UNCHANGED <<fault, auto_ptz_seq, stopping>>
-----------------------------------------------------------------------------
Next ==
  \/ MoveAndStop \/ TimerStop \/ Retry \/ CountSecond \/ Arrive
  \/ AskPosition \/ UserMove \/ StartTour \/ StopTour \/ TourMove \/ TourPoll

Spec == Init /\ [][Next]_vars

(* GLib calls a timer that has expired in the next round of the main loop,  *)
(* which no command keeps busy for ever: the stop timer, and the tick of    *)
(* each second. The camera gets to its preset.                              *)
Fairness ==
  WF_vars(TimerStop) /\ WF_vars(Retry \/ CountSecond) /\ WF_vars(Arrive)
FairSpec == Spec /\ Fairness
-----------------------------------------------------------------------------
(* Properties                                                               *)

(* A move for a time ends: it is stopped, or all the retries have failed.   *)
(* (A viewer's raw "ptz" command is left out: its unread answer could be    *)
(* taken for that of a stop that was lost.)                                 *)
MoveEnds == goal = "jogs" ~> (goal # "jogs" \/ stop_retry_count = MAX_STOP_RETRY)

(* The retries end: for one move, the stop of its timer and MAX_STOP_RETRY  *)
(* more are sent at most; and a failed stop is one of this move, never of   *)
(* an earlier one, and each retry counted was sent.                         *)
StopsBounded ==
  /\ stops <= MAX_STOP_RETRY + 1
  /\ ptz_err_code = "PTZ_STOP_FAILED" => stops >= 1 + stop_retry_count
=============================================================================
