------------------------------ MODULE Recorder ------------------------------
(***************************************************************************)
(* The recorder of both cameras (python/camera.py): a process for each     *)
(* camera with its pipeline, the watchdog thread and the bus handler that  *)
(* restart the pipeline, the exit that asks for a new process; and the     *)
(* parent, whose monitor thread starts new processes while its main thread *)
(* waits for them and stops the system.                                    *)
(*                                                                         *)
(* Times are kept in their order: 10 s without a frame, 30 s of cooldown,  *)
(* 5 s between two rounds of the monitor. stop() waits 10 s for the        *)
(* monitor thread, longer than its round takes. The cameras are external.  *)
(***************************************************************************)
EXTENDS Integers

CONSTANTS
  Cams,
  First,                  \* the camera named first in the configuration
  max_restart_attempts

ASSUME RecorderAssumption ==
  /\ First \in Cams
  /\ max_restart_attempts \in Nat

VARIABLES
  (* each camera's process *)
  life,             \* "starting" "running" "quitting" "ended"
  exitcode,
  frames,           \* frames come; if not, none has for frame_timeout
  restart_count,
  cooldown,         \* the last restart is less than restart_cooldown ago
  at,               \* where its watchdog thread and its bus handler are
  restart_requested,
  (* the parent *)
  running,
  monitor,          \* "round" "sleep" "over"
  main,             \* "first" and "rest" of wait(), "stop" "join" "end" "done"
  replaced,         \* the process that main waits for has been replaced
  asked             \* history: the user has interrupted the program

recorder == <<frames, restart_count, cooldown, at>>
process == <<life, exitcode, frames, restart_count, cooldown, at, restart_requested>>
parent == <<running, monitor, main, replaced, asked>>
vars == <<life, exitcode, frames, restart_count, cooldown, at, restart_requested,
          running, monitor, main, replaced, asked>>

Callers == {"watchdog", "bus"}
Idle == [t \in Callers |-> "idle"]

TypeOK ==
  /\ life \in [Cams -> {"starting", "running", "quitting", "ended"}]
  /\ exitcode \in [Cams -> {"none", "0", "100", "other"}]
  /\ frames \in [Cams -> BOOLEAN]
  /\ restart_count \in [Cams -> 0 .. max_restart_attempts + 1]
  /\ cooldown \in [Cams -> BOOLEAN]
  /\ at \in [Cams -> [Callers -> {"idle", "allowed", "down"}]]
  /\ restart_requested \in [Cams -> BOOLEAN]
  /\ running \in BOOLEAN
  /\ monitor \in {"round", "sleep", "over"}
  /\ main \in {"first", "rest", "stop", "join", "end", "done"}
  /\ replaced \in BOOLEAN
  /\ asked \in BOOLEAN

(* DualCameraSystem.start has started the processes and the monitor.        *)
Init ==
  /\ life = [c \in Cams |-> "starting"]
  /\ exitcode = [c \in Cams |-> "none"]
  /\ frames = [c \in Cams |-> FALSE]
  /\ restart_count = [c \in Cams |-> 0]
  /\ cooldown = [c \in Cams |-> FALSE]
  /\ at = [c \in Cams |-> Idle]
  /\ restart_requested = [c \in Cams |-> FALSE]
  /\ running = TRUE /\ monitor = "round" /\ main = "first"
  /\ replaced = FALSE /\ asked = FALSE

Put(f, c, v) == f' = [f EXCEPT ![c] = v]
Alive(c) == life[c] # "ended"
Runs(c) == life[c] \in {"running", "quitting"}
-----------------------------------------------------------------------------
(* The process of a camera                                                  *)

(* The process ends, and its threads with it.                               *)
End(c, code) ==
  /\ Put(life, c, "ended") /\ Put(exitcode, c, code)
  /\ Put(frames, c, FALSE) /\ Put(at, c, Idle)
  /\ Put(restart_count, c, 0) /\ Put(cooldown, c, FALSE)
  /\ UNCHANGED <<restart_requested, parent>>

(* CameraRecorder.start                                                     *)
Start(c) ==
  /\ life[c] = "starting"
  /\ Put(life, c, "running") /\ Put(frames, c, TRUE)
  /\ UNCHANGED <<exitcode, restart_count, cooldown, at, restart_requested, parent>>

(* It fails: run() returns.                                                 *)
StartFails(c) == life[c] = "starting" /\ End(c, "0")

(* No frame for frame_timeout; a pipeline that is up may bring some again.  *)
Stall(c) ==
  /\ Runs(c) /\ frames[c] /\ Put(frames, c, FALSE)
  /\ UNCHANGED <<life, exitcode, restart_count, cooldown, at, restart_requested, parent>>

FramesAgain(c) ==
  /\ Runs(c) /\ ~frames[c] /\ at[c] = Idle /\ Put(frames, c, TRUE)
  /\ UNCHANGED <<life, exitcode, restart_count, cooldown, at, restart_requested, parent>>

(* request_restart by the watchdog thread, when no frame comes, or by the   *)
(* bus handler, on an error, which the main loop calls: not in the cooldown.*)
Requests(c, t) ==
  /\ Runs(c) /\ at[c][t] = "idle" /\ ~cooldown[c]
  /\ \/ t = "watchdog" /\ ~frames[c]
     \/ t = "bus" /\ life[c] = "running"

AllowRestart(c, t) ==
  /\ Requests(c, t) /\ restart_count[c] < max_restart_attempts
  /\ at' = [at EXCEPT ![c][t] = "allowed"]
  /\ UNCHANGED <<life, exitcode, frames, restart_count, cooldown, restart_requested, parent>>

\* mutant: at the limit nothing is asked for
LogOnly(c, t) ==
  /\ Requests(c, t) /\ restart_count[c] >= max_restart_attempts
  /\ UNCHANGED vars

(* After max_restart_attempts: request_process_restart.                     *)
RequestProcessRestart(c, t) ==
  /\ Requests(c, t) /\ restart_count[c] >= max_restart_attempts
  /\ Put(restart_requested, c, TRUE) /\ Put(life, c, "quitting")
  /\ UNCHANGED <<exitcode, recorder, parent>>

(* The restart is counted after the checks, without a lock; then the        *)
(* pipeline is stopped.                                                     *)
BeginRestart(c, t) ==
  /\ at[c][t] = "allowed" /\ at' = [at EXCEPT ![c][t] = "down"]
  /\ Put(restart_count, c, restart_count[c] + 1)
  /\ Put(cooldown, c, TRUE)
  /\ Put(frames, c, FALSE)
  /\ UNCHANGED <<life, exitcode, restart_requested, parent>>

(* restart_pipeline ends: a new pipeline plays, or it has failed and no     *)
(* frame comes.                                                             *)
EndRestart(c, t) ==
  /\ at[c][t] = "down" /\ at' = [at EXCEPT ![c][t] = "idle"]
  /\ \E up \in BOOLEAN : Put(frames, c, up)
  /\ UNCHANGED <<life, exitcode, restart_count, cooldown, restart_requested, parent>>

Cool(c) ==
  /\ cooldown[c] /\ Put(cooldown, c, FALSE)
  /\ UNCHANGED <<life, exitcode, frames, restart_count, at, restart_requested, parent>>

(* The main loop has been quit: cleanup, then sys.exit(100) if a new        *)
(* process was asked for. A restart by the bus handler is finished before.  *)
Quit(c) ==
  /\ life[c] = "quitting" /\ at[c]["bus"] = "idle"
  /\ End(c, IF restart_requested[c] THEN "100" ELSE "0")

(* A fault in GStreamer.                                                    *)
Crash(c) == Alive(c) /\ End(c, "other")
-----------------------------------------------------------------------------
(* The monitor thread of the parent                                         *)

(* A round: a process that has exited with 100 is started anew, one that    *)
(* has ended otherwise is only logged.                                      *)
StartAnew(c) ==
  /\ monitor = "round"
  /\ life[c] = "ended" /\ exitcode[c] = "100"
  /\ Put(life, c, "starting") /\ Put(exitcode, c, "none")
  /\ Put(restart_requested, c, FALSE)
  /\ replaced' = (replaced \/ main = (IF c = First THEN "first" ELSE "rest"))
  /\ UNCHANGED <<recorder, running, monitor, main, asked>>

EndRound ==
  /\ monitor = "round" /\ monitor' = "sleep"
  /\ UNCHANGED <<process, running, main, replaced, asked>>

(* "running" is looked at between two rounds only.                          *)
NextRound ==
  /\ monitor = "sleep"
  /\ monitor' = IF running THEN "round" ELSE "over"
  /\ UNCHANGED <<process, running, main, replaced, asked>>
-----------------------------------------------------------------------------
(* The main thread of the parent                                            *)

(* wait() joins the processes in turn, each as it is when its turn comes:   *)
(* of one that was replaced since, the process that has ended.              *)
Joined(c) == replaced \/ ~Alive(c)

WaitFirst ==
  /\ main = "first" /\ Joined(First)
  /\ main' = "rest" /\ replaced' = FALSE
  /\ UNCHANGED <<process, running, monitor, asked>>

WaitRest ==
  /\ main = "rest" /\ \A c \in Cams \ {First} : Joined(c)
  /\ main' = "stop" /\ replaced' = FALSE
  /\ UNCHANGED <<process, running, monitor, asked>>

(* KeyboardInterrupt                                                        *)
Interrupt ==
  /\ main \in {"first", "rest"}
  /\ main' = "stop" /\ replaced' = FALSE /\ asked' = TRUE
  /\ UNCHANGED <<process, running, monitor>>

(* DualCameraSystem.stop                                                    *)
Stop ==
  /\ main = "stop" /\ main' = "join" /\ running' = FALSE
  /\ UNCHANGED <<process, monitor, replaced, asked>>

\* mutant: stop() does not wait for the monitor thread
TerminateAtOnce ==
  /\ main = "join" /\ main' = "end"
  /\ life' = [c \in Cams |-> IF Runs(c) THEN "quitting" ELSE life[c]]
  /\ UNCHANGED <<exitcode, recorder, restart_requested, running, monitor, replaced, asked>>

(* The monitor thread has ended: SIGTERM to each process, whose handler     *)
(* cleans up and quits the main loop, if there is one.                      *)
TerminateAll ==
  /\ main = "join" /\ monitor = "over" /\ main' = "end"
  /\ life' = [c \in Cams |-> IF Runs(c) THEN "quitting" ELSE life[c]]
  /\ UNCHANGED <<exitcode, recorder, restart_requested, running, monitor, replaced, asked>>

(* Five seconds later a process that has not ended is killed.               *)
KillRest ==
  /\ main = "end" /\ main' = "done"
  /\ life' = [c \in Cams |-> "ended"]
  /\ exitcode' = [c \in Cams |-> IF Alive(c) THEN "other" ELSE exitcode[c]]
  /\ frames' = [c \in Cams |-> FALSE] /\ at' = [c \in Cams |-> Idle]
  /\ restart_count' = [c \in Cams |-> 0] /\ cooldown' = [c \in Cams |-> FALSE]
  /\ UNCHANGED <<restart_requested, running, monitor, replaced, asked>>
-----------------------------------------------------------------------------
ProcessStep(c) ==
  \/ Start(c) \/ StartFails(c) \/ Quit(c) \/ Cool(c)
  \/ \E t \in Callers : BeginRestart(c, t) \/ EndRestart(c, t)

WatchdogStep(c) == AllowRestart(c, "watchdog") \/ RequestProcessRestart(c, "watchdog")

Next ==
  \/ \E c \in Cams :
       \/ ProcessStep(c) \/ Stall(c) \/ FramesAgain(c) \/ Crash(c) \/ StartAnew(c)
       \/ \E t \in Callers : AllowRestart(c, t) \/ RequestProcessRestart(c, t)
  \/ EndRound \/ NextRound
  \/ WaitFirst \/ WaitRest \/ Interrupt \/ Stop \/ TerminateAll \/ KillRest

Spec == Init /\ [][Next]_vars

(* Each thread runs; the monitor looks at each process in each round, and   *)
(* the watchdog thread each second. A pipeline need never come up again,    *)
(* and errors on the bus need not come.                                     *)
Fairness ==
  /\ \A c \in Cams :
       /\ WF_vars(Start(c) \/ StartFails(c)) /\ WF_vars(Quit(c)) /\ WF_vars(Cool(c))
       /\ \A t \in Callers : WF_vars(BeginRestart(c, t) \/ EndRestart(c, t))
       /\ WF_vars(WatchdogStep(c)) /\ SF_vars(StartAnew(c))
  /\ WF_vars(EndRound) /\ WF_vars(NextRound)
  /\ WF_vars(Stop \/ TerminateAll \/ KillRest)

FairSpec == Spec /\ Fairness
-----------------------------------------------------------------------------
(* Properties                                                               *)

(* No process is left when stop() has returned, though the monitor thread   *)
(* starts processes beside it: none it started after stop() looked.         *)
NoneLeft == main = "done" => \A c \in Cams : ~Alive(c)

(* A camera that gives no frames gets them again, in this process or in the *)
(* one that replaces it, or the process ends otherwise, or the system is    *)
(* stopped. No watchdog waits for ever, in a cooldown or at the limit.      *)
Recovers ==
  \A c \in Cams :
    (life[c] = "running" /\ ~frames[c])
      ~> (frames[c] \/ exitcode[c] \in {"0", "other"} \/ main \notin {"first", "rest"})

(* camera.py:9 promises automatic restarts, and monitor_processes does      *)
(* them; stop() ends the system. It does so only when the user asks, or     *)
(* when no camera has a process. (wait() returns also when each process it  *)
(* joined has been replaced: both cameras then stop recording.)             *)
StopsOnlyWhenAsked == (main = "stop" /\ ~asked) => \A c \in Cams : ~Alive(c)
=============================================================================
