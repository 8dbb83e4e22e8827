------------------------- MODULE Supervision_proofs -------------------------
(* Proofs about the two watchdogs of the program, which share no state: the *)
(* supervision of the recorders (Recorder) and of the link to the           *)
(* signalling server (Watchdog).                                            *)
(*                                                                          *)
(* Of Recorder: its types, that two callers that restart at once pass the   *)
(* limit by one at most, and that stop() leaves no process behind.          *)
(*                                                                          *)
(* Of Watchdog: the bounds of the count of missing replies, though two      *)
(* threads write it without a lock; one connection at a time; and no        *)
(* session of a viewer outlives its connection.                             *)
EXTENDS Recorder, Watchdog, TLAPS, FiniteSetTheorems

CameraType ==
  /\ life \in [Cams -> {"starting", "running", "quitting", "ended"}]
  /\ exitcode \in [Cams -> {"none", "0", "100", "other"}]
  /\ frames \in [Cams -> BOOLEAN]
  /\ restart_count \in [Cams -> Nat]
  /\ cooldown \in [Cams -> BOOLEAN]
  /\ at \in [Cams -> [Callers -> {"idle", "allowed", "down"}]]
  /\ restart_requested \in [Cams -> BOOLEAN]

ParentType ==
  /\ running \in BOOLEAN
  /\ monitor \in {"round", "sleep", "over"}
  /\ main \in {"first", "rest", "stop", "join", "end", "done"}
  /\ replaced \in BOOLEAN
  /\ asked \in BOOLEAN

(* What a caller has checked before it restarts stays true until one of the *)
(* two has counted its restart: so the count passes the limit by one only.  *)
Allowed(c, t) == at[c][t] = "allowed"
LimitKept ==
  \A c \in Cams :
    /\ restart_count[c] <= max_restart_attempts + 1
    /\ \A t \in Callers : Allowed(c, t) => restart_count[c] <= max_restart_attempts
    /\ (\A t \in Callers : Allowed(c, t)) => restart_count[c] < max_restart_attempts

(* stop() goes on when the monitor, which starts processes, has ended.      *)
StoppedInOrder ==
  /\ main \in {"end", "done"} => monitor = "over"
  /\ main = "done" => \A c \in Cams : life[c] = "ended"

-----------------------------------------------------------------------------
LEMMA InitInv == Init => CameraType /\ ParentType /\ LimitKept /\ StoppedInOrder
  <1>1. Init => CameraType
    BY DEF Init, CameraType, Idle
  <1>2. Init => ParentType /\ StoppedInOrder
    BY DEF Init, ParentType, StoppedInOrder
  <1>3. Init => LimitKept
    <2>1. Init => \A c \in Cams : restart_count[c] = 0
      BY DEF Init
    <2>2. Init => \A c \in Cams, t \in Callers : ~Allowed(c, t)
      BY DEF Init, Allowed, Idle
    <2>3. 0 <= max_restart_attempts + 1 /\ \E t \in Callers : TRUE
      BY RecorderAssumption DEF Callers
    <2>4. QED
      BY <2>1, <2>2, <2>3 DEF LimitKept
  <1>4. QED
    BY <1>1, <1>2, <1>3

(* The types of what each camera's process keeps.                           *)
LEMMA CameraTypeStep ==
  ASSUME CameraType, ParentType, LimitKept, StoppedInOrder, [Next]_vars
  PROVE  CameraType'
  <1> USE RecorderAssumption DEF CameraType, Put, Idle, parent, process, Alive, Runs
  <1>1. ASSUME NEW c \in Cams, Start(c) PROVE CameraType'
    BY <1>1 DEF Start
  <1>2. ASSUME NEW c \in Cams, StartFails(c) PROVE CameraType'
    BY <1>2 DEF StartFails, End
  <1>3. ASSUME NEW c \in Cams, Quit(c) PROVE CameraType'
    BY <1>3 DEF Quit, End
  <1>4. ASSUME NEW c \in Cams, Crash(c) PROVE CameraType'
    BY <1>4 DEF Crash, End
  <1>5. ASSUME NEW c \in Cams, Cool(c) PROVE CameraType'
    BY <1>5 DEF Cool
  <1>6. ASSUME NEW c \in Cams, Stall(c) PROVE CameraType'
    BY <1>6 DEF Stall
  <1>7. ASSUME NEW c \in Cams, FramesAgain(c) PROVE CameraType'
    BY <1>7 DEF FramesAgain
  <1>8. ASSUME NEW c \in Cams, StartAnew(c) PROVE CameraType'
    BY <1>8 DEF StartAnew, recorder
  <1>9. ASSUME NEW c \in Cams, NEW t \in Callers, BeginRestart(c, t) PROVE CameraType'
    BY <1>9 DEF BeginRestart
  <1>10. ASSUME NEW c \in Cams, NEW t \in Callers, EndRestart(c, t) PROVE CameraType'
    BY <1>10 DEF EndRestart
  <1>11. ASSUME NEW c \in Cams, NEW t \in Callers, AllowRestart(c, t) PROVE CameraType'
    BY <1>11 DEF AllowRestart
  <1>12. ASSUME NEW c \in Cams, NEW t \in Callers, RequestProcessRestart(c, t) PROVE CameraType'
    BY <1>12 DEF RequestProcessRestart, recorder
  <1>13. CASE EndRound
    BY <1>13 DEF EndRound, process
  <1>14. CASE NextRound
    BY <1>14 DEF NextRound, process
  <1>15. CASE WaitFirst
    BY <1>15 DEF WaitFirst, process
  <1>16. CASE WaitRest
    BY <1>16 DEF WaitRest, process
  <1>17. CASE Interrupt
    BY <1>17 DEF Interrupt, process
  <1>18. CASE Stop
    BY <1>18 DEF Stop, process
  <1>19. CASE TerminateAll
    BY <1>19 DEF TerminateAll, recorder
  <1>20. CASE KillRest
    BY <1>20 DEF KillRest
  <1>21. CASE UNCHANGED vars
    BY <1>21 DEF vars
  <1>22. QED
    BY <1>1, <1>2, <1>3, <1>4, <1>5, <1>6, <1>7, <1>8, <1>9, <1>10, <1>11,
       <1>12, <1>13, <1>14, <1>15, <1>16, <1>17, <1>18, <1>19, <1>20,
       <1>21 DEF Next, ProcessStep

(* The types of what the parent keeps.                                      *)
LEMMA ParentTypeStep ==
  ASSUME CameraType, ParentType, LimitKept, StoppedInOrder, [Next]_vars
  PROVE  ParentType'
  <1> USE RecorderAssumption DEF ParentType, parent
  <1>1. ASSUME NEW c \in Cams, Start(c) PROVE ParentType'
    BY <1>1 DEF Start
  <1>2. ASSUME NEW c \in Cams, StartFails(c) PROVE ParentType'
    BY <1>2 DEF StartFails, End
  <1>3. ASSUME NEW c \in Cams, Quit(c) PROVE ParentType'
    BY <1>3 DEF Quit, End
  <1>4. ASSUME NEW c \in Cams, Crash(c) PROVE ParentType'
    BY <1>4 DEF Crash, End
  <1>5. ASSUME NEW c \in Cams, Cool(c) PROVE ParentType'
    BY <1>5 DEF Cool
  <1>6. ASSUME NEW c \in Cams, Stall(c) PROVE ParentType'
    BY <1>6 DEF Stall
  <1>7. ASSUME NEW c \in Cams, FramesAgain(c) PROVE ParentType'
    BY <1>7 DEF FramesAgain
  <1>8. ASSUME NEW c \in Cams, StartAnew(c) PROVE ParentType'
    BY <1>8 DEF StartAnew, recorder
  <1>9. ASSUME NEW c \in Cams, NEW t \in Callers, BeginRestart(c, t) PROVE ParentType'
    BY <1>9 DEF BeginRestart
  <1>10. ASSUME NEW c \in Cams, NEW t \in Callers, EndRestart(c, t) PROVE ParentType'
    BY <1>10 DEF EndRestart
  <1>11. ASSUME NEW c \in Cams, NEW t \in Callers, AllowRestart(c, t) PROVE ParentType'
    BY <1>11 DEF AllowRestart
  <1>12. ASSUME NEW c \in Cams, NEW t \in Callers, RequestProcessRestart(c, t) PROVE ParentType'
    BY <1>12 DEF RequestProcessRestart, recorder
  <1>13. CASE EndRound
    BY <1>13 DEF EndRound, process
  <1>14. CASE NextRound
    BY <1>14 DEF NextRound, process
  <1>15. CASE WaitFirst
    BY <1>15 DEF WaitFirst, process
  <1>16. CASE WaitRest
    BY <1>16 DEF WaitRest, process
  <1>17. CASE Interrupt
    BY <1>17 DEF Interrupt, process
  <1>18. CASE Stop
    BY <1>18 DEF Stop, process
  <1>19. CASE TerminateAll
    BY <1>19 DEF TerminateAll, recorder
  <1>20. CASE KillRest
    BY <1>20 DEF KillRest
  <1>21. CASE UNCHANGED vars
    BY <1>21 DEF vars
  <1>22. QED
    BY <1>1, <1>2, <1>3, <1>4, <1>5, <1>6, <1>7, <1>8, <1>9, <1>10, <1>11,
       <1>12, <1>13, <1>14, <1>15, <1>16, <1>17, <1>18, <1>19, <1>20,
       <1>21 DEF Next, ProcessStep

(* The limit, for each caller.                                              *)
LEMMA LimitStep ==
  ASSUME CameraType, ParentType, LimitKept, StoppedInOrder, [Next]_vars
  PROVE  LimitKept'
  <1> USE RecorderAssumption DEF CameraType, LimitKept, Allowed, Put, Idle, Callers, process, Requests
  <1>1. ASSUME NEW c \in Cams, Start(c) PROVE LimitKept'
    BY <1>1 DEF Start
  <1>2. ASSUME NEW c \in Cams, StartFails(c) PROVE LimitKept'
    BY <1>2 DEF StartFails, End
  <1>3. ASSUME NEW c \in Cams, Quit(c) PROVE LimitKept'
    BY <1>3 DEF Quit, End
  <1>4. ASSUME NEW c \in Cams, Crash(c) PROVE LimitKept'
    BY <1>4 DEF Crash, End
  <1>5. ASSUME NEW c \in Cams, Cool(c) PROVE LimitKept'
    BY <1>5 DEF Cool
  <1>6. ASSUME NEW c \in Cams, Stall(c) PROVE LimitKept'
    BY <1>6 DEF Stall
  <1>7. ASSUME NEW c \in Cams, FramesAgain(c) PROVE LimitKept'
    BY <1>7 DEF FramesAgain
  <1>8. ASSUME NEW c \in Cams, StartAnew(c) PROVE LimitKept'
    BY <1>8 DEF StartAnew, recorder
  <1>9. ASSUME NEW c \in Cams, NEW t \in Callers, BeginRestart(c, t) PROVE LimitKept'
    BY <1>9 DEF BeginRestart
  <1>10. ASSUME NEW c \in Cams, NEW t \in Callers, EndRestart(c, t) PROVE LimitKept'
    BY <1>10 DEF EndRestart
  <1>11. ASSUME NEW c \in Cams, NEW t \in Callers, AllowRestart(c, t) PROVE LimitKept'
    BY <1>11 DEF AllowRestart
  <1>12. ASSUME NEW c \in Cams, NEW t \in Callers, RequestProcessRestart(c, t) PROVE LimitKept'
    BY <1>12 DEF RequestProcessRestart, recorder
  <1>13. CASE EndRound
    BY <1>13 DEF EndRound, process
  <1>14. CASE NextRound
    BY <1>14 DEF NextRound, process
  <1>15. CASE WaitFirst
    BY <1>15 DEF WaitFirst, process
  <1>16. CASE WaitRest
    BY <1>16 DEF WaitRest, process
  <1>17. CASE Interrupt
    BY <1>17 DEF Interrupt, process
  <1>18. CASE Stop
    BY <1>18 DEF Stop, process
  <1>19. CASE TerminateAll
    BY <1>19 DEF TerminateAll, recorder
  <1>20. CASE KillRest
    BY <1>20 DEF KillRest
  <1>21. CASE UNCHANGED vars
    BY <1>21 DEF vars
  <1>22. QED
    BY <1>1, <1>2, <1>3, <1>4, <1>5, <1>6, <1>7, <1>8, <1>9, <1>10, <1>11,
       <1>12, <1>13, <1>14, <1>15, <1>16, <1>17, <1>18, <1>19, <1>20,
       <1>21 DEF Next, ProcessStep

(* The order of stop().                                                     *)
LEMMA OrderStep ==
  ASSUME CameraType, ParentType, LimitKept, StoppedInOrder, [Next]_vars
  PROVE  StoppedInOrder'
  <1> USE RecorderAssumption DEF CameraType, ParentType, StoppedInOrder, Put, parent, process, Alive, Runs, Requests
  <1>1. ASSUME NEW c \in Cams, Start(c) PROVE StoppedInOrder'
    BY <1>1 DEF Start
  <1>2. ASSUME NEW c \in Cams, StartFails(c) PROVE StoppedInOrder'
    BY <1>2 DEF StartFails, End
  <1>3. ASSUME NEW c \in Cams, Quit(c) PROVE StoppedInOrder'
    BY <1>3 DEF Quit, End
  <1>4. ASSUME NEW c \in Cams, Crash(c) PROVE StoppedInOrder'
    BY <1>4 DEF Crash, End
  <1>5. ASSUME NEW c \in Cams, Cool(c) PROVE StoppedInOrder'
    BY <1>5 DEF Cool
  <1>6. ASSUME NEW c \in Cams, Stall(c) PROVE StoppedInOrder'
    BY <1>6 DEF Stall
  <1>7. ASSUME NEW c \in Cams, FramesAgain(c) PROVE StoppedInOrder'
    BY <1>7 DEF FramesAgain
  <1>8. ASSUME NEW c \in Cams, StartAnew(c) PROVE StoppedInOrder'
    BY <1>8 DEF StartAnew, recorder
  <1>9. ASSUME NEW c \in Cams, NEW t \in Callers, BeginRestart(c, t) PROVE StoppedInOrder'
    BY <1>9 DEF BeginRestart
  <1>10. ASSUME NEW c \in Cams, NEW t \in Callers, EndRestart(c, t) PROVE StoppedInOrder'
    BY <1>10 DEF EndRestart
  <1>11. ASSUME NEW c \in Cams, NEW t \in Callers, AllowRestart(c, t) PROVE StoppedInOrder'
    BY <1>11 DEF AllowRestart
  <1>12. ASSUME NEW c \in Cams, NEW t \in Callers, RequestProcessRestart(c, t) PROVE StoppedInOrder'
    BY <1>12 DEF RequestProcessRestart, recorder
  <1>13. CASE EndRound
    BY <1>13 DEF EndRound, process
  <1>14. CASE NextRound
    BY <1>14 DEF NextRound, process
  <1>15. CASE WaitFirst
    BY <1>15 DEF WaitFirst, process
  <1>16. CASE WaitRest
    BY <1>16 DEF WaitRest, process
  <1>17. CASE Interrupt
    BY <1>17 DEF Interrupt, process
  <1>18. CASE Stop
    BY <1>18 DEF Stop, process
  <1>19. CASE TerminateAll
    BY <1>19 DEF TerminateAll, recorder
  <1>20. CASE KillRest
    BY <1>20 DEF KillRest
  <1>21. CASE UNCHANGED vars
    BY <1>21 DEF vars
  <1>22. QED
    BY <1>1, <1>2, <1>3, <1>4, <1>5, <1>6, <1>7, <1>8, <1>9, <1>10, <1>11,
       <1>12, <1>13, <1>14, <1>15, <1>16, <1>17, <1>18, <1>19, <1>20,
       <1>21 DEF Next, ProcessStep

-----------------------------------------------------------------------------
LEMMA Invariant == Spec => [](CameraType /\ ParentType /\ LimitKept /\ StoppedInOrder)
  BY InitInv, CameraTypeStep, ParentTypeStep, LimitStep, OrderStep, PTL DEF Spec

(* Every variable has its type: two callers that both look before either    *)
(* counts pass max_restart_attempts by one, and no further.                 *)
THEOREM TypeCorrect == Spec => []TypeOK
  <1>1. CameraType /\ ParentType /\ LimitKept => TypeOK
    BY RecorderAssumption DEF CameraType, ParentType, LimitKept, TypeOK
  <1>2. QED
    BY <1>1, Invariant, PTL

(* When stop() has returned, no process is left: the monitor has ended      *)
(* before the processes were told to.                                       *)
THEOREM StopLeavesNone == Spec => []NoneLeft
  <1>1. StoppedInOrder => NoneLeft
    BY DEF StoppedInOrder, NoneLeft, Alive
  <1>2. QED
    BY <1>1, Invariant, PTL
-----------------------------------------------------------------------------
(* The link to the signalling server                                        *)

(* Who is past Lock holds the mutex.                                        *)
ThreadInv ==
  /\ pc \in [Threads -> Cleanup \cup {"loop", "reset", "dec", "sleep", "terminate",
                                      "beat", "report", "count"}]
  /\ pc["main"] \notin {"beat", "report", "count"}
  /\ pc["heartbit"] \notin {"loop", "reset", "dec", "sleep"}
  /\ held \in Threads \cup {NULL}
  /\ \A t \in Threads : pc[t] \in {"sweep", "close", "drop", "sleep"} => held = t

PlainType ==
  /\ g_app_state \in {"UNKNOWN", "ERROR_TIMEOUT", "CONNECTING", "CONNECTION_ERROR",
                      "REGISTERING", "CLOSED"}
  /\ internet_state \in {"INIT", "CONNECTED", "DISCONNECTED", "RECONNECTED"}
  /\ peers \in 0 .. MaxPeers
  /\ stopped \in BOOLEAN

(* Each reply that waits belongs to a report that is counted, or is about   *)
(* to be, or whose update was lost: so the count falls below 0 by no more   *)
(* than the updates lost, and one report under way.                         *)
CounterInv ==
  /\ read \in [Threads -> Int] /\ g_wait_reply_cnt \in Int /\ replies \in Nat
  /\ lost \in 0 .. MaxLost
  /\ g_wait_reply_cnt <= MAX_WAIT_REPLY_CNT + 1
  /\ \A t \in Threads : read[t] <= MAX_WAIT_REPLY_CNT + 1 /\ read[t] >= -(MaxLost + 1)
  /\ pc["heartbit"] = "count" => read["heartbit"] <= MAX_WAIT_REPLY_CNT
  /\ replies <= g_wait_reply_cnt + lost + 1
  /\ pc["heartbit"] # "count" => replies <= g_wait_reply_cnt + lost
  /\ pc["heartbit"] = "count" => replies <= read["heartbit"] + lost + 1
  /\ pc["main"] = "dec" => replies <= read["main"] - 1 + lost
  /\ pc["main"] = "reset" => replies <= lost

(* There is one connection that is not over and forgotten, none while the   *)
(* main thread cleans up; the cleanup leaves no viewer and nothing in use.  *)
ConnInv ==
  /\ conn \in [Conns -> States]
  /\ ws_conn \in Conns \cup {NULL}
  /\ \A c, d \in Conns : conn[c] # "none" /\ conn[d] # "none" => c = d
  /\ pc["main"] \in Cleanup \cup {"sleep"} => \A c \in Conns : conn[c] = "none"
  /\ \A c \in Conns : InUse(c) => ws_conn = c
  /\ ws_conn # NULL => \A c \in Conns : conn[c] # "connecting"
  /\ pc["main"] = "sleep" => ws_conn = NULL
  /\ pc["heartbit"] = "drop" => \A c \in Conns : conn[c] # "connecting" /\ ~InUse(c)
  /\ pc["main"] \in {"close", "drop", "sleep"} => peers = 0
  /\ (\E c \in Conns : conn[c] = "connecting") => peers = 0

LinkInv == ThreadInv /\ PlainType /\ CounterInv /\ ConnInv

LEMMA LinkInitInv == LinkInit => LinkInv
  <1> SUFFICES ASSUME LinkInit PROVE LinkInv
    OBVIOUS
  <1>1. ThreadInv
    BY DEF LinkInit, ThreadInv, Threads, Cleanup
  <1>2. PlainType
    <2>1. peers \in 0 .. MaxPeers
      BY WatchdogAssumption DEF LinkInit
    <2>2. QED
      BY <2>1 DEF LinkInit, PlainType
  <1>3. CounterInv
    BY WatchdogAssumption DEF LinkInit, CounterInv, Threads
  <1>4. ConnInv
    BY WatchdogAssumption DEF LinkInit, ConnInv, States, InUse, Cleanup, Threads
  <1>5. QED
    BY <1>1, <1>2, <1>3, <1>4 DEF LinkInv

(* Where the threads are, and the mutex.                                    *)
LEMMA ThreadStep ==
  ASSUME LinkInv, [LinkNext]_linkVars
  PROVE  ThreadInv'
  <1> USE WatchdogAssumption DEF LinkInv, ThreadInv, Go, At, Threads, Cleanup, link, counter
  <1>1. ASSUME NEW t \in Threads, Lock(t) PROVE ThreadInv'
    BY <1>1 DEF Lock
  <1>2. ASSUME NEW t \in Threads, SweepPeer(t) PROVE ThreadInv'
    BY <1>2 DEF SweepPeer
  <1>3. ASSUME NEW t \in Threads, SweepEnd(t) PROVE ThreadInv'
    BY <1>3 DEF SweepEnd
  <1>4. ASSUME NEW t \in Threads, Close(t) PROVE ThreadInv'
    BY <1>4 DEF Close
  <1>5. ASSUME NEW t \in Threads, Drop(t) PROVE ThreadInv'
    BY <1>5 DEF Drop, Leave
  <1>6. ASSUME NEW t \in Threads, Reconnect(t) PROVE ThreadInv'
    BY <1>6 DEF Reconnect
  <1>7. ASSUME NEW t \in Threads, Terminate(t) PROVE ThreadInv'
    BY <1>7 DEF Terminate
  <1>8. ASSUME NEW c \in Conns, OnServerConnected(c) PROVE ThreadInv'
    BY <1>8 DEF OnServerConnected
  <1>9. ASSUME NEW c \in Conns, OnConnectError(c) PROVE ThreadInv'
    BY <1>9 DEF OnConnectError
  <1>10. ASSUME NEW c \in Conns, OnServerClosed(c) PROVE ThreadInv'
    BY <1>10 DEF OnServerClosed
  <1>11. ASSUME NEW c \in Conns, Break(c) PROVE ThreadInv'
    BY <1>11 DEF Break, Becomes
  <1>12. ASSUME NEW c \in Conns, Lose(c) PROVE ThreadInv'
    BY <1>12 DEF Lose, Becomes
  <1>13. ASSUME NEW c \in Conns, Closed(c) PROVE ThreadInv'
    BY <1>13 DEF Closed, Becomes
  <1>14. CASE ResetCount
    BY <1>14 DEF ResetCount
  <1>15. CASE OnReply
    BY <1>15 DEF OnReply, Read
  <1>16. CASE Decrement
    BY <1>16 DEF Decrement
  <1>17. CASE Join
    BY <1>17 DEF Join
  <1>18. CASE PeerLeft
    BY <1>18 DEF PeerLeft
  <1>19. CASE ConnectCheck
    BY <1>19 DEF ConnectCheck, InternetState
  <1>20. CASE Beat
    BY <1>20 DEF Beat
  <1>21. CASE GiveUp
    BY <1>21 DEF GiveUp
  <1>22. CASE NoSnapshot
    BY <1>22 DEF NoSnapshot
  <1>23. CASE Report
    BY <1>23 DEF Report, Read
  <1>24. CASE Count
    BY <1>24 DEF Count
  <1>25. CASE UNCHANGED linkVars
    BY <1>25 DEF linkVars
  <1>26. QED
    BY <1>1, <1>2, <1>3, <1>4, <1>5, <1>6, <1>7, <1>8, <1>9, <1>10, <1>11,
       <1>12, <1>13, <1>14, <1>15, <1>16, <1>17, <1>18, <1>19, <1>20, <1>21,
       <1>22, <1>23, <1>24, <1>25 DEF LinkNext, CleanupStep

(* The states of the program and of the Internet, and the viewers.          *)
LEMMA PlainStep ==
  ASSUME LinkInv, [LinkNext]_linkVars
  PROVE  PlainType'
  <1> USE WatchdogAssumption DEF LinkInv, ThreadInv, PlainType, Go, At, Threads, Cleanup, link, counter
  <1>1. ASSUME NEW t \in Threads, Lock(t) PROVE PlainType'
    BY <1>1 DEF Lock
  <1>2. ASSUME NEW t \in Threads, SweepPeer(t) PROVE PlainType'
    BY <1>2 DEF SweepPeer
  <1>3. ASSUME NEW t \in Threads, SweepEnd(t) PROVE PlainType'
    BY <1>3 DEF SweepEnd
  <1>4. ASSUME NEW t \in Threads, Close(t) PROVE PlainType'
    BY <1>4 DEF Close
  <1>5. ASSUME NEW t \in Threads, Drop(t) PROVE PlainType'
    BY <1>5 DEF Drop, Leave
  <1>6. ASSUME NEW t \in Threads, Reconnect(t) PROVE PlainType'
    BY <1>6 DEF Reconnect
  <1>7. ASSUME NEW t \in Threads, Terminate(t) PROVE PlainType'
    BY <1>7 DEF Terminate
  <1>8. ASSUME NEW c \in Conns, OnServerConnected(c) PROVE PlainType'
    BY <1>8 DEF OnServerConnected
  <1>9. ASSUME NEW c \in Conns, OnConnectError(c) PROVE PlainType'
    BY <1>9 DEF OnConnectError
  <1>10. ASSUME NEW c \in Conns, OnServerClosed(c) PROVE PlainType'
    BY <1>10 DEF OnServerClosed
  <1>11. ASSUME NEW c \in Conns, Break(c) PROVE PlainType'
    BY <1>11 DEF Break, Becomes
  <1>12. ASSUME NEW c \in Conns, Lose(c) PROVE PlainType'
    BY <1>12 DEF Lose, Becomes
  <1>13. ASSUME NEW c \in Conns, Closed(c) PROVE PlainType'
    BY <1>13 DEF Closed, Becomes
  <1>14. CASE ResetCount
    BY <1>14 DEF ResetCount
  <1>15. CASE OnReply
    BY <1>15 DEF OnReply, Read
  <1>16. CASE Decrement
    BY <1>16 DEF Decrement
  <1>17. CASE Join
    BY <1>17 DEF Join
  <1>18. CASE PeerLeft
    BY <1>18 DEF PeerLeft
  <1>19. CASE ConnectCheck
    BY <1>19 DEF ConnectCheck, InternetState
  <1>20. CASE Beat
    BY <1>20 DEF Beat
  <1>21. CASE GiveUp
    BY <1>21 DEF GiveUp
  <1>22. CASE NoSnapshot
    BY <1>22 DEF NoSnapshot
  <1>23. CASE Report
    BY <1>23 DEF Report, Read
  <1>24. CASE Count
    BY <1>24 DEF Count
  <1>25. CASE UNCHANGED linkVars
    BY <1>25 DEF linkVars
  <1>26. QED
    BY <1>1, <1>2, <1>3, <1>4, <1>5, <1>6, <1>7, <1>8, <1>9, <1>10, <1>11,
       <1>12, <1>13, <1>14, <1>15, <1>16, <1>17, <1>18, <1>19, <1>20, <1>21,
       <1>22, <1>23, <1>24, <1>25 DEF LinkNext, CleanupStep

(* The replies that wait and the count.                                     *)
LEMMA CounterStep ==
  ASSUME LinkInv, [LinkNext]_linkVars
  PROVE  CounterInv'
  <1> USE WatchdogAssumption DEF LinkInv, ThreadInv, CounterInv, Go, At, Threads, Cleanup, link, counter
  <1>1. ASSUME NEW t \in Threads, Lock(t) PROVE CounterInv'
    BY <1>1 DEF Lock
  <1>2. ASSUME NEW t \in Threads, SweepPeer(t) PROVE CounterInv'
    BY <1>2 DEF SweepPeer
  <1>3. ASSUME NEW t \in Threads, SweepEnd(t) PROVE CounterInv'
    BY <1>3 DEF SweepEnd
  <1>4. ASSUME NEW t \in Threads, Close(t) PROVE CounterInv'
    BY <1>4 DEF Close
  <1>5. ASSUME NEW t \in Threads, Drop(t) PROVE CounterInv'
    BY <1>5 DEF Drop, Leave
  <1>6. ASSUME NEW t \in Threads, Reconnect(t) PROVE CounterInv'
    BY <1>6 DEF Reconnect
  <1>7. ASSUME NEW t \in Threads, Terminate(t) PROVE CounterInv'
    BY <1>7 DEF Terminate
  <1>8. ASSUME NEW c \in Conns, OnServerConnected(c) PROVE CounterInv'
    BY <1>8 DEF OnServerConnected
  <1>9. ASSUME NEW c \in Conns, OnConnectError(c) PROVE CounterInv'
    BY <1>9 DEF OnConnectError
  <1>10. ASSUME NEW c \in Conns, OnServerClosed(c) PROVE CounterInv'
    BY <1>10 DEF OnServerClosed
  <1>11. ASSUME NEW c \in Conns, Break(c) PROVE CounterInv'
    BY <1>11 DEF Break, Becomes
  <1>12. ASSUME NEW c \in Conns, Lose(c) PROVE CounterInv'
    BY <1>12 DEF Lose, Becomes
  <1>13. ASSUME NEW c \in Conns, Closed(c) PROVE CounterInv'
    BY <1>13 DEF Closed, Becomes
  <1>14. CASE ResetCount
    BY <1>14 DEF ResetCount
  <1>15. CASE OnReply
    BY <1>15 DEF OnReply, Read
  <1>16. CASE Decrement
    BY <1>16 DEF Decrement
  <1>17. CASE Join
    BY <1>17 DEF Join
  <1>18. CASE PeerLeft
    BY <1>18 DEF PeerLeft
  <1>19. CASE ConnectCheck
    BY <1>19 DEF ConnectCheck, InternetState
  <1>20. CASE Beat
    BY <1>20 DEF Beat
  <1>21. CASE GiveUp
    BY <1>21 DEF GiveUp
  <1>22. CASE NoSnapshot
    BY <1>22 DEF NoSnapshot
  <1>23. CASE Report
    BY <1>23 DEF Report, Read
  <1>24. CASE Count
    BY <1>24 DEF Count
  <1>25. CASE UNCHANGED linkVars
    BY <1>25 DEF linkVars
  <1>26. QED
    BY <1>1, <1>2, <1>3, <1>4, <1>5, <1>6, <1>7, <1>8, <1>9, <1>10, <1>11,
       <1>12, <1>13, <1>14, <1>15, <1>16, <1>17, <1>18, <1>19, <1>20, <1>21,
       <1>22, <1>23, <1>24, <1>25 DEF LinkNext, CleanupStep

(* The connections.                                                         *)
LEMMA ConnStep ==
  ASSUME LinkInv, [LinkNext]_linkVars
  PROVE  ConnInv'
  <1> USE WatchdogAssumption DEF LinkInv, ThreadInv, PlainType, ConnInv, InUse, States, Go, At, Threads, Cleanup, link, counter
  <1>1. ASSUME NEW t \in Threads, Lock(t) PROVE ConnInv'
    BY <1>1 DEF Lock
  <1>2. ASSUME NEW t \in Threads, SweepPeer(t) PROVE ConnInv'
    BY <1>2 DEF SweepPeer
  <1>3. ASSUME NEW t \in Threads, SweepEnd(t) PROVE ConnInv'
    BY <1>3 DEF SweepEnd
  <1>4. ASSUME NEW t \in Threads, Close(t) PROVE ConnInv'
    BY <1>4 DEF Close
  <1>5. ASSUME NEW t \in Threads, Drop(t) PROVE ConnInv'
    BY <1>5 DEF Drop, Leave
  <1>6. ASSUME NEW t \in Threads, Reconnect(t) PROVE ConnInv'
    BY <1>6 DEF Reconnect
  <1>7. ASSUME NEW t \in Threads, Terminate(t) PROVE ConnInv'
    BY <1>7 DEF Terminate
  <1>8. ASSUME NEW c \in Conns, OnServerConnected(c) PROVE ConnInv'
    BY <1>8 DEF OnServerConnected
  <1>9. ASSUME NEW c \in Conns, OnConnectError(c) PROVE ConnInv'
    BY <1>9 DEF OnConnectError
  <1>10. ASSUME NEW c \in Conns, OnServerClosed(c) PROVE ConnInv'
    BY <1>10 DEF OnServerClosed
  <1>11. ASSUME NEW c \in Conns, Break(c) PROVE ConnInv'
    BY <1>11 DEF Break, Becomes
  <1>12. ASSUME NEW c \in Conns, Lose(c) PROVE ConnInv'
    BY <1>12 DEF Lose, Becomes
  <1>13. ASSUME NEW c \in Conns, Closed(c) PROVE ConnInv'
    BY <1>13 DEF Closed, Becomes
  <1>14. CASE ResetCount
    BY <1>14 DEF ResetCount
  <1>15. CASE OnReply
    BY <1>15 DEF OnReply, Read
  <1>16. CASE Decrement
    BY <1>16 DEF Decrement
  <1>17. CASE Join
    BY <1>17 DEF Join
  <1>18. CASE PeerLeft
    BY <1>18 DEF PeerLeft
  <1>19. CASE ConnectCheck
    BY <1>19 DEF ConnectCheck, InternetState
  <1>20. CASE Beat
    BY <1>20 DEF Beat
  <1>21. CASE GiveUp
    BY <1>21 DEF GiveUp
  <1>22. CASE NoSnapshot
    BY <1>22 DEF NoSnapshot
  <1>23. CASE Report
    BY <1>23 DEF Report, Read
  <1>24. CASE Count
    BY <1>24 DEF Count
  <1>25. CASE UNCHANGED linkVars
    BY <1>25 DEF linkVars
  <1>26. QED
    BY <1>1, <1>2, <1>3, <1>4, <1>5, <1>6, <1>7, <1>8, <1>9, <1>10, <1>11,
       <1>12, <1>13, <1>14, <1>15, <1>16, <1>17, <1>18, <1>19, <1>20, <1>21,
       <1>22, <1>23, <1>24, <1>25 DEF LinkNext, CleanupStep

LEMMA LinkInvariant == LinkSpec => []LinkInv
  <1>1. LinkInv /\ [LinkNext]_linkVars => LinkInv'
    BY ThreadStep, PlainStep, CounterStep, ConnStep DEF LinkInv
  <1>2. QED
    BY LinkInitInv, <1>1, PTL DEF LinkSpec

(* Types of the link: in particular the bounds of the count of replies that *)
(* are missing and of the replies that wait in the main loop.               *)
THEOREM LinkTypeCorrect == LinkSpec => []LinkTypeOK
  <1>1. LinkInv => LinkTypeOK
    <2> SUFFICES ASSUME LinkInv PROVE LinkTypeOK
      OBVIOUS
    <2>1. g_wait_reply_cnt \in Counts /\ replies \in 0 .. MAX_WAIT_REPLY_CNT + MaxLost + 2
      BY WatchdogAssumption DEF LinkInv, CounterInv, Counts
    <2>2. read \in [Threads -> Counts]
      BY WatchdogAssumption DEF LinkInv, CounterInv, Counts
    <2>3. pc["main"] \in Cleanup \cup {"loop", "reset", "dec", "sleep", "terminate"}
          /\ pc["heartbit"] \in Cleanup \cup {"beat", "report", "count", "terminate"}
      BY DEF LinkInv, ThreadInv, Threads
    <2>4. QED
      BY <2>1, <2>2, <2>3 DEF LinkTypeOK, LinkInv, ThreadInv, PlainType, CounterInv, ConnInv
  <1>2. QED
    BY LinkInvariant, <1>1, PTL

(* No second connection beside one in use, and ws_conn names the one in     *)
(* use: though the heartbeat and the main thread both close and forget it,  *)
(* and the call backs write ws_conn without the mutex.                      *)
THEOREM OnlyOneConnection == LinkSpec => []OneConnection
  <1>1. LinkInv => OneConnection
    <2> SUFFICES ASSUME LinkInv PROVE OneConnection
      OBVIOUS
    <2> DEFINE Live == {c \in Conns : conn[c] = "connecting" \/ InUse(c)}
    <2>1. \A c, d \in Live : c = d
      BY DEF LinkInv, ConnInv, InUse
    <2>2. Cardinality(Live) <= 1
      <3>1. CASE Live = {}
        BY <3>1, FS_EmptySet
      <3>2. CASE Live # {}
        <4>1. PICK x : x \in Live
          BY <3>2
        <4>2. Live = {x}
          BY <4>1, <2>1
        <4>3. QED
          BY <4>2, FS_Singleton
      <3>3. QED
        BY <3>1, <3>2
    <2>3. QED
      BY <2>2 DEF OneConnection, LinkInv, ConnInv
  <1>2. QED
    BY LinkInvariant, <1>1, PTL

(* When a connection is made every sender of the one before has gone,       *)
(* whichever thread called the cleanup.                                     *)
THEOREM SessionsEndFirst == LinkSpec => []NoStaleSession
  <1>1. LinkInv => NoStaleSession
    BY DEF LinkInv, ConnInv, NoStaleSession
  <1>2. QED
    BY LinkInvariant, <1>1, PTL
=============================================================================
