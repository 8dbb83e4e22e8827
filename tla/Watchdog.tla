------------------------------ MODULE Watchdog ------------------------------
(***************************************************************************)
(* The link of gstream_main to the signalling server, and the watchdog     *)
(* over it: the reports of the heartbeat thread and their replies, the     *)
(* cleanup_and_retry_connect that the heartbeat and the main thread call,  *)
(* the reconnection, and the check of the Internet each minute.            *)
(*                                                                         *)
(* Each step is one access to what the threads share, or a blocking call.  *)
(* libsoup, the server and stop.sh are external. The sessions of viewers   *)
(* are counted here; PeerSessions has their control.                       *)
(***************************************************************************)
EXTENDS Integers, FiniteSets

CONSTANTS
  MAX_WAIT_REPLY_CNT,
  Conns,      \* connections: a bound on those that are not over
  NULL,
  MaxPeers,   \* bound on the viewers
  MaxLost     \* bound on the updates of g_wait_reply_cnt that are lost

Threads == {"main", "heartbit"}

ASSUME WatchdogAssumption ==
  /\ MAX_WAIT_REPLY_CNT \in Nat /\ MaxPeers \in Nat /\ MaxLost \in Nat
  /\ NULL \notin Conns \cup Threads

VARIABLES
  g_app_state, ws_conn, g_wait_reply_cnt, internet_state,
  pc,          \* where each thread is
  held,        \* who holds g_retry_connect_mutex
  read,        \* what each thread has read of g_wait_reply_cnt
  conn,        \* state of each connection
  replies,     \* camstatus_reply messages waiting in the main loop
  peers,       \* viewers with a sender
  stopped,     \* stop.sh has ended the program
  lost         \* updates lost so far

linkVars == <<g_app_state, ws_conn, g_wait_reply_cnt, internet_state, pc, held, read,
          conn, replies, peers, stopped, lost>>
link == <<ws_conn, conn, replies>>
counter == <<g_wait_reply_cnt, read, lost>>

(* main:     loop, reset (registered, the count not yet set to 0), dec       *)
(* heartbit: beat, report, count                                            *)
(* either:   in cleanup_and_retry_connect lock, sweep, close, drop, and      *)
(*           sleep; in terminate_program terminate                          *)
Cleanup == {"lock", "sweep", "close", "drop"}

(* over: closed, its "closed" signal waits in the main loop.                *)
States == {"none", "connecting", "open", "silent", "closing", "over"}
InUse(c) == conn[c] \in {"open", "silent"}

Counts == -(MaxLost + 1) .. MAX_WAIT_REPLY_CNT + MaxLost + 1

LinkTypeOK ==
  /\ g_app_state \in {"UNKNOWN", "ERROR_TIMEOUT", "CONNECTING", "CONNECTION_ERROR",
                      "REGISTERING", "CLOSED"}
  /\ ws_conn \in Conns \cup {NULL}
  /\ g_wait_reply_cnt \in Counts
  /\ internet_state \in {"INIT", "CONNECTED", "DISCONNECTED", "RECONNECTED"}
  /\ pc["main"] \in Cleanup \cup {"loop", "reset", "dec", "sleep", "terminate"}
  /\ pc["heartbit"] \in Cleanup \cup {"beat", "report", "count", "terminate"}
  /\ held \in Threads \cup {NULL}
  /\ read \in [Threads -> Counts]
  /\ conn \in [Conns -> States]
  /\ replies \in 0 .. MAX_WAIT_REPLY_CNT + MaxLost + 2
  /\ peers \in 0 .. MaxPeers
  /\ stopped \in BOOLEAN
  /\ lost \in 0 .. MaxLost

(* main has called connect_to_websocket_server_async.                       *)
LinkInit ==
  /\ g_app_state = "CONNECTING" /\ ws_conn = NULL
  /\ g_wait_reply_cnt = 0 /\ internet_state = "INIT"
  /\ pc = [main |-> "loop", heartbit |-> "beat"]
  /\ held = NULL
  /\ read = [t \in Threads |-> 0]
  /\ \E c \in Conns : conn = [d \in Conns |-> IF d = c THEN "connecting" ELSE "none"]
  /\ replies = 0 /\ peers = 0 /\ stopped = FALSE /\ lost = 0

At(t, from) == ~stopped /\ pc[t] = from
Go(t, from, to) == At(t, from) /\ pc' = [pc EXCEPT ![t] = to]
-----------------------------------------------------------------------------
(* cleanup_and_retry_connect, in thread t. The heartbeat calls it with       *)
(* APP_STATE_ERROR_TIMEOUT, the main thread with the state in "error", or    *)
(* with none when the server has closed the connection.                     *)

Lock(t) ==
  /\ Go(t, "lock", "sweep")
  /\ held = NULL /\ held' = t
  /\ g_app_state' = IF t = "heartbit" THEN "ERROR_TIMEOUT" ELSE g_app_state
  /\ UNCHANGED <<internet_state, link, counter, peers, stopped>>

(* free_webrtc_peer(FALSE): waitpid for each sender in turn.                *)
SweepPeer(t) ==
  /\ At(t, "sweep") /\ peers > 0
  /\ peers' = peers - 1
  /\ UNCHANGED <<g_app_state, internet_state, pc, held, link, counter, stopped>>

\* mutant: the sessions are left to the next connection
KeepPeers(t) ==
  /\ Go(t, "sweep", "close")
  /\ UNCHANGED <<g_app_state, internet_state, held, link, counter, peers, stopped>>

SweepEnd(t) ==
  /\ Go(t, "sweep", "close") /\ peers = 0
  /\ UNCHANGED <<g_app_state, internet_state, held, link, counter, peers, stopped>>

(* An open connection is closed: "This will call us again". Else the object  *)
(* is released.                                                             *)
Close(t) ==
  /\ At(t, "close") /\ ws_conn # NULL
  /\ pc' = [pc EXCEPT ![t] = "drop"]
  /\ conn' = IF InUse(ws_conn) THEN [conn EXCEPT ![ws_conn] = "closing"] ELSE conn
  /\ UNCHANGED <<g_app_state, ws_conn, internet_state, held, replies, counter,
                 peers, stopped>>

\* mutant: after a timeout too the connection is made again here
LeaveAlways(t) ==
  /\ pc' = [pc EXCEPT ![t] = "sleep"] /\ UNCHANGED held

(* After a timeout the mutex is released here, and the caller stops the     *)
(* program. The main thread sleeps ten seconds with the mutex.              *)
Leave(t) ==
  IF t = "heartbit"
    THEN pc' = [pc EXCEPT ![t] = "terminate"] /\ held' = NULL
    ELSE pc' = [pc EXCEPT ![t] = "sleep"] /\ UNCHANGED held

Drop(t) ==
  /\ \/ At(t, "drop")
     \/ At(t, "close") /\ ws_conn = NULL
  /\ ws_conn' = NULL
  /\ Leave(t)
  /\ UNCHANGED <<g_app_state, internet_state, conn, replies, counter, peers,
                 stopped>>

(* connect_to_websocket_server_async, whose call back comes later.          *)
Reconnect(t) ==
  /\ At(t, "sleep")
  /\ pc' = [pc EXCEPT ![t] = IF t = "main" THEN "loop" ELSE "terminate"]
  /\ \E c \in Conns :
       /\ conn[c] = "none" /\ ws_conn # c
       /\ conn' = [conn EXCEPT ![c] = "connecting"]
  /\ g_app_state' = "CONNECTING"
  /\ held' = NULL
  /\ UNCHANGED <<ws_conn, internet_state, replies, counter, peers, stopped>>

(* terminate_program: three seconds later stop.sh kills the program.        *)
Terminate(t) ==
  /\ At(t, "terminate")
  /\ stopped' = TRUE
  /\ UNCHANGED <<g_app_state, internet_state, pc, held, link, counter, peers>>
-----------------------------------------------------------------------------
(* The main thread                                                          *)

(* on_server_connected: registered; the count is set to 0 afterwards.       *)
(* (SERVER_CONNECTED is overwritten at once.)                               *)
OnServerConnected(c) ==
  /\ Go("main", "loop", "reset") /\ conn[c] = "connecting"
  /\ conn' = [conn EXCEPT ![c] = "open"]
  /\ ws_conn' = c
  /\ g_app_state' = "REGISTERING"
  /\ replies' = 0
  /\ UNCHANGED <<internet_state, held, counter, peers, stopped>>

ResetCount ==
  /\ Go("main", "reset", "loop")
  /\ g_wait_reply_cnt' = 0
  /\ UNCHANGED <<g_app_state, internet_state, held, link, read, lost, peers, stopped>>

\* mutant: an error is only noted
OnlyNoteError(c) ==
  /\ At("main", "loop") /\ conn[c] = "connecting"
  /\ conn' = [conn EXCEPT ![c] = "none"]
  /\ g_app_state' = "CONNECTION_ERROR"
  /\ UNCHANGED <<ws_conn, internet_state, pc, held, replies, counter, peers,
                 stopped>>

OnConnectError(c) ==
  /\ Go("main", "loop", "lock") /\ conn[c] = "connecting"
  /\ conn' = [conn EXCEPT ![c] = "none"]
  /\ ws_conn' = NULL
  /\ g_app_state' = "CONNECTION_ERROR"
  /\ UNCHANGED <<internet_state, held, replies, counter, peers, stopped>>

OnServerClosed(c) ==
  /\ Go("main", "loop", "lock") /\ conn[c] = "over"
  /\ conn' = [conn EXCEPT ![c] = "none"]
  /\ g_app_state' = "CLOSED"
  /\ replies' = 0
  /\ UNCHANGED <<ws_conn, internet_state, held, counter, peers, stopped>>

(* on_server_message of camstatus_reply: the count is read, then written.   *)
(* Of two threads that have read it at once, one update is lost.            *)
Read(t, u) ==
  /\ read' = [read EXCEPT ![t] = g_wait_reply_cnt]
  /\ \/ pc[u] \notin {"dec", "reset", "count"} /\ UNCHANGED lost
     \/ pc[u] \in {"dec", "reset", "count"} /\ lost < MaxLost /\ lost' = lost + 1

OnReply ==
  /\ Go("main", "loop", "dec") /\ replies > 0
  /\ Read("main", "heartbit")
  /\ replies' = replies - 1
  /\ UNCHANGED <<g_app_state, ws_conn, g_wait_reply_cnt, internet_state, held, conn,
                 peers, stopped>>

Decrement ==
  /\ Go("main", "dec", "loop")
  /\ g_wait_reply_cnt' = read["main"] - 1
  /\ UNCHANGED <<g_app_state, ws_conn, internet_state, held, conn, replies, read, lost,
                 peers, stopped>>

(* on_server_message of ROOM_PEER_JOINED and ROOM_PEER_LEFT.                *)
Join ==
  /\ At("main", "loop") /\ \E c \in Conns : conn[c] = "open"
  /\ peers < MaxPeers /\ peers' = peers + 1
  /\ UNCHANGED <<g_app_state, internet_state, pc, held, link, counter, stopped>>

PeerLeft ==
  /\ At("main", "loop") /\ \E c \in Conns : conn[c] = "open"
  /\ peers > 0 /\ peers' = peers - 1
  /\ UNCHANGED <<g_app_state, internet_state, pc, held, link, counter, stopped>>

(* get_internet_state                                                       *)
InternetState(s, up) ==
  CASE s \in {"CONNECTED", "RECONNECTED"} -> IF up THEN s ELSE "DISCONNECTED"
    [] s = "DISCONNECTED" -> IF up THEN "RECONNECTED" ELSE s
    [] s = "INIT" -> IF up THEN "CONNECTED" ELSE s

(* connect_check_callback: once the Internet has come back, any minute in   *)
(* which the program is not registered is its last.                         *)
ConnectCheck ==
  /\ At("main", "loop")
  /\ \E up \in BOOLEAN : internet_state' = InternetState(internet_state, up)
  /\ pc' = IF internet_state' = "RECONNECTED" /\ g_app_state # "REGISTERING"
           THEN [pc EXCEPT !["main"] = "terminate"] ELSE pc
  /\ UNCHANGED <<g_app_state, held, link, counter, peers, stopped>>
-----------------------------------------------------------------------------
(* The heartbeat thread                                                     *)

(* process_heartbit, the third tick of three.                               *)
Beat ==
  /\ Go("heartbit", "beat", "report")
  /\ g_app_state = "REGISTERING"
  /\ UNCHANGED <<g_app_state, internet_state, held, link, counter, peers, stopped>>

(* send_camera_info_to_server: too many replies are missing.                *)
GiveUp ==
  /\ Go("heartbit", "report", "lock")
  /\ g_wait_reply_cnt > MAX_WAIT_REPLY_CNT
  /\ UNCHANGED <<g_app_state, internet_state, held, link, counter, peers, stopped>>

(* A snapshot file cannot be read: nothing is sent and nothing counted.     *)
NoSnapshot ==
  /\ Go("heartbit", "report", "beat")
  /\ g_wait_reply_cnt <= MAX_WAIT_REPLY_CNT
  /\ UNCHANGED <<g_app_state, internet_state, held, link, counter, peers, stopped>>

(* The report goes out on ws_conn, if that is in use, and an open           *)
(* connection brings a reply; then the count is read.                       *)
Report ==
  /\ Go("heartbit", "report", "count")
  /\ g_wait_reply_cnt <= MAX_WAIT_REPLY_CNT
  /\ Read("heartbit", "main")
  /\ replies' = IF ws_conn # NULL /\ conn[ws_conn] = "open" THEN replies + 1 ELSE replies
  /\ UNCHANGED <<g_app_state, ws_conn, g_wait_reply_cnt, internet_state, held, conn,
                 peers, stopped>>

\* mutant: a report is not counted
NoCount ==
  /\ Go("heartbit", "count", "beat")
  /\ UNCHANGED <<g_app_state, internet_state, held, link, counter, peers, stopped>>

Count ==
  /\ Go("heartbit", "count", "beat")
  /\ g_wait_reply_cnt' = read["heartbit"] + 1
  /\ UNCHANGED <<g_app_state, internet_state, held, link, read, lost, peers, stopped>>
-----------------------------------------------------------------------------
(* The network                                                              *)

Becomes(c, from, to) ==
  /\ ~stopped /\ conn[c] \in from
  /\ conn' = [conn EXCEPT ![c] = to]
  /\ UNCHANGED <<g_app_state, ws_conn, internet_state, pc, held, replies,
                 counter, peers, stopped>>

(* The server stops answering, and nothing says so.                         *)
Break(c) == Becomes(c, {"open"}, "silent")
(* The connection is found to be closed.                                    *)
Lose(c) == Becomes(c, {"open", "silent"}, "over")
(* A close that was asked for is done.                                      *)
Closed(c) == Becomes(c, {"closing"}, "over")
-----------------------------------------------------------------------------
CleanupStep(t) ==
  Lock(t) \/ SweepEnd(t) \/ Close(t) \/ Drop(t) \/ Reconnect(t) \/ Terminate(t)

LinkNext ==
  \/ \E t \in Threads : SweepPeer(t) \/ CleanupStep(t)
  \/ \E c \in Conns :
       \/ OnServerConnected(c) \/ OnConnectError(c) \/ OnServerClosed(c)
       \/ Break(c) \/ Lose(c) \/ Closed(c)
  \/ ResetCount \/ OnReply \/ Decrement \/ Join \/ PeerLeft \/ ConnectCheck
  \/ Beat \/ GiveUp \/ NoSnapshot \/ Report \/ Count

LinkSpec == LinkInit /\ [][LinkNext]_linkVars

(* Both threads run. What the main loop has to deliver is delivered, also   *)
(* when other messages come first. A server that is asked again and again   *)
(* answers at last, and the camera writes its snapshots again and again.    *)
(* That a sender exits when it is waited for is not assumed.                *)
LinkFairness ==
  /\ WF_linkVars(CleanupStep("main") \/ ResetCount \/ Decrement)
  /\ WF_linkVars(CleanupStep("heartbit") \/ Beat \/ GiveUp \/ Count)
  /\ WF_linkVars(\E c \in Conns : Closed(c))
  /\ SF_linkVars(\E c \in Conns : OnServerConnected(c))
  /\ SF_linkVars(\E c \in Conns : OnServerClosed(c))
  /\ SF_linkVars(Report)

LinkFairSpec == LinkSpec /\ LinkFairness
-----------------------------------------------------------------------------
(* Properties                                                               *)

(* Two threads close, forget and make connections, and ws_conn is written   *)
(* without the mutex: yet no second connection is made beside one in use,   *)
(* and the one in use is the one that ws_conn names.                        *)
OneConnection ==
  /\ Cardinality({c \in Conns : conn[c] = "connecting" \/ InUse(c)}) <= 1
  /\ \A c \in Conns : InUse(c) => ws_conn = c

(* A connection is made only when the senders of the one before have gone:  *)
(* free_webrtc_peer has waited for each, whichever thread called it.        *)
NoStaleSession == (\E c \in Conns : conn[c] = "connecting") => peers = 0

WaitsForSender == peers > 0 /\ \E t \in Threads : pc[t] = "sweep"

(* A connection that has fallen silent ends the program, unless it is found *)
(* to be closed: nothing but a sender that does not exit holds the watchdog *)
(* up.                                                                      *)
BrokenStops ==
  \A c \in Conns : conn[c] = "silent" ~> (stopped \/ conn[c] # "silent" \/ WaitsForSender)

(* A connection that is lost is made again, in this run of the program or   *)
(* in the next.                                                             *)
Reconnects == ws_conn = NULL ~> (ws_conn # NULL \/ stopped \/ WaitsForSender)
=============================================================================
