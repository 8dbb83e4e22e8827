---------------------------- MODULE PeerSessions ----------------------------
(***************************************************************************)
(* The viewer sessions of gstream_main: the peer table of webrtc_peer.c,   *)
(* the UDP control sockets of socket_comm.c, and the start-up, control and *)
(* shut-down of the webrtc_sender process forked for each viewer.          *)
(*                                                                         *)
(* Threads: the GLib main loop of gstream_main (main), the receive thread  *)
(* of each slot's socket, and in each sender its main thread and its       *)
(* receive thread. Each step is one access to what the threads share, or   *)
(* one blocking call.                                                      *)
(*                                                                         *)
(* Refused requests (a duplicate peer, a full table, an unknown channel or *)
(* peer) change nothing in the code and are stuttering steps here.         *)
(***************************************************************************)
EXTENDS Integers, Sequences, FiniteSets

CONSTANTS
  MaxPeerCnt,  \* g_MaxPeerCnt: number of slots
  Peers,       \* viewer identifiers
  Procs,       \* process identifiers fork may return; bounds the forks
  NoPeer,      \* peer_id == NULL
  NoProc,      \* child_pid == 0, and an address no socket is bound to
  PollLimit,   \* rounds add_peer waits for CONNECT (20 in the code)
  RcvBuf       \* datagrams a sender's socket buffer holds before it drops

ASSUME PeerAssumption ==
  /\ MaxPeerCnt \in Nat \ {0}
  /\ PollLimit \in Nat \ {0}
  /\ RcvBuf \in Nat \ {0}
  /\ NoPeer \notin Peers
  /\ NoProc \notin Procs

Slots == 0 .. MaxPeerCnt - 1

VARIABLES
  (* PeerInfo and SOCKETINFO of each slot, in gstream_main *)
  peer,      \* peer_id
  child,     \* child_pid
  connect,   \* socket->connect
  addr,      \* socket->clientaddr, named by the process that owns it
  open,      \* the slot's socket exists
  srv,       \* CONNECT datagrams waiting in the slot's socket, by sender
  (* where gstream_main's main thread is *)
  pc,        \* "idle" "poll" "wait" "sweep" "exit" "dead"
  job,       \* what runs: "add" "remove" "free" "final"
  at,        \* the slot it works on
  polls,     \* i in add_peer_to_pipeline
  (* each webrtc_sender process *)
  phase,     \* where its main thread is
  home,      \* slot whose comm_socket_port it was started with
  serves,    \* the peer_id argument it was started with
  loop,      \* its global "loop" is not NULL
  inbox,     \* datagrams waiting in its socket
  stopped    \* history: handle_peer_message has handled STOP_WEBRTC

parent == <<peer, child, connect, addr, open, srv>>
control == <<pc, job, at, polls>>
senders == <<phase, home, serves, loop, inbox, stopped>>
vars == <<peer, child, connect, addr, open, srv, pc, job, at, polls,
          phase, home, serves, loop, inbox, stopped>>

(* Phases of a sender's main thread.                                        *)
(*   unborn    not forked            boot      up to the CONNECT it sends    *)
(*   mute      CONNECT sent, call_fun still NULL                             *)
(*   setup     in start_pipeline, "loop" still NULL                          *)
(*   made      "loop" created        enter     about to set is_running       *)
(*   run       in g_main_loop_run    teardown  the loop has returned         *)
(*   exited    terminated, waiting to be reaped        reaped                *)
Phases == {"unborn", "boot", "mute", "setup", "made", "enter", "run",
           "teardown", "exited", "reaped"}
Alive(q) == phase[q] \notin {"unborn", "exited", "reaped"}
Unreaped(q) == phase[q] \notin {"unborn", "reaped"}
(* The receive thread calls a handler: call_fun is set.                     *)
Listening(q) == phase[q] \in {"setup", "made", "enter", "run", "teardown"}

Stop(p) == [kind |-> "STOP_WEBRTC", to |-> p]
Forward(p) == [kind |-> "message", to |-> p]
Datagrams == [kind : {"STOP_WEBRTC", "message"}, to : Peers]

TypeOK ==
  /\ peer \in [Slots -> Peers \cup {NoPeer}]
  /\ child \in [Slots -> Procs \cup {NoProc}]
  /\ connect \in [Slots -> BOOLEAN]
  /\ addr \in [Slots -> Procs \cup {NoProc}]
  /\ open \in [Slots -> BOOLEAN]
  /\ srv \in [Slots -> Seq(Procs)]
  /\ pc \in {"idle", "poll", "wait", "sweep", "exit", "dead"}
  /\ job \in {"add", "remove", "free", "final"}
  /\ at \in 0 .. MaxPeerCnt
  /\ polls \in 0 .. PollLimit
  /\ phase \in [Procs -> Phases]
  /\ home \in [Procs -> Slots]
  /\ serves \in [Procs -> Peers \cup {NoPeer}]
  /\ loop \in [Procs -> BOOLEAN]
  /\ inbox \in [Procs -> Seq(Datagrams)]
  /\ stopped \in [Procs -> BOOLEAN]

(* init_webrtc_peer. clientaddr is uninitialised memory there; no sender is *)
(* bound to what it holds.                                                  *)
Init ==
  /\ peer = [i \in Slots |-> NoPeer]
  /\ child = [i \in Slots |-> NoProc]
  /\ connect = [i \in Slots |-> FALSE]
  /\ addr = [i \in Slots |-> NoProc]
  /\ open = [i \in Slots |-> TRUE]
  /\ srv = [i \in Slots |-> <<>>]
  /\ pc = "idle" /\ job = "add" /\ at = 0 /\ polls = 0
  /\ phase = [q \in Procs |-> "unborn"]
  /\ home = [q \in Procs |-> 0]
  /\ serves = [q \in Procs |-> NoPeer]
  /\ loop = [q \in Procs |-> FALSE]
  /\ inbox = [q \in Procs |-> <<>>]
  /\ stopped = [q \in Procs |-> FALSE]
-----------------------------------------------------------------------------
(* gstream_main: the main thread                                            *)

(* The slot that find_peer_index returns for p is the first that holds p.   *)
IsPeerIndex(i, p) == peer[i] = p /\ \A j \in Slots : j < i => peer[j] # p
NeverKnown(p) == FALSE               \* mutant: the duplicate check is missing
KnownPeer(p) == \E i \in Slots : peer[i] = p
FirstFree(i) == peer[i] = NoPeer /\ \A j \in Slots : j < i => peer[j] # NoPeer

(* send_data_socket_comm to the slot's clientaddr: a datagram. It is lost   *)
(* when nothing listens there or when the receiver's buffer is full.        *)
SendTo(i, m) ==
  LET q == addr[i] IN
  inbox' = IF q \in Procs /\ Alive(q) /\ Len(inbox[q]) < RcvBuf
           THEN [inbox EXCEPT ![q] = Append(@, m)]
           ELSE inbox

(* fork and execvp of webrtc_sender for viewer p in slot i, with the port    *)
(* of slot s in its arguments. When fork fails the slot stays taken.        *)
StartSender(p, i, s) ==
  \/ \E q \in Procs :
       /\ phase[q] = "unborn"
       /\ child' = [child EXCEPT ![i] = q]
       /\ phase' = [phase EXCEPT ![q] = "boot"]
       /\ home' = [home EXCEPT ![q] = s]
       /\ serves' = [serves EXCEPT ![q] = p]
       /\ pc' = "poll" /\ job' = "add" /\ polls' = 0
  \/ UNCHANGED <<child, phase, home, serves, pc, job, polls>>

ForkOnBasePort(p, i) == StartSender(p, i, 0)   \* mutant: "+ peer_idx" is missing
Fork(p, i) == StartSender(p, i, i)

(* add_peer_to_pipeline, up to the first poll: take the first free slot,    *)
(* record the peer, then fork.                                              *)
AddPeer(p) ==
  /\ pc = "idle"
  /\ ~KnownPeer(p)
  /\ \E i \in Slots :
       /\ FirstFree(i)
       /\ peer' = [peer EXCEPT ![i] = p]
       /\ at' = i
       /\ Fork(p, i)
  /\ UNCHANGED <<connect, addr, open, srv, loop, inbox, stopped>>

(* One round of the polling loop: sleep(1), then look at "connect". The     *)
(* loop ends on success or after PollLimit rounds, and the function returns  *)
(* TRUE either way. (What it logs of a failure is left out.)                *)
PollClient ==
  /\ pc = "poll"
  /\ \/ connect[at] /\ pc' = "idle" /\ UNCHANGED polls
     \/ /\ ~connect[at]
        /\ polls' = polls + 1
        /\ \/ polls' = PollLimit /\ pc' = "idle"
           \/ polls' < PollLimit /\ UNCHANGED pc
  /\ UNCHANGED <<peer, child, connect, addr, open, srv, job, at, phase, home,
                 serves, loop, inbox, stopped>>

(* handle_peer_message: an answer or a candidate from the signalling server *)
(* goes to the peer's sender.                                               *)
ForwardMessage(p) ==
  /\ pc = "idle"
  /\ \E i \in Slots : IsPeerIndex(i, p) /\ SendTo(i, Forward(p))
  /\ UNCHANGED <<peer, child, connect, addr, open, srv, pc, job, at, polls,
                 phase, home, serves, loop, stopped>>

(* remove_peer_from_pipeline, up to waitpid.                                *)
BeginRemove(i, what) ==
  /\ SendTo(i, Stop(peer[i]))
  /\ pc' = "wait" /\ job' = what /\ at' = i
  /\ UNCHANGED <<peer, child, connect, addr, open, srv, polls, phase,
                 home, serves, loop, stopped>>

RemovePeer(p) ==
  /\ pc = "idle"
  /\ \E i \in Slots : IsPeerIndex(i, p) /\ BeginRemove(i, "remove")

ReapNoHang(i) == UNCHANGED phase     \* mutant: waitpid(..., WNOHANG)

(* waitpid(child_pid, &status, 0) returns: the child has been reaped, now   *)
(* or before. With child_pid == 0 (fork had failed) it waits for any child. *)
Reap(i) ==
  LET q == child[i] IN
  \/ /\ q \in Procs
     /\ phase[q] = "exited"
     /\ phase' = [phase EXCEPT ![q] = "reaped"]
  \/ /\ q \in Procs
     /\ phase[q] = "reaped"
     /\ UNCHANGED phase
  \/ /\ q \notin Procs
     /\ \E r \in Procs : /\ phase[r] = "exited"
                         /\ phase' = [phase EXCEPT ![r] = "reaped"]
  \/ /\ q \notin Procs
     /\ \A r \in Procs : ~Unreaped(r)
     /\ UNCHANGED phase

(* The rest of remove_peer_from_pipeline. clientaddr keeps its value.       *)
ClearSlot ==
  /\ pc = "wait"
  /\ Reap(at)
  /\ peer' = [peer EXCEPT ![at] = NoPeer]
  /\ child' = [child EXCEPT ![at] = NoProc]
  /\ connect' = [connect EXCEPT ![at] = FALSE]
  /\ pc' = IF job = "remove" THEN "idle" ELSE "sweep"
  /\ UNCHANGED <<addr, open, srv, job, at, polls, home, serves, loop,
                 inbox, stopped>>

(* free_webrtc_peer(FALSE), when the signalling connection is lost, and     *)
(* free_webrtc_peer(TRUE), when the main loop has ended.                    *)
BeginSweep(what) ==
  /\ pc = "idle"
  /\ pc' = "sweep" /\ job' = what /\ at' = 0
  /\ UNCHANGED <<peer, child, connect, addr, open, srv, polls, phase,
                 home, serves, loop, inbox, stopped>>
ServerClosed == BeginSweep("free")
Terminate == BeginSweep("final")

(* One slot of the sweep: remove its peer, then (bFinal) close its socket.  *)
SweepPeer ==
  /\ pc = "sweep" /\ at < MaxPeerCnt
  /\ peer[at] # NoPeer
  /\ BeginRemove(at, job)

SweepSlot ==
  /\ pc = "sweep" /\ at < MaxPeerCnt
  /\ peer[at] = NoPeer
  /\ open' = IF job = "final" THEN [open EXCEPT ![at] = FALSE] ELSE open
  /\ at' = at + 1
  /\ UNCHANGED <<peer, child, connect, addr, srv, pc, job, polls,
                 phase, home, serves, loop, inbox, stopped>>

SweepEnd ==
  /\ pc = "sweep" /\ at = MaxPeerCnt
  /\ pc' = IF job = "final" THEN "exit" ELSE "idle"
  /\ UNCHANGED <<peer, child, connect, addr, open, srv, job, at, polls,
                 phase, home, serves, loop, inbox, stopped>>

(* The kernel ends the senders of Q: memory and socket buffers go.          *)
End(Q) ==
  /\ phase' = [q \in Procs |-> IF q \in Q THEN "exited" ELSE phase[q]]
  /\ loop' = [q \in Procs |-> q \notin Q /\ loop[q]]
  /\ inbox' = [q \in Procs |-> IF q \in Q THEN <<>> ELSE inbox[q]]
  /\ stopped' = [q \in Procs |-> q \notin Q /\ stopped[q]]

(* gstream_main ends: its sockets are closed. What is left of the table says *)
(* whose senders were running.                                              *)
Die ==
  /\ pc' = "dead" /\ job' = "final" /\ at' = 0 /\ polls' = 0
  /\ connect' = [i \in Slots |-> FALSE]
  /\ addr' = [i \in Slots |-> NoProc]
  /\ open' = [i \in Slots |-> FALSE]
  /\ srv' = [i \in Slots |-> <<>>]
  /\ UNCHANGED <<peer, child, home, serves>>

(* exit runs on_handle_exit: SIGTERM to the process group, which the        *)
(* senders do not catch.                                                    *)
Exit ==
  /\ pc = "exit"
  /\ Die
  /\ End({q \in Procs : Alive(q)})

(* gstream_main dies of a signal. handle_sigabrt returns, so abort() kills  *)
(* the process without running the exit handlers.                           *)
Abort ==
  /\ pc # "dead"
  /\ Die
  /\ UNCHANGED <<phase, loop, inbox, stopped>>
-----------------------------------------------------------------------------
(* gstream_main: the receive thread of slot i                               *)

(* process_socket_comm_input takes a CONNECT: it keeps the sender's address *)
(* and only then raises the flag add_peer polls.                            *)
RecvConnect(i) ==
  /\ pc # "dead"
  /\ open[i]
  /\ srv[i] # <<>>
  /\ addr' = [addr EXCEPT ![i] = Head(srv[i])]
  /\ connect' = [connect EXCEPT ![i] = TRUE]
  /\ srv' = [srv EXCEPT ![i] = Tail(@)]
  /\ UNCHANGED <<peer, child, open, pc, job, at, polls, phase, home,
                 serves, loop, inbox, stopped>>
-----------------------------------------------------------------------------
(* webrtc_sender: the main thread                                           *)

Go(q, from, to) == phase[q] = from /\ phase' = [phase EXCEPT ![q] = to]

(* main: CONNECT goes to the slot's port, if gstream_main still has it.     *)
SendConnect(q) ==
  /\ Go(q, "boot", "mute")
  /\ srv' = IF pc # "dead" /\ open[home[q]]
            THEN [srv EXCEPT ![home[q]] = Append(@, q)]
            ELSE srv
  /\ UNCHANGED <<peer, child, connect, addr, open, pc, job, at, polls,
                 home, serves, loop, inbox, stopped>>

(* main: call_fun = handle_peer_message, after CONNECT has been sent.       *)
SetHandler(q) ==
  /\ Go(q, "mute", "setup")
  /\ UNCHANGED <<parent, control, home, serves, loop, inbox, stopped>>

(* main: start_pipeline returns (its result is ignored), the loop is made.  *)
MakeLoop(q) ==
  /\ Go(q, "setup", "made")
  /\ loop' = [loop EXCEPT ![q] = TRUE]
  /\ UNCHANGED <<parent, control, home, serves, inbox, stopped>>

(* g_main_loop_run(loop) reads the global: with NULL it returns at once.    *)
EnterLoop(q) ==
  /\ Go(q, "made", IF loop[q] THEN "enter" ELSE "teardown")
  /\ UNCHANGED <<parent, control, home, serves, loop, inbox, stopped>>

(* g_main_loop_run sets is_running, whatever g_main_loop_quit did before.   *)
RunLoop(q) ==
  /\ Go(q, "enter", "run")
  /\ UNCHANGED <<parent, control, home, serves, loop, inbox, stopped>>

(* main, after the loop: the pipeline and the socket are closed, return 0.  *)
Finish(q) ==
  /\ phase[q] = "teardown"
  /\ End({q})
  /\ UNCHANGED <<parent, control, home, serves>>

(* A failed assertion or a fault in the sender.                             *)
Crash(q) ==
  /\ Alive(q)
  /\ End({q})
  /\ UNCHANGED <<parent, control, home, serves>>
-----------------------------------------------------------------------------
(* webrtc_sender: the receive thread and the WebRTC threads                 *)

(* mutant: the loop is forgotten without having been quit *)
DropLoop(q) == loop' = [loop EXCEPT ![q] = FALSE] /\ UNCHANGED phase

(* cleanup_and_quit_loop: nothing happens while "loop" is NULL; a quit that *)
(* finds the loop not running yet is forgotten by g_main_loop_run.          *)
QuitLoop(q) ==
  /\ loop' = [loop EXCEPT ![q] = FALSE]
  /\ phase' = IF loop[q] /\ phase[q] = "run"
              THEN [phase EXCEPT ![q] = "teardown"]
              ELSE phase

(* The receive thread drops what arrives before call_fun is set. A message  *)
(* other than STOP_WEBRTC changes the media session only.                   *)
HandleDatagram(q) ==
  /\ Alive(q)
  /\ inbox[q] # <<>>
  /\ inbox' = [inbox EXCEPT ![q] = Tail(@)]
  /\ \/ /\ Listening(q)
        /\ Head(inbox[q]).kind = "STOP_WEBRTC"
        /\ QuitLoop(q)
        /\ stopped' = [stopped EXCEPT ![q] = TRUE]
     \/ /\ ~Listening(q) \/ Head(inbox[q]).kind # "STOP_WEBRTC"
        /\ UNCHANGED <<phase, loop, stopped>>
  /\ UNCHANGED <<parent, control, home, serves>>

(* The other callers of cleanup_and_quit_loop: a candidate produced outside *)
(* a call, a bad SDP, the last failed pipeline restart.                     *)
GiveUp(q) ==
  /\ Listening(q)
  /\ loop[q]
  /\ QuitLoop(q)
  /\ UNCHANGED <<parent, control, home, serves, inbox, stopped>>
-----------------------------------------------------------------------------
MainStep ==
  \/ \E p \in Peers : AddPeer(p) \/ RemovePeer(p) \/ ForwardMessage(p)
  \/ PollClient \/ ClearSlot
  \/ ServerClosed \/ Terminate \/ SweepPeer \/ SweepSlot \/ SweepEnd
  \/ Exit \/ Abort

SenderMain(q) ==
  \/ SendConnect(q) \/ SetHandler(q) \/ MakeLoop(q) \/ EnterLoop(q)
  \/ RunLoop(q) \/ Finish(q)

Next ==
  \/ MainStep
  \/ \E i \in Slots : RecvConnect(i)
  \/ \E q \in Procs : SenderMain(q) \/ Crash(q) \/ HandleDatagram(q) \/ GiveUp(q)

(* Threads that can run do run. Requests from the signalling server,        *)
(* crashes and WebRTC failures are never forced.                            *)
Fairness ==
  /\ WF_vars(PollClient) /\ WF_vars(ClearSlot) /\ WF_vars(Exit)
  /\ WF_vars(SweepPeer) /\ WF_vars(SweepSlot) /\ WF_vars(SweepEnd)
  /\ \A i \in Slots : WF_vars(RecvConnect(i))
  /\ \A q \in Procs : WF_vars(SenderMain(q)) /\ WF_vars(HandleDatagram(q))

Spec == Init /\ [][Next]_vars
FairSpec == Spec /\ Fairness
-----------------------------------------------------------------------------
(* Properties                                                               *)

(* No viewer holds two slots, so that find_peer_index names the session of  *)
(* a viewer and not only the first of several.                              *)
PeerOnce ==
  \A i, j \in Slots : peer[i] = peer[j] /\ peer[i] # NoPeer => i = j

(* A sender that has not been reaped is the one its slot records, serving   *)
(* the viewer its slot records: no sender outlives its session, none is     *)
(* forgotten, and no two share a slot's ports. What keeps this true is that *)
(* remove_peer_from_pipeline waits for the process before it frees the slot.*)
NoLostSender ==
  \A q \in Procs : Unreaped(q) => /\ child[home[q]] = q
                                  /\ peer[home[q]] = serves[q]
                                  /\ serves[q] # NoPeer

(* clientaddr is never reset, and CONNECTs may be read late. Still, a slot  *)
(* whose address leads to a live sender leads to the sender of the viewer   *)
(* who holds the slot, and a sender is only ever sent messages meant for    *)
(* its own viewer.                                                          *)
RightSender ==
  /\ \A i \in Slots : addr[i] \in Procs /\ Alive(addr[i])
                        => peer[i] = serves[addr[i]]
  /\ \A q \in Procs : \A k \in 1 .. Len(inbox[q]) : inbox[q][k].to = serves[q]

(* main is inside waitpid for a sender that can hear it: its main loop runs *)
(* and STOP_WEBRTC is on its way.                                           *)
StopUnderWay(i) ==
  /\ pc = "wait" /\ at = i
  /\ child[i] \in Procs
  /\ phase[child[i]] = "run" /\ loop[child[i]]
  /\ \E k \in 1 .. Len(inbox[child[i]]) : inbox[child[i]][k].kind = "STOP_WEBRTC"

(* Then the wait ends and the slot becomes free, unless gstream_main dies.  *)
StopFreesSlot ==
  \A i \in Slots : StopUnderWay(i) ~> (peer[i] = NoPeer \/ pc = "dead")

(* The table implements what PeerTable promises.                            *)
Table == INSTANCE PeerTable WITH
  session <- peer,
  up <- [i \in Slots |-> \E q \in Procs : Unreaped(q) /\ home[q] = i]
TableSpec == Table!Spec

(* webrtc_sender.c:510 logs "STOP_WEBRTC Message ... Exit program" when a   *)
(* sender handles the message: the sender then ends. (It may not: the       *)
(* message does nothing while "loop" is NULL.)                              *)
StopExits == \A q \in Procs : stopped[q] ~> ~Alive(q)
=============================================================================
