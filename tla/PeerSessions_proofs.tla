------------------------ MODULE PeerSessions_proofs ------------------------
(***************************************************************************)
(* Theorems about PeerSessions, for every number of slots, viewers,        *)
(* processes, poll rounds and every buffer size.                           *)
(*                                                                         *)
(* The inductive invariant adds to the invariants the runs check what the  *)
(* UDP side remembers: an address kept in a slot, a CONNECT still queued   *)
(* at its socket and a datagram in a sender's buffer all belong to a       *)
(* sender that was forked for that slot and that viewer.                   *)
(***************************************************************************)
EXTENDS PeerSessions, SequenceTheorems, TLAPS

(* While main waits for a process, it does so for a slot that is taken.     *)
Waiting == /\ pc \in {"poll", "wait"} => at \in Slots
           /\ pc = "wait" => peer[at] # NoPeer

(* q was forked with slot i's port among its arguments.                     *)
StartedFor(q, i) == home[q] = i /\ phase[q] # "unborn"

Addresses ==
  \A i \in Slots : /\ addr[i] \in Procs => StartedFor(addr[i], i)
                   /\ \A k \in 1 .. Len(srv[i]) : StartedFor(srv[i][k], i)

Tagged ==
  \A q \in Procs : /\ phase[q] = "unborn" => inbox[q] = <<>>
                   /\ \A k \in 1 .. Len(inbox[q]) : inbox[q][k].to = serves[q]

IInv ==
  /\ TypeOK
  /\ PeerOnce
  /\ NoLostSender
  /\ Waiting
  /\ Addresses
  /\ Tagged
-----------------------------------------------------------------------------
(* Type correctness                                                         *)

LEMMA SlotsNat == Slots \subseteq Nat /\ 0 \in 0 .. MaxPeerCnt /\ 0 \in Slots
  BY PeerAssumption DEF Slots

LEMMA InitType == Init => TypeOK
  <1> SUFFICES ASSUME Init PROVE TypeOK
    OBVIOUS
  <1> USE SlotsNat, PeerAssumption DEF Init
  <1>1. polls \in 0 .. PollLimit
    OBVIOUS
  <1>2. phase \in [Procs -> Phases]
    BY DEF Phases
  <1>3. srv \in [Slots -> Seq(Procs)] /\ inbox \in [Procs -> Seq(Datagrams)]
    OBVIOUS
  <1> QED
    BY <1>1, <1>2, <1>3 DEF TypeOK

(* A datagram joins a sender's buffer or is lost.                           *)
LEMMA SendToType ==
  ASSUME TypeOK, NEW i \in Slots, NEW m \in Datagrams, SendTo(i, m)
  PROVE  inbox' \in [Procs -> Seq(Datagrams)]
  <1>1. inbox \in [Procs -> Seq(Datagrams)]
    BY DEF TypeOK
  <1>2. CASE inbox' = inbox
    BY <1>1, <1>2
  <1>3. CASE addr[i] \in Procs /\ inbox' = [inbox EXCEPT ![addr[i]] = Append(@, m)]
    BY <1>1, <1>3
  <1> QED
    BY <1>2, <1>3 DEF SendTo

LEMMA EndType ==
  ASSUME TypeOK, NEW Q \in SUBSET Procs, End(Q)
  PROVE  /\ phase' \in [Procs -> Phases]
         /\ loop' \in [Procs -> BOOLEAN]
         /\ inbox' \in [Procs -> Seq(Datagrams)]
         /\ stopped' \in [Procs -> BOOLEAN]
  BY DEF End, TypeOK, Phases

LEMMA DieType ==
  ASSUME TypeOK, Die
  PROVE  /\ pc' = "dead" /\ job' = "final" /\ at' \in 0 .. MaxPeerCnt
         /\ polls' \in 0 .. PollLimit
         /\ connect' \in [Slots -> BOOLEAN]
         /\ addr' \in [Slots -> Procs \cup {NoProc}]
         /\ open' \in [Slots -> BOOLEAN]
         /\ srv' \in [Slots -> Seq(Procs)]
         /\ UNCHANGED <<peer, child, home, serves>>
  <1>1. polls' \in 0 .. PollLimit /\ at' \in 0 .. MaxPeerCnt
    BY PeerAssumption DEF Die
  <1>2. srv' \in [Slots -> Seq(Procs)]
    BY DEF Die
  <1>3. connect' \in [Slots -> BOOLEAN] /\ open' \in [Slots -> BOOLEAN]
    BY DEF Die
  <1>4. addr' \in [Slots -> Procs \cup {NoProc}]
    BY DEF Die
  <1> QED
    BY <1>1, <1>2, <1>3, <1>4 DEF Die

LEMMA QuitLoopType ==
  ASSUME TypeOK, NEW q \in Procs, QuitLoop(q)
  PROVE  loop' \in [Procs -> BOOLEAN] /\ phase' \in [Procs -> Phases]
  BY DEF QuitLoop, TypeOK, Phases

LEMMA MainType == TypeOK /\ MainStep => TypeOK'
  <1> SUFFICES ASSUME TypeOK, MainStep PROVE TypeOK'
    OBVIOUS
  <1> USE PeerAssumption, SlotsNat
  <1>1. ASSUME NEW p \in Peers, AddPeer(p) PROVE TypeOK'
    <2> PICK i \in Slots : /\ peer' = [peer EXCEPT ![i] = p]
                           /\ at' = i /\ Fork(p, i)
      BY <1>1 DEF AddPeer
    <2>1. UNCHANGED <<connect, addr, open, srv, loop, inbox, stopped>>
      BY <1>1 DEF AddPeer
    <2>2. at' \in 0 .. MaxPeerCnt
      BY DEF Slots
    <2>3. CASE UNCHANGED <<child, phase, home, serves, pc, job, polls>>
      BY <2>1, <2>2, <2>3 DEF TypeOK
    <2>4. ASSUME NEW q \in Procs,
                 child' = [child EXCEPT ![i] = q],
                 phase' = [phase EXCEPT ![q] = "boot"],
                 home' = [home EXCEPT ![q] = i],
                 serves' = [serves EXCEPT ![q] = p],
                 pc' = "poll" /\ job' = "add" /\ polls' = 0
          PROVE  TypeOK'
      <3>1. phase' \in [Procs -> Phases]
        BY <2>4 DEF TypeOK, Phases
      <3>2. polls' \in 0 .. PollLimit
        BY <2>4
      <3>3. child' \in [Slots -> Procs \cup {NoProc}] /\ home' \in [Procs -> Slots]
        BY <2>4 DEF TypeOK
      <3>4. serves' \in [Procs -> Peers \cup {NoPeer}] /\ peer' \in [Slots -> Peers \cup {NoPeer}]
        BY <2>4 DEF TypeOK
      <3> QED
        BY <2>1, <2>2, <2>4, <3>1, <3>2, <3>3, <3>4 DEF TypeOK
    <2> QED
      BY <2>3, <2>4 DEF Fork, StartSender
  <1>2. ASSUME NEW i \in Slots, NEW what \in {"remove", "free", "final"},
               peer[i] \in Peers, BeginRemove(i, what)
        PROVE  TypeOK'
    <2>1. Stop(peer[i]) \in Datagrams
      BY <1>2 DEF Stop, Datagrams
    <2>2. inbox' \in [Procs -> Seq(Datagrams)]
      BY <1>2, <2>1, SendToType DEF BeginRemove
    <2>3. at' \in 0 .. MaxPeerCnt
      BY <1>2 DEF BeginRemove, Slots
    <2> QED
      BY <1>2, <2>2, <2>3 DEF BeginRemove, TypeOK
  <1>3. ASSUME NEW p \in Peers, RemovePeer(p) PROVE TypeOK'
    BY <1>2, <1>3 DEF RemovePeer, IsPeerIndex
  <1>4. ASSUME NEW p \in Peers, ForwardMessage(p) PROVE TypeOK'
    <2>1. Forward(p) \in Datagrams
      BY DEF Forward, Datagrams
    <2>2. inbox' \in [Procs -> Seq(Datagrams)]
      BY <1>4, <2>1, SendToType DEF ForwardMessage
    <2> QED
      BY <1>4, <2>2 DEF ForwardMessage, TypeOK
  <1>5. CASE PollClient
    <2>1. polls' \in 0 .. PollLimit
      BY <1>5 DEF PollClient, TypeOK
    <2>2. pc' \in {"idle", "poll"}
      BY <1>5 DEF PollClient, TypeOK
    <2>3. UNCHANGED <<peer, child, connect, addr, open, srv, job, at, phase,
                      home, serves, loop, inbox, stopped>>
      BY <1>5 DEF PollClient
    <2> QED
      BY <2>1, <2>2, <2>3 DEF TypeOK
  <1>6. CASE ClearSlot
    <2>1. phase' \in [Procs -> Phases]
      <3>1. CASE UNCHANGED phase
        BY <3>1 DEF TypeOK
      <3>2. CASE \E q \in Procs : phase' = [phase EXCEPT ![q] = "reaped"]
        BY <3>2 DEF TypeOK, Phases
      <3> QED
        BY <1>6, <3>1, <3>2 DEF ClearSlot, Reap
    <2> QED
      BY <1>6, <2>1 DEF ClearSlot, TypeOK
  <1>7. CASE ServerClosed \/ Terminate
    BY <1>7 DEF ServerClosed, Terminate, BeginSweep, TypeOK
  <1>8. CASE SweepPeer
    <2>1. at \in Slots /\ peer[at] \in Peers
      BY <1>8 DEF SweepPeer, Slots, TypeOK
    <2>2. CASE job \in {"remove", "free", "final"}
      BY <1>2, <1>8, <2>1, <2>2 DEF SweepPeer
    <2>3. CASE job = "add"
      <3>1. Stop(peer[at]) \in Datagrams
        BY <2>1 DEF Stop, Datagrams
      <3>2. inbox' \in [Procs -> Seq(Datagrams)]
        BY <1>8, <2>1, <3>1, SendToType DEF SweepPeer, BeginRemove
      <3> QED
        BY <1>8, <3>2 DEF SweepPeer, BeginRemove, TypeOK
    <2> QED
      BY <2>2, <2>3 DEF TypeOK
  <1>9. CASE SweepSlot
    <2>1. at' \in 0 .. MaxPeerCnt
      BY <1>9 DEF SweepSlot, TypeOK
    <2>2. open' \in [Slots -> BOOLEAN]
      BY <1>9 DEF SweepSlot, TypeOK
    <2> QED
      BY <1>9, <2>1, <2>2 DEF SweepSlot, TypeOK
  <1>10. CASE SweepEnd
    BY <1>10 DEF SweepEnd, TypeOK
  <1>11. CASE Exit
    <2>1. {q \in Procs : Alive(q)} \in SUBSET Procs
      OBVIOUS
    <2> QED
      BY <1>11, <2>1, DieType, EndType DEF Exit, TypeOK
  <1>12. CASE Abort
    BY <1>12, DieType DEF Abort, TypeOK
  <1> QED
    BY <1>1, <1>3, <1>4, <1>5, <1>6, <1>7, <1>8, <1>9, <1>10, <1>11, <1>12
    DEF MainStep

LEMMA OtherType ==
  ASSUME TypeOK,
         \/ \E i \in Slots : RecvConnect(i)
         \/ \E q \in Procs : SenderMain(q) \/ Crash(q) \/ HandleDatagram(q) \/ GiveUp(q)
  PROVE  TypeOK'
  <1> USE DEF parent, control
  <1>1. ASSUME NEW i \in Slots, RecvConnect(i) PROVE TypeOK'
    <2>1. srv[i] \in Seq(Procs) /\ srv[i] # <<>>
      BY <1>1 DEF RecvConnect, TypeOK
    <2>2. Head(srv[i]) \in Procs /\ Tail(srv[i]) \in Seq(Procs)
      BY <2>1
    <2> QED
      BY <1>1, <2>2 DEF RecvConnect, TypeOK
  <1>2. ASSUME NEW q \in Procs, SendConnect(q) PROVE TypeOK'
    <2>1. srv' \in [Slots -> Seq(Procs)]
      BY <1>2 DEF SendConnect, TypeOK
    <2> QED
      BY <1>2, <2>1 DEF SendConnect, Go, TypeOK, Phases
  <1>3. ASSUME NEW q \in Procs, SetHandler(q) \/ EnterLoop(q) \/ RunLoop(q) PROVE TypeOK'
    BY <1>3 DEF SetHandler, EnterLoop, RunLoop, Go, TypeOK, Phases
  <1>4. ASSUME NEW q \in Procs, MakeLoop(q) PROVE TypeOK'
    BY <1>4 DEF MakeLoop, Go, TypeOK, Phases
  <1>5. ASSUME NEW q \in Procs, Finish(q) \/ Crash(q) PROVE TypeOK'
    BY <1>5, EndType DEF Finish, Crash, TypeOK
  <1>6. ASSUME NEW q \in Procs, HandleDatagram(q) PROVE TypeOK'
    <2>1. inbox' \in [Procs -> Seq(Datagrams)]
      BY <1>6 DEF HandleDatagram, TypeOK
    <2>2. loop' \in [Procs -> BOOLEAN] /\ phase' \in [Procs -> Phases]
      BY <1>6, QuitLoopType DEF HandleDatagram, TypeOK
    <2> QED
      BY <1>6, <2>1, <2>2 DEF HandleDatagram, TypeOK
  <1>7. ASSUME NEW q \in Procs, GiveUp(q) PROVE TypeOK'
    BY <1>7, QuitLoopType DEF GiveUp, TypeOK
  <1> QED
    BY <1>1, <1>2, <1>3, <1>4, <1>5, <1>6, <1>7 DEF SenderMain

LEMMA StutterType == TypeOK /\ UNCHANGED vars => TypeOK'
  BY DEF TypeOK, vars

LEMMA TypeStep == TypeOK /\ [Next]_vars => TypeOK'
  BY MainType, OtherType, StutterType DEF Next

(* Every variable always has its type: no step of the table, of a socket or *)
(* of a sender leaves the values the code gives them.                       *)
THEOREM TypeCorrect == Spec => []TypeOK
  BY InitType, TypeStep, PTL DEF Spec
-----------------------------------------------------------------------------
(* Steps that leave the table and the set of live sessions alone            *)

Quiet ==
  /\ UNCHANGED <<peer, child, home, serves>>
  /\ \A q \in Procs : /\ Unreaped(q)' <=> Unreaped(q)
                      /\ (phase'[q] = "unborn") <=> (phase[q] = "unborn")

LEMMA GoQuiet ==
  ASSUME TypeOK, NEW q \in Procs, NEW from, NEW to, Go(q, from, to),
         from \notin {"unborn", "reaped"}, to \notin {"unborn", "reaped"},
         UNCHANGED <<peer, child, home, serves>>
  PROVE  Quiet
  BY DEF Go, Quiet, Unreaped, TypeOK

LEMMA EndQuiet ==
  ASSUME TypeOK, NEW Q \in SUBSET Procs, \A q \in Q : Alive(q), End(Q),
         UNCHANGED <<peer, child, home, serves>>
  PROVE  Quiet
  BY DEF End, Quiet, Unreaped, Alive, TypeOK

LEMMA QuitLoopQuiet ==
  ASSUME TypeOK, NEW q \in Procs, QuitLoop(q), UNCHANGED <<peer, child, home, serves>>
  PROVE  Quiet
  BY DEF QuitLoop, Quiet, Unreaped, TypeOK

LEMMA SamePhasesQuiet ==
  UNCHANGED <<peer, child, home, serves, phase>> => Quiet
  BY DEF Quiet, Unreaped

(* Only a new session and the end of one are not quiet.                     *)
LEMMA QuietSteps ==
  ASSUME TypeOK, [Next]_vars
  PROVE  Quiet \/ ClearSlot \/ \E p \in Peers : AddPeer(p)
  <1> USE DEF parent, control
  <1>1. CASE UNCHANGED vars
    BY <1>1, SamePhasesQuiet DEF vars
  <1>2. ASSUME MainStep PROVE Quiet \/ ClearSlot \/ \E p \in Peers : AddPeer(p)
    <2>1. CASE \E p \in Peers : RemovePeer(p) \/ ForwardMessage(p)
      BY <2>1, SamePhasesQuiet DEF RemovePeer, BeginRemove, ForwardMessage
    <2>2. CASE PollClient \/ ServerClosed \/ Terminate
      BY <2>2, SamePhasesQuiet DEF PollClient, ServerClosed, Terminate, BeginSweep
    <2>3. CASE SweepPeer \/ SweepSlot \/ SweepEnd \/ Abort
      BY <2>3, SamePhasesQuiet DEF SweepPeer, BeginRemove, SweepSlot, SweepEnd, Abort, Die
    <2>4. CASE Exit
      <3>1. UNCHANGED <<peer, child, home, serves>>
        BY <2>4 DEF Exit, Die
      <3> QED
        BY <2>4, <3>1, EndQuiet DEF Exit
    <2> QED
      BY <1>2, <2>1, <2>2, <2>3, <2>4 DEF MainStep
  <1>3. ASSUME NEW i \in Slots, RecvConnect(i) PROVE Quiet
    BY <1>3, SamePhasesQuiet DEF RecvConnect
  <1>4. ASSUME NEW q \in Procs, SenderMain(q) PROVE Quiet
    <2>1. CASE SendConnect(q)
      BY <2>1, GoQuiet DEF SendConnect
    <2>2. CASE SetHandler(q)
      BY <2>2, GoQuiet DEF SetHandler
    <2>3. CASE MakeLoop(q)
      BY <2>3, GoQuiet DEF MakeLoop
    <2>4. CASE EnterLoop(q)
      BY <2>4, GoQuiet DEF EnterLoop
    <2>5. CASE RunLoop(q)
      BY <2>5, GoQuiet DEF RunLoop
    <2>6. CASE Finish(q)
      BY <2>6, EndQuiet DEF Finish, Alive
    <2> QED
      BY <1>4, <2>1, <2>2, <2>3, <2>4, <2>5, <2>6 DEF SenderMain
  <1>5. ASSUME NEW q \in Procs, Crash(q) PROVE Quiet
    BY <1>5, EndQuiet DEF Crash
  <1>6. ASSUME NEW q \in Procs, HandleDatagram(q) PROVE Quiet
    BY <1>6, QuitLoopQuiet, SamePhasesQuiet DEF HandleDatagram
  <1>7. ASSUME NEW q \in Procs, GiveUp(q) PROVE Quiet
    BY <1>7, QuitLoopQuiet DEF GiveUp
  <1> QED
    BY <1>1, <1>2, <1>3, <1>4, <1>5, <1>6, <1>7 DEF Next
-----------------------------------------------------------------------------
(* The table                                                                *)

(* What AddPeer does to the table and to the processes.                     *)
LEMMA AddPeerEffect ==
  ASSUME TypeOK, NEW p \in Peers, AddPeer(p)
  PROVE  \E i \in Slots :
           /\ peer[i] = NoPeer
           /\ \A j \in Slots : peer[j] # p
           /\ peer' = [peer EXCEPT ![i] = p]
           /\ \/ UNCHANGED <<child, phase, home, serves>>
              \/ \E q \in Procs :
                   /\ phase[q] = "unborn"
                   /\ child' = [child EXCEPT ![i] = q]
                   /\ phase' = [phase EXCEPT ![q] = "boot"]
                   /\ home' = [home EXCEPT ![q] = i]
                   /\ serves' = [serves EXCEPT ![q] = p]
  BY DEF AddPeer, Fork, StartSender, FirstFree, KnownPeer

(* The processes waitpid took are gone for good, and so is the slot's own.  *)
LEMMA ClearSlotEffect ==
  ASSUME TypeOK, NoLostSender, Waiting, ClearSlot
  PROVE  /\ at \in Slots /\ peer[at] # NoPeer
         /\ peer' = [peer EXCEPT ![at] = NoPeer]
         /\ child' = [child EXCEPT ![at] = NoProc]
         /\ UNCHANGED <<home, serves>>
         /\ \A q \in Procs : Unreaped(q)' => Unreaped(q) /\ home[q] # at
         /\ \A q \in Procs : (phase'[q] = "unborn") <=> (phase[q] = "unborn")
  <1>1. /\ at \in Slots /\ peer[at] # NoPeer
        /\ peer' = [peer EXCEPT ![at] = NoPeer]
        /\ child' = [child EXCEPT ![at] = NoProc]
        /\ UNCHANGED <<home, serves>> /\ Reap(at)
    BY DEF ClearSlot, Waiting
  <1>2. ASSUME NEW q \in Procs, Unreaped(q)' PROVE Unreaped(q) /\ home[q] # at
    <2>1. Unreaped(q)
      BY <1>1, <1>2 DEF Reap, Unreaped, TypeOK
    <2>2. ASSUME home[q] = at PROVE FALSE
      <3>1. child[at] = q
        BY <2>1, <2>2 DEF NoLostSender
      <3>2. phase'[q] = "reaped"
        BY <1>1, <3>1 DEF Reap, TypeOK
      <3> QED
        BY <1>2, <3>2 DEF Unreaped
    <2> QED
      BY <2>1, <2>2
  <1>3. \A q \in Procs : (phase'[q] = "unborn") <=> (phase[q] = "unborn")
    BY <1>1 DEF Reap, TypeOK
  <1> QED
    BY <1>1, <1>2, <1>3

LEMMA TableStepInv ==
  ASSUME TypeOK, PeerOnce, NoLostSender, Waiting, [Next]_vars
  PROVE  PeerOnce' /\ NoLostSender'
  <1> USE PeerAssumption
  <1>1. CASE Quiet
    BY <1>1 DEF Quiet, PeerOnce, NoLostSender
  <1>2. CASE ClearSlot
    <2>1. PeerOnce'
      BY <1>2, ClearSlotEffect DEF PeerOnce, TypeOK
    <2>2. NoLostSender'
      <3> SUFFICES ASSUME NEW q \in Procs, Unreaped(q)'
                   PROVE  /\ child'[home'[q]] = q
                          /\ peer'[home'[q]] = serves'[q]
                          /\ serves'[q] # NoPeer
        BY DEF NoLostSender
      <3>1. /\ Unreaped(q) /\ home[q] # at
            /\ child[home[q]] = q /\ peer[home[q]] = serves[q] /\ serves[q] # NoPeer
        BY <1>2, ClearSlotEffect DEF NoLostSender
      <3> QED
        BY <1>2, <3>1, ClearSlotEffect DEF TypeOK
    <2> QED
      BY <2>1, <2>2
  <1>3. ASSUME NEW p \in Peers, AddPeer(p) PROVE PeerOnce' /\ NoLostSender'
    <2> PICK i \in Slots :
           /\ peer[i] = NoPeer
           /\ \A j \in Slots : peer[j] # p
           /\ peer' = [peer EXCEPT ![i] = p]
           /\ \/ UNCHANGED <<child, phase, home, serves>>
              \/ \E q \in Procs :
                   /\ phase[q] = "unborn"
                   /\ child' = [child EXCEPT ![i] = q]
                   /\ phase' = [phase EXCEPT ![q] = "boot"]
                   /\ home' = [home EXCEPT ![q] = i]
                   /\ serves' = [serves EXCEPT ![q] = p]
      BY <1>3, AddPeerEffect
    <2>1. PeerOnce'
      BY DEF PeerOnce, TypeOK
    <2>2. ASSUME NEW r \in Procs, Unreaped(r) PROVE home[r] # i /\ home[r] \in Slots
      BY <2>2 DEF NoLostSender, TypeOK
    <2>3. CASE UNCHANGED <<child, phase, home, serves>>
      <3>1. \A r \in Procs : Unreaped(r)' <=> Unreaped(r)
        BY <2>3 DEF Unreaped
      <3>2. ASSUME NEW r \in Procs, Unreaped(r)
            PROVE  peer'[home[r]] = peer[home[r]]
        BY <2>2, <3>2 DEF TypeOK
      <3>3. ASSUME NEW r \in Procs, Unreaped(r)'
            PROVE  /\ child'[home'[r]] = r
                   /\ peer'[home'[r]] = serves'[r]
                   /\ serves'[r] # NoPeer
        BY <2>3, <3>1, <3>2, <3>3 DEF NoLostSender
      <3> QED
        BY <2>1, <3>3 DEF NoLostSender
    <2>4. ASSUME NEW q \in Procs,
                 phase[q] = "unborn",
                 child' = [child EXCEPT ![i] = q],
                 phase' = [phase EXCEPT ![q] = "boot"],
                 home' = [home EXCEPT ![q] = i],
                 serves' = [serves EXCEPT ![q] = p]
          PROVE  NoLostSender'
      <3> SUFFICES ASSUME NEW r \in Procs, Unreaped(r)'
                   PROVE  /\ child'[home'[r]] = r
                          /\ peer'[home'[r]] = serves'[r]
                          /\ serves'[r] # NoPeer
        BY DEF NoLostSender
      <3>1. CASE r = q
        BY <2>4, <3>1 DEF TypeOK
      <3>2. CASE r # q
        <4>1. Unreaped(r)
          BY <2>4, <3>2 DEF Unreaped, TypeOK
        <4>2. child[home[r]] = r /\ peer[home[r]] = serves[r] /\ serves[r] # NoPeer
          BY <4>1 DEF NoLostSender
        <4> QED
          BY <2>2, <2>4, <3>2, <4>1, <4>2 DEF TypeOK
      <3> QED
        BY <3>1, <3>2
    <2> QED
      BY <2>1, <2>3, <2>4
  <1> QED
    BY <1>1, <1>2, <1>3, QuietSteps
-----------------------------------------------------------------------------
(* Where main waits, and what the sockets remember                          *)

LEMMA WaitingStep == TypeOK /\ Waiting /\ [Next]_vars => Waiting'
  <1> SUFFICES ASSUME TypeOK, Waiting, [Next]_vars PROVE Waiting'
    OBVIOUS
  <1> USE PeerAssumption DEF parent, control
  <1>1. CASE UNCHANGED <<pc, at, peer>>
    BY <1>1 DEF Waiting
  <1>2. CASE pc' \notin {"poll", "wait"}
    BY <1>2 DEF Waiting
  <1>3. ASSUME NEW p \in Peers, AddPeer(p) PROVE Waiting'
    BY <1>3 DEF AddPeer, Fork, StartSender, Waiting
  <1>4. ASSUME NEW i \in Slots, peer[i] # NoPeer, NEW what, BeginRemove(i, what)
        PROVE  Waiting'
    BY <1>4 DEF BeginRemove, Waiting
  <1>5. ASSUME NEW p \in Peers, RemovePeer(p) PROVE Waiting'
    BY <1>4, <1>5 DEF RemovePeer, IsPeerIndex
  <1>6. CASE SweepPeer
    BY <1>4, <1>6 DEF SweepPeer, Slots, TypeOK
  <1>7. CASE PollClient
    BY <1>7 DEF PollClient, Waiting
  <1>8. ASSUME MainStep PROVE Waiting'
    BY <1>1, <1>2, <1>3, <1>5, <1>6, <1>7, <1>8
    DEF MainStep, ForwardMessage, ClearSlot, ServerClosed, Terminate, BeginSweep,
        SweepSlot, SweepEnd, Exit, Abort, Die
  <1>9. ASSUME NEW i \in Slots, RecvConnect(i) PROVE UNCHANGED <<pc, at, peer>>
    BY <1>9 DEF RecvConnect
  <1>10. ASSUME NEW q \in Procs, SenderMain(q) \/ Crash(q) \/ HandleDatagram(q) \/ GiveUp(q)
         PROVE  UNCHANGED <<pc, at, peer>>
    BY <1>10 DEF SenderMain, SendConnect, SetHandler, MakeLoop, EnterLoop, RunLoop,
                 Finish, Crash, HandleDatagram, GiveUp
  <1> QED
    BY <1>1, <1>8, <1>9, <1>10 DEF Next, vars

(* A process keeps the slot and the viewer it was started for.              *)
LEMMA OriginKept ==
  ASSUME TypeOK, NoLostSender, Waiting, [Next]_vars, NEW q \in Procs, phase[q] # "unborn"
  PROVE  phase'[q] # "unborn" /\ home'[q] = home[q] /\ serves'[q] = serves[q]
  <1>1. CASE Quiet
    BY <1>1 DEF Quiet
  <1>2. CASE ClearSlot
    BY <1>2, ClearSlotEffect
  <1>3. ASSUME NEW p \in Peers, AddPeer(p)
        PROVE  phase'[q] # "unborn" /\ home'[q] = home[q] /\ serves'[q] = serves[q]
    BY <1>3 DEF AddPeer, Fork, StartSender, TypeOK
  <1> QED
    BY <1>1, <1>2, <1>3, QuietSteps

(* How the addresses and the queued CONNECTs may change.                    *)
LEMMA SocketSteps ==
  ASSUME TypeOK, [Next]_vars
  PROVE  \/ UNCHANGED <<addr, srv>>
         \/ /\ addr' = [i \in Slots |-> NoProc]
            /\ srv' = [i \in Slots |-> <<>>]
         \/ \E i \in Slots : RecvConnect(i)
         \/ \E q \in Procs : SendConnect(q)
  <1> USE DEF parent, control
  <1>1. ASSUME MainStep
        PROVE  \/ UNCHANGED <<addr, srv>>
               \/ addr' = [i \in Slots |-> NoProc] /\ srv' = [i \in Slots |-> <<>>]
    BY <1>1 DEF MainStep, AddPeer, RemovePeer, BeginRemove, ForwardMessage, PollClient,
       ClearSlot, ServerClosed, Terminate, BeginSweep, SweepPeer, SweepSlot,
       SweepEnd, Exit, Abort, Die
  <1>2. ASSUME NEW q \in Procs, SenderMain(q) \/ Crash(q) \/ HandleDatagram(q) \/ GiveUp(q)
        PROVE  SendConnect(q) \/ UNCHANGED <<addr, srv>>
    BY <1>2 DEF SenderMain, SetHandler, MakeLoop, EnterLoop, RunLoop, Finish, Crash,
                HandleDatagram, GiveUp
  <1> QED
    BY <1>1, <1>2 DEF Next, vars

LEMMA AddressesStep ==
  ASSUME TypeOK, NoLostSender, Waiting, Addresses, [Next]_vars
  PROVE  Addresses'
  <1> DEFINE Kept(q, i) == home'[q] = i /\ phase'[q] # "unborn"
  <1>1. \A q \in Procs, i \in Slots : StartedFor(q, i) => Kept(q, i)
    BY OriginKept DEF StartedFor
  <1>2. ASSUME NEW i \in Slots, NEW k \in 1 .. Len(srv[i])
        PROVE  srv[i][k] \in Procs /\ Kept(srv[i][k], i)
    BY <1>1 DEF TypeOK, Addresses
  <1>3. ASSUME NEW i \in Slots, addr[i] \in Procs PROVE Kept(addr[i], i)
    BY <1>1, <1>3 DEF Addresses
  <1>4. SUFFICES
          ASSUME NEW i \in Slots
          PROVE  /\ addr'[i] \in Procs => Kept(addr'[i], i)
                 /\ \A k \in 1 .. Len(srv'[i]) : Kept(srv'[i][k], i)
    BY DEF Addresses, StartedFor
  <1> HIDE DEF Kept
  <1>5. CASE UNCHANGED <<addr, srv>>
    BY <1>2, <1>3, <1>5
  <1>6. CASE addr' = [j \in Slots |-> NoProc] /\ srv' = [j \in Slots |-> <<>>]
    BY <1>6, PeerAssumption
  <1>7. ASSUME NEW j \in Slots, RecvConnect(j)
        PROVE  /\ addr'[i] \in Procs => Kept(addr'[i], i)
               /\ \A k \in 1 .. Len(srv'[i]) : Kept(srv'[i][k], i)
    <2>1. srv[j] \in Seq(Procs) /\ srv[j] # <<>>
      BY <1>7 DEF RecvConnect, TypeOK
    <2>2. Head(srv[j]) = srv[j][1] /\ 1 \in 1 .. Len(srv[j])
      BY <2>1
    <2>3. \A k \in 1 .. Len(Tail(srv[j])) : /\ k + 1 \in 1 .. Len(srv[j])
                                            /\ Tail(srv[j])[k] = srv[j][k + 1]
      BY <2>1
    <2>4. addr' = [addr EXCEPT ![j] = srv[j][1]] /\ srv' = [srv EXCEPT ![j] = Tail(srv[j])]
      BY <1>7, <2>2 DEF RecvConnect
    <2>5. CASE i = j
      <3>1. addr'[i] = srv[i][1] /\ srv'[i] = Tail(srv[i])
        BY <2>4, <2>5 DEF TypeOK
      <3> QED
        BY <1>2, <2>2, <2>3, <2>5, <3>1
    <2>6. CASE i # j
      <3>1. addr'[i] = addr[i] /\ srv'[i] = srv[i]
        BY <2>4, <2>6 DEF TypeOK
      <3> QED
        BY <1>2, <1>3, <3>1
    <2> QED
      BY <2>5, <2>6
  <1>8. ASSUME NEW q \in Procs, SendConnect(q)
        PROVE  /\ addr'[i] \in Procs => Kept(addr'[i], i)
               /\ \A k \in 1 .. Len(srv'[i]) : Kept(srv'[i][k], i)
    <2>1. Kept(q, home[q]) /\ home[q] \in Slots
      BY <1>1, <1>8 DEF SendConnect, Go, StartedFor, TypeOK
    <2>2. addr' = addr /\ \/ srv' = srv
                          \/ srv' = [srv EXCEPT ![home[q]] = Append(srv[home[q]], q)]
      BY <1>8 DEF SendConnect
    <2>3. CASE srv'[i] = srv[i]
      BY <1>2, <1>3, <2>2, <2>3
    <2>4. CASE i = home[q] /\ srv'[i] = Append(srv[i], q)
      <3>1. srv[i] \in Seq(Procs)
        BY DEF TypeOK
      <3>2. ASSUME NEW k \in 1 .. Len(srv'[i]) PROVE Kept(srv'[i][k], i)
        <4>1. CASE k = Len(srv[i]) + 1
          BY <2>1, <2>4, <3>1, <4>1
        <4>2. CASE k # Len(srv[i]) + 1
          <5>1. k \in 1 .. Len(srv[i]) /\ srv'[i][k] = srv[i][k]
            BY <2>4, <3>1, <4>2
          <5> QED
            BY <1>2, <5>1
        <4> QED
          BY <4>1, <4>2
      <3> QED
        BY <1>3, <2>2, <3>2
    <2> QED
      BY <2>1, <2>2, <2>3, <2>4 DEF TypeOK
  <1> QED
    BY <1>5, <1>6, <1>7, <1>8, SocketSteps
-----------------------------------------------------------------------------
(* What a sender may find in its socket                                     *)

(* A slot's address, when it leads to a live sender, leads to the sender of *)
(* the viewer in the slot.                                                  *)
LEMMA AddressServes ==
  ASSUME TypeOK, NoLostSender, Addresses, NEW i \in Slots, addr[i] \in Procs,
         Alive(addr[i])
  PROVE  peer[i] = serves[addr[i]]
  BY DEF NoLostSender, Addresses, StartedFor, Alive, Unreaped

LEMMA SendToTagged ==
  ASSUME TypeOK, NoLostSender, Addresses, Tagged,
         NEW i \in Slots, NEW m \in Datagrams, m.to = peer[i], SendTo(i, m),
         UNCHANGED serves, UNCHANGED phase
  PROVE  Tagged'
  <1>1. CASE inbox' = inbox
    BY <1>1 DEF Tagged
  <1>2. CASE /\ addr[i] \in Procs /\ Alive(addr[i])
             /\ inbox' = [inbox EXCEPT ![addr[i]] = Append(@, m)]
    <2>1. m.to = serves[addr[i]] /\ phase[addr[i]] # "unborn"
      BY <1>2, AddressServes DEF Alive
    <2> SUFFICES ASSUME NEW q \in Procs
                 PROVE  /\ phase[q] = "unborn" => inbox'[q] = <<>>
                        /\ \A k \in 1 .. Len(inbox'[q]) : inbox'[q][k].to = serves[q]
      BY DEF Tagged
    <2>2. CASE q # addr[i]
      BY <1>2, <2>2 DEF Tagged, TypeOK
    <2>3. CASE q = addr[i]
      <3>1. inbox[q] \in Seq(Datagrams) /\ inbox'[q] = Append(inbox[q], m)
        BY <1>2, <2>3 DEF TypeOK
      <3>2. \A k \in 1 .. Len(inbox'[q]) :
              \/ k \in 1 .. Len(inbox[q]) /\ inbox'[q][k] = inbox[q][k]
              \/ inbox'[q][k] = m
        BY <3>1
      <3> QED
        BY <2>1, <2>3, <3>2 DEF Tagged
    <2> QED
      BY <2>2, <2>3
  <1> QED
    BY <1>1, <1>2 DEF SendTo

(* The steps that only remove datagrams, or leave them.                     *)
LEMMA FewerTagged ==
  ASSUME TypeOK, NoLostSender, Waiting, Tagged, [Next]_vars,
         \A q \in Procs : \/ inbox'[q] = inbox[q]
                          \/ inbox'[q] = <<>>
                          \/ inbox[q] # <<>> /\ inbox'[q] = Tail(inbox[q]),
         \A q \in Procs : phase[q] = "unborn" /\ phase'[q] # "unborn"
                            => inbox'[q] = inbox[q]
  PROVE  Tagged'
  <1> SUFFICES ASSUME NEW q \in Procs
               PROVE  /\ phase'[q] = "unborn" => inbox'[q] = <<>>
                      /\ \A k \in 1 .. Len(inbox'[q]) : inbox'[q][k].to = serves'[q]
    BY DEF Tagged
  <1>1. inbox[q] \in Seq(Datagrams)
    BY DEF TypeOK
  <1>2. CASE phase[q] = "unborn"
    BY <1>2 DEF Tagged
  <1>3. CASE phase[q] # "unborn"
    <2>1. phase'[q] # "unborn" /\ serves'[q] = serves[q]
      BY <1>3, OriginKept
    <2>2. CASE inbox'[q] = inbox[q] \/ inbox'[q] = <<>>
      BY <2>1, <2>2 DEF Tagged
    <2>3. CASE inbox[q] # <<>> /\ inbox'[q] = Tail(inbox[q])
      <3>1. \A k \in 1 .. Len(inbox'[q]) :
              k + 1 \in 1 .. Len(inbox[q]) /\ inbox'[q][k] = inbox[q][k + 1]
        BY <1>1, <2>3
      <3> QED
        BY <2>1, <3>1 DEF Tagged
    <2> QED
      BY <2>2, <2>3
  <1> QED
    BY <1>2, <1>3

LEMMA TaggedStep ==
  ASSUME TypeOK, NoLostSender, Waiting, Addresses, Tagged, [Next]_vars
  PROVE  Tagged'
  <1> USE DEF parent, control
  <1>1. CASE UNCHANGED inbox
    BY <1>1, FewerTagged
  <1>2. ASSUME NEW i \in Slots, peer[i] \in Peers, NEW what, BeginRemove(i, what)
        PROVE  Tagged'
    BY <1>2, SendToTagged DEF BeginRemove, Stop, Datagrams
  <1>3. ASSUME NEW p \in Peers, RemovePeer(p) PROVE Tagged'
    BY <1>2, <1>3 DEF RemovePeer, IsPeerIndex
  <1>4. CASE SweepPeer
    <2>1. at \in Slots /\ BeginRemove(at, job) /\ peer[at] # NoPeer
      BY <1>4, PeerAssumption DEF SweepPeer, Slots, TypeOK
    <2>2. peer[at] \in Peers
      BY <2>1 DEF TypeOK
    <2> QED
      BY <1>2, <2>1, <2>2
  <1>5. ASSUME NEW p \in Peers, ForwardMessage(p) PROVE Tagged'
    BY <1>5, SendToTagged DEF ForwardMessage, IsPeerIndex, Forward, Datagrams
  <1>6. ASSUME NEW Q \in SUBSET Procs, End(Q), \A q \in Q : Alive(q) PROVE Tagged'
    <2>1. \A q \in Procs : inbox'[q] = inbox[q] \/ inbox'[q] = <<>>
      BY <1>6 DEF End
    <2>2. \A q \in Procs : phase[q] = "unborn" => inbox'[q] = inbox[q]
      BY <1>6 DEF End, Alive
    <2> QED
      BY <2>1, <2>2, FewerTagged
  <1>7. ASSUME MainStep PROVE Tagged'
    <2>1. CASE Exit
      BY <1>6, <2>1 DEF Exit
    <2> QED
      BY <1>1, <1>3, <1>4, <1>5, <1>7, <2>1
      DEF MainStep, AddPeer, PollClient, ClearSlot, ServerClosed, Terminate,
          BeginSweep, SweepSlot, SweepEnd, Abort
  <1>8. ASSUME NEW q \in Procs, Finish(q) \/ Crash(q) PROVE Tagged'
    BY <1>6, <1>8 DEF Finish, Crash, Alive
  <1>9. ASSUME NEW q \in Procs, HandleDatagram(q) PROVE Tagged'
    <2>1. inbox' = [inbox EXCEPT ![q] = Tail(@)] /\ inbox[q] # <<>> /\ Alive(q)
      BY <1>9 DEF HandleDatagram
    <2>2. \A r \in Procs : \/ inbox'[r] = inbox[r]
                           \/ inbox[r] # <<>> /\ inbox'[r] = Tail(inbox[r])
      BY <2>1 DEF TypeOK
    <2>3. \A r \in Procs : phase[r] = "unborn" => inbox'[r] = inbox[r]
      BY <2>1 DEF TypeOK, Alive
    <2> QED
      BY <2>2, <2>3, FewerTagged
  <1> QED
    BY <1>1, <1>7, <1>8, <1>9
    DEF Next, vars, RecvConnect, SenderMain, SendConnect, SetHandler, MakeLoop,
        EnterLoop, RunLoop, GiveUp
-----------------------------------------------------------------------------
(* The inductive invariant and what follows from it                         *)

LEMMA InitInv == Init => IInv
  <1> SUFFICES ASSUME Init PROVE IInv
    OBVIOUS
  <1> USE PeerAssumption DEF Init
  <1>1. PeerOnce /\ NoLostSender
    BY DEF PeerOnce, NoLostSender, Unreaped
  <1>2. Waiting /\ Addresses /\ Tagged
    BY DEF Waiting, Addresses, Tagged
  <1> QED
    BY <1>1, <1>2, InitType DEF IInv

LEMMA StepInv == IInv /\ [Next]_vars => IInv'
  BY TypeStep, TableStepInv, WaitingStep, AddressesStep, TaggedStep DEF IInv

THEOREM Invariance == Spec => []IInv
  BY InitInv, StepInv, PTL DEF Spec

(* A viewer never holds two slots of the table.                             *)
THEOREM OneSlotEach == Spec => []PeerOnce
  BY Invariance, PTL DEF IInv

(* No sender process outlives its session or is forgotten by the table.     *)
THEOREM SendersAccounted == Spec => []NoLostSender
  BY Invariance, PTL DEF IInv

(* However late a CONNECT is read, no sender gets another viewer's message. *)
THEOREM MessagesReachOwner == Spec => []RightSender
  <1>1. IInv => RightSender
    BY AddressServes DEF IInv, RightSender, Tagged
  <1> QED
    BY <1>1, Invariance, PTL
-----------------------------------------------------------------------------
(* Refinement of PeerTable                                                  *)

Up(i) == \E q \in Procs : Unreaped(q) /\ home[q] = i

LEMMA TableInit == Init => Table!Init
  BY DEF Init, Table!Init, Unreaped

(* Each step opens a session, closes one, or does not touch what PeerTable  *)
(* describes.                                                               *)
LEMMA TableStep ==
  ASSUME IInv, [Next]_vars
  PROVE  [Table!Next]_(Table!vars)
  <1> DEFINE up == [i \in Slots |-> \E q \in Procs : Unreaped(q) /\ home[q] = i]
  <1> USE DEF IInv
  <1>1. CASE Quiet
    <2>1. \A i \in Slots : Up(i)' <=> Up(i)
      BY <1>1 DEF Quiet, Up
    <2>2. up' = up
      BY <2>1 DEF Up
    <2> QED
      BY <1>1, <2>2 DEF Quiet, Table!vars
  <1>2. CASE ClearSlot
    <2>1. at \in Slots
      BY <1>2, ClearSlotEffect
    <2> PICK i \in Slots : i = at
      BY <2>1
    <2>2. \A j \in Slots : up'[j] => up[j]
      BY <1>2, ClearSlotEffect
    <2>3. ~up'[i]
      BY <1>2, ClearSlotEffect
    <2>4. up' \in [Slots -> BOOLEAN]
      OBVIOUS
    <2>5. peer[i] # NoPeer /\ peer' = [peer EXCEPT ![i] = NoPeer]
      BY <1>2, ClearSlotEffect
    <2>6. Table!Close(i)
      BY <2>2, <2>3, <2>4, <2>5 DEF Table!Close
    <2> QED
      BY <2>6 DEF Table!Next
  <1>3. ASSUME NEW p \in Peers, AddPeer(p) PROVE Table!Next
    <2> PICK i \in Slots :
           /\ peer[i] = NoPeer
           /\ \A j \in Slots : peer[j] # p
           /\ peer' = [peer EXCEPT ![i] = p]
           /\ \/ UNCHANGED <<child, phase, home, serves>>
              \/ \E q \in Procs :
                   /\ phase[q] = "unborn"
                   /\ child' = [child EXCEPT ![i] = q]
                   /\ phase' = [phase EXCEPT ![q] = "boot"]
                   /\ home' = [home EXCEPT ![q] = i]
                   /\ serves' = [serves EXCEPT ![q] = p]
      BY <1>3, AddPeerEffect
    <2>1. ~Up(i)
      BY DEF Up, NoLostSender
    <2>2. \E started \in BOOLEAN : up' = [up EXCEPT ![i] = started]
      <3>1. CASE UNCHANGED <<child, phase, home, serves>>
        <4>1. up' = up
          BY <3>1 DEF Unreaped
        <4> QED
          BY <2>1, <4>1 DEF Up
      <3>2. ASSUME NEW q \in Procs,
                   phase[q] = "unborn",
                   phase' = [phase EXCEPT ![q] = "boot"],
                   home' = [home EXCEPT ![q] = i]
            PROVE  up' = [up EXCEPT ![i] = TRUE]
        <4>1. Unreaped(q)' /\ home'[q] = i /\ ~Unreaped(q)
          BY <3>2 DEF Unreaped, TypeOK
        <4>2. \A r \in Procs : r # q => (Unreaped(r)' <=> Unreaped(r)) /\ home'[r] = home[r]
          BY <3>2 DEF Unreaped, TypeOK
        <4>3. \A j \in Slots : j # i => (Up(j)' <=> Up(j))
          BY <4>1, <4>2 DEF Up
        <4>4. Up(i)'
          BY <4>1 DEF Up
        <4> QED
          BY <4>3, <4>4 DEF Up
      <3> QED
        BY <3>1, <3>2
    <2>3. Table!Open(i, p)
      BY <2>1, <2>2 DEF Table!Open, Up
    <2> QED
      BY <2>3 DEF Table!Next
  <1> QED
    BY <1>1, <1>2, <1>3, QuietSteps

(* The peer table, its sockets and its senders implement PeerTable.         *)
THEOREM TableRefined == Spec => TableSpec
  <1>1. Spec => Table!Init /\ [][Table!Next]_(Table!vars)
    BY TableInit, TableStep, Invariance, PTL DEF Spec
  <1> QED
    BY <1>1 DEF TableSpec, Table!Spec
=============================================================================
