----------------------------- MODULE PeerTable -----------------------------
(***************************************************************************)
(* What the peer table of gstream_main promises to the signalling code     *)
(* (webrtc_peer.h): a viewer has at most one session, a session lives in   *)
(* one of a fixed number of slots, and a slot is handed to the next viewer *)
(* only when no sender process of the previous one is left.                *)
(* A slot owns fixed ports, so two senders alive in the same slot would    *)
(* read the same RTP and the same control datagrams.                       *)
(***************************************************************************)
CONSTANTS
  Slots,    \* the entries of g_PeerInfos
  Peers,    \* viewer identifiers the signalling server may send
  NoPeer    \* "peer_id == NULL": the slot is free

VARIABLES
  session,  \* session[i]: the viewer served in slot i, or NoPeer
  up        \* up[i]: a sender process started for slot i is not yet reaped

vars == <<session, up>>

TypeOK ==
  /\ session \in [Slots -> Peers \cup {NoPeer}]
  /\ up \in [Slots -> BOOLEAN]

Init ==
  /\ session = [i \in Slots |-> NoPeer]
  /\ up = [i \in Slots |-> FALSE]

(* A viewer without a session gets a free slot with no process in it. The  *)
(* process may fail to start: the session is then open but not served.     *)
Open(i, p) ==
  /\ session[i] = NoPeer
  /\ ~up[i]
  /\ \A j \in Slots : session[j] # p
  /\ session' = [session EXCEPT ![i] = p]
  /\ \E started \in BOOLEAN : up' = [up EXCEPT ![i] = started]

(* A session is closed once its process is gone. The wait may have reaped  *)
(* the processes of other slots; it never brings one back.                 *)
Close(i) ==
  /\ session[i] # NoPeer
  /\ session' = [session EXCEPT ![i] = NoPeer]
  /\ up' \in [Slots -> BOOLEAN]
  /\ ~up'[i]
  /\ \A j \in Slots : up'[j] => up[j]

Next == \E i \in Slots : Close(i) \/ \E p \in Peers : Open(i, p)

Spec == Init /\ [][Next]_vars
=============================================================================
