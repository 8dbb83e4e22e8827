----------------------------- MODULE SenderCall -----------------------------
(***************************************************************************)
(* The call of one viewer in its sender process (webrtc_sender.c): the     *)
(* main thread that starts the pipeline, runs the loop and restarts the    *)
(* pipeline after a DTLS error; the thread of webrtcbin that makes offers  *)
(* and answers; the thread that receives the viewer's messages. They share *)
(* app_state without a lock, and g_assert it.                              *)
(*                                                                         *)
(* How the process is started and stopped from gstream_main is in          *)
(* PeerSessions; here the loop is made and entered in one step. webrtcbin, *)
(* the network and the viewer are external. A pipeline that is set to NULL *)
(* waits for the callback webrtcbin runs and drops what it has queued.     *)
(***************************************************************************)
EXTENDS Integers

CONSTANTS
  max_retries,
  MaxOffers         \* bound on the offers that the viewer makes itself

ASSUME SenderAssumption ==
  /\ max_retries \in Nat \ {0}
  /\ MaxOffers \in Nat

VARIABLES
  app_state,
  life,             \* "up" "aborted" "ended"
  (* the main thread *)
  main,             \* "start" "ready" "played" in start_pipeline, "restore", "loop"
  loop,             \* "none" "runs" "quit"
  pipeline,         \* "none" "ready" "playing"
  retry_count,
  timer,            \* retry_timeout_id: 0, or of a timer that is "armed" or has "fired"
  (* webrtcbin, of this pipeline *)
  webrtc,           \* its callback: "idle" "offering" "offer" "answering" "answer"
  asked,            \* it has asked for a negotiation
  gathering,        \* it gathers candidates
  described,        \* it has the viewer's description: "no", "yes", or "stale", an
                    \* answer to the offer of an earlier pipeline
  dtls,             \* "ok" "failed"
  (* the receiving thread, the viewer *)
  receive,          \* "idle", "answer", "oldAnswer" to be handed over, "taken", "offer"
  viewer,           \* offers it has not answered: a "new" one, of this pipeline, an "old"
  offers,
  (* histories *)
  stopped,          \* STOP_WEBRTC has been handled
  failed,           \* starts that have failed in a row
  gave_up,
  belated           \* since this pipeline was begun an answer has come to the offer
                    \* of an earlier one

bin == <<webrtc, asked, gathering, described, dtls>>
thread == <<main, loop, pipeline, retry_count, timer>>
outside == <<receive, viewer, offers>>
history == <<stopped, failed, gave_up, belated>>
vars == <<app_state, life, main, loop, pipeline, retry_count, timer, webrtc, asked,
          gathering, described, dtls, receive, viewer, offers, stopped, failed, gave_up,
          belated>>

AppStates == {"UNKNOWN", "ERROR", "JOINED", "OFFERING", "ANSWERING", "STARTED", "CALL_ERROR"}

InRoom == app_state \notin {"UNKNOWN", "ERROR"}           \* >= ROOM_JOINED
InCall == InRoom /\ app_state # "JOINED"                  \* >= ROOM_CALL_OFFERING

TypeOK ==
  /\ app_state \in AppStates
  /\ life \in {"up", "aborted", "ended"}
  /\ main \in {"start", "ready", "played", "restore", "loop"}
  /\ loop \in {"none", "runs", "quit"}
  /\ pipeline \in {"none", "ready", "playing"}
  /\ retry_count \in 0 .. max_retries
  /\ timer \in {"0", "armed", "fired"}
  /\ webrtc \in {"idle", "offering", "offer", "answering", "answer"}
  /\ asked \in BOOLEAN /\ gathering \in BOOLEAN /\ described \in {"no", "stale", "yes"}
  /\ dtls \in {"ok", "failed"}
  /\ receive \in {"idle", "answer", "oldAnswer", "taken", "offer"}
  /\ viewer \subseteq {"old", "new"}
  /\ offers \in 0 .. MaxOffers
  /\ stopped \in BOOLEAN /\ failed \in 0 .. max_retries + 1 /\ gave_up \in BOOLEAN
  /\ belated \in BOOLEAN

Init ==
  /\ app_state = "UNKNOWN" /\ life = "up"
  /\ main = "start" /\ loop = "none" /\ pipeline = "none" /\ retry_count = 0 /\ timer = "0"
  /\ webrtc = "idle" /\ asked = FALSE /\ gathering = FALSE /\ described = "no"
  /\ dtls = "ok"
  /\ receive = "idle" /\ viewer = {} /\ offers = 0
  /\ stopped = FALSE /\ failed = 0 /\ gave_up = FALSE /\ belated = FALSE

(* A g_assert fails.                                                        *)
Abort ==
  /\ life' = "aborted"
  /\ UNCHANGED <<app_state, thread, bin, outside, history>>

\* mutant: all of it only for a state to set
QuitForState(state) ==
  /\ app_state' = IF state = "UNKNOWN" THEN app_state ELSE state
  /\ timer' = IF state = "UNKNOWN" THEN timer ELSE "0"
  /\ loop' = IF loop = "none" \/ state = "UNKNOWN" THEN loop ELSE "quit"

(* cleanup_and_quit_loop                                                    *)
Quit(state) ==
  /\ app_state' = IF state = "UNKNOWN" THEN app_state ELSE state
  /\ timer' = "0"
  /\ loop' = IF loop = "none" THEN "none" ELSE "quit"

(* A new webrtcbin, or none.                                                *)
Fresh ==
  /\ webrtc' = "idle" /\ asked' = FALSE /\ gathering' = FALSE
  /\ described' = "no" /\ dtls' = "ok"
-----------------------------------------------------------------------------
(* The main thread                                                          *)

(* start_pipeline: the pipeline is made READY, and half a second later      *)
(* PLAYING.                                                                 *)
MakeReady ==
  /\ life = "up" /\ main = "start"
  /\ main' = "ready" /\ pipeline' = "ready"
  /\ UNCHANGED <<app_state, life, loop, retry_count, timer, bin, outside, history>>

Play ==
  /\ life = "up" /\ main = "ready"
  /\ main' = "played" /\ pipeline' = "playing"
  /\ UNCHANGED <<app_state, life, loop, retry_count, timer, bin, outside, history>>

(* It plays; main() goes on to the loop, or a restart to its own end.       *)
Joined ==
  /\ life = "up" /\ main = "played"
  /\ app_state' = "JOINED" /\ retry_count' = 0 /\ failed' = 0
  /\ main' = IF loop = "none" THEN "loop" ELSE "restore"
  /\ loop' = IF loop = "none" THEN "runs" ELSE loop
  /\ UNCHANGED <<life, pipeline, timer, bin, outside, stopped, gave_up, belated>>

(* A restart restores the state.                                            *)
Restore ==
  /\ life = "up" /\ main = "restore"
  /\ main' = "loop" /\ app_state' = "JOINED"
  /\ UNCHANGED <<life, loop, pipeline, retry_count, timer, bin, outside, history>>

\* mutant: the attempt is counted before it is compared
AttemptCounted ==
  IF retry_count + 1 >= max_retries
  THEN /\ Quit("ERROR")
       /\ main' = "loop" /\ gave_up' = TRUE
       /\ UNCHANGED retry_count
  ELSE /\ retry_count' = retry_count + 1
       /\ timer' = IF timer = "0" THEN "0" ELSE "fired"
       /\ main' = "start"
       /\ UNCHANGED <<app_state, loop, gave_up>>

(* restart_pipeline_on_dtls_error up to start_pipeline                      *)
Attempt ==
  IF retry_count >= max_retries
  THEN /\ Quit("ERROR")
       /\ main' = "loop" /\ gave_up' = TRUE
       /\ UNCHANGED retry_count
  ELSE /\ retry_count' = retry_count + 1
       /\ timer' = IF timer = "0" THEN "0" ELSE "fired"
       /\ main' = "start"
       /\ UNCHANGED <<app_state, loop, gave_up>>

\* mutant: a restart that fails is not tried again
StartFailsForGood ==
  /\ life = "up" /\ main \in {"start", "ready"}
  /\ pipeline' = "none" /\ main' = "loop"
  /\ loop' = IF loop = "none" THEN "runs" ELSE loop
  /\ failed' = IF loop = "none" THEN 0 ELSE failed + 1
  /\ webrtc \notin {"offer", "answer"} /\ Fresh
  /\ UNCHANGED <<app_state, life, retry_count, timer, outside, stopped, gave_up, belated>>

(* start_pipeline fails: main() enters the loop all the same, a restart     *)
(* begins again.                                                            *)
StartFails ==
  /\ life = "up" /\ main \in {"start", "ready"}
  /\ webrtc \notin {"offer", "answer"}
  /\ pipeline' = "none" /\ Fresh
  /\ \/ /\ loop = "none" /\ loop' = "runs" /\ main' = "loop"
        /\ UNCHANGED <<app_state, retry_count, timer, failed, gave_up>>
     \/ loop # "none" /\ Attempt /\ failed' = failed + 1
  /\ UNCHANGED <<life, outside, stopped, belated>>

(* bus_message_handler, on a DTLS error: a restart in two seconds, unless   *)
(* there is a timer id. webrtcbin has its DTLS elements from the first      *)
(* description on, its own or the viewer's: an error may come before any    *)
(* answer.                                                                  *)
DtlsFails ==
  /\ life = "up" /\ main = "loop" /\ loop = "runs"
  /\ gathering \/ described # "no"
  /\ dtls = "ok" /\ dtls' = "failed"
  /\ timer' = IF timer = "0" THEN "armed" ELSE timer
  /\ UNCHANGED <<app_state, life, main, loop, pipeline, retry_count, webrtc, asked,
                 gathering, described, outside, history>>

(* The timer: the pipeline is stopped and, a second later, made anew. The   *)
(* id of the timer is kept. The viewer is not told: what it has not         *)
(* answered, and the answer that is on its way, are the old pipeline's now. *)
Restart ==
  /\ life = "up" /\ main = "loop" /\ loop = "runs" /\ timer = "armed"
  /\ webrtc \notin {"offer", "answer"}
  /\ Attempt
  /\ pipeline' = "none" /\ Fresh
  /\ viewer' = {"old" : offer \in viewer}
  /\ receive' = IF receive = "answer" THEN "oldAnswer" ELSE receive
  /\ belated' = (receive \in {"answer", "oldAnswer", "taken"})
  /\ UNCHANGED <<life, offers, stopped, failed>>

(* The loop has been quit: main() returns.                                  *)
Leave ==
  /\ life = "up" /\ main = "loop" /\ loop = "quit"
  /\ webrtc \notin {"offer", "answer"}
  /\ life' = "ended" /\ pipeline' = "none" /\ Fresh
  /\ UNCHANGED <<app_state, main, loop, retry_count, timer, outside, history>>
-----------------------------------------------------------------------------
(* The thread of webrtcbin                                                  *)

(* on_negotiation_needed, once the pipeline plays and packets come.         *)
NegotiationNeeded ==
  /\ life = "up" /\ pipeline = "playing" /\ webrtc = "idle" /\ ~asked
  /\ webrtc' = "offering" /\ asked' = TRUE /\ app_state' = "OFFERING"
  /\ UNCHANGED <<life, thread, gathering, described, dtls, outside, history>>

(* 200 ms later on_offer_created: g_assert OFFERING; from the local         *)
(* description on candidates are gathered.                                  *)
OfferCreated ==
  /\ life = "up" /\ webrtc = "offering"
  /\ \/ app_state # "OFFERING" /\ Abort
     \/ /\ app_state = "OFFERING"
        /\ webrtc' = "offer" /\ gathering' = TRUE
        /\ UNCHANGED <<app_state, life, thread, asked, described, dtls, outside, history>>

(* send_room_peer_sdp: g_assert a call.                                     *)
SendOffer ==
  /\ life = "up" /\ webrtc = "offer"
  /\ \/ ~InCall /\ Abort
     \/ /\ InCall /\ webrtc' = "idle" /\ viewer' = viewer \cup {"new"}
        /\ UNCHANGED <<app_state, life, thread, asked, gathering, described, dtls,
                       receive, offers, history>>

(* on_answer_created: g_assert ANSWERING.                                   *)
AnswerCreated ==
  /\ life = "up" /\ webrtc = "answering"
  /\ \/ app_state # "ANSWERING" /\ Abort
     \/ /\ app_state = "ANSWERING"
        /\ webrtc' = "answer" /\ gathering' = TRUE
        /\ UNCHANGED <<app_state, life, thread, asked, described, dtls, outside, history>>

SendAnswer ==
  /\ life = "up" /\ webrtc = "answer"
  /\ \/ ~InCall /\ Abort
     \/ /\ InCall /\ webrtc' = "idle" /\ app_state' = "STARTED"
        /\ UNCHANGED <<life, thread, asked, gathering, described, dtls, outside, history>>

(* send_ice_candidate_message outside a call; in one it only sends.         *)
IceOutsideCall ==
  /\ life = "up" /\ gathering /\ ~InCall /\ loop # "quit"
  /\ Quit("ERROR")
  /\ UNCHANGED <<life, main, pipeline, retry_count, bin, outside, history>>
-----------------------------------------------------------------------------
(* The receiving thread: handle_peer_message                                *)

Stop ==
  /\ life = "up" /\ receive = "idle" /\ loop = "runs"
  /\ Quit("UNKNOWN") /\ stopped' = TRUE
  /\ UNCHANGED <<life, main, pipeline, retry_count, bin, outside, failed, gave_up,
                 belated>>

(* An SDP without a type, or with another one.                              *)
BadSdp ==
  /\ life = "up" /\ receive = "idle" /\ loop = "runs"
  /\ \/ ~InRoom /\ Abort
     \/ /\ InRoom /\ Quit("CALL_ERROR")
        /\ UNCHANGED <<life, main, pipeline, retry_count, bin, outside, history>>

(* The viewer answers an offer. Nothing in its answer, or in the code, says *)
(* which: it may be one of a pipeline that is no more.                      *)
Answering(offer) ==
  /\ viewer' = viewer \ {offer}
  /\ belated' = (belated \/ offer = "old")
  /\ UNCHANGED <<thread, bin, offers, stopped, failed, gave_up>>

\* mutant: the call has started before webrtcbin has the answer
AnswerAtOnce ==
  /\ life = "up" /\ receive = "idle" /\ InCall
  /\ \E offer \in viewer :
       /\ receive' = IF offer = "new" THEN "answer" ELSE "oldAnswer"
       /\ Answering(offer)
  /\ app_state' = "STARTED" /\ UNCHANGED life

(* The first g_assert of a call ...                                         *)
Answer ==
  /\ life = "up" /\ receive = "idle"
  /\ \E offer \in viewer :
       /\ \/ ~InCall /\ life' = "aborted" /\ UNCHANGED receive
          \/ /\ InCall /\ UNCHANGED life
             /\ receive' = IF offer = "new" THEN "answer" ELSE "oldAnswer"
       /\ Answering(offer)
  /\ UNCHANGED app_state

(* ... handle_sdp_answer: g_assert a call, and hand the answer to           *)
(* webrtcbin, which takes it if it has made an offer and has no answer;     *)
(* it cannot tell an old one from its own ...                               *)
AnswerTaken ==
  /\ life = "up" /\ receive \in {"answer", "oldAnswer"}
  /\ \/ ~InCall /\ Abort
     \/ /\ InCall /\ receive' = "taken"
        /\ described' = IF gathering /\ described = "no"
                        THEN (IF receive = "answer" THEN "yes" ELSE "stale")
                        ELSE described
        /\ UNCHANGED <<app_state, life, thread, webrtc, asked, gathering, dtls, viewer,
                       offers, history>>

(* ... and the call has started.                                            *)
Answered ==
  /\ life = "up" /\ receive = "taken" /\ receive' = "idle"
  /\ app_state' = "STARTED"
  /\ UNCHANGED <<life, thread, bin, viewer, offers, history>>

(* The viewer's own offer: ANSWERING ...                                    *)
Offer ==
  /\ life = "up" /\ receive = "idle" /\ offers < MaxOffers /\ offers' = offers + 1
  /\ \/ ~InRoom /\ life' = "aborted" /\ UNCHANGED <<app_state, receive>>
     \/ InRoom /\ app_state' = "ANSWERING" /\ receive' = "offer" /\ UNCHANGED life
  /\ UNCHANGED <<thread, bin, viewer, history>>

(* ... handle_sdp_offer: g_assert ANSWERING, and webrtcbin makes an answer. *)
Offered ==
  /\ life = "up" /\ receive = "offer"
  /\ \/ app_state # "ANSWERING" /\ Abort
     \/ /\ app_state = "ANSWERING" /\ receive' = "idle"
        /\ \/ /\ pipeline = "none" /\ UNCHANGED <<webrtc, described>>
           \/ /\ pipeline # "none" /\ webrtc = "idle"
              /\ webrtc' = "answering" /\ described' = "yes"
        /\ UNCHANGED <<app_state, life, thread, asked, gathering, dtls, viewer, offers,
                       history>>
-----------------------------------------------------------------------------
Main ==
  \/ MakeReady \/ Play \/ Joined \/ Restore \/ StartFails \/ Restart \/ Leave

Webrtc == NegotiationNeeded \/ OfferCreated \/ SendOffer \/ AnswerCreated \/ SendAnswer

Next ==
  \/ Main \/ Webrtc \/ IceOutsideCall \/ DtlsFails
  \/ Stop \/ BadSdp \/ Answer \/ AnswerTaken \/ Answered \/ Offer \/ Offered

Spec == Init /\ [][Next]_vars

(* The three threads run. The viewer need not answer, and nothing need fail.*)
FairSpec ==
  Spec /\ WF_vars(Main) /\ WF_vars(Webrtc) /\ WF_vars(AnswerTaken \/ Answered \/ Offered)
-----------------------------------------------------------------------------
(* Properties                                                               *)

(* A restart gives up only when max_retries starts in a row have failed.    *)
GivesUpLast == gave_up => failed = max_retries

(* In the loop the state is STARTED only when the webrtcbin of this         *)
(* pipeline has the viewer's answer to its own offer: whichever step an     *)
(* error or a restart comes between, no STARTED of the pipeline before      *)
(* survives it. Two cases are left out: the viewer has made an offer of its *)
(* own; or an answer to the offer of the pipeline before comes after the    *)
(* restart, or is being handled then. The code takes that for an answer to  *)
(* the new offer, or its assertions fail.                                   *)
StartedIsNegotiated ==
  (/\ app_state = "STARTED" /\ main = "loop" /\ loop = "runs" /\ life = "up"
   /\ offers = 0 /\ ~belated)
    => described = "yes"

(* The restart that has been scheduled ends with a pipeline that plays, or  *)
(* with the end of the process, which gstream_main can start again.         *)
RestartEnds == (timer = "armed") ~> (life # "up" \/ (main = "loop" /\ pipeline = "playing"
                                                       /\ dtls = "ok"))

(* STOP_WEBRTC ends the process, whatever it is doing: in a restart too.    *)
StopEnds == stopped ~> (life # "up")

(* The comments at webrtc_sender.c:77 and :131: a DTLS error restarts the   *)
(* pipeline, a second error only while a restart is already scheduled does  *)
(* not. (The timer's id is never cleared: the next error restarts nothing.) *)
DtlsRestarts == (dtls = "failed") ~> (dtls = "ok" \/ life # "up")
=============================================================================
