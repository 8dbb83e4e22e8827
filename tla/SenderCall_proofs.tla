-------------------------- MODULE SenderCall_proofs --------------------------
(* Proofs about SenderCall: its types, that a restart gives up only after   *)
(* all its attempts have failed, and that no started call outlives its      *)
(* pipeline.                                                                *)
EXTENDS SenderCall, TLAPS

(* Each attempt of a restart is counted in retry_count when it begins and   *)
(* in "failed" when it has failed; in the loop both are 0 again.            *)
AttemptsCounted ==
  /\ gave_up => main = "loop" /\ loop = "quit" /\ failed = max_retries
  /\ (~gave_up /\ main \in {"restore", "loop"}) => retry_count = 0 /\ failed = 0
  /\ (~gave_up /\ main \in {"start", "ready", "played"}) =>
       IF loop = "none" THEN retry_count = 0 /\ failed = 0
                        ELSE retry_count = failed + 1
  /\ main \in {"restore", "loop"} => loop # "none"

(* Until the pipeline plays, webrtcbin is new, but for an offer of the      *)
(* viewer.                                                                  *)
NewUntilPlayed ==
  /\ main \in {"start", "ready"} => pipeline # "playing"
  /\ (main \in {"start", "ready"} /\ offers = 0) => ~asked
  /\ timer = "armed" => main = "loop" /\ loop = "runs"
  /\ (loop = "none" /\ main \in {"start", "ready"} /\ offers = 0 /\ ~belated)
        => app_state # "STARTED"

(* Without an offer of the viewer this webrtcbin makes one offer: it waits  *)
(* for the answer, or has it on its way, or has had it. An answer that is   *)
(* not to this offer is a belated one.                                      *)
OneOffer ==
  (offers = 0 /\ life = "up") =>
    /\ receive # "offer" /\ webrtc \notin {"answering", "answer"}
    /\ ~asked => webrtc = "idle" /\ ~gathering /\ described = "no"
    /\ ~asked => "new" \notin viewer /\ receive # "answer"
    /\ webrtc # "idle" => "new" \notin viewer /\ receive # "answer" /\ described # "yes"
    /\ webrtc = "offer" => gathering
    /\ "new" \in viewer => receive # "answer" /\ gathering /\ described # "yes"
    /\ receive = "answer" => gathering /\ described # "yes"
    /\ receive = "oldAnswer" \/ described = "stale" => belated
    /\ receive = "taken" => belated \/ described = "yes"

StartedHere ==
  (app_state = "STARTED" /\ offers = 0 /\ life = "up" /\ ~belated)
    => \/ described = "yes"
       \/ main \in {"start", "ready", "played"}
       \/ loop # "runs"

IInv == NewUntilPlayed /\ OneOffer /\ StartedHere
-----------------------------------------------------------------------------
LEMMA InitInv == Init => TypeOK /\ AttemptsCounted /\ IInv
  <1>1. Init => TypeOK
    <2>1. Init => /\ retry_count \in 0 .. max_retries /\ offers \in 0 .. MaxOffers
                  /\ failed \in 0 .. max_retries + 1
      BY SenderAssumption DEF Init
    <2>2. Init => /\ app_state \in AppStates /\ timer \in {"0", "armed", "fired"}
                  /\ main \in {"start", "ready", "played", "restore", "loop"}
      BY DEF Init, AppStates
    <2>3. QED
      BY <2>1, <2>2 DEF Init, TypeOK
  <1>2. Init => AttemptsCounted
    BY DEF Init, AttemptsCounted
  <1>3. Init => IInv
    BY DEF Init, IInv, NewUntilPlayed, OneOffer, StartedHere
  <1>4. QED
    BY <1>1, <1>2, <1>3

LEMMA AbortCounted ==
  ASSUME TypeOK, AttemptsCounted, Abort
  PROVE  TypeOK' /\ AttemptsCounted'
  <1>1. TypeOK'
    BY DEF Abort, TypeOK, thread, bin, outside, history
  <1>2. AttemptsCounted'
    BY DEF Abort, AttemptsCounted, thread, history
  <1>3. QED
    BY <1>1, <1>2

(* The types hold, and each attempt of a restart is counted once.           *)
LEMMA CountedStep ==
  ASSUME TypeOK, AttemptsCounted, [Next]_vars
  PROVE  TypeOK' /\ AttemptsCounted'
  <1> USE SenderAssumption DEF TypeOK, AppStates, AttemptsCounted, thread, bin, outside,
          history
  <1>1. CASE MakeReady
    BY <1>1 DEF MakeReady
  <1>2. CASE Play
    BY <1>2 DEF Play
  <1>3. CASE Joined
    BY <1>3 DEF Joined
  <1>4. CASE Restore
    BY <1>4 DEF Restore
  <1>5. CASE StartFails
    <2> USE <1>5 DEF StartFails, Attempt, Quit, Fresh
    <2>1. AttemptsCounted'
      OBVIOUS
    <2>2. retry_count' \in 0 .. max_retries /\ failed' \in 0 .. max_retries + 1
      OBVIOUS
    <2>3. /\ app_state' \in AppStates /\ gave_up' \in BOOLEAN
          /\ main' \in {"start", "ready", "played", "restore", "loop"}
          /\ loop' \in {"none", "runs", "quit"} /\ timer' \in {"0", "armed", "fired"}
          /\ pipeline' \in {"none", "ready", "playing"}
      OBVIOUS
    <2>4. QED
      BY <2>1, <2>2, <2>3
  <1>6. CASE Restart
    <2> USE <1>6 DEF Restart, Attempt, Quit
    <2>1. AttemptsCounted'
      OBVIOUS
    <2>2. retry_count' \in 0 .. max_retries /\ failed' \in 0 .. max_retries + 1
      OBVIOUS
    <2>3. /\ app_state' \in AppStates /\ gave_up' \in BOOLEAN
          /\ main' \in {"start", "ready", "played", "restore", "loop"}
          /\ loop' \in {"none", "runs", "quit"} /\ timer' \in {"0", "armed", "fired"}
          /\ pipeline' \in {"none", "ready", "playing"}
      OBVIOUS
    <2>4. viewer' \subseteq {"old", "new"} /\ belated' \in BOOLEAN
          /\ receive' \in {"idle", "answer", "oldAnswer", "taken", "offer"}
      OBVIOUS
    <2>5. QED
      BY <2>1, <2>2, <2>3, <2>4 DEF Fresh
  <1>7. CASE Leave
    BY <1>7 DEF Leave, Fresh
  <1>8. CASE NegotiationNeeded
    BY <1>8 DEF NegotiationNeeded
  <1>9. CASE OfferCreated
    <2>1. CASE app_state # "OFFERING"
      BY <1>9, <2>1, AbortCounted DEF OfferCreated
    <2>2. CASE app_state = "OFFERING"
      <3>1. TypeOK'
        BY <1>9, <2>2 DEF OfferCreated
      <3>2. AttemptsCounted'
        BY <1>9, <2>2 DEF OfferCreated
      <3>3. QED
        BY <3>1, <3>2
    <2>3. QED
      BY <1>9, <2>1, <2>2 DEF OfferCreated
  <1>10. CASE SendOffer
    <2>1. CASE ~InCall /\ Abort
      BY <2>1, AbortCounted
    <2>2. CASE InCall
      <3>1. TypeOK'
        <4>1. /\ webrtc' = "idle" /\ viewer' = viewer \cup {"new"}
              /\ UNCHANGED <<app_state, life, thread, asked, gathering, described, dtls,
                             receive, offers, history>>
          BY <1>10, <2>2 DEF SendOffer
        <4>2. viewer' \subseteq {"old", "new"}
          BY <4>1
        <4>3. QED
          BY <4>1, <4>2
      <3>2. AttemptsCounted'
        BY <1>10, <2>2 DEF SendOffer
      <3>3. QED
        BY <3>1, <3>2
    <2>3. QED
      BY <1>10, <2>1, <2>2 DEF SendOffer
  <1>11. CASE AnswerCreated
    <2>1. CASE app_state # "ANSWERING"
      BY <1>11, <2>1, AbortCounted DEF AnswerCreated
    <2>2. CASE app_state = "ANSWERING"
      <3>1. TypeOK'
        BY <1>11, <2>2 DEF AnswerCreated
      <3>2. AttemptsCounted'
        BY <1>11, <2>2 DEF AnswerCreated
      <3>3. QED
        BY <3>1, <3>2
    <2>3. QED
      BY <1>11, <2>1, <2>2 DEF AnswerCreated
  <1>12. CASE SendAnswer
    <2>1. CASE ~InCall /\ Abort
      BY <2>1, AbortCounted
    <2>2. CASE InCall
      <3>1. TypeOK'
        BY <1>12, <2>2 DEF SendAnswer
      <3>2. AttemptsCounted'
        BY <1>12, <2>2 DEF SendAnswer
      <3>3. QED
        BY <3>1, <3>2
    <2>3. QED
      BY <1>12, <2>1, <2>2 DEF SendAnswer
  <1>13. CASE IceOutsideCall
    BY <1>13 DEF IceOutsideCall, Quit, InCall, InRoom
  <1>14. CASE DtlsFails
    BY <1>14 DEF DtlsFails
  <1>15. CASE Stop
    BY <1>15 DEF Stop, Quit
  <1>16. CASE BadSdp
    <2>1. CASE ~InRoom /\ Abort
      BY <2>1, AbortCounted
    <2>2. CASE InRoom
      <3>1. TypeOK'
        BY <1>16, <2>2 DEF BadSdp, Quit
      <3>2. AttemptsCounted'
        BY <1>16, <2>2 DEF BadSdp, Quit
      <3>3. QED
        BY <3>1, <3>2
    <2>3. QED
      BY <1>16, <2>1, <2>2 DEF BadSdp
  <1>17. CASE Answer
    BY <1>17 DEF Answer, Answering, InCall, InRoom
  <1>22. CASE AnswerTaken
    <2>1. CASE ~InCall /\ Abort
      BY <2>1, AbortCounted
    <2>2. CASE InCall
      <3>1. TypeOK'
        <4>1. /\ receive' = "taken" /\ described' \in {"no", "stale", "yes"}
              /\ UNCHANGED <<app_state, life, thread, webrtc, asked, gathering, dtls,
                             viewer, offers, history>>
          BY <1>22, <2>2 DEF AnswerTaken
        <4>2. QED
          BY <4>1
      <3>2. AttemptsCounted'
        BY <1>22, <2>2 DEF AnswerTaken
      <3>3. QED
        BY <3>1, <3>2
    <2>3. QED
      BY <1>22, <2>1, <2>2 DEF AnswerTaken
  <1>18. CASE Answered
    BY <1>18 DEF Answered
  <1>19. CASE Offer
    BY <1>19 DEF Offer, InRoom
  <1>20. CASE Offered
    <2>1. AttemptsCounted'
      BY <1>20 DEF Offered, Abort
    <2>2. TypeOK'
      BY <1>20 DEF Offered, Abort
    <2>3. QED
      BY <2>1, <2>2
  <1>21. CASE UNCHANGED vars
    BY <1>21 DEF vars
  <1>23. QED
    BY <1>1, <1>2, <1>3, <1>4, <1>5, <1>6, <1>7, <1>8, <1>9, <1>10, <1>11,
       <1>12, <1>13, <1>14, <1>15, <1>16, <1>17, <1>18, <1>19, <1>20,
       <1>21, <1>22 DEF Next, Main, Webrtc

LEMMA AbortNegotiation ==
  ASSUME IInv, Abort
  PROVE  IInv'
  BY DEF Abort, IInv, NewUntilPlayed, OneOffer, StartedHere, thread, bin, outside, history

(* What the present pipeline has been told belongs to it, or is belated.    *)
LEMMA NegotiationStep ==
  ASSUME TypeOK, AttemptsCounted, IInv, [Next]_vars
  PROVE  IInv'
  <1> USE SenderAssumption DEF TypeOK, AppStates, AttemptsCounted, thread, bin, outside,
          history, IInv, NewUntilPlayed, OneOffer, StartedHere
  <1>1. CASE MakeReady
    BY <1>1 DEF MakeReady
  <1>2. CASE Play
    BY <1>2 DEF Play
  <1>3. CASE Joined
    BY <1>3 DEF Joined
  <1>4. CASE Restore
    BY <1>4 DEF Restore
  <1>5. CASE StartFails
    <2>1. CASE loop = "none"
      BY <1>5, <2>1 DEF StartFails, Attempt, Quit, Fresh
    <2>2. CASE loop # "none" /\ retry_count >= max_retries
      BY <1>5, <2>2 DEF StartFails, Attempt, Quit, Fresh
    <2>3. CASE loop # "none" /\ retry_count < max_retries
      BY <1>5, <2>3 DEF StartFails, Attempt, Quit, Fresh
    <2>4. QED
      BY <1>5, <2>1, <2>2, <2>3 DEF StartFails
  <1>6. CASE Restart
    <2>1. CASE retry_count >= max_retries
      BY <1>6, <2>1 DEF Restart, Attempt, Quit, Fresh
    <2>2. CASE retry_count < max_retries
      BY <1>6, <2>2 DEF Restart, Attempt, Quit, Fresh
    <2>3. QED
      BY <1>6, <2>1, <2>2 DEF Restart
  <1>7. CASE Leave
    BY <1>7 DEF Leave, Fresh
  <1>8. CASE NegotiationNeeded
    BY <1>8 DEF NegotiationNeeded
  <1>9. CASE OfferCreated
    <2>1. CASE app_state # "OFFERING"
      BY <1>9, <2>1, AbortNegotiation DEF OfferCreated
    <2>2. CASE app_state = "OFFERING"
      BY <1>9, <2>2 DEF OfferCreated
    <2>3. QED
      BY <1>9, <2>1, <2>2 DEF OfferCreated
  <1>10. CASE SendOffer
    <2>1. CASE ~InCall /\ Abort
      BY <2>1, AbortNegotiation
    <2>2. CASE InCall
      BY <1>10, <2>2 DEF SendOffer, InCall, InRoom
    <2>3. QED
      BY <1>10, <2>1, <2>2 DEF SendOffer
  <1>11. CASE AnswerCreated
    <2>1. CASE app_state # "ANSWERING"
      BY <1>11, <2>1, AbortNegotiation DEF AnswerCreated
    <2>2. CASE app_state = "ANSWERING"
      BY <1>11, <2>2 DEF AnswerCreated
    <2>3. QED
      BY <1>11, <2>1, <2>2 DEF AnswerCreated
  <1>12. CASE SendAnswer
    <2>1. CASE ~InCall /\ Abort
      BY <2>1, AbortNegotiation
    <2>2. CASE InCall
      BY <1>12, <2>2 DEF SendAnswer, InCall, InRoom
    <2>3. QED
      BY <1>12, <2>1, <2>2 DEF SendAnswer
  <1>13. CASE IceOutsideCall
    BY <1>13 DEF IceOutsideCall, Quit, InCall, InRoom
  <1>14. CASE DtlsFails
    BY <1>14 DEF DtlsFails
  <1>15. CASE Stop
    BY <1>15 DEF Stop, Quit
  <1>16. CASE BadSdp
    <2>1. CASE ~InRoom /\ Abort
      BY <2>1, AbortNegotiation
    <2>2. CASE InRoom
      BY <1>16, <2>2 DEF BadSdp, Quit, InRoom
    <2>3. QED
      BY <1>16, <2>1, <2>2 DEF BadSdp
  <1>17. CASE Answer
    <2> USE <1>17 DEF Answer, Answering
    <2>1. NewUntilPlayed' /\ StartedHere'
      OBVIOUS
    <2>2. OneOffer'
      <3>1. PICK offer \in viewer :
              /\ UNCHANGED receive \/ receive' = IF offer = "new" THEN "answer" ELSE "oldAnswer"
              /\ viewer' = viewer \ {offer} /\ belated' = (belated \/ offer = "old")
              /\ UNCHANGED <<thread, bin, offers>>
        OBVIOUS
      <3>2. receive = "idle" /\ life = "up"
        OBVIOUS
      <3>3. CASE offer = "new"
        BY <3>1, <3>2, <3>3
      <3>4. CASE offer = "old"
        BY <3>1, <3>2, <3>4
      <3>5. QED
        BY <3>1, <3>3, <3>4
    <2>3. QED
      BY <2>1, <2>2
  <1>22. CASE AnswerTaken
    <2>1. CASE ~InCall /\ Abort
      BY <2>1, AbortNegotiation
    <2>2. CASE InCall
      BY <1>22, <2>2 DEF AnswerTaken, InCall, InRoom
    <2>3. QED
      BY <1>22, <2>1, <2>2 DEF AnswerTaken
  <1>18. CASE Answered
    BY <1>18 DEF Answered
  <1>19. CASE Offer
    BY <1>19 DEF Offer, InRoom
  <1>20. CASE Offered
    <2>1. CASE app_state # "ANSWERING"
      BY <1>20, <2>1 DEF Offered, Abort
    <2>2. CASE app_state = "ANSWERING"
      BY <1>20, <2>2 DEF Offered, Abort
    <2>3. QED
      BY <1>20, <2>1, <2>2 DEF Offered
  <1>21. CASE UNCHANGED vars
    BY <1>21 DEF vars
  <1>23. QED
    BY <1>1, <1>2, <1>3, <1>4, <1>5, <1>6, <1>7, <1>8, <1>9, <1>10, <1>11,
       <1>12, <1>13, <1>14, <1>15, <1>16, <1>17, <1>18, <1>19, <1>20,
       <1>21, <1>22 DEF Next, Main, Webrtc

-----------------------------------------------------------------------------
LEMMA Invariant == Spec => [](TypeOK /\ AttemptsCounted /\ IInv)
  <1>1. Init => TypeOK /\ AttemptsCounted /\ IInv
    BY InitInv
  <1>2. TypeOK /\ AttemptsCounted /\ IInv /\ [Next]_vars
          => (TypeOK /\ AttemptsCounted /\ IInv)'
    BY CountedStep, NegotiationStep
  <1>3. QED
    BY <1>1, <1>2, PTL DEF Spec

(* Every variable has its type: no more than max_retries attempts are       *)
(* counted, whatever the threads do to app_state.                           *)
THEOREM TypeCorrect == Spec => []TypeOK
  BY Invariant, PTL

(* A restart gives up, and ends the process, only when max_retries starts   *)
(* in a row have failed.                                                    *)
THEOREM RetriesUsed == Spec => []GivesUpLast
  <1>1. AttemptsCounted => GivesUpLast
    BY DEF AttemptsCounted, GivesUpLast
  <1>2. QED
    BY <1>1, Invariant, PTL

(* No started call outlives its pipeline: whatever a restart comes between, *)
(* STARTED in the loop is of an answer to the offer that this pipeline has  *)
(* made, unless the viewer has made an offer of its own, or an answer to    *)
(* the pipeline before came too late, which the code cannot tell apart.     *)
THEOREM NothingLeftOver == Spec => []StartedIsNegotiated
  <1>1. IInv /\ AttemptsCounted => StartedIsNegotiated
    BY DEF IInv, StartedHere, AttemptsCounted, StartedIsNegotiated
  <1>2. QED
    BY <1>1, Invariant, PTL
=============================================================================
