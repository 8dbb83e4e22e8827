---------------------------- MODULE AutoPtz_proofs ----------------------------
(* Proofs about AutoPtz, for every set of presets, sequences, threads and   *)
(* commands: its types, that one tour runs at a time unless the two         *)
(* stoppers meet, and that a tour moves only to presets that are set and    *)
(* were asked for.                                                          *)
EXTENDS AutoPtz, TLAPS

(* A tour goes round within its sequence.                                   *)
ToursBounded == \A t \in Tours : Live(t) => tour[t].max \in 2 .. MaxLen

(* Only a thread that has been started is stopped and joined; one waits for *)
(* it, and then it has ended.                                               *)
StartedTour == g_tid \in Tours /\ tour[g_tid].pc # "none"
JoinedOnce ==
  /\ (SEQ.on \/ \E s \in Stoppers : pc[s] \in {"clear", "join"}) => StartedTour
  /\ g_tid # NoTour => StartedTour
  /\ \A s \in Stoppers : pc[s] = "joining" =>
       /\ target[s] \in Tours /\ joined[target[s]] = "waited"
       /\ tour[target[s]].pc # "none"
  /\ \A t \in Tours : joined[t] = "waited" =>
       \E s \in Stoppers : pc[s] = "joining" /\ target[s] = t
  /\ (pc["main"] = "joining" /\ pc["heartbeat"] = "joining")
       => target["main"] # target["heartbeat"]
  /\ \A t \in Tours : joined[t] = "yes" => ~Live(t)

(* The main thread starts a tour when the flag of the one before is clear.  *)
Starting == pc["main"] = "do" /\ cmd["main"].op = "auto"
MainStops ==
  /\ pc["main"] = "position" => cmd["main"].op # "auto"
  /\ pc["main"] = "joining" => target["main"] = g_tid
  /\ (pc["main"] \in {"join", "joining"} \/ Starting) => ~SEQ.on

(* Until a tour was started beside another: the tour that runs is the last  *)
(* one; when its flag is clear someone stops it; and when the main thread   *)
(* does not wait for it, the heartbeat thread does.                         *)
Waits(s, t) == pc[s] = "join" \/ (pc[s] = "joining" /\ target[s] = t)
LastTourRuns ==
  ~crowded => \A t \in Tours : Live(t) =>
    /\ t = g_tid
    /\ ~SEQ.on => \E s \in Stoppers : Waits(s, t)
    /\ Starting => Waits("heartbeat", t)

(* What the tour that runs reads is what was asked for.                     *)
SequenceRead ==
  /\ SEQ.on => /\ Len(auto_ptz_seq) = SEQ.count
               /\ \A i \in 1 .. SEQ.count : auto_ptz_seq[i] = SEQ.list[i - 1]
  /\ ~crowded => \A t \in Tours :
       /\ Live(t) => tour[t].max = SEQ.count
       /\ visited[t] => Live(t) /\ index < tour[t].max

(* Every preset the tour can be sent to has been set.                       *)
PresetsSet ==
  /\ (~crowded /\ g_tid = NoTour) => index = 0
  /\ (~crowded /\ g_tid # NoTour) =>
       /\ AUTO_POS[SEQ.list[index]].set
       /\ \A i \in Indices : i < SEQ.count => AUTO_POS[SEQ.list[i]].set

IInv ==
  TypeOK /\ ToursBounded /\ JoinedOnce /\ MainStops /\ LastTourRuns /\ SequenceRead
    /\ PresetsSet
-----------------------------------------------------------------------------
(* Three kinds of step besides those of a stop: of the tour t ...           *)
TourRecords == [pc : TourPcs, max : 0 .. MaxLen, again : BOOLEAN, elapsed : 0 .. WaitLimit]
TourStep(t) ==
  /\ Live(t) /\ tour'[t].pc # "none"
  /\ tour' \in [Tours -> TourRecords] /\ \A u \in Tours \ {t} : tour'[u] = tour[u]
  /\ visited' \in [Tours -> BOOLEAN] /\ \A u \in Tours \ {t} : visited'[u] = visited[u]
  /\ \/ tour'[t].pc = "ended" /\ ~SEQ.on /\ ~visited'[t]
     \/ tour'[t].pc # "ended" /\ tour'[t].max = tour[t].max
  /\ \/ index' = index /\ (visited'[t] => visited[t])
     \/ index' = Advanced(t)
  /\ prev_index' \in {prev_index, index}
  /\ g_no_zoom' \in BOOLEAN /\ analysis' \in BOOLEAN
  /\ UNCHANGED <<SEQ, g_tid, joined, lists, analysis_status, threads, crowded>>

(* ... of a thread s with its commands, but for a stop or a start ...       *)
ThreadPcs == {"start", "idle", "status", "position", "clear", "join", "joining", "do"}
ThreadStep(s, to, c) ==
  /\ s \in Stoppers
  /\ pc[s] \notin {"clear", "join", "joining"}
  /\ to \in ThreadPcs \ {"join", "joining"} /\ c \in Commands
  /\ pc' = [pc EXCEPT ![s] = to] /\ cmd' = [cmd EXCEPT ![s] = c]
  /\ to = "clear" => SEQ.on
  /\ (s = "main" /\ to = "do" /\ c.op = "auto") => pc["main"] = "idle" /\ ~SEQ.on
  /\ (s = "main" /\ to = "position") => c.op # "auto"
  /\ AUTO_POS' \in [Presets -> Positions] /\ USER_POS' \in Positions
  /\ \A p \in Presets : AUTO_POS[p].set => AUTO_POS'[p].set
  /\ g_no_zoom' \in BOOLEAN /\ analysis' \in BOOLEAN /\ analysis_status' \in BOOLEAN
  /\ init_pan' \in BOOLEAN /\ asks' \in 0 .. MaxAsks
  /\ auto_ptz_seq' = auto_ptz_seq \/ (auto_ptz_seq' = <<>> /\ ~SEQ.on)
  /\ UNCHANGED <<SEQ, g_tid, index, prev_index, tour, joined, target, history>>

(* ... and the start of a tour.                                             *)
StartStep(t, q) ==
  /\ Starting /\ q \in Seqs /\ Len(q) \in 2 .. MaxLen /\ Valid(q)
  /\ t \in Tours /\ (tour[t].pc = "none" \/ joined[t] = "yes")
  /\ SEQ' = Written(q) /\ g_tid' = t /\ auto_ptz_seq' = q
  /\ tour' = [tour EXCEPT ![t] = [IdleTour EXCEPT !.pc = "while", !.max = Len(q)]]
  /\ joined' = [joined EXCEPT ![t] = "no"]
  /\ crowded' = (crowded \/ \E u \in Tours : Live(u))
  /\ visited' = [visited EXCEPT ![t] = FALSE]
  /\ pc' = [pc EXCEPT !["main"] = "idle"] /\ cmd' = [cmd EXCEPT !["main"] = NoCommand]
  /\ UNCHANGED <<index, prev_index, g_no_zoom, AUTO_POS, USER_POS, detect,
                 target, init_pan, asks>>

LEMMA ModuloType ==
  ASSUME NEW i \in Nat, NEW m \in Nat \ {0}
  PROVE  (i % m) \in 0 .. m - 1
  OBVIOUS

LEMMA AdvancedType ==
  ASSUME TypeOK, ToursBounded, NEW t \in Tours, Live(t)
  PROVE  Advanced(t) \in Indices /\ Advanced(t) < tour[t].max
  <1> PICK m \in 2 .. MaxLen : tour[t].max = m
    BY DEF ToursBounded
  <1> DEFINE n == (index + 1) % m
  <1>1. index \in Nat /\ m \in Nat \ {0} /\ MaxLen \in Nat
    BY PtzAssumption DEF TypeOK, Indices
  <1>2. n \in 0 .. m - 1
    BY <1>1, ModuloType
  <1>3. n \in Indices /\ n < m
    BY <1>1, <1>2 DEF Indices
  <1>4. QED
    BY <1>3 DEF Advanced

LEMMA CommandType ==
  ASSUME TypeOK
  PROVE  /\ cmd["main"].op = "auto" => cmd["main"].seq \in Seqs
         /\ cmd["main"].op = "set" => cmd["main"].preset \in Presets
  <1> PICK c \in Commands : cmd["main"] = c
    BY DEF TypeOK, Stoppers
  <1>1. CASE c \in Asked
    <2>1. c.op # "auto" /\ c.preset \in Presets
      BY <1>1, PtzAssumption
    <2>2. QED
      BY <2>1
  <1>2. CASE c = NoCommand \/ c = Command("move", <<>>, Preset0, 0)
    BY <1>2 DEF NoCommand, Command
  <1>3. ASSUME NEW q \in Seqs, c = Command("auto", q, Preset0, 0)
        PROVE  c.seq \in Seqs /\ c.op # "set"
    BY <1>3 DEF Command
  <1>4. QED
    BY <1>1, <1>2, <1>3 DEF Commands

(* What the actions do, in those terms.                                     *)
LEMMA RecordPut ==
  ASSUME NEW f \in [Tours -> TourRecords], NEW t \in Tours, NEW r \in TourRecords
  PROVE  /\ [f EXCEPT ![t] = r] \in [Tours -> TourRecords]
         /\ [f EXCEPT ![t] = r][t] = r
         /\ \A u \in Tours \ {t} : [f EXCEPT ![t] = r][u] = f[u]
  OBVIOUS

LEMMA TourEffect ==
  ASSUME TypeOK, ToursBounded, NEW t \in Tours, TourWork(t)
  PROVE  TourStep(t)
  <1>1. /\ tour \in [Tours -> TourRecords] /\ tour[t] \in TourRecords
        /\ visited \in [Tours -> BOOLEAN]
        /\ g_no_zoom \in BOOLEAN /\ analysis \in BOOLEAN /\ WaitLimit \in Nat \ {0}
    BY PtzAssumption DEF TypeOK, TourRecords
  <1>2. [IdleTour EXCEPT !.pc = "ended"] \in TourRecords
    <2>1. 0 \in 0 .. MaxLen /\ 0 \in 0 .. WaitLimit
      BY PtzAssumption
    <2>2. IdleTour \in TourRecords
      BY <2>1 DEF IdleTour, TourRecords, TourPcs
    <2>3. QED
      BY <2>2 DEF TourRecords, TourPcs
  <1> DEFINE Ended == /\ tour' \in [Tours -> TourRecords]
                      /\ \A u \in Tours \ {t} : tour'[u] = tour[u]
                      /\ tour'[t].pc = "ended" /\ g_no_zoom' = FALSE
                      /\ visited' \in [Tours -> BOOLEAN] /\ ~visited'[t]
                      /\ \A u \in Tours \ {t} : visited'[u] = visited[u]
             Goes(p) == /\ tour' \in [Tours -> TourRecords]
                        /\ \A u \in Tours \ {t} : tour'[u] = tour[u]
                        /\ tour'[t].pc = p /\ tour'[t].max = tour[t].max
  <1> USE DEF Live, At, To, TourPcs, lists, threads, detect, history
  <1>0. Ends(t) => Ended
    BY <1>1, <1>2, RecordPut DEF Ends, TourRecords
  <1>3. CASE Move(t)
    <2>1. (Goes("ask_off")) /\ tour[t].pc \notin {"none", "ended"}
      BY <1>3, <1>1 DEF Move, TourRecords
    <2>2. QED
      BY <1>3, <1>1, <2>1 DEF Move, TourStep
  <1>4. CASE AskOff(t)
    <2>1. (Goes("off") \/ Goes("wait")) /\ tour[t].pc \notin {"none", "ended"}
      BY <1>4, <1>1 DEF AskOff, TourRecords
    <2>2. QED
      BY <1>4, <1>1, <2>1 DEF AskOff, TourStep
  <1>5. CASE SwitchOff(t)
    <2>1. (Goes("wait")) /\ tour[t].pc \notin {"none", "ended"}
      BY <1>5, <1>1 DEF SwitchOff, TourRecords
    <2>2. QED
      BY <1>5, <1>1, <2>1 DEF SwitchOff, TourStep
  <1>6. CASE Completes(t)
    <2>1. (Goes("while") \/ Goes("ask_on")) /\ tour[t].pc \notin {"none", "ended"}
      BY <1>6, <1>1 DEF Completes, Completed, TourRecords
    <2>2. QED
      BY <1>6, <1>1, <2>1 DEF Completes, TourStep
  <1>7. CASE AskOn(t)
    <2>1. (Goes("on") \/ Goes("stay")) /\ tour[t].pc \notin {"none", "ended"}
      BY <1>7, <1>1 DEF AskOn, TourRecords
    <2>2. QED
      BY <1>7, <1>1, <2>1 DEF AskOn, TourStep
  <1>8. CASE SwitchOn(t)
    <2>1. (Goes("stay")) /\ tour[t].pc \notin {"none", "ended"}
      BY <1>8, <1>1 DEF SwitchOn, TourRecords
    <2>2. QED
      BY <1>8, <1>1, <2>1 DEF SwitchOn, TourStep
  <1>9. CASE End(t)
    BY <1>9, <1>0, <1>1 DEF End, TourStep
  <1>10. CASE WaitsOn(t)
    <2>1. CASE ~SEQ.on
      BY <2>1, <1>10, <1>0, <1>1 DEF WaitsOn, TourStep
    <2>2. CASE SEQ.on
      <3>1. Goes("wait") \/ Goes("while") \/ Goes("ask_on")
        BY <2>2, <1>10, <1>1 DEF WaitsOn, Completed, TourRecords
      <3>2. tour[t].pc = "wait"
        BY <1>10 DEF WaitsOn
      <3>3. QED
        BY <2>2, <1>10, <1>1, <3>1, <3>2 DEF WaitsOn, TourStep
    <2>3. QED
      BY <2>1, <2>2
  <1>11. CASE Leave(t)
    <2>1. CASE ~SEQ.on
      BY <2>1, <1>11, <1>0, <1>1 DEF Leave, TourStep
    <2>2. CASE SEQ.on
      <3>1. Goes("while") /\ tour[t].pc = "stay"
        BY <2>2, <1>11, <1>1 DEF Leave, TourRecords
      <3>2. QED
        BY <2>2, <1>11, <1>1, <3>1 DEF Leave, TourStep
    <2>3. QED
      BY <2>1, <2>2
  <1>12. QED
    BY <1>3, <1>4, <1>5, <1>6, <1>7, <1>8, <1>9, <1>10, <1>11 DEF TourWork

LEMMA ThreadEffect ==
  ASSUME TypeOK, MainStops,
         NEW s \in Stoppers,
         \/ Asks \/ InitAutoPan \/ SetStatus \/ ApplySetting \/ Position(s) \/ DoMove(s) \/ DoSet
  PROVE  \E r \in Stoppers : \E to, d : ThreadStep(r, to, d)
  <1>0. /\ "main" \in Stoppers /\ "heartbeat" \in Stoppers /\ NoCommand \in Commands
        /\ \A q \in Seqs : Command("auto", q, Preset0, 0) \in Commands
        /\ \A c \in Asked : c \in Commands
        /\ Command("move", <<>>, Preset0, 0) \in Commands
        /\ pc \in [Stoppers -> ThreadPcs] /\ cmd \in [Stoppers -> Commands]
        /\ AUTO_POS \in [Presets -> Positions] /\ USER_POS \in Positions
        /\ asks \in 0 .. MaxAsks /\ init_pan \in BOOLEAN /\ g_no_zoom \in BOOLEAN
        /\ analysis \in BOOLEAN /\ analysis_status \in BOOLEAN
        /\ Stop \in {"clear", "do"}
        /\ Stop = "clear" => SEQ.on
        /\ Stop = "do" => ~SEQ.on
    BY DEF TypeOK, ThreadPcs, Stoppers, Commands, Stop
  <1> USE DEF ThreadStep, Go, Done, Begin, Idle, ThreadPcs
  <1>1. ASSUME NEW q \in Seqs, AskTour(q) PROVE \E r \in Stoppers : \E to, d : ThreadStep(r, to, d)
    <2>1. ThreadStep("main", Stop, Command("auto", q, Preset0, 0))
      BY <1>0, <1>1, PtzAssumption DEF AskTour, Ask, tours, lists, detect, history
    <2>2. QED
      BY <2>1, <1>0
  <1>2. ASSUME NEW c \in Asked, AskMove(c) PROVE \E r \in Stoppers : \E to, d : ThreadStep(r, to, d)
    <2>1. ThreadStep("main", "position", c)
      BY <1>0, <1>2, PtzAssumption DEF AskMove, Ask, tours, lists, detect, history
    <2>2. QED
      BY <2>1, <1>0
  <1>3. ASSUME NEW c \in Asked, AskSet(c) PROVE \E r \in Stoppers : \E to, d : ThreadStep(r, to, d)
    <2>1. ThreadStep("main", Stop, c)
      BY <1>0, <1>3, PtzAssumption DEF AskSet, Ask, tours, lists, detect, history
    <2>2. QED
      BY <2>1, <1>0
  <1>4. ASSUME NEW c \in Asked, AskAnalysis(c) PROVE \E r \in Stoppers : \E to, d : ThreadStep(r, to, d)
    <2>1. ThreadStep("main", "status", c)
      BY <1>0, <1>4, PtzAssumption DEF AskAnalysis, Ask, tours, lists, detect, history
    <2>2. QED
      BY <2>1, <1>0
  <1>5. CASE SetStatus
    <2>1. ThreadStep("main", "idle", NoCommand)
      BY <1>0, <1>5, PtzAssumption DEF SetStatus, tours, lists, detect, history
    <2>2. QED
      BY <2>1, <1>0
  <1>6. CASE DoMove(s)
    <2>1. ThreadStep(s, "idle", NoCommand)
      BY <1>0, <1>6, PtzAssumption DEF DoMove, lists, detect, history
    <2>2. QED
      BY <2>1, <1>0
  <1>7. CASE DoSet
    <2>1. AUTO_POS' \in [Presets -> Positions] /\ USER_POS' \in Positions
      <3>1. [set : {TRUE}, at : Spots] \subseteq Positions
        BY DEF Positions
      <3>2. QED
        BY <1>0, <1>7, <3>1, CommandType DEF DoSet
    <2>2. \A p \in Presets : AUTO_POS[p].set => AUTO_POS'[p].set
      BY <1>0, <1>7, CommandType DEF DoSet
    <2>3. ThreadStep("main", "idle", NoCommand)
      BY <1>0, <1>7, <2>1, <2>2 DEF DoSet, tours, detect, history
    <2>4. QED
      BY <2>3, <1>0
  <1>8. CASE InitAutoPan
    <2>1. CASE auto_ptz_seq # <<>>
      <3>1. auto_ptz_seq \in Seqs
        BY <2>1 DEF TypeOK
      <3>2. /\ Command("auto", auto_ptz_seq, Preset0, 0) \in Commands
            /\ Command("auto", auto_ptz_seq, Preset0, 0).op = "auto"
        BY <3>1 DEF Commands, Command
      <3>3. ThreadStep("main", Stop, Command("auto", auto_ptz_seq, Preset0, 0))
        BY <1>0, <1>8, <2>1, <3>2 DEF InitAutoPan, tours, lists, detect, history
      <3>4. QED
        BY <3>3, <1>0
    <2>2. CASE auto_ptz_seq = <<>>
      <3>1. pc["main"] = "idle" /\ UNCHANGED <<pc, cmd>>
        BY <2>2, <1>8 DEF InitAutoPan
      <3>2. /\ pc' = [pc EXCEPT !["main"] = "idle"]
            /\ cmd' = [cmd EXCEPT !["main"] = cmd["main"]]
        BY <3>1, <1>0
      <3>3. ThreadStep("main", "idle", cmd["main"])
        BY <1>0, <1>8, <3>1, <3>2 DEF InitAutoPan, tours, lists, detect, history
      <3>4. QED
        BY <3>3, <1>0
    <2>3. QED
      BY <2>1, <2>2
  <1>9. CASE ApplySetting
    <2>1. CASE USER_POS.set
      <3>1. ThreadStep("heartbeat", "position", Command("move", <<>>, Preset0, 0))
        BY <1>0, <1>9, <2>1 DEF ApplySetting, tours, lists, detect, history
      <3>2. QED
        BY <3>1, <1>0
    <2>2. CASE ~USER_POS.set
      <3>1. ThreadStep("heartbeat", "idle", NoCommand)
        BY <1>0, <1>9, <2>2 DEF ApplySetting, tours, lists, detect, history
      <3>2. QED
        BY <3>1, <1>0
    <2>3. QED
      BY <2>1, <2>2
  <1>10. CASE Position(s)
    <2>1. pc[s] = "position" /\ (s = "main" => cmd[s].op # "auto")
      BY <1>10 DEF Position, MainStops
    <2>2. CASE Done(s)
      <3>1. ThreadStep(s, "idle", NoCommand)
        BY <1>0, <1>10, <2>1, <2>2 DEF Position, tours, lists, detect, history
      <3>2. QED
        BY <3>1
    <2>3. CASE ~Done(s)
      <3>1. PICK to \in {"clear", "do"} :
              /\ pc' = [pc EXCEPT ![s] = to] /\ UNCHANGED cmd
              /\ to = "clear" => SEQ.on
        BY <1>0, <1>10, <2>3 DEF Position
      <3>2. cmd' = [cmd EXCEPT ![s] = cmd[s]] /\ cmd[s] \in Commands
        BY <3>1, <1>0
      <3>3. ThreadStep(s, to, cmd[s])
        BY <1>0, <1>10, <2>1, <3>1, <3>2 DEF Position, tours, lists, detect, history
      <3>4. QED
        BY <3>3
    <2>4. QED
      BY <2>2, <2>3
  <1>11. QED
    BY <1>1, <1>2, <1>3, <1>4, <1>5, <1>6, <1>7, <1>8, <1>9, <1>10 DEF Asks

LEMMA AutoEffect ==
  ASSUME TypeOK, MainStops, DoAuto
  PROVE  \/ \E t, q : StartStep(t, q)
         \/ ThreadStep("main", "idle", NoCommand)
  <1> DEFINE q == cmd["main"].seq
  <1>1. /\ Starting /\ q \in Seqs /\ "main" \in Stoppers /\ NoCommand \in Commands
        /\ pc["main"] = "do"
    BY CommandType DEF DoAuto, Starting, Stoppers, Commands
  <1>2. CASE Valid(q)
    <2> HIDE DEF q
    <2>1. Len(q) \in 2 .. MaxLen
      BY <1>1, <1>2, PtzAssumption DEF Valid
    <2>2. FreeTours # {}
      BY <1>2 DEF DoAuto, q
    <2>3. NewTour \in Tours /\ (tour[NewTour].pc = "none" \/ joined[NewTour] = "yes")
      BY <2>2 DEF NewTour, FreeTours
    <2>4. StartStep(NewTour, q)
      BY <1>1, <1>2, <2>1, <2>3 DEF DoAuto, StartStep, q, Done, Go
    <2>5. QED
      BY <2>4
  <1>3. CASE ~Valid(q)
    <2>1. ~SEQ.on
      BY <1>1 DEF MainStops
    <2>2. /\ AUTO_POS \in [Presets -> Positions] /\ USER_POS \in Positions
          /\ asks \in 0 .. MaxAsks /\ init_pan \in BOOLEAN /\ g_no_zoom \in BOOLEAN
          /\ analysis \in BOOLEAN /\ analysis_status \in BOOLEAN
      BY DEF TypeOK
    <2>3. ThreadStep("main", "idle", NoCommand)
      BY <1>1, <1>3, <2>1, <2>2
      DEF DoAuto, ThreadStep, ThreadPcs, Done, Go, detect, history
    <2>4. QED
      BY <2>3
  <1>4. QED
    BY <1>2, <1>3
-----------------------------------------------------------------------------
(* Each kind of step preserves the invariant.                               *)
LEMMA InitInv == Init => IInv
  <1> SUFFICES ASSUME Init PROVE IInv
    OBVIOUS
  <1> PICK r \in Stored :
         /\ AUTO_POS = r.AUTO_POS /\ USER_POS = r.USER_POS
         /\ auto_ptz_seq = r.auto_ptz_seq /\ analysis_status = r.analysis_status
    BY DEF Init
  <1>1. /\ AUTO_POS \in [Presets -> Positions] /\ USER_POS \in Positions
        /\ auto_ptz_seq \in Seqs \cup {<<>>} /\ analysis_status \in BOOLEAN
    BY PtzAssumption
  <1>2. /\ 0 \in 0 .. MaxLen /\ 0 \in 0 .. WaitLimit /\ 0 \in 0 .. MaxAsks
        /\ 0 \in Indices /\ Preset0 \in Presets
    BY PtzAssumption DEF Indices
  <1>3. IdleTour \in TourRecords
    BY <1>2 DEF IdleTour, TourRecords, TourPcs
  <1>4. tour \in [Tours -> TourRecords]
    BY <1>3 DEF Init
  <1>5. SEQ \in [on : BOOLEAN, count : 0 .. MaxLen, list : [Indices -> Presets]]
    BY <1>2 DEF Init
  <1>6. cmd \in [Stoppers -> Commands]
    BY DEF Init, Commands
  <1>7. TypeOK
    BY <1>1, <1>2, <1>4, <1>5, <1>6 DEF Init, TypeOK, TourRecords, Indices
  <1>8. \A t \in Tours : ~Live(t) /\ joined[t] = "no" /\ ~visited[t]
    BY DEF Init, Live, IdleTour
  <1>9. /\ ~SEQ.on /\ g_tid = NoTour /\ index = 0 /\ pc["main"] = "idle"
        /\ \A s \in Stoppers : pc[s] \in {"start", "idle"}
    BY DEF Init, Stoppers
  <1>10. ToursBounded /\ JoinedOnce
    BY <1>8, <1>9 DEF ToursBounded, JoinedOnce, Stoppers
  <1>11. MainStops /\ LastTourRuns
    BY <1>8, <1>9 DEF MainStops, LastTourRuns, Starting
  <1>12. SequenceRead /\ PresetsSet
    BY <1>8, <1>9 DEF SequenceRead, PresetsSet
  <1>13. QED
    BY <1>7, <1>10, <1>11, <1>12 DEF IInv

LEMMA TourKeeps ==
  ASSUME IInv, NEW t \in Tours, TourStep(t)
  PROVE  IInv'
  <1>1. /\ TypeOK /\ ToursBounded /\ JoinedOnce /\ MainStops /\ LastTourRuns
        /\ SequenceRead /\ PresetsSet
    BY DEF IInv
  <1>2. Advanced(t) \in Indices /\ Advanced(t) < tour[t].max
    BY <1>1, AdvancedType DEF TourStep
  <1>3. TypeOK'
    BY <1>1, <1>2 DEF TypeOK, TourStep, TourRecords, threads, lists
  <1>4. ToursBounded'
    BY <1>1 DEF ToursBounded, TourStep, Live
  <1>5. JoinedOnce'
    BY <1>1 DEF JoinedOnce, StartedTour, TourStep, Live, threads
  <1>6. MainStops'
    BY <1>1 DEF MainStops, Starting, TourStep, threads
  <1>7. LastTourRuns'
    BY <1>1 DEF LastTourRuns, Waits, Starting, TourStep, Live, threads
  <1>8. SequenceRead'
    BY <1>1, <1>2 DEF SequenceRead, TourStep, Live, lists, LastTourRuns
  <1>9. PresetsSet'
    <2>1. ~crowded => index' = index \/ (index' \in Indices /\ index' < SEQ.count)
      BY <1>1, <1>2 DEF SequenceRead, TourStep
    <2>2. ~crowded => g_tid # NoTour
      BY <1>1, PtzAssumption DEF LastTourRuns, TourStep
    <2>3. UNCHANGED <<crowded, g_tid, SEQ, AUTO_POS>>
      BY DEF TourStep, lists
    <2>4. QED
      BY <1>1, <2>1, <2>2, <2>3 DEF PresetsSet
  <1>10. QED
    BY <1>3, <1>4, <1>5, <1>6, <1>7, <1>8, <1>9 DEF IInv

LEMMA ThreadKeeps ==
  ASSUME IInv, NEW s, NEW to, NEW c, ThreadStep(s, to, c)
  PROVE  IInv'
  <1>1. /\ TypeOK /\ ToursBounded /\ JoinedOnce /\ MainStops /\ LastTourRuns
        /\ SequenceRead /\ PresetsSet
    BY DEF IInv
  <1>2. /\ s \in Stoppers /\ pc \in [Stoppers -> ThreadPcs] /\ cmd \in [Stoppers -> Commands]
        /\ "main" \in Stoppers /\ "heartbeat" \in Stoppers
    BY <1>1 DEF ThreadStep, TypeOK, ThreadPcs, Stoppers
  <1>3. TypeOK'
    BY <1>1, <1>2 DEF TypeOK, ThreadStep, ThreadPcs, history
  <1>4. ToursBounded'
    BY <1>1 DEF ToursBounded, ThreadStep, Live
  <1>5. JoinedOnce'
    BY <1>1, <1>2 DEF JoinedOnce, StartedTour, ThreadStep, Live
  <1>6. MainStops'
    BY <1>1, <1>2 DEF MainStops, Starting, ThreadStep
  <1>7. LastTourRuns'
    <2>1. UNCHANGED <<crowded, tour, g_tid, SEQ, target>>
      BY DEF ThreadStep, history
    <2>2. \A r \in Stoppers, t \in Tours : Waits(r, t) => Waits(r, t)'
      BY <1>2, <2>1 DEF Waits, ThreadStep
    <2>3. \A t \in Tours : Live(t)' = Live(t)
      BY <2>1 DEF Live
    <2>4. ASSUME NEW t \in Tours, ~crowded, Live(t), Starting'
          PROVE  Waits("heartbeat", t)
      <3>1. CASE Starting
        BY <1>1, <2>4, <3>1 DEF LastTourRuns
      <3>2. CASE ~Starting
        <4>1. pc["main"] = "idle" /\ ~SEQ.on
          BY <1>2, <2>4, <3>2 DEF Starting, ThreadStep
        <4>2. PICK r \in Stoppers : Waits(r, t)
          BY <1>1, <2>4, <4>1 DEF LastTourRuns
        <4>3. r # "main"
          BY <4>1, <4>2 DEF Waits
        <4>4. QED
          BY <4>2, <4>3 DEF Stoppers
      <3>3. QED
        BY <3>1, <3>2
    <2>5. ASSUME NEW t \in Tours, ~crowded', Live(t)'
          PROVE  /\ t = g_tid'
                 /\ ~SEQ'.on => \E r \in Stoppers : Waits(r, t)'
                 /\ Starting' => Waits("heartbeat", t)'
      <3>1. ~crowded /\ Live(t)
        BY <2>1, <2>3, <2>5
      <3>2. t = g_tid /\ (~SEQ.on => \E r \in Stoppers : Waits(r, t))
        BY <1>1, <3>1 DEF LastTourRuns
      <3>3. QED
        BY <1>2, <2>1, <2>2, <2>4, <3>1, <3>2
    <2>6. QED
      BY <2>5 DEF LastTourRuns
  <1>8. SequenceRead'
    BY <1>1 DEF SequenceRead, ThreadStep, Live, history
  <1>9. PresetsSet'
    BY <1>1 DEF PresetsSet, ThreadStep, TypeOK, history
  <1>10. QED
    BY <1>3, <1>4, <1>5, <1>6, <1>7, <1>8, <1>9 DEF IInv

LEMMA ClearKeeps ==
  ASSUME IInv, NEW s \in Stoppers, Clear(s)
  PROVE  IInv'
  <1>1. /\ TypeOK /\ ToursBounded /\ JoinedOnce /\ MainStops /\ LastTourRuns
        /\ SequenceRead /\ PresetsSet
    BY DEF IInv
  <1>2. /\ pc \in [Stoppers -> ThreadPcs] /\ pc' = [pc EXCEPT ![s] = "join"]
        /\ "main" \in Stoppers /\ "heartbeat" \in Stoppers /\ pc[s] = "clear"
        /\ SEQ' = [SEQ EXCEPT !.on = FALSE]
        /\ UNCHANGED <<g_tid, index, prev_index, g_no_zoom, tour, joined, lists, detect,
                       cmd, target, init_pan, asks, history>>
    BY <1>1 DEF Clear, Go, TypeOK, ThreadPcs, Stoppers
  <1>3. /\ SEQ \in [on : BOOLEAN, count : 0 .. MaxLen, list : [Indices -> Presets]]
        /\ SEQ' \in [on : BOOLEAN, count : 0 .. MaxLen, list : [Indices -> Presets]]
        /\ ~SEQ'.on /\ SEQ'.count = SEQ.count /\ SEQ'.list = SEQ.list
    BY <1>1, <1>2 DEF TypeOK
  <1>4. TypeOK'
    BY <1>1, <1>2, <1>3 DEF TypeOK, ThreadPcs, lists, detect, history
  <1>5. ToursBounded'
    BY <1>1, <1>2 DEF ToursBounded, Live
  <1>6. JoinedOnce'
    BY <1>1, <1>2, <1>3 DEF JoinedOnce, StartedTour, Live
  <1>7. MainStops'
    BY <1>1, <1>2, <1>3 DEF MainStops, Starting
  <1>8. LastTourRuns'
    BY <1>1, <1>2 DEF LastTourRuns, Waits, Starting, Live, history
  <1>9. SequenceRead'
    BY <1>1, <1>2, <1>3 DEF SequenceRead, Live, history
  <1>10. PresetsSet'
    BY <1>1, <1>2, <1>3 DEF PresetsSet, lists, history
  <1>11. QED
    BY <1>4, <1>5, <1>6, <1>7, <1>8, <1>9, <1>10 DEF IInv

LEMMA JoinKeeps ==
  ASSUME IInv, NEW s \in Stoppers, Join(s)
  PROVE  IInv'
  <1>1. /\ TypeOK /\ ToursBounded /\ JoinedOnce /\ MainStops /\ LastTourRuns
        /\ SequenceRead /\ PresetsSet
    BY DEF IInv
  <1>2. /\ pc \in [Stoppers -> ThreadPcs] /\ pc[s] = "join"
        /\ "main" \in Stoppers /\ "heartbeat" \in Stoppers
        /\ target \in [Stoppers -> Tours \cup {NoTour}]
        /\ joined \in [Tours -> {"no", "waited", "yes"}]
        /\ g_tid \in Tours /\ tour[g_tid].pc # "none"
        /\ UNCHANGED <<SEQ, g_tid, index, prev_index, g_no_zoom, tour, lists, detect,
                       cmd, init_pan, asks, history>>
    BY <1>1 DEF Join, TypeOK, ThreadPcs, Stoppers, JoinedOnce, StartedTour
  <1>3. \/ /\ joined[g_tid] = "no" /\ joined' = [joined EXCEPT ![g_tid] = "waited"]
           /\ target' = [target EXCEPT ![s] = g_tid] /\ pc' = [pc EXCEPT ![s] = "joining"]
        \/ /\ joined[g_tid] # "no" /\ pc' = [pc EXCEPT ![s] = "do"]
           /\ joined' = joined /\ target' = target
    BY DEF Join, Go
  <1>4. TypeOK'
    <2>1. /\ pc' \in [Stoppers -> ThreadPcs] /\ joined' \in [Tours -> {"no", "waited", "yes"}]
          /\ target' \in [Stoppers -> Tours \cup {NoTour}]
      BY <1>2, <1>3 DEF ThreadPcs
    <2>2. QED
      BY <1>1, <1>2, <2>1 DEF TypeOK, ThreadPcs, lists, detect, history
  <1>5. ToursBounded'
    BY <1>1, <1>2 DEF ToursBounded, Live
  <1>6. JoinedOnce'
    BY <1>1, <1>2, <1>3 DEF JoinedOnce, StartedTour, Live, Stoppers
  <1>7. MainStops'
    BY <1>1, <1>2, <1>3 DEF MainStops, Starting
  <1>8. LastTourRuns'
    BY <1>1, <1>2, <1>3 DEF LastTourRuns, Waits, Starting, Live, history, JoinedOnce, Stoppers
  <1>9. SequenceRead'
    BY <1>1, <1>2 DEF SequenceRead, Live, lists, history
  <1>10. PresetsSet'
    BY <1>1, <1>2 DEF PresetsSet, lists, history
  <1>11. QED
    BY <1>4, <1>5, <1>6, <1>7, <1>8, <1>9, <1>10 DEF IInv

LEMMA JoinedKeeps ==
  ASSUME IInv, NEW s \in Stoppers, Joined(s)
  PROVE  IInv'
  <1>1. /\ TypeOK /\ ToursBounded /\ JoinedOnce /\ MainStops /\ LastTourRuns
        /\ SequenceRead /\ PresetsSet
    BY DEF IInv
  <1>2. PICK t \in Tours : t = target[s] /\ joined[t] = "waited" /\ tour[t].pc = "ended"
    BY <1>1 DEF Joined, JoinedOnce
  <1>3. /\ pc \in [Stoppers -> ThreadPcs] /\ pc[s] = "joining"
        /\ "main" \in Stoppers /\ "heartbeat" \in Stoppers
        /\ target \in [Stoppers -> Tours \cup {NoTour}]
        /\ joined \in [Tours -> {"no", "waited", "yes"}]
        /\ pc' = [pc EXCEPT ![s] = "do"] /\ joined' = [joined EXCEPT ![t] = "yes"]
        /\ target' = [target EXCEPT ![s] = NoTour]
        /\ UNCHANGED <<SEQ, g_tid, index, prev_index, g_no_zoom, tour, lists, detect,
                       cmd, init_pan, asks, history>>
    BY <1>1, <1>2 DEF Joined, Go, TypeOK, ThreadPcs, Stoppers
  <1>4. TypeOK'
    BY <1>1, <1>3 DEF TypeOK, ThreadPcs, lists, detect, history
  <1>5. ToursBounded'
    BY <1>1, <1>3 DEF ToursBounded, Live
  <1>6. JoinedOnce'
    BY <1>1, <1>2, <1>3 DEF JoinedOnce, StartedTour, Live, Stoppers
  <1>7. MainStops'
    BY <1>1, <1>2, <1>3 DEF MainStops, Starting
  <1>8. LastTourRuns'
    BY <1>1, <1>2, <1>3 DEF LastTourRuns, Waits, Starting, Live, history, MainStops, Stoppers
  <1>9. SequenceRead'
    BY <1>1, <1>3 DEF SequenceRead, Live, lists, history
  <1>10. PresetsSet'
    BY <1>1, <1>3 DEF PresetsSet, lists, history
  <1>11. QED
    BY <1>4, <1>5, <1>6, <1>7, <1>8, <1>9, <1>10 DEF IInv

LEMMA StartKeeps ==
  ASSUME IInv, NEW t, NEW q, StartStep(t, q)
  PROVE  IInv'
  <1>1. /\ TypeOK /\ ToursBounded /\ JoinedOnce /\ MainStops /\ LastTourRuns
        /\ SequenceRead /\ PresetsSet
    BY DEF IInv
  <1>2. /\ t \in Tours /\ q \in Seqs /\ q \in Seq(Presets) /\ Len(q) \in 2 .. MaxLen
        /\ MaxLen \in Nat /\ WaitLimit \in Nat /\ NoTour \notin Tours
        /\ \A i \in 1 .. Len(q) : q[i] \in Presets /\ AUTO_POS[q[i]].set
    BY PtzAssumption DEF StartStep, Valid
  <1>3. /\ tour \in [Tours -> TourRecords] /\ joined \in [Tours -> {"no", "waited", "yes"}]
        /\ visited \in [Tours -> BOOLEAN] /\ crowded \in BOOLEAN
        /\ pc \in [Stoppers -> ThreadPcs] /\ cmd \in [Stoppers -> Commands]
        /\ "main" \in Stoppers /\ "heartbeat" \in Stoppers /\ NoCommand \in Commands
        /\ SEQ.list \in [Indices -> Presets]
    BY <1>1 DEF TypeOK, TourRecords, ThreadPcs, Stoppers, Commands
  <1>4. /\ tour' \in [Tours -> TourRecords] /\ tour'[t].pc = "while" /\ tour'[t].max = Len(q)
        /\ \A u \in Tours \ {t} : tour'[u] = tour[u]
    <2> DEFINE r == [IdleTour EXCEPT !.pc = "while", !.max = Len(q)]
    <2>1. 0 \in 0 .. MaxLen /\ 0 \in 0 .. WaitLimit /\ Len(q) \in 0 .. MaxLen
      BY <1>2
    <2>2. r \in TourRecords /\ r.pc = "while" /\ r.max = Len(q)
      BY <2>1 DEF IdleTour, TourRecords, TourPcs
    <2>3. tour' = [tour EXCEPT ![t] = r]
      BY DEF StartStep
    <2> HIDE DEF r
    <2>4. QED
      BY <1>2, <1>3, <2>2, <2>3
  <1>5. /\ joined' = [joined EXCEPT ![t] = "no"] /\ visited' = [visited EXCEPT ![t] = FALSE]
        /\ pc' = [pc EXCEPT !["main"] = "idle"] /\ cmd' = [cmd EXCEPT !["main"] = NoCommand]
        /\ g_tid' = t /\ auto_ptz_seq' = q
        /\ Starting /\ pc["main"] = "do" /\ (tour[t].pc = "none" \/ joined[t] = "yes")
        /\ UNCHANGED <<index, prev_index, g_no_zoom, AUTO_POS, USER_POS, analysis_status,
                       analysis, target, init_pan, asks>>
    BY DEF StartStep, Starting, detect
  <1>6. /\ SEQ'.on /\ SEQ'.count = Len(q) /\ SEQ'.list \in [Indices -> Presets]
        /\ SEQ' \in [on : BOOLEAN, count : 0 .. MaxLen, list : [Indices -> Presets]]
        /\ \A i \in Indices :
             SEQ'.list[i] = IF i < Len(q) THEN q[i + 1] ELSE SEQ.list[i]
    <2> DEFINE l == [i \in Indices |-> IF i < Len(q) THEN q[i + 1] ELSE SEQ.list[i]]
    <2>1. l \in [Indices -> Presets]
      <3>1. ASSUME NEW i \in Indices, i < Len(q) PROVE q[i + 1] \in Presets
        <4>1. i + 1 \in 1 .. Len(q)
          BY <1>2, <3>1 DEF Indices
        <4>2. QED
          BY <1>2, <4>1
      <3>2. QED
        BY <1>3, <3>1
    <2>2. SEQ' = [on |-> TRUE, count |-> Len(q), list |-> l] /\ Len(q) \in 0 .. MaxLen
      BY <1>2 DEF StartStep, Written
    <2>3. QED
      BY <2>1, <2>2
  <1>7. /\ crowded' \in BOOLEAN
        /\ ~crowded' => ~crowded /\ \A u \in Tours : ~Live(u)
    BY <1>3 DEF StartStep
  <1>8. TypeOK'
    <2>1. /\ pc' \in [Stoppers -> ThreadPcs] /\ cmd' \in [Stoppers -> Commands]
          /\ joined' \in [Tours -> {"no", "waited", "yes"}] /\ visited' \in [Tours -> BOOLEAN]
      BY <1>2, <1>3, <1>5 DEF ThreadPcs
    <2>2. QED
      BY <1>1, <1>2, <1>4, <1>5, <1>6, <1>7, <2>1 DEF TypeOK, TourRecords, ThreadPcs
  <1>9. ToursBounded'
    BY <1>1, <1>2, <1>4 DEF ToursBounded, Live
  <1>10. JoinedOnce'
    BY <1>1, <1>2, <1>3, <1>4, <1>5, <1>6 DEF JoinedOnce, StartedTour, Live
  <1>11. MainStops'
    BY <1>1, <1>3, <1>5 DEF MainStops, Starting
  <1>12. LastTourRuns'
    BY <1>3, <1>4, <1>5, <1>6, <1>7 DEF LastTourRuns, Starting, Live
  <1>13. SequenceRead'
    <2>1. \A i \in 1 .. Len(q) : q[i] = SEQ'.list[i - 1]
      <3>1. ASSUME NEW i \in 1 .. Len(q) PROVE q[i] = SEQ'.list[i - 1]
        <4>1. i - 1 \in Indices /\ i - 1 < Len(q) /\ (i - 1) + 1 = i
          BY <1>2 DEF Indices
        <4>2. QED
          BY <1>6, <4>1
      <3>2. QED
        BY <3>1
    <2>2. ASSUME ~crowded', NEW u \in Tours
          PROVE  /\ Live(u)' => tour'[u].max = SEQ'.count
                 /\ visited'[u] => Live(u)' /\ index' < tour'[u].max
      BY <2>2, <1>1, <1>2, <1>3, <1>4, <1>5, <1>6, <1>7 DEF SequenceRead, Live
    <2>3. QED
      BY <1>5, <1>6, <2>1, <2>2 DEF SequenceRead
  <1>14. PresetsSet'
    <2>1. ASSUME NEW i \in Indices, i < Len(q) PROVE AUTO_POS'[SEQ'.list[i]].set
      <3>1. i + 1 \in 1 .. Len(q) /\ SEQ'.list[i] = q[i + 1]
        BY <1>2, <1>6, <2>1 DEF Indices
      <3>2. QED
        BY <1>2, <1>5, <3>1
    <2>2. index' = index /\ index \in Indices
      BY <1>1, <1>5 DEF TypeOK
    <2>3. ASSUME ~crowded' PROVE AUTO_POS'[SEQ'.list[index']].set
      <3>1. CASE index < Len(q)
        BY <2>1, <2>2, <3>1
      <3>2. CASE ~(index < Len(q))
        <4>1. index # 0 /\ SEQ'.list[index] = SEQ.list[index]
          BY <1>2, <1>6, <2>2, <3>2
        <4>2. AUTO_POS[SEQ.list[index]].set
          BY <1>1, <1>7, <2>3, <4>1 DEF PresetsSet
        <4>3. QED
          BY <1>5, <2>2, <4>1, <4>2
      <3>3. QED
        BY <3>1, <3>2
    <2>4. QED
      BY <1>2, <1>5, <1>6, <2>1, <2>3 DEF PresetsSet
  <1>15. QED
    BY <1>8, <1>9, <1>10, <1>11, <1>12, <1>13, <1>14 DEF IInv

(* These are all the steps.                                                 *)
LEMMA StepKinds ==
  ASSUME IInv, Next
  PROVE  \/ \E t \in Tours : TourWork(t) /\ TourStep(t)
         \/ \E s, to, c : ThreadStep(s, to, c)
         \/ \E t, q : StartStep(t, q)
         \/ \E s \in Stoppers : Clear(s) \/ Join(s) \/ Joined(s)
  <1>1. TypeOK /\ ToursBounded /\ MainStops /\ "main" \in Stoppers /\ "heartbeat" \in Stoppers
    BY DEF IInv, Stoppers
  <1>2. ASSUME NEW t \in Tours, TourWork(t) PROVE TourStep(t)
    BY <1>1, <1>2, TourEffect
  <1>3. CASE \/ Asks \/ InitAutoPan \/ SetStatus \/ ApplySetting \/ DoSet
             \/ Position("main") \/ DoMove("main")
    BY <1>1, <1>3, ThreadEffect
  <1>4. CASE Position("heartbeat") \/ DoMove("heartbeat")
    BY <1>1, <1>4, ThreadEffect
  <1>5. CASE DoAuto
    BY <1>1, <1>5, AutoEffect
  <1>6. CASE \E s \in Stoppers : Clear(s) \/ Join(s) \/ Joined(s)
    BY <1>6
  <1>7. QED
    BY <1>1, <1>2, <1>3, <1>4, <1>5, <1>6 DEF Next, MainWork, HeartbeatWork, Stopping

LEMMA InvStep == IInv /\ [Next]_vars => IInv'
  <1> SUFFICES ASSUME IInv, [Next]_vars PROVE IInv'
    OBVIOUS
  <1>1. CASE Next
    BY <1>1, StepKinds, TourKeeps, ThreadKeeps, StartKeeps, ClearKeeps, JoinKeeps, JoinedKeeps
  <1>2. CASE UNCHANGED vars
    BY <1>2
    DEF vars, IInv, TypeOK, ToursBounded, JoinedOnce, StartedTour, MainStops, Starting,
        LastTourRuns, Waits, SequenceRead, PresetsSet, Live
  <1>3. QED
    BY <1>1, <1>2

LEMMA Invariant == Spec => []IInv
  <1>1. QED
    BY InitInv, InvStep, PTL DEF Spec
-----------------------------------------------------------------------------
(* Every variable has its type: the index that all tours share stays within *)
(* the sequence, for every order of starts and stops.                       *)
THEOREM TypeCorrect == Spec => []TypeOK
  <1>1. IInv => TypeOK
    BY DEF IInv
  <1>2. QED
    BY <1>1, Invariant, PTL

(* The main thread starts a tour beside a running one only when the         *)
(* heartbeat thread is stopping that one.                                   *)
THEOREM ToursExclude == Spec => OneTour
  <1> DEFINE P(t, u) ==
        (g_tid' = t /\ tour'[t].pc = "while" /\ ~Live(t) /\ Live(u) /\ ~crowded)
          => pc["heartbeat"] \in {"join", "joining"}
  <1>1. ASSUME IInv, Next, NEW t \in Tours, NEW u \in Tours PROVE P(t, u)
    <2>1. ASSUME NEW x \in Tours, TourStep(x) PROVE P(t, u)
      BY <2>1 DEF TourStep, Live
    <2>2. ASSUME tour' = tour PROVE P(t, u)
      BY <2>2 DEF Live
    <2>3. ASSUME NEW x, NEW q, StartStep(x, q) PROVE P(t, u)
      BY <1>1, <2>3 DEF StartStep, IInv, LastTourRuns, Waits
    <2>4. ASSUME NEW s, NEW to, NEW c, ThreadStep(s, to, c) PROVE tour' = tour
      BY <2>4 DEF ThreadStep
    <2>5. ASSUME NEW s \in Stoppers, Clear(s) \/ Join(s) \/ Joined(s) PROVE tour' = tour
      BY <2>5 DEF Clear, Join, Joined
    <2>6. QED
      BY <1>1, StepKinds, <2>1, <2>2, <2>3, <2>4, <2>5
  <1>2. IInv /\ [Next]_vars => [\A t, u \in Tours : P(t, u)]_vars
    BY <1>1
  <1>3. QED
    BY <1>2, Invariant, PTL DEF Spec, OneTour

(* A tour moves only to presets that are set, and after its first stop to   *)
(* those that were asked for last.                                          *)
THEOREM VisitsRight == Spec => VisitsAsked
  <1> DEFINE Q(t) == /\ AUTO_POS[SEQ.list[index]].set
                     /\ visited[t] => \E i \in 1 .. Len(auto_ptz_seq) :
                                         auto_ptz_seq[i] = SEQ.list[index]
  <1>1. ASSUME IInv, SEQ.on, ~crowded, NEW t \in Tours, Live(t)
        PROVE  Q(t)
    <2>1. AUTO_POS[SEQ.list[index]].set
      BY <1>1, PtzAssumption DEF IInv, PresetsSet, LastTourRuns
    <2>2. ASSUME visited[t]
          PROVE  \E i \in 1 .. Len(auto_ptz_seq) : auto_ptz_seq[i] = SEQ.list[index]
      <3>1. /\ index \in Nat /\ SEQ.count \in Nat /\ index < SEQ.count
            /\ Len(auto_ptz_seq) = SEQ.count
            /\ \A i \in 1 .. SEQ.count : auto_ptz_seq[i] = SEQ.list[i - 1]
        BY <1>1, <2>2, PtzAssumption DEF IInv, TypeOK, Indices, SequenceRead
      <3>2. index + 1 \in 1 .. SEQ.count /\ (index + 1) - 1 = index
        BY <3>1
      <3>3. QED
        BY <3>1, <3>2
    <2>3. QED
      BY <2>1, <2>2
  <1>2. ASSUME IInv, Next, NEW t \in Tours, At(t, "while"), At(t, "ask_off")', ~crowded
        PROVE  Q(t)
    <2>1. Live(t) /\ tour'[t].pc = "ask_off" /\ tour[t].pc = "while"
      BY <1>2 DEF At, Live
    <2>2. SEQ.on
      <3>1. ASSUME NEW x \in Tours, TourWork(x) PROVE SEQ.on
        <4>1. x = t
          BY <1>2, <2>1, <3>1, TourEffect DEF IInv, TourStep
        <4>2. CASE Move(t)
          BY <4>2 DEF Move
        <4>3. CASE ~Move(t)
          <5>1. End(t)
            BY <2>1, <3>1, <4>1, <4>3
            DEF TourWork, At, AskOff, SwitchOff, Completes, WaitsOn, AskOn, SwitchOn, Leave
          <5>2. tour'[t].pc = "ended"
            BY <1>2, <5>1 DEF End, Ends, IInv, TypeOK, IdleTour
          <5>3. QED
            BY <2>1, <5>2
        <4>4. QED
          BY <4>2, <4>3
      <3>2. ASSUME NEW x, NEW q, StartStep(x, q) PROVE FALSE
        BY <1>2, <2>1, <3>2 DEF StartStep, IInv, TypeOK
      <3>3. ASSUME NEW s, NEW to, NEW c, ThreadStep(s, to, c) PROVE FALSE
        BY <2>1, <3>3 DEF ThreadStep
      <3>4. ASSUME NEW s \in Stoppers, Clear(s) \/ Join(s) \/ Joined(s) PROVE FALSE
        BY <2>1, <3>4 DEF Clear, Join, Joined
      <3>5. QED
        BY <1>2, StepKinds, <3>1, <3>2, <3>3, <3>4
    <2>3. QED
      BY <1>1, <1>2, <2>1, <2>2
  <1>3. IInv /\ [Next]_vars
          => [\A t \in Tours : (At(t, "while") /\ At(t, "ask_off")' /\ ~crowded) => Q(t)]_vars
    BY <1>2
  <1>4. QED
    BY <1>3, Invariant, PTL DEF Spec, VisitsAsked
=============================================================================
