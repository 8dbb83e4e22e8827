------------------------------ MODULE AutoPtz ------------------------------
(***************************************************************************)
(* The tour of the pan-tilt-zoom camera (ptz_control.c): a thread that     *)
(* visits the presets of a sequence, and switches the analysis off while   *)
(* the camera moves; and the commands that start it, stop it or meet it.   *)
(*                                                                         *)
(* Threads: the main thread (commands, timers), the heartbeat thread,      *)
(* whose first tick applies the settings, and the tours. Each access to    *)
(* the variables that threads share without a lock is a step. The serial   *)
(* device is open. What the camera does is left open here (see PtzMotion): *)
(* any question for its position may be answered either way or not at all. *)
(***************************************************************************)
EXTENDS Integers, Sequences, FiniteSets

CONSTANTS
  Presets,       \* presets in use, of 0 .. MAX_PTZ_PRESET - 1; 0 is one
  Seqs,          \* sequences that are asked for; <<>> stops the tour
  MaxLen,        \* the longest sequence
  Spots,         \* positions of the camera that may be presets
  Tours,         \* thread ids of tours
  NoTour,        \* g_tid before the first tour
  Stored,        \* settings the program may start with
  Asked,         \* commands that viewers give besides those for tours
  MaxAsks,       \* bound on the commands given
  WaitLimit      \* seconds wait_for_ptz_completion waits at most

Preset0 == 0
Unset == [set |-> FALSE, at |-> [tilt |-> 0, zoom |-> 0]]
Positions == {Unset} \cup [set : {TRUE}, at : Spots]

ASSUME PtzAssumption ==
  /\ Preset0 \in Presets /\ Presets \subseteq Nat
  /\ MaxLen \in Nat \ {0}
  /\ \A q \in Seqs : /\ q \in Seq(Presets)
                     /\ Len(q) = 0 \/ Len(q) \in 2 .. MaxLen
  /\ Spots \subseteq [tilt : Nat, zoom : Nat] /\ Spots # {}
  /\ NoTour \notin Tours
  /\ \A r \in Stored : /\ r.AUTO_POS \in [Presets -> Positions]
                       /\ r.USER_POS \in Positions
                       /\ r.auto_ptz_seq \in Seqs \cup {<<>>}
                       /\ r.analysis_status \in BOOLEAN
  /\ MaxAsks \in Nat
  /\ WaitLimit \in Nat \ {0}
  /\ \A c \in Asked : /\ c.op \in {"move", "set", "analysis"}
                      /\ c.preset \in Presets /\ c.mode \in {0, 1}
                      /\ c.mode = 0 => c.preset = Preset0

VARIABLES
  (* the tour *)
  SEQ,             \* AUTO_PTZ_MOVE_SEQ: its flag, the count and the presets
  g_tid,           \* the tour started last
  index,           \* static of process_auto_move_ptz, shared by all tours
  prev_index,      \* likewise
  g_no_zoom,
  tour,            \* the threads that run process_auto_move_ptz
  joined,          \* whether a tour's thread is being or has been joined
  (* the presets, and the settings *)
  AUTO_POS,        \* AUTO_PTZ_POS_LIST
  USER_POS,        \* PTZ_POS_LIST[0]
  auto_ptz_seq,    \* g_setting.auto_ptz_seq
  analysis_status, \* g_setting.analysis_status
  analysis,        \* set_process_analysis: the detectors work
  (* main thread and heartbeat thread *)
  pc, cmd, target,
  init_pan,        \* init_auto_pan has been called
  asks,            \* commands given so far
  (* history *)
  crowded,         \* a tour was started while another one was running
  visited          \* the tour has chosen a stop after its first

tours == <<SEQ, g_tid, index, prev_index, g_no_zoom, tour, joined>>
lists == <<AUTO_POS, USER_POS, auto_ptz_seq>>
detect == <<analysis_status, analysis>>
threads == <<pc, cmd, target, init_pan, asks>>
history == <<crowded, visited>>
vars == <<SEQ, g_tid, index, prev_index, g_no_zoom, tour, joined,
          AUTO_POS, USER_POS, auto_ptz_seq, analysis_status, analysis,
          pc, cmd, target, init_pan, asks, crowded, visited>>

Stoppers == {"main", "heartbeat"}
Indices == 0 .. MaxLen - 1

Command(op, seq, preset, mode) ==
  [op |-> op, seq |-> seq, preset |-> preset, mode |-> mode]
NoCommand == Command("none", <<>>, Preset0, 0)
Commands == {NoCommand, Command("move", <<>>, Preset0, 0)} \cup Asked
            \cup {Command("auto", q, Preset0, 0) : q \in Seqs}

TourPcs == {"none", "while", "ask_off", "off", "wait",
            "ask_on", "on", "stay", "ended"}
Live(t) == tour[t].pc \notin {"none", "ended"}

TypeOK ==
  /\ SEQ \in [on : BOOLEAN, count : 0 .. MaxLen, list : [Indices -> Presets]]
  /\ g_tid \in Tours \cup {NoTour}
  /\ index \in Indices /\ prev_index \in Indices
  /\ g_no_zoom \in BOOLEAN
  /\ tour \in [Tours -> [pc : TourPcs, max : 0 .. MaxLen,
                         again : BOOLEAN, elapsed : 0 .. WaitLimit]]
  /\ joined \in [Tours -> {"no", "waited", "yes"}]
  /\ AUTO_POS \in [Presets -> Positions] /\ USER_POS \in Positions
  /\ auto_ptz_seq \in Seqs \cup {<<>>}
  /\ analysis_status \in BOOLEAN /\ analysis \in BOOLEAN
  /\ pc \in [Stoppers -> {"start", "idle", "status", "position",
                          "clear", "join", "joining", "do"}]
  /\ cmd \in [Stoppers -> Commands]
  /\ target \in [Stoppers -> Tours \cup {NoTour}]
  /\ init_pan \in BOOLEAN
  /\ asks \in 0 .. MaxAsks
  /\ crowded \in BOOLEAN /\ visited \in [Tours -> BOOLEAN]

IdleTour == [pc |-> "none", max |-> 0, again |-> FALSE, elapsed |-> 0]

Init ==
  /\ SEQ = [on |-> FALSE, count |-> 0, list |-> [i \in Indices |-> Preset0]]
  /\ g_tid = NoTour /\ index = 0 /\ prev_index = 0 /\ g_no_zoom = FALSE
  /\ tour = [t \in Tours |-> IdleTour]
  /\ joined = [t \in Tours |-> "no"]
  /\ \E r \in Stored :
       /\ AUTO_POS = r.AUTO_POS /\ USER_POS = r.USER_POS
       /\ auto_ptz_seq = r.auto_ptz_seq
       /\ analysis_status = r.analysis_status
  /\ analysis = TRUE
  /\ pc = [s \in Stoppers |-> IF s = "main" THEN "idle" ELSE "start"]
  /\ cmd = [s \in Stoppers |-> NoCommand]
  /\ target = [s \in Stoppers |-> NoTour]
  /\ init_pan = FALSE
  /\ asks = 0
  /\ crowded = FALSE /\ visited = [t \in Tours |-> FALSE]
-----------------------------------------------------------------------------
(* Stopping the tour, on the main thread or the heartbeat thread            *)

Go(s, to) == pc' = [pc EXCEPT ![s] = to]
Done(s) == Go(s, "idle") /\ cmd' = [cmd EXCEPT ![s] = NoCommand]

\* mutant: a new tour does not stop the one before.
NoStop == "do"

(* request_auto_move_ptz_stop: without a tour there is nothing to stop.     *)
Stop == IF SEQ.on THEN "clear" ELSE "do"

\* mutant: the flag is left as it is.
ClearNothing(s) ==
  /\ pc[s] = "clear"
  /\ Go(s, "join")
  /\ UNCHANGED <<tours, lists, detect, cmd, target, init_pan, asks, history>>

Clear(s) ==
  /\ pc[s] = "clear"
  /\ SEQ' = [SEQ EXCEPT !.on = FALSE]
  /\ Go(s, "join")
  /\ UNCHANGED <<g_tid, index, prev_index, g_no_zoom, tour, joined, lists, detect,
                 cmd, target, init_pan, asks, history>>

(* pthread_join of a thread that is joined by the other, or has been, fails *)
(* at once.                                                                 *)
Join(s) ==
  /\ pc[s] = "join"
  /\ IF joined[g_tid] = "no"
       THEN /\ joined' = [joined EXCEPT ![g_tid] = "waited"]
            /\ target' = [target EXCEPT ![s] = g_tid]
            /\ Go(s, "joining")
       ELSE Go(s, "do") /\ UNCHANGED <<joined, target>>
  /\ UNCHANGED <<SEQ, g_tid, index, prev_index, g_no_zoom, tour, lists, detect,
                 cmd, init_pan, asks, history>>

Joined(s) ==
  /\ pc[s] = "joining"
  /\ tour[target[s]].pc = "ended"
  /\ joined' = [joined EXCEPT ![target[s]] = "yes"]
  /\ target' = [target EXCEPT ![s] = NoTour]
  /\ Go(s, "do")
  /\ UNCHANGED <<SEQ, g_tid, index, prev_index, g_no_zoom, tour, lists, detect,
                 cmd, init_pan, asks, history>>
-----------------------------------------------------------------------------
(* Commands. They begin on the idle main thread.                            *)

Idle == pc["main"] = "idle"

Begin(c, to) ==
  /\ Idle
  /\ cmd' = [cmd EXCEPT !["main"] = c]
  /\ Go("main", to)

(* A command of a viewer.                                                   *)
Ask(c, to) ==
  /\ asks < MaxAsks /\ asks' = asks + 1
  /\ Begin(c, to)

(* auto_move_ptz of a viewer: the running tour is stopped whatever follows. *)
AskTour(q) ==
  /\ Ask(Command("auto", q, Preset0, 0), Stop)
  /\ UNCHANGED <<tours, lists, detect, target, init_pan, history>>

(* init_auto_pan, 15 seconds after the start.                               *)
InitAutoPan ==
  /\ ~init_pan /\ init_pan' = TRUE
  /\ IF auto_ptz_seq # <<>>
       THEN Begin(Command("auto", auto_ptz_seq, Preset0, 0), Stop)
       ELSE Idle /\ UNCHANGED <<pc, cmd>>
  /\ UNCHANGED <<tours, lists, detect, target, asks, history>>

PosOf(c) == IF c.mode = 1 THEN AUTO_POS[c.preset] ELSE USER_POS

(* move_ptz_pos of a preset that has been set.                              *)
AskMove(c) ==
  /\ c.op = "move" /\ PosOf(c).set
  /\ Ask(c, "position")
  /\ UNCHANGED <<tours, lists, detect, target, init_pan, history>>

AskSet(c) ==
  /\ c.op = "set"
  /\ Ask(c, Stop)
  /\ UNCHANGED <<tours, lists, detect, target, init_pan, history>>

(* The analysis command switches the detectors first, then the setting.     *)
AskAnalysis(c) ==
  /\ c.op = "analysis"
  /\ Ask(c, "status")
  /\ analysis' = (c.mode = 1)
  /\ UNCHANGED <<tours, lists, analysis_status, target, init_pan, history>>

SetStatus ==
  /\ pc["main"] = "status"
  /\ analysis_status' = (cmd["main"].mode = 1)
  /\ Done("main")
  /\ UNCHANGED <<tours, lists, analysis, target, init_pan, asks, history>>

(* apply_setting, in the first tick of the heartbeat thread.                *)
ApplySetting ==
  /\ pc["heartbeat"] = "start"
  /\ analysis' = analysis_status
  /\ IF USER_POS.set
       THEN /\ cmd' = [cmd EXCEPT !["heartbeat"] = Command("move", <<>>, Preset0, 0)]
            /\ Go("heartbeat", "position")
       ELSE Done("heartbeat")
  /\ UNCHANGED <<tours, lists, analysis_status, target, init_pan, asks, history>>

(* move_ptz_pos asks for the position first, and returns if the camera is   *)
(* there: before it has stopped a tour.                                     *)
Position(s) ==
  /\ pc[s] = "position"
  /\ \/ Done(s)
     \/ Go(s, IF cmd[s].mode = 0 THEN Stop ELSE "do") /\ UNCHANGED cmd
  /\ UNCHANGED <<tours, lists, detect, target, init_pan, asks, history>>

DoMove(s) ==
  /\ pc[s] = "do" /\ cmd[s].op = "move"
  /\ g_no_zoom' = IF cmd[s].mode = 0 THEN FALSE ELSE g_no_zoom
  /\ Done(s)
  /\ UNCHANGED <<SEQ, g_tid, index, prev_index, tour, joined, lists, detect,
                 target, init_pan, asks, history>>

(* set_ptz_pos: the position the camera reports, if it does, becomes the    *)
(* preset's.                                                                *)
DoSet ==
  /\ pc["main"] = "do" /\ cmd["main"].op = "set"
  /\ \/ \E here \in [set : {TRUE}, at : Spots] :
          IF cmd["main"].mode = 1
            THEN /\ AUTO_POS' = [AUTO_POS EXCEPT ![cmd["main"].preset] = here]
                 /\ UNCHANGED USER_POS
            ELSE USER_POS' = here /\ UNCHANGED AUTO_POS
     \/ UNCHANGED <<AUTO_POS, USER_POS>>
  /\ Done("main")
  /\ UNCHANGED <<tours, auto_ptz_seq, detect, target, init_pan, asks, history>>

(* auto_move_ptz's checks of the sequence.                                  *)
Valid(q) == Len(q) >= 2 /\ \A i \in 1 .. Len(q) : AUTO_POS[q[i]].set

(* The sequence is written over the one before; what lies beyond stays.     *)
Written(q) ==
  [on |-> TRUE, count |-> Len(q),
   list |-> [i \in Indices |-> IF i < Len(q) THEN q[i + 1] ELSE SEQ.list[i]]]

(* A thread that is not in use; which one makes no difference.              *)
FreeTours == {t \in Tours : tour[t].pc = "none" \/ joined[t] = "yes"}
NewTour == CHOOSE t \in FreeTours : TRUE

DoAuto ==
  /\ pc["main"] = "do" /\ cmd["main"].op = "auto"
  /\ LET q == cmd["main"].seq
     IN  IF Valid(q)
           THEN /\ FreeTours # {}
                /\ SEQ' = Written(q)
                /\ g_tid' = NewTour
                /\ tour' = [tour EXCEPT ![NewTour] =
                              [IdleTour EXCEPT !.pc = "while", !.max = Len(q)]]
                /\ joined' = [joined EXCEPT ![NewTour] = "no"]
                /\ auto_ptz_seq' = q
                /\ crowded' = (crowded \/ \E u \in Tours : Live(u))
                /\ visited' = [visited EXCEPT ![NewTour] = FALSE]
           ELSE /\ auto_ptz_seq' = IF q = <<>> THEN <<>> ELSE auto_ptz_seq
                /\ UNCHANGED <<SEQ, g_tid, tour, joined, history>>
  /\ Done("main")
  /\ UNCHANGED <<index, prev_index, g_no_zoom, AUTO_POS, USER_POS, detect,
                 target, init_pan, asks>>
-----------------------------------------------------------------------------
(* The tour: process_auto_move_ptz on thread t                              *)

(* get_auto_move_zoom_val takes the bytes before those of the zoom: the low *)
(* byte of the tilt, and 0xFF times the high byte of the zoom.              *)
ZoomVal(p) == (p.tilt % 256) + 255 * (p.zoom \div 256)
is_zoom_out(prev, cur) == ZoomVal(prev) > ZoomVal(cur)

At(t, l) == tour[t].pc = l
To(t, l) == tour' = [tour EXCEPT ![t].pc = l]

\* mutant: the index of the next stop is wrapped around at the size of the
\* array.
WrappedLate(t) == (index + 1) % MaxLen

Advanced(t) == (index + 1) % tour[t].max

Ends(t) ==
  /\ tour' = [tour EXCEPT ![t] = [IdleTour EXCEPT !.pc = "ended"]]
  /\ g_no_zoom' = FALSE
  /\ visited' = [visited EXCEPT ![t] = FALSE]

\* mutant: the second pass, with zoom, decides how to zoom again.
ZoomsOutAgain(t) ==
  /\ At(t, "while") /\ SEQ.on
  /\ g_no_zoom' = is_zoom_out(AUTO_POS[SEQ.list[prev_index]].at,
                              AUTO_POS[SEQ.list[index]].at)
  /\ To(t, "ask_off")
  /\ UNCHANGED <<SEQ, g_tid, index, prev_index, joined, lists, detect, threads, history>>

(* The head of the loop decides how to zoom: not at first when the camera   *)
(* zooms out to the next preset, but in a second pass. Then move_ptz_pos    *)
(* sends the camera to the preset; it may obey or not.                      *)
Move(t) ==
  /\ At(t, "while") /\ SEQ.on
  /\ g_no_zoom' =
       (/\ ~tour[t].again
        /\ is_zoom_out(AUTO_POS[SEQ.list[prev_index]].at,
                       AUTO_POS[SEQ.list[index]].at))
  /\ tour' = [tour EXCEPT ![t].again = FALSE, ![t].pc = "ask_off"]
  /\ UNCHANGED <<SEQ, g_tid, index, prev_index, joined, lists, detect, threads, history>>

End(t) ==
  /\ At(t, "while") /\ ~SEQ.on
  /\ Ends(t)
  /\ UNCHANGED <<SEQ, g_tid, index, prev_index, joined, lists, detect, threads, crowded>>

AskOff(t) ==
  /\ At(t, "ask_off")
  /\ To(t, IF analysis_status THEN "off" ELSE "wait")
  /\ UNCHANGED <<SEQ, g_tid, index, prev_index, g_no_zoom, joined, lists, detect,
                 threads, history>>

SwitchOff(t) ==
  /\ At(t, "off")
  /\ analysis' = FALSE
  /\ To(t, "wait")
  /\ UNCHANGED <<SEQ, g_tid, index, prev_index, g_no_zoom, joined, lists,
                 analysis_status, threads, history>>

(* wait_for_ptz_completion is over: after a pass without zoom the loop goes *)
(* round again for the same preset.                                         *)
Completed(t) ==
  tour' = [tour EXCEPT ![t].elapsed = 0, ![t].again = g_no_zoom,
                       ![t].pc = IF g_no_zoom THEN "while" ELSE "ask_on"]

Completes(t) ==
  /\ At(t, "wait")
  /\ Completed(t)
  /\ UNCHANGED <<SEQ, g_tid, index, prev_index, g_no_zoom, joined, lists, detect,
                 threads, history>>

(* A second of wait_for_ptz_completion without completion: the order to end *)
(* counts first, then the time.                                             *)
WaitsOn(t) ==
  /\ At(t, "wait")
  /\ IF ~SEQ.on
       THEN Ends(t) /\ index' = Advanced(t)
       ELSE /\ IF tour[t].elapsed + 1 < WaitLimit
                 THEN tour' = [tour EXCEPT ![t].elapsed = @ + 1]
                 ELSE Completed(t)
            /\ UNCHANGED <<index, g_no_zoom, visited>>
  /\ UNCHANGED <<SEQ, g_tid, prev_index, joined, lists, detect, threads, crowded>>

AskOn(t) ==
  /\ At(t, "ask_on")
  /\ To(t, IF analysis_status THEN "on" ELSE "stay")
  /\ UNCHANGED <<SEQ, g_tid, index, prev_index, g_no_zoom, joined, lists, detect,
                 threads, history>>

SwitchOn(t) ==
  /\ At(t, "on")
  /\ analysis' = TRUE
  /\ To(t, "stay")
  /\ UNCHANGED <<SEQ, g_tid, index, prev_index, g_no_zoom, joined, lists,
                 analysis_status, threads, history>>

(* The stay is over, and so is the wait for a recording (15 s at most).     *)
Leave(t) ==
  /\ At(t, "stay")
  /\ IF SEQ.on
       THEN /\ prev_index' = index
            /\ index' = Advanced(t)
            /\ visited' = [visited EXCEPT ![t] = TRUE]
            /\ To(t, "while") /\ UNCHANGED g_no_zoom
       ELSE Ends(t) /\ UNCHANGED <<index, prev_index>>
  /\ UNCHANGED <<SEQ, g_tid, joined, lists, detect, threads, crowded>>
-----------------------------------------------------------------------------
Stopping(s) == Clear(s) \/ Join(s) \/ Joined(s)

MainWork ==
  Stopping("main") \/ Position("main") \/ DoMove("main") \/ DoSet \/ DoAuto \/ SetStatus

HeartbeatWork ==
  ApplySetting \/ Stopping("heartbeat") \/ Position("heartbeat") \/ DoMove("heartbeat")

TourWork(t) ==
  \/ Move(t) \/ End(t) \/ AskOff(t) \/ SwitchOff(t)
  \/ Completes(t) \/ WaitsOn(t) \/ AskOn(t) \/ SwitchOn(t) \/ Leave(t)

Asks ==
  \/ \E q \in Seqs : AskTour(q)
  \/ \E c \in Asked : AskMove(c) \/ AskSet(c) \/ AskAnalysis(c)

Next ==
  \/ MainWork \/ HeartbeatWork \/ Asks \/ InitAutoPan
  \/ \E t \in Tours : TourWork(t)

Spec == Init /\ [][Next]_vars

(* Threads run on; commands need not come.                                  *)
Fairness ==
  /\ WF_vars(MainWork) /\ WF_vars(HeartbeatWork)
  /\ \A t \in Tours : WF_vars(TourWork(t))
FairSpec == Spec /\ Fairness
-----------------------------------------------------------------------------
(* Properties                                                               *)

(* One tour at a time: the main thread does not start a tour while another  *)
(* runs, unless the heartbeat thread is just stopping that one (its flag is *)
(* cleared, and request_auto_move_ptz_stop then waits for nothing), or has  *)
(* let it happen before.                                                    *)
OneTour ==
  [][\A t, u \in Tours :
       (g_tid' = t /\ tour'[t].pc = "while" /\ ~Live(t) /\ Live(u) /\ ~crowded)
          => pc["heartbeat"] \in {"join", "joining"}]_vars

(* The tour visits what was asked for: after its first stop, for which it   *)
(* goes on from the index of the tour before, a tour moves only to presets  *)
(* of the sequence asked for last, and these have been set.                 *)
VisitsAsked ==
  [][\A t \in Tours : (At(t, "while") /\ At(t, "ask_off")' /\ ~crowded) =>
       /\ AUTO_POS[SEQ.list[index]].set
       /\ visited[t] => \E i \in 1 .. Len(auto_ptz_seq) :
                           auto_ptz_seq[i] = SEQ.list[index]]_vars

(* Whoever stops a tour gets on: a join waits for a thread that ends.       *)
StopReturns == pc["main"] # "idle" ~> pc["main"] = "idle"

(* A tour that is not stopped switches the analysis back on when it has     *)
(* moved, unless a viewer has switched it off.                              *)
AnalysisReturns ==
  \A t \in Tours :
    (At(t, "wait") /\ ~analysis)
       ~> (analysis \/ ~analysis_status \/ ~SEQ.on)

=============================================================================
