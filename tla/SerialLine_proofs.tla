-------------------------- MODULE SerialLine_proofs -------------------------
(* Proofs about what reaches the camera over the serial line.               *)
(*                                                                         *)
(* PtzMotion: its types, and that the stops sent for one move are bounded,  *)
(* whatever the line loses, delays or refuses.                              *)
(*                                                                         *)
(* CommandPipe: the lines of the pipe are carried out once and in order.    *)
(* ViewerCommands: it is a CommandPipe whose other handlers are those of    *)
(* the viewers' commands; the camera and the presets agree with the         *)
(* settings.                                                                *)
EXTENDS PtzMotion, ViewerCommands, SequenceTheorems, TLAPS

(* Until its timer stops it a move has had no stop; a stop that has failed  *)
(* was that of the timer or the last of the retries, which are all counted. *)
EachStopCounted ==
  /\ timer_id => /\ ptz_err_code = "PTZ_NORMAL"
              /\ stop_retry_count = 0 /\ stops = 0
  /\ ptz_err_code = "PTZ_STOP_FAILED" => stops = stop_retry_count + 1

IInv == TypeOK /\ EachStopCounted
-----------------------------------------------------------------------------
LEMMA InitInv == Init => IInv
  <1>1. Init => /\ stop_retry_count \in 0 .. MAX_STOP_RETRY /\ jogs \in 0 .. MaxJogs
                /\ stops \in 0 .. MAX_STOP_RETRY + 1 /\ second_count \in 0 .. 1
    BY MotionAssumption DEF Init
  <1>2. QED
    BY <1>1 DEF Init, IInv, TypeOK, EachStopCounted

LEMMA LengthDomain == Answers = {"ack", "refusal", "state", "position"}
  BY DEF Answers, Length

(* What read_cmd_timeout leaves on the line.                                *)
LEMMA ReadType ==
  ASSUME TypeOK, NEW does \in {"stands", "jogs", "preset"},
         NEW proper \in Answers, NEW got, ReadCmd(does, proper, got)
  PROVE  goal' \in {"stands", "jogs", "preset"} /\ line' \in Answers \cup {"empty"}
  BY DEF ReadCmd, Sends, TypeOK

(* A stop is one more, and has failed or not.                               *)
LEMMA StopType ==
  ASSUME TypeOK, NEW retry \in {0, 1}, SendStop(retry)
  PROVE  /\ goal' \in {"stands", "jogs", "preset"} /\ line' \in Answers \cup {"empty"}
         /\ g_move_speed' = FALSE /\ stops' = stops + 1
         /\ \/ ptz_err_code' = "PTZ_NORMAL" /\ stop_retry_count' = retry
            \/ /\ ptz_err_code' = "PTZ_STOP_FAILED"
               /\ stop_retry_count' = retry + stop_retry_count
  <1> PICK got \in Answers \cup {"nothing"} :
         /\ ReadCmd("stands", "ack", got)
         /\ ptz_err_code' = IF got = "ack" THEN "PTZ_NORMAL" ELSE "PTZ_STOP_FAILED"
         /\ stop_retry_count' = retry + (IF got = "ack" THEN 0 ELSE stop_retry_count)
         /\ g_move_speed' = FALSE
         /\ stops' = stops + 1
    BY DEF SendStop
  <1>1. goal' \in {"stands", "jogs", "preset"} /\ line' \in Answers \cup {"empty"}
    BY ReadType, LengthDomain
  <1>2. \/ ptz_err_code' = "PTZ_NORMAL" /\ stop_retry_count' = retry
        \/ /\ ptz_err_code' = "PTZ_STOP_FAILED"
           /\ stop_retry_count' = retry + stop_retry_count
    <2>1. CASE got = "ack"
      BY <2>1
    <2>2. CASE got # "ack"
      BY <2>2 DEF TypeOK
    <2>3. QED
      BY <2>1, <2>2
  <1>3. QED
    BY <1>1, <1>2

(* A move to a preset, or a question, changes goal, line and g_move_speed.  *)
LEMMA MovePresetType ==
  ASSUME TypeOK, MovePreset
  PROVE  /\ goal' \in {"stands", "jogs", "preset"} /\ line' \in Answers \cup {"empty"}
         /\ g_move_speed' \in BOOLEAN
  <1> PICK got \in Answers \cup {"nothing"} :
         ReadCmd("preset", "ack", got) /\ CheckSpeed(got, TRUE)
    BY DEF MovePreset
  <1>1. goal' \in {"stands", "jogs", "preset"} /\ line' \in Answers \cup {"empty"}
    BY ReadType, LengthDomain
  <1>2. g_move_speed' \in BOOLEAN
    BY DEF CheckSpeed, TypeOK
  <1>3. QED
    BY <1>1, <1>2

LEMMA QueryType ==
  ASSUME TypeOK, NEW proper \in Answers, NEW got, Query(proper, got)
  PROVE  /\ goal' \in {"stands", "jogs", "preset"} /\ line' \in Answers \cup {"empty"}
         /\ g_move_speed' \in BOOLEAN
  <1>1. ReadCmd(goal, proper, got) /\ goal \in {"stands", "jogs", "preset"}
    BY DEF Query, TypeOK
  <1>2. goal' \in {"stands", "jogs", "preset"} /\ line' \in Answers \cup {"empty"}
    BY <1>1, ReadType
  <1>3. g_move_speed' \in BOOLEAN
    BY DEF Query, CheckSpeed, TypeOK
  <1>4. QED
    BY <1>2, <1>3
-----------------------------------------------------------------------------
LEMMA InvStep == IInv /\ [Next]_vars => IInv'
  <1> SUFFICES ASSUME IInv, [Next]_vars PROVE IInv'
    OBVIOUS
  <1> USE MotionAssumption DEF IInv, EachStopCounted
  <1>0. TypeOK
    OBVIOUS
  <1>1. CASE MoveAndStop
    BY <1>1 DEF MoveAndStop, Sends, TypeOK
  <1>2. CASE TimerStop
    <2>1. SendStop(0) /\ ~timer_id' /\ stop_retry_count = 0 /\ stops = 0
      BY <1>2 DEF TimerStop, TypeOK
    <2>2. /\ goal' \in {"stands", "jogs", "preset"} /\ line' \in Answers \cup {"empty"}
          /\ g_move_speed' = FALSE /\ stops' = 1
          /\ \/ ptz_err_code' = "PTZ_NORMAL" /\ stop_retry_count' = 0
             \/ /\ ptz_err_code' = "PTZ_STOP_FAILED"
                /\ stop_retry_count' = 0 + stop_retry_count
      BY <2>1, <1>0, StopType
    <2>3. /\ stop_retry_count' \in 0 .. MAX_STOP_RETRY
          /\ stops' \in 0 .. MAX_STOP_RETRY + 1
          /\ ptz_err_code' \in {"PTZ_NORMAL", "PTZ_STOP_FAILED"}
      BY <2>2 DEF TypeOK
    <2>4. EachStopCounted'
      BY <2>1, <2>2
    <2>5. QED
      BY <1>2, <2>1, <2>2, <2>3, <2>4 DEF TimerStop, TypeOK
  <1>3. CASE Retry
    <2>1. /\ SendStop(1) /\ ptz_err_code = "PTZ_STOP_FAILED" /\ ~timer_id /\ ~timer_id'
          /\ stop_retry_count < MAX_STOP_RETRY /\ stops = stop_retry_count + 1
      BY <1>3 DEF Retry, TypeOK
    <2>2. /\ goal' \in {"stands", "jogs", "preset"} /\ line' \in Answers \cup {"empty"}
          /\ g_move_speed' = FALSE /\ stops' = stops + 1
          /\ \/ ptz_err_code' = "PTZ_NORMAL" /\ stop_retry_count' = 1
             \/ /\ ptz_err_code' = "PTZ_STOP_FAILED"
                /\ stop_retry_count' = 1 + stop_retry_count
      BY <2>1, <1>0, StopType
    <2>3. /\ stop_retry_count' \in 0 .. MAX_STOP_RETRY
          /\ stops' \in 0 .. MAX_STOP_RETRY + 1
          /\ ptz_err_code' \in {"PTZ_NORMAL", "PTZ_STOP_FAILED"}
      BY <2>1, <2>2 DEF TypeOK
    <2>4. EachStopCounted'
      BY <2>1, <2>2, <1>0 DEF TypeOK
    <2>5. /\ UNCHANGED <<fault, auto_ptz_seq, touring, timer_id, jogs>>
          /\ second_count' = 0 /\ g_move_speed' = FALSE
      BY <1>3, <2>2 DEF Retry
    <2>6. TypeOK'
      <3>1. second_count' \in 0 .. 1
        BY <2>5
      <3>2. /\ goal' \in {"stands", "jogs", "preset"} /\ line' \in Answers \cup {"empty"}
            /\ g_move_speed' \in BOOLEAN
        BY <2>2
      <3>3. /\ fault' \in Faults /\ auto_ptz_seq' \in BOOLEAN /\ timer_id' \in BOOLEAN
            /\ touring' \in {"no", "move", "poll"} /\ jogs' \in 0 .. MaxJogs
        BY <1>0, <2>5 DEF TypeOK
      <3>4. QED
        BY <2>3, <3>1, <3>2, <3>3 DEF TypeOK
    <2>7. QED
      BY <2>4, <2>6
  <1>4. CASE CountSecond
    BY <1>4 DEF CountSecond, TypeOK
  <1>5. CASE Arrive
    BY <1>5 DEF Arrive, TypeOK, stopping
  <1>6. CASE AskPosition
    <2>1. PICK got \in Answers \cup {"nothing"} : Query("position", got)
      BY <1>6 DEF AskPosition
    <2>2. /\ goal' \in {"stands", "jogs", "preset"} /\ line' \in Answers \cup {"empty"}
          /\ g_move_speed' \in BOOLEAN
      BY <1>0, <2>1, QueryType, LengthDomain
    <2>3. QED
      BY <1>6, <2>2 DEF AskPosition, TypeOK, stopping
  <1>7. CASE UserMove
    <2>1. /\ goal' \in {"stands", "jogs", "preset"} /\ line' \in Answers \cup {"empty"}
          /\ g_move_speed' \in BOOLEAN
      BY <1>0, <1>7, MovePresetType DEF UserMove
    <2>2. QED
      BY <1>7, <2>1 DEF UserMove, TypeOK, stopping
  <1>8. CASE StartTour
    BY <1>8 DEF StartTour, TypeOK, stopping
  <1>9. CASE StopTour
    BY <1>9 DEF StopTour, TypeOK, stopping
  <1>10. CASE TourMove
    <2>1. /\ goal' \in {"stands", "jogs", "preset"} /\ line' \in Answers \cup {"empty"}
          /\ g_move_speed' \in BOOLEAN
      BY <1>0, <1>10, MovePresetType DEF TourMove
    <2>2. QED
      BY <1>10, <2>1 DEF TourMove, TypeOK, stopping
  <1>11. CASE TourPoll
    <2>1. PICK got \in Answers \cup {"nothing"} : Query("state", got)
      BY <1>11 DEF TourPoll
    <2>2. /\ goal' \in {"stands", "jogs", "preset"} /\ line' \in Answers \cup {"empty"}
          /\ g_move_speed' \in BOOLEAN
      BY <1>0, <2>1, QueryType, LengthDomain
    <2>3. QED
      BY <1>11, <2>2 DEF TourPoll, TypeOK, stopping
  <1>12. CASE UNCHANGED vars
    BY <1>12 DEF vars, TypeOK
  <1>13. QED
    BY <1>1, <1>2, <1>3, <1>4, <1>5, <1>6, <1>7, <1>8, <1>9, <1>10, <1>11, <1>12 DEF Next

LEMMA Invariant == Spec => []IInv
  <1>1. QED
    BY InitInv, InvStep, PTL DEF Spec

(* Every variable has its type: the count of retries never passes           *)
(* MAX_STOP_RETRY, though a retry that succeeds is counted after the reset. *)
THEOREM TypeCorrect == Spec => []TypeOK
  <1>1. IInv => TypeOK
    BY DEF IInv
  <1>2. QED
    BY <1>1, Invariant, PTL

(* For one move at most MAX_STOP_RETRY + 1 stops are sent, and a failed     *)
(* stop belongs to that move.                                               *)
THEOREM RetriesBounded == Spec => []StopsBounded
  <1>1. IInv => StopsBounded
    BY MotionAssumption DEF IInv, TypeOK, EachStopCounted, StopsBounded
  <1>2. QED
    BY <1>1, Invariant, PTL
-----------------------------------------------------------------------------
(* CommandPipe                                                              *)

Before(b, c) == b.line < c.line \/ (b.line = c.line /\ b.at < c.at)
Carried(k) == \E i \in 1 .. Len(done) : done[i] = k

(* Lines are left of a read only until its callback returns; the shell of a *)
(* custom command has a line to write.                                      *)
PlaceInv ==
  /\ main \notin {"lines", "pause"} => todo = {}
  /\ main = "echo" => echo \in Custom /\ Len(asked) < MaxLines

(* The bytes that wait are in the order of the lines and of their text.     *)
ByteInv ==
  /\ \A j \in 1 .. Len(pipe) : pipe[j].at \in 1 .. Last(pipe[j].line) + 1
  /\ \A i, j \in 1 .. Len(pipe) : i < j => Before(pipe[i], pipe[j])

(* What is left in the pipe comes after the text of the lines that were     *)
(* taken, and these after those that were carried out.                      *)
TakenInv ==
  \A k \in Lines : (k \in todo \/ Carried(k)) =>
    \A j \in 1 .. Len(pipe) : Before(Byte(k, Last(k)), pipe[j])
DoneInv ==
  \A i \in 1 .. Len(done) :
    /\ \A k \in todo : done[i] < k
    /\ \A j \in 1 .. Len(done) : i < j => done[i] < done[j]

(* As long as no read has been too short, no line is cut and none missing.  *)
WholeInv ==
  calm => \A j \in 1 .. Len(pipe) :
    pipe[j].at = 1 => \E i \in 1 .. Len(pipe) :
                        pipe[i] = Byte(pipe[j].line, Last(pipe[j].line))
NoneMissing == calm => \A k \in Lines : Waiting(k) \/ Carried(k)

PipeInv ==
  /\ PipeTypeOK /\ PlaceInv /\ ByteInv /\ TakenInv /\ DoneInv
  /\ WholeInv /\ NoneMissing

LEMMA PipeInitInv == PipeInit => PipeInv
  <1>1. SUFFICES ASSUME PipeInit PROVE PipeInv
    OBVIOUS
  <1>2. Len(asked) = 0 /\ Len(pipe) = 0 /\ Len(done) = 0 /\ Lines = {}
    BY <1>1 DEF PipeInit, Lines
  <1>3. PipeTypeOK
    BY <1>1, <1>2, PipeAssumption DEF PipeInit, PipeTypeOK
  <1>4. QED
    BY <1>1, <1>2, <1>3 DEF PipeInit, PipeInv, PlaceInv, ByteInv, TakenInv, DoneInv,
                            WholeInv, NoneMissing

(* What the type invariant says of the members of the sequences.            *)
LEMMA PipeTypes ==
  ASSUME PipeTypeOK
  PROVE  /\ Len(asked) \in Nat /\ Len(pipe) \in Nat /\ Len(done) \in Nat
         /\ \A k \in Lines : k \in Nat /\ asked[k] \in Commands /\ Last(k) \in Nat \ {0}
         /\ \A j \in 1 .. Len(pipe) : /\ pipe[j] \in [line : Lines, at : Nat]
                                     /\ pipe[j].line \in Lines /\ pipe[j].at \in Nat
         /\ \A i \in 1 .. Len(done) : done[i] \in Lines
         /\ \A k \in todo : k \in Lines
  <1>1. Len(asked) \in Nat /\ Len(pipe) \in Nat /\ Len(done) \in Nat
    BY LenProperties DEF PipeTypeOK
  <1>2. \A k \in Lines : asked[k] \in Commands
    BY ElementOfSeq DEF PipeTypeOK, Lines
  <1>3. \A k \in Lines : k \in Nat /\ Last(k) \in Nat \ {0}
    BY <1>1, <1>2, PipeAssumption DEF Lines, Last
  <1>4. \A j \in 1 .. Len(pipe) : pipe[j] \in [line : Lines, at : Nat]
    BY ElementOfSeq DEF PipeTypeOK
  <1>5. \A i \in 1 .. Len(done) : done[i] \in Lines
    BY ElementOfSeq DEF PipeTypeOK
  <1>6. QED
    BY <1>1, <1>2, <1>3, <1>4, <1>5 DEF PipeTypeOK

LEMMA FunctionIsSeq ==
  ASSUME NEW S, NEW n \in Nat, NEW f \in [1 .. n -> S]
  PROVE  f \in Seq(S) /\ Len(f) = n
  <1>1. f \in Seq(S)
    <2>1. f \in UNION {[1 .. m -> S] : m \in Nat}
      OBVIOUS
    <2>2. Seq(S) = UNION {[1 .. m -> S] : m \in Nat}
      BY SeqDef
    <2>3. QED
      BY <2>1, <2>2, Zenon
  <1>2. Len(f) \in Nat /\ 1 .. Len(f) = 1 .. n
    BY <1>1, LenProperties
  <1>3. QED
    BY <1>1, <1>2

(* A line that is written: the bytes that wait stay where they are, and its *)
(* own come behind them.                                                    *)
LEMMA Written ==
  ASSUME PipeTypeOK, NEW c \in Commands, Writes(c)
  PROVE  /\ asked' \in Seq(Commands) /\ Len(asked') = Len(asked) + 1
         /\ asked'[Len(asked) + 1] = c
         /\ \A k \in Lines : asked'[k] = asked[k] /\ k \in Lines'
         /\ Size[c] \in Nat \ {0}
         /\ Len(pipe') = Len(pipe) + Size[c] + 1
         /\ \A j \in 1 .. Len(pipe) : pipe'[j] = pipe[j]
         /\ \A i \in 1 .. Size[c] + 1 : pipe'[Len(pipe) + i] = Byte(Len(asked) + 1, i)
         /\ pipe' \in Seq([line : Lines', at : Nat])
  <1>1. asked' = Append(asked, c) /\ pipe' = pipe \o Text(c) /\ Size[c] \in Nat \ {0}
    BY PipeAssumption DEF Writes
  <1>2. /\ asked' \in Seq(Commands) /\ Len(asked') = Len(asked) + 1
        /\ asked'[Len(asked) + 1] = c /\ Len(asked) \in Nat
        /\ \A k \in 1 .. Len(asked) : asked'[k] = asked[k]
    BY <1>1, AppendProperties, PipeTypes DEF PipeTypeOK
  <1>3. \A k \in Lines : asked'[k] = asked[k] /\ k \in Lines'
    BY <1>2 DEF Lines
  <1> DEFINE Bytes == [line : Lines', at : Nat]
  <1>4. pipe \in Seq(Bytes)
    <2>1. pipe \in Seq([line : Lines, at : Nat]) /\ [line : Lines, at : Nat] \subseteq Bytes
      BY <1>3 DEF PipeTypeOK
    <2>2. QED
      BY <2>1, SeqMonotonic
  <1>5. Text(c) \in Seq(Bytes) /\ Len(Text(c)) = Size[c] + 1
    <2>1. Len(asked) + 1 \in Lines'
      BY <1>2 DEF Lines
    <2>2. Text(c) \in [1 .. Size[c] + 1 -> Bytes] /\ Size[c] + 1 \in Nat
      BY <1>1, <2>1 DEF Text, Byte
    <2>3. QED
      BY <2>2, FunctionIsSeq
  <1> HIDE DEF Bytes
  <1>6. /\ pipe' \in Seq(Bytes) /\ Len(pipe') = Len(pipe) + Len(Text(c))
        /\ \A i \in 1 .. Len(pipe) + Len(Text(c)) :
             pipe'[i] = IF i <= Len(pipe) THEN pipe[i] ELSE Text(c)[i - Len(pipe)]
    BY <1>1, <1>4, <1>5, ConcatProperties
  <1>7. Len(pipe) \in Nat
    BY PipeTypes
  <1>8. \A i \in 1 .. Size[c] + 1 : pipe'[Len(pipe) + i] = Byte(Len(asked) + 1, i)
    <2>1. TAKE i \in 1 .. Size[c] + 1
    <2>2. pipe'[Len(pipe) + i] = Text(c)[i]
      BY <1>1, <1>5, <1>6, <1>7
    <2>3. QED
      BY <2>2 DEF Text
  <1>9. \A j \in 1 .. Len(pipe) : pipe'[j] = pipe[j]
    BY <1>1, <1>5, <1>6, <1>7
  <1>10. Len(pipe') = Len(pipe) + Size[c] + 1
    BY <1>1, <1>5, <1>6, <1>7
  <1>11. pipe' \in Seq([line : Lines', at : Nat])
    BY <1>6, Zenon DEF Bytes
  <1>12. QED
    BY <1>1, <1>2, <1>3, <1>8, <1>9, <1>10, <1>11, Zenon

LEMMA WriteKeeps ==
  ASSUME PipeInv, NEW c \in Commands, Writes(c), UNCHANGED <<todo, results>>
  PROVE  ByteInv' /\ TakenInv' /\ DoneInv' /\ WholeInv' /\ NoneMissing'
  <1> DEFINE n == Len(asked)
             m == Len(pipe)
  <1>0. PipeTypeOK
    BY DEF PipeInv
  <1>1. /\ n \in Nat /\ m \in Nat /\ Size[c] \in Nat \ {0}
        /\ Lines = 1 .. n /\ Lines' = 1 .. n + 1 /\ Len(pipe') = m + Size[c] + 1
        /\ \A k \in Lines : Last(k)' = Last(k) /\ Last(k) \in Nat \ {0}
        /\ Size[asked'[n + 1]] = Size[c]
    <2>1. n \in Nat /\ m \in Nat /\ \A k \in Lines : Last(k) \in Nat \ {0}
      BY <1>0, PipeTypes
    <2>2. Lines = 1 .. n /\ Lines' = 1 .. n + 1
      BY <1>0, Written DEF Lines
    <2>3. \A k \in Lines : Last(k)' = Last(k)
      BY <1>0, Written DEF Last
    <2>4. QED
      BY <1>0, <2>1, <2>2, <2>3, Written
  <1>2. \A j \in 1 .. m : /\ pipe'[j] = pipe[j] /\ pipe[j] \in [line : Lines, at : Nat]
                         /\ pipe[j].line \in 1 .. n
    BY <1>1, Written, PipeTypes DEF PipeInv
  <1>3. \A i \in 1 .. Size[c] + 1 :
          pipe'[m + i] = Byte(n + 1, i) /\ pipe'[m + i].line = n + 1 /\ pipe'[m + i].at = i
    <2>1. \A i \in 1 .. Size[c] + 1 : pipe'[m + i] = Byte(n + 1, i)
      BY <1>0, Written
    <2>2. QED
      BY <2>1 DEF Byte
  <1>4. \A j \in 1 .. Len(pipe') :
          j \in 1 .. m \/ \E i \in 1 .. Size[c] + 1 : j = m + i
    <2>1. TAKE j \in 1 .. Len(pipe')
    <2>2. CASE j > m
      <3>1. j - m \in 1 .. Size[c] + 1 /\ j = m + (j - m)
        BY <1>1, <2>2
      <3>2. QED
        BY <3>1
    <2>3. QED
      BY <1>1, <2>2
  <1>5. \A k \in todo : k \in 1 .. n
    BY <1>1, PipeTypes DEF PipeInv
  <1>6. \A k : Carried(k)' <=> Carried(k)
    BY DEF Carried, results
  <1>7. \A k : Carried(k) => k \in 1 .. n
    BY <1>1, PipeTypes DEF PipeInv, Carried
  <1> HIDE DEF n, m
  <1>8. ByteInv'
    <2>1. ASSUME NEW j \in 1 .. Len(pipe')
          PROVE  pipe'[j].at \in 1 .. Last(pipe[j].line)' + 1
      <3>1. CASE j \in 1 .. m
        <4>1. pipe[j].at \in 1 .. Last(pipe[j].line) + 1
          BY <3>1 DEF PipeInv, ByteInv, m
        <4>2. QED
          BY <1>1, <1>2, <3>1, <4>1 DEF Last
      <3>2. CASE \E i \in 1 .. Size[c] + 1 : j = m + i
        BY <1>1, <1>3, <3>2 DEF Last
      <3>3. QED
        BY <1>4, <3>1, <3>2
    <2>2. ASSUME NEW i \in 1 .. Len(pipe'), NEW j \in 1 .. Len(pipe'), i < j
          PROVE  Before(pipe'[i], pipe'[j])
      <3>1. CASE j \in 1 .. m
        <4>1. i \in 1 .. m
          BY <1>1, <2>2, <3>1
        <4>2. Before(pipe[i], pipe[j])
          BY <2>2, <3>1, <4>1 DEF PipeInv, ByteInv, m
        <4>3. QED
          BY <1>2, <3>1, <4>1, <4>2
      <3>2. ASSUME NEW b \in 1 .. Size[c] + 1, j = m + b PROVE Before(pipe'[i], pipe'[j])
        <4>1. CASE i \in 1 .. m
          <5>1. pipe'[i].line \in 1 .. n /\ pipe'[j].line = n + 1
            BY <1>2, <1>3, <3>2, <4>1
          <5>2. QED
            BY <1>1, <5>1 DEF Before
        <4>2. ASSUME NEW a \in 1 .. Size[c] + 1, i = m + a PROVE Before(pipe'[i], pipe'[j])
          BY <1>1, <1>3, <2>2, <3>2, <4>2 DEF Before
        <4>3. QED
          BY <1>4, <4>1, <4>2
      <3>3. QED
        BY <1>4, <3>1, <3>2
    <2>3. QED
      BY <2>1, <2>2 DEF ByteInv, Before
  <1>9. TakenInv'
    <2>1. SUFFICES ASSUME NEW k \in Lines', k \in todo' \/ Carried(k)', NEW j \in 1 .. Len(pipe')
                   PROVE  Before(Byte(k, Last(k)'), pipe'[j])
      BY DEF TakenInv, Before, Byte
    <2>2. k \in 1 .. n /\ (k \in todo \/ Carried(k))
      BY <1>5, <1>6, <1>7, <2>1
    <2>3. CASE j \in 1 .. m
      BY <1>1, <1>2, <2>2, <2>3 DEF PipeInv, TakenInv, m
    <2>4. CASE \E i \in 1 .. Size[c] + 1 : j = m + i
      <3>1. pipe'[j].line = n + 1
        BY <1>3, <2>4
      <3>2. QED
        BY <1>1, <2>2, <3>1 DEF Before, Byte
    <2>5. QED
      BY <1>4, <2>3, <2>4
  <1>10. DoneInv'
    BY DEF PipeInv, DoneInv, results
  <1>11. WholeInv'
    <2>1. SUFFICES ASSUME calm, NEW j \in 1 .. Len(pipe'), pipe'[j].at = 1
                   PROVE  \E i \in 1 .. Len(pipe') :
                            pipe'[i] = Byte(pipe'[j].line, Size[asked'[pipe'[j].line]])
      BY DEF WholeInv, Byte, Last, results
    <2>2. CASE j \in 1 .. m
      <3>1. PICK i \in 1 .. m : pipe[i] = Byte(pipe[j].line, Last(pipe[j].line))
        BY <1>2, <2>1, <2>2 DEF PipeInv, WholeInv, m
      <3>2. i \in 1 .. Len(pipe') /\ pipe'[i] = pipe[i] /\ pipe'[j] = pipe[j]
        BY <1>1, <1>2, <2>2
      <3>3. Size[asked'[pipe'[j].line]] = Last(pipe[j].line)
        BY <1>1, <1>2, <2>2 DEF Last
      <3>4. QED
        BY <3>1, <3>2, <3>3
    <2>3. CASE \E i \in 1 .. Size[c] + 1 : j = m + i
      <3>1. pipe'[j].line = n + 1 /\ Size[asked'[pipe'[j].line]] = Size[c]
        BY <1>1, <1>3, <2>3 DEF Last
      <3>2. /\ m + Size[c] \in 1 .. Len(pipe')
            /\ pipe'[m + Size[c]] = Byte(n + 1, Size[c])
        <4>1. Size[c] \in 1 .. Size[c] + 1 /\ m + Size[c] \in 1 .. Len(pipe')
          BY <1>1
        <4>2. QED
          BY <1>3, <4>1
      <3>3. QED
        BY <3>1, <3>2
    <2>4. QED
      BY <1>4, <2>2, <2>3
  <1>12. NoneMissing'
    <2>1. SUFFICES ASSUME calm, NEW k \in Lines' PROVE Waiting(k)' \/ Carried(k)'
      BY DEF NoneMissing, results
    <2>2. CASE k = n + 1
      <3>1. m + 1 \in 1 .. Len(pipe') /\ pipe'[m + 1] = Byte(k, 1)
        BY <1>1, <1>3, <2>2
      <3>2. QED
        BY <3>1 DEF Waiting, Byte
    <2>3. CASE k \in 1 .. n
      <3>1. Waiting(k) \/ Carried(k)
        BY <1>1, <2>1, <2>3 DEF PipeInv, NoneMissing
      <3>2. CASE \E j \in 1 .. m : pipe[j] = Byte(k, 1)
        <4>1. PICK j \in 1 .. m : pipe[j] = Byte(k, 1)
          BY <3>2
        <4>2. j \in 1 .. Len(pipe') /\ pipe'[j] = Byte(k, 1)
          <5>1. j \in 1 .. Len(pipe')
            BY <1>1, <4>1
          <5>2. pipe'[j] = pipe[j]
            BY <1>2, <4>1
          <5>3. QED
            BY <4>1, <5>1, <5>2
        <4>3. QED
          BY <4>2 DEF Waiting, Byte
      <3>3. QED
        BY <1>6, <3>1, <3>2 DEF Waiting, m
    <2>4. QED
      BY <1>1, <2>2, <2>3
  <1>13. QED
    BY <1>8, <1>9, <1>10, <1>11, <1>12

LEMMA ReadKeeps ==
  ASSUME PipeInv, Read
  PROVE  /\ PipeTypeOK' /\ PlaceInv' /\ ByteInv' /\ TakenInv' /\ DoneInv'
         /\ WholeInv' /\ NoneMissing'
  <1> DEFINE m == Len(pipe)
             t == Taken
  <1>0. PipeTypeOK /\ PlaceInv /\ ByteInv /\ TakenInv /\ DoneInv /\ WholeInv /\ NoneMissing
    BY DEF PipeInv
  <1>1. /\ m \in Nat /\ t \in 0 .. m /\ (m <= READ_SIZE => t = m)
        /\ \A j \in 1 .. m : pipe[j] \in [line : Lines, at : Nat]
        /\ \A k \in Lines : k \in Nat /\ Last(k) \in Nat \ {0}
        /\ \A i \in 1 .. Len(done) : done[i] \in Lines
    BY <1>0, PipeTypes, PipeAssumption DEF Taken
  <1>2. /\ UNCHANGED <<asked, done, echo, serial>> /\ todo = {} /\ todo' = Whole
        /\ main' = "lines" /\ lost' = lost \cup (Touched \ Whole)
        /\ calm' = (calm /\ m <= READ_SIZE)
        /\ pipe' = SubSeq(pipe, t + 1, m)
    BY <1>0 DEF Read, PlaceInv
  <1>3. /\ pipe' \in Seq([line : Lines, at : Nat]) /\ Len(pipe') = m - t
        /\ \A j \in 1 .. Len(pipe') : pipe'[j] = pipe[t + j] /\ t + j \in 1 .. m
    <2>1. t + 1 \in Int /\ m \in Int /\ \A j \in t + 1 .. m : pipe[j] \in [line : Lines, at : Nat]
      BY <1>1
    <2>2. /\ SubSeq(pipe, t + 1, m) \in Seq([line : Lines, at : Nat])
          /\ Len(SubSeq(pipe, t + 1, m)) = IF t + 1 <= m THEN m - (t + 1) + 1 ELSE 0
          /\ \A j \in 1 .. m - (t + 1) + 1 :
               SubSeq(pipe, t + 1, m)[j] = pipe[(t + 1) + j - 1]
      BY <2>1, SubSeqProperties
    <2>3. Len(pipe') = m - t
      BY <1>1, <1>2, <2>2
    <2>4. ASSUME NEW j \in 1 .. Len(pipe') PROVE pipe'[j] = pipe[t + j] /\ t + j \in 1 .. m
      <3>1. j \in 1 .. m - (t + 1) + 1 /\ (t + 1) + j - 1 = t + j /\ t + j \in 1 .. m
        BY <1>1, <2>3
      <3>2. QED
        BY <1>2, <2>2, <3>1
    <2>5. QED
      BY <1>2, <2>2, <2>3, <2>4
  <1>4. Lines' = Lines /\ (\A k : Last(k)' = Last(k)) /\ \A k : Carried(k)' <=> Carried(k)
    BY <1>2 DEF Lines, Last, Carried
  <1>5. \A k \in Whole :
          /\ k \in Lines
          /\ \E i \in 1 .. t : i \in 1 .. m /\ pipe[i] = Byte(k, 1)
          /\ \E i \in 1 .. t : i \in 1 .. m /\ pipe[i] = Byte(k, Last(k))
    <2>1. \A i \in 1 .. t : i \in 1 .. m
      BY <1>1
    <2>2. QED
      BY <2>1, Zenon DEF Whole, Has
  <1>6. \A k : Carried(k) => k \in Lines
    BY <1>1 DEF Carried
  <1> HIDE DEF m, t
  <1>7. PipeTypeOK'
    <2>1. Len(pipe') <= CAPACITY /\ calm' \in BOOLEAN
      BY <1>0, <1>1, <1>2, <1>3, PipeAssumption DEF PipeTypeOK, m
    <2>2. todo' \subseteq Lines' /\ lost' \subseteq Lines'
      BY <1>0, <1>2, <1>4 DEF PipeTypeOK, Whole, Touched
    <2>3. QED
      BY <1>0, <1>2, <1>3, <1>4, <2>1, <2>2 DEF PipeTypeOK
  <1>8. PlaceInv'
    BY <1>2 DEF PlaceInv
  <1>9. ByteInv'
    <2>1. \A j \in 1 .. Len(pipe') : pipe'[j].at \in 1 .. Last(pipe'[j].line) + 1
      BY <1>0, <1>3 DEF ByteInv, m
    <2>2. ASSUME NEW i \in 1 .. Len(pipe'), NEW j \in 1 .. Len(pipe'), i < j
          PROVE  Before(pipe'[i], pipe'[j])
      <3>1. t + i \in 1 .. m /\ t + j \in 1 .. m /\ t + i < t + j
        BY <1>1, <1>3, <2>2
      <3>2. QED
        BY <1>0, <1>3, <3>1 DEF ByteInv, m
    <2>3. QED
      BY <1>2, <2>1, <2>2 DEF ByteInv, Before, Last
  <1>10. TakenInv'
    <2>1. SUFFICES ASSUME NEW k \in Lines, k \in Whole \/ Carried(k), NEW j \in 1 .. Len(pipe')
                   PROVE  Before(Byte(k, Last(k)), pipe[t + j])
      <3>1. ASSUME NEW k \in Lines', k \in todo' \/ Carried(k)', NEW j \in 1 .. Len(pipe')
            PROVE  Before(Byte(k, Last(k)'), pipe'[j])
        BY <1>2, <1>3, <1>4, <2>1, <3>1
      <3>2. QED
        BY <3>1 DEF TakenInv, Before, Byte
    <2>2. CASE k \in Whole
      <3>1. PICK i \in 1 .. t : i \in 1 .. m /\ pipe[i] = Byte(k, Last(k))
        BY <1>5, <2>2
      <3>2. t + j \in 1 .. m /\ i < t + j
        BY <1>1, <1>3
      <3>3. QED
        BY <1>0, <3>1, <3>2 DEF ByteInv, m
    <2>3. CASE Carried(k)
      BY <1>0, <1>3, <2>3 DEF TakenInv, m
    <2>4. QED
      BY <2>1, <2>2, <2>3
  <1>11. DoneInv'
    <2>1. ASSUME NEW i \in 1 .. Len(done), NEW k \in Whole PROVE done[i] < k
      <3>1. PICK j \in 1 .. t : j \in 1 .. m /\ pipe[j] = Byte(k, 1)
        BY <1>5
      <3>2. done[i] \in Lines /\ Carried(done[i]) /\ k \in Lines
        BY <1>1, <1>5 DEF Carried
      <3>3. Before(Byte(done[i], Last(done[i])), Byte(k, 1))
        BY <1>0, <3>1, <3>2 DEF TakenInv, m
      <3>4. QED
        BY <1>1, <3>2, <3>3 DEF Before, Byte
    <2>2. QED
      BY <1>0, <1>2, <2>1 DEF DoneInv
  <1>12. calm' => t = m /\ Len(pipe') = 0 /\ calm
    <2>1. calm' => calm /\ m <= READ_SIZE
      BY <1>2, Zenon
    <2>2. t = m => Len(pipe') = 0
      BY <1>1, <1>3
    <2>3. QED
      BY <1>1, <2>1, <2>2, Zenon
  <1>13. WholeInv'
    <2>1. calm' => 1 .. Len(pipe') = {}
      BY <1>12
    <2>2. QED
      BY <2>1 DEF WholeInv
  <1>14. NoneMissing'
    <2>1. SUFFICES ASSUME calm', NEW k \in Lines PROVE k \in Whole \/ Carried(k)
      BY <1>2, <1>4 DEF NoneMissing, Waiting
    <2>2. CASE \E j \in 1 .. m : pipe[j] = Byte(k, 1)
      <3>1. PICK j \in 1 .. m : pipe[j] = Byte(k, 1)
        BY <2>2
      <3>2. pipe[j].at = 1 /\ pipe[j].line = k
        BY <3>1 DEF Byte
      <3>3. \E i \in 1 .. m : pipe[i] = Byte(k, Last(k))
        BY <1>0, <1>12, <2>1, <3>2 DEF WholeInv, m
      <3>4. QED
        BY <1>12, <2>1, <3>1, <3>3 DEF Whole, Has, t
    <2>3. QED
      BY <1>0, <1>2, <1>12, <2>1, <2>2 DEF NoneMissing, Waiting, m
  <1>15. QED
    BY <1>7, <1>8, <1>9, <1>10, <1>11, <1>13, <1>14

LEMMA CarryOutKeeps ==
  ASSUME PipeInv, NEW k \in Lines, CarryOut(k)
  PROVE  PipeTypeOK' /\ TakenInv' /\ DoneInv' /\ NoneMissing'
  <1>0. PipeTypeOK /\ TakenInv /\ DoneInv /\ NoneMissing
    BY DEF PipeInv
  <1>1. /\ k \in todo /\ (\A j \in todo : k <= j) /\ todo' = todo \ {k}
        /\ done' = Append(done, k) /\ UNCHANGED <<serial, echo, asked, pipe, lost, calm>>
        /\ main' \in {"pause", "lines"}
    BY DEF CarryOut, stream
  <1>2. /\ done' \in Seq(Lines) /\ Len(done) \in Nat /\ Len(done') = Len(done) + 1
        /\ (\A i \in 1 .. Len(done) : done'[i] = done[i]) /\ done'[Len(done) + 1] = k
    <2>1. done \in Seq(Lines) /\ Len(done) \in Nat
      BY <1>0, PipeTypes DEF PipeTypeOK
    <2>2. QED
      BY <1>1, <2>1, AppendProperties
  <1>3. Lines' = Lines /\ (\A j : Last(j)' = Last(j)) /\ \A j \in Lines : j \in Nat
    BY <1>0, <1>1, PipeTypes DEF Lines, Last
  <1>4. \A j : Carried(j)' <=> Carried(j) \/ j = k
    <2>1. ASSUME NEW j, Carried(j)' PROVE Carried(j) \/ j = k
      <3>1. PICK i \in 1 .. Len(done') : done'[i] = j
        BY <2>1 DEF Carried
      <3>2. i \in 1 .. Len(done) \/ i = Len(done) + 1
        BY <1>2
      <3>3. QED
        BY <1>2, <3>1, <3>2 DEF Carried
    <2>2. ASSUME NEW j, Carried(j) PROVE Carried(j)'
      BY <1>2, <2>2 DEF Carried
    <2>3. Carried(k)'
      BY <1>2 DEF Carried
    <2>4. QED
      BY <2>1, <2>2, <2>3
  <1>5. PipeTypeOK'
    BY <1>0, <1>1, <1>2, <1>3 DEF PipeTypeOK
  <1>6. TakenInv'
    BY <1>0, <1>1, <1>3, <1>4 DEF TakenInv, Before, Byte
  <1>7. DoneInv'
    <2>1. \A j \in todo : j \in Nat
      BY <1>0, <1>3 DEF PipeTypeOK
    <2>2. ASSUME NEW i \in 1 .. Len(done') PROVE \A j \in todo' : done'[i] < j
      <3>1. i \in 1 .. Len(done) \/ i = Len(done) + 1
        BY <1>2
      <3>2. QED
        BY <1>0, <1>1, <1>2, <1>3, <2>1, <3>1 DEF DoneInv
    <2>3. ASSUME NEW i \in 1 .. Len(done'), NEW j \in 1 .. Len(done'), i < j
          PROVE  done'[i] < done'[j]
      <3>1. i \in 1 .. Len(done) /\ (j \in 1 .. Len(done) \/ j = Len(done) + 1)
        BY <1>2, <2>3
      <3>2. QED
        BY <1>0, <1>1, <1>2, <2>3, <3>1 DEF DoneInv
    <2>4. QED
      BY <2>2, <2>3 DEF DoneInv
  <1>8. NoneMissing'
    BY <1>0, <1>1, <1>3, <1>4 DEF NoneMissing, Waiting
  <1>9. QED
    BY <1>5, <1>6, <1>7, <1>8

LEMMA RestartKeeps ==
  ASSUME PipeInv, PipeRestart
  PROVE  PipeInv'
  <1>0. PipeTypeOK /\ DoneInv
    BY DEF PipeInv
  <1>1. /\ pipe' = <<>> /\ Len(pipe') = 0 /\ todo' = {} /\ ~calm' /\ UNCHANGED <<asked, done>>
        /\ main' = "loop" /\ echo' = "none" /\ serial' \in BOOLEAN
        /\ lost' = lost \cup Unread \cup todo
    BY DEF PipeRestart
  <1>2. PipeTypeOK'
    <2>1. /\ Lines' = Lines /\ pipe' \in Seq([line : Lines', at : Nat])
          /\ Len(pipe') <= CAPACITY /\ Unread \subseteq Lines
      BY <1>1, PipeAssumption DEF Lines, Unread
    <2>2. calm' \in BOOLEAN /\ todo' \subseteq Lines' /\ lost' \subseteq Lines'
      BY <1>0, <1>1, <2>1 DEF PipeTypeOK, PipeRestart
    <2>3. QED
      BY <1>0, <1>1, <2>1, <2>2 DEF PipeTypeOK
  <1>3. QED
    BY <1>0, <1>1, <1>2 DEF PipeInv, PlaceInv, ByteInv, TakenInv, DoneInv, WholeInv, NoneMissing

(* The steps that leave the lines alone.                                    *)
LEMMA LinesUntouched ==
  ASSUME PipeInv, UNCHANGED <<pipe, todo, asked, done, calm>>
  PROVE  ByteInv' /\ TakenInv' /\ DoneInv' /\ WholeInv' /\ NoneMissing'
  BY DEF PipeInv, ByteInv, TakenInv, DoneInv, WholeInv, NoneMissing, Before, Byte, Carried,
         Waiting, Last, Lines

LEMMA PipeStepInv == PipeInv /\ [PipeNext]_pipeVars => PipeInv'
  <1> SUFFICES ASSUME PipeInv, [PipeNext]_pipeVars PROVE PipeInv'
    OBVIOUS
  <1>0. PipeTypeOK /\ PlaceInv
    BY DEF PipeInv
  <1>1. ASSUME NEW c \in Commands, WriteLine(c) PROVE PipeInv'
    <2>1. /\ Writes(c) /\ UNCHANGED <<main, serial, todo, echo, results>>
          /\ Len(asked) + (IF main = "echo" THEN 1 ELSE 0) < MaxLines
          /\ Len(pipe) + Size[c] + 1 <= CAPACITY
      BY <1>1 DEF WriteLine, Writes
    <2>2. ByteInv' /\ TakenInv' /\ DoneInv' /\ WholeInv' /\ NoneMissing'
      BY <2>1, WriteKeeps
    <2>3. Len(asked') <= MaxLines /\ (main = "echo" => Len(asked') < MaxLines)
      BY <1>0, <2>1, Written, PipeTypes, PipeAssumption
    <2>4. PipeTypeOK'
      BY <1>0, <2>1, <2>3, Written DEF PipeTypeOK, results
    <2>5. PlaceInv'
      BY <1>0, <2>1, <2>3 DEF PlaceInv
    <2>6. QED
      BY <2>2, <2>4, <2>5 DEF PipeInv
  <1>2. ASSUME NEW c \in Commands, AskEcho(c) PROVE PipeInv'
    <2>1. /\ main' = "echo" /\ echo' = c /\ c \in Custom /\ todo = {} /\ Len(asked) < MaxLines
          /\ UNCHANGED <<serial, todo, pipe, asked, done, lost, calm>>
      BY <1>0, <1>2 DEF AskEcho, PlaceInv, stream, results
    <2>2. QED
      BY <1>0, <2>1, LinesUntouched DEF PipeInv, PipeTypeOK, PlaceInv, Lines
  <1>3. ASSUME Echoed PROVE PipeInv'
    <2>1. /\ Writes(echo) /\ main = "echo" /\ main' = "loop" /\ echo' = "none"
          /\ UNCHANGED <<serial, todo, results>>
          /\ Len(pipe) + Size[echo] + 1 <= CAPACITY
      BY <1>3 DEF Echoed, Writes
    <2>2. echo \in Commands /\ Len(asked) < MaxLines /\ todo = {}
      BY <1>0, <2>1, PipeAssumption DEF PlaceInv
    <2>3. ByteInv' /\ TakenInv' /\ DoneInv' /\ WholeInv' /\ NoneMissing'
      BY <2>1, <2>2, WriteKeeps
    <2>4. Len(asked') <= MaxLines
      BY <1>0, <2>1, <2>2, Written, PipeTypes, PipeAssumption
    <2>5. PipeTypeOK'
      BY <1>0, <2>1, <2>2, <2>4, Written DEF PipeTypeOK, results
    <2>6. PlaceInv'
      BY <2>1, <2>2 DEF PlaceInv
    <2>7. QED
      BY <2>3, <2>5, <2>6 DEF PipeInv
  <1>4. ASSUME Read PROVE PipeInv'
    BY <1>4, ReadKeeps DEF PipeInv
  <1>5. ASSUME NEW k \in Lines, CarryOut(k) PROVE PipeInv'
    <2>1. PipeTypeOK' /\ TakenInv' /\ DoneInv' /\ NoneMissing'
      BY <1>5, CarryOutKeeps
    <2>2. UNCHANGED <<pipe, asked, calm>> /\ main' \in {"pause", "lines"}
      BY <1>5 DEF CarryOut, stream
    <2>3. ByteInv' /\ WholeInv' /\ PlaceInv'
      BY <2>2 DEF PipeInv, ByteInv, WholeInv, PlaceInv, Before, Byte, Last
    <2>4. QED
      BY <2>1, <2>3 DEF PipeInv
  <1>6. ASSUME EndPause \/ EndRead \/ AskQuery \/ Answer \/ Other PROVE PipeInv'
    <2>1. /\ UNCHANGED <<serial, todo, echo, pipe, asked, done, lost, calm>>
          /\ main' \in {"loop", "lines", "query"} \cup Elsewhere
          /\ main' = "lines" \/ todo = {}
      BY <1>0, <1>6, PipeAssumption
      DEF EndPause, EndRead, AskQuery, Answer, Other, PlaceInv, stream, results
    <2>2. PipeTypeOK' /\ PlaceInv'
      BY <1>0, <2>1, PipeAssumption DEF PipeTypeOK, PlaceInv, Lines
    <2>3. QED
      BY <2>1, <2>2, LinesUntouched DEF PipeInv
  <1>7. ASSUME UNCHANGED pipeVars PROVE PipeInv'
    BY <1>0, <1>7, LinesUntouched DEF PipeInv, PipeTypeOK, PlaceInv, Lines, pipeVars
  <1>8. QED
    BY <1>1, <1>2, <1>3, <1>4, <1>5, <1>6, <1>7, RestartKeeps DEF PipeNext, PipeStep

LEMMA PipeInvariant == PipeSpec => []PipeInv
  <1>1. QED
    BY PipeInitInv, PipeStepInv, PTL DEF PipeSpec

LEMMA OrderFollows == PipeInv => OnceInOrder
  BY DEF PipeInv, DoneInv, NoneMissing, OnceInOrder, Carried

(* Every variable of the pipe has its type: no more bytes wait than the     *)
(* pipe takes.                                                              *)
THEOREM PipeTypeCorrect == PipeSpec => []PipeTypeOK
  <1>1. PipeInv => PipeTypeOK
    BY DEF PipeInv
  <1>2. QED
    BY <1>1, PipeInvariant, PTL

(* Whoever writes to the pipe, and wherever a read ends: a line is carried  *)
(* out once at most and in its turn, and none is missing as long as no read *)
(* has found more than its buffer takes.                                    *)
THEOREM LinesInOrder == PipeSpec => []OnceInOrder
  <1>1. QED
    BY OrderFollows, PipeInvariant, PTL
-----------------------------------------------------------------------------
(* ViewerCommands                                                           *)

(* Every step of the viewers' commands and of the heartbeat is one of the   *)
(* pipe's other handlers, or none of its steps.                             *)
LEMMA ViewStepIsPipeStep == [ViewNext]_viewerVars => [PipeNext]_pipeVars
  <1> SUFFICES ASSUME [ViewNext]_viewerVars PROVE [PipeNext]_pipeVars
    OBVIOUS
  <1>1. Changing \cup {"save", "away"} \subseteq Elsewhere
    BY ViewAssumption
  <1>2. ASSUME NEW from \in Elsewhere \cup {"loop"}, NEW to \in Elsewhere \cup {"loop"}, Goes(from, to)
        PROVE  Other
    BY <1>2 DEF Goes, At, Other, pipeRest
  <1>3. CASE Command
    <2>1. \E to \in Elsewhere \cup {"loop"} : Goes("loop", to)
      BY <1>1, <1>3 DEF Command, Changing, AskPalette, AskMode, DeletePreset, SetPreset,
                        ChangeOther, FactoryDefault, Away
    <2>2. QED
      BY <1>2, <2>1 DEF PipeNext
  <1>4. CASE Handler
    <2>1. \E from, to \in Elsewhere \cup {"loop"} : Goes(from, to)
      BY <1>1, <1>4 DEF Handler, Changing, CamCtl, StorePalette, ModeOut, Save, Back
    <2>2. QED
      BY <1>2, <2>1 DEF PipeNext
  <1>5. CASE Tick
    BY <1>5 DEF Tick, TickStarts, TickCamCtl, TickMode, TickEnds
  <1>6. CASE Restart
    BY <1>6 DEF Restart, PipeNext
  <1>7. CASE PipeStep /\ UNCHANGED viewVars
    BY <1>7 DEF PipeNext
  <1>8. CASE UNCHANGED viewerVars
    BY <1>8 DEF viewerVars
  <1>9. QED
    BY <1>3, <1>4, <1>5, <1>6, <1>7, <1>8 DEF ViewNext

(* The viewers' commands and the first tick, on the main thread of the pipe *)
(* and beside it, take nothing from what the pipe promises.                 *)
THEOREM CommandsKeepPipe == ViewSpec => PipeSpec
  <1>1. ViewInit => PipeInit
    BY DEF ViewInit
  <1>2. QED
    BY <1>1, ViewStepIsPipeStep, PTL DEF ViewSpec, PipeSpec

THEOREM CommandsInOrder == ViewSpec => []OnceInOrder
  <1>1. QED
    BY CommandsKeepPipe, LinesInOrder, PTL

(* What a thread has read or is about to tell the camera.                   *)
CarriesInv ==
  /\ main \in {"cam_ctl", "store"} => value \in Palettes
  /\ heart = "palette" => seen \in Palettes
  /\ heart = "dn_out" => seen \in Modes

(* As long as no command meets the first tick, each thread finds the        *)
(* settings as it has read them, and leaves the cameras as they say.        *)
MeetInv == ~overlapped => (InTick => main \notin Changing)
PaletteInv ==
  ~overlapped =>
    /\ heart = "palette" => seen = g_setting.palette
    /\ heart \in {"dn_mode", "dn_out"} => camera.palette = g_setting.palette
    /\ (heart = "beats" /\ main \notin {"cam_ctl", "store"}) => camera.palette = g_setting.palette
    /\ (heart = "beats" /\ main = "store") => camera.palette = value
ModeInv ==
  ~overlapped =>
    /\ heart = "dn_out" => seen = g_setting.dn_mode
    /\ (heart = "beats" /\ main # "dn_out" /\ serial) => camera.dn_mode = g_setting.dn_mode

ViewInv == ViewTypeOK /\ CarriesInv /\ MeetInv /\ PaletteInv /\ ModeInv /\ ShownIsSet

LEMMA ViewInitInv == ViewInit => ViewInv
  BY ViewAssumption
  DEF ViewInit, PipeInit, ViewInv, ViewTypeOK, CarriesInv, MeetInv, PaletteInv, ModeInv, ShownIsSet,
      InTick, Settings

LEMMA PipeStepElsewhere ==
  ASSUME PipeStep
  PROVE  /\ serial' = serial
         /\ \/ main' = main
            \/ {main, main'} \subseteq {"loop", "lines", "pause", "echo", "query"}
  BY DEF PipeStep, WriteLine, AskEcho, Echoed, Read, EndPause, EndRead, AskQuery, Answer, CarryOut

(* The members of the settings after one of them has been changed.          *)
LEMMA SettingTypes ==
  ASSUME g_setting \in Settings, camera \in Pictures
  PROVE  /\ g_setting.palette \in Palettes /\ g_setting.dn_mode \in Modes
         /\ g_setting.preset \in [Presets -> Spots \cup {Unset}]
         /\ camera.palette \in Palettes /\ camera.dn_mode \in Modes
         /\ \A v \in Palettes :
              /\ [g_setting EXCEPT !.palette = v] =
                   [palette |-> v, dn_mode |-> g_setting.dn_mode, preset |-> g_setting.preset]
              /\ [camera EXCEPT !.palette = v] = [palette |-> v, dn_mode |-> camera.dn_mode]
         /\ \A v \in Modes :
              /\ [g_setting EXCEPT !.dn_mode = v] =
                   [palette |-> g_setting.palette, dn_mode |-> v, preset |-> g_setting.preset]
              /\ [camera EXCEPT !.dn_mode = v] = [palette |-> camera.palette, dn_mode |-> v]
         /\ \A p \in Presets : \A v \in Spots \cup {Unset} :
              [g_setting EXCEPT !.preset[p] = v] =
                [palette |-> g_setting.palette, dn_mode |-> g_setting.dn_mode,
                 preset |-> [g_setting.preset EXCEPT ![p] = v]]
  BY DEF Settings, Pictures

LEMMA CommandKeeps ==
  ASSUME ViewInv, Command
  PROVE  ViewInv'
  <1>0. /\ ViewTypeOK /\ CarriesInv /\ MeetInv /\ PaletteInv /\ ModeInv /\ ShownIsSet
        /\ g_setting \in Settings /\ camera \in Pictures
    BY DEF ViewInv, ViewTypeOK
  <1>1. ASSUME NEW p \in Palettes, AskPalette(p) PROVE ViewInv'
    BY <1>0, <1>1
    DEF AskPalette, Goes, At, pipeRest, heartbeat, ViewInv, ViewTypeOK, CarriesInv, MeetInv, PaletteInv,
        ModeInv, ShownIsSet, InTick, Changing
  <1>2. ASSUME NEW m \in Modes, AskMode(m) PROVE ViewInv'
    <2>1. g_setting' = [palette |-> g_setting.palette, dn_mode |-> m, preset |-> g_setting.preset]
      BY <1>0, <1>2, SettingTypes DEF AskMode
    <2>2. /\ g_setting' \in Settings /\ g_setting'.palette = g_setting.palette
          /\ g_setting'.preset = g_setting.preset
      BY <1>0, <2>1, SettingTypes DEF Settings
    <2>3. QED
      BY <1>0, <1>2, <2>2
      DEF AskMode, Goes, At, pipeRest, heartbeat, ViewInv, ViewTypeOK, CarriesInv, MeetInv, PaletteInv,
          ModeInv, ShownIsSet, InTick, Changing
  <1>3. ASSUME NEW p \in Presets, NEW v \in Spots \cup {Unset},
               main = "loop", main' = "save", serial' = serial,
               g_setting' = [g_setting EXCEPT !.preset[p] = v],
               \/ v = Unset /\ pos_list' = pos_list
               \/ pos_list' = [pos_list EXCEPT ![p] = v],
               UNCHANGED <<file, camera, value, heartbeat, overlapped>>
        PROVE  ViewInv'
    <2>1. g_setting' = [palette |-> g_setting.palette, dn_mode |-> g_setting.dn_mode,
                        preset |-> [g_setting.preset EXCEPT ![p] = v]]
      BY <1>0, <1>3, SettingTypes
    <2>2. /\ g_setting' \in Settings /\ g_setting'.palette = g_setting.palette
          /\ g_setting'.dn_mode = g_setting.dn_mode
          /\ g_setting'.preset = [g_setting.preset EXCEPT ![p] = v]
      BY <1>0, <2>1, SettingTypes DEF Settings
    <2>3. ViewTypeOK' /\ CarriesInv' /\ MeetInv' /\ PaletteInv' /\ ModeInv'
      BY <1>0, <1>3, <2>2
      DEF heartbeat, ViewTypeOK, CarriesInv, MeetInv, PaletteInv, ModeInv, InTick, Changing
    <2>4. ShownIsSet'
      BY <1>0, <1>3, <2>2, SettingTypes DEF ShownIsSet, ViewTypeOK
    <2>5. QED
      BY <2>3, <2>4 DEF ViewInv
  <1>4. ASSUME NEW p \in Presets, DeletePreset(p) PROVE ViewInv'
    BY <1>3, <1>4, SMT DEF DeletePreset, Goes, At, pipeRest, heartbeat
  <1>5. ASSUME NEW p \in Presets, NEW spot \in Spots, SetPreset(p, spot) PROVE ViewInv'
    <2>1. /\ main = "loop" /\ main' = "save" /\ serial' = serial
          /\ g_setting' = [g_setting EXCEPT !.preset[p] = spot]
          /\ pos_list' = [pos_list EXCEPT ![p] = spot]
          /\ UNCHANGED <<file, camera, value, heartbeat, overlapped>>
      BY <1>5 DEF SetPreset, Goes, At, pipeRest
    <2>2. QED
      BY <1>3, <2>1
  <1>6. ASSUME ChangeOther \/ Away PROVE ViewInv'
    BY <1>0, <1>6
    DEF ChangeOther, Away, Goes, At, pipeRest, viewVars, settings, heartbeat, ViewInv, ViewTypeOK, CarriesInv,
        MeetInv, PaletteInv, ModeInv, ShownIsSet, InTick, Changing
  <1>7. ASSUME FactoryDefault PROVE ViewInv'
    BY <1>0, <1>7, ViewAssumption
    DEF FactoryDefault, Goes, At, pipeRest, heartbeat, ViewInv, ViewTypeOK, CarriesInv,
        MeetInv, PaletteInv, ModeInv, ShownIsSet, InTick, Changing
  <1>8. QED
    BY <1>1, <1>2, <1>4, <1>5, <1>6, <1>7 DEF Command

LEMMA HandlerKeeps ==
  ASSUME ViewInv, Handler
  PROVE  ViewInv'
  <1>0. /\ ViewTypeOK /\ CarriesInv /\ MeetInv /\ PaletteInv /\ ModeInv /\ ShownIsSet
        /\ g_setting \in Settings /\ camera \in Pictures
    BY DEF ViewInv, ViewTypeOK
  <1>1. CASE CamCtl
    <2>1. value \in Palettes /\ camera' = [palette |-> value, dn_mode |-> camera.dn_mode]
      BY <1>0, <1>1, SettingTypes DEF CamCtl, Goes, At, CarriesInv
    <2>2. camera' \in Pictures /\ camera'.palette = value /\ camera'.dn_mode = camera.dn_mode
      BY <1>0, <2>1, SettingTypes DEF Pictures
    <2>3. QED
      BY <1>0, <1>1, <2>1, <2>2
      DEF CamCtl, Goes, At, pipeRest, heartbeat, ViewInv, ViewTypeOK, CarriesInv, MeetInv, PaletteInv,
          ModeInv, ShownIsSet, InTick, Changing
  <1>2. CASE StorePalette
    <2>1. /\ value \in Palettes
          /\ g_setting' = [palette |-> value, dn_mode |-> g_setting.dn_mode, preset |-> g_setting.preset]
      BY <1>0, <1>2, SettingTypes DEF StorePalette, Goes, At, CarriesInv
    <2>2. /\ g_setting' \in Settings /\ g_setting'.palette = value
          /\ g_setting'.dn_mode = g_setting.dn_mode /\ g_setting'.preset = g_setting.preset
      BY <1>0, <2>1, SettingTypes DEF Settings
    <2>3. QED
      BY <1>0, <1>2, <2>1, <2>2
      DEF StorePalette, Goes, At, pipeRest, heartbeat, ViewInv, ViewTypeOK, CarriesInv, MeetInv, PaletteInv,
          ModeInv, ShownIsSet, InTick, Changing
  <1>3. CASE ModeOut
    <2>1. /\ camera' \in Pictures /\ camera'.palette = camera.palette
          /\ serial => camera'.dn_mode = g_setting.dn_mode
      BY <1>0, <1>3, SettingTypes DEF ModeOut, Told, Pictures
    <2>2. QED
      BY <1>0, <1>3, <2>1
      DEF ModeOut, Goes, At, pipeRest, heartbeat, ViewInv, ViewTypeOK, CarriesInv, MeetInv, PaletteInv,
          ModeInv, ShownIsSet, InTick, Changing
  <1>4. CASE Save
    BY <1>0, <1>4
    DEF Save, Goes, At, pipeRest, heartbeat, ViewInv, ViewTypeOK, CarriesInv, MeetInv, PaletteInv,
        ModeInv, ShownIsSet, InTick, Changing
  <1>5. CASE Back
    BY <1>0, <1>5
    DEF Back, Goes, At, pipeRest, viewVars, settings, heartbeat, ViewInv, ViewTypeOK, CarriesInv, MeetInv,
        PaletteInv, ModeInv, ShownIsSet, InTick, Changing
  <1>6. QED
    BY <1>1, <1>2, <1>3, <1>4, <1>5 DEF Handler

LEMMA TickKeeps ==
  ASSUME ViewInv, Tick
  PROVE  ViewInv'
  <1>0. /\ ViewTypeOK /\ CarriesInv /\ MeetInv /\ PaletteInv /\ ModeInv /\ ShownIsSet
        /\ g_setting \in Settings /\ camera \in Pictures
        /\ g_setting.palette \in Palettes /\ g_setting.dn_mode \in Modes
    BY SettingTypes DEF ViewInv, ViewTypeOK
  <1>1. CASE TickStarts
    BY <1>0, <1>1
    DEF TickStarts, settings, pipeVars, ViewInv, ViewTypeOK, CarriesInv, MeetInv, PaletteInv, ModeInv,
        ShownIsSet, InTick, Changing
  <1>2. CASE TickCamCtl
    <2>1. seen \in Palettes /\ camera' = [palette |-> seen, dn_mode |-> camera.dn_mode]
      BY <1>0, <1>2, SettingTypes DEF TickCamCtl, CarriesInv
    <2>2. camera' \in Pictures /\ camera'.palette = seen
      BY <1>0, <2>1, SettingTypes DEF Pictures
    <2>3. QED
      BY <1>0, <1>2, <2>1, <2>2
      DEF TickCamCtl, pipeVars, ViewInv, ViewTypeOK, CarriesInv, MeetInv, PaletteInv, ModeInv,
          ShownIsSet, InTick, Changing
  <1>3. CASE TickMode
    BY <1>0, <1>3
    DEF TickMode, settings, pipeVars, ViewInv, ViewTypeOK, CarriesInv, MeetInv, PaletteInv, ModeInv,
        ShownIsSet, InTick, Changing
  <1>4. CASE TickEnds
    <2>1. seen \in Modes
      BY <1>0, <1>4 DEF TickEnds, CarriesInv
    <2>2. /\ camera' \in Pictures /\ camera'.palette = camera.palette
          /\ serial => camera'.dn_mode = seen
      BY <1>0, <1>4, <2>1, SettingTypes DEF TickEnds, Told, Pictures
    <2>3. QED
      BY <1>0, <1>4, <2>1, <2>2
      DEF TickEnds, pipeVars, ViewInv, ViewTypeOK, CarriesInv, MeetInv, PaletteInv, ModeInv,
          ShownIsSet, InTick, Changing
  <1>5. QED
    BY <1>1, <1>2, <1>3, <1>4 DEF Tick

LEMMA ViewStepInv == ViewInv /\ [ViewNext]_viewerVars => ViewInv'
  <1> SUFFICES ASSUME ViewInv, [ViewNext]_viewerVars PROVE ViewInv'
    OBVIOUS
  <1>1. CASE PipeStep /\ UNCHANGED viewVars
    BY <1>1, PipeStepElsewhere
    DEF viewVars, settings, heartbeat, ViewInv, ViewTypeOK, CarriesInv, MeetInv, PaletteInv, ModeInv,
        ShownIsSet, InTick, Changing
  <1>2. CASE Restart
    BY <1>2
    DEF Restart, PipeRestart, ViewInv, ViewTypeOK, CarriesInv, MeetInv, PaletteInv, ModeInv,
        ShownIsSet, InTick, Changing, Settings
  <1>3. CASE UNCHANGED viewerVars
    BY <1>3
    DEF viewerVars, pipeVars, viewVars, settings, heartbeat, ViewInv, ViewTypeOK, CarriesInv, MeetInv,
        PaletteInv, ModeInv, ShownIsSet, InTick, Changing
  <1>4. QED
    BY <1>1, <1>2, <1>3, CommandKeeps, HandlerKeeps, TickKeeps DEF ViewNext

LEMMA ViewInvariant == ViewSpec => []ViewInv
  <1>1. QED
    BY ViewInitInv, ViewStepInv, PTL DEF ViewSpec

THEOREM ViewTypeCorrect == ViewSpec => []ViewTypeOK
  <1>1. ViewInv => ViewTypeOK
    BY DEF ViewInv
  <1>2. QED
    BY <1>1, ViewInvariant, PTL

(* After the first tick the cameras make the picture that the settings say, *)
(* whatever saves fail and wherever the program dies, if no command has met *)
(* that tick.                                                               *)
THEOREM CamerasSettled == ViewSpec => []Settled
  <1>1. ViewInv => Settled
    BY DEF ViewInv, PaletteInv, ModeInv, Settled, Changing
  <1>2. QED
    BY <1>1, ViewInvariant, PTL

(* A preset that is shown as set is the one the camera moves to.            *)
THEOREM PresetsShown == ViewSpec => []ShownIsSet
  <1>1. ViewInv => ShownIsSet
    BY DEF ViewInv
  <1>2. QED
    BY <1>1, ViewInvariant, PTL
=============================================================================
