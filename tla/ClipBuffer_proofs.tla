-------------------------- MODULE ClipBuffer_proofs --------------------------
(***************************************************************************)
(* Theorems about ClipBuffer, for a ring of any length that satisfies      *)
(* SizeAssumption, any frame rate and any number of events.                *)
(*                                                                         *)
(* The inductive invariant ties the ring to the stream (its i-th oldest    *)
(* frame is the i-th of the last frame_count accepted ones), bounds how    *)
(* many frames fit between two times, and bounds how late a worker is.     *)
(***************************************************************************)
EXTENDS ClipBuffer, WellFoundedInduction, TLAPS

(* The number of frames that are no longer in the ring.                     *)
Gone == Len(log) - frame_count

RingHoldsLog ==
  /\ total_frames_written = Len(log)
  /\ frame_count = IF Len(log) < MaxFrames THEN Len(log) ELSE MaxFrames
  /\ frame_count < MaxFrames => write_pos = frame_count
  /\ \A i \in Indices : At(i) = log[Gone + i + 1]

LogInOrder ==
  \A n \in 1 .. Len(log) :
    /\ log[n].index = n - 1
    /\ log[n].ts <= now
    /\ \A m \in 1 .. n : log[m].ts <= log[n].ts

(* n - m frames take more than (n - m) / Fps - 1 seconds.                   *)
RateHeld ==
  \A n \in 1 .. Len(log) : \A m \in 1 .. n :
    n - m < Fps * (log[n].ts - log[m].ts + 1)

OnTime ==
  \A e \in Events :
    /\ worker[e] = "asleep" => now <= event_time[e] + AfterSec + 1 + Late
    /\ Cut(e) => event_time[e] + AfterSec < now

ClipInLog ==
  \A e \in Events : Cut(e) =>
    \A i \in 1 .. Len(clip[e]) : clip[e][i] \in 0 .. Len(log) - 1

NotCutYet == \A e \in Events : ~ Cut(e) => clip[e] = <<>>

StreamInv == RingHoldsLog /\ LogInOrder /\ RateHeld /\ OnTime
IInv ==
  /\ TypeOK /\ StreamInv
  /\ NotCutYet /\ ClipInLog /\ ClipCoversEvent /\ ClipDecodable
-----------------------------------------------------------------------------
LEMMA ModSmall ==
  ASSUME NEW n \in Nat \ {0}, NEW x \in 0 .. n - 1 PROVE x % n = x
  BY SMT

LEMMA ModNext ==
  ASSUME NEW n \in Nat \ {0}, NEW x \in n .. 2 * n - 1 PROVE x % n = x - n
  BY SMT

LEMMA TimesMonotonic ==
  ASSUME NEW f \in Nat, NEW a \in Int, NEW b \in Int, a <= b PROVE f * a <= f * b
  BY SMT

LEMMA TimesSuccessor ==
  ASSUME NEW f \in Nat, NEW a \in Int PROVE f * (a + 1) = f * a + f
  BY SMT

LEMMA MinOfNats ==
  ASSUME NEW T, T \subseteq Nat, T # {}
  PROVE  Min(T) \in T /\ \A y \in T : Min(T) <= y
  <1> DEFINE R == OpToRel(<, Nat)
  <1>1. PICK x \in T : \A y \in T : ~ (<<y, x>> \in R)
    <2> HIDE DEF R
    <2>1. IsWellFoundedOn(R, Nat)
      BY NatLessThanWellFounded DEF R
    <2> QED
      BY <2>1, WFMin
  <1>2. \A y \in T : /\ <<y, x>> \in Nat \X Nat
                     /\ <<y, x>>[1] = y /\ <<y, x>>[2] = x
    OBVIOUS
  <1>3. \A y \in T : ~ (y < x)
    BY <1>1, <1>2 DEF R, OpToRel
  <1>4. \A y \in T : x <= y
    BY <1>3
  <1> QED
    BY <1>4 DEF Min

LEMMA MaxOfRange ==
  ASSUME NEW k \in Nat, NEW T, T \subseteq 0 .. k, T # {}
  PROVE  Max(T) \in T /\ \A y \in T : Max(T) >= y
  <1> DEFINE S == {k - x : x \in T}
  <1>1. S \subseteq Nat
    <2> SUFFICES ASSUME NEW x \in T PROVE k - x \in Nat
      OBVIOUS
    <2> x \in 0 .. k
      OBVIOUS
    <2> QED
      OBVIOUS
  <1>2. S # {}
    OBVIOUS
  <1>3. Min(S) \in S /\ \A y \in S : Min(S) <= y
    <2> HIDE DEF S
    <2> QED
      BY <1>1, <1>2, MinOfNats
  <1>4. PICK x \in T : Min(S) = k - x
    BY <1>3
  <1>5. \A y \in T : x >= y
    <2> TAKE y \in T
    <2>1. k - x <= k - y
      BY <1>3, <1>4
    <2> QED
      BY <2>1
  <1> QED
    BY <1>5 DEF Max
-----------------------------------------------------------------------------
(* The ring                                                                 *)

(* The place that BufferStart and At compute, without the modulus.          *)
LEMMA PlaceInRing ==
  ASSUME NEW n \in Nat \ {0}, NEW w \in 0 .. n - 1, NEW c \in 0 .. n,
         NEW i \in 0 .. n - 1, c < n => w = c
  PROVE  (((w - c + n) % n) + i) % n = IF c < n THEN i
                                     ELSE IF w + i < n THEN w + i ELSE w + i - n
  <1>1. CASE c < n
    <2>1. w - c + n = n
      BY <1>1
    <2>2. n % n = 0
      BY ModNext
    <2>3. 0 + i = i /\ i % n = i
      BY ModSmall
    <2> QED
      BY <2>1, <2>2, <2>3, <1>1
  <1>2. CASE c = n
    <2>1. w - c + n = w /\ w % n = w
      BY <1>2, ModSmall
    <2>2. PICK x \in Nat : x = w + i
      OBVIOUS
    <2>3. CASE x < n
      <3>1. x % n = x
        BY <2>3, ModSmall
      <3> QED
        BY <2>1, <2>2, <2>3, <3>1, <1>2
    <2>4. CASE ~ (x < n)
      <3>1. x \in n .. 2 * n - 1
        BY <2>2, <2>4
      <3>2. x % n = x - n
        BY <3>1, ModNext
      <3> QED
        BY <2>1, <2>2, <2>4, <3>2, <1>2
    <2> QED
      BY <2>3, <2>4
  <1> QED
    BY <1>1, <1>2

(* Where the i-th oldest frame is, before and after a step.                 *)
LEMMA PlaceOf ==
  ASSUME TypeOK, NEW i \in Positions,
         frame_count < MaxFrames => write_pos = frame_count
  PROVE  At(i) = IF frame_count < MaxFrames THEN frames[i]
                 ELSE IF write_pos + i < MaxFrames THEN frames[write_pos + i]
                 ELSE frames[write_pos + i - MaxFrames]
  <1>0. /\ MaxFrames \in Nat \ {0} /\ i \in 0 .. MaxFrames - 1
        /\ write_pos \in 0 .. MaxFrames - 1 /\ frame_count \in 0 .. MaxFrames
    BY RingAssumption DEF TypeOK, Positions
  <1>1. At(i) = frames[(((write_pos - frame_count + MaxFrames) % MaxFrames) + i) % MaxFrames]
    BY DEF At, BufferStart
  <1> QED
    BY <1>0, <1>1, PlaceInRing

LEMMA PlaceOfNext ==
  ASSUME TypeOK', NEW i \in Positions,
         frame_count' < MaxFrames => write_pos' = frame_count'
  PROVE  At(i)' = IF frame_count' < MaxFrames THEN frames'[i]
                  ELSE IF write_pos' + i < MaxFrames THEN frames'[write_pos' + i]
                  ELSE frames'[write_pos' + i - MaxFrames]
  <1>0. /\ MaxFrames \in Nat \ {0} /\ i \in 0 .. MaxFrames - 1
        /\ write_pos' \in 0 .. MaxFrames - 1 /\ frame_count' \in 0 .. MaxFrames
    BY RingAssumption DEF TypeOK, Positions
  <1>1. At(i)' = frames'[(((write_pos' - frame_count' + MaxFrames) % MaxFrames) + i) % MaxFrames]
    BY DEF At, BufferStart
  <1> QED
    BY <1>0, <1>1, PlaceInRing

LEMMA NextPlace ==
  ASSUME TypeOK
  PROVE  NextPos = IF write_pos + 1 < MaxFrames THEN write_pos + 1 ELSE 0
  <1>0. MaxFrames \in Nat \ {0} /\ write_pos \in 0 .. MaxFrames - 1
    BY RingAssumption DEF TypeOK, Positions
  <1>1. CASE write_pos + 1 < MaxFrames
    <2>1. (write_pos + 1) % MaxFrames = write_pos + 1
      BY <1>0, <1>1, ModSmall
    <2> QED
      BY <2>1, <1>1 DEF NextPos
  <1>2. CASE ~ (write_pos + 1 < MaxFrames)
    <2>1. write_pos + 1 = MaxFrames
      BY <1>0, <1>2
    <2>2. MaxFrames % MaxFrames = 0
      BY <1>0, ModNext
    <2> QED
      BY <2>1, <2>2, <1>0 DEF NextPos
  <1> QED
    BY <1>1, <1>2
-----------------------------------------------------------------------------
(* Adding a frame                                                           *)

(* What add_frame_to_buffer does, with the frame it adds named.             *)
LEMMA AddedFrame ==
  ASSUME IInv, NEW c \in Coded, add_frame_to_buffer(c)
  PROVE  \E f \in Frames :
           /\ f.index = Len(log) /\ f.ts = now
           /\ log' = Append(log, f)
           /\ Len(log') = Len(log) + 1
           /\ log'[Len(log) + 1] = f
           /\ \A n \in 1 .. Len(log) : log'[n] = log[n]
           /\ frames' = [frames EXCEPT ![write_pos] = f]
  <1> DEFINE f == [index |-> total_frames_written, ts |-> now, key |-> c.key, size |-> c.size]
  <1>1. f \in Frames
    BY RingAssumption DEF IInv, TypeOK, Frames
  <1>2. f.index = Len(log) /\ f.ts = now
    BY DEF IInv, StreamInv, RingHoldsLog
  <1>3. log' = Append(log, f) /\ frames' = [frames EXCEPT ![write_pos] = f]
    BY DEF add_frame_to_buffer
  <1>4. log \in Seq(Frames)
    BY DEF IInv, TypeOK
  <1> HIDE DEF f
  <1>5. /\ Len(log') = Len(log) + 1
        /\ log'[Len(log) + 1] = f
        /\ \A n \in 1 .. Len(log) : log'[n] = log[n]
    BY <1>1, <1>3, <1>4
  <1> QED
    BY <1>1, <1>2, <1>3, <1>5

LEMMA AddType ==
  ASSUME IInv, NEW c \in Coded, add_frame_to_buffer(c)
  PROVE  TypeOK'
  <1>1. PICK f \in Frames : /\ log' = Append(log, f)
                            /\ frames' = [frames EXCEPT ![write_pos] = f]
    BY AddedFrame
  <1>2. log' \in Seq(Frames) /\ frames' \in [Positions -> Frames]
    BY <1>1 DEF IInv, TypeOK
  <1>3. write_pos' \in Positions
    BY NextPlace, RingAssumption DEF IInv, TypeOK, Positions, add_frame_to_buffer
  <1>4. frame_count' \in 0 .. MaxFrames /\ total_frames_written' \in Nat
    BY RingAssumption DEF IInv, TypeOK, add_frame_to_buffer, NextCount
  <1>5. total_bytes' \in Int
    <2>1. Displaced \in Nat
      <3>1. frames[write_pos] \in Frames
        BY DEF IInv, TypeOK
      <3> QED
        BY <3>1 DEF Displaced, Frames
    <2>2. c.size \in Nat
      BY RingAssumption
    <2> QED
      BY <2>1, <2>2 DEF IInv, TypeOK, add_frame_to_buffer
  <1>6. UNCHANGED <<worker, event_time, clip, video_url, posted, now>>
    BY DEF add_frame_to_buffer, workers
  <1> QED
    BY <1>2, <1>3, <1>4, <1>5, <1>6 DEF IInv, TypeOK

LEMMA AddRing ==
  ASSUME IInv, NEW c \in Coded, add_frame_to_buffer(c)
  PROVE  RingHoldsLog'
  <1>1. PICK f \in Frames :
           /\ Len(log') = Len(log) + 1
           /\ log'[Len(log) + 1] = f
           /\ \A n \in 1 .. Len(log) : log'[n] = log[n]
           /\ frames' = [frames EXCEPT ![write_pos] = f]
    BY AddedFrame
  <1>2. /\ MaxFrames \in Nat \ {0} /\ write_pos \in 0 .. MaxFrames - 1
        /\ frame_count \in 0 .. MaxFrames /\ Len(log) \in Nat
        /\ frames \in [0 .. MaxFrames - 1 -> Frames]
        /\ Positions = 0 .. MaxFrames - 1
    BY RingAssumption DEF IInv, TypeOK, Positions
  <1>3. /\ total_frames_written = Len(log)
        /\ frame_count = IF Len(log) < MaxFrames THEN Len(log) ELSE MaxFrames
        /\ frame_count < MaxFrames => write_pos = frame_count
        /\ \A i \in Indices : At(i) = log[Gone + i + 1]
    BY DEF IInv, StreamInv, RingHoldsLog
  <1>4. /\ total_frames_written' = total_frames_written + 1
        /\ frame_count' = IF frame_count < MaxFrames THEN frame_count + 1 ELSE frame_count
        /\ write_pos' = IF write_pos + 1 < MaxFrames THEN write_pos + 1 ELSE 0
    BY NextPlace DEF add_frame_to_buffer, NextCount, IInv
  <1>5. /\ total_frames_written' = Len(log')
        /\ frame_count' = IF Len(log') < MaxFrames THEN Len(log') ELSE MaxFrames
        /\ frame_count' < MaxFrames => write_pos' = frame_count'
    BY <1>1, <1>2, <1>3, <1>4
  <1>6. TypeOK /\ TypeOK'
    BY AddType DEF IInv
  <1>7. ASSUME NEW i \in 0 .. frame_count' - 1
        PROVE  At(i)' = log'[Gone' + i + 1]
    <2>1. i \in Positions /\ frame_count' \in 0 .. MaxFrames
      BY <1>2, <1>4
    <2>2. At(i)' = IF frame_count' < MaxFrames THEN frames'[i]
                   ELSE IF write_pos' + i < MaxFrames THEN frames'[write_pos' + i]
                   ELSE frames'[write_pos' + i - MaxFrames]
      BY <2>1, <1>5, <1>6, PlaceOfNext
    <2>3. Gone = Len(log) - frame_count /\ Gone' = Len(log) + 1 - frame_count'
      <3>1. Gone' = Len(log') - frame_count'
        BY DEF Gone
      <3>2. Gone = Len(log) - frame_count
        BY DEF Gone
      <3>3. Len(log') = Len(log) + 1
        BY <1>1
      <3> QED
        BY <3>1, <3>2, <3>3, <1>2, <2>1
    <2>4. CASE frame_count < MaxFrames
      <3>1. frame_count' = frame_count + 1 /\ write_pos = frame_count /\ Gone' = 0
        BY <1>2, <1>3, <1>4, <2>3, <2>4
      <3>2. At(i)' = frames'[i]
        BY <2>2, <3>1, <1>2, <1>4, <2>4
      <3>3. CASE i = frame_count
        <4>1. frames'[i] = f
          BY <1>1, <1>2, <3>1, <3>3
        <4>2. Gone' + i + 1 = Len(log) + 1
          BY <3>1, <3>3, <1>2, <1>3, <2>4
        <4> QED
          BY <3>2, <4>1, <4>2, <1>1
      <3>4. CASE i < frame_count
        <4>1. frames'[i] = frames[i]
          BY <1>1, <1>2, <3>1, <3>4
        <4>2. At(i) = frames[i]
          BY <2>1, <1>3, <1>6, <2>4, PlaceOf
        <4>3. At(i) = log[Gone + i + 1] /\ Gone = 0
          BY <1>2, <1>3, <2>3, <2>4, <3>4 DEF Indices
        <4>4. i + 1 \in 1 .. Len(log)
          BY <1>2, <1>3, <2>4, <3>4
        <4> QED
          BY <3>1, <3>2, <4>1, <4>2, <4>3, <4>4, <1>1
      <3> QED
        BY <3>1, <3>3, <3>4, <1>2
    <2>5. CASE frame_count = MaxFrames
      <3>1. /\ frame_count' = MaxFrames /\ Len(log) >= MaxFrames
            /\ Gone' = Len(log) + 1 - MaxFrames /\ Gone = Len(log) - MaxFrames
        BY <1>2, <1>3, <1>4, <2>3, <2>5
      <3>2. CASE i = MaxFrames - 1
        <4>1. At(i)' = frames'[write_pos]
          <5>1. CASE write_pos + 1 < MaxFrames
            <6>1. /\ ~ (write_pos' + i < MaxFrames)
                  /\ write_pos' + i - MaxFrames = write_pos
              BY <5>1, <3>2, <1>2, <1>4
            <6>2. At(i)' = frames'[write_pos' + i - MaxFrames]
              BY <6>1, <2>2, <3>1, <1>2
            <6> QED
              BY <6>1, <6>2
          <5>2. CASE write_pos = MaxFrames - 1
            <6>1. write_pos' + i = write_pos
              BY <5>2, <3>2, <1>2, <1>4
            <6> QED
              BY <6>1, <2>2, <3>1, <1>2
          <5> QED
            BY <5>1, <5>2, <1>2
        <4>2. Gone' + i + 1 = Len(log) + 1
          BY <3>1, <3>2, <1>2
        <4> QED
          BY <4>1, <4>2, <1>1, <1>2
      <3>3. CASE i < MaxFrames - 1
        <4>1. i + 1 \in Positions /\ i + 1 \in Indices
          BY <1>2, <2>5, <3>3 DEF Indices
        <4>2. At(i + 1) = IF write_pos + i + 1 < MaxFrames THEN frames[write_pos + i + 1]
                          ELSE frames[write_pos + i + 1 - MaxFrames]
          BY <4>1, <1>2, <1>3, <1>6, <2>5, PlaceOf
        <4>3. At(i)' = IF write_pos + i + 1 < MaxFrames THEN frames'[write_pos + i + 1]
                       ELSE frames'[write_pos + i + 1 - MaxFrames]
          BY <2>2, <3>1, <3>3, <1>2, <1>4
        <4>4. At(i)' = At(i + 1)
          BY <4>2, <4>3, <1>1, <1>2, <3>3
        <4>5. At(i + 1) = log[Gone + (i + 1) + 1]
          BY <4>1, <1>3
        <4>6. Gone' + i + 1 = Gone + (i + 1) + 1 /\ Gone + (i + 1) + 1 \in 1 .. Len(log)
          BY <3>1, <3>3, <1>2
        <4> QED
          BY <4>4, <4>5, <4>6, <1>1
      <3> QED
        BY <3>2, <3>3, <1>2, <3>1
    <2> QED
      BY <2>4, <2>5, <1>2
  <1> QED
    BY <1>5, <1>7 DEF RingHoldsLog, Indices

LEMMA AddStream ==
  ASSUME IInv, NEW c \in Coded, add_frame_to_buffer(c)
  PROVE  StreamInv'
  <1>1. PICK f \in Frames :
           /\ f.index = Len(log) /\ f.ts = now
           /\ Len(log') = Len(log) + 1
           /\ log'[Len(log) + 1] = f
           /\ \A n \in 1 .. Len(log) : log'[n] = log[n]
    BY AddedFrame
  <1>2. UNCHANGED <<worker, event_time, now>>
    BY DEF add_frame_to_buffer, workers
  <1>3. /\ Len(log) \in Nat /\ now \in Nat /\ Fps \in Nat \ {0}
        /\ \A n \in 1 .. Len(log) : log[n].ts \in Nat
    <2>1. \A n \in 1 .. Len(log) : log[n] \in Frames
      BY DEF IInv, TypeOK
    <2>2. \A n \in 1 .. Len(log) : log[n].ts \in Nat
      BY <2>1 DEF Frames, Times
    <2>3. Len(log) \in Nat /\ now \in Nat /\ Fps \in Nat \ {0}
      BY RingAssumption DEF IInv, TypeOK, Times
    <2> QED
      BY <2>2, <2>3
  <1>4. LogInOrder /\ RateHeld
    BY DEF IInv, StreamInv
  <1>5. LogInOrder'
    <2> SUFFICES ASSUME NEW n \in 1 .. Len(log) + 1
                 PROVE  /\ log'[n].index = n - 1
                        /\ log'[n].ts <= now
                        /\ \A m \in 1 .. n : log'[m].ts <= log'[n].ts
      BY <1>1, <1>2 DEF LogInOrder
    <2>1. CASE n \in 1 .. Len(log)
      <3>1. \A m \in 1 .. n : log'[m] = log[m]
        BY <2>1, <1>1, <1>3
      <3>2. log'[n] = log[n]
        BY <2>1, <1>1
      <3> QED
        BY <2>1, <3>1, <3>2, <1>4 DEF LogInOrder
    <2>2. CASE n = Len(log) + 1
      <3>1. \A m \in 1 .. Len(log) : log'[m].ts <= now
        BY <1>1, <1>4 DEF LogInOrder
      <3> QED
        BY <2>2, <3>1, <1>1, <1>3
    <2> QED
      BY <2>1, <2>2, <1>3
  <1>6. RateHeld'
    <2> SUFFICES ASSUME NEW n \in 1 .. Len(log) + 1, NEW m \in 1 .. n
                 PROVE  n - m < Fps * (log'[n].ts - log'[m].ts + 1)
      BY <1>1 DEF RateHeld
    <2>1. CASE n \in 1 .. Len(log)
      <3>1. log'[n] = log[n] /\ log'[m] = log[m]
        BY <2>1, <1>1, <1>3
      <3> QED
        BY <2>1, <3>1, <1>4 DEF RateHeld
    <2>2. CASE n = Len(log) + 1 /\ m = n
      <3>1. log'[n].ts - log'[m].ts + 1 = 1
        BY <2>2, <1>1, <1>3
      <3> QED
        BY <2>2, <3>1, <1>3
    <2>3. CASE n = Len(log) + 1 /\ m < n
      <3>1. m \in 1 .. Len(log) /\ log'[n].ts = now /\ log'[m] = log[m]
        BY <2>3, <1>1, <1>3
      <3>2. PICK t \in Nat : t = log[m].ts
        BY <3>1, <1>3
      <3>3. t <= now
        BY <3>1, <3>2, <1>4 DEF LogInOrder
      <3>4. log'[n].ts - log'[m].ts + 1 = now - t + 1
        BY <3>1, <3>2
      <3>5. PICK d \in Int : d = n - m /\ d = Len(log) + 1 - m
        BY <2>3, <3>1, <1>3
      <3>6. PICK b \in Int : b = Fps * (now - t + 1)
        BY <1>3
      <3>7. CASE d < Fps
        <4>1. Fps * 1 <= b
          BY <3>3, <3>6, <1>3, TimesMonotonic
        <4>2. d < b
          BY <4>1, <3>7, <1>3
        <4> QED
          BY <4>2, <3>4, <3>5, <3>6
      <3>8. CASE Fps <= d
        <4> DEFINE j == Len(log) - Fps + 1
        <4>0. j \in Int
          BY <1>3
        <4>1. PICK k \in Int : k = j
          BY <4>0
        <4>2. k \in 1 .. Len(log) /\ m \in 1 .. k /\ d = (k - m) + Fps
          BY <4>1, <3>1, <3>5, <3>8, <1>3
        <4>3. PICK u \in Nat : u = log[k].ts
          BY <4>2, <1>3
        <4>4. u < now
          BY <4>1, <4>2, <4>3, <1>3 DEF add_frame_to_buffer, WithinRate
        <4>5. PICK a \in Int : a = Fps * (u - t + 1)
          BY <1>3
        <4>6. k - m < a
          BY <4>2, <4>3, <4>5, <3>2, <1>4 DEF RateHeld
        <4>7. Fps * ((u - t + 1) + 1) = a + Fps
          BY <4>5, <1>3, TimesSuccessor
        <4>8. Fps * ((u - t + 1) + 1) <= b
          <5>1. (u - t + 1) + 1 <= now - t + 1
            BY <4>4, <1>3
          <5> QED
            BY <5>1, <3>6, <1>3, TimesMonotonic
        <4>9. d < b
          BY <4>2, <4>6, <4>7, <4>8, <1>3
        <4> QED
          BY <4>9, <3>4, <3>5, <3>6
      <3> QED
        BY <3>5, <3>7, <3>8, <1>3
    <2> QED
      BY <2>1, <2>2, <2>3, <1>3
  <1>7. OnTime'
    BY <1>2 DEF IInv, StreamInv, OnTime, Cut
  <1> QED
    BY <1>5, <1>6, <1>7, AddRing DEF StreamInv

LEMMA AddClips ==
  ASSUME IInv, NEW c \in Coded, add_frame_to_buffer(c)
  PROVE  ClipInLog' /\ ClipCoversEvent' /\ ClipDecodable'
  <1>1. PICK f \in Frames :
           /\ f.ts = now
           /\ Len(log') = Len(log) + 1
           /\ log'[Len(log) + 1] = f
           /\ \A n \in 1 .. Len(log) : log'[n] = log[n]
    BY AddedFrame
  <1>2. UNCHANGED <<worker, event_time, clip, now>>
    BY DEF add_frame_to_buffer, workers
  <1>3. Len(log) \in Nat /\ now \in Nat
    BY RingAssumption DEF IInv, TypeOK, Times
  <1>4. \A e \in Events : Cut(e)' = Cut(e)
    BY <1>2 DEF Cut
  <1>5. ASSUME NEW e \in Events, Cut(e)
        PROVE  Wanted(e)' = Wanted(e)
    <2>1. event_time[e] + AfterSec < now
      BY <1>5 DEF IInv, StreamInv, OnTime
    <2>2. event_time[e] + AfterSec \in Nat
      BY RingAssumption DEF IInv, TypeOK, Times
    <2>3. ~ (log'[Len(log) + 1].ts <= event_time'[e] + AfterSec)
      BY <1>1, <1>2, <1>3, <2>1, <2>2
    <2>4. Wanted(e)' = {n \in 1 .. Len(log') :
                          /\ log'[n].ts >= event_time'[e] - BeforeSec
                          /\ log'[n].ts <= event_time'[e] + AfterSec}
      BY DEF Wanted
    <2>5. \A n : n \in Wanted(e)' <=> n \in Wanted(e)
      BY <2>3, <2>4, <1>1, <1>2, <1>3 DEF Wanted
    <2> QED
      BY <2>5
  <1>6. ClipInLog'
    BY <1>1, <1>2, <1>3, <1>4 DEF IInv, ClipInLog
  <1>7. ClipCoversEvent'
    <2> SUFFICES ASSUME NEW e \in Events, Cut(e), NEW n \in Wanted(e)
                 PROVE  \E i \in 1 .. Len(clip[e]) : clip[e][i] = log'[n].index
      BY <1>2, <1>4, <1>5 DEF ClipCoversEvent
    <2>1. n \in 1 .. Len(log)
      BY DEF Wanted
    <2> QED
      BY <2>1, <1>1 DEF IInv, ClipCoversEvent
  <1>8. ClipDecodable'
    <2> SUFFICES ASSUME NEW e \in Events, Cut(e), Wanted(e) # {},
                        NEW first, first = Min(Wanted(e))
                 PROVE  /\ \A i \in 1 .. Len(clip[e]) - 1 : clip[e][i + 1] = clip[e][i] + 1
                        /\ (\E n \in 1 .. first : first - MaxBack <= n /\ log'[n].key)
                             => clip[e] # <<>> /\ log'[clip[e][1] + 1].key
      BY <1>2, <1>4, <1>5 DEF ClipDecodable
    <2>1. Wanted(e) \subseteq 1 .. Len(log)
      BY DEF Wanted
    <2>2. first \in 1 .. Len(log)
      <3>1. Wanted(e) \subseteq Nat
        BY <2>1, <1>3
      <3> QED
        BY <3>1, <2>1, MinOfNats
    <2>3. \A n \in 1 .. first : log'[n] = log[n]
      BY <2>2, <1>1, <1>3
    <2>4. clip[e] # <<>> => log'[clip[e][1] + 1] = log[clip[e][1] + 1]
      <3> SUFFICES ASSUME clip[e] # <<>>
                   PROVE  clip[e][1] + 1 \in 1 .. Len(log)
        BY <1>1
      <3>1. clip[e] \in Seq(Nat)
        BY DEF IInv, TypeOK
      <3>2. 1 \in 1 .. Len(clip[e])
        BY <3>1
      <3>3. clip[e][1] \in 0 .. Len(log) - 1
        BY <3>2 DEF IInv, ClipInLog
      <3> QED
        BY <3>3, <1>3
    <2>5. /\ \A i \in 1 .. Len(clip[e]) - 1 : clip[e][i + 1] = clip[e][i] + 1
          /\ (\E n \in 1 .. first : first - MaxBack <= n /\ log[n].key)
               => clip[e] # <<>> /\ log[clip[e][1] + 1].key
      BY DEF IInv, ClipDecodable
    <2> QED
      BY <2>3, <2>4, <2>5
  <1> QED
    BY <1>6, <1>7, <1>8
-----------------------------------------------------------------------------
(* Cutting the clip                                                         *)

LEMMA GoneType ==
  ASSUME IInv
  PROVE  /\ Len(log) \in Nat /\ frame_count \in Nat /\ Gone \in Nat
         /\ Gone + frame_count = Len(log)
  <1>1. Len(log) \in Nat /\ frame_count \in Nat
    BY RingAssumption DEF IInv, TypeOK
  <1>2. frame_count <= Len(log)
    BY <1>1, RingAssumption DEF IInv, StreamInv, RingHoldsLog
  <1> QED
    BY <1>1, <1>2 DEF Gone

(* A frame that a clip needs, or that lies at most MaxBack before one, is   *)
(* still in the ring while the worker sleeps.                               *)
LEMMA StillThere ==
  ASSUME IInv, NEW e \in Events, worker[e] = "asleep",
         NEW n \in Wanted(e), NEW m \in 1 .. n, n - m <= MaxBack
  PROVE  m > Gone
  <1>1. /\ Len(log) \in Nat /\ now \in Nat /\ event_time[e] \in Nat
        /\ MaxFrames \in Nat /\ Fps \in Nat /\ BeforeSec \in Nat
        /\ AfterSec \in Nat /\ Late \in Nat /\ MaxBack \in Nat
    BY RingAssumption DEF IInv, TypeOK, Times
  <1>2. n \in 1 .. Len(log) /\ log[n].ts >= event_time[e] - BeforeSec
    BY DEF Wanted
  <1>3. \A k \in 1 .. Len(log) : log[k].ts \in Nat
    <2>1. \A k \in 1 .. Len(log) : log[k] \in Frames
      BY DEF IInv, TypeOK
    <2> QED
      BY <2>1 DEF Frames, Times
  <1>4. now <= event_time[e] + AfterSec + 1 + Late
    BY DEF IInv, StreamInv, OnTime
  <1>5. SUFFICES ASSUME m <= Gone PROVE FALSE
    BY <1>1, <1>2 DEF Gone, IInv, TypeOK
  <1>6. Len(log) >= m + MaxFrames
    BY <1>1, <1>2, <1>5 DEF IInv, StreamInv, RingHoldsLog, Gone
  <1>7. Len(log) \in 1 .. Len(log) /\ n \in 1 .. Len(log)
    BY <1>1, <1>2
  <1>8. PICK t \in Nat : t = log[Len(log)].ts
    BY <1>3, <1>7
  <1>9. PICK u \in Nat : u = log[n].ts
    BY <1>3, <1>7
  <1>10. t <= now
    BY <1>7, <1>8 DEF IInv, StreamInv, LogInOrder
  <1>11. Len(log) - n < Fps * (t - u + 1)
    BY <1>7, <1>8, <1>9 DEF IInv, StreamInv, RateHeld
  <1>12. t - u + 1 <= BeforeSec + AfterSec + Late + 2
    <2>1. PICK v \in Nat : v = event_time[e]
      BY <1>1
    <2>2. t <= v + AfterSec + 1 + Late /\ v - BeforeSec <= u
      BY <1>1, <1>2, <1>4, <1>9, <1>10, <2>1
    <2> QED
      BY <1>1, <2>2
  <1>13. PICK a \in Int : a = Fps * (t - u + 1)
    BY <1>1
  <1>14. PICK b \in Int : b = Fps * (BeforeSec + AfterSec + Late + 2)
    BY <1>1
  <1>15. a <= b
    BY <1>1, <1>12, <1>13, <1>14, TimesMonotonic
  <1>16. b + MaxBack <= MaxFrames
    BY <1>1, <1>14, SizeAssumption
  <1>17. Len(log) - n < a
    BY <1>11, <1>13
  <1> QED
    BY <1>1, <1>6, <1>7, <1>15, <1>16, <1>17

(* What every position of the ring holds.                                   *)
LEMMA RingEntry ==
  ASSUME IInv, NEW i \in Indices
  PROVE  /\ Gone + i + 1 \in 1 .. Len(log)
         /\ At(i) = log[Gone + i + 1]
         /\ At(i) \in Frames
         /\ At(i).index = Gone + i
         /\ Gone + i \in Nat
  <1>1. Len(log) \in Nat /\ frame_count \in Nat /\ frame_count <= Len(log) /\ i \in 0 .. frame_count - 1
    BY RingAssumption DEF IInv, TypeOK, StreamInv, RingHoldsLog, Indices
  <1>2. PICK g \in Nat : g = Gone
    BY GoneType
  <1>3. g + frame_count = Len(log)
    BY <1>2, GoneType
  <1>4. g + i + 1 \in 1 .. Len(log) /\ g + i \in Nat /\ g + i = (g + i + 1) - 1
    BY <1>1, <1>3
  <1>5. At(i) = log[g + i + 1]
    BY <1>2 DEF IInv, StreamInv, RingHoldsLog
  <1>6. log[g + i + 1] \in Frames
    BY <1>4 DEF IInv, TypeOK
  <1>7. log[g + i + 1].index = g + i
    BY <1>4 DEF IInv, StreamInv, LogInOrder
  <1> QED
    BY <1>2, <1>4, <1>5, <1>6, <1>7

(* The scan of extract_event_clip reaches every wanted frame.               *)
LEMMA ScanReaches ==
  ASSUME IInv, NEW e \in Events, worker[e] = "asleep", NEW n \in Wanted(e)
  PROVE  /\ n - Gone - 1 \in InTime(e)
         /\ n - Gone - 1 <= EndIdx(e)
         /\ At(n - Gone - 1) = log[n]
  <1>1. /\ n \in 1 .. Len(log) /\ Len(log) \in Nat
        /\ log[n].ts >= event_time[e] - BeforeSec
        /\ log[n].ts <= event_time[e] + AfterSec
    BY DEF Wanted, IInv, TypeOK
  <1>2. n > Gone
    BY <1>1, StillThere, RingAssumption
  <1>3. PICK g \in Nat : g = Gone /\ g + frame_count = Len(log) /\ frame_count \in Nat
    BY GoneType
  <1>4. PICK i \in Int : i = n - Gone - 1 /\ n = g + i + 1
    BY <1>1, <1>3
  <1>5. i \in Indices
    BY <1>1, <1>2, <1>3, <1>4 DEF Indices
  <1>6. At(i) = log[n]
    BY <1>3, <1>4, <1>5, RingEntry
  <1>7. i < Stop(e)
    <2>1. CASE Past(e) = {}
      BY <2>1, <1>3, <1>5 DEF Stop, Indices
    <2>2. CASE Past(e) # {}
      <3>1. Past(e) \subseteq Nat
        BY <1>3 DEF Past, Indices
      <3>2. PICK j \in Past(e) : j = Stop(e)
        BY <2>2, <3>1, MinOfNats DEF Stop
      <3>3. j \in Indices /\ At(j).ts > event_time[e] + AfterSec
        BY DEF Past
      <3>4. At(j) = log[g + j + 1] /\ g + j + 1 \in 1 .. Len(log)
        BY <3>3, <1>3, RingEntry
      <3>5. SUFFICES ASSUME j <= i PROVE FALSE
        BY <3>2, <3>3, <1>5, <1>3 DEF Indices
      <3>6. g + j + 1 \in 1 .. n
        BY <3>3, <3>5, <1>3, <1>4, <1>5 DEF Indices
      <3>7. log[g + j + 1].ts <= log[n].ts
        BY <3>6, <1>1 DEF IInv, StreamInv, LogInOrder
      <3>8. log[g + j + 1].ts \in Nat /\ log[n].ts \in Nat /\ event_time[e] + AfterSec \in Nat
        <4>1. log[g + j + 1] \in Frames /\ log[n] \in Frames
          BY <3>4, <1>1 DEF IInv, TypeOK
        <4>2. event_time[e] \in Times
          BY DEF IInv, TypeOK
        <4> QED
          BY <4>1, <4>2, RingAssumption DEF Frames, Times
      <3> QED
        BY <3>3, <3>4, <3>7, <3>8, <1>1
    <2> QED
      BY <2>1, <2>2
  <1>8. Stop(e) \in Nat
    <2>1. CASE Past(e) = {}
      BY <2>1, <1>3 DEF Stop
    <2>2. CASE Past(e) # {}
      <3>1. Past(e) \subseteq Nat
        BY <1>3 DEF Past, Indices
      <3> QED
        BY <2>2, <3>1, MinOfNats DEF Stop
    <2> QED
      BY <2>1, <2>2
  <1>9. i <= EndIdx(e) /\ i <= Stop(e)
    BY <1>3, <1>5, <1>7, <1>8 DEF EndIdx, Indices
  <1>10. i \in InTime(e)
    BY <1>1, <1>5, <1>6, <1>9 DEF InTime
  <1> QED
    BY <1>4, <1>6, <1>9, <1>10

(* The first frame in time, and the place the clip starts.                  *)
LEMMA StartPlace ==
  ASSUME IInv, NEW e \in Events, InTime(e) # {}
  PROVE  /\ Min(InTime(e)) \in InTime(e)
         /\ \A i \in InTime(e) : Min(InTime(e)) <= i
         /\ StartIdx(e) \in Indices
         /\ StartIdx(e) <= Min(InTime(e))
         /\ KeysBack(Min(InTime(e))) # {} => At(StartIdx(e)).key
         /\ EndIdx(e) \in Int /\ EndIdx(e) <= frame_count - 1
  <1>1. frame_count \in Nat
    BY RingAssumption DEF IInv, TypeOK
  <1>2. InTime(e) \subseteq Nat /\ InTime(e) \subseteq Indices
    BY <1>1 DEF InTime, Indices
  <1>3. Min(InTime(e)) \in InTime(e) /\ \A i \in InTime(e) : Min(InTime(e)) <= i
    BY <1>2, MinOfNats
  <1>4. PICK i \in Indices : i = Min(InTime(e))
    BY <1>2, <1>3
  <1>5. /\ StartIdx(e) \in Indices /\ StartIdx(e) <= i
        /\ KeysBack(i) # {} => At(StartIdx(e)).key
    <2>1. CASE KeysBack(i) = {}
      BY <2>1, <1>1, <1>4 DEF StartIdx, Indices
    <2>2. CASE KeysBack(i) # {}
      <3>1. KeysBack(i) \subseteq 0 .. frame_count
        BY <1>1 DEF KeysBack, Indices
      <3>2. Max(KeysBack(i)) \in KeysBack(i)
        BY <2>2, <3>1, <1>1, MaxOfRange
      <3>3. StartIdx(e) = Max(KeysBack(i))
        BY <2>2, <1>4 DEF StartIdx
      <3> QED
        BY <3>2, <3>3 DEF KeysBack
    <2> QED
      BY <2>1, <2>2
  <1>6. Stop(e) \in 0 .. frame_count
    <2>1. CASE Past(e) = {}
      BY <2>1, <1>1 DEF Stop
    <2>2. CASE Past(e) # {}
      <3>1. Past(e) \subseteq Nat /\ Past(e) \subseteq 0 .. frame_count
        BY <1>1 DEF Past, Indices
      <3> QED
        BY <2>2, <3>1, MinOfNats DEF Stop
    <2> QED
      BY <2>1, <2>2
  <1> QED
    BY <1>1, <1>3, <1>4, <1>5, <1>6 DEF EndIdx

(* The clip that extract_event_clip cuts, frame by frame.                   *)
LEMMA ClipEntries ==
  ASSUME IInv, NEW e \in Events, Found(e)
  PROVE  \E k \in Nat \ {0} : \E s \in Indices : \E t \in Int :
           /\ s = StartIdx(e) /\ t = EndIdx(e) /\ k = t - s + 1
           /\ \A p \in 1 .. k : /\ At(s + p - 1).index = Gone + s + (p - 1)
                                /\ Gone + s + (p - 1) \in 0 .. Len(log) - 1
  <1>0. PICK c \in Nat : c = frame_count
    BY GoneType
  <1>1. PICK s \in Indices : s = StartIdx(e)
    BY StartPlace DEF Found
  <1>2. PICK t \in Int : t = EndIdx(e) /\ t <= c - 1 /\ s <= t
    BY <1>0, <1>1, StartPlace DEF Found
  <1>3. s \in Nat /\ s <= c - 1
    BY <1>0, <1>1 DEF Indices
  <1>4. PICK g \in Nat : g = Gone /\ g + c = Len(log)
    BY <1>0, GoneType
  <1> DEFINE len == t - s + 1
  <1>5. len \in Nat \ {0}
    BY <1>2, <1>3
  <1>6. PICK k \in Nat \ {0} : k = len
    BY <1>5
  <1>7. ASSUME NEW p \in 1 .. k
        PROVE  /\ At(s + p - 1).index = g + s + (p - 1)
               /\ g + s + (p - 1) \in 0 .. Len(log) - 1
    <2> DEFINE j == s + p - 1
    <2>1. j \in Int /\ 0 <= j /\ j <= c - 1
      BY <1>2, <1>3, <1>6
    <2>2. PICK i \in Indices : i = j
      BY <1>0, <2>1 DEF Indices
    <2>3. At(i).index = g + i /\ i \in 0 .. c - 1
      BY <1>0, <1>4, RingEntry DEF Indices
    <2>4. i = s + (p - 1) /\ i \in Int
      BY <1>3, <2>1, <2>2
    <2>5. g + i = g + s + (p - 1)
      BY <1>3, <1>4, <2>4
    <2>6. g + i \in 0 .. g + c - 1
      BY <1>0, <1>4, <2>3
    <2> QED
      BY <1>4, <2>2, <2>3, <2>5, <2>6
  <1> QED
    BY <1>1, <1>2, <1>4, <1>6, <1>7

LEMMA PlaceInClip ==
  ASSUME NEW g \in Nat, NEW s \in Nat, NEW i \in Nat, NEW t \in Int, s <= i, i <= t
  PROVE  \E r \in 1 .. t - s + 1 : g + s + (r - 1) = (g + i + 1) - 1
  <1> DEFINE r == i - s + 1
  <1>1. r \in 1 .. t - s + 1 /\ r - 1 = i - s
    OBVIOUS
  <1>2. g + s + (i - s) = (g + i + 1) - 1
    OBVIOUS
  <1> QED
    BY <1>1, <1>2

(* What ClipCoversEvent and ClipDecodable ask of one clip q of event e.     *)
GoodClip(e, q) ==
  /\ \A n \in Wanted(e) : \E p \in 1 .. Len(q) : q[p] = log[n].index
  /\ \A p \in 1 .. Len(q) - 1 : q[p + 1] = q[p] + 1
  /\ \A first \in Wanted(e) :
       first = Min(Wanted(e)) /\ (\E n \in 1 .. first : first - MaxBack <= n /\ log[n].key)
         => q # <<>> /\ log[q[1] + 1].key

(* A clip of these frames has everything that is wanted, and starts well.   *)
LEMMA ClipIsGood ==
  ASSUME IInv, NEW e \in Events, worker[e] = "asleep",
         NEW q \in Seq(Nat), NEW k \in Nat \ {0}, NEW s \in Indices,
         NEW t \in Int, NEW g \in Nat,
         s = StartIdx(e), t = EndIdx(e), k = t - s + 1, g = Gone,
         Len(q) = k, \A p \in 1 .. k : q[p] = g + s + (p - 1)
  PROVE  GoodClip(e, q)
  <1>1. PICK c \in Nat : c = frame_count /\ g + c = Len(log)
    BY GoneType
  <1>2. s \in 0 .. c - 1 /\ Indices = 0 .. c - 1
    BY <1>1 DEF Indices
  <1>3. Wanted(e) \subseteq 1 .. g + c
    BY <1>1 DEF Wanted
  <1>4. ASSUME NEW n \in Wanted(e)
        PROVE  \E i \in InTime(e) : i = n - g - 1 /\ i <= t /\ At(i) = log[n]
    BY ScanReaches
  <1>5. /\ InTime(e) \subseteq 0 .. c - 1
        /\ InTime(e) # {} =>
             /\ Min(InTime(e)) \in InTime(e)
             /\ \A i \in InTime(e) : Min(InTime(e)) <= i
             /\ s <= Min(InTime(e))
             /\ KeysBack(Min(InTime(e))) # {} => At(s).key
    BY <1>2, StartPlace DEF InTime
  <1>6. ASSUME NEW n \in Wanted(e)
        PROVE  \E p \in 1 .. k : q[p] = log[n].index
    <2>1. n \in 1 .. g + c
      BY <1>3
    <2>2. PICK i \in InTime(e) : i = n - g - 1 /\ i <= t
      BY <1>4
    <2>3. i \in 0 .. c - 1 /\ n = g + i + 1
      BY <1>1, <1>5, <2>1, <2>2
    <2>4. PICK m \in 0 .. c - 1 : m = Min(InTime(e)) /\ s <= m /\ m <= i
      BY <1>5, <2>2
    <2>5. /\ i \in Nat /\ s \in Nat /\ n \in Nat /\ k \in Nat
          /\ s <= i /\ i <= t /\ k = t - s + 1
      <3>1. s <= i
        BY <1>2, <2>3, <2>4
      <3> QED
        BY <1>2, <2>1, <2>2, <2>3, <3>1
    <2>6. PICK r \in 1 .. k : g + s + (r - 1) = n - 1
      <3>0. g \in Nat /\ t \in Int /\ s \in Nat /\ i \in Nat /\ s <= i /\ i <= t
        BY <2>5
      <3>1. \E r \in 1 .. t - s + 1 : g + s + (r - 1) = (g + i + 1) - 1
        BY ONLY <3>0, PlaceInClip
      <3> QED
        BY <3>1, <2>3, <2>5
    <2>7. q[r] = g + s + (r - 1)
      OBVIOUS
    <2>9. log[n].index = n - 1
      BY <1>1, <2>1 DEF IInv, StreamInv, LogInOrder
    <2> QED
      BY <2>6, <2>7, <2>9
  <1>7. ASSUME NEW p \in 1 .. k - 1 PROVE q[p + 1] = q[p] + 1
    <2>1. p \in 1 .. k /\ p + 1 \in 1 .. k /\ p \in Nat
      OBVIOUS
    <2>2. q[p] = g + s + (p - 1)
      BY <2>1
    <2>3. q[p + 1] = g + s + ((p + 1) - 1)
      BY <2>1
    <2> QED
      BY <1>2, <2>1, <2>2, <2>3
  <1>8. ASSUME NEW first \in Wanted(e), first = Min(Wanted(e)),
               \E n \in 1 .. first : first - MaxBack <= n /\ log[n].key
        PROVE  q # <<>> /\ log[q[1] + 1].key
    <2>0. /\ c \in Nat /\ g \in Nat /\ MaxBack \in Nat
          /\ event_time[e] + AfterSec \in Nat
      BY RingAssumption DEF IInv, TypeOK, Times
    <2>1. first \in Wanted(e) /\ \A n \in Wanted(e) : first <= n
      <3>1. Wanted(e) \subseteq Nat
        BY <1>3
      <3> QED
        BY <3>1, <1>8, MinOfNats
    <2>2. /\ first \in 1 .. g + c /\ first \in 1 .. Len(log)
          /\ log[first].ts <= event_time[e] + AfterSec
      BY <1>1, <1>3, <2>1 DEF Wanted
    <2>3. PICK fi \in InTime(e) : fi = first - g - 1
      BY <1>4, <2>1
    <2>4. fi \in 0 .. c - 1 /\ first = g + fi + 1
      BY <1>1, <1>5, <2>2, <2>3
    <2>5. PICK i \in 0 .. c - 1 : i = Min(InTime(e)) /\ i \in InTime(e) /\ i <= fi
      BY <1>5, <2>3
    <2>6. i = fi
      <3>1. SUFFICES ASSUME i < fi PROVE FALSE
        BY <2>4, <2>5
      <3> DEFINE n == g + i + 1
      <3>2. n \in Nat /\ n < first /\ n >= 1
        BY <2>4, <2>5, <3>1
      <3>3. n \in 1 .. Len(log) /\ At(i) = log[n]
        BY <1>2, <2>5, RingEntry
      <3>4. log[n].ts >= event_time[e] - BeforeSec
        BY <2>5, <3>3 DEF InTime
      <3>5. log[n].ts <= log[first].ts
        <4>1. n \in 1 .. first
          BY <2>2, <3>2
        <4> QED
          BY <2>2, <4>1 DEF IInv, StreamInv, LogInOrder
      <3>6. log[n].ts \in Nat /\ log[first].ts \in Nat
        <4>1. log[n] \in Frames /\ log[first] \in Frames
          BY <2>2, <3>3 DEF IInv, TypeOK
        <4> QED
          BY <4>1 DEF Frames, Times
      <3> HIDE DEF n
      <3>7. log[n].ts <= event_time[e] + AfterSec
        <4> DEFINE early == log[n].ts
                   late == log[first].ts
        <4>1. /\ early \in Nat /\ late \in Nat /\ early <= late
              /\ late <= event_time[e] + AfterSec
          BY <2>2, <3>5, <3>6
        <4> HIDE DEF early, late
        <4>2. early <= event_time[e] + AfterSec
          BY <2>0, <4>1
        <4> QED
          BY <4>2 DEF early
      <3>8. n \in Wanted(e)
        BY <3>3, <3>4, <3>7 DEF Wanted
      <3>9. first <= n
        BY <2>1, <3>8
      <3> QED
        BY <2>2, <3>2, <3>9
    <2>7. PICK n \in 1 .. first : first - MaxBack <= n /\ log[n].key
      BY <1>8
    <2>8. first - n <= MaxBack /\ n \in 1 .. g + c /\ n \in 1 .. Len(log)
      BY <1>1, <2>0, <2>2, <2>7
    <2>9. n > g
      BY <2>1, <2>8, StillThere
    <2> DEFINE h == n - g - 1
    <2>10. h \in 0 .. c - 1 /\ n = g + h + 1
      BY <2>8, <2>9
    <2>11. PICK j \in 0 .. c - 1 : j = h /\ n = g + j + 1
      BY <2>10
    <2>12. j <= i /\ i - MaxBack <= j
      BY <2>0, <2>4, <2>5, <2>6, <2>7, <2>11
    <2>13. At(j).key
      <3>1. At(j) = log[g + j + 1]
        BY <1>2, <2>11, RingEntry
      <3> QED
        BY <3>1, <2>7, <2>11
    <2>14. KeysBack(i) # {}
      BY <1>2, <2>11, <2>12, <2>13 DEF KeysBack
    <2>15. At(s).key
      BY <1>5, <2>5, <2>14
    <2>16. At(s) = log[g + s + 1]
      BY RingEntry
    <2>17. 1 \in 1 .. k
      OBVIOUS
    <2>18. q[1] = g + s + (1 - 1) /\ q # <<>>
      BY <2>17
    <2>19. q[1] + 1 = g + s + 1
      BY <1>2, <2>18
    <2> QED
      BY <2>15, <2>16, <2>18, <2>19
  <1> QED
    BY <1>6, <1>7, <1>8 DEF GoodClip

(* Steps that leave the ring and the stream alone.                          *)
LEMMA StreamKept ==
  ASSUME IInv, UNCHANGED ring, UNCHANGED log, now' >= now, now' \in Times
  PROVE  RingHoldsLog' /\ LogInOrder' /\ RateHeld'
  <1>1. UNCHANGED <<frames, write_pos, frame_count, total_frames_written, total_bytes, log>>
    BY DEF ring
  <1>2. RingHoldsLog'
    BY <1>1 DEF IInv, StreamInv, RingHoldsLog, Indices, Gone, At, BufferStart
  <1>3. RateHeld'
    BY <1>1 DEF IInv, StreamInv, RateHeld
  <1>4. LogInOrder'
    <2> SUFFICES ASSUME NEW n \in 1 .. Len(log)
                 PROVE  /\ log[n].index = n - 1
                        /\ log[n].ts <= now'
                        /\ \A m \in 1 .. n : log[m].ts <= log[n].ts
      BY <1>1 DEF LogInOrder
    <2>1. /\ log[n].index = n - 1 /\ log[n].ts <= now
          /\ \A m \in 1 .. n : log[m].ts <= log[n].ts
      BY DEF IInv, StreamInv, LogInOrder
    <2>2. log[n] \in Frames
      BY DEF IInv, TypeOK
    <2>3. log[n].ts \in Nat /\ now \in Nat /\ now' \in Nat
      BY <2>2 DEF Frames, Times, IInv, TypeOK
    <2> QED
      BY <2>1, <2>3
  <1> QED
    BY <1>2, <1>3, <1>4

LEMMA ClipsKept ==
  ASSUME IInv, UNCHANGED log,
         \A e \in Events : Cut(e)' => /\ Cut(e)
                                      /\ clip'[e] = clip[e]
                                      /\ event_time'[e] = event_time[e]
  PROVE  ClipInLog' /\ ClipCoversEvent' /\ ClipDecodable'
  <1>1. \A e \in Events : Cut(e)' => Wanted(e)' = Wanted(e)
    BY DEF Wanted
  <1>2. ClipInLog'
    BY DEF IInv, ClipInLog
  <1>3. ClipCoversEvent'
    BY <1>1 DEF IInv, ClipCoversEvent
  <1>4. ClipDecodable'
    BY <1>1 DEF IInv, ClipDecodable
  <1> QED
    BY <1>2, <1>3, <1>4

(* What cutting a clip leaves alone, and the phase it leads to.             *)
LEMMA ExtractFrame ==
  ASSUME IInv, NEW e \in Events, extract_event_clip(e)
  PROVE  /\ worker[e] = "asleep" /\ now >= Due(e)
         /\ UNCHANGED <<ring, log, now, event_time, video_url, posted>>
         /\ worker' \in [Events -> Phases]
         /\ Cut(e)' /\ ~ Cut(e) /\ clip[e] = <<>> /\ worker'[e] # "asleep"
         /\ \A f \in Events : f # e => worker'[f] = worker[f] /\ clip'[f] = clip[f]
  <1>1. /\ worker[e] = "asleep" /\ now >= Due(e)
        /\ UNCHANGED <<ring, log, now, event_time, video_url, posted>>
    BY DEF extract_event_clip
  <1>2. PICK w \in {"saving", "empty"} : worker' = [worker EXCEPT ![e] = w]
    BY DEF extract_event_clip
  <1>3. worker \in [Events -> Phases] /\ clip \in [Events -> Seq(Nat)]
    BY DEF IInv, TypeOK
  <1>4. /\ worker' \in [Events -> Phases] /\ worker'[e] = w
        /\ \A f \in Events : f # e => worker'[f] = worker[f]
    BY <1>2, <1>3 DEF Phases
  <1>5. Cut(e)' /\ ~ Cut(e) /\ worker'[e] # "asleep"
    BY <1>1, <1>4 DEF Cut
  <1>6. clip[e] = <<>>
    BY <1>5 DEF IInv, NotCutYet
  <1>7. \A f \in Events : f # e => clip'[f] = clip[f]
    BY <1>3 DEF extract_event_clip
  <1> QED
    BY <1>1, <1>4, <1>5, <1>6, <1>7

(* The frames it finds are the ones ClipIsGood is about.                    *)
LEMMA ExtractClip ==
  ASSUME IInv, NEW e \in Events, extract_event_clip(e)
  PROVE  /\ clip'[e] \in Seq(Nat)
         /\ \A p \in 1 .. Len(clip'[e]) : clip'[e][p] \in 0 .. Len(log) - 1
         /\ GoodClip(e, clip'[e])
  <1>1. worker[e] = "asleep" /\ clip[e] = <<>>
    BY ExtractFrame
  <1>2. clip \in [Events -> Seq(Nat)]
    BY DEF IInv, TypeOK
  <1>3. CASE Found(e)
    <2>1. PICK k \in Nat \ {0}, s \in Indices, t \in Int :
             /\ s = StartIdx(e) /\ t = EndIdx(e) /\ k = t - s + 1
             /\ \A p \in 1 .. k : /\ At(s + p - 1).index = Gone + s + (p - 1)
                                  /\ Gone + s + (p - 1) \in 0 .. Len(log) - 1
      BY <1>3, ClipEntries
    <2>2. PICK g \in Nat : g = Gone
      BY GoneType
    <2> DEFINE cut == [p \in 1 .. k |-> At(s + p - 1).index]
    <2>3. clip' = [clip EXCEPT ![e] = cut]
      BY <1>3, <2>1 DEF extract_event_clip
    <2>4. \A p \in 1 .. k : /\ cut[p] = g + s + (p - 1)
                            /\ cut[p] \in 0 .. Len(log) - 1
      BY <2>1, <2>2
    <2>5. cut \in [1 .. k -> Nat]
      <3>1. \A p \in 1 .. k : cut[p] \in Nat
        BY <2>4, GoneType
      <3> QED
        BY <3>1
    <2> HIDE DEF cut
    <2>6. cut \in Seq(Nat) /\ Len(cut) = k
      BY <2>5
    <2>7. clip'[e] = cut
      BY <1>2, <2>3
    <2>8. PICK q \in Seq(Nat) : q = cut
      BY <2>6
    <2>9. Len(q) = k /\ \A p \in 1 .. k : q[p] = g + s + (p - 1)
      BY <2>4, <2>6, <2>8
    <2>10. /\ s = StartIdx(e) /\ t = EndIdx(e) /\ k = t - s + 1 /\ g = Gone
           /\ s \in Indices /\ t \in Int /\ k \in Nat \ {0} /\ g \in Nat /\ q \in Seq(Nat)
      BY <2>1, <2>2
    <2>11. GoodClip(e, q)
      BY ONLY IInv, e \in Events, <1>1, <2>9, <2>10, ClipIsGood
    <2> QED
      BY <2>4, <2>6, <2>7, <2>8, <2>9, <2>11
  <1>4. CASE ~ Found(e)
    <2>1. clip'[e] = <<>>
      BY <1>1, <1>4 DEF extract_event_clip
    <2>2. Wanted(e) = {}
      <3> SUFFICES ASSUME NEW n \in Wanted(e) PROVE FALSE
        OBVIOUS
      <3> DEFINE i == n - Gone - 1
      <3>1. i \in InTime(e) /\ i <= EndIdx(e)
        BY <1>1, ScanReaches
      <3> HIDE DEF i
      <3>2. PICK c \in Nat : c = frame_count
        BY GoneType
      <3>3. InTime(e) \subseteq 0 .. c - 1 /\ Indices = 0 .. c - 1
        BY <3>2 DEF InTime, Indices
      <3>4. PICK m \in 0 .. c - 1 : m = Min(InTime(e)) /\ m <= i
        BY <3>1, <3>3, StartPlace
      <3>5. PICK s \in 0 .. c - 1 : s = StartIdx(e) /\ s <= m
        BY <3>1, <3>3, <3>4, StartPlace
      <3>6. PICK t \in Int : t = EndIdx(e) /\ i <= t
        BY <3>1, StartPlace
      <3>7. i \in 0 .. c - 1 /\ s <= t /\ c > 0
        BY <3>1, <3>2, <3>3, <3>4, <3>5, <3>6
      <3> QED
        BY <1>4, <3>1, <3>2, <3>5, <3>6, <3>7 DEF Found
    <2>3. GoodClip(e, <<>>)
      BY <2>2 DEF GoodClip
    <2> QED
      BY <2>1, <2>3
  <1> QED
    BY <1>3, <1>4

LEMMA ExtractStep ==
  ASSUME IInv, NEW e \in Events, extract_event_clip(e)
  PROVE  IInv'
  <1>1. /\ now >= Due(e) /\ worker[e] = "asleep"
        /\ UNCHANGED <<ring, log, now, event_time, video_url, posted>>
        /\ worker' \in [Events -> Phases]
        /\ Cut(e)' /\ worker'[e] # "asleep"
        /\ \A f \in Events : f # e => worker'[f] = worker[f] /\ clip'[f] = clip[f]
    BY ExtractFrame
  <1>2. UNCHANGED <<frames, write_pos, frame_count, total_frames_written, total_bytes>>
    BY <1>1 DEF ring
  <1>3. TypeOK
    BY DEF IInv
  <1>4. \A f \in Events : f # e => Cut(f)' = Cut(f)
    BY <1>1 DEF Cut
  <1>5. TypeOK'
    <2>1. clip' \in [Events -> Seq(Nat)]
      <3>1. \E q \in Seq(Nat) : clip' = [clip EXCEPT ![e] = q]
        <4>1. clip'[e] \in Seq(Nat)
          BY ExtractClip
        <4>2. \E x : clip' = [clip EXCEPT ![e] = x]
          <5>1. CASE Found(e)
            BY <5>1 DEF extract_event_clip
          <5>2. CASE ~ Found(e)
            <6>1. clip' = [clip EXCEPT ![e] = clip[e]]
              BY <5>2, <1>3 DEF extract_event_clip, TypeOK
            <6> QED
              BY <6>1
          <5> QED
            BY <5>1, <5>2
        <4> QED
          BY <4>1, <4>2, <1>3 DEF TypeOK
      <3> QED
        BY <3>1, <1>3 DEF TypeOK
    <2> QED
      BY <1>1, <1>2, <1>3, <2>1 DEF TypeOK
  <1>6. OnTime'
    <2>1. event_time[e] \in Nat /\ now \in Nat
      BY RingAssumption, <1>3 DEF TypeOK, Times
    <2>2. event_time[e] + AfterSec < now
      BY <1>1, <2>1, RingAssumption DEF Due
    <2> QED
      BY <1>1, <1>4, <2>2 DEF IInv, StreamInv, OnTime
  <1>7. StreamInv'
    <2>1. now' >= now /\ now' \in Times
      BY <1>1, <1>3 DEF TypeOK, Times
    <2> QED
      BY <1>1, <1>6, <2>1, StreamKept DEF StreamInv
  <1>8. \A f \in Events : Wanted(f)' = Wanted(f)
    BY <1>1 DEF Wanted
  <1>9. NotCutYet'
    BY <1>1, <1>4 DEF IInv, NotCutYet
  <1>10. ClipInLog'
    <2> SUFFICES ASSUME NEW f \in Events, Cut(f)', NEW p \in 1 .. Len(clip'[f])
                 PROVE  clip'[f][p] \in 0 .. Len(log) - 1
      BY <1>1 DEF ClipInLog
    <2>1. CASE f = e
      BY <2>1, ExtractClip
    <2>2. CASE f # e
      BY <2>2, <1>1, <1>4 DEF IInv, ClipInLog
    <2> QED
      BY <2>1, <2>2
  <1>11. ClipCoversEvent'
    <2> SUFFICES ASSUME NEW f \in Events, Cut(f)', NEW n \in Wanted(f)
                 PROVE  \E p \in 1 .. Len(clip'[f]) : clip'[f][p] = log[n].index
      BY <1>1, <1>8 DEF ClipCoversEvent
    <2>1. CASE f = e
      BY <2>1, ExtractClip DEF GoodClip
    <2>2. CASE f # e
      BY <2>2, <1>1, <1>4 DEF IInv, ClipCoversEvent
    <2> QED
      BY <2>1, <2>2
  <1>12. ClipDecodable'
    <2> SUFFICES ASSUME NEW f \in Events, Cut(f)', Wanted(f) # {},
                        NEW first, first = Min(Wanted(f))
                 PROVE  /\ \A p \in 1 .. Len(clip'[f]) - 1 : clip'[f][p + 1] = clip'[f][p] + 1
                        /\ (\E n \in 1 .. first : first - MaxBack <= n /\ log[n].key)
                             => clip'[f] # <<>> /\ log[clip'[f][1] + 1].key
      BY <1>1, <1>8 DEF ClipDecodable
    <2>1. CASE f = e
      <3>1. Wanted(e) \subseteq Nat
        BY GoneType DEF Wanted
      <3>2. first \in Wanted(e)
        BY <2>1, <3>1, MinOfNats
      <3> QED
        BY <2>1, <3>2, ExtractClip DEF GoodClip
    <2>2. CASE f # e
      BY <2>2, <1>1, <1>4 DEF IInv, ClipDecodable
    <2> QED
      BY <2>1, <2>2
  <1> QED
    BY <1>5, <1>7, <1>9, <1>10, <1>11, <1>12 DEF IInv
-----------------------------------------------------------------------------
(* The other steps                                                          *)

LEMMA DetectedStep ==
  ASSUME IInv, NEW e \in Events, on_event_detected(e)
  PROVE  IInv'
  <1>1. /\ worker[e] = "none"
        /\ worker' = [worker EXCEPT ![e] = "asleep"]
        /\ event_time' = [event_time EXCEPT ![e] = now]
        /\ UNCHANGED <<ring, log, now, clip, video_url, posted>>
    BY DEF on_event_detected
  <1>2. UNCHANGED <<frames, write_pos, frame_count, total_frames_written, total_bytes>>
    BY <1>1 DEF ring
  <1>3. TypeOK
    BY DEF IInv
  <1>4. TypeOK'
    BY <1>1, <1>2, <1>3 DEF TypeOK, Phases
  <1>5. /\ ~ Cut(e)' /\ ~ Cut(e)
        /\ \A f \in Events : f # e => worker'[f] = worker[f] /\ event_time'[f] = event_time[f]
    BY <1>1, <1>3 DEF TypeOK, Cut
  <1>6. \A f \in Events : Cut(f)' => /\ Cut(f) /\ clip'[f] = clip[f]
                                     /\ event_time'[f] = event_time[f]
    BY <1>1, <1>5 DEF Cut
  <1>7. \A f \in Events : ~ Cut(f)' => ~ Cut(f)
    BY <1>5 DEF Cut
  <1>8. OnTime'
    <2> SUFFICES ASSUME NEW f \in Events
                 PROVE  /\ worker'[f] = "asleep" => now <= event_time'[f] + AfterSec + 1 + Late
                        /\ Cut(f)' => event_time'[f] + AfterSec < now
      BY <1>1 DEF OnTime
    <2>1. CASE f = e
      <3>1. event_time'[e] = now /\ now \in Nat
        BY <1>1, <1>3 DEF TypeOK, Times
      <3> QED
        BY <2>1, <3>1, <1>5, RingAssumption
    <2>2. CASE f # e
      BY <2>2, <1>5, <1>6 DEF IInv, StreamInv, OnTime
    <2> QED
      BY <2>1, <2>2
  <1>9. RingHoldsLog' /\ LogInOrder' /\ RateHeld'
    <2>1. now' >= now /\ now' \in Times
      BY <1>1, <1>3 DEF TypeOK, Times
    <2> QED
      BY <1>1, <2>1, StreamKept
  <1>10. NotCutYet'
    BY <1>1, <1>7 DEF IInv, NotCutYet
  <1>11. ClipInLog' /\ ClipCoversEvent' /\ ClipDecodable'
    BY <1>1, <1>6, ClipsKept
  <1> QED
    BY <1>4, <1>8, <1>9, <1>10, <1>11 DEF IInv, StreamInv

(* The steps that only send the clip that has been cut out.                 *)
LEMMA SendingStep ==
  ASSUME IInv, NEW e \in Events,
         save_mp4_clip(e) \/ attach_url(e) \/ clear_url(e)
  PROVE  IInv'
  <1>1. /\ UNCHANGED <<ring, log, now, clip, event_time>>
        /\ worker[e] \in {"saving", "attach", "sending"}
        /\ worker' = [worker EXCEPT ![e] = worker'[e]]
        /\ worker'[e] \in {"attach", "failed", "sending", "sent", "unsent"}
        /\ video_url' \in Times \cup {NoUrl}
        /\ posted' \in [Events -> Times \cup {NoUrl}]
    <2>1. CASE save_mp4_clip(e)
      BY <2>1 DEF save_mp4_clip, on_event_save_complete, IInv, TypeOK
    <2>2. CASE attach_url(e)
      BY <2>2 DEF attach_url, IInv, TypeOK
    <2>3. CASE clear_url(e)
      BY <2>3 DEF clear_url, IInv, TypeOK
    <2> QED
      BY <2>1, <2>2, <2>3
  <1>2. UNCHANGED <<frames, write_pos, frame_count, total_frames_written, total_bytes>>
    BY <1>1 DEF ring
  <1>3. TypeOK
    BY DEF IInv
  <1>4. TypeOK'
    BY <1>1, <1>2, <1>3 DEF TypeOK, Phases
  <1>5. /\ \A f \in Events : worker'[f] = "asleep" => worker[f] = "asleep"
        /\ \A f \in Events : Cut(f)' = Cut(f)
    BY <1>1, <1>3 DEF TypeOK, Cut
  <1>6. OnTime'
    BY <1>1, <1>5 DEF IInv, StreamInv, OnTime
  <1>7. RingHoldsLog' /\ LogInOrder' /\ RateHeld'
    <2>1. now' >= now /\ now' \in Times
      BY <1>1, <1>3 DEF TypeOK, Times
    <2> QED
      BY <1>1, <2>1, StreamKept
  <1>8. NotCutYet'
    BY <1>1, <1>5 DEF IInv, NotCutYet
  <1>9. ClipInLog' /\ ClipCoversEvent' /\ ClipDecodable'
    BY <1>1, <1>5, ClipsKept
  <1> QED
    BY <1>4, <1>6, <1>7, <1>8, <1>9 DEF IInv, StreamInv

LEMMA TickStep ==
  ASSUME IInv, Tick
  PROVE  IInv'
  <1>1. /\ UNCHANGED <<ring, log, worker, event_time, clip, video_url, posted>>
        /\ now' = now + 1 /\ now < MaxTime
        /\ \A e \in Events : worker[e] = "asleep" => now < event_time[e] + AfterSec + 1 + Late
    BY DEF Tick, workers
  <1>2. UNCHANGED <<frames, write_pos, frame_count, total_frames_written, total_bytes>>
    BY <1>1 DEF ring
  <1>3. /\ now \in Nat /\ now' \in Times /\ now' >= now
        /\ MaxTime \in Nat /\ AfterSec \in Nat /\ Late \in Nat
        /\ \A e \in Events : event_time[e] \in Nat
    BY <1>1, RingAssumption DEF IInv, TypeOK, Times
  <1>4. TypeOK'
    BY <1>1, <1>2, <1>3 DEF IInv, TypeOK
  <1>5. \A e \in Events : Cut(e)' = Cut(e)
    BY <1>1 DEF Cut
  <1>6. OnTime'
    <2> SUFFICES ASSUME NEW e \in Events
                 PROVE  /\ worker[e] = "asleep" => now' <= event_time[e] + AfterSec + 1 + Late
                        /\ Cut(e) => event_time[e] + AfterSec < now'
      BY <1>1, <1>5 DEF OnTime
    <2>1. Cut(e) => event_time[e] + AfterSec < now
      BY DEF IInv, StreamInv, OnTime
    <2>2. event_time[e] + AfterSec + 1 + Late \in Nat /\ event_time[e] + AfterSec \in Nat
      BY <1>3
    <2> QED
      BY <1>1, <1>3, <2>1, <2>2
  <1>7. RingHoldsLog' /\ LogInOrder' /\ RateHeld'
    BY <1>1, <1>3, StreamKept
  <1>8. NotCutYet'
    BY <1>1, <1>5 DEF IInv, NotCutYet
  <1>9. ClipInLog' /\ ClipCoversEvent' /\ ClipDecodable'
    BY <1>1, <1>5, ClipsKept
  <1> QED
    BY <1>4, <1>6, <1>7, <1>8, <1>9 DEF IInv, StreamInv
-----------------------------------------------------------------------------
LEMMA InitInv == Init => IInv
  <1> SUFFICES ASSUME Init PROVE IInv
    OBVIOUS
  <1>0. Len(log) = 0 /\ log \in Seq(Frames) /\ frame_count = 0
    BY DEF Init
  <1>1. TypeOK
    <2>1. [index |-> 0, ts |-> 0, key |-> FALSE, size |-> 0] \in Frames
      BY RingAssumption DEF Frames, Times
    <2>2. 0 \in Positions /\ 0 \in 0 .. MaxFrames /\ 0 \in Times
      BY RingAssumption DEF Positions, Times
    <2> QED
      BY <1>0, <2>1, <2>2 DEF Init, TypeOK, Phases
  <1>2. \A e \in Events : ~ Cut(e) /\ clip[e] = <<>> /\ worker[e] # "asleep"
    BY DEF Init, Cut
  <1>3. RingHoldsLog
    BY <1>0, RingAssumption DEF Init, RingHoldsLog, Indices
  <1>4. LogInOrder /\ RateHeld
    BY <1>0 DEF LogInOrder, RateHeld
  <1>5. OnTime /\ NotCutYet /\ ClipInLog /\ ClipCoversEvent /\ ClipDecodable
    BY <1>2 DEF OnTime, NotCutYet, ClipInLog, ClipCoversEvent, ClipDecodable
  <1> QED
    BY <1>1, <1>3, <1>4, <1>5 DEF IInv, StreamInv

LEMMA StepInv == IInv /\ [Next]_vars => IInv'
  <1> SUFFICES ASSUME IInv, [Next]_vars PROVE IInv'
    OBVIOUS
  <1>1. CASE \E c \in Coded : add_frame_to_buffer(c)
    <2>1. PICK c \in Coded : add_frame_to_buffer(c)
      BY <1>1
    <2>2. TypeOK' /\ StreamInv' /\ ClipInLog' /\ ClipCoversEvent' /\ ClipDecodable'
      BY <2>1, AddType, AddStream, AddClips
    <2>3. UNCHANGED <<worker, clip>>
      BY <2>1 DEF add_frame_to_buffer, workers
    <2>4. NotCutYet'
      BY <2>3 DEF IInv, NotCutYet, Cut
    <2> QED
      BY <2>2, <2>4 DEF IInv
  <1>2. CASE \E e \in Events : on_event_detected(e)
    BY <1>2, DetectedStep
  <1>3. CASE \E e \in Events : extract_event_clip(e)
    BY <1>3, ExtractStep
  <1>4. CASE \E e \in Events : save_mp4_clip(e) \/ attach_url(e) \/ clear_url(e)
    BY <1>4, SendingStep
  <1>5. CASE Tick
    BY <1>5, TickStep
  <1>6. CASE UNCHANGED vars
    <2>1. /\ UNCHANGED <<frames, write_pos, frame_count, total_frames_written, total_bytes>>
          /\ UNCHANGED <<worker, event_time, clip, video_url, posted, now, log>>
      BY <1>6 DEF vars
    <2>2. UNCHANGED ring
      BY <2>1 DEF ring
    <2>3. now' >= now /\ now' \in Times
      BY <2>1 DEF IInv, TypeOK, Times
    <2>4. TypeOK'
      BY <2>1 DEF IInv, TypeOK
    <2>5. RingHoldsLog' /\ LogInOrder' /\ RateHeld'
      BY <2>1, <2>2, <2>3, StreamKept
    <2>6. \A e \in Events : Cut(e)' = Cut(e)
      BY <2>1 DEF Cut
    <2>7. OnTime' /\ NotCutYet'
      BY <2>1, <2>6 DEF IInv, StreamInv, OnTime, NotCutYet
    <2>8. ClipInLog' /\ ClipCoversEvent' /\ ClipDecodable'
      BY <2>1, <2>6, ClipsKept
    <2> QED
      BY <2>4, <2>5, <2>7, <2>8 DEF IInv, StreamInv
  <1> QED
    BY <1>1, <1>2, <1>3, <1>4, <1>5, <1>6 DEF Next

LEMMA Invariance == Spec => []IInv
  BY InitInv, StepInv, PTL DEF Spec

(* Every variable keeps its type: the ring's indices stay inside it.        *)
THEOREM TypeCorrect == Spec => []TypeOK
  <1>1. IInv => TypeOK
    BY DEF IInv
  <1> QED
    BY <1>1, Invariance, PTL

(* However late inside Late a worker wakes, and whatever the camera sends,  *)
(* the clip it cuts out has every frame around its event.                   *)
THEOREM ClipsCover == Spec => []ClipCoversEvent
  <1>1. IInv => ClipCoversEvent
    BY DEF IInv
  <1> QED
    BY <1>1, Invariance, PTL

(* A clip has no gap, and starts with a keyframe if the encoder gave one in *)
(* the MaxBack frames before the event's first frame.                       *)
THEOREM ClipsDecode == Spec => []ClipDecodable
  <1>1. IInv => ClipDecodable
    BY DEF IInv
  <1> QED
    BY <1>1, Invariance, PTL
-----------------------------------------------------------------------------
(* The ring keeps the recent frames                                         *)

HoldsRecent ==
  /\ Contents = [n \in Gone .. Len(log) - 1 |-> log[n + 1]]
  /\ Gone = IF Len(log) > MaxFrames THEN Len(log) - MaxFrames ELSE 0
  /\ total_frames_written = Len(log) /\ Len(log) \in Nat

LEMMA ContentsAreLog == IInv => HoldsRecent
  <1> SUFFICES ASSUME IInv PROVE HoldsRecent
    OBVIOUS
  <1>1. PICK g \in Nat, c \in Nat : g = Gone /\ c = frame_count /\ g + c = Len(log)
    BY GoneType
  <1>2. total_frames_written = Len(log) /\ total_frames_written - frame_count = g
    BY <1>1 DEF IInv, StreamInv, RingHoldsLog, Gone
  <1>3. \A n \in g .. Len(log) - 1 : At(n - g) = log[n + 1]
    <2> TAKE n \in g .. Len(log) - 1
    <2> DEFINE j == n - g
    <2>1. j \in 0 .. c - 1 /\ g + j + 1 = n + 1
      BY <1>1
    <2>2. PICK i \in Indices : i = j
      BY <1>1, <2>1 DEF Indices
    <2>3. At(i) = log[g + i + 1]
      BY <1>1, RingEntry
    <2> QED
      BY <2>1, <2>2, <2>3
  <1>4. Contents = [n \in g .. Len(log) - 1 |-> At(n - g)]
    BY <1>2 DEF Contents
  <1>5. Contents = [n \in g .. Len(log) - 1 |-> log[n + 1]]
    BY <1>3, <1>4
  <1>6. Gone = IF Len(log) > MaxFrames THEN Len(log) - MaxFrames ELSE 0
    <2>0. PICK l \in Nat : l = Len(log) /\ l = g + c
      BY <1>1
    <2>1. c = IF l < MaxFrames THEN l ELSE MaxFrames
      BY <1>1, <2>0 DEF IInv, StreamInv, RingHoldsLog
    <2>2. g = IF l > MaxFrames THEN l - MaxFrames ELSE 0
      <3>0. PICK m \in Nat : m = MaxFrames
        BY RingAssumption
      <3>1. CASE l < m
        BY <2>0, <2>1, <3>0, <3>1
      <3>2. CASE ~ (l < m)
        <4>1. c = m
          BY <2>1, <3>0, <3>2
        <4>2. l - m = g
          BY <2>0, <4>1
        <4> QED
          BY <3>0, <3>2, <4>1, <4>2
      <3> QED
        BY <3>1, <3>2
    <2> QED
      BY <1>1, <2>0, <2>2
  <1> QED
    BY <1>1, <1>2, <1>5, <1>6 DEF HoldsRecent

LEMMA AddIsAppend ==
  ASSUME IInv, HoldsRecent, HoldsRecent', NEW c \in Coded, add_frame_to_buffer(c)
  PROVE  Recent!Append
  <1>1. PICK f \in Frames :
           /\ Len(log') = Len(log) + 1
           /\ log'[Len(log) + 1] = f
           /\ \A n \in 1 .. Len(log) : log'[n] = log[n]
    BY AddedFrame
  <1>2. PICK l \in Nat, g \in Nat : l = Len(log) /\ g = Gone
    BY GoneType DEF HoldsRecent
  <1>3. PICK h \in Nat : h = Gone' /\ g <= h /\ h <= l
    <2>1. /\ Gone = IF l > MaxFrames THEN l - MaxFrames ELSE 0
          /\ Gone' = IF l + 1 > MaxFrames THEN l + 1 - MaxFrames ELSE 0
          /\ MaxFrames \in Nat \ {0}
      BY <1>1, <1>2, RingAssumption DEF HoldsRecent
    <2>2. Gone' \in Nat /\ g <= Gone' /\ Gone' <= l
      BY <1>2, <2>1
    <2> QED
      BY <2>2
  <1>4. total_frames_written = l /\ total_frames_written' = l + 1
    BY <1>1, <1>2 DEF HoldsRecent
  <1>5. Contents = [n \in g .. l - 1 |-> log[n + 1]]
    BY <1>2 DEF HoldsRecent
  <1>6. Contents' = [n \in h .. l |-> log'[n + 1]]
    <2>1. Len(log') - 1 = l
      BY <1>1, <1>2
    <2> QED
      BY <2>1, <1>3 DEF HoldsRecent
  <1>7. \A n \in h .. l : n # l => Contents'[n] = Contents[n]
    <2> SUFFICES ASSUME NEW n \in h .. l, n # l PROVE Contents'[n] = Contents[n]
      OBVIOUS
    <2>1. n \in g .. l - 1 /\ n + 1 \in 1 .. Len(log)
      BY <1>2, <1>3
    <2>2. Contents'[n] = log'[n + 1] /\ Contents[n] = log[n + 1]
      BY <1>5, <1>6, <2>1
    <2> QED
      BY <2>1, <2>2, <1>1
  <1>8. Contents'[l] \in Frames
    <2>1. Contents'[l] = log'[l + 1]
      BY <1>3, <1>6
    <2> QED
      BY <2>1, <1>1, <1>2
  <1>9. Contents' = [n \in h .. l |-> IF n = l THEN Contents'[n] ELSE Contents[n]]
    <2>1. \A n \in h .. l : log'[n + 1] = IF n = l THEN Contents'[n] ELSE Contents[n]
      BY <1>6, <1>7
    <2> QED
      BY <1>6, <2>1
  <1>10. Recent!Oldest(total_frames_written') = h
    BY <1>1, <1>2, <1>3, <1>4 DEF HoldsRecent, Recent!Oldest
  <1> QED
    BY <1>4, <1>8, <1>9, <1>10 DEF Recent!Append

LEMMA OtherStepsStutter ==
  ASSUME UNCHANGED ring
  PROVE  UNCHANGED <<total_frames_written, Contents>>
  <1>1. UNCHANGED <<frames, write_pos, frame_count, total_frames_written>>
    BY DEF ring
  <1> QED
    BY <1>1 DEF Contents, At, BufferStart

(* The ring with its wrap-around, its count and its running index is, read  *)
(* from the oldest frame on, the last MaxFrames frames of the stream.       *)
THEOREM RingRefines == Spec => KeepsRecentFrames
  <1>1. Init => Recent!Init
    BY DEF Init, Recent!Init, Contents
  <1>2. IInv /\ HoldsRecent /\ HoldsRecent' /\ [Next]_vars
          => [Recent!Next]_<<total_frames_written, Contents>>
    <2> SUFFICES ASSUME IInv, HoldsRecent, HoldsRecent', [Next]_vars
                 PROVE  Recent!Append \/ UNCHANGED <<total_frames_written, Contents>>
      BY DEF Recent!Next
    <2>2. CASE \E c \in Coded : add_frame_to_buffer(c)
      BY <2>2, AddIsAppend
    <2>3. CASE ~ \E c \in Coded : add_frame_to_buffer(c)
      <3>1. UNCHANGED ring
        <4>1. CASE \E e \in Events : \/ on_event_detected(e) \/ extract_event_clip(e)
                                     \/ save_mp4_clip(e) \/ attach_url(e) \/ clear_url(e)
          BY <4>1 DEF on_event_detected, extract_event_clip, save_mp4_clip,
                      attach_url, clear_url, ring
        <4>2. CASE Tick
          BY <4>2 DEF Tick, ring
        <4>3. CASE UNCHANGED vars
          BY <4>3 DEF vars, ring
        <4> QED
          BY <2>3, <4>1, <4>2, <4>3 DEF Next
      <3> QED
        BY <3>1, OtherStepsStutter
    <2> QED
      BY <2>2, <2>3
  <1> QED
    BY <1>1, <1>2, Invariance, ContentsAreLog, PTL DEF Spec, KeepsRecentFrames, Recent!Spec
-----------------------------------------------------------------------------
(* What the workers share                                                   *)

UrlNamesSaved ==
  video_url # NoUrl => \E f \in Events : Saved(f) /\ video_url = event_time[f]
UrlInv == TypeOK /\ UrlNamesSaved /\ NamesSavedClip

LEMMA UrlStep == UrlInv /\ TypeOK' /\ [Next]_vars => UrlInv'
  <1> SUFFICES ASSUME UrlInv, TypeOK', [Next]_vars PROVE UrlInv'
    OBVIOUS
  <1>1. TypeOK /\ UrlNamesSaved /\ NamesSavedClip
    BY DEF UrlInv
  <1>2. \A f \in Events : Saved(f) => Saved(f)' /\ event_time'[f] = event_time[f]
    <2>1. CASE \E e \in Events : on_event_detected(e)
      BY <2>1, <1>1 DEF on_event_detected, TypeOK, Saved
    <2>2. CASE \E e \in Events : extract_event_clip(e)
      BY <2>2, <1>1 DEF extract_event_clip, TypeOK, Saved
    <2>3. CASE \E e \in Events : save_mp4_clip(e)
      BY <2>3, <1>1 DEF save_mp4_clip, on_event_save_complete, TypeOK, Saved
    <2>4. CASE \E e \in Events : attach_url(e)
      BY <2>4, <1>1 DEF attach_url, TypeOK, Saved
    <2>5. CASE \E e \in Events : clear_url(e)
      BY <2>5, <1>1 DEF clear_url, TypeOK, Saved
    <2>6. CASE \/ \E c \in Coded : add_frame_to_buffer(c)
               \/ Tick \/ UNCHANGED vars
      BY <2>6 DEF add_frame_to_buffer, Tick, vars, workers, Saved
    <2> QED
      BY <2>1, <2>2, <2>3, <2>4, <2>5, <2>6 DEF Next
  <1>3. UrlNamesSaved'
    <2>1. CASE video_url' \in {video_url, NoUrl}
      BY <2>1, <1>1, <1>2 DEF UrlNamesSaved
    <2>2. CASE video_url' \notin {video_url, NoUrl}
      <3>1. PICK e \in Events : save_mp4_clip(e)
        BY <2>2 DEF Next, add_frame_to_buffer, on_event_detected, extract_event_clip,
                    attach_url, clear_url, Tick, vars, workers
      <3>2. /\ worker' = [worker EXCEPT ![e] = "attach"]
            /\ video_url' = event_time[e] /\ event_time' = event_time
        BY <3>1, <2>2 DEF save_mp4_clip, on_event_save_complete
      <3>3. Saved(e)'
        BY <3>2, <1>1 DEF TypeOK, Saved
      <3> QED
        BY <3>2, <3>3 DEF UrlNamesSaved
    <2> QED
      BY <2>1, <2>2
  <1>4. NamesSavedClip'
    <2> SUFFICES ASSUME NEW e \in Events, posted'[e] # NoUrl
                 PROVE  \E f \in Events : Saved(f)' /\ posted'[e] = event_time'[f]
      BY DEF NamesSavedClip, Saved
    <2>1. posted'[e] \in {posted[e], video_url}
      <3>1. CASE \E f \in Events : attach_url(f)
        BY <3>1, <1>1 DEF attach_url, TypeOK
      <3>2. CASE ~ \E f \in Events : attach_url(f)
        BY <3>2 DEF Next, add_frame_to_buffer, on_event_detected, extract_event_clip,
                    save_mp4_clip, clear_url, Tick, vars, workers
      <3> QED
        BY <3>1, <3>2
    <2>2. \E f \in Events : Saved(f) /\ posted'[e] = event_time[f]
      BY <2>1, <1>1 DEF NamesSavedClip, UrlNamesSaved, Saved
    <2> QED
      BY <2>2, <1>2
  <1> QED
    BY <1>3, <1>4 DEF UrlInv

(* However the workers interleave on video_url, a notification that names a *)
(* file names the file of some event's clip, and only after it was saved.   *)
THEOREM UrlsNameClips == Spec => []NamesSavedClip
  <1>1. Init => UrlNamesSaved /\ NamesSavedClip
    BY DEF Init, UrlNamesSaved, NamesSavedClip
  <1>2. TypeOK /\ UrlNamesSaved /\ NamesSavedClip => UrlInv
    BY DEF UrlInv
  <1>3. UrlInv => NamesSavedClip
    BY DEF UrlInv
  <1> QED
    BY <1>1, <1>2, <1>3, UrlStep, TypeCorrect, PTL DEF Spec
-----------------------------------------------------------------------------
(* The bytes of the ring                                                    *)

(* SumTo is the last value of any function that adds up the sizes.          *)
LEMMA SumIs ==
  ASSUME NEW k \in Nat, NEW s, NEW g \in [0 .. k -> Int],
         g[0] = 0, \A n \in 1 .. k : g[n] = g[n - 1] + s[n - 1]
  PROVE  SumTo(s, k) = g[k]
  <1> DEFINE Body(h) == [n \in 0 .. k |-> IF n = 0 THEN 0 ELSE h[n - 1] + s[n - 1]]
             sum == CHOOSE h : h = Body(h)
             T == {n \in 0 .. k : sum[n] # g[n]}
  <1>1. SumTo(s, k) = sum[k]
    BY DEF SumTo
  <1>2. g = Body(g)
    OBVIOUS
  <1>3. sum = Body(sum)
    <2> HIDE DEF Body
    <2> QED
      BY <1>2
  <1>4. T = {}
    <2>1. SUFFICES ASSUME T # {} PROVE FALSE
      OBVIOUS
    <2>2. Min(T) \in T /\ \A y \in T : Min(T) <= y
      <3>1. T \subseteq Nat
        OBVIOUS
      <3> HIDE DEF T
      <3> QED
        BY <2>1, <3>1, MinOfNats
    <2>3. PICK m \in 0 .. k : sum[m] # g[m] /\ \A y \in T : m <= y
      BY <2>2
    <2>4. sum[m] = IF m = 0 THEN 0 ELSE sum[m - 1] + s[m - 1]
      <3> HIDE DEF sum
      <3> QED
        BY <1>3
    <2>5. m # 0
      BY <2>3, <2>4
    <2>6. m - 1 \in 0 .. k /\ m - 1 \notin T
      BY <2>3, <2>5
    <2>7. sum[m - 1] = g[m - 1]
      BY <2>6
    <2> QED
      BY <2>3, <2>4, <2>5, <2>7
  <1> QED
    BY <1>1, <1>4

LEMMA SumExists ==
  ASSUME NEW s, NEW k \in Nat, \A n \in 0 .. k - 1 : s[n] \in Int
  PROVE  \E g \in [0 .. k -> Int] : g[0] = 0 /\ \A n \in 1 .. k : g[n] = g[n - 1] + s[n - 1]
  <1> DEFINE Adds(g, j) == /\ g \in [0 .. j -> Int] /\ g[0] = 0
                           /\ \A n \in 1 .. j : g[n] = g[n - 1] + s[n - 1]
             T == {j \in 0 .. k : ~ \E g : Adds(g, j)}
  <1>1. T = {}
    <2>1. SUFFICES ASSUME T # {} PROVE FALSE
      OBVIOUS
    <2>2. Min(T) \in T /\ \A y \in T : Min(T) <= y
      <3>1. T \subseteq Nat
        OBVIOUS
      <3> HIDE DEF T
      <3> QED
        BY <2>1, <3>1, MinOfNats
    <2>3. PICK m \in 0 .. k : (~ \E g : Adds(g, m)) /\ \A y \in T : m <= y
      BY <2>2
    <2>4. m # 0
      <3>1. Adds([n \in 0 .. 0 |-> 0], 0)
        OBVIOUS
      <3> QED
        BY <2>3, <3>1
    <2>5. m - 1 \in 0 .. k /\ m - 1 \notin T
      <3>1. m \in Nat /\ m - 1 \in 0 .. k /\ ~ (m <= m - 1)
        BY <2>4
      <3> HIDE DEF T
      <3> QED
        BY <2>3, <3>1
    <2>6. PICK g : Adds(g, m - 1)
      BY <2>5
    <2> DEFINE h == [n \in 0 .. m |-> IF n = m THEN g[m - 1] + s[m - 1] ELSE g[n]]
    <2>7. Adds(h, m)
      <3>1. /\ m \in Nat \ {0} /\ m - 1 \in 0 .. k - 1 /\ s[m - 1] \in Int
            /\ g \in [0 .. m - 1 -> Int] /\ g[0] = 0
            /\ \A n \in 1 .. m - 1 : g[n] = g[n - 1] + s[n - 1]
        BY <2>4, <2>6
      <3>2. \A n \in 0 .. m - 1 : h[n] = g[n] /\ g[n] \in Int
        BY <3>1
      <3>3. h[m] = g[m - 1] + s[m - 1] /\ h[m - 1] = g[m - 1]
        BY <3>1
      <3>4. h \in [0 .. m -> Int]
        BY <3>1, <3>2
      <3> HIDE DEF h
      <3>5. \A n \in 1 .. m : h[n] = h[n - 1] + s[n - 1]
        <4> TAKE n \in 1 .. m
        <4>1. CASE n = m
          BY <3>3, <4>1
        <4>2. CASE n # m
          BY <3>1, <3>2, <4>2
        <4> QED
          BY <4>1, <4>2
      <3> QED
        BY <3>1, <3>2, <3>4, <3>5
    <2> QED
      BY <2>3, <2>7
  <1>2. k \notin T
    BY <1>1
  <1> QED
    BY <1>2

(* What a new frame displaces is the oldest frame of the ring, when the     *)
(* ring is full.                                                            *)
LEMMA DisplacedIsOldest ==
  ASSUME IInv
  PROVE  Displaced = IF frame_count = MaxFrames THEN At(0).size ELSE 0
  <1>1. /\ MaxFrames \in Nat \ {0} /\ frame_count \in 0 .. MaxFrames /\ TypeOK
        /\ write_pos \in 0 .. MaxFrames - 1 /\ Positions = 0 .. MaxFrames - 1
        /\ frame_count < MaxFrames => write_pos = frame_count
    BY RingAssumption DEF IInv, TypeOK, StreamInv, RingHoldsLog, Positions
  <1>2. frame_count = MaxFrames => At(0) = frames[write_pos]
    BY <1>1, PlaceOf
  <1> QED
    BY <1>1, <1>2 DEF Displaced

LEMMA AddBytes ==
  ASSUME IInv, BytesExact, NEW c \in Coded, add_frame_to_buffer(c)
  PROVE  BytesExact'
  <1> DEFINE k == frame_count
             old == [i \in Indices |-> At(i).size]
             new == [i \in Indices' |-> At(i)'.size]
  <1>1. /\ MaxFrames \in Nat \ {0} /\ k \in 0 .. MaxFrames /\ Len(log) \in Nat
        /\ k = IF Len(log) < MaxFrames THEN Len(log) ELSE MaxFrames
        /\ total_bytes \in Int /\ c.size \in Int /\ Indices = 0 .. k - 1
        /\ \A i \in Indices : At(i) = log[Gone + i + 1]
        /\ Gone = Len(log) - k
    <2>1. /\ TypeOK /\ RingHoldsLog /\ MaxFrames \in Nat \ {0} /\ c.size \in Nat
          /\ Indices = 0 .. k - 1 /\ Gone = Len(log) - k
      BY RingAssumption DEF IInv, StreamInv, Indices, Gone
    <2>2. log \in Seq(Frames) /\ k \in 0 .. MaxFrames /\ total_bytes \in Int
      BY <2>1 DEF TypeOK
    <2>3. /\ k = IF Len(log) < MaxFrames THEN Len(log) ELSE MaxFrames
          /\ \A i \in Indices : At(i) = log[Gone + i + 1]
      BY <2>1 DEF RingHoldsLog
    <2>4. Len(log) \in Nat /\ c.size \in Int
      BY <2>1, <2>2
    <2> QED
      BY <2>1, <2>2, <2>3, <2>4
  <1>2. /\ total_bytes' = total_bytes - Displaced + c.size
        /\ frame_count' = IF k < MaxFrames THEN k + 1 ELSE k
        /\ Indices' = 0 .. frame_count' - 1
    BY DEF add_frame_to_buffer, NextCount, Indices
  <1>3. /\ Len(log') = Len(log) + 1 /\ log'[Len(log) + 1].size = c.size
        /\ \A n \in 1 .. Len(log) : log'[n] = log[n] /\ log[n].size \in Int
    <2> DEFINE f == [index |-> total_frames_written, ts |-> now, key |-> c.key, size |-> c.size]
    <2>1. PICK h \in Frames : /\ log' = Append(log, h) /\ log'[Len(log) + 1] = h
                             /\ Len(log') = Len(log) + 1
                             /\ \A n \in 1 .. Len(log) : log'[n] = log[n]
      BY AddedFrame
    <2>2. log \in Seq(Frames) /\ log' = Append(log, f)
      BY DEF IInv, TypeOK, add_frame_to_buffer
    <2>3. log'[Len(log) + 1] = f /\ f.size = c.size
      <3>1. Append(log, f)[Len(log) + 1] = f
        <4> HIDE DEF f
        <4> QED
          BY <2>2
      <3> QED
        BY <2>2, <3>1
    <2>4. \A n \in 1 .. Len(log) : log[n] \in Frames
      BY <2>2
    <2> QED
      BY <2>1, <2>3, <2>4 DEF Frames
  <1>4. \A i \in Indices' : At(i)' = log'[Gone' + i + 1]
    BY AddRing DEF RingHoldsLog
  <1>5. Gone' = Len(log) + 1 - frame_count'
    <2>1. Gone' = Len(log') - frame_count'
      BY DEF Gone
    <2>2. Len(log') = Len(log) + 1
      BY <1>3
    <2>3. frame_count' \in Int
      BY <1>1, <1>2
    <2> QED
      BY <1>1, <2>1, <2>2, <2>3
  <1>6. \A i \in 0 .. k - 1 : old[i] = log[Gone + i + 1].size /\ old[i] \in Int
    <2> TAKE i \in 0 .. k - 1
    <2>1. i \in Indices /\ Gone + i + 1 \in 1 .. Len(log)
      BY <1>1
    <2> QED
      BY <1>1, <1>3, <2>1
  <1>7. PICK g \in [0 .. k -> Int] :
          g[0] = 0 /\ \A n \in 1 .. k : g[n] = g[n - 1] + old[n - 1]
    <2> HIDE DEF old
    <2> QED
      BY <1>1, <1>6, SumExists
  <1>8. total_bytes = g[k]
    <2>1. total_bytes = SumTo(old, k)
      BY DEF BytesExact
    <2>2. k \in Nat
      BY <1>1
    <2> HIDE DEF old, k
    <2>3. SumTo(old, k) = g[k]
      BY <1>7, <2>2, SumIs, Zenon
    <2> QED
      BY <2>1, <2>3
  <1>9. \A i \in 0 .. frame_count' - 1 : new[i] = log'[Gone' + i + 1].size
    BY <1>2, <1>4
  <1>10. BytesExact' <=> total_bytes' = SumTo(new, frame_count')
    BY DEF BytesExact
  <1> HIDE DEF old, new
  <1>11. CASE k < MaxFrames
    <2>1. frame_count' = k + 1 /\ Gone = 0 /\ Gone' = 0 /\ Len(log) = k /\ total_bytes' = g[k] + c.size
      BY <1>1, <1>2, <1>5, <1>8, <1>11, DisplacedIsOldest
    <2> DEFINE h == [n \in 0 .. k + 1 |-> IF n = k + 1 THEN g[k] + c.size ELSE g[n]]
    <2>2. \A n \in 1 .. k + 1 : h[n] = h[n - 1] + new[n - 1]
      <3> TAKE n \in 1 .. k + 1
      <3>1. CASE n = k + 1
        <4>1. new[n - 1] = log'[Len(log) + 1].size
          BY <1>1, <1>9, <2>1, <3>1
        <4> QED
          BY <1>1, <1>3, <3>1, <4>1
      <3>2. CASE n \in 1 .. k
        <4>0. /\ n - 1 \in 0 .. k - 1 /\ n - 1 \in 0 .. frame_count' - 1 /\ n \in 1 .. Len(log)
              /\ 0 + (n - 1) + 1 = n
          BY <1>1, <2>1, <3>2
        <4>1. new[n - 1] = log'[n].size /\ old[n - 1] = log[n].size
          BY <1>6, <1>9, <2>1, <4>0
        <4>2. new[n - 1] = old[n - 1]
          BY <1>3, <4>0, <4>1
        <4> QED
          BY <1>1, <1>7, <3>2, <4>2
      <3> QED
        BY <1>1, <3>1, <3>2
    <2>3. h \in [0 .. k + 1 -> Int] /\ h[0] = 0 /\ h[k + 1] = total_bytes'
      BY <1>1, <1>7, <2>1
    <2> HIDE DEF h
    <2>4. SumTo(new, k + 1) = h[k + 1]
      <3>1. k + 1 \in Nat
        BY <1>1
      <3> QED
        BY <2>2, <2>3, <3>1, SumIs, Zenon
    <2> QED
      BY <1>10, <2>1, <2>3, <2>4
  <1>12. CASE k = MaxFrames
    <2>1. /\ frame_count' = k /\ Len(log) >= k /\ Gone = Len(log) - k /\ Gone' = Gone + 1
          /\ total_bytes' = g[k] - Displaced + c.size
      BY <1>1, <1>2, <1>5, <1>8, <1>12
    <2>2. Displaced = g[1] /\ g[1] = old[0]
      <3>1. Displaced = At(0).size /\ 0 \in Indices
        BY <1>1, <1>12, DisplacedIsOldest
      <3>2. g[1] = g[0] + old[0] /\ old[0] \in Int
        <4>1. 1 \in 1 .. k /\ 0 \in 0 .. k - 1 /\ 1 - 1 = 0
          BY <1>1, <1>12
        <4> QED
          BY <1>6, <1>7, <4>1
      <3> QED
        BY <1>7, <3>1, <3>2 DEF old
    <2> DEFINE h == [n \in 0 .. k |-> IF n = k THEN g[k] - g[1] + c.size ELSE g[n + 1] - g[1]]
    <2>3. \A n \in 1 .. k : h[n] = h[n - 1] + new[n - 1]
      <3> TAKE n \in 1 .. k
      <3>1. h[n - 1] = g[n] - g[1]
        BY <1>1
      <3>2. CASE n = k
        <4>1. new[n - 1] = log'[Len(log) + 1].size
          <5>1. n - 1 \in 0 .. frame_count' - 1 /\ Gone' + (n - 1) + 1 = Len(log) + 1
            BY <1>1, <2>1, <3>2
          <5> QED
            BY <1>9, <5>1
        <4> QED
          BY <1>1, <1>3, <3>1, <3>2, <4>1
      <3>3. CASE n \in 1 .. k - 1
        <4>1. /\ new[n - 1] = log'[Gone + n + 1].size /\ old[n] = log[Gone + n + 1].size
              /\ Gone + n + 1 \in 1 .. Len(log)
          <5>1. Gone' + (n - 1) + 1 = Gone + n + 1 /\ n - 1 \in 0 .. frame_count' - 1 /\ n \in 0 .. k - 1
            BY <1>1, <2>1, <3>3
          <5>2. new[n - 1] = log'[Gone' + (n - 1) + 1].size
            BY <1>9, <5>1
          <5>3. old[n] = log[Gone + n + 1].size
            BY <1>6, <5>1
          <5>4. Gone + n + 1 \in 1 .. Len(log)
            BY <1>1, <2>1, <3>3
          <5> QED
            BY <5>1, <5>2, <5>3, <5>4
        <4>2. new[n - 1] = old[n]
          BY <1>3, <4>1
        <4>3. g[n + 1] = g[n] + old[n] /\ h[n] = g[n + 1] - g[1]
          BY <1>1, <1>7, <3>3
        <4>4. g[n] \in Int /\ g[1] \in Int /\ old[n] \in Int
          <5>1. n \in 0 .. k - 1 /\ n \in 0 .. k /\ 1 \in 0 .. k
            BY <1>1, <3>3
          <5> QED
            BY <1>6, <1>7, <5>1
        <4> HIDE DEF h
        <4> QED
          BY <3>1, <4>2, <4>3, <4>4
      <3> QED
        BY <1>1, <3>2, <3>3
    <2>4. h \in [0 .. k -> Int] /\ h[0] = 0 /\ h[k] = total_bytes'
      BY <1>1, <1>7, <1>12, <2>1, <2>2
    <2> HIDE DEF h
    <2>5. SumTo(new, k) = h[k]
      <3>1. k \in Nat
        BY <1>1
      <3> QED
        BY <2>3, <2>4, <3>1, SumIs, Zenon
    <2> QED
      BY <1>10, <2>1, <2>4, <2>5
  <1> QED
    BY <1>1, <1>11, <1>12

LEMMA BytesStep == IInv /\ BytesExact /\ [Next]_vars => BytesExact'
  <1> SUFFICES ASSUME IInv, BytesExact, [Next]_vars PROVE BytesExact'
    OBVIOUS
  <1>1. CASE \E c \in Coded : add_frame_to_buffer(c)
    BY <1>1, AddBytes
  <1>2. CASE UNCHANGED ring
    BY <1>2 DEF ring, BytesExact, SumTo, Indices, At, BufferStart
  <1> QED
    BY <1>1, <1>2
    DEF Next, vars, ring, on_event_detected, extract_event_clip, save_mp4_clip, attach_url, clear_url, Tick

(* total_bytes is the size of the frames in the ring, however often it has  *)
(* gone round.                                                              *)
THEOREM BytesAreExact == Spec => []BytesExact
  <1>1. Init => BytesExact
    <2> SUFFICES ASSUME Init PROVE BytesExact
      OBVIOUS
    <2> DEFINE s == [i \in Indices |-> At(i).size]
               g == [n \in 0 .. 0 |-> 0]
    <2>1. SumTo(s, 0) = g[0]
      <3> HIDE DEF s
      <3>1. g \in [0 .. 0 -> Int] /\ g[0] = 0 /\ \A n \in 1 .. 0 : g[n] = g[n - 1] + s[n - 1]
        OBVIOUS
      <3> HIDE DEF g
      <3> QED
        BY <3>1, SumIs
    <2> QED
      BY <2>1 DEF Init, BytesExact
  <1> QED
    BY <1>1, Invariance, BytesStep, PTL DEF Spec
=============================================================================
