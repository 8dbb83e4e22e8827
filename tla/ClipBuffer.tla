----------------------------- MODULE ClipBuffer -----------------------------
(***************************************************************************)
(* The video clip of an event: one camera's ring of encoded frames         *)
(* (circular_buffer.c), the worker thread that waits for the video after   *)
(* the event, cuts the clip out of the ring and saves it, and the message  *)
(* about it that the worker sends to the server (curllib.c).               *)
(*                                                                         *)
(* Threads: the streaming thread of the encoder, which adds frames; the    *)
(* event sender, which calls on_event_detected; one detached worker for    *)
(* each event. The ring is only touched under its mutex, so that adding a  *)
(* frame and cutting a clip are one step each. What the workers share      *)
(* without a lock is g_curlinfo.video_url.                                 *)
(*                                                                         *)
(* Frames that cannot be mapped or are larger than MAX_FRAME_SIZE change   *)
(* nothing: they are stuttering steps. Time is CLOCK_REALTIME in seconds   *)
(* and is taken not to be set back.                                        *)
(***************************************************************************)
EXTENDS Integers, Sequences, FiniteSetsExt

CONSTANTS
  MaxFrames,    \* MAX_FRAMES: slots of the ring
  MaxFrameSize, \* MAX_FRAME_SIZE
  Coded,        \* what the encoder may produce: records of key and size
  Fps,          \* frames it produces in a second, at most (BUFFER_FPS)
  BeforeSec,    \* before_sec
  AfterSec,     \* after_sec
  MaxBack,      \* frames extract_event_clip goes back to find a keyframe (50)
  Events,       \* calls of on_event_detected for this camera
  Late,         \* bound: seconds a sleeping worker may be scheduled late
  MaxTime,      \* bound: the last second of the model
  NoUrl         \* video_url holds the empty string

ASSUME RingAssumption ==
  /\ MaxFrames \in Nat \ {0}
  /\ Coded \subseteq [key : BOOLEAN, size : Nat]
  /\ Fps \in Nat \ {0}
  /\ BeforeSec \in Nat /\ AfterSec \in Nat /\ MaxBack \in Nat
  /\ Late \in Nat /\ MaxTime \in Nat
  /\ NoUrl \notin Nat

(* The ring is longer than the video an event needs: MAX_FRAMES is 1200,   *)
(* 15 seconds before and after at 10 frames a second are 300.              *)
ASSUME SizeAssumption ==
  MaxFrames >= Fps * (BeforeSec + AfterSec + Late + 2) + MaxBack

Positions == 0 .. MaxFrames - 1
Times == 0 .. MaxTime
Frames == [index : Nat, ts : Times, key : BOOLEAN, size : Nat]

VARIABLES
  (* H264CircularBuffer *)
  frames,      \* the ring
  write_pos,
  frame_count,
  total_frames_written,
  total_bytes,
  (* the workers *)
  worker,      \* where each event's worker is
  event_time,  \* when its event happened; also the name of the clip's file
  clip,        \* numbers of the frames it has cut out
  video_url,   \* g_curlinfo.video_url: the file it names
  posted,      \* the file each notification named
  (* environment and history *)
  now,
  log          \* every frame the ring accepted, in order

ring == <<frames, write_pos, frame_count, total_frames_written, total_bytes>>
workers == <<worker, event_time, clip, video_url, posted>>
vars == <<frames, write_pos, frame_count, total_frames_written, total_bytes,
          worker, event_time, clip, video_url, posted, now, log>>

(* saving: the clip is cut out; attach: about to build the message;        *)
(* sending: in curl_easy_perform; unsent: the message could not be built;   *)
(* failed: ffmpeg failed; empty: no frames were found.                      *)
Phases == {"none", "asleep", "saving", "attach", "sending", "sent",
           "unsent", "failed", "empty"}

TypeOK ==
  /\ frames \in [Positions -> Frames]
  /\ write_pos \in Positions
  /\ frame_count \in 0 .. MaxFrames
  /\ total_frames_written \in Nat
  /\ total_bytes \in Int
  /\ worker \in [Events -> Phases]
  /\ event_time \in [Events -> Times]
  /\ clip \in [Events -> Seq(Nat)]
  /\ video_url \in Times \cup {NoUrl}
  /\ posted \in [Events -> Times \cup {NoUrl}]
  /\ now \in Times
  /\ log \in Seq(Frames)

Init ==
  /\ frames = [i \in Positions |-> [index |-> 0, ts |-> 0, key |-> FALSE, size |-> 0]]
  /\ write_pos = 0 /\ frame_count = 0
  /\ total_frames_written = 0 /\ total_bytes = 0
  /\ worker = [e \in Events |-> "none"]
  /\ event_time = [e \in Events |-> 0]
  /\ clip = [e \in Events |-> <<>>]
  /\ video_url = NoUrl
  /\ posted = [e \in Events |-> NoUrl]
  /\ now = 0 /\ log = <<>>
-----------------------------------------------------------------------------
(* The ring                                                                 *)

(* bytes a new frame in write_pos displaces                                 *)
NothingDisplaced == 0                  \* mutant: old frames are not taken off
Displaced == IF frame_count >= MaxFrames THEN frames[write_pos].size ELSE 0

NextPosInside ==                       \* mutant: the last slot is left unused
  IF write_pos + 2 >= MaxFrames THEN 0 ELSE write_pos + 1
NextPos == (write_pos + 1) % MaxFrames

NextCount == IF frame_count < MaxFrames THEN frame_count + 1 ELSE frame_count

(* The encoder keeps its rate.                                              *)
WithinRate == Len(log) >= Fps => log[Len(log) - Fps + 1].ts < now

add_frame_to_buffer(c) ==
  LET f == [index |-> total_frames_written, ts |-> now, key |-> c.key, size |-> c.size]
  IN  /\ WithinRate
      /\ c.size <= MaxFrameSize
      /\ frames' = [frames EXCEPT ![write_pos] = f]
      /\ total_bytes' = total_bytes - Displaced + c.size
      /\ total_frames_written' = total_frames_written + 1
      /\ write_pos' = NextPos
      /\ frame_count' = NextCount
      /\ log' = Append(log, f)
      /\ UNCHANGED <<workers, now>>
-----------------------------------------------------------------------------
(* The clip                                                                 *)

BufferStart == (write_pos - frame_count + MaxFrames) % MaxFrames
(* the i-th oldest frame of the ring *)
At(i) == frames[(BufferStart + i) % MaxFrames]
Indices == 0 .. frame_count - 1

(* The scan of extract_event_clip stops at the first frame past end_time;   *)
(* everything before it counts as not later than the end of the clip.       *)
Past(e) == {i \in Indices : At(i).ts > event_time[e] + AfterSec}
Stop(e) == IF Past(e) = {} THEN frame_count ELSE Min(Past(e))
EndIdx(e) == Stop(e) - 1
InTime(e) == {i \in Indices : i <= Stop(e) /\ At(i).ts >= event_time[e] - BeforeSec}

(* The keyframes at or before the first frame in time.                      *)
KeysBack(i) == {j \in Indices : i - MaxBack <= j /\ j <= i /\ At(j).key}
StartHere(e) == Min(InTime(e))                 \* mutant: no search for a keyframe
StartIdx(e) ==
  LET i == Min(InTime(e))
  IN  IF KeysBack(i) = {} THEN i ELSE Max(KeysBack(i))

Found(e) ==
  /\ frame_count > 0
  /\ InTime(e) # {}
  /\ EndIdx(e) >= StartIdx(e)

(* on_event_detected: the worker is started and goes to sleep.              *)
on_event_detected(e) ==
  /\ worker[e] = "none"
  /\ worker' = [worker EXCEPT ![e] = "asleep"]
  /\ event_time' = [event_time EXCEPT ![e] = now]
  /\ UNCHANGED <<ring, clip, video_url, posted, now, log>>

DueAtEnd(e) == event_time[e] + AfterSec           \* mutant: sleep(after_sec)
Due(e) == event_time[e] + AfterSec + 1

extract_event_clip(e) ==
  /\ worker[e] = "asleep"
  /\ now >= Due(e)
  /\ \/ /\ Found(e)
        /\ clip' = [clip EXCEPT ![e] =
             [n \in 1 .. EndIdx(e) - StartIdx(e) + 1 |-> At(StartIdx(e) + n - 1).index]]
        /\ worker' = [worker EXCEPT ![e] = "saving"]
     \/ /\ ~Found(e)
        /\ worker' = [worker EXCEPT ![e] = "empty"]
        /\ UNCHANGED clip
  /\ UNCHANGED <<ring, event_time, video_url, posted, now, log>>
-----------------------------------------------------------------------------
(* The message to the server                                                *)

(* mutant: the name is stored before success is looked at                   *)
NameThenCheck(e, success) ==
  /\ worker' = [worker EXCEPT ![e] = IF success THEN "attach" ELSE "failed"]
  /\ video_url' = event_time[e]

(* The callback of save_mp4_clip: only a clip that was saved is notified.   *)
on_event_save_complete(e, success) ==
  /\ worker' = [worker EXCEPT ![e] = IF success THEN "attach" ELSE "failed"]
  /\ video_url' = IF success THEN event_time[e] ELSE video_url

(* ffmpeg may fail.                                                         *)
save_mp4_clip(e) ==
  /\ worker[e] = "saving"
  /\ \E success \in BOOLEAN : on_event_save_complete(e, success)
  /\ UNCHANGED <<ring, event_time, clip, posted, now, log>>

(* notification_request logs in if it has no token, then copies the shared  *)
(* video_url into the message. If the message cannot be built it returns,   *)
(* and leaves video_url.                                                    *)
attach_url(e) ==
  /\ worker[e] = "attach"
  /\ \/ /\ posted' = [posted EXCEPT ![e] = video_url]
        /\ worker' = [worker EXCEPT ![e] = "sending"]
     \/ /\ worker' = [worker EXCEPT ![e] = "unsent"]
        /\ UNCHANGED posted
  /\ UNCHANGED <<ring, event_time, clip, video_url, now, log>>

(* The request has been answered or has timed out; video_url is cleared.    *)
clear_url(e) ==
  /\ worker[e] = "sending"
  /\ video_url' = NoUrl
  /\ worker' = [worker EXCEPT ![e] = "sent"]
  /\ UNCHANGED <<ring, event_time, clip, posted, now, log>>
-----------------------------------------------------------------------------
(* A sleeping worker is woken at most Late seconds after its time.          *)
Tick ==
  /\ now < MaxTime
  /\ \A e \in Events : worker[e] = "asleep" => now < event_time[e] + AfterSec + 1 + Late
  /\ now' = now + 1
  /\ UNCHANGED <<ring, workers, log>>

Next ==
  \/ \E c \in Coded : add_frame_to_buffer(c)
  \/ \E e \in Events : \/ on_event_detected(e) \/ extract_event_clip(e)
                       \/ save_mp4_clip(e) \/ attach_url(e) \/ clear_url(e)
  \/ Tick

Spec == Init /\ [][Next]_vars
-----------------------------------------------------------------------------
(* Properties                                                               *)

(* Read in the order extract_event_clip reads it, the ring holds the latest *)
(* frames of the stream under their own numbers: add_frame_to_buffer        *)
(* implements RecentFrames, whatever the wrap-around does.                  *)
Contents == [n \in total_frames_written - frame_count .. total_frames_written - 1 |->
               At(n - (total_frames_written - frame_count))]
Recent == INSTANCE RecentFrames WITH
            Capacity <- MaxFrames, next <- total_frames_written, kept <- Contents
KeepsRecentFrames == Recent!Spec

(* total_bytes, which get_buffer_status reports, is the size of the frames  *)
(* in the ring: what is displaced is taken off exactly when it is displaced.*)
SumTo(size, k) ==
  LET sum[n \in 0 .. k] == IF n = 0 THEN 0 ELSE sum[n - 1] + size[n - 1]
  IN  sum[k]
BytesExact == total_bytes = SumTo([i \in Indices |-> At(i).size], frame_count)

Cut(e) == worker[e] \notin {"none", "asleep"}
Wanted(e) == {n \in 1 .. Len(log) :
                /\ log[n].ts >= event_time[e] - BeforeSec
                /\ log[n].ts <= event_time[e] + AfterSec}

(* Every frame the camera gave from before_sec before an event to after_sec *)
(* after it is in the clip of the event: the worker sleeps long enough for  *)
(* the last of them to be there, and not so long that the ring has dropped  *)
(* the first.                                                               *)
ClipCoversEvent ==
  \A e \in Events : Cut(e) =>
    \A n \in Wanted(e) : \E i \in 1 .. Len(clip[e]) : clip[e][i] = log[n].index

(* A clip can be decoded from its first frame: if the encoder produced a    *)
(* keyframe among the MaxBack frames before the first wanted one, or that   *)
(* one is itself a keyframe, the clip begins with one, and it runs from     *)
(* there through the stream without a gap.                                  *)
ClipDecodable ==
  \A e \in Events : Cut(e) /\ Wanted(e) # {} =>
    LET first == Min(Wanted(e)) IN
    /\ \A i \in 1 .. Len(clip[e]) - 1 : clip[e][i + 1] = clip[e][i] + 1
    /\ (\E n \in 1 .. first : first - MaxBack <= n /\ log[n].key)
         => clip[e] # <<>> /\ log[clip[e][1] + 1].key

Saved(f) == worker[f] \in {"attach", "sending", "sent", "unsent"}

(* However the workers interleave on video_url, a notification names no     *)
(* file or the file of a clip that was saved.                               *)
NamesSavedClip ==
  \A e \in Events : posted[e] # NoUrl =>
    \E f \in Events : Saved(f) /\ posted[e] = event_time[f]
=============================================================================
