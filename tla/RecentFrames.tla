---------------------------- MODULE RecentFrames ----------------------------
(***************************************************************************)
(* What circular_buffer.c promises to whoever asks for the video around an *)
(* event: the last Capacity frames of the camera, each under the number it *)
(* had in the stream, none missing and none twice.                         *)
(***************************************************************************)
EXTENDS Integers

CONSTANTS Capacity, Frames

VARIABLES
  next,   \* the number of the next frame
  kept    \* the frames kept, by number

Oldest(n) == IF n > Capacity THEN n - Capacity ELSE 0

Init == next = 0 /\ kept = [n \in {} |-> n]

Append ==
  /\ next' = next + 1
  /\ kept' = [n \in Oldest(next') .. next |-> IF n = next THEN kept'[n] ELSE kept[n]]
  /\ kept'[next] \in Frames

Next == Append

Spec == Init /\ [][Next]_<<next, kept>>
=============================================================================
