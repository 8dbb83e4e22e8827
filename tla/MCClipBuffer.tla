---------------------------- MODULE MCClipBuffer ----------------------------
(* ClipBuffer with a short ring and two events.                             *)
EXTENDS ClipBuffer, TLC

MCCoded == {[key |-> TRUE, size |-> 2], [key |-> FALSE, size |-> 1]}
Symmetry == Permutations(Events)
=============================================================================
