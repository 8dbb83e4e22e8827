---------------------------- MODULE AtomicStore ----------------------------
(***************************************************************************)
(* What device_setting.c promises to the rest of gstream_main about the    *)
(* settings file: a restart finds one value; saving replaces it in one     *)
(* step, or not at all; a power cut may at worst bring back a value that   *)
(* was stored before the last sync. Only after damage from outside may the *)
(* store answer with some other copy.                                      *)
(***************************************************************************)
CONSTANT Values

VARIABLES
  asked,    \* the settings in memory
  stored,   \* what a restart of the program would load
  may,      \* what it might load if the power failed now
  trouble   \* the file was damaged, or a recovery failed, since the last sync

vars == <<asked, stored, may, trouble>>

Init ==
  /\ asked \in Values /\ stored \in Values
  /\ may = {stored} /\ trouble = FALSE

Ask(v) == asked' = v /\ UNCHANGED <<stored, may, trouble>>

Load == asked' = stored /\ UNCHANGED <<stored, may, trouble>>

Put ==
  /\ stored' = asked
  /\ may' = may \cup {asked}
  /\ UNCHANGED <<asked, trouble>>

Sync ==
  /\ may' = {stored}
  /\ trouble' \in {trouble, FALSE}
  /\ UNCHANGED <<asked, stored>>

PowerCut ==
  /\ stored' \in may
  /\ may' = {stored'}
  /\ UNCHANGED <<asked, trouble>>

Damage ==
  /\ trouble'
  /\ stored' \in Values
  /\ may' \subseteq may \cup {stored'}
  /\ UNCHANGED asked

Next ==
  \/ \E v \in Values : Ask(v)
  \/ Load \/ Put \/ Sync \/ PowerCut \/ Damage

Spec == Init /\ [][Next]_vars
=============================================================================
