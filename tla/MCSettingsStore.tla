--------------------------- MODULE MCSettingsStore ---------------------------
(* SettingsStore with the defaults and two other settings.                  *)
EXTENDS SettingsStore

CONSTANTS a, b

MCValues == {a, b, Default}
=============================================================================
