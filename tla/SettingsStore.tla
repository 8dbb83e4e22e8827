--------------------------- MODULE SettingsStore ---------------------------
(***************************************************************************)
(* The settings file of gstream_main and its three companions (.tmp, .bak, *)
(* .good): update_setting, ensure_valid_settings_file, load_device_setting *)
(* and create_settings_backup of device_setting.c, in the order in which   *)
(* main() and the command handlers call them.                              *)
(*                                                                         *)
(* Each step is one system call that changes a file or can fail. The       *)
(* process may die between any two of them, and the power may fail.        *)
(*                                                                         *)
(* The file system, which is not part of the program: a directory change   *)
(* is atomic; after a power cut the files are as they were after some      *)
(* prefix of the operations since the last fsync ("behind" holds the       *)
(* states such prefixes lead to); fsync makes all that came before it      *)
(* last.                                                                   *)
(***************************************************************************)
EXTENDS Integers, FiniteSets

CONSTANTS
  Values,     \* contents of DeviceSetting that tell settings files apart
  Default,    \* the defaults of ensure_valid_settings_file
  Absent,     \* no such file
  Torn,       \* a file that validate_settings_file rejects
  MaxFaults   \* bound on failing calls, crashes, power cuts and damage

ASSUME SettingsAssumption ==
  /\ Default \in Values
  /\ Absent \notin Values /\ Torn \notin Values /\ Absent # Torn
  /\ MaxFaults \in Nat

VARIABLES
  files,     \* contents of the four files, as the running system sees them
  behind,    \* the states the files may have after a power cut
  mem,       \* g_setting
  req,       \* the setting update_setting is writing
  pc,        \* what the program is doing
  then,      \* where update_setting returns to
  ok,        \* the last load or save of this program has succeeded
  faults,    \* faults so far
  damaged,   \* history: since the last fsync of a save, the file was damaged
             \* from outside or the rename of .bak failed during start-up
  refused,   \* history: that rename has failed
  bare,      \* history: the file was damaged when it was the only valid copy
  past       \* history: every value that has been in place as the main file

vars == <<files, behind, mem, req, pc, then, ok, faults, damaged, refused, bare, past>>

Contents == Values \cup {Absent, Torn}
Files == [main : Contents, tmp : Contents, bak : Contents, good : Contents]

(* validate_settings_file: the file exists, has ten bytes, parses as JSON.  *)
Valid(c) == c \in Values
HasCopy(f) == Valid(f.main) \/ Valid(f.bak) \/ Valid(f.good)

(* What ensure_valid_settings_file and load_device_setting make of f.       *)
Recovered(f) == IF Valid(f.main) THEN f.main
                ELSE IF Valid(f.bak) THEN f.bak
                ELSE IF Valid(f.good) THEN f.good
                ELSE Default

Booting == {"check", "bak", "open", "copy", "load", "unlink", "create", "fill"}
Updating == {"u_backup", "u_open", "u_write", "u_sync", "u_rename", "u_clean",
             "u_unlink", "u_restore"}

TypeOK ==
  /\ files \in Files
  /\ behind \subseteq Files
  /\ mem \in Values /\ req \in Values
  /\ pc \in {"off", "ready"} \cup Booting \cup Updating
  /\ then \in {"load", "ready"}
  /\ ok \in BOOLEAN
  /\ faults \in 0 .. MaxFaults
  /\ damaged \in BOOLEAN /\ refused \in BOOLEAN /\ bare \in BOOLEAN
  /\ past \subseteq Values

(* The program is installed with a settings file, or without one.           *)
Init ==
  /\ \E c \in Values \cup {Absent} :
       /\ files = [main |-> c, tmp |-> Absent, bak |-> Absent, good |-> Absent]
       /\ past = {Recovered(files)}
  /\ behind = {files}
  /\ mem = Default /\ req = Default
  /\ pc = "off" /\ then = "ready" /\ ok = TRUE
  /\ faults = 0 /\ damaged = FALSE /\ refused = FALSE /\ bare = FALSE
-----------------------------------------------------------------------------
(* One fault is used up.                                                    *)
Fault == faults < MaxFaults /\ faults' = faults + 1

Write(f) == files' = f /\ behind' = behind \cup {f}
Rename(from, to) == Write([files EXCEPT ![to] = files[from], ![from] = Absent])
Store(name, c) == Write([files EXCEPT ![name] = c])

Same == UNCHANGED <<files, behind>>
Histories == UNCHANGED <<damaged, refused, bare, past>>
Memory == UNCHANGED <<mem, req, then, ok>>

(* update_setting(file_name, v) is called.                                  *)
Call(v, back) == pc' = "u_backup" /\ req' = v /\ then' = back

Return(result) == pc' = then /\ ok' = result /\ UNCHANGED <<mem, req, then>>

(* A call that succeeds and changes the files by "effect", or fails and     *)
(* leaves them; what follows in each case.                                  *)
Try(here, effect, next, otherwise) ==
  /\ pc = here
  /\ \/ effect /\ pc' = next /\ UNCHANGED faults
     \/ Same /\ pc' = otherwise /\ Fault
  /\ Memory /\ Histories
-----------------------------------------------------------------------------
(* main: start-up                                                           *)

(* Whatever restarts gstream_main has done so.                              *)
Start ==
  /\ pc = "off"
  /\ pc' = "check"
  /\ Same /\ Memory /\ Histories /\ UNCHANGED faults

(* The third way out of ensure_valid_settings_file: write the defaults.     *)
WriteDefaults == Call(Default, "load") /\ UNCHANGED <<mem, ok>>

(* mutant: neither .good nor the defaults are tried *)
FromNothing == pc' = "load" /\ Memory

FromGood ==
  \/ Valid(files.good) /\ pc' = "open" /\ Memory
  \/ ~Valid(files.good) /\ WriteDefaults

(* ensure_valid_settings_file looks at the copies in order.                 *)
CheckMain ==
  /\ pc = "check"
  /\ \/ Valid(files.main) /\ pc' = "load" /\ Memory
     \/ ~Valid(files.main) /\ Valid(files.bak) /\ pc' = "bak" /\ Memory
     \/ ~Valid(files.main) /\ ~Valid(files.bak) /\ FromGood
  /\ Same /\ Histories /\ UNCHANGED faults

(* rename(.bak, main). When it fails the function goes on to .good.         *)
RestoreBak ==
  /\ pc = "bak"
  /\ \/ /\ Rename("bak", "main")
        /\ pc' = "load" /\ Memory /\ Histories /\ UNCHANGED faults
     \/ /\ Fault /\ FromGood /\ Same
        /\ damaged' = TRUE /\ refused' = TRUE /\ UNCHANGED <<bare, past>>

(* fopen(.good), fopen(main, "wb"): the second truncates, also when the     *)
(* first has failed; nothing is reported.                                   *)
OpenGood ==
  /\ pc = "open"
  /\ \/ Store("main", Torn) /\ pc' = "copy" /\ UNCHANGED faults
     \/ Store("main", Torn) /\ pc' = "load" /\ Fault
     \/ Same /\ pc' = "load" /\ Fault
  /\ Memory /\ Histories

(* The copy loop and fclose; a short write goes unnoticed.                  *)
CopyGood == Try("copy", Store("main", files.good), "load", "load")

(* load_device_setting; main returns -1 when it fails.                      *)
Load ==
  /\ pc = "load"
  /\ \/ Valid(files.main) /\ mem' = files.main /\ ok' = TRUE /\ pc' = "unlink"
     \/ ~Valid(files.main) /\ pc' = "off" /\ UNCHANGED <<mem, ok>>
  /\ Same /\ Histories /\ UNCHANGED <<req, then, faults>>

(* create_settings_backup. The file has just been parsed, so it validates.  *)
UnlinkGood == Try("unlink", Store("good", Absent), "create", "create")

CreateGood ==
  /\ pc = "create"
  /\ \/ Store("good", Torn) /\ pc' = "fill" /\ UNCHANGED faults
     \/ Store("good", Torn) /\ pc' = "ready" /\ Fault
     \/ Same /\ pc' = "ready" /\ Fault
  /\ Memory /\ Histories

FillGood == Try("fill", Store("good", files.main), "ready", "ready")
-----------------------------------------------------------------------------
(* update_setting                                                           *)

(* A command changes g_setting and saves it; no caller looks at the result. *)
Change(v) ==
  /\ pc = "ready"
  /\ mem' = v
  /\ Call(v, "ready")
  /\ Same /\ Histories /\ UNCHANGED <<ok, faults>>

(* mutant: the old file is removed, not kept as .bak *)
RemoveMain ==
  /\ pc = "u_backup"
  /\ Store("main", Absent)
  /\ pc' = "u_open" /\ Memory /\ Histories /\ UNCHANGED faults

BackupMain ==
  /\ pc = "u_backup"
  /\ \/ /\ files.main # Absent
        /\ Rename("main", "bak")
        /\ pc' = "u_open" /\ Memory /\ UNCHANGED faults
     \/ files.main # Absent /\ Same /\ Return(FALSE) /\ Fault
     \/ files.main = Absent /\ Same /\ pc' = "u_open" /\ Memory /\ UNCHANGED faults
  /\ Histories

OpenTmp == Try("u_open", Store("tmp", Torn), "u_write", "u_restore")

(* fprintf and fflush.                                                      *)
WriteTmp == Try("u_write", Store("tmp", req), "u_sync", "u_unlink")

(* mutant: no fsync before the rename *)
SkipSync ==
  /\ pc = "u_sync" /\ pc' = "u_rename"
  /\ Same /\ Memory /\ Histories /\ UNCHANGED faults

SyncTmp ==
  /\ pc = "u_sync"
  /\ \/ /\ behind' = {files}
        /\ damaged' = (damaged /\ then = "load")
        /\ pc' = "u_rename" /\ UNCHANGED <<files, faults>>
     \/ Same /\ pc' = "u_unlink" /\ Fault /\ UNCHANGED damaged
  /\ Memory /\ UNCHANGED <<refused, bare, past>>

RenameTmp ==
  /\ pc = "u_rename"
  /\ \/ /\ Rename("tmp", "main")
        /\ past' = past \cup {req}
        /\ pc' = "u_clean" /\ UNCHANGED faults
     \/ Same /\ pc' = "u_unlink" /\ Fault /\ UNCHANGED past
  /\ Memory /\ UNCHANGED <<damaged, refused, bare>>

CleanBak ==
  /\ pc = "u_clean"
  /\ \/ Store("bak", Absent) /\ UNCHANGED faults
     \/ Same /\ Fault
  /\ Return(TRUE)
  /\ Histories

UnlinkTmp == Try("u_unlink", Store("tmp", Absent), "u_restore", "u_restore")

(* The backup comes back, if there is one; the result is not looked at.     *)
RestoreAndReturn(result) ==
  /\ pc = "u_restore"
  /\ \/ files.bak # Absent /\ Rename("bak", "main") /\ UNCHANGED faults
     \/ files.bak # Absent /\ Same /\ Fault
     \/ files.bak = Absent /\ Same /\ UNCHANGED faults
  /\ Return(result)
  /\ Histories
RestoreReportingSuccess == RestoreAndReturn(TRUE)   \* mutant
RestoreMain == RestoreAndReturn(FALSE)
-----------------------------------------------------------------------------
(* The environment                                                          *)

(* The process dies. What was flushed to the kernel stays.                  *)
Crash ==
  /\ pc # "off"
  /\ pc' = "off"
  /\ Fault
  /\ Same /\ Memory /\ Histories

PowerLoss ==
  /\ \E f \in behind : files' = f /\ behind' = {f}
  /\ pc' = "off"
  /\ Fault
  /\ Memory /\ Histories

(* The main file is found unreadable at the next start, with a copy at hand *)
(* or without one: a first start, or create_settings_backup, may have been  *)
(* cut short.                                                               *)
Corrupt ==
  /\ pc = "off"
  /\ Valid(files.main)
  /\ files' = [files EXCEPT !.main = Torn]
  /\ behind' = {files'}
  /\ damaged' = TRUE
  /\ bare' = (bare \/ ~HasCopy(files'))
  /\ Fault
  /\ Memory /\ UNCHANGED <<pc, refused, past>>
-----------------------------------------------------------------------------
Boot ==
  \/ Start \/ CheckMain \/ RestoreBak \/ OpenGood \/ CopyGood \/ Load
  \/ UnlinkGood \/ CreateGood \/ FillGood

Update ==
  \/ BackupMain \/ OpenTmp \/ WriteTmp \/ SyncTmp \/ RenameTmp \/ CleanBak
  \/ UnlinkTmp \/ RestoreMain

Environment == Crash \/ PowerLoss \/ Corrupt

Next == Boot \/ Update \/ Environment \/ \E v \in Values : Change(v)

Spec == Init /\ [][Next]_vars

(* The program runs on, and is started again when it has ended. Commands    *)
(* need not come.                                                           *)
FairSpec == Spec /\ WF_vars(Boot \/ Update)
-----------------------------------------------------------------------------
(* Properties                                                               *)

(* The store is atomic: of all the calls of start-up, saving and backing up *)
(* only the one rename of the temporary file changes what a restart finds.  *)
Store_ == INSTANCE AtomicStore WITH
  asked <- mem,
  stored <- Recovered(files),
  may <- {Recovered(f) : f \in behind},
  trouble <- damaged
Atomic == Store_!Spec

(* A power cut loses at most the last save that was reported successful:    *)
(* each save's fsync also makes the rename of the one before it last.       *)
AtMostOneLost ==
  ~damaged => \E old \in Values :
                \A f \in behind : Recovered(f) \in {old, Recovered(files)}

(* No sequence of crashes, failing calls and power cuts brings up settings  *)
(* that were never saved, the defaults above all: nor does damage to the    *)
(* main file while .bak or .good is valid, or what cuts its recovery short. *)
(* Excluded are the two ways in which the code does lose them: the main     *)
(* file is damaged when it is the only copy (.good is deleted before it is  *)
(* written again), and the rename that restores .bak is refused.            *)
NoReset == ~refused /\ ~bare => \A f \in behind : Recovered(f) \in past

(* After a save that was reported successful, and after start-up, the disk  *)
(* holds what memory holds. (After a failed save it does not, and nobody is *)
(* told.)                                                                   *)
DiskFollowsMemory == pc = "ready" /\ ok => Recovered(files) = mem

(* However start-up is cut short, the program gets to run in the end.       *)
BootsAgain == pc = "off" ~> pc = "ready"
=============================================================================
