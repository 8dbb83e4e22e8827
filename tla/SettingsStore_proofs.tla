------------------------ MODULE SettingsStore_proofs ------------------------
(***************************************************************************)
(* Theorems about SettingsStore, for every set of settings and any number  *)
(* of faults.                                                              *)
(*                                                                         *)
(* The inductive invariant says what each point of start-up and of saving  *)
(* knows about the four files: while a save is under way the old settings  *)
(* are intact in .bak, the new ones complete in .tmp once written, and     *)
(* nothing but them is in the states a power cut can bring back.           *)
(***************************************************************************)
EXTENDS SettingsStore, TLAPS

(* The settings are in place, or were moved aside by a save that failed.    *)
Solid == \/ Valid(files.main)
         \/ files.main = Absent /\ Valid(files.bak)

(* Nothing is left to recover, or the one thing left could not be renamed.  *)
Broken == /\ ~Valid(files.main) /\ ~Valid(files.good)
          /\ Valid(files.bak) => damaged /\ refused

AtBoot ==
  /\ pc = "bak" => ~Valid(files.main) /\ Valid(files.bak)
  /\ pc \in {"open", "copy"} => /\ ~Valid(files.main) /\ Valid(files.good)
                                /\ Valid(files.bak) => damaged
  /\ pc \in {"unlink", "create", "fill"} =>
       Valid(files.main) /\ mem = files.main /\ ok

AtUpdate ==
  /\ pc = "ready" => Solid /\ (ok => Recovered(files) = mem)
  /\ pc \in Updating /\ then = "ready" => req = mem
  /\ pc \in Updating \ {"u_clean"} =>
       IF then = "ready" THEN Solid ELSE req = Default /\ Broken
  /\ pc \in Updating \ {"u_backup", "u_clean"} => files.main = Absent
  /\ pc \in {"u_sync", "u_rename"} => files.tmp = req
  /\ pc = "u_clean" => files.main = req
  /\ pc = "u_rename" => \A f \in behind : Recovered(f) = Recovered(files)

(* Everything a power cut may leave was in place once, and a copy is left.  *)
Behind ==
  /\ files \in behind
  /\ \A f \in behind : \A c \in {f.main, f.bak, f.good} : Valid(c) => c \in past
  /\ ~refused /\ ~bare => Default \in past \/ \A f \in behind : HasCopy(f)

IInv == TypeOK /\ AtBoot /\ AtUpdate /\ Behind /\ AtMostOneLost
-----------------------------------------------------------------------------
LEMMA RecoveredType == \A f : Recovered(f) \in Values
  BY SettingsAssumption DEF Recovered, Valid

LEMMA InitType == Init => TypeOK
  <1> SUFFICES ASSUME Init PROVE TypeOK
    OBVIOUS
  <1> USE SettingsAssumption
  <1> PICK c \in Values \cup {Absent} :
         /\ files = [main |-> c, tmp |-> Absent, bak |-> Absent, good |-> Absent]
         /\ past = {Recovered(files)}
    BY DEF Init
  <1>1. files \in Files
    BY DEF Files, Contents
  <1>2. past \subseteq Values
    BY RecoveredType
  <1>3. behind \subseteq Files
    BY <1>1 DEF Init
  <1>4. faults \in 0 .. MaxFaults /\ mem \in Values /\ req \in Values
    BY DEF Init
  <1>5. /\ pc \in {"off", "ready"} \cup Booting \cup Updating
        /\ then \in {"load", "ready"} /\ ok \in BOOLEAN
        /\ damaged \in BOOLEAN /\ refused \in BOOLEAN /\ bare \in BOOLEAN
    BY DEF Init
  <1> QED
    BY <1>1, <1>2, <1>3, <1>4, <1>5 DEF TypeOK

LEMMA WriteType ==
  ASSUME TypeOK, NEW f \in Files, Write(f)
  PROVE  files' \in Files /\ behind' \subseteq Files
  BY DEF Write, TypeOK

LEMMA RenameType ==
  ASSUME TypeOK,
         \/ Rename("bak", "main") \/ Rename("main", "bak") \/ Rename("tmp", "main")
  PROVE  files' \in Files /\ behind' \subseteq Files
  BY SettingsAssumption DEF Rename, Write, TypeOK, Files, Contents

LEMMA StoreType ==
  ASSUME TypeOK, NEW name \in {"main", "tmp", "bak", "good"}, NEW c \in Contents,
         Store(name, c)
  PROVE  files' \in Files /\ behind' \subseteq Files
  <1>1. [files EXCEPT ![name] = c] \in Files
    BY DEF TypeOK, Files
  <1> QED
    BY <1>1, WriteType DEF Store

LEMMA ContentsFacts ==
  /\ Absent \in Contents /\ Torn \in Contents /\ Values \subseteq Contents
  /\ TypeOK => files.main \in Contents /\ files.good \in Contents /\ req \in Contents
  BY DEF Contents, TypeOK, Files

LEMMA FaultType ==
  ASSUME TypeOK, Fault \/ UNCHANGED faults
  PROVE  faults' \in 0 .. MaxFaults
  BY SettingsAssumption DEF TypeOK, Fault

(* The variables that are not files or faults, when a step of Try's form    *)
(* leaves them.                                                             *)
LEMMA RestType ==
  ASSUME TypeOK, Memory, Histories,
         files' \in Files, behind' \subseteq Files, faults' \in 0 .. MaxFaults,
         pc' \in {"off", "ready"} \cup Booting \cup Updating
  PROVE  TypeOK'
  BY DEF TypeOK, Memory, Histories

LEMMA SameType ==
  TypeOK /\ Same => files' \in Files /\ behind' \subseteq Files
  BY DEF TypeOK, Same

LEMMA BootType == TypeOK /\ Boot => TypeOK'
  <1> SUFFICES ASSUME TypeOK, Boot PROVE TypeOK'
    OBVIOUS
  <1> USE SettingsAssumption DEF Booting, Updating
  <1>1. CASE Start
    BY <1>1, SameType, FaultType, RestType DEF Start
  <1>2. ASSUME FromGood, Same, UNCHANGED <<bare, past>>, damaged' \in BOOLEAN, refused' \in BOOLEAN,
               faults' \in 0 .. MaxFaults
        PROVE  TypeOK'
    BY <1>2, SameType DEF FromGood, WriteDefaults, Call, Memory, TypeOK
  <1>3. CASE CheckMain
    <2>1. CASE Memory /\ pc' \in {"load", "bak"}
      BY <1>3, <2>1, SameType, FaultType, RestType DEF CheckMain
    <2>2. CASE FromGood
      BY <1>2, <1>3, <2>2, FaultType DEF CheckMain, Histories, TypeOK
    <2> QED
      BY <1>3, <2>1, <2>2 DEF CheckMain
  <1>4. CASE RestoreBak
    <2>1. CASE Rename("bak", "main") /\ pc' = "load" /\ Memory /\ Histories /\ UNCHANGED faults
      BY <2>1, RenameType, FaultType, RestType
    <2>2. CASE /\ Fault /\ FromGood /\ Same
               /\ damaged' = TRUE /\ refused' = TRUE /\ UNCHANGED <<bare, past>>
      BY <1>2, <2>2, FaultType
    <2> QED
      BY <1>4, <2>1, <2>2 DEF RestoreBak
  <1>5. CASE OpenGood
    <2>1. files' \in Files /\ behind' \subseteq Files
      BY <1>5, StoreType, SameType, ContentsFacts DEF OpenGood
    <2> QED
      BY <1>5, <2>1, FaultType, RestType DEF OpenGood
  <1>6. CASE CopyGood
    <2>1. files' \in Files /\ behind' \subseteq Files
      BY <1>6, StoreType, SameType, ContentsFacts DEF CopyGood, Try
    <2> QED
      BY <1>6, <2>1, FaultType, RestType DEF CopyGood, Try
  <1>7. CASE Load
    <2>1. mem' \in Values /\ ok' \in BOOLEAN /\ pc' \in {"unlink", "off"}
      BY <1>7 DEF Load, Valid, TypeOK
    <2> QED
      BY <1>7, <2>1, SameType DEF Load, Histories, TypeOK
  <1>8. CASE UnlinkGood
    <2>1. files' \in Files /\ behind' \subseteq Files
      BY <1>8, StoreType, SameType, ContentsFacts DEF UnlinkGood, Try
    <2> QED
      BY <1>8, <2>1, FaultType, RestType DEF UnlinkGood, Try
  <1>9. CASE CreateGood
    <2>1. files' \in Files /\ behind' \subseteq Files
      BY <1>9, StoreType, SameType, ContentsFacts DEF CreateGood
    <2> QED
      BY <1>9, <2>1, FaultType, RestType DEF CreateGood
  <1>10. CASE FillGood
    <2>1. files' \in Files /\ behind' \subseteq Files
      BY <1>10, StoreType, SameType, ContentsFacts DEF FillGood, Try
    <2> QED
      BY <1>10, <2>1, FaultType, RestType DEF FillGood, Try
  <1> QED
    BY <1>1, <1>3, <1>4, <1>5, <1>6, <1>7, <1>8, <1>9, <1>10 DEF Boot

LEMMA ReturnType ==
  ASSUME TypeOK, NEW result \in BOOLEAN, Return(result), Histories,
         files' \in Files, behind' \subseteq Files, faults' \in 0 .. MaxFaults
  PROVE  TypeOK'
  BY DEF Return, Histories, TypeOK, Booting

LEMMA UpdateType == TypeOK /\ Update => TypeOK'
  <1> SUFFICES ASSUME TypeOK, Update PROVE TypeOK'
    OBVIOUS
  <1> USE SettingsAssumption DEF Updating
  <1>1. CASE BackupMain
    <2>1. files' \in Files /\ behind' \subseteq Files /\ faults' \in 0 .. MaxFaults
      BY <1>1, RenameType, SameType, FaultType DEF BackupMain
    <2> QED
      BY <1>1, <2>1, ReturnType, RestType DEF BackupMain
  <1>2. CASE OpenTmp
    <2>1. files' \in Files /\ behind' \subseteq Files
      BY <1>2, StoreType, SameType, ContentsFacts DEF OpenTmp, Try
    <2> QED
      BY <1>2, <2>1, FaultType, RestType DEF OpenTmp, Try
  <1>3. CASE WriteTmp
    <2>1. files' \in Files /\ behind' \subseteq Files
      BY <1>3, StoreType, SameType, ContentsFacts DEF WriteTmp, Try
    <2> QED
      BY <1>3, <2>1, FaultType, RestType DEF WriteTmp, Try
  <1>4. CASE SyncTmp
    <2>1. files' \in Files /\ behind' \subseteq Files
      BY <1>4, SameType DEF SyncTmp, TypeOK
    <2>2. damaged' \in BOOLEAN /\ pc' \in {"u_rename", "u_unlink"}
      BY <1>4 DEF SyncTmp, TypeOK
    <2>3. faults' \in 0 .. MaxFaults
      BY <1>4, FaultType DEF SyncTmp
    <2> QED
      BY <1>4, <2>1, <2>2, <2>3 DEF SyncTmp, Memory, TypeOK
  <1>5. CASE RenameTmp
    <2>1. files' \in Files /\ behind' \subseteq Files /\ faults' \in 0 .. MaxFaults
      BY <1>5, RenameType, SameType, FaultType DEF RenameTmp
    <2>2. past' \subseteq Values
      BY <1>5 DEF RenameTmp, TypeOK
    <2> QED
      BY <1>5, <2>1, <2>2 DEF RenameTmp, Memory, TypeOK
  <1>6. CASE CleanBak
    <2>1. files' \in Files /\ behind' \subseteq Files /\ faults' \in 0 .. MaxFaults
      BY <1>6, StoreType, SameType, FaultType, ContentsFacts DEF CleanBak
    <2> QED
      BY <1>6, <2>1, ReturnType DEF CleanBak
  <1>7. CASE UnlinkTmp
    <2>1. files' \in Files /\ behind' \subseteq Files
      BY <1>7, StoreType, SameType, ContentsFacts DEF UnlinkTmp, Try
    <2> QED
      BY <1>7, <2>1, FaultType, RestType DEF UnlinkTmp, Try
  <1>8. CASE RestoreMain
    <2>1. files' \in Files /\ behind' \subseteq Files /\ faults' \in 0 .. MaxFaults
      BY <1>8, RenameType, SameType, FaultType DEF RestoreMain, RestoreAndReturn
    <2> QED
      BY <1>8, <2>1, ReturnType DEF RestoreMain, RestoreAndReturn
  <1> QED
    BY <1>1, <1>2, <1>3, <1>4, <1>5, <1>6, <1>7, <1>8 DEF Update

LEMMA EnvironmentType == TypeOK /\ Environment => TypeOK'
  <1> SUFFICES ASSUME TypeOK, Environment PROVE TypeOK'
    OBVIOUS
  <1>1. CASE Crash
    BY <1>1, SameType, FaultType, RestType DEF Crash
  <1>2. CASE PowerLoss
    <2>1. files' \in Files /\ behind' \subseteq Files
      BY <1>2 DEF PowerLoss, TypeOK
    <2> QED
      BY <1>2, <2>1, FaultType, RestType DEF PowerLoss
  <1>3. CASE Corrupt
    <2>1. files' \in Files /\ behind' \subseteq Files
      BY <1>3, ContentsFacts DEF Corrupt, TypeOK, Files
    <2> QED
      BY <1>3, <2>1, FaultType DEF Corrupt, Memory, TypeOK
  <1> QED
    BY <1>1, <1>2, <1>3 DEF Environment

LEMMA TypeStep == TypeOK /\ [Next]_vars => TypeOK'
  <1> SUFFICES ASSUME TypeOK, [Next]_vars PROVE TypeOK'
    OBVIOUS
  <1>1. CASE UNCHANGED vars
    BY <1>1 DEF vars, TypeOK
  <1>2. ASSUME NEW v \in Values, Change(v) PROVE TypeOK'
    BY <1>2, SameType DEF Change, Call, Histories, TypeOK, Updating
  <1> QED
    BY <1>1, <1>2, BootType, UpdateType, EnvironmentType DEF Next

(* The files hold what the code writes to them, at every point a process or *)
(* a power failure may leave them.                                          *)
THEOREM TypeCorrect == Spec => []TypeOK
  BY InitType, TypeStep, PTL DEF Spec
-----------------------------------------------------------------------------
(* The points of start-up and of a save                                     *)

LEMMA InitInv == Init => IInv
  <1> SUFFICES ASSUME Init PROVE IInv
    OBVIOUS
  <1> USE SettingsAssumption
  <1> PICK c \in Values \cup {Absent} :
         /\ files = [main |-> c, tmp |-> Absent, bak |-> Absent, good |-> Absent]
         /\ past = {Recovered(files)}
    BY DEF Init
  <1>1. AtBoot /\ AtUpdate
    BY DEF Init, AtBoot, AtUpdate, Updating
  <1>2. Behind
    <2>1. behind = {files}
      BY DEF Init
    <2>2. CASE c \in Values
      BY <2>1, <2>2 DEF Behind, Recovered, Valid, HasCopy
    <2>3. CASE c = Absent
      BY <2>1, <2>3 DEF Behind, Recovered, Valid, HasCopy
    <2> QED
      BY <2>2, <2>3
  <1>3. AtMostOneLost
    BY RecoveredType DEF Init, AtMostOneLost
  <1> QED
    BY <1>1, <1>2, <1>3, InitType DEF IInv

(* What Store and Rename make of the four files.                            *)
LEMMA StoreEffect ==
  ASSUME TypeOK, NEW name \in {"main", "tmp", "bak", "good"}, NEW c, Store(name, c)
  PROVE  /\ files'.main = IF name = "main" THEN c ELSE files.main
         /\ files'.tmp = IF name = "tmp" THEN c ELSE files.tmp
         /\ files'.bak = IF name = "bak" THEN c ELSE files.bak
         /\ files'.good = IF name = "good" THEN c ELSE files.good
         /\ behind' = behind \cup {files'}
  BY DEF Store, Write, TypeOK, Files

LEMMA RenameEffect ==
  ASSUME TypeOK
  PROVE  /\ Rename("bak", "main") =>
              /\ files'.main = files.bak /\ files'.bak = Absent
              /\ files'.tmp = files.tmp /\ files'.good = files.good
              /\ behind' = behind \cup {files'}
         /\ Rename("main", "bak") =>
              /\ files'.bak = files.main /\ files'.main = Absent
              /\ files'.tmp = files.tmp /\ files'.good = files.good
              /\ behind' = behind \cup {files'}
         /\ Rename("tmp", "main") =>
              /\ files'.main = files.tmp /\ files'.tmp = Absent
              /\ files'.bak = files.bak /\ files'.good = files.good
              /\ behind' = behind \cup {files'}
  BY DEF Rename, Write, TypeOK, Files

LEMMA NotValid == ~Valid(Absent) /\ ~Valid(Torn) /\ Absent # Torn
  BY SettingsAssumption DEF Valid

LEMMA BootPoints ==
  ASSUME IInv, Boot
  PROVE  AtBoot' /\ AtUpdate'
  <1> USE NotValid DEF IInv, Booting, Updating
  <1>1. CASE Start
    BY <1>1 DEF Start, AtBoot, AtUpdate
  <1>2. CASE CheckMain
    BY <1>2 DEF CheckMain, FromGood, WriteDefaults, Call, Same, Memory, Histories,
                AtBoot, AtUpdate, Broken
  <1>3. CASE RestoreBak
    <2>1. CASE pc' = "load"
      BY <2>1 DEF AtBoot, AtUpdate
    <2>2. CASE FromGood /\ Same /\ damaged' = TRUE /\ refused' = TRUE
      BY <1>3, <2>2 DEF RestoreBak, FromGood, WriteDefaults, Call, Same, Memory,
                        AtBoot, AtUpdate, Broken
    <2> QED
      BY <1>3, <2>1, <2>2 DEF RestoreBak
  <1>4. CASE OpenGood
    <2>1. CASE pc' = "load"
      BY <2>1 DEF AtBoot, AtUpdate
    <2>2. CASE Store("main", Torn) /\ pc' = "copy"
      <3>1. /\ files'.main = Torn /\ files'.bak = files.bak /\ files'.good = files.good
        BY <2>2, StoreEffect
      <3> QED
        BY <1>4, <2>2, <3>1 DEF OpenGood, Histories, AtBoot, AtUpdate
    <2> QED
      BY <1>4, <2>1, <2>2 DEF OpenGood
  <1>5. CASE CopyGood
    BY <1>5 DEF CopyGood, Try, AtBoot, AtUpdate
  <1>6. CASE Load
    BY <1>6 DEF Load, Same, AtBoot, AtUpdate
  <1>7. CASE UnlinkGood \/ CreateGood \/ FillGood
    <2>1. Valid(files.main) /\ mem = files.main /\ ok
      BY <1>7 DEF UnlinkGood, CreateGood, FillGood, Try, AtBoot
    <2>2. files'.main = files.main
      BY <1>7, StoreEffect DEF UnlinkGood, CreateGood, FillGood, Try, Same
    <2>3. Memory /\ pc' \in {"create", "fill", "ready"}
      BY <1>7 DEF UnlinkGood, CreateGood, FillGood, Try
    <2>4. mem' = files'.main /\ ok' /\ Valid(files'.main)
      BY <2>1, <2>2, <2>3 DEF Memory
    <2>5. AtBoot'
      BY <2>3, <2>4 DEF AtBoot
    <2>6. Solid' /\ Recovered(files') = mem'
      BY <2>4 DEF Solid, Recovered
    <2>7. AtUpdate'
      BY <2>3, <2>6 DEF AtUpdate
    <2> QED
      BY <2>5, <2>7
  <1> QED
    BY <1>1, <1>2, <1>3, <1>4, <1>5, <1>6, <1>7 DEF Boot

LEMMA AtBootElsewhere ==
  ASSUME pc' \notin {"bak", "open", "copy", "unlink", "create", "fill"}
  PROVE  AtBoot'
  BY DEF AtBoot

(* A step of a save that does not end it and leaves the backup alone.       *)
LEMMA SavePoint ==
  ASSUME IInv, Memory, UNCHANGED <<damaged, refused>>,
         pc \in Updating \ {"u_backup", "u_clean"},
         pc' \in {"u_open", "u_write", "u_sync", "u_unlink", "u_restore"},
         UNCHANGED <<files.main, files.bak, files.good>>,
         pc' = "u_sync" => files'.tmp = req
  PROVE  AtBoot' /\ AtUpdate'
  <1>1. AtBoot'
    BY AtBootElsewhere
  <1>2. files'.main = Absent
    BY DEF IInv, AtUpdate
  <1>3. IF then' = "ready" THEN Solid' ELSE req' = Default /\ Broken'
    BY DEF IInv, AtUpdate, Memory, Solid, Broken
  <1>4. then' = "ready" => req' = mem'
    BY DEF IInv, AtUpdate, Memory
  <1> QED
    BY <1>1, <1>2, <1>3, <1>4 DEF AtUpdate, Memory, Updating

LEMMA UpdatePoints ==
  ASSUME IInv, Update
  PROVE  AtBoot' /\ AtUpdate'
  <1> USE NotValid DEF IInv, Updating
  <1>1. CASE BackupMain
    <2>1. pc = "u_backup" /\ UNCHANGED <<damaged, refused, mem, req, then>>
      BY <1>1 DEF BackupMain, Histories, Memory, Return
    <2>2. CASE /\ pc' = "u_open" /\ files'.main = Absent /\ UNCHANGED files.good
               /\ \/ files'.bak = files.main /\ files.main # Absent
                  \/ files'.bak = files.bak /\ files.main = Absent
      <3>1. CASE then = "ready"
        <4>1. Solid /\ req = mem
          BY <2>1, <3>1 DEF AtUpdate
        <4>2. Solid' /\ req' = mem'
          BY <2>1, <2>2, <4>1 DEF Solid
        <4> QED
          BY <2>1, <2>2, <3>1, <4>2, AtBootElsewhere DEF AtUpdate
      <3>2. CASE then # "ready"
        <4>1. req = Default /\ Broken
          BY <2>1, <3>2 DEF AtUpdate
        <4>2. req' = Default /\ Broken'
          BY <2>1, <2>2, <4>1 DEF Broken
        <4> QED
          BY <2>1, <2>2, <3>2, <4>2, AtBootElsewhere DEF AtUpdate
      <3> QED
        BY <3>1, <3>2
    <2>3. CASE Same /\ pc' = then /\ ok' = FALSE
      <3>1. then \in {"load", "ready"}
        BY DEF TypeOK
      <3> QED
        BY <2>1, <2>3, <3>1, AtBootElsewhere DEF AtUpdate, Solid, Same
    <2> QED
      BY <1>1, <2>2, <2>3, RenameEffect DEF BackupMain, Return, Same
  <1>2. CASE OpenTmp
    <2>1. UNCHANGED <<files.main, files.bak, files.good>>
      BY <1>2, StoreEffect DEF OpenTmp, Try, Same
    <2> QED
      BY <1>2, <2>1, SavePoint DEF OpenTmp, Try, Histories
  <1>3. CASE WriteTmp
    <2>1. /\ UNCHANGED <<files.main, files.bak, files.good>>
          /\ pc' = "u_sync" => files'.tmp = req
      BY <1>3, StoreEffect DEF WriteTmp, Try, Same
    <2> QED
      BY <1>3, <2>1, SavePoint DEF WriteTmp, Try, Histories
  <1>4. CASE SyncTmp
    <2>1. files' = files /\ Memory /\ pc = "u_sync" /\ pc' \in {"u_rename", "u_unlink"}
          /\ refused' = refused
      BY <1>4 DEF SyncTmp, Same
    <2>2. then = "load" => damaged' = damaged
      BY <1>4 DEF SyncTmp, TypeOK
    <2>3. pc' = "u_rename" => \A f \in behind' : Recovered(f) = Recovered(files')
      BY <1>4, <2>1 DEF SyncTmp
    <2>4. then' \in {"load", "ready"} /\ then' = then /\ req' = req /\ mem' = mem
      BY <2>1 DEF Memory, TypeOK
    <2> QED
      BY <2>1, <2>2, <2>3, <2>4, AtBootElsewhere DEF AtUpdate, Solid, Broken
  <1>5. CASE RenameTmp
    <2>1. CASE Rename("tmp", "main") /\ pc' = "u_clean"
      <3>1. files'.main = req' /\ Memory
        BY <1>5, <2>1, RenameEffect DEF RenameTmp, AtUpdate, Memory
      <3>2. then' = "ready" => req' = mem'
        BY <1>5, <3>1 DEF RenameTmp, AtUpdate, Memory
      <3> QED
        BY <2>1, <3>1, <3>2, AtBootElsewhere DEF AtUpdate
    <2>2. CASE Same /\ pc' = "u_unlink"
      BY <1>5, <2>2, SavePoint DEF RenameTmp, Same
    <2> QED
      BY <1>5, <2>1, <2>2 DEF RenameTmp
  <1>6. CASE CleanBak
    <2>1. files'.main = files.main /\ files.main = req /\ Return(TRUE) /\ req \in Values
      BY <1>6, StoreEffect DEF CleanBak, Same, AtUpdate, TypeOK
    <2>2. Recovered(files') = req /\ Solid'
      BY <2>1 DEF Recovered, Solid, Valid
    <2>3. then = "ready" => mem' = req
      BY <1>6, <2>1 DEF CleanBak, Return, AtUpdate
    <2>4. pc' \in {"load", "ready"} /\ pc' = then
      BY <2>1 DEF Return, TypeOK
    <2> QED
      BY <2>2, <2>3, <2>4, AtBootElsewhere DEF AtUpdate
  <1>7. CASE UnlinkTmp
    <2>1. UNCHANGED <<files.main, files.bak, files.good>>
      BY <1>7, StoreEffect DEF UnlinkTmp, Try, Same
    <2> QED
      BY <1>7, <2>1, SavePoint DEF UnlinkTmp, Try, Histories
  <1>8. CASE RestoreMain
    <2>1. pc' = then /\ ~ok' /\ then \in {"load", "ready"} /\ pc = "u_restore"
      BY <1>8 DEF RestoreMain, RestoreAndReturn, Return, TypeOK
    <2>2. then = "ready" => Solid'
      <3>1. CASE Rename("bak", "main")
        BY <2>1, <3>1, RenameEffect DEF AtUpdate, Solid
      <3>2. CASE Same
        BY <2>1, <3>2 DEF AtUpdate, Solid, Same
      <3> QED
        BY <1>8, <3>1, <3>2 DEF RestoreMain, RestoreAndReturn
    <2> QED
      BY <2>1, <2>2, AtBootElsewhere DEF AtUpdate
  <1> QED
    BY <1>1, <1>2, <1>3, <1>4, <1>5, <1>6, <1>7, <1>8 DEF Update

LEMMA OtherPoints ==
  ASSUME IInv, Environment \/ \E v \in Values : Change(v)
  PROVE  AtBoot' /\ AtUpdate'
  <1>1. CASE pc' = "off"
    BY <1>1 DEF AtBoot, AtUpdate, Updating
  <1>2. CASE Corrupt
    BY <1>2 DEF Corrupt, AtBoot, AtUpdate, Updating
  <1>3. ASSUME NEW v \in Values, Change(v) PROVE AtBoot' /\ AtUpdate'
    BY <1>3 DEF IInv, Change, Call, Same, AtBoot, AtUpdate, Solid, Updating
  <1> QED
    BY <1>1, <1>2, <1>3 DEF Environment, Crash, PowerLoss
-----------------------------------------------------------------------------
(* What the steps do to the files                                           *)

(* A step that leaves the files, or changes one without changing what a     *)
(* restart finds, and does not lose the last copy.                          *)
Gentle ==
  /\ \/ Same
     \/ /\ behind' = behind \cup {files'}
        /\ \A c \in {files'.main, files'.bak, files'.good} :
             Valid(c) => c \in {files.main, files.bak, files.good}
        /\ damaged' \/ Recovered(files') = Recovered(files)
        /\ HasCopy(files') \/ ~HasCopy(files) \/ refused
  /\ damaged => damaged'
  /\ refused => refused'
  /\ UNCHANGED <<bare, past>>

LEMMA BootGentle == IInv /\ Boot => Gentle
  <1> SUFFICES ASSUME IInv, Boot PROVE Gentle
    OBVIOUS
  <1> USE NotValid DEF IInv
  <1>1. CASE Start \/ CheckMain \/ Load
    BY <1>1 DEF Start, CheckMain, Load, Histories, Gentle
  <1>2. CASE RestoreBak
    <2>1. CASE Rename("bak", "main") /\ Histories
      <3>1. /\ files'.main = files.bak /\ files'.bak = Absent
            /\ files'.good = files.good /\ behind' = behind \cup {files'}
        BY <2>1, RenameEffect
      <3>2. ~Valid(files.main) /\ Valid(files.bak)
        BY <1>2 DEF RestoreBak, AtBoot
      <3> QED
        BY <2>1, <3>1, <3>2 DEF Gentle, Histories, Recovered, HasCopy
    <2> QED
      BY <1>2, <2>1 DEF RestoreBak, Gentle
  <1>3. CASE OpenGood
    <2>1. CASE Store("main", Torn)
      <3>1. /\ files'.main = Torn /\ files'.bak = files.bak
            /\ files'.good = files.good /\ behind' = behind \cup {files'}
        BY <2>1, StoreEffect
      <3>2. ~Valid(files.main) /\ Valid(files.good) /\ Histories
        BY <1>3 DEF OpenGood, AtBoot
      <3> QED
        BY <3>1, <3>2 DEF Gentle, Histories, Recovered, HasCopy
    <2> QED
      BY <1>3, <2>1 DEF OpenGood, Histories, Gentle
  <1>4. CASE CopyGood
    <2>1. CASE Store("main", files.good)
      <3>1. /\ files'.main = files.good /\ files'.bak = files.bak
            /\ files'.good = files.good /\ behind' = behind \cup {files'}
        BY <2>1, StoreEffect
      <3>2. ~Valid(files.main) /\ Valid(files.good) /\ (Valid(files.bak) => damaged) /\ Histories
        BY <1>4 DEF CopyGood, Try, AtBoot
      <3> QED
        BY <3>1, <3>2 DEF Gentle, Histories, Recovered, HasCopy
    <2> QED
      BY <1>4, <2>1 DEF CopyGood, Try, Histories, Gentle
  <1>5. ASSUME NEW c, Store("good", c), ~Valid(c) \/ c = files.main, Valid(files.main), Histories
        PROVE  Gentle
    <2>1. /\ files'.main = files.main /\ files'.bak = files.bak
          /\ files'.good = c /\ behind' = behind \cup {files'}
      BY <1>5, StoreEffect
    <2> QED
      BY <1>5, <2>1 DEF Gentle, Histories, Recovered, HasCopy
  <1>6. CASE UnlinkGood \/ CreateGood \/ FillGood
    <2>1. Valid(files.main) /\ Histories
      BY <1>6 DEF UnlinkGood, CreateGood, FillGood, Try, AtBoot
    <2>2. \/ Same
          \/ \E c \in {Absent, Torn, files.main} : Store("good", c)
      BY <1>6 DEF UnlinkGood, CreateGood, FillGood, Try
    <2>3. CASE Same
      BY <2>1, <2>3 DEF Histories, Gentle
    <2> QED
      BY <1>5, <2>1, <2>2, <2>3
  <1> QED
    BY <1>1, <1>2, <1>3, <1>4, <1>6 DEF Boot

(* fsync, and the rename that puts the new settings in place.               *)
Synced == behind' = {files} /\ files' = files /\ UNCHANGED <<mem, refused, bare, past>>
          /\ (damaged' = damaged \/ damaged' = FALSE)

PutInPlace ==
  /\ behind' = behind \cup {files'}
  /\ Recovered(files') = req /\ Valid(files'.main)
  /\ files'.main = req /\ files'.bak = files.bak /\ files'.good = files.good
  /\ \A f \in behind : Recovered(f) = Recovered(files)
  /\ past' = past \cup {req}
  /\ UNCHANGED <<mem, damaged, refused, bare>>

LEMMA UpdateGentle == IInv /\ Update => \/ Gentle /\ UNCHANGED mem
                                        \/ Synced
                                        \/ RenameTmp /\ PutInPlace
  <1> SUFFICES ASSUME IInv, Update
               PROVE  \/ Gentle /\ UNCHANGED mem
                      \/ Synced
                      \/ RenameTmp /\ PutInPlace
    OBVIOUS
  <1> USE NotValid DEF IInv, Updating
  <1>1. ASSUME Same, Histories PROVE Gentle
    BY <1>1 DEF Histories, Gentle
  <1>2. ASSUME NEW c, Store("tmp", c), Histories PROVE Gentle
    <2>1. /\ files'.main = files.main /\ files'.bak = files.bak
          /\ files'.good = files.good /\ behind' = behind \cup {files'}
      BY <1>2, StoreEffect
    <2> QED
      BY <1>2, <2>1 DEF Gentle, Histories, Recovered, HasCopy
  <1>3. CASE BackupMain
    <2>1. UNCHANGED mem /\ Histories
      BY <1>3 DEF BackupMain, Return, Memory
    <2>2. CASE files.main # Absent /\ Rename("main", "bak")
      <3>1. /\ files'.bak = files.main /\ files'.main = Absent
            /\ files'.good = files.good /\ behind' = behind \cup {files'}
        BY <2>2, RenameEffect
      <3>3. CASE then = "ready"
        <4>1. Valid(files.main)
          BY <1>3, <2>2, <3>3 DEF BackupMain, AtUpdate, Solid
        <4> QED
          BY <2>1, <3>1, <4>1 DEF Gentle, Histories, Recovered, HasCopy
      <3>4. CASE then # "ready"
        <4>1. Broken
          BY <1>3, <3>4 DEF BackupMain, AtUpdate
        <4> QED
          BY <2>1, <3>1, <4>1 DEF Gentle, Histories, Recovered, HasCopy, Broken
      <3> QED
        BY <3>3, <3>4
    <2> QED
      BY <1>1, <1>3, <2>1, <2>2 DEF BackupMain
  <1>4. CASE OpenTmp \/ WriteTmp \/ UnlinkTmp
    BY <1>1, <1>2, <1>4 DEF OpenTmp, WriteTmp, UnlinkTmp, Try, Memory
  <1>5. CASE SyncTmp
    <2>1. CASE behind' = {files}
      BY <1>5, <2>1 DEF SyncTmp, Synced, Memory, Same, TypeOK
    <2>2. CASE Same /\ UNCHANGED damaged
      BY <1>5, <2>2 DEF SyncTmp, Gentle, Memory
    <2> QED
      BY <1>5, <2>1, <2>2 DEF SyncTmp
  <1>6. CASE RenameTmp
    <2>1. CASE Rename("tmp", "main") /\ past' = past \cup {req}
      <3>1. /\ files'.main = files.tmp /\ files'.bak = files.bak
            /\ files'.good = files.good /\ behind' = behind \cup {files'}
        BY <2>1, RenameEffect
      <3>2. files.tmp = req /\ \A f \in behind : Recovered(f) = Recovered(files)
        BY <1>6 DEF RenameTmp, AtUpdate
      <3>3. Valid(files'.main) /\ Recovered(files') = req
        BY <3>1, <3>2 DEF Valid, Recovered, TypeOK
      <3> QED
        BY <1>6, <2>1, <3>1, <3>2, <3>3 DEF RenameTmp, Memory, PutInPlace
    <2>2. CASE Same /\ UNCHANGED past
      BY <1>6, <2>2 DEF RenameTmp, Gentle, Memory
    <2> QED
      BY <1>6, <2>1, <2>2 DEF RenameTmp
  <1>7. CASE CleanBak
    <2>1. UNCHANGED mem /\ Histories
      BY <1>7 DEF CleanBak, Return
    <2>2. CASE Store("bak", Absent)
      <3>1. /\ files'.main = files.main /\ files'.bak = Absent
            /\ files'.good = files.good /\ behind' = behind \cup {files'}
        BY <2>2, StoreEffect
      <3>2. Valid(files.main)
        BY <1>7 DEF CleanBak, AtUpdate, Valid, TypeOK
      <3> QED
        BY <2>1, <3>1, <3>2 DEF Gentle, Histories, Recovered, HasCopy
    <2> QED
      BY <1>1, <1>7, <2>1, <2>2 DEF CleanBak
  <1>8. CASE RestoreMain
    <2>1. UNCHANGED mem /\ Histories /\ files.main = Absent
      BY <1>8 DEF RestoreMain, RestoreAndReturn, Return, AtUpdate
    <2>2. CASE Rename("bak", "main")
      <3>1. /\ files'.main = files.bak /\ files'.bak = Absent
            /\ files'.good = files.good /\ behind' = behind \cup {files'}
        BY <2>2, RenameEffect
      <3> QED
        BY <2>1, <3>1 DEF Gentle, Histories, Recovered, HasCopy
    <2> QED
      BY <1>1, <1>8, <2>1, <2>2 DEF RestoreMain, RestoreAndReturn
  <1> QED
    BY <1>3, <1>4, <1>5, <1>6, <1>7, <1>8 DEF Update
-----------------------------------------------------------------------------
(* The states a power cut can bring back                                    *)

LEMMA GentleBehind ==
  ASSUME IInv, Gentle
  PROVE  Behind' /\ AtMostOneLost'
  <1> USE DEF IInv
  <1>1. files \in behind /\ \A f \in behind : \A c \in {f.main, f.bak, f.good} :
                              Valid(c) => c \in past
    BY DEF Behind
  <1>2. CASE Same
    BY <1>2 DEF Gentle, Same, Behind, AtMostOneLost
  <1>3. CASE /\ behind' = behind \cup {files'}
             /\ \A c \in {files'.main, files'.bak, files'.good} :
                  Valid(c) => c \in {files.main, files.bak, files.good}
             /\ damaged' \/ Recovered(files') = Recovered(files)
             /\ HasCopy(files') \/ ~HasCopy(files) \/ refused
    <2>1. \A c \in {files'.main, files'.bak, files'.good} : Valid(c) => c \in past
      BY <1>1, <1>3
    <2>2. \A f \in behind' : \A c \in {f.main, f.bak, f.good} : Valid(c) => c \in past'
      BY <1>1, <1>3, <2>1 DEF Gentle
    <2>3. ~refused' /\ ~bare' => Default \in past' \/ \A f \in behind' : HasCopy(f)
      BY <1>1, <1>3 DEF Gentle, Behind, TypeOK
    <2>4. AtMostOneLost'
      <3> SUFFICES ASSUME ~damaged'
                   PROVE  \E old \in Values :
                            \A f \in behind' : Recovered(f) \in {old, Recovered(files')}
        BY DEF AtMostOneLost
      <3>1. ~damaged /\ Recovered(files') = Recovered(files)
        BY <1>3 DEF Gentle, TypeOK
      <3>2. PICK old \in Values : \A f \in behind : Recovered(f) \in {old, Recovered(files)}
        BY <3>1 DEF AtMostOneLost
      <3> QED
        BY <1>3, <3>1, <3>2
    <2> QED
      BY <1>3, <2>2, <2>3, <2>4 DEF Behind
  <1> QED
    BY <1>2, <1>3 DEF Gentle

(* One state only can be brought back.                                      *)
LEMMA SingleBehind ==
  ASSUME IInv, behind' = {files'}, past' = past, refused' = refused, bare => bare',
         \A c \in {files'.main, files'.bak, files'.good} :
           Valid(c) => \E f \in behind : c \in {f.main, f.bak, f.good},
         HasCopy(files') \/ bare' \/ \E f \in behind : ~HasCopy(f)
  PROVE  Behind' /\ AtMostOneLost'
  <1>1. Behind'
    BY DEF IInv, Behind
  <1>2. \E old \in Values : \A f \in behind' : Recovered(f) \in {old, Recovered(files')}
    BY RecoveredType
  <1> QED
    BY <1>1, <1>2 DEF AtMostOneLost

LEMMA PutBehind ==
  ASSUME IInv, PutInPlace
  PROVE  Behind' /\ AtMostOneLost'
  <1> USE DEF IInv
  <1>1. files \in behind /\ \A f \in behind : \A c \in {f.main, f.bak, f.good} :
                              Valid(c) => c \in past
    BY DEF Behind
  <1>2. \A f \in behind' : \A c \in {f.main, f.bak, f.good} : Valid(c) => c \in past'
    BY <1>1 DEF PutInPlace
  <1>3. ~refused' /\ ~bare' => Default \in past' \/ \A f \in behind' : HasCopy(f)
    BY <1>1 DEF PutInPlace, Behind, HasCopy
  <1>4. \A f \in behind' : Recovered(f) \in {Recovered(files), Recovered(files')}
    BY DEF PutInPlace
  <1>5. AtMostOneLost'
    BY <1>4, RecoveredType DEF AtMostOneLost
  <1> QED
    BY <1>2, <1>3, <1>5 DEF Behind, PutInPlace

LEMMA EnvironmentBehind ==
  ASSUME IInv, Environment
  PROVE  Behind' /\ AtMostOneLost'
  <1> USE DEF IInv
  <1>1. CASE Crash
    BY <1>1, GentleBehind DEF Crash, Histories, Gentle
  <1>2. CASE PowerLoss
    <2> PICK f \in behind : files' = f /\ behind' = {f}
      BY <1>2 DEF PowerLoss
    <2>1. HasCopy(files') \/ \E g \in behind : ~HasCopy(g)
      OBVIOUS
    <2> QED
      BY <1>2, <2>1, SingleBehind DEF PowerLoss, Histories
  <1>3. CASE Corrupt
    <2>1. /\ files'.main = Torn /\ files'.bak = files.bak /\ files'.good = files.good
      BY <1>3 DEF Corrupt, TypeOK, Files
    <2>2. bare' = (bare \/ ~HasCopy(files')) /\ bare \in BOOLEAN
      BY <1>3 DEF Corrupt, TypeOK
    <2>3. files \in behind
      BY DEF Behind
    <2> QED
      BY <1>3, <2>1, <2>2, <2>3, NotValid, SingleBehind DEF Corrupt
  <1> QED
    BY <1>1, <1>2, <1>3 DEF Environment

LEMMA StepInv == IInv /\ [Next]_vars => IInv'
  <1> SUFFICES ASSUME IInv, [Next]_vars PROVE IInv'
    OBVIOUS
  <1>1. TypeOK'
    BY TypeStep DEF IInv
  <1>2. CASE UNCHANGED vars
    BY <1>2 DEF vars, IInv, TypeOK, AtBoot, AtUpdate, Solid, Broken, Behind, AtMostOneLost
  <1>3. CASE Boot
    BY <1>1, <1>3, BootPoints, BootGentle, GentleBehind DEF IInv
  <1>4. CASE Update
    <2>1. CASE Synced
      <3>1. files \in behind
        BY DEF IInv, Behind
      <3> QED
        BY <1>1, <1>4, <2>1, <3>1, UpdatePoints, SingleBehind DEF IInv, Synced
    <2> QED
      BY <1>1, <1>4, <2>1, UpdatePoints, UpdateGentle, GentleBehind, PutBehind DEF IInv
  <1>5. CASE Environment
    BY <1>1, <1>5, OtherPoints, EnvironmentBehind DEF IInv
  <1>6. ASSUME NEW v \in Values, Change(v) PROVE IInv'
    <2>1. Gentle
      BY <1>6 DEF Change, Histories, Gentle
    <2> QED
      BY <1>1, <1>6, <2>1, OtherPoints, GentleBehind DEF IInv
  <1> QED
    BY <1>2, <1>3, <1>4, <1>5, <1>6 DEF Next

THEOREM Invariance == Spec => []IInv
  BY InitInv, StepInv, PTL DEF Spec

(* A power cut loses at most the last save.                                 *)
THEOREM OneSaveAtMost == Spec => []AtMostOneLost
  BY Invariance, PTL DEF IInv

(* Settings that were never saved do not come up, the defaults above all,   *)
(* for as long as the rename that restores .bak has not been refused, and   *)
(* the main file not been damaged while it was the only copy.               *)
THEOREM NeverReset == Spec => []NoReset
  <1>1. IInv => NoReset
    BY DEF IInv, Behind, NoReset, Recovered, HasCopy
  <1> QED
    BY <1>1, Invariance, PTL

(* A save that was reported successful is on the disk.                      *)
THEOREM SaveIsStored == Spec => []DiskFollowsMemory
  <1>1. IInv => DiskFollowsMemory
    BY DEF IInv, AtUpdate, DiskFollowsMemory
  <1> QED
    BY <1>1, Invariance, PTL
-----------------------------------------------------------------------------
(* The store is atomic                                                      *)

LEMMA AtomicInit == Init => Store_!Init
  BY InitType, RecoveredType DEF Init, TypeOK, Store_!Init

LEMMA GentleAtomic ==
  ASSUME IInv, TypeOK', Gentle, UNCHANGED mem
  PROVE  [Store_!Next]_(Store_!vars)
  <1>1. files \in behind
    BY DEF IInv, Behind
  <1>2. Same \/ behind' = behind \cup {files'}
    BY DEF Gentle
  <1>3. {Recovered(f) : f \in behind'} \subseteq
          {Recovered(f) : f \in behind} \cup {Recovered(files')}
    BY <1>2 DEF Same
  <1>4. CASE damaged'
    <2>1. Store_!Damage
      BY <1>3, <1>4, RecoveredType DEF Store_!Damage
    <2> QED
      BY <2>1 DEF Store_!Next
  <1>5. CASE ~damaged'
    <2>1. damaged' = damaged
      BY <1>5 DEF Gentle, IInv, TypeOK
    <2>2. Recovered(files') = Recovered(files)
      BY <1>5 DEF Gentle, Same
    <2>3. {Recovered(f) : f \in behind'} = {Recovered(f) : f \in behind}
      BY <1>1, <1>2, <2>2 DEF Same
    <2> QED
      BY <2>1, <2>2, <2>3 DEF Store_!vars
  <1> QED
    BY <1>4, <1>5

LEMMA SyncAtomic ==
  ASSUME IInv, Synced
  PROVE  Store_!Next
  <1>1. {Recovered(f) : f \in behind'} = {Recovered(files)}
    BY DEF Synced
  <1>2. Store_!Sync
    BY <1>1 DEF Synced, Store_!Sync
  <1> QED
    BY <1>2 DEF Store_!Next

(* A save's rename is the one step that stores. The rename that stores the  *)
(* defaults, after no copy was found, changes nothing a restart would find. *)
LEMMA PutAtomic ==
  ASSUME IInv, RenameTmp, PutInPlace
  PROVE  [Store_!Next]_(Store_!vars)
  <1>1. files \in behind
    BY DEF IInv, Behind
  <1>2. {Recovered(f) : f \in behind'} = {Recovered(f) : f \in behind} \cup {req}
    BY DEF PutInPlace
  <1>3. pc = "u_rename" /\ UNCHANGED <<mem, damaged>> /\ Recovered(files') = req
    BY DEF RenameTmp, PutInPlace
  <1>4. CASE then = "ready"
    <2>1. req = mem
      BY <1>3, <1>4 DEF IInv, AtUpdate, Updating
    <2>2. Store_!Put
      BY <1>2, <1>3, <2>1 DEF Store_!Put
    <2> QED
      BY <2>2 DEF Store_!Next
  <1>5. CASE then # "ready"
    <2>1. Broken /\ req = Default
      BY <1>3, <1>5 DEF IInv, AtUpdate, Updating
    <2>2. CASE Valid(files.bak)
      <3>1. damaged'
        BY <1>3, <2>1, <2>2 DEF Broken
      <3>2. Store_!Damage
        BY <1>2, <1>3, <3>1, RecoveredType DEF Store_!Damage
      <3> QED
        BY <3>2 DEF Store_!Next
    <2>3. CASE ~Valid(files.bak)
      <3>1. Recovered(files) = req
        BY <2>1, <2>3 DEF Broken, Recovered
      <3>2. {Recovered(f) : f \in behind'} = {Recovered(f) : f \in behind}
        BY <1>1, <1>2, <3>1
      <3> QED
        BY <1>3, <3>1, <3>2 DEF Store_!vars
    <2> QED
      BY <2>2, <2>3
  <1> QED
    BY <1>4, <1>5

LEMMA AtomicStep ==
  ASSUME IInv, [Next]_vars
  PROVE  [Store_!Next]_(Store_!vars)
  <1>1. TypeOK'
    BY TypeStep DEF IInv
  <1>2. CASE UNCHANGED vars
    BY <1>2 DEF vars, Store_!vars
  <1>3. CASE Load
    <2>1. CASE Valid(files.main) /\ mem' = files.main
      <3>1. Store_!Load
        BY <1>3, <2>1 DEF Load, Same, Histories, Recovered, Store_!Load
      <3> QED
        BY <3>1 DEF Store_!Next
    <2>2. CASE UNCHANGED mem
      BY <1>3, <2>2 DEF Load, Same, Histories, Store_!vars
    <2> QED
      BY <1>3, <2>1, <2>2 DEF Load
  <1>4. CASE Boot /\ ~Load
    <2>1. UNCHANGED mem
      BY <1>4 DEF Boot, Start, CheckMain, FromGood, WriteDefaults, RestoreBak, OpenGood,
                  CopyGood, UnlinkGood, CreateGood, FillGood, Try, Memory
    <2> QED
      BY <1>1, <1>4, <2>1, BootGentle, GentleAtomic
  <1>5. CASE Update
    BY <1>1, <1>5, UpdateGentle, GentleAtomic, SyncAtomic, PutAtomic
  <1>6. CASE Crash
    BY <1>6 DEF Crash, Same, Memory, Histories, Store_!vars
  <1>7. CASE PowerLoss
    <2> PICK f \in behind : files' = f /\ behind' = {f}
      BY <1>7 DEF PowerLoss
    <2>1. /\ Recovered(files') \in {Recovered(g) : g \in behind}
          /\ {Recovered(g) : g \in behind'} = {Recovered(files')}
      OBVIOUS
    <2>2. Store_!PowerCut
      BY <1>7, <2>1 DEF PowerLoss, Memory, Histories, Store_!PowerCut
    <2> QED
      BY <2>2 DEF Store_!Next
  <1>8. CASE Corrupt
    <2>1. {Recovered(f) : f \in behind'} = {Recovered(files')}
      BY <1>8 DEF Corrupt
    <2>2. Store_!Damage
      BY <1>8, <2>1, RecoveredType DEF Corrupt, Memory, Store_!Damage
    <2> QED
      BY <2>2 DEF Store_!Next
  <1>9. ASSUME NEW v \in Values, Change(v) PROVE Store_!Next
    <2>1. Store_!Ask(v)
      BY <1>9 DEF Change, Same, Histories, Store_!Ask
    <2> QED
      BY <2>1 DEF Store_!Next
  <1> QED
    BY <1>2, <1>3, <1>4, <1>5, <1>6, <1>7, <1>8, <1>9 DEF Next, Environment

(* Saving, starting up and backing up, taken together with every way they   *)
(* can be cut short, amount to one atomic store.                            *)
THEOREM StoreRefined == Spec => Atomic
  <1>1. Spec => Store_!Init /\ [][Store_!Next]_(Store_!vars)
    BY AtomicInit, AtomicStep, Invariance, PTL DEF Spec
  <1> QED
    BY <1>1 DEF Atomic, Store_!Spec
=============================================================================
