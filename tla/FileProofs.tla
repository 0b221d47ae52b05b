----------------------------- MODULE FileProofs ----------------------------
(***************************************************************************)
(* Proofs about the files of the root agent, for every number of calls, kills *)
(* and steps of others: WriteFile (FileWrite) and RemoveDir (RemoveTree).   *)
(***************************************************************************)
EXTENDS FileWrite, RemoveTree, TLAPS

-----------------------------------------------------------------------------
(* WriteFile.                                                               *)

(* The steps up to the replacement of the path, and those of storing a file *)
(* at a name.                                                               *)
Before == {"back up", "copy", "create", "write", "sync", "rename"}
Storing == {"create", "write", "sync", "rename"}

(* The path is as the call found it.                                        *)
Untouched == at \in Before \/ (at = "sync directory" /\ into = "backup")

(* The types, a little stronger than WriteTypeOK: every file there is,      *)
(* and the bound on the calls.                                             *)
WTypes ==
    /\ MaxCalls \in Nat
    /\ mem \in [Names -> File] /\ disk \in [Names -> File]
    /\ temp \in File /\ prior \in File
    /\ data \in 1..MaxCalls + 1
    /\ into \in Names
    /\ at \in Before \cup {"idle", "sync directory", "chown"}
    /\ opts \in [backup : YesNo, owner : YesNo]
    /\ unsynced \in YesNo /\ outage \in YesNo

(* What holds at each step of a call: what the temporary file holds by then, *)
(* which backend gets there, and when it is the backup that is stored.      *)
StepInv ==
    /\ at = "sync" => Direct
    /\ at \in {"sync", "rename"} => temp.whole = "yes"
    /\ Direct /\ at = "rename" => temp.synced = "yes"
    /\ at \in {"write", "sync", "rename"} => temp.ver = Payload
    /\ at # "idle" => result = "none" /\ data >= 2
    /\ at \in {"sync directory", "chown"} => Direct
    /\ at = "copy" => ~Direct /\ mem["backup"].ver = prior.ver
    /\ at # "idle" /\ into = "backup" =>
          Direct /\ prior.ver # 0 /\ at \in Storing \cup {"sync directory"}
    /\ at = "sync directory" /\ into = "backup" => mem["backup"].ver = prior.ver

(* The path keeps what the call found until the replacement; a version is   *)
(* written by one call, and a path that had a file keeps having one.        *)
VerInv ==
    /\ mem["path"].ver <= data /\ disk["path"].ver <= data
    /\ Untouched => mem["path"] = prior /\ prior.ver < data /\ disk["path"].ver < data
    /\ existed = "yes" => mem["path"].ver # 0 /\ disk["path"].ver # 0
    /\ result = "replace failed" => mem["path"] = prior

(* What is at a name is whole: for writeDirect because it was synced before *)
(* its rename, for writePrivileged because mv moves a file that is complete. *)
SolidInv ==
    /\ Direct => /\ \A n \in Names : /\ mem[n].whole = "yes" /\ mem[n].synced = "yes"
                                     /\ disk[n].whole = "yes" /\ disk[n].synced = "yes"
    /\ ~Direct => Exposed \/ mem["path"].whole = "yes"

(* The new content is at the path, or will be without another look at the   *)
(* backup.                                                                  *)
Committed ==
    \/ mem["path"].ver = data \/ disk["path"].ver = data
    \/ at \in Storing /\ into = "path"

(* Before the new content can be at the path, what was there is in the backup, *)
(* also on the disk unless a sync of the directory failed.                  *)
KeptInv ==
    opts.backup = "yes" /\ prior.ver # 0 /\ prior.whole = "yes" /\ ~Exposed /\ Committed =>
        /\ mem["backup"].ver = prior.ver /\ mem["backup"].whole = "yes"
        /\ Direct /\ unsynced = "no" =>
              disk["backup"].ver = prior.ver /\ disk["backup"].whole = "yes"

(* The inductive invariant.                                                 *)
WInv == WTypes /\ StepInv /\ VerInv /\ SolidInv /\ KeptInv

(* The bound on the calls is a number.                                      *)
LEMMA CallsBound == ASSUME WTypes PROVE MaxCalls \in Nat
BY Zenon DEF WTypes

(* A loss of power cuts no file short that was synced, and changes no version. *)
LEMMA PowerLossEffect ==
    ASSUME WTypes, PowerLoss
    PROVE  /\ mem' \in [Names -> File] /\ disk' = mem'
           /\ \A n \in Names : /\ mem'[n].ver = disk[n].ver /\ mem'[n].synced = "yes"
                               /\ disk[n].synced = "yes" => mem'[n].whole = disk[n].whole
<1>1. ASSUME NEW f \in File, NEW g \in Survives(f)
      PROVE  /\ g \in File /\ g.ver = f.ver /\ g.synced = "yes"
             /\ f.synced = "yes" => g.whole = f.whole
  BY Zenon, <1>1 DEF Survives, File, YesNo
<1>2. PICK p \in Survives(disk["path"]), b \in Survives(disk["backup"]) :
          mem' = [n \in Names |-> IF n = "path" THEN p ELSE b]
  BY DEF PowerLoss
<1>3. disk["path"] \in File /\ disk["backup"] \in File
  BY Zenon DEF WTypes, Names
<1> QED
  BY <1>1, <1>2, <1>3 DEF PowerLoss, Names

(* A rename puts the temporary file at the one name.                        *)
LEMMA RenameEffect ==
    ASSUME WTypes, Rename
    PROVE  /\ mem' \in [Names -> File] /\ mem'[into] = temp
           /\ \A n \in Names \ {into} : mem'[n] = mem[n]
BY Zenon DEF WTypes, Rename

(* cp makes the backup, or begins to: it has the version of the path.       *)
LEMMA CopyStartsEffect ==
    ASSUME WTypes, CopyStarts, prior.ver # 0
    PROVE  /\ mem' \in [Names -> File] /\ mem'["path"] = mem["path"] /\ at' = "copy"
           /\ mem'["backup"].ver = prior.ver
<1> DEFINE b == [ver |-> prior.ver, whole |-> "no", synced |-> "no"]
<1>1. prior.ver \in 0..MaxCalls + 1
  BY Zenon DEF WTypes, File
<1>2. b \in File /\ b.ver = prior.ver
  BY <1>1 DEF File, YesNo
<1>3. mem' = [mem EXCEPT !["backup"] = b] /\ at' = "copy"
  BY Zenon DEF CopyStarts
<1> HIDE DEF b
<1> QED
  BY Zenon, <1>2, <1>3 DEF WTypes, Names

(* The version of a call, as a number.                                      *)
LEMMA DataRange == ASSUME WTypes PROVE data \in Nat /\ data >= 1 /\ data <= MaxCalls + 1
<1>1. data \in 1..MaxCalls + 1
  BY Zenon DEF WTypes
<1> QED BY <1>1, CallsBound

(* The versions of the files there are, as numbers.                         *)
LEMMA Versions ==
    ASSUME WTypes
    PROVE  /\ \A n \in Names : mem[n].ver \in Nat /\ disk[n].ver \in Nat
           /\ temp.ver \in Nat /\ prior.ver \in 0..MaxCalls + 1 /\ prior.ver \in Nat
<1>1. \A f \in File : f.ver \in 0..MaxCalls + 1 /\ f.ver \in Nat
  BY CallsBound DEF File
<1> QED BY Zenon, <1>1 DEF WTypes

(* What a call begins with.                                                 *)
LEMMA WriteStartsEffect ==
    ASSUME WTypes, WriteStarts
    PROVE  /\ data' = data + 1 /\ data' \in 1..MaxCalls + 1 /\ data' >= 2
           /\ prior' = mem["path"] /\ result' = "none" /\ into' = "path"
           /\ \/ at' = "back up" /\ opts'.backup = "yes"
              \/ at' = "create" /\ opts'.backup # "yes"
           /\ UNCHANGED <<worldVars, mem, disk, temp>>
<1>1. data' = data + 1 /\ data <= MaxCalls
  BY Zenon DEF WriteStarts
<1>2. data' \in 1..MaxCalls + 1 /\ data' >= 2
  BY <1>1, DataRange, CallsBound
<1> QED BY Zenon, <1>1, <1>2 DEF WriteStarts

(* An absent file is one.                                                   *)
LEMMA NoFileType == ASSUME WTypes PROVE NoFile \in File
BY CallsBound DEF NoFile, File, YesNo

(* The version that a call writes is at the path neither when it begins nor *)
(* before it renames.                                                       *)
LEMMA FreshVersion ==
    ASSUME WTypes, VerInv, WriteStarts
    PROVE  /\ mem["path"].ver < data' /\ disk["path"].ver < data'
           /\ mem["path"].ver <= data' /\ disk["path"].ver <= data'
           /\ mem["path"].ver # data' /\ disk["path"].ver # data'
<1>1. mem["path"].ver <= data /\ disk["path"].ver <= data
  BY Zenon DEF VerInv
<1>2. mem["path"].ver \in Nat /\ disk["path"].ver \in Nat
  BY Versions DEF Names
<1>3. data \in Nat /\ data' = data + 1
  BY Zenon, DataRange, WriteStartsEffect
<1> QED BY <1>1, <1>2, <1>3

(* While the path is as the call found it, the version of the call is not   *)
(* there.                                                                   *)
LEMMA NotYetWritten ==
    ASSUME WTypes, VerInv, Untouched
    PROVE  mem["path"].ver # data /\ disk["path"].ver # data
<1>1. mem["path"].ver < data /\ disk["path"].ver < data
  BY Zenon DEF VerInv
<1>2. mem["path"].ver \in Nat /\ disk["path"].ver \in Nat
  BY Versions DEF Names
<1> QED BY <1>1, <1>2, DataRange

(* What is renamed to the path is the version of the call.                  *)
LEMMA RenamedVersion ==
    ASSUME WTypes, StepInv, Rename, into = "path"
    PROVE  mem'["path"].ver = data /\ mem'["path"].ver <= data /\ mem'["path"].ver # 0
<1>1. temp.ver = data /\ data >= 2
  BY Zenon DEF StepInv, Rename, Payload
<1>2. mem'["path"].ver = data
  BY <1>1, RenameEffect
<1> QED BY <1>1, <1>2, DataRange

(* What a call stores, the content or the backup, has a version.            *)
LEMMA PayloadType == ASSUME WTypes PROVE Payload \in 0..MaxCalls + 1
<1>1. data \in 0..MaxCalls + 1
  BY DataRange, CallsBound
<1> QED BY <1>1, Versions DEF Payload

(* Every step of WriteFile, kill and loss of power preserves WTypes.        *)
LEMMA TypesStep == WInv /\ WriteNext => WTypes'
<1> SUFFICES ASSUME WInv, WriteNext PROVE WTypes'
  OBVIOUS
<1> USE CallsBound DEF WInv, callVars, worldVars, WTypes
<1>1. ASSUME NEW n \in Names, Writeback(n) PROVE WTypes'
  BY Zenon, <1>1 DEF Writeback
<1>2. CASE PowerLoss
  BY Zenon, <1>2, PowerLossEffect, NoFileType DEF PowerLoss, YesNo
<1>3. CASE SyncDirectory
  <2>1. disk' \in [Names -> File]
    BY Zenon, <1>3 DEF SyncDirectory
  <2>2. into' \in Names /\ at' \in Before \cup {"idle", "sync directory", "chown"} /\ unsynced' \in YesNo
    BY Zenon, <1>3 DEF SyncDirectory, Replaced, Before, Names, YesNo
  <2> QED BY Zenon, <1>3, <2>1, <2>2 DEF SyncDirectory, Replaced
<1>4. CASE Killed
  BY Zenon, <1>4 DEF Killed
<1>5. CASE WriteStarts
  <2>1. prior' \in File
    BY Zenon, <1>5 DEF WriteStarts, Names
  <2>2. data' \in 1..MaxCalls + 1
    BY Zenon, <1>5, WriteStartsEffect
  <2>3. into' \in Names /\ at' \in Before
    BY Zenon, <1>5 DEF WriteStarts, Names, Before
  <2> QED BY Zenon, <1>5, <2>1, <2>2, <2>3 DEF WriteStarts
<1>6. CASE ReplaceFails
  BY Zenon, <1>6, NoFileType DEF ReplaceFails
<1>7. CASE ReadCurrent
  BY Zenon, <1>7 DEF ReadCurrent, Names, Before
<1>8. CASE CreateTemp
  <2>1. temp' \in File
    BY <1>8, PayloadType DEF CreateTemp, File, YesNo
  <2> QED BY <1>8, <2>1 DEF CreateTemp, Before
<1>9. CASE WriteTemp
  <2>1. temp' \in File
    BY <1>9 DEF WriteTemp, File, YesNo
  <2> QED BY <1>9, <2>1 DEF WriteTemp, Before
<1>10. CASE SyncTemp
  <2>1. temp' \in File
    BY <1>10 DEF SyncTemp, File, YesNo
  <2> QED BY <1>10, <2>1 DEF SyncTemp, Before
<1>11. CASE Rename
  BY Zenon, <1>11, RenameEffect, NoFileType DEF Rename
<1>12. CASE Chown
  BY Zenon, <1>12 DEF Chown
<1>13. CASE CopyStarts
  <2>1. CASE prior.ver = 0
    BY Zenon, <1>13, <2>1 DEF CopyStarts, Before
  <2>2. CASE prior.ver # 0
    BY Zenon, <1>13, <2>2, CopyStartsEffect DEF CopyStarts, Before
  <2> QED BY Zenon, <2>1, <2>2
<1>14. CASE CopyEnds
  <2>1. [mem["backup"] EXCEPT !.whole = prior.whole] \in File
    BY Zenon DEF File, Names
  <2> QED BY <1>14, <2>1 DEF CopyEnds, Before, Names
<1>15. CASE FillTemp
  <2>1. temp' \in File
    BY <1>15 DEF FillTemp, File, YesNo
  <2> QED BY <1>15, <2>1 DEF FillTemp, Before
<1>16. CASE Mv
  BY Zenon, <1>16, NoFileType DEF Mv, Names
<1> QED
  BY Zenon, <1>1, <1>2, <1>3, <1>4, <1>5, <1>6, <1>7, <1>8, <1>9, <1>10, <1>11, <1>12, <1>13,
     <1>14, <1>15, <1>16 DEF WriteNext

(* Every step of WriteFile, kill and loss of power preserves StepInv.       *)
LEMMA StepsStep == WInv /\ WriteNext => StepInv'
<1> SUFFICES ASSUME WInv, WriteNext PROVE StepInv'
  OBVIOUS
<1> USE CallsBound DEF WInv, callVars, worldVars, Names, File, NoFile, YesNo, WTypes,
        StepInv, Before, Storing, Payload, Direct
<1>1. ASSUME NEW n \in Names, Writeback(n) PROVE StepInv'
  BY Zenon, <1>1 DEF Writeback
<1>2. CASE PowerLoss
  BY Zenon, <1>2 DEF PowerLoss, Survives
<1>3. CASE SyncDirectory
  BY Zenon, <1>3 DEF SyncDirectory, Replaced
<1>4. CASE Killed
  BY Zenon, <1>4 DEF Killed
<1>5. CASE WriteStarts
  <2> HIDE DEF WTypes
  <2> QED BY Zenon, <1>5, WriteStartsEffect
<1>6. CASE ReplaceFails
  BY Zenon, <1>6 DEF ReplaceFails
<1>7. CASE ReadCurrent
  BY Zenon, <1>7 DEF ReadCurrent
<1>8. CASE CreateTemp
  BY <1>8 DEF CreateTemp
<1>9. CASE WriteTemp
  BY <1>9 DEF WriteTemp
<1>10. CASE SyncTemp
  BY <1>10 DEF SyncTemp
<1>11. CASE Rename
  BY Zenon, <1>11 DEF Rename
<1>12. CASE Chown
  BY Zenon, <1>12 DEF Chown
<1>13. CASE CopyStarts
  <2>1. CASE prior.ver = 0
    BY Zenon, <1>13, <2>1 DEF CopyStarts
  <2>2. CASE prior.ver # 0
    BY Zenon, <1>13, <2>2, CopyStartsEffect DEF CopyStarts
  <2> QED BY Zenon, <2>1, <2>2
<1>14. CASE CopyEnds
  BY <1>14 DEF CopyEnds
<1>15. CASE FillTemp
  BY <1>15 DEF FillTemp
<1>16. CASE Mv
  BY Zenon, <1>16 DEF Mv
<1> QED
  BY Zenon, <1>1, <1>2, <1>3, <1>4, <1>5, <1>6, <1>7, <1>8, <1>9, <1>10, <1>11, <1>12, <1>13,
     <1>14, <1>15, <1>16 DEF WriteNext

(* Every step of WriteFile, kill and loss of power preserves VerInv.        *)
LEMMA VerStep == WInv /\ WriteNext => VerInv'
<1> SUFFICES ASSUME WInv, WriteNext PROVE VerInv'
  OBVIOUS
<1> USE CallsBound DEF WInv, callVars, worldVars, Names, File, NoFile, YesNo, WTypes,
        StepInv, VerInv, Before, Untouched, Storing, Payload, Direct
<1>1. ASSUME NEW n \in Names, Writeback(n) PROVE VerInv'
  BY Zenon, <1>1 DEF Writeback
<1>2. CASE PowerLoss
  <2>1. UNCHANGED <<data, prior, existed>> /\ at' = "idle" /\ result' = "none"
    BY Zenon, <1>2 DEF PowerLoss
  <2>2. mem'["path"].ver = disk["path"].ver /\ disk'["path"].ver = disk["path"].ver
    BY Zenon, <1>2, PowerLossEffect
  <2> HIDE DEF WTypes
  <2> QED BY Zenon, <2>1, <2>2
<1>3. CASE SyncDirectory
  BY Zenon, <1>3 DEF SyncDirectory, Replaced
<1>4. CASE Killed
  BY Zenon, <1>4 DEF Killed
<1>5. CASE WriteStarts
  <2> HIDE DEF WTypes, StepInv
  <2> QED BY Zenon, <1>5, FreshVersion, WriteStartsEffect
<1>6. CASE ReplaceFails
  BY Zenon, <1>6 DEF ReplaceFails
<1>7. CASE ReadCurrent
  BY Zenon, <1>7 DEF ReadCurrent
<1>8. CASE CreateTemp
  BY <1>8 DEF CreateTemp
<1>9. CASE WriteTemp
  BY <1>9 DEF WriteTemp
<1>10. CASE SyncTemp
  BY <1>10 DEF SyncTemp
<1>11. CASE Rename
  <2>1. /\ UNCHANGED <<data, prior, existed, disk, into, result>> /\ at' = "sync directory"
        /\ at = "rename" /\ into \in {"path", "backup"}
    BY Zenon, <1>11 DEF Rename
  <2>2. CASE into = "backup"
    <3>1. UNCHANGED mem["path"]
      BY Zenon, <1>11, <2>2, RenameEffect
    <3> HIDE DEF WTypes
    <3> QED BY Zenon, <2>1, <2>2, <3>1
  <2>3. CASE into = "path"
    <3>1. result' # "replace failed" /\ ~Untouched'
      BY Zenon, <2>1, <2>3
    <3> HIDE DEF WTypes, StepInv, Untouched
    <3> QED BY Zenon, <1>11, <2>1, <2>3, <3>1, RenamedVersion
  <2> QED BY Zenon, <2>1, <2>2, <2>3
<1>12. CASE Chown
  BY Zenon, <1>12 DEF Chown
<1>13. CASE CopyStarts
  BY Zenon, <1>13 DEF CopyStarts
<1>14. CASE CopyEnds
  BY <1>14 DEF CopyEnds
<1>15. CASE FillTemp
  BY <1>15 DEF FillTemp
<1>16. CASE Mv
  BY SMTT(30), <1>16 DEF Mv
<1> QED
  BY Zenon, <1>1, <1>2, <1>3, <1>4, <1>5, <1>6, <1>7, <1>8, <1>9, <1>10, <1>11, <1>12, <1>13,
     <1>14, <1>15, <1>16 DEF WriteNext

(* Every step of WriteFile, kill and loss of power preserves SolidInv.      *)
LEMMA SolidStep == WInv /\ WriteNext => SolidInv'
<1> SUFFICES ASSUME WInv, WriteNext PROVE SolidInv'
  OBVIOUS
<1> USE CallsBound DEF WInv, callVars, worldVars, Names, File, NoFile, YesNo, WTypes,
        StepInv, SolidInv, Before, Exposed, Direct
<1>1. ASSUME NEW n \in Names, Writeback(n) PROVE SolidInv'
  BY Zenon, <1>1 DEF Writeback
<1>2. CASE PowerLoss
  <2>1. outage' = "yes" /\ UNCHANGED backend
    BY Zenon, <1>2 DEF PowerLoss
  <2> HIDE DEF WTypes
  <2> QED BY Zenon, <1>2, <2>1, PowerLossEffect
<1>3. CASE SyncDirectory
  <2>1. Direct /\ UNCHANGED <<backend, mem>>
    BY Zenon, <1>3 DEF SyncDirectory
  <2>2. \A n \in Names : disk'[n] = disk[n] \/ disk'[n] = mem[n]
    BY Zenon, <1>3 DEF SyncDirectory
  <2> HIDE DEF WTypes
  <2> QED BY Zenon, <2>1, <2>2
<1>4. CASE Killed
  BY Zenon, <1>4 DEF Killed
<1>5. CASE WriteStarts
  BY Zenon, <1>5 DEF WriteStarts
<1>6. CASE ReplaceFails
  BY Zenon, <1>6 DEF ReplaceFails
<1>7. CASE ReadCurrent
  BY Zenon, <1>7 DEF ReadCurrent
<1>8. CASE CreateTemp
  BY <1>8 DEF CreateTemp
<1>9. CASE WriteTemp
  BY <1>9 DEF WriteTemp
<1>10. CASE SyncTemp
  BY <1>10 DEF SyncTemp
<1>11. CASE Rename
  BY Zenon, <1>11 DEF Rename
<1>12. CASE Chown
  BY Zenon, <1>12 DEF Chown
<1>13. CASE CopyStarts
  BY Zenon, <1>13 DEF CopyStarts
<1>14. CASE CopyEnds
  BY <1>14 DEF CopyEnds
<1>15. CASE FillTemp
  BY <1>15 DEF FillTemp
<1>16. CASE Mv
  BY Zenon, <1>16 DEF Mv
<1> QED
  BY Zenon, <1>1, <1>2, <1>3, <1>4, <1>5, <1>6, <1>7, <1>8, <1>9, <1>10, <1>11, <1>12, <1>13,
     <1>14, <1>15, <1>16 DEF WriteNext

(* Every step of WriteFile, kill and loss of power preserves KeptInv.       *)
LEMMA KeptStep == WInv /\ WriteNext => KeptInv'
<1> SUFFICES ASSUME WInv, WriteNext PROVE KeptInv'
  OBVIOUS
<1> USE CallsBound DEF WInv, callVars, worldVars, Names, File, NoFile, YesNo, WTypes,
        StepInv, VerInv, SolidInv, KeptInv, Before, Untouched, Storing, Committed,
        Exposed, Direct
<1>1. ASSUME NEW n \in Names, Writeback(n) PROVE KeptInv'
  BY Zenon, <1>1 DEF Writeback
<1>2. CASE PowerLoss
  <2>1. UNCHANGED <<data, prior, opts, backend, unsynced>> /\ at' = "idle" /\ outage' = "yes"
    BY Zenon, <1>2 DEF PowerLoss
  <2>2. \A n \in Names : /\ mem'[n].ver = disk[n].ver /\ disk'[n] = mem'[n]
                         /\ disk[n].synced = "yes" => mem'[n].whole = disk[n].whole
    BY Zenon, <1>2, PowerLossEffect
  <2>3. unsynced = "yes" \/ unsynced = "no"
    BY Zenon DEF WTypes
  <2> HIDE DEF WTypes
  <2>4. CASE Exposed'
    BY Zenon, <2>4
  <2>5. CASE ~Exposed'
    <3>1. Direct /\ unsynced = "no" /\ ~Exposed
      BY Zenon, <2>1, <2>3, <2>5
    <3> QED BY Zenon, <2>1, <2>2, <3>1
  <2> QED BY Zenon, <2>4, <2>5
<1>3. CASE SyncDirectory
  <2>1. Direct /\ UNCHANGED <<data, prior, opts, backend, mem, outage>> /\ at = "sync directory"
    BY Zenon, <1>3 DEF SyncDirectory
  <2>2. \/ disk' = [disk EXCEPT ![into] = mem[into]] /\ UNCHANGED unsynced
        \/ unsynced' = "yes" /\ UNCHANGED disk
    BY Zenon, <1>3 DEF SyncDirectory
  <2>3. at' = "create" \/ at' = "chown" \/ at' = "idle"
    BY Zenon, <1>3 DEF SyncDirectory, Replaced
  <2>a. into = "path" => at' # "create"
    BY Zenon, <1>3 DEF SyncDirectory, Replaced
  <2>4. CASE into = "path"
    <3>1. Committed' => Committed
      BY Zenon, <2>1, <2>2, <2>3, <2>a, <2>4
    <3>2. UNCHANGED <<mem["backup"], disk["backup"]>> /\ (unsynced' = unsynced \/ unsynced' = "yes")
      BY Zenon, <2>1, <2>2, <2>4
    <3> HIDE DEF WTypes, StepInv, VerInv, Committed
    <3> QED BY Zenon, <2>1, <3>1, <3>2
  <2>5. CASE into = "backup"
    <3>1. mem["backup"].ver = prior.ver /\ mem["backup"].whole = "yes"
      BY Zenon, <2>1, <2>5
    <3>2. unsynced' = "yes" \/ disk'["backup"] = mem["backup"]
      BY Zenon, <2>2, <2>5
    <3> HIDE DEF WTypes
    <3> QED BY Zenon, <2>1, <3>1, <3>2
  <2> QED BY Zenon, <2>4, <2>5
<1>4. CASE Killed
  BY Zenon, <1>4 DEF Killed
<1>5. CASE WriteStarts
  <2> HIDE DEF WTypes, StepInv, SolidInv, VerInv
  <2>1. ~Committed' \/ opts'.backup # "yes"
    BY Zenon, <1>5, FreshVersion, WriteStartsEffect
  <2> QED BY <2>1
<1>6. CASE ReplaceFails
  BY Zenon, <1>6 DEF ReplaceFails
<1>7. CASE ReadCurrent
  BY Zenon, <1>7 DEF ReadCurrent
<1>8. CASE CreateTemp
  BY <1>8 DEF CreateTemp
<1>9. CASE WriteTemp
  BY <1>9 DEF WriteTemp
<1>10. CASE SyncTemp
  BY Zenon, <1>10 DEF SyncTemp
<1>11. CASE Rename
  <2>1. UNCHANGED <<data, prior, opts, backend, disk, outage, unsynced, into>>
        /\ at = "rename" /\ at' = "sync directory"
    BY Zenon, <1>11 DEF Rename
  <2>2. CASE into = "path"
    <3>1. UNCHANGED mem["backup"]
      BY Zenon, <1>11, <2>2, RenameEffect
    <3> HIDE DEF WTypes
    <3> QED BY Zenon, <2>1, <2>2, <3>1
  <2>3. CASE into = "backup"
    <3>1. UNCHANGED mem["path"] /\ Untouched
      BY Zenon, <1>11, <2>1, <2>3, RenameEffect
    <3>2. ~Committed'
      BY Zenon, <2>1, <2>3, <3>1, NotYetWritten
    <3> QED BY Zenon, <3>2
  <2> QED BY Zenon, <2>2, <2>3
<1>12. CASE Chown
  BY Zenon, <1>12 DEF Chown
<1>13. CASE CopyStarts
  <2>1. UNCHANGED <<data, prior, opts, backend, disk, outage, unsynced, into>> /\ at = "back up"
    BY Zenon, <1>13 DEF CopyStarts
  <2>2. CASE prior.ver = 0
    BY Zenon, <2>1, <2>2
  <2>3. CASE prior.ver # 0
    <3>1. UNCHANGED mem["path"] /\ at' = "copy" /\ Untouched
      BY Zenon, <1>13, <2>1, <2>3, CopyStartsEffect
    <3>2. ~Committed'
      BY Zenon, <2>1, <3>1, NotYetWritten
    <3> QED BY Zenon, <3>2
  <2> QED BY Zenon, <2>2, <2>3
<1>14. CASE CopyEnds
  BY <1>14 DEF CopyEnds
<1>15. CASE FillTemp
  BY Zenon, <1>15 DEF FillTemp
<1>16. CASE Mv
  BY <1>16 DEF Mv
<1> QED
  BY Zenon, <1>1, <1>2, <1>3, <1>4, <1>5, <1>6, <1>7, <1>8, <1>9, <1>10, <1>11, <1>12, <1>13,
     <1>14, <1>15, <1>16 DEF WriteNext

(* The initial states.                                                      *)
LEMMA WritesInit == ASSUME MaxCalls \in Nat, WriteInit PROVE WInv
<1>1. NoFile \in File /\ First \in File
  BY DEF NoFile, First, File, YesNo
<1>2. WTypes
  <2>1. data \in 1..MaxCalls + 1
    BY DEF WriteInit
  <2> QED BY <1>1, <2>1 DEF WriteInit, WTypes, Names, YesNo
<1>3. mem["path"].ver \in {0, 1} /\ (existed = "yes" => mem["path"].ver = 1)
  BY DEF WriteInit, Names, NoFile, First
<1>4. StepInv /\ VerInv
  BY <1>3 DEF WriteInit, StepInv, VerInv, Untouched, Before
<1>5. SolidInv /\ KeptInv
  BY DEF WriteInit, SolidInv, KeptInv, Names, NoFile, First
<1> QED BY <1>2, <1>4, <1>5 DEF WInv

(* A step of something else.                                                *)
LEMMA WritesStutter == WInv /\ UNCHANGED writeVars => WInv'
<1> SUFFICES ASSUME WInv, UNCHANGED writeVars PROVE WInv'
  OBVIOUS
<1> USE DEF WInv, writeVars, callVars
<1>1. WTypes' /\ StepInv'
  BY Zenon DEF WTypes, StepInv, Direct, Payload
<1>2. VerInv' /\ SolidInv'
  BY Zenon DEF VerInv, SolidInv, Untouched, Direct, Exposed
<1>3. KeptInv'
  BY DEF KeptInv, Committed, Direct, Exposed
<1> QED BY <1>1, <1>2, <1>3

(* What the invariant is for.                                               *)
LEMMA WInvImplies == WInv => WritesWhole
<1> SUFFICES ASSUME WInv PROVE WritesWhole
  OBVIOUS
<1>1. WriteTypeOK
  BY Zenon DEF WInv, WTypes, StepInv, WriteTypeOK, Before
<1>2. PathWhole
  BY Zenon DEF WInv, VerInv, SolidInv, PathWhole, Names
<1>3. PriorKept
  BY DEF WInv, KeptInv, Committed, PriorKept, BackedUp
<1> QED BY <1>1, <1>2, <1>3 DEF WritesWhole

(* WriteFile, whatever the caller's backend, options and number of calls: at *)
(* every moment the path has a whole file, a call that failed has left it as *)
(* it was, and the backup that was asked for is complete before the new     *)
(* content is in place, over kills at any step and, for writeDirect, losses *)
(* of power.                                                                *)
THEOREM WritesStayWhole ==
    ASSUME MaxCalls \in Nat
    PROVE  WriteSpec => []WritesWhole
<1>0. WriteInit => WInv
  BY WritesInit
<1>1. WInv /\ [WriteNext]_writeVars => WInv'
  BY TypesStep, StepsStep, VerStep, SolidStep, KeptStep, WritesStutter DEF WInv
<1> QED
  BY <1>0, <1>1, WInvImplies, PTL DEF WriteSpec

-----------------------------------------------------------------------------
(* RemoveDir.                                                               *)

(* The directories that can become a frame's: those of the tree and above it, *)
(* the root and what the links point to left out.                           *)
Inner == {"a", "t", "s"}

(* A call of removeAtRecursive.                                             *)
TreeFrames == [dir : Inner, name : EntryNames, at : {"stat", "unlink", "open", "read", "kids"},
               fd : Inner, kids : SUBSET EntryNames]

(* The directory that every link points to has its entries, and one name.   *)
EntryOK(e) ==
    /\ e \in [Dirs -> [EntryNames -> Entries]]
    /\ e["o"] = Outside
    /\ \A d \in Dirs, n \in EntryNames :
          e[d][n] # "root" /\ (e[d][n] = "o" => d = "root" /\ n = "y")

(* The handles of the walk and of every open call are on directories inside. *)
HandlesOK ==
    /\ rmAt \in {"idle", "chain", "remove"} /\ cancelled \in {"no", "yes"}
    /\ \/ walked = 0 /\ rmFd = "root"
       \/ walked = 1 /\ rmFd \in Inner
    /\ frames \in Seq(TreeFrames)
    /\ (rmAt = "remove") <=> (frames # <<>>)

(* The bounds.                                                              *)
TreeCounts ==
    /\ MaxRemovals \in Nat /\ MaxMoves \in Nat
    /\ removals \in 0..MaxRemovals /\ moves \in 0..MaxMoves

(* The inductive invariant.                                                 *)
TreeInv == EntryOK(entry) /\ HandlesOK /\ TreeCounts

(* An entry outside of it that becomes a file, a link, nothing or a directory *)
(* from inside.                                                             *)
LEMMA OneEntry ==
    ASSUME NEW e, EntryOK(e), NEW d \in Dirs \ {"o"}, NEW n \in EntryNames,
           NEW x \in Inner \cup {"file", "link", "none"}
    PROVE  EntryOK([e EXCEPT ![d][n] = x])
<1> DEFINE f == [e EXCEPT ![d][n] = x]
<1>1. f \in [Dirs -> [EntryNames -> Entries]]
  BY DEF EntryOK, Entries, Dirs, Inner
<1>2. f["o"] = Outside
  BY DEF EntryOK, Dirs
<1>3. ASSUME NEW c \in Dirs, NEW m \in EntryNames
      PROVE  f[c][m] # "root" /\ (f[c][m] = "o" => c = "root" /\ m = "y")
  <2>1. f[c][m] = e[c][m] \/ f[c][m] = x
    BY DEF EntryOK
  <2>2. x # "root" /\ x # "o"
    BY DEF Inner
  <2> QED BY <2>1, <2>2 DEF EntryOK
<1> QED BY <1>1, <1>2, <1>3 DEF EntryOK

(* What an entry inside is.                                                 *)
LEMMA InnerEntry ==
    ASSUME NEW e, EntryOK(e), NEW d \in Dirs \ {"o"}, NEW n \in EntryNames, e[d][n] # "o"
    PROVE  e[d][n] \in Inner \cup {"file", "link", "none"}
BY DEF EntryOK, Entries, Dirs, Inner

(* A directory that is opened by a name, other than /y, is one inside.      *)
LEMMA OpenedInner ==
    ASSUME NEW e, EntryOK(e), NEW d \in Dirs, NEW n \in EntryNames, IsDir(e[d][n]),
           ~(d = "root" /\ n = "y")
    PROVE  e[d][n] \in Inner
BY DEF EntryOK, IsDir, Dirs, Inner

(* A sequence of several elements without its last one.                     *)
LEMMA Shorter ==
    ASSUME NEW S, NEW s \in Seq(S), Len(s) \in Nat \ {0}, Len(s) # 1
    PROVE  SubSeq(s, 1, Len(s) - 1) \in Seq(S) /\ SubSeq(s, 1, Len(s) - 1) # <<>>
<1>0. \A k \in Nat \ {0} : k # 1 => k - 1 \in Nat /\ k - 1 >= 1
  OBVIOUS
<1>1. PICK n \in Nat : n = Len(s) - 1 /\ n >= 1
  BY Zenon, <1>0
<1>2. n <= Len(s)
  BY <1>1
<1>3. SubSeq(s, 1, n) \in Seq(S) /\ Len(SubSeq(s, 1, n)) = n
  BY <1>2
<1>4. Len(SubSeq(s, 1, n)) # 0
  BY <1>1, <1>3
<1>5. Len(<<>>) = 0
  OBVIOUS
<1> QED BY Zenon, <1>1, <1>3, <1>4, <1>5

(* The innermost open call.                                                 *)
LEMMA TopFrame ==
    ASSUME HandlesOK, rmAt = "remove"
    PROVE  Len(frames) \in Nat \ {0} /\ Top \in TreeFrames
<1>1. frames \in Seq(TreeFrames) /\ frames # <<>>
  BY DEF HandlesOK
<1>2. Len(frames) \in Nat \ {0}
  BY <1>1
<1> QED BY <1>1, <1>2 DEF Top

(* RemoveDir returns, an error or not.                                      *)
LEMMA TreeReturns == ASSUME TreeInv, RmReturns PROVE TreeInv'
<1>1. HandlesOK'
  BY DEF TreeInv, HandlesOK, RmReturns
<1> QED BY <1>1 DEF TreeInv, RmReturns, TreeCounts, EntryOK

(* The innermost call goes on.                                              *)
LEMMA TreeGoes ==
    ASSUME TreeInv, rmAt = "remove", NEW f \in TreeFrames, Goes(f)
    PROVE  TreeInv'
<1>1. frames' \in Seq(TreeFrames) /\ frames' # <<>>
  <2>1. frames \in Seq(TreeFrames) /\ frames # <<>> /\ Len(frames) \in Nat \ {0}
    BY TopFrame DEF TreeInv, HandlesOK
  <2>2. frames' = [frames EXCEPT ![Len(frames)] = f]
    BY DEF Goes, WithTop
  <2>3. frames' \in Seq(TreeFrames) /\ Len(frames') = Len(frames)
    BY <2>1, <2>2
  <2> QED BY <2>1, <2>3
<1>2. HandlesOK'
  BY <1>1 DEF TreeInv, HandlesOK, Goes
<1> QED BY <1>2 DEF TreeInv, Goes, TreeCounts, EntryOK

(* The innermost call unlinks its entry and returns.                        *)
LEMMA TreePops ==
    ASSUME TreeInv, rmAt = "remove", Pops(Unlinked(Top))
    PROVE  TreeInv'
<1>0. Len(frames) \in Nat \ {0} /\ Top \in TreeFrames /\ frames \in Seq(TreeFrames)
  BY TopFrame DEF TreeInv, HandlesOK
<1>1. EntryOK(entry')
  <2>1. Top.dir \in Dirs \ {"o"} /\ Top.name \in EntryNames
    BY <1>0 DEF TreeFrames, Inner, Dirs
  <2>2. entry' = [entry EXCEPT ![Top.dir][Top.name] = "none"]
    BY DEF Pops, Unlinked
  <2> QED BY Zenon, <2>1, <2>2, OneEntry DEF TreeInv
<1>2. HandlesOK'
  <2>1. CASE Len(frames) = 1
    BY <2>1 DEF Pops, TreeInv, HandlesOK
  <2>2. CASE Len(frames) # 1
    <3> DEFINE s == SubSeq(frames, 1, Len(frames) - 1)
    <3>1. s \in Seq(TreeFrames) /\ s # <<>>
      BY <1>0, <2>2, Shorter
    <3>2. frames' = s /\ UNCHANGED <<rmAt, rmFd, walked, cancelled>>
      BY <2>2 DEF Pops
    <3> HIDE DEF s
    <3> QED BY <3>1, <3>2 DEF TreeInv, HandlesOK
  <2> QED BY <2>1, <2>2
<1>3. TreeCounts'
  BY DEF Pops, TreeInv, TreeCounts
<1> QED BY <1>1, <1>2, <1>3 DEF TreeInv

(* What a step of another process leaves: the handles, and one move less.   *)
LEMMA OtherHandles == ASSUME TreeInv, Other PROVE HandlesOK' /\ TreeCounts'
<1>1. HandlesOK'
  BY DEF TreeInv, HandlesOK, Other
<1>2. TreeCounts'
  BY DEF TreeInv, TreeCounts, Other
<1> QED BY <1>1, <1>2

(* The initial states.                                                      *)
LEMMA TreeInit0 == ASSUME MaxRemovals \in Nat, MaxMoves \in Nat, TreeInit PROVE TreeInv
<1>1. EntryOK(entry)
  BY DEF TreeInit, EntryOK, Entries, Dirs, EntryNames, Holding, Outside
<1>2. HandlesOK /\ TreeCounts
  BY DEF TreeInit, HandlesOK, TreeCounts
<1> QED BY <1>1, <1>2 DEF TreeInv

(* Every step of RemoveDir and of the others preserves the invariant.       *)
LEMMA TreeStep == TreeInv /\ TreeNext => TreeInv'
<1> SUFFICES ASSUME TreeInv, TreeNext PROVE TreeInv'
  OBVIOUS
<1>0. EntryOK(entry) /\ HandlesOK /\ TreeCounts
  BY DEF TreeInv
<1>1. CASE RemoveDir
  <2>1. EntryOK(entry)'
    BY <1>0, <1>1 DEF RemoveDir, EntryOK
  <2>2. HandlesOK'
    BY <1>0, <1>1 DEF RemoveDir, HandlesOK
  <2>3. TreeCounts'
    BY <1>0, <1>1 DEF RemoveDir, TreeCounts
  <2> QED BY <2>1, <2>2, <2>3 DEF TreeInv
<1>2. CASE Cancel
  <2>1. HandlesOK'
    BY <1>0, <1>2 DEF Cancel, HandlesOK
  <2> QED BY <1>0, <1>2, <2>1 DEF TreeInv, Cancel, TreeCounts, EntryOK
<1>3. CASE openNoFollowChain
  <2>1. CASE RmReturns
    BY <2>1, TreeReturns
  <2>2. CASE ~RmReturns
    <3> DEFINE e == entry[rmFd][Path[walked + 1]]
    <3>1. walked = 0 /\ rmFd = "root" /\ Path[walked + 1] = "x" /\ rmAt = "chain"
      BY <1>0, <1>3 DEF openNoFollowChain, HandlesOK, Path
    <3>2. IsDir(e) /\ rmFd' = e /\ walked' = 1
      BY <1>3, <2>2, <3>1 DEF openNoFollowChain
    <3>3. e \in Inner
      BY <1>0, <3>1, <3>2, OpenedInner DEF Dirs, EntryNames
    <3>4. UNCHANGED <<entry, rmAt, frames, cancelled, removals, moves>>
      BY <1>3, <2>2 DEF openNoFollowChain
    <3> HIDE DEF e
    <3>5. HandlesOK'
      BY <1>0, <3>2, <3>3, <3>4 DEF HandlesOK
    <3> QED BY <1>0, <3>4, <3>5 DEF TreeInv, TreeCounts, EntryOK
  <2> QED BY <2>1, <2>2
<1>4. CASE removeDirSecure
  <2>1. CASE RmReturns
    BY <2>1, TreeReturns
  <2>2. CASE ~RmReturns
    <3> DEFINE f == Frame(rmFd, Leaf)
    <3>1. rmFd \in Inner
      BY <1>0, <1>4 DEF removeDirSecure, HandlesOK, Path
    <3>2. f \in TreeFrames
      BY <3>1 DEF Frame, Leaf, TreeFrames, EntryNames
    <3>3. frames' = <<f>> /\ rmAt' = "remove"
          /\ UNCHANGED <<entry, rmFd, walked, cancelled, removals, moves>>
      BY <1>4, <2>2 DEF removeDirSecure
    <3> HIDE DEF f
    <3>4. frames' \in Seq(TreeFrames) /\ frames' # <<>>
      BY <3>2, <3>3
    <3>5. HandlesOK'
      BY <1>0, <3>3, <3>4 DEF HandlesOK
    <3> QED BY <1>0, <3>3, <3>5 DEF TreeInv, TreeCounts, EntryOK
  <2> QED BY <2>1, <2>2
<1>5. CASE Stats
  <2>1. rmAt = "remove" /\ Top \in TreeFrames
    BY <1>0, <1>5, TopFrame DEF Stats, InFrame
  <2> DEFINE f == [Top EXCEPT !.at = IF IsDir(Under(Top)) THEN "open" ELSE "unlink"]
  <2>2. f \in TreeFrames
    BY <2>1 DEF TreeFrames
  <2>3. RmReturns \/ Goes(f)
    BY <1>5 DEF Stats
  <2> HIDE DEF f
  <2> QED BY <2>1, <2>2, <2>3, TreeReturns, TreeGoes
<1>6. CASE Unlinks
  BY <1>6, TreeReturns, TreePops DEF Unlinks, InFrame
<1>7. CASE Opens
  <2>1. rmAt = "remove" /\ Top \in TreeFrames
    BY <1>0, <1>7, TopFrame DEF Opens, InFrame
  <2>2. CASE RmReturns
    BY <2>2, TreeReturns
  <2>3. CASE ~RmReturns
    <3> DEFINE f == [Top EXCEPT !.at = "read", !.fd = Under(Top)]
    <3>1. IsDir(Under(Top)) /\ Goes(f)
      BY <1>7, <2>3 DEF Opens
    <3>2. Top.dir \in Inner /\ Top.dir \in Dirs /\ Top.dir # "root" /\ Top.name \in EntryNames
      BY <2>1 DEF TreeFrames, Inner, Dirs
    <3>3. Under(Top) \in Inner
      BY <1>0, <3>1, <3>2, OpenedInner DEF Under
    <3>4. f \in TreeFrames
      BY Zenon, <2>1, <3>3 DEF TreeFrames
    <3> HIDE DEF f
    <3> QED BY <2>1, <3>1, <3>4, TreeGoes
  <2> QED BY <2>2, <2>3
<1>8. CASE Reads
  <2>1. rmAt = "remove" /\ Top \in TreeFrames
    BY <1>0, <1>8, TopFrame DEF Reads, InFrame
  <2> DEFINE f == [Top EXCEPT !.at = "kids", !.kids = {n \in EntryNames : entry[Top.fd][n] # "none"}]
  <2>2. f \in TreeFrames
    BY Zenon, <2>1 DEF TreeFrames
  <2>3. Goes(f)
    BY <1>8 DEF Reads
  <2> HIDE DEF f
  <2> QED BY <2>1, <2>2, <2>3, TreeGoes
<1>9. CASE Recurses
  <2>1. rmAt = "remove" /\ Top \in TreeFrames /\ Len(frames) \in Nat \ {0}
        /\ frames \in Seq(TreeFrames)
    BY <1>0, <1>9, TopFrame DEF Recurses, InFrame, HandlesOK
  <2>2. PICK n \in Top.kids :
          frames' = Append(WithTop([Top EXCEPT !.kids = @ \ {n}]), Frame(Top.fd, n))
    BY Zenon, <1>9 DEF Recurses
  <2> DEFINE f == [Top EXCEPT !.kids = @ \ {n}]
             g == Frame(Top.fd, n)
             s == WithTop(f)
  <2>3. f \in TreeFrames /\ g \in TreeFrames
    BY Zenon, <2>1, <2>2 DEF TreeFrames, Frame
  <2>4. frames' = Append(s, g)
    BY <2>2
  <2>5. s = [frames EXCEPT ![Len(frames)] = f]
    BY DEF WithTop
  <2> HIDE DEF f, g, s
  <2>6. s \in Seq(TreeFrames)
    BY <2>1, <2>3, <2>5
  <2>7. frames' \in Seq(TreeFrames) /\ Len(frames') = Len(s) + 1
    BY <2>3, <2>4, <2>6
  <2>8. frames' # <<>>
    BY <2>6, <2>7
  <2>9. UNCHANGED <<entry, rmAt, rmFd, walked, cancelled, removals, moves>>
    BY <1>9 DEF Recurses
  <2>10. HandlesOK'
    BY <1>0, <2>1, <2>7, <2>8, <2>9 DEF HandlesOK
  <2> QED BY <1>0, <2>9, <2>10 DEF TreeInv, TreeCounts, EntryOK
<1>10. CASE Rmdirs
  BY <1>10, TreeReturns, TreePops DEF Rmdirs, InFrame
<1>11. CASE Aborts
  BY <1>11, TreeReturns DEF Aborts
<1>12. CASE Move
  <2>1. PICK p \in Places, q \in Places :
          /\ entry[p[1]][p[2]] # "none"
          /\ entry' = [entry EXCEPT ![p[1]][p[2]] = "none", ![q[1]][q[2]] = entry[p[1]][p[2]]]
    BY Zenon, <1>12 DEF Move
  <2>2. \A r \in Places : /\ r[1] \in Dirs \ {"o"} /\ r[2] \in EntryNames
                          /\ entry[r[1]][r[2]] # "o"
    BY DEF Places
  <2> DEFINE x == entry[p[1]][p[2]]
             e == [entry EXCEPT ![p[1]][p[2]] = "none"]
  <2>3. x \in Inner \cup {"file", "link", "none"}
    BY <1>0, <2>2, InnerEntry
  <2>4. EntryOK(e)
    BY Zenon, <1>0, <2>2, OneEntry
  <2>5. entry' = [e EXCEPT ![q[1]][q[2]] = x]
    BY <2>1
  <2> HIDE DEF e, x
  <2>6. EntryOK(entry')
    BY Zenon, <2>2, <2>3, <2>4, <2>5, OneEntry
  <2> QED BY <1>12, <2>6, OtherHandles DEF TreeInv, Move
<1>13. CASE Put
  <2>1. PICK p \in Places, x \in {"file", "link"} : entry' = [entry EXCEPT ![p[1]][p[2]] = x]
    BY Zenon, <1>13 DEF Put
  <2>2. p[1] \in Dirs \ {"o"} /\ p[2] \in EntryNames
    BY DEF Places
  <2>3. EntryOK(entry')
    BY Zenon, <1>0, <2>1, <2>2, OneEntry
  <2> QED BY <1>13, <2>3, OtherHandles DEF TreeInv, Put
<1>14. CASE Drop
  <2>1. PICK p \in Places : entry' = [entry EXCEPT ![p[1]][p[2]] = "none"]
    BY Zenon, <1>14 DEF Drop
  <2>2. p[1] \in Dirs \ {"o"} /\ p[2] \in EntryNames
    BY DEF Places
  <2>3. EntryOK(entry')
    BY Zenon, <1>0, <2>1, <2>2, OneEntry
  <2> QED BY <1>14, <2>3, OtherHandles DEF TreeInv, Drop
<1> QED
  BY <1>1, <1>2, <1>3, <1>4, <1>5, <1>6, <1>7, <1>8, <1>9, <1>10, <1>11, <1>12, <1>13, <1>14
  DEF TreeNext

(* RemoveDir, however often other processes rename its directories, swap    *)
(* links in and delete files between any two of its system calls: the       *)
(* directory that the links point to keeps its entries.                     *)
THEOREM RemovalStaysInside ==
    ASSUME MaxRemovals \in Nat, MaxMoves \in Nat
    PROVE  TreeSpec => [](TreeTypeOK /\ OutsideKept)
<1>1. TreeInv /\ UNCHANGED treeVars => TreeInv'
  BY DEF TreeInv, EntryOK, HandlesOK, TreeCounts, treeVars
<1>2. TreeInv => TreeTypeOK /\ OutsideKept
  <2> SUFFICES ASSUME TreeInv PROVE TreeTypeOK /\ OutsideKept
    OBVIOUS
  <2>1. \A i \in 1..Len(frames) : frames[i] \in TreeFrames
    BY DEF TreeInv, HandlesOK
  <2>2. \A f \in TreeFrames :
          f \in [dir : Dirs, name : EntryNames, at : {"stat", "unlink", "open", "read", "kids"},
                 fd : Dirs, kids : SUBSET EntryNames]
    BY DEF TreeFrames, Inner, Dirs
  <2>3. walked \in 0..Len(Path) /\ rmFd \in Dirs
    BY DEF TreeInv, HandlesOK, Path, Inner, Dirs
  <2> QED BY <2>1, <2>2, <2>3 DEF TreeInv, EntryOK, HandlesOK, TreeCounts, TreeTypeOK, OutsideKept
<1> QED BY TreeInit0, TreeStep, <1>1, <1>2, PTL DEF TreeSpec
=============================================================================
