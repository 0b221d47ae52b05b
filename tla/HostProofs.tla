----------------------------- MODULE HostProofs ----------------------------
(***************************************************************************)
(* Proofs about three parts of a host: the EAP-TLS certificates of a Wi-Fi  *)
(* profile (WifiProfile), the windows an agent may work in                  *)
(* (MaintenanceWindow) and the key files of the LUKS calls (LuksVolume).    *)
(***************************************************************************)
EXTENDS WifiProfile, MaintenanceWindow, LuksVolume, TLAPS

-----------------------------------------------------------------------------
(* WifiProfile, for any number of versions and of faults and any choice of  *)
(* the versions that are EAP-TLS.  The properties only speak of live, had   *)
(* and old; the invariant that carries them says, for each step of          *)
(* stagedModify, where the directory it found is.                           *)

Pair(v) == [kind |-> "dir", cert |-> v, key |-> v]

(* The two halves of TypeOK.                                                *)
NumbersOK ==
    /\ wanted \in Versions /\ latest \in Versions
    /\ conn \in Versions /\ keyfile \in Versions /\ p \in Versions
    /\ at \in Steps
    /\ lapses \in Lapses

DirsOK == live \in Dir /\ tmp \in Dir /\ old \in Dir /\ had \in Dir

(* What is staged, step by step.                                            *)
StagedInv ==
    /\ at \in Staged => p # 0
    /\ at = "stage key" => tmp.kind = "dir" /\ tmp.cert = p
    /\ at \in {"modify", "backup", "install", "swap"} => tmp = Pair(p)

(* Where the directory the update found is, step by step.                   *)
FoundInv ==
    /\ at \in {"stage cert", "stage key", "modify", "backup"} => live = had
    /\ at = "install" => live = Missing /\ had = Missing
    /\ at = "swap" => live = Missing /\ old = had
    /\ at = "remove old" => live = Pair(p)
    /\ at = "cleanup" => live = had \/ live = Pair(p) \/ (live = Missing /\ old = had)

IInv == NumbersOK /\ DirsOK /\ StagedInv /\ FoundInv

(* The arithmetic of the bounds.                                            *)
LEMMA Numbers ==
    /\ 0 \in Versions /\ 0 \in Lapses
    /\ \A v \in Versions : v < MaxVersion => v + 1 \in Versions
    /\ \A l \in Lapses : l < MaxFaults => l + 1 \in Lapses
BY BoundsAssumption DEF Versions, Lapses

(* The directories the steps make are directories.                          *)
LEMMA DirFacts ==
    /\ Missing \in Dir
    /\ \A c, k \in Versions : [kind |-> "dir", cert |-> c, key |-> k] \in Dir
    /\ \A d \in Dir :
          /\ d.key \in Versions
          /\ \A v \in Versions : [d EXCEPT !.key = v] \in Dir /\ [d EXCEPT !.cert = v] \in Dir
BY Numbers DEF Missing, Dir

(* The initial state, where no call runs and nothing is on disk.            *)
LEMMA InitIInv == Init => IInv
BY Zenon, Numbers, DirFacts
   DEF Init, IInv, NumbersOK, DirsOK, StagedInv, FoundInv, Steps, Staged

(* Every step keeps the types of the numbers and of the step.               *)
LEMMA NumbersStep == NumbersOK /\ [Next]_vars => NumbersOK'
<1> SUFFICES ASSUME NumbersOK, [Next]_vars PROVE NumbersOK'
    OBVIOUS
<1> USE Numbers DEF NumbersOK, Steps, Staged, dirs, Fault, Goto
<1>1. CASE Want
    BY Zenon, <1>1 DEF Want
<1>2. CASE Crash
    BY Zenon, <1>2 DEF Crash
<1>3. CASE NMRestarts
    BY Zenon, <1>3 DEF NMRestarts
<1>4. CASE ApplyStarts
    BY Zenon, <1>4 DEF ApplyStarts
<1>5. CASE DeleteStarts
    BY Zenon, <1>5 DEF DeleteStarts
<1>6. CASE WriteKeyfile \/ KeyfileFails \/ Reload \/ ReloadFails
    BY Zenon, <1>6 DEF WriteKeyfile, KeyfileFails, Reload, ReloadFails
<1>7. CASE WriteCert
    BY <1>7 DEF WriteCert
<1>8. CASE WriteKey
    BY <1>8 DEF WriteKey
<1>9. CASE WriteFails
    BY Zenon, <1>9 DEF WriteFails
<1>10. CASE Add \/ AddFails
    BY Zenon, <1>10 DEF Add, AddFails
<1>11. CASE StageCert
    BY Zenon, <1>11 DEF StageCert
<1>12. CASE StageKey
    BY Zenon, <1>12 DEF StageKey
<1>13. CASE StageFails
    BY Zenon, <1>13 DEF StageFails
<1>14. CASE Modify \/ ModifyFails
    BY Zenon, <1>14 DEF Modify, ModifyFails
<1>15. CASE Backup
    BY <1>15 DEF Backup
<1>16. CASE NothingToBackUp \/ BackupRefused \/ BackupFails
    BY Zenon, <1>16 DEF NothingToBackUp, BackupRefused, BackupFails
<1>17. CASE Install
    BY Zenon, <1>17 DEF Install
<1>18. CASE InstallFails
    BY Zenon, <1>18 DEF InstallFails
<1>19. CASE RemoveOld
    BY Zenon, <1>19 DEF RemoveOld
<1>20. CASE RemoveOldFails
    BY Zenon, <1>20 DEF RemoveOldFails
<1>21. CASE Cleanup
    BY <1>21 DEF Cleanup
<1>22. CASE Delete \/ DeleteFails
    BY Zenon, <1>22 DEF Delete, DeleteFails
<1>23. CASE SafeRemoveCertDir
    BY Zenon, <1>23 DEF SafeRemoveCertDir
<1>24. CASE UNCHANGED vars
    BY Zenon, <1>24 DEF vars
<1> QED
    BY Zenon, <1>1, <1>2, <1>3, <1>4, <1>5, <1>6, <1>7, <1>8, <1>9, <1>10, <1>11, <1>12,
       <1>13, <1>14, <1>15, <1>16, <1>17, <1>18, <1>19, <1>20, <1>21, <1>22, <1>23, <1>24
    DEF Next, Step

(* Every step leaves directories, or nothing, at the three names.           *)
LEMMA DirsStep == NumbersOK /\ DirsOK /\ [Next]_vars => DirsOK'
<1> SUFFICES ASSUME p \in Versions, DirsOK, [Next]_vars PROVE DirsOK'
    BY DEF NumbersOK
<1> USE Numbers, DirFacts DEF DirsOK, dirs, Fault, Goto
<1>1. CASE Want
    BY <1>1 DEF Want
<1>2. CASE Crash
    BY <1>2 DEF Crash
<1>3. CASE NMRestarts
    BY <1>3 DEF NMRestarts
<1>4. CASE ApplyStarts
    BY Zenon, <1>4 DEF ApplyStarts
<1>5. CASE DeleteStarts
    BY Zenon, <1>5 DEF DeleteStarts
<1>6. CASE WriteKeyfile \/ KeyfileFails \/ Reload \/ ReloadFails
    BY <1>6 DEF WriteKeyfile, KeyfileFails, Reload, ReloadFails
<1>7. CASE WriteCert
    BY <1>7 DEF WriteCert
<1>8. CASE WriteKey
    BY Zenon, <1>8 DEF WriteKey
<1>9. CASE WriteFails
    BY Zenon, <1>9 DEF WriteFails
<1>10. CASE Add \/ AddFails
    BY <1>10 DEF Add, AddFails
<1>11. CASE StageCert
    BY Zenon, <1>11 DEF StageCert
<1>12. CASE StageKey
    BY Zenon, <1>12 DEF StageKey
<1>13. CASE StageFails
    BY Zenon, <1>13 DEF StageFails
<1>14. CASE Modify \/ ModifyFails
    BY <1>14 DEF Modify, ModifyFails
<1>15. CASE Backup
    BY <1>15 DEF Backup
<1>16. CASE NothingToBackUp \/ BackupRefused \/ BackupFails
    BY <1>16 DEF NothingToBackUp, BackupRefused, BackupFails
<1>17. CASE Install
    BY Zenon, <1>17 DEF Install
<1>18. CASE InstallFails
    BY <1>18 DEF InstallFails
<1>19. CASE RemoveOld
    BY Zenon, <1>19 DEF RemoveOld
<1>20. CASE RemoveOldFails
    BY Zenon, <1>20 DEF RemoveOldFails
<1>21. CASE Cleanup
    BY <1>21 DEF Cleanup
<1>22. CASE Delete \/ DeleteFails
    BY Zenon, <1>22 DEF Delete, DeleteFails
<1>23. CASE SafeRemoveCertDir
    BY Zenon, <1>23 DEF SafeRemoveCertDir
<1>24. CASE UNCHANGED vars
    BY <1>24 DEF vars
<1> QED
    BY <1>1, <1>2, <1>3, <1>4, <1>5, <1>6, <1>7, <1>8, <1>9, <1>10, <1>11, <1>12,
       <1>13, <1>14, <1>15, <1>16, <1>17, <1>18, <1>19, <1>20, <1>21, <1>22, <1>23, <1>24
    DEF Next, Step

(* What is staged is complete by the time con mod is called.                *)
LEMMA StagedStep == tmp \in Dir /\ StagedInv /\ [Next]_vars => StagedInv'
<1> SUFFICES ASSUME tmp \in Dir, StagedInv, [Next]_vars PROVE StagedInv'
    OBVIOUS
<1> USE DEF StagedInv, Staged, dirs, Fault, Goto
<1>1. CASE Want
    BY Zenon, <1>1 DEF Want
<1>2. CASE Crash
    BY Zenon, <1>2 DEF Crash
<1>3. CASE NMRestarts
    BY Zenon, <1>3 DEF NMRestarts
<1>4. CASE ApplyStarts
    BY Zenon, <1>4 DEF ApplyStarts
<1>5. CASE DeleteStarts
    BY Zenon, <1>5 DEF DeleteStarts
<1>6. CASE WriteKeyfile \/ KeyfileFails \/ Reload \/ ReloadFails
    BY Zenon, <1>6 DEF WriteKeyfile, KeyfileFails, Reload, ReloadFails
<1>7. CASE WriteCert
    BY <1>7 DEF WriteCert
<1>8. CASE WriteKey
    BY <1>8 DEF WriteKey
<1>9. CASE WriteFails
    BY Zenon, <1>9 DEF WriteFails
<1>10. CASE Add \/ AddFails
    BY Zenon, <1>10 DEF Add, AddFails
<1>11. CASE StageCert
    BY Zenon, <1>11 DEF StageCert
<1>12. CASE StageKey
    BY Zenon, <1>12 DEF StageKey, Dir, Pair
<1>13. CASE StageFails
    BY Zenon, <1>13 DEF StageFails
<1>14. CASE Modify \/ ModifyFails
    BY Zenon, <1>14 DEF Modify, ModifyFails
<1>15. CASE Backup
    BY <1>15 DEF Backup
<1>16. CASE NothingToBackUp \/ BackupRefused \/ BackupFails
    BY Zenon, <1>16 DEF NothingToBackUp, BackupRefused, BackupFails
<1>17. CASE Install
    BY Zenon, <1>17 DEF Install
<1>18. CASE InstallFails
    BY Zenon, <1>18 DEF InstallFails
<1>19. CASE RemoveOld
    BY Zenon, <1>19 DEF RemoveOld
<1>20. CASE RemoveOldFails
    BY Zenon, <1>20 DEF RemoveOldFails
<1>21. CASE Cleanup
    BY <1>21 DEF Cleanup
<1>22. CASE Delete \/ DeleteFails
    BY Zenon, <1>22 DEF Delete, DeleteFails
<1>23. CASE SafeRemoveCertDir
    BY Zenon, <1>23 DEF SafeRemoveCertDir
<1>24. CASE UNCHANGED vars
    BY Zenon, <1>24 DEF vars
<1> QED
    BY Zenon, <1>1, <1>2, <1>3, <1>4, <1>5, <1>6, <1>7, <1>8, <1>9, <1>10, <1>11, <1>12,
       <1>13, <1>14, <1>15, <1>16, <1>17, <1>18, <1>19, <1>20, <1>21, <1>22, <1>23, <1>24
    DEF Next, Step

(* The directory the update found is where the step says.                   *)
LEMMA FoundStep == StagedInv /\ FoundInv /\ [Next]_vars => FoundInv'
<1> SUFFICES ASSUME StagedInv, FoundInv, [Next]_vars PROVE FoundInv'
    OBVIOUS
<1> USE DEF FoundInv, dirs, Fault, Goto
<1>1. CASE Want
    BY Zenon, <1>1 DEF Want
<1>2. CASE Crash
    BY Zenon, <1>2 DEF Crash
<1>3. CASE NMRestarts
    BY Zenon, <1>3 DEF NMRestarts
<1>4. CASE ApplyStarts
    BY Zenon, <1>4 DEF ApplyStarts
<1>5. CASE DeleteStarts
    BY Zenon, <1>5 DEF DeleteStarts
<1>6. CASE WriteKeyfile \/ KeyfileFails \/ Reload \/ ReloadFails
    BY Zenon, <1>6 DEF WriteKeyfile, KeyfileFails, Reload, ReloadFails
<1>7. CASE WriteCert
    BY <1>7 DEF WriteCert
<1>8. CASE WriteKey
    BY <1>8 DEF WriteKey
<1>9. CASE WriteFails
    BY Zenon, <1>9 DEF WriteFails
<1>10. CASE Add \/ AddFails
    BY Zenon, <1>10 DEF Add, AddFails
<1>11. CASE StageCert
    BY Zenon, <1>11 DEF StageCert
<1>12. CASE StageKey
    BY Zenon, <1>12 DEF StageKey
<1>13. CASE StageFails
    BY Zenon, <1>13 DEF StageFails
<1>14. CASE Modify \/ ModifyFails
    BY Zenon, <1>14 DEF Modify, ModifyFails
<1>15. CASE Backup
    BY <1>15 DEF Backup
<1>16. CASE NothingToBackUp \/ BackupRefused \/ BackupFails
    BY Zenon, <1>16 DEF NothingToBackUp, BackupRefused, BackupFails
<1>17. CASE Install
    BY Zenon, <1>17 DEF Install, StagedInv
<1>18. CASE InstallFails
    BY Zenon, <1>18 DEF InstallFails
<1>19. CASE RemoveOld
    BY Zenon, <1>19 DEF RemoveOld
<1>20. CASE RemoveOldFails
    BY Zenon, <1>20 DEF RemoveOldFails
<1>21. CASE Cleanup
    BY <1>21 DEF Cleanup
<1>22. CASE Delete \/ DeleteFails
    BY Zenon, <1>22 DEF Delete, DeleteFails
<1>23. CASE SafeRemoveCertDir
    BY Zenon, <1>23 DEF SafeRemoveCertDir
<1>24. CASE UNCHANGED vars
    BY Zenon, <1>24 DEF vars
<1> QED
    BY Zenon, <1>1, <1>2, <1>3, <1>4, <1>5, <1>6, <1>7, <1>8, <1>9, <1>10, <1>11, <1>12,
       <1>13, <1>14, <1>15, <1>16, <1>17, <1>18, <1>19, <1>20, <1>21, <1>22, <1>23, <1>24
    DEF Next, Step

(* Every step of the agent, of NetworkManager and of a failing call keeps   *)
(* the invariant.                                                           *)
LEMMA NextIInv == IInv /\ [Next]_vars => IInv'
BY NumbersStep, DirsStep, StagedStep, FoundStep DEF IInv, DirsOK

(* The invariant is one of every behaviour of the calls of Apply and Delete. *)
THEOREM Invariance == Spec => []IInv
BY InitIInv, NextIInv, PTL DEF Spec

(* The variables keep their types, in every call of Apply and Delete.       *)
THEOREM TypeCorrect == Spec => []TypeOK
<1>1. IInv => TypeOK
    BY DEF IInv, TypeOK, NumbersOK, DirsOK
<1> QED
    BY <1>1, Invariance, PTL

(* stagedModify never mixes the certificate of one version with the key of  *)
(* another, whichever of its steps fail and wherever the agent is killed.   *)
THEOREM PairsMatch == Spec => []MatchedPair
<1>1. ASSUME IInv, at \in Staged PROVE live = had \/ live = Pair(p) \/ live = Missing
    BY Zenon, <1>1 DEF IInv, FoundInv, Staged
<1>2. Matched(Pair(p)) /\ Matched(Missing)
    BY DEF Matched, Pair, Missing
<1>3. IInv => MatchedPair
    BY <1>1, <1>2 DEF MatchedPair
<1> QED
    BY <1>3, Invariance, PTL

(* All through an update of a working pair there is one at CertDir, or the  *)
(* old one is whole at CertDir.old.                                         *)
THEOREM CertificatesKept == Spec => []CertsKept
<1>1. ASSUME IInv, at \in Staged
      PROVE  live = had \/ (p # 0 /\ live = Pair(p)) \/ old = had \/ had = Missing
    BY Zenon, <1>1 DEF IInv, StagedInv, FoundInv, Staged
<1>2. p # 0 => IsPair(Pair(p))
    BY DEF IsPair, Pair
<1>3. ~IsPair(Missing)
    BY DEF IsPair, Missing
<1>4. IInv => CertsKept
    BY <1>1, <1>2, <1>3 DEF CertsKept
<1> QED
    BY <1>4, Invariance, PTL

-----------------------------------------------------------------------------
(* MaintenanceWindow, for a day of any length and any windows.  What is left *)
(* of a range is not a function of the code's test; the invariant gives it  *)
(* in closed form, day by day, and the test is true where that form is      *)
(* positive.                                                                *)

Yesterday(d) == (d + 6) % 7

(* What is left of the range of e at minute m of weekday d.                 *)
Remaining(e, d, m) ==
    IF d \in e.days /\ e.start <= e.end /\ e.start <= m /\ m < e.end THEN e.end - m
    ELSE IF d \in e.days /\ e.start > e.end /\ e.start <= m THEN DayMinutes - m + e.end
    ELSE IF Yesterday(d) \in e.days /\ e.start > e.end /\ m < e.end THEN e.end - m
    ELSE 0

ClockOK == windows \in GroupWindows /\ day \in Days /\ minute \in Minutes

LeftInv ==
    /\ left = [e \in AllEntries |-> left[e]]
    /\ \A e \in AllEntries : left[e] = Remaining(e, day, minute)

ClockInv == ClockOK /\ LeftInv

(* The minutes and the weekdays, and the one before the next.               *)
LEMMA ClockFacts ==
    /\ 0 \in Minutes
    /\ \A m \in Minutes : m # DayMinutes - 1 => m + 1 \in Minutes
    /\ \A d \in Days : (d + 1) % 7 \in Days /\ Yesterday((d + 1) % 7) = d
BY DayAssumption DEF Minutes, Days, Yesterday

(* The entries of a device's windows are entries.                           *)
LEMMA EntryFacts ==
    ASSUME windows \in GroupWindows, NEW e \in AllEntries
    PROVE  e.start \in Int /\ e.end \in Int /\ 0 <= e.start /\ 0 <= e.end
           /\ e.start < DayMinutes /\ e.end < DayMinutes
<1>1. e \in Entries
    BY WindowsAssumption DEF AllEntries
<1>2. e.start \in Minutes /\ e.end \in Minutes
    BY <1>1 DEF Entries
<1> QED
    BY <1>2, DayAssumption DEF Minutes

(* A range begun on a listed day, or the day before, at midnight.           *)
LEMMA ClockInit == WindowInit => ClockInv
<1> SUFFICES ASSUME WindowInit PROVE ClockInv
    OBVIOUS
<1>1. ClockOK
    BY ClockFacts DEF WindowInit, ClockOK
<1>2. ASSUME NEW e \in AllEntries PROVE left[e] = Remaining(e, day, minute)
    <2>1. /\ e.start \in Int /\ e.end \in Int /\ 0 <= e.start /\ 0 <= e.end
          /\ e.start < DayMinutes /\ e.end < DayMinutes
        BY EntryFacts, <1>1 DEF ClockOK
    <2>2. left[e] = IF Begins(e, day, 0) THEN Length(e)
                    ELSE IF e.start > e.end /\ Yesterday(day) \in e.days THEN e.end ELSE 0
        BY DEF WindowInit, Yesterday
    <2>3. minute = 0
        BY DEF WindowInit
    <2> QED
        BY <2>1, <2>2, <2>3, DayAssumption DEF Remaining, Begins, Length
<1>3. left = [e \in AllEntries |-> left[e]]
    BY DEF WindowInit
<1> QED
    BY <1>1, <1>2, <1>3 DEF ClockInv, LeftInv

(* One minute: within a day, and over midnight into the next.               *)
LEMMA TickRemaining ==
    ASSUME ClockOK, Tick, NEW e \in AllEntries, left[e] = Remaining(e, day, minute)
    PROVE  left'[e] = Remaining(e, day', minute')
<1>1. /\ e.start \in Int /\ e.end \in Int /\ 0 <= e.start /\ 0 <= e.end
      /\ e.start < DayMinutes /\ e.end < DayMinutes
    BY EntryFacts DEF ClockOK
<1>2. minute \in Int /\ 0 <= minute /\ minute < DayMinutes /\ DayMinutes \in Int
    BY DayAssumption DEF ClockOK, Minutes
<1>3. left'[e] = IF Begins(e, day', minute') THEN Length(e)
                 ELSE IF left[e] > 0 THEN left[e] - 1 ELSE 0
    BY DEF Tick
<1>4. CASE minute = DayMinutes - 1
    <2>1. minute' = 0 /\ Yesterday(day') = day
        BY <1>4, ClockFacts DEF Tick, ClockOK
    <2> QED
        BY <1>1, <1>2, <1>3, <1>4, <2>1 DEF Remaining, Begins, Length
<1>5. CASE minute # DayMinutes - 1
    <2>1. minute' = minute + 1 /\ day' = day
        BY <1>5 DEF Tick
    <2> QED
        BY <1>1, <1>2, <1>3, <1>5, <2>1 DEF Remaining, Begins, Length
<1> QED
    BY <1>4, <1>5

(* The invariant is inductive.                                              *)
LEMMA ClockStep == ClockInv /\ [Tick]_windowVars => ClockInv'
<1> SUFFICES ASSUME ClockInv, [Tick]_windowVars PROVE ClockInv'
    OBVIOUS
<1>1. CASE Tick
    <2>1. ClockOK'
        BY <1>1, ClockFacts DEF ClockInv, ClockOK, Tick
    <2>2. AllEntries' = AllEntries
        BY <1>1 DEF Tick, AllEntries
    <2>3. \A e \in AllEntries : left'[e] = Remaining(e, day', minute')
        BY <1>1, TickRemaining DEF ClockInv, LeftInv
    <2>4. left' = [e \in AllEntries |-> left'[e]]
        BY <1>1 DEF Tick
    <2> QED
        BY <2>1, <2>2, <2>3, <2>4 DEF ClockInv, LeftInv, Remaining, Yesterday
<1>2. CASE UNCHANGED windowVars
    BY Zenon, <1>2 DEF ClockInv, ClockOK, LeftInv, AllEntries, Remaining, Yesterday, windowVars
<1> QED
    BY <1>1, <1>2

(* The code's test of a moment is true where something is left.             *)
LEMMA AllowsIfLeft ==
    ASSUME ClockInv, NEW e \in AllEntries
    PROVE  EntryAllows(e, day, minute) <=> left[e] > 0
<1>1. /\ e.start \in Int /\ e.end \in Int /\ 0 <= e.start /\ 0 <= e.end
      /\ e.start < DayMinutes /\ e.end < DayMinutes
    BY EntryFacts DEF ClockInv, ClockOK
<1>2. minute \in Int /\ 0 <= minute /\ minute < DayMinutes /\ DayMinutes \in Int
    BY DayAssumption DEF ClockInv, ClockOK, Minutes
<1>3. left[e] = Remaining(e, day, minute)
    BY DEF ClockInv, LeftInv
<1> QED
    BY <1>1, <1>2, <1>3 DEF Remaining, EntryAllows, RangeOK, Yesterday

(* IsAllowed of the Union is true exactly while a range that began on a listed *)
(* day still runs (entryAllows, Union), for every length of day.            *)
THEOREM AllowedTheorem == WindowSpec => []AllowedWhileOpen
<1>1. ClockInv => AllowedWhileOpen
    <2> SUFFICES ASSUME ClockInv PROVE AllowedWhileOpen
        OBVIOUS
    <2>1. CASE {} \in windows
        BY <2>1 DEF AllowedWhileOpen, IsAllowed, Union
    <2>2. CASE {} \notin windows
        <3>1. Union(windows) = AllEntries
            BY <2>2 DEF Union, AllEntries
        <3>2. AllEntries = {} <=> windows = {}
            BY <2>2 DEF AllEntries
        <3>3. (\E e \in AllEntries : EntryAllows(e, day, minute))
                 <=> (\E e \in AllEntries : left[e] > 0)
            BY AllowsIfLeft
        <3> QED
            BY <2>2, <3>1, <3>2, <3>3 DEF AllowedWhileOpen, IsAllowed
    <2> QED
        BY <2>1, <2>2
<1> QED
    BY <1>1, ClockInit, ClockStep, PTL DEF WindowSpec

-----------------------------------------------------------------------------
(* LuksVolume, for any callers, keys and slots.  What cryptsetup enrols is  *)
(* what a file holds; the invariant says whose files a call has staged, and *)
(* that what it checked stands unless it was replaced later.                *)

(* A key file and the call of a caller.                                     *)
KeyFiles == [id : Nat, key : LkKeys \cup {Strange}, wrote : {"us", "them"}]

LkRecords == [op : {"none", "add", "remove", "verify", "kill"},
              at : {"idle", "stage", "check", "run", "clean"},
              auth : LkKeys \cup {Free}, new : LkKeys \cup {Free},
              slot : Slots \cup {AnySlot, "1"}, files : Seq(Nat)]

(* A call has staged as many of its secrets as its step says, under names   *)
(* that were given out.                                                     *)
LkCallOK(k, no) ==
    /\ k \in LkRecords
    /\ \A i \in DOMAIN k.files : k.files[i] \in 1..no
    /\ Len(k.files) <= Len(Secrets(k))
    /\ k.at # "idle" => k.op # "none"
    /\ k.at = "stage" => /\ Len(k.files) < Len(Secrets(k)) /\ k.auth \in LkKeys
                         /\ k.op = "add" => k.new \in LkKeys
    /\ k.at = "run" \/ k.at = "check" => Len(k.files) = Len(Secrets(k))

(* A key file that was not replaced has the key of a caller.                *)
LkTypes ==
    /\ MaxLkCalls \in Nat /\ Strange \notin LkKeys
    /\ slots \in [Slots -> LkKeys \cup {Free, Strange, FirstKey}]
    /\ stagingDir \in {"none", "ours", "spoilt"} /\ fileNo \in Nat \ {0}
    /\ shm \in SUBSET KeyFiles
    /\ \A f \in shm : f.id >= 1 /\ f.id < fileNo /\ (f.wrote = "us" => f.key \in LkKeys)
    /\ \A f, g \in shm : f.id = g.id => f = g
    /\ kept \subseteq 1..fileNo /\ late \in {"no", "yes"} /\ lkCalls \in 0..MaxLkCalls

(* Every call is one.                                                       *)
LkCallsOK ==
    /\ lkCall \in [LkCallers -> LkRecords]
    /\ \A c \in LkCallers : LkCallOK(lkCall[c], fileNo)

(* What cryptsetup is about to open is what was staged, unless it was       *)
(* replaced after the check.                                                *)
Unspoilt(files) == \A f \in shm : Holds(files, f.id) => f.wrote = "us"
CheckedStands ==
    late = "no" => \A c \in LkCallers : lkCall[c].at = "run" => Unspoilt(lkCall[c].files)

(* The inductive invariant: without CheckedStands, RunCryptsetup could enrol *)
(* what a replaced file holds.                                              *)
LkInv == LkTypes /\ LkCallsOK /\ KeyFilesGone /\ CheckedStands /\ EnrolledAsAsked

(* AddKey stages two secrets, the others one.                               *)
LEMMA SecretsLen ==
    ASSUME NEW k
    PROVE  Len(Secrets(k)) = (IF k.op = "add" THEN 2 ELSE 1)
           /\ Len(Secrets(k)) \in Nat /\ Len(Secrets(k)) <= 2
BY DEF Secrets

(* No call.                                                                 *)
LEMMA IdleCall ==
    ASSUME NEW n
    PROVE  LkCallOK(LkIdle, n) /\ LkIdle \in LkRecords /\ LkIdle.at = "idle" /\ LkIdle.files = <<>>
<1>1. LkIdle.at = "idle" /\ LkIdle.op = "none" /\ LkIdle.files = <<>>
  BY DEF LkIdle
<1>2. LkIdle \in LkRecords
  <2>1. <<>> \in Seq(Nat)
    OBVIOUS
  <2> QED BY <2>1 DEF LkRecords, LkIdle
<1>3. Len(LkIdle.files) = 0 /\ DOMAIN LkIdle.files = {}
  BY <1>1
<1>4. Len(Secrets(LkIdle)) \in Nat
  BY SecretsLen
<1> QED BY <1>1, <1>2, <1>3, <1>4 DEF LkCallOK

(* A file staged by another call leaves this one as it is.                  *)
LEMMA LaterNumber ==
    ASSUME NEW k, NEW n \in Nat, LkCallOK(k, n)
    PROVE  LkCallOK(k, n + 1)
<1>1. \A i \in DOMAIN k.files : k.files[i] \in 1..(n + 1)
  BY DEF LkCallOK
<1> QED BY <1>1 DEF LkCallOK

(* A file more, and the last one less.                                      *)
LEMMA AppendHolds ==
    ASSUME NEW s \in Seq(Nat), NEW id \in Nat
    PROVE  /\ Append(s, id) \in Seq(Nat) /\ Len(Append(s, id)) = Len(s) + 1
           /\ Holds(Append(s, id), id)
           /\ \A x : Holds(s, x) => Holds(Append(s, id), x)
           /\ \A i \in DOMAIN Append(s, id) : Append(s, id)[i] = id \/ Holds(s, Append(s, id)[i])
<1>1. Append(s, id) \in Seq(Nat) /\ Len(Append(s, id)) = Len(s) + 1
  OBVIOUS
<1>2. DOMAIN s = 1..Len(s) /\ DOMAIN Append(s, id) = 1..(Len(s) + 1) /\ Len(s) \in Nat
  BY <1>1
<1>3. Append(s, id)[Len(s) + 1] = id /\ \A i \in 1..Len(s) : Append(s, id)[i] = s[i]
  OBVIOUS
<1>4. Holds(Append(s, id), id)
  BY <1>2, <1>3 DEF Holds
<1>5. \A x : Holds(s, x) => Holds(Append(s, id), x)
  BY <1>2, <1>3 DEF Holds
<1>6. \A i \in 1..(Len(s) + 1) : i = Len(s) + 1 \/ i \in 1..Len(s)
  BY <1>2
<1>7. \A i \in DOMAIN Append(s, id) : Append(s, id)[i] = id \/ Holds(s, Append(s, id)[i])
  BY <1>2, <1>3, <1>6 DEF Holds
<1> QED BY <1>1, <1>4, <1>5, <1>7

(* The last file of a list, and the list without it.                        *)
LEMMA FrontHolds ==
    ASSUME NEW s \in Seq(Nat), s # <<>>
    PROVE  /\ s[Len(s)] \in Nat /\ Holds(s, s[Len(s)]) /\ Len(s) \in Nat \ {0}
           /\ SubSeq(s, 1, Len(s) - 1) \in Seq(Nat)
           /\ Len(SubSeq(s, 1, Len(s) - 1)) = Len(s) - 1
           /\ \A x : Holds(s, x) => x = s[Len(s)] \/ Holds(SubSeq(s, 1, Len(s) - 1), x)
           /\ \A x : Holds(SubSeq(s, 1, Len(s) - 1), x) => Holds(s, x)
<1>1. Len(s) \in Nat \ {0} /\ DOMAIN s = 1..Len(s)
  BY SMTT(30)
<1>2. PICK n \in Nat : n = Len(s) - 1 /\ Len(s) = n + 1
  <2>1. \A k \in Nat \ {0} : k - 1 \in Nat /\ k = (k - 1) + 1
    OBVIOUS
  <2> QED BY Zenon, <1>1, <2>1
<1>3. n <= Len(s)
  BY <1>2
<1>4. SubSeq(s, 1, n) \in Seq(Nat) /\ Len(SubSeq(s, 1, n)) = n
  BY <1>3
<1>5. Len(SubSeq(s, 1, n)) = n /\ \A i \in 1..n : SubSeq(s, 1, n)[i] = s[i]
  BY <1>3, <1>4
<1>6. DOMAIN SubSeq(s, 1, n) = 1..n
  BY <1>4, <1>5
<1>7. \A i \in 1..Len(s) : i = Len(s) \/ i \in 1..n
  <2>1. \A i \in 1..(n + 1) : i = n + 1 \/ i \in 1..n
    OBVIOUS
  <2> QED BY <1>2, <2>1
<1>8. s[Len(s)] \in Nat /\ Holds(s, s[Len(s)])
  BY SMTT(30), <1>1 DEF Holds
<1>9. \A x : Holds(s, x) => x = s[Len(s)] \/ Holds(SubSeq(s, 1, n), x)
  BY Zenon, <1>1, <1>5, <1>6, <1>7 DEF Holds
<1>10. \A x : Holds(SubSeq(s, 1, n), x) => Holds(s, x)
  <2>1. \A i \in 1..n : i \in 1..Len(s)
    BY <1>1, <1>2
  <2> QED BY <1>1, <1>5, <1>6, <2>1 DEF Holds
<1> QED BY <1>1, <1>2, <1>4, <1>5, <1>8, <1>9, <1>10

(* The call of one caller changes, perhaps with a new file's name given out. *)
LEMMA OneLkCall ==
    ASSUME LkTypes, LkCallsOK, NEW c \in LkCallers, NEW k, LkCallOK(k, fileNo'),
           lkCall' = [lkCall EXCEPT ![c] = k], fileNo' = fileNo \/ fileNo' = fileNo + 1
    PROVE  LkCallsOK'
<1>1. k \in LkRecords
  BY DEF LkCallOK
<1>2. lkCall' \in [LkCallers -> LkRecords]
  BY <1>1 DEF LkCallsOK
<1>3. ASSUME NEW d \in LkCallers PROVE LkCallOK(lkCall'[d], fileNo')
  <2>1. CASE d = c
    BY <2>1 DEF LkCallsOK
  <2>2. CASE d # c
    <3>1. lkCall'[d] = lkCall[d] /\ LkCallOK(lkCall[d], fileNo) /\ fileNo \in Nat
      BY <2>2 DEF LkCallsOK, LkTypes
    <3> QED BY <3>1, LaterNumber
  <2> QED BY <2>1, <2>2
<1> QED BY <1>2, <1>3 DEF LkCallsOK

(* The files of one call change: a key file is then still a caller's, kept or *)
(* gone.                                                                    *)
LEMMA OthersHold ==
    ASSUME LkCallsOK, KeyFilesGone, NEW c \in LkCallers, NEW k,
           lkCall' = [lkCall EXCEPT ![c] = k], kept \subseteq kept',
           \A f \in shm' : \/ f \in shm /\ (Holds(lkCall[c].files, f.id) => Holds(k.files, f.id))
                          \/ Holds(k.files, f.id)
                          \/ f.id \in kept'
    PROVE  KeyFilesGone'
<1>1. lkCall'[c] = k /\ \A d \in LkCallers \ {c} : lkCall'[d] = lkCall[d]
  BY DEF LkCallsOK
<1> SUFFICES ASSUME NEW f \in shm'
             PROVE  f.id \in kept' \/ \E d \in LkCallers : Holds(lkCall'[d].files, f.id)
  BY DEF KeyFilesGone
<1>2. CASE f \in shm /\ (Holds(lkCall[c].files, f.id) => Holds(k.files, f.id))
  <2>1. f.id \in kept \/ \E d \in LkCallers : Holds(lkCall[d].files, f.id)
    BY <1>2 DEF KeyFilesGone
  <2> QED BY <1>1, <1>2, <2>1
<1> QED BY <1>1, <1>2

(* The call of one caller changes and no key file is replaced: what the     *)
(* others are about to hand over stands.                                    *)
LEMMA OthersStand ==
    ASSUME LkCallsOK, CheckedStands, NEW c \in LkCallers, NEW k,
           lkCall' = [lkCall EXCEPT ![c] = k], late' = late,
           \A f \in shm' : f \in shm \/ f.wrote = "us",
           k.at = "run" => \A f \in shm' : Holds(k.files, f.id) => f.wrote = "us"
    PROVE  CheckedStands'
<1>1. lkCall'[c] = k /\ \A d \in LkCallers \ {c} : lkCall'[d] = lkCall[d]
  BY DEF LkCallsOK
<1> SUFFICES ASSUME late' = "no", NEW d \in LkCallers, lkCall'[d].at = "run"
             PROVE  \A f \in shm' : Holds(lkCall'[d].files, f.id) => f.wrote = "us"
  BY DEF CheckedStands, Unspoilt
<1>2. CASE d = c
  BY <1>1, <1>2 DEF Unspoilt
<1>3. CASE d # c
  <2>1. Unspoilt(lkCall[d].files) /\ lkCall'[d] = lkCall[d]
    BY <1>1, <1>3 DEF CheckedStands
  <2> QED BY <2>1 DEF Unspoilt
<1> QED BY <1>2, <1>3

(* A call starts.                                                           *)
LEMMA LkStartsStep ==
    ASSUME LkInv, NEW c \in LkCallers, NEW op \in {"add", "remove", "verify", "kill"},
           NEW auth \in LkKeys, NEW new \in LkKeys \cup {Free}, op = "add" => new \in LkKeys,
           NEW slot \in Slots \cup {AnySlot, "1"}, LkStarts(c, op, auth, new, slot)
    PROVE  LkInv'
<1> DEFINE k == [op |-> op, at |-> "stage", auth |-> auth, new |-> new, slot |-> slot,
                 files |-> <<>>]
<1>1. k.files = <<>> /\ k.at = "stage" /\ k.auth = auth /\ k.new = new /\ k.op = op /\ k \in LkRecords
  <2>1. <<>> \in Seq(Nat)
    OBVIOUS
  <2> QED BY <2>1 DEF LkRecords
<1>2. LkCallOK(k, fileNo)
  <2>1. Len(k.files) = 0 /\ DOMAIN k.files = {}
    BY <1>1
  <2>2. Len(Secrets(k)) = (IF k.op = "add" THEN 2 ELSE 1)
    BY Zenon, SecretsLen
  <2> HIDE DEF k
  <2>3. 0 < Len(Secrets(k)) /\ 0 <= Len(Secrets(k))
    BY <2>2
  <2> QED BY <1>1, <2>1, <2>3 DEF LkCallOK
<1>3. /\ lkCall' = [lkCall EXCEPT ![c] = k] /\ lkCalls' = lkCalls + 1 /\ lkCalls < MaxLkCalls
      /\ UNCHANGED <<slots, stagingDir, shm, fileNo, kept, late>>
  BY DEF LkStarts
<1>4. lkCall[c].files = <<>>
  BY DEF LkStarts, LkIdle
<1> HIDE DEF k
<1>5. LkTypes'
  BY <1>3 DEF LkInv, LkTypes
<1>6. LkCallsOK'
  BY Zenon, <1>2, <1>3, OneLkCall DEF LkInv
<1>7. KeyFilesGone'
  BY Zenon, <1>1, <1>3, <1>4, OthersHold DEF LkInv
<1>8. CheckedStands'
  BY Zenon, <1>1, <1>3, OthersStand DEF LkInv
<1> QED BY <1>3, <1>5, <1>6, <1>7, <1>8 DEF LkInv, EnrolledAsAsked

(* writeKeyFile makes a file under a name of its own.                       *)
LEMMA NewFile ==
    ASSUME LkTypes, NEW file \in KeyFiles, file.id = fileNo, file.key \in LkKeys, file.wrote = "us",
           shm' = shm \cup {file}, fileNo' = fileNo + 1, stagingDir' = "ours",
           kept' \subseteq kept \cup {fileNo}, UNCHANGED <<slots, late, lkCalls>>
    PROVE  LkTypes'
<1>0. fileNo \in Nat \ {0} /\ \A f \in shm : f.id \in Nat /\ f.id >= 1 /\ f.id < fileNo
  BY DEF LkTypes, KeyFiles
<1>1. \A f \in shm' : f.id >= 1 /\ f.id < fileNo' /\ (f.wrote = "us" => f.key \in LkKeys)
  <2>1. \A f \in shm : f.id >= 1 /\ f.id < fileNo'
    BY <1>0
  <2>2. file.id >= 1 /\ file.id < fileNo'
    BY <1>0
  <2> QED BY <2>1, <2>2 DEF LkTypes
<1>2. \A f, g \in shm' : f.id = g.id => f = g
  <2>1. \A f \in shm : f.id # file.id
    BY <1>0
  <2> QED BY <2>1 DEF LkTypes
<1>3. kept' \subseteq 1..fileNo' /\ fileNo' \in Nat \ {0}
  <2>1. kept \subseteq 1..fileNo
    BY DEF LkTypes
  <2>2. 1..fileNo \subseteq 1..fileNo' /\ fileNo \in 1..fileNo' /\ fileNo' \in Nat \ {0}
    BY <1>0
  <2> QED BY <2>1, <2>2
<1>4. shm' \in SUBSET KeyFiles
  BY DEF LkTypes
<1> QED BY <1>1, <1>2, <1>3, <1>4 DEF LkTypes

(* writeKeyFile stages a secret or fails.                                   *)
LEMMA StageStep == ASSUME LkInv, NEW c \in LkCallers, writeKeyFile(c) PROVE LkInv'
<1> DEFINE k == lkCall[c]
           key == Secrets(k)[Len(k.files) + 1]
           file == [id |-> fileNo, key |-> key, wrote |-> "us"]
<1>0. k \in LkRecords /\ k.at = "stage" /\ LkCallOK(k, fileNo) /\ k.files \in Seq(Nat)
      /\ fileNo \in Nat \ {0}
  BY DEF LkInv, LkCallsOK, writeKeyFile, LkRecords, LkTypes
<1>1. key \in LkKeys
  <2>1. Len(k.files) \in Nat /\ Len(k.files) < Len(Secrets(k)) /\ k.auth \in LkKeys
        /\ (k.op = "add" => k.new \in LkKeys)
    BY <1>0 DEF LkCallOK
  <2>2. CASE k.op = "add"
    <3>0. Len(Secrets(k)) = 2
      BY <2>2, SecretsLen
    <3>1. Len(k.files) + 1 \in {1, 2}
      BY <2>1, <3>0
    <3> QED BY <2>1, <2>2, <3>1 DEF Secrets
  <2>3. CASE k.op # "add"
    <3>0. Len(Secrets(k)) = 1
      BY <2>3, SecretsLen
    <3>1. Len(k.files) + 1 = 1
      BY <2>1, <3>0
    <3> QED BY <2>1, <2>3, <3>1 DEF Secrets
  <2> QED BY <2>2, <2>3
<1>2. file \in KeyFiles /\ file.id = fileNo /\ file.key \in LkKeys /\ file.wrote = "us"
  BY <1>0, <1>1 DEF KeyFiles
<1>3. UNCHANGED <<slots, late, lkCalls>>
  BY DEF writeKeyFile
<1>a. EnrolledAsAsked'
  BY <1>3 DEF LkInv, EnrolledAsAsked
<1> DEFINE ended == [k EXCEPT !.at = "clean"]
<1>b. ended.files = k.files /\ ended.at = "clean" /\ LkCallOK(ended, fileNo)
  <2>1. ended \in LkRecords /\ ended.files = k.files /\ ended.at = "clean" /\ ended.op = k.op
    BY <1>0 DEF LkRecords
  <2>2. Len(Secrets(ended)) = Len(Secrets(k))
    BY Zenon, <2>1, SecretsLen
  <2> HIDE DEF ended
  <2> QED BY <1>0, <2>1, <2>2 DEF LkCallOK
<1>4. CASE /\ lkCall' = [lkCall EXCEPT ![c].at = "clean"]
           /\ UNCHANGED <<stagingDir, shm, fileNo, kept>>
  <2>1. lkCall' = [lkCall EXCEPT ![c] = ended]
    BY <1>4 DEF LkInv, LkCallsOK
  <2> HIDE DEF ended, k
  <2>2. LkTypes'
    BY <1>3, <1>4 DEF LkInv, LkTypes
  <2>3. LkCallsOK'
    BY Zenon, <1>4, <1>b, <2>1, OneLkCall DEF LkInv
  <2>4. KeyFilesGone'
    BY Zenon, <1>4, <1>b, <2>1, OthersHold DEF LkInv, k
  <2>5. CheckedStands'
    BY Zenon, <1>3, <1>4, <1>b, <2>1, OthersStand DEF LkInv
  <2> QED BY <1>a, <2>2, <2>3, <2>4, <2>5 DEF LkInv
<1>5. CASE /\ stagingDir' = "ours" /\ shm' = shm \cup {file} /\ fileNo' = fileNo + 1
           /\ lkCall' = [lkCall EXCEPT ![c].files = Append(@, fileNo),
                   ![c].at = IF Len(k.files) + 1 = Len(Secrets(k)) THEN "check" ELSE "stage"]
           /\ UNCHANGED kept
  <2> DEFINE m == [k EXCEPT !.files = Append(k.files, fileNo),
                   !.at = IF Len(k.files) + 1 = Len(Secrets(k)) THEN "check" ELSE "stage"]
  <2>1. lkCall' = [lkCall EXCEPT ![c] = m]
    BY Zenon, <1>5 DEF LkInv, LkCallsOK
  <2>2. /\ m \in LkRecords /\ m.files = Append(k.files, fileNo) /\ m.op = k.op
        /\ m.auth = k.auth /\ m.new = k.new
        /\ m.at = IF Len(k.files) + 1 = Len(Secrets(k)) THEN "check" ELSE "stage"
    BY Zenon, <1>0, AppendHolds DEF LkRecords
  <2>3. /\ Len(m.files) = Len(k.files) + 1 /\ Len(k.files) \in Nat
        /\ Len(Secrets(m)) = Len(Secrets(k)) /\ Len(Secrets(k)) \in Nat
        /\ Len(k.files) < Len(Secrets(k))
    <3>1. Len(m.files) = Len(k.files) + 1 /\ Len(k.files) \in Nat
      BY <1>0, <2>2, AppendHolds
    <3>2. Len(k.files) < Len(Secrets(k))
      BY <1>0 DEF LkCallOK
    <3> HIDE DEF m, k
    <3>3. Len(Secrets(m)) = Len(Secrets(k)) /\ Len(Secrets(k)) \in Nat
      BY <2>2, SecretsLen
    <3> QED BY <3>1, <3>2, <3>3
  <2>4. \A i \in DOMAIN m.files : m.files[i] \in 1..(fileNo + 1)
    <3>1. \A i \in DOMAIN k.files : k.files[i] \in 1..fileNo
      BY <1>0 DEF LkCallOK
    <3>2. \A i \in DOMAIN m.files : m.files[i] = fileNo \/ Holds(k.files, m.files[i])
      BY Zenon, <1>0, <2>2, AppendHolds
    <3>3. \A x \in 1..fileNo : x \in 1..(fileNo + 1)
      BY <1>0
    <3>4. fileNo \in 1..(fileNo + 1)
      BY <1>0
    <3> HIDE DEF m, k
    <3> QED BY <3>1, <3>2, <3>3, <3>4 DEF Holds
  <2>5. LkCallOK(m, fileNo + 1)
    <3>1. m.at = "stage" => Len(m.files) < Len(Secrets(m))
      BY <2>2, <2>3
    <3>2. m.at = "run" \/ m.at = "check" => Len(m.files) = Len(Secrets(m))
      BY <2>2, <2>3
    <3>3. Len(m.files) <= Len(Secrets(m))
      BY <2>3
    <3>4. m.auth \in LkKeys /\ (m.op = "add" => m.new \in LkKeys)
      BY <1>0, <2>2 DEF LkCallOK
    <3> HIDE DEF m, k
    <3> QED BY Zenon, <1>0, <2>2, <2>4, <3>1, <3>2, <3>3, <3>4 DEF LkCallOK
  <2>6. m.at # "run" /\ Holds(m.files, fileNo) /\ \A x : Holds(k.files, x) => Holds(m.files, x)
    BY <1>0, <2>2, AppendHolds
  <2> HIDE DEF m, file
  <2>7. LkTypes'
    BY <1>2, <1>3, <1>5, NewFile DEF LkInv
  <2>8. LkCallsOK'
    BY Zenon, <1>5, <2>1, <2>5, OneLkCall DEF LkInv
  <2>9. KeyFilesGone'
    BY Zenon, <1>2, <1>5, <2>1, <2>6, OthersHold DEF LkInv
  <2>10. CheckedStands'
    BY Zenon, <1>2, <1>3, <1>5, <2>1, <2>6, OthersStand DEF LkInv
  <2> QED BY <1>a, <2>7, <2>8, <2>9, <2>10 DEF LkInv
<1>6. CASE /\ stagingDir' = "ours" /\ shm' = shm \cup {file} /\ fileNo' = fileNo + 1
           /\ lkCall' = [lkCall EXCEPT ![c].at = "clean"]
           /\ kept' = kept \cup {fileNo}
  <2>1. lkCall' = [lkCall EXCEPT ![c] = ended]
    BY <1>6 DEF LkInv, LkCallsOK
  <2> HIDE DEF ended, file
  <2>2. LkTypes'
    BY <1>2, <1>3, <1>6, NewFile DEF LkInv
  <2>3. LkCallsOK'
    BY Zenon, <1>0, <1>6, <1>b, <2>1, OneLkCall, LaterNumber DEF LkInv
  <2>4. KeyFilesGone'
    BY Zenon, <1>2, <1>6, <1>b, <2>1, OthersHold DEF LkInv
  <2>5. CheckedStands'
    BY Zenon, <1>2, <1>3, <1>6, <1>b, <2>1, OthersStand DEF LkInv
  <2> QED BY <1>a, <2>2, <2>3, <2>4, <2>5 DEF LkInv
<1> QED BY Zenon, <1>4, <1>5, <1>6 DEF writeKeyFile

(* A call goes on to another step, its files as they are.                   *)
LEMMA LkGoesOn ==
    ASSUME NEW k, NEW n, LkCallOK(k, n), k.at # "idle", NEW next \in {"run", "clean"},
           next = "run" => Len(k.files) = Len(Secrets(k))
    PROVE  /\ LkCallOK([k EXCEPT !.at = next], n)
           /\ [k EXCEPT !.at = next].files = k.files /\ [k EXCEPT !.at = next].at = next
<1> DEFINE m == [k EXCEPT !.at = next]
<1>1. m \in LkRecords /\ m.files = k.files /\ m.at = next /\ m.op = k.op
  BY Zenon DEF LkRecords, LkCallOK
<1> HIDE DEF m
<1>2. Len(Secrets(m)) = Len(Secrets(k))
  BY <1>1, SecretsLen
<1>3. LkCallOK(m, n)
  BY <1>1, <1>2 DEF LkCallOK
<1> QED BY <1>1, <1>3 DEF m

(* verifyStaged finds every file as it was written, or ends the call.       *)
LEMMA CheckStep == ASSUME LkInv, NEW c \in LkCallers, CheckStaged(c) PROVE LkInv'
<1> DEFINE k == lkCall[c]
           next == IF \A i \in DOMAIN k.files : AsWritten(k.files[i]) THEN "run" ELSE "clean"
           m == [k EXCEPT !.at = next]
<1>1. LkCallOK(k, fileNo) /\ k.at = "check" /\ next \in {"run", "clean"}
  BY DEF LkInv, LkCallsOK, CheckStaged
<1>2. LkCallOK(m, fileNo) /\ m.files = k.files /\ m.at = next
  <2>1. Len(k.files) = Len(Secrets(k))
    BY <1>1 DEF LkCallOK
  <2> HIDE DEF k, next
  <2> QED BY Zenon, <1>1, <2>1, LkGoesOn
<1>3. /\ lkCall' = [lkCall EXCEPT ![c] = m]
      /\ UNCHANGED <<slots, stagingDir, shm, fileNo, kept, late, lkCalls>>
  BY DEF LkInv, LkCallsOK, CheckStaged
<1>4. m.at = "run" => Unspoilt(k.files)
  <2> SUFFICES ASSUME next = "run", NEW f \in shm, Holds(k.files, f.id) PROVE f.wrote = "us"
    BY <1>2 DEF Unspoilt
  <2>1. AsWritten(f.id)
    BY DEF Holds
  <2>2. PICK g \in FileOf(f.id) : g.wrote = "us"
    BY <2>1 DEF AsWritten
  <2> QED BY <2>2 DEF FileOf, LkInv, LkTypes
<1> HIDE DEF m, next
<1>5. LkTypes'
  BY <1>3 DEF LkInv, LkTypes
<1>6. LkCallsOK'
  BY Zenon, <1>2, <1>3, OneLkCall DEF LkInv
<1>7. KeyFilesGone'
  BY Zenon, <1>2, <1>3, OthersHold DEF LkInv
<1>8. CheckedStands'
  <2>1. m.at = "run" => \A f \in shm' : Holds(m.files, f.id) => f.wrote = "us"
    BY <1>2, <1>3, <1>4 DEF Unspoilt
  <2> QED BY Zenon, <1>3, <2>1, OthersStand DEF LkInv
<1> QED BY <1>3, <1>5, <1>6, <1>7, <1>8 DEF LkInv, EnrolledAsAsked

(* What cryptsetup reads from the files of a call.                          *)
LEMMA ContentType ==
    ASSUME LkTypes, NEW id
    PROVE  /\ Content(id) \in LkKeys \cup {Free, Strange}
           /\ (\A f \in FileOf(id) : f.wrote = "us") => Content(id) # Strange
<1>1. CASE FileOf(id) = {}
  BY <1>1 DEF Content, Free, Strange
<1>2. CASE FileOf(id) # {}
  <2> DEFINE f == CHOOSE f \in FileOf(id) : TRUE
  <2>1. f \in FileOf(id)
    BY <1>2
  <2>2. Content(id) = f.key
    BY <1>2 DEF Content
  <2> HIDE DEF f
  <2>3. f \in shm
    BY <2>1 DEF FileOf
  <2>4. f.key \in LkKeys \cup {Strange} /\ (f.wrote = "us" => f.key \in LkKeys)
    BY <2>3 DEF LkTypes, KeyFiles
  <2>5. Strange \notin LkKeys
    BY DEF LkTypes
  <2> QED BY <2>1, <2>2, <2>4, <2>5
<1> QED BY <1>1, <1>2

(* cryptsetup changes a slot, or does not.                                  *)
LEMMA RunStep == ASSUME LkInv, NEW c \in LkCallers, RunCryptsetup(c) PROVE LkInv'
<1> DEFINE k == lkCall[c]
           m == [k EXCEPT !.at = "clean"]
           Keys == LkKeys \cup {Free, Strange, FirstKey}
<1>1. LkCallOK(k, fileNo) /\ k.at = "run" /\ k \in LkRecords
  BY DEF LkInv, LkCallsOK, RunCryptsetup
<1>2. LkCallOK(m, fileNo) /\ m.files = k.files /\ m.at = "clean"
  <2> HIDE DEF k
  <2> QED BY Zenon, <1>1, LkGoesOn
<1>3. /\ lkCall' = [lkCall EXCEPT ![c] = m]
      /\ UNCHANGED <<stagingDir, shm, fileNo, kept, late, lkCalls>>
  BY DEF LkInv, LkCallsOK, RunCryptsetup
<1>4. slots' = slots \/ slots' \in SlotsAfter(k)
  BY DEF RunCryptsetup
<1>5. slots \in [Slots -> Keys]
  BY DEF LkInv, LkTypes
<1>6. \A id : Content(id) \in Keys
  BY ContentType DEF LkInv
<1>7. \/ slots' = slots
      \/ \E s \in Slots : slots' = [slots EXCEPT ![s] = Free]
      \/ slots' = [slots EXCEPT ![k.slot] = Free]
      \/ k.op = "add" /\ \E s \in Slots : slots' = [slots EXCEPT ![s] = Content(k.files[2])]
  <2>1. k.op \in {"none", "add", "remove", "verify", "kill"}
    BY Zenon, <1>1 DEF LkRecords
  <2>2. CASE slots' \in SlotsAfter(k)
    <3>1. CASE k.op = "add"
      BY <2>2, <3>1 DEF SlotsAfter
    <3>2. CASE k.op = "remove"
      BY <2>2, <3>2 DEF SlotsAfter
    <3>3. CASE k.op = "kill"
      BY <2>2, <3>3 DEF SlotsAfter
    <3>4. CASE k.op = "verify"
      BY <2>2, <3>4 DEF SlotsAfter
    <3>5. CASE k.op = "none"
      BY <1>1, <3>5 DEF LkCallOK
    <3> QED BY <2>1, <3>1, <3>2, <3>3, <3>4, <3>5
  <2> QED BY <1>4, <2>2
<1> HIDE DEF m
<1>8. slots' \in [Slots -> Keys]
  BY <1>5, <1>6, <1>7
<1>9. EnrolledAsAsked'
  <2> SUFFICES ASSUME late = "no", NEW s \in Slots PROVE slots'[s] # Strange
    BY <1>3 DEF EnrolledAsAsked
  <2>1. \A t \in Slots : slots[t] # Strange
    BY DEF LkInv, EnrolledAsAsked
  <2>2. k.op = "add" => Content(k.files[2]) # Strange
    <3> SUFFICES ASSUME k.op = "add" PROVE Content(k.files[2]) # Strange
      OBVIOUS
    <3>1. Len(k.files) = 2
      BY <1>1, SecretsLen DEF LkCallOK
    <3>2. Holds(k.files, k.files[2])
      BY <1>1, <3>1 DEF Holds, LkRecords
    <3>3. Unspoilt(k.files)
      BY <1>1 DEF LkInv, CheckedStands
    <3>4. \A f \in FileOf(k.files[2]) : f.wrote = "us"
      BY <3>2, <3>3 DEF Unspoilt, FileOf
    <3> QED BY <3>4, ContentType DEF LkInv
  <2>3. Free # Strange
    BY DEF Free, Strange
  <2> QED BY <1>5, <1>7, <2>1, <2>2, <2>3
<1>10. LkTypes'
  BY <1>3, <1>8 DEF LkInv, LkTypes
<1>11. LkCallsOK'
  BY Zenon, <1>2, <1>3, OneLkCall DEF LkInv
<1>12. KeyFilesGone'
  BY Zenon, <1>2, <1>3, OthersHold DEF LkInv
<1>13. CheckedStands'
  BY Zenon, <1>2, <1>3, OthersStand DEF LkInv
<1> QED BY <1>9, <1>10, <1>11, <1>12, <1>13 DEF LkInv

(* The deferred cleanup takes the last file.                                *)
LEMMA CleanStep == ASSUME LkInv, NEW c \in LkCallers, Clean(c) PROVE LkInv'
<1> DEFINE k == lkCall[c]
           id == k.files[Len(k.files)]
<1>1. LkCallOK(k, fileNo) /\ k.at = "clean" /\ k \in LkRecords /\ k.files \in Seq(Nat)
  BY DEF LkInv, LkCallsOK, Clean, LkRecords
<1>2. UNCHANGED <<slots, stagingDir, fileNo, late, lkCalls>>
  BY DEF Clean
<1>3. EnrolledAsAsked'
  BY <1>2 DEF LkInv, EnrolledAsAsked
<1>4. CASE k.files = <<>>
  <2>1. lkCall' = [lkCall EXCEPT ![c] = LkIdle] /\ UNCHANGED <<shm, kept>>
    BY <1>4 DEF Clean
  <2>2. LkIdle.files = <<>> /\ LkIdle.at = "idle" /\ LkCallOK(LkIdle, fileNo)
    BY IdleCall
  <2>4. LkTypes'
    BY <1>2, <2>1 DEF LkInv, LkTypes
  <2>5. LkCallsOK'
    BY Zenon, <1>2, <2>1, <2>2, OneLkCall DEF LkInv
  <2>6. KeyFilesGone'
    <3>1. \A f \in shm' : f \in shm /\ (Holds(lkCall[c].files, f.id) => Holds(LkIdle.files, f.id))
      BY <1>4, <2>1, <2>2
    <3> QED BY Zenon, <2>1, <3>1, OthersHold DEF LkInv
  <2>7. CheckedStands'
    BY Zenon, <1>2, <2>1, <2>2, OthersStand DEF LkInv
  <2> QED BY <1>3, <2>4, <2>5, <2>6, <2>7 DEF LkInv
<1>5. CASE k.files # <<>>
  <2> DEFINE rest == SubSeq(k.files, 1, Len(k.files) - 1)
             m == [k EXCEPT !.files = rest]
  <2>1. /\ lkCall' = [lkCall EXCEPT ![c] = m]
        /\ \/ shm' = shm \ FileOf(id) /\ UNCHANGED kept
           \/ kept' = kept \cup {id} /\ UNCHANGED shm
    BY <1>5 DEF Clean, LkInv, LkCallsOK
  <2>2. /\ rest \in Seq(Nat) /\ Len(rest) = Len(k.files) - 1 /\ Len(k.files) \in Nat \ {0}
        /\ \A x : Holds(k.files, x) => x = id \/ Holds(rest, x)
        /\ \A x : Holds(rest, x) => Holds(k.files, x)
        /\ Holds(k.files, id)
    BY <1>1, <1>5, FrontHolds
  <2>3. m \in LkRecords /\ m.files = rest /\ m.at = "clean" /\ m.op = k.op
    BY Zenon, <1>1, <2>2 DEF LkRecords
  <2>4. \A x : Holds(k.files, x) => x \in 1..fileNo
    BY <1>1 DEF LkCallOK, Holds
  <2> HIDE DEF m, rest, id
  <2>5. LkCallOK(m, fileNo)
    <3>1. \A i \in DOMAIN m.files : Holds(rest, m.files[i])
      BY <2>3 DEF Holds
    <3>2. \A i \in DOMAIN m.files : m.files[i] \in 1..fileNo
      BY <2>2, <2>4, <3>1
    <3>3. Len(Secrets(m)) = Len(Secrets(k)) /\ Len(Secrets(k)) \in Nat
      BY <2>3, SecretsLen
    <3>4. Len(k.files) <= Len(Secrets(k))
      BY <1>1 DEF LkCallOK
    <3> HIDE DEF k
    <3>5. Len(m.files) <= Len(Secrets(m))
      BY SMTT(30), <2>2, <2>3, <3>3, <3>4
    <3> QED BY <1>1, <2>3, <3>2, <3>5 DEF LkCallOK
  <2>6. shm' \subseteq shm /\ kept \subseteq kept' /\ kept' \subseteq kept \cup {id} /\ id \in 1..fileNo
    BY <2>1, <2>2, <2>4
  <2>7. LkTypes'
    BY Zenon, <1>2, <2>6 DEF LkInv, LkTypes
  <2>8. LkCallsOK'
    BY Zenon, <1>2, <2>1, <2>5, OneLkCall DEF LkInv
  <2>9. \A f \in shm' : f.id = id => f.id \in kept'
    BY <2>1 DEF FileOf
  <2>10. KeyFilesGone'
    <3>1. \A f \in shm' : \/ f \in shm /\ (Holds(lkCall[c].files, f.id) => Holds(m.files, f.id))
                          \/ f.id \in kept'
      BY <2>2, <2>3, <2>6, <2>9
    <3> QED BY Zenon, <2>1, <2>6, <3>1, OthersHold DEF LkInv
  <2>11. CheckedStands'
    BY Zenon, <1>2, <2>1, <2>3, <2>6, OthersStand DEF LkInv
  <2> QED BY <1>3, <2>7, <2>8, <2>10, <2>11 DEF LkInv
<1> QED BY <1>4, <1>5

(* Something else replaces a staged file.                                   *)
LEMMA ReplaceStep == ASSUME LkInv, FileReplaced PROVE LkInv'
<1>1. PICK f \in shm :
        /\ shm' = (shm \ {f}) \cup {[f EXCEPT !.key = Strange, !.wrote = "them"]}
        /\ late' = IF \E c \in LkCallers : lkCall[c].at = "run" /\ Holds(lkCall[c].files, f.id)
                   THEN "yes" ELSE late
  BY Zenon DEF FileReplaced
<1>2. UNCHANGED <<slots, stagingDir, fileNo, lkCall, kept, lkCalls>>
  BY DEF FileReplaced
<1> DEFINE g == [f EXCEPT !.key = Strange, !.wrote = "them"]
<1>3. g \in KeyFiles /\ g.id = f.id /\ g.wrote = "them" /\ f \in KeyFiles
  BY Zenon DEF LkInv, LkTypes, KeyFiles
<1>4. shm' = (shm \ {f}) \cup {g}
  BY <1>1
<1> HIDE DEF g
<1>5. late' \in {"no", "yes"} /\ (late' = "no" => late = "no")
  BY <1>1 DEF LkInv, LkTypes
<1>6. LkTypes'
  <2>1. shm' \in SUBSET KeyFiles
    BY <1>3, <1>4 DEF LkInv, LkTypes
  <2>2. \A x \in shm' : x.id >= 1 /\ x.id < fileNo /\ (x.wrote = "us" => x.key \in LkKeys)
    BY <1>3, <1>4 DEF LkInv, LkTypes
  <2>3. \A x, y \in shm' : x.id = y.id => x = y
    BY <1>3, <1>4 DEF LkInv, LkTypes
  <2> QED BY <1>2, <1>5, <2>1, <2>2, <2>3 DEF LkInv, LkTypes
<1>7. LkCallsOK'
  BY <1>2 DEF LkInv, LkCallsOK
<1>8. KeyFilesGone'
  BY <1>2, <1>3, <1>4 DEF LkInv, KeyFilesGone
<1>9. CheckedStands'
  <2> SUFFICES ASSUME late' = "no", NEW c \in LkCallers, lkCall[c].at = "run", NEW x \in shm',
                      Holds(lkCall[c].files, x.id)
               PROVE  x.wrote = "us"
    BY <1>2 DEF CheckedStands, Unspoilt
  <2>1. ~Holds(lkCall[c].files, f.id)
    BY <1>1
  <2>2. x \in shm
    BY <1>3, <1>4, <2>1
  <2>3. Unspoilt(lkCall[c].files)
    BY <1>5 DEF LkInv, CheckedStands
  <2> QED BY <2>2, <2>3 DEF Unspoilt
<1>10. EnrolledAsAsked'
  BY <1>2, <1>5 DEF LkInv, EnrolledAsAsked
<1> QED BY <1>6, <1>7, <1>8, <1>9, <1>10 DEF LkInv

(* The process is killed.                                                   *)
LEMMA LkKilledStep == ASSUME LkInv, LkKilled PROVE LkInv'
<1>1. /\ lkCall' = [c \in LkCallers |-> LkIdle] /\ kept' = kept \cup {f.id : f \in shm}
      /\ stagingDir' = "none" /\ UNCHANGED <<slots, shm, fileNo, late, lkCalls>>
  BY DEF LkKilled
<1>2. LkTypes'
  <2>1. \A f \in shm : f.id \in 1..fileNo
    BY DEF LkInv, LkTypes, KeyFiles
  <2>2. kept' \subseteq 1..fileNo
    BY Zenon, <1>1, <2>1 DEF LkInv, LkTypes
  <2> QED BY <1>1, <2>2 DEF LkInv, LkTypes
<1>3. LkIdle \in LkRecords /\ LkIdle.at = "idle" /\ LkCallOK(LkIdle, fileNo)
  BY IdleCall
<1>5. LkCallsOK'
  BY <1>1, <1>3 DEF LkCallsOK
<1>6. KeyFilesGone'
  BY <1>1 DEF KeyFilesGone
<1>7. CheckedStands'
  BY <1>1, <1>3 DEF CheckedStands
<1> QED BY <1>1, <1>2, <1>5, <1>6, <1>7 DEF LkInv, EnrolledAsAsked

(* Every step preserves the invariant.                                      *)
LEMMA LkStep == LkInv /\ LkNext => LkInv'
<1> SUFFICES ASSUME LkInv, LkNext PROVE LkInv'
  OBVIOUS
<1>1. ASSUME NEW c \in LkCallers, NEW a \in LkKeys, NEW n \in LkKeys \ {a}, NEW s \in {"1", AnySlot},
             LkStarts(c, "add", a, n, s)
      PROVE  LkInv'
  BY <1>1, LkStartsStep
<1>2. ASSUME NEW c \in LkCallers, NEW a \in LkKeys, NEW op \in {"remove", "verify"},
             LkStarts(c, op, a, Free, AnySlot)
      PROVE  LkInv'
  BY <1>2, LkStartsStep
<1>3. ASSUME NEW c \in LkCallers, NEW a \in LkKeys, NEW s \in Slots, LkStarts(c, "kill", a, Free, s)
      PROVE  LkInv'
  BY <1>3, LkStartsStep
<1>4. ASSUME NEW c \in LkCallers, writeKeyFile(c) \/ CheckStaged(c) \/ RunCryptsetup(c) \/ Clean(c)
      PROVE  LkInv'
  BY <1>4, StageStep, CheckStep, RunStep, CleanStep
<1>5. CASE FileReplaced
  BY <1>5, ReplaceStep
<1>6. CASE DirSpoilt
  <2>1. LkTypes' /\ LkCallsOK'
    BY <1>6 DEF DirSpoilt, LkInv, LkTypes, LkCallsOK
  <2> QED
    BY <1>6, <2>1 DEF DirSpoilt, LkInv, KeyFilesGone, CheckedStands, Unspoilt, EnrolledAsAsked
<1>7. CASE LkKilled
  BY <1>7, LkKilledStep
<1>8. ASSUME NEW c \in LkCallers, NEW a \in LkKeys,
             \/ \E n \in LkKeys \ {a}, s \in {"1", AnySlot} : LkStarts(c, "add", a, n, s)
             \/ \E op \in {"remove", "verify"} : LkStarts(c, op, a, Free, AnySlot)
             \/ \E s \in Slots : LkStarts(c, "kill", a, Free, s)
      PROVE  LkInv'
  BY <1>1, <1>2, <1>3, <1>8
<1> QED BY <1>4, <1>5, <1>6, <1>7, <1>8 DEF LkNext

(* AddKey, RemoveKey, KillSlot and VerifyPassphrase, whatever the callers, the *)
(* keys and the slots: no key file outlives its call unless its unlink failed *)
(* or the process was killed, and no slot holds what was put in place of a  *)
(* staged file before its check.                                            *)
THEOREM KeysStayHandled ==
    ASSUME MaxLkCalls \in Nat, Strange \notin LkKeys \cup {FirstKey}
    PROVE  LkSpec => []KeysHandled
<1>1. LkInit => LkInv
  <2> SUFFICES ASSUME LkInit PROVE LkInv
    OBVIOUS
  <2>1. LkTypes
    BY DEF LkInit, LkTypes
  <2>2. LkIdle \in LkRecords /\ LkIdle.at = "idle" /\ LkCallOK(LkIdle, fileNo)
    BY IdleCall
  <2>4. LkCallsOK /\ KeyFilesGone /\ CheckedStands
    BY <2>2 DEF LkInit, LkCallsOK, KeyFilesGone, CheckedStands
  <2>5. EnrolledAsAsked
    BY DEF LkInit, EnrolledAsAsked, Free, Strange
  <2> QED BY <2>1, <2>4, <2>5 DEF LkInv
<1>2. LkInv /\ UNCHANGED lkVars => LkInv'
  <2> SUFFICES ASSUME LkInv, UNCHANGED lkVars PROVE LkInv'
    OBVIOUS
  <2>1. LkTypes' /\ LkCallsOK'
    BY DEF lkVars, LkInv, LkTypes, LkCallsOK
  <2> QED BY <2>1 DEF lkVars, LkInv, KeyFilesGone, CheckedStands, Unspoilt, EnrolledAsAsked
<1>3. LkInv => KeysHandled
  <2> SUFFICES ASSUME LkInv PROVE KeysHandled
    OBVIOUS
  <2>1. \A f \in shm : f.id \in 1..fileNo /\ f.key \in LkKeys \cup {Strange}
    BY DEF LkInv, LkTypes, KeyFiles
  <2>2. \A c \in LkCallers : lkCall[c].at \in {"idle", "stage", "check", "run", "clean"}
    BY DEF LkInv, LkCallsOK, LkRecords
  <2>3. \A c \in LkCallers : Len(lkCall[c].files) <= 2
    <3> TAKE c \in LkCallers
    <3> DEFINE k == lkCall[c]
    <3>1. Len(k.files) <= Len(Secrets(k)) /\ k.files \in Seq(Nat)
      BY DEF LkInv, LkCallsOK, LkCallOK, LkRecords
    <3> HIDE DEF k
    <3>2. Len(Secrets(k)) <= 2 /\ Len(Secrets(k)) \in Nat /\ Len(k.files) \in Nat
      BY <3>1, SecretsLen
    <3>3. Len(k.files) <= 2
      BY <3>1, <3>2
    <3> QED BY <3>3 DEF k
  <2>4. LkTypeOK
    BY <2>1, <2>2, <2>3 DEF LkInv, LkTypes, LkTypeOK
  <2> QED BY <2>4 DEF LkInv, KeysHandled
<1> QED BY LkStep, <1>1, <1>2, <1>3, PTL DEF LkSpec
=============================================================================
