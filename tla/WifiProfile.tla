---------------------------- MODULE WifiProfile ----------------------------
(***************************************************************************)
(* One WiFi connection as the agent keeps it (sys/network): the profile of  *)
(* NetworkManager and the directories of EAP-TLS certificates beside it.    *)
(* Apply creates the connection, or updates it with certificates staged in  *)
(* CertDir.tmp and swapped in over CertDir.old; a PSK goes into a keyfile.  *)
(*                                                                         *)
(* A profile is its version; its certificate and its key carry the version  *)
(* they come from, 0 for a file that is missing or cut short.              *)
(***************************************************************************)
EXTENDS Naturals

CONSTANTS
    MaxVersion,     \* bound: versions the agent is given
    Eap,            \* the versions that are EAP-TLS; the others are PSK
    MaxFaults       \* bound: failed calls and crashes

ASSUME BoundsAssumption == MaxVersion \in Nat /\ MaxFaults \in Nat

Versions == 0..MaxVersion
Lapses == 0..MaxFaults
Missing == [kind |-> "none", cert |-> 0, key |-> 0]
Dir == [kind : {"none", "dir"}, cert : Versions, key : Versions]
IsPair(d) == d.cert # 0 /\ d.cert = d.key

VARIABLES
    wanted,     \* the version the agent is to apply, 0: the connection is to go
    latest,     \* how many versions there were
    conn,       \* what NetworkManager has loaded, 0: no such connection
    keyfile,    \* the profile on disk
    live, tmp, old,     \* CertDir, CertDir.tmp, CertDir.old
    p,          \* the version of the call
    at,         \* the step of the call
    had,        \* CertDir when the call began
    lapses      \* how many calls failed or were cut short

dirs == <<live, tmp, old>>
vars == <<wanted, latest, conn, keyfile, dirs, p, at, had, lapses>>

Init ==
    /\ wanted = 0 /\ latest = 0 /\ conn = 0 /\ keyfile = 0
    /\ live = Missing /\ tmp = Missing /\ old = Missing
    /\ p = 0 /\ at = "idle" /\ had = Missing
    /\ lapses = 0

(* The agent is given another version, or told to remove the connection.    *)
Want ==
    /\ latest < MaxVersion
    /\ latest' = latest + 1
    /\ wanted' \in {latest + 1, 0}
    /\ UNCHANGED <<conn, keyfile, dirs, p, at, had, lapses>>

(* The agent is killed, or the host goes down.                             *)
Crash ==
    /\ at # "idle"
    /\ lapses < MaxFaults
    /\ lapses' = lapses + 1
    /\ at' = "idle"
    /\ UNCHANGED <<wanted, latest, conn, keyfile, dirs, p, had>>

NMRestarts ==
    /\ conn # keyfile
    /\ conn' = keyfile
    /\ UNCHANGED <<wanted, latest, keyfile, dirs, p, at, had, lapses>>

Fault == lapses < MaxFaults /\ lapses' = lapses + 1

(* The call goes on to a step, with everything but the variables it names   *)
(* as it was.                                                              *)
Goto(s) == at' = s /\ UNCHANGED <<wanted, latest, p, had>>

-----------------------------------------------------------------------------
(* Mutant of NeedsModify: only the settings are compared.                  *)
NeedsModifySettings == conn # p'

(* needsModify: the settings, and the PEM files under their final names.    *)
NeedsModify == conn # p' \/ live.cert # p' \/ live.key # p'

(* Apply up to its first change: ConnectionExists, Settings.  Settings that *)
(* cannot be read are modified anyway.                                     *)
ApplyStarts ==
    /\ at = "idle" /\ wanted # 0
    /\ p' = wanted
    /\ had' = live
    /\ IF wanted \notin Eap
       THEN at' = "keyfile" /\ UNCHANGED lapses
       ELSE IF conn = 0
       THEN at' = "cert" /\ UNCHANGED lapses
       ELSE \/ at' = (IF NeedsModify THEN "stage cert" ELSE "idle") /\ UNCHANGED lapses
            \/ at' = "stage cert" /\ Fault
    /\ UNCHANGED <<wanted, latest, conn, keyfile, dirs>>

(* provisionPSK: writeKeyfile renames a whole file into place.             *)
WriteKeyfile ==
    /\ at = "keyfile"
    /\ keyfile' = p
    /\ Goto("reload")
    /\ UNCHANGED <<conn, dirs, lapses>>

KeyfileFails ==
    /\ at = "keyfile"
    /\ Fault
    /\ Goto("idle")
    /\ UNCHANGED <<conn, keyfile, dirs>>

Reload ==
    /\ at = "reload"
    /\ conn' = keyfile
    /\ Goto("idle")
    /\ UNCHANGED <<keyfile, dirs, lapses>>

(* A call of nmcli that fails, or is cut short, may have had its effect.    *)
ReloadFails ==
    /\ at = "reload"
    /\ Fault
    /\ conn' \in {conn, keyfile}
    /\ Goto("idle")
    /\ UNCHANGED <<keyfile, dirs>>

-----------------------------------------------------------------------------
(* create: writeCerts into CertDir itself, then con add.                   *)

WriteCert ==
    /\ at = "cert"
    /\ live' = [kind |-> "dir", cert |-> p, key |-> live.key]
    /\ Goto("key")
    /\ UNCHANGED <<conn, keyfile, tmp, old, lapses>>

WriteKey ==
    /\ at = "key"
    /\ live' = [live EXCEPT !.key = p]
    /\ Goto("add")
    /\ UNCHANGED <<conn, keyfile, tmp, old, lapses>>

(* The file that could not be written is cut short.                        *)
WriteFails ==
    /\ at \in {"cert", "key"}
    /\ Fault
    /\ live' = IF at = "cert" THEN [kind |-> "dir", cert |-> 0, key |-> live.key]
                              ELSE [live EXCEPT !.key = 0]
    /\ Goto("idle")
    /\ UNCHANGED <<conn, keyfile, tmp, old>>

Add ==
    /\ at = "add"
    /\ conn' = p /\ keyfile' = p
    /\ Goto("idle")
    /\ UNCHANGED <<dirs, lapses>>

(* con add fails: removeCerts, which leaves the files it cannot remove.     *)
AddFails ==
    /\ at = "add"
    /\ Fault
    /\ (conn' = p /\ keyfile' = p) \/ UNCHANGED <<conn, keyfile>>
    /\ \E c, k \in {0, p} : live' = [kind |-> "dir", cert |-> c, key |-> k]
    /\ Goto("idle")
    /\ UNCHANGED <<tmp, old>>

-----------------------------------------------------------------------------
(* update: stagedModify.  Its deferred removal of CertDir.tmp is the step   *)
(* "cleanup", which every way out of it passes.                            *)

StageCert ==
    /\ at = "stage cert"
    /\ tmp' = [kind |-> "dir", cert |-> p, key |-> tmp.key]
    /\ Goto("stage key")
    /\ UNCHANGED <<conn, keyfile, live, old, lapses>>

StageKey ==
    /\ at = "stage key"
    /\ tmp' = [tmp EXCEPT !.key = p]
    /\ Goto("modify")
    /\ UNCHANGED <<conn, keyfile, live, old, lapses>>

StageFails ==
    /\ at \in {"stage cert", "stage key"}
    /\ Fault
    /\ tmp' = IF at = "stage cert" THEN [kind |-> "dir", cert |-> 0, key |-> tmp.key]
                                   ELSE [tmp EXCEPT !.key = 0]
    /\ Goto("cleanup")
    /\ UNCHANGED <<conn, keyfile, live, old>>

(* con mod, with the final paths.                                          *)
Modify ==
    /\ at = "modify"
    /\ conn' = p /\ keyfile' = p
    /\ Goto("backup")
    /\ UNCHANGED <<dirs, lapses>>

ModifyFails ==
    /\ at = "modify"
    /\ Fault
    /\ (conn' = p /\ keyfile' = p) \/ UNCHANGED <<conn, keyfile>>
    /\ Goto("cleanup")
    /\ UNCHANGED dirs

(* Mutant of Backup: the live directory is removed, not renamed.           *)
BackupRemoves ==
    /\ at = "backup"
    /\ live # Missing
    /\ live' = Missing
    /\ Goto("swap")
    /\ UNCHANGED <<conn, keyfile, tmp, old, lapses>>

(* rename(CertDir, CertDir.old) where there is something to rename.  The    *)
(* step says whether there was (liveExists): "swap", or "install".         *)
Backup ==
    /\ at = "backup"
    /\ live # Missing /\ old = Missing
    /\ old' = live /\ live' = Missing
    /\ Goto("swap")
    /\ UNCHANGED <<conn, keyfile, tmp, lapses>>

NothingToBackUp ==
    /\ at = "backup"
    /\ live = Missing
    /\ Goto("install")
    /\ UNCHANGED <<conn, keyfile, dirs, lapses>>

(* A directory is not renamed over another one.                            *)
BackupRefused ==
    /\ at = "backup"
    /\ live # Missing /\ old # Missing
    /\ Goto("cleanup")
    /\ UNCHANGED <<conn, keyfile, dirs, lapses>>

BackupFails ==
    /\ at = "backup"
    /\ live # Missing
    /\ Fault
    /\ Goto("cleanup")
    /\ UNCHANGED <<conn, keyfile, dirs>>

(* Mutant of Install: the staged files are moved one by one.               *)
InstallFileByFile ==
    /\ at \in {"install", "swap"}
    /\ live' \in {tmp, [kind |-> "dir", cert |-> tmp.cert, key |-> had.key]}
    /\ tmp' = Missing
    /\ Goto(IF at = "swap" THEN "remove old" ELSE "cleanup")
    /\ UNCHANGED <<conn, keyfile, old, lapses>>

Install ==
    /\ at \in {"install", "swap"}
    /\ live' = tmp /\ tmp' = Missing
    /\ Goto(IF at = "swap" THEN "remove old" ELSE "cleanup")
    /\ UNCHANGED <<conn, keyfile, old, lapses>>

(* The rename fails, and the rollback from CertDir.old may fail too.       *)
InstallFails ==
    /\ at \in {"install", "swap"}
    /\ Fault
    /\ \/ at = "swap" /\ live' = old /\ old' = Missing
       \/ UNCHANGED <<live, old>>
    /\ Goto("cleanup")
    /\ UNCHANGED <<conn, keyfile, tmp>>

RemoveOld ==
    /\ at = "remove old"
    /\ old' = Missing
    /\ Goto("cleanup")
    /\ UNCHANGED <<conn, keyfile, live, tmp, lapses>>

RemoveOldFails ==
    /\ at = "remove old"
    /\ Fault
    /\ old' \in {old, [kind |-> "dir", cert |-> 0, key |-> old.key]}
    /\ Goto("cleanup")
    /\ UNCHANGED <<conn, keyfile, live, tmp>>

Cleanup ==
    /\ at = "cleanup"
    /\ \/ tmp' = Missing /\ UNCHANGED lapses
       \/ UNCHANGED tmp /\ Fault
    /\ Goto("idle")
    /\ UNCHANGED <<conn, keyfile, live, old>>

-----------------------------------------------------------------------------
(* Delete with the certificate directory.                                  *)

DeleteStarts ==
    /\ at = "idle" /\ wanted = 0
    /\ conn # 0 \/ live # Missing
    /\ at' = IF conn # 0 THEN "delete" ELSE "delete certs"
    /\ UNCHANGED <<wanted, latest, conn, keyfile, dirs, p, had, lapses>>

Delete ==
    /\ at = "delete"
    /\ conn' = 0 /\ keyfile' = 0
    /\ Goto("delete certs")
    /\ UNCHANGED <<dirs, lapses>>

DeleteFails ==
    /\ at = "delete"
    /\ Fault
    /\ (conn' = 0 /\ keyfile' = 0) \/ UNCHANGED <<conn, keyfile>>
    /\ Goto("idle")
    /\ UNCHANGED dirs

SafeRemoveCertDir ==
    /\ at = "delete certs"
    /\ \/ live' = Missing /\ UNCHANGED lapses
       \/ live' \in {live, [live EXCEPT !.cert = 0]} /\ Fault
    /\ Goto("idle")
    /\ UNCHANGED <<conn, keyfile, tmp, old>>

-----------------------------------------------------------------------------
Step ==
    \/ WriteKeyfile \/ KeyfileFails \/ Reload \/ ReloadFails
    \/ WriteCert \/ WriteKey \/ WriteFails \/ Add \/ AddFails
    \/ StageCert \/ StageKey \/ StageFails \/ Modify \/ ModifyFails
    \/ Backup \/ NothingToBackUp \/ BackupRefused \/ BackupFails
    \/ Install \/ InstallFails \/ RemoveOld \/ RemoveOldFails \/ Cleanup
    \/ Delete \/ DeleteFails \/ SafeRemoveCertDir

Next == Want \/ Crash \/ NMRestarts \/ ApplyStarts \/ DeleteStarts \/ Step

Spec == Init /\ [][Next]_vars

(* A call goes on, and the agent applies what is wanted again and again.    *)
Fairness == WF_vars(ApplyStarts) /\ WF_vars(DeleteStarts) /\ WF_vars(Step)

FairSpec == Spec /\ Fairness

-----------------------------------------------------------------------------
Staged == {"stage cert", "stage key", "modify", "backup", "install", "swap",
           "remove old", "cleanup"}
Steps == Staged \cup {"idle", "keyfile", "reload", "cert", "key", "add", "delete", "delete certs"}

(* The variables keep their types.                                         *)
TypeOK ==
    /\ wanted \in Versions /\ latest \in Versions
    /\ conn \in Versions /\ keyfile \in Versions /\ p \in Versions
    /\ live \in Dir /\ tmp \in Dir /\ old \in Dir /\ had \in Dir
    /\ at \in Steps
    /\ lapses \in Lapses

Matched(d) == d.cert # 0 /\ d.key # 0 => d.cert = d.key

(* stagedModify: an update that finds no mixture of versions at CertDir     *)
(* never puts the certificate of one version beside the key of another,     *)
(* whatever fails.                                                         *)
MatchedPair == at \in Staged /\ Matched(had) => Matched(live)

(* "The live cert directory is never destroyed before the staged copy is in *)
(* place" (stagedModify): all through an update a working pair is at        *)
(* CertDir, or the one that was there is at CertDir.old.                   *)
CertsKept ==
    at \in Staged /\ IsPair(had) => IsPair(live) \/ old = had

Installed ==
    IF wanted = 0 THEN conn = 0 /\ live = Missing
    ELSE conn = wanted /\ (wanted \in Eap => live.cert = wanted /\ live.key = wanted)

(* Apply repeated after any failure or crash comes to the wanted state,     *)
(* unless a CertDir.old was left behind.                                   *)
InstalledUnlessOld == []<>(Installed \/ old # Missing)

(* "a cert rotation (same paths, new content) triggers a re-write"          *)
(* (needsModify): Apply repeated comes to the wanted state.                *)
RotationInstalled == []<>Installed
=============================================================================
