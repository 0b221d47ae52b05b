----------------------------- MODULE FileWrite -----------------------------
(***************************************************************************)
(* Manager.WriteFile (sys/fs) on one path, with or without a backup: the    *)
(* fd-anchored writes of the root agent (writeDirect) and the root shell of *)
(* a caller under sudo or doas (writeEscalated), with failures at each      *)
(* step, a kill of the caller and a loss of power.                         *)
(*                                                                         *)
(* A file is the number of the call that wrote it, 0 where there is none,   *)
(* and whether all of its bytes are there; fsync says whether they are on   *)
(* the disk.  A rename is on the disk once its directory is synced or       *)
(* written back.                                                           *)
(***************************************************************************)
EXTENDS Naturals

CONSTANTS
    MaxCalls    \* bound: calls of WriteFile

Names == {"path", "backup"}
YesNo == {"yes", "no"}
File == [ver : 0..MaxCalls + 1, whole : YesNo, synced : YesNo]
NoFile == [ver |-> 0, whole |-> "yes", synced |-> "yes"]
First == [ver |-> 1, whole |-> "yes", synced |-> "yes"]

VARIABLES
    backend,    \* of the Runner: "direct" or "escalated"
    existed,    \* there was a file at the path in the beginning
    mem,        \* the files as programs see them
    disk,       \* the files a loss of power leaves
    temp,       \* the temporary file
    opts,       \* which of Backup and Owner the call asks for
    data,       \* the version that is being written
    into,       \* the name safeReplaceFile writes, the backup first
    at,         \* the step of the call
    prior,      \* what the call found at the path
    result,     \* of the last call: "none" when it did not return
    unsynced,   \* a sync of a directory has failed, which nobody is told
    outage      \* power was lost

callVars == <<opts, data, prior>>
writeVars == <<backend, existed, mem, disk, temp, into, at, result, unsynced, outage, callVars>>
worldVars == <<backend, existed, unsynced, outage>>

WriteInit ==
    /\ backend \in {"direct", "escalated"}
    /\ existed \in YesNo
    /\ mem = [n \in Names |-> IF n = "path" /\ existed = "yes" THEN First ELSE NoFile]
    /\ disk = mem
    /\ temp = NoFile
    /\ opts = [backup |-> "no", owner |-> "no"]
    /\ data = 1 /\ into = "path" /\ at = "idle"
    /\ prior = NoFile /\ result = "none"
    /\ unsynced = "no" /\ outage = "no"

-----------------------------------------------------------------------------
(* The world.                                                              *)

(* The page cache is written back: a directory entry is on the disk, its    *)
(* bytes need not be.                                                      *)
Writeback(n) ==
    /\ disk[n] # mem[n]
    /\ disk' = [disk EXCEPT ![n] = mem[n]]
    /\ UNCHANGED <<worldVars, mem, temp, into, at, result, callVars>>

(* The caller is killed, or its context ends in the middle of the script.   *)
Killed ==
    /\ at # "idle"
    /\ at' = "idle"
    /\ UNCHANGED <<worldVars, mem, disk, temp, into, result, callVars>>

(* What was not synced may be lost.                                        *)
Survives(f) ==
    {[f EXCEPT !.synced = "yes"]}
        \cup IF f.synced = "yes" THEN {} ELSE {[f EXCEPT !.synced = "yes", !.whole = "no"]}

PowerLoss ==
    /\ \E p \in Survives(disk["path"]), b \in Survives(disk["backup"]) :
          mem' = [n \in Names |-> IF n = "path" THEN p ELSE b]
    /\ disk' = mem'
    /\ temp' = NoFile
    /\ at' = "idle"
    /\ result' = "none"
    /\ outage' = "yes"
    /\ UNCHANGED <<backend, existed, unsynced, into, callVars>>

-----------------------------------------------------------------------------
(* A call whose arguments are valid and, escalated, whose parent directory  *)
(* is safe; the others return before they change anything.                 *)
WriteStarts ==
    /\ at = "idle"
    /\ data <= MaxCalls
    /\ data' = data + 1
    /\ opts' \in [backup : YesNo, owner : YesNo]
    /\ prior' = mem["path"]
    /\ result' = "none"
    /\ at' = IF opts'.backup = "yes" THEN "back up" ELSE "create"
    /\ into' = "path"
    /\ UNCHANGED <<worldVars, mem, disk, temp>>

(* An error: the temporary file is removed, by cleanup or by the trap.      *)
ReplaceFails ==
    /\ at \in {"back up", "copy", "create", "write", "sync", "rename"}
    /\ temp' = NoFile
    /\ at' = "idle"
    /\ result' = "replace failed"
    /\ UNCHANGED <<worldVars, mem, disk, into, callVars>>

-----------------------------------------------------------------------------
(* writeDirect: safeBackupAndReplace, safeReplaceFile and the owner.        *)
Direct == backend = "direct"

(* The current file is read, to be written to the backup first.            *)
ReadCurrent ==
    /\ Direct /\ at = "back up"
    /\ at' = "create"
    /\ into' = IF prior.ver = 0 THEN "path" ELSE "backup"
    /\ UNCHANGED <<worldVars, mem, disk, temp, result, callVars>>

Payload == IF into = "backup" THEN prior.ver ELSE data

CreateTemp ==
    /\ at = "create"
    /\ temp' = [ver |-> Payload, whole |-> "no", synced |-> "no"]
    /\ at' = "write"
    /\ UNCHANGED <<worldVars, mem, disk, into, result, callVars>>

(* Mutant of WriteTemp: the file is not synced.                            *)
WriteTempOnly ==
    /\ Direct /\ at = "write"
    /\ temp' = [temp EXCEPT !.whole = "yes"]
    /\ at' = "rename"
    /\ UNCHANGED <<worldVars, mem, disk, into, result, callVars>>

(* Write and Chmod.                                                        *)
WriteTemp ==
    /\ Direct /\ at = "write"
    /\ temp' = [temp EXCEPT !.whole = "yes"]
    /\ at' = "sync"
    /\ UNCHANGED <<worldVars, mem, disk, into, result, callVars>>

SyncTemp ==
    /\ at = "sync"
    /\ temp' = [temp EXCEPT !.synced = "yes"]
    /\ at' = "rename"
    /\ UNCHANGED <<worldVars, mem, disk, into, result, callVars>>

Rename ==
    /\ Direct /\ at = "rename"
    /\ mem' = [mem EXCEPT ![into] = temp]
    /\ temp' = NoFile
    /\ at' = "sync directory"
    /\ UNCHANGED <<worldVars, disk, into, result, callVars>>

(* After the directory: the path where it was the backup, or the owner, or  *)
(* the end.                                                                *)
Replaced ==
    /\ at' = IF into = "backup" THEN "create" ELSE IF opts.owner = "yes" THEN "chown" ELSE "idle"
    /\ into' = "path"
    /\ result' = IF at' = "idle" THEN "ok" ELSE "none"

(* Mutant of SyncDirectory: it does nothing.                               *)
SyncDirectoryNot ==
    /\ at = "sync directory"
    /\ UNCHANGED <<disk, unsynced>>
    /\ Replaced
    /\ UNCHANGED <<backend, existed, outage, mem, temp, callVars>>

(* Its errors are dropped.                                                 *)
SyncDirectory ==
    /\ at = "sync directory"
    /\ \/ disk' = [disk EXCEPT ![into] = mem[into]] /\ UNCHANGED unsynced
       \/ unsynced' = "yes" /\ UNCHANGED disk
    /\ Replaced
    /\ UNCHANGED <<backend, existed, outage, mem, temp, callVars>>

(* ResolveOwnership and FchownNoFollow, once the file is in place.         *)
Chown ==
    /\ at = "chown"
    /\ result' \in {"ok", "chown failed"}
    /\ at' = "idle"
    /\ UNCHANGED <<worldVars, mem, disk, temp, into, callVars>>

-----------------------------------------------------------------------------
(* writeEscalated: the script, which leaves the disk to the page cache.     *)

(* cp -f cuts the backup short and fills it.                               *)
CopyStarts ==
    /\ ~Direct /\ at = "back up"
    /\ IF prior.ver = 0
       THEN at' = "create" /\ UNCHANGED mem
       ELSE /\ at' = "copy"
            /\ mem' = [mem EXCEPT !["backup"] = [ver |-> prior.ver, whole |-> "no", synced |-> "no"]]
    /\ UNCHANGED <<worldVars, disk, temp, into, result, callVars>>

CopyEnds ==
    /\ at = "copy"
    /\ mem' = [mem EXCEPT !["backup"].whole = prior.whole]
    /\ at' = "create"
    /\ UNCHANGED <<worldVars, disk, temp, into, result, callVars>>

(* cat, chmod and chown.                                                   *)
FillTemp ==
    /\ ~Direct /\ at = "write"
    /\ temp' = [temp EXCEPT !.whole = "yes"]
    /\ at' = "rename"
    /\ UNCHANGED <<worldVars, mem, disk, into, result, callVars>>

Mv ==
    /\ ~Direct /\ at = "rename"
    /\ mem' = [mem EXCEPT !["path"] = temp]
    /\ temp' = NoFile
    /\ at' = "idle"
    /\ result' = "ok"
    /\ UNCHANGED <<worldVars, disk, into, callVars>>

-----------------------------------------------------------------------------
WriteNext ==
    \/ \E n \in Names : Writeback(n)
    \/ Killed \/ PowerLoss \/ WriteStarts \/ ReplaceFails
    \/ ReadCurrent \/ CreateTemp \/ WriteTemp \/ SyncTemp \/ Rename \/ SyncDirectory \/ Chown
    \/ CopyStarts \/ CopyEnds \/ FillTemp \/ Mv

WriteSpec == WriteInit /\ [][WriteNext]_writeVars

-----------------------------------------------------------------------------
(* The variables keep their types; what writeDirect renames into place has  *)
(* been synced.                                                            *)
WriteTypeOK ==
    /\ mem \in [Names -> File] /\ disk \in [Names -> File]
    /\ temp \in File /\ prior \in File
    /\ data \in 1..MaxCalls + 1
    /\ into \in Names
    /\ at \in {"idle", "back up", "copy", "create", "write", "sync", "rename",
               "sync directory", "chown"}
    /\ Direct /\ at = "rename" => temp.whole = "yes" /\ temp.synced = "yes"

(* Power was lost where the code does not sync: under the script, or after  *)
(* a sync of a directory has failed.                                       *)
Exposed == outage = "yes" /\ (~Direct \/ unsynced = "yes")

(* "path is never left absent" (safeBackupAndReplace), nor is it cut short: *)
(* at every moment, and after a loss of power at any moment of writeDirect, *)
(* there is a whole file at the path.  "on ANY failure ... path still holds *)
(* the original content", of the script too.                               *)
PathWhole ==
    /\ Exposed \/ mem["path"].whole = "yes"
    /\ Direct => disk["path"].whole = "yes" /\ disk["path"].synced = "yes"
    /\ existed = "yes" => mem["path"].ver # 0 /\ disk["path"].ver # 0
    /\ result = "replace failed" => mem["path"].ver = prior.ver /\ mem["path"].whole = prior.whole

BackedUp(files) ==
    files["path"].ver = data => files["backup"].ver = prior.ver /\ files["backup"].whole = "yes"

(* WriteOptions.Backup: wherever the new content is at the path, all of     *)
(* what the call found there is in the backup; on the disk of writeDirect   *)
(* too, in whatever order its directories are written back.                *)
PriorKept ==
    opts.backup = "yes" /\ prior.ver # 0 /\ prior.whole = "yes" /\ ~Exposed =>
        /\ BackedUp(mem)
        /\ Direct /\ unsynced = "no" => BackedUp(disk)

(* WriteFile keeps the path whole and the backup it was asked for.           *)
WritesWhole == WriteTypeOK /\ PathWhole /\ PriorKept
=============================================================================
