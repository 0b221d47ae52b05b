----------------------------- MODULE LuksVolume ----------------------------
(***************************************************************************)
(* The key slots of a LUKS volume and the key files through which AddKey,    *)
(* RemoveKey, KillSlot and VerifyPassphrase (sys/encryption) hand their       *)
(* secrets to cryptsetup.  Every file is staged in a directory of the         *)
(* process, checked once more before cryptsetup opens it by its name, and      *)
(* scrubbed and unlinked when the call returns.  Several calls run at once,   *)
(* any step may fail, and the process may be killed.                         *)
(***************************************************************************)
EXTENDS Naturals, Sequences, FiniteSets

CONSTANTS
    LkCallers,      \* goroutines
    LkKeys,         \* passphrases the callers hand over
    Slots,          \* the key slots, "0" among them
    FirstKey,       \* the passphrase the volume was made with
    MaxLkCalls      \* bound: calls

Free == "free"
AnySlot == "auto"           \* AddKeyOptions without a slot
Strange == "strange"        \* content no caller wrote
LkIdle == [op |-> "none", at |-> "idle", auth |-> Free, new |-> Free, slot |-> AnySlot,
           files |-> <<>>]

VARIABLES
    slots,      \* the key of each slot
    stagingDir, \* of this process: not made yet, ours, or spoilt
    shm,        \* the key files there are: [id, key, wrote]
    fileNo,     \* names the next key file
    lkCall,     \* the call of each caller
    kept,       \* files whose unlink failed, or whose process was killed
    late,       \* a key file changed after its last check
    lkCalls     \* how many calls were made

lkVars == <<slots, stagingDir, shm, fileNo, lkCall, kept, late, lkCalls>>

LkInit ==
    /\ slots = [s \in Slots |-> IF s = "0" THEN FirstKey ELSE Free]
    /\ stagingDir = "none" /\ shm = {} /\ fileNo = 1
    /\ lkCall = [c \in LkCallers |-> LkIdle]
    /\ kept = {} /\ late = "no" /\ lkCalls = 0

(* A call past its validation: no empty secret, a device, a slot in range.   *)
LkStarts(c, op, auth, new, slot) ==
    /\ lkCall[c] = LkIdle /\ lkCalls < MaxLkCalls
    /\ lkCalls' = lkCalls + 1
    /\ lkCall' = [lkCall EXCEPT ![c] = [op |-> op, at |-> "stage", auth |-> auth,
                                        new |-> new, slot |-> slot, files |-> <<>>]]
    /\ UNCHANGED <<slots, stagingDir, shm, fileNo, kept, late>>

(* The secrets a call stages, in order.                                     *)
Secrets(k) == IF k.op = "add" THEN <<k.auth, k.new>> ELSE <<k.auth>>

-----------------------------------------------------------------------------
(* keyFileStagingDir under stagingMu: made on first use, checked every time;  *)
(* a spoilt one is an error for good.                                       *)
StagingReady == stagingDir \in {"none", "ours"}

(* writeKeyFile: a failure removes what it wrote, or says that it could not;  *)
(* the deferred cleanups of the files before it run either way.              *)
writeKeyFile(c) ==
    LET k == lkCall[c]
        key == Secrets(k)[Len(k.files) + 1]
        file == [id |-> fileNo, key |-> key, wrote |-> "us"]
    IN /\ k.at = "stage"
       /\ \/ /\ StagingReady
             /\ stagingDir' = "ours" /\ shm' = shm \cup {file} /\ fileNo' = fileNo + 1
             /\ \/ /\ lkCall' = [lkCall EXCEPT ![c].files = Append(@, fileNo),
                       ![c].at = IF Len(k.files) + 1 = Len(Secrets(k)) THEN "check" ELSE "stage"]
                   /\ UNCHANGED kept
                \/ /\ lkCall' = [lkCall EXCEPT ![c].at = "clean"]
                   /\ kept' = kept \cup {fileNo}
          \/ /\ lkCall' = [lkCall EXCEPT ![c].at = "clean"]
             /\ UNCHANGED <<stagingDir, shm, fileNo, kept>>
       /\ UNCHANGED <<slots, late, lkCalls>>

-----------------------------------------------------------------------------
Holds(files, id) == \E i \in DOMAIN files : files[i] = id
FileOf(id) == {f \in shm : f.id = id}
AsWritten(id) == \E f \in FileOf(id) : f.wrote = "us"

(* Mutant of CheckStaged: the files are handed over as they are.            *)
CheckNothing(c) ==
    /\ lkCall[c].at = "check"
    /\ lkCall' = [lkCall EXCEPT ![c].at = "run"]
    /\ UNCHANGED <<slots, stagingDir, shm, fileNo, kept, late, lkCalls>>

(* verifyStaged: each file still is the one that was written.               *)
CheckStaged(c) ==
    /\ lkCall[c].at = "check"
    /\ lkCall' = [lkCall EXCEPT ![c].at =
          IF \A i \in DOMAIN lkCall[c].files : AsWritten(lkCall[c].files[i])
          THEN "run" ELSE "clean"]
    /\ UNCHANGED <<slots, stagingDir, shm, fileNo, kept, late, lkCalls>>

(* cryptsetup opens the files by name.  What it does to the slots: external.  *)
Content(id) == IF FileOf(id) = {} THEN Free ELSE (CHOOSE f \in FileOf(id) : TRUE).key
Authorised(k) == \E s \in Slots : slots[s] = Content(k.files[1]) /\ slots[s] # Free

SlotsAfter(k) ==
    CASE k.op = "add"    -> {[slots EXCEPT ![s] = Content(k.files[2])] :
                               s \in {t \in Slots : slots[t] = Free /\ k.slot \in {t, AnySlot}}}
      [] k.op = "remove" -> {[slots EXCEPT ![s] = Free] :
                               s \in {t \in Slots : slots[t] = Content(k.files[1])}}
      [] k.op = "kill"   -> {[slots EXCEPT ![k.slot] = Free]}
      [] k.op = "verify" -> {slots}

(* runCryptsetup: done, refused, or cut off by the context before or after.  *)
RunCryptsetup(c) ==
    /\ lkCall[c].at = "run"
    /\ \/ Authorised(lkCall[c]) /\ slots' \in SlotsAfter(lkCall[c])
       \/ UNCHANGED slots
    /\ lkCall' = [lkCall EXCEPT ![c].at = "clean"]
    /\ UNCHANGED <<stagingDir, shm, fileNo, kept, late, lkCalls>>

-----------------------------------------------------------------------------
(* Mutant of Clean: the first file is forgotten.                            *)
CleanLast(c) ==
    LET files == lkCall[c].files IN
    /\ lkCall[c].at = "clean"
    /\ lkCall' = [lkCall EXCEPT ![c] = LkIdle]
    /\ shm' = IF files = <<>> THEN shm ELSE shm \ FileOf(files[Len(files)])
    /\ UNCHANGED <<slots, stagingDir, fileNo, kept, late, lkCalls>>

(* The deferred cleanupKeyFiles, last file first: scrub, then unlink, which  *)
(* goes ahead whatever became of the scrub and whose failure is only logged. *)
Clean(c) ==
    LET files == lkCall[c].files
        id == files[Len(files)]
    IN /\ lkCall[c].at = "clean"
       /\ IF files = <<>>
          THEN lkCall' = [lkCall EXCEPT ![c] = LkIdle] /\ UNCHANGED <<shm, kept>>
          ELSE /\ lkCall' = [lkCall EXCEPT ![c].files = SubSeq(@, 1, Len(@) - 1)]
               /\ \/ shm' = shm \ FileOf(id) /\ UNCHANGED kept
                  \/ kept' = kept \cup {id} /\ UNCHANGED shm
       /\ UNCHANGED <<slots, stagingDir, fileNo, late, lkCalls>>

-----------------------------------------------------------------------------
(* Something else writes another file under a staged name.                  *)
FileReplaced ==
    /\ \A f \in shm : f.wrote = "us"
    /\ \E f \in shm :
         /\ shm' = (shm \ {f}) \cup {[f EXCEPT !.key = Strange, !.wrote = "them"]}
         /\ late' = IF \E c \in LkCallers : lkCall[c].at = "run" /\ Holds(lkCall[c].files, f.id)
                    THEN "yes" ELSE late
    /\ UNCHANGED <<slots, stagingDir, fileNo, lkCall, kept, lkCalls>>

(* Something else removes the directory or changes its mode or owner.       *)
DirSpoilt ==
    /\ stagingDir = "ours" /\ shm = {} /\ stagingDir' = "spoilt"
    /\ UNCHANGED <<slots, shm, fileNo, lkCall, kept, late, lkCalls>>

(* A kill; the next process makes a directory of its own.                   *)
LkKilled ==
    /\ \E c \in LkCallers : lkCall[c] # LkIdle
    /\ lkCall' = [c \in LkCallers |-> LkIdle]
    /\ kept' = kept \cup {f.id : f \in shm} /\ stagingDir' = "none"
    /\ UNCHANGED <<slots, shm, fileNo, late, lkCalls>>

LkNext ==
    \/ \E c \in LkCallers :
         \/ \E a \in LkKeys : \/ \E n \in LkKeys \ {a}, s \in {"1", AnySlot} : LkStarts(c, "add", a, n, s)
                              \/ \E op \in {"remove", "verify"} : LkStarts(c, op, a, Free, AnySlot)
                              \/ \E s \in Slots : LkStarts(c, "kill", a, Free, s)
         \/ writeKeyFile(c) \/ CheckStaged(c) \/ RunCryptsetup(c) \/ Clean(c)
    \/ FileReplaced \/ DirSpoilt \/ LkKilled

LkSpec == LkInit /\ [][LkNext]_lkVars

-----------------------------------------------------------------------------
LkTypeOK ==
    /\ slots \in [Slots -> LkKeys \cup {Free, Strange, FirstKey}]
    /\ stagingDir \in {"none", "ours", "spoilt"} /\ fileNo \in Nat \ {0}
    /\ \A f \in shm : f.id \in 1..fileNo /\ f.key \in LkKeys \cup {Strange}
    /\ \A c \in LkCallers : lkCall[c].at \in {"idle", "stage", "check", "run", "clean"}
                         /\ Len(lkCall[c].files) <= 2
    /\ kept \subseteq 1..fileNo /\ late \in {"no", "yes"} /\ lkCalls \in 0..MaxLkCalls

(* However a call ends, no key file outlives it, save one that could not be   *)
(* unlinked or that a kill left: the deferred cleanups run on every error     *)
(* path of AddKey, RemoveKey, KillSlot and VerifyPassphrase.                 *)
KeyFilesGone ==
    \A f \in shm : f.id \in kept \/ \E c \in LkCallers : Holds(lkCall[c].files, f.id)

(* A slot only ever holds a passphrase some caller handed over: a file that   *)
(* was replaced while it was staged is not enrolled (luks.go:188), unless it   *)
(* was replaced between that check and cryptsetup's own open.                *)
EnrolledAsAsked == late = "no" => \A s \in Slots : slots[s] # Strange

(* The two together, of the calls of AddKey, RemoveKey, KillSlot and          *)
(* VerifyPassphrase.                                                       *)
KeysHandled == LkTypeOK /\ KeyFilesGone /\ EnrolledAsAsked
=============================================================================
