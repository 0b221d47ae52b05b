----------------------------- MODULE CliSession ----------------------------
(***************************************************************************)
(* The operator's command line (cmd/powermanage): processes that share one *)
(* session file.  A command reads the session, refreshes it under a file   *)
(* lock when it is about to expire or when control calls its access token  *)
(* expired, and makes its call; login and logout replace and remove the    *)
(* file.  Control rotates the refresh token on every refresh.              *)
(*                                                                         *)
(* A process runs one command.  A session is the login it comes from (its  *)
(* family) and the number of the refresh token in it; the access token is  *)
(* issued with the refresh token, so that number stands for both.          *)
(***************************************************************************)
EXTENDS Naturals

CONSTANTS
    Procs,      \* processes; one that logs in starts the family of its name
    Old         \* the family of the session that is there at the beginning

ASSUME OldAssumption == Old \notin Procs /\ "none" \notin Procs \cup {Old}

Families == Procs \cup {Old}
None == "none"
Session == [fam : Families, tok : Nat]
NoSession == [fam |-> None, tok |-> 0]

VARIABLES
    file,       \* session.json, NoSession when it is not there
    stale,      \* sessions within refreshSkew of their expiry, or past it
    lock,       \* who holds the flock on session.json.lock
    cmd, pc, result,    \* of each process
    sess,       \* the session each process has in hand
    force,      \* its refresh does not trust ExpiresAt
    rejected,   \* the session whose access token control called expired
    cur,        \* control: the refresh token it accepts in each family, or 0
    revoked,    \* control: families that were logged out
    broken      \* families in which a rotation never reached the file

procVars == <<cmd, pc, result, sess, force, rejected>>
serverVars == <<cur, revoked>>
vars == <<file, stale, lock, procVars, serverVars, broken>>

Init ==
    /\ file \in {NoSession, [fam |-> Old, tok |-> 1]}
    /\ stale = {}
    /\ lock = None
    /\ cmd = [p \in Procs |-> None]
    /\ pc = [p \in Procs |-> "start"]
    /\ result = [p \in Procs |-> None]
    /\ sess = [p \in Procs |-> NoSession]
    /\ force = [p \in Procs |-> FALSE]
    /\ rejected = [p \in Procs |-> NoSession]
    /\ cur = [f \in Families |-> IF f = Old THEN 1 ELSE 0]
    /\ revoked = {}
    /\ broken = {}

-----------------------------------------------------------------------------
(* Steps of a command.                                                     *)

Goto(p, l) == pc' = [pc EXCEPT ![p] = l] /\ UNCHANGED <<cmd, result>>

Done(p, res) ==
    /\ pc' = [pc EXCEPT ![p] = "done"]
    /\ result' = [result EXCEPT ![p] = res]
    /\ UNCHANGED cmd

Start(p) ==
    /\ pc[p] = "start"
    /\ \E c \in {"call", "login", "logout"} :
        /\ cmd' = [cmd EXCEPT ![p] = c]
        /\ pc' = [pc EXCEPT ![p] = IF c = "login" THEN "login" ELSE "read"]
    /\ UNCHANGED <<file, stale, lock, result, sess, force, rejected, serverVars, broken>>

(* currentSession and logout: readSession, without the lock.  A session    *)
(* that is fresh by the local clock is used as it is.                      *)
ReadSession(p) ==
    /\ pc[p] = "read"
    /\ \/ file = NoSession /\ Done(p, "err") /\ UNCHANGED sess
       \/ /\ file # NoSession
          /\ sess' = [sess EXCEPT ![p] = file]
          /\ Goto(p, IF cmd[p] = "logout" THEN "logout"
                     ELSE IF file \notin stale THEN "have" ELSE "lock")
    /\ UNCHANGED <<file, stale, lock, force, rejected, serverVars, broken>>

(* callAuthenticated: the call with the session in hand.  Control accepts  *)
(* it, refuses it, or calls its access token expired; after the first such *)
(* answer the session is refreshed by force and the call made once more.   *)
(* "auth token" ends here with the session it prints.                      *)
Call(p) ==
    /\ pc[p] = "have"
    /\ \/ \E res \in {"ok", "err"} : Done(p, res) /\ UNCHANGED <<force, rejected>>
       \/ /\ ~force[p]
          /\ force' = [force EXCEPT ![p] = TRUE]
          /\ rejected' = [rejected EXCEPT ![p] = sess[p]]
          /\ Goto(p, "lock")
    /\ UNCHANGED <<file, stale, lock, sess, serverVars, broken>>

-----------------------------------------------------------------------------
(* refreshSession.                                                         *)

AcquireLock(p) ==
    /\ pc[p] = "lock"
    /\ lock = None
    /\ lock' = p
    /\ Goto(p, "reread")
    /\ UNCHANGED <<file, stale, sess, force, rejected, serverVars, broken>>

(* Mutant of Reread: the session read before the lock is trusted.          *)
RereadSkipped(p) ==
    /\ pc[p] = "reread"
    /\ Goto(p, "request")
    /\ UNCHANGED <<file, stale, lock, sess, force, rejected, serverVars, broken>>

(* Under the lock the file is read again: another process may have         *)
(* refreshed, removed or replaced it meanwhile.                            *)
Reread(p) ==
    /\ pc[p] = "reread"
    /\ \/ file = NoSession /\ Done(p, "err") /\ lock' = None /\ UNCHANGED sess
       \/ /\ file # NoSession
          /\ sess' = [sess EXCEPT ![p] = file]
          /\ IF ~force[p] /\ file \notin stale
             THEN Goto(p, "have") /\ lock' = None
             ELSE Goto(p, "request") /\ UNCHANGED lock
    /\ UNCHANGED <<file, stale, force, rejected, serverVars, broken>>

(* The RefreshToken call.  Control rotates when the token is the current    *)
(* one; the answer may be lost or incomplete all the same.                 *)
RefreshToken(p) ==
    LET f == sess[p].fam  t == sess[p].tok IN
    /\ pc[p] = "request"
    /\ \/ /\ t = cur[f] /\ f \notin revoked
          /\ cur' = [cur EXCEPT ![f] = t + 1]
          /\ \/ /\ sess' = [sess EXCEPT ![p].tok = t + 1]
                /\ Goto(p, "write")
                /\ UNCHANGED <<lock, broken>>
             \/ /\ broken' = broken \cup {f}
                /\ lock' = None
                /\ Done(p, "err")
                /\ UNCHANGED sess
       \/ /\ Done(p, "err")
          /\ lock' = None
          /\ UNCHANGED <<cur, sess, broken>>
    /\ UNCHANGED <<file, stale, force, rejected, revoked>>

(* Mutant of WriteSession: the lock is kept until the process exits.       *)
WriteSessionKeepsLock(p) ==
    /\ pc[p] = "write"
    /\ Goto(p, "have") /\ file' = sess[p]
    /\ UNCHANGED <<stale, lock, sess, force, rejected, serverVars, broken>>

(* Mutant of WriteSession: the lock is released before the file is written. *)
WriteSessionUnlocks(p) ==
    /\ pc[p] = "write"
    /\ \/ lock = p /\ lock' = None /\ Goto(p, "write") /\ UNCHANGED file
       \/ lock # p /\ file' = sess[p] /\ Goto(p, "have") /\ UNCHANGED lock
    /\ UNCHANGED <<stale, sess, force, rejected, serverVars, broken>>

(* writeSession: a temporary file renamed over session.json.  It fails      *)
(* before the rename, or after it (the directory's fsync).                 *)
WriteSession(p) ==
    /\ pc[p] = "write"
    /\ lock' = None
    /\ \/ /\ file' = sess[p]
          /\ Goto(p, "have") \/ Done(p, "err")
          /\ UNCHANGED broken
       \/ /\ Done(p, "err")
          /\ broken' = broken \cup {sess[p].fam}
          /\ UNCHANGED file
    /\ UNCHANGED <<stale, sess, force, rejected, serverVars>>

-----------------------------------------------------------------------------
(* login and logout, neither of which takes the lock.                      *)

(* login: BeginCLILogin, the browser's callback, the code exchange and     *)
(* ExchangeCLISession.  Any of them may fail; the callback may not come    *)
(* before the login expires, or carry an error or another login's state.   *)
Login(p) ==
    /\ pc[p] = "login"
    /\ \/ Done(p, "err") /\ UNCHANGED <<sess, cur>>
       \/ /\ cur' = [cur EXCEPT ![p] = 1]
          /\ sess' = [sess EXCEPT ![p] = [fam |-> p, tok |-> 1]]
          /\ Goto(p, "store")
    /\ UNCHANGED <<file, stale, lock, force, rejected, revoked, broken>>

StoreLogin(p) ==
    /\ pc[p] = "store"
    /\ \/ file' = sess[p] /\ (Done(p, "ok") \/ Done(p, "err"))
       \/ Done(p, "err") /\ UNCHANGED file
    /\ UNCHANGED <<stale, lock, sess, force, rejected, serverVars, broken>>

(* logout: the Logout call ...                                             *)
Logout(p) ==
    /\ pc[p] = "logout"
    /\ \/ /\ revoked' = revoked \cup {sess[p].fam}
          /\ Goto(p, "remove") \/ Done(p, "err")
       \/ Done(p, "err") /\ UNCHANGED revoked
    /\ UNCHANGED <<file, stale, lock, sess, force, rejected, cur, broken>>

(* ... and the removal of whatever session.json is there by then.          *)
RemoveSession(p) ==
    /\ pc[p] = "remove"
    /\ \/ file' = NoSession /\ Done(p, "ok")
       \/ Done(p, "err") /\ UNCHANGED file
    /\ UNCHANGED <<stale, lock, sess, force, rejected, serverVars, broken>>

-----------------------------------------------------------------------------
(* The process is killed.  The kernel drops its flock.                     *)
Crash(p) ==
    /\ pc[p] \notin {"start", "done"}
    /\ Done(p, "crashed")
    /\ lock' = IF lock = p THEN None ELSE lock
    /\ \/ pc[p] = "write" /\ broken' = broken \cup {sess[p].fam}
       \/ pc[p] # "write" /\ UNCHANGED broken
    /\ UNCHANGED <<file, stale, sess, force, rejected, serverVars>>

(* The session in the file comes within refreshSkew of its expiry.         *)
TimePasses ==
    /\ file # NoSession /\ file \notin stale
    /\ stale' = stale \cup {file}
    /\ UNCHANGED <<file, lock, procVars, serverVars, broken>>

Command(p) ==
    \/ ReadSession(p) \/ Call(p) \/ AcquireLock(p) \/ Reread(p) \/ RefreshToken(p)
    \/ WriteSession(p) \/ Login(p) \/ StoreLogin(p) \/ Logout(p) \/ RemoveSession(p)

Next ==
    \/ \E p \in Procs : Start(p) \/ Command(p) \/ Crash(p)
    \/ TimePasses

Spec == Init /\ [][Next]_vars

(* Every step of a command ends: calls have requestTimeout, login has the  *)
(* expiry of its state, and a process that waits for the flock gets it     *)
(* once it is free.                                                        *)
FairSpec == Spec /\ \A p \in Procs : WF_vars(Command(p))

-----------------------------------------------------------------------------
(* The variables keep their types; only a process in refreshSession holds  *)
(* the lock.                                                               *)
TypeOK ==
    /\ file \in Session \cup {NoSession}
    /\ stale \subseteq Session
    /\ lock \in Procs \cup {None}
    /\ cmd \in [Procs -> {None, "call", "login", "logout"}]
    /\ pc \in [Procs -> {"start", "read", "have", "lock", "reread", "request",
                         "write", "login", "store", "logout", "remove", "done"}]
    /\ result \in [Procs -> {None, "ok", "err", "crashed"}]
    /\ sess \in [Procs -> Session \cup {NoSession}]
    /\ force \in [Procs -> BOOLEAN]
    /\ rejected \in [Procs -> Session \cup {NoSession}]
    /\ cur \in [Families -> Nat]
    /\ revoked \subseteq Families
    /\ broken \subseteq Families
    /\ \A p \in Procs : lock = p <=> pc[p] \in {"reread", "request", "write"}

(* refreshSession: whoever is about to present a refresh token presents    *)
(* the one control accepts, whatever the other processes did since it was  *)
(* read; only a rotation that was lost on the way to the file, or a logout, *)
(* leaves a process with a spent token.                                    *)
RefreshPresentsCurrent ==
    \A p \in Procs : pc[p] = "request" =>
        LET f == sess[p].fam IN
        sess[p].tok = cur[f] \/ f \in revoked \cup broken

(* Outside a refresh the session file can always be refreshed: the token   *)
(* in it is the one control accepts in its family, though logins and       *)
(* logouts write the file without the lock.                                *)
StoredSessionUsable ==
    lock = None /\ file # NoSession =>
        file.tok = cur[file.fam] \/ file.fam \in revoked \cup broken

(* callAuthenticated: the second attempt does not use the access token     *)
(* that control has just called expired.                                   *)
RetryUsesNewToken ==
    \A p \in Procs : pc[p] = "have" /\ force[p] => sess[p] # rejected[p]

(* Every command comes to its end, the ones queued behind a lock whose     *)
(* holder fails or is killed included.                                     *)
CommandEnds == \A p \in Procs : (pc[p] # "start") ~> (pc[p] = "done")

(* logout, "Revoke and remove the local session": once it has succeeded,   *)
(* the session it revoked is not in the file.                              *)
LogoutSticks ==
    \A p \in Procs : cmd[p] = "logout" /\ result[p] = "ok" =>
        file = NoSession \/ file.fam # sess[p].fam
=============================================================================
