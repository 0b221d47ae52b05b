-------------------------- MODULE CliSessionProofs -------------------------
(***************************************************************************)
(* The session file of the command line stays usable for any number of     *)
(* processes, logins, logouts and crashes.                                 *)
(***************************************************************************)
EXTENDS CliSession, TLAPS

(* A session control can still refresh, or one whose family is over.       *)
Good(s) == s.tok = cur[s.fam] \/ s.fam \in revoked \cup broken

(* A family is born in ExchangeCLISession: until then no session of it     *)
(* exists, and until its login has stored it nobody else has one.          *)
BirthInv ==
    \A p \in Procs :
        /\ pc[p] \in {"start", "login"} => cur[p] = 0
        /\ cur[p] = 0 => file.fam # p /\ \A q \in Procs : sess[q].fam # p
        /\ pc[p] = "store" =>
            /\ sess[p] = [fam |-> p, tok |-> 1] /\ cur[p] = 1
            /\ file.fam # p
            /\ \A q \in Procs : q # p => sess[q].fam # p

(* The file is good but for the one whose rotation its refresher has not   *)
(* written yet.                                                            *)
FileInv ==
    file # NoSession =>
        \/ Good(file)
        \/ \E p \in Procs : pc[p] = "write" /\ sess[p].fam = file.fam

RefresherInv ==
    \A p \in Procs :
        /\ pc[p] \in {"request", "write"} => Good(sess[p])
        /\ pc[p] \in {"have", "request", "write", "store", "logout", "remove"} =>
            sess[p] # NoSession

(* Nobody has a session control has not issued.                            *)
IssuedInv ==
    /\ file # NoSession => file.tok <= cur[file.fam]
    /\ \A p \in Procs : sess[p] # NoSession => sess[p].tok <= cur[sess[p].fam]
    /\ \A p \in Procs : rejected[p] # NoSession => rejected[p].tok <= cur[rejected[p].fam]

RetryInv ==
    \A p \in Procs : force[p] =>
        /\ pc[p] \notin {"start", "read"}
        /\ pc[p] \in {"write", "have"} => sess[p] # rejected[p]

Inv == TypeOK /\ BirthInv /\ FileInv /\ RefresherInv /\ IssuedInv /\ RetryInv

(* "none" names neither a process nor a family.                            *)
LEMMA NoneFacts ==
    /\ None \notin Procs /\ None \notin Families
    /\ NoSession \notin Session
    /\ NoSession.fam = None
BY OldAssumption DEF None, Families, NoSession, Session

(* Init => Inv.                                                            *)
LEMMA InitInv == Init => Inv
<1> SUFFICES ASSUME Init PROVE Inv
  OBVIOUS
<1> USE NoneFacts DEF Init
<1>1. TypeOK
  BY OldAssumption DEF TypeOK, Session, Families, NoSession
<1>2. BirthInv
  <2> SUFFICES ASSUME NEW p \in Procs
               PROVE  /\ pc[p] = "start" /\ cur[p] = 0
                      /\ file.fam # p /\ \A q \in Procs : sess[q].fam # p
    BY Zenon DEF BirthInv
  <2>1. cur[p] = 0 /\ p # Old /\ p # None
    BY OldAssumption DEF Families
  <2>2. file.fam # p
    BY <2>1
  <2> QED
    BY <2>1, <2>2
<1>3. FileInv
  BY DEF FileInv, Good, Families, NoSession
<1>4. RefresherInv /\ RetryInv
  BY DEF RefresherInv, RetryInv
<1>5. IssuedInv
  BY SMTT(30) DEF IssuedInv, Families
<1> QED
  BY <1>1, <1>2, <1>3, <1>4, <1>5 DEF Inv

-----------------------------------------------------------------------------
(* Every step keeps the types.                                             *)
LEMMA TypeStep == Inv /\ [Next]_vars => TypeOK'
<1> SUFFICES ASSUME Inv, [Next]_vars PROVE TypeOK'
  OBVIOUS
<1> USE NoneFacts DEF Inv, TypeOK, Goto, Done, procVars, serverVars
<1>1. ASSUME NEW p \in Procs, Start(p) PROVE TypeOK'
  BY <1>1 DEF Start
<1>2. ASSUME NEW p \in Procs, ReadSession(p) PROVE TypeOK'
  BY <1>2 DEF ReadSession
<1>3. ASSUME NEW p \in Procs, Call(p) PROVE TypeOK'
  <2>1. force' \in [Procs -> BOOLEAN]
    BY <1>3, Zenon DEF Call
  <2>2. rejected' \in [Procs -> Session \cup {NoSession}]
    BY <1>3 DEF Call
  <2>3. \A q \in Procs : lock' = q <=> pc'[q] \in {"reread", "request", "write"}
    BY <1>3 DEF Call
  <2> QED
    BY <1>3, <2>1, <2>2, <2>3 DEF Call
<1>4. ASSUME NEW p \in Procs, AcquireLock(p) PROVE TypeOK'
  BY <1>4 DEF AcquireLock
<1>5. ASSUME NEW p \in Procs, Reread(p) PROVE TypeOK'
  BY <1>5 DEF Reread
<1>6. ASSUME NEW p \in Procs, RefreshToken(p) PROVE TypeOK'
  BY <1>6 DEF RefreshToken, RefresherInv, Session
<1>7. ASSUME NEW p \in Procs, WriteSession(p) PROVE TypeOK'
  BY <1>7 DEF WriteSession, RefresherInv, Session
<1>8. ASSUME NEW p \in Procs, Login(p) PROVE TypeOK'
  BY <1>8 DEF Login, Session, Families
<1>9. ASSUME NEW p \in Procs, StoreLogin(p) PROVE TypeOK'
  BY <1>9 DEF StoreLogin
<1>10. ASSUME NEW p \in Procs, Logout(p) PROVE TypeOK'
  BY <1>10 DEF Logout, RefresherInv, Session
<1>11. ASSUME NEW p \in Procs, RemoveSession(p) PROVE TypeOK'
  BY <1>11 DEF RemoveSession
<1>12. ASSUME NEW p \in Procs, Crash(p) PROVE TypeOK'
  BY <1>12 DEF Crash, RefresherInv, Session
<1>13. CASE TimePasses
  BY <1>13 DEF TimePasses
<1>14. CASE UNCHANGED vars
  BY Zenon, <1>14 DEF vars
<1> QED
  BY <1>1, <1>2, <1>3, <1>4, <1>5, <1>6, <1>7, <1>8, <1>9, <1>10, <1>11, <1>12,
     <1>13, <1>14 DEF Next, Command
(* No step gives anyone a session of a family that is not stored yet. *)
LEMMA BirthStep == Inv /\ [Next]_vars => BirthInv'
<1> SUFFICES ASSUME Inv, [Next]_vars PROVE BirthInv'
  OBVIOUS
<1> USE NoneFacts, OldAssumption DEF Inv, TypeOK, Goto, Done, procVars, serverVars, BirthInv,
        RefresherInv, Session, NoSession, Families
<1>1. ASSUME NEW p \in Procs, Start(p) PROVE BirthInv'
  BY <1>1 DEF Start
<1>2. ASSUME NEW p \in Procs, ReadSession(p) PROVE BirthInv'
  BY <1>2 DEF ReadSession
<1>3. ASSUME NEW p \in Procs, Call(p) PROVE BirthInv'
  BY <1>3 DEF Call
<1>4. ASSUME NEW p \in Procs, AcquireLock(p) PROVE BirthInv'
  BY <1>4 DEF AcquireLock
<1>5. ASSUME NEW p \in Procs, Reread(p) PROVE BirthInv'
  BY <1>5 DEF Reread
<1>6. ASSUME NEW p \in Procs, RefreshToken(p) PROVE BirthInv'
  BY <1>6 DEF RefreshToken
<1>7. ASSUME NEW p \in Procs, WriteSession(p) PROVE BirthInv'
  BY <1>7 DEF WriteSession
<1>8. ASSUME NEW p \in Procs, Login(p) PROVE BirthInv'
  BY <1>8 DEF Login
<1>9. ASSUME NEW p \in Procs, StoreLogin(p) PROVE BirthInv'
  BY <1>9 DEF StoreLogin
<1>10. ASSUME NEW p \in Procs, Logout(p) PROVE BirthInv'
  BY <1>10 DEF Logout
<1>11. ASSUME NEW p \in Procs, RemoveSession(p) PROVE BirthInv'
  BY <1>11 DEF RemoveSession
<1>12. ASSUME NEW p \in Procs, Crash(p) PROVE BirthInv'
  BY <1>12 DEF Crash
<1>13. CASE TimePasses
  BY <1>13 DEF TimePasses
<1>14. CASE UNCHANGED vars
  BY Zenon, <1>14 DEF vars
<1> QED
  BY Zenon, <1>1, <1>2, <1>3, <1>4, <1>5, <1>6, <1>7, <1>8, <1>9, <1>10, <1>11, <1>12,
     <1>13, <1>14 DEF Next, Command

(* Every step leaves the file good or its refresher about to write it. *)
LEMMA FileStep == Inv /\ [Next]_vars => FileInv'
<1> SUFFICES ASSUME Inv, [Next]_vars PROVE FileInv'
  OBVIOUS
<1> USE NoneFacts DEF Inv, TypeOK, Goto, Done, procVars, serverVars, FileInv, RefresherInv,
        BirthInv, Good, Session
<1>1. ASSUME NEW p \in Procs, Start(p) PROVE FileInv'
  BY <1>1 DEF Start
<1>2. ASSUME NEW p \in Procs, ReadSession(p) PROVE FileInv'
  BY <1>2 DEF ReadSession
<1>3. ASSUME NEW p \in Procs, Call(p) PROVE FileInv'
  BY <1>3 DEF Call
<1>4. ASSUME NEW p \in Procs, AcquireLock(p) PROVE FileInv'
  BY <1>4 DEF AcquireLock
<1>5. ASSUME NEW p \in Procs, Reread(p) PROVE FileInv'
  BY <1>5 DEF Reread
<1>6. ASSUME NEW p \in Procs, RefreshToken(p) PROVE FileInv'
  BY <1>6 DEF RefreshToken
<1>7. ASSUME NEW p \in Procs, WriteSession(p) PROVE FileInv'
  BY <1>7 DEF WriteSession
<1>8. ASSUME NEW p \in Procs, Login(p) PROVE FileInv'
  BY <1>8 DEF Login
<1>9. ASSUME NEW p \in Procs, StoreLogin(p) PROVE FileInv'
  BY <1>9 DEF StoreLogin
<1>10. ASSUME NEW p \in Procs, Logout(p) PROVE FileInv'
  BY <1>10 DEF Logout
<1>11. ASSUME NEW p \in Procs, RemoveSession(p) PROVE FileInv'
  BY <1>11 DEF RemoveSession
<1>12. ASSUME NEW p \in Procs, Crash(p) PROVE FileInv'
  BY <1>12 DEF Crash
<1>13. CASE TimePasses
  BY <1>13 DEF TimePasses
<1>14. CASE UNCHANGED vars
  BY Zenon, <1>14 DEF vars
<1> QED
  BY <1>1, <1>2, <1>3, <1>4, <1>5, <1>6, <1>7, <1>8, <1>9, <1>10, <1>11, <1>12,
     <1>13, <1>14 DEF Next, Command

(* A refresher keeps the current token in hand. *)
LEMMA RefresherStep == Inv /\ [Next]_vars => RefresherInv'
<1> SUFFICES ASSUME Inv, [Next]_vars PROVE RefresherInv'
  OBVIOUS
<1> USE NoneFacts DEF Inv, TypeOK, Goto, Done, procVars, serverVars, FileInv, RefresherInv,
        BirthInv, Good, Session
<1>1. ASSUME NEW p \in Procs, Start(p) PROVE RefresherInv'
  BY <1>1 DEF Start
<1>2. ASSUME NEW p \in Procs, ReadSession(p) PROVE RefresherInv'
  BY <1>2 DEF ReadSession
<1>3. ASSUME NEW p \in Procs, Call(p) PROVE RefresherInv'
  BY <1>3 DEF Call
<1>4. ASSUME NEW p \in Procs, AcquireLock(p) PROVE RefresherInv'
  BY <1>4 DEF AcquireLock
<1>5. ASSUME NEW p \in Procs, Reread(p) PROVE RefresherInv'
  BY <1>5 DEF Reread
<1>6. ASSUME NEW p \in Procs, RefreshToken(p) PROVE RefresherInv'
  BY SMTT(30), <1>6 DEF RefreshToken
<1>7. ASSUME NEW p \in Procs, WriteSession(p) PROVE RefresherInv'
  BY <1>7 DEF WriteSession
<1>8. ASSUME NEW p \in Procs, Login(p) PROVE RefresherInv'
  BY <1>8 DEF Login
<1>9. ASSUME NEW p \in Procs, StoreLogin(p) PROVE RefresherInv'
  BY <1>9 DEF StoreLogin
<1>10. ASSUME NEW p \in Procs, Logout(p) PROVE RefresherInv'
  BY <1>10 DEF Logout
<1>11. ASSUME NEW p \in Procs, RemoveSession(p) PROVE RefresherInv'
  BY <1>11 DEF RemoveSession
<1>12. ASSUME NEW p \in Procs, Crash(p) PROVE RefresherInv'
  BY <1>12 DEF Crash
<1>13. CASE TimePasses
  BY <1>13 DEF TimePasses
<1>14. CASE UNCHANGED vars
  BY Zenon, <1>14 DEF vars
<1> QED
  BY <1>1, <1>2, <1>3, <1>4, <1>5, <1>6, <1>7, <1>8, <1>9, <1>10, <1>11, <1>12,
     <1>13, <1>14 DEF Next, Command

(* Token numbers only grow. *)
LEMMA IssuedStep == Inv /\ [Next]_vars => IssuedInv'
<1> SUFFICES ASSUME Inv, [Next]_vars PROVE IssuedInv'
  OBVIOUS
<1> USE NoneFacts DEF Inv, TypeOK, Goto, Done, procVars, serverVars, IssuedInv, RefresherInv, BirthInv, Session
<1>1. ASSUME NEW p \in Procs, Start(p) PROVE IssuedInv'
  BY <1>1 DEF Start
<1>2. ASSUME NEW p \in Procs, ReadSession(p) PROVE IssuedInv'
  BY <1>2 DEF ReadSession
<1>3. ASSUME NEW p \in Procs, Call(p) PROVE IssuedInv'
  BY <1>3 DEF Call
<1>4. ASSUME NEW p \in Procs, AcquireLock(p) PROVE IssuedInv'
  BY <1>4 DEF AcquireLock
<1>5. ASSUME NEW p \in Procs, Reread(p) PROVE IssuedInv'
  BY <1>5 DEF Reread
<1>6. ASSUME NEW p \in Procs, RefreshToken(p) PROVE IssuedInv'
  BY <1>6 DEF RefreshToken
<1>7. ASSUME NEW p \in Procs, WriteSession(p) PROVE IssuedInv'
  BY <1>7 DEF WriteSession
<1>8. ASSUME NEW p \in Procs, Login(p) PROVE IssuedInv'
  <2>1. p \in Families /\ cur[p] = 0
    BY Zenon, <1>8 DEF Login, Families
  <2>2. \A f \in Families : cur'[f] \in Nat /\ cur[f] <= cur'[f]
    BY <1>8, <2>1 DEF Login
  <2>3. \A q \in Procs : sess'[q] # NoSession => sess'[q].tok <= cur'[sess'[q].fam]
    BY <1>8, <2>1, <2>2 DEF Login
  <2> QED
    BY <1>8, <2>2, <2>3 DEF Login
<1>9. ASSUME NEW p \in Procs, StoreLogin(p) PROVE IssuedInv'
  BY <1>9 DEF StoreLogin
<1>10. ASSUME NEW p \in Procs, Logout(p) PROVE IssuedInv'
  BY <1>10 DEF Logout
<1>11. ASSUME NEW p \in Procs, RemoveSession(p) PROVE IssuedInv'
  BY <1>11 DEF RemoveSession
<1>12. ASSUME NEW p \in Procs, Crash(p) PROVE IssuedInv'
  BY <1>12 DEF Crash
<1>13. CASE TimePasses
  BY <1>13 DEF TimePasses
<1>14. CASE UNCHANGED vars
  BY Zenon, <1>14 DEF vars
<1> QED
  BY Zenon, <1>1, <1>2, <1>3, <1>4, <1>5, <1>6, <1>7, <1>8, <1>9, <1>10, <1>11, <1>12,
     <1>13, <1>14 DEF Next, Command

(* A refresh by force ends with a token issued after the one refused. *)
LEMMA RetryStep == Inv /\ [Next]_vars => RetryInv'
<1> SUFFICES ASSUME Inv, [Next]_vars PROVE RetryInv'
  OBVIOUS
<1> USE NoneFacts DEF Inv, TypeOK, Goto, Done, procVars, serverVars, RetryInv, IssuedInv,
        RefresherInv, BirthInv, FileInv, Good, Session
<1>1. ASSUME NEW p \in Procs, Start(p) PROVE RetryInv'
  BY <1>1 DEF Start
<1>2. ASSUME NEW p \in Procs, ReadSession(p) PROVE RetryInv'
  BY <1>2 DEF ReadSession
<1>3. ASSUME NEW p \in Procs, Call(p) PROVE RetryInv'
  <2>1. pc'[p] \in {"lock", "done"} /\ sess' = sess
    BY <1>3 DEF Call
  <2>2. \A q \in Procs : q # p => pc'[q] = pc[q] /\ rejected'[q] = rejected[q]
    BY <1>3 DEF Call
  <2>3. \A q \in Procs : q # p => force'[q] = force[q]
    BY <1>3 DEF Call
  <2> QED
    BY <2>1, <2>2, <2>3
<1>4. ASSUME NEW p \in Procs, AcquireLock(p) PROVE RetryInv'
  BY <1>4 DEF AcquireLock
<1>5. ASSUME NEW p \in Procs, Reread(p) PROVE RetryInv'
  BY <1>5 DEF Reread
<1>6. ASSUME NEW p \in Procs, RefreshToken(p) PROVE RetryInv'
  <2>1. sess[p] \in Session /\ \A q \in Procs : q # p => sess'[q] = sess[q] /\ pc'[q] = pc[q]
    BY <1>6 DEF RefreshToken
  <2>2. CASE pc'[p] = "write"
    <3>1. sess'[p].fam = sess[p].fam /\ sess'[p].tok = cur[sess[p].fam] + 1
      BY <1>6, <2>1, <2>2 DEF RefreshToken
    <3>2. sess'[p] # rejected[p]
      BY <2>1, <3>1
    <3> QED
      BY <1>6, <2>1, <3>2 DEF RefreshToken
  <2>3. CASE pc'[p] # "write"
    BY <1>6, <2>1, <2>3 DEF RefreshToken
  <2> QED
    BY <2>2, <2>3
<1>7. ASSUME NEW p \in Procs, WriteSession(p) PROVE RetryInv'
  BY <1>7 DEF WriteSession
<1>8. ASSUME NEW p \in Procs, Login(p) PROVE RetryInv'
  BY <1>8 DEF Login
<1>9. ASSUME NEW p \in Procs, StoreLogin(p) PROVE RetryInv'
  BY <1>9 DEF StoreLogin
<1>10. ASSUME NEW p \in Procs, Logout(p) PROVE RetryInv'
  BY <1>10 DEF Logout
<1>11. ASSUME NEW p \in Procs, RemoveSession(p) PROVE RetryInv'
  BY <1>11 DEF RemoveSession
<1>12. ASSUME NEW p \in Procs, Crash(p) PROVE RetryInv'
  BY <1>12 DEF Crash
<1>13. CASE TimePasses
  BY <1>13 DEF TimePasses
<1>14. CASE UNCHANGED vars
  BY <1>14 DEF vars
<1> QED
  BY <1>1, <1>2, <1>3, <1>4, <1>5, <1>6, <1>7, <1>8, <1>9, <1>10, <1>11, <1>12,
     <1>13, <1>14 DEF Next, Command

-----------------------------------------------------------------------------
(* Inv holds in every reachable state.                                     *)
THEOREM Invariance == Spec => []Inv
<1>1. Inv /\ [Next]_vars => Inv'
  BY TypeStep, BirthStep, FileStep, RefresherStep, IssuedStep, RetryStep DEF Inv
<1> QED
  BY InitInv, <1>1, PTL DEF Spec

(* refreshSession presents the current refresh token, whatever logins,     *)
(* logouts and other refreshes do meanwhile.                               *)
THEOREM RefreshIsCurrent == Spec => []RefreshPresentsCurrent
<1>1. Inv => RefreshPresentsCurrent
  BY DEF Inv, RefresherInv, Good, RefreshPresentsCurrent
<1> QED
  BY Invariance, <1>1, PTL

(* The session in the file can be refreshed whenever the lock is free.     *)
THEOREM StoredIsUsable == Spec => []StoredSessionUsable
<1>1. Inv => StoredSessionUsable
  BY NoneFacts DEF Inv, TypeOK, FileInv, Good, StoredSessionUsable
<1> QED
  BY Invariance, <1>1, PTL

(* callAuthenticated's second attempt uses a token issued after the one    *)
(* that control refused.                                                   *)
THEOREM RetryIsNew == Spec => []RetryUsesNewToken
<1>1. Inv => RetryUsesNewToken
  BY DEF Inv, RetryInv, RetryUsesNewToken
<1> QED
  BY Invariance, <1>1, PTL
=============================================================================
