----------------------------- MODULE AuthStore -----------------------------
(***************************************************************************)
(* The web console's session (ts/auth.ts) and the interceptor that puts it *)
(* on every request (ts/client.ts).  JavaScript runs one task at a time;   *)
(* the steps below are the code between two awaits.                        *)
(*                                                                         *)
(* A token or a user is the number of the login it comes from, 0 is null.  *)
(* The access token, the refresh token and expiresAt change together;      *)
(* expiresAt is the age of the token: "fresh", "due" (within a minute of    *)
(* its expiry, when the scheduled refresh runs), or "expired" (isExpired). *)
(***************************************************************************)
EXTENDS Naturals, Sequences

CONSTANTS
    Reqs,       \* requests that may be under way at the same time
    MaxLogins   \* bound: logins in a behaviour

Logins == 0..MaxLogins
Blob == [token : Logins, user : Logins]
NoBlob == [token |-> 0, user |-> 0]
Idle == "idle"

VARIABLES
    token, user, age,   \* this.state
    inflight,   \* calls of refreshFn that have not settled, each with the
                \* login whose refresh token it presented
    promise,    \* this.refreshPromise is not null
    timer,      \* this.refreshTimeoutId is not null
    persist,    \* PERSIST_KEY is 'true'
    local, tab, \* AUTH_KEY in localStorage and in sessionStorage
    pc,         \* of each request
    sent,       \* the token each request carries
    leaving,    \* logout is waiting for logoutFn
    signedOut,  \* logout has finished and nobody has logged in since
    logins      \* how many logins there were

state == <<token, user, age>>
refreshVars == <<inflight, promise, timer>>
storage == <<persist, local, tab>>
reqVars == <<pc, sent>>
sessionVars == <<leaving, signedOut, logins>>
vars == <<state, refreshVars, storage, reqVars, sessionVars>>

Init ==
    /\ token = 0 /\ user = 0 /\ age = "expired"
    /\ inflight = <<>> /\ promise = FALSE /\ timer = FALSE
    /\ persist = FALSE /\ local = NoBlob /\ tab = NoBlob
    /\ pc = [r \in Reqs |-> Idle] /\ sent = [r \in Reqs |-> 0]
    /\ leaving = FALSE /\ signedOut = FALSE /\ logins = 0

-----------------------------------------------------------------------------
(* saveAuth: to localStorage or to sessionStorage, by the toggle.          *)
SaveAuth(t, u) ==
    /\ local' = IF persist THEN [token |-> t, user |-> u] ELSE local
    /\ tab' = IF persist THEN tab ELSE [token |-> t, user |-> u]

(* loadAuth: the storage the toggle names first, then the other one.       *)
LoadAuth ==
    LET primary == IF persist THEN local ELSE tab
        fallback == IF persist THEN tab ELSE local
    IN  IF primary # NoBlob THEN primary ELSE fallback

(* Mutant of Refresh: a call does not look whether one is under way.       *)
RefreshAlways(t, u) ==
    IF u = 0 \/ t = 0
    THEN UNCHANGED <<inflight, promise>>
    ELSE inflight' = Append(inflight, t) /\ promise' = TRUE

(* refresh(): nothing without a session, otherwise the caller joins the    *)
(* refresh under way or starts one.                                        *)
Refresh(t, u) ==
    IF u = 0 \/ t = 0 \/ promise
    THEN UNCHANGED <<inflight, promise>>
    ELSE inflight' = Append(inflight, t) /\ promise' = TRUE

(* scheduleRefresh: a timer for a fresh token, a refresh at once for one   *)
(* that is due.                                                            *)
ScheduleRefresh(t, u, a) ==
    /\ timer' = (u # 0 /\ t # 0 /\ a = "fresh")
    /\ IF a = "fresh" THEN UNCHANGED <<inflight, promise>> ELSE Refresh(t, u)

-----------------------------------------------------------------------------
(* setAuth, from a login that has gone through.                            *)
SetAuth ==
    /\ logins < MaxLogins
    /\ logins' = logins + 1
    /\ token' = logins + 1 /\ user' = logins + 1
    /\ age' \in {"fresh", "due"}
    /\ SaveAuth(logins + 1, logins + 1)
    /\ ScheduleRefresh(logins + 1, logins + 1, age')
    /\ signedOut' = FALSE
    /\ UNCHANGED <<persist, reqVars, leaving>>

(* Mutant of SetPersist: the stored blob is left where it is.              *)
SetPersistKeepsBlob(v) ==
    /\ persist # v
    /\ persist' = v
    /\ UNCHANGED <<state, refreshVars, local, tab, reqVars, sessionVars>>

(* setPersist: turning the toggle off removes the blob in localStorage.    *)
SetPersist(v) ==
    /\ persist # v
    /\ persist' = v
    /\ local' = IF v THEN local ELSE NoBlob
    /\ UNCHANGED <<state, refreshVars, tab, reqVars, sessionVars>>

TimerFires ==
    /\ timer /\ age # "fresh"
    /\ timer' = FALSE
    /\ Refresh(token, user)
    /\ UNCHANGED <<state, storage, reqVars, sessionVars>>

(* The promise settles: it is reset, and whoever awaits it goes on.        *)
Settle ==
    /\ promise' = FALSE
    /\ pc' = [r \in Reqs |-> CASE pc[r] = "ensuring" -> "ensured"
                               [] pc[r] = "refreshing" -> "refreshed"
                               [] OTHER -> pc[r]]

(* Mutant of RefreshGranted: doRefresh awaits the refresh that it starts    *)
(* for a token that is due on arrival, which is itself.                    *)
RefreshGrantedAwaitsItself(a) ==
    /\ inflight # <<>>
    /\ inflight' = Tail(inflight)
    /\ token' = Head(inflight)
    /\ age' = a
    /\ SaveAuth(Head(inflight), user)
    /\ timer' = (user # 0 /\ a = "fresh")
    /\ IF a = "fresh" THEN Settle ELSE UNCHANGED <<promise, pc>>
    /\ UNCHANGED <<user, persist, sent, sessionVars>>

(* Mutant of RefreshGranted: refreshPromise is not reset.                  *)
RefreshGrantedKeepsPromise(a) ==
    /\ inflight # <<>>
    /\ inflight' = Tail(inflight)
    /\ token' = Head(inflight)
    /\ age' = a
    /\ SaveAuth(Head(inflight), user)
    /\ timer' = (user # 0 /\ a = "fresh")
    /\ UNCHANGED <<user, promise, pc, persist, sent, sessionVars>>

(* doRefresh: refreshFn resolves with new tokens of the login it was       *)
(* called for, and they go into whatever this.state is by now.  A token    *)
(* that is due on arrival makes scheduleRefresh call refresh(), which      *)
(* finds the promise still there and joins it: nothing is scheduled.       *)
RefreshGranted(a) ==
    /\ inflight # <<>>
    /\ inflight' = Tail(inflight)
    /\ token' = Head(inflight)
    /\ age' = a
    /\ SaveAuth(Head(inflight), user)
    /\ timer' = (user # 0 /\ a = "fresh")
    /\ Settle
    /\ UNCHANGED <<user, persist, sent, sessionVars>>

(* refreshFn resolves with null or rejects: logged, and nothing scheduled. *)
RefreshRefused ==
    /\ inflight # <<>>
    /\ inflight' = Tail(inflight)
    /\ Settle
    /\ UNCHANGED <<state, timer, storage, sent, sessionVars>>

-----------------------------------------------------------------------------
(* The interceptor.                                                        *)

IsAuthenticated == user # 0 /\ token # 0 /\ age # "expired"

Attach(r, l) == pc' = [pc EXCEPT ![r] = l] /\ sent' = [sent EXCEPT ![r] = token]

(* ensureValidToken, then the request with the token of the moment.        *)
Ensure(r) ==
    /\ pc[r] = Idle
    /\ \/ /\ age = "expired" /\ user # 0 /\ token # 0
          /\ Refresh(token, user)
          /\ pc' = [pc EXCEPT ![r] = "ensuring"]
          /\ UNCHANGED sent
       \/ /\ age # "expired" \/ user = 0 \/ token = 0
          /\ Attach(r, "sent")
          /\ UNCHANGED <<inflight, promise>>
    /\ UNCHANGED <<state, timer, storage, sessionVars>>

Ensured(r) ==
    /\ pc[r] = "ensured"
    /\ Attach(r, "sent")
    /\ UNCHANGED <<state, refreshVars, storage, sessionVars>>

(* An answer or an error ends the request; getCurrentUser's answer also    *)
(* goes to updateUser.                                                     *)
Answered(r) ==
    /\ pc[r] \in {"sent", "resent"}
    /\ pc' = [pc EXCEPT ![r] = Idle]
    /\ \/ UNCHANGED <<user, local, tab>>
       \/ sent[r] # 0 /\ user' = sent[r] /\ SaveAuth(token, sent[r])
    /\ UNCHANGED <<token, age, refreshVars, persist, sent, sessionVars>>

(* Unauthenticated, the first time: refresh, or without a session          *)
(* onUnauthenticated.                                                      *)
Unauthenticated(r) ==
    /\ pc[r] = "sent"
    /\ Refresh(token, user)
    /\ pc' = [pc EXCEPT ![r] = IF user = 0 \/ token = 0 THEN Idle ELSE "refreshing"]
    /\ UNCHANGED <<state, timer, storage, sent, sessionVars>>

(* The request again with the new token, or onUnauthenticated.             *)
Retry(r) ==
    /\ pc[r] = "refreshed"
    /\ \/ IsAuthenticated /\ Attach(r, "resent")
       \/ ~IsAuthenticated /\ pc' = [pc EXCEPT ![r] = Idle] /\ UNCHANGED sent
    /\ UNCHANGED <<state, refreshVars, storage, sessionVars>>

-----------------------------------------------------------------------------
(* logout: the state it leaves behind.                                     *)
ClearAuth ==
    /\ token' = 0 /\ user' = 0 /\ age' = "expired"
    /\ local' = NoBlob /\ tab' = NoBlob /\ persist' = FALSE
    /\ leaving' = FALSE /\ signedOut' = TRUE

LogoutBegins ==
    /\ ~leaving
    /\ timer' = FALSE
    /\ IF user # 0
       THEN leaving' = TRUE /\ UNCHANGED <<state, storage, signedOut>>
       ELSE ClearAuth
    /\ UNCHANGED <<inflight, promise, reqVars, logins>>

(* logoutFn has resolved or rejected.                                      *)
LogoutEnds ==
    /\ leaving
    /\ ClearAuth
    /\ UNCHANGED <<refreshVars, reqVars, logins>>

(* The page is loaded again: a new AuthStore over what is stored.  Its      *)
(* constructor schedules a timer for a fresh token; for one that is due it *)
(* calls refresh() before setRefreshFn can have been called, and that      *)
(* refresh is over without having asked control.                           *)
Reload ==
    /\ token' = LoadAuth.token /\ user' = LoadAuth.user
    /\ age' \in IF LoadAuth.token = 0 THEN {"expired"} ELSE {"fresh", "due", "expired"}
    /\ timer' = (LoadAuth.user # 0 /\ age' = "fresh")
    /\ inflight' = <<>> /\ promise' = FALSE
    /\ pc' = [r \in Reqs |-> Idle]
    /\ leaving' = FALSE
    /\ UNCHANGED <<storage, sent, signedOut, logins>>

Tick ==
    /\ token # 0 /\ age # "expired"
    /\ age' = IF age = "fresh" THEN "due" ELSE "expired"
    /\ UNCHANGED <<token, user, refreshVars, storage, reqVars, sessionVars>>

Granted == \E a \in {"fresh", "due"} : RefreshGranted(a)

Request(r) == Ensure(r) \/ Ensured(r) \/ Answered(r) \/ Unauthenticated(r) \/ Retry(r)

Next ==
    \/ SetAuth \/ TimerFires \/ Granted \/ RefreshRefused
    \/ \E v \in BOOLEAN : SetPersist(v)
    \/ \E r \in Reqs : Request(r)
    \/ LogoutBegins \/ LogoutEnds \/ Reload \/ Tick

Spec == Init /\ [][Next]_vars

(* Calls settle, the event loop runs what is ready, the console goes on    *)
(* making requests, and control does not refuse every refresh for ever.    *)
Fairness ==
    /\ WF_vars(Granted \/ RefreshRefused) /\ SF_vars(Granted)
    /\ \A r \in Reqs : WF_vars(Request(r))

FairSpec == Spec /\ Fairness

-----------------------------------------------------------------------------
(* The variables keep their types; a refresh is only started with a        *)
(* refresh token in hand.                                                  *)
TypeOK ==
    /\ token \in Logins /\ user \in Logins
    /\ age \in {"fresh", "due", "expired"}
    /\ inflight \in Seq(1..MaxLogins)
    /\ promise \in BOOLEAN /\ timer \in BOOLEAN /\ persist \in BOOLEAN
    /\ local \in Blob /\ tab \in Blob
    /\ pc \in [Reqs -> {Idle, "ensuring", "ensured", "sent", "refreshing",
                        "refreshed", "resent"}]
    /\ sent \in [Reqs -> Logins]
    /\ leaving \in BOOLEAN /\ signedOut \in BOOLEAN /\ logins \in Logins

(* refresh(): the timer, ensureValidToken of many requests and many         *)
(* Unauthenticated answers share one refresh, so that the refresh token is *)
(* never presented twice at a time.                                        *)
SingleFlight == Len(inflight) <= 1

(* setPersist, loadAuth: with "keep me signed in" turned off nothing is     *)
(* left in localStorage, so the next page load cannot sign the user in     *)
(* from there.                                                             *)
NoSilentRehydrate == ~persist => local = NoBlob

(* Every request comes to its end: the refresh it waits for settles, a     *)
(* token that is due on arrival included.                                  *)
RequestEnds == \A r \in Reqs : (pc[r] # Idle) ~> (pc[r] = Idle)

(* A session does not stay expired while the console makes requests and     *)
(* control grants refreshes, although a failed refresh, or a short-lived   *)
(* token, leaves no timer behind.                                          *)
SessionRenewed ==
    (age = "expired" /\ user # 0 /\ token # 0) ~>
        (age # "expired" \/ user = 0 \/ token = 0)

(* logout: "we're terminating the session locally regardless".  When it    *)
(* has finished no token is left in memory or in storage.  It does not     *)
(* hold: a refresh under way stores its tokens after the logout.           *)
LogoutClears ==
    signedOut => token = 0 /\ local.token = 0 /\ tab.token = 0
=============================================================================
