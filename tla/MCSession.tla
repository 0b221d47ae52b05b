----------------------------- MODULE MCSession -----------------------------
(***************************************************************************)
(* The two clients that keep an operator's session, for model checking: the *)
(* CLI, whose processes share a file (CliSession), and the web console with  *)
(* its stores (AuthStore, OfflineStore).  A behaviour is one of the three:   *)
(* they share no state, so that one run checks them all, and its states are *)
(* the sum of theirs.                                                      *)
(***************************************************************************)
EXTENDS CliSession

CONSTANTS Reqs, MaxLogins, Keys, Values, MaxOps

VARIABLES
    client,
    token, user, age, inflight, promise, timer, persist, local, tab, request, sent,
    leaving, signedOut, logins,
    open, db, queue, results, drafts, loaded, loadOk, calls

Auth == INSTANCE AuthStore WITH pc <- request
Drafts == INSTANCE OfflineStore

authVars == <<token, user, age, inflight, promise, timer, persist, local, tab, request, sent,
              leaving, signedOut, logins>>
draftVars == <<open, db, queue, results, drafts, loaded, loadOk, calls>>
sessionVars == <<client, vars, authVars, draftVars>>

SessionInit ==
    /\ client \in {"cli", "auth", "drafts"}
    /\ Init /\ Auth!Init /\ Drafts!Init
    /\ client # "cli" => file = NoSession
    /\ client # "drafts" => db = Drafts!NoDrafts

InCli(A) == client = "cli" /\ A /\ UNCHANGED <<client, authVars, draftVars>>
InAuth(A) == client = "auth" /\ A /\ UNCHANGED <<client, vars, draftVars>>
InDrafts(A) == client = "drafts" /\ A /\ UNCHANGED <<client, vars, authVars>>

SessionNext == InCli(Next) \/ InAuth(Auth!Next) \/ InDrafts(Drafts!Next)

(* The fairness of the module that runs.                                   *)
SessionSpec ==
    /\ SessionInit /\ [][SessionNext]_sessionVars
    /\ \A p \in Procs : WF_sessionVars(InCli(Command(p)))
    /\ WF_sessionVars(InAuth(Auth!Granted \/ Auth!RefreshRefused))
    /\ SF_sessionVars(InAuth(Auth!Granted))
    /\ \A r \in Reqs : WF_sessionVars(InAuth(Auth!Request(r)))
    /\ WF_sessionVars(InDrafts(Drafts!GetDB))
    /\ WF_sessionVars(InDrafts(Drafts!Execute))
    /\ WF_sessionVars(InDrafts(Drafts!Continue))

-----------------------------------------------------------------------------
(* The variables keep their types; the timer, ensureValidToken of many       *)
(* requests and many Unauthenticated answers share one refresh (refresh());  *)
(* with "keep me signed in" turned off nothing is left in localStorage       *)
(* (setPersist, loadAuth); the map of drafts, with the results on their way  *)
(* to it, is the content of the database (saveDraft, clearDraft).           *)
ConsoleConsistent ==
    /\ client = "cli" => TypeOK
    /\ client = "auth" => Auth!TypeOK /\ Auth!SingleFlight /\ Auth!NoSilentRehydrate
    /\ client = "drafts" => Drafts!TypeOK /\ Drafts!MapFollowsStore

(* loadDrafts: isLoaded becomes true, also when the database cannot be      *)
(* opened.                                                                 *)
LoadEnds == (client = "drafts") ~> loaded

(* Every command of the CLI comes to its end, the ones queued behind a lock  *)
(* whose holder fails or is killed included; so do fetchWithAuth, which is    *)
(* never parked behind a refresh, and loadDrafts, whatever the service and    *)
(* the database answer.                                                     *)
CallsEnd == CommandEnds /\ Auth!RequestEnds /\ LoadEnds

(* A console session does not stay expired while the console makes requests  *)
(* and control grants refreshes.                                            *)
SessionRenewed == Auth!SessionRenewed
=============================================================================
