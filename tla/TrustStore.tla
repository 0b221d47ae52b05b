----------------------------- MODULE TrustStore ----------------------------
(***************************************************************************)
(* The host's CA trust (sys/catrust): anchor files in a directory, and the  *)
(* bundle a distribution's command extracts from them.  Install and Remove  *)
(* change a file and then run that command; either may fail, the agent may  *)
(* be killed in between, and calls of several callers overlap.             *)
(***************************************************************************)
EXTENDS Naturals

CONSTANTS
    Callers,        \* goroutines that share a Manager
    AnchorNames, Certs,   \* of anchors; certificates that pass validateCACert
    MaxTrustCalls   \* bound: calls of Install and Remove

Absent == "absent"
Anchors == [AnchorNames -> Certs \cup {Absent}]
Idle == [op |-> "none", name |-> Absent, cert |-> Absent, at |-> "idle", result |-> "none"]
Calls == [op : {"none", "install", "remove"}, name : AnchorNames \cup {Absent},
          cert : Certs \cup {Absent}, at : {"idle", "file", "unlink", "refresh"},
          result : {"none", "ok", "error"}]

VARIABLES
    tool,       \* the Backend
    anchors,    \* the anchor files
    bundle,     \* what the host trusts
    trustCall,  \* the call each caller is in, or was in last
    trustCalls, \* how many were made
    missed      \* a refresh failed or was never run

trustVars == <<tool, anchors, bundle, trustCall, trustCalls, missed>>

TrustInit ==
    /\ tool \in {"ca-certificates", "p11-kit", "suse-ca-certificates"}
    /\ anchors = [n \in AnchorNames |-> Absent] /\ bundle = anchors
    /\ trustCall = [c \in Callers |-> Idle]
    /\ trustCalls = 0
    /\ missed = "no"

-----------------------------------------------------------------------------
(* A call whose arguments are valid; the others return at once.            *)
TrustStarts(c, op, n, x) ==
    /\ trustCall[c].at = "idle"
    /\ trustCalls < MaxTrustCalls
    /\ trustCalls' = trustCalls + 1
    /\ trustCall' = [trustCall EXCEPT ![c] =
          [op |-> op, name |-> n, cert |-> x, at |-> "file", result |-> "none"]]
    /\ UNCHANGED <<tool, anchors, bundle, missed>>

TrustReturns(c, r) ==
    trustCall' = [trustCall EXCEPT ![c].at = "idle", ![c].result = r]

(* The anchor of a call becomes x; on an error, which a cancelled ctx may    *)
(* raise after the fact, it may have, and no refresh follows.              *)
Sets(c, x) ==
    LET changed == [anchors EXCEPT ![trustCall[c].name] = x]
    IN  /\ \/ /\ anchors' = changed
              /\ trustCall' = [trustCall EXCEPT ![c].at = "refresh"]
              /\ UNCHANGED missed
           \/ /\ anchors' \in {anchors, changed}
              /\ TrustReturns(c, "error")
              /\ missed' = IF anchors' # anchors THEN "yes" ELSE missed
        /\ UNCHANGED <<tool, bundle, trustCalls>>

(* Install writes the anchor.  WriteFile replaces it in one step.          *)
InstallWrites(c) ==
    trustCall[c].at = "file" /\ trustCall[c].op = "install" /\ Sets(c, trustCall[c].cert)

(* Remove looks for the anchor and is content when there is none: it does   *)
(* not run its refresh then.                                               *)
RemoveStats(c) ==
    /\ trustCall[c].at = "file" /\ trustCall[c].op = "remove"
    /\ \/ anchors[trustCall[c].name] = Absent /\ TrustReturns(c, "ok")
       \/ /\ anchors[trustCall[c].name] # Absent
          /\ trustCall' = [trustCall EXCEPT ![c].at = "unlink"]
       \/ TrustReturns(c, "error")
    /\ UNCHANGED <<tool, anchors, bundle, trustCalls, missed>>

(* rm -f, which does not mind that the file has gone in the meantime.      *)
RemoveUnlinks(c) == trustCall[c].at = "unlink" /\ Sets(c, Absent)

(* The extraction: update-ca-certificates without --fresh only adds.       *)
Extracted(op) ==
    IF tool = "ca-certificates" /\ op = "install"
    THEN [n \in AnchorNames |-> IF anchors[n] # Absent THEN anchors[n] ELSE bundle[n]]
    ELSE anchors

(* Mutant of Refresh: the command of Install is used for both.             *)
RefreshPlain(c) ==
    /\ trustCall[c].at = "refresh"
    /\ \/ bundle' = Extracted("install") /\ TrustReturns(c, "ok") /\ UNCHANGED missed
       \/ UNCHANGED bundle /\ TrustReturns(c, "error") /\ missed' = "yes"
    /\ UNCHANGED <<tool, anchors, trustCalls>>

Refresh(c) ==
    /\ trustCall[c].at = "refresh"
    /\ \/ /\ bundle' = Extracted(trustCall[c].op)
          /\ TrustReturns(c, "ok") /\ UNCHANGED missed
       \/ /\ bundle' \in {bundle, Extracted(trustCall[c].op)}
          /\ TrustReturns(c, "error") /\ missed' = "yes"
    /\ UNCHANGED <<tool, anchors, trustCalls>>

(* The agent is killed: every call ends where it is, without a result.     *)
TrustKilled ==
    /\ \E c \in Callers : trustCall[c].at # "idle"
    /\ missed' = IF \E c \in Callers : trustCall[c].at = "refresh" THEN "yes" ELSE missed
    /\ trustCall' = [c \in Callers |-> Idle]
    /\ UNCHANGED <<tool, anchors, bundle, trustCalls>>

TrustNext ==
    \/ \E c \in Callers :
          \/ \E n \in AnchorNames, x \in Certs : TrustStarts(c, "install", n, x)
          \/ \E n \in AnchorNames : TrustStarts(c, "remove", n, Absent)
          \/ InstallWrites(c) \/ RemoveStats(c) \/ RemoveUnlinks(c) \/ Refresh(c)
    \/ TrustKilled

TrustSpec == TrustInit /\ [][TrustNext]_trustVars

-----------------------------------------------------------------------------
TrustTypeOK ==
    /\ tool \in {"ca-certificates", "p11-kit", "suse-ca-certificates"}
    /\ anchors \in Anchors /\ bundle \in Anchors
    /\ trustCall \in [Callers -> Calls]
    /\ trustCalls \in 0..MaxTrustCalls /\ missed \in {"no", "yes"}

AllIdle == \A c \in Callers : trustCall[c].at = "idle"

(* Install, Remove and refresh: once overlapping calls have all returned,   *)
(* the host trusts exactly the anchors on disk, unless a refresh was missed *)
(* in which case the caller was told or was killed.                        *)
BundleFollows == AllIdle /\ missed = "no" => bundle = anchors

(* Remove "deletes the anchor previously installed under name and refreshes *)
(* the trust store": when it returns without an error and nothing else      *)
(* runs, the host no longer trusts the certificate, also when this call     *)
(* repeats one whose refresh had failed.  It does not hold: the anchor is    *)
(* gone by then, and Remove returns before it refreshes.                   *)
RemovedUntrusted ==
    \A c \in Callers :
        /\ AllIdle
        /\ trustCall[c].op = "remove" /\ trustCall[c].result = "ok"
        /\ anchors[trustCall[c].name] = Absent
        => bundle[trustCall[c].name] = Absent
=============================================================================
