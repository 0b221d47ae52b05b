---------------------------- MODULE Repositories ---------------------------
(***************************************************************************)
(* Package repositories as Apply and Remove (sys/repo) configure them for     *)
(* apt, dnf and zypper: a source per repository and the key it is signed      *)
(* with, changed by commands and writes each of which may fail, the agent     *)
(* killed between any two.  One Apply of apt's also removes the sources of    *)
(* others that mention its URL, with their keys.                            *)
(***************************************************************************)
EXTENDS Naturals

CONSTANTS
    RepoNames,      \* repositories this SDK configures
    Urls,           \* their URLs
    Within,         \* pairs <<u, w>>, u # w: the text of u occurs in that of w
    SignKeys,       \* signing keys
    BadUrls,        \* URLs that pass Validate and make a source apt rejects
    MaxRepoCalls    \* bound: calls

None == "none"
NoRepo == [url |-> None, key |-> None]
RepoConfigs == [url : Urls, key : SignKeys]
Mentions(c, u) == c.url = u \/ <<u, c.url>> \in Within
Bad(c) == c.url \in BadUrls
RepoIdle == [op |-> "none", name |-> "none", cfg |-> NoRepo, at |-> "idle",
             changed |-> "no", prior |-> NoRepo]

VARIABLES
    backend,    \* "apt", "dnf" or "zypper"
    source,     \* what is configured under each name
    keyring,    \* the key installed (apt) or imported (rpm) for each name
    repoCall,   \* the one call at a time
    stands,     \* what the last successful Apply of a name asked for, until a call
                \* is made that may replace it
    unjudged,   \* names whose source was written and has not passed apt-get update
    repoCalls   \* how many calls were made

repoVars == <<backend, source, keyring, repoCall, stands, unjudged, repoCalls>>

RepoInit ==
    /\ backend \in {"apt", "dnf", "zypper"}
    /\ source = [r \in RepoNames |-> NoRepo]
    /\ keyring = [r \in RepoNames |-> None]
    /\ repoCall = RepoIdle /\ repoCalls = 0
    /\ stands = [r \in RepoNames |-> NoRepo] /\ unjudged = {}

-----------------------------------------------------------------------------
(* A valid call; for apt it may cost the repositories that mention its URL.  *)
RepoStarts(op, r, c) ==
    /\ repoCall = RepoIdle /\ repoCalls < MaxRepoCalls
    /\ repoCalls' = repoCalls + 1
    /\ repoCall' = [op |-> op, name |-> r, cfg |-> c, changed |-> "no", prior |-> NoRepo,
          at |-> IF op = "remove" THEN "remove"
                 ELSE CASE backend = "apt" -> "clean"
                        [] backend = "dnf" -> "write"
                        [] backend = "zypper" -> "drop"]
    /\ stands' = [n \in RepoNames |->
          IF n = r \/ (backend = "apt" /\ op = "apply" /\ Mentions(stands[n], c.url))
          THEN NoRepo ELSE stands[n]]
    /\ UNCHANGED <<backend, source, keyring, unjudged>>

RepoGoes(at, changed) == repoCall' = [repoCall EXCEPT !.at = at, !.changed = changed]

RepoFails == repoCall' = RepoIdle /\ UNCHANGED stands
RepoSucceeds ==
    /\ repoCall' = RepoIdle
    /\ stands' = [stands EXCEPT ![repoCall.name] = repoCall.cfg]

-----------------------------------------------------------------------------
(* The sources, other than the target's, whose text contains the URL.       *)
Conflicting(r, u) == {n \in RepoNames \ {r} : Mentions(source[n], u)}

(* cleanupConflictingApt and the legacy locations: a scan, a read or a       *)
(* removal that fails leaves its file and is only a warning, a look at a     *)
(* legacy location that fails is not.                                       *)
AptCleans ==
    /\ repoCall.at = "clean"
    /\ \E gone \in SUBSET Conflicting(repoCall.name, repoCall.cfg.url),
          keys \in SUBSET Conflicting(repoCall.name, repoCall.cfg.url) :
         /\ source' = [n \in RepoNames |-> IF n \in gone THEN NoRepo ELSE source[n]]
         /\ keyring' = [n \in RepoNames |-> IF n \in keys THEN None ELSE keyring[n]]
         /\ \/ /\ \E changed \in {"no", "yes"} :
                    (gone \cup keys # {} => changed = "yes") /\ RepoGoes("key", changed)
               /\ UNCHANGED stands
            \/ RepoFails
    /\ UNCHANGED <<backend, unjudged, repoCalls>>

(* Mkdir of the keyrings, gpg --dearmor, and the key where it differs.      *)
AptKey ==
    /\ repoCall.at = "key"
    /\ \/ /\ keyring' = [keyring EXCEPT ![repoCall.name] = repoCall.cfg.key]
          /\ RepoGoes("write", IF keyring' = keyring THEN repoCall.changed ELSE "yes")
          /\ UNCHANGED stands
       \/ RepoFails /\ UNCHANGED keyring
    /\ UNCHANGED <<backend, source, unjudged, repoCalls>>

(* The source, where it differs; nothing that changed, nothing to refresh.   *)
AptWrites ==
    /\ backend = "apt" /\ repoCall.at = "write"
    /\ \/ /\ source[repoCall.name] = repoCall.cfg /\ repoCall.changed = "no"
          /\ RepoSucceeds /\ UNCHANGED <<source, unjudged>>
       \/ /\ source[repoCall.name] = repoCall.cfg /\ repoCall.changed = "yes"
          /\ repoCall' = [repoCall EXCEPT !.at = "update", !.prior = repoCall.cfg]
          /\ UNCHANGED <<source, stands, unjudged>>
       \/ /\ source[repoCall.name] # repoCall.cfg
          /\ source' = [source EXCEPT ![repoCall.name] = repoCall.cfg]
          /\ unjudged' = unjudged \cup {repoCall.name}
          /\ repoCall' = [repoCall EXCEPT !.at = "update", !.changed = "yes",
                                          !.prior = source[repoCall.name]]
          /\ UNCHANGED stands
       \/ RepoFails /\ UNCHANGED <<source, unjudged>>
    /\ UNCHANGED <<backend, keyring, repoCalls>>

(* Mutant of AptUpdates: a failed refresh is a warning whatever it names.    *)
AptUpdatesAnyway ==
    /\ repoCall.at = "update" /\ RepoSucceeds
    /\ unjudged' = unjudged \ {repoCall.name}
    /\ UNCHANGED <<backend, source, keyring, repoCalls>>

(* apt-get update: content with the source; failing over something else,     *)
(* which is a warning; or naming the source, which is then put back.  It      *)
(* cannot judge a source when it was cut off before it read it.              *)
AptUpdates ==
    /\ repoCall.at = "update"
    /\ \/ ~Bad(repoCall.cfg) /\ RepoSucceeds /\ UNCHANGED source
             /\ unjudged' = unjudged \ {repoCall.name}
       \/ RepoSucceeds /\ UNCHANGED <<source, unjudged>>
       \/ /\ Bad(repoCall.cfg) /\ RepoFails
          /\ \/ /\ source' = [source EXCEPT ![repoCall.name] = repoCall.prior]
                /\ unjudged' = IF Bad(repoCall.prior) THEN unjudged
                               ELSE unjudged \ {repoCall.name}
             \/ UNCHANGED <<source, unjudged>>      \* the rollback failed
    /\ UNCHANGED <<backend, keyring, repoCalls>>

(* removeApt and removeDnf: the source, then, best effort, apt's key.        *)
(* removeZypper: one command.                                               *)
RepoRemoves ==
    /\ repoCall.at = "remove"
    /\ \/ /\ source' = [source EXCEPT ![repoCall.name] = NoRepo]
          /\ keyring' \in {keyring, [keyring EXCEPT ![repoCall.name] =
                                       IF backend = "apt" THEN None ELSE @]}
          /\ unjudged' = unjudged \ {repoCall.name}
          /\ RepoSucceeds \/ RepoFails
       \/ RepoFails /\ UNCHANGED <<source, keyring, unjudged>>
    /\ UNCHANGED <<backend, repoCalls>>

-----------------------------------------------------------------------------
(* applyDnf: the file, unless it is as it should be; the key's import and    *)
(* the refresh may fail.                                                    *)
DnfWrites ==
    /\ backend = "dnf" /\ repoCall.at = "write"
    /\ \/ /\ source[repoCall.name] = repoCall.cfg
          /\ RepoSucceeds /\ UNCHANGED source
       \/ /\ source[repoCall.name] # repoCall.cfg
          /\ source' = [source EXCEPT ![repoCall.name] = repoCall.cfg]
          /\ RepoGoes("import", "yes") /\ UNCHANGED stands
       \/ RepoFails /\ UNCHANGED source
    /\ UNCHANGED <<backend, keyring, unjudged, repoCalls>>

RpmImport ==
    /\ repoCall.at = "import"
    /\ keyring' \in {keyring, [keyring EXCEPT ![repoCall.name] = repoCall.cfg.key]}
    /\ RepoSucceeds
    /\ UNCHANGED <<backend, source, unjudged, repoCalls>>

(* applyZypper: removerepo, best effort, addrepo, which an alias that is     *)
(* still there makes fail, modifyrepo, which is fatal too, and the key.      *)
ZypperDrops ==
    /\ repoCall.at = "drop"
    /\ source' \in {source, [source EXCEPT ![repoCall.name] = NoRepo]}
    /\ RepoGoes("add", "no")
    /\ UNCHANGED <<backend, keyring, stands, unjudged, repoCalls>>

(* Mutant of ZypperAdds: a failed addrepo is a warning, as removerepo's is. *)
ZypperAddsOrNot ==
    /\ repoCall.at = "add"
    /\ source' \in {source, [source EXCEPT ![repoCall.name] = repoCall.cfg]}
    /\ RepoGoes("import", "yes")
    /\ UNCHANGED <<backend, keyring, stands, unjudged, repoCalls>>

ZypperAdds ==
    /\ repoCall.at = "add"
    /\ \/ /\ source[repoCall.name] = NoRepo
          /\ source' = [source EXCEPT ![repoCall.name] = repoCall.cfg]
          /\ (RepoGoes("import", "yes") /\ UNCHANGED stands) \/ RepoFails
       \/ RepoFails /\ UNCHANGED source
    /\ UNCHANGED <<backend, keyring, unjudged, repoCalls>>

RepoKilled ==
    /\ repoCall # RepoIdle /\ RepoFails
    /\ UNCHANGED <<backend, source, keyring, unjudged, repoCalls>>

RepoNext ==
    \/ \E r \in RepoNames : \/ \E c \in RepoConfigs : RepoStarts("apply", r, c)
                            \/ RepoStarts("remove", r, NoRepo)
    \/ AptCleans \/ AptKey \/ AptWrites \/ AptUpdates \/ RepoRemoves
    \/ DnfWrites \/ RpmImport \/ ZypperDrops \/ ZypperAdds
    \/ RepoKilled

RepoSpec == RepoInit /\ [][RepoNext]_repoVars

-----------------------------------------------------------------------------
RepoTypeOK ==
    /\ source \in [RepoNames -> RepoConfigs \cup {NoRepo}]
    /\ keyring \in [RepoNames -> SignKeys \cup {None}]
    /\ stands \in [RepoNames -> RepoConfigs \cup {NoRepo}]
    /\ unjudged \subseteq RepoNames /\ repoCalls \in 0..MaxRepoCalls
    /\ repoCall.at \in {"idle", "clean", "key", "write", "update", "remove", "import",
                        "drop", "add"}

(* What an Apply reported done stays as it asked, source and, for apt, key,   *)
(* through whatever fails or is killed in later calls, until a call names the *)
(* repository or, for apt, a URL its source contains.                       *)
AppliedStands ==
    \A r \in RepoNames : stands[r] # NoRepo =>
        /\ source[r] = stands[r]
        /\ backend = "apt" => keyring[r] = stands[r].key

(* Apply never reports done with a source that apt rejects and breaks every  *)
(* apt operation (sys/repo/apt.go:130-135), unless an apt-get update that      *)
(* would have shown it never ran to its verdict.                            *)
RejectedNeverStands ==
    \A r \in RepoNames : stands[r] # NoRepo /\ backend = "apt" /\ Bad(stands[r]) => r \in unjudged

(* A call of apt's removes no source but its own and those of its URL         *)
(* (apt.go:50-51, "removes any conflicting prior configuration of the same    *)
(* URL").  It fails where one URL is the beginning of another.              *)
SameUrlOnly ==
    [][\A r \in RepoNames : backend = "apt" /\ source[r] # NoRepo /\ source'[r] = NoRepo =>
         r = repoCall.name \/ source[r].url = repoCall.cfg.url]_repoVars
=============================================================================
