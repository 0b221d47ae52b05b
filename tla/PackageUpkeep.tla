--------------------------- MODULE PackageUpkeep ---------------------------
(***************************************************************************)
(* The mutations of pkg that name no package of a repository: Autoremove,    *)
(* UpgradeAll and InstallLocal of the five managers.  Most are one command,   *)
(* a transaction that sees the host as it is (Packages has the locks);       *)
(* pacman's Autoremove lists the orphans with one command and removes them    *)
(* with the next, dnf's InstallLocal tries again as a downgrade, and others   *)
(* change the host in between.                                             *)
(***************************************************************************)
EXTENDS Naturals

CONSTANTS
    Parcels,        \* packages
    Patched,        \* those whose newest version is a security update
    MaxUpCalls,     \* bound: calls of the agent
    MaxNudges       \* bound: changes by others

Newest == 2
NoFile == [name |-> "none", ver |-> 0, signed |-> "no"]
UpIdle == [op |-> "none", at |-> "idle", sec |-> "no", down |-> "no", unsigned |-> "no",
           file |-> NoFile, list |-> {}, touched |-> {}]

VARIABLES
    kind,       \* "apt", "dnf", "zypper", "pacman" or "flatpak"
    unattended, \* "yes": there is an unattended-upgrade binary
    ver,        \* the version installed, 0: none
    manual,     \* the packages somebody asked for
    needed,     \* the packages others depend on
    upCall,     \* the agent's call; "touched": what others changed since it began
    upResult,   \* what the last one returned; "exit": ok, but its query had failed
    upCalls, nudges

upVars == <<kind, unattended, ver, manual, needed, upCall, upResult, upCalls, nudges>>

Installed == {p \in Parcels : ver[p] # 0}
Orphans == Installed \ (manual \cup needed)

UpInit ==
    /\ kind \in {"apt", "dnf", "zypper", "pacman", "flatpak"} /\ unattended \in {"yes", "no"}
    /\ kind # "apt" => unattended = "no"
    /\ ver \in [Parcels -> 0 .. Newest]
    /\ manual \in SUBSET Installed /\ needed \in SUBSET Installed
    /\ upCall = UpIdle /\ upResult = "none" /\ upCalls = 0 /\ nudges = 0

(* Others on the host: they install, upgrade or downgrade a package, remove   *)
(* one that nothing needs, mark one as asked for or as a dependency, and      *)
(* install and remove what needs it.  What they do between calls is in Init.  *)
Nudge ==
    /\ upCall.at # "idle" /\ nudges < MaxNudges /\ nudges' = nudges + 1
    /\ \E p \in Parcels :
         /\ \/ /\ \E v \in 1 .. Newest : ver' = [ver EXCEPT ![p] = v]
               /\ manual' \in {manual, manual \cup {p}} /\ UNCHANGED needed
            \/ /\ p \notin needed /\ ver' = [ver EXCEPT ![p] = 0]
               /\ manual' = manual \ {p} /\ UNCHANGED needed
            \/ p \in Installed /\ manual' \in {manual \ {p}, manual \cup {p}}
               /\ UNCHANGED <<ver, needed>>
            \/ p \in Installed /\ needed' \in {needed \ {p}, needed \cup {p}}
               /\ UNCHANGED <<ver, manual>>
         /\ upCall' = [upCall EXCEPT !.touched = @ \cup {p}]
    /\ UNCHANGED <<kind, unattended, upResult, upCalls>>

-----------------------------------------------------------------------------
UpReturns(res) == upCall' = UpIdle /\ upResult' = res
UpGoes(at) == upCall' = [upCall EXCEPT !.at = at] /\ UNCHANGED upResult
NothingDone == UNCHANGED <<ver, manual>>

(* A command that exits 0 has done all of its transaction; one that does not,  *)
(* or that is killed, any part.                                            *)
RemovesAll(S) == ver' = [p \in Parcels |-> IF p \in S THEN 0 ELSE ver[p]] /\ manual' = manual \ S
Removes(S) ==
    \/ RemovesAll(S) /\ UpReturns("ok")
    \/ (\E T \in SUBSET S : RemovesAll(T)) /\ UpReturns("error")

RaisesAll(S) ==
    /\ ver' = [p \in Parcels |-> IF p \in S \cap Installed THEN Newest ELSE ver[p]]
    /\ UNCHANGED manual
Raises(S) ==
    \/ RaisesAll(S) /\ UpReturns("ok")
    \/ (\E T \in SUBSET S : RaisesAll(T)) /\ UpReturns("error")

UpStarts(call) ==
    /\ upCall = UpIdle /\ upCalls < MaxUpCalls /\ upCalls' = upCalls + 1
    /\ upCall' = [call EXCEPT !.at = "start"]
    /\ UNCHANGED <<kind, unattended, ver, manual, needed, upResult, nudges>>

UpkeepCalls ==
    \/ UpStarts([UpIdle EXCEPT !.op = "autoremove"])
    \/ \E s \in {"no", "yes"} : UpStarts([UpIdle EXCEPT !.op = "upgrade", !.sec = s])
    \/ \E p \in Parcels, v \in 1 .. Newest, s, d, u \in {"no", "yes"} :
         UpStarts([UpIdle EXCEPT !.op = "local", !.down = d, !.unsigned = u,
                     !.file = [name |-> p, ver |-> v, signed |-> s]])

-----------------------------------------------------------------------------
aptAutoremove == kind = "apt" /\ Removes(Orphans)
dnfAutoremove == kind = "dnf" /\ Removes(Orphans)
flatpakAutoremove == kind = "flatpak" /\ Removes(Orphans)
zypperAutoremove == kind = "zypper" /\ NothingDone /\ UpReturns("ok")

(* pacman -Qtdq exits 1 when there are no orphans, and when it fails.  -Rns of  *)
(* the list is refused if a package of it is gone or needed by now.         *)
pacmanAutoremove ==
    /\ kind = "pacman"
    /\ \/ /\ upCall.at = "start" /\ NothingDone
          /\ \/ UpReturns("error")
             \/ UpReturns(IF Orphans = {} THEN "ok" ELSE "exit")
             \/ /\ Orphans # {} /\ UNCHANGED upResult
                /\ upCall' = [upCall EXCEPT !.at = "rm", !.list = Orphans]
       \/ /\ upCall.at = "rm"
          /\ \/ NothingDone /\ UpReturns("error")
             \/ upCall.list \subseteq Installed \ needed /\ Removes(upCall.list)

Autoremove ==
    /\ upCall.op = "autoremove" /\ upCall.at \in {"start", "rm"}
    /\ \/ aptAutoremove \/ dnfAutoremove \/ flatpakAutoremove \/ zypperAutoremove
       \/ pacmanAutoremove
    /\ UNCHANGED <<kind, unattended, needed, upCalls, nudges>>

-----------------------------------------------------------------------------
(* What each manager upgrades when only security updates are wanted: apt fails *)
(* without unattended-upgrade, pacman and flatpak cannot tell them apart.    *)
Refuses == NothingDone /\ UpReturns("error")

aptUpgradeAllSkips ==
    /\ kind = "apt"
    /\ \/ upCall.sec = "no" /\ Raises(Parcels)
       \/ upCall.sec = "yes" /\ unattended = "yes" /\ Raises(Patched)
       \/ upCall.sec = "yes" /\ unattended = "no" /\ NothingDone /\ UpReturns("ok")
aptUpgradeAll ==
    /\ kind = "apt"
    /\ \/ upCall.sec = "no" /\ Raises(Parcels)
       \/ upCall.sec = "yes" /\ unattended = "yes" /\ Raises(Patched)
       \/ upCall.sec = "yes" /\ unattended = "no" /\ Refuses
dnfUpgradeAll == kind = "dnf" /\ Raises(IF upCall.sec = "yes" THEN Patched ELSE Parcels)
zypperUpgradeAll == kind = "zypper" /\ Raises(IF upCall.sec = "yes" THEN Patched ELSE Parcels)
pacmanUpgradeAll == kind = "pacman" /\ (IF upCall.sec = "yes" THEN Refuses ELSE Raises(Parcels))
flatpakUpgradeAll == kind = "flatpak" /\ (IF upCall.sec = "yes" THEN Refuses ELSE Raises(Parcels))

UpgradeAll ==
    /\ upCall.op = "upgrade" /\ upCall.at = "start"
    /\ \/ aptUpgradeAll \/ dnfUpgradeAll \/ zypperUpgradeAll \/ pacmanUpgradeAll
       \/ flatpakUpgradeAll
    /\ UNCHANGED <<kind, unattended, needed, upCalls, nudges>>

-----------------------------------------------------------------------------
(* The command puts the file's version in place, or is rejected or killed.     *)
Older == upCall.file.ver < ver[upCall.file.name]
Trusted == upCall.file.signed = "yes" \/ upCall.unsigned = "yes"
PutsFile ==
    /\ ver' = [ver EXCEPT ![upCall.file.name] = upCall.file.ver]
    /\ \/ manual' = manual \cup {upCall.file.name}
       \/ upCall.file.name \in Installed /\ UNCHANGED manual
LocalCommand(accepted) ==
    \/ accepted /\ PutsFile /\ upResult' \in {"ok", "error"} /\ upCall' = UpIdle
    \/ NothingDone /\ UpReturns("error")

aptInstallLocal == kind = "apt" /\ LocalCommand(~Older \/ upCall.down = "yes")
zypperInstallLocal == kind = "zypper" /\ LocalCommand(Trusted /\ (~Older \/ upCall.down = "yes"))
pacmanInstallLocal == kind = "pacman" /\ LocalCommand(upCall.file.signed = "yes")
flatpakInstallLocal == kind = "flatpak" /\ LocalCommand(TRUE)

(* dnf's non-zero exit, and nothing else, is tried again as a downgrade with    *)
(* the same policy for signatures.                                         *)
DnfRejects == NothingDone \/ (Trusted /\ ~Older /\ PutsFile)
dnfInstallLocalRetries ==
    /\ kind = "dnf"
    /\ \/ upCall.at = "start" /\ LocalCommand(Trusted /\ ~Older)
       \/ upCall.at = "start" /\ DnfRejects /\ UpGoes("downgrade")
       \/ upCall.at = "downgrade" /\ LocalCommand(Trusted /\ Older)
dnfInstallLocal ==
    /\ kind = "dnf"
    /\ \/ upCall.at = "start" /\ LocalCommand(Trusted /\ ~Older)
       \/ upCall.at = "start" /\ upCall.down = "yes" /\ DnfRejects /\ UpGoes("downgrade")
       \/ upCall.at = "downgrade" /\ LocalCommand(Trusted /\ Older)

InstallLocal ==
    /\ upCall.op = "local" /\ upCall.at \in {"start", "downgrade"}
    /\ \/ aptInstallLocal \/ dnfInstallLocal \/ zypperInstallLocal \/ pacmanInstallLocal
       \/ flatpakInstallLocal
    /\ UNCHANGED <<kind, unattended, needed, upCalls, nudges>>

UpNext == Nudge \/ UpkeepCalls \/ Autoremove \/ UpgradeAll \/ InstallLocal

-----------------------------------------------------------------------------
UpTypeOK ==
    /\ ver \in [Parcels -> 0 .. Newest]
    /\ manual \subseteq Installed /\ needed \subseteq Installed
    /\ upCall.at \in {"idle", "start", "rm", "downgrade"}
    /\ upResult \in {"none", "ok", "exit", "error"}

(* Whatever fails and whatever others do meanwhile, a call of the agent        *)
(* removes only orphans, by Autoremove (a package others touched since may     *)
(* have become one asked for, never one that is needed); upgrades only what     *)
(* it is asked to, security updates where only those are wanted; lowers a       *)
(* version only if that is allowed or the manager knows no other way; and       *)
(* takes no unsigned file unless told to, in the retry as in the first try.   *)
UpkeepSpares ==
    [][ nudges' = nudges /\ ver' # ver => \A p \in Parcels :
          /\ ver'[p] = 0 /\ ver[p] # 0
             => /\ upCall.op = "autoremove" /\ p \notin needed
                /\ p \in Orphans \/ p \in upCall.touched
          /\ ver'[p] > ver[p]
             => \/ upCall.op = "upgrade" /\ (upCall.sec = "no" \/ p \in Patched)
                \/ upCall.op = "local" /\ p = upCall.file.name
          /\ ver'[p] \in 1 .. Newest /\ ver'[p] < ver[p]
             => /\ upCall.op = "local" /\ p = upCall.file.name
                /\ upCall.down = "yes" \/ kind \in {"pacman", "flatpak"}
          /\ ver'[p] # ver[p] /\ upCall.op = "local" /\ kind \in {"dnf", "zypper"}
             => upCall.file.signed = "yes" \/ upCall.unsigned = "yes" ]_upVars

(* A call that returns success has done what it says of the packages nobody    *)
(* else touched: no orphan is left (zypper knows none), everything or          *)
(* every security update is newest, the file's version is in place.         *)
UpkeepDone ==
    [][ upCall.at # "idle" /\ upCall'.at = "idle" /\ upResult' = "ok" =>
          /\ upCall.op = "autoremove" /\ kind # "zypper" => Orphans' \subseteq upCall.touched
          /\ upCall.op = "upgrade" =>
               \A p \in (IF upCall.sec = "yes" THEN Patched ELSE Parcels) : ver'[p] \in {0, Newest}
          /\ upCall.op = "local" => ver'[upCall.file.name] = upCall.file.ver ]_upVars

(* pacman's "Autoremove removes orphaned packages (installed as deps, no       *)
(* longer required)", is found false: a package that is marked as asked for     *)
(* between the two commands is removed.                                    *)
OrphansOnly ==
    [][ upCall.op = "autoremove" /\ nudges' = nudges =>
          \A p \in Installed : ver'[p] = 0 => p \in Orphans ]_upVars
=============================================================================
