----------------------------- MODULE MCSystem ------------------------------
(***************************************************************************)
(* The managers of sys/ for model checking, and pacman.conf, which sys/repo   *)
(* and pkg share: each carries out a call in several commands and file        *)
(* operations, any of which may fail.  A behaviour is one of the nine         *)
(* modules below: they share no state, so that one run checks them all, and   *)
(* its states are the sum of theirs.                                       *)
(***************************************************************************)
EXTENDS TrustStore, Accounts, LuksVolume, RemoveTree, FileWrite, NetSettings, ServiceUnits

CONSTANTS
    FwCallers, RuleKeys, Versions, MaxFwCalls,
    ConfCallers, Pkgs, Sections, Servers, MaxConfCalls

VARIABLES
    part,
    fwKind, rules, nextHandle, xml, permanent, running, zone, fwCall, want, unseen, fwCalls,
    conf, confCall, asked, mixed, confCalls

Fw == INSTANCE Firewall WITH enabled <- permanent, blind <- unseen
Conf == INSTANCE PacmanConf

fwVars == <<fwKind, rules, nextHandle, xml, permanent, running, zone, fwCall, want, unseen, fwCalls>>
confVars == <<conf, confCall, asked, mixed, confCalls>>
systemVars == <<part, trustVars, fwVars, acVars, lkVars, confVars, treeVars,
                writeVars, netVars, unitVars>>

(* What tells two states of a run apart: the rest never changes.            *)
Running ==
    CASE part = "trust" -> <<part, trustVars>>
      [] part = "firewall" -> <<part, fwVars>>
      [] part = "accounts" -> <<part, acVars>>
      [] part = "luks" -> <<part, lkVars>>
      [] part = "pacman.conf" -> <<part, confVars>>
      [] part = "tree" -> <<part, treeVars>>
      [] part = "write" -> <<part, writeVars>>
      [] part = "net" -> <<part, netVars>>
      [] part = "unit" -> <<part, unitVars>>

(* Those that are not running stay in one initial state.                   *)
SystemInit ==
    /\ part \in {"trust", "firewall", "accounts", "luks", "pacman.conf",
                 "tree", "write", "net", "unit"}
    /\ TrustInit     /\ (part # "trust" => tool = "p11-kit")
    /\ Fw!FwInit     /\ (part # "firewall" => fwKind = "ufw")
    /\ AcInit        /\ (part # "accounts" => shadow = NoEntry /\ home = NoHome)
    /\ LkInit
    /\ Conf!ConfInit /\ (part # "pacman.conf" => conf.ignore = <<>>)
    /\ TreeInit
    /\ WriteInit     /\ (part # "write" => backend = "direct" /\ existed = "no")
    /\ NetInit       /\ (part # "net" => framework = "networkd" /\ saved["profile"] = NoFields)
    /\ UnitInit      /\ (part # "unit" => file = 1)

InTrust(A) == part = "trust" /\ A
    /\ UNCHANGED <<part, fwVars, acVars, lkVars, confVars,
                   treeVars, writeVars, netVars, unitVars>>
InFw(A) == part = "firewall" /\ A
    /\ UNCHANGED <<part, trustVars, acVars, lkVars, confVars,
                   treeVars, writeVars, netVars, unitVars>>
InAc(A) == part = "accounts" /\ A
    /\ UNCHANGED <<part, trustVars, fwVars, lkVars, confVars,
                   treeVars, writeVars, netVars, unitVars>>
InLk(A) == part = "luks" /\ A
    /\ UNCHANGED <<part, trustVars, fwVars, acVars, confVars,
                   treeVars, writeVars, netVars, unitVars>>
InConf(A) == part = "pacman.conf" /\ A
    /\ UNCHANGED <<part, trustVars, fwVars, acVars, lkVars,
                   treeVars, writeVars, netVars, unitVars>>
InTree(A) == part = "tree" /\ A
    /\ UNCHANGED <<part, trustVars, fwVars, acVars, lkVars,
                   confVars, writeVars, netVars, unitVars>>
InWrite(A) == part = "write" /\ A
    /\ UNCHANGED <<part, trustVars, fwVars, acVars, lkVars,
                   confVars, treeVars, netVars, unitVars>>
InNet(A) == part = "net" /\ A
    /\ UNCHANGED <<part, trustVars, fwVars, acVars, lkVars,
                   confVars, treeVars, writeVars, unitVars>>
InUnit(A) == part = "unit" /\ A
    /\ UNCHANGED <<part, trustVars, fwVars, acVars, lkVars,
                   confVars, treeVars, writeVars, netVars>>

SystemNext ==
    \/ InTrust(TrustNext) \/ InFw(Fw!FwNext) \/ InAc(AcNext) \/ InLk(LkNext)
    \/ InConf(Conf!ConfNext) \/ InTree(TreeNext) \/ InWrite(WriteNext)
    \/ InNet(NetNext) \/ InUnit(UnitNext)

SystemSpec == SystemInit /\ [][SystemNext]_systemVars

-----------------------------------------------------------------------------
(* Of the modules extended here TLC checks the invariants themselves.        *)

(* firewall: between calls each rule ID has the one rule that was asked for *)
(* last, however calls overlap, fail or are cut short, as long as none acted *)
(* on a look-up that had failed or gone stale.                              *)
OneRulePerId == part = "firewall" => Fw!FwTypeOK /\ Fw!OneRulePerId

(* pacman.conf: pins and repositories are those asked for, unless calls of   *)
(* the two managers overlapped.                                             *)
ConfAsAsked == part = "pacman.conf" => Conf!ConfTypeOK /\ Conf!ConfAsAsked

(* What is not the call's own to change: the nftables and firewalld rules of *)
(* another ID, the password and the files the user made, the addresses the   *)
(* DNS manager finds in a profile.                                          *)
OthersLeftAlone == Fw!OthersKept /\ UsersOwnKept /\ DnsKeepsAddressing
=============================================================================
