---------------------------- MODULE NetSettings ----------------------------
(***************************************************************************)
(* Apply of sys/dns and of sys/netconfig.  Each changes a saved              *)
(* configuration and then has it activated.  On NetworkManager both work on  *)
(* the same connection profile, field by field; elsewhere each writes a      *)
(* file of its own whole (a .network unit, a resolved.conf.d drop-in).       *)
(* Either command may fail, the failed activation may have taken effect, and *)
(* the calls of the two managers overlap.                                    *)
(***************************************************************************)
EXTENDS Naturals

CONSTANTS
    Values,         \* of a field: addresses, gateways, nameservers
    MaxNetCalls     \* bound: calls of Apply

Managers == {"dns", "netconfig"}
Stores == {"profile", "dropin"}
DnsFields == {"dns4", "dns6"}           \* ipv4.dns and ipv6.dns
Fields == DnsFields \cup {"addr", "gw"} \* "addr": method, addresses
Unset == "unset"
Prior == "prior"                        \* set by an administrator
NoFields == [f \in Fields |-> Unset]
Settings == [Fields -> Values \cup {Unset}]
Kept == [Fields -> Values \cup {Unset, Prior}]

NetIdle == [at |-> "idle", cfg |-> NoFields, alone |-> "yes", result |-> "none"]

VARIABLES
    framework,  \* what the host runs
    saved,      \* per store
    live,       \* what was last activated of it
    netCall,    \* the call each manager is in, or was in last
    netCalls

netVars == <<framework, saved, live, netCall, netCalls>>

NetInit ==
    /\ framework \in {"NetworkManager", "networkd"}
    /\ \E v \in {Unset, Prior} :
          saved = [s \in Stores |-> [f \in Fields |-> IF s = "profile" THEN v ELSE Unset]]
    /\ live = saved
    /\ netCall = [m \in Managers |-> NetIdle]
    /\ netCalls = 0

StoreOf(m) == IF m = "dns" /\ framework = "networkd" THEN "dropin" ELSE "profile"
NetBusy(m) == netCall[m].at # "idle"

-----------------------------------------------------------------------------
(* Valid arguments.  A static InterfaceConfig has an address, and a gateway  *)
(* only of the family of one; DHCP is the one without, and ignores Gateway.  *)
Configs(m) ==
    IF m = "dns" THEN {c \in Settings : \A f \in Fields \ DnsFields : c[f] = Unset}
    ELSE {c \in Settings : c["addr"] = Unset => c["gw"] = Unset}

NetStarts(m, cfg) ==
    /\ ~NetBusy(m) /\ netCalls < MaxNetCalls
    /\ netCalls' = netCalls + 1
    /\ netCall' = [n \in Managers |->
          IF n = m THEN [at |-> "modify", cfg |-> cfg, result |-> "none",
                         alone |-> IF \E k \in Managers : NetBusy(k) THEN "no" ELSE "yes"]
          ELSE [netCall[n] EXCEPT !.alone = "no"]]
    /\ UNCHANGED <<framework, saved, live>>

NetReturns(m, r) == netCall' = [netCall EXCEPT ![m].at = "idle", ![m].result = r]

(* nmcli connection modify: only the fields that are named change.  DHCP     *)
(* names the address and the gateway too, to clear them.                     *)
nmModify(m, old) ==
    LET cfg == netCall[m].cfg
        clears == IF m = "netconfig" /\ cfg["addr"] = Unset THEN {"addr", "gw"} ELSE {}
    IN [f \in Fields |-> IF cfg[f] # Unset \/ f \in clears THEN cfg[f] ELSE old[f]]

(* WriteFile writes a file whole or not at all; a modify that fails may have *)
(* had its effect.                                                          *)
Saves(m) ==
    /\ netCall[m].at = "modify"
    /\ LET asked == [saved EXCEPT ![StoreOf(m)] =
                IF framework = "NetworkManager" THEN nmModify(m, @) ELSE netCall[m].cfg]
       IN  \/ saved' = asked /\ netCall' = [netCall EXCEPT ![m].at = "activate"]
           \/ UNCHANGED saved /\ NetReturns(m, "error")
           \/ framework = "NetworkManager" /\ saved' = asked /\ NetReturns(m, "error")
    /\ UNCHANGED <<framework, live, netCalls>>

RollsBack(m) == m = "dns" /\ framework = "NetworkManager"

(* Mutant of Activates: the failure of the activation is not returned.     *)
ActivatesAnyway(m) ==
    /\ netCall[m].at = "activate"
    /\ \E s \in {saved[StoreOf(m)], live[StoreOf(m)]} : live' = [live EXCEPT ![StoreOf(m)] = s]
    /\ NetReturns(m, "ok")
    /\ UNCHANGED <<framework, saved, netCalls>>

(* connection up, networkctl reload, restart of systemd-resolved.  One that *)
(* fails may have had its effect, a timeout for one.                         *)
Activates(m) ==
    /\ netCall[m].at = "activate"
    /\ LET s == StoreOf(m) IN
          \/ live' = [live EXCEPT ![s] = saved[s]] /\ NetReturns(m, "ok")
          \/ /\ live' \in {live, [live EXCEPT ![s] = saved[s]]}
             /\ IF RollsBack(m) THEN netCall' = [netCall EXCEPT ![m].at = "rollback"]
                ELSE NetReturns(m, "error")
    /\ UNCHANGED <<framework, saved, netCalls>>

(* Mutant of Rollback: the profile is reset as a whole.                      *)
RollbackResets(m) ==
    /\ netCall[m].at = "rollback"
    /\ saved' = [saved EXCEPT !["profile"] = NoFields]
    /\ NetReturns(m, "error")
    /\ UNCHANGED <<framework, live, netCalls>>

(* It clears the nameservers, whatever they were before the call, with the   *)
(* context of the call: not when that is what ended the activation.          *)
Rollback(m) ==
    /\ netCall[m].at = "rollback"
    /\ saved' \in {saved, [saved EXCEPT !["profile"] =
          [f \in Fields |-> IF f \in DnsFields THEN Unset ELSE @[f]]]}
    /\ NetReturns(m, "error")
    /\ UNCHANGED <<framework, live, netCalls>>

NetNext ==
    \E m \in Managers :
        \/ \E cfg \in Configs(m) : NetStarts(m, cfg)
        \/ Saves(m) \/ Activates(m) \/ Rollback(m)

NetSpec == NetInit /\ [][NetNext]_netVars

-----------------------------------------------------------------------------
NetTypeOK ==
    /\ framework \in {"NetworkManager", "networkd"}
    /\ saved \in [Stores -> Kept] /\ live \in [Stores -> Kept]
    /\ netCall \in [Managers -> [at : {"idle", "modify", "activate", "rollback"}, cfg : Settings,
                                 alone : {"yes", "no"}, result : {"none", "ok", "error"}]]
    /\ netCalls \in 0..MaxNetCalls

(* Apply "installs" a configuration: a call that no other overlapped and     *)
(* that returned nil has every setting it was given both saved and active.   *)
AppliedLive ==
    \A m \in Managers :
        netCall[m].result = "ok" /\ netCall[m].alone = "yes" =>
            \A f \in Fields : netCall[m].cfg[f] # Unset =>
                /\ saved[StoreOf(m)][f] = netCall[m].cfg[f]
                /\ live[StoreOf(m)][f] = netCall[m].cfg[f]

(* The two managers share a profile but not its fields: a step of the DNS    *)
(* manager, its rollback included, leaves addresses and gateway as they are  *)
(* saved, also those of a netconfig Apply it overlaps.                       *)
DnsKeepsAddressing ==
    [][saved' # saved /\ netCall'["netconfig"] = netCall["netconfig"] =>
          \A s \in Stores, f \in {"addr", "gw"} : saved'[s][f] = saved[s][f]]_netVars

(* netconfig: "Apply is declarative desired-state": after an Apply that no   *)
(* other overlapped, no setting of an earlier one is left.  It does not hold  *)
(* on NetworkManager: a field that is left out keeps what it had.            *)
DesiredState ==
    netCall["netconfig"].result = "ok" /\ netCall["netconfig"].alone = "yes" =>
        live["profile"] = netCall["netconfig"].cfg

(* dns/networkmanager.go: "a failed apply leaves no residual DNS mutation".  *)
(* It does not hold: the rollback clears fields the call had not changed.    *)
FailedLeavesDns ==
    [][\A m \in Managers : RollsBack(m) /\ netCall[m].at = "rollback" /\ saved' # saved =>
          \A f \in DnsFields : netCall[m].cfg[f] = Unset => saved'["profile"][f] = saved["profile"][f]]_netVars
=============================================================================
