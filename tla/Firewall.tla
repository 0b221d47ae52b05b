------------------------------ MODULE Firewall -----------------------------
(***************************************************************************)
(* Managers of firewall rules (sys/firewall) over nftables, ufw or          *)
(* firewalld.  ApplyRule and RemoveRule look their rule up with one command *)
(* and change it with the next ones; commands fail, agents are killed, and  *)
(* Managers of other namespaces and other goroutines change rules between. *)
(*                                                                         *)
(* A key stands for a namespace with a rule ID; a rule for one of its       *)
(* versions.  nftables names a rule by a handle that is never used twice,   *)
(* ufw by its place in the list, firewalld by a service in a zone.         *)
(***************************************************************************)
EXTENDS Naturals, Sequences, SequencesExt, FiniteSets

CONSTANTS
    FwCallers,      \* goroutines
    RuleKeys,           \* <namespace>:<id>
    Versions,       \* contents of a rule that pass validateRule
    MaxFwCalls      \* bound: calls of ApplyRule and RemoveRule

Zones == {"public", "home"}
NoRule == 0
Unknown == Versions \cup {NoRule}
FwIdle == [op |-> "none", key |-> "none", ver |-> NoRule, at |-> "idle",
           found |-> 0, zone |-> "public"]

VARIABLES
    fwKind,     \* the Backend
    rules,      \* of nftables and ufw, in order: [key, ver, handle]
    nextHandle, \* of nftables
    xml,        \* firewalld: the service files
    enabled,    \* firewalld: the services of each zone, permanent
    running,    \* firewalld: what the last reload put into effect
    zone,       \* firewalld: the default zone
    fwCall,     \* the call of each caller
    want,       \* what a key's last call asked for; anything when it failed
    blind,      \* a call acted on a look-up that failed or that another call or
                \* a change of the default zone made stale
    fwCalls     \* how many calls were made

fwVars == <<fwKind, rules, nextHandle, xml, enabled, running, zone, fwCall, want,
            blind, fwCalls>>
dVars == <<xml, enabled, running>>

FwInit ==
    /\ fwKind \in {"nftables", "ufw", "firewalld"}
    /\ rules = <<>> /\ nextHandle = 1
    /\ xml = [k \in RuleKeys |-> NoRule] /\ enabled = {} /\ running = {}
    /\ zone = "public"
    /\ fwCall = [c \in FwCallers |-> FwIdle]
    /\ want = [k \in RuleKeys |-> {NoRule}]
    /\ blind = FALSE /\ fwCalls = 0

-----------------------------------------------------------------------------
(* A call that the backend's validation lets through.  Calls on one key     *)
(* overlap in the eyes of every backend, in ufw's all calls do.            *)
FwStarts(c, op, k, v) ==
    /\ fwCall[c].at = "idle" /\ fwCalls < MaxFwCalls
    /\ fwCalls' = fwCalls + 1
    /\ fwCall' = [fwCall EXCEPT ![c] =
          [op |-> op, key |-> k, ver |-> v, at |-> "look", found |-> 0, zone |-> zone]]
    /\ blind' = (blind \/ \E d \in FwCallers :
          fwCall[d].at # "idle" /\ (fwKind = "ufw" \/ fwCall[d].key = k))
    /\ UNCHANGED <<fwKind, rules, nextHandle, dVars, zone, want>>

Goes(c, at) == fwCall' = [fwCall EXCEPT ![c].at = at] /\ UNCHANGED want

FwSucceeds(c) ==
    /\ fwCall' = [fwCall EXCEPT ![c] = FwIdle]
    /\ want' = [want EXCEPT ![fwCall[c].key] = {fwCall[c].ver}]

FwFails(c) ==
    /\ fwCall' = [fwCall EXCEPT ![c] = FwIdle]
    /\ want' = [want EXCEPT ![fwCall[c].key] = Unknown]

At(c, op, at) == fwCall[c].op = op /\ fwCall[c].at = at

(* The places of a key's rules; ufwFindRuleNumber and nftFindRuleHandle     *)
(* take the first.                                                         *)
PlacesOf(k) == {i \in DOMAIN rules : rules[i].key = k}
First(S) == CHOOSE i \in S : \A j \in S : i <= j

-----------------------------------------------------------------------------
(* nftables: list the table, then one atomic batch.                        *)
(* Mutant of NftFound: the comment that names the rule is not compared.     *)
NftFoundAny(k) == IF rules = <<>> THEN 0 ELSE rules[1].handle

NftFound(k) == IF PlacesOf(k) = {} THEN 0 ELSE rules[First(PlacesOf(k))].handle

(* The list: ApplyRule goes on without a handle when it fails, RemoveRule   *)
(* gives up, and is content when there is no rule or no table.             *)
NftLook(c) ==
    /\ fwKind = "nftables" /\ fwCall[c].at = "look"
    /\ \/ /\ fwCall[c].op = "apply" \/ PlacesOf(fwCall[c].key) # {}
          /\ fwCall' = [fwCall EXCEPT ![c].at = "batch", ![c].found = NftFound(fwCall[c].key)]
          /\ UNCHANGED <<want, blind>>
       \/ /\ fwCall[c].op = "remove" /\ PlacesOf(fwCall[c].key) = {}
          /\ FwSucceeds(c) /\ UNCHANGED blind
       \/ /\ fwCall[c].op = "apply" /\ Goes(c, "batch") /\ blind' = TRUE
       \/ /\ fwCall[c].op = "remove" /\ FwFails(c) /\ UNCHANGED blind
    /\ UNCHANGED <<fwKind, rules, nextHandle, dVars, zone, fwCalls>>

WithoutHandle(h) == SelectSeq(rules, LAMBDA r : r.handle # h)

(* Mutant of NftBatch: the rule that was found is not deleted.             *)
NftBatchAdds(c) ==
    /\ fwKind = "nftables" /\ fwCall[c].at = "batch"
    /\ rules' = IF fwCall[c].op = "remove" THEN WithoutHandle(fwCall[c].found)
                ELSE Append(rules, [key |-> fwCall[c].key, ver |-> fwCall[c].ver,
                                    handle |-> nextHandle])
    /\ nextHandle' = nextHandle + 1
    /\ FwSucceeds(c)
    /\ UNCHANGED <<fwKind, dVars, zone, blind, fwCalls>>

(* nft -f: all of the batch or none of it; none when its handle has gone.   *)
NftBatch(c) ==
    /\ fwKind = "nftables" /\ fwCall[c].at = "batch"
    /\ \/ /\ fwCall[c].found = 0 \/ \E i \in DOMAIN rules : rules[i].handle = fwCall[c].found
          /\ rules' = WithoutHandle(fwCall[c].found)
                \o IF fwCall[c].op = "remove" THEN <<>>
                   ELSE <<[key |-> fwCall[c].key, ver |-> fwCall[c].ver,
                           handle |-> nextHandle]>>
          /\ nextHandle' = nextHandle + 1
          /\ FwSucceeds(c) \/ FwFails(c)
       \/ FwFails(c) /\ UNCHANGED <<rules, nextHandle>>
    /\ UNCHANGED <<fwKind, dVars, zone, blind, fwCalls>>

-----------------------------------------------------------------------------
(* ufw: status numbered, delete by number, add.                            *)
UfwStatus(c) ==
    /\ fwKind = "ufw" /\ fwCall[c].at = "look"
    /\ \/ /\ PlacesOf(fwCall[c].key) # {}
          /\ fwCall' = [fwCall EXCEPT ![c].at = "delete", ![c].found = First(PlacesOf(fwCall[c].key))]
          /\ UNCHANGED <<want, blind>>
       \/ /\ PlacesOf(fwCall[c].key) = {} /\ UNCHANGED blind
          /\ IF fwCall[c].op = "apply" THEN Goes(c, "add") ELSE FwSucceeds(c)
       \/ /\ blind' = TRUE     \* the status is not there: as if there were no rule
          /\ IF fwCall[c].op = "apply" THEN Goes(c, "add") ELSE FwSucceeds(c)
    /\ UNCHANGED <<fwKind, rules, nextHandle, dVars, zone, fwCalls>>

UfwDeleteByNumber(c) ==
    /\ fwKind = "ufw" /\ fwCall[c].at = "delete"
    /\ \/ /\ fwCall[c].found <= Len(rules)
          /\ rules' = RemoveAt(rules, fwCall[c].found)
          /\ \/ IF fwCall[c].op = "apply" THEN Goes(c, "add") ELSE FwSucceeds(c)
             \/ FwFails(c)
       \/ FwFails(c) /\ UNCHANGED rules
    /\ UNCHANGED <<fwKind, nextHandle, dVars, zone, blind, fwCalls>>

UfwAdd(c) ==
    /\ fwKind = "ufw" /\ fwCall[c].at = "add"
    /\ \/ /\ rules' = Append(rules, [key |-> fwCall[c].key, ver |-> fwCall[c].ver, handle |-> 0])
          /\ FwSucceeds(c) \/ FwFails(c)
       \/ FwFails(c) /\ UNCHANGED rules
    /\ UNCHANGED <<fwKind, nextHandle, dVars, zone, blind, fwCalls>>
-----------------------------------------------------------------------------
(* firewalld: service files and zones on disk, in effect after a reload.    *)
Loaded == {[key |-> e[2], zone |-> e[1], ver |-> xml[e[2]]] :
             e \in {f \in enabled : xml[f[2]] # NoRule}}

(* A command of firewall-cmd, or a write: it takes effect and the call goes *)
(* on, or it fails, with or without its effect.                             *)
FwStep(c, effect, unchanged, goesOn) ==
    \/ effect /\ (goesOn \/ FwFails(c))
    \/ unchanged /\ FwFails(c)

(* DefaultZone, first of both calls.                                       *)
FwdZone(c) ==
    /\ fwKind = "firewalld" /\ fwCall[c].at = "look"
    /\ \/ /\ fwCall' = [fwCall EXCEPT ![c].zone = zone,
               ![c].at = IF fwCall[c].op = "apply" THEN "write" ELSE "query"]
          /\ UNCHANGED want
       \/ FwFails(c)
    /\ UNCHANGED <<fwKind, rules, nextHandle, dVars, zone, blind, fwCalls>>

FwdWrite(c) ==
    /\ At(c, "apply", "write")
    /\ FwStep(c, xml' = [xml EXCEPT ![fwCall[c].key] = fwCall[c].ver],
              UNCHANGED xml, Goes(c, "reload"))
    /\ UNCHANGED <<fwKind, rules, nextHandle, enabled, running, zone, blind, fwCalls>>

FwdEnable(c) ==
    /\ At(c, "apply", "enable")
    /\ FwStep(c, enabled' = enabled \cup {<<fwCall[c].zone, fwCall[c].key>>},
              UNCHANGED enabled, Goes(c, "finish"))
    /\ UNCHANGED <<fwKind, rules, nextHandle, xml, running, zone, blind, fwCalls>>

(* The query of the zone's services: an enabled one is removed first.       *)
FwdQuery(c) ==
    /\ At(c, "remove", "query")
    /\ \/ Goes(c, IF <<fwCall[c].zone, fwCall[c].key>> \in enabled THEN "disable" ELSE "unlink")
       \/ FwFails(c)
    /\ UNCHANGED <<fwKind, rules, nextHandle, dVars, zone, blind, fwCalls>>

FwdDisable(c) ==
    /\ At(c, "remove", "disable")
    /\ FwStep(c, enabled' = enabled \ {<<fwCall[c].zone, fwCall[c].key>>},
              UNCHANGED enabled, Goes(c, "unlink"))
    /\ UNCHANGED <<fwKind, rules, nextHandle, xml, running, zone, blind, fwCalls>>

FwdUnlink(c) ==
    /\ At(c, "remove", "unlink")
    /\ FwStep(c, xml' = [xml EXCEPT ![fwCall[c].key] = NoRule],
              UNCHANGED xml, Goes(c, "finish"))
    /\ UNCHANGED <<fwKind, rules, nextHandle, enabled, running, zone, blind, fwCalls>>

(* A reload: ApplyRule has one between its file and the zone, so that       *)
(* firewalld knows the service, and one at the end.                        *)
FwdReload(c) ==
    /\ fwCall[c].at \in {"reload", "finish"}
    /\ FwStep(c, running' = Loaded, UNCHANGED running,
              IF fwCall[c].at = "reload" THEN Goes(c, "enable") ELSE FwSucceeds(c))
    /\ UNCHANGED <<fwKind, rules, nextHandle, xml, enabled, zone, blind, fwCalls>>

-----------------------------------------------------------------------------
(* The host's operator moves the default zone.                             *)
ZoneMoves ==
    /\ fwKind = "firewalld" /\ zone = "public" /\ zone' = "home"
    /\ blind' = (blind \/ enabled # {} \/ \E c \in FwCallers : fwCall[c].at # "idle")
    /\ UNCHANGED <<fwKind, rules, nextHandle, dVars, fwCall, want, fwCalls>>

(* The agent is killed, its calls with it.                                 *)
FwKilled ==
    /\ \E c \in FwCallers : fwCall[c].at # "idle"
    /\ fwCall' = [c \in FwCallers |-> FwIdle]
    /\ want' = [k \in RuleKeys |->
          IF \E c \in FwCallers : fwCall[c].at # "idle" /\ fwCall[c].key = k
          THEN Unknown ELSE want[k]]
    /\ UNCHANGED <<fwKind, rules, nextHandle, dVars, zone, blind, fwCalls>>

FwNext ==
    \/ \E c \in FwCallers :
         \/ \E k \in RuleKeys : \/ \E v \in Versions : FwStarts(c, "apply", k, v)
                               \/ FwStarts(c, "remove", k, NoRule)
         \/ NftLook(c) \/ NftBatch(c)
         \/ UfwStatus(c) \/ UfwDeleteByNumber(c) \/ UfwAdd(c)
         \/ FwdZone(c) \/ FwdWrite(c) \/ FwdEnable(c) \/ FwdQuery(c)
         \/ FwdDisable(c) \/ FwdUnlink(c) \/ FwdReload(c)
    \/ ZoneMoves \/ FwKilled

FwSpec == FwInit /\ [][FwNext]_fwVars

-----------------------------------------------------------------------------
FwTypeOK ==
    /\ fwKind \in {"nftables", "ufw", "firewalld"}
    /\ \A i \in DOMAIN rules : rules[i].key \in RuleKeys /\ rules[i].ver \in Versions
                            /\ rules[i].handle \in 0..MaxFwCalls
    /\ nextHandle \in 1..(MaxFwCalls + 1)
    /\ xml \in [RuleKeys -> Versions \cup {NoRule}]
    /\ enabled \subseteq Zones \X RuleKeys
    /\ \A r \in running : r.key \in RuleKeys /\ r.ver \in Versions
    /\ zone \in Zones /\ blind \in BOOLEAN /\ fwCalls \in 0..MaxFwCalls
    /\ \A c \in FwCallers : fwCall[c] = FwIdle \/ fwCall[c].key \in RuleKeys
    /\ \A k \in RuleKeys : want[k] \subseteq Unknown

Busy(k) == \E c \in FwCallers : fwCall[c].at # "idle" /\ fwCall[c].key = k

(* What is in effect for a key: its versions, once per rule.                *)
InEffect(k) ==
    IF fwKind = "firewalld"
    THEN [r \in {r \in running : r.key = k} |-> r.ver]
    ELSE [i \in PlacesOf(k) |-> rules[i].ver]

(* ApplyRule leaves exactly one rule of its ID in effect, the one it was     *)
(* given, and RemoveRule none (sys/firewall/ufw.go:51-52, "the final ruleset *)
(* has exactly one rule per ID"), whatever failed or was killed before it,   *)
(* as long as no call acted on a look-up that had failed or gone stale.     *)
OneRulePerId ==
    ~blind => \A k \in RuleKeys :
        (~Busy(k) /\ want[k] # Unknown) =>
            /\ Cardinality(DOMAIN InEffect(k)) = Cardinality(want[k] \ {NoRule})
            /\ \A p \in DOMAIN InEffect(k) : InEffect(k)[p] \in want[k]

(* What is configured for a key, by name and not by place.                  *)
Configured(k) ==
    <<{<<rules[i].handle, rules[i].ver>> : i \in PlacesOf(k)}, xml[k],
      {z \in Zones : <<z, k>> \in enabled}>>

(* Through nftables and firewalld a key's rules change only under a call on  *)
(* that key, however the calls interleave: a handle or a service name        *)
(* cannot come to mean another's rule between look-up and change.           *)
OthersKept ==
    [][fwKind # "ufw" => \A k \in RuleKeys : ~Busy(k) => Configured(k)' = Configured(k)]_fwVars

(* The same of ufw (sys/firewall/doc.go: Managers of two namespaces "will    *)
(* not see each other's rules and cannot accidentally mutate them").  It     *)
(* fails: the number a Manager deletes by may be another's rule by then.    *)
OthersUntouched ==
    [][\A k \in RuleKeys : ~Busy(k) => Len(SelectSeq(rules', LAMBDA r : r.key = k))
                                     = Len(SelectSeq(rules, LAMBDA r : r.key = k))]_fwVars
=============================================================================
