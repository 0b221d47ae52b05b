--------------------------- MODULE SettingsProofs ---------------------------
(***************************************************************************)
(* Proofs about managers of the host's settings: those that change a saved  *)
(* setting and then have it take effect, or answer for one (the CA trust of *)
(* catrust, Apply of dns and netconfig, Status and NeedsReload of service), *)
(* and the accounts of user.                                                *)
(***************************************************************************)
EXTENDS TrustStore, NetSettings, ServiceUnits, Accounts, TLAPS

-----------------------------------------------------------------------------
(* catrust                                                                  *)
TrustTypes ==
    /\ Absent \notin Certs /\ MaxTrustCalls \in Nat
    /\ TrustTypeOK

(* What a call still has to do is of its own kind.                          *)
TrustCallInv ==
    \A c \in Callers :
        /\ trustCall[c].at # "idle" => trustCall[c].name \in AnchorNames
        /\ trustCall[c].at = "file" /\ trustCall[c].op = "install" => trustCall[c].cert \in Certs
        /\ trustCall[c].at = "unlink" => trustCall[c].op = "remove"
        /\ trustCall[c].at = "refresh" => trustCall[c].op \in {"install", "remove"}

(* Where the bundle differs from the anchors a refresh is still to come, and *)
(* where the anchor is gone it is that of a removal, which extracts afresh. *)
RefreshComes(n) ==
    \E c \in Callers : /\ trustCall[c].at = "refresh"
                       /\ anchors[n] = Absent => trustCall[c].op = "remove"
PendingInv ==
    missed = "no" => \A n \in AnchorNames : bundle[n] # anchors[n] => RefreshComes(n)

TrustInv == TrustTypes /\ TrustCallInv /\ PendingInv

(* Nothing is installed and nothing trusted.                                *)
LEMMA TrustStart == ASSUME Absent \notin Certs, MaxTrustCalls \in Nat, TrustInit PROVE TrustInv
BY DEF TrustInv, TrustTypes, TrustCallInv, PendingInv, TrustInit, TrustTypeOK, Anchors, Calls,
   Idle, Absent

(* Install or Remove changes the file of its anchor.                        *)
LEMMA SetsStep ==
    ASSUME TrustInv, NEW c \in Callers, NEW x \in Certs \cup {Absent}, Sets(c, x),
           trustCall[c].at \in {"file", "unlink"}, trustCall[c].op \in {"install", "remove"},
           x = Absent => trustCall[c].op = "remove"
    PROVE  TrustInv'
<1> USE DEF TrustInv, Sets, TrustReturns
<1>0. trustCall[c].name \in AnchorNames /\ anchors \in Anchors /\ anchors' \in Anchors
  BY DEF TrustTypes, TrustTypeOK, TrustCallInv, Anchors
<1>1. TrustTypes'
  BY <1>0 DEF TrustTypes, TrustTypeOK, Calls
<1>2. TrustCallInv'
  BY DEF TrustTypes, TrustTypeOK, TrustCallInv, Calls
<1>3. PendingInv'
  <2> SUFFICES ASSUME missed' = "no", NEW n \in AnchorNames, bundle'[n] # anchors'[n]
               PROVE  RefreshComes(n)'
    BY DEF PendingInv
  <2>1. missed = "no" /\ UNCHANGED bundle
    BY DEF TrustTypes, TrustTypeOK
  <2>2. \A d \in Callers \ {c} : trustCall'[d] = trustCall[d]
    BY DEF TrustTypes, TrustTypeOK
  <2>3. CASE anchors' = anchors /\ trustCall'[c].at = "idle"
    BY <2>1, <2>2, <2>3 DEF PendingInv, RefreshComes
  <2>4. CASE trustCall' = [trustCall EXCEPT ![c].at = "refresh"]
             /\ anchors' = [anchors EXCEPT ![trustCall[c].name] = x]
    <3>1. trustCall'[c].at = "refresh" /\ trustCall'[c].op = trustCall[c].op
      BY <2>4 DEF TrustTypes, TrustTypeOK, Calls
    <3>2. CASE n = trustCall[c].name
      BY <1>0, <2>4, <3>1, <3>2 DEF RefreshComes, Anchors
    <3>3. CASE n # trustCall[c].name
      BY <1>0, <2>1, <2>2, <2>4, <3>3 DEF PendingInv, RefreshComes, Anchors
    <3> QED BY <3>2, <3>3
  <2> QED BY <2>1, <2>3, <2>4 DEF TrustTypes, TrustTypeOK, Calls
<1> QED BY <1>1, <1>2, <1>3

(* A refresh brings the bundle in line with every anchor it can see.        *)
LEMMA RefreshStep ==
    ASSUME TrustInv, NEW c \in Callers, Refresh(c)
    PROVE  TrustInv'
<1> USE DEF TrustInv, Refresh, TrustReturns
<1>0. Extracted(trustCall[c].op) \in Anchors
  BY DEF TrustTypes, TrustTypeOK, Anchors, Extracted
<1>1. TrustTypes'
  BY <1>0 DEF TrustTypes, TrustTypeOK, Calls
<1>2. TrustCallInv'
  BY DEF TrustTypes, TrustTypeOK, TrustCallInv, Calls
<1>3. PendingInv'
  <2> SUFFICES ASSUME missed' = "no", NEW n \in AnchorNames, bundle'[n] # anchors'[n]
               PROVE  RefreshComes(n)'
    BY DEF PendingInv
  <2>1. missed = "no" /\ UNCHANGED anchors /\ bundle' = Extracted(trustCall[c].op)
    BY DEF TrustTypes, TrustTypeOK
  <2>2. \A d \in Callers \ {c} : trustCall'[d] = trustCall[d]
    BY DEF TrustTypes, TrustTypeOK
  <2>3. trustCall[c].op = "install" /\ anchors[n] = Absent /\ bundle'[n] = bundle[n]
    BY <2>1 DEF Extracted, Anchors, TrustTypes, TrustTypeOK
  <2>4. RefreshComes(n)
    BY <2>1, <2>3 DEF PendingInv
  <2> QED BY <2>1, <2>2, <2>3, <2>4 DEF RefreshComes
<1> QED BY <1>1, <1>2, <1>3

(* One step per operation of catrust.                                       *)
LEMMA TrustStep == TrustInv /\ TrustNext => TrustInv'
<1> SUFFICES ASSUME TrustInv, TrustNext PROVE TrustInv'
  OBVIOUS
<1>1. ASSUME NEW c \in Callers, NEW op \in {"install", "remove"}, NEW n \in AnchorNames,
             NEW x \in Certs \cup {Absent}, op = "install" => x \in Certs, TrustStarts(c, op, n, x)
      PROVE  TrustInv'
  <2> DEFINE s == [op |-> op, name |-> n, cert |-> x, at |-> "file", result |-> "none"]
  <2>1. s \in Calls /\ trustCall' = [trustCall EXCEPT ![c] = s]
    BY <1>1 DEF TrustStarts, Calls
  <2>2. trustCalls' \in 0..MaxTrustCalls
    BY <1>1 DEF TrustStarts, TrustInv, TrustTypes, TrustTypeOK
  <2>3. UNCHANGED <<tool, anchors, bundle, missed>> /\ trustCall[c].at = "idle"
    BY <1>1 DEF TrustStarts
  <2>4. TrustTypes'
    BY <2>1, <2>2, <2>3 DEF TrustInv, TrustTypes, TrustTypeOK
  <2>5. TrustCallInv'
    BY <1>1, <2>1 DEF TrustInv, TrustTypes, TrustTypeOK, TrustCallInv
  <2>6. PendingInv'
    BY <2>1, <2>3 DEF TrustInv, TrustTypes, TrustTypeOK, PendingInv, RefreshComes
  <2> QED BY <2>4, <2>5, <2>6 DEF TrustInv
<1>3. ASSUME NEW c \in Callers, InstallWrites(c) PROVE TrustInv'
  BY <1>3, SetsStep DEF InstallWrites, TrustInv, TrustTypes, TrustCallInv
<1>4. ASSUME NEW c \in Callers, RemoveStats(c) PROVE TrustInv'
  BY <1>4 DEF RemoveStats, TrustReturns, TrustInv, TrustTypes, TrustTypeOK, TrustCallInv,
       PendingInv, RefreshComes, Calls
<1>5. ASSUME NEW c \in Callers, RemoveUnlinks(c) PROVE TrustInv'
  BY <1>5, SetsStep DEF RemoveUnlinks, TrustInv, TrustCallInv
<1>6. ASSUME NEW c \in Callers, Refresh(c) PROVE TrustInv'
  BY <1>6, RefreshStep
<1>7. CASE TrustKilled
  BY <1>7 DEF TrustKilled, TrustInv, TrustTypes, TrustTypeOK, TrustCallInv, PendingInv,
       RefreshComes, Calls, Idle
<1>8. QED BY <1>1, <1>3, <1>4, <1>5, <1>6, <1>7 DEF TrustNext, TrustInv, TrustTypes

(* Install, Remove and refresh, for any callers, anchors and certificates:  *)
(* once overlapping calls have all returned, the host trusts exactly the    *)
(* anchors on disk, unless a refresh failed or was never run.               *)
THEOREM TrustFollowsAnchors ==
    ASSUME Absent \notin Certs, MaxTrustCalls \in Nat
    PROVE  TrustSpec => [](TrustTypeOK /\ BundleFollows)
<1>1. TrustInit => TrustInv
  BY TrustStart
<1>2. TrustInv /\ [TrustNext]_trustVars => TrustInv'
  <2>1. TrustInv /\ UNCHANGED trustVars => TrustInv'
    BY DEF trustVars, TrustInv, TrustTypes, TrustTypeOK, TrustCallInv, PendingInv, RefreshComes
  <2> QED BY <2>1, TrustStep
<1>3. TrustInv => TrustTypeOK /\ BundleFollows
  BY DEF TrustInv, TrustTypes, TrustTypeOK, PendingInv, RefreshComes, BundleFollows, AllIdle, Anchors
<1> QED BY <1>1, <1>2, <1>3, PTL DEF TrustSpec

-----------------------------------------------------------------------------
(* dns and netconfig                                                        *)
NetCalls == [at : {"idle", "modify", "activate", "rollback"}, cfg : Settings,
             alone : {"yes", "no"}, result : {"none", "ok", "error"}]

(* A manager that is in a call has been noticed by the other, and a call that *)
(* is alone finds what it has saved as it left it.                          *)
NetCallInv ==
    /\ \A m, n \in Managers : m # n /\ NetBusy(m) => netCall[n].alone = "no"
    /\ \A m \in Managers :
          /\ NetBusy(m) => netCall[m].result = "none" /\ netCall[m].cfg \in Configs(m)
          /\ netCall[m].at = "rollback" => m = "dns"
          /\ netCall[m].at = "activate" /\ netCall[m].alone = "yes" =>
                \A f \in Fields : netCall[m].cfg[f] # Unset =>
                    saved[StoreOf(m)][f] = netCall[m].cfg[f]
    /\ \A f \in Fields \ DnsFields : saved["dropin"][f] = Unset

NetInv == MaxNetCalls \in Nat /\ NetTypeOK /\ NetCallInv /\ AppliedLive

(* The settings an administrator left.                                      *)
LEMMA NetStart == ASSUME MaxNetCalls \in Nat, NetInit PROVE NetInv
<1>1. NoFields \in Settings /\ NetIdle \in NetCalls
  BY DEF NoFields, Settings, NetIdle, NetCalls
<1>2. saved \in [Stores -> Kept] /\ live \in [Stores -> Kept] /\ netCall = [m \in Managers |-> NetIdle]
  BY DEF NetInit, Kept
<1>3. NetTypeOK
  BY SMTT(30), <1>1, <1>2 DEF NetInit, NetTypeOK, NetCalls
<1>4. \A m \in Managers : netCall[m].at = "idle" /\ netCall[m].result = "none"
  BY <1>2 DEF NetIdle
<1>5. \A f \in Fields : saved["dropin"][f] = Unset
  BY DEF NetInit, Stores
<1> QED BY <1>3, <1>4, <1>5 DEF NetInv, NetCallInv, NetBusy, AppliedLive

(* A step of the one manager's call: what it may leave of the invariants to *)
(* show is what they say of itself, for the other is no longer alone.       *)
LEMMA OneManager ==
    ASSUME NetInv, NEW m \in Managers, NetBusy(m), NEW c \in NetCalls, netCall' = [netCall EXCEPT ![m] = c],
           c.cfg = netCall[m].cfg, c.alone = netCall[m].alone,
           c.at # "idle" => c.result = "none", c.at = "rollback" => m = "dns",
           UNCHANGED <<framework, netCalls>>,
           saved' \in [Stores -> Kept], live' \in [Stores -> Kept],
           \A f \in Fields \ DnsFields : saved'["dropin"][f] = Unset,
           c.at = "activate" => \A f \in Fields : c.cfg[f] # Unset => saved'[StoreOf(m)][f] = c.cfg[f],
           c.result = "ok" /\ c.alone = "yes" => \A f \in Fields : c.cfg[f] # Unset =>
                /\ saved'[StoreOf(m)][f] = c.cfg[f] /\ live'[StoreOf(m)][f] = c.cfg[f]
    PROVE  NetInv'
<1>1. netCall'[m] = c /\ \A n \in Managers \ {m} : netCall'[n] = netCall[n]
  BY DEF NetInv, NetTypeOK, NetCalls
<1>2. \A n \in Managers \ {m} : netCall[n].alone = "no"
  BY DEF NetInv, NetCallInv
<1>3. NetTypeOK'
  BY DEF NetInv, NetTypeOK, NetCalls
<1>4. \A n \in Managers : StoreOf(n)' = StoreOf(n) /\ Configs(n)' = Configs(n)
  BY DEF StoreOf, Configs
<1>5. NetCallInv'
  BY <1>1, <1>2, <1>4 DEF NetInv, NetCallInv, NetBusy
<1>6. AppliedLive'
  BY <1>1, <1>2, <1>4 DEF AppliedLive
<1> QED BY <1>3, <1>5, <1>6 DEF NetInv

Asked(m) ==
    [saved EXCEPT ![StoreOf(m)] =
        IF framework = "NetworkManager" THEN nmModify(m, @) ELSE netCall[m].cfg]

(* What nmcli or WriteFile saves has every setting that was asked for, and the *)
(* fields the DNS manager does not name are as they were.                   *)
LEMMA SavedAsAsked ==
    ASSUME NetInv, NEW m \in Managers, NetBusy(m)
    PROVE  /\ Asked(m) \in [Stores -> Kept]
           /\ \A f \in Fields : netCall[m].cfg[f] # Unset => Asked(m)[StoreOf(m)][f] = netCall[m].cfg[f]
           /\ \A f \in Fields \ DnsFields : Asked(m)["dropin"][f] = Unset
           /\ m = "dns" => \A s \in Stores, f \in Fields \ DnsFields : Asked(m)[s][f] = saved[s][f]
<1>0. /\ saved \in [Stores -> Kept] /\ netCall[m].cfg \in Settings /\ netCall[m].cfg \in Configs(m)
      /\ StoreOf(m) \in Stores /\ framework \in {"NetworkManager", "networkd"}
  BY DEF NetInv, NetTypeOK, NetCallInv, StoreOf, Stores
<1>1. m = "dns" => \A f \in Fields \ DnsFields : netCall[m].cfg[f] = Unset
  BY <1>0 DEF Configs
<1>2. \A f \in Fields \ DnsFields : saved["dropin"][f] = Unset
  BY DEF NetInv, NetCallInv
<1> DEFINE new == IF framework = "NetworkManager" THEN nmModify(m, saved[StoreOf(m)]) ELSE netCall[m].cfg
<1>3. CASE framework = "NetworkManager"
  <2>1. StoreOf(m) = "profile" /\ saved["profile"] \in Kept
    BY <1>0, <1>3 DEF StoreOf, Stores
  <2>2. new \in Kept
    BY <1>0, <1>3, <2>1 DEF nmModify, Kept, Settings
  <2>3. \A f \in Fields : /\ netCall[m].cfg[f] # Unset => new[f] = netCall[m].cfg[f]
                          /\ m = "dns" /\ netCall[m].cfg[f] = Unset => new[f] = saved["profile"][f]
    BY <1>3, <2>1 DEF nmModify
  <2>4. Asked(m) = [saved EXCEPT !["profile"] = new]
    BY <2>1 DEF Asked
  <2> HIDE DEF new
  <2> QED BY <1>0, <1>1, <1>2, <2>1, <2>2, <2>3, <2>4 DEF Stores
<1>4. CASE framework = "networkd"
  <2>1. Asked(m) = [saved EXCEPT ![StoreOf(m)] = netCall[m].cfg]
    BY <1>4 DEF Asked
  <2>2. netCall[m].cfg \in Kept
    BY <1>0 DEF Settings, Kept
  <2>3. (m = "dns" /\ StoreOf(m) = "dropin") \/ (m = "netconfig" /\ StoreOf(m) = "profile")
    BY <1>4 DEF StoreOf, Managers
  <2> QED BY <1>0, <1>1, <1>2, <2>1, <2>2, <2>3 DEF Stores
<1> QED BY <1>0, <1>3, <1>4

(* The saved configuration changes, or the call fails.                      *)
LEMMA SavesStep == ASSUME NetInv, NEW m \in Managers, Saves(m) PROVE NetInv'
<1> DEFINE activate == [netCall[m] EXCEPT !.at = "activate"]
           error == [netCall[m] EXCEPT !.at = "idle", !.result = "error"]
<1>0. /\ netCall[m] \in NetCalls /\ NetBusy(m) /\ netCall[m].result = "none"
      /\ saved \in [Stores -> Kept] /\ live \in [Stores -> Kept]
      /\ \A f \in Fields \ DnsFields : saved["dropin"][f] = Unset
  BY DEF Saves, NetInv, NetTypeOK, NetCalls, NetCallInv, NetBusy
<1>1. UNCHANGED <<framework, netCalls, live>>
  BY DEF Saves
<1>2. /\ Asked(m) \in [Stores -> Kept]
      /\ \A f \in Fields : netCall[m].cfg[f] # Unset => Asked(m)[StoreOf(m)][f] = netCall[m].cfg[f]
      /\ \A f \in Fields \ DnsFields : Asked(m)["dropin"][f] = Unset
  BY <1>0, SavedAsAsked
<1>3. \/ saved' = Asked(m) /\ netCall' = [netCall EXCEPT ![m] = activate]
      \/ saved' \in {saved, Asked(m)} /\ netCall' = [netCall EXCEPT ![m] = error]
  BY Zenon DEF Saves, NetReturns, Asked
<1>4. activate \in NetCalls /\ activate.at = "activate" /\ activate.result = "none"
      /\ activate.cfg = netCall[m].cfg /\ activate.alone = netCall[m].alone
  BY <1>0 DEF NetCalls
<1>5. error \in NetCalls /\ error.at = "idle" /\ error.result = "error"
      /\ error.cfg = netCall[m].cfg /\ error.alone = netCall[m].alone
  BY Zenon, <1>0 DEF NetCalls
<1> HIDE DEF activate, error
<1>6. CASE saved' = Asked(m) /\ netCall' = [netCall EXCEPT ![m] = activate]
  BY Zenon, <1>0, <1>1, <1>2, <1>4, <1>6, OneManager
<1>7. CASE saved' \in {saved, Asked(m)} /\ netCall' = [netCall EXCEPT ![m] = error]
  BY Zenon, <1>0, <1>1, <1>2, <1>5, <1>7, OneManager
<1> QED BY <1>3, <1>6, <1>7

(* The activation, which may fail after it took effect.                     *)
LEMMA ActivatesStep == ASSUME NetInv, NEW m \in Managers, Activates(m) PROVE NetInv'
<1> DEFINE up == [live EXCEPT ![StoreOf(m)] = saved[StoreOf(m)]]
           rollback == [netCall[m] EXCEPT !.at = "rollback"]
           ended(r) == [netCall[m] EXCEPT !.at = "idle", !.result = r]
<1>0. /\ netCall[m] \in NetCalls /\ NetBusy(m) /\ netCall[m].result = "none"
      /\ netCall[m].at = "activate"
      /\ saved \in [Stores -> Kept] /\ live \in [Stores -> Kept] /\ StoreOf(m) \in Stores
      /\ \A f \in Fields \ DnsFields : saved["dropin"][f] = Unset
      /\ netCall[m].alone = "yes" => \A f \in Fields : netCall[m].cfg[f] # Unset =>
                saved[StoreOf(m)][f] = netCall[m].cfg[f]
  BY DEF Activates, NetInv, NetTypeOK, NetCalls, NetCallInv, NetBusy, StoreOf, Stores
<1>1. UNCHANGED <<framework, netCalls, saved>>
  BY DEF Activates
<1>2. up \in [Stores -> Kept] /\ up[StoreOf(m)] = saved[StoreOf(m)]
  BY <1>0
<1>3. \/ live' = up /\ netCall' = [netCall EXCEPT ![m] = ended("ok")]
      \/ /\ live' \in {live, up}
         /\ \/ m = "dns" /\ netCall' = [netCall EXCEPT ![m] = rollback]
            \/ netCall' = [netCall EXCEPT ![m] = ended("error")]
  BY Zenon DEF Activates, NetReturns, RollsBack
<1>4. /\ rollback \in NetCalls /\ rollback.at = "rollback" /\ rollback.result = "none"
      /\ rollback.cfg = netCall[m].cfg /\ rollback.alone = netCall[m].alone
  BY <1>0 DEF NetCalls
<1>5. \A r \in {"ok", "error"} :
         /\ ended(r) \in NetCalls /\ ended(r).at = "idle" /\ ended(r).result = r
         /\ ended(r).cfg = netCall[m].cfg /\ ended(r).alone = netCall[m].alone
  BY Zenon, <1>0 DEF NetCalls
<1> HIDE DEF up, rollback, ended
<1>6. CASE live' = up /\ netCall' = [netCall EXCEPT ![m] = ended("ok")]
  BY Zenon, <1>0, <1>1, <1>2, <1>5, <1>6, OneManager
<1>7. CASE live' \in {live, up} /\ m = "dns" /\ netCall' = [netCall EXCEPT ![m] = rollback]
  BY Zenon, <1>0, <1>1, <1>2, <1>4, <1>7, OneManager
<1>8. CASE live' \in {live, up} /\ netCall' = [netCall EXCEPT ![m] = ended("error")]
  BY Zenon, <1>0, <1>1, <1>2, <1>5, <1>8, OneManager
<1> QED BY <1>3, <1>6, <1>7, <1>8

(* The rollback of the DNS manager.                                         *)
LEMMA RollbackStep == ASSUME NetInv, NEW m \in Managers, Rollback(m) PROVE NetInv'
<1> DEFINE cleared == [saved EXCEPT !["profile"] =
                          [f \in Fields |-> IF f \in DnsFields THEN Unset ELSE @[f]]]
           error == [netCall[m] EXCEPT !.at = "idle", !.result = "error"]
<1>0. /\ netCall[m] \in NetCalls /\ NetBusy(m)
      /\ saved \in [Stores -> Kept] /\ live \in [Stores -> Kept]
      /\ \A f \in Fields \ DnsFields : saved["dropin"][f] = Unset
  BY DEF Rollback, NetInv, NetTypeOK, NetCalls, NetCallInv, NetBusy
<1>1. UNCHANGED <<framework, netCalls, live>> /\ saved' \in {saved, cleared}
      /\ netCall' = [netCall EXCEPT ![m] = error]
  BY Zenon DEF Rollback, NetReturns
<1>2. cleared \in [Stores -> Kept] /\ cleared["dropin"] = saved["dropin"]
  BY <1>0 DEF Stores, Kept
<1>3. error \in NetCalls /\ error.at = "idle" /\ error.result = "error"
      /\ error.cfg = netCall[m].cfg /\ error.alone = netCall[m].alone
  BY Zenon, <1>0 DEF NetCalls
<1> HIDE DEF cleared, error
<1> QED BY Zenon, <1>0, <1>1, <1>2, <1>3, OneManager

(* A call begins, and the other manager is no longer alone.                 *)
LEMMA NetStartsStep ==
    ASSUME NetInv, NEW m \in Managers, NEW cfg \in Configs(m), NetStarts(m, cfg)
    PROVE  NetInv'
<1>0. cfg \in Settings /\ netCall \in [Managers -> NetCalls]
  BY DEF Configs, NetInv, NetTypeOK, NetCalls
<1>1. /\ netCall' \in [Managers -> NetCalls]
      /\ netCall'[m].at = "modify" /\ netCall'[m].cfg = cfg /\ netCall'[m].result = "none"
      /\ (\E k \in Managers : NetBusy(k)) => netCall'[m].alone = "no"
  BY <1>0 DEF NetStarts, NetCalls
<1>2. \A n \in Managers \ {m} : /\ netCall'[n].alone = "no" /\ netCall'[n].at = netCall[n].at
                                /\ netCall'[n].cfg = netCall[n].cfg /\ netCall'[n].result = netCall[n].result
  BY <1>0 DEF NetStarts, NetCalls
<1>3. UNCHANGED <<framework, saved, live>>
  BY DEF NetStarts
<1>4. netCalls' \in 0..MaxNetCalls
  BY DEF NetStarts, NetInv, NetTypeOK
<1>5. NetTypeOK'
  BY <1>1, <1>3, <1>4 DEF NetInv, NetTypeOK, NetCalls
<1>6. \A n \in Managers : Configs(n)' = Configs(n)
  BY DEF Configs
<1>7. NetCallInv'
  BY <1>1, <1>2, <1>3, <1>6 DEF NetInv, NetCallInv, NetBusy
<1>8. AppliedLive'
  BY <1>1, <1>2 DEF AppliedLive
<1> QED BY <1>5, <1>7, <1>8 DEF NetInv

(* A step of either manager.                                                *)
LEMMA NetStep == NetInv /\ [NetNext]_netVars => NetInv'
<1> SUFFICES ASSUME NetInv, UNCHANGED netVars PROVE NetInv'
  BY NetStartsStep, SavesStep, ActivatesStep, RollbackStep DEF NetNext
<1> USE DEF netVars, NetInv
<1>1. NetTypeOK'
  BY DEF NetTypeOK
<1>2. NetCallInv'
  BY Zenon DEF NetCallInv, NetBusy, StoreOf, Configs
<1>3. AppliedLive'
  BY DEF AppliedLive, StoreOf
<1> QED BY <1>1, <1>2, <1>3

(* Apply of dns and of netconfig, for any values: a call that no other      *)
(* overlapped and that returned nil has each of its settings saved and active. *)
THEOREM AppliedStaysLive ==
    ASSUME MaxNetCalls \in Nat
    PROVE  NetSpec => [](NetTypeOK /\ AppliedLive)
<1>1. NetInit => NetInv
  BY NetStart
<1>3. NetInv => NetTypeOK /\ AppliedLive
  BY DEF NetInv
<1> QED BY <1>1, <1>3, NetStep, PTL DEF NetSpec

(* On the profile that the two managers share, no step of the DNS manager, its *)
(* rollback included, changes addresses or gateway.                         *)
THEOREM DnsLeavesAddressing ==
    ASSUME MaxNetCalls \in Nat
    PROVE  NetSpec => DnsKeepsAddressing
<1>1. NetInit => NetInv
  BY NetStart
<1>3. ASSUME NetInv, NetNext, saved' # saved, netCall'["netconfig"] = netCall["netconfig"],
             NEW s \in Stores, NEW f \in {"addr", "gw"}
      PROVE  saved'[s][f] = saved[s][f]
  <2>0. f \in Fields \ DnsFields /\ netCall \in [Managers -> NetCalls]
    BY <1>3 DEF Fields, DnsFields, NetInv, NetTypeOK, NetCalls
  <2>1. PICK m \in Managers : Saves(m) \/ Rollback(m)
    BY <1>3 DEF NetNext, NetStarts, Activates
  <2>2. netCall'[m].at # netCall[m].at /\ NetBusy(m)
    BY <2>0, <2>1 DEF Saves, Rollback, NetReturns, NetCalls, NetBusy
  <2>3. m = "dns"
    BY <1>3, <2>2 DEF Managers
  <2>4. CASE Saves(m)
    <3>1. saved' = Asked(m)
      BY <1>3, <2>4 DEF Saves, Asked
    <3>2. m = "dns" => \A t \in Stores, g \in Fields \ DnsFields : Asked(m)[t][g] = saved[t][g]
      BY <1>3, <2>2, SavedAsAsked
    <3> QED BY <2>0, <2>3, <3>1, <3>2
  <2>5. CASE Rollback(m)
    BY <1>3, <2>0, <2>5 DEF Rollback, Stores, NetInv, NetTypeOK, Kept
  <2> QED BY <2>1, <2>4, <2>5
<1>4. NetInv /\ [NetNext]_netVars =>
        [saved' # saved /\ netCall'["netconfig"] = netCall["netconfig"] =>
          \A s \in Stores, f \in {"addr", "gw"} : saved'[s][f] = saved[s][f]]_netVars
  BY <1>3
<1> QED BY <1>1, <1>4, NetStep, PTL DEF NetSpec, DnsKeepsAddressing

-----------------------------------------------------------------------------
(* service                                                                  *)
Answer == [enabled : EnabledOut \cup {"none"}, active : ActiveOut \cup {"none"},
           stale : {"none", "no", "yes"}]

(* The open call has seen what is the case now, and each part of the answer so *)
(* far.                                                                     *)
QueryInv ==
    /\ query # "none" => Now \subseteq seen
    /\ query \in {"is-enabled", "need-reload"} => answer = NoAnswer
    /\ query = "is-active" => answer.active = "none" /\ answer.stale = "none"
    /\ answer.enabled # "none" /\ query # "none" => <<"enabled", answer.enabled>> \in seen
    /\ answer.active # "none" /\ query # "none" => <<"active", answer.active>> \in seen
    /\ answer.stale # "none" /\ query # "none" => <<"stale", answer.stale>> \in seen

UnitInv == MaxUnitSteps \in Nat /\ UnitTypeOK /\ answer \in Answer /\ QueryInv

(* No call is open.                                                         *)
LEMMA UnitStart == ASSUME MaxUnitSteps \in Nat, UnitInit PROVE UnitInv
<1>1. answer = NoAnswer /\ NoAnswer \in Answer
  BY DEF UnitInit, NoAnswer, Answer
<1>2. UnitTypeOK
  BY DEF UnitInit, UnitTypeOK, Contents, EnabledOut, ActiveOut
<1>3. QueryInv
  BY <1>1 DEF UnitInit, QueryInv, NoAnswer
<1> QED BY <1>1, <1>2, <1>3 DEF UnitInv

(* A change of the unit, by whomever, is seen by the call that is open.     *)
LEMMA ChangesStep ==
    ASSUME UnitInv, Changes, file' \in {Unwritten} \cup Contents, loaded' \in {Unwritten} \cup Contents,
           enabled' \in EnabledOut, active' \in ActiveOut
    PROVE  UnitInv'
<1>1. unitSteps' \in 0..MaxUnitSteps
  BY DEF UnitInv, UnitTypeOK, Changes
<1>2. UNCHANGED <<query, answer>>
  BY DEF Changes
<1>3. query # "none" => seen \subseteq seen' /\ Now' \subseteq seen'
  BY <1>2 DEF Changes, Now, Stale
<1>4. UnitTypeOK' /\ answer' \in Answer
  BY <1>1, <1>2 DEF UnitInv, UnitTypeOK
<1>5. QueryInv'
  BY <1>2, <1>3 DEF UnitInv, QueryInv, NoAnswer
<1> QED BY <1>4, <1>5 DEF UnitInv

(* A systemctl command, or systemd itself.                                  *)
LEMMA MutateStep ==
    ASSUME UnitInv, NEW e \in EnabledOut, NEW a \in ActiveOut, Mutate(e, a)
    PROVE  UnitInv'
BY ChangesStep DEF Mutate, UnitInv, UnitTypeOK

(* A part of an answer is the output of a command that has just run.        *)
LEMMA AnswersStep ==
    ASSUME UnitInv, query # "none",
           NEW q \in {"none", "is-active", "told"}, NEW a \in Answer, Answers(a, q),
           q = "is-active" => a.active = "none" /\ a.stale = "none",
           a.enabled \in {"none", answer.enabled, enabled},
           a.active \in {"none", answer.active, active},
           a.stale \in {"none", answer.stale, Stale}
    PROVE  UnitInv'
<1>1. UNCHANGED <<file, loaded, enabled, active, unitSteps>> /\ answer' = a /\ query' = q
  BY DEF Answers
<1>2. q # "none" => seen' = seen
  BY DEF Answers
<1>3. <<"enabled", enabled>> \in seen /\ <<"active", active>> \in seen /\ <<"stale", Stale>> \in seen
  BY DEF UnitInv, QueryInv, Now
<1>4. Now' = Now
  BY <1>1 DEF Now, Stale
<1>5. UnitTypeOK'
  BY <1>1 DEF UnitInv, UnitTypeOK
<1>6. QueryInv'
  BY <1>1, <1>2, <1>3, <1>4 DEF UnitInv, QueryInv
<1> QED BY <1>1, <1>5, <1>6 DEF UnitInv

(* One step per operation of service.                                       *)
LEMMA UnitStep == UnitInv /\ UnitNext => UnitInv'
<1> SUFFICES ASSUME UnitInv, UnitNext PROVE UnitInv'
  OBVIOUS
<1>0. /\ enabled \in EnabledOut /\ active \in ActiveOut /\ file \in {Unwritten} \cup Contents
      /\ loaded \in {Unwritten} \cup Contents /\ answer \in Answer /\ NoAnswer \in Answer
  BY DEF UnitInv, UnitTypeOK, NoAnswer, Answer
<1>a. /\ "enabled" \in EnabledOut /\ "disabled" \in EnabledOut /\ "masked" \in EnabledOut
      /\ "active" \in ActiveOut /\ "inactive" \in ActiveOut
  BY DEF EnabledOut, ActiveOut
<1>b. NoAnswer.enabled = "none" /\ NoAnswer.active = "none" /\ NoAnswer.stale = "none"
  BY DEF NoAnswer
<1>1. CASE Enable \/ Disable \/ EnableNow \/ DisableNow \/ Start \/ Stop \/ Mask \/ Unmask \/ Drifts
  BY <1>0, <1>1, <1>a, MutateStep DEF Enable, Disable, EnableNow, DisableNow, Start, Stop, Mask, Unmask, Drifts
<1>2. CASE DaemonReload \/ RemoveUnit \/ \E v \in Contents : WriteUnit(v)
  BY <1>0, <1>2, ChangesStep DEF DaemonReload, RemoveUnit, WriteUnit
<1>3. ASSUME NEW q \in {"is-enabled", "need-reload"}, Asks(q) PROVE UnitInv'
  <2>1. UnitTypeOK' /\ answer' \in Answer
    BY <1>0, <1>3 DEF UnitInv, UnitTypeOK, Asks
  <2>2. QueryInv'
    BY <1>3, <1>b DEF QueryInv, Asks, Now, Stale
  <2> QED BY <2>1, <2>2 DEF UnitInv
<1>c. ASSUME query # "none", Answers(NoAnswer, "none") PROVE UnitInv'
  BY <1>0, <1>b, <1>c, AnswersStep
<1>4. CASE StatusEnabled
  <2> DEFINE a == [answer EXCEPT !.enabled = enabled]
  <2>1. /\ query = "is-enabled" /\ answer = NoAnswer
        /\ Answers(a, "is-active") \/ Answers(NoAnswer, "none")
    BY <1>4 DEF StatusEnabled, UnitInv, QueryInv
  <2>2. a \in Answer /\ a.enabled = enabled /\ a.active = "none" /\ a.stale = "none"
    BY <1>0, <1>b, <2>1 DEF Answer
  <2> HIDE DEF a
  <2> QED BY <1>c, <2>1, <2>2, AnswersStep
<1>5. CASE StatusActive
  <2> DEFINE a == [answer EXCEPT !.active = active]
  <2>1. Answers(a, "told") \/ Answers(NoAnswer, "none")
    BY <1>5 DEF StatusActive
  <2>2. a \in Answer /\ a.enabled = answer.enabled /\ a.active = active /\ a.stale = answer.stale
    BY <1>0 DEF Answer
  <2>3. query = "is-active"
    BY <1>5 DEF StatusActive
  <2> HIDE DEF a
  <2> QED BY <1>c, <2>1, <2>2, <2>3, AnswersStep
<1>6. CASE NeedsReload
  <2> DEFINE a == [answer EXCEPT !.stale = Stale]
  <2>1. /\ query = "need-reload"
        /\ Answers(a, "told") \/ Answers(NoAnswer, "none")
    BY <1>6 DEF NeedsReload
  <2>2. a \in Answer /\ a.enabled = answer.enabled /\ a.active = answer.active /\ a.stale = Stale
    BY <1>0 DEF Answer, Stale
  <2> HIDE DEF a
  <2> QED BY <1>c, <2>1, <2>2, AnswersStep
<1>7. CASE Returns
  BY <1>0, <1>7, AnswersStep DEF Returns
<1> QED BY <1>1, <1>2, <1>3, <1>4, <1>5, <1>6, <1>7 DEF UnitNext

(* Status and NeedsReload answer with what systemd said, over every change  *)
(* during the call: each part of an answer was true at some moment of it.   *)
THEOREM UnitNeverGuessed ==
    ASSUME MaxUnitSteps \in Nat
    PROVE  UnitSpec => [](UnitTypeOK /\ NeverGuessed)
<1>1. UnitInit => UnitInv
  BY UnitStart
<1>2. UnitInv /\ [UnitNext]_unitVars => UnitInv'
  <2>1. UnitInv /\ UNCHANGED unitVars => UnitInv'
    BY DEF unitVars, UnitInv, UnitTypeOK, QueryInv, Now, Stale
  <2> QED BY <2>1, UnitStep
<1>3. UnitInv => UnitTypeOK /\ NeverGuessed
  <2> SUFFICES ASSUME UnitInv PROVE NeverGuessed
    BY DEF UnitInv
  <2>1. DOMAIN answer = {"enabled", "active", "stale"}
    BY DEF UnitInv, Answer
  <2> QED BY <2>1 DEF UnitInv, QueryInv, NeverGuessed
<1> QED BY <1>1, <1>2, <1>3, PTL DEF UnitSpec

-----------------------------------------------------------------------------
(* user.  The invariant says what a call that is under way has found and has *)
(* not handed over yet.                                                     *)

(* The steps of each call, and what a call is.                              *)
AcFits(op, at) ==
    \/ op = "none" /\ at = "idle"
    \/ op = "unlock" /\ at \in {"read", "write"}
    \/ op = "create" /\ at \in {"stat", "useradd", "chown"}
    \/ op = "ensure" /\ at \in {"look", "mkdir", "seed", "chown"}

AcRecords ==
    {r \in [op : {"none", "unlock", "create", "ensure"},
            at : {"idle", "read", "write", "stat", "useradd", "chown", "look", "mkdir", "seed"},
            saw : Passwords \cup {"none", "empty", "star", "yes", "no"}] :
         AcFits(r.op, r.at) /\ (r.at = "read" => r.saw = "none")}

(* What the shadow entry and the home may be.                               *)
ShadowEntries == [bang : {"yes", "no"}, word : Passwords \cup {"none", "empty", "star"}]
Homes == [there : {"yes", "no"}, skel : {"yes", "no"}, owner : {"none", "root", "user"},
          own : {"no", "yes", "lost"}]

AcTypes ==
    /\ MaxAcCalls \in Nat /\ Passwords \cap {"none", "empty", "star"} = {}
    /\ acCall \in [AcCallers -> AcRecords]
    /\ crossed \in {"yes", "no"} /\ cutShort \in {"yes", "no"} /\ acCalls \in 0 .. MaxAcCalls

(* Calls that make or remove a home do not overlap.                         *)
Solo ==
    crossed = "no" => \A c, d \in AcCallers :
        acCall[c].op \in {"create", "ensure"} /\ acCall[d].op \in {"create", "ensure"} => c = d

(* An open account has a password or "*"; the password of one that Unlock   *)
(* took for empty is not a hash.                                            *)
EntryInv ==
    /\ shadow \in ShadowEntries
    /\ shadow.bang = "no" => shadow.word # "empty"
    /\ crossed = "no" => \A c \in AcCallers :
          acCall[c].at = "write" /\ acCall[c].saw \in {"empty", "star"} => shadow.word \notin Passwords

(* EnsureHome makes a home where there is none, seeds one that nobody works *)
(* in yet, and one that nobody seeds has its skeleton or files of the user's. *)
HomeInv ==
    /\ home \in Homes /\ (home.there = "no" => home = NoHome)
    /\ crossed = "no" =>
         /\ \A c \in AcCallers : acCall[c].at = "mkdir" => home.there = "no"
         /\ \A c \in AcCallers : acCall[c].at = "seed" =>
              home.there = "yes" /\ home.owner = "root" /\ home.own = "no"
         /\ home.there = "yes" =>
              \/ home.skel = "yes" \/ home.own = "yes" \/ cutShort = "yes"
              \/ \E c \in AcCallers : acCall[c].at = "seed"

(* The inductive invariant.                                                 *)
AcInv == AcTypes /\ Solo /\ EntryInv /\ HomeInv /\ AccountReady

(* No call.                                                                 *)
LEMMA AcIdleRecord == AcIdle \in AcRecords /\ AcIdle.op = "none" /\ AcIdle.at = "idle"
BY DEF AcIdle, AcRecords, AcFits

(* No home.                                                                 *)
LEMMA NoHomeFields == NoHome \in Homes /\ NoHome.there = "no" /\ NoHome.owner = "none" /\ NoHome.own = "no"
BY DEF NoHome, Homes

(* A home that mkdir has just made.                                         *)
LEMMA FreshFields ==
    /\ Fresh \in Homes /\ Fresh.there = "yes" /\ Fresh.owner = "root" /\ Fresh.own = "no"
BY DEF Fresh, Homes

(* The initial states.                                                      *)
LEMMA AcInitInv ==
    ASSUME MaxAcCalls \in Nat, Passwords \cap {"none", "empty", "star"} = {}, AcInit
    PROVE  AcInv
<1>1. AcTypes /\ Solo
  BY AcIdleRecord DEF AcInit, AcTypes, Solo
<1>2. EntryInv
  BY AcIdleRecord DEF AcInit, EntryInv, ShadowEntries, NoEntry
<1>3. home \in Homes /\ (home = NoHome \/ (home.there = "yes" /\ home.own = "yes"))
  BY DEF AcInit, Fresh, Homes, NoHome
<1>4. HomeInv
  BY <1>3, AcIdleRecord, NoHomeFields DEF AcInit, HomeInv
<1>5. AccountReady
  BY DEF AcInit, AccountReady
<1> QED
  BY <1>1, <1>2, <1>4, <1>5 DEF AcInv

-----------------------------------------------------------------------------
(* One caller's call moves on or ends.                                      *)
LEMMA MovesCall ==
    ASSUME AcInv, NEW c \in AcCallers, NEW r \in AcRecords, acCall' = [acCall EXCEPT ![c] = r],
           r.op \in {"none", acCall[c].op}, UNCHANGED <<crossed, acCalls>>, cutShort' \in {"yes", "no"}
    PROVE  /\ AcTypes' /\ Solo' /\ acCall'[c] = r
           /\ \A d \in AcCallers : d # c => acCall'[d] = acCall[d]
<1>1. /\ acCall' \in [AcCallers -> AcRecords] /\ acCall'[c] = r
      /\ \A d \in AcCallers : d # c => acCall'[d] = acCall[d]
  BY DEF AcInv, AcTypes
<1>2. AcTypes'
  BY <1>1 DEF AcInv, AcTypes
<1>3. Solo'
  BY <1>1 DEF AcInv, Solo
<1> QED
  BY <1>1, <1>2, <1>3

(* A call ends.                                                             *)
LEMMA EndsCall ==
    ASSUME AcInv, NEW c \in AcCallers, NEW r \in {"ok", "failed"}, AcEnds(c, r),
           UNCHANGED <<crossed, acCalls>>, cutShort' \in {"yes", "no"}
    PROVE  /\ AcTypes' /\ Solo' /\ acCall'[c] = AcIdle
           /\ \A d \in AcCallers : d # c => acCall'[d] = acCall[d]
           /\ done' = IF r = "ok" THEN acCall[c].op ELSE "none"
BY Zenon, AcIdleRecord, MovesCall DEF AcEnds

(* A call goes on to another step.                                          *)
LEMMA GoesCall ==
    ASSUME AcInv, NEW c \in AcCallers, NEW at, AcFits(acCall[c].op, at), at # "read", AcGoes(c, at),
           UNCHANGED <<crossed, acCalls>>, cutShort' \in {"yes", "no"}
    PROVE  /\ AcTypes' /\ Solo' /\ acCall'[c].at = at
           /\ acCall'[c].saw = acCall[c].saw /\ acCall'[c].op = acCall[c].op
           /\ \A d \in AcCallers : d # c => acCall'[d] = acCall[d]
           /\ done' = "none"
<1> DEFINE r == [acCall[c] EXCEPT !.at = at]
<1>1. acCall[c] \in AcRecords
  BY DEF AcInv, AcTypes
<1>2. /\ r \in AcRecords /\ r.op = acCall[c].op /\ r.at = at /\ r.saw = acCall[c].saw
      /\ acCall' = [acCall EXCEPT ![c] = r] /\ done' = "none"
  BY <1>1 DEF AcRecords, AcFits, AcGoes
<1> HIDE DEF r
<1> QED
  BY Zenon, <1>2, MovesCall

(* The step a call is at says which call it is.                             *)
LEMMA CallKind ==
    ASSUME AcInv, NEW c \in AcCallers
    PROVE  /\ acCall[c] \in AcRecords
           /\ acCall[c].at \in {"read", "write"} => acCall[c].op = "unlock"
           /\ acCall[c].at \in {"stat", "useradd"} => acCall[c].op = "create"
           /\ acCall[c].at \in {"look", "mkdir", "seed"} => acCall[c].op = "ensure"
           /\ acCall[c].at = "chown" => acCall[c].op \in {"create", "ensure"}
<1>1. acCall[c] \in AcRecords
  BY DEF AcInv, AcTypes
<1> QED
  BY <1>1 DEF AcRecords, AcFits

(* Whoever makes a home is alone in doing so.                               *)
LEMMA AloneCall ==
    ASSUME AcInv, crossed = "no", NEW c \in AcCallers, acCall[c].op \in {"create", "ensure"},
           NEW d \in AcCallers, d # c
    PROVE  acCall[d].at \notin {"mkdir", "seed"}
BY CallKind DEF AcInv, Solo

(* The parts of the invariant a step leaves alone.                          *)
LEMMA EntryKept ==
    ASSUME AcInv, UNCHANGED <<shadow, crossed>>,
           \A d \in AcCallers : acCall'[d].at = "write" => acCall'[d] = acCall[d]
    PROVE  EntryInv'
BY DEF AcInv, EntryInv

(* A step that leaves the home as it is, and seeds none.                    *)
LEMMA HomeKept ==
    ASSUME AcInv, UNCHANGED <<home, crossed>>, cutShort' \in {cutShort, "yes"},
           \A d \in AcCallers : acCall'[d].at \in {"mkdir", "seed"} => acCall'[d].at = acCall[d].at,
           \A d \in AcCallers : acCall[d].at = "seed" => acCall'[d].at = "seed" \/ cutShort' = "yes"
    PROVE  HomeInv'
BY DEF AcInv, HomeInv

(* Nothing is promised of a call that did not succeed.                      *)
LEMMA NothingDone == done' = "none" => AccountReady'
BY DEF AccountReady

-----------------------------------------------------------------------------
(* A call of several commands starts.                                       *)
LEMMA AcStartsStep ==
    ASSUME AcInv, NEW c \in AcCallers, NEW op, NEW at,
           <<op, at>> \in {<<"create", "stat">>, <<"ensure", "look">>, <<"unlock", "read">>},
           AcStarts(c, op, at)
    PROVE  AcInv'
<1> DEFINE r == [op |-> op, at |-> at, saw |-> "none"]
<1>1. /\ r \in AcRecords /\ r.op = op /\ r.at = at /\ at \in {"stat", "look", "read"}
      /\ op \in {"create", "ensure", "unlock"}
  BY DEF AcRecords, AcFits
<1>2. /\ acCall[c] = AcIdle /\ acCall' = [acCall EXCEPT ![c] = r] /\ acCalls' = acCalls + 1
      /\ acCalls < MaxAcCalls /\ done' = "none" /\ UNCHANGED <<shadow, home, cutShort>>
      /\ crossed' = IF op # "unlock" /\ InFlight({"create", "ensure"}) THEN "yes" ELSE crossed
  BY DEF AcStarts
<1> HIDE DEF r
<1>3. /\ acCall' \in [AcCallers -> AcRecords] /\ acCall'[c] = r
      /\ \A d \in AcCallers : d # c => acCall'[d] = acCall[d]
  BY <1>1, <1>2 DEF AcInv, AcTypes
<1>4. AcTypes'
  BY <1>2, <1>3 DEF AcInv, AcTypes
<1>5. Solo'
  BY <1>1, <1>2, <1>3 DEF AcInv, Solo, InFlight
<1>6. \A d \in AcCallers : /\ acCall'[d].at \in {"write", "mkdir", "seed"} => acCall'[d] = acCall[d]
                           /\ acCall[d].at = "seed" => acCall'[d] = acCall[d]
  BY <1>1, <1>2, <1>3, AcIdleRecord
<1>7. crossed' = "no" => crossed = "no"
  BY <1>2
<1>8. EntryInv'
  BY <1>2, <1>6, <1>7 DEF AcInv, EntryInv
<1>9. HomeInv'
  BY <1>2, <1>6, <1>7 DEF AcInv, HomeInv
<1> QED
  BY <1>2, <1>4, <1>5, <1>8, <1>9, NothingDone DEF AcInv

(* A call of one command, given what its effect does to entry and home.     *)
LEMMA CommandStep ==
    ASSUME AcInv, NEW c \in AcCallers, NEW op \in {"delete", "lock", "setPassword"}, NEW possible, NEW e, NEW h,
           NEW crosses, AcCommand(c, op, possible, e, h, crosses),
           possible => e \in ShadowEntries /\ (e.bang = "no" => e.word # "empty"),
           possible /\ ~crosses /\ e.word # shadow.word =>
              \A d \in AcCallers : acCall[d].op # "unlock",
           h = home \/ (h = NoHome /\ (~crosses => \A d \in AcCallers : acCall[d].op # "ensure")),
           op = "lock" => e.bang = "yes"
    PROVE  AcInv'
<1>1. /\ acCalls < MaxAcCalls /\ acCalls' = acCalls + 1 /\ UNCHANGED <<acCall, cutShort>>
      /\ crossed' = IF crosses THEN "yes" ELSE crossed
      /\ \/ possible /\ shadow' = e /\ home' = h /\ done' \in {op, "none"}
         \/ done' = "none" /\ UNCHANGED <<shadow, home>>
  BY DEF AcCommand
<1>2. AcTypes' /\ Solo'
  BY <1>1 DEF AcInv, AcTypes, Solo
<1>3. crossed' = "no" => crossed = "no" /\ ~crosses
  BY Zenon, <1>1
<1>4. EntryInv'
  BY Zenon, <1>1, <1>3, CallKind DEF AcInv, EntryInv
<1>5. HomeInv'
  BY <1>1, <1>3, CallKind, NoHomeFields DEF AcInv, HomeInv
<1>6. AccountReady'
  BY <1>1 DEF AccountReady
<1> QED
  BY <1>2, <1>4, <1>5, <1>6 DEF AcInv

(* Delete, Lock and SetPassword.                                            *)
LEMMA CommandsStep ==
    ASSUME AcInv, NEW c \in AcCallers,
           \/ \E r \in {"yes", "no"} : DeleteUser(c, r)
           \/ Lock(c)
           \/ \E p \in Passwords : SetPassword(c, p)
    PROVE  AcInv'
<1>1. ASSUME NEW r \in {"yes", "no"}, DeleteUser(c, r) PROVE AcInv'
  <2> DEFINE h == IF r = "yes" THEN NoHome ELSE home
             x == InFlight({"create", "ensure", "unlock"})
  <2>1. AcCommand(c, "delete", Account, NoEntry, h, x)
    BY <1>1 DEF DeleteUser
  <2>2. NoEntry \in ShadowEntries /\ NoEntry.word # "empty"
    BY DEF NoEntry, ShadowEntries
  <2>3. /\ h \in {home, NoHome}
        /\ ~x => \A d \in AcCallers : acCall[d].op \notin {"ensure", "unlock"}
    BY DEF InFlight
  <2> HIDE DEF h, x
  <2> QED
    BY <2>1, <2>2, <2>3, CommandStep
<1>2. CASE Lock(c)
  <2> DEFINE e == [shadow EXCEPT !.bang = "yes"]
  <2>1. AcCommand(c, "lock", Account, e, home, FALSE)
    BY Zenon, <1>2 DEF Lock
  <2>2. e \in ShadowEntries /\ e.bang = "yes" /\ e.word = shadow.word
    BY DEF AcInv, EntryInv, ShadowEntries
  <2> HIDE DEF e
  <2> QED
    BY Zenon, <2>1, <2>2, CommandStep
<1>3. ASSUME NEW p \in Passwords, SetPassword(c, p) PROVE AcInv'
  <2> DEFINE e == [bang |-> "no", word |-> p]
             x == InFlight({"unlock"})
  <2>1. AcCommand(c, "setPassword", Account, e, home, x)
    BY <1>3 DEF SetPassword
  <2>2. e \in ShadowEntries /\ e.bang = "no" /\ e.word # "empty"
    BY DEF ShadowEntries, AcInv, AcTypes
  <2>3. ~x => \A d \in AcCallers : acCall[d].op # "unlock"
    BY DEF InFlight
  <2> HIDE DEF e, x
  <2> QED
    BY <2>1, <2>2, <2>3, CommandStep
<1> QED
  BY <1>1, <1>2, <1>3

-----------------------------------------------------------------------------
(* Unlock reads the entry.                                                  *)
LEMMA UnlockReadsStep == ASSUME AcInv, NEW c \in AcCallers, UnlockReads(c) PROVE AcInv'
<1>1. /\ acCall[c].at = "read" /\ acCall[c].op = "unlock" /\ acCall[c] \in AcRecords
      /\ UNCHANGED <<shadow, home, crossed, cutShort, acCalls>> /\ cutShort' \in {"yes", "no"}
  BY CallKind DEF UnlockReads, AcInv, AcTypes
<1>2. CASE /\ acCall' = [acCall EXCEPT ![c].at = "write", ![c].saw = shadow.word] /\ done' = "none"
  <2> DEFINE r == [acCall[c] EXCEPT !.at = "write", !.saw = shadow.word]
  <2>1. /\ r \in AcRecords /\ r.op = "unlock" /\ r.at = "write" /\ r.saw = shadow.word
        /\ acCall' = [acCall EXCEPT ![c] = r]
    BY Zenon, <1>1, <1>2 DEF AcRecords, AcFits, AcInv, EntryInv, ShadowEntries
  <2> HIDE DEF r
  <2>2. /\ AcTypes' /\ Solo' /\ acCall'[c] = r
        /\ \A d \in AcCallers : d # c => acCall'[d] = acCall[d]
    BY Zenon, <1>1, <2>1, MovesCall
  <2>3. EntryInv'
    BY <1>1, <2>1, <2>2 DEF AcInv, AcTypes, EntryInv
  <2>4. HomeInv'
    BY <1>1, <2>1, <2>2, HomeKept
  <2> QED
    BY <1>2, <2>2, <2>3, <2>4, NothingDone DEF AcInv
<1>3. CASE AcGoes(c, "write")
  <2>1. /\ AcTypes' /\ Solo' /\ acCall'[c].at = "write" /\ acCall'[c].saw = acCall[c].saw /\ done' = "none"
        /\ \A d \in AcCallers : d # c => acCall'[d] = acCall[d]
    BY <1>1, <1>3, GoesCall DEF AcFits
  <2>2. acCall[c].saw = "none"
    BY <1>1 DEF AcRecords
  <2>3. EntryInv'
    BY <1>1, <2>1, <2>2 DEF AcInv, EntryInv
  <2>4. HomeInv'
    BY Zenon, <1>1, <2>1, HomeKept
  <2> QED
    BY <2>1, <2>3, <2>4, NothingDone DEF AcInv
<1>4. CASE Account /\ shadow.bang = "no" /\ AcEnds(c, "ok")
  <2>1. /\ AcTypes' /\ Solo' /\ acCall'[c] = AcIdle /\ done' = "unlock"
        /\ \A d \in AcCallers : d # c => acCall'[d] = acCall[d]
    BY <1>1, <1>4, EndsCall
  <2>2. EntryInv' /\ HomeInv'
    BY <1>1, <2>1, AcIdleRecord, EntryKept, HomeKept
  <2>3. AccountReady'
    BY <1>1, <1>4, <2>1, <2>2 DEF AccountReady, EntryInv
  <2> QED
    BY <2>1, <2>2, <2>3 DEF AcInv
<1> QED
  BY <1>2, <1>3, <1>4 DEF UnlockReads

(* Unlock writes it, with the command it picked from what it had read.      *)
LEMMA UnlockWritesStep == ASSUME AcInv, NEW c \in AcCallers, UnlockWrites(c) PROVE AcInv'
<1>1. /\ acCall[c].at = "write" /\ acCall[c].op = "unlock"
      /\ UNCHANGED <<home, crossed, cutShort, acCalls>> /\ cutShort' \in {"yes", "no"}
  BY CallKind DEF UnlockWrites, AcInv, AcTypes
<1>2. PICK r \in {"ok", "failed"} : AcEnds(c, r) /\ (r = "ok" => shadow' = Unlocked(acCall[c].saw))
  BY DEF UnlockWrites
<1>3. /\ AcTypes' /\ Solo' /\ acCall'[c] = AcIdle /\ done' = IF r = "ok" THEN "unlock" ELSE "none"
      /\ \A d \in AcCallers : d # c => acCall'[d] = acCall[d]
  BY <1>1, <1>2, EndsCall
<1>4. HomeInv'
  BY <1>1, <1>3, AcIdleRecord, HomeKept
<1>5. CASE UNCHANGED shadow /\ r = "failed"
  BY <1>1, <1>3, <1>4, <1>5, AcIdleRecord, EntryKept, NothingDone DEF AcInv
<1>6. CASE shadow' = Unlocked(acCall[c].saw) /\ Unlocked(acCall[c].saw).word # "empty"
  <2>1. /\ shadow' \in ShadowEntries /\ shadow'.bang = "no" /\ shadow'.word # "empty"
        /\ shadow'.word \in {shadow.word, "star"}
    BY <1>6 DEF Unlocked, AcInv, EntryInv, ShadowEntries
  <2>2. EntryInv'
    BY <1>1, <1>3, <2>1, AcIdleRecord DEF AcInv, AcTypes, EntryInv
  <2>3. AccountReady'
    BY <1>3, <2>1 DEF AccountReady
  <2> QED
    BY <1>3, <1>4, <2>2, <2>3 DEF AcInv
<1>7. \/ UNCHANGED shadow /\ r = "failed"
      \/ shadow' = Unlocked(acCall[c].saw) /\ Unlocked(acCall[c].saw).word # "empty"
  BY Zenon, <1>1, <1>2, <1>3 DEF UnlockWrites, AcEnds
<1> QED
  BY <1>5, <1>6, <1>7

(* Create looks for a home.                                                 *)
LEMMA CreateLooksStep == ASSUME AcInv, NEW c \in AcCallers, CreateLooks(c) PROVE AcInv'
<1> DEFINE r == [acCall[c] EXCEPT !.at = "useradd", !.saw = home.there]
<1>1. /\ acCall[c].at = "stat" /\ acCall[c].op = "create" /\ acCall[c] \in AcRecords
      /\ home.there \in {"yes", "no"} /\ cutShort' \in {"yes", "no"}
      /\ UNCHANGED <<shadow, home, done, crossed, cutShort, acCalls>>
  BY CallKind DEF CreateLooks, AcInv, AcTypes, HomeInv, Homes
<1>2. r \in AcRecords /\ r.op = "create" /\ r.at = "useradd" /\ acCall' = [acCall EXCEPT ![c] = r]
  BY Zenon, <1>1 DEF AcRecords, AcFits, CreateLooks
<1> HIDE DEF r
<1>3. /\ AcTypes' /\ Solo' /\ acCall'[c] = r
      /\ \A d \in AcCallers : d # c => acCall'[d] = acCall[d]
  BY Zenon, <1>1, <1>2, MovesCall
<1>4. EntryInv' /\ HomeInv'
  BY <1>1, <1>2, <1>3, EntryKept, HomeKept
<1>5. AccountReady'
  BY <1>1 DEF AcInv, AccountReady
<1> QED
  BY <1>3, <1>4, <1>5 DEF AcInv

(* Create adds the account.                                                 *)
LEMMA UseraddStep == ASSUME AcInv, NEW c \in AcCallers, Useradd(c) PROVE AcInv'
<1>1. /\ acCall[c].at = "useradd" /\ acCall[c].op = "create"
      /\ UNCHANGED <<crossed, cutShort, acCalls>> /\ cutShort' \in {"yes", "no"}
  BY Zenon, CallKind DEF Useradd, AcInv, AcTypes
<1>2. CASE AcEnds(c, "failed") /\ UNCHANGED <<shadow, home>>
  BY <1>1, <1>2, EndsCall, AcIdleRecord, EntryKept, HomeKept, NothingDone DEF AcInv
<1>3. ASSUME shadow' = [bang |-> "yes", word |-> "empty"],
             \A d \in AcCallers : acCall'[d].at = "write" => acCall'[d] = acCall[d]
      PROVE  EntryInv'
  BY Zenon, <1>1, <1>3 DEF AcInv, AcTypes, EntryInv, ShadowEntries
<1>4. CASE AcGoes(c, "chown") /\ UNCHANGED home /\ shadow' = [bang |-> "yes", word |-> "empty"]
  <2>1. /\ AcTypes' /\ Solo' /\ acCall'[c].at = "chown" /\ done' = "none"
        /\ \A d \in AcCallers : d # c => acCall'[d] = acCall[d]
    BY <1>1, <1>4, GoesCall DEF AcFits
  <2> QED
    BY <1>1, <1>3, <1>4, <2>1, HomeKept, NothingDone DEF AcInv
<1>5. CASE AcEnds(c, "failed") /\ UNCHANGED home /\ shadow' = [bang |-> "yes", word |-> "empty"]
  <2>1. /\ AcTypes' /\ Solo' /\ acCall'[c] = AcIdle /\ done' = "none"
        /\ \A d \in AcCallers : d # c => acCall'[d] = acCall[d]
    BY Zenon, <1>1, <1>5, EndsCall
  <2> QED
    BY Zenon, <1>1, <1>3, <1>5, <2>1, AcIdleRecord, HomeKept, NothingDone DEF AcInv
<1>6. ASSUME NEW r \in {"ok", "failed"}, AcEnds(c, r), home' = [Fresh EXCEPT !.skel = "yes", !.owner = "user"],
             shadow' = [bang |-> "yes", word |-> "empty"]
      PROVE  AcInv'
  <2>1. /\ AcTypes' /\ Solo' /\ acCall'[c] = AcIdle /\ done' \in {"create", "none"}
        /\ \A d \in AcCallers : d # c => acCall'[d] = acCall[d]
    BY <1>1, <1>6, EndsCall
  <2>2. /\ home' \in Homes /\ home'.there = "yes" /\ home'.owner = "user" /\ home'.skel = "yes"
    BY Zenon, <1>6 DEF Fresh, Homes
  <2>3. EntryInv'
    BY Zenon, <1>3, <1>6, <2>1, AcIdleRecord
  <2>4. crossed = "no" => \A d \in AcCallers : acCall'[d].at \notin {"mkdir", "seed"}
    BY <1>1, <2>1, AloneCall, AcIdleRecord
  <2>5. HomeInv'
    BY <1>1, <2>2, <2>4 DEF HomeInv
  <2>6. AccountReady'
    BY Zenon, <2>1, <2>2 DEF AccountReady
  <2> QED
    BY <2>1, <2>3, <2>5, <2>6 DEF AcInv
<1> QED
  BY <1>2, <1>4, <1>5, <1>6 DEF Useradd

(* EnsureHome looks for a home.                                             *)
LEMMA EnsureLooksStep == ASSUME AcInv, NEW c \in AcCallers, EnsureLooks(c) PROVE AcInv'
<1>1. /\ acCall[c].at = "look" /\ acCall[c].op = "ensure"
      /\ UNCHANGED <<shadow, home, crossed, cutShort, acCalls>> /\ cutShort' \in {"yes", "no"}
      /\ home.there \in {"yes", "no"}
  BY Zenon, CallKind DEF EnsureLooks, AcInv, AcTypes, HomeInv, Homes
<1>2. CASE AcEnds(c, "failed")
  BY Zenon, <1>1, <1>2, EndsCall, AcIdleRecord, EntryKept, HomeKept, NothingDone DEF AcInv
<1>3. CASE home.there = "yes" /\ AcGoes(c, "chown")
  <2>1. /\ AcTypes' /\ Solo' /\ acCall'[c].at = "chown" /\ done' = "none"
        /\ \A d \in AcCallers : d # c => acCall'[d] = acCall[d]
    BY Zenon, <1>1, <1>3, GoesCall DEF AcFits
  <2> QED
    BY Zenon, <1>1, <2>1, EntryKept, HomeKept, NothingDone DEF AcInv
<1>4. CASE home.there = "no" /\ AcGoes(c, "mkdir")
  <2>1. /\ AcTypes' /\ Solo' /\ acCall'[c].at = "mkdir" /\ done' = "none"
        /\ \A d \in AcCallers : d # c => acCall'[d] = acCall[d]
    BY Zenon, <1>1, <1>4, GoesCall DEF AcFits
  <2>2. HomeInv'
    BY Zenon, <1>1, <1>4, <2>1 DEF AcInv, HomeInv
  <2> QED
    BY Zenon, <1>1, <2>1, <2>2, EntryKept, NothingDone DEF AcInv
<1> QED
  BY <1>1, <1>2, <1>3, <1>4 DEF EnsureLooks

(* EnsureHome makes one, to be seeded before anyone works in it.            *)
LEMMA EnsureMkdirStep == ASSUME AcInv, NEW c \in AcCallers, EnsureMkdir(c) PROVE AcInv'
<1>1. /\ acCall[c].at = "mkdir" /\ acCall[c].op = "ensure" /\ UNCHANGED <<shadow, crossed, acCalls>>
      /\ crossed = "no" => home.there = "no"
      /\ cutShort \in {"yes", "no"}
  BY Zenon, CallKind DEF EnsureMkdir, AcInv, AcTypes, HomeInv
<1>2. CASE AcEnds(c, "failed") /\ UNCHANGED <<home, cutShort>>
  BY Zenon, <1>1, <1>2, EndsCall, AcIdleRecord, EntryKept, HomeKept, NothingDone DEF AcInv
<1>3. ASSUME home' = IF home.there = "yes" THEN home ELSE Fresh
      PROVE  /\ home' \in Homes /\ home'.there = "yes"
             /\ crossed = "no" => home' = Fresh
  BY Zenon, <1>1, <1>3, FreshFields DEF AcInv, HomeInv
<1>4. CASE /\ home' = IF home.there = "yes" THEN home ELSE Fresh
           /\ AcGoes(c, "seed") /\ UNCHANGED cutShort
  <2>1. /\ AcTypes' /\ Solo' /\ acCall'[c].at = "seed" /\ done' = "none"
        /\ \A d \in AcCallers : d # c => acCall'[d] = acCall[d]
    BY <1>1, <1>4, GoesCall DEF AcFits
  <2>2. EntryInv'
    BY <1>1, <2>1, EntryKept
  <2>3. crossed = "no" => \A d \in AcCallers : acCall'[d].at # "mkdir"
    BY Zenon, <1>1, <2>1, AloneCall
  <2>4. HomeInv'
    BY Zenon, <1>1, <1>3, <1>4, <2>1, <2>3, FreshFields DEF HomeInv
  <2> QED
    BY <2>1, <2>2, <2>4, NothingDone DEF AcInv
<1>5. CASE /\ home' = IF home.there = "yes" THEN home ELSE Fresh
           /\ AcEnds(c, "failed") /\ cutShort' = "yes"
  <2>1. /\ AcTypes' /\ Solo' /\ acCall'[c] = AcIdle /\ done' = "none"
        /\ \A d \in AcCallers : d # c => acCall'[d] = acCall[d]
    BY <1>1, <1>5, EndsCall
  <2>2. EntryInv'
    BY <1>1, <2>1, EntryKept, AcIdleRecord
  <2>3. crossed = "no" => \A d \in AcCallers : acCall'[d].at \notin {"mkdir", "seed"}
    BY <1>1, <2>1, AloneCall, AcIdleRecord
  <2>4. HomeInv'
    BY <1>1, <1>3, <1>5, <2>3 DEF HomeInv
  <2> QED
    BY <2>1, <2>2, <2>4, NothingDone DEF AcInv
<1> QED
  BY <1>2, <1>4, <1>5 DEF EnsureMkdir

(* EnsureHome seeds it.                                                     *)
LEMMA EnsureSeedsStep == ASSUME AcInv, NEW c \in AcCallers, EnsureSeeds(c) PROVE AcInv'
<1>1. /\ acCall[c].at = "seed" /\ acCall[c].op = "ensure" /\ UNCHANGED <<shadow, crossed, acCalls>>
      /\ cutShort \in {"yes", "no"} /\ home \in Homes
  BY Zenon, CallKind DEF EnsureSeeds, AcInv, AcTypes, HomeInv
<1>2. CASE AcEnds(c, "failed") /\ cutShort' = "yes" /\ UNCHANGED home
  <2>1. /\ AcTypes' /\ Solo' /\ acCall'[c] = AcIdle /\ done' = "none"
        /\ \A d \in AcCallers : d # c => acCall'[d] = acCall[d]
    BY <1>1, <1>2, EndsCall
  <2> QED
    BY Zenon, <1>1, <1>2, <2>1, AcIdleRecord, EntryKept, HomeKept, NothingDone DEF AcInv
<1>3. CASE home.there = "yes" /\ home' = Seeded(home) /\ AcGoes(c, "chown") /\ UNCHANGED cutShort
  <2>1. /\ AcTypes' /\ Solo' /\ acCall'[c].at = "chown" /\ done' = "none"
        /\ \A d \in AcCallers : d # c => acCall'[d] = acCall[d]
    BY Zenon, <1>1, <1>3, GoesCall DEF AcFits
  <2>2. EntryInv'
    BY <1>1, <2>1, EntryKept
  <2>3. crossed = "no" => \A d \in AcCallers : acCall'[d].at \notin {"mkdir", "seed"}
    BY <1>1, <2>1, AloneCall
  <2>4. home' \in Homes /\ home'.there = "yes" /\ home'.skel = "yes"
    BY Zenon, <1>1, <1>3 DEF Seeded, Homes
  <2>5. HomeInv'
    BY <1>1, <2>3, <2>4 DEF HomeInv
  <2> QED
    BY Zenon, <2>1, <2>2, <2>5, NothingDone DEF AcInv
<1> QED
  BY <1>2, <1>3 DEF EnsureSeeds

(* Create and EnsureHome hand the home to the user.                         *)
LEMMA ChownStep == ASSUME AcInv, NEW c \in AcCallers, ChownHome(c) PROVE AcInv'
<1>1. /\ acCall[c].at = "chown" /\ acCall[c].op \in {"create", "ensure"}
      /\ UNCHANGED <<shadow, crossed, cutShort, acCalls>> /\ cutShort' \in {"yes", "no"}
      /\ home \in Homes
  BY CallKind DEF ChownHome, AcInv, AcTypes, HomeInv
<1>2. CASE AcEnds(c, "failed") /\ UNCHANGED home
  BY <1>1, <1>2, EndsCall, AcIdleRecord, EntryKept, HomeKept, NothingDone DEF AcInv
<1>3. ASSUME NEW r \in {"ok", "failed"}, home.there = "yes", home' = [home EXCEPT !.owner = "user"],
             AcEnds(c, r)
      PROVE  AcInv'
  <2>1. /\ AcTypes' /\ Solo' /\ acCall'[c] = AcIdle /\ done' \in {"create", "ensure", "none"}
        /\ \A d \in AcCallers : d # c => acCall'[d] = acCall[d]
    BY Zenon, <1>1, <1>3, EndsCall
  <2>2. EntryInv'
    BY Zenon, <1>1, <2>1, AcIdleRecord, EntryKept
  <2>3. crossed = "no" => \A d \in AcCallers : acCall'[d].at \notin {"mkdir", "seed"}
    BY <1>1, <2>1, AloneCall, AcIdleRecord
  <2>4. /\ home' \in Homes /\ home'.there = "yes" /\ home'.owner = "user"
        /\ home'.skel = home.skel /\ home'.own = home.own
    BY <1>1, <1>3 DEF Homes
  <2>5. crossed = "no" => home.skel = "yes" \/ home.own = "yes" \/ cutShort = "yes"
    BY <1>1, <1>3, AloneCall DEF AcInv, HomeInv
  <2>6. HomeInv'
    BY <1>1, <2>3, <2>4, <2>5 DEF HomeInv
  <2>7. AccountReady'
    BY <1>1, <2>1, <2>4, <2>5 DEF AccountReady
  <2> QED
    BY <2>1, <2>2, <2>6, <2>7 DEF AcInv
<1> QED
  BY <1>2, <1>3 DEF ChownHome

(* The user works in a home of theirs, which is not one to be seeded.       *)
LEMMA UserWorksStep == ASSUME AcInv, UserWorks PROVE AcInv'
<1>1. /\ home.owner = "user" /\ home' = [home EXCEPT !.own = "yes"] /\ home \in Homes
      /\ UNCHANGED <<shadow, acCall, done, crossed, cutShort, acCalls>>
  BY DEF UserWorks, AcInv, HomeInv
<1>2. /\ home' \in Homes /\ home'.own = "yes" /\ home'.there = home.there
      /\ home'.owner = home.owner /\ home'.skel = home.skel
  BY <1>1 DEF Homes
<1>3. home.there = "yes"
  BY <1>1, NoHomeFields DEF AcInv, HomeInv, Homes
<1>4. AcTypes' /\ Solo' /\ EntryInv'
  BY <1>1 DEF AcInv, AcTypes, Solo, EntryInv
<1>5. HomeInv'
  BY <1>1, <1>2, <1>3 DEF AcInv, HomeInv
<1>6. AccountReady'
  BY <1>1, <1>2 DEF AcInv, AccountReady
<1> QED
  BY <1>4, <1>5, <1>6 DEF AcInv

(* The agent is killed.                                                     *)
LEMMA AcKilledStep == ASSUME AcInv, AcKilled PROVE AcInv'
<1>1. /\ acCall' = [c \in AcCallers |-> AcIdle] /\ done' = "none"
      /\ cutShort' = IF \E c \in AcCallers : acCall[c].at = "seed" THEN "yes" ELSE cutShort
      /\ UNCHANGED <<shadow, home, crossed, acCalls>>
  BY DEF AcKilled
<1>2. \A c \in AcCallers : acCall'[c] = AcIdle
  BY <1>1
<1>3. AcTypes' /\ Solo'
  BY <1>1, <1>2, AcIdleRecord DEF AcInv, AcTypes, Solo
<1>4. EntryInv' /\ HomeInv'
  BY Zenon, <1>1, <1>2, AcIdleRecord, EntryKept, HomeKept
<1> QED
  BY <1>1, <1>3, <1>4, NothingDone DEF AcInv

(* A step of something else.                                                *)
LEMMA AcStutter == AcInv /\ UNCHANGED acVars => AcInv'
BY DEF AcInv, AcTypes, Solo, EntryInv, HomeInv, AccountReady, acVars

(* Every step keeps the invariant.                                          *)
LEMMA AcStep == AcInv /\ [AcNext]_acVars => AcInv'
<1> SUFFICES ASSUME AcInv, [AcNext]_acVars PROVE AcInv'
  OBVIOUS
<1>1. ASSUME NEW c \in AcCallers,
             \/ AcStarts(c, "create", "stat") \/ AcStarts(c, "ensure", "look")
             \/ AcStarts(c, "unlock", "read")
      PROVE  AcInv'
  BY <1>1, AcStartsStep
<1> QED
  BY <1>1, CommandsStep, UnlockReadsStep, UnlockWritesStep, CreateLooksStep, UseraddStep, EnsureLooksStep,
     EnsureMkdirStep, EnsureSeedsStep, ChownStep, UserWorksStep, AcKilledStep, AcStutter DEF AcNext

(* Create, EnsureHome, Lock and Unlock, for any callers and hashes: unless calls *)
(* crossed, a home reported ready is there, the user's and seeded, or an earlier *)
(* call was cut short before the seeding; an account reported open or shut is. *)
THEOREM AccountsStayReady ==
    ASSUME MaxAcCalls \in Nat, Passwords \cap {"none", "empty", "star"} = {}
    PROVE  AcSpec => [](AcTypeOK /\ AccountReady)
<1>1. AcInit => AcInv
  BY AcInitInv
<1>2. AcInv => AcTypeOK /\ AccountReady
  BY DEF AcInv, AcTypes, AcTypeOK, EntryInv, HomeInv, AcRecords, ShadowEntries, Homes
<1> QED
  BY <1>1, <1>2, AcStep, PTL DEF AcSpec

(* Unless calls cross, only SetPassword and Delete change a password (Unlock *)
(* preserves the hash), and no call writes over files of the user (EnsureHome *)
(* seeds only a home it has just made).                                     *)
THEOREM UsersOwnStaysKept ==
    ASSUME MaxAcCalls \in Nat, Passwords \cap {"none", "empty", "star"} = {}
    PROVE  AcSpec => UsersOwnKept
<1> DEFINE WordKept == shadow.word \in Passwords /\ shadow' # NoEntry /\ shadow'.word # shadow.word
                         => acCalls' # acCalls
           FilesKept == home.own = "yes" => home'.own # "lost"
<1>1. AcInit => AcInv
  BY AcInitInv
<1>2. AcInv /\ [AcNext]_acVars => [crossed' = "no" => WordKept /\ FilesKept]_acVars
  <2> SUFFICES ASSUME AcInv, AcNext, crossed' = "no" PROVE WordKept /\ FilesKept
    OBVIOUS
  <2>1. CASE UNCHANGED <<shadow, home>>
    BY <2>1
  <2>2. ASSUME NEW c \in AcCallers, NEW op, NEW e, NEW h, NEW possible, NEW x,
               AcCommand(c, op, possible, e, h, x), h.own # "lost" \/ h = home
        PROVE  WordKept /\ FilesKept
    BY <2>2 DEF AcCommand, AcInv, AcTypes
  <2>3. ASSUME NEW c \in AcCallers,
               \/ \E r \in {"yes", "no"} : DeleteUser(c, r)
               \/ Lock(c)
               \/ \E p \in Passwords : SetPassword(c, p)
        PROVE  WordKept /\ FilesKept
    BY Zenon, <2>2, <2>3, NoHomeFields DEF DeleteUser, Lock, SetPassword
  <2>4. ASSUME NEW c \in AcCallers, UnlockWrites(c) PROVE WordKept /\ FilesKept
    BY <2>4 DEF UnlockWrites, Unlocked, AcInv, EntryInv, ShadowEntries
  <2>5. ASSUME NEW c \in AcCallers, Useradd(c) PROVE WordKept /\ FilesKept
    <3>1. UNCHANGED shadow \/ shadow = NoEntry
      BY <2>5 DEF Useradd, Account
    <3>2. NoEntry.word \notin Passwords
      BY DEF NoEntry, AcInv, AcTypes
    <3>3. UNCHANGED home \/ home' = [Fresh EXCEPT !.skel = "yes", !.owner = "user"]
      BY <2>5 DEF Useradd
    <3>4. FilesKept
      BY Zenon, <3>3 DEF Fresh
    <3> QED
      BY <3>1, <3>2, <3>4
  <2>6. ASSUME NEW c \in AcCallers, EnsureMkdir(c) PROVE WordKept /\ FilesKept
    BY <2>6, FreshFields DEF EnsureMkdir
  <2>7. ASSUME NEW c \in AcCallers, EnsureSeeds(c) PROVE WordKept /\ FilesKept
    BY <2>7 DEF EnsureSeeds, Seeded, AcInv, HomeInv, Homes
  <2>8. ASSUME NEW c \in AcCallers, ChownHome(c) PROVE WordKept /\ FilesKept
    BY <2>8 DEF ChownHome, AcInv, HomeInv, Homes
  <2>9. CASE UserWorks
    BY <2>9 DEF UserWorks, AcInv, HomeInv, Homes
  <2> QED
    BY Zenon, <2>1, <2>3, <2>4, <2>5, <2>6, <2>7, <2>8, <2>9
       DEF AcNext, AcStarts, UnlockReads, CreateLooks, EnsureLooks, AcKilled
<1> QED
  BY <1>1, <1>2, AcStep, PTL DEF AcSpec, UsersOwnKept
=============================================================================
