--------------------------- MODULE PackageHolds ----------------------------
(***************************************************************************)
(* Holding packages back (pkg): Pin and Unpin of apt, dnf, zypper and        *)
(* flatpak, and the queries List, IsPinned and ListPinned, which put their   *)
(* answer together from several commands while others on the host hold,      *)
(* release, install and remove.  pacman's pins are in PacmanConf.          *)
(***************************************************************************)
EXTENDS Naturals, FiniteSets

CONSTANTS
    Apps,           \* packages
    MaxHoldCalls,   \* bound: calls of the agent
    MaxStirs        \* bound: changes by others

HdIdle == [op |-> "none", at |-> "idle", names |-> {}, todo |-> {}, err |-> "ok",
           rows |-> {}, swept |-> {}]

VARIABLES
    mgr,        \* "apt", "dnf", "zypper" or "flatpak"
    plugin,     \* "yes": dnf has the versionlock plugin
    holds,      \* the packages held back
    present,    \* the packages installed
    hdCall,     \* the agent's call; "swept": what others touched since it began
    hdResult,   \* its error, the packages it listed, those it says are held, and
                \* "read" unless the query of the holds exited non-zero
    hdCalls, stirs

hdVars == <<mgr, plugin, holds, present, hdCall, hdResult, hdCalls, stirs>>

NoAnswer == [err |-> "none", rows |-> {}, held |-> {}, via |-> "read"]
HdInit ==
    /\ mgr \in {"apt", "dnf", "zypper", "flatpak"} /\ plugin \in {"yes", "no"}
    /\ holds \in SUBSET Apps /\ present \in SUBSET Apps
    /\ plugin = "no" => mgr = "dnf" /\ holds = {}
    /\ hdCall = HdIdle /\ hdResult = NoAnswer /\ hdCalls = 0 /\ stirs = 0

(* Others on the host; dnf holds nothing without its plugin.               *)
Stir ==
    /\ stirs < MaxStirs /\ stirs' = stirs + 1
    /\ \E a \in Apps :
         /\ \/ holds' = (holds \ {a}) \cup ({a} \ holds) /\ plugin = "yes" /\ UNCHANGED present
            \/ present' = (present \ {a}) \cup ({a} \ present) /\ UNCHANGED holds
         /\ hdCall' = IF hdCall.at = "idle" THEN hdCall ELSE [hdCall EXCEPT !.swept = @ \cup {a}]
    /\ UNCHANGED <<mgr, plugin, hdResult, hdCalls>>

-----------------------------------------------------------------------------
HdReturns(err, rows, held, via) ==
    hdCall' = HdIdle /\ hdResult' = [err |-> err, rows |-> rows, held |-> held, via |-> via]
HdFails == HdReturns("error", {}, {}, "read")

(* Valid calls of Pin and Unpin.  Without a name they do nothing.            *)
HoldStarts(op, S) ==
    /\ hdCall = HdIdle /\ hdCalls < MaxHoldCalls /\ hdCalls' = hdCalls + 1
    /\ IF S = {} THEN HdReturns("ok", {}, {}, "read")
       ELSE /\ hdCall' = [HdIdle EXCEPT !.op = op, !.names = S, !.todo = S,
                            !.at = IF mgr = "dnf" THEN "plugin?" ELSE "mark"]
            /\ UNCHANGED hdResult
    /\ UNCHANGED <<mgr, plugin, holds, present, stirs>>

(* List reads what is installed and then the holds, IsPinned the holds,      *)
(* ListPinned the holds and then the version of each package.              *)
QueryStarts(op, S) ==
    /\ hdCall = HdIdle /\ hdCalls < MaxHoldCalls /\ hdCalls' = hdCalls + 1
    /\ hdCall' = [HdIdle EXCEPT !.op = op, !.names = S, !.rows = S,
          !.at = CASE op = "list" -> "installed"
                   [] op = "listpinned" /\ mgr = "dnf" -> "plugin?"
                   [] OTHER -> "holds"]
    /\ UNCHANGED <<mgr, plugin, holds, present, hdResult, stirs>>

HoldCalls ==
    \/ \E op \in {"pin", "unpin"}, S \in SUBSET Apps : HoldStarts(op, S)
    \/ \E a \in Apps : QueryStarts("ispinned", {a})
    \/ \E op \in {"list", "listpinned"} : QueryStarts(op, {})

-----------------------------------------------------------------------------
(* ensureVersionLock: a probe that exits non-zero, for whatever reason, leads *)
(* to an install of the plugin; one that cannot run is an error.            *)
ensureVersionLock ==
    LET goesOn == hdCall' = [hdCall EXCEPT
                       !.at = IF hdCall.op = "listpinned" THEN "holds" ELSE "mark"]
    IN  /\ \/ /\ hdCall.at = "plugin?" /\ UNCHANGED plugin
              /\ \/ HdFails
                 \/ plugin = "yes" /\ goesOn /\ UNCHANGED hdResult
                 \/ hdCall' = [hdCall EXCEPT !.at = "plugin"] /\ UNCHANGED hdResult
           \/ /\ hdCall.at = "plugin"
              /\ \/ HdFails /\ plugin' \in {plugin, "yes"}
                 \/ goesOn /\ plugin' = "yes" /\ UNCHANGED hdResult
        /\ UNCHANGED <<mgr, holds, present, hdCalls, stirs>>

(* The command that holds or releases S.  One that exits 0 has done so; one   *)
(* that does not, or is killed, may have done so for any part.              *)
Marks(S) == holds' = IF hdCall.op = "pin" THEN holds \cup S ELSE holds \ S

(* apt-mark hold and unhold, versionlock add and delete, addlock and         *)
(* removelock take all the names at once.                                   *)
MarkAll ==
    \/ Marks(hdCall.names) /\ HdReturns("ok", {}, {}, "read")
    \/ (\E S \in SUBSET hdCall.names : Marks(S)) /\ HdFails
aptPin == mgr = "apt" /\ MarkAll
dnfPin == mgr = "dnf" /\ MarkAll
zypperPin == mgr = "zypper" /\ MarkAll

(* flatpak masks one name after the other, goes on after a failure and        *)
(* returns the last error.                                                 *)
LastErrForgets(err, res) == res
LastErr(err, res) == IF res = "error" THEN "error" ELSE err

flatpakPin ==
    /\ mgr = "flatpak"
    /\ \E a \in hdCall.todo, res \in {"ok", "error"} :
         LET err == LastErr(hdCall.err, res) IN
         /\ \/ Marks({a})
            \/ res = "error" /\ UNCHANGED holds
         /\ IF hdCall.todo = {a} THEN HdReturns(err, {}, {}, "read")
            ELSE /\ hdCall' = [hdCall EXCEPT !.todo = @ \ {a}, !.err = err]
                 /\ UNCHANGED hdResult

MarkHolds ==
    /\ hdCall.at = "mark"
    /\ aptPin \/ dnfPin \/ zypperPin \/ flatpakPin
    /\ UNCHANGED <<mgr, plugin, present, hdCalls, stirs>>

-----------------------------------------------------------------------------
(* What a query of the holds gives.  readOut makes an error of a non-zero     *)
(* exit, probe an empty answer.  List and IsPinned of all but apt probe.     *)
readOut(S) ==
    {[err |-> "ok", set |-> S, via |-> "read"], [err |-> "error", set |-> {}, via |-> "read"]}
probe(S) == readOut(S) \cup {[err |-> "ok", set |-> {}, via |-> "exit"]}

aptPinnedSetTolerant == IF hdCall.op = "listpinned" THEN readOut(holds) ELSE probe(holds)
aptPinnedSet == readOut(holds)
dnfPinnedSet == IF hdCall.op = "listpinned" THEN readOut(holds) ELSE probe(holds)
zypperPinnedSet == IF hdCall.op = "listpinned" THEN readOut(holds) ELSE probe(holds)
flatpakPinnedSet == IF hdCall.op = "listpinned" THEN readOut(holds) ELSE probe(holds)
PinnedSet ==
    CASE mgr = "apt" -> aptPinnedSet
      [] mgr = "dnf" -> dnfPinnedSet
      [] mgr = "zypper" -> zypperPinnedSet
      [] mgr = "flatpak" -> flatpakPinnedSet

ReadInstalled ==
    /\ hdCall.at = "installed"
    /\ \/ HdFails
       \/ hdCall' = [hdCall EXCEPT !.at = "holds", !.rows = present] /\ UNCHANGED hdResult
    /\ UNCHANGED <<mgr, plugin, holds, present, hdCalls, stirs>>

ReadHolds ==
    /\ hdCall.at = "holds"
    /\ \E r \in PinnedSet :
         IF r.err = "error" THEN HdFails
         ELSE IF hdCall.op = "listpinned" /\ r.set # {}
              THEN /\ hdCall' = [hdCall EXCEPT !.at = "versions", !.rows = r.set, !.todo = r.set]
                   /\ UNCHANGED hdResult
         ELSE HdReturns("ok", hdCall.rows, r.set \cap hdCall.rows, r.via)
    /\ UNCHANGED <<mgr, plugin, holds, present, hdCalls, stirs>>

(* ListPinned asks for the version of each; none is no error.               *)
ReadVersion ==
    /\ hdCall.at = "versions"
    /\ \/ HdFails
       \/ \E a \in hdCall.todo :
            IF hdCall.todo = {a} THEN HdReturns("ok", hdCall.rows, hdCall.rows, "read")
            ELSE hdCall' = [hdCall EXCEPT !.todo = @ \ {a}] /\ UNCHANGED hdResult
    /\ UNCHANGED <<mgr, plugin, holds, present, hdCalls, stirs>>

HdNext ==
    \/ Stir \/ HoldCalls \/ ensureVersionLock \/ MarkHolds
    \/ ReadInstalled \/ ReadHolds \/ ReadVersion

-----------------------------------------------------------------------------
HdTypeOK ==
    /\ holds \subseteq Apps /\ present \subseteq Apps
    /\ hdCall.at \in {"idle", "plugin?", "plugin", "mark", "installed", "holds", "versions"}
    /\ hdResult.err \in {"none", "ok", "error"}

HdEnds(ops) == hdCall.op \in ops /\ hdCall'.at = "idle" /\ hdResult'.err = "ok"

(* Pin and Unpin: when the call reports success every package it names is     *)
(* held, or released, whichever of its commands failed on the way, except    *)
(* what others have touched since it began.                                *)
PinsStand ==
    [][ /\ HdEnds({"pin"}) => (hdCall.names \ hdCall.swept) \subseteq holds'
        /\ HdEnds({"unpin"}) => (hdCall.names \ hdCall.swept) \cap holds' = {} ]_hdVars

(* List, IsPinned and ListPinned: for a package that nobody touched during    *)
(* the call, the parts of the answer, read one after the other, agree with    *)
(* the host, unless the holds could not be read and the manager's query is    *)
(* one that takes that for "none" (apt's is not).                          *)
AnswersTrue ==
    [][ HdEnds({"list", "ispinned", "listpinned"}) => \A a \in Apps \ hdCall.swept :
          /\ hdCall.op = "list" => (a \in hdResult'.rows <=> a \in present)
          /\ \/ a \in hdResult'.held <=> (a \in holds /\ a \in hdResult'.rows)
             \/ hdResult'.via = "exit" /\ mgr # "apt" ]_hdVars

(* IsPinned "reports whether a package is locked" (zypper.go), is found false: *)
(* locks that exits non-zero, as when another zypper runs, reads as "not       *)
(* locked", of a package that is.                                          *)
PinnedReported ==
    [][ \A a \in hdCall.names \ hdCall.swept :
          HdEnds({"ispinned"}) /\ a \in holds => a \in hdResult'.held ]_hdVars

(* "Reads run unprivileged" and change nothing (pkg.go lists ListPinned among   *)
(* the queries), is found false: dnf's installs the versionlock plugin.     *)
QueriesChangeNothing ==
    [][hdCall.op = "listpinned" => plugin' = plugin]_hdVars
=============================================================================
