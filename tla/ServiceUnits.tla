---------------------------- MODULE ServiceUnits ---------------------------
(***************************************************************************)
(* A systemd unit behind sys/service.  Every mutation is one systemctl       *)
(* command or one file operation; Status asks two questions one after the    *)
(* other, while other callers, an administrator and systemd itself change    *)
(* the unit.                                                                *)
(***************************************************************************)
EXTENDS Naturals

CONSTANT MaxUnitSteps   \* bound: changes of the unit

Unwritten == 0
Contents == 1..2        \* contents that pass validateUnitContent

VARIABLES
    file,       \* the unit file in /etc/systemd/system
    loaded,     \* the content systemd works with
    enabled,    \* what is-enabled prints, "?" for output off its whitelist
    active,     \* what is-active prints
    query,      \* the call of Status or NeedsReload that is open
    seen,       \* what was true since the call began
    answer,     \* what the last call returned
    unitSteps

unitVars == <<file, loaded, enabled, active, query, seen, answer, unitSteps>>

EnabledOut == {"enabled", "disabled", "static", "masked", "?"}
ActiveOut == {"active", "inactive", "failed", "?"}
NoAnswer == [enabled |-> "none", active |-> "none", stale |-> "none"]

Stale == IF loaded = file THEN "no" ELSE "yes"
Now == {<<"enabled", enabled>>, <<"active", active>>, <<"stale", Stale>>}

UnitInit ==
    /\ file \in {Unwritten, 1} /\ loaded = file
    /\ enabled = "disabled" /\ active = "inactive"
    /\ query = "none" /\ seen = {} /\ answer = NoAnswer
    /\ unitSteps = 0

-----------------------------------------------------------------------------
(* The unit changes; an open call has seen the new state too.              *)
Changes ==
    /\ unitSteps < MaxUnitSteps
    /\ unitSteps' = unitSteps + 1
    /\ seen' = IF query = "none" THEN {}
               ELSE seen \cup {<<"enabled", enabled'>>, <<"active", active'>>,
                               <<"stale", IF loaded' = file' THEN "no" ELSE "yes">>}
    /\ UNCHANGED <<query, answer>>

(* The commands, where systemd carries them out; a failed one is an error   *)
(* and no step.                                                            *)
Mutate(toEnabled, toActive) ==
    /\ enabled' = toEnabled /\ active' = toActive
    /\ UNCHANGED <<file, loaded>>
    /\ Changes

Loadable == loaded # Unwritten /\ enabled # "masked"

Enable == Loadable /\ Mutate("enabled", active)
Disable == Mutate("disabled", active)
EnableNow == Loadable /\ Mutate("enabled", "active")
DisableNow == Mutate("disabled", "inactive")
Start == Loadable /\ Mutate(enabled, "active")     \* Restart as well
Stop == Mutate(enabled, "inactive")
Mask == Mutate("masked", active)
Unmask == enabled = "masked" /\ Mutate("disabled", active)

DaemonReload ==
    /\ loaded' = file
    /\ UNCHANGED <<file, enabled, active>>
    /\ Changes

(* Neither reloads systemd.                                                *)
WriteUnit(v) == file' = v /\ UNCHANGED <<loaded, enabled, active>> /\ Changes
RemoveUnit == file' = Unwritten /\ UNCHANGED <<loaded, enabled, active>> /\ Changes

(* systemd: a unit fails, or is in a state the whitelist does not have.     *)
Drifts == \E e \in EnabledOut, a \in ActiveOut : Mutate(e, a)

-----------------------------------------------------------------------------
Asks(q) ==
    /\ query = "none"
    /\ query' = q /\ seen' = Now /\ answer' = NoAnswer
    /\ UNCHANGED <<file, loaded, enabled, active, unitSteps>>

Answers(a, q) ==
    /\ answer' = a /\ query' = q
    /\ seen' = IF q = "none" THEN {} ELSE seen
    /\ UNCHANGED <<file, loaded, enabled, active, unitSteps>>

(* An output that is not on the whitelist, and a failed command, are errors *)
(* of the whole call.                                                      *)
StatusEnabled ==
    /\ query = "is-enabled"
    /\ \/ enabled # "?" /\ Answers([answer EXCEPT !.enabled = enabled], "is-active")
       \/ Answers(NoAnswer, "none")

(* Mutant of StatusActive: an unknown output counts as inactive.            *)
StatusActiveGuessed ==
    /\ query = "is-active"
    /\ \/ Answers([answer EXCEPT !.active = IF active = "?" THEN "inactive" ELSE active], "told")
       \/ Answers(NoAnswer, "none")

StatusActive ==
    /\ query = "is-active"
    /\ \/ active # "?" /\ Answers([answer EXCEPT !.active = active], "told")
       \/ Answers(NoAnswer, "none")

NeedsReload ==
    /\ query = "need-reload"
    /\ \/ Answers([answer EXCEPT !.stale = Stale], "told")
       \/ Answers(NoAnswer, "none")

Returns == query = "told" /\ Answers(answer, "none")

UnitNext ==
    \/ Enable \/ Disable \/ EnableNow \/ DisableNow \/ Start \/ Stop \/ Mask \/ Unmask
    \/ DaemonReload \/ RemoveUnit \/ Drifts
    \/ \E v \in Contents : WriteUnit(v)
    \/ Asks("is-enabled") \/ Asks("need-reload")
    \/ StatusEnabled \/ StatusActive \/ NeedsReload \/ Returns

UnitSpec == UnitInit /\ [][UnitNext]_unitVars

-----------------------------------------------------------------------------
UnitTypeOK ==
    /\ file \in {Unwritten} \cup Contents /\ loaded \in {Unwritten} \cup Contents
    /\ enabled \in EnabledOut /\ active \in ActiveOut
    /\ query \in {"none", "is-enabled", "is-active", "need-reload", "told"}
    /\ unitSteps \in 0..MaxUnitSteps

(* query and NeedsReload: "anything else is an error, never a guessed       *)
(* false".  Each part of an answer was true at some moment of the call, the  *)
(* whole of it perhaps at none.                                            *)
NeverGuessed ==
    query = "told" =>
        \A part \in DOMAIN answer : answer[part] # "none" => <<part, answer[part]>> \in seen

(* Status as a snapshot: its two parts were true together.  It does not hold: *)
(* the unit may change between the two questions.                          *)
StatusIsSnapshot ==
    [][query' = "told" /\ query = "is-active" => answer'.enabled = enabled]_unitVars
=============================================================================
