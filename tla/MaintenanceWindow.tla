------------------------- MODULE MaintenanceWindow -------------------------
(***************************************************************************)
(* When a device may be worked on (package maintenance): the windows of its    *)
(* groups, joined by Union, and IsAllowed asked of the wall clock at any        *)
(* minute.  Beside the code's test of a single moment the module keeps, minute *)
(* by minute, how long each range that began on a listed day still has to run. *)
(***************************************************************************)
EXTENDS Integers

CONSTANTS
    DayMinutes,     \* minutes of a day, 24 * 60 in the code
    GroupWindows    \* the sets of windows the groups of a device may have

ASSUME DayAssumption == DayMinutes \in Nat \ {0}

Days == 0 .. 6      \* time.Weekday: Sunday is 0
Minutes == 0 .. DayMinutes - 1
Entries == [days : SUBSET Days, start : Minutes, end : Minutes]

ASSUME WindowsAssumption == GroupWindows \subseteq SUBSET (SUBSET Entries)

VARIABLES
    windows,    \* the windows of the groups that reach the device, each a set of entries
    day, minute,    \* the device's wall clock
    left        \* minutes the range of each entry still has to run

windowVars == <<windows, day, minute, left>>

AllEntries == UNION windows

-----------------------------------------------------------------------------
(* parseRange: a range of no length is an error.                            *)
RangeOK(e) == e.start # e.end

(* validateEntry and Validate.  The days of an entry are a set: a day listed    *)
(* twice, and a token that is no day, are refused before.                    *)
ValidateAnyDays(w) == \A e \in w : RangeOK(e)
Validate(w) == \A e \in w : e.days # {} /\ RangeOK(e)

(* entryAllows, at minute m of weekday d.                                    *)
EntryAllowsLate(e, d, m) ==
    /\ RangeOK(e)
    /\ \/ /\ d \in e.days
          /\ IF e.start <= e.end THEN m >= e.start /\ m <= e.end ELSE m >= e.start
       \/ /\ e.start > e.end
          /\ (d + 6) % 7 \in e.days /\ m < e.end
EntryAllows(e, d, m) ==
    /\ RangeOK(e)
    /\ \/ /\ d \in e.days
          /\ IF e.start <= e.end THEN m >= e.start /\ m < e.end ELSE m >= e.start
       \/ /\ e.start > e.end
          /\ (d + 6) % 7 \in e.days /\ m < e.end

IsAllowed(w, d, m) == w = {} \/ \E e \in w : EntryAllows(e, d, m)

(* Union: an empty window makes the whole of it empty.                       *)
Union(ws) == IF {} \in ws THEN {} ELSE UNION ws

-----------------------------------------------------------------------------
(* How long a range is, from its start on a listed day.                     *)
Length(e) == IF e.start <= e.end THEN e.end - e.start ELSE DayMinutes - e.start + e.end

Begins(e, d, m) == d \in e.days /\ m = e.start

(* At midnight a range of the day before may be running.                    *)
WindowInit ==
    /\ windows \in GroupWindows
    /\ day \in Days /\ minute = 0
    /\ left = [e \in AllEntries |->
          IF Begins(e, day, 0) THEN Length(e)
          ELSE IF e.start > e.end /\ (day + 6) % 7 \in e.days THEN e.end
          ELSE 0]

Tick ==
    /\ minute' = IF minute = DayMinutes - 1 THEN 0 ELSE minute + 1
    /\ day' = IF minute = DayMinutes - 1 THEN (day + 1) % 7 ELSE day
    /\ left' = [e \in AllEntries |->
          IF Begins(e, day', minute') THEN Length(e)
          ELSE IF left[e] > 0 THEN left[e] - 1
          ELSE 0]
    /\ UNCHANGED windows

WindowSpec == WindowInit /\ [][Tick]_windowVars /\ WF_windowVars(Tick)

-----------------------------------------------------------------------------
(* The windows, the clock and what is left of each running range.             *)
WindowTypeOK ==
    /\ windows \in GroupWindows
    /\ day \in Days /\ minute \in Minutes
    /\ left \in [AllEntries -> Nat]

(* IsAllowed of the Union, asked at any minute, is true exactly while a range   *)
(* that began on one of its entry's days is still running, also past midnight   *)
(* and from the last day of the week into the first; and always when no group  *)
(* has a window or some group has an empty one.                             *)
AllowedWhileOpen ==
    IsAllowed(Union(windows), day, minute)
       <=> (windows = {} \/ {} \in windows \/ \E e \in AllEntries : left[e] > 0)

(* Validate: the windows it accepts never shut a device out for good.         *)
OpensAgain ==
    (\A w \in windows : Validate(w)) => []<>IsAllowed(Union(windows), day, minute)
=============================================================================
