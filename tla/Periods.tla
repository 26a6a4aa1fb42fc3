------------------------------- MODULE Periods ------------------------------
(***************************************************************************)
(* The calendar of budgets and sums: internal/budget/evaluator.go turns a  *)
(* period of the user's time zone into two instants, and the sums of       *)
(* internal/db/db.go turn these into UTC days, the grain of the rollups.   *)
(*                                                                         *)
(* Time is counted in hours, so the last hour of a period stands for its   *)
(* last second (23:59:59).  A time zone is its offset from UTC in hours; a *)
(* change of the clocks within a period is left out.  The calendar of each *)
(* period is a parameter: the first local day of the period a day is in,   *)
(* and of the one that follows.                                            *)
(***************************************************************************)
EXTENDS Integers

CONSTANTS
    PeriodNames,  \* the periods of a rule: daily, weekly, monthly
    LocalDays,    \* the days of a local calendar
    FirstDay,     \* FirstDay[p][d]: the first day of the period that d is in
    NextDay,      \* NextDay[p][d]: the first day of the period after it
    Offsets       \* hours a time zone is ahead of UTC

ASSUME PeriodsCalendar ==
    /\ LocalDays \subseteq Int
    /\ FirstDay \in [PeriodNames -> [LocalDays -> Int]]
    /\ NextDay \in [PeriodNames -> [LocalDays -> Int]]
    /\ \A p \in PeriodNames : \A d, e \in LocalDays :
        /\ FirstDay[p][d] <= d /\ d < NextDay[p][d]
        /\ FirstDay[p][d] <= e /\ e < NextDay[p][d] <=> FirstDay[p][e] = FirstDay[p][d]

ASSUME PeriodsZones == Offsets \subseteq (-23)..23

\* time.Format("2006-01-02") of an instant in UTC and in a time zone.
DayOf(t) == t \div 24
LocalDay(t, zone) == (t + zone) \div 24

\* The instant at which a local day begins.
Midnight(d, zone) == 24 * d - zone

\* Fault: the end is the start of the next period.
PeriodBoundsToNext(p, t, zone) ==
    LET d == LocalDay(t, zone)
    IN  [start |-> Midnight(FirstDay[p][d], zone), end |-> Midnight(NextDay[p][d], zone)]

PeriodBounds(p, t, zone) ==
    LET d == LocalDay(t, zone)
    IN  [start |-> Midnight(FirstDay[p][d], zone), end |-> Midnight(NextDay[p][d], zone) - 1]

\* Both instants are in one period of the zone.
SamePeriod(p, t, u, zone) == FirstDay[p][LocalDay(t, zone)] = FirstDay[p][LocalDay(u, zone)]

\* RollupSum, ProjectSum and TotalSum: an instant is in the range when its UTC
\* day is one of the UTC days from that of start to that of end.
InRollupSum(t, bounds) == DayOf(bounds.start) <= DayOf(t) /\ DayOf(t) <= DayOf(bounds.end)
=============================================================================
