------------------------------- MODULE Rebuild ------------------------------
(***************************************************************************)
(* `backfill` and `backfill --rebuild`, beside a watcher that reads the    *)
(* same logs and an external pruner that deletes them.  A rebuild wipes    *)
(* both tables and replays what the logs still hold; a check before the    *)
(* wipe is to refuse it when that would lose history.                      *)
(*                                                                         *)
(* A log is the sequence of its assistant lines, in the order of Place.    *)
(* One backfill runs at a time.  The pass that a plain backfill runs first *)
(* is Reconcile's; with one table in force it changes nothing here.        *)
(***************************************************************************)
EXTENDS Replay

CONSTANTS
    Logs,     \* log files
    LogOf,    \* the log a line is in
    Place,    \* its place there
    Behind,   \* lines that the backfill's scanner does not reach: one of
              \* more than 8 MB stands before them in their log
    DayOfKey, \* the UTC day of a rollup key
    NoLog,
    NoDay     \* the rollups table is empty

ASSUME RebuildLogs ==
    /\ LogOf \in [Lines -> Logs]
    /\ Place \in [Lines -> Nat]
    /\ Behind \subseteq Lines
    /\ DayOfKey \in [Keys -> Nat]
    /\ NoLog \notin Logs
    /\ NoDay \notin Nat

VARIABLES
    disk,    \* the logs that exist
    rolled,  \* the keys that have a rollup row, be it of zeroes
    at,      \* where the backfill is
    mode,    \* what was asked for
    oldest,  \* the oldest day of the database, as the check read it
    todo,    \* logs the walk has still to visit
    log,     \* the log it has open
    left,    \* the lines of that log it has still to scan
    clean,   \* no insert has failed
    kept,    \* what was stored when it started
    pruned   \* a log was pruned while it ran

job == <<at, mode, oldest, todo, log, left, clean, kept>>
rebuildVars == <<events, rollups, seen, disk, rolled, job, pruned>>

Modes == {"backfill", "rebuild", "force"}

RebuildTypeOK ==
    /\ disk \subseteq Logs
    /\ rolled \subseteq Keys
    /\ at \in {"idle", "check", "wipe", "list", "walk", "done"}
    /\ mode \in Modes
    /\ oldest \in Nat \cup {NoDay}
    /\ todo \subseteq Logs
    /\ log \in (Logs \ todo) \cup {NoLog}
    /\ left \subseteq {l \in Lines : LogOf[l] = log}
    /\ clean \in BOOLEAN
    /\ kept \subseteq Lines
    /\ pruned \in BOOLEAN

LinesIn(f) == {l \in Lines : LogOf[l] = f}
DayOf(l) == DayOfKey[KeyOf[l]]
Running == at \notin {"idle", "done"}

-----------------------------------------------------------------------------
(* The logs and the watcher.                                               *)

\* Claude Code deletes old session logs.
Prune(f) ==
    /\ f \in disk
    /\ disk' = disk \ {f}
    /\ pruned' = (pruned \/ Running)
    /\ UNCHANGED <<events, rollups, seen, rolled, job>>

\* A rollup row comes with the first row stored under its key, and stays.
StoreRead(l) ==
    /\ ReadLine(l)
    /\ rolled' = rolled \cup {KeyOf[u] : u \in Stored'}

WatcherReads(l) ==
    /\ LogOf[l] \in disk
    /\ StoreRead(l)
    /\ UNCHANGED <<disk, job, pruned>>

-----------------------------------------------------------------------------
(* The backfill.                                                           *)

Start(m, step) ==
    /\ ~Running
    /\ at' = step
    /\ mode' = m
    /\ clean' = TRUE
    /\ pruned' = FALSE
    /\ UNCHANGED <<events, rollups, seen, disk, rolled, todo, log, left>>

StartBackfill ==
    /\ Start("backfill", "list")
    /\ kept' = {}
    /\ oldest' = NoDay

\* MIN(day) of the rollups.
OldestRollupDay ==
    \/ rolled = {} /\ oldest' = NoDay
    \/ \E k \in rolled : /\ \A j \in rolled : DayOfKey[k] <= DayOfKey[j]
                         /\ oldest' = DayOfKey[k]

StartRebuild ==
    /\ \E m \in {"rebuild", "force"} : Start(m, "check")
    /\ kept' = Stored
    /\ OldestRollupDay

\* A log's first event bounds it; a log that cannot be read up to its first
\* event is passed over.
IsFirstEvent(l) == l \notin Behind /\ \A u \in LinesIn(LogOf[l]) : Place[l] <= Place[u]

\* Some log reaches back to the oldest day of the database.
Covered == \E l \in Lines : LogOf[l] \in disk /\ IsFirstEvent(l) /\ DayOf(l) <= oldest

\* Fault: a database without any log left to replay counts as covered.
CheckPassesNoLogs ==
    /\ at = "check"
    /\ mode = "rebuild" /\ oldest # NoDay => Covered \/ disk = {}
    /\ at' = "wipe"
    /\ UNCHANGED <<events, rollups, seen, disk, rolled, mode, oldest, todo, log, left, clean, kept, pruned>>

CheckRebuildSafe ==
    /\ at = "check"
    /\ mode = "rebuild" /\ oldest # NoDay => Covered
    /\ at' = "wipe"
    /\ UNCHANGED <<events, rollups, seen, disk, rolled, mode, oldest, todo, log, left, clean, kept, pruned>>

Wipe ==
    /\ at = "wipe"
    /\ Reset
    /\ seen' = {}
    /\ rolled' = {}
    /\ at' = "list"
    /\ UNCHANGED <<disk, mode, oldest, todo, log, left, clean, kept, pruned>>

WalkDir ==
    /\ at = "list"
    /\ at' = "walk"
    /\ todo' = disk
    /\ log' = NoLog
    /\ left' = {}
    /\ UNCHANGED <<events, rollups, seen, disk, rolled, mode, oldest, clean, kept, pruned>>

\* Fault: the walk does not go on to the next log.
OpenStays(f) ==
    /\ at = "walk" /\ log = NoLog
    /\ f \in todo \cap disk
    /\ log' = f
    /\ left' = LinesIn(f)
    /\ UNCHANGED <<events, rollups, seen, disk, rolled, at, mode, oldest, todo, clean, kept, pruned>>

OpenLog(f) ==
    /\ at = "walk" /\ log = NoLog
    /\ f \in todo \cap disk
    /\ todo' = todo \ {f}
    /\ log' = f
    /\ left' = LinesIn(f)
    /\ UNCHANGED <<events, rollups, seen, disk, rolled, at, mode, oldest, clean, kept, pruned>>

\* A log pruned before its directory was listed is not missed.  One pruned
\* after that fails to open, and the walk ends (Abandon).
PassOver(f) ==
    /\ at = "walk" /\ log = NoLog
    /\ f \in todo \ disk
    /\ todo' = todo \ {f}
    /\ UNCHANGED <<events, rollups, seen, disk, rolled, at, mode, oldest, log, left, clean, kept, pruned>>

\* An open log is read to its end, also when it is pruned meanwhile.  A
\* failed insert is counted, and the scan goes on.
ScanLine(l) ==
    /\ at = "walk"
    /\ l \in left \ Behind
    /\ \A u \in left : Place[l] <= Place[u]
    /\ left' = left \ {l}
    /\ \/ StoreRead(l) /\ UNCHANGED clean
       \/ clean' = FALSE /\ UNCHANGED <<events, rollups, seen, rolled>>
    /\ UNCHANGED <<disk, at, mode, oldest, todo, log, kept, pruned>>

\* Fault: scanner.Err is not asked for, and a line that is too long looks
\* like the end of the log.
CloseAtLongLine ==
    /\ at = "walk" /\ log # NoLog
    /\ left \subseteq Behind
    /\ log' = NoLog
    /\ left' = {}
    /\ UNCHANGED <<events, rollups, seen, disk, rolled, at, mode, oldest, todo, clean, kept, pruned>>

CloseLog ==
    /\ at = "walk" /\ log # NoLog
    /\ left = {}
    /\ log' = NoLog
    /\ UNCHANGED <<events, rollups, seen, disk, rolled, at, mode, oldest, todo, left, clean, kept, pruned>>

Finish ==
    /\ at = "walk" /\ log = NoLog /\ todo = {}
    /\ at' = "done"
    /\ UNCHANGED <<events, rollups, seen, disk, rolled, mode, oldest, todo, log, left, clean, kept, pruned>>

\* The check refuses, a call fails, a line is too long for the scanner, or
\* the process is killed: what was wiped stays wiped.
Abandon ==
    /\ Running
    /\ at' = "idle"
    /\ mode' = "backfill"
    /\ oldest' = NoDay
    /\ todo' = {}
    /\ log' = NoLog
    /\ left' = {}
    /\ clean' = TRUE
    /\ kept' = {}
    /\ pruned' = FALSE
    /\ UNCHANGED <<events, rollups, seen, disk, rolled>>

-----------------------------------------------------------------------------

RebuildInit ==
    /\ ReplayInit
    /\ disk = Logs
    /\ rolled = {}
    /\ at = "idle"
    /\ mode = "backfill"
    /\ oldest = NoDay
    /\ todo = {}
    /\ log = NoLog
    /\ left = {}
    /\ clean = TRUE
    /\ kept = {}
    /\ pruned = FALSE

RebuildNext ==
    \/ \E f \in Logs : Prune(f)
    \/ \E l \in Lines : WatcherReads(l)
    \/ StartBackfill \/ StartRebuild
    \/ CheckRebuildSafe \/ Wipe \/ WalkDir
    \/ \E f \in Logs : OpenLog(f) \/ PassOver(f)
    \/ \E l \in Lines : ScanLine(l)
    \/ CloseLog \/ Finish \/ Abandon

RebuildSpec == RebuildInit /\ [][RebuildNext]_rebuildVars

-----------------------------------------------------------------------------

\* The response of the line is stored, at its length or longer.
Restored(l) == \E u \in Stored : SameResponse(l, u) /\ OutputOf[l] <= OutputOf[u]

\* A backfill that ends without an error and without a failed insert has stored
\* every response of every log that is still there, whatever the watcher read
\* and the pruner took meanwhile (backfill.go 158-172, 413).
RebuildRestores ==
    at = "done" /\ clean => \A l \in Lines : LogOf[l] \in disk => Restored(l)

\* A rebuild that was not forced leaves a history that reaches back to the
\* oldest day the database had, if no log was pruned while it ran: the check
\* saw a line that the walk then stores (backfill.go 283-288).
HistoryReachesBack ==
    at = "done" /\ clean /\ mode = "rebuild" /\ oldest # NoDay /\ ~pruned =>
        \E l \in Lines : DayOf(l) <= oldest /\ Restored(l)

\* A rebuild that was not forced loses no response (backfill.go 73-74: it "is
\* refused when it would destroy history the logs can no longer replay").
RebuildIsSafe ==
    at = "done" /\ clean /\ mode = "rebuild" /\ ~pruned =>
        \A l \in kept : \E u \in Stored : SameResponse(l, u)
=============================================================================
