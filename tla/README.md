# budgetclaw in TLA+

budgetclaw watches the JSONL logs that Claude Code sessions write under
`~/.claude/projects`, prices every API response, keeps the spend per project,
git branch and day in a local SQLite database, and, when a rule is over its
cap, writes a lock file and sends SIGTERM to the session. A team server may
hand out further policies ("Guard Mode") and collects daily aggregates.

This directory holds a model of that program, the TLC configurations that check
it on small instances, and theorems about it checked by TLAPS. Source paths
below are relative to the repository root.

## 1. The system

Three kinds of process write the same files: the long-running `watch`, the
commands a user or a timer runs beside it (`status`, `backfill`,
`backfill --rebuild`, `pricing refresh`, `unlock`, `sync`, `limit`), and the
Claude Code sessions that write the logs. They share the SQLite database (its
transactions take the write lock when they begin), the lock directory, the
cached price bundle and the cached policies.

    logs --fsnotify--> watcher --line--> parser --event--> pipeline.Handle
                                                             |   |      |
                        pricing table (in memory) <----------+   |      +--> ntfy
                              ^          ^                       v
              refresher/cache-+          |          db.Insert -> events, rollups
                                    reconcile.Run <------------> events, rollups, meta
                                                                 |
       config rules, team policies --> evaluator <-- rollups ----+
                                           |
                                           +--> lock files, SIGTERM, guard_pending
                                                                        |
                                             sync --> team server <-----+

| Component | State | Operations | Correct when |
|---|---|---|---|
| database (`internal/db/db.go`) | `events`, `rollups`, `meta` | insert (priced or not), reprice batch, correction batch, reset, migration | a rollup is the sum of its events; a response is counted once; an unpriced row costs nothing; no row disappears |
| reconciliation (`internal/reconcile`) | watermark in `meta`, cursor, a batch in hand | one pass: reprice the backlog, correct the priced rows, set the watermark | a stale batch changes nothing twice; a pass ends; a skipped pass would have changed nothing |
| processes around it (`cli/watch.go`, `status.go`, `backfill.go`, `pricing_*.go`) | a pricing table per process, the cached bundle | start, pass, refresh, ingest, exit | a priced row stays priced; what is stored depends on the logs and not on who read them when |
| watcher (`internal/watcher`) | watches, event queue, byte offset per log | walk, serve events, read a region | every complete line reaches the handler; no directory is overlooked; partial lines are read again in full |
| pipeline, enforcer (`internal/pipeline`, `internal/enforcer`, `cli/unlock.go`) | lock files, fired policies, audit queue | handle a line, lock, kill, release, prune, unlock | a runaway is stopped; a lock has a cause and lasts until its period ends |
| rules and periods (`internal/budget`) | none (config file) | evaluate, match, period bounds | the sum covers the period of the rule, no more |
| team policies (`internal/policy`, poller in `cli/watch.go`) | cached policies with an ETag | poll, save, load | the cache converges to the server's answer |
| sync (`cli/sync.go`, `internal/goei`, `db/sync.go`) | audit queue, day aggregates | push, delete what was pushed | every enforcement is reported at least once; an aggregate is never partial |
| price refresh (`internal/pricing/refresh`, `cli/pricing_daemon.go`) | bundle, signature and ETag files; cooldown | conditional fetch, verify, plausibility, save, install | a cached table verifies; prices never go back in time; a trigger is not lost |
| notifications (`internal/ntfy`) | none | send with retries | `Handle` is not held up for ever |
| parser, pricing arithmetic, git metadata, paths, device enrolment, one-file edits, dataset generator | none that outlives a call | pure functions, requests to an external server, printing | - |

What is hard here: the watcher forgets its offsets and every log is read again
after a restart, so every operation must be idempotent in every order; the
refresher swaps the pricing table and runs a pass on one goroutine while the
ingest path is between pricing and storing a line on another; passes of several
processes carry batches that others have overtaken; insert, lock, kill and
report are separate steps with crashes and failing calls between them; lines
are judged at their own timestamp and acted on now; the file system changes
while it is walked. `PROJECT.json` lists each of these under `hazards`, at its
line, with the properties that would catch it.

## 2. The modules

A component has up to four modules: `X` (state, actions, specification,
properties), `MCX` (its constants for TLC), and `XProofs` (theorems); an
abstract specification is a module of its own. In a component's module a
definition marked "Fault:" is a mistake the code could make; no specification
uses it, and the runs' properties are known to fail with it.

### Units, Ledger: the database

`Units` defines `Sum(S, w)` by counting units, so that the laws the proofs need
are facts about finite sets. `Ledger` has the tables `events` (from a line,
named by its uuid, to its row) and `rollups` (from a key (project, branch, UTC
day) to its columns). One transaction is one action, because every write
transaction is opened with `_txlock=immediate` and a crash rolls it back.
`Insert`/`InsertUnpriced` have the four ways out of `insert` (first sighting,
primary key clash, earlier partial, replacement across keys). `ApplyReprice`
and `ApplyCorrection` take any batch computed from any earlier state, each row
guarded as in the SQL; `Reset` is the wipe of a rebuild; `LedgerInit` includes a
database filled by the schema without message ids. The token columns move
together and are represented by the output tokens; costs are whole units.

### Reconcile: the processes that write it

Each process has a command, a pricing table in memory and a pass; a pass is
taken one database call at a time (`CheckWatermark` ... `SetWatermark`), each of
which may fail; the ingest path prices a line (`PriceLine`) and stores it later
(`StorePriced`). `Once` is the watcher's refresher, which swaps the table and
runs a forced pass while the ingest path goes on. `Upgrade` installs a newer
binary, `Stop` ends a process anywhere. A pricing table is an arbitrary function
from lines to costs or "cannot price". `online`, chosen at the start, says
whether the machine ever fetches a table. Reconcile refines Ledger with the
identity mapping on the two tables (`LedgerSpec` is a property of its run).

### Replay, Rebuild: reading the logs again

`Replay` states what the events table is as a function of the set of lines read:
one row per response read, of a line that no other line of it outgrows, at that
line's own price. `Rebuild` says when lines are read: by a watcher at any time,
and by `backfill` and `backfill --rebuild`, which check the coverage
(`CheckRebuildSafe`), wipe, list the logs and scan them line by line, while a
pruner removes logs. An insert may fail and be counted, a line over 8 MB ends
the command, a kill may come anywhere; what was wiped then stays wiped.

### Enforcement: from the insert to the signal

One action per step of `pipeline.Handle`: store, check the lock, evaluate the
rules at the line's timestamp, evaluate the team policies now, and for each
breached entry lock, kill, report. Around it sessions that write lines, users
that unlock and launch again, midnight, and crashes of the watcher at any
step. Time is counted in days; a rule's period is a number of days. The
constant `MayFail` names, for each scope, the calls that may return an error:
`insert`, `check` (IsLocked, Release), `lock` (Acquire, Prune), `query`, `kill`,
`queue`. Every line costs one unit, so no sum ever falls here; in the code a
correction, or a longer line after midnight, can lower one (Ledger has both).
`handler.wrote` is a history variable: a lock was written for the line in hand.
`Unlock` is one step. Scopes without a branch and lock files
shared by scopes are parameters (`Branchless`, `FileOf`).

### Watcher: from the file system to the handler

Logs are sequences of units ("part", "big", "end"); writers create, append a
piece, truncate, remove and create again. The walk of `initialScan` and
`addDirRecursive` is a set of pending visits (watch a directory, list it, visit
what was listed), each its own step while the disk changes. `MayFail` names the
calls that may fail: `stat` (of the root of a walk), `list` (a listing yields part
of the directory, and the walk goes on), `add` and `read`. None is tried again, so
a directory passed over is marked "failed" (`PassOver`) and a log "unread". The
event queue merges an event into an identical last one as inotify does. `processFile` is
three kinds of step: take the region up to the last newline, deliver its lines
one by one, store the offset. `delivered` and `excused` are history variables:
the lines of the present log the handler was called for, and why lines of it may
be left unread (truncation not yet noticed, a failed listing or read).

### PriceTable, PriceRefresh: the signed prices

`PriceTable` is the abstract specification: a process prices with one whole
published release whose data date never goes back while the process runs.
`PriceRefresh` implements it (`Table == INSTANCE PriceTable WITH inForce <- ...`;
`TableOnlyMovesForward` is its specification under that mapping): loading the
cache at the start of a command, the conditional request with the cached ETag,
the signature request, verification, the plausibility gates, the swap of the
table, and the bundle, signature and ETag each written to a temporary file and
renamed. Watchers, one-shot commands and `pricing refresh` share the six files.
The server is external: it publishes between any two requests and may hand out
an older release again; files may be damaged on disk.

### Periods, SyncWindow: what a cap sees and what the team's server is sent

`Periods` is the calendar of `internal/budget/evaluator.go` and of the sums in
`internal/db/db.go`: a period of the user's time zone becomes two instants, and
those become UTC days. `SyncWindow` adds the spend records of `sync`: the
aggregates of a window that begins at an hour (`SyncAggregates`), whole days
packed into requests under two limits (`NextRequest`), each pushed or lost or
accepted without an answer, and overwriting on the server. An amount is the set
of responses it is the sum of, so a property can say what was taken away.
Responses arrive late, and a longer line moves one to the next day (not back, and
not to another branch).

### GuardSync: between the machine and the team's server

Policies are versions: the server's set is a number that only grows (0 for no
policies), and the ETag of a set is its number. They come by the watcher's poll
(`Poll`, `Apply`) and in the answer to a push of `sync`, and both save them in
`policies.json` in separate steps (`Truncate`, `Write`, `Rename`, `RemoveTmp`)
through the one temporary file they share; `file` is the file behind a process's
open descriptor, which a rename by another process moves along. The audit events
of breaches (`Fire`, once in a run of the watcher) and of `unlock` (`Override`)
enter the queue `guard_pending`, whose row ids are AUTOINCREMENT. `SyncRead`,
`SyncPush`, `SyncDelete`, `SyncPushMore`, `SyncPushed`, `SyncEtag` and a save
are one run of `sync`; `SyncAbort` stands for a rejected request and for a kill,
`WatchStop` for every end of the watcher. Any number of syncs overlap. The
server is external: it records an event by its dedup key, may do so and have its
answer lost, and answers a push in one of the ways `Answers` lists.

`AuditTrail` is the abstract specification of the events' way: what was accepted
waits until it was reported, what is reported had waited, and the server keeps
it. GuardSync implements it (`Trail == INSTANCE AuditTrail WITH waiting <-
KeysOf(pending), reported <- recorded`; `KeepsTheTrail` is its specification
under that mapping): a push is a `Report`, a deletion a `Settle`, and the push of
a sync whose rows another one has deleted reports nothing new.

### How they relate

Enforcement uses the database through `stored` (which lines are in the events
table); Ledger justifies it: the rollups Enforcement sums over are the sums of
the stored events. Watcher's `delivered` lines are the lines Rebuild, Reconcile
and Enforcement read; all three let a line be read again at any time, which is
what a restart of Watcher does. Rebuild EXTENDS Replay, which EXTENDS Ledger:
its reads are the ledger's own inserts, and `RebuildImplementsLedger` proves that
its walk takes only ledger steps. PriceRefresh is where Reconcile's tables
come from: `Once` there is a refresh that installed. Periods gives the days
whose rollups Enforcement's `Spend` adds. Enforcement takes the policies in
force as given and ends with an event in the audit queue; GuardSync is where
those policies come from and where that event goes.

## 3. The runs

| Run | Question and result | Instance |
|---|---|---|
| `reconcile` | Do all programs drive the database only through the ledger's operations, with rollups equal to events, one row per response and no row lost? Is the watermark sound, does a priced row stay priced, does every pass end? Yes. | One process under any command (its ingest path, refresher and pass interleave), two tables, three lines (one response of two lines across midnight, one model only the newer table knows), batches of one row, a legacy row. 143 000 states. |
| `rebuild` | Is the store a function of the lines read, and do the rollups sum one line of every response read? Does a backfill that ends cleanly store all that the logs hold, and an unforced rebuild reach back as far as the database did? Yes. | Two logs of five lines: a response across midnight whose last line the other log repeats, a line that cannot be priced, one behind a line too long. 196 000 states. |
| `rebuild_loss` | Is an unforced rebuild refused when it would lose history? **No** (finding). | The same. |
| `enforcement` | Does every lock have a cause, is one in force weakened only by `unlock` or by a shorter rule the same line has breached too, is a session stopped only under a scope over a cap, is what the team is told true, and is a runaway session stopped? Yes, with calls failing, a crash at any step, late lines, unlocks and relaunches. | Two scopes, one directory below the other; a warning, a two-day kill rule and a daily one after it that shortens its lock, a team policy that lengthens one; two days, two lines per log, one crash; all calls but the lock check fail for the first scope, the lock check for the second. 443 000 states. |
| `watcher` | When the watcher is idle, has it delivered every complete line, watched every directory and got its offsets right, but for what failing calls left out? Yes, with failing stats, listings, watches and reads, truncation, replacement and a restart. | A log in a directory of a directory, five units, one replacement or truncation, one restart. 623 000 states. |
| `prices` | Does the table in force implement PriceTable, does the cached ETag name the cached bundle, does a new release reach the watcher? Yes. | A watcher and a process that runs commands or `pricing refresh`; three releases of two models, where the third is plausible after the second but not after the built-in one; one fault. 213 000 states. |
| `prices_304` | Does "not modified" mean that the watcher's own table is current? **No** (finding). | The same, no fault. |
| `sync` | Does the server hold only what was recorded, does a push take away only what has moved, has a sync that ends sent all it read, and does a cap see its whole period? Yes. | Two syncs, two responses of one key, two days with their first and last hours, requests of one record, zones -8, 0 and 7. 191 000 states. |
| `sync_window` | Is sending a day again safe? **No** (finding). | One sync run repeatedly, three responses, two keys. |
| `guard_queue` | Is every queued audit event in the queue or with the server, and is each step one of AuditTrail? Yes, with overlapping syncs, lost answers, failed deletes and kills. | Two syncs, three keys, one row per push, four row ids, unreadable answers. 283 000 states. |
| `guard_policies` | Do the policies in force never go back, and does a published set reach a running watcher? Yes, through failed saves and races on the cache file. | One sync, three versions, no events. 238 000 states. |
| `guard_empty` | Is an ETag never cached beside an empty policy set? **No** (finding). | One sync, one version. |

The bounds are `MaxTable`, `MaxDay`, `MaxLines`, `MaxCrashes`, `MaxUnits`,
`MaxGen`, `MaxFaults`, `Newest`, `LastDay`, `MaxVersion`, `MaxRows`, and the sizes
of the sets; `BatchSize`, `BatchLimit`, `MaxSpend`, `MaxUsage` and `MaxJump` are
limits of the code, small in the runs (`MaxJump` is the code's 10). Why they are
enough: two lines per scope are what a cap of one and a restart need; two days
are what a late line needs; five units hold two complete lines and the beginning
of a third, or one written in pieces after another was replaced; batches of one
make every pass cross several, of which one stays unpriceable; requests of one
record make every sync of two days send two; three releases are a built-in
table, one that passes the gates and one that passes only after it; three
versions are an old cache, the set a watcher holds and a newer one; four row ids
let a key be queued again after its row was deleted. All that the bounds cut
off in the safety properties is what the theorems of section 4 are for.

GuardSync is split over two runs because its halves, the queue and the policies,
multiply each other's states; its theorems are about both at once. The `sync` run
uses the symmetry of its two processes, which no property tells apart. Deadlock
is checked in all but two modules: in Enforcement and Watcher the logs, the days
and the crashes are bounded, so a behaviour does end, and `CHECK_DEADLOCK FALSE`
says so.

`reconcile` has one process at a time; with two, the state space is too large for
the five minutes of a run. The theorems about Reconcile are for any number of
processes at once.

### Fairness

- `FairReconcileSpec`: weak fairness of `PassStep(p)`. A running process keeps
  executing its pass (a sequence of calls with a SQLite busy timeout). Nothing
  is assumed of starts, ingests, refreshes or failures. The lines are finitely
  many in the run, so `PassEnds` shows that rows left unpriceable do not hold a
  pass and that replacements during it do not either; that new rows arrive faster
  than a pass reads them for ever is outside it.
- `FairEnforcementSpec`: weak fairness of `StartWatch`, of `HandleStep` and of
  `ReadLine(s)`. The watcher is run as a service and restarted; `Handle` is
  straight-line code; a pending line is read because fsnotify reported it
  (Watcher shows that it is). Sessions, users and the clock promise nothing, and
  `RunawayStopped` is about scopes of which only the lock check fails, since a
  session whose kill fails for ever is not stopped.
- `FairGuardSyncSpec`: weak fairness of `PollerStep`. The poller's ticker fires
  for as long as the watcher runs, and a request is answered in the end. Nothing
  is assumed of syncs, of the server's owner, of breaches or of saves, which may
  all fail: a poller that cannot save applies what it was told.
- `FairPriceRefreshSpec`: weak fairness of `RefreshStep(p)` for the watcher. The
  refresher's timer fires while the watcher runs, and a request ends at the
  latest with its timeout of 15 s. Faults are finitely many.

## 4. The theorems

All hold for every value of the constants that satisfies the named ASSUMEs,
which type the constants and state what the code relies on: finite sets of
lines and keys, non-negative costs, a total order of uuids, that a table lists
every model it prices (`ReconcileTables`), that a rule of a scope sums that scope,
that a calendar's periods follow each other. Where a theorem needs more, it says
so in an ASSUME of its own, named below; the instances of section 3 satisfy it.

- **Ledger.** `LedgerInv` is the conjunction of the type invariant, the rollup
  equation, one row per response, and "unpriced rows cost nothing". The
  conjuncts need each other: repricing adds a row's new cost without taking an
  old one away, which is right only because an unpriced row costs nothing; a
  replacement takes away the contribution of one row, right because there is only
  one. The rollups' proof goes through `RowIn` and `RowOut`: adding or removing a
  row and moving its rollup keeps the equation, so `StoreLine` is a `RowOut` and a
  `RowIn`; the batches are the same argument for a set of rows, by the sum laws at
  the head of `LedgerProofs`. `CountsMatchRows` is a second equation, that the
  event counts of all keys together are the number of rows, by the same laws with a
  weight of one per row; of one key it is not true, since a replacement over
  midnight leaves the count where it was (db.go 522-524). `OutputsGrow` and `RowsAreKept` are action properties from the
  same invariant.
- **Reconcile.** `ReconcileInv` adds to the type that every stored cost is one the
  callers compute (`CostsComputed`), which is what makes a batch that was read
  earlier a legal argument of the ledger's operations. With it every step of every
  process is a step of `LedgerNext` or leaves the ledger alone
  (`ReconcileImplementsLedger`), and the ledger's theorems carry over
  (`PassesKeepTheRollups`).
  `SkippedPassesMissNothing` proves `SkipIsSound` for any number of processes at
  once, as long as those that run hold one table (`OneTableAtATime`; a watcher of
  the old binary beside `status` of the new one breaks it). Its invariant
  `SkipInv` says, while no table is fetched, that tables only move forward (`TablesInTurn`), that a watermark naming the table in
  force means every row agrees with that table (`WatermarkHolds`), and how far a
  running pass has come: the rows that are still wrong are ahead of its cursor or
  in the batch in its hand (`PassSoFar`); `FitsInv` and `PricesAreKept` show that
  a priced row stays priced, if moreover no table drops what an older one priced
  (`TablesKeepPrices`).
- **Rebuild.** `RebuildInv`: what is stored is a largest line of each response
  read (`ReplayInv`), a line the walk has passed was read, and while nothing is
  pruned the line that made the coverage check pass is on disk until the walk ends,
  and read by then. `ReadsConverge`,
  `RebuildRestoresTheLogs` and `RebuildReachesBack` follow. Every step of a walk,
  and of the watcher beside it, is a step of the ledger (`RebuildImplementsLedger`:
  a read is a `StoreLine` or changes nothing, a wipe a `Reset`), so the ledger's
  equation holds throughout a rebuild, and with `ReadsConverge` it gives
  `RollupsAreOfTheReads`: what caps are evaluated on is the sum of one largest line
  of every response read since the wipe.
- **Enforcement.** `LocksHaveACause` from `EnforcementInv`: the entries still to be
  acted on are over their caps (`TodoIsOver`), locks are (`LocksAreOver`), and
  what is over its cap stays so because stored lines and logs only grow
  (`OverCapsGrow`). `LocksAreKept` proves `ActiveLockKept` for any rules: each
  kill writes over the lock there is, but past the check of its scope the handler
  meets no lock but one written for the line in hand (`OwnLocksOnly`).
  `SessionsStopForACause` proves `StopHasCause`, with shared lock files too: a kill
  that was decided, for a lock or for an entry, has its cause still
  (`KillIsDue`), since the lock may go between the check and the signal but what
  was stored stays. `AuditsHaveACause` is the same argument for the audit queue
  (`AuditIsOver`): the entry a report is about was over when it was decided, a lock
  whose release is reported had a cause, and both are so still.
- **Watcher.** `WatcherInv` says who still owes what: a directory under a watched
  one is watched, or a visit or an event that leads there is pending
  (`DirsOwed`), unless a call that failed passed it over; a complete line beyond the offset has a visit, an event or a reader
  coming (`LogsOwed`), and one before it was delivered or is in the reader's hand
  (`LinesOwed`); a removal is served before what follows it (`RemovalsFirst`). When
  nothing is pending nothing is owed, which is `NoDirOverlookedCorrect`,
  `OffsetFitsCorrect` and `CaughtUpCorrect`, for any tree and any writes.
- **PriceRefresh.** `PriceRefreshImplementsPriceTable`: a bundle that a process
  holds verified is a published release, so every swap is a `MoveForward` and
  everything else a stutter. `PriceRefreshEtagCorrect` is about the order of the
  three renames: the ETag comes last, so one that names the newest release was
  renamed after the bundle and signature of that release.
- **SyncWindow.** `SyncInv`: what a sync read is stored since (`ReadsAreStored`),
  days left have records (`LeftIsRead`), and what it has sent is there unless
  another push came between (`SentIsThere`). From it the three properties of
  pushes; `CapSeesThePeriodCorrect` is arithmetic over the bounds of Periods.
- **GuardSync.** `EventsReachTheServer`: a row that is deleted is one that was
  sent. It needs `IdsNameRows`: an id that a sync holds still names the event it
  was read with, or no row, which is what AUTOINCREMENT gives, and an event that a
  sync holds is queued or recorded. `GuardSyncImplementsAuditTrail` takes each
  action to its step of AuditTrail or to none; the second half of `IdsNameRows` is
  what makes a late push a `Report`. `PoliciesGoForward`:
  nothing cached or about to be saved is newer than the server's set
  (`NothingNewer`), and what the poller is about to apply is at least what is in
  force (`PollIsNewer`), since it comes from its own answer and not from the file
  that syncs write.

Only model-checked are the four liveness properties, which are beyond the prover:
`PassEnds`, `RunawayStopped`, `ChangesReachTheWatcher`, `NewReleaseReachesWatcher`.
No module here declares a RECURSIVE operator, and no proof needs induction over
data.

## 5. Where the code and its comments disagree

Four runs each show one such place; `PROJECT.json` quotes the lines under
`findings`.

1. `guard_empty`: a push answered without policies empties the cache and leaves
   its ETag, so the next watcher is told that nothing changed and enforces nothing.
2. `prices_304`: the watcher sends the ETag of the shared cache; after another
   process refreshed, it is told that nothing changed and keeps its older table.
3. `sync_window`: a sync sends its oldest day only from the hour of its window, and
   overwrites the complete amount of that day.
4. `rebuild_loss`: a log pruned from the middle of the history passes the coverage
   check, and the rebuild loses its responses.

The properties that hold have limits a reader should know:

- `SkipIsSound` and `PricedStaysPriced` are about machines that fetch no table and
  on which the running processes hold the same one. When the refresher swaps the
  table between `PriceLine` and `StorePriced`, a line priced with the old table is stored after
  the pass that set the watermark, and waits for the next forced pass. A process
  with an older table that reads a longer line of a response replaces a priced row
  by an unpriced one.
- `StopHasCause` says that a session is stopped only where a cap is exceeded, in
  any period: rules are evaluated at the line's own time, so lines of an earlier
  period, read late or again after a restart, kill a session of today.
- `CaughtUp` speaks of the lines before the first one over 10 MB. Such a line hides
  the complete lines behind it: watcher.go 341-344 logs the error and moves the
  offset past the whole region, lines that were never scanned included, and a
  restart stops at the same line again.
- `ActiveLockKept` allows one thing besides `unlock`: when one line breaches a
  longer period and then a shorter one (a less specific rule, or a team policy,
  which come later), the second write shortens the lock, because `Acquire`
  overwrites (lockstore.go 105-107). The scope is open again before the longer
  period rolls over, where unlock.go 31-33 says that locks expire; the next line
  after the shorter period locks it again.
- A directory that `Add` refused, whose stat failed or that a failed listing left
  out is never watched, and no log below it is read, until its name is created
  again or the watcher restarts; a log it left out waits for its next write. The walk logs the error at most and goes on
  (watcher.go 182-189, 242-248). `NoDirOverlooked`, `CaughtUp` and `OffsetFits`
  except exactly that.
- `StoreIsLargest` leaves open which of several equally long lines is stored. That
  depends on the order of reads, although db.go 494-495 says that the result does
  not; it shows when they were written on two days.
- `AuditHasCause` and `LockHasCause` say that a cap is exceeded by what is stored,
  in a model where sums do not fall; after a correction that lowers a price the
  lock, or the event, stays although its sum has gone under the cap.
- `ChangesReachTheWatcher` is about a set that the watcher's own ETag does not
  name; an older set under the newest ETag waits for the next change.
  `NeverGoesBack` is about a running watcher. A sync that read an older set may
  save it under the newer ETag it finds in the cache; a watcher started after that
  holds the older set, and is told "not modified", until the server's set changes.
- `EtagNamesTheCache` and `NewReleaseReachesWatcher` are about a machine where one
  process writes the cache, no file was damaged and the server only moves forward;
  `prices_304` shows what two writers do.
- `TableOnlyMovesForward` is about a running process. One restarted with an
  unloadable cache begins with its built-in table again.
- `SyncedDaysMatch` and `PushTakesOnlyWhatMoved` except a sync that another pushed
  beside. A response that a longer line moved over UTC midnight between two syncs
  stays in the old day on the server when nothing else is left of that day; with
  `--no-branch` and for usage records, records of several branches share a key.
- `CapSeesThePeriod` says what a cap outside UTC sees beside its period: the rest
  of the UTC days at its two ends (config.go 55 speaks of the local day alone).
- `HistoryReachesBack` holds if no log is pruned while the rebuild runs.
- A scope without a git branch (`Branchless`) is never locked nor killed, because
  `Acquire` refuses it (lockstore.go 114) and the kill comes after it.

## 6. Not modelled

- Notifications inside `Handle`, and so the time their retries take (at most four
  attempts of 15 s); the warnings of team-wide policies; a crash between marking a
  breach as notified and queueing its event; overflow of the fsnotify queue;
  removal of directories.
- The last second of a period, when a lock has expired and its cap is still
  exceeded; changes of the clocks within a period.
- The daily limit and the cooldown of refreshes that an unknown model triggers;
  the gate on prices dated in the future; a lookup that sees two tables because
  pricing.go 262 loads the table more than once (hazard, `PROJECT.json`).
- Sums that fall, in Enforcement; an `unlock` cut in two by the watcher (it reads
  the lock, removes it and queues the override in three calls).
- Responses that a longer line moves back in time or to another branch while a
  sync runs, and resets of the database meanwhile; the contents of pull-request and usage
  records; several backfills at once.
- The parser, the interval arithmetic of prices (a table is an arbitrary
  function here) and its floats, the patterns of rules, git lookups, paths,
  printing, one-file edits, the device enrolment request, the dataset generator:
  pure functions, data, or requests whose result nothing else waits for.

## 7. What could be added

1. `Notify`: the retry loop, and its delay inside `Handle`, as a bound on how long
   a line waits.
2. The lookup of an interval over a swap of the table, to say which mixtures of two
   tables a price can come from.
3. A machine in one module: Watcher's deliveries, Rebuild's walk and Enforcement's
   handler on one store, instead of the argument of section 2.
