----------------------------- MODULE Reconcile ------------------------------
(***************************************************************************)
(* The programs that write the ledger, and the reconciliation pass of      *)
(* internal/reconcile: a watcher, `status`, `backfill`, `backfill          *)
(* --rebuild` and `pricing refresh`, each an operating-system process with *)
(* its own pricing table in memory, over the one database of Ledger, the   *)
(* one watermark in its meta table and the one cached price bundle.        *)
(*                                                                         *)
(* A pricing table is named by its identity (tag@commit) and numbered by   *)
(* its data date: 1..MaxTable.  Price[t][l] is what table t computes for   *)
(* line l at the line's own timestamp.  Every database call of a pass is a *)
(* step of its own, and the ingest path prices a line at one step and      *)
(* stores it at a later one, so passes, ingests and table swaps interleave *)
(* as the processes and goroutines do.                                     *)
(***************************************************************************)
EXTENDS Ledger

CONSTANTS
    Procs,       \* processes
    Commands,    \* the commands each process may be started as
    Models,      \* model ids in the log
    NoModel,     \* no model is being repriced
    ModelOf,     \* the model of a line
    MaxTable,    \* the newest pricing table
    Known,       \* Known[t]: pricing.KnownModels of table t
    Price,       \* Price[t][l]: pricing.CostForModelAt in table t
    NoPrice,     \* ErrUnknownModel or ErrNoRateAtTime
    NoLine,      \* the ingest path holds no line
    Rank,        \* the order of the uuids, from 1
    AutoUpdate   \* auto_update_pricing in the config

Tables == 1..MaxTable
CommandNames == {"watch", "status", "backfill", "rebuild", "refresh"}

ASSUME ReconcileSets ==
    /\ MaxTable \in Nat \ {0}
    /\ Commands \in [Procs -> SUBSET CommandNames]
    /\ NoModel \notin Models /\ NoLine \notin Lines
    /\ NoPrice \notin Nat
    /\ AutoUpdate \in BOOLEAN
    /\ BatchSize > 0

\* KnownModels lists every id a table prices: the "[1m]" display suffix that
\* pricing also accepts never appears in a log (docs/decisions.md).
ASSUME ReconcileTables ==
    /\ ModelOf \in [Lines -> Models]
    /\ Known \in [Tables -> SUBSET Models]
    /\ Price \in [Tables -> [Lines -> Costs \cup {NoPrice}]]
    /\ \A t \in Tables, l \in Lines : Price[t][l] # NoPrice => ModelOf[l] \in Known[t]

ASSUME ReconcileRank ==
    /\ Rank \in [Lines -> Nat \ {0}]
    /\ \A l, u \in Lines : Rank[l] = Rank[u] => l = u

VARIABLES
    online,      \* the published bundle can be fetched, for the whole behaviour
    binary,      \* the table compiled into the installed binary
    cache,       \* the cached bundle, 0 when there is none
    watermark,   \* meta row reconcile.last_pricing_id, 0 when absent
    proc,        \* each process: its command, its table, whether it ingests
    pass,        \* its reconciliation pass
    ingest       \* the line it has priced and not yet stored

reconcileVars == <<events, rollups, online, binary, cache, watermark, proc, pass, ingest>>

Batch == UNION {[S -> Costs] : S \in Batches}

NoPass == [at |-> "idle", force |-> FALSE, models |-> {}, model |-> NoModel,
           after |-> 0, batch |-> [l \in {} |-> 0]]
NoIngest == [line |-> NoLine, priced |-> FALSE, cost |-> 0]
Off == [cmd |-> "off", table |-> 1, ready |-> FALSE]

PassSteps == {"check", "has", "models", "next", "read", "apply", "scan", "fix", "mark"}

Process == [cmd : CommandNames \cup {"off"}, table : Tables, ready : BOOLEAN]
Pass == [at : PassSteps \cup {"idle"}, force : BOOLEAN, models : SUBSET Models,
         model : Models \cup {NoModel}, after : Nat, batch : Batch]
Ingest == [line : Lines \cup {NoLine}, priced : BOOLEAN, cost : Costs]

ReconcileTypeOK ==
    /\ LedgerTypeOK
    /\ online \in BOOLEAN
    /\ binary \in Tables
    /\ cache \in 0..MaxTable
    /\ watermark \in 0..MaxTable
    /\ proc \in [Procs -> Process]
    /\ pass \in [Procs -> Pass]
    /\ ingest \in [Procs -> Ingest]

-----------------------------------------------------------------------------
(* Starting and stopping.                                                  *)

\* The table a watcher or `status` adopts: the cached bundle when the user
\* opted in and it is not older than the built-in one.
LoadCachedTable == IF AutoUpdate /\ cache >= binary THEN cache ELSE binary

Run(force) == [NoPass EXCEPT !.at = "check", !.force = force]

Start(p, cmd, table, newPass) ==
    /\ cmd \in Commands[p]
    /\ proc[p].cmd = "off"
    /\ proc' = [proc EXCEPT ![p] = [cmd |-> cmd, table |-> table,
                                    ready |-> newPass = NoPass]]
    /\ pass' = [pass EXCEPT ![p] = newPass]
    /\ UNCHANGED <<online, binary, watermark, ingest>>

RunWatch(p) ==
    /\ Start(p, "watch", LoadCachedTable, Run(FALSE))
    /\ UNCHANGED <<ledgerVars, cache>>

RunStatus(p) ==
    /\ Start(p, "status", LoadCachedTable, Run(FALSE))
    /\ UNCHANGED <<ledgerVars, cache>>

\* An explicit backfill is a repair request: the pass before the walk is
\* forced.  It does not load the cached bundle.
RunBackfill(p) ==
    /\ Start(p, "backfill", binary, Run(TRUE))
    /\ UNCHANGED <<ledgerVars, cache>>

\* A rebuild wipes the ledger and walks the logs without a pass; the
\* watermark stays.
RunRebuild(p) ==
    /\ Start(p, "rebuild", binary, NoPass)
    /\ Reset
    /\ UNCHANGED cache

\* A verified bundle is refused when its data is older than the table in
\* force; the write of the cache may fail, and that is not an error.
Refreshed(table, t) ==
    /\ online
    /\ t \in Tables /\ t >= table
    /\ cache' \in {cache, t}

\* `pricing refresh` fetches over the built-in table and runs a forced pass.
RunPricingRefresh(p) ==
    \E t \in Tables :
        /\ Refreshed(binary, t)
        /\ Start(p, "refresh", t, Run(TRUE))
        /\ UNCHANGED ledgerVars

\* pricing.Install swaps the table pointer of the process; a line that is
\* being priced keeps the price it has.
Install(p, t) == proc' = [proc EXCEPT ![p].table = t]

\* The watcher's refresher goroutine, concurrent with its ingest path.
Once(p) ==
    /\ AutoUpdate
    /\ proc[p].cmd = "watch" /\ proc[p].ready /\ pass[p].at = "idle"
    /\ \E t \in Tables :
        /\ Refreshed(proc[p].table, t)
        /\ Install(p, t)
    /\ pass' = [pass EXCEPT ![p] = Run(TRUE)]
    /\ UNCHANGED <<ledgerVars, online, binary, watermark, ingest>>

\* A process exits or is killed at any point.
Stop(p) ==
    /\ proc[p].cmd # "off"
    /\ proc' = [proc EXCEPT ![p] = Off]
    /\ pass' = [pass EXCEPT ![p] = NoPass]
    /\ ingest' = [ingest EXCEPT ![p] = NoIngest]
    /\ UNCHANGED <<ledgerVars, online, binary, cache, watermark>>

\* A new release is installed; running processes keep their tables.
Upgrade ==
    /\ binary < MaxTable
    /\ binary' = binary + 1
    /\ UNCHANGED <<ledgerVars, online, cache, watermark, proc, pass, ingest>>

-----------------------------------------------------------------------------
(* reconcile.Run, one database call at a time.                             *)

At(p, step) == pass[p].at = step

\* The pass goes on; the table of a process does not change during one.
Advance(p, newPass) ==
    /\ pass' = [pass EXCEPT ![p] = newPass]
    /\ UNCHANGED <<proc, watermark>>

Goto(p, step) == Advance(p, [pass[p] EXCEPT !.at = step])

\* Run returns, with or without an error: its callers go on either way.
Return(p) ==
    /\ pass' = [pass EXCEPT ![p] = NoPass]
    /\ proc' = [proc EXCEPT ![p].ready = TRUE]

\* Fault: no LIMIT.
IsAll(R, S) == R = S

\* ORDER BY uuid LIMIT: the rows R that come first among S.
IsFirst(R, S) ==
    /\ Cardinality(R) <= BatchSize
    /\ R = S \/ Cardinality(R) = BatchSize
    /\ \A l \in R, u \in S \ R : Rank[l] < Rank[u]

CheckWatermark(p) ==
    /\ At(p, "check")
    /\ \/ /\ ~pass[p].force /\ watermark = proc[p].table
          /\ Return(p) /\ UNCHANGED watermark
       \/ /\ pass[p].force \/ watermark # proc[p].table
          /\ Goto(p, "has")
    /\ UNCHANGED ledgerVars

HasUnpriced(p) ==
    /\ At(p, "has")
    /\ Goto(p, IF UnpricedRows = {} THEN "scan" ELSE "models")
    /\ UNCHANGED ledgerVars

UnpricedModels(p) ==
    /\ At(p, "models")
    /\ Advance(p, [pass[p] EXCEPT !.at = "next",
                     !.models = {ModelOf[l] : l \in UnpricedRows}
                                \cap Known[proc[p].table]])
    /\ UNCHANGED ledgerVars

\* The next model's backlog; after the last one the priced rows, from the
\* start of the table.
NextModel(p) ==
    /\ At(p, "next")
    /\ \/ \E m \in pass[p].models :
            Advance(p, [pass[p] EXCEPT !.at = "read", !.models = @ \ {m},
                                       !.model = m, !.after = 0])
       \/ /\ pass[p].models = {}
          /\ Advance(p, [pass[p] EXCEPT !.at = "scan", !.model = NoModel, !.after = 0])
    /\ UNCHANGED ledgerVars

\* A batch read keeps the cost each row was read with.
ReadBatch(p, S, some, none) ==
    /\ \E rows \in SUBSET {l \in S : Rank[l] > pass[p].after} :
        /\ IsFirst(rows, {l \in S : Rank[l] > pass[p].after})
        /\ IF rows = {} THEN Goto(p, none)
           ELSE Advance(p, [pass[p] EXCEPT !.at = some,
                              !.batch = [l \in rows |-> events[l].cost]])
    /\ UNCHANGED ledgerVars

UnpricedBatch(p) ==
    /\ At(p, "read")
    /\ ReadBatch(p, {l \in UnpricedRows : ModelOf[l] = pass[p].model}, "apply", "next")

PricedBatch(p) ==
    /\ At(p, "scan")
    /\ ReadBatch(p, PricedRows, "fix", "mark")

PriceableRows(p) ==
    {l \in DOMAIN pass[p].batch : Price[proc[p].table][l] # NoPrice}

\* Fault: the cursor stays while rows remain that cannot be priced.
NextBatchFromStart(p, step) ==
    Advance(p, [pass[p] EXCEPT !.at = step, !.batch = NoPass.batch])

\* The cursor advances past the batch, the unpriceable rows in it included.
NextBatch(p, step) ==
    \E last \in DOMAIN pass[p].batch :
        /\ \A l \in DOMAIN pass[p].batch : Rank[l] <= Rank[last]
        /\ Advance(p, [pass[p] EXCEPT !.at = step, !.after = Rank[last],
                                      !.batch = NoPass.batch])

RepriceBatch(p) ==
    /\ At(p, "apply")
    /\ LET S == PriceableRows(p)
       IN  ApplyReprice(S, [l \in S |-> Price[proc[p].table][l]])
    /\ NextBatch(p, "read")

\* Fault: the difference is applied whatever the row costs by now.
CorrectUnguarded(p) ==
    /\ At(p, "fix")
    /\ LET S == PriceableRows(p)
           table == Price[proc[p].table]
       IN  /\ events' = [l \in Lines |-> IF l \in S \cap PricedRows
                                         THEN [events[l] EXCEPT !.cost = table[l]]
                                         ELSE events[l]]
           /\ rollups' = [k \in Keys |-> [rollups[k] EXCEPT !.cost =
                             @ + Sum(S \cap LinesOf(k), table)
                               - Sum(S \cap LinesOf(k), pass[p].batch)]]
    /\ NextBatch(p, "scan")

CorrectBatch(p) ==
    /\ At(p, "fix")
    /\ LET S == {l \in PriceableRows(p) : Price[proc[p].table][l] # pass[p].batch[l]}
       IN  ApplyCorrection(S, [l \in S |-> pass[p].batch[l]],
                              [l \in S |-> Price[proc[p].table][l]])
    /\ NextBatch(p, "scan")

SetWatermark(p) ==
    /\ At(p, "mark")
    /\ watermark' = proc[p].table
    /\ Return(p)
    /\ UNCHANGED ledgerVars

PassStep(p) ==
    /\ \/ CheckWatermark(p)
       \/ HasUnpriced(p)
       \/ UnpricedModels(p)
       \/ NextModel(p)
       \/ UnpricedBatch(p)
       \/ RepriceBatch(p)
       \/ PricedBatch(p)
       \/ CorrectBatch(p)
       \/ SetWatermark(p)
    /\ UNCHANGED <<online, binary, cache, ingest>>

\* Fault: the watermark is written when the pass ends, complete or not.
FailMarks(p) ==
    /\ pass[p].at # "idle"
    /\ watermark' = proc[p].table
    /\ Return(p)
    /\ UNCHANGED <<ledgerVars, online, binary, cache, ingest>>

\* Any of the calls fails: the pass ends without its watermark.
PassFails(p) ==
    /\ pass[p].at # "idle"
    /\ Return(p)
    /\ UNCHANGED <<ledgerVars, online, binary, cache, watermark, ingest>>

-----------------------------------------------------------------------------
(* The ingest path of the watcher and of the log walk of a backfill.  A    *)
(* restart reads every log from the start, so a line comes at any time.    *)

PriceLine(p, l) ==
    /\ proc[p].cmd \in {"watch", "backfill", "rebuild"} /\ proc[p].ready
    /\ ingest[p] = NoIngest
    /\ LET price == Price[proc[p].table][l]
       IN  ingest' = [ingest EXCEPT ![p] =
                        [line |-> l, priced |-> price # NoPrice,
                         cost |-> IF price = NoPrice THEN 0 ELSE price]]
    /\ UNCHANGED <<ledgerVars, online, binary, cache, watermark, proc, pass>>

\* A failed insert is logged and the line is left out.
StorePriced(p) ==
    /\ ingest[p].line # NoLine
    /\ \/ ingest[p].priced /\ Insert(ingest[p].line, ingest[p].cost)
       \/ ~ingest[p].priced /\ InsertUnpriced(ingest[p].line)
       \/ UNCHANGED ledgerVars
    /\ ingest' = [ingest EXCEPT ![p] = NoIngest]
    /\ UNCHANGED <<online, binary, cache, watermark, proc, pass>>

-----------------------------------------------------------------------------

ReconcileInit ==
    /\ LedgerInit
    /\ online \in BOOLEAN
    /\ binary = 1
    /\ cache = 0
    /\ watermark = 0
    /\ proc = [p \in Procs |-> Off]
    /\ pass = [p \in Procs |-> NoPass]
    /\ ingest = [p \in Procs |-> NoIngest]

ReconcileNext ==
    \/ Upgrade
    \/ \E p \in Procs :
        \/ RunWatch(p)
        \/ RunStatus(p)
        \/ RunBackfill(p)
        \/ RunRebuild(p)
        \/ RunPricingRefresh(p)
        \/ Once(p)
        \/ Stop(p)
        \/ PassStep(p)
        \/ PassFails(p)
        \/ \E l \in Lines : PriceLine(p, l)
        \/ StorePriced(p)

ReconcileSpec == ReconcileInit /\ [][ReconcileNext]_reconcileVars

\* A running process keeps executing its pass; starting one, failing and
\* ingesting are not promised.
FairReconcileSpec == ReconcileSpec /\ \A p \in Procs : WF_reconcileVars(PassStep(p))

-----------------------------------------------------------------------------
(* Properties.  The rollups against the events are Ledger's, which every   *)
(* behaviour of this module implements: LedgerSpec is a property of it.    *)

\* Run may skip a pass because the table is the one the last completed pass
\* ran against: then nothing stored could gain a price from it, and every
\* stored price already agrees with it (reconcile.go 83-88), in a machine that
\* never fetches a table.  With fetches it is not so: a line priced with the
\* old table may be stored after the refresher's pass.
SkipIsSound ==
    \A p \in Procs : ~online =>
        LET t == proc[p].table
        IN  At(p, "check") /\ ~pass[p].force /\ watermark = t =>
              /\ \A l \in UnpricedRows : Price[t][l] = NoPrice
              /\ \A l \in PricedRows : Price[t][l] \in {NoPrice, events[l].cost}

\* A spend recorded in dollars is never turned back into an unpriced row:
\* "An event the table can no longer price keeps its stored cost"
\* (reconcile.go 150-151), except by a reset, in a machine that never fetches
\* a table.  With fetches a restart can read the longer line of a response
\* with the older built-in table.
PricedStaysPriced ==
    [][online \/ Stored' = {} \/ \A l \in PricedRows :
         \A u \in StoredIn(events') :
            u = l \/ (events'[u].resp = events[l].resp /\ events[l].resp # NoResp)
              => events'[u].priced]_reconcileVars

\* A pass that has started ends, even when rows stay unpriceable and other
\* processes go on storing and replacing rows: the cursor moves past every
\* batch (db.go 937-940, reconcile.go 249-251).
PassEnds == \A p \in Procs : pass[p].at # "idle" ~> pass[p].at = "idle"
=============================================================================
