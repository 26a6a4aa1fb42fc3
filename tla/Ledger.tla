------------------------------- MODULE Ledger -------------------------------
(***************************************************************************)
(* The state database of internal/db: the events table, one row per stored *)
(* log line, and the rollups table, one aggregate per key (project, git    *)
(* branch, UTC day).  Budget evaluation and Guard Mode read the rollups    *)
(* only, so a rollup that drifts from the events enforces a wrong cap and  *)
(* nothing ever recomputes it.                                             *)
(*                                                                         *)
(* Every operation is one SQLite transaction opened with _txlock=immediate *)
(* and is one action here; a crash inside it rolls it back, so it is no    *)
(* step.  The callers are left open: any line may be inserted at any time, *)
(* at any cost, and a batch may carry prices computed from any earlier     *)
(* state.  Reconcile gives the callers their programs.                     *)
(*                                                                         *)
(* A log line is written once and its uuid names it, so the attribution    *)
(* that a batch read carries (project, branch, timestamp) is the line's    *)
(* own: KeyOf, RespOf and OutputOf are functions of the line.  Costs are   *)
(* counted in whole units; float rounding is not modelled.  The token      *)
(* columns all move together and are represented by the output tokens.     *)
(***************************************************************************)
EXTENDS Integers, FiniteSets, Units

CONSTANTS
    Lines,      \* log lines, each named by its uuid
    Resps,      \* API responses: pairs (message_id, request_id)
    Keys,       \* rollup keys: (project, git_branch, UTC day)
    Costs,      \* the costs the callers compute
    NoResp,     \* message_id = ''
    NoRow,      \* the uuid is not in the events table
    RespOf,     \* the response a line belongs to, NoResp in older schemas
    KeyOf,      \* the rollup key of a line
    OutputOf,   \* its output tokens
    Legacy,     \* lines stored by a binary older than the message_id column
    BatchSize   \* LIMIT of the batch reads

ASSUME LedgerSets ==
    /\ IsFiniteSet(Lines) /\ IsFiniteSet(Keys)
    /\ Costs \subseteq Nat /\ 0 \in Costs
    /\ NoResp \notin Resps
    /\ Legacy \subseteq Lines
    /\ BatchSize \in Nat

ASSUME LedgerLines ==
    /\ RespOf \in [Lines -> Resps \cup {NoResp}]
    /\ KeyOf \in [Lines -> Keys]
    /\ OutputOf \in [Lines -> Nat]

Row == [resp : Resps \cup {NoResp}, cost : Nat, priced : BOOLEAN]
Rollup == [count : Int, tokens : Int, cost : Int, unpriced : Int]

ASSUME NoRowIsNoRow == NoRow \notin Row

VARIABLES
    events,     \* the events table
    rollups     \* the rollups table; an absent row reads as zeroes

ledgerVars == <<events, rollups>>

LedgerTypeOK ==
    /\ events \in [Lines -> Row \cup {NoRow}]
    /\ rollups \in [Keys -> Rollup]

-----------------------------------------------------------------------------
(* What the tables hold.                                                   *)

StoredIn(table) == {l \in Lines : table[l] # NoRow}
Stored == StoredIn(events)
UnpricedRows == {l \in Stored : ~events[l].priced}
PricedRows == {l \in Stored : events[l].priced}
LinesOf(k) == {l \in Lines : KeyOf[l] = k}

\* cost_usd as a column: a line without a row has none.
CostColumn(table) == [l \in Lines |-> IF table[l] = NoRow THEN 0 ELSE table[l].cost]

\* Fault: the response is not looked up, only the uuid.
ExistingByUuid(l) == Stored \cap {l}

\* lookupExisting: by (message_id, request_id) when the line has them, by
\* uuid otherwise.  A legacy row has message_id '' and is found by uuid only.
Existing(l) ==
    IF RespOf[l] # NoResp
    THEN {u \in Stored : events[u].resp = RespOf[l]}
    ELSE Stored \cap {l}

\* applyRollupDelta: an upsert that adds to every column.
ApplyRollupDelta(r, k, count, tokens, cost, unpriced) ==
    [r EXCEPT ![k] = [count    |-> @.count + count,
                      tokens   |-> @.tokens + tokens,
                      cost     |-> @.cost + cost,
                      unpriced |-> @.unpriced + unpriced]]

UnpricedDelta(priced) == IF priced THEN 0 ELSE 1

NewRow(l, cost, priced) == [resp |-> RespOf[l], cost |-> cost, priced |-> priced]

-----------------------------------------------------------------------------
(* The shared insert behind Insert and InsertUnpriced, one disjunct for    *)
(* each way out of it.                                                     *)

\* First sighting of the response.
InsertFirst(l, cost, priced) ==
    /\ Existing(l) = {}
    /\ events[l] = NoRow
    /\ events' = [events EXCEPT ![l] = NewRow(l, cost, priced)]
    /\ rollups' = ApplyRollupDelta(rollups, KeyOf[l], 1, OutputOf[l], cost,
                                   UnpricedDelta(priced))

\* The uuid is taken by a row that lookupExisting did not return: the INSERT
\* violates the primary key and the transaction rolls back.
InsertClash(l) ==
    /\ events[l] # NoRow
    /\ l \notin Existing(l)
    /\ \A u \in Existing(l) : OutputOf[u] <= OutputOf[l]
    /\ UNCHANGED ledgerVars

\* An earlier partial of the row already stored.
InsertPartial(l) ==
    /\ \E u \in Existing(l) : OutputOf[l] < OutputOf[u]
    /\ UNCHANGED ledgerVars

\* Faults of a replacement: an earlier partial wins; the old contribution is
\* taken from the new line's key; the event is counted again; the delete is
\* committed without the insert.
ReplaceAny(l, cost, priced) ==
    \E u \in Existing(l) :
        /\ u = l \/ events[l] = NoRow
        /\ events' = [events EXCEPT ![u] = NoRow, ![l] = NewRow(l, cost, priced)]
        /\ LET old == ApplyRollupDelta(rollups, KeyOf[u], 0, -OutputOf[u],
                                       -events[u].cost,
                                       -UnpricedDelta(events[u].priced))
           IN  rollups' = ApplyRollupDelta(old, KeyOf[l], 0, OutputOf[l], cost,
                                           UnpricedDelta(priced))

ReplaceAtNewKey(l, cost, priced) ==
    \E u \in Existing(l) :
        /\ OutputOf[u] <= OutputOf[l]
        /\ u = l \/ events[l] = NoRow
        /\ events' = [events EXCEPT ![u] = NoRow, ![l] = NewRow(l, cost, priced)]
        /\ rollups' = ApplyRollupDelta(rollups, KeyOf[l], 0,
                         OutputOf[l] - OutputOf[u], cost - events[u].cost,
                         UnpricedDelta(priced) - UnpricedDelta(events[u].priced))

ReplaceCounts(l, cost, priced) ==
    \E u \in Existing(l) :
        /\ OutputOf[u] <= OutputOf[l]
        /\ u = l \/ events[l] = NoRow
        /\ events' = [events EXCEPT ![u] = NoRow, ![l] = NewRow(l, cost, priced)]
        /\ rollups' = ApplyRollupDelta(rollups, KeyOf[l], 1, 0, 0, 0)

ReplaceDeletes(l, cost, priced) ==
    \E u \in Existing(l) :
        /\ OutputOf[u] <= OutputOf[l]
        /\ events' = [events EXCEPT ![u] = NoRow]
        /\ rollups' = ApplyRollupDelta(rollups, KeyOf[u], 0, -OutputOf[u],
                         -events[u].cost, -UnpricedDelta(events[u].priced))

\* The row of the response is deleted, this line's row takes its place, and
\* the rollups move by the difference, event_count by nothing.
Replace(l, cost, priced) ==
    \E u \in Existing(l) :
        /\ OutputOf[u] <= OutputOf[l]
        /\ u = l \/ events[l] = NoRow
        /\ events' = [events EXCEPT ![u] = NoRow, ![l] = NewRow(l, cost, priced)]
        /\ LET old == ApplyRollupDelta(rollups, KeyOf[u], 0, -OutputOf[u],
                                       -events[u].cost,
                                       -UnpricedDelta(events[u].priced))
           IN  rollups' = ApplyRollupDelta(old, KeyOf[l], 0, OutputOf[l], cost,
                                           UnpricedDelta(priced))

StoreLine(l, cost, priced) ==
    \/ InsertFirst(l, cost, priced)
    \/ InsertClash(l)
    \/ InsertPartial(l)
    \/ Replace(l, cost, priced)

\* Fault: the priced column is left to its default.
InsertUnflagged(l, cost) == StoreLine(l, cost, FALSE)

Insert(l, cost) == StoreLine(l, cost, TRUE)
InsertUnpriced(l) == StoreLine(l, 0, FALSE)

-----------------------------------------------------------------------------
(* The batch operations of a reconciliation pass, and the reset of a       *)
(* rebuild.                                                                *)

\* Faults: the repriced row keeps its flag; the correction writes the
\* difference and not the cost.
RepriceUnflagged(S, price) ==
    /\ events' = [l \in Lines |->
                    IF l \in S \cap UnpricedRows
                    THEN [events[l] EXCEPT !.cost = price[l]] ELSE events[l]]
    /\ UNCHANGED rollups

CorrectionByDelta(S, old, new) ==
    /\ events' = [l \in Lines |->
                    IF l \in S \cap PricedRows /\ events[l].cost = old[l]
                    THEN [events[l] EXCEPT !.cost = new[l] - old[l]] ELSE events[l]]
    /\ UNCHANGED rollups

\* Prices for the lines S were computed from an earlier read.  A row priced,
\* replaced or deleted since then is skipped, in both tables.
ApplyReprice(S, price) ==
    LET hit == S \cap UnpricedRows
    IN  /\ events' = [l \in Lines |->
                        IF l \in hit
                        THEN [events[l] EXCEPT !.cost = price[l], !.priced = TRUE]
                        ELSE events[l]]
        /\ rollups' = [k \in Keys |->
                        [rollups[k] EXCEPT
                            !.cost = @ + Sum(hit \cap LinesOf(k), price),
                            !.unpriced = @ - Cardinality(hit \cap LinesOf(k))]]

\* A row is corrected only while it still has the cost it was read with.
ApplyCorrection(S, old, new) ==
    LET hit == {l \in S \cap PricedRows : events[l].cost = old[l]}
    IN  /\ events' = [l \in Lines |->
                        IF l \in hit THEN [events[l] EXCEPT !.cost = new[l]]
                        ELSE events[l]]
        /\ rollups' = [k \in Keys |->
                        [rollups[k] EXCEPT
                            !.cost = @ + Sum(hit \cap LinesOf(k), new)
                                       - Sum(hit \cap LinesOf(k), old)]]

ZeroRollup == [count |-> 0, tokens |-> 0, cost |-> 0, unpriced |-> 0]

\* Fault: the rollups outlive their events.
ResetEvents ==
    /\ events' = [l \in Lines |-> NoRow]
    /\ UNCHANGED rollups

Reset ==
    /\ events' = [l \in Lines |-> NoRow]
    /\ rollups' = [k \in Keys |-> ZeroRollup]

-----------------------------------------------------------------------------
(* A database starts empty, or was filled by a binary that knew neither    *)
(* message_id nor priced: the migration gives its rows '' and 1.           *)

LegacyRow(cost) == [resp |-> NoResp, cost |-> cost, priced |-> TRUE]

MigratedRollup(table, k) ==
    LET S == StoredIn(table) \cap LinesOf(k)
    IN  [count    |-> Cardinality(S),
         tokens   |-> Sum(S, OutputOf),
         cost     |-> Sum(S, CostColumn(table)),
         unpriced |-> 0]

LedgerInit ==
    \E S \in SUBSET Legacy : \E cost \in [S -> Costs] :
        /\ events = [l \in Lines |-> IF l \in S THEN LegacyRow(cost[l]) ELSE NoRow]
        /\ rollups = [k \in Keys |-> MigratedRollup(events, k)]

Batches == {S \in SUBSET Lines : Cardinality(S) <= BatchSize}

LedgerNext ==
    \/ \E l \in Lines : \E cost \in Costs : Insert(l, cost)
    \/ \E l \in Lines : InsertUnpriced(l)
    \/ \E S \in Batches : \E price \in [S -> Costs] : ApplyReprice(S, price)
    \/ \E S \in Batches : \E old, new \in [S -> Costs] : ApplyCorrection(S, old, new)
    \/ Reset

LedgerSpec == LedgerInit /\ [][LedgerNext]_ledgerVars

-----------------------------------------------------------------------------
(* Properties.                                                             *)

\* The additive columns of a rollup row are the sums of the events rows under
\* its key: what the evaluator reads in O(1) is what a scan of the events
\* would give, for tokens, cost and the unpriced backlog, whatever inserts,
\* replacements across keys and stale batches came in between (db.go 16-20,
\* 502-551, 974-983, 1085-1090).
RollupMatchesEvents ==
    \A k \in Keys :
        LET S == Stored \cap LinesOf(k)
        IN  /\ rollups[k].tokens = Sum(S, OutputOf)
            /\ rollups[k].cost = Sum(S, CostColumn(events))
            /\ rollups[k].unpriced = Cardinality(S \cap UnpricedRows)

\* An API response written across several log lines has at most one row, so
\* it is counted once (db.go 399-404, the partial unique index at 98-99).
OneRowPerResponse ==
    \A l, u \in Stored :
        events[l].resp = events[u].resp /\ events[l].resp # NoResp => l = u

\* The event counts of all keys add up to the rows stored: replacing a row
\* neither adds nor loses an event (db.go 522-524).
CountMatchesRows ==
    Sum(Keys, [k \in Keys |-> rollups[k].count]) = Cardinality(Stored)

\* An unpriced row contributes exactly nothing to a dollar total until a pass
\* prices it (db.go 432-440).
UnpricedCostsNothing == \A l \in UnpricedRows : events[l].cost = 0

OutputStep ==
    Stored' = {} \/
        \A l \in Stored, u \in Lines :
            /\ events[l].resp # NoResp
            /\ u \in StoredIn(events')
            /\ events'[u].resp = events[l].resp
            => OutputOf[l] <= OutputOf[u]

\* The output tokens stored for a response only grow, except by a reset: a
\* late partial never overwrites the complete line (db.go 493-500).
OutputOnlyGrows == [][OutputStep]_ledgerVars

KeepStep ==
    Stored' = {} \/
        \A l \in Stored :
            \/ l \in StoredIn(events')
            \/ \E u \in StoredIn(events') :
                 events'[u].resp = events[l].resp /\ events[l].resp # NoResp

\* No step but a reset leaves a stored response, or a stored line of an older
\* schema, without a row: no billable event is ever discarded (db.go 32-36).
NoRowDiscarded == [][KeepStep]_ledgerVars
=============================================================================
