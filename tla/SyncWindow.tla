------------------------------ MODULE SyncWindow ----------------------------
(***************************************************************************)
(* The spend records of `budgetclaw sync` (internal/cli/sync.go,           *)
(* internal/db/sync.go, internal/goei/client.go), beside the spend the     *)
(* budgets see.  A sync reads the responses of its window once, packs      *)
(* whole days into requests and pushes these one after the other; the      *)
(* server keeps one amount for each day and key and overwrites it.         *)
(*                                                                         *)
(* An amount is the set of responses it is the sum of.  The key is the     *)
(* branch: project and model of a record are parts of it like the branch.  *)
(* The database of this module only grows and replaces; Ledger has its     *)
(* other operations, Reconcile the costs, GuardSync the audit events and   *)
(* policies that travel with the first request.  The server is external.   *)
(***************************************************************************)
EXTENDS Periods, FiniteSets

CONSTANTS
    Responses,   \* the billed responses of the logs
    Branches,    \* keys
    BranchOf,    \* the key of a response
    LastDay,     \* bound: the UTC days are 0..LastDay
    Hours,       \* the hours of a day at which something happens
    Syncs,       \* processes of `budgetclaw sync`
    Windows,     \* values of --days
    Zone,        \* the configured time zone
    Metrics,     \* usage records that come with a spend record
    MaxSpend,    \* maxSpendPerRequest
    MaxUsage,    \* maxUsagePerRequest
    NotYet       \* the response is not in the database

Days == 0..LastDay
Times == {24 * d + h : d \in Days, h \in Hours}

ASSUME SyncWindowSets ==
    /\ LastDay \in Nat /\ Hours \subseteq 0..23 /\ 0 \in Hours
    /\ IsFiniteSet(Responses) /\ IsFiniteSet(Branches)
    /\ BranchOf \in [Responses -> Branches]
    /\ Windows \subseteq Nat
    /\ Zone \in Offsets
    /\ NotYet \notin Int

ASSUME SyncWindowCalendar ==
    \A t \in Times, zone \in Offsets : LocalDay(t, zone) \in LocalDays

ASSUME SyncWindowLimits ==
    Metrics \in Nat /\ MaxSpend \in Nat /\ MaxUsage \in Nat

VARIABLES
    now,      \* the hour
    eventAt,  \* the timestamp of the row of a response
    server,   \* the amount the server keeps for a day and a key
    sync,     \* each sync: the start of its window, what it read, the days left
    overtaken \* history: the syncs that another has pushed beside since they read

syncVars == <<now, eventAt, server, sync, overtaken>>

Events == [Responses -> Times \cup {NotYet}]
NoSync == [since |-> 0, read |-> [r \in Responses |-> NotYet], left |-> {}]
Sync == [since : Int, read : Events, left : SUBSET Days]

-----------------------------------------------------------------------------
(* What a sync reads and how it is packed.                                 *)

\* Fault: an event at the very start of the window is not read.
SyncAggregatesStrictly(since) ==
    [r \in Responses |-> IF eventAt[r] # NotYet /\ eventAt[r] > since
                         THEN eventAt[r] ELSE NotYet]

\* SyncAggregates: the rows at or after since.
SyncAggregates(since) ==
    [r \in Responses |-> IF eventAt[r] # NotYet /\ eventAt[r] >= since
                         THEN eventAt[r] ELSE NotYet]

\* Fault: a record is dated with the end of its day.
AmountAtDayEnd(read, d, b) ==
    {r \in Responses : read[r] # NotYet /\ DayOf(read[r]) + 1 = d /\ BranchOf[r] = b}

\* The amount of one day and key, and the keys of a day that have one.
Amount(read, d, b) ==
    {r \in Responses : read[r] # NotYet /\ DayOf(read[r]) = d /\ BranchOf[r] = b}

KeysOf(read, d) == {b \in Branches : Amount(read, d, b) # {}}

\* Fault: the days of the calendar, not those that were seen.
DaysOfCalendar(read) == Days

DaysOf(read) == {d \in Days : KeysOf(read, d) # {}}

\* The spend records of some days.
Records(read, days) == {k \in days \X Branches : k[2] \in KeysOf(read, k[1])}

Fits(read, days) ==
    LET n == Cardinality(Records(read, days))
    IN  n <= MaxSpend /\ Metrics * n <= MaxUsage

\* BuildPayloads: whole days in their order, for as long as the next one fits;
\* a day that does not fit by itself is sent by itself.
NextRequest(read, left) ==
    {d \in left : \/ \A e \in left : d <= e
                  \/ Fits(read, {e \in left : e <= d})}

-----------------------------------------------------------------------------
(* Actions.                                                                *)

Tick ==
    /\ \E t \in Times : /\ t > now
                        /\ \A u \in Times : u > now => t <= u
                        /\ now' = t
    /\ UNCHANGED <<eventAt, server, sync, overtaken>>

\* The watcher or a backfill stores a line, late or at once.
Insert(r) ==
    /\ eventAt[r] = NotYet
    /\ \E t \in Times : t <= now /\ eventAt' = [eventAt EXCEPT ![r] = t]
    /\ UNCHANGED <<now, server, sync, overtaken>>

\* A longer line of the same response replaces its row, under its own
\* timestamp.
Replace(r) ==
    /\ eventAt[r] # NotYet
    /\ \E t \in Times : t > eventAt[r] /\ t <= now /\ eventAt' = [eventAt EXCEPT ![r] = t]
    /\ UNCHANGED <<now, server, sync, overtaken>>

\* resolveSince: now minus --days, at this time of the day, or local midnight
\* of --since.
WindowStarts ==
    {now - 24 * n : n \in Windows} \cup {Midnight(d, Zone) : d \in Days}

\* With nothing to send the sync ends at once.
StartSync(s) ==
    /\ sync[s].left = {}
    /\ \E since \in WindowStarts :
        LET read == SyncAggregates(since)
        IN  /\ DaysOf(read) # {}
            /\ sync' = [sync EXCEPT ![s] =
                            [since |-> since, read |-> read, left |-> DaysOf(read)]]
    /\ overtaken' = overtaken \ {s}
    /\ UNCHANGED <<now, eventAt, server>>

\* The next request of s, and the server's upsert: what the request has a
\* record of is overwritten.
SentBy(s) == NextRequest(sync[s].read, sync[s].left)

Upsert(read, days) ==
    [d \in Days |-> [b \in Branches |->
        IF d \in days /\ b \in KeysOf(read, d) THEN Amount(read, d, b) ELSE server[d][b]]]

Accepted(s) ==
    /\ server' = Upsert(sync[s].read, SentBy(s))
    /\ overtaken' = overtaken \cup {o \in Syncs \ {s} : sync[o].left # {}}

\* Fault: the day that did not fit any more is not kept for the next request.
DaysAfterDropped(s) == {d \in sync[s].left : \E e \in sync[s].left \ SentBy(s) : e < d}

DaysAfter(s) == sync[s].left \ SentBy(s)

Push(s) ==
    /\ sync[s].left # {}
    /\ Accepted(s)
    /\ sync' = [sync EXCEPT ![s] = IF DaysAfter(s) = {} THEN NoSync
                                   ELSE [@ EXCEPT !.left = DaysAfter(s)]]
    /\ UNCHANGED <<now, eventAt>>

\* The request or its answer is lost, or refused, and the sync returns; or it
\* is killed.
GiveUp(s) ==
    /\ sync[s].left # {}
    /\ sync' = [sync EXCEPT ![s] = NoSync]
    /\ \/ UNCHANGED <<server, overtaken>>
       \/ Accepted(s)
    /\ UNCHANGED <<now, eventAt>>

SyncWindowInit ==
    /\ now = 0
    /\ eventAt = [r \in Responses |-> NotYet]
    /\ server = [d \in Days |-> [b \in Branches |-> {}]]
    /\ sync = [s \in Syncs |-> NoSync]
    /\ overtaken = {}

SyncWindowNext ==
    \/ Tick
    \/ \E r \in Responses : Insert(r) \/ Replace(r)
    \/ \E s \in Syncs : StartSync(s) \/ Push(s) \/ GiveUp(s)

SyncWindowSpec == SyncWindowInit /\ [][SyncWindowNext]_syncVars

-----------------------------------------------------------------------------
(* Properties.                                                             *)

\* Types; and every day that is still to be sent has a record, so "no request is
\* ever spend-empty" (client.go 231-232).
SyncTypeOK ==
    /\ now \in Times
    /\ eventAt \in Events
    /\ server \in [Days -> [Branches -> SUBSET Responses]]
    /\ sync \in [Syncs -> Sync]
    /\ overtaken \subseteq Syncs
    /\ \A s \in Syncs : \A d \in sync[s].left :
        \E r \in Responses : sync[s].read[r] # NotYet /\ DayOf(sync[s].read[r]) = d

\* The server has nothing that was not recorded here: an amount is made of
\* responses of its key, each of that day or of one it has moved on from,
\* however often a day is sent again, by overlapping syncs and after lost
\* answers ("the same day re-sent overwrites, it does not double-count",
\* client.go 30-31).
ServerOnlyKnows ==
    \A d \in Days, b \in Branches : \A r \in server[d][b] :
        eventAt[r] # NotYet /\ BranchOf[r] = b /\ d <= DayOf(eventAt[r])

\* The day d begins inside the window of s.
WholeDay(s, d) == sync[s].since <= 24 * d

\* What a push takes away from the amount of a whole day has moved to another
\* day, unless another sync has pushed since this one read: a day that is sent
\* again, after whatever was lost on the way, is never sent in part
\* (client.go 230-233, db/sync.go 29-45).
PushTakesOnlyWhatMoved ==
    [][\A s \in Syncs \ overtaken :
        sync'[s] # sync[s] =>
            \A d \in {e \in Days : WholeDay(s, e)}, b \in Branches :
                \A r \in server[d][b] \ server'[d][b] : DayOf(eventAt[r]) # d]_syncVars

\* When the last request of a sync is accepted and no other sync came between,
\* the server has all that the sync has read (cli/sync.go 277-300).
SyncedDaysMatch ==
    [][\A s \in Syncs \ overtaken :
        sync[s].left # {} /\ sync'[s].left = {} /\ Push(s) =>
            \A r \in Responses : sync[s].read[r] # NotYet =>
                r \in server'[DayOf(sync[s].read[r])][BranchOf[r]]]_syncVars

\* "Re-running sync is safe: Goei deduplicates by day, so the same day re-sent
\* overwrites rather than double-counting" (cli/sync.go 73-74): no push takes
\* away from a day what is still of that day.
ResyncIsSafe ==
    [][\A d \in Days, b \in Branches :
        \A r \in server[d][b] \ server'[d][b] : DayOf(eventAt[r]) # d]_syncVars

\* A cap is evaluated on all the spend of its period in the user's zone, and
\* on nothing farther from it than the rest of the UTC days at its two ends;
\* in UTC, on nothing else (evaluator.go 82-92, db.go 702-711).
CapSeesThePeriod ==
    \A p \in PeriodNames, zone \in Offsets, t \in Times :
        LET bounds == PeriodBounds(p, t, zone)
        IN  \A r \in {q \in Responses : eventAt[q] # NotYet} :
            /\ SamePeriod(p, eventAt[r], t, zone) => InRollupSum(eventAt[r], bounds)
            /\ InRollupSum(eventAt[r], bounds) =>
                   bounds.start - 24 < eventAt[r] /\ eventAt[r] < bounds.end + 24
            /\ zone = 0 /\ InRollupSum(eventAt[r], bounds) => SamePeriod(p, eventAt[r], t, zone)
=============================================================================
