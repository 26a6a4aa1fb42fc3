---------------------------- MODULE RebuildProofs ---------------------------
(* The tables after any reads of any logs, in any order, and what a rebuild *)
(* leaves there, for any logs and lines.  Whatever reads the logs writes    *)
(* the ledger as Ledger says, so what LedgerProofs shows of LedgerSpec      *)
(* holds here too.                                                          *)
EXTENDS Rebuild, LedgerProofs

LEMMA SameResponseIsEquivalence ==
    /\ \A l : SameResponse(l, l)
    /\ \A l, u : SameResponse(l, u) => SameResponse(u, l)
    /\ \A l, u, v : SameResponse(l, u) /\ SameResponse(u, v) => SameResponse(l, v)
BY DEF SameResponse

LEMMA RowForLine ==
    ASSUME NEW l \in Lines
    PROVE  RowFor(l) \in Row /\ RowFor(l) # NoRow /\ RowFor(l).resp = RespOf[l]
<1>1. PriceOf[l] # NoPrice => PriceOf[l] \in Nat
  BY ReplayPrices, LedgerSets
<1>2. RespOf[l] \in Resps \cup {NoResp}
  BY LedgerLines
<1>3. RowFor(l) \in Row
  BY <1>1, <1>2 DEF RowFor, NewRow, Row
<1>4. QED
  BY <1>3, NoRowIsNoRow DEF RowFor, NewRow

\* The four parts of StoreIsLargest need each other: a line is a first sighting
\* of its response exactly because every response read has a row, and the row
\* it replaces is the only one to outgrow.
ReplayInv ==
    /\ seen \in SUBSET Lines
    /\ events \in [Lines -> Row \cup {NoRow}]
    /\ StoreIsLargest

LEMMA ExistingRows ==
    ASSUME ReplayInv, NEW l \in Lines
    PROVE  Existing(l) = {u \in Stored : SameResponse(l, u)}
<1>1. \A u \in Stored : u \in Lines /\ events[u].resp = RespOf[u]
  BY RowForLine DEF ReplayInv, StoreIsLargest, OneForEach, Stored, StoredIn
<1>2. QED
  BY <1>1 DEF Existing, SameResponse

\* A read stores the line, priced or not, as RowFor says.
LEMMA ReadIsStore ==
    ASSUME NEW l \in Lines, ReadLine(l)
    PROVE  \E cost, priced : StoreLine(l, cost, priced) /\ NewRow(l, cost, priced) = RowFor(l)
<1>1. CASE PriceOf[l] = NoPrice
  BY <1>1 DEF ReadLine, InsertUnpriced, RowFor
<1>2. CASE PriceOf[l] # NoPrice
  BY <1>2 DEF ReadLine, Insert, RowFor
<1>3. QED
  BY <1>1, <1>2

\* What a read does to the set of the stored lines.
LEMMA ReadCases ==
    ASSUME ReplayInv, NEW l \in Lines, ReadLine(l)
    PROVE  /\ events' \in [Lines -> Row \cup {NoRow}]
           /\ \A u \in Stored' : events'[u] = RowFor(u)
           /\ \/ /\ \A u \in Stored : ~SameResponse(l, u)
                 /\ Stored' = Stored \cup {l}
              \/ \E u \in Stored : /\ SameResponse(l, u) /\ OutputOf[l] < OutputOf[u]
                                   /\ Stored' = Stored
              \/ \E u \in Stored : /\ SameResponse(l, u) /\ OutputOf[u] <= OutputOf[l]
                                   /\ Stored' = (Stored \ {u}) \cup {l}
<1>1. PICK cost, priced : StoreLine(l, cost, priced) /\ NewRow(l, cost, priced) = RowFor(l)
  BY ReadIsStore
<1>2. /\ Existing(l) = {u \in Stored : SameResponse(l, u)}
      /\ RowFor(l) \in Row /\ RowFor(l) # NoRow
      /\ events \in [Lines -> Row \cup {NoRow}]
      /\ \A u \in Stored : events[u] = RowFor(u)
  BY ExistingRows, RowForLine DEF ReplayInv, StoreIsLargest, OneForEach
<1>3. CASE InsertFirst(l, cost, priced)
  <2>1. events' = [events EXCEPT ![l] = RowFor(l)] /\ Existing(l) = {}
    BY <1>1, <1>3 DEF InsertFirst
  <2>2. Stored' = Stored \cup {l}
    BY <1>2, <2>1 DEF Stored, StoredIn
  <2>3. \A u \in Stored' : events'[u] = RowFor(u)
    BY <1>2, <2>1, <2>2 DEF Stored, StoredIn
  <2>4. QED
    BY <1>2, <2>1, <2>2, <2>3
<1>4. CASE InsertClash(l)
  <2>1. l \in Stored /\ l \notin Existing(l)
    BY <1>4 DEF InsertClash, Stored, StoredIn
  <2>2. QED
    BY <1>2, <2>1, SameResponseIsEquivalence
<1>5. CASE InsertPartial(l)
  <2>1. events' = events /\ Stored' = Stored
    BY <1>5 DEF InsertPartial, ledgerVars, Stored
  <2>2. QED
    BY <1>2, <1>5, <2>1 DEF InsertPartial
<1>6. CASE Replace(l, cost, priced)
  <2>1. PICK u \in Existing(l) :
          /\ OutputOf[u] <= OutputOf[l]
          /\ events' = [events EXCEPT ![u] = NoRow, ![l] = RowFor(l)]
    BY <1>1, <1>6 DEF Replace
  <2>2. u \in Stored /\ u \in Lines /\ SameResponse(l, u)
    BY <1>2, <2>1 DEF Stored, StoredIn
  <2>3. Stored' = (Stored \ {u}) \cup {l}
    BY <1>2, <2>1, <2>2 DEF Stored, StoredIn
  <2>4. \A v \in Stored' : events'[v] = RowFor(v)
    BY <1>2, <2>1, <2>2, <2>3 DEF Stored, StoredIn
  <2>5. QED
    BY <1>2, <2>1, <2>2, <2>3, <2>4
<1>7. QED
  BY <1>1, <1>3, <1>4, <1>5, <1>6 DEF StoreLine

LEMMA ReadKeepsLargest ==
    ASSUME ReplayInv, NEW l \in Lines, ReadLine(l)
    PROVE  ReplayInv'
<1>1. seen' = seen \cup {l} /\ seen \in SUBSET Lines
  BY DEF ReadLine, ReplayInv
<1>2. /\ \A v \in Lines : OutputOf[v] \in Nat
      /\ Stored \subseteq Largest(seen) /\ Largest(seen) \subseteq seen
      /\ \A v \in seen : \E u \in Stored : SameResponse(v, u)
      /\ \A v, u \in Stored : SameResponse(v, u) => v = u
  BY LedgerLines DEF ReplayInv, StoreIsLargest, OneForEach, Largest
<1>3. SUFFICES /\ Stored' \subseteq Largest(seen')
               /\ \A v \in seen' : \E u \in Stored' : SameResponse(v, u)
               /\ \A v, u \in Stored' : SameResponse(v, u) => v = u
  BY <1>1, ReadCases DEF ReplayInv, StoreIsLargest, OneForEach
<1>4. \A v \in Stored : ~SameResponse(v, l) => v \in Largest(seen')
  BY <1>1, <1>2 DEF Largest
<1>5. CASE \A u \in Stored : ~SameResponse(l, u)
  <2>1. Stored' = Stored \cup {l}
    BY <1>5, ReadCases
  <2>2. \A v \in seen : ~SameResponse(l, v)
    BY <1>2, <1>5, SameResponseIsEquivalence
  <2>3. l \in Largest(seen')
    BY <1>1, <1>2, <2>2 DEF Largest
  <2>4. \A v \in Stored : ~SameResponse(v, l)
    BY <1>5, SameResponseIsEquivalence
  <2>5. QED
    BY <1>1, <1>2, <1>4, <1>5, <2>1, <2>3, <2>4, SameResponseIsEquivalence
<1>6. ASSUME NEW u \in Stored, SameResponse(l, u), OutputOf[l] < OutputOf[u],
             Stored' = Stored
      PROVE  /\ Stored' \subseteq Largest(seen')
             /\ \A v \in seen' : \E w \in Stored' : SameResponse(v, w)
             /\ \A v, w \in Stored' : SameResponse(v, w) => v = w
  <2>1. \A v \in Stored : SameResponse(v, l) => v = u
    BY <1>2, <1>6, SameResponseIsEquivalence
  <2>2. u \in Largest(seen')
    BY <1>1, <1>2, <1>6 DEF Largest
  <2>3. Stored \subseteq Largest(seen')
    BY <1>4, <2>1, <2>2
  <2>4. \A v \in seen' : \E w \in Stored : SameResponse(v, w)
    BY <1>1, <1>2, <1>6
  <2>5. QED
    BY <1>2, <1>6, <2>3, <2>4
<1>7. ASSUME NEW u \in Stored, SameResponse(l, u), OutputOf[u] <= OutputOf[l],
             Stored' = (Stored \ {u}) \cup {l}
      PROVE  /\ Stored' \subseteq Largest(seen')
             /\ \A v \in seen' : \E w \in Stored' : SameResponse(v, w)
             /\ \A v, w \in Stored' : SameResponse(v, w) => v = w
  <2>1. \A v \in Stored \ {u} : ~SameResponse(v, l) /\ ~SameResponse(l, v)
    BY <1>2, <1>7, SameResponseIsEquivalence
  <2>2. \A v \in seen : SameResponse(l, v) => OutputOf[v] <= OutputOf[l]
    <3> SUFFICES ASSUME NEW v \in seen, SameResponse(l, v)
                 PROVE  OutputOf[v] <= OutputOf[l]
      OBVIOUS
    <3>1. SameResponse(u, v)
      BY <1>7, SameResponseIsEquivalence
    <3>2. OutputOf[v] <= OutputOf[u] /\ u \in Lines
      BY <1>1, <1>2, <3>1 DEF Largest
    <3>3. QED
      BY <1>1, <1>2, <1>7, <3>2
  <2>3. l \in Largest(seen')
    BY <1>1, <1>2, <2>2 DEF Largest
  <2>4. Stored' \subseteq Largest(seen')
    BY <1>4, <1>7, <2>1, <2>3
  <2>5. \A v \in seen' : \E w \in Stored' : SameResponse(v, w)
    <3> SUFFICES ASSUME NEW v \in seen' PROVE \E w \in Stored' : SameResponse(v, w)
      OBVIOUS
    <3>1. CASE v = l
      BY <1>7, <3>1, SameResponseIsEquivalence
    <3>2. CASE v \in seen
      <4>1. PICK w \in Stored : SameResponse(v, w)
        BY <1>2, <3>2
      <4>2. w = u => SameResponse(v, l)
        BY <1>7, <4>1, SameResponseIsEquivalence
      <4>3. QED
        BY <1>7, <4>1, <4>2
    <3>3. QED
      BY <1>1, <3>1, <3>2
  <2>6. \A v, w \in Stored' : SameResponse(v, w) => v = w
    BY <1>2, <1>7, <2>1
  <2>7. QED
    BY <2>4, <2>5, <2>6
<1>8. QED
  BY <1>5, <1>6, <1>7, ReadCases

-----------------------------------------------------------------------------
(* The backfill.                                                            *)

\* What the walk has been through has been read: lines of logs that are there,
\* have been visited and are not waiting in the open log.  And while no log was
\* pruned, the line that made the check pass is still there to be replayed.
Visited(l) == LogOf[l] \in disk \ todo /\ l \notin left

RebuildInv ==
    /\ ReplayInv
    /\ RebuildTypeOK
    /\ log = NoLog => left = {}
    /\ at = "walk" /\ clean => \A l \in Lines : Visited(l) => l \in seen
    /\ at = "done" /\ clean => \A l \in Lines : LogOf[l] \in disk => l \in seen
    /\ at \in {"wipe", "list", "walk"} /\ mode = "rebuild" /\ oldest # NoDay /\ ~pruned
        => \E l \in Lines : LogOf[l] \in disk /\ DayOf(l) <= oldest
    /\ at = "done" /\ clean /\ mode = "rebuild" /\ oldest # NoDay /\ ~pruned
        => \E l \in seen : DayOf(l) <= oldest

LEMMA SeenIsRestored ==
    ASSUME ReplayInv, NEW l \in seen
    PROVE  Restored(l)
<1>1. PICK u \in Stored : SameResponse(l, u)
  BY DEF ReplayInv, StoreIsLargest, OneForEach
<1>2. u \in Largest(seen)
  BY DEF ReplayInv, StoreIsLargest, OneForEach
<1>3. OutputOf[l] <= OutputOf[u]
  BY <1>1, <1>2, SameResponseIsEquivalence DEF Largest
<1>4. QED
  BY <1>1, <1>3 DEF Restored

LEMMA ReadStep ==
    ASSUME ReplayInv, rolled \subseteq Keys, NEW l \in Lines, StoreRead(l)
    PROVE  ReplayInv' /\ rolled' \subseteq Keys /\ seen' = seen \cup {l}
<1>1. ReplayInv' /\ seen' = seen \cup {l}
  BY ReadKeepsLargest DEF StoreRead, ReadLine
<1>2. Stored' \subseteq Lines
  BY DEF Stored, StoredIn
<1>3. rolled' \subseteq Keys
  BY <1>2, LedgerLines DEF StoreRead
<1>4. QED
  BY <1>1, <1>3

LEMMA TablesKept ==
    ASSUME ReplayInv, UNCHANGED <<events, rollups, seen>>
    PROVE  ReplayInv'
BY DEF ReplayInv, StoreIsLargest, OneForEach, Stored, Largest

LEMMA WipeKeepsReplay ==
    ASSUME Reset, seen' = {}
    PROVE  ReplayInv'
BY DEF Reset, ReplayInv, StoreIsLargest, OneForEach, Stored, StoredIn

LEMMA OldestIsADay ==
    ASSUME RebuildTypeOK, OldestRollupDay
    PROVE  oldest' \in Nat \cup {NoDay}
BY RebuildLogs DEF RebuildTypeOK, OldestRollupDay

LEMMA RebuildInitInv == RebuildInit => RebuildInv
<1> SUFFICES ASSUME RebuildInit PROVE RebuildInv
  OBVIOUS
<1>1. ReplayInv
  BY DEF RebuildInit, ReplayInit, ReplayInv, StoreIsLargest, OneForEach, Stored, StoredIn
<1>2. QED
  BY <1>1 DEF RebuildInit, RebuildInv, RebuildTypeOK, Modes, Visited, DayOf

LEMMA RebuildStep == RebuildInv /\ [RebuildNext]_rebuildVars => RebuildInv'
<1> SUFFICES ASSUME RebuildInv, [RebuildNext]_rebuildVars PROVE RebuildInv'
  OBVIOUS
<1> USE DEF RebuildTypeOK, Visited
<1>1. CASE UNCHANGED rebuildVars
  BY <1>1, TablesKept DEF rebuildVars, job, RebuildInv, DayOf
<1>2. ASSUME NEW f \in Logs, Prune(f) PROVE RebuildInv'
  <2>1. ReplayInv'
    BY <1>2, TablesKept DEF Prune, RebuildInv
  <2>2. pruned' \in BOOLEAN
    BY <1>2 DEF Prune
  <2>3. ~pruned' => ~pruned /\ ~Running
    BY <1>2 DEF Prune
  <2>4. RebuildTypeOK'
    BY <1>2, <2>2 DEF Prune, RebuildInv, job
  <2>5. at' = at /\ mode' = mode /\ oldest' = oldest /\ disk' \subseteq disk
    BY <1>2 DEF Prune, job
  <2>6. at' \in {"wipe", "list", "walk"} /\ mode' = "rebuild" /\ oldest' # NoDay /\ ~pruned'
          => \E l \in Lines : LogOf[l] \in disk' /\ DayOf(l)' <= oldest'
    BY <1>2, <2>3, <2>5 DEF RebuildInv, Running
  <2>7. QED
    BY <1>2, <2>1, <2>3, <2>4, <2>6 DEF Prune, RebuildInv, job, DayOf
<1>3. ASSUME NEW l \in Lines, WatcherReads(l) PROVE RebuildInv'
  BY <1>3, ReadStep DEF WatcherReads, RebuildInv, job, DayOf
<1>4. CASE StartBackfill
  BY <1>4, TablesKept DEF StartBackfill, Start, RebuildInv, Running, Modes
<1>5. CASE StartRebuild
  <2>1. Stored \subseteq Lines
    BY DEF Stored, StoredIn
  <2>2. QED
    BY <1>5, <2>1, TablesKept, OldestIsADay DEF StartRebuild, Start, RebuildInv, Running, Modes
<1>6. CASE CheckRebuildSafe
  <2>1. mode = "rebuild" /\ oldest # NoDay => \E l \in Lines : LogOf[l] \in disk /\ DayOf(l) <= oldest
    BY <1>6 DEF CheckRebuildSafe, Covered
  <2>2. QED
    BY <1>6, <2>1, TablesKept DEF CheckRebuildSafe, RebuildInv, DayOf
<1>7. CASE Wipe
  BY <1>7, WipeKeepsReplay DEF Wipe, RebuildInv, DayOf
<1>8. CASE WalkDir
  BY <1>8, TablesKept DEF WalkDir, RebuildInv, DayOf
<1>9. ASSUME NEW f \in Logs, OpenLog(f) PROVE RebuildInv'
  BY <1>9, TablesKept, RebuildLogs DEF OpenLog, RebuildInv, DayOf, LinesIn
<1>10. ASSUME NEW f \in Logs, PassOver(f) PROVE RebuildInv'
  BY <1>10, TablesKept DEF PassOver, RebuildInv, DayOf
<1>11. ASSUME NEW l \in Lines, ScanLine(l) PROVE RebuildInv'
  <2>1. ReplayInv' /\ rolled' \subseteq Keys /\ seen \subseteq seen' /\ (clean' => clean /\ l \in seen')
    BY <1>11, ReadStep, TablesKept DEF ScanLine, RebuildInv
  <2>2. QED
    BY <1>11, <2>1 DEF ScanLine, RebuildInv, DayOf
<1>12. CASE CloseLog
  BY <1>12, TablesKept DEF CloseLog, RebuildInv, DayOf
<1>13. CASE Finish
  BY <1>13, TablesKept DEF Finish, RebuildInv, DayOf
<1>14. CASE Abandon
  BY <1>14, TablesKept DEF Abandon, RebuildInv, Modes
<1>15. QED
  BY <1>1, <1>2, <1>3, <1>4, <1>5, <1>6, <1>7, <1>8, <1>9, <1>10, <1>11, <1>12, <1>13, <1>14
     DEF RebuildNext

LEMMA RebuildInvariant == RebuildSpec => []RebuildInv
BY RebuildInitInv, RebuildStep, PTL DEF RebuildSpec

\* Every part of a backfill keeps its type.
THEOREM RebuildTypeCorrect == RebuildSpec => []RebuildTypeOK
<1>1. RebuildInv => RebuildTypeOK
  BY DEF RebuildInv
<1>2. QED
  BY <1>1, RebuildInvariant, PTL

\* However often and in whatever order the lines of the logs are read, wiped
\* and read again, each response read has one row, for a line of it that none
\* read outgrows.
THEOREM ReadsConverge == RebuildSpec => []StoreIsLargest
<1>1. RebuildInv => StoreIsLargest
  BY DEF RebuildInv, ReplayInv
<1>2. QED
  BY <1>1, RebuildInvariant, PTL

\* A backfill that ends cleanly has stored all that the logs still hold.
THEOREM RebuildRestoresTheLogs == RebuildSpec => []RebuildRestores
<1>1. RebuildInv => RebuildRestores
  BY SeenIsRestored DEF RebuildInv, RebuildRestores
<1>2. QED
  BY <1>1, RebuildInvariant, PTL

\* An unforced rebuild leaves a history that reaches back as far as before.
THEOREM RebuildReachesBack == RebuildSpec => []HistoryReachesBack
<1>1. ASSUME RebuildInv PROVE HistoryReachesBack
  BY <1>1, SeenIsRestored DEF RebuildInv, ReplayInv, HistoryReachesBack
<1>2. QED
  BY <1>1, RebuildInvariant, PTL

(***************************************************************************)
(* A replay does to the tables what Ledger allows, and nothing else does   *)
(* anything to them: so what LedgerProofs shows of LedgerSpec holds beside *)
(* every watcher, backfill and rebuild.                                    *)
(***************************************************************************)

\* A table without rows is a table that an older binary left empty.
LEMMA ReplayStartsALedger == ReplayInit => LedgerInit
<1> SUFFICES ASSUME ReplayInit PROVE LedgerInit
  OBVIOUS
<1>1. [l \in {} |-> 0] \in [{} -> Costs]
  OBVIOUS
<1>2. events = [l \in Lines |-> IF l \in {} THEN LegacyRow([x \in {} |-> 0][l]) ELSE NoRow]
  BY DEF ReplayInit
<1>3. StoredIn(events) = {}
  BY DEF ReplayInit, StoredIn
<1>4. \A k \in Keys : MigratedRollup(events, k) = ZeroRollup
  BY <1>3, SumEmpty, FS_EmptySet DEF MigratedRollup, ZeroRollup
<1>5. rollups = [k \in Keys |-> MigratedRollup(events, k)]
  BY <1>4 DEF ReplayInit
<1>6. {} \in SUBSET Legacy
  OBVIOUS
<1>7. QED
  BY <1>1, <1>2, <1>5, <1>6 DEF LedgerInit

LEMMA ReadIsLedgerStep ==
    ASSUME NEW l \in Lines, ReadLine(l)
    PROVE  LedgerNext
<1>1. CASE PriceOf[l] = NoPrice
  BY <1>1 DEF ReadLine, LedgerNext
<1>2. CASE PriceOf[l] # NoPrice
  <2>1. PriceOf[l] \in Costs /\ Insert(l, PriceOf[l])
    BY <1>2, ReplayPrices DEF ReadLine
  <2>2. QED
    BY <2>1 DEF LedgerNext
<1>3. QED
  BY <1>1, <1>2

LEMMA RebuildIsLedgerStep == [RebuildNext]_rebuildVars => [LedgerNext]_ledgerVars
<1> SUFFICES ASSUME [RebuildNext]_rebuildVars PROVE [LedgerNext]_ledgerVars
  OBVIOUS
<1> USE DEF ledgerVars
<1>1. CASE UNCHANGED rebuildVars
  BY <1>1 DEF rebuildVars
<1>2. ASSUME NEW f \in Logs, Prune(f) \/ OpenLog(f) \/ PassOver(f) PROVE UNCHANGED ledgerVars
  BY <1>2 DEF Prune, OpenLog, PassOver
<1>3. ASSUME NEW l \in Lines, WatcherReads(l) PROVE LedgerNext
  BY <1>3, ReadIsLedgerStep DEF WatcherReads, StoreRead
<1>4. ASSUME NEW l \in Lines, ScanLine(l) PROVE [LedgerNext]_ledgerVars
  BY <1>4, ReadIsLedgerStep DEF ScanLine, StoreRead
<1>5. CASE StartBackfill \/ StartRebuild
  BY <1>5 DEF StartBackfill, StartRebuild, Start
<1>6. CASE CheckRebuildSafe \/ WalkDir \/ CloseLog \/ Finish \/ Abandon
  BY <1>6 DEF CheckRebuildSafe, WalkDir, CloseLog, Finish, Abandon
<1>7. CASE Wipe
  BY <1>7 DEF Wipe, LedgerNext
<1>8. QED
  BY <1>1, <1>2, <1>3, <1>4, <1>5, <1>6, <1>7 DEF RebuildNext

\* Beside any watcher, any number of backfills and rebuilds leave the database
\* one that Ledger describes.
THEOREM RebuildImplementsLedger == RebuildSpec => LedgerSpec
<1>1. RebuildInit => LedgerInit
  BY ReplayStartsALedger DEF RebuildInit
<1>2. QED
  BY <1>1, RebuildIsLedgerStep, PTL DEF RebuildSpec, LedgerSpec

\* So the rollups never drift from the events, not even while a rebuild is
\* half way or after it was killed there.
THEOREM RebuildsKeepTheRollups == RebuildSpec => []RollupMatchesEvents
BY RebuildImplementsLedger, RollupsMatchEvents, PTL

LEMMA RollupsFollowReads ==
    ASSUME ReplayInv, RollupMatchesEvents
    PROVE  RollupsTellTheReads
<1>1. /\ Stored \in SUBSET Largest(seen) /\ OneForEach(Stored, seen)
      /\ \A l \in Stored : l \in Lines /\ events[l] # NoRow /\ events[l] = RowFor(l)
  BY DEF ReplayInv, StoreIsLargest, Stored, StoredIn
<1>2. ASSUME NEW k \in Keys
      PROVE  /\ rollups[k].tokens = Sum(Stored \cap LinesOf(k), OutputOf)
             /\ rollups[k].cost = Sum(Stored \cap LinesOf(k), PriceColumn)
             /\ rollups[k].unpriced = Cardinality({l \in Stored \cap LinesOf(k) : PriceOf[l] = NoPrice})
  <2> DEFINE S == Stored \cap LinesOf(k)
  <2>1. \A l \in S : CostColumn(events)[l] = PriceColumn[l]
    BY <1>1 DEF CostColumn, PriceColumn
  <2>2. Sum(S, CostColumn(events)) = Sum(S, PriceColumn)
    BY <2>1, SumSame
  <2>3. \A l \in Lines : RowFor(l).priced <=> PriceOf[l] # NoPrice
    BY DEF RowFor, NewRow
  <2>4. S \cap UnpricedRows = {l \in S : PriceOf[l] = NoPrice}
    BY <1>1, <2>3 DEF UnpricedRows
  <2>5. QED
    BY <2>2, <2>4 DEF RollupMatchesEvents
<1>3. QED
  BY <1>1, <1>2 DEF RollupsTellTheReads

\* What budgets are evaluated on is one line of every response read, whichever
\* programs read it, how often, and in what order.
THEOREM RollupsAreOfTheReads == RebuildSpec => []RollupsTellTheReads
<1>1. RebuildInv /\ RollupMatchesEvents => RollupsTellTheReads
  BY RollupsFollowReads DEF RebuildInv
<1>2. QED
  BY <1>1, RebuildInvariant, RebuildsKeepTheRollups, PTL
=============================================================================
