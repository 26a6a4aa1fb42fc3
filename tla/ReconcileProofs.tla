-------------------------- MODULE ReconcileProofs ---------------------------
(* Every program that writes the ledger writes it as Ledger says, for any   *)
(* number of processes, tables, models and lines: so what LedgerProofs      *)
(* shows of LedgerSpec holds of the processes of Reconcile.  Where programs *)
(* run one at a time and no table is fetched, the watermark can be trusted  *)
(* and a priced row stays priced.                                           *)
EXTENDS Reconcile, LedgerProofs

\* A price written by a pass was computed, or read from a row: the batches a
\* pass carries stay within the costs of the ledger's operations.
CostsComputed == \A l \in Stored : events[l].cost \in Costs

ReconcileInv == ReconcileTypeOK /\ CostsComputed

(***************************************************************************)
(* Types.                                                                  *)
(***************************************************************************)

LEMMA NoPassType == NoPass \in Pass /\ Run(TRUE) \in Pass /\ Run(FALSE) \in Pass
<1>1. {} \in Batches
  <2>1. Cardinality({}) = 0 /\ 0 <= BatchSize
    BY FS_EmptySet, LedgerSets, ReconcileSets
  <2>2. QED
    BY <2>1 DEF Batches
<1>2. [l \in {} |-> 0] \in [{} -> Costs]
  OBVIOUS
<1>3. [l \in {} |-> 0] \in Batch
  BY <1>1, <1>2 DEF Batch
<1>4. NoPass \in Pass
  BY <1>3 DEF NoPass, Pass, PassSteps
<1>5. Run(TRUE) \in Pass /\ Run(FALSE) \in Pass
  BY <1>4 DEF Run, Pass, PassSteps, NoPass
<1>6. QED
  BY <1>4, <1>5

LEMMA PriceType ==
    ASSUME NEW t \in Tables, NEW l \in Lines
    PROVE  Price[t][l] \in Costs \cup {NoPrice}
BY ReconcileTables

LEMMA BatchType ==
    ASSUME NEW b \in Batch
    PROVE  DOMAIN b \in Batches /\ b \in [DOMAIN b -> Costs]
BY DEF Batch

LEMMA SubBatch ==
    ASSUME NEW S \in Batches, NEW T \in SUBSET S
    PROVE  T \in Batches
<1>1. IsFiniteSet(S)
  BY LedgerSets, FS_Subset DEF Batches
<1>2. Cardinality(T) <= Cardinality(S) /\ Cardinality(T) \in Nat /\ Cardinality(S) \in Nat
  BY <1>1, FS_Subset, FS_CardinalityType
<1>3. QED
  BY <1>2, LedgerSets DEF Batches

LEMMA CostsStep ==
    ASSUME LedgerTypeOK, CostsComputed, [LedgerNext]_ledgerVars
    PROVE  CostsComputed'
<1>1. Costs \subseteq Nat /\ 0 \in Costs
  BY LedgerSets
<1>2. ASSUME NEW l \in Lines, NEW cost \in Costs, NEW priced \in BOOLEAN,
             StoreLine(l, cost, priced)
      PROVE  CostsComputed'
  <2>1. NewRow(l, cost, priced).cost = cost
    BY DEF NewRow
  <2>2. \A u \in Lines : events'[u] \in {events[u], NoRow, NewRow(l, cost, priced)}
    BY <1>2 DEF StoreLine, InsertFirst, InsertClash, InsertPartial, Replace, LedgerTypeOK,
                ledgerVars
  <2>3. QED
    BY <2>1, <2>2 DEF CostsComputed, Stored, StoredIn
<1>3. CASE \E l \in Lines : \E cost \in Costs : Insert(l, cost)
  BY <1>2, <1>3 DEF Insert
<1>4. CASE \E l \in Lines : InsertUnpriced(l)
  BY <1>1, <1>2, <1>4 DEF InsertUnpriced
<1>5. ASSUME NEW S \in Batches, NEW price \in [S -> Costs], ApplyReprice(S, price)
      PROVE  CostsComputed'
  <2>1. \A l \in Lines : events'[l] # NoRow =>
          \/ events[l] # NoRow /\ events'[l].cost = events[l].cost
          \/ l \in S /\ events'[l].cost = price[l]
    <3> DEFINE hit == S \cap UnpricedRows
    <3>1. hit \subseteq Stored /\ hit \subseteq S /\ \A l \in hit : events[l] \in Row
      BY DEF UnpricedRows, Stored, StoredIn, LedgerTypeOK
    <3>2. events' = [l \in Lines |-> IF l \in hit THEN [events[l] EXCEPT !.cost = price[l], !.priced = TRUE]
                                      ELSE events[l]]
      BY <1>5 DEF ApplyReprice
    <3> HIDE DEF hit
    <3>3. \A l \in Lines : l \in hit => events'[l].cost = price[l]
      BY <3>1, <3>2 DEF Row
    <3>4. QED
      BY <3>1, <3>2, <3>3 DEF Stored, StoredIn
  <2>2. QED
    BY <2>1 DEF CostsComputed, Stored, StoredIn
<1>6. ASSUME NEW S \in Batches, NEW old \in [S -> Costs], NEW new \in [S -> Costs],
             ApplyCorrection(S, old, new)
      PROVE  CostsComputed'
  <2>1. \A l \in Lines : events'[l] # NoRow =>
          \/ events[l] # NoRow /\ events'[l].cost = events[l].cost
          \/ l \in S /\ events'[l].cost = new[l]
    <3> DEFINE hit == {l \in S \cap PricedRows : events[l].cost = old[l]}
    <3>1. hit \subseteq Stored /\ hit \subseteq S /\ \A l \in hit : events[l] \in Row
      BY DEF PricedRows, Stored, StoredIn, LedgerTypeOK
    <3>2. events' = [l \in Lines |-> IF l \in hit THEN [events[l] EXCEPT !.cost = new[l]]
                                      ELSE events[l]]
      BY <1>6 DEF ApplyCorrection
    <3> HIDE DEF hit
    <3>3. \A l \in Lines : l \in hit => events'[l].cost = new[l]
      BY <3>1, <3>2 DEF Row
    <3>4. QED
      BY <3>1, <3>2, <3>3 DEF Stored, StoredIn
  <2>2. QED
    BY <2>1 DEF CostsComputed, Stored, StoredIn
<1>7. CASE Reset
  BY <1>7 DEF Reset, CostsComputed, Stored, StoredIn
<1>8. CASE UNCHANGED ledgerVars
  BY <1>8 DEF ledgerVars, CostsComputed, Stored
<1>9. QED
  BY <1>3, <1>4, <1>5, <1>6, <1>7, <1>8 DEF LedgerNext

\* A pass that goes on, starts or ends keeps the records of the processes.
LEMMA AdvanceType ==
    ASSUME ReconcileTypeOK, NEW p \in Procs, NEW newPass \in Pass, Advance(p, newPass)
    PROVE  pass' \in [Procs -> Pass] /\ proc' \in [Procs -> Process]
           /\ watermark' \in 0..MaxTable
BY DEF ReconcileTypeOK, Advance

LEMMA GotoType ==
    ASSUME ReconcileTypeOK, NEW p \in Procs, NEW step \in PassSteps
    PROVE  [pass[p] EXCEPT !.at = step] \in Pass
<1>1. pass[p] \in Pass
  BY DEF ReconcileTypeOK
<1>2. QED
  BY <1>1 DEF Pass

LEMMA ReturnType ==
    ASSUME ReconcileTypeOK, NEW p \in Procs, Return(p)
    PROVE  pass' \in [Procs -> Pass] /\ proc' \in [Procs -> Process]
<1>1. pass' \in [Procs -> Pass]
  BY NoPassType DEF ReconcileTypeOK, Return
<1>2. [proc[p] EXCEPT !.ready = TRUE] \in Process
  BY DEF ReconcileTypeOK, Process
<1>3. QED
  BY <1>1, <1>2 DEF ReconcileTypeOK, Return

LEMMA StartType ==
    ASSUME ReconcileTypeOK, NEW p \in Procs, NEW cmd \in CommandNames,
           NEW t \in Tables, NEW newPass \in Pass, Start(p, cmd, t, newPass)
    PROVE  /\ pass' \in [Procs -> Pass] /\ proc' \in [Procs -> Process]
           /\ UNCHANGED <<online, binary, watermark, ingest>>
<1>1. [cmd |-> cmd, table |-> t, ready |-> newPass = NoPass] \in Process
  BY DEF Process
<1>2. QED
  BY <1>1 DEF ReconcileTypeOK, Start

LEMMA ReadBatchType ==
    ASSUME ReconcileInv, NEW p \in Procs, NEW S \in SUBSET Stored,
           NEW some \in PassSteps, NEW none \in PassSteps, ReadBatch(p, S, some, none)
    PROVE  /\ pass' \in [Procs -> Pass] /\ proc' \in [Procs -> Process]
           /\ watermark' \in 0..MaxTable
<1>1. PICK rows \in SUBSET {l \in S : Rank[l] > pass[p].after} :
        /\ IsFirst(rows, {l \in S : Rank[l] > pass[p].after})
        /\ IF rows = {} THEN Goto(p, none)
           ELSE Advance(p, [pass[p] EXCEPT !.at = some,
                              !.batch = [l \in rows |-> events[l].cost]])
  BY DEF ReadBatch
<1>2. CASE rows = {}
  BY <1>1, <1>2, GotoType, AdvanceType DEF ReconcileInv, Goto
<1>3. CASE rows # {}
  <2>1. rows \in Batches
    BY <1>1 DEF Batches, IsFirst, Stored, StoredIn
  <2>2. [l \in rows |-> events[l].cost] \in [rows -> Costs]
    BY <1>1 DEF ReconcileInv, CostsComputed
  <2>3. [l \in rows |-> events[l].cost] \in Batch
    BY <2>1, <2>2 DEF Batch
  <2>4. pass[p] \in Pass
    BY DEF ReconcileInv, ReconcileTypeOK
  <2>5. [pass[p] EXCEPT !.at = some, !.batch = [l \in rows |-> events[l].cost]] \in Pass
    BY <2>3, <2>4 DEF Pass
  <2>6. QED
    BY <1>1, <1>3, <2>5, AdvanceType DEF ReconcileInv
<1>4. QED
  BY <1>2, <1>3

LEMMA NextBatchType ==
    ASSUME ReconcileTypeOK, NEW p \in Procs, NEW step \in PassSteps, NextBatch(p, step)
    PROVE  /\ pass' \in [Procs -> Pass] /\ proc' \in [Procs -> Process]
           /\ watermark' \in 0..MaxTable
<1>1. pass[p] \in Pass /\ pass[p].batch \in Batch
  BY DEF ReconcileTypeOK, Pass
<1>2. DOMAIN pass[p].batch \subseteq Lines
  BY <1>1, BatchType DEF Batches
<1>3. PICK last \in DOMAIN pass[p].batch :
        Advance(p, [pass[p] EXCEPT !.at = step, !.after = Rank[last],
                                   !.batch = NoPass.batch])
  BY DEF NextBatch
<1>4. Rank[last] \in Nat
  BY <1>2, ReconcileRank
<1>5. NoPass.batch \in Batch
  BY NoPassType DEF Pass
<1>6. [pass[p] EXCEPT !.at = step, !.after = Rank[last], !.batch = NoPass.batch] \in Pass
  BY <1>1, <1>4, <1>5 DEF Pass
<1>7. QED
  BY <1>3, <1>6, AdvanceType

(***************************************************************************)
(* Every step is a step of the ledger, or leaves it alone.                 *)
(***************************************************************************)

LEMMA BatchRows ==
    ASSUME ReconcileInv, NEW p \in Procs
    PROVE  /\ proc[p].table \in Tables
           /\ PriceableRows(p) \in Batches
           /\ \A l \in PriceableRows(p) : /\ Price[proc[p].table][l] \in Costs
                                          /\ pass[p].batch[l] \in Costs
<1>1. proc[p].table \in Tables /\ pass[p].batch \in Batch
  BY DEF ReconcileInv, ReconcileTypeOK, Process, Pass
<1>2. DOMAIN pass[p].batch \in Batches /\ pass[p].batch \in [DOMAIN pass[p].batch -> Costs]
  BY <1>1, BatchType
<1>3. PriceableRows(p) \subseteq DOMAIN pass[p].batch
  BY DEF PriceableRows
<1>4. \A l \in PriceableRows(p) : l \in Lines /\ Price[proc[p].table][l] # NoPrice
  BY <1>2 DEF PriceableRows, Batches
<1>5. QED
  BY <1>1, <1>2, <1>3, <1>4, SubBatch, PriceType

LEMMA RepriceIsLedgerStep ==
    ASSUME ReconcileInv, NEW p \in Procs, RepriceBatch(p)
    PROVE  LedgerNext
<1> DEFINE S == PriceableRows(p)
           price == [l \in S |-> Price[proc[p].table][l]]
<1>1. ApplyReprice(S, price)
  BY DEF RepriceBatch
<1>2. S \in Batches /\ price \in [S -> Costs]
  BY BatchRows
<1>3. QED
  BY <1>1, <1>2 DEF LedgerNext

LEMMA CorrectIsLedgerStep ==
    ASSUME ReconcileInv, NEW p \in Procs, CorrectBatch(p)
    PROVE  LedgerNext
<1> DEFINE S == {l \in PriceableRows(p) : Price[proc[p].table][l] # pass[p].batch[l]}
           old == [l \in S |-> pass[p].batch[l]]
           new == [l \in S |-> Price[proc[p].table][l]]
<1>1. ApplyCorrection(S, old, new)
  BY DEF CorrectBatch
<1>2. S \in Batches /\ old \in [S -> Costs] /\ new \in [S -> Costs]
  BY BatchRows, SubBatch
<1>3. QED
  BY <1>1, <1>2 DEF LedgerNext

LEMMA StoreIsLedgerStep ==
    ASSUME ReconcileInv, NEW p \in Procs, StorePriced(p)
    PROVE  LedgerNext \/ UNCHANGED ledgerVars
<1>1. ingest[p] \in Ingest
  BY DEF ReconcileInv, ReconcileTypeOK
<1>2. ingest[p].line \in Lines /\ ingest[p].cost \in Costs
  BY <1>1 DEF StorePriced, Ingest
<1>3. QED
  BY <1>2 DEF StorePriced, LedgerNext

LEMMA PassIsLedgerStep ==
    ASSUME ReconcileInv, NEW p \in Procs, PassStep(p)
    PROVE  LedgerNext \/ UNCHANGED ledgerVars
<1>1. CASE CheckWatermark(p)
  BY <1>1 DEF CheckWatermark
<1>2. CASE HasUnpriced(p)
  BY <1>2 DEF HasUnpriced
<1>3. CASE UnpricedModels(p)
  BY <1>3 DEF UnpricedModels
<1>4. CASE NextModel(p)
  BY <1>4 DEF NextModel
<1>5. CASE UnpricedBatch(p)
  BY <1>5 DEF UnpricedBatch, ReadBatch
<1>6. CASE RepriceBatch(p)
  BY <1>6, RepriceIsLedgerStep
<1>7. CASE PricedBatch(p)
  BY <1>7 DEF PricedBatch, ReadBatch
<1>8. CASE CorrectBatch(p)
  BY <1>8, CorrectIsLedgerStep
<1>9. CASE SetWatermark(p)
  BY <1>9 DEF SetWatermark
<1>10. QED
  BY <1>1, <1>2, <1>3, <1>4, <1>5, <1>6, <1>7, <1>8, <1>9 DEF PassStep

LEMMA LedgerStep ==
    ASSUME ReconcileInv, [ReconcileNext]_reconcileVars
    PROVE  [LedgerNext]_ledgerVars
<1>1. CASE Upgrade
  BY <1>1 DEF Upgrade
<1>2. ASSUME NEW p \in Procs, RunWatch(p) \/ RunStatus(p) \/ RunBackfill(p) \/
             RunPricingRefresh(p) \/ Once(p) \/ Stop(p) \/ PassFails(p)
      PROVE  UNCHANGED ledgerVars
  BY <1>2 DEF RunWatch, RunStatus, RunBackfill, RunPricingRefresh, Once, Install, Stop, PassFails
<1>3. ASSUME NEW p \in Procs, RunRebuild(p)
      PROVE  LedgerNext
  BY <1>3 DEF RunRebuild, LedgerNext
<1>4. ASSUME NEW p \in Procs, NEW l \in Lines, PriceLine(p, l)
      PROVE  UNCHANGED ledgerVars
  BY <1>4 DEF PriceLine
<1>5. CASE UNCHANGED reconcileVars
  BY <1>5 DEF reconcileVars, ledgerVars
<1>6. QED
  BY <1>1, <1>2, <1>3, <1>4, <1>5, PassIsLedgerStep, StoreIsLedgerStep
  DEF ReconcileNext

(***************************************************************************)
(* The invariant of the processes.                                         *)
(***************************************************************************)

LEMMA ReconcileInitInv == ReconcileInit => ReconcileInv
<1> SUFFICES ASSUME ReconcileInit PROVE ReconcileInv
  OBVIOUS
<1>1. LedgerTypeOK
  BY InitType DEF ReconcileInit
<1>2. 1 \in Tables /\ 0 \in 0..MaxTable
  BY ReconcileSets DEF Tables
<1>3. Off \in Process
  BY <1>2 DEF Off, Process
<1>4. NoIngest \in Ingest
  BY LedgerSets DEF NoIngest, Ingest
<1>5. ReconcileTypeOK
  BY <1>1, <1>2, <1>3, <1>4, NoPassType DEF ReconcileInit, ReconcileTypeOK
<1>6. CostsComputed
  <2>1. PICK S \in SUBSET Legacy : \E cost \in [S -> Costs] :
          events = [l \in Lines |-> IF l \in S THEN LegacyRow(cost[l]) ELSE NoRow]
    BY DEF ReconcileInit, LedgerInit
  <2>2. PICK cost \in [S -> Costs] :
          events = [l \in Lines |-> IF l \in S THEN LegacyRow(cost[l]) ELSE NoRow]
    BY <2>1
  <2>3. QED
    BY <2>2 DEF CostsComputed, Stored, StoredIn, LegacyRow
<1>7. QED
  BY <1>5, <1>6 DEF ReconcileInv

\* What a step of a process must keep beside the two tables of the ledger.
ProcessesOK ==
    /\ binary \in Tables /\ cache \in 0..MaxTable /\ watermark \in 0..MaxTable
    /\ proc \in [Procs -> Process] /\ pass \in [Procs -> Pass]
    /\ ingest \in [Procs -> Ingest]

LEMMA LoadedTable == ReconcileTypeOK => LoadCachedTable \in Tables
<1> SUFFICES ASSUME ReconcileTypeOK PROVE LoadCachedTable \in Tables
  OBVIOUS
<1>1. /\ binary \in Nat /\ cache \in Nat /\ MaxTable \in Nat
      /\ 1 <= binary /\ binary <= MaxTable /\ cache <= MaxTable
  BY ReconcileSets DEF ReconcileTypeOK, Tables
<1>2. QED
  BY <1>1 DEF LoadCachedTable, Tables

LEMMA StartsType ==
    ASSUME ReconcileInv, NEW p \in Procs,
           RunWatch(p) \/ RunStatus(p) \/ RunBackfill(p) \/ RunRebuild(p)
             \/ RunPricingRefresh(p)
    PROVE  ProcessesOK'
<1> USE DEF ReconcileInv
<1>1. /\ binary \in Tables /\ cache \in 0..MaxTable /\ watermark \in 0..MaxTable
      /\ ingest \in [Procs -> Ingest]
  BY DEF ReconcileTypeOK
<1>2. LoadCachedTable \in Tables
  BY LoadedTable
<1>3. {"watch", "status", "backfill", "rebuild", "refresh"} \subseteq CommandNames
  BY DEF CommandNames
<1>4. CASE RunWatch(p)
  BY <1>1, <1>2, <1>3, <1>4, StartType, NoPassType DEF RunWatch, ProcessesOK
<1>5. CASE RunStatus(p)
  BY <1>1, <1>2, <1>3, <1>5, StartType, NoPassType DEF RunStatus, ProcessesOK
<1>6. CASE RunBackfill(p)
  BY <1>1, <1>3, <1>6, StartType, NoPassType DEF RunBackfill, ProcessesOK
<1>7. CASE RunRebuild(p)
  BY <1>1, <1>3, <1>7, StartType, NoPassType DEF RunRebuild, ProcessesOK
<1>8. CASE RunPricingRefresh(p)
  <2>1. PICK t \in Tables : Refreshed(binary, t) /\ Start(p, "refresh", t, Run(TRUE))
    BY <1>8 DEF RunPricingRefresh
  <2>2. cache' \in 0..MaxTable
    BY <1>1, <2>1, ReconcileSets DEF Refreshed, Tables
  <2>3. QED
    BY <1>1, <1>3, <2>1, <2>2, StartType, NoPassType DEF ProcessesOK
<1>9. QED
  BY <1>4, <1>5, <1>6, <1>7, <1>8

LEMMA OnceType ==
    ASSUME ReconcileInv, NEW p \in Procs, Once(p)
    PROVE  ProcessesOK'
<1>1. PICK t \in Tables : Refreshed(proc[p].table, t)
                          /\ proc' = [proc EXCEPT ![p].table = t]
  BY DEF Once, Install
<1>2. cache' \in 0..MaxTable
  BY <1>1, ReconcileSets DEF Refreshed, Tables, ReconcileInv, ReconcileTypeOK
<1>3. proc[p] \in Process
  BY DEF ReconcileInv, ReconcileTypeOK
<1>4. [proc[p] EXCEPT !.table = t] \in Process
  BY <1>1, <1>3 DEF Process
<1>5. proc' \in [Procs -> Process]
  BY <1>1, <1>4 DEF ReconcileInv, ReconcileTypeOK
<1>6. pass' \in [Procs -> Pass]
  BY NoPassType DEF Once, Install, ReconcileInv, ReconcileTypeOK
<1>7. QED
  BY <1>2, <1>5, <1>6 DEF Once, Install, ProcessesOK, ReconcileInv, ReconcileTypeOK

LEMMA PassStepType ==
    ASSUME ReconcileInv, NEW p \in Procs, PassStep(p)
    PROVE  ProcessesOK'
<1> USE DEF ReconcileInv
<1>1. /\ binary' \in Tables /\ cache' \in 0..MaxTable /\ watermark \in 0..MaxTable
      /\ ingest' \in [Procs -> Ingest] /\ pass[p] \in Pass /\ proc[p].table \in Tables
  BY DEF PassStep, ReconcileTypeOK, Process
<1>2. PassSteps = {"check", "has", "models", "next", "read", "apply", "scan", "fix", "mark"}
  BY DEF PassSteps
<1>3. Known[proc[p].table] \subseteq Models
  BY <1>1, ReconcileTables
<1> SUFFICES /\ pass' \in [Procs -> Pass] /\ proc' \in [Procs -> Process]
             /\ watermark' \in 0..MaxTable
  BY <1>1 DEF ProcessesOK
<1>4. CASE CheckWatermark(p)
  <2>1. CASE Return(p) /\ UNCHANGED watermark
    BY <1>1, <2>1, ReturnType
  <2>2. CASE Goto(p, "has")
    BY <1>2, <2>2, GotoType, AdvanceType DEF Goto
  <2>3. QED
    BY <1>4, <2>1, <2>2 DEF CheckWatermark
<1>5. CASE HasUnpriced(p)
  <2>1. (IF UnpricedRows = {} THEN "scan" ELSE "models") \in PassSteps
    BY <1>2
  <2>2. QED
    BY <1>5, <2>1, GotoType, AdvanceType DEF HasUnpriced, Goto
<1>6. CASE UnpricedModels(p)
  <2>1. [pass[p] EXCEPT !.at = "next",
           !.models = {ModelOf[l] : l \in UnpricedRows} \cap Known[proc[p].table]] \in Pass
    BY <1>1, <1>2, <1>3 DEF Pass
  <2>2. QED
    BY <1>6, <2>1, AdvanceType DEF UnpricedModels
<1>7. CASE NextModel(p)
  <2>1. ASSUME NEW m \in pass[p].models
        PROVE  [pass[p] EXCEPT !.at = "read", !.models = @ \ {m}, !.model = m,
                               !.after = 0] \in Pass
    BY <1>1, <1>2 DEF Pass
  <2>2. [pass[p] EXCEPT !.at = "scan", !.model = NoModel, !.after = 0] \in Pass
    BY <1>1, <1>2 DEF Pass
  <2>3. QED
    BY <1>7, <2>1, <2>2, AdvanceType DEF NextModel
<1>8. CASE UnpricedBatch(p)
  <2>1. {l \in UnpricedRows : ModelOf[l] = pass[p].model} \in SUBSET Stored
    BY DEF UnpricedRows
  <2>2. QED
    BY <1>2, <1>8, <2>1, ReadBatchType DEF UnpricedBatch
<1>9. CASE PricedBatch(p)
  <2>1. PricedRows \in SUBSET Stored
    BY DEF PricedRows
  <2>2. QED
    BY <1>2, <1>9, <2>1, ReadBatchType DEF PricedBatch
<1>10. CASE RepriceBatch(p)
  BY <1>2, <1>10, NextBatchType DEF RepriceBatch
<1>11. CASE CorrectBatch(p)
  BY <1>2, <1>11, NextBatchType DEF CorrectBatch
<1>12. CASE SetWatermark(p)
  <2>1. proc[p].table \in 0..MaxTable
    BY <1>1, ReconcileSets DEF Tables
  <2>2. QED
    BY <1>12, <2>1, ReturnType DEF SetWatermark
<1>13. QED
  BY <1>4, <1>5, <1>6, <1>7, <1>8, <1>9, <1>10, <1>11, <1>12 DEF PassStep

LEMMA IngestType ==
    ASSUME ReconcileInv, NEW p \in Procs,
           StorePriced(p) \/ \E l \in Lines : PriceLine(p, l)
    PROVE  ProcessesOK'
<1>1. 0 \in Costs
  BY LedgerSets
<1>2. NoIngest \in Ingest
  BY <1>1 DEF NoIngest, Ingest
<1>3. CASE StorePriced(p)
  BY <1>2, <1>3 DEF StorePriced, ProcessesOK, ReconcileInv, ReconcileTypeOK
<1>4. ASSUME NEW l \in Lines, PriceLine(p, l)
      PROVE  ProcessesOK'
  <2> DEFINE price == Price[proc[p].table][l]
  <2>1. proc[p].table \in Tables
    BY DEF ReconcileInv, ReconcileTypeOK, Process
  <2>2. price \in Costs \cup {NoPrice}
    BY <2>1, PriceType
  <2>3. [line |-> l, priced |-> price # NoPrice,
         cost |-> IF price = NoPrice THEN 0 ELSE price] \in Ingest
    BY <1>1, <2>2 DEF Ingest
  <2>4. QED
    BY <1>4, <2>3 DEF PriceLine, ProcessesOK, ReconcileInv, ReconcileTypeOK
<1>5. QED
  BY <1>3, <1>4

LEMMA OnlineStays == [ReconcileNext]_reconcileVars => online' = online
<1> SUFFICES ASSUME [ReconcileNext]_reconcileVars PROVE online' = online
  OBVIOUS
<1>1. CASE Upgrade \/ UNCHANGED reconcileVars
  BY <1>1 DEF Upgrade, reconcileVars
<1>2. ASSUME NEW p \in Procs,
             \/ RunWatch(p) \/ RunStatus(p) \/ RunBackfill(p) \/ RunRebuild(p)
             \/ RunPricingRefresh(p)
      PROVE  online' = online
  BY <1>2 DEF RunWatch, RunStatus, RunBackfill, RunRebuild, RunPricingRefresh, Start
<1>3. ASSUME NEW p \in Procs,
             \/ Once(p) \/ Stop(p) \/ PassStep(p) \/ PassFails(p)
             \/ \E l \in Lines : PriceLine(p, l)
             \/ StorePriced(p)
      PROVE  online' = online
  BY <1>3 DEF Once, Stop, PassStep, PassFails, PriceLine, StorePriced
<1>4. QED
  BY <1>1, <1>2, <1>3 DEF ReconcileNext

LEMMA ReconcileStepInv == ReconcileInv /\ [ReconcileNext]_reconcileVars => ReconcileInv'
<1> SUFFICES ASSUME ReconcileInv, [ReconcileNext]_reconcileVars PROVE ReconcileInv'
  OBVIOUS
<1>1. LedgerTypeOK' /\ CostsComputed'
  BY LedgerStep, TypeStep, CostsStep DEF ReconcileInv, ReconcileTypeOK
<1>2. ProcessesOK'
  <2>1. ProcessesOK
    BY DEF ReconcileInv, ReconcileTypeOK, ProcessesOK
  <2>2. CASE Upgrade
    <3>1. binary + 1 \in Tables
      BY <2>1, <2>2, ReconcileSets DEF Upgrade, ProcessesOK, Tables
    <3>2. QED
      BY <2>1, <2>2, <3>1 DEF Upgrade, ProcessesOK
  <2>3. ASSUME NEW p \in Procs, Stop(p)
        PROVE  ProcessesOK'
    <3>1. Off \in Process /\ NoIngest \in Ingest
      BY ReconcileSets, LedgerSets DEF Off, Process, NoIngest, Ingest, Tables
    <3>2. QED
      BY <2>1, <2>3, <3>1, NoPassType DEF Stop, ProcessesOK
  <2>4. ASSUME NEW p \in Procs, PassFails(p)
        PROVE  ProcessesOK'
    BY <2>1, <2>4, ReturnType DEF PassFails, ProcessesOK, ReconcileInv
  <2>5. CASE UNCHANGED reconcileVars
    BY <2>1, <2>5 DEF reconcileVars, ProcessesOK
  <2>6. QED
    BY <2>2, <2>3, <2>4, <2>5, StartsType, OnceType, PassStepType, IngestType
    DEF ReconcileNext
<1>3. online' \in BOOLEAN
  BY OnlineStays DEF ReconcileInv, ReconcileTypeOK
<1>4. QED
  BY <1>1, <1>2, <1>3 DEF ReconcileInv, ReconcileTypeOK, ProcessesOK

THEOREM ReconcileInvariant == ReconcileSpec => []ReconcileInv
BY ReconcileInitInv, ReconcileStepInv, PTL DEF ReconcileSpec

\* The variables of every process keep their types.
THEOREM ReconcileTypeCorrect == ReconcileSpec => []ReconcileTypeOK
<1>1. ReconcileInv => ReconcileTypeOK
  BY DEF ReconcileInv
<1>2. QED
  BY <1>1, ReconcileInvariant, PTL

\* Any number of watchers, passes, backfills, rebuilds and fetches, stopped at
\* any point, drive the database only through the operations of Ledger.
THEOREM ReconcileImplementsLedger == ReconcileSpec => LedgerSpec
<1>1. ReconcileInit => LedgerInit
  BY DEF ReconcileInit
<1>2. ReconcileInv /\ [ReconcileNext]_reconcileVars => [LedgerNext]_ledgerVars
  BY LedgerStep
<1>3. QED
  BY <1>1, <1>2, ReconcileInvariant, PTL DEF ReconcileSpec, LedgerSpec

\* So no interleaving of passes, ingests and crashes makes a rollup drift from
\* its events: what is priced twice is counted once.
THEOREM PassesKeepTheRollups == ReconcileSpec => []RollupMatchesEvents
BY ReconcileImplementsLedger, RollupsMatchEvents, PTL

(***************************************************************************)
(* Where no table is fetched and the programs that run together, however   *)
(* many, hold one table, a pass that completes leaves nothing for its      *)
(* table to do, and nothing stored after it undoes that while the          *)
(* watermark names the table in force.                                     *)
(***************************************************************************)

\* A new binary is first used when no program of an older one runs any more.
OneTableAtATime ==
    \A p, q \in Procs :
        proc[p].cmd # "off" /\ proc[q].cmd # "off" => proc[p].table = proc[q].table

\* The table that the process prices with, or will when it is next started.
InForce(p) == IF proc[p].cmd = "off" THEN binary ELSE proc[p].table

\* No table can price an unpriced row, and a priced row costs what it says.
PriceAgrees(t, l) ==
    /\ l \in UnpricedRows => Price[t][l] = NoPrice
    /\ l \in PricedRows => Price[t][l] \in {NoPrice, events[l].cost}

Settled(t) == \A l \in Lines : PriceAgrees(t, l)

\* Tables are those of installed binaries, each newer than the watermark or
\* named by it; a process that runs a pass has no line in hand; and a line in
\* hand has the price of the table of its process.
TablesInTurn(p) ==
    /\ cache = 0
    /\ watermark <= InForce(p) /\ InForce(p) <= binary
    /\ proc[p].cmd = "off" => pass[p] = NoPass /\ ingest[p] = NoIngest
    /\ pass[p].at # "idle" => ~proc[p].ready
    /\ ~proc[p].ready => ingest[p] = NoIngest
    /\ ingest[p] # NoIngest =>
         LET price == Price[proc[p].table][ingest[p].line]
         IN  /\ ingest[p].line \in Lines
             /\ ingest[p].priced = (price # NoPrice)
             /\ ingest[p].priced => ingest[p].cost = price

WatermarkHolds(p) == watermark = InForce(p) => Settled(watermark)

\* Rows the table of the process can still price, and rows it would correct.
Waiting(p) == {l \in UnpricedRows : Price[proc[p].table][l] # NoPrice}
Wrong(p) == {l \in PricedRows : Price[proc[p].table][l] \notin {NoPrice, events[l].cost}}

\* A row that comes after all of the batch in hand.
Beyond(p, l) == \A u \in DOMAIN pass[p].batch : Rank[u] < Rank[l]

\* How far the pass has come at each of its steps.
PassSoFar(p) ==
    /\ At(p, "check") \/ At(p, "has") \/ At(p, "models") => pass[p].after = 0
    /\ At(p, "next") => \A l \in Waiting(p) : ModelOf[l] \in pass[p].models
    /\ At(p, "read") =>
         \A l \in Waiting(p) :
            \/ ModelOf[l] \in pass[p].models
            \/ ModelOf[l] = pass[p].model /\ Rank[l] > pass[p].after
    /\ At(p, "apply") =>
         \A l \in Waiting(p) :
            \/ ModelOf[l] \in pass[p].models
            \/ ModelOf[l] = pass[p].model /\ (l \in DOMAIN pass[p].batch \/ Beyond(p, l))
    /\ At(p, "scan") \/ At(p, "fix") \/ At(p, "mark") => Waiting(p) = {}
    /\ At(p, "scan") => \A l \in Wrong(p) : Rank[l] > pass[p].after
    /\ At(p, "fix") =>
         \A l \in Wrong(p) :
            \/ l \in DOMAIN pass[p].batch /\ pass[p].batch[l] = events[l].cost
            \/ Beyond(p, l)
    /\ At(p, "mark") => Wrong(p) = {}

SkipInv ==
    ~online => \A p \in Procs : TablesInTurn(p) /\ WatermarkHolds(p) /\ PassSoFar(p)

\* What the two batch writes of a pass do to the rows: none becomes unpriced,
\* and a priced row keeps its cost or gets the one of the table in force.
LEMMA BatchRowsKeep ==
    ASSUME ReconcileInv, NEW p \in Procs, RepriceBatch(p) \/ CorrectBatch(p)
    PROVE  /\ UnpricedRows' \subseteq UnpricedRows
           /\ \A l \in PricedRows' :
                \/ l \in PricedRows /\ events'[l].cost = events[l].cost
                \/ /\ events'[l].cost = Price[proc[p].table][l]
                   /\ Price[proc[p].table][l] # NoPrice
<1> DEFINE table == Price[proc[p].table]
<1>1. LedgerTypeOK /\ PriceableRows(p) \in Batches /\ PriceableRows(p) \subseteq Lines
  BY BatchRows DEF ReconcileInv, ReconcileTypeOK, Batches
<1>2. CASE RepriceBatch(p)
  <2> DEFINE S == PriceableRows(p)
             price == [l \in S |-> table[l]]
             hit == S \cap UnpricedRows
  <2>1. events' = [l \in Lines |-> IF l \in hit
                     THEN [events[l] EXCEPT !.cost = price[l], !.priced = TRUE]
                     ELSE events[l]]
    BY <1>2 DEF RepriceBatch, ApplyReprice
  <2>2. \A l \in hit : events[l] \in Row
    BY <1>1 DEF UnpricedRows, Stored, StoredIn, LedgerTypeOK
  <2>3. ASSUME NEW l \in Lines, l \in hit
        PROVE  events'[l].priced /\ events'[l].cost = table[l] /\ table[l] # NoPrice
    BY <2>1, <2>2, <2>3 DEF Row, PriceableRows
  <2>4. ASSUME NEW l \in Lines, l \notin hit PROVE events'[l] = events[l]
    BY <2>1, <2>4
  <2> HIDE DEF hit
  <2>5. QED
    BY <2>3, <2>4 DEF UnpricedRows, PricedRows, Stored, StoredIn
<1>3. CASE CorrectBatch(p)
  <2> DEFINE S == {l \in PriceableRows(p) : table[l] # pass[p].batch[l]}
             old == [l \in S |-> pass[p].batch[l]]
             new == [l \in S |-> table[l]]
             hit == {l \in S \cap PricedRows : events[l].cost = old[l]}
  <2>1. events' = [l \in Lines |-> IF l \in hit THEN [events[l] EXCEPT !.cost = new[l]]
                                   ELSE events[l]]
    BY <1>3 DEF CorrectBatch, ApplyCorrection
  <2>2. \A l \in hit : events[l] \in Row /\ l \in PricedRows /\ new[l] = table[l]
    BY <1>1 DEF PricedRows, Stored, StoredIn, LedgerTypeOK
  <2>3. ASSUME NEW l \in Lines, l \in hit
        PROVE  /\ l \in PricedRows /\ events'[l].priced /\ events'[l].cost = table[l]
               /\ table[l] # NoPrice
    BY <2>1, <2>2, <2>3 DEF Row, PricedRows, PriceableRows
  <2>4. ASSUME NEW l \in Lines, l \notin hit PROVE events'[l] = events[l]
    BY <2>1, <2>4
  <2> HIDE DEF hit
  <2>5. QED
    BY <2>3, <2>4 DEF UnpricedRows, PricedRows, Stored, StoredIn
<1>4. QED
  BY <1>2, <1>3

\* A row of the batch that is still unpriced after the call has no price.
LEMMA RepriceLeaves ==
    ASSUME ReconcileInv, NEW p \in Procs, RepriceBatch(p),
           NEW l \in DOMAIN pass[p].batch, l \in UnpricedRows'
    PROVE  Price[proc[p].table][l] = NoPrice
<1> SUFFICES ASSUME Price[proc[p].table][l] # NoPrice PROVE FALSE
  OBVIOUS
<1> DEFINE S == PriceableRows(p)
           price == [u \in S |-> Price[proc[p].table][u]]
<1>1. LedgerTypeOK /\ l \in Lines /\ l \in S
  BY DEF ReconcileInv, ReconcileTypeOK, PriceableRows, UnpricedRows, Stored, StoredIn
<1>2. l \in UnpricedRows
  BY BatchRowsKeep
<1>3. events'[l] = [events[l] EXCEPT !.cost = price[l], !.priced = TRUE]
  BY <1>1, <1>2 DEF RepriceBatch, ApplyReprice
<1>4. events[l] \in Row
  BY <1>1, <1>2 DEF UnpricedRows, Stored, StoredIn, LedgerTypeOK
<1>5. events'[l].priced
  BY <1>3, <1>4 DEF Row
<1>6. QED
  BY <1>5 DEF UnpricedRows

\* A row read at the cost it still has is left at the cost of the table.
LEMMA CorrectLeaves ==
    ASSUME ReconcileInv, NEW p \in Procs, CorrectBatch(p),
           NEW l \in DOMAIN pass[p].batch, l \in PricedRows,
           pass[p].batch[l] = events[l].cost, Price[proc[p].table][l] # NoPrice
    PROVE  events'[l].cost = Price[proc[p].table][l]
<1> DEFINE table == Price[proc[p].table]
           S == {u \in PriceableRows(p) : table[u] # pass[p].batch[u]}
           old == [u \in S |-> pass[p].batch[u]]
           new == [u \in S |-> table[u]]
           hit == {u \in S \cap PricedRows : events[u].cost = old[u]}
<1>1. events' = [u \in Lines |-> IF u \in hit THEN [events[u] EXCEPT !.cost = new[u]]
                                 ELSE events[u]]
  BY DEF CorrectBatch, ApplyCorrection
<1>2. l \in Lines /\ events[l] \in Row /\ l \in PriceableRows(p)
  BY DEF PricedRows, Stored, StoredIn, LedgerTypeOK, ReconcileInv, ReconcileTypeOK, PriceableRows
<1>3. CASE l \in S
  <2>1. l \in hit /\ new[l] = table[l]
    BY <1>3
  <2>2. QED
    BY <1>1, <1>2, <2>1 DEF Row
<1>4. CASE l \notin S
  <2>1. table[l] = events[l].cost /\ l \notin hit
    BY <1>2, <1>4
  <2>2. QED
    BY <1>1, <1>2, <2>1
<1>5. QED
  BY <1>3, <1>4

\* The part of the invariant that belongs to one process.
SkipInvOf(p) == TablesInTurn(p) /\ WatermarkHolds(p) /\ PassSoFar(p)

\* What every step of a pass starts from.
LEMMA UnderWay ==
    ASSUME ReconcileInv, NEW p \in Procs, TablesInTurn(p), pass[p].at # "idle"
    PROVE  /\ proc[p].cmd # "off" /\ ~proc[p].ready /\ ingest[p] = NoIngest
           /\ InForce(p) = proc[p].table /\ pass[p] \in Pass
           /\ proc[p].table \in Tables /\ watermark \in Nat /\ binary \in Nat
<1>1. NoPass.at = "idle"
  BY DEF NoPass
<1>2. QED
  BY <1>1, ReconcileSets
  DEF TablesInTurn, InForce, ReconcileInv, ReconcileTypeOK, Process, Tables

\* A pass that goes on changes neither tables, nor watermark, nor ingest.
LEMMA AdvanceKeeps ==
    ASSUME ReconcileInv, NEW p \in Procs, SkipInvOf(p), pass[p].at # "idle",
           NEW newPass \in Pass, newPass.at # "idle", Advance(p, newPass),
           UNCHANGED <<online, binary, cache, ingest>>,
           UNCHANGED ledgerVars \/ RepriceBatch(p) \/ CorrectBatch(p)
    PROVE  /\ TablesInTurn(p)' /\ WatermarkHolds(p)'
           /\ pass'[p] = newPass /\ proc' = proc
<1>1. pass'[p] = newPass /\ proc' = proc /\ watermark' = watermark
  BY DEF Advance, ReconcileInv, ReconcileTypeOK
<1>2. TablesInTurn(p)'
  BY <1>1, UnderWay DEF TablesInTurn, InForce, SkipInvOf
<1>3. WatermarkHolds(p)'
  <2>1. SUFFICES ASSUME watermark = proc[p].table, Settled(watermark)
                 PROVE  Settled(watermark)'
    BY <1>1, UnderWay DEF WatermarkHolds, InForce, SkipInvOf
  <2>2. CASE UNCHANGED ledgerVars
    BY <1>1, <2>1, <2>2 DEF Settled, PriceAgrees, UnpricedRows, PricedRows, Stored, ledgerVars
  <2>3. CASE RepriceBatch(p) \/ CorrectBatch(p)
    BY <1>1, <2>1, <2>3, BatchRowsKeep DEF Settled, PriceAgrees
  <2>4. QED
    BY <2>2, <2>3, UnderWay DEF Advance, SkipInvOf
<1>4. QED
  BY <1>1, <1>2, <1>3

\* A pass that returns leaves the process ready.
LEMMA ReturnKeeps ==
    ASSUME ReconcileInv, NEW p \in Procs, SkipInvOf(p), pass[p].at # "idle", Return(p),
           UNCHANGED <<ledgerVars, online, binary, cache, ingest>>,
           \/ watermark' = watermark
           \/ watermark' = proc[p].table /\ Settled(proc[p].table)
    PROVE  SkipInvOf(p)'
<1>1. /\ pass'[p] = NoPass /\ proc'[p].cmd = proc[p].cmd
      /\ proc'[p].table = proc[p].table /\ proc'[p].ready
  BY DEF Return, ReconcileInv, ReconcileTypeOK, Process
<1>2. InForce(p)' = proc[p].table /\ proc'[p].cmd # "off"
  BY <1>1, UnderWay DEF InForce, SkipInvOf
<1>3. watermark' <= proc[p].table
  BY UnderWay, ReconcileSets DEF SkipInvOf, TablesInTurn, Tables
<1>4. TablesInTurn(p)'
  BY <1>1, <1>2, <1>3, UnderWay DEF TablesInTurn, SkipInvOf, NoPass
<1>5. WatermarkHolds(p)'
  <2>1. SUFFICES ASSUME watermark' = proc[p].table PROVE Settled(proc[p].table)
    BY <1>2 DEF WatermarkHolds, Settled, PriceAgrees, UnpricedRows, PricedRows, Stored, ledgerVars
  <2>2. QED
    BY <2>1, UnderWay DEF WatermarkHolds, SkipInvOf
<1>6. PassSoFar(p)'
  BY <1>1 DEF PassSoFar, At, NoPass
<1>7. QED
  BY <1>4, <1>5, <1>6 DEF SkipInvOf

\* One lemma for each call of a pass.
LEMMA CheckKeeps ==
    ASSUME ReconcileInv, NEW p \in Procs, SkipInvOf(p), CheckWatermark(p),
           UNCHANGED <<online, binary, cache, ingest>>
    PROVE  SkipInvOf(p)'
<1>1. pass[p].at = "check" /\ pass[p].after = 0 /\ UNCHANGED ledgerVars
  BY DEF CheckWatermark, At, SkipInvOf, PassSoFar
<1>2. CASE Return(p) /\ UNCHANGED watermark
  BY <1>1, <1>2, ReturnKeeps
<1>3. CASE Goto(p, "has")
  <2> DEFINE new == [pass[p] EXCEPT !.at = "has"]
  <2>1. new \in Pass /\ new.at = "has" /\ new.after = 0
    BY <1>1, UnderWay DEF SkipInvOf, Pass, PassSteps
  <2>2. Advance(p, new)
    BY <1>3 DEF Goto
  <2>3. TablesInTurn(p)' /\ WatermarkHolds(p)' /\ pass'[p] = new
    BY <1>1, <2>1, <2>2, AdvanceKeeps
  <2>4. QED
    BY <2>1, <2>3 DEF SkipInvOf, PassSoFar, At
<1>4. QED
  BY <1>2, <1>3 DEF CheckWatermark

LEMMA HasKeeps ==
    ASSUME ReconcileInv, NEW p \in Procs, SkipInvOf(p), HasUnpriced(p),
           UNCHANGED <<online, binary, cache, ingest>>
    PROVE  SkipInvOf(p)'
<1> DEFINE step == IF UnpricedRows = {} THEN "scan" ELSE "models"
           new == [pass[p] EXCEPT !.at = step]
<1>1. pass[p].at = "has" /\ pass[p].after = 0 /\ UNCHANGED ledgerVars
  BY DEF HasUnpriced, At, SkipInvOf, PassSoFar
<1>2. new \in Pass /\ new.at = step /\ new.at # "idle" /\ new.after = 0
  BY <1>1, UnderWay DEF SkipInvOf, Pass, PassSteps
<1>3. Advance(p, new)
  BY DEF HasUnpriced, Goto
<1>4. TablesInTurn(p)' /\ WatermarkHolds(p)' /\ pass'[p] = new /\ proc' = proc
  BY <1>1, <1>2, <1>3, AdvanceKeeps
<1>5. CASE UnpricedRows = {}
  <2>1. Waiting(p)' = {}
    BY <1>1, <1>5 DEF Waiting, UnpricedRows, Stored, ledgerVars
  <2>2. \A l \in Wrong(p)' : Rank[l] > 0
    BY ReconcileRank DEF Wrong, PricedRows, Stored, StoredIn
  <2>3. QED
    BY <1>2, <1>4, <1>5, <2>1, <2>2 DEF SkipInvOf, PassSoFar, At
<1>6. CASE UnpricedRows # {}
  BY <1>2, <1>4, <1>6 DEF SkipInvOf, PassSoFar, At
<1>7. QED
  BY <1>5, <1>6

LEMMA ModelsKeeps ==
    ASSUME ReconcileInv, NEW p \in Procs, SkipInvOf(p), UnpricedModels(p),
           UNCHANGED <<online, binary, cache, ingest>>
    PROVE  SkipInvOf(p)'
<1> DEFINE models == {ModelOf[l] : l \in UnpricedRows} \cap Known[proc[p].table]
           new == [pass[p] EXCEPT !.at = "next", !.models = models]
<1>1. pass[p].at = "models" /\ UNCHANGED ledgerVars
  BY DEF UnpricedModels, At
<1>2. models \subseteq Models
  BY <1>1, UnderWay, ReconcileTables DEF SkipInvOf
<1>3. new \in Pass /\ new.at = "next" /\ new.models = models
  BY <1>1, <1>2, UnderWay DEF SkipInvOf, Pass, PassSteps
<1>4. TablesInTurn(p)' /\ WatermarkHolds(p)' /\ pass'[p] = new /\ proc' = proc
  BY <1>1, <1>3, AdvanceKeeps DEF UnpricedModels
<1>5. \A l \in Waiting(p)' : ModelOf[l] \in models
  BY <1>1, <1>4, UnderWay, ReconcileTables
  DEF Waiting, UnpricedRows, Stored, StoredIn, ledgerVars, SkipInvOf
<1>6. QED
  BY <1>3, <1>4, <1>5 DEF SkipInvOf, PassSoFar, At

LEMMA NextKeeps ==
    ASSUME ReconcileInv, NEW p \in Procs, SkipInvOf(p), NextModel(p),
           UNCHANGED <<online, binary, cache, ingest>>
    PROVE  SkipInvOf(p)'
<1>1. /\ pass[p].at = "next" /\ UNCHANGED ledgerVars
      /\ \A l \in Waiting(p) : ModelOf[l] \in pass[p].models
  BY DEF NextModel, At, SkipInvOf, PassSoFar
<1>2. \A l \in Lines : Rank[l] > 0
  BY ReconcileRank
<1>3. ASSUME NEW m \in pass[p].models,
             Advance(p, [pass[p] EXCEPT !.at = "read", !.models = @ \ {m},
                                        !.model = m, !.after = 0])
      PROVE  SkipInvOf(p)'
  <2> DEFINE new == [pass[p] EXCEPT !.at = "read", !.models = @ \ {m},
                                    !.model = m, !.after = 0]
  <2>1. /\ new \in Pass /\ new.at = "read" /\ new.models = pass[p].models \ {m}
        /\ new.model = m /\ new.after = 0
    BY <1>1, UnderWay DEF SkipInvOf, Pass, PassSteps
  <2>2. TablesInTurn(p)' /\ WatermarkHolds(p)' /\ pass'[p] = new /\ proc' = proc
    BY <1>1, <1>3, <2>1, AdvanceKeeps
  <2>3. Waiting(p)' = Waiting(p)
    BY <1>1, <2>2 DEF Waiting, UnpricedRows, Stored, ledgerVars
  <2>4. \A l \in Waiting(p) : l \in Lines
    BY DEF Waiting, UnpricedRows, Stored, StoredIn
  <2>5. QED
    BY <1>1, <1>2, <2>1, <2>2, <2>3, <2>4 DEF SkipInvOf, PassSoFar, At
<1>4. ASSUME pass[p].models = {},
             Advance(p, [pass[p] EXCEPT !.at = "scan", !.model = NoModel, !.after = 0])
      PROVE  SkipInvOf(p)'
  <2> DEFINE new == [pass[p] EXCEPT !.at = "scan", !.model = NoModel, !.after = 0]
  <2>1. new \in Pass /\ new.at = "scan" /\ new.after = 0
    BY <1>1, UnderWay DEF SkipInvOf, Pass, PassSteps
  <2>2. TablesInTurn(p)' /\ WatermarkHolds(p)' /\ pass'[p] = new /\ proc' = proc
    BY <1>1, <1>4, <2>1, AdvanceKeeps
  <2>3. Waiting(p)' = {}
    BY <1>1, <1>4, <2>2 DEF Waiting, UnpricedRows, Stored, ledgerVars
  <2>4. \A l \in Wrong(p)' : Rank[l] > 0
    BY <1>2 DEF Wrong, PricedRows, Stored, StoredIn
  <2>5. QED
    BY <2>1, <2>2, <2>3, <2>4 DEF SkipInvOf, PassSoFar, At
<1>5. QED
  BY <1>3, <1>4 DEF NextModel

\* A batch holds the first rows behind the cursor: a row behind it that is not
\* in the batch is behind all of the batch.
TookBatch(p, S, some, none) ==
    \/ /\ pass'[p] = [pass[p] EXCEPT !.at = none]
       /\ \A l \in S : ~(Rank[l] > pass[p].after)
    \/ \E rows \in SUBSET S :
         /\ pass'[p] = [pass[p] EXCEPT !.at = some,
                          !.batch = [l \in rows |-> events[l].cost]]
         /\ \A l \in S : Rank[l] > pass[p].after /\ l \notin rows =>
              \A u \in rows : Rank[u] < Rank[l]

LEMMA ReadKeeps ==
    ASSUME ReconcileInv, NEW p \in Procs, SkipInvOf(p), NEW S \in SUBSET Stored,
           NEW some \in {"apply", "fix"}, NEW none \in {"next", "mark"},
           pass[p].at # "idle", ReadBatch(p, S, some, none),
           UNCHANGED <<online, binary, cache, ingest>>
    PROVE  /\ TablesInTurn(p)' /\ WatermarkHolds(p)' /\ proc' = proc
           /\ TookBatch(p, S, some, none)
<1> DEFINE T == {l \in S : Rank[l] > pass[p].after}
<1>0. UNCHANGED ledgerVars /\ pass[p] \in Pass
  BY UnderWay DEF ReadBatch, SkipInvOf
<1>1. PICK rows \in SUBSET T :
        /\ IsFirst(rows, T)
        /\ IF rows = {} THEN Goto(p, none)
           ELSE Advance(p, [pass[p] EXCEPT !.at = some,
                              !.batch = [l \in rows |-> events[l].cost]])
  BY DEF ReadBatch
<1>2. CASE rows = {}
  <2> DEFINE new == [pass[p] EXCEPT !.at = none]
  <2>1. new \in Pass /\ new.at = none /\ new.at # "idle"
    BY <1>0 DEF Pass, PassSteps
  <2>2. Advance(p, new)
    BY <1>1, <1>2 DEF Goto
  <2>3. TablesInTurn(p)' /\ WatermarkHolds(p)' /\ pass'[p] = new /\ proc' = proc
    BY <1>0, <2>1, <2>2, AdvanceKeeps
  <2>4. T = {}
    <3>1. Cardinality({}) = 0 /\ 0 # BatchSize
      BY FS_EmptySet, ReconcileSets, LedgerSets
    <3>2. QED
      BY <1>1, <1>2, <3>1 DEF IsFirst
  <2>5. QED
    BY <2>3, <2>4 DEF TookBatch
<1>3. CASE rows # {}
  <2> DEFINE new == [pass[p] EXCEPT !.at = some, !.batch = [l \in rows |-> events[l].cost]]
  <2>1. rows \in Batches
    BY <1>1 DEF Batches, IsFirst, Stored, StoredIn
  <2>2. [l \in rows |-> events[l].cost] \in [rows -> Costs]
    BY <1>1 DEF ReconcileInv, CostsComputed
  <2>3. [l \in rows |-> events[l].cost] \in Batch
    BY <2>1, <2>2 DEF Batch
  <2>4. new \in Pass /\ new.at = some
    BY <1>0, <2>3 DEF Pass, PassSteps
  <2>5. TablesInTurn(p)' /\ WatermarkHolds(p)' /\ pass'[p] = new /\ proc' = proc
    BY <1>0, <1>1, <1>3, <2>4, AdvanceKeeps
  <2>6. \A l \in T : l \notin rows => \A u \in rows : Rank[u] < Rank[l]
    BY <1>1 DEF IsFirst
  <2>7. QED
    BY <1>1, <2>5, <2>6 DEF TookBatch
<1>4. QED
  BY <1>2, <1>3

LEMMA UnpricedKeeps ==
    ASSUME ReconcileInv, NEW p \in Procs, SkipInvOf(p), UnpricedBatch(p),
           UNCHANGED <<online, binary, cache, ingest>>
    PROVE  SkipInvOf(p)'
<1> DEFINE S == {l \in UnpricedRows : ModelOf[l] = pass[p].model}
<1>1. /\ pass[p].at = "read" /\ UNCHANGED ledgerVars /\ pass[p] \in Pass
      /\ S \in SUBSET Stored
  BY UnderWay DEF UnpricedBatch, At, ReadBatch, SkipInvOf, UnpricedRows
<1>2. \A l \in Waiting(p) :
         \/ ModelOf[l] \in pass[p].models
         \/ l \in S /\ Rank[l] > pass[p].after
  <2>1. \A l \in Waiting(p) :
            \/ ModelOf[l] \in pass[p].models
            \/ ModelOf[l] = pass[p].model /\ Rank[l] > pass[p].after
    BY <1>1 DEF SkipInvOf, PassSoFar, At
  <2>2. Waiting(p) \subseteq UnpricedRows
    BY DEF Waiting
  <2>3. QED
    BY <2>1, <2>2
<1>3. TablesInTurn(p)' /\ WatermarkHolds(p)' /\ proc' = proc /\ TookBatch(p, S, "apply", "next")
  BY <1>1, ReadKeeps DEF UnpricedBatch
<1>4. Waiting(p)' = Waiting(p)
  BY <1>1, <1>3 DEF Waiting, UnpricedRows, Stored, ledgerVars
<1>5. PassSoFar(p)'
  <2>1. ASSUME pass'[p] = [pass[p] EXCEPT !.at = "next"],
               \A l \in S : ~(Rank[l] > pass[p].after)
        PROVE  PassSoFar(p)'
    <3>1. pass'[p].at = "next" /\ pass'[p].models = pass[p].models
      BY <1>1, <2>1 DEF Pass
    <3>2. QED
      BY <1>2, <1>4, <2>1, <3>1 DEF PassSoFar, At
  <2>2. ASSUME NEW rows \in SUBSET S,
               pass'[p] = [pass[p] EXCEPT !.at = "apply",
                             !.batch = [l \in rows |-> events[l].cost]],
               \A l \in S : Rank[l] > pass[p].after /\ l \notin rows =>
                   \A u \in rows : Rank[u] < Rank[l]
        PROVE  PassSoFar(p)'
    <3>1. /\ pass'[p].at = "apply" /\ pass'[p].models = pass[p].models
          /\ pass'[p].model = pass[p].model /\ DOMAIN pass'[p].batch = rows
      BY <1>1, <2>2 DEF Pass
    <3>2. QED
      BY <1>2, <1>4, <2>2, <3>1 DEF PassSoFar, At, Beyond
  <2>3. QED
    BY <1>3, <2>1, <2>2 DEF TookBatch
<1>6. QED
  BY <1>3, <1>5 DEF SkipInvOf

LEMMA PricedKeeps ==
    ASSUME ReconcileInv, NEW p \in Procs, SkipInvOf(p), PricedBatch(p),
           UNCHANGED <<online, binary, cache, ingest>>
    PROVE  SkipInvOf(p)'
<1>1. /\ pass[p].at = "scan" /\ UNCHANGED ledgerVars /\ pass[p] \in Pass
      /\ PricedRows \in SUBSET Stored
  BY UnderWay DEF PricedBatch, At, ReadBatch, SkipInvOf, PricedRows
<1>2. /\ Waiting(p) = {} /\ Wrong(p) \subseteq PricedRows
      /\ \A l \in Wrong(p) : Rank[l] > pass[p].after
  BY <1>1 DEF SkipInvOf, PassSoFar, At, Wrong
<1>3. /\ TablesInTurn(p)' /\ WatermarkHolds(p)' /\ proc' = proc
      /\ TookBatch(p, PricedRows, "fix", "mark")
  BY <1>1, ReadKeeps DEF PricedBatch
<1>4. Waiting(p)' = Waiting(p) /\ Wrong(p)' = Wrong(p) /\ events' = events
  <2>1. proc' = proc /\ events' = events
    BY <1>1, <1>3 DEF ledgerVars
  <2>2. QED
    BY <2>1 DEF Waiting, Wrong, UnpricedRows, PricedRows, Stored
<1>5. PassSoFar(p)'
  <2>1. ASSUME pass'[p] = [pass[p] EXCEPT !.at = "mark"],
               \A l \in PricedRows : ~(Rank[l] > pass[p].after)
        PROVE  PassSoFar(p)'
    <3>1. pass'[p].at = "mark" /\ Wrong(p) = {}
      BY <1>1, <1>2, <2>1 DEF Pass
    <3>2. QED
      BY <1>2, <1>4, <3>1 DEF PassSoFar, At
  <2>2. ASSUME NEW rows \in SUBSET PricedRows,
               pass'[p] = [pass[p] EXCEPT !.at = "fix",
                             !.batch = [l \in rows |-> events[l].cost]],
               \A l \in PricedRows : Rank[l] > pass[p].after /\ l \notin rows =>
                   \A u \in rows : Rank[u] < Rank[l]
        PROVE  PassSoFar(p)'
    <3>1. /\ pass'[p].at = "fix" /\ pass'[p].batch = [l \in rows |-> events[l].cost]
          /\ DOMAIN pass'[p].batch = rows
      BY <1>1, <2>2 DEF Pass
    <3>2. QED
      BY <1>2, <1>4, <2>2, <3>1 DEF PassSoFar, At, Beyond
  <2>3. QED
    BY <1>3, <2>1, <2>2 DEF TookBatch
<1>6. QED
  BY <1>3, <1>5 DEF SkipInvOf

\* The cursor moves to the last row of the batch.
LEMMA NextBatchKeeps ==
    ASSUME ReconcileInv, NEW p \in Procs, SkipInvOf(p), NEW step \in {"read", "scan"},
           RepriceBatch(p) \/ CorrectBatch(p), NextBatch(p, step),
           UNCHANGED <<online, binary, cache, ingest>>
    PROVE  /\ TablesInTurn(p)' /\ WatermarkHolds(p)' /\ proc' = proc
           /\ pass'[p].at = step /\ pass'[p].models = pass[p].models
           /\ pass'[p].model = pass[p].model
           /\ \A l \in Lines : Beyond(p, l) => Rank[l] > pass'[p].after
<1>1. pass[p].at # "idle" /\ pass[p] \in Pass /\ pass[p].batch \in Batch
  BY UnderWay DEF RepriceBatch, CorrectBatch, At, SkipInvOf, Pass
<1>2. DOMAIN pass[p].batch \subseteq Lines
  BY <1>1, BatchType DEF Batches
<1>3. PICK last \in DOMAIN pass[p].batch :
        Advance(p, [pass[p] EXCEPT !.at = step, !.after = Rank[last],
                                   !.batch = NoPass.batch])
  BY DEF NextBatch
<1> DEFINE new == [pass[p] EXCEPT !.at = step, !.after = Rank[last], !.batch = NoPass.batch]
<1>4. Rank[last] \in Nat
  BY <1>2, ReconcileRank
<1>5. /\ new \in Pass /\ new.at = step /\ new.at # "idle" /\ new.after = Rank[last]
      /\ new.models = pass[p].models /\ new.model = pass[p].model
  <2>1. NoPass.batch \in Batch
    BY NoPassType DEF Pass
  <2>2. QED
    BY <1>1, <1>4, <2>1 DEF Pass, PassSteps
<1>6. TablesInTurn(p)' /\ WatermarkHolds(p)' /\ pass'[p] = new /\ proc' = proc
  BY <1>1, <1>3, <1>5, AdvanceKeeps
<1>7. \A l \in Lines : Beyond(p, l) => Rank[l] > Rank[last]
  BY <1>2, <1>3, ReconcileRank DEF Beyond
<1>8. QED
  BY <1>5, <1>6, <1>7

LEMMA RepriceKeeps ==
    ASSUME ReconcileInv, NEW p \in Procs, SkipInvOf(p), RepriceBatch(p),
           UNCHANGED <<online, binary, cache, ingest>>
    PROVE  SkipInvOf(p)'
<1>1. \A l \in Waiting(p) :
         \/ ModelOf[l] \in pass[p].models
         \/ ModelOf[l] = pass[p].model /\ (l \in DOMAIN pass[p].batch \/ Beyond(p, l))
  BY DEF RepriceBatch, SkipInvOf, PassSoFar
<1>2. /\ TablesInTurn(p)' /\ WatermarkHolds(p)' /\ proc' = proc
      /\ pass'[p].at = "read" /\ pass'[p].models = pass[p].models
      /\ pass'[p].model = pass[p].model
      /\ \A l \in Lines : Beyond(p, l) => Rank[l] > pass'[p].after
  BY NextBatchKeeps DEF RepriceBatch
<1>3. \A l \in Waiting(p)' : l \in Waiting(p) /\ l \in Lines /\ l \notin DOMAIN pass[p].batch
  <2>1. SUFFICES ASSUME NEW l \in UnpricedRows', Price[proc[p].table][l] # NoPrice
                 PROVE  l \in Waiting(p) /\ l \in Lines /\ l \notin DOMAIN pass[p].batch
    BY <1>2 DEF Waiting
  <2>2. l \in Waiting(p) /\ l \in Lines
    BY <2>1, BatchRowsKeep DEF Waiting, UnpricedRows, Stored, StoredIn
  <2>3. QED
    BY <2>1, <2>2, RepriceLeaves
<1>4. PassSoFar(p)'
  BY <1>1, <1>2, <1>3 DEF PassSoFar, At
<1>5. QED
  BY <1>2, <1>4 DEF SkipInvOf

LEMMA CorrectKeeps ==
    ASSUME ReconcileInv, NEW p \in Procs, SkipInvOf(p), CorrectBatch(p),
           UNCHANGED <<online, binary, cache, ingest>>
    PROVE  SkipInvOf(p)'
<1>1. /\ Waiting(p) = {}
      /\ \A l \in Wrong(p) :
            \/ l \in DOMAIN pass[p].batch /\ pass[p].batch[l] = events[l].cost
            \/ Beyond(p, l)
  BY DEF CorrectBatch, SkipInvOf, PassSoFar
<1>2. /\ TablesInTurn(p)' /\ WatermarkHolds(p)' /\ proc' = proc
      /\ pass'[p].at = "scan"
      /\ \A l \in Lines : Beyond(p, l) => Rank[l] > pass'[p].after
  BY NextBatchKeeps DEF CorrectBatch
<1>3. Waiting(p)' = {}
  BY <1>1, <1>2, BatchRowsKeep DEF Waiting
<1>4. ASSUME NEW l \in Wrong(p)'
      PROVE  l \in Lines /\ Beyond(p, l)
  <2>1. /\ l \in PricedRows' /\ l \in Lines
        /\ Price[proc[p].table][l] \notin {NoPrice, events'[l].cost}
    BY <1>2 DEF Wrong, PricedRows, Stored, StoredIn
  <2>2. l \in PricedRows /\ events'[l].cost = events[l].cost
    BY <2>1, BatchRowsKeep
  <2>3. l \in Wrong(p)
    BY <2>1, <2>2 DEF Wrong
  <2>4. QED
    BY <1>1, <2>1, <2>2, <2>3, CorrectLeaves
<1>5. PassSoFar(p)'
  BY <1>2, <1>3, <1>4 DEF PassSoFar, At
<1>6. QED
  BY <1>2, <1>5 DEF SkipInvOf

LEMMA MarkKeeps ==
    ASSUME ReconcileInv, NEW p \in Procs, SkipInvOf(p), SetWatermark(p),
           UNCHANGED <<online, binary, cache, ingest>>
    PROVE  SkipInvOf(p)'
<1>1. Waiting(p) = {} /\ Wrong(p) = {} /\ pass[p].at # "idle"
  BY DEF SetWatermark, SkipInvOf, PassSoFar, At
<1>2. Settled(proc[p].table)
  BY <1>1 DEF Settled, PriceAgrees, Waiting, Wrong
<1>3. QED
  BY <1>1, <1>2, ReturnKeeps DEF SetWatermark

LEMMA PassKeepsSkip ==
    ASSUME ReconcileInv, NEW p \in Procs, SkipInvOf(p), PassStep(p)
    PROVE  SkipInvOf(p)'
BY CheckKeeps, HasKeeps, ModelsKeeps, NextKeeps, UnpricedKeeps, RepriceKeeps,
   PricedKeeps, CorrectKeeps, MarkKeeps
DEF PassStep

\* A step leaves every row as it was, takes it away, or leaves it as the table t
\* would have it.
RowsFollow(t) ==
    /\ \A l \in UnpricedRows' : l \in UnpricedRows \/ Price[t][l] = NoPrice
    /\ \A l \in PricedRows' :
         \/ l \in PricedRows /\ events'[l].cost = events[l].cost
         \/ Price[t][l] \in {NoPrice, events'[l].cost}

LEMMA SettledStays ==
    ASSUME NEW t, Settled(t), RowsFollow(t)
    PROVE  Settled(t)'
BY DEF Settled, PriceAgrees, RowsFollow

LEMMA SameRowsFollow ==
    ASSUME NEW t, UNCHANGED ledgerVars \/ Reset
    PROVE  RowsFollow(t)
<1>1. CASE UNCHANGED ledgerVars
  BY <1>1 DEF RowsFollow, UnpricedRows, PricedRows, Stored, ledgerVars
<1>2. CASE Reset
  BY <1>2 DEF Reset, RowsFollow, UnpricedRows, PricedRows, Stored, StoredIn
<1>3. QED
  BY <1>1, <1>2

\* A row stored with the price of a table is as that table would have it.
LEMMA StoredRowsFollow ==
    ASSUME LedgerTypeOK, NEW t, NEW l \in Lines, NEW cost, NEW priced \in BOOLEAN,
           StoreLine(l, cost, priced), priced <=> Price[t][l] # NoPrice,
           priced => cost = Price[t][l]
    PROVE  RowsFollow(t)
<1>1. CASE events' = events
  BY <1>1 DEF RowsFollow, UnpricedRows, PricedRows, Stored
<1>2. CASE events' # events
  <2>1. /\ events'[l] = NewRow(l, cost, priced)
        /\ \A x \in Lines \ {l} : events'[x] = events[x] \/ events'[x] = NoRow
    BY <1>2, StoreLineRows
  <2>2. events'[l].priced = priced /\ events'[l].cost = cost
    BY <2>1 DEF NewRow
  <2>3. QED
    BY <2>1, <2>2 DEF RowsFollow, UnpricedRows, PricedRows, Stored, StoredIn
<1>3. QED
  BY <1>1, <1>2

\* So it leaves a settled ledger settled.
LEMMA StoreKeepsSettled ==
    ASSUME LedgerTypeOK, NEW t, Settled(t), NEW l \in Lines, NEW cost, NEW priced \in BOOLEAN,
           StoreLine(l, cost, priced), priced <=> Price[t][l] # NoPrice,
           priced => cost = Price[t][l]
    PROVE  Settled(t)'
BY StoredRowsFollow, SettledStays

LEMMA StorePricedKeeps ==
    ASSUME ReconcileInv, NEW p \in Procs, SkipInvOf(p), StorePriced(p)
    PROVE  SkipInvOf(p)'
<1>1. /\ UNCHANGED <<online, binary, cache, watermark, proc, pass>>
      /\ ingest'[p] = NoIngest /\ ingest[p] # NoIngest
  BY DEF StorePriced, NoIngest, ReconcileInv, ReconcileTypeOK
<1>2. /\ proc[p].ready /\ pass[p].at = "idle" /\ proc[p].cmd # "off"
      /\ InForce(p) = proc[p].table
  BY <1>1 DEF SkipInvOf, TablesInTurn, InForce
<1>3. TablesInTurn(p)'
  BY <1>1, <1>2 DEF SkipInvOf, TablesInTurn, InForce
<1>4. WatermarkHolds(p)'
  <2> DEFINE l == ingest[p].line
  <2>1. SUFFICES ASSUME NEW t, t = proc[p].table, watermark = t, Settled(t)
                 PROVE  Settled(t)'
    BY <1>1, <1>2 DEF WatermarkHolds, InForce, SkipInvOf
  <2>2. /\ l \in Lines /\ ingest[p].priced \in BOOLEAN /\ LedgerTypeOK
        /\ ingest[p].priced <=> Price[t][l] # NoPrice
        /\ ingest[p].priced => ingest[p].cost = Price[t][l]
    BY <1>1, <2>1 DEF SkipInvOf, TablesInTurn, ReconcileInv, ReconcileTypeOK, Ingest
  <2> HIDE DEF l
  <2>3. CASE ingest[p].priced /\ Insert(l, ingest[p].cost)
    BY <2>1, <2>2, <2>3, StoreKeepsSettled DEF Insert
  <2>4. CASE ~ingest[p].priced /\ InsertUnpriced(l)
    BY <2>1, <2>2, <2>4, StoreKeepsSettled DEF InsertUnpriced
  <2>5. CASE UNCHANGED ledgerVars
    BY <2>1, <2>5 DEF Settled, PriceAgrees, UnpricedRows, PricedRows, Stored, ledgerVars
  <2>6. QED
    BY <2>3, <2>4, <2>5 DEF StorePriced, l
<1>5. PassSoFar(p)'
  BY <1>1, <1>2 DEF PassSoFar, At
<1>6. QED
  BY <1>3, <1>4, <1>5 DEF SkipInvOf

LEMMA PriceLineKeeps ==
    ASSUME ReconcileInv, NEW p \in Procs, SkipInvOf(p), NEW l \in Lines, PriceLine(p, l)
    PROVE  SkipInvOf(p)'
<1> DEFINE price == Price[proc[p].table][l]
<1>1. /\ UNCHANGED <<ledgerVars, online, binary, cache, watermark, proc, pass>>
      /\ ingest'[p] = [line |-> l, priced |-> price # NoPrice,
                       cost |-> IF price = NoPrice THEN 0 ELSE price]
      /\ proc[p].ready /\ proc[p].cmd # "off"
  BY DEF PriceLine, ReconcileInv, ReconcileTypeOK
<1>2. pass[p].at = "idle"
  BY <1>1 DEF SkipInvOf, TablesInTurn
<1>3. TablesInTurn(p)'
  <2>1. ingest'[p].line = l
    BY <1>1
  <2>2. /\ ingest'[p].priced = (price # NoPrice)
        /\ price # NoPrice => ingest'[p].cost = price
    <3> HIDE DEF price
    <3>1. ASSUME price = NoPrice PROVE ingest'[p].priced = FALSE
      <4>1. (price # NoPrice) = FALSE
        BY <3>1
      <4>2. ingest'[p] = [line |-> l, priced |-> FALSE, cost |-> IF price = NoPrice THEN 0 ELSE price]
        BY <1>1, <4>1, Zenon
      <4>3. QED
        BY <4>2
    <3>2. ASSUME price # NoPrice PROVE ingest'[p].priced = TRUE /\ ingest'[p].cost = price
      <4>1. (price # NoPrice) = TRUE
        BY <3>2
      <4>2. ingest'[p] = [line |-> l, priced |-> TRUE, cost |-> IF price = NoPrice THEN 0 ELSE price]
        BY <1>1, <4>1, Zenon
      <4>3. QED
        BY <3>2, <4>2
    <3>3. QED
      BY <3>1, <3>2
  <2>3. QED
    BY <1>1, <1>2, <2>1, <2>2 DEF SkipInvOf, TablesInTurn, InForce
<1>4. WatermarkHolds(p)'
  BY <1>1 DEF SkipInvOf, WatermarkHolds, InForce, Settled, PriceAgrees, UnpricedRows,
              PricedRows, Stored, ledgerVars
<1>5. PassSoFar(p)'
  BY <1>1, <1>2 DEF PassSoFar, At
<1>6. QED
  BY <1>3, <1>4, <1>5 DEF SkipInvOf

\* A program starts with the installed table, and with nothing in hand.
LEMMA StartKeeps ==
    ASSUME ReconcileInv, NEW p \in Procs, SkipInvOf(p), NEW cmd \in CommandNames,
           NEW newPass \in {Run(FALSE), Run(TRUE), NoPass},
           Start(p, cmd, binary, newPass), cache' = cache,
           UNCHANGED ledgerVars \/ Reset
    PROVE  SkipInvOf(p)'
<1>1. /\ proc[p].cmd = "off" /\ pass'[p] = newPass /\ ingest' = ingest
      /\ proc'[p] = [cmd |-> cmd, table |-> binary, ready |-> newPass = NoPass]
      /\ UNCHANGED <<binary, watermark>>
  BY DEF Start, ReconcileInv, ReconcileTypeOK
<1>2. cmd # "off" /\ ingest[p] = NoIngest
  BY <1>1 DEF CommandNames, SkipInvOf, TablesInTurn
<1>3. InForce(p) = binary /\ InForce(p)' = binary /\ binary \in Nat
  BY <1>1, <1>2, ReconcileSets DEF InForce, ReconcileInv, ReconcileTypeOK, Tables
<1>4. newPass.at # "idle" => ~proc'[p].ready
  <2>1. NoPass.at = "idle"
    BY DEF NoPass
  <2>2. SUFFICES ASSUME newPass.at # "idle" PROVE proc'[p].ready = FALSE
    OBVIOUS
  <2>3. (newPass = NoPass) = FALSE
    BY <2>1, <2>2
  <2>4. proc'[p] = [cmd |-> cmd, table |-> binary, ready |-> FALSE]
    BY <1>1, <2>3, Zenon
  <2>5. QED
    BY <2>4
<1>5. TablesInTurn(p)'
  <2>1. proc'[p].cmd = cmd /\ proc'[p].table = binary
    BY <1>1
  <2>2. QED
    BY <1>1, <1>2, <1>3, <1>4, <2>1 DEF SkipInvOf, TablesInTurn
<1>6. WatermarkHolds(p)'
  <2>1. CASE UNCHANGED ledgerVars
    BY <1>1, <1>3, <2>1 DEF SkipInvOf, WatermarkHolds, Settled, PriceAgrees, UnpricedRows,
                            PricedRows, Stored, ledgerVars
  <2>2. CASE Reset
    BY <2>2 DEF Reset, WatermarkHolds, Settled, PriceAgrees, UnpricedRows, PricedRows,
                Stored, StoredIn
  <2>3. QED
    BY <2>1, <2>2
<1>7. newPass.after = 0 /\ newPass.at \in {"check", "idle"}
  <2>1. NoPass.after = 0 /\ NoPass.at = "idle" /\ NoPass \in Pass
    BY NoPassType DEF NoPass
  <2>2. QED
    BY <2>1 DEF Run, Pass
<1>8. PassSoFar(p)'
  BY <1>1, <1>7 DEF PassSoFar, At
<1>9. QED
  BY <1>5, <1>6, <1>8 DEF SkipInvOf

LEMMA StopKeeps ==
    ASSUME ReconcileInv, NEW p \in Procs, SkipInvOf(p), Stop(p)
    PROVE  SkipInvOf(p)'
<1>1. /\ pass'[p] = NoPass /\ proc'[p] = Off /\ ingest'[p] = NoIngest
      /\ UNCHANGED <<ledgerVars, binary, cache, watermark>>
  BY DEF Stop, ReconcileInv, ReconcileTypeOK
<1>2. InForce(p)' = binary /\ binary \in Nat /\ InForce(p) \in Nat /\ watermark \in Nat
  BY <1>1, ReconcileSets DEF InForce, Off, ReconcileInv, ReconcileTypeOK, Tables, Process
<1>3. TablesInTurn(p)'
  BY <1>1, <1>2 DEF SkipInvOf, TablesInTurn, Off, NoPass
<1>4. WatermarkHolds(p)'
  BY <1>1, <1>2 DEF SkipInvOf, TablesInTurn, WatermarkHolds, Settled, PriceAgrees,
                    UnpricedRows, PricedRows, Stored, ledgerVars
<1>5. PassSoFar(p)'
  BY <1>1 DEF PassSoFar, At, NoPass
<1>6. QED
  BY <1>3, <1>4, <1>5 DEF SkipInvOf

LEMMA UpgradeKeeps ==
    ASSUME ReconcileInv, NEW p \in Procs, SkipInvOf(p), Upgrade
    PROVE  SkipInvOf(p)'
<1>1. /\ binary' = binary + 1 /\ binary \in Nat /\ watermark \in Nat /\ InForce(p) \in Nat
      /\ UNCHANGED <<ledgerVars, cache, watermark, proc, pass, ingest>>
  BY ReconcileSets DEF Upgrade, InForce, ReconcileInv, ReconcileTypeOK, Tables, Process
<1>2. InForce(p)' = IF proc[p].cmd = "off" THEN binary + 1 ELSE InForce(p)
  BY <1>1 DEF InForce
<1>3. TablesInTurn(p)'
  BY <1>1, <1>2 DEF SkipInvOf, TablesInTurn, InForce
<1>4. WatermarkHolds(p)'
  BY <1>1, <1>2 DEF SkipInvOf, TablesInTurn, WatermarkHolds, InForce, Settled, PriceAgrees,
                    UnpricedRows, PricedRows, Stored, ledgerVars
<1>5. PassSoFar(p)'
  BY <1>1 DEF SkipInvOf, PassSoFar, At, Waiting, Wrong, Beyond, UnpricedRows, PricedRows,
              Stored, ledgerVars
<1>6. QED
  BY <1>3, <1>4, <1>5 DEF SkipInvOf

LEMMA StartsKeep ==
    ASSUME ReconcileInv, NEW p \in Procs, SkipInvOf(p), ~online,
           \/ RunWatch(p) \/ RunStatus(p) \/ RunBackfill(p) \/ RunRebuild(p)
           \/ RunPricingRefresh(p) \/ Once(p)
    PROVE  SkipInvOf(p)'
<1>1. LoadCachedTable = binary
  BY ReconcileSets
  DEF LoadCachedTable, SkipInvOf, TablesInTurn, ReconcileInv, ReconcileTypeOK, Tables
<1>2. {"watch", "status", "backfill", "rebuild"} \subseteq CommandNames
  BY DEF CommandNames
<1>3. CASE RunWatch(p)
  BY <1>1, <1>2, <1>3, StartKeeps DEF RunWatch
<1>4. CASE RunStatus(p)
  BY <1>1, <1>2, <1>4, StartKeeps DEF RunStatus
<1>5. CASE RunBackfill(p)
  BY <1>2, <1>5, StartKeeps DEF RunBackfill
<1>6. CASE RunRebuild(p)
  BY <1>2, <1>6, StartKeeps DEF RunRebuild
<1>7. CASE RunPricingRefresh(p) \/ Once(p)
  BY <1>7 DEF RunPricingRefresh, Once, Refreshed
<1>8. QED
  BY <1>3, <1>4, <1>5, <1>6, <1>7

LEMMA FailKeeps ==
    ASSUME ReconcileInv, NEW p \in Procs, SkipInvOf(p), PassFails(p)
    PROVE  SkipInvOf(p)'
BY ReturnKeeps DEF PassFails

\* What another process may do while p is at any point of its own work.
LEMMA OthersKeep ==
    ASSUME ReconcileInv, NEW p \in Procs, SkipInvOf(p), NEW t \in Tables,
           UNCHANGED <<cache, binary, pass[p], proc[p], ingest[p]>>,
           watermark' = watermark \/ (watermark' = t /\ Settled(t)),
           watermark <= t, t <= binary, proc[p].cmd # "off" => t = proc[p].table,
           RowsFollow(t)
    PROVE  SkipInvOf(p)'
<1>1. /\ InForce(p)' = InForce(p) /\ InForce(p) \in Nat /\ t \in Nat /\ binary \in Nat
      /\ watermark \in Nat /\ watermark' \in Nat
      /\ pass'[p] = pass[p] /\ proc'[p] = proc[p] /\ ingest'[p] = ingest[p]
  BY ReconcileSets DEF InForce, ReconcileInv, ReconcileTypeOK, Tables, Process
<1>2. t <= InForce(p)
  BY <1>1 DEF InForce
<1>3. TablesInTurn(p)'
  BY <1>1, <1>2 DEF SkipInvOf, TablesInTurn
<1>4. WatermarkHolds(p)'
  <2>1. SUFFICES ASSUME watermark' = InForce(p) PROVE Settled(watermark)'
    BY <1>1 DEF WatermarkHolds
  <2>2. watermark' = t
    BY <1>1, <1>2, <2>1
  <2>3. Settled(t)
    BY <1>1, <2>1, <2>2 DEF SkipInvOf, WatermarkHolds
  <2>4. Settled(t)'
    BY <2>3, SettledStays
  <2>5. QED
    BY <2>2, <2>4 DEF Settled, PriceAgrees
<1>5. PassSoFar(p)'
  <2>1. CASE pass[p].at = "idle"
    BY <1>1, <2>1 DEF PassSoFar, At
  <2>2. CASE pass[p].at # "idle"
    <3>1. t = proc[p].table
      BY <2>2, UnderWay DEF SkipInvOf
    <3>2. Waiting(p)' \subseteq Waiting(p)
      BY <1>1, <3>1 DEF Waiting, RowsFollow
    <3>3. \A l \in Wrong(p)' : l \in Wrong(p) /\ events'[l].cost = events[l].cost
      BY <1>1, <3>1 DEF Wrong, RowsFollow
    <3>4. \A l : Beyond(p, l)' <=> Beyond(p, l)
      BY <1>1 DEF Beyond
    <3>5. PassSoFar(p)
      BY DEF SkipInvOf
    <3>6. QED
      BY <1>1, <3>2, <3>3, <3>4, <3>5 DEF PassSoFar, At
  <2>3. QED
    BY <2>1, <2>2
<1>6. QED
  BY <1>3, <1>4, <1>5 DEF SkipInvOf

\* A step of a process that runs writes rows as its table would have them.
LEMMA RunningFollows ==
    ASSUME ReconcileInv, NEW q \in Procs, SkipInvOf(q),
           PassStep(q) \/ PassFails(q) \/ StorePriced(q) \/ \E l \in Lines : PriceLine(q, l)
    PROVE  /\ proc[q].cmd # "off"
           /\ watermark' = watermark
                \/ (watermark' = proc[q].table /\ Settled(proc[q].table))
           /\ RowsFollow(proc[q].table)
           /\ UNCHANGED <<online, cache, binary>>
           /\ \A p \in Procs \ {q} : UNCHANGED <<pass[p], proc[p], ingest[p]>>
<1>1. ASSUME PassStep(q) \/ PassFails(q)
      PROVE  /\ UNCHANGED <<online, cache, binary, ingest>> /\ pass[q].at # "idle"
             /\ proc[q].cmd # "off"
  <2>1. /\ UNCHANGED <<online, cache, binary, ingest>> /\ pass[q].at # "idle"
    BY <1>1
    DEF PassFails, PassStep, CheckWatermark, HasUnpriced, UnpricedModels, NextModel,
        UnpricedBatch, RepriceBatch, PricedBatch, CorrectBatch, SetWatermark, At
  <2>2. QED
    BY <2>1, UnderWay DEF SkipInvOf
<1>2. ASSUME PassStep(q) \/ PassFails(q), NEW p \in Procs \ {q}
      PROVE  UNCHANGED <<pass[p], proc[p]>>
  <2>1. (\E new : Advance(q, new)) \/ Return(q)
    BY <1>2
    DEF PassFails, PassStep, CheckWatermark, HasUnpriced, UnpricedModels, NextModel,
        UnpricedBatch, RepriceBatch, PricedBatch, CorrectBatch, SetWatermark, ReadBatch,
        NextBatch, Goto
  <2>2. pass \in [Procs -> Pass] /\ proc \in [Procs -> Process]
    BY DEF ReconcileInv, ReconcileTypeOK
  <2>3. QED
    BY <2>1, <2>2 DEF Advance, Return
<1>3. ASSUME PassStep(q) \/ PassFails(q)
      PROVE  /\ watermark' = watermark
                  \/ (watermark' = proc[q].table /\ Settled(proc[q].table))
             /\ RowsFollow(proc[q].table)
  <2>1. CASE SetWatermark(q)
    <3>1. Settled(proc[q].table) /\ watermark' = proc[q].table /\ UNCHANGED ledgerVars
      BY <2>1
      DEF SetWatermark, SkipInvOf, PassSoFar, At, Settled, PriceAgrees, Waiting, Wrong
    <3>2. QED
      BY <3>1, SameRowsFollow
  <2>2. CASE RepriceBatch(q) \/ CorrectBatch(q)
    <3>1. watermark' = watermark
      BY <2>2 DEF RepriceBatch, CorrectBatch, NextBatch, Advance
    <3>2. QED
      BY <2>2, <3>1, BatchRowsKeep DEF RowsFollow
  <2>3. CASE ~SetWatermark(q) /\ ~RepriceBatch(q) /\ ~CorrectBatch(q)
    <3>1. UNCHANGED ledgerVars /\ watermark' = watermark
      BY <1>3, <2>3
      DEF PassFails, PassStep, CheckWatermark, HasUnpriced, UnpricedModels, NextModel,
          UnpricedBatch, PricedBatch, ReadBatch, Goto, Advance
    <3>2. QED
      BY <3>1, SameRowsFollow
  <2>4. QED
    BY <2>1, <2>2, <2>3
<1>4. CASE PassStep(q) \/ PassFails(q)
  BY <1>1, <1>2, <1>3, <1>4
<1>5. CASE \E l \in Lines : PriceLine(q, l)
  <2>1. /\ proc[q].cmd # "off"
        /\ UNCHANGED <<ledgerVars, online, cache, binary, watermark, proc, pass>>
    BY <1>5 DEF PriceLine
  <2>2. \A p \in Procs \ {q} : ingest'[p] = ingest[p]
    BY <1>5 DEF PriceLine, ReconcileInv, ReconcileTypeOK
  <2>3. QED
    BY <2>1, <2>2, SameRowsFollow
<1>6. CASE StorePriced(q)
  <2> DEFINE l == ingest[q].line
             t == proc[q].table
  <2>1. /\ UNCHANGED <<online, cache, binary, watermark, proc, pass>> /\ ingest[q] # NoIngest
        /\ \A p \in Procs \ {q} : ingest'[p] = ingest[p]
    BY <1>6 DEF StorePriced, NoIngest, ReconcileInv, ReconcileTypeOK
  <2>2. /\ proc[q].cmd # "off" /\ l \in Lines /\ ingest[q].priced \in BOOLEAN
        /\ ingest[q].priced <=> Price[t][l] # NoPrice
        /\ ingest[q].priced => ingest[q].cost = Price[t][l]
        /\ LedgerTypeOK
    BY <2>1 DEF SkipInvOf, TablesInTurn, ReconcileInv, ReconcileTypeOK, Ingest
  <2>3. RowsFollow(t)
    <3> HIDE DEF l, t
    <3>1. CASE ingest[q].priced /\ Insert(l, ingest[q].cost)
      BY <2>2, <3>1, StoredRowsFollow DEF Insert
    <3>2. CASE ~ingest[q].priced /\ InsertUnpriced(l)
      BY <2>2, <3>2, StoredRowsFollow DEF InsertUnpriced
    <3>3. CASE UNCHANGED ledgerVars
      BY <3>3, SameRowsFollow
    <3>4. QED
      BY <1>6, <3>1, <3>2, <3>3 DEF StorePriced, l
  <2>4. QED
    BY <2>1, <2>2, <2>3
<1>7. QED
  BY <1>4, <1>5, <1>6

\* Programs that start and stop beside p write no row but by a wipe.
LEMMA OthersStart ==
    ASSUME ReconcileInv, NEW p \in Procs, SkipInvOf(p), ~online, NEW q \in Procs \ {p},
           \/ RunWatch(q) \/ RunStatus(q) \/ RunBackfill(q) \/ RunRebuild(q)
           \/ RunPricingRefresh(q) \/ Once(q) \/ Stop(q)
    PROVE  SkipInvOf(p)'
<1>1. /\ UNCHANGED <<cache, binary, watermark, pass[p], proc[p], ingest[p]>>
      /\ UNCHANGED ledgerVars \/ Reset
  BY DEF RunWatch, RunStatus, RunBackfill, RunRebuild, RunPricingRefresh, Once, Refreshed,
         Stop, Start, ReconcileInv, ReconcileTypeOK
<1>2. /\ InForce(p) \in Tables /\ watermark <= InForce(p) /\ InForce(p) <= binary
      /\ proc[p].cmd # "off" => InForce(p) = proc[p].table
  BY DEF SkipInvOf, TablesInTurn, InForce, ReconcileInv, ReconcileTypeOK, Process
<1>3. RowsFollow(InForce(p))
  BY <1>1, SameRowsFollow
<1>4. QED
  BY <1>1, <1>2, <1>3, OthersKeep

\* What runs beside p runs on the table of p, if p runs, and on one that is not
\* newer than the installed one, if p does not.
LEMMA OthersRun ==
    ASSUME ReconcileInv, OneTableAtATime, NEW p \in Procs, SkipInvOf(p),
           NEW q \in Procs \ {p}, SkipInvOf(q),
           PassStep(q) \/ PassFails(q) \/ StorePriced(q) \/ \E l \in Lines : PriceLine(q, l)
    PROVE  SkipInvOf(p)'
<1> DEFINE t == proc[q].table
<1>1. /\ proc[q].cmd # "off" /\ RowsFollow(t)
      /\ watermark' = watermark \/ (watermark' = t /\ Settled(t))
      /\ UNCHANGED <<cache, binary, pass[p], proc[p], ingest[p]>>
  BY RunningFollows
<1>2. /\ t \in Tables /\ watermark <= t /\ t <= binary
      /\ proc[p].cmd # "off" => t = proc[p].table
  BY <1>1
  DEF OneTableAtATime, SkipInvOf, TablesInTurn, InForce, ReconcileInv, ReconcileTypeOK, Process
<1>3. QED
  BY <1>1, <1>2, OthersKeep

LEMMA SkipInit == ReconcileInit => SkipInv
<1> SUFFICES ASSUME ReconcileInit, NEW p \in Procs PROVE SkipInvOf(p)
  BY DEF SkipInv, SkipInvOf
<1>1. /\ proc[p] = Off /\ pass[p] = NoPass /\ ingest[p] = NoIngest
      /\ binary = 1 /\ cache = 0 /\ watermark = 0
  BY DEF ReconcileInit
<1>2. InForce(p) = 1
  BY <1>1 DEF InForce, Off
<1>3. TablesInTurn(p)
  BY <1>1, <1>2 DEF TablesInTurn, NoPass
<1>4. WatermarkHolds(p)
  BY <1>1, <1>2 DEF WatermarkHolds
<1>5. PassSoFar(p)
  BY <1>1 DEF PassSoFar, At, NoPass
<1>6. QED
  BY <1>3, <1>4, <1>5 DEF SkipInvOf

LEMMA SkipStep ==
    ASSUME OneTableAtATime, ReconcileInv, SkipInv, [ReconcileNext]_reconcileVars
    PROVE  SkipInv'
<1> SUFFICES ASSUME ~online, NEW p \in Procs PROVE SkipInvOf(p)'
  BY OnlineStays DEF SkipInv, SkipInvOf
<1>1. \A q \in Procs : SkipInvOf(q)
  BY DEF SkipInv, SkipInvOf
<1>2. CASE Upgrade
  BY <1>1, <1>2, UpgradeKeeps
<1>3. CASE UNCHANGED reconcileVars
  BY <1>1, <1>3
  DEF reconcileVars, SkipInvOf, TablesInTurn, WatermarkHolds, InForce, PassSoFar, At, Waiting,
      Wrong, Beyond, Settled, PriceAgrees, UnpricedRows, PricedRows, Stored
<1>4. ASSUME NEW q \in Procs,
             \/ RunWatch(q) \/ RunStatus(q) \/ RunBackfill(q) \/ RunRebuild(q)
             \/ RunPricingRefresh(q) \/ Once(q) \/ Stop(q) \/ PassStep(q) \/ PassFails(q)
             \/ \E l \in Lines : PriceLine(q, l)
             \/ StorePriced(q)
      PROVE  SkipInvOf(p)'
  <2>1. CASE q = p
    BY <1>1, <1>4, <2>1, StartsKeep, StopKeeps, PassKeepsSkip, FailKeeps, PriceLineKeeps,
       StorePricedKeeps
  <2>2. CASE q # p
    BY <1>1, <1>4, <2>2, OthersStart, OthersRun
  <2>3. QED
    BY <2>1, <2>2
<1>5. QED
  BY <1>2, <1>3, <1>4 DEF ReconcileNext

\* With no fetched tables and one table at a time, a pass that is skipped because
\* the watermark names its table would have found nothing to price and nothing
\* to correct: through upgrades, kills and failing calls, and whatever passes,
\* walks, watchers and rebuilds run side by side.
THEOREM SkippedPassesMissNothing ==
    ReconcileSpec /\ []OneTableAtATime => []SkipIsSound
<1>1. OneTableAtATime /\ ReconcileInv /\ SkipInv /\ [ReconcileNext]_reconcileVars => SkipInv'
  BY SkipStep
<1>2. ReconcileInv /\ SkipInv => SkipIsSound
  <2> SUFFICES ASSUME ReconcileInv, SkipInv, NEW p \in Procs, ~online, At(p, "check"),
                      watermark = proc[p].table
               PROVE  /\ \A l \in UnpricedRows : Price[watermark][l] = NoPrice
                      /\ \A l \in PricedRows : Price[watermark][l] \in {NoPrice, events[l].cost}
    BY DEF SkipIsSound
  <2>1. Settled(watermark)
    BY UnderWay DEF SkipInv, WatermarkHolds, At
  <2>2. QED
    BY <2>1 DEF Settled, PriceAgrees, UnpricedRows, PricedRows, Stored, StoredIn
<1>3. QED
  BY <1>1, <1>2, SkipInit, ReconcileInvariant, PTL DEF ReconcileSpec

(***************************************************************************)
(* There too a priced row is never replaced by an unpriced one, if newer   *)
(* tables keep the prices of older ones.                                   *)
(***************************************************************************)

\* A row that a line can take the place of is one that the table in force
\* can price, whenever the row is priced.
RespKept == \A l \in Stored : events[l].resp \in {RespOf[l], NoResp}

PricedFits(p) ==
    \A l \in PricedRows :
        events[l].resp = RespOf[l] => Price[InForce(p)][l] # NoPrice

\* A table prices what an older one prices, the longer of two lines of a
\* response if it prices the shorter, and the lines without a response that an
\* older binary stored.
TablesKeepPrices ==
    /\ \A t, u \in Tables : t <= u =>
         \A l \in Lines : Price[t][l] # NoPrice => Price[u][l] # NoPrice
    /\ \A t \in Tables, l, u \in Lines :
         RespOf[l] = RespOf[u] /\ RespOf[l] # NoResp /\ OutputOf[l] <= OutputOf[u] =>
            (Price[t][l] # NoPrice => Price[t][u] # NoPrice)
    /\ \A t \in Tables, l \in Legacy : RespOf[l] = NoResp => Price[t][l] # NoPrice

FitsInv == RespKept /\ (~online => \A p \in Procs : PricedFits(p))

LEMMA RespInit == ReconcileInit => RespKept
<1> SUFFICES ASSUME ReconcileInit, NEW l \in Stored PROVE events[l].resp \in {RespOf[l], NoResp}
  BY DEF RespKept
<1>1. PICK S \in SUBSET Legacy : \E cost \in [S -> Costs] :
        events = [u \in Lines |-> IF u \in S THEN LegacyRow(cost[u]) ELSE NoRow]
  BY DEF ReconcileInit, LedgerInit
<1>2. QED
  BY <1>1 DEF Stored, StoredIn, LegacyRow

LEMMA RespStep ==
    ASSUME ReconcileInv, RespKept, [ReconcileNext]_reconcileVars
    PROVE  RespKept'
<1>0. LedgerTypeOK /\ [LedgerNext]_ledgerVars
  BY LedgerStep DEF ReconcileInv, ReconcileTypeOK
<1>1. ASSUME NEW l \in Lines, NEW cost, NEW priced, StoreLine(l, cost, priced)
      PROVE  RespKept'
  <2>1. CASE events' = events
    BY <2>1 DEF RespKept, Stored
  <2>2. CASE events' # events
    <3>1. /\ events'[l] = NewRow(l, cost, priced)
          /\ \A x \in Lines \ {l} : events'[x] = events[x] \/ events'[x] = NoRow
      BY <1>0, <1>1, <2>2, StoreLineRows
    <3>2. QED
      BY <3>1 DEF RespKept, Stored, StoredIn, NewRow
  <2>3. QED
    BY <2>1, <2>2
<1>2. ASSUME NEW S \in SUBSET Lines,
             \/ \E price \in [S -> Nat] : ApplyReprice(S, price)
             \/ \E old, new \in [S -> Nat] : ApplyCorrection(S, old, new)
      PROVE  RespKept'
  BY <1>0, <1>2, PassRows DEF RespKept, Stored, StoredIn
<1>3. CASE Reset
  BY <1>3 DEF Reset, RespKept, Stored, StoredIn
<1>4. CASE UNCHANGED ledgerVars
  BY <1>4 DEF RespKept, Stored, ledgerVars
<1>5. QED
  BY <1>0, <1>1, <1>2, <1>3, <1>4, StepCases

\* Without fetches the rows change by a wipe, or by a process that runs: by its
\* pass, or by a line stored at the price of its table.
OfflineWrite(q) ==
    \/ Reset
    \/ /\ proc[q].cmd # "off"
       /\ \/ RepriceBatch(q) \/ CorrectBatch(q)
          \/ \E l \in Lines : \E cost : Insert(l, cost) /\ Price[proc[q].table][l] # NoPrice
          \/ \E l \in Lines : InsertUnpriced(l) /\ Price[proc[q].table][l] = NoPrice

LEMMA OfflineWrites ==
    ASSUME ReconcileInv, SkipInv, ~online, [ReconcileNext]_reconcileVars
    PROVE  UNCHANGED ledgerVars \/ \E q \in Procs : OfflineWrite(q)
<1>1. CASE Upgrade \/ UNCHANGED reconcileVars
  BY <1>1 DEF Upgrade, reconcileVars, ledgerVars
<1>2. ASSUME NEW q \in Procs,
             \/ RunWatch(q) \/ RunStatus(q) \/ RunBackfill(q) \/ RunRebuild(q)
             \/ RunPricingRefresh(q) \/ Once(q) \/ Stop(q)
      PROVE  UNCHANGED ledgerVars \/ OfflineWrite(q)
  BY <1>2
  DEF RunWatch, RunStatus, RunBackfill, RunRebuild, RunPricingRefresh, Once, Stop, OfflineWrite
<1>3. ASSUME NEW q \in Procs, PassStep(q)
      PROVE  UNCHANGED ledgerVars \/ OfflineWrite(q)
  <2>1. proc[q].cmd # "off"
    BY <1>3, RunningFollows DEF SkipInv, SkipInvOf
  <2>2. UNCHANGED ledgerVars \/ RepriceBatch(q) \/ CorrectBatch(q)
    BY <1>3
    DEF PassStep, CheckWatermark, HasUnpriced, UnpricedModels, NextModel, UnpricedBatch,
        PricedBatch, SetWatermark, ReadBatch
  <2>3. QED
    BY <2>1, <2>2 DEF OfflineWrite
<1>4. ASSUME NEW q \in Procs, PassFails(q) \/ \E l \in Lines : PriceLine(q, l)
      PROVE  UNCHANGED ledgerVars
  BY <1>4 DEF PassFails, PriceLine
<1>5. ASSUME NEW q \in Procs, StorePriced(q)
      PROVE  UNCHANGED ledgerVars \/ OfflineWrite(q)
  <2>1. ingest[q] # NoIngest
    BY <1>5 DEF StorePriced, NoIngest
  <2>2. /\ proc[q].cmd # "off" /\ ingest[q].line \in Lines
        /\ ingest[q].priced \in BOOLEAN
        /\ ingest[q].priced <=> Price[proc[q].table][ingest[q].line] # NoPrice
    BY <2>1 DEF SkipInv, TablesInTurn, ReconcileInv, ReconcileTypeOK, Ingest
  <2>3. CASE ingest[q].priced /\ Insert(ingest[q].line, ingest[q].cost)
    BY <2>2, <2>3 DEF OfflineWrite
  <2>4. CASE ~ingest[q].priced /\ InsertUnpriced(ingest[q].line)
    BY <2>2, <2>4 DEF OfflineWrite
  <2>5. QED
    BY <1>5, <2>3, <2>4 DEF StorePriced
<1>6. QED
  BY <1>1, <1>2, <1>3, <1>4, <1>5 DEF ReconcileNext

\* The table of a process only gets newer, over its restarts too, and what one
\* process prices with is not newer than what another has or will start with.
LEMMA TablesGoOn ==
    ASSUME ReconcileInv, OneTableAtATime, SkipInv, SkipInv', ~online, NEW p \in Procs,
           [ReconcileNext]_reconcileVars
    PROVE  /\ InForce(p) \in Tables /\ InForce(p)' \in Tables
           /\ InForce(p) <= InForce(p)'
           /\ \A q \in Procs : proc[q].cmd # "off" =>
                proc[q].table \in Tables /\ proc[q].table <= InForce(p)
<1>1. /\ InForce(p) \in Tables /\ binary \in Tables /\ InForce(p) <= binary
      /\ InForce(p)' \in Tables
  <2>1. InForce(p) \in Tables /\ binary \in Tables /\ InForce(p) <= binary
    BY DEF InForce, SkipInv, TablesInTurn, ReconcileInv, ReconcileTypeOK, Process
  <2>2. InForce(p)' \in Tables
    BY ReconcileStepInv DEF InForce, ReconcileInv, ReconcileTypeOK, Process
  <2>3. QED
    BY <2>1, <2>2
<1>2. binary \in Nat /\ InForce(p) \in Nat /\ InForce(p)' \in Nat
  BY <1>1, ReconcileSets DEF Tables
<1>3. ASSUME NEW q \in Procs, proc[q].cmd # "off"
      PROVE  proc[q].table \in Tables /\ proc[q].table <= InForce(p)
  <2>1. proc[q].table \in Tables /\ proc[q].table <= binary
    BY <1>3 DEF SkipInv, TablesInTurn, InForce, ReconcileInv, ReconcileTypeOK, Process
  <2>2. CASE proc[p].cmd = "off"
    BY <2>1, <2>2 DEF InForce
  <2>3. CASE proc[p].cmd # "off"
    BY <1>2, <1>3, <2>1, <2>3 DEF InForce, OneTableAtATime
  <2>4. QED
    BY <2>2, <2>3
<1>4. binary <= binary' /\ (InForce(p)' = InForce(p) \/ InForce(p)' = binary')
  <2>1. proc \in [Procs -> Process]
    BY DEF ReconcileInv, ReconcileTypeOK
  <2>2. CASE Upgrade
    BY <1>2, <2>2 DEF Upgrade, InForce
  <2>3. CASE UNCHANGED reconcileVars
    BY <1>2, <2>3 DEF reconcileVars, InForce
  <2>4. ASSUME NEW q \in Procs,
               \/ RunWatch(q) \/ RunStatus(q) \/ RunBackfill(q) \/ RunRebuild(q)
               \/ RunPricingRefresh(q) \/ Once(q) \/ Stop(q)
        PROVE  binary' = binary /\ (InForce(p)' = InForce(p) \/ InForce(p)' = binary)
    <3>1. LoadCachedTable = binary
      BY <1>1, <1>2, ReconcileSets DEF LoadCachedTable, SkipInv, TablesInTurn, Tables
    <3>2. CASE Stop(q)
      BY <2>1, <3>2 DEF Stop, InForce, Off
    <3>3. CASE ~Stop(q)
      <4>1. \E cmd \in CommandNames : \E newPass : Start(q, cmd, binary, newPass)
        BY <2>4, <3>1, <3>3
        DEF RunWatch, RunStatus, RunBackfill, RunRebuild, RunPricingRefresh, Once, Refreshed,
            CommandNames
      <4>2. QED
        BY <2>1, <4>1 DEF Start, InForce
    <3>4. QED
      BY <3>2, <3>3
  <2>5. ASSUME NEW q \in Procs, PassStep(q) \/ PassFails(q)
        PROVE  binary' = binary /\ InForce(p)' = InForce(p)
    <3>1. binary' = binary /\ proc[q].cmd # "off"
      BY <2>5, RunningFollows DEF SkipInv, SkipInvOf
    <3>2. proc' = proc \/ proc' = [proc EXCEPT ![q].ready = TRUE]
      BY <2>5
      DEF PassFails, PassStep, CheckWatermark, HasUnpriced, UnpricedModels, NextModel,
          UnpricedBatch, RepriceBatch, PricedBatch, CorrectBatch, SetWatermark, ReadBatch,
          NextBatch, Goto, Advance, Return
    <3>3. proc'[p].cmd = proc[p].cmd /\ proc'[p].table = proc[p].table
      BY <2>1, <3>2 DEF Process
    <3>4. QED
      BY <3>1, <3>3 DEF InForce
  <2>6. ASSUME NEW q \in Procs, StorePriced(q) \/ \E l \in Lines : PriceLine(q, l)
        PROVE  binary' = binary /\ InForce(p)' = InForce(p)
    BY <2>6 DEF StorePriced, PriceLine, InForce
  <2>7. QED
    BY <1>2, <2>2, <2>3, <2>4, <2>5, <2>6 DEF ReconcileNext
<1>5. InForce(p) <= InForce(p)'
  BY <1>1, <1>2, <1>4
<1>6. QED
  BY <1>1, <1>3, <1>5

\* The batch writes of a pass keep every row and its response.
LEMMA BatchSameRows ==
    ASSUME ReconcileInv, NEW p \in Procs, RepriceBatch(p) \/ CorrectBatch(p)
    PROVE  \A l \in Lines :
              /\ events'[l] # NoRow <=> events[l] # NoRow
              /\ events[l] # NoRow => events'[l].resp = events[l].resp
<1>1. LedgerTypeOK /\ Costs \subseteq Nat /\ PriceableRows(p) \subseteq Lines
  BY BatchRows, LedgerSets DEF ReconcileInv, ReconcileTypeOK, Batches
<1>2. CASE RepriceBatch(p)
  <2> DEFINE S == PriceableRows(p)
             price == [l \in S |-> Price[proc[p].table][l]]
  <2>1. ApplyReprice(S, price)
    BY <1>2 DEF RepriceBatch
  <2>2. price \in [S -> Nat]
    BY <1>1, BatchRows
  <2>3. QED
    BY <1>1, <2>1, <2>2, PassRows
<1>3. CASE CorrectBatch(p)
  <2> DEFINE S == {l \in PriceableRows(p) : Price[proc[p].table][l] # pass[p].batch[l]}
             old == [l \in S |-> pass[p].batch[l]]
             new == [l \in S |-> Price[proc[p].table][l]]
  <2>1. ApplyCorrection(S, old, new)
    BY <1>3 DEF CorrectBatch
  <2>2. S \subseteq Lines /\ old \in [S -> Nat] /\ new \in [S -> Nat]
    BY <1>1, BatchRows
  <2>3. QED
    BY <1>1, <2>1, <2>2, PassRows
<1>4. QED
  BY <1>2, <1>3

LEMMA FitsInit ==
    ASSUME TablesKeepPrices, ReconcileInit, NEW p \in Procs
    PROVE  PricedFits(p)
<1>1. PICK S \in SUBSET Legacy : \E cost \in [S -> Costs] :
        events = [u \in Lines |-> IF u \in S THEN LegacyRow(cost[u]) ELSE NoRow]
  BY DEF ReconcileInit, LedgerInit
<1>2. \A l \in Stored : l \in Legacy /\ events[l].resp = NoResp
  BY <1>1 DEF Stored, StoredIn, LegacyRow
<1>3. InForce(p) = 1 /\ 1 \in Tables
  BY ReconcileSets DEF ReconcileInit, InForce, Off, Tables
<1>4. QED
  BY <1>2, <1>3 DEF PricedFits, PricedRows, TablesKeepPrices

LEMMA FitsStep ==
    ASSUME OneTableAtATime, TablesKeepPrices, ReconcileInv, SkipInv, SkipInv', ~online,
           NEW p \in Procs, PricedFits(p), [ReconcileNext]_reconcileVars
    PROVE  PricedFits(p)'
<1>1. /\ InForce(p) \in Tables /\ InForce(p)' \in Tables /\ InForce(p) <= InForce(p)'
      /\ \A q \in Procs : proc[q].cmd # "off" =>
           \A l \in Lines : Price[proc[q].table][l] # NoPrice => Price[InForce(p)][l] # NoPrice
  BY TablesGoOn DEF TablesKeepPrices
<1>2. SUFFICES ASSUME NEW l \in Lines, l \in PricedRows', events'[l].resp = RespOf[l]
               PROVE  Price[InForce(p)][l] # NoPrice
  <2>1. \A u \in Lines : Price[InForce(p)][u] # NoPrice => Price[InForce(p)'][u] # NoPrice
    BY <1>1 DEF TablesKeepPrices
  <2>2. \A u \in PricedRows' : u \in Lines
    BY DEF PricedRows, Stored, StoredIn
  <2>3. QED
    BY <1>2, <2>1, <2>2 DEF PricedFits
<1>3. CASE UNCHANGED ledgerVars
  BY <1>2, <1>3 DEF PricedFits, PricedRows, Stored, ledgerVars
<1>4. CASE Reset
  BY <1>2, <1>4 DEF Reset, PricedRows, Stored, StoredIn
<1>5. ASSUME NEW q \in Procs, proc[q].cmd # "off", RepriceBatch(q) \/ CorrectBatch(q)
      PROVE  Price[InForce(p)][l] # NoPrice
  <2>1. CASE l \in PricedRows
    BY <1>2, <1>5, <2>1, BatchSameRows DEF PricedFits, PricedRows, Stored, StoredIn
  <2>2. CASE l \notin PricedRows
    BY <1>1, <1>2, <1>5, <2>2, BatchRowsKeep
  <2>3. QED
    BY <2>1, <2>2
<1>6. ASSUME NEW u \in Lines, NEW cost, NEW priced, StoreLine(u, cost, priced),
             priced => Price[InForce(p)][u] # NoPrice
      PROVE  Price[InForce(p)][l] # NoPrice
  <2>1. CASE events' = events
    BY <1>2, <2>1 DEF PricedFits, PricedRows, Stored
  <2>2. CASE events' # events
    <3>1. /\ events'[u] = NewRow(u, cost, priced)
          /\ \A x \in Lines \ {u} : events'[x] = events[x] \/ events'[x] = NoRow
      BY <1>6, <2>2, StoreLineRows DEF ReconcileInv, ReconcileTypeOK
    <3>2. CASE l = u
      BY <1>2, <1>6, <3>1, <3>2 DEF PricedRows, NewRow
    <3>3. CASE l # u
      BY <1>2, <3>1, <3>3 DEF PricedFits, PricedRows, Stored, StoredIn
    <3>4. QED
      BY <3>2, <3>3
  <2>3. QED
    BY <2>1, <2>2
<1>7. QED
  BY <1>1, <1>3, <1>4, <1>5, <1>6, OfflineWrites DEF OfflineWrite, Insert, InsertUnpriced

\* The step that PricedStaysPriced speaks of.
PricedStep ==
    online \/ Stored' = {} \/ \A l \in PricedRows :
         \A u \in StoredIn(events') :
            u = l \/ (events'[u].resp = events[l].resp /\ events[l].resp # NoResp)
              => events'[u].priced

\* A line that cannot be priced takes no priced row's place.
LEMMA UnpricedTakesNone ==
    ASSUME TablesKeepPrices, ReconcileInv, RespKept, OneRowPerResponse, NEW p \in Procs,
           InForce(p) \in Tables, PricedFits(p), NEW u \in Lines, InsertUnpriced(u),
           Price[InForce(p)][u] = NoPrice, events' # events,
           NEW l \in PricedRows,
           u = l \/ (RespOf[u] = events[l].resp /\ events[l].resp # NoResp)
    PROVE  FALSE
<1>0. StoreLine(u, 0, FALSE) /\ l \in Lines /\ events[l] # NoRow
  BY DEF InsertUnpriced, PricedRows, Stored, StoredIn
<1>1. CASE u = l
  <2>1. Replace(u, 0, FALSE)
    BY <1>0, <1>1 DEF StoreLine, InsertFirst, InsertClash, InsertPartial, ledgerVars
  <2>2. u \in Existing(u)
    BY <1>0, <1>1, <2>1 DEF Replace
  <2>3. events[l].resp = RespOf[l]
    BY <1>0, <1>1, <2>2 DEF Existing, RespKept, Stored, StoredIn
  <2>4. QED
    BY <1>1, <2>3 DEF PricedFits
<1>2. CASE RespOf[u] = events[l].resp /\ events[l].resp # NoResp
  <2>1. l \in Existing(u)
    BY <1>0, <1>2 DEF Existing, Stored, StoredIn
  <2>2. Replace(u, 0, FALSE)
    BY <1>0, <2>1 DEF StoreLine, InsertFirst, InsertClash, InsertPartial, ledgerVars
  <2>3. PICK x \in Existing(u) : OutputOf[x] <= OutputOf[u]
    BY <2>2 DEF Replace
  <2>4. x = l
    BY <1>0, <1>2, <2>1, <2>3 DEF Existing, OneRowPerResponse
  <2>5. events[l].resp = RespOf[l]
    BY <1>0, <1>2 DEF RespKept, Stored, StoredIn
  <2>6. Price[InForce(p)][l] # NoPrice
    BY <2>5 DEF PricedFits
  <2>7. QED
    BY <1>0, <1>2, <2>3, <2>4, <2>5, <2>6 DEF TablesKeepPrices
<1>3. QED
  BY <1>1, <1>2

LEMMA PricedStepHolds ==
    ASSUME TablesKeepPrices, ReconcileInv, OneRowPerResponse, SkipInv, FitsInv,
           [ReconcileNext]_reconcileVars
    PROVE  PricedStep
<1> SUFFICES ASSUME ~online, NEW l \in PricedRows, NEW u \in StoredIn(events'),
                    u = l \/ (events'[u].resp = events[l].resp /\ events[l].resp # NoResp),
                    Stored' # {}
             PROVE  events'[u].priced
  BY DEF PricedStep
<1>0. /\ l \in Lines /\ l \in Stored /\ events[l].priced /\ u \in Lines /\ LedgerTypeOK
      /\ events'[u] # NoRow
  BY DEF PricedRows, Stored, StoredIn, ReconcileInv, ReconcileTypeOK
<1>1. CASE UNCHANGED ledgerVars
  BY <1>0, <1>1 DEF OneRowPerResponse, Stored, StoredIn, ledgerVars
<1>2. ASSUME NEW p \in Procs, OfflineWrite(p)
      PROVE  events'[u].priced
  <2>1. /\ PricedFits(p)
        /\ proc[p].cmd # "off" => InForce(p) = proc[p].table /\ InForce(p) \in Tables
    BY DEF FitsInv, InForce, ReconcileInv, ReconcileTypeOK, Process
  <2>3. CASE Reset
    BY <2>3 DEF Reset, Stored, StoredIn
  <2>4. CASE RepriceBatch(p) \/ CorrectBatch(p)
    <3>1. u = l
      BY <1>0, <2>4, BatchSameRows DEF OneRowPerResponse, Stored, StoredIn
    <3>2. QED
      BY <1>0, <2>4, <3>1, BatchRowsKeep DEF UnpricedRows, PricedRows, Stored, StoredIn
  <2>5. ASSUME NEW x \in Lines, NEW cost, NEW priced, StoreLine(x, cost, priced), u # x
        PROVE  events'[u].priced
    <3>1. events'[u] = events[u]
      BY <1>0, <2>5, StoreLineUnique
    <3>2. u = l
      BY <1>0, <3>1 DEF OneRowPerResponse, Stored, StoredIn
    <3>3. QED
      BY <1>0, <3>1, <3>2
  <2>5a. ASSUME NEW cost, NEW priced \in BOOLEAN, StoreLine(u, cost, priced), events' # events
         PROVE  (priced => events'[u].priced) /\ events'[u].resp = RespOf[u]
    <3>1. events'[u] = NewRow(u, cost, priced)
      BY <1>0, <2>5a, StoreLineRows
    <3>2. QED
      BY <3>1 DEF NewRow
  <2>6. ASSUME NEW cost, Insert(u, cost)
        PROVE  events'[u].priced
    <3>1. CASE events' = events
      BY <1>0, <3>1 DEF OneRowPerResponse, Stored, StoredIn
    <3>2. CASE events' # events
      BY <2>5a, <2>6, <3>2 DEF Insert
    <3>3. QED
      BY <3>1, <3>2
  <2>7. ASSUME proc[p].cmd # "off", InsertUnpriced(u), Price[proc[p].table][u] = NoPrice
        PROVE  events'[u].priced
    <3>1. CASE events' = events
      BY <1>0, <3>1 DEF OneRowPerResponse, Stored, StoredIn
    <3>2. CASE events' # events
      <4>1. events'[u].resp = RespOf[u]
        BY <2>5a, <2>7, <3>2 DEF InsertUnpriced
      <4>2. QED
        BY <1>0, <2>1, <2>7, <3>2, <4>1, UnpricedTakesNone DEF FitsInv
    <3>3. QED
      BY <3>1, <3>2
  <2>8. QED
    BY <1>2, <2>3, <2>4, <2>5, <2>6, <2>7 DEF OfflineWrite, Insert, InsertUnpriced
<1>3. QED
  BY <1>1, <1>2, OfflineWrites

\* With no fetched tables and one table at a time, where no later binary forgets
\* a price, a response that was counted in dollars stays counted until the
\* ledger is wiped, whatever programs run side by side.
THEOREM PricesAreKept ==
    ASSUME TablesKeepPrices
    PROVE  ReconcileSpec /\ []OneTableAtATime => PricedStaysPriced
<1>1. ReconcileInit => FitsInv
  BY RespInit, FitsInit DEF FitsInv
<1>2. OneTableAtATime /\ ReconcileInv /\ SkipInv /\ SkipInv' /\ FitsInv
        /\ [ReconcileNext]_reconcileVars => FitsInv'
  BY RespStep, FitsStep, OnlineStays DEF FitsInv
<1>3. OneTableAtATime /\ ReconcileInv /\ SkipInv /\ [ReconcileNext]_reconcileVars => SkipInv'
  BY SkipStep
<1>4. ReconcileInv /\ OneRowPerResponse /\ SkipInv /\ FitsInv
        /\ [ReconcileNext]_reconcileVars => [PricedStep]_reconcileVars
  BY PricedStepHolds
<1>5. ReconcileSpec => []OneRowPerResponse
  BY ReconcileImplementsLedger, ResponseHasOneRow, PTL
<1>6. ReconcileSpec /\ []OneTableAtATime => [][PricedStep]_reconcileVars
  BY <1>1, <1>2, <1>3, <1>4, <1>5, SkipInit, ReconcileInvariant, PTL DEF ReconcileSpec
<1>7. QED
  BY <1>6 DEF PricedStep, PricedStaysPriced
=============================================================================
