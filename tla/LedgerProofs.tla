---------------------------- MODULE LedgerProofs ----------------------------
(***************************************************************************)
(* Theorems about Ledger, for every finite set of lines and keys, every    *)
(* attribution of lines to responses and keys, and every batch size.       *)
(***************************************************************************)
EXTENDS Ledger, FiniteSetTheorems, TLAPS

(***************************************************************************)
(* The laws of Sum.                                                        *)
(***************************************************************************)

\* A finite set whose elements have natural weights has finitely many units.
LEMMA SumType ==
    ASSUME NEW S, IsFiniteSet(S), NEW w, \A x \in S : w[x] \in Nat
    PROVE  IsFiniteSet(UnitsOf(S, w)) /\ Sum(S, w) \in Nat
<1>1. IsFiniteSet(UnitsOf(S, w))
  <2> DEFINE Each == {{x} \X (1..w[x]) : x \in S}
  <2>1. IsFiniteSet(Each)
    <3> DEFINE f == [x \in S |-> {x} \X (1..w[x])]
    <3>1. f \in Surjection(S, Each)
      BY DEF Surjection
    <3>2. QED
      BY <3>1, FS_Surjection
  <2>2. ASSUME NEW T \in Each
        PROVE  IsFiniteSet(T)
    <3>1. PICK x \in S : T = {x} \X (1..w[x])
      OBVIOUS
    <3>2. IsFiniteSet({x})
      BY FS_Singleton
    <3>3. IsFiniteSet(1..w[x])
      BY FS_Interval
    <3>4. QED
      BY <3>1, <3>2, <3>3, FS_Product
  <2>3. QED
    BY <2>1, <2>2, FS_UNION DEF UnitsOf
<1>2. QED
  BY <1>1, FS_CardinalityType DEF Sum

\* Nothing adds up to zero.
LEMMA SumEmpty == ASSUME NEW w PROVE Sum({}, w) = 0
BY FS_EmptySet DEF Sum, UnitsOf

\* The sum over one element is its weight.
LEMMA SumSingleton ==
    ASSUME NEW x, NEW w, w[x] \in Nat
    PROVE  Sum({x}, w) = w[x]
<1>1. UnitsOf({x}, w) = {x} \X (1..w[x])
  BY DEF UnitsOf
<1>2. IsFiniteSet({x}) /\ Cardinality({x}) = 1
  BY FS_Singleton
<1>3. IsFiniteSet(1..w[x]) /\ Cardinality(1..w[x]) = w[x]
  BY FS_Interval
<1>4. Cardinality({x} \X (1..w[x])) = Cardinality({x}) * Cardinality(1..w[x])
  BY <1>2, <1>3, FS_Product
<1>5. Cardinality({x} \X (1..w[x])) = w[x]
  BY <1>2, <1>3, <1>4
<1>6. QED
  BY <1>1, <1>5 DEF Sum

\* The sum depends on the weights of the elements only.
LEMMA SumSame ==
    ASSUME NEW S, NEW v, NEW w, \A x \in S : v[x] = w[x]
    PROVE  Sum(S, v) = Sum(S, w)
<1>1. UnitsOf(S, v) = UnitsOf(S, w)
  BY DEF UnitsOf
<1>2. QED
  BY <1>1 DEF Sum

\* Weightless elements add up to nothing.
LEMMA SumZero ==
    ASSUME NEW S, NEW w, \A x \in S : w[x] = 0
    PROVE  Sum(S, w) = 0
<1>1. UnitsOf(S, w) = {}
  BY DEF UnitsOf
<1>2. QED
  BY <1>1, FS_EmptySet DEF Sum

\* Disjoint sets add up.
LEMMA SumDisjoint ==
    ASSUME NEW S, IsFiniteSet(S), NEW T, IsFiniteSet(T), S \cap T = {},
           NEW w, \A x \in S \cup T : w[x] \in Nat
    PROVE  Sum(S \cup T, w) = Sum(S, w) + Sum(T, w)
<1>1. UnitsOf(S \cup T, w) = UnitsOf(S, w) \cup UnitsOf(T, w)
  BY DEF UnitsOf
<1>2. UnitsOf(S, w) \cap UnitsOf(T, w) = {}
  BY DEF UnitsOf
<1>3. IsFiniteSet(UnitsOf(S, w)) /\ IsFiniteSet(UnitsOf(T, w))
  BY SumType
<1>4. Sum(S, w) \in Nat /\ Sum(T, w) \in Nat
  BY SumType
<1>5. Cardinality(UnitsOf(S, w) \cap UnitsOf(T, w)) = 0
  BY <1>2, FS_EmptySet
<1>6. Cardinality(UnitsOf(S, w) \cup UnitsOf(T, w)) = Sum(S, w) + Sum(T, w) - 0
  BY <1>3, <1>5, FS_Union DEF Sum
<1>7. Sum(S \cup T, w) = Cardinality(UnitsOf(S, w) \cup UnitsOf(T, w))
  BY <1>1 DEF Sum
<1>8. QED
  BY <1>4, <1>6, <1>7

\* Adding one new element adds its weight.
LEMMA SumAdd ==
    ASSUME NEW S, IsFiniteSet(S), NEW x, x \notin S,
           NEW w, \A y \in S \cup {x} : w[y] \in Nat
    PROVE  Sum(S \cup {x}, w) = Sum(S, w) + w[x]
<1>1. IsFiniteSet({x}) /\ S \cap {x} = {}
  BY FS_Singleton
<1>2. Sum(S \cup {x}, w) = Sum(S, w) + Sum({x}, w)
  BY <1>1, SumDisjoint
<1>3. Sum({x}, w) = w[x]
  BY SumSingleton
<1>4. QED
  BY <1>2, <1>3

\* Removing one element removes its weight.
LEMMA SumRemove ==
    ASSUME NEW S, IsFiniteSet(S), NEW x \in S,
           NEW w, \A y \in S : w[y] \in Nat
    PROVE  Sum(S \ {x}, w) = Sum(S, w) - w[x]
<1>1. IsFiniteSet(S \ {x}) /\ S = (S \ {x}) \cup {x}
  BY FS_RemoveElement
<1>2. Sum(S \ {x}, w) \in Nat
  BY <1>1, SumType
<1>3. Sum(S, w) = Sum(S \ {x}, w) + w[x]
  BY <1>1, SumAdd
<1>4. QED
  BY <1>2, <1>3

\* A part and the rest of a set add up to the whole.
LEMMA SumSplit ==
    ASSUME NEW S, IsFiniteSet(S), NEW T \in SUBSET S,
           NEW w, \A x \in S : w[x] \in Nat
    PROVE  /\ Sum(S, w) = Sum(S \ T, w) + Sum(T, w)
           /\ Sum(S \ T, w) \in Nat /\ Sum(T, w) \in Nat
<1>1. IsFiniteSet(S \ T) /\ IsFiniteSet(T)
  BY FS_Subset
<1>2. S = (S \ T) \cup T /\ (S \ T) \cap T = {}
  OBVIOUS
<1>3. Sum((S \ T) \cup T, w) = Sum(S \ T, w) + Sum(T, w)
  BY <1>1, <1>2, SumDisjoint
<1>4. Sum(S \ T, w) \in Nat /\ Sum(T, w) \in Nat
  BY <1>1, SumType
<1>5. QED
  BY <1>2, <1>3, <1>4

\* Moving the weight of one element moves the sum by as much.
LEMMA SumChange ==
    ASSUME NEW S, IsFiniteSet(S), NEW x \in S, NEW v, NEW w,
           \A y \in S : v[y] \in Nat /\ w[y] \in Nat,
           \A y \in S : y # x => v[y] = w[y]
    PROVE  Sum(S, v) = Sum(S, w) - w[x] + v[x]
<1>1. /\ Sum(S, v) = Sum(S \ {x}, v) + Sum({x}, v)
      /\ Sum(S, w) = Sum(S \ {x}, w) + Sum({x}, w)
      /\ Sum(S \ {x}, w) \in Nat
  BY SumSplit
<1>2. Sum(S \ {x}, v) = Sum(S \ {x}, w)
  BY SumSame
<1>3. Sum({x}, v) = v[x] /\ Sum({x}, w) = w[x]
  BY SumSingleton
<1>4. QED
  BY <1>1, <1>2, <1>3

\* The parts of a finite set add up to the whole: the units of the parts'
\* sizes are numbered elements of it.
LEMMA SumParts ==
    ASSUME NEW K, IsFiniteSet(K), NEW S, IsFiniteSet(S), NEW key \in [S -> K],
           NEW w, \A k \in K : w[k] = Cardinality({x \in S : key[x] = k})
    PROVE  Sum(K, w) = Cardinality(S)
<1> DEFINE part(k) == {x \in S : key[x] = k}
           f == [k \in K |-> CHOOSE g : g \in Bijection(1..w[k], part(k))]
           U == UnitsOf(K, w)
           F == [u \in U |-> f[u[1]][u[2]]]
<1>1. ASSUME NEW k \in K
      PROVE  w[k] \in Nat /\ f[k] \in Bijection(1..w[k], part(k))
  <2>1. IsFiniteSet(part(k))
    BY FS_Subset
  <2>2. w[k] \in Nat /\ ExistsBijection(1..w[k], part(k))
    BY <2>1, FS_CardinalityType
  <2>3. QED
    BY <2>2 DEF ExistsBijection
<1>2. IsFiniteSet(U)
  BY <1>1, SumType
<1>3. ASSUME NEW k \in K
      PROVE  /\ \A i \in 1..w[k] : f[k][i] \in part(k)
             /\ \A i, j \in 1..w[k] : f[k][i] = f[k][j] => i = j
             /\ \A x \in part(k) : \E i \in 1..w[k] : f[k][i] = x
  <2> HIDE DEF f, part
  <2>1. f[k] \in Bijection(1..w[k], part(k))
    BY <1>1
  <2>2. QED
    BY <2>1 DEF Bijection, Injection, Surjection, IsInjective
<1>4. \A u \in U : u[1] \in K /\ u[2] \in 1..w[u[1]] /\ u = <<u[1], u[2]>>
  BY DEF UnitsOf
<1>5. \A k \in K : \A i \in 1..w[k] : <<k, i>> \in U
  BY DEF UnitsOf
<1> HIDE DEF f, U
<1>6. F \in Bijection(U, S)
  <2>1. \A u \in U : F[u] \in S /\ key[F[u]] = u[1]
    BY <1>3, <1>4
  <2>2. \A u, v \in U : F[u] = F[v] => u = v
    <3> SUFFICES ASSUME NEW u \in U, NEW v \in U, F[u] = F[v] PROVE u = v
      OBVIOUS
    <3>1. u[1] = v[1]
      BY <2>1
    <3>2. u[2] = v[2]
      BY <3>1, <1>3, <1>4
    <3>3. QED
      BY <3>1, <3>2, <1>4
  <2>3. \A x \in S : \E u \in U : F[u] = x
    <3> SUFFICES ASSUME NEW x \in S PROVE \E u \in U : F[u] = x
      OBVIOUS
    <3>1. key[x] \in K /\ x \in part(key[x])
      OBVIOUS
    <3>2. PICK i \in 1..w[key[x]] : f[key[x]][i] = x
      BY <3>1, <1>3
    <3>3. <<key[x], i>> \in U
      BY <3>1, <1>5
    <3>4. F[<<key[x], i>>] = x
      BY <3>2, <3>3
    <3>5. QED
      BY <3>3, <3>4
  <2>4. F \in [U -> S]
    BY <2>1
  <2>5. QED
    BY <2>2, <2>3, <2>4 DEF Bijection, Injection, Surjection, IsInjective
<1>7. Cardinality(S) = Cardinality(U)
  <2> HIDE DEF F
  <2>1. ExistsBijection(U, S)
    BY <1>6 DEF ExistsBijection
  <2>2. QED
    BY <2>1, <1>2, FS_Bijection
<1>8. QED
  BY <1>7 DEF U, Sum

(***************************************************************************)
(* Lines.                                                                  *)
(***************************************************************************)

LEMMA FiniteParts ==
    ASSUME NEW S \in SUBSET Lines
    PROVE  IsFiniteSet(S)
BY LedgerSets, FS_Subset

(***************************************************************************)
(* Type correctness.                                                       *)
(***************************************************************************)

LEMMA DeltaType ==
    ASSUME NEW r \in [Keys -> Rollup], NEW k \in Keys, NEW count \in Int,
           NEW tokens \in Int, NEW cost \in Int, NEW unpriced \in Int
    PROVE  ApplyRollupDelta(r, k, count, tokens, cost, unpriced) \in [Keys -> Rollup]
BY DEF ApplyRollupDelta, Rollup

LEMMA RowFields ==
    ASSUME NEW table \in [Lines -> Row \cup {NoRow}]
    PROVE  /\ StoredIn(table) \in SUBSET Lines
           /\ \A l \in StoredIn(table) :
                /\ table[l] \in Row
                /\ table[l].cost \in Nat
                /\ table[l].priced \in BOOLEAN
           /\ \A l \in Lines : CostColumn(table)[l] \in Nat
BY DEF StoredIn, CostColumn, Row

LEMMA NewRowType ==
    ASSUME NEW l \in Lines, NEW cost \in Nat, NEW priced \in BOOLEAN
    PROVE  /\ NewRow(l, cost, priced) \in Row
           /\ NewRow(l, cost, priced) # NoRow
BY LedgerLines, NoRowIsNoRow DEF NewRow, Row

LEMMA StoreLineType ==
    ASSUME LedgerTypeOK, NEW l \in Lines, NEW cost \in Nat, NEW priced \in BOOLEAN,
           StoreLine(l, cost, priced)
    PROVE  LedgerTypeOK'
<1> USE DEF LedgerTypeOK
<1>0. /\ UnpricedDelta(priced) \in Int /\ OutputOf[l] \in Int /\ cost \in Int
      /\ 0 \in Int /\ KeyOf[l] \in Keys
  BY LedgerLines DEF UnpricedDelta
<1>1. CASE InsertFirst(l, cost, priced)
  BY <1>0, <1>1, NewRowType, DeltaType DEF InsertFirst
<1>2. CASE InsertClash(l)
  BY <1>2 DEF InsertClash, ledgerVars
<1>3. CASE InsertPartial(l)
  BY <1>3 DEF InsertPartial, ledgerVars
<1>4. CASE Replace(l, cost, priced)
  <2>1. PICK u \in Existing(l) :
            /\ events' = [events EXCEPT ![u] = NoRow, ![l] = NewRow(l, cost, priced)]
            /\ LET old == ApplyRollupDelta(rollups, KeyOf[u], 0, -OutputOf[u],
                                           -events[u].cost,
                                           -UnpricedDelta(events[u].priced))
               IN  rollups' = ApplyRollupDelta(old, KeyOf[l], 0, OutputOf[l], cost,
                                               UnpricedDelta(priced))
    BY <1>4 DEF Replace
  <2>2. u \in StoredIn(events)
    BY DEF Existing, Stored, StoredIn
  <2>3. /\ u \in Lines /\ KeyOf[u] \in Keys /\ -OutputOf[u] \in Int
        /\ -events[u].cost \in Int /\ -UnpricedDelta(events[u].priced) \in Int
    BY <2>2, RowFields, LedgerLines DEF UnpricedDelta
  <2> DEFINE old == ApplyRollupDelta(rollups, KeyOf[u], 0, -OutputOf[u],
                                     -events[u].cost, -UnpricedDelta(events[u].priced))
  <2>4. old \in [Keys -> Rollup]
    BY <2>3, DeltaType
  <2>5. rollups' \in [Keys -> Rollup]
    <3> HIDE DEF old
    <3>1. rollups' = ApplyRollupDelta(old, KeyOf[l], 0, OutputOf[l], cost,
                                      UnpricedDelta(priced))
      BY <2>1 DEF old
    <3>2. QED
      BY <3>1, <2>4, <1>0, DeltaType
  <2>6. events' \in [Lines -> Row \cup {NoRow}]
    <3>1. events' = [events EXCEPT ![u] = NoRow, ![l] = NewRow(l, cost, priced)]
      BY <2>1
    <3>2. NewRow(l, cost, priced) \in Row
      BY NewRowType
    <3> HIDE DEF old
    <3>3. QED
      BY <3>1, <3>2
  <2>7. QED
    BY <2>5, <2>6
<1>5. QED
  BY <1>1, <1>2, <1>3, <1>4 DEF StoreLine

LEMMA RollupMove ==
    ASSUME NEW r \in Rollup, NEW c \in Int, NEW n \in Int
    PROVE  [r EXCEPT !.cost = @ + c, !.unpriced = @ - n] \in Rollup
<1>1. r.cost + c \in Int /\ r.unpriced - n \in Int
  BY DEF Rollup
<1>2. QED
  BY <1>1 DEF Rollup

LEMMA RepriceType ==
    ASSUME LedgerTypeOK, NEW S \in SUBSET Lines, NEW price \in [S -> Nat],
           ApplyReprice(S, price)
    PROVE  LedgerTypeOK'
<1> DEFINE hit == S \cap UnpricedRows
<1>1. hit \in SUBSET StoredIn(events) /\ hit \in SUBSET Lines
  BY DEF UnpricedRows, Stored, StoredIn
<1>2. events' \in [Lines -> Row \cup {NoRow}]
  <2>1. events' = [l \in Lines |->
                     IF l \in hit
                     THEN [events[l] EXCEPT !.cost = price[l], !.priced = TRUE]
                     ELSE events[l]]
    BY DEF ApplyReprice
  <2>2. ASSUME NEW l \in hit
        PROVE  [events[l] EXCEPT !.cost = price[l], !.priced = TRUE] \in Row
    BY <1>1, RowFields DEF LedgerTypeOK, Row
  <2> HIDE DEF hit
  <2>3. QED
    BY <2>1, <2>2 DEF LedgerTypeOK
<1>3. ASSUME NEW k \in Keys
      PROVE  /\ Sum(hit \cap LinesOf(k), price) \in Int
             /\ Cardinality(hit \cap LinesOf(k)) \in Int
  <2>1. IsFiniteSet(hit \cap LinesOf(k))
    BY <1>1, FiniteParts
  <2>2. \A l \in hit \cap LinesOf(k) : price[l] \in Nat
    OBVIOUS
  <2> HIDE DEF hit
  <2>3. Sum(hit \cap LinesOf(k), price) \in Nat
    BY <2>1, <2>2, SumType
  <2>4. Cardinality(hit \cap LinesOf(k)) \in Nat
    BY <2>1, FS_CardinalityType
  <2>5. QED
    BY <2>3, <2>4
<1>4. rollups' \in [Keys -> Rollup]
  <2>1. rollups' = [k \in Keys |->
                      [rollups[k] EXCEPT
                         !.cost = @ + Sum(hit \cap LinesOf(k), price),
                         !.unpriced = @ - Cardinality(hit \cap LinesOf(k))]]
    BY DEF ApplyReprice
  <2> HIDE DEF hit
  <2>2. ASSUME NEW k \in Keys
        PROVE  [rollups[k] EXCEPT
                  !.cost = @ + Sum(hit \cap LinesOf(k), price),
                  !.unpriced = @ - Cardinality(hit \cap LinesOf(k))] \in Rollup
    BY <1>3, RollupMove DEF LedgerTypeOK
  <2>3. QED
    BY <2>1, <2>2
<1>5. QED
  BY <1>2, <1>4 DEF LedgerTypeOK

LEMMA CorrectionType ==
    ASSUME LedgerTypeOK, NEW S \in SUBSET Lines, NEW old \in [S -> Nat],
           NEW new \in [S -> Nat], ApplyCorrection(S, old, new)
    PROVE  LedgerTypeOK'
<1> DEFINE hit == {l \in S \cap PricedRows : events[l].cost = old[l]}
<1>1. hit \in SUBSET StoredIn(events) /\ hit \in SUBSET Lines /\ hit \in SUBSET S
  BY DEF PricedRows, Stored, StoredIn
<1>2. events' \in [Lines -> Row \cup {NoRow}]
  <2>1. events' = [l \in Lines |->
                     IF l \in hit THEN [events[l] EXCEPT !.cost = new[l]]
                     ELSE events[l]]
    BY DEF ApplyCorrection
  <2>2. ASSUME NEW l \in hit
        PROVE  [events[l] EXCEPT !.cost = new[l]] \in Row
    BY <1>1, RowFields DEF LedgerTypeOK, Row
  <2> HIDE DEF hit
  <2>3. QED
    BY <2>1, <2>2 DEF LedgerTypeOK
<1>3. ASSUME NEW k \in Keys
      PROVE  /\ Sum(hit \cap LinesOf(k), new) \in Int
             /\ Sum(hit \cap LinesOf(k), old) \in Int
  <2>1. IsFiniteSet(hit \cap LinesOf(k))
    BY <1>1, FiniteParts
  <2>2. \A l \in hit \cap LinesOf(k) : new[l] \in Nat /\ old[l] \in Nat
    BY <1>1
  <2> HIDE DEF hit
  <2>3. QED
    BY <2>1, <2>2, SumType
<1>4. rollups' \in [Keys -> Rollup]
  <2>1. rollups' = [k \in Keys |->
                      [rollups[k] EXCEPT
                         !.cost = @ + Sum(hit \cap LinesOf(k), new)
                                    - Sum(hit \cap LinesOf(k), old)]]
    BY DEF ApplyCorrection
  <2> HIDE DEF hit
  <2>2. ASSUME NEW k \in Keys
        PROVE  [rollups[k] EXCEPT
                  !.cost = @ + Sum(hit \cap LinesOf(k), new)
                             - Sum(hit \cap LinesOf(k), old)] \in Rollup
    BY <1>3 DEF LedgerTypeOK, Rollup
  <2>3. QED
    BY <2>1, <2>2
<1>5. QED
  BY <1>2, <1>4 DEF LedgerTypeOK

LEMMA InitType == LedgerInit => LedgerTypeOK
<1> SUFFICES ASSUME LedgerInit PROVE LedgerTypeOK
  OBVIOUS
<1>1. PICK S \in SUBSET Legacy : \E cost \in [S -> Costs] :
        events = [l \in Lines |-> IF l \in S THEN LegacyRow(cost[l]) ELSE NoRow]
  BY DEF LedgerInit
<1>1a. PICK cost \in [S -> Costs] :
        events = [l \in Lines |-> IF l \in S THEN LegacyRow(cost[l]) ELSE NoRow]
  BY <1>1
<1>2. \A l \in S : LegacyRow(cost[l]) \in Row
  BY LedgerSets DEF LegacyRow, Row
<1>3. events \in [Lines -> Row \cup {NoRow}]
  BY <1>1a, <1>2
<1>4. ASSUME NEW k \in Keys
      PROVE  MigratedRollup(events, k) \in Rollup
  <2> DEFINE T == StoredIn(events) \cap LinesOf(k)
  <2>1. IsFiniteSet(T)
    BY FiniteParts DEF LinesOf
  <2>2. \A l \in T : OutputOf[l] \in Nat /\ CostColumn(events)[l] \in Nat
    BY <1>3, RowFields, LedgerLines DEF LinesOf
  <2>3. MigratedRollup(events, k) =
          [count |-> Cardinality(T), tokens |-> Sum(T, OutputOf),
           cost |-> Sum(T, CostColumn(events)), unpriced |-> 0]
    BY DEF MigratedRollup
  <2> HIDE DEF T
  <2>4. Cardinality(T) \in Int
    BY <2>1, FS_CardinalityType
  <2>5. Sum(T, OutputOf) \in Int /\ Sum(T, CostColumn(events)) \in Int
    BY <2>1, <2>2, SumType
  <2>6. QED
    BY <2>3, <2>4, <2>5 DEF Rollup
<1>5. rollups = [k \in Keys |-> MigratedRollup(events, k)]
  BY DEF LedgerInit
<1>6. QED
  BY <1>3, <1>4, <1>5 DEF LedgerTypeOK

LEMMA ResetType == Reset => LedgerTypeOK'
BY DEF Reset, LedgerTypeOK, ZeroRollup, Rollup

\* What a step of the ledger is, with the bounds of the inputs that the proofs
\* do not need taken away.
LEMMA StepCases ==
    ASSUME LedgerNext
    PROVE  \/ \E l \in Lines, cost \in Nat, priced \in BOOLEAN :
                  StoreLine(l, cost, priced) /\ (priced \/ cost = 0)
           \/ \E S \in SUBSET Lines : \E price \in [S -> Nat] : ApplyReprice(S, price)
           \/ \E S \in SUBSET Lines : \E old, new \in [S -> Nat] :
                  ApplyCorrection(S, old, new)
           \/ Reset
<1>1. Costs \subseteq Nat
  BY LedgerSets
<1>2. CASE \E l \in Lines : \E cost \in Costs : Insert(l, cost)
  BY <1>1, <1>2 DEF Insert
<1>3. CASE \E l \in Lines : InsertUnpriced(l)
  BY <1>3 DEF InsertUnpriced
<1>4. CASE \E S \in Batches : \E price \in [S -> Costs] : ApplyReprice(S, price)
  <2>1. PICK S \in SUBSET Lines : \E price \in [S -> Costs] : ApplyReprice(S, price)
    BY <1>4 DEF Batches
  <2>2. PICK price \in [S -> Costs] : ApplyReprice(S, price)
    BY <2>1
  <2>3. price \in [S -> Nat]
    BY <1>1
  <2>4. QED
    BY <2>2, <2>3
<1>5. CASE \E S \in Batches : \E old, new \in [S -> Costs] : ApplyCorrection(S, old, new)
  <2>1. PICK S \in SUBSET Lines : \E old, new \in [S -> Costs] :
               ApplyCorrection(S, old, new)
    BY <1>5 DEF Batches
  <2>2. PICK old \in [S -> Costs], new \in [S -> Costs] : ApplyCorrection(S, old, new)
    BY <2>1
  <2>3. old \in [S -> Nat] /\ new \in [S -> Nat]
    BY <1>1
  <2>4. QED
    BY <2>2, <2>3
<1>6. QED
  BY <1>2, <1>3, <1>4, <1>5 DEF LedgerNext

LEMMA TypeStep == LedgerTypeOK /\ [LedgerNext]_ledgerVars => LedgerTypeOK'
<1> SUFFICES ASSUME LedgerTypeOK, [LedgerNext]_ledgerVars
             PROVE  LedgerTypeOK'
  OBVIOUS
<1>1. CASE LedgerNext
  BY <1>1, StepCases, StoreLineType, RepriceType, CorrectionType, ResetType
<1>2. CASE UNCHANGED ledgerVars
  BY <1>2 DEF ledgerVars, LedgerTypeOK
<1>3. QED
  BY <1>1, <1>2

\* The tables keep their types through every operation.
THEOREM LedgerTypeCorrect == LedgerSpec => []LedgerTypeOK
BY TypeStep, InitType, PTL DEF LedgerSpec

(***************************************************************************)
(* The rollups agree with the events.  Agrees says it of any pair of       *)
(* tables, so that a replacement can be proved as a row taken out and a    *)
(* row put in.                                                             *)
(***************************************************************************)

UnpricedIn(table) == {l \in StoredIn(table) : ~table[l].priced}

AgreesOn(table, r, k) ==
    /\ r[k].tokens = Sum(StoredIn(table) \cap LinesOf(k), OutputOf)
    /\ r[k].cost = Sum(StoredIn(table) \cap LinesOf(k), CostColumn(table))
    /\ r[k].unpriced = Cardinality(UnpricedIn(table) \cap LinesOf(k))

Agrees(table, r) == \A k \in Keys : AgreesOn(table, r, k)

LEMMA AgreesIsRollupMatchesEvents ==
    Agrees(events, rollups) <=> RollupMatchesEvents
<1>1. \A k \in Keys : Stored \cap LinesOf(k) \cap UnpricedRows = UnpricedIn(events) \cap LinesOf(k)
  BY DEF Stored, UnpricedRows, UnpricedIn
<1>2. QED
  BY <1>1 DEF Agrees, AgreesOn, RollupMatchesEvents, Stored

\* The sets and sums that Agrees reads are finite and natural.
LEMMA ColumnsFinite ==
    ASSUME NEW table \in [Lines -> Row \cup {NoRow}], NEW k
    PROVE  /\ IsFiniteSet(StoredIn(table) \cap LinesOf(k))
           /\ IsFiniteSet(UnpricedIn(table) \cap LinesOf(k))
           /\ \A l \in StoredIn(table) \cap LinesOf(k) :
                OutputOf[l] \in Nat /\ CostColumn(table)[l] \in Nat
           /\ Sum(StoredIn(table) \cap LinesOf(k), OutputOf) \in Nat
           /\ Sum(StoredIn(table) \cap LinesOf(k), CostColumn(table)) \in Nat
           /\ Cardinality(UnpricedIn(table) \cap LinesOf(k)) \in Nat
<1> DEFINE S == StoredIn(table) \cap LinesOf(k)
           U == UnpricedIn(table) \cap LinesOf(k)
<1>1. S \in SUBSET Lines /\ U \in SUBSET Lines
  BY DEF StoredIn, UnpricedIn
<1>2. \A l \in S : OutputOf[l] \in Nat /\ CostColumn(table)[l] \in Nat
  BY <1>1, RowFields, LedgerLines
<1> HIDE DEF S, U
<1>3. IsFiniteSet(S) /\ IsFiniteSet(U)
  BY <1>1, FiniteParts
<1>4. Sum(S, OutputOf) \in Nat /\ Sum(S, CostColumn(table)) \in Nat
  BY <1>2, <1>3, SumType
<1>5. Cardinality(U) \in Nat
  BY <1>3, FS_CardinalityType
<1>6. QED
  BY <1>2, <1>3, <1>4, <1>5 DEF S, U

\* A row put into the events table, with its contribution added to its key.
LEMMA RowIn ==
    ASSUME NEW table \in [Lines -> Row \cup {NoRow}], NEW r \in [Keys -> Rollup],
           Agrees(table, r),
           NEW l \in Lines, table[l] = NoRow,
           NEW row \in Row, NEW count \in Int
    PROVE  Agrees([table EXCEPT ![l] = row],
                  ApplyRollupDelta(r, KeyOf[l], count, OutputOf[l], row.cost,
                                   UnpricedDelta(row.priced)))
<1> DEFINE table2 == [table EXCEPT ![l] = row]
           r2 == ApplyRollupDelta(r, KeyOf[l], count, OutputOf[l], row.cost,
                                  UnpricedDelta(row.priced))
<1>1. /\ StoredIn(table2) = StoredIn(table) \cup {l}
      /\ l \notin StoredIn(table)
      /\ UnpricedIn(table2) = UnpricedIn(table) \cup (IF row.priced THEN {} ELSE {l})
      /\ l \notin UnpricedIn(table)
  BY NoRowIsNoRow DEF StoredIn, UnpricedIn
<1>2. /\ \A x \in StoredIn(table) : CostColumn(table2)[x] = CostColumn(table)[x]
      /\ CostColumn(table2)[l] = row.cost
  BY NoRowIsNoRow DEF StoredIn, CostColumn
<1>3. KeyOf[l] \in Keys /\ OutputOf[l] \in Nat /\ row.cost \in Nat /\ row.priced \in BOOLEAN
  BY LedgerLines DEF Row
<1>4. table2 \in [Lines -> Row \cup {NoRow}]
  OBVIOUS
<1> SUFFICES ASSUME NEW k \in Keys PROVE AgreesOn(table2, r2, k)
  BY DEF Agrees
<1> DEFINE S == StoredIn(table) \cap LinesOf(k)
           U == UnpricedIn(table) \cap LinesOf(k)
<1>5. /\ r[k].tokens = Sum(S, OutputOf)
      /\ r[k].cost = Sum(S, CostColumn(table))
      /\ r[k].unpriced = Cardinality(U)
  BY DEF Agrees, AgreesOn
<1>6. Sum(S, CostColumn(table2)) = Sum(S, CostColumn(table))
  BY <1>2, SumSame
<1>7. CASE KeyOf[l] # k
  <2>1. r2[k] = r[k]
    BY <1>7 DEF ApplyRollupDelta
  <2>2. /\ StoredIn(table2) \cap LinesOf(k) = S
        /\ UnpricedIn(table2) \cap LinesOf(k) = U
    BY <1>1, <1>7 DEF LinesOf
  <2>3. QED
    BY <2>1, <2>2, <1>5, <1>6 DEF AgreesOn
<1>8. CASE KeyOf[l] = k
  <2>1. r2[k] = [count    |-> r[k].count + count,
                 tokens   |-> r[k].tokens + OutputOf[l],
                 cost     |-> r[k].cost + row.cost,
                 unpriced |-> r[k].unpriced + UnpricedDelta(row.priced)]
    BY <1>8, <1>3 DEF ApplyRollupDelta
  <2>2. /\ StoredIn(table2) \cap LinesOf(k) = S \cup {l}
        /\ UnpricedIn(table2) \cap LinesOf(k) = U \cup (IF row.priced THEN {} ELSE {l})
        /\ l \notin S /\ l \notin U
    BY <1>1, <1>8 DEF LinesOf
  <2>3. /\ IsFiniteSet(S) /\ IsFiniteSet(U)
        /\ \A x \in S : OutputOf[x] \in Nat /\ CostColumn(table)[x] \in Nat
        /\ Cardinality(U) \in Nat
    BY ColumnsFinite
  <2>4. \A x \in S \cup {l} : OutputOf[x] \in Nat /\ CostColumn(table2)[x] \in Nat
    BY <2>3, <1>2, <1>3
  <2> HIDE DEF S, U, table2, r2
  <2>5. Sum(S \cup {l}, OutputOf) = Sum(S, OutputOf) + OutputOf[l]
    BY <2>2, <2>3, <2>4, SumAdd
  <2>6. Sum(S \cup {l}, CostColumn(table2)) = Sum(S, CostColumn(table2)) + CostColumn(table2)[l]
    BY <2>2, <2>3, <2>4, SumAdd
  <2>7. Sum(S \cup {l}, CostColumn(table2)) = Sum(S, CostColumn(table)) + row.cost
    BY <2>6, <1>2, <1>6
  <2>8. Cardinality(U \cup (IF row.priced THEN {} ELSE {l}))
          = Cardinality(U) + UnpricedDelta(row.priced)
    <3>1. CASE row.priced
      BY <3>1, <2>3 DEF UnpricedDelta
    <3>2. CASE ~row.priced
      <4>1. Cardinality(U \cup {l}) = Cardinality(U) + 1
        BY <2>2, <2>3, FS_AddElement
      <4>2. QED
        BY <4>1, <3>2 DEF UnpricedDelta
    <3>3. QED
      BY <3>1, <3>2, <1>3
  <2>9. /\ r2[k].tokens = r[k].tokens + OutputOf[l]
        /\ r2[k].cost = r[k].cost + row.cost
        /\ r2[k].unpriced = r[k].unpriced + UnpricedDelta(row.priced)
    BY <2>1
  <2>10. /\ r2[k].tokens = Sum(S \cup {l}, OutputOf)
         /\ r2[k].cost = Sum(S \cup {l}, CostColumn(table2))
         /\ r2[k].unpriced = Cardinality(U \cup (IF row.priced THEN {} ELSE {l}))
    BY <2>5, <2>7, <2>8, <2>9, <1>5
  <2>11. QED
    BY <2>2, <2>10 DEF AgreesOn
<1>9. QED
  BY <1>7, <1>8

\* A row taken out of the events table, with its contribution subtracted from
\* its own key.
LEMMA RowOut ==
    ASSUME NEW table \in [Lines -> Row \cup {NoRow}], NEW r \in [Keys -> Rollup],
           Agrees(table, r),
           NEW u \in Lines, table[u] # NoRow, NEW count \in Int
    PROVE  Agrees([table EXCEPT ![u] = NoRow],
                  ApplyRollupDelta(r, KeyOf[u], count, -OutputOf[u], -table[u].cost,
                                   -UnpricedDelta(table[u].priced)))
<1> DEFINE table2 == [table EXCEPT ![u] = NoRow]
           r2 == ApplyRollupDelta(r, KeyOf[u], count, -OutputOf[u], -table[u].cost,
                                  -UnpricedDelta(table[u].priced))
<1>1. /\ StoredIn(table2) = StoredIn(table) \ {u}
      /\ u \in StoredIn(table)
      /\ UnpricedIn(table2) = UnpricedIn(table) \ {u}
      /\ u \in UnpricedIn(table) <=> ~table[u].priced
  BY DEF StoredIn, UnpricedIn
<1>2. /\ \A x \in StoredIn(table) \ {u} : CostColumn(table2)[x] = CostColumn(table)[x]
      /\ CostColumn(table)[u] = table[u].cost
  BY DEF StoredIn, CostColumn
<1>3. KeyOf[u] \in Keys /\ OutputOf[u] \in Nat /\ table[u].cost \in Nat /\ table[u].priced \in BOOLEAN
  BY LedgerLines, <1>1, RowFields
<1> SUFFICES ASSUME NEW k \in Keys PROVE AgreesOn(table2, r2, k)
  BY DEF Agrees
<1> DEFINE S == StoredIn(table) \cap LinesOf(k)
           U == UnpricedIn(table) \cap LinesOf(k)
<1>5. /\ r[k].tokens = Sum(S, OutputOf)
      /\ r[k].cost = Sum(S, CostColumn(table))
      /\ r[k].unpriced = Cardinality(U)
  BY DEF Agrees, AgreesOn
<1>6. Sum(S \ {u}, CostColumn(table2)) = Sum(S \ {u}, CostColumn(table))
  BY <1>2, SumSame
<1>7. CASE KeyOf[u] # k
  <2>1. r2[k] = r[k]
    BY <1>7 DEF ApplyRollupDelta
  <2>2. /\ StoredIn(table2) \cap LinesOf(k) = S
        /\ UnpricedIn(table2) \cap LinesOf(k) = U
        /\ S \ {u} = S
    BY <1>1, <1>7 DEF LinesOf
  <2>3. QED
    BY <2>1, <2>2, <1>5, <1>6 DEF AgreesOn
<1>8. CASE KeyOf[u] = k
  <2>1. r2[k] = [count    |-> r[k].count + count,
                 tokens   |-> r[k].tokens + (-OutputOf[u]),
                 cost     |-> r[k].cost + (-table[u].cost),
                 unpriced |-> r[k].unpriced + (-UnpricedDelta(table[u].priced))]
    BY <1>8, <1>3 DEF ApplyRollupDelta
  <2>2. /\ StoredIn(table2) \cap LinesOf(k) = S \ {u}
        /\ UnpricedIn(table2) \cap LinesOf(k) = U \ {u}
        /\ u \in S
        /\ u \in U <=> ~table[u].priced
    BY <1>1, <1>8 DEF LinesOf
  <2>3. /\ IsFiniteSet(S) /\ IsFiniteSet(U)
        /\ \A x \in S : OutputOf[x] \in Nat /\ CostColumn(table)[x] \in Nat
        /\ Sum(S, OutputOf) \in Nat /\ Sum(S, CostColumn(table)) \in Nat
        /\ Cardinality(U) \in Nat
    BY ColumnsFinite
  <2> HIDE DEF S, U, table2, r2
  <2>4. Sum(S \ {u}, OutputOf) = Sum(S, OutputOf) - OutputOf[u]
    BY <2>2, <2>3, SumRemove
  <2>5. Sum(S \ {u}, CostColumn(table)) = Sum(S, CostColumn(table)) - CostColumn(table)[u]
    BY <2>2, <2>3, SumRemove
  <2>6. Sum(S \ {u}, CostColumn(table2)) = Sum(S, CostColumn(table)) - table[u].cost
    BY <2>5, <1>2, <1>6
  <2>7. Cardinality(U \ {u}) = Cardinality(U) - UnpricedDelta(table[u].priced)
    <3>1. Cardinality(U \ {u}) = IF u \in U THEN Cardinality(U) - 1 ELSE Cardinality(U)
      BY <2>3, FS_RemoveElement
    <3>2. QED
      BY <3>1, <2>2, <2>3, <1>3 DEF UnpricedDelta
  <2>8. UnpricedDelta(table[u].priced) \in Int
    BY DEF UnpricedDelta
  <2>9. /\ r2[k].tokens = r[k].tokens + (-OutputOf[u])
        /\ r2[k].cost = r[k].cost + (-table[u].cost)
        /\ r2[k].unpriced = r[k].unpriced + (-UnpricedDelta(table[u].priced))
    BY <2>1
  <2>10. /\ r2[k].tokens = Sum(S \ {u}, OutputOf)
         /\ r2[k].cost = Sum(S \ {u}, CostColumn(table2))
         /\ r2[k].unpriced = Cardinality(U \ {u})
    BY <2>3, <2>4, <2>6, <2>7, <2>8, <2>9, <1>3, <1>5
  <2>11. QED
    BY <2>2, <2>10 DEF AgreesOn
<1>9. QED
  BY <1>7, <1>8

LEMMA StoreLineAgrees ==
    ASSUME LedgerTypeOK, Agrees(events, rollups),
           NEW l \in Lines, NEW cost \in Nat, NEW priced \in BOOLEAN,
           StoreLine(l, cost, priced)
    PROVE  Agrees(events', rollups')
<1> DEFINE row == NewRow(l, cost, priced)
<1>1. row \in Row /\ row.cost = cost /\ row.priced = priced
  BY NewRowType DEF NewRow
<1>1a. /\ events \in [Lines -> Row \cup {NoRow}] /\ rollups \in [Keys -> Rollup]
       /\ 0 \in Int /\ 1 \in Int
  BY DEF LedgerTypeOK
<1>2. CASE InsertFirst(l, cost, priced)
  <2>1. /\ events[l] = NoRow
        /\ events' = [events EXCEPT ![l] = row]
        /\ rollups' = ApplyRollupDelta(rollups, KeyOf[l], 1, OutputOf[l], row.cost,
                                       UnpricedDelta(row.priced))
    BY <1>1, <1>2 DEF InsertFirst
  <2> HIDE DEF row
  <2>2. Agrees([events EXCEPT ![l] = row],
               ApplyRollupDelta(rollups, KeyOf[l], 1, OutputOf[l], row.cost,
                                UnpricedDelta(row.priced)))
    BY <1>1, <1>1a, <2>1, RowIn
  <2>3. QED
    BY <2>1, <2>2
<1>3. CASE InsertClash(l)
  BY <1>3 DEF InsertClash, ledgerVars
<1>4. CASE InsertPartial(l)
  BY <1>4 DEF InsertPartial, ledgerVars
<1>5. CASE Replace(l, cost, priced)
  <2>1. PICK u \in Existing(l) :
            /\ u = l \/ events[l] = NoRow
            /\ events' = [events EXCEPT ![u] = NoRow, ![l] = NewRow(l, cost, priced)]
            /\ LET old == ApplyRollupDelta(rollups, KeyOf[u], 0, -OutputOf[u],
                                           -events[u].cost,
                                           -UnpricedDelta(events[u].priced))
               IN  rollups' = ApplyRollupDelta(old, KeyOf[l], 0, OutputOf[l], cost,
                                               UnpricedDelta(priced))
    BY <1>5 DEF Replace
  <2> DEFINE without == [events EXCEPT ![u] = NoRow]
             old == ApplyRollupDelta(rollups, KeyOf[u], 0, -OutputOf[u], -events[u].cost,
                                     -UnpricedDelta(events[u].priced))
  <2>2. u \in StoredIn(events)
    BY DEF Existing, Stored, StoredIn
  <2>3. u \in Lines /\ events[u] # NoRow
    BY <2>2 DEF StoredIn
  <2>4. Agrees(without, old)
    BY <2>3, <1>1a, RowOut
  <2>5. without \in [Lines -> Row \cup {NoRow}]
    BY DEF LedgerTypeOK
  <2>6. old \in [Keys -> Rollup]
    <3>1. /\ KeyOf[u] \in Keys /\ -OutputOf[u] \in Int /\ 0 \in Int
          /\ -events[u].cost \in Int /\ -UnpricedDelta(events[u].priced) \in Int
      BY <2>2, RowFields, LedgerLines DEF UnpricedDelta, LedgerTypeOK
    <3>2. QED
      BY <3>1, DeltaType DEF LedgerTypeOK
  <2>7. without[l] = NoRow
    BY <1>1a, <2>1
  <2>8. events' = [without EXCEPT ![l] = row]
    BY <2>1, <2>3 DEF LedgerTypeOK
  <2>9. rollups' = ApplyRollupDelta(old, KeyOf[l], 0, OutputOf[l], row.cost,
                                    UnpricedDelta(row.priced))
    BY <1>1, <2>1
  <2> HIDE DEF row, old, without
  <2>10. Agrees([without EXCEPT ![l] = row],
                ApplyRollupDelta(old, KeyOf[l], 0, OutputOf[l], row.cost,
                                 UnpricedDelta(row.priced)))
    BY <1>1, <1>1a, <2>4, <2>5, <2>6, <2>7, RowIn
  <2>11. QED
    BY <2>8, <2>9, <2>10
<1>6. QED
  BY <1>2, <1>3, <1>4, <1>5 DEF StoreLine

\* A pass adds each price to a rollup that counted the row at nothing: this is
\* where the invariant that an unpriced row costs nothing is needed.
LEMMA RepriceAgrees ==
    ASSUME LedgerTypeOK, Agrees(events, rollups), UnpricedCostsNothing,
           NEW S \in SUBSET Lines, NEW price \in [S -> Nat], ApplyReprice(S, price)
    PROVE  Agrees(events', rollups')
<1> DEFINE hit == S \cap UnpricedRows
<1>1. /\ hit \in SUBSET UnpricedIn(events) /\ hit \in SUBSET StoredIn(events)
      /\ hit \in SUBSET S
  BY DEF UnpricedRows, UnpricedIn, Stored, StoredIn
<1>2. events' = [l \in Lines |->
                   IF l \in hit
                   THEN [events[l] EXCEPT !.cost = price[l], !.priced = TRUE]
                   ELSE events[l]]
  BY DEF ApplyReprice
<1>3. rollups' = [k \in Keys |->
                    [rollups[k] EXCEPT
                       !.cost = @ + Sum(hit \cap LinesOf(k), price),
                       !.unpriced = @ - Cardinality(hit \cap LinesOf(k))]]
  BY DEF ApplyReprice
<1>4. events' \in [Lines -> Row \cup {NoRow}] /\ rollups' \in [Keys -> Rollup]
  BY RepriceType DEF LedgerTypeOK
<1>5. \A l \in hit : CostColumn(events)[l] = 0 /\ price[l] \in Nat
  BY <1>1 DEF UnpricedCostsNothing, UnpricedRows, StoredIn, CostColumn
<1> HIDE DEF hit
<1>6. \A l \in hit : events[l] \in Row /\ events[l] # NoRow /\ l \in Lines
  BY <1>1, RowFields DEF LedgerTypeOK, StoredIn
<1>7. \A l \in hit : events'[l].cost = price[l] /\ events'[l].priced /\ events'[l] \in Row
  BY <1>2, <1>5, <1>6 DEF Row
<1>8. \A l \in Lines \ hit : events'[l] = events[l]
  BY <1>2
<1>9. /\ StoredIn(events') = StoredIn(events)
      /\ UnpricedIn(events') = UnpricedIn(events) \ hit
      /\ \A l \in hit : CostColumn(events')[l] = price[l]
      /\ \A l \in Lines \ hit : CostColumn(events')[l] = CostColumn(events)[l]
  BY <1>1, <1>6, <1>7, <1>8, NoRowIsNoRow DEF StoredIn, UnpricedIn, CostColumn
<1> SUFFICES ASSUME NEW k \in Keys PROVE AgreesOn(events', rollups', k)
  BY DEF Agrees
<1> DEFINE T == StoredIn(events) \cap LinesOf(k)
           U == UnpricedIn(events) \cap LinesOf(k)
           H == hit \cap LinesOf(k)
<1>10. /\ rollups[k].tokens = Sum(T, OutputOf)
       /\ rollups[k].cost = Sum(T, CostColumn(events))
       /\ rollups[k].unpriced = Cardinality(U)
  BY DEF Agrees, AgreesOn
<1>11. /\ StoredIn(events') \cap LinesOf(k) = T
       /\ UnpricedIn(events') \cap LinesOf(k) = U \ H
       /\ H \in SUBSET T /\ H \in SUBSET U /\ H \in SUBSET Lines /\ H \in SUBSET hit
       /\ T \ H \in SUBSET (Lines \ hit)
  BY <1>1, <1>9 DEF LinesOf, StoredIn
<1>12. /\ rollups'[k].tokens = rollups[k].tokens
       /\ rollups'[k].cost = rollups[k].cost + Sum(H, price)
       /\ rollups'[k].unpriced = rollups[k].unpriced - Cardinality(H)
  <2>1. rollups[k] \in Rollup
    BY DEF LedgerTypeOK
  <2>2. rollups'[k] = [rollups[k] EXCEPT !.cost = @ + Sum(H, price),
                                         !.unpriced = @ - Cardinality(H)]
    BY <1>3
  <2> HIDE DEF H
  <2>3. QED
    BY <2>1, <2>2 DEF Rollup
<1>13. /\ IsFiniteSet(T) /\ IsFiniteSet(U)
       /\ \A l \in T : CostColumn(events)[l] \in Nat
  BY ColumnsFinite DEF LedgerTypeOK
<1>14. \A l \in T : CostColumn(events')[l] \in Nat
  BY <1>4, RowFields, <1>11 DEF StoredIn
<1> HIDE DEF T, U, H
<1>14a. H \in SUBSET T
  BY <1>11
<1>15. /\ Sum(T, CostColumn(events)) = Sum(T \ H, CostColumn(events)) + Sum(H, CostColumn(events))
       /\ Sum(T \ H, CostColumn(events)) \in Nat
  BY <1>13, <1>14a, SumSplit
<1>16. /\ Sum(T, CostColumn(events')) = Sum(T \ H, CostColumn(events')) + Sum(H, CostColumn(events'))
       /\ Sum(H, CostColumn(events')) \in Nat
  BY <1>13, <1>14, <1>14a, SumSplit
<1>17. Sum(H, CostColumn(events)) = 0
  BY <1>5, <1>11, SumZero
<1>18. Sum(H, CostColumn(events')) = Sum(H, price)
  BY <1>9, <1>11, SumSame
<1>19. Sum(T \ H, CostColumn(events')) = Sum(T \ H, CostColumn(events))
  BY <1>9, <1>11, SumSame
<1>20. Cardinality(U \ H) = Cardinality(U) - Cardinality(H)
  <2>1. Cardinality(U \ H) = Cardinality(U) - Cardinality(U \cap H)
    BY <1>13, FS_Difference
  <2>2. U \cap H = H
    BY <1>11
  <2>3. QED
    BY <2>1, <2>2
<1>21. /\ rollups'[k].tokens = Sum(T, OutputOf)
       /\ rollups'[k].cost = Sum(T, CostColumn(events'))
       /\ rollups'[k].unpriced = Cardinality(U \ H)
  BY <1>10, <1>12, <1>15, <1>16, <1>17, <1>18, <1>19, <1>20
<1>22. QED
  BY <1>11, <1>21 DEF AgreesOn

\* A correction moves the difference, and only of rows that still have the
\* cost the difference was computed from.
LEMMA CorrectionAgrees ==
    ASSUME LedgerTypeOK, Agrees(events, rollups),
           NEW S \in SUBSET Lines, NEW old \in [S -> Nat], NEW new \in [S -> Nat],
           ApplyCorrection(S, old, new)
    PROVE  Agrees(events', rollups')
<1> DEFINE hit == {l \in S \cap PricedRows : events[l].cost = old[l]}
<1>1. hit \in SUBSET StoredIn(events) /\ hit \in SUBSET S
  BY DEF PricedRows, Stored, StoredIn
<1>2. events' = [l \in Lines |->
                   IF l \in hit THEN [events[l] EXCEPT !.cost = new[l]] ELSE events[l]]
  BY DEF ApplyCorrection
<1>3. rollups' = [k \in Keys |->
                    [rollups[k] EXCEPT
                       !.cost = @ + Sum(hit \cap LinesOf(k), new)
                                  - Sum(hit \cap LinesOf(k), old)]]
  BY DEF ApplyCorrection
<1>4. events' \in [Lines -> Row \cup {NoRow}] /\ rollups' \in [Keys -> Rollup]
  BY CorrectionType DEF LedgerTypeOK
<1>5. \A l \in hit : CostColumn(events)[l] = old[l] /\ old[l] \in Nat /\ new[l] \in Nat
  BY <1>1 DEF StoredIn, CostColumn
<1> HIDE DEF hit
<1>6. \A l \in hit : events[l] \in Row /\ events[l] # NoRow /\ l \in Lines
  BY <1>1, RowFields DEF LedgerTypeOK, StoredIn
<1>7. \A l \in hit : /\ events'[l].cost = new[l]
                     /\ events'[l].priced = events[l].priced /\ events'[l] \in Row
  BY <1>2, <1>5, <1>6 DEF Row
<1>8. \A l \in Lines \ hit : events'[l] = events[l]
  BY <1>2
<1>9. /\ StoredIn(events') = StoredIn(events)
      /\ UnpricedIn(events') = UnpricedIn(events)
      /\ \A l \in hit : CostColumn(events')[l] = new[l]
      /\ \A l \in Lines \ hit : CostColumn(events')[l] = CostColumn(events)[l]
  BY <1>1, <1>6, <1>7, <1>8, NoRowIsNoRow DEF StoredIn, UnpricedIn, CostColumn
<1> SUFFICES ASSUME NEW k \in Keys PROVE AgreesOn(events', rollups', k)
  BY DEF Agrees
<1> DEFINE T == StoredIn(events) \cap LinesOf(k)
           H == hit \cap LinesOf(k)
<1>10. /\ rollups[k].tokens = Sum(T, OutputOf)
       /\ rollups[k].cost = Sum(T, CostColumn(events))
       /\ rollups[k].unpriced = Cardinality(UnpricedIn(events) \cap LinesOf(k))
  BY DEF Agrees, AgreesOn
<1>11. /\ StoredIn(events') \cap LinesOf(k) = T
       /\ H \in SUBSET T /\ H \in SUBSET Lines /\ H \in SUBSET hit
       /\ T \ H \in SUBSET (Lines \ hit)
  BY <1>1, <1>9 DEF LinesOf, StoredIn
<1>12. /\ rollups'[k].tokens = rollups[k].tokens
       /\ rollups'[k].cost = rollups[k].cost + Sum(H, new) - Sum(H, old)
       /\ rollups'[k].unpriced = rollups[k].unpriced
  <2>1. rollups[k] \in Rollup
    BY DEF LedgerTypeOK
  <2>2. rollups'[k] = [rollups[k] EXCEPT !.cost = @ + Sum(H, new) - Sum(H, old)]
    BY <1>3
  <2> HIDE DEF H
  <2>3. QED
    BY <2>1, <2>2 DEF Rollup
<1>13. IsFiniteSet(T) /\ \A l \in T : CostColumn(events)[l] \in Nat
  BY ColumnsFinite DEF LedgerTypeOK
<1>14. \A l \in T : CostColumn(events')[l] \in Nat
  BY <1>4, RowFields, <1>11 DEF StoredIn
<1> HIDE DEF T, H
<1>14a. H \in SUBSET T
  BY <1>11
<1>15. /\ Sum(T, CostColumn(events)) = Sum(T \ H, CostColumn(events)) + Sum(H, CostColumn(events))
       /\ Sum(T \ H, CostColumn(events)) \in Nat /\ Sum(H, CostColumn(events)) \in Nat
  BY <1>13, <1>14a, SumSplit
<1>16. /\ Sum(T, CostColumn(events')) = Sum(T \ H, CostColumn(events')) + Sum(H, CostColumn(events'))
       /\ Sum(H, CostColumn(events')) \in Nat
  BY <1>13, <1>14, <1>14a, SumSplit
<1>17. Sum(H, CostColumn(events)) = Sum(H, old)
  BY <1>5, <1>11, SumSame
<1>18. Sum(H, CostColumn(events')) = Sum(H, new)
  BY <1>9, <1>11, SumSame
<1>19. Sum(T \ H, CostColumn(events')) = Sum(T \ H, CostColumn(events))
  BY <1>9, <1>11, SumSame
<1>20. /\ rollups'[k].tokens = Sum(T, OutputOf)
       /\ rollups'[k].cost = Sum(T, CostColumn(events'))
       /\ rollups'[k].unpriced = Cardinality(UnpricedIn(events) \cap LinesOf(k))
  BY <1>10, <1>12, <1>15, <1>16, <1>17, <1>18, <1>19
<1>21. QED
  BY <1>9, <1>11, <1>20 DEF AgreesOn

LEMMA ResetAgrees == Reset => Agrees(events', rollups')
<1> SUFFICES ASSUME Reset PROVE Agrees(events', rollups')
  OBVIOUS
<1>1. StoredIn(events') = {} /\ UnpricedIn(events') = {}
  BY DEF Reset, StoredIn, UnpricedIn
<1>2. \A k \in Keys : /\ rollups'[k].tokens = 0 /\ rollups'[k].cost = 0
                      /\ rollups'[k].unpriced = 0
  BY DEF Reset, ZeroRollup
<1> SUFFICES ASSUME NEW k \in Keys PROVE AgreesOn(events', rollups', k)
  BY DEF Agrees
<1>3. /\ StoredIn(events') \cap LinesOf(k) = {}
      /\ UnpricedIn(events') \cap LinesOf(k) = {}
  BY <1>1
<1>4. QED
  BY <1>2, <1>3, SumEmpty, FS_EmptySet DEF AgreesOn

LEMMA InitAgrees == LedgerInit => Agrees(events, rollups)
<1> SUFFICES ASSUME LedgerInit PROVE Agrees(events, rollups)
  OBVIOUS
<1>1. UnpricedIn(events) = {}
  <2>1. PICK S \in SUBSET Legacy : \E cost \in [S -> Costs] :
          events = [l \in Lines |-> IF l \in S THEN LegacyRow(cost[l]) ELSE NoRow]
    BY DEF LedgerInit
  <2>2. PICK cost \in [S -> Costs] :
          events = [l \in Lines |-> IF l \in S THEN LegacyRow(cost[l]) ELSE NoRow]
    BY <2>1
  <2>3. \A l \in Lines : events[l] = NoRow \/ events[l].priced = TRUE
    BY <2>2 DEF LegacyRow
  <2>4. QED
    BY <2>3 DEF UnpricedIn, StoredIn
<1>2. rollups = [k \in Keys |-> MigratedRollup(events, k)]
  BY DEF LedgerInit
<1> SUFFICES ASSUME NEW k \in Keys PROVE AgreesOn(events, rollups, k)
  BY DEF Agrees
<1>3. rollups[k] = MigratedRollup(events, k)
  BY <1>2
<1>4. Cardinality(UnpricedIn(events) \cap LinesOf(k)) = 0
  <2>1. UnpricedIn(events) \cap LinesOf(k) = {}
    BY <1>1
  <2>2. QED
    BY <2>1, FS_EmptySet
<1>5. QED
  BY <1>3, <1>4 DEF AgreesOn, MigratedRollup

(***************************************************************************)
(* The inductive invariant.  RollupMatchesEvents is not inductive alone: a *)
(* reprice adds the price of a row to a rollup, which is the right move    *)
(* only when the row counted for nothing before.  OneRowPerResponse joins  *)
(* it for the action property on output tokens.                            *)
(***************************************************************************)

LedgerInv ==
    /\ LedgerTypeOK
    /\ RollupMatchesEvents
    /\ UnpricedCostsNothing
    /\ OneRowPerResponse

LEMMA InitInv == LedgerInit => LedgerInv
<1> SUFFICES ASSUME LedgerInit PROVE LedgerInv
  OBVIOUS
<1>1. PICK S \in SUBSET Legacy : \E cost \in [S -> Costs] :
        events = [l \in Lines |-> IF l \in S THEN LegacyRow(cost[l]) ELSE NoRow]
  BY DEF LedgerInit
<1>2. PICK cost \in [S -> Costs] :
        events = [l \in Lines |-> IF l \in S THEN LegacyRow(cost[l]) ELSE NoRow]
  BY <1>1
<1>3. \A l \in Stored : events[l].priced = TRUE /\ events[l].resp = NoResp
  BY <1>2 DEF Stored, StoredIn, LegacyRow
<1>4. UnpricedCostsNothing /\ OneRowPerResponse
  BY <1>3 DEF UnpricedCostsNothing, UnpricedRows, OneRowPerResponse
<1>5. QED
  BY <1>4, InitType, InitAgrees, AgreesIsRollupMatchesEvents DEF LedgerInv

\* What StoreLine leaves in the events table.
LEMMA StoreLineRows ==
    ASSUME LedgerTypeOK, NEW l \in Lines, NEW cost, NEW priced,
           StoreLine(l, cost, priced)
    PROVE  \/ events' = events
           \/ /\ events'[l] = NewRow(l, cost, priced)
              /\ Existing(l) = {} \/ \E u \in Existing(l) :
                    /\ events'[u] = NoRow \/ u = l
                    /\ OutputOf[u] <= OutputOf[l]
                    /\ \A x \in Lines \ {u, l} : events'[x] = events[x]
              /\ Existing(l) = {} =>
                    events[l] = NoRow /\ \A x \in Lines \ {l} : events'[x] = events[x]
<1>1. CASE InsertFirst(l, cost, priced)
  BY <1>1 DEF InsertFirst, LedgerTypeOK
<1>2. CASE InsertClash(l)
  BY <1>2 DEF InsertClash, ledgerVars
<1>3. CASE InsertPartial(l)
  BY <1>3 DEF InsertPartial, ledgerVars
<1>4. CASE Replace(l, cost, priced)
  <2>1. PICK u \in Existing(l) :
            /\ OutputOf[u] <= OutputOf[l]
            /\ events' = [events EXCEPT ![u] = NoRow, ![l] = NewRow(l, cost, priced)]
    BY <1>4 DEF Replace
  <2>2. u \in Lines
    BY DEF Existing, Stored, StoredIn
  <2>3. /\ events'[l] = NewRow(l, cost, priced)
        /\ events'[u] = NoRow \/ u = l
        /\ \A x \in Lines \ {u, l} : events'[x] = events[x]
    BY <2>1, <2>2 DEF LedgerTypeOK
  <2>4. QED
    BY <2>1, <2>3
<1>5. QED
  BY <1>1, <1>2, <1>3, <1>4 DEF StoreLine

LEMMA StoreLineUnpriced ==
    ASSUME LedgerTypeOK, UnpricedCostsNothing, NEW l \in Lines, NEW cost \in Nat,
           NEW priced \in BOOLEAN, priced \/ cost = 0, StoreLine(l, cost, priced)
    PROVE  UnpricedCostsNothing'
<1>1. CASE events' = events
  BY <1>1 DEF UnpricedCostsNothing, UnpricedRows, Stored, StoredIn
<1>2. CASE events' # events
  <2>1. events'[l] = NewRow(l, cost, priced)
    BY <1>2, StoreLineRows
  <2>2. \A x \in Lines \ {l} : events'[x] = events[x] \/ events'[x] = NoRow
    BY <1>2, StoreLineRows
  <2>3. SUFFICES ASSUME NEW x \in Lines, events'[x] # NoRow, ~events'[x].priced
                 PROVE  events'[x].cost = 0
    BY DEF UnpricedCostsNothing, UnpricedRows, Stored, StoredIn
  <2>4. CASE x = l
    BY <2>1, <2>3, <2>4 DEF NewRow
  <2>5. CASE x # l
    BY <2>2, <2>3, <2>5 DEF UnpricedCostsNothing, UnpricedRows, Stored, StoredIn
  <2>6. QED
    BY <2>4, <2>5
<1>3. QED
  BY <1>1, <1>2

\* Lines of the response of l that have a row after StoreLine(l): l alone.
LEMMA StoreLineUnique ==
    ASSUME LedgerTypeOK, OneRowPerResponse, NEW l \in Lines, NEW cost, NEW priced,
           StoreLine(l, cost, priced), events' # events
    PROVE  \A x \in Lines \ {l} :
              events'[x] # NoRow =>
                 /\ events'[x] = events[x]
                 /\ RespOf[l] # NoResp => events[x].resp # RespOf[l]
<1> SUFFICES ASSUME NEW x \in Lines \ {l}, events'[x] # NoRow
             PROVE  /\ events'[x] = events[x]
                    /\ RespOf[l] # NoResp => events[x].resp # RespOf[l]
  OBVIOUS
<1>1. CASE Existing(l) = {}
  BY <1>1, StoreLineRows DEF Existing, Stored, StoredIn
<1>2. CASE Existing(l) # {}
  <2>1. PICK u \in Existing(l) :
               /\ events'[u] = NoRow \/ u = l
               /\ \A y \in Lines \ {u, l} : events'[y] = events[y]
    BY <1>2, StoreLineRows
  <2>2. x # u
    BY <2>1
  <2>3. RespOf[l] # NoResp => u \in Stored /\ events[u].resp = RespOf[l]
    BY DEF Existing
  <2>4. x \in Stored
    BY <2>1, <2>2 DEF Stored, StoredIn
  <2>5. QED
    BY <2>1, <2>2, <2>3, <2>4 DEF OneRowPerResponse
<1>3. QED
  BY <1>1, <1>2

LEMMA StoreLineOneRow ==
    ASSUME LedgerTypeOK, OneRowPerResponse, NEW l \in Lines, NEW cost, NEW priced,
           StoreLine(l, cost, priced)
    PROVE  OneRowPerResponse'
<1>1. CASE events' = events
  BY <1>1 DEF OneRowPerResponse, Stored, StoredIn
<1>2. CASE events' # events
  <2>1. SUFFICES ASSUME NEW x \in Lines, NEW y \in Lines,
                        events'[x] # NoRow, events'[y] # NoRow,
                        events'[x].resp = events'[y].resp, events'[x].resp # NoResp
                 PROVE  x = y
    BY DEF OneRowPerResponse, Stored, StoredIn
  <2>1a. events'[l] = NewRow(l, cost, priced)
    BY <1>2, StoreLineRows
  <2>2. events'[l].resp = RespOf[l]
    BY <2>1a DEF NewRow
  <2>3. \A z \in Lines \ {l} : events'[z] # NoRow =>
              /\ events'[z] = events[z]
              /\ RespOf[l] # NoResp => events[z].resp # RespOf[l]
    BY <1>2, StoreLineUnique
  <2>4. CASE x = l \/ y = l
    BY <2>1, <2>2, <2>3, <2>4
  <2>5. CASE x # l /\ y # l
    BY <2>1, <2>3, <2>5 DEF OneRowPerResponse, Stored, StoredIn
  <2>6. QED
    BY <2>4, <2>5
<1>3. QED
  BY <1>1, <1>2

\* A pass touches neither the set of rows nor their response; a reprice makes
\* its rows priced, a correction touches priced rows only.
LEMMA PassRows ==
    ASSUME LedgerTypeOK, NEW S \in SUBSET Lines,
           \/ \E price \in [S -> Nat] : ApplyReprice(S, price)
           \/ \E old, new \in [S -> Nat] : ApplyCorrection(S, old, new)
    PROVE  \A l \in Lines :
              /\ events'[l] # NoRow <=> events[l] # NoRow
              /\ events[l] # NoRow => events'[l].resp = events[l].resp
              /\ events[l] # NoRow /\ ~events'[l].priced => events'[l] = events[l]
<1> SUFFICES ASSUME NEW l \in Lines
             PROVE  /\ events'[l] # NoRow <=> events[l] # NoRow
                    /\ events[l] # NoRow => events'[l].resp = events[l].resp
                    /\ events[l] # NoRow /\ ~events'[l].priced => events'[l] = events[l]
  OBVIOUS
<1>1. ASSUME NEW price \in [S -> Nat], ApplyReprice(S, price)
      PROVE  /\ events'[l] # NoRow <=> events[l] # NoRow
             /\ events[l] # NoRow => events'[l].resp = events[l].resp
             /\ events[l] # NoRow /\ ~events'[l].priced => events'[l] = events[l]
  <2>1. CASE l \in S \cap UnpricedRows
    <3>1. events'[l] = [events[l] EXCEPT !.cost = price[l], !.priced = TRUE]
      BY <1>1, <2>1 DEF ApplyReprice
    <3>2. events[l] \in Row /\ events[l] # NoRow
      BY <2>1, RowFields DEF UnpricedRows, Stored, StoredIn, LedgerTypeOK
    <3>3. /\ events'[l] \in Row /\ events'[l].resp = events[l].resp
          /\ events'[l].priced = TRUE
      BY <1>1, <2>1, <3>1, <3>2 DEF Row
    <3>4. QED
      BY <3>2, <3>3, NoRowIsNoRow
  <2>2. CASE l \notin S \cap UnpricedRows
    BY <1>1, <2>2 DEF ApplyReprice
  <2>3. QED
    BY <2>1, <2>2
<1>2. ASSUME NEW old \in [S -> Nat], NEW new \in [S -> Nat], ApplyCorrection(S, old, new)
      PROVE  /\ events'[l] # NoRow <=> events[l] # NoRow
             /\ events[l] # NoRow => events'[l].resp = events[l].resp
             /\ events[l] # NoRow /\ ~events'[l].priced => events'[l] = events[l]
  <2> DEFINE hit == {x \in S \cap PricedRows : events[x].cost = old[x]}
  <2>1. CASE l \in hit
    <3>1. events'[l] = [events[l] EXCEPT !.cost = new[l]]
      BY <1>2, <2>1 DEF ApplyCorrection
    <3>2. events[l] \in Row /\ events[l] # NoRow /\ events[l].priced
      BY <2>1, RowFields DEF PricedRows, Stored, StoredIn, LedgerTypeOK
    <3>3. /\ events'[l] \in Row /\ events'[l].resp = events[l].resp
          /\ events'[l].priced = events[l].priced
      BY <1>2, <2>1, <3>1, <3>2 DEF Row
    <3>4. QED
      BY <3>2, <3>3, NoRowIsNoRow
  <2>2. CASE l \notin hit
    BY <1>2, <2>2 DEF ApplyCorrection
  <2>3. QED
    BY <2>1, <2>2
<1>3. QED
  BY <1>1, <1>2

LEMMA PassKeeps ==
    ASSUME LedgerTypeOK, UnpricedCostsNothing, OneRowPerResponse, NEW S \in SUBSET Lines,
           \/ \E price \in [S -> Nat] : ApplyReprice(S, price)
           \/ \E old, new \in [S -> Nat] : ApplyCorrection(S, old, new)
    PROVE  UnpricedCostsNothing' /\ OneRowPerResponse'
<1>1. \A l \in Lines :
              /\ events'[l] # NoRow <=> events[l] # NoRow
              /\ events[l] # NoRow => events'[l].resp = events[l].resp
              /\ events[l] # NoRow /\ ~events'[l].priced => events'[l] = events[l]
  BY PassRows
<1>2. UnpricedCostsNothing'
  BY <1>1 DEF UnpricedCostsNothing, UnpricedRows, Stored, StoredIn
<1>3. OneRowPerResponse'
  BY <1>1 DEF OneRowPerResponse, Stored, StoredIn
<1>4. QED
  BY <1>2, <1>3

LEMMA ResetKeeps == Reset => UnpricedCostsNothing' /\ OneRowPerResponse'
BY DEF Reset, UnpricedCostsNothing, OneRowPerResponse, UnpricedRows, Stored, StoredIn

LEMMA NextInv ==
    ASSUME LedgerInv, LedgerNext
    PROVE  LedgerInv'
<1> USE AgreesIsRollupMatchesEvents DEF LedgerInv
<1>0. Agrees(events', rollups') <=> RollupMatchesEvents'
  <2>1. \A k \in Keys : Stored' \cap LinesOf(k) \cap UnpricedRows'
                          = UnpricedIn(events') \cap LinesOf(k)
    BY DEF Stored, UnpricedRows, UnpricedIn
  <2>2. QED
    BY <2>1 DEF Agrees, AgreesOn, RollupMatchesEvents, Stored
<1>1. ASSUME NEW l \in Lines, NEW cost \in Nat, NEW priced \in BOOLEAN,
             priced \/ cost = 0, StoreLine(l, cost, priced)
      PROVE  LedgerInv'
  BY <1>0, <1>1, StoreLineType, StoreLineAgrees, StoreLineUnpriced, StoreLineOneRow
<1>2. ASSUME NEW S \in SUBSET Lines, NEW price \in [S -> Nat], ApplyReprice(S, price)
      PROVE  LedgerInv'
  BY <1>0, <1>2, RepriceType, RepriceAgrees, PassKeeps
<1>3. ASSUME NEW S \in SUBSET Lines, NEW old \in [S -> Nat], NEW new \in [S -> Nat],
             ApplyCorrection(S, old, new)
      PROVE  LedgerInv'
  BY <1>0, <1>3, CorrectionType, CorrectionAgrees, PassKeeps
<1>4. CASE Reset
  BY <1>0, <1>4, ResetType, ResetAgrees, ResetKeeps
<1>5. QED
  BY <1>1, <1>2, <1>3, <1>4, StepCases

THEOREM LedgerInvariant == LedgerSpec => []LedgerInv
<1>1. LedgerInv /\ [LedgerNext]_ledgerVars => LedgerInv'
  <2> SUFFICES ASSUME LedgerInv, [LedgerNext]_ledgerVars
               PROVE  LedgerInv'
    OBVIOUS
  <2>1. CASE LedgerNext
    BY <2>1, NextInv
  <2>2. CASE UNCHANGED ledgerVars
    BY <2>2 DEF ledgerVars, LedgerInv, LedgerTypeOK, RollupMatchesEvents,
                UnpricedCostsNothing, OneRowPerResponse, UnpricedRows, Stored
  <2>3. QED
    BY <2>1, <2>2
<1>2. QED
  BY <1>1, InitInv, PTL DEF LedgerSpec

\* Whatever the callers do, a rollup row adds up the events under its key.
THEOREM RollupsMatchEvents == LedgerSpec => []RollupMatchesEvents
<1>1. LedgerInv => RollupMatchesEvents
  BY DEF LedgerInv
<1>2. QED
  BY <1>1, LedgerInvariant, PTL

\* Whatever the callers do, a response has one row.
THEOREM ResponseHasOneRow == LedgerSpec => []OneRowPerResponse
<1>1. LedgerInv => OneRowPerResponse
  BY DEF LedgerInv
<1>2. QED
  BY <1>1, LedgerInvariant, PTL

\* Whatever the callers do, an unpriced row costs nothing.
THEOREM UnpricedIsFree == LedgerSpec => []UnpricedCostsNothing
<1>1. LedgerInv => UnpricedCostsNothing
  BY DEF LedgerInv
<1>2. QED
  BY <1>1, LedgerInvariant, PTL

(***************************************************************************)
(* What a step may never do.                                               *)
(***************************************************************************)

LEMMA SameRowsSteps ==
    ASSUME LedgerInv,
           \A l \in Lines :
              /\ events'[l] # NoRow <=> events[l] # NoRow
              /\ events[l] # NoRow => events'[l].resp = events[l].resp
    PROVE  OutputStep /\ KeepStep
<1>1. KeepStep
  BY DEF KeepStep, Stored, StoredIn
<1>2. ASSUME NEW l \in Stored, NEW u \in Lines, events[l].resp # NoResp,
             u \in StoredIn(events'), events'[u].resp = events[l].resp
      PROVE  OutputOf[l] <= OutputOf[u]
  <2>1. l = u
    BY <1>2 DEF LedgerInv, OneRowPerResponse, Stored, StoredIn
  <2>2. OutputOf[l] \in Nat
    BY LedgerLines DEF Stored, StoredIn
  <2>3. QED
    BY <2>1, <2>2
<1>3. QED
  BY <1>1, <1>2 DEF OutputStep

LEMMA StoreLineSteps ==
    ASSUME LedgerInv, NEW l \in Lines, NEW cost \in Nat, NEW priced \in BOOLEAN,
           StoreLine(l, cost, priced), events' # events
    PROVE  OutputStep /\ KeepStep
<1>0. LedgerTypeOK /\ OneRowPerResponse
  BY DEF LedgerInv
<1>1. events'[l] = NewRow(l, cost, priced)
  BY <1>0, StoreLineRows
<1>2. events'[l].resp = RespOf[l] /\ l \in StoredIn(events')
  BY <1>1, NewRowType DEF NewRow, StoredIn
<1>3. ASSUME NEW x \in Stored, NEW u \in Lines, events[x].resp # NoResp,
             u \in StoredIn(events'), events'[u].resp = events[x].resp
      PROVE  OutputOf[x] <= OutputOf[u]
  <2>1. OutputOf[x] \in Nat /\ OutputOf[u] \in Nat
    BY LedgerLines DEF Stored, StoredIn
  <2>2. CASE u # l
    <3>1. events[u] = events'[u]
      BY <1>0, <1>3, <2>2, StoreLineUnique DEF StoredIn
    <3>2. u = x
      BY <1>0, <1>3, <3>1 DEF OneRowPerResponse, Stored, StoredIn
    <3>3. QED
      BY <3>2, <2>1
  <2>3. CASE u = l
    <3>1. x \in Existing(l)
      BY <1>2, <1>3, <2>3 DEF Existing
    <3>2. PICK e \in Existing(l) : OutputOf[e] <= OutputOf[l]
      BY <1>0, <3>1, StoreLineRows
    <3>3. e = x
      BY <1>0, <1>2, <1>3, <2>3, <3>1, <3>2 DEF Existing, OneRowPerResponse
    <3>4. QED
      BY <3>2, <3>3, <2>3
  <2>4. QED
    BY <2>2, <2>3
<1>4. ASSUME NEW x \in Stored, x \notin StoredIn(events')
      PROVE  \E u \in StoredIn(events') :
                events'[u].resp = events[x].resp /\ events[x].resp # NoResp
  <2>1. x # l /\ x \in Lines /\ events'[x] # events[x]
    BY <1>2, <1>4 DEF Stored, StoredIn
  <2>2. x \in Existing(l)
    BY <1>0, <2>1, StoreLineRows
  <2>3. RespOf[l] # NoResp /\ events[x].resp = RespOf[l]
    BY <2>1, <2>2 DEF Existing
  <2>4. QED
    BY <1>2, <2>3
<1>5. QED
  BY <1>3, <1>4 DEF OutputStep, KeepStep

LEMMA LedgerSteps ==
    ASSUME LedgerInv, LedgerNext
    PROVE  OutputStep /\ KeepStep
<1>0. LedgerTypeOK
  BY DEF LedgerInv
<1>1. ASSUME NEW l \in Lines, NEW cost \in Nat, NEW priced \in BOOLEAN,
             StoreLine(l, cost, priced)
      PROVE  OutputStep /\ KeepStep
  <2>1. CASE events' # events
    BY <1>1, <2>1, StoreLineSteps
  <2>2. CASE events' = events
    BY <2>2, SameRowsSteps
  <2>3. QED
    BY <2>1, <2>2
<1>2. ASSUME NEW S \in SUBSET Lines, NEW price \in [S -> Nat], ApplyReprice(S, price)
      PROVE  OutputStep /\ KeepStep
  BY <1>0, <1>2, PassRows, SameRowsSteps
<1>3. ASSUME NEW S \in SUBSET Lines, NEW old \in [S -> Nat], NEW new \in [S -> Nat],
             ApplyCorrection(S, old, new)
      PROVE  OutputStep /\ KeepStep
  BY <1>0, <1>3, PassRows, SameRowsSteps
<1>4. CASE Reset
  BY <1>4 DEF Reset, OutputStep, KeepStep, Stored, StoredIn
<1>5. QED
  BY <1>1, <1>2, <1>3, <1>4, StepCases

\* The stored output tokens of a response never shrink, short of a reset.
THEOREM OutputsGrow == LedgerSpec => OutputOnlyGrows
<1>1. LedgerInv /\ [LedgerNext]_ledgerVars => [OutputStep]_ledgerVars
  BY LedgerSteps DEF ledgerVars
<1>2. QED
  BY <1>1, LedgerInvariant, PTL DEF LedgerSpec, OutputOnlyGrows

\* No stored response loses its row, short of a reset.
THEOREM RowsAreKept == LedgerSpec => NoRowDiscarded
<1>1. LedgerInv /\ [LedgerNext]_ledgerVars => [KeepStep]_ledgerVars
  BY LedgerSteps DEF ledgerVars
<1>2. QED
  BY <1>1, LedgerInvariant, PTL DEF LedgerSpec, NoRowDiscarded

(***************************************************************************)
(* The event counts.  A replacement may leave an event counted under the   *)
(* key of the row it replaced, so the counts match the rows in sum only.   *)
(***************************************************************************)

Counts(r) == [k \in Keys |-> r[k].count]

CountInv ==
    /\ \A k \in Keys : rollups[k].count \in Nat
    /\ CountMatchesRows

LEMMA DeltaCounts ==
    ASSUME NEW r \in [Keys -> Rollup], NEW k \in Keys, NEW count, NEW tokens,
           NEW cost, NEW unpriced
    PROVE  /\ ApplyRollupDelta(r, k, count, tokens, cost, unpriced)[k].count
                = r[k].count + count
           /\ \A x \in Keys \ {k} :
                ApplyRollupDelta(r, k, count, tokens, cost, unpriced)[x].count = r[x].count
BY DEF ApplyRollupDelta, Rollup

LEMMA SameCounts ==
    ASSUME CountInv, \A k \in Keys : rollups'[k].count = rollups[k].count,
           Cardinality(Stored') = Cardinality(Stored)
    PROVE  CountInv'
<1>1. Counts(rollups') = Counts(rollups)
  BY DEF Counts
<1>2. QED
  BY <1>1 DEF CountInv, CountMatchesRows, Counts

LEMMA StoreLineCounts ==
    ASSUME LedgerTypeOK, CountInv, NEW l \in Lines, NEW cost \in Nat,
           NEW priced \in BOOLEAN, StoreLine(l, cost, priced)
    PROVE  CountInv'
<1>0. /\ events \in [Lines -> Row \cup {NoRow}] /\ rollups \in [Keys -> Rollup]
      /\ KeyOf[l] \in Keys /\ OutputOf[l] \in Nat
      /\ NewRow(l, cost, priced) # NoRow
  BY NewRowType, LedgerLines DEF LedgerTypeOK
<1>1. IsFiniteSet(Stored)
  BY FiniteParts DEF Stored, StoredIn
<1>2. CASE InsertFirst(l, cost, priced)
  <2>1. events[l] = NoRow /\ events' = [events EXCEPT ![l] = NewRow(l, cost, priced)]
    BY <1>2 DEF InsertFirst
  <2>2. l \notin Stored /\ Stored' = Stored \cup {l}
    BY <1>0, <2>1 DEF Stored, StoredIn
  <2>3. Cardinality(Stored') = Cardinality(Stored) + 1
    BY <1>1, <2>2, FS_AddElement
  <2>4. /\ rollups'[KeyOf[l]].count = rollups[KeyOf[l]].count + 1
        /\ \A k \in Keys \ {KeyOf[l]} : rollups'[k].count = rollups[k].count
    BY <1>0, <1>2, DeltaCounts DEF InsertFirst
  <2>5. \A k \in Keys : Counts(rollups)[k] \in Nat /\ Counts(rollups')[k] \in Nat
    BY <2>4 DEF Counts, CountInv
  <2>6. Sum(Keys, Counts(rollups')) = Sum(Keys, Counts(rollups))
          - Counts(rollups)[KeyOf[l]] + Counts(rollups')[KeyOf[l]]
    <3>1. \A k \in Keys : k # KeyOf[l] => Counts(rollups')[k] = Counts(rollups)[k]
      BY <2>4 DEF Counts
    <3>2. QED
      BY <1>0, <2>5, <3>1, SumChange, LedgerSets
  <2>7. Sum(Keys, Counts(rollups)) \in Nat
    BY <2>5, SumType, LedgerSets
  <2>8. Sum(Keys, Counts(rollups')) = Sum(Keys, Counts(rollups)) + 1
    BY <1>0, <2>4, <2>5, <2>6, <2>7 DEF Counts
  <2>9. QED
    BY <2>3, <2>5, <2>8 DEF CountInv, CountMatchesRows, Counts
<1>3. CASE UNCHANGED ledgerVars
  BY <1>3, SameCounts DEF ledgerVars, Stored
<1>4. CASE Replace(l, cost, priced)
  <2>1. PICK u \in Existing(l) :
            /\ u = l \/ events[l] = NoRow
            /\ events' = [events EXCEPT ![u] = NoRow, ![l] = NewRow(l, cost, priced)]
            /\ LET old == ApplyRollupDelta(rollups, KeyOf[u], 0, -OutputOf[u],
                                           -events[u].cost,
                                           -UnpricedDelta(events[u].priced))
               IN  rollups' = ApplyRollupDelta(old, KeyOf[l], 0, OutputOf[l], cost,
                                               UnpricedDelta(priced))
    BY <1>4 DEF Replace
  <2>2. u \in Stored /\ u \in Lines
    BY DEF Existing, Stored, StoredIn
  <2>3. Stored' = (Stored \ {u}) \cup {l} /\ l \notin Stored \ {u}
    BY <1>0, <2>1, <2>2 DEF Stored, StoredIn
  <2>4. Cardinality(Stored') = Cardinality(Stored)
    <3>1. /\ IsFiniteSet(Stored \ {u})
          /\ Cardinality(Stored \ {u}) = Cardinality(Stored) - 1
      BY <1>1, <2>2, FS_RemoveElement
    <3>2. Cardinality((Stored \ {u}) \cup {l}) = Cardinality(Stored \ {u}) + 1
      BY <2>3, <3>1, FS_AddElement
    <3>3. Cardinality(Stored) \in Nat
      BY <1>1, FS_CardinalityType
    <3>4. QED
      BY <2>3, <3>1, <3>2, <3>3
  <2> DEFINE old == ApplyRollupDelta(rollups, KeyOf[u], 0, -OutputOf[u],
                                     -events[u].cost, -UnpricedDelta(events[u].priced))
  <2>5. KeyOf[u] \in Keys /\ old \in [Keys -> Rollup]
    <3>1. /\ KeyOf[u] \in Keys /\ -OutputOf[u] \in Int /\ 0 \in Int
          /\ -events[u].cost \in Int /\ -UnpricedDelta(events[u].priced) \in Int
      BY <1>0, <2>2, RowFields, LedgerLines DEF UnpricedDelta, Stored
    <3>2. QED
      BY <1>0, <3>1, DeltaType
  <2>6. \A k \in Keys : rollups[k].count + 0 = rollups[k].count
    BY DEF CountInv
  <2>7. \A k \in Keys : old[k].count = rollups[k].count
    BY <1>0, <2>5, <2>6, DeltaCounts
  <2>8. rollups' = ApplyRollupDelta(old, KeyOf[l], 0, OutputOf[l], cost,
                                    UnpricedDelta(priced))
    BY <2>1
  <2> HIDE DEF old
  <2>9. \A k \in Keys : rollups'[k].count = rollups[k].count
    BY <1>0, <2>5, <2>6, <2>7, <2>8, DeltaCounts
  <2>10. QED
    BY <2>4, <2>9, SameCounts
<1>5. QED
  BY <1>2, <1>3, <1>4 DEF StoreLine, InsertClash, InsertPartial

LEMMA PassCounts ==
    ASSUME LedgerTypeOK, CountInv, NEW S \in SUBSET Lines,
           \/ \E price \in [S -> Nat] : ApplyReprice(S, price)
           \/ \E old, new \in [S -> Nat] : ApplyCorrection(S, old, new)
    PROVE  CountInv'
<1>1. \A k \in Keys : rollups'[k].count = rollups[k].count
  <2> SUFFICES ASSUME NEW k \in Keys PROVE rollups'[k].count = rollups[k].count
    OBVIOUS
  <2>1. rollups[k] \in Rollup
    BY DEF LedgerTypeOK
  <2>2. ASSUME NEW price \in [S -> Nat], ApplyReprice(S, price)
        PROVE  rollups'[k].count = rollups[k].count
    <3> DEFINE hit == S \cap UnpricedRows
               c == rollups[k].cost + Sum(hit \cap LinesOf(k), price)
               n == rollups[k].unpriced - Cardinality(hit \cap LinesOf(k))
    <3>1. rollups'[k] = [rollups[k] EXCEPT !.cost = c, !.unpriced = n]
      BY <2>2 DEF ApplyReprice
    <3> HIDE DEF c, n
    <3>2. QED
      BY <2>1, <3>1 DEF Rollup
  <2>3. ASSUME NEW old \in [S -> Nat], NEW new \in [S -> Nat], ApplyCorrection(S, old, new)
        PROVE  rollups'[k].count = rollups[k].count
    <3> DEFINE hit == {l \in S \cap PricedRows : events[l].cost = old[l]}
               c == rollups[k].cost + Sum(hit \cap LinesOf(k), new)
                                    - Sum(hit \cap LinesOf(k), old)
    <3>1. rollups'[k] = [rollups[k] EXCEPT !.cost = c]
      BY <2>3 DEF ApplyCorrection
    <3> HIDE DEF c
    <3>2. QED
      BY <2>1, <3>1 DEF Rollup
  <2>4. QED
    BY <2>2, <2>3
<1>2. Stored' = Stored
  BY PassRows DEF Stored, StoredIn
<1>3. QED
  BY <1>1, <1>2, SameCounts

LEMMA ResetCounts == Reset => CountInv'
<1> SUFFICES ASSUME Reset PROVE CountInv'
  OBVIOUS
<1>1. \A k \in Keys : rollups'[k].count = 0
  BY DEF Reset, ZeroRollup
<1>2. Stored' = {}
  BY DEF Reset, Stored, StoredIn
<1>3. Sum(Keys, Counts(rollups')) = 0
  BY <1>1, SumZero DEF Counts
<1>4. QED
  BY <1>1, <1>2, <1>3, FS_EmptySet DEF CountInv, CountMatchesRows, Counts

LEMMA InitCounts == LedgerInit => CountInv
<1> SUFFICES ASSUME LedgerInit PROVE CountInv
  OBVIOUS
<1>1. \A k \in Keys : rollups[k].count = Cardinality(Stored \cap LinesOf(k))
  BY DEF LedgerInit, MigratedRollup, Stored
<1>2. Stored \in SUBSET Lines /\ IsFiniteSet(Stored) /\ IsFiniteSet(Keys)
  BY FiniteParts, LedgerSets DEF Stored, StoredIn
<1> DEFINE key == [l \in Stored |-> KeyOf[l]]
<1>3. key \in [Stored -> Keys]
  BY <1>2, LedgerLines
<1>4. \A k \in Keys : Stored \cap LinesOf(k) = {l \in Stored : key[l] = k}
  BY <1>2 DEF LinesOf
<1>5. \A k \in Keys : Counts(rollups)[k] = Cardinality({l \in Stored : key[l] = k})
  BY <1>1, <1>4 DEF Counts
<1> HIDE DEF key
<1>6. Sum(Keys, Counts(rollups)) = Cardinality(Stored)
  BY <1>2, <1>3, <1>5, SumParts
<1>7. \A k \in Keys : rollups[k].count \in Nat
  <2> SUFFICES ASSUME NEW k \in Keys PROVE rollups[k].count \in Nat
    OBVIOUS
  <2>1. IsFiniteSet(Stored \cap LinesOf(k))
    BY <1>2, FS_Subset
  <2>2. QED
    BY <1>1, <2>1, FS_CardinalityType
<1>8. QED
  BY <1>6, <1>7 DEF CountInv, CountMatchesRows, Counts

\* Whatever the callers do, the event counts of all keys add up to the rows.
THEOREM CountsMatchRows == LedgerSpec => []CountMatchesRows
<1>1. LedgerTypeOK /\ CountInv /\ [LedgerNext]_ledgerVars => CountInv'
  <2> SUFFICES ASSUME LedgerTypeOK, CountInv, [LedgerNext]_ledgerVars
               PROVE  CountInv'
    OBVIOUS
  <2>1. CASE LedgerNext
    BY <2>1, StepCases, StoreLineCounts, PassCounts, ResetCounts
  <2>2. CASE UNCHANGED ledgerVars
    BY <2>2, SameCounts DEF ledgerVars, Stored
  <2>3. QED
    BY <2>1, <2>2
<1>2. CountInv => CountMatchesRows
  BY DEF CountInv
<1>3. QED
  BY <1>1, <1>2, InitCounts, LedgerTypeCorrect, PTL DEF LedgerSpec
=============================================================================
