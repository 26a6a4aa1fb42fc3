------------------------------- MODULE Replay -------------------------------
(***************************************************************************)
(* What the ledger holds after the logs were read.  The watcher keeps no   *)
(* offsets across restarts and a backfill may run beside it, so a line is  *)
(* inserted once or many times, in any order: file by file, in the order   *)
(* the appends are noticed, and again from the start after every restart.  *)
(* One pricing table is in force.  Rebuild says when lines are read.       *)
(***************************************************************************)
EXTENDS Ledger

CONSTANTS
    PriceOf,   \* what the table computes for a line
    NoPrice    \* it cannot price the line

ASSUME ReplayPrices ==
    /\ NoPrice \notin Nat
    /\ PriceOf \in [Lines -> Costs \cup {NoPrice}]

VARIABLE seen  \* the lines read at least once

ReadLine(l) ==
    /\ \/ PriceOf[l] # NoPrice /\ Insert(l, PriceOf[l])
       \/ PriceOf[l] = NoPrice /\ InsertUnpriced(l)
    /\ seen' = seen \cup {l}

ReplayInit ==
    /\ events = [l \in Lines |-> NoRow]
    /\ rollups = [k \in Keys |-> ZeroRollup]
    /\ seen = {}

-----------------------------------------------------------------------------

SameResponse(l, u) == l = u \/ (RespOf[l] = RespOf[u] /\ RespOf[l] # NoResp)

\* The lines of S that no other line of their response outgrows.
Largest(S) == {l \in S : \A u \in S : SameResponse(l, u) => OutputOf[u] <= OutputOf[l]}

RowFor(l) == IF PriceOf[l] = NoPrice THEN NewRow(l, 0, FALSE) ELSE NewRow(l, PriceOf[l], TRUE)

\* S has exactly one line for every response in T.
OneForEach(S, T) ==
    /\ \A l \in T : \E u \in S : SameResponse(l, u)
    /\ \A l, u \in S : SameResponse(l, u) => l = u

\* The events table has exactly one row for each response read, for a line of
\* it that no line read outgrows, at that line's own price.  Neither the order
\* of the reads nor a repeated read shows in it (db.go 493-497), except in
\* which of several equally long lines it is.
StoreIsLargest ==
    /\ Stored \subseteq Largest(seen)
    /\ OneForEach(Stored, seen)
    /\ \A l \in Stored : events[l] = RowFor(l)

PriceColumn == [l \in Lines |-> RowFor(l).cost]

\* So the rollups, which are all that budgets are evaluated on, are the totals
\* of one line of every response read, each under its own key and at its own
\* price: nothing of the partial lines, of the reads of other programs or of
\* the tables before a wipe is left in them (db.go 16-20, 493-524).
RollupsTellTheReads ==
    \E S \in SUBSET Largest(seen) :
        /\ OneForEach(S, seen)
        /\ \A k \in Keys :
             /\ rollups[k].tokens = Sum(S \cap LinesOf(k), OutputOf)
             /\ rollups[k].cost = Sum(S \cap LinesOf(k), PriceColumn)
             /\ rollups[k].unpriced = Cardinality({l \in S \cap LinesOf(k) : PriceOf[l] = NoPrice})
=============================================================================
