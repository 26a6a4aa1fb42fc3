------------------------------- MODULE Units --------------------------------
(***************************************************************************)
(* Sums of natural weights over a finite set, as the ledger's rollup       *)
(* columns add them up.  A sum is the number of units of the weighted set: *)
(* an element of weight n has n units.  Counting units, and not folding,   *)
(* makes the laws of addition facts about finite sets, which the proofs in *)
(* LedgerProofs take from there.                                           *)
(***************************************************************************)
EXTENDS Naturals, FiniteSets

UnitsOf(S, w) == UNION {{x} \X (1..w[x]) : x \in S}

Sum(S, w) == Cardinality(UnitsOf(S, w))
=============================================================================
