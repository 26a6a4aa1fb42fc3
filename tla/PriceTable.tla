----------------------------- MODULE PriceTable -----------------------------
(***************************************************************************)
(* What price refreshing promises the rest of the program, and nothing of  *)
(* how it is done: the table a process prices with is at all times one     *)
(* published release, whole, and while the process runs the data date of   *)
(* that table never goes back.                                             *)
(***************************************************************************)
EXTENDS Integers

CONSTANTS
    Procs,    \* processes
    Newest,   \* bound: releases are 1..Newest, in the order they are published
    BuiltIn,  \* the release compiled into the binary
    Day,      \* the data date of a release
    NoTable   \* the process does not run

VARIABLES
    published,  \* releases published so far
    inForce     \* the release each process prices with

priceTableVars == <<published, inForce>>

PublishRelease ==
    /\ published < Newest
    /\ published' = published + 1
    /\ UNCHANGED inForce

StartProcess(p) ==
    /\ inForce[p] = NoTable
    /\ inForce' = [inForce EXCEPT ![p] = BuiltIn]
    /\ UNCHANGED published

MoveForward(p) ==
    /\ inForce[p] # NoTable
    /\ \E r \in 1..published :
        /\ Day[r] >= Day[inForce[p]]
        /\ inForce' = [inForce EXCEPT ![p] = r]
    /\ UNCHANGED published

StopProcess(p) ==
    /\ inForce[p] # NoTable
    /\ inForce' = [inForce EXCEPT ![p] = NoTable]
    /\ UNCHANGED published

PriceTableInit ==
    /\ published = BuiltIn
    /\ inForce = [p \in Procs |-> NoTable]

PriceTableNext ==
    \/ PublishRelease
    \/ \E p \in Procs : StartProcess(p) \/ MoveForward(p) \/ StopProcess(p)

PriceTableSpec == PriceTableInit /\ [][PriceTableNext]_priceTableVars
=============================================================================
