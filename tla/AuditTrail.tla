----------------------------- MODULE AuditTrail -----------------------------
(***************************************************************************)
(* What Guard Mode promises of its audit events, and nothing of how they   *)
(* travel: an event that was accepted waits on this machine until the      *)
(* team's server has it, the server is told of nothing that did not wait,  *)
(* and what it was told it keeps.                                          *)
(***************************************************************************)

CONSTANT Events

VARIABLES
    waiting,   \* the events queued on this machine
    reported   \* the events the server has

auditTrailVars == <<waiting, reported>>

\* An event that happens again, in a later run, may wait again.
Accept(e) ==
    /\ waiting' = waiting \cup {e}
    /\ UNCHANGED reported

Report ==
    /\ \E S \in SUBSET waiting : reported' = reported \cup S
    /\ UNCHANGED waiting

Settle ==
    /\ \E S \in SUBSET (waiting \cap reported) : waiting' = waiting \ S
    /\ UNCHANGED reported

AuditTrailInit == waiting = {} /\ reported = {}

AuditTrailNext == (\E e \in Events : Accept(e)) \/ Report \/ Settle

AuditTrailSpec == AuditTrailInit /\ [][AuditTrailNext]_auditTrailVars
=============================================================================
