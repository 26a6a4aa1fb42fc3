---------------------------- MODULE MCSyncWindow ----------------------------
(* Two UTC days, with events at their first and last hour; local days, a   *)
(* week that begins with day 2 and a month that begins with day 1.  The    *)
(* first two responses share a key.                                        *)
EXTENDS SyncWindow, TLC

CONSTANTS r1, r2, r3, b1, b2, s1, s2, daily, weekly, monthly

MCBranchOf == [r \in Responses |-> IF r = r3 THEN b2 ELSE b1]
MCSymmetry == Permutations({s1, s2})
MCHours == {0, 23}
MCOffsets == {-8, 0, 7}
MCLocalDays == -1..3

From(begin, length, d) == IF d < begin THEN begin - length ELSE begin
MCFirstDay ==
    daily :> [d \in MCLocalDays |-> d]
    @@ weekly :> [d \in MCLocalDays |-> From(2, 7, d)]
    @@ monthly :> [d \in MCLocalDays |-> From(1, 30, d)]
MCNextDay ==
    daily :> [d \in MCLocalDays |-> d + 1]
    @@ weekly :> [d \in MCLocalDays |-> From(2, 7, d) + 7]
    @@ monthly :> [d \in MCLocalDays |-> From(1, 30, d) + 30]
=============================================================================
