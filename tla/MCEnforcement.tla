--------------------------- MODULE MCEnforcement ----------------------------
(* Enforcement over two scopes, the second in a directory below the first's, *)
(* with periods of one day and of two.  Calls fail for the first scope; for *)
(* the second only the lock check does.                                     *)
EXTENDS Enforcement, TLC

CONSTANTS s1, s2, d1, d2, f1, f2, g1

MCDirOf == s1 :> d1 @@ s2 :> d2
MCUnder == d1 :> {d1, d2} @@ d2 :> {d2}
MCFileOf == s1 :> f1 @@ s2 :> f2

LocalRule(s, days, cap, action) ==
    [on |-> {s}, days |-> days, cap |-> cap, action |-> action, id |-> NoPolicy]

\* A warning, then the lock of the longer period, which the daily lock shortens
\* when one line has breached both.
MCMatch ==
    s1 :> <<LocalRule(s1, 1, 0, "warn"), LocalRule(s1, 2, 1, "kill"), LocalRule(s1, 1, 0, "kill")>>
    @@ s2 :> <<LocalRule(s2, 1, 1, "kill")>>

\* The team's cap on the second scope outlasts the local one.
MCPolicies == <<[on |-> {s2}, days |-> 2, cap |-> 1, action |-> "kill", id |-> g1]>>

MCMayFail == s1 :> {"insert", "lock", "query", "kill", "queue"} @@ s2 :> {"check"}
=============================================================================
