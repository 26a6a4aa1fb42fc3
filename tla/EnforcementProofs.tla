-------------------------- MODULE EnforcementProofs --------------------------
(***************************************************************************)
(* Proofs about Enforcement, for every set of scopes, rules and policies,  *)
(* every bound, and every choice of the calls that fail.                   *)
(*                                                                         *)
(* LockHasCause is not inductive: the lock is written steps after the cap  *)
(* was compared.  The invariant adds that every entry still to be worked   *)
(* off is over its cap for the day it was evaluated at; it stays so        *)
(* because stored lines are never taken back and logs only grow.           *)
(*                                                                         *)
(* StopHasCause needs the same of a kill that has been decided (KillIsDue):  *)
(* the lock it was decided on may be gone when the signal is sent; and so  *)
(* does AuditHasCause of a lock, which `unlock` reports on.                *)
(*                                                                         *)
(* ActiveLockKept needs that past the check of its scope the handler meets *)
(* no lock but one that was written for the same line (OwnLocksOnly).      *)
(***************************************************************************)
EXTENDS Enforcement, FiniteSetTheorems, TLAPS

\* The rules and days whose cap the stored lines exceed.
OverCaps == {x \in Rule \X Days : Breached(x[1], x[2])}

\* Logs and stored lines are only added to.
Grow ==
    \A s \in Scopes :
        /\ stored[s] \subseteq stored'[s]
        /\ DOMAIN lines[s] \subseteq DOMAIN lines'[s]
        /\ \A n \in DOMAIN lines[s] : lines'[s][n] = lines[s][n]

\* The entries left to the handler are over their caps.
TodoIsOver ==
    \A i \in handler.todo :
        /\ handler.scope \in HandlerRules[i].on
        /\ <<HandlerRules[i], handler.day>> \in OverCaps

LocksAreOver ==
    \A f \in Files : locks[f] # NoLock =>
        \E s \in Scopes, day \in Days : \E r \in RulesOn(s) :
            /\ FileOf[s] = f
            /\ r.id = locks[f].id /\ PeriodEnd(r, day) = locks[f].end
            /\ <<r, day>> \in OverCaps

EnforcementInv == EnforcementTypeOK /\ TodoIsOver /\ LocksAreOver

-----------------------------------------------------------------------------
(* Types.                                                                  *)

\* PeriodEnd is an integer: the end of a period is a day.
LEMMA PeriodEndType ==
    ASSUME NEW r \in Rule, NEW day \in Int
    PROVE  PeriodEnd(r, day) \in Int
<1>1. r.days \in Nat \ {0}
  BY DEF Rule
<1>2. (day - 1) \div r.days \in Int
  BY <1>1
<1>3. ((day - 1) \div r.days) * r.days \in Int
  BY <1>1, <1>2
<1> QED  BY <1>1, <1>3 DEF PeriodEnd, PeriodStart

\* The entries of the list being worked off are rules.
LEMMA HandlerRuleType ==
    ASSUME EnforcementTypeOK, NEW i \in handler.todo
    PROVE  /\ handler.scope \in Scopes
           /\ i \in Nat
           /\ HandlerRules[i] \in Rule
           /\ handler.team => HandlerRules[i] = Policies[i] /\ i \in DOMAIN Policies
           /\ ~handler.team => /\ HandlerRules[i] = Match[handler.scope][i]
                               /\ i \in DOMAIN Match[handler.scope]
<1>0. handler # Idle
  BY DEF Idle
<1>1. handler.scope \in Scopes
  BY <1>0 DEF EnforcementTypeOK
<1>2. i \in DOMAIN HandlerRules /\ i \in Nat
  BY <1>0 DEF EnforcementTypeOK
<1>3. Policies \in Seq(Rule) /\ Match[handler.scope] \in Seq(Rule)
  BY <1>1, EnforcementRules
<1>4. CASE handler.team
  BY <1>1, <1>2, <1>3, <1>4 DEF HandlerRules
<1>5. CASE ~handler.team
  BY <1>1, <1>2, <1>3, <1>5 DEF HandlerRules
<1> QED BY <1>4, <1>5

\* The environment keeps the types: sessions, users, the clock, crashes.
LEMMA EnvType ==
    ASSUME EnforcementTypeOK,
           \/ \E s \in Scopes : WriteLine(s) \/ Unlock(s)
           \/ \E d \in Dirs : Launch(d)
           \/ Midnight \/ Crash \/ StartWatch
    PROVE  EnforcementTypeOK'
<1> USE EnforcementSets DEF enforcementVars, env, durable, memory
<1>1. ASSUME NEW s \in Scopes, WriteLine(s) PROVE EnforcementTypeOK'
  BY <1>1 DEF WriteLine, EnforcementTypeOK, HandlerRules
<1>2. ASSUME NEW s \in Scopes, Unlock(s) PROVE EnforcementTypeOK'
  <2>1. locks' \in [Files -> Lock \cup {NoLock}]
    BY <1>2 DEF Unlock, EnforcementTypeOK
  <2>2. queued' \subseteq Key
    BY <1>2, NoLockIsNoLock DEF Unlock, EnforcementTypeOK, Key, Lock, Days
  <2> QED BY <1>2, <2>1, <2>2 DEF Unlock, EnforcementTypeOK, HandlerRules
<1>3. ASSUME NEW d \in Dirs, Launch(d) PROVE EnforcementTypeOK'
  BY <1>3 DEF Launch, EnforcementTypeOK, HandlerRules
<1>4. CASE Midnight
  BY <1>4 DEF Midnight, EnforcementTypeOK, HandlerRules, Days
<1>5. CASE Crash
  <2>1. handler' = Idle /\ offset' = [s \in Scopes |-> 0]
    BY <1>5 DEF Crash
  <2>2. Idle \in [at : HandlerSteps, scope : Scopes \cup {NoScope}, day : Days,
                   team : BOOLEAN, todo : SUBSET Nat, wrote : BOOLEAN] /\ Idle.at = "idle"
    BY DEF Idle, HandlerSteps, Days
  <2>3. crashes' \in 0..MaxCrashes
    BY <1>5 DEF Crash, EnforcementTypeOK
  <2>4. /\ offset' \in [Scopes -> Nat]
        /\ \A s \in Scopes : offset'[s] <= Len(lines'[s])
    BY <1>5, <2>1 DEF Crash, EnforcementTypeOK
  <2>5. fired' \subseteq Key /\ up' \in BOOLEAN
    BY <1>5 DEF Crash
  <2>6. UNCHANGED <<now, running, lines, stored, locks, queued>>
    BY <1>5 DEF Crash
  <2> QED BY <2>1, <2>2, <2>3, <2>4, <2>5, <2>6 DEF EnforcementTypeOK
<1>6. CASE StartWatch
  BY <1>6 DEF StartWatch, Prune, EnforcementTypeOK, HandlerRules
<1> QED BY <1>1, <1>2, <1>3, <1>4, <1>5, <1>6

\* Reading a line and every step of handling it keep the types.
LEMMA ReadType ==
    ASSUME EnforcementTypeOK, NEW s \in Scopes, ReadLine(s)
    PROVE  EnforcementTypeOK'
<1> USE EnforcementSets DEF env
<1>1. /\ offset' = [offset EXCEPT ![s] = @ + 1]
      /\ offset[s] < Len(lines[s]) /\ offset[s] \in Nat
      /\ lines[s] \in Seq(Days)
      /\ UNCHANGED <<now, running, lines, crashes, locks, queued, up, fired>>
  BY DEF ReadLine, EnforcementTypeOK
<1>2. offset' \in [Scopes -> Nat] /\ \A t \in Scopes : offset'[t] <= Len(lines'[t])
  BY <1>1 DEF EnforcementTypeOK
<1>3. offset[s] + 1 \in DOMAIN lines[s] /\ lines[s][offset[s] + 1] \in Days
  BY <1>1
<1>4. CASE UNCHANGED <<stored, handler>>
  BY <1>1, <1>2, <1>4 DEF EnforcementTypeOK, HandlerRules
<1>5. CASE /\ stored' = [stored EXCEPT ![s] = @ \cup {offset[s] + 1}]
           /\ handler' = [Idle EXCEPT !.at = "check", !.scope = s,
                                      !.day = lines[s][offset[s] + 1]]
  <2>1. /\ stored' \in [Scopes -> SUBSET Nat]
        /\ \A t \in Scopes : stored'[t] \subseteq DOMAIN lines'[t]
    BY <1>1, <1>3, <1>5 DEF EnforcementTypeOK
  <2>2. /\ handler' \in [at : HandlerSteps, scope : Scopes \cup {NoScope}, day : Days,
                          team : BOOLEAN, todo : SUBSET Nat, wrote : BOOLEAN]
        /\ handler'.at = "check" /\ handler'.scope = s /\ handler'.todo = {} /\ ~handler'.team
    BY <1>3, <1>5 DEF Idle, HandlerSteps
  <2> QED BY <1>1, <1>2, <2>1, <2>2 DEF EnforcementTypeOK
<1> QED BY <1>4, <1>5 DEF ReadLine

\* What a step of the handler may do to its own state.
HandlerMoves ==
    \/ handler' = Idle
    \/ /\ handler' \in [at : HandlerSteps, scope : Scopes \cup {NoScope}, day : Days,
                         team : BOOLEAN, todo : SUBSET Nat, wrote : BOOLEAN]
       /\ handler'.at # "idle" /\ handler'.scope \in Scopes
       /\ handler'.todo \subseteq DOMAIN HandlerRules'
       /\ handler'.team => handler'.at \in {"act", "kill", "report"}

LEMMA IdleType ==
    Idle \in [at : HandlerSteps, scope : Scopes \cup {NoScope}, day : Days,
              team : BOOLEAN, todo : SUBSET Nat, wrote : BOOLEAN]
BY EnforcementSets DEF Idle, HandlerSteps, Days

LEMMA GotoMoves ==
    ASSUME EnforcementTypeOK, handler.at # "idle",
           NEW step \in HandlerSteps \ {"idle"}, Goto(step),
           handler.team => step \in {"act", "kill", "report"}
    PROVE  HandlerMoves
BY DEF Goto, HandlerMoves, EnforcementTypeOK, HandlerRules, Idle

LEMMA HandlerTypes ==
    ASSUME EnforcementTypeOK, HandleStep
    PROVE  HandlerMoves
<1>1. CASE CheckLocked
  <2>1. handler.at = "check" /\ ~handler.team
    BY <1>1 DEF CheckLocked, At, EnforcementTypeOK, Idle
  <2>2. Goto("again") \/ Goto("evaluate")
    BY <1>1 DEF CheckLocked
  <2> QED BY <2>1, <2>2, GotoMoves DEF HandlerSteps
<1>2. CASE KillAgain
  BY <1>2 DEF KillAgain, HandlerMoves
<1>3. CASE Evaluate
  <2>1. handler.at = "evaluate" /\ ~handler.team
    BY <1>3 DEF Evaluate, At, EnforcementTypeOK, Idle
  <2>2. handler.scope \in Scopes /\ handler # Idle
    BY <2>1 DEF EnforcementTypeOK, Idle
  <2>3. CASE handler' = Idle
    BY <2>3 DEF HandlerMoves
  <2>4. CASE handler' = [handler EXCEPT !.at = "act",
                !.todo = {i \in DOMAIN Match[handler.scope] :
                            Breached(Match[handler.scope][i], handler.day)}]
    <3>1. DOMAIN Match[handler.scope] \subseteq Nat
      BY <2>2, EnforcementRules
    <3>2. handler'.todo \subseteq Nat
      BY <2>4, <3>1 DEF EnforcementTypeOK
    <3>3. /\ handler'.at = "act" /\ handler'.scope = handler.scope
          /\ handler'.team = handler.team
          /\ handler'.todo \subseteq DOMAIN Match[handler.scope]
          /\ handler' \in [at : HandlerSteps, scope : Scopes \cup {NoScope}, day : Days,
                           team : BOOLEAN, todo : SUBSET Nat, wrote : BOOLEAN]
      BY <2>4, <3>2 DEF EnforcementTypeOK, HandlerSteps
    <3>4. HandlerRules' = Match[handler.scope]
      BY <2>1, <3>3 DEF HandlerRules
    <3> QED BY <2>1, <2>2, <3>3, <3>4 DEF HandlerMoves
  <2> QED BY <1>3, <2>3, <2>4 DEF Evaluate
<1>4. CASE EvaluateGuard
  <2>1. handler.at = "guard" /\ handler # Idle /\ handler.scope \in Scopes
    BY <1>4 DEF EvaluateGuard, At, EnforcementTypeOK, Idle
  <2>2. PICK S \in SUBSET DOMAIN Policies :
            handler' = [handler EXCEPT !.at = "act", !.day = now, !.team = TRUE, !.todo = S]
    BY <1>4 DEF EvaluateGuard
  <2>3. S \subseteq Nat
    BY EnforcementRules
  <2>4. now \in Days
    BY DEF EnforcementTypeOK
  <2> QED
    BY <2>1, <2>2, <2>3, <2>4 DEF HandlerMoves, EnforcementTypeOK, HandlerRules, HandlerSteps
<1>5. CASE NoMore
  <2>1. handler.at = "act" /\ handler.todo = {} /\ handler # Idle
    BY <1>5 DEF NoMore, At, Idle
  <2>2. CASE handler.team
    BY <1>5, <2>2 DEF NoMore, HandlerMoves
  <2>3. CASE ~handler.team
    <3>1. Goto("guard")
      BY <1>5, <2>3 DEF NoMore, Goto
    <3> QED BY <2>1, <2>3, <3>1, GotoMoves DEF HandlerSteps
  <2> QED BY <2>2, <2>3
<1>6. CASE Act
  <2>1. handler.at = "act" /\ handler # Idle
    BY <1>6 DEF Act, At, Idle
  <2>2. CASE Goto("report")
    BY <2>1, <2>2, GotoMoves DEF HandlerSteps
  <2>3. CASE handler' = [handler EXCEPT !.at = "kill", !.wrote = TRUE]
    BY <2>1, <2>3 DEF HandlerMoves, EnforcementTypeOK, HandlerRules, HandlerSteps
  <2> QED BY <1>6, <2>2, <2>3 DEF Act
<1>7. CASE Kill
  <2>1. handler.at = "kill" /\ Goto("report")
    BY <1>7 DEF Kill, At
  <2> QED BY <2>1, GotoMoves DEF HandlerSteps
<1>8. CASE Report
  <2>1. handler.at = "report" /\ handler # Idle
    BY <1>8 DEF Report, At, Idle
  <2>2. PICK i \in handler.todo :
            handler' = [handler EXCEPT !.at = "act", !.todo = @ \ {i}]
    BY <1>8 DEF Report
  <2> QED BY <2>1, <2>2 DEF HandlerMoves, EnforcementTypeOK, HandlerRules, HandlerSteps
<1> QED
  BY <1>1, <1>2, <1>3, <1>4, <1>5, <1>6, <1>7, <1>8 DEF HandleStep

\* The lock that a kill writes, and the key that a report queues.
LEMMA LockType ==
    ASSUME EnforcementTypeOK, NEW i \in handler.todo
    PROVE  /\ [end |-> PeriodEnd(HandlerRules[i], handler.day), id |-> HandlerRules[i].id]
                \in Lock
           /\ HandlerRules[i].id # NoPolicy => KeyOf(HandlerRules[i], handler.day) \in Key
<1>1. HandlerRules[i] \in Rule
  BY HandlerRuleType
<1>2. handler.day \in Int
  BY DEF EnforcementTypeOK, Days
<1>3. PeriodEnd(HandlerRules[i], handler.day) \in Int
  BY <1>1, <1>2, PeriodEndType
<1> QED BY <1>1, <1>3 DEF Lock, Key, KeyOf, Rule

LEMMA HandleType ==
    ASSUME EnforcementTypeOK, HandleStep
    PROVE  EnforcementTypeOK'
<1> USE DEF env, durable, memory
<1>1. HandlerMoves
  BY HandlerTypes
<1>2. /\ UNCHANGED <<now, lines, crashes, stored, up, offset>>
      /\ running' \subseteq running
  BY DEF HandleStep, CheckLocked, KillAgain, Evaluate, EvaluateGuard, NoMore, Act, Kill,
         Report, KillSessions
<1>3. locks' \in [Files -> Lock \cup {NoLock}]
  <2>1. CASE CheckLocked
    BY <2>1 DEF CheckLocked, EnforcementTypeOK
  <2>2. CASE Act
    <3>1. PICK i \in handler.todo :
            \/ UNCHANGED locks
            \/ locks' = [locks EXCEPT ![FileOf[handler.scope]] =
                           [end |-> PeriodEnd(HandlerRules[i], handler.day),
                            id |-> HandlerRules[i].id]]
      BY <2>2 DEF Act
    <3> QED BY <3>1, LockType DEF EnforcementTypeOK
  <2>3. CASE UNCHANGED locks
    BY <2>3 DEF EnforcementTypeOK
  <2> QED
    BY <2>1, <2>2, <2>3
       DEF HandleStep, KillAgain, Evaluate, EvaluateGuard, NoMore, Kill, Report
<1>4. queued' \subseteq Key /\ fired' \subseteq Key
  <2>1. CASE Report
    <3>1. PICK i \in handler.todo :
            \/ UNCHANGED <<fired, queued>>
            \/ /\ HandlerRules[i].id # NoPolicy
               /\ fired' = fired \cup {KeyOf(HandlerRules[i], handler.day)}
               /\ \/ queued' = queued \cup {KeyOf(HandlerRules[i], handler.day)}
                  \/ UNCHANGED queued
      BY <2>1 DEF Report
    <3> QED BY <3>1, LockType DEF EnforcementTypeOK
  <2>2. CASE UNCHANGED <<queued, fired>>
    BY <2>2 DEF EnforcementTypeOK
  <2> QED
    BY <2>1, <2>2
       DEF HandleStep, CheckLocked, KillAgain, Evaluate, EvaluateGuard, NoMore, Act, Kill
<1>5. /\ running' \subseteq Dirs
      /\ now' \in Days /\ lines' \in [Scopes -> Seq(Days)] /\ crashes' \in 0..MaxCrashes
      /\ stored' \in [Scopes -> SUBSET Nat]
      /\ \A s \in Scopes : stored'[s] \subseteq DOMAIN lines'[s]
      /\ up' \in BOOLEAN /\ offset' \in [Scopes -> Nat]
      /\ \A s \in Scopes : offset'[s] <= Len(lines'[s])
  BY <1>2 DEF EnforcementTypeOK
<1>6. CASE handler' = Idle
  <2>1. handler'.scope = NoScope /\ handler'.at = "idle"
    BY <1>6 DEF Idle
  <2> QED BY <1>3, <1>4, <1>5, <1>6, <2>1, IdleType DEF EnforcementTypeOK
<1>7. CASE handler' # Idle
  <2>1. handler'.scope # NoScope
    BY <1>1, <1>7, EnforcementSets DEF HandlerMoves
  <2> QED BY <1>1, <1>3, <1>4, <1>5, <1>7, <2>1 DEF EnforcementTypeOK, HandlerMoves
<1> QED BY <1>6, <1>7

LEMMA TypeStep ==
    ASSUME EnforcementTypeOK, [EnforcementNext]_enforcementVars
    PROVE  EnforcementTypeOK'
<1>1. CASE UNCHANGED enforcementVars
  BY <1>1 DEF enforcementVars, env, durable, memory, EnforcementTypeOK, HandlerRules
<1>2. CASE EnforcementNext
  BY <1>2, EnvType, ReadType, HandleType DEF EnforcementNext
<1> QED BY <1>1, <1>2

-----------------------------------------------------------------------------
(* What was over its cap stays over it.                                    *)

LEMMA AlwaysGrow ==
    ASSUME EnforcementTypeOK, [EnforcementNext]_enforcementVars
    PROVE  Grow
<1> USE DEF enforcementVars, env, durable, memory
<1>1. CASE UNCHANGED <<lines, stored>>
  BY <1>1 DEF Grow
<1>2. ASSUME NEW s \in Scopes, WriteLine(s) PROVE Grow
  <2>1. lines[s] \in Seq(Days) /\ now \in Days
    BY DEF EnforcementTypeOK
  <2>2. /\ DOMAIN lines[s] \subseteq DOMAIN Append(lines[s], now)
        /\ \A n \in DOMAIN lines[s] : Append(lines[s], now)[n] = lines[s][n]
    BY <2>1
  <2>3. lines' = [lines EXCEPT ![s] = Append(lines[s], now)] /\ UNCHANGED stored
    BY <1>2 DEF WriteLine
  <2> QED BY <2>2, <2>3 DEF Grow, EnforcementTypeOK
<1>3. ASSUME NEW s \in Scopes, ReadLine(s) PROVE Grow
  BY <1>3 DEF ReadLine, Grow, EnforcementTypeOK
<1>4. CASE HandleStep
  BY <1>1, <1>4 DEF HandleStep, CheckLocked, KillAgain, Evaluate, EvaluateGuard, NoMore,
                    Act, Kill, Report
<1>5. CASE \/ \E s \in Scopes : Unlock(s)
           \/ \E d \in Dirs : Launch(d)
           \/ Midnight \/ Crash \/ StartWatch
  BY <1>1, <1>5 DEF Unlock, Launch, Midnight, Crash, StartWatch
<1> QED BY <1>1, <1>2, <1>3, <1>4, <1>5 DEF EnforcementNext

LEMMA OverCapsGrow ==
    ASSUME EnforcementTypeOK, EnforcementTypeOK', Grow
    PROVE  OverCaps \subseteq OverCaps'
<1> SUFFICES ASSUME NEW r \in Rule, NEW day \in Days, Breached(r, day)
             PROVE  Breached(r, day)'
  BY DEF OverCaps
<1> DEFINE from == PeriodStart(r, day)
           to == PeriodEnd(r, day)
           A == {x \in r.on \X (1..MaxLines) :
                    x[2] \in stored[x[1]] /\ lines[x[1]][x[2]] \in from..to}
           B == {x \in r.on \X (1..MaxLines) :
                    x[2] \in stored'[x[1]] /\ lines'[x[1]][x[2]] \in from..to}
<1>1. r.on \subseteq Scopes /\ r.cap \in Nat
  BY DEF Rule
<1>2. A \subseteq B
  <2> SUFFICES ASSUME NEW x \in A PROVE x \in B
    OBVIOUS
  <2>1. x[1] \in Scopes
    BY <1>1
  <2>2. x[2] \in stored'[x[1]] /\ x[2] \in DOMAIN lines[x[1]]
    BY <2>1 DEF Grow, EnforcementTypeOK
  <2> QED BY <2>1, <2>2 DEF Grow
<1>3. IsFiniteSet(B)
  <2>1. IsFiniteSet(r.on)
    BY <1>1, FS_Subset, EnforcementSets
  <2>2. IsFiniteSet(1..MaxLines)
    BY FS_Interval, EnforcementSets
  <2>3. IsFiniteSet(r.on \X (1..MaxLines))
    BY <2>1, <2>2, FS_Product
  <2> QED BY <2>3, FS_Subset
<1>4. Cardinality(A) <= Cardinality(B) /\ Cardinality(A) \in Nat /\ Cardinality(B) \in Nat
  <2>1. IsFiniteSet(A)
    BY <1>2, <1>3, FS_Subset
  <2>2. Cardinality(A) <= Cardinality(B)
    BY <1>2, <1>3, FS_Subset
  <2> QED BY <1>3, <2>1, <2>2, FS_CardinalityType
<1>5. Cardinality(A) > r.cap
  BY DEF Breached, Spend, SpentLines
<1>6. Cardinality(B) > r.cap
  <2> HIDE DEF A, B
  <2> QED BY <1>1, <1>4, <1>5
<1> QED BY <1>6 DEF Breached, Spend, SpentLines, PeriodStart, PeriodEnd

-----------------------------------------------------------------------------
(* The entries left to the handler, and the locks.                         *)

LEMMA TodoStep ==
    ASSUME EnforcementTypeOK, EnforcementTypeOK', OverCaps \subseteq OverCaps',
           TodoIsOver, [EnforcementNext]_enforcementVars
    PROVE  TodoIsOver'
<1> USE DEF enforcementVars, env, durable, memory
<1>1. CASE handler'.todo = {}
  BY <1>1 DEF TodoIsOver
<1>2. CASE /\ handler'.todo \subseteq handler.todo
           /\ handler'.scope = handler.scope /\ handler'.day = handler.day
           /\ handler'.team = handler.team
  BY <1>2 DEF TodoIsOver, HandlerRules
<1>3. CASE Evaluate
  <2>1. handler.at = "evaluate" /\ ~handler.team
    BY <1>3 DEF Evaluate, At, EnforcementTypeOK, Idle
  <2>2. handler.scope \in Scopes /\ handler.day \in Days
    BY <2>1 DEF EnforcementTypeOK, Idle
  <2>3. CASE handler' = [handler EXCEPT !.at = "act",
                !.todo = {i \in DOMAIN Match[handler.scope] :
                            Breached(Match[handler.scope][i], handler.day)}]
    <3>1. /\ handler'.scope = handler.scope /\ handler'.day = handler.day
          /\ handler'.team = handler.team
      BY <2>3 DEF EnforcementTypeOK
    <3>2. HandlerRules' = Match[handler.scope]
      BY <2>1, <3>1 DEF HandlerRules
    <3> SUFFICES ASSUME NEW i \in handler'.todo
                 PROVE  /\ handler.scope \in Match[handler.scope][i].on
                        /\ <<Match[handler.scope][i], handler.day>> \in OverCaps'
      BY <3>1, <3>2 DEF TodoIsOver
    <3>3. i \in DOMAIN Match[handler.scope] /\ Breached(Match[handler.scope][i], handler.day)
      BY <2>3 DEF EnforcementTypeOK
    <3>4. Match[handler.scope][i] \in Rule /\ handler.scope \in Match[handler.scope][i].on
      BY <2>2, <3>3, EnforcementRules
    <3>5. <<Match[handler.scope][i], handler.day>> \in OverCaps
      BY <2>2, <3>3, <3>4 DEF OverCaps
    <3> QED BY <3>4, <3>5
  <2>4. CASE handler' = Idle
    BY <1>1, <2>4 DEF Idle
  <2> QED BY <1>3, <2>3, <2>4 DEF Evaluate
<1>4. CASE EvaluateGuard
  <2>1. PICK S \in SUBSET DOMAIN Policies :
            /\ \A i \in S : handler.scope \in Policies[i].on /\ Breached(Policies[i], now)
            /\ handler' = [handler EXCEPT !.at = "act", !.day = now,
                                          !.team = TRUE, !.todo = S]
    BY <1>4 DEF EvaluateGuard
  <2>2. /\ handler'.scope = handler.scope /\ handler'.day = now
        /\ handler'.team /\ handler'.todo = S
    BY <2>1 DEF EnforcementTypeOK
  <2>3. HandlerRules' = Policies
    BY <2>2 DEF HandlerRules
  <2>4. \A i \in S : <<Policies[i], now>> \in OverCaps
    BY <2>1, EnforcementRules DEF OverCaps, EnforcementTypeOK
  <2> QED BY <2>1, <2>2, <2>3, <2>4 DEF TodoIsOver
<1>5. CASE Report
  <2>1. PICK i \in handler.todo :
            handler' = [handler EXCEPT !.at = "act", !.todo = @ \ {i}]
    BY <1>5 DEF Report
  <2> QED BY <1>2, <2>1 DEF EnforcementTypeOK
<1>6. CASE CheckLocked \/ KillAgain \/ NoMore \/ Act \/ Kill
  <2>1. \/ handler' = Idle \/ \E step \in HandlerSteps : Goto(step)
        \/ handler' = [handler EXCEPT !.at = "kill", !.wrote = TRUE]
    BY <1>6 DEF CheckLocked, KillAgain, NoMore, Act, Kill, Goto, HandlerSteps
  <2>2. CASE handler' = Idle
    BY <1>1, <2>2 DEF Idle
  <2>3. ASSUME NEW step \in HandlerSteps, Goto(step) PROVE TodoIsOver'
    BY <1>2, <2>3 DEF Goto, EnforcementTypeOK
  <2>4. CASE handler' = [handler EXCEPT !.at = "kill", !.wrote = TRUE]
    BY <1>2, <2>4 DEF EnforcementTypeOK
  <2> QED BY <2>1, <2>2, <2>3, <2>4
<1>7. CASE UNCHANGED handler
  BY <1>2, <1>7
<1>8. ASSUME NEW s \in Scopes, ReadLine(s) PROVE TodoIsOver'
  BY <1>1, <1>7, <1>8 DEF ReadLine, Idle
<1>9. CASE Crash
  BY <1>1, <1>9 DEF Crash, Idle
<1> QED
  BY <1>3, <1>4, <1>5, <1>6, <1>7, <1>8, <1>9
     DEF EnforcementNext, HandleStep, WriteLine, Unlock, Launch, Midnight, StartWatch

\* Only Act writes a lock; any other step keeps a lock or removes it.
LEMMA OthersKeepLocks ==
    ASSUME EnforcementTypeOK, [EnforcementNext]_enforcementVars, ~Act
    PROVE  \A f \in Files : locks'[f] \in {locks[f], NoLock}
<1> USE DEF enforcementVars, env, durable, memory
<1>1. CASE UNCHANGED locks
  BY <1>1
<1>2. ASSUME NEW s \in Scopes, Unlock(s)
      PROVE  \A f \in Files : locks'[f] \in {locks[f], NoLock}
  BY <1>2 DEF Unlock, EnforcementTypeOK
<1>3. CASE StartWatch
  BY <1>3 DEF StartWatch, Prune
<1>4. CASE CheckLocked
  BY <1>4 DEF CheckLocked, EnforcementTypeOK
<1> QED
  BY <1>1, <1>2, <1>3, <1>4
     DEF EnforcementNext, HandleStep, WriteLine, ReadLine, Launch, Midnight, Crash,
         KillAgain, Evaluate, EvaluateGuard, NoMore, Kill, Report

LEMMA LocksStep ==
    ASSUME EnforcementTypeOK, EnforcementTypeOK', OverCaps \subseteq OverCaps',
           TodoIsOver, LocksAreOver, [EnforcementNext]_enforcementVars
    PROVE  LocksAreOver'
<1>1. ASSUME NEW f \in Files, locks'[f] # NoLock, locks'[f] = locks[f]
      PROVE  \E s \in Scopes, day \in Days : \E r \in RulesOn(s) :
                /\ FileOf[s] = f
                /\ r.id = locks'[f].id /\ PeriodEnd(r, day) = locks'[f].end
                /\ <<r, day>> \in OverCaps'
  BY <1>1 DEF LocksAreOver
<1>2. CASE ~Act
  <2>1. \A f \in Files : locks'[f] \in {locks[f], NoLock}
    BY <1>2, OthersKeepLocks
  <2> QED BY <1>1, <2>1 DEF LocksAreOver
<1>3. CASE Act
  <2>1. PICK i \in handler.todo :
          \/ UNCHANGED locks
          \/ /\ HandlerRules[i].action = "kill"
             /\ locks' = [locks EXCEPT ![FileOf[handler.scope]] =
                           [end |-> PeriodEnd(HandlerRules[i], handler.day),
                            id |-> HandlerRules[i].id]]
    BY <1>3 DEF Act
  <2>2. CASE UNCHANGED locks
    BY <1>1, <2>2 DEF LocksAreOver
  <2>3. CASE /\ HandlerRules[i].action = "kill"
             /\ locks' = [locks EXCEPT ![FileOf[handler.scope]] =
                           [end |-> PeriodEnd(HandlerRules[i], handler.day),
                            id |-> HandlerRules[i].id]]
    <3> DEFINE s == handler.scope
               r == HandlerRules[i]
               lock == [end |-> PeriodEnd(r, handler.day), id |-> r.id]
    <3>1. /\ s \in Scopes /\ handler.day \in Days
          /\ s \in r.on /\ <<r, handler.day>> \in OverCaps'
      BY HandlerRuleType DEF TodoIsOver, EnforcementTypeOK
    <3>2. r \in RulesOn(s)
      <4>1. r \in {Match[s][j] : j \in DOMAIN Match[s]} \cup
                  {Policies[j] : j \in DOMAIN Policies}
        BY HandlerRuleType
      <4> QED BY <2>3, <3>1, <4>1 DEF RulesOn
    <3>3. locks' = [locks EXCEPT ![FileOf[s]] = lock] /\ FileOf[s] \in Files
      BY <2>3, <3>1, EnforcementSets
    <3>4. locks'[FileOf[s]] = lock
      BY <3>3 DEF EnforcementTypeOK
    <3>5. \A f \in Files : f # FileOf[s] => locks'[f] = locks[f]
      BY <3>3 DEF EnforcementTypeOK
    <3>6. lock.end = PeriodEnd(r, handler.day) /\ lock.id = r.id
      OBVIOUS
    <3> HIDE DEF s, r, lock
    <3> SUFFICES ASSUME NEW f \in Files, locks'[f] # NoLock
                 PROVE  \E t \in Scopes, day \in Days : \E q \in RulesOn(t) :
                            /\ FileOf[t] = f
                            /\ q.id = locks'[f].id /\ PeriodEnd(q, day) = locks'[f].end
                            /\ <<q, day>> \in OverCaps'
      BY DEF LocksAreOver
    <3>7. CASE f = FileOf[s]
      BY <3>1, <3>2, <3>4, <3>6, <3>7
    <3>8. CASE f # FileOf[s]
      BY <1>1, <3>5, <3>8
    <3> QED BY <3>7, <3>8
  <2> QED BY <2>1, <2>2, <2>3
<1> QED BY <1>2, <1>3

LEMMA InitInv == EnforcementInit => EnforcementInv
<1> SUFFICES ASSUME EnforcementInit PROVE EnforcementInv
  OBVIOUS
<1>1. EnforcementTypeOK
  <2>1. handler = Idle /\ Idle.scope = NoScope /\ Idle.at = "idle"
    BY DEF EnforcementInit, Idle
  <2>2. /\ now \in Days /\ running \subseteq Dirs /\ crashes \in 0..MaxCrashes
        /\ queued \subseteq Key /\ fired \subseteq Key /\ up \in BOOLEAN
        /\ locks \in [Files -> Lock \cup {NoLock}]
    <3>1. 1 \in Days /\ 0 \in 0..MaxCrashes
      BY EnforcementSets DEF Days
    <3> QED BY <3>1 DEF EnforcementInit
  <2>3. /\ lines \in [Scopes -> Seq(Days)] /\ \A s \in Scopes : Len(lines[s]) = 0
        /\ stored \in [Scopes -> SUBSET Nat] /\ \A s \in Scopes : stored[s] = {}
        /\ offset \in [Scopes -> Nat] /\ \A s \in Scopes : offset[s] = 0
    <3>1. <<>> \in Seq(Days) /\ Len(<<>>) = 0
      OBVIOUS
    <3>2. lines \in [Scopes -> Seq(Days)] /\ \A s \in Scopes : Len(lines[s]) = 0
      BY <3>1 DEF EnforcementInit
    <3> QED BY <3>2 DEF EnforcementInit
  <2> QED BY <2>1, <2>2, <2>3, IdleType DEF EnforcementTypeOK
<1>2. TodoIsOver
  BY DEF EnforcementInit, TodoIsOver, Idle
<1>3. LocksAreOver
  BY DEF EnforcementInit, LocksAreOver
<1> QED BY <1>1, <1>2, <1>3 DEF EnforcementInv

LEMMA InvStep == EnforcementInv /\ [EnforcementNext]_enforcementVars => EnforcementInv'
<1> SUFFICES ASSUME EnforcementInv, [EnforcementNext]_enforcementVars
             PROVE  EnforcementInv'
  OBVIOUS
<1>1. EnforcementTypeOK /\ TodoIsOver /\ LocksAreOver
  BY DEF EnforcementInv
<1>2. EnforcementTypeOK'
  BY <1>1, TypeStep
<1>3. OverCaps \subseteq OverCaps'
  BY <1>1, <1>2, AlwaysGrow, OverCapsGrow
<1>4. TodoIsOver'
  BY <1>1, <1>2, <1>3, TodoStep
<1>5. LocksAreOver'
  BY <1>1, <1>2, <1>3, LocksStep
<1> QED BY <1>2, <1>4, <1>5 DEF EnforcementInv

\* The inductive invariant.
THEOREM EnforcementInvariant == EnforcementSpec => []EnforcementInv
BY InitInv, InvStep, PTL DEF EnforcementSpec

\* Every variable keeps its type: a line is stored only if it is in the log,
\* and the entries of the handler are entries of the list it works off.
THEOREM EnforcementTypeCorrect == EnforcementSpec => []EnforcementTypeOK
<1>1. EnforcementInv => EnforcementTypeOK
  BY DEF EnforcementInv
<1> QED BY <1>1, EnforcementInvariant, PTL

\* Every lock on disk has its cause in the events table, whatever crashes,
\* fails, is replayed or arrives late.
THEOREM LocksHaveACause == EnforcementSpec => []LockHasCause
<1>1. EnforcementInv => LockHasCause
  BY DEF EnforcementInv, LocksAreOver, LockHasCause, RulesOn, OverCaps
<1> QED BY <1>1, EnforcementInvariant, PTL

-----------------------------------------------------------------------------
(* Sessions are stopped for a cause.                                       *)

\* From the check of a lock, or the write of one, to the signal, some scope with
\* that lock file has a cap exceeded, although the lock itself may have gone.
KillIsDue ==
    handler.at \in {"again", "kill"} =>
        \E u \in Scopes, day \in Days : \E r \in RulesOn(u) :
            FileOf[u] = FileOf[handler.scope] /\ <<r, day>> \in OverCaps

LEMMA DueStep ==
    ASSUME EnforcementInv, OverCaps \subseteq OverCaps', KillIsDue,
           [EnforcementNext]_enforcementVars
    PROVE  KillIsDue'
<1> USE DEF enforcementVars, env, durable, memory
<1>0. EnforcementTypeOK /\ TodoIsOver /\ LocksAreOver
  BY DEF EnforcementInv
<1>1. CASE handler' = handler
  BY <1>1 DEF KillIsDue
<1>2. CASE handler'.at \notin {"again", "kill"}
  BY <1>2 DEF KillIsDue
<1>3. CASE CheckLocked
  <2>1. handler.at = "check" /\ handler.scope \in Scopes
    BY <1>0, <1>3 DEF CheckLocked, At, EnforcementTypeOK, Idle
  <2>2. CASE Goto("evaluate")
    BY <1>0, <1>2, <2>2 DEF Goto, EnforcementTypeOK
  <2>3. CASE ActiveLock(FileOf[handler.scope]) /\ Goto("again")
    <3>1. FileOf[handler.scope] \in Files /\ locks[FileOf[handler.scope]] # NoLock
      BY <2>1, <2>3, EnforcementSets DEF ActiveLock
    <3>2. \E u \in Scopes, day \in Days : \E r \in RulesOn(u) :
             FileOf[u] = FileOf[handler.scope] /\ <<r, day>> \in OverCaps
      BY <1>0, <3>1 DEF LocksAreOver
    <3>3. handler'.scope = handler.scope
      BY <1>0, <2>3 DEF Goto, EnforcementTypeOK
    <3> QED BY <3>2, <3>3 DEF KillIsDue
  <2> QED BY <1>3, <2>2, <2>3 DEF CheckLocked
<1>4. CASE Act
  <2>1. CASE Goto("report")
    BY <1>0, <1>2, <2>1 DEF Goto, EnforcementTypeOK
  <2>2. ASSUME NEW i \in handler.todo, HandlerRules[i].action = "kill",
               handler' = [handler EXCEPT !.at = "kill", !.wrote = TRUE]
        PROVE  KillIsDue'
    <3>1. /\ handler.scope \in Scopes /\ handler.day \in Days
          /\ HandlerRules[i] \in {Match[handler.scope][j] : j \in DOMAIN Match[handler.scope]}
                                \cup {Policies[j] : j \in DOMAIN Policies}
      BY <1>0, HandlerRuleType DEF EnforcementTypeOK
    <3>2. HandlerRules[i] \in RulesOn(handler.scope)
      BY <1>0, <2>2, <3>1 DEF RulesOn, TodoIsOver
    <3>3. <<HandlerRules[i], handler.day>> \in OverCaps'
      BY <1>0 DEF TodoIsOver
    <3>4. handler'.scope = handler.scope
      BY <1>0, <2>2 DEF EnforcementTypeOK
    <3> QED BY <3>1, <3>2, <3>3, <3>4 DEF KillIsDue
  <2> QED BY <1>4, <2>1, <2>2 DEF Act
<1>5. CASE KillAgain \/ Evaluate \/ EvaluateGuard \/ NoMore \/ Kill \/ Report
  <2>1. handler \in [at : HandlerSteps, scope : Scopes \cup {NoScope}, day : Days,
                     team : BOOLEAN, todo : SUBSET Nat, wrote : BOOLEAN]
    BY <1>0 DEF EnforcementTypeOK
  <2>2. CASE handler' = Idle
    BY <1>2, <2>2 DEF Idle
  <2>3. ASSUME NEW step \in {"guard", "report"}, handler' = [handler EXCEPT !.at = step]
        PROVE  KillIsDue'
    BY <1>2, <2>1, <2>3
  <2>4. ASSUME NEW todo, handler' = [handler EXCEPT !.at = "act", !.todo = todo]
        PROVE  KillIsDue'
    BY <1>2, <2>1, <2>4
  <2>5. ASSUME NEW todo, handler' = [handler EXCEPT !.at = "act", !.day = now,
                                                    !.team = TRUE, !.todo = todo]
        PROVE  KillIsDue'
    BY <1>2, <2>1, <2>5
  <2>6. CASE KillAgain \/ NoMore \/ Kill
    BY <2>2, <2>3, <2>6 DEF KillAgain, NoMore, Kill, Goto
  <2>7. CASE Evaluate \/ Report
    BY <2>2, <2>4, <2>7 DEF Evaluate, Report
  <2>8. CASE EvaluateGuard
    BY <2>5, <2>8 DEF EvaluateGuard
  <2> QED BY <1>5, <2>6, <2>7, <2>8
<1>6. ASSUME NEW s \in Scopes, ReadLine(s) PROVE KillIsDue'
  BY <1>1, <1>2, <1>6 DEF ReadLine, Idle
<1>7. CASE Crash
  BY <1>2, <1>7 DEF Crash, Idle
<1> QED
  BY <1>1, <1>3, <1>4, <1>5, <1>6, <1>7
     DEF EnforcementNext, HandleStep, WriteLine, Unlock, Launch, Midnight, StartWatch

\* Only the two kills stop a session.
LEMMA KillsAreDue ==
    ASSUME EnforcementInv, KillIsDue, [EnforcementNext]_enforcementVars
    PROVE  StopStep
<1> USE DEF enforcementVars, env, durable, memory
<1> SUFFICES ASSUME NEW d \in running, d \notin running'
             PROVE  \E s, u \in Scopes : d \in Under[DirOf[s]] /\ FileOf[u] = FileOf[s] /\
                       \E day \in Days : \E r \in RulesOn(u) : Breached(r, day)
  BY DEF StopStep
<1>1. handler.at \in {"again", "kill"} /\ KillSessions
  BY DEF EnforcementNext, HandleStep, WriteLine, Unlock, ReadLine, Launch, Midnight, Crash,
         StartWatch, CheckLocked, KillAgain, Evaluate, EvaluateGuard, NoMore, Act, Kill, Report,
         At
<1>2. handler.scope \in Scopes
  BY <1>1 DEF EnforcementInv, EnforcementTypeOK, Idle
<1>3. d \in Under[DirOf[handler.scope]]
  BY <1>1 DEF KillSessions
<1> QED BY <1>1, <1>2, <1>3 DEF KillIsDue, OverCaps

\* A session dies only where a cap is exceeded, whatever is unlocked, expires,
\* crashes or is replayed between the decision and the signal.
THEOREM SessionsStopForACause == EnforcementSpec => StopHasCause
<1>1. EnforcementInit => EnforcementInv /\ KillIsDue
  BY InitInv DEF EnforcementInit, KillIsDue, Idle
<1>2. EnforcementInv /\ KillIsDue /\ [EnforcementNext]_enforcementVars
        => EnforcementInv' /\ KillIsDue'
  <2> SUFFICES ASSUME EnforcementInv, KillIsDue, [EnforcementNext]_enforcementVars
               PROVE  EnforcementInv' /\ KillIsDue'
    OBVIOUS
  <2>1. EnforcementInv'
    BY InvStep
  <2>2. OverCaps \subseteq OverCaps'
    BY <2>1, AlwaysGrow, OverCapsGrow DEF EnforcementInv
  <2> QED BY <2>1, <2>2, DueStep
<1>3. EnforcementInv /\ KillIsDue /\ [EnforcementNext]_enforcementVars
        => [StopStep]_enforcementVars
  BY KillsAreDue
<1> QED BY <1>1, <1>2, <1>3, PTL DEF EnforcementSpec, StopHasCause

-----------------------------------------------------------------------------
(* What the team is told.                                                  *)

\* The audit key is one that a breach of the policy in that period gives.
Tells(k, i, day) ==
    /\ i \in DOMAIN Policies /\ day \in Days
    /\ Policies[i].id = k.id
    /\ \/ k = KeyOf(Policies[i], day)
       \/ k.action = "override" /\ Policies[i].action = "kill"

AuditIsOver ==
    \A k \in queued : \E i, day : Tells(k, i, day) /\ <<Policies[i], day>> \in OverCaps

\* Only a report and `unlock` write to the audit queue.
LEMMA AuditStep ==
    ASSUME EnforcementInv, OverCaps \subseteq OverCaps', AuditIsOver,
           [EnforcementNext]_enforcementVars
    PROVE  AuditIsOver'
<1> USE DEF enforcementVars, env, durable, memory
<1>0. EnforcementTypeOK /\ TodoIsOver /\ LocksAreOver
  BY DEF EnforcementInv
<1>1. CASE queued' = queued
  BY <1>1 DEF AuditIsOver
<1>2. ASSUME NEW k, queued' = queued \cup {k},
             \E i, day : Tells(k, i, day) /\ <<Policies[i], day>> \in OverCaps
      PROVE  AuditIsOver'
  BY <1>2 DEF AuditIsOver
<1>3. ASSUME NEW s \in Scopes, Unlock(s) PROVE AuditIsOver'
  <2> DEFINE f == FileOf[s]
             k == [id |-> locks[f].id, end |-> now, action |-> "override"]
  <2>1. f \in Files /\ locks[f] # NoLock
    BY <1>3, EnforcementSets DEF Unlock
  <2>2. CASE locks[f].id # NoPolicy /\ queued' = queued \cup {k}
    <3>0. PICK u \in Scopes, day \in Days :
            \E r \in RulesOn(u) : r.id = locks[f].id /\ <<r, day>> \in OverCaps
      BY <1>0, <2>1 DEF LocksAreOver
    <3>1. PICK r \in RulesOn(u) : r.id = locks[f].id /\ <<r, day>> \in OverCaps
      BY <3>0
    <3>2. r \notin {Match[u][i] : i \in DOMAIN Match[u]}
      BY <2>2, <3>1, EnforcementRules
    <3>3. PICK i \in DOMAIN Policies : r = Policies[i] /\ r.action = "kill"
      BY <3>2 DEF RulesOn
    <3>4. k.id = locks[f].id /\ k.action = "override"
      OBVIOUS
    <3> HIDE DEF k, f
    <3> QED BY <1>2, <2>2, <3>0, <3>1, <3>3, <3>4 DEF Tells
  <2> QED BY <1>1, <1>3, <2>2 DEF Unlock
<1>4. CASE Report
  <2>1. PICK i \in handler.todo :
          \/ queued' = queued
          \/ /\ HandlerRules[i].id # NoPolicy
             /\ queued' = queued \cup {KeyOf(HandlerRules[i], handler.day)}
    BY <1>4 DEF Report
  <2>2. CASE /\ HandlerRules[i].id # NoPolicy
             /\ queued' = queued \cup {KeyOf(HandlerRules[i], handler.day)}
    <3>1. handler.at = "report" /\ handler.scope \in Scopes /\ handler.day \in Days
          /\ i \in DOMAIN HandlerRules
      BY <1>0, <1>4 DEF Report, At, EnforcementTypeOK, Idle
    <3>2. handler.team
      BY <2>2, <3>1, EnforcementRules DEF HandlerRules
    <3>3. HandlerRules = Policies
      BY <3>2 DEF HandlerRules
    <3>4. <<Policies[i], handler.day>> \in OverCaps
      BY <1>0, <3>3 DEF TodoIsOver
    <3>5. KeyOf(Policies[i], handler.day).id = Policies[i].id
      BY DEF KeyOf
    <3> QED BY <1>2, <2>2, <3>1, <3>3, <3>4, <3>5 DEF Tells
  <2> QED BY <1>1, <2>1, <2>2
<1> QED
  BY <1>1, <1>3, <1>4
     DEF EnforcementNext, HandleStep, WriteLine, ReadLine, Launch, Midnight, Crash, StartWatch,
         CheckLocked, KillAgain, Evaluate, EvaluateGuard, NoMore, Act, Kill

\* The team is told of no breach that the stored lines do not show, and of no
\* override of a policy that had not been exceeded.
THEOREM AuditsHaveACause == EnforcementSpec => []AuditHasCause
<1>1. EnforcementInit => EnforcementInv /\ AuditIsOver
  BY InitInv DEF EnforcementInit, AuditIsOver
<1>2. EnforcementInv /\ AuditIsOver /\ [EnforcementNext]_enforcementVars
        => EnforcementInv' /\ AuditIsOver'
  <2> SUFFICES ASSUME EnforcementInv, AuditIsOver, [EnforcementNext]_enforcementVars
               PROVE  EnforcementInv' /\ AuditIsOver'
    OBVIOUS
  <2>1. EnforcementInv'
    BY InvStep
  <2>2. OverCaps \subseteq OverCaps'
    BY <2>1, AlwaysGrow, OverCapsGrow DEF EnforcementInv
  <2> QED BY <2>1, <2>2, AuditStep
<1>3. ASSUME AuditIsOver PROVE AuditHasCause
  <2>1. \A i, day : <<Policies[i], day>> \in OverCaps => Breached(Policies[i], day)
    BY DEF OverCaps
  <2> SUFFICES ASSUME NEW k \in queued
               PROVE  \E i \in DOMAIN Policies, day \in Days :
                        /\ Policies[i].id = k.id
                        /\ Breached(Policies[i], day)
                        /\ \/ k = KeyOf(Policies[i], day)
                           \/ k.action = "override" /\ Policies[i].action = "kill"
    BY DEF AuditHasCause
  <2>2. PICK i, day : Tells(k, i, day) /\ <<Policies[i], day>> \in OverCaps
    BY <1>3 DEF AuditIsOver
  <2> QED BY <2>1, <2>2, Zenon DEF Tells
<1> QED BY <1>1, <1>2, <1>3, PTL DEF EnforcementSpec

-----------------------------------------------------------------------------
(* Locks are kept.                                                         *)

Readable(f) == \A s \in Scopes : FileOf[s] = f => "check" \notin MayFail[s]

PastCheck == {"evaluate", "guard", "act", "kill", "report"}

\* Past the check of its scope, the handler meets no lock but its own line's.
OwnLocksOnly ==
    /\ handler.at \in PastCheck /\ Readable(FileOf[handler.scope])
    /\ locks[FileOf[handler.scope]] # NoLock
    => handler.wrote

LockInv == EnforcementInv /\ OwnLocksOnly

\* A step on the way through a line, that writes no lock.
LEMMA OwnLocksNext ==
    ASSUME EnforcementTypeOK, OwnLocksOnly,
           \A f \in Files : locks'[f] \in {locks[f], NoLock},
           handler.at \in PastCheck, handler'.scope = handler.scope,
           handler'.wrote = handler.wrote
    PROVE  OwnLocksOnly'
<1>1. handler.scope \in Scopes
  BY DEF EnforcementTypeOK, Idle, PastCheck
<1>2. FileOf[handler.scope] \in Files
  BY <1>1, EnforcementSets
<1>3. locks'[FileOf[handler.scope]] # NoLock => locks[FileOf[handler.scope]] # NoLock
  BY <1>2
<1> QED BY <1>3 DEF OwnLocksOnly

LEMMA OwnLocksStep ==
    ASSUME EnforcementTypeOK, OwnLocksOnly, [EnforcementNext]_enforcementVars
    PROVE  OwnLocksOnly'
<1> USE DEF enforcementVars, env, durable, memory
<1>0. handler \in [at : HandlerSteps, scope : Scopes \cup {NoScope}, day : Days,
                   team : BOOLEAN, todo : SUBSET Nat, wrote : BOOLEAN]
  BY DEF EnforcementTypeOK
<1>1. ~Act => \A f \in Files : locks'[f] \in {locks[f], NoLock}
  BY OthersKeepLocks
<1>2. CASE handler'.at \notin PastCheck
  BY <1>2 DEF OwnLocksOnly
<1>3. CASE handler' = handler /\ ~Act
  <2>1. CASE handler.at \in PastCheck
    BY <1>1, <1>3, <2>1, OwnLocksNext
  <2>2. CASE handler.at \notin PastCheck
    BY <1>2, <1>3, <2>2
  <2> QED BY <2>1, <2>2
<1>4. CASE handler' = Idle
  BY <1>2, <1>4 DEF Idle, PastCheck
<1>5. ASSUME NEW s \in Scopes, ReadLine(s) PROVE OwnLocksOnly'
  <2>1. CASE handler' = handler
    BY <1>3, <1>5, <2>1 DEF ReadLine, Act, At
  <2>2. CASE handler' # handler
    BY <1>2, <1>5, <2>2 DEF ReadLine, Idle, PastCheck
  <2> QED BY <2>1, <2>2
<1>6. CASE CheckLocked
  <2>1. handler.at = "check" /\ handler.scope \in Scopes
    BY <1>6 DEF CheckLocked, At, EnforcementTypeOK, Idle
  <2>2. FileOf[handler.scope] \in Files
    BY <2>1, EnforcementSets
  <2>3. handler'.scope = handler.scope
    BY <1>0, <1>6 DEF CheckLocked, Goto
  <2>4. CASE Goto("again")
    BY <1>0, <1>2, <2>4 DEF Goto, PastCheck
  <2>5. CASE locks' = [locks EXCEPT ![FileOf[handler.scope]] = NoLock]
    BY <2>2, <2>3, <2>5 DEF OwnLocksOnly, EnforcementTypeOK
  <2>6. CASE MayFailNow("check")
    BY <2>1, <2>3, <2>6 DEF OwnLocksOnly, MayFailNow, Readable
  <2> QED BY <1>6, <2>4, <2>5, <2>6 DEF CheckLocked
<1>7. CASE KillAgain
  BY <1>4, <1>7 DEF KillAgain
<1>8. CASE Evaluate \/ EvaluateGuard \/ NoMore \/ Kill \/ Report
  <2>1. handler.at \in PastCheck /\ ~Act
    <3>1. CASE Evaluate \/ EvaluateGuard \/ Kill \/ Report
      BY <3>1 DEF Evaluate, EvaluateGuard, Kill, Report, Act, At, PastCheck
    <3>2. CASE NoMore
      <4>1. handler.at = "act" /\ handler.todo = {}
        BY <3>2 DEF NoMore, At
      <4> QED BY <4>1 DEF Act, PastCheck
    <3> QED BY <1>8, <3>1, <3>2
  <2>2. \/ handler' = Idle
        \/ handler'.scope = handler.scope /\ handler'.wrote = handler.wrote
    <3>1. CASE Evaluate \/ NoMore \/ Kill
      BY <1>0, <3>1 DEF Evaluate, NoMore, Kill, Goto
    <3>2. CASE EvaluateGuard
      BY <1>0, <3>2 DEF EvaluateGuard
    <3>3. CASE Report
      BY <1>0, <3>3 DEF Report
    <3> QED BY <1>8, <3>1, <3>2, <3>3
  <2> QED BY <1>1, <1>4, <2>1, <2>2, OwnLocksNext
<1>9. CASE Act
  <2>1. handler.at = "act"
    BY <1>9 DEF Act, At
  <2>2. \/ Goto("report") /\ UNCHANGED locks
        \/ handler' = [handler EXCEPT !.at = "kill", !.wrote = TRUE]
    BY <1>9 DEF Act
  <2>3. CASE Goto("report") /\ UNCHANGED locks
    <3>1. handler'.scope = handler.scope /\ handler'.wrote = handler.wrote
      BY <1>0, <2>3 DEF Goto
    <3> QED BY <2>1, <2>3, <3>1, OwnLocksNext DEF PastCheck
  <2>4. CASE handler' = [handler EXCEPT !.at = "kill", !.wrote = TRUE]
    BY <1>0, <2>4 DEF OwnLocksOnly
  <2> QED BY <2>2, <2>3, <2>4
<1>10. CASE UNCHANGED handler /\ ~Act
  BY <1>3, <1>10
<1> QED
  BY <1>4, <1>5, <1>6, <1>7, <1>8, <1>9, <1>10
     DEF EnforcementNext, HandleStep, WriteLine, Unlock, Launch, Midnight, Crash, StartWatch

\* No step but `unlock` removes a lock that has not expired, and no step but
\* `unlock` and a later kill for the line it was written for makes it shorter.
LEMMA LocksLast ==
    ASSUME LockInv, [EnforcementNext]_enforcementVars
    PROVE  [KeepLockStep]_enforcementVars
<1>0. EnforcementTypeOK /\ OwnLocksOnly
  BY DEF LockInv, EnforcementInv
<1> SUFFICES ASSUME \A s \in Scopes : ~Unlock(s),
                    NEW f \in Files, ActiveLock(f), Readable(f)
             PROVE  /\ locks'[f] # NoLock
                    /\ \/ locks'[f].end >= locks[f].end
                       \/ handler.wrote /\ FileOf[handler.scope] = f
  BY DEF KeepLockStep, Readable
<1>1. locks[f] # NoLock /\ locks[f] \in Lock /\ locks[f].end \in Int
  BY <1>0 DEF ActiveLock, EnforcementTypeOK, Lock
<1>2. CASE locks'[f] = locks[f]
  BY <1>1, <1>2
<1>3. CASE StartWatch
  BY <1>1, <1>3 DEF StartWatch, Prune, env, durable
<1>4. CASE CheckLocked
  BY <1>0, <1>1, <1>4 DEF CheckLocked, EnforcementTypeOK
<1>5. CASE Act
  <2>1. PICK i \in handler.todo :
          \/ UNCHANGED locks
          \/ locks' = [locks EXCEPT ![FileOf[handler.scope]] =
                         [end |-> PeriodEnd(HandlerRules[i], handler.day),
                          id |-> HandlerRules[i].id]]
    BY <1>5 DEF Act
  <2>2. CASE UNCHANGED locks \/ f # FileOf[handler.scope]
    BY <1>0, <1>2, <2>1, <2>2 DEF EnforcementTypeOK
  <2>3. CASE /\ f = FileOf[handler.scope]
             /\ locks' = [locks EXCEPT ![FileOf[handler.scope]] =
                            [end |-> PeriodEnd(HandlerRules[i], handler.day),
                             id |-> HandlerRules[i].id]]
    <3> DEFINE lock == [end |-> PeriodEnd(HandlerRules[i], handler.day),
                        id |-> HandlerRules[i].id]
    <3>1. handler.at \in PastCheck
      BY <1>5 DEF Act, At, PastCheck
    <3>2. handler.wrote
      BY <1>0, <1>1, <2>3, <3>1 DEF OwnLocksOnly
    <3>3. lock \in Lock
      BY <1>0, LockType
    <3>4. locks'[f] = lock
      BY <1>0, <2>3 DEF EnforcementTypeOK
    <3> QED BY <2>3, <3>2, <3>3, <3>4, NoLockIsNoLock
  <2> QED BY <2>1, <2>2, <2>3
<1>6. CASE UNCHANGED locks
  BY <1>2, <1>6
<1> QED
  BY <1>3, <1>4, <1>5, <1>6
     DEF EnforcementNext, HandleStep, WriteLine, ReadLine, Launch, Midnight, Crash,
         KillAgain, Evaluate, EvaluateGuard, NoMore, Kill, Report,
         enforcementVars, env, durable, memory

\* For any rules and policies, a lock that has not expired goes only by
\* `unlock`, and is shortened only by it or by a later breach of the very line
\* it was written for, through any restarts, replays, late lines and failing
\* calls but those of its own lock check.
THEOREM LocksAreKept == EnforcementSpec => ActiveLockKept
<1>1. EnforcementInit => LockInv
  BY InitInv DEF LockInv, EnforcementInit, OwnLocksOnly, Idle, PastCheck
<1>2. LockInv /\ [EnforcementNext]_enforcementVars => LockInv'
  BY InvStep, OwnLocksStep DEF LockInv, EnforcementInv
<1>3. LockInv /\ [EnforcementNext]_enforcementVars => [KeepLockStep]_enforcementVars
  BY LocksLast
<1> QED BY <1>1, <1>2, <1>3, PTL DEF EnforcementSpec, ActiveLockKept
=============================================================================
