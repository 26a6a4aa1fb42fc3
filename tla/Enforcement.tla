----------------------------- MODULE Enforcement -----------------------------
(***************************************************************************)
(* What the watcher does with a log line: pipeline.Handle from the insert  *)
(* to the last guard policy, over the lock files and the process killer of *)
(* internal/enforcer, beside the Claude Code sessions that write the logs, *)
(* the `unlock` command, the clock, and crashes of the watcher at any step.*)
(*                                                                         *)
(* A scope is a pair (project, git branch).  The watcher reads the log of  *)
(* a scope in order and any scope's next; its offsets and its memory of    *)
(* fired policies die with it, the stored lines, the lock files and the    *)
(* audit queue do not.  Time is counted in days.  A period is a number of  *)
(* days and its end is its last day; the second that PeriodBounds leaves   *)
(* out at midnight is not modelled.  Every line is the only one of its     *)
(* response and costs one unit, so that no sum falls: corrections, and     *)
(* lines that move a response to another day, are in Ledger.               *)
(***************************************************************************)
EXTENDS Integers, Sequences, FiniteSets

CONSTANTS
    Scopes,      \* (project, git branch)
    NoScope,     \* no line is being handled
    Dirs,        \* working directories of Claude Code sessions
    DirOf,       \* the cwd in the lines of a scope
    Under,       \* the directories equal to or below one: cwdMatches
    Files,       \* lock file names
    FileOf,      \* lockFilename of a scope
    Branchless,  \* scopes whose git branch is ''
    Match,       \* Match[s]: the config's rules for s, most specific first
    Policies,    \* the team policies in force, in their order
    NoPolicy,    \* the id of a rule of the local config
    PolicyIds,
    NoLock,      \* no file
    MayFail,     \* MayFail[s]: the calls that may return an error for a line of s
    MaxDay,      \* bound: days
    MaxLines,    \* bound: lines in the log of a scope
    MaxCrashes   \* bound: crashes of the watcher

Days == 1..MaxDay
Calls == {"insert", "check", "lock", "query", "kill", "queue"}

\* A rule acts on the spend over the scopes `on`.  The rules of a scope sum
\* that scope; a project policy sums the project, a team or developer policy
\* the whole machine.
Rule == [on : SUBSET Scopes, days : Nat \ {0}, cap : Nat,
         action : {"warn", "kill"}, id : PolicyIds \cup {NoPolicy}]

ASSUME EnforcementSets ==
    /\ IsFiniteSet(Scopes) /\ NoScope \notin Scopes
    /\ DirOf \in [Scopes -> Dirs] /\ FileOf \in [Scopes -> Files]
    /\ Under \in [Dirs -> SUBSET Dirs] /\ \A d \in Dirs : d \in Under[d]
    /\ Branchless \subseteq Scopes
    /\ NoPolicy \notin PolicyIds
    /\ MayFail \in [Scopes -> SUBSET Calls]
    /\ MaxDay \in Nat \ {0} /\ MaxLines \in Nat /\ MaxCrashes \in Nat

ASSUME EnforcementRules ==
    /\ Match \in [Scopes -> Seq(Rule)]
    /\ \A s \in Scopes : \A i \in DOMAIN Match[s] :
        Match[s][i].on = {s} /\ Match[s][i].id = NoPolicy
    /\ Policies \in Seq(Rule)
    /\ \A i \in DOMAIN Policies : Policies[i].id # NoPolicy

Lock == [end : Int, id : PolicyIds \cup {NoPolicy}]

ASSUME NoLockIsNoLock == NoLock \notin Lock

VARIABLES
    now,      \* today
    running,  \* directories in which a session runs
    lines,    \* lines[s]: the log of s, the day of each line
    crashes,  \* crashes so far
    stored,   \* stored[s]: the lines of s in the events table
    locks,    \* the lock files
    queued,   \* dedup keys of the audit queue
    up,       \* the watcher runs
    offset,   \* lines of each log read in this run
    fired,    \* team policies already notified in this run
    handler   \* the line being handled

env == <<now, running, lines, crashes>>
durable == <<stored, locks, queued>>
memory == <<up, offset, fired>>
enforcementVars == <<env, durable, memory, handler>>

\* team: the policies are being worked off, and not the rules of the config;
\* todo: the breached entries left.  wrote is history: a lock has been written
\* for this line.
Idle == [at |-> "idle", scope |-> NoScope, day |-> 1, team |-> FALSE, todo |-> {},
         wrote |-> FALSE]

HandlerSteps == {"idle", "check", "again", "evaluate", "guard", "act", "kill", "report"}

MayFailNow(call) == call \in MayFail[handler.scope]

HandlerRules == IF handler.team THEN Policies ELSE Match[handler.scope]

Key == [id : PolicyIds, end : Int, action : {"warn", "kill", "override"}]

EnforcementTypeOK ==
    /\ now \in Days
    /\ running \subseteq Dirs
    /\ lines \in [Scopes -> Seq(Days)]
    /\ crashes \in 0..MaxCrashes
    /\ stored \in [Scopes -> SUBSET Nat]
    /\ \A s \in Scopes : stored[s] \subseteq DOMAIN lines[s]
    /\ locks \in [Files -> Lock \cup {NoLock}]
    /\ queued \subseteq Key
    /\ up \in BOOLEAN
    /\ offset \in [Scopes -> Nat]
    /\ \A s \in Scopes : offset[s] <= Len(lines[s])
    /\ fired \subseteq Key
    /\ handler \in [at : HandlerSteps, scope : Scopes \cup {NoScope}, day : Days,
                    team : BOOLEAN, todo : SUBSET Nat, wrote : BOOLEAN]
    /\ IF handler.at = "idle" THEN handler = Idle
       ELSE /\ handler.scope \in Scopes
            /\ handler.todo \subseteq DOMAIN HandlerRules
            /\ handler.team => handler.at \in {"act", "kill", "report"}

-----------------------------------------------------------------------------
(* Periods, spend and locks.                                               *)

PeriodStart(r, day) == ((day - 1) \div r.days) * r.days + 1
PeriodEnd(r, day) == PeriodStart(r, day) + r.days - 1

\* RollupSum, ProjectSum and TotalSum over a period.
SpentLines(S, from, to) ==
    {x \in S \X (1..MaxLines) :
        /\ x[2] \in stored[x[1]]
        /\ lines[x[1]][x[2]] \in from..to}

Spend(r, day) == Cardinality(SpentLines(r.on, PeriodStart(r, day), PeriodEnd(r, day)))

Breached(r, day) == Spend(r, day) > r.cap

ExpiredOn(lock, day) == day > lock.end
ActiveLock(f) == locks[f] # NoLock /\ ~ExpiredOn(locks[f], now)

KeyOf(r, day) == [id |-> r.id, end |-> PeriodEnd(r, day), action |-> r.action]

-----------------------------------------------------------------------------
(* The world around the watcher.                                           *)

\* A session logs an API response on the branch checked out at the time.
WriteLine(s) ==
    /\ DirOf[s] \in running
    /\ Len(lines[s]) < MaxLines
    /\ lines' = [lines EXCEPT ![s] = Append(@, now)]
    /\ UNCHANGED <<now, running, crashes, durable, memory, handler>>

Launch(d) ==
    /\ d \notin running
    /\ running' = running \cup {d}
    /\ UNCHANGED <<now, lines, crashes, durable, memory, handler>>

Midnight ==
    /\ now < MaxDay
    /\ now' = now + 1
    /\ UNCHANGED <<running, lines, crashes, durable, memory, handler>>

\* `unlock`: a lock of a team policy leaves an override in the audit queue,
\* when that can be written.
Unlock(s) ==
    LET lock == locks[FileOf[s]]
    IN  /\ lock # NoLock
        /\ locks' = [locks EXCEPT ![FileOf[s]] = NoLock]
        /\ \/ /\ lock.id # NoPolicy
              /\ queued' = queued \cup {[id |-> lock.id, end |-> now, action |-> "override"]}
           \/ /\ lock.id = NoPolicy \/ "queue" \in MayFail[s]
              /\ UNCHANGED queued
        /\ UNCHANGED <<env, stored, memory, handler>>

\* Fault: the offsets survive the crash.
CrashKeepsOffset ==
    /\ up
    /\ crashes < MaxCrashes
    /\ crashes' = crashes + 1
    /\ up' = FALSE
    /\ fired' = {}
    /\ handler' = Idle
    /\ UNCHANGED <<now, running, lines, durable, offset>>

Crash ==
    /\ up
    /\ crashes < MaxCrashes
    /\ crashes' = crashes + 1
    /\ up' = FALSE
    /\ offset' = [s \in Scopes |-> 0]
    /\ fired' = {}
    /\ handler' = Idle
    /\ UNCHANGED <<now, running, lines, durable>>

\* Fault: a lock is pruned on its last day.
PruneOnLastDay ==
    locks' = [f \in Files |-> IF locks[f] # NoLock /\ now >= locks[f].end
                              THEN NoLock ELSE locks[f]]

\* LockStore.Prune.
Prune ==
    locks' = [f \in Files |-> IF ActiveLock(f) THEN locks[f] ELSE NoLock]

\* The watcher starts, prunes the locks, if it can, and reads every log from
\* the start.
StartWatch ==
    /\ ~up
    /\ up' = TRUE
    /\ \/ Prune
       \/ (\E s \in Scopes : "lock" \in MayFail[s]) /\ UNCHANGED locks
    /\ UNCHANGED <<env, stored, queued, offset, fired, handler>>

-----------------------------------------------------------------------------
(* pipeline.Handle.                                                        *)

At(step) == up /\ handler.at = step

Goto(step) == handler' = [handler EXCEPT !.at = step]

\* Fault: the index of the line before it is stored.
ReadLineIndex(s) ==
    /\ At("idle")
    /\ offset[s] < Len(lines[s])
    /\ offset' = [offset EXCEPT ![s] = @ + 1]
    /\ stored' = [stored EXCEPT ![s] = @ \cup {offset[s]}]
    /\ handler' = [Idle EXCEPT !.at = "check", !.scope = s,
                               !.day = lines[s][offset[s] + 1]]
    /\ UNCHANGED <<env, locks, queued, up, fired>>

\* The next line of a log is priced and stored; it may have been stored by an
\* earlier run.  When the insert fails Handle returns, and the line is behind
\* the offset.
ReadLine(s) ==
    /\ At("idle")
    /\ offset[s] < Len(lines[s])
    /\ offset' = [offset EXCEPT ![s] = @ + 1]
    /\ \/ /\ stored' = [stored EXCEPT ![s] = @ \cup {offset[s] + 1}]
          /\ handler' = [Idle EXCEPT !.at = "check", !.scope = s,
                                     !.day = lines[s][offset[s] + 1]]
       \/ /\ "insert" \in MayFail[s]
          /\ UNCHANGED <<stored, handler>>
    /\ UNCHANGED <<env, locks, queued, up, fired>>

\* A line of a locked scope goes no further; an expired lock is released, and
\* a failing lock store does not stop the evaluation.
CheckLocked ==
    /\ At("check")
    /\ LET f == FileOf[handler.scope]
       IN  \/ ActiveLock(f) /\ Goto("again") /\ UNCHANGED locks
           \/ /\ ~ActiveLock(f)
              /\ locks' = [locks EXCEPT ![f] = NoLock]
              /\ Goto("evaluate")
           \/ MayFailNow("check") /\ Goto("evaluate") /\ UNCHANGED locks
    /\ UNCHANGED <<env, stored, queued, memory>>

\* Fault: the sessions above the cwd, as if the cwd were the prefix.
KillAbove ==
    \E missed \in SUBSET Dirs :
        /\ missed = {} \/ MayFailNow("kill")
        /\ running' = running \ ({d \in Dirs : DirOf[handler.scope] \in Under[d]} \ missed)

\* SIGTERM to the sessions in and under the cwd of the line; each signal, or
\* the listing of the processes, may fail.
KillSessions ==
    \E missed \in SUBSET Dirs :
        /\ missed = {} \/ MayFailNow("kill")
        /\ running' = running \ (Under[DirOf[handler.scope]] \ missed)

KillAgain ==
    /\ At("again")
    /\ KillSessions
    /\ handler' = Idle
    /\ UNCHANGED <<now, lines, crashes, durable, memory>>

\* Every matching rule is evaluated at the line's own timestamp.
Evaluate ==
    /\ At("evaluate")
    /\ LET rules == Match[handler.scope]
       IN  \/ handler' = [handler EXCEPT !.at = "act",
                            !.todo = {i \in DOMAIN rules : Breached(rules[i], handler.day)}]
           \/ MayFailNow("query") /\ handler' = Idle
    /\ UNCHANGED <<env, durable, memory>>

\* Fault: a project policy acts on any session.
GuardAnywhere ==
    /\ At("guard")
    /\ handler' = [handler EXCEPT !.at = "act", !.day = now, !.team = TRUE,
                      !.todo = {i \in DOMAIN Policies : Breached(Policies[i], now)}]
    /\ UNCHANGED <<env, durable, memory>>

\* Fault: a policy acts when the spend reaches its cap.
GuardAtCap ==
    /\ At("guard")
    /\ handler' = [handler EXCEPT !.at = "act", !.day = now, !.team = TRUE,
                      !.todo = {i \in DOMAIN Policies : /\ handler.scope \in Policies[i].on
                                                        /\ Spend(Policies[i], now) >= Policies[i].cap}]
    /\ UNCHANGED <<env, durable, memory>>

\* The team policies at the current time, for the scopes they are on; a policy
\* whose query fails is passed over.
EvaluateGuard ==
    /\ At("guard")
    /\ \E S \in SUBSET DOMAIN Policies :
        /\ \A i \in DOMAIN Policies :
            LET hit == handler.scope \in Policies[i].on /\ Breached(Policies[i], now)
            IN  /\ i \in S => hit
                /\ hit => i \in S \/ MayFailNow("query")
        /\ handler' = [handler EXCEPT !.at = "act", !.day = now,
                                      !.team = TRUE, !.todo = S]
    /\ UNCHANGED <<env, durable, memory>>

IsNext(i) == i \in handler.todo /\ \A j \in handler.todo : i <= j

\* After the config's rules the team policies, then the next line.
NoMore ==
    /\ At("act") /\ handler.todo = {}
    /\ handler' = IF handler.team THEN Idle ELSE [handler EXCEPT !.at = "guard"]
    /\ UNCHANGED <<env, durable, memory>>

\* dispatch and fireGuard: a warning only reports; a kill first writes the
\* lock over whatever lock there is.  Without a lock nothing is killed.
Act ==
    /\ At("act")
    /\ \E i \in handler.todo :
        /\ IsNext(i)
        /\ LET r == HandlerRules[i]
               lock == [end |-> PeriodEnd(r, handler.day), id |-> r.id]
           IN  \/ r.action = "warn" /\ Goto("report") /\ UNCHANGED locks
               \/ /\ r.action = "kill" /\ handler.scope \notin Branchless
                  /\ locks' = [locks EXCEPT ![FileOf[handler.scope]] = lock]
                  /\ handler' = [handler EXCEPT !.at = "kill", !.wrote = TRUE]
               \/ /\ r.action = "kill"
                  /\ handler.scope \in Branchless \/ MayFailNow("lock")
                  /\ Goto("report") /\ UNCHANGED locks
    /\ UNCHANGED <<env, stored, queued, memory>>

Kill ==
    /\ At("kill")
    /\ KillSessions
    /\ Goto("report")
    /\ UNCHANGED <<now, lines, crashes, durable, memory>>

\* A local verdict notifies every time; a team policy notifies and queues its
\* audit event once per period in a run.
Report ==
    /\ At("report")
    /\ \E i \in handler.todo :
        /\ IsNext(i)
        /\ handler' = [handler EXCEPT !.at = "act", !.todo = @ \ {i}]
        /\ LET r == HandlerRules[i]
               key == KeyOf(r, handler.day)
           IN  \/ r.id = NoPolicy /\ UNCHANGED <<fired, queued>>
               \/ r.id # NoPolicy /\ key \in fired /\ UNCHANGED <<fired, queued>>
               \/ /\ r.id # NoPolicy /\ key \notin fired
                  /\ fired' = fired \cup {key}
                  /\ \/ queued' = queued \cup {key}
                     \/ MayFailNow("queue") /\ UNCHANGED queued
    /\ UNCHANGED <<env, stored, locks, up, offset>>

HandleStep ==
    \/ CheckLocked
    \/ KillAgain
    \/ Evaluate
    \/ EvaluateGuard
    \/ NoMore
    \/ Act
    \/ Kill
    \/ Report

-----------------------------------------------------------------------------

EnforcementInit ==
    /\ now = 1
    /\ running = {}
    /\ lines = [s \in Scopes |-> <<>>]
    /\ crashes = 0
    /\ stored = [s \in Scopes |-> {}]
    /\ locks = [f \in Files |-> NoLock]
    /\ queued = {}
    /\ up = FALSE
    /\ offset = [s \in Scopes |-> 0]
    /\ fired = {}
    /\ handler = Idle

EnforcementNext ==
    \/ \E s \in Scopes : WriteLine(s) \/ Unlock(s) \/ ReadLine(s)
    \/ \E d \in Dirs : Launch(d)
    \/ Midnight
    \/ Crash
    \/ StartWatch
    \/ HandleStep

EnforcementSpec == EnforcementInit /\ [][EnforcementNext]_enforcementVars

\* The watcher is started again after a crash and keeps reading and handling.
\* Sessions, users and the clock promise nothing.
FairEnforcementSpec ==
    /\ EnforcementSpec
    /\ WF_enforcementVars(StartWatch)
    /\ WF_enforcementVars(HandleStep)
    /\ \A s \in Scopes : WF_enforcementVars(ReadLine(s))

-----------------------------------------------------------------------------
(* Properties.                                                             *)

\* The kill rules of a scope, and the team policies on it that kill.
RulesOn(s) ==
    {r \in {Match[s][i] : i \in DOMAIN Match[s]} \cup
           {Policies[i] : i \in DOMAIN Policies} : s \in r.on /\ r.action = "kill"}

\* Every lock on disk is backed by what the events table holds: some kill rule
\* of a scope with that file, or some team policy on it, is over its cap in
\* the period at whose end the lock expires.  A crash, a replay, an unlock or
\* a failing call never leaves a lock without its cause (pipeline.go 166-179
\* before 203-218).
LockHasCause ==
    \A f \in Files : locks[f] # NoLock =>
        \E s \in Scopes, day \in Days : \E r \in RulesOn(s) :
            /\ FileOf[s] = f /\ r.id = locks[f].id
            /\ PeriodEnd(r, day) = locks[f].end /\ Breached(r, day)

\* A session is stopped only in or under the directory of a scope that has a
\* cap exceeded, its own or that of a scope with the same lock file: whatever
\* was unlocked, expired, replayed or failed between the check of a lock or a
\* cap and the signal (pipeline.go 181-218, 277-289).
StopStep ==
    \A d \in running \ running' :
        \E s, u \in Scopes : d \in Under[DirOf[s]] /\ FileOf[u] = FileOf[s] /\
            \E day \in Days : \E r \in RulesOn(u) : Breached(r, day)
StopHasCause == [][StopStep]_enforcementVars

\* What the team is told is true: an audit event names a policy, and the end of
\* a period, whose cap the stored lines exceed, and an override a policy that
\* was exceeded and kills, although the event is written steps after the sum
\* was read, and may be written again after a crash (pipeline.go 292-356,
\* unlock.go 66-69).
AuditHasCause ==
    \A k \in queued : \E i \in DOMAIN Policies, day \in Days :
        /\ Policies[i].id = k.id
        /\ Breached(Policies[i], day)
        /\ \/ k = KeyOf(Policies[i], day)
           \/ k.action = "override" /\ Policies[i].action = "kill"

\* A lock that has not expired goes away only by `unlock`, and its end moves
\* earlier only by `unlock` or by a rule or policy of a shorter period that the
\* very line it was written for has breached too and whose turn comes later:
\* Acquire overwrites (lockstore.go 105-107).  No restart, prune, replay or
\* other line, of this scope or of one with the same file, weakens it, as long
\* as the lock files of its scopes can be read (a line goes on when its lock
\* cannot).
KeepLockStep ==
    \/ \E s \in Scopes : Unlock(s)
    \/ \A f \in Files :
        ActiveLock(f) /\ (\A s \in Scopes : FileOf[s] = f => "check" \notin MayFail[s]) =>
        /\ locks'[f] # NoLock
        /\ \/ locks'[f].end >= locks[f].end
           \/ handler.wrote /\ FileOf[handler.scope] = f
ActiveLockKept == [][KeepLockStep]_enforcementVars

\* The log of s holds more than a kill rule allows in today's period, and
\* its last lines, today's, are still to be read.
Runaway(s) ==
    /\ DirOf[s] \in running
    /\ offset[s] < Len(lines[s])
    /\ lines[s][Len(lines[s])] = now
    /\ \E i \in DOMAIN Match[s] :
        LET r == Match[s][i]
        IN  /\ r.action = "kill"
            /\ Cardinality({n \in DOMAIN lines[s] :
                              lines[s][n] \in PeriodStart(r, now)..PeriodEnd(r, now)}) > r.cap

\* A session that has spent more than a kill rule allows is stopped, although
\* the watcher may crash at any step of handling its lines, the user may
\* unlock the scope meanwhile and the day may end: the logs are read again
\* from the start and every line over the cap kills (watcher.go 43-47,
\* pipeline.go 181-218).  The calls that stop it must succeed; the lock check
\* may fail, and the calls for other scopes.
RunawayStopped ==
    \A s \in Scopes : MayFail[s] \subseteq {"check"} =>
        (Runaway(s) ~> DirOf[s] \notin running)
=============================================================================
