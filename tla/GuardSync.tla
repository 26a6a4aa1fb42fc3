----------------------------- MODULE GuardSync ------------------------------
(***************************************************************************)
(* Guard Mode between this machine and the team's server.  Policies come   *)
(* in two ways, the watcher's poll (a GET with an ETag) and the answer to  *)
(* a push of `sync`, and both are saved in one cache file, through one     *)
(* temporary file.  The audit events of breaches and overrides go out from *)
(* a queue in the database, with a push.  The watcher, any number of sync  *)
(* processes and the `unlock` command share the files and the database;    *)
(* each may be killed at any step.                                         *)
(*                                                                         *)
(* The server is external.  Its policy set is a version number that only   *)
(* grows, with 0 for no policies; the ETag of a version is its number,     *)
(* with 0 for no ETag.  An audit event is its dedup key, which the server  *)
(* records once.                                                           *)
(***************************************************************************)
EXTENDS Integers, FiniteSets

CONSTANTS
    Syncs,       \* sync processes
    Poller,      \* the policy poller of the watcher
    Breaches,    \* dedup keys of policy breaches: policy, period and action
    Overrides,   \* dedup keys of overrides: policy and time
    NoFile,
    Torn,        \* a file that does not parse
    NoAnswer,    \* no policy set: lastPolicy is nil
    Answers,     \* what the server may answer to a push
    BatchLimit,  \* events in a push: 200
    MaxVersion,  \* bound: policy versions
    MaxRows      \* bound: row ids of the queue

Writers == Syncs \cup {Poller}
Keys == Breaches \cup Overrides
Versions == 0..MaxVersion
Bundle == [policies : Versions, etag : Versions]
Row == [id : Nat, key : Keys]

ASSUME GuardSyncSets ==
    /\ Poller \notin Syncs
    /\ NoFile \notin Bundle /\ Torn \notin Bundle /\ NoAnswer \notin Bundle
    /\ NoFile # Torn
    /\ Answers \subseteq {"policies", "none", "unreadable"}
    /\ BatchLimit \in Nat /\ MaxVersion \in Nat \ {0} /\ MaxRows \in Nat

VARIABLES
    version,   \* the server's policy set
    recorded,  \* the events the server has
    cache,     \* policies.json
    tmp,       \* policies.json.tmp
    pending,   \* the guard_pending table
    nextId,    \* its next row id
    up,        \* the watcher runs
    inForce,   \* the policies the pipeline enforces
    etag,      \* the poller's ETag
    fired,     \* breaches notified in this run
    at,        \* where each process is
    bundle,    \* the policies it is about to save
    file,      \* the file behind its open descriptor
    batch,     \* the rows a sync has read
    queued     \* every event queued so far

server == <<version, recorded>>
disk == <<cache, tmp>>
queue == <<pending, nextId, queued>>
watcher == <<up, inForce, etag, fired>>
guardSyncVars == <<server, disk, queue, watcher, at, bundle, file, batch>>

SaveSteps == {"truncate", "write", "rename", "remove"}
Steps == SaveSteps \cup {"off", "start", "idle", "apply", "push", "delete", "more", "etag"}

GuardSyncTypeOK ==
    /\ version \in Versions
    /\ recorded \subseteq Keys
    /\ cache \in Bundle \cup {NoFile, Torn}
    /\ tmp \in Bundle \cup {NoFile, Torn}
    /\ pending \subseteq Row
    /\ nextId \in Nat
    /\ up \in BOOLEAN
    /\ inForce \in Versions
    /\ etag \in Versions
    /\ fired \subseteq Breaches
    /\ at \in [Writers -> Steps]
    /\ bundle \in [Writers -> Bundle \cup {NoAnswer}]
    /\ file \in [Writers -> {"tmp", "cache", "gone"}]
    /\ batch \in [Syncs -> SUBSET Row]
    /\ queued \subseteq Keys
    /\ \A q, r \in pending : q.key = r.key => q = r  \* the unique index

-----------------------------------------------------------------------------
(* The cache file.                                                         *)

\* A missing or corrupt cache is an empty bundle.
Load == IF cache \in Bundle THEN cache ELSE [policies |-> 0, etag |-> 0]

\* A failed save is a warning: the poller goes on with what it was told.
AfterSave(w) == IF w = Poller THEN "apply" ELSE "idle"

Goto(w, step) == at' = [at EXCEPT ![w] = step]

\* os.WriteFile opens the temporary file, emptying it, and then writes.
Truncate(w) ==
    /\ at[w] = "truncate"
    /\ tmp' = Torn
    /\ file' = [file EXCEPT ![w] = "tmp"]
    /\ Goto(w, "write")
    /\ UNCHANGED <<server, cache, queue, watcher, bundle, batch>>

\* The descriptor stays with the file when that is renamed over the cache.
\* Over another's bytes the new ones may leave a tail of the old.
Write(w) ==
    LET target == IF file[w] = "tmp" THEN tmp ELSE cache
    IN  /\ at[w] = "write"
        /\ \E c \in {bundle[w]} \cup (IF target = Torn THEN {} ELSE {Torn}) :
            /\ tmp' = IF file[w] = "tmp" THEN c ELSE tmp
            /\ cache' = IF file[w] = "cache" THEN c ELSE cache
        /\ file' = [file EXCEPT ![w] = "gone"]
        /\ Goto(w, "rename")
        /\ UNCHANGED <<server, queue, watcher, bundle, batch>>

\* os.Rename moves whatever is in the temporary file; it fails when another
\* process has already moved it.
Rename(w) ==
    /\ at[w] = "rename"
    /\ \/ /\ tmp # NoFile
          /\ cache' = tmp
          /\ tmp' = NoFile
          /\ file' = [x \in Writers |-> IF file[x] = "tmp" THEN "cache" ELSE "gone"]
          /\ Goto(w, AfterSave(w))
       \/ /\ tmp = NoFile
          /\ Goto(w, "remove")
          /\ UNCHANGED <<disk, file>>
    /\ UNCHANGED <<server, queue, watcher, bundle, batch>>

\* The clean-up after a failed rename removes the file of that name, whose
\* ever it is by now.
RemoveTmp(w) ==
    /\ at[w] = "remove"
    /\ tmp' = NoFile
    /\ file' = [x \in Writers |-> IF file[x] = "tmp" THEN "gone" ELSE file[x]]
    /\ Goto(w, AfterSave(w))
    /\ UNCHANGED <<server, cache, queue, watcher, bundle, batch>>

\* Fault: the poller gives the new policies up with the save.
SaveFailsReturns(w) ==
    /\ at[w] \in {"truncate", "write"}
    /\ file' = [file EXCEPT ![w] = "gone"]
    /\ Goto(w, "idle")
    /\ UNCHANGED <<server, disk, queue, watcher, bundle, batch>>

\* The temporary file cannot be opened or written.
SaveFails(w) ==
    /\ at[w] \in {"truncate", "write"}
    /\ file' = [file EXCEPT ![w] = "gone"]
    /\ Goto(w, AfterSave(w))
    /\ UNCHANGED <<server, disk, queue, watcher, bundle, batch>>

Save(w) == Truncate(w) \/ Write(w) \/ Rename(w) \/ RemoveTmp(w) \/ SaveFails(w)

-----------------------------------------------------------------------------
(* The watcher and its poller.                                             *)

\* The team's owner changes the policies.
Publish ==
    /\ version < MaxVersion
    /\ version' = version + 1
    /\ UNCHANGED <<recorded, disk, queue, watcher, at, bundle, file, batch>>

WatchStart ==
    /\ ~up
    /\ up' = TRUE
    /\ inForce' = Load.policies
    /\ etag' = 0
    /\ fired' = {}
    /\ Goto(Poller, "start")
    /\ UNCHANGED <<server, disk, queue, bundle, file, batch>>

\* The poller reads the cache a second time, for the ETag.
PollerStart ==
    /\ at[Poller] = "start"
    /\ etag' = Load.etag
    /\ Goto(Poller, "idle")
    /\ UNCHANGED <<server, disk, queue, up, inForce, fired, bundle, file, batch>>

\* A failed request, and the answer that nothing changed, change nothing.
Poll ==
    /\ at[Poller] = "idle"
    /\ etag # version
    /\ etag' = version
    /\ bundle' = [bundle EXCEPT ![Poller] = [policies |-> version, etag |-> version]]
    /\ Goto(Poller, "truncate")
    /\ UNCHANGED <<server, disk, queue, up, inForce, fired, file, batch>>

\* Fault: the policies in force are the ones on disk.
ApplyCached ==
    /\ at[Poller] = "apply"
    /\ inForce' = Load.policies
    /\ Goto(Poller, "idle")
    /\ UNCHANGED <<server, disk, queue, up, etag, fired, bundle, file, batch>>

Apply ==
    /\ at[Poller] = "apply"
    /\ inForce' = bundle[Poller].policies
    /\ Goto(Poller, "idle")
    /\ UNCHANGED <<server, disk, queue, up, etag, fired, bundle, file, batch>>

PollerStep == PollerStart \/ Poll \/ Save(Poller) \/ Apply

\* The watcher ends or dies, and its open file is closed.
WatchStop ==
    /\ up
    /\ up' = FALSE
    /\ inForce' = 0
    /\ etag' = 0
    /\ fired' = {}
    /\ Goto(Poller, "off")
    /\ bundle' = [bundle EXCEPT ![Poller] = NoAnswer]
    /\ file' = [file EXCEPT ![Poller] = "gone"]
    /\ UNCHANGED <<server, disk, queue, batch>>

-----------------------------------------------------------------------------
(* The audit queue.                                                        *)

\* Fault: a table without AUTOINCREMENT gives the ids of deleted rows again.
ReusedId == CHOOSE n \in 1..nextId :
    /\ \A r \in pending : r.id < n
    /\ n = 1 \/ \E r \in pending : r.id = n - 1

NewId == nextId

\* Fault: an INSERT into a table without the unique index.
QueueAgain(k) ==
    /\ nextId <= MaxRows
    /\ pending' = pending \cup {[id |-> NewId, key |-> k]}
    /\ nextId' = nextId + 1
    /\ queued' = queued \cup {k}

\* INSERT OR IGNORE on the unique key.
QueueEvent(k) ==
    /\ queued' = queued \cup {k}
    /\ \/ /\ \E r \in pending : r.key = k
          /\ UNCHANGED <<pending, nextId>>
       \/ /\ \A r \in pending : r.key # k
          /\ nextId <= MaxRows
          /\ pending' = pending \cup {[id |-> NewId, key |-> k]}
          /\ nextId' = nextId + 1

\* A breach is notified and queued once in a run; a failed write is only
\* logged.
Fire(k) ==
    /\ up
    /\ inForce # 0
    /\ k \notin fired
    /\ fired' = fired \cup {k}
    /\ QueueEvent(k) \/ UNCHANGED queue
    /\ UNCHANGED <<server, disk, up, inForce, etag, at, bundle, file, batch>>

\* The key of an override has the time of the unlock.
Override(k) ==
    /\ k \notin queued
    /\ QueueEvent(k)
    /\ UNCHANGED <<server, disk, watcher, at, bundle, file, batch>>

-----------------------------------------------------------------------------
(* sync.                                                                   *)

Oldest == {r \in pending : Cardinality({q \in pending : q.id < r.id}) < BatchLimit}

KeysOf(rows) == {r.key : r \in rows}

\* A failed read is a warning, and the push goes without events.
SyncRead(s) ==
    /\ at[s] = "idle"
    /\ \E rows \in {Oldest, {}} : batch' = [batch EXCEPT ![s] = rows]
    /\ bundle' = [bundle EXCEPT ![s] = NoAnswer]
    /\ Goto(s, "push")
    /\ UNCHANGED <<server, disk, queue, watcher, file>>

\* What Push returns: an answer without policies is an empty set, and an
\* unreadable one leaves what an earlier request returned.
Answered(s) ==
    \E a \in Answers :
        bundle' = CASE a = "policies" ->
                        [bundle EXCEPT ![s] = [policies |-> version, etag |-> 0]]
                    [] a = "none" ->
                        [bundle EXCEPT ![s] = [policies |-> 0, etag |-> 0]]
                    [] OTHER -> bundle

\* The first request carries the events.
SyncPush(s) ==
    /\ at[s] = "push"
    /\ recorded' = recorded \cup KeysOf(batch[s])
    /\ \/ /\ Answered(s)
          /\ Goto(s, "delete")
          /\ UNCHANGED batch
       \/ /\ Goto(s, "idle")  \* recorded, but the answer is lost
          /\ batch' = [batch EXCEPT ![s] = {}]
          /\ UNCHANGED bundle
    /\ UNCHANGED <<version, disk, queue, watcher, file>>

\* Fault: as many of the oldest rows are deleted as a push takes, and not the
\* rows that were sent.
SyncDeleteOldest(s) ==
    /\ at[s] = "delete"
    /\ pending' = pending \ Oldest
    /\ batch' = [batch EXCEPT ![s] = {}]
    /\ Goto(s, "more")
    /\ UNCHANGED <<server, disk, nextId, queued, watcher, bundle, file>>

SyncDelete(s) ==
    /\ at[s] = "delete"
    /\ \/ pending' = {r \in pending : \A b \in batch[s] : b.id # r.id}
       \/ UNCHANGED pending  \* a failure is a warning
    /\ batch' = [batch EXCEPT ![s] = {}]
    /\ Goto(s, "more")
    /\ UNCHANGED <<server, disk, nextId, queued, watcher, bundle, file>>

\* Further requests, without events.
SyncPushMore(s) ==
    /\ at[s] = "more"
    /\ Answered(s)
    /\ UNCHANGED <<server, disk, queue, watcher, at, file, batch>>

SyncPushed(s) ==
    /\ at[s] = "more"
    /\ Goto(s, IF bundle[s] = NoAnswer THEN "idle" ELSE "etag")
    /\ UNCHANGED <<server, disk, queue, watcher, bundle, file, batch>>

\* The policies of the answer get the ETag of the cache.
SyncEtag(s) ==
    /\ at[s] = "etag"
    /\ bundle' = [bundle EXCEPT ![s].etag = Load.etag]
    /\ Goto(s, "truncate")
    /\ UNCHANGED <<server, disk, queue, watcher, file, batch>>

\* A request fails or the process is killed.
SyncAbort(s) ==
    /\ at[s] # "idle"
    /\ Goto(s, "idle")
    /\ batch' = [batch EXCEPT ![s] = {}]
    /\ file' = [file EXCEPT ![s] = "gone"]
    /\ UNCHANGED <<server, disk, queue, watcher, bundle>>

SyncStep(s) ==
    \/ SyncRead(s) \/ SyncPush(s) \/ SyncDelete(s)
    \/ SyncPushMore(s) \/ SyncPushed(s)
    \/ SyncEtag(s) \/ Save(s)
    \/ SyncAbort(s)

-----------------------------------------------------------------------------

GuardSyncInit ==
    /\ version = 1
    /\ recorded = {}
    /\ cache = NoFile
    /\ tmp = NoFile
    /\ pending = {}
    /\ nextId = 1
    /\ up = FALSE
    /\ inForce = 0
    /\ etag = 0
    /\ fired = {}
    /\ at = [w \in Writers |-> IF w = Poller THEN "off" ELSE "idle"]
    /\ bundle = [w \in Writers |-> NoAnswer]
    /\ file = [w \in Writers |-> "gone"]
    /\ batch = [s \in Syncs |-> {}]
    /\ queued = {}

GuardSyncNext ==
    \/ Publish
    \/ WatchStart \/ WatchStop \/ PollerStep
    \/ \E k \in Breaches : Fire(k)
    \/ \E k \in Overrides : Override(k)
    \/ \E s \in Syncs : SyncStep(s)

GuardSyncSpec == GuardSyncInit /\ [][GuardSyncNext]_guardSyncVars

\* The poller's ticker fires for as long as the watcher runs, and a request
\* succeeds in the end.
FairGuardSyncSpec == GuardSyncSpec /\ WF_guardSyncVars(PollerStep)

-----------------------------------------------------------------------------

\* An audit event that was queued is in the queue or with the server, whatever
\* push was lost, repeated or answered late, and however many syncs run at
\* once (sync.go 281-299: rows are deleted by the ids that were sent).
NothingUnreported == queued \subseteq KeysOf(pending) \cup recorded

Trail == INSTANCE AuditTrail WITH
    Events <- Keys, waiting <- KeysOf(pending), reported <- recorded

\* So the queue, its syncs and the server, step by step, keep the promise of
\* AuditTrail: no step drops an event that the server was not told of, and a
\* late push of a sync whose rows another one has deleted tells it nothing that
\* it had not been told (sync.go 264-299).
KeepsTheTrail == Trail!AuditTrailSpec

\* While a watcher runs, the policies it enforces never go back to an older
\* set, although syncs save older answers in the cache it started from
\* (watch.go 201-216).
NeverGoesBack == [][up /\ up' => inForce' >= inForce]_guardSyncVars

\* A set that the server publishes and the running watcher's ETag does not
\* name is enforced in the end, or a newer one, also when it cannot be saved,
\* unless the watcher stops first (watch.go 201-216).
ChangesReachTheWatcher ==
    \A v \in Versions :
        (at[Poller] = "idle" /\ etag # version /\ version = v)
            ~> (inForce >= v \/ ~up)

\* The cache never has an ETag beside an empty policy set, as long as the
\* server has policies: the next poll would be told that nothing has changed.
\* (goei/client.go 373-375: Push returns the bundle on the answer, "nil when
\* the server sends none", and sync saves no nil.)
NoEtagForNothing == cache \in Bundle /\ cache.etag # 0 => cache.policies # 0
=============================================================================
