--------------------------- MODULE GuardSyncProofs --------------------------
(***************************************************************************)
(* Proofs about Guard Mode's cache, poller and audit queue, for any number *)
(* of sync processes and any bounds.                                       *)
(***************************************************************************)
EXTENDS GuardSync, TLAPS

SaveOrApply == SaveSteps \cup {"apply"}

\* What each process may be doing, and that it has something to save then.
StepsFit ==
    /\ at[Poller] \in SaveOrApply \cup {"off", "start", "idle"}
    /\ \A s \in Syncs : at[s] \in SaveSteps \cup {"idle", "push", "delete", "more", "etag"}
    /\ \A w \in Writers : at[w] \in SaveOrApply \cup {"etag"} => bundle[w] \in Bundle

\* No copy of the policies is newer than the server's.
NothingNewer ==
    /\ inForce <= version
    /\ cache \in Bundle => cache.policies <= version
    /\ tmp \in Bundle => tmp.policies <= version
    /\ \A w \in Writers : bundle[w] \in Bundle => bundle[w].policies <= version

\* What the poller is about to put in force is not older than what is.
PollIsNewer == at[Poller] \in SaveOrApply => inForce <= bundle[Poller].policies

\* An id names one row for ever.  What a sync has read waits or is with the
\* server, and what it is about to delete is with the server.
IdsNameRows ==
    /\ \A r \in pending : r.id < nextId
    /\ \A q, r \in pending : q.id = r.id => q = r
    /\ \A s \in Syncs : \A b \in batch[s] :
        /\ b.id < nextId
        /\ \A r \in pending : r.id = b.id => r.key = b.key
        /\ b.key \in KeysOf(pending) \cup recorded
        /\ at[s] = "delete" => b.key \in recorded

GuardSyncInv ==
    GuardSyncTypeOK /\ StepsFit /\ NothingNewer /\ PollIsNewer /\ IdsNameRows /\ NothingUnreported

USE GuardSyncSets
USE DEF Writers, SaveSteps, SaveOrApply, StepsFit, Steps

LEMMA GuardSyncInitInv == GuardSyncInit => GuardSyncInv
  <1> SUFFICES ASSUME GuardSyncInit PROVE GuardSyncInv
    OBVIOUS
  <1> USE DEF GuardSyncInit
  <1>1. GuardSyncTypeOK
    <2>1. 0 \in Versions /\ 1 \in Versions
      BY SMT DEF Versions
    <2>2. at \in [Writers -> Steps]
      BY SMT
    <2>3. /\ bundle \in [Writers -> Bundle \cup {NoAnswer}]
          /\ file \in [Writers -> {"tmp", "cache", "gone"}]
          /\ batch \in [Syncs -> SUBSET Row]
      BY SMT
    <2>4. nextId \in Nat
      BY SMT
    <2> QED  BY <2>1, <2>2, <2>3, <2>4, Zenon DEF GuardSyncTypeOK
  <1>2. StepsFit
    BY SMT
  <1>3. NothingNewer /\ PollIsNewer
    BY SMT DEF NothingNewer, PollIsNewer
  <1>4. IdsNameRows /\ NothingUnreported
    BY SMT DEF IdsNameRows, NothingUnreported
  <1> QED  BY <1>1, <1>2, <1>3, <1>4 DEF GuardSyncInv

-----------------------------------------------------------------------------
(* The queue.                                                              *)

QueueTypes ==
    /\ recorded \subseteq Keys
    /\ pending \subseteq Row
    /\ nextId \in Nat
    /\ fired \subseteq Breaches
    /\ batch \in [Syncs -> SUBSET Row]
    /\ queued \subseteq Keys
    /\ \A q, r \in pending : q.key = r.key => q = r

QueueInv == QueueTypes /\ IdsNameRows /\ NothingUnreported

\* A step that leaves the queue alone and lets no process start to delete.
LEMMA QueueUntouched ==
  ASSUME QueueInv, UNCHANGED <<queue, batch, recorded>>, fired' = fired \/ fired' = {},
         \A s \in Syncs : at'[s] = "delete" => at[s] = "delete"
  PROVE  QueueInv'
  <1>1. QueueTypes'
    BY SMT DEF QueueInv, QueueTypes, queue
  <1>2. IdsNameRows' /\ NothingUnreported'
    BY SMT DEF QueueInv, queue, IdsNameRows, NothingUnreported, KeysOf
  <1> QED  BY <1>1, <1>2 DEF QueueInv

LEMMA QueueEventKeepsQueue ==
  ASSUME QueueInv, NEW k \in Keys, QueueEvent(k),
         UNCHANGED <<batch, recorded, at>>, fired' \subseteq Breaches
  PROVE  QueueInv'
  <1> DEFINE row == [id |-> nextId, key |-> k]
  <1>0. row \in Row /\ row.id = nextId /\ row.key = k
    BY SMT DEF QueueInv, QueueTypes, Row
  <1>1. CASE /\ \E r \in pending : r.key = k
             /\ UNCHANGED <<pending, nextId>>
             /\ queued' = queued \cup {k}
    BY <1>1, SMT DEF QueueInv, QueueTypes, IdsNameRows, NothingUnreported, KeysOf
  <1>2. CASE /\ \A r \in pending : r.key # k
             /\ pending' = pending \cup {row}
             /\ nextId' = nextId + 1
             /\ queued' = queued \cup {k}
    <2>0. KeysOf(pending) \subseteq KeysOf(pending')
      BY <1>2, SMT DEF KeysOf
    <2>1. IdsNameRows'
      <3>1. /\ \A r \in pending' : r.id < nextId'
            /\ \A q, r \in pending' : q.id = r.id => q = r
        BY <1>0, <1>2, SMT DEF QueueInv, QueueTypes, IdsNameRows, Row
      <3>2. ASSUME NEW s \in Syncs, NEW b \in batch[s]
            PROVE  /\ b.id < nextId'
                   /\ \A r \in pending' : r.id = b.id => r.key = b.key
        BY <1>0, <1>2, SMT DEF QueueInv, QueueTypes, IdsNameRows, Row
      <3>3. ASSUME NEW s \in Syncs, NEW b \in batch[s]
            PROVE  /\ b.key \in KeysOf(pending') \cup recorded
                   /\ at[s] = "delete" => b.key \in recorded
        BY <2>0, Zenon DEF QueueInv, IdsNameRows
      <3> QED  BY <3>1, <3>2, <3>3, Zenon DEF IdsNameRows
    <2>2. NothingUnreported'
      BY <1>0, <1>2, SMT DEF QueueInv, QueueTypes, NothingUnreported, KeysOf
    <2>3. QueueTypes'
      BY <1>0, <1>2, SMT DEF QueueInv, QueueTypes
    <2> QED  BY <2>1, <2>2, <2>3 DEF QueueInv
  <1> QED  BY <1>1, <1>2 DEF QueueEvent, NewId

LEMMA EventsKeepQueue ==
  ASSUME QueueInv, NEW k, (k \in Breaches /\ Fire(k)) \/ (k \in Overrides /\ Override(k))
  PROVE  QueueInv'
  <1>1. k \in Keys
    BY DEF Keys
  <1>2. UNCHANGED <<batch, recorded, at>> /\ fired' \subseteq Breaches
    BY SMT DEF Fire, Override, server, watcher, QueueInv, QueueTypes
  <1>3. CASE QueueEvent(k)
    BY <1>1, <1>2, <1>3, QueueEventKeepsQueue
  <1>4. CASE UNCHANGED queue
    BY <1>2, <1>4, SMT DEF queue, QueueInv, QueueTypes, IdsNameRows, NothingUnreported, KeysOf
  <1> QED  BY <1>3, <1>4 DEF Fire, Override

\* The steps of a sync up to its last push; the other ones do not touch the
\* queue.
LEMMA SyncKeepsQueue ==
  ASSUME QueueInv, at \in [Writers -> Steps], NEW s \in Syncs, SyncStep(s)
  PROVE  QueueInv'
  <1> USE DEF Goto, server, queue, watcher
  <1>1. CASE SyncRead(s)
    <2>1. PICK rows \in {Oldest, {}} : batch' = [batch EXCEPT ![s] = rows]
      BY <1>1 DEF SyncRead
    <2>2. rows \subseteq pending
      BY <2>1, Zenon DEF Oldest
    <2>3. QueueTypes'
      BY <1>1, <2>1, <2>2, SMT DEF SyncRead, QueueInv, QueueTypes
    <2>4. NothingUnreported'
      BY <1>1, SMT DEF SyncRead, QueueInv, NothingUnreported, KeysOf
    <2>5. \A r \in rows : /\ r.id < nextId /\ r.key \in KeysOf(pending)
                           /\ \A q \in pending : q.id = r.id => q.key = r.key
      BY <2>2, SMT DEF QueueInv, QueueTypes, IdsNameRows, Row, KeysOf
    <2>6. IdsNameRows'
      BY <1>1, <2>1, <2>5, SMT DEF SyncRead, QueueInv, QueueTypes, IdsNameRows
    <2> QED  BY <2>3, <2>4, <2>6 DEF QueueInv
  <1>2. CASE SyncPush(s)
    <2>1. QueueTypes'
      BY <1>2, SMT DEF SyncPush, QueueInv, QueueTypes, KeysOf, Row
    <2>2. NothingUnreported'
      BY <1>2, SMT DEF SyncPush, QueueInv, NothingUnreported, KeysOf
    <2>3. IdsNameRows'
      BY <1>2, SMT DEF SyncPush, QueueInv, QueueTypes, IdsNameRows, KeysOf
    <2> QED  BY <2>1, <2>2, <2>3 DEF QueueInv
  <1>3. CASE SyncDelete(s)
    <2>1. QueueTypes'
      BY <1>3, SMT DEF SyncDelete, QueueInv, QueueTypes
    <2>2. \A r \in pending : r \in pending' \/ r.key \in recorded
      BY <1>3, SMT DEF SyncDelete, QueueInv, IdsNameRows
    <2>3. KeysOf(pending) \subseteq KeysOf(pending') \cup recorded
      BY <2>2, SMT DEF KeysOf
    <2>4. IdsNameRows'
      BY <1>3, <2>3, SMT DEF SyncDelete, QueueInv, QueueTypes, IdsNameRows
    <2>5. NothingUnreported'
      BY <1>3, <2>3, SMT DEF SyncDelete, QueueInv, NothingUnreported
    <2> QED  BY <2>1, <2>4, <2>5 DEF QueueInv
  <1>4. CASE SyncAbort(s)
    <2>1. QueueTypes'
      BY <1>4, SMT DEF SyncAbort, QueueInv, QueueTypes
    <2>2. IdsNameRows' /\ NothingUnreported'
      BY <1>4, SMT DEF SyncAbort, QueueInv, QueueTypes, IdsNameRows, NothingUnreported, KeysOf
    <2> QED  BY <2>1, <2>2 DEF QueueInv
  <1>5. CASE SyncPushMore(s) \/ SyncPushed(s) \/ SyncEtag(s)
    <2>1. UNCHANGED <<queue, batch, recorded>> /\ fired' = fired
      BY <1>5 DEF SyncPushMore, SyncPushed, SyncEtag
    <2>2. \A x \in Syncs : at'[x] = "delete" => at[x] = "delete"
      BY <1>5, SMT DEF SyncPushMore, SyncPushed, SyncEtag
    <2> QED  BY <2>1, <2>2, QueueUntouched
  <1>6. CASE Save(s)
    <2>1. UNCHANGED <<queue, batch, recorded>> /\ fired' = fired
      BY <1>6 DEF Save, Truncate, Write, Rename, RemoveTmp, SaveFails
    <2>2. \A x \in Syncs : at'[x] = "delete" => at[x] = "delete"
      BY <1>6, SMT DEF Save, Truncate, Write, Rename, RemoveTmp, SaveFails, AfterSave
    <2> QED  BY <2>1, <2>2, QueueUntouched
  <1> QED  BY <1>1, <1>2, <1>3, <1>4, <1>5, <1>6 DEF SyncStep

\* The server, the watcher and its poller do not touch the queue.
LEMMA WatchKeepsQueue ==
  ASSUME QueueInv, at \in [Writers -> Steps],
         Publish \/ WatchStart \/ WatchStop \/ PollerStep \/ UNCHANGED guardSyncVars
  PROVE  QueueInv'
  <1> USE DEF PollerStep, Save, guardSyncVars, server, queue, watcher
  <1>1. UNCHANGED <<queue, batch, recorded>> /\ (fired' = fired \/ fired' = {})
    BY DEF Publish, WatchStart, WatchStop, PollerStart, Poll, Apply,
       Truncate, Write, Rename, RemoveTmp, SaveFails
  <1>2. \A x \in Syncs : at'[x] = "delete" => at[x] = "delete"
    BY SMT DEF Publish, WatchStart, WatchStop, PollerStart, Poll, Apply,
       Truncate, Write, Rename, RemoveTmp, SaveFails, AfterSave, Goto
  <1> QED  BY <1>1, <1>2, QueueUntouched

-----------------------------------------------------------------------------
(* The policies.                                                           *)

PolicyTypes ==
    /\ version \in Versions
    /\ cache \in Bundle \cup {NoFile, Torn}
    /\ tmp \in Bundle \cup {NoFile, Torn}
    /\ up \in BOOLEAN
    /\ inForce \in Versions
    /\ etag \in Versions
    /\ at \in [Writers -> Steps]
    /\ bundle \in [Writers -> Bundle \cup {NoAnswer}]
    /\ file \in [Writers -> {"tmp", "cache", "gone"}]

PolicyInv == PolicyTypes /\ StepsFit /\ NothingNewer /\ PollIsNewer

\* The step of NeverGoesBack.
GoesForward == up /\ up' => inForce' >= inForce

\* An empty bundle and a bundle of a version are bundles.
LEMMA BundleFields ==
  /\ \A b \in Bundle : b.policies \in Versions /\ b.etag \in Versions
  /\ \A p, g \in Versions :
        /\ [policies |-> p, etag |-> g] \in Bundle
        /\ [policies |-> p, etag |-> g].policies = p
  /\ 0 \in Versions
  /\ Versions \subseteq Nat
  BY SMT DEF Bundle, Versions

LEMMA LoadIsBundle ==
  ASSUME PolicyInv
  PROVE  Load \in Bundle /\ Load.policies <= version
  BY BundleFields, SMT DEF PolicyInv, PolicyTypes, NothingNewer, Load

\* Any step of a save keeps the invariant.
LEMMA SaveKeepsPolicies ==
  ASSUME PolicyInv, NEW w \in Writers, Save(w)
  PROVE  PolicyInv' /\ GoesForward
  <1> USE BundleFields DEF PolicyInv, Goto, AfterSave, server, disk, queue, watcher
  <1>1. CASE Truncate(w)
    <2>1. PolicyTypes'
      BY <1>1, SMT DEF Truncate, PolicyTypes
    <2>2. StepsFit'
      BY <1>1, SMT DEF Truncate, PolicyTypes
    <2>3. NothingNewer' /\ PollIsNewer' /\ GoesForward
      BY <1>1, SMT DEF Truncate, PolicyTypes, NothingNewer, PollIsNewer, GoesForward
    <2> QED  BY <2>1, <2>2, <2>3
  <1>2. CASE Write(w)
    <2>1. PolicyTypes'
      BY <1>2, SMT DEF Write, PolicyTypes
    <2>2. StepsFit'
      BY <1>2, SMT DEF Write, PolicyTypes
    <2>3. NothingNewer' /\ PollIsNewer' /\ GoesForward
      BY <1>2, SMT DEF Write, PolicyTypes, NothingNewer, PollIsNewer, GoesForward
    <2> QED  BY <2>1, <2>2, <2>3
  <1>3. CASE Rename(w)
    <2>1. PolicyTypes'
      BY <1>3, SMT DEF Rename, PolicyTypes
    <2>2. StepsFit'
      BY <1>3, SMT DEF Rename, PolicyTypes
    <2>3. NothingNewer' /\ PollIsNewer' /\ GoesForward
      BY <1>3, SMT DEF Rename, PolicyTypes, NothingNewer, PollIsNewer, GoesForward
    <2> QED  BY <2>1, <2>2, <2>3
  <1>4. CASE RemoveTmp(w)
    <2>1. PolicyTypes'
      BY <1>4, SMT DEF RemoveTmp, PolicyTypes
    <2>2. StepsFit'
      BY <1>4, SMT DEF RemoveTmp, PolicyTypes
    <2>3. NothingNewer' /\ PollIsNewer' /\ GoesForward
      BY <1>4, SMT DEF RemoveTmp, PolicyTypes, NothingNewer, PollIsNewer, GoesForward
    <2> QED  BY <2>1, <2>2, <2>3
  <1>5. CASE SaveFails(w)
    <2>1. PolicyTypes'
      BY <1>5, SMT DEF SaveFails, PolicyTypes
    <2>2. StepsFit'
      BY <1>5, SMT DEF SaveFails, PolicyTypes
    <2>3. NothingNewer' /\ PollIsNewer' /\ GoesForward
      BY <1>5, SMT DEF SaveFails, PolicyTypes, NothingNewer, PollIsNewer, GoesForward
    <2> QED  BY <2>1, <2>2, <2>3
  <1> QED  BY <1>1, <1>2, <1>3, <1>4, <1>5 DEF Save

\* The server, the watcher and its poller.
LEMMA WatchKeepsPolicies ==
  ASSUME PolicyInv, Publish \/ WatchStart \/ WatchStop \/ PollerStart \/ Poll \/ Apply
  PROVE  PolicyInv' /\ GoesForward
  <1> USE BundleFields DEF PolicyInv, PolicyTypes, Goto, server, disk, queue, watcher
  <1>1. CASE Publish
    <2>1. PolicyTypes'
      BY <1>1, SMT DEF Publish, Versions
    <2>2. StepsFit'
      BY <1>1, SMT DEF Publish, Versions
    <2>3. NothingNewer' /\ PollIsNewer' /\ GoesForward
      BY <1>1, SMT DEF Publish, Versions, NothingNewer, PollIsNewer, GoesForward
    <2> QED  BY <2>1, <2>2, <2>3
  <1>2. CASE WatchStart
    <2>1. PolicyTypes'
      BY <1>2, LoadIsBundle, SMT DEF WatchStart
    <2>2. StepsFit'
      BY <1>2, LoadIsBundle, SMT DEF WatchStart
    <2>3. NothingNewer' /\ PollIsNewer' /\ GoesForward
      BY <1>2, LoadIsBundle, SMT DEF WatchStart, NothingNewer, PollIsNewer, GoesForward
    <2> QED  BY <2>1, <2>2, <2>3
  <1>3. CASE WatchStop
    <2>1. PolicyTypes'
      <3>1. up' \in BOOLEAN
        BY <1>3 DEF WatchStop
      <3>2. inForce' \in Versions /\ etag' \in Versions
        BY <1>3, SMT DEF WatchStop
      <3>3. /\ at' \in [Writers -> Steps]
            /\ bundle' \in [Writers -> Bundle \cup {NoAnswer}]
            /\ file' \in [Writers -> {"tmp", "cache", "gone"}]
        BY <1>3, SMT DEF WatchStop
      <3> QED  BY <1>3, <3>1, <3>2, <3>3, Zenon DEF WatchStop
    <2>2. StepsFit'
      BY <1>3, SMT DEF WatchStop
    <2>3. NothingNewer' /\ PollIsNewer' /\ GoesForward
      BY <1>3, SMT DEF WatchStop, NothingNewer, PollIsNewer, GoesForward
    <2> QED  BY <2>1, <2>2, <2>3
  <1>4. CASE PollerStart
    <2>1. PolicyTypes'
      BY <1>4, LoadIsBundle, SMT DEF PollerStart
    <2>2. StepsFit'
      BY <1>4, LoadIsBundle, SMT DEF PollerStart
    <2>3. NothingNewer' /\ PollIsNewer' /\ GoesForward
      BY <1>4, LoadIsBundle, SMT DEF PollerStart, NothingNewer, PollIsNewer, GoesForward
    <2> QED  BY <2>1, <2>2, <2>3
  <1>5. CASE Poll
    <2>1. PolicyTypes'
      BY <1>5, SMT DEF Poll
    <2>2. StepsFit'
      BY <1>5, SMT DEF Poll
    <2>3. NothingNewer' /\ PollIsNewer' /\ GoesForward
      BY <1>5, SMT DEF Poll, NothingNewer, PollIsNewer, GoesForward
    <2> QED  BY <2>1, <2>2, <2>3
  <1>6. CASE Apply
    <2>1. PolicyTypes'
      BY <1>6, SMT DEF Apply
    <2>2. StepsFit'
      BY <1>6, SMT DEF Apply
    <2>3. NothingNewer' /\ PollIsNewer' /\ GoesForward
      BY <1>6, SMT DEF Apply, NothingNewer, PollIsNewer, GoesForward
    <2> QED  BY <2>1, <2>2, <2>3
  <1> QED  BY <1>1, <1>2, <1>3, <1>4, <1>5, <1>6

\* What a push returns is not newer than the server.
LEMMA AnswerIsBundle ==
  ASSUME PolicyInv, NEW s \in Syncs, Answered(s)
  PROVE  /\ bundle' \in [Writers -> Bundle \cup {NoAnswer}]
         /\ \A w \in Writers : w # s => bundle'[w] = bundle[w]
         /\ \/ bundle'[s] = bundle[s]
            \/ bundle'[s] \in Bundle /\ bundle'[s].policies <= version
  <1> USE BundleFields DEF PolicyInv, PolicyTypes, NothingNewer
  <1>1. \/ bundle' = [bundle EXCEPT ![s] = [policies |-> version, etag |-> 0]]
        \/ bundle' = [bundle EXCEPT ![s] = [policies |-> 0, etag |-> 0]]
        \/ bundle' = bundle
    BY DEF Answered
  <1>2. CASE bundle' = [bundle EXCEPT ![s] = [policies |-> version, etag |-> 0]]
    BY <1>2, SMT
  <1>3. CASE bundle' = [bundle EXCEPT ![s] = [policies |-> 0, etag |-> 0]]
    BY <1>3, SMT
  <1>4. CASE bundle' = bundle
    <2>1. bundle' \in [Writers -> Bundle \cup {NoAnswer}]
      BY <1>4
    <2>2. bundle'[s] = bundle[s] /\ \A w \in Writers : bundle'[w] = bundle[w]
      BY <1>4
    <2> QED  BY <2>1, <2>2
  <1> QED  BY <1>1, <1>2, <1>3, <1>4

\* The steps of a sync.
LEMMA SyncKeepsPolicies ==
  ASSUME PolicyInv, NEW s \in Syncs, SyncStep(s), ~Save(s)
  PROVE  PolicyInv' /\ GoesForward
  <1> USE BundleFields DEF PolicyInv, PolicyTypes, Goto, server, disk, queue, watcher
  <1>1. CASE SyncRead(s)
    <2>1. PolicyTypes'
      BY <1>1, SMT DEF SyncRead
    <2>2. StepsFit'
      BY <1>1, SMT DEF SyncRead
    <2>3. NothingNewer' /\ PollIsNewer' /\ GoesForward
      BY <1>1, SMT DEF SyncRead, NothingNewer, PollIsNewer, GoesForward
    <2> QED  BY <2>1, <2>2, <2>3
  <1>2. CASE SyncPush(s)
    <2>1. PolicyTypes'
      BY <1>2, AnswerIsBundle, SMT DEF SyncPush
    <2>2. StepsFit'
      BY <1>2, AnswerIsBundle, SMT DEF SyncPush
    <2>3. NothingNewer' /\ PollIsNewer' /\ GoesForward
      BY <1>2, AnswerIsBundle, SMT DEF SyncPush, NothingNewer, PollIsNewer, GoesForward
    <2> QED  BY <2>1, <2>2, <2>3
  <1>3. CASE SyncDelete(s)
    <2>1. PolicyTypes'
      BY <1>3, SMT DEF SyncDelete
    <2>2. StepsFit'
      BY <1>3, SMT DEF SyncDelete
    <2>3. NothingNewer' /\ PollIsNewer' /\ GoesForward
      BY <1>3, SMT DEF SyncDelete, NothingNewer, PollIsNewer, GoesForward
    <2> QED  BY <2>1, <2>2, <2>3
  <1>4. CASE SyncPushMore(s)
    <2>1. PolicyTypes'
      BY <1>4, AnswerIsBundle, SMT DEF SyncPushMore
    <2>2. StepsFit'
      BY <1>4, AnswerIsBundle, SMT DEF SyncPushMore
    <2>3. NothingNewer' /\ PollIsNewer' /\ GoesForward
      BY <1>4, AnswerIsBundle, SMT DEF SyncPushMore, NothingNewer, PollIsNewer, GoesForward
    <2> QED  BY <2>1, <2>2, <2>3
  <1>5. CASE SyncPushed(s)
    <2>1. PolicyTypes'
      BY <1>5, SMT DEF SyncPushed
    <2>2. StepsFit'
      BY <1>5, SMT DEF SyncPushed
    <2>3. NothingNewer' /\ PollIsNewer' /\ GoesForward
      BY <1>5, SMT DEF SyncPushed, NothingNewer, PollIsNewer, GoesForward
    <2> QED  BY <2>1, <2>2, <2>3
  <1>6. CASE SyncEtag(s)
    <2> DEFINE new == [bundle[s] EXCEPT !.etag = Load.etag]
    <2>0. /\ bundle[s] \in Bundle
          /\ new \in Bundle /\ new.policies = bundle[s].policies
          /\ bundle' = [bundle EXCEPT ![s] = new]
      <3>1. bundle[s] \in Bundle
        BY <1>6, SMT DEF SyncEtag
      <3>2. new \in Bundle /\ new.policies = bundle[s].policies
        BY <3>1, LoadIsBundle, SMT DEF Bundle
      <3>3. bundle' = [bundle EXCEPT ![s] = new]
        BY <1>6 DEF SyncEtag
      <3> QED  BY <3>1, <3>2, <3>3
    <2> HIDE DEF new
    <2>1. PolicyTypes'
      BY <1>6, <2>0, SMT DEF SyncEtag
    <2>2. StepsFit'
      BY <1>6, <2>0, SMT DEF SyncEtag
    <2>3. NothingNewer' /\ PollIsNewer' /\ GoesForward
      BY <1>6, <2>0, SMT DEF SyncEtag, NothingNewer, PollIsNewer, GoesForward
    <2> QED  BY <2>1, <2>2, <2>3
  <1>7. CASE SyncAbort(s)
    <2>1. PolicyTypes'
      BY <1>7, SMT DEF SyncAbort
    <2>2. StepsFit'
      BY <1>7, SMT DEF SyncAbort
    <2>3. NothingNewer' /\ PollIsNewer' /\ GoesForward
      BY <1>7, SMT DEF SyncAbort, NothingNewer, PollIsNewer, GoesForward
    <2> QED  BY <2>1, <2>2, <2>3
  <1> QED  BY <1>1, <1>2, <1>3, <1>4, <1>5, <1>6, <1>7 DEF SyncStep

LEMMA EventKeepsPolicies ==
  ASSUME PolicyInv, NEW k, Fire(k) \/ Override(k) \/ UNCHANGED guardSyncVars
  PROVE  PolicyInv' /\ GoesForward
  BY SMT DEF Fire, Override, guardSyncVars, server, disk, watcher, PolicyInv, PolicyTypes,
     NothingNewer, PollIsNewer, GoesForward, Versions

-----------------------------------------------------------------------------

LEMMA InvIsBoth == GuardSyncInv <=> PolicyInv /\ QueueInv
  BY Zenon DEF GuardSyncInv, GuardSyncTypeOK, PolicyInv, PolicyTypes, QueueInv, QueueTypes

LEMMA GuardSyncStepInv ==
  ASSUME GuardSyncInv, [GuardSyncNext]_guardSyncVars
  PROVE  GuardSyncInv' /\ GoesForward
  <1>1. PolicyInv /\ QueueInv
    BY InvIsBoth
  <1>2. at \in [Writers -> Steps]
    BY <1>1, SMT DEF PolicyInv, PolicyTypes
  <1>3. CASE Publish \/ WatchStart \/ WatchStop \/ PollerStep
    <2>1. QueueInv'
      BY <1>1, <1>2, <1>3, WatchKeepsQueue
    <2>2. PolicyInv' /\ GoesForward
      BY <1>1, <1>3, WatchKeepsPolicies, SaveKeepsPolicies DEF PollerStep
    <2> QED  BY <2>1, <2>2, InvIsBoth, PTL
  <1>4. CASE \/ \E k \in Breaches : Fire(k)
             \/ \E k \in Overrides : Override(k)
    <2>1. PICK k : (k \in Breaches /\ Fire(k)) \/ (k \in Overrides /\ Override(k))
      BY <1>4
    <2>2. QueueInv'
      BY <1>1, <2>1, EventsKeepQueue
    <2>3. PolicyInv' /\ GoesForward
      BY <1>1, <2>1, EventKeepsPolicies
    <2> QED  BY <2>2, <2>3, InvIsBoth, PTL
  <1>5. CASE \E s \in Syncs : SyncStep(s)
    <2>1. QueueInv'
      BY <1>1, <1>2, <1>5, SyncKeepsQueue
    <2>2. PolicyInv' /\ GoesForward
      BY <1>1, <1>5, SyncKeepsPolicies, SaveKeepsPolicies
    <2> QED  BY <2>1, <2>2, InvIsBoth, PTL
  <1>6. CASE UNCHANGED guardSyncVars
    <2>1. QueueInv'
      BY <1>1, <1>2, <1>6, WatchKeepsQueue
    <2>2. PolicyInv' /\ GoesForward
      BY <1>1, <1>6, EventKeepsPolicies
    <2> QED  BY <2>1, <2>2, InvIsBoth, PTL
  <1> QED  BY <1>3, <1>4, <1>5, <1>6 DEF GuardSyncNext

LEMMA GuardSyncAlways == GuardSyncSpec => []GuardSyncInv
  <1>1. GuardSyncInv /\ [GuardSyncNext]_guardSyncVars => GuardSyncInv'
    BY GuardSyncStepInv
  <1> QED  BY <1>1, GuardSyncInitInv, PTL DEF GuardSyncSpec

\* Every variable keeps its type, and the queue has a key once.
THEOREM GuardSyncTypeCorrect == GuardSyncSpec => []GuardSyncTypeOK
  <1>1. GuardSyncInv => GuardSyncTypeOK
    BY DEF GuardSyncInv
  <1> QED  BY <1>1, GuardSyncAlways, PTL

\* No audit event gets lost between the queue and the server, whatever pushes
\* are lost or repeated, and however many syncs run at once.
THEOREM EventsReachTheServer == GuardSyncSpec => []NothingUnreported
  <1>1. GuardSyncInv => NothingUnreported
    BY DEF GuardSyncInv
  <1> QED  BY <1>1, GuardSyncAlways, PTL

\* A running watcher never goes back to older policies.
THEOREM PoliciesGoForward == GuardSyncSpec => NeverGoesBack
  <1>1. GuardSyncInv /\ [GuardSyncNext]_guardSyncVars
          => [up /\ up' => inForce' >= inForce]_guardSyncVars
    BY GuardSyncStepInv DEF GoesForward
  <1> QED  BY <1>1, GuardSyncAlways, PTL DEF GuardSyncSpec, NeverGoesBack

-----------------------------------------------------------------------------
(* The queue, its syncs and the server implement AuditTrail.               *)

LEMMA EventIsAccepted ==
  ASSUME NEW k \in Keys, QueueEvent(k) \/ UNCHANGED queue, UNCHANGED recorded
  PROVE  [Trail!AuditTrailNext]_Trail!auditTrailVars
  <1>1. CASE UNCHANGED <<pending, recorded>>
    BY <1>1 DEF Trail!auditTrailVars, KeysOf
  <1>2. CASE QueueEvent(k) /\ ~UNCHANGED pending
    <2>1. PICK row : pending' = pending \cup {row} /\ row.key = k
      <3>1. pending' = pending \cup {[id |-> NewId, key |-> k]}
        BY <1>2, Zenon DEF QueueEvent
      <3>2. [id |-> NewId, key |-> k].key = k
        OBVIOUS
      <3> QED  BY <3>1, <3>2, Zenon
    <2>2. KeysOf(pending') = KeysOf(pending) \cup {k}
      <3>1. KeysOf(pending') \subseteq KeysOf(pending) \cup {k}
        BY <2>1, SMT DEF KeysOf
      <3>2. KeysOf(pending) \cup {k} \subseteq KeysOf(pending')
        BY <2>1, SMT DEF KeysOf
      <3> QED  BY <3>1, <3>2
    <2>3. Trail!Accept(k)
      BY <2>2 DEF Trail!Accept, KeysOf
    <2> QED  BY <2>3 DEF Trail!AuditTrailNext
  <1> QED  BY <1>1, <1>2 DEF queue

\* Of the events of a push, the server learns the ones that still wait.
LEMMA PushIsReport ==
  ASSUME QueueInv, NEW s \in Syncs, SyncPush(s)
  PROVE  Trail!AuditTrailNext
  <1> DEFINE S == KeysOf(batch[s]) \cap KeysOf(pending)
  <1>1. recorded' = recorded \cup KeysOf(batch[s]) /\ pending' = pending
    BY Zenon DEF SyncPush, queue
  <1>2. KeysOf(batch[s]) \subseteq KeysOf(pending) \cup recorded
    <2>1. \A b \in batch[s] : b.key \in KeysOf(pending) \cup recorded
      BY Zenon DEF QueueInv, IdsNameRows
    <2> QED  BY <2>1, SMT DEF KeysOf
  <1>3. S \in SUBSET KeysOf(pending) /\ recorded' = recorded \cup S
    BY <1>1, <1>2
  <1>4. KeysOf(pending') = KeysOf(pending)
    BY <1>1 DEF KeysOf
  <1>5. Trail!Report
    BY <1>3, <1>4 DEF Trail!Report, KeysOf
  <1> QED  BY <1>5 DEF Trail!AuditTrailNext

\* The rows of a batch whose key waits are the rows that were sent.
LEMMA DeleteIsSettle ==
  ASSUME QueueInv, NEW s \in Syncs, SyncDelete(s)
  PROVE  Trail!AuditTrailNext
  <1> DEFINE S == KeysOf(pending) \ KeysOf(pending')
  <1>1. /\ pending' \subseteq pending
        /\ \A r \in pending : r \in pending' \/ r.key \in recorded
    BY SMT DEF SyncDelete, QueueInv, IdsNameRows
  <1>2. KeysOf(pending') \subseteq KeysOf(pending) /\ S \subseteq recorded
    BY <1>1, SMT DEF KeysOf
  <1>3. S \in SUBSET (KeysOf(pending) \cap recorded) /\ KeysOf(pending') = KeysOf(pending) \ S
    BY <1>2
  <1>4. recorded' = recorded
    BY Zenon DEF SyncDelete, server
  <1>5. Trail!Settle
    BY <1>3, <1>4 DEF Trail!Settle, KeysOf
  <1> QED  BY <1>5 DEF Trail!AuditTrailNext

LEMMA StepKeepsTheTrail ==
  ASSUME QueueInv, [GuardSyncNext]_guardSyncVars
  PROVE  [Trail!AuditTrailNext]_Trail!auditTrailVars
  <1> USE DEF Trail!auditTrailVars, KeysOf
  <1>1. CASE UNCHANGED guardSyncVars \/ Publish \/ WatchStart \/ WatchStop \/ PollerStep
    <2>1. UNCHANGED <<pending, recorded>>
      BY <1>1 DEF guardSyncVars, Publish, WatchStart, WatchStop, PollerStep, PollerStart, Poll,
         Apply, Save, Truncate, Write, Rename, RemoveTmp, SaveFails, server, queue
    <2> QED  BY <2>1
  <1>2. ASSUME NEW k \in Breaches, Fire(k) PROVE [Trail!AuditTrailNext]_Trail!auditTrailVars
    BY <1>2, EventIsAccepted DEF Fire, server, Keys
  <1>3. ASSUME NEW k \in Overrides, Override(k)
        PROVE  [Trail!AuditTrailNext]_Trail!auditTrailVars
    BY <1>3, EventIsAccepted DEF Override, server, Keys
  <1>4. ASSUME NEW s \in Syncs, SyncStep(s) PROVE [Trail!AuditTrailNext]_Trail!auditTrailVars
    <2>1. CASE SyncPush(s) \/ SyncDelete(s)
      BY <2>1, PushIsReport, DeleteIsSettle
    <2>2. CASE ~(SyncPush(s) \/ SyncDelete(s))
      <3>1. UNCHANGED <<pending, recorded>>
        BY <1>4, <2>2 DEF SyncStep, SyncRead, SyncPushMore, SyncPushed, SyncEtag, SyncAbort,
           Save, Truncate, Write, Rename, RemoveTmp, SaveFails, server, queue
      <3> QED  BY <3>1
    <2> QED  BY <2>1, <2>2
  <1> QED  BY <1>1, <1>2, <1>3, <1>4 DEF GuardSyncNext

\* Any number of syncs, with a server that may hear and not be heard, keep the
\* promise of AuditTrail.
THEOREM GuardSyncImplementsAuditTrail == GuardSyncSpec => KeepsTheTrail
  <1>1. GuardSyncInit => Trail!AuditTrailInit
    BY DEF GuardSyncInit, Trail!AuditTrailInit, KeysOf
  <1>2. GuardSyncInv /\ [GuardSyncNext]_guardSyncVars
          => [Trail!AuditTrailNext]_Trail!auditTrailVars
    BY StepKeepsTheTrail, InvIsBoth
  <1> QED  BY <1>1, <1>2, GuardSyncAlways, PTL DEF GuardSyncSpec, KeepsTheTrail, Trail!AuditTrailSpec
=============================================================================
