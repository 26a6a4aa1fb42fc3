-------------------------- MODULE SyncWindowProofs --------------------------
(***************************************************************************)
(* Theorems about SyncWindow and Periods for any responses, keys, number   *)
(* of days, syncs, request limits, time zones and calendars.               *)
(***************************************************************************)
EXTENDS SyncWindow, TLAPS

-----------------------------------------------------------------------------
(* The calendar.                                                           *)

\* Every instant is within its UTC day.
LEMMA DayOfTime ==
    ASSUME NEW t \in Int
    PROVE  DayOf(t) \in Int /\ 24 * DayOf(t) <= t /\ t < 24 * DayOf(t) + 24
  BY DEF DayOf

\* The sums cover the whole period, and at most the rest of the UTC days at
\* its ends.
LEMMA BoundsCover ==
    ASSUME NEW t \in Int, NEW u \in Int, NEW zone \in (-23)..23,
           NEW first \in Int, NEW next \in Int, first < next,
           NEW bounds, bounds = [start |-> Midnight(first, zone), end |-> Midnight(next, zone) - 1]
    PROVE  /\ first <= LocalDay(u, zone) /\ LocalDay(u, zone) < next => InRollupSum(u, bounds)
           /\ InRollupSum(u, bounds) => bounds.start - 24 < u /\ u < bounds.end + 24
           /\ zone = 0 /\ InRollupSum(u, bounds)
                => first <= LocalDay(u, zone) /\ LocalDay(u, zone) < next
  BY DEF DayOf, LocalDay, Midnight, InRollupSum

\* The statement of CapSeesThePeriod for one instant.
LEMMA PeriodIsCovered ==
    ASSUME NEW p \in PeriodNames, NEW zone \in Offsets, NEW t \in Int, NEW u \in Int,
           LocalDay(t, zone) \in LocalDays, LocalDay(u, zone) \in LocalDays
    PROVE  LET bounds == PeriodBounds(p, t, zone)
           IN  /\ SamePeriod(p, u, t, zone) => InRollupSum(u, bounds)
               /\ InRollupSum(u, bounds) => bounds.start - 24 < u /\ u < bounds.end + 24
               /\ zone = 0 /\ InRollupSum(u, bounds) => SamePeriod(p, u, t, zone)
  <1> DEFINE first == FirstDay[p][LocalDay(t, zone)]
             next == NextDay[p][LocalDay(t, zone)]
  <1>1. first \in Int /\ next \in Int /\ first < next
    <2>1. FirstDay[p] \in [LocalDays -> Int] /\ NextDay[p] \in [LocalDays -> Int]
      BY PeriodsCalendar
    <2>2. \A d \in LocalDays : d \in Int /\ FirstDay[p][d] <= d /\ d < NextDay[p][d]
      BY PeriodsCalendar
    <2>3. \A d \in LocalDays : FirstDay[p][d] \in Int /\ NextDay[p][d] \in Int
      BY <2>1
    <2>4. \A d \in LocalDays : FirstDay[p][d] < NextDay[p][d]
      BY <2>2, <2>3
    <2> QED BY <2>3, <2>4
  <1>2. first <= LocalDay(u, zone) /\ LocalDay(u, zone) < next <=> SamePeriod(p, u, t, zone)
    <2>1. \A d, e \in LocalDays :
             FirstDay[p][d] <= e /\ e < NextDay[p][d] <=> FirstDay[p][e] = FirstDay[p][d]
      BY PeriodsCalendar
    <2> QED BY <2>1 DEF SamePeriod
  <1>3. zone \in (-23)..23
    BY PeriodsZones
  <1>4. PeriodBounds(p, t, zone)
            = [start |-> Midnight(first, zone), end |-> Midnight(next, zone) - 1]
    BY DEF PeriodBounds
  <1> HIDE DEF first, next
  <1> QED BY <1>1, <1>2, <1>3, <1>4, BoundsCover

-----------------------------------------------------------------------------
(* Types.                                                                  *)

LEMMA TimesAreInts == Times \subseteq Int /\ \A t \in Times : DayOf(t) \in Days
  BY SyncWindowSets DEF Times, Days, DayOf

LEMMA ReadType ==
    ASSUME eventAt \in Events, NEW since
    PROVE  SyncAggregates(since) \in Events
  BY DEF SyncAggregates, Events

\* A day has a record exactly when a response was read of it.
LEMMA DaysOfRead ==
    ASSUME NEW read \in Events
    PROVE  /\ DaysOf(read) \subseteq Days
           /\ \A d \in DaysOf(read) : \E r \in Responses : read[r] # NotYet /\ DayOf(read[r]) = d
           /\ \A r \in Responses : read[r] # NotYet =>
                 /\ DayOf(read[r]) \in DaysOf(read)
                 /\ BranchOf[r] \in KeysOf(read, DayOf(read[r]))
                 /\ r \in Amount(read, DayOf(read[r]), BranchOf[r])
  BY TimesAreInts, SyncWindowSets DEF DaysOf, KeysOf, Amount, Events

LEMMA UpsertType ==
    ASSUME server \in [Days -> [Branches -> SUBSET Responses]], NEW read, NEW days
    PROVE  Upsert(read, days) \in [Days -> [Branches -> SUBSET Responses]]
  BY DEF Upsert, Amount

\* An instant that does not come earlier is not of an earlier day.
LEMMA DayMonotone ==
    ASSUME NEW t \in Int, NEW u \in Int, t <= u
    PROVE  DayOf(t) <= DayOf(u)
  BY DEF DayOf

LEMMA StartsAreInts ==
    ASSUME now \in Times, NEW since \in WindowStarts
    PROVE  since \in Int
  <1>1. Zone \in Int /\ now \in Int /\ \A n \in Windows : n \in Int
    BY SyncWindowSets, PeriodsZones, TimesAreInts
  <1>2. \A d \in Days : d \in Int
    BY SyncWindowSets DEF Days
  <1> QED BY <1>1, <1>2 DEF WindowStarts, Midnight

\* What every sync has read is stored, under the same or a later timestamp.
ReadsAreStored ==
    \A s \in Syncs : \A r \in Responses : sync[s].read[r] # NotYet =>
        eventAt[r] # NotYet /\ sync[s].read[r] <= eventAt[r]

\* For a sync that none has pushed beside: what the server has of a whole day
\* that is still to be sent was read, or has moved on.
LeftIsRead ==
    \A s \in Syncs \ overtaken : \A d \in sync[s].left, b \in Branches :
        WholeDay(s, d) => \A r \in server[d][b] :
            r \in Amount(sync[s].read, d, b) \/ DayOf(eventAt[r]) # d

\* And what it read of a day that is not to be sent any more is on the server.
SentIsThere ==
    \A s \in Syncs \ overtaken : sync[s].left # {} =>
        \A r \in Responses : sync[s].read[r] # NotYet =>
            \/ DayOf(sync[s].read[r]) \in sync[s].left
            \/ r \in server[DayOf(sync[s].read[r])][BranchOf[r]]

SyncInv == SyncTypeOK /\ ReadsAreStored /\ ServerOnlyKnows /\ LeftIsRead /\ SentIsThere

-----------------------------------------------------------------------------
(* The actions keep the types.                                             *)

LEMMA NoSyncType == NoSync \in Sync /\ NoSync.left = {} /\ \A r \in Responses : NoSync.read[r] = NotYet
  BY DEF NoSync, Sync, Events

LEMMA InitTypes == SyncWindowInit => SyncTypeOK
  <1> SUFFICES ASSUME SyncWindowInit PROVE SyncTypeOK
    OBVIOUS
  <1>1. 0 \in Times
    BY SyncWindowSets DEF Times, Days
  <1> QED BY <1>1, NoSyncType DEF SyncWindowInit, SyncTypeOK, Events

\* A push leaves a part of the days to be sent, or ends the sync.
LEMMA PushTypes ==
    ASSUME SyncTypeOK, NEW s \in Syncs, Push(s) \/ GiveUp(s)
    PROVE  SyncTypeOK'
  <1>1. server' \in [Days -> [Branches -> SUBSET Responses]] /\ overtaken' \subseteq Syncs
    BY UpsertType DEF SyncTypeOK, Push, GiveUp, Accepted
  <1>2. /\ now' \in Times /\ eventAt' \in Events
    BY DEF SyncTypeOK, Push, GiveUp
  <1>3. DaysAfter(s) \subseteq sync[s].left
    BY DEF DaysAfter
  <1>4. \/ sync' = [sync EXCEPT ![s] = NoSync]
        \/ sync' = [sync EXCEPT ![s] = [sync[s] EXCEPT !.left = DaysAfter(s)]]
    BY DEF Push, GiveUp, SyncTypeOK
  <1>5. sync' \in [Syncs -> Sync]
    BY <1>3, <1>4, NoSyncType DEF SyncTypeOK, Sync
  <1>6. \A o \in Syncs : \/ sync'[o] = NoSync
                         \/ /\ sync'[o].left \subseteq sync[o].left
                            /\ sync'[o].read = sync[o].read
    BY <1>3, <1>4 DEF SyncTypeOK, Sync
  <1>7. \A o \in Syncs : \A d \in sync'[o].left :
            \E r \in Responses : sync'[o].read[r] # NotYet /\ DayOf(sync'[o].read[r]) = d
    BY <1>6, NoSyncType DEF SyncTypeOK
  <1> QED BY <1>1, <1>2, <1>5, <1>7 DEF SyncTypeOK

LEMMA StartTypes ==
    ASSUME SyncTypeOK, NEW s \in Syncs, StartSync(s)
    PROVE  SyncTypeOK'
  <1>1. PICK since \in WindowStarts :
            sync' = [sync EXCEPT ![s] = [since |-> since, read |-> SyncAggregates(since),
                                         left |-> DaysOf(SyncAggregates(since))]]
    BY DEF StartSync
  <1>2. since \in Int /\ SyncAggregates(since) \in Events
    BY StartsAreInts, ReadType DEF SyncTypeOK
  <1> DEFINE read == SyncAggregates(since)
  <1>3. /\ DaysOf(read) \subseteq Days
        /\ \A d \in DaysOf(read) : \E r \in Responses : read[r] # NotYet /\ DayOf(read[r]) = d
    BY <1>2, DaysOfRead
  <1> HIDE DEF read
  <1>4. sync' = [sync EXCEPT ![s] = [since |-> since, read |-> read, left |-> DaysOf(read)]]
    BY <1>1 DEF read
  <1>5. read \in Events
    BY <1>2 DEF read
  <1>6. sync' \in [Syncs -> Sync]
    BY <1>2, <1>3, <1>4, <1>5 DEF SyncTypeOK, Sync
  <1>7. \A o \in Syncs : \A d \in sync'[o].left :
            \E r \in Responses : sync'[o].read[r] # NotYet /\ DayOf(sync'[o].read[r]) = d
    BY <1>3, <1>4 DEF SyncTypeOK
  <1>8. now' = now /\ eventAt' = eventAt /\ server' = server /\ overtaken' \subseteq overtaken
    BY DEF StartSync
  <1> QED BY <1>6, <1>7, <1>8 DEF SyncTypeOK

LEMMA StepTypes == SyncTypeOK /\ [SyncWindowNext]_syncVars => SyncTypeOK'
  <1> SUFFICES ASSUME SyncTypeOK, [SyncWindowNext]_syncVars PROVE SyncTypeOK'
    OBVIOUS
  <1>1. CASE Tick
    BY <1>1 DEF SyncTypeOK, Tick
  <1>2. CASE \E r \in Responses : Insert(r) \/ Replace(r)
    <2>1. eventAt' \in Events /\ UNCHANGED <<now, server, sync, overtaken>>
      BY <1>2 DEF SyncTypeOK, Insert, Replace, Events
    <2> QED BY <2>1 DEF SyncTypeOK
  <1>3. ASSUME NEW s \in Syncs, StartSync(s) PROVE SyncTypeOK'
    BY <1>3, StartTypes
  <1>4. ASSUME NEW s \in Syncs, Push(s) \/ GiveUp(s) PROVE SyncTypeOK'
    BY <1>4, PushTypes
  <1>5. CASE UNCHANGED syncVars
    BY <1>5 DEF SyncTypeOK, syncVars
  <1> QED BY <1>1, <1>2, <1>3, <1>4, <1>5 DEF SyncWindowNext

\* The types of SyncWindow hold in every behaviour, and every day a sync still
\* has to send has a record.
THEOREM SyncTypeCorrect == SyncWindowSpec => []SyncTypeOK
  BY InitTypes, StepTypes, PTL DEF SyncWindowSpec

-----------------------------------------------------------------------------
(* What the server has.                                                    *)

\* No step takes a response away or puts it on an earlier time.
LEMMA TimesGrow ==
    ASSUME SyncTypeOK, [SyncWindowNext]_syncVars
    PROVE  \A r \in Responses : eventAt[r] # NotYet =>
               /\ eventAt[r] \in Int /\ eventAt'[r] \in Int /\ eventAt'[r] # NotYet
               /\ eventAt[r] <= eventAt'[r]
               /\ DayOf(eventAt[r]) <= DayOf(eventAt'[r])
               /\ DayOf(eventAt[r]) \in Int /\ DayOf(eventAt'[r]) \in Int
  <1>1. \A r \in Responses : eventAt[r] # NotYet => eventAt[r] \in Int
    BY TimesAreInts DEF SyncTypeOK, Events
  <1>2. \A r \in Responses : eventAt[r] # NotYet =>
            eventAt'[r] \in Int /\ eventAt'[r] # NotYet /\ eventAt[r] <= eventAt'[r]
    <2>1. CASE eventAt' = eventAt
      BY <1>1, <2>1
    <2>2. ASSUME NEW q \in Responses, Insert(q) \/ Replace(q)
          PROVE  \A r \in Responses : eventAt[r] # NotYet =>
                     eventAt'[r] \in Int /\ eventAt'[r] # NotYet /\ eventAt[r] <= eventAt'[r]
      BY <1>1, <2>2, TimesAreInts, SyncWindowSets DEF Insert, Replace, SyncTypeOK, Events
    <2> QED BY <2>1, <2>2 DEF SyncWindowNext, Tick, StartSync, Push, GiveUp, syncVars
  <1> QED BY <1>1, <1>2, DayMonotone, DayOfTime

\* The cases of a step, as far as these invariants tell them apart: the syncs
\* stay, one starts, one pushes, or one gives up without an accepted request.
LEMMA StepCases ==
    ASSUME SyncTypeOK, [SyncWindowNext]_syncVars
    PROVE  \/ UNCHANGED <<server, sync, overtaken>>
           \/ \E s \in Syncs : StartSync(s)
           \/ \E s \in Syncs :
                /\ sync[s].left # {} /\ eventAt' = eventAt /\ Accepted(s)
                /\ \/ sync' = [sync EXCEPT ![s] = NoSync]
                   \/ sync' = [sync EXCEPT ![s] = [sync[s] EXCEPT !.left = DaysAfter(s)]]
           \/ \E s \in Syncs :
                /\ UNCHANGED <<eventAt, server, overtaken>>
                /\ sync' = [sync EXCEPT ![s] = NoSync]
  BY DEF SyncWindowNext, Tick, Insert, Replace, Push, GiveUp, syncVars, SyncTypeOK

LEMMA InitInv == SyncWindowInit => SyncInv
  <1> SUFFICES ASSUME SyncWindowInit PROVE SyncInv
    OBVIOUS
  <1>1. \A s \in Syncs : sync[s] = NoSync
    BY DEF SyncWindowInit
  <1>2. \A d \in Days, b \in Branches : server[d][b] = {}
    BY DEF SyncWindowInit
  <1> QED BY <1>1, <1>2, InitTypes, NoSyncType
          DEF SyncInv, ReadsAreStored, ServerOnlyKnows, LeftIsRead, SentIsThere

\* What a sync that starts has read.
LEMMA StartReads ==
    ASSUME SyncTypeOK, NEW s \in Syncs, StartSync(s)
    PROVE  /\ UNCHANGED <<eventAt, server>> /\ overtaken' = overtaken \ {s}
           /\ \A o \in Syncs \ {s} : sync'[o] = sync[o]
           /\ sync'[s].since \in Int
           /\ \A r \in Responses :
                /\ sync'[s].read[r] # NotYet => sync'[s].read[r] = eventAt[r]
                /\ eventAt[r] # NotYet /\ eventAt[r] >= sync'[s].since
                        => sync'[s].read[r] = eventAt[r]
                /\ sync'[s].read[r] # NotYet => DayOf(sync'[s].read[r]) \in sync'[s].left
  <1>1. PICK since \in WindowStarts :
            sync' = [sync EXCEPT ![s] = [since |-> since, read |-> SyncAggregates(since),
                                         left |-> DaysOf(SyncAggregates(since))]]
    BY DEF StartSync
  <1>2. since \in Int /\ SyncAggregates(since) \in Events
    BY StartsAreInts, ReadType DEF SyncTypeOK
  <1>3. \A r \in Responses : SyncAggregates(since)[r] # NotYet =>
            DayOf(SyncAggregates(since)[r]) \in DaysOf(SyncAggregates(since))
    BY <1>2, DaysOfRead
  <1>4. \A r \in Responses :
            /\ SyncAggregates(since)[r] # NotYet => SyncAggregates(since)[r] = eventAt[r]
            /\ eventAt[r] # NotYet /\ eventAt[r] >= since => SyncAggregates(since)[r] = eventAt[r]
    BY DEF SyncAggregates
  <1>5. /\ sync'[s].since = since /\ sync'[s].read = SyncAggregates(since)
        /\ sync'[s].left = DaysOf(SyncAggregates(since))
        /\ \A o \in Syncs \ {s} : sync'[o] = sync[o]
    BY <1>1 DEF SyncTypeOK
  <1> QED BY <1>2, <1>3, <1>4, <1>5 DEF StartSync

LEMMA StepReads ==
    SyncTypeOK /\ ReadsAreStored /\ [SyncWindowNext]_syncVars => ReadsAreStored'
  <1> SUFFICES ASSUME SyncTypeOK, ReadsAreStored, [SyncWindowNext]_syncVars
               PROVE  ReadsAreStored'
    OBVIOUS
  <1> SUFFICES ASSUME NEW s \in Syncs, NEW r \in Responses, sync'[s].read[r] # NotYet
               PROVE  eventAt'[r] # NotYet /\ sync'[s].read[r] <= eventAt'[r]
    BY DEF ReadsAreStored
  <1>1. CASE sync'[s].read = sync[s].read
    <2>1. sync[s].read[r] \in Int
      <3>1. sync[s].read \in Events
        BY DEF SyncTypeOK, Sync
      <3> QED BY <1>1, <3>1, TimesAreInts DEF Events
    <2>2. eventAt[r] # NotYet /\ sync[s].read[r] <= eventAt[r]
      BY <1>1 DEF ReadsAreStored
    <2>3. /\ eventAt[r] \in Int /\ eventAt'[r] \in Int /\ eventAt'[r] # NotYet
          /\ eventAt[r] <= eventAt'[r]
      BY <2>2, TimesGrow
    <2> QED BY <1>1, <2>1, <2>2, <2>3
  <1>2. CASE StartSync(s)
    <2>1. sync'[s].read[r] = eventAt[r] /\ eventAt' = eventAt
      BY <1>2, StartReads
    <2>2. eventAt[r] # NotYet
      BY <2>1
    <2>3. eventAt[r] \in Int
      BY <2>2, TimesAreInts DEF SyncTypeOK, Events
    <2> QED BY <2>1, <2>2, <2>3
  <1>3. sync'[s].read = sync[s].read \/ StartSync(s)
    <2>1. ASSUME NEW o \in Syncs, StartSync(o) PROVE sync'[s].read = sync[s].read \/ StartSync(s)
      BY <2>1, StartReads
    <2>2. ASSUME NEW o \in Syncs,
                 \/ sync' = [sync EXCEPT ![o] = NoSync]
                 \/ sync' = [sync EXCEPT ![o] = [sync[o] EXCEPT !.left = DaysAfter(o)]]
          PROVE  sync'[s].read = sync[s].read
      <3>1. sync'[s] = sync[s] \/ sync'[s] = NoSync
            \/ sync'[s] = [sync[s] EXCEPT !.left = DaysAfter(s)]
        BY <2>2 DEF SyncTypeOK
      <3> QED BY <3>1, NoSyncType DEF SyncTypeOK, Sync
    <2> QED BY <2>1, <2>2, StepCases
  <1> QED BY <1>1, <1>2, <1>3

\* After a push the server has what was sent, and the rest as it was.
LEMMA AfterUpsert ==
    ASSUME SyncTypeOK, NEW s \in Syncs, Accepted(s), NEW d \in Days, NEW b \in Branches
    PROVE  /\ d \in SentBy(s) /\ b \in KeysOf(sync[s].read, d)
                => server'[d][b] = Amount(sync[s].read, d, b)
           /\ ~(d \in SentBy(s) /\ b \in KeysOf(sync[s].read, d)) => server'[d][b] = server[d][b]
  BY DEF Accepted, Upsert

LEMMA StepServer ==
    SyncTypeOK /\ ReadsAreStored /\ ServerOnlyKnows /\ [SyncWindowNext]_syncVars
        => ServerOnlyKnows'
  <1> SUFFICES ASSUME SyncTypeOK, ReadsAreStored, ServerOnlyKnows, [SyncWindowNext]_syncVars,
                      NEW d \in Days, NEW b \in Branches, NEW r \in server'[d][b]
               PROVE  eventAt'[r] # NotYet /\ BranchOf[r] = b /\ d <= DayOf(eventAt'[r])
    BY DEF ServerOnlyKnows, Days
  <1>1. d \in Int
    BY SyncWindowSets DEF Days
  <1>2. CASE r \in server[d][b]
    <2>1. r \in Responses /\ eventAt[r] # NotYet /\ BranchOf[r] = b /\ d <= DayOf(eventAt[r])
      BY <1>2 DEF ServerOnlyKnows, SyncTypeOK
    <2> QED BY <1>1, <2>1, TimesGrow
  <1>3. ASSUME NEW s \in Syncs, Accepted(s), eventAt' = eventAt, r \notin server[d][b]
        PROVE  eventAt'[r] # NotYet /\ BranchOf[r] = b /\ d <= DayOf(eventAt'[r])
    <2>1. r \in Amount(sync[s].read, d, b)
      BY <1>3, AfterUpsert
    <2>2. r \in Responses /\ sync[s].read[r] # NotYet /\ DayOf(sync[s].read[r]) = d
          /\ BranchOf[r] = b
      BY <2>1 DEF Amount
    <2>3. eventAt[r] # NotYet /\ sync[s].read[r] <= eventAt[r]
      BY <2>2 DEF ReadsAreStored
    <2>4. sync[s].read[r] \in Int /\ eventAt[r] \in Int
      BY <2>2, <2>3, TimesAreInts DEF SyncTypeOK, Sync, Events
    <2> QED BY <1>3, <2>2, <2>3, <2>4, DayMonotone
  <1>4. r \in server[d][b] \/ \E s \in Syncs : Accepted(s) /\ eventAt' = eventAt
    BY StepCases, StartReads
  <1> QED BY <1>2, <1>3, <1>4

-----------------------------------------------------------------------------
(* What the syncs have still to send, and what they have sent.             *)

\* A sync that has not ended and that none pushed beside was not so before
\* either, unless it just started or it is the one that pushes.
LEMMA StepLeft ==
    SyncInv /\ [SyncWindowNext]_syncVars => LeftIsRead'
  <1> SUFFICES ASSUME SyncInv, [SyncWindowNext]_syncVars,
                      NEW s \in Syncs, s \notin overtaken', NEW d \in sync'[s].left,
                      NEW b \in Branches, WholeDay(s, d)', NEW r \in server'[d][b]
               PROVE  r \in Amount(sync'[s].read, d, b) \/ DayOf(eventAt'[r]) # d
    BY DEF LeftIsRead
  <1>t. SyncTypeOK /\ SyncTypeOK'
    BY StepTypes DEF SyncInv
  <1>d. d \in Days /\ d \in Int
    BY <1>t, SyncWindowSets DEF SyncTypeOK, Sync, Days
  <1>1. CASE UNCHANGED <<sync, overtaken>> /\ server'[d][b] = server[d][b]
    <2>1. r \in Amount(sync[s].read, d, b) \/ DayOf(eventAt[r]) # d
      BY <1>1 DEF SyncInv, LeftIsRead, WholeDay
    <2>2. r \in Responses /\ eventAt[r] # NotYet /\ d <= DayOf(eventAt[r])
      BY <1>1, <1>t, <1>d DEF SyncInv, ServerOnlyKnows, SyncTypeOK
    <2>3. DayOf(eventAt[r]) <= DayOf(eventAt'[r]) /\ DayOf(eventAt[r]) \in Int /\ DayOf(eventAt'[r]) \in Int
      BY <1>t, <2>2, TimesGrow
    <2> QED BY <1>1, <1>d, <2>1, <2>2, <2>3
  <1>2. CASE StartSync(s)
    <2>1. r \in server[d][b] /\ eventAt' = eventAt
      BY <1>2, <1>t, StartReads
    <2>2. r \in Responses /\ eventAt[r] # NotYet /\ BranchOf[r] = b /\ d <= DayOf(eventAt[r])
      BY <2>1, <1>t, <1>d DEF SyncInv, ServerOnlyKnows, SyncTypeOK
    <2>3. CASE DayOf(eventAt[r]) = d
      <3>1. eventAt[r] \in Int
        BY <2>2, <1>t, TimesAreInts DEF SyncTypeOK, Events
      <3>2. eventAt[r] >= 24 * d
        BY <2>3, <3>1, DayOfTime
      <3>3. sync'[s].since \in Int /\ sync'[s].since <= 24 * d
        BY <1>2, <1>t, StartReads DEF WholeDay
      <3>4. sync'[s].read[r] = eventAt[r]
        BY <1>2, <1>t, <2>2, <3>1, <3>2, <3>3, <1>d, StartReads
      <3> QED BY <2>2, <2>3, <3>4 DEF Amount
    <2> QED BY <2>1, <2>3
  <1>3. ASSUME NEW o \in Syncs, o # s, StartSync(o)
        PROVE  r \in Amount(sync'[s].read, d, b) \/ DayOf(eventAt'[r]) # d
    <2>1. /\ server' = server /\ eventAt' = eventAt
          /\ s \notin overtaken /\ sync'[s] = sync[s]
      BY <1>3, <1>t, StartReads
    <2> QED BY <2>1 DEF SyncInv, LeftIsRead, WholeDay
  <1>4. ASSUME NEW o \in Syncs, sync[o].left # {}, eventAt' = eventAt, Accepted(o),
               \/ sync' = [sync EXCEPT ![o] = NoSync]
               \/ sync' = [sync EXCEPT ![o] = [sync[o] EXCEPT !.left = DaysAfter(o)]]
        PROVE  r \in Amount(sync'[s].read, d, b) \/ DayOf(eventAt'[r]) # d
    <2>1. s \notin overtaken /\ (s = o \/ sync[s].left = {})
      BY <1>4 DEF Accepted
    <2>2. s = o
      BY <1>4, <2>1, <1>t, NoSyncType DEF SyncTypeOK, Sync
    <2>3. /\ sync'[s] = [sync[s] EXCEPT !.left = DaysAfter(s)]
      BY <1>4, <2>2, <1>t, NoSyncType DEF SyncTypeOK, Sync
    <2>4. /\ sync'[s].read = sync[s].read /\ sync'[s].since = sync[s].since
          /\ d \in sync[s].left /\ d \notin SentBy(s)
      BY <2>3, <1>t DEF SyncTypeOK, Sync, DaysAfter
    <2>5. server'[d][b] = server[d][b]
      BY <1>4, <2>2, <2>4, <1>t, <1>d, AfterUpsert
    <2> QED BY <1>4, <2>1, <2>4, <2>5 DEF SyncInv, LeftIsRead, WholeDay
  <1>5. ASSUME NEW o \in Syncs, UNCHANGED <<eventAt, server, overtaken>>,
               sync' = [sync EXCEPT ![o] = NoSync]
        PROVE  r \in Amount(sync'[s].read, d, b) \/ DayOf(eventAt'[r]) # d
    <2>1. sync'[s] = sync[s]
      BY <1>5, <1>t, NoSyncType DEF SyncTypeOK
    <2> QED BY <1>5, <2>1 DEF SyncInv, LeftIsRead, WholeDay
  <1> QED BY <1>1, <1>2, <1>3, <1>4, <1>5, <1>t, StepCases

LEMMA StepSent ==
    SyncInv /\ [SyncWindowNext]_syncVars => SentIsThere'
  <1> SUFFICES ASSUME SyncInv, [SyncWindowNext]_syncVars,
                      NEW s \in Syncs, s \notin overtaken', sync'[s].left # {},
                      NEW r \in Responses, sync'[s].read[r] # NotYet
               PROVE  \/ DayOf(sync'[s].read[r]) \in sync'[s].left
                      \/ r \in server'[DayOf(sync'[s].read[r])][BranchOf[r]]
    BY DEF SentIsThere
  <1>t. SyncTypeOK /\ SyncTypeOK'
    BY StepTypes DEF SyncInv
  <1>1. CASE sync'[s] = sync[s] /\ s \notin overtaken /\ server' = server
    BY <1>1 DEF SyncInv, SentIsThere
  <1>2. CASE StartSync(s)
    BY <1>2, <1>t, StartReads
  <1>3. ASSUME NEW o \in Syncs, o # s, StartSync(o)
        PROVE  sync'[s] = sync[s] /\ s \notin overtaken /\ server' = server
    BY <1>3, <1>t, StartReads
  <1>4. ASSUME NEW o \in Syncs, sync[o].left # {}, eventAt' = eventAt, Accepted(o),
               \/ sync' = [sync EXCEPT ![o] = NoSync]
               \/ sync' = [sync EXCEPT ![o] = [sync[o] EXCEPT !.left = DaysAfter(o)]]
        PROVE  \/ DayOf(sync'[s].read[r]) \in sync'[s].left
               \/ r \in server'[DayOf(sync'[s].read[r])][BranchOf[r]]
    <2>1. s \notin overtaken /\ (s = o \/ sync[s].left = {})
      BY <1>4 DEF Accepted
    <2>2. s = o
      BY <1>4, <2>1, <1>t, NoSyncType DEF SyncTypeOK, Sync
    <2>3. /\ sync'[s] = [sync[s] EXCEPT !.left = DaysAfter(s)]
      BY <1>4, <2>2, <1>t, NoSyncType DEF SyncTypeOK, Sync
    <2>4. sync'[s].read = sync[s].read /\ sync'[s].left = sync[s].left \ SentBy(s)
      BY <2>3, <1>t DEF SyncTypeOK, Sync, DaysAfter
    <2> DEFINE d == DayOf(sync[s].read[r])
    <2>5. d \in sync[s].left \/ r \in server[d][BranchOf[r]]
      BY <1>4, <2>1, <2>2, <2>4 DEF SyncInv, SentIsThere
    <2>6. /\ d \in Days /\ BranchOf[r] \in Branches
          /\ BranchOf[r] \in KeysOf(sync[s].read, d)
          /\ r \in Amount(sync[s].read, d, BranchOf[r])
      <3>1. sync[s].read \in Events
        BY <1>t DEF SyncTypeOK, Sync
      <3> QED BY <2>4, <3>1, DaysOfRead, SyncWindowSets
    <2>7. r \in server'[d][BranchOf[r]] \/ d \in sync[s].left \ SentBy(s)
      <3>1. CASE d \in SentBy(s)
        BY <1>4, <1>t, <2>2, <2>6, <3>1, AfterUpsert
      <3>2. CASE d \notin SentBy(s)
        BY <1>4, <1>t, <2>2, <2>5, <2>6, <3>2, AfterUpsert
      <3> QED BY <3>1, <3>2
    <2> QED BY <2>4, <2>7
  <1>5. ASSUME NEW o \in Syncs, UNCHANGED <<eventAt, server, overtaken>>,
               sync' = [sync EXCEPT ![o] = NoSync]
        PROVE  sync'[s] = sync[s] /\ s \notin overtaken /\ server' = server
    BY <1>5, <1>t, NoSyncType DEF SyncTypeOK
  <1> QED BY <1>1, <1>2, <1>3, <1>4, <1>5, <1>t, StepCases

LEMMA SyncInvariant == SyncWindowSpec => []SyncInv
  <1>1. SyncInv /\ [SyncWindowNext]_syncVars => SyncInv'
    BY StepTypes, StepReads, StepServer, StepLeft, StepSent DEF SyncInv
  <1> QED BY <1>1, InitInv, PTL DEF SyncWindowSpec

-----------------------------------------------------------------------------
(* The theorems.                                                           *)

\* The server has nothing that was not recorded here, of its key and of no
\* later day than it is of now.
THEOREM ServerOnlyKnowsCorrect == SyncWindowSpec => []ServerOnlyKnows
  <1>1. SyncInv => ServerOnlyKnows
    BY DEF SyncInv
  <1> QED BY <1>1, SyncInvariant, PTL

\* A push takes nothing from the amount of a whole day that is still of that
\* day, unless another sync has pushed since the reading.
THEOREM PushTakesOnlyWhatMovedCorrect == SyncWindowSpec => PushTakesOnlyWhatMoved
  <1> DEFINE Step == \A s \in Syncs \ overtaken :
                sync'[s] # sync[s] =>
                    \A d \in {e \in Days : WholeDay(s, e)}, b \in Branches :
                        \A r \in server[d][b] \ server'[d][b] : DayOf(eventAt[r]) # d
  <1>1. SyncInv /\ [SyncWindowNext]_syncVars => Step
    <2> SUFFICES ASSUME SyncInv, [SyncWindowNext]_syncVars,
                        NEW s \in Syncs, s \notin overtaken, sync'[s] # sync[s],
                        NEW d \in Days, WholeDay(s, d), NEW b \in Branches,
                        NEW r \in server[d][b], r \notin server'[d][b]
                 PROVE  DayOf(eventAt[r]) # d
      OBVIOUS
    <2>t. SyncTypeOK
      BY DEF SyncInv
    <2>1. ASSUME NEW o \in Syncs, Accepted(o),
                 \/ sync' = [sync EXCEPT ![o] = NoSync]
                 \/ sync' = [sync EXCEPT ![o] = [sync[o] EXCEPT !.left = DaysAfter(o)]]
          PROVE  DayOf(eventAt[r]) # d
      <3>1. s = o
        BY <2>1, <2>t DEF SyncTypeOK
      <3>2. d \in SentBy(s) /\ r \notin Amount(sync[s].read, d, b)
        BY <2>1, <2>t, <3>1, AfterUpsert
      <3>3. d \in sync[s].left
        BY <3>2 DEF SentBy, NextRequest
      <3> QED BY <3>2, <3>3 DEF SyncInv, LeftIsRead
    <2> QED BY <2>1, <2>t, StepCases, StartReads
  <1>2. Step => [Step]_syncVars
    OBVIOUS
  <1> QED BY <1>1, SyncInvariant, PTL DEF SyncWindowSpec, PushTakesOnlyWhatMoved

\* When a sync has ended and none pushed beside it, the server has all that it
\* read.
THEOREM SyncedDaysMatchCorrect == SyncWindowSpec => SyncedDaysMatch
  <1> DEFINE Step == \A s \in Syncs \ overtaken :
                sync[s].left # {} /\ sync'[s].left = {} /\ Push(s) =>
                    \A r \in Responses : sync[s].read[r] # NotYet =>
                        r \in server'[DayOf(sync[s].read[r])][BranchOf[r]]
  <1>1. SyncInv /\ [SyncWindowNext]_syncVars => Step
    <2> SUFFICES ASSUME SyncInv, NEW s \in Syncs, s \notin overtaken,
                        sync[s].left # {}, sync'[s].left = {}, Push(s),
                        NEW r \in Responses, sync[s].read[r] # NotYet
                 PROVE  r \in server'[DayOf(sync[s].read[r])][BranchOf[r]]
      OBVIOUS
    <2> DEFINE d == DayOf(sync[s].read[r])
    <2>t. SyncTypeOK
      BY DEF SyncInv
    <2>1. DaysAfter(s) = {}
      BY <2>t DEF Push, SyncTypeOK, Sync
    <2>2. d \in SentBy(s) \/ d \notin sync[s].left
      BY <2>1 DEF DaysAfter
    <2>3. d \in sync[s].left \/ r \in server[d][BranchOf[r]]
      BY DEF SyncInv, SentIsThere
    <2>4. /\ d \in Days /\ BranchOf[r] \in Branches
          /\ BranchOf[r] \in KeysOf(sync[s].read, d)
          /\ r \in Amount(sync[s].read, d, BranchOf[r])
      <3>1. sync[s].read \in Events
        BY <2>t DEF SyncTypeOK, Sync
      <3> QED BY <3>1, DaysOfRead, SyncWindowSets
    <2>5. CASE d \in SentBy(s)
      BY <2>t, <2>4, <2>5, AfterUpsert DEF Push
    <2>6. CASE d \notin SentBy(s)
      BY <2>t, <2>2, <2>3, <2>4, <2>6, AfterUpsert DEF Push
    <2> QED BY <2>5, <2>6
  <1>2. Step => [Step]_syncVars
    OBVIOUS
  <1> QED BY <1>1, SyncInvariant, PTL DEF SyncWindowSpec, SyncedDaysMatch

\* A cap is evaluated on all the spend of its period, and on nothing farther
\* from it than the rest of the UTC days at its ends; in UTC on nothing else.
THEOREM CapSeesThePeriodCorrect == SyncWindowSpec => []CapSeesThePeriod
  <1>1. SyncTypeOK => CapSeesThePeriod
    <2> SUFFICES ASSUME SyncTypeOK, NEW p \in PeriodNames, NEW zone \in Offsets, NEW t \in Times,
                        NEW r \in Responses, eventAt[r] # NotYet
                 PROVE  LET bounds == PeriodBounds(p, t, zone)
                        IN  /\ SamePeriod(p, eventAt[r], t, zone) => InRollupSum(eventAt[r], bounds)
                            /\ InRollupSum(eventAt[r], bounds) =>
                                   bounds.start - 24 < eventAt[r] /\ eventAt[r] < bounds.end + 24
                            /\ zone = 0 /\ InRollupSum(eventAt[r], bounds)
                                   => SamePeriod(p, eventAt[r], t, zone)
      BY DEF CapSeesThePeriod
    <2>1. t \in Int /\ eventAt[r] \in Times /\ eventAt[r] \in Int
      BY TimesAreInts DEF SyncTypeOK, Events
    <2>2. LocalDay(t, zone) \in LocalDays /\ LocalDay(eventAt[r], zone) \in LocalDays
      BY <2>1, SyncWindowCalendar
    <2> QED BY <2>1, <2>2, PeriodIsCovered
  <1> QED BY <1>1, SyncTypeCorrect, PTL
=============================================================================
