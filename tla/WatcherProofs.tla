---------------------------- MODULE WatcherProofs ---------------------------
(* What the watcher promises when it has nothing left to do, for any tree of *)
(* directories, any logs and any bounds.  Each of the three promises is the *)
(* end of an account of who still owes what: a directory that is not yet    *)
(* watched, or a log that is not yet read, has a visit of the walk or an    *)
(* event of the queue waiting for it.                                       *)
EXTENDS Watcher, SequenceTheorems, TLAPS

\* An event of the queue that will have the log read, or forgotten.
Noticed(p) == \E i \in 1..Len(queue) : queue[i].path = p /\ queue[i].op # "remove"
Removal(p) == [op |-> "remove", path |-> p]
RemovalQueued(p) == \E i \in 1..Len(queue) : queue[i] = Removal(p)

\* A step of the walk that is still to be made.
Walks(step, p) == [step |-> step, path |-> p] \in walk

Busy(f) == Walks("list", Parent[f]) \/ Walks("file", f) \/ Noticed(f)

\* A process that does not run remembers nothing.
DownIsBlank ==
    ~up => /\ queue = <<>> /\ walk = {} /\ reader = Idle
           /\ watch = [d \in Dirs |-> "no"]
           /\ tails = [f \in Files |-> 0]

IsPrefixOf(s, t) == Len(s) <= Len(t) /\ \A i \in 1..Len(s) : s[i] = t[i]

\* What is being read is a beginning of the log, unless that was replaced.
ReaderFits ==
    /\ Len(reader.text) <= MaxUnits
    /\ reader.file = NoFile => reader = Idle
    /\ reader.file # NoFile =>
         /\ reader.gen <= gen[reader.file]
         /\ reader.gen = gen[reader.file] => IsPrefixOf(reader.text, content[reader.file])

\* A removal is queued only for a watched directory, and when the log is
\* there again an event behind it says so.
RemovalsFirst ==
    \A f \in Files : \A i \in 1..Len(queue) : queue[i] = Removal(f) =>
        /\ watch[Parent[f]] = "yes"
        /\ f \in exists => \E j \in 1..Len(queue) :
                              j > i /\ queue[j].path = f /\ queue[j].op # "remove"

DirsOwed ==
    \A d \in exists \cap Dirs :
        watch[Parent[d]] = "yes" =>
            \/ watch[d] # "no"
            \/ Walks("list", Parent[d]) \/ Walks("enter", d) \/ Noticed(d)

\* All lines of the log lie before the offset, or before the end of what is
\* being read.
EndsBefore(text, n) == n <= Len(text) /\ \A m \in Ends(text) : m <= n

LogsOwed ==
    \A f \in exists \cap Files :
        watch[Parent[f]] = "yes" /\ "unread" \notin excused[f] /\ ~Busy(f)
        => IF reader.file = f THEN EndsBefore(content[f], Len(reader.text))
           ELSE Ends(content[f]) # {} => EndsBefore(content[f], tails[f])

\* The lines of f up to n have been delivered, and n is not inside a line.
DeliveredTo(f, n) ==
    /\ n <= Len(content[f]) /\ AtLineStart(content[f], n)
    /\ \A m \in Ends(content[f]) : m <= n /\ Scannable(content[f], m) => m \in delivered[f]

LinesOwed ==
    \A f \in Files :
        up /\ "reset" \notin excused[f] /\ ~RemovalQueued(f)
        => IF reader.file = f
           THEN reader.gen = gen[f] /\ DeliveredTo(f, reader.pos)
                /\ Len(reader.text) \in Ends(content[f])
           ELSE DeliveredTo(f, tails[f])

WatcherInv ==
    /\ WatcherTypeOK
    /\ ReaderFits
    /\ DownIsBlank
    /\ RemovalsFirst
    /\ DirsOwed
    /\ LogsOwed
    /\ LinesOwed

(***************************************************************************)
(* Sequences, the queue and the logs.                                      *)
(***************************************************************************)

LEMMA EndsType ==
    ASSUME NEW text \in Seq(Units)
    PROVE  /\ Len(text) \in Nat
           /\ Ends(text) = {n \in 1..Len(text) : text[n] = "end"}
BY LenProperties DEF Ends

LEMMA EmitEffect ==
    ASSUME queue \in Seq(Event), NEW op \in {"create", "write", "remove"},
           NEW path \in Paths, Emit(op, path)
    PROVE  LET e == [op |-> op, path |-> path]
           IN  /\ queue' \in Seq(Event)
               /\ Len(queue) \in Nat /\ Len(queue') \in Nat /\ Len(queue) <= Len(queue')
               /\ \A i \in 1..Len(queue) : queue'[i] = queue[i]
               /\ \A i \in 1..Len(queue') :
                    i > Len(queue) => queue'[i] = e /\ up /\ watch[Parent[path]] = "yes"
               /\ up /\ watch[Parent[path]] = "yes" =>
                    Len(queue') >= 1 /\ queue'[Len(queue')] = e
<1> DEFINE e == [op |-> op, path |-> path]
<1>1. e \in Event
  BY DEF Event
<1>2. Len(queue) \in Nat
  BY LenProperties
<1>3. CASE /\ up /\ watch[Parent[path]] = "yes"
           /\ queue = <<>> \/ queue[Len(queue)] # e
  <2>1. queue' = Append(queue, e)
    BY <1>3 DEF Emit
  <2>2. /\ queue' \in Seq(Event) /\ Len(queue') = Len(queue) + 1
        /\ \A i \in 1..Len(queue) : queue'[i] = queue[i]
        /\ queue'[Len(queue) + 1] = e
    BY <1>1, <2>1, AppendProperties
  <2>3. QED
    BY <1>2, <1>3, <2>2
<1>4. CASE ~(/\ up /\ watch[Parent[path]] = "yes"
             /\ queue = <<>> \/ queue[Len(queue)] # e)
  <2>1. queue' = queue
    BY <1>4 DEF Emit
  <2>2. queue # <<>> => Len(queue) >= 1
    BY <1>2, EmptySeq
  <2>3. QED
    BY <1>2, <1>4, <2>1, <2>2
<1>5. QED
  BY <1>3, <1>4

LEMMA PopEffect ==
    ASSUME queue \in Seq(Event), queue # <<>>, queue' = Tail(queue)
    PROVE  /\ queue' \in Seq(Event)
           /\ Head(queue) = queue[1] /\ Head(queue) \in Event
           /\ Len(queue) \in Nat /\ Len(queue) >= 1 /\ Len(queue') = Len(queue) - 1
           /\ \A i \in 1..Len(queue') : queue'[i] = queue[i + 1]
<1>1. Len(queue) \in Nat /\ Len(queue) >= 1
  BY EmptySeq, LenProperties
<1>2. QED
  BY <1>1, HeadTailProperties

\* An event that was waiting still is, unless it was the first.
LEMMA EventsWait ==
    ASSUME queue \in Seq(Event), NEW op \in {"create", "write", "remove"},
           NEW path \in Paths, Emit(op, path), NEW p
    PROVE  /\ Noticed(p) => Noticed(p)'
           /\ RemovalQueued(p) => RemovalQueued(p)'
           /\ RemovalQueued(p)' => RemovalQueued(p) \/ (op = "remove" /\ path = p)
<1>1. /\ Len(queue) \in Nat /\ Len(queue') \in Nat /\ Len(queue) <= Len(queue')
      /\ \A i \in 1..Len(queue) : queue'[i] = queue[i]
      /\ \A i \in 1..Len(queue') :
           i > Len(queue) => queue'[i] = [op |-> op, path |-> path]
  BY EmitEffect
<1>2. QED
  BY <1>1 DEF Noticed, RemovalQueued, Removal

LEMMA EmitNoticed ==
    ASSUME queue \in Seq(Event), NEW op \in {"create", "write", "remove"},
           NEW path \in Paths, Emit(op, path), up, watch[Parent[path]] = "yes"
    PROVE  /\ op # "remove" => Noticed(path)'
           /\ op = "remove" => RemovalQueued(path)'
<1>1. Len(queue') \in Nat /\ Len(queue') >= 1
      /\ queue'[Len(queue')] = [op |-> op, path |-> path]
  BY EmitEffect
<1>2. QED
  BY <1>1 DEF Noticed, RemovalQueued, Removal

LEMMA EventsPop ==
    ASSUME queue \in Seq(Event), queue # <<>>, queue' = Tail(queue), NEW p
    PROVE  /\ Noticed(p) /\ ~Noticed(p)' => Head(queue).path = p /\ Head(queue).op # "remove"
           /\ RemovalQueued(p)' => RemovalQueued(p)
           /\ RemovalQueued(p) /\ ~RemovalQueued(p)' => Head(queue) = Removal(p)
<1>1. /\ Head(queue) = queue[1]
      /\ Len(queue) \in Nat /\ Len(queue) >= 1 /\ Len(queue') = Len(queue) - 1
      /\ \A i \in 1..Len(queue') : queue'[i] = queue[i + 1]
  BY PopEffect
<1>2. ASSUME NEW i \in 1..Len(queue), i # 1
      PROVE  i - 1 \in 1..Len(queue') /\ queue'[i - 1] = queue[i]
  BY <1>1, <1>2
<1>3. ASSUME NEW i \in 1..Len(queue')
      PROVE  i + 1 \in 1..Len(queue) /\ queue[i + 1] = queue'[i]
  BY <1>1, <1>3
<1>4. Noticed(p) /\ ~Noticed(p)' => Head(queue).path = p /\ Head(queue).op # "remove"
  BY <1>1, <1>2 DEF Noticed
<1>5. RemovalQueued(p)' => RemovalQueued(p)
  BY <1>3 DEF RemovalQueued, Removal
<1>6. RemovalQueued(p) /\ ~RemovalQueued(p)' => Head(queue) = Removal(p)
  BY <1>1, <1>2 DEF RemovalQueued, Removal
<1>7. QED
  BY <1>4, <1>5, <1>6

LEMMA TextStart ==
    ASSUME NEW text \in Seq(Units), NEW last \in Ends(text)
    PROVE  /\ last \in 1..Len(text) /\ Len(text) \in Nat
           /\ SubSeq(text, 1, last) \in Seq(Units)
           /\ Len(SubSeq(text, 1, last)) = last
           /\ \A i \in 1..last : SubSeq(text, 1, last)[i] = text[i]
<1>1. last \in 1..Len(text) /\ Len(text) \in Nat
  BY EndsType
<1>2. \A i \in 1..last : text[i] \in Units
  BY <1>1, ElementOfSeq
<1>3. QED
  BY <1>1, <1>2, SubSeqProperties

LEMMA TextGrows ==
    ASSUME NEW text \in Seq(Units), NEW u \in Units
    PROVE  /\ Append(text, u) \in Seq(Units)
           /\ Len(text) \in Nat /\ Len(Append(text, u)) = Len(text) + 1
           /\ \A i \in 1..Len(text) : Append(text, u)[i] = text[i]
           /\ Ends(text) = {n \in Ends(Append(text, u)) : n <= Len(text)}
<1>1. /\ Append(text, u) \in Seq(Units)
      /\ Len(text) \in Nat /\ Len(Append(text, u)) = Len(text) + 1
      /\ \A i \in 1..Len(text) : Append(text, u)[i] = text[i]
  BY AppendProperties, LenProperties
<1>2. Ends(Append(text, u)) = {n \in 1..(Len(text) + 1) : Append(text, u)[n] = "end"}
  BY <1>1, EndsType
<1>3. Ends(text) = {n \in 1..Len(text) : text[n] = "end"}
  BY EndsType
<1>4. Ends(text) = {n \in Ends(Append(text, u)) : n <= Len(text)}
  BY <1>1, <1>2, <1>3
<1>5. QED
  BY <1>1, <1>4

\* The units of a text whose beginning another is.
LEMMA PrefixEnds ==
    ASSUME NEW s \in Seq(Units), NEW t \in Seq(Units), IsPrefixOf(s, t)
    PROVE  Ends(s) = {n \in Ends(t) : n <= Len(s)}
BY EndsType DEF IsPrefixOf

(***************************************************************************)
(* What happens to the logs.                                               *)
(***************************************************************************)

LEMMA WatchedIsUp ==
    ASSUME DownIsBlank, NEW d \in Dirs, watch[d] = "yes"
    PROVE  up
BY DEF DownIsBlank

\* Whatever happens to a path is noticed, so nothing is owed unnoticed.
LEMMA EmitKeeps ==
    ASSUME WatcherInv, NEW op \in {"create", "write", "remove"}, NEW path \in Paths,
           Emit(op, path), UNCHANGED <<up, watch, walk, tails, reader>>,
           \/ op = "create" /\ exists' = exists \cup {path}
           \/ op = "write" /\ exists' = exists
           \/ op = "remove" /\ exists' = exists \ {path},
           \A f \in Files \ {path} : content'[f] = content[f] /\ excused'[f] = excused[f]
    PROVE  /\ queue' \in Seq(Event)
           /\ DownIsBlank' /\ RemovalsFirst' /\ DirsOwed' /\ LogsOwed'
<1>1. /\ queue \in Seq(Event) /\ exists \subseteq Paths
      /\ Parent \in [Paths -> Dirs] /\ Files \subseteq Paths
  BY WatcherPaths DEF WatcherInv, WatcherTypeOK, Paths
<1>2. /\ queue' \in Seq(Event)
      /\ Len(queue) \in Nat /\ Len(queue') \in Nat /\ Len(queue) <= Len(queue')
      /\ \A i \in 1..Len(queue) : queue'[i] = queue[i]
      /\ \A i \in 1..Len(queue') :
           i > Len(queue) => /\ queue'[i] = [op |-> op, path |-> path]
                             /\ up /\ watch[Parent[path]] = "yes"
      /\ up /\ watch[Parent[path]] = "yes" =>
           Len(queue') >= 1 /\ queue'[Len(queue')] = [op |-> op, path |-> path]
  BY <1>1, EmitEffect
<1>3. \A p : Noticed(p) => Noticed(p)'
  BY <1>1, EventsWait
<1>4. \A p \in Paths : watch[Parent[p]] = "yes" => up
  BY <1>1, WatchedIsUp DEF WatcherInv
<1>5. op # "remove" /\ watch[Parent[path]] = "yes" => Noticed(path)'
  BY <1>1, <1>4, EmitNoticed
<1>6. DownIsBlank'
  <2>1. ~up => queue' = queue
    BY DEF Emit
  <2>2. QED
    BY <2>1 DEF WatcherInv, DownIsBlank
<1>7. RemovalsFirst'
  <2> SUFFICES ASSUME NEW f \in Files, NEW i \in 1..Len(queue'), queue'[i] = Removal(f)
               PROVE  /\ watch[Parent[f]] = "yes"
                      /\ f \in exists' => \E j \in 1..Len(queue') :
                           j > i /\ queue'[j].path = f /\ queue'[j].op # "remove"
    BY DEF RemovalsFirst, Removal
  <2>1. CASE i > Len(queue)
    BY <1>2, <2>1 DEF Removal
  <2>2. CASE i <= Len(queue)
    <3>1. i \in 1..Len(queue) /\ queue[i] = Removal(f)
      BY <1>2, <2>2
    <3>2. watch[Parent[f]] = "yes"
      BY <3>1 DEF WatcherInv, RemovalsFirst
    <3>3. CASE f \in exists
      <4>1. PICK j \in 1..Len(queue) : j > i /\ queue[j].path = f /\ queue[j].op # "remove"
        BY <3>1, <3>3 DEF WatcherInv, RemovalsFirst
      <4>2. j \in 1..Len(queue') /\ queue'[j] = queue[j]
        BY <1>2, <4>1
      <4>3. QED
        BY <3>2, <4>1, <4>2
    <3>4. CASE f \notin exists /\ f \in exists'
      <4>1. op = "create" /\ path = f
        BY <3>4
      <4>2. Len(queue') >= 1 /\ queue'[Len(queue')] = [op |-> op, path |-> path]
        BY <1>1, <1>2, <1>4, <3>2, <4>1
      <4>3. Len(queue') # i
        BY <4>1, <4>2 DEF Removal
      <4>4. QED
        BY <1>2, <3>2, <4>1, <4>2, <4>3
    <3>5. QED
      BY <3>2, <3>3, <3>4
  <2>3. QED
    BY <1>2, <2>1, <2>2
<1>8. DirsOwed'
  <2> SUFFICES ASSUME NEW d \in exists' \cap Dirs, watch[Parent[d]] = "yes"
               PROVE  \/ watch[d] # "no"
                      \/ Walks("list", Parent[d]) \/ Walks("enter", d) \/ Noticed(d)'
    BY DEF DirsOwed, Walks
  <2>1. CASE d \in exists
    BY <1>3, <2>1 DEF WatcherInv, DirsOwed
  <2>2. CASE d \notin exists
    BY <1>5, <2>2
  <2>3. QED
    BY <2>1, <2>2
<1>9. LogsOwed'
  <2> SUFFICES ASSUME NEW f \in exists' \cap Files, watch[Parent[f]] = "yes",
                      "unread" \notin excused'[f], ~Busy(f)'
               PROVE  IF reader.file = f THEN EndsBefore(content'[f], Len(reader.text))
                      ELSE Ends(content'[f]) # {} => EndsBefore(content'[f], tails[f])
    BY DEF LogsOwed, EndsBefore, Ends
  <2>1. ~Noticed(f)' /\ ~Busy(f)
    BY <1>3 DEF Busy, Walks
  <2>2. f # path
    BY <1>5, <2>1
  <2>3. f \in exists /\ content'[f] = content[f] /\ excused'[f] = excused[f]
    BY <2>2
  <2>4. QED
    BY <2>1, <2>3 DEF WatcherInv, LogsOwed
<1>10. QED
  BY <1>2, <1>6, <1>7, <1>8, <1>9

LEMMA IdleType == /\ Idle \in [file : Files \cup {NoFile}, gen : 0..MaxGen,
                               text : Seq(Units), pos : 0..MaxUnits]
                  /\ Idle.file = NoFile /\ Idle.text = <<>> /\ Len(Idle.text) = 0
<1>1. <<>> \in Seq(Units) /\ Len(<<>>) = 0
  BY EmptySeq
<1>2. QED
  BY <1>1, WatcherPaths DEF Idle

\* A log that only grows keeps what was delivered of its beginning.
LEMMA DeliveredGrows ==
    ASSUME NEW f \in Files, content[f] \in Seq(Units), content'[f] \in Seq(Units),
           IsPrefixOf(content[f], content'[f]), delivered[f] \subseteq delivered'[f],
           NEW n \in Nat, DeliveredTo(f, n)
    PROVE  DeliveredTo(f, n)'
<1>1. /\ Len(content[f]) \in Nat /\ Len(content'[f]) \in Nat
      /\ Len(content[f]) <= Len(content'[f])
      /\ \A i \in 1..Len(content[f]) : content[f][i] = content'[f][i]
  BY EndsType DEF IsPrefixOf
<1>2. Ends(content[f]) = {m \in Ends(content'[f]) : m <= Len(content[f])}
  BY PrefixEnds
<1>3. n <= Len(content'[f]) /\ AtLineStart(content'[f], n)
  BY <1>1, <1>2 DEF DeliveredTo, AtLineStart
<1>4. ASSUME NEW m \in Ends(content'[f]), m <= n, Scannable(content'[f], m)
      PROVE  m \in delivered'[f]
  <2>1. m \in 1..Len(content'[f])
    BY EndsType
  <2>2. m \in Ends(content[f])
    BY <1>1, <1>2, <1>4, <2>1 DEF DeliveredTo
  <2>3. Scannable(content[f], m)
    BY <1>1, <1>4, <2>1 DEF Scannable, DeliveredTo
  <2>4. QED
    BY <1>4, <2>2, <2>3 DEF DeliveredTo
<1>5. QED
  BY <1>3, <1>4 DEF DeliveredTo

LEMMA CreateStep ==
    ASSUME WatcherInv, NEW p \in Paths, Create(p)
    PROVE  WatcherInv'
<1>1. queue' \in Seq(Event) /\ DownIsBlank' /\ RemovalsFirst' /\ DirsOwed' /\ LogsOwed'
  BY EmitKeeps DEF Create, ghost
<1>2. WatcherTypeOK'
  BY <1>1 DEF WatcherInv, WatcherTypeOK, Create, ghost, Ends
<1>3. ReaderFits'
  BY DEF WatcherInv, ReaderFits, Create, IsPrefixOf, Idle
<1>4. LinesOwed'
  <2>1. \A f : RemovalQueued(f) => RemovalQueued(f)'
    BY EventsWait DEF Create, WatcherInv, WatcherTypeOK
  <2>2. UNCHANGED <<content, gen, up, tails, reader, delivered, excused>>
    BY DEF Create, ghost
  <2>3. QED
    BY <2>1, <2>2 DEF WatcherInv, LinesOwed, DeliveredTo, AtLineStart, Ends, Scannable
<1>5. QED
  BY <1>1, <1>2, <1>3, <1>4 DEF WatcherInv

LEMMA WriteStep ==
    ASSUME WatcherInv, NEW f \in Files, WriteUnit(f)
    PROVE  WatcherInv'
<1> USE DEF WatcherInv
<1>1. PICK u \in Units : content' = [content EXCEPT ![f] = Append(@, u)]
  BY DEF WriteUnit
<1>2. /\ content \in [Files -> Seq(Units)] /\ queue \in Seq(Event) /\ f \in Paths
      /\ Len(content[f]) < MaxUnits /\ MaxUnits \in Nat
  BY WatcherPaths DEF WriteUnit, WatcherTypeOK, Paths
<1>3. /\ content'[f] \in Seq(Units) /\ IsPrefixOf(content[f], content'[f])
      /\ Len(content[f]) \in Nat /\ Len(content'[f]) = Len(content[f]) + 1
      /\ Ends(content[f]) = {n \in Ends(content'[f]) : n <= Len(content[f])}
  <2>1. content'[f] = Append(content[f], u)
    BY <1>1, <1>2
  <2>2. QED
    BY <1>2, <2>1, TextGrows DEF IsPrefixOf
<1>4. \A g \in Files \ {f} : content'[g] = content[g]
  BY <1>1, <1>2
<1>5. UNCHANGED <<exists, gen, crashes, up, watch, walk, tails, reader, delivered, excused>>
      /\ Emit("write", f)
  BY DEF WriteUnit, ghost
<1>6. queue' \in Seq(Event) /\ DownIsBlank' /\ RemovalsFirst' /\ DirsOwed' /\ LogsOwed'
  BY <1>2, <1>4, <1>5, EmitKeeps
<1>7. WatcherTypeOK'
  <2>1. content' \in [Files -> Seq(Units)]
    BY <1>1, <1>2, <1>3, <1>4
  <2>2. \A g \in Files : Len(content'[g]) <= MaxUnits
    <3>1. \A g \in Files : Len(content[g]) <= MaxUnits
      BY DEF WatcherTypeOK
    <3>2. Len(content'[f]) <= MaxUnits
      BY <1>2, <1>3
    <3>3. QED
      BY <1>4, <3>1, <3>2
  <2>3. Ends(content[f]) \subseteq Ends(content'[f])
    BY <1>3
  <2>4. \A g \in Files : delivered[g] \subseteq Ends(content'[g])
    BY <1>4, <2>3 DEF WatcherTypeOK
  <2>5. QED
    BY <1>5, <1>6, <2>1, <2>2, <2>4 DEF WatcherTypeOK
<1>8. ReaderFits'
  <2>1. ASSUME reader.file = f, reader.gen = gen[f]
        PROVE  IsPrefixOf(reader.text, content'[f])
    <3>1. IsPrefixOf(reader.text, content[f])
      BY <2>1, WatcherPaths DEF ReaderFits
    <3>2. Len(reader.text) \in Nat
      BY EndsType DEF WatcherTypeOK
    <3>3. QED
      BY <1>3, <3>1, <3>2 DEF IsPrefixOf
  <2>2. ASSUME NEW g \in Files \ {f}, reader.file = g, reader.gen = gen[g]
        PROVE  IsPrefixOf(reader.text, content'[g])
    BY <1>4, <2>2, WatcherPaths DEF ReaderFits
  <2>3. reader.file \in Files \cup {NoFile}
    BY DEF WatcherTypeOK
  <2>4. QED
    BY <1>5, <2>1, <2>2, <2>3 DEF ReaderFits, Idle
<1>9. LinesOwed'
  <2> SUFFICES ASSUME NEW g \in Files, up, "reset" \notin excused[g], ~RemovalQueued(g)'
               PROVE  IF reader.file = g
                      THEN reader.gen = gen[g] /\ DeliveredTo(g, reader.pos)'
                           /\ Len(reader.text) \in Ends(content'[g])
                      ELSE DeliveredTo(g, tails[g])'
    BY <1>5 DEF LinesOwed, Ends, RemovalQueued, Removal, DeliveredTo, AtLineStart, Scannable
  <2>1. ~RemovalQueued(g)
    BY <1>2, <1>5, EventsWait
  <2>2. /\ content[g] \in Seq(Units) /\ content'[g] \in Seq(Units)
        /\ IsPrefixOf(content[g], content'[g])
        /\ Ends(content[g]) \subseteq Ends(content'[g])
    BY <1>2, <1>3, <1>4 DEF IsPrefixOf
  <2>3. \A n \in Nat : DeliveredTo(g, n) => DeliveredTo(g, n)'
    BY <1>5, <2>2, DeliveredGrows
  <2>4. tails[g] \in Nat /\ reader.pos \in Nat
    BY <1>2 DEF WatcherTypeOK
  <2>5. IF reader.file = g
        THEN reader.gen = gen[g] /\ DeliveredTo(g, reader.pos)
             /\ Len(reader.text) \in Ends(content[g])
        ELSE DeliveredTo(g, tails[g])
    BY <2>1 DEF LinesOwed
  <2>6. PICK pos \in Nat, off \in Nat : pos = reader.pos /\ off = tails[g]
    BY <2>4
  <2>7. /\ DeliveredTo(g, pos) => DeliveredTo(g, pos)'
        /\ DeliveredTo(g, off) => DeliveredTo(g, off)'
    BY <2>3
  <2>8. QED
    BY <1>5, <2>2, <2>5, <2>6, <2>7 DEF DeliveredTo
<1>10. QED
  BY <1>6, <1>7, <1>8, <1>9

\* A log is replaced: nothing of the next one has been delivered.
LEMMA NewLogKeeps ==
    ASSUME WatcherInv, NEW f \in Files, Remove(f) \/ Truncate(f),
           NEW op \in {"write", "remove"}, Emit(op, f),
           exists' = IF op = "write" THEN exists ELSE exists \ {f},
           op = "write" /\ up => "reset" \in excused'[f],
           op = "remove" /\ up /\ watch[Parent[f]] # "yes" => "reset" \in excused'[f]
    PROVE  WatcherInv'
<1> USE DEF WatcherInv
<1>1. /\ UNCHANGED <<crashes, up, watch, walk, tails, reader>>
      /\ gen[f] < MaxGen /\ gen' = [gen EXCEPT ![f] = @ + 1]
      /\ content' = [content EXCEPT ![f] = <<>>]
      /\ delivered' = [delivered EXCEPT ![f] = {}]
  BY DEF Remove, Truncate, NewLog
<1>2. /\ excused' \in [Files -> SUBSET {"reset", "unread"}]
      /\ \A g \in Files \ {f} : excused'[g] = excused[g]
  <2>1. excused \in [Files -> SUBSET {"reset", "unread"}]
    BY DEF WatcherTypeOK
  <2>2. PICK why \in SUBSET {"reset", "unread"} : excused' = [excused EXCEPT ![f] = why]
    <3>1. excused[f] \cup {"reset"} \in SUBSET {"reset", "unread"} /\ {} \in SUBSET {"reset", "unread"}
      BY <2>1
    <3>2. CASE Remove(f)
      BY <3>2 DEF Remove
    <3>3. CASE Truncate(f)
      BY <2>1, <3>1, <3>3 DEF Truncate
    <3>4. QED
      BY <3>2, <3>3
  <2>3. QED
    BY <2>1, <2>2
<1>3. /\ content \in [Files -> Seq(Units)] /\ queue \in Seq(Event) /\ f \in Paths
      /\ gen \in [Files -> 0..MaxGen] /\ MaxGen \in Nat
      /\ delivered \in [Files -> SUBSET (1..MaxUnits)]
  BY WatcherPaths DEF WatcherTypeOK, Paths
<1>4. \A g \in Files \ {f} : content'[g] = content[g] /\ gen'[g] = gen[g]
                             /\ delivered'[g] = delivered[g]
  BY <1>1, <1>3
<1>5. content'[f] = <<>> /\ content'[f] \in Seq(Units) /\ Len(content'[f]) = 0
  BY <1>1, <1>3, EmptySeq
<1>6. queue' \in Seq(Event) /\ DownIsBlank' /\ RemovalsFirst' /\ DirsOwed' /\ LogsOwed'
  BY <1>1, <1>2, <1>3, <1>4, EmitKeeps
<1>7. WatcherTypeOK'
  <2>1. content' \in [Files -> Seq(Units)] /\ \A g \in Files : Len(content'[g]) <= MaxUnits
    BY <1>1, <1>3, <1>4, <1>5, WatcherPaths DEF WatcherTypeOK
  <2>2. gen' \in [Files -> 0..MaxGen]
    BY <1>1, <1>3
  <2>3. /\ delivered' \in [Files -> SUBSET (1..MaxUnits)]
        /\ \A g \in Files : delivered'[g] \subseteq Ends(content'[g])
    BY <1>1, <1>3, <1>4 DEF WatcherTypeOK
  <2>4. exists' \subseteq Paths
    BY DEF WatcherTypeOK
  <2>5. QED
    BY <1>1, <1>2, <1>6, <2>1, <2>2, <2>3, <2>4 DEF WatcherTypeOK
<1>8. ReaderFits'
  <2>1. reader.gen \in Nat /\ reader.file \in Files \cup {NoFile}
    BY <1>3 DEF WatcherTypeOK
  <2>2. ASSUME reader.file = f
        PROVE  reader.gen < gen'[f]
    BY <1>1, <1>3, <2>1, <2>2, WatcherPaths DEF ReaderFits
  <2>3. QED
    BY <1>1, <1>3, <1>4, <2>1, <2>2 DEF ReaderFits, Idle
<1>9. LinesOwed'
  <2> SUFFICES ASSUME NEW g \in Files, up, "reset" \notin excused'[g], ~RemovalQueued(g)'
               PROVE  IF reader.file = g
                      THEN reader.gen = gen'[g] /\ DeliveredTo(g, reader.pos)'
                           /\ Len(reader.text) \in Ends(content'[g])
                      ELSE DeliveredTo(g, tails[g])'
    BY <1>1 DEF LinesOwed, Ends, RemovalQueued, Removal, DeliveredTo, AtLineStart, Scannable
  <2>1. g # f
    <3>1. op = "remove" /\ watch[Parent[f]] = "yes" => RemovalQueued(f)'
      BY <1>3, EmitNoticed
    <3>2. QED
      BY <3>1
  <2>2. ~RemovalQueued(g)
    BY <1>3, EventsWait
  <2>3. QED
    BY <1>1, <1>2, <1>4, <2>1, <2>2
    DEF LinesOwed, DeliveredTo, AtLineStart, Ends, Scannable
<1>10. QED
  BY <1>6, <1>7, <1>8, <1>9

LEMMA NewLogStep ==
    ASSUME WatcherInv, NEW f \in Files, Remove(f) \/ Truncate(f)
    PROVE  WatcherInv'
<1>1. excused \in [Files -> SUBSET {"reset", "unread"}]
  BY DEF WatcherInv, WatcherTypeOK
<1>2. CASE Remove(f)
  <2>1. Emit("remove", f) /\ exists' = exists \ {f}
    BY <1>2 DEF Remove
  <2>2. up /\ watch[Parent[f]] # "yes" => "reset" \in excused'[f]
    BY <1>1, <1>2 DEF Remove
  <2>3. QED
    BY <1>2, <2>1, <2>2, NewLogKeeps
<1>3. CASE Truncate(f)
  <2>1. Emit("write", f) /\ exists' = exists
    BY <1>3 DEF Truncate
  <2>2. ASSUME up
        PROVE  "reset" \in excused'[f]
    <3>1. excused' = [excused EXCEPT ![f] = excused[f] \cup {"reset"}]
      BY <1>3, <2>2 DEF Truncate
    <3>2. excused'[f] = excused[f] \cup {"reset"}
      BY <1>1, <3>1
    <3>3. QED
      BY <3>2
  <2>3. up => "reset" \in excused'[f]
    BY <2>2
  <2>4. QED
    BY <1>3, <2>1, <2>3, NewLogKeeps
<1>4. QED
  BY <1>2, <1>3

(***************************************************************************)
(* The life of the watcher.                                                *)
(***************************************************************************)

LEMMA CrashStep == ASSUME WatcherInv, Crash PROVE WatcherInv'
<1> USE DEF WatcherInv
<1>1. /\ crashes' \in 0..MaxCrashes /\ up' = FALSE
      /\ watch' = [d \in Dirs |-> "no"] /\ queue' = <<>> /\ walk' = {}
      /\ tails' = [f \in Files |-> 0] /\ reader' = Idle
      /\ excused' = [f \in Files |-> {}]
      /\ UNCHANGED <<exists, content, gen, delivered>>
  BY WatcherPaths DEF Crash, WatcherTypeOK
<1>2. queue' \in Seq(Event) /\ Len(queue') = 0
  BY <1>1, EmptySeq
<1>3. WatcherTypeOK'
  <2>1. /\ tails' \in [Files -> 0..MaxUnits] /\ watch' \in [Dirs -> {"yes", "no", "failed"}]
        /\ excused' \in [Files -> SUBSET {"reset", "unread"}] /\ walk' \subseteq Visit
    BY <1>1, WatcherPaths
  <2>2. /\ reader' \in [file : Files \cup {NoFile}, gen : 0..MaxGen,
                        text : Seq(Units), pos : 0..MaxUnits]
        /\ reader'.file = NoFile
    BY <1>1, IdleType
  <2>3. QED
    BY <1>1, <1>2, <2>1, <2>2 DEF WatcherTypeOK, Ends
<1>4. ReaderFits' /\ DownIsBlank'
  BY <1>1, IdleType, WatcherPaths DEF ReaderFits, DownIsBlank, Idle
<1>5. RemovalsFirst'
  BY <1>2 DEF RemovalsFirst
<1>6. DirsOwed' /\ LogsOwed'
  <2>1. \A p \in Paths : watch'[Parent[p]] # "yes"
    BY <1>1, WatcherPaths
  <2>2. exists' \subseteq Paths
    BY <1>1 DEF WatcherTypeOK
  <2>3. QED
    BY <2>1, <2>2 DEF DirsOwed, LogsOwed
<1>7. LinesOwed'
  BY <1>1 DEF LinesOwed
<1>8. QED
  BY <1>3, <1>4, <1>5, <1>6, <1>7

LEMMA NothingDelivered ==
    ASSUME NEW f \in Files, content[f] \in Seq(Units)
    PROVE  DeliveredTo(f, 0)
<1>1. Len(content[f]) \in Nat /\ \A m \in Ends(content[f]) : ~(m <= 0)
  BY EndsType
<1>2. QED
  BY <1>1 DEF DeliveredTo, AtLineStart

\* A call that failed watches nothing, and forgets no watch.
LEMMA PassedOver ==
    ASSUME watch \in [Dirs -> {"yes", "no", "failed"}], NEW ds, PassOver(ds)
    PROVE  /\ watch' \in [Dirs -> {"yes", "no", "failed"}]
           /\ \A d \in Dirs : watch'[d] = "yes" <=> watch[d] = "yes"
           /\ \A d \in Dirs : watch'[d] = "no" => watch[d] = "no" /\ d \notin ds
BY DEF PassOver

LEMMA StartStep == ASSUME WatcherInv, StartWatch PROVE WatcherInv'
<1> USE DEF WatcherInv
<1>1. /\ up' = TRUE
      /\ UNCHANGED <<exists, content, gen, crashes, queue, tails, reader,
                     delivered, excused>>
      /\ queue = <<>> /\ reader = Idle /\ walk = {} /\ watch = [d \in Dirs |-> "no"]
      /\ tails = [f \in Files |-> 0]
      /\ walk' = {[step |-> "enter", path |-> Root]} \/ walk' = walk
      /\ watch' = watch \/ PassOver({Root})
  BY DEF StartWatch, disk, ghost, DownIsBlank
<1>2. Len(queue') = 0
  BY <1>1, EmptySeq
<1>3. WatcherTypeOK'
  <2>1. walk' \subseteq Visit
    BY <1>1, WatcherPaths DEF Visit
  <2>2. watch' \in [Dirs -> {"yes", "no", "failed"}]
    BY <1>1, PassedOver DEF WatcherTypeOK
  <2>3. QED
    BY <1>1, <2>1, <2>2 DEF WatcherTypeOK, Ends
<1>4. ReaderFits' /\ DownIsBlank'
  BY <1>1 DEF ReaderFits, DownIsBlank, IsPrefixOf, Idle
<1>5. RemovalsFirst'
  BY <1>2 DEF RemovalsFirst
<1>6. DirsOwed' /\ LogsOwed'
  <2>0. \A d \in Dirs : watch'[d] # "yes"
    BY <1>1, PassedOver DEF WatcherTypeOK
  <2>1. \A p \in Paths : watch'[Parent[p]] # "yes"
    BY <2>0, WatcherPaths
  <2>2. exists' \subseteq Paths
    BY <1>1 DEF WatcherTypeOK
  <2>3. QED
    BY <2>1, <2>2 DEF DirsOwed, LogsOwed
<1>7. LinesOwed'
  <2>1. \A f \in Files : reader'.file # f /\ tails'[f] = 0
    BY <1>1, IdleType, WatcherPaths
  <2>2. \A f \in Files : DeliveredTo(f, 0)
    BY NothingDelivered DEF WatcherTypeOK
  <2>3. QED
    BY <1>1, <2>1, <2>2 DEF LinesOwed, DeliveredTo, AtLineStart, Ends, Scannable
<1>8. QED
  BY <1>3, <1>4, <1>5, <1>6, <1>7

(***************************************************************************)
(* processFile.                                                            *)
(***************************************************************************)

\* What is being read, while its log has not been replaced.
LEMMA BeingRead ==
    ASSUME WatcherInv, reader # Idle
    PROVE  /\ reader.file \in Files /\ reader.text \in Seq(Units)
           /\ reader.pos \in Nat /\ Len(reader.text) \in Nat
           /\ reader.pos <= Len(reader.text) /\ Len(reader.text) <= MaxUnits
           /\ content[reader.file] \in Seq(Units) /\ Len(content[reader.file]) \in Nat
           /\ reader.gen = gen[reader.file] =>
                /\ IsPrefixOf(reader.text, content[reader.file])
                /\ Ends(reader.text) =
                     {n \in Ends(content[reader.file]) : n <= Len(reader.text)}
<1> USE DEF WatcherInv
<1>1. /\ reader.file \in Files /\ reader.text \in Seq(Units)
      /\ reader.pos \in Nat /\ reader.pos <= Len(reader.text)
      /\ content[reader.file] \in Seq(Units)
  BY DEF WatcherTypeOK, ReaderFits
<1>2. Len(reader.text) \in Nat /\ Len(content[reader.file]) \in Nat
  BY <1>1, EndsType
<1>3. Len(reader.text) <= MaxUnits
      /\ (reader.gen = gen[reader.file] => IsPrefixOf(reader.text, content[reader.file]))
  BY <1>1, WatcherPaths DEF ReaderFits
<1>4. QED
  BY <1>1, <1>2, <1>3, PrefixEnds

LEMMA DeliverStep == ASSUME WatcherInv, DeliverLine PROVE WatcherInv'
<1> USE DEF WatcherInv
<1> DEFINE f == reader.file
<1>1. PICK n \in Ends(reader.text) :
        /\ n > reader.pos
        /\ \A m \in Ends(reader.text) : m > reader.pos => n <= m
        /\ reader' = [reader EXCEPT !.pos = n]
        /\ delivered' =
             IF reader.gen = gen[f] /\ AtLineStart(reader.text, reader.pos)
             THEN [delivered EXCEPT ![f] = @ \cup {n}] ELSE delivered
  BY DEF DeliverLine
<1>2. up /\ reader # Idle
      /\ UNCHANGED <<exists, content, gen, crashes, up, watch, queue, walk, tails, excused>>
  BY DEF DeliverLine, disk
<1>3. /\ f \in Files /\ reader.text \in Seq(Units)
      /\ reader.pos \in Nat /\ Len(reader.text) \in Nat
      /\ reader.pos <= Len(reader.text) /\ Len(reader.text) <= MaxUnits
      /\ content[f] \in Seq(Units) /\ Len(content[f]) \in Nat
      /\ reader.gen = gen[f] =>
           /\ IsPrefixOf(reader.text, content[f])
           /\ Ends(reader.text) = {m \in Ends(content[f]) : m <= Len(reader.text)}
  BY <1>2, BeingRead
<1>4. n \in Nat /\ 1 <= n /\ n <= Len(reader.text)
  BY <1>3, EndsType
<1>5. reader'.file = f /\ reader'.gen = reader.gen /\ reader'.text = reader.text
      /\ reader'.pos = n /\ reader' # Idle
  BY <1>1, <1>3, WatcherPaths DEF WatcherTypeOK, Idle
<1>6. WatcherTypeOK'
  <2>1. /\ reader' \in [file : Files \cup {NoFile}, gen : 0..MaxGen,
                        text : Seq(Units), pos : 0..MaxUnits]
        /\ reader'.pos <= Len(reader'.text)
    <3>1. n \in 0..MaxUnits
      BY <1>3, <1>4, WatcherPaths
    <3>2. QED
      BY <1>1, <1>4, <1>5, <3>1 DEF WatcherTypeOK
  <2>2. /\ delivered' \in [Files -> SUBSET (1..MaxUnits)]
        /\ \A g \in Files : delivered'[g] \subseteq Ends(content[g])
    <3>1. n \in 1..MaxUnits
      BY <1>3, <1>4, WatcherPaths
    <3>2. delivered \in [Files -> SUBSET (1..MaxUnits)]
          /\ \A g \in Files : delivered[g] \subseteq Ends(content[g])
      BY DEF WatcherTypeOK
    <3>3. CASE reader.gen = gen[f] /\ AtLineStart(reader.text, reader.pos)
      <4>1. n \in Ends(content[f])
        BY <1>3, <3>3
      <4>2. delivered' = [delivered EXCEPT ![f] = @ \cup {n}]
        BY <1>1, <3>3
      <4>3. QED
        BY <1>3, <3>1, <3>2, <4>1, <4>2
    <3>4. CASE ~(reader.gen = gen[f] /\ AtLineStart(reader.text, reader.pos))
      BY <1>1, <3>2, <3>4
    <3>5. QED
      BY <3>3, <3>4
  <2>3. QED
    BY <1>2, <2>1, <2>2 DEF WatcherTypeOK, Ends
<1>7. ReaderFits'
  BY <1>2, <1>3, <1>5, WatcherPaths DEF ReaderFits, IsPrefixOf
<1>8. DownIsBlank' /\ RemovalsFirst' /\ DirsOwed' /\ LogsOwed'
  <2>1. DownIsBlank'
    BY <1>2 DEF DownIsBlank
  <2>2. RemovalsFirst' /\ DirsOwed'
    BY <1>2 DEF RemovalsFirst, DirsOwed, Walks, Noticed, Removal
  <2>3. LogsOwed'
    BY <1>2, <1>5 DEF LogsOwed, Busy, Walks, Noticed, EndsBefore, Ends
  <2>4. QED
    BY <2>1, <2>2, <2>3
<1>9. LinesOwed'
  <2> SUFFICES ASSUME NEW g \in Files, up, "reset" \notin excused[g], ~RemovalQueued(g)
               PROVE  IF f = g
                      THEN reader.gen = gen[g] /\ DeliveredTo(g, n)'
                           /\ Len(reader.text) \in Ends(content[g])
                      ELSE DeliveredTo(g, tails[g])'
    BY <1>2, <1>5
    DEF LinesOwed, RemovalQueued, Removal, DeliveredTo, AtLineStart, Ends, Scannable
  <2>1. IF f = g
        THEN reader.gen = gen[g] /\ DeliveredTo(g, reader.pos)
             /\ Len(reader.text) \in Ends(content[g])
        ELSE DeliveredTo(g, tails[g])
    BY DEF LinesOwed
  <2>2. CASE f # g
    <3>1. delivered'[g] = delivered[g]
      BY <1>1, <2>2 DEF WatcherTypeOK
    <3>2. QED
      BY <1>2, <2>1, <2>2, <3>1 DEF DeliveredTo, AtLineStart, Ends, Scannable
  <2>3. CASE f = g
    <3>1. AtLineStart(reader.text, reader.pos)
      BY <1>3, <2>1, <2>3 DEF DeliveredTo, AtLineStart
    <3>2. delivered'[f] = delivered[f] \cup {n}
      BY <1>1, <1>3, <2>1, <2>3, <3>1 DEF WatcherTypeOK
    <3>3. n <= Len(content[f]) /\ n \in Ends(content[f])
      BY <1>3, <1>4, <2>1, <2>3 DEF IsPrefixOf
    <3>4. ASSUME NEW m \in Ends(content[f]), m <= n, Scannable(content[f], m)
          PROVE  m \in delivered'[f]
      <4>1. m \in Nat
        BY <1>3, EndsType
      <4>2. m \in Ends(reader.text)
        BY <1>3, <1>4, <2>1, <2>3, <3>4, <4>1
      <4>3. m <= reader.pos \/ m = n
        BY <1>1, <1>3, <1>4, <3>4, <4>1, <4>2
      <4>4. QED
        BY <2>1, <2>3, <3>2, <3>4, <4>3 DEF DeliveredTo
    <3>5. DeliveredTo(g, n)'
      BY <1>2, <2>3, <3>3, <3>4 DEF DeliveredTo, AtLineStart, Ends, Scannable
    <3>6. QED
      BY <2>1, <2>3, <3>5
  <2>4. QED
    BY <2>2, <2>3
<1>10. QED
  BY <1>6, <1>7, <1>8, <1>9

LEMMA FinishStep == ASSUME WatcherInv, FinishFile PROVE WatcherInv'
<1> USE DEF WatcherInv
<1> DEFINE f == reader.file
<1>1. /\ up /\ reader # Idle /\ NothingToScan /\ reader' = Idle
      /\ tails' = [tails EXCEPT ![f] = Len(reader.text)]
      /\ UNCHANGED <<exists, content, gen, crashes, up, watch, queue, walk, delivered, excused>>
  BY DEF FinishFile, disk, ghost
<1>2. /\ f \in Files /\ reader.text \in Seq(Units)
      /\ reader.pos \in Nat /\ Len(reader.text) \in Nat
      /\ reader.pos <= Len(reader.text) /\ Len(reader.text) <= MaxUnits
      /\ content[f] \in Seq(Units) /\ Len(content[f]) \in Nat
      /\ reader.gen = gen[f] =>
           /\ IsPrefixOf(reader.text, content[f])
           /\ Ends(reader.text) = {m \in Ends(content[f]) : m <= Len(reader.text)}
  BY <1>1, BeingRead
<1>3. /\ reader'.file \notin Files /\ reader'.file = NoFile
      /\ tails'[f] = Len(reader.text)
      /\ \A g \in Files \ {f} : tails'[g] = tails[g]
  BY <1>1, <1>2, IdleType, WatcherPaths DEF WatcherTypeOK
<1>4. WatcherTypeOK'
  <2>1. tails' \in [Files -> 0..MaxUnits]
    BY <1>1, <1>2, WatcherPaths DEF WatcherTypeOK
  <2>2. /\ reader' \in [file : Files \cup {NoFile}, gen : 0..MaxGen,
                        text : Seq(Units), pos : 0..MaxUnits]
        /\ reader'.file = NoFile
    BY <1>1, IdleType
  <2>3. QED
    BY <1>1, <2>1, <2>2 DEF WatcherTypeOK, Ends
<1>5. ReaderFits' /\ DownIsBlank'
  BY <1>1, <1>3, IdleType, WatcherPaths DEF ReaderFits, DownIsBlank
<1>6. RemovalsFirst' /\ DirsOwed'
  BY <1>1 DEF RemovalsFirst, DirsOwed, Walks, Noticed, Removal
<1>7. LogsOwed'
  <2> SUFFICES ASSUME NEW g \in exists \cap Files, watch[Parent[g]] = "yes",
                      "unread" \notin excused[g], ~Busy(g)
               PROVE  Ends(content[g]) # {} => EndsBefore(content[g], tails'[g])
    BY <1>1, <1>3 DEF LogsOwed, EndsBefore, Ends, Busy, Walks, Noticed
  <2>1. IF f = g THEN EndsBefore(content[g], Len(reader.text))
        ELSE Ends(content[g]) # {} => EndsBefore(content[g], tails[g])
    BY DEF LogsOwed
  <2>2. QED
    BY <1>3, <2>1
<1>8. LinesOwed'
  <2> SUFFICES ASSUME NEW g \in Files, up, "reset" \notin excused[g], ~RemovalQueued(g)
               PROVE  DeliveredTo(g, tails'[g])
    BY <1>1, <1>3
    DEF LinesOwed, RemovalQueued, Removal, DeliveredTo, AtLineStart, Ends, Scannable
  <2>1. IF f = g
        THEN reader.gen = gen[g] /\ DeliveredTo(g, reader.pos)
             /\ Len(reader.text) \in Ends(content[g])
        ELSE DeliveredTo(g, tails[g])
    BY DEF LinesOwed
  <2>2. CASE f # g
    BY <1>3, <2>1, <2>2
  <2>3. CASE f = g
    <3>1. ASSUME NEW m \in Ends(content[f]), m <= Len(reader.text), Scannable(content[f], m)
          PROVE  m \in delivered[f]
      <4>1. m \in Nat
        BY <1>2, EndsType
      <4>2. CASE m <= reader.pos
        BY <2>1, <2>3, <3>1, <4>2 DEF DeliveredTo
      <4>3. CASE m > reader.pos
        <5>1. reader.pos + 1 \in 1..Len(reader.text) /\ reader.pos + 1 \in 1..m
          BY <1>2, <3>1, <4>1, <4>3
        <5>2. reader.text[reader.pos + 1] = "big"
          BY <1>1, <1>2, <5>1 DEF NothingToScan
        <5>3. content[f][reader.pos + 1] = "big"
          BY <1>2, <2>1, <2>3, <5>1, <5>2 DEF IsPrefixOf
        <5>4. QED
          BY <3>1, <5>1, <5>3 DEF Scannable
      <4>4. QED
        BY <1>2, <4>1, <4>2, <4>3
    <3>2. Len(reader.text) <= Len(content[f])
      BY <1>2, <2>1, <2>3 DEF IsPrefixOf
    <3>3. DeliveredTo(f, Len(reader.text))
      BY <2>1, <2>3, <3>1, <3>2 DEF DeliveredTo, AtLineStart
    <3>4. QED
      BY <1>3, <2>3, <3>3
  <2>4. QED
    BY <2>2, <2>3
<1>9. QED
  BY <1>4, <1>5, <1>6, <1>7, <1>8

\* A read leaves nothing owed of its log: it has the region up to the last
\* newline in hand, or there is none behind the offset, or it has failed.
LEMMA ReadKeeps ==
    ASSUME WatcherInv, up, reader = Idle, NEW f \in Files, ReadFile(f),
           UNCHANGED <<exists, content, gen, crashes, up, watch, tails, delivered>>,
           \A g \in Files \ {f} : Busy(g) => Busy(g)',
           \A g \in Files : RemovalQueued(g) => RemovalQueued(g)'
    PROVE  /\ reader' \in [file : Files \cup {NoFile}, gen : 0..MaxGen,
                           text : Seq(Units), pos : 0..MaxUnits]
           /\ reader'.file # NoFile => reader'.pos <= Len(reader'.text)
           /\ excused' \in [Files -> SUBSET {"reset", "unread"}]
           /\ ReaderFits' /\ LogsOwed' /\ LinesOwed'
<1> USE DEF WatcherInv
<1> DEFINE text == content[f]
           from == IF Len(text) < tails[f] THEN 0 ELSE tails[f]
<1>1. /\ text \in Seq(Units) /\ Len(text) \in Nat /\ Len(text) <= MaxUnits
      /\ tails[f] \in Nat /\ from \in Nat /\ from <= Len(text)
      /\ gen[f] \in 0..MaxGen /\ MaxGen \in Nat /\ MaxUnits \in Nat
      /\ excused \in [Files -> SUBSET {"reset", "unread"}]
      /\ f # NoFile /\ reader.file = NoFile
  BY EndsType, IdleType, WatcherPaths DEF WatcherTypeOK
<1>2. \A g \in Files : g \in exists /\ watch[Parent[g]] = "yes" /\ "unread" \notin excused[g]
                       /\ ~Busy(g) /\ Ends(content[g]) # {}
                       => EndsBefore(content[g], tails[g])
  BY <1>1, WatcherPaths DEF LogsOwed
<1>3. \A g \in Files : "reset" \notin excused[g] /\ ~RemovalQueued(g)
                       => DeliveredTo(g, tails[g])
  BY <1>1, WatcherPaths DEF LinesOwed
<1>4. ASSUME NEW last \in Ends(text), last > from, \A n \in Ends(text) : n <= last,
             StartReading(f, SubSeq(text, 1, last), from)
      PROVE  /\ reader' \in [file : Files \cup {NoFile}, gen : 0..MaxGen,
                             text : Seq(Units), pos : 0..MaxUnits]
             /\ reader'.file # NoFile => reader'.pos <= Len(reader'.text)
             /\ excused' \in [Files -> SUBSET {"reset", "unread"}]
             /\ ReaderFits' /\ LogsOwed' /\ LinesOwed'
  <2> DEFINE region == SubSeq(text, 1, last)
  <2>1. /\ last \in Nat /\ last <= Len(text)
        /\ region \in Seq(Units) /\ Len(region) = last
        /\ \A i \in 1..last : region[i] = text[i]
    BY <1>1, TextStart
  <2>2. /\ reader' = [file |-> f, gen |-> gen[f], text |-> region, pos |-> from]
        /\ excused' = [excused EXCEPT ![f] = IF from = 0 THEN {} ELSE @ \ {"unread"}]
    BY <1>4 DEF StartReading
  <2> HIDE DEF region
  <2>3. /\ reader'.file = f /\ reader'.gen = gen[f] /\ reader'.text = region
        /\ reader'.pos = from /\ Len(reader'.text) = last
    BY <2>1, <2>2
  <2>4. /\ excused' \in [Files -> SUBSET {"reset", "unread"}]
        /\ \A g \in Files \ {f} : excused'[g] = excused[g]
        /\ from # 0 /\ "reset" \notin excused'[f] => "reset" \notin excused[f]
    <3>1. PICK why \in SUBSET {"reset", "unread"} :
            /\ excused' = [excused EXCEPT ![f] = why]
            /\ from # 0 => why = excused[f] \ {"unread"}
      BY <1>1, <2>2
    <3>2. QED
      BY <1>1, <3>1
  <2>5. /\ reader' \in [file : Files \cup {NoFile}, gen : 0..MaxGen,
                        text : Seq(Units), pos : 0..MaxUnits]
        /\ reader'.pos <= Len(reader'.text)
    <3>1. from \in 0..MaxUnits /\ from <= last
      BY <1>1, <1>4, <2>1
    <3>2. QED
      BY <1>1, <2>1, <2>2, <2>3, <3>1
  <2>6. ReaderFits'
    BY <1>1, <2>1, <2>3 DEF ReaderFits, IsPrefixOf
  <2>7. LogsOwed'
    <3> SUFFICES ASSUME NEW g \in exists \cap Files, watch[Parent[g]] = "yes",
                        "unread" \notin excused'[g], ~Busy(g)'
                 PROVE  IF f = g THEN EndsBefore(content[g], last)
                        ELSE Ends(content[g]) # {} => EndsBefore(content[g], tails[g])
      BY <2>3 DEF LogsOwed, EndsBefore, Ends
    <3>1. CASE f = g
      BY <1>4, <2>1, <3>1 DEF EndsBefore
    <3>2. CASE f # g
      BY <1>2, <2>4, <3>2
    <3>3. QED
      BY <3>1, <3>2
  <2>8. LinesOwed'
    <3> SUFFICES ASSUME NEW g \in Files, "reset" \notin excused'[g], ~RemovalQueued(g)'
                 PROVE  IF f = g THEN DeliveredTo(g, from) /\ last \in Ends(content[g])
                        ELSE DeliveredTo(g, tails[g])
      BY <2>3 DEF LinesOwed, DeliveredTo, AtLineStart, Ends, Scannable
    <3>1. CASE f = g /\ from = 0
      BY <1>1, <3>1, NothingDelivered
    <3>2. CASE f = g /\ from # 0
      BY <1>3, <2>4, <3>2
    <3>3. CASE f # g
      BY <1>3, <2>4, <3>3
    <3>4. QED
      BY <3>1, <3>2, <3>3
  <2>9. QED
    BY <2>4, <2>5, <2>6, <2>7, <2>8
<1>5. ASSUME \/ f \notin exists \/ \A n \in Ends(text) : n <= from
             \/ "unread" \in excused'[f],
             reader' = reader,
             \/ excused' = excused
             \/ excused' = [excused EXCEPT ![f] = @ \cup {"unread"}]
      PROVE  /\ reader' \in [file : Files \cup {NoFile}, gen : 0..MaxGen,
                             text : Seq(Units), pos : 0..MaxUnits]
             /\ reader'.file # NoFile => reader'.pos <= Len(reader'.text)
             /\ excused' \in [Files -> SUBSET {"reset", "unread"}]
             /\ ReaderFits' /\ LogsOwed' /\ LinesOwed'
  <2>1. /\ excused' \in [Files -> SUBSET {"reset", "unread"}]
        /\ \A g \in Files \ {f} : excused'[g] = excused[g]
        /\ "reset" \notin excused'[f] => "reset" \notin excused[f]
    BY <1>1, <1>5
  <2>2. ReaderFits'
    BY <1>1, <1>5 DEF ReaderFits, Idle
  <2>3. LogsOwed'
    <3> SUFFICES ASSUME NEW g \in exists \cap Files, watch[Parent[g]] = "yes",
                        "unread" \notin excused'[g], ~Busy(g)', Ends(content[g]) # {}
                 PROVE  EndsBefore(content[g], tails[g])
      BY <1>1, <1>5, WatcherPaths DEF LogsOwed, EndsBefore, Ends
    <3>1. CASE f = g
      <4>1. \A n \in Ends(text) : n <= from /\ n \in Nat /\ n >= 1
        BY <1>1, <1>5, <3>1, EndsType
      <4>2. from # 0
        BY <1>1, <3>1, <4>1
      <4>3. QED
        BY <1>1, <3>1, <4>1, <4>2 DEF EndsBefore
    <3>2. CASE f # g
      BY <1>2, <2>1, <3>2
    <3>3. QED
      BY <3>1, <3>2
  <2>4. LinesOwed'
    <3> SUFFICES ASSUME NEW g \in Files, "reset" \notin excused'[g], ~RemovalQueued(g)'
                 PROVE  DeliveredTo(g, tails[g])
      BY <1>1, <1>5, WatcherPaths DEF LinesOwed, DeliveredTo, AtLineStart, Ends, Scannable
    <3>1. QED
      BY <1>3, <2>1
  <2>5. QED
    BY <1>1, <1>5, <2>1, <2>2, <2>3, <2>4 DEF WatcherTypeOK
<1>6. "unread" \in [excused EXCEPT ![f] = @ \cup {"unread"}][f]
  BY <1>1
<1>7. QED
  BY <1>4, <1>5, <1>6 DEF ReadFile

(***************************************************************************)
(* The walk.                                                               *)
(***************************************************************************)

LEMMA EnterStep ==
    ASSUME WatcherInv, Ready, NEW d \in Dirs, EnterDir(d),
           UNCHANGED <<exists, content, gen, crashes, up, queue, delivered>>
    PROVE  WatcherInv'
<1> USE DEF WatcherInv
<1>1. /\ walk' = (walk \ {[step |-> "enter", path |-> d]}) \cup {[step |-> "list", path |-> d]}
      /\ UNCHANGED <<tails, reader, excused>>
      /\ up
  BY DEF EnterDir, Ready
<1>2. /\ watch \in [Dirs -> {"yes", "no", "failed"}]
      /\ Parent \in [Paths -> Dirs] /\ Files \subseteq Paths /\ exists \subseteq Paths
  BY WatcherPaths DEF WatcherTypeOK, Paths
<1>3. watch' = [watch EXCEPT ![d] = "yes"] \/ PassOver({d})
  BY DEF EnterDir
<1>4. /\ watch' \in [Dirs -> {"yes", "no", "failed"}]
      /\ watch'[d] # "no"
      /\ \A c \in Dirs \ {d} : watch'[c] = watch[c]
      /\ \A c \in Dirs : watch[c] = "yes" => watch'[c] = "yes"
      /\ \A c \in Dirs : watch[c] # "no" => watch'[c] # "no"
  <2>1. CASE watch' = [watch EXCEPT ![d] = "yes"]
    BY <1>2, <2>1
  <2>2. CASE PassOver({d})
    BY <1>2, <2>2 DEF PassOver
  <2>3. QED
    BY <1>3, <2>1, <2>2
<1>5. /\ Walks("list", d)'
      /\ \A c : Walks("list", c) => Walks("list", c)'
      /\ \A c : c # d /\ Walks("enter", c) => Walks("enter", c)'
      /\ \A c : Walks("file", c) => Walks("file", c)'
  BY <1>1 DEF Walks
<1>6. WatcherTypeOK'
  <2>1. [step |-> "list", path |-> d] \in Visit
    BY DEF Visit
  <2>2. walk' \subseteq Visit
    BY <1>1, <2>1 DEF WatcherTypeOK
  <2>3. QED
    BY <1>1, <1>4, <2>2 DEF WatcherTypeOK, Ends
<1>7. ReaderFits' /\ DownIsBlank'
  BY <1>1 DEF ReaderFits, DownIsBlank, IsPrefixOf, Idle
<1>8. RemovalsFirst'
  BY <1>2, <1>4 DEF RemovalsFirst, Removal
<1>9. DirsOwed'
  <2> SUFFICES ASSUME NEW c \in exists \cap Dirs, watch'[Parent[c]] = "yes"
               PROVE  \/ watch'[c] # "no"
                      \/ Walks("list", Parent[c])' \/ Walks("enter", c)' \/ Noticed(c)
    BY DEF DirsOwed, Noticed, Walks
  <2>1. CASE Parent[c] = d
    BY <1>5, <2>1
  <2>2. CASE Parent[c] # d
    <3>1. watch[Parent[c]] = "yes"
      BY <1>2, <1>4, <2>2
    <3>2. watch[c] # "no" \/ Walks("list", Parent[c]) \/ Walks("enter", c) \/ Noticed(c)
      BY <3>1 DEF DirsOwed
    <3>3. QED
      BY <1>4, <1>5, <3>2
  <2>3. QED
    BY <2>1, <2>2
<1>10. LogsOwed'
  <2> SUFFICES ASSUME NEW f \in exists \cap Files, watch'[Parent[f]] = "yes",
                      "unread" \notin excused[f], ~Busy(f)'
               PROVE  IF reader.file = f THEN EndsBefore(content[f], Len(reader.text))
                      ELSE Ends(content[f]) # {} => EndsBefore(content[f], tails[f])
    BY <1>1 DEF LogsOwed, EndsBefore, Ends
  <2>1. Parent[f] # d /\ ~Busy(f)
    BY <1>5 DEF Busy, Noticed
  <2>2. watch[Parent[f]] = "yes"
    BY <1>2, <1>4, <2>1
  <2>3. QED
    BY <2>1, <2>2 DEF LogsOwed
<1>11. LinesOwed'
  BY <1>1 DEF LinesOwed, RemovalQueued, Removal, DeliveredTo, AtLineStart, Ends, Scannable
<1>12. QED
  BY <1>6, <1>7, <1>8, <1>9, <1>10, <1>11

LEMMA ListStep ==
    ASSUME WatcherInv, Ready, NEW d \in Dirs, ListDir(d),
           UNCHANGED <<exists, content, gen, crashes, up, queue, delivered>>
    PROVE  WatcherInv'
<1> USE DEF WatcherInv
<1> DEFINE found == {p \in exists : Parent[p] = d}
           Visits(got) == {[step |-> IF p \in Dirs THEN "enter" ELSE "file", path |-> p] :
                             p \in got}
<1>1. PICK got \in SUBSET found :
        /\ walk' = (walk \ {[step |-> "list", path |-> d]}) \cup Visits(got)
        /\ PassOver(found \ got)
        /\ excused' = [f \in Files |->
                          excused[f] \cup (IF f \in found \ got THEN {"unread"} ELSE {})]
  BY DEF ListDir
<1>2. UNCHANGED <<tails, reader>> /\ up
  BY DEF ListDir, Ready
<1>3. /\ exists \subseteq Paths /\ Dirs \cap Files = {} /\ Files \subseteq Paths
      /\ Parent \in [Paths -> Dirs]
  BY WatcherPaths DEF WatcherTypeOK, Paths
<1>4. /\ \A c : c # d /\ Walks("list", c) => Walks("list", c)'
      /\ \A c : Walks("enter", c) => Walks("enter", c)'
      /\ \A c : Walks("file", c) => Walks("file", c)'
  BY <1>1 DEF Walks
<1>5. /\ \A c \in got \cap Dirs : Walks("enter", c)'
      /\ \A f \in got \cap Files : Walks("file", f)'
  BY <1>1, <1>3 DEF Walks
<1>6. /\ watch' \in [Dirs -> {"yes", "no", "failed"}]
      /\ \A c \in Dirs : watch'[c] = "yes" <=> watch[c] = "yes"
      /\ \A c \in Dirs : watch'[c] = "no" => watch[c] = "no" /\ c \notin found \ got
  BY <1>1, PassedOver DEF WatcherTypeOK
<1>7. /\ excused' \in [Files -> SUBSET {"reset", "unread"}]
      /\ \A f \in Files : excused[f] \subseteq excused'[f]
      /\ \A f \in Files : f \in found \ got => "unread" \in excused'[f]
      /\ \A f \in Files : "reset" \in excused'[f] => "reset" \in excused[f]
  BY <1>1 DEF WatcherTypeOK
<1>8. WatcherTypeOK'
  <2>1. Visits(got) \subseteq Visit
    BY <1>3 DEF Visit, Paths
  <2>2. walk' \subseteq Visit
    BY <1>1, <2>1 DEF WatcherTypeOK
  <2>3. QED
    BY <1>2, <1>6, <1>7, <2>2 DEF WatcherTypeOK, Ends
<1>9. ReaderFits' /\ DownIsBlank'
  BY <1>2 DEF ReaderFits, DownIsBlank, IsPrefixOf, Idle
<1>10. RemovalsFirst'
  BY <1>3, <1>6 DEF RemovalsFirst, Removal
<1>11. DirsOwed'
  <2> SUFFICES ASSUME NEW c \in exists \cap Dirs, watch'[Parent[c]] = "yes",
                      watch'[c] = "no"
               PROVE  Walks("list", Parent[c])' \/ Walks("enter", c)' \/ Noticed(c)
    BY DEF DirsOwed, Noticed, Walks
  <2>1. watch[Parent[c]] = "yes" /\ watch[c] = "no" /\ c \notin found \ got
    BY <1>3, <1>6
  <2>2. Walks("list", Parent[c]) \/ Walks("enter", c) \/ Noticed(c)
    BY <2>1 DEF DirsOwed
  <2>3. QED
    BY <1>4, <1>5, <2>1, <2>2
<1>12. LogsOwed'
  <2> SUFFICES ASSUME NEW f \in exists \cap Files, watch'[Parent[f]] = "yes",
                      "unread" \notin excused'[f], ~Busy(f)'
               PROVE  IF reader.file = f THEN EndsBefore(content[f], Len(reader.text))
                      ELSE Ends(content[f]) # {} => EndsBefore(content[f], tails[f])
    BY <1>2 DEF LogsOwed, EndsBefore, Ends
  <2>1. "unread" \notin excused[f] /\ f \notin found \ got /\ watch[Parent[f]] = "yes"
    BY <1>3, <1>6, <1>7
  <2>2. ~Busy(f)
    BY <1>4, <1>5, <2>1 DEF Busy, Noticed
  <2>3. QED
    BY <2>1, <2>2 DEF LogsOwed
<1>13. LinesOwed'
  <2>1. \A f \in Files : "reset" \notin excused'[f] => "reset" \notin excused[f]
    BY <1>7
  <2>2. QED
    BY <1>2, <2>1 DEF LinesOwed, RemovalQueued, Removal, DeliveredTo, AtLineStart, Ends,
                      Scannable
<1>14. QED
  BY <1>8, <1>9, <1>10, <1>11, <1>12, <1>13

LEMMA VisitFileStep ==
    ASSUME WatcherInv, Ready, NEW f \in Files, VisitFile(f),
           UNCHANGED <<exists, content, gen, crashes, up, queue, delivered>>
    PROVE  WatcherInv'
<1> USE DEF WatcherInv
<1>1. /\ ReadFile(f) /\ walk' = walk \ {[step |-> "file", path |-> f]}
      /\ UNCHANGED <<watch, tails>> /\ up /\ reader = Idle
  BY DEF VisitFile, Ready
<1>2. /\ \A c : Walks("list", c) => Walks("list", c)'
      /\ \A c : Walks("enter", c) => Walks("enter", c)'
      /\ \A c : c # f /\ Walks("file", c) => Walks("file", c)'
  BY <1>1 DEF Walks
<1>3. \A g \in Files \ {f} : Busy(g) => Busy(g)'
  BY <1>2 DEF Busy, Noticed
<1>4. \A g \in Files : RemovalQueued(g) => RemovalQueued(g)'
  BY DEF RemovalQueued, Removal
<1>5. /\ reader' \in [file : Files \cup {NoFile}, gen : 0..MaxGen,
                      text : Seq(Units), pos : 0..MaxUnits]
      /\ reader'.file # NoFile => reader'.pos <= Len(reader'.text)
      /\ excused' \in [Files -> SUBSET {"reset", "unread"}]
      /\ ReaderFits' /\ LogsOwed' /\ LinesOwed'
  BY <1>1, <1>3, <1>4, ReadKeeps
<1>6. WatcherTypeOK'
  BY <1>1, <1>5 DEF WatcherTypeOK, Ends
<1>7. DownIsBlank' /\ RemovalsFirst'
  BY <1>1 DEF DownIsBlank, RemovalsFirst, Removal
<1>8. DirsOwed'
  BY <1>1, <1>2 DEF DirsOwed, Noticed
<1>9. QED
  BY <1>5, <1>6, <1>7, <1>8

LEMMA WalkKeeps == ASSUME WatcherInv, WalkStep PROVE WatcherInv'
<1>1. PICK v \in walk : \/ v.step = "enter" /\ EnterDir(v.path)
                        \/ v.step = "list" /\ ListDir(v.path)
                        \/ v.step = "file" /\ VisitFile(v.path)
  BY DEF WalkStep
<1>2. Ready /\ UNCHANGED <<exists, content, gen, crashes, up, queue, delivered>>
  BY DEF WalkStep, disk
<1>3. /\ v.step \in {"enter", "list"} => v.path \in Dirs
      /\ v.step = "file" => v.path \in Files
  <2>1. v \in Visit
    BY DEF WatcherInv, WatcherTypeOK
  <2>2. QED
    BY <2>1 DEF Visit
<1>4. CASE v.step = "enter" /\ EnterDir(v.path)
  BY <1>2, <1>3, <1>4, EnterStep
<1>5. CASE v.step = "list" /\ ListDir(v.path)
  BY <1>2, <1>3, <1>5, ListStep
<1>6. CASE v.step = "file" /\ VisitFile(v.path)
  BY <1>2, <1>3, <1>6, VisitFileStep
<1>7. QED
  BY <1>1, <1>4, <1>5, <1>6

(***************************************************************************)
(* The events.                                                             *)
(***************************************************************************)

\* An event that comes first leaves the order of those behind it alone.
LEMMA RemovalsPop ==
    ASSUME queue \in Seq(Event), RemovalsFirst, queue # <<>>, queue' = Tail(queue),
           UNCHANGED exists,
           \A f \in Files : watch[Parent[f]] = "yes" => watch'[Parent[f]] = "yes"
    PROVE  RemovalsFirst'
<1>1. /\ Len(queue) \in Nat /\ Len(queue) >= 1 /\ Len(queue') = Len(queue) - 1
      /\ \A i \in 1..Len(queue') : queue'[i] = queue[i + 1]
  BY PopEffect
<1> SUFFICES ASSUME NEW f \in Files, NEW i \in 1..Len(queue'), queue'[i] = Removal(f)
             PROVE  /\ watch'[Parent[f]] = "yes"
                    /\ f \in exists => \E j \in 1..Len(queue') :
                         j > i /\ queue'[j].path = f /\ queue'[j].op # "remove"
  BY DEF RemovalsFirst, Removal
<1>2. i + 1 \in 1..Len(queue) /\ queue[i + 1] = Removal(f)
  BY <1>1
<1>3. watch'[Parent[f]] = "yes"
  BY <1>2 DEF RemovalsFirst
<1>4. ASSUME f \in exists
      PROVE  \E j \in 1..Len(queue') :
               j > i /\ queue'[j].path = f /\ queue'[j].op # "remove"
  <2>1. PICK k \in 1..Len(queue) : k > i + 1 /\ queue[k].path = f /\ queue[k].op # "remove"
    BY <1>2, <1>4 DEF RemovalsFirst
  <2>2. k - 1 \in 1..Len(queue') /\ k - 1 > i /\ queue'[k - 1] = queue[k]
    BY <1>1, <2>1
  <2>3. QED
    BY <2>1, <2>2
<1>5. QED
  BY <1>3, <1>4

LEMMA HandleKeeps == ASSUME WatcherInv, HandleEvent PROVE WatcherInv'
<1> USE DEF WatcherInv
<1> DEFINE e == Head(queue)
<1>1. /\ up /\ reader = Idle /\ walk = {} /\ queue # <<>> /\ queue' = Tail(queue)
      /\ OnCreateDir(e) \/ OnFile(e) \/ OnGone(e) \/ OnRemove(e)
      /\ UNCHANGED <<exists, content, gen, crashes, up, delivered>>
  BY DEF HandleEvent, Ready, disk
<1>2. /\ queue \in Seq(Event) /\ exists \subseteq Paths /\ Dirs \cap Files = {}
      /\ Files \subseteq Paths /\ Parent \in [Paths -> Dirs]
  BY WatcherPaths DEF WatcherTypeOK, Paths
<1>3. /\ queue' \in Seq(Event) /\ e = queue[1] /\ e \in Event
      /\ Len(queue) \in Nat /\ Len(queue) >= 1
  BY <1>1, <1>2, PopEffect
<1>4. /\ \A p : Noticed(p) /\ ~Noticed(p)' => e.path = p /\ e.op # "remove"
      /\ \A p : RemovalQueued(p)' => RemovalQueued(p)
      /\ \A p : RemovalQueued(p) /\ ~RemovalQueued(p)' => e = Removal(p)
  BY <1>1, <1>2, EventsPop
<1>0. /\ watch' \in [Dirs -> {"yes", "no", "failed"}]
      /\ \A d \in Dirs : watch'[d] = "yes" <=> watch[d] = "yes"
      /\ \A d \in Dirs : watch'[d] = "no" => watch[d] = "no"
  <2>1. watch' = watch \/ \E ds : PassOver(ds)
    BY <1>1 DEF OnCreateDir, OnFile, OnGone, OnRemove
  <2>2. QED
    BY <2>1, PassedOver DEF WatcherTypeOK
<1>5. RemovalsFirst'
  <2>1. \A f \in Files : watch'[Parent[f]] = "yes" <=> watch[Parent[f]] = "yes"
    BY <1>0, <1>2
  <2>2. QED
    BY <1>1, <1>2, <2>1, RemovalsPop
<1>6. DownIsBlank'
  BY <1>1 DEF DownIsBlank
<1>7. \A step, p : ~Walks(step, p)
  BY <1>1 DEF Walks
<1>8. DirsOwed'
  <2> SUFFICES ASSUME NEW d \in exists \cap Dirs, watch'[Parent[d]] = "yes", watch'[d] = "no"
               PROVE  Walks("enter", d)' \/ Noticed(d)'
    BY <1>1 DEF DirsOwed
  <2>0. watch[Parent[d]] = "yes" /\ watch[d] = "no"
    BY <1>0, <1>2
  <2>1. Noticed(d)
    BY <1>7, <2>0 DEF DirsOwed
  <2>2. CASE e.path = d /\ e.op # "remove"
    <3>1. OnCreateDir(e)
      BY <1>1, <1>2, <2>2 DEF OnFile, OnGone, OnRemove
    <3>2. ~PassOver({e.path})
      <4>1. ASSUME PassOver({e.path}) PROVE watch'[d] # "no"
        BY <2>2, <4>1, PassedOver DEF WatcherTypeOK
      <4>2. QED
        BY <4>1
    <3>3. QED
      BY <2>2, <3>1, <3>2 DEF OnCreateDir, Walks
  <2>3. QED
    BY <1>4, <2>1, <2>2
<1>9. CASE OnFile(e)
  <2>1. /\ e.path \in exists \cap Files /\ e.op # "remove" /\ ReadFile(e.path)
        /\ UNCHANGED <<watch, walk, tails>>
    BY <1>9 DEF OnFile
  <2>2. \A g \in Files \ {e.path} : Busy(g) => Busy(g)'
    BY <1>4, <1>7 DEF Busy
  <2>3. \A g \in Files : RemovalQueued(g) => RemovalQueued(g)'
    BY <1>4, <2>1 DEF Removal
  <2>4. /\ reader' \in [file : Files \cup {NoFile}, gen : 0..MaxGen,
                        text : Seq(Units), pos : 0..MaxUnits]
        /\ reader'.file # NoFile => reader'.pos <= Len(reader'.text)
        /\ excused' \in [Files -> SUBSET {"reset", "unread"}]
        /\ ReaderFits' /\ LogsOwed' /\ LinesOwed'
    BY <1>1, <2>1, <2>2, <2>3, ReadKeeps
  <2>5. WatcherTypeOK'
    BY <1>1, <1>3, <2>1, <2>4 DEF WatcherTypeOK, Ends
  <2>6. QED
    BY <1>5, <1>6, <1>8, <2>4, <2>5
<1>10. CASE OnCreateDir(e) \/ OnGone(e)
  <2>1. /\ UNCHANGED <<tails, reader, excused>> /\ e.op # "remove"
        /\ e.path \notin exists \cap Files
    BY <1>2, <1>10 DEF OnCreateDir, OnGone
  <2>2. WatcherTypeOK'
    <3>1. walk' \subseteq Visit
      <4>1. CASE OnCreateDir(e)
        BY <1>1, <4>1 DEF OnCreateDir, Visit
      <4>2. CASE OnGone(e)
        BY <1>1, <4>2 DEF OnGone
      <4>3. QED
        BY <1>10, <4>1, <4>2
    <3>2. QED
      BY <1>0, <1>1, <1>3, <2>1, <3>1 DEF WatcherTypeOK, Ends
  <2>3. ReaderFits'
    BY <1>1, <2>1 DEF ReaderFits, IsPrefixOf, Idle
  <2>4. LogsOwed'
    <3> SUFFICES ASSUME NEW f \in exists \cap Files, watch'[Parent[f]] = "yes",
                        "unread" \notin excused[f], ~Busy(f)'
                 PROVE  IF reader.file = f THEN EndsBefore(content[f], Len(reader.text))
                        ELSE Ends(content[f]) # {} => EndsBefore(content[f], tails[f])
      BY <1>1, <2>1 DEF LogsOwed, EndsBefore, Ends
    <3>1. ~Busy(f)
      BY <1>4, <1>7, <2>1 DEF Busy
    <3>2. watch[Parent[f]] = "yes"
      BY <1>0, <1>2
    <3>3. QED
      BY <3>1, <3>2 DEF LogsOwed
  <2>5. LinesOwed'
    <3>1. \A f \in Files : RemovalQueued(f) => RemovalQueued(f)'
      BY <1>4, <2>1 DEF Removal
    <3>2. QED
      BY <1>1, <2>1, <3>1 DEF LinesOwed, DeliveredTo, AtLineStart, Ends, Scannable
  <2>6. QED
    BY <1>5, <1>6, <1>8, <2>2, <2>3, <2>4, <2>5
<1>11. CASE OnRemove(e)
  <2>1. /\ e.op = "remove" /\ tails' = [tails EXCEPT ![e.path] = 0]
        /\ UNCHANGED <<watch, walk, reader, excused>>
    BY <1>11 DEF OnRemove
  <2>2. /\ tails \in [Files -> 0..MaxUnits] /\ tails' \in [Files -> 0..MaxUnits]
        /\ \A f \in Files \ {e.path} : tails'[f] = tails[f]
        /\ \A f \in Files : f = e.path => tails'[f] = 0
    <3>1. tails \in [Files -> 0..MaxUnits] /\ 0 \in 0..MaxUnits
      BY WatcherPaths DEF WatcherTypeOK
    <3>2. PICK p : p = e.path /\ tails' = [tails EXCEPT ![p] = 0]
      BY <2>1
    <3>3. QED
      BY <3>1, <3>2
  <2>3. WatcherTypeOK'
    BY <1>1, <1>3, <2>1, <2>2 DEF WatcherTypeOK, Ends
  <2>4. ReaderFits'
    BY <1>1, <2>1 DEF ReaderFits, IsPrefixOf, Idle
  <2>5. \A f \in Files : reader'.file # f
    BY <1>1, <2>1, IdleType, WatcherPaths
  <2>6. \A f \in Files : f = e.path => e = Removal(f)
    BY <1>3, <2>1 DEF Event, Removal
  <2>7. LogsOwed'
    <3> SUFFICES ASSUME NEW f \in exists \cap Files, watch[Parent[f]] = "yes",
                        "unread" \notin excused[f], ~Busy(f)', Ends(content[f]) # {}
                 PROVE  EndsBefore(content[f], tails'[f])
      BY <1>1, <2>1, <2>5 DEF LogsOwed, EndsBefore, Ends
    <3>1. ~Noticed(f)
      BY <1>4, <2>1 DEF Busy
    <3>2. f # e.path
      <4>1. ASSUME queue[1] = Removal(f)
            PROVE  Noticed(f)
        BY <1>3, <4>1 DEF RemovalsFirst, Noticed
      <4>2. QED
        BY <1>3, <2>6, <3>1, <4>1
    <3>3. ~Busy(f)
      BY <1>7, <3>1 DEF Busy
    <3>4. QED
      BY <2>1, <2>2, <2>5, <3>2, <3>3 DEF LogsOwed
  <2>8. LinesOwed'
    <3> SUFFICES ASSUME NEW f \in Files, "reset" \notin excused[f], ~RemovalQueued(f)'
                 PROVE  DeliveredTo(f, tails'[f])
      BY <1>1, <2>1, <2>5 DEF LinesOwed, DeliveredTo, AtLineStart, Ends, Scannable
    <3>1. CASE f = e.path
      BY <2>2, <3>1, NothingDelivered DEF WatcherTypeOK
    <3>2. CASE f # e.path
      <4>1. ~RemovalQueued(f)
        BY <1>4, <3>2 DEF Removal
      <4>2. QED
        BY <1>1, <2>1, <2>2, <2>5, <3>2, <4>1 DEF LinesOwed
    <3>3. QED
      BY <3>1, <3>2
  <2>9. QED
    BY <1>5, <1>6, <1>8, <2>3, <2>4, <2>7, <2>8
<1>12. QED
  BY <1>1, <1>9, <1>10, <1>11

(***************************************************************************)
(* The theorems.                                                           *)
(***************************************************************************)

LEMMA WatcherInitInv == WatcherInit => WatcherInv
<1> SUFFICES ASSUME WatcherInit PROVE WatcherInv
  OBVIOUS
<1>1. Len(queue) = 0 /\ queue \in Seq(Event)
  BY EmptySeq DEF WatcherInit
<1>2. \A f \in Files : content[f] = <<>> /\ content[f] \in Seq(Units) /\ Len(content[f]) = 0
  BY EmptySeq DEF WatcherInit
<1>3. WatcherTypeOK
  <2>1. content \in [Files -> Seq(Units)]
    BY <1>2 DEF WatcherInit
  <2>2. \A f \in Files : Len(content[f]) <= MaxUnits
    BY <1>2, WatcherPaths
  <2>3. /\ gen \in [Files -> 0..MaxGen] /\ crashes \in 0..MaxCrashes
        /\ tails \in [Files -> 0..MaxUnits]
    BY WatcherPaths DEF WatcherInit
  <2>4. /\ watch \in [Dirs -> {"yes", "no", "failed"}]
        /\ delivered \in [Files -> SUBSET (1..MaxUnits)]
        /\ \A f \in Files : delivered[f] \subseteq Ends(content[f])
        /\ excused \in [Files -> SUBSET {"reset", "unread"}]
    BY DEF WatcherInit
  <2>5. QED
    BY <1>1, <2>1, <2>2, <2>3, <2>4, IdleType DEF WatcherInit, WatcherTypeOK
<1>4. ReaderFits
  BY IdleType, WatcherPaths DEF WatcherInit, ReaderFits
<1>5. DownIsBlank /\ DirsOwed /\ LogsOwed /\ LinesOwed
  BY DEF WatcherInit, DownIsBlank, DirsOwed, LogsOwed, LinesOwed
<1>6. RemovalsFirst
  BY <1>1 DEF RemovalsFirst
<1>7. QED
  BY <1>3, <1>4, <1>5, <1>6 DEF WatcherInv

LEMMA WatcherIdles == WatcherInv /\ UNCHANGED watcherVars => WatcherInv'
<1> SUFFICES ASSUME WatcherInv, UNCHANGED watcherVars PROVE WatcherInv'
  OBVIOUS
<1> USE DEF WatcherInv
<1>1. UNCHANGED <<exists, content, gen, crashes, up, watch, queue, walk, tails, reader,
                  delivered, excused>>
  BY DEF watcherVars, disk, state, ghost
<1>2. WatcherTypeOK'
  BY <1>1 DEF WatcherTypeOK, Ends
<1>3. ReaderFits' /\ DownIsBlank'
  BY <1>1 DEF ReaderFits, DownIsBlank, IsPrefixOf, Idle
<1>4. RemovalsFirst' /\ DirsOwed'
  BY <1>1 DEF RemovalsFirst, DirsOwed, Walks, Noticed, Removal
<1>5. LogsOwed'
  BY <1>1 DEF LogsOwed, Busy, Walks, Noticed, EndsBefore, Ends
<1>6. LinesOwed'
  BY <1>1 DEF LinesOwed, RemovalQueued, Removal, DeliveredTo, AtLineStart, Ends, Scannable
<1>7. QED
  BY <1>2, <1>3, <1>4, <1>5, <1>6

LEMMA WatcherStepInv == WatcherInv /\ [WatcherNext]_watcherVars => WatcherInv'
<1> SUFFICES ASSUME WatcherInv, [WatcherNext]_watcherVars PROVE WatcherInv'
  OBVIOUS
<1>1. QED
  BY CreateStep, WriteStep, NewLogStep, CrashStep, StartStep, DeliverStep, FinishStep,
     WalkKeeps, HandleKeeps, WatcherIdles DEF WatcherNext

THEOREM WatcherInvariant == WatcherSpec => []WatcherInv
BY WatcherInitInv, WatcherStepInv, PTL DEF WatcherSpec

\* The watches, the queue, the offsets and the region in hand keep their types,
\* and no line is delivered that the log does not have.
THEOREM WatcherTypeCorrect == WatcherSpec => []WatcherTypeOK
<1>1. WatcherInv => WatcherTypeOK
  BY DEF WatcherInv
<1>2. QED
  BY <1>1, WatcherInvariant, PTL

LEMMA QuietOwesNothing ==
    ASSUME WatcherInv, Quiet
    PROVE  /\ up /\ reader = Idle /\ \A f \in Files : reader.file # f
           /\ \A p : ~Noticed(p) /\ ~RemovalQueued(p) /\ ~Walks("enter", p)
                     /\ ~Walks("list", p) /\ ~Walks("file", p)
<1>1. up /\ reader = Idle /\ walk = {} /\ Len(queue) = 0
  BY EmptySeq DEF Quiet, Ready
<1>2. QED
  BY <1>1, IdleType, WatcherPaths DEF Noticed, RemovalQueued, Walks

\* In any tree, a watcher at rest watches every directory under a watched one,
\* but those that a failed stat, listing or Add passed over.
THEOREM NoDirOverlookedCorrect == WatcherSpec => []NoDirOverlooked
<1>1. ASSUME WatcherInv, Quiet
      PROVE  \A d \in exists \cap Dirs : watch[Parent[d]] = "yes" => watch[d] # "no"
  BY <1>1, QuietOwesNothing DEF WatcherInv, DirsOwed
<1>2. WatcherInv => NoDirOverlooked
  BY <1>1 DEF NoDirOverlooked
<1>3. QED
  BY <1>2, WatcherInvariant, PTL

LEMMA QuietOffsets ==
    ASSUME WatcherInv, Quiet, NEW f \in exists \cap Files, watch[Parent[f]] = "yes",
           "unread" \notin excused[f], Ends(content[f]) # {}
    PROVE  EndsBefore(content[f], tails[f])
BY QuietOwesNothing DEF WatcherInv, LogsOwed, Busy

\* A watcher at rest has an offset behind every complete line of every log that
\* no failed listing or read left out, and within the log.
THEOREM OffsetFitsCorrect == WatcherSpec => []OffsetFits
<1>1. WatcherInv => OffsetFits
  BY QuietOffsets DEF OffsetFits, EndsBefore
<1>2. QED
  BY <1>1, WatcherInvariant, PTL

\* A watcher at rest has called the handler for every complete line before the
\* first too long one of every log that has no excuse, for any directories,
\* writes, replacements, failing calls and restarts.
THEOREM CaughtUpCorrect == WatcherSpec => []CaughtUp
<1>1. ASSUME WatcherInv, Quiet, NEW f \in exists \cap Files, watch[Parent[f]] = "yes",
             excused[f] = {}
      PROVE  /\ {n \in Ends(content[f]) : Scannable(content[f], n)} \subseteq delivered[f]
             /\ delivered[f] \subseteq Ends(content[f])
  <2>1. delivered[f] \subseteq Ends(content[f])
    BY <1>1 DEF WatcherInv, WatcherTypeOK
  <2>2. DeliveredTo(f, tails[f])
    BY <1>1, QuietOwesNothing DEF WatcherInv, LinesOwed
  <2>3. Ends(content[f]) # {} => EndsBefore(content[f], tails[f])
    BY <1>1, QuietOffsets
  <2>4. QED
    BY <2>1, <2>2, <2>3 DEF DeliveredTo, EndsBefore
<1>2. WatcherInv => CaughtUp
  BY <1>1 DEF CaughtUp
<1>3. QED
  BY <1>2, WatcherInvariant, PTL
=============================================================================
