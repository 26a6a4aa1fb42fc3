------------------------------- MODULE Watcher -------------------------------
(***************************************************************************)
(* internal/watcher: one goroutine that walks the projects directory and   *)
(* then serves fsnotify events, tailing every log from a byte offset it    *)
(* keeps in memory, beside the sessions that create directories and logs,  *)
(* append to them in pieces, and the users that truncate or replace them.  *)
(*                                                                         *)
(* A log is a sequence of units: "part", the bytes of a line as far as     *)
(* they are written, "big", the same beyond the scanner's 10 MB limit, and *)
(* "end", the newline.  fsnotify delivers the events of a watched directory *)
(* in order, and the kernel merges an event into an identical one before   *)
(* it; its queue does not overflow.  Directories are not removed.  A stat, *)
(* a listing, an Add or a read that fails is logged at most, never retried. *)
(***************************************************************************)
EXTENDS Naturals, Sequences, FiniteSets

CONSTANTS
    Root,       \* the projects directory
    Dirs,       \* directories, Root among them
    Files,      \* paths that end in .jsonl
    Parent,     \* the directory of a path
    NoFile,     \* no log is being read
    MayFail,    \* the calls that may return an error
    MaxUnits,   \* bound: units in a log
    MaxGen,     \* bound: times a log is truncated or created again
    MaxCrashes  \* bound: ends of the watcher

Paths == (Dirs \ {Root}) \cup Files
Calls == {"stat", "list", "add", "read"}

ASSUME WatcherPaths ==
    /\ IsFiniteSet(Dirs) /\ IsFiniteSet(Files)
    /\ Root \in Dirs /\ NoFile \notin Files
    /\ Dirs \cap Files = {}
    /\ Parent \in [Paths -> Dirs]
    /\ MayFail \subseteq Calls
    /\ MaxUnits \in Nat /\ MaxGen \in Nat /\ MaxCrashes \in Nat

VARIABLES
    exists,    \* the paths on disk
    content,   \* content[f]: the units of log f
    gen,       \* gen[f]: which log of that name it is
    crashes,   \* how often the watcher has ended
    up,        \* the watcher runs
    watch,     \* watch[d]: "yes", "no", or "failed": a call that failed passed it over
    queue,     \* fsnotify's events, oldest first
    walk,      \* what the directory walk still has to visit
    tails,     \* tails[f]: the offset, 0 when there is no entry
    reader,    \* the processFile in progress
    delivered, \* delivered[f]: the lines of this f the handler was called for
    excused    \* excused[f]: why lines of f may be left unread

disk == <<exists, content, gen, crashes>>
state == <<up, watch, queue, walk, tails, reader>>
ghost == <<delivered, excused>>
watcherVars == <<disk, state, ghost>>

Units == {"part", "big", "end"}
Ends(text) == {n \in DOMAIN text : text[n] = "end"}

Idle == [file |-> NoFile, gen |-> 0, text |-> <<>>, pos |-> 0]

Event == [op : {"create", "write", "remove"}, path : Paths]
Visit == [step : {"enter", "list"}, path : Dirs] \cup [step : {"file"}, path : Files]

WatcherTypeOK ==
    /\ exists \subseteq Paths
    /\ content \in [Files -> Seq(Units)]
    /\ \A f \in Files : Len(content[f]) <= MaxUnits
    /\ gen \in [Files -> 0..MaxGen]
    /\ crashes \in 0..MaxCrashes
    /\ up \in BOOLEAN
    /\ watch \in [Dirs -> {"yes", "no", "failed"}]
    /\ queue \in Seq(Event)
    /\ walk \subseteq Visit
    /\ tails \in [Files -> 0..MaxUnits]
    /\ reader \in [file : Files \cup {NoFile}, gen : 0..MaxGen,
                   text : Seq(Units), pos : 0..MaxUnits]
    /\ reader.file # NoFile => reader.pos <= Len(reader.text)
    /\ delivered \in [Files -> SUBSET (1..MaxUnits)]
    /\ \A f \in Files : delivered[f] \subseteq Ends(content[f])
    /\ excused \in [Files -> SUBSET {"reset", "unread"}]

-----------------------------------------------------------------------------
(* Sessions and users.  What happens in a watched directory is queued.     *)

OnDisk(d) == d = Root \/ d \in exists

Emit(op, path) ==
    LET e == [op |-> op, path |-> path]
    IN  queue' = IF /\ up /\ watch[Parent[path]] = "yes"
                    /\ (queue = <<>> \/ queue[Len(queue)] # e)
                 THEN Append(queue, e) ELSE queue

\* A directory, or a log under a name that may have been used before.
Create(path) ==
    /\ path \notin exists /\ OnDisk(Parent[path])
    /\ exists' = exists \cup {path}
    /\ Emit("create", path)
    /\ UNCHANGED <<content, gen, crashes, up, watch, walk, tails, reader, ghost>>

AtLineStart(text, n) == n \in {0} \cup Ends(text)

\* A line is written in pieces, and is not empty.
WriteUnit(f) ==
    /\ f \in exists
    /\ Len(content[f]) < MaxUnits
    /\ \E u \in Units :
        /\ u = "end" => ~AtLineStart(content[f], Len(content[f]))
        /\ u = "big" => AtLineStart(content[f], Len(content[f]))
        /\ content' = [content EXCEPT ![f] = Append(@, u)]
    /\ Emit("write", f)
    /\ UNCHANGED <<exists, gen, crashes, up, watch, walk, tails, reader, ghost>>

\* The next log of this name, whose lines are others.
NewLog(f) ==
    /\ gen[f] < MaxGen
    /\ gen' = [gen EXCEPT ![f] = @ + 1]
    /\ content' = [content EXCEPT ![f] = <<>>]
    /\ delivered' = [delivered EXCEPT ![f] = {}]

Remove(f) ==
    /\ f \in exists
    /\ exists' = exists \ {f}
    /\ NewLog(f)
    /\ excused' = [excused EXCEPT ![f] =
                     IF up /\ watch[Parent[f]] # "yes" THEN {"reset"} ELSE {}]
    /\ Emit("remove", f)
    /\ UNCHANGED <<crashes, up, watch, walk, tails, reader>>

Truncate(f) ==
    /\ f \in exists /\ content[f] # <<>>
    /\ NewLog(f)
    /\ excused' = [excused EXCEPT ![f] = IF up THEN @ \cup {"reset"} ELSE @]
    /\ Emit("write", f)
    /\ UNCHANGED <<exists, crashes, up, watch, walk, tails, reader>>

-----------------------------------------------------------------------------
(* The life of the watcher.                                                *)

\* Offsets, watches and events end with the process.
Crash ==
    /\ up
    /\ crashes < MaxCrashes
    /\ crashes' = crashes + 1
    /\ up' = FALSE
    /\ watch' = [d \in Dirs |-> "no"]
    /\ queue' = <<>>
    /\ walk' = {}
    /\ tails' = [f \in Files |-> 0]
    /\ reader' = Idle
    /\ excused' = [f \in Files |-> {}]
    /\ UNCHANGED <<exists, content, gen, delivered>>

PassOver(ds) ==
    watch' = [d \in Dirs |-> IF d \in ds /\ watch[d] # "yes" THEN "failed" ELSE watch[d]]

\* When the walk cannot stat the root, it ends before it began, and the
\* watcher serves no event.
StartWatch ==
    /\ ~up
    /\ up' = TRUE
    /\ \/ walk' = {[step |-> "enter", path |-> Root]} /\ UNCHANGED watch
       \/ "stat" \in MayFail /\ PassOver({Root}) /\ UNCHANGED walk
    /\ UNCHANGED <<disk, queue, tails, reader, ghost>>

Ready == up /\ reader = Idle

-----------------------------------------------------------------------------
(* processFile.                                                            *)

StartReading(f, text, pos) ==
    /\ reader' = [file |-> f, gen |-> gen[f], text |-> text, pos |-> pos]
    /\ excused' = [excused EXCEPT ![f] =
                     IF pos = 0 THEN {} ELSE @ \ {"unread"}]

\* Fault: a log shorter than its offset is not noticed.
ReadNoReset(f) ==
    \/ /\ f \in exists
       /\ \E last \in Ends(content[f]) :
            /\ last > tails[f] /\ \A n \in Ends(content[f]) : n <= last
            /\ StartReading(f, SubSeq(content[f], 1, last), tails[f])
    \/ /\ f \notin exists \/ \A n \in Ends(content[f]) : n <= tails[f]
       /\ UNCHANGED <<reader, excused>>

\* Open, stat, and read from the offset, or from the start when the log is
\* shorter than the offset, up to the last newline.  Without one, without a
\* file, or when a call fails, nothing changes.
ReadFile(f) ==
    LET text == content[f]
        from == IF Len(text) < tails[f] THEN 0 ELSE tails[f]
    IN  \/ /\ f \in exists
           /\ \E last \in Ends(text) :
                /\ last > from /\ \A n \in Ends(text) : n <= last
                /\ StartReading(f, SubSeq(text, 1, last), from)
        \/ /\ f \notin exists \/ \A n \in Ends(text) : n <= from
           /\ UNCHANGED <<reader, excused>>
        \/ /\ "read" \in MayFail
           /\ excused' = [excused EXCEPT ![f] = @ \cup {"unread"}]
           /\ UNCHANGED reader

\* The scanner yields the next line.  A line that is not whole, after an
\* offset inside it, does not parse.
DeliverLine ==
    /\ up /\ reader # Idle
    /\ \E n \in Ends(reader.text) :
        /\ n > reader.pos
        /\ \A m \in Ends(reader.text) : m > reader.pos => n <= m
        /\ reader.text[reader.pos + 1] # "big"
        /\ reader' = [reader EXCEPT !.pos = n]
        /\ delivered' =
             IF reader.gen = gen[reader.file] /\ AtLineStart(reader.text, reader.pos)
             THEN [delivered EXCEPT ![reader.file] = @ \cup {n}] ELSE delivered
    /\ UNCHANGED <<disk, up, watch, queue, walk, tails, excused>>

\* The region is used up, or the scanner has met a line beyond its limit: the
\* offset goes to the end of the region either way.
NothingToScan ==
    reader.pos < Len(reader.text) => reader.text[reader.pos + 1] = "big"

\* Fault: the region's length is added to an offset that already holds it.
FinishTwice ==
    /\ up /\ reader # Idle
    /\ NothingToScan
    /\ tails' = [tails EXCEPT ![reader.file] = @ + Len(reader.text)]
    /\ reader' = Idle
    /\ UNCHANGED <<disk, up, watch, queue, walk, ghost>>

\* Fault: the offset goes to the end of the log, the partial line included.
FinishAtEnd ==
    /\ up /\ reader # Idle
    /\ NothingToScan
    /\ tails' = [tails EXCEPT ![reader.file] = Len(content[reader.file])]
    /\ reader' = Idle
    /\ UNCHANGED <<disk, up, watch, queue, walk, ghost>>

FinishFile ==
    /\ up /\ reader # Idle
    /\ NothingToScan
    /\ tails' = [tails EXCEPT ![reader.file] = Len(reader.text)]
    /\ reader' = Idle
    /\ UNCHANGED <<disk, up, watch, queue, walk, ghost>>

-----------------------------------------------------------------------------
(* initialScan and addDirRecursive: a directory is watched, then listed,   *)
(* then what the listing found is visited, while the disk changes.         *)

EnterDir(d) ==
    /\ \/ watch' = [watch EXCEPT ![d] = "yes"]
       \/ "add" \in MayFail /\ PassOver({d})
    /\ walk' = (walk \ {[step |-> "enter", path |-> d]}) \cup {[step |-> "list", path |-> d]}
    /\ UNCHANGED <<tails, reader, excused>>

\* Fault: subdirectories are left to their Create events.
ListFiles(d) ==
    /\ walk' = (walk \ {[step |-> "list", path |-> d]})
         \cup {[step |-> "file", path |-> p] : p \in {q \in exists \cap Files : Parent[q] = d}}
    /\ UNCHANGED <<watch, tails, reader, excused>>

\* A listing that fails yields what it had found before, and the walk goes on.
ListDir(d) ==
    LET found == {p \in exists : Parent[p] = d}
    IN  \E got \in SUBSET found :
          /\ got = found \/ "list" \in MayFail
          /\ walk' = (walk \ {[step |-> "list", path |-> d]})
               \cup {[step |-> IF p \in Dirs THEN "enter" ELSE "file", path |-> p] : p \in got}
          /\ PassOver(found \ got)
          /\ excused' = [f \in Files |->
                            excused[f] \cup (IF f \in found \ got THEN {"unread"} ELSE {})]
    /\ UNCHANGED <<tails, reader>>

VisitFile(f) ==
    /\ ReadFile(f)
    /\ walk' = walk \ {[step |-> "file", path |-> f]}
    /\ UNCHANGED <<watch, tails>>

WalkStep ==
    /\ Ready
    /\ \E v \in walk :
        \/ v.step = "enter" /\ EnterDir(v.path)
        \/ v.step = "list" /\ ListDir(v.path)
        \/ v.step = "file" /\ VisitFile(v.path)
    /\ UNCHANGED <<disk, up, queue, delivered>>

-----------------------------------------------------------------------------
(* handleFSEvent, when no walk is in progress.                             *)

OnCreateDir(e) ==
    /\ e.op = "create" /\ e.path \in exists \cap Dirs
    /\ \/ walk' = {[step |-> "enter", path |-> e.path]} /\ UNCHANGED watch
       \/ "stat" \in MayFail /\ PassOver({e.path}) /\ UNCHANGED walk
    /\ UNCHANGED <<tails, reader, excused>>

OnFile(e) ==
    /\ e.op \in {"create", "write"} /\ e.path \in exists \cap Files
    /\ ReadFile(e.path)
    /\ UNCHANGED <<watch, walk, tails>>

\* The file is gone again.
OnGone(e) ==
    /\ e.op \in {"create", "write"} /\ e.path \notin exists
    /\ UNCHANGED <<watch, walk, tails, reader, excused>>

OnRemove(e) ==
    /\ e.op = "remove"
    /\ tails' = [tails EXCEPT ![e.path] = 0]
    /\ UNCHANGED <<watch, walk, reader, excused>>

HandleEvent ==
    /\ Ready /\ walk = {} /\ queue # <<>>
    /\ LET e == Head(queue)
       IN  OnCreateDir(e) \/ OnFile(e) \/ OnGone(e) \/ OnRemove(e)
    /\ queue' = Tail(queue)
    /\ UNCHANGED <<disk, up, delivered>>

-----------------------------------------------------------------------------

WatcherInit ==
    /\ exists = {}
    /\ content = [f \in Files |-> <<>>]
    /\ gen = [f \in Files |-> 0]
    /\ crashes = 0
    /\ up = FALSE
    /\ watch = [d \in Dirs |-> "no"]
    /\ queue = <<>>
    /\ walk = {}
    /\ tails = [f \in Files |-> 0]
    /\ reader = Idle
    /\ delivered = [f \in Files |-> {}]
    /\ excused = [f \in Files |-> {}]

WatcherNext ==
    \/ \E p \in Paths : Create(p)
    \/ \E f \in Files : WriteUnit(f) \/ Remove(f) \/ Truncate(f)
    \/ Crash
    \/ StartWatch
    \/ DeliverLine
    \/ FinishFile
    \/ WalkStep
    \/ HandleEvent

WatcherSpec == WatcherInit /\ [][WatcherNext]_watcherVars

-----------------------------------------------------------------------------
(* Properties.                                                             *)

Quiet == Ready /\ walk = {} /\ queue = <<>>

\* When the watcher has nothing left to do, every directory on disk under a
\* watched one is watched, unless Add refused it, its stat failed, or a listing
\* that failed left it out, errors the walk swallows for good (watcher.go
\* 182-189, 211, 242-248): a directory created between the listing of its
\* parent and the watch on it is not overlooked (235-239).
NoDirOverlooked ==
    Quiet => \A d \in exists \cap Dirs : watch[Parent[d]] = "yes" => watch[d] # "no"

\* No line beyond the scanner's limit stands at or before n.
Scannable(text, n) == \A i \in 1..n : text[i] # "big"

\* Then too the handler has been called for every complete line of every log
\* in a watched directory up to the first line beyond the scanner's limit,
\* whatever was written, created, removed or replaced while the walk, the
\* reads and the events went on and however often the watcher was restarted
\* (watcher.go 26-46, and 343-344: "any successful events above are already
\* processed").  The lines behind one too long are lost with it, against 266,
\* "skipped".  Exempt are logs that have not been read from the start since
\* they were truncated, or replaced in a directory not watched, and those whose
\* last read failed or that the last listing, which failed, left out.
CaughtUp ==
    Quiet => \A f \in exists \cap Files :
        watch[Parent[f]] = "yes" /\ excused[f] = {}
        => /\ {n \in Ends(content[f]) : Scannable(content[f], n)} \subseteq delivered[f]
           /\ delivered[f] \subseteq Ends(content[f])

\* And no complete line of a log that was listed and could be read lies beyond
\* its offset, nor the offset beyond the log: "if a file shrinks below our
\* offset, we reset to 0 and reprocess" (watcher.go 35-36), also when it shrinks
\* while it is being read.
OffsetFits ==
    Quiet => \A f \in exists \cap Files :
        watch[Parent[f]] = "yes" /\ "unread" \notin excused[f] /\ Ends(content[f]) # {}
        => tails[f] <= Len(content[f]) /\ \A n \in Ends(content[f]) : n <= tails[f]
=============================================================================
