---------------------------- MODULE PriceRefresh ----------------------------
(***************************************************************************)
(* The signed price table: internal/pricing/refresh, the table overlay of  *)
(* internal/pricing and the refresher of the watcher, beside one-shot      *)
(* commands that load the cached bundle and `pricing refresh`.  Every      *)
(* process has its own table in memory; the three cache files, and the     *)
(* temporary files they are renamed from, are shared.                      *)
(*                                                                         *)
(* The server is external.  Its releases are numbered in the order of      *)
(* publication; a bundle, its detached signature and its ETag are each     *)
(* named by the release they belong to, and a signature verifies a bundle  *)
(* when both are of one release.  The server may hand out an old release   *)
(* again, and publish between the two requests of a refresh.  The gate on  *)
(* data dated in the future is left out: it needs a wrong clock.           *)
(***************************************************************************)
EXTENDS Integers, FiniteSets

CONSTANTS
    Procs,        \* processes
    Commands,     \* Commands[p]: what each may run as
    Models,       \* model ids
    Newest,       \* bound: releases are 1..Newest
    BuiltIn,      \* the release compiled into the binary
    Day,          \* dataModified of a release
    Carries,      \* the models a release prices
    Rate,         \* Rate[r][m]: the open input rate of m in release r
    Malformed,    \* releases that parseBundle or Install refuse by themselves
    MaxJump,      \* maxRateJumpFactor: 10
    MaxFaults,    \* bound: requests without an answer, failed writes, crashes
                  \* in the middle of a refresh, damaged files, servers going back
    None,         \* no file, nothing received
    Damaged,      \* bytes that belong to no release
    NoTable       \* the table of a process that does not run

Releases == 1..Newest
Content == Releases \cup {None, Damaged}
CommandNames == {"watch", "read", "refresh"}
FileNames == {"bundle", "sig", "etag"}

ASSUME PriceRefreshSets ==
    /\ IsFiniteSet(Models)
    /\ Commands \in [Procs -> SUBSET CommandNames]
    /\ Newest \in Nat /\ BuiltIn \in Releases
    /\ None \notin Nat /\ Damaged \notin Nat /\ NoTable \notin Nat
    /\ None # Damaged

ASSUME PriceRefreshReleases ==
    /\ Day \in [Releases -> Nat]
    /\ Carries \in [Releases -> SUBSET Models]
    /\ Rate \in [Releases -> [Models -> Nat]]
    /\ Malformed \subseteq Releases
    /\ MaxJump \in Nat /\ MaxFaults \in Nat

VARIABLES
    published,  \* the newest release there is
    served,     \* the release the server hands out
    disk,       \* the cache: bundle, signature and ETag
    tmp,        \* their temporary files
    proc,       \* each process: command, table in force, and the refresh it is at
    faults,     \* how often something has gone wrong
    writers,    \* history: the processes that have written the cache
    tampered    \* history: a file was damaged, or the server went back

world == <<published, served, faults>>
history == <<writers, tampered>>
priceVars == <<world, disk, tmp, proc, history>>

\* at: idle, loading the cache, asking for the bundle, for the signature,
\* writing or renaming `file`; sent: the ETag of the request; got: the bundle.
Off == [cmd |-> "off", table |-> NoTable, at |-> "idle", file |-> "bundle",
        sent |-> None, got |-> None]

Process == [cmd : CommandNames \cup {"off"}, table : Releases \cup {NoTable},
            at : {"idle", "load", "ask", "sig", "write", "rename"},
            file : FileNames, sent : Content, got : Content]

PriceRefreshTypeOK ==
    /\ published \in Releases /\ served \in Releases
    /\ faults \in 0..MaxFaults
    /\ disk \in [FileNames -> Content]
    /\ tmp \in [FileNames -> Content]
    /\ proc \in [Procs -> Process]
    /\ writers \subseteq Procs /\ tampered \in BOOLEAN
    /\ \A p \in Procs :
        /\ proc[p].cmd = "off" => proc[p] = Off
        /\ proc[p].cmd # "off" => proc[p].table \in Releases
        /\ proc[p].at \in {"sig", "write", "rename"} => proc[p].got \in Releases

-----------------------------------------------------------------------------
(* The table in force and the gates in front of it.                        *)

\* Install overlays a release on the built-in table, which is never lost.
Known(t) == Carries[BuiltIn] \cup Carries[t]
RateIn(t, m) == IF m \in Carries[t] THEN Rate[t][m] ELSE Rate[BuiltIn][m]

\* Fault: the anti-rollback gate is gone.
PlausibleAnyDay(t, r) ==
    LET missing == Known(t) \ Carries[r]
    IN  /\ r \notin Malformed
        /\ 2 * Cardinality(missing) < Cardinality(Known(t))
        /\ \A m \in Carries[r] \cap Known(t) :
            /\ Rate[r][m] <= MaxJump * RateIn(t, m)
            /\ RateIn(t, m) <= MaxJump * Rate[r][m]

\* checkPlausible of release r by a process with table t: no rollback, fewer
\* than half of the known models missing, no rate moved too far.
Plausible(t, r) ==
    LET missing == Known(t) \ Carries[r]
    IN  /\ r \notin Malformed
        /\ Day[r] >= Day[t]
        /\ 2 * Cardinality(missing) < Cardinality(Known(t))
        /\ \A m \in Carries[r] \cap Known(t) :
            /\ Rate[r][m] <= MaxJump * RateIn(t, m)
            /\ RateIn(t, m) <= MaxJump * Rate[r][m]

Verified(bundle, sig) == bundle \in Releases /\ sig = bundle

\* installBundle.
Installs(t, bundle, sig) == Verified(bundle, sig) /\ Plausible(t, bundle)

\* loadCache: without bundle and signature there is no ETag.
CachedEtag == IF disk["bundle"] # None /\ disk["sig"] # None THEN disk["etag"] ELSE None

Step(p, changed) ==
    /\ proc' = [proc EXCEPT ![p] = changed]

-----------------------------------------------------------------------------
(* The world.                                                              *)

Fault == faults < MaxFaults /\ faults' = faults + 1

Publish ==
    /\ published < Newest
    /\ published' = published + 1
    /\ served' = published'
    /\ UNCHANGED <<faults, disk, tmp, proc, history>>

\* A mirror or a cache in between serves an earlier release again.
ServeOld ==
    /\ \E r \in BuiltIn..published : r < served /\ served' = r
    /\ tampered' = TRUE
    /\ Fault
    /\ UNCHANGED <<published, disk, tmp, proc, writers>>

Damage ==
    /\ disk["bundle"] \in Releases
    /\ disk' = [disk EXCEPT !["bundle"] = Damaged]
    /\ tampered' = TRUE
    /\ Fault
    /\ UNCHANGED <<published, served, tmp, proc, writers>>

-----------------------------------------------------------------------------
(* Processes.                                                              *)

Fresh(cmd) == [Off EXCEPT !.cmd = cmd, !.table = BuiltIn]

\* `watch` and the commands that print prices read the cached bundle; it and
\* its signature are two files, read one after the other.
StartLoading(p, cmd) ==
    /\ cmd \in Commands[p] \cap {"watch", "read"}
    /\ proc[p].cmd = "off"
    /\ Step(p, IF disk["bundle"] = None THEN Fresh(cmd)
               ELSE [Fresh(cmd) EXCEPT !.at = "load", !.got = disk["bundle"]])
    /\ UNCHANGED <<world, disk, tmp, history>>

\* `pricing refresh` starts from the built-in table and asks at once.
StartRefresh(p) ==
    /\ "refresh" \in Commands[p]
    /\ proc[p].cmd = "off"
    /\ Step(p, [Fresh("refresh") EXCEPT !.at = "ask", !.sent = CachedEtag])
    /\ UNCHANGED <<world, disk, tmp, history>>

\* A process ends, or is killed in the middle of a refresh.
Stop(p) ==
    /\ proc[p].cmd # "off"
    /\ Step(p, Off)
    /\ \/ proc[p].at = "idle" /\ UNCHANGED faults
       \/ proc[p].at # "idle" /\ Fault
    /\ UNCHANGED <<published, served, disk, tmp, history>>

\* The refresh ends: the command exits, another process goes on with the table
\* it has.
Rest(p) ==
    IF proc[p].cmd = "refresh" THEN Off
    ELSE [proc[p] EXCEPT !.at = "idle", !.file = "bundle", !.sent = None, !.got = None]

\* Fault: the cached bundle is trusted without its signature.
LoadUnverified(p) ==
    /\ proc[p].at = "load"
    /\ Step(p, IF proc[p].got # proc[p].table
               THEN [Rest(p) EXCEPT !.table = proc[p].got] ELSE Rest(p))
    /\ UNCHANGED <<world, disk, tmp, history>>

\* LoadCachedTable: verified and gated like a fetched bundle.
LoadCachedTable(p) ==
    /\ proc[p].at = "load"
    /\ Step(p, IF Installs(proc[p].table, proc[p].got, disk["sig"])
               THEN [Rest(p) EXCEPT !.table = proc[p].got] ELSE Rest(p))
    /\ UNCHANGED <<world, disk, tmp, history>>

\* The timer of the watcher's refresher, or a model it cannot price.
Once(p) ==
    /\ proc[p].cmd = "watch" /\ proc[p].at = "idle"
    /\ Step(p, [proc[p] EXCEPT !.at = "ask", !.sent = CachedEtag])
    /\ UNCHANGED <<world, disk, tmp, history>>

-----------------------------------------------------------------------------
(* One refresh: two requests, the checks, the table, three files.          *)

\* ErrOffline: no network, a timeout, a 5xx.
Offline(p) ==
    /\ proc[p].at \in {"ask", "sig"}
    /\ Step(p, Rest(p))
    /\ Fault
    /\ UNCHANGED <<published, served, disk, tmp, history>>

\* 304: the ETag of the request is that of the release being served.
NotModified(p) ==
    /\ proc[p].at = "ask"
    /\ proc[p].sent = served
    /\ Step(p, Rest(p))
    /\ UNCHANGED <<world, disk, tmp, history>>

GetBundle(p) ==
    /\ proc[p].at = "ask"
    /\ proc[p].sent # served
    /\ Step(p, [proc[p] EXCEPT !.at = "sig", !.got = served])
    /\ UNCHANGED <<world, disk, tmp, history>>

\* Fault: the signature is fetched once and kept.
GetSignatureCached(p) ==
    /\ proc[p].at = "sig"
    /\ LET sig == IF disk["sig"] = None THEN served ELSE disk["sig"]
       IN  Step(p, IF Installs(proc[p].table, proc[p].got, sig)
                   THEN [proc[p] EXCEPT !.at = "write", !.table = proc[p].got]
                   ELSE Rest(p))
    /\ UNCHANGED <<world, disk, tmp, history>>

\* The signature is fetched whatever is cached, then everything is checked
\* and the table swapped, before anything is saved.
GetSignature(p) ==
    /\ proc[p].at = "sig"
    /\ Step(p, IF Installs(proc[p].table, proc[p].got, served)
               THEN [proc[p] EXCEPT !.at = "write", !.table = proc[p].got]
               ELSE Rest(p))
    /\ UNCHANGED <<world, disk, tmp, history>>

\* saveCache writes each file beside its place and renames it there.  (The
\* steps of os.WriteFile itself are in GuardSync.)
SaveWrite(p) ==
    /\ proc[p].at = "write"
    /\ tmp' = [tmp EXCEPT ![proc[p].file] = proc[p].got]
    /\ Step(p, [proc[p] EXCEPT !.at = "rename"])
    /\ writers' = writers \cup {p}
    /\ UNCHANGED <<world, disk, tampered>>

\* Fault: the ETag is saved first.
NextFileEtagFirst(p) ==
    CASE proc[p].file = "bundle" -> [proc[p] EXCEPT !.at = "write", !.file = "etag"]
      [] proc[p].file = "etag" -> [proc[p] EXCEPT !.at = "write", !.file = "sig"]
      [] proc[p].file = "sig" -> Rest(p)

\* The bundle, its signature, then the ETag.
NextFile(p) ==
    CASE proc[p].file = "bundle" -> [proc[p] EXCEPT !.at = "write", !.file = "sig"]
      [] proc[p].file = "sig" -> [proc[p] EXCEPT !.at = "write", !.file = "etag"]
      [] proc[p].file = "etag" -> Rest(p)

\* The rename moves whatever is in the temporary file by now; it fails when
\* another process has moved it.
SaveRename(p) ==
    LET file == proc[p].file
    IN  /\ proc[p].at = "rename"
        /\ \/ /\ tmp[file] # None
              /\ disk' = [disk EXCEPT ![file] = tmp[file]]
              /\ tmp' = [tmp EXCEPT ![file] = None]
              /\ Step(p, NextFile(p))
           \/ /\ tmp[file] = None
              /\ Step(p, Rest(p))
              /\ UNCHANGED <<disk, tmp>>
        /\ UNCHANGED <<world, history>>

\* A save that fails ends the refresh, quietly; it may leave a part of the
\* file behind.
SaveFails(p) ==
    /\ proc[p].at = "write"
    /\ tmp' \in {tmp, [tmp EXCEPT ![proc[p].file] = Damaged]}
    /\ Step(p, Rest(p))
    /\ writers' = writers \cup {p}
    /\ Fault
    /\ UNCHANGED <<published, served, disk, tampered>>

RefreshStep(p) ==
    \/ LoadCachedTable(p)
    \/ Once(p)
    \/ Offline(p)
    \/ NotModified(p)
    \/ GetBundle(p)
    \/ GetSignature(p)
    \/ SaveWrite(p)
    \/ SaveRename(p)
    \/ SaveFails(p)

-----------------------------------------------------------------------------

PriceRefreshInit ==
    /\ published = BuiltIn /\ served = BuiltIn
    /\ faults = 0
    /\ disk = [f \in FileNames |-> None]
    /\ tmp = [f \in FileNames |-> None]
    /\ proc = [p \in Procs |-> Off]
    /\ writers = {} /\ tampered = FALSE

PriceRefreshNext ==
    \/ Publish
    \/ ServeOld
    \/ Damage
    \/ \E p \in Procs :
        \/ \E cmd \in CommandNames : StartLoading(p, cmd)
        \/ StartRefresh(p)
        \/ Stop(p)
        \/ RefreshStep(p)

PriceRefreshSpec == PriceRefreshInit /\ [][PriceRefreshNext]_priceVars

\* The refresher's timer fires for as long as the watcher runs, and a request
\* is answered or times out (15 s).
FairPriceRefreshSpec ==
    PriceRefreshSpec /\ \A p \in Procs : WF_priceVars(RefreshStep(p))

-----------------------------------------------------------------------------
(* Properties.                                                             *)

Table == INSTANCE PriceTable WITH inForce <- [p \in Procs |-> proc[p].table]

\* Through any interleaving of refreshes, crashes between the three renames,
\* torn or damaged cache files, a server that publishes between two requests
\* or goes back, a process prices with one whole published release, and never
\* moves to older data while it runs (fetch.go 133-136, table.go 13-25).
TableOnlyMovesForward == Table!PriceTableSpec

\* Nobody but p has written the cache, no file was damaged, and the server
\* has only moved forward.
Alone(p) == writers \subseteq {p} /\ ~tampered

\* "ErrNotModified reports a 304. The cached table is already current"
\* (fetch.go 43): with one writer, an ETag that names the newest release lies
\* beside the bundle and the signature of that release, whatever crash or
\* failed write cut a save short, so a 304 is never answered to a cache that
\* cannot be loaded.
EtagNamesTheCache ==
    (\E p \in Procs : Alone(p)) /\ disk["etag"] = published =>
        Verified(disk["bundle"], disk["sig"]) /\ disk["bundle"] = published

\* A release that is published reaches the watcher's table in the end, if it
\* passes the gates, although the watcher is killed and restarted at any
\* step, requests fail and saves fail, as long as nobody else writes the
\* cache (pricing_daemon.go 104-138).
NewReleaseReachesWatcher ==
    \A p \in {q \in Procs : "watch" \in Commands[q]} : \A r \in Releases :
        (proc[p].cmd = "watch" /\ published = r)
            ~> \/ proc[p].table = r
               \/ proc[p].cmd # "watch" \/ published # r
               \/ ~Plausible(proc[p].table, r) \/ ~Alone(p)

\* "pricing: table already current" (pricing_daemon.go 144-146): when the
\* watcher is told that nothing has changed, it prices with the release that
\* the server has.
CurrentMeansCurrent ==
    [][\A p \in Procs :
        proc[p].cmd = "watch" /\ NotModified(p) => proc[p].table = served]_priceVars
=============================================================================
