------------------------- MODULE PriceRefreshProofs -------------------------
(***************************************************************************)
(* Theorems about PriceRefresh for any processes, models, releases and     *)
(* gate: the type invariant, and that the signed cache and the refreshers  *)
(* implement PriceTable.  The invariant behind both says that no file, no  *)
(* answer and no process holds a release that is not published yet; that a *)
(* step then is a step of PriceTable follows from the gate alone.          *)
(***************************************************************************)
EXTENDS PriceRefresh, TLAPS

USE DEF world, history, priceVars

\* Whatever is held anywhere has been published.
Published(x) == x \in Releases => x <= published

HeldIsPublished ==
    /\ BuiltIn <= published
    /\ Published(served)
    /\ \A f \in FileNames : Published(disk[f]) /\ Published(tmp[f])
    /\ \A p \in Procs : Published(proc[p].table) /\ Published(proc[p].got)

\* `pricing refresh` does not load the cache.
RefreshDoesNotLoad == \A p \in Procs : proc[p].at = "load" => proc[p].cmd # "refresh"

PriceRefreshInv == PriceRefreshTypeOK /\ HeldIsPublished /\ RefreshDoesNotLoad

-----------------------------------------------------------------------------
(* Lemmas about processes.                                                 *)

\* What Rest gives: the table is kept, or the process is off.
LEMMA RestOf ==
    ASSUME NEW p \in Procs, PriceRefreshTypeOK, proc[p].cmd # "off"
    PROVE  /\ Rest(p) \in Process
           /\ Rest(p).cmd = "off" => Rest(p) = Off
           /\ Rest(p).cmd # "off" => Rest(p).table = proc[p].table
           /\ Rest(p).at = "idle" /\ Rest(p).got = None
  <1>1. proc[p] \in Process BY DEF PriceRefreshTypeOK
  <1>2. CASE proc[p].cmd = "refresh"
    BY <1>1, <1>2, PriceRefreshSets DEF Rest, Off, Process, Content, CommandNames, FileNames
  <1>3. CASE proc[p].cmd # "refresh"
    BY <1>1, <1>3 DEF Rest, Process, Content, CommandNames, FileNames
  <1> QED BY <1>2, <1>3

\* A step of one process from p's record to `changed` keeps the part of the
\* invariant that is about processes, if `changed` satisfies it.
LEMMA StepKeepsProcesses ==
    ASSUME NEW p \in Procs, NEW changed \in Process,
           proc \in [Procs -> Process],
           proc' = [proc EXCEPT ![p] = changed]
    PROVE  /\ proc' \in [Procs -> Process]
           /\ proc'[p] = changed
           /\ \A q \in Procs \ {p} : proc'[q] = proc[q]
  OBVIOUS

\* The process part of the invariant for one process.
ProcessOK(r) ==
    /\ r.cmd = "off" => r = Off
    /\ r.cmd # "off" => r.table \in Releases
    /\ r.at \in {"sig", "write", "rename"} => r.got \in Releases
    /\ Published(r.table) /\ Published(r.got)
    /\ r.at = "load" => r.cmd # "refresh"

\* It is enough to look at the process that takes the step.
LEMMA StepOfOne ==
    ASSUME PriceRefreshInv, NEW p \in Procs, NEW changed \in Process,
           proc' = [proc EXCEPT ![p] = changed],
           ProcessOK(changed), published' = published,
           Published(served)', served' \in Releases,
           faults' \in 0..MaxFaults, writers' \subseteq Procs, tampered' \in BOOLEAN,
           disk' \in [FileNames -> Content], tmp' \in [FileNames -> Content],
           \A f \in FileNames : Published(disk'[f]) /\ Published(tmp'[f])
    PROVE  PriceRefreshInv'
  <1>1. /\ proc' \in [Procs -> Process]
        /\ proc'[p] = changed
        /\ \A q \in Procs \ {p} : proc'[q] = proc[q]
    BY StepKeepsProcesses DEF PriceRefreshInv, PriceRefreshTypeOK
  <1>2. \A q \in Procs : ProcessOK(proc[q])
    BY DEF PriceRefreshInv, PriceRefreshTypeOK, HeldIsPublished, RefreshDoesNotLoad, ProcessOK
  <1>3. \A q \in Procs : ProcessOK(proc'[q])
    BY <1>1, <1>2
  <1>4. PriceRefreshTypeOK'
    BY <1>1, <1>3 DEF PriceRefreshInv, PriceRefreshTypeOK, ProcessOK
  <1>5. HeldIsPublished'
    BY <1>3 DEF PriceRefreshInv, HeldIsPublished, ProcessOK, Published
  <1>6. RefreshDoesNotLoad'
    BY <1>3 DEF RefreshDoesNotLoad, ProcessOK
  <1> QED BY <1>4, <1>5, <1>6 DEF PriceRefreshInv

-----------------------------------------------------------------------------
(* The invariant.                                                          *)

LEMMA PriceRefreshInitInv == PriceRefreshInit => PriceRefreshInv
  <1> SUFFICES ASSUME PriceRefreshInit PROVE PriceRefreshInv
    OBVIOUS
  <1> USE PriceRefreshSets, PriceRefreshReleases DEF PriceRefreshInit
  <1>1. Off \in Process
    BY DEF Off, Process, Content, CommandNames, FileNames
  <1>2. None \notin Releases /\ NoTable \notin Releases
    BY DEF Releases
  <1>3. \A p \in Procs : proc[p] = Off
    OBVIOUS
  <1>4. disk \in [FileNames -> Content] /\ tmp \in [FileNames -> Content]
    BY DEF Content
  <1>5. faults \in 0..MaxFaults
    OBVIOUS
  <1>6. PriceRefreshTypeOK
    BY <1>1, <1>3, <1>4, <1>5 DEF PriceRefreshTypeOK, Off
  <1>7. HeldIsPublished
    BY <1>2, <1>3, <1>4 DEF HeldIsPublished, Published, Off, Releases
  <1>8. RefreshDoesNotLoad
    BY <1>3 DEF RefreshDoesNotLoad, Off
  <1> QED BY <1>6, <1>7, <1>8 DEF PriceRefreshInv

\* The world's own steps move no process.
LEMMA WorldInv ==
    ASSUME PriceRefreshInv, Publish \/ ServeOld \/ Damage
    PROVE  PriceRefreshInv'
  <1> USE PriceRefreshSets, PriceRefreshReleases
          DEF PriceRefreshInv, PriceRefreshTypeOK, HeldIsPublished, RefreshDoesNotLoad,
              Published, Releases
  <1>0. RefreshDoesNotLoad'
    BY DEF Publish, ServeOld, Damage
  <1>1. CASE Publish
    <2>1. published' \in Nat /\ published' = published + 1 /\ published' <= Newest
      BY <1>1 DEF Publish
    <2>2. PriceRefreshTypeOK' BY <1>1, <2>1 DEF Publish
    <2>3. HeldIsPublished' BY <1>1, <2>1 DEF Publish
    <2> QED BY <1>0, <2>2, <2>3
  <1>2. CASE ServeOld
    <2>1. served' \in Releases /\ served' <= published
      BY <1>2 DEF ServeOld
    <2>2. faults' \in 0..MaxFaults
      BY <1>2 DEF ServeOld, Fault
    <2>3. PriceRefreshTypeOK' BY <1>2, <2>1, <2>2 DEF ServeOld
    <2>4. HeldIsPublished' BY <1>2, <2>1 DEF ServeOld
    <2> QED BY <1>0, <2>3, <2>4
  <1>3. CASE Damage
    <2>1. disk' \in [FileNames -> Content]
      <3>1. Damaged \in Content BY DEF Content
      <3> QED BY <1>3, <3>1 DEF Damage
    <2>2. faults' \in 0..MaxFaults
      BY <1>3 DEF Damage, Fault
    <2>5. \A f \in FileNames : disk'[f] \in {disk[f], Damaged}
      BY <1>3, <2>1 DEF Damage
    <2>6. Damaged \notin Releases
      OBVIOUS
    <2>3. PriceRefreshTypeOK' BY <1>3, <2>1, <2>2 DEF Damage
    <2>4. HeldIsPublished' BY <1>3, <2>5, <2>6 DEF Damage
    <2> QED BY <1>0, <2>3, <2>4
  <1> QED BY <1>1, <1>2, <1>3

\* A fault is counted within its bound.
LEMMA FaultType ==
    ASSUME faults \in 0..MaxFaults, Fault
    PROVE  faults' \in 0..MaxFaults
  BY PriceRefreshReleases DEF Fault

\* The records a step can leave satisfy the process part.
LEMMA RestIsOK ==
    ASSUME PriceRefreshInv, NEW p \in Procs, proc[p].cmd # "off"
    PROVE  Rest(p) \in Process /\ ProcessOK(Rest(p))
  <1>1. /\ Rest(p) \in Process
        /\ Rest(p).cmd = "off" => Rest(p) = Off
        /\ Rest(p).cmd # "off" => Rest(p).table = proc[p].table
        /\ Rest(p).at = "idle" /\ Rest(p).got = None
    BY RestOf DEF PriceRefreshInv
  <1>2. proc[p].table \in Releases /\ Published(proc[p].table)
    BY DEF PriceRefreshInv, PriceRefreshTypeOK, HeldIsPublished
  <1>3. None \notin Releases /\ NoTable \notin Releases
    BY PriceRefreshSets DEF Releases
  <1> QED
    BY <1>1, <1>2, <1>3 DEF ProcessOK, Published, Off

LEMMA OffIsOK == Off \in Process /\ ProcessOK(Off)
  BY PriceRefreshSets DEF Off, Process, ProcessOK, Published, Content, FileNames, Releases

\* A table that passed the checks is a release that was held.
LEMMA InstalledIsOK ==
    ASSUME PriceRefreshInv, NEW p \in Procs, proc[p].cmd # "off", NEW sig,
           Installs(proc[p].table, proc[p].got, sig)
    PROVE  /\ proc[p].got \in Releases /\ proc[p].got <= published
           /\ Day[proc[p].got] >= Day[proc[p].table]
           /\ [Rest(p) EXCEPT !.table = proc[p].got] \in Process
           /\ Rest(p).cmd # "off" => ProcessOK([Rest(p) EXCEPT !.table = proc[p].got])
           /\ [proc[p] EXCEPT !.at = "write", !.table = proc[p].got] \in Process
           /\ ProcessOK([proc[p] EXCEPT !.at = "write", !.table = proc[p].got])
  <1>1. proc[p].got \in Releases /\ proc[p].got <= published
    BY DEF PriceRefreshInv, HeldIsPublished, Published, Installs, Verified
  <1>2. Day[proc[p].got] >= Day[proc[p].table]
    BY DEF Installs, Plausible
  <1>3. proc[p] \in Process
    BY DEF PriceRefreshInv, PriceRefreshTypeOK
  <1>4. Rest(p) \in Process /\ ProcessOK(Rest(p))
    BY RestIsOK
  <1>5. [Rest(p) EXCEPT !.table = proc[p].got] \in Process
    BY <1>1, <1>4 DEF Process
  <1>6. Rest(p).cmd # "off" => ProcessOK([Rest(p) EXCEPT !.table = proc[p].got])
    BY <1>1, <1>4 DEF ProcessOK, Published, Process
  <1>7. [proc[p] EXCEPT !.at = "write", !.table = proc[p].got] \in Process
    BY <1>1, <1>3 DEF Process
  <1>8. ProcessOK([proc[p] EXCEPT !.at = "write", !.table = proc[p].got])
    BY <1>1, <1>3 DEF ProcessOK, Published, Process
  <1> QED BY <1>1, <1>2, <1>5, <1>6, <1>7, <1>8

\* A step that writes no file.
LEMMA FilesUntouched ==
    ASSUME PriceRefreshInv, NEW p \in Procs, NEW changed \in Process,
           ProcessOK(changed), Step(p, changed),
           UNCHANGED <<published, served, disk, tmp, history>>,
           UNCHANGED faults \/ Fault
    PROVE  PriceRefreshInv'
  <1>1. faults' \in 0..MaxFaults
    BY FaultType DEF PriceRefreshInv, PriceRefreshTypeOK
  <1>2. \A f \in FileNames : Published(disk'[f]) /\ Published(tmp'[f])
    BY DEF PriceRefreshInv, HeldIsPublished
  <1>3. Published(served)' /\ served' \in Releases
    BY DEF PriceRefreshInv, PriceRefreshTypeOK, HeldIsPublished, Published
  <1>4. /\ writers' \subseteq Procs /\ tampered' \in BOOLEAN
        /\ disk' \in [FileNames -> Content] /\ tmp' \in [FileNames -> Content]
    BY DEF PriceRefreshInv, PriceRefreshTypeOK
  <1>5. proc' = [proc EXCEPT ![p] = changed] /\ published' = published
    BY DEF Step
  <1> QED BY <1>1, <1>2, <1>3, <1>4, <1>5, StepOfOne

\* A process that starts.
LEMMA FreshIsOK ==
    ASSUME PriceRefreshInv, NEW cmd \in CommandNames
    PROVE  /\ Fresh(cmd) \in Process /\ ProcessOK(Fresh(cmd))
           /\ Fresh(cmd).cmd = cmd /\ Fresh(cmd).table = BuiltIn /\ Fresh(cmd).got = None
  <1>1. BuiltIn \in Releases /\ Published(BuiltIn) /\ None \notin Releases
    BY PriceRefreshSets DEF PriceRefreshInv, HeldIsPublished, Published, Releases
  <1>2. Off \in Process /\ Off.at = "idle" /\ Off.got = None
    BY OffIsOK DEF Off
  <1>3. cmd \in CommandNames \cup {"off"} /\ cmd # "off"
    BY DEF CommandNames
  <1>4. /\ Fresh(cmd) \in Process
        /\ Fresh(cmd).cmd = cmd /\ Fresh(cmd).table = BuiltIn
        /\ Fresh(cmd).at = "idle" /\ Fresh(cmd).got = None
    BY <1>1, <1>2, <1>3 DEF Fresh, Process
  <1> QED BY <1>1, <1>3, <1>4 DEF ProcessOK, Published

LEMMA StartLoadingInv ==
    ASSUME PriceRefreshInv, NEW p \in Procs, NEW cmd \in CommandNames,
           StartLoading(p, cmd)
    PROVE  PriceRefreshInv'
  <1>1. cmd \in {"watch", "read"} /\ cmd \in CommandNames \cup {"off"}
    BY DEF StartLoading, CommandNames
  <1>2. /\ Fresh(cmd) \in Process /\ ProcessOK(Fresh(cmd))
        /\ Fresh(cmd).cmd = cmd
    BY FreshIsOK
  <1>3. disk["bundle"] \in Content /\ Published(disk["bundle"])
    BY DEF PriceRefreshInv, PriceRefreshTypeOK, HeldIsPublished, FileNames
  <1>4. LET loading == [Fresh(cmd) EXCEPT !.at = "load", !.got = disk["bundle"]]
        IN  loading \in Process /\ ProcessOK(loading)
    BY <1>1, <1>2, <1>3 DEF Process, ProcessOK
  <1>5. \E changed \in Process : ProcessOK(changed) /\ Step(p, changed)
    BY <1>2, <1>4 DEF StartLoading
  <1> QED BY <1>5, FilesUntouched DEF StartLoading

\* Starting `pricing refresh` or a refresh of the watcher: the ETag that is sent.
LEMMA CachedEtagType ==
    ASSUME PriceRefreshInv
    PROVE  CachedEtag \in Content
  BY DEF PriceRefreshInv, PriceRefreshTypeOK, CachedEtag, Content, FileNames

LEMMA StartRefreshInv ==
    ASSUME PriceRefreshInv, NEW p \in Procs, StartRefresh(p)
    PROVE  PriceRefreshInv'
  <1>1. "refresh" \in CommandNames
    BY DEF CommandNames
  <1>2. /\ Fresh("refresh") \in Process /\ ProcessOK(Fresh("refresh"))
        /\ Fresh("refresh").cmd = "refresh"
    BY <1>1, FreshIsOK
  <1> DEFINE asking == [Fresh("refresh") EXCEPT !.at = "ask", !.sent = CachedEtag]
  <1>3. asking \in Process
    BY <1>2, CachedEtagType DEF Process
  <1>4. ProcessOK(asking)
    BY <1>2 DEF ProcessOK, Published, Process
  <1> QED BY <1>3, <1>4, FilesUntouched DEF StartRefresh

LEMMA StopInv ==
    ASSUME PriceRefreshInv, NEW p \in Procs, Stop(p)
    PROVE  PriceRefreshInv'
  BY OffIsOK, FilesUntouched DEF Stop

\* Every step of a refresh but those of a save.
LEMMA AskingInv ==
    ASSUME PriceRefreshInv, NEW p \in Procs,
           \/ LoadCachedTable(p) \/ Once(p) \/ Offline(p) \/ NotModified(p)
           \/ GetBundle(p) \/ GetSignature(p)
    PROVE  PriceRefreshInv'
  <1>1. proc[p] \in Process /\ ProcessOK(proc[p])
    BY DEF PriceRefreshInv, PriceRefreshTypeOK, HeldIsPublished, RefreshDoesNotLoad, ProcessOK
  <1>2. proc[p].cmd # "off"
    BY <1>1 DEF ProcessOK, Off, LoadCachedTable, Once, Offline, NotModified, GetBundle,
                GetSignature
  <1>3. Rest(p) \in Process /\ ProcessOK(Rest(p))
    BY <1>2, RestIsOK
  <1>4. CASE LoadCachedTable(p)
    <2>1. proc[p].cmd # "refresh" BY <1>1, <1>4 DEF ProcessOK, LoadCachedTable
    <2>2. Rest(p).cmd # "off" BY <1>1, <1>2, <2>1 DEF Rest, Process
    <2>3. \E changed \in Process : ProcessOK(changed) /\ Step(p, changed)
      BY <1>2, <1>3, <1>4, <2>2, InstalledIsOK DEF LoadCachedTable
    <2> QED BY <1>4, <2>3, FilesUntouched DEF LoadCachedTable
  <1>5. CASE Once(p)
    <2> DEFINE asking == [proc[p] EXCEPT !.at = "ask", !.sent = CachedEtag]
    <2>1. asking \in Process
      BY <1>1, CachedEtagType DEF Process
    <2>2. ProcessOK(asking)
      BY <1>1, <1>2 DEF Process, ProcessOK, Published
    <2> QED BY <1>5, <2>1, <2>2, FilesUntouched DEF Once
  <1>6. CASE Offline(p)
    BY <1>3, <1>6, FilesUntouched DEF Offline
  <1>7. CASE NotModified(p)
    BY <1>3, <1>7, FilesUntouched DEF NotModified
  <1>8. CASE GetBundle(p)
    <2> DEFINE signing == [proc[p] EXCEPT !.at = "sig", !.got = served]
    <2>1. served \in Releases /\ Published(served)
      BY DEF PriceRefreshInv, PriceRefreshTypeOK, HeldIsPublished
    <2>2. signing \in Process
      BY <1>1, <2>1 DEF Process, Content
    <2>3. ProcessOK(signing)
      BY <1>1, <1>2, <2>1 DEF Process, ProcessOK
    <2> QED BY <1>8, <2>2, <2>3, FilesUntouched DEF GetBundle
  <1>9. CASE GetSignature(p)
    <2>1. \E changed \in Process : ProcessOK(changed) /\ Step(p, changed)
      BY <1>2, <1>3, <1>9, InstalledIsOK DEF GetSignature
    <2> QED BY <1>9, <2>1, FilesUntouched DEF GetSignature
  <1> QED BY <1>4, <1>5, <1>6, <1>7, <1>8, <1>9

\* The steps of a save: what is written and renamed was installed before.
LEMMA SavingInv ==
    ASSUME PriceRefreshInv, NEW p \in Procs,
           SaveWrite(p) \/ SaveRename(p) \/ SaveFails(p)
    PROVE  PriceRefreshInv'
  <1>1. proc[p] \in Process /\ ProcessOK(proc[p])
    BY DEF PriceRefreshInv, PriceRefreshTypeOK, HeldIsPublished, RefreshDoesNotLoad, ProcessOK
  <1>2. proc[p].cmd # "off" /\ proc[p].got \in Releases /\ proc[p].file \in FileNames
    BY <1>1 DEF Process, ProcessOK, Off, SaveWrite, SaveRename, SaveFails
  <1>3. Rest(p) \in Process /\ ProcessOK(Rest(p))
    BY <1>2, RestIsOK
  <1>4. /\ disk \in [FileNames -> Content] /\ tmp \in [FileNames -> Content]
        /\ \A f \in FileNames : Published(disk[f]) /\ Published(tmp[f])
        /\ served \in Releases /\ Published(served)
        /\ writers \subseteq Procs /\ tampered \in BOOLEAN /\ faults \in 0..MaxFaults
    BY DEF PriceRefreshInv, PriceRefreshTypeOK, HeldIsPublished
  <1>5. /\ Damaged \in Content /\ None \in Content
        /\ Damaged \notin Releases /\ None \notin Releases
    BY PriceRefreshSets DEF Content, Releases
  <1>6. CASE SaveWrite(p)
    <2> DEFINE renaming == [proc[p] EXCEPT !.at = "rename"]
    <2>1. renaming \in Process
      BY <1>1 DEF Process
    <2>2. ProcessOK(renaming)
      BY <1>1, <1>2 DEF ProcessOK, Process
    <2>3. proc[p].got \in Content /\ Published(proc[p].got)
      BY <1>1, <1>2 DEF ProcessOK, Content
    <2>4. /\ tmp' \in [FileNames -> Content]
          /\ \A f \in FileNames : tmp'[f] \in {tmp[f], proc[p].got}
      BY <1>2, <1>4, <1>6, <2>3 DEF SaveWrite
    <2>5. \A f \in FileNames : Published(disk'[f]) /\ Published(tmp'[f])
      BY <1>4, <1>6, <2>3, <2>4 DEF SaveWrite
    <2>6. proc' = [proc EXCEPT ![p] = renaming]
      BY <1>6 DEF SaveWrite, Step
    <2> HIDE DEF renaming
    <2> QED
      BY <1>4, <1>6, <2>1, <2>2, <2>4, <2>5, <2>6, StepOfOne DEF SaveWrite, Published
  <1>7. CASE SaveRename(p)
    <2>1. PICK changed \in {NextFile(p), Rest(p)} : proc' = [proc EXCEPT ![p] = changed]
      BY <1>7 DEF SaveRename, Step
    <2>2. NextFile(p) \in Process /\ ProcessOK(NextFile(p))
      <3>1. CASE proc[p].file = "bundle"
        BY <1>1, <1>2, <3>1 DEF NextFile, Process, ProcessOK, FileNames
      <3>2. CASE proc[p].file = "sig"
        BY <1>1, <1>2, <3>2 DEF NextFile, Process, ProcessOK, FileNames
      <3>3. CASE proc[p].file = "etag"
        BY <1>3, <3>3 DEF NextFile
      <3> QED BY <1>2, <3>1, <3>2, <3>3 DEF FileNames
    <2>3. changed \in Process /\ ProcessOK(changed)
      BY <1>3, <2>1, <2>2
    <2>4. /\ disk' \in [FileNames -> Content] /\ tmp' \in [FileNames -> Content]
          /\ \A f \in FileNames : disk'[f] \in {disk[f], tmp[f]} /\ tmp'[f] \in {tmp[f], None}
      BY <1>2, <1>4, <1>5, <1>7 DEF SaveRename
    <2>5. \A f \in FileNames : Published(disk'[f]) /\ Published(tmp'[f])
      BY <1>4, <1>5, <2>4 DEF Published
    <2> QED
      BY <1>4, <1>7, <2>1, <2>3, <2>4, <2>5, StepOfOne DEF SaveRename, Published
  <1>8. CASE SaveFails(p)
    <2>1. /\ tmp' \in [FileNames -> Content]
          /\ \A f \in FileNames : tmp'[f] \in {tmp[f], Damaged}
      BY <1>2, <1>4, <1>5, <1>8 DEF SaveFails
    <2>2. \A f \in FileNames : Published(disk'[f]) /\ Published(tmp'[f])
      BY <1>4, <1>5, <1>8, <2>1 DEF SaveFails, Published
    <2>3. faults' \in 0..MaxFaults
      BY <1>4, <1>8, FaultType DEF SaveFails
    <2> QED
      BY <1>3, <1>4, <1>8, <2>1, <2>2, <2>3, StepOfOne DEF SaveFails, Step, Published
  <1> QED BY <1>6, <1>7, <1>8

LEMMA PriceRefreshNextInv == PriceRefreshInv /\ [PriceRefreshNext]_priceVars => PriceRefreshInv'
  <1> SUFFICES ASSUME PriceRefreshInv, [PriceRefreshNext]_priceVars
               PROVE  PriceRefreshInv'
    OBVIOUS
  <1>1. CASE Publish \/ ServeOld \/ Damage
    BY <1>1, WorldInv
  <1>2. CASE \E p \in Procs, cmd \in CommandNames : StartLoading(p, cmd)
    BY <1>2, StartLoadingInv
  <1>3. CASE \E p \in Procs : StartRefresh(p) \/ Stop(p)
    BY <1>3, StartRefreshInv, StopInv
  <1>4. CASE \E p \in Procs : RefreshStep(p)
    BY <1>4, AskingInv, SavingInv DEF RefreshStep
  <1>5. CASE UNCHANGED priceVars
    BY <1>5 DEF PriceRefreshInv, PriceRefreshTypeOK, HeldIsPublished, RefreshDoesNotLoad, Published
  <1> QED BY <1>1, <1>2, <1>3, <1>4, <1>5 DEF PriceRefreshNext

\* PriceRefreshTypeOK holds for any instance: among it, a process that runs
\* has one release as its table, and what is being saved is a release.
THEOREM PriceRefreshTypeCorrect == PriceRefreshSpec => []PriceRefreshTypeOK
  <1>1. PriceRefreshInv => PriceRefreshTypeOK
    BY DEF PriceRefreshInv
  <1> QED
    BY <1>1, PriceRefreshInitInv, PriceRefreshNextInv, PTL DEF PriceRefreshSpec

-----------------------------------------------------------------------------
(* The refinement.                                                         *)

\* What the abstract specification sees of a step of one process.
LEMMA TableOfStep ==
    ASSUME NEW p \in Procs, NEW changed, proc \in [Procs -> Process], Step(p, changed)
    PROVE  [q \in Procs |-> proc[q].table]'
              = [[q \in Procs |-> proc[q].table] EXCEPT ![p] = changed.table]
  BY DEF Step

\* A step that leaves a process's table, or ends the process.
LEMMA TableKeptOrDropped ==
    ASSUME PriceRefreshInv, NEW p \in Procs, NEW changed, Step(p, changed),
           published' = published, proc[p].cmd # "off",
           changed.table \in {proc[p].table, NoTable}
    PROVE  [Table!PriceTableNext]_Table!priceTableVars
  <1>1. proc \in [Procs -> Process] /\ proc[p].table \in Releases
    BY DEF PriceRefreshInv, PriceRefreshTypeOK
  <1>2. proc[p].table # NoTable
    BY <1>1, PriceRefreshSets DEF Releases
  <1>3. CASE changed.table = proc[p].table
    BY <1>1, <1>3, TableOfStep DEF Table!priceTableVars
  <1>4. CASE changed.table = NoTable
    BY <1>1, <1>2, <1>4, TableOfStep DEF Table!PriceTableNext, Table!StopProcess
  <1> QED BY <1>3, <1>4

\* A table that passed the gate.
LEMMA TableMoved ==
    ASSUME PriceRefreshInv, NEW p \in Procs, NEW changed, Step(p, changed),
           published' = published, proc[p].cmd # "off",
           changed.table = proc[p].got, NEW sig,
           Installs(proc[p].table, proc[p].got, sig)
    PROVE  Table!PriceTableNext
  <1>1. proc \in [Procs -> Process] /\ proc[p].table \in Releases
    BY DEF PriceRefreshInv, PriceRefreshTypeOK
  <1>2. /\ proc[p].got \in Releases /\ proc[p].got <= published
        /\ Day[proc[p].got] >= Day[proc[p].table]
    BY InstalledIsOK
  <1>3. proc[p].got \in 1..published /\ proc[p].table # NoTable
    BY <1>1, <1>2, PriceRefreshSets DEF Releases, PriceRefreshInv, PriceRefreshTypeOK
  <1>4. Table!MoveForward(p)
    BY <1>1, <1>2, <1>3, TableOfStep DEF Table!MoveForward
  <1> QED BY <1>4 DEF Table!PriceTableNext

\* A process that starts prices with the table of the binary.
LEMMA TableStarted ==
    ASSUME PriceRefreshInv, NEW p \in Procs, NEW changed, Step(p, changed),
           published' = published, proc[p].cmd = "off", changed.table = BuiltIn
    PROVE  Table!PriceTableNext
  <1>1. proc \in [Procs -> Process] /\ proc[p].table = NoTable
    BY DEF PriceRefreshInv, PriceRefreshTypeOK, Off
  <1>2. Table!StartProcess(p)
    BY <1>1, TableOfStep DEF Table!StartProcess
  <1> QED BY <1>2 DEF Table!PriceTableNext

LEMMA StepMaps ==
    ASSUME PriceRefreshInv, [PriceRefreshNext]_priceVars
    PROVE  [Table!PriceTableNext]_Table!priceTableVars
  <1>1. CASE Publish
    BY <1>1 DEF Publish, Table!PriceTableNext, Table!PublishRelease
  <1>2. CASE ServeOld \/ Damage \/ UNCHANGED priceVars
    BY <1>2 DEF ServeOld, Damage, Table!priceTableVars
  <1>3. ASSUME NEW p \in Procs, NEW cmd \in CommandNames, StartLoading(p, cmd)
        PROVE  Table!PriceTableNext
    <2>1. Fresh(cmd).table = BuiltIn /\ Fresh(cmd) \in Process
      BY <1>3, FreshIsOK
    <2>2. [Fresh(cmd) EXCEPT !.at = "load", !.got = disk["bundle"]].table = BuiltIn
      BY <2>1 DEF Process
    <2> QED BY <1>3, <2>1, <2>2, TableStarted DEF StartLoading
  <1>4. ASSUME NEW p \in Procs, StartRefresh(p)
        PROVE  Table!PriceTableNext
    <2>1. Fresh("refresh").table = BuiltIn /\ Fresh("refresh") \in Process
      BY FreshIsOK DEF CommandNames
    <2>2. [Fresh("refresh") EXCEPT !.at = "ask", !.sent = CachedEtag].table = BuiltIn
      BY <2>1 DEF Process
    <2> QED BY <1>4, <2>2, TableStarted DEF StartRefresh
  <1>5. ASSUME NEW p \in Procs, Stop(p)
        PROVE  [Table!PriceTableNext]_Table!priceTableVars
    <2>1. Off.table = NoTable BY DEF Off
    <2> QED BY <1>5, <2>1, TableKeptOrDropped DEF Stop
  <1>6. ASSUME NEW p \in Procs, RefreshStep(p)
        PROVE  [Table!PriceTableNext]_Table!priceTableVars
    <2>1. proc[p] \in Process /\ ProcessOK(proc[p])
      BY DEF PriceRefreshInv, PriceRefreshTypeOK, HeldIsPublished, RefreshDoesNotLoad, ProcessOK
    <2>2. proc[p].cmd # "off"
      BY <1>6, <2>1 DEF ProcessOK, Off, RefreshStep, LoadCachedTable, Once, Offline, NotModified,
                        GetBundle, GetSignature, SaveWrite, SaveRename, SaveFails
    <2>3. Rest(p).table \in {proc[p].table, NoTable}
      BY <2>2, RestOf DEF PriceRefreshInv, Off
    <2>4. Rest(p) \in Process
      BY <2>2, RestOf DEF PriceRefreshInv
    <2>5. CASE LoadCachedTable(p)
      <3>1. [Rest(p) EXCEPT !.table = proc[p].got].table = proc[p].got
        BY <2>4 DEF Process
      <3> QED BY <2>2, <2>3, <2>5, <3>1, TableKeptOrDropped, TableMoved DEF LoadCachedTable
    <2>6. CASE GetSignature(p)
      <3>1. [proc[p] EXCEPT !.at = "write", !.table = proc[p].got].table = proc[p].got
        BY <2>1 DEF Process
      <3> QED BY <2>2, <2>3, <2>6, <3>1, TableKeptOrDropped, TableMoved DEF GetSignature
    <2>7. CASE Offline(p) \/ NotModified(p) \/ SaveFails(p)
      BY <2>2, <2>3, <2>7, TableKeptOrDropped DEF Offline, NotModified, SaveFails
    <2>8. CASE Once(p) \/ GetBundle(p) \/ SaveWrite(p)
      <3>1. /\ [proc[p] EXCEPT !.at = "ask", !.sent = CachedEtag].table = proc[p].table
            /\ [proc[p] EXCEPT !.at = "sig", !.got = served].table = proc[p].table
            /\ [proc[p] EXCEPT !.at = "rename"].table = proc[p].table
        BY <2>1 DEF Process
      <3> QED BY <2>2, <2>8, <3>1, TableKeptOrDropped DEF Once, GetBundle, SaveWrite
    <2>9. CASE SaveRename(p)
      <3>1. NextFile(p).table \in {proc[p].table, NoTable}
        <4>1. CASE proc[p].file = "bundle" BY <2>1, <4>1 DEF NextFile, Process
        <4>2. CASE proc[p].file = "sig" BY <2>1, <4>2 DEF NextFile, Process
        <4>3. CASE proc[p].file = "etag" BY <2>3, <4>3 DEF NextFile
        <4> QED BY <2>1, <4>1, <4>2, <4>3 DEF Process, FileNames
      <3> QED BY <2>2, <2>3, <2>9, <3>1, TableKeptOrDropped DEF SaveRename
    <2> QED BY <1>6, <2>5, <2>6, <2>7, <2>8, <2>9 DEF RefreshStep
  <1> QED BY <1>1, <1>2, <1>3, <1>4, <1>5, <1>6 DEF PriceRefreshNext

\* TableOnlyMovesForward: the cache, its three files, its crashes and the
\* processes that share it implement PriceTable, for any processes and
\* releases.
THEOREM PriceRefreshImplementsPriceTable == PriceRefreshSpec => TableOnlyMovesForward
  <1>1. PriceRefreshInit => Table!PriceTableInit
    BY DEF PriceRefreshInit, Table!PriceTableInit, Off
  <1>2. PriceRefreshInv /\ [PriceRefreshNext]_priceVars
            => [Table!PriceTableNext]_Table!priceTableVars
    BY StepMaps
  <1> QED
    BY <1>1, <1>2, PriceRefreshInitInv, PriceRefreshNextInv, PTL
    DEF PriceRefreshSpec, TableOnlyMovesForward, Table!PriceTableSpec

-----------------------------------------------------------------------------
(* The cache of a single writer.  Its ETag is never newer than its bundle  *)
(* and its signature, because a save writes it last and a later answer of  *)
(* the server is never older.                                              *)

\* Who renames has written, and a refresh that has not got to a second file
\* is at the bundle.
WritersAreKnown == \A p \in Procs :
    /\ proc[p].at = "rename" \/ proc[p].file # "bundle" => p \in writers
    /\ proc[p].at \notin {"write", "rename"} => proc[p].file = "bundle"

EtagIsOldest ==
    /\ \A f \in FileNames : disk[f] \in Releases \cup {None}
    /\ disk["etag"] \in Releases =>
        /\ disk["bundle"] \in Releases /\ disk["sig"] \in Releases
        /\ disk["bundle"] >= disk["etag"] /\ disk["sig"] >= disk["etag"]

\* What the writer has got is not older than the ETag, and the files before
\* the one it is at hold it already.
SaveInOrder(r) ==
    /\ r.at \in {"sig", "write", "rename"} /\ disk["etag"] \in Releases => r.got >= disk["etag"]
    /\ r.at \in {"write", "rename"} /\ r.file # "bundle" => disk["bundle"] = r.got
    /\ r.at \in {"write", "rename"} /\ r.file = "etag" => disk["sig"] = r.got
    /\ r.at = "rename" => tmp[r.file] = r.got

CacheOf(p) == Alone(p) => served = published /\ EtagIsOldest /\ SaveInOrder(proc[p])

EtagInv == PriceRefreshInv /\ WritersAreKnown /\ \A p \in Procs : CacheOf(p)

LEMMA EtagInitInv == PriceRefreshInit => EtagInv
  <1> SUFFICES ASSUME PriceRefreshInit PROVE EtagInv
    OBVIOUS
  <1>1. \A p \in Procs : proc[p].at = "idle" /\ proc[p].file = "bundle"
    BY DEF PriceRefreshInit, Off
  <1>2. WritersAreKnown
    BY <1>1 DEF WritersAreKnown
  <1>3. None \notin Releases /\ served = published /\ \A f \in FileNames : disk[f] = None
    BY PriceRefreshSets DEF PriceRefreshInit, Releases
  <1>4. \A p \in Procs : CacheOf(p)
    BY <1>1, <1>3 DEF CacheOf, EtagIsOldest, SaveInOrder, FileNames
  <1> QED BY <1>2, <1>4, PriceRefreshInitInv DEF EtagInv


\* The steps that write no file, as the invariant sees them: the process is
\* done with its refresh or has not got an answer yet, has just got one, or
\* has installed what it got.
Outcome(p, r) ==
    /\ r.file = "bundle"
    /\ \/ r.at \in {"idle", "load", "ask"}
       \/ r.at = "sig" /\ r.got = served
       \/ r.at = "write" /\ r.got = proc[p].got /\ proc[p].at = "sig"

Quietly(p) ==
    /\ UNCHANGED <<published, served, disk, tmp, history>>
    /\ \E changed \in Process : Step(p, changed) /\ Outcome(p, changed)

LEMMA QuietSteps ==
    ASSUME EtagInv, NEW p \in Procs,
           \/ \E cmd \in CommandNames : StartLoading(p, cmd)
           \/ StartRefresh(p) \/ Stop(p) \/ LoadCachedTable(p) \/ Once(p) \/ Offline(p)
           \/ NotModified(p) \/ GetBundle(p) \/ GetSignature(p)
    PROVE  Quietly(p)
  <1> USE DEF Outcome
  <1>1. proc[p] \in Process /\ ProcessOK(proc[p])
    BY DEF EtagInv, PriceRefreshInv, PriceRefreshTypeOK, HeldIsPublished, RefreshDoesNotLoad,
           ProcessOK
  <1>2. PriceRefreshInv BY DEF EtagInv
  <1>3. proc[p].at \notin {"write", "rename"} => proc[p].file = "bundle"
    BY DEF EtagInv, WritersAreKnown
  <1>4. proc[p].cmd # "off" => Rest(p) \in Process /\ Rest(p).at = "idle"
                                 /\ Rest(p).file = "bundle"
    BY <1>1, <1>2, RestIsOK DEF Rest, Off, Process
  <1>5. Off \in Process /\ Off.at = "idle" /\ Off.file = "bundle"
    BY OffIsOK DEF Off
  <1>6. CASE \E cmd \in CommandNames : StartLoading(p, cmd)
    <2>1. PICK cmd \in CommandNames : StartLoading(p, cmd) BY <1>6
    <2> DEFINE loading == [Fresh(cmd) EXCEPT !.at = "load", !.got = disk["bundle"]]
    <2>2. Fresh(cmd) \in Process BY <1>2, FreshIsOK
    <2>3. Fresh(cmd).at = "idle" /\ Fresh(cmd).file = "bundle"
      BY <1>5 DEF Fresh, Process
    <2>4. loading \in Process /\ loading.at = "load" /\ loading.file = "bundle"
      BY <1>2, <2>2, <2>3 DEF Process, PriceRefreshInv, PriceRefreshTypeOK, FileNames
    <2> HIDE DEF loading
    <2>5. Step(p, Fresh(cmd)) \/ Step(p, loading)
      BY <2>1 DEF StartLoading, loading
    <2> QED BY <2>1, <2>2, <2>3, <2>4, <2>5 DEF StartLoading, Quietly
  <1>7. CASE StartRefresh(p)
    <2> DEFINE asking == [Fresh("refresh") EXCEPT !.at = "ask", !.sent = CachedEtag]
    <2>1. Fresh("refresh") \in Process BY <1>2, FreshIsOK DEF CommandNames
    <2>2. Fresh("refresh").file = "bundle"
      BY <1>5 DEF Fresh, Process
    <2>3. asking \in Process /\ asking.at = "ask" /\ asking.file = "bundle"
      BY <1>2, <2>1, <2>2, CachedEtagType DEF Process
    <2> QED BY <1>7, <2>3 DEF StartRefresh, Quietly
  <1>8. CASE Stop(p)
    BY <1>5, <1>8 DEF Stop, Quietly
  <1> USE DEF LoadCachedTable, Once, Offline, NotModified, GetBundle, GetSignature
  <1>9. proc[p].at # "idle" => proc[p].cmd # "off"
    BY <1>1 DEF ProcessOK, Off
  <1>10. CASE Offline(p) \/ NotModified(p)
    BY <1>4, <1>9, <1>10 DEF Quietly
  <1>11. CASE LoadCachedTable(p)
    <2>1. [Rest(p) EXCEPT !.table = proc[p].got].at = "idle"
            /\ [Rest(p) EXCEPT !.table = proc[p].got].file = "bundle"
      BY <1>4, <1>9, <1>11 DEF Process
    <2>2. Installs(proc[p].table, proc[p].got, disk["sig"])
            => [Rest(p) EXCEPT !.table = proc[p].got] \in Process
      BY <1>2, <1>9, <1>11, InstalledIsOK
    <2> QED BY <1>4, <1>9, <1>11, <2>1, <2>2 DEF Quietly
  <1>12. CASE Once(p)
    <2> DEFINE asking == [proc[p] EXCEPT !.at = "ask", !.sent = CachedEtag]
    <2>1. asking \in Process /\ asking.at = "ask" /\ asking.file = "bundle"
      BY <1>1, <1>2, <1>3, <1>12, CachedEtagType DEF Process
    <2> QED BY <1>12, <2>1 DEF Quietly
  <1>13. CASE GetBundle(p)
    <2> DEFINE signing == [proc[p] EXCEPT !.at = "sig", !.got = served]
    <2>1. /\ signing \in Process /\ signing.at = "sig" /\ signing.file = "bundle"
          /\ signing.got = served
      BY <1>1, <1>2, <1>3, <1>13 DEF Process, PriceRefreshInv, PriceRefreshTypeOK, Content
    <2> QED BY <1>13, <2>1 DEF Quietly
  <1>14. CASE GetSignature(p)
    <2> DEFINE writing == [proc[p] EXCEPT !.at = "write", !.table = proc[p].got]
    <2>1. writing.at = "write" /\ writing.file = "bundle" /\ writing.got = proc[p].got
      BY <1>1, <1>3, <1>14 DEF Process
    <2>2. Installs(proc[p].table, proc[p].got, served) => writing \in Process
      BY <1>2, <1>9, <1>14, InstalledIsOK
    <2> QED BY <1>4, <1>9, <1>14, <2>1, <2>2 DEF Quietly
  <1> QED BY <1>6, <1>7, <1>8, <1>10, <1>11, <1>12, <1>13, <1>14

\* A quiet step keeps the invariant.
LEMMA QuietEtagInv ==
    ASSUME EtagInv, PriceRefreshInv', NEW p \in Procs, Quietly(p)
    PROVE  EtagInv'
  <1>1. PICK changed \in Process : Step(p, changed) /\ Outcome(p, changed)
    BY DEF Quietly
  <1>2. proc'[p] = changed /\ \A q \in Procs \ {p} : proc'[q] = proc[q]
    BY <1>1 DEF Step, EtagInv, PriceRefreshInv, PriceRefreshTypeOK
  <1>3. WritersAreKnown'
    BY <1>1, <1>2 DEF WritersAreKnown, EtagInv, Outcome, Quietly
  <1>4. ASSUME NEW q \in Procs, Alone(q)'
        PROVE  (served = published /\ EtagIsOldest /\ SaveInOrder(proc[q]))'
    <2>1. served = published /\ EtagIsOldest /\ SaveInOrder(proc[q])
      BY <1>4 DEF EtagInv, CacheOf, Alone, Quietly
    <2>2. (served = published /\ EtagIsOldest)'
      BY <2>1 DEF EtagIsOldest, Quietly
    <2>3. SaveInOrder(proc[q])'
      <3>1. CASE q # p
        BY <1>2, <2>1, <3>1 DEF SaveInOrder, Quietly
      <3>2. CASE q = p
        <4>1. disk["etag"] \in Releases => served >= disk["etag"]
          BY <2>1 DEF EtagInv, PriceRefreshInv, HeldIsPublished, Published, FileNames
        <4> QED BY <1>1, <1>2, <2>1, <3>2, <4>1 DEF SaveInOrder, Outcome, Quietly
      <3> QED BY <3>1, <3>2
    <2> QED BY <2>2, <2>3
  <1> QED BY <1>3, <1>4 DEF EtagInv, CacheOf

\* The server's steps: nobody is alone once a file is damaged or an old release
\* is back.
LEMMA WorldEtagInv ==
    ASSUME EtagInv, PriceRefreshInv', Publish \/ ServeOld \/ Damage \/ UNCHANGED priceVars
    PROVE  EtagInv'
  <1>1. WritersAreKnown'
    BY DEF Publish, ServeOld, Damage, EtagInv, WritersAreKnown
  <1>2. ASSUME NEW q \in Procs, Alone(q)'
        PROVE  (served = published /\ EtagIsOldest /\ SaveInOrder(proc[q]))'
    <2>1. Publish \/ UNCHANGED priceVars
      BY <1>2 DEF ServeOld, Damage, Alone
    <2>2. served = published /\ EtagIsOldest /\ SaveInOrder(proc[q])
      BY <1>2, <2>1 DEF EtagInv, CacheOf, Alone, Publish
    <2>3. UNCHANGED <<disk, tmp, proc>> /\ served' = published'
      BY <2>1, <2>2 DEF Publish
    <2> QED BY <2>2, <2>3 DEF EtagIsOldest, SaveInOrder
  <1> QED BY <1>1, <1>2 DEF EtagInv, CacheOf

\* The steps of a save: whoever saves is the only one that can still be alone.
LEMMA SavingEtagInv ==
    ASSUME EtagInv, PriceRefreshInv', NEW p \in Procs,
           SaveWrite(p) \/ SaveRename(p) \/ SaveFails(p)
    PROVE  EtagInv'
  <1>1. /\ proc[p] \in Process /\ proc[p].cmd # "off" /\ proc[p].got \in Releases
        /\ proc[p].file \in FileNames
        /\ proc \in [Procs -> Process]
        /\ disk \in [FileNames -> Content] /\ tmp \in [FileNames -> Content]
    BY DEF EtagInv, PriceRefreshInv, PriceRefreshTypeOK, SaveWrite, SaveRename, SaveFails,
           Off, Process
  <1>2. Rest(p).at = "idle" /\ Rest(p).file = "bundle"
    BY <1>1 DEF Rest, Off, Process
  <1>3. proc'[p] \in {[proc[p] EXCEPT !.at = "rename"], NextFile(p), Rest(p)}
        /\ \A q \in Procs \ {p} : proc'[q] = proc[q]
    BY <1>1 DEF SaveWrite, SaveRename, SaveFails, Step
  <1>4. p \in writers' /\ writers \subseteq writers' /\ UNCHANGED <<published, served, tampered>>
    BY DEF SaveWrite, SaveRename, SaveFails, EtagInv, WritersAreKnown
  <1>5. NextFile(p).at \notin {"write", "rename"} => NextFile(p).file = "bundle"
    BY <1>1, <1>2 DEF NextFile, Process, FileNames
  <1>6. [proc[p] EXCEPT !.at = "rename"].at = "rename"
    BY <1>1 DEF Process
  <1>7. WritersAreKnown'
    BY <1>2, <1>3, <1>4, <1>5, <1>6 DEF WritersAreKnown, EtagInv
  <1>8. ASSUME NEW q \in Procs, Alone(q)'
        PROVE  (served = published /\ EtagIsOldest /\ SaveInOrder(proc[q]))'
    <2>1. q = p /\ Alone(p)
      BY <1>4, <1>8 DEF Alone
    <2>2. served = published /\ EtagIsOldest /\ SaveInOrder(proc[p])
      BY <2>1 DEF EtagInv, CacheOf
    <2>3. served' = published'
      BY <1>4, <2>2
    <2>4. CASE SaveWrite(p)
      <3>1. proc'[p] = [proc[p] EXCEPT !.at = "rename"] /\ proc[p].at = "write"
        BY <1>1, <2>4 DEF SaveWrite, Step
      <3>2. tmp'[proc[p].file] = proc[p].got /\ disk' = disk
        BY <1>1, <2>4 DEF SaveWrite
      <3>3. /\ proc'[p].at = "rename" /\ proc'[p].got = proc[p].got
            /\ proc'[p].file = proc[p].file
        BY <1>1, <3>1 DEF Process
      <3>4. EtagIsOldest' BY <2>2, <3>2 DEF EtagIsOldest
      <3>5. SaveInOrder(proc[p])' BY <2>2, <3>1, <3>2, <3>3 DEF SaveInOrder
      <3> QED BY <2>1, <2>3, <3>4, <3>5
    <2>5. CASE SaveFails(p)
      <3>1. proc'[p] = Rest(p) /\ disk' = disk
        BY <1>1, <2>5 DEF SaveFails, Step
      <3>2. EtagIsOldest' BY <2>2, <3>1 DEF EtagIsOldest
      <3>3. SaveInOrder(proc[p])' BY <1>2, <3>1 DEF SaveInOrder
      <3> QED BY <2>1, <2>3, <3>2, <3>3
    <2>6. CASE SaveRename(p)
      <3>1. tmp[proc[p].file] = proc[p].got /\ proc[p].got # None
        BY <1>1, <2>2, <2>6, PriceRefreshSets DEF SaveRename, SaveInOrder, Releases
      <3>2. /\ disk' = [disk EXCEPT ![proc[p].file] = proc[p].got]
            /\ proc'[p] = NextFile(p)
        BY <1>1, <2>6, <3>1 DEF SaveRename, Step
      <3>3. disk["etag"] \in Releases => proc[p].got >= disk["etag"]
        BY <2>2, <2>6 DEF SaveInOrder, SaveRename
      <3>4. CASE proc[p].file = "bundle"
        <4>1. /\ disk'["bundle"] = proc[p].got
              /\ disk'["sig"] = disk["sig"] /\ disk'["etag"] = disk["etag"]
          BY <1>1, <3>2, <3>4 DEF FileNames
        <4>2. /\ NextFile(p).at = "write" /\ NextFile(p).file = "sig"
              /\ NextFile(p).got = proc[p].got
          BY <1>1, <3>4 DEF NextFile, Process
        <4>3. EtagIsOldest' BY <1>1, <2>2, <3>3, <4>1 DEF EtagIsOldest, FileNames
        <4>4. SaveInOrder(proc[p])' BY <3>2, <3>3, <4>1, <4>2 DEF SaveInOrder
        <4> QED BY <2>1, <2>3, <4>3, <4>4
      <3>5. CASE proc[p].file = "sig"
        <4>1. /\ disk'["sig"] = proc[p].got
              /\ disk'["bundle"] = disk["bundle"] /\ disk'["etag"] = disk["etag"]
          BY <1>1, <3>2, <3>5 DEF FileNames
        <4>2. /\ NextFile(p).at = "write" /\ NextFile(p).file = "etag"
              /\ NextFile(p).got = proc[p].got
          BY <1>1, <3>5 DEF NextFile, Process
        <4>3. disk["bundle"] = proc[p].got
          BY <2>2, <2>6, <3>5 DEF SaveInOrder, SaveRename
        <4>4. EtagIsOldest' BY <1>1, <2>2, <3>3, <4>1 DEF EtagIsOldest, FileNames
        <4>5. SaveInOrder(proc[p])' BY <3>2, <3>3, <4>1, <4>2, <4>3 DEF SaveInOrder
        <4> QED BY <2>1, <2>3, <4>4, <4>5
      <3>6. CASE proc[p].file = "etag"
        <4>1. /\ disk'["etag"] = proc[p].got
              /\ disk'["bundle"] = disk["bundle"] /\ disk'["sig"] = disk["sig"]
          BY <1>1, <3>2, <3>6 DEF FileNames
        <4>2. disk["bundle"] = proc[p].got /\ disk["sig"] = proc[p].got
          BY <2>2, <2>6, <3>6 DEF SaveInOrder, SaveRename
        <4>3. EtagIsOldest' BY <1>1, <2>2, <4>1, <4>2 DEF EtagIsOldest, FileNames, Releases
        <4>4. NextFile(p) = Rest(p) BY <3>6 DEF NextFile
        <4>5. SaveInOrder(proc[p])' BY <1>2, <3>2, <4>4 DEF SaveInOrder
        <4> QED BY <2>1, <2>3, <4>3, <4>5
      <3> QED BY <1>1, <3>4, <3>5, <3>6 DEF FileNames
    <2> QED BY <2>4, <2>5, <2>6
  <1> QED BY <1>7, <1>8 DEF EtagInv, CacheOf

LEMMA EtagNextInv == EtagInv /\ [PriceRefreshNext]_priceVars => EtagInv'
  <1> SUFFICES ASSUME EtagInv, [PriceRefreshNext]_priceVars
               PROVE  EtagInv'
    OBVIOUS
  <1>1. PriceRefreshInv'
    BY PriceRefreshNextInv DEF EtagInv
  <1>2. CASE Publish \/ ServeOld \/ Damage \/ UNCHANGED priceVars
    BY <1>1, <1>2, WorldEtagInv
  <1>3. CASE \E p \in Procs : \/ \E cmd \in CommandNames : StartLoading(p, cmd)
                              \/ StartRefresh(p) \/ Stop(p)
    BY <1>1, <1>3, QuietSteps, QuietEtagInv
  <1>4. CASE \E p \in Procs : RefreshStep(p)
    BY <1>1, <1>4, QuietSteps, QuietEtagInv, SavingEtagInv DEF RefreshStep
  <1> QED BY <1>2, <1>3, <1>4 DEF PriceRefreshNext

\* EtagNamesTheCache: whatever crash or failed write cuts a save short, a
\* single writer never leaves the newest ETag beside anything but the newest
\* bundle and its signature.
THEOREM PriceRefreshEtagCorrect == PriceRefreshSpec => []EtagNamesTheCache
  <1>1. EtagInv => EtagNamesTheCache
    <2> SUFFICES ASSUME EtagInv, NEW p \in Procs, Alone(p), disk["etag"] = published
                 PROVE  Verified(disk["bundle"], disk["sig"]) /\ disk["bundle"] = published
      BY DEF EtagNamesTheCache
    <2>1. published \in Releases
      BY DEF EtagInv, PriceRefreshInv, PriceRefreshTypeOK
    <2>2. /\ disk["bundle"] \in Releases /\ disk["sig"] \in Releases
          /\ disk["bundle"] >= published /\ disk["sig"] >= published
      BY <2>1 DEF EtagInv, CacheOf, EtagIsOldest
    <2>3. disk["bundle"] <= published /\ disk["sig"] <= published
      BY <2>2 DEF EtagInv, PriceRefreshInv, HeldIsPublished, Published, FileNames
    <2> QED BY <2>1, <2>2, <2>3, PriceRefreshSets DEF Verified, Releases
  <1> QED
    BY <1>1, EtagInitInv, EtagNextInv, PTL DEF PriceRefreshSpec
=============================================================================
