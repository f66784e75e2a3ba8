----------------------------- MODULE FolderSync -----------------------------
(***************************************************************************)
(* Folder Sync: the engine of one job (frontend/src/lib/foldersync,        *)
(* engine.ts, diff.ts, localFs.ts, meta.ts) that mirrors a folder of the   *)
(* server into a local one, with the users of both folders.                *)
(*                                                                         *)
(* A folder is a function from paths to entries.  All files have one size, *)
(* the case in which a change is hardest to see; a file is its contents    *)
(* and its modification time, both stamps of one clock, so two writes      *)
(* never have the same time.  A cycle is a chain of awaits: the users, the *)
(* buttons and the timers run between any two of its steps.                *)
(***************************************************************************)
EXTENDS Naturals, FiniteSets

CONSTANTS Names,            \* paths relative to the job's folder
          Above,            \* [Names -> SUBSET Names], the directories above
          Big,              \* paths whose file on the server is too large
          RemoveExtra,      \* job.removeExtra
          PullConcurrency,  \* download workers
          MaxConsecutive,   \* MAX_CONSECUTIVE_FAILURES
          MaxMoves,         \* bound: changes by the users, buttons
          MaxChanges,       \* bound: how many of these are changes
          MaxFaults         \* bound: failing requests, closed pages

ASSUME SyncAssumption ==
  /\ Above \in [Names -> SUBSET Names]
  /\ \A n \in Names : n \notin Above[n] /\ \A m \in Above[n] : Above[m] \subseteq Above[n]
  /\ Big \subseteq Names
  /\ RemoveExtra \in BOOLEAN
  /\ PullConcurrency \in Nat \ {0}
  /\ MaxConsecutive \in Nat \ {0}
  /\ MaxMoves \in Nat /\ MaxChanges \in Nat /\ MaxFaults \in Nat

VARIABLES
  remote, local,  \* [Names -> Entries], the two folders
  clock,          \* the last stamp
  disk,           \* [Names -> Records] or Missing, .suwu-sync.json
  mem,            \* [Names -> Records], the engine's journal
  running,        \* the periodic loop is on
  starting,       \* start() is preparing
  prepared,       \* the engine has a folder and a journal
  sleepers,       \* loops that wait for their timer
  failures,       \* consecutive failed cycles
  metaOk,         \* metaStatus = "ok": the journal is on disk
  at,             \* where the cycle is; "idle": not busy
  driver,         \* whose cycle it is, the loop's or runNow's
  aborted,        \* the cycle's controller.signal
  own,            \* the cycle has a journal that is no longer the engine's
  journal,        \* [Names -> Records], the journal the cycle uses
  manifest, scan, \* the two pre-flight views, or NoView
  plan,           \* what the plan has left to do
  got,            \* [Names -> Nat], downloaded contents to be written
  written,        \* files written whose time is not read back yet
  deferred,       \* a download has failed
  errors,         \* an action has failed
  touched,        \* result.metaTouched
  quiet,          \* no user has changed a folder in this cycle
  raced,          \* files a user changed between write and read-back
  missed,         \* planned downloads that were given up
  moves, changes, faults

folderVars == <<remote, local, clock>>
engineVars == <<mem, metaOk, running, starting, prepared, sleepers, failures>>
cycleVars  == <<at, driver, aborted, own, journal, manifest, scan, plan, got,
                written, deferred, errors, touched, missed>>
userVars   == <<quiet, raced, moves, changes, faults>>
vars == <<folderVars, disk, engineVars, cycleVars, userVars>>

Nothing == [kind |-> "none", ver |-> 0, time |-> 0]
Dir == [kind |-> "dir", ver |-> 0, time |-> 0]
File(v, t) == [kind |-> "file", ver |-> v, time |-> t]
IsFile(e) == e.kind = "file"
IsDir(e) == e.kind = "dir"
Entries == [kind : {"none", "dir", "file"}, ver : Nat, time : Nat]

NoRecord == [remoteTime |-> 0, localTime |-> 0]
Records == [remoteTime : Nat, localTime : Nat]
NoJournal == [n \in Names |-> NoRecord]
Missing == [n \in {} |-> NoRecord]
OnDisk == IF disk = Missing THEN NoJournal ELSE disk
NoView == [n \in {} |-> Nothing]
NoPlan == [obstacles |-> {}, mkdirs |-> {}, pulls |-> {}, deletes |-> {},
           rmdirs |-> {}, seeds |-> {}]

Below(n) == {m \in Names : n \in Above[m]}
Tree(t) == \A n \in Names :
             t[n] # Nothing => \A m \in Above[n] : IsDir(t[m])

TypeOK ==
  /\ remote \in [Names -> Entries] /\ Tree(remote)
  /\ local \in [Names -> Entries] /\ Tree(local)
  /\ clock \in Nat
  /\ {OnDisk, mem, journal} \subseteq [Names -> Records]
  /\ {metaOk, touched, running, starting, prepared, aborted, own, deferred, errors, quiet}
       \subseteq BOOLEAN
  /\ sleepers \in Nat
  /\ failures \in 0 .. MaxConsecutive
  /\ at \in {"idle", "preflight", "execute"}
  /\ driver \in {"none", "loop", "now"}
  /\ manifest = NoView \/ manifest \in [Names -> Entries]
  /\ scan = NoView \/ scan \in [Names -> Entries]
  /\ plan \in [obstacles : SUBSET Names, mkdirs : SUBSET Names, pulls : SUBSET Names,
              deletes : SUBSET Names, rmdirs : SUBSET Names, seeds : SUBSET Names]
  /\ got \in [Names -> Nat]
  /\ {written, raced, missed} \subseteq SUBSET Names
  /\ {n \in Names : got[n] # 0} \subseteq plan.pulls

\* The job has never run: the folders hold what they hold.  A file may have
\* been copied from the server by hand, with or without its time.
Init ==
  /\ remote \in {t \in [Names -> {Nothing, Dir, File(1, 1)}] : Tree(t)}
  /\ local \in {t \in [Names -> {Nothing, Dir, File(1, 1), File(1, 2),
                                 File(2, 2)}] : Tree(t)}
  /\ \A n \in Names : local[n].ver = 1 => IsFile(remote[n])
  /\ clock = 2
  /\ disk = Missing
  /\ mem = NoJournal
  /\ metaOk = FALSE
  /\ running = FALSE
  /\ starting = FALSE
  /\ prepared = FALSE
  /\ sleepers = 0
  /\ failures = 0
  /\ at = "idle"
  /\ driver = "none"
  /\ aborted = FALSE
  /\ own = FALSE
  /\ journal = NoJournal
  /\ manifest = NoView
  /\ scan = NoView
  /\ plan = NoPlan
  /\ got = [n \in Names |-> 0]
  /\ written = {}
  /\ deferred = FALSE
  /\ errors = FALSE
  /\ touched = FALSE
  /\ quiet = TRUE
  /\ raced = {}
  /\ missed = {}
  /\ moves = 0
  /\ changes = 0
  /\ faults = 0

Move == moves < MaxMoves /\ moves' = moves + 1 /\ UNCHANGED faults
Press == Move /\ UNCHANGED changes
Change == Move /\ changes < MaxChanges /\ changes' = changes + 1
Fault == faults < MaxFaults /\ faults' = faults + 1 /\ UNCHANGED <<moves, changes>>

-----------------------------------------------------------------------------
(* Folders.                                                                *)

CanPut(t, n, e) ==
  /\ \A m \in Above[n] : ~IsFile(t[m])
  /\ t[n] = Nothing \/ t[n].kind = e.kind

\* With the directories above it, as getDirectoryHandle(..., {create}) does.
Put(t, n, e) == [m \in Names |-> IF m = n THEN e
                                 ELSE IF m \in Above[n] THEN Dir ELSE t[m]]

Drop(t, n) == [m \in Names |-> IF m \in {n} \cup Below(n) THEN Nothing ELSE t[m]]

Empty(t, n) == \A m \in Below(n) : t[m] = Nothing

Changed(t, n) ==
  {Put(t, n, e) : e \in {x \in {Dir, File(clock + 1, clock + 1)} : CanPut(t, n, x)}}
    \cup {Drop(t, n)}

RemoteChanges(n) ==
  /\ Change
  /\ remote' \in Changed(remote, n) \ {remote}
  /\ clock' = clock + 1
  /\ quiet' = FALSE
  /\ UNCHANGED <<local, disk, engineVars, cycleVars, raced>>

LocalChanges(n) ==
  /\ Change
  /\ local' \in Changed(local, n) \ {local}
  /\ clock' = clock + 1
  /\ quiet' = FALSE
  /\ raced' = raced \cup (written \cap {m \in Names : local'[m] # local[m]})
  /\ UNCHANGED <<remote, disk, engineVars, cycleVars>>

-----------------------------------------------------------------------------
(* Start, Stop, Run now, and the loop.                                     *)

\* runCycle, up to its first await.
CycleBegins(who) ==
  /\ at' = "preflight"
  /\ driver' = who
  /\ aborted' = FALSE
  /\ journal' = mem'
  /\ quiet' = TRUE
  /\ UNCHANGED <<own, manifest, scan, plan, got, written, deferred, errors,
                 touched, missed>>

Start ==
  /\ ~running /\ ~starting
  /\ Press
  /\ starting' = TRUE
  /\ UNCHANGED <<folderVars, disk, mem, metaOk, running, prepared, sleepers,
                 failures, cycleVars, quiet, raced>>

\* prepare has read the journal; the new loop finds the engine busy if an
\* earlier cycle has not ended, and sleeps.
StartReady ==
  /\ starting
  /\ starting' = FALSE
  /\ prepared' = TRUE
  /\ running' = TRUE
  /\ failures' = 0
  /\ mem' = OnDisk
  /\ metaOk' = (disk # Missing)
  /\ IF at = "idle"
     THEN CycleBegins("loop") /\ UNCHANGED sleepers
     ELSE /\ sleepers' = sleepers + 1
          /\ own' = TRUE
          /\ UNCHANGED <<at, driver, aborted, journal, manifest, scan, plan,
                         got, written, deferred, errors, touched, missed,
                         quiet>>
  /\ UNCHANGED <<folderVars, disk, raced, moves, changes, faults>>

Stop ==
  /\ running
  /\ Press
  /\ running' = FALSE
  /\ aborted' = (at # "idle")
  /\ UNCHANGED <<folderVars, disk, mem, metaOk, starting, prepared, sleepers,
                 failures, at, driver, own, journal, manifest, scan, plan, got,
                 written, deferred, errors, touched, missed, quiet, raced>>

RunNow ==
  /\ ~running /\ at = "idle"
  /\ Press
  /\ prepared' = TRUE
  /\ IF prepared THEN UNCHANGED <<mem, metaOk>>
     ELSE mem' = OnDisk /\ metaOk' = (disk # Missing)
  /\ CycleBegins("now")
  /\ UNCHANGED <<folderVars, disk, running, starting, sleepers, failures,
                 raced>>

\* A sleeping loop's timer: it ends when the job is stopped, runs a cycle, or
\* sleeps again when another loop's cycle is under way.
TimerFires ==
  /\ sleepers > 0
  /\ ~running \/ at = "idle"
  /\ sleepers' = sleepers - 1
  /\ UNCHANGED mem
  /\ IF running THEN CycleBegins("loop") ELSE UNCHANGED <<cycleVars, quiet>>
  /\ UNCHANGED <<folderVars, disk, metaOk, running, starting, prepared,
                 failures, raced, moves, changes, faults>>

NoCycle ==
  /\ at' = "idle"
  /\ driver' = "none"
  /\ aborted' = FALSE
  /\ own' = FALSE
  /\ journal' = NoJournal
  /\ manifest' = NoView
  /\ scan' = NoView
  /\ plan' = NoPlan
  /\ got' = [n \in Names |-> 0]
  /\ written' = {}
  /\ deferred' = FALSE
  /\ errors' = FALSE
  /\ touched' = FALSE
  /\ missed' = {}

\* Mutant: a loop ends with the first cycle that fails.
SleepsAfterSuccess == driver = "loop" /\ running' /\ failures' = 0

\* The loop whose cycle it was goes on while the job is on.
SleepsAgain == driver = "loop" /\ running'

CycleOver ==
  /\ NoCycle
  /\ sleepers' = IF SleepsAgain THEN sleepers + 1 ELSE sleepers

\* The cycle throws: after Stop that is the end of it, otherwise it counts.
CycleFails ==
  /\ IF aborted THEN UNCHANGED <<failures, running>>
     ELSE /\ failures' = IF failures < MaxConsecutive THEN failures + 1 ELSE failures
          /\ running' = (running /\ failures + 1 < MaxConsecutive)
  /\ CycleOver
  /\ UNCHANGED <<folderVars, disk, mem, metaOk, starting, prepared, quiet, raced>>

-----------------------------------------------------------------------------
(* Pre-flight: two views and the plan.                                     *)

FetchManifest ==
  /\ at = "preflight" /\ manifest = NoView /\ ~aborted
  /\ manifest' = remote
  /\ UNCHANGED <<folderVars, disk, engineVars, at, driver, aborted, own, journal,
                 scan, plan, got, written, deferred, errors, touched, missed,
                 userVars>>

ScanLocal ==
  /\ at = "preflight" /\ scan = NoView /\ ~aborted
  /\ scan' = local
  /\ UNCHANGED <<folderVars, disk, engineVars, at, driver, aborted, own, journal,
                 manifest, plan, got, written, deferred, errors, touched, missed,
                 userVars>>

PreflightAborts ==
  /\ at = "preflight" /\ aborted
  /\ manifest = NoView \/ scan = NoView
  /\ CycleFails
  /\ UNCHANGED <<moves, changes, faults>>

ManifestFails ==
  /\ Fault
  /\ at = "preflight" /\ manifest = NoView /\ ~aborted
  /\ CycleFails

OnServer(n) == manifest[n] # Nothing
Here(n) == scan[n] # Nothing
Clash(n) == OnServer(n) /\ Here(n) /\ IsFile(manifest[n]) # IsFile(scan[n])
BothFiles(n) == IsFile(manifest[n]) /\ IsFile(scan[n])
Recorded(n) == journal[n] # NoRecord
RemoteAsRecorded(n) ==
  Recorded(n) /\ journal[n].remoteTime = manifest[n].time
LocalAsRecorded(n) == Recorded(n) /\ journal[n].localTime = scan[n].time

\* Mutant: the journal is trusted without a look at the local file.
MirroredByRecord(n) == RemoteAsRecorded(n)

\* The cheap common path: nothing to do.
AlreadyMirrored(n) == RemoteAsRecorded(n) /\ LocalAsRecorded(n)

\* Both have one time but no journal says so, or hashes have to tell.
SameShape(n) ==
  /\ ~RemoteAsRecorded(n) /\ ~LocalAsRecorded(n)
  /\ manifest[n].time = scan[n].time
Probed(n) ==
  /\ BothFiles(n) /\ ~Recorded(n) /\ ~SameShape(n) /\ n \notin Big

Readable(n) == IsFile(local[n]) /\ IsFile(remote[n])
SameContent(n) == local[n].ver = remote[n].ver

Seeds == {n \in Names : /\ BothFiles(n)
                        /\ SameShape(n) \/ (Probed(n) /\ SameContent(n))}

Pulls == {n \in Names \ Big :
            /\ IsFile(manifest[n])
            /\ BothFiles(n) => n \notin Seeds /\ ~AlreadyMirrored(n)}

BuildPlan ==
  LET extra == {n \in Names : RemoveExtra /\ Here(n) /\ ~OnServer(n)} IN
  [obstacles |-> {n \in Names : Clash(n)},
   mkdirs |-> {n \in Names : IsDir(manifest[n]) /\ ~IsDir(scan[n])},
   pulls |-> Pulls,
   deletes |-> {n \in extra : IsFile(scan[n])},
   rmdirs |-> {n \in extra : /\ IsDir(scan[n])
                             /\ \A m \in Below(n) : ~OnServer(m)},
   seeds |-> Seeds]

ViewsThere == at = "preflight" /\ manifest # NoView /\ scan # NoView
Probes == {n \in Names : Probed(n)}

\* buildPlan; its probes read the two files as they are now.
MakePlan ==
  /\ ViewsThere
  /\ Probes # {} => ~aborted /\ \A n \in Probes : Readable(n)
  /\ at' = "execute"
  /\ plan' = BuildPlan
  /\ UNCHANGED <<folderVars, disk, engineVars, driver, aborted, own, journal,
                 manifest, scan, got, written, deferred, errors, touched,
                 missed, userVars>>

\* A probed file is gone, or the probe's download was aborted.
ProbeFails ==
  /\ ViewsThere
  /\ Probes # {}
  /\ aborted \/ \E n \in Probes : ~Readable(n)
  /\ CycleFails
  /\ UNCHANGED <<moves, changes, faults>>

-----------------------------------------------------------------------------
(* Execution, in the order of the plan.                                    *)

\* removeEntry
CanRemove(n, recursive) ==
  /\ local[n] # Nothing
  /\ recursive \/ IsFile(local[n]) \/ Empty(local, n)

Remove(n, recursive) ==
  IF CanRemove(n, recursive)
  THEN local' = Drop(local, n) /\ UNCHANGED errors
  ELSE errors' = TRUE /\ UNCHANGED local

Executing == at = "execute"

ClearObstacle(n) ==
  /\ Executing /\ n \in plan.obstacles
  /\ plan' = [plan EXCEPT !.obstacles = @ \ {n}]
  /\ Remove(n, IsDir(scan[n]))
  /\ UNCHANGED <<remote, clock, disk, engineVars, at, driver, aborted, own,
                 journal, manifest, scan, got, written, deferred, touched,
                 missed, userVars>>

MakeDir(n) ==
  /\ Executing /\ plan.obstacles = {} /\ n \in plan.mkdirs
  /\ plan' = [plan EXCEPT !.mkdirs = @ \ {n}]
  /\ IF CanPut(local, n, Dir)
     THEN local' = Put(local, n, Dir) /\ UNCHANGED errors
     ELSE errors' = TRUE /\ UNCHANGED local
  /\ UNCHANGED <<remote, clock, disk, engineVars, at, driver, aborted, own,
                 journal, manifest, scan, got, written, deferred, touched,
                 missed, userVars>>

Pulling == Executing /\ plan.obstacles = {} /\ plan.mkdirs = {}
InFlight == {n \in plan.pulls : got[n] # 0}

\* Mutant: a worker that fails keeps its place among the downloads.
GiveUpHolds(n) ==
  /\ plan' = [plan EXCEPT !.pulls = @ \ {n}]
  /\ missed' = missed \cup {n}
  /\ deferred' = (deferred \/ ~aborted)
  /\ errors' = (errors \/ ~aborted)
  /\ UNCHANGED <<got, written>>

\* A worker gives its download up; after Stop that is no error.
GiveUp(n) ==
  /\ plan' = [plan EXCEPT !.pulls = @ \ {n}]
  /\ got' = [got EXCEPT ![n] = 0]
  /\ written' = written \ {n}
  /\ missed' = missed \cup {n}
  /\ deferred' = (deferred \/ ~aborted)
  /\ errors' = (errors \/ ~aborted)

Download(n) ==
  /\ Pulling /\ n \in plan.pulls /\ got[n] = 0
  /\ Cardinality(InFlight) < PullConcurrency
  /\ IF ~aborted /\ IsFile(remote[n])
     THEN /\ got' = [got EXCEPT ![n] = remote[n].ver]
          /\ UNCHANGED <<plan, written, missed, deferred, errors>>
     ELSE GiveUp(n)
  /\ UNCHANGED <<folderVars, disk, engineVars, at, driver, aborted, own, journal,
                 manifest, scan, touched, userVars>>

DownloadFails(n) ==
  /\ Fault
  /\ Pulling /\ n \in plan.pulls /\ got[n] = 0
  /\ GiveUp(n)
  /\ UNCHANGED <<folderVars, disk, engineVars, at, driver, aborted, own, journal,
                 manifest, scan, touched, quiet, raced>>

WriteFile(n) ==
  /\ Pulling /\ n \in InFlight \ written
  /\ LET new == File(got[n], clock + 1) IN
     IF CanPut(local, n, new)
     THEN /\ local' = Put(local, n, new)
          /\ clock' = clock + 1
          /\ written' = written \cup {n}
          /\ raced' = raced \ {n}
          /\ UNCHANGED <<plan, got, missed, deferred, errors>>
     ELSE GiveUp(n) /\ UNCHANGED <<local, clock, raced>>
  /\ UNCHANGED <<remote, disk, engineVars, at, driver, aborted, own, journal,
                 manifest, scan, touched, quiet, moves, changes, faults>>

\* A record in the cycle's journal, which is the engine's unless the engine
\* was started again meanwhile.
Record(n, record) ==
  /\ journal' = [journal EXCEPT ![n] = record]
  /\ mem' = IF own THEN mem ELSE journal'
  /\ touched' = TRUE

\* Mutant: the time of the file that is mirrored, as it is on the server now.
RemoteTimeNow(n) == remote[n].time

\* The server's time that is recorded with a download.
RemoteTimeOf(n) == manifest[n].time

\* writeLocalFile reads the new file's time back after the write.
ReadBack(n) ==
  /\ n \in written
  /\ IF IsFile(local[n])
     THEN /\ Record(n, [remoteTime |-> RemoteTimeOf(n),
                        localTime |-> local[n].time])
          /\ plan' = [plan EXCEPT !.pulls = @ \ {n}]
          /\ got' = [got EXCEPT ![n] = 0]
          /\ written' = written \ {n}
          /\ UNCHANGED <<missed, deferred, errors>>
     ELSE GiveUp(n) /\ UNCHANGED <<journal, mem, touched>>
  /\ UNCHANGED <<folderVars, disk, metaOk, running, starting, prepared, sleepers,
                 failures, at, driver, aborted, own, manifest, scan, userVars>>

Deleting == Pulling /\ plan.pulls = {} /\ ~deferred

DeleteFile(n) ==
  /\ Deleting /\ n \in plan.deletes
  /\ plan' = [plan EXCEPT !.deletes = @ \ {n}]
  /\ Remove(n, FALSE)
  /\ IF CanRemove(n, FALSE) THEN Record(n, NoRecord)
     ELSE UNCHANGED <<journal, mem, touched>>
  /\ UNCHANGED <<remote, clock, disk, metaOk, running, starting, prepared,
                 sleepers, failures, at, driver, aborted, own, manifest, scan,
                 got, written, deferred, missed, userVars>>

DeleteDir(n) ==
  /\ Deleting /\ plan.deletes = {} /\ n \in plan.rmdirs
  /\ plan.rmdirs \cap Below(n) = {}
  /\ plan' = [plan EXCEPT !.rmdirs = @ \ {n}]
  /\ Remove(n, FALSE)
  /\ UNCHANGED <<remote, clock, disk, engineVars, at, driver, aborted, own,
                 journal, manifest, scan, got, written, deferred, touched,
                 missed, userVars>>

Executed ==
  /\ Pulling /\ plan.pulls = {}
  /\ deferred \/ plan.deletes \cup plan.rmdirs = {}

\* Journal maintenance: seeds in, files that left the server out.
Maintained ==
  [n \in Names |->
     IF n \in plan.seeds THEN [remoteTime |-> manifest[n].time,
                               localTime |-> scan[n].time]
     ELSE IF OnServer(n) THEN journal[n] ELSE NoRecord]

MustWrite == touched \/ plan.seeds # {} \/ Maintained # journal \/ ~metaOk

Finish(writable) ==
  /\ Executed
  /\ mem' = IF own THEN mem ELSE Maintained
  /\ IF MustWrite /\ writable
     THEN disk' = Maintained /\ metaOk' = TRUE
     ELSE UNCHANGED <<disk, metaOk>>
  /\ failures' = 0
  /\ UNCHANGED running
  /\ CycleOver
  /\ UNCHANGED <<folderVars, starting, prepared, quiet, raced>>

FinishCycle == Finish(TRUE) /\ UNCHANGED <<moves, changes, faults>>
JournalFails == Fault /\ Executed /\ MustWrite /\ Finish(FALSE)

\* The page or the tile is closed and opened again: only what is in the two
\* folders is left.
PageClosed ==
  /\ Fault
  /\ NoCycle
  /\ mem' = NoJournal
  /\ metaOk' = FALSE
  /\ running' = FALSE
  /\ starting' = FALSE
  /\ prepared' = FALSE
  /\ sleepers' = 0
  /\ failures' = 0
  /\ UNCHANGED <<folderVars, disk, quiet, raced>>

-----------------------------------------------------------------------------
CycleStep ==
  \/ FetchManifest \/ ScanLocal \/ PreflightAborts \/ MakePlan \/ ProbeFails
  \/ \E n \in Names : \/ ClearObstacle(n) \/ MakeDir(n) \/ Download(n)
                       \/ WriteFile(n) \/ ReadBack(n)
                       \/ DeleteFile(n) \/ DeleteDir(n)
  \/ FinishCycle

UserStep ==
  \/ \E n \in Names : RemoteChanges(n) \/ LocalChanges(n)
  \/ Start \/ Stop \/ RunNow

FaultStep ==
  \/ ManifestFails \/ JournalFails \/ PageClosed
  \/ \E n \in Names : DownloadFails(n)

Next == CycleStep \/ StartReady \/ TimerFires \/ UserStep \/ FaultStep

\* The event loop runs what is ready and timers fire; users may do nothing.
Fairness == WF_vars(CycleStep) /\ WF_vars(StartReady) /\ WF_vars(TimerFires)

Spec == Init /\ [][Next]_vars
FairSpec == Spec /\ Fairness

-----------------------------------------------------------------------------
\* What the next pre-flight would skip as already mirrored has the contents of
\* the server's file, whatever changed on either side while files were
\* downloaded, after an abort, a restart or a closed page.  (A change between
\* the write of a file and the read-back of its time is taken for the mirrored
\* file; such files are excepted.)
SkippedIsMirrored ==
  \A n \in Names \ raced : \A j \in {OnDisk, mem, journal} :
    /\ j[n] # NoRecord
    /\ IsFile(remote[n]) /\ j[n].remoteTime = remote[n].time
    /\ IsFile(local[n]) /\ j[n].localTime = local[n].time
    => local[n].ver = remote[n].ver

Mirrored(n) ==
  /\ OnServer(n) => local[n].kind = manifest[n].kind
  /\ IsFile(manifest[n]) => local[n].ver = manifest[n].ver
  /\ RemoveExtra => (~OnServer(n) => local[n] = Nothing)

\* A cycle that reports no error and was left alone leaves a mirror of the
\* server's folder, from any two folders and any journal.
CleanCycleMirrors ==
  Executed /\ quiet /\ ~errors /\ missed = {} =>
    \A n \in Names \ (Big \cup raced) : Mirrored(n)

\* When the users leave the folders alone and the job stays on, the local
\* folder becomes a mirror of the server's.
Converges ==
  <>[]running =>
    <>[](\A n \in Names \ (Big \cup raced) :
           /\ local[n].kind = remote[n].kind
           /\ IsFile(remote[n]) => local[n].ver = remote[n].ver)

\* engine.ts: "Deletions run last, and only when every download landed - a
\* half-finished cycle must never remove data it failed to re-fetch."
DeletionsNeedDownloads ==
  [][\A n \in plan.deletes \cup plan.rmdirs :
       local[n] # Nothing /\ local'[n] = Nothing
         /\ n \notin plan'.deletes \cup plan'.rmdirs
       => missed = {}]_vars

=============================================================================
