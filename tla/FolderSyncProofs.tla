--------------------------- MODULE FolderSyncProofs ---------------------------
(***************************************************************************)
(* Folder Sync, for any set of paths, any number of workers, moves and     *)
(* faults: the types of the engine's state, the proof that the journal     *)
(* never vouches for contents it has not seen, and the proof that a clean  *)
(* cycle leaves a mirror.                                                  *)
(***************************************************************************)
EXTENDS FolderSync, TLAPS

Folders == [Names -> Entries]
Journals == [Names -> Records]

LEMMA Kinds ==
  /\ Nothing \in Entries /\ Dir \in Entries
  /\ \A v, t \in Nat : /\ File(v, t) \in Entries /\ IsFile(File(v, t)) /\ ~IsDir(File(v, t))
                       /\ File(v, t).ver = v /\ File(v, t).time = t
                       /\ File(v, t).kind = "file" /\ File(v, t) # Nothing
  /\ ~IsFile(Nothing) /\ ~IsDir(Nothing) /\ ~IsFile(Dir) /\ IsDir(Dir) /\ Dir # Nothing
  /\ Nothing.time = 0 /\ Dir.time = 0 /\ Dir.kind = "dir"
  BY DEF Nothing, Dir, File, Entries, IsFile, IsDir

-----------------------------------------------------------------------------
(* Folders.                                                                *)

\* Put changes the path and makes directories of those above it.
LEMMA PutChanges ==
  ASSUME NEW t \in Folders, NEW n \in Names, NEW e \in Entries
  PROVE  /\ Put(t, n, e) \in Folders
         /\ Put(t, n, e)[n] = e
         /\ \A m \in Names \ {n} : Put(t, n, e)[m] = IF m \in Above[n] THEN Dir ELSE t[m]
  BY Kinds DEF Folders, Put

LEMMA PutKeepsTree ==
  ASSUME NEW t \in Folders, Tree(t), NEW n \in Names, NEW e \in Entries,
         e # Nothing, CanPut(t, n, e)
  PROVE  Tree(Put(t, n, e))
<1> DEFINE u == Put(t, n, e)
<1>1. /\ u[n] = e
      /\ \A m \in Names \ {n} : u[m] = IF m \in Above[n] THEN Dir ELSE t[m]
  BY PutChanges
<1> HIDE DEF u
<1> SUFFICES ASSUME NEW k \in Names, u[k] # Nothing, NEW m \in Above[k]
             PROVE  IsDir(u[m])
  BY DEF Tree, u
<1>2. m \in Names /\ m # k /\ Above[m] \subseteq Above[k]
  BY SyncAssumption
<1>3. CASE k = n
  BY <1>1, <1>2, <1>3, Kinds
<1>4. CASE k \in Above[n]
  <2>1. m \in Above[n] /\ m # n
    BY <1>4, SyncAssumption
  <2>2. QED
    BY <1>1, <1>2, <2>1, Kinds
<1>5. CASE k # n /\ k \notin Above[n]
  <2>1. t[k] # Nothing
    BY <1>1, <1>5
  <2>2. IsDir(t[m])
    BY <2>1 DEF Tree
  <2>3. CASE m = n
    BY <1>1, <2>2, <2>3, Kinds DEF CanPut, IsDir
  <2>4. CASE m # n
    BY <1>1, <1>2, <2>2, <2>4, Kinds
  <2>5. QED
    BY <2>3, <2>4
<1>6. QED
  BY <1>3, <1>4, <1>5

\* Drop removes the path with all below it.
LEMMA DropChanges ==
  ASSUME NEW t \in Folders, NEW n \in Names
  PROVE  /\ Drop(t, n) \in Folders
         /\ \A m \in Names : Drop(t, n)[m] = IF m = n \/ n \in Above[m] THEN Nothing ELSE t[m]
  BY Kinds DEF Folders, Drop, Below

LEMMA DropKeepsTree ==
  ASSUME NEW t \in Folders, Tree(t), NEW n \in Names
  PROVE  Tree(Drop(t, n))
<1> DEFINE u == Drop(t, n)
<1>1. \A m \in Names : u[m] = IF m = n \/ n \in Above[m] THEN Nothing ELSE t[m]
  BY DropChanges
<1> HIDE DEF u
<1> SUFFICES ASSUME NEW k \in Names, u[k] # Nothing, NEW m \in Above[k]
             PROVE  IsDir(u[m])
  BY DEF Tree, u
<1>2. m \in Names /\ Above[m] \subseteq Above[k]
  BY SyncAssumption
<1>3. k # n /\ n \notin Above[k] /\ t[k] # Nothing
  BY <1>1
<1>4. m # n /\ n \notin Above[m]
  BY <1>2, <1>3
<1>5. QED
  BY <1>1, <1>2, <1>3, <1>4 DEF Tree

\* A folder after a step: what it was, less or other directories, or files of
\* the clock's next stamp.
Later(t, u) ==
  /\ u \in Folders /\ Tree(u)
  /\ \A n \in Names : \/ u[n] \in {t[n], Nothing, Dir}
                      \/ IsFile(u[n]) /\ u[n].time = clock + 1 /\ clock' = clock + 1

LEMMA PutIsLater ==
  ASSUME NEW t \in Folders, Tree(t), NEW n \in Names, NEW e \in Entries, e # Nothing,
         CanPut(t, n, e), e = Dir \/ (IsFile(e) /\ e.time = clock + 1 /\ clock' = clock + 1)
  PROVE  Later(t, Put(t, n, e))
<1>1. \A m \in Names : \/ Put(t, n, e)[m] \in {t[m], Nothing, Dir}
                       \/ /\ IsFile(Put(t, n, e)[m]) /\ Put(t, n, e)[m].time = clock + 1
                          /\ clock' = clock + 1
  BY PutChanges
<1>2. QED
  BY <1>1, PutChanges, PutKeepsTree DEF Later

LEMMA DropIsLater ==
  ASSUME NEW t \in Folders, Tree(t), NEW n \in Names
  PROVE  Later(t, Drop(t, n))
  BY DropChanges, DropKeepsTree DEF Later

FolderTypes ==
  /\ remote \in Folders /\ Tree(remote)
  /\ local \in Folders /\ Tree(local)
  /\ clock \in Nat

\* What a step does to the two folders: one of them changes, and every new
\* file has a stamp that no other file has.
FolderStep ==
  /\ clock' \in {clock, clock + 1}
  /\ Later(remote, remote') /\ Later(local, local')
  /\ remote' = remote \/ local' = local

LEMMA UserChange ==
  ASSUME NEW t \in Folders, Tree(t), clock \in Nat, NEW n \in Names, NEW u \in Changed(t, n),
         clock' = clock + 1
  PROVE  Later(t, u)
<1> USE Kinds
<1>1. CASE u = Drop(t, n)
  BY <1>1, DropIsLater
<1>2. ASSUME NEW e \in {Dir, File(clock + 1, clock + 1)}, CanPut(t, n, e), u = Put(t, n, e)
      PROVE  Later(t, u)
  <2>1. clock + 1 \in Nat
    OBVIOUS
  <2>2. e \in Entries /\ e # Nothing /\ (e = Dir \/ (IsFile(e) /\ e.time = clock + 1))
    BY <2>1
  <2>3. QED
    BY <1>2, <2>2, PutIsLater
<1>3. QED
  BY <1>1, <1>2 DEF Changed

LEMMA SameIsLater ==
  FolderTypes => /\ remote' = remote => Later(remote, remote')
                 /\ local' = local => Later(local, local')
  BY DEF FolderTypes, Later

LEMMA RemoveIsLater ==
  ASSUME FolderTypes, NEW n \in Names, NEW r \in BOOLEAN, Remove(n, r)
  PROVE  Later(local, local')
  BY DropIsLater, SameIsLater DEF Remove, FolderTypes

-----------------------------------------------------------------------------
(* What the steps do to the two folders.                                   *)

LEMMA EngineKeepsFolders ==
  ASSUME FolderTypes,
         \/ FetchManifest \/ ScanLocal \/ PreflightAborts \/ MakePlan \/ ProbeFails
         \/ FinishCycle \/ StartReady \/ TimerFires \/ Start \/ Stop \/ RunNow
         \/ ManifestFails \/ JournalFails \/ PageClosed
         \/ \E n \in Names : Download(n) \/ DownloadFails(n) \/ ReadBack(n)
  PROVE  UNCHANGED folderVars
BY DEF FetchManifest, ScanLocal, PreflightAborts, MakePlan, ProbeFails, FinishCycle, Finish,
       StartReady, TimerFires, Start, Stop, RunNow, ManifestFails, JournalFails, PageClosed,
       Download, DownloadFails, ReadBack, CycleFails, folderVars

LEMMA SameFolders ==
  FolderTypes /\ UNCHANGED folderVars => FolderStep
  BY SameIsLater DEF FolderTypes, FolderStep, folderVars

\* New stamps go to the files a user or the engine writes, one at a time.
LEMMA StepOfFolders ==
  ASSUME FolderTypes, \A n \in Names : got[n] \in Nat, [Next]_vars
  PROVE  FolderStep
<1> USE DEF FolderTypes
<1>1. CASE UNCHANGED vars
  BY <1>1, SameFolders DEF vars
<1>2. ASSUME NEW n \in Names, RemoteChanges(n)
      PROVE  FolderStep
  <2>1. remote' \in Changed(remote, n) /\ clock' = clock + 1 /\ local' = local
    BY <1>2 DEF RemoteChanges
  <2>2. Later(remote, remote')
    BY <2>1, UserChange
  <2>3. QED
    BY <2>1, <2>2, SameIsLater DEF FolderStep
<1>3. ASSUME NEW n \in Names, LocalChanges(n)
      PROVE  FolderStep
  <2>1. local' \in Changed(local, n) /\ clock' = clock + 1 /\ remote' = remote
    BY <1>3 DEF LocalChanges
  <2>2. Later(local, local')
    BY <2>1, UserChange
  <2>3. QED
    BY <2>1, <2>2, SameIsLater DEF FolderStep
<1>4. ASSUME NEW n \in Names, ClearObstacle(n) \/ DeleteFile(n) \/ DeleteDir(n)
      PROVE  FolderStep
  <2>1. Remove(n, IsDir(scan[n])) \/ Remove(n, FALSE)
    BY <1>4 DEF ClearObstacle, DeleteFile, DeleteDir
  <2>2. remote' = remote /\ clock' = clock
    BY <1>4 DEF ClearObstacle, DeleteFile, DeleteDir
  <2>3. IsDir(scan[n]) \in BOOLEAN
    BY DEF IsDir
  <2>4. Later(local, local')
    BY <2>1, <2>3, RemoveIsLater
  <2>5. QED
    BY <2>2, <2>4, SameIsLater DEF FolderStep
<1>5. ASSUME NEW n \in Names, MakeDir(n)
      PROVE  FolderStep
  <2>1. remote' = remote /\ clock' = clock
    BY <1>5 DEF MakeDir
  <2>2. local' = local \/ (CanPut(local, n, Dir) /\ local' = Put(local, n, Dir))
    BY <1>5 DEF MakeDir
  <2>3. Later(local, local')
    BY <2>2, SameIsLater, PutIsLater, Kinds
  <2>4. QED
    BY <2>1, <2>3, SameIsLater DEF FolderStep
<1>6. ASSUME NEW n \in Names, WriteFile(n)
      PROVE  FolderStep
  <2> DEFINE new == File(got[n], clock + 1)
  <2>1. \/ UNCHANGED folderVars
        \/ /\ CanPut(local, n, new) /\ local' = Put(local, n, new)
           /\ clock' = clock + 1 /\ remote' = remote
    BY <1>6 DEF WriteFile, folderVars
  <2>2. new \in Entries /\ new # Nothing /\ IsFile(new) /\ new.time = clock + 1
    BY Kinds
  <2> HIDE DEF new
  <2>3. CASE local' = Put(local, n, new) /\ CanPut(local, n, new)
             /\ clock' = clock + 1 /\ remote' = remote
    <3>1. Later(local, local')
      BY <2>2, <2>3, PutIsLater
    <3>2. QED
      BY <2>3, <3>1, SameIsLater DEF FolderStep
  <2>4. QED
    BY <2>1, <2>3, SameFolders
<1>7. CASE UNCHANGED folderVars
  BY <1>7, SameFolders
<1>8. QED
  BY <1>1, <1>2, <1>3, <1>4, <1>5, <1>6, <1>7, EngineKeepsFolders
  DEF Next, CycleStep, UserStep, FaultStep

-----------------------------------------------------------------------------
(* Types.                                                                  *)

Plans == [obstacles : SUBSET Names, mkdirs : SUBSET Names, pulls : SUBSET Names,
          deletes : SUBSET Names, rmdirs : SUBSET Names, seeds : SUBSET Names]
NothingGot == [n \in Names |-> 0]

JournalTypes == OnDisk \in Journals /\ mem \in Journals /\ journal \in Journals

FlagTypes ==
  /\ metaOk \in BOOLEAN /\ touched \in BOOLEAN /\ running \in BOOLEAN
  /\ starting \in BOOLEAN /\ prepared \in BOOLEAN /\ aborted \in BOOLEAN
  /\ own \in BOOLEAN /\ deferred \in BOOLEAN /\ errors \in BOOLEAN /\ quiet \in BOOLEAN
  /\ at \in {"idle", "preflight", "execute"}
  /\ driver \in {"none", "loop", "now"}

CountTypes == sleepers \in Nat /\ failures \in 0 .. MaxConsecutive

\* A plan is made from two views.
ViewTypes ==
  /\ manifest = NoView \/ manifest \in Folders
  /\ scan = NoView \/ scan \in Folders
  /\ at = "execute" => manifest \in Folders /\ scan \in Folders

\* Files are downloaded and written for the downloads of the plan only.
PlanTypes ==
  /\ plan \in Plans
  /\ got \in [Names -> Nat]
  /\ raced \in SUBSET Names /\ missed \in SUBSET Names
  /\ \A n \in Names : got[n] # 0 => n \in plan.pulls
  /\ written \subseteq {n \in Names : got[n] # 0}
  /\ at # "execute" => got = NothingGot /\ plan = NoPlan

TypeInv ==
  FolderTypes /\ JournalTypes /\ FlagTypes /\ CountTypes /\ ViewTypes /\ PlanTypes

LEMMA TypeInvIsTypeOK ==
  TypeInv => TypeOK
  BY DEF TypeInv, FolderTypes, JournalTypes, FlagTypes, CountTypes, ViewTypes, PlanTypes,
         Plans, Folders, Journals, TypeOK

LEMMA NoRecords ==
  NoRecord \in Records /\ NoJournal \in Journals
  BY DEF NoRecord, Records, NoJournal, Journals

LEMMA NoPlans ==
  NoPlan \in Plans /\ NothingGot \in [Names -> Nat]
  BY DEF NoPlan, Plans, NothingGot

LEMMA TypesAtStart ==
  Init => TypeInv
<1> SUFFICES ASSUME Init PROVE TypeInv
  OBVIOUS
<1> USE Kinds, NoRecords, NoPlans, SyncAssumption DEF Init
<1>1. FolderTypes
  <2>1. {Nothing, Dir, File(1, 1), File(1, 2), File(2, 2)} \subseteq Entries
    OBVIOUS
  <2>2. QED
    BY <2>1 DEF FolderTypes, Folders
<1>2. JournalTypes
  BY DEF JournalTypes, OnDisk
<1>3. FlagTypes
  BY Zenon DEF FlagTypes
<1>4. CountTypes /\ ViewTypes
  BY DEF CountTypes, ViewTypes
<1>5. PlanTypes
  BY DEF PlanTypes, NothingGot
<1>6. QED
  BY <1>1, <1>2, <1>3, <1>4, <1>5 DEF TypeInv

-----------------------------------------------------------------------------
(* The journals: three of them, each changed by few steps.                 *)

Unjournaled == UNCHANGED <<disk, mem, journal>>

LEMMA JournalsKept ==
  ASSUME \/ UNCHANGED vars \/ FetchManifest \/ ScanLocal \/ MakePlan \/ Start \/ Stop
         \/ \E n \in Names : \/ RemoteChanges(n) \/ LocalChanges(n) \/ ClearObstacle(n)
                             \/ MakeDir(n) \/ Download(n) \/ DownloadFails(n)
                             \/ WriteFile(n) \/ DeleteDir(n)
  PROVE  Unjournaled
BY DEF FetchManifest, ScanLocal, MakePlan, Start, Stop, RemoteChanges, LocalChanges,
       ClearObstacle, MakeDir, Download, DownloadFails, WriteFile, DeleteDir,
       engineVars, cycleVars, vars, Unjournaled

\* A record of one file in the cycle's journal, or none.
Recorder(n, r) ==
  /\ UNCHANGED disk
  /\ \/ Unjournaled
     \/ journal' = [journal EXCEPT ![n] = r] /\ mem' \in {mem, journal'}

LEMMA FilesAreRecorded ==
  ASSUME NEW n \in Names
  PROVE  /\ ReadBack(n) => Recorder(n, [remoteTime |-> RemoteTimeOf(n),
                                        localTime |-> local[n].time])
         /\ DeleteFile(n) => Recorder(n, NoRecord)
BY DEF ReadBack, DeleteFile, Record, Recorder, Unjournaled

\* A cycle that starts or ends moves journals, or ends with the new one.
LEMMA JournalsMoved ==
  ASSUME \/ PreflightAborts \/ ProbeFails \/ StartReady \/ TimerFires \/ RunNow
         \/ ManifestFails \/ PageClosed
  PROVE  /\ disk' = disk
         /\ mem' \in {mem, OnDisk, NoJournal}
         /\ journal' \in {journal, mem', NoJournal}
BY DEF PreflightAborts, ProbeFails, StartReady, TimerFires, RunNow, ManifestFails, PageClosed,
       CycleFails, CycleOver, NoCycle, CycleBegins, cycleVars

LEMMA JournalsWritten ==
  ASSUME FinishCycle \/ JournalFails
  PROVE  /\ at = "execute"
         /\ disk' \in {disk, Maintained} /\ mem' \in {mem, Maintained} /\ journal' = NoJournal
BY DEF FinishCycle, JournalFails, Finish, CycleOver, NoCycle, Executed, Pulling, Executing

LEMMA StepOfJournals ==
  ASSUME [Next]_vars
  PROVE  \/ Unjournaled
         \/ \E n \in Names :
              Recorder(n, NoRecord)
                \/ (ReadBack(n) /\ Recorder(n, [remoteTime |-> RemoteTimeOf(n),
                                                localTime |-> local[n].time]))
         \/ /\ disk' = disk
            /\ mem' \in {mem, OnDisk, NoJournal}
            /\ journal' \in {journal, mem', NoJournal}
         \/ /\ at = "execute" /\ Executed
            /\ disk' \in {disk, Maintained} /\ mem' \in {mem, Maintained}
            /\ journal' = NoJournal
BY JournalsKept, FilesAreRecorded, JournalsMoved, JournalsWritten
   DEF Next, CycleStep, UserStep, FaultStep, FinishCycle, JournalFails, Finish

LEMMA MaintainedType ==
  ASSUME JournalTypes, manifest \in Folders, scan \in Folders
  PROVE  Maintained \in Journals
<1>1. ASSUME NEW n \in Names
      PROVE  [remoteTime |-> manifest[n].time, localTime |-> scan[n].time] \in Records
  BY DEF Folders, Entries, Records
<1>2. QED
  BY <1>1, NoRecords DEF JournalTypes, Journals, Maintained

LEMMA JournalTypesStep ==
  ASSUME TypeInv, [Next]_vars
  PROVE  JournalTypes'
<1> USE NoRecords
<1>a. JournalTypes /\ ViewTypes /\ FolderTypes
  BY DEF TypeInv
<1>b. disk' = disk => OnDisk' = OnDisk
  BY DEF OnDisk
<1>1. CASE Unjournaled
  BY <1>1, <1>a, <1>b DEF Unjournaled, JournalTypes
<1>2. ASSUME NEW n \in Names, NEW r \in Records, Recorder(n, r)
      PROVE  JournalTypes'
  <2>1. CASE Unjournaled
    BY <1>1, <2>1
  <2>2. CASE journal' = [journal EXCEPT ![n] = r] /\ mem' \in {mem, journal'}
    <3>1. journal' \in Journals
      BY <2>2, <1>a DEF JournalTypes, Journals
    <3>2. QED
      BY <1>2, <2>2, <3>1, <1>a, <1>b DEF JournalTypes, Recorder
  <2>3. QED
    BY <1>2, <2>1, <2>2 DEF Recorder
<1>3. ASSUME NEW n \in Names, ReadBack(n),
             Recorder(n, [remoteTime |-> RemoteTimeOf(n), localTime |-> local[n].time])
      PROVE  JournalTypes'
  <2>1. at = "execute"
    BY <1>3 DEF TypeInv, PlanTypes, ReadBack, NothingGot
  <2>2. [remoteTime |-> RemoteTimeOf(n), localTime |-> local[n].time] \in Records
    BY <2>1, <1>a DEF ViewTypes, RemoteTimeOf, FolderTypes, Folders, Entries, Records
  <2>3. QED
    BY <1>2, <1>3, <2>2
<1>4. CASE disk' = disk /\ mem' \in {mem, OnDisk, NoJournal}
           /\ journal' \in {journal, mem', NoJournal}
  BY <1>4, <1>a, <1>b DEF JournalTypes
<1>5. CASE /\ at = "execute" /\ Executed
           /\ disk' \in {disk, Maintained} /\ mem' \in {mem, Maintained}
           /\ journal' = NoJournal
  <2>1. Maintained \in Journals
    BY <1>5, <1>a, MaintainedType DEF ViewTypes
  <2>2. OnDisk' \in {OnDisk, Maintained, NoJournal}
    BY <1>5 DEF OnDisk
  <2>3. QED
    BY <1>5, <1>a, <2>1, <2>2 DEF JournalTypes
<1>6. QED
  BY <1>1, <1>2, <1>3, <1>4, <1>5, StepOfJournals

-----------------------------------------------------------------------------
(* The engine's flags and counts.                                          *)

FlagsKept ==
  UNCHANGED <<metaOk, running, starting, prepared, at, driver, own, sleepers, failures>>

LEMMA FlagsOfSteps ==
  ASSUME \/ UNCHANGED vars \/ FetchManifest \/ ScanLocal
         \/ \E n \in Names : \/ RemoteChanges(n) \/ LocalChanges(n) \/ ClearObstacle(n)
                             \/ MakeDir(n) \/ Download(n) \/ DownloadFails(n)
                             \/ WriteFile(n) \/ ReadBack(n) \/ DeleteFile(n) \/ DeleteDir(n)
  PROVE  FlagsKept
BY DEF FetchManifest, ScanLocal, RemoteChanges, LocalChanges, ClearObstacle, MakeDir, Download,
       DownloadFails, WriteFile, ReadBack, DeleteFile, DeleteDir, engineVars, cycleVars,
       vars, FlagsKept

LEMMA FlagTypesStep ==
  ASSUME TypeInv, [Next]_vars
  PROVE  FlagTypes'
<1> USE DEF TypeInv, FlagTypes
<1>1. CASE UNCHANGED vars
  BY <1>1 DEF vars, engineVars, cycleVars, userVars
<1>2. CASE FetchManifest \/ ScanLocal \/ MakePlan
  BY <1>2 DEF FetchManifest, ScanLocal, MakePlan, engineVars, cycleVars, userVars
<1>3. CASE PreflightAborts \/ ProbeFails \/ ManifestFails
  BY <1>3, Zenon DEF PreflightAborts, ProbeFails, ManifestFails, CycleFails, CycleOver, NoCycle
<1>4. ASSUME NEW n \in Names,
             \/ RemoteChanges(n) \/ LocalChanges(n) \/ ClearObstacle(n) \/ MakeDir(n)
             \/ Download(n) \/ DownloadFails(n) \/ WriteFile(n) \/ ReadBack(n)
             \/ DeleteFile(n) \/ DeleteDir(n)
      PROVE  FlagTypes'
  <2>1. FlagsKept
    BY <1>4, FlagsOfSteps
  <2>2. aborted' = aborted /\ quiet' \in {quiet, FALSE}
    BY <1>4 DEF RemoteChanges, LocalChanges, ClearObstacle, MakeDir, Download, DownloadFails,
                WriteFile, ReadBack, DeleteFile, DeleteDir, engineVars, cycleVars, userVars
  <2>3. touched' \in BOOLEAN /\ deferred' \in BOOLEAN /\ errors' \in BOOLEAN
    BY <1>4, Zenon DEF RemoteChanges, LocalChanges, ClearObstacle, MakeDir, Download, DownloadFails,
                WriteFile, ReadBack, DeleteFile, DeleteDir, GiveUp, Remove, Record,
                engineVars, cycleVars
  <2>4. quiet' \in BOOLEAN
    BY <2>2
  <2>5. QED
    BY <2>1, <2>2, <2>3, <2>4, Zenon DEF FlagsKept
<1>5. CASE FinishCycle \/ JournalFails
  BY <1>5 DEF FinishCycle, JournalFails, Finish, CycleOver, NoCycle
<1>6. CASE StartReady \/ TimerFires \/ RunNow
  <2>1. /\ metaOk' \in BOOLEAN /\ aborted' \in BOOLEAN /\ quiet' \in BOOLEAN
        /\ running' \in BOOLEAN /\ starting' \in BOOLEAN /\ prepared' \in BOOLEAN
        /\ own' \in BOOLEAN
    BY <1>6, Zenon DEF StartReady, TimerFires, RunNow, CycleBegins, engineVars, cycleVars
  <2>2. UNCHANGED <<touched, deferred, errors>>
    BY <1>6 DEF StartReady, TimerFires, RunNow, CycleBegins, cycleVars
  <2>3. at' \in {"idle", "preflight", "execute"} /\ driver' \in {"none", "loop", "now"}
    BY <1>6 DEF StartReady, TimerFires, RunNow, CycleBegins, cycleVars
  <2>4. QED
    BY <2>1, <2>2, <2>3, Zenon
<1>7. CASE Start \/ Stop
  <2>1. aborted' \in BOOLEAN /\ running' \in BOOLEAN /\ starting' \in BOOLEAN
    BY <1>7, Zenon DEF Start, Stop, cycleVars
  <2>2. UNCHANGED <<metaOk, touched, prepared, own, deferred, errors, quiet, at, driver>>
    BY <1>7 DEF Start, Stop, cycleVars
  <2>3. QED
    BY <2>1, <2>2, Zenon
<1>8. CASE PageClosed
  BY <1>8 DEF PageClosed, NoCycle
<1>9. QED
  BY <1>1, <1>2, <1>3, <1>4, <1>5, <1>6, <1>7, <1>8 DEF Next, CycleStep, UserStep, FaultStep

LEMMA CountTypesStep ==
  ASSUME TypeInv, [Next]_vars
  PROVE  CountTypes'
<1> USE SyncAssumption DEF TypeInv, CountTypes
<1>1. CASE FlagsKept
  BY <1>1 DEF FlagsKept
<1>2. CASE PreflightAborts \/ ProbeFails \/ ManifestFails
  BY <1>2 DEF PreflightAborts, ProbeFails, ManifestFails, CycleFails, CycleOver
<1>3. CASE FinishCycle \/ JournalFails
  BY <1>3 DEF FinishCycle, JournalFails, Finish, CycleOver
<1>4. CASE StartReady \/ TimerFires
  BY <1>4 DEF StartReady, TimerFires
<1>5. CASE RunNow \/ Start \/ Stop \/ PageClosed \/ MakePlan
  BY <1>5 DEF RunNow, Start, Stop, PageClosed, MakePlan, engineVars
<1>6. QED
  BY <1>1, <1>2, <1>3, <1>4, <1>5, FlagsOfSteps DEF Next, CycleStep, UserStep, FaultStep

-----------------------------------------------------------------------------
(* The cycle's views and plan.                                             *)

\* A cycle that is over leaves nothing behind.
LEMMA CyclesEnd ==
  ASSUME \/ PreflightAborts \/ ProbeFails \/ ManifestFails \/ FinishCycle \/ JournalFails
         \/ PageClosed
  PROVE  NoCycle
BY DEF PreflightAborts, ProbeFails, ManifestFails, CycleFails, CycleOver, FinishCycle,
       JournalFails, Finish, PageClosed

LEMMA PlansShrink ==
  ASSUME plan \in Plans, NEW n \in Names
  PROVE  /\ LET p == [plan EXCEPT !.pulls = @ \ {n}] IN
              p \in Plans /\ p.pulls = plan.pulls \ {n} /\ p.seeds = plan.seeds
         /\ \A p \in {[plan EXCEPT !.obstacles = @ \ {n}], [plan EXCEPT !.mkdirs = @ \ {n}],
                      [plan EXCEPT !.deletes = @ \ {n}], [plan EXCEPT !.rmdirs = @ \ {n}]} :
              p \in Plans /\ p.pulls = plan.pulls /\ p.seeds = plan.seeds
BY DEF Plans

LEMMA PlansBuilt ==
  BuildPlan \in Plans /\ BuildPlan.pulls = Pulls /\ BuildPlan.seeds = Seeds
BY DEF BuildPlan, Plans, Pulls, Seeds

ViewsKept == UNCHANGED <<at, manifest, scan>>

LEMMA PlanTypesStep ==
  ASSUME TypeInv, [Next]_vars
  PROVE  PlanTypes'
<1>a. PlanTypes
  BY DEF TypeInv
<1>1. CASE UNCHANGED <<at, plan, got, written, missed>> /\ raced' \in SUBSET Names
  BY <1>a, <1>1 DEF PlanTypes
<1>2. CASE \/ UNCHANGED vars \/ FetchManifest \/ ScanLocal \/ Start \/ Stop
           \/ \E n \in Names : RemoteChanges(n) \/ LocalChanges(n)
  <2>1. UNCHANGED <<at, plan, got, written, missed>>
    BY <1>2 DEF vars, cycleVars, FetchManifest, ScanLocal, Start, Stop, RemoteChanges,
                LocalChanges
  <2>2. raced' \in SUBSET Names
    BY <1>a, <1>2 DEF vars, userVars, FetchManifest, ScanLocal, Start, Stop, RemoteChanges,
                      LocalChanges, PlanTypes
  <2>3. QED
    BY <2>1, <2>2, <1>1
<1>3. CASE StartReady \/ TimerFires \/ RunNow
  <2>1. UNCHANGED <<plan, got, written, missed, raced>>
    BY <1>3 DEF StartReady, TimerFires, RunNow, CycleBegins, cycleVars
  <2>2. at' = at \/ at = "idle"
    BY <1>3 DEF StartReady, TimerFires, RunNow, CycleBegins, cycleVars
  <2>3. QED
    BY <1>a, <2>1, <2>2 DEF PlanTypes
<1>4. CASE \/ PreflightAborts \/ ProbeFails \/ ManifestFails \/ FinishCycle \/ JournalFails
           \/ PageClosed
  <2>1. raced' = raced
    BY <1>4 DEF PreflightAborts, ProbeFails, ManifestFails, CycleFails, FinishCycle,
                JournalFails, Finish, PageClosed
  <2>2. NoCycle
    BY <1>4, CyclesEnd
  <2>3. QED
    BY <1>a, <2>1, <2>2, NoPlans DEF PlanTypes, NoCycle, NothingGot
<1>5. CASE MakePlan
  <2>1. /\ at = "preflight" /\ at' = "execute" /\ plan' = BuildPlan
        /\ UNCHANGED <<got, written, missed, raced>>
    BY <1>5 DEF MakePlan, ViewsThere, userVars
  <2>2. QED
    BY <1>a, <2>1, PlansBuilt DEF PlanTypes, NothingGot
<1>6. ASSUME NEW n \in Names,
             ClearObstacle(n) \/ MakeDir(n) \/ DeleteFile(n) \/ DeleteDir(n)
      PROVE  PlanTypes'
  <2>1. /\ plan' \in {[plan EXCEPT !.obstacles = @ \ {n}], [plan EXCEPT !.mkdirs = @ \ {n}],
                      [plan EXCEPT !.deletes = @ \ {n}], [plan EXCEPT !.rmdirs = @ \ {n}]}
        /\ at = "execute" /\ UNCHANGED <<at, got, written, missed, raced>>
    BY <1>6 DEF ClearObstacle, MakeDir, DeleteFile, DeleteDir, Executing, Deleting, Pulling,
                userVars
  <2>2. plan' \in Plans /\ plan'.pulls = plan.pulls
    BY <1>a, <2>1, PlansShrink DEF PlanTypes
  <2>3. QED
    BY <1>a, <2>1, <2>2 DEF PlanTypes
<1>7. ASSUME NEW n \in Names, at = "execute", at' = at, raced' \subseteq raced,
             plan' = [plan EXCEPT !.pulls = @ \ {n}], got' = [got EXCEPT ![n] = 0],
             written' = written \ {n}, missed' \in {missed, missed \cup {n}}
      PROVE  PlanTypes'
  <2>1. plan' \in Plans /\ plan'.pulls = plan.pulls \ {n}
    BY <1>a, <1>7, PlansShrink DEF PlanTypes
  <2>2. got' \in [Names -> Nat] /\ \A m \in Names : got'[m] = IF m = n THEN 0 ELSE got[m]
    BY <1>a, <1>7 DEF PlanTypes
  <2>3. QED
    BY <1>a, <1>7, <2>1, <2>2 DEF PlanTypes
<1>8. ASSUME NEW n \in Names, Download(n) \/ DownloadFails(n)
      PROVE  PlanTypes'
  <2>1. at = "execute" /\ at' = at /\ n \in plan.pulls /\ raced' = raced
    BY <1>8 DEF Download, DownloadFails, Pulling, Executing, userVars
  <2>2. CASE GiveUp(n)
    BY <1>7, <2>1, <2>2 DEF GiveUp
  <2>3. CASE got' = [got EXCEPT ![n] = remote[n].ver] /\ UNCHANGED <<plan, written, missed>>
    <3>1. got[n] = 0
      BY <1>8 DEF Download, DownloadFails
    <3>2. remote[n].ver \in Nat
      BY DEF TypeInv, FolderTypes, Folders, Entries
    <3>3. got' \in [Names -> Nat] /\ \A m \in Names \ {n} : got'[m] = got[m]
      BY <1>a, <2>3, <3>2 DEF PlanTypes
    <3>4. QED
      BY <1>a, <2>1, <2>3, <3>1, <3>3 DEF PlanTypes
  <2>4. QED
    BY <1>8, <2>2, <2>3 DEF Download, DownloadFails
<1>9. ASSUME NEW n \in Names, WriteFile(n)
      PROVE  PlanTypes'
  <2>1. at = "execute" /\ at' = at /\ got[n] # 0
    BY <1>9 DEF WriteFile, Pulling, Executing, InFlight
  <2>2. CASE GiveUp(n) /\ UNCHANGED raced
    BY <1>7, <2>1, <2>2 DEF GiveUp
  <2>3. CASE /\ written' = written \cup {n} /\ raced' = raced \ {n}
             /\ UNCHANGED <<plan, got, missed>>
    BY <1>a, <2>1, <2>3 DEF PlanTypes
  <2>4. QED
    BY <1>9, <2>2, <2>3 DEF WriteFile
<1>10. ASSUME NEW n \in Names, ReadBack(n)
       PROVE  PlanTypes'
  <2>1. at = "execute" /\ at' = at /\ raced' = raced
    BY <1>10, <1>a DEF ReadBack, userVars, PlanTypes, NothingGot
  <2>2. QED
    BY <1>7, <1>10, <2>1 DEF ReadBack, GiveUp
<1>11. QED
  BY <1>2, <1>3, <1>4, <1>5, <1>6, <1>8, <1>9, <1>10
  DEF Next, CycleStep, UserStep, FaultStep

LEMMA ViewTypesStep ==
  ASSUME TypeInv, [Next]_vars
  PROVE  ViewTypes'
<1> USE DEF TypeInv, ViewTypes
<1>1. CASE FetchManifest \/ ScanLocal
  BY <1>1 DEF FetchManifest, ScanLocal, FolderTypes
<1>2. CASE MakePlan
  BY <1>2 DEF MakePlan, ViewsThere
<1>3. CASE NoCycle
  BY <1>3 DEF NoCycle
<1>4. CASE StartReady \/ TimerFires \/ RunNow
  BY <1>4 DEF StartReady, TimerFires, RunNow, CycleBegins, cycleVars
<1>5. CASE \/ UNCHANGED vars \/ Start \/ Stop
           \/ \E n \in Names : \/ RemoteChanges(n) \/ LocalChanges(n) \/ ClearObstacle(n)
                               \/ MakeDir(n) \/ Download(n) \/ DownloadFails(n)
                               \/ WriteFile(n) \/ ReadBack(n) \/ DeleteFile(n) \/ DeleteDir(n)
  <2>1. ViewsKept
    BY <1>5 DEF Start, Stop, RemoteChanges, LocalChanges, ClearObstacle, MakeDir, Download,
                DownloadFails, WriteFile, ReadBack, DeleteFile, DeleteDir, vars, cycleVars,
                ViewsKept
  <2>2. QED
    BY <2>1 DEF ViewsKept
<1>6. QED
  BY <1>1, <1>2, <1>3, <1>4, <1>5, CyclesEnd DEF Next, CycleStep, UserStep, FaultStep

-----------------------------------------------------------------------------
LEMMA TypeInvStep ==
  TypeInv /\ [Next]_vars => TypeInv'
<1> SUFFICES ASSUME TypeInv, [Next]_vars PROVE TypeInv'
  OBVIOUS
<1>1. \A n \in Names : got[n] \in Nat
  BY DEF TypeInv, PlanTypes
<1>2. FolderTypes'
  BY <1>1, StepOfFolders DEF TypeInv, FolderTypes, FolderStep, Later
<1>3. QED
  BY <1>2, JournalTypesStep, FlagTypesStep, CountTypesStep, ViewTypesStep, PlanTypesStep
  DEF TypeInv

\* The strengthened types, from which the rest is proved.
THEOREM FolderTypesInv == Spec => []TypeInv
BY TypesAtStart, TypeInvStep, PTL DEF Spec

\* The engine's state has its types, both folders are trees, and what is
\* downloaded is part of the plan.
THEOREM FolderTypeCorrect == Spec => []TypeOK
BY FolderTypesInv, TypeInvIsTypeOK, PTL
-----------------------------------------------------------------------------
(* A journal never vouches for contents it has not seen.  A record speaks  *)
(* of a pair of times; no time is ever used again, so what is true of the  *)
(* pair stays true.                                                        *)

\* The record r does not vouch for the files e and f, or rightly.
Agree(e, f, r) ==
  IsFile(e) /\ e.time = r.remoteTime /\ IsFile(f) /\ f.time = r.localTime => f.ver = e.ver

Old(r, c) == r.remoteTime <= c /\ r.localTime <= c

Stamped ==
  \A n \in Names : /\ remote[n].time <= clock /\ local[n].time <= clock
                   /\ manifest \in Folders => manifest[n].time <= clock
                   /\ scan \in Folders => scan[n].time <= clock

JournalsOld ==
  \A n \in Names : Old(OnDisk[n], clock) /\ Old(mem[n], clock) /\ Old(journal[n], clock)

\* Two files of one time are one file, for the writes have different times.
CommonTimes == \A n \in Names : \A t \in Nat :
  Agree(remote[n], local[n], [remoteTime |-> t, localTime |-> t])

JournalsSound == \A n \in Names \ raced :
  /\ Agree(remote[n], local[n], OnDisk[n])
  /\ Agree(remote[n], local[n], mem[n])
  /\ Agree(remote[n], local[n], journal[n])

SeedsSound ==
  at = "execute" => \A n \in plan.seeds :
    Agree(remote[n], local[n], [remoteTime |-> manifest[n].time, localTime |-> scan[n].time])

\* A download is the file of the manifest, or the server has a later one.
GotSound == \A n \in Names :
  got[n] # 0 /\ IsFile(remote[n]) /\ remote[n].time = manifest[n].time => got[n] = remote[n].ver

WrittenSound == \A n \in written \ raced : IsFile(local[n]) => local[n].ver = got[n]

SyncInv ==
  /\ TypeInv /\ Stamped /\ JournalsOld /\ CommonTimes
  /\ JournalsSound /\ SeedsSound /\ GotSound /\ WrittenSound

LEMMA NoRecordAgrees ==
  NoRecord = [remoteTime |-> 0, localTime |-> 0]
  BY DEF NoRecord

\* A path on both sides after a step of the folders.
LEMMA EntryStep ==
  ASSUME FolderStep, Stamped, FolderTypes, NEW n \in Names
  PROVE  /\ clock <= clock' /\ clock' \in Nat
         /\ remote'[n].time <= clock' /\ local'[n].time <= clock'
         /\ \/ remote'[n] = remote[n] \/ ~IsFile(remote'[n])
            \/ remote'[n].time > clock /\ local'[n] = local[n]
         /\ \/ local'[n] = local[n] \/ ~IsFile(local'[n])
            \/ local'[n].time > clock /\ remote'[n] = remote[n]
<1>1. clock \in Nat /\ clock' \in Nat /\ clock <= clock'
  BY DEF FolderStep, FolderTypes
<1>2. remote[n].time <= clock /\ local[n].time <= clock
  BY DEF Stamped
<1>3. remote[n].time \in Nat /\ local[n].time \in Nat
  BY DEF FolderTypes, Folders, Entries
<1>4. /\ remote'[n] \in {remote[n], Nothing, Dir}
           \/ (remote'[n].time = clock + 1 /\ clock' = clock + 1)
      /\ local'[n] \in {local[n], Nothing, Dir}
           \/ (local'[n].time = clock + 1 /\ clock' = clock + 1)
      /\ remote'[n] = remote[n] \/ local'[n] = local[n]
  BY DEF FolderStep, Later
<1>5. QED
  BY <1>1, <1>2, <1>3, <1>4, Kinds

LEMMA AgreeStays ==
  ASSUME FolderStep, Stamped, FolderTypes, NEW n \in Names, NEW r \in Records, Old(r, clock),
         Agree(remote[n], local[n], r) \/ local'[n].time > clock
  PROVE  Agree(remote'[n], local'[n], r) /\ Old(r, clock')
<1>1. r.remoteTime \in Nat /\ r.localTime \in Nat
  BY DEF Records
<1>2. clock \in Nat /\ clock' \in Nat /\ clock <= clock'
  BY EntryStep DEF FolderTypes
<1>3. r.remoteTime <= clock /\ r.localTime <= clock
  BY DEF Old
<1>4. Old(r, clock')
  BY <1>1, <1>2, <1>3 DEF Old
<1>5. CASE remote'[n] = remote[n] /\ local'[n] = local[n]
  BY <1>1, <1>2, <1>3, <1>4, <1>5 DEF Agree
<1>6. CASE ~IsFile(remote'[n]) \/ ~IsFile(local'[n])
  BY <1>4, <1>6 DEF Agree
<1>7. CASE remote'[n].time > clock \/ local'[n].time > clock
  BY <1>1, <1>2, <1>3, <1>4, <1>7 DEF Agree
<1>8. QED
  BY <1>5, <1>6, <1>7, EntryStep

-----------------------------------------------------------------------------
LEMMA SoundAtStart ==
  Init => SyncInv
<1> SUFFICES ASSUME Init PROVE SyncInv
  OBVIOUS
<1>1. TypeInv
  BY TypesAtStart
<1>2. OnDisk = NoJournal /\ mem = NoJournal /\ journal = NoJournal
  BY DEF Init, OnDisk
<1>3. \A n \in Names : NoJournal[n] = NoRecord
  BY DEF NoJournal
<1>4. \A n \in Names : /\ remote[n] \in {Nothing, Dir, File(1, 1)}
                       /\ local[n] \in {Nothing, Dir, File(1, 1), File(1, 2), File(2, 2)}
  BY DEF Init
<1>5. \A n \in Names : \A r \in Records :
        r.remoteTime = r.localTime => Agree(remote[n], local[n], r)
  <2> SUFFICES ASSUME NEW n \in Names, IsFile(remote[n]), IsFile(local[n]),
                      remote[n].time = local[n].time
               PROVE  local[n].ver = remote[n].ver
    BY DEF Agree
  <2>1. remote[n] = File(1, 1)
    BY <1>4, Kinds
  <2>2. local[n].time = 1 /\ local[n] # Nothing /\ local[n] # Dir
    BY <2>1, Kinds
  <2>3. local[n] = File(1, 1)
    BY <1>4, <2>2, Kinds
  <2>4. QED
    BY <2>1, <2>3
<1>6. Stamped
  <2>1. Names # {} => NoView \notin Folders
    <3>1. DOMAIN NoView = {} /\ \A f \in Folders : DOMAIN f = Names
      BY DEF NoView, Folders
    <3>2. QED
      BY <3>1
  <2>2. \A n \in Names : remote[n].time <= clock /\ local[n].time <= clock
    BY <1>4, Kinds DEF Init
  <2>3. QED
    BY <2>1, <2>2 DEF Init, Stamped
<1>7. JournalsOld
  BY <1>2, <1>3 DEF Init, JournalsOld, Old, NoRecord
<1>8. CommonTimes
  BY <1>5 DEF CommonTimes, Records
<1>9. JournalsSound
  BY <1>2, <1>3, <1>5, NoRecords, NoRecordAgrees DEF JournalsSound
<1>10. SeedsSound /\ GotSound /\ WrittenSound
  BY DEF Init, SeedsSound, GotSound, WrittenSound
<1>11. QED
  BY <1>1, <1>6, <1>7, <1>8, <1>9, <1>10 DEF SyncInv

-----------------------------------------------------------------------------
(* The views, the downloads and the written files of a step.               *)

LEMMA StepOfViews ==
  ASSUME [Next]_vars
  PROVE  /\ manifest' \in {manifest, remote, NoView} /\ scan' \in {scan, local, NoView}
         /\ \/ at' # "execute"
            \/ MakePlan
            \/ at = "execute" /\ UNCHANGED <<manifest, scan>>
<1>1. CASE FetchManifest \/ ScanLocal
  BY <1>1 DEF FetchManifest, ScanLocal
<1>2. CASE MakePlan
  BY <1>2 DEF MakePlan
<1>3. CASE NoCycle
  BY <1>3 DEF NoCycle
<1>4. CASE StartReady \/ TimerFires \/ RunNow
  BY <1>4 DEF StartReady, TimerFires, RunNow, CycleBegins, cycleVars
<1>5. CASE \/ UNCHANGED vars \/ Start \/ Stop
           \/ \E n \in Names : \/ RemoteChanges(n) \/ LocalChanges(n) \/ ClearObstacle(n)
                               \/ MakeDir(n) \/ Download(n) \/ DownloadFails(n)
                               \/ WriteFile(n) \/ ReadBack(n) \/ DeleteFile(n) \/ DeleteDir(n)
  BY <1>5 DEF Start, Stop, RemoteChanges, LocalChanges, ClearObstacle, MakeDir, Download,
              DownloadFails, WriteFile, ReadBack, DeleteFile, DeleteDir, vars, cycleVars
<1>6. QED
  BY <1>1, <1>2, <1>3, <1>4, <1>5, CyclesEnd DEF Next, CycleStep, UserStep, FaultStep

LEMMA StampedStep ==
  ASSUME TypeInv, Stamped, FolderStep, [Next]_vars
  PROVE  Stamped'
<1> SUFFICES ASSUME NEW n \in Names
             PROVE  /\ remote'[n].time <= clock' /\ local'[n].time <= clock'
                    /\ manifest' \in Folders => manifest'[n].time <= clock'
                    /\ scan' \in Folders => scan'[n].time <= clock'
  BY DEF Stamped
<1>1. FolderTypes
  BY DEF TypeInv
<1>2. /\ clock \in Nat /\ clock' \in Nat /\ clock <= clock'
      /\ remote'[n].time <= clock' /\ local'[n].time <= clock'
  BY <1>1, EntryStep DEF FolderTypes
<1>3. NoView \notin Folders
  <2>1. DOMAIN NoView = {} /\ \A f \in Folders : DOMAIN f = Names
    BY DEF NoView, Folders
  <2>2. QED
    BY <2>1
<1>4. remote[n].time <= clock /\ local[n].time <= clock
  BY DEF Stamped
<1>5. \A f \in Folders : f[n].time \in Nat
  BY DEF Folders, Entries
<1>6. remote \in Folders /\ local \in Folders
  BY <1>1 DEF FolderTypes
<1>7. manifest' \in Folders => manifest'[n].time <= clock'
  <2>1. CASE manifest' = manifest
    BY <1>2, <1>5, <2>1 DEF Stamped
  <2>2. CASE manifest' = remote
    BY <1>2, <1>4, <1>5, <1>6, <2>2
  <2>3. QED
    BY <1>3, <2>1, <2>2, StepOfViews
<1>8. scan' \in Folders => scan'[n].time <= clock'
  <2>1. CASE scan' = scan
    BY <1>2, <1>5, <2>1 DEF Stamped
  <2>2. CASE scan' = local
    BY <1>2, <1>4, <1>5, <1>6, <2>2
  <2>3. QED
    BY <1>3, <2>1, <2>2, StepOfViews
<1>9. QED
  BY <1>2, <1>7, <1>8

LEMMA CommonTimesStep ==
  ASSUME TypeInv, Stamped, CommonTimes, FolderStep
  PROVE  CommonTimes'
<1> SUFFICES ASSUME NEW n \in Names, IsFile(remote'[n]), IsFile(local'[n]),
                    remote'[n].time = local'[n].time
             PROVE  local'[n].ver = remote'[n].ver
  BY DEF CommonTimes, Agree
<1>1. remote[n].time \in Nat /\ local[n].time \in Nat /\ clock \in Nat
  BY DEF TypeInv, FolderTypes, Folders, Entries
<1>2. remote[n].time <= clock /\ local[n].time <= clock
  BY DEF Stamped
<1>3. remote'[n] = remote[n] /\ local'[n] = local[n]
  BY <1>1, <1>2, EntryStep DEF TypeInv
<1>4. Agree(remote[n], local[n],
            [remoteTime |-> remote[n].time, localTime |-> remote[n].time])
  BY <1>1 DEF CommonTimes
<1>5. QED
  BY <1>3, <1>4 DEF Agree

\* A step takes at most one thing off a plan, and never a seed.
LEMMA SeedsKept ==
  ASSUME plan \in Plans, [Next]_vars, at' = "execute", ~MakePlan
  PROVE  plan'.seeds = plan.seeds
<1>1. CASE NoCycle
  BY <1>1 DEF NoCycle
<1>2. CASE \/ UNCHANGED vars \/ FetchManifest \/ ScanLocal \/ Start \/ Stop
           \/ StartReady \/ TimerFires \/ RunNow
  BY <1>2 DEF vars, cycleVars, FetchManifest, ScanLocal, Start, Stop, StartReady,
              TimerFires, RunNow, CycleBegins
<1>3. ASSUME NEW m \in Names,
             \/ RemoteChanges(m) \/ LocalChanges(m) \/ ClearObstacle(m)
             \/ MakeDir(m) \/ Download(m) \/ DownloadFails(m)
             \/ WriteFile(m) \/ ReadBack(m) \/ DeleteFile(m) \/ DeleteDir(m)
      PROVE  plan'.seeds = plan.seeds
  <2>1. \/ plan' = plan
        \/ plan' = [plan EXCEPT !.pulls = @ \ {m}]
        \/ plan' \in {[plan EXCEPT !.obstacles = @ \ {m}], [plan EXCEPT !.mkdirs = @ \ {m}],
                     [plan EXCEPT !.deletes = @ \ {m}], [plan EXCEPT !.rmdirs = @ \ {m}]}
    BY <1>3 DEF RemoteChanges, LocalChanges, ClearObstacle, MakeDir, Download, DownloadFails,
                WriteFile, ReadBack, DeleteFile, DeleteDir, GiveUp, cycleVars
  <2>2. CASE plan' = [plan EXCEPT !.pulls = @ \ {m}]
    BY <2>2, PlansShrink
  <2>3. CASE plan' \in {[plan EXCEPT !.obstacles = @ \ {m}], [plan EXCEPT !.mkdirs = @ \ {m}],
                       [plan EXCEPT !.deletes = @ \ {m}], [plan EXCEPT !.rmdirs = @ \ {m}]}
    BY <2>3, PlansShrink
  <2>4. QED
    BY <2>1, <2>2, <2>3
<1>4. QED
  BY <1>1, <1>2, <1>3, CyclesEnd DEF Next, CycleStep, UserStep, FaultStep

\* The seeds are what the two views and the probes found to be the same.
LEMMA SeedsSoundStep ==
  ASSUME SyncInv, FolderStep, [Next]_vars
  PROVE  SeedsSound'
<1> USE DEF SyncInv, TypeInv
<1> SUFFICES ASSUME at' = "execute", NEW n \in Names, n \in plan'.seeds
             PROVE  Agree(remote'[n], local'[n],
                          [remoteTime |-> manifest'[n].time, localTime |-> scan'[n].time])
  BY PlanTypesStep DEF SeedsSound, PlanTypes, Plans
<1> DEFINE r == [remoteTime |-> manifest[n].time, localTime |-> scan[n].time]
<1>1. manifest' = manifest /\ scan' = scan
  BY StepOfViews DEF MakePlan
<1>2. manifest \in Folders /\ scan \in Folders
  BY <1>1, ViewTypesStep DEF ViewTypes
<1>3. r \in Records /\ Old(r, clock)
  BY <1>2 DEF Folders, Entries, Records, Stamped, Old
<1>4. Agree(remote[n], local[n], r)
  <2>1. CASE MakePlan
    <3>1. n \in Seeds
      BY <2>1, PlansBuilt DEF MakePlan
    <3>2. CASE SameShape(n)
      <4>1. manifest[n].time = scan[n].time /\ manifest[n].time \in Nat
        BY <1>2, <3>2 DEF SameShape, Folders, Entries
      <4>2. QED
        BY <4>1 DEF CommonTimes
    <3>3. CASE SameContent(n)
      BY <3>3 DEF SameContent, Agree
    <3>4. QED
      BY <3>1, <3>2, <3>3 DEF Seeds
  <2>2. CASE at = "execute" /\ ~MakePlan
    <3>1. plan'.seeds = plan.seeds
      BY <2>2, SeedsKept DEF PlanTypes
    <3>2. QED
      BY <2>2, <3>1 DEF SeedsSound
  <2>3. QED
    BY <2>1, <2>2, StepOfViews
<1> HIDE DEF r
<1>5. Agree(remote'[n], local'[n], r)
  BY <1>3, <1>4, AgreeStays
<1>6. QED
  BY <1>1, <1>5 DEF r

LEMMA GotSoundStep ==
  ASSUME SyncInv, FolderStep, [Next]_vars
  PROVE  GotSound'
<1> USE DEF SyncInv, TypeInv
<1> SUFFICES ASSUME NEW n \in Names, got'[n] # 0, IsFile(remote'[n]),
                    remote'[n].time = manifest'[n].time
             PROVE  got'[n] = remote'[n].ver
  BY DEF GotSound
<1>1. at' = "execute"
  BY PlanTypesStep DEF PlanTypes, NothingGot
<1>2. got'[n] = got[n] \/ (got'[n] = remote[n].ver /\ remote' = remote)
  <2>1. \A m \in Names : \A v \in Nat :
          [got EXCEPT ![m] = v][n] = IF m = n THEN v ELSE got[n]
    BY DEF PlanTypes
  <2>2. CASE NoCycle
    BY <1>1, <2>2 DEF NoCycle
  <2>3. CASE \/ UNCHANGED vars \/ FetchManifest \/ ScanLocal \/ MakePlan \/ Start \/ Stop
             \/ StartReady \/ TimerFires \/ RunNow
    BY <2>3 DEF vars, cycleVars, FetchManifest, ScanLocal, MakePlan, Start, Stop, StartReady,
                TimerFires, RunNow, CycleBegins
  <2>4. ASSUME NEW m \in Names, got' = [got EXCEPT ![m] = 0]
        PROVE  got'[n] = got[n]
    BY <2>1, <2>4
  <2>5. ASSUME NEW m \in Names, Download(m)
        PROVE  got'[n] = got[n] \/ (got'[n] = remote[n].ver /\ remote' = remote)
    <3>1. remote' = remote
      BY <2>5 DEF Download, folderVars
    <3>2. CASE got' = [got EXCEPT ![m] = remote[m].ver]
      BY <2>1, <3>1, <3>2 DEF FolderTypes, Folders, Entries
    <3>3. QED
      BY <2>4, <2>5, <3>2 DEF Download, GiveUp
  <2>6. ASSUME NEW m \in Names,
               \/ RemoteChanges(m) \/ LocalChanges(m) \/ ClearObstacle(m)
               \/ MakeDir(m) \/ DownloadFails(m) \/ WriteFile(m) \/ ReadBack(m)
               \/ DeleteFile(m) \/ DeleteDir(m)
        PROVE  got'[n] = got[n]
    <3>1. got' = got \/ got' = [got EXCEPT ![m] = 0]
      BY <2>6 DEF RemoteChanges, LocalChanges, ClearObstacle, MakeDir, DownloadFails,
                  WriteFile, ReadBack, DeleteFile, DeleteDir, GiveUp, cycleVars
    <3>2. QED
      BY <2>4, <3>1
  <2>7. QED
    BY <2>2, <2>3, <2>5, <2>6, CyclesEnd DEF Next, CycleStep, UserStep, FaultStep
<1>3. CASE got'[n] = remote[n].ver /\ remote' = remote
  BY <1>3
<1>4. CASE got'[n] = got[n]
  <2>1. at = "execute" /\ manifest' = manifest /\ manifest \in Folders
    BY <1>1, <1>4, StepOfViews DEF MakePlan, ViewsThere, PlanTypes, ViewTypes, NothingGot
  <2>2. manifest[n].time <= clock /\ manifest[n].time \in Nat /\ clock \in Nat
    BY <2>1 DEF Stamped, FolderTypes, Folders, Entries
  <2>3. remote'[n] = remote[n]
    BY <2>1, <2>2, EntryStep
  <2>4. QED
    BY <1>4, <2>1, <2>3 DEF GotSound
<1>5. QED
  BY <1>2, <1>3, <1>4

\* Until its time is read back a written file holds the download, unless a user
\* has changed it.
LEMMA WrittenSoundStep ==
  ASSUME SyncInv, FolderStep, [Next]_vars
  PROVE  WrittenSound'
<1> USE DEF SyncInv, TypeInv
<1>a. \A m, n \in Names : \A v \in Nat : [got EXCEPT ![m] = v][n] = IF m = n THEN v ELSE got[n]
  BY DEF PlanTypes
<1>b. written \subseteq Names
  BY DEF PlanTypes
<1>1. ASSUME written' \subseteq written, raced \cap written' \subseteq raced',
             \A n \in written' \ raced' :
               got'[n] = got[n] /\ (local'[n] = local[n] \/ ~IsFile(local'[n]))
      PROVE  WrittenSound'
  BY <1>1 DEF WrittenSound
<1>2. CASE NoCycle
  BY <1>2 DEF NoCycle, WrittenSound
<1>3. CASE \/ UNCHANGED vars \/ FetchManifest \/ ScanLocal \/ MakePlan \/ Start \/ Stop
           \/ StartReady \/ TimerFires \/ RunNow
  <2>1. UNCHANGED <<written, got, local, raced>>
    BY <1>3 DEF vars, folderVars, cycleVars, userVars, FetchManifest, ScanLocal, MakePlan,
                Start, Stop, StartReady, TimerFires, RunNow, CycleBegins
  <2>2. QED
    BY <1>1, <2>1
<1>4. ASSUME NEW m \in Names, RemoteChanges(m)
      PROVE  WrittenSound'
  BY <1>1, <1>4 DEF RemoteChanges, cycleVars
<1>5. ASSUME NEW m \in Names, LocalChanges(m)
      PROVE  WrittenSound'
  <2>1. /\ UNCHANGED <<written, got>>
        /\ raced' = raced \cup (written \cap {n \in Names : local'[n] # local[n]})
    BY <1>5 DEF LocalChanges, cycleVars
  <2>2. QED
    BY <1>1, <1>b, <2>1
<1>6. ASSUME NEW m \in Names, ClearObstacle(m) \/ DeleteFile(m) \/ DeleteDir(m)
      PROVE  WrittenSound'
  <2>1. UNCHANGED <<written, got, raced>> /\ (local' = local \/ local' = Drop(local, m))
    BY <1>6 DEF ClearObstacle, DeleteFile, DeleteDir, Remove, userVars
  <2>2. \A n \in Names : local'[n] = local[n] \/ ~IsFile(local'[n])
    BY <2>1, DropChanges, Kinds DEF FolderTypes
  <2>3. QED
    BY <1>1, <1>b, <2>1, <2>2
<1>7. ASSUME NEW m \in Names, MakeDir(m)
      PROVE  WrittenSound'
  <2>1. UNCHANGED <<written, got, raced>> /\ (local' = local \/ local' = Put(local, m, Dir))
    BY <1>7 DEF MakeDir, userVars
  <2>2. /\ Put(local, m, Dir)[m] = Dir
        /\ \A n \in Names \ {m} :
             Put(local, m, Dir)[n] = IF n \in Above[m] THEN Dir ELSE local[n]
    BY PutChanges, Kinds DEF FolderTypes
  <2>3. \A n \in Names : local'[n] = local[n] \/ ~IsFile(local'[n])
    BY <2>1, <2>2, Kinds
  <2>4. QED
    BY <1>1, <1>b, <2>1, <2>3
<1>8. ASSUME NEW m \in Names, local' = local, raced' = raced, got' = [got EXCEPT ![m] = 0],
             written' = written \ {m}
      PROVE  WrittenSound'
  BY <1>1, <1>8, <1>a, <1>b
<1>9. ASSUME NEW m \in Names, Download(m) \/ DownloadFails(m)
      PROVE  WrittenSound'
  <2>1. local' = local /\ raced' = raced
    BY <1>9 DEF Download, DownloadFails, folderVars, userVars
  <2>2. CASE GiveUp(m)
    BY <1>8, <2>1, <2>2 DEF GiveUp
  <2>3. CASE got' = [got EXCEPT ![m] = remote[m].ver] /\ written' = written
    <3>1. m \notin written
      BY <1>9 DEF Download, DownloadFails, PlanTypes
    <3>2. remote[m].ver \in Nat
      BY DEF FolderTypes, Folders, Entries
    <3>3. QED
      BY <1>1, <1>a, <1>b, <2>1, <2>3, <3>1, <3>2
  <2>4. QED
    BY <1>9, <2>2, <2>3 DEF Download, DownloadFails
<1>10. ASSUME NEW m \in Names, WriteFile(m)
       PROVE  WrittenSound'
  <2> DEFINE new == File(got[m], clock + 1)
  <2>1. CASE GiveUp(m) /\ UNCHANGED <<local, raced>>
    BY <1>8, <2>1 DEF GiveUp
  <2>2. CASE /\ local' = Put(local, m, new) /\ written' = written \cup {m}
             /\ raced' = raced \ {m} /\ got' = got
    <3>1. new \in Entries /\ new.ver = got[m]
      BY Kinds DEF PlanTypes, FolderTypes
    <3> HIDE DEF new
    <3>2. /\ local'[m] = new
          /\ \A n \in Names \ {m} : local'[n] = IF n \in Above[m] THEN Dir ELSE local[n]
      BY <2>2, <3>1, PutChanges DEF FolderTypes
    <3>3. ASSUME NEW n \in written' \ raced', IsFile(local'[n])
          PROVE  local'[n].ver = got'[n]
      <4>1. CASE n = m
        BY <2>2, <3>1, <3>2, <4>1
      <4>2. CASE n # m
        <5>1. n \in written \ raced /\ local'[n] = local[n]
          BY <1>b, <2>2, <3>2, <3>3, <4>2, Kinds
        <5>2. QED
          BY <2>2, <3>3, <5>1 DEF WrittenSound
      <4>3. QED
        BY <4>1, <4>2
    <3>4. QED
      BY <3>3 DEF WrittenSound
  <2>3. QED
    BY <1>10, <2>1, <2>2 DEF WriteFile
<1>11. ASSUME NEW m \in Names, ReadBack(m)
       PROVE  WrittenSound'
  <2>1. local' = local /\ raced' = raced
    BY <1>11 DEF ReadBack, folderVars, userVars
  <2>2. QED
    BY <1>8, <1>11, <2>1 DEF ReadBack, GiveUp
<1>12. QED
  BY <1>2, <1>3, <1>4, <1>5, <1>6, <1>7, <1>9, <1>10, <1>11, CyclesEnd
  DEF Next, CycleStep, UserStep, FaultStep

-----------------------------------------------------------------------------
(* The journals of a step.                                                 *)

\* A file stops being raced when it is written again.
LEMMA RacedStep ==
  ASSUME SyncInv, [Next]_vars
  PROVE  \A n \in Names : n \in raced => n \in raced' \/ local'[n].time > clock
<1> USE DEF SyncInv, TypeInv
<1>1. ASSUME NEW m \in Names, WriteFile(m)
      PROVE  \A n \in Names : n \in raced => n \in raced' \/ local'[n].time > clock
  <2> DEFINE new == File(got[m], clock + 1)
  <2>1. CASE local' = Put(local, m, new) /\ raced' = raced \ {m}
    <3>1. clock \in Nat /\ new \in Entries /\ new.time = clock + 1
      BY Kinds DEF PlanTypes, FolderTypes
    <3> HIDE DEF new
    <3>2. local'[m] = new
      BY <2>1, <3>1, PutChanges DEF FolderTypes
    <3>3. QED
      BY <2>1, <3>1, <3>2
  <2>2. QED
    BY <1>1, <2>1 DEF WriteFile
<1>2. CASE \/ UNCHANGED vars \/ FetchManifest \/ ScanLocal \/ PreflightAborts \/ MakePlan
           \/ ProbeFails \/ FinishCycle \/ StartReady \/ TimerFires \/ Start \/ Stop \/ RunNow
           \/ ManifestFails \/ JournalFails \/ PageClosed
           \/ \E n \in Names : \/ RemoteChanges(n) \/ LocalChanges(n) \/ ClearObstacle(n)
                               \/ MakeDir(n) \/ Download(n) \/ DownloadFails(n)
                               \/ ReadBack(n) \/ DeleteFile(n) \/ DeleteDir(n)
  <2>1. raced \subseteq raced'
    BY <1>2 DEF vars, userVars, FetchManifest, ScanLocal, PreflightAborts, MakePlan, ProbeFails,
                FinishCycle, StartReady, TimerFires, Start, Stop, RunNow, ManifestFails,
                JournalFails, PageClosed, CycleFails, Finish, RemoteChanges, LocalChanges,
                ClearObstacle, MakeDir, Download, DownloadFails, ReadBack, DeleteFile, DeleteDir
  <2>2. QED
    BY <2>1
<1>3. QED
  BY <1>1, <1>2 DEF Next, CycleStep, UserStep, FaultStep

\* The record of a mirrored file is right when it is written.
LEMMA ReadBackAgrees ==
  ASSUME SyncInv, NEW n \in Names, ReadBack(n)
  PROVE  LET r == [remoteTime |-> RemoteTimeOf(n), localTime |-> local[n].time] IN
           /\ r \in Records /\ Old(r, clock)
           /\ n \notin raced => Agree(remote[n], local[n], r)
<1> USE DEF SyncInv, TypeInv
<1>1. n \in written /\ got[n] # 0 /\ manifest \in Folders
  BY DEF ReadBack, PlanTypes, ViewTypes, NothingGot
<1>2. /\ manifest[n].time \in Nat /\ local[n].time \in Nat
      /\ manifest[n].time <= clock /\ local[n].time <= clock
  BY <1>1 DEF FolderTypes, Folders, Entries, Stamped
<1>3. n \notin raced =>
        Agree(remote[n], local[n], [remoteTime |-> manifest[n].time,
                                    localTime |-> local[n].time])
  BY <1>1 DEF WrittenSound, GotSound, Agree
<1>4. QED
  BY <1>2, <1>3 DEF RemoteTimeOf, Records, Old

LEMMA JournalsStep ==
  ASSUME SyncInv, FolderStep, [Next]_vars
  PROVE  JournalsOld' /\ JournalsSound'
<1> USE DEF SyncInv, TypeInv
<1> SUFFICES ASSUME NEW n \in Names
             PROVE  \A j \in {OnDisk', mem', journal'} :
                      /\ Old(j[n], clock')
                      /\ n \notin raced' => Agree(remote'[n], local'[n], j[n])
  BY DEF JournalsOld, JournalsSound
<1> DEFINE Good(r) == /\ Old(r, clock')
                      /\ n \notin raced' => Agree(remote'[n], local'[n], r)
<1>1. ASSUME NEW r \in Records, Old(r, clock),
             n \notin raced => Agree(remote[n], local[n], r)
      PROVE  Good(r)
  <2>1. CASE n \in raced' /\ n \in raced
    <3>1. Old(r, clock')
      BY <1>1, EntryStep DEF Old, Records, FolderTypes
    <3>2. QED
      BY <2>1, <3>1
  <2>2. CASE n \notin raced
    BY <1>1, <2>2, AgreeStays
  <2>3. CASE n \notin raced' /\ n \in raced
    BY <1>1, <2>3, AgreeStays, RacedStep
  <2>4. QED
    BY <2>1, <2>2, <2>3
<1>2. Good(OnDisk[n]) /\ Good(mem[n]) /\ Good(journal[n])
  <2>1. OnDisk[n] \in Records /\ mem[n] \in Records /\ journal[n] \in Records
    BY DEF JournalTypes, Journals
  <2>2. Old(OnDisk[n], clock) /\ Old(mem[n], clock) /\ Old(journal[n], clock)
    BY DEF JournalsOld
  <2> HIDE DEF Good
  <2>3. QED
    BY <1>1, <2>1, <2>2 DEF JournalsSound
<1>3. Good(NoRecord)
  <2>1. Agree(remote[n], local[n], NoRecord)
    BY NoRecordAgrees DEF CommonTimes
  <2>2. Old(NoRecord, clock)
    BY DEF Old, NoRecord, FolderTypes
  <2>3. QED
    BY <1>1, <2>1, <2>2, NoRecords
<1>4. Good(NoJournal[n])
  BY <1>3 DEF NoJournal
<1>b. disk' = disk => OnDisk' = OnDisk
  BY DEF OnDisk
<1> SUFFICES Good(OnDisk'[n]) /\ Good(mem'[n]) /\ Good(journal'[n])
  OBVIOUS
<1>5. CASE Unjournaled
  BY <1>2, <1>5, <1>b DEF Unjournaled
<1>6. ASSUME NEW m \in Names, NEW r, Recorder(m, r), m = n => Good(r)
      PROVE  Good(OnDisk'[n]) /\ Good(mem'[n]) /\ Good(journal'[n])
  <2> HIDE DEF Good
  <2>1. CASE Unjournaled
    BY <1>5, <2>1
  <2>2. CASE journal' = [journal EXCEPT ![m] = r] /\ mem' \in {mem, journal'}
    <3>1. journal'[n] = IF m = n THEN r ELSE journal[n]
      BY <2>2 DEF JournalTypes, Journals
    <3>2. Good(journal'[n])
      BY <1>2, <1>6, <3>1
    <3>3. QED
      BY <1>2, <1>6, <1>b, <2>2, <3>2 DEF Recorder
  <2>3. QED
    BY <1>6, <2>1, <2>2 DEF Recorder
<1>7. ASSUME NEW m \in Names, ReadBack(m),
             Recorder(m, [remoteTime |-> RemoteTimeOf(m), localTime |-> local[m].time])
      PROVE  Good(OnDisk'[n]) /\ Good(mem'[n]) /\ Good(journal'[n])
  <2> DEFINE r == [remoteTime |-> RemoteTimeOf(m), localTime |-> local[m].time]
  <2>1. /\ r \in Records /\ Old(r, clock)
        /\ m \notin raced => Agree(remote[m], local[m], r)
    BY <1>7, ReadBackAgrees
  <2> HIDE DEF r, Good
  <2>2. m = n => Good(r)
    BY <1>1, <2>1
  <2>3. Recorder(m, r)
    BY <1>7 DEF r
  <2>4. QED
    BY <1>6, <2>2, <2>3
<1>8. CASE /\ disk' = disk /\ mem' \in {mem, OnDisk, NoJournal}
           /\ journal' \in {journal, mem', NoJournal}
  <2> HIDE DEF Good
  <2>1. QED
    BY <1>2, <1>4, <1>8, <1>b
<1>9. CASE /\ at = "execute" /\ Executed
           /\ disk' \in {disk, Maintained} /\ mem' \in {mem, Maintained}
           /\ journal' = NoJournal
  <2> DEFINE r == [remoteTime |-> manifest[n].time, localTime |-> scan[n].time]
  <2>1. Maintained[n] = IF n \in plan.seeds THEN r
                        ELSE IF OnServer(n) THEN journal[n] ELSE NoRecord
    BY DEF Maintained
  <2>2. n \in plan.seeds => Good(r)
    <3>1. manifest \in Folders /\ scan \in Folders
      BY <1>9 DEF ViewTypes
    <3>2. r \in Records /\ Old(r, clock)
      BY <3>1 DEF Folders, Entries, Records, Stamped, Old
    <3>3. n \in plan.seeds => Agree(remote[n], local[n], r)
      BY <1>9 DEF SeedsSound
    <3> HIDE DEF r, Good
    <3>4. QED
      BY <1>1, <3>2, <3>3
  <2> HIDE DEF r, Good
  <2>3. Good(Maintained[n])
    BY <1>2, <1>3, <2>1, <2>2
  <2>4. OnDisk' \in {OnDisk, Maintained, NoJournal}
    BY <1>9 DEF OnDisk
  <2>5. QED
    BY <1>2, <1>4, <1>9, <2>3, <2>4
<1>10. QED
  <2> HIDE DEF Good
  <2>1. QED
    BY <1>3, <1>5, <1>6, <1>7, <1>8, <1>9, StepOfJournals

-----------------------------------------------------------------------------
LEMMA SyncInvStep ==
  SyncInv /\ [Next]_vars => SyncInv'
<1> SUFFICES ASSUME SyncInv, [Next]_vars PROVE SyncInv'
  OBVIOUS
<1>1. TypeInv'
  BY TypeInvStep DEF SyncInv
<1>2. FolderStep
  BY StepOfFolders DEF SyncInv, TypeInv, PlanTypes
<1>3. Stamped' /\ CommonTimes'
  BY <1>2, StampedStep, CommonTimesStep DEF SyncInv
<1>4. SeedsSound' /\ GotSound' /\ WrittenSound'
  BY <1>2, SeedsSoundStep, GotSoundStep, WrittenSoundStep
<1>5. JournalsOld' /\ JournalsSound'
  BY <1>2, JournalsStep
<1>6. QED
  BY <1>1, <1>3, <1>4, <1>5 DEF SyncInv

\* What the next cycle would skip as already mirrored has the contents of the
\* server's file, whatever the users, the buttons, the timers, failing requests
\* and closed pages did between any two steps of the cycles.
THEOREM SkippedFilesAreMirrored == Spec => []SkippedIsMirrored
<1>1. SyncInv => SkippedIsMirrored
  BY DEF SyncInv, JournalsSound, Agree, SkippedIsMirrored
<1>2. QED
  BY <1>1, SoundAtStart, SyncInvStep, PTL DEF Spec

-----------------------------------------------------------------------------
(* A cycle that reports no error and was left alone leaves a mirror of the *)
(* server's folder.  The proof follows the plan: every path is as it       *)
(* should be or still on the plan.                                         *)

\* While the users leave the folders alone the views are the folders.
ViewsInv ==
  /\ at = "idle" => manifest = NoView /\ scan = NoView
  /\ quiet /\ at = "preflight" => manifest \in {NoView, remote} /\ scan \in {NoView, local}
  /\ quiet /\ at = "execute" => manifest = remote
  /\ manifest \in Folders => Tree(manifest)
  /\ scan \in Folders => Tree(scan)

\* What can be on a plan; until the obstacles are gone, all that they may take
\* with them is.
PlanInv ==
  at = "execute" =>
    /\ \A n \in plan.obstacles : Clash(n)
    /\ \A n \in plan.pulls : IsFile(manifest[n])
    /\ \A n \in plan.mkdirs : IsDir(manifest[n])
    /\ \A n \in plan.deletes \cup plan.rmdirs : ~OnServer(n)
    /\ \A n \in Names : got[n] # 0 => plan.obstacles = {} /\ plan.mkdirs = {}
    /\ plan.obstacles # {} => \A n \in Names :
         /\ IsFile(manifest[n]) /\ n \notin Big /\ ~IsFile(scan[n]) => n \in plan.pulls
         /\ IsDir(manifest[n]) /\ ~IsDir(scan[n]) => n \in plan.mkdirs

\* There is one way for a path not to be there.
Proper(t) == \A n \in Names : t[n].kind = "none" => t[n] = Nothing
ProperInv ==
  /\ Proper(remote) /\ Proper(local)
  /\ manifest \in Folders => Proper(manifest)
  /\ scan \in Folders => Proper(scan)

DeferredInv == deferred => missed # {}

\* A path is as on the server, or its turn comes.
FileDone(n) ==
  n \in plan.pulls \/ (IsFile(local[n]) /\ local[n].ver = manifest[n].ver)
DirDone(n) == n \in plan.mkdirs \/ IsDir(local[n])
ExtraDone(n) == n \in plan.deletes \cup plan.rmdirs \/ local[n] = Nothing

Done(n) ==
  /\ IsFile(manifest[n]) /\ n \notin Big \cup raced => FileDone(n)
  /\ IsDir(manifest[n]) => DirDone(n)
  /\ RemoveExtra /\ ~OnServer(n) => ExtraDone(n)

Clean == at = "execute" /\ quiet /\ ~errors /\ missed = {}

MirrorInv ==
  /\ SyncInv /\ ViewsInv /\ ProperInv /\ PlanInv /\ DeferredInv
  /\ Clean => \A n \in Names : Done(n)

-----------------------------------------------------------------------------
LEMMA MirrorAtEnd ==
  MirrorInv => CleanCycleMirrors
<1> USE DEF MirrorInv, SyncInv, TypeInv
<1> SUFFICES ASSUME MirrorInv, Executed, quiet, ~errors, missed = {},
                    NEW n \in Names \ (Big \cup raced)
             PROVE  Mirrored(n)
  BY DEF CleanCycleMirrors
<1>1. /\ at = "execute" /\ plan.pulls = {} /\ plan.mkdirs = {}
      /\ plan.deletes \cup plan.rmdirs = {}
  BY DEF Executed, Pulling, Executing, DeferredInv
<1>2. Done(n)
  BY <1>1 DEF Clean
<1>3. manifest[n] \in Entries
  BY <1>1 DEF ViewTypes, Folders
<1>4. manifest[n].kind \in {"none", "dir", "file"}
  BY <1>3 DEF Entries
<1>5. OnServer(n) => local[n].kind = manifest[n].kind
  <2>1. CASE IsFile(manifest[n]) \/ IsDir(manifest[n])
    BY <1>1, <1>2, <2>1 DEF Done, FileDone, DirDone, IsFile, IsDir
  <2>2. CASE manifest[n].kind = "none"
    BY <1>1, <2>2 DEF ViewTypes, ProperInv, Proper, OnServer
  <2>3. QED
    BY <1>4, <2>1, <2>2 DEF IsFile, IsDir
<1>6. QED
  BY <1>1, <1>2, <1>5 DEF Mirrored, Done, FileDone, ExtraDone

-----------------------------------------------------------------------------
(* The views.                                                              *)

LEMMA NoViewIsEmpty ==
  NoView \in Folders => Names = {}
<1>1. DOMAIN NoView = {} /\ \A f \in Folders : DOMAIN f = Names
  BY DEF NoView, Folders
<1>2. QED
  BY <1>1

\* The steps that carry a plan out leave the views and the server alone.
LEMMA PlanSteps ==
  ASSUME PlanTypes, NEW n \in Names,
         \/ ClearObstacle(n) \/ MakeDir(n) \/ Download(n) \/ DownloadFails(n)
         \/ WriteFile(n) \/ ReadBack(n) \/ DeleteFile(n) \/ DeleteDir(n)
  PROVE  /\ at = "execute" /\ at' = "execute"
         /\ UNCHANGED <<manifest, scan, remote, quiet>>
<1>1. at = "execute"
  BY DEF ClearObstacle, MakeDir, Download, DownloadFails, WriteFile, ReadBack, DeleteFile,
         DeleteDir, Executing, Pulling, Deleting, PlanTypes, NothingGot
<1>2. UNCHANGED <<at, manifest, scan, remote>>
  BY DEF ClearObstacle, MakeDir, Download, DownloadFails, WriteFile, ReadBack, DeleteFile,
         DeleteDir, folderVars
<1>3. quiet' = quiet
  BY DEF ClearObstacle, MakeDir, Download, DownloadFails, WriteFile, ReadBack, DeleteFile,
         DeleteDir, userVars
<1>4. QED
  BY <1>1, <1>2, <1>3

LEMMA ViewsInvStep ==
  ASSUME MirrorInv, [Next]_vars
  PROVE  ViewsInv'
<1>a. ViewsInv /\ ViewTypes /\ PlanTypes /\ FolderTypes
  BY DEF MirrorInv, SyncInv, TypeInv
<1>b. /\ manifest' \in Folders => Tree(manifest')
      /\ scan' \in Folders => Tree(scan')
  <2>1. NoView \in Folders => Tree(NoView)
    BY NoViewIsEmpty DEF Tree
  <2>2. QED
    BY <1>a, <2>1, StepOfViews DEF ViewsInv, FolderTypes
<1>1. CASE UNCHANGED <<at, manifest, scan, remote, local, quiet>>
  BY <1>a, <1>b, <1>1 DEF ViewsInv
<1>2. CASE UNCHANGED vars \/ Start \/ Stop
  BY <1>1, <1>2 DEF vars, cycleVars, folderVars, userVars, Start, Stop
<1>3. CASE FetchManifest
  BY <1>a, <1>b, <1>3 DEF FetchManifest, folderVars, userVars, ViewsInv
<1>4. CASE ScanLocal
  BY <1>a, <1>b, <1>4 DEF ScanLocal, folderVars, userVars, ViewsInv
<1>5. CASE MakePlan
  BY <1>a, <1>b, <1>5 DEF MakePlan, ViewsThere, folderVars, userVars, ViewsInv
<1>6. CASE NoCycle
  BY <1>b, <1>6 DEF NoCycle, ViewsInv
<1>7. CASE StartReady \/ TimerFires \/ RunNow
  <2>1. CASE UNCHANGED <<at, manifest, scan, quiet>>
    <3>1. UNCHANGED <<remote, local>>
      BY <1>7 DEF StartReady, TimerFires, RunNow, folderVars
    <3>2. QED
      BY <1>1, <2>1, <3>1
  <2>2. CASE at = "idle" /\ at' = "preflight" /\ UNCHANGED <<manifest, scan>>
    BY <1>a, <1>b, <2>2 DEF ViewsInv
  <2>3. QED
    BY <1>7, <2>1, <2>2 DEF StartReady, TimerFires, RunNow, CycleBegins, cycleVars
<1>8. ASSUME NEW n \in Names, RemoteChanges(n) \/ LocalChanges(n)
      PROVE  ViewsInv'
  <2>1. quiet' = FALSE /\ UNCHANGED <<at, manifest, scan>>
    BY <1>8 DEF RemoteChanges, LocalChanges, cycleVars
  <2>2. QED
    BY <1>a, <1>b, <2>1 DEF ViewsInv
<1>9. ASSUME NEW n \in Names,
             \/ ClearObstacle(n) \/ MakeDir(n) \/ Download(n) \/ DownloadFails(n)
             \/ WriteFile(n) \/ ReadBack(n) \/ DeleteFile(n) \/ DeleteDir(n)
      PROVE  ViewsInv'
  BY <1>a, <1>b, <1>9, PlanSteps DEF ViewsInv
<1>10. QED
  BY <1>2, <1>3, <1>4, <1>5, <1>6, <1>7, <1>8, <1>9, CyclesEnd
  DEF Next, CycleStep, UserStep, FaultStep

LEMMA ProperInvStep ==
  ASSUME MirrorInv, FolderStep, [Next]_vars
  PROVE  ProperInv'
<1>a. ProperInv
  BY DEF MirrorInv
<1>1. Proper(remote') /\ Proper(local')
  BY <1>a, Kinds DEF FolderStep, Later, ProperInv, Proper, IsFile
<1>2. NoView \in Folders => Proper(NoView)
  BY NoViewIsEmpty DEF Proper
<1>3. QED
  BY <1>a, <1>1, <1>2, StepOfViews DEF ProperInv

LEMMA DeferredInvStep ==
  ASSUME MirrorInv, [Next]_vars
  PROVE  DeferredInv'
<1> USE DEF DeferredInv
<1>a. DeferredInv
  BY DEF MirrorInv
<1>1. CASE NoCycle
  BY <1>1 DEF NoCycle
<1>2. CASE \/ UNCHANGED vars \/ FetchManifest \/ ScanLocal \/ MakePlan \/ Start \/ Stop
           \/ StartReady \/ TimerFires \/ RunNow
  <2>1. UNCHANGED <<deferred, missed>>
    BY <1>2 DEF vars, cycleVars, FetchManifest, ScanLocal, MakePlan, Start, Stop,
                StartReady, TimerFires, RunNow, CycleBegins
  <2>2. QED
    BY <1>a, <2>1
<1>3. ASSUME NEW n \in Names,
             \/ RemoteChanges(n) \/ LocalChanges(n) \/ ClearObstacle(n) \/ MakeDir(n)
             \/ Download(n) \/ DownloadFails(n) \/ WriteFile(n) \/ ReadBack(n)
             \/ DeleteFile(n) \/ DeleteDir(n)
      PROVE  DeferredInv'
  <2>1. UNCHANGED <<deferred, missed>> \/ missed' = missed \cup {n}
    BY <1>3 DEF RemoteChanges, LocalChanges, ClearObstacle, MakeDir, Download, DownloadFails,
                WriteFile, ReadBack, DeleteFile, DeleteDir, GiveUp, cycleVars
  <2>2. QED
    BY <1>a, <2>1
<1>4. QED
  BY <1>1, <1>2, <1>3, CyclesEnd DEF Next, CycleStep, UserStep, FaultStep

-----------------------------------------------------------------------------
(* The plan.                                                               *)

Fields(p) == <<p.obstacles, p.mkdirs, p.pulls, p.deletes, p.rmdirs>>

LEMMA PlanFields ==
  ASSUME plan \in Plans, NEW n
  PROVE  /\ Fields([plan EXCEPT !.obstacles = @ \ {n}]) =
              <<plan.obstacles \ {n}, plan.mkdirs, plan.pulls, plan.deletes, plan.rmdirs>>
         /\ Fields([plan EXCEPT !.mkdirs = @ \ {n}]) =
              <<plan.obstacles, plan.mkdirs \ {n}, plan.pulls, plan.deletes, plan.rmdirs>>
         /\ Fields([plan EXCEPT !.pulls = @ \ {n}]) =
              <<plan.obstacles, plan.mkdirs, plan.pulls \ {n}, plan.deletes, plan.rmdirs>>
         /\ Fields([plan EXCEPT !.deletes = @ \ {n}]) =
              <<plan.obstacles, plan.mkdirs, plan.pulls, plan.deletes \ {n}, plan.rmdirs>>
         /\ Fields([plan EXCEPT !.rmdirs = @ \ {n}]) =
              <<plan.obstacles, plan.mkdirs, plan.pulls, plan.deletes, plan.rmdirs \ {n}>>
BY DEF Plans, Fields

\* Clash and OnServer speak of the views only.
LEMMA PlanOfMakePlan ==
  ASSUME MirrorInv, MakePlan
  PROVE  PlanInv'
<1>1. /\ plan' = BuildPlan /\ UNCHANGED <<manifest, scan, got>> /\ at = "preflight"
  BY DEF MakePlan, ViewsThere
<1>2. \A n \in Names : got[n] = 0
  BY <1>1 DEF MirrorInv, SyncInv, TypeInv, PlanTypes, NothingGot
<1>3. /\ BuildPlan.obstacles = {n \in Names : Clash(n)}
      /\ BuildPlan.pulls = Pulls
      /\ BuildPlan.mkdirs = {n \in Names : IsDir(manifest[n]) /\ ~IsDir(scan[n])}
      /\ \A n \in BuildPlan.deletes \cup BuildPlan.rmdirs : ~OnServer(n)
  BY DEF BuildPlan
<1>4. \A n \in Pulls : IsFile(manifest[n])
  BY DEF Pulls
<1>5. \A n \in Names : IsFile(manifest[n]) /\ n \notin Big /\ ~IsFile(scan[n]) => n \in Pulls
  BY DEF Pulls, BothFiles
<1>6. QED
  BY <1>1, <1>2, <1>3, <1>4, <1>5 DEF PlanInv, Clash, OnServer, Here

\* A step of the plan takes its path off the plan, in the plan's order.
Takes(n) ==
  \/ Fields(plan') = Fields(plan)
  \/ Fields(plan') = <<plan.obstacles \ {n}, plan.mkdirs, plan.pulls, plan.deletes, plan.rmdirs>>
  \/ /\ plan.obstacles = {}
     /\ Fields(plan') = <<plan.obstacles, plan.mkdirs \ {n}, plan.pulls, plan.deletes, plan.rmdirs>>
  \/ /\ plan.obstacles = {} /\ plan.mkdirs = {}
     /\ Fields(plan') = <<plan.obstacles, plan.mkdirs, plan.pulls \ {n}, plan.deletes, plan.rmdirs>>
  \/ /\ plan.obstacles = {} /\ plan.mkdirs = {}
     /\ Fields(plan') = <<plan.obstacles, plan.mkdirs, plan.pulls, plan.deletes \ {n}, plan.rmdirs>>
  \/ /\ plan.obstacles = {} /\ plan.mkdirs = {}
     /\ Fields(plan') = <<plan.obstacles, plan.mkdirs, plan.pulls, plan.deletes, plan.rmdirs \ {n}>>

LEMMA PlanTaken ==
  ASSUME PlanTypes, PlanInv, NEW n \in Names,
         \/ ClearObstacle(n) \/ MakeDir(n) \/ Download(n) \/ DownloadFails(n)
         \/ WriteFile(n) \/ ReadBack(n) \/ DeleteFile(n) \/ DeleteDir(n)
  PROVE  /\ Takes(n)
         /\ \A m \in Names : got'[m] # 0 => plan.obstacles = {} /\ plan.mkdirs = {}
<1>1. plan \in Plans /\ at = "execute"
  BY PlanSteps DEF PlanTypes
<1>2. CASE ClearObstacle(n)
  BY <1>1, <1>2, PlanFields DEF ClearObstacle, Takes, PlanInv
<1>3. CASE MakeDir(n)
  BY <1>1, <1>3, PlanFields DEF MakeDir, Takes, PlanInv
<1>4. CASE Download(n) \/ DownloadFails(n) \/ WriteFile(n) \/ ReadBack(n)
  <2>1. plan.obstacles = {} /\ plan.mkdirs = {}
    BY <1>1, <1>4 DEF Download, DownloadFails, WriteFile, ReadBack, Pulling, PlanInv, PlanTypes
  <2>2. plan' = plan \/ plan' = [plan EXCEPT !.pulls = @ \ {n}]
    BY <1>4 DEF Download, DownloadFails, WriteFile, ReadBack, GiveUp
  <2>3. QED
    BY <1>1, <2>1, <2>2, PlanFields DEF Takes
<1>5. CASE DeleteFile(n)
  BY <1>1, <1>5, PlanFields DEF DeleteFile, Deleting, Pulling, Takes, PlanInv
<1>6. CASE DeleteDir(n)
  BY <1>1, <1>6, PlanFields DEF DeleteDir, Deleting, Pulling, Takes, PlanInv
<1>7. QED
  BY <1>2, <1>3, <1>4, <1>5, <1>6

LEMMA PlanInvStep ==
  ASSUME MirrorInv, [Next]_vars
  PROVE  PlanInv'
<1>a. PlanInv /\ PlanTypes
  BY DEF MirrorInv, SyncInv, TypeInv
<1>1. CASE MakePlan
  BY <1>1, PlanOfMakePlan
<1>2. CASE at' # "execute"
  BY <1>2 DEF PlanInv
<1>3. CASE UNCHANGED <<at, plan, manifest, scan, got>>
  BY <1>a, <1>3 DEF PlanInv, Clash, OnServer, Here
<1>4. CASE NoCycle
  BY <1>2, <1>4 DEF NoCycle
<1>5. CASE \/ UNCHANGED vars \/ Start \/ Stop \/ StartReady \/ TimerFires \/ RunNow
           \/ \E n \in Names : RemoteChanges(n) \/ LocalChanges(n)
  <2>1. UNCHANGED <<at, plan, manifest, scan, got>> \/ at' = "preflight"
    BY <1>5 DEF vars, cycleVars, Start, Stop, StartReady, TimerFires, RunNow, CycleBegins,
                RemoteChanges, LocalChanges
  <2>2. QED
    BY <1>2, <1>3, <2>1
<1>6. CASE FetchManifest \/ ScanLocal
  BY <1>2, <1>6 DEF FetchManifest, ScanLocal
<1>7. ASSUME NEW n \in Names,
             \/ ClearObstacle(n) \/ MakeDir(n) \/ Download(n) \/ DownloadFails(n)
             \/ WriteFile(n) \/ ReadBack(n) \/ DeleteFile(n) \/ DeleteDir(n)
      PROVE  PlanInv'
  <2>1. at = "execute" /\ UNCHANGED <<manifest, scan>>
    BY <1>a, <1>7, PlanSteps
  <2>2. Takes(n) /\ \A m \in Names : got'[m] # 0 => plan.obstacles = {} /\ plan.mkdirs = {}
    BY <1>a, <1>7, PlanTaken
  <2>3. /\ plan'.obstacles \subseteq plan.obstacles /\ plan'.mkdirs \subseteq plan.mkdirs
        /\ plan'.pulls \subseteq plan.pulls /\ plan'.deletes \subseteq plan.deletes
        /\ plan'.rmdirs \subseteq plan.rmdirs
        /\ plan'.obstacles # {} => plan'.mkdirs = plan.mkdirs /\ plan'.pulls = plan.pulls
    BY <2>2 DEF Takes, Fields
  <2>4. QED
    BY <1>a, <2>1, <2>2, <2>3 DEF PlanInv, Clash, OnServer, Here
<1>8. QED
  BY <1>1, <1>4, <1>5, <1>6, <1>7, CyclesEnd DEF Next, CycleStep, UserStep, FaultStep

-----------------------------------------------------------------------------
(* Every path is done, or its turn comes.                                  *)

\* A path of the server's folder has directories of it above.
LEMMA AboveOnServer ==
  ASSUME ViewsInv, manifest \in Folders, NEW n \in Names, OnServer(n)
  PROVE  \A m \in Above[n] : IsDir(manifest[m]) /\ OnServer(m) /\ ~IsFile(manifest[m])
BY Kinds DEF ViewsInv, Tree, OnServer, IsDir, IsFile

LEMMA DoneAtMakePlan ==
  ASSUME MirrorInv, MakePlan, Clean'
  PROVE  \A n \in Names : Done(n)'
<1> USE DEF MirrorInv, SyncInv, TypeInv
<1> SUFFICES ASSUME NEW n \in Names PROVE Done(n)'
  OBVIOUS
<1>1. /\ plan' = BuildPlan /\ at = "preflight" /\ manifest # NoView /\ scan # NoView
      /\ UNCHANGED <<manifest, scan, local, remote, raced, quiet>>
  BY DEF MakePlan, ViewsThere, userVars, folderVars
<1>2. manifest = remote /\ scan = local
  BY <1>1 DEF ViewsInv, Clean
<1>3. manifest \in Folders /\ scan \in Folders
  BY <1>2 DEF FolderTypes
<1>4. ASSUME IsFile(manifest[n]), n \notin Big \cup raced, n \notin Pulls
      PROVE  IsFile(local[n]) /\ local[n].ver = manifest[n].ver
  <2>1. BothFiles(n) /\ (n \in Seeds \/ AlreadyMirrored(n))
    BY <1>4 DEF Pulls
  <2>2. IsFile(local[n])
    BY <1>2, <2>1 DEF BothFiles
  <2>3. CASE SameShape(n)
    <3>1. manifest[n].time = scan[n].time /\ manifest[n].time \in Nat
      BY <1>3, <2>3 DEF SameShape, Folders, Entries
    <3>2. Agree(remote[n], local[n], [remoteTime |-> manifest[n].time,
                                      localTime |-> manifest[n].time])
      BY <3>1 DEF CommonTimes
    <3>3. QED
      BY <1>2, <1>4, <2>2, <3>1, <3>2 DEF Agree
  <2>4. CASE SameContent(n)
    BY <1>2, <2>2, <2>4 DEF SameContent
  <2>5. CASE AlreadyMirrored(n)
    <3>1. /\ journal[n].remoteTime = manifest[n].time
          /\ journal[n].localTime = scan[n].time
      BY <2>5 DEF AlreadyMirrored, RemoteAsRecorded, LocalAsRecorded
    <3>2. Agree(remote[n], local[n], journal[n])
      BY <1>4 DEF JournalsSound
    <3>3. QED
      BY <1>2, <1>4, <2>2, <3>1, <3>2 DEF Agree
  <2>6. QED
    BY <2>1, <2>2, <2>3, <2>4, <2>5 DEF Seeds
<1>5. ASSUME IsDir(manifest[n])
      PROVE  n \in BuildPlan.mkdirs \/ IsDir(local[n])
  BY <1>2, <1>5 DEF BuildPlan
<1>6. ASSUME RemoveExtra, ~OnServer(n), local[n] # Nothing
      PROVE  n \in BuildPlan.deletes \cup BuildPlan.rmdirs
  <2>1. IsFile(scan[n]) \/ IsDir(scan[n])
    <3>1. scan[n].kind \in {"none", "dir", "file"}
      BY <1>3 DEF Folders, Entries
    <3>2. QED
      BY <1>2, <1>6, <3>1 DEF ProperInv, Proper, IsFile, IsDir
  <2>2. \A m \in Below(n) : ~OnServer(m)
    BY <1>3, <1>6, AboveOnServer DEF Below
  <2>3. QED
    BY <1>2, <1>6, <2>1, <2>2 DEF BuildPlan, Here
<1>7. Done(n)' = /\ IsFile(manifest[n]) /\ n \notin Big \cup raced => FileDone(n)'
                 /\ IsDir(manifest[n]) => DirDone(n)'
                 /\ RemoveExtra /\ ~OnServer(n) => ExtraDone(n)'
  BY <1>1 DEF Done, OnServer
<1>8. QED
  BY <1>1, <1>4, <1>5, <1>6, <1>7, PlansBuilt DEF FileDone, DirDone, ExtraDone

\* Removing what is in the way takes only what is on the plan.
LEMMA DoneAfterClear ==
  ASSUME MirrorInv, NEW o \in Names, ClearObstacle(o), Clean, Clean'
  PROVE  \A n \in Names : Done(n)'
<1> USE DEF MirrorInv, SyncInv, TypeInv
<1> SUFFICES ASSUME NEW n \in Names PROVE Done(n)'
  OBVIOUS
<1>1. /\ at = "execute" /\ o \in plan.obstacles /\ Clash(o)
      /\ manifest \in Folders /\ scan \in Folders
  BY DEF ClearObstacle, Executing, PlanInv, ViewTypes
<1>c. IsFile(manifest[o]) <=> ~IsFile(scan[o])
  BY <1>1 DEF Clash, IsFile
<1>2. UNCHANGED <<manifest, raced>> /\ local' = Drop(local, o)
  BY DEF ClearObstacle, Remove, userVars, Clean
<1>3. plan'.pulls = plan.pulls /\ plan'.mkdirs = plan.mkdirs
      /\ plan'.deletes = plan.deletes /\ plan'.rmdirs = plan.rmdirs
  <2>1. plan' = [plan EXCEPT !.obstacles = @ \ {o}]
    BY DEF ClearObstacle
  <2>2. QED
    BY <2>1, PlanFields DEF Fields, PlanTypes
<1>4. local'[n] = IF n = o \/ o \in Above[n] THEN Nothing ELSE local[n]
  BY <1>2, DropChanges DEF FolderTypes
<1>5. Done(n)
  OBVIOUS
<1>6. CASE n # o /\ o \notin Above[n]
  BY <1>2, <1>3, <1>4, <1>5, <1>6 DEF Done, FileDone, DirDone, ExtraDone, OnServer
<1>7. CASE n = o \/ o \in Above[n]
  <2>1. IsFile(manifest[n]) => ~IsFile(scan[n])
    <3>1. CASE n = o
      BY <1>c, <3>1
    <3>2. CASE o \in Above[n] /\ IsFile(manifest[n])
      <4>1. IsDir(manifest[o]) /\ ~IsFile(manifest[o])
        BY <1>1, <3>2, AboveOnServer, Kinds DEF OnServer
      <4>2. IsFile(scan[o])
        BY <1>c, <4>1
      <4>3. QED
        BY <1>1, <3>2, <4>2, Kinds DEF ViewsInv, Tree, IsFile, IsDir
    <3>3. QED
      BY <1>7, <3>1, <3>2
  <2>2. IsDir(manifest[n]) => ~IsDir(scan[n])
    <3>1. CASE n = o
      BY <1>c, <3>1 DEF IsFile, IsDir
    <3>2. CASE o \in Above[n] /\ IsDir(manifest[n])
      <4>1. IsDir(manifest[o]) /\ ~IsFile(manifest[o])
        BY <1>1, <3>2, AboveOnServer, Kinds DEF OnServer
      <4>2. IsFile(scan[o])
        BY <1>c, <4>1
      <4>3. QED
        BY <1>1, <3>2, <4>2, Kinds DEF ViewsInv, Tree, IsFile, IsDir
    <3>3. QED
      BY <1>7, <3>1, <3>2
  <2>3. /\ IsFile(manifest[n]) /\ n \notin Big => n \in plan.pulls
        /\ IsDir(manifest[n]) => n \in plan.mkdirs
    BY <1>1, <2>1, <2>2 DEF PlanInv
  <2>4. local'[n] = Nothing
    BY <1>4, <1>7
  <2>5. QED
    BY <1>2, <1>3, <2>3, <2>4 DEF Done, FileDone, DirDone, ExtraDone, OnServer
<1>8. QED
  BY <1>6, <1>7

\* Making a directory and writing a file make what is on the server, and the
\* directories above it.
LEMMA DoneAfterPut ==
  ASSUME MirrorInv, Clean, NEW w \in Names, NEW e \in Entries, OnServer(w),
         local' = Put(local, w, e), manifest' = manifest,
         IsFile(manifest[w]) => w \in plan'.pulls,
         IsDir(manifest[w]) => IsDir(e),
         raced \ {w} \subseteq raced',
         plan'.pulls = plan.pulls, plan'.mkdirs \in {plan.mkdirs, plan.mkdirs \ {w}},
         plan'.deletes = plan.deletes, plan'.rmdirs = plan.rmdirs
  PROVE  \A n \in Names : Done(n)'
<1> USE DEF MirrorInv, SyncInv, TypeInv
<1> SUFFICES ASSUME NEW n \in Names PROVE Done(n)'
  OBVIOUS
<1>1. Done(n) /\ manifest \in Folders
  BY DEF Clean, ViewTypes
<1>2. CASE n = w
  <2>1. local'[w] = e
    BY PutChanges DEF FolderTypes
  <2>2. QED
    BY <1>2, <2>1 DEF Done, FileDone, DirDone, OnServer
<1>3. CASE n # w
  <2>1. local'[n] = IF n \in Above[w] THEN Dir ELSE local[n]
    BY <1>3, PutChanges DEF FolderTypes
  <2>2. n \in plan.mkdirs => n \in plan'.mkdirs
    BY <1>3
  <2>3. n \in raced => n \in raced'
    BY <1>3
  <2>4. CASE n \notin Above[w]
    BY <1>1, <2>1, <2>2, <2>3, <2>4 DEF Done, FileDone, DirDone, ExtraDone, OnServer
  <2>5. CASE n \in Above[w]
    <3>1. IsDir(manifest[n]) /\ OnServer(n) /\ ~IsFile(manifest[n])
      BY <1>1, <2>5, AboveOnServer
    <3>2. IsDir(local'[n])
      BY <2>1, <2>5, Kinds
    <3>3. QED
      BY <3>1, <3>2 DEF Done, DirDone, OnServer
  <2>6. QED
    BY <2>4, <2>5
<1>4. QED
  BY <1>2, <1>3

\* What is deleted is not on the server, nor is anything below it.
LEMMA DoneAfterDelete ==
  ASSUME MirrorInv, Clean, NEW d \in Names, ~OnServer(d),
         local' = Drop(local, d), manifest' = manifest, raced' = raced,
         plan'.pulls = plan.pulls, plan'.mkdirs = plan.mkdirs,
         plan.deletes \cup plan.rmdirs \subseteq plan'.deletes \cup plan'.rmdirs \cup {d}
  PROVE  \A n \in Names : Done(n)'
<1> USE DEF MirrorInv, SyncInv, TypeInv
<1> SUFFICES ASSUME NEW n \in Names PROVE Done(n)'
  OBVIOUS
<1>1. Done(n) /\ manifest \in Folders
  BY DEF Clean, ViewTypes
<1>2. local'[n] = IF n = d \/ d \in Above[n] THEN Nothing ELSE local[n]
  BY DropChanges DEF FolderTypes
<1>3. CASE n = d \/ d \in Above[n]
  <2>1. ~OnServer(n)
    BY <1>1, <1>3, AboveOnServer
  <2>2. ~IsFile(manifest[n]) /\ ~IsDir(manifest[n])
    BY <2>1, Kinds DEF OnServer
  <2>3. QED
    BY <1>2, <1>3, <2>2 DEF Done, ExtraDone
<1>4. CASE n # d /\ d \notin Above[n]
  <2>1. local'[n] = local[n]
    BY <1>2, <1>4
  <2>2. ExtraDone(n) => ExtraDone(n)'
    BY <1>4, <2>1 DEF ExtraDone
  <2>3. QED
    BY <1>1, <2>1, <2>2 DEF Done, FileDone, DirDone, OnServer
<1>5. QED
  BY <1>3, <1>4

LEMMA DoneAfterPull ==
  ASSUME MirrorInv, Clean, Clean', NEW w \in Names,
         Download(w) \/ DownloadFails(w) \/ WriteFile(w) \/ ReadBack(w)
  PROVE  \A n \in Names : Done(n)'
<1> USE DEF MirrorInv, SyncInv, TypeInv
<1>1. /\ at = "execute" /\ UNCHANGED <<manifest, remote>> /\ manifest \in Folders
      /\ ~GiveUp(w)
  BY PlanSteps DEF GiveUp, Clean, ViewTypes
<1>2. CASE UNCHANGED <<local, raced, plan>>
  BY <1>1, <1>2 DEF Clean, Done, FileDone, DirDone, ExtraDone, OnServer
<1>3. CASE Download(w) \/ DownloadFails(w)
  BY <1>1, <1>2, <1>3 DEF Download, DownloadFails, folderVars, userVars
<1>4. CASE WriteFile(w)
  <2> DEFINE new == File(got[w], clock + 1)
  <2>1. /\ local' = Put(local, w, new) /\ plan' = plan /\ raced' = raced \ {w}
        /\ w \in plan.pulls
    BY <1>1, <1>4 DEF WriteFile, InFlight
  <2>2. IsFile(manifest[w]) /\ OnServer(w) /\ ~IsDir(manifest[w])
    BY <1>1, <2>1, Kinds DEF PlanInv, OnServer, IsFile, IsDir
  <2>3. new \in Entries
    BY Kinds DEF PlanTypes, FolderTypes
  <2> HIDE DEF new
  <2>4. QED
    BY <1>1, <2>1, <2>2, <2>3, DoneAfterPut
<1>5. CASE ReadBack(w)
  <2>1. /\ w \in written /\ IsFile(local[w]) /\ UNCHANGED <<local, raced>>
        /\ plan' = [plan EXCEPT !.pulls = @ \ {w}]
    BY <1>1, <1>5 DEF ReadBack, folderVars, userVars
  <2>2. /\ plan'.pulls = plan.pulls \ {w} /\ plan'.mkdirs = plan.mkdirs
        /\ plan'.deletes = plan.deletes /\ plan'.rmdirs = plan.rmdirs
    BY <2>1, PlanFields DEF Fields, PlanTypes
  <2>3. w \notin raced => local[w].ver = manifest[w].ver
    <3>1. got[w] # 0 /\ w \in plan.pulls /\ IsFile(manifest[w])
      BY <1>1, <2>1 DEF PlanTypes, PlanInv
    <3>2. remote = manifest
      BY <1>1 DEF ViewsInv, Clean
    <3>3. QED
      BY <2>1, <3>1, <3>2 DEF WrittenSound, GotSound
  <2>4. ASSUME NEW n \in Names
        PROVE  Done(n)'
    <3>1. Done(n)
      BY DEF Clean
    <3>2. CASE n = w
      BY <1>1, <2>1, <2>2, <2>3, <3>1, <3>2 DEF Done, FileDone, DirDone, ExtraDone, OnServer
    <3>3. CASE n # w
      BY <1>1, <2>1, <2>2, <3>1, <3>3 DEF Done, FileDone, DirDone, ExtraDone, OnServer
    <3>4. QED
      BY <3>2, <3>3
  <2>5. QED
    BY <2>4
<1>6. QED
  BY <1>3, <1>4, <1>5

\* A cycle does not become clean again.
LEMMA CleanBefore ==
  ASSUME MirrorInv, [Next]_vars, Clean', ~MakePlan
  PROVE  Clean
<1>a. PlanTypes
  BY DEF MirrorInv, SyncInv, TypeInv
<1> USE DEF Clean
<1>1. CASE NoCycle
  BY <1>1 DEF NoCycle
<1>2. CASE \/ UNCHANGED vars \/ FetchManifest \/ ScanLocal \/ Start \/ Stop
           \/ StartReady \/ TimerFires \/ RunNow
  <2>1. (at' = at /\ missed' = missed /\ (errors => errors')) \/ at' = "preflight"
    BY <1>2 DEF vars, cycleVars, FetchManifest, ScanLocal, Start, Stop, StartReady,
                TimerFires, RunNow, CycleBegins
  <2>2. (quiet' => quiet) \/ at' = "preflight"
    <3>1. CASE UNCHANGED vars \/ FetchManifest \/ ScanLocal \/ Start \/ Stop
      BY <3>1 DEF vars, userVars, FetchManifest, ScanLocal, Start, Stop
    <3>2. CASE StartReady \/ TimerFires \/ RunNow
      BY <3>2 DEF StartReady, TimerFires, RunNow, CycleBegins
    <3>3. QED
      BY <1>2, <3>1, <3>2
  <2>3. at' # "preflight"
    OBVIOUS
  <2>4. QED
    BY <2>1, <2>2, <2>3
<1>3. ASSUME NEW n \in Names, RemoteChanges(n) \/ LocalChanges(n)
      PROVE  Clean
  BY <1>3 DEF RemoteChanges, LocalChanges
<1>4. ASSUME NEW n \in Names,
             \/ ClearObstacle(n) \/ MakeDir(n) \/ Download(n) \/ DownloadFails(n)
             \/ WriteFile(n) \/ ReadBack(n) \/ DeleteFile(n) \/ DeleteDir(n)
      PROVE  Clean
  <2>1. at = "execute" /\ quiet' = quiet
    BY <1>a, <1>4, PlanSteps
  <2>2. missed' = missed \/ missed' = missed \cup {n}
    BY <1>4 DEF ClearObstacle, MakeDir, Download, DownloadFails, WriteFile, ReadBack,
                DeleteFile, DeleteDir, GiveUp
  <2>3. errors => errors'
    BY <1>4 DEF ClearObstacle, MakeDir, Download, DownloadFails, WriteFile, ReadBack,
                DeleteFile, DeleteDir, GiveUp, Remove
  <2>4. QED
    BY <2>1, <2>2, <2>3
<1>5. QED
  BY <1>1, <1>2, <1>3, <1>4, CyclesEnd DEF Next, CycleStep, UserStep, FaultStep

LEMMA DoneStep ==
  ASSUME MirrorInv, [Next]_vars, Clean'
  PROVE  \A n \in Names : Done(n)'
<1> USE DEF MirrorInv, SyncInv, TypeInv
<1>1. CASE MakePlan
  BY <1>1, DoneAtMakePlan
<1> SUFFICES ASSUME ~MakePlan PROVE \A n \in Names : Done(n)'
  BY <1>1
<1>2. Clean /\ at = "execute"
  BY CleanBefore DEF Clean
<1>3. CASE UNCHANGED <<manifest, local, raced, plan>>
  BY <1>2, <1>3 DEF Done, FileDone, DirDone, ExtraDone, OnServer
<1>4. CASE NoCycle
  BY <1>4 DEF NoCycle, Clean
<1>5. CASE \/ UNCHANGED vars \/ FetchManifest \/ ScanLocal \/ Start \/ Stop
           \/ StartReady \/ TimerFires \/ RunNow
  <2>1. UNCHANGED <<manifest, local, raced, plan>>
    BY <1>2, <1>5 DEF vars, folderVars, cycleVars, userVars, FetchManifest, ScanLocal, Start,
                      Stop, StartReady, TimerFires, RunNow, CycleBegins, Clean
  <2>2. QED
    BY <1>3, <2>1
<1>6. ASSUME NEW w \in Names, RemoteChanges(w) \/ LocalChanges(w)
      PROVE  \A n \in Names : Done(n)'
  BY <1>6 DEF RemoteChanges, LocalChanges, Clean
<1>7. ASSUME NEW w \in Names, MakeDir(w)
      PROVE  \A n \in Names : Done(n)'
  <2>1. /\ local' = Put(local, w, Dir) /\ UNCHANGED <<manifest, raced>> /\ w \in plan.mkdirs
        /\ plan' = [plan EXCEPT !.mkdirs = @ \ {w}]
    BY <1>7 DEF MakeDir, userVars, Clean
  <2>2. /\ plan'.mkdirs = plan.mkdirs \ {w} /\ plan'.pulls = plan.pulls
        /\ plan'.deletes = plan.deletes /\ plan'.rmdirs = plan.rmdirs
    BY <2>1, PlanFields DEF Fields, PlanTypes
  <2>3. IsDir(manifest[w]) /\ OnServer(w) /\ ~IsFile(manifest[w])
    BY <1>2, <2>1, Kinds DEF PlanInv, OnServer, IsFile, IsDir
  <2>4. QED
    BY <1>2, <2>1, <2>2, <2>3, Kinds, DoneAfterPut
<1>8. ASSUME NEW w \in Names, DeleteFile(w) \/ DeleteDir(w)
      PROVE  \A n \in Names : Done(n)'
  <2>1. /\ local' = Drop(local, w) /\ UNCHANGED <<manifest, raced>>
        /\ w \in plan.deletes \cup plan.rmdirs
        /\ plan' \in {[plan EXCEPT !.deletes = @ \ {w}], [plan EXCEPT !.rmdirs = @ \ {w}]}
    BY <1>8 DEF DeleteFile, DeleteDir, Remove, userVars, Clean
  <2>2. /\ plan'.pulls = plan.pulls /\ plan'.mkdirs = plan.mkdirs
        /\ plan.deletes \cup plan.rmdirs \subseteq plan'.deletes \cup plan'.rmdirs \cup {w}
    <3>1. plan \in Plans
      BY DEF PlanTypes
    <3>2. CASE plan' = [plan EXCEPT !.deletes = @ \ {w}]
      BY <3>1, <3>2, PlanFields DEF Fields
    <3>3. CASE plan' = [plan EXCEPT !.rmdirs = @ \ {w}]
      BY <3>1, <3>3, PlanFields DEF Fields
    <3>4. QED
      BY <2>1, <3>2, <3>3
  <2>3. ~OnServer(w)
    BY <1>2, <2>1 DEF PlanInv
  <2>4. QED
    BY <1>2, <2>1, <2>2, <2>3, DoneAfterDelete
<1>9. QED
  BY <1>2, <1>4, <1>5, <1>6, <1>7, <1>8, DoneAfterClear, DoneAfterPull, CyclesEnd
  DEF Next, CycleStep, UserStep, FaultStep

-----------------------------------------------------------------------------
LEMMA MirrorAtStart ==
  Init => MirrorInv
<1> SUFFICES ASSUME Init PROVE MirrorInv
  OBVIOUS
<1>1. SyncInv
  BY SoundAtStart
<1>2. at = "idle" /\ manifest = NoView /\ scan = NoView /\ deferred = FALSE
  BY DEF Init
<1>3. NoView \in Folders => Tree(NoView) /\ Proper(NoView)
  BY NoViewIsEmpty DEF Tree, Proper
<1>4. Proper(remote) /\ Proper(local)
  <2>1. \A n \in Names : /\ remote[n] \in {Nothing, Dir, File(1, 1)}
                         /\ local[n] \in {Nothing, Dir, File(1, 1), File(1, 2), File(2, 2)}
    BY DEF Init
  <2>2. QED
    BY <2>1, Kinds DEF Proper
<1>5. QED
  BY <1>1, <1>2, <1>3, <1>4
  DEF MirrorInv, ViewsInv, ProperInv, PlanInv, DeferredInv, Clean

LEMMA MirrorInvStep ==
  MirrorInv /\ [Next]_vars => MirrorInv'
<1> SUFFICES ASSUME MirrorInv, [Next]_vars PROVE MirrorInv'
  OBVIOUS
<1>1. SyncInv'
  BY SyncInvStep DEF MirrorInv
<1>2. FolderStep
  BY StepOfFolders DEF MirrorInv, SyncInv, TypeInv, PlanTypes
<1>3. QED
  BY <1>1, <1>2, ViewsInvStep, ProperInvStep, PlanInvStep, DeferredInvStep, DoneStep
  DEF MirrorInv

\* A cycle that reports no error, gave no download up and was left alone by the
\* users leaves a mirror of the server's folder, from any two folders and any
\* journal, for any number of paths and workers.
THEOREM CleanCyclesMirror == Spec => []CleanCycleMirrors
BY MirrorAtEnd, MirrorAtStart, MirrorInvStep, PTL DEF Spec
==============================================================================
