# Suwu in TLA+

A verification project for [Suwu](../src/README.md), a terminal workspace that
runs in the browser: a Go server (`src/pkg`, `src/cmd`) keeps shells, files,
backups and X displays; a React client (`src/frontend/src`) shows them in
tiles. The modules here model the parts in which several goroutines, tabs,
devices, timers or crashes meet, TLC checks them on small instances, and TLAPS
proves their safety properties for every instance.

## 1. Inventory

Paths are relative to `src/`. "Hard" is what makes a part worth a model.

| Component | State | Operations | Hard | Correct when |
|---|---|---|---|---|
| Session manager and WebSocket handler, `pkg/session/session.go`, `pkg/server/websocket.go`, with the PTY wrapper `pkg/pty` | key -> session map; per session the shell, the emulator, the current attachment, the TTL timer, `closed`, `done`; per attachment its frame channel, `active`, `ready` | Attach, Activate, Write/Resize/Refresh, Detach, broadcast, finish, expire, Close | read loop, poller, timer, handlers and shutdown race; bounded frame channel; work after the unlock | no double close, one writer, exact screens, no lost shell, everything closed is cleaned up |
| Backup store and handlers, `pkg/backup/backup.go`, `pkg/server/backup.go` | `meta.json`, generation files, store lock | Put (number, blob, index, prune), Delete, Meta | crash between file operations; conflict answer read outside the lock | the index names only what can be restored, no silent overwrite |
| Backup client, `frontend/src/lib/backup/client.ts` | switch, data key, last hash, last seen generation, conflict, `running` | enable, disable, tick, list, restore, overwrite, change passphrase | several devices on one slot; lost answers; reloads | settings are backed up in the end; a conflict waits for the user |
| Folder sync, `frontend/src/lib/foldersync/*`, `pkg/server/sync.go` | two folders, the journal on disk and in memory, the loop, the cycle | start, stop, run now, cycle: manifest, scan, plan, execute, journal | every step is an await; users change both sides; closed pages; stop and start during a cycle | the journal never hides a difference; the mirror converges; nothing is deleted by a half cycle |
| X display, `pkg/xdisplay/{stream,xvfb}.go` | active connection, reaper timers, Xorg processes, lock and socket file | acquire, ensure, release, reap, stop | a fired timer against a reconnect; shutdown during a start | one session per display, idle displays are reaped, no Xorg outlives the server |
| Tiling window manager, `frontend/src/wm/{layout.ts,atoms.ts,TilingWM.tsx}`, `routes/AppShell.tsx` | list of spaces with their split trees and pane data, visible space, focused tile, focus mode with its snapshot | open, split, close, drag, swap, move to a space, focus by key, add/delete/select space, enter/leave focus mode, reload | long sequences of edits on trees; every index shifts while the focus space is there; effects run after each handler | tiles unique, kept and typed, rectangles disjoint, every tile in reach, focus mode puts back what it took |
| Port forwarding, `pkg/forward` | id -> forward map, listeners, loops, UDP sessions, connection counter | Start, Stop, Remove, StopAll; accept, dial, copy | port check, listen and insert are apart; Stop is three steps while the loop runs | status, port and loop agree; what is stopped drains; the counter is exact |
| Notifications, `pkg/notify/notify.go`, `pkg/server/websocket_notify.go` | subscriptions and their channels, the socket, the handlers | Subscribe, Unsubscribe, broadcast, Close | Unsubscribe of a handler against Close of the hub | a channel is closed once and never sent to afterwards; handlers end |
| Commands and shutdown, `cmd/Suwu/main.go` | the command under way, how far `run()` is | forward-start, forward-stop; the order of the closes | requests are served during the shutdown | nothing panics, what is closed comes to an end |
| Browser terminal hook, `frontend/src/components/hooks/usePtySession.ts` | socket, reconnect timer, replay state | connect, reconnect, hand over | reconnects of two tabs with one key | client side of the session protocol |
| Static server, `pkg/staticserve` | id -> directory map | Create, Pause, Remove, CloseAll | in-flight requests | no request on a closed root |
| Bundle installer, `pkg/maxbundle` | binary, `.prev`, stamp | Ensure | a crash between the steps | the previous binary survives |
| Auth, HTTP server, extensions, git, SFTP, databases, install and update, assets, user interface | request-local or static | - | little | tested as functions |

The parts interact in three ways. The browser reaches the server by HTTP and
WebSockets: each connection is a goroutine that calls into a manager, and a
manager's mutex makes its critical sections atomic. Managers start goroutines
of their own (read loops, pollers, timers) that take the same mutex later. On
shutdown `cmd/Suwu/main.go` stops the displays, closes the WebSockets and then
closes the managers one after the other, while the listeners still accept.

`PROJECT.json` lists the hazards of this code at their lines, with the
properties that cover them, and the components that are not modelled.

## 2. Modules

| Module | Models |
|---|---|
| `PtySession` | manager, session goroutines, WebSocket handler of one attachment |
| `PtySessionProps` | its properties, and the mapping to `ScreenStream` |
| `ScreenStream` | abstract: what a browser is promised about a shell's screen |
| `PtySessionProofs`, `PtySessionStreams` | proofs: structure and safety; frames and refinement |
| `BackupStore` | one slot: index, generation files, the critical section under `Store.mu` |
| `BackupDevices` (extends it) | devices, network, HTTP handlers |
| `BackupProps`, `BackupProofs` | properties of the composition, and their proofs |
| `FolderSync` | one engine, both folders and their users |
| `FolderSyncProofs` | proofs: types and the journal; the mirror |
| `XDisplay` | one display: streams, reapers, Xorgs, shutdown |
| `XDisplayProofs` | proofs: mutual exclusion; types; who owns an Xorg |
| `Layout` | `layout.ts`: the split tree of a space, as the sequence of its leaves, and its geometry, as operators |
| `TilingWM` (extends it), `TilingWMProps` | the window manager and its properties |
| `TilingWMProofs` | proofs: the layouts stay trees, the list of spaces and the focus stay sound; what a step may not do |
| `TilingGeometryProofs` (extends it) | proofs: tiles do not overlap; the focus keys reach every tile |
| `Forwarding`, `NotifyHub` | the forward manager; the notification hub and its WebSockets |
| `Services` (extends both) | the server around them: commands and shutdown |
| `ServicesProps`, `ServicesProofs` | properties of the composition, and their proofs |
| `MC*` | the small instances |

### PtySession

`Manager.mu` makes each critical section one action. `Reattach`, `AttachNew`
and `StartFails` are the three ways through `Attach`; `Broadcast` is one turn
of `readLoop` and `broadcast`; `Finish`, `Expire` and `CloseBegins` are the
three ways to close a session. What a goroutine does after its unlock is
remembered in `task` and done by `ExpireKill`, `ReleaseVT`, `CloseKill`,
`CloseRelease`. `TimerFires` is apart from `Expire`, so the goroutine of a
fired timer waits for the lock while `Attach` calls `Stop` too late. The
handler goes from the handshake (`SendPrefix`) to serving (`Activate`, `Drive`,
`Deliver`, `StreamEnds`) and ends with `HandlerExit`, the deferred `Detach`.
Output is numbered chunks, the emulator's screen the number of chunks fed to
it, a frame its number. `panicked` is set where Go would panic.

`ScreenStream` says: a viewer starts from a replay of all that was printed and
is then shown every chunk in order. `PtySession` implements it with
`printed <- fed, shown <- seen, watching <- of`.

### BackupStore and BackupDevices

`Put` is four kinds of steps (blob, index, unlinks, return), `Delete` removes
files in any order; `Abandon` ends either anywhere, for a crash as for a
failing write. A device runs ticks, waits for answers and lists generations;
an upload stays in `net` until the server has answered it, and an answer may
be lost after its upload was stored. `BaseIsWhatWasSeen` compares stamps of
uploads, so two generations with one number are told apart.

### FolderSync

A cycle is a chain of awaits, and the users, the buttons, the timers and a
closed page come between any two steps. A folder is a function from paths to
entries; a file is its contents and its modification time. All files have one
size, the case in which a change is hardest to see. `BuildPlan` is `diff.ts`;
the order of the plan (obstacles, directories, downloads by
`PullConcurrency` workers, deletions) is in the guards. Two loops can exist
after Stop and Start during a cycle: `sleepers` counts them, and `own` says
that the cycle's journal is no longer the engine's.

### XDisplay

One display with its map entries, files and processes. A stream's handler is
the sequence acquire, probe, launch, store, wait, open, stream, release; a
reaper's goroutine is take, kill, remove files, forget. `StopDisplay` and
`Exit` are the shutdown; requests are admitted until the process exits.

### Layout, TilingWM

`Layout` has the functions of `layout.ts` as operators on layouts. The code keeps
a layout as a tree of splits. It never makes a split of more or less than two
children (a new split has two; one that loses a child collapses), so the model
keeps the tree as the sequence of its leaves in rendering order, each with its
id, its type and its path: the direction and half taken at every split on the
way from the root. A split shares its span equally: the size weights
(`layout.ts:506-511`) that a dragged divider sets (`TilingWM.tsx:1223-1267`) are
left out. They change no tree, focus or space, but they do change rectangles, so
`TilingDisjoint` and `KeysReachEveryTile` hold for equal shares only.
Splitting a leaf appends a step to its path and puts the new leaf beside it;
closing one drops the step of the split that collapses from the paths below it.
That the paths always are those of a tree (`Tree`: two leaves part at a split,
in rendering order, and no split has an empty half) is then something to
check, not something the data type gives for free. Rectangles are computed in
pixels with the gutter of the code, as the rounding decides which tile is a
neighbour; `Rects` has all of them on the way to a leaf, as a recursive function
(the provers cannot use a RECURSIVE operator or open a fold).

`TilingWM` has one action per event handler, and every action ends
in `Settle`: the effects of `TilingWM.tsx` that follow the change (cleaning of
pane data, repair of the focus, the end of focus mode when the visible space
changes), run until nothing changes. Of a pane's data only the stored font is
kept. A drag is its last step for a tile that may be gone by then.

### Forwarding, NotifyHub and Services

A forward is one request to start; `Check`, `Listen` and `Insert` are the three
parts of `Manager.Start`, `Cancel`, `CloseListener` and `MarkStopped` those of
`Forward.Stop`, which any number of calls may be making together. `lock` is
held across steps by Remove and StopAll only. A flow is a TCP connection or a
UDP datagram with its client. In the hub a channel is the number of its
messages and whether it is closed. `Services` puts both side by side
(`Part`), lets a command of the suwu program go through both, and takes them
down in the order of `main.go`.

## 3. Runs

| Run | Instance | States | Result |
|---|---|---|---|
| `session_safety` | one shell, three tabs, channel of 1, two chunks | 615 286 | seven properties hold |
| `session_lifecycle` | one key, two shells, two tabs, no output | 66 517 | `LiveSessionsMapped`, three liveness properties hold |
| `session_unattended` | one shell, two tabs | - | **violated**: `UnattendedEnds` |
| `backup_safety` | two devices, two generations of three bytes, two user actions, one fault, four uploads | 1 325 058 | six properties hold |
| `backup_liveness` | the same with one user action, any number of uploads | 116 488 | `ChangesAreBackedUp` holds |
| `backup_conflict` | no faults | - | **violated**: `ConflictWaitsForUser` |
| `sync_mirror` | a directory and a file in it, four user actions of which two are changes, one fault | 515 835 | four properties hold |
| `sync_abort` | three paths, one of them too large on the server | - | **violated**: `DeletionsNeedDownloads` |
| `display_sessions` | two connections, three sessions, one dying Xorg | 167 307 | four properties hold |
| `wm_layout` | three tiles of one type, two spaces | 60 051 | nine properties hold |
| `services` | two forwards, a TCP and a UDP port of one number, one client, one WebSocket | 167 534 | five properties hold |
| `services_stop` | two forwards on one port | - | **violated**: `StopTakesTheRunningOne` |

### What the violations show

1. `session.go:323`. `broadcast` revokes a client whose channel is full and
   starts no TTL; the later `Detach` returns early, as that client is no longer
   the session's. A shell whose slow tab never comes back lives for ever,
   against the comment on `DefaultTTL` (`session.go:28`).
2. `client.ts:333`. On a 409 the tick adopts the server's generation as its
   base and leaves the timer on: the next tick overwrites the other device
   without the user, against `client.ts:466`.
3. `engine.ts:472`. A worker that meets Stop returns without an error, so
   deletions run although downloads were given up, against `engine.ts:483`.
4. `main.go:1145`. `suwu forward --stop` takes the first forward on the port
   out of a map in random order, stopped ones included: it may report success
   and leave the running one, against the help text at `main.go:358`.

### Where comments promise more than the code keeps

Three comments are contradicted by the code in a case that a passing run
reaches. The property of that run says exactly what does hold, with the case
named in it, so the disagreement is part of the statement.

5. `backup.go:285-287` says that a crash between the index write and the removal
   of pruned files "leaves an unreferenced file that a later write reclaims".
   None does: a `Put` removes only what it dropped from the index itself, numbers
   below the newest are never used again, and a failing removal leaves its file
   in the same way. The comment is true only of a file *above* the index (a crash
   between blob and index), which the next upload writes over.
   `GarbageIsFromFaults` states both: faults alone leave such files, at most one
   pruning's worth each, and a pruned file that is left stays, unchanged, until
   the slot is wiped. Trace: an upload prunes the oldest generation and the
   process ends right after the index write; whatever is uploaded later, the file
   of that generation is still there.
6. `main.go:744` ("kill Xorg first — don't orphan it") and `xvfb.go:340-342`
   ("don't outlive their owner"). `StopDisplay` comes before connections and
   listeners are closed, and it knows only what is in `displayCmds`. Trace: a
   stream's handler has launched Xorg and waits for the lock; `StopDisplay` takes
   the map and finds nothing; the handler stores its Xorg; the process exits.
   Nobody reads the map again, and the Xorg lives on. A handler that launches
   after `StopDisplay` does the same. `ReachableIsOwned` therefore promises an
   owner (the map that a reaper or `StopDisplay` will read, or a goroutine at it)
   only until `StopDisplay`, and of `StopDisplay` that it spares nothing but what
   is in flight.
7. `atoms.ts:118-121` says that the active index is "clamped to valid range
   whenever spacesAtom changes". Nothing clamps it. Trace: focus mode takes the
   tile of the only space and puts a placeholder there, a reload forgets the mode
   but keeps the focus space, and the header moves the tile to the other space:
   its indices are those of the whole list, `AppShell.tsx:236-241` adds one for
   the focus space all the same, and the third of two spaces is the active one. `IndexStaysInList` states that no other step leads out of the list,
   and excepts that one by name (`HeaderCountsTwice`).

### What else came up

Behaviour that a reader of the code may not expect, met while modelling. We know
of no comment or document that speaks to these cases; they are part of the
models or an exception of a property, and no run is kept for them.

- Backups: an upload under way when backup is disabled with a wipe makes the
  slot again (`client.ts:248`).
- Displays: a reaper that removes the files of a newer Xorg (`xvfb.go:368`) makes
  it unreachable; when the next stream replaces its entry in `displayCmds`
  nobody kills it any more. `ReachableIsOwned` is about reachable ones.
- Sessions: an Attach during or after Close starts a shell that Close does not
  kill (`session.go:226`).
- Forwards: `Start` calls that are between opening their port and the map are
  missed by StopAll; a datagram on its way when the read loop ends makes a
  UDP session that nobody closes; `Forward.Status` is written without the lock
  its readers hold; the command accepts target ports below 1024 that
  `Manager.Start` refuses (`main.go:1091`).
- Notifications: a WebSocket that subscribes after Close gets a channel that
  nobody closes (`notify.go:207`).
- Window manager: a tile opened in focus mode goes with the focus space
  (`TilingWM.tsx:883`); entering focus mode drops the stored font; the header's
  move shifts its indices twice (`AppShell.tsx:236`); deleting a space in focus
  mode puts the snapshot into another space; a focus space left by a reload is
  reused with an index one too far, so entering focus mode again can show a
  tile twice; a close asked for by a tile of a hidden space leaves it there.
- Folder sync: a file changed between its write and the read-back of its time
  is taken for synchronised (`localFs.ts:119`).

### Bounds, and why they are enough

- Sessions: three attachments are needed for "old, new, newer" on one shell;
  a channel of one overflows at the second chunk, so two chunks reach every
  way a channel can be (empty, full, revoked with a frame in it, with the exit
  notice). The lifecycle run gives one key a second shell and no output, which
  its properties do not mention. `MCInOrder` lets names be used in one order
  only; it leaves out renamings of behaviours that are kept.
- Backups: two devices make every conflict; with two generations kept the
  third upload prunes by number, and as the larger two of every three uploads do
  not fit together, pruning by bytes happens from the second on. One upload
  always fits, as in the code, where it is cut off at 16 MiB and a slot holds 64:
  the "keep the newest" condition of `prune` is never what decides. The safety run
  follows a behaviour up to four uploads (`MCFewUploads`; a state with a fifth is
  still checked); the liveness run has no such limit. Uploads are bounded by
  the users' moves and the faults, as an unchanged device does not upload.
- Folder sync: a directory and a file in it have all kinds of clashes; `Init`
  has every pair of folders over them, with copies that keep or lose their
  time. (A copy is made of a file the server has: where it has none, any file of
  the same name is the same to the engine.) Four moves are a Start and three
  others, of which at most two are changes: a change during a cycle and another
  during the next, with or without a Stop between them, or Stop, Start and a
  change. The abort run needs a
  third path: something to download and something to delete, with a directory;
  there one file is beyond the size limit.
- Displays: three sessions let two reapers overlap and meet a third session.
  With a fourth (4 068 334 states, safety only, run by hand) nothing changes.
- Window manager: three tiles make every shape in which a close, a drag or a
  neighbour test has a choice; two spaces and the focus space are all that a
  move between spaces, a wrong index or a restored snapshot can mix up. An id
  that nothing refers to any more stands for a fresh one, so the ids in `Pane`
  bound the tiles at a time and not the length of a behaviour, and tiles are
  symmetric. `MaxSpaces` bounds `AddSpace`. A behaviour is not followed beyond
  a state that shows a tile twice, which only focus mode can reach.
- Services: `MaxBusy` bounds the forwards, connections and WebSockets that are
  busy together: two are enough for a stop against a start on one port, and
  for an Unsubscribe against Close. With three (2 159 310 states, safety only,
  run by hand) nothing changes. A channel of one overflows at the second
  message.

Counters of moves, changes, faults, visits and crashes, `MaxSpaces` and `MaxBusy`
are the only bounds in guards; each is a constant with the comment "bound".
`MCInOrder` and `MCFewUploads` are the only constraints. `CHECK_DEADLOCK FALSE` is
used because the bounds, a shutdown or a closed tab end the behaviours.

### Fairness

Only the program's own progress is assumed, never that of users, browsers,
networks, shells or Xorg. Sessions: timers fire, their goroutines get the
lock, the read loop meets the end of a dead PTY, the poller sees `done`, and
whoever closed a session goes on. Backups: the event loop runs ticks and
answers, the lock's holder goes on, and a handler waiting for the lock gets it
(strong fairness; Go's mutex hands over to a starved waiter after 1 ms).
Folder sync: the event loop runs what is ready and timers fire. Displays:
handlers run, `waitReady` ends after five seconds, timers fire. Services: the
moves of a Stop, a dial, a write, the loop of a cancelled forward and the
copying of its connections come to an end (dials and reads have deadlines, and
cancelling closes what they wait on), and so does the Close of the hub. The
listeners, and a watchdog after five seconds, end the process only after that.
The window manager has no liveness property: nothing in it waits.

## 4. Proofs

All are checked by TLAPS for every value of the constants, from the named
assumptions in the modules that declare them:

- `PtyAssumption`: `None` is not a key, session or client; a channel holds at
  least one frame.
- `BackupAssumption`, `DevicesAssumption`: limits and sizes are natural numbers,
  a slot keeps at least one generation, the faults are among those the model
  knows. `BackupTypeCorrect` also assumes that every upload has a size (`Size`
  is an operator the instances give a definition to).
- `SyncAssumption`: "above" is a strict order of paths; there is at least one
  worker and at least one failure stops the loop.
- `XDisplayAssumption`: `None` is not a connection.
- `ViewAssumption`: the viewport has been measured (`computeTiling` returns
  nothing before).
- `BoundsAssumption`, `TypesAssumption`: there are tile ids, `NoPane` is none of
  them, a positive number of spaces is allowed; "term" is a tile type, "none"
  stands for no type.
- `ForwardingAssumption`, `HubAssumption`: finitely many connections, `NoFwd`
  is not a forward, the UDP ports are ports; a channel holds at least one
  message.

**Sessions.** `PtySessionProofs!Invariance` proves `Inv`, the inductive
invariant. `NoPanic` alone is not inductive. It follows from `CloseOnce`
(`done` is closed exactly when the session is, so the `closed` test protects
it) and `Linked` (an attachment is active exactly while it is its session's
client and its channel is open, so revoking cannot close twice). `MapExact`
ties the map to the open sessions, and `UnstartedBlank` and `NewBlank` say that
values not used yet are untouched, which `AttachNew` and `Register` need.
`NeverPanics`, `LiveSessionsAreMapped`, `NeverUsedAfterRelease` follow.
`PtySessionStreams!OnlyNewestWrites` uses `Newest`: a session's client has the
highest number among its attachments, as `lastId` only grows. `NothingMissed`
and `NothingReordered` come from `Streams`, which strengthens the two
properties with `FramesFed`: frames are bounded by what the emulator was fed.
`ImplementsScreenStream` is the refinement, step by step; a broadcast is an
`Emit`, an attach a `Join`, a delivery a `Show` or, for the exit notice, a
stutter.

**Backups.** `BackupProofs` shows with `StepOfStore` that every step of the
composition is a step of the store or leaves it alone. `BackupInv` says that
the numbers in the index increase, that the critical section holds what it will
write (`JobSound`), that the acknowledged generation is not above the index,
and that every number in the index has its file (`Restorable`). What pruning
does is described by two lemmas (the least number that fits; the newest is
kept), which do not depend on what the sum of sizes in it is. `BackupsAreRestorable` and
`AcknowledgedBackupsSurvive` follow; `GenerationsOnlyGrow` is an action
property. `UploadsBuildOnWhatWasSeen` adds `SightInv`: what a device has seen,
or an upload carries, was in the slot under that number.
`GarbageComesFromFaults` counts: `GarbageInv` allows for each fault one
pruning's worth of files that neither the index names nor the `Put` under way
is going to unlink; what is in hand when a fault strikes joins them. That those of
pruned generations stay is a fact of single steps (`LeftoverStays`): new files
are above the index, and an unlink is of a file in hand.

**Folder sync.** `FolderSyncProofs!SkippedFilesAreMirrored` rests on one fact
about stamps: a record speaks of a pair of times, no time is used twice, so
what is true of a pair stays true (`AgreeStays`). `SyncInv` says that the
records of all three journals, the seeds of the plan and the downloads that are
not written yet agree with the folders in that sense, and that a written file
holds its download until a user changes it (`raced`).
`CleanCyclesMirror` follows the plan: while the users
leave the folders alone the views are the folders, and every path is as on the
server or still on the plan (`Done`). Its hard case is the removal of an
obstacle, which takes a subtree with it: all that is on the server there is
still on the plan, as the plan's order and the two trees imply.

**Displays.** `XDisplayProofs!DisplayHasOneSession`: `OneSession` is inductive
once `at` is known to be a function; it does not depend on what reapers do.
`TypeOK` and `ReachableIsOwned` come from `XorgInv`: an
Xorg that is starting has a handler that waits for it, and when that handler
replaces the map's entry there is no other Xorg that answers. Until
`StopDisplay` that makes every reachable Xorg one of the map or in flight, and
`StopDisplay` kills the one in the map; `ReachableXorgIsOwned` says no more than
that, as nobody is left to own what comes later.

**Services.** `ServicesProofs` splits a step of the server into a step of the
forwards and one of the hub (`StepOfParts`), so that each has its invariant.
`FwdInv` ties status, loop, listener and counter of a forward together;
`HubInv` says that the channels of the subscriptions are the open ones.
`ServicesTypeCorrect`, `StatusStaysTrue` and `SubscribersStayOpen` follow.

**Window manager.** `TilingWMProofs` goes from the leaves up.
1. Lemmas about `Layout`: what `CloseAt`, `SplitAt`, `SwapLeaves`,
   `MoveLeafAdjacent`, `SetLeafType` and `Adopt` do to the tiles of a layout
   (`Loses`, `Gains`, `Same`), and that each makes a tree of a tree
   (`ClosedIsTree`, `ForkIsSound`). The hard one is a close: the paths below
   the sibling lose the step of the split that collapses, and must still part
   where they parted, with nothing left beside an empty half.
2. A handler may leave a state that the invariant does not allow: the focused
   tile may be gone, and focus mode may be on although another space is the
   visible one. `Ready` is what every handler guarantees; `Settling` shows that
   the effects make a state that satisfies `WMInv` of every ready one, in at
   most two passes. `WMInv` is the conjunction of `TypeOK`, `SpaceListSound`,
   `FocusedIsVisible` and `IndexInRange` (without a focus space the active index
   is in the list); it is inductive as it stands.
3. `Handles` adds, for a step outside focus mode, that tiles, types and fonts
   follow from the old list of spaces to the new one. Most handlers are given
   by a map from new spaces to old ones and the set of new tiles
   (`FromFollows`); a move between spaces and the start of focus mode, which
   put one tile elsewhere, are argued tile by tile. One lemma per action says
   that it `Handles`, and `EveryStep` puts them together.
4. `WMTypeCorrect`, `SpacesStaySound` and `FocusStaysVisible` follow from the
   invariant, `TilesAreKept`, `FontsAreKept` and `FocusModeRestores` from
   `EveryStep` and what the effects do (`Settled`, `Leaving`), and `IndexStays`
   from `IndexSettles`: every handler but that one leaves the index in the list
   or focus mode on, and the effects keep the index or, ending focus mode, put it
   back into the list.
   `HalvesStayApart` is what `computeTiling` does at one split.

`TilingGeometryProofs` is about the rectangles, which a tree of any depth has to
be walked for. The induction principles of the library take a predicate as an
operator, which no prover here can instantiate; with the predicate as a set the
same principle follows from the well-foundedness of the naturals
(`LeastNatural`, `SetInduction`), and so do induction from the leaves of a tree
to its root (`NodeInduction`) and that the recursive definition of `Rects` defines
a function (`RectsDefined`).
1. `HalfIs` says along either axis what a split does to a rectangle. By induction
   on the depth, what is below a node lies within it (`RectsNest`), what is below
   its first half ends a gutter before what is below its second
   (`HalvesPrecede`), and two leaves part at a split as the layouts are trees:
   `TilesNeverOverlap`. It holds in viewports that are too small for their tiles,
   too, where rectangles get a negative width.
2. Of the leaves below a node one is in each corner (`CornerLeaf`,
   `CornerRect`). `Crossing` looks from the corner of one half that touches the
   gutter: the tile across is a gutter away, so what `findNeighborRect` chooses is
   no farther (`Chosen`), and all that is not in the other half is behind,
   farther, or not in sight. So a part of the tiles that is closed under the
   keys has with one tile of a half that half, then the other half, then the node
   (`RoomyTreesAreReachable`).
3. The step needs tiles of at least two pixels: `findNeighborRect` tolerates an
   overlap of one, so a thinner tile may not be seen. `KeysReachWhereThereIsRoom`
   states it so, for every state in which the visible tiles have that much
   (`Roomy`). `KeysAlwaysReachEveryTile` asks the viewport instead: a leaf is no
   deeper than there are other tiles (`ShallowTrees`, by the pigeonhole
   principle), a viewport that can be halved that often (`Affords`) leaves every
   tile enough (`RoomLasts`), and then `KeysReachEveryTile` holds as the run checks
   it. For `k` tiles that is 10 * 2^(k-1) - 8 pixels: 32 for the three of
   the run, 1272 for eight tiles that are all nested.

Only model-checked: all liveness, which is out of the prover's reach, and the
disagreements, which are about one behaviour each.

## 5. What is not modelled

- Sessions: `SetTTL`, `State` and the polled `/proc` state, the grid size, the
  contents of the screen. A PTY write never blocks in the model; in the code it
  is made under the manager's lock (see the hazard at `session.go:167`).
- Backups: encryption, the container header, collecting and merging of
  settings, the rate limit. A crash is one of the process, not of the power:
  renames and writes that returned are kept. Collecting, hashing, encrypting
  and sending an upload are one step. The passphrase check of a rekey is not
  modelled.
- Folder sync: truncated manifests, permission prompts, a journal of another
  folder, unreadable entries that `sync.go` skips, and two engines on one
  folder. The probes of a plan read their files in one step. A file a user
  changes between its write and the read-back of its time is excepted from the
  properties (`raced`): the browser's API has no atomic write-and-stat.
- Displays: picom is killed with Xorg; `probeDisplay` is one step; resize,
  pause, capture and input keep no state beyond their session.
- Window manager: the sizes of splits and the dragging of dividers, the files
  and parameters of a tile, what plugins keep in `localStorage`, the debounced
  write of the session state (`TilingWM.tsx:554-596`; a reload reads what the
  last handler left).
- Services: the bytes that are copied, HTTP handlers that keep no state, flags,
  listeners and certificates; the closing of databases, SFTP sessions and static
  shares, which `main.go` does in the same sequence.
- The components in the lower part of the inventory. The user interface, the
  extension host, files, git, SFTP, databases, installation and the assets are
  most of the repository's lines. They are rendering, or handlers that answer
  one request from one request's data: there is no order of events in them that
  a model would explore and a unit test would not.

## 6. Plan

Done: sessions with their refinement, backups with devices, folder sync,
displays, the window manager, forwards and notifications under the shutdown;
proofs of every safety property that the runs check of these.

Next, in this order:

1. PTY back-pressure in `PtySession` (`session.go:167`): a write that blocks
   under `Manager.mu` against a read loop that waits for it.
2. An incomplete manifest in `FolderSync` (`sync.go:98`), and a second engine
   on the same folder (`engine.ts:549`); the proofs take the views from the
   folders in one place (`ViewsInv`).
3. The data key in `BackupDevices` (`client.ts:438`): adoption of the slot's
   key when the listing fails.
4. The installer's crash points (`maxbundle.go:178`), the browser terminal
   hook as the client side of `PtySession`, the static server.
