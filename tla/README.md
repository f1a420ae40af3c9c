# Verification of `analyzed`

`analyzed` runs many rust-analyzer sessions in one daemon. The sessions share
worlds: databases with loaded crates, one per toolchain and Cargo
configuration. What is worth verifying is the sharing. One session's sync,
commit, unsaved edit, registration or death must not disturb another's, and the
machinery that arranges this (a lock with owners, shared loads, reference
counts, a stop-the-world collector, overlays over shared inputs, a daemon that
clients start on demand) must not lose a count, a wakeup, a daemon or a
session's text.

`SA` stands for `crates/analyzed-ra/src/shared_analyzer.rs`.

## Inventory

| Component | State | Operations | Talks to | Hard part | Module |
|---|---|---|---|---|---|
| Access lock of a world (`SharedWorldAccess`, SA 229-337) | counts of readers by session and of pending writers by owner; a condition variable | `read`, `write`, drop of a permit | every snapshot, sync, commit and drop of a runtime; the collector has one of its own | ownership (a session is not in its own way), starvation of writers, wakeups | `WorldAccess` |
| Loads in flight (SA 458-531, 646-722) | registry entry per workspace, result cell, guard of the leader | lead, join, commit, publish, unwind, wait | registry, world | leaders that fail or panic, late joiners, poisoned mutexes | `WorkspaceLoad` |
| Registry (SA 339-644) | world and view entries with counts | `register`, `retain_world`, `release_world`, `unregister`, `backend_snapshots` | loads, collector, status requests | operations made of several critical sections, panics between and in them | `Registry` |
| Collector (SA 724-823) | registered and busy sessions, `dirty`, `collecting` | register, busy, change, request, collect | takes the registry and all worlds | decision and action apart; two locks held at once | `Registry`, `Snapshots` |
| Snapshots and caches (SA 1364-1421, 1681-1776) | generation, visible files, file mappings | `analysis`, cache refresh | both permits, the mutex, the registry | order of the locks, caches against the database | `Snapshots` |
| Overlays (SA 1967-2040, 2294-3330) | per runtime: direct edits, overlay copies, structural copies, crates; base inputs | `sync_session_overlay`, `recone_session_overlays`, `unregister_session` | sessions, reloads | who owns a base input, what is stale after a reload | `Overlay` (texts), `WorldInputs` (files and crates) |
| Session turn (`session.rs`, `reload.rs`) | open buffers, last open set, pending cone, current runtime | `process_shared_changes`, `attach_pending_shared_cone`, `fetch_workspaces` | overlays, registry | several critical sections per turn; two runtimes at a time | `Overlay` |
| World inputs (SA 1623-1705, 2187-2460, 3202-3330) | file ids, source roots, crate graph | load, reload, remap, apply | overlays | exhaustion of ids, indices that move | `WorldInputs` |
| Visibility (`visible_crate_roots_for_session`, `search_scope.rs`) | none; read off the world | filters of a query | world inputs | copies in place of the crates they copy | `WorldInputs` |
| Daemon and IPC, start and stop (`analyzed-daemon`, `analyzed-ipc`) | startup lock, socket or pipe, processes | `ensure_daemon`, `run_foreground`, `bind_listener`, hello, stop | processes | races of starters, stale sockets, deaths | `Startup` |
| Daemon and proxy, one session (`analyzed-daemon`, `analyzed/src/main.rs`, `analyzed-ra/src/lib.rs`) | connection, two threads at each end, channels, `exit_seen`, `client_sessions` | copy, accept, read, write, join | the session's loop | cut and failed reads, half-closed streams, exit codes | `LspStream` |
| Bridge, build scripts, xtask, bench | none at run time, or not part of the system | | | | not modelled |

What makes each one correct is stated as the properties of its module;
`PROJECT.json` lists the hazards line by line and the properties that watch
them.

## Modules

| Module | Correspondence |
|---|---|
| `SessionLock` | The promise of the access lock: `held[t]` is the permit of a thread; two permits coexist if they are of one kind or of one session. |
| `WorldAccess` | `readers`, `pendingWriters` are the two maps; an action is a critical section of the mutex up to the wait; `parked`/`woken` is the condition variable, spurious wakeups included. |
| `WorkspaceLoad` | `pc` is the place of a thread between critical sections; `loads` the registry entry, `result` the cell, `load` the reference a thread has; `unwind` and `fail` are the destructor of the guard; `poisoned` is the world's mutex, `broken` the registry's. |
| `Registry`, `MCRegistry` | One action per critical section of the registry's, the collector's or a world's mutex; `sweep = "lock"` is the collector with the registry's mutex; `worldLock` the mutexes of the worlds. A registration is a runtime: a session has that of its start to its end (`session.rs` 88), and those of its reloads (`reload.rs` 92). `poisoned` and `broken` are the poisoned mutexes, `unwinding` the threads that drop a runtime in a panic, the places `unwound` and `lost` those a panic has ended before their counts were given back. |
| `Snapshots` | The locks of `analysis()`, of the three writers and of a collection, one step per lock; a snapshot carries the version of what it may see and of what its database holds. `NoClones` is what salsa waits for before an input changes. |
| `Overlay`, `MCOverlay` | `base`, `direct`, `copy`, `modified`, `coned` are the world's; `input` is what has been sent to the database for the copies; `pc`, `files`, `attach` carry a session's turn from one critical section to the next. A text is named by the session that typed it, or `Original`. |
| `WorldInputs` | `next` is the id counter, `loaded` and `overlay` the workspaces and the copies, `db` what the database was told: list of source roots, root of each file, crate graph. One action per call that has the world locked. |
| `Startup` | One action per system call of a process and what it decides on its result. `platform` chooses unix sockets or named pipes. Processes are killed at any point; `excuses` records what two daemons may come of. |
| `LspStream` | The proxy's two copying threads, the connection, the daemon's handler, its reader and writer threads and the session's loop. A message is a fragment. The proxy looks for bytes and the session parses JSON: an `exit` in the bytes looked for is two fragments, since a read may cut it, one spelled otherwise is `spaced`, one inside another message `quoted`. |
| `WorldAccess_proofs`, `WorkspaceLoad_proofs`, `Registry_proofs`, `Snapshots_proofs`, `Overlay_proofs`, `WorldInputs_proofs`, `Startup_proofs`, `LspStream_proofs` | Theorems, see below. |

How they fit. `SessionLock` and `WorldAccess` are joined by
`INSTANCE ... WITH held <- Held`. `Snapshots` uses two of these locks, the
world's and the collector's, together with the mutexes behind them; it reads
the permits off from where the threads are, by the guards that `WorldAccess`
has and that its exclusion theorem is about. `WorkspaceLoad` is the detail of
the steps `Load`/`Commit` of `Registry`. `Reload` in `Overlay` is what a commit
does to the texts, `Reload` in `WorldInputs` what it does to the files and
crates. A session of `LspStream` begins where a client of `Startup` has got to
`session`. A composition of all of it in one module would have more states than
can be explored and no property that is not one of a part.

A module also has mutants: a definition with a slip the code could have, placed
before the definition it replaces. Each property is broken by one of them,
which `PROJECT.json` names.

## Runs

| Run | Instance | Shows |
|---|---|---|
| `world_access` | 4 threads, 2 sessions and the owner `None` | counts are exact; no lost wakeup; every write is granted; refinement of `SessionLock`, where writers exclude the readers of other sessions |
| `workspace_load` | 3 callers, 1 workspace, 2 versions of the disk | one leader per entry, none inherited, none orphaned as long as the registry can be locked; the world never goes back to an older disk; only a reload replaces a workspace; every call returns |
| `registry` | 3 registrations, 2 keys, 4 worlds, 1 panic, both collector modes | all counts exact, and nothing left behind but by a panic; a world in use stays registered; one collector, which loses no request |
| `snapshots` | 2 sessions (one with two snapshots at a time), 1 loading thread, 1 commit, 1 edit each, both collector modes | a query's files, mappings and database are of one state; a change cancels no other session's queries; a collection is alone; no order of the locks closes a cycle |
| `overlay` | 2 sessions, 2 runtimes, a file and the crate root; both sessions open, edit and close the file, one of them the root too | one owner per directly edited input; inputs equal to copies; a session sees its buffers; edits are private; a session whose edits have no crate knows that the cone is to be attached; the last three up to the exceptions below |
| `world_inputs` | 2 workspaces of 1 or 2 packages, 2 sessions, 5 file ids | no id is used twice or past the last one; every file is in its source root and every visible crate in the graph; copies are linked within their session; a search stays in what its session has in view; each up to the exceptions below |
| `startup` | 2 clients, 2 daemons, unix and windows | no live daemon loses its socket; a client gives up on its child only when there is nobody else; every start returns |
| `lsp_stream` | 1 session, 3 fragments | nothing lost or reordered; the exit code; the proxy ends; the daemon lets go; replies get through while the client is silent |

The remaining runs end in a violation. They state what the repository says of
itself, and the trace is what the code does:

- `retain_finds_entry`: "shared world was registered" (SA 427). `world()` and
  `retain_world()` lock the registry one after the other; the last client can
  leave in between. The panic poisons the registry.
- `status_behind_busy_world`: "Status must never queue behind a busy world"
  (SA 571). `collect_garbage` waits for the worlds with the registry locked,
  which is the first thing a status request takes. The trace has
  `ANALYZED_GC_UNDER_LOAD` unset: the session that is busy registered after
  the collection was decided.
- `edits_are_private`: "Unsaved edits stay private" (`README.md` 33). Direct
  edits stay in the base when a second session joins.
- `cone_is_pending`: "structural cone members are carried forward inside the
  sync" (`session.rs` 314). Not when one of the open files is unmodified.

### Bounds

- `WorldAccess`: four threads make two readers of different sessions, a waiting
  writer and a late reader coexist, with writers of both sessions and of
  nobody in every order.
- `WorkspaceLoad`: a leader, a joiner and a latecomer are the roles there are;
  workspaces of one world interact in the poisoning only, so one is enough.
  `MaxDisk = 2` gives the versions an order to be violated.
- `Registry`: three registrations are one that leaves, one that comes in its
  gap and one that collects. Two keys are needed for the collector to hold one
  world and wait for the other. Four worlds: `WorldsAssumption` asks for
  `keys + registrations - 1`, one per entry and one for each thread that is
  late. `MCSpec` is `Spec` from the initial states in which two of them have
  the first key (`TwoMeet`). The others, two with the second key and all three
  with one, were explored to the end too, without a violation; with one key
  all three can be lost to a panic, which TLC reports as a deadlock there.
  `MaxPanics = 1` counts the panics of work on a world or its loading, the
  first ones; those that follow from what it has poisoned, of registrations,
  sessions, destructors and collections, are neither counted nor bounded, and
  neither is the one of `retain_world`.
- `Snapshots`: `Double` has the session that cancels its own snapshot while it
  has another one; the other has one at a time. One commit and one edit are
  enough for a cache to be behind by one, and the generation is only compared
  for equality.
- `Overlay`: a file that a session has not open has a structural copy when a
  cone is attached, so that two files give overlays of edited and of
  structural copies, the root among either. `Closed` keeps one session from
  the root, to keep the run short: the instance where both open it, and the
  one of two files besides a root that nobody opens, were explored to the end
  too, without a violation. `MaxUpsets = 1` lets one new text get to disk, or
  one runtime join while another edits directly, not both. Both together were
  explored to depth 21 in the larger instance, 9 million distinct states, with
  no violation, and not to the end. Two runtimes are a session with its
  old and its new runtime, or two sessions, and not both; three runtimes with
  one file were explored to the end too. These bounds are too small for one of
  the exceptions (`overtaken`, below): TLC meets it with `MaxUpsets = 3`. That
  was found by the proof, which failed there.
- `WorldInputs`: `MaxFileId = 4` is five ids: enough for two workspaces, or for
  a workspace of two packages and copies of it by one session, and for the
  counter to run out in the middle of an operation. The code's bound is
  2^31 - 1.
- `Startup`: two clients are two starters; two daemons are two that could
  listen at once, each spawned or run by hand. A client that asks again is
  the other client.
- `LspStream`: three fragments are `initialize` with a cut `exit`, or with two
  messages behind it, of which one may be an `exit` in either spelling. The code's read size (8192) is a read of any length.

The safety properties, which are all proved (below), hold without these bounds.

Symmetry is used for safety only. Deadlock is not checked where a system may
rightly come to rest: `Startup`, `LspStream` and `Snapshots` (all processes,
threads or sessions are gone) and `WorldInputs` (the ids have run out). There
`EnsureReturns`, `ProxyEnds`, `CountedOut` and `CallsReturn` say that nobody is
left waiting.

### Fairness

- `WorldAccess`: weak fairness of a notified thread and of the holder of a
  permit. The first is the scheduler's. The second is the code's: permits are
  guards that live as long as a query or a sync, and unwinding drops them too.
  Nothing is assumed of the order in which the mutex is taken, so that progress
  of writers follows from the counting of waiting writers and not from luck.
  Readers have no such property, and the code does not give them one: a stream
  of writers holds readers back.
- `WorkspaceLoad`: weak fairness of each thread's next step. Loads and commits
  end, well or badly; calls are not assumed to come.
- `Snapshots`: weak fairness of each thread's next step in a call it has begun,
  and of the end of a query. Nothing makes a thread begin a call. `CallsReturn` lets a thread
  wait for as long as others keep writing, for the reason given above.
- `Startup`: weak fairness of each system call and of the answer to an accepted
  request (or its refusal, or the end of the stream); strong fairness of the
  five seconds, which run whatever the poll finds. A daemon that accepts and
  never answers is therefore outside `EnsureReturns`: `connect_hello` has no
  limit of its own.
- `LspStream`: weak fairness of every thread. Nothing is assumed of the client,
  and nothing of errors and panics, which may come or not.

`Registry`, `Overlay` and `WorldInputs` have safety properties only; the
liveness of the collector and of its locks is that of `Snapshots`.

### The exceptions

`Overlay`. `crossed` records that a runtime has joined the workspace while
another one had direct edits in the base. From there on another session's
unsaved text may be taken for disk text, and kept in structural copies even
after the edit is gone, so `OwnBuffers`, `EditsArePrivateApart` and
`ConeIsPendingApart` stop at that point; `DirectIsBase` and `InputsMatch` do
not. The first direct violation is the run `edits_are_private`.
`ConeIsPendingApart` also leaves out a session with an open file that has no
edits, which is the case of the run `cone_is_pending`, and what follows when
`overtaken` is set. That records a sync that goes by what is no longer so: it
was prepared before a reload, or by an attach that found other files open than
`last_open_set` has. Both lose the cone, as told in the next section.

`WorldInputs`. `late` records that a workspace has been committed since the
overlays were built, `db.stale` that a source root was passed over because it
equals one left from an earlier, longer list. `LinkedApart`, `CratesResolve`
and `SearchInView` say which part they leave out.

`Snapshots`. `SnapshotsAgree` leaves out a session whose sync has failed: what
the world records of its overlay is then behind the database.

`Startup`. `excuses` is `lapse` (the spawner timed out or died while its child
had yet to bind) or `refusal` (a live daemon refused a hello, or its pipe was
busy for a second). `NoOrphan` holds on windows regardless, where a second
daemon cannot bind.

`Registry`. `EntriesExact` counts the registrations at `unwound` and `lost`
with those that live, `OneCollector` those at `lost`: what a panic leaves
counted is counted for good (next section). The counts drift by these and by
nothing else. Once the registry is poisoned `EntriesExact` says nothing, since
nobody gives anything back any more.

`WorkspaceLoad`. With the registry poisoned an entry outlives its leader, where
nobody can look for it (`EntryHasOneLeader`).

`LspStream`. `ExitCode` names what the proxy does not recognise or takes for an
`exit`: one that a read has cut in two, one in another spelling, the bytes in
another message, and an error of stdin, which counts as its end.

## What the model shows besides

Behaviours met while modelling that no sentence of the repository contradicts
plainly enough to be a finding, or that a property names as its exception.

- *Discarded text stays.* The cone of a session takes the text of a closed file
  from the base (SA 3033). When the session had edited that file directly and
  closed it without saving, the base still has the edit, and the structural
  copy keeps it.
- *Saved text is not seen.* `session.rs` 231 drops the texts of saved files.
  Another session gets them with the next reload of the workspace; `README.md`
  33 says "until the buffer is saved".
- *A reload between preparing and syncing loses the cone.* A turn prepares the
  files of the cone in one critical section and syncs them in another
  (`session.rs` 319). A reload in between changes the base; the texts of the
  closed files then differ from it, count as edits, and at the next event are
  dropped as edits of files that are not open, the crate's root with them.
  Nothing says afterwards that a cone is pending.
- *An attach does not record what it attached for.*
  `attach_pending_shared_cone` prepares the cone for the files open now and
  leaves `last_open_set` as it is (`session.rs` 201). When a file is closed
  after it, the set may be the last one again: no cone is prepared, and the
  sync drops the root that had come with the closed file.
- *Two daemons.* On unix, after one of the `excuses`, the second daemon unlinks
  the socket of the first, which lives on with the sessions it has.
- *A leader that unwinds is counted for good.* `register` gives its count back
  when its result is an error (SA 414) and not when it unwinds. A panic in the
  project loader, or in a commit, leaves `client_sessions` one too high, and the
  world registered when everybody has left. After a panic in a commit that world
  is poisoned: every later registration of its key fails to load. SA 575 calls
  the count "registry-known" and accurate. A panic in the destructor of a
  runtime, under the world's mutex, leaves the counts of that runtime likewise.
- *A poisoned world stops the collector.* `new_with_registry` counts itself with
  the collector before it takes the world (SA 1283, 1286). When the mutex has
  been poisoned since the load, its panic finds no session yet that would take
  the counts back: the client, the view, `registered_sessions` and
  `busy_sessions` stay up. With `busy_sessions` above zero no collection starts
  any more, in either mode.
- *A poisoned world poisons the registry.* A collection locks every registered
  world and expects it sound (SA 621), with the registry locked. From there on
  nobody registers, and every status is empty. The flag `collecting` stays up. A
  thread that is in a panic already and collects as it drops its runtime ends
  the daemon with the second one.
- *An `exit` may be spelled otherwise.* The proxy looks for the bytes
  `"method":"exit"` (`main.rs` 140). A client that writes a space after the
  colon, as `json.dumps` does (`bench/harness/lsp.py` 81), ends its session by
  it, and its proxy exits with 1 when the daemon's end of the stream closes
  before stdin does. A request that quotes these bytes makes a later loss of the
  daemon look clean.
- *`exit` alone does not end the proxy.* After `exit` the session joins its
  reader thread, which is blocked in a read; the stream stays open until the
  client closes stdin or sends more.
- *A further workspace detaches the copies.* The commit of a new workspace
  gives the database the roots and crates of the workspaces alone (SA
  2326-2338). The copies of the other sessions are without a root and a crate
  until their set of edited files changes (`late`).
- *A source root is passed over.* `applied_source_roots` is never cut (SA
  2425). When the list has been shorter for a while, a root may equal the one
  left at its index, and its file keeps the root it had in between: "file path
  is unavailable". TLC finds this in seven states when `LinkedApart` does not
  leave out `db.stale`. A file that leaves an overlay and comes back is enough.
- *Symbols of module files.* `world_symbols` filters by the root files of the
  crates in view (`analyzed-ra-ide-db/src/visibility.rs` 49-52), which the
  file of a symbol in a module is not.
- *A failed sync loses the overlay.* `session_overlays.remove` comes before the
  lookups that can fail (SA 2796): the record of the direct edits is gone,
  while the base keeps them.
- *A copy has no dependents.* A crate that depends on an edited one is not
  copied with it unless it is itself edited: references from there are to the
  shared version, so that a search from a copy does not find them.

## Proofs

Eight modules prove, for every value of the constants that satisfies the
assumptions, what the runs show on their instances: every invariant and every
action property of the passing runs. Each has an inductive invariant `IInv` (in
`WorldAccess` it is `TypeOK /\ CountsExact`), which TLC checked before it was
proved, one lemma per action, and a theorem per property. `Overlay` and
`WorldInputs` have a second one (`Sharing`, `LInv`) that is inductive relative
to the first.

| Module | Proved | Only model-checked |
|---|---|---|
| `WorldAccess` | `TypeOK`, `CountsExact`, `Exclusion`, `NoLostWakeup`, refinement of `SessionLock` | `WriterGranted` |
| `WorkspaceLoad` | `TypeOK`, `EntryHasOneLeader`, `ContentMonotone`, `OnlyReloadReplaces` | `CallReturns` |
| `Registry` | `TypeOK`, `EntriesExact`, `OneCollector`, `StaysShared`, `CollectorLeavesClean` | |
| `Snapshots` | `TypeOK`, `SnapshotsAgree`, `NeverCancelsOthers`, `CollectsAlone` | `CallsReturn` |
| `Overlay` | `TypeOK`, `DirectIsBase`, `InputsMatch`, `OwnBuffers`, `EditsArePrivateApart`, `ConeIsPendingApart` | |
| `WorldInputs` | `TypeOK`, `CratesResolve`, `LinkedApart`, `SearchInView` | |
| `Startup` | `TypeOK`, `NoOrphan`, `BailMeansNone` | `EnsureReturns` |
| `LspStream` | `TypeOK`, `NothingLost`, `ExitCode` | `ProxyEnds`, `CountedOut`, `RepliesArrive` |

What is only model-checked is liveness under fairness, which is out of the
prover's reach, as is `ENABLED`. So are the induction theorems of the library,
which take an operator as a parameter. What `LspStream_proofs` and
`WorldInputs_proofs` need of a flattened sequence is proved without them, from
the least number of a set that would be a counterexample (`LeastNumber`).

The arguments:

- `WorldAccess`. The counts are cardinalities of sets of tasks, so each action
  has a lemma that says which task enters or leaves which set. `Exclusion` is
  not inductive alone: what stops a reader is not the writer but the count of
  writers. With `CountsExact` a granted writer makes its count positive, which
  blocks the other sessions' readers. A parked task is blocked: counts that
  grow keep it so, counts that shrink do so in a drop, which wakes everyone.
- `WorkspaceLoad`. Every leader has a load of its own without a result; an
  armed one has the entry of its project, and an entry has an armed leader
  (`LoadHasOneLeader`, `EntryOfArmed`, `WaitsForLeader`). As only an armed
  leader commits, two commits of one project do not overlap, and what is about
  to be committed is no older than what is there (`Fresh`). `CellsFreed` is
  what makes the assumed number of cells enough.
- `Registry`. The counts are cardinalities of the registrations at certain
  places, those of a panic included, which each action's lemma moves by one (`MoveCount`, `MoveCounted`,
  `BusyCount`). The entry of a key is there only with a reason, that somebody
  has found it or is counted in it (`EntryOf`); so the last who leaves finds
  the count at one, and one who leaves others behind finds it above.
  The invariant says nothing of the entries once the mutex is poisoned. After an
  abort everything is as in `Init`, and so is the invariant.
  `WorldForKey` shows by counting that the memory for worlds the model assumes
  never runs out, without which `World` would not be defined.
- `Snapshots`. `Permits` has who excludes whom at each lock (`WriteAlone`,
  `OneInMutex`, `SweepAlone`, `OneCollector`); `Data` says that a cache of the
  current generation has what the world records, and that every snapshot's
  version is the current one. The first gives the second: whoever changes the
  inputs finds no reader but the session's own, and waits for these.
- `Overlay`. Only a session that is alone in the workspace takes a base input
  for itself, and what a runtime has taken it gives back, to the text on disk,
  before anything else happens to it. `InputsMatch` needs that a copy is sent
  whenever it is new or differs from what was sent.
  `Sharing` is about what several sessions do to each other. No runtime is of
  two sessions (`Distinct`), and a sync is given the buffers as they are
  (`GivenIsBuffer`). While nobody has joined a runtime that edits directly
  (`~crossed`), such a runtime is by itself (`Alone`), so a base that changes is
  seen by nobody else, structural copies have its text (`StructuralIsBase`), and
  what is in it has been on disk or is the one session's (`BaseSaved`). From
  there privacy is a matter of where a text can come from (`WorldSaved`). The
  cone needs the history of a turn (`Kept`): an idle overlay edits only files
  of `last_open_set`, and what a sync is about to be given has the crate's root
  in it, or is the buffers of an overlay that edits nothing else.
- `WorldInputs`. The counter has passed every id that is in use, so a new one
  is of nobody, and files, copies and sessions are kept apart by their ids
  (`Typed`). An edge of the crate graph that ends in a copy begins in a copy of
  that session, since a rebuild makes the graph from the base and the overlays
  alone (`DepsApart`). `LInv` is about positions: the list of source roots
  begins with those of the workspaces, one workspace after the other
  (`Placed`), after these there is one root for each copy (`CopiesIn`), and a
  copy has the root of its base file (`AllGiven`). It needs that the roots of
  two copies in one overlay differ, which comes from the paths (`AllThere`).
  The lemma at its centre is `ApplyRootsLinks`: when a list of roots with one
  file each, all different, is applied and no root is wrongly passed over,
  every file has the index of its root. That a root is passed over, and that a
  file moves to a root that had it at that index already, are the two cases in
  which an index is not set.
- `Startup`. Until there is an excuse, whoever is between "nobody answers" and
  "my daemon listens" has the startup lock, itself or through the client that
  spawned it and waits (`StartCovered`); nobody listens meanwhile
  (`StartAlone`), and whoever listens has the path (`BoundAtPath`). A pipe has
  its name for itself at all times (`PipeIsOwned`).
- `LspStream`. What the client has sent is, from the session backwards, what is
  handled, in the inbox, on the connection, in the hand of the proxy's thread
  and in stdin (`Upward`); each step moves the border between two of them. At
  the start that takes `Beginning`: until the session is accepted there is
  nothing in either direction but the first line, so the buffers that are
  dropped with it are empty. For the exit code, what is left in stdin is the
  end of what was sent (`Suffix`): a read that ends within `exit` is seen there
  (`cut`), and any other has both parts (`ExitIsSeen`). What the session takes
  for an `exit` is one of the two spellings, and one of them is seen.

Assumptions, which TLC evaluates in the runs: the sets of processes, sessions
and values are disjoint where they name different things; `Tasks`, `Callers`,
`Loads`, `Runtimes`, `Sessions`, `Keys` and `Worlds` are finite where they are
counted or put in order; `MaxPanics` is a number; there is memory for one load more than there are
callers (less one), and for the worlds as given above; `MaxDisk` is positive.

## Not modelled

- What the database computes: queries, macros, types, and how salsa cancels
  beyond waiting for clones.
- Files that are created or deleted during a session, several source roots per
  package, and several views of one world.
- `ANALYZED_EAGER_CONE_ATTACH`: `Overlay` has the default, a deferred cone.
- Panics in the modules other than `WorkspaceLoad`, `Registry` and `LspStream`.
- When a project is read in `Overlay`: a reload there brings any texts that have
  been on disk, which allows more than the code does.
- Turns that fail half-way in `Overlay`; `Snapshots` and `WorldInputs` have a
  sync that fails, for what it does to the caches and to the files.
- The project model, proc macros and build scripts of the projects: upstream's.
- The bridge and the build scripts of this repository: they transform
  upstream's sources at build time, once and alone, and fail the build when a
  patch does not fit. `xtask` and `bench` are tools. These are a third of the
  repository's Rust.
- Encodings of requests (serde), the runtime directory, printing, logging.
