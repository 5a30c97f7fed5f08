# OmniForge, specified

TLA+ models of OmniForge, the TLC runs that check them on small instances, and
TLAPS proofs of what matters most for every instance.  Paths below are relative
to the repository.  `PROJECT.json` is the index: components, runs, mutants, the
lines each definition stands for, hazards, findings and theorems.

## The system

OmniForge is a single-process desktop application: a NiceGUI server on one
asyncio event loop, worker threads (`asyncio.to_thread`) and a process pool for
the heavy work, one browser client or more, and a handful of files on disk.

| Part | State it keeps | Operations | What makes it hard | What makes it correct |
|---|---|---|---|---|
| `core/storage.py` | mirror `_cache`, `_dirty`, `_deleted`, events `_work` and `_idle`, a TinyDB file | `store_set/get/delete`, writer thread, `flush` | setters, writer and `flush` interleave; disk errors; kills | rows nobody changed survive; idle means durable; `flush` loses nothing; every change reaches the disk |
| `core/single_instance.py` | a lock file with a PID and a start time | `acquire`, `release` | launches race between any two system calls; owners die anywhere | at most one instance; a crash never locks anybody out; every launch ends |
| `core/recycle_store.py` | batch directories, manifests, payloads on several volumes | recycle, restore, delete, purge | worker threads share batches; moves and removals fail half-way; kills; edited manifests | nothing is destroyed before its time; what is stored is listed; a purge is complete; a restore overwrites nothing |
| `core/sandbox.py` | `SandboxTask._consuming`, the progress queue, the pool | `consume`, `request_cancel`, `run_in_thread`, `run_reporting_progress` | timeout, cancel and end race; threads cannot be stopped | a run has one outcome; a running one can be cancelled; no report is lost |
| `core/base_module.py` | attached panels of each client | `attach_ui`, `detach_ui`, `on_load`, `on_unload` | several clients, each with handlers on global topics | a client has one panel of a module on the bus, from opening it until it goes |
| `core/event_bus.py` | handlers by topic | `subscribe`, `unsubscribe`, `publish` | handlers run concurrently and may change the table | a handler failure stays its own |
| `core/registry.py` | loaded, degraded, metadata, a lock | `discover_and_load`, `unload_all` | pages load concurrently with each other and with shutdown | each module is settled once; every page is shown everything |
| `app.py` | the order of startup and shutdown | `index`, `_on_startup`, `_on_shutdown`, `main` | the purge must come before pages, the flush before the lock goes | see the parts |
| `modules/extractors/bulk_renamer` | preview, plan, last result | preview, run, undo | the directory changes between preview, check and rename; Windows and POSIX differ | no file is lost; the plan runs as shown; undo is exact |
| `modules/extractors/duplicate_finder` | scan result, plan of deletions | scan, execute | files change between hash, comparison and recycling | never the last copy of a content |
| `modules/extractors/file_filter` | scan, `_last_result`, the pairs of the Undo button | scan, copy, move, archive, list, undo | form, scan and tree drift apart; moves that fail half-way; undo outside the sandbox | nothing is lost or overwritten; what is moved is what was confirmed; archives are whole; undo is exact |
| `modules/extractors/llm_packager` | - | read, pack, write | token budgets at their limits | every text once and in order, no chunk whose texts are above the limit |
| `modules/converters/*` (pdf, image, media, document) | the list of the panel, per-run results | one conversion per file, or one document in steps | runs outlive their handler in threads; the list and its files change; an `ffmpeg` process with two pipes that fails or hangs | success means all outputs are there and whole; nothing half-written or unlocked stays; no encode wedges |
| `core/permission_manager.py` | - | `elevate` and its outcomes | a system dialog | every exit maps to one outcome |
| `core/command_palette.py`, `core/models.py` | recent list | index, recording, scoring | the list is of an earlier session | every loaded module is offered once |
| `ui/shell.py` | active module of each client | navigation, Recycle Bin dialog | a dialog shows batches that change under it | a page lists all that is loaded or degraded |
| `core/theme_engine.py`, `core/logger.py`, `core/dependency_checker.py`, `shared/*` | a theme preference | thin helpers | - | pure |

How they interact: a panel publishes `<module>.execute` on the event bus; the
module's handler drives an async generator through its one `SandboxTask`; the
generator runs the work in a thread and yields progress; the handler publishes
`done` or `error`, the cancel handler `cancelled`.  Topics are global, so every open
panel hears every outcome.  Modules keep preferences in `storage` and hand
files to `recycle_store`.  `main` takes the lock, startup purges the recycle
store, each page loads the modules, shutdown unloads, flushes and releases.

## The modules

Names follow the source.  Inside a component, everything done between two
awaits, or while holding the lock, or in one system call, is one step.  An
operator `M<Name><Change>` is `<Name>` with a plausible bug; it is used by no
specification and exists so that each property is known to fail for something.

Three conventions recur:

* *Environment choices are rigid variables.*  `faulty` (Storage, SingleInstance), `trouble` (RecycleStore)
  and `machine` (BulkRenamer) are chosen in `Init` and never change, so one run
  covers a disk that fails and one that does not, several combinations of failures, or four kinds of machine, and
  a theorem speaks of all of them.
* *Assumptions the code does not enforce are history variables.*  `orderly`
  (Storage), `calm` (RecycleStore, BulkRenamer), `alone` (SingleInstance,
  ModuleRun), `quiet` (BulkRenamer, DuplicateFinder, FileFilter), `raced` (FileFilter),
  `late` (Lifecycle), `mixed` (Converters) and `forged` (RecycleStore) record what has happened
  so far.  So do `told` (ModuleRun) and `made` (Converters) of what has been published and reported.  They restrict no step; properties that need them say so, so each
  property shows exactly what it depends on.
* *Known defects are separate runs.*  Where the code breaks what its docs say, a
  run with `expect: violation` shows it (two do), or "What the work has shown beyond the findings" tells of it.

Each module has a `TypeOK` (`LaunchTypeOK` in SingleInstance).  The runs of Storage and ModuleRun check it; those of
the others leave it out to spend their time on what could be wrong, and
adding it to the `INVARIANTS` of a cfg is all it takes.

### Storage

`mirror`, `dirty`, `deleted`, `work`, `idle` are the module globals of the same
name, `disk` the TinyDB file, `pc`/`job` what each worker (the writer thread, the
callers of `flush`) has taken.  `StoreSet`, `StoreDelete`, `StoreGet` are the
public calls; `FindIdle`, `TakeWork`, `ReadFile`, `Upsert`, `Remove`, `Fail`,
`Finish` are `_write_pending`, cut where the lock is released and where TinyDB has
read but not yet rewritten its file; `Wake` is `_writer_loop`; `FlushCall` and
`FlushReturn` are `flush`.  `Crash` keeps the file only, and may leave it cut
short.  A value is the number of the call that wrote it.

`Orderly` collects what the schedule must grant and the code does not enforce:
one worker in `_write_pending` at a time, no early `_idle`, no key set again
while its deletion is pending.  The last one is a real defect seen while
modelling: `_write_pending` upserts first and removes afterwards, so a key deleted
and set again in one window ends up deleted.  The application never deletes,
so it stays a remark.  Without the first, two read-modify-write cycles of one
JSON file overlap and a stale one may land last.

### SingleInstance

One process per launch, `lock` the file the path names (with its creator as the
inode), `attempt` and `reads` the two loops.  Each system call is a step: `O_EXCL`
create, write of the record, each read of `_await_record`, the liveness test,
`unlink`.  A PID together with its start time identifies a process, hence
process identity.  `PromptWriters` says that a live winner writes its record within the read
window of `_await_record` (the code's own assumption, lines 137-139); it is TRUE
in the runs.

### RecycleStore

`where` maps each file, as an identity, to the path, the payload directory or the
fate it has met.  `manifest`, `dirs`, `dirAt` are the central store.  Recycle, restore
and delete are threads that proceed one move or one removal per step, so they
interleave; `Start`, `PurgeTarget`, `Serve` are the startup purge, before any other
call; `Stop` and `Crash` end the process.  `Repaint` draws the Recycle Bin dialog of a page
from `list_batches`; `offered` holds the batches that any page's dialog lists, which are
what can be restored or deleted, however long ago another page has done so.  The clock ticks up to `MaxTime`, a batch
id is the instant of its creation, and retention is `Retention` ticks.
`AimEntry`/`LandEntry` keep apart the choice of a restore's destination and the
move to it.  Environment: the user saves files, moves and removals fail,
something else changes a manifest: `Troubles` is the set of the combinations
of these that an execution may meet, and `trouble` the one it does.

A manifest has entries and a head, the `batch_id` and the `created_at` it tells.  The code goes by what it reads: `Repaint`
offers the id of the head, `Start` purges by its time and under its id (`recycle_store.py:445-447`), and a restore writes back
to the batch the head names.  Of what can happen to a manifest, `Break` makes it unreadable, `Add` puts in an entry that names
any file, and `Forge` gives it any other head, or fewer entries.  The first two never cost a file, because each entry is looked at before
it is used; the last one is believed.  `forged` holds the batches whose manifest has been rewritten so, and those it has named: `KeepsRetention`
says that no other batch loses anything.  `ReachesOwnOnly`, the stronger promise of the comments, fails (see below).  An id
that leads out of the store is not modelled; neither is an `OSError` of `_write_manifest` other than that the directory is gone.

`calm` excludes exactly the window between `AimEntry` and `LandEntry`: two
restores, or a restore and the user, aiming at one name there do overwrite.

### ModuleRun

The protocol of one operation: panels (`open`, `busy` = `_is_running`), the execute
handler of each run (`pc`), its worker thread, the interruption about to reach
it (`stop`), `SandboxTask._consuming`, `_last_result`.  It is taken from the
bulk renamer; every other module has the same handlers.  `alone` is lost once two runs
are active together, which the code allows: `_is_running` belongs to one panel of
one client, is forgotten when the panel is rendered again and cleared when any preview
fails.  From then on `_consuming` and `_last_result` are shared: results can
go missing, and two handlers can publish the result of one run.  What still holds then is `OnlyCancelsRepeat`.
`told` is the sequence of what has been published of each handler.  A cancel can be in it twice, because `request_cancel`
answers True until the handler has unwound, so that a second click publishes `cancelled` again; `MaxCancels` bounds those clicks.
`Swallows` is a property of the Python runtime (in 3.11 `wait_for` may drop a
cancel that finds the work done); the run sets it to FALSE, and with TRUE the
single-outcome properties do not hold.

### BulkRenamer

One directory as a function from names to files; the regular expression and its
template are abstracted to "any name that passes `_preview_one`".  `PreviewStart`
and `PreviewOne` are the preview thread, file by file, `Run` and `UndoRun` the buttons,
`Check`, `MoveOnWindows`, `Link`, `Unlink`, `RenameOver` the system calls of
rename and undo for each pair, `Fail` any other `OSError`, `Abandon` a timeout or cancel
(the thread goes on, see ModuleRun), `Finish` the result card.  `machine` says
whether the system is Windows, POSIX or POSIX without hard links, and whether names
fold case.  Two simplifications: one preview is computed at a time, and the panel's
`_is_running` is left out, since another client's panel does not know it.

`calm` excludes that a name a thread has looked at changes before the thread uses it (`Exposed`): the old name
between `os.link` and `unlink`, the target between the check and a replacing `rename` (undo on POSIX; file
systems without hard links) and, where the check has found both names to be one file, the old name as well.  In
each of these windows a file really is lost.  The third was missing at first: the attempt to prove `NothingLost` failed for an
undo whose check sees one file under two names, after which the old name is removed, given to another file and
moved over the target.  It takes three calls.

`Listings` yields the one sequence of a set of names in the order of `_walk`.  It is a set of functions rather than
a `SelectSeq`, whose recursion the provers cannot look into.
`quiet` says nothing else has touched the directory since the preview.

### DuplicateFinder

A tree as a function from paths to files, links or nothing.  `ScanStart` lists it
(`_walk`), `SizeOne`, `HashOne`, `StatOne` read one file each in the order the code
does, `ScanDone` puts the groups on screen.  `Click` and `Confirm` are the Run button and its
dialog, `Compare` one `filecmp.cmp` of `_plan_deletions`, `RecycleOne` and `SkipOne` one turn of
`recycle_paths` (RecycleStore has what happens then).  The user, and a second resolve, are
`UserWrites` and `UserDeletes`, at any point.  A comparison is one step.  Contents of one
size may share a digest, which is what the comparison guards against.

`quiet` says nobody else has changed a file since the scan began, or since the resolve
began to compare; `fresh` that nothing has since the scan the resolve rests on began.

### FileFilter

Two trees and what runs write elsewhere, as one function from places to contents (a content is a
number; there is no other identity).  `ScanTree` is `_on_scan`; `Run` the button, with tree, mode, flat or not, and
types from the form; `Select` the head of `execute`, `Choose` and `Carry` the two halves of `safe_copy` and
`safe_move`, `Pack` one `archive.write` or row of the manifest, `Fail` an `OSError` on one file, `Finish` the tail of
`execute` and `Publish` that of `_on_execute`, which shows whatever `_last_result` holds by then.
`UndoRun`, `Check` and `FinishUndo` are `_on_undo`, which takes no turn in the sandbox.  `LetGo` is a cancel or timeout:
the thread goes on.

`quiet` says nothing else has touched files since a scan, a run or a result came about; `asked` what was
confirmed; `raced` that a name was taken between the look for a free one and the move to it,
the one window in which a file is lost.  Exclude patterns only thin out the tree; a walk, and
`shutil.move`, are one step.  `Listings` is as in BulkRenamer; `With(f, p, c)` puts a file into a tree and stands
where `(p :> c) @@ f` would, because the provers know no more of `:>` and `@@` than their names.

### Lifecycle and VerdictBook

The application as a whole, from startup to shutdown.  `page` is what each page load has come to:
waiting for the discovery lock (`queue`, first come first served), walking the manifests, loading one, shown.
`loaded` and `degraded` are the registry's; `logic` and `panels` count the handlers on the event bus for each
module, and for each module and client; `attached` is `_client_uis`.  `Connect` is `index`, `Enter` to
`Degrade` are `discover_and_load` and `_load_from_manifest`, cut at the `await` of `on_load`, `Show` leaves the
lock and builds the shell, sidebar and palette.  `Activate` opens a module: `record_recent` and `attach_ui`.
`Disconnect` is the hook `attach_ui` registers.  `Shutdown`, `UnloadOne`, `UnloadAll`, `Drain`, `Release` are
`_on_shutdown`; what its last two steps call is in Storage and SingleInstance.  `Break` is the
`RuntimeError` of a dictionary that grows while `unload_all` iterates over it.

`on_load` and `on_unload` of the present modules never suspend, so the lock, and the window behind `Break`, are
latent; the model lets them suspend, as the contract allows.  `Selected` filters a list as a recursive function, which
can be reasoned about where `SelectSeq` cannot.  `late` says that shutdown has met a page that was
loading, or a click.

`VerdictBook` is the abstract registry: each module gets one verdict, and a loaded one
loses it only when everything is unloaded.  Lifecycle implements it (`VerdictsStand`), under
`verdict[m] = "loaded"`, `"degraded"` or `"open"` as `m` is in `loaded`, in `degraded` or in neither.

### Converters

The five suites share the shape of a run, so one module covers them, and `map` leads from each definition to the
suite where it is most explicit.  `Suites` names the operations; those that the comments call alike (resize and convert, compress and
rotate, ...) have the same steps and targets.  `Opens` and `Targets` say what step `k` of an operation
reads and writes; `Steps` how many there are.  `Begin` is `_on_run_click`, `Call` and `Advance` the loop of
`execute` with `run_in_thread`, `Relay` and `Relayed` the queue and sentinel of `run_reporting_progress`, `Fail`, `Finish` and
`Abandon` the ways a run ends.  `Read` to `WriteFails` are the thread, `Spawn` to `Wait` the thread of an encode, its FFmpeg process
and the thread that drains stderr.  A run of the packager has no list; `AddFiles`, `RemoveFile`, `Move` and `ChangeOperation` are the panel,
`UserDeletes` somebody else.  The list can be edited while a run is under way, which works on its copy.  A content is a sequence of pieces, each known by its source and page, so that mixing up,
repeating or losing one shows.

A step of the media suite starts with `Probe`.  `Facts` is what ffprobe may tell: nothing if it is missing or fails, which is no error, or whether
there is sound, and perhaps the length.  A clip without known sound is passed over by the extraction of audio (`Skipped`) and encoded mute by a
conversion (`Taken`, `Muted`); piece 0 of a clip stands for it without its sound.  A line of progress is reported if it tells an `out_time`
(`Stamped`) and the length is known (`Stamp`); `made` counts the reports, and `NoReportLost` speaks of those.  A chunk of the packager begins with a table of
contents of `Toc` tokens (`Headed`), which nothing counts.  Three promises of the docs fail for that: `SoundIsKept`, `HeartbeatShown` and `FilesFit` state them (see below).

`mixed` names the runs that began while a thread of an abandoned one was still working; the
two may write one target.  An hour (`FFMPEG_TIMEOUT_SECONDS`) is longer than the
time limit of a run, so `PumpLate` finds its run abandoned.

`Pristine` and `Untouched` exempt sources that a run has written to, or that are results themselves and are gone: the list may hold the output of an
earlier run.  The proofs have shown that two properties meant less than they said: `DoneAsAsked` has to exempt, for each operation, the sources it reads
and no more, and `NoUnlockedCopy` is about documents with a password, since only they have a copy.  `Pack` and `Kept` are recursive functions
rather than a fold and `SelectSeq`, for the provers' sake.

## Runs

| Run | Instance | Shows |
|---|---|---|
| `storage` | 1 table, 2 keys, writer and one flusher, 2 changes; with and without disk errors | `TypeOK`, `IdleMeansDurable`, `NoLostWakeup`, `UntouchedRowsSurvive`, `DiskNeverGoesBack`, and `ChangesReachDisk` under fairness |
| `storage_flush` | same | refutes `FlushIsLossless`: `flush` calls the store idle while the writer still writes |
| `instance` | 3 launches, 2 reads per attempt, with and without `OSError` | `RaceHasOneWinner`, `NeverLockedOut`, and `LaunchSettles` under fairness |
| `instance_reclaim` | same | refutes `AtMostOneRunning`: two launches reclaim one stale lock |
| `recycle_harsh` | 1 thread, 2 files on 2 volumes; kills with failing removals and broken manifests, and added entries or failing moves; or forged manifests | `KeepsRetention` |
| `recycle_shared` | 2 threads, 2 files of one path on another volume than the store, stale dialogs | `Restorable`, `PurgeIsComplete`, `PurgeLeavesNoOrphans`, `NothingClobbered`, `KeepsRetention` |
| `module_run` | 2 clients, 2 runs, 2 cancels | `TypeOK`, `OnlyCancelsRepeat`, `EveryRunReports`, `RunningIsCancellable`, and `PanelUnlocks` under fairness |
| `bulk_renamer` | 3 names (two differ in case), 2 files, 2 threads, 4 kinds of machine, 2 calls, 1 upset | `NothingLost`, `RoundTrip`, `ShownIsRun` |
| `duplicate_finder` | 3 paths, 3 contents (two collide), 1 upset, no links | `OneCopyStays`, `ResolveIsComplete`, `GroupsAreRight` |
| `file_filter` | 2 trees, 4 places, 2 types, 2 threads, 2 calls, 1 upset, one second | `NothingLost`, `RoundTrip`, `MovesAsConfirmed`, `ArchiveIsWhole` |
| `lifecycle` | 2 pages, 4 manifests (one garbled, one parked), 3 clicks | `HandledOnce`, `CleanShutdown`, `PageIsComplete`, the refinement `VerdictsStand`, and `EveryPageIsShown` under fairness |
| `converters` | each suite in turn, 2 runs, 1 edit at any time (image, pdf), 3 pages in parts of 2, a chunk limit of 2, 1 line of progress, pipes that hold 1 line | `DoneAsAsked`, `NoTruncatedVideo`, `NoReportLost`, `NoUnlockedCopy`, and `EncodeEnds` under fairness |

Why these bounds are enough to be interesting:

* Storage: two keys make a flush of several TinyDB calls, so that a change, a kill or
  another flush can fall between them; two changes are what it takes to have one
  pending while another is being written, or to change a key twice.
* SingleInstance: the known race needs a dead owner and two launches; three launches leave
  room for a bystander.  Two reads distinguish "read again" from "gave up".
* RecycleStore: `Retention = 2` and `MaxTime` 2 or 3 give a batch that is expired,
  one that is one tick short of it, and one younger; two files give a batch
  that is half done.  The two runs divide what would be too large together:
  the one with every kind of failure has one thread, and in an execution either manifests are forged or
  other things go wrong; the one with two threads has only failing moves.  In the latter both files want one path on a volume that is not
  the central one, where destinations collide and payloads can be orphaned.
* ModuleRun: two runs on one task and two panels cover each way of sharing; two cancels are what it takes to repeat one.
* BulkRenamer: `MaxCalls` bounds runs and undos, `MaxUpsets` counts what other programs,
  errors and timeouts do.  A rename and its undo, or two renames that overlap, with one upset
  at any point, on names that collide by case and by value.  Files and threads are
  symmetric; no liveness is checked there.

* DuplicateFinder: three paths make a group of three, or of two that are the same and one that only
  has their digest, so that a comparison in the middle can fail; one upset at any point of scan and
  resolve, the scans that may follow it, and mtimes that tie or differ.  Two groups at once would
  take four paths, which is out of reach; groups share no file and are worked off one after the other.

* FileFilter: two files of one name in two directories of a tree collide when flattened; a place of another type, empty
  at first, is what must not be taken along; a second tree is what the form may name instead of the
  scanned one.  Two calls are a run and its undo, or two runs, which share the one second on the clock, hence
  one output folder; one upset falls anywhere between.
* Lifecycle: two pages race for the lock; the two modules that load make an order, and a module before and
  behind the garbled and the parked manifest.  Three clicks open, leave and reopen a panel on one page while the
  other has its own, and overflow a recent list of two.
* Converters: two sources of one stem, one of another, and one that lies at the target of the first.  Three pages
  in parts of two leave a last part of one; chunks of two tokens meet files of one and of three.  `Pipe = 1` with two
  lines of stderr blocks FFmpeg as a full 64 KB does.  Two runs are what it takes for an abandoned thread to meet a
  new run.  The two images of a list are what it takes to take one for the other, and one edit, which may fall into the
  run, to change the list behind them.  A clip may have sound or none, and its probe may tell all, the sound only or nothing.

Deadlock is checked except in SingleInstance (all launches may be over), BulkRenamer, FileFilter and Converters
(the calls may be used up) and Lifecycle (the application has ended).

### Fairness

`FairSpec` of Storage: the writer thread wakes when signalled, and a worker inside
`_write_pending` goes on (the OS schedules threads, TinyDB calls return).  Setters,
flush callers and kills are not assumed to happen.  `FairSpec` of SingleInstance: a live launch goes on
with `acquire`; a launch may still be killed.  `FairSpec` of ModuleRun: the event loop runs
its handlers and timers.  No worker thread is assumed to end and nobody to cancel, so
`PanelUnlocks` rests on the timeout alone.  `Spec` of Lifecycle: the event loop runs a task that is ready,
that is the steps of a page load (`Loading(p)`; its `on_load` calls return) and of a shutdown that has begun (`Closing`); nobody
has to connect, click or quit.  `Spec` of Converters: an FFmpeg process that does not hang, and the two threads that read its pipes, go on
(`Encoding(r)`); hanging (`Break`) is no part of it, and nothing else is assumed.

## Proofs

`Storage_proofs`, `ModuleRun_proofs`, `Lifecycle_proofs` (which has the proofs about SingleInstance at its end: the lock comes
before the application), `Recycle_proofs`, `BulkRenamer_proofs`, `DuplicateFinder_proofs`, `FileFilter_proofs` and
`Converters_proofs` prove, for all values of the constants and from the named `ASSUME`s and the
hypotheses given below only:

* **Storage** `TypeCorrect`; `RowsSurvive` (`UntouchedRowsSurvive`) from
  `UntouchedInv`: a row no call has changed is in the mirror as on disk or not at all,
  is in no job's removals, and a job that would write it would write what is there.  It has to speak
  of jobs and of their copies of the file because a row is changed by the writer long after the
  mirror was read.  `IdleIsDurable` (`IdleMeansDurable`) from `DurableInv`: in an orderly
  schedule a changed slot is either *owed* (still in `_dirty`/`_deleted`) or
  *landing* (the one writer will leave it as the mirror has it, and if it has nothing left
  to do there the disk already agrees).  `DiskOnlyAdvances` (`DiskNeverGoesBack`) from `AgeInv`: disk, the row a worker
  is about to write, mirror, and the number of the last call are in this order, slot by slot.  `WakeupIsKept`
  (`NoLostWakeup`), which is inductive with the types alone.
* **SingleInstance** `LaunchTypeCorrect`; `OneWinner` (`RaceHasOneWinner`) from `RaceInv`:
  while nobody has gone, the lock names a live process and every record read is a
  running process's, so nobody ever reaches `unlink`; `NotLockedOut`
  (`NeverLockedOut`) from `AloneInv`: a launch without a rival meets at most one
  lock, a dead one, and finds the path free the second time.
* **ModuleRun** `TypeCorrect`; `OneOutcome` (`OnlyCancelsRepeat`) from `ReportInv`: until
  its handler returns, nothing but cancels has been published of a run, and those only if it is being cancelled;
  `AloneIsSound` (`RunningIsCancellable`) and `EachRunReports` (`EveryRunReports`) from
  `AloneInv`.  All but the types assume `~Swallows`.
* **Lifecycle** `RegistryKeepsBook` (`VerdictsStand`, the refinement) and `NothingRunsTwice` (`HandledOnce`).  Both
  rest on one invariant: `Typed`; `LockInv`, that only the head of the queue is past the lock, and nobody is in it twice; `LoadInv`, that the manifest
  a page is loading is of a module that is neither loaded nor degraded; and `OneVerdict`, that no module is
  both.  `HandledOnce` alone is not inductive: that `Keep` appends a module not yet in `loaded` needs `LoadInv`, which
  another page could break but for `LockInv`.  Each step of the registry then is a step of the book: `Keep` and `Degrade` settle
  one module or none, `UnloadAll` unloads, and the rest stutters.  `ShutdownIsClean` (`CleanShutdown`) adds `OfferInv`, that a page lists
  only what is loaded, so that only loaded modules have panels; and `ShutInv` with `LeavingInv`, that while `unload_all` runs the handlers left
  are those of the modules still ahead of it.  `PagesAreComplete` (`PageIsComplete`) adds `CoverInv`: of each manifest, a page
  in the queue or loading has it before it or it is settled.  It needs what `Selected` and `Recorded` return, by induction over the index.
* **RecycleStore** (`Recycle_proofs`) `RetentionKept` (`KeepsRetention`), under every crash and failure and whatever is done to manifests, from `Inv`:
  what there is of a batch dates from before now; a batch being filled is nobody else's, is not offered and has all its
  files on record (`Filling`); a readable manifest lists all that is stored in its batch (`ListInv`); so do the entries a restore holds, until it has moved
  the last one out (`Holding`); what is up for removal is of the batch at hand, or expired (`Removing`, `PurgeInv`).  All but the first and `Removing` speak of batches that are not in `forged`:
  what a manifest says of such a batch is true (`HeadInv`, `Vouches`), and so is what a thread has read of it (`Knowing`).  Without
  `Holding` and `Filling`, a restore of one thread could remove a directory another is still putting files into.
  `StaysRestorable` (`Restorable`), `PurgeCompletes` (`PurgeIsComplete`) and `PurgeOrphansNothing` (`PurgeLeavesNoOrphans`) from `RestInv` in
  addition: a directory has a readable manifest or is being filled, and a removal and a purge aim at *all* that is in a batch.  They assume
  `Undamaged` (no crash in mid-operation, no removal that fails, nothing else that changes a manifest; moves may fail), which is `recycle_shared`'s setting: each of the three
  lets payloads stay that no manifest lists (of an unreadable manifest, `_purge_unreadable` says that there are no paths to chase).  `ClobbersNothing` (`NothingClobbered`) has no such hypothesis, and
  rests on `NumberInv`, which bounds the numbers that suffixed names can have reached (a file goes from a name through a batch back to a name, and the
  next batch is of a later tick: `Fits`, `Past`), so that `unique_destination` always finds a free one
  (`FreeName`, by counting), and `FreeInv`: while it is calm, the one destination chosen is still free.
* **BulkRenamer** `TypeCorrect`, with names unique in the directory (`Base`).  `NothingGetsLost` (`NothingLost`) from `CalmInv`: each file
  its owner has not deleted has a name that no pending `unlink` is about to remove, and a thread at a replacing `rename`
  has either nothing or the file itself in the way.  `PlanIsRun` (`ShownIsRun`) and `UndoRestores` (`RoundTrip`) from `QuietInv`.  Its
  heart is `Applied(d, B, S)`: directory `d` is what renaming the pairs of `S` makes of directory `B`.  A quiet run has applied what it has done to
  the directory it found, a quiet undo leaves applied what it has yet to undo, and between `os.link` and `unlink` that holds of the directory without
  the new name.  Two notions of "the same name" are kept apart, that of paths (`Promised`) and that of the directory (`Apart`): a plan
  promises the first, only a run that went through has the second.
* **DuplicateFinder** `KeepsOneCopy` (`OneCopyStays`) from `ScanInv` and `ApartInv` (a path is in one group at most), `KeepInv` (no keeper is a
  target of the same resolve, although the pairs of all groups are in one list) and `TwinInv` (what is to be recycled has been found the same as a
  keeper, and both are as they were).  `GroupsStayRight` (`GroupsAreRight`) from `FactInv`: what an undisturbed scan
  knows of each file is true, and it has hashed exactly the files that share their size with another.  That is the argument why leaving the
  others unread loses no duplicate; it holds with links, too.  `ResolveCompletes` (`ResolveIsComplete`) from `ScreenInv` and `DoneInv`: what is the same
  as a keeper of its group is still to be compared, or is to be recycled.  The first and the third assume `Linked = {}`; with a link they are false (see below).
* **FileFilter** `NothingIsLost` (`NothingLost`) from `CarryInv`: unless raced, the name a file is about to be moved to is free; that there
  always is a free one is `FreeName` again, as the names in use are finitely many.  `UndoBringsBack` (`RoundTrip`), `MovesWhatWasConfirmed` (`MovesAsConfirmed`) and
  `ArchivesAreWhole` (`ArchiveIsWhole`) from `QuietInv`.  A quiet job is alone (`Sole`), and once there is a quiet result no job touches files
  (`Still`).  Of a quiet move and its undo, `Brought` says that the files at one end of the pairs done are at the other, each with its
  content, and that the rest of the tree is as it was found; of a quiet archive, `Listed` that its entries give back exactly the
  files done, no two at one name.  The undo maintains `Brought` of the pairs it has yet to reverse, last first.
* **Converters** All from `Base`: types; `Own`, that a run is in step with its thread and its process; `Order`, that runs come one
  after the other, and none but the latest runs; `Contents`, that a file is a source as it was, or the work of a run that began.
  `NothingLost` (`NoReportLost`) from `CountedRun`: what the panel has shown and what is on its way are together what has been reported while the run was
  wanted, and a step, let alone the run, is not over before all of it is shown.  `NoneTruncated` (`NoTruncatedVideo`) from `Coded`: the target of a process
  is its own until it ends, because without overlap at most one thread works.  `DoneIsAsAsked` (`DoneAsAsked`) from `LearnedRun` and `WrittenRun`.
  `Ideal` is what a run would have read by now if nobody disturbed it, and `Asked` what its steps would then write.  `LearnedRun` says that
  the thread holds `Ideal`, of sources no run has written to; `WrittenRun` that every file of a run that no other thread got in the way of
  is one of a write that is done (`Made`) or the one being written, and that every write done has its file (`Holds`).  Neither holds without the other: the second step of
  a conversion to Word reads what the first has written.  Both go by what the probe of each clip has told (`unheard`).  At the end `Family` counts the files of a split or a package, and
  `PartsCover`, `PagesCover` and `PackFacts` put their contents together.
  `NoneUnlocked` (`NoUnlockedCopy`) adds `TidyRun`: once the converter has come to an end, the copy is not there, and only the first step, now over, writes it.

The proofs about Converters read the code as far as `Chunk`, `Pack` and `Targets` do: that the parts of a split are the pages once and in
order, and the texts of no chunk but one of a single file exceed the limit, is proved of these definitions for every number of pages, parts and tokens.

The suffix arguments and the lists need a least element or induction over the naturals: `NatLessThanWellFounded` with
`WFMin`, or recursion through a function.  Induction over a list (`Pack`, `TokensOf`, `FlattenSeq`, `Kept`) is `UpTo` and `Recursion`
of Converters_proofs: a set of numbers that has 0 and with each number the next has them all, and a recursive function on `0..n` is the one
that follows its equations.  Left to TLC:

* liveness (`ChangesReachDisk`, `LaunchSettles`, `PanelUnlocks`, `EveryPageIsShown`, `EncodeEnds`), which needs `ENABLED`;
* the two refutations (`FlushIsLossless`, `AtMostOneRunning`), which are counterexamples.

The inductive invariants were checked with TLC first, on the instances of the runs (BulkRenamer's also with three calls on two names), by putting the
definitions into the module for a time; they are not among the runs.

## What the work has shown beyond the findings

In the core:

* The manifest of a batch is written after its last move (`core/recycle_store.py:326`): with
  `Troubles` = `{{"kill"}}` in RecycleShared.cfg, TLC finds `Restorable` violated by a kill in between, although the docstring has a
  batch survive a restart.  The files stay unlisted, and those on other volumes are never purged: the purge looks in the
  central store only.
* The purge passes on the `batch_id` that the manifest tells (`core/recycle_store.py:447`), and `_is_valid_store_path` compares
  with the same id.  So a manifest found in one batch's directory can have another batch removed, whatever that one's own
  manifest says, although a comment (215-217) has the check stop "one batch's manifest from reaching into another's
  payload" and another (507) has the central directory "not read from the manifest — always safe".  With `ReachesOwnOnly` as the
  property of RecycleHarsh.cfg, TLC finds this.
* `flush` and the writer share one TinyDB handle without a lock, although `_get_db` says it is
  never used concurrently; interleavings inside the handle are not modelled, only whole reads and rewrites.
* A restore, like `safe_move`, can overwrite a file that appears between `unique_destination` and the move.
* A run reported as "stopped" by its timeout goes on in its thread: cancelling `asyncio.to_thread`
  does not stop one.
* A second cancel, before the first has arrived, publishes `cancelled` again.
* A module the client has left stays subscribed until the tab is closed.  `module_loaded` and `module_degraded` have no
  subscribers.  A manifest that does not parse is retried, and reported, for every page.

In bulk_renamer:

* Off Windows a rename that only changes case on a file system that folds it passes preview and check and is then refused by
  `os.link` (`logic.py:448`), although the module's docstring allows it.
* A rename whose unlink fails leaves both names and is reported as skipped, so it cannot be undone; a
  timeout abandons the result of a run that still renames, so it cannot be undone either.
* A preview of another client replaces the plan on every screen, since `previewed` is a global topic.
* On a POSIX system that folds case, a preview may promise two names that differ in case only to two
  files, because paths compare by case there; the second is then skipped.

In duplicate_finder:

* The walk follows symbolic links to files (`logic.py:282`): with `Linked = {"a"}` and nothing else to check in DuplicateFinder.cfg, TLC finds
  `OneCopyStays` violated by a link that is kept and its target recycled.
* Two resolves that keep different files of one group recycle both: `_is_running` is tested before the
  dialog and set after it.
* A recycled link is recorded under the path it led to (`source.resolve()`), and is restored there.
* With "Manual", the radio shows the first file as chosen, but nothing is stored until it is
  clicked, and the group is skipped.
* `filecmp` remembers outcomes by type, size and mtime, so an edit that keeps both goes unseen.

In file_filter:

* A run takes its folder and exclude patterns from the form, and the confirmation its counts from the scan: edited in
  between, they disagree.  The dialog says that the originals are copied, then recycled for 24 hours; a Move
  moves them, and only its Undo button brings them back.
* In a flat archive two files of one name get one name, and unpacking keeps the last.  An archive of the same tree
  in the same second replaces the earlier one.
* A cancelled Move has moved files and never offers to undo them.  An undo that overlaps a run can put its own result in
  `_last_result` between that run's end and its announcement.

In the converters (TLC finds each of the first three with the property named as the invariant of Converters.cfg):

* A probe that fails returns a `MediaInfo()` whose `has_audio` is False: a clip with sound is passed over, or encoded mute, and the
  run reports success (`SoundIsKept`; `media_suite/logic.py:411`, `433`), although the docstring (674-675) has the operations "say so".
* Of a clip whose length is unknown nothing is reported during the encode (`HeartbeatShown`; `media_suite/logic.py:620`),
  although the docstring (522-523) promises "a heartbeat".
* The table of contents of a chunk, on by default, is not counted (`FilesFit`; `llm_packager/logic.py:413-417`), although a limit
  "caps each output file's token count" (`llm_packager/constants.py:74`).
* FFmpeg's own limit is an hour, that of a run five minutes: the run's "was stopped" comes first and is untrue, and
  the limit is only looked at when a line of progress arrives, so a silent FFmpeg is never killed.
* To MP4 of a clip that lies at its own target: FFmpeg refuses, and `_discard_partial_output` then deletes the source.  A
  failed re-encode likewise deletes the good output of an earlier one; image and document conversions overwrite a source
  that lies at the target.
* Inputs of one stem overwrite each other's output without a word, and the result lists the path twice.  So do a run and the thread
  of an abandoned one.
* The unlocked copy of a PDF stays if the run is abandoned, or fails, between its writing and the
  converter opening it; two documents of one stem share its name.
* A source that vanishes during a run makes it fail at the end, with all outputs written.  After a cancel, the media panel's
  button keeps its "working" text.  Merged documents and packages of one second replace each other.

## Not modelled

Layout and styling; logging; pixels, text and bit rates inside the conversions; elevation dialogs; the fuzzy
scoring of the palette; the validators and formatters.  Inside
modelled parts: `storage.reset` (tests only), a stored `None`, `psutil.AccessDenied`, a clock coarser than
two recycle calls, files moved over directories, a manifest whose id
leads out of the store, an `OSError` of `_write_manifest` beyond a missing directory,
subdirectories in the renamer, the order in which NiceGUI runs its startup hook and first page, a file removed by Pillow after a
failed save, an `OSError` in `_discard_partial_output` or while FFmpeg is being read (`media_suite/logic.py:568`, which kills it and leaves the partial
file), an `on_load` that raises after it has subscribed (its handlers stay).  Other file-system calls made in one step: `shutil.move` and `safe_move` across volumes.

## Plan

1. *Composition*: the undo handler of the file filter with the protocol of ModuleRun; the panels of the converters with it.
2. *Pure algorithms*: palette scoring, extensions and safe names, size and
   duration formatting, against reference definitions over bounded inputs.
3. *Abstraction*: an abstract write-behind map that Storage implements in orderly schedules.
4. *Proofs*: that Storage implements the write-behind map of item 3, step by step.
