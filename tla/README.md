# TLA+ models of 7zip-qt

7zip-qt is a Qt file manager (`7zFM`), a worker program (`7zG`) that runs one
archive task in a process of its own, and the code between them and the 7-Zip
library.  This directory holds TLA+ specifications of the parts of it whose
correctness depends on the order of things: shared memory between processes,
crashes, failing file system calls, threads, callbacks and event loops.  The
specifications are checked with TLC on small instances; the theorems in the
`*_proofs` modules are checked with TLAPS for every instance.

Paths below are relative to the repository (`src/...`).  `PROJECT.json` lists for
every definition of a module the lines of code that it models, for every property
a faulty variant of the code that violates it, and the hazards that were found while
reading, with the properties that are about them.

## 1. The system

| component | state | operations | who it talks to | here |
|---|---|---|---|---|
| crash-tolerant lock (`task_ipc_runtime/src/core/shared_memory.cpp`) | a word with the owner's pid in shared memory, a wake-up semaphore, a generation number per process | try, wait with deadline, evict a dead owner, release and notify | every user of task IPC shared memory | `RobustLock` |
| task table, Windows and Linux (`core/slots.cpp`, `..._dispatch_claim.cpp`, `..._completion.cpp`, `core/notifiers.cpp`) | 16 slots: state, session, generation, published and acknowledged event numbers, cancel flag, result; semaphores per owner and per session | dispatch, claim, publish (locked, and minimal without the lock), collect, acknowledge, cancel; owner monitor and cancel waiter threads | file manager and command line launchers, 7zG workers | `TaskIpcTable` |
| per-task mapping, macOS (`core/posix.cpp` and the macOS branches) | one mapping and semaphore a task, one-shot timers, exit notifications | as the table | the same | `TaskMapping` |
| creation of the shared memory (`..._bootstrap.cpp`) | header, layout | create, attach, initialise, remove stale | the same | - |
| 7zG worker (`apps/7zG/main.cpp`) | the claimed task | claim, run the task, publish, publish minimal | table, GUI task runner | `TaskIpcTable`, `TaskMapping`, `GuiTask` |
| 7zG command line launcher (`apps/7zG/cli_bridge.cpp`) | the dispatched task | dispatch, wait for completion or for the end of the process | table | - |
| task IPC client of the file manager (`ui/filemanager/.../nav_task_ipc.cpp`) | notifier, posted polls | poll, acknowledge, refresh | table | `TaskIpcTable`, `TaskMapping` |
| GUI task runner and progress dialogs (`ui/gui/src/gui_task_runner`, `ui/runtime_support`) | the request sequence, tokens, dialog, connections | open, work, close; pause, cancel, answer | runtime session, launcher's cancel | `GuiTask` |
| archive session of the runtime (`archive_application/src/runtime/archive_session_core.cpp`) | state, worker thread, pending prompt | start, cancel, pause, resume | user interface thread, worker thread | `ArchiveSession` |
| native sessions (`native_7z/session/session_registry.cpp`) | open archives, parents, private files, dirty flags | open, change, reopen, commit, close | file replacement | `ArchiveSessions` |
| archive panels of the file manager (`ui/filemanager/src/main_window`) | per panel the session shown and the frames it is nested in; the closer of the window | enter, nest, leave, go up, bind, add, reload, shut down | native sessions | `ArchivePanels` |
| temporary files (`main_window/open/open_commands_temp_session.cpp`, `archive/archive_open_actions*.cpp`) | temporary sessions: directory, snapshot, processes, trackers | extract and launch, notice the end, judge, ask, update, release, finalize | native sessions, other programs, archive panels | `TempFiles` |
| file replacement (`native_7z/core/filesystem_replace.cpp`) | files | move aside, promote, clean up, restore | updates, comments, sessions, extraction | `AtomicReplace`, `ReplaceFile` |
| extraction (`native_7z/callbacks`, `operations_extract.cpp`) | open entry, committed entries, answers, budget | GetStream, SetOperationResult, settle, roll back | 7-Zip handler, file replacement, user prompts | `ExtractEntries` |
| files and directories (`native_7z/info/info_fs_ops.cpp`) | the file system | copy, move, delete, recycle, rename, create | file manager | `FileTransfer` |
| moves out of, into and within archives (`main_window/actions/action_file_ops.cpp`) | the chain of tasks | extract then delete, add then delete, extract, add and delete | native sessions, extraction | `ArchiveMove` |
| other native operations (comment, hash, benchmark, information) | none beyond a call | drive the library | runtime session | partly |
| macOS integration, shell integration, start-up code, 7zSFX, widgets, localisation, payload codec | platform objects, none, none | - | - | - |
| 7-Zip library, build, tests | external | the extraction handler calls back | extraction | - |

What is hard in it, and what makes each component correct:

- **Lock.** Threads of several processes evict the same dead owner in separate
  atomic steps; an owner that takes over in between must not be evicted; a process
  dies inside.  *Correct* when nobody is inside twice, nobody but a live owner itself
  takes the lock from it, and a dead owner does not wedge it.
- **Table and mappings.** The launcher, its monitor, the worker and the worker's
  cancel waiter act on a slot in any order and may die between any two steps; every
  lock may be found busy, and most callers then go on without having done the step;
  slots are used again while old session and generation numbers are still held; the
  fallback publication does not take the lock; on macOS whoever looks, looks once.
  *Correct* when a task is claimed once, is not run after a verdict, has one verdict,
  its owner hears dispatched, claimed and completed in this order without a gap, the
  slot stays until then, and no cancel reaches another task.
- **GUI task.** Requests end and start below the question whether to cancel, the
  launcher's cancel comes from a third thread, questions block the session's thread.
  *Correct* when every opened session is closed on every way out, the launcher hears
  what became of the work, and a cancel ends it.
- **Runtime session.** The worker resets flags, polls them and sleeps on a condition
  variable, the user cancels, pauses and resumes from other threads, and both set the
  session's state by a load and a store.  *Correct* when a final state is final, a
  cancel ends the operation wherever the worker is, no pause is erased, and no worker
  sleeps that nobody pauses.
- **Native sessions and panels.** A change is made in a private file and reaches the
  archive on disk level by level when sessions are closed; any step fails; the two
  panels share sessions, and the map is locked but not the sessions.  *Correct* when
  no reported change is lost, and no session is left open that nobody holds or closed
  that somebody uses.
- **Temporary files.** Programs of other people write and end at any time, also
  before anyone listens; a question is an event loop in which the ends of others are
  handled; the update runs beside the close of its archive; the window closes.
  *Correct* when a file is judged and asked about once, no change is dropped without a
  word, what is reported as updated is, and the directory lives as long as the programs
  and no longer.
- **Replacement.** Any file system call fails, including the one that repairs; the
  process dies in the middle; another process replaces the same file.  *Correct* when
  a complete copy of the file is always there, a failure leaves the original and a
  report is true.
- **Extraction.** Names collide with files and with entries extracted before, by
  overwriting and by renaming; budgets and cancellation stop the run between or
  inside entries; the rollback undoes what went to one name several times.
  *Correct* when a rollback restores the directory, files the user did not give away
  survive, and nothing is reported that is not there.
- **Files, and moves with archives.** A move is a copy and a removal; both stop half
  way, other programs and other tasks come in between.  *Correct* when no data is
  lost that nobody agreed to lose, and what was moved is gone from its old place.

## 2. The modules

| module | models | extends or instances |
|---|---|---|
| `RobustLock` | the lock, one compare-and-swap or store a step | - |
| `TaskLifecycle` | abstract: what a launcher and a worker are promised of a task | - |
| `TaskIpcTable` | the table with launchers, workers, monitors, cancel waiters | refines `TaskLifecycle` |
| `TaskMapping` | the mapping of each task on macOS, with timer and exit monitor | refines `TaskLifecycle` |
| `GuiTask` | the main thread of a worker: requests, dialog, the cancel of the launcher | - |
| `ArchiveSession` | worker thread of an operation against cancel, pause, resume | - |
| `ArchiveSessions` | the registry of open archives and archives in them | - |
| `ArchivePanels` | two panels and the closer over that registry | extends `ArchiveSessions` |
| `TempFiles` | files of an archive given to other programs, beside the panel's tasks | extends `ArchiveSessions` |
| `ReplaceFile` | the outcomes of one file replacement, as one step | - |
| `AtomicReplace` | the replacement, one file system call a step, several processes | `ReplaceFile` for the outcomes it is shown to have |
| `ExtractEntries` | extraction of files with commit, drop, rollback | `ReplaceFile` for every commit |
| `Trees` | file trees as functions from paths, and what calls do to them | - |
| `FileTransfer` | copy, move, delete, recycle, rename, create on files | `Trees` |
| `ArchiveMove` | chains of tasks between a folder and an archive | `Trees` |
| `TaskIpc_proofs` | theorems | `RobustLock`, `TaskIpcTable` |
| `Replacement_proofs` | theorems | `AtomicReplace`, `ExtractEntries` |
| `Trees_proofs` | theorems | `FileTransfer`, `ArchiveMove` |
| other `*_proofs` | theorems | the module named |
| `MC...` | instances for TLC | the module named |

How they hang together: `RobustLock` shows that critical sections exclude each
other, and `TaskIpcTable` and `TaskMapping` therefore take a critical section as one
step.  Both are shown to implement the same `TaskLifecycle`.  `AtomicReplace` shows
that an undisturbed replacement ends in one of the outcomes of `ReplaceFile`
(`OutcomeIsListed`), and `ExtractEntries` and the commit of `ArchiveSessions`
therefore take a replacement as one step.  `ArchiveSession` is what `GuiTask` reduces
to a few steps: a session resets its flags, asks, polls and ends.  Every step of
`ArchivePanels` is a step of `ArchiveSessions` or leaves the registry alone, which is
a theorem (`PanelsUseRegistry`).

### RobustLock

`word` is `RobustLockRaw::locker_pid`.  `pc` says where a thread is in
`try_acquire_lock` (`cas`, `probe`, `steal`, `retake`), in
`wait_for_shared_memory_lock` (`wait`) or in the destructor (`holding`, `unlock`,
`notify`).  `seen` is the owner that the first compare-and-swap returned: it is
probed with `process_is_alive` in a later step than it was read, and evicted in a
still later one.  `permits` is the count of the named semaphore; `Deliver` is the
waiter thread that every process runs; `woken` abstracts the comparison of
generation numbers.  `Crash` takes all threads of a process and leaves the word.

Abstracted: pids are not reused while the word names them; the deadline of a
waiter may pass whenever it sleeps; the lock is always attached.

### TaskIpcTable

`slot` is the array of `TaskIpcSlotRaw`; the fields that matter are kept, the
payload references, pids and texts are not.  `window[o]` is the main thread of
launcher `o`, which dispatches (`spawn`, `record`, `post`) or handles a batch of
collected events (`handle`); `worker[s]` is the process started for session `s`;
`watch[s]` its cancel waiter; `signals` and `cancels` are semaphores.  `heard`,
`verdict`, `toldAs` and `asked` are history variables for the properties.

- One critical section is one step.  Where an operation gives up on a busy lock
  (collect, acknowledge, record the worker's pid, give the slot back, claim,
  publish, query the cancel flag) its action has a branch for that, enabled by
  `Contended`.
- `publish_task_ipc_completion_minimal` takes no lock: it is five steps, a check,
  three stores and a post.  Stores of the result and its summary are one step,
  because they are read under the same critical section.
- Time: `aged` of a slot says that the 15 seconds after which a dispatched task
  counts as unclaimed have passed since `updated_msecs`; any store of
  `updated_msecs` resets it.
- `Reclaimed` is what `reclaim_stale_slots` makes of the table; every operation
  that calls it does it in its own step.
- `request_task_ipc_cancel` belongs to the public interface of the library;
  the repository's programs do not call it, so `Cancel` is any holder of the
  task's reference, at any time.

### TaskMapping

The same on macOS, where a task has a mapping of shared memory of its own: `slot[t]`,
the launcher's `registry` of mappings, `linked` (the names exist), `timer[t]` and
`exits[t]` for the two one-shot sources that look for a task nobody claims and for a
worker that is gone.  The semaphore, the waiter thread and the dispatcher's queue are
one counter `signals`.  `fresh` of a slot says that `updated_msecs` was refreshed after
the timer was set, so that the timer finds the task too young; `Unreaped` allows the
exit to be notified while `kill(pid, 0)` still finds the process.  `missed` records the
tasks that a source looked at in vain.

### GuiTask

`ui` is where the main thread of the worker is between the claim and the delivered
result, `request` which of open, work and close is active or next, `tokens` how many
archives the sequencer has opened (`async.cpp`), `opened` which sessions are in the
registry, `worker` the thread of the active session, whose end is posted to the main
thread (`posted`).  The two steps of `bind_session_controls` (look at the atomic,
connect to the signal), the notifier's thread that stores the atomic and then emits,
and the reset of the flags by the session's thread (`Begin`) are apart, because they
race.  The question whether to cancel is an event loop inside the event loop:
completions are handled below it, and its answer goes to the session that is active by
then (`Confirm`).

### ArchiveSession

`state` is `ArchiveSessionCore::state_`; `setting[t]` the call of `set_state` that
thread `t` is in (load, then store), and a thread that is in one does nothing else.
`cancelRequested`, `pauseRequested` and `active` are the atomics of the backend,
`active` standing for the one flag of `supports_pause` that the operation sets.  The
worker's `pc` follows `run_worker`, `OperationRunner::run` and the envelope: `reset_cancel`,
`reset_pause` and `activate` are the stores of `run_with_pauseable_operation`, `poll`
to `poll_cancel` the loads of `wait_while_paused` and `should_abort`, `leave_...` its
guards' destructors.  `drowsy` is the place where the predicate of the wait was false
and the thread does not sleep yet: a `notify_all` of a thread that does not hold the
mutex, as `cancel` and `resume` do it, goes to nobody then.  Clients are threads that
hold the `ArchiveSession`: a progress dialog, the C API of macOS.  `asked`, `warned`
and `missed` are history variables.

The handler is external: it emits a first event (`Announce`), calls back (`Poll`),
and ends with any outcome.  Abstracted: partial success counts as success and a wrong
password as a failure; progress, diagnostics and the delegate's answers are left out; a
question nobody could answer turns the outcome into a failure (`Finish`).  One
callback polls at a time.

### ArchiveSessions and ArchivePanels

One archive file holds at most one archive per level, and its data is the set of edits
in each level; `session[t]` is what a session object has read (`view`), its private
file, whether it is buffered in memory and whether it is dirty; `registered` are the
keys of `sessions_`.  A call is several steps: it looks its token up (`Begin`), works,
and for closing commits to the parent or to the root and erases, so that calls of two
threads meet on one session.  A call fails at any step of it.  `via`, `acked` and
`excused` are history: the edits a user was told of, and those that he should not
expect to be kept (made while another thread closed the session, say).

`panel[p]` is the archive state of a panel: whether it is in an archive, the session
shown and the stack of frames.  `task` is the chain of backend calls that the user
interface runs; each action takes one callback.  `closing` is the queue of the
`DetachedArchiveSessionCloser`.  Abstracted: the user waits for a task before starting
the next one, and every view shows the root directory of its archive.
The sessions that a task closes are a set, of which it takes the innermost: the code
lists the session shown and then its frames from the last to the first, and a frame is of
the level that is its place.  `torn` is history: the panels one of whose tasks closed some
of their sessions and then failed, and those that took the frames of such a panel.
`restore_archive_writeback_plan_for_panel` has no caller and is left out.

### TempFiles

`temp[s]` is an `ArchiveTempSession` together with the file it extracted and what is
known of its processes: `programs` run, `notices` are signals and posted calls that the
event loop has not delivered, `refs` says who holds the shared pointer (the window's
list, a connection to a process, the poll of Windows, the update), and the directory is
there as long as anybody does.  `Handled`, `Released`, `Finished` and `Drained` are the
handlers; `asking` is the stack of open questions, of which only the last can be
answered; `DeleteProcess` is `deleteLater`, which waits for the event loop that it was
called in.  The panel enters and leaves its archive (`Enter`, `Leave`, `CloseStep`), with
a session or, after a path led into it, without one; an update then reads the archive
file and replaces it (`UpdateDisk`).  `CloseWindow`, `Finalize`, `DispatchClose` and
`Quit` are the shutdown up to the end of the process.

Extraction, snapshot and start of the program are one step, because one call of the
event loop does them.  The time of a file stands for its size and modification time: a
write may leave it as it was.  The save, the removal and the end of a program are
external.  `questions` and `story` are history: what was found when a file was judged,
what the user was told, which edit the update made, and whether it was replaced on disk.

### ReplaceFile and AtomicReplace

`files` maps the destination, the new files and the backup paths to contents.
Content is named after the replacement that brings it.  `pc[r]` is the next call of
replacement `r`; `result` the flags of `AtomicReplaceResult`.  Every call may
fail where `Faults`; a rename of a file that is not there fails always.  The error
code is followed exactly: after a failing rename onto a destination that did not
exist it is overwritten by the probe for the source (lines 134-137).  `disturbed` is
a history variable: the replacements in whose middle another process made a step.

### ExtractEntries

`folder` is the output directory with final names, partial files and backup paths;
`pending` is `pending_entry_`, `entries` the committed entries.  An action is a
callback: the `GetStream...` actions are the branches of `GetStream` (refused,
new file, skipped, overwritten, original renamed, extracted file renamed, failed),
`ResultOK` and `ResultBad` are `SetOperationResult`, `SettleByRollback` and
`SettleByKeeping` are what `run_extract_on_arc` does after the handler returns; a
rollback undoes one entry a step (`UndoEntry`, `undo`) and then reports (`RollbackEnds`).
The handler itself is external: it calls GetStream for every entry in order,
SetOperationResult after each one opened, and may return in between when it is told
to abort.  A run is on a file system that works or on one where any call may fail
(`request.faults`).  Policies without a rollback differ in their message only, so the
instance has one of them; without a budget is a limit that is never reached.  The user may cancel at any time; answers to the overwrite
prompt are chosen freely, with and without "to all".

Left out: directories (they are created on the way and are never rolled back),
links, attributes, passwords, path safety (an unsafe path is `GetStreamFails`), the
memory sink and progress.  Bytes are counted as one an entry.

### Trees, FileTransfer and ArchiveMove

A tree maps paths to `Directory` or to the data of a file, which is named after its
first path; `torn` is half a copy and `other` what another program or task brought.
A behaviour is one request on one of all trees of the bound.

In `FileTransfer` a request works on one source after the other, up to the first that
fails; copying a tree may stop in the middle and leave a part, removing one too
(`Parts`).  The dialog checks that no source is its own destination and then asks, a
drop overwrites without that check, and the other modes are what the backend has
beyond.  In `ArchiveMove` a request is a chain of tasks, each started by the callback
of the one before; `chain.files` and `chain.directories` are what the extraction
reports, and `DeleteEntries` what is made of it.  History are `kept` and `owed`, the
data nobody agreed to lose in a transfer and in a move, `taken`, the paths that moved as
asked, and `overreach`, the data that a move deletes though it did not transfer it.

## 3. The runs

Each takes from a second to two minutes.

| run | instance | distinct states | what it shows |
|---|---|---|---|
| `robust_lock` | 2 processes, one with two threads, 1 crash, fairness | 204,457 | exclusion, that a live owner is not evicted and a dead one is; two threads of one process evict its dead peer at once |
| `task_ipc_table` | 1 launcher, 1 slot, 2 tasks, busy locks, every crash, one cancel, generations 1 and 2 | 957,355 | the safety of the table and the refinement of `TaskLifecycle` |
| `task_ipc_table_live` | the same without busy locks, fairness | 37,838 | events are handled once, every task is over for its launcher, a cancel reaches the worker |
| `task_mapping` | 1 task, busy locks, late reaping, every crash, a cancel, fairness | 39,886 | the mapping of macOS refines `TaskLifecycle`, a claimed task is over for its launcher, a cancel reaches the worker |
| `gui_task` | up to 2 nested archives, 4 clicks, fairness | 51,695 | what was opened is closed, what is told of the task is true, the launcher's cancel ends it |
| `archive_session` | 2 clients with 2 calls each, every envelope, fairness | 1,003,836 | final states stay but for stragglers, cancels stop work and end the operation, pauses are not erased, sleepers are woken |
| `archive_panels` | 2 panels and the closer, 3 levels, 4 sessions, 1 edit, 1 failing call | 8,244,954 | a reported edit is on disk or in an open dirty session; no session is left that no panel holds, closed before its children, or closed under the other panel |
| `temp_files` | 2 temporary sessions with up to 2 programs each and the panel, 1 session of an archive, 2 edits, 1 save, 1 failing call | 6,206,876 | files are judged and asked about once, no change is dropped silently, what is told to be updated is, the directory lives as long as the programs |
| `atomic_replace` | 2 replacements of one file, calls failing anywhere, crashes | 12,046 | a copy survives; failures keep the original; outcomes are those of `ReplaceFile` |
| `extract_entries` | up to 3 entries onto 2 colliding names among 4, every mode, answer and two budget policies, on a working and a faulty file system | 8,561,410 | rollback restores, no debris, files survive, reports are true |
| `file_transfer` | trees of 2 names and depth 3, up to 2 sources, 1 file of another program | 1,672,563 | no data is lost but by consent, nothing moves but as asked |
| `archive_move` | up to 5 entries and files of 2 names and depth 2, 2 selected rows, 1 entry of another task | 977,427 | a move deletes what went over and nothing else, but for what section 5 lists |

Why the bounds are enough.  The lock's races need a dead owner, a
thread that saw it, one that took over, and one that evicts late: a crash and three
threads have them all; more is covered by the proof.  The table's races are between
one task and the next in the *same* slot, so one slot and two tasks are the dense
case; slots do not interact otherwise than by which one is free, and `Reserve` picks
one of those.  `MaxGeneration` is 2 so that the wrap-around past 0 happens at
the second reuse; in the code it happens after 2^32 - 1 reuses, and a session
number is never used twice in the model, as it is 64 bits wide in the code.
Tasks of macOS share nothing but the launcher's main thread and its registry, so one
task is run, and the theorems cover any number.  Two nested archives give a failure
before, between and after opened levels, and four clicks a pause, a question, its
answer and another pause.  Two calls of each of two clients of a session put a pause,
a resume, a cancel and a second pause into every step of the worker.  With three levels and two panels there is a dirty child with a dirty parent, and a session is shown by one, a frame of the other, and nested
in a third.  Two
temporary sessions give a question below a question, two updates of one archive, and an
update beside the close of the panel; two programs of one session give an end before and
one after the connection of its signal.  Two replacements give every overlap of pairs.  Three entries onto two
names give an overwrite of an overwritten file, a rename onto the name of a later entry,
and a rollback through both.  Trees of depth three have a directory that moves into
itself and a file below a directory that is being replaced; two sources, a source
inside of the other, and two with one name.

The names of the bounds: `MaxPermits`, `MaxCrashes` (lock); `MaxSession`,
`Cancellable`, `MaxGeneration` (table); `Cancellable` (mapping); `Depth`, `MaxClicks`
(GUI task); `MaxCalls` (runtime session); `MaxTokens`, `MaxEdits`, `MaxFaults`
(sessions and panels);
`MaxLaunches`, `MaxSaves` (temporary files); `MaxEntries` (extraction); `MaxDepth`,
`MaxSources`, `MaxWrites`, `MaxExisting`, `MaxSelected`, `MaxAdditions` (files and moves).
`CHECK_DEADLOCK FALSE` is set where the system is over at some time: all tasks
dispatched and heard, all calls returned, the run settled.  The lock has no such end,
and deadlock is checked there.

The type invariants of the modules with proofs are proved rather than run, and so are
`EventsGapless` and `DirtyHasFile`: they hold on the instances above and are in no `.cfg`.
`ArchiveSessions.cfg` is an instance of the registry alone, for use by hand: two threads,
two levels, three sessions and two edits, any call failing (3,416,356 states,
`DirtyHasFile`, `EditsKept`).  Its interleavings of threads are those of `temp_files`, its
levels those of `archive_panels`.

### Fairness

- Lock: a thread that entered goes on (weak fairness of `Advance`), the waiter
  threads run (`Deliver`), and the owner monitor tries the lock every 100 ms
  (`core/notifiers.cpp`, `monitor_loop`), which is the fairness of `TryLock` for the
  threads in `Pollers`.  Nobody has to enter otherwise, and nobody has to crash.
- Table: threads of a living process go on, the monitor polls, and time passes
  (`Age`).  There is no fairness for `Finish` (a job may run, or a dialog be open,
  for ever), for dispatching, cancelling or crashes.  The guarantees are stated
  without busy locks, because with them the code gives up for good in several
  places: a poll whose collect finds the lock busy uses up its post, and one busy
  query ends the cancel waiter.
- Mapping: threads of living processes go on, a timer that is set fires and the exit
  of a process is notified.  Jobs may run for ever.
- GUI task: the main thread, the notifier's thread and the session's thread run on;
  an operation polls again and again, also between two questions (strong fairness of
  `PollCancel`), and closing comes to an end.  Nobody has to answer, click or cancel.
- Runtime session: the worker thread and a client inside a call run on, and a handler
  calls back or ends.  No call has to be made, and no sleeper is woken spuriously by
  right.

What the liveness properties except, each a real way to wait for ever:
`EveryTaskIsHeard`, a job that never ends and a worker that dies between its verdict
and its post (`mute`: the table holds the verdict, but the monitor looks for claimed
slots only; the launcher hears of it with the next post for any of its tasks);
`ClaimedTaskIsHeard`, a task that the exit monitor looked at in vain;
`CancelledSessionEnds`, a notification that came before the worker slept (`missed`);
`LauncherCancelsTask`, a cancel that the active request missed (`dropped`), a question
nobody answers and a message nobody closes.

## 4. What is proved

With TLAPS, for any number of processes, threads, tasks, replacements, levels and any
bounds.

- `TaskIpc_proofs`, of the lock: `LockTypeCorrect`, `LockInvariant`, `LockExcludes`,
  `LiveOwnersKeepTheLock`.  Mutual exclusion is not inductive: a thread may be about
  to evict.  `LockInv` adds that threads that run belong to live processes, that a
  thread inside has its process's pid in the word, and that the owner a thread is
  about to evict is dead: since no process comes back, the compare-and-swap with that
  pid cannot hit a live owner.  Exclusion then follows because a thread enters
  only when the word is 0, and then nobody is inside.  The assumptions are
  that threads have processes and that 0 is no pid.
- `TaskIpc_proofs`, of the table: `TypeCorrect`, `TableInvariant`, `WorkersRunUnjudged`
  (`NoRunAfterVerdict`), `CanceledOnlyIfAsked` (`NoForeignCancel`),
  `KeepsSlotsUntilHeard` (`SlotKeptUntilHeard`), `TableImplementsLifecycle`, the
  refinement of `TaskLifecycle`, and `HearsWithoutGap` (`EventsGapless`), which follows
  from it.  The invariant says
  of slots that an empty one is clean, of sessions that no two slots have the same one
  and that what is not yet dispatched is unknown to everybody, of verdicts that one is
  known exactly if the completion was published, of windows that a task waiting to be
  spawned still has its slot, and of workers that a running one has its slot, claimed
  and unpublished.  That a slot's cancel flag implies `asked` for *its* session needs
  that only `clear_slot` leads to an empty slot.  For the refinement, `Stages` adds
  that a slot has not acknowledged what its launcher did not hear, that its result is
  the verdict once the completion is published, that nobody hears of a task while its
  worker is about to be spawned, which is when an offer may be withdrawn, and that the
  events a window collected have no gap above what it heard.  `StagesAdvance` and
  `AdvanceKeepsStages` carry most steps: a slot stays, publishes more, or is cleared
  when its completion is out or nobody collected from it.  `HandlesOnce` (`HandledOnce`)
  assumes `~Contended`, as its run does: an acknowledgement that finds the lock busy is
  dropped and its event does come a second time.  Its invariant `Once` is the converse of
  `Stages`: nothing was heard that the slot does not have acknowledged, and each
  collected event is above what was heard, belongs to one launcher only, and names the
  slot its task is in, if any, by the right generation; else an acknowledgement would
  miss the slot.  `CancelIsNotLost` (`CancelStands`) is the safety that the liveness of
  a cancel rests on, with busy locks and without: while a worker runs a task that a
  cancel was stored for, the flag is in its slot, and its waiter does not wait without
  a post.  Its invariant `Heeded` says that the flag stays in the slot of its task while
  that slot is the task's, that only a task that was started is cancelled, and that a
  worker waits only once it runs the task: the post is sent under the lock the waiter
  looks for the flag under, so a waiter that saw no flag is there to be posted to.
- `TaskMapping_proofs`: `TypeCorrect`, `WorkersRunUnjudged`,
  `MappingImplementsLifecycle`, the refinement of `TaskLifecycle`, and `CancelIsNotLost`,
  the same of the cancel as above, while the launcher lives and with its post possibly
  still to be sent.  The invariant ties
  the place of the worker to the state of its slot.  `Stages` adds what the refinement
  needs: sound slots, a task is not published before its worker is spawned, and the
  events in the launcher's inbox come in order after what was heard.  Each action is
  then shown to be a step of the lifecycle for one task or to leave its stage alone.
- `GuiTask_proofs`: `TypeCorrect`, `SessionsAreGivenBack`, `TaskToldTrue`.  The
  invariant relates the main thread's place to the thread of the session, the opened
  levels to `tokens` and the request that is active, the outcome to what was worked,
  the wish to cancel to the flags that carry it, and the pause flag to the dialog.
- `ArchiveSession_proofs`: `TypeCorrect`, `FinalStatesStay`, `CancelStopsWork`,
  `NoPauseIsErased`, `SleeperIsWoken`, for any number of clients and calls.  Each rests
  on an invariant of its own.  `FinalOnce`: only the worker stores a final state, once,
  and is done then; so a call that began too late and still gets past the check does so
  behind a straggler that had overwritten the final state, and no final state comes
  after it.  `CancelKept`: a cancel stored between the two resets stays stored, and
  what the last poll was told of is among what was stored.  `PauseGuarded`: nobody is
  about to pause before the operation is active.  `WakeTraced`: `WakeIsComing` followed
  back through the loads of the wait's predicate, where a cancel that is already past
  its notification must have been noticed as missed.  The assumption is that the worker
  is no client.
- `ArchivePanels_proofs`, of the registry: `TypeCorrect`, `DirtySessionsHaveFiles`
  (`DirtyHasFile`) and `EditsAreKept` (`EditsKept`).  `IInv` says that contents have the
  levels of their archive, that sessions are sound and placed below their parents, and
  that calls are on sessions there are.  `EditsKept` is far from inductive: whether an
  edit is on disk says nothing of a stale copy that a sibling is about to commit.
  `EditsInv` follows each edit on its way up instead.  `PassedOn`: an edit that is known
  anywhere beyond a session it had to pass is in that session's file, so a commit takes
  nothing away from above but what a sibling made (which the property excepts).
  `CarriedUp`: a session that has the edit and will not commit it, because it is clean or
  being erased, has handed it to the disk or to a session above that will.  `AckedHere`:
  what was reported is in the file of the session it was made in.  Adding, deleting an
  entry and committing a child are writes to one session, and `WriteKeepsEdits` does them
  at once; the commit of a root, a new session and the steps of calls have lemmas of
  their own.
- `ArchivePanels_proofs`, of the panels: `PanelsUseRegistry`, every step of the panels
  and of the closer is a step of the registry or leaves it alone, and therefore
  `PanelsKeepFiles` and `PanelsKeepEdits`.  Beyond that `PanelsHoldSessions`
  (`HeldSessions`), `PanelsKeepParents` (`ParentsStayOpen`) and `PanelsShareSessions`
  (`SharedSessionsKept`), for any depth and any number of sessions.  None of the three
  is inductive: a task takes the view of its panel apart before it knows whether it
  will succeed, and puts it back if not.  The invariant `Holding(rest)` therefore speaks
  of views that are not in the state, `rest`, those that the panels had when the task
  started: `Shows` says how the panels differ from them by now (going up has taken a
  frame off, nesting has pushed one), `Regular` and `Chained` that each frame is of the
  level that is its place and the parent of the next.  `Owned` says that a task closes
  what it takes out and the other panel has not, and that only; `Unseen` that what it
  opened is in no panel and clean; `Kept`, `Covered` and `Parents` are the properties as
  they are in the middle of a task; `Working` that a close under way is of an innermost
  session.  `NothingInside` is the step on which the rest hangs: a session that is
  erased has no open session in it, because such a session would be in a view that has
  its parent too, so in the same panel and in the same task, and closed before.
  `PanelsInv` adds `Ending`, the state after the window was closed.
- `TempFiles_proofs`: `NoSilentLoss` (`NothingLostSilently`), `DirectoriesKept`
  (`KeptForPrograms`), `JudgedOnce` (`AskedOnce`), whatever the registry does, and
  `UpdatesAreKept` (`UpdatesKept`).  For the first three, the
  invariant `Good` relates a session to its story.  What is judged is handled, which is
  why the second end of a program finds nothing to do.  While a session is open, the
  programs, the notices under way and the count of the tracker belong together
  (`Waits`), so the tracker cannot reach zero before the last.  The update is the one
  stage with a reference of its own, and what it wrote is at least what was found
  (`Accounted`), since files only grow older.  `Queued` says that the nested questions
  are about different sessions and that the sessions that closing still goes through
  were open or are handled, so that it ends none that was never started.
- `UpdatesKept` does not follow from `EditsKept`, which knows nothing of edits that reach
  the disk without a session or of a disk that another update replaces.  All sessions
  are roots here (`Roots`), and a call belongs to the session that updates or to the
  panel's close (`Calls`), so `UpdatesInv` follows an edit from the disk and the private
  files alone.  An edit is `Safe` on disk, or in the file of a session that is dirty,
  registered and *not yet being erased*: a commit moves it to the disk first and erases
  after, and what is written in between is what the property excepts.  That an update
  is told of its own edit, and that what it finds on disk is not its own, needs that no
  two updates have one number: those made in sessions count from the first, the others
  from the last, and as each temporary session updates once there are never more than
  `MaxEdits` of them (`Numbers`).
- `Replacement_proofs`, of one replacement: `TypeCorrect`, `LastCopyStays` (`CopySurvives`),
  `OriginalIsKept` (`FailureKeepsOriginal`), `CallersSeeOneStep` (`OutcomeIsListed`,
  which is why other modules may use `ReplaceFile` as one step).  The only
  step that removes a file is the clean-up of a backup.  `SomebodyHolds` says that
  while anybody is about to clean up, the destination exists or somebody who is *not*
  about to clean up holds a copy at its backup path: true when a promotion has just put
  the file there, and kept by a competitor that moves it aside, who then holds it.  Type
  correctness needs `Unreported`: a report is made at the end of a call only.  A call
  that nobody disturbs is followed with `Course`, which says what the files are at each
  of its places in terms of those it found; that a restore gives back what was found
  needs `BackupFree`: nothing is at the backup path before.
  The assumptions are that the paths of different calls are different
  (`PathsAssumption`), which in the code rests on clock readings and probes, and that
  contents can be told apart.
- `Replacement_proofs`, of an extraction: `ExtractTypeCorrect`, `RollbacksRestore`
  (`RollbackRestores`), `OriginalsAlwaysSurvive` (`OriginalsSurvive`), `NeverDebris`
  (`NoDebris`), `ReportsAreExtracted` (`ReportedIsExtracted`), for any names, alternative
  names, number of entries, modes and limits.  Everything rests on `Fitting`: the pending
  entry has its partial file, its original is still there or was renamed away, and the
  partial files and backups of entries are their own.  That nothing of the user's is
  lost needs that a file is under its own name unless originals are renamed (`Homes`):
  else an entry could overwrite what the user was never asked about; and that a backup
  is of the file its entry has overwritten (`BackupOwners`): else the clean-up at the end
  could remove another one.  That a rollback restores is an argument about the whole run:
  `Retraces` says that there is a sequence of directories from the first to the present
  one, without the pending entry, in which undoing an entry leads from one to the one
  before.  A commit adds to it, a drop returns to its end, and the rollback walks it back.
  The assumptions are that entries, names and `Absent` can be told apart.

- `Trees_proofs`, of file transfers: `TransferTypeCorrect`, `TransfersLoseNothing`
  (`NothingLost`), `FilesStayInPlace` (`StaysInPlace`), for any names, depth of paths,
  sources, modes and answers.  Lemmas about paths and trees come first: what is above and
  below a path, and that each call on a tree (`Without`, `WithParents`, `WithFile`,
  `Renamed`, `WithPart`) leaves a tree and what it leaves where.  `NothingLost` is not
  inductive: the next call may remove the only copy.  `SparesWhatGoes` says of each stage
  that what it is about to remove or write over is `Spare`: no file in it is one that is
  to stay in its place, and all its data that is kept is elsewhere too.  A copy in full
  makes its source spare, a yes takes the data of the destination out of what is kept, and
  the name that a rename or a creation found free holds nothing but what another program
  put there since.  `RequestFits` says that destinations, backups and new names are paths
  with the length and parent they were made with.  The data of a file being a path, a file
  `Other` or `Torn`, a request that starts finds every file with the data of its own
  place, or of other programs, which deleting to the recycle bin needs when it fails half
  way.

  Of moves: `MoveTypeCorrect`, `MovesLoseNothing` (`MoveLosesNothing`), `MovesMove`
  (`MovedIsGone`), for any names, depth of paths, archive, file system, selection and
  number of entries that other tasks add.  The chain decides at each task by what the one
  before reported, so neither property is inductive.  `Moving` says what a report is worth
  at each stage.  Out of the archive (`OutOfArchive`): what was reported is in the archive
  as it was, a file or a directory, and a file's data is on disk unless somebody agreed to
  lose it there.  Within it (`WithinArchive`): the temporary directory, later the archive,
  has the data of each file under its new name, and nothing under the old one is in that
  directory, so that the deletion cannot reach the copy.  Into it (`IntoArchive`): until
  the sources are removed nothing but them has changed, no two of those that go have one
  name, and what is still on disk of them is in the archive.  What a deletion takes is
  then a file that went over, or is below a directory that nothing below was reported of:
  an entry that another task added, or a skipped one, which is what `overreach` collects.
  That what is added is an archive again, without an entry below a file, is `MergedIs`;
  that the sources arrive under their own names, whichever the lookup by name picks,
  `FromSourcesIs`.

Only model-checked: liveness.

## 5. What the code does that one may not expect

No run expects a violation: nothing below contradicts a document, comment or test.  The
models do as the code does, and the properties except it where they must.

- Lock: a release posts one permit, which the waiter thread of any process may take, the
  releasing one's own included; a waiter elsewhere then sleeps to its deadline and
  reports a busy lock that is free (`shared_memory.cpp:196`).  A pid that was given to
  another process keeps the lock of a dead owner busy (`kill(pid, 0)`), which is not
  modelled.
- Table: the unlocked completion may store its state into a slot that was handled and
  cleared after its event number had become visible; the slot, empty or another task's,
  is then marked completed.  A completion that is heard clears its slot at once, so
  `reclaim_stale_slots` never finds any, and slots of dead launchers stay taken;
  `kCompletedOrphanReclaimMsecs` (`constants.cpp:20`) is not used.
- macOS: the unclaimed timer is set at the dispatch and refuses a slot whose
  `updated_msecs` is younger than 15 seconds, which recording the pid and acknowledging
  the dispatch make it; so it hardly ever publishes.  The look of the exit monitor may be
  in vain (lock busy, pid not recorded, process not reaped), and nobody looks again.
- Creation: an attacher that sees a header of zeros removes the name of the memory that
  its creator is about to initialise; the two then use different memories.
- Runtime session: a cancel or resume notifies without the mutex, and a paused worker that
  is about to sleep misses it.  A cancel that comes before the operation resets its flags
  on the worker thread is erased.  `set_state` lets a straggler overwrite a final state;
  `FinalStateStays` bounds that to calls that began before it.
- GUI task: a completion below the open question whether to cancel closes the
  `WA_DeleteOnClose` dialog whose message box is on the stack (`async.cpp:300-330`).  A
  request that starts below a pause runs while the dialog says "Paused".  A task that
  failed or was cancelled is reported when the user closes its message.  The cancel
  question depends on test mode in the file manager's dialog and not in that of 7zG
  (`gui_task_progress_dialog.cpp:13-14`).
- Sessions and panels: at shutdown the outer frames are closed before the inner ones, so
  that a dirty nested session finds its parent gone.  The reload after an add gives a
  panel the token of the session that was changed, whatever session it had; that one
  stays open for good (`displaced`).
- Temporary files: an update of a session runs without a dialog that keeps the user from
  leaving the archive, and an update that meets the close is reported as made and lost.
  Without a session, two updates read the archive and replace it, and the first is lost.
  The edited file of an update that failed is removed when the warning appears.  A
  write that changes neither size nor time is not seen.  When the window closes the
  process exits with its event loop: the closer and the updates that were just confirmed
  are cut off (`apps/7zFM/main.cpp:213`).  On Windows the poll of the process handles
  holds itself, so that the directory stays (`archive_open_actions_outside.cpp:220`); on
  Linux the program that is waited for is `xdg-open`, not the viewer.
- Replacement: where no file existed, a failing rename is reported as success, because its
  error code is overwritten by the next call.
- Extraction: partial files of an entry that was open when the run was cancelled stay, and
  are not reported.  After that false success of a replacement the name of an entry's output
  is free; an original that is renamed to it, whose entry is dropped and that cannot be
  renamed back, is taken by the rollback for the output and removed, with success reported
  (`filesystem_replace.cpp:134`, `operations_extract.cpp:195`).
- Files: a drop transfers without the check of the dialog that a source is not its own
  destination (`core_path_drop_handlers_drop.cpp:230`, `action_file_ops.cpp:917`).  The
  removal after a copy to another volume's recycle bin may stop half way, and the copy in
  the bin is then removed.  Rename and create do not look again whether the new name is
  free (`info_fs_ops.cpp`).
- Moves: out of an archive, a directory is deleted with the entries below it that were
  skipped when nothing below it was reported; into an archive, sources are deleted that
  were never added (broken links, the second of two with one name).

## 6. Not modelled, and the plan

| part | why |
|---|---|
| creation of the shared memory | planned as `Bootstrap`: creator and attachers, step by step |
| command line launcher | planned: a second kind of owner that has no monitor and ends when the process ends |
| `complete_on_claim`, payload slots, registration of notifiers | the request pool is a table of its own under the same lock; planned with `Bootstrap` |
| temporary sessions of nested archives that panels refer to | the panels only hold and release them; no update depends on them |
| Broker service, C API, Finder, Quick Look, native drag (macOS) | platform services; the broker's requests and records are a candidate for a module |
| nested writeback (`operations/nested_writeback.cpp`) | nothing calls it |
| directories, links, memory sink, passwords, zone identifiers in extraction | they decide whether a callback fails, or are created on the way and never rolled back |
| benchmark dialog, progress, log, minimising | no state that another actor reads |
| selection, columns, tool bars, localisation, widgets, payload codec, virtual paths | sequential, without state that several actors share; unit tests reach them |
| shell integration, start-up code, 7zSFX | sequential |
| 7-Zip library, build, tests | third-party or not part of the program |

The map covers about a tenth of the implementation's lines: most of the program is
user interface code without an order of events to get wrong.

Every safety and action property that a run checks has its theorem, and so has the
safety that the liveness of a cancel rests on.  What the runs check and no theorem
states is liveness.
