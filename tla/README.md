# Verification of Mixed Measures

Mixed Measures is a local-first desktop workspace for mixed-methods research: a
FastAPI backend over one SQLite file and two folders of files, a React interface,
and an Electron shell that starts the backend and stops it. One person's years of
coding are in that file, so the project begins where a defect would lose them:
backups, restores, and the consensus that is computed from people's codings. It goes
on to what a researcher does all day: coding with undo, cutting and joining the
segments of a transcript, and the desktop app that holds it all.

The modules here are TLA+; TLC checks them on the small instances of the `.cfg`
files, and TLAPS checks the proofs. `PROJECT.json` lists the runs, which source
lines each definition stands for, the mutants that show each property can fail, the
hazards, the findings and the theorems.

    tlc -config RestoreGate.cfg RestoreGate        # one run
    tlapm RestoreSwapProofs.tla                    # the proofs of one module

## 1. The system

| Part | State it keeps | Operations | Talks to |
|---|---|---|---|
| Restore gate (`services/restore_gate.py`) | a count of slots, a flag, one condition variable, a context variable per request | `try_enter`, `leave`, `exclusive`, the middleware | every request and background writer enters through it |
| Database access (`database.py`) | the engine's pool, sessions, the file itself | `get_db`, `SessionLocal`, `dispose`, `snapshot_database_file`, `run_migrations` | everything |
| Backup folder (`services/backup.py`) | archives by name, hidden staging folders | `create_backup`, `cleanup_old_backups`, `sweep_abandoned_staging`, `list_backups`, delete | the turn of every four hours, the quit backup, five endpoints, restore, withdrawal |
| Restore (`services/backup.py`, `routers/backup.py`) | the cross-process lock file, the keep folder, two stage folders, the staged database | `_restore_in_place`, `restore_from_backup`, `recover_interrupted_restore` | gate, pool, backup folder, media folder |
| Recordings (`routers/media.py`, `services/media_storage.py`) | files under `media/`, paths in rows | attach, detach, copy, stream | database, restore |
| Consensus queue (`services/consensus_staleness.py`) | markers of stale targets; failed marker ids in memory | mark (on every edit), drain (every 30 s and on demand) | the coding endpoints, consensus, restore (replaces the rows, not the memory) |
| Consensus (`services/consensus.py`) | derived code applications | decide, recompute one target, materialize a project | code sets, equivalence groups, magnitudes |
| Desktop shell (`electron/`) | the engine's process and what Node reports of it, the windows, the open dialogs, timers | launch, health poll, crash dialog, renderer recovery, quit, update | engine process (on Windows it kills the engine, on POSIX it asks), the page, Electron |
| Sign-in and coders (`auth.py`) | sessions, the active coder, archived coders | sign in, switch, archive | every request; the coding pages, which hear of a switch later than the session |
| Segments (`services/segment_operations.py`) | segments, soft-deleted ones included, and their codings | merge, unmerge, split, unsplit | coding, consensus markers, undo history |
| Undo history (`hooks/useHistory.ts`, `lib/apply-undo.ts` in `frontend/src`) | two stacks, a chain of jobs, a generation | execute, undo, redo, clear on a switch | the coding endpoints, the page's query cache, the session's coder |
| Metrics, recodes, computed columns | definitions, cached values, staleness flags | compute, mark stale, rederive | dataset |
| Participants | links, scores, withdrawals | link, score, withdraw | dataset, backup (`pre_withdrawal`) |
| Exchange | a project file | export, import | all tables |

What makes it hard:

* **Interleaving.** Endpoints run on a thread pool, the automatic backup and the
  consensus sweep on worker threads, the quit backup in the shutdown; on POSIX a
  second engine process may run beside a restore that outlived its app.
* **The file is replaced underneath.** A connection opened before a restore keeps
  the old file. Nothing in SQLite notices.
* **Death between two steps.** The engine is killed when the app closes on Windows,
  power fails, disks fill up; and what lies on disk is what the next start finds.
* **Time.** A drain that times out as the last slot is left; backups that share a
  second; staging judged by its age.
* **Two views of one thing.** The page believes in a coder and in codings that the
  server may have changed since; what an undo will do is fixed when the key is
  pressed and done when the queue gets there.
* **A chain of processes.** The shell, its engine and its page fail one by one, in
  any order, and each failure has its own dialog, its own timer and its own quit.
* **Derived data.** The stored consensus is computed later and elsewhere than the
  edit that made it stale; a marker is all that remembers it.

Correctness, part by part: a restore is alone in the database and always gives it
back (gate); nobody reads or writes a file without a name and no acknowledged write
disappears (swap); no recording is lost and every partial restore can be undone
(files); no backup replaces, outlives or rotates away another against its rules
(folder); a stored consensus is current or known to be stale, and no target waits
for ever (queue); a step is undone once, as the coder who made it, and everything
undone is everything as it was (history); a broken part of the app is said or offered
a way back, and nothing is killed or left running that should not be (shell); a
transcript reads the same however often it is cut and joined (segments).

## 2. Modules

| Module | Models | Lines of state |
|---|---|---|
| `DatabaseAccess` | the promise of the gate: shared users, or one owner | users, owner |
| `RestoreGate` | `DatabaseGate` and its middleware | active, restoring, pc, verdict |
| `RestoreGateProofs` | theorems about `RestoreGate` | |
| `RestorableDatabase` | the promise of backup and restore: contents, archives, acknowledged writes | contents, archives, acked |
| `RestoreSwap` | gate + pool + sessions + background backups + `_restore_in_place` (EXTENDS `RestoreGate`) | file, rows, idle, conn, step, copying, archives, acked |
| `RestoreSwapProofs` | theorems about `RestoreSwap` | |
| `RestoreFiles` | `_restore_holding_the_lock`, `_restore_lock`, `_reseat_keep_dir`, `recover_interrupted_restore`, with engine processes | disk, processes, what the properties remember |
| `RestoreFilesProofs` | theorems about `RestoreFiles` | |
| `BackupFolder` | naming, staging, placing, rotating, sweeping, sending and deleting archives | clock, folder, doors |
| `BackupFolderProofs` | theorems about `BackupFolder` | |
| `ConsensusSweep` | marking and draining, two drainers, markers by id | votes, consensus, queue, saved, job, known |
| `ConsensusSweepProofs` | theorems about `ConsensusSweep` | |
| `CodingHistory` | `useHistory` on a coding page: stacks, queue, the inverse of an apply, the server's code sets, the switch of coder | server, page, hook |
| `CodingHistoryProofs` | theorems about `CodingHistory` | |
| `DesktopShell` | `main.js`, `renderer-recovery.js`, `stopBackend`, `showCrashDialog` around an engine and a page | engine, main process, windows, page, recovery |
| `DesktopShellProofs` | theorems about `DesktopShell` | |
| `TextPieces` | the promise of cutting and joining: the pieces in order are the text | pieces |
| `SegmentOperations` | merge, unmerge, split, unsplit with coding and numbering | segs |
| `SegmentOperationsProofs` | theorems about `SegmentOperations` | |
| `MCRestoreFiles`, `MCBackupFolder`, `MCCodingHistory`, `MCSegmentOperations` | instances for TLC | |

**RestoreGate.** Each method body between two releases of the condition's lock is
one action. `Admit`/`TurnAway` are `try_enter`; `exclusive` is split where
`wait_for` releases the lock: `AlreadyRestoring`, `StopAdmitting` (whose `wait_for`
tests the predicate before it sleeps), then `TakeDatabase`, `SleepAgain` or
`GiveUp`, and `Readmit`. `asleep` and `woken` are kept apart so that a lost wakeup
would show. `Carries` says whether `_HOLDS_SLOT`, a context variable, reaches the
thread that runs the restore.

**RestoreSwap.** A file is a generation number. A connection remembers the
generation that it opened and whether its pool is still the engine's; `engine.dispose()`
closes idle connections and orphans the others. `_restore_in_place` is one action
per statement that matters: audit, close the session, dispose, backup, swap, dispose
again, repairs. That the session is closed before the slot is left, and that a login
check opens one before the handler runs, are the guards of `Serve` and `Gated`. Archives
are never deleted here: rotation and deletion are the subject of `BackupFolder`, so
"kept" means kept until the folder's own rules or the researcher remove the archive.

**RestoreFiles.** Everything is about what lies on disk. Recordings are contents at
paths; a replaced recording keeps its path, so a path may hold another content than
before. The moves of the keep folder and the removal of the media folder go file by
file, and `Crash` may come between any two steps. `LockKinds` is the platform:
`flock` on POSIX, `unsupported` on Windows, `failed` where the lock file cannot be had.
Inside one process nothing else happens during a restore: that is what
`RestoreSwap` shows. Attaching while *another* engine still restores promises nothing
to the user (`owed` does not grow), for the code makes no attempt there.

**BackupFolder.** The contents of an archive are the number of its snapshot, so what
names say about age can be compared with the truth; those of an earlier run, in `Library`, have
numbers below one. A door reads the clock, lists
the folder for a name, snapshots, places, lists what is outdated, and deletes it, in
separate steps, as the code does without a lock.

**ConsensusSweep.** A target's stored consensus is the votes it was computed from: a
decision is a function of votes, so "stale" is "other votes". A marker is a row with an id,
and `NextId` is what SQLite gives without AUTOINCREMENT: the largest there is, and one more. `Start`
(or `LoadOne`) loads the rows, `ReadVotes` reads the votes of the first, `WriteBatch` (or `WriteOne`)
deletes by id: reads before a session's first write are in no transaction; the write lock comes with the first
`DELETE` and holds to the commit. `known` holds ids, and `Backup` and `Restore` bring back markers whose ids
it may hold. `overtaken` and `reused` belong to the properties: a target edited between a read of its votes and
the lock, and one whose marker was given the id of a row some drainer still had in hand. `BatchRaises` and `WriteOne` carry the isolation of
failures and `known` their rotation.

**CodingHistory.** The server is each coder's layer of `<<target, code>>` pairs; every
call acts as the coder of the `session`. The page has its own copy, `seen`, and its own
belief about the coder, `scope`. A key puts a job on the chain: `NewEntry` fixes what the
act is and which targets it found coded (`captureApply`), `Start` begins it when
the job before it is over, `Serve` is the server's commit, `Continue` sends the next of
an inverse's calls (`runApplyUndo`: replaced values first, the removal last, of
what the reports say was left), and `Complete`, `Drop` and `Fail` are the three ways
`execute`, `undo` and `redo` end. A call that failed may not have arrived, may have been
committed without an answer, or may be committed later (`late`). A switch is two
steps, `Repoint` at the server and `Refresh` at the page, and acts go on between them.
`base` and `sure` belong to `UndoneIsRestored` alone: `sure` goes down when the code itself can no
longer promise what undoing everything gives (an entry that was dropped or trimmed, a
call whose fate is unknown, a key pressed over an outdated page, an act that had replaced a value
redone after its set was deleted).

**DesktopShell.** One action per event handler or timer of the main process, and one
per thing that the engine, the page or the researcher does. `news` holds the child-process
events that Node has not delivered; `engineDialog = "up"` stops the event loop, as
`showMessageBoxSync` does. Times are left out but for their order: `Expire` follows the
kill's fallback because ten seconds are longer than three. A process id is the number
of the page that had it, and `signalled` what was killed by id. `quitting` is Electron's own
quit, which a kept window cancels; `isQuitting` is `main.js`'s, which it does not.

**SegmentOperations.** A row is a record under its id; ids are the rowids of SQLite, so
the id of a deleted row at the top comes again. `Rows` are the rows of the imported file: `parse_csv_streaming`
leaves out those without a text and numbers the others as if it had not (`csv_import.py:163-186`), from 0 on, and the
router stores that number (`conversations.py:403`). A document's segments are numbered without gaps
(`document_import.py:768-770`), which is `Rows` without an empty one. A text is a sequence of words; an
offset falls between two words. A mark stands for one coder's application of one code.
`Siblings` is the guess that `_find_split_siblings` makes from positions, and `Rejoin` un-hides what
the foreign key's ON DELETE SET NULL un-hides. A row's place among others is how many come
before it (`Before`), for `InOrder` as for the `enumerate` of an unmerge. `Pieces` maps the visible rows, in order, to the
pieces of `TextPieces`, each with the pieces it was merged of, recursively.

Operators marked *Mutant* beside a definition are the same code with a plausible
defect, often one that the repository's history names. No specification uses
them; each property is run against the one named in `PROJECT.json`, which must break it.

## 3. Runs

| Run | Instance | Shows | States |
|---|---|---|---|
| `restore_gate` | 3 requests, 1 worker | a restore is alone, waits only for somebody, keeps newcomers out, and the gate reopens; the count and the flag implement `DatabaseAccess` | 6,630 |
| `restore_swap` | 2 requests, 1 worker, 2 writes, 2 swaps | no connection at the swap; everyone is served from the named file; acknowledged writes are kept; implements `RestorableDatabase` | 479,933 |
| `restore_files_posix` | 2 engines, 1 video, 2 archives, 2 restores, 2 deaths, 1 quit, moves that fail | recordings kept, a way back, local videos kept | 821,496 |
| `restore_files_windows` | 1 engine killed at quit, moves that succeed, a video and an audio, 2 archives, 2 restores, 1 death | what a completed, a refused and a stopped restore leave; nothing stays aside | 297,545 |
| `backup_folder` | automatic turn and Download Backup, each keeping one, beside a backup from before a restore and an automatic one of an earlier run; 3 snapshots, 1 restart | names, rotations, staging | 536,848 |
| `same_second` | automatic turn and Backup now in one second | **violation**: one overwrites the other | |
| `consensus_sweep` | 2 targets, batches of one, sweep and button, 3 edits, 1 locked drain, a backup and a restore | bounded calls, rotation of failures, progress, and the two ways to be stale and unmarked | 404,308 |
| `consensus_lost_marker` | 1 target, sweep | **violation**: stale and unmarked | |
| `coding_history` | 2 coders, 2 targets, a set of 2 values; 2 acts, 2 undo or redo keys, 1 fault, 1 switch | each step once; stacks of one coder; undone is restored; no step without a value; the chain settles | 842,382 |
| `desktop_shell` | both platforms, 3 pages | one question at a time; the right process is killed; broken pages and engines are said; no engine left | 185,431 |
| `segment_operations` | 4 words in 3 segments with an empty row between them, ids up to 8, 1 mark, rejoins of lone splits | no number twice and no gap but the import's; coding follows its words; implements `TextPieces` | 5,448 |
| `segment_rejoin` | the same, any rejoin | **violation**: the text in another order | |

Why the bounds suffice. Gate: two restores that compete need two requests, a
third makes one leave among several; the proofs cover every number. Swap (proved for every number, too): after
two swaps an old connection could be of either earlier generation, and one of two writes
is in the archive that comes back. Files: a loss needs at most a stopped restore, what the
user does next, and a second restore; two deaths stop the second one as well. The
largest batch of files that matters is one video and one file that is no video.
Folder: with one archive kept, three snapshots are the first to be rotated,
the one that is kept and the one that has a name issued again; the second archive type
is what a rotation must leave alone. Queue: with a batch of one, two
stuck targets are more than a batch of known failures, and one of them is stuck before a healthy one; votes `yes` and `bad`
with three edits reach yes, bad, yes again between a read and a write, or leave one for after the restore. An id used
again needs two targets, two drainers and two edits.

History: one act to undo and one that is queued behind it or pressed over its undo; two keys
make an undo and a redo, or the same undo twice; one fault is a lost call, a late one, a
refusal by a deactivated code or a deleted set; on the first target a coder begins with a value that
an act may replace or press again, on the second with none. Shell: the third page is the one that crashes after a
recovery from a hang whose timers are still about. Segments: an id of 8, with three rows
to begin with and the id of the empty one left out, admits a merge
on top of a split, or a split of a merge, with both reversals; the first segment is the one
that can be cut by itself, so cuts and joins cross imported borders, and the third lies beyond the import's gap.

`CHECK_DEADLOCK FALSE` stands where the world may stop: in `RestoreFiles` the
engines may all be down when the bounds on closes and restores are reached; in
`CodingHistory` the bounds on keys are used up; in `DesktopShell` the app is gone; in
`SegmentOperations` the ids are.

### Fairness

* `FairGateSpec`: `TakeDatabase` and `GiveUp` (the wait is timed: `wait_for` has a
  timeout in every call) and `Readmit` (the body of a restore is local work that ends).
  No fairness for `Leave`: a request may hold its slot for ever, and the gate
  reopens all the same.
* `BackupFolder!FairSpec`: an hour passes, and the automatic turn takes place
  again and again, since `_auto_backup_loop` survives every exception.
* `ConsensusSweep!FairSpec`: the sweep's steps. `_consensus_sweep_loop` catches
  everything and turns every thirty seconds; nobody has to press the button. A
  locked database may stop it only as often as `MaxLocked` says: that no writer holds
  the lock for ever is an assumption on the requests.

* `CodingHistory!FairHistorySpec`: the hook's steps. `client.ts` aborts a call after its
  timeout, so each is answered or given up on, and a promise chain runs its next link when
  the one before it has settled. Nothing is assumed of the researcher's keys, of late
  calls or of the list that is fetched again.
* `DesktopShell!FairShellSpec`: Electron delivers the events it has and runs timers that
  are due. Dialogs need not be answered, and an engine need not obey a signal.

## 4. Proofs

`RestoreGateProofs` proves, for every finite set of requests and workers and with or
without the context variable, type correctness, mutual exclusion, that the flag is
true, that no wakeup is lost, that a closed gate only drains, that a lost context
refuses every restore, and that the gate implements `DatabaseAccess`. The assumptions are
those of `RestoreGate`: threads are finitely many, requests and workers
are disjoint, `NoOne` is no thread.

None of these is inductive as it stands. Mutual exclusion compares the *count* with
one; it says something about threads only if the count is the number of slot
holders. `IInv` therefore adds three parts: `active` is the cardinality of
`Holders`; at most one request is asleep, woken or exclusive; and the flag is up
exactly when one is. The step proof has one case per action (`ThreadStep`, `RestoreStep`),
and the lemmas `HoldersGrow`, `HoldersSame` and `HoldersShrink` say what each action
does to the set of holders and so to its cardinality. `DrainedIsAlone` is the heart: if the count
is at most the caller's own slot and the caller holds one, the set of holders is
the caller. The refinement maps `users` to the holders and `owner` to the
exclusive request; waiting, waking and refusing are stutters.

`RestoreSwapProofs` builds on it, for every finite set of threads, every set of writes
and every `MaxSwaps`: types, no connection at the swap, everyone on the named file,
no acknowledged write lost, and the refinement of `RestorableDatabase`. The assumptions
are those above and that `MaxSwaps` is a natural number. The argument is the one the
code relies on and nowhere states, written as `SInv`: a connection lives in a slot
(`ConnectedInSlot`) and a copy too (`CopiesInSlot`); a restore's steps happen in its
exclusive slot (`StepsInside`), where `IInv` says that it is alone. So closing its own
session (`SessionClosed`) and emptying the pool (`PoolIsEmpty`) leaves no connection at
all until the second dispose, and what it saved is still what the database holds
when it swaps (`SavedFirst`). `SwapStepIsGateStep` carries `IInv` over from the gate; the
step proof has one lemma for the gate's steps, one for sessions and backups (which run
only while no restore is under way, `NoRestoreUnderWay`), one for a restore up to
the swap and one for the swap and what follows.

`CodingHistoryProofs` proves, for any coders, targets, codes, history size and
bounds, that every variable keeps its type, and every safety property of its run:
`StacksAreTheCoders`, `EachStepOnce`, `UndoKeepsAValue` and `UndoneIsRestored`. It
assumes what `CodingHistory` does: the history holds at least one step, selections are
sets of targets, the bounds are natural numbers, the page opens as a
coder, a coder begins with one value of the set on a target at most, and nothing running is no
job. None of them is inductive. The first three are not because a job takes its entry off a stack only when
its answer comes, long after it read it. `BaseInv` says why that is right: a job's generation is
never ahead of the hook's, and while it is the hook's, a running undo is about
the last step of `past` and a running redo about the first of `future`
(`UndoesTheLast`, `RedoesTheFirst`): only the chain changes the stacks, and it runs one job at
a time. So no stack is popped when empty, which is most of type correctness. `CoderInv`
adds that queued acts have run as nobody and that a running job of this generation has
run as the page's coder only. It holds across a switch because the session is
re-pointed before the page is told: until then `session # scope`, and when the
page is told the stacks are emptied and the generation outgrows the running
job. `OnceInv` says that the numbers on `past`, on `future`, waiting and in their first
run are disjoint, each there once, and none above the count of presses; its lemmas say what each
stack operation does to the set of numbers on the stack.

The other two are about what an inverse does. `UndoKeepsAValue` needs that a value to be put back is never the
one to be removed (`LostInv`), that a call which restores covers just the targets that lost that value
(`InverseCall`), that the targets left for the removal hold theirs again (`BehindIsBack`), and that, while
undoing owes anything, no call that was given up is still to be run (`NothingLate`).

`UndoneIsRestored` speaks of an empty stack, and undoing empties it one entry at a time, each from a
layer that the invariant must describe without replaying the acts. `OwesInv` does it with one set: `Undoes(e)`
is what the inverse of an entry sets, `Touched(past)` what undoing everything sets. Off `Touched(past)` the
coder's codings are already those the stacks began with (`SameBut`). An entry whose inverse would set a coding otherwise
than it was then lies above one whose inverse sets it too, and the lower one has the last word (`Fits`);
while the codes are values of one set, whoever sets one value of a target also sets the one that was
there at first, if there was one (`Covers`), so that clearing rivals does no harm unseen. The same is said of the entries
to be redone, above the past (`FutureFits`), and of the acts that run and wait, each above those
before it (`QueueFits`); it is true of an act when its key is pressed because the page then shows what the act
will find. An act lands (`ActLands`), and each call of an inverse lands (`UndoLands`), without disturbing what is off
that set; `UndoProgress` follows a half-done inverse from call to call, through `todo` and `behind`, and gives at
its end that what only the top entry touched is as it was at first (`UndoneLands`). A half-done inverse may fail
and be tried again, since its entry is still in `Touched(past)`. A switch needs no case of its
own: until the page is told, `session # scope`, and then the stacks begin anew.
TLC checked the invariant on the run's instance and on one coder's three acts and six keys on one target
(18.8 million states) before it was proved; six keys also showed the last clause of `sure` to be needed (section 5).

`DesktopShellProofs` proves, for any number of pages, `NoEngineLeft`,
`OneQuestionAtATime`, `KillsOnlyTheAsked` and `DialogStays`, assuming that the value
for "no kill" is no process. `ShellInv` has two independent halves. `StoppedByQuit`: whoever quits
has told the engine to stop, and an engine that is not alive does not come alive again.
`AboutThisPage`: a question about a crash and a reload that is due belong to a page whose
end was reported, a question about a hang and a kill to one whose end was not, and a hang
is not asked about while a kill is in flight; so the id that the fallback signals is that of
the page there is. That window or quit are never taken back matters: after either, a question
may outlive its page, but no answer to it acts.

`RestoreFilesProofs` proves `RecordingsKept` and `CanGoBack` for any engines, recordings,
kinds of lock and bounds, assuming what `RestoreFiles` does: the recordings and
archives there are at first have their types, and "nothing" is neither a content nor an engine. The argument
is that of the code's order: the backup comes first. `SavedFirst` says that once some restore
has its own backup, all that is owed and the database and documents in service are in
archives; nobody adds to what is owed until it is over, since its own process serves nothing
else and a recording attached by another engine meanwhile is promised nothing. From there
on the disk may do as it likes (`SavedIsSafe`), which is why neither property needs
the lock or the clean-up after an error. Before it, what is owed is in place or in an
archive (`InPlaceOrArchived`), and only the user's own steps and the walk at start-up, which
puts back and never takes, touch the files (`InPlaceIsSafe`). `FromAnArchive` says that what a
restore puts in place is an archive there is, so the contents it ends with can be had again.

The other four properties of `RestoreFiles` hold where the platform says so, and their
theorems name it. `NotStartedChangedNothing` needs `ForceStop`: on POSIX a relaunched engine may
re-seat under a restore that has not begun. `StartInv` says that the one engine that runs is the
app's, and that a restore's record of what was there is still true while its flag is down.
`NothingLeftAside`, `LeavesTheBackup` and `KeptOnlyGoesBack` need `Windows` as well: moves that succeed
and a lock that can be had, for a file the system will not move is left where it was,
as the code says. Their invariant, `PlaceInv`, says for each step of a restore what lies in the
media folder, the stage and the keep folder (`InPlace`), and that no path is filled both in place and
aside; that is why a move never meets a file in its way. `KeepsLocalVideo`
needs only `Exclusive`, one engine at a time at the keep folder, by the `flock` of POSIX or because a
quit kills: moves may fail, engines die, and a relaunched engine may serve the user beside the
restore. Its invariant follows one video through the restore (`Kept`): in place, then in the walk's
list or already aside, then aside, then in place again or left aside by a move that failed.

`ConsensusSweepProofs` proves, for any targets, drainers, votes, batch size and bounds, the types,
`StaleIsMarkedOvertakenOrReused` and `BoundedCall`, and for one drainer `StaleIsMarkedOrOvertaken`. `Fresh` is the
heart of the first: what a drainer has read
is what the votes are, unless an edit has overtaken it, so the consensus it writes is not stale. `HeldInv` is about what it
deletes: a row that has the id of one it has loaded is a row of the same target, or of one known to be `reused`. Where
there is one drainer, `LoadedInv` says that what it has loaded is still in the queue; `NextId` is above every id
there, so nothing is ever `reused` (`OneDrainerLosesNoMarker`); the first of the statements in section 5 is what the second drainer changes. `SavedInv` says the same of
the backup, which a restore brings back. `BoundedCall` rests on `Once`: no failure is known twice,
and in a call each marker is in one place, to do, waiting or failed. Both are about
sequences, and what a filter or a difference of sequences holds is an induction over their length.
No installed prover can instantiate the library's induction theorems, so those lemmas
go through `LeastElement`, proved from the library's `WFMin`: were there a length at which the claim fails, there
would be a least one.

`BackupFolderProofs` proves `NeverOverwritten`, `RotatesTheOldest`, `SendsWhatItMade` and the types for any
folder, doors, clock and number of deaths, in every behaviour in which no two doors are in a backup
of one type at once (`[]Apart`). Finding 2 and the statement about downloads in section 5 show that
this cannot be left out. The app keeps it for the types that one door writes, and for the others
as long as two clicks, or a click and the automatic turn, do not overlap. `FolderInv` says that within a type a later
name is a later snapshot (`InOrder`), that a door's name, from its choice on, is later than every other
of its type (`Latest`), and that a rotation is of the door's own type and spares its own archive
(`Spares`). A name free when it was chosen is then free when it is taken, and what a listing
calls old is old. That a rotation keeps enough newer ones is a fact about finite sets: of a
finite set of names some are the latest. That the next tail is above every tail of its second
(`NextTailIsNew`) needs that a finite set of names has a largest tail (`LargestTail`, by
induction over the set's size).

`SegmentOperationsProofs` proves, for any imported rows, empty ones included, any texts and marks, that no number is used
twice and no gap is there but the import's (`NumberingHolds`), and that no hidden segment dangles (`HiddenLeadsOn`),
assuming `OnlyLone`: a rejoin is
asked for only where one original leads to the siblings. Finding 3 is what happens elsewhere. `NumberedInv`
says that the visible rows have the numbers of a set N, each once, and that N has as many runs as the import left,
counted by their ends (`Breaks`). Every operation then is one
step on numbers, `Replaces`: a run a..b of the visible rows gives way to rows numbered a..c, and the
rest moves by c - b; `RunReplaced` proves once that this keeps the numbering, by a bijection from the ends of runs before the
step to those after it. What remains is
to show that each operation does it: `RunOfAdjacent` (the adjacency check of a merge, a comparison of
two counts, means that the selection is all there is between two numbers), `SiblingsAreARun` (the guess
of a rejoin is such a run too), `PlacesAreNumbers` (the restored originals are counted off without a gap). The
hidden rows matter because they come back: an original must be hidden by the one result that
the reversal deletes, and nothing else may point at that result (`HiddenLeadsOn`).

Checked by TLC alone: that marks follow their text
and the refinement of `TextPieces` (`MarksFollowTheirText`, `ImplementsPieces`), which are about texts joined by a
fold over a sequence, of which the provers know nothing; and all
liveness (`GateReopens`, `StagingIsSwept`, `EveryMarkerIsAttempted`, `HealthyIsDrained`,
`AllSettles`, `BrokenPageIsOffered`, `EngineFailureIsSaid`), since fairness and ENABLED are out of the prover's
reach. `RefusesWithoutContext`, `StaleIsMarkedOrOvertaken` of one drainer, `HistoryTypeOK` and `HiddenLeadsOn` are proved and not run: the first because
the run's instance has the context variable, as the code does, the second because the run has both drainers.

## 5. Findings

1. **A stale consensus without a marker** (`consensus_lost_marker`).
   `recompute_consensus_for_target` reads the voters (`consensus.py:546`) before its
   first write (`:555`). An edit that commits in between finds the target marked and
   adds no marker; the sweep then stores the old decision and deletes the one
   there is. `main.py:202-203` says that the markers persist until a sweep succeeds.
   With one drainer this is the only way (`StaleIsMarkedOrOvertaken`, proved); with two there is
   one more, the first of the statements below.
2. **Two backups, one name** (`same_second`): `services/backup.py:815` says "Never
   overwrite an existing backup"; the listing that ensures it is made long before
   `os.replace`, and *Backup now* shares its type with the automatic turn.
   Where no two doors write one type, `NeverOverwritten` holds (`backup_folder`).
3. **A rejoin that takes the neighbour's split along** (`segment_rejoin`):
   `components/SegmentRow.tsx:1008` promises the original "from before the split". The parts
   of a split are found as the split results that touch (`segment_operations.py:877-902`), so
   after splitting two neighbours the rejoin of one deletes the parts of both, restores one
   original and leaves the other to reappear at an order that is by then another's: the
   transcript of the run reads 1 2 4 3. The undo of a split in `CodingWorkbench.tsx` is the
   same call. With rejoins of lone splits only, everything holds (`segment_operations`).

A limit that no statement of the source denies: `segment_operations.py:311` answers "Segments must be
adjacent", and `TranscriptPanel.tsx:536-546` offers a merge by the same test. Both compare numbers, and two
neighbours on the page have numbers with a gap between them where the imported file had a row without a text
(`csv_import.py:163-186`), so these cannot be merged. `NumberingHolds` says that no operation adds such a gap, and
that none closes one.

Other statements of the source that TLC refutes. No run of the project claims them; each
is reached by the specification, the property and the change of constants named here.

* *A marker deleted in another's place.* `main.py:202-203`, as above; `code_analysis.py:661` and `:665` call the
  sweep "the deliberate single writer" and both sweeps "idempotent". `sweep_stale_consensus` loads
  its markers (`consensus_staleness.py:239`) before it has the write lock and deletes each by the id of its
  row (`:247`); the table has no AUTOINCREMENT (`models/consensus_stale_target.py:23`), so an id
  comes again. Sweep and button both load marker 1; one drains it; an edit of another target inserts a
  marker, again 1; the other recomputes the first target and deletes the marker of the second, which is then stale,
  unmarked and not overtaken. `StaleIsMarkedOrOvertaken` of `ConsensusSweep` with `Vote = {yes, no}` and `Raises = {}`,
  9 states; `StaleIsMarkedOvertakenOrReused` shows that there is no third way.
* *Two dialogs that announce a loss.* `SegmentRow.tsx:979` says "Any codes, notes, or memos added to this merged segment will be
  lost" and `:1010` "Any codes or notes added to the split segments will be lost". The
  codes are not: an unmerge puts them on the first original (`segment_operations.py:438`, `:449-450`), a rejoin on
  the one it restores (`:986`, `:998-999`), and the rejoin moves the notes there, too (`:972-976`); of the first
  sentence the part about notes is true (`:443`). `MarksFollowTheirText` is what the code keeps. `UnmergeDropsAddedMarks`
  and `RejoinDropsAddedMarks` of `MCSegmentOperations` with the constants of `segment_operations`, 5 and 4 states.
* *Downloads.* `routers/backup.py:658-660` says that the rotation always keeps the archive
  about to be streamed; downloads that overlap rotate it away. `SendsWhatItMade` of
  `MCBackupFolder` with `TypeOf <- TwoDownloads`, `Keep <- KeepTwo`, four snapshots.
* *A kept recording overwritten.* `services/backup.py:1102-1104` says a leftover keep folder is
  re-seated, never deleted; where start-up could not re-seat it (no lock to be had, or a move
  back that failed) and a recording was attached at the same path since, the next restore moves
  that one over it (`:1284`). `KeptOnlyGoesBack` of `MCRestoreFiles` with
  `LockKinds = {"failed"}`, `ForceStop = FALSE`, `Library <- AutoOnly`.
* *A step as another coder.* `useHistory.ts:93-94` says that a step in flight when the
  scope changes "completed as the OLD coder". The session is re-pointed before the page
  hears of it, and a queued step, or a second call of one in flight, then acts as the new one.
  The stacks stay clean (`StacksAreTheCoders`); the coding is in the wrong layer.
  `RanAsThePresser` of `MCCodingHistory`, five states.
* *An undo that removes an earlier coding.* `apply-undo.ts:16-19` is about an undo that
  destroys "a coding the researcher made earlier". An act pressed while an undo is still queued
  reads a page on which the undone coding is still there, and its own undo removes what was
  there before. `UndoSparesEarlierCodings` of `MCCodingHistory`, 17 states. A redo can do it, too:
  it runs as the codes are then, and where their set was deleted since it replaces nothing, but the record of it
  takes the place of the one that knew what to put back (`ObservationWorkbench.tsx:1032`). Base `neg`; apply `pos`,
  apply `neg`, undo both, delete the set, redo both, undo both: `neg` is gone. `UndoneIsRestored` without the last conjunct of
  `sure` in `Complete`, one target, two acts, six keys, 35 states.
* *A cancelled quit.* `main.js:322-324` promises a dialog for a page that crashes. Unsaved
  writing cancels a quit (`WritingCanvas.tsx:145-154`), but `isQuitting` stays set
  (`main.js:500`) and the engine is stopped; a later crash of the page is met with silence.
  `DeadPageIsOffered` of `DesktopShell`, 10 states.
* *The grace period.* `backend-process.js:172-174` says that the engine is killed after a
  grace period on POSIX, and `:221` never does so, because Node sets `child.killed` when the
  first signal is sent. `GraceIsFinal` of `DesktopShell`. `_restore_lock`'s own comment knows
  it ("never force-stops").

## 6. Not modelled

`PROJECT.json` lists every component with its status. Left out of the modelled parts:
archive validation and the migration of a staged database (one step that succeeds or
raises), the members of a zip, encryption, reads (`list_backups`, `get_backup_status`),
a clock that is set back, a file removed by hand. `mark_consensus_stale_for_coder` marks many
targets as `Edit` marks one. In `CodingHistory`: ratings, a signed-out session, answers of the
list that overtake each other, segment groups, and the kinds of step that do not code. In
`DesktopShell`: the choice of the port, the text of dialogs, a dialog that cannot be shown. In
`SegmentOperations`: notes, quotes, speakers, times, and the operations on clips of a recording.
Statistics are floating point; import and export are sequential mappings; the rest of the
interface (most of the code by lines) is forms, tables and drawing over the endpoints.

## 7. Plan

Order: what can lose work first, then what can make results wrong.

1. `CanvasAutosave`: WritingCanvas's dirty flag, its saves in flight and the close of
   its window, beside `DesktopShell`.
2. `RecordingFiles`: attach, copy and detach as file and row, with an error in between,
   and `BackupContents`: an archive's snapshot against the files copied after it.
3. `ConsensusDecision`: unanimous, majority, presence and magnitude rules as
   operators over finite functions, with theorems (a majority code is unique to its
   question; a decision does not depend on the order of voters) and a run that compares
   each with its reference definition. Used by `ConsensusSweep` instead of raw votes.
4. Clips of a recording: split, merge and unsplit by time, beside `SegmentOperations`.
5. `CoderSessions`: sign-in, archiving; `SafetyCopies` and `Migrations`.

Proofs: the step part of `ImplementsPieces` for the operations that join nothing; then those of the
modules above, `ConsensusDecision` first.

The runs above stay few on purpose: a new module gets one run with the properties that
its hazards call for, and replaces a shallower one where it can.
