---------------------------- MODULE RestoreFiles ----------------------------
(***************************************************************************)
(* A restore as the disk sees it: _restore_holding_the_lock,               *)
(* _restore_lock, _reseat_keep_dir and recover_interrupted_restore of      *)
(* backend/app/services/backup.py, with the engine processes of the        *)
(* desktop shell.  A process may die between any two steps and what is on  *)
(* disk stays; an input/output error may stop a restore at any step; on    *)
(* POSIX a restore outlives the app that was closed, and a relaunched      *)
(* engine runs beside it.  Inside one process the gate (RestoreGate) lets  *)
(* nothing else happen during a restore.                                   *)
(*                                                                         *)
(* A recording is a Content at a Path; paths are not unique to a content,  *)
(* since a replaced recording keeps its path (media_storage.py).           *)
(***************************************************************************)
EXTENDS Integers, FiniteSets

CONSTANTS Engine,       \* backend processes, one per launch of the app
          Path, Video,  \* media paths, and those whose format is a video's
          Content,      \* the bytes of a recording
          Nothing,      \* no file, no process
          LockKinds,    \* what an attempt at the lock may come to when it is free
          ForceStop,    \* whether closing the app kills its engine (Windows)
          MovesFail,    \* whether moving a recording back may fail
          MaxCloses,    \* bounds: how often the app is closed,
          MaxRestores,  \* how many restores are asked for,
          MaxCrashes,   \* and how many times a process dies
          Installed,    \* the recordings, and
          Library       \* the archives in the backup folder, at the start

ASSUME FilesAssumption ==
    /\ Video \subseteq Path
    /\ Nothing \notin Content /\ Nothing \notin Engine
    /\ LockKinds \subseteq {"flock", "failed", "unsupported"}
    /\ {ForceStop, MovesFail} \subseteq BOOLEAN
    /\ {MaxCloses, MaxRestores, MaxCrashes} \subseteq Nat

VARIABLES
    \* on disk
    db, docs,    \* versions; docs is Nothing while the folder is gone or empty
    media,       \* media[p]: the recording at p, or Nothing
    mediaDir,    \* whether the media folder exists
    keep,        \* the keep folder: recordings set aside
    stage,       \* the fixed-name stage folders: the archive unpacked there
    archives,    \* complete backups
    lock,        \* the engine whose descriptor holds the flock
    \* processes
    app,         \* the engine the app's window talks to
    pc,          \* where each engine is
    from,        \* the archive it restores
    todo,        \* files its current walk has still to move
    left,        \* whether that walk left a file behind
    replacing,   \* whether its restore has begun to replace anything
    \* what the properties remember
    before,      \* disk contents when the restore was asked for
    owed,        \* recordings the user has and has not given up
    served,      \* the database and documents the user last had
    spent        \* closes, restores and crashes so far

disk == <<db, docs, media, mediaDir, keep, stage, archives>>
proc == <<lock, app, pc, from, todo, left, replacing>>
ghost == <<before, owed, served>>
vars == <<disk, proc, ghost, spent>>

Files == [Path -> Content \cup {Nothing}]
NoFiles == [p \in Path |-> Nothing]
At(files) == {p \in Path : files[p] # Nothing}
ContentsOf(files) == {files[p] : p \in At(files)}
Archive == [db : Nat, docs : Nat \cup {Nothing}, media : Files]

ASSUME StartAssumption ==
    Installed \in Files /\ Library \subseteq Archive /\ Nothing \notin Archive

Reseating == {"starting", "entry", "reseat", "undo"}
Replacing == {"swapdb", "docsout", "docsin", "setaside", "mediain"}
Restoring == {"snapshot", "entry", "unpack", "reseat", "undo"} \cup Replacing
Where == {"down", "serving", "starting"} \cup Restoring

RestoreElsewhere(e) == \E f \in Engine \ {e} : pc[f] \in Restoring

\* The install's database and documents are of version 2; the archives are older.
Init == /\ db = 2 /\ docs = 2
        /\ media = Installed
        /\ mediaDir = TRUE
        /\ keep = NoFiles /\ stage = Nothing
        /\ archives = Library
        /\ lock = Nothing /\ app = Nothing
        /\ pc = [e \in Engine |-> "down"]
        /\ from = [e \in Engine |-> Nothing]
        /\ todo = [e \in Engine |-> {}]
        /\ left = [e \in Engine |-> FALSE]
        /\ replacing = [e \in Engine |-> FALSE]
        /\ before = [e \in Engine |-> Nothing]
        /\ owed = ContentsOf(media)
        /\ served = [db |-> 2, docs |-> 2]
        /\ spent = [closes |-> 0, restores |-> 0, crashes |-> 0]
-----------------------------------------------------------------------------
(* _restore_lock *)

\* The attempt comes to `held`, to `taken` by another process, or to no lock.
Held(e)  == lock = Nothing /\ "flock" \in LockKinds /\ lock' = e
Taken    == lock # Nothing /\ "flock" \in LockKinds /\ UNCHANGED lock
Unlocked(kind) == kind \in LockKinds /\ UNCHANGED lock

\* os.close(fd), or the death of the process.
Release(e) == lock' = IF lock = e THEN Nothing ELSE lock
-----------------------------------------------------------------------------
(* _reseat_keep_dir: a walk over the keep folder, one move at a time *)

BeginWalk(e, where, files) == /\ pc' = [pc EXCEPT ![e] = where]
                              /\ todo' = [todo EXCEPT ![e] = files]
                              /\ left' = [left EXCEPT ![e] = FALSE]

\* A file at the destination wins and the kept copy stays; a move may fail.
ReseatFile(e, p) ==
    /\ pc[e] \in Reseating /\ p \in todo[e]
    /\ todo' = [todo EXCEPT ![e] = @ \ {p}]
    /\ \/ /\ keep[p] # Nothing /\ media[p] = Nothing
          /\ media' = [media EXCEPT ![p] = keep[p]]
          /\ keep' = [keep EXCEPT ![p] = Nothing]
          /\ mediaDir' = TRUE
          /\ UNCHANGED left
       \/ /\ keep[p] = Nothing \/ media[p] # Nothing \/ MovesFail
          /\ left' = [left EXCEPT ![e] = TRUE]
          /\ UNCHANGED <<media, keep, mediaDir>>
    /\ UNCHANGED <<db, docs, stage, archives, lock, app, pc, from, replacing, ghost, spent>>

\* The keep folder is removed once the walk has emptied it.
WalkOver(e) == /\ pc[e] \in Reseating /\ todo[e] = {}
               /\ keep' = IF left[e] THEN keep ELSE NoFiles
-----------------------------------------------------------------------------
(* Launch, recovery at startup, quit and death *)

\* Mutants: the app starts beside a running restore and re-seats its keep folder
\* (before #1142); it re-seats nothing as it starts (before #1080).
LaunchUnlocked(e) ==
    /\ app = Nothing /\ pc[e] = "down"
    /\ app' = e
    /\ UNCHANGED lock
    /\ BeginWalk(e, "starting", At(keep))
    /\ UNCHANGED <<disk, from, replacing, ghost, spent>>
LaunchWithoutRecovery(e) ==
    /\ app = Nothing /\ pc[e] = "down"
    /\ app' = e
    /\ BeginWalk(e, "serving", {})
    /\ UNCHANGED <<disk, lock, from, replacing, ghost, spent>>

\* recover_interrupted_restore runs before the engine serves: with the lock, or
\* where there are no locks; it leaves everything when the lock is taken or
\* cannot be had.
Launch(e) ==
    /\ app = Nothing /\ pc[e] = "down"
    /\ app' = e
    /\ \/ (Held(e) \/ Unlocked("unsupported")) /\ BeginWalk(e, "starting", At(keep))
       \/ (Taken \/ Unlocked("failed")) /\ BeginWalk(e, "serving", {})
    /\ UNCHANGED <<disk, from, replacing, ghost, spent>>

Recovered(e) ==
    /\ pc[e] = "starting" /\ WalkOver(e)
    /\ pc' = [pc EXCEPT ![e] = "serving"]
    /\ Release(e)
    /\ UNCHANGED <<db, docs, media, mediaDir, stage, archives, app, from, todo, left,
                   replacing, ghost, spent>>

Stop(e) == /\ pc' = [pc EXCEPT ![e] = "down"]
           /\ todo' = [todo EXCEPT ![e] = {}]
           /\ left' = [left EXCEPT ![e] = FALSE]
           /\ from' = [from EXCEPT ![e] = Nothing]
           /\ replacing' = [replacing EXCEPT ![e] = FALSE]
           /\ before' = [before EXCEPT ![e] = Nothing]
           /\ Release(e)

\* Closing the app: on POSIX the engine is asked to stop and first answers the
\* request it is serving, a restore included; on Windows it is killed.
Quit(e) ==
    /\ app = e /\ pc[e] # "starting" /\ spent.closes < MaxCloses
    /\ spent' = [spent EXCEPT !.closes = @ + 1]
    /\ app' = Nothing
    /\ IF ForceStop \/ pc[e] = "serving" THEN Stop(e)
       ELSE UNCHANGED <<lock, pc, from, todo, left, replacing, before>>
    /\ UNCHANGED <<disk, owed, served>>

Crash(e) ==
    /\ pc[e] # "down" /\ spent.crashes < MaxCrashes
    /\ spent' = [spent EXCEPT !.crashes = @ + 1]
    /\ app' = IF app = e THEN Nothing ELSE app
    /\ Stop(e)
    /\ UNCHANGED <<disk, owed, served>>
-----------------------------------------------------------------------------
(* restore_from_backup *)

Ask(e) == pc[e] = "serving" /\ app = e /\ spent.restores < MaxRestores

\* The archive validates and the lock is held, or cannot be had at all.
BeginRestore(e, a) ==
    /\ Ask(e)
    /\ Held(e) \/ Unlocked("unsupported") \/ Unlocked("failed")
    /\ spent' = [spent EXCEPT !.restores = @ + 1]
    /\ pc' = [pc EXCEPT ![e] = "snapshot"]
    /\ from' = [from EXCEPT ![e] = a]
    /\ before' = [before EXCEPT ![e] = [db |-> db, docs |-> docs, media |-> media]]
    /\ UNCHANGED <<disk, app, todo, left, replacing, owed, served>>

RestoringElsewhere(e) ==
    /\ Ask(e) /\ Taken
    /\ spent' = [spent EXCEPT !.restores = @ + 1]
    /\ UNCHANGED <<disk, app, pc, from, todo, left, replacing, ghost>>

\* The restore has ended; an engine whose app was closed now stops.
Finish(e) ==
    /\ pc' = [pc EXCEPT ![e] = IF app = e THEN "serving" ELSE "down"]
    /\ from' = [from EXCEPT ![e] = Nothing]
    /\ replacing' = [replacing EXCEPT ![e] = FALSE]
    /\ before' = [before EXCEPT ![e] = Nothing]
    /\ Release(e)

\* Mutants: the backup leaves recordings out, as the automatic one does; a
\* backup that fails does not stop the restore.
SnapshotWithoutVideo(e) ==
    /\ pc[e] = "snapshot"
    /\ archives' = archives \cup {[db |-> db, docs |-> docs, media |->
                                   [p \in Path |-> IF p \in Video THEN Nothing ELSE media[p]]]}
    /\ BeginWalk(e, "entry", At(keep))
    /\ UNCHANGED <<db, docs, media, mediaDir, keep, stage, lock, app, from, replacing, ghost, spent>>
SnapshotIgnored(e) ==
    /\ pc[e] = "snapshot"
    /\ BeginWalk(e, "entry", At(keep))
    /\ UNCHANGED <<disk, lock, app, from, replacing, ghost, spent>>

\* create_backup "pre_restore", recordings included; then the entry re-seat.
Snapshot(e) ==
    /\ pc[e] = "snapshot"
    /\ archives' = archives \cup {[db |-> db, docs |-> docs, media |-> media]}
    /\ BeginWalk(e, "entry", At(keep))
    /\ UNCHANGED <<db, docs, media, mediaDir, keep, stage, lock, app, from, replacing, ghost, spent>>

SnapshotFails(e) ==
    /\ pc[e] = "snapshot"
    /\ Finish(e)
    /\ UNCHANGED <<disk, app, todo, left, owed, served, spent>>

\* What an earlier restore unpacked is cleared.
Entered(e) ==
    /\ pc[e] = "entry" /\ WalkOver(e)
    /\ stage' = Nothing
    /\ pc' = [pc EXCEPT ![e] = "unpack"]
    /\ UNCHANGED <<db, docs, media, mediaDir, archives, lock, app, from, todo, left,
                   replacing, ghost, spent>>

\* The folder for the staged database is made before the try block.
NoStagingFolder(e) ==
    /\ pc[e] = "entry" /\ WalkOver(e)
    /\ stage' = Nothing
    /\ Finish(e)
    /\ UNCHANGED <<db, docs, media, mediaDir, archives, app, todo, left, owed, served, spent>>

\* Mutant: `replacing` is set too late to count.
UnpackUnflagged(e) ==
    /\ pc[e] = "unpack"
    /\ stage' = from[e]
    /\ pc' = [pc EXCEPT ![e] = "swapdb"]
    /\ UNCHANGED <<db, docs, media, mediaDir, keep, archives, lock, app, from, todo, left,
                   replacing, ghost, spent>>

Unpack(e) ==
    /\ pc[e] = "unpack"
    /\ stage' = from[e]
    /\ replacing' = [replacing EXCEPT ![e] = TRUE]
    /\ pc' = [pc EXCEPT ![e] = "swapdb"]
    /\ UNCHANGED <<db, docs, media, mediaDir, keep, archives, lock, app, from, todo, left,
                   ghost, spent>>

SwapDb(e) ==
    /\ pc[e] = "swapdb"
    /\ db' = from[e].db
    /\ pc' = [pc EXCEPT ![e] = "docsout"]
    /\ UNCHANGED <<docs, media, mediaDir, keep, stage, archives, lock, app, from, todo, left,
                   replacing, ghost, spent>>

DocsOut(e) ==
    /\ pc[e] = "docsout"
    /\ docs' = Nothing
    /\ pc' = [pc EXCEPT ![e] = "docsin"]
    /\ UNCHANGED <<db, media, mediaDir, keep, stage, archives, lock, app, from, todo, left,
                   replacing, ghost, spent>>

\* Mutant: every file the backup lacks is set aside, not only videos.
DocsInKeepingAll(e) ==
    /\ pc[e] = "docsin"
    /\ docs' = IF stage = Nothing THEN Nothing ELSE stage.docs
    /\ BeginWalk(e, "setaside", {p \in At(media) : from[e].media[p] = Nothing})
    /\ UNCHANGED <<db, media, mediaDir, keep, stage, archives, lock, app, from, replacing,
                   ghost, spent>>

\* The walk that follows lists the videos at paths the backup does not carry.
DocsIn(e) ==
    /\ pc[e] = "docsin"
    /\ docs' = IF stage = Nothing THEN Nothing ELSE stage.docs
    /\ BeginWalk(e, "setaside", {p \in Video \cap At(media) : from[e].media[p] = Nothing})
    /\ UNCHANGED <<db, media, mediaDir, keep, stage, archives, lock, app, from, replacing,
                   ghost, spent>>

\* shutil.move into the keep folder: a rename, over what may be there.
SetAside(e, p) ==
    /\ pc[e] = "setaside" /\ p \in todo[e]
    /\ media[p] # Nothing
    /\ keep' = [keep EXCEPT ![p] = media[p]]
    /\ media' = [media EXCEPT ![p] = Nothing]
    /\ todo' = [todo EXCEPT ![e] = @ \ {p}]
    /\ UNCHANGED <<db, docs, mediaDir, stage, archives, lock, app, pc, from, left, replacing,
                   ghost, spent>>

\* rmtree of the media folder: file by file, then the folder.
TearDown(e, p) ==
    /\ pc[e] = "setaside" /\ todo[e] = {}
    /\ media[p] # Nothing
    /\ media' = [media EXCEPT ![p] = Nothing]
    /\ UNCHANGED <<db, docs, mediaDir, keep, stage, archives, lock, app, pc, from, todo, left,
                   replacing, ghost, spent>>

MediaOut(e) ==
    /\ pc[e] = "setaside" /\ todo[e] = {}
    /\ media = NoFiles /\ mediaDir' = FALSE
    /\ pc' = [pc EXCEPT ![e] = "mediain"]
    /\ UNCHANGED <<db, docs, media, keep, stage, archives, lock, app, from, todo, left,
                   replacing, ghost, spent>>

\* shutil.move of the staged folder; onto a folder that exists it would land
\* INSIDE it, where no path leads.  Without a stage the folder is made empty.
MediaIn(e) ==
    /\ pc[e] = "mediain"
    /\ media' = IF mediaDir \/ stage = Nothing THEN media ELSE stage.media
    /\ mediaDir' = TRUE
    /\ BeginWalk(e, "reseat", At(keep))
    /\ UNCHANGED <<db, docs, keep, stage, archives, lock, app, from, replacing, ghost, spent>>

Restored(e) ==
    /\ pc[e] = "reseat" /\ WalkOver(e)
    /\ Finish(e)
    /\ stage' = Nothing
    /\ served' = [db |-> from[e].db, docs |-> from[e].docs]
    /\ UNCHANGED <<db, docs, media, mediaDir, archives, app, todo, left, owed, spent>>

\* Mutant: the failure path removes the keep folder with the stages (before #550).
RaiseDroppingKeep(e) ==
    /\ pc[e] \in Replacing \cup {"unpack"}
    /\ keep' = NoFiles
    /\ BeginWalk(e, "undo", {})
    /\ UNCHANGED <<db, docs, media, mediaDir, stage, archives, lock, app, from, replacing,
                   ghost, spent>>

\* Any step may raise.
Raise(e) ==
    /\ pc[e] \in Replacing \cup {"unpack"}
    /\ BeginWalk(e, "undo", At(keep))
    /\ UNCHANGED <<db, docs, media, mediaDir, keep, stage, archives, lock, app, from, replacing,
                   ghost, spent>>

Undone(e) ==
    /\ pc[e] = "undo" /\ WalkOver(e)
    /\ Finish(e)
    /\ stage' = Nothing
    /\ UNCHANGED <<db, docs, media, mediaDir, archives, app, todo, left, owed, served, spent>>
-----------------------------------------------------------------------------
(* What the user does between restores (routers/media.py).  A recording that
   is attached while another engine still restores is promised to nobody. *)

Attach(e, p, c) ==
    /\ pc[e] = "serving" /\ app = e
    /\ c \notin owed \cup ContentsOf(media) \cup ContentsOf(keep)
    /\ \A a \in archives : c \notin ContentsOf(a.media)
    /\ media' = [media EXCEPT ![p] = c]
    /\ mediaDir' = TRUE
    /\ owed' = (owed \ {media[p]}) \cup (IF RestoreElsewhere(e) THEN {} ELSE {c})
    /\ UNCHANGED <<db, docs, keep, stage, archives, proc, before, served, spent>>

Detach(e, p) ==
    /\ pc[e] = "serving" /\ app = e
    /\ media[p] # Nothing
    /\ media' = [media EXCEPT ![p] = Nothing]
    /\ owed' = owed \ {media[p]}
    /\ UNCHANGED <<db, docs, mediaDir, keep, stage, archives, proc, before, served, spent>>

RestoreStep(e) == \/ Snapshot(e) \/ SnapshotFails(e) \/ Entered(e) \/ NoStagingFolder(e)
                  \/ Unpack(e) \/ SwapDb(e) \/ DocsOut(e) \/ DocsIn(e) \/ MediaOut(e) \/ MediaIn(e) \/ Restored(e)
                  \/ Raise(e) \/ Undone(e)
                  \/ \E p \in Path : ReseatFile(e, p) \/ SetAside(e, p) \/ TearDown(e, p)

Next == \E e \in Engine :
            \/ Launch(e) \/ Recovered(e) \/ Quit(e) \/ Crash(e)
            \/ RestoringElsewhere(e) \/ RestoreStep(e)
            \/ \E a \in archives : BeginRestore(e, a)
            \/ \E p \in Path : Detach(e, p) \/ \E c \in Content : Attach(e, p, c)

Spec == Init /\ [][Next]_vars
-----------------------------------------------------------------------------
TypeOK == /\ db \in Nat /\ docs \in Nat \cup {Nothing}
          /\ media \in Files /\ keep \in Files /\ mediaDir \in BOOLEAN
          /\ stage \in archives \cup {Nothing}
          /\ \A a \in archives : a \in Archive
          /\ lock \in Engine \cup {Nothing} /\ app \in Engine \cup {Nothing}
          /\ pc \in [Engine -> Where]
          /\ lock # Nothing => pc[lock] # "down"
          /\ from \in [Engine -> archives \cup {Nothing}]
          /\ todo \in [Engine -> SUBSET Path] /\ left \in [Engine -> BOOLEAN]
          /\ replacing \in [Engine -> BOOLEAN]
          /\ owed \subseteq Content

\* A recording the user has not given up is in the media folder, set aside, or
\* in an archive, at every moment and after every death.
RecordingsKept ==
    owed \subseteq ContentsOf(media) \cup ContentsOf(keep)
                     \cup UNION {ContentsOf(a.media) : a \in archives}

\* A restore that stopped partway can be undone: the database and documents the
\* user last had are in place or in an archive of the two together.
CanGoBack == \/ db = served.db /\ docs = served.docs
             \/ \E a \in archives : a.db = served.db /\ a.docs = served.docs

\* "Nothing was changed": a restore that did not start has replaced nothing.
NotStartedChangedNothing == \A e \in Engine :
    pc[e] \in Restoring /\ ~replacing[e] =>
        /\ db = before[e].db /\ docs = before[e].docs
        /\ \A p \in At(before[e].media) : media[p] = before[e].media[p]

\* A completed restore keeps every video the backup does not carry, in its
\* place or in the keep folder, unless the user gave it up meanwhile.
KeepsLocalVideo == [][\A e \in Engine : Restored(e) =>
    \A p \in Video \cap At(before[e].media) :
        from[e].media[p] = Nothing /\ before[e].media[p] \in owed =>
            before[e].media[p] \in ContentsOf(media') \cup ContentsOf(keep')]_vars

\* A completed restore leaves the backup: its database, its documents, its
\* recordings, and beside them only local videos at paths it does not carry,
\* each where it was.
LeavesTheBackup == [][\A e \in Engine : Restored(e) =>
    /\ db = from[e].db /\ docs = from[e].docs
    /\ \A p \in Path : media[p] = IF from[e].media[p] # Nothing THEN from[e].media[p]
                                  ELSE IF p \in Video /\ before[e].media[p] # Nothing
                                  THEN before[e].media[p] ELSE Nothing]_vars

\* Whoever is served has every recording back: nothing waits in the keep folder.
NothingLeftAside == \A e \in Engine : pc[e] = "serving" => keep = NoFiles

\* The leftover keep folder "is re-seated, never deleted": a recording leaves
\* the keep folder only for its place in the media folder.
KeptOnlyGoesBack == [][\A p \in At(keep) :
    keep'[p] = keep[p] \/ media'[p] = keep[p]]_vars
=============================================================================
