------------------------- MODULE RestoreFilesProofs -------------------------
(***************************************************************************)
(* Proofs about RestoreFiles, for any engines, recordings, archives, kinds *)
(* of lock and bounds: whatever dies, raises or runs beside it, a restore  *)
(* leaves every recording that is owed in its place or in an archive, and  *)
(* the database and documents the user last had can be had again.          *)
(***************************************************************************)
EXTENDS RestoreFiles, TLAPS

Archived == UNION {ContentsOf(x.media) : x \in archives}
ServedSaved == \E x \in archives : x.db = served.db /\ x.docs = served.docs

\* A restore that has its backup, and may replace what the backup holds.
PastSnapshot == \E e \in Engine : pc[e] \in Restoring \ {"snapshot"}

\* What is restored is an archive there is.
FromAnArchive == \A e \in Engine : pc[e] \in Restoring => from[e] \in archives

\* Past its backup, a restore finds saved all that is owed: neither another
\* engine nor the user adds to it meanwhile.
SavedFirst == PastSnapshot => owed \subseteq Archived /\ ServedSaved
InPlaceOrArchived == owed \subseteq ContentsOf(media) \cup Archived

TypeInv == TypeOK /\ FromAnArchive
SafeInv == SavedFirst /\ InPlaceOrArchived /\ CanGoBack
------------------------------------------------------------------------------
(* Types *)

\* At the start every variable has its type and nothing is being restored.
LEMMA TypesHold == Init => TypeInv
<1> SUFFICES ASSUME Init PROVE TypeInv
  OBVIOUS
<1>1. NoFiles \in Files /\ media \in Files /\ \A x \in archives : x \in Archive
  BY StartAssumption DEF Init, NoFiles, Files
<1>2. owed \subseteq Content
  BY <1>1 DEF Init, Files, ContentsOf, At
<1>3. \A e \in Engine : pc[e] \notin Restoring
  BY DEF Init, Restoring, Replacing
<1>4. pc \in [Engine -> Where]
  BY DEF Init, Where
<1>5. TypeOK
  BY <1>1, <1>2, <1>4 DEF Init, TypeOK
<1> QED  BY <1>3, <1>5 DEF TypeInv, FromAnArchive

\* A walk over the keep folder ends with the keep folder, or without it.
LEMMA WalkTypes == ASSUME TypeOK, NEW e, WalkOver(e)  PROVE keep' \in Files
<1>1. NoFiles \in Files
  BY DEF NoFiles, Files
<1> QED  BY <1>1 DEF WalkOver, TypeOK

\* A walk over the keep folder begins with files to do, at one engine only.
LEMMA BeginWalkTypes ==
  ASSUME TypeOK, NEW e \in Engine, NEW where \in Where, NEW files \in SUBSET Path,
         BeginWalk(e, where, files)
  PROVE  /\ pc' \in [Engine -> Where] /\ todo' \in [Engine -> SUBSET Path]
         /\ left' \in [Engine -> BOOLEAN] /\ pc'[e] = where
         /\ \A f \in Engine : f # e => pc'[f] = pc[f]
<1>1. /\ pc \in [Engine -> Where] /\ todo \in [Engine -> SUBSET Path]
      /\ left \in [Engine -> BOOLEAN]
  BY DEF TypeOK
<1> QED  BY <1>1 DEF BeginWalk

\* An engine that ends a restore, or dies, holds no lock.
LEMMA FinishTypes ==
  ASSUME TypeInv, NEW e \in Engine, Finish(e), archives' = archives
  PROVE  /\ pc' \in [Engine -> Where] /\ from' \in [Engine -> archives' \cup {Nothing}]
         /\ replacing' \in [Engine -> BOOLEAN] /\ FromAnArchive'
         /\ lock' \in Engine \cup {Nothing} /\ (lock' # Nothing => pc'[lock'] # "down")
<1>1. /\ pc \in [Engine -> Where] /\ from \in [Engine -> archives \cup {Nothing}]
      /\ replacing \in [Engine -> BOOLEAN] /\ lock \in Engine \cup {Nothing}
      /\ lock # Nothing => pc[lock] # "down"
      /\ FromAnArchive
  BY DEF TypeInv, TypeOK
<1>2. {"serving", "down"} \subseteq Where \ Restoring
  BY DEF Where, Restoring, Replacing
<1>3. pc' = [pc EXCEPT ![e] = IF app = e THEN "serving" ELSE "down"]
      /\ from' = [from EXCEPT ![e] = Nothing] /\ replacing' = [replacing EXCEPT ![e] = FALSE]
      /\ lock' = IF lock = e THEN Nothing ELSE lock
  BY DEF Finish, Release
<1>4. pc' \in [Engine -> Where]
  BY <1>1, <1>2, <1>3
<1>5. FromAnArchive'
  BY <1>1, <1>2, <1>3 DEF FromAnArchive
<1>6. lock' \in Engine \cup {Nothing} /\ (lock' # Nothing => pc'[lock'] # "down")
  BY <1>1, <1>3
<1> QED  BY <1>1, <1>3, <1>4, <1>5, <1>6

\* An engine that quits or dies restores nothing, does nothing and holds no lock.
LEMMA StopTypes ==
  ASSUME TypeInv, NEW e \in Engine, Stop(e), archives' = archives
  PROVE  /\ pc' \in [Engine -> Where] /\ from' \in [Engine -> archives' \cup {Nothing}]
         /\ replacing' \in [Engine -> BOOLEAN] /\ FromAnArchive'
         /\ todo' \in [Engine -> SUBSET Path] /\ left' \in [Engine -> BOOLEAN]
         /\ lock' \in Engine \cup {Nothing} /\ (lock' # Nothing => pc'[lock'] # "down")
<1>1. /\ pc \in [Engine -> Where] /\ from \in [Engine -> archives \cup {Nothing}]
      /\ replacing \in [Engine -> BOOLEAN] /\ lock \in Engine \cup {Nothing}
      /\ todo \in [Engine -> SUBSET Path] /\ left \in [Engine -> BOOLEAN]
      /\ lock # Nothing => pc[lock] # "down"
      /\ FromAnArchive
  BY DEF TypeInv, TypeOK
<1>2. "down" \in Where \ Restoring
  BY DEF Where, Restoring, Replacing
<1>3. pc' = [pc EXCEPT ![e] = "down"]
      /\ from' = [from EXCEPT ![e] = Nothing] /\ replacing' = [replacing EXCEPT ![e] = FALSE]
      /\ todo' = [todo EXCEPT ![e] = {}] /\ left' = [left EXCEPT ![e] = FALSE]
      /\ lock' = IF lock = e THEN Nothing ELSE lock
  BY DEF Stop, Release
<1>4. FromAnArchive'
  BY <1>1, <1>2, <1>3 DEF FromAnArchive
<1>5. lock' \in Engine \cup {Nothing} /\ (lock' # Nothing => pc'[lock'] # "down")
  BY <1>1, <1>3
<1> QED  BY <1>1, <1>2, <1>3, <1>4, <1>5

\* The steps of the processes: launch, recovery, quit and death.
LEMMA ProcessTypes ==
  ASSUME TypeInv, NEW e \in Engine, Launch(e) \/ Recovered(e) \/ Quit(e) \/ Crash(e)
  PROVE  TypeInv'
<1>0. TypeOK /\ FromAnArchive /\ Nothing \notin Engine
  BY FilesAssumption DEF TypeInv
<1>1. CASE Launch(e)
  <2>1. PICK where \in {"starting", "serving"}, files \in {At(keep), {}} : BeginWalk(e, where, files)
    BY <1>1 DEF Launch
  <2>2. where \in Where \ (Restoring \cup {"down"}) /\ files \in SUBSET Path
    BY DEF Where, Restoring, Replacing, At
  <2>3. /\ pc' \in [Engine -> Where] /\ todo' \in [Engine -> SUBSET Path]
        /\ left' \in [Engine -> BOOLEAN] /\ pc'[e] = where
        /\ \A f \in Engine : f # e => pc'[f] = pc[f]
    BY <1>0, <2>1, <2>2, BeginWalkTypes
  <2>4. UNCHANGED <<disk, from, replacing, owed>> /\ app' = e /\ (lock' = lock \/ lock' = e)
    BY <1>1 DEF Launch, Held, Taken, Unlocked, ghost
  <2>5. lock' \in Engine \cup {Nothing} /\ (lock' # Nothing => pc'[lock'] # "down")
    BY <1>0, <2>2, <2>3, <2>4 DEF TypeOK
  <2>6. TypeOK'
    BY <1>0, <2>3, <2>4, <2>5 DEF TypeOK, disk
  <2>7. FromAnArchive'
    BY <1>0, <2>2, <2>3, <2>4 DEF FromAnArchive, disk
  <2> QED  BY <2>6, <2>7 DEF TypeInv
<1>2. CASE Recovered(e)
  <2>1. /\ UNCHANGED <<db, docs, media, mediaDir, stage, archives, app, from, todo, left,
                       replacing, owed>>
        /\ pc' = [pc EXCEPT ![e] = "serving"] /\ lock' = IF lock = e THEN Nothing ELSE lock
    BY <1>2 DEF Recovered, Release, ghost
  <2>2. keep' \in Files
    BY <1>0, <1>2, WalkTypes DEF Recovered
  <2>3. "serving" \in Where \ Restoring
    BY DEF Where, Restoring, Replacing
  <2>4. pc' \in [Engine -> Where] /\ lock' \in Engine \cup {Nothing}
        /\ (lock' # Nothing => pc'[lock'] # "down")
    BY <1>0, <2>1, <2>3 DEF TypeOK
  <2>5. TypeOK'
    BY <1>0, <2>1, <2>2, <2>4 DEF TypeOK
  <2>6. FromAnArchive'
    BY <1>0, <2>1, <2>3 DEF FromAnArchive, TypeOK
  <2> QED  BY <2>5, <2>6 DEF TypeInv
<1>3. CASE Stop(e) /\ UNCHANGED <<disk, owed>> /\ app' \in {app, Nothing}
  BY <1>0, <1>3, StopTypes DEF TypeInv, TypeOK, disk
<1>4. CASE /\ UNCHANGED <<disk, lock, pc, from, todo, left, replacing, owed>>
           /\ app' = Nothing
  BY <1>0, <1>4 DEF TypeInv, TypeOK, FromAnArchive, disk
<1> QED  BY <1>1, <1>2, <1>3, <1>4 DEF Quit, Crash

\* Asking for a restore, its backup, and a refusal.
LEMMA AskTypes ==
  ASSUME TypeInv, NEW e \in Engine,
         \/ RestoringElsewhere(e) \/ Snapshot(e) \/ SnapshotFails(e)
         \/ \E x \in archives : BeginRestore(e, x)
  PROVE  TypeInv'
<1>0. TypeOK /\ FromAnArchive
  BY DEF TypeInv
<1>1. CASE RestoringElsewhere(e)
  BY <1>0, <1>1 DEF RestoringElsewhere, Taken, TypeInv, TypeOK, FromAnArchive, disk, ghost
<1>2. CASE SnapshotFails(e)
  BY <1>0, <1>2, FinishTypes DEF SnapshotFails, TypeInv, TypeOK, disk
<1>3. ASSUME NEW x \in archives, BeginRestore(e, x)
      PROVE  TypeInv'
  <2>1. /\ UNCHANGED <<disk, app, todo, left, replacing, owed>>
        /\ pc' = [pc EXCEPT ![e] = "snapshot"] /\ from' = [from EXCEPT ![e] = x]
        /\ lock' = lock \/ lock' = e
    BY <1>3 DEF BeginRestore, Held, Unlocked
  <2>2. "snapshot" \in Where /\ "snapshot" # "down"
    BY DEF Where, Restoring
  <2>3. /\ pc' \in [Engine -> Where] /\ from' \in [Engine -> archives' \cup {Nothing}]
        /\ lock' \in Engine \cup {Nothing} /\ (lock' # Nothing => pc'[lock'] # "down")
    BY <1>0, <2>1, <2>2 DEF TypeOK, disk
  <2>4. TypeOK'
    BY <1>0, <2>1, <2>3 DEF TypeOK, disk
  <2>5. FromAnArchive'
    BY <1>0, <2>1 DEF FromAnArchive, TypeOK, disk
  <2> QED  BY <2>4, <2>5 DEF TypeInv
<1>4. CASE Snapshot(e)
  <2> DEFINE x == [db |-> db, docs |-> docs, media |-> media]
  <2>1. x \in Archive
    BY <1>0 DEF TypeOK, Archive
  <2>2. /\ archives' = archives \cup {x} /\ BeginWalk(e, "entry", At(keep))
        /\ UNCHANGED <<db, docs, media, mediaDir, keep, stage, lock, app, from, replacing, owed>>
    BY <1>4 DEF Snapshot, ghost
  <2> HIDE DEF x
  <2>3. "entry" \in Where /\ "entry" # "down" /\ At(keep) \in SUBSET Path
    BY DEF Where, Restoring, At
  <2>4. /\ pc' \in [Engine -> Where] /\ todo' \in [Engine -> SUBSET Path]
        /\ left' \in [Engine -> BOOLEAN] /\ pc'[e] = "entry"
        /\ \A f \in Engine : f # e => pc'[f] = pc[f]
    BY <1>0, <2>2, <2>3, BeginWalkTypes
  <2>5. pc[e] \in Restoring
    BY <1>4 DEF Snapshot, Restoring
  <2>6. lock' # Nothing => pc'[lock'] # "down"
    BY <1>0, <2>2, <2>3, <2>4 DEF TypeOK
  <2>7. from' \in [Engine -> archives' \cup {Nothing}]
    BY <1>0, <2>2 DEF TypeOK
  <2>8. TypeOK'
    BY <1>0, <2>1, <2>2, <2>4, <2>6, <2>7 DEF TypeOK
  <2>9. FromAnArchive'
    BY <1>0, <2>2, <2>4, <2>5 DEF FromAnArchive
  <2> QED  BY <2>8, <2>9 DEF TypeInv
<1> QED  BY <1>1, <1>2, <1>3, <1>4

\* A step of a restore that goes on: it changes the disk, and its own place.
LEMMA GoesOnTypes ==
  ASSUME TypeInv, NEW e \in Engine, pc[e] \in Restoring,
         db' \in Nat, docs' \in Nat \cup {Nothing}, media' \in Files, keep' \in Files,
         mediaDir' \in BOOLEAN, stage' \in archives \cup {Nothing}, archives' = archives,
         pc' \in [Engine -> Where], pc'[e] # "down",
         \A f \in Engine : f # e => pc'[f] = pc[f],
         todo' \in [Engine -> SUBSET Path], left' \in [Engine -> BOOLEAN],
         replacing' \in [Engine -> BOOLEAN], UNCHANGED <<lock, app, from, owed>>
  PROVE  TypeInv'
<1>0. TypeOK /\ FromAnArchive
  BY DEF TypeInv
<1>1. lock' # Nothing => pc'[lock'] # "down"
  BY <1>0 DEF TypeOK
<1>2. TypeOK'
  BY <1>0, <1>1 DEF TypeOK
<1>3. FromAnArchive'
  BY <1>0 DEF FromAnArchive
<1> QED  BY <1>2, <1>3 DEF TypeInv

\* A restore up to its end.
LEMMA RestoreTypes ==
  ASSUME TypeInv, NEW e \in Engine,
         \/ Entered(e) \/ Unpack(e) \/ SwapDb(e) \/ DocsOut(e) \/ DocsIn(e) \/ MediaOut(e)
         \/ MediaIn(e) \/ Raise(e)
         \/ \E p \in Path : SetAside(e, p) \/ TearDown(e, p)
  PROVE  TypeInv'
<1>0. TypeOK /\ FromAnArchive
  BY DEF TypeInv
<1>1. /\ db \in Nat /\ docs \in Nat \cup {Nothing} /\ media \in Files /\ keep \in Files
      /\ mediaDir \in BOOLEAN /\ stage \in archives \cup {Nothing}
      /\ pc \in [Engine -> Where] /\ todo \in [Engine -> SUBSET Path]
      /\ left \in [Engine -> BOOLEAN] /\ replacing \in [Engine -> BOOLEAN]
      /\ \A x \in archives : x.db \in Nat /\ x.docs \in Nat \cup {Nothing} /\ x.media \in Files
  BY <1>0 DEF TypeOK, Archive
<1>2. pc[e] \in Restoring => from[e] \in archives
  BY <1>0 DEF FromAnArchive
<1>3. {"unpack", "swapdb", "docsout", "docsin", "setaside", "mediain", "reseat", "undo", "entry"}
        \subseteq (Where \cap Restoring) \ {"down"}
  BY DEF Where, Restoring, Replacing
<1>4. ASSUME NEW where \in Where \ {"down"}, pc' = [pc EXCEPT ![e] = where]
      PROVE  /\ pc' \in [Engine -> Where] /\ pc'[e] # "down"
             /\ \A f \in Engine : f # e => pc'[f] = pc[f]
  BY <1>1, <1>4
<1>5. ASSUME NEW where \in Where \ {"down"}, NEW files \in SUBSET Path, BeginWalk(e, where, files)
      PROVE  /\ pc' \in [Engine -> Where] /\ pc'[e] # "down"
             /\ \A f \in Engine : f # e => pc'[f] = pc[f]
             /\ todo' \in [Engine -> SUBSET Path] /\ left' \in [Engine -> BOOLEAN]
  BY <1>0, <1>5, BeginWalkTypes
<1>6. CASE Entered(e)
  <2>1. keep' \in Files
    BY <1>0, <1>6, WalkTypes DEF Entered
  <2> QED  BY <1>1, <1>3, <1>4, <1>6, <2>1, GoesOnTypes DEF Entered, ghost
<1>7. CASE Unpack(e) \/ SwapDb(e) \/ DocsOut(e)
  <2>1. pc[e] \in Restoring
    BY <1>3, <1>7 DEF Unpack, SwapDb, DocsOut
  <2>2. from[e] \in archives
    BY <1>2, <2>1
  <2>3. \E where \in Where \ {"down"} : pc' = [pc EXCEPT ![e] = where]
    BY <1>3, <1>7 DEF Unpack, SwapDb, DocsOut
  <2>4. /\ db' \in Nat /\ docs' \in Nat \cup {Nothing} /\ stage' \in archives \cup {Nothing}
        /\ replacing' \in [Engine -> BOOLEAN]
        /\ UNCHANGED <<media, keep, mediaDir, archives, todo, left, lock, app, from, owed>>
    BY <1>1, <1>7, <2>2 DEF Unpack, SwapDb, DocsOut, ghost
  <2> QED  BY <1>1, <1>4, <2>1, <2>3, <2>4, GoesOnTypes
<1>8. CASE DocsIn(e)
  <2>1. pc[e] \in Restoring /\ {p \in Video \cap At(media) : from[e].media[p] = Nothing} \in SUBSET Path
    BY <1>3, <1>8 DEF DocsIn, At
  <2>2. docs' \in Nat \cup {Nothing}
    BY <1>1, <1>8 DEF DocsIn
  <2> QED  BY <1>1, <1>3, <1>5, <1>8, <2>1, <2>2, GoesOnTypes DEF DocsIn, ghost
<1>9. CASE MediaIn(e) \/ Raise(e)
  <2>1. pc[e] \in Restoring /\ At(keep) \in SUBSET Path
    BY <1>3, <1>9 DEF MediaIn, Raise, Restoring, At
  <2>2. media' \in Files /\ mediaDir' \in BOOLEAN
    BY <1>1, <1>9 DEF MediaIn, Raise
  <2>3. \E where \in Where \ {"down"} : BeginWalk(e, where, At(keep))
    BY <1>3, <1>9 DEF MediaIn, Raise
  <2>4. UNCHANGED <<db, docs, keep, stage, archives, lock, app, from, replacing, owed>>
    BY <1>9 DEF MediaIn, Raise, ghost
  <2> QED  BY <1>1, <1>5, <2>1, <2>2, <2>3, <2>4, GoesOnTypes
<1>10. CASE MediaOut(e)
  <2>1. pc[e] \in Restoring /\ mediaDir' \in BOOLEAN
    BY <1>3, <1>10 DEF MediaOut
  <2> QED  BY <1>1, <1>3, <1>4, <1>10, <2>1, GoesOnTypes DEF MediaOut, ghost
<1>11. ASSUME NEW p \in Path, SetAside(e, p) \/ TearDown(e, p)
       PROVE  TypeInv'
  <2>1. pc[e] \in Restoring /\ pc[e] # "down"
    BY <1>3, <1>11 DEF SetAside, TearDown
  <2>2. media[p] \in Content \cup {Nothing}
    BY <1>1 DEF Files
  <2>3. media' \in Files
    BY <1>1, <1>11 DEF SetAside, TearDown, Files
  <2>4. keep' \in Files
    BY <1>1, <1>11, <2>2 DEF SetAside, TearDown, Files
  <2>5. todo' \in [Engine -> SUBSET Path]
    BY <1>1, <1>11 DEF SetAside, TearDown
  <2> QED  BY <1>1, <1>11, <2>1, <2>3, <2>4, <2>5, GoesOnTypes DEF SetAside, TearDown, ghost
<1> QED  BY <1>6, <1>7, <1>8, <1>9, <1>10, <1>11

\* The ends of a restore.
LEMMA EndTypes ==
  ASSUME TypeInv, NEW e \in Engine, NoStagingFolder(e) \/ Restored(e) \/ Undone(e)
  PROVE  TypeInv'
<1>1. /\ UNCHANGED <<db, docs, media, mediaDir, archives, app, todo, left, owed>>
      /\ stage' = Nothing /\ Finish(e) /\ WalkOver(e)
  BY DEF NoStagingFolder, Restored, Undone
<1>2. keep' \in Files
  BY <1>1, WalkTypes DEF TypeInv
<1> QED  BY <1>1, <1>2, FinishTypes DEF TypeInv, TypeOK

\* A walk over the keep folder, and the user's own recordings.
LEMMA FileTypes ==
  ASSUME TypeInv, NEW e \in Engine, NEW p \in Path,
         ReseatFile(e, p) \/ Detach(e, p) \/ \E c \in Content : Attach(e, p, c)
  PROVE  TypeInv'
<1>0. TypeOK /\ FromAnArchive
  BY DEF TypeInv
<1>1. /\ media \in Files /\ keep \in Files /\ mediaDir \in BOOLEAN /\ owed \subseteq Content
      /\ todo \in [Engine -> SUBSET Path] /\ left \in [Engine -> BOOLEAN]
  BY <1>0 DEF TypeOK
<1>2. CASE ReseatFile(e, p)
  <2>1. keep[p] \in Content \cup {Nothing}
    BY <1>1 DEF Files
  <2>2. media' \in Files /\ keep' \in Files /\ mediaDir' \in BOOLEAN
    BY <1>1, <1>2, <2>1 DEF ReseatFile, Files
  <2>3. todo' \in [Engine -> SUBSET Path] /\ left' \in [Engine -> BOOLEAN]
    BY <1>1, <1>2 DEF ReseatFile
  <2>4. UNCHANGED <<db, docs, stage, archives, lock, app, pc, from, replacing, owed>>
    BY <1>2 DEF ReseatFile, ghost
  <2> QED  BY <1>0, <2>2, <2>3, <2>4 DEF TypeInv, TypeOK, FromAnArchive
<1>3. CASE Detach(e, p)
  <2>1. media' \in Files /\ owed' \subseteq Content
    BY <1>1, <1>3 DEF Detach, Files
  <2> QED  BY <1>0, <1>3, <2>1 DEF Detach, TypeInv, TypeOK, FromAnArchive, proc
<1>4. ASSUME NEW c \in Content, Attach(e, p, c)
      PROVE  TypeInv'
  <2>1. media' \in Files /\ owed' \subseteq Content /\ mediaDir' = TRUE
    BY <1>1, <1>4 DEF Attach, Files
  <2> QED  BY <1>0, <1>4, <2>1 DEF Attach, TypeInv, TypeOK, FromAnArchive, proc
<1> QED  BY <1>2, <1>3, <1>4

\* Each step keeps the types, and what is restored an archive there is.
LEMMA TypeStep == TypeInv /\ [Next]_vars => TypeInv'
<1> SUFFICES ASSUME TypeInv, [Next]_vars PROVE TypeInv'
  OBVIOUS
<1>1. CASE UNCHANGED vars
  BY <1>1 DEF vars, disk, proc, ghost, TypeInv, TypeOK, FromAnArchive
<1>2. CASE Next
  BY <1>2, ProcessTypes, AskTypes, RestoreTypes, EndTypes, FileTypes DEF Next, RestoreStep
<1> QED  BY <1>1, <1>2

\* Types: every variable keeps its type, and a lock is held by an engine that runs.
THEOREM TypeCorrect == Spec => []TypeOK
<1>1. TypeInv => TypeOK
  BY DEF TypeInv
<1> QED  BY <1>1, TypesHold, TypeStep, PTL DEF Spec

------------------------------------------------------------------------------
(* What is owed is in its place or saved *)

\* At the start the library is in its place, and nobody restores.
LEMMA SafeHolds == Init => SafeInv
<1> SUFFICES ASSUME Init PROVE SafeInv
  OBVIOUS
<1>1. ~PastSnapshot
  BY DEF Init, PastSnapshot, Restoring, Replacing
<1>2. CanGoBack
  BY DEF Init, CanGoBack
<1> QED  BY <1>1, <1>2 DEF Init, SafeInv, SavedFirst, InPlaceOrArchived

\* Where everything owed is saved, a step that takes nothing from the archives
\* and adds nothing to what is owed may do as it likes.
LEMMA SavedIsSafe ==
  ASSUME SafeInv, PastSnapshot, archives' = archives, served' = served, owed' \subseteq owed
  PROVE  SafeInv'
<1>1. owed \subseteq Archived /\ ServedSaved
  BY DEF SafeInv, SavedFirst
<1>2. Archived' = Archived /\ ServedSaved'
  BY <1>1 DEF Archived, ServedSaved, ContentsOf, At
<1> QED  BY <1>1, <1>2 DEF SafeInv, SavedFirst, InPlaceOrArchived, CanGoBack, ServedSaved

\* A step that leaves what is in place, and is no backup.
LEMMA InPlaceIsSafe ==
  ASSUME SafeInv, UNCHANGED <<db, docs, archives, served>>, PastSnapshot' => PastSnapshot,
         ContentsOf(media) \cap owed' \subseteq ContentsOf(media'), owed' \subseteq owed
  PROVE  SafeInv'
<1>1. Archived' = Archived /\ (ServedSaved' <=> ServedSaved)
  BY DEF Archived, ServedSaved, ContentsOf, At
<1>2. ContentsOf(media)' = ContentsOf(media')
  BY DEF ContentsOf, At
<1>3. SavedFirst'
  BY <1>1 DEF SafeInv, SavedFirst
<1>4. InPlaceOrArchived'
  BY <1>1, <1>2 DEF SafeInv, InPlaceOrArchived
<1>5. CanGoBack'
  BY DEF SafeInv, CanGoBack
<1> QED  BY <1>3, <1>4, <1>5 DEF SafeInv

\* The backup saves what is in place, and what was not is in an older archive.
LEMMA SnapshotIsSafe ==
  ASSUME TypeInv, SafeInv, NEW e \in Engine, Snapshot(e)
  PROVE  SafeInv'
<1> DEFINE x == [db |-> db, docs |-> docs, media |-> media]
<1>1. archives' = archives \cup {x} /\ UNCHANGED <<db, docs, media, owed, served>>
  BY DEF Snapshot, ghost
<1>2. Archived' = Archived \cup ContentsOf(media)
  <2>1. x.media = media
    OBVIOUS
  <2> HIDE DEF x
  <2> QED  BY <1>1, <2>1 DEF Archived, ContentsOf, At
<1>3. owed \subseteq Archived'
  BY <1>2 DEF SafeInv, InPlaceOrArchived
<1>4. ServedSaved'
  <2>1. CASE db = served.db /\ docs = served.docs
    <3>1. x \in archives' /\ x.db = served'.db /\ x.docs = served'.docs
      BY <1>1, <2>1
    <3> QED  BY <3>1 DEF ServedSaved
  <2>2. CASE ServedSaved
    BY <1>1, <2>2 DEF ServedSaved
  <2> QED  BY <2>1, <2>2 DEF SafeInv, CanGoBack, ServedSaved
<1> HIDE DEF x
<1> QED  BY <1>1, <1>3, <1>4 DEF SafeInv, SavedFirst, InPlaceOrArchived, CanGoBack, ServedSaved

\* What a restore restored is an archive there is.
LEMMA RestoredIsSafe ==
  ASSUME TypeInv, SafeInv, NEW e \in Engine, Restored(e)
  PROVE  SafeInv'
<1>1. /\ archives' = archives /\ owed' = owed
      /\ served' = [db |-> from[e].db, docs |-> from[e].docs] /\ pc[e] = "reseat"
  BY DEF Restored
<1>2. pc[e] \in Restoring \ {"snapshot"}
  BY <1>1 DEF Restoring
<1>3. from[e] \in archives /\ owed \subseteq Archived
  BY <1>2 DEF TypeInv, FromAnArchive, SafeInv, SavedFirst, PastSnapshot
<1>4. Archived' = Archived /\ ServedSaved'
  BY <1>1, <1>3 DEF Archived, ServedSaved, ContentsOf, At
<1> QED  BY <1>1, <1>3, <1>4 DEF SafeInv, SavedFirst, InPlaceOrArchived, CanGoBack, ServedSaved

\* A recording that is attached while a restore runs is promised to nobody; one
\* that is attached otherwise is in its place.
LEMMA AttachIsSafe ==
  ASSUME TypeInv, SafeInv, NEW e \in Engine, NEW p \in Path, NEW c \in Content, Attach(e, p, c)
  PROVE  SafeInv'
<1>1. /\ pc[e] = "serving" /\ c \notin owed /\ media' = [media EXCEPT ![p] = c]
      /\ owed' = (owed \ {media[p]}) \cup (IF RestoreElsewhere(e) THEN {} ELSE {c})
      /\ UNCHANGED <<db, docs, archives, served, pc>>
  BY DEF Attach, proc
<1>2. media \in Files /\ c # Nothing
  BY FilesAssumption DEF TypeInv, TypeOK
<1>3. ContentsOf(media) \ {media[p]} \subseteq ContentsOf(media') /\ c \in ContentsOf(media')
  <2>1. media'[p] = c /\ \A q \in Path : q # p => media'[q] = media[q]
    BY <1>1, <1>2 DEF Files
  <2> QED  BY <1>2, <2>1 DEF ContentsOf, At
<1>4. "serving" \notin Restoring
  BY DEF Restoring, Replacing
<1>5. PastSnapshot => RestoreElsewhere(e)
  BY <1>1, <1>4 DEF PastSnapshot, RestoreElsewhere
<1>6. CASE RestoreElsewhere(e)
  <2>1. owed' \subseteq owed /\ ContentsOf(media) \cap owed' \subseteq ContentsOf(media')
    BY <1>1, <1>3, <1>6
  <2>2. PastSnapshot' => PastSnapshot
    BY <1>1 DEF PastSnapshot
  <2> QED  BY <1>1, <2>1, <2>2, InPlaceIsSafe
<1>7. CASE ~RestoreElsewhere(e)
  <2>1. ~PastSnapshot'
    BY <1>1, <1>5, <1>7 DEF PastSnapshot
  <2>2. Archived' = Archived /\ ContentsOf(media)' = ContentsOf(media')
    BY <1>1 DEF Archived, ContentsOf, At
  <2>3. owed' \subseteq ContentsOf(media') \cup Archived
    BY <1>1, <1>3, <1>7 DEF SafeInv, InPlaceOrArchived
  <2>4. CanGoBack'
    BY <1>1 DEF SafeInv, CanGoBack
  <2> QED  BY <2>1, <2>2, <2>3, <2>4 DEF SafeInv, SavedFirst, InPlaceOrArchived
<1> QED  BY <1>6, <1>7

\* A walk outside a restore, as an engine starts, only puts recordings back.
LEMMA FileIsSafe ==
  ASSUME TypeInv, SafeInv, NEW e \in Engine, NEW p \in Path, ReseatFile(e, p) \/ Detach(e, p)
  PROVE  SafeInv'
<1>1. media \in Files
  BY DEF TypeInv, TypeOK
<1>2. CASE ReseatFile(e, p)
  <2>1. UNCHANGED <<db, docs, archives, served, owed, pc>>
        /\ (media' = media \/ (media[p] = Nothing /\ media' = [media EXCEPT ![p] = keep[p]]))
    BY <1>2 DEF ReseatFile, ghost
  <2>2. ContentsOf(media) \subseteq ContentsOf(media')
    <3>1. CASE media' = media
      BY <3>1
    <3>2. CASE media[p] = Nothing /\ media' = [media EXCEPT ![p] = keep[p]]
      <4>1. \A q \in At(media) : media'[q] = media[q]
        BY <1>1, <3>2 DEF Files, At
      <4> QED  BY <4>1 DEF ContentsOf, At
    <3> QED  BY <2>1, <3>1, <3>2
  <2>3. PastSnapshot' => PastSnapshot
    BY <2>1 DEF PastSnapshot
  <2> QED  BY <2>1, <2>2, <2>3, InPlaceIsSafe
<1>3. CASE Detach(e, p)
  <2>1. /\ UNCHANGED <<db, docs, archives, served, pc>>
        /\ media' = [media EXCEPT ![p] = Nothing] /\ owed' = owed \ {media[p]}
    BY <1>3 DEF Detach, proc
  <2>2. \A q \in At(media) : q # p => media'[q] = media[q]
    BY <1>1, <2>1 DEF Files, At
  <2>3. ContentsOf(media) \cap owed' \subseteq ContentsOf(media')
    BY <2>1, <2>2 DEF ContentsOf, At
  <2>4. PastSnapshot' => PastSnapshot
    BY <2>1 DEF PastSnapshot
  <2> QED  BY <2>1, <2>3, <2>4, InPlaceIsSafe
<1> QED  BY <1>2, <1>3

\* Each step keeps what is owed in its place or saved, whichever engines run,
\* hold the lock or die.
LEMMA SafeStep == TypeInv /\ SafeInv /\ [Next]_vars => SafeInv'
<1> SUFFICES ASSUME TypeInv, SafeInv, [Next]_vars PROVE SafeInv'
  OBVIOUS
<1>0. pc \in [Engine -> Where]
  BY DEF TypeInv, TypeOK
<1>1. CASE UNCHANGED vars
  <2>1. PastSnapshot' => PastSnapshot
    BY <1>1 DEF vars, proc, PastSnapshot
  <2> QED  BY <1>1, <2>1, InPlaceIsSafe DEF vars, disk, ghost
<1>2. ASSUME NEW e \in Engine, NEW where \in {"down", "serving", "starting", "snapshot"},
             pc' = [pc EXCEPT ![e] = where], UNCHANGED <<db, docs, media, archives, served, owed>>
      PROVE  SafeInv'
  <2>1. where \notin Restoring \ {"snapshot"}
    BY DEF Restoring, Replacing
  <2>2. PastSnapshot' => PastSnapshot
    BY <1>0, <1>2, <2>1 DEF PastSnapshot
  <2> QED  BY <1>2, <2>2, InPlaceIsSafe
<1>3. ASSUME NEW e \in Engine, Launch(e) \/ Recovered(e) \/ Crash(e)
      PROVE  SafeInv'
  <2>1. UNCHANGED <<db, docs, media, archives, served, owed>>
    BY <1>3 DEF Launch, Recovered, Crash, disk, ghost
  <2>2. \E where \in {"down", "serving", "starting", "snapshot"} : pc' = [pc EXCEPT ![e] = where]
    BY <1>3 DEF Launch, Recovered, Crash, Stop, BeginWalk
  <2> QED  BY <1>2, <2>1, <2>2
<1>4. ASSUME NEW e \in Engine, Quit(e) \/ RestoringElsewhere(e)
      PROVE  SafeInv'
  <2>1. UNCHANGED <<db, docs, media, archives, served, owed>>
        /\ (pc' = pc \/ pc' = [pc EXCEPT ![e] = "down"])
    BY <1>4 DEF Quit, RestoringElsewhere, Stop, disk, ghost
  <2>2. pc' = pc => (PastSnapshot' => PastSnapshot)
    BY DEF PastSnapshot
  <2> QED  BY <1>2, <2>1, <2>2, InPlaceIsSafe
<1>5. ASSUME NEW e \in Engine, SnapshotFails(e) \/ \E x \in archives : BeginRestore(e, x)
      PROVE  SafeInv'
  <2>1. UNCHANGED <<db, docs, media, archives, served, owed>>
    BY <1>5 DEF SnapshotFails, BeginRestore, disk
  <2>2. \E where \in {"down", "serving", "starting", "snapshot"} : pc' = [pc EXCEPT ![e] = where]
    BY <1>5 DEF SnapshotFails, BeginRestore, Finish
  <2> QED  BY <1>2, <2>1, <2>2
<1>6. ASSUME NEW e \in Engine,
             \/ Entered(e) \/ NoStagingFolder(e) \/ Unpack(e) \/ SwapDb(e) \/ DocsOut(e)
             \/ DocsIn(e) \/ MediaOut(e) \/ MediaIn(e) \/ Raise(e) \/ Undone(e)
             \/ \E p \in Path : SetAside(e, p) \/ TearDown(e, p)
      PROVE  SafeInv'
  <2>1. pc[e] \in Restoring \ {"snapshot"}
    BY <1>6 DEF Entered, NoStagingFolder, Unpack, SwapDb, DocsOut, DocsIn, MediaOut, MediaIn,
                Raise, Undone, SetAside, TearDown, Restoring, Replacing
  <2>2. UNCHANGED <<archives, served, owed>>
    BY <1>6 DEF Entered, NoStagingFolder, Unpack, SwapDb, DocsOut, DocsIn, MediaOut, MediaIn,
                Raise, Undone, SetAside, TearDown, ghost
  <2> QED  BY <2>1, <2>2, SavedIsSafe DEF PastSnapshot
<1> QED
  BY <1>1, <1>3, <1>4, <1>5, <1>6, SnapshotIsSafe, RestoredIsSafe, AttachIsSafe, FileIsSafe
     DEF Next, RestoreStep

\* The inductive invariant: past its backup a restore finds saved all that is
\* owed, and what is owed is in its place or in an archive.
THEOREM FilesInvariant == Spec => [](TypeInv /\ SafeInv)
<1>1. Init => TypeInv /\ SafeInv
  BY TypesHold, SafeHolds
<1>2. TypeInv /\ SafeInv /\ [Next]_vars => (TypeInv /\ SafeInv)'
  BY TypeStep, SafeStep
<1> QED  BY <1>1, <1>2, PTL DEF Spec

\* A recording the user has not given up is in its place, set aside or in an
\* archive, at every moment and after every death or error.
THEOREM RecordingsAreKept == Spec => []RecordingsKept
<1>1. TypeInv /\ SafeInv => RecordingsKept
  BY DEF SafeInv, InPlaceOrArchived, RecordingsKept, Archived
<1> QED  BY <1>1, FilesInvariant, PTL

\* The database and documents the user last had are in place or in an archive of
\* the two together, wherever a restore stopped.
THEOREM AlwaysCanGoBack == Spec => []CanGoBack
<1>1. TypeInv /\ SafeInv => CanGoBack
  BY DEF SafeInv
<1> QED  BY <1>1, FilesInvariant, PTL

------------------------------------------------------------------------------
(* One engine at a time *)

\* What an engine may do.
Step(e) == \/ Launch(e) \/ Recovered(e) \/ Quit(e) \/ Crash(e)
           \/ RestoringElsewhere(e) \/ RestoreStep(e)
           \/ \E x \in archives : BeginRestore(e, x)
           \/ \E p \in Path : Detach(e, p) \/ \E c \in Content : Attach(e, p, c)

Before == [db : Nat, docs : Nat \cup {Nothing}, media : Files]
BeforeTyped == /\ before \in [Engine -> Before \cup {Nothing}]
               /\ \A e \in Engine : pc[e] \in Restoring => before[e] \in Before

\* Where closing the app kills its engine, the one that runs is the app's.
OneEngine == \A e \in Engine : pc[e] # "down" => app = e

\* A restore that replaces says so, and one that does not has changed nothing
\* but empty places.
NotStarted(e) ==
    /\ pc[e] \in Replacing \cup {"reseat"} => replacing[e]
    /\ pc[e] \in Restoring /\ ~replacing[e] =>
          /\ db = before[e].db /\ docs = before[e].docs
          /\ \A p \in At(before[e].media) : media[p] = before[e].media[p]
StartInv == OneEngine /\ BeforeTyped /\ \A e \in Engine : NotStarted(e)

\* A video at a path that the archive does not carry.
Local(e, p) == p \in Video /\ from[e].media[p] = Nothing /\ before[e].media[p] # Nothing

\* Up to its replacing of the documents, a restore finds the keep folder empty.
Early == {"snapshot", "entry", "unpack", "swapdb", "docsout", "docsin"}

\* Where besides no move fails and the lock can be had: how far a restore is.
InPlace(e) ==
    /\ pc[e] \in Early \cup {"serving"} => keep = NoFiles
    /\ pc[e] \in Early => media = before[e].media
    /\ pc[e] \in Reseating => todo[e] = At(keep) /\ ~left[e]
    /\ pc[e] \in Replacing \cup {"reseat"} => stage = from[e]
    /\ pc[e] \in {"docsout", "docsin", "setaside", "mediain", "reseat"} => db = from[e].db
    /\ pc[e] \in {"setaside", "mediain", "reseat"} =>
          /\ docs = from[e].docs
          /\ \A p \in Path : keep[p] # Nothing => Local(e, p) /\ keep[p] = before[e].media[p]
    /\ pc[e] = "setaside" => \A p \in Path :
          /\ p \in todo[e] => Local(e, p)
          /\ Local(e, p) => \/ p \in todo[e] /\ media[p] = before[e].media[p]
                            \/ keep[p] = before[e].media[p]
    /\ pc[e] = "mediain" =>
          /\ mediaDir = FALSE
          /\ \A p \in Path : Local(e, p) => keep[p] = before[e].media[p]
    /\ pc[e] = "reseat" => \A p \in Path :
          media[p] = IF from[e].media[p] # Nothing THEN from[e].media[p]
                     ELSE IF Local(e, p) /\ keep[p] = Nothing THEN before[e].media[p] ELSE Nothing

Apart == \A p \in Path : keep[p] = Nothing \/ media[p] = Nothing
PlaceInv == Apart /\ \A e \in Engine : InPlace(e)

\* Where the lock is a flock, or one engine runs: one engine at a time works on
\* the keep folder.
Working == Restoring \cup {"starting"}
Excluded == \/ ForceStop /\ OneEngine
            \/ LockKinds = {"flock"} /\ \A e \in Engine : pc[e] \in Working => lock = e

\* Where a restore has put a recording that it must keep.
Kept(e) == pc[e] \in Restoring => \A p \in Path :
    Local(e, p) /\ before[e].media[p] \in owed =>
        /\ pc[e] \in Early => media[p] = before[e].media[p]
        /\ pc[e] = "setaside" => \/ p \in todo[e] /\ media[p] = before[e].media[p]
                                 \/ p \notin todo[e] /\ keep[p] = before[e].media[p]
        /\ pc[e] = "mediain" => keep[p] = before[e].media[p]
        /\ pc[e] = "reseat" => \/ keep[p] = before[e].media[p] /\ (p \in todo[e] \/ left[e])
                               \/ before[e].media[p] \in ContentsOf(media)
KeptInv == Excluded /\ BeforeTyped /\ \A e \in Engine : Kept(e)

\* An engine's step leaves the other engines where they are.
LEMMA OthersStay ==
  ASSUME TypeOK, BeforeTyped, NEW e \in Engine, Step(e), NEW f \in Engine, f # e
  PROVE  UNCHANGED <<pc[f], from[f], todo[f], left[f], replacing[f], before[f]>>
<1>1. /\ pc \in [Engine -> Where] /\ from \in [Engine -> archives \cup {Nothing}]
      /\ todo \in [Engine -> SUBSET Path] /\ left \in [Engine -> BOOLEAN]
      /\ replacing \in [Engine -> BOOLEAN] /\ before \in [Engine -> Before \cup {Nothing}]
  BY DEF TypeOK, BeforeTyped
<1>2. CASE \/ Launch(e) \/ Recovered(e) \/ Quit(e) \/ Crash(e) \/ RestoringElsewhere(e)
           \/ \E x \in archives : BeginRestore(e, x)
  BY <1>1, <1>2 DEF Launch, Recovered, Quit, Crash, RestoringElsewhere, BeginRestore, BeginWalk,
                    Stop, ghost
<1>3. CASE \/ Snapshot(e) \/ SnapshotFails(e) \/ Entered(e) \/ NoStagingFolder(e) \/ Unpack(e)
           \/ SwapDb(e) \/ DocsOut(e) \/ DocsIn(e) \/ MediaOut(e) \/ MediaIn(e)
           \/ Restored(e) \/ Raise(e) \/ Undone(e)
  BY <1>1, <1>3 DEF Snapshot, SnapshotFails, Entered, NoStagingFolder, Unpack, SwapDb, DocsOut,
                    DocsIn, MediaOut, MediaIn, Restored, Raise, Undone, BeginWalk, Finish, ghost
<1>4. ASSUME NEW p \in Path,
             \/ ReseatFile(e, p) \/ SetAside(e, p) \/ TearDown(e, p) \/ Detach(e, p)
             \/ \E c \in Content : Attach(e, p, c)
      PROVE  UNCHANGED <<pc[f], from[f], todo[f], left[f], replacing[f], before[f]>>
  BY <1>1, <1>4 DEF ReseatFile, SetAside, TearDown, Detach, Attach, proc, ghost
<1> QED  BY <1>2, <1>3, <1>4 DEF Step, RestoreStep

\* What a restore remembers of the disk is of the disk's types.
LEMMA BeforeTypes ==
  ASSUME TypeInv, BeforeTyped, NEW e \in Engine, Step(e)
  PROVE  BeforeTyped'
<1>1. /\ db \in Nat /\ docs \in Nat \cup {Nothing} /\ media \in Files /\ pc \in [Engine -> Where]
      /\ before \in [Engine -> Before \cup {Nothing}]
      /\ pc[e] \in Restoring => before[e] \in Before
  BY DEF TypeInv, TypeOK, BeforeTyped
<1>2. {"down", "serving", "starting"} \cap Restoring = {}
  BY DEF Restoring, Replacing
<1>3. /\ before' \in [Engine -> Before \cup {Nothing}]
      /\ pc'[e] \in Restoring => before'[e] \in Before
  <2>1. CASE \/ Launch(e) \/ Recovered(e) \/ Quit(e) \/ Crash(e) \/ RestoringElsewhere(e)
    BY <1>1, <1>2, <2>1 DEF Launch, Recovered, Quit, Crash, RestoringElsewhere, BeginWalk, Stop, ghost
  <2>2. ASSUME NEW x \in archives, BeginRestore(e, x)
        PROVE  /\ before' \in [Engine -> Before \cup {Nothing}]
               /\ pc'[e] \in Restoring => before'[e] \in Before
    BY <1>1, <2>2 DEF BeginRestore, Before
  <2>3. CASE SnapshotFails(e) \/ NoStagingFolder(e) \/ Restored(e) \/ Undone(e)
    BY <1>1, <1>2, <2>3 DEF SnapshotFails, NoStagingFolder, Restored, Undone, Finish
  <2>4. CASE \/ Snapshot(e) \/ Entered(e) \/ Unpack(e) \/ SwapDb(e) \/ DocsOut(e) \/ DocsIn(e)
             \/ MediaOut(e) \/ MediaIn(e) \/ Raise(e)
    <3>1. pc[e] \in Restoring /\ before' = before
      BY <2>4 DEF Snapshot, Entered, Unpack, SwapDb, DocsOut, DocsIn, MediaOut, MediaIn, Raise,
                  Restoring, Replacing, ghost
    <3> QED  BY <1>1, <3>1
  <2>5. ASSUME NEW p \in Path,
               \/ ReseatFile(e, p) \/ SetAside(e, p) \/ TearDown(e, p) \/ Detach(e, p)
               \/ \E c \in Content : Attach(e, p, c)
        PROVE  before' = before /\ pc' = pc
    BY <2>5 DEF ReseatFile, SetAside, TearDown, Detach, Attach, proc, ghost
  <2> QED  BY <1>1, <2>1, <2>2, <2>3, <2>4, <2>5 DEF Step, RestoreStep
<1>4. ASSUME NEW f \in Engine, pc'[f] \in Restoring  PROVE before'[f] \in Before
  <2>1. CASE f = e
    BY <1>3, <1>4, <2>1
  <2>2. CASE f # e
    BY <1>4, <2>2, OthersStay DEF BeforeTyped, TypeInv
  <2> QED  BY <2>1, <2>2
<1> QED  BY <1>3, <1>4 DEF BeforeTyped

\* An engine that steps is up, or comes up where none is; the app stays its own.
LEMMA OneEngineStep ==
  ASSUME ForceStop, TypeInv, BeforeTyped, OneEngine, NEW e \in Engine, Step(e)
  PROVE  OneEngine' /\ \A f \in Engine : f # e => pc[f] = "down" /\ pc'[f] = "down"
<1>0. TypeOK /\ pc \in [Engine -> Where] /\ Nothing \notin Engine
  BY FilesAssumption DEF TypeInv, TypeOK
<1>1. pc[e] # "down" \/ app \in {Nothing, e}
  <2>1. CASE Launch(e) \/ Quit(e)
    BY <2>1 DEF Launch, Quit
  <2>2. CASE ~Launch(e) /\ ~Quit(e)
    BY <2>2 DEF Step, RestoreStep, Recovered, Crash, RestoringElsewhere, Ask, BeginRestore,
       Snapshot, SnapshotFails, Entered, NoStagingFolder, Unpack, SwapDb, DocsOut, DocsIn,
       MediaOut, MediaIn, Restored, Raise, Undone, ReseatFile, SetAside, TearDown, Detach,
       Attach, Reseating, Replacing
  <2> QED  BY <2>1, <2>2
<1>2. \A f \in Engine : f # e => pc[f] = "down"
  BY <1>0, <1>1 DEF OneEngine
<1>3. \A f \in Engine : f # e => pc'[f] = "down"
  BY <1>0, <1>2, OthersStay
<1>4. pc'[e] # "down" => app' = e
  <2>1. CASE Launch(e)
    BY <2>1 DEF Launch
  <2>2. CASE Quit(e) \/ Crash(e)
    <3>1. Stop(e)
      BY <2>2 DEF Quit, Crash
    <3> QED  BY <1>0, <3>1 DEF Stop
  <2>3. CASE ~Launch(e) /\ ~Quit(e) /\ ~Crash(e)
    <3>1. app' = app /\ pc[e] # "down"
      BY <2>3 DEF Step, RestoreStep, Recovered, RestoringElsewhere, Ask, BeginRestore,
         Snapshot, SnapshotFails, Entered, NoStagingFolder, Unpack, SwapDb, DocsOut, DocsIn,
         MediaOut, MediaIn, Restored, Raise, Undone, ReseatFile, SetAside, TearDown, Detach,
         Attach, Reseating, Replacing, proc
    <3> QED  BY <3>1 DEF OneEngine
  <2> QED  BY <2>1, <2>2, <2>3
<1> QED  BY <1>2, <1>3, <1>4 DEF OneEngine

\* The end of a restore or of an engine is no restore.
LEMMA EndsRestore ==
  ASSUME TypeOK, NEW e \in Engine, Finish(e) \/ Stop(e)
  PROVE  pc'[e] \in {"serving", "down"} /\ pc'[e] \notin Restoring
<1>1. pc \in [Engine -> Where] /\ {"serving", "down"} \cap Restoring = {}
  BY DEF TypeOK, Restoring, Replacing
<1> QED  BY <1>1 DEF Finish, Stop

\* Until it replaces, a restore only puts recordings where there are none.
LEMMA NotStartedStep ==
  ASSUME ForceStop, TypeInv, StartInv, NEW e \in Engine, Step(e)
  PROVE  StartInv'
<1>0. /\ TypeOK /\ BeforeTyped /\ OneEngine /\ NotStarted(e)
      /\ pc \in [Engine -> Where] /\ media \in Files
      /\ before \in [Engine -> Before \cup {Nothing}] /\ replacing \in [Engine -> BOOLEAN]
  BY DEF TypeInv, TypeOK, StartInv, BeforeTyped
<1>1. BeforeTyped'
  BY <1>0, BeforeTypes
<1>2. OneEngine' /\ \A f \in Engine : f # e => pc'[f] = "down"
  BY <1>0, OneEngineStep
<1>3. /\ {"down", "serving", "starting"} \cap (Restoring \cup Replacing \cup {"reseat"}) = {}
      /\ {"snapshot", "entry", "unpack", "undo"} \cap (Replacing \cup {"reseat"}) = {}
  BY DEF Restoring, Replacing
<1>4. NotStarted(e)'
  <2>1. CASE \/ Launch(e) \/ Recovered(e) \/ RestoringElsewhere(e)
             \/ \E p \in Path : Detach(e, p) \/ \E c \in Content : Attach(e, p, c)
    <3>1. pc'[e] \in {"serving", "starting"}
      BY <1>0, <2>1 DEF Launch, Recovered, RestoringElsewhere, Ask, Detach, Attach, BeginWalk, proc
    <3> QED  BY <1>3, <3>1 DEF NotStarted
  <2>2. CASE Quit(e) \/ Crash(e) \/ SnapshotFails(e) \/ NoStagingFolder(e) \/ Restored(e) \/ Undone(e)
    <3>1. Stop(e) \/ Finish(e)
      BY <2>2 DEF Quit, Crash, SnapshotFails, NoStagingFolder, Restored, Undone
    <3> QED  BY <1>0, <1>3, <3>1, EndsRestore DEF NotStarted
  <2>3. ASSUME NEW x \in archives, BeginRestore(e, x)  PROVE NotStarted(e)'
    <3>1. /\ pc'[e] = "snapshot" /\ UNCHANGED <<db, docs, media>>
          /\ before'[e] = [db |-> db, docs |-> docs, media |-> media]
      BY <1>0, <2>3 DEF BeginRestore, disk
    <3> QED  BY <1>3, <3>1 DEF NotStarted
  <2>4. CASE Snapshot(e) \/ Entered(e)
    <3>1. /\ pc'[e] \in {"entry", "unpack"} /\ pc[e] \in Restoring
          /\ UNCHANGED <<db, docs, media, before, replacing>>
      BY <1>0, <2>4 DEF Snapshot, Entered, BeginWalk, Restoring, ghost
    <3> QED  BY <1>0, <1>3, <3>1 DEF NotStarted, At
  <2>5. CASE Unpack(e)
    <3>1. replacing'[e] = TRUE
      BY <1>0, <2>5 DEF Unpack
    <3> QED  BY <3>1 DEF NotStarted
  <2>6. CASE SwapDb(e) \/ DocsOut(e) \/ DocsIn(e) \/ MediaOut(e) \/ MediaIn(e)
    <3>1. replacing' = replacing /\ pc[e] \in Replacing
      BY <2>6 DEF SwapDb, DocsOut, DocsIn, MediaOut, MediaIn, Replacing
    <3> QED  BY <1>0, <3>1 DEF NotStarted
  <2>7. CASE Raise(e)
    <3>1. /\ pc'[e] = "undo" /\ pc[e] \in Restoring
          /\ UNCHANGED <<db, docs, media, before, replacing>>
      BY <1>0, <2>7 DEF Raise, BeginWalk, Restoring, ghost
    <3> QED  BY <1>0, <1>3, <3>1 DEF NotStarted, At
  <2>8. ASSUME NEW p \in Path, SetAside(e, p) \/ TearDown(e, p)  PROVE NotStarted(e)'
    <3>1. UNCHANGED <<replacing, pc>> /\ pc[e] \in Replacing
      BY <2>8 DEF SetAside, TearDown, Replacing
    <3> QED  BY <1>0, <3>1 DEF NotStarted
  <2>9. ASSUME NEW p \in Path, ReseatFile(e, p)  PROVE NotStarted(e)'
    <3>1. /\ UNCHANGED <<db, docs, before, replacing, pc>>
          /\ media' = media \/ (media[p] = Nothing /\ media' = [media EXCEPT ![p] = keep[p]])
      BY <2>9 DEF ReseatFile, ghost
    <3>2. \A q \in Path : media[q] # Nothing => media'[q] = media[q]
      BY <1>0, <3>1 DEF Files
    <3> QED  BY <1>0, <3>1, <3>2 DEF NotStarted, At
  <2> QED  BY <2>1, <2>2, <2>3, <2>4, <2>5, <2>6, <2>7, <2>8, <2>9 DEF Step, RestoreStep
<1>5. ASSUME NEW f \in Engine  PROVE NotStarted(f)'
  <2>1. CASE f = e
    BY <1>4, <2>1
  <2>2. CASE f # e
    BY <1>2, <1>3, <2>2 DEF NotStarted
  <2> QED  BY <2>1, <2>2
<1> QED  BY <1>1, <1>2, <1>5 DEF StartInv

\* As on Windows, where a quit kills the engine and no flock is needed, with
\* moves that succeed.
Windows == ForceStop /\ ~MovesFail /\ "failed" \notin LockKinds

\* A walk that is over has put everything back.
LEMMA WalkPutsBack ==
  ASSUME TypeOK, NEW e \in Engine, InPlace(e), WalkOver(e)
  PROVE  keep = NoFiles /\ keep' = NoFiles
<1>1. At(keep) = {} /\ ~left[e] /\ keep \in Files
  BY DEF InPlace, WalkOver, TypeOK
<1>2. keep = [p \in Path |-> keep[p]]
  BY <1>1 DEF Files
<1>3. \A p \in Path : keep[p] = Nothing
  BY <1>1 DEF At
<1> QED  BY <1>1, <1>2, <1>3 DEF WalkOver, NoFiles

\* The steps of the process, and of a restore up to its first replacement.
LEMMA EarlyPlaces ==
  ASSUME Windows, TypeInv, StartInv, PlaceInv, NEW e \in Engine,
         \/ Launch(e) \/ Recovered(e) \/ Quit(e) \/ Crash(e) \/ RestoringElsewhere(e)
         \/ Snapshot(e) \/ SnapshotFails(e) \/ Entered(e) \/ NoStagingFolder(e)
         \/ Restored(e) \/ Undone(e) \/ Raise(e)
         \/ \E x \in archives : BeginRestore(e, x)
  PROVE  Apart' /\ InPlace(e)'
<1>0. /\ TypeOK /\ OneEngine /\ Apart /\ InPlace(e)
      /\ media \in Files /\ keep \in Files /\ pc \in [Engine -> Where]
      /\ todo \in [Engine -> SUBSET Path] /\ left \in [Engine -> BOOLEAN]
      /\ before \in [Engine -> Before \cup {Nothing}] /\ from \in [Engine -> archives \cup {Nothing}]
  BY DEF TypeInv, TypeOK, StartInv, PlaceInv, BeforeTyped
<1>1. NoFiles \in Files /\ \A p \in Path : NoFiles[p] = Nothing
  BY DEF NoFiles, Files
<1>2. ASSUME keep' = NoFiles \/ keep' = keep, media' = media  PROVE Apart'
  BY <1>0, <1>1, <1>2 DEF Apart
<1>3. ASSUME pc'[e] = "serving", keep' = NoFiles  PROVE InPlace(e)'
  BY <1>3 DEF InPlace, Early, Reseating, Replacing
<1>4. ASSUME pc'[e] = "down"  PROVE InPlace(e)'
  BY <1>4 DEF InPlace, Early, Reseating, Replacing
<1>5. ASSUME pc'[e] \in {"starting", "undo"}, todo'[e] = At(keep'), ~left'[e]
      PROVE  InPlace(e)'
  BY <1>5 DEF InPlace, Early, Reseating, Replacing, At
<1>6. CASE Launch(e)
  <2>1. keep' = keep /\ media' = media
    BY <1>6 DEF Launch, disk
  <2>2. lock = Nothing
    BY <1>0, <1>6, FilesAssumption DEF Launch, OneEngine, TypeOK
  <2>3. BeginWalk(e, "starting", At(keep))
    BY <1>6, <2>2 DEF Launch, Taken, Unlocked, Windows
  <2> QED  BY <1>0, <1>2, <1>5, <2>1, <2>3 DEF BeginWalk
<1>7. CASE Recovered(e)
  <2>1. pc'[e] = "serving" /\ media' = media /\ keep' = NoFiles
    BY <1>0, <1>7, WalkPutsBack DEF Recovered
  <2> QED  BY <1>2, <1>3, <2>1
<1>8. CASE Quit(e) \/ Crash(e)
  <2>1. Stop(e) /\ keep' = keep /\ media' = media
    BY <1>8 DEF Quit, Crash, disk, Windows
  <2> QED  BY <1>0, <1>2, <1>4, <2>1 DEF Stop
<1>9. CASE RestoringElsewhere(e)
  <2>1. pc[e] = "serving" /\ pc'[e] = "serving" /\ keep' = keep /\ media' = media
    BY <1>9 DEF RestoringElsewhere, Ask, disk
  <2>2. keep = NoFiles
    BY <1>0, <2>1 DEF InPlace
  <2> QED  BY <1>2, <1>3, <2>1, <2>2
<1>10. ASSUME NEW x \in archives, BeginRestore(e, x)  PROVE Apart' /\ InPlace(e)'
  <2>1. /\ pc[e] = "serving" /\ pc'[e] = "snapshot" /\ keep' = keep /\ media' = media
        /\ before'[e].media = media
    BY <1>0, <1>10 DEF BeginRestore, Ask, disk
  <2>2. keep = NoFiles
    BY <1>0, <2>1 DEF InPlace
  <2> QED  BY <1>2, <2>1, <2>2 DEF InPlace, Early, Reseating, Replacing
<1>11. CASE Snapshot(e)
  <2>1. /\ pc[e] = "snapshot" /\ pc'[e] = "entry" /\ keep' = keep /\ media' = media
        /\ before' = before /\ todo'[e] = At(keep) /\ ~left'[e]
    BY <1>0, <1>11 DEF Snapshot, BeginWalk, ghost
  <2>2. keep = NoFiles /\ media = before[e].media
    BY <1>0, <2>1 DEF InPlace, Early
  <2> QED  BY <1>2, <2>1, <2>2 DEF InPlace, Early, Reseating, Replacing, At
<1>12. CASE Entered(e)
  <2>1. pc[e] = "entry" /\ pc'[e] = "unpack" /\ media' = media /\ before' = before /\ keep' = NoFiles
    BY <1>0, <1>12, WalkPutsBack DEF Entered, ghost
  <2>2. media = before[e].media
    BY <1>0, <2>1 DEF InPlace, Early
  <2> QED  BY <1>2, <2>1, <2>2 DEF InPlace, Early, Reseating, Replacing
<1>13. CASE SnapshotFails(e) \/ NoStagingFolder(e) \/ Restored(e) \/ Undone(e)
  <2>1. media' = media /\ Finish(e)
    BY <1>13 DEF SnapshotFails, NoStagingFolder, Restored, Undone, disk
  <2>2. pc'[e] \in {"serving", "down"}
    BY <1>0, <2>1, EndsRestore
  <2>3. keep' = NoFiles
    <3>1. CASE SnapshotFails(e)
      BY <1>0, <3>1 DEF SnapshotFails, InPlace, Early, disk
    <3>2. CASE WalkOver(e)
      BY <1>0, <3>2, WalkPutsBack
    <3> QED  BY <1>13, <3>1, <3>2 DEF NoStagingFolder, Restored, Undone
  <2> QED  BY <1>2, <1>3, <1>4, <2>1, <2>2, <2>3
<1>14. CASE Raise(e)
  <2>1. pc'[e] = "undo" /\ media' = media /\ keep' = keep /\ todo'[e] = At(keep) /\ ~left'[e]
    BY <1>0, <1>14 DEF Raise, BeginWalk
  <2> QED  BY <1>2, <1>5, <2>1
<1> QED  BY <1>6, <1>7, <1>8, <1>9, <1>10, <1>11, <1>12, <1>13, <1>14

\* The steps that replace: the database, the documents, the recordings.
LEMMA ReplacingPlaces ==
  ASSUME TypeInv, StartInv, PlaceInv, NEW e \in Engine,
         \/ Unpack(e) \/ SwapDb(e) \/ DocsOut(e) \/ DocsIn(e) \/ MediaOut(e) \/ MediaIn(e)
         \/ \E p \in Path : SetAside(e, p) \/ TearDown(e, p)
  PROVE  Apart' /\ InPlace(e)'
<1>0. /\ Apart /\ InPlace(e) /\ from[e] \in archives /\ from[e] # Nothing /\ from[e].media \in Files
      /\ before[e] \in Before /\ before[e].media \in Files
      /\ media \in Files /\ keep \in Files /\ pc \in [Engine -> Where]
      /\ todo \in [Engine -> SUBSET Path] /\ left \in [Engine -> BOOLEAN]
  <2>1. pc[e] \in Restoring
    BY DEF Unpack, SwapDb, DocsOut, DocsIn, MediaOut, MediaIn, SetAside, TearDown, Restoring, Replacing
  <2>2. from[e] \in archives /\ before[e] \in Before
    BY <2>1 DEF TypeInv, FromAnArchive, StartInv, BeforeTyped
  <2>3. from[e] \in Archive /\ from[e] # Nothing
    BY <2>2, StartAssumption DEF TypeInv, TypeOK
  <2> QED  BY <2>2, <2>3 DEF TypeInv, TypeOK, PlaceInv, Archive, Before
<1>1. NoFiles \in Files /\ \A p \in Path : NoFiles[p] = Nothing
  BY DEF NoFiles, Files
<1>2. CASE Unpack(e) \/ SwapDb(e) \/ DocsOut(e)
  <2>1. UNCHANGED <<media, keep, from, before>> /\ keep = NoFiles /\ media = before[e].media
    BY <1>0, <1>2 DEF Unpack, SwapDb, DocsOut, InPlace, Early, ghost
  <2>2. Apart'
    BY <1>0, <2>1 DEF Apart
  <2>3. CASE Unpack(e)
    <3>1. pc'[e] = "swapdb" /\ stage' = from[e]
      BY <1>0, <2>3 DEF Unpack
    <3> QED  BY <2>1, <2>2, <3>1 DEF InPlace, Early, Reseating
  <2>4. CASE SwapDb(e)
    <3>1. pc[e] = "swapdb" /\ pc'[e] = "docsout" /\ db' = from[e].db /\ stage' = stage
      BY <1>0, <2>4 DEF SwapDb
    <3> QED  BY <1>0, <2>1, <2>2, <3>1 DEF InPlace, Early, Reseating, Replacing
  <2>5. CASE DocsOut(e)
    <3>1. pc[e] = "docsout" /\ pc'[e] = "docsin" /\ UNCHANGED <<db, stage>>
      BY <1>0, <2>5 DEF DocsOut
    <3> QED  BY <1>0, <2>1, <2>2, <3>1 DEF InPlace, Early, Reseating, Replacing
  <2> QED  BY <1>2, <2>3, <2>4, <2>5
<1>3. CASE DocsIn(e)
  <2>1. /\ pc[e] = "docsin" /\ pc'[e] = "setaside"
        /\ UNCHANGED <<db, media, keep, stage, from, before>>
        /\ todo'[e] = {p \in Video \cap At(media) : from[e].media[p] = Nothing}
        /\ docs' = IF stage = Nothing THEN Nothing ELSE stage.docs
    BY <1>0, <1>3 DEF DocsIn, BeginWalk, ghost
  <2>2. /\ keep = NoFiles /\ media = before[e].media /\ stage = from[e] /\ db = from[e].db
    BY <1>0, <2>1 DEF InPlace, Early, Replacing
  <2>3. Apart'
    BY <1>0, <2>1 DEF Apart
  <2>4. \A p \in Path : p \in todo'[e] <=> Local(e, p)'
    BY <2>1, <2>2 DEF Local, At
  <2>5. docs' = from'[e].docs
    BY <1>0, <2>1, <2>2
  <2> QED  BY <1>1, <2>1, <2>2, <2>3, <2>4, <2>5 DEF InPlace, Early, Reseating, Replacing
<1>4. ASSUME NEW q \in Path, SetAside(e, q)  PROVE Apart' /\ InPlace(e)'
  <2>1. /\ pc[e] = "setaside" /\ pc'[e] = "setaside" /\ q \in todo[e] /\ media[q] # Nothing
        /\ keep' = [keep EXCEPT ![q] = media[q]] /\ media' = [media EXCEPT ![q] = Nothing]
        /\ todo'[e] = todo[e] \ {q} /\ UNCHANGED <<db, docs, stage, from, before>>
    BY <1>0, <1>4 DEF SetAside, ghost
  <2>2. /\ keep'[q] = media[q] /\ media'[q] = Nothing
        /\ \A p \in Path : p # q => keep'[p] = keep[p] /\ media'[p] = media[p]
    BY <1>0, <2>1 DEF Files
  <2>3. /\ stage = from[e] /\ db = from[e].db /\ docs = from[e].docs
        /\ \A p \in Path :
              /\ keep[p] # Nothing => Local(e, p) /\ keep[p] = before[e].media[p]
              /\ p \in todo[e] => Local(e, p)
              /\ Local(e, p) => \/ p \in todo[e] /\ media[p] = before[e].media[p]
                                \/ keep[p] = before[e].media[p]
    BY <1>0, <2>1 DEF InPlace, Replacing
  <2>4. Local(e, q) /\ media[q] = before[e].media[q]
    <3>1. Local(e, q) /\ keep[q] = Nothing
      BY <1>0, <2>1, <2>3 DEF Apart
    <3>2. before[e].media[q] # Nothing
      BY <3>1 DEF Local
    <3> QED  BY <2>3, <3>1, <3>2
  <2>5. \A p \in Path : Local(e, p)' <=> Local(e, p)
    BY <2>1 DEF Local
  <2>6. Apart'
    BY <1>0, <2>2 DEF Apart
  <2>7. \A p \in Path :
           /\ keep'[p] # Nothing => Local(e, p)' /\ keep'[p] = before'[e].media[p]
           /\ p \in todo'[e] => Local(e, p)'
           /\ Local(e, p)' => \/ p \in todo'[e] /\ media'[p] = before'[e].media[p]
                              \/ keep'[p] = before'[e].media[p]
    BY <2>1, <2>2, <2>3, <2>4, <2>5
  <2> QED  BY <2>1, <2>3, <2>6, <2>7 DEF InPlace, Early, Reseating, Replacing
<1>5. ASSUME NEW q \in Path, TearDown(e, q)  PROVE Apart' /\ InPlace(e)'
  <2>1. /\ pc[e] = "setaside" /\ pc'[e] = "setaside" /\ todo[e] = {}
        /\ media' = [media EXCEPT ![q] = Nothing]
        /\ todo' = todo /\ UNCHANGED <<db, docs, stage, from, before, keep>>
    BY <1>0, <1>5 DEF TearDown, ghost
  <2>2. Apart'
    BY <1>0, <2>1 DEF Apart, Files
  <2>3. \A p \in Path : Local(e, p)' <=> Local(e, p)
    BY <2>1 DEF Local
  <2> QED  BY <1>0, <2>1, <2>2, <2>3 DEF InPlace, Early, Reseating, Replacing
<1>6. CASE MediaOut(e)
  <2>1. /\ pc[e] = "setaside" /\ pc'[e] = "mediain" /\ todo[e] = {} /\ mediaDir' = FALSE
        /\ UNCHANGED <<db, docs, stage, from, before, keep, media>>
    BY <1>0, <1>6 DEF MediaOut, ghost
  <2>2. Apart'
    BY <1>0, <2>1 DEF Apart
  <2>3. \A p \in Path : Local(e, p)' <=> Local(e, p)
    BY <2>1 DEF Local
  <2> QED  BY <1>0, <2>1, <2>2, <2>3 DEF InPlace, Early, Reseating, Replacing
<1>7. CASE MediaIn(e)
  <2>1. /\ pc[e] = "mediain" /\ pc'[e] = "reseat" /\ todo'[e] = At(keep) /\ ~left'[e]
        /\ UNCHANGED <<db, docs, stage, from, before, keep>>
        /\ media' = IF mediaDir \/ stage = Nothing THEN media ELSE stage.media
    BY <1>0, <1>7 DEF MediaIn, BeginWalk, ghost
  <2>2. /\ stage = from[e] /\ db = from[e].db /\ docs = from[e].docs /\ mediaDir = FALSE
        /\ \A p \in Path :
              /\ keep[p] # Nothing => Local(e, p) /\ keep[p] = before[e].media[p]
              /\ Local(e, p) => keep[p] = before[e].media[p]
    BY <1>0, <2>1 DEF InPlace, Replacing
  <2>3. media' = from[e].media
    BY <1>0, <2>1, <2>2
  <2>4. \A p \in Path : Local(e, p)' <=> Local(e, p)
    BY <2>1 DEF Local
  <2>5. Apart'
    BY <2>1, <2>2, <2>3 DEF Apart, Local
  <2>6. \A p \in Path :
           media'[p] = IF from'[e].media[p] # Nothing THEN from'[e].media[p]
                       ELSE IF Local(e, p)' /\ keep'[p] = Nothing THEN before'[e].media[p]
                       ELSE Nothing
    BY <2>1, <2>2, <2>3, <2>4 DEF Local
  <2>7. todo'[e] = At(keep')
    BY <2>1
  <2> QED  BY <2>1, <2>2, <2>4, <2>5, <2>6, <2>7 DEF InPlace, Early, Reseating, Replacing, At
<1> QED  BY <1>2, <1>3, <1>4, <1>5, <1>6, <1>7

\* Putting recordings back, and what the user does with them while nothing is
\* set aside.
LEMMA FilePlaces ==
  ASSUME Windows, TypeInv, StartInv, PlaceInv, NEW e \in Engine, NEW q \in Path,
         ReseatFile(e, q) \/ Detach(e, q) \/ \E c \in Content : Attach(e, q, c)
  PROVE  Apart' /\ InPlace(e)'
<1>0. /\ Apart /\ InPlace(e) /\ media \in Files /\ keep \in Files
      /\ todo \in [Engine -> SUBSET Path] /\ left \in [Engine -> BOOLEAN]
  BY DEF TypeInv, TypeOK, PlaceInv
<1>1. CASE Detach(e, q) \/ \E c \in Content : Attach(e, q, c)
  <2>1. pc[e] = "serving" /\ pc'[e] = "serving" /\ keep' = keep
    BY <1>1 DEF Detach, Attach, proc
  <2>2. keep' = NoFiles
    BY <1>0, <2>1 DEF InPlace
  <2>3. Apart'
    BY <2>2 DEF Apart, NoFiles
  <2> QED  BY <2>1, <2>2, <2>3 DEF InPlace, Early, Reseating, Replacing
<1>2. CASE ReseatFile(e, q)
  <2>1. /\ pc[e] \in Reseating /\ pc'[e] = pc[e] /\ q \in todo[e]
        /\ todo'[e] = todo[e] \ {q}
        /\ UNCHANGED <<db, docs, stage, from, before>>
    BY <1>0, <1>2 DEF ReseatFile, ghost
  <2>2. todo[e] = At(keep) /\ ~left[e] /\ keep[q] # Nothing /\ media[q] = Nothing
    BY <1>0, <2>1 DEF InPlace, At, Apart
  <2>3. /\ media' = [media EXCEPT ![q] = keep[q]] /\ keep' = [keep EXCEPT ![q] = Nothing]
        /\ left'[e] = left[e]
    BY <1>2, <2>2 DEF ReseatFile, Windows
  <2>4. /\ media'[q] = keep[q] /\ keep'[q] = Nothing
        /\ \A p \in Path : p # q => keep'[p] = keep[p] /\ media'[p] = media[p]
    BY <1>0, <2>3 DEF Files
  <2>5. Apart'
    BY <1>0, <2>4 DEF Apart
  <2>6. todo'[e] = At(keep')
    BY <2>1, <2>2, <2>4 DEF At
  <2>7. \A p \in Path : Local(e, p)' <=> Local(e, p)
    BY <2>1 DEF Local
  <2>8. CASE pc[e] \in {"starting", "undo"}
    BY <2>1, <2>2, <2>3, <2>5, <2>6, <2>8 DEF InPlace, Early, Reseating, Replacing, At
  <2>9. CASE pc[e] = "entry"
    <3>1. keep = NoFiles
      BY <1>0, <2>9 DEF InPlace, Early
    <3> QED  BY <2>2, <3>1 DEF NoFiles
  <2>10. CASE pc[e] = "reseat"
    <3>1. /\ stage = from[e] /\ db = from[e].db /\ docs = from[e].docs
          /\ \A p \in Path :
                /\ keep[p] # Nothing => Local(e, p) /\ keep[p] = before[e].media[p]
                /\ media[p] = IF from[e].media[p] # Nothing THEN from[e].media[p]
                              ELSE IF Local(e, p) /\ keep[p] = Nothing THEN before[e].media[p]
                              ELSE Nothing
      BY <1>0, <2>10 DEF InPlace
    <3>2. \A p \in Path :
             /\ keep'[p] # Nothing => Local(e, p)' /\ keep'[p] = before'[e].media[p]
             /\ media'[p] = IF from'[e].media[p] # Nothing THEN from'[e].media[p]
                            ELSE IF Local(e, p)' /\ keep'[p] = Nothing THEN before'[e].media[p]
                            ELSE Nothing
      BY <2>1, <2>2, <2>4, <2>7, <3>1 DEF Local
    <3> QED  BY <2>1, <2>2, <2>3, <2>5, <2>6, <2>10, <3>1, <3>2
             DEF InPlace, Early, Reseating, Replacing, At
  <2> QED  BY <2>1, <2>8, <2>9, <2>10 DEF Reseating
<1> QED  BY <1>1, <1>2

\* At the start nothing is set aside and nobody restores.
LEMMA FirstPlaces == Init => StartInv /\ PlaceInv
<1> SUFFICES ASSUME Init PROVE StartInv /\ PlaceInv
  OBVIOUS
<1>1. \A e \in Engine : pc[e] = "down"
  BY DEF Init
<1>2. "down" \notin Restoring \cup Replacing \cup Reseating \cup Early \cup {"reseat"}
  BY DEF Restoring, Replacing, Reseating, Early
<1>3. StartInv
  BY <1>1, <1>2 DEF Init, StartInv, OneEngine, BeforeTyped, NotStarted
<1>4. PlaceInv
  BY <1>1, <1>2 DEF Init, PlaceInv, Apart, NoFiles, InPlace
<1> QED  BY <1>3, <1>4

\* Every step keeps what a restore that has not started must leave.
LEMMA StartInvStep == ForceStop /\ TypeInv /\ StartInv /\ [Next]_vars => StartInv'
<1> SUFFICES ASSUME ForceStop, TypeInv, StartInv, [Next]_vars PROVE StartInv'
  OBVIOUS
<1>1. CASE UNCHANGED vars
  BY <1>1 DEF vars, disk, proc, ghost, StartInv, OneEngine, BeforeTyped, NotStarted, At
<1>2. CASE Next
  <2>1. PICK e \in Engine : Step(e)
    BY <1>2 DEF Next, Step
  <2> QED  BY <2>1, NotStartedStep
<1> QED  BY <1>1, <1>2

\* Every step keeps each recording where the restore has come to.
LEMMA PlaceInvStep == Windows /\ TypeInv /\ StartInv /\ PlaceInv /\ [Next]_vars => PlaceInv'
<1> SUFFICES ASSUME Windows, TypeInv, StartInv, PlaceInv, [Next]_vars PROVE PlaceInv'
  OBVIOUS
<1>1. CASE UNCHANGED vars
  BY <1>1 DEF vars, disk, proc, ghost, PlaceInv, Apart, InPlace, Local, At
<1>2. CASE Next
  <2>1. PICK e \in Engine : Step(e)
    BY <1>2 DEF Next, Step
  <2>2. Apart' /\ InPlace(e)'
    BY <2>1, EarlyPlaces, ReplacingPlaces, FilePlaces DEF Step, RestoreStep
  <2>3. \A f \in Engine : f # e => pc'[f] = "down"
    BY <2>1, OneEngineStep DEF StartInv, Windows
  <2>4. ASSUME NEW f \in Engine, f # e  PROVE InPlace(f)'
    BY <2>3, <2>4 DEF InPlace, Early, Reseating, Replacing
  <2> QED  BY <2>2, <2>4 DEF PlaceInv
<1> QED  BY <1>1, <1>2

\* Where closing the app kills its engine: a restore answered with "Nothing was
\* changed" has replaced nothing, neither its own entry re-seat nor an error on
\* the way has.
THEOREM NotStartedIsSafe == ForceStop /\ Spec => []NotStartedChangedNothing
<1> SUFFICES ASSUME ForceStop PROVE Spec => []NotStartedChangedNothing
  OBVIOUS
<1>1. Init => TypeInv /\ StartInv
  BY TypesHold, FirstPlaces
<1>2. TypeInv /\ StartInv /\ [Next]_vars => TypeInv' /\ StartInv'
  BY TypeStep, StartInvStep
<1>3. StartInv => NotStartedChangedNothing
  <2> SUFFICES ASSUME StartInv, NEW e \in Engine, pc[e] \in Restoring, ~replacing[e]
               PROVE  /\ db = before[e].db /\ docs = before[e].docs
                      /\ \A p \in At(before[e].media) : media[p] = before[e].media[p]
    BY DEF NotStartedChangedNothing
  <2>1. NotStarted(e)
    BY DEF StartInv
  <2> QED  BY <2>1 DEF NotStarted
<1> QED  BY <1>1, <1>2, <1>3, PTL DEF Spec

\* The invariant of a restore that no other engine and no failed move disturbs.
THEOREM PlacesInvariant == Windows /\ Spec => [](TypeInv /\ StartInv /\ PlaceInv)
<1> SUFFICES ASSUME Windows PROVE Spec => [](TypeInv /\ StartInv /\ PlaceInv)
  OBVIOUS
<1>1. Init => TypeInv /\ StartInv /\ PlaceInv
  BY TypesHold, FirstPlaces
<1>2. ForceStop
  BY DEF Windows
<1>3. TypeInv /\ StartInv /\ PlaceInv /\ [Next]_vars =>
        TypeInv' /\ StartInv' /\ PlaceInv'
  BY <1>2, TypeStep, StartInvStep, PlaceInvStep
<1> QED  BY <1>1, <1>3, PTL DEF Spec

\* Whoever is served has every recording back, whatever died, raised or was
\* killed before.
THEOREM NothingIsLeftAside == Windows /\ Spec => []NothingLeftAside
<1>1. PlaceInv => NothingLeftAside
  BY DEF PlaceInv, InPlace, NothingLeftAside
<1> QED  BY <1>1, PlacesInvariant, PTL

\* A restore that completes leaves the backup, and beside it each local video at
\* a path the backup does not carry, where it was.
THEOREM TheBackupIsLeft == Windows /\ Spec => LeavesTheBackup
<1>1. TypeInv /\ PlaceInv =>
        [\A e \in Engine : Restored(e) =>
            /\ db = from[e].db /\ docs = from[e].docs
            /\ \A p \in Path : media[p] = IF from[e].media[p] # Nothing THEN from[e].media[p]
                                          ELSE IF p \in Video /\ before[e].media[p] # Nothing
                                          THEN before[e].media[p] ELSE Nothing]_vars
  <2> SUFFICES ASSUME TypeInv, PlaceInv, NEW e \in Engine, Restored(e)
               PROVE  /\ db = from[e].db /\ docs = from[e].docs
                      /\ \A p \in Path :
                            media[p] = IF from[e].media[p] # Nothing THEN from[e].media[p]
                                       ELSE IF p \in Video /\ before[e].media[p] # Nothing
                                       THEN before[e].media[p] ELSE Nothing
    OBVIOUS
  <2>1. pc[e] = "reseat" /\ InPlace(e) /\ keep = NoFiles
    BY WalkPutsBack DEF Restored, PlaceInv, TypeInv
  <2>2. \A p \in Path : keep[p] = Nothing
    BY <2>1 DEF NoFiles
  <2> QED  BY <2>1, <2>2 DEF InPlace, Local
<1> QED  BY <1>1, PlacesInvariant, PTL DEF LeavesTheBackup

\* "Re-seated, never deleted": a recording leaves the keep folder only for its
\* place in the media folder.
THEOREM WhatIsKeptGoesBack == Windows /\ Spec => KeptOnlyGoesBack
<1>1. TypeInv /\ PlaceInv /\ [Next]_vars =>
        [\A p \in At(keep) : keep'[p] = keep[p] \/ media'[p] = keep[p]]_vars
  <2> SUFFICES ASSUME TypeInv, PlaceInv, [Next]_vars, NEW p \in Path, keep[p] # Nothing
               PROVE  keep'[p] = keep[p] \/ media'[p] = keep[p]
    BY DEF At
  <2>0. media \in Files /\ keep \in Files
    BY DEF TypeInv, TypeOK
  <2>1. ASSUME NEW e \in Engine, WalkOver(e)  PROVE FALSE
    BY <2>1, WalkPutsBack DEF TypeInv, PlaceInv, NoFiles
  <2>2. ASSUME NEW e \in Engine, NEW q \in Path, ReseatFile(e, q)
        PROVE  keep'[p] = keep[p] \/ media'[p] = keep[p]
    BY <2>0, <2>2 DEF ReseatFile, Files
  <2>3. ASSUME NEW e \in Engine, NEW q \in Path, SetAside(e, q)  PROVE keep'[p] = keep[p]
    <3>1. p # q
      BY <2>3 DEF SetAside, PlaceInv, Apart
    <3> QED  BY <2>0, <2>3, <3>1 DEF SetAside, Files
  <2>4. ASSUME NEW e \in Engine, Step(e)  PROVE keep'[p] = keep[p] \/ media'[p] = keep[p]
    <3>1. CASE \/ Recovered(e) \/ Entered(e) \/ NoStagingFolder(e) \/ Restored(e) \/ Undone(e)
      BY <2>1, <3>1 DEF Recovered, Entered, NoStagingFolder, Restored, Undone
    <3>2. CASE \/ Launch(e) \/ Quit(e) \/ Crash(e) \/ RestoringElsewhere(e) \/ Snapshot(e)
               \/ SnapshotFails(e) \/ Unpack(e) \/ SwapDb(e) \/ DocsOut(e) \/ DocsIn(e)
               \/ MediaOut(e) \/ MediaIn(e) \/ Raise(e)
               \/ \E x \in archives : BeginRestore(e, x)
               \/ \E q \in Path : TearDown(e, q) \/ Detach(e, q) \/ \E c \in Content : Attach(e, q, c)
      BY <3>2 DEF Launch, Quit, Crash, RestoringElsewhere, Snapshot, SnapshotFails, Unpack, SwapDb,
         DocsOut, DocsIn, MediaOut, MediaIn, Raise, BeginRestore, TearDown, Detach, Attach, disk
    <3> QED  BY <2>2, <2>3, <2>4, <3>1, <3>2 DEF Step, RestoreStep
  <2>5. CASE UNCHANGED vars
    BY <2>5 DEF vars, disk
  <2> QED  BY <2>4, <2>5 DEF Next, Step
<1> QED  BY <1>1, PlacesInvariant, PTL DEF Spec, KeptOnlyGoesBack
------------------------------------------------------------------------------
(* The local video: one engine at a time at the keep folder *)

\* Where one engine runs, or every restore and recovery holds the flock.
Exclusive == ForceStop \/ LockKinds = {"flock"}

\* Every step leaves one engine at a time at the keep folder.
LEMMA ExcludedStep ==
  ASSUME TypeInv, Excluded, BeforeTyped, NEW e \in Engine, Step(e)
  PROVE  Excluded'
<1>0. TypeOK /\ pc \in [Engine -> Where] /\ Nothing \notin Engine
  BY FilesAssumption DEF TypeInv, TypeOK
<1>1. CASE ForceStop /\ OneEngine
  BY <1>1, OneEngineStep DEF Excluded
<1>2. CASE LockKinds = {"flock"} /\ \A f \in Engine : pc[f] \in Working => lock = f
  <2>1. {"down", "serving"} \cap Working = {} /\ Restoring \subseteq Working /\ "starting" \in Working
    BY DEF Working, Restoring, Replacing
  <2>2. \/ lock' = lock /\ (pc'[e] \in Working => pc[e] \in Working)
        \/ lock = Nothing /\ lock' = e
        \/ Release(e) /\ pc'[e] \notin Working
    <3>1. CASE Launch(e)
      BY <1>0, <1>2, <2>1, <3>1 DEF Launch, Held, Taken, Unlocked, BeginWalk
    <3>2. CASE \E x \in archives : BeginRestore(e, x)
      BY <1>2, <3>2 DEF BeginRestore, Held, Unlocked
    <3>3. CASE Quit(e)
      BY <1>0, <2>1, <3>3 DEF Quit, Stop
    <3>4. CASE Recovered(e) \/ Crash(e)
      BY <1>0, <2>1, <3>4 DEF Recovered, Crash, Stop
    <3>5. CASE SnapshotFails(e) \/ NoStagingFolder(e) \/ Restored(e) \/ Undone(e)
      BY <1>0, <2>1, <3>5 DEF SnapshotFails, NoStagingFolder, Restored, Undone, Finish
    <3>6. CASE \/ Snapshot(e) \/ Entered(e) \/ Unpack(e) \/ SwapDb(e) \/ DocsOut(e) \/ DocsIn(e)
               \/ MediaOut(e) \/ MediaIn(e) \/ Raise(e)
      <4>1. lock' = lock /\ pc[e] \in Restoring
        BY <3>6 DEF Snapshot, Entered, Unpack, SwapDb, DocsOut, DocsIn, MediaOut, MediaIn, Raise,
                    Restoring, Replacing
      <4> QED  BY <2>1, <4>1
    <3>7. CASE \/ RestoringElsewhere(e)
               \/ \E p \in Path : \/ ReseatFile(e, p) \/ SetAside(e, p) \/ TearDown(e, p)
                                  \/ Detach(e, p) \/ \E c \in Content : Attach(e, p, c)
      BY <3>7 DEF RestoringElsewhere, Taken, ReseatFile, SetAside, TearDown, Detach, Attach, proc
    <3> QED  BY <3>1, <3>2, <3>3, <3>4, <3>5, <3>6, <3>7 DEF Step, RestoreStep
  <2>3. ASSUME NEW f \in Engine, pc'[f] \in Working  PROVE lock' = f
    <3>1. CASE f = e
      BY <1>0, <1>2, <2>2, <2>3, <3>1
    <3>2. CASE f # e
      <4>1. pc[f] \in Working /\ lock = f
        BY <1>0, <1>2, <2>3, <3>2, OthersStay
      <4> QED  BY <1>0, <2>2, <3>2, <4>1 DEF Release
    <3> QED  BY <3>1, <3>2
  <2> QED  BY <1>2, <2>3 DEF Excluded
<1> QED  BY <1>1, <1>2 DEF Excluded

\* Beside an engine that restores, another one takes from the disk only what the
\* user gives up.
LEMMA OthersLeaveTheKept ==
  ASSUME TypeInv, Excluded, BeforeTyped, NEW e \in Engine, Step(e),
         NEW f \in Engine, f # e, pc'[f] \in Restoring, Kept(f)
  PROVE  Kept(f)'
<1>0. TypeOK /\ pc[f] \in Restoring /\ media \in Files /\ Nothing \notin Engine
      /\ UNCHANGED <<pc[f], from[f], todo[f], left[f], before[f]>>
  BY FilesAssumption, OthersStay DEF TypeInv, TypeOK
<1>1. /\ Restoring \subseteq Working /\ "starting" \in Working /\ "down" \notin Restoring
      /\ Reseating \cup Replacing \cup {"snapshot", "entry", "unpack", "undo"} \subseteq Working
  BY DEF Working, Restoring, Replacing, Reseating
<1>2. lock = f /\ pc[e] \notin Working /\ LockKinds = {"flock"}
  <2>1. CASE ForceStop /\ OneEngine
    BY <1>0, <1>1, <2>1, OneEngineStep
  <2>2. CASE LockKinds = {"flock"} /\ \A g \in Engine : pc[g] \in Working => lock = g
    BY <1>0, <1>1, <2>2
  <2> QED  BY <2>1, <2>2 DEF Excluded
<1>3. keep' = keep /\ owed' \subseteq owed
      /\ \A q \in Path : media[q] \in owed' => media'[q] = media[q]
  <2>1. CASE Launch(e) \/ Quit(e) \/ Crash(e) \/ RestoringElsewhere(e)
    BY <2>1 DEF Launch, Quit, Crash, RestoringElsewhere, disk, ghost
  <2>2. ASSUME NEW q \in Path, NEW c \in Content, Attach(e, q, c)
        PROVE  keep' = keep /\ owed' \subseteq owed
               /\ \A p \in Path : media[p] \in owed' => media'[p] = media[p]
    <3>1. RestoreElsewhere(e)
      BY <1>0 DEF RestoreElsewhere
    <3>2. owed' = owed \ {media[q]} /\ keep' = keep /\ media' = [media EXCEPT ![q] = c]
      BY <2>2, <3>1 DEF Attach
    <3> QED  BY <1>0, <3>2 DEF Files
  <2>3. ASSUME NEW q \in Path, Detach(e, q)
        PROVE  keep' = keep /\ owed' \subseteq owed
               /\ \A p \in Path : media[p] \in owed' => media'[p] = media[p]
    BY <1>0, <2>3 DEF Detach, Files
  <2>4. ASSUME NEW x \in archives, BeginRestore(e, x)  PROVE FALSE
    BY <1>0, <1>2, <2>4 DEF BeginRestore, Held, Unlocked
  <2>5. ~Recovered(e) /\ ~RestoreStep(e)
    BY <1>1, <1>2 DEF Recovered, RestoreStep, Snapshot, SnapshotFails, Entered, NoStagingFolder,
       Unpack, SwapDb, DocsOut, DocsIn, MediaOut, MediaIn, Restored, Raise, Undone, WalkOver,
       ReseatFile, SetAside, TearDown, Reseating, Replacing
  <2> QED  BY <2>1, <2>2, <2>3, <2>4, <2>5 DEF Step
<1>4. ContentsOf(media) \cap owed' \subseteq ContentsOf(media')
  BY <1>0, <1>3, FilesAssumption DEF ContentsOf, At, TypeInv, TypeOK
<1> QED  BY <1>0, <1>3, <1>4 DEF Kept, Local

\* A restore's own step leaves each local video that is owed where the restore
\* has come to.
LEMMA OwnStepKeeps ==
  ASSUME TypeInv, Excluded, BeforeTyped, NEW e \in Engine, Step(e), Kept(e)
  PROVE  Kept(e)'
<1>0. /\ TypeOK /\ media \in Files /\ keep \in Files /\ pc \in [Engine -> Where]
      /\ todo \in [Engine -> SUBSET Path] /\ left \in [Engine -> BOOLEAN]
      /\ before \in [Engine -> Before \cup {Nothing}] /\ from \in [Engine -> archives \cup {Nothing}]
  BY DEF TypeInv, TypeOK, BeforeTyped
<1>1. /\ {"down", "serving", "starting"} \cap Restoring = {}
      /\ {"unpack"} \cup {"swapdb", "docsout", "docsin"} \subseteq Early \cap Restoring
      /\ {"snapshot", "entry"} \subseteq Early \cap Restoring
      /\ {"setaside", "mediain", "reseat", "undo"} \subseteq Restoring \ Early
  BY DEF Restoring, Replacing, Early
<1>2. CASE \/ Launch(e) \/ Recovered(e) \/ RestoringElsewhere(e)
           \/ \E p \in Path : Detach(e, p) \/ \E c \in Content : Attach(e, p, c)
  <2>1. pc'[e] \in {"serving", "starting"}
    BY <1>0, <1>2 DEF Launch, Recovered, RestoringElsewhere, Ask, Detach, Attach, BeginWalk, proc
  <2> QED  BY <1>1, <2>1 DEF Kept
<1>3. CASE Quit(e)
  <2>1. CASE Stop(e)
    BY <1>0, <2>1, EndsRestore DEF Kept
  <2>2. CASE ~Stop(e)
    <3>1. UNCHANGED <<pc, from, todo, left, before, media, keep, owed>>
      BY <1>3, <2>2 DEF Quit, disk
    <3> QED  BY <3>1 DEF Kept, Local, ContentsOf, At
  <2> QED  BY <2>1, <2>2
<1>4. CASE Crash(e) \/ SnapshotFails(e) \/ NoStagingFolder(e) \/ Restored(e) \/ Undone(e)
  <2>1. Stop(e) \/ Finish(e)
    BY <1>4 DEF Crash, SnapshotFails, NoStagingFolder, Restored, Undone
  <2> QED  BY <1>0, <2>1, EndsRestore DEF Kept
<1>5. ASSUME NEW x \in archives, BeginRestore(e, x)  PROVE Kept(e)'
  <2>1. pc'[e] = "snapshot" /\ media' = media /\ before'[e].media = media
    BY <1>0, <1>5 DEF BeginRestore, disk
  <2> QED  BY <1>1, <2>1 DEF Kept
<1>6. CASE Snapshot(e) \/ Entered(e) \/ Unpack(e) \/ SwapDb(e) \/ DocsOut(e)
  <2>1. /\ pc[e] \in {"snapshot", "entry", "unpack", "swapdb", "docsout"}
        /\ pc'[e] \in {"entry", "unpack", "swapdb", "docsout", "docsin"}
        /\ UNCHANGED <<media, from, before, owed>>
    BY <1>0, <1>6 DEF Snapshot, Entered, Unpack, SwapDb, DocsOut, BeginWalk, ghost
  <2> QED  BY <1>1, <2>1 DEF Kept, Local
<1>7. CASE DocsIn(e)
  <2>1. /\ pc[e] = "docsin" /\ pc'[e] = "setaside"
        /\ UNCHANGED <<media, from, before, owed>>
        /\ todo'[e] = {p \in Video \cap At(media) : from[e].media[p] = Nothing}
    BY <1>0, <1>7 DEF DocsIn, BeginWalk, ghost
  <2> QED  BY <1>1, <2>1 DEF Kept, Local, At
<1>8. ASSUME NEW q \in Path, SetAside(e, q)  PROVE Kept(e)'
  <2>1. /\ pc[e] = "setaside" /\ pc'[e] = "setaside" /\ todo'[e] = todo[e] \ {q}
        /\ keep' = [keep EXCEPT ![q] = media[q]] /\ media' = [media EXCEPT ![q] = Nothing]
        /\ UNCHANGED <<from, before, owed>> /\ q \in todo[e]
    BY <1>0, <1>8 DEF SetAside, ghost
  <2>2. \A p \in Path : (p # q => keep'[p] = keep[p] /\ media'[p] = media[p]) /\ keep'[q] = media[q]
    BY <1>0, <2>1 DEF Files
  <2>3. \A p \in Path : p \in todo'[e] <=> p \in todo[e] /\ p # q
    BY <2>1
  <2> QED  BY <1>1, <2>1, <2>2, <2>3 DEF Kept, Local
<1>9. CASE MediaOut(e) \/ \E p \in Path : TearDown(e, p)
  <2>1. /\ pc[e] = "setaside" /\ pc'[e] \in {"setaside", "mediain"} /\ todo[e] = {}
        /\ UNCHANGED <<keep, from, before, owed, todo>>
    BY <1>0, <1>9 DEF MediaOut, TearDown, ghost
  <2> QED  BY <1>1, <2>1 DEF Kept, Local
<1>10. CASE MediaIn(e)
  <2>1. /\ pc[e] = "mediain" /\ pc'[e] = "reseat" /\ todo'[e] = At(keep)
        /\ UNCHANGED <<keep, from, before, owed>>
    BY <1>0, <1>10 DEF MediaIn, BeginWalk, ghost
  <2> QED  BY <1>1, <2>1 DEF Kept, Local, At
<1>11. CASE Raise(e)
  <2>1. pc'[e] = "undo"
    BY <1>0, <1>11 DEF Raise, BeginWalk
  <2> QED  BY <1>1, <2>1 DEF Kept
<1>12. ASSUME NEW q \in Path, ReseatFile(e, q)  PROVE Kept(e)'
  <2>1. /\ pc[e] \in Reseating /\ todo'[e] = todo[e] \ {q}
        /\ UNCHANGED <<pc, from, before, owed>>
    BY <1>0, <1>12 DEF ReseatFile, ghost
  <2>2. CASE /\ keep[q] # Nothing /\ media[q] = Nothing
             /\ media' = [media EXCEPT ![q] = keep[q]] /\ keep' = [keep EXCEPT ![q] = Nothing]
             /\ left' = left
    <3>1. /\ media'[q] = keep[q]
          /\ \A p \in Path : p # q => keep'[p] = keep[p] /\ media'[p] = media[p]
      BY <1>0, <2>2 DEF Files
    <3>2. keep[q] \in ContentsOf(media') /\ ContentsOf(media) \subseteq ContentsOf(media')
      BY <2>2, <3>1 DEF ContentsOf, At
    <3>3. \A p \in Path : media[p] # Nothing => media'[p] = media[p]
      BY <2>2, <3>1
    <3>4. \A p \in Path : p = q \/ (p \in todo'[e] <=> p \in todo[e])
      BY <2>1
    <3> QED  BY <1>1, <2>1, <2>2, <3>1, <3>2, <3>3, <3>4 DEF Kept, Local, Reseating
  <2>3. CASE media' = media /\ keep' = keep /\ left'[e] = TRUE
    BY <1>1, <2>1, <2>3 DEF Kept, Local, Reseating, ContentsOf, At
  <2> QED  BY <1>0, <1>12, <2>2, <2>3 DEF ReseatFile
<1> QED  BY <1>2, <1>3, <1>4, <1>5, <1>6, <1>7, <1>8, <1>9, <1>10, <1>11, <1>12 DEF Step, RestoreStep

\* Every step keeps the local videos.
LEMMA KeptInvStep == TypeInv /\ KeptInv /\ [Next]_vars => KeptInv'
<1> SUFFICES ASSUME TypeInv, KeptInv, [Next]_vars PROVE KeptInv'
  OBVIOUS
<1>1. CASE UNCHANGED vars
  BY <1>1 DEF vars, disk, proc, ghost, KeptInv, Excluded, OneEngine, BeforeTyped, Kept, Local,
              ContentsOf, At
<1>2. CASE Next
  <2>1. PICK e \in Engine : Step(e)
    BY <1>2 DEF Next, Step
  <2>2. Excluded' /\ BeforeTyped'
    BY <2>1, ExcludedStep, BeforeTypes DEF KeptInv
  <2>3. ASSUME NEW f \in Engine  PROVE Kept(f)'
    <3>1. CASE f = e
      BY <2>1, <3>1, OwnStepKeeps DEF KeptInv
    <3>2. CASE f # e /\ pc'[f] \in Restoring
      BY <2>1, <3>2, OthersLeaveTheKept DEF KeptInv
    <3>3. CASE pc'[f] \notin Restoring
      BY <3>3 DEF Kept
    <3> QED  BY <3>1, <3>2, <3>3
  <2> QED  BY <2>2, <2>3 DEF KeptInv
<1> QED  BY <1>1, <1>2

\* Where one engine at a time is at the keep folder, a completed restore leaves
\* every video the backup does not carry in its place or in the keep folder,
\* though moves may fail and a relaunched engine serve the user beside it.
THEOREM LocalVideoIsKept == Exclusive /\ Spec => KeepsLocalVideo
<1> SUFFICES ASSUME Exclusive PROVE Spec => KeepsLocalVideo
  OBVIOUS
<1>1. Init => TypeInv /\ KeptInv
  <2>1. Init => Excluded /\ \A e \in Engine : Kept(e)
    BY DEF Init, Excluded, Exclusive, OneEngine, Working, Kept, Restoring, Replacing
  <2> QED  BY <2>1, TypesHold, FirstPlaces DEF KeptInv, StartInv
<1>2. TypeInv /\ KeptInv /\ [Next]_vars => TypeInv' /\ KeptInv'
  BY TypeStep, KeptInvStep
<1>3. TypeInv /\ KeptInv =>
        [\A e \in Engine : Restored(e) =>
            \A p \in Video \cap At(before[e].media) :
                from[e].media[p] = Nothing /\ before[e].media[p] \in owed =>
                    before[e].media[p] \in ContentsOf(media') \cup ContentsOf(keep')]_vars
  <2> SUFFICES ASSUME KeptInv, NEW e \in Engine, Restored(e),
                      NEW p \in Video \cap At(before[e].media),
                      from[e].media[p] = Nothing, before[e].media[p] \in owed
               PROVE  before[e].media[p] \in ContentsOf(media') \cup ContentsOf(keep')
    OBVIOUS
  <2>1. /\ pc[e] = "reseat" /\ todo[e] = {} /\ media' = media
        /\ keep' = IF left[e] THEN keep ELSE NoFiles
    BY DEF Restored, WalkOver
  <2>2. p \in Path /\ Local(e, p) /\ "reseat" \in Restoring
    BY DEF At, Local, Restoring
  <2>3. \/ keep[p] = before[e].media[p] /\ left[e]
        \/ before[e].media[p] \in ContentsOf(media)
    BY <2>1, <2>2 DEF KeptInv, Kept
  <2> QED  BY <2>1, <2>2, <2>3 DEF ContentsOf, At, Local
<1> QED  BY <1>1, <1>2, <1>3, PTL DEF Spec, KeepsLocalVideo
=============================================================================
