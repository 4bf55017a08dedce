--------------------------- MODULE MCRestoreFiles ---------------------------
(* Small instances of RestoreFiles.  v is a video, a an audio. *)
EXTENDS RestoreFiles, TLC

CONSTANTS v, a, c1, c2, c3

Put(files) == [p \in Path |-> IF p \in DOMAIN files THEN files[p] ELSE Nothing]

\* An automatic backup, which carries no video, and a full backup with an older
\* recording at v.
Auto == [db |-> 1, docs |-> 1, media |-> NoFiles]
Full == [db |-> 0, docs |-> 0, media |-> Put(v :> c1)]
AutoOnly == {Auto}   \* with LockKinds = {"failed"}: README, section 5
TwoArchives == {Auto, Full}

OneVideo == Put(v :> c2)
VideoAndAudio == Put(v :> c2 @@ a :> c3)
=============================================================================
