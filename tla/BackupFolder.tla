---------------------------- MODULE BackupFolder ----------------------------
(***************************************************************************)
(* The backup folder of backend/app/services/backup.py: how a backup is    *)
(* named, staged and put in place, how a type rotates, and what the sweep  *)
(* of abandoned staging may remove, with the doors that call them: the     *)
(* automatic turn and the quit backup of main.py, "Backup now" and         *)
(* "Download Backup" of routers/backup.py, and the backups taken before a  *)
(* restore or a withdrawal.  The doors overlap: the restore gate admits    *)
(* them together, and so does a second process.                            *)
(*                                                                         *)
(* A backup's contents are the number of its snapshot: the order in which  *)
(* the copies of the database were really made, whatever the names say.    *)
(***************************************************************************)
EXTENDS Integers, FiniteSets, Functions

CONSTANTS Writer,       \* the doors, each a thread that backs up again and again
          TypeOf,       \* TypeOf[w]: the backup type door w writes
          Turning,      \* the automatic backup's turn, which sweeps first
          Keep,         \* Keep[type]: how many a rotating type keeps
          Library,      \* the folder at the start: what earlier runs left in it
          MaxClock,     \* bounds: seconds that names can tell apart,
          MaxSnapshots, \* snapshots of the database,
          MaxRestarts   \* and times the process dies and starts again

Rotating == DOMAIN Keep
Type == Range(TypeOf) \cup {n.type : n \in DOMAIN Library}
Name == [type : Type, stamp : Int, tail : Nat]

\* backup_files: by stamp, and within one second by tail; no tail counts as 1.
Later(m, n) == m.stamp > n.stamp \/ (m.stamp = n.stamp /\ m.tail > n.tail)

\* The clock and the snapshots are counted from the start; the backups of
\* earlier runs lie before it, each type in the order of its names.
ASSUME FolderAssumption ==
    /\ Turning \subseteq Writer
    /\ DOMAIN TypeOf = Writer
    /\ \A type \in Rotating : Keep[type] \in Nat \ {0}
    /\ {MaxClock, MaxSnapshots, MaxRestarts} \subseteq Nat
    /\ DOMAIN Library \subseteq Name /\ IsFiniteSet(DOMAIN Library)
    /\ Library \in [DOMAIN Library -> Int]
    /\ \A n \in DOMAIN Library : n.stamp <= 0 /\ Library[n] <= 0
    /\ \A m, n \in DOMAIN Library :
          m.type = n.type /\ Later(m, n) => Library[m] > Library[n]

VARIABLES clock,      \* the second datetime.now() tells
          folder,     \* folder[name]: the snapshot in the backup of that name
          snapshots,  \* how many snapshots were made
          pc,         \* where each door is
          name,       \* the name it has chosen
          copy,       \* the snapshot it has staged, or 0
          stage,      \* the age of its staging folder: nothing in it was
                      \* written for an hour, or it was
          doomed,     \* what its rotation has still to delete
          orphans,    \* the ages of staging that a dead process left
          restarts

vars == <<clock, folder, snapshots, pc, name, copy, stage, doomed, orphans, restarts>>

NoName == [type |-> "none", stamp |-> 0, tail |-> 0]
Age == {"young", "old"}

Names(type) == {n \in DOMAIN folder : n.type = type}

\* cleanup_old_backups: what is not among the newest Keep[type] of a type.
Outdated(type) == {n \in Names(type) :
                     Cardinality({m \in Names(type) : Later(m, n)}) >= Keep[type]}

\* Mutants: the first free tail of that second (before #971), or none at all.
FirstFreeTail(type, stamp) ==
    LET taken == {n.tail : n \in {m \in Names(type) : m.stamp = stamp}}
    IN  CHOOSE i \in 1..(Cardinality(taken) + 1) : i \notin taken /\ \A j \in 1..(i - 1) : j \in taken
NoTail(type, stamp) == 1

\* The tail is the largest in use in that second plus one, and the scan is
\* made whether or not the untailed name is free.
NextTail(type, stamp) ==
    LET taken == {n.tail : n \in {m \in Names(type) : m.stamp = stamp}}
    IN  IF taken = {} THEN 1
        ELSE 1 + CHOOSE i \in taken : \A j \in taken : i >= j

Init == /\ clock = 0
        /\ folder = Library
        /\ snapshots = 0
        /\ pc = [w \in Writer |-> "idle"]
        /\ name = [w \in Writer |-> NoName]
        /\ copy = [w \in Writer |-> 0]
        /\ stage = [w \in Writer |-> "none"]
        /\ doomed = [w \in Writer |-> {}]
        /\ orphans = {}
        /\ restarts = 0
-----------------------------------------------------------------------------
Go(w, where) == pc' = [pc EXCEPT ![w] = where]

\* Mutant: nothing sweeps (before #1080).
Unswept == UNCHANGED <<orphans, stage>>

\* sweep_abandoned_staging goes by age alone: it cannot tell an orphan from the
\* staging of a door that was suspended for an hour.
Swept == /\ orphans' = orphans \ {"old"}
         /\ stage' = [w \in Writer |-> IF stage[w] = "old" THEN "none" ELSE stage[w]]

\* create_backup reads the clock once, for the name and the manifest.
Begin(w) == /\ pc[w] = "idle"
            /\ Go(w, "stamped")
            /\ name' = [name EXCEPT ![w] = [type |-> TypeOf[w], stamp |-> clock, tail |-> 0]]
            /\ IF w \in Turning THEN Swept ELSE UNCHANGED <<stage, orphans>>
            /\ UNCHANGED <<clock, folder, snapshots, copy, doomed, restarts>>

\* It lists the folder for names of that second, and makes its staging folder.
ChooseName(w) ==
    /\ pc[w] = "stamped"
    /\ Go(w, "named")
    /\ name' = [name EXCEPT ![w].tail = NextTail(TypeOf[w], name[w].stamp)]
    /\ stage' = [stage EXCEPT ![w] = "young"]
    /\ UNCHANGED <<clock, folder, snapshots, copy, doomed, orphans, restarts>>

Snapshot(w) == /\ pc[w] = "named" /\ stage[w] # "none"
               /\ snapshots < MaxSnapshots
               /\ Go(w, "copied")
               /\ snapshots' = snapshots + 1
               /\ copy' = [copy EXCEPT ![w] = snapshots + 1]
               /\ stage' = [stage EXCEPT ![w] = "young"]
               /\ UNCHANGED <<clock, folder, name, doomed, orphans, restarts>>

Done(w) == Go(w, "idle") /\ name' = [name EXCEPT ![w] = NoName]

\* What ends a backup, with its archive or without: the finally clause.
Unstage(w) == /\ stage' = [stage EXCEPT ![w] = "none"]
              /\ copy' = [copy EXCEPT ![w] = 0]

\* The database stayed locked, the disk filled up, or the staging was swept:
\* the rotation that follows a backup is not reached.
Fail(w) == /\ pc[w] \in {"named", "copied"}
           /\ Done(w)
           /\ Unstage(w)
           /\ UNCHANGED <<clock, folder, snapshots, doomed, orphans, restarts>>

\* os.replace: the complete archive takes the name, whoever has it.
Place(w) == /\ pc[w] = "copied" /\ stage[w] # "none"
            /\ folder' = [n \in DOMAIN folder \cup {name[w]} |->
                              IF n = name[w] THEN copy[w] ELSE folder[n]]
            /\ IF TypeOf[w] \in Rotating THEN Go(w, "placed") /\ UNCHANGED name ELSE Done(w)
            /\ Unstage(w)
            /\ UNCHANGED <<clock, snapshots, doomed, orphans, restarts>>

\* cleanup_old_backups lists the folder once, then deletes what it listed.
ListOutdated(w) == /\ pc[w] = "placed"
                   /\ Go(w, "rotating")
                   /\ doomed' = [doomed EXCEPT ![w] = Outdated(TypeOf[w])]
                   /\ UNCHANGED <<clock, folder, snapshots, name, copy, stage, orphans, restarts>>

Without(n) == Restrict(folder, DOMAIN folder \ {n})

\* unlink(missing_ok=True), newest first.
Rotate(w, n) == /\ pc[w] = "rotating" /\ n \in doomed[w]
                /\ \A m \in doomed[w] : ~Later(m, n)
                /\ folder' = Without(n)
                /\ doomed' = [doomed EXCEPT ![w] = @ \ {n}]
                /\ UNCHANGED <<clock, snapshots, pc, name, copy, stage, orphans, restarts>>

\* Windows: a file that is open stays.
Skip(w, n) == /\ pc[w] = "rotating" /\ n \in doomed[w]
              /\ \A m \in doomed[w] : ~Later(m, n)
              /\ doomed' = [doomed EXCEPT ![w] = @ \ {n}]
              /\ UNCHANGED <<clock, folder, snapshots, pc, name, copy, stage, orphans, restarts>>

\* Download Backup goes on to send the archive it made.
Rotated(w) == /\ pc[w] = "rotating" /\ doomed[w] = {}
              /\ IF TypeOf[w] = "manual" THEN Go(w, "sending") /\ UNCHANGED name ELSE Done(w)
              /\ UNCHANGED <<clock, folder, snapshots, copy, stage, doomed, orphans, restarts>>

Send(w) == /\ pc[w] = "sending"
           /\ name[w] \in DOMAIN folder
           /\ Done(w)
           /\ UNCHANGED <<clock, folder, snapshots, copy, stage, doomed, orphans, restarts>>

\* The response fails: its file is gone.
SendNothing(w) ==
    /\ pc[w] = "sending"
    /\ name[w] \notin DOMAIN folder
    /\ Done(w)
    /\ UNCHANGED <<clock, folder, snapshots, copy, stage, doomed, orphans, restarts>>
-----------------------------------------------------------------------------
\* backup_delete: the researcher removes a backup from the history.
Delete(n) == /\ n \in DOMAIN folder
             /\ folder' = Without(n)
             /\ UNCHANGED <<clock, snapshots, pc, name, copy, stage, doomed, orphans, restarts>>

Tick == /\ clock < MaxClock
        /\ clock' = clock + 1
        /\ UNCHANGED <<folder, snapshots, pc, name, copy, stage, doomed, orphans, restarts>>

\* An hour passes: a door that runs keeps writing to its staging.
Hour == /\ orphans' = IF orphans = {} THEN {} ELSE {"old"}
        /\ UNCHANGED <<clock, folder, snapshots, pc, name, copy, stage, doomed, restarts>>

\* The computer sleeps for an hour, and every door with it.
Suspend == /\ orphans' = IF orphans = {} THEN {} ELSE {"old"}
           /\ stage' = [w \in Writer |-> IF stage[w] = "none" THEN "none" ELSE "old"]
           /\ UNCHANGED <<clock, folder, snapshots, pc, name, copy, doomed, restarts>>

\* The process dies and the next one sweeps as it starts (lifespan).
Restart == /\ restarts < MaxRestarts
           /\ restarts' = restarts + 1
           /\ pc' = [w \in Writer |-> "idle"]
           /\ name' = [w \in Writer |-> NoName]
           /\ copy' = [w \in Writer |-> 0]
           /\ doomed' = [w \in Writer |-> {}]
           /\ orphans' = (orphans \cup {stage[w] : w \in Writer}) \ {"none", "old"}
           /\ stage' = [w \in Writer |-> "none"]
           /\ UNCHANGED <<clock, folder, snapshots>>

Backup(w) == \/ Begin(w) \/ ChooseName(w) \/ Snapshot(w) \/ Fail(w) \/ Place(w)
             \/ ListOutdated(w) \/ Rotated(w) \/ Send(w) \/ SendNothing(w)
             \/ \E n \in doomed[w] : Rotate(w, n) \/ Skip(w, n)

Next == \/ \E w \in Writer : Backup(w)
        \/ \E n \in DOMAIN folder : Delete(n)
        \/ Tick \/ Hour \/ Suspend \/ Restart

Spec == Init /\ [][Next]_vars

\* Time passes, and the automatic backup's turn comes again whatever became of
\* the one before (_auto_backup_loop catches every exception).
FairSpec == Spec /\ WF_vars(Hour) /\ \A w \in Turning : WF_vars(Backup(w))
-----------------------------------------------------------------------------
TypeOK == /\ clock \in 0..MaxClock
          /\ DOMAIN folder \subseteq Name
          /\ \A n \in DOMAIN folder : folder[n] \in Int /\ folder[n] <= snapshots
          /\ pc \in [Writer -> {"idle", "stamped", "named", "copied", "placed",
                                "rotating", "sending"}]
          /\ name \in [Writer -> Name \cup {NoName}]
          /\ copy \in [Writer -> 0..snapshots]
          /\ stage \in [Writer -> Age \cup {"none"}]
          /\ \A w \in Writer : doomed[w] \subseteq Name
          /\ orphans \subseteq Age

\* "Never overwrite an existing backup": a name keeps its contents until the
\* backup is deleted.
NeverOverwritten == [][\A n \in DOMAIN folder \cap DOMAIN folder' :
                           folder'[n] = folder[n]]_vars

\* What a rotation sets out to delete is of its own type, which rotates, and is
\* older, by the snapshots themselves, than as many of that type as it keeps: a
\* recovery point is never given up for an older one, nor for one of another
\* type.
RotatesTheOldest == [][\A w \in Writer : ListOutdated(w) =>
    \A n \in doomed'[w] :
        /\ n.type = TypeOf[w] /\ n.type \in Rotating
        /\ Cardinality({m \in Names(TypeOf[w]) : folder[m] > folder[n]}) >= Keep[TypeOf[w]]]_vars

\* Download Backup sends the archive it made, unless the researcher deleted it
\* meanwhile: no rotation removes an archive that is about to be sent.
SendsWhatItMade == [][\A w \in Writer :
    /\ TypeOf[w] = "manual" /\ pc[w] \in {"placed", "rotating", "sending"}
    /\ name[w] \in DOMAIN folder \ DOMAIN folder'
    => Delete(name[w])]_vars

\* A full disk is not forever: staging left by a process that died is removed
\* while the application runs.
StagingIsSwept == orphans # {} ~> orphans = {}
=============================================================================
