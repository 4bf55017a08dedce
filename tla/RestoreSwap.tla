---------------------------- MODULE RestoreSwap ----------------------------
(***************************************************************************)
(* The gate, the engine's connection pool and the database FILE together:  *)
(* _restore_in_place of backend/app/routers/backup.py, the sessions of     *)
(* database.py and the background writers of main.py.  A connection keeps  *)
(* the file it opened: after the swap an old one reads and writes a file   *)
(* that has no name (POSIX).  The files a restore replaces besides the     *)
(* database are the subject of RestoreFiles.                               *)
(***************************************************************************)
EXTENDS RestoreGate

CONSTANTS Write,      \* what requests save
          MaxSwaps    \* bound: restores that reach the swap

ASSUME SwapAssumption == MaxSwaps \in Nat

VARIABLES file,       \* which file has the database's name: a generation
          rows,       \* rows[f]: the writes in generation f
          idle,       \* idle[f]: pooled connections that opened generation f
          conn,       \* conn[t]: the connection of t's session, and whether the
                      \* pool it came from is still the engine's
          step,       \* step[r]: how far r's restore is
          copying,    \* copying[w]: the backup that worker w is writing
          archives,   \* the contents of the backups in the backup folder
          acked       \* writes whose commit returned

dbVars == <<file, rows, idle, conn, step, copying, archives, acked>>
swapVars == <<gateVars, dbVars>>

File == 0..MaxSwaps
NoConn == [file |-> -1, pooled |-> FALSE]
NoCopy == [file |-> -1, rows |-> {}]
Step == {"none", "audited", "closed", "disposed", "saved", "swapped", "failed", "fresh", "over"}

SwapInit == /\ GateInit
            /\ file = 0
            /\ rows = [f \in File |-> {}]
            /\ idle = [f \in File |-> 0]
            /\ conn = [t \in Thread |-> NoConn]
            /\ step = [r \in Request |-> "none"]
            /\ copying = [w \in Worker |-> NoCopy]
            /\ archives = {{}}
            /\ acked = {}
-----------------------------------------------------------------------------
(* Sessions: QueuePool hands out an idle connection before it opens one, and
   a connection of a disposed pool is closed when it is given back. *)

Idle == {f \in File : idle[f] > 0}

CheckOut(t) ==
    /\ pc[t] = "in" /\ verdict[t] = "none"
    /\ conn[t] = NoConn
    /\ \/ \E f \in Idle : /\ conn' = [conn EXCEPT ![t] = [file |-> f, pooled |-> TRUE]]
                          /\ idle' = [idle EXCEPT ![f] = @ - 1]
       \/ /\ Idle = {}
          /\ conn' = [conn EXCEPT ![t] = [file |-> file, pooled |-> TRUE]]
          /\ UNCHANGED idle
    /\ UNCHANGED <<gateVars, file, rows, step, copying, archives, acked>>

\* idle after session t gives its connection back.
GivenBack(t) == IF conn[t].pooled THEN [idle EXCEPT ![conn[t].file] = @ + 1] ELSE idle

CheckIn(t) ==
    /\ pc[t] = "in"
    /\ conn[t] # NoConn
    /\ conn' = [conn EXCEPT ![t] = NoConn]
    /\ idle' = GivenBack(t)
    /\ UNCHANGED <<gateVars, file, rows, step, copying, archives, acked>>

\* A request or the consensus sweep commits, and the commit returns.
Save(t, w) ==
    /\ pc[t] = "in" /\ verdict[t] = "none"
    /\ conn[t] # NoConn
    /\ w \notin acked
    /\ rows' = [rows EXCEPT ![conn[t].file] = @ \cup {w}]
    /\ acked' = acked \cup {w}
    /\ UNCHANGED <<gateVars, file, idle, conn, step, copying, archives>>
-----------------------------------------------------------------------------
(* The scheduled and the quit backup: in the slot, through a connection of
   their own, which reads one snapshot while others write. *)

BeginCopy(w) ==
    /\ pc[w] = "in" /\ copying[w] = NoCopy
    /\ copying' = [copying EXCEPT ![w] = [file |-> file, rows |-> rows[file]]]
    /\ UNCHANGED <<gateVars, file, rows, idle, conn, step, archives, acked>>

EndCopy(w) ==
    /\ pc[w] = "in" /\ copying[w] # NoCopy
    /\ archives' = archives \cup {copying[w].rows}
    /\ copying' = [copying EXCEPT ![w] = NoCopy]
    /\ UNCHANGED <<gateVars, file, rows, idle, conn, step, acked>>
-----------------------------------------------------------------------------
(* _restore_in_place, under the gate *)

At(r, s) == pc[r] = "exclusive" /\ step[r] = s
Go(r, s) == step' = [step EXCEPT ![r] = s]

\* The restore_started row goes into the database that is about to be replaced.
Audit(r) == /\ At(r, "none") /\ Go(r, "audited")
            /\ UNCHANGED <<gateVars, file, rows, idle, conn, copying, archives, acked>>

CloseSession(r) == /\ At(r, "audited") /\ Go(r, "closed")
                   /\ conn' = [conn EXCEPT ![r] = NoConn]
                   /\ idle' = GivenBack(r)
                   /\ UNCHANGED <<gateVars, file, rows, copying, archives, acked>>

\* engine.dispose(): idle connections are closed and the pool is a new one, so
\* a connection in use is closed when it is given back.
Dispose == /\ idle' = [f \in File |-> 0]
           /\ conn' = [t \in Thread |-> IF conn[t] = NoConn THEN NoConn
                                        ELSE [conn[t] EXCEPT !.pooled = FALSE]]

\* Mutant: the pool is not emptied before the swap.
KeepPool(r) == /\ At(r, "closed") /\ Go(r, "disposed")
               /\ UNCHANGED <<gateVars, file, rows, idle, conn, copying, archives, acked>>

DisposeBefore(r) == /\ At(r, "closed") /\ Go(r, "disposed")
                    /\ Dispose
                    /\ UNCHANGED <<gateVars, file, rows, copying, archives, acked>>

\* Mutant: a backup that fails does not stop the restore.
SaveNothing(r) == /\ At(r, "disposed") /\ Go(r, "saved")
                  /\ UNCHANGED <<gateVars, file, rows, idle, conn, copying, archives, acked>>

\* restore_from_backup: the pre_restore backup of what is about to go.
SaveBefore(r) == /\ At(r, "disposed") /\ Go(r, "saved")
                 /\ archives' = archives \cup {rows[file]}
                 /\ UNCHANGED <<gateVars, file, rows, idle, conn, copying, acked>>

\* Mutant: the swap before the backup.
SwapUnsaved(r) == /\ At(r, "disposed") /\ Go(r, "swapped")
                  /\ file < MaxSwaps
                  /\ file' = file + 1
                  /\ \E a \in archives : rows' = [rows EXCEPT ![file + 1] = a]
                  /\ UNCHANGED <<gateVars, idle, conn, copying, archives, acked>>

\* os.replace: the staged database takes the name.
Swap(r) == /\ At(r, "saved") /\ Go(r, "swapped")
           /\ file < MaxSwaps
           /\ file' = file + 1
           /\ \E a \in archives : rows' = [rows EXCEPT ![file + 1] = a]
           /\ UNCHANGED <<gateVars, idle, conn, copying, archives, acked>>

\* The archive is refused, cannot be unpacked, or the rest of the files fail.
FailRestore(r) == /\ \E s \in {"disposed", "saved", "swapped"} : At(r, s)
                  /\ Go(r, "failed")
                  /\ UNCHANGED <<gateVars, file, rows, idle, conn, copying, archives, acked>>

\* The finally clause: the file may have changed under the pool either way.
DisposeAfter(r) == /\ At(r, "swapped") \/ At(r, "failed")
                   /\ Go(r, IF step[r] = "swapped" THEN "fresh" ELSE "over")
                   /\ Dispose
                   /\ UNCHANGED <<gateVars, file, rows, copying, archives, acked>>

\* run_data_repairs and the restore_completed row, through the engine.
Repair(r) == /\ At(r, "fresh") /\ Go(r, "over")
             /\ idle' = IF Idle = {} THEN [idle EXCEPT ![file] = 1] ELSE idle
             /\ UNCHANGED <<gateVars, file, rows, conn, copying, archives, acked>>
-----------------------------------------------------------------------------
(* The gate's own steps, and what they need of the sessions: the session is
   closed before the slot is left, and the login check opens one before the
   restore's body runs. *)

Serve(t) == /\ \/ Admit(t) \/ TurnAway(t) \/ GoAway(t)
               \/ Leave(t) /\ conn[t] = NoConn
                           /\ (t \in Worker => copying[t] = NoCopy)
            /\ UNCHANGED dbVars

Gated(r) == /\ \/ (AlreadyRestoring(r) \/ StopAdmitting(r)) /\ conn[r] # NoConn
               \/ TakeDatabase(r) \/ SleepAgain(r) \/ GiveUp(r)
            /\ UNCHANGED dbVars

EndRestore(r) == /\ Readmit(r)
                 /\ step[r] = "over" /\ Go(r, "none")
                 /\ UNCHANGED <<file, rows, idle, conn, copying, archives, acked>>

SwapNext ==
    \/ \E t \in Thread : \/ Serve(t) \/ CheckOut(t) \/ CheckIn(t)
                         \/ \E w \in Write : Save(t, w)
    \/ \E w \in Worker : BeginCopy(w) \/ EndCopy(w)
    \/ \E r \in Request :
          \/ Gated(r) \/ Audit(r) \/ CloseSession(r) \/ DisposeBefore(r)
          \/ SaveBefore(r) \/ Swap(r) \/ FailRestore(r) \/ DisposeAfter(r)
          \/ Repair(r) \/ EndRestore(r)

SwapSpec == SwapInit /\ [][SwapNext]_swapVars
-----------------------------------------------------------------------------
SwapTypeOK == /\ GateTypeOK
              /\ file \in File
              /\ rows \in [File -> SUBSET Write]
              /\ idle \in [File -> Nat]
              /\ conn \in [Thread -> [file : File, pooled : BOOLEAN] \cup {NoConn}]
              /\ step \in [Request -> Step]
              /\ copying \in [Worker -> [file : File, rows : SUBSET Write] \cup {NoCopy}]
              /\ archives \subseteq SUBSET Write
              /\ acked \subseteq Write

\* When the file is swapped no connection to the old one is open, pooled or in
\* a session: none can be left on a file without a name, and the old file's
\* -wal cannot be in use when it is unlinked.
NoConnectionAtSwap == \A r \in Request :
    At(r, "saved") => Idle = {} /\ \A t \in Thread : conn[t] = NoConn

\* Whoever is served reads and writes the file that has the database's name,
\* after a restore as before it, and no backup copies across a swap.
ServedFromTheFile == /\ \A t \in Thread : conn[t] # NoConn => conn[t].file = file
                     /\ Idle \subseteq {file}
                     /\ \A w \in Worker : copying[w] # NoCopy => copying[w].file = file

\* An acknowledged write is in the database or in a backup of what a restore
\* replaced.
AckedIsKept == acked \subseteq UNION (archives \cup {rows[file]})

\* Gate, pool, backups and swap implement a database that is replaced at once,
\* by an archive, after its contents were saved to one.
Restorable == INSTANCE RestorableDatabase WITH contents <- rows[file]
ImplementsRestorable == Restorable!Spec
=============================================================================
