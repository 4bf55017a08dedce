------------------------- MODULE RestorableDatabase -------------------------
(***************************************************************************)
(* What a researcher may expect of the database while backups are taken    *)
(* and restored: a write that was acknowledged is in the database, or in   *)
(* an archive that was saved of the contents before they were replaced.    *)
(* RestoreSwap implements this specification.                              *)
(***************************************************************************)
CONSTANT Write

VARIABLES contents,   \* the writes in the database
          archives,   \* the set of saved contents
          acked       \* the writes somebody was told had been saved

vars == <<contents, archives, acked>>

Init == contents = {} /\ archives = {{}} /\ acked = {}

Commit(w) == /\ w \notin acked
             /\ contents' = contents \cup {w}
             /\ acked' = acked \cup {w}
             /\ UNCHANGED archives

\* A backup holds what the database held at one moment of its writing.
Save == /\ \E s \in SUBSET contents : archives' = archives \cup {s}
        /\ UNCHANGED <<contents, acked>>

\* Contents are replaced only by an archive, and only once they are in one.
Replace == /\ contents \in archives
           /\ contents' \in archives
           /\ UNCHANGED <<archives, acked>>

Next == Save \/ Replace \/ \E w \in Write : Commit(w)

Spec == Init /\ [][Next]_vars

NothingLost == acked \subseteq UNION (archives \cup {contents})
=============================================================================
