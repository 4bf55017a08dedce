--------------------------- MODULE DatabaseAccess ---------------------------
(***************************************************************************)
(* What the restore gate of backend/app/services/restore_gate.py promises, *)
(* with no counter, no flag and no condition variable: many users may be   *)
(* in the database together, and one of them may have it to itself.        *)
(* RestoreGate implements this specification.                              *)
(***************************************************************************)
CONSTANTS User, NoOne

VARIABLES users,   \* who is in the database
          owner    \* who has it to itself, or NoOne

vars == <<users, owner>>

Init == users = {} /\ owner = NoOne

\* Nobody is admitted while somebody has the database to itself.
Enter(u) == /\ owner = NoOne
            /\ u \notin users
            /\ users' = users \cup {u}
            /\ UNCHANGED owner

Leave(u) == /\ u \in users
            /\ owner # u
            /\ users' = users \ {u}
            /\ UNCHANGED owner

\* The owner is a user that is alone: a restore arrives as a request.
TakeAlone(u) == /\ owner = NoOne
                /\ users = {u}
                /\ owner' = u
                /\ UNCHANGED users

GiveBack(u) == /\ owner = u
               /\ owner' = NoOne
               /\ UNCHANGED users

Next == \E u \in User : Enter(u) \/ Leave(u) \/ TakeAlone(u) \/ GiveBack(u)

Spec == Init /\ [][Next]_vars

\* While a restore has the database, nobody but the restore is in it.
Alone == owner # NoOne => users = {owner}
=============================================================================
