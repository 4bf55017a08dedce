---------------------------- MODULE RestoreGate ----------------------------
(***************************************************************************)
(* backend/app/services/restore_gate.py: who may be in the database while  *)
(* a restore replaces it.  DatabaseGate is a count and a flag under one    *)
(* Condition; each method body between two lock releases is one action.    *)
(* Requests hold a slot from the middleware to the end of the response     *)
(* body; background workers (the scheduled backup, the consensus sweep,    *)
(* the quit backup) hold one for a turn.  Only a request can restore.      *)
(***************************************************************************)
EXTENDS Integers, FiniteSets

CONSTANTS Request,  \* threads that serve an HTTP request, one after another
          Worker,   \* background writers of main.py
          Carries,  \* whether _HOLDS_SLOT reaches the restore's own thread
          NoOne     \* nobody, for the abstract specification

Thread == Request \cup Worker

ASSUME ThreadAssumption == IsFiniteSet(Thread) /\ Request \cap Worker = {}
ASSUME NoOneAssumption == NoOne \notin Thread
ASSUME CarriesAssumption == Carries \in BOOLEAN

VARIABLES active,     \* DatabaseGate._active
          restoring,  \* DatabaseGate._restoring
          pc,         \* where each thread is
          verdict     \* what the request's call of exclusive() came to

gateVars == <<active, restoring, pc, verdict>>

Where == {"out", "refused", "in", "asleep", "woken", "exclusive"}
Verdict == {"none", "already_restoring", "busy", "restored"}

\* The slots: a thread inside exclusive() still holds the one it came with.
HoldsSlot == {"in", "asleep", "woken", "exclusive"}
Holders == {t \in Thread : pc[t] \in HoldsSlot}

\* exclusive() excuses its caller's own slot when the context variable says
\* that there is one.
own == IF Carries THEN 1 ELSE 0
DrainedButOne == active <= own + 1  \* mutant: one slot too many excused
Drained == active <= own

GateInit == /\ active = 0
            /\ restoring = FALSE
            /\ pc = [t \in Thread |-> "out"]
            /\ verdict = [t \in Thread |-> "none"]

\* Mutant: try_enter without its check of the flag.
AdmitAlways(t) == /\ pc[t] = "out"
                  /\ active' = active + 1
                  /\ pc' = [pc EXCEPT ![t] = "in"]
                  /\ verdict' = [verdict EXCEPT ![t] = "none"]
                  /\ UNCHANGED restoring

Admit(t) == /\ pc[t] = "out"
            /\ ~restoring
            /\ active' = active + 1
            /\ pc' = [pc EXCEPT ![t] = "in"]
            /\ verdict' = [verdict EXCEPT ![t] = "none"]
            /\ UNCHANGED restoring

\* A request is answered 503, a background turn is skipped.
TurnAway(t) == /\ pc[t] = "out"
               /\ restoring
               /\ pc' = [pc EXCEPT ![t] = "refused"]
               /\ UNCHANGED <<active, restoring, verdict>>

\* Mutant: the refused path leaves a slot it never took.
GoAwayLeaving(t) == /\ pc[t] = "refused"
                    /\ pc' = [pc EXCEPT ![t] = "out"]
                    /\ active' = active - 1
                    /\ UNCHANGED <<restoring, verdict>>

GoAway(t) == /\ pc[t] = "refused"
             /\ pc' = [pc EXCEPT ![t] = "out"]
             /\ UNCHANGED <<active, restoring, verdict>>

\* Mutant: leave without notify_all.
LeaveSilently(t) == /\ pc[t] = "in"
                    /\ active' = active - 1
                    /\ pc' = [pc EXCEPT ![t] = "out"]
                    /\ UNCHANGED <<restoring, verdict>>

\* notify_all: every thread that sleeps on the condition wakes.
Leave(t) == /\ pc[t] = "in"
            /\ active' = active - 1
            /\ pc' = [u \in Thread |-> IF u = t THEN "out"
                                       ELSE IF pc[u] = "asleep" THEN "woken"
                                       ELSE pc[u]]
            /\ UNCHANGED <<restoring, verdict>>

\* exclusive(), refused at once because a restore is running or waiting.
AlreadyRestoring(r) == /\ pc[r] = "in" /\ verdict[r] = "none"
                       /\ restoring
                       /\ verdict' = [verdict EXCEPT ![r] = "already_restoring"]
                       /\ UNCHANGED <<active, restoring, pc>>

\* exclusive(): admission stops, and wait_for tests its predicate before it waits.
StopAdmitting(r) == /\ pc[r] = "in" /\ verdict[r] = "none"
                    /\ ~restoring
                    /\ restoring' = TRUE
                    /\ pc' = [pc EXCEPT ![r] = IF Drained THEN "exclusive" ELSE "asleep"]
                    /\ UNCHANGED <<active, verdict>>

\* The wait returns and the predicate holds.
TakeDatabase(r) == /\ pc[r] \in {"asleep", "woken"}
                   /\ Drained
                   /\ pc' = [pc EXCEPT ![r] = "exclusive"]
                   /\ UNCHANGED <<active, restoring, verdict>>

\* Woken by one leave while other slots are still held.
SleepAgain(r) == /\ pc[r] = "woken"
                 /\ ~Drained
                 /\ pc' = [pc EXCEPT ![r] = "asleep"]
                 /\ UNCHANGED <<active, restoring, verdict>>

\* Mutant: the gate stays closed after a refused restore.
GiveUpClosed(r) == /\ pc[r] \in {"asleep", "woken"}
                   /\ ~Drained
                   /\ pc' = [pc EXCEPT ![r] = "in"]
                   /\ verdict' = [verdict EXCEPT ![r] = "busy"]
                   /\ UNCHANGED <<active, restoring>>

\* RESTORE_DRAIN_TIMEOUT_SECONDS have passed and the predicate does not hold.
GiveUp(r) == /\ pc[r] \in {"asleep", "woken"}
             /\ ~Drained
             /\ restoring' = FALSE
             /\ pc' = [pc EXCEPT ![r] = "in"]
             /\ verdict' = [verdict EXCEPT ![r] = "busy"]
             /\ UNCHANGED active

\* The block under exclusive() ended, by a return or by an exception.
Readmit(r) == /\ pc[r] = "exclusive"
              /\ restoring' = FALSE
              /\ pc' = [pc EXCEPT ![r] = "in"]
              /\ verdict' = [verdict EXCEPT ![r] = "restored"]
              /\ UNCHANGED active

GateNext == \/ \E t \in Thread : Admit(t) \/ TurnAway(t) \/ GoAway(t) \/ Leave(t)
            \/ \E r \in Request : \/ AlreadyRestoring(r) \/ StopAdmitting(r)
                                  \/ TakeDatabase(r) \/ SleepAgain(r)
                                  \/ GiveUp(r) \/ Readmit(r)

GateSpec == GateInit /\ [][GateNext]_gateVars

\* The wait is timed, and a restore's work ends; nothing else is assumed: a
\* request may hold its slot for ever.
FairGateSpec == /\ GateSpec
                /\ \A r \in Request : /\ WF_gateVars(TakeDatabase(r))
                                      /\ WF_gateVars(GiveUp(r))
                                      /\ WF_gateVars(Readmit(r))
-----------------------------------------------------------------------------
GateTypeOK == /\ active \in Nat
              /\ restoring \in BOOLEAN
              /\ pc \in [Thread -> Where]
              /\ verdict \in [Thread -> Verdict]
              /\ \A w \in Worker : pc[w] \in {"out", "refused", "in"}

\* A restore that has the database is the only one in it: every request and
\* every background writer admitted before it has released its slot, and no
\* other restore is waiting or running.
ExclusiveIsAlone == \A r \in Request : pc[r] = "exclusive" => Holders = {r}

\* The flag stops admission exactly while one restore waits or runs.  Closed
\* with nobody restoring, it would refuse every request until the next start.
ClosedForARestore ==
    restoring <=> \E r \in Request : pc[r] \in {"asleep", "woken", "exclusive"}

\* No lost wakeup: a restore sleeps on the condition only while somebody else
\* holds a slot, so the last leave always wakes it.
SleepsForSomebody ==
    Carries => \A r \in Request : pc[r] = "asleep" => Holders # {r}

\* Without the context variable a restore counts its own slot among those it
\* waits for: it is refused, and never takes a database it is not alone in.
RefusesWithoutContext == ~Carries => \A r \in Request : pc[r] # "exclusive"

\* A restore waits for those who were in before it and for nobody else: while
\* the gate is closed the set of holders only shrinks.
NobodySlipsIn == [][restoring /\ restoring' => Holders' \subseteq Holders]_gateVars

\* A closed gate opens again, though the slots it waits for may never be left.
GateReopens == restoring ~> ~restoring
-----------------------------------------------------------------------------
ownerOfDatabase == IF \E r \in Request : pc[r] = "exclusive"
                   THEN CHOOSE r \in Request : pc[r] = "exclusive" ELSE NoOne
Access == INSTANCE DatabaseAccess
            WITH User <- Thread, users <- Holders, owner <- ownerOfDatabase

\* The count and the flag implement shared or exclusive access.
ImplementsAccess == Access!Spec
=============================================================================
