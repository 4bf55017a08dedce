--------------------------- MODULE ConsensusSweep ---------------------------
(***************************************************************************)
(* The stored consensus layer and the queue of stale targets:              *)
(* mark_consensus_stale, sweep_stale_consensus and drain_stale_consensus   *)
(* of backend/app/services/consensus_staleness.py, with the transactions   *)
(* SQLite gives them.  Requests change votes and mark in one transaction;  *)
(* two callers drain the queue beside them, the sweep of main.py and the   *)
(* recompute button of routers/code_analysis.py.  Until its first write a  *)
(* session's reads are in no transaction: each SELECT sees the latest      *)
(* commit, and the write lock comes with the first DELETE.                 *)
(*                                                                         *)
(* A marker is a row.  A drainer loads it before it has the lock and       *)
(* deletes it by its id, and an id is used again: without AUTOINCREMENT    *)
(* SQLite gives a new row the largest id there is, and one more.           *)
(*                                                                         *)
(* What a target's voters decide is a function of its votes, so the stored *)
(* consensus is the votes it was computed from.                            *)
(***************************************************************************)
EXTENDS Integers, SequencesExt

CONSTANTS Target,     \* segments and dataset values
          Vote,       \* what the voters of a target may have said
          Raises,     \* the votes on which a recompute raises
          Sweep, Button,
          Drainer,    \* who drains: the sweep, or the sweep and the button
          Limit,      \* markers of one batch
          MaxEdits,   \* bounds: edits,
          MaxLocked   \* and drains that give up on a locked database

ASSUME SweepAssumption ==
    /\ Raises \subseteq Vote
    /\ Drainer \subseteq {Sweep, Button}
    /\ Limit \in Nat \ {0}
    /\ {MaxEdits, MaxLocked} \subseteq Nat

VARIABLES votes,      \* committed, as the next three
          consensus,  \* the votes the stored consensus was computed from
          queue,      \* the rows of markers, by id; a target has one at most
          saved,      \* the backup a restore may bring back
          job,        \* the call each drainer is in
          known,      \* the ids it knows to fail, in the order of retrying
          overtaken,  \* targets edited after a drainer read their votes
          reused,     \* targets whose marker has the id of one a drainer had loaded
          spent       \* edits, locked drains, backups and restores so far

vars == <<votes, consensus, queue, saved, job, known, overtaken, reused, spent>>

\* A call: where it is, the markers it has loaded, the ids it has still to
\* attempt alone and those among them to retry, the votes it has read, the known
\* failures that wait their turn, the failures it met, and how many targets it
\* recomputed.
NoJob == [at |-> "idle", batch |-> <<>>, todo |-> <<>>, retry |-> <<>>, read |-> {},
          waiting |-> <<>>, failed |-> <<>>, recomputed |-> 0]

\* What a backup holds, and for each of its targets which claims stand.
Committed == [votes |-> votes, consensus |-> consensus, queue |-> queue,
              overtaken |-> overtaken, reused |-> reused]

Init == /\ \E v \in Vote \ Raises : votes = [t \in Target |-> v]
        /\ consensus = votes
        /\ queue = <<>>
        /\ job = [d \in Drainer |-> NoJob]
        /\ known = [d \in Drainer |-> <<>>]
        /\ overtaken = {} /\ reused = {}
        /\ saved = Committed
        /\ spent = [edits |-> 0, locked |-> 0, backups |-> 0, restores |-> 0]

Marked == {row.of : row \in ToSet(queue)}

\* The id of the next marker: rowid, the largest and one more.
NextId == IF queue = <<>> THEN 1 ELSE Last(queue).id + 1
FirstOf(s) == SubSeq(s, 1, IF Len(s) < Limit THEN Len(s) ELSE Limit)
AllButFirstOf(s) == SubSeq(s, Limit + 1, Len(s))

\* The sequence s without the elements of S, in its order.
Without(s, S) ==
    LET kept[i \in 0..Len(s)] == IF i = 0 THEN <<>>
                                 ELSE IF s[i] \in S THEN kept[i - 1]
                                 ELSE Append(kept[i - 1], s[i])
    IN  kept[Len(s)]

\* The markers with the ids given.
WithIds(ids) == {row \in ToSet(queue) : row.id \in ids}

\* A drainer has read the votes of a target and not yet written.
Attempts(d, t) == job[d].at \in {"write", "write one"} /\ Head(job[d].batch).of = t

\* A drainer has loaded a marker of another target with the id the next will have.
NextIdIsHeld(t) == \E d \in Drainer : \E row \in ToSet(job[d].batch) :
                       row.id = NextId /\ row.of # t
-----------------------------------------------------------------------------
(* Requests *)

\* A vote changes and its target is marked, unless it is marked already
\* (NOT EXISTS, inside the transaction that changed the vote).
Edit(t, v) ==
    /\ spent.edits < MaxEdits
    /\ spent' = [spent EXCEPT !.edits = @ + 1]
    /\ v # votes[t]
    /\ votes' = [votes EXCEPT ![t] = v]
    /\ IF t \in Marked THEN UNCHANGED <<queue, reused>>
       ELSE /\ queue' = Append(queue, [id |-> NextId, of |-> t])
            /\ reused' = IF NextIdIsHeld(t) THEN reused \cup {t} ELSE reused \ {t}
    /\ overtaken' = IF \E d \in Drainer : Attempts(d, t) THEN overtaken \cup {t} ELSE overtaken
    /\ UNCHANGED <<consensus, saved, job, known>>

\* A backup copies what is committed, beside drains under way.
Backup ==
    /\ spent.backups = 0
    /\ spent' = [spent EXCEPT !.backups = 1]
    /\ saved' = Committed
    /\ UNCHANGED <<votes, consensus, queue, job, known, overtaken, reused>>

\* A restore finds no drain under way and no request of the button
\* (RestoreGate).  It brings the markers of another database with their ids;
\* what the sweep knows of failures is ids in memory, and stays.
Restore ==
    /\ \A d \in Drainer : job[d] = NoJob /\ (d = Button => known[d] = <<>>)
    /\ spent.backups = 1 /\ spent.restores = 0
    /\ spent' = [spent EXCEPT !.restores = 1]
    /\ votes' = saved.votes /\ consensus' = saved.consensus /\ queue' = saved.queue
    /\ overtaken' = saved.overtaken /\ reused' = saved.reused
    /\ UNCHANGED <<saved, job, known>>
-----------------------------------------------------------------------------
(* drain_stale_consensus *)

Set(d, j) == job' = [job EXCEPT ![d] = j]

\* Mutant: the failures of a turn are retried before those that waited.
FailuresFirst(d) == job[d].failed \o job[d].waiting

\* Mutant: every known failure is retried on every call (before #1039 g).
RetryAll(d) == known[d]
Retried(d) == FirstOf(known[d])

\* The markers of one batch, without those known to fail; and at most a batch
\* of these to retry, the ones retried least recently.
Unknown(d) == Without(queue, WithIds(ToSet(known[d])))

Call(d) ==
    LET batch == FirstOf(Unknown(d))
        j == [NoJob EXCEPT !.retry = Retried(d), !.waiting = AllButFirstOf(known[d])]
    IN  Set(d, IF batch = <<>> THEN [j EXCEPT !.at = "one", !.todo = j.retry]
               ELSE [j EXCEPT !.at = "batch", !.batch = batch])

\* The markers are loaded: a SELECT that holds nothing.
Start(d) == /\ job[d].at = "idle"
            /\ Call(d)
            /\ UNCHANGED <<votes, consensus, queue, saved, known, overtaken, reused, spent>>

\* The voters of the first marker's target: another such SELECT.
ReadVotes(d) ==
    /\ job[d].at \in {"batch", "marker"}
    /\ Set(d, [job[d] EXCEPT !.at = IF @ = "batch" THEN "write" ELSE "write one",
                             !.read = {votes[Head(job[d].batch).of]}])
    /\ UNCHANGED <<votes, consensus, queue, saved, known, overtaken, reused, spent>>

\* The votes that a target is recomputed from: the first one's were read before
\* the lock, the others' are read under it.
VotesOf(d, t) == IF t = Head(job[d].batch).of THEN CHOOSE v \in job[d].read : TRUE ELSE votes[t]

TargetsOf(d) == {row.of : row \in ToSet(job[d].batch)}
Fails(d) == \E t \in TargetsOf(d) : VotesOf(d, t) \in Raises

\* Mutant: deletes every marker up to the last one loaded, those of known
\* failures among them.
RecomputeUpTo(d) ==
    /\ consensus' = [t \in Target |-> IF t \in TargetsOf(d) THEN VotesOf(d, t) ELSE consensus[t]]
    /\ queue' = Without(queue, {row \in ToSet(queue) : row.id <= Last(job[d].batch).id})
    /\ UNCHANGED overtaken

\* Recompute the targets of the markers loaded, delete the rows that have their
\* ids, commit.
Recompute(d) ==
    /\ consensus' = [t \in Target |-> IF t \in TargetsOf(d) THEN VotesOf(d, t) ELSE consensus[t]]
    /\ queue' = Without(queue, WithIds({row.id : row \in ToSet(job[d].batch)}))
    /\ overtaken' = overtaken \ {t \in TargetsOf(d) :
          \A f \in Drainer : f = d \/ Attempts(f, t) => VotesOf(f, t) = votes[t]}

\* The call goes on to the ids it has to attempt alone, the last transaction over.
Alone(d, ids) == [job[d] EXCEPT !.at = "one", !.batch = <<>>, !.read = {}, !.todo = ids]

\* The first DELETE takes the write lock, and no request writes until the
\* commit: the whole batch, then the retries.
WriteBatch(d) ==
    /\ job[d].at = "write" /\ ~Fails(d)
    /\ Recompute(d)
    /\ Set(d, [Alone(d, job[d].retry) EXCEPT !.recomputed = Len(job[d].batch)])
    /\ UNCHANGED <<votes, saved, known, reused, spent>>

\* Mutant: the batch fails as one, again and again (before #1017).
BatchGivenUp(d) ==
    /\ job[d].at = "write" /\ Fails(d)
    /\ Set(d, Alone(d, job[d].retry))
    /\ UNCHANGED <<votes, consensus, queue, saved, known, overtaken, reused, spent>>

\* One target raises: the batch is rolled back and its ids are read again, to be
\* attempted one transaction each before the retries.
BatchRaises(d) ==
    /\ job[d].at = "write" /\ Fails(d)
    /\ LET batch == FirstOf(Unknown(d))
       IN  Set(d, Alone(d, [i \in DOMAIN batch |-> batch[i].id] \o job[d].retry))
    /\ UNCHANGED <<votes, consensus, queue, saved, known, overtaken, reused, spent>>

\* The marker with the next id is loaded, if there still is one.
LoadOne(d) ==
    /\ job[d].at = "one" /\ job[d].todo # <<>>
    /\ LET rows == WithIds({Head(job[d].todo)})
           rest == [job[d] EXCEPT !.todo = Tail(@)]
       IN  \/ rows = {} /\ Set(d, rest)
           \/ \E row \in rows : Set(d, [rest EXCEPT !.at = "marker", !.batch = <<row>>])
    /\ UNCHANGED <<votes, consensus, queue, saved, known, overtaken, reused, spent>>

WriteOne(d) ==
    /\ job[d].at = "write one"
    /\ LET next == Alone(d, job[d].todo)
       IN  IF Fails(d)
           THEN /\ Set(d, [next EXCEPT !.failed = Append(@, Head(job[d].batch).id)])
                /\ UNCHANGED <<consensus, queue, overtaken>>
           ELSE /\ Recompute(d)
                /\ Set(d, [next EXCEPT !.recomputed = @ + 1])
    /\ UNCHANGED <<votes, saved, known, reused, spent>>

\* The failures of the call, those that waited first.
Failures(d) == job[d].waiting \o job[d].failed

\* The sweep carries them to its next turn; the button calls again while a call
\* does a whole batch of work, and then forgets them.
Finish(d) ==
    /\ job[d].at = "one" /\ job[d].todo = <<>>
    /\ LET more == Len(Without(job[d].failed, ToSet(known[d])))
           again == d = Button /\ job[d].recomputed + more >= Limit
       IN  known' = [known EXCEPT ![d] = IF d = Sweep \/ again THEN Failures(d) ELSE <<>>]
    /\ Set(d, NoJob)
    /\ UNCHANGED <<votes, consensus, queue, saved, overtaken, reused, spent>>

\* OperationalError: the lock was not free in time.  The call is given up, and
\* what it had learned of failures with it.
Locked(d) ==
    /\ job[d].at \in {"write", "write one"}
    /\ spent.locked < MaxLocked
    /\ spent' = [spent EXCEPT !.locked = @ + 1]
    /\ Set(d, NoJob)
    /\ known' = IF d = Button THEN [known EXCEPT ![d] = <<>>] ELSE known
    /\ UNCHANGED <<votes, consensus, queue, saved, overtaken, reused>>

Drain(d) == \/ Start(d) \/ ReadVotes(d) \/ WriteBatch(d) \/ BatchRaises(d)
            \/ LoadOne(d) \/ WriteOne(d) \/ Finish(d)

Next == \/ \E d \in Drainer : Drain(d) \/ Locked(d)
        \/ \E t \in Target, v \in Vote : Edit(t, v)
        \/ Backup \/ Restore

Spec == Init /\ [][Next]_vars

\* _consensus_sweep_loop turns every thirty seconds, whatever the turn before
\* came to; nobody need press the button.
FairSpec == Spec /\ (Sweep \in Drainer => WF_vars(Drain(Sweep)))
-----------------------------------------------------------------------------
TypeOK == /\ votes \in [Target -> Vote] /\ consensus \in [Target -> Vote]
          /\ overtaken \subseteq Target /\ reused \subseteq Target
          /\ Marked \subseteq Target
          /\ \A i, k \in DOMAIN queue : i < k => /\ queue[i].id < queue[k].id
                                                 /\ queue[i].of # queue[k].of
          /\ \A d \in Drainer :
                /\ TargetsOf(d) \subseteq Target /\ job[d].read \subseteq Vote
                /\ job[d].at \in {"write", "write one"} <=> job[d].read # {}
                /\ IsInjective(known[d])

\* The stored consensus is that of the current votes, or its target is marked:
\* "the markers persist until a sweep succeeds".
StaleIsMarked == \A t \in Target : consensus[t] = votes[t] \/ t \in Marked

\* With one drainer ("the deliberate single writer") it can fail in one way
\* alone: a vote changed between the drainer's read of the target and the lock it
\* then took.
StaleIsMarkedOrOvertaken == \A t \in Target \ overtaken : consensus[t] = votes[t] \/ t \in Marked

\* With two there is one more: the marker was given the id of a row that one of
\* them had loaded and the other deleted, and was deleted in its place.
StaleIsMarkedOvertakenOrReused ==
    \A t \in Target \ (overtaken \cup reused) : consensus[t] = votes[t] \/ t \in Marked

\* A call attempts at most one batch, its isolation and one batch of retries,
\* however many markers are stuck.
BoundedCall == \A d \in Drainer :
    /\ Len(job[d].batch) <= Limit /\ Len(job[d].retry) <= Limit
    /\ Len(job[d].todo) <= 2 * Limit

\* "One target that raises must not block every other": every marker is
\* attempted again and again until it is drained, those behind a failure, those
\* that fail and those that a restore brought alike.
EveryMarkerIsAttempted == \A t \in Target :
    []<>(t \notin Marked \/ Attempts(Sweep, t))

\* A marker whose recompute does not raise is drained, whatever else fails, and
\* whatever ids of another database the sweep takes for failures.
HealthyIsDrained == \A t \in Target : t \in Marked ~> (t \notin Marked \/ votes[t] \in Raises)
=============================================================================
