------------------------ MODULE CodingHistoryProofs ------------------------
(***************************************************************************)
(* Proofs about CodingHistory, for any coders, targets, codes and bounds:  *)
(* types, that the stacks hold what was run as the page's coder only       *)
(* (CoderInv), that they hold each step once (OnceInv), that the inverse   *)
(* of an apply keeps a value where one was replaced (LostInv, BackInv),    *)
(* and that undoing everything puts the coder's codings back (CallsInv,    *)
(* OrderInv, OwesInv).                                                     *)
(***************************************************************************)
EXTENDS CodingHistory, TLAPS, SequenceTheorems

\* A job is about the entry it read: the stacks change under it only when the
\* generation does.
FromThisPast == running # NoJob => running.gen <= generation
UndoesTheLast == running # NoJob /\ running.op = "undo" /\ running.gen = generation =>
  past # <<>> /\ running.entry = past[Len(past)]
RedoesTheFirst == running # NoJob /\ running.op = "redo" /\ running.gen = generation =>
  future # <<>> /\ running.entry = future[1]
BaseInv == HistoryTypeOK /\ FromThisPast /\ UndoesTheLast /\ RedoesTheFirst

\* The stacks are the coder's: what is recorded was run as the page's coder, if
\* the session is on that coder, and so is what may still be recorded.
QueuedIsUnrun == \A i \in 1..Len(queue) :
                   queue[i].op = "execute" => queue[i].entry.as = {}
RunAsScope(s) == \A i \in 1..Len(s) : s[i].as \subseteq {scope}
StacksRunAsScope == session = scope => RunAsScope(past) /\ RunAsScope(future)
RunningAsScope ==
  session = scope /\ running # NoJob /\ running.gen = generation
    => running.as \cup running.entry.as \subseteq {scope}
CoderInv == QueuedIsUnrun /\ StacksRunAsScope /\ RunningAsScope

\* Each step in one place: on a stack, waiting for its first run or in it; and
\* numbered by the press it came from.
Numbers(s) == {s[i].n : i \in 1..Len(s)}
Once(s) == \A i, j \in 1..Len(s) : s[i].n = s[j].n => i = j
Acts(q) == {i \in 1..Len(q) : q[i].op = "execute"}
Waiting(q) == {q[i].entry.n : i \in Acts(q)}
WaitingOnce(q) == \A i, j \in Acts(q) : q[i].entry.n = q[j].entry.n => i = j
Acting == IF running # NoJob /\ running.op = "execute" THEN {running.entry.n} ELSE {}
OnceInv ==
  /\ Once(past) /\ Once(future) /\ WaitingOnce(queue)
  /\ Numbers(past) \cap Numbers(future) = {}
  /\ (Numbers(past) \cup Numbers(future)) \cap (Waiting(queue) \cup Acting) = {}
  /\ Waiting(queue) \cap Acting = {}
  /\ Numbers(past) \cup Numbers(future) \cup Waiting(queue) \cup Acting \subseteq 1..presses
------------------------------------------------------------------------------
(* Sequences, item by item *)

\* Appending keeps the items and adds one after them.
LEMMA AppendItems ==
  ASSUME NEW S, NEW s \in Seq(S), NEW e \in S
  PROVE  /\ Append(s, e) \in Seq(S)
         /\ Len(Append(s, e)) = Len(s) + 1
         /\ \A i \in 1..(Len(s) + 1) : Append(s, e)[i] = IF i <= Len(s) THEN s[i] ELSE e
  BY AppendProperties

\* A tail is the items but the first, moved down by one; the head is the first.
LEMMA TailItems ==
  ASSUME NEW S, NEW s \in Seq(S), s # << >>
  PROVE  /\ Tail(s) \in Seq(S)
         /\ Len(Tail(s)) = Len(s) - 1
         /\ \A i \in 1..(Len(s) - 1) : Tail(s)[i] = s[i + 1]
         /\ Head(s) = s[1] /\ Len(s) \in Nat \ {0} /\ s[1] \in S
  BY HeadTailProperties, EmptySeq

\* A front is the items but the last, where they were.
LEMMA FrontItems ==
  ASSUME NEW S, NEW s \in Seq(S), s # << >>
  PROVE  /\ Front(s) \in Seq(S)
         /\ Len(Front(s)) = Len(s) - 1
         /\ \A i \in 1..(Len(s) - 1) : Front(s)[i] = s[i]
  <1>1. Len(s) \in Nat \ {0}
    BY EmptySeq
  <1>2. \A i \in 1..(Len(s) - 1) : s[i] \in S
    BY <1>1, ElementOfSeq
  <1> DEFINE u == SubSeq(s, 1, Len(s) - 1)
  <1>3. /\ u \in Seq(S)
        /\ Len(u) = IF 1 <= Len(s) - 1 THEN (Len(s) - 1) - 1 + 1 ELSE 0
        /\ \A i \in 1..((Len(s) - 1) - 1 + 1) : u[i] = s[1 + i - 1]
    BY <1>1, <1>2, SubSeqProperties
  <1>4. Front(s) = u
    BY DEF Front
  <1> HIDE DEF u
  <1>5. Len(u) = Len(s) - 1
    <2>1. \A n \in Nat \ {0} : (IF 1 <= n - 1 THEN (n - 1) - 1 + 1 ELSE 0) = n - 1
      OBVIOUS
    <2> QED  BY <1>1, <1>3, <2>1
  <1>6. ASSUME NEW i \in 1..(Len(s) - 1)
        PROVE  u[i] = s[i]
    <2>1. i \in 1..((Len(s) - 1) - 1 + 1) /\ 1 + i - 1 = i
      BY <1>1
    <2> QED  BY <1>3, <2>1
  <1> QED  BY <1>3, <1>4, <1>5, <1>6

\* Offering puts one item before the others, which move up by one.
LEMMA OfferedItems ==
  ASSUME NEW S, NEW s \in Seq(S), NEW e \in S
  PROVE  /\ <<e>> \o s \in Seq(S)
         /\ Len(<<e>> \o s) = Len(s) + 1
         /\ \A i \in 1..(Len(s) + 1) : (<<e>> \o s)[i] = IF i = 1 THEN e ELSE s[i - 1]
  <1>1. <<e>> \in Seq(S) /\ Len(<<e>>) = 1 /\ <<e>>[1] = e
    OBVIOUS
  <1> QED  BY <1>1, ConcatProperties

\* Pushing adds an item at the end, and drops the first where the history is full.
LEMMA PushedItems ==
  ASSUME NEW S, NEW s \in Seq(S), NEW e \in S
  PROVE  /\ Pushed(s, e) \in Seq(S)
         /\ \E d \in {0, 1} :
              /\ Len(Pushed(s, e)) = Len(s) + 1 - d
              /\ \A i \in 1..(Len(s) + 1 - d) :
                   Pushed(s, e)[i] = IF i + d <= Len(s) THEN s[i + d] ELSE e
<1> DEFINE t == Append(s, e)
<1>1. t \in Seq(S) /\ Len(t) = Len(s) + 1 /\ t # << >> /\ Len(s) \in Nat
  BY AppendItems, EmptySeq, LenProperties
<1>2. CASE Len(t) > MaxHistory
  <2>1. Pushed(s, e) = Tail(t)
    BY <1>2 DEF Pushed
  <2>2. /\ Tail(t) \in Seq(S) /\ Len(Tail(t)) = Len(s)
        /\ \A i \in 1..Len(s) : Tail(t)[i] = t[i + 1]
    BY <1>1, TailItems
  <2>3. \A i \in 1..Len(s) : t[i + 1] = IF i + 1 <= Len(s) THEN s[i + 1] ELSE e
    BY <1>1, AppendItems
  <2> HIDE DEF t
  <2> QED  BY <1>1, <2>1, <2>2, <2>3
<1>3. CASE ~(Len(t) > MaxHistory)
  <2>1. Pushed(s, e) = t
    BY <1>3 DEF Pushed
  <2> QED  BY <1>1, <2>1, AppendItems
<1> QED  BY <1>2, <1>3

------------------------------------------------------------------------------
(* Type correctness *)

\* Every call of an inverse is a call.
LEMMA CallTypes ==
  ASSUME NEW e \in Entry, NEW todo \in SUBSET Code, NEW behind \in SUBSET Target,
         NEW call \in UndoCalls(e, todo, behind)
  PROVE  call \in Call
<1>1. /\ e.kind \in {"apply", "remove"} /\ e.code \in Code
      /\ e.on \in SUBSET Target /\ e.held \in SUBSET Target
  BY DEF Entry
<1>2. RemoveFrom(e) \in SUBSET Target
  BY <1>1 DEF RemoveFrom
<1>3. \A c \in Code : RestoreOn(e, c) \in SUBSET Target
  BY <1>1 DEF RestoreOn, Replaced
<1>4. \A do \in {"apply", "remove"}, c \in Code, on \in SUBSET Target : CallOf(do, c, on) \in Call
  BY DEF CallOf, Call
<1>5. CASE e.kind = "remove"
  BY <1>1, <1>4, <1>5 DEF UndoCalls
<1>6. CASE e.kind # "remove" /\ todo # {}
  BY <1>1, <1>3, <1>4, <1>6 DEF UndoCalls
<1>7. CASE e.kind # "remove" /\ todo = {}
  <2>1. RemoveFrom(e) \cup behind \in SUBSET Target
    BY <1>2
  <2> QED  BY <1>1, <1>4, <1>7, <2>1 DEF UndoCalls
<1> QED  BY <1>5, <1>6, <1>7

\* What a job begins with, and what the record of it says.
LEMMA FirstCallTypes ==
  ASSUME HistoryTypeOK, NEW job \in Job, NEW first \in FirstCalls(job)
  PROVE  first[1] \in Entry /\ first[2] \in Call /\ job.op \in {"execute", "undo", "redo"}
<1>0. past \in Seq(Entry) /\ future \in Seq(Entry)
  BY DEF HistoryTypeOK
<1>1. \/ job.op = "execute" /\ job.entry \in Entry
      \/ job.op \in {"undo", "redo"}
  BY DEF Job
<1>2. \A e \in Entry : CallOf(e.kind, e.code, e.on) \in Call
  BY DEF CallOf, Call, Entry
<1>3. CASE job.op = "execute"
  <2>1. first = <<job.entry, CallOf(job.entry.kind, job.entry.code, job.entry.on)>>
    BY <1>3 DEF FirstCalls
  <2> QED  BY <1>1, <1>2, <1>3, <2>1
<1>4. CASE job.op = "undo"
  <2>1. past # <<>> /\ \E c \in UndoCalls(past[Len(past)], ToRestore(past[Len(past)]), {}) :
          first = <<past[Len(past)], c>>
    BY <1>4 DEF FirstCalls
  <2>2. past[Len(past)] \in Entry
    BY <1>0, <2>1, EmptySeq, ElementOfSeq
  <2>3. ToRestore(past[Len(past)]) \in SUBSET Code
    BY DEF ToRestore
  <2>4. PICK c \in UndoCalls(past[Len(past)], ToRestore(past[Len(past)]), {}) :
          first = <<past[Len(past)], c>>
    BY <2>1
  <2>5. c \in Call
    BY <2>2, <2>3, CallTypes
  <2> QED  BY <1>4, <2>2, <2>4, <2>5
<1>5. CASE job.op = "redo"
  <2>1. future # <<>> /\ first = <<Head(future), CallOf(Head(future).kind, Head(future).code, Head(future).on)>>
    BY <1>5 DEF FirstCalls
  <2>2. Head(future) \in Entry
    BY <1>0, <2>1, HeadTailProperties
  <2> QED  BY <1>2, <1>5, <2>1, <2>2
<1> QED  BY <1>1, <1>3, <1>4, <1>5

\* A job that begins is a running job of this generation, with nothing run yet.
LEMMA BegunTypes ==
  ASSUME HistoryTypeOK, NEW op \in {"execute", "undo", "redo"}, NEW e \in Entry, NEW call \in Call
  PROVE  /\ Begun(op, e, call) \in Running
         /\ Begun(op, e, call).op = op /\ Begun(op, e, call).entry = e
         /\ Begun(op, e, call).gen = generation /\ Begun(op, e, call).as = {}
<1>1. ToRestore(e) \in SUBSET Code
  BY DEF ToRestore
<1>2. generation \in Nat /\ seen \in [Coder -> SUBSET (Target \X Code)] /\ (seen = layer) \in BOOLEAN
  BY DEF HistoryTypeOK
<1> QED  BY <1>1, <1>2 DEF Begun, Running

\* What is recorded of a job is its entry with the coders it ran as.
LEMMA FinishedTypes ==
  ASSUME NEW r \in Running
  PROVE  /\ Finished(r) \in Entry
         /\ Finished(r).n = r.entry.n
         /\ Finished(r).as = r.entry.as \cup r.as
<1>1. r.entry \in Entry /\ r.as \in SUBSET Coder /\ r.gave \in SUBSET (Target \X Code)
  BY DEF Running
<1>2. r.entry.as \in SUBSET Coder /\ r.entry.lost \in SUBSET (Target \X Code)
  BY <1>1 DEF Entry
<1> QED  BY <1>1, <1>2 DEF Finished, Entry

\* What a call replaces, and what it leaves of a layer, are codings.
LEMMA ServedTypes ==
  ASSUME HistoryTypeOK, NEW c \in Coder, NEW call \in Call
  PROVE  /\ Rivals(c, call) \in SUBSET (Target \X Code)
         /\ Recoded(c, call) \in SUBSET (Target \X Code)
<1>1. /\ call.on \in SUBSET Target /\ call.code \in Code
      /\ layer[c] \in SUBSET (Target \X Code)
  BY DEF Call, HistoryTypeOK
<1>2. On(call.on, call.code) \in SUBSET (Target \X Code)
  BY <1>1 DEF On
<1>3. Rivals(c, call) \in SUBSET (Target \X Code)
  BY <1>1 DEF Rivals
<1> QED  BY <1>1, <1>2, <1>3 DEF Recoded

\* What a job paints is a layer for each coder.
LEMMA PaintTypes ==
  ASSUME HistoryTypeOK, NEW r \in Running
  PROVE  Paint(r) \in [Coder -> SUBSET (Target \X Code)]
<1>1. /\ r.entry.by \in Coder /\ r.call.on \in SUBSET Target /\ r.call.code \in Code
      /\ seen \in [Coder -> SUBSET (Target \X Code)]
  BY DEF Running, Entry, Call, HistoryTypeOK
<1>2. On(r.call.on, r.call.code) \in SUBSET (Target \X Code)
  BY <1>1 DEF On
<1>3. seen[r.entry.by] \in SUBSET (Target \X Code)
  BY <1>1
<1>4. /\ seen[r.entry.by] \cup On(r.call.on, r.call.code) \in SUBSET (Target \X Code)
      /\ seen[r.entry.by] \ On(r.call.on, r.call.code) \in SUBSET (Target \X Code)
  BY <1>2, <1>3
<1> QED  BY <1>1, <1>4 DEF Paint

\* What Record does to the stacks.
LEMMA RecordTypes ==
  ASSUME BaseInv, running # NoJob, StillMine(running), Record(running)
  PROVE  past' \in Seq(Entry) /\ future' \in Seq(Entry)
<1>1. running \in Running /\ past \in Seq(Entry) /\ future \in Seq(Entry)
  BY DEF BaseInv, HistoryTypeOK
<1>2. Finished(running) \in Entry
  BY <1>1, FinishedTypes
<1>3. CASE running.op = "execute" /\ past' = Pushed(past, Finished(running)) /\ future' = <<>>
  BY <1>1, <1>2, <1>3, PushedItems
<1>4. CASE running.op = "undo" /\ past' = Front(past) /\ future' = <<Finished(running)>> \o future
  <2>1. past # <<>>
    BY <1>4 DEF BaseInv, UndoesTheLast, StillMine
  <2> QED  BY <1>1, <1>2, <1>4, <2>1, FrontItems, OfferedItems
<1>5. CASE running.op = "redo" /\ past' = Pushed(past, Finished(running)) /\ future' = Tail(future)
  <2>1. future # <<>>
    BY <1>5 DEF BaseInv, RedoesTheFirst, StillMine
  <2> QED  BY <1>1, <1>2, <1>5, <2>1, PushedItems, TailItems
<1> QED  BY <1>3, <1>4, <1>5 DEF Record

\* What a job that begins reads: the head of the queue is of it, and an undo or
\* a redo is about the entry next to the cut between the stacks.
LEMMA FirstCallEntry ==
  ASSUME HistoryTypeOK, NEW job \in Job, NEW first \in FirstCalls(job)
  PROVE  /\ job.op = "execute" => first[1] = job.entry
         /\ job.op = "undo" => past # <<>> /\ first[1] = past[Len(past)]
         /\ job.op = "redo" => future # <<>> /\ first[1] = future[1]
<1>1. ASSUME job.op = "undo"  PROVE past # <<>> /\ first[1] = past[Len(past)]
  BY <1>1 DEF FirstCalls
<1>2. ASSUME job.op = "redo"  PROVE future # <<>> /\ first[1] = future[1]
  <2>1. future # <<>> /\ first[1] = Head(future)
    BY <1>2 DEF FirstCalls
  <2>2. future \in Seq(Entry)
    BY DEF HistoryTypeOK
  <2> QED  BY <2>1, <2>2, TailItems
<1>3. ASSUME job.op = "execute"  PROVE first[1] = job.entry
  BY <1>3 DEF FirstCalls
<1> QED  BY <1>1, <1>2, <1>3

\* The initial states are typed, with nothing running.
LEMMA BaseHolds == HistoryInit => BaseInv
<1> SUFFICES ASSUME HistoryInit PROVE BaseInv
  OBVIOUS
<1>1. layer \in [Coder -> SUBSET (Target \X Code)]
  BY BeginsAssumption DEF HistoryInit
<1>2. <<>> \in Seq(Entry) /\ <<>> \in Seq(Job)
  BY EmptySeq
<1>3. 0 \in 0..MaxPresses
  BY BoundAssumption
<1>4. HistoryTypeOK
  BY <1>1, <1>2, <1>3, CoderAssumption DEF HistoryInit, HistoryTypeOK
<1> QED  BY <1>4 DEF HistoryInit, BaseInv, FromThisPast, UndoesTheLast, RedoesTheFirst

\* Pressing a code queues an act about the coder's codings as they are painted.
LEMMA PressTypes ==
  ASSUME HistoryTypeOK, NEW on \in Selection, NEW code \in Code, presses < MaxPresses
  PROVE  /\ NewEntry(on, code) \in Entry
         /\ NewEntry(on, code).n = presses + 1 /\ NewEntry(on, code).as = {}
         /\ [op |-> "execute", entry |-> NewEntry(on, code)] \in Job
<1>1. on \in SUBSET Target /\ Held(code) \in SUBSET Target
  BY SelectionAssumption DEF Held
<1>2. presses + 1 \in 1..MaxPresses
  BY BoundAssumption DEF HistoryTypeOK
<1>3. scope \in Coder
  BY DEF HistoryTypeOK
<1>4. NewEntry(on, code) \in Entry
  BY <1>1, <1>2, <1>3 DEF NewEntry, Entry
<1> QED  BY <1>4 DEF Job, NewEntry

\* Every step keeps the types, and keeps a running undo or redo about the entry
\* next to the cut.
LEMMA BaseStep == BaseInv /\ [HistoryNext]_vars => BaseInv'
<1> SUFFICES ASSUME BaseInv, [HistoryNext]_vars PROVE BaseInv'
  OBVIOUS
<1> USE DEF BaseInv
<1>0. ASSUME UNCHANGED <<past, future, running, generation>>, HistoryTypeOK'
      PROVE  BaseInv'
  BY <1>0 DEF FromThisPast, UndoesTheLast, RedoesTheFirst
<1>n. ASSUME running' = NoJob, HistoryTypeOK'
      PROVE  BaseInv'
  BY <1>n DEF FromThisPast, UndoesTheLast, RedoesTheFirst
<1>1. ASSUME NEW on \in Selection, NEW code \in Code, PressCode(on, code)
      PROVE  BaseInv'
  <2>1. presses' \in 0..MaxPresses
    BY <1>1, BoundAssumption DEF PressCode, HistoryTypeOK
  <2>2. queue' \in Seq(Job)
    BY <1>1, PressTypes, AppendItems DEF PressCode, HistoryTypeOK
  <2>3. HistoryTypeOK'
    BY <1>1, <2>1, <2>2 DEF PressCode, HistoryTypeOK, server, page
  <2> QED  BY <1>0, <1>1, <2>3 DEF PressCode
<1>2. ASSUME NEW op \in {"undo", "redo"}, PressKey(op)
      PROVE  BaseInv'
  <2>1. [op |-> op, entry |-> NoEntry] \in Job
    BY DEF Job
  <2>2. queue' \in Seq(Job)
    BY <1>2, <2>1, AppendItems DEF PressKey, HistoryTypeOK
  <2>3. HistoryTypeOK'
    BY <1>2, <2>2 DEF PressKey, HistoryTypeOK, server, page
  <2> QED  BY <1>0, <1>2, <2>3 DEF PressKey
<1>3. CASE Start
  <2> DEFINE job == Head(queue)
  <2>1. job \in Job /\ Tail(queue) \in Seq(Job)
    BY <1>3, HeadTailProperties DEF Start, HistoryTypeOK
  <2>2. CASE FirstCalls(job) = {}
    <3>1. HistoryTypeOK'
      BY <1>3, <2>1, <2>2 DEF Start, HistoryTypeOK, server, bounds
    <3> QED  BY <1>0, <1>3, <2>2, <3>1 DEF Start
  <2>3. CASE FirstCalls(job) # {}
    <3>1. PICK first \in FirstCalls(job) : /\ running' = Begun(job.op, first[1], first[2])
                                           /\ seen' = Paint(running')
      BY <1>3, <2>3 DEF Start
    <3>2. first[1] \in Entry /\ first[2] \in Call /\ job.op \in {"execute", "undo", "redo"}
      BY <2>1, FirstCallTypes
    <3>3. /\ running' \in Running /\ running'.op = job.op /\ running'.entry = first[1]
          /\ running'.gen = generation
      BY <3>1, <3>2, BegunTypes
    <3>4. seen' \in [Coder -> SUBSET (Target \X Code)]
      BY <3>1, <3>3, PaintTypes
    <3>5. HistoryTypeOK'
      BY <1>3, <2>1, <3>3, <3>4 DEF Start, HistoryTypeOK, server, bounds
    <3>6. generation' = generation /\ past' = past /\ future' = future /\ generation \in Nat
      BY <1>3 DEF Start, HistoryTypeOK
    <3>7. /\ job.op = "undo" => past # <<>> /\ first[1] = past[Len(past)]
          /\ job.op = "redo" => future # <<>> /\ first[1] = future[1]
      BY <2>1, FirstCallEntry
    <3> QED  BY <3>3, <3>5, <3>6, <3>7 DEF FromThisPast, UndoesTheLast, RedoesTheFirst
  <2> QED  BY <2>2, <2>3
<1>4. CASE Serve
  <2>1. running \in Running /\ running # NoJob /\ running.call \in Call /\ running.as \in SUBSET Coder
    BY <1>4 DEF Serve, HistoryTypeOK, Running
  <2>2. session \in Coder /\ Rivals(session, running.call) \in SUBSET (Target \X Code)
        /\ Recoded(session, running.call) \in SUBSET (Target \X Code)
    BY <2>1, ServedTypes DEF HistoryTypeOK
  <2>3. layer' \in [Coder -> SUBSET (Target \X Code)]
    BY <1>4, <2>2 DEF Serve, HistoryTypeOK
  <2>4. running' \in Running /\ running'.op = running.op /\ running'.entry = running.entry
        /\ running'.gen = running.gen
    <3>1. running' = [running EXCEPT !.at = "refused"] \/
          running' = [running EXCEPT !.at = "served", !.gave = Rivals(session, running.call),
                                     !.as = @ \cup {session}]
      BY <1>4 DEF Serve
    <3> DEFINE rivals == Rivals(session, running.call)
    <3>2. rivals \in SUBSET (Target \X Code)
      BY <2>2
    <3> HIDE DEF rivals
    <3>3. ASSUME running' = [running EXCEPT !.at = "served", !.gave = rivals,
                                            !.as = @ \cup {session}]
          PROVE  running' \in Running /\ running'.op = running.op
                 /\ running'.entry = running.entry /\ running'.gen = running.gen
      BY <2>1, <2>2, <3>2, <3>3 DEF Running
    <3>4. ASSUME running' = [running EXCEPT !.at = "refused"]
          PROVE  running' \in Running /\ running'.op = running.op
                 /\ running'.entry = running.entry /\ running'.gen = running.gen
      BY <2>1, <3>4 DEF Running
    <3> QED  BY <3>1, <3>3, <3>4 DEF rivals
  <2>5. HistoryTypeOK'
    BY <1>4, <2>3, <2>4 DEF Serve, HistoryTypeOK, page, bounds
  <2>6. generation' = generation /\ past' = past /\ future' = future
    BY <1>4 DEF Serve
  <2> QED  BY <2>1, <2>4, <2>5, <2>6 DEF FromThisPast, UndoesTheLast, RedoesTheFirst
<1>5. CASE Continue
  <2>1. running \in Running /\ running # NoJob
    BY <1>5 DEF Continue, HistoryTypeOK
  <2>2. TodoAfter(running) \in SUBSET Code /\ BehindAfter(running) \in SUBSET Target
        /\ running.entry \in Entry
    BY <2>1 DEF TodoAfter, BehindAfter, LeftBehind, Running, Call
  <2>3. PICK c \in UndoCalls(running.entry, TodoAfter(running), BehindAfter(running)) :
          running' = [running EXCEPT !.call = c, !.at = "sent", !.gave = {},
                                     !.todo = TodoAfter(running), !.behind = BehindAfter(running)]
    BY <1>5 DEF Continue
  <2>4. c \in Call
    BY <2>2, CallTypes
  <2>5. running' \in Running /\ running'.op = running.op /\ running'.entry = running.entry
        /\ running'.gen = running.gen
    BY <2>1, <2>2, <2>3, <2>4 DEF Running
  <2>6. HistoryTypeOK'
    BY <1>5, <2>5 DEF Continue, HistoryTypeOK, server, page, bounds
  <2>7. generation' = generation /\ past' = past /\ future' = future
    BY <1>5 DEF Continue
  <2> QED  BY <2>1, <2>5, <2>6, <2>7 DEF FromThisPast, UndoesTheLast, RedoesTheFirst
<1>6. CASE Complete
  <2>1. past' \in Seq(Entry) /\ future' \in Seq(Entry)
    BY <1>6, RecordTypes DEF Complete, HistoryTypeOK
  <2>2. HistoryTypeOK'
    BY <1>6, <2>1 DEF Complete, HistoryTypeOK, server, page, bounds
  <2> QED  BY <1>6, <1>n, <2>2 DEF Complete
<1>7. ASSUME running # NoJob  PROVE RolledBack \in [Coder -> SUBSET (Target \X Code)]
  BY <1>7 DEF RolledBack, HistoryTypeOK, Running
<1>8. CASE Drop
  <2>1. past' \in Seq(Entry)
    BY <1>8, FrontItems DEF Drop, HistoryTypeOK, UndoesTheLast, StillMine
  <2>2. future' \in Seq(Entry)
    BY <1>8, TailItems DEF Drop, HistoryTypeOK, RedoesTheFirst, StillMine
  <2>3. HistoryTypeOK'
    BY <1>7, <1>8, <2>1, <2>2 DEF Drop, HistoryTypeOK, server, bounds
  <2> QED  BY <1>8, <1>n, <2>3 DEF Drop
<1>9. CASE Fail
  <2>1. late' \subseteq Call
    BY <1>9 DEF Fail, HistoryTypeOK, Running
  <2>2. HistoryTypeOK'
    BY <1>7, <1>9, <2>1 DEF Fail, HistoryTypeOK
  <2> QED  BY <1>9, <1>n, <2>2 DEF Fail
<1>10. CASE ServeLate
  <2>1. PICK call \in late :
          /\ late' = late \ {call}
          /\ layer' = IF Refuses(call) THEN layer
                      ELSE [layer EXCEPT ![session] = Recoded(session, call)]
    BY <1>10 DEF ServeLate
  <2>2. Recoded(session, call) \in SUBSET (Target \X Code)
    BY ServedTypes DEF HistoryTypeOK
  <2>3. layer' \in [Coder -> SUBSET (Target \X Code)]
    BY <2>1, <2>2 DEF HistoryTypeOK
  <2>4. HistoryTypeOK'
    BY <1>10, <2>1, <2>3 DEF ServeLate, HistoryTypeOK, page, hook, bounds
  <2> QED  BY <1>0, <1>10, <2>4 DEF ServeLate, hook
<1>11. CASE Refetch
  <2>1. HistoryTypeOK'
    BY <1>11 DEF Refetch, HistoryTypeOK, server, hook, bounds
  <2> QED  BY <1>0, <1>11, <2>1 DEF Refetch, hook
<1>12. ASSUME NEW c \in Coder, Repoint(c)
       PROVE  BaseInv'
  <2>1. HistoryTypeOK'
    BY <1>12 DEF Repoint, HistoryTypeOK, hook
  <2> QED  BY <1>0, <1>12, <2>1 DEF Repoint, hook
<1>13. CASE Refresh
  <2>1. <<>> \in Seq(Entry)
    BY EmptySeq
  <2>2. HistoryTypeOK'
    BY <1>13, <2>1 DEF Refresh, HistoryTypeOK, server, bounds
  <2>3. running' = running /\ generation' = generation + 1 /\ generation \in Nat
        /\ (running # NoJob => running.gen \in Nat /\ running.gen <= generation)
    BY <1>13 DEF Refresh, HistoryTypeOK, FromThisPast, Running
  <2>4. running' # NoJob => running'.gen < generation'
    BY <2>3
  <2>5. running' # NoJob => running'.gen <= generation' /\ running'.gen # generation'
    BY <2>3, <2>4
  <2> QED  BY <2>2, <2>5 DEF FromThisPast, UndoesTheLast, RedoesTheFirst
<1>14. ASSUME NEW c \in Code, Deactivate(c)
       PROVE  BaseInv'
  <2>1. HistoryTypeOK'
    BY <1>14 DEF Deactivate, HistoryTypeOK, page, hook
  <2> QED  BY <1>0, <1>14, <2>1 DEF Deactivate, hook
<1>15. CASE DeleteSet
  <2>1. HistoryTypeOK'
    BY <1>15 DEF DeleteSet, HistoryTypeOK, page, hook
  <2> QED  BY <1>0, <1>15, <2>1 DEF DeleteSet, hook
<1>16. CASE UNCHANGED vars
  <2>1. HistoryTypeOK'
    BY <1>16 DEF vars, HistoryTypeOK, server, page, hook, bounds
  <2> QED  BY <1>0, <1>16, <2>1 DEF vars, hook
<1> QED
  BY <1>1, <1>2, <1>3, <1>4, <1>5, <1>6, <1>8, <1>9, <1>10, <1>11, <1>12, <1>13, <1>14,
     <1>15, <1>16 DEF HistoryNext, HookNext

\* Types: every variable keeps its type, whatever is pressed, fails or is
\* answered late.
THEOREM TypeCorrect == HistorySpec => []HistoryTypeOK
<1>1. BaseInv => HistoryTypeOK
  BY DEF BaseInv
<1> QED  BY <1>1, BaseHolds, BaseStep, PTL DEF HistorySpec

------------------------------------------------------------------------------
(* The stacks are the coder's *)

\* What a step does to a stack adds no coder to it but the step's own.
LEMMA StacksOfScope ==
  ASSUME NEW s \in Seq(Entry), RunAsScope(s)
  PROVE  /\ \A e \in Entry : e.as \subseteq {scope} =>
              RunAsScope(Pushed(s, e)) /\ RunAsScope(<<e>> \o s)
         /\ s # <<>> => /\ RunAsScope(Front(s)) /\ RunAsScope(Tail(s))
                        /\ s[Len(s)].as \subseteq {scope} /\ s[1].as \subseteq {scope}
<1>0. Len(s) \in Nat /\ \A i \in 1..Len(s) : s[i].as \subseteq {scope}
  BY LenProperties DEF RunAsScope
<1>1. ASSUME NEW e \in Entry, e.as \subseteq {scope}
      PROVE  RunAsScope(Pushed(s, e))
  <2>1. PICK d \in {0, 1} :
          /\ Len(Pushed(s, e)) = Len(s) + 1 - d
          /\ \A i \in 1..(Len(s) + 1 - d) :
               Pushed(s, e)[i] = IF i + d <= Len(s) THEN s[i + d] ELSE e
    BY PushedItems
  <2>2. ASSUME NEW i \in 1..(Len(s) + 1 - d)
        PROVE  Pushed(s, e)[i].as \subseteq {scope}
    <3>1. CASE i + d <= Len(s)
      <4>1. i + d \in 1..Len(s)
        BY <1>0, <3>1
      <4> QED  BY <1>0, <2>1, <3>1, <4>1
    <3>2. CASE ~(i + d <= Len(s))
      BY <1>1, <2>1, <3>2
    <3> QED  BY <3>1, <3>2
  <2> QED  BY <2>1, <2>2 DEF RunAsScope
<1>2. ASSUME NEW e \in Entry, e.as \subseteq {scope}
      PROVE  RunAsScope(<<e>> \o s)
  <2>1. /\ Len(<<e>> \o s) = Len(s) + 1
        /\ \A i \in 1..(Len(s) + 1) : (<<e>> \o s)[i] = IF i = 1 THEN e ELSE s[i - 1]
    BY OfferedItems
  <2>2. ASSUME NEW i \in 1..(Len(s) + 1)
        PROVE  (<<e>> \o s)[i].as \subseteq {scope}
    <3>1. i # 1 => i - 1 \in 1..Len(s)
      BY <1>0
    <3> QED  BY <1>0, <1>2, <2>1, <3>1
  <2> QED  BY <2>1, <2>2 DEF RunAsScope
<1>3. ASSUME s # <<>>
      PROVE  /\ RunAsScope(Front(s)) /\ RunAsScope(Tail(s))
             /\ s[Len(s)].as \subseteq {scope} /\ s[1].as \subseteq {scope}
  <2>1. /\ Len(Front(s)) = Len(s) - 1 /\ \A i \in 1..(Len(s) - 1) : Front(s)[i] = s[i]
        /\ Len(Tail(s)) = Len(s) - 1 /\ \A i \in 1..(Len(s) - 1) : Tail(s)[i] = s[i + 1]
        /\ Len(s) \in Nat \ {0}
    BY <1>3, FrontItems, TailItems
  <2>2. 1 \in 1..Len(s) /\ Len(s) \in 1..Len(s)
        /\ \A i \in 1..(Len(s) - 1) : i \in 1..Len(s) /\ i + 1 \in 1..Len(s)
    BY <2>1
  <2> QED  BY <1>0, <2>1, <2>2 DEF RunAsScope
<1> QED  BY <1>1, <1>2, <1>3

\* The steps of the two stacks together are those of each.
LEMMA CoderInvSuffices == HistoryTypeOK /\ CoderInv => StacksAreTheCoders
<1> SUFFICES ASSUME HistoryTypeOK, CoderInv, session = scope, NEW i \in 1..Len(Steps)
             PROVE  Steps[i].as \subseteq {scope}
  BY DEF StacksAreTheCoders
<1>1. past \in Seq(Entry) /\ future \in Seq(Entry) /\ Len(past) \in Nat /\ Len(future) \in Nat
  BY LenProperties DEF HistoryTypeOK
<1>2. /\ Len(Steps) = Len(past) + Len(future)
      /\ Steps[i] = IF i <= Len(past) THEN past[i] ELSE future[i - Len(past)]
  BY <1>1, ConcatProperties DEF Steps
<1>3. i \in 1..Len(past) \/ (~(i <= Len(past)) /\ i - Len(past) \in 1..Len(future))
  BY <1>1, <1>2
<1>4. RunAsScope(past) /\ RunAsScope(future)
  BY DEF CoderInv, StacksRunAsScope
<1> QED  BY <1>2, <1>3, <1>4 DEF RunAsScope

\* Initially nothing was run, so nothing was run as somebody else.
LEMMA CoderHolds == HistoryInit => CoderInv
<1> SUFFICES ASSUME HistoryInit PROVE CoderInv
  OBVIOUS
<1>1. past = <<>> /\ future = <<>> /\ queue = <<>> /\ running = NoJob
  BY DEF HistoryInit
<1>2. Len(past) = 0 /\ Len(future) = 0 /\ Len(queue) = 0
  BY <1>1
<1>3. \A i \in 1..0 : FALSE
  OBVIOUS
<1> QED  BY <1>1, <1>2, <1>3 DEF CoderInv, QueuedIsUnrun, StacksRunAsScope, RunAsScope, RunningAsScope

\* A switch of the session is told apart from the page's coder until the page
\* hears of it, and then the stacks are empty and what runs belongs to none.
LEMMA CoderStep == BaseInv /\ CoderInv /\ [HistoryNext]_vars => CoderInv'
<1> SUFFICES ASSUME BaseInv, CoderInv, [HistoryNext]_vars PROVE CoderInv'
  OBVIOUS
<1>0. /\ HistoryTypeOK /\ past \in Seq(Entry) /\ future \in Seq(Entry) /\ queue \in Seq(Job)
      /\ Len(queue) \in Nat
      /\ QueuedIsUnrun /\ StacksRunAsScope /\ RunningAsScope
  BY LenProperties DEF BaseInv, HistoryTypeOK, CoderInv
<1>a. ASSUME UNCHANGED <<past, future, running, generation, session, scope, queue>>
      PROVE  CoderInv'
  BY <1>a, <1>0 DEF CoderInv, QueuedIsUnrun, StacksRunAsScope, RunAsScope, RunningAsScope
<1>1. ASSUME NEW on \in Selection, NEW code \in Code, PressCode(on, code)
      PROVE  CoderInv'
  <2> DEFINE job == [op |-> "execute", entry |-> NewEntry(on, code)]
  <2>1. job \in Job /\ job.entry.as = {}
    BY <1>0, <1>1, PressTypes DEF PressCode
  <2>2. queue' = Append(queue, job)
    BY <1>1 DEF PressCode
  <2> HIDE DEF job
  <2>3. QueuedIsUnrun'
    BY <1>0, <2>1, <2>2, AppendItems DEF QueuedIsUnrun
  <2> QED  BY <1>0, <1>1, <2>3
           DEF PressCode, server, page, CoderInv, StacksRunAsScope, RunAsScope, RunningAsScope
<1>2. ASSUME NEW op \in {"undo", "redo"}, PressKey(op)
      PROVE  CoderInv'
  <2> DEFINE job == [op |-> op, entry |-> NoEntry]
  <2>1. job \in Job /\ job.op # "execute"
    BY DEF Job
  <2>2. queue' = Append(queue, job)
    BY <1>2 DEF PressKey
  <2> HIDE DEF job
  <2>3. QueuedIsUnrun'
    BY <1>0, <2>1, <2>2, AppendItems DEF QueuedIsUnrun
  <2> QED  BY <1>0, <1>2, <2>3
           DEF PressKey, server, page, CoderInv, StacksRunAsScope, RunAsScope, RunningAsScope
<1>3. CASE Start
  <2> DEFINE job == Head(queue)
  <2>1. /\ queue # <<>> /\ queue' = Tail(queue) /\ session' = session /\ scope' = scope
        /\ past' = past /\ future' = future /\ generation' = generation
    BY <1>3 DEF Start, server
  <2>2. job \in Job /\ job = queue[1] /\ 1 \in 1..Len(queue)
    BY <1>0, <2>1, TailItems
  <2>3. QueuedIsUnrun'
    <3>1. \A i \in 1..(Len(queue) - 1) : i + 1 \in 1..Len(queue)
      BY <1>0
    <3> QED  BY <1>0, <2>1, <3>1, TailItems DEF QueuedIsUnrun
  <2>4. StacksRunAsScope'
    BY <1>0, <2>1 DEF StacksRunAsScope, RunAsScope
  <2>5. CASE FirstCalls(job) = {}
    <3>1. running' = running
      BY <1>3, <2>5 DEF Start
    <3> QED  BY <1>0, <2>1, <2>3, <2>4, <3>1 DEF CoderInv, RunningAsScope
  <2>6. CASE FirstCalls(job) # {}
    <3>1. PICK first \in FirstCalls(job) : running' = Begun(job.op, first[1], first[2])
      BY <1>3, <2>6 DEF Start
    <3>2. first[1] \in Entry /\ first[2] \in Call /\ job.op \in {"execute", "undo", "redo"}
      BY <1>0, <2>2, FirstCallTypes
    <3>3. running'.entry = first[1] /\ running'.as = {}
      BY <1>0, <3>1, <3>2, BegunTypes
    <3>4. /\ job.op = "execute" => first[1] = job.entry
          /\ job.op = "undo" => past # <<>> /\ first[1] = past[Len(past)]
          /\ job.op = "redo" => future # <<>> /\ first[1] = future[1]
      BY <1>0, <2>2, FirstCallEntry
    <3>5. ASSUME session = scope  PROVE first[1].as \subseteq {scope}
      <4>1. RunAsScope(past) /\ RunAsScope(future)
        BY <1>0, <3>5 DEF StacksRunAsScope
      <4>2. CASE job.op = "execute"
        BY <1>0, <2>2, <3>4, <4>2 DEF QueuedIsUnrun
      <4>3. CASE job.op = "undo"
        BY <1>0, <3>4, <4>1, <4>3, StacksOfScope
      <4>4. CASE job.op = "redo"
        BY <1>0, <3>4, <4>1, <4>4, StacksOfScope
      <4> QED  BY <3>2, <4>2, <4>3, <4>4
    <3>6. RunningAsScope'
      BY <2>1, <3>3, <3>5 DEF RunningAsScope
    <3> QED  BY <2>3, <2>4, <3>6 DEF CoderInv
  <2> QED  BY <2>5, <2>6
<1>4. CASE Serve
  <2>1. /\ running # NoJob /\ running \in Running
        /\ queue' = queue /\ session' = session /\ scope' = scope
        /\ past' = past /\ future' = future /\ generation' = generation
    BY <1>0, <1>4 DEF Serve, page, HistoryTypeOK
  <2>2. \/ running' = [running EXCEPT !.at = "refused"]
        \/ running' = [running EXCEPT !.at = "served", !.gave = Rivals(session, running.call),
                                      !.as = @ \cup {session}]
    BY <1>4 DEF Serve
  <2>3. /\ running'.entry = running.entry /\ running'.gen = running.gen
        /\ running'.as = running.as \/ running'.as = running.as \cup {session}
    BY <2>1, <2>2 DEF Running
  <2>4. RunningAsScope'
    BY <1>0, <2>1, <2>3 DEF RunningAsScope
  <2> QED  BY <1>0, <2>1, <2>4
           DEF CoderInv, QueuedIsUnrun, StacksRunAsScope, RunAsScope
<1>5. CASE Continue
  <2>1. /\ running # NoJob /\ running \in Running
        /\ queue' = queue /\ session' = session /\ scope' = scope
        /\ past' = past /\ future' = future /\ generation' = generation
    BY <1>0, <1>5 DEF Continue, server, page, HistoryTypeOK
  <2>2. PICK c : running' = [running EXCEPT !.call = c, !.at = "sent", !.gave = {},
                               !.todo = TodoAfter(running), !.behind = BehindAfter(running)]
    BY <1>5 DEF Continue
  <2>3. /\ running'.entry = running.entry /\ running'.gen = running.gen
        /\ running'.as = running.as
    BY <2>1, <2>2 DEF Running
  <2>4. RunningAsScope'
    BY <1>0, <2>1, <2>3 DEF RunningAsScope
  <2> QED  BY <1>0, <2>1, <2>4
           DEF CoderInv, QueuedIsUnrun, StacksRunAsScope, RunAsScope
<1>6. CASE Complete
  <2>1. /\ running # NoJob /\ running \in Running /\ running' = NoJob
        /\ queue' = queue /\ session' = session /\ scope' = scope
    BY <1>0, <1>6 DEF Complete, server, page, HistoryTypeOK
  <2>2. ASSUME session = scope  PROVE RunAsScope(past') /\ RunAsScope(future')
    <3> DEFINE e == Finished(running)
    <3>1. RunAsScope(past) /\ RunAsScope(future)
      BY <1>0, <2>2 DEF StacksRunAsScope
    <3>2. CASE ~StillMine(running)
      BY <1>6, <3>1, <3>2 DEF Complete
    <3>3. CASE StillMine(running)
      <4>1. e \in Entry /\ e.as \subseteq {scope}
        BY <1>0, <2>1, <2>2, <3>3, FinishedTypes DEF RunningAsScope, StillMine
      <4> HIDE DEF e
      <4>2. /\ RunAsScope(Pushed(past, e)) /\ RunAsScope(<<e>> \o future)
            /\ RunAsScope(<<>>)
        <5>1. RunAsScope(<<>>)
          BY DEF RunAsScope
        <5> QED  BY <1>0, <3>1, <4>1, <5>1, StacksOfScope
      <4>3. past # <<>> => RunAsScope(Front(past))
        BY <1>0, <3>1, StacksOfScope
      <4>4. future # <<>> => RunAsScope(Tail(future))
        BY <1>0, <3>1, StacksOfScope
      <4>5. /\ running.op = "undo" => past # <<>>
            /\ running.op = "redo" => future # <<>>
        BY <2>1, <3>3 DEF BaseInv, UndoesTheLast, RedoesTheFirst, StillMine
      <4>6. \/ past' = Pushed(past, e) /\ future' = <<>>
            \/ running.op = "undo" /\ past' = Front(past) /\ future' = <<e>> \o future
            \/ running.op = "redo" /\ past' = Pushed(past, e) /\ future' = Tail(future)
        BY <1>6, <3>3 DEF Complete, Record, e
      <4> QED  BY <4>2, <4>3, <4>4, <4>5, <4>6
    <3> QED  BY <3>2, <3>3
  <2> QED  BY <1>0, <2>1, <2>2
           DEF CoderInv, QueuedIsUnrun, StacksRunAsScope, RunAsScope, RunningAsScope
<1>7. CASE Drop
  <2>1. /\ running # NoJob /\ running' = NoJob
        /\ queue' = queue /\ session' = session /\ scope' = scope
    BY <1>7 DEF Drop, server
  <2>2. ASSUME session = scope  PROVE RunAsScope(past') /\ RunAsScope(future')
    <3>1. RunAsScope(past) /\ RunAsScope(future)
      BY <1>0, <2>2 DEF StacksRunAsScope
    <3>2. past' = past \/ (past # <<>> /\ past' = Front(past))
      BY <1>7 DEF Drop, BaseInv, UndoesTheLast, StillMine
    <3>3. future' = future \/ (future # <<>> /\ future' = Tail(future))
      BY <1>7 DEF Drop, BaseInv, RedoesTheFirst, StillMine
    <3> QED  BY <1>0, <3>1, <3>2, <3>3, StacksOfScope
  <2> QED  BY <1>0, <2>1, <2>2
           DEF CoderInv, QueuedIsUnrun, StacksRunAsScope, RunAsScope, RunningAsScope
<1>8. CASE Fail
  BY <1>0, <1>8
     DEF Fail, CoderInv, QueuedIsUnrun, StacksRunAsScope, RunAsScope, RunningAsScope
<1>9. ASSUME NEW c \in Coder, Repoint(c)
      PROVE  CoderInv'
  <2>1. session' # scope' /\ queue' = queue
    BY <1>9 DEF Repoint, hook
  <2> QED  BY <1>0, <2>1 DEF CoderInv, QueuedIsUnrun, StacksRunAsScope, RunningAsScope
<1>10. CASE Refresh
  <2>1. past' = <<>> /\ future' = <<>> /\ queue' = queue /\ running' = running
        /\ generation' = generation + 1
    BY <1>10 DEF Refresh
  <2>2. running # NoJob => running.gen # generation'
    <3>1. running # NoJob => running.gen \in Nat /\ generation \in Nat /\ running.gen <= generation
      BY DEF BaseInv, FromThisPast, HistoryTypeOK, Running
    <3> QED  BY <2>1, <3>1
  <2> QED  BY <1>0, <2>1, <2>2
           DEF CoderInv, QueuedIsUnrun, StacksRunAsScope, RunAsScope, RunningAsScope
<1>11. CASE ServeLate
  BY <1>a, <1>11 DEF ServeLate, page, hook
<1>12. CASE Refetch
  BY <1>a, <1>12 DEF Refetch, server, hook
<1>13. ASSUME NEW c \in Code, Deactivate(c)
       PROVE  CoderInv'
  BY <1>a, <1>13 DEF Deactivate, page, hook
<1>14. CASE DeleteSet
  BY <1>a, <1>14 DEF DeleteSet, page, hook
<1>15. CASE UNCHANGED vars
  BY <1>a, <1>15 DEF vars, server, page, hook
<1> QED
  BY <1>1, <1>2, <1>3, <1>4, <1>5, <1>6, <1>7, <1>8, <1>9, <1>10, <1>11, <1>12, <1>13, <1>14,
     <1>15 DEF HistoryNext, HookNext

\* Once the page and the session agree on the coder, every step that can be
\* undone or redone was run as that coder and as nobody else (useHistory.ts's
\* generation, against useCoderSwitch re-pointing the session first).
THEOREM StacksAreAlwaysTheCoders == HistorySpec => []StacksAreTheCoders
<1>1. HistoryInit => BaseInv /\ CoderInv
  BY BaseHolds, CoderHolds
<1>2. BaseInv /\ CoderInv /\ [HistoryNext]_vars => (BaseInv /\ CoderInv)'
  BY BaseStep, CoderStep
<1>3. BaseInv /\ CoderInv => StacksAreTheCoders
  BY CoderInvSuffices DEF BaseInv
<1> QED  BY <1>1, <1>2, <1>3, PTL DEF HistorySpec

------------------------------------------------------------------------------
(* Each step is in one place *)

\* Pushing a new number onto a stack without it leaves each number once.
LEMMA PushedOnce ==
  ASSUME NEW s \in Seq(Entry), NEW e \in Entry, Once(s), e.n \notin Numbers(s)
  PROVE  Once(Pushed(s, e)) /\ Numbers(Pushed(s, e)) \subseteq Numbers(s) \cup {e.n}
<1>1. PICK d \in {0, 1} :
        /\ Len(Pushed(s, e)) = Len(s) + 1 - d
        /\ \A i \in 1..(Len(s) + 1 - d) :
             Pushed(s, e)[i] = IF i + d <= Len(s) THEN s[i + d] ELSE e
  BY PushedItems
<1>2. Len(s) \in Nat
  BY LenProperties
<1> DEFINE t == Pushed(s, e)
<1>3. ASSUME NEW i \in 1..Len(t)
      PROVE  \/ i + d \in 1..Len(s) /\ t[i].n = s[i + d].n /\ t[i].n \in Numbers(s)
             \/ i + d = Len(s) + 1 /\ t[i].n = e.n
  <2>1. i \in 1..(Len(s) + 1 - d) /\ (i + d \in 1..Len(s) \/ i + d = Len(s) + 1)
    BY <1>1, <1>2
  <2>2. CASE i + d \in 1..Len(s)
    BY <1>1, <1>2, <2>1, <2>2 DEF Numbers
  <2>3. CASE i + d = Len(s) + 1
    <3>1. ~(i + d <= Len(s))
      BY <1>2, <2>3
    <3> QED  BY <1>1, <2>1, <2>3, <3>1
  <2> QED  BY <2>1, <2>2, <2>3
<1>4. Numbers(t) \subseteq Numbers(s) \cup {e.n}
  BY <1>3 DEF Numbers
<1>5. \A i, j \in 1..Len(t) : i + d = j + d => i = j
  BY <1>1, <1>2
<1> HIDE DEF t
<1>6. Once(t)
  <2> SUFFICES ASSUME NEW i \in 1..Len(t), NEW j \in 1..Len(t), t[i].n = t[j].n
               PROVE  i + d = j + d
    BY <1>5 DEF Once
  <2>1. CASE i + d \in 1..Len(s) /\ j + d \in 1..Len(s)
    <3>1. t[i].n = s[i + d].n /\ t[j].n = s[j + d].n
      BY <1>2, <1>3, <2>1
    <3> QED  BY <2>1, <3>1 DEF Once
  <2>2. CASE i + d = Len(s) + 1 /\ j + d = Len(s) + 1
    BY <2>2
  <2> QED  BY <1>3, <2>1, <2>2
<1> QED  BY <1>4, <1>6 DEF t

\* Offering a new number to a stack without it leaves each number once.
LEMMA OfferedOnce ==
  ASSUME NEW s \in Seq(Entry), NEW e \in Entry, Once(s), e.n \notin Numbers(s)
  PROVE  Once(<<e>> \o s) /\ Numbers(<<e>> \o s) \subseteq Numbers(s) \cup {e.n}
<1> DEFINE t == <<e>> \o s
<1>1. /\ Len(t) = Len(s) + 1
      /\ \A i \in 1..(Len(s) + 1) : t[i] = IF i = 1 THEN e ELSE s[i - 1]
  BY OfferedItems
<1>2. Len(s) \in Nat
  BY LenProperties
<1> HIDE DEF t
<1>3. ASSUME NEW i \in 1..Len(t), i # 1
      PROVE  i - 1 \in 1..Len(s) /\ t[i].n = s[i - 1].n /\ t[i].n \in Numbers(s)
  <2>1. i - 1 \in 1..Len(s) /\ i \in 1..(Len(s) + 1)
    BY <1>1, <1>2, <1>3
  <2> QED  BY <1>1, <1>3, <2>1 DEF Numbers
<1>4. 1 \in 1..Len(t) /\ t[1].n = e.n
  BY <1>1, <1>2
<1>5. Numbers(t) \subseteq Numbers(s) \cup {e.n}
  BY <1>3, <1>4 DEF Numbers
<1>6. Once(t)
  <2> SUFFICES ASSUME NEW i \in 1..Len(t), NEW j \in 1..Len(t), t[i].n = t[j].n
               PROVE  i = j
    BY DEF Once
  <2>1. CASE i # 1 /\ j # 1
    <3>1. i - 1 = j - 1
      BY <1>3, <2>1 DEF Once
    <3> QED  BY <3>1
  <2> QED  BY <1>3, <1>4, <2>1
<1> QED  BY <1>5, <1>6 DEF t

\* Taking the last step off a stack takes its number off.
LEMMA FrontOnce ==
  ASSUME NEW s \in Seq(Entry), s # <<>>, Once(s)
  PROVE  /\ Once(Front(s)) /\ Numbers(Front(s)) \subseteq Numbers(s) \ {s[Len(s)].n}
         /\ s[Len(s)].n \in Numbers(s)
<1>1. /\ Len(Front(s)) = Len(s) - 1 /\ Len(s) \in Nat \ {0}
      /\ \A i \in 1..(Len(s) - 1) : Front(s)[i] = s[i]
  BY FrontItems, TailItems
<1>2. Len(s) \in 1..Len(s) /\ \A i \in 1..(Len(s) - 1) : i \in 1..Len(s) /\ i # Len(s)
  BY <1>1
<1>3. Once(Front(s))
  BY <1>1, <1>2 DEF Once
<1>4. ASSUME NEW i \in 1..(Len(s) - 1)
      PROVE  Front(s)[i].n \in Numbers(s) \ {s[Len(s)].n}
  BY <1>1, <1>2 DEF Once, Numbers
<1> QED  BY <1>1, <1>2, <1>3, <1>4 DEF Numbers

\* Taking the first step off a stack takes its number off.
LEMMA TailOnce ==
  ASSUME NEW s \in Seq(Entry), s # <<>>, Once(s)
  PROVE  /\ Once(Tail(s)) /\ Numbers(Tail(s)) \subseteq Numbers(s) \ {s[1].n}
         /\ s[1].n \in Numbers(s)
<1>1. /\ Len(Tail(s)) = Len(s) - 1 /\ Len(s) \in Nat \ {0}
      /\ \A i \in 1..(Len(s) - 1) : Tail(s)[i] = s[i + 1]
  BY TailItems
<1>2. 1 \in 1..Len(s) /\ \A i \in 1..(Len(s) - 1) : i + 1 \in 1..Len(s) /\ i + 1 # 1
  BY <1>1
<1>3. \A i, j \in 1..(Len(s) - 1) : i + 1 = j + 1 => i = j
  OBVIOUS
<1> QED  BY <1>1, <1>2, <1>3 DEF Once, Numbers

\* A job that is queued adds its own number to those that wait, or none.
LEMMA QueuedOnce ==
  ASSUME NEW q \in Seq(Job), NEW job \in Job, WaitingOnce(q),
         job.op = "execute" => job.entry.n \notin Waiting(q)
  PROVE  /\ WaitingOnce(Append(q, job))
         /\ Waiting(Append(q, job)) \subseteq
              Waiting(q) \cup (IF job.op = "execute" THEN {job.entry.n} ELSE {})
<1> DEFINE t == Append(q, job)
<1>1. /\ Len(t) = Len(q) + 1 /\ Len(q) \in Nat
      /\ \A i \in 1..(Len(q) + 1) : t[i] = IF i <= Len(q) THEN q[i] ELSE job
  BY AppendItems, LenProperties
<1> HIDE DEF t
<1>2. ASSUME NEW i \in Acts(t)
      PROVE  \/ i \in Acts(q) /\ t[i].entry.n = q[i].entry.n /\ t[i].entry.n \in Waiting(q)
             \/ i = Len(q) + 1 /\ job.op = "execute" /\ t[i].entry.n = job.entry.n
  <2>1. i \in 1..Len(t) /\ t[i].op = "execute"
    BY DEF Acts
  <2>2. i \in 1..Len(q) \/ i = Len(q) + 1
    BY <1>1, <2>1
  <2>3. CASE i \in 1..Len(q)
    <3>1. t[i] = q[i]
      BY <1>1, <2>3
    <3> QED  BY <2>1, <2>3, <3>1 DEF Acts, Waiting
  <2>4. CASE i = Len(q) + 1
    <3>1. t[i] = job
      BY <1>1, <2>4
    <3> QED  BY <2>1, <2>4, <3>1
  <2> QED  BY <2>2, <2>3, <2>4
<1>3. Waiting(t) \subseteq Waiting(q) \cup (IF job.op = "execute" THEN {job.entry.n} ELSE {})
  BY <1>2 DEF Waiting
<1>4. WaitingOnce(t)
  BY <1>2 DEF WaitingOnce
<1> QED  BY <1>3, <1>4 DEF t

\* The job that starts no longer waits, and no other starts to wait.
LEMMA NextOnce ==
  ASSUME NEW q \in Seq(Job), q # <<>>, WaitingOnce(q)
  PROVE  /\ WaitingOnce(Tail(q)) /\ Waiting(Tail(q)) \subseteq Waiting(q)
         /\ q[1].op = "execute" => q[1].entry.n \in Waiting(q) \ Waiting(Tail(q))
<1> DEFINE t == Tail(q)
<1>1. /\ Len(t) = Len(q) - 1 /\ Len(q) \in Nat \ {0}
      /\ \A i \in 1..(Len(q) - 1) : t[i] = q[i + 1]
  BY TailItems
<1> HIDE DEF t
<1>2. ASSUME NEW i \in Acts(t)
      PROVE  i + 1 \in Acts(q) /\ i + 1 # 1 /\ t[i].entry.n = q[i + 1].entry.n
  <2>1. i \in 1..(Len(q) - 1) /\ t[i].op = "execute"
    BY <1>1 DEF Acts
  <2>2. t[i] = q[i + 1] /\ i + 1 \in 1..Len(q) /\ i + 1 # 1
    BY <1>1, <2>1
  <2> QED  BY <2>1, <2>2 DEF Acts
<1>3. \A i, j \in Acts(t) : i + 1 = j + 1 => i = j
  BY DEF Acts
<1>4. WaitingOnce(t)
  BY <1>2, <1>3 DEF WaitingOnce
<1>5. Waiting(t) \subseteq Waiting(q)
  BY <1>2 DEF Waiting
<1>6. ASSUME q[1].op = "execute"  PROVE q[1].entry.n \in Waiting(q) \ Waiting(t)
  <2>1. 1 \in Acts(q)
    BY <1>1, <1>6 DEF Acts
  <2> QED  BY <1>2, <2>1 DEF Waiting, WaitingOnce
<1> QED  BY <1>4, <1>5, <1>6 DEF t

\* The numbers of the two stacks together are those of each.
LEMMA OnceInvSuffices == HistoryTypeOK /\ OnceInv => EachStepOnce
<1> SUFFICES ASSUME HistoryTypeOK, OnceInv PROVE EachStepOnce
  OBVIOUS
<1>1. past \in Seq(Entry) /\ future \in Seq(Entry) /\ Len(past) \in Nat /\ Len(future) \in Nat
  BY LenProperties DEF HistoryTypeOK
<1>2. /\ Len(Steps) = Len(past) + Len(future)
      /\ \A i \in 1..Len(Steps) :
           Steps[i] = IF i <= Len(past) THEN past[i] ELSE future[i - Len(past)]
  BY <1>1, ConcatProperties DEF Steps
<1>3. ASSUME NEW i \in 1..Len(Steps)
      PROVE  \/ i \in 1..Len(past) /\ Steps[i].n = past[i].n /\ Steps[i].n \in Numbers(past)
             \/ /\ i - Len(past) \in 1..Len(future) /\ Steps[i].n = future[i - Len(past)].n
                /\ Steps[i].n \in Numbers(future)
  <2>1. i \in 1..Len(past) \/ (~(i <= Len(past)) /\ i - Len(past) \in 1..Len(future))
    BY <1>1, <1>2
  <2> QED  BY <1>1, <1>2, <2>1 DEF Numbers
<1>4. ASSUME NEW i \in 1..Len(Steps), NEW j \in 1..Len(Steps), Steps[i].n = Steps[j].n
      PROVE  i = j
  <2>1. Numbers(past) \cap Numbers(future) = {} /\ Once(past) /\ Once(future)
    BY DEF OnceInv
  <2>2. CASE i \in 1..Len(past) /\ j \in 1..Len(past)
    <3>1. Steps[i].n = past[i].n /\ Steps[j].n = past[j].n
      BY <1>1, <1>2, <2>2
    <3> QED  BY <1>4, <2>1, <2>2, <3>1 DEF Once
  <2>3. CASE /\ i - Len(past) \in 1..Len(future) /\ Steps[i].n = future[i - Len(past)].n
             /\ j - Len(past) \in 1..Len(future) /\ Steps[j].n = future[j - Len(past)].n
    <3>1. i - Len(past) = j - Len(past)
      BY <1>4, <2>1, <2>3 DEF Once
    <3> QED  BY <1>1, <1>2, <3>1
  <2> QED  BY <1>3, <1>4, <2>1, <2>2, <2>3
<1>5. ASSUME NEW i \in 1..Len(queue), NEW j \in 1..Len(Steps), queue[i].op = "execute"
      PROVE  queue[i].entry.n # Steps[j].n
  <2>1. queue[i].entry.n \in Waiting(queue)
    BY <1>5 DEF Waiting, Acts
  <2>2. Steps[j].n \in Numbers(past) \cup Numbers(future)
    BY <1>3
  <2> QED  BY <2>1, <2>2 DEF OnceInv
<1> QED  BY <1>4, <1>5 DEF EachStepOnce

\* Initially no step is anywhere.
LEMMA OnceHolds == HistoryInit => OnceInv
<1> SUFFICES ASSUME HistoryInit PROVE OnceInv
  OBVIOUS
<1>1. past = <<>> /\ future = <<>> /\ queue = <<>> /\ running = NoJob
  BY DEF HistoryInit
<1>2. Once(<<>>) /\ Numbers(<<>>) = {} /\ WaitingOnce(<<>>) /\ Waiting(<<>>) = {}
  BY DEF Once, Numbers, WaitingOnce, Waiting, Acts
<1>3. Acting = {}
  BY <1>1 DEF Acting
<1> QED  BY <1>1, <1>2, <1>3 DEF OnceInv

\* A step moves between the queue, its first run and the two stacks, and is
\* nowhere twice: a job is about the entry it takes from the stack it leaves.
LEMMA OnceStep == BaseInv /\ OnceInv /\ [HistoryNext]_vars => OnceInv'
<1> SUFFICES ASSUME BaseInv, OnceInv, [HistoryNext]_vars PROVE OnceInv'
  OBVIOUS
<1>0. /\ HistoryTypeOK /\ past \in Seq(Entry) /\ future \in Seq(Entry) /\ queue \in Seq(Job)
      /\ presses \in Nat
  BY BoundAssumption DEF BaseInv, HistoryTypeOK
<1>a. ASSUME past' = past, future' = future, queue' = queue, presses' = presses,
             Acting' \subseteq Acting
      PROVE  OnceInv'
  <2>1. Numbers(past)' = Numbers(past) /\ Numbers(future)' = Numbers(future)
        /\ Waiting(queue)' = Waiting(queue)
    BY <1>a DEF Numbers, Waiting, Acts
  <2>2. Once(past)' /\ Once(future)' /\ WaitingOnce(queue)'
    BY <1>a DEF OnceInv, Once, WaitingOnce, Acts
  <2> QED  BY <1>a, <2>1, <2>2 DEF OnceInv
<1>b. ASSUME past' = past, future' = future, queue' = queue, presses' = presses, running' = running
      PROVE  OnceInv'
  BY <1>a, <1>b DEF Acting
<1>c. ASSUME NEW r, running # NoJob, running' = r, r.op = running.op, r.entry = running.entry
      PROVE  Acting' \subseteq Acting
  BY <1>c DEF Acting
<1>d. ASSUME queue' = queue, presses' = presses, Acting' = {},
             Once(past'), Once(future'), Numbers(past') \cap Numbers(future') = {},
             Numbers(past') \cup Numbers(future')
               \subseteq Numbers(past) \cup Numbers(future) \cup Acting
      PROVE  OnceInv'
  <2>1. Once(past)' /\ Once(future)'
    BY <1>d DEF Once
  <2>2. Numbers(past)' = Numbers(past') /\ Numbers(future)' = Numbers(future')
    BY DEF Numbers
  <2>3. WaitingOnce(queue)' /\ Waiting(queue)' = Waiting(queue)
    BY <1>d DEF OnceInv, WaitingOnce, Waiting, Acts
  <2> QED  BY <1>d, <2>1, <2>2, <2>3 DEF OnceInv
<1>1. ASSUME NEW on \in Selection, NEW code \in Code, PressCode(on, code)
      PROVE  OnceInv'
  <2> DEFINE job == [op |-> "execute", entry |-> NewEntry(on, code)]
  <2>1. job \in Job /\ job.entry.n = presses + 1 /\ job.op = "execute"
    BY <1>0, <1>1, PressTypes DEF PressCode
  <2>2. /\ queue' = Append(queue, job) /\ presses' = presses + 1
        /\ past' = past /\ future' = future /\ running' = running
    BY <1>1 DEF PressCode
  <2> HIDE DEF job
  <2>3. presses + 1 \notin 1..presses /\ 1..presses \cup {presses + 1} \subseteq 1..(presses + 1)
    BY <1>0
  <2>4. presses + 1 \notin Waiting(queue) /\ WaitingOnce(queue)
    BY <2>3 DEF OnceInv
  <2>5. WaitingOnce(queue') /\ Waiting(queue') \subseteq Waiting(queue) \cup {presses + 1}
    BY <1>0, <2>1, <2>2, <2>4, QueuedOnce
  <2>6. Acting' = Acting
    BY <2>2 DEF Acting
  <2>7. Once(past)' /\ Once(future)' /\ Numbers(past)' = Numbers(past)
        /\ Numbers(future)' = Numbers(future) /\ WaitingOnce(queue)'
        /\ Waiting(queue)' = Waiting(queue')
    BY <2>2, <2>5 DEF OnceInv, Once, Numbers, WaitingOnce, Waiting, Acts
  <2> QED  BY <2>2, <2>3, <2>5, <2>6, <2>7 DEF OnceInv
<1>2. ASSUME NEW op \in {"undo", "redo"}, PressKey(op)
      PROVE  OnceInv'
  <2> DEFINE job == [op |-> op, entry |-> NoEntry]
  <2>1. job \in Job /\ job.op # "execute"
    BY DEF Job
  <2>2. /\ queue' = Append(queue, job) /\ presses' = presses
        /\ past' = past /\ future' = future /\ running' = running
    BY <1>2 DEF PressKey
  <2> HIDE DEF job
  <2>3. WaitingOnce(queue') /\ Waiting(queue') \subseteq Waiting(queue)
    BY <1>0, <2>1, <2>2, QueuedOnce DEF OnceInv
  <2>4. Acting' = Acting
    BY <2>2 DEF Acting
  <2>5. Once(past)' /\ Once(future)' /\ Numbers(past)' = Numbers(past)
        /\ Numbers(future)' = Numbers(future) /\ WaitingOnce(queue)'
        /\ Waiting(queue)' = Waiting(queue')
    BY <2>2, <2>3 DEF OnceInv, Once, Numbers, WaitingOnce, Waiting, Acts
  <2> QED  BY <2>2, <2>3, <2>4, <2>5 DEF OnceInv
<1>3. CASE Start
  <2> DEFINE job == Head(queue)
  <2>1. /\ queue # <<>> /\ queue' = Tail(queue) /\ presses' = presses /\ running = NoJob
        /\ past' = past /\ future' = future
    BY <1>3 DEF Start, bounds
  <2>2. job \in Job /\ job = queue[1]
    BY <1>0, <2>1, TailItems
  <2>3. /\ WaitingOnce(queue') /\ Waiting(queue') \subseteq Waiting(queue)
        /\ job.op = "execute" => job.entry.n \in Waiting(queue) \ Waiting(queue')
    BY <1>0, <2>1, <2>2, NextOnce DEF OnceInv
  <2>4. Acting' = {} \/ (job.op = "execute" /\ Acting' = {job.entry.n})
    <3>1. CASE FirstCalls(job) = {}
      BY <1>3, <2>1, <3>1 DEF Start, Acting
    <3>2. CASE FirstCalls(job) # {}
      <4>1. PICK first \in FirstCalls(job) : running' = Begun(job.op, first[1], first[2])
        BY <1>3, <3>2 DEF Start
      <4>2. first[1] \in Entry /\ first[2] \in Call /\ job.op \in {"execute", "undo", "redo"}
        BY <1>0, <2>2, FirstCallTypes
      <4>3. running'.entry = first[1] /\ running'.op = job.op
        BY <1>0, <4>1, <4>2, BegunTypes
      <4>4. job.op = "execute" => first[1] = job.entry
        BY <1>0, <2>2, FirstCallEntry
      <4> HIDE DEF job
      <4> QED  BY <4>3, <4>4 DEF Acting
    <3> QED  BY <3>1, <3>2
  <2> HIDE DEF job
  <2>5. Once(past)' /\ Once(future)' /\ Numbers(past)' = Numbers(past)
        /\ Numbers(future)' = Numbers(future) /\ WaitingOnce(queue)'
        /\ Waiting(queue)' = Waiting(queue')
    BY <2>1, <2>3 DEF OnceInv, Once, Numbers, WaitingOnce, Waiting, Acts
  <2> QED  BY <2>1, <2>3, <2>4, <2>5 DEF OnceInv
<1>4. CASE Serve
  <2>1. /\ running # NoJob /\ running \in Running
        /\ past' = past /\ future' = future /\ queue' = queue /\ presses' = presses
    BY <1>0, <1>4 DEF Serve, bounds, HistoryTypeOK
  <2>2. \/ running' = [running EXCEPT !.at = "refused"]
        \/ running' = [running EXCEPT !.at = "served", !.gave = Rivals(session, running.call),
                                      !.as = @ \cup {session}]
    BY <1>4 DEF Serve
  <2>3. running'.op = running.op /\ running'.entry = running.entry
    BY <2>1, <2>2 DEF Running
  <2> QED  BY <1>a, <1>c, <2>1, <2>3
<1>5. CASE Continue
  <2>1. /\ running # NoJob /\ running \in Running
        /\ past' = past /\ future' = future /\ queue' = queue /\ presses' = presses
    BY <1>0, <1>5 DEF Continue, bounds, HistoryTypeOK
  <2>2. PICK c : running' = [running EXCEPT !.call = c, !.at = "sent", !.gave = {},
                               !.todo = TodoAfter(running), !.behind = BehindAfter(running)]
    BY <1>5 DEF Continue
  <2>3. running'.op = running.op /\ running'.entry = running.entry
    BY <2>1, <2>2 DEF Running
  <2> QED  BY <1>a, <1>c, <2>1, <2>3
<1>6. CASE Complete
  <2> DEFINE e == Finished(running)
  <2>1. /\ running # NoJob /\ running \in Running /\ running' = NoJob
        /\ queue' = queue /\ presses' = presses
    BY <1>0, <1>6 DEF Complete, bounds, HistoryTypeOK
  <2>2. Acting' = {}
    BY <2>1 DEF Acting
  <2>3. CASE ~StillMine(running)
    BY <1>6, <1>a, <2>1, <2>2, <2>3 DEF Complete
  <2>4. CASE StillMine(running)
    <3>1. e \in Entry /\ e.n = running.entry.n
      BY <2>1, FinishedTypes
    <3>2. \/ running.op = "execute" /\ past' = Pushed(past, e) /\ future' = <<>>
          \/ running.op = "undo" /\ past' = Front(past) /\ future' = <<e>> \o future
          \/ running.op = "redo" /\ past' = Pushed(past, e) /\ future' = Tail(future)
      BY <1>6, <2>4 DEF Complete, Record
    <3> HIDE DEF e
    <3>0. Once(past) /\ Once(future) /\ Numbers(past) \cap Numbers(future) = {}
      BY DEF OnceInv
    <3>3. CASE running.op = "execute" /\ past' = Pushed(past, e) /\ future' = <<>>
      <4>1. Acting = {e.n} /\ e.n \notin Numbers(past)
        BY <2>1, <3>1, <3>3 DEF Acting, OnceInv
      <4>2. Once(Pushed(past, e)) /\ Numbers(Pushed(past, e)) \subseteq Numbers(past) \cup {e.n}
        BY <1>0, <3>0, <3>1, <4>1, PushedOnce
      <4>3. Once(<<>>) /\ Numbers(<<>>) = {}
        BY DEF Once, Numbers
      <4> QED  BY <1>d, <2>1, <2>2, <3>3, <4>1, <4>2, <4>3
    <3>4. CASE running.op = "undo" /\ past' = Front(past) /\ future' = <<e>> \o future
      <4>1. past # <<>> /\ e.n = past[Len(past)].n
        BY <2>1, <2>4, <3>1, <3>4 DEF BaseInv, UndoesTheLast, StillMine
      <4>2. /\ Once(Front(past)) /\ Numbers(Front(past)) \subseteq Numbers(past) \ {e.n}
            /\ e.n \in Numbers(past)
        BY <1>0, <3>0, <4>1, FrontOnce
      <4>3. e.n \notin Numbers(future)
        BY <3>0, <4>2
      <4>4. Once(<<e>> \o future) /\ Numbers(<<e>> \o future) \subseteq Numbers(future) \cup {e.n}
        BY <1>0, <3>0, <3>1, <4>3, OfferedOnce
      <4> QED  BY <1>d, <2>1, <2>2, <3>0, <3>4, <4>2, <4>4
    <3>5. CASE running.op = "redo" /\ past' = Pushed(past, e) /\ future' = Tail(future)
      <4>1. future # <<>> /\ e.n = future[1].n
        BY <2>1, <2>4, <3>1, <3>5 DEF BaseInv, RedoesTheFirst, StillMine
      <4>2. /\ Once(Tail(future)) /\ Numbers(Tail(future)) \subseteq Numbers(future) \ {e.n}
            /\ e.n \in Numbers(future)
        BY <1>0, <3>0, <4>1, TailOnce
      <4>3. e.n \notin Numbers(past)
        BY <3>0, <4>2
      <4>4. Once(Pushed(past, e)) /\ Numbers(Pushed(past, e)) \subseteq Numbers(past) \cup {e.n}
        BY <1>0, <3>0, <3>1, <4>3, PushedOnce
      <4> QED  BY <1>d, <2>1, <2>2, <3>0, <3>5, <4>2, <4>4
    <3> QED  BY <3>2, <3>3, <3>4, <3>5
  <2> QED  BY <2>3, <2>4
<1>7. CASE Drop
  <2>1. /\ running # NoJob /\ running' = NoJob /\ queue' = queue /\ presses' = presses
    BY <1>7 DEF Drop, bounds
  <2>2. Acting' = {} /\ Once(past) /\ Once(future) /\ Numbers(past) \cap Numbers(future) = {}
    BY <2>1 DEF Acting, OnceInv
  <2>3. Once(past') /\ Numbers(past') \subseteq Numbers(past)
    <3>1. past' = past \/ (past # <<>> /\ past' = Front(past))
      BY <1>7 DEF Drop, BaseInv, UndoesTheLast, StillMine
    <3> QED  BY <1>0, <2>2, <3>1, FrontOnce
  <2>4. Once(future') /\ Numbers(future') \subseteq Numbers(future)
    <3>1. future' = future \/ (future # <<>> /\ future' = Tail(future))
      BY <1>7 DEF Drop, BaseInv, RedoesTheFirst, StillMine
    <3> QED  BY <1>0, <2>2, <3>1, TailOnce
  <2> QED  BY <1>d, <2>1, <2>2, <2>3, <2>4
<1>8. CASE Fail
  <2>1. /\ running' = NoJob /\ queue' = queue /\ presses' = presses
        /\ past' = past /\ future' = future
    BY <1>8 DEF Fail
  <2>2. Acting' = {}
    BY <2>1 DEF Acting
  <2> QED  BY <1>a, <2>1, <2>2
<1>9. ASSUME NEW c \in Coder, Repoint(c)
      PROVE  OnceInv'
  BY <1>9, <1>b DEF Repoint, hook
<1>10. CASE Refresh
  <2>1. past' = <<>> /\ future' = <<>> /\ queue' = queue /\ running' = running /\ presses' = presses
    BY <1>10 DEF Refresh, bounds
  <2>2. Once(<<>>) /\ Numbers(<<>>) = {}
    BY DEF Once, Numbers
  <2>3. Acting' = Acting
    BY <2>1 DEF Acting
  <2>4. Once(past)' /\ Once(future)' /\ Numbers(past)' = {} /\ Numbers(future)' = {}
        /\ WaitingOnce(queue)' /\ Waiting(queue)' = Waiting(queue)
    BY <2>1, <2>2 DEF OnceInv, Once, Numbers, WaitingOnce, Waiting, Acts
  <2> QED  BY <2>1, <2>3, <2>4 DEF OnceInv
<1>11. CASE ServeLate
  BY <1>11, <1>b DEF ServeLate, hook, bounds
<1>12. CASE Refetch
  BY <1>12, <1>b DEF Refetch, hook, bounds
<1>13. ASSUME NEW c \in Code, Deactivate(c)
       PROVE  OnceInv'
  BY <1>13, <1>b DEF Deactivate, hook
<1>14. CASE DeleteSet
  BY <1>14, <1>b DEF DeleteSet, hook
<1>15. CASE UNCHANGED vars
  BY <1>15, <1>b DEF vars, hook, bounds
<1> QED
  BY <1>1, <1>2, <1>3, <1>4, <1>5, <1>6, <1>7, <1>8, <1>9, <1>10, <1>11, <1>12, <1>13, <1>14,
     <1>15 DEF HistoryNext, HookNext

\* A step is in one place: never on both stacks, never twice on one, and never on
\* a stack while it waits for its first run (useHistory.ts's queue, and the entry
\* read when its turn comes).
THEOREM EachStepAlwaysOnce == HistorySpec => []EachStepOnce
<1>1. HistoryInit => BaseInv /\ OnceInv
  BY BaseHolds, OnceHolds
<1>2. BaseInv /\ OnceInv /\ [HistoryNext]_vars => (BaseInv /\ OnceInv)'
  BY BaseStep, OnceStep
<1>3. BaseInv /\ OnceInv => EachStepOnce
  BY OnceInvSuffices DEF BaseInv
<1> QED  BY <1>1, <1>2, <1>3, PTL DEF HistorySpec

------------------------------------------------------------------------------
(* An undo of an apply never leaves the coder without a value *)

\* The entries on a stack, and the acts that wait.
Items(s) == {s[i] : i \in 1..Len(s)}
WaitingActs == {job.entry : job \in {j \in Items(queue) : j.op = "execute"}}

\* What is done to a stack or a queue leaves no item there but its own.
LEMMA ItemsOf ==
  ASSUME NEW S, NEW s \in Seq(S)
  PROVE  /\ \A e \in S : /\ Items(Append(s, e)) \subseteq Items(s) \cup {e}
                         /\ Items(Pushed(s, e)) \subseteq Items(s) \cup {e}
                         /\ Items(<<e>> \o s) \subseteq Items(s) \cup {e}
         /\ s # <<>> => /\ Items(Front(s)) \subseteq Items(s) /\ Items(Tail(s)) \subseteq Items(s)
                        /\ Head(s) \in Items(s) /\ s[1] \in Items(s) /\ s[Len(s)] \in Items(s)
<1>0. Len(s) \in Nat
  BY LenProperties
<1>1. ASSUME NEW e \in S  PROVE Items(Append(s, e)) \subseteq Items(s) \cup {e}
  <2>1. /\ Len(Append(s, e)) = Len(s) + 1
        /\ \A i \in 1..(Len(s) + 1) : Append(s, e)[i] = IF i <= Len(s) THEN s[i] ELSE e
    BY AppendItems
  <2>2. \A i \in 1..(Len(s) + 1) : i <= Len(s) => i \in 1..Len(s)
    BY <1>0
  <2> QED  BY <2>1, <2>2 DEF Items
<1>2. ASSUME NEW e \in S  PROVE Items(Pushed(s, e)) \subseteq Items(s) \cup {e}
  <2>1. PICK d \in {0, 1} :
          /\ Len(Pushed(s, e)) = Len(s) + 1 - d
          /\ \A i \in 1..(Len(s) + 1 - d) :
               Pushed(s, e)[i] = IF i + d <= Len(s) THEN s[i + d] ELSE e
    BY PushedItems
  <2>2. \A i \in 1..(Len(s) + 1 - d) : i + d <= Len(s) => i + d \in 1..Len(s)
    BY <1>0, <2>1
  <2> QED  BY <2>1, <2>2 DEF Items
<1>3. ASSUME NEW e \in S  PROVE Items(<<e>> \o s) \subseteq Items(s) \cup {e}
  <2>1. /\ Len(<<e>> \o s) = Len(s) + 1
        /\ \A i \in 1..(Len(s) + 1) : (<<e>> \o s)[i] = IF i = 1 THEN e ELSE s[i - 1]
    BY OfferedItems
  <2>2. \A i \in 1..(Len(s) + 1) : i # 1 => i - 1 \in 1..Len(s)
    BY <1>0
  <2> QED  BY <2>1, <2>2 DEF Items
<1>4. ASSUME s # <<>>
      PROVE  /\ Items(Front(s)) \subseteq Items(s) /\ Items(Tail(s)) \subseteq Items(s)
             /\ Head(s) \in Items(s) /\ s[1] \in Items(s) /\ s[Len(s)] \in Items(s)
  <2>1. /\ Len(Front(s)) = Len(s) - 1 /\ \A i \in 1..(Len(s) - 1) : Front(s)[i] = s[i]
        /\ Len(Tail(s)) = Len(s) - 1 /\ \A i \in 1..(Len(s) - 1) : Tail(s)[i] = s[i + 1]
        /\ Len(s) \in Nat \ {0} /\ Head(s) = s[1]
    BY <1>4, FrontItems, TailItems
  <2>2. 1 \in 1..Len(s) /\ Len(s) \in 1..Len(s)
        /\ \A i \in 1..(Len(s) - 1) : i \in 1..Len(s) /\ i + 1 \in 1..Len(s)
    BY <2>1
  <2> QED  BY <2>1, <2>2 DEF Items
<1> QED  BY <1>1, <1>2, <1>3, <1>4

\* What an act replaced is never the code it applied.
LostIsAnother(e) == \A p \in e.lost : p[2] # e.code
LostInv ==
  /\ \A e \in Items(past) \cup Items(future) \cup WaitingActs : LostIsAnother(e)
  /\ running # NoJob => /\ LostIsAnother(running.entry)
                        /\ \A p \in running.gave : p[2] # running.call.code
                        /\ running.op # "undo" => running.call.code = running.entry.code

\* An inverse's calls are those of its plan, and the targets whose value was put
\* back beside the undone one hold it until the last call.
UndoesAnApply == running # NoJob /\ running.op = "undo" /\ running.entry.kind = "apply"
InverseCall ==
  UndoesAnApply =>
    /\ running.behind \subseteq Replaced(running.entry)
    /\ IF running.call.do = "apply"
       THEN running.call.on = RestoreOn(running.entry, running.call.code)
       ELSE /\ running.call.code = running.entry.code
            /\ running.call.on = RemoveFrom(running.entry) \cup running.behind
IsBack(c, t) == <<t, Restores(running.entry, t)>> \in layer[c]
BehindIsBack ==
  sure /\ UndoesAnApply => \A c \in Coder : running.as \subseteq {c} =>
    /\ \A t \in running.behind : IsBack(c, t)
    /\ running.at = "served" /\ running.call.do = "apply" => \A t \in running.call.on : IsBack(c, t)
NothingLate == sure => late = {}
BackInv == InverseCall /\ BehindIsBack /\ NothingLate

\* The calls of an inverse are those of its plan.
LEMMA PlannedCalls ==
  ASSUME NEW e \in Entry, e.kind = "apply", NEW todo \in SUBSET Code, NEW behind,
         NEW call \in UndoCalls(e, todo, behind)
  PROVE  IF call.do = "apply" THEN call.on = RestoreOn(e, call.code)
         ELSE call.code = e.code /\ call.on = RemoveFrom(e) \cup behind
  BY DEF UndoCalls, CallOf

\* A value to restore is one that was replaced there.
LEMMA RestoredWasLost ==
  ASSUME NEW e \in Entry, NEW t \in Replaced(e)
  PROVE  /\ Restores(e, t) \in Code /\ <<t, Restores(e, t)>> \in e.lost
         /\ t \in RestoreOn(e, Restores(e, t))
<1>1. PICK c \in Code : c \in Lost(e, t)
  BY DEF Replaced, Lost
<1>2. Restores(e, t) \in Lost(e, t)
  BY <1>1 DEF Restores
<1> QED  BY <1>2 DEF Lost, RestoreOn

\* Initially nothing was replaced, and nothing is late.
LEMMA BackHolds == HistoryInit => LostInv /\ BackInv
<1> SUFFICES ASSUME HistoryInit PROVE LostInv /\ BackInv
  OBVIOUS
<1>1. past = <<>> /\ future = <<>> /\ queue = <<>> /\ running = NoJob /\ late = {}
  BY DEF HistoryInit
<1>2. Items(<<>>) = {}
  BY DEF Items
<1>3. Items(past) \cup Items(future) \cup WaitingActs = {}
  BY <1>1, <1>2 DEF WaitingActs
<1> QED
  BY <1>1, <1>3 DEF LostInv, BackInv, InverseCall, BehindIsBack, NothingLate, UndoesAnApply

\* An apply is recorded with what its own call replaced, which is never its code.
LEMMA LostStep == BaseInv /\ LostInv /\ [HistoryNext]_vars => LostInv'
<1> SUFFICES ASSUME BaseInv, LostInv, [HistoryNext]_vars PROVE LostInv'
  OBVIOUS
<1> DEFINE Known == Items(past) \cup Items(future) \cup WaitingActs
<1>0. /\ HistoryTypeOK /\ past \in Seq(Entry) /\ future \in Seq(Entry) /\ queue \in Seq(Job)
      /\ \A e \in Known : LostIsAnother(e)
  BY DEF BaseInv, HistoryTypeOK, LostInv
<1>a. ASSUME past' = past, future' = future, queue' = queue, running' = running
      PROVE  LostInv'
  BY <1>a DEF LostInv, WaitingActs, Items, LostIsAnother
<1>b. ASSUME NEW new,
             \A e \in (Items(past') \cup Items(future')) \ Known : e = new,
             Items(queue') \subseteq Items(queue), LostIsAnother(new),
             running' = NoJob
      PROVE  LostInv'
  <2>1. WaitingActs' \subseteq WaitingActs
    BY <1>b DEF WaitingActs, Items
  <2>2. \A e \in (Items(past') \cup Items(future') \cup WaitingActs') : LostIsAnother(e)
    BY <1>0, <1>b, <2>1
  <2>3. Items(past)' = Items(past') /\ Items(future)' = Items(future')
    BY DEF Items
  <2>4. \A e \in (Items(past) \cup Items(future) \cup WaitingActs)' : LostIsAnother(e)'
    BY <2>2, <2>3 DEF LostIsAnother
  <2> QED  BY <1>b, <2>4 DEF LostInv
<1>1. ASSUME NEW on \in Selection, NEW code \in Code, PressCode(on, code)
      PROVE  LostInv'
  <2> DEFINE job == [op |-> "execute", entry |-> NewEntry(on, code)]
  <2>1. job \in Job /\ LostIsAnother(job.entry)
    <3>1. job.entry.lost = {}
      BY DEF NewEntry
    <3> QED  BY <1>0, <1>1, <3>1, PressTypes DEF PressCode, LostIsAnother
  <2>2. /\ queue' = Append(queue, job)
        /\ past' = past /\ future' = future /\ running' = running
    BY <1>1 DEF PressCode
  <2> HIDE DEF job
  <2>3. Items(queue') \subseteq Items(queue) \cup {job}
    BY <1>0, <2>1, <2>2, ItemsOf
  <2>4. WaitingActs' \subseteq WaitingActs \cup {job.entry}
    BY <2>3 DEF WaitingActs, Items
  <2> QED  BY <1>0, <2>1, <2>2, <2>4 DEF LostInv, Items, LostIsAnother
<1>2. ASSUME NEW op \in {"undo", "redo"}, PressKey(op)
      PROVE  LostInv'
  <2> DEFINE job == [op |-> op, entry |-> NoEntry]
  <2>1. job \in Job /\ job.op # "execute"
    BY DEF Job
  <2>2. /\ queue' = Append(queue, job)
        /\ past' = past /\ future' = future /\ running' = running
    BY <1>2 DEF PressKey
  <2> HIDE DEF job
  <2>3. Items(queue') \subseteq Items(queue) \cup {job}
    BY <1>0, <2>1, <2>2, ItemsOf
  <2>4. WaitingActs' \subseteq WaitingActs
    BY <2>1, <2>3 DEF WaitingActs, Items
  <2> QED  BY <1>0, <2>1, <2>2, <2>4 DEF LostInv, Items, LostIsAnother
<1>3. CASE Start
  <2> DEFINE job == Head(queue)
  <2>1. /\ queue # <<>> /\ queue' = Tail(queue) /\ running = NoJob
        /\ past' = past /\ future' = future
    BY <1>3 DEF Start
  <2>2. job \in Job /\ job \in Items(queue)
    BY <1>0, <2>1, TailItems, ItemsOf
  <2>3. WaitingActs' \subseteq WaitingActs
    <3>1. Items(queue') \subseteq Items(queue)
      BY <1>0, <2>1, ItemsOf
    <3> QED  BY <3>1 DEF WaitingActs, Items
  <2>4. CASE FirstCalls(job) = {}
    <3>1. running' = NoJob
      BY <1>3, <2>1, <2>4 DEF Start
    <3> QED  BY <1>0, <2>1, <2>3, <3>1 DEF LostInv, Items, LostIsAnother
  <2>5. CASE FirstCalls(job) # {}
    <3>1. PICK first \in FirstCalls(job) : running' = Begun(job.op, first[1], first[2])
      BY <1>3, <2>5 DEF Start
    <3>2. first[1] \in Entry /\ first[2] \in Call /\ job.op \in {"execute", "undo", "redo"}
      BY <1>0, <2>2, FirstCallTypes
    <3>3. running'.entry = first[1] /\ running'.op = job.op
      BY <1>0, <3>1, <3>2, BegunTypes
    <3>4. running'.gave = {} /\ running'.call = first[2]
      BY <3>1 DEF Begun
    <3>5. first[1] \in Known
      <4>1. /\ job.op = "execute" => first[1] = job.entry
            /\ job.op = "undo" => past # <<>> /\ first[1] = past[Len(past)]
            /\ job.op = "redo" => future # <<>> /\ first[1] = future[1]
        BY <1>0, <2>2, FirstCallEntry
      <4>2. CASE job.op = "execute"
        BY <2>2, <4>1, <4>2 DEF WaitingActs
      <4>3. CASE job.op = "undo"
        BY <1>0, <4>1, <4>3, ItemsOf
      <4>4. CASE job.op = "redo"
        BY <1>0, <4>1, <4>4, ItemsOf
      <4> QED  BY <3>2, <4>2, <4>3, <4>4
    <3>6. job.op # "undo" => first[2].code = first[1].code
      BY <3>2 DEF FirstCalls, CallOf
    <3> HIDE DEF job
    <3> QED  BY <1>0, <2>1, <2>3, <3>3, <3>4, <3>5, <3>6 DEF LostInv, Items, LostIsAnother
  <2> QED  BY <2>4, <2>5
<1>4. CASE Serve
  <2>1. /\ running # NoJob /\ running \in Running
        /\ past' = past /\ future' = future /\ queue' = queue
    BY <1>0, <1>4 DEF Serve, HistoryTypeOK
  <2> DEFINE rivals == Rivals(session, running.call)
  <2>2. \A p \in rivals : p[2] # running.call.code
    BY DEF Rivals
  <2>3. \/ running' = [running EXCEPT !.at = "refused"]
        \/ running' = [running EXCEPT !.at = "served", !.gave = rivals, !.as = @ \cup {session}]
    BY <1>4 DEF Serve
  <2> HIDE DEF rivals
  <2>4. /\ running'.op = running.op /\ running'.entry = running.entry
        /\ running'.call = running.call
        /\ running'.gave = running.gave \/ running'.gave = rivals
    BY <2>1, <2>3 DEF Running
  <2>5. WaitingActs' = WaitingActs /\ Items(past)' = Items(past) /\ Items(future)' = Items(future)
    BY <2>1 DEF WaitingActs, Items
  <2>6. running' # NoJob => /\ LostIsAnother(running.entry)'
                            /\ \A p \in running'.gave : p[2] # running'.call.code
                            /\ running'.op # "undo" => running'.call.code = running'.entry.code
    BY <2>1, <2>2, <2>4 DEF LostInv, LostIsAnother
  <2> QED  BY <1>0, <2>5, <2>6 DEF LostInv, LostIsAnother
<1>5. CASE Continue
  <2>1. /\ running # NoJob /\ running \in Running
        /\ past' = past /\ future' = future /\ queue' = queue
    BY <1>0, <1>5 DEF Continue, HistoryTypeOK
  <2>2. PICK c : running' = [running EXCEPT !.call = c, !.at = "sent", !.gave = {},
                               !.todo = TodoAfter(running), !.behind = BehindAfter(running)]
    BY <1>5 DEF Continue
  <2>3. /\ running'.op = running.op /\ running'.entry = running.entry /\ running'.gave = {}
    BY <2>1, <2>2 DEF Running
  <2>4. running.op = "undo"
    BY <1>5 DEF Continue, AllDone, IsRestore
  <2>5. WaitingActs' = WaitingActs /\ Items(past)' = Items(past) /\ Items(future)' = Items(future)
    BY <2>1 DEF WaitingActs, Items
  <2> QED  BY <1>0, <2>1, <2>3, <2>4, <2>5 DEF LostInv, LostIsAnother
<1>6. CASE Complete
  <2> DEFINE e == Finished(running)
  <2>1. /\ running # NoJob /\ running \in Running /\ running' = NoJob /\ queue' = queue
    BY <1>0, <1>6 DEF Complete, HistoryTypeOK
  <2>2. LostIsAnother(e)
    <3>1. running.entry \in Entry
      BY <2>1 DEF Running
    <3>2. /\ e.code = running.entry.code
          /\ e.lost = IF running.op # "undo" /\ running.entry.kind = "apply"
                      THEN running.gave ELSE running.entry.lost
      BY <3>1 DEF Finished, Entry
    <3>3. /\ LostIsAnother(running.entry)
          /\ \A p \in running.gave : p[2] # running.call.code
          /\ running.op # "undo" => running.call.code = running.entry.code
      BY <2>1 DEF LostInv
    <3> HIDE DEF e
    <3> QED  BY <3>2, <3>3 DEF LostIsAnother
  <2>3. e \in Entry
    BY <2>1, FinishedTypes
  <2>4. \A d \in Items(past') \cup Items(future') : d \in Known \/ d = e
    <3>1. CASE ~StillMine(running)
      BY <1>6, <3>1 DEF Complete
    <3>2. CASE StillMine(running)
      <4>1. \/ past' = Pushed(past, e) /\ future' = <<>>
            \/ running.op = "undo" /\ past' = Front(past) /\ future' = <<e>> \o future
            \/ running.op = "redo" /\ past' = Pushed(past, e) /\ future' = Tail(future)
        BY <1>6, <3>2 DEF Complete, Record
      <4>2. /\ running.op = "undo" => past # <<>>
            /\ running.op = "redo" => future # <<>>
        BY <2>1, <3>2 DEF BaseInv, UndoesTheLast, RedoesTheFirst, StillMine
      <4>3. Items(<<>>) = {}
        BY DEF Items
      <4> HIDE DEF e
      <4> QED  BY <1>0, <2>3, <4>1, <4>2, <4>3, ItemsOf
    <3> QED  BY <3>1, <3>2
  <2> HIDE DEF e
  <2> QED  BY <1>b, <2>1, <2>2, <2>4
<1>c. ASSUME running # NoJob, running' = NoJob, queue' = queue,
             past' = past \/ (past # <<>> /\ past' = Front(past)),
             future' = future \/ (future # <<>> /\ future' = Tail(future))
      PROVE  LostInv'
  <2>1. Items(past') \subseteq Items(past) /\ Items(future') \subseteq Items(future)
    BY <1>0, <1>c, ItemsOf
  <2>2. LostIsAnother(running.entry)
    BY <1>c DEF LostInv
  <2> QED  BY <1>b, <1>c, <2>1, <2>2
<1>7. CASE Drop
  <2>1. running # NoJob /\ running' = NoJob /\ queue' = queue
    BY <1>7 DEF Drop
  <2>2. past' = past \/ (past # <<>> /\ past' = Front(past))
    BY <1>7 DEF Drop, BaseInv, UndoesTheLast, StillMine
  <2>3. future' = future \/ (future # <<>> /\ future' = Tail(future))
    BY <1>7 DEF Drop, BaseInv, RedoesTheFirst, StillMine
  <2> QED  BY <1>c, <2>1, <2>2, <2>3
<1>8. CASE Fail
  BY <1>8, <1>c DEF Fail
<1>9. CASE Refresh
  <2>1. past' = <<>> /\ future' = <<>> /\ queue' = queue /\ running' = running
    BY <1>9 DEF Refresh
  <2>2. Items(past)' = {} /\ Items(future)' = {} /\ WaitingActs' = WaitingActs
    BY <2>1 DEF Items, WaitingActs
  <2> QED  BY <1>0, <2>1, <2>2 DEF LostInv, LostIsAnother
<1>10. CASE \/ ServeLate \/ Refetch \/ (\E c \in Coder : Repoint(c))
            \/ (\E c \in Code : Deactivate(c)) \/ DeleteSet \/ UNCHANGED vars
  BY <1>10, <1>a DEF ServeLate, Refetch, Repoint, Deactivate, DeleteSet, vars, hook
<1> QED
  BY <1>1, <1>2, <1>3, <1>4, <1>5, <1>6, <1>7, <1>8, <1>9, <1>10 DEF HistoryNext, HookNext
\* What the server does with a call of an inverse: a target holding the value it
\* is owed holds it still, and the call's own targets hold theirs.
LEMMA ServedIsBack ==
  ASSUME BaseInv, LostInv, BackInv, UndoesAnApply, NEW t \in Replaced(running.entry)
  PROVE  LET r == Restores(running.entry, t) IN
         /\ <<t, r>> \in layer[session] => <<t, r>> \in Recoded(session, running.call)
         /\ running.call.do = "apply" /\ t \in running.call.on
              => <<t, r>> \in Recoded(session, running.call)
<1> DEFINE e == running.entry
           call == running.call
           r == Restores(e, t)
<1>1. e \in Entry /\ call \in Call /\ call.do \in {"apply", "remove"}
  BY DEF BaseInv, HistoryTypeOK, UndoesAnApply, Running, Call
<1>2. <<t, r>> \in e.lost /\ r # e.code
  <2>1. <<t, r>> \in e.lost
    BY <1>1, RestoredWasLost
  <2> QED  BY <2>1 DEF LostInv, LostIsAnother, UndoesAnApply
<1>3. CASE call.do = "apply"
  <2>1. call.on = RestoreOn(e, call.code)
    BY <1>3 DEF BackInv, InverseCall
  <2>2. t \in call.on => r = call.code
    BY <2>1 DEF RestoreOn
  <2>3. t \in call.on => <<t, r>> \in On(call.on, call.code)
    BY <1>1, <2>2 DEF On
  <2>4. t \notin call.on => <<t, r>> \notin Rivals(session, call)
    BY DEF Rivals
  <2>5. Recoded(session, call) = (layer[session] \ Rivals(session, call)) \cup On(call.on, call.code)
    BY <1>3 DEF Recoded
  <2> QED  BY <2>3, <2>4, <2>5
<1>4. CASE call.do = "remove"
  <2>1. call.code = e.code
    BY <1>4 DEF BackInv, InverseCall
  <2>2. <<t, r>> \notin On(call.on, call.code)
    BY <1>2, <2>1 DEF On
  <2>3. Recoded(session, call) = layer[session] \ On(call.on, call.code)
    BY <1>4 DEF Recoded
  <2> QED  BY <1>4, <2>2, <2>3
<1> QED  BY <1>1, <1>3, <1>4

\* Between the calls of an inverse nobody else changes what the coder holds.
LEMMA BackStep == BaseInv /\ LostInv /\ BackInv /\ [HistoryNext]_vars => BackInv'
<1> SUFFICES ASSUME BaseInv, LostInv, BackInv, [HistoryNext]_vars PROVE BackInv'
  OBVIOUS
<1>0. HistoryTypeOK /\ InverseCall /\ BehindIsBack /\ NothingLate
  BY DEF BaseInv, BackInv
<1>a. ASSUME running' = NoJob, sure' => late' = {}
      PROVE  BackInv'
  BY <1>a DEF BackInv, InverseCall, BehindIsBack, NothingLate, UndoesAnApply
<1>b. ASSUME running' = running, layer' = layer, sure' => sure, sure' => late' = {}
      PROVE  BackInv'
  <2>1. InverseCall'
    BY <1>0, <1>b DEF InverseCall, UndoesAnApply
  <2>2. BehindIsBack'
    BY <1>0, <1>b DEF BehindIsBack, UndoesAnApply, IsBack
  <2> QED  BY <1>b, <2>1, <2>2 DEF BackInv, NothingLate
<1>1. ASSUME NEW on \in Selection, NEW code \in Code, PressCode(on, code)
      PROVE  BackInv'
  BY <1>0, <1>1, <1>b DEF PressCode, server, NothingLate
<1>2. ASSUME NEW op \in {"undo", "redo"}, PressKey(op)
      PROVE  BackInv'
  BY <1>0, <1>2, <1>b DEF PressKey, server, owed, NothingLate
<1>3. CASE Start
  <2> DEFINE job == Head(queue)
  <2>1. /\ queue # <<>> /\ running = NoJob /\ sure' = sure /\ late' = late /\ layer' = layer
        /\ queue \in Seq(Job)
    BY <1>0, <1>3 DEF Start, server, owed, HistoryTypeOK
  <2>2. job \in Job
    BY <2>1, TailItems
  <2>3. CASE FirstCalls(job) = {}
    <3>1. running' = NoJob
      BY <1>3, <2>1, <2>3 DEF Start
    <3> QED  BY <1>0, <1>a, <2>1, <3>1 DEF NothingLate
  <2>4. CASE FirstCalls(job) # {}
    <3>1. PICK first \in FirstCalls(job) : running' = Begun(job.op, first[1], first[2])
      BY <1>3, <2>4 DEF Start
    <3>2. first[1] \in Entry /\ first[2] \in Call /\ job.op \in {"execute", "undo", "redo"}
      BY <1>0, <2>2, FirstCallTypes
    <3>3. /\ running'.entry = first[1] /\ running'.op = job.op /\ running'.call = first[2]
          /\ running'.behind = {} /\ running'.at = "sent"
      BY <3>1 DEF Begun
    <3>4. ASSUME UndoesAnApply'
          PROVE  IF first[2].do = "apply" THEN first[2].on = RestoreOn(first[1], first[2].code)
                 ELSE first[2].code = first[1].code /\ first[2].on = RemoveFrom(first[1]) \cup {}
      <4>1. job.op = "undo" /\ first[1].kind = "apply"
        BY <3>3, <3>4 DEF UndoesAnApply
      <4>2. first[2] \in UndoCalls(first[1], ToRestore(first[1]), {})
        BY <4>1 DEF FirstCalls
      <4> QED  BY <4>1, <4>2 DEF UndoCalls, CallOf
    <3> HIDE DEF job
    <3>5. InverseCall'
      BY <3>3, <3>4 DEF InverseCall
    <3>6. BehindIsBack'
      BY <3>3 DEF BehindIsBack
    <3> QED  BY <1>0, <2>1, <3>5, <3>6 DEF BackInv, NothingLate
  <2> QED  BY <2>3, <2>4
<1>4. CASE Serve
  <2>1. /\ running # NoJob /\ running \in Running /\ sure' = sure /\ late' = late
        /\ layer \in [Coder -> SUBSET (Target \X Code)] /\ session \in Coder
    BY <1>0, <1>4 DEF Serve, owed, HistoryTypeOK
  <2>2. CASE Refuses(running.call)
    <3>1. running' = [running EXCEPT !.at = "refused"] /\ layer' = layer
      BY <1>4, <2>2 DEF Serve
    <3>2. /\ running'.op = running.op /\ running'.entry = running.entry /\ running'.as = running.as
          /\ running'.call = running.call /\ running'.behind = running.behind
          /\ running'.at = "refused"
      BY <2>1, <3>1 DEF Running
    <3>3. InverseCall'
      BY <1>0, <2>1, <3>2 DEF InverseCall, UndoesAnApply
    <3>4. BehindIsBack'
      BY <1>0, <2>1, <3>1, <3>2 DEF BehindIsBack, UndoesAnApply, IsBack, Restores, Lost
    <3> QED  BY <1>0, <2>1, <3>3, <3>4 DEF BackInv, NothingLate
  <2>3. CASE ~Refuses(running.call)
    <3> DEFINE rivals == Rivals(session, running.call)
               recoded == Recoded(session, running.call)
    <3>1. /\ running' = [running EXCEPT !.at = "served", !.gave = rivals, !.as = @ \cup {session}]
          /\ layer' = [layer EXCEPT ![session] = recoded]
      BY <1>4, <2>3 DEF Serve
    <3> HIDE DEF rivals, recoded
    <3>2. /\ running'.op = running.op /\ running'.entry = running.entry
          /\ running'.as = running.as \cup {session}
          /\ running'.call = running.call /\ running'.behind = running.behind
      BY <2>1, <3>1 DEF Running
    <3>3. InverseCall'
      BY <1>0, <2>1, <3>2 DEF InverseCall, UndoesAnApply
    <3>4. ASSUME sure, UndoesAnApply, NEW c \in Coder, running'.as \subseteq {c}
          PROVE  /\ \A t \in running.behind : <<t, Restores(running.entry, t)>> \in layer'[c]
                 /\ running.call.do = "apply" =>
                      \A t \in running.call.on : <<t, Restores(running.entry, t)>> \in layer'[c]
      <4>1. c = session /\ running.as \subseteq {c} /\ layer'[c] = recoded
        BY <2>1, <3>1, <3>2, <3>4
      <4>2. \A t \in running.behind : IsBack(c, t) /\ t \in Replaced(running.entry)
        BY <1>0, <3>4, <4>1 DEF BehindIsBack, InverseCall
      <4>3. running.call.do = "apply" => running.call.on \subseteq Replaced(running.entry)
        BY <1>0, <3>4 DEF InverseCall, RestoreOn
      <4>4. \A t \in Replaced(running.entry) :
              /\ <<t, Restores(running.entry, t)>> \in layer[session]
                   => <<t, Restores(running.entry, t)>> \in recoded
              /\ running.call.do = "apply" /\ t \in running.call.on
                   => <<t, Restores(running.entry, t)>> \in recoded
        BY <3>4, ServedIsBack DEF recoded
      <4> QED  BY <4>1, <4>2, <4>3, <4>4 DEF IsBack
    <3>5. BehindIsBack'
      BY <2>1, <3>2, <3>4 DEF BehindIsBack, UndoesAnApply, IsBack, Restores, Lost
    <3> QED  BY <1>0, <2>1, <3>3, <3>5 DEF BackInv, NothingLate
  <2> QED  BY <2>2, <2>3
<1>5. CASE Continue
  <2>1. /\ running # NoJob /\ running \in Running /\ running.at = "served"
        /\ sure' = sure /\ late' = late /\ layer' = layer /\ running.entry \in Entry
    BY <1>0, <1>5 DEF Continue, server, owed, HistoryTypeOK, Running
  <2>2. PICK c \in UndoCalls(running.entry, TodoAfter(running), BehindAfter(running)) :
          running' = [running EXCEPT !.call = c, !.at = "sent", !.gave = {},
                                     !.todo = TodoAfter(running), !.behind = BehindAfter(running)]
    BY <1>5 DEF Continue
  <2> DEFINE behind == BehindAfter(running)
  <2>3. /\ running'.op = running.op /\ running'.entry = running.entry /\ running'.as = running.as
        /\ running'.call = c /\ running'.behind = behind /\ running'.at = "sent"
    BY <2>1, <2>2 DEF Running
  <2>4. IsRestore(running) /\ UndoesAnApply
    BY <1>5, <2>1 DEF Continue, AllDone, IsRestore, UndoesAnApply
  <2>5. behind \subseteq running.behind \cup running.call.on
    BY DEF BehindAfter, LeftBehind
  <2>6. running.call.on \subseteq Replaced(running.entry)
    BY <1>0, <2>4 DEF InverseCall, RestoreOn, IsRestore
  <2>7. TodoAfter(running) \in SUBSET Code
    BY <2>1 DEF TodoAfter, Running
  <2>8. IF c.do = "apply" THEN c.on = RestoreOn(running.entry, c.code)
        ELSE c.code = running.entry.code /\ c.on = RemoveFrom(running.entry) \cup behind
    BY <2>1, <2>2, <2>4, <2>7, PlannedCalls DEF UndoesAnApply
  <2>9. behind \subseteq Replaced(running.entry)
    BY <1>0, <2>4, <2>5, <2>6 DEF InverseCall
  <2> HIDE DEF behind
  <2>10. InverseCall'
    BY <2>3, <2>8, <2>9 DEF InverseCall, Replaced, RemoveFrom, RestoreOn, Restores, Lost
  <2>11. ASSUME sure, NEW d \in Coder, running.as \subseteq {d}, NEW t \in behind
         PROVE  IsBack(d, t)
    BY <1>0, <2>1, <2>4, <2>5, <2>11 DEF BehindIsBack, IsRestore
  <2>12. BehindIsBack'
    BY <2>1, <2>3, <2>11 DEF BehindIsBack, IsBack, Restores, Lost
  <2> QED  BY <1>0, <2>1, <2>10, <2>12 DEF BackInv, NothingLate
<1>6. CASE Complete
  BY <1>0, <1>6, <1>a DEF Complete, server, NothingLate
<1>7. CASE Drop
  BY <1>0, <1>7, <1>a DEF Drop, server, NothingLate
<1>8. CASE Fail
  BY <1>8, <1>a DEF Fail
<1>9. CASE ServeLate
  <2>1. ~sure /\ sure' = sure /\ running' = running
    BY <1>0, <1>9 DEF ServeLate, hook, owed, NothingLate
  <2>2. InverseCall'
    BY <1>0, <2>1 DEF InverseCall, UndoesAnApply, Replaced, RemoveFrom, RestoreOn, Restores, Lost
  <2> QED  BY <2>1, <2>2 DEF BackInv, BehindIsBack, NothingLate
<1>10. CASE Refresh
  <2>1. running' = running /\ late' = late /\ sure' = Settled /\ layer' = layer
    BY <1>10 DEF Refresh, server
  <2>2. CASE Settled
    BY <1>a, <2>1, <2>2 DEF Settled
  <2>3. CASE ~Settled
    BY <1>b, <2>1, <2>3
  <2> QED  BY <2>2, <2>3
<1>11. CASE Refetch \/ (\E c \in Coder : Repoint(c)) \/ (\E c \in Code : Deactivate(c)) \/ DeleteSet
            \/ UNCHANGED vars
  <2>1. running' = running /\ layer' = layer /\ sure' = sure /\ late' = late
    BY <1>11 DEF Refetch, Repoint, Deactivate, DeleteSet, vars, server, hook, owed
  <2> QED  BY <1>0, <1>b, <2>1 DEF NothingLate
<1> QED
  BY <1>1, <1>2, <1>3, <1>4, <1>5, <1>6, <1>7, <1>8, <1>9, <1>10, <1>11 DEF HistoryNext, HookNext

\* The inverse of an apply that replaced a value never leaves the coder without any
\* value there, not even between its calls or when one of them fails: runApplyUndo
\* puts the replaced value back before it removes the undone one.
THEOREM AnUndoKeepsAValue == HistorySpec => UndoKeepsAValue
<1> DEFINE Keeps ==
      running # NoJob /\ running.op = "undo" /\ running.entry.kind = "apply"
        /\ running.as \subseteq {session} /\ sure
        => \A c \in {session}, t \in Replaced(running.entry) : Valued(c, t) => Valued(c, t)'
<1>1. HistoryInit => BaseInv /\ LostInv /\ BackInv
  BY BaseHolds, BackHolds
<1>2. BaseInv /\ LostInv /\ BackInv /\ [HistoryNext]_vars => (BaseInv /\ LostInv /\ BackInv)'
  BY BaseStep, LostStep, BackStep
<1>3. BaseInv /\ LostInv /\ BackInv /\ [HistoryNext]_vars => [Keeps]_vars
  <2> SUFFICES ASSUME BaseInv, LostInv, BackInv, [HistoryNext]_vars,
                      UndoesAnApply, running.as \subseteq {session}, sure,
                      NEW t \in Replaced(running.entry), Valued(session, t)
               PROVE  \E code \in Code : <<t, code>> \in layer'[session]
    BY DEF Valued, UndoesAnApply
  <2>0. PICK old \in Code : <<t, old>> \in layer[session]
    BY DEF Valued
  <2>1. CASE layer' = layer
    BY <2>0, <2>1
  <2>2. CASE ServeLate
    BY <2>2 DEF ServeLate, BackInv, NothingLate
  <2>3. CASE Serve /\ layer' # layer
    <3> DEFINE call == running.call
    <3>1. layer' = [layer EXCEPT ![session] = Recoded(session, call)]
      BY <2>3 DEF Serve
    <3>2. layer'[session] = Recoded(session, call)
      BY <3>1 DEF BaseInv, HistoryTypeOK
    <3>3. CASE call.do = "apply" /\ t \in call.on
      <4>1. running.entry \in Entry
        BY DEF UndoesAnApply, BaseInv, HistoryTypeOK, Running
      <4>2. Restores(running.entry, t) \in Code
        BY <4>1, RestoredWasLost
      <4>3. <<t, Restores(running.entry, t)>> \in Recoded(session, call)
        BY <3>3, ServedIsBack
      <4> QED  BY <3>2, <4>2, <4>3
    <3>4. CASE ~(call.do = "apply" /\ t \in call.on)
      <4>1. CASE t \in call.on
        <5>1. call.do # "apply" /\ t \in running.behind
          BY <3>4, <4>1 DEF BackInv, InverseCall, Replaced, RemoveFrom
        <5>2. session \in Coder
          BY DEF BaseInv, HistoryTypeOK
        <5>3. IsBack(session, t)
          BY <5>1, <5>2 DEF BackInv, BehindIsBack
        <5>4. running.entry \in Entry
          BY DEF UndoesAnApply, BaseInv, HistoryTypeOK, Running
        <5>5. Restores(running.entry, t) \in Code
          BY <5>4, RestoredWasLost
        <5>6. <<t, Restores(running.entry, t)>> \in Recoded(session, call)
          BY <5>3, ServedIsBack DEF IsBack
        <5> QED  BY <3>2, <5>5, <5>6
      <4>2. CASE t \notin call.on
        <5>1. <<t, old>> \notin Rivals(session, call) /\ <<t, old>> \notin On(call.on, call.code)
          BY <4>2 DEF Rivals, On
        <5>2. <<t, old>> \in Recoded(session, call)
          BY <2>0, <5>1 DEF Recoded
        <5> QED  BY <3>2, <5>2
      <4> QED  BY <4>1, <4>2
    <3> QED  BY <3>3, <3>4
  <2>4. layer' = layer \/ ServeLate \/ Serve
    BY DEF HistoryNext, HookNext, PressCode, PressKey, Start, Continue, Complete, Drop, Fail,
           Refetch, Repoint, Refresh, Deactivate, DeleteSet, vars, server
  <2> QED  BY <2>1, <2>2, <2>3, <2>4
<1>4. []([Keeps]_vars) => UndoKeepsAValue
  BY PTL DEF UndoKeepsAValue
<1> QED  BY <1>1, <1>2, <1>3, <1>4, PTL DEF HistorySpec
------------------------------------------------------------------------------
(* The calls of a step, and the order of what is queued *)

\* A layer, or what was taken from one, holds one value on a target; an act has
\* replaced nothing before it runs; the history is not longer than it may be.
OneEach(e) == OneValueEach(e.lost)
CallsInv ==
  /\ \A e \in Items(past) \cup Items(future) : OneEach(e)
  /\ \A e \in WaitingActs : e.lost = {}
  /\ together => \A c \in Coder : OneValueEach(layer[c])
  /\ Len(past) + Len(future) <= MaxHistory
  /\ running # NoJob =>
       /\ OneEach(running.entry) /\ OneValueEach(running.gave)
       /\ running.op # "undo" =>
            running.call = CallOf(running.entry.kind, running.entry.code, running.entry.on)
       /\ running.op = "undo" /\ running.entry.kind = "remove" =>
            running.call = CallOf("apply", running.entry.code, running.entry.on)
       /\ running.op = "undo" /\ running.call.do = "remove" => running.todo = {}
       /\ running.op = "execute" => running.entry.lost = {}
       /\ running.at = "served" => running.as # {}

\* While undoing everything owes the codings the stacks began with: what runs
\* belongs to the stacks, and no act is queued behind an undo or a redo.
ActsFirst(q) == \A i, j \in 1..Len(q) : q[j].op = "execute" /\ i <= j => q[i].op = "execute"
OrderInv ==
  /\ base \subseteq Target \X Code
  /\ sure =>
       /\ together => OneValueEach(base)
       /\ running # NoJob => running.gen = generation
       /\ ActsFirst(queue)
       /\ running # NoJob /\ running.op # "execute" => NoActWaits

\* Of values of one set the server keeps one on a target, and reports one.
LEMMA RecodedOneEach ==
  ASSUME NEW c \in Coder, NEW call \in Call, layer[c] \subseteq Target \X Code,
         together => OneValueEach(layer[c])
  PROVE  /\ together => OneValueEach(Recoded(c, call))
         /\ OneValueEach(Rivals(c, call))
<1>1. OneValueEach(Rivals(c, call))
  BY DEF Rivals, OneValueEach
<1>2. ASSUME together  PROVE OneValueEach(Recoded(c, call))
  <2>1. CASE call.do = "remove"
    BY <1>2, <2>1 DEF Recoded, OneValueEach
  <2>2. CASE call.do # "remove"
    <3>1. call.do = "apply"
      BY <2>2 DEF Call
    <3>2. SUFFICES ASSUME NEW p \in Recoded(c, call), NEW q \in Recoded(c, call), p[1] = q[1]
                   PROVE  p = q
      BY DEF OneValueEach
    <3>3. \A r \in On(call.on, call.code) : r = <<r[1], call.code>> /\ r[1] \in call.on
      BY DEF On
    <3>4. Recoded(c, call) = (layer[c] \ Rivals(c, call)) \cup On(call.on, call.code)
      BY <2>2 DEF Recoded
    <3>5. \A r \in layer[c] \ Rivals(c, call) : r[1] \in call.on => r[2] = call.code
      BY <1>2, <3>1 DEF Rivals
    <3>6. CASE p \in On(call.on, call.code) /\ q \in On(call.on, call.code)
      BY <3>2, <3>3, <3>6
    <3>7. CASE p \notin On(call.on, call.code) /\ q \notin On(call.on, call.code)
      BY <1>2, <3>2, <3>4, <3>7 DEF OneValueEach
    <3>8. ASSUME NEW r \in layer[c] \ Rivals(c, call), r \notin On(call.on, call.code),
                 NEW o \in On(call.on, call.code), r[1] = o[1]
          PROVE  r = o
      <4>1. r[1] \in call.on /\ r[2] = call.code
        BY <3>3, <3>5, <3>8
      <4>2. r = <<r[1], r[2]>>
        BY <3>8
      <4> QED  BY <3>8, <4>1, <4>2 DEF On
    <3> QED  BY <3>2, <3>4, <3>6, <3>7, <3>8
  <2> QED  BY <2>1, <2>2
<1> QED  BY <1>1, <1>2

\* The history is never longer than it may be, and is trimmed only when full.
LEMMA PushedBound ==
  ASSUME NEW s \in Seq(Entry), NEW e \in Entry, Len(s) <= MaxHistory
  PROVE  /\ Len(Pushed(s, e)) <= MaxHistory /\ Len(Pushed(s, e)) \in Nat
         /\ Len(s) < MaxHistory => Pushed(s, e) = Append(s, e)
<1>1. Len(s) \in Nat /\ MaxHistory \in Nat /\ Append(s, e) \in Seq(Entry)
      /\ Len(Append(s, e)) = Len(s) + 1
  BY HistoryAssumption, AppendItems, LenProperties
<1>2. Append(s, e) # <<>>
  BY <1>1
<1>3. Len(Tail(Append(s, e))) = Len(s)
  <2>1. Len(Tail(Append(s, e))) = Len(Append(s, e)) - 1
    BY <1>1, <1>2, TailItems
  <2> QED  BY <1>1, <2>1
<1>4. CASE Len(Append(s, e)) > MaxHistory
  <2>1. Pushed(s, e) = Tail(Append(s, e))
    BY <1>4 DEF Pushed
  <2> QED  BY <1>1, <1>3, <1>4, <2>1
<1>5. CASE ~(Len(Append(s, e)) > MaxHistory)
  <2>1. Pushed(s, e) = Append(s, e)
    BY <1>5 DEF Pushed
  <2> QED  BY <1>1, <1>5, <2>1
<1> QED  BY <1>4, <1>5

\* What a job begins with, as it is planned.
LEMMA BegunCalls ==
  ASSUME HistoryTypeOK, NEW job \in Job, NEW first \in FirstCalls(job)
  PROVE  /\ job.op # "undo" =>
              first[2] = CallOf(first[1].kind, first[1].code, first[1].on)
         /\ job.op = "undo" /\ first[1].kind = "remove" =>
              first[2] = CallOf("apply", first[1].code, first[1].on)
         /\ job.op = "undo" /\ first[1].kind = "apply" /\ first[2].do = "remove" =>
              ToRestore(first[1]) = {}
<1>1. job.op \in {"execute", "undo", "redo"}
  BY FirstCallTypes
<1>2. CASE job.op = "execute"
  BY <1>2 DEF FirstCalls
<1>3. CASE job.op = "redo"
  BY <1>3 DEF FirstCalls
<1>4. CASE job.op = "undo"
  <2>1. first[2] \in UndoCalls(first[1], ToRestore(first[1]), {})
    BY <1>4 DEF FirstCalls
  <2> QED  BY <1>4, <2>1 DEF UndoCalls, CallOf
<1> QED  BY <1>1, <1>2, <1>3, <1>4
\* Initially nothing was called.
LEMMA CallsHolds == HistoryInit => CallsInv /\ OrderInv
<1> SUFFICES ASSUME HistoryInit PROVE CallsInv /\ OrderInv
  OBVIOUS
<1>1. past = <<>> /\ future = <<>> /\ queue = <<>> /\ running = NoJob /\ base = layer[session]
      /\ session \in Coder /\ layer \in [Coder -> Begins]
  BY CoderAssumption DEF HistoryInit
<1>2. Items(<<>>) = {} /\ Len(past) = 0 /\ Len(future) = 0 /\ Len(queue) = 0
  BY <1>1 DEF Items
<1>3. Items(past) \cup Items(future) = {} /\ WaitingActs = {}
  BY <1>1, <1>2 DEF WaitingActs
<1>4. \A c \in Coder : layer[c] \in SUBSET (Target \X Code) /\ OneValueEach(layer[c])
  BY <1>1, BeginsAssumption
<1>5. Len(past) + Len(future) <= MaxHistory
  BY <1>2, HistoryAssumption
<1>6. ActsFirst(queue)
  BY <1>2 DEF ActsFirst
<1>7. CallsInv
  BY <1>1, <1>3, <1>4, <1>5 DEF CallsInv
<1> QED  BY <1>1, <1>4, <1>6, <1>7 DEF OrderInv

\* What a step does to the stacks and the queue, seen as sets and lengths.
LEMMA CallsStep == BaseInv /\ CallsInv /\ [HistoryNext]_vars => CallsInv'
<1> SUFFICES ASSUME BaseInv, CallsInv, [HistoryNext]_vars PROVE CallsInv'
  OBVIOUS
<1>0. /\ HistoryTypeOK /\ past \in Seq(Entry) /\ future \in Seq(Entry) /\ queue \in Seq(Job)
      /\ Len(past) \in Nat /\ Len(future) \in Nat /\ MaxHistory \in Nat
  BY LenProperties, HistoryAssumption DEF BaseInv, HistoryTypeOK
<1> DEFINE Called(r) ==
      /\ OneEach(r.entry) /\ OneValueEach(r.gave)
      /\ r.op # "undo" => r.call = CallOf(r.entry.kind, r.entry.code, r.entry.on)
      /\ r.op = "undo" /\ r.entry.kind = "remove" => r.call = CallOf("apply", r.entry.code, r.entry.on)
      /\ r.op = "undo" /\ r.call.do = "remove" => r.todo = {}
      /\ r.op = "execute" => r.entry.lost = {}
      /\ r.at = "served" => r.as # {}
<1>a. ASSUME NEW stacks, Items(past') \cup Items(future') \subseteq stacks,
             \A e \in stacks : OneEach(e),
             Len(past') + Len(future') <= MaxHistory,
             WaitingActs' \subseteq WaitingActs \/ (\A e \in WaitingActs' : e.lost = {}),
             together' => \A c \in Coder : OneValueEach(layer'[c]),
             running' # NoJob => Called(running')
      PROVE  CallsInv'
  <2>1. \A e \in WaitingActs' : e.lost = {}
    BY <1>a DEF CallsInv
  <2>2. \A e \in (Items(past) \cup Items(future))' : OneEach(e)
    BY <1>a DEF Items
  <2>3. (running # NoJob => Called(running))'
    BY <1>a DEF OneEach, OneValueEach
  <2>4. (together => \A c \in Coder : OneValueEach(layer[c]))'
    BY <1>a DEF OneValueEach
  <2>5. (\A e \in WaitingActs : e.lost = {})'
    BY <2>1
  <2>6. (\A e \in Items(past) \cup Items(future) : OneEach(e))'
    BY <2>2 DEF OneEach, OneValueEach
  <2> QED  BY <1>a, <2>3, <2>4, <2>5, <2>6 DEF CallsInv
<1>b. /\ \A e \in Items(past) \cup Items(future) : OneEach(e)
      /\ Len(past) + Len(future) <= MaxHistory
      /\ running # NoJob => Called(running)
      /\ together => \A c \in Coder : OneValueEach(layer[c])
      /\ \A e \in WaitingActs : e.lost = {}
  BY DEF CallsInv
<1> HIDE DEF Called
<1>c. ASSUME past' = past, future' = future, queue' = queue, running' = running,
             together' => together /\ layer' = layer
      PROVE  CallsInv'
  <2>1. WaitingActs' = WaitingActs
    BY <1>c DEF WaitingActs, Items
  <2> QED  BY <1>a, <1>b, <1>c, <2>1
<1>d. \A c \in Coder : layer[c] \in SUBSET (Target \X Code)
  BY <1>0 DEF HistoryTypeOK
<1>1. ASSUME NEW on \in Selection, NEW code \in Code, PressCode(on, code)
      PROVE  CallsInv'
  <2> DEFINE job == [op |-> "execute", entry |-> NewEntry(on, code)]
  <2>1. job \in Job /\ job.entry.lost = {}
    <3>1. job.entry.lost = {}
      BY DEF NewEntry
    <3> QED  BY <1>0, <1>1, <3>1, PressTypes DEF PressCode
  <2>2. /\ queue' = Append(queue, job) /\ layer' = layer /\ together' = together
        /\ past' = past /\ future' = future /\ running' = running
    BY <1>1 DEF PressCode, server
  <2> HIDE DEF job
  <2>3. Items(queue') \subseteq Items(queue) \cup {job}
    BY <1>0, <2>1, <2>2, ItemsOf
  <2>4. \A e \in WaitingActs' : e.lost = {}
    <3>1. WaitingActs' \subseteq WaitingActs \cup {job.entry}
      BY <2>3 DEF WaitingActs, Items
    <3> QED  BY <1>b, <2>1, <3>1
  <2> QED  BY <1>a, <1>b, <2>2, <2>4
<1>2. ASSUME NEW op \in {"undo", "redo"}, PressKey(op)
      PROVE  CallsInv'
  <2> DEFINE job == [op |-> op, entry |-> NoEntry]
  <2>1. job \in Job /\ job.op # "execute"
    BY DEF Job
  <2>2. /\ queue' = Append(queue, job) /\ layer' = layer /\ together' = together
        /\ past' = past /\ future' = future /\ running' = running
    BY <1>2 DEF PressKey, server
  <2> HIDE DEF job
  <2>3. Items(queue') \subseteq Items(queue) \cup {job}
    BY <1>0, <2>1, <2>2, ItemsOf
  <2>4. WaitingActs' \subseteq WaitingActs
    BY <2>1, <2>3 DEF WaitingActs, Items
  <2> QED  BY <1>a, <1>b, <2>2, <2>4
<1>3. CASE Start
  <2> DEFINE job == Head(queue)
  <2>1. /\ queue # <<>> /\ queue' = Tail(queue) /\ running = NoJob
        /\ past' = past /\ future' = future /\ layer' = layer /\ together' = together
    BY <1>3 DEF Start, server
  <2>2. job \in Job /\ job \in Items(queue)
    BY <1>0, <2>1, TailItems, ItemsOf
  <2>3. WaitingActs' \subseteq WaitingActs
    <3>1. Items(queue') \subseteq Items(queue)
      BY <1>0, <2>1, ItemsOf
    <3> QED  BY <3>1 DEF WaitingActs, Items
  <2>4. running' # NoJob => Called(running')
    <3>1. SUFFICES ASSUME FirstCalls(job) # {}  PROVE Called(running')
      BY <1>3, <2>1 DEF Start
    <3>2. PICK first \in FirstCalls(job) : running' = Begun(job.op, first[1], first[2])
      BY <1>3, <3>1 DEF Start
    <3>3. first[1] \in Entry /\ first[2] \in Call /\ job.op \in {"execute", "undo", "redo"}
      BY <1>0, <2>2, FirstCallTypes
    <3>4. /\ running'.entry = first[1] /\ running'.op = job.op /\ running'.call = first[2]
          /\ running'.gave = {} /\ running'.at = "sent"
          /\ running'.todo = IF job.op = "undo" /\ first[1].kind = "apply"
                             THEN ToRestore(first[1]) ELSE {}
      BY <3>2 DEF Begun
    <3>5. /\ job.op # "undo" =>
               first[2] = CallOf(first[1].kind, first[1].code, first[1].on)
          /\ job.op = "undo" /\ first[1].kind = "remove" =>
               first[2] = CallOf("apply", first[1].code, first[1].on)
          /\ job.op = "undo" /\ first[1].kind = "apply" /\ first[2].do = "remove" =>
               ToRestore(first[1]) = {}
      BY <1>0, <2>2, BegunCalls
    <3>6. /\ job.op = "execute" => first[1] = job.entry
          /\ job.op = "undo" => past # <<>> /\ first[1] = past[Len(past)]
          /\ job.op = "redo" => future # <<>> /\ first[1] = future[1]
      BY <1>0, <2>2, FirstCallEntry
    <3>7. OneEach(first[1]) /\ (job.op = "execute" => first[1].lost = {})
      <4>1. CASE job.op = "execute"
        <5>1. first[1].lost = {}
          BY <1>b, <2>2, <3>6, <4>1 DEF WaitingActs
        <5> QED  BY <5>1 DEF OneEach, OneValueEach
      <4>2. CASE job.op = "undo"
        BY <1>0, <1>b, <3>6, <4>2, ItemsOf
      <4>3. CASE job.op = "redo"
        BY <1>0, <1>b, <3>6, <4>3, ItemsOf
      <4> QED  BY <3>3, <4>1, <4>2, <4>3
    <3>8. OneValueEach({}) /\ first[1].kind \in {"apply", "remove"}
      BY <3>3 DEF OneValueEach, Entry
    <3> HIDE DEF job
    <3> QED  BY <3>4, <3>5, <3>7, <3>8 DEF Called
  <2> HIDE DEF job
  <2> QED  BY <1>a, <1>b, <2>1, <2>3, <2>4
<1>e. ASSUME NEW call \in Call,
             layer' = layer \/ layer' = [layer EXCEPT ![session] = Recoded(session, call)],
             together' = together
      PROVE  together' => \A c \in Coder : OneValueEach(layer'[c])
  <2> DEFINE recoded == Recoded(session, call)
  <2>1. session \in Coder /\ layer \in [Coder -> SUBSET (Target \X Code)]
    BY <1>0 DEF HistoryTypeOK
  <2>2. together => OneValueEach(recoded)
    BY <1>b, <1>d, <2>1, RecodedOneEach
  <2> HIDE DEF recoded
  <2>3. \A c \in Coder : layer'[c] = layer[c] \/ layer'[c] = recoded
    BY <1>e, <2>1 DEF recoded
  <2> QED  BY <1>b, <1>e, <2>2, <2>3
<1>4. CASE Serve
  <2>1. /\ running # NoJob /\ running \in Running /\ running.call \in Call
        /\ past' = past /\ future' = future /\ queue' = queue /\ together' = together
        /\ session \in Coder
    BY <1>0, <1>4 DEF Serve, HistoryTypeOK, Running
  <2> DEFINE rivals == Rivals(session, running.call)
  <2>2. OneValueEach(rivals)
    BY <1>b, <1>d, <2>1, RecodedOneEach
  <2>3. \/ running' = [running EXCEPT !.at = "refused"]
        \/ running' = [running EXCEPT !.at = "served", !.gave = rivals, !.as = @ \cup {session}]
    BY <1>4 DEF Serve
  <2> HIDE DEF rivals
  <2>4. /\ running'.op = running.op /\ running'.entry = running.entry
        /\ running'.call = running.call /\ running'.todo = running.todo
        /\ running'.gave = running.gave \/ running'.gave = rivals
        /\ running'.at = "refused" \/ session \in running'.as
    BY <2>1, <2>3 DEF Running
  <2>5. Called(running')
    BY <1>b, <2>1, <2>2, <2>4 DEF Called
  <2>6. together' => \A c \in Coder : OneValueEach(layer'[c])
    BY <1>4, <1>e, <2>1 DEF Serve
  <2>7. WaitingActs' = WaitingActs
    BY <2>1 DEF WaitingActs, Items
  <2> QED  BY <1>a, <1>b, <2>1, <2>5, <2>6, <2>7
<1>5. CASE Continue
  <2>1. /\ running # NoJob /\ running \in Running /\ running.entry \in Entry
        /\ past' = past /\ future' = future /\ queue' = queue /\ together' = together
        /\ layer' = layer
    BY <1>0, <1>5 DEF Continue, server, HistoryTypeOK, Running
  <2>2. PICK c \in UndoCalls(running.entry, TodoAfter(running), BehindAfter(running)) :
          running' = [running EXCEPT !.call = c, !.at = "sent", !.gave = {},
                               !.todo = TodoAfter(running), !.behind = BehindAfter(running)]
    BY <1>5 DEF Continue
  <2>3. /\ running'.op = running.op /\ running'.entry = running.entry /\ running'.gave = {}
        /\ running'.call = c /\ running'.todo = TodoAfter(running) /\ running'.at = "sent"
    BY <2>1, <2>2 DEF Running
  <2>4. running.op = "undo" /\ running.entry.kind = "apply"
    BY <1>5 DEF Continue, AllDone, IsRestore
  <2>5. c.do = "remove" => TodoAfter(running) = {}
    BY <2>2, <2>4 DEF UndoCalls, CallOf
  <2>6. OneValueEach({})
    BY DEF OneValueEach
  <2>7. Called(running')
    BY <1>b, <2>1, <2>3, <2>4, <2>5, <2>6 DEF Called
  <2>8. WaitingActs' = WaitingActs
    BY <2>1 DEF WaitingActs, Items
  <2> QED  BY <1>a, <1>b, <2>1, <2>7, <2>8
<1>6. CASE Complete
  <2> DEFINE e == Finished(running)
  <2>1. /\ running # NoJob /\ running \in Running /\ running' = NoJob /\ queue' = queue
        /\ layer' = layer /\ together' = together
    BY <1>0, <1>6 DEF Complete, server, HistoryTypeOK
  <2>2. e \in Entry
    BY <2>1, FinishedTypes
  <2>3. OneEach(e)
    <3>1. running.entry \in Entry
      BY <2>1 DEF Running
    <3>2. e.lost = IF running.op # "undo" /\ running.entry.kind = "apply"
                   THEN running.gave ELSE running.entry.lost
      BY <3>1 DEF Finished, Entry
    <3> HIDE DEF e
    <3> QED  BY <1>b, <2>1, <3>2 DEF Called, OneEach
  <2>4. WaitingActs' = WaitingActs
    BY <2>1 DEF WaitingActs, Items
  <2>5. /\ Items(past') \cup Items(future') \subseteq Items(past) \cup Items(future) \cup {e}
        /\ Len(past') + Len(future') <= MaxHistory
    <3>1. CASE ~StillMine(running)
      BY <1>6, <1>b, <3>1 DEF Complete
    <3>2. CASE StillMine(running)
      <4>1. \/ past' = Pushed(past, e) /\ future' = <<>>
            \/ running.op = "undo" /\ past' = Front(past) /\ future' = <<e>> \o future
            \/ running.op = "redo" /\ past' = Pushed(past, e) /\ future' = Tail(future)
        BY <1>6, <3>2 DEF Complete, Record
      <4>2. /\ running.op = "undo" => past # <<>>
            /\ running.op = "redo" => future # <<>>
        BY <2>1, <3>2 DEF BaseInv, UndoesTheLast, RedoesTheFirst, StillMine
      <4>3. Items(<<>>) = {} /\ Len(<<>>) = 0
        BY DEF Items
      <4> HIDE DEF e
      <4>4. Len(past) <= MaxHistory
        BY <1>0, <1>b
      <4>5. CASE past' = Pushed(past, e) /\ future' = <<>>
        <5>1. Len(past') <= MaxHistory /\ Len(past') \in Nat
          BY <1>0, <2>2, <4>4, <4>5, PushedBound
        <5>2. Items(past') \subseteq Items(past) \cup {e} /\ Items(future') = {}
          BY <1>0, <2>2, <4>3, <4>5, ItemsOf
        <5>3. Len(past') + Len(future') <= MaxHistory
          BY <4>3, <4>5, <5>1
        <5> QED  BY <5>2, <5>3
      <4>6. CASE running.op = "undo" /\ past' = Front(past) /\ future' = <<e>> \o future
        <5>1. Len(past') = Len(past) - 1 /\ Len(future') = Len(future) + 1
          BY <1>0, <2>2, <4>2, <4>6, FrontItems, OfferedItems
        <5>2. Len(past') + Len(future') <= MaxHistory
          BY <1>0, <1>b, <5>1
        <5> QED  BY <1>0, <2>2, <4>2, <4>6, <5>2, ItemsOf
      <4>7. CASE running.op = "redo" /\ past' = Pushed(past, e) /\ future' = Tail(future)
        <5>1. Len(future') = Len(future) - 1 /\ Len(future) \in Nat \ {0}
          BY <1>0, <4>2, <4>7, TailItems
        <5>2. Len(past) < MaxHistory
          BY <1>0, <1>b, <5>1
        <5>3. past' = Append(past, e)
          BY <1>0, <2>2, <4>4, <4>7, <5>2, PushedBound
        <5>4. Len(past') = Len(past) + 1
          BY <1>0, <2>2, <5>3, AppendItems
        <5>5. Len(past') + Len(future') <= MaxHistory
          BY <1>0, <1>b, <5>1, <5>4
        <5> QED  BY <1>0, <2>2, <4>2, <4>7, <5>5, ItemsOf
      <4> QED  BY <4>1, <4>5, <4>6, <4>7
    <3> QED  BY <3>1, <3>2
  <2> HIDE DEF e
  <2>6. \A d \in Items(past) \cup Items(future) \cup {e} : OneEach(d)
    BY <1>b, <2>3
  <2> QED  BY <1>a, <1>b, <2>1, <2>4, <2>5, <2>6
<1>7. CASE Drop
  <2>1. running # NoJob /\ running' = NoJob /\ queue' = queue /\ layer' = layer
        /\ together' = together
    BY <1>7 DEF Drop, server
  <2>2. past' = past \/ (past # <<>> /\ past' = Front(past))
    BY <1>7 DEF Drop, BaseInv, UndoesTheLast, StillMine
  <2>3. future' = future \/ (future # <<>> /\ future' = Tail(future))
    BY <1>7 DEF Drop, BaseInv, RedoesTheFirst, StillMine
  <2>4. Items(past') \subseteq Items(past) /\ Items(future') \subseteq Items(future)
    BY <1>0, <2>2, <2>3, ItemsOf
  <2>5. Len(past') \in Nat /\ Len(past') <= Len(past)
    BY <1>0, <2>2, FrontItems, EmptySeq
  <2>6. Len(future') \in Nat /\ Len(future') <= Len(future)
    BY <1>0, <2>3, TailItems
  <2>7. Len(past') + Len(future') <= MaxHistory
    BY <1>0, <1>b, <2>5, <2>6
  <2>8. WaitingActs' = WaitingActs
    BY <2>1 DEF WaitingActs, Items
  <2> QED  BY <1>a, <1>b, <2>1, <2>4, <2>7, <2>8
<1>8. CASE Fail
  <2>1. /\ running' = NoJob /\ queue' = queue /\ past' = past /\ future' = future
        /\ layer' = layer /\ together' = together
    BY <1>8 DEF Fail
  <2>2. WaitingActs' = WaitingActs
    BY <2>1 DEF WaitingActs, Items
  <2> QED  BY <1>a, <1>b, <2>1, <2>2
<1>9. CASE ServeLate
  <2>1. PICK call \in late : layer' = IF Refuses(call) THEN layer
                                      ELSE [layer EXCEPT ![session] = Recoded(session, call)]
    BY <1>9 DEF ServeLate
  <2>2. call \in Call /\ together' = together
    BY <1>0, <1>9 DEF ServeLate, HistoryTypeOK
  <2>3. layer' = layer \/ layer' = [layer EXCEPT ![session] = Recoded(session, call)]
    BY <2>1
  <2>4. together' => \A c \in Coder : OneValueEach(layer'[c])
    BY <1>e, <2>2, <2>3
  <2>5. past' = past /\ future' = future /\ queue' = queue /\ running' = running
    BY <1>9 DEF ServeLate, hook
  <2>6. WaitingActs' = WaitingActs
    BY <2>5 DEF WaitingActs, Items
  <2> QED  BY <1>a, <1>b, <2>4, <2>5, <2>6
<1>10. CASE Refresh
  <2>1. /\ past' = <<>> /\ future' = <<>> /\ queue' = queue /\ running' = running
        /\ layer' = layer /\ together' = together
    BY <1>10 DEF Refresh, server
  <2>2. Items(past') = {} /\ Items(future') = {} /\ WaitingActs' = WaitingActs
        /\ Len(past') + Len(future') <= MaxHistory
    BY <1>0, <2>1 DEF Items, WaitingActs
  <2> QED  BY <1>a, <1>b, <2>1, <2>2
<1>11. CASE \/ Refetch \/ (\E c \in Coder : Repoint(c))
            \/ (\E c \in Code : Deactivate(c)) \/ DeleteSet \/ UNCHANGED vars
  BY <1>11, <1>c DEF Refetch, Repoint, Deactivate, DeleteSet, vars, hook, server
<1> QED
  BY <1>1, <1>2, <1>3, <1>4, <1>5, <1>6, <1>7, <1>8, <1>9, <1>10, <1>11 DEF HistoryNext, HookNext
\* What a key adds comes last, and what starts came first.
LEMMA ActsFirstQueue ==
  ASSUME NEW q \in Seq(Job)
  PROVE  /\ ActsFirst(q) => \A job \in Job : job.op # "execute" => ActsFirst(Append(q, job))
         /\ (\A i \in 1..Len(q) : q[i].op = "execute") => \A job \in Job : ActsFirst(Append(q, job))
         /\ ActsFirst(q) /\ q # <<>> =>
              /\ ActsFirst(Tail(q))
              /\ q[1].op # "execute" => \A i \in 1..Len(Tail(q)) : Tail(q)[i].op # "execute"
<1>0. Len(q) \in Nat
  BY LenProperties
<1>1. ASSUME NEW job \in Job
      PROVE  /\ Len(Append(q, job)) = Len(q) + 1
             /\ \A i \in 1..(Len(q) + 1) : \/ i \in 1..Len(q) /\ Append(q, job)[i] = q[i]
                                           \/ i = Len(q) + 1 /\ Append(q, job)[i] = job
  <2>1. /\ Len(Append(q, job)) = Len(q) + 1
        /\ \A i \in 1..(Len(q) + 1) : Append(q, job)[i] = IF i <= Len(q) THEN q[i] ELSE job
    BY AppendItems
  <2>2. \A i \in 1..(Len(q) + 1) : (i \in 1..Len(q) /\ i <= Len(q)) \/ (i = Len(q) + 1 /\ ~(i <= Len(q)))
    BY <1>0
  <2> QED  BY <2>1, <2>2
<1>2. ASSUME ActsFirst(q), NEW job \in Job, job.op # "execute"
      PROVE  ActsFirst(Append(q, job))
  <2> SUFFICES ASSUME NEW i \in 1..(Len(q) + 1), NEW j \in 1..(Len(q) + 1),
                      Append(q, job)[j].op = "execute", i <= j
               PROVE  Append(q, job)[i].op = "execute"
    BY <1>1 DEF ActsFirst
  <2>1. j \in 1..Len(q) /\ Append(q, job)[j] = q[j]
    BY <1>1, <1>2
  <2>2. i \in 1..Len(q) /\ Append(q, job)[i] = q[i]
    BY <1>0, <1>1, <2>1
  <2> QED  BY <1>2, <2>1, <2>2 DEF ActsFirst
<1>3. ASSUME \A i \in 1..Len(q) : q[i].op = "execute", NEW job \in Job
      PROVE  ActsFirst(Append(q, job))
  <2> SUFFICES ASSUME NEW i \in 1..(Len(q) + 1), NEW j \in 1..(Len(q) + 1),
                      Append(q, job)[j].op = "execute", i <= j
               PROVE  Append(q, job)[i].op = "execute"
    BY <1>1 DEF ActsFirst
  <2>1. CASE i = Len(q) + 1
    <3>1. j = i
      BY <1>0, <2>1
    <3> QED  BY <3>1
  <2>2. CASE i # Len(q) + 1
    BY <1>1, <1>3, <2>2
  <2> QED  BY <2>1, <2>2
<1>4. ASSUME ActsFirst(q), q # <<>>
      PROVE  /\ ActsFirst(Tail(q))
             /\ q[1].op # "execute" => \A i \in 1..Len(Tail(q)) : Tail(q)[i].op # "execute"
  <2>1. /\ Len(Tail(q)) = Len(q) - 1 /\ \A i \in 1..(Len(q) - 1) : Tail(q)[i] = q[i + 1]
        /\ Len(q) \in Nat \ {0}
    BY <1>4, TailItems
  <2>2. \A i \in 1..(Len(q) - 1) : i + 1 \in 1..Len(q) /\ 1 \in 1..Len(q) /\ 1 <= i + 1
    BY <2>1
  <2>3. \A i, j \in 1..(Len(q) - 1) : i <= j => i + 1 <= j + 1
    BY <2>1
  <2> QED  BY <1>4, <2>1, <2>2, <2>3 DEF ActsFirst
<1> QED  BY <1>2, <1>3, <1>4

\* An act is pressed over nothing that would undo or redo, or owes nothing from then on.
LEMMA OrderStep == BaseInv /\ CallsInv /\ OrderInv /\ [HistoryNext]_vars => OrderInv'
<1> SUFFICES ASSUME BaseInv, CallsInv, OrderInv, [HistoryNext]_vars PROVE OrderInv'
  OBVIOUS
<1>0. HistoryTypeOK /\ queue \in Seq(Job) /\ base \in SUBSET (Target \X Code)
  BY DEF BaseInv, HistoryTypeOK, OrderInv
<1>1. ASSUME NEW on \in Selection, NEW code \in Code, PressCode(on, code)
      PROVE  OrderInv'
  <2> DEFINE job == [op |-> "execute", entry |-> NewEntry(on, code)]
  <2>1. job \in Job /\ job.op = "execute"
    BY <1>0, <1>1, PressTypes DEF PressCode
  <2>2. /\ queue' = Append(queue, job) /\ together' = together /\ base' = base
        /\ running' = running /\ generation' = generation /\ sure' = (sure /\ ~Outdated)
    BY <1>1 DEF PressCode, server
  <2> HIDE DEF job
  <2>3. ASSUME sure'
        PROVE  /\ sure /\ \A i \in 1..Len(queue) : queue[i].op = "execute"
               /\ running # NoJob => running.op = "execute"
    BY <2>2, <2>3 DEF Outdated
  <2>4. sure' => ActsFirst(queue')
    BY <1>0, <2>1, <2>2, <2>3, ActsFirstQueue
  <2> QED  BY <2>2, <2>3, <2>4 DEF OrderInv, OneValueEach, ActsFirst
<1>2. ASSUME NEW op \in {"undo", "redo"}, PressKey(op)
      PROVE  OrderInv'
  <2> DEFINE job == [op |-> op, entry |-> NoEntry]
  <2>1. job \in Job /\ job.op # "execute"
    BY DEF Job
  <2>2. /\ queue' = Append(queue, job) /\ together' = together /\ base' = base
        /\ running' = running /\ generation' = generation /\ sure' = sure
    BY <1>2 DEF PressKey, server, owed
  <2> HIDE DEF job
  <2>3. sure => ActsFirst(queue')
    BY <1>0, <2>1, <2>2, ActsFirstQueue DEF OrderInv
  <2>4. NoActWaits => NoActWaits'
    BY <1>0, <2>1, <2>2, AppendItems DEF NoActWaits
  <2> QED  BY <2>2, <2>3, <2>4 DEF OrderInv, OneValueEach, ActsFirst
<1>3. CASE Start
  <2> DEFINE job == Head(queue)
  <2>1. /\ queue # <<>> /\ queue' = Tail(queue) /\ running = NoJob
        /\ together' = together /\ base' = base /\ generation' = generation /\ sure' = sure
    BY <1>3 DEF Start, server, owed
  <2>2. job \in Job /\ job = queue[1]
    BY <1>0, <2>1, TailItems
  <2>3. sure => /\ ActsFirst(queue')
                /\ job.op # "execute" => \A i \in 1..Len(queue') : queue'[i].op # "execute"
    BY <1>0, <2>1, <2>2, ActsFirstQueue DEF OrderInv
  <2>4. running' # NoJob => running'.op = job.op /\ running'.gen = generation
    <3>1. SUFFICES ASSUME FirstCalls(job) # {}  PROVE running'.op = job.op /\ running'.gen = generation
      BY <1>3, <2>1 DEF Start
    <3>2. PICK first \in FirstCalls(job) : running' = Begun(job.op, first[1], first[2])
      BY <1>3, <3>1 DEF Start
    <3> QED  BY <3>2 DEF Begun
  <2> HIDE DEF job
  <2> QED  BY <2>1, <2>3, <2>4 DEF OrderInv, OneValueEach, ActsFirst, NoActWaits
<1>a. ASSUME running' # NoJob => /\ running # NoJob /\ running'.op = running.op
                                 /\ running'.gen = running.gen,
             queue' = queue, base' = base, generation' = generation,
             together' => together, sure' => sure
      PROVE  OrderInv'
  BY <1>a DEF OrderInv, OneValueEach, ActsFirst, NoActWaits
<1>4. CASE Serve
  <2>1. running # NoJob /\ running \in Running
    BY <1>0, <1>4 DEF Serve, HistoryTypeOK
  <2>2. \/ running' = [running EXCEPT !.at = "refused"]
        \/ running' = [running EXCEPT !.at = "served", !.gave = Rivals(session, running.call),
                                      !.as = @ \cup {session}]
    BY <1>4 DEF Serve
  <2>3. running'.op = running.op /\ running'.gen = running.gen
    BY <2>1, <2>2 DEF Running
  <2> QED  BY <1>4, <1>a, <2>1, <2>3 DEF Serve, owed
<1>5. CASE Continue
  <2>1. running # NoJob /\ running \in Running
    BY <1>0, <1>5 DEF Continue, HistoryTypeOK
  <2>2. PICK c : running' = [running EXCEPT !.call = c, !.at = "sent", !.gave = {},
                               !.todo = TodoAfter(running), !.behind = BehindAfter(running)]
    BY <1>5 DEF Continue
  <2>3. running'.op = running.op /\ running'.gen = running.gen
    BY <2>1, <2>2 DEF Running
  <2> QED  BY <1>5, <1>a, <2>1, <2>3 DEF Continue, server, owed
<1>6. CASE Complete \/ Drop \/ Fail
  <2>1. running' = NoJob /\ queue' = queue /\ base' = base /\ generation' = generation
        /\ together' = together
    BY <1>6 DEF Complete, Drop, Fail, server
  <2>2. sure' => sure
    BY <1>6 DEF Complete, Drop, Fail
  <2> QED  BY <1>a, <2>1, <2>2
<1>7. CASE Refresh
  <2>1. /\ base' = layer[session] /\ sure' = Settled /\ queue' = queue /\ running' = running
        /\ together' = together
    BY <1>7 DEF Refresh, server
  <2>2. session \in Coder /\ layer[session] \in SUBSET (Target \X Code)
    BY <1>0 DEF HistoryTypeOK
  <2>3. together => OneValueEach(layer[session])
    BY <2>2 DEF CallsInv
  <2> DEFINE l == layer[session]
  <2> HIDE DEF l
  <2>4. base' = l /\ (together => OneValueEach(l)) /\ l \subseteq Target \X Code
    BY <2>1, <2>2, <2>3 DEF l
  <2>5. Settled => running = NoJob /\ \A i \in 1..Len(queue) : queue[i].op # "execute"
    BY DEF Settled, NoActWaits
  <2> QED  BY <2>1, <2>4, <2>5 DEF OrderInv, OneValueEach, ActsFirst
<1>8. CASE \/ ServeLate \/ Refetch \/ (\E c \in Coder : Repoint(c))
           \/ (\E c \in Code : Deactivate(c)) \/ DeleteSet \/ UNCHANGED vars
  BY <1>8, <1>a DEF ServeLate, Refetch, Repoint, Deactivate, DeleteSet, vars, server, hook, owed
<1> QED
  BY <1>1, <1>2, <1>3, <1>4, <1>5, <1>6, <1>7, <1>8 DEF HistoryNext, HookNext
------------------------------------------------------------------------------
(* Undoing everything puts the coder's codings back *)

\* What the page knew of a target when the key was pressed: whether it held the
\* code.
Knew(e, t) == e.kind = "remove" \/ t \in e.held
\* The codings an undo of the entry sets: those of its own code where the page
\* did not know it held, and what the server had replaced there.
Undoes(e) == IF e.kind = "remove" THEN On(e.on, e.code)
             ELSE On(e.on \ e.held, e.code) \cup {p \in e.lost : p[1] \in e.on \ e.held}
Below(s, k) == UNION {Undoes(s[i]) : i \in 1..(k - 1)}
Touched(s) == UNION {Undoes(s[i]) : i \in 1..Len(s)}
BelowQueued(q, k) == UNION {Undoes(q[i].entry) : i \in {j \in 1..(k - 1) : q[j].op = "execute"}}

\* An entry whose inverse would set a coding otherwise than it was when the
\* stacks began is above one whose inverse sets it, too: the undo below has the
\* last word.
Fits(e, below) ==
  /\ \A t \in e.on : (<<t, e.code>> \in base <=> Knew(e, t)) \/ <<t, e.code>> \in below
  /\ \A p \in e.lost : p[1] \in e.on \ e.held => p \in base \cup below
\* While the codes are values of one set, the value a target had when the stacks
\* began is set by an undo, if one sets anything there.
Covers(e, touched) == \A p \in Undoes(e), q \in base : q[1] = p[1] => q \in touched

\* Being above more is no harder.
LEMMA FitsAboveMore ==
  ASSUME NEW e, NEW b, NEW c, Fits(e, b), b \subseteq c
  PROVE  Fits(e, c)
  BY DEF Fits

\* What is below an entry, one entry at a time.
LEMMA BelowParts ==
  ASSUME NEW s \in Seq(Entry)
  PROVE  /\ Below(s, 1) = {} /\ Below(s, Len(s) + 1) = Touched(s)
         /\ \A k \in 1..Len(s) : Below(s, k + 1) = Below(s, k) \cup Undoes(s[k])
         /\ \A k \in 1..(Len(s) + 1) : Below(s, k) \subseteq Touched(s)
<1>0. Len(s) \in Nat
  BY LenProperties
<1>1. Below(s, 1) = {}
  <2>1. 1..(1 - 1) = {}
    OBVIOUS
  <2> QED  BY <2>1 DEF Below
<1>2. Below(s, Len(s) + 1) = Touched(s)
  <2>1. 1..((Len(s) + 1) - 1) = 1..Len(s)
    BY <1>0
  <2> QED  BY <2>1 DEF Below, Touched
<1>3. ASSUME NEW k \in 1..Len(s)
      PROVE  Below(s, k + 1) = Below(s, k) \cup Undoes(s[k])
  <2>1. 1..((k + 1) - 1) = 1..(k - 1) \cup {k}
    BY <1>0
  <2> QED  BY <2>1 DEF Below
<1>4. ASSUME NEW k \in 1..(Len(s) + 1)
      PROVE  Below(s, k) \subseteq Touched(s)
  <2>1. 1..(k - 1) \subseteq 1..Len(s)
    BY <1>0
  <2> QED  BY <2>1 DEF Below, Touched
<1> QED  BY <1>1, <1>2, <1>3, <1>4

\* An entry added on top is above all the others.
LEMMA BelowAppended ==
  ASSUME NEW s \in Seq(Entry), NEW e \in Entry
  PROVE  /\ Touched(Append(s, e)) = Touched(s) \cup Undoes(e)
         /\ \A k \in 1..(Len(s) + 1) : Below(Append(s, e), k) = Below(s, k)
<1>0. /\ Len(s) \in Nat /\ Len(Append(s, e)) = Len(s) + 1 /\ Append(s, e) \in Seq(Entry)
      /\ \A i \in 1..(Len(s) + 1) : Append(s, e)[i] = IF i <= Len(s) THEN s[i] ELSE e
  BY LenProperties, AppendItems
<1>1. \A i \in 1..Len(s) : Append(s, e)[i] = s[i]
  BY <1>0
<1>2. Append(s, e)[Len(s) + 1] = e
  BY <1>0
<1>3. ASSUME NEW k \in 1..(Len(s) + 1)
      PROVE  Below(Append(s, e), k) = Below(s, k)
  <2>1. 1..(k - 1) \subseteq 1..Len(s)
    BY <1>0
  <2> QED  BY <1>1, <2>1 DEF Below
<1>4. Touched(Append(s, e)) = Touched(s) \cup Undoes(e)
  <2>1. 1..(Len(s) + 1) = 1..Len(s) \cup {Len(s) + 1}
    BY <1>0
  <2> QED  BY <1>0, <1>1, <1>2, <2>1 DEF Touched
<1> QED  BY <1>3, <1>4

\* Taking the top entry off leaves what was below it.
LEMMA BelowFront ==
  ASSUME NEW s \in Seq(Entry), s # <<>>
  PROVE  /\ Touched(Front(s)) = Below(s, Len(s))
         /\ Touched(s) = Touched(Front(s)) \cup Undoes(s[Len(s)])
         /\ \A k \in 1..Len(s) : Below(Front(s), k) = Below(s, k)
<1>0. /\ Len(s) \in Nat \ {0} /\ Len(Front(s)) = Len(s) - 1
      /\ \A i \in 1..(Len(s) - 1) : Front(s)[i] = s[i]
  BY FrontItems, EmptySeq
<1>1. ASSUME NEW k \in 1..Len(s)
      PROVE  Below(Front(s), k) = Below(s, k)
  <2>1. 1..(k - 1) \subseteq 1..(Len(s) - 1)
    BY <1>0
  <2> QED  BY <1>0, <2>1 DEF Below
<1>2. Touched(Front(s)) = Below(s, Len(s))
  BY <1>0 DEF Below, Touched
<1>3. Touched(s) = Below(s, Len(s)) \cup Undoes(s[Len(s)])
  <2>1. Len(s) \in 1..Len(s)
    BY <1>0
  <2> QED  BY <2>1, BelowParts
<1> QED  BY <1>1, <1>2, <1>3

\* What the first entry adds to what is below the others.
LEMMA BelowTail ==
  ASSUME NEW s \in Seq(Entry), s # <<>>, NEW k \in 1..Len(s)
  PROVE  Below(s, k + 1) = Undoes(s[1]) \cup Below(Tail(s), k)
<1>0. /\ Len(s) \in Nat \ {0} /\ \A i \in 1..(Len(s) - 1) : Tail(s)[i] = s[i + 1]
  BY TailItems
<1>1. ASSUME NEW p, p \in Below(s, k + 1)  PROVE p \in Undoes(s[1]) \cup Below(Tail(s), k)
  <2>1. PICK i \in 1..((k + 1) - 1) : p \in Undoes(s[i])
    BY <1>1 DEF Below
  <2>2. CASE i = 1
    BY <2>1, <2>2
  <2>3. CASE i # 1
    <3>1. i - 1 \in 1..(k - 1) /\ i - 1 \in 1..(Len(s) - 1) /\ (i - 1) + 1 = i
      BY <1>0, <2>1, <2>3
    <3>2. Tail(s)[i - 1] = s[i]
      BY <1>0, <3>1
    <3> QED  BY <2>1, <3>1, <3>2 DEF Below
  <2> QED  BY <2>2, <2>3
<1>2. ASSUME NEW p, p \in Undoes(s[1])  PROVE p \in Below(s, k + 1)
  <2>1. 1 \in 1..((k + 1) - 1)
    OBVIOUS
  <2> QED  BY <1>2, <2>1 DEF Below
<1>3. ASSUME NEW p, p \in Below(Tail(s), k)  PROVE p \in Below(s, k + 1)
  <2>1. PICK i \in 1..(k - 1) : p \in Undoes(Tail(s)[i])
    BY <1>3 DEF Below
  <2>2. i + 1 \in 1..((k + 1) - 1) /\ i \in 1..(Len(s) - 1)
    BY <1>0, <2>1
  <2>3. Tail(s)[i] = s[i + 1]
    BY <1>0, <2>2
  <2> QED  BY <2>1, <2>2, <2>3 DEF Below
<1> QED  BY <1>1, <1>2, <1>3

\* An entry offered before the others is below them.
LEMMA BelowOffered ==
  ASSUME NEW s \in Seq(Entry), NEW e \in Entry, NEW k \in 1..(Len(s) + 1)
  PROVE  Below(<<e>> \o s, k + 1) = Undoes(e) \cup Below(s, k)
<1> DEFINE t == <<e>> \o s
<1>0. /\ t \in Seq(Entry) /\ Len(t) = Len(s) + 1 /\ Len(s) \in Nat
      /\ \A i \in 1..(Len(s) + 1) : t[i] = IF i = 1 THEN e ELSE s[i - 1]
  BY OfferedItems, LenProperties
<1> HIDE DEF t
<1>1. t # <<>> /\ t[1] = e /\ k \in 1..Len(t)
  BY <1>0
<1>2. Below(t, k + 1) = Undoes(e) \cup Below(Tail(t), k)
  BY <1>0, <1>1, BelowTail
<1>3. \A i \in 1..(k - 1) : Tail(t)[i] = s[i]
  <2>1. \A i \in 1..(Len(t) - 1) : Tail(t)[i] = t[i + 1]
    BY <1>0, <1>1, TailItems
  <2>2. \A i \in 1..(k - 1) : i \in 1..(Len(t) - 1) /\ i + 1 \in 1..(Len(s) + 1) /\ i + 1 # 1
                              /\ (i + 1) - 1 = i
    BY <1>0
  <2> QED  BY <1>0, <2>1, <2>2
<1>4. Below(Tail(t), k) = Below(s, k)
  BY <1>3 DEF Below
<1> QED  BY <1>2, <1>4 DEF t

\* What is below an act that waits, when one is added after it or one before it
\* starts.
LEMMA BelowWaiting ==
  ASSUME NEW q \in Seq(Job)
  PROVE  /\ BelowQueued(q, 1) = {}
         /\ \A job \in Job, k \in 1..(Len(q) + 1) :
              BelowQueued(Append(q, job), k) = BelowQueued(q, k)
         /\ q # <<>> /\ q[1].op = "execute" =>
              \A k \in 1..(Len(q) - 1) :
                BelowQueued(q, k + 1) \subseteq Undoes(q[1].entry) \cup BelowQueued(Tail(q), k)
<1>0. Len(q) \in Nat
  BY LenProperties
<1>1. BelowQueued(q, 1) = {}
  <2>1. 1..(1 - 1) = {}
    OBVIOUS
  <2> QED  BY <2>1 DEF BelowQueued
<1>2. ASSUME NEW job \in Job, NEW k \in 1..(Len(q) + 1)
      PROVE  BelowQueued(Append(q, job), k) = BelowQueued(q, k)
  <2>1. \A i \in 1..(k - 1) : i \in 1..Len(q) /\ i \in 1..(Len(q) + 1) /\ i <= Len(q)
    BY <1>0
  <2>2. \A i \in 1..(k - 1) : Append(q, job)[i] = q[i]
    BY <2>1, AppendItems
  <2> QED  BY <2>2 DEF BelowQueued
<1>3. ASSUME q # <<>>, q[1].op = "execute", NEW k \in 1..(Len(q) - 1),
             NEW p, p \in BelowQueued(q, k + 1)
      PROVE  p \in Undoes(q[1].entry) \cup BelowQueued(Tail(q), k)
  <2>0. /\ Len(q) \in Nat \ {0} /\ \A i \in 1..(Len(q) - 1) : Tail(q)[i] = q[i + 1]
    BY <1>3, TailItems
  <2>1. PICK i \in 1..((k + 1) - 1) : q[i].op = "execute" /\ p \in Undoes(q[i].entry)
    BY <1>3 DEF BelowQueued
  <2>2. CASE i = 1
    BY <2>1, <2>2
  <2>3. CASE i # 1
    <3>1. i - 1 \in 1..(k - 1) /\ i - 1 \in 1..(Len(q) - 1) /\ (i - 1) + 1 = i
      BY <2>0, <2>1, <2>3
    <3>2. Tail(q)[i - 1] = q[i]
      BY <2>0, <3>1
    <3> QED  BY <2>1, <3>1, <3>2 DEF BelowQueued
  <2> QED  BY <2>2, <2>3
<1> QED  BY <1>1, <1>2, <1>3
\* What an act's own call changes is set by undoing it, or by an undo below it.
Closed(touched) == \A p \in touched, q \in base : q[1] = p[1] => q \in touched
SameBut(touched, layerOf) ==
  \A p \in Target \X Code : p \in touched \/ (p \in layerOf <=> p \in base)
LEMMA ActLands ==
  ASSUME HistoryTypeOK, base \subseteq Target \X Code, together => OneValueEach(base),
         NEW e \in Entry, NEW f \in Entry, NEW touched,
         f.kind = e.kind, f.on = e.on, f.code = e.code, f.held = e.held,
         f.lost = IF e.kind = "apply" THEN Rivals(scope, CallOf(e.kind, e.code, e.on)) ELSE e.lost,
         Fits(e, touched), together => Closed(touched), SameBut(touched, layer[scope])
  PROVE  /\ Fits(f, touched)
         /\ together => Covers(f, touched \cup Undoes(f))
         /\ SameBut(touched \cup Undoes(f), Recoded(scope, CallOf(e.kind, e.code, e.on)))
<1> DEFINE call == CallOf(e.kind, e.code, e.on)
           rivals == Rivals(scope, call)
<1>0. /\ e.kind \in {"apply", "remove"} /\ e.on \in SUBSET Target /\ e.code \in Code
      /\ layer[scope] \in SUBSET (Target \X Code)
  BY DEF Entry, HistoryTypeOK
<1>1. call.do = e.kind /\ call.code = e.code /\ call.on = e.on
  BY DEF CallOf
<1> HIDE DEF call
<1>2. \A p \in rivals : together /\ p \in layer[scope] /\ p[1] \in e.on /\ p[2] # e.code
                        /\ p \in Target \X Code /\ e.kind = "apply"
  BY <1>0, <1>1 DEF Rivals
<1>3. \A p \in layer[scope] : together /\ e.kind = "apply" /\ p[1] \in e.on /\ p[2] # e.code => p \in rivals
  BY <1>1 DEF Rivals
<1>4. \A p \in rivals : p \in base \/ p \in touched
  BY <1>2 DEF SameBut
<1>5. f.lost = IF e.kind = "apply" THEN rivals ELSE e.lost
  BY DEF call
<1> HIDE DEF rivals
<1>6. Fits(f, touched)
  BY <1>0, <1>4, <1>5 DEF Fits, Knew
<1>7. \A t \in e.on : <<t, e.code>> \in Target \X Code
  BY <1>0
<1>8. ASSUME together, NEW p \in Undoes(f), NEW q \in base, q[1] = p[1],
             q \in Target \X Code
      PROVE  q \in touched \cup Undoes(f)
  <2>1. CASE e.kind = "remove"
    <3>1. PICK t \in e.on : p = <<t, e.code>>
      BY <1>8, <2>1 DEF Undoes, On
    <3>2. CASE p \in base
      BY <1>8, <3>2 DEF OneValueEach
    <3>3. CASE p \notin base
      <4>1. p \in touched
        BY <2>1, <3>1, <3>3 DEF Fits, Knew
      <4> QED  BY <1>8, <4>1 DEF Closed
    <3> QED  BY <3>2, <3>3
  <2>2. CASE e.kind = "apply"
    <3>1. p[1] \in e.on \ e.held
      BY <1>8, <2>2 DEF Undoes, On
    <3>2. CASE q[2] = e.code
      <4>1. q = <<p[1], e.code>>
        BY <1>8, <3>2
      <4>2. q \in On(f.on \ f.held, f.code)
        BY <3>1, <4>1 DEF On
      <4> QED  BY <2>2, <4>2 DEF Undoes
    <3>3. CASE q[2] # e.code
      <4>1. q \in touched \/ q \in layer[scope]
        BY <1>8 DEF SameBut
      <4>2. q \in layer[scope] => q \in f.lost
        BY <1>3, <1>5, <1>8, <2>2, <3>1, <3>3
      <4> QED  BY <1>8, <2>2, <3>1, <4>1, <4>2 DEF Undoes
    <3> QED  BY <3>2, <3>3
  <2> QED  BY <1>0, <2>1, <2>2
<1>9. ASSUME NEW p \in Target \X Code, p \notin touched, p \notin Undoes(f)
      PROVE  p \in Recoded(scope, call) <=> p \in base
  <2>0. (p \in layer[scope] <=> p \in base) /\ p = <<p[1], p[2]>>
    BY <1>9 DEF SameBut
  <2>1. CASE e.kind = "remove"
    <3>1. p \notin On(e.on, e.code)
      BY <1>9, <2>1 DEF Undoes
    <3> QED  BY <1>1, <2>0, <2>1, <3>1 DEF Recoded
  <2>2. CASE e.kind = "apply"
    <3>1. Recoded(scope, call) = (layer[scope] \ rivals) \cup On(e.on, e.code)
      BY <1>1, <2>2 DEF Recoded, rivals
    <3>2. CASE p[1] \notin e.on
      <4>1. p \notin On(e.on, e.code) /\ p \notin rivals
        BY <1>2, <3>2 DEF On
      <4> QED  BY <2>0, <3>1, <4>1
    <3>3. CASE p[1] \in e.on \ e.held
      <4>1. p[2] # e.code
        <5>1. p \notin On(e.on \ e.held, e.code)
          BY <1>9, <2>2 DEF Undoes
        <5> QED  BY <2>0, <3>3, <5>1 DEF On
      <4>2. p \notin On(e.on, e.code)
        BY <4>1 DEF On
      <4>3. p \notin rivals
        BY <1>5, <1>9, <2>2, <3>3 DEF Undoes
      <4> QED  BY <2>0, <3>1, <4>2, <4>3
    <3>4. CASE p[1] \in e.on \cap e.held
      <4> DEFINE own == <<p[1], e.code>>
      <4>1. own \in base \/ own \in touched
        BY <2>2, <3>4 DEF Fits, Knew
      <4>2. CASE p[2] = e.code
        <5>1. p = own
          BY <2>0, <4>2
        <5>2. p \in On(e.on, e.code)
          BY <3>4, <5>1 DEF On
        <5> QED  BY <1>9, <3>1, <4>1, <5>1, <5>2
      <4>3. CASE p[2] # e.code
        <5>1. p \notin On(e.on, e.code)
          BY <4>3 DEF On
        <5>2. p \notin rivals
          <6>1. SUFFICES ASSUME p \in rivals  PROVE FALSE
            OBVIOUS
          <6>2. together /\ p \in base
            BY <1>2, <1>4, <1>9, <6>1
          <6>3. own \notin base
            BY <4>3, <6>2 DEF OneValueEach
          <6>4. own \in touched
            BY <4>1, <6>3
          <6> QED  BY <1>9, <6>2, <6>4 DEF Closed
        <5> QED  BY <2>0, <3>1, <5>1, <5>2
      <4> QED  BY <4>2, <4>3
    <3> QED  BY <3>2, <3>3, <3>4
  <2> QED  BY <1>0, <2>1, <2>2
<1>10. together => Covers(f, touched \cup Undoes(f))
  <2> SUFFICES ASSUME together, NEW p \in Undoes(f), NEW q \in base, q[1] = p[1]
               PROVE  q \in touched \cup Undoes(f)
    BY DEF Covers
  <2>1. q \in Target \X Code
    OBVIOUS
  <2> QED  BY <1>8, <2>1
<1> QED  BY <1>6, <1>9, <1>10 DEF SameBut, call
\* A call of an inverse changes nothing but what the undo sets, and at a target
\* whose value of the set an undo sets anyway.
LEMMA UndoLands ==
  ASSUME HistoryTypeOK, NEW e \in Entry, NEW touched, NEW call \in Call,
         Undoes(e) \subseteq touched, together => Closed(touched), SameBut(touched, layer[scope]),
         \/ e.kind = "remove" /\ call = CallOf("apply", e.code, e.on)
         \/ e.kind = "apply" /\ call.do = "apply" /\ call.on = RestoreOn(e, call.code)
         \/ e.kind = "apply" /\ call.do = "remove" /\ call.code = e.code
            /\ call.on \subseteq e.on \ e.held
  PROVE  SameBut(touched, Recoded(scope, call))
<1>1. layer[scope] \in SUBSET (Target \X Code)
  BY DEF HistoryTypeOK
<1>2. On(call.on, call.code) \subseteq Undoes(e)
  <2>1. CASE e.kind = "remove" /\ call = CallOf("apply", e.code, e.on)
    BY <2>1 DEF Undoes, CallOf
  <2>2. CASE e.kind = "apply" /\ call.do = "remove" /\ call.code = e.code
             /\ call.on \subseteq e.on \ e.held
    BY <2>2 DEF Undoes, On
  <2>3. CASE e.kind = "apply" /\ call.do = "apply" /\ call.on = RestoreOn(e, call.code)
    <3>1. SUFFICES ASSUME NEW t \in call.on  PROVE <<t, call.code>> \in Undoes(e)
      BY DEF On
    <3>2. t \in Replaced(e) /\ Restores(e, t) = call.code
      BY <2>3, <3>1 DEF RestoreOn
    <3>3. <<t, call.code>> \in e.lost
      BY <3>2, RestoredWasLost
    <3>4. t \in e.on \ e.held
      BY <3>2 DEF Replaced
    <3> QED  BY <2>3, <3>3, <3>4 DEF Undoes
  <2> QED  BY <2>1, <2>2, <2>3
<1>3. ASSUME NEW p \in Rivals(scope, call)
      PROVE  p \in touched
  <2>1. together /\ p \in layer[scope] /\ p \in Target \X Code /\ p[1] \in call.on
    BY <1>1, <1>3 DEF Rivals
  <2>2. <<p[1], call.code>> \in touched
    BY <1>2, <2>1 DEF On
  <2>3. p \in base => p \in touched
    BY <2>1, <2>2 DEF Closed
  <2> QED  BY <2>1, <2>3 DEF SameBut
<1>4. ASSUME NEW p \in Target \X Code, p \notin touched
      PROVE  p \in Recoded(scope, call) <=> p \in layer[scope]
  <2>1. p \notin On(call.on, call.code) /\ p \notin Rivals(scope, call)
    BY <1>2, <1>3, <1>4
  <2> QED  BY <2>1 DEF Recoded
<1> QED  BY <1>4 DEF SameBut

\* How far an undo has come: a replaced value that is not to be restored any more
\* is back, and the undone value is gone there or is still to be removed.
IsDone(t) == \/ Restores(running.entry, t) \notin running.todo
             \/ running.at = "served" /\ running.call.do = "apply" /\ t \in running.call.on
IsBehind(t) == \/ t \in running.behind
               \/ running.at = "served" /\ running.call.do = "apply" /\ t \in LeftBehind(running)
UndoProgress ==
  UndoesAnApply =>
    /\ \A t \in Replaced(running.entry) : IsDone(t) =>
         /\ <<t, Restores(running.entry, t)>> \in layer[scope]
         /\ <<t, running.entry.code>> \in layer[scope] => IsBehind(t)
    /\ running.at = "served" /\ running.call.do = "remove" =>
         \A t \in running.call.on : <<t, running.entry.code>> \notin layer[scope]
RemoveUndone ==
  running # NoJob /\ running.op = "undo" /\ running.entry.kind = "remove" /\ running.at = "served"
    => On(running.entry.on, running.entry.code) \subseteq layer[scope]

\* When an undo is over, what it sets and no undo below it does is as it was when
\* the stacks began.
LEMMA UndoneLands ==
  ASSUME BaseInv, LostInv, BackInv, CallsInv, UndoProgress, RemoveUndone,
         running # NoJob, running.op = "undo", running.at = "served", AllDone(running),
         NEW touched, Fits(running.entry, touched),
         SameBut(touched \cup Undoes(running.entry), layer[scope])
  PROVE  SameBut(touched, layer[scope])
<1> DEFINE e == running.entry
           l == layer[scope]
<1>0. /\ e \in Entry /\ e.kind \in {"apply", "remove"} /\ running.call.do \in {"apply", "remove"}
      /\ running.call.code \in Code
  BY DEF BaseInv, HistoryTypeOK, Running, Entry, Call
<1>1. SUFFICES ASSUME NEW p \in Target \X Code, p \notin touched, p \in Undoes(e)
               PROVE  p \in l <=> p \in base
  BY DEF SameBut
<1>2. CASE e.kind = "remove"
  <2>1. PICK t \in e.on : p = <<t, e.code>>
    BY <1>1, <1>2 DEF Undoes, On
  <2>2. p \in base
    BY <1>1, <1>2, <2>1 DEF Fits, Knew
  <2>3. p \in l
    <3>1. p \in On(e.on, e.code)
      BY <1>1, <1>2 DEF Undoes
    <3> QED  BY <1>2, <3>1 DEF RemoveUndone
  <2> QED  BY <2>2, <2>3
<1>3. CASE e.kind = "apply"
  <2>0. UndoesAnApply
    BY <1>3 DEF UndoesAnApply
  <2>a. \A t \in Replaced(e) : IsDone(t) =>
          /\ <<t, Restores(e, t)>> \in l
          /\ <<t, e.code>> \in l => IsBehind(t)
    BY <2>0 DEF UndoProgress
  <2>b. \A t \in Replaced(e) : Restores(e, t) \in Code /\ t \in RestoreOn(e, Restores(e, t))
                               /\ <<t, Restores(e, t)>> \in e.lost
    BY <1>0, RestoredWasLost
  <2>1. \A t \in Replaced(e) : IsDone(t)
    <3>1. CASE running.call.do = "remove"
      <4>1. running.todo = {}
        BY <3>1 DEF CallsInv
      <4> QED  BY <4>1 DEF IsDone
    <3>2. CASE running.call.do = "apply"
      <4>1. IsRestore(running)
        BY <1>3, <3>2 DEF IsRestore
      <4>2. running.todo \ {running.call.code} = {}
        BY <4>1 DEF AllDone, TodoAfter
      <4>3. running.call.on = RestoreOn(e, running.call.code)
        BY <2>0, <3>2 DEF BackInv, InverseCall
      <4>4. ASSUME NEW t \in Replaced(e), Restores(e, t) \in running.todo
            PROVE  t \in running.call.on
        <5>1. Restores(e, t) = running.call.code
          BY <4>2, <4>4
        <5> QED  BY <2>b, <4>3, <5>1
      <4> QED  BY <3>2, <4>4 DEF IsDone
    <3> QED  BY <1>0, <3>1, <3>2
  <2>2. ASSUME NEW t \in e.on \ e.held
        PROVE  <<t, e.code>> \notin l
    <3>1. CASE running.call.do = "remove"
      <4>1. running.call.on = RemoveFrom(e) \cup running.behind
        BY <2>0, <3>1 DEF BackInv, InverseCall
      <4>2. \A u \in running.call.on : <<u, e.code>> \notin l
        BY <2>0, <3>1 DEF UndoProgress
      <4>3. t \in RemoveFrom(e) \/ t \in Replaced(e)
        BY <2>2 DEF RemoveFrom, Replaced
      <4>4. t \in Replaced(e) /\ <<t, e.code>> \in l => t \in running.behind
        BY <2>1, <2>a, <3>1 DEF IsBehind
      <4> QED  BY <4>1, <4>2, <4>3, <4>4
    <3>2. CASE running.call.do = "apply"
      <4>1. IsRestore(running)
        BY <1>3, <3>2 DEF IsRestore
      <4>2. RemoveFrom(e) = {} /\ running.behind = {} /\ LeftBehind(running) = {}
        BY <4>1 DEF AllDone, BehindAfter
      <4>3. t \in Replaced(e)
        BY <2>2, <4>2 DEF RemoveFrom, Replaced
      <4> QED  BY <2>1, <2>a, <4>2, <4>3 DEF IsBehind
    <3> QED  BY <1>0, <3>1, <3>2
  <2>3. CASE p \in On(e.on \ e.held, e.code)
    <3>1. PICK t \in e.on \ e.held : p = <<t, e.code>>
      BY <2>3 DEF On
    <3>2. p \notin base
      BY <1>1, <1>3, <3>1 DEF Fits, Knew
    <3> QED  BY <2>2, <3>1, <3>2
  <2>4. CASE p \in e.lost /\ p[1] \in e.on \ e.held
    <3>1. p \in base
      BY <1>1, <2>4 DEF Fits
    <3>2. p = <<p[1], p[2]>> /\ p[2] \in Code
      BY <1>1
    <3>3. p[1] \in Replaced(e)
      BY <2>4, <3>2 DEF Replaced, Lost
    <3>4. <<p[1], Restores(e, p[1])>> \in e.lost
      BY <2>b, <3>3
    <3>5. p = <<p[1], Restores(e, p[1])>>
      <4> DEFINE q == <<p[1], Restores(e, p[1])>>
      <4>1. q \in e.lost /\ q[1] = p[1]
        BY <3>4
      <4>2. OneValueEach(e.lost)
        BY DEF CallsInv, OneEach
      <4> HIDE DEF q
      <4>3. p = q
        BY <2>4, <4>1, <4>2 DEF OneValueEach
      <4> QED  BY <4>3 DEF q
    <3>6. p \in l
      BY <2>1, <2>a, <3>3, <3>5
    <3> QED  BY <3>1, <3>6
  <2> QED  BY <1>1, <1>3, <2>3, <2>4 DEF Undoes
<1> QED  BY <1>0, <1>2, <1>3

\* A redo sets at least what it set before, if it still replaces what it replaced
\* or had replaced nothing.
LEMMA StillUndoes ==
  ASSUME NEW e \in Entry, NEW f \in Entry, NEW touched,
         f.kind = e.kind, f.on = e.on, f.code = e.code, f.held = e.held,
         together \/ e.lost = {}, Fits(e, touched),
         together => Covers(f, touched \cup Undoes(f))
  PROVE  Undoes(e) \subseteq touched \cup Undoes(f)
<1>1. CASE e.kind = "remove"
  BY <1>1 DEF Undoes
<1>2. CASE e.kind # "remove"
  <2>1. On(e.on \ e.held, e.code) \subseteq Undoes(f)
    BY <1>2 DEF Undoes
  <2>2. ASSUME NEW p \in e.lost, p[1] \in e.on \ e.held
        PROVE  p \in touched \cup Undoes(f)
    <3>1. p \in base \/ p \in touched
      BY <2>2 DEF Fits
    <3>2. <<p[1], e.code>> \in Undoes(f) /\ together
      BY <2>1, <2>2 DEF On
    <3> QED  BY <3>1, <3>2 DEF Covers
  <2> QED  BY <1>2, <2>1, <2>2 DEF Undoes
<1> QED  BY <1>1, <1>2
\* What the stacks, the act under way and those that wait would undo, above what
\* was there when the stacks began.
InAct == running # NoJob /\ running.op = "execute"
Landed == running # NoJob /\ running.op # "undo" /\ running.at = "served"
ActUndoes == IF InAct THEN Undoes(running.entry) ELSE {}
LandedUndoes == IF Landed THEN Undoes(Finished(running)) ELSE {}
PastFits(s) == \A k \in 1..Len(s) : Fits(s[k], Below(s, k))
PastCovers(s) == \A k \in 1..Len(s) : Covers(s[k], Below(s, k + 1))
FutureFits(s, t) == \A k \in 1..Len(t) : Fits(t[k], Touched(s) \cup Below(t, k))
QueueFits(q, below) ==
  \A k \in 1..Len(q) : q[k].op = "execute" => Fits(q[k].entry, below \cup BelowQueued(q, k))
LandedFits ==
  Landed => /\ Fits(Finished(running), Touched(past))
            /\ together => Covers(Finished(running), Touched(past) \cup LandedUndoes)

\* Off what some undo sets, the coder's codings are those the stacks began with,
\* and so is what the page shows under an act that found it up to date.
Owed ==
  /\ PastFits(past) /\ FutureFits(past, future) /\ (together => PastCovers(past))
  /\ InAct => Fits(running.entry, Touched(past))
  /\ QueueFits(queue, Touched(past) \cup ActUndoes)
  /\ LandedFits
  /\ SameBut(Touched(past) \cup LandedUndoes, layer[scope])
  /\ InAct /\ running.fresh => SameBut(Touched(past) \cup ActUndoes, seen[scope])
  /\ UndoProgress /\ RemoveUndone
OwesInv == sure /\ session = scope => Owed

\* The value a target had at first is set by an undo, if one sets anything there.
LEMMA PastCloses ==
  ASSUME NEW s \in Seq(Entry), PastCovers(s)
  PROVE  Closed(Touched(s))
<1> SUFFICES ASSUME NEW p \in Touched(s), NEW q \in base, q[1] = p[1]
             PROVE  q \in Touched(s)
  BY DEF Closed
<1>1. PICK k \in 1..Len(s) : p \in Undoes(s[k])
  BY DEF Touched
<1>2. q \in Below(s, k + 1)
  BY <1>1 DEF PastCovers, Covers
<1>3. k + 1 \in 1..(Len(s) + 1)
  BY LenProperties
<1> QED  BY <1>2, <1>3, BelowParts

\* An undo's progress when its call is served: what the call restores is back, what
\* it did not report is behind, and what was done stays done.
LEMMA ServedProgress ==
  ASSUME BaseInv, LostInv, BackInv, UndoesAnApply, UndoProgress, running.at = "sent",
         session = scope, scope' = scope,
         layer' = [layer EXCEPT ![session] = Recoded(session, running.call)],
         running' = [running EXCEPT !.at = "served", !.gave = Rivals(session, running.call),
                                    !.as = @ \cup {session}]
  PROVE  UndoProgress'
<1> DEFINE e == running.entry
           call == running.call
           c == e.code
           l == layer[scope]
           recoded == Recoded(scope, call)
           rivals == Rivals(scope, call)
<1>0. /\ running \in Running /\ scope \in Coder /\ layer \in [Coder -> SUBSET (Target \X Code)]
      /\ e \in Entry /\ call \in Call
  BY DEF BaseInv, HistoryTypeOK, UndoesAnApply, Running
<1>1. call.do \in {"apply", "remove"} /\ InverseCall
  BY <1>0 DEF Call, BackInv
<1>2. layer'[scope] = recoded
  BY <1>0
<1>3. /\ running'.op = running.op /\ running'.entry = e /\ running'.call = call
      /\ running'.behind = running.behind /\ running'.todo = running.todo
      /\ running'.at = "served" /\ running'.gave = rivals
  <2> HIDE DEF rivals
  <2>1. running' = [running EXCEPT !.at = "served", !.gave = rivals, !.as = @ \cup {session}]
    BY DEF rivals
  <2> QED  BY <1>0, <2>1 DEF Running
<1>4. \A t \in Replaced(e) :
        LET r == Restores(e, t) IN
        /\ <<t, r>> \in l => <<t, r>> \in recoded
        /\ call.do = "apply" /\ t \in call.on => <<t, r>> \in recoded
  BY ServedIsBack
<1>5. \A t \in Replaced(e) : Restores(e, t) \notin running.todo =>
        <<t, Restores(e, t)>> \in l /\ (<<t, c>> \in l => t \in running.behind)
  BY DEF UndoProgress, IsDone, IsBehind
<1>6. ASSUME NEW t \in Replaced(e),
             \/ Restores(e, t) \notin running.todo
             \/ call.do = "apply" /\ t \in call.on
      PROVE  /\ <<t, Restores(e, t)>> \in recoded
             /\ <<t, c>> \in recoded => \/ t \in running.behind
                                        \/ call.do = "apply" /\ t \in call.on /\ <<t, c>> \notin rivals
  <2>1. CASE call.do = "apply" /\ t \in call.on
    <3>1. call.on = RestoreOn(e, call.code)
      BY <1>1, <2>1 DEF InverseCall
    <3>2. Restores(e, t) = call.code
      BY <2>1, <3>1 DEF RestoreOn
    <3>3. <<t, call.code>> \in e.lost
      BY <1>0, <1>6, <3>2, RestoredWasLost
    <3>4. call.code # c
      BY <3>3 DEF LostInv, LostIsAnother, UndoesAnApply
    <3>5. <<t, c>> \in rivals => <<t, c>> \notin recoded
      BY <2>1, <3>4 DEF Recoded, On
    <3> QED  BY <1>4, <1>6, <2>1, <3>5
  <2>2. CASE ~(call.do = "apply" /\ t \in call.on)
    <3>1. Restores(e, t) \notin running.todo
      BY <1>6, <2>2
    <3>2. <<t, c>> \in recoded => <<t, c>> \in l
      BY <1>1, <2>2 DEF Recoded, On
    <3> QED  BY <1>4, <1>5, <1>6, <3>1, <3>2
  <2> QED  BY <2>1, <2>2
<1>7. ASSUME call.do = "remove", NEW t \in call.on
      PROVE  <<t, c>> \notin recoded
  <2>1. call.code = c
    BY <1>1, <1>7 DEF InverseCall
  <2> QED  BY <1>7, <2>1 DEF Recoded, On
<1> HIDE DEF e, call, c, recoded, rivals, l
<1>8. LeftBehind(running)' = {t \in call.on : <<t, c>> \notin rivals}
  BY <1>3 DEF LeftBehind, e, c
<1>9. /\ running'.call = call /\ running'.entry = e /\ running'.entry.code = c
  BY <1>3 DEF e, c
<1>10. ASSUME NEW t \in Replaced(e)
       PROVE  /\ IsDone(t)' => \/ Restores(e, t) \notin running.todo
                               \/ call.do = "apply" /\ t \in call.on
              /\ t \in running.behind \/ (call.do = "apply" /\ t \in call.on /\ <<t, c>> \notin rivals)
                   => IsBehind(t)'
  BY <1>3, <1>8, <1>9 DEF IsDone, IsBehind
<1> QED  BY <1>2, <1>3, <1>6, <1>7, <1>9, <1>10 DEF UndoProgress
\* Initially the stacks are empty and the coder's codings are those they began with.
LEMMA OwesHolds == HistoryInit => OwesInv
<1> SUFFICES ASSUME HistoryInit PROVE Owed
  BY DEF OwesInv
<1>1. past = <<>> /\ future = <<>> /\ queue = <<>> /\ running = NoJob /\ base = layer[scope]
  BY DEF HistoryInit
<1>2. Len(past) = 0 /\ Len(future) = 0 /\ Len(queue) = 0
  BY <1>1
<1>3. PastFits(past) /\ FutureFits(past, future) /\ PastCovers(past)
  BY <1>2 DEF PastFits, FutureFits, PastCovers
<1>4. QueueFits(queue, Touched(past) \cup ActUndoes)
  BY <1>2 DEF QueueFits
<1>5. SameBut(Touched(past) \cup LandedUndoes, layer[scope])
  BY <1>1 DEF SameBut
<1> QED
  BY <1>1, <1>3, <1>4, <1>5 DEF Owed, InAct, Landed, LandedFits, UndoProgress, UndoesAnApply,
                                RemoveUndone

\* What is to be shown of a step that is not a switch.
LEMMA OwedAfter ==
  ASSUME base' = base, scope' = scope,
         PastFits(past'), FutureFits(past', future'), together' => PastCovers(past'),
         InAct' => Fits(running'.entry, Touched(past')),
         QueueFits(queue', Touched(past') \cup ActUndoes'),
         Landed' => /\ Fits(Finished(running'), Touched(past'))
                    /\ together' => Covers(Finished(running'), Touched(past') \cup LandedUndoes'),
         SameBut(Touched(past') \cup LandedUndoes', layer'[scope]),
         InAct' /\ running'.fresh => SameBut(Touched(past') \cup ActUndoes', seen'[scope]),
         UndoProgress', RemoveUndone'
  PROVE  Owed'
<1>1. PastFits(past)'
  BY DEF PastFits, Fits, Knew
<1>2. FutureFits(past, future)'
  BY DEF FutureFits, Fits, Knew
<1>3. (together => PastCovers(past))'
  BY DEF PastCovers, Covers
<1>4. (InAct => Fits(running.entry, Touched(past)))'
  BY DEF Fits, Knew
<1>5. QueueFits(queue, Touched(past) \cup ActUndoes)'
  BY DEF QueueFits, Fits, Knew
<1>6. LandedFits'
  BY DEF LandedFits, Fits, Knew, Covers
<1>7. SameBut(Touched(past) \cup LandedUndoes, layer[scope])'
  BY DEF SameBut
<1>8. (InAct /\ running.fresh => SameBut(Touched(past) \cup ActUndoes, seen[scope]))'
  BY DEF SameBut
<1> QED  BY <1>1, <1>2, <1>3, <1>4, <1>5, <1>6, <1>7, <1>8 DEF Owed

\* What a step leaves alone still fits.
LEMMA OwedFrame ==
  ASSUME Owed, base' = base, scope' = scope, past' = past, future' = future,
         together' => together, running' = running, layer' = layer,
         seen' = seen \/ running = NoJob,
         QueueFits(queue', Touched(past) \cup ActUndoes)
  PROVE  Owed'
<1>1. /\ Landed' = Landed /\ InAct' = InAct /\ LandedUndoes' = LandedUndoes /\ ActUndoes' = ActUndoes
  BY DEF Landed, InAct, LandedUndoes, ActUndoes
<1>2. UndoProgress' /\ RemoveUndone'
  BY DEF Owed, UndoProgress, RemoveUndone, UndoesAnApply, IsDone, IsBehind
<1>3. InAct' /\ running'.fresh => SameBut(Touched(past') \cup ActUndoes', seen'[scope])
  BY <1>1 DEF Owed, InAct
<1> QED  BY <1>1, <1>2, <1>3, OwedAfter DEF Owed, LandedFits
\* What waits fits above more, too.
LEMMA QueueFitsMore ==
  ASSUME NEW q, NEW b, NEW c, QueueFits(q, b), b \subseteq c
  PROVE  QueueFits(q, c)
<1> SUFFICES ASSUME NEW k \in 1..Len(q), q[k].op = "execute"
             PROVE  Fits(q[k].entry, c \cup BelowQueued(q, k))
  BY DEF QueueFits
<1>1. Fits(q[k].entry, b \cup BelowQueued(q, k))
  BY DEF QueueFits
<1> QED  BY <1>1, FitsAboveMore

\* An act's entry is planned from codings that are those the stacks began with, but
\* for what the undos below it set.
LEMMA QueuedFits ==
  ASSUME NEW q \in Seq(Job), NEW job \in Job, NEW b, QueueFits(q, b),
         job.op = "execute" => Fits(job.entry, b)
  PROVE  QueueFits(Append(q, job), b)
<1>0. Len(q) \in Nat /\ Len(Append(q, job)) = Len(q) + 1
      /\ \A i \in 1..(Len(q) + 1) : Append(q, job)[i] = IF i <= Len(q) THEN q[i] ELSE job
  BY AppendItems, LenProperties
<1> SUFFICES ASSUME NEW k \in 1..(Len(q) + 1), Append(q, job)[k].op = "execute"
             PROVE  Fits(Append(q, job)[k].entry, b \cup BelowQueued(Append(q, job), k))
  BY <1>0 DEF QueueFits
<1>1. BelowQueued(Append(q, job), k) = BelowQueued(q, k)
  BY BelowWaiting
<1>2. CASE k <= Len(q)
  <2>1. k \in 1..Len(q) /\ Append(q, job)[k] = q[k]
    BY <1>0, <1>2
  <2> QED  BY <1>1, <2>1 DEF QueueFits
<1>3. CASE ~(k <= Len(q))
  <2>1. Append(q, job)[k] = job
    BY <1>0, <1>3
  <2> QED  BY <1>1, <2>1, FitsAboveMore
<1> QED  BY <1>2, <1>3

\* A code is pressed on what the page shows.
LEMMA OwedPress ==
  ASSUME BaseInv, OrderInv, Owed, sure, session = scope,
         NEW on \in Selection, NEW code \in Code, PressCode(on, code), sure'
  PROVE  Owed'
<1> DEFINE e == NewEntry(on, code)
           job == [op |-> "execute", entry |-> e]
           b == Touched(past) \cup ActUndoes
<1>0. HistoryTypeOK /\ queue \in Seq(Job) /\ scope \in Coder /\ on \subseteq Target
  BY SelectionAssumption DEF BaseInv, HistoryTypeOK
<1>1. job \in Job
  BY <1>0, PressTypes DEF PressCode
<1>2. ~Outdated /\ queue' = Append(queue, job)
  BY DEF PressCode
<1>3. SameBut(b, seen[scope])
  <2>1. CASE running = NoJob
    <3>1. seen = layer /\ LandedUndoes = {} /\ ActUndoes = {}
      BY <1>2, <2>1 DEF Outdated, LandedUndoes, Landed, ActUndoes, InAct
    <3> QED  BY <3>1 DEF Owed
  <2>2. CASE running # NoJob
    <3>1. InAct /\ running.fresh
      BY <1>2, <2>2 DEF Outdated, InAct
    <3> QED  BY <3>1 DEF Owed
  <2> QED  BY <2>1, <2>2
<1>4. e.on = on /\ e.code = code /\ e.lost = {}
      /\ \A t \in on : Knew(e, t) <=> <<t, code>> \in seen[scope]
  <2>1. e.on = on /\ e.code = code /\ e.lost = {}
        /\ e.held = on \cap Held(code)
        /\ (e.kind = "remove" <=> on \subseteq Held(code))
    BY DEF NewEntry
  <2>2. \A t \in on : t \in Held(code) <=> <<t, code>> \in seen[scope]
    BY <1>0 DEF Held
  <2> HIDE DEF e
  <2> QED  BY <2>1, <2>2 DEF Knew
<1> HIDE DEF e, b
<1>5. Fits(e, b)
  BY <1>0, <1>3, <1>4 DEF Fits, SameBut
<1>6. QueueFits(queue, b)
  BY DEF Owed, b
<1>7. QueueFits(Append(queue, job), b)
  <2>1. job.entry = e
    OBVIOUS
  <2> HIDE DEF job
  <2> QED  BY <1>0, <1>1, <1>5, <1>6, <2>1, QueuedFits
<1>8. QueueFits(queue', Touched(past) \cup ActUndoes)
  BY <1>2, <1>7 DEF b
<1> HIDE DEF job
<1>9. /\ base' = base /\ scope' = scope /\ past' = past /\ future' = future
      /\ together' = together /\ running' = running /\ layer' = layer /\ seen' = seen
  BY DEF PressCode, server, page
<1> QED  BY <1>8, <1>9, OwedFrame

\* An undo or redo is queued.
LEMMA OwedKey ==
  ASSUME BaseInv, Owed, NEW op \in {"undo", "redo"}, PressKey(op)
  PROVE  Owed'
<1> DEFINE job == [op |-> op, entry |-> NoEntry]
<1>1. queue \in Seq(Job) /\ job \in Job /\ job.op # "execute"
  BY DEF BaseInv, HistoryTypeOK, Job
<1>2. /\ queue' = Append(queue, job)
      /\ base' = base /\ scope' = scope /\ past' = past /\ future' = future
      /\ together' = together /\ running' = running /\ layer' = layer /\ seen' = seen
  BY DEF PressKey, server, page, owed
<1> HIDE DEF job
<1>3. QueueFits(queue, Touched(past) \cup ActUndoes)
  BY DEF Owed
<1>4. QueueFits(queue', Touched(past) \cup ActUndoes)
  <2> DEFINE b == Touched(past) \cup ActUndoes
  <2>1. QueueFits(queue, b)
    BY <1>3
  <2> HIDE DEF b
  <2>2. QueueFits(Append(queue, job), b)
    BY <1>1, <2>1, QueuedFits
  <2> QED  BY <1>2, <2>2 DEF b
<1> QED  BY <1>2, <1>4, OwedFrame

\* What waits behind an act that starts fits above it, too.
LEMMA NextFits ==
  ASSUME NEW q \in Seq(Job), q # <<>>, q[1].op = "execute", NEW b, QueueFits(q, b)
  PROVE  Fits(q[1].entry, b) /\ QueueFits(Tail(q), b \cup Undoes(q[1].entry))
<1>0. /\ Len(q) \in Nat \ {0} /\ Len(Tail(q)) = Len(q) - 1
      /\ \A i \in 1..(Len(q) - 1) : Tail(q)[i] = q[i + 1]
  BY TailItems
<1>1. Fits(q[1].entry, b)
  <2>1. 1 \in 1..Len(q) /\ BelowQueued(q, 1) = {}
    BY <1>0, BelowWaiting
  <2>2. Fits(q[1].entry, b \cup BelowQueued(q, 1))
    BY <2>1 DEF QueueFits
  <2> QED  BY <2>1, <2>2
<1>2. ASSUME NEW k \in 1..(Len(q) - 1), q[k + 1].op = "execute"
      PROVE  Fits(q[k + 1].entry, (b \cup Undoes(q[1].entry)) \cup BelowQueued(Tail(q), k))
  <2>1. k + 1 \in 1..Len(q)
    BY <1>0
  <2>2. Fits(q[k + 1].entry, b \cup BelowQueued(q, k + 1))
    BY <1>2, <2>1 DEF QueueFits
  <2>3. BelowQueued(q, k + 1) \subseteq Undoes(q[1].entry) \cup BelowQueued(Tail(q), k)
    BY BelowWaiting
  <2>4. b \cup BelowQueued(q, k + 1)
          \subseteq (b \cup Undoes(q[1].entry)) \cup BelowQueued(Tail(q), k)
    BY <2>3
  <2> QED  BY <2>2, <2>4, FitsAboveMore
<1> QED  BY <1>0, <1>1, <1>2 DEF QueueFits

\* No act waits: what waits fits above anything.
LEMMA KeysFit ==
  ASSUME NEW q, \A i \in 1..Len(q) : q[i].op # "execute", NEW b
  PROVE  QueueFits(q, b)
  BY DEF QueueFits

\* The next link of the chain starts.
LEMMA OwedStart ==
  ASSUME BaseInv, OrderInv, Owed, sure, session = scope, Start
  PROVE  Owed'
<1> DEFINE job == Head(queue)
<1>0. /\ HistoryTypeOK /\ queue \in Seq(Job) /\ scope \in Coder /\ queue # <<>>
      /\ seen \in [Coder -> SUBSET (Target \X Code)]
  BY DEF BaseInv, HistoryTypeOK, Start
<1>1. /\ queue' = Tail(queue) /\ running = NoJob /\ base' = base /\ scope' = scope
      /\ past' = past /\ future' = future /\ together' = together /\ layer' = layer
  BY DEF Start, server, owed
<1>2. job = queue[1] /\ job \in Job
  BY <1>0, TailItems
<1>3. ActUndoes = {} /\ LandedUndoes = {}
  BY <1>1 DEF ActUndoes, InAct, LandedUndoes, Landed
<1>4. QueueFits(queue, Touched(past)) /\ SameBut(Touched(past), layer[scope])
  BY <1>3 DEF Owed
<1>5. job.op # "execute" => \A i \in 1..Len(queue') : queue'[i].op # "execute"
  BY <1>0, <1>1, <1>2, ActsFirstQueue DEF OrderInv
<1>6. CASE FirstCalls(job) = {}
  <2>1. running' = running /\ seen' = seen /\ job.op # "execute"
    BY <1>6 DEF Start, FirstCalls
  <2>2. QueueFits(queue', Touched(past) \cup ActUndoes)
    BY <1>5, <2>1, KeysFit
  <2> HIDE DEF job
  <2> QED  BY <1>1, <2>1, <2>2, OwedFrame
<1>7. CASE FirstCalls(job) # {}
  <2>1. PICK first \in FirstCalls(job) :
          running' = Begun(job.op, first[1], first[2]) /\ seen' = Paint(running')
    BY <1>7 DEF Start
  <2>2. first[1] \in Entry /\ first[2] \in Call /\ job.op \in {"execute", "undo", "redo"}
    BY <1>0, <1>2, <2>1, FirstCallTypes
  <2>3. /\ running'.entry = first[1] /\ running'.op = job.op /\ running'.call = first[2]
        /\ running'.behind = {} /\ running'.at = "sent" /\ running'.fresh = (seen = layer)
        /\ running'.todo = IF job.op = "undo" /\ first[1].kind = "apply"
                           THEN ToRestore(first[1]) ELSE {}
    BY <2>1 DEF Begun
  <2>a. running' # NoJob => InAct' = (job.op = "execute")
    BY <2>3 DEF InAct
  <2>b. ~Landed' /\ LandedUndoes' = {}
    BY <2>3 DEF Landed, LandedUndoes
  <2>c. RemoveUndone'
    BY <2>3 DEF RemoveUndone
  <2>d. UndoProgress'
    <3> SUFFICES ASSUME UndoesAnApply'
                 PROVE  \A t \in Replaced(first[1]) : Restores(first[1], t) \in ToRestore(first[1])
      BY <2>3 DEF UndoProgress, IsDone, UndoesAnApply, Replaced, Restores, Lost
    <3> QED  BY <2>2, RestoredWasLost DEF ToRestore
  <2>4. CASE job.op # "execute"
    <3>1. ~InAct' /\ ActUndoes' = {}
      BY <2>3, <2>4 DEF InAct, ActUndoes
    <3>2. QueueFits(queue', Touched(past') \cup ActUndoes')
      BY <1>5, <2>4, KeysFit
    <3> HIDE DEF job
    <3> QED  BY <1>1, <1>3, <2>b, <2>c, <2>d, <3>1, <3>2, OwedAfter DEF Owed
  <2>5. CASE job.op = "execute"
    <3> DEFINE e == first[1]
    <3>1. e = job.entry /\ e = queue[1].entry /\ first[2] = CallOf(e.kind, e.code, e.on)
          /\ queue[1].op = "execute"
      BY <1>0, <1>2, <2>5, FirstCallEntry DEF FirstCalls
    <3>2. Fits(e, Touched(past)) /\ QueueFits(queue', Touched(past) \cup Undoes(e))
      BY <1>0, <1>1, <1>4, <3>1, NextFits
    <3>3. running'.entry = e
      BY <2>3
    <3>4. ActUndoes' = Undoes(e) \/ ActUndoes' = {}
      BY <2>3 DEF ActUndoes
    <3>5. InAct'
      <4>1. running' \in Running
        BY <1>0, <2>1, <2>2, BegunTypes
      <4>2. running' # NoJob
        BY <4>1, NoJobAssumption
      <4> QED  BY <2>3, <2>5, <4>2 DEF InAct
    <3>6. ActUndoes' = Undoes(e)
      BY <2>3, <3>5 DEF ActUndoes
    <3>7. ASSUME running'.fresh
          PROVE  SameBut(Touched(past') \cup ActUndoes', seen'[scope])
      <4>1. SameBut(Touched(past), seen[scope])
        BY <1>4, <2>3, <3>7
      <4> DEFINE by == e.by
                 painted == IF first[2].do = "apply" THEN seen[by] \cup On(e.on, e.code)
                            ELSE seen[by] \ On(e.on, e.code)
      <4>2. seen' = [seen EXCEPT ![by] = painted]
        <5>1. /\ running'.op = "execute" /\ running'.entry = e /\ running'.call = first[2]
              /\ first[2].on = e.on /\ first[2].code = e.code /\ seen' = Paint(running')
          BY <2>1, <2>3, <2>5, <3>1 DEF CallOf
        <5> HIDE DEF e, job
        <5> QED  BY <5>1 DEF Paint, Painted
      <4> HIDE DEF painted
      <4>3. seen'[scope] = seen[scope] \/ (by = scope /\ seen'[scope] = painted)
        BY <1>0, <4>2
      <4>4. e.kind \in {"apply", "remove"} /\ first[2].do = e.kind
        BY <2>2, <3>1 DEF Entry, CallOf
      <4>5. ASSUME NEW p \in Target \X Code, p \notin Touched(past), p \notin Undoes(e), by = scope
            PROVE  p \in painted <=> p \in base
        <5>0. p \in seen[scope] <=> p \in base
          BY <4>1, <4>5 DEF SameBut
        <5>1. CASE p \notin On(e.on, e.code)
          BY <4>5, <5>0, <5>1 DEF painted
        <5>2. CASE p \in On(e.on, e.code)
          <6>1. PICK t \in e.on : p = <<t, e.code>>
            BY <5>2 DEF On
          <6>2. e.kind = "apply" /\ t \in e.held
            BY <4>4, <4>5, <5>2, <6>1 DEF Undoes, On
          <6>3. p \in base
            BY <3>2, <4>5, <6>1, <6>2 DEF Fits, Knew
          <6> QED  BY <4>4, <5>2, <6>2, <6>3 DEF painted
        <5> QED  BY <5>1, <5>2
      <4> HIDE DEF e, by
      <4>6. SameBut(Touched(past) \cup Undoes(e), seen'[scope])
        BY <4>1, <4>3, <4>5 DEF SameBut
      <4> QED  BY <1>1, <3>6, <4>6
    <3> HIDE DEF job
    <3> QED  BY <1>1, <1>3, <2>b, <2>c, <2>d, <3>2, <3>3, <3>6, <3>7, OwedAfter DEF Owed
  <2> QED  BY <2>4, <2>5
<1> QED  BY <1>6, <1>7
\* The server accepts an act's or a redo's call.
LEMMA OwedLanding ==
  ASSUME BaseInv, CallsInv, OrderInv, Owed, sure, session = scope, Serve,
         ~Refuses(running.call), running.op # "undo"
  PROVE  Owed'
<1> DEFINE e == running.entry
           call == CallOf(e.kind, e.code, e.on)
           rivals == Rivals(session, call)
           f == Finished(running')
           t == Touched(past)
<1>0. /\ HistoryTypeOK /\ running \in Running /\ running # NoJob /\ running.at = "sent"
      /\ scope \in Coder /\ layer \in [Coder -> SUBSET (Target \X Code)] /\ e \in Entry
      /\ past \in Seq(Entry) /\ future \in Seq(Entry)
  BY DEF BaseInv, HistoryTypeOK, Serve, Running
<1>1. running.call = call
  BY <1>0 DEF CallsInv
<1>2. /\ running' = [running EXCEPT !.at = "served", !.gave = rivals, !.as = @ \cup {session}]
      /\ layer' = [layer EXCEPT ![session] = Recoded(session, call)]
      /\ base' = base /\ scope' = scope /\ past' = past /\ future' = future
      /\ together' = together /\ queue' = queue /\ seen' = seen
  BY <1>1 DEF Serve, page, owed
<1>3. layer'[scope] = Recoded(scope, call)
  BY <1>0, <1>2
<1>4. /\ running'.op = running.op /\ running'.entry = e /\ running'.at = "served"
      /\ running'.gave = rivals /\ running'.fresh = running.fresh
      /\ running' \in Running
  <2>1. rivals \in SUBSET (Target \X Code)
    <3>1. running.call \in Call /\ session \in Coder
      BY <1>0 DEF Running
    <3> QED  BY <1>0, <1>1, <3>1, ServedTypes
  <2> HIDE DEF rivals
  <2>2. running.as \cup {session} \in SUBSET Coder
    BY <1>0 DEF Running
  <2> QED  BY <1>0, <1>2, <2>1, <2>2 DEF Running
<1>5. running' # NoJob
  BY <1>4, NoJobAssumption
<1>6. Landed' /\ LandedUndoes' = Undoes(f) /\ InAct' = InAct /\ ActUndoes' = ActUndoes
  BY <1>0, <1>4, <1>5 DEF Landed, LandedUndoes, InAct, ActUndoes
<1>7. LandedUndoes = {}
  BY <1>0 DEF Landed, LandedUndoes
<1>8. /\ f \in Entry /\ f.kind = e.kind /\ f.on = e.on /\ f.code = e.code /\ f.held = e.held
      /\ f.lost = IF e.kind = "apply" THEN Rivals(scope, call) ELSE e.lost
  <2>1. f \in Entry
    BY <1>4, FinishedTypes
  <2> HIDE DEF rivals
  <2>2. f = [e EXCEPT !.as = @ \cup running'.as, !.lost = IF e.kind = "apply" THEN rivals ELSE @]
    BY <1>4 DEF Finished
  <2> HIDE DEF f
  <2>3. /\ f.kind = e.kind /\ f.on = e.on /\ f.code = e.code /\ f.held = e.held
        /\ f.lost = IF e.kind = "apply" THEN rivals ELSE e.lost
    BY <1>0, <2>2 DEF Entry
  <2> QED  BY <2>1, <2>3 DEF rivals
<1>9. Fits(e, t)
  <2>1. CASE running.op = "execute"
    BY <1>0, <2>1 DEF Owed, InAct
  <2>2. CASE running.op # "execute"
    <3>1. running.op = "redo" /\ running.gen = generation
      BY <1>0, <2>2 DEF Running, OrderInv
    <3>2. future # <<>> /\ e = future[1]
      BY <1>0, <3>1 DEF BaseInv, RedoesTheFirst
    <3>3. 1 \in 1..Len(future) /\ Below(future, 1) = {}
      BY <1>0, <3>2, BelowParts, TailItems
    <3>4. Fits(future[1], t \cup Below(future, 1))
      BY <3>3 DEF Owed, FutureFits
    <3> QED  BY <3>2, <3>3, <3>4
  <2> QED  BY <2>1, <2>2
<1>10. /\ SameBut(t, layer[scope]) /\ (together => Closed(t))
       /\ base \subseteq Target \X Code /\ (together => OneValueEach(base))
  BY <1>0, <1>7, PastCloses DEF Owed, OrderInv
<1> HIDE DEF f, t
<1>11. /\ Fits(f, t)
       /\ together => Covers(f, t \cup Undoes(f))
       /\ SameBut(t \cup Undoes(f), Recoded(scope, call))
  BY <1>0, <1>8, <1>9, <1>10, ActLands
<1>12. UndoProgress' /\ RemoveUndone'
  BY <1>4 DEF UndoProgress, UndoesAnApply, RemoveUndone
<1> HIDE DEF e, call, rivals
<1>13. /\ PastFits(past') /\ FutureFits(past', future') /\ (together' => PastCovers(past'))
       /\ QueueFits(queue', Touched(past') \cup ActUndoes')
  BY <1>2, <1>6 DEF Owed
<1>14. /\ InAct' => Fits(running'.entry, Touched(past'))
       /\ InAct' /\ running'.fresh => SameBut(Touched(past') \cup ActUndoes', seen'[scope])
  BY <1>2, <1>4, <1>6 DEF Owed, e
<1>15. /\ Fits(Finished(running'), Touched(past'))
       /\ together' => Covers(Finished(running'), Touched(past') \cup LandedUndoes')
       /\ SameBut(Touched(past') \cup LandedUndoes', layer'[scope])
  BY <1>2, <1>3, <1>6, <1>11 DEF f, t
<1> QED  BY <1>2, <1>12, <1>13, <1>14, <1>15, OwedAfter

\* The server accepts a call of an inverse.
LEMMA OwedUndoing ==
  ASSUME BaseInv, LostInv, BackInv, CallsInv, OrderInv, Owed, sure, session = scope, Serve,
         ~Refuses(running.call), running.op = "undo"
  PROVE  Owed'
<1> DEFINE e == running.entry
           call == running.call
           rivals == Rivals(session, call)
           t == Touched(past)
<1>0. /\ HistoryTypeOK /\ running \in Running /\ running # NoJob /\ running.at = "sent"
      /\ scope \in Coder /\ layer \in [Coder -> SUBSET (Target \X Code)] /\ e \in Entry
      /\ past \in Seq(Entry) /\ call \in Call
      /\ e.kind \in {"apply", "remove"} /\ call.do \in {"apply", "remove"}
  BY DEF BaseInv, HistoryTypeOK, Serve, Running, Entry, Call
<1>2. /\ running' = [running EXCEPT !.at = "served", !.gave = rivals, !.as = @ \cup {session}]
      /\ layer' = [layer EXCEPT ![session] = Recoded(session, call)]
      /\ base' = base /\ scope' = scope /\ past' = past /\ future' = future
      /\ together' = together /\ queue' = queue /\ seen' = seen
  BY DEF Serve, page, owed
<1>3. layer'[scope] = Recoded(scope, call)
  BY <1>0, <1>2
<1>4. running'.op = "undo" /\ running'.entry = e
  <2> HIDE DEF rivals
  <2> QED  BY <1>0, <1>2 DEF Running
<1>5. /\ ~Landed' /\ LandedUndoes' = {} /\ LandedUndoes = {}
      /\ ~InAct' /\ ActUndoes' = {} /\ ActUndoes = {}
  BY <1>0, <1>4 DEF Landed, LandedUndoes, InAct, ActUndoes
<1>6. past # <<>> /\ e = past[Len(past)]
  BY <1>0 DEF BaseInv, UndoesTheLast, OrderInv
<1>7. Undoes(e) \subseteq t
  BY <1>0, <1>6, BelowFront
<1>8. SameBut(t, layer[scope]) /\ (together => Closed(t))
  BY <1>0, <1>5, PastCloses DEF Owed
<1>9. \/ e.kind = "remove" /\ call = CallOf("apply", e.code, e.on)
      \/ e.kind = "apply" /\ call.do = "apply" /\ call.on = RestoreOn(e, call.code)
      \/ e.kind = "apply" /\ call.do = "remove" /\ call.code = e.code
         /\ call.on \subseteq e.on \ e.held
  <2>1. CASE e.kind = "remove"
    BY <1>0, <2>1 DEF CallsInv
  <2>2. CASE e.kind = "apply"
    BY <1>0, <2>2 DEF BackInv, InverseCall, UndoesAnApply, RemoveFrom, Replaced
  <2> QED  BY <1>0, <2>1, <2>2
<1>10. SameBut(t, Recoded(scope, call))
  <2> HIDE DEF e, call, t
  <2> QED  BY <1>0, <1>7, <1>8, <1>9, UndoLands
<1>11. UndoProgress'
  <2>1. CASE e.kind = "apply"
    <3>1. UndoesAnApply
      BY <1>0, <2>1 DEF UndoesAnApply
    <3>2. UndoProgress
      BY DEF Owed
    <3> QED  BY <1>0, <1>2, <3>1, <3>2, ServedProgress
  <2>2. CASE e.kind # "apply"
    BY <1>4, <2>2 DEF UndoProgress, UndoesAnApply
  <2> QED  BY <2>1, <2>2
<1>12. RemoveUndone'
  <2>1. CASE e.kind = "remove"
    <3>1. call = CallOf("apply", e.code, e.on)
      BY <1>9, <2>1
    <3>2. On(e.on, e.code) \subseteq Recoded(scope, call)
      BY <3>1 DEF Recoded, CallOf
    <3> QED  BY <1>2, <1>3, <1>4, <3>2 DEF RemoveUndone, On
  <2>2. CASE e.kind # "remove"
    BY <1>4, <2>2 DEF RemoveUndone
  <2> QED  BY <2>1, <2>2
<1> HIDE DEF e, call, rivals
<1>13. /\ PastFits(past') /\ FutureFits(past', future') /\ (together' => PastCovers(past'))
       /\ QueueFits(queue', Touched(past') \cup ActUndoes')
       /\ SameBut(Touched(past') \cup LandedUndoes', layer'[scope])
  BY <1>2, <1>3, <1>5, <1>10 DEF Owed
<1> QED  BY <1>2, <1>5, <1>11, <1>12, <1>13, OwedAfter

\* The server refuses a call.
LEMMA OwedRefused ==
  ASSUME BaseInv, Owed, Serve, Refuses(running.call)
  PROVE  Owed'
<1>0. running \in Running /\ running # NoJob /\ running.at = "sent"
  BY DEF BaseInv, HistoryTypeOK, Serve
<1>1. /\ running' = [running EXCEPT !.at = "refused"] /\ layer' = layer
      /\ base' = base /\ scope' = scope /\ past' = past /\ future' = future
      /\ together' = together /\ queue' = queue /\ seen' = seen
  BY DEF Serve, page, owed
<1>2. /\ running'.op = running.op /\ running'.entry = running.entry /\ running'.at = "refused"
      /\ running'.todo = running.todo /\ running'.behind = running.behind
      /\ running'.fresh = running.fresh /\ running' \in Running
  BY <1>0, <1>1 DEF Running
<1>3. running' # NoJob
  BY <1>2, NoJobAssumption
<1>4. /\ ~Landed' /\ LandedUndoes' = {} /\ LandedUndoes = {}
      /\ InAct' = InAct /\ ActUndoes' = ActUndoes
  BY <1>0, <1>2, <1>3 DEF Landed, LandedUndoes, InAct, ActUndoes
<1>5. UndoProgress'
  BY <1>0, <1>1, <1>2
     DEF Owed, UndoProgress, UndoesAnApply, IsDone, IsBehind, Replaced, Restores, Lost
<1>6. RemoveUndone'
  BY <1>2 DEF RemoveUndone
<1>7. /\ PastFits(past') /\ FutureFits(past', future') /\ (together' => PastCovers(past'))
      /\ QueueFits(queue', Touched(past') \cup ActUndoes')
      /\ SameBut(Touched(past') \cup LandedUndoes', layer'[scope])
      /\ InAct' => Fits(running'.entry, Touched(past'))
      /\ InAct' /\ running'.fresh => SameBut(Touched(past') \cup ActUndoes', seen'[scope])
  BY <1>1, <1>2, <1>4 DEF Owed
<1> QED  BY <1>1, <1>4, <1>5, <1>6, <1>7, OwedAfter

\* The next call of an inverse goes out.
LEMMA OwedContinue ==
  ASSUME BaseInv, BackInv, Owed, Continue
  PROVE  Owed'
<1> DEFINE e == running.entry
<1>0. /\ running \in Running /\ running # NoJob /\ running.at = "served" /\ e \in Entry
  BY DEF BaseInv, HistoryTypeOK, Continue, Running
<1>1. /\ layer' = layer /\ base' = base /\ scope' = scope /\ past' = past /\ future' = future
      /\ together' = together /\ queue' = queue /\ seen' = seen
  BY DEF Continue, server, page, owed
<1>2. PICK c \in UndoCalls(e, TodoAfter(running), BehindAfter(running)) :
        running' = [running EXCEPT !.call = c, !.at = "sent", !.gave = {},
                                   !.todo = TodoAfter(running), !.behind = BehindAfter(running)]
  BY DEF Continue
<1> DEFINE todo == TodoAfter(running)
           behind == BehindAfter(running)
<1>3. IsRestore(running) /\ UndoesAnApply
  BY <1>0 DEF Continue, AllDone, IsRestore, UndoesAnApply
<1>4. todo = running.todo \ {running.call.code} /\ behind = running.behind \cup LeftBehind(running)
  BY <1>3 DEF TodoAfter, BehindAfter
<1> HIDE DEF todo, behind
<1>5. /\ running'.op = "undo" /\ running'.entry = e /\ running'.at = "sent"
      /\ running'.todo = todo /\ running'.behind = behind
  <2>1. running' = [running EXCEPT !.call = c, !.at = "sent", !.gave = {},
                                   !.todo = todo, !.behind = behind]
    BY <1>2 DEF todo, behind
  <2> QED  BY <1>0, <1>3, <2>1 DEF Running, UndoesAnApply
<1>6. /\ ~Landed' /\ LandedUndoes' = {} /\ LandedUndoes = {}
      /\ ~InAct' /\ ActUndoes' = {} /\ ActUndoes = {}
  BY <1>3, <1>5 DEF Landed, LandedUndoes, InAct, ActUndoes, UndoesAnApply
<1>7. RemoveUndone'
  BY <1>5 DEF RemoveUndone
<1>8. ASSUME NEW t \in Replaced(e), Restores(e, t) \notin todo
      PROVE  /\ <<t, Restores(e, t)>> \in layer[scope]
             /\ <<t, e.code>> \in layer[scope] => t \in behind
  <2>1. IsDone(t)
    <3>1. CASE Restores(e, t) \notin running.todo
      BY <3>1 DEF IsDone
    <3>2. CASE Restores(e, t) = running.call.code
      <4>1. t \in running.call.on
        BY <1>0, <1>3, <1>8, <3>2, RestoredWasLost DEF BackInv, InverseCall, IsRestore
      <4> QED  BY <1>0, <1>3, <4>1 DEF IsDone, IsRestore
    <3> QED  BY <1>4, <1>8, <3>1, <3>2
  <2>2. IsBehind(t) => t \in behind
    BY <1>4 DEF IsBehind
  <2>3. UndoProgress
    BY DEF Owed
  <2> QED  BY <1>3, <1>8, <2>1, <2>2, <2>3 DEF UndoProgress
<1> DEFINE c0 == e.code
           l == layer[scope]
<1> HIDE DEF e, l, c0
<1>9. UndoProgress'
  <2>1. /\ running'.entry = e /\ running'.entry.code = c0 /\ layer'[scope'] = l
    BY <1>1, <1>5 DEF c0, l
  <2>2. \A t \in Replaced(e) : Restores(e, t) \notin todo =>
          <<t, Restores(e, t)>> \in l /\ (<<t, c0>> \in l => t \in behind)
    BY <1>8 DEF l, c0
  <2>3. ASSUME NEW t \in Replaced(e)
        PROVE  (IsDone(t)' => Restores(e, t) \notin todo) /\ (t \in behind => IsBehind(t)')
    BY <1>5 DEF IsDone, IsBehind
  <2> QED  BY <1>5, <2>1, <2>2, <2>3 DEF UndoProgress
<1>10. /\ PastFits(past') /\ FutureFits(past', future') /\ (together' => PastCovers(past'))
       /\ QueueFits(queue', Touched(past') \cup ActUndoes')
       /\ SameBut(Touched(past') \cup LandedUndoes', layer'[scope])
  BY <1>1, <1>6 DEF Owed
<1> QED  BY <1>1, <1>6, <1>7, <1>9, <1>10, OwedAfter
\* An entry that landed on top of the others is one of them.
LEMMA PastGrows ==
  ASSUME NEW s \in Seq(Entry), NEW f \in Entry, PastFits(s), Fits(f, Touched(s))
  PROVE  /\ PastFits(Append(s, f))
         /\ PastCovers(s) /\ Covers(f, Touched(s) \cup Undoes(f)) => PastCovers(Append(s, f))
<1> DEFINE t == Append(s, f)
<1>0. /\ Len(s) \in Nat /\ Len(t) = Len(s) + 1 /\ t \in Seq(Entry)
      /\ \A i \in 1..(Len(s) + 1) : t[i] = IF i <= Len(s) THEN s[i] ELSE f
  BY AppendItems, LenProperties
<1>1. /\ Touched(t) = Touched(s) \cup Undoes(f) /\ Below(t, Len(t) + 1) = Touched(t)
      /\ \A k \in 1..(Len(s) + 1) : Below(t, k) = Below(s, k)
      /\ Below(s, Len(s) + 1) = Touched(s)
  BY <1>0, BelowAppended, BelowParts
<1> HIDE DEF t
<1>2. ASSUME NEW k \in 1..Len(t)
      PROVE  Fits(t[k], Below(t, k))
  <2>1. CASE k <= Len(s)
    <3>1. k \in 1..Len(s) /\ t[k] = s[k] /\ Below(t, k) = Below(s, k)
      BY <1>0, <1>1, <2>1
    <3> QED  BY <3>1 DEF PastFits
  <2>2. CASE ~(k <= Len(s))
    <3>1. k = Len(s) + 1 /\ t[k] = f /\ Below(t, k) = Touched(s)
      BY <1>0, <1>1, <2>2
    <3> QED  BY <3>1
  <2> QED  BY <2>1, <2>2
<1>3. ASSUME PastCovers(s), Covers(f, Touched(s) \cup Undoes(f)), NEW k \in 1..Len(t)
      PROVE  Covers(t[k], Below(t, k + 1))
  <2>1. CASE k <= Len(s)
    <3>1. k \in 1..Len(s) /\ k + 1 \in 1..(Len(s) + 1) /\ t[k] = s[k]
      BY <1>0, <2>1
    <3>2. Below(t, k + 1) = Below(s, k + 1)
      BY <1>1, <3>1
    <3> QED  BY <1>3, <3>1, <3>2 DEF PastCovers
  <2>2. CASE ~(k <= Len(s))
    <3>1. k = Len(t) /\ t[k] = f
      BY <1>0, <2>2
    <3>2. Below(t, k + 1) = Touched(s) \cup Undoes(f)
      BY <1>1, <3>1
    <3> QED  BY <1>3, <3>1, <3>2
  <2> QED  BY <2>1, <2>2
<1> QED  BY <1>2, <1>3 DEF PastFits, PastCovers, t

\* Without the top entry the others are as they were.
LEMMA PastShrinks ==
  ASSUME NEW s \in Seq(Entry), s # <<>>, PastFits(s)
  PROVE  /\ PastFits(Front(s)) /\ Fits(s[Len(s)], Touched(Front(s)))
         /\ PastCovers(s) => PastCovers(Front(s))
<1>0. /\ Len(s) \in Nat \ {0} /\ Len(Front(s)) = Len(s) - 1
      /\ \A i \in 1..(Len(s) - 1) : Front(s)[i] = s[i]
  BY FrontItems, EmptySeq
<1>1. /\ Touched(Front(s)) = Below(s, Len(s))
      /\ \A k \in 1..Len(s) : Below(Front(s), k) = Below(s, k)
  BY BelowFront
<1>2. \A k \in 1..(Len(s) - 1) : k \in 1..Len(s) /\ k + 1 \in 1..Len(s)
  BY <1>0
<1>3. PastFits(Front(s))
  BY <1>0, <1>1, <1>2 DEF PastFits
<1>4. Fits(s[Len(s)], Touched(Front(s)))
  <2>1. Len(s) \in 1..Len(s)
    BY <1>0
  <2> QED  BY <1>1, <2>1 DEF PastFits
<1>5. PastCovers(s) => PastCovers(Front(s))
  BY <1>0, <1>1, <1>2 DEF PastCovers
<1> QED  BY <1>3, <1>4, <1>5

\* An undone entry is offered below those that were undone before it.
LEMMA FutureGrows ==
  ASSUME NEW s \in Seq(Entry), s # <<>>, PastFits(s), NEW t \in Seq(Entry), FutureFits(s, t),
         NEW f \in Entry, Undoes(f) = Undoes(s[Len(s)]), Fits(f, Touched(Front(s)))
  PROVE  FutureFits(Front(s), <<f>> \o t)
<1> DEFINE u == <<f>> \o t
<1>0. /\ Len(t) \in Nat /\ Len(u) = Len(t) + 1 /\ u \in Seq(Entry)
      /\ \A i \in 1..(Len(t) + 1) : u[i] = IF i = 1 THEN f ELSE t[i - 1]
  BY OfferedItems, LenProperties
<1>a. \A k \in 1..(Len(t) + 1) : Below(u, k + 1) = Undoes(f) \cup Below(t, k)
  BY BelowOffered
<1> HIDE DEF u
<1>1. Touched(s) = Touched(Front(s)) \cup Undoes(f)
  BY BelowFront
<1>2. ASSUME NEW k \in 1..Len(u)
      PROVE  Fits(u[k], Touched(Front(s)) \cup Below(u, k))
  <2>1. CASE k = 1
    BY <1>0, <2>1, FitsAboveMore
  <2>2. CASE k # 1
    <3>1. k - 1 \in 1..Len(t) /\ k - 1 \in 1..(Len(t) + 1) /\ u[k] = t[k - 1] /\ (k - 1) + 1 = k
      BY <1>0, <2>2
    <3>2. Below(u, k) = Undoes(f) \cup Below(t, k - 1)
      BY <1>a, <3>1
    <3>3. Fits(t[k - 1], Touched(s) \cup Below(t, k - 1))
      BY <3>1 DEF FutureFits
    <3>4. Touched(s) \cup Below(t, k - 1) = Touched(Front(s)) \cup Below(u, k)
      BY <1>1, <3>2
    <3> QED  BY <3>1, <3>3, <3>4
  <2> QED  BY <2>1, <2>2
<1> QED  BY <1>2 DEF FutureFits, u

\* Those left to be redone fit above the one that was.
LEMMA FutureShrinks ==
  ASSUME NEW s \in Seq(Entry), NEW t \in Seq(Entry), t # <<>>, FutureFits(s, t),
         NEW u, Touched(s) \cup Undoes(t[1]) \subseteq Touched(u)
  PROVE  FutureFits(u, Tail(t))
<1>0. /\ Len(t) \in Nat \ {0} /\ Len(Tail(t)) = Len(t) - 1
      /\ \A i \in 1..(Len(t) - 1) : Tail(t)[i] = t[i + 1]
  BY TailItems
<1>1. ASSUME NEW k \in 1..(Len(t) - 1)
      PROVE  Fits(t[k + 1], Touched(u) \cup Below(Tail(t), k))
  <2>1. k \in 1..Len(t) /\ k + 1 \in 1..Len(t)
    BY <1>0
  <2>2. Below(t, k + 1) = Undoes(t[1]) \cup Below(Tail(t), k)
    BY <2>1, BelowTail
  <2>3. Fits(t[k + 1], Touched(s) \cup Below(t, k + 1))
    BY <2>1 DEF FutureFits
  <2>4. Touched(s) \cup Below(t, k + 1) \subseteq Touched(u) \cup Below(Tail(t), k)
    BY <2>2
  <2> QED  BY <2>3, <2>4, FitsAboveMore
<1> QED  BY <1>0, <1>1 DEF FutureFits

\* A step that succeeded is recorded.
LEMMA OwedComplete ==
  ASSUME BaseInv, LostInv, BackInv, CallsInv, OrderInv, Owed, sure, session = scope,
         Complete, sure'
  PROVE  Owed'
<1> DEFINE e == running.entry
           f == Finished(running)
           t == Touched(past)
<1>0. /\ running \in Running /\ running # NoJob /\ running.at = "served" /\ e \in Entry
      /\ running.op \in {"execute", "undo", "redo"}
      /\ past \in Seq(Entry) /\ future \in Seq(Entry)
      /\ Len(past) \in Nat /\ Len(future) \in Nat /\ MaxHistory \in Nat
  BY LenProperties, HistoryAssumption DEF BaseInv, HistoryTypeOK, Complete, Running
<1>1. /\ running' = NoJob /\ layer' = layer /\ base' = base /\ scope' = scope
      /\ together' = together /\ queue' = queue /\ AllDone(running)
      /\ running.op = "execute" => Len(past') = Len(past) + 1
      /\ running.op = "redo" => together \/ e.lost = {}
  BY DEF Complete, server, page
<1>2. Record(running)
  BY <1>0 DEF Complete, StillMine, OrderInv
<1>3. /\ ~Landed' /\ LandedUndoes' = {} /\ ~InAct' /\ ActUndoes' = {}
      /\ UndoProgress' /\ RemoveUndone'
  BY <1>1 DEF Landed, LandedUndoes, InAct, ActUndoes, UndoProgress, UndoesAnApply, RemoveUndone
<1>4. /\ f \in Entry /\ f.kind = e.kind /\ f.on = e.on /\ f.code = e.code /\ f.held = e.held
      /\ running.op = "undo" => f.lost = e.lost
  <2>1. f \in Entry
    BY <1>0, FinishedTypes
  <2>2. f = [e EXCEPT !.as = @ \cup running.as,
                      !.lost = IF running.op # "undo" /\ e.kind = "apply" THEN running.gave ELSE @]
    BY DEF Finished
  <2> HIDE DEF f
  <2> QED  BY <1>0, <2>1, <2>2 DEF Entry
<1>5. /\ running.op = "undo" => past # <<>> /\ e = past[Len(past)]
      /\ running.op = "redo" => future # <<>> /\ e = future[1]
  BY <1>0 DEF BaseInv, UndoesTheLast, RedoesTheFirst, OrderInv
<1>6. running.op # "execute" => \A i \in 1..Len(queue) : queue[i].op # "execute"
  BY <1>0 DEF OrderInv, NoActWaits
<1>7. Len(past) <= MaxHistory
  BY <1>0 DEF CallsInv
<1> HIDE DEF e, f, t
<1>8. CASE running.op # "undo"
  <2>1. past' = Append(past, f)
    <3>1. past' = Pushed(past, f)
      BY <1>0, <1>2, <1>8 DEF Record, f
    <3>2. CASE running.op = "execute"
      <4>1. Len(Pushed(past, f)) = Len(past) + 1
        BY <1>1, <3>1, <3>2
      <4>2. Len(past) < MaxHistory
        BY <1>0, <1>4, <1>7, <4>1, PushedBound
      <4> QED  BY <1>0, <1>4, <1>7, <3>1, <4>2, PushedBound
    <3>3. CASE running.op = "redo"
      <4>1. Len(future) \in Nat \ {0}
        BY <1>0, <1>5, <3>3, EmptySeq
      <4>2. Len(past) < MaxHistory
        BY <1>0, <4>1 DEF CallsInv
      <4> QED  BY <1>0, <1>4, <1>7, <3>1, <4>2, PushedBound
    <3> QED  BY <1>0, <1>8, <3>2, <3>3
  <2>2. Landed /\ LandedUndoes = Undoes(f)
    BY <1>0, <1>8 DEF Landed, LandedUndoes, f
  <2>3. Fits(f, t) /\ (together => Covers(f, t \cup Undoes(f)))
    BY <2>2 DEF Owed, LandedFits, f, t
  <2>4. Touched(past') = t \cup Undoes(f)
    BY <1>0, <1>4, <2>1, BelowAppended DEF t
  <2>5. PastFits(past') /\ (together' => PastCovers(past'))
    BY <1>0, <1>1, <1>4, <2>1, <2>3, PastGrows DEF Owed, t
  <2>6. SameBut(Touched(past') \cup LandedUndoes', layer'[scope])
    <3>1. SameBut(t \cup Undoes(f), layer[scope])
      BY <2>2 DEF Owed, t
    <3> QED  BY <1>1, <1>3, <2>4, <3>1
  <2>7. ASSUME Fits(e, t), together \/ e.lost = {}
        PROVE  Undoes(e) \subseteq Touched(past')
    BY <1>0, <1>4, <2>3, <2>4, <2>7, StillUndoes
  <2>8. CASE running.op = "execute"
    <3>1. InAct /\ Fits(e, t) /\ e.lost = {} /\ ActUndoes = Undoes(e)
      BY <1>0, <2>8 DEF Owed, InAct, CallsInv, ActUndoes, e, t
    <3>2. Undoes(e) \subseteq Touched(past')
      BY <2>7, <3>1
    <3>3. QueueFits(queue, t \cup Undoes(e))
      BY <3>1 DEF Owed, t
    <3>4. QueueFits(queue', Touched(past') \cup ActUndoes')
      BY <1>1, <1>3, <2>4, <3>2, <3>3, QueueFitsMore
    <3>5. FutureFits(past', future')
      <4>1. future' = <<>>
        BY <1>2, <2>8 DEF Record
      <4>2. Len(future') = 0
        BY <4>1
      <4> QED  BY <4>2 DEF FutureFits
    <3> QED  BY <1>1, <1>3, <2>5, <2>6, <3>4, <3>5, OwedAfter
  <2>9. CASE running.op = "redo"
    <3>1. future' = Tail(future) /\ future # <<>> /\ e = future[1]
      BY <1>2, <1>5, <2>9 DEF Record
    <3>2. FutureFits(past, future)
      BY DEF Owed
    <3>3. Fits(e, t)
      <4>1. 1 \in 1..Len(future) /\ Below(future, 1) = {}
        BY <1>0, <3>1, BelowParts, TailItems
      <4>2. Fits(future[1], t \cup Below(future, 1))
        BY <3>2, <4>1 DEF FutureFits, t
      <4> QED  BY <3>1, <4>1, <4>2
    <3>4. Undoes(e) \subseteq Touched(past')
      BY <1>1, <2>7, <2>9, <3>3 DEF e
    <3>5. FutureFits(past', future')
      <4>1. t \cup Undoes(future[1]) \subseteq Touched(past')
        BY <2>4, <3>1, <3>4
      <4> DEFINE u == past'
      <4>2. Touched(past) \cup Undoes(future[1]) \subseteq Touched(u)
        BY <4>1 DEF t
      <4> HIDE DEF u
      <4>3. FutureFits(u, Tail(future))
        BY <1>0, <3>1, <3>2, <4>2, FutureShrinks
      <4> QED  BY <3>1, <4>3 DEF u
    <3>6. QueueFits(queue', Touched(past') \cup ActUndoes')
      BY <1>1, <1>6, <2>9, KeysFit
    <3> QED  BY <1>1, <1>3, <2>5, <2>6, <3>5, <3>6, OwedAfter
  <2> QED  BY <1>0, <1>8, <2>8, <2>9
<1>9. CASE running.op = "undo"
  <2>1. /\ past' = Front(past) /\ future' = <<f>> \o future /\ past # <<>> /\ e = past[Len(past)]
    BY <1>2, <1>5, <1>9 DEF Record, f
  <2>2. PastFits(past) /\ FutureFits(past, future) /\ (together => PastCovers(past))
    BY DEF Owed
  <2>3. /\ PastFits(past') /\ Fits(e, Touched(past')) /\ (together' => PastCovers(past'))
    BY <1>0, <1>1, <2>1, <2>2, PastShrinks
  <2>4. Undoes(f) = Undoes(e)
    BY <1>4, <1>9 DEF Undoes
  <2>5. Fits(f, Touched(past'))
    BY <1>4, <1>9, <2>3 DEF Fits, Knew
  <2>6. FutureFits(past', future')
    BY <1>0, <1>4, <2>1, <2>2, <2>4, <2>5, FutureGrows
  <2>7. SameBut(t, layer[scope])
    <3>1. LandedUndoes = {}
      BY <1>9 DEF LandedUndoes, Landed
    <3> QED  BY <3>1 DEF Owed, t
  <2>8. t = Touched(past') \cup Undoes(e)
    BY <1>0, <2>1, BelowFront DEF t
  <2>9. SameBut(Touched(past'), layer[scope])
    <3> DEFINE touched == Touched(past')
    <3>1. /\ Fits(running.entry, touched)
          /\ SameBut(touched \cup Undoes(running.entry), layer[scope])
      BY <2>3, <2>7, <2>8 DEF e
    <3>2. UndoProgress /\ RemoveUndone
      BY DEF Owed
    <3> HIDE DEF touched
    <3>3. SameBut(touched, layer[scope])
      BY <1>0, <1>1, <1>9, <3>1, <3>2, UndoneLands
    <3> QED  BY <3>3 DEF touched
  <2>10. QueueFits(queue', Touched(past') \cup ActUndoes')
    BY <1>1, <1>6, <1>9, KeysFit
  <2>11. SameBut(Touched(past') \cup LandedUndoes', layer'[scope])
    BY <1>1, <1>3, <2>9
  <2> QED  BY <1>1, <1>3, <2>3, <2>6, <2>10, <2>11, OwedAfter
<1> QED  BY <1>8, <1>9

\* A new act was refused, or a call failed that left no act's fate in doubt.
LEMMA OwedGivenUp ==
  ASSUME BaseInv, CallsInv, Owed, Drop \/ Fail, sure'
  PROVE  Owed'
<1>1. /\ running' = NoJob /\ past' = past /\ future' = future /\ layer' = layer
      /\ base' = base /\ scope' = scope /\ together' = together /\ queue' = queue
  BY DEF Drop, Fail, server
<1>2. \A i \in 1..Len(queue) : queue[i].op # "execute"
  BY DEF Drop, Fail, NoActWaits
<1>3. LandedUndoes = {}
  BY DEF LandedUndoes, Landed, Drop, Fail, CallsInv
<1>4. /\ ~Landed' /\ LandedUndoes' = {} /\ ~InAct' /\ ActUndoes' = {}
      /\ UndoProgress' /\ RemoveUndone'
  BY <1>1 DEF Landed, LandedUndoes, InAct, ActUndoes, UndoProgress, UndoesAnApply, RemoveUndone
<1>5. QueueFits(queue', Touched(past') \cup ActUndoes')
  BY <1>1, <1>2, KeysFit
<1>6. /\ PastFits(past') /\ FutureFits(past', future') /\ (together' => PastCovers(past'))
      /\ SameBut(Touched(past') \cup LandedUndoes', layer'[scope])
  BY <1>1, <1>3, <1>4 DEF Owed
<1> QED  BY <1>1, <1>4, <1>5, <1>6, OwedAfter

\* The page believes in another coder, or in the same: the stacks begin anew.
LEMMA OwedRefresh ==
  ASSUME BaseInv, Refresh, sure'
  PROVE  Owed'
<1>1. /\ past' = <<>> /\ future' = <<>> /\ base' = layer[session] /\ scope' = session
      /\ queue' = queue /\ running' = NoJob /\ layer' = layer
      /\ \A i \in 1..Len(queue) : queue[i].op # "execute"
  BY DEF Refresh, Settled, server, NoActWaits
<1>2. Len(past') = 0 /\ Len(future') = 0
  BY <1>1
<1>3. /\ PastFits(past)' /\ FutureFits(past, future)' /\ PastCovers(past)'
  BY <1>2 DEF PastFits, FutureFits, PastCovers
<1>4. QueueFits(queue, Touched(past) \cup ActUndoes)'
  BY <1>1 DEF QueueFits
<1>5. SameBut(Touched(past) \cup LandedUndoes, layer[scope])'
  BY <1>1 DEF SameBut
<1>6. /\ ~Landed' /\ ~InAct' /\ UndoProgress' /\ RemoveUndone'
  BY <1>1 DEF Landed, InAct, UndoProgress, UndoesAnApply, RemoveUndone
<1> QED  BY <1>3, <1>4, <1>5, <1>6 DEF Owed, LandedFits

\* Every step keeps what undoing owes.
LEMMA OwesStep ==
  BaseInv /\ LostInv /\ BackInv /\ CallsInv /\ OrderInv /\ OwesInv /\ [HistoryNext]_vars => OwesInv'
<1> SUFFICES ASSUME BaseInv, LostInv, BackInv, CallsInv, OrderInv, OwesInv, [HistoryNext]_vars,
                    sure', session' = scope'
             PROVE  Owed'
  BY DEF OwesInv
<1>1. CASE Refresh
  BY <1>1, OwedRefresh
<1>2. ASSUME sure, session = scope
      PROVE  Owed /\ QueueFits(queue, Touched(past) \cup ActUndoes)
  BY <1>2 DEF OwesInv, Owed
<1>3. ASSUME NEW on \in Selection, NEW code \in Code, PressCode(on, code)
      PROVE  Owed'
  <2>1. sure /\ session = scope
    BY <1>3 DEF PressCode, server, page
  <2> QED  BY <1>2, <1>3, <2>1, OwedPress
<1>4. ASSUME NEW op \in {"undo", "redo"}, PressKey(op)
      PROVE  Owed'
  <2>1. sure /\ session = scope
    BY <1>4 DEF PressKey, server, page, owed
  <2> QED  BY <1>2, <1>4, <2>1, OwedKey
<1>5. CASE Start
  <2>1. sure /\ session = scope
    BY <1>5 DEF Start, server, owed
  <2> QED  BY <1>2, <1>5, <2>1, OwedStart
<1>6. CASE Serve
  <2>1. sure /\ session = scope
    BY <1>6 DEF Serve, page, owed
  <2> QED  BY <1>2, <1>6, <2>1, OwedRefused, OwedLanding, OwedUndoing
<1>7. CASE Continue
  <2>1. sure /\ session = scope
    BY <1>7 DEF Continue, server, page, owed
  <2> QED  BY <1>2, <1>7, <2>1, OwedContinue
<1>8. CASE Complete
  <2>1. sure /\ session = scope
    BY <1>8 DEF Complete, server, page
  <2> QED  BY <1>2, <1>8, <2>1, OwedComplete
<1>9. CASE Drop \/ Fail
  <2>1. sure /\ session = scope
    BY <1>9 DEF Drop, Fail, server
  <2> QED  BY <1>2, <1>9, <2>1, OwedGivenUp
<1>10. CASE ServeLate
  BY <1>10 DEF ServeLate, BackInv, NothingLate, owed
<1>11. CASE \E c \in Coder : Repoint(c)
  BY <1>11 DEF Repoint
<1>12. CASE Refetch \/ (\E c \in Code : Deactivate(c)) \/ DeleteSet \/ UNCHANGED vars
  <2>1. /\ sure /\ session = scope /\ base' = base /\ scope' = scope /\ past' = past
        /\ future' = future /\ (together' => together) /\ running' = running /\ layer' = layer
        /\ queue' = queue /\ (seen' = seen \/ running = NoJob)
    <3>1. CASE Refetch
      BY <3>1 DEF Refetch, server, hook, owed
    <3>2. CASE \E c \in Code : Deactivate(c)
      <4>1. PICK c \in Code : Deactivate(c)
        BY <3>2
      <4> QED  BY <4>1 DEF Deactivate, page, hook, owed
    <3>3. CASE DeleteSet
      BY <3>3 DEF DeleteSet, page, hook, owed
    <3>4. CASE UNCHANGED vars
      BY <3>4 DEF vars, server, page, hook, owed
    <3> QED  BY <1>12, <3>1, <3>2, <3>3, <3>4
  <2>2. QueueFits(queue', Touched(past) \cup ActUndoes)
    BY <1>2, <2>1
  <2> QED  BY <1>2, <2>1, <2>2, OwedFrame
<1> QED
  BY <1>1, <1>3, <1>4, <1>5, <1>6, <1>7, <1>8, <1>9, <1>10, <1>11, <1>12 DEF HistoryNext, HookNext

\* Undoing everything puts the coder's codings back as they were when the stacks
\* began: useHistory's stacks with planApplyUndo's inverses.
THEOREM UndoingIsRestoring == HistorySpec => []UndoneIsRestored
<1> DEFINE Inv == BaseInv /\ LostInv /\ BackInv /\ CallsInv /\ OrderInv /\ OwesInv
<1>1. HistoryInit => Inv
  BY BaseHolds, BackHolds, CallsHolds, OwesHolds
<1>2. Inv /\ [HistoryNext]_vars => Inv'
  BY BaseStep, LostStep, BackStep, CallsStep, OrderStep, OwesStep
<1>3. Inv => UndoneIsRestored
  <2> SUFFICES ASSUME Inv, sure, session = scope, running = NoJob, past = <<>>
               PROVE  layer[scope] = base
    BY DEF UndoneIsRestored
  <2>1. Touched(past) = {}
    <3>1. 1..Len(past) = {}
      OBVIOUS
    <3> QED  BY <3>1 DEF Touched
  <2>2. LandedUndoes = {}
    BY DEF LandedUndoes, Landed
  <2>3. SameBut({}, layer[scope])
    BY <2>1, <2>2 DEF OwesInv, Owed
  <2>4. layer[scope] \in SUBSET (Target \X Code) /\ base \subseteq Target \X Code
    BY DEF BaseInv, HistoryTypeOK, OrderInv
  <2> QED  BY <2>3, <2>4 DEF SameBut
<1> QED  BY <1>1, <1>2, <1>3, PTL DEF HistorySpec
=============================================================================
