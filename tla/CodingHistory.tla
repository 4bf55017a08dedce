--------------------------- MODULE CodingHistory ---------------------------
(***************************************************************************)
(* frontend/src/hooks/useHistory.ts on a coding page: the undo and redo    *)
(* stacks, the queue that runs one step after another, and the coder the   *)
(* stacks belong to.  The steps are the page's apply and remove of a code  *)
(* (pages/ObservationWorkbench.tsx, lib/apply-undo.ts): what a step's      *)
(* inverse does is fixed when the key is pressed, from the page's own copy *)
(* of the codings, and every call acts as the coder of the SESSION, which  *)
(* a coder switch re-points before the page hears of it.                   *)
(***************************************************************************)
EXTENDS Integers, Sequences, FiniteSets

CONSTANTS Coder,       \* who codes
          SignedIn,    \* the coder the page opens as
          Target,      \* segments or clips on the page
          Selection,   \* the selections a key may act on
          Code,        \* codes; all of them values of one code set
          NoJob,       \* nothing is running
          NoEntry,     \* the entry of an undo or redo that waits
          Begins,      \* the codings a coder may begin with
          MaxHistory,  \* MAX_HISTORY_SIZE
          MaxPresses, MaxKeys, MaxFaults, MaxSwitches  \* bounds of a run

ASSUME HistoryAssumption == MaxHistory \in Nat \ {0}
ASSUME CoderAssumption == SignedIn \in Coder
ASSUME SelectionAssumption == Selection \subseteq (SUBSET Target) \ {{}}
ASSUME BoundAssumption == {MaxPresses, MaxKeys, MaxFaults, MaxSwitches} \subseteq Nat
\* A coder holds one value of a set on a target.
OneValueEach(s) == \A p, q \in s : p[1] = q[1] => p = q
ASSUME BeginsAssumption == Begins \subseteq {s \in SUBSET (Target \X Code) : OneValueEach(s)}

VARIABLES
  \* the server
  session,     \* whom the session cookie acts as
  layer,       \* each coder's codings, as <<target, code>> pairs
  inactive,    \* codes somebody deactivated in the codebook
  together,    \* whether the codes are still values of one set
  late,        \* calls the page gave up on and the server may still run
  \* the page
  scope,       \* the coder the page believes in: useHistory's argument
  refreshing,  \* the switch was answered and refreshAuth is out
  seen,        \* the query cache: codings as the page paints them
  \* the hook
  past, future, queue, running, generation,
  \* bounds; the coder's codings when the stacks began; and whether undoing
  \* everything owes exactly those
  presses, keys, faults, switches, base, sure

server == <<session, layer, inactive, together, late>>
page == <<scope, refreshing, seen>>
hook == <<past, future, queue, running, generation>>
bounds == <<presses, keys, faults, switches>>
owed == <<base, sure>>
vars == <<server, page, hook, bounds, owed>>

Call == [do : {"apply", "remove"}, code : Code, on : SUBSET Target]
Entry == [n : 1..MaxPresses, by : Coder, kind : {"apply", "remove"}, code : Code,
          on : SUBSET Target, held : SUBSET Target,
          lost : SUBSET (Target \X Code), as : SUBSET Coder]
Job == [op : {"execute"}, entry : Entry] \cup [op : {"undo", "redo"}, entry : {NoEntry}]
Running == [op : {"execute", "undo", "redo"}, entry : Entry, gen : Nat, call : Call,
            at : {"sent", "served", "refused"}, gave : SUBSET (Target \X Code),
            todo : SUBSET Code, behind : SUBSET Target, as : SUBSET Coder,
            snap : [Coder -> SUBSET (Target \X Code)], fresh : BOOLEAN]
ASSUME NoJobAssumption == NoJob \notin Running

------------------------------------------------------------------------------
\* The server: routers/coding.py, services/code_sets.py.

On(targets, code) == targets \X {code}

\* clear_rivals_before_apply: this coder's other values of the set, there.
Rivals(c, call) ==
  IF together /\ call.do = "apply"
  THEN {p \in layer[c] : p[1] \in call.on /\ p[2] # call.code} ELSE {}

Recoded(c, call) ==
  IF call.do = "remove" THEN layer[c] \ On(call.on, call.code)
  ELSE (layer[c] \ Rivals(c, call)) \cup On(call.on, call.code)

Refuses(call) == call.do = "apply" /\ call.code \in inactive

------------------------------------------------------------------------------
\* lib/apply-undo.ts: planApplyUndo and runApplyUndo.

Lost(e, t) == {c \in Code : <<t, c>> \in e.lost}
Restores(e, t) == CHOOSE c \in Lost(e, t) : TRUE
Replaced(e) == {t \in e.on \ e.held : Lost(e, t) # {}}
RemoveFrom(e) == {t \in e.on \ e.held : Lost(e, t) = {}}
RestoreOn(e, c) == {t \in Replaced(e) : Restores(e, t) = c}
ToRestore(e) == {c \in Code : RestoreOn(e, c) # {}}

CallOf(do, code, on) == [do |-> do, code |-> code, on |-> on]

\* Mutant: what the act added is removed before what it replaced is put back.
UndoCallsRemovingFirst(e, todo, behind) ==
  IF e.kind = "remove" THEN {CallOf("apply", e.code, e.on)}
  ELSE IF todo = ToRestore(e) /\ behind = {} /\ \E t \in e.on : <<t, e.code>> \in layer[session]
  THEN {CallOf("remove", e.code, e.on \ e.held)}
  ELSE IF todo # {} THEN {CallOf("apply", c, RestoreOn(e, c)) : c \in todo}
  ELSE {CallOf("remove", e.code, e.on \ e.held)}

\* The next call of an inverse: the replaced values first, each one's report
\* checked, and the removal last.
UndoCalls(e, todo, behind) ==
  IF e.kind = "remove" THEN {CallOf("apply", e.code, e.on)}
  ELSE IF todo # {} THEN {CallOf("apply", c, RestoreOn(e, c)) : c \in todo}
  ELSE {CallOf("remove", e.code, RemoveFrom(e) \cup behind)}

LeftNothingBehind(r) == {}  \* mutant: the report is not read
\* Targets whose re-apply did not report the undone value as replaced.
LeftBehind(r) == {t \in r.call.on : <<t, r.entry.code>> \notin r.gave}

IsRestore(r) == r.op = "undo" /\ r.entry.kind = "apply" /\ r.call.do = "apply"
TodoAfter(r) == IF IsRestore(r) THEN r.todo \ {r.call.code} ELSE r.todo
BehindAfter(r) == IF IsRestore(r) THEN r.behind \cup LeftBehind(r) ELSE r.behind
AllDone(r) == \/ ~IsRestore(r)
              \/ TodoAfter(r) = {} /\ RemoveFrom(r.entry) \cup BehindAfter(r) = {}

------------------------------------------------------------------------------
\* The page.  A key on one selection: handleCodeToggle.

Held(code) == {t \in Target : <<t, code>> \in seen[scope]}

NewEntry(on, code) ==
  [n |-> presses + 1, by |-> scope, code |-> code, on |-> on,
   kind |-> IF on \subseteq Held(code) THEN "remove" ELSE "apply",
   held |-> on \cap Held(code), lost |-> {}, as |-> {}]

\* What the page shows is not what the act will find: an undo or a redo is
\* queued or running, or the list was not fetched again since the last answer.
Outdated == \/ running # NoJob /\ (running.op # "execute" \/ ~running.fresh)
            \/ running = NoJob /\ seen # layer
            \/ \E i \in 1..Len(queue) : queue[i].op # "execute"

PressCode(on, code) ==
  /\ presses < MaxPresses
  /\ presses' = presses + 1
  /\ queue' = Append(queue, [op |-> "execute", entry |-> NewEntry(on, code)])
  /\ sure' = (sure /\ ~Outdated)
  /\ UNCHANGED <<server, page, past, future, running, generation, keys, faults, switches, base>>

PressKey(op) ==
  /\ keys < MaxKeys
  /\ keys' = keys + 1
  /\ queue' = Append(queue, [op |-> op, entry |-> NoEntry])
  /\ UNCHANGED <<server, page, past, future, running, generation, presses, faults, switches, owed>>

\* patchClipCodes: the paint of runOptimisticCall.  The inverse of an apply is
\* not painted.
Painted(r) == r.op # "undo" \/ r.entry.kind = "remove"
Paint(r) ==
  IF ~Painted(r) THEN seen
  ELSE [seen EXCEPT ![r.entry.by] =
          IF r.call.do = "apply" THEN @ \cup On(r.call.on, r.call.code)
          ELSE @ \ On(r.call.on, r.call.code)]

Begun(op, e, call) ==
  [op |-> op, entry |-> e, gen |-> generation, call |-> call, at |-> "sent", gave |-> {},
   todo |-> IF op = "undo" /\ e.kind = "apply" THEN ToRestore(e) ELSE {},
   behind |-> {}, as |-> {}, snap |-> seen, fresh |-> seen = layer]

\* The entry and the calls a job begins with.  Which entry an undo or a redo
\* is about is read when its turn comes, never when the key is pressed.
FirstCalls(job) ==
  IF job.op = "execute"
  THEN {<<job.entry, CallOf(job.entry.kind, job.entry.code, job.entry.on)>>}
  ELSE IF job.op = "undo" /\ past # <<>>
  THEN LET e == past[Len(past)] IN {<<e, c>> : c \in UndoCalls(e, ToRestore(e), {})}
  ELSE IF job.op = "redo" /\ future # <<>>
  THEN LET e == Head(future) IN {<<e, CallOf(e.kind, e.code, e.on)>>}
  ELSE {}

\* The chain's next link: it starts when the one before it is over.
Start ==
  /\ running = NoJob
  /\ queue # <<>>
  /\ queue' = Tail(queue)
  /\ LET job == Head(queue) IN
     IF FirstCalls(job) = {} THEN UNCHANGED <<running, seen>>
     ELSE \E first \in FirstCalls(job) :
            /\ running' = Begun(job.op, first[1], first[2])
            /\ seen' = Paint(running')
  /\ UNCHANGED <<server, scope, refreshing, past, future, generation, bounds, owed>>

\* The call reaches the server and is committed or refused there.
Serve ==
  /\ running # NoJob
  /\ running.at = "sent"
  /\ IF Refuses(running.call)
     THEN /\ running' = [running EXCEPT !.at = "refused"]
          /\ UNCHANGED layer
     ELSE /\ running' = [running EXCEPT !.at = "served",
                                        !.gave = Rivals(session, running.call),
                                        !.as = @ \cup {session}]
          /\ layer' = [layer EXCEPT ![session] = Recoded(session, running.call)]
  /\ UNCHANGED <<session, inactive, together, late, page, past, future, queue, generation,
                 bounds, owed>>

\* The answer of a call that is not the step's last: the next one goes out.
Continue ==
  /\ running # NoJob
  /\ running.at = "served"
  /\ ~AllDone(running)
  /\ \E c \in UndoCalls(running.entry, TodoAfter(running), BehindAfter(running)) :
       running' = [running EXCEPT !.call = c, !.at = "sent", !.gave = {},
                                  !.todo = TodoAfter(running), !.behind = BehindAfter(running)]
  /\ UNCHANGED <<server, page, past, future, queue, generation, bounds, owed>>

\* The step as it is recorded: redo() stored what the server replaced.
Finished(r) ==
  [r.entry EXCEPT !.as = @ \cup r.as,
                  !.lost = IF r.op # "undo" /\ r.entry.kind = "apply" THEN r.gave ELSE @]

Front(s) == SubSeq(s, 1, Len(s) - 1)
Pushed(s, e) == LET t == Append(s, e)
                IN IF Len(t) > MaxHistory THEN Tail(t) ELSE t

\* Mutant: the undone step is offered again and stays where it was.
RecordLeavingIt(r) ==
  LET e == Finished(r) IN
  \/ r.op = "execute" /\ past' = Pushed(past, e) /\ future' = <<>>
  \/ r.op = "undo" /\ past' = past /\ future' = <<e>> \o future
  \/ r.op = "redo" /\ past' = Pushed(past, e) /\ future' = Tail(future)

\* The stacks after a step that succeeded.
Record(r) ==
  LET e == Finished(r) IN
  \/ r.op = "execute" /\ past' = Pushed(past, e) /\ future' = <<>>
  \/ r.op = "undo" /\ past' = Front(past) /\ future' = <<e>> \o future
  \/ r.op = "redo" /\ past' = Pushed(past, e) /\ future' = Tail(future)

AlwaysMine(r) == TRUE  \* mutant: the generation is not compared
\* Whether the stacks are still those the step began under: generationRef.
StillMine(r) == r.gen = generation

Complete ==
  /\ running # NoJob
  /\ running.at = "served"
  /\ AllDone(running)
  /\ IF StillMine(running) THEN Record(running) ELSE UNCHANGED <<past, future>>
  /\ sure' = (sure /\ (running.op = "execute" => Len(past') = Len(past) + 1)
                   /\ (running.op = "redo" => together \/ running.entry.lost = {}))
  /\ running' = NoJob
  /\ UNCHANGED <<server, page, queue, generation, bounds, base>>

\* A painted step that failed restores the cache it found.
RolledBack == IF Painted(running) THEN running.snap ELSE seen

NoActWaits == \A i \in 1..Len(queue) : queue[i].op # "execute"

\* The server refused (isServerRefusal): the entry of an undo or a redo leaves
\* the timeline, a new act leaves no trace.
Drop ==
  /\ running # NoJob
  /\ running.at = "refused"
  /\ past' = IF running.op = "undo" /\ StillMine(running) THEN Front(past) ELSE past
  /\ future' = IF running.op = "redo" /\ StillMine(running) THEN Tail(future) ELSE future
  /\ sure' = (sure /\ running.op = "execute" /\ NoActWaits)
  /\ seen' = RolledBack
  /\ running' = NoJob
  /\ UNCHANGED <<server, scope, refreshing, queue, generation, bounds, base>>

\* Mutant: a step that failed never resolves, and the chain waits for it.
FailUnresolved ==
  /\ running # NoJob
  /\ running.at = "sent"
  /\ faults < MaxFaults
  /\ faults' = faults + 1
  /\ running' = [running EXCEPT !.at = "failed"]
  /\ sure' = FALSE
  /\ UNCHANGED <<server, page, past, future, queue, generation, presses, keys, switches, base>>

\* The call failed otherwise: it never arrived, the page stopped waiting for
\* it, or its answer was lost.  The stacks are left as they were.
Fail ==
  /\ running # NoJob
  /\ running.at # "refused"
  /\ faults < MaxFaults
  /\ faults' = faults + 1
  /\ \/ late' = late
     \/ running.at = "sent" /\ late' = late \cup {running.call}
  /\ sure' = (sure /\ late' = {} /\ NoActWaits /\ (running.op = "undo" \/ running.as = {}))
  /\ seen' = RolledBack
  /\ running' = NoJob
  /\ UNCHANGED <<session, layer, inactive, together, scope, refreshing, past, future, queue,
                 generation, presses, keys, switches, base>>

\* The server runs a call nobody waits for any more.
ServeLate ==
  \E call \in late :
    /\ late' = late \ {call}
    /\ layer' = IF Refuses(call) THEN layer
                ELSE [layer EXCEPT ![session] = Recoded(session, call)]
    /\ UNCHANGED <<session, inactive, together, page, hook, bounds, owed>>

\* The list is fetched again once a call has settled; a key may come first.
Refetch ==
  /\ running = NoJob
  /\ seen # layer
  /\ seen' = layer
  /\ UNCHANGED <<server, scope, refreshing, hook, bounds, owed>>

------------------------------------------------------------------------------
\* Switching coder: useCoderSwitch, routers/auth.py, refreshAuth, and the
\* hook's effect on its scope.

\* The session is re-pointed; its answer may be lost.
Repoint(c) ==
  /\ c # scope
  /\ ~refreshing
  /\ switches < MaxSwitches
  /\ switches' = switches + 1
  /\ session' = c
  /\ \/ refreshing' = TRUE /\ faults' = faults
     \/ refreshing' = FALSE /\ faults < MaxFaults /\ faults' = faults + 1
  /\ UNCHANGED <<layer, inactive, together, late, scope, seen, hook, presses, keys, owed>>

\* Nothing is under way or in doubt, and the page's copy is the server's.
Settled == running = NoJob /\ late = {} /\ NoActWaits /\ seen = layer

\* refreshAuth is answered.  Where the coder changed, both stacks are cleared
\* and what is under way belongs to none.
Refresh ==
  /\ refreshing
  /\ refreshing' = FALSE
  /\ scope' = session
  /\ past' = <<>>
  /\ future' = <<>>
  /\ generation' = generation + 1
  /\ base' = layer[session]
  /\ sure' = Settled
  /\ UNCHANGED <<server, seen, queue, running, bounds>>

------------------------------------------------------------------------------
\* Meanwhile, in the codebook.

Deactivate(c) ==
  /\ faults < MaxFaults
  /\ c \notin inactive
  /\ faults' = faults + 1
  /\ inactive' = inactive \cup {c}
  /\ UNCHANGED <<session, layer, together, late, page, hook, presses, keys, switches, owed>>

DeleteSet ==
  /\ together
  /\ faults < MaxFaults
  /\ faults' = faults + 1
  /\ together' = FALSE
  /\ UNCHANGED <<session, layer, inactive, late, page, hook, presses, keys, switches, owed>>

------------------------------------------------------------------------------
HistoryInit ==
  /\ session = SignedIn
  /\ layer \in [Coder -> Begins]
  /\ inactive = {}
  /\ together = TRUE
  /\ late = {}
  /\ scope = session
  /\ refreshing = FALSE
  /\ seen = layer
  /\ past = <<>> /\ future = <<>> /\ queue = <<>>
  /\ running = NoJob
  /\ generation = 0
  /\ presses = 0 /\ keys = 0 /\ faults = 0 /\ switches = 0
  /\ base = layer[session]
  /\ sure = TRUE

HookNext == Start \/ Serve \/ Continue \/ Complete \/ Drop

HistoryNext ==
  \/ \E on \in Selection, code \in Code : PressCode(on, code)
  \/ \E op \in {"undo", "redo"} : PressKey(op)
  \/ HookNext \/ Fail \/ ServeLate \/ Refetch
  \/ \E c \in Coder : Repoint(c)
  \/ Refresh
  \/ \E c \in Code : Deactivate(c)
  \/ DeleteSet

HistorySpec == HistoryInit /\ [][HistoryNext]_vars

\* A call is answered or given up on (client.ts bounds every one), and the
\* chain runs its next link when the one before it is over.
FairHistorySpec == HistorySpec /\ WF_vars(HookNext)

------------------------------------------------------------------------------
\* Type invariant.
HistoryTypeOK ==
  /\ session \in Coder /\ scope \in Coder
  /\ layer \in [Coder -> SUBSET (Target \X Code)]
  /\ seen \in [Coder -> SUBSET (Target \X Code)]
  /\ late \subseteq Call
  /\ past \in Seq(Entry) /\ future \in Seq(Entry) /\ queue \in Seq(Job)
  /\ running \in Running \cup {NoJob}
  /\ generation \in Nat /\ presses \in 0..MaxPresses

\* A step is in one place: never on both stacks, never twice on one, and never
\* on a stack while it still waits for its first run (useHistory.ts: "two quick
\* undo()s would have undone the SAME entry twice").
Steps == past \o future
EachStepOnce ==
  /\ \A i, j \in 1..Len(Steps) : Steps[i].n = Steps[j].n => i = j
  /\ \A i \in 1..Len(queue), j \in 1..Len(Steps) :
       queue[i].op = "execute" => queue[i].entry.n # Steps[j].n

\* Once the page and the session agree on the coder, every step that can be
\* undone or redone was run as that coder and as nobody else, whatever was in
\* flight or queued while the coder was being switched.
StacksAreTheCoders ==
  session = scope => \A i \in 1..Len(Steps) : Steps[i].as \subseteq {scope}

\* Undoing everything puts the coder's codings back as they were when the
\* stacks began, in every order of queued keys, and across replaced values of a
\* code set that is deleted meanwhile.  It holds over an undo that
\* failed half-way and was tried again.  (sure: the stacks began with nothing in
\* doubt, no act's or redo's fate was left in doubt since, no entry was
\* dropped or trimmed, no act was pressed while an undo or a redo waited or the
\* list was not fetched again, and none over the paint of a step that failed,
\* and no act that had replaced a value was redone after its set was deleted.)
UndoneIsRestored ==
  sure /\ session = scope /\ running = NoJob /\ past = <<>> => layer[scope] = base

\* The inverse of an apply that replaced a value never leaves the coder without
\* any value there, not even between its calls or when one of them fails
\* (apply-undo.ts: "an exhaustive set must not pass through empty").
Valued(c, t) == \E code \in Code : <<t, code>> \in layer[c]
UndoKeepsAValue ==
  [][running # NoJob /\ running.op = "undo" /\ running.entry.kind = "apply"
     /\ running.as \subseteq {session} /\ sure
     => \A c \in {session}, t \in Replaced(running.entry) : Valued(c, t) => Valued(c, t)']_vars

\* Whatever is pressed is run: no step that failed or was refused holds up the
\* ones queued behind it.
AllSettles == []<>(running = NoJob /\ queue = <<>>)

------------------------------------------------------------------------------
\* Two statements of the source that no run of this project claims, because TLC
\* refutes them on the instance of MCCodingHistory (README, section 5).

\* useHistory.ts of a switch: a step acts as the coder who was active when it was
\* pressed.
RanAsThePresser ==
  running # NoJob => running.as \subseteq {running.entry.by}

\* apply-undo.ts of an inverse: undoing never destroys a coding the coder
\* had before the acts that are undone.
UndoSparesEarlierCodings ==
  faults = 0 /\ switches = 0 /\ running = NoJob /\ past = <<>> => base \subseteq layer[scope]
=============================================================================
