------------------------- MODULE RestoreSwapProofs -------------------------
(***************************************************************************)
(* Proofs about RestoreSwap, for any finite set of threads, any set of     *)
(* writes and any number of restores.  A connection lives in a slot and a  *)
(* restore is alone in its slot, so closing its own session and emptying   *)
(* the pool leaves no connection at all: that is the argument the code     *)
(* makes, and SInv is that argument.                                       *)
(***************************************************************************)
EXTENDS RestoreSwap, RestoreGateProofs

\* Between the first dispose and the second nothing is left in the pool.
PoolEmpty == {"disposed", "saved", "swapped", "failed", "fresh"}

ConnectedInSlot == \A t \in Thread : conn[t] # NoConn => pc[t] \in HoldsSlot
CopiesInSlot == \A w \in Worker : copying[w] # NoCopy => pc[w] = "in"
StepsInside == \A r \in Request : step[r] # "none" => pc[r] = "exclusive"
SessionClosed == \A r \in Request : step[r] \notin {"none", "audited"} => conn[r] = NoConn
PoolIsEmpty == \A r \in Request : step[r] \in PoolEmpty => Idle = {}
SavedFirst == \A r \in Request : step[r] = "saved" => rows[file] \in archives
CopiesOfTheFile == \A w \in Worker : copying[w] # NoCopy => copying[w].rows \subseteq rows[file]

SInv == /\ IInv
        /\ SwapTypeOK
        /\ ConnectedInSlot
        /\ CopiesInSlot
        /\ StepsInside
        /\ SessionClosed
        /\ PoolIsEmpty
        /\ ServedFromTheFile
        /\ SavedFirst
        /\ CopiesOfTheFile
        /\ AckedIsKept
-----------------------------------------------------------------------------
(* Steps of the composition are steps of the gate *)

\* What the composition does to the gate, the gate allows.
LEMMA SwapStepIsGateStep == [SwapNext]_swapVars => [GateNext]_gateVars
<1>1. ASSUME NEW t \in Thread, Serve(t) PROVE GateNext
  BY <1>1 DEF Serve, GateNext
<1>2. ASSUME NEW r \in Request, Gated(r) \/ EndRestore(r) PROVE GateNext
  BY <1>2 DEF Gated, EndRestore, GateNext
<1>3. ASSUME NEW t \in Thread, \/ CheckOut(t) \/ CheckIn(t)
                               \/ \E w \in Write : Save(t, w)
      PROVE  UNCHANGED gateVars
  BY <1>3 DEF CheckOut, CheckIn, Save
<1>4. ASSUME NEW w \in Worker, BeginCopy(w) \/ EndCopy(w) PROVE UNCHANGED gateVars
  BY <1>4 DEF BeginCopy, EndCopy
<1>5. ASSUME NEW r \in Request,
             \/ Audit(r) \/ CloseSession(r) \/ DisposeBefore(r) \/ SaveBefore(r)
             \/ Swap(r) \/ FailRestore(r) \/ DisposeAfter(r) \/ Repair(r)
      PROVE  UNCHANGED gateVars
  BY <1>5 DEF Audit, CloseSession, DisposeBefore, SaveBefore, Swap, FailRestore,
              DisposeAfter, Repair
<1> QED
  BY <1>1, <1>2, <1>3, <1>4, <1>5 DEF SwapNext, swapVars

\* While a restore has the database nobody else has a session or a backup.
LEMMA NobodyElse ==
  ASSUME SInv, NEW r \in Request, pc[r] = "exclusive"
  PROVE  /\ \A t \in Thread : t # r => pc[t] \notin HoldsSlot /\ conn[t] = NoConn
         /\ \A w \in Worker : copying[w] = NoCopy
<1>1. Holders = {r}
  BY DEF SInv, IInv, ExclusiveIsAlone
<1>2. ASSUME NEW t \in Thread, t # r PROVE pc[t] \notin HoldsSlot /\ conn[t] = NoConn
  BY <1>1, <1>2 DEF Holders, SInv, ConnectedInSlot
<1>3. ASSUME NEW w \in Worker PROVE copying[w] = NoCopy
  <2>1. w \in Thread /\ w # r
    BY ThreadAssumption DEF Thread
  <2>2. pc[w] # "in"
    BY <1>2, <2>1 DEF HoldsSlot
  <2> QED
    BY <2>2 DEF SInv, CopiesInSlot
<1> QED
  BY <1>2, <1>3

\* Between the two dispose calls there is no connection of any kind.
LEMMA NoConnections ==
  ASSUME SInv, NEW r \in Request, step[r] \in PoolEmpty
  PROVE  /\ pc[r] = "exclusive"
         /\ Idle = {}
         /\ \A t \in Thread : conn[t] = NoConn
         /\ \A w \in Worker : copying[w] = NoCopy
<1>1. pc[r] = "exclusive" /\ Idle = {} /\ conn[r] = NoConn
  BY DEF SInv, StepsInside, PoolIsEmpty, SessionClosed, PoolEmpty
<1> QED
  BY <1>1, NobodyElse

\* Nobody is served while a restore has the database.
LEMMA NoRestoreUnderWay ==
  ASSUME SInv, NEW t \in Thread, pc[t] = "in"
  PROVE  \A r \in Request : step[r] = "none"
<1> SUFFICES ASSUME NEW r \in Request, step[r] # "none" PROVE FALSE
  OBVIOUS
<1>1. pc[r] = "exclusive"
  BY DEF SInv, StepsInside
<1> QED
  BY <1>1, NobodyElse DEF HoldsSlot

\* Nor does any other restore, whatever it was doing.
LEMMA OnlyRestore ==
  ASSUME SInv, NEW r \in Request, pc[r] = "exclusive"
  PROVE  \A s \in Request : s # r => step[s] = "none"
<1> SUFFICES ASSUME NEW s \in Request, s # r, step[s] # "none" PROVE FALSE
  OBVIOUS
<1>1. pc[s] = "exclusive" /\ s \in Thread
  BY DEF SInv, StepsInside, Thread
<1> QED
  BY <1>1, NobodyElse DEF HoldsSlot
-----------------------------------------------------------------------------
(* The inductive invariant *)

\* At the start no connection is open and nothing is under way.
LEMMA InitSInv == SwapInit => SInv
<1> SUFFICES ASSUME SwapInit PROVE SInv
  OBVIOUS
<1>1. IInv
  BY InitIInv DEF SwapInit
<1>2. SwapTypeOK
  BY <1>1, SwapAssumption DEF SwapInit, IInv, SwapTypeOK, File, Step
<1>3. Idle = {}
  BY DEF SwapInit, Idle
<1>4. \A t \in Thread : conn[t] = NoConn
  BY DEF SwapInit
<1>5. \A w \in Worker : copying[w] = NoCopy
  BY DEF SwapInit
<1>6. \A r \in Request : step[r] = "none"
  BY DEF SwapInit
<1>7. AckedIsKept
  BY DEF SwapInit, AckedIsKept
<1> QED
  BY <1>1, <1>2, <1>3, <1>4, <1>5, <1>6, <1>7
     DEF SInv, ConnectedInSlot, CopiesInSlot, StepsInside, SessionClosed, PoolIsEmpty,
         ServedFromTheFile, SavedFirst, CopiesOfTheFile, PoolEmpty

\* The gate's own steps: only a leave gives a slot back, and it gives back none
\* that a connection or a copy lives in.
LEMMA GatePreserves ==
  ASSUME SInv, IInv',
         (\E t \in Thread : Serve(t)) \/ (\E r \in Request : Gated(r))
  PROVE  SInv'
<1>0. /\ UNCHANGED <<file, rows, idle, conn, step, copying, archives, acked>>
      /\ pc \in [Thread -> Where]
      /\ Request \subseteq Thread /\ Worker \subseteq Thread /\ Request \cap Worker = {}
  BY ThreadAssumption DEF Serve, Gated, dbVars, SInv, IInv, GateTypeOK, Thread
<1>1. SwapTypeOK'
  BY <1>0 DEF SInv, SwapTypeOK, IInv
<1>2. ConnectedInSlot' /\ CopiesInSlot' /\ StepsInside'
  <2>1. ASSUME NEW t \in Thread, Serve(t)
        PROVE  ConnectedInSlot' /\ CopiesInSlot' /\ StepsInside'
    BY <1>0, <2>1
    DEF Serve, Admit, TurnAway, GoAway, Leave, HoldsSlot, SInv, ConnectedInSlot,
        CopiesInSlot, StepsInside
  <2>2. ASSUME NEW r \in Request, Gated(r)
        PROVE  ConnectedInSlot' /\ CopiesInSlot' /\ StepsInside'
    BY <1>0, <2>2
    DEF Gated, AlreadyRestoring, StopAdmitting, TakeDatabase, SleepAgain, GiveUp, HoldsSlot,
        SInv, ConnectedInSlot, CopiesInSlot, StepsInside
  <2> QED
    BY <2>1, <2>2
<1>3. SessionClosed' /\ PoolIsEmpty' /\ ServedFromTheFile'
  BY <1>0 DEF SInv, SessionClosed, PoolIsEmpty, ServedFromTheFile, Idle
<1>4. SavedFirst' /\ CopiesOfTheFile' /\ AckedIsKept'
  BY <1>0 DEF SInv, SavedFirst, CopiesOfTheFile, AckedIsKept
<1> QED
  BY <1>1, <1>2, <1>3, <1>4 DEF SInv

\* Sessions and backups run while no restore is under way.
LEMMA ServingPreserves ==
  ASSUME SInv, IInv',
         \/ \E t \in Thread : CheckOut(t) \/ CheckIn(t) \/ \E w \in Write : Save(t, w)
         \/ \E w \in Worker : BeginCopy(w) \/ EndCopy(w)
  PROVE  SInv'
<1>0. /\ UNCHANGED <<pc, file, step>>
      /\ SwapTypeOK /\ ConnectedInSlot /\ CopiesInSlot /\ ServedFromTheFile
      /\ CopiesOfTheFile /\ AckedIsKept
  BY DEF CheckOut, CheckIn, Save, BeginCopy, EndCopy, gateVars, SInv
<1>1. \A r \in Request : step'[r] = "none"
  BY <1>0, NoRestoreUnderWay DEF CheckOut, CheckIn, Save, BeginCopy, EndCopy, Thread
<1>2. StepsInside' /\ SessionClosed' /\ PoolIsEmpty' /\ SavedFirst'
  BY <1>1 DEF StepsInside, SessionClosed, PoolIsEmpty, SavedFirst, PoolEmpty
<1>3. ASSUME NEW t \in Thread, CheckOut(t) \/ CheckIn(t) \/ \E w \in Write : Save(t, w)
      PROVE  SInv'
  <2>1. CASE CheckOut(t)
    <3>1. SwapTypeOK'
      <4>1. idle' \in [File -> Nat]
        BY <1>0, <2>1 DEF SwapTypeOK, CheckOut, Idle
      <4>2. conn' \in [Thread -> [file : File, pooled : BOOLEAN] \cup {NoConn}]
        <5>1. PICK f \in File : conn' = [conn EXCEPT ![t] = [file |-> f, pooled |-> TRUE]]
          BY <1>0, <2>1 DEF SwapTypeOK, CheckOut, Idle
        <5>2. [file |-> f, pooled |-> TRUE] \in [file : File, pooled : BOOLEAN]
          OBVIOUS
        <5> QED
          BY <1>0, <5>1, <5>2 DEF SwapTypeOK
      <4> QED
        BY <1>0, <2>1, <4>1, <4>2 DEF SwapTypeOK, CheckOut, IInv
    <3>2. ServedFromTheFile'
      BY <1>0, <2>1 DEF SwapTypeOK, ServedFromTheFile, CheckOut, Idle
    <3>3. ConnectedInSlot' /\ CopiesInSlot' /\ CopiesOfTheFile' /\ AckedIsKept'
      BY <1>0, <2>1
      DEF SwapTypeOK, ConnectedInSlot, CopiesInSlot, CopiesOfTheFile, AckedIsKept,
          CheckOut, HoldsSlot
    <3> QED
      BY <1>2, <3>1, <3>2, <3>3 DEF SInv
  <2>2. CASE CheckIn(t)
    <3>0. conn[t].file = file /\ conn[t] \in [file : File, pooled : BOOLEAN]
      BY <1>0, <2>2 DEF SwapTypeOK, ServedFromTheFile, CheckIn
    <3>1. SwapTypeOK'
      BY <1>0, <2>2, <3>0 DEF SwapTypeOK, CheckIn, GivenBack, IInv
    <3>2. ServedFromTheFile'
      BY <1>0, <2>2, <3>0 DEF SwapTypeOK, ServedFromTheFile, CheckIn, GivenBack, Idle
    <3>3. ConnectedInSlot' /\ CopiesInSlot' /\ CopiesOfTheFile' /\ AckedIsKept'
      BY <1>0, <2>2
      DEF SwapTypeOK, ConnectedInSlot, CopiesInSlot, CopiesOfTheFile, AckedIsKept, CheckIn
    <3> QED
      BY <1>2, <3>1, <3>2, <3>3 DEF SInv
  <2>3. ASSUME NEW w \in Write, Save(t, w) PROVE SInv'
    <3>0. conn[t].file = file
      BY <1>0, <2>3 DEF ServedFromTheFile, Save
    <3>1. rows' = [rows EXCEPT ![file] = @ \cup {w}] /\ acked' = acked \cup {w}
      BY <2>3, <3>0 DEF Save
    <3>2. SwapTypeOK'
      BY <1>0, <2>3, <3>1 DEF SwapTypeOK, Save, IInv
    <3>3. ServedFromTheFile' /\ ConnectedInSlot' /\ CopiesInSlot'
      BY <1>0, <2>3 DEF ServedFromTheFile, ConnectedInSlot, CopiesInSlot, Idle, Save
    <3>4. rows'[file] = rows[file] \cup {w}
      BY <1>0, <3>1 DEF SwapTypeOK
    <3>5. CopiesOfTheFile' /\ AckedIsKept'
      BY <1>0, <2>3, <3>1, <3>4 DEF CopiesOfTheFile, AckedIsKept, Save
    <3> QED
      BY <1>2, <3>2, <3>3, <3>5 DEF SInv
  <2> QED
    BY <1>3, <2>1, <2>2, <2>3
<1>4. ASSUME NEW w \in Worker, BeginCopy(w) \/ EndCopy(w) PROVE SInv'
  <2>1. SwapTypeOK'
    BY <1>0, <1>4 DEF SwapTypeOK, BeginCopy, EndCopy, IInv
  <2>2. ServedFromTheFile' /\ ConnectedInSlot' /\ CopiesInSlot'
    BY <1>0, <1>4 DEF SwapTypeOK, ServedFromTheFile, ConnectedInSlot, CopiesInSlot, Idle,
                      BeginCopy, EndCopy
  <2>3. CopiesOfTheFile' /\ AckedIsKept'
    BY <1>0, <1>4 DEF SwapTypeOK, CopiesOfTheFile, AckedIsKept, BeginCopy, EndCopy
  <2> QED
    BY <1>2, <2>1, <2>2, <2>3 DEF SInv
<1> QED
  BY <1>3, <1>4

\* A restore's steps before the swap, and its failure: nobody else has a
\* connection, so closing its own and emptying the pool leaves none.
LEMMA BeforePreserves ==
  ASSUME SInv, IInv', NEW r \in Request,
         \/ Audit(r) \/ CloseSession(r) \/ DisposeBefore(r) \/ SaveBefore(r)
         \/ FailRestore(r)
  PROVE  SInv'
<1>0. /\ UNCHANGED <<pc, file, rows, copying, acked>>
      /\ pc[r] = "exclusive" /\ r \in Thread
      /\ step' = [step EXCEPT ![r] = step'[r]] /\ step'[r] \in Step
      /\ archives' = archives \/ archives' = archives \cup {rows[file]}
      /\ SwapTypeOK
  BY DEF Audit, CloseSession, DisposeBefore, SaveBefore, FailRestore, At, Go, gateVars,
         SInv, SwapTypeOK, Step, Thread
<1>1. \A s \in Request : s # r => step[s] = "none" /\ step'[s] = "none"
  BY <1>0, OnlyRestore DEF SwapTypeOK
<1>2. \A t \in Thread : t # r => conn[t] = NoConn
  BY <1>0, NobodyElse
<1>3. conn[r] # NoConn => conn[r].file = file /\ file \in File
  BY <1>0 DEF SInv, ServedFromTheFile, SwapTypeOK
<1>4. StepsInside' /\ CopiesInSlot'
  BY <1>0, <1>1 DEF StepsInside, CopiesInSlot, SInv
<1>5. CopiesOfTheFile' /\ AckedIsKept'
  BY <1>0 DEF CopiesOfTheFile, AckedIsKept, SInv
<1>6. archives' \subseteq SUBSET Write
  BY <1>0 DEF SwapTypeOK
<1>7. CASE Audit(r) \/ SaveBefore(r) \/ FailRestore(r)
  <2>1. UNCHANGED <<idle, conn>>
    BY <1>7 DEF Audit, SaveBefore, FailRestore
  <2>2. SwapTypeOK' /\ ConnectedInSlot' /\ ServedFromTheFile'
    BY <1>0, <1>6, <2>1
    DEF SInv, SwapTypeOK, ConnectedInSlot, ServedFromTheFile, Idle, IInv
  <2>3. SessionClosed' /\ PoolIsEmpty'
    BY <1>0, <1>1, <1>7, <2>1
    DEF SInv, SessionClosed, PoolIsEmpty, PoolEmpty, Idle, Audit, SaveBefore, FailRestore,
        At, Go, SwapTypeOK
  <2>4. SavedFirst'
    BY <1>0, <1>1, <1>7 DEF SavedFirst, Audit, SaveBefore, FailRestore, Go, SwapTypeOK
  <2> QED
    BY <1>4, <1>5, <2>2, <2>3, <2>4 DEF SInv
<1>8. CASE CloseSession(r)
  <2>1. step'[r] = "closed" /\ conn' = [conn EXCEPT ![r] = NoConn] /\ idle' = GivenBack(r)
    BY <1>0, <1>8 DEF CloseSession, Go, SwapTypeOK
  <2>2. SwapTypeOK'
    BY <1>0, <1>3, <1>6, <2>1 DEF SwapTypeOK, GivenBack, IInv, NoConn
  <2>3. ConnectedInSlot' /\ SessionClosed'
    BY <1>0, <1>1, <2>1 DEF SInv, SwapTypeOK, ConnectedInSlot, SessionClosed
  <2>4. ServedFromTheFile'
    <3>1. \A t \in Thread : conn'[t] # NoConn => conn'[t].file = file
      BY <1>0, <2>1 DEF SInv, SwapTypeOK, ServedFromTheFile
    <3>2. idle' = idle \/ idle' = [idle EXCEPT ![file] = @ + 1]
      <4>1. CASE conn[r] = NoConn
        BY <2>1, <4>1 DEF GivenBack, NoConn
      <4>2. CASE conn[r] # NoConn
        BY <1>3, <2>1, <4>2 DEF GivenBack
      <4> QED
        BY <4>1, <4>2
    <3>3. Idle' \subseteq Idle \cup {file}
      BY <1>0, <3>2 DEF Idle, SwapTypeOK
    <3> QED
      BY <1>0, <3>1, <3>3 DEF SInv, ServedFromTheFile
  <2>5. PoolIsEmpty' /\ SavedFirst'
    BY <1>1, <2>1 DEF PoolIsEmpty, PoolEmpty, SavedFirst
  <2> QED
    BY <1>4, <1>5, <2>2, <2>3, <2>4, <2>5 DEF SInv
<1>9. CASE DisposeBefore(r)
  <2>1. step'[r] = "disposed" /\ Dispose /\ conn[r] = NoConn
    BY <1>0, <1>9 DEF DisposeBefore, At, Go, SwapTypeOK, SInv, SessionClosed
  <2>2. \A t \in Thread : conn[t] = NoConn /\ conn'[t] = NoConn
    BY <1>2, <2>1 DEF Dispose
  <2>3. Idle' = {}
    BY <1>0, <2>1 DEF Dispose, Idle
  <2>4. SwapTypeOK'
    BY <1>0, <1>6, <2>1, <2>2 DEF SwapTypeOK, Dispose, IInv
  <2>5. ConnectedInSlot' /\ SessionClosed' /\ PoolIsEmpty'
    BY <2>2, <2>3 DEF ConnectedInSlot, SessionClosed, PoolIsEmpty, Thread
  <2>6. ServedFromTheFile'
    BY <1>0, <2>2, <2>3 DEF SInv, ServedFromTheFile
  <2>7. SavedFirst'
    BY <1>1, <2>1 DEF SavedFirst
  <2> QED
    BY <1>4, <1>5, <2>4, <2>5, <2>6, <2>7 DEF SInv
<1> QED
  BY <1>7, <1>8, <1>9

\* The swap and what follows it.  What the swap takes away is in an archive.
LEMMA AfterPreserves ==
  ASSUME SInv, IInv', NEW r \in Request,
         Swap(r) \/ DisposeAfter(r) \/ Repair(r)
  PROVE  SInv'
<1>0. /\ UNCHANGED <<pc, copying, archives, acked>>
      /\ pc[r] = "exclusive" /\ r \in Thread
      /\ step' = [step EXCEPT ![r] = step'[r]]
      /\ step'[r] \in Step /\ step'[r] \notin {"none", "audited", "saved"}
      /\ step[r] \in PoolEmpty
      /\ SwapTypeOK
  BY DEF Swap, DisposeAfter, Repair, At, Go, gateVars, SInv, SwapTypeOK, Step, Thread,
         PoolEmpty
<1>1. \A s \in Request : s # r => step[s] = "none" /\ step'[s] = "none"
  BY <1>0, OnlyRestore DEF SwapTypeOK
<1>2. /\ Idle = {} /\ \A t \in Thread : conn[t] = NoConn
      /\ \A w \in Worker : copying'[w] = NoCopy
  BY <1>0, NoConnections
<1>3. \A t \in Thread : conn'[t] = NoConn
  BY <1>2 DEF Swap, DisposeAfter, Repair, Dispose
<1>4. /\ ConnectedInSlot' /\ CopiesInSlot' /\ StepsInside' /\ SessionClosed' /\ SavedFirst'
      /\ CopiesOfTheFile'
  BY <1>0, <1>1, <1>2, <1>3
  DEF ConnectedInSlot, CopiesInSlot, StepsInside, SessionClosed, SavedFirst, CopiesOfTheFile,
      SwapTypeOK, Thread, SInv
<1>5. CASE Swap(r)
  <2>1. /\ file' = file + 1 /\ file < MaxSwaps
        /\ UNCHANGED <<idle, conn>>
        /\ rows[file] \in archives
    BY <1>5 DEF Swap, At, SInv, SavedFirst
  <2>2. PICK a \in archives : rows' = [rows EXCEPT ![file + 1] = a]
    BY <1>5 DEF Swap
  <2>3. file' \in File
    BY <1>0, <2>1, SwapAssumption DEF SwapTypeOK, File
  <2>4. SwapTypeOK'
    BY <1>0, <2>1, <2>2, <2>3 DEF SwapTypeOK, IInv
  <2>5. PoolIsEmpty' /\ ServedFromTheFile'
    BY <1>2, <1>3, <2>1 DEF PoolIsEmpty, ServedFromTheFile, Idle
  <2>6. AckedIsKept'
    BY <1>0, <2>1 DEF SInv, AckedIsKept
  <2> QED
    BY <1>4, <2>4, <2>5, <2>6 DEF SInv
<1>6. CASE DisposeAfter(r)
  <2>1. Dispose /\ UNCHANGED <<file, rows>>
    BY <1>6 DEF DisposeAfter
  <2>2. Idle' = {}
    BY <2>1 DEF Dispose, Idle
  <2>3. SwapTypeOK'
    BY <1>0, <1>2, <2>1 DEF SwapTypeOK, Dispose, IInv
  <2>4. PoolIsEmpty' /\ ServedFromTheFile' /\ AckedIsKept'
    BY <1>0, <1>2, <1>3, <2>1, <2>2
    DEF SInv, PoolIsEmpty, ServedFromTheFile, AckedIsKept
  <2> QED
    BY <1>4, <2>3, <2>4 DEF SInv
<1>7. CASE Repair(r)
  <2>1. /\ step'[r] = "over" /\ UNCHANGED <<file, rows, conn>>
        /\ idle' = [idle EXCEPT ![file] = 1]
    BY <1>0, <1>2, <1>7 DEF Repair, Go, SwapTypeOK
  <2>2. SwapTypeOK'
    BY <1>0, <2>1 DEF SwapTypeOK, IInv
  <2>3. Idle' \subseteq {file}
    BY <1>0, <1>2, <2>1 DEF Idle, SwapTypeOK
  <2>4. PoolIsEmpty'
    BY <1>1, <2>1 DEF PoolIsEmpty, PoolEmpty
  <2>5. ServedFromTheFile' /\ AckedIsKept'
    BY <1>0, <1>2, <1>3, <2>1, <2>3 DEF SInv, ServedFromTheFile, AckedIsKept
  <2> QED
    BY <1>4, <2>2, <2>4, <2>5 DEF SInv
<1> QED
  BY <1>5, <1>6, <1>7

\* Every step keeps the invariant.
LEMMA SInvInductive == SInv /\ [SwapNext]_swapVars => SInv'
<1> SUFFICES ASSUME SInv, [SwapNext]_swapVars PROVE SInv'
  OBVIOUS
<1>1. IInv'
  BY SwapStepIsGateStep, IInvInductive DEF SInv
<1>2. CASE UNCHANGED swapVars
  BY <1>1, <1>2
  DEF swapVars, dbVars, gateVars, SInv, IInv, SwapTypeOK, ConnectedInSlot, CopiesInSlot,
      StepsInside, SessionClosed, PoolIsEmpty, ServedFromTheFile, SavedFirst,
      CopiesOfTheFile, AckedIsKept, Idle
<1>3. CASE \E r \in Request : EndRestore(r)
  <2> PICK r \in Request : EndRestore(r)
    BY <1>3
  <2>0. /\ UNCHANGED <<file, rows, idle, conn, copying, archives, acked>>
        /\ pc[r] = "exclusive" /\ pc' = [pc EXCEPT ![r] = "in"]
        /\ step' = [step EXCEPT ![r] = "none"]
        /\ pc \in [Thread -> Where] /\ SwapTypeOK /\ r \in Thread /\ r \notin Worker
    BY ThreadAssumption DEF EndRestore, Readmit, Go, SInv, IInv, GateTypeOK, Thread
  <2>1. \A s \in Request : step'[s] = "none"
    BY <2>0, OnlyRestore DEF SwapTypeOK
  <2>2. SwapTypeOK'
    BY <1>1, <2>0 DEF SwapTypeOK, IInv, Step
  <2>3. ConnectedInSlot' /\ CopiesInSlot'
    BY <2>0 DEF SInv, ConnectedInSlot, CopiesInSlot, HoldsSlot
  <2>4. StepsInside' /\ SessionClosed' /\ PoolIsEmpty' /\ SavedFirst'
    BY <2>1 DEF StepsInside, SessionClosed, PoolIsEmpty, PoolEmpty, SavedFirst
  <2>5. ServedFromTheFile' /\ CopiesOfTheFile' /\ AckedIsKept'
    BY <2>0 DEF SInv, ServedFromTheFile, CopiesOfTheFile, AckedIsKept, Idle
  <2> QED
    BY <1>1, <2>2, <2>3, <2>4, <2>5 DEF SInv
<1> QED
  BY <1>1, <1>2, <1>3, GatePreserves, ServingPreserves, BeforePreserves, AfterPreserves
     DEF SwapNext

\* The invariant holds of every behaviour of the composition: connections and copies
\* live in slots, and a restore's steps happen in its exclusive slot.
THEOREM SwapInvariant == SwapSpec => []SInv
BY InitSInv, SInvInductive, PTL DEF SwapSpec
-----------------------------------------------------------------------------
(* What the run checks, for every finite set of threads, every set of writes *)
(* and every number of restores                                              *)

\* Types: a connection or a copy always names a file that existed.
THEOREM SwapTypeCorrect == SwapSpec => []SwapTypeOK
<1>1. SInv => SwapTypeOK
  BY DEF SInv
<1> QED
  BY <1>1, SwapInvariant, PTL

\* When the file is swapped no connection is open, pooled or in a session.
THEOREM NoOldConnection == SwapSpec => []NoConnectionAtSwap
<1>1. SInv => NoConnectionAtSwap
  BY NoConnections DEF NoConnectionAtSwap, At, PoolEmpty
<1> QED
  BY <1>1, SwapInvariant, PTL

\* Every connection and every copy is of the file that has the database's name.
THEOREM EveryoneOnTheFile == SwapSpec => []ServedFromTheFile
<1>1. SInv => ServedFromTheFile
  BY DEF SInv
<1> QED
  BY <1>1, SwapInvariant, PTL

\* No acknowledged write is lost by a restore.
THEOREM WritesKept == SwapSpec => []AckedIsKept
<1>1. SInv => AckedIsKept
  BY DEF SInv
<1> QED
  BY <1>1, SwapInvariant, PTL
-----------------------------------------------------------------------------
(* Gate, pool, backups and swap implement a database replaced at once *)

\* Every step commits, saves, replaces contents that are saved, or stutters.
LEMMA RestorableStep ==
  ASSUME SInv, [SwapNext]_swapVars
  PROVE  [Restorable!Next]_(Restorable!vars)
<1> SUFFICES ASSUME SwapNext PROVE Restorable!Next \/ UNCHANGED Restorable!vars
  BY DEF swapVars, dbVars, Restorable!vars
<1>0. SwapTypeOK
  BY DEF SInv
<1>1. ASSUME NEW t \in Thread, NEW w \in Write, Save(t, w) PROVE Restorable!Commit(w)
  <2>1. conn[t].file = file
    BY <1>1 DEF SInv, ServedFromTheFile, Save
  <2>2. rows'[file'] = rows[file] \cup {w}
    BY <1>0, <1>1, <2>1 DEF Save, SwapTypeOK
  <2> QED
    BY <1>1, <2>2 DEF Save, Restorable!Commit
<1>2. ASSUME NEW w \in Worker, EndCopy(w) PROVE Restorable!Save
  <2>1. copying[w].rows \subseteq rows[file]
    BY <1>2 DEF SInv, CopiesOfTheFile, EndCopy
  <2> QED
    BY <1>2, <2>1 DEF EndCopy, Restorable!Save
<1>3. ASSUME NEW r \in Request, SaveBefore(r) PROVE Restorable!Save
  BY <1>3 DEF SaveBefore, Restorable!Save
<1>4. ASSUME NEW r \in Request, Swap(r) PROVE Restorable!Replace
  <2>1. rows[file] \in archives /\ file + 1 \in File
    BY <1>0, <1>4, SwapAssumption DEF Swap, At, SInv, SavedFirst, SwapTypeOK, File
  <2>2. rows'[file'] \in archives
    BY <1>0, <1>4, <2>1 DEF Swap, SwapTypeOK
  <2> QED
    BY <1>4, <2>1, <2>2 DEF Swap, Restorable!Replace
<1>5. ASSUME NEW t \in Thread, Serve(t) \/ CheckOut(t) \/ CheckIn(t)
      PROVE  UNCHANGED Restorable!vars
  BY <1>5 DEF Serve, CheckOut, CheckIn, dbVars, Restorable!vars
<1>6. ASSUME NEW w \in Worker, BeginCopy(w) PROVE UNCHANGED Restorable!vars
  BY <1>6 DEF BeginCopy, Restorable!vars
<1>7. ASSUME NEW r \in Request,
             \/ Gated(r) \/ Audit(r) \/ CloseSession(r) \/ DisposeBefore(r)
             \/ FailRestore(r) \/ DisposeAfter(r) \/ Repair(r) \/ EndRestore(r)
      PROVE  UNCHANGED Restorable!vars
  BY <1>7 DEF Gated, Audit, CloseSession, DisposeBefore, FailRestore, DisposeAfter, Repair,
              EndRestore, dbVars, Restorable!vars
<1> QED
  BY <1>1, <1>2, <1>3, <1>4, <1>5, <1>6, <1>7 DEF SwapNext, Restorable!Next

\* Every behaviour of the composition is one of a database that commits, saves
\* archives, and is replaced only by an archive and once its contents are in one.
THEOREM SwapImplementsRestorable == SwapSpec => ImplementsRestorable
<1>1. SwapInit => Restorable!Init
  BY SwapAssumption DEF SwapInit, File, Restorable!Init
<1> QED
  BY <1>1, RestorableStep, SwapInvariant, PTL DEF SwapSpec, ImplementsRestorable,
     Restorable!Spec
=============================================================================
