------------------------- MODULE RestoreGateProofs -------------------------
(***************************************************************************)
(* Proofs about RestoreGate, for any finite set of threads.  Everything    *)
(* rests on one fact the code never states: _active is the number of       *)
(* threads that hold a slot.  With it, "active <= own" says who they are.  *)
(***************************************************************************)
EXTENDS RestoreGate, FiniteSetTheorems, TLAPS

Restorers == {r \in Request : pc[r] \in {"asleep", "woken", "exclusive"}}

CountIsHolders == active = Cardinality(Holders)
FlagIsRestorer == restoring <=> Restorers # {}
OneRestorer == \A r, s \in Restorers : r = s
SleepsUndrained == \A r \in Request : pc[r] = "asleep" => ~Drained

IInv == /\ GateTypeOK
        /\ CountIsHolders
        /\ FlagIsRestorer
        /\ OneRestorer
        /\ ExclusiveIsAlone
        /\ SleepsUndrained
        /\ RefusesWithoutContext
-----------------------------------------------------------------------------
(* Slots and their number *)

\* There are finitely many holders.
LEMMA HoldersFinite == IsFiniteSet(Holders) /\ Cardinality(Holders) \in Nat
<1>1. IsFiniteSet(Holders)
  BY ThreadAssumption, FS_Subset DEF Holders
<1> QED
  BY <1>1, FS_CardinalityType

\* A thread that moves into a slot adds itself, and itself alone.
LEMMA HoldersGrow ==
  ASSUME NEW t \in Thread, NEW v \in HoldsSlot, pc \in [Thread -> Where],
         pc[t] \notin HoldsSlot, pc' = [pc EXCEPT ![t] = v]
  PROVE  Holders' = Holders \cup {t} /\ Cardinality(Holders') = Cardinality(Holders) + 1
<1>1. Holders' = Holders \cup {t}
  BY DEF Holders
<1>2. t \notin Holders
  BY DEF Holders
<1> QED
  BY <1>1, <1>2, HoldersFinite, FS_AddElement

\* A thread that moves within its slot, or outside every slot, changes nothing.
LEMMA HoldersSame ==
  ASSUME NEW t \in Thread, NEW v \in Where, pc \in [Thread -> Where],
         pc[t] \in HoldsSlot <=> v \in HoldsSlot, pc' = [pc EXCEPT ![t] = v]
  PROVE  Holders' = Holders
BY DEF Holders

\* A leave removes the leaver: waking the sleepers moves nobody out of a slot.
LEMMA HoldersShrink ==
  ASSUME NEW t \in Thread, pc \in [Thread -> Where], Leave(t)
  PROVE  Holders' = Holders \ {t} /\ Cardinality(Holders') = Cardinality(Holders) - 1
<1>1. Holders' = Holders \ {t}
  BY DEF Holders, Leave, HoldsSlot
<1>2. t \in Holders
  BY DEF Holders, Leave, HoldsSlot
<1> QED
  BY <1>1, <1>2, HoldersFinite, FS_RemoveElement

\* Drained, seen by a restore that holds a slot, means that it is alone.
LEMMA DrainedIsAlone ==
  ASSUME NEW r \in Thread, pc \in [Thread -> Where], CountIsHolders,
         pc[r] \in HoldsSlot, Drained
  PROVE  Holders = {r} /\ Carries
<1>1. r \in Holders
  BY DEF Holders
<1>2. Cardinality(Holders) <= own
  BY DEF Drained, CountIsHolders
<1>3. Cardinality(Holders \ {r}) = Cardinality(Holders) - 1
  BY <1>1, HoldersFinite, FS_RemoveElement
<1>4. IsFiniteSet(Holders \ {r}) /\ Cardinality(Holders \ {r}) \in Nat
  BY HoldersFinite, FS_RemoveElement, FS_CardinalityType
<1>5. Carries /\ Cardinality(Holders \ {r}) = 0
  BY <1>2, <1>3, <1>4, HoldersFinite, CarriesAssumption DEF own
<1>6. Holders \ {r} = {}
  BY <1>4, <1>5, FS_EmptySet
<1> QED
  BY <1>1, <1>5, <1>6
-----------------------------------------------------------------------------
(* The inductive invariant *)

\* At the start nobody holds a slot and the flag is down.
LEMMA InitIInv == GateInit => IInv
<1> SUFFICES ASSUME GateInit PROVE IInv
  OBVIOUS
<1>1. GateTypeOK
  BY ThreadAssumption DEF GateInit, GateTypeOK, Where, Verdict, Thread
<1>2. Holders = {} /\ Restorers = {}
  BY DEF GateInit, Holders, HoldsSlot, Restorers, Thread
<1>3. CountIsHolders
  BY <1>2, FS_EmptySet DEF GateInit, CountIsHolders
<1>4. FlagIsRestorer /\ OneRestorer
  BY <1>2 DEF GateInit, FlagIsRestorer, OneRestorer
<1>5. ExclusiveIsAlone /\ SleepsUndrained /\ RefusesWithoutContext
  BY DEF GateInit, ExclusiveIsAlone, SleepsUndrained, RefusesWithoutContext, Thread
<1> QED
  BY <1>1, <1>3, <1>4, <1>5 DEF IInv

\* The steps of a thread that enters, is turned away or leaves.
LEMMA ThreadStep ==
  ASSUME IInv, NEW t \in Thread, Admit(t) \/ TurnAway(t) \/ GoAway(t) \/ Leave(t)
  PROVE  IInv'
<1>0. pc \in [Thread -> Where] /\ active \in Nat /\ GateTypeOK /\ CountIsHolders
  BY DEF IInv, GateTypeOK
<1>1. CASE Admit(t)
  <2>1. GateTypeOK'
    BY <1>0, <1>1, ThreadAssumption DEF GateTypeOK, Admit, Where, Verdict, Thread
  <2>2. Restorers = {} /\ Restorers' = {}
    BY <1>0, <1>1 DEF IInv, FlagIsRestorer, Restorers, Admit, Thread
  <2>3. CountIsHolders'
    BY <1>0, <1>1, HoldersGrow DEF CountIsHolders, Admit, HoldsSlot
  <2>4. FlagIsRestorer' /\ OneRestorer'
    BY <1>1, <2>2 DEF FlagIsRestorer, OneRestorer, Admit
  <2>5. ExclusiveIsAlone' /\ SleepsUndrained' /\ RefusesWithoutContext'
    BY <2>2 DEF Restorers, ExclusiveIsAlone, SleepsUndrained, RefusesWithoutContext
  <2> QED
    BY <2>1, <2>3, <2>4, <2>5 DEF IInv
<1>2. CASE TurnAway(t) \/ GoAway(t)
  <2>1. GateTypeOK'
    BY <1>0, <1>2, ThreadAssumption DEF GateTypeOK, TurnAway, GoAway, Where, Thread
  <2>2. Restorers' = Restorers
    BY <1>0, <1>2 DEF Restorers, TurnAway, GoAway, Thread
  <2>3. Holders' = Holders
    BY <1>0, <1>2 DEF Holders, HoldsSlot, TurnAway, GoAway
  <2>4. CountIsHolders'
    BY <1>2, <2>3 DEF IInv, CountIsHolders, TurnAway, GoAway
  <2>5. FlagIsRestorer' /\ OneRestorer'
    BY <1>2, <2>2 DEF IInv, FlagIsRestorer, OneRestorer, TurnAway, GoAway
  <2>6. \A r \in Request : /\ pc'[r] = "exclusive" => pc[r] = "exclusive"
                           /\ pc'[r] = "asleep" => pc[r] = "asleep"
    BY <1>0, <1>2 DEF TurnAway, GoAway, Thread
  <2>7. ExclusiveIsAlone' /\ SleepsUndrained' /\ RefusesWithoutContext'
    BY <1>2, <2>3, <2>6
    DEF IInv, ExclusiveIsAlone, SleepsUndrained, RefusesWithoutContext, Drained, own,
        TurnAway, GoAway
  <2> QED
    BY <2>1, <2>4, <2>5, <2>7 DEF IInv
<1>3. CASE Leave(t)
  <2>1. Holders' = Holders \ {t} /\ Cardinality(Holders') = Cardinality(Holders) - 1
    BY <1>0, <1>3, HoldersShrink
  <2>2. CountIsHolders'
    BY <1>0, <1>3, <2>1, HoldersFinite DEF CountIsHolders, Leave
  <2>3. active' \in Nat
    <3>1. t \in Holders
      BY <1>0, <1>3 DEF Holders, HoldsSlot, Leave
    <3>2. Cardinality(Holders) # 0
      BY <3>1, HoldersFinite, FS_EmptySet
    <3> QED
      BY <1>0, <1>3, <3>2, HoldersFinite DEF CountIsHolders, Leave
  <2>4. GateTypeOK'
    BY <1>0, <1>3, <2>3, ThreadAssumption DEF GateTypeOK, Leave, Where, Thread
  <2>5. Restorers' = Restorers
    BY <1>0, <1>3 DEF Restorers, Leave, Thread
  <2>6. FlagIsRestorer' /\ OneRestorer'
    BY <1>3, <2>5 DEF IInv, FlagIsRestorer, OneRestorer, Leave
  <2>7. ExclusiveIsAlone'
    <3> SUFFICES ASSUME NEW r \in Request, pc'[r] = "exclusive" PROVE Holders' = {r}
      BY DEF ExclusiveIsAlone
    <3>1. pc[r] = "exclusive" /\ t # r
      BY <1>0, <1>3 DEF Leave, Thread
    <3>2. Holders = {r}
      BY <3>1 DEF IInv, ExclusiveIsAlone
    <3>3. t \in Holders
      BY <1>3 DEF Leave, Holders, HoldsSlot
    <3> QED
      BY <3>1, <3>2, <3>3
  <2>8. SleepsUndrained' /\ RefusesWithoutContext'
    BY <1>0, <1>3 DEF IInv, SleepsUndrained, RefusesWithoutContext, Leave, Thread
  <2> QED
    BY <2>2, <2>4, <2>6, <2>7, <2>8 DEF IInv
<1> QED
  BY <1>1, <1>2, <1>3

\* The steps of exclusive().  None of them takes or gives back a slot.
LEMMA RestoreStep ==
  ASSUME IInv, NEW r \in Request,
         \/ AlreadyRestoring(r) \/ StopAdmitting(r) \/ TakeDatabase(r)
         \/ SleepAgain(r) \/ GiveUp(r) \/ Readmit(r)
  PROVE  IInv'
<1>0. /\ pc \in [Thread -> Where] /\ active \in Nat /\ GateTypeOK /\ CountIsHolders
      /\ r \in Thread /\ r \notin Worker
  BY ThreadAssumption DEF IInv, GateTypeOK, Thread
<1>1. GateTypeOK'
  BY <1>0, ThreadAssumption
  DEF GateTypeOK, Where, Verdict, Thread, AlreadyRestoring, StopAdmitting,
      TakeDatabase, SleepAgain, GiveUp, Readmit
<1>2. Holders' = Holders
  BY <1>0 DEF Holders, HoldsSlot, AlreadyRestoring, StopAdmitting,
              TakeDatabase, SleepAgain, GiveUp, Readmit
<1>3. CountIsHolders' /\ (Drained' <=> Drained)
  BY <1>2 DEF IInv, CountIsHolders, Drained, own, AlreadyRestoring, StopAdmitting,
              TakeDatabase, SleepAgain, GiveUp, Readmit
<1>4. CASE AlreadyRestoring(r)
  BY <1>1, <1>2, <1>3, <1>4
  DEF IInv, AlreadyRestoring, FlagIsRestorer, OneRestorer, Restorers,
      ExclusiveIsAlone, SleepsUndrained, RefusesWithoutContext
<1>5. CASE StopAdmitting(r)
  <2>1. Restorers = {} /\ Restorers' = {r}
    BY <1>0, <1>5 DEF IInv, FlagIsRestorer, Restorers, StopAdmitting, Thread
  <2>2. FlagIsRestorer' /\ OneRestorer'
    BY <1>5, <2>1 DEF FlagIsRestorer, OneRestorer, StopAdmitting
  <2>3. ExclusiveIsAlone' /\ RefusesWithoutContext'
    <3> SUFFICES ASSUME NEW s \in Request, pc'[s] = "exclusive"
                 PROVE  Holders' = {s} /\ Carries
      BY DEF ExclusiveIsAlone, RefusesWithoutContext
    <3>1. s = r
      BY <2>1 DEF Restorers
    <3>2. Drained /\ pc[r] \in HoldsSlot
      BY <1>0, <1>5, <3>1 DEF StopAdmitting, HoldsSlot
    <3> QED
      BY <1>0, <1>2, <3>1, <3>2, DrainedIsAlone
  <2>4. SleepsUndrained'
    <3> SUFFICES ASSUME NEW s \in Request, pc'[s] = "asleep" PROVE ~Drained'
      BY DEF SleepsUndrained
    <3>1. s = r
      BY <2>1 DEF Restorers
    <3> QED
      BY <1>0, <1>3, <1>5, <3>1 DEF StopAdmitting
  <2> QED
    BY <1>1, <1>3, <2>2, <2>3, <2>4 DEF IInv
<1>6. CASE TakeDatabase(r) \/ SleepAgain(r)
  <2>1. Restorers' = Restorers /\ r \in Restorers
    BY <1>0, <1>6 DEF Restorers, TakeDatabase, SleepAgain, Thread
  <2>2. FlagIsRestorer' /\ OneRestorer'
    BY <1>6, <2>1 DEF IInv, FlagIsRestorer, OneRestorer, TakeDatabase, SleepAgain
  <2>3. ExclusiveIsAlone' /\ RefusesWithoutContext'
    <3> SUFFICES ASSUME NEW s \in Request, pc'[s] = "exclusive"
                 PROVE  Holders' = {s} /\ Carries
      BY DEF ExclusiveIsAlone, RefusesWithoutContext
    <3>1. s = r
      BY <2>1, <2>2 DEF Restorers, OneRestorer
    <3>2. Drained /\ pc[r] \in HoldsSlot
      BY <1>0, <1>6, <3>1 DEF TakeDatabase, SleepAgain, HoldsSlot
    <3> QED
      BY <1>0, <1>2, <3>1, <3>2, DrainedIsAlone
  <2>4. SleepsUndrained'
    <3> SUFFICES ASSUME NEW s \in Request, pc'[s] = "asleep" PROVE ~Drained
      BY <1>3 DEF SleepsUndrained
    <3>1. s = r
      BY <2>1, <2>2 DEF Restorers, OneRestorer
    <3> QED
      BY <1>0, <1>6, <3>1 DEF TakeDatabase, SleepAgain
  <2> QED
    BY <1>1, <1>3, <2>2, <2>3, <2>4 DEF IInv
<1>7. CASE GiveUp(r) \/ Readmit(r)
  <2>1. r \in Restorers
    BY <1>7 DEF Restorers, GiveUp, Readmit
  <2>2. Restorers' = {}
    BY <1>0, <1>7, <2>1 DEF IInv, OneRestorer, Restorers, GiveUp, Readmit, Thread
  <2>3. FlagIsRestorer' /\ OneRestorer'
    BY <1>7, <2>2 DEF FlagIsRestorer, OneRestorer, GiveUp, Readmit
  <2>4. ExclusiveIsAlone' /\ SleepsUndrained' /\ RefusesWithoutContext'
    BY <2>2 DEF Restorers, ExclusiveIsAlone, SleepsUndrained, RefusesWithoutContext
  <2> QED
    BY <1>1, <1>3, <2>3, <2>4 DEF IInv
<1> QED
  BY <1>4, <1>5, <1>6, <1>7

\* Every step keeps the invariant.
LEMMA IInvInductive == IInv /\ [GateNext]_gateVars => IInv'
<1> SUFFICES ASSUME IInv, [GateNext]_gateVars PROVE IInv'
  OBVIOUS
<1>1. CASE UNCHANGED gateVars
  BY <1>1 DEF IInv, GateTypeOK, CountIsHolders, FlagIsRestorer, OneRestorer, Restorers,
              ExclusiveIsAlone, SleepsUndrained, RefusesWithoutContext, Drained, own,
              Holders, gateVars
<1>2. CASE GateNext
  BY <1>2, ThreadStep, RestoreStep DEF GateNext
<1> QED
  BY <1>1, <1>2

\* The invariant holds of every behaviour of the gate: the count is the number of slot
\* holders and the flag is up exactly for the one restore there is.
THEOREM GateInvariant == GateSpec => []IInv
BY InitIInv, IInvInductive, PTL DEF GateSpec
-----------------------------------------------------------------------------
(* What the runs check, for every finite set of threads *)

\* Types: the count never goes below zero, and a worker never restores.
THEOREM TypeCorrect == GateSpec => []GateTypeOK
<1>1. IInv => GateTypeOK
  BY DEF IInv
<1> QED
  BY <1>1, GateInvariant, PTL

\* A restore that has the database is the only one in it.
THEOREM MutualExclusion == GateSpec => []ExclusiveIsAlone
<1>1. IInv => ExclusiveIsAlone
  BY DEF IInv
<1> QED
  BY <1>1, GateInvariant, PTL

\* The flag is up exactly while one restore waits or runs.
THEOREM FlagIsTrue == GateSpec => []ClosedForARestore
<1>1. IInv => ClosedForARestore
  BY DEF IInv, FlagIsRestorer, Restorers, ClosedForARestore
<1> QED
  BY <1>1, GateInvariant, PTL

\* A sleeping restore sleeps for somebody else: no wakeup is lost.
THEOREM NoLostWakeup == GateSpec => []SleepsForSomebody
<1>1. IInv => SleepsForSomebody
  BY FS_Singleton DEF IInv, SleepsUndrained, CountIsHolders, Drained, own, SleepsForSomebody
<1> QED
  BY <1>1, GateInvariant, PTL

\* Without the context variable no restore ever takes the database.
THEOREM LostContextRefuses == GateSpec => []RefusesWithoutContext
<1>1. IInv => RefusesWithoutContext
  BY DEF IInv
<1> QED
  BY <1>1, GateInvariant, PTL

\* While the gate stays closed the set of holders only shrinks.
THEOREM ClosedGateDrains == GateSpec => NobodySlipsIn
<1>1. IInv /\ [GateNext]_gateVars
        => [restoring /\ restoring' => Holders' \subseteq Holders]_gateVars
  <2> SUFFICES ASSUME IInv, GateNext, restoring, restoring'
               PROVE  Holders' \subseteq Holders
    OBVIOUS
  <2>0. pc \in [Thread -> Where] /\ \A r \in Request : r \in Thread
    BY DEF IInv, GateTypeOK, Thread
  <2>1. ASSUME NEW t \in Thread, Admit(t) \/ TurnAway(t) \/ GoAway(t) \/ Leave(t)
        PROVE  Holders' \subseteq Holders
    BY <2>0, <2>1 DEF Holders, HoldsSlot, Admit, TurnAway, GoAway, Leave
  <2>2. ASSUME NEW r \in Request,
               \/ AlreadyRestoring(r) \/ StopAdmitting(r) \/ TakeDatabase(r)
               \/ SleepAgain(r) \/ GiveUp(r) \/ Readmit(r)
        PROVE  Holders' \subseteq Holders
    BY <2>0, <2>2 DEF Holders, HoldsSlot, AlreadyRestoring, StopAdmitting,
                      TakeDatabase, SleepAgain, GiveUp, Readmit
  <2> QED
    BY <2>1, <2>2 DEF GateNext
<1> QED
  BY <1>1, GateInvariant, PTL DEF NobodySlipsIn, GateSpec
-----------------------------------------------------------------------------
(* The gate implements shared or exclusive access *)

\* The owner of the mapping, in terms of pc.
LEMMA OwnerIs ==
  ASSUME IInv, NEW r \in Request, pc[r] = "exclusive"
  PROVE  ownerOfDatabase = r
<1>1. \A s \in Request : pc[s] = "exclusive" => s = r
  BY DEF IInv, OneRestorer, Restorers
<1> QED
  BY <1>1 DEF ownerOfDatabase

\* Where no restore is exclusive the database has no owner.
LEMMA NoOwnerIs ==
  ASSUME \A r \in Request : pc[r] # "exclusive"
  PROVE  ownerOfDatabase = NoOne
BY DEF ownerOfDatabase

\* When nothing about "exclusive" changes, neither does the owner.
LEMMA OwnerSame ==
  ASSUME \A r \in Request : pc'[r] = "exclusive" <=> pc[r] = "exclusive"
  PROVE  ownerOfDatabase' = ownerOfDatabase
BY DEF ownerOfDatabase

\* A thread's enter or leave is the user's of DatabaseAccess, or changes neither users
\* nor owner.
LEMMA AccessThreadStep ==
  ASSUME IInv, IInv', NEW t \in Thread, Admit(t) \/ TurnAway(t) \/ GoAway(t) \/ Leave(t)
  PROVE  Access!Next \/ UNCHANGED Access!vars
<1>0. pc \in [Thread -> Where] /\ \A r \in Request : r \in Thread
  BY DEF IInv, GateTypeOK, Thread
<1>1. ownerOfDatabase' = ownerOfDatabase
  BY <1>0, OwnerSame DEF Admit, TurnAway, GoAway, Leave
<1>2. CASE Admit(t)
  <2>1. \A r \in Request : pc[r] # "exclusive"
    BY <1>2 DEF IInv, FlagIsRestorer, Restorers, Admit
  <2>2. t \notin Holders /\ Holders' = Holders \cup {t}
    BY <1>0, <1>2, HoldersGrow DEF Admit, Holders, HoldsSlot
  <2>3. Access!Enter(t)
    BY <1>1, <2>1, <2>2, NoOwnerIs DEF Access!Enter
  <2> QED
    BY <2>3 DEF Access!Next
<1>3. CASE TurnAway(t) \/ GoAway(t)
  <2>1. Holders' = Holders
    BY <1>0, <1>3 DEF Holders, HoldsSlot, TurnAway, GoAway
  <2> QED
    BY <1>1, <2>1 DEF Access!vars
<1>4. CASE Leave(t)
  <2>1. t \in Holders /\ Holders' = Holders \ {t}
    BY <1>0, <1>4, HoldersShrink DEF Leave, Holders, HoldsSlot
  <2>2. ownerOfDatabase # t
    <3>1. CASE \E r \in Request : pc[r] = "exclusive"
      <4> PICK r \in Request : pc[r] = "exclusive"
        BY <3>1
      <4>1. ownerOfDatabase = r /\ r # t
        BY <1>4, OwnerIs DEF Leave
      <4> QED
        BY <4>1
    <3>2. CASE ~ \E r \in Request : pc[r] = "exclusive"
      BY <3>2, NoOwnerIs, NoOneAssumption
    <3> QED
      BY <3>1, <3>2
  <2>3. Access!Leave(t)
    BY <1>1, <2>1, <2>2 DEF Access!Leave
  <2> QED
    BY <2>3 DEF Access!Next
<1> QED
  BY <1>2, <1>3, <1>4

\* A restore's step takes the database or gives it back, or changes neither users nor
\* owner.
LEMMA AccessRestoreStep ==
  ASSUME IInv, IInv', NEW r \in Request,
         \/ AlreadyRestoring(r) \/ StopAdmitting(r) \/ TakeDatabase(r)
         \/ SleepAgain(r) \/ GiveUp(r) \/ Readmit(r)
  PROVE  Access!Next \/ UNCHANGED Access!vars
<1>0. pc \in [Thread -> Where] /\ r \in Thread /\ Request \subseteq Thread
  BY DEF IInv, GateTypeOK, Thread
<1>1. Holders' = Holders
  BY <1>0 DEF Holders, HoldsSlot, AlreadyRestoring, StopAdmitting,
              TakeDatabase, SleepAgain, GiveUp, Readmit
<1>2. CASE pc[r] # "exclusive" /\ pc'[r] = "exclusive"
  <2>1. \A s \in Request : pc[s] # "exclusive"
    <3> SUFFICES ASSUME NEW s \in Request, pc[s] = "exclusive" PROVE FALSE
      OBVIOUS
    <3>1. s # r /\ pc'[s] = "exclusive"
      BY <1>0, <1>2 DEF AlreadyRestoring, StopAdmitting, TakeDatabase, SleepAgain,
                        GiveUp, Readmit
    <3> QED
      BY <1>2, <3>1 DEF IInv, OneRestorer, Restorers
  <2>2. ownerOfDatabase = NoOne
    BY <2>1, NoOwnerIs
  <2>3. ownerOfDatabase' = r /\ Holders' = {r}
    <3>1. \A s \in Request : pc'[s] = "exclusive" => s = r
      BY <1>2 DEF IInv, OneRestorer, Restorers
    <3> QED
      BY <1>2, <3>1 DEF ownerOfDatabase, IInv, ExclusiveIsAlone
  <2>4. Access!TakeAlone(r)
    BY <1>1, <2>2, <2>3 DEF Access!TakeAlone
  <2> QED
    BY <1>0, <2>4 DEF Access!Next
<1>3. CASE pc[r] = "exclusive"
  <2>1. Readmit(r)
    BY <1>3 DEF AlreadyRestoring, StopAdmitting, TakeDatabase, SleepAgain, GiveUp
  <2>2. \A s \in Request : pc'[s] # "exclusive"
    BY <1>0, <1>3, <2>1 DEF IInv, OneRestorer, Restorers, Readmit
  <2>3. ownerOfDatabase = r /\ ownerOfDatabase' = NoOne
    BY <1>3, <2>2, OwnerIs DEF ownerOfDatabase
  <2>4. Access!GiveBack(r)
    BY <1>1, <2>3 DEF Access!GiveBack
  <2> QED
    BY <1>0, <2>4 DEF Access!Next
<1>4. CASE pc[r] # "exclusive" /\ pc'[r] # "exclusive"
  <2>1. \A s \in Request : pc'[s] = "exclusive" <=> pc[s] = "exclusive"
    BY <1>0, <1>4 DEF AlreadyRestoring, StopAdmitting, TakeDatabase, SleepAgain,
                      GiveUp, Readmit
  <2>2. ownerOfDatabase' = ownerOfDatabase
    BY <2>1, OwnerSame
  <2> QED
    BY <1>1, <2>2 DEF Access!vars
<1> QED
  BY <1>2, <1>3, <1>4

\* Every behaviour of the count and the flag is one of shared or exclusive access.
THEOREM GateImplementsAccess == GateSpec => ImplementsAccess
<1>1. GateInit => Access!Init
  <2> SUFFICES ASSUME GateInit PROVE Access!Init
    OBVIOUS
  <2>1. Holders = {}
    BY DEF GateInit, Holders, HoldsSlot
  <2>2. ownerOfDatabase = NoOne
    BY NoOwnerIs DEF GateInit, Thread
  <2> QED
    BY <2>1, <2>2 DEF Access!Init
<1>2. IInv /\ IInv' /\ [GateNext]_gateVars => [Access!Next]_(Access!vars)
  <2> SUFFICES ASSUME IInv, IInv', [GateNext]_gateVars
               PROVE  Access!Next \/ UNCHANGED Access!vars
    OBVIOUS
  <2>1. CASE UNCHANGED gateVars
    BY <2>1 DEF gateVars, Access!vars, Holders, ownerOfDatabase
  <2>2. CASE GateNext
    BY <2>2, AccessThreadStep, AccessRestoreStep DEF GateNext
  <2> QED
    BY <2>1, <2>2
<1> QED
  BY <1>1, <1>2, GateInvariant, PTL DEF GateSpec, ImplementsAccess, Access!Spec
=============================================================================
