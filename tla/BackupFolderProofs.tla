------------------------- MODULE BackupFolderProofs -------------------------
(***************************************************************************)
(* Proofs about BackupFolder, for any doors, types, numbers kept, earlier  *)
(* backups and bounds: while no two doors are in a backup of one type at   *)
(* the same time, no backup is overwritten, a rotation sets out to delete  *)
(* only what is older than as many as it keeps, and Download Backup finds  *)
(* the archive it made.  The other orders of the doors' steps, with the    *)
(* clock, the deletions, the failures, sleep and restarts, are all there.  *)
(***************************************************************************)
EXTENDS BackupFolder, FiniteSetTheorems, WellFoundedInduction, TLAPS

\* No two doors are in a backup of one type at the same time.
Apart == \A v, w \in Writer :
            v # w /\ TypeOf[v] = TypeOf[w] => pc[v] = "idle" \/ pc[w] = "idle"

------------------------------------------------------------------------------
(* Names *)

\* A finite set of names that is not empty has one with the largest tail.
LEMMA LargestTail ==
  ASSUME NEW S \in SUBSET Name, IsFiniteSet(S), S # {}
  PROVE  \E m \in S : \A n \in S : m.tail >= n.tail
<1> DEFINE Largest(T, m) == \A n \in T : m.tail >= n.tail
           Bad == {T \in FiniteSubsetsOf(S) : T # {} /\ ~ \E m \in T : Largest(T, m)}
<1>1. SUFFICES ASSUME Bad # {} PROVE FALSE
  BY DEF FiniteSubsetsOf
<1>2. IsWellFoundedOn(StrictSubsetOrdering(S), FiniteSubsetsOf(S)) /\ Bad \subseteq FiniteSubsetsOf(S)
  BY FS_StrictSubsetOrderingWellFounded
<1>3. PICK T \in Bad : \A U \in Bad : ~(<<U, T>> \in StrictSubsetOrdering(S))
  <2> HIDE DEF Bad
  <2> QED  BY <1>1, <1>2, WFMin
<1>4. T \in SUBSET S /\ IsFiniteSet(T) /\ T # {} /\ ~ \E m \in T : Largest(T, m)
  BY <1>3 DEF FiniteSubsetsOf
<1>5. PICK x : x \in T
  BY <1>4
<1>6. T \ {x} \in FiniteSubsetsOf(S) /\ <<T \ {x}, T>> \in StrictSubsetOrdering(S)
  BY <1>4, <1>5, FS_RemoveElement DEF FiniteSubsetsOf, StrictSubsetOrdering
<1>7. \A n \in T : n.tail \in Nat
  BY <1>4 DEF Name
<1>8. CASE T \ {x} = {}
  <2>1. Largest(T, x)
    BY <1>5, <1>7, <1>8
  <2> QED  BY <1>4, <1>5, <2>1
<1>9. CASE T \ {x} # {}
  <2>1. PICK m \in T \ {x} : Largest(T \ {x}, m)
    BY <1>3, <1>6, <1>9
  <2>2. Largest(T, m) \/ Largest(T, x)
    BY <1>5, <1>7, <2>1
  <2> QED  BY <1>4, <1>5, <2>1, <2>2
<1> QED  BY <1>8, <1>9

\* NextTail is larger than every tail of its type in its second.
LEMMA NextTailIsNew ==
  ASSUME IsFiniteSet(DOMAIN folder), DOMAIN folder \subseteq Name, NEW type, NEW stamp
  PROVE  /\ NextTail(type, stamp) \in Nat
         /\ \A n \in Names(type) : n.stamp = stamp => NextTail(type, stamp) > n.tail
<1> DEFINE S == {m \in Names(type) : m.stamp = stamp}
           taken == {n.tail : n \in S}
<1>1. S \subseteq DOMAIN folder /\ S \in SUBSET Name
  BY DEF Names
<1>2. IsFiniteSet(S)
  BY <1>1, FS_Subset
<1>3. CASE taken = {}
  <2>1. NextTail(type, stamp) = 1 /\ S = {}
    BY <1>3 DEF NextTail
  <2> QED  BY <2>1
<1>4. CASE taken # {}
  <2>1. S # {}
    BY <1>4
  <2>2. PICK m \in S : \A n \in S : m.tail >= n.tail
    <3> HIDE DEF S
    <3> QED  BY <1>1, <1>2, <2>1, LargestTail
  <2>3. \E i \in taken : \A j \in taken : i >= j
    BY <2>2
  <2> DEFINE top == CHOOSE i \in taken : \A j \in taken : i >= j
  <2>4. top \in taken /\ \A j \in taken : top >= j
    BY <2>3
  <2>5. NextTail(type, stamp) = 1 + top
    BY <1>4 DEF NextTail
  <2>6. taken \subseteq Nat
    BY <1>1 DEF Name
  <2> HIDE DEF top, taken
  <2>7. \A j \in taken : 1 + top \in Nat /\ 1 + top > j
    BY <2>4, <2>6
  <2> QED  BY <2>4, <2>5, <2>7 DEF taken
<1> QED  BY <1>3, <1>4

------------------------------------------------------------------------------
(* The inductive invariant *)

Places == {"idle", "stamped", "named", "copied", "placed", "rotating", "sending"}

Typed == /\ clock \in 0..MaxClock /\ snapshots \in Nat
         /\ folder = [n \in DOMAIN folder |-> folder[n]]
         /\ DOMAIN folder \subseteq Name /\ IsFiniteSet(DOMAIN folder)
         /\ \A n \in DOMAIN folder :
               n.stamp <= clock /\ folder[n] \in Int /\ folder[n] <= snapshots
         /\ pc \in [Writer -> Places]
         /\ name \in [Writer -> Name \cup {NoName}]
         /\ copy \in [Writer -> Nat] /\ \A w \in Writer : copy[w] <= snapshots
         /\ stage \in [Writer -> Age \cup {"none"}]
         /\ doomed \in [Writer -> SUBSET Name]
         /\ orphans \subseteq Age

\* The snapshots of a type were made in the order that its names tell.
InOrder == \A m, n \in DOMAIN folder : m.type = n.type /\ Later(m, n) => folder[m] > folder[n]

\* A door that has begun has a name of its type; the name is later than every
\* other of the type from its choice on, and the snapshot from its making on.
Latest(w) ==
    /\ pc[w] # "idle" => name[w] \in Name /\ name[w].type = TypeOf[w] /\ name[w].stamp <= clock
    /\ pc[w] = "stamped" => \A n \in Names(TypeOf[w]) : n.stamp <= name[w].stamp
    /\ pc[w] \in {"named", "copied"} => \A n \in Names(TypeOf[w]) : Later(name[w], n)
    /\ pc[w] = "copied" => \A n \in Names(TypeOf[w]) : copy[w] > folder[n]
    /\ pc[w] \in {"placed", "rotating", "sending"} =>
          \A n \in Names(TypeOf[w]) : n = name[w] \/ Later(name[w], n)

\* A rotation is of the door's own type, which rotates, and spares its archive.
Spares(w) ==
    /\ pc[w] = "placed" => TypeOf[w] \in Rotating
    /\ doomed[w] # {} => pc[w] = "rotating"
    /\ \A n \in doomed[w] : n.type = TypeOf[w] /\ n # name[w]

FolderInv == Typed /\ InOrder /\ \A w \in Writer : Latest(w) /\ Spares(w)

\* At the start no door has begun, and the folder is in order.
LEMMA FolderInvHolds == Init => FolderInv
<1> SUFFICES ASSUME Init PROVE FolderInv
  OBVIOUS
<1>1. /\ IsFiniteSet(DOMAIN Library) /\ DOMAIN Library \subseteq Name
      /\ \A n \in DOMAIN Library : n.stamp <= 0 /\ Library[n] \in Int /\ Library[n] <= 0
      /\ \A m, n \in DOMAIN Library :
            m.type = n.type /\ Later(m, n) => Library[m] > Library[n]
      /\ MaxClock \in Nat
  BY FolderAssumption
<1>2. Library = [n \in DOMAIN Library |-> Library[n]]
  BY FolderAssumption
<1>3. Typed
  BY <1>1, <1>2 DEF Init, Typed, Places
<1>4. InOrder
  BY <1>1 DEF Init, InOrder
<1>5. ASSUME NEW w \in Writer  PROVE Latest(w) /\ Spares(w)
  BY DEF Init, Latest, Spares
<1> QED  BY <1>3, <1>4, <1>5 DEF FolderInv

------------------------------------------------------------------------------
(* Steps *)

\* What other doors do to the folder does not concern a door, as long as the
\* names of its type do not grow in number.
LEMMA Undisturbed ==
  ASSUME FolderInv, Typed', NEW w \in Writer,
         UNCHANGED <<pc[w], name[w], copy[w], doomed[w]>>, clock <= clock',
         \A n \in DOMAIN folder' : n.type = TypeOf[w] => n \in DOMAIN folder /\ folder'[n] = folder[n]
  PROVE  Latest(w)' /\ Spares(w)'
<1>1. Typed /\ Latest(w) /\ Spares(w)
  BY DEF FolderInv
<1>2. \A n \in Names(TypeOf[w])' : n \in Names(TypeOf[w]) /\ folder'[n] = folder[n]
  BY DEF Names
<1>3. Spares(w)'
  BY <1>1 DEF Spares
<1>4. pc'[w] # "idle" =>
         name'[w] \in Name /\ name'[w].type = TypeOf[w] /\ name'[w].stamp <= clock'
  BY <1>1 DEF Typed, Latest, Name
<1>5. Latest(w)'
  BY <1>1, <1>2, <1>4 DEF Latest
<1> QED  BY <1>3, <1>5

\* A step of one door that leaves the folder alone, or shortens it.
LEMMA DoorStep ==
  ASSUME FolderInv, Typed', NEW w \in Writer, NEW where \in Places, Go(w, where),
         \A v \in Writer \ {w} : UNCHANGED <<name[v], copy[v], doomed[v]>>,
         clock' = clock,
         \A n \in DOMAIN folder' : n \in DOMAIN folder /\ folder'[n] = folder[n],
         Latest(w)', Spares(w)'
  PROVE  FolderInv'
<1>1. Typed /\ InOrder
  BY DEF FolderInv
<1>2. InOrder'
  BY <1>1 DEF InOrder
<1>3. ASSUME NEW v \in Writer, v # w  PROVE Latest(v)' /\ Spares(v)'
  <2>1. pc'[v] = pc[v] /\ UNCHANGED <<name[v], copy[v], doomed[v]>>
    BY <1>1, <1>3 DEF Typed, Go
  <2>2. clock <= clock'
    BY <1>1 DEF Typed
  <2> QED  BY <2>1, <2>2, Undisturbed
<1> QED  BY <1>2, <1>3 DEF FolderInv

\* A door begins with the clock: no name of its type is of a later second.
LEMMA BeginStep == ASSUME FolderInv, NEW w \in Writer, Begin(w)  PROVE FolderInv'
<1>1. Typed /\ Spares(w)
  BY DEF FolderInv
<1> DEFINE new == [type |-> TypeOf[w], stamp |-> clock, tail |-> 0]
<1>2. /\ Go(w, "stamped") /\ name' = [name EXCEPT ![w] = new] /\ pc[w] = "idle"
      /\ UNCHANGED <<clock, folder, snapshots, copy, doomed>>
  BY DEF Begin
<1>3. new \in Name /\ new.type = TypeOf[w] /\ new.stamp = clock
  <2>1. TypeOf[w] \in Type
    BY FolderAssumption DEF Type, Range
  <2>2. clock \in Int
    BY <1>1 DEF Typed
  <2> QED  BY <2>1, <2>2 DEF Name
<1> HIDE DEF new
<1>4. pc'[w] = "stamped" /\ name'[w] = new /\ \A v \in Writer \ {w} : name'[v] = name[v]
  BY <1>1, <1>2 DEF Typed, Go
<1>5. stage' \in [Writer -> Age \cup {"none"}] /\ orphans' \subseteq Age
  BY <1>1 DEF Begin, Swept, Typed
<1>6. Typed'
  BY <1>1, <1>2, <1>3, <1>5 DEF Typed, Go, Places
<1>7. doomed[w] = {}
  BY <1>1, <1>2 DEF Spares
<1>8. Spares(w)'
  BY <1>2, <1>4, <1>7 DEF Spares
<1>9. \A n \in Names(TypeOf[w]) : n.stamp <= clock
  BY <1>1 DEF Typed, Names
<1>10. clock <= clock
  BY <1>1 DEF Typed
<1>11. Latest(w)'
  BY <1>2, <1>3, <1>4, <1>9, <1>10 DEF Latest, Names
<1> QED  BY <1>2, <1>4, <1>6, <1>8, <1>11, DoorStep DEF Places

\* The name chosen is later than every name of its type.
LEMMA ChooseNameStep == ASSUME FolderInv, NEW w \in Writer, ChooseName(w)  PROVE FolderInv'
<1>1. Typed /\ Spares(w) /\ Latest(w)
  BY DEF FolderInv
<1> DEFINE tail == NextTail(TypeOf[w], name[w].stamp)
           new == [name[w] EXCEPT !.tail = tail]
<1>2. /\ Go(w, "named") /\ name' = [name EXCEPT ![w] = new] /\ pc[w] = "stamped"
      /\ stage' = [stage EXCEPT ![w] = "young"]
      /\ UNCHANGED <<clock, folder, snapshots, copy, doomed, orphans>>
  BY DEF ChooseName
<1>3. name[w] \in Name /\ name[w].type = TypeOf[w] /\ name[w].stamp <= clock
      /\ \A n \in Names(TypeOf[w]) : n.stamp <= name[w].stamp
  BY <1>1, <1>2 DEF Latest
<1>4. tail \in Nat /\ \A n \in Names(TypeOf[w]) : n.stamp = name[w].stamp => tail > n.tail
  BY <1>1, NextTailIsNew DEF Typed
<1> HIDE DEF tail
<1>5. /\ new \in Name /\ new.type = TypeOf[w] /\ new.stamp = name[w].stamp /\ new.tail = tail
  BY <1>3, <1>4 DEF Name
<1>6. \A n \in Names(TypeOf[w]) : Later(new, n)
  <2> SUFFICES ASSUME NEW n \in Names(TypeOf[w]) PROVE Later(new, n)
    OBVIOUS
  <2>1. n \in Name
    BY <1>1 DEF Typed, Names
  <2>2. n.stamp \in Int /\ new.stamp \in Int /\ n.stamp <= new.stamp
    BY <1>3, <1>5, <2>1 DEF Name
  <2>3. n.stamp = new.stamp => new.tail > n.tail
    BY <1>4, <1>5
  <2> QED  BY <2>2, <2>3 DEF Later
<1> HIDE DEF new
<1>7. pc'[w] = "named" /\ name'[w] = new /\ \A v \in Writer \ {w} : name'[v] = name[v]
  BY <1>1, <1>2 DEF Typed, Go
<1>8. Typed'
  BY <1>1, <1>2, <1>5 DEF Typed, Go, Places, Age
<1>9. doomed[w] = {}
  BY <1>1, <1>2 DEF Spares
<1>10. Spares(w)'
  BY <1>2, <1>7, <1>9 DEF Spares
<1>11. Latest(w)'
  BY <1>2, <1>3, <1>5, <1>6, <1>7 DEF Latest, Names
<1> QED  BY <1>2, <1>7, <1>8, <1>10, <1>11, DoorStep DEF Places

\* A snapshot is newer than everything in the folder.
LEMMA SnapshotStep == ASSUME FolderInv, NEW w \in Writer, Snapshot(w)  PROVE FolderInv'
<1>1. Typed /\ Spares(w) /\ Latest(w)
  BY DEF FolderInv
<1>2. /\ Go(w, "copied") /\ pc[w] = "named" /\ copy' = [copy EXCEPT ![w] = snapshots + 1]
      /\ snapshots' = snapshots + 1 /\ stage' = [stage EXCEPT ![w] = "young"]
      /\ UNCHANGED <<clock, folder, name, doomed, orphans>>
  BY DEF Snapshot
<1>3. /\ pc'[w] = "copied" /\ copy'[w] = snapshots + 1
      /\ \A v \in Writer \ {w} : copy'[v] = copy[v]
  BY <1>1, <1>2 DEF Typed, Go
<1>4. snapshots \in Nat /\ snapshots + 1 \in Nat /\ snapshots + 1 <= snapshots + 1
  BY <1>1 DEF Typed
<1>5. \A v \in Writer : copy'[v] \in Nat /\ copy'[v] <= snapshots'
  <2> SUFFICES ASSUME NEW v \in Writer PROVE copy'[v] \in Nat /\ copy'[v] <= snapshots'
    OBVIOUS
  <2>1. copy[v] \in Nat /\ copy[v] <= snapshots
    BY <1>1 DEF Typed
  <2> QED  BY <1>2, <1>3, <1>4, <2>1
<1>6. \A n \in DOMAIN folder : folder[n] \in Int /\ folder[n] <= snapshots + 1
                                /\ snapshots + 1 > folder[n]
  <2> SUFFICES ASSUME NEW n \in DOMAIN folder
               PROVE  folder[n] \in Int /\ folder[n] <= snapshots + 1 /\ snapshots + 1 > folder[n]
    OBVIOUS
  <2>1. folder[n] \in Int /\ folder[n] <= snapshots
    BY <1>1 DEF Typed
  <2> QED  BY <1>4, <2>1
<1>7. copy' \in [Writer -> Nat]
  BY <1>1, <1>2, <1>4 DEF Typed
<1>8. Typed'
  BY <1>1, <1>2, <1>4, <1>5, <1>6, <1>7 DEF Typed, Go, Places, Age
<1>9. Spares(w)'
  BY <1>1, <1>2, <1>3 DEF Spares
<1>10. Latest(w)'
  BY <1>1, <1>2, <1>3, <1>6 DEF Latest, Names
<1> QED  BY <1>2, <1>3, <1>8, <1>9, <1>10, DoorStep DEF Places

\* A backup that ends without an archive leaves the folder alone.
LEMMA FailStep == ASSUME FolderInv, NEW w \in Writer, Fail(w)  PROVE FolderInv'
<1>1. Typed /\ Spares(w)
  BY DEF FolderInv
<1>2. /\ Go(w, "idle") /\ name' = [name EXCEPT ![w] = NoName] /\ pc[w] \in {"named", "copied"}
      /\ copy' = [copy EXCEPT ![w] = 0] /\ stage' = [stage EXCEPT ![w] = "none"]
      /\ UNCHANGED <<clock, folder, snapshots, doomed, orphans>>
  BY DEF Fail, Done, Unstage
<1>3. pc'[w] = "idle" /\ \A v \in Writer \ {w} : name'[v] = name[v] /\ copy'[v] = copy[v]
  BY <1>1, <1>2 DEF Typed, Go
<1>4. \A v \in Writer : copy'[v] <= snapshots
  BY <1>1, <1>2 DEF Typed
<1>5. Typed'
  BY <1>1, <1>2, <1>4 DEF Typed, Go, Places
<1>6. doomed[w] = {}
  BY <1>1, <1>2 DEF Spares
<1>7. Latest(w)' /\ Spares(w)'
  BY <1>2, <1>3, <1>6 DEF Latest, Spares
<1> QED  BY <1>2, <1>3, <1>5, <1>7, DoorStep DEF Places

\* A name taken is later than all of its type, and so is its snapshot.
LEMMA PlaceStep == ASSUME FolderInv, Apart, NEW w \in Writer, Place(w)  PROVE FolderInv'
<1>1. Typed /\ Spares(w) /\ Latest(w) /\ InOrder
  BY DEF FolderInv
<1> DEFINE where == IF TypeOf[w] \in Rotating THEN "placed" ELSE "idle"
           new == name[w]
           names == DOMAIN folder \cup {new}
<1>2. /\ pc[w] = "copied" /\ Go(w, where)
      /\ name' = name \/ name' = [name EXCEPT ![w] = NoName]
      /\ TypeOf[w] \in Rotating => name' = name
      /\ folder' = [n \in names |-> IF n = new THEN copy[w] ELSE folder[n]]
      /\ copy' = [copy EXCEPT ![w] = 0] /\ stage' = [stage EXCEPT ![w] = "none"]
      /\ UNCHANGED <<clock, snapshots, doomed, orphans>>
  BY DEF Place, Done, Unstage
<1>3. /\ new \in Name /\ new.type = TypeOf[w] /\ new.stamp <= clock
      /\ \A n \in Names(TypeOf[w]) : Later(new, n) /\ copy[w] > folder[n]
      /\ copy[w] \in Nat /\ copy[w] <= snapshots
  BY <1>1, <1>2 DEF Latest, Typed
<1> HIDE DEF new
<1>4. DOMAIN folder' = names /\ folder'[new] = copy[w]
      /\ \A n \in DOMAIN folder \ {new} : folder'[n] = folder[n]
  BY <1>2
<1>5. IsFiniteSet(names) /\ names \subseteq Name
  BY <1>1, <1>3, FS_AddElement DEF Typed
<1>6. folder' = [n \in DOMAIN folder' |-> folder'[n]]
  BY <1>2
<1>7. \A n \in names : n.stamp <= clock /\ folder'[n] \in Int /\ folder'[n] <= snapshots
  BY <1>1, <1>3, <1>4 DEF Typed
<1>8. /\ pc' \in [Writer -> Places] /\ name' \in [Writer -> Name \cup {NoName}]
      /\ copy' \in [Writer -> Nat] /\ stage' \in [Writer -> Age \cup {"none"}]
  BY <1>1, <1>2 DEF Typed, Go, Places
<1>9. \A v \in Writer : copy'[v] <= snapshots
  BY <1>1, <1>2 DEF Typed
<1>10. Typed'
  BY <1>1, <1>2, <1>4, <1>5, <1>6, <1>7, <1>8, <1>9 DEF Typed
<1>11. \A m, n \in Name : Later(m, n) => ~Later(n, m) /\ m # n
  BY DEF Name, Later
<1>12. ASSUME NEW m \in names, NEW n \in names, m.type = n.type, Later(m, n)
       PROVE  folder'[m] > folder'[n]
  <2>1. m \in Name /\ n \in Name
    BY <1>5
  <2>2. n # new
    <3>1. CASE m = new
      BY <1>11, <1>12, <2>1, <3>1
    <3>2. CASE m # new
      <4>1. ASSUME n = new  PROVE FALSE
        <5>1. m \in Names(TypeOf[w])
          BY <1>3, <1>12, <3>2, <4>1 DEF Names
        <5>2. Later(new, m)
          BY <1>3, <5>1
        <5> QED  BY <1>11, <1>12, <2>1, <4>1, <5>2
      <4> QED  BY <4>1
    <3> QED  BY <3>1, <3>2
  <2>3. CASE m = new
    BY <1>3, <1>4, <1>12, <2>2, <2>3 DEF Names
  <2>4. CASE m # new
    BY <1>1, <1>4, <1>12, <2>2, <2>4 DEF InOrder
  <2> QED  BY <2>3, <2>4
<1>13. InOrder'
  BY <1>4, <1>12 DEF InOrder
<1>14. pc'[w] = where /\ \A v \in Writer \ {w} : pc'[v] = pc[v] /\ name'[v] = name[v] /\ copy'[v] = copy[v]
  BY <1>1, <1>2 DEF Typed, Go
<1>15. Spares(w)'
  <2>1. doomed'[w] = {}
    BY <1>1, <1>2 DEF Spares
  <2> QED  BY <1>14, <2>1 DEF Spares
<1>16. Latest(w)'
  <2>1. CASE TypeOf[w] \in Rotating
    <3>1. pc'[w] = "placed" /\ name'[w] = new
      BY <1>2, <1>14, <2>1 DEF new
    <3>2. \A n \in Names(TypeOf[w])' : n = new \/ Later(new, n)
      BY <1>3, <1>4 DEF Names
    <3> QED  BY <1>2, <1>3, <3>1, <3>2 DEF Latest
  <2>2. CASE TypeOf[w] \notin Rotating
    BY <1>14, <2>2 DEF Latest
  <2> QED  BY <2>1, <2>2
<1>17. ASSUME NEW v \in Writer, v # w  PROVE Latest(v)' /\ Spares(v)'
  <2>1. CASE TypeOf[v] = TypeOf[w]
    <3>1. pc[v] = "idle"
      BY <1>2, <1>17, <2>1 DEF Apart
    <3>2. doomed[v] = {}
      BY <3>1 DEF FolderInv, Spares
    <3>3. pc'[v] = "idle" /\ doomed'[v] = {}
      BY <1>2, <1>14, <1>17, <3>1, <3>2
    <3> QED  BY <3>3 DEF Latest, Spares
  <2>2. CASE TypeOf[v] # TypeOf[w]
    <3>1. \A n \in DOMAIN folder' : n.type = TypeOf[v] => n \in DOMAIN folder /\ folder'[n] = folder[n]
      BY <1>3, <1>4, <2>2
    <3>2. UNCHANGED <<pc[v], name[v], copy[v], doomed[v]>> /\ clock <= clock'
      BY <1>1, <1>2, <1>14, <1>17 DEF Typed
    <3> QED  BY <1>10, <3>1, <3>2, Undisturbed
  <2> QED  BY <2>1, <2>2
<1> QED  BY <1>10, <1>13, <1>15, <1>16, <1>17 DEF FolderInv

\* What a rotation lists has as many later names of its type as are kept, so the
\* door's own archive is not among it.
LEMMA ListOutdatedStep == ASSUME FolderInv, NEW w \in Writer, ListOutdated(w)  PROVE FolderInv'
<1>1. Typed /\ Spares(w) /\ Latest(w)
  BY DEF FolderInv
<1> DEFINE old == Outdated(TypeOf[w])
<1>2. /\ Go(w, "rotating") /\ pc[w] = "placed" /\ doomed' = [doomed EXCEPT ![w] = old]
      /\ UNCHANGED <<clock, folder, snapshots, name, copy, stage, orphans>>
  BY DEF ListOutdated
<1>3. old \subseteq Names(TypeOf[w]) /\ old \subseteq Name
  BY <1>1 DEF Outdated, Names, Typed
<1>4. \A n \in old : n.type = TypeOf[w]
  BY <1>3 DEF Names
<1>5. name[w] \notin old
  <2> SUFFICES ASSUME name[w] \in old PROVE FALSE
    OBVIOUS
  <2> DEFINE later == {m \in Names(TypeOf[w]) : Later(m, name[w])}
  <2>1. Cardinality(later) >= Keep[TypeOf[w]] /\ Keep[TypeOf[w]] \in Nat \ {0}
    BY <1>1, <1>2, FolderAssumption DEF Outdated, Spares
  <2>2. \A m \in Names(TypeOf[w]) : m = name[w] \/ Later(name[w], m)
    BY <1>1, <1>2 DEF Latest
  <2>3. \A m \in Names(TypeOf[w]) : m \in Name /\ name[w] \in Name
    BY <1>1, <1>3 DEF Typed, Names
  <2>4. later = {}
    BY <2>2, <2>3 DEF Name, Later
  <2> QED  BY <2>1, <2>4, FS_EmptySet
<1> HIDE DEF old
<1>6. /\ pc'[w] = "rotating" /\ doomed'[w] = old
      /\ \A v \in Writer \ {w} : doomed'[v] = doomed[v]
  BY <1>1, <1>2 DEF Typed, Go
<1>7. Typed'
  BY <1>1, <1>2, <1>3 DEF Typed, Go, Places
<1>8. Spares(w)'
  BY <1>2, <1>4, <1>5, <1>6 DEF Spares
<1>9. Latest(w)'
  BY <1>1, <1>2, <1>6 DEF Latest, Names
<1> QED  BY <1>2, <1>6, <1>7, <1>8, <1>9, DoorStep DEF Places

\* One name less: the types of the state, and what is left of it.
LEMMA WithoutOne ==
  ASSUME Typed, NEW n, folder' = Without(n)
  PROVE  /\ DOMAIN folder' = DOMAIN folder \ {n}
         /\ \A m \in DOMAIN folder' : folder'[m] = folder[m]
         /\ folder' = [m \in DOMAIN folder' |-> folder'[m]]
         /\ DOMAIN folder' \subseteq Name /\ IsFiniteSet(DOMAIN folder')
         /\ \A m \in DOMAIN folder' :
               m.stamp <= clock /\ folder'[m] \in Int /\ folder'[m] <= snapshots
<1>1. folder' = [m \in DOMAIN folder \ {n} |-> folder[m]]
  BY DEF Without, Restrict
<1>2. DOMAIN folder' = DOMAIN folder \ {n} /\ \A m \in DOMAIN folder' : folder'[m] = folder[m]
  BY <1>1
<1>3. IsFiniteSet(DOMAIN folder \ {n})
  BY FS_RemoveElement DEF Typed
<1>4. folder' = [m \in DOMAIN folder' |-> folder'[m]]
  BY <1>1
<1> QED  BY <1>2, <1>3, <1>4 DEF Typed

\* A rotation goes through what it listed.
LEMMA RotateStep ==
  ASSUME FolderInv, NEW w \in Writer, NEW n \in doomed[w], Rotate(w, n) \/ Skip(w, n)
  PROVE  FolderInv'
<1>1. Typed /\ Spares(w) /\ Latest(w)
  BY DEF FolderInv
<1>2. /\ pc[w] = "rotating" /\ doomed' = [doomed EXCEPT ![w] = doomed[w] \ {n}]
      /\ folder' = folder \/ folder' = Without(n)
      /\ UNCHANGED <<clock, snapshots, pc, name, copy, stage, orphans>>
  BY DEF Rotate, Skip
<1>3. /\ \A m \in DOMAIN folder' : m \in DOMAIN folder /\ folder'[m] = folder[m]
      /\ folder' = [m \in DOMAIN folder' |-> folder'[m]]
      /\ DOMAIN folder' \subseteq Name /\ IsFiniteSet(DOMAIN folder')
      /\ \A m \in DOMAIN folder' :
            m.stamp <= clock /\ folder'[m] \in Int /\ folder'[m] <= snapshots
  <2>1. CASE folder' = folder
    BY <1>1, <2>1 DEF Typed
  <2>2. CASE folder' = Without(n)
    BY <1>1, <2>2, WithoutOne
  <2> QED  BY <1>2, <2>1, <2>2
<1>4. doomed' \in [Writer -> SUBSET Name] /\ doomed'[w] = doomed[w] \ {n}
      /\ \A v \in Writer \ {w} : doomed'[v] = doomed[v]
  BY <1>1, <1>2 DEF Typed
<1>5. Typed'
  BY <1>1, <1>2, <1>3, <1>4 DEF Typed
<1>6. Go(w, "rotating")
  BY <1>1, <1>2 DEF Typed, Go
<1>7. Spares(w)'
  BY <1>1, <1>2, <1>4 DEF Spares
<1>8. Latest(w)'
  BY <1>1, <1>2, <1>3 DEF Latest, Names
<1> QED  BY <1>2, <1>3, <1>4, <1>5, <1>6, <1>7, <1>8, DoorStep DEF Places

\* A rotation that is through, and an archive sent or not to be found.
LEMMA RotatedStep ==
  ASSUME FolderInv, NEW w \in Writer, Rotated(w) \/ Send(w) \/ SendNothing(w)
  PROVE  FolderInv'
<1>1. Typed /\ Spares(w) /\ Latest(w)
  BY DEF FolderInv
<1>2. PICK where \in {"sending", "idle"} :
         /\ Go(w, where) /\ pc[w] \in {"rotating", "sending"}
         /\ name' = IF where = "idle" THEN [name EXCEPT ![w] = NoName] ELSE name
         /\ UNCHANGED <<clock, folder, snapshots, copy, stage, doomed, orphans>>
  BY DEF Rotated, Send, SendNothing, Done
<1>3. doomed[w] = {}
  BY <1>1 DEF Rotated, Send, SendNothing, Spares
<1>4. pc'[w] = where /\ \A v \in Writer \ {w} : name'[v] = name[v]
  BY <1>1, <1>2 DEF Typed, Go
<1>5. name' \in [Writer -> Name \cup {NoName}] /\ pc' \in [Writer -> Places]
  BY <1>1, <1>2 DEF Typed, Go, Places
<1>6. Typed'
  BY <1>1, <1>2, <1>5 DEF Typed
<1>7. Spares(w)'
  BY <1>2, <1>3, <1>4 DEF Spares
<1>8. Latest(w)'
  BY <1>1, <1>2, <1>4 DEF Latest, Names
<1> QED  BY <1>2, <1>4, <1>6, <1>7, <1>8, DoorStep DEF Places

\* A deletion in the history concerns no door's name; it may be gone later.
LEMMA DeleteStep == ASSUME FolderInv, NEW n \in DOMAIN folder, Delete(n)  PROVE FolderInv'
<1>1. Typed /\ InOrder
  BY DEF FolderInv
<1>2. folder' = Without(n) /\ UNCHANGED <<clock, snapshots, pc, name, copy, stage, doomed, orphans>>
  BY DEF Delete
<1>3. /\ DOMAIN folder' = DOMAIN folder \ {n}
      /\ \A m \in DOMAIN folder' : folder'[m] = folder[m]
      /\ folder' = [m \in DOMAIN folder' |-> folder'[m]]
      /\ DOMAIN folder' \subseteq Name /\ IsFiniteSet(DOMAIN folder')
      /\ \A m \in DOMAIN folder' :
            m.stamp <= clock /\ folder'[m] \in Int /\ folder'[m] <= snapshots
  BY <1>1, <1>2, WithoutOne
<1>4. Typed'
  BY <1>1, <1>2, <1>3 DEF Typed
<1>5. InOrder'
  BY <1>1, <1>3 DEF InOrder
<1>6. ASSUME NEW v \in Writer  PROVE Latest(v)' /\ Spares(v)'
  <2>1. clock <= clock'
    BY <1>1, <1>2 DEF Typed
  <2> QED  BY <1>2, <1>3, <1>4, <2>1, Undisturbed
<1> QED  BY <1>4, <1>5, <1>6 DEF FolderInv

\* Time that passes concerns the staging alone.
LEMMA TimeStep == ASSUME FolderInv, Tick \/ Hour \/ Suspend  PROVE FolderInv'
<1>1. Typed /\ InOrder
  BY DEF FolderInv
<1>2. UNCHANGED <<folder, snapshots, pc, name, copy, doomed>>
  BY DEF Tick, Hour, Suspend
<1>3. clock' \in 0..MaxClock /\ clock <= clock' /\ clock' \in Int /\ clock \in Int
  BY <1>1, FolderAssumption DEF Typed, Tick, Hour, Suspend
<1>4. \A n \in DOMAIN folder : n.stamp <= clock'
  BY <1>1, <1>3 DEF Typed, Name
<1>5. stage' \in [Writer -> Age \cup {"none"}] /\ orphans' \subseteq Age
  BY <1>1 DEF Typed, Tick, Hour, Suspend, Age
<1>6. Typed'
  BY <1>1, <1>2, <1>3, <1>4, <1>5 DEF Typed
<1>7. InOrder'
  BY <1>1, <1>2 DEF InOrder
<1>8. ASSUME NEW v \in Writer  PROVE Latest(v)' /\ Spares(v)'
  BY <1>2, <1>3, <1>6, Undisturbed
<1> QED  BY <1>6, <1>7, <1>8 DEF FolderInv

\* A process that starts has begun no backup.
LEMMA RestartStep == ASSUME FolderInv, Restart  PROVE FolderInv'
<1>1. Typed /\ InOrder
  BY DEF FolderInv
<1>2. /\ pc' = [w \in Writer |-> "idle"] /\ name' = [w \in Writer |-> NoName]
      /\ copy' = [w \in Writer |-> 0] /\ doomed' = [w \in Writer |-> {}]
      /\ stage' = [w \in Writer |-> "none"]
      /\ orphans' = (orphans \cup {stage[w] : w \in Writer}) \ {"none", "old"}
      /\ UNCHANGED <<clock, folder, snapshots>>
  BY DEF Restart
<1>3. orphans' \subseteq Age
  BY <1>1, <1>2 DEF Typed
<1>4. \A w \in Writer : copy'[w] <= snapshots
  BY <1>1, <1>2 DEF Typed
<1>5. Typed'
  BY <1>1, <1>2, <1>3, <1>4 DEF Typed, Places
<1>6. InOrder'
  BY <1>1, <1>2 DEF InOrder
<1>7. ASSUME NEW v \in Writer  PROVE Latest(v)' /\ Spares(v)'
  BY <1>2 DEF Latest, Spares
<1> QED  BY <1>5, <1>6, <1>7 DEF FolderInv

------------------------------------------------------------------------------
(* Theorems *)

\* Every step preserves the invariant, while the doors of a type are apart.
LEMMA FolderStep == FolderInv /\ Apart /\ [Next]_vars => FolderInv'
<1> SUFFICES ASSUME FolderInv, Apart, [Next]_vars PROVE FolderInv'
  OBVIOUS
<1>1. ASSUME NEW w \in Writer, Backup(w)  PROVE FolderInv'
  BY <1>1, BeginStep, ChooseNameStep, SnapshotStep, FailStep, PlaceStep, ListOutdatedStep,
     RotatedStep, RotateStep DEF Backup
<1>2. ASSUME NEW n \in DOMAIN folder, Delete(n)  PROVE FolderInv'
  BY <1>2, DeleteStep
<1>3. CASE Tick \/ Hour \/ Suspend
  BY <1>3, TimeStep
<1>4. CASE Restart
  BY <1>4, RestartStep
<1>5. CASE UNCHANGED vars
  BY <1>5 DEF vars, FolderInv, Typed, InOrder, Latest, Spares, Names
<1> QED  BY <1>1, <1>2, <1>3, <1>4, <1>5 DEF Next

\* The invariant holds of every behaviour in which the doors of a type are apart.
THEOREM FolderInvariant == Spec /\ []Apart => []FolderInv
<1>1. FolderInv /\ Apart /\ [Next]_vars => FolderInv'
  BY FolderStep
<1> QED  BY <1>1, FolderInvHolds, PTL DEF Spec

\* The variables have their types.
THEOREM TypeCorrect == Spec /\ []Apart => []TypeOK
<1>1. FolderInv => TypeOK
  BY DEF FolderInv, Typed, TypeOK, Places
<1> QED  BY <1>1, FolderInvariant, PTL

\* "Never overwrite an existing backup": a name keeps its contents until it is
\* deleted, as long as no two doors are in a backup of one type at once.  That
\* this cannot be left out is the run same_second.
THEOREM NothingOverwritten == Spec /\ []Apart => NeverOverwritten
<1>1. FolderInv /\ [Next]_vars =>
         [\A n \in DOMAIN folder \cap DOMAIN folder' : folder'[n] = folder[n]]_vars
  <2> SUFFICES ASSUME FolderInv, [Next]_vars, NEW n \in DOMAIN folder, n \in DOMAIN folder'
               PROVE  folder'[n] = folder[n]
    OBVIOUS
  <2>1. Typed
    BY DEF FolderInv
  <2>2. ASSUME NEW w \in Writer, Place(w)  PROVE folder'[n] = folder[n]
    <3>1. n # name[w]
      <4>1. name[w] \in Name /\ name[w].type = TypeOf[w]
            /\ \A m \in Names(TypeOf[w]) : Later(name[w], m)
        BY <2>2 DEF FolderInv, Latest, Place
      <4>2. ~Later(name[w], name[w])
        BY <4>1 DEF Name, Later
      <4> QED  BY <4>1, <4>2 DEF Names
    <3> QED  BY <2>2, <3>1 DEF Place
  <2>3. ASSUME NEW m, folder' = Without(m)  PROVE folder'[n] = folder[n]
    BY <2>1, <2>3, WithoutOne
  <2>4. ASSUME NEW w \in Writer, Backup(w)  PROVE folder'[n] = folder[n]
    BY <2>2, <2>3, <2>4 DEF Backup, Begin, ChooseName, Snapshot, Fail, ListOutdated,
       Rotated, Send, SendNothing, Rotate, Skip
  <2>5. ASSUME NEW m \in DOMAIN folder, Delete(m)  PROVE folder'[n] = folder[n]
    BY <2>3, <2>5 DEF Delete
  <2>6. CASE Tick \/ Hour \/ Suspend \/ Restart \/ UNCHANGED vars
    BY <2>6 DEF Tick, Hour, Suspend, Restart, vars
  <2> QED  BY <2>4, <2>5, <2>6 DEF Next
<1> QED  BY <1>1, FolderInvariant, PTL DEF Spec, NeverOverwritten

\* A rotation gives up a recovery point only for as many newer ones of its type
\* as that type keeps, newer by the snapshots themselves.
THEOREM TheOldestAreRotated == Spec /\ []Apart => RotatesTheOldest
<1>1. FolderInv =>
         [\A w \in Writer : ListOutdated(w) =>
            \A n \in doomed'[w] :
               /\ n.type = TypeOf[w] /\ n.type \in Rotating
               /\ Cardinality({m \in Names(TypeOf[w]) : folder[m] > folder[n]})
                     >= Keep[TypeOf[w]]]_vars
  <2> SUFFICES ASSUME FolderInv, NEW w \in Writer, ListOutdated(w), NEW n \in doomed'[w]
               PROVE  /\ n.type = TypeOf[w] /\ n.type \in Rotating
                      /\ Cardinality({m \in Names(TypeOf[w]) : folder[m] > folder[n]})
                            >= Keep[TypeOf[w]]
    OBVIOUS
  <2> DEFINE type == TypeOf[w]
             later == {m \in Names(type) : Later(m, n)}
             newer == {m \in Names(type) : folder[m] > folder[n]}
  <2>1. Typed /\ InOrder /\ Spares(w)
    BY DEF FolderInv
  <2>2. n \in Outdated(type)
    BY <2>1 DEF ListOutdated, Typed
  <2>3. n \in Names(type) /\ Cardinality(later) >= Keep[type]
    BY <2>2 DEF Outdated
  <2>4. type \in Rotating /\ Keep[type] \in Nat
    BY <2>1, FolderAssumption DEF ListOutdated, Spares
  <2>5. later \subseteq newer
    BY <2>1, <2>3 DEF InOrder, Names
  <2>6. IsFiniteSet(newer)
    <3>1. newer \subseteq DOMAIN folder
      BY DEF Names
    <3> QED  BY <2>1, <3>1, FS_Subset DEF Typed
  <2>7. Cardinality(later) <= Cardinality(newer) /\ Cardinality(later) \in Nat
        /\ Cardinality(newer) \in Nat
    BY <2>5, <2>6, FS_Subset, FS_CardinalityType
  <2>8. Cardinality(newer) >= Keep[type]
    <3> HIDE DEF type, later, newer
    <3> QED  BY <2>3, <2>4, <2>7
  <2> QED  BY <2>3, <2>4, <2>8 DEF Names
<1> QED  BY <1>1, FolderInvariant, PTL DEF RotatesTheOldest

\* Download Backup finds the archive it made, unless the researcher deletes it:
\* its own rotation spares it, and those of other types do not reach it.
THEOREM WhatWasMadeIsSent == Spec /\ []Apart => SendsWhatItMade
<1>1. FolderInv /\ Apart /\ [Next]_vars =>
         [\A w \in Writer :
            /\ TypeOf[w] = "manual" /\ pc[w] \in {"placed", "rotating", "sending"}
            /\ name[w] \in DOMAIN folder \ DOMAIN folder'
            => Delete(name[w])]_vars
  <2> SUFFICES ASSUME FolderInv, Apart, [Next]_vars, NEW w \in Writer,
                      pc[w] \in {"placed", "rotating", "sending"},
                      name[w] \in DOMAIN folder \ DOMAIN folder'
               PROVE  Delete(name[w])
    OBVIOUS
  <2>1. Typed /\ Latest(w)
    BY DEF FolderInv
  <2>2. ASSUME NEW v \in Writer, NEW n \in doomed[v], Rotate(v, n)  PROVE FALSE
    <3>1. folder' = Without(n)
      BY <2>2 DEF Rotate
    <3>2. name[w] = n
      BY <2>1, <3>1, WithoutOne
    <3>3. Spares(v) /\ pc[v] = "rotating"
      BY <2>2 DEF FolderInv, Rotate
    <3>4. n.type = TypeOf[v] /\ n # name[v]
      BY <3>3 DEF Spares
    <3>5. name[w].type = TypeOf[w]
      BY <2>1 DEF Latest
    <3>6. v # w /\ TypeOf[v] = TypeOf[w]
      BY <3>2, <3>4, <3>5
    <3> QED  BY <3>3, <3>6 DEF Apart
  <2>3. ASSUME NEW v \in Writer, Place(v)  PROVE FALSE
    BY <2>3 DEF Place
  <2>4. ASSUME NEW v \in Writer, Backup(v)  PROVE FALSE
    BY <2>2, <2>3, <2>4 DEF Backup, Begin, ChooseName, Snapshot, Fail, ListOutdated,
       Rotated, Send, SendNothing, Skip
  <2>5. ASSUME NEW n \in DOMAIN folder, Delete(n)  PROVE Delete(name[w])
    <3>1. name[w] = n
      BY <2>1, <2>5, WithoutOne DEF Delete
    <3> QED  BY <2>5, <3>1
  <2>6. CASE Tick \/ Hour \/ Suspend \/ Restart \/ UNCHANGED vars
    BY <2>6 DEF Tick, Hour, Suspend, Restart, vars
  <2> QED  BY <2>4, <2>5, <2>6 DEF Next
<1> QED  BY <1>1, FolderInvariant, PTL DEF Spec, SendsWhatItMade
=============================================================================
