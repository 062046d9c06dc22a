--------------------------- MODULE TrashBinProofs ---------------------------
(***************************************************************************)
(* Proofs about TrashBin for any number of administrators, paths, files,   *)
(* items and faults.                                                       *)
(***************************************************************************)
EXTENDS TrashBin, TLAPS

\* The control points at which a goroutine acts on the tree or the row of its item
Acting == {"info", "insert", "check", "place", "clean", "wipe", "deleteRow", "recover"}

\* Everything that is known of an item is of one that was moved.  An ID has one
\* Move, so it keeps the tree it got.
MovedInv ==
  /\ \A i \in Items : (i \in rows \/ i \in info \/ tree[i] # NoFile) => Moved(i)
  /\ \A x \in Procs : pc[x] \in Acting => item[x] \in Items /\ Moved(item[x])
  /\ pc[Sweeper] # "rename"
  /\ pc[Sweeper] = "read" => item[Sweeper] \in Items
  /\ \A h \in Handlers : pc[h] = "rename" => item[h] \in Items /\ orig[item[h]] # NoPath
  /\ \A g, h \in Handlers : pc[g] = "rename" /\ pc[h] = "rename" /\ item[g] = item[h] => g = h

\* When the rest of an item is removed, its tree is back in the library or gone.
GoneInv == \A x \in Procs : pc[x] \in {"clean", "deleteRow"} => tree[item[x]] = NoFile

IndInv == TypeOK /\ MovedInv /\ GoneInv /\ MediaSurvives /\ RecycledIsFindable

USE DEF vars, binVars, sweepVars, fateVars, Procs

\* A step without a fault, or with one of the three kinds, keeps faults typed.
LEMMA FaultType ==
  ASSUME faults \subseteq {"db", "io", "crash"},
         UNCHANGED faults \/ Fault("db") \/ Fault("io") \/ Fault("crash")
  PROVE  faults' \subseteq {"db", "io", "crash"}
  BY DEF Fault

\* The empty bin satisfies the invariant.
LEMMA IndInit == Init => IndInv
<1> SUFFICES ASSUME Init PROVE IndInv
  OBVIOUS
<1>1. TypeOK
  BY DEF Init, TypeOK, PCs
<1>2. MovedInv /\ GoneInv /\ MediaSurvives /\ RecycledIsFindable
  BY DEF Init, MovedInv, Acting, GoneInv, MediaSurvives, RecycledIsFindable
<1> QED
  BY <1>1, <1>2 DEF IndInv

\* Move preserves the invariant, from the request to the insert.
LEMMA IndMove ==
  ASSUME IndInv, NEW h \in Handlers,
         \/ \E p \in Paths, i \in Items : Move(h, p, i)
         \/ MoveRename(h) \/ WriteTrashInfo(h) \/ Insert(h) \/ InsertFails(h)
  PROVE  IndInv'
<1> USE DEF IndInv, TypeOK, PCs, MovedInv, Moved, Acting, GoneInv, MediaSurvives, RecycledIsFindable
<1>1. ASSUME NEW p \in Paths, NEW i \in Items, Move(h, p, i)
      PROVE  IndInv'
  <2> USE <1>1 DEF Move, Goto
  <2>1. TypeOK'
    BY TrashAssumption
  <2>2. MovedInv' /\ GoneInv'
    BY TrashAssumption
  <2>3. MediaSurvives'
    BY TrashAssumption
  <2>4. RecycledIsFindable'
    BY TrashAssumption
  <2> QED
    BY <2>1, <2>2, <2>3, <2>4
<1>2. CASE MoveRename(h)
  <2> USE <1>2 DEF MoveRename, Return, Fault
  <2>1. TypeOK'
    <3>1. UNCHANGED faults \/ Fault("io")
      OBVIOUS
    <3>2. faults' \subseteq {"db", "io", "crash"}
      BY <3>1, FaultType
    <3> QED
      BY <3>2, TrashAssumption
  <2>2. MovedInv' /\ GoneInv'
    BY TrashAssumption
  <2>3. MediaSurvives'
    BY TrashAssumption
  <2>4. RecycledIsFindable'
    BY TrashAssumption
  <2> QED
    BY <2>1, <2>2, <2>3, <2>4
<1>3. CASE WriteTrashInfo(h)
  <2> USE <1>3 DEF WriteTrashInfo, Goto, Fault
  <2>1. TypeOK'
    <3>1. UNCHANGED faults \/ Fault("io")
      OBVIOUS
    <3>2. faults' \subseteq {"db", "io", "crash"}
      BY <3>1, FaultType
    <3> QED
      BY <3>2, TrashAssumption
  <2>2. MovedInv' /\ GoneInv'
    BY TrashAssumption
  <2>3. MediaSurvives'
    BY TrashAssumption
  <2>4. RecycledIsFindable'
    BY TrashAssumption
  <2> QED
    BY <2>1, <2>2, <2>3, <2>4
<1>4. CASE Insert(h)
  <2> USE <1>4 DEF Insert, Return
  <2>1. TypeOK'
    BY TrashAssumption
  <2>2. MovedInv' /\ GoneInv'
    BY TrashAssumption
  <2>3. MediaSurvives'
    BY TrashAssumption
  <2>4. RecycledIsFindable'
    BY TrashAssumption
  <2> QED
    BY <2>1, <2>2, <2>3, <2>4
<1>5. CASE InsertFails(h)
  <2> USE <1>5 DEF InsertFails, Goto, Fault
  <2>1. TypeOK'
    <3>1. UNCHANGED faults \/ Fault("db")
      OBVIOUS
    <3>2. faults' \subseteq {"db", "io", "crash"}
      BY <3>1, FaultType
    <3> QED
      BY <3>2, TrashAssumption
  <2>2. MovedInv' /\ GoneInv'
    BY TrashAssumption
  <2>3. MediaSurvives'
    BY TrashAssumption
  <2>4. RecycledIsFindable'
    BY TrashAssumption
  <2> QED
    BY <2>1, <2>2, <2>3, <2>4
<1> QED
  BY <1>1, <1>2, <1>3, <1>4, <1>5

\* Restore and the rollback of Move preserve the invariant.
LEMMA IndRestore ==
  ASSUME IndInv, NEW h \in Handlers,
         \/ \E i \in Items : Restore(h, i)
         \/ resolveRestorePaths(h) \/ RestoreRename(h) \/ RestoreClean(h)
  PROVE  IndInv'
<1> USE DEF IndInv, TypeOK, PCs, MovedInv, Moved, Acting, GoneInv, MediaSurvives, RecycledIsFindable
<1>1. ASSUME NEW i \in Items, Restore(h, i)
      PROVE  IndInv'
  <2> USE <1>1 DEF Restore, Goto
  <2>1. TypeOK'
    BY TrashAssumption
  <2>2. MovedInv' /\ GoneInv'
    BY TrashAssumption
  <2>3. MediaSurvives'
    BY TrashAssumption
  <2>4. RecycledIsFindable'
    BY TrashAssumption
  <2> QED
    BY <2>1, <2>2, <2>3, <2>4
<1>2. CASE resolveRestorePaths(h)
  <2> USE <1>2 DEF resolveRestorePaths, CanRestore, Goto, Return
  <2>1. TypeOK'
    BY TrashAssumption
  <2>2. MovedInv' /\ GoneInv'
    BY TrashAssumption
  <2>3. MediaSurvives'
    BY TrashAssumption
  <2>4. RecycledIsFindable'
    BY TrashAssumption
  <2> QED
    BY <2>1, <2>2, <2>3, <2>4
<1>3. CASE RestoreRename(h)
  <2> USE <1>3 DEF RestoreRename, Return, Fault
  <2>1. TypeOK'
    <3>1. UNCHANGED faults \/ Fault("io")
      OBVIOUS
    <3>2. faults' \subseteq {"db", "io", "crash"}
      BY <3>1, FaultType
    <3> QED
      BY <3>2, TrashAssumption
  <2>2. MovedInv' /\ GoneInv'
    BY TrashAssumption
  <2>3. MediaSurvives'
    BY TrashAssumption
  <2>4. RecycledIsFindable'
    BY TrashAssumption
  <2> QED
    BY <2>1, <2>2, <2>3, <2>4
<1>4. CASE RestoreClean(h)
  <2> USE <1>4 DEF RestoreClean, RemoveTrashItem, Goto, Return
  <2>1. TypeOK'
    BY TrashAssumption
  <2>2. MovedInv' /\ GoneInv'
    BY TrashAssumption
  <2>3. MediaSurvives'
    BY TrashAssumption
  <2>4. RecycledIsFindable'
    BY TrashAssumption
  <2> QED
    BY <2>1, <2>2, <2>3, <2>4
<1> QED
  BY <1>1, <1>2, <1>3, <1>4

\* A request to delete an item preserves the invariant.
LEMMA IndDelete ==
  ASSUME IndInv, NEW h \in Handlers, NEW i \in Items, DeleteForever(h, i)
  PROVE  IndInv'
<1> USE DEF IndInv, TypeOK, PCs, MovedInv, Moved, Acting, GoneInv, MediaSurvives, RecycledIsFindable
<1>1. CASE DeleteForever(h, i)
  <2> USE <1>1 DEF DeleteForever, Goto
  <2>1. TypeOK'
    BY TrashAssumption
  <2>2. MovedInv' /\ GoneInv'
    BY TrashAssumption
  <2>3. MediaSurvives'
    BY TrashAssumption
  <2>4. RecycledIsFindable'
    BY TrashAssumption
  <2> QED
    BY <2>1, <2>2, <2>3, <2>4
<1> QED
  BY <1>1

\* The removal, of a request or a sweep, preserves the invariant.
LEMMA IndRemove ==
  ASSUME IndInv, NEW x \in Procs, Remove(x)
  PROVE  IndInv'
<1> USE DEF IndInv, TypeOK, PCs, MovedInv, Moved, Acting, GoneInv, MediaSurvives, RecycledIsFindable
<1>1. CASE Wipe(x)
  <2> USE <1>1 DEF Wipe, RemoveTrashItem, Goto
  <2>1. TypeOK'
    BY TrashAssumption
  <2>2. MovedInv' /\ GoneInv'
    BY TrashAssumption
  <2>3. MediaSurvives'
    BY TrashAssumption
  <2>4. RecycledIsFindable'
    BY TrashAssumption
  <2> QED
    BY <2>1, <2>2, <2>3, <2>4
<1>2. CASE RemoveFails(x)
  <2> USE <1>2 DEF RemoveFails, Fault, Return
  <2>1. TypeOK'
    BY TrashAssumption
  <2>2. MovedInv' /\ GoneInv'
    BY TrashAssumption
  <2>3. MediaSurvives'
    BY TrashAssumption
  <2>4. RecycledIsFindable'
    BY TrashAssumption
  <2> QED
    BY <2>1, <2>2, <2>3, <2>4
<1>3. CASE DeleteRow(x)
  <2> USE <1>3 DEF DeleteRow, Return
  <2>1. TypeOK'
    BY TrashAssumption
  <2>2. MovedInv' /\ GoneInv'
    BY TrashAssumption
  <2>3. MediaSurvives'
    BY TrashAssumption
  <2>4. RecycledIsFindable'
    BY TrashAssumption
  <2> QED
    BY <2>1, <2>2, <2>3, <2>4
<1>4. CASE DeleteRowFails(x)
  <2> USE <1>4 DEF DeleteRowFails, Fault, Return
  <2>1. TypeOK'
    BY TrashAssumption
  <2>2. MovedInv' /\ GoneInv'
    BY TrashAssumption
  <2>3. MediaSurvives'
    BY TrashAssumption
  <2>4. RecycledIsFindable'
    BY TrashAssumption
  <2> QED
    BY <2>1, <2>2, <2>3, <2>4
<1> QED
  BY <1>1, <1>2, <1>3, <1>4 DEF Remove

\* List, EmptyAll and PurgeExpired preserve the invariant.
LEMMA IndSweep ==
  ASSUME IndInv,
         (\E m \in {"list", "all", "expired"} : Sweep(m)) \/ SweeperStep
  PROVE  IndInv'
<1> USE DEF IndInv, TypeOK, PCs, MovedInv, Moved, Acting, GoneInv, MediaSurvives, RecycledIsFindable
<1>1. ASSUME NEW m \in {"list", "all", "expired"}, Sweep(m)
      PROVE  IndInv'
  <2> USE <1>1 DEF Sweep, Goto, Fault
  <2>1. TypeOK'
    BY TrashAssumption
  <2>2. MovedInv' /\ GoneInv'
    BY TrashAssumption
  <2>3. MediaSurvives'
    BY TrashAssumption
  <2>4. RecycledIsFindable'
    BY TrashAssumption
  <2> QED
    BY <2>1, <2>2, <2>3, <2>4
<1>2. ASSUME NEW i \in Items, ReconcileGet(i)
      PROVE  IndInv'
  <2> USE <1>2 DEF ReconcileGet, Goto, Fault
  <2>1. TypeOK'
    <3>1. UNCHANGED faults \/ Fault("db")
      OBVIOUS
    <3>2. faults' \subseteq {"db", "io", "crash"}
      BY <3>1, FaultType
    <3> QED
      BY <3>2, TrashAssumption
  <2>2. MovedInv' /\ GoneInv'
    BY TrashAssumption
  <2>3. MediaSurvives'
    BY TrashAssumption
  <2>4. RecycledIsFindable'
    BY TrashAssumption
  <2> QED
    BY <2>1, <2>2, <2>3, <2>4
<1>3. CASE ReadTrashInfo
  <2> USE <1>3 DEF ReadTrashInfo, NextID, Goto
  <2>1. TypeOK'
    BY TrashAssumption
  <2>2. MovedInv' /\ GoneInv'
    BY TrashAssumption
  <2>3. MediaSurvives'
    BY TrashAssumption
  <2>4. RecycledIsFindable'
    BY TrashAssumption
  <2> QED
    BY <2>1, <2>2, <2>3, <2>4
<1>4. CASE RecoverRow
  <2> USE <1>4 DEF RecoverRow, NextID, Goto, Fault
  <2>1. TypeOK'
    <3>1. UNCHANGED faults \/ Fault("db")
      OBVIOUS
    <3>2. faults' \subseteq {"db", "io", "crash"}
      BY <3>1, FaultType
    <3> QED
      BY <3>2, TrashAssumption
  <2>2. MovedInv' /\ GoneInv'
    BY TrashAssumption
  <2>3. MediaSurvives'
    BY TrashAssumption
  <2>4. RecycledIsFindable'
    BY TrashAssumption
  <2> QED
    BY <2>1, <2>2, <2>3, <2>4
<1>5. CASE ListRows
  <2> USE <1>5 DEF ListRows, Goto, Return
  <2>1. TypeOK'
    BY TrashAssumption
  <2>2. MovedInv' /\ GoneInv'
    BY TrashAssumption
  <2>3. MediaSurvives'
    BY TrashAssumption
  <2>4. RecycledIsFindable'
    BY TrashAssumption
  <2> QED
    BY <2>1, <2>2, <2>3, <2>4
<1>6. ASSUME NEW i \in Items, SweepGet(i)
      PROVE  IndInv'
  <2> USE <1>6 DEF SweepGet, Return
  <2>1. TypeOK'
    BY TrashAssumption
  <2>2. MovedInv' /\ GoneInv'
    BY TrashAssumption
  <2>3. MediaSurvives'
    BY TrashAssumption
  <2>4. RecycledIsFindable'
    BY TrashAssumption
  <2> QED
    BY <2>1, <2>2, <2>3, <2>4
<1>7. CASE SweepFails
  <2> USE <1>7 DEF SweepFails, Fault, Return
  <2>1. TypeOK'
    BY TrashAssumption
  <2>2. MovedInv' /\ GoneInv'
    BY TrashAssumption
  <2>3. MediaSurvives'
    BY TrashAssumption
  <2>4. RecycledIsFindable'
    BY TrashAssumption
  <2> QED
    BY <2>1, <2>2, <2>3, <2>4
<1>8. CASE SweepDone
  <2> USE <1>8 DEF SweepDone, Return
  <2>1. TypeOK'
    BY TrashAssumption
  <2>2. MovedInv' /\ GoneInv'
    BY TrashAssumption
  <2>3. MediaSurvives'
    BY TrashAssumption
  <2>4. RecycledIsFindable'
    BY TrashAssumption
  <2> QED
    BY <2>1, <2>2, <2>3, <2>4
<1> QED
  BY <1>1, <1>2, <1>3, <1>4, <1>5, <1>6, <1>7, <1>8, IndRemove DEF SweeperStep

\* So do the library, the clock, the settings and a crash.
LEMMA IndOutside ==
  ASSUME IndInv,
         \/ \E p \in Paths, f \in Files : NewFile(p, f)
         \/ \E i \in Items : Expire(i)
         \/ SaveSettings \/ Crash \/ UNCHANGED vars
  PROVE  IndInv'
<1> USE DEF IndInv, TypeOK, PCs, MovedInv, Moved, Acting, GoneInv, MediaSurvives, RecycledIsFindable
<1>1. ASSUME NEW p \in Paths, NEW f \in Files, NewFile(p, f)
      PROVE  IndInv'
  <2> USE <1>1 DEF NewFile
  <2>1. TypeOK'
    BY TrashAssumption
  <2>2. MovedInv' /\ GoneInv'
    BY TrashAssumption
  <2>3. MediaSurvives'
    BY TrashAssumption
  <2>4. RecycledIsFindable'
    BY TrashAssumption
  <2> QED
    BY <2>1, <2>2, <2>3, <2>4
<1>2. ASSUME NEW i \in Items, Expire(i)
      PROVE  IndInv'
  <2> USE <1>2 DEF Expire
  <2>1. TypeOK'
    BY TrashAssumption
  <2>2. MovedInv' /\ GoneInv'
    BY TrashAssumption
  <2>3. MediaSurvives'
    BY TrashAssumption
  <2>4. RecycledIsFindable'
    BY TrashAssumption
  <2> QED
    BY <2>1, <2>2, <2>3, <2>4
<1>3. CASE SaveSettings
  <2> USE <1>3 DEF SaveSettings
  <2>1. TypeOK'
    BY TrashAssumption
  <2>2. MovedInv' /\ GoneInv'
    BY TrashAssumption
  <2>3. MediaSurvives'
    BY TrashAssumption
  <2>4. RecycledIsFindable'
    BY TrashAssumption
  <2> QED
    BY <2>1, <2>2, <2>3, <2>4
<1>4. CASE Crash
  <2> USE <1>4 DEF Crash, Fault
  <2>1. TypeOK'
    BY TrashAssumption
  <2>2. MovedInv' /\ GoneInv'
    BY TrashAssumption
  <2>3. MediaSurvives'
    BY TrashAssumption
  <2>4. RecycledIsFindable'
    BY TrashAssumption
  <2> QED
    BY <2>1, <2>2, <2>3, <2>4
<1>5. CASE UNCHANGED vars
  <2> USE <1>5 DEF vars
  <2>1. TypeOK'
    BY TrashAssumption
  <2>2. MovedInv' /\ GoneInv'
    BY TrashAssumption
  <2>3. MediaSurvives'
    BY TrashAssumption
  <2>4. RecycledIsFindable'
    BY TrashAssumption
  <2> QED
    BY <2>1, <2>2, <2>3, <2>4
<1> QED
  BY <1>1, <1>2, <1>3, <1>4, <1>5

\* Every step preserves the invariant.
LEMMA IndStep == IndInv /\ [Next]_vars => IndInv'
<1> SUFFICES ASSUME IndInv, [Next]_vars
             PROVE  IndInv'
  OBVIOUS
<1>1. ASSUME NEW h \in Handlers, Request(h) \/ HandlerStep(h) \/ Remove(h)
      PROVE  IndInv'
  <2>1. CASE Request(h)
    BY <2>1, IndMove, IndRestore, IndDelete DEF Request
  <2>2. CASE HandlerStep(h)
    BY <2>2, IndMove, IndRestore DEF HandlerStep
  <2>3. CASE Remove(h)
    BY <2>3, IndRemove
  <2> QED
    BY <1>1, <2>1, <2>2, <2>3
<1>2. CASE (\E m \in {"list", "all", "expired"} : Sweep(m)) \/ SweeperStep
  BY <1>2, IndSweep
<1>3. CASE \/ \E p \in Paths, f \in Files : NewFile(p, f)
           \/ \E i \in Items : Expire(i)
           \/ SaveSettings \/ Crash \/ UNCHANGED vars
  BY <1>3, IndOutside
<1> QED
  BY <1>1, <1>2, <1>3 DEF Next

\* The inductive invariant holds throughout.
THEOREM Inductive == Spec => []IndInv
  BY IndInit, IndStep, PTL DEF Spec

\* Media survives (MediaSurvives): whatever Move, Restore, DeleteForever and the
\* sweeps do at the same time, and wherever a call fails or the server stops, no
\* media file is lost that DeleteForever did not remove and no restore replaced.
THEOREM NoMediaLost == Spec => []MediaSurvives
<1>1. IndInv => MediaSurvives
  BY DEF IndInv
<1> QED
  BY Inductive, <1>1, PTL

\* A recycled file can be found (RecycledIsFindable): the rollback of Move,
\* reconcileDisk and the removals leave no tree without a row and an info.json,
\* as long as the server runs and files can be written.
THEOREM NoRecycledLost == Spec => []RecycledIsFindable
<1>1. IndInv => RecycledIsFindable
  BY DEF IndInv
<1> QED
  BY Inductive, <1>1, PTL

\* Type correctness of the bin (TypeOK): no row without an item that was moved.
THEOREM TypeCorrect == Spec => []TypeOK
<1>1. IndInv => TypeOK
  BY DEF IndInv
<1> QED
  BY Inductive, <1>1, PTL

-----------------------------------------------------------------------------
(* The bin implements RecycleBin. *)

Spent == {i \in Items : Moved(i)}

\* A step that begins and ends no Move before its rename spends no ID.
LEMMA SpentSame ==
  ASSUME UNCHANGED orig, \A h \in Handlers : pc'[h] = "rename" <=> pc[h] = "rename",
         \A h \in Handlers : pc[h] = "rename" => item'[h] = item[h]
  PROVE  Spent' = Spent
  BY DEF Spent, Moved

\* The end of a Move's rename, of which there is one, spends its ID.
LEMMA SpentOne ==
  ASSUME IndInv, NEW h \in Handlers, pc[h] = "rename", UNCHANGED orig, pc'[h] # "rename",
         \A g \in Handlers \ {h} : pc'[g] = pc[g] /\ item'[g] = item[g]
  PROVE  Spent' = Spent \cup {item[h]}
<1>1. \A g \in Handlers \ {h} : pc[g] = "rename" => item[g] # item[h]
  BY DEF IndInv, MovedInv
<1>2. item[h] \in Items /\ orig[item[h]] # NoPath
  BY DEF IndInv, MovedInv
<1>3. \A i \in Items : Moved(i)' <=> Moved(i) \/ i = item[h]
  BY <1>1, <1>2 DEF Moved
<1> QED
  BY <1>2, <1>3 DEF Spent

LEMMA BinInit == Init => Bin!Init
  BY DEF Init, Bin!Init, Moved

\* Move up to its rename
LEMMA BinMove ==
  ASSUME IndInv, NEW h \in Handlers,
         (\E p \in Paths, i \in Items : Move(h, p, i)) \/ MoveRename(h)
  PROVE  Bin!Next
<1> USE DEF IndInv, TypeOK
<1>1. ASSUME NEW p \in Paths, NEW i \in Items, Move(h, p, i)
      PROVE  Bin!Next
  <2>1. /\ orig' = [orig EXCEPT ![i] = p] /\ pc' = [pc EXCEPT ![h] = "rename"]
        /\ item' = [item EXCEPT ![h] = i] /\ orig[i] = NoPath /\ pc[h] = "idle"
    BY <1>1 DEF Move, Goto
  <2>2. \A j \in Items : Moved(j)' <=> Moved(j)
    BY <2>1 DEF Moved
  <2>3. Spent' = Spent
    BY <2>2 DEF Spent
  <2>4. Bin!Draw(i, p)
    BY <1>1, <2>3 DEF Move, Bin!Draw, Spent
  <2> QED
    BY <2>4 DEF Bin!Next
<1>2. CASE MoveRename(h)
  <2>1. /\ item[h] \in Items /\ orig[item[h]] \in Paths /\ item[h] \notin Spent
        /\ pc[h] = "rename"
    BY <1>2 DEF MoveRename, MovedInv, Spent, Moved
  <2>2. Spent' = Spent \cup {item[h]}
    <3>1. /\ UNCHANGED orig /\ pc'[h] # "rename"
          /\ \A g \in Handlers \ {h} : pc'[g] = pc[g] /\ item'[g] = item[g]
      BY <1>2 DEF MoveRename, Return
    <3> QED
      BY <2>1, <3>1, SpentOne
  <2>3. item[h] \in Bin!Waiting
    BY <2>1, TrashAssumption DEF Bin!Waiting, Spent
  <2>4. CASE UNCHANGED <<media, tree>>
    <3>1. Bin!Abandon({item[h]})
      BY <1>2, <2>2, <2>4 DEF MoveRename, Bin!Abandon, Spent
    <3> QED
      BY <2>3, <3>1 DEF Bin!Next
  <2>5. CASE /\ media[orig[item[h]]] # NoFile
             /\ tree' = [tree EXCEPT ![item[h]] = media[orig[item[h]]]]
             /\ media' = [media EXCEPT ![orig[item[h]]] = NoFile]
    <3>1. Bin!Recycle(item[h])
      BY <1>2, <2>2, <2>3, <2>5 DEF MoveRename, Bin!Recycle, Spent
    <3> QED
      BY <2>1, <3>1 DEF Bin!Next
  <2> QED
    BY <1>2, <2>4, <2>5 DEF MoveRename
<1> QED
  BY <1>1, <1>2

\* A step that touches neither files nor rows is invisible.
LEMMA BinQuiet ==
  ASSUME UNCHANGED <<media, tree, orig, rows, born>>, Spent' = Spent
  PROVE  UNCHANGED Bin!vars
  BY DEF Bin!vars, Spent

\* A row comes for an item that was moved, and goes after its tree.
LEMMA BinListed ==
  ASSUME IndInv, NEW i \in Items, UNCHANGED <<media, tree, orig, born>>, Spent' = Spent,
         \/ rows' = rows
         \/ Moved(i) /\ rows' = rows \cup {i}
         \/ tree[i] = NoFile /\ rows' = rows \ {i}
  PROVE  [Bin!Next]_(Bin!vars)
<1>1. CASE rows' = rows
  BY <1>1, BinQuiet
<1>2. CASE Moved(i) /\ rows' = rows \cup {i}
  BY <1>2 DEF Bin!Next, Bin!List, Spent
<1>3. CASE tree[i] = NoFile /\ rows' = rows \ {i}
  BY <1>3 DEF Bin!Next, Bin!Unlist, Spent
<1> QED
  BY <1>1, <1>2, <1>3

\* The tree of an item goes, or stays.
LEMMA BinRemoved ==
  ASSUME IndInv, NEW i \in Items, NEW t \in {tree[i], NoFile}, tree' = [tree EXCEPT ![i] = t],
         UNCHANGED <<media, orig, rows, born>>, Spent' = Spent
  PROVE  [Bin!Next]_(Bin!vars)
<1>1. CASE t = NoFile
  BY <1>1 DEF Bin!Next, Bin!Delete, Spent
<1>2. CASE t = tree[i]
  <2>1. tree' = tree
    BY <1>2 DEF IndInv, TypeOK
  <2> QED
    BY <2>1, BinQuiet
<1> QED
  BY <1>1, <1>2

\* The end of Move, its rollback, Restore, and the beginning of DeleteForever
LEMMA BinHandler ==
  ASSUME IndInv, NEW h \in Handlers,
         \/ WriteTrashInfo(h) \/ Insert(h) \/ InsertFails(h)
         \/ (\E i \in Items : Restore(h, i) \/ DeleteForever(h, i))
         \/ resolveRestorePaths(h) \/ RestoreRename(h) \/ RestoreClean(h)
  PROVE  [Bin!Next]_(Bin!vars)
<1> USE DEF IndInv, TypeOK
<1>1. Spent' = Spent
  <2>1. /\ UNCHANGED orig /\ pc[h] # "rename" /\ pc'[h] # "rename"
        /\ \A g \in Handlers \ {h} : pc'[g] = pc[g] /\ item'[g] = item[g]
    BY DEF WriteTrashInfo, Insert, InsertFails, Restore, DeleteForever, resolveRestorePaths,
           RestoreRename, RestoreClean, Goto, Return
  <2> QED
    BY <2>1, SpentSame
<1>2. CASE \/ WriteTrashInfo(h) \/ InsertFails(h) \/ resolveRestorePaths(h)
           \/ \E i \in Items : Restore(h, i) \/ DeleteForever(h, i)
  BY <1>1, <1>2, BinQuiet DEF WriteTrashInfo, InsertFails, resolveRestorePaths, Restore,
                             DeleteForever, binVars, fateVars
<1>3. CASE Insert(h)
  <2>1. item[h] \in Items /\ Moved(item[h])
    BY <1>3 DEF Insert, MovedInv, Acting
  <2> QED
    BY <1>1, <1>3, <2>1, BinListed DEF Insert, binVars, fateVars
<1>4. CASE RestoreRename(h)
  <2>1. item[h] \in Items
    BY <1>4 DEF RestoreRename, MovedInv, Acting
  <2>2. CASE UNCHANGED <<media, tree>>
    BY <1>1, <1>4, <2>2, BinQuiet DEF RestoreRename
  <2>3. CASE /\ tree[item[h]] # NoFile
             /\ media' = [media EXCEPT ![orig[item[h]]] = tree[item[h]]]
             /\ tree' = [tree EXCEPT ![item[h]] = NoFile]
    <3>1. Bin!Restore(item[h])
      BY <1>1, <1>4, <2>3 DEF RestoreRename, Bin!Restore, Spent
    <3> QED
      BY <2>1, <3>1 DEF Bin!Next
  <2> QED
    BY <1>4, <2>2, <2>3 DEF RestoreRename
<1>5. CASE RestoreClean(h)
  <2>1. item[h] \in Items
    BY <1>5 DEF RestoreClean, MovedInv, Acting
  <2> QED
    BY <1>1, <1>5, <2>1, BinRemoved DEF RestoreClean, RemoveTrashItem, fateVars
<1> QED
  BY <1>2, <1>3, <1>4, <1>5

\* A tree is removed before its row, by a request and by a sweep.
LEMMA BinRemove ==
  ASSUME IndInv, NEW x \in Procs, Remove(x)
  PROVE  [Bin!Next]_(Bin!vars)
<1> USE DEF IndInv, TypeOK
<1>1. x \in Procs /\ item[x] \in Items
  BY DEF Remove, Wipe, RemoveFails, DeleteRow, DeleteRowFails, MovedInv, Acting, Goto
<1>2. Spent' = Spent
  <2>1. /\ UNCHANGED orig /\ pc[x] # "rename" /\ pc'[x] # "rename"
        /\ \A g \in Procs \ {x} : pc'[g] = pc[g] /\ item'[g] = item[g]
    BY DEF Remove, Wipe, RemoveFails, DeleteRow, DeleteRowFails, Goto, Return
  <2> QED
    BY <2>1, SpentSame
<1>3. CASE Wipe(x)
  BY <1>1, <1>2, <1>3, BinRemoved DEF Wipe, RemoveTrashItem
<1>4. CASE RemoveFails(x)
  <2>1. PICK t \in {tree[item[x]], NoFile} : tree' = [tree EXCEPT ![item[x]] = t]
    BY <1>4 DEF RemoveFails
  <2> QED
    BY <1>1, <1>2, <1>4, <2>1, BinRemoved DEF RemoveFails
<1>5. CASE DeleteRow(x)
  <2>1. tree[item[x]] = NoFile
    BY <1>5 DEF DeleteRow, GoneInv
  <2> QED
    BY <1>1, <1>2, <1>5, <2>1, BinListed DEF DeleteRow, binVars, fateVars
<1>6. CASE DeleteRowFails(x)
  BY <1>2, <1>6, BinQuiet DEF DeleteRowFails, binVars, fateVars
<1> QED
  BY <1>3, <1>4, <1>5, <1>6 DEF Remove

\* A sweep lists what was moved, and else removes.
LEMMA BinSweep ==
  ASSUME IndInv, (\E m \in {"list", "all", "expired"} : Sweep(m)) \/ SweeperStep
  PROVE  [Bin!Next]_(Bin!vars)
<1> USE DEF IndInv, TypeOK
<1>1. CASE Remove(Sweeper)
  BY <1>1, BinRemove DEF Procs
<1>2. CASE \/ \E m \in {"list", "all", "expired"} : Sweep(m)
           \/ \E i \in Items : ReconcileGet(i) \/ SweepGet(i)
           \/ ReadTrashInfo \/ RecoverRow \/ ListRows \/ SweepFails \/ SweepDone
  <2>1. Spent' = Spent
    <3>1. /\ UNCHANGED orig
          /\ \A g \in Handlers : pc'[g] = pc[g] /\ item'[g] = item[g]
      BY <1>2, TrashAssumption
         DEF Sweep, ReconcileGet, SweepGet, ReadTrashInfo, RecoverRow, ListRows, SweepFails,
             SweepDone, NextID, Goto, Return
    <3> QED
      BY <3>1, SpentSame
  <2>2. CASE RecoverRow
    <3>1. item[Sweeper] \in Items /\ Moved(item[Sweeper])
      BY <2>2 DEF RecoverRow, NextID, Goto, MovedInv, Acting, Procs
    <3> QED
      BY <2>1, <2>2, <3>1, BinListed DEF RecoverRow, binVars, fateVars
  <2>3. CASE ~RecoverRow
    BY <1>2, <2>1, <2>3, BinQuiet DEF Sweep, ReconcileGet, SweepGet, ReadTrashInfo, ListRows,
                                     SweepFails, SweepDone, binVars, fateVars
  <2> QED
    BY <2>2, <2>3
<1> QED
  BY <1>1, <1>2 DEF SweeperStep

\* The library, the clock, the settings and a crash
LEMMA BinOutside ==
  ASSUME IndInv,
         \/ \E p \in Paths, f \in Files : NewFile(p, f)
         \/ \E i \in Items : Expire(i)
         \/ SaveSettings \/ Crash \/ UNCHANGED vars
  PROVE  [Bin!Next]_(Bin!vars)
<1> USE DEF IndInv, TypeOK
<1>1. ASSUME NEW p \in Paths, NEW f \in Files, NewFile(p, f)
      PROVE  [Bin!Next]_(Bin!vars)
  <2>1. Spent' = Spent
    BY <1>1, SpentSame DEF NewFile
  <2>2. Bin!Put(p, f)
    BY <1>1, <2>1 DEF NewFile, Bin!Put, binVars, Spent
  <2> QED
    BY <2>2 DEF Bin!Next
<1>2. CASE (\E i \in Items : Expire(i)) \/ SaveSettings \/ UNCHANGED vars
  <2>1. UNCHANGED <<media, tree, orig, rows, born, pc, item>>
    BY <1>2 DEF Expire, SaveSettings, vars, binVars, fateVars
  <2> QED
    BY <2>1, SpentSame, BinQuiet
\* Each Move that was about to rename its file is abandoned.
<1>3. CASE Crash
  <2>1. /\ UNCHANGED <<media, tree, orig, rows, born>>
        /\ \A h \in Handlers : pc'[h] = "idle"
    BY <1>3 DEF Crash, binVars, fateVars
  <2>2. Spent' = Spent \cup Bin!Waiting
    BY <2>1 DEF Spent, Bin!Waiting, Moved
  <2>3. Bin!Abandon(Bin!Waiting)
    BY <2>1, <2>2 DEF Bin!Abandon, Spent
  <2> QED
    BY <2>3 DEF Bin!Next
<1> QED
  BY <1>1, <1>2, <1>3

\* Every step of the bin is a step of RecycleBin or invisible there.
LEMMA BinStep == IndInv /\ [Next]_vars => [Bin!Next]_(Bin!vars)
<1> SUFFICES ASSUME IndInv, [Next]_vars
             PROVE  [Bin!Next]_(Bin!vars)
  OBVIOUS
<1>1. ASSUME NEW h \in Handlers, Request(h) \/ HandlerStep(h) \/ Remove(h)
      PROVE  [Bin!Next]_(Bin!vars)
  BY <1>1, BinMove, BinHandler, BinRemove DEF Request, HandlerStep, Procs
<1>2. CASE (\E m \in {"list", "all", "expired"} : Sweep(m)) \/ SweeperStep
  BY <1>2, BinSweep
<1>3. CASE \/ \E p \in Paths, f \in Files : NewFile(p, f)
           \/ \E i \in Items : Expire(i)
           \/ SaveSettings \/ Crash \/ UNCHANGED vars
  BY <1>3, BinOutside
<1> QED
  BY <1>1, <1>2, <1>3 DEF Next

\* The bin implements RecycleBin: an ID gets one file, once, which only returns to its path or is
\* deleted, and an item leaves the listing after its file, however Move, Restore, DeleteForever,
\* the sweeps, their failures and crashes come between each other.
THEOREM Refines == Spec => KeepsBin
  BY BinInit, BinStep, Inductive, PTL DEF Spec, KeepsBin, Bin!Spec

=============================================================================
