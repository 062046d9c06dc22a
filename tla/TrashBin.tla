------------------------------ MODULE TrashBin ------------------------------
(***************************************************************************)
(* The recycle bin: internal/trash/service.go and autopurge.go, with the   *)
(* file operations of internal/mediafs/trash.go and the rows of            *)
(* internal/trash/postgres.  Moving a media file to the bin, restoring and *)
(* deleting it take several file and database calls without any lock       *)
(* between them; List repairs lost rows from the info.json beside a        *)
(* recycled tree.                                                          *)
(*                                                                         *)
(* Handlers serve the administrators' requests, Sweeper runs List,         *)
(* EmptyAll and the nightly PurgeExpired.  A file is its content: the same *)
(* path may hold one file after another.                                   *)
(***************************************************************************)
EXTENDS Naturals, FiniteSets

CONSTANTS
  Handlers, Sweeper,
  Paths, NoPath,
  Files, NoFile,
  Items, NoItem,   \* bound: recycle-bin IDs that can be drawn
  MaxFaults        \* bound: kinds of fault that happen, each of them once

ASSUME TrashAssumption ==
  /\ Sweeper \notin Handlers
  /\ NoPath \notin Paths /\ NoFile \notin Files /\ NoItem \notin Items
  /\ MaxFaults \in Nat

VARIABLES
  media,            \* the file at each path
  tree,             \* .trash/<id>: the recycled file
  dir, info,        \* the items that have a directory, and an info.json in it
  orig,             \* originalRelPath of an item; NoPath for an unused ID
  rows,             \* trash_items
  expired,          \* items older than the retention
  enabled,          \* settings.Enabled
  pc, item,         \* per goroutine: control point and item
  undo,             \* the handlers that restore because Move could not insert
  mode, ids, list,  \* the sweeper: operation, IDs to reconcile, items to delete
  born, purged, overwritten,  \* files that existed, that DeleteForever and that a rename destroyed
  faults            \* what has failed: a database call, a file operation, the server

binVars == <<tree, dir, info>>
sweepVars == <<mode, ids, list>>
fateVars == <<born, purged, overwritten>>
vars == <<media, binVars, orig, rows, expired, enabled, pc, item, undo, sweepVars, fateVars, faults>>

Procs == Handlers \cup {Sweeper}

Init ==
  /\ media = [p \in Paths |-> NoFile]
  /\ tree = [i \in Items |-> NoFile]
  /\ dir = {}
  /\ info = {}
  /\ orig = [i \in Items |-> NoPath]
  /\ rows = {}
  /\ expired = {}
  /\ enabled = FALSE
  /\ pc = [x \in Procs |-> "idle"]
  /\ item = [x \in Procs |-> NoItem]
  /\ undo = {}
  /\ mode = "list" /\ ids = {} /\ list = {}
  /\ born = {} /\ purged = {} /\ overwritten = {}
  /\ faults = {}

Goto(x, from, to) == pc[x] = from /\ pc' = [pc EXCEPT ![x] = to]

\* The goroutine returns, and its local variables are gone.
Return(x) ==
  /\ pc' = [pc EXCEPT ![x] = "idle"]
  /\ item' = [item EXCEPT ![x] = NoItem]
  /\ undo' = undo \ {x}
  /\ mode' = IF x = Sweeper THEN "list" ELSE mode
  /\ list' = IF x = Sweeper THEN {} ELSE list
  /\ UNCHANGED ids

Fault(kind) ==
  /\ kind \notin faults
  /\ Cardinality(faults) < MaxFaults
  /\ faults' = faults \cup {kind}

\* A media file is put into the library from outside.
NewFile(p, f) ==
  /\ media[p] = NoFile
  /\ f \notin born
  /\ media' = [media EXCEPT ![p] = f]
  /\ born' = born \cup {f}
  /\ UNCHANGED <<binVars, orig, rows, expired, enabled, pc, item, undo, sweepVars, purged,
                 overwritten, faults>>

----------------------------------------------------------------------------
(* Move                                                                    *)

\* A new ID; MoveToTrash finds the file and makes the item's directory
Move(h, p, i) ==
  /\ Goto(h, "idle", "rename")
  /\ orig[i] = NoPath
  /\ media[p] # NoFile
  /\ orig' = [orig EXCEPT ![i] = p]
  /\ dir' = dir \cup {i}
  /\ item' = [item EXCEPT ![h] = i]
  /\ UNCHANGED <<media, tree, info, rows, expired, enabled, undo, sweepVars, fateVars, faults>>

\* os.Rename, which fails when the file has gone since, and on any I/O error
MoveRename(h) ==
  LET i == item[h]
      p == orig[i]
  IN
  /\ pc[h] = "rename"
  /\ \/ /\ media[p] # NoFile
        /\ tree' = [tree EXCEPT ![i] = media[p]]
        /\ media' = [media EXCEPT ![p] = NoFile]
        /\ pc' = [pc EXCEPT ![h] = "info"]
        /\ UNCHANGED <<item, undo, sweepVars, faults>>
     \/ /\ (media[p] = NoFile /\ UNCHANGED faults) \/ Fault("io")
        /\ Return(h)
        /\ UNCHANGED <<tree, media>>
  /\ UNCHANGED <<dir, info, orig, rows, expired, enabled, fateVars>>

\* A failure is only logged.
WriteTrashInfo(h) ==
  /\ Goto(h, "info", "insert")
  /\ \/ /\ info' = info \cup {item[h]}
        /\ dir' = dir \cup {item[h]}
        /\ UNCHANGED faults
     \/ Fault("io") /\ UNCHANGED <<info, dir>>
  /\ UNCHANGED <<media, tree, orig, rows, expired, enabled, item, undo, sweepVars, fateVars>>

\* The insert fails on a database error, and when reconcileDisk was faster
Insert(h) ==
  /\ pc[h] = "insert"
  /\ item[h] \notin rows
  /\ rows' = rows \cup {item[h]}
  /\ Return(h)
  /\ UNCHANGED <<media, binVars, orig, expired, enabled, fateVars, faults>>

\* Mutant: the rollback takes the item's directory away before its tree is back.
CleaningInsertFails(h) ==
  /\ Goto(h, "insert", "check")
  /\ \/ item[h] \in rows /\ UNCHANGED faults
     \/ Fault("db")
  /\ undo' = undo \cup {h}
  /\ info' = info \ {item[h]}
  /\ UNCHANGED <<media, tree, dir, orig, rows, expired, enabled, item, sweepVars, fateVars>>

InsertFails(h) ==
  /\ Goto(h, "insert", "check")
  /\ \/ item[h] \in rows /\ UNCHANGED faults
     \/ Fault("db")
  /\ undo' = undo \cup {h}
  /\ UNCHANGED <<media, binVars, orig, rows, expired, enabled, item, sweepVars, fateVars>>

----------------------------------------------------------------------------
(* Restore and DeleteForever                                               *)

Restore(h, i) ==
  /\ Goto(h, "idle", "check")
  /\ i \in rows
  /\ item' = [item EXCEPT ![h] = i]
  /\ UNCHANGED <<media, binVars, orig, rows, expired, enabled, undo, sweepVars, fateVars, faults>>

\* ErrTrashItemMissing and ErrRestoreConflict
CanRestore(i) == tree[i] # NoFile /\ media[orig[i]] = NoFile

\* Mutant: an item that cannot be restored is taken for one already restored.
BlindRestorePaths(h) ==
  /\ pc[h] = "check"
  /\ pc' = [pc EXCEPT ![h] = IF CanRestore(item[h]) THEN "place" ELSE "clean"]
  /\ UNCHANGED <<media, binVars, orig, rows, expired, enabled, item, undo, sweepVars, fateVars, faults>>

resolveRestorePaths(h) ==
  /\ pc[h] = "check"
  /\ \/ CanRestore(item[h]) /\ Goto(h, "check", "place") /\ UNCHANGED <<item, undo, sweepVars>>
     \/ ~CanRestore(item[h]) /\ Return(h)
  /\ UNCHANGED <<media, binVars, orig, rows, expired, enabled, fateVars, faults>>

\* os.Rename: fails when the tree has gone, replaces what has come meanwhile
RestoreRename(h) ==
  LET i == item[h]
      p == orig[i]
  IN
  /\ pc[h] = "place"
  /\ \/ /\ tree[i] # NoFile
        /\ media' = [media EXCEPT ![p] = tree[i]]
        /\ tree' = [tree EXCEPT ![i] = NoFile]
        /\ overwritten' = overwritten \cup ({media[p]} \ {NoFile})
        /\ pc' = [pc EXCEPT ![h] = "clean"]
        /\ UNCHANGED <<item, undo, sweepVars, faults>>
     \/ /\ (tree[i] = NoFile /\ UNCHANGED faults) \/ Fault("io")
        /\ Return(h)
        /\ UNCHANGED <<media, tree, overwritten>>
  /\ UNCHANGED <<dir, info, orig, rows, expired, enabled, born, purged>>

\* os.RemoveAll(.trash/<id>)
RemoveTrashItem(i) ==
  /\ tree' = [tree EXCEPT ![i] = NoFile]
  /\ dir' = dir \ {i}
  /\ info' = info \ {i}

RestoreClean(h) ==
  /\ pc[h] = "clean"
  /\ RemoveTrashItem(item[h])
  /\ \/ h \in undo /\ Return(h)
     \/ h \notin undo /\ Goto(h, "clean", "deleteRow") /\ UNCHANGED <<item, undo, sweepVars>>
  /\ UNCHANGED <<media, orig, rows, expired, enabled, fateVars, faults>>

\* Mutant: the row goes first, and the removal is left to the next sweep.
RowFirstDeleteForever(h, i) ==
  /\ Goto(h, "idle", "deleteRow")
  /\ i \in rows
  /\ item' = [item EXCEPT ![h] = i]
  /\ UNCHANGED <<media, binVars, orig, rows, expired, enabled, undo, sweepVars, fateVars, faults>>

DeleteForever(h, i) ==
  /\ Goto(h, "idle", "wipe")
  /\ i \in rows
  /\ item' = [item EXCEPT ![h] = i]
  /\ UNCHANGED <<media, binVars, orig, rows, expired, enabled, undo, sweepVars, fateVars, faults>>

\* The removal in DeleteForever, of a request and of the sweeper
Wipe(x) ==
  /\ Goto(x, "wipe", "deleteRow")
  /\ RemoveTrashItem(item[x])
  /\ purged' = purged \cup ({tree[item[x]]} \ {NoFile})
  /\ UNCHANGED <<media, orig, rows, expired, enabled, item, undo, sweepVars, born, overwritten,
                 faults>>

\* RemoveAll fails, with some of the item removed: Restore and DeleteForever return.
RemoveFails(x) ==
  LET i == item[x] IN
  /\ pc[x] \in {"clean", "wipe"}
  /\ Fault("io")
  /\ \E t \in {tree[i], NoFile}, n \in {info, info \ {i}} :
       /\ tree' = [tree EXCEPT ![i] = t]
       /\ info' = n
       /\ purged' = purged \cup ({tree[i]} \ {t})
  /\ Return(x)
  /\ UNCHANGED <<media, dir, orig, rows, expired, enabled, born, overwritten>>

\* store.Delete; the sweeper goes on to the next item
DeleteRow(x) ==
  /\ pc[x] = "deleteRow"
  /\ rows' = rows \ {item[x]}
  /\ \/ x # Sweeper /\ Return(x)
     \/ /\ x = Sweeper
        /\ pc' = [pc EXCEPT ![x] = "each"]
        /\ item' = [item EXCEPT ![x] = NoItem]
        /\ UNCHANGED <<undo, sweepVars>>
  /\ UNCHANGED <<media, binVars, orig, expired, enabled, fateVars, faults>>

DeleteRowFails(x) ==
  /\ pc[x] = "deleteRow"
  /\ Fault("db")
  /\ Return(x)
  /\ UNCHANGED <<media, binVars, orig, rows, expired, enabled, fateVars>>

----------------------------------------------------------------------------
(* List, EmptyAll and PurgeExpired: reconcileDisk, then the rows           *)

\* When .trash cannot be read, there is nothing to reconcile.
Sweep(m) ==
  /\ Goto(Sweeper, "idle", "reconcile")
  /\ m = "expired" => enabled
  /\ mode' = m
  /\ \/ ids' = dir /\ UNCHANGED faults
     \/ ids' = {} /\ Fault("io")
  /\ UNCHANGED <<media, binVars, orig, rows, expired, enabled, item, undo, list, fateVars>>

\* Any error of store.Get counts as a missing row.
ReconcileGet(i) ==
  /\ i \in ids
  /\ ids' = ids \ {i}
  /\ \/ /\ Goto(Sweeper, "reconcile", "read")
        /\ item' = [item EXCEPT ![Sweeper] = i]
        /\ \/ i \notin rows /\ UNCHANGED faults
           \/ Fault("db")
     \/ /\ Goto(Sweeper, "reconcile", "reconcile")
        /\ i \in rows
        /\ UNCHANGED <<item, faults>>
  /\ UNCHANGED <<media, binVars, orig, rows, expired, enabled, undo, mode, list, fateVars>>

\* continue
NextID(from) ==
  /\ Goto(Sweeper, from, "reconcile")
  /\ item' = [item EXCEPT ![Sweeper] = NoItem]

ReadTrashInfo ==
  /\ pc[Sweeper] = "read"
  /\ \/ /\ item[Sweeper] \in info
        /\ Goto(Sweeper, "read", "recover")
        /\ UNCHANGED item
     \/ /\ item[Sweeper] \notin info
        /\ NextID("read")
  /\ UNCHANGED <<media, binVars, orig, rows, expired, enabled, undo, sweepVars, fateVars, faults>>

\* A row that exists by now stays; the error is only logged.
RecoverRow ==
  /\ NextID("recover")
  /\ \/ rows' = rows \cup {item[Sweeper]} /\ UNCHANGED faults
     \/ Fault("db") /\ UNCHANGED rows
  /\ UNCHANGED <<media, binVars, orig, expired, enabled, undo, sweepVars, fateVars>>

\* Mutant: PurgeExpired lists the rows that have a tree.
ListTrees ==
  /\ pc[Sweeper] = "reconcile"
  /\ ids = {}
  /\ \/ mode = "list" /\ Return(Sweeper)
     \/ /\ mode # "list"
        /\ Goto(Sweeper, "reconcile", "each")
        /\ list' = {i \in rows : i \in dir /\ (mode = "expired" => i \in expired)}
        /\ UNCHANGED <<item, undo, mode, ids>>
  /\ UNCHANGED <<media, binVars, orig, rows, expired, enabled, fateVars, faults>>

\* store.List, and the choice of the items to delete
ListRows ==
  /\ pc[Sweeper] = "reconcile"
  /\ ids = {}
  /\ \/ mode = "list" /\ Return(Sweeper)
     \/ /\ mode # "list"
        /\ Goto(Sweeper, "reconcile", "each")
        /\ list' = IF mode = "all" THEN rows ELSE rows \cap expired
        /\ UNCHANGED <<item, undo, mode, ids>>
  /\ UNCHANGED <<media, binVars, orig, rows, expired, enabled, fateVars, faults>>

\* The first error, an item that is gone already included, ends the operation.
SweepGet(i) ==
  /\ pc[Sweeper] = "each"
  /\ i \in list
  /\ \/ /\ i \in rows
        /\ list' = list \ {i}
        /\ item' = [item EXCEPT ![Sweeper] = i]
        /\ pc' = [pc EXCEPT ![Sweeper] = "wipe"]
        /\ UNCHANGED <<undo, mode, ids>>
     \/ i \notin rows /\ Return(Sweeper)
  /\ UNCHANGED <<media, binVars, orig, rows, expired, enabled, fateVars, faults>>

\* store.List or store.Get fails.
SweepFails ==
  /\ pc[Sweeper] = "each" \/ (pc[Sweeper] = "reconcile" /\ ids = {})
  /\ Fault("db")
  /\ Return(Sweeper)
  /\ UNCHANGED <<media, binVars, orig, rows, expired, enabled, fateVars>>

SweepDone ==
  /\ pc[Sweeper] = "each"
  /\ list = {}
  /\ Return(Sweeper)
  /\ UNCHANGED <<media, binVars, orig, rows, expired, enabled, fateVars, faults>>

----------------------------------------------------------------------------

\* An item passes its retention.
Expire(i) ==
  /\ orig[i] # NoPath
  /\ i \notin expired
  /\ expired' = expired \cup {i}
  /\ UNCHANGED <<media, binVars, orig, rows, enabled, pc, item, undo, sweepVars, fateVars, faults>>

SaveSettings ==
  /\ enabled' = ~enabled
  /\ UNCHANGED <<media, binVars, orig, rows, expired, pc, item, undo, sweepVars, fateVars, faults>>

\* The server stops anywhere and starts again.
Crash ==
  /\ Fault("crash")
  /\ pc' = [x \in Procs |-> "idle"]
  /\ item' = [x \in Procs |-> NoItem]
  /\ undo' = {}
  /\ mode' = "list" /\ ids' = {} /\ list' = {}
  /\ UNCHANGED <<media, binVars, orig, rows, expired, enabled, fateVars>>

HandlerStep(h) ==
  \/ MoveRename(h) \/ WriteTrashInfo(h) \/ Insert(h) \/ InsertFails(h)
  \/ resolveRestorePaths(h) \/ RestoreRename(h) \/ RestoreClean(h)

Request(h) ==
  \/ \E p \in Paths, i \in Items : Move(h, p, i)
  \/ \E i \in Items : Restore(h, i) \/ DeleteForever(h, i)

Remove(x) == Wipe(x) \/ RemoveFails(x) \/ DeleteRow(x) \/ DeleteRowFails(x)

SweeperStep ==
  \/ \E i \in Items : ReconcileGet(i) \/ SweepGet(i)
  \/ ReadTrashInfo \/ RecoverRow \/ ListRows \/ SweepFails \/ SweepDone
  \/ Remove(Sweeper)

Next ==
  \/ \E h \in Handlers : Request(h) \/ HandlerStep(h) \/ Remove(h)
  \/ \E m \in {"list", "all", "expired"} : Sweep(m)
  \/ SweeperStep
  \/ \E p \in Paths, f \in Files : NewFile(p, f)
  \/ \E i \in Items : Expire(i)
  \/ SaveSettings
  \/ Crash

Spec == Init /\ [][Next]_vars

\* Goroutines run on and time passes.  The nightly purge has a goroutine of its
\* own, which a List or EmptyAll of an administrator cannot keep from running.
Fairness ==
  /\ \A h \in Handlers : WF_vars(HandlerStep(h) \/ Remove(h))
  /\ WF_vars(SweeperStep)
  /\ SF_vars(Sweep("expired"))
  /\ \A i \in Items : WF_vars(Expire(i))

FairSpec == Spec /\ Fairness

----------------------------------------------------------------------------

PCs == {"idle", "rename", "info", "insert", "check", "place", "clean", "wipe", "deleteRow",
        "reconcile", "read", "recover", "each"}

\* Every variable has its type.
TypeOK ==
  /\ media \in [Paths -> Files \cup {NoFile}]
  /\ tree \in [Items -> Files \cup {NoFile}]
  /\ dir \subseteq Items /\ info \subseteq Items
  /\ orig \in [Items -> Paths \cup {NoPath}]
  /\ rows \subseteq {i \in Items : orig[i] # NoPath}
  /\ expired \subseteq Items
  /\ enabled \in BOOLEAN
  /\ pc \in [Procs -> PCs]
  /\ item \in [Procs -> Items \cup {NoItem}]
  /\ undo \subseteq Handlers
  /\ mode \in {"list", "all", "expired"}
  /\ ids \subseteq Items /\ list \subseteq Items
  /\ born \subseteq Files /\ purged \subseteq Files /\ overwritten \subseteq Files
  /\ faults \subseteq {"db", "io", "crash"}

\* An item whose tree has been moved into the bin, once: no Move still has to.
Moved(i) ==
  /\ orig[i] # NoPath
  /\ \A h \in Handlers : pc[h] = "rename" => item[h] # i

\* The bin keeps the promise of RecycleBin, whatever races, rollbacks, repairs
\* from disk, failures and crashes go on beneath: an ID gets one file, once, a
\* file only returns to the path it came from, and the row of an item goes
\* after its tree.
Bin == INSTANCE RecycleBin
  WITH held <- tree, home <- orig, spent <- {i \in Items : Moved(i)}, listed <- rows,
       seen <- born

KeepsBin == Bin!Spec

\* Media survives: whatever fails, races or crashes, a file that was in the
\* library is at a path or in the bin, unless DeleteForever removed it or a
\* restore replaced it.
MediaSurvives ==
  \A f \in born \ (purged \cup overwritten) :
    (\E p \in Paths : media[p] = f) \/ (\E i \in Items : tree[i] = f)

\* A recycled file can be found: its item has a row, or the info.json that List
\* makes one from, or its Move is still going on.  Only a crash inside Move or
\* an info.json that cannot be written loses track of it.
RecycledIsFindable ==
  faults \subseteq {"db"} =>
    \A i \in Items : tree[i] # NoFile =>
      i \in rows \/ i \in info \/ \E h \in Handlers : pc[h] = "info" /\ item[h] = i

\* The bin drains: when nobody moves or restores anything any more and the
\* retention stays enabled, the nightly purge ends with no row and no item it
\* could recover, whatever rows without trees, trees without rows and aborted
\* sweeps the past has left.
BinDrains ==
  (<>[](enabled /\ \A h \in Handlers : pc[h] = "idle"))
    => (<>[](rows = {} /\ info = {}))

----------------------------------------------------------------------------
(* What a comment says and the code does not always do.                    *)

\* RestoreFromTrash: "Collision returns ErrRestoreConflict".
RestoreNeverOverwrites == overwritten = {}

=============================================================================
