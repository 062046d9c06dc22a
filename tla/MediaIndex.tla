----------------------------- MODULE MediaIndex -----------------------------
(***************************************************************************)
(* The index of one library: the scan (Indexer) and the edits (Service) of *)
(* internal/metadata/service.go over the rows of media_metadata            *)
(* (internal/metadata/postgres), while files come, change and go, and the  *)
(* recycle bin moves them out and back (module TrashBin has its details).  *)
(*                                                                         *)
(* Nothing is locked: a scan walks for minutes, then deletes the rows it   *)
(* did not meet, except those the recycle bin keeps; an edit reads a row   *)
(* and later writes it.                                                    *)
(***************************************************************************)
EXTENDS MediaFields, FiniteSets, TLC

CONSTANTS
  Paths,        \* the video paths of the library
  Tmp,          \* the hidden file beside a path while its tags are written
  Roots, RootOf(_),
  Types, Created,  \* the types the library may have, and the one it was created with
  Identity(_),  \* what the path says, parsed by naming.go
  Values,       \* the values of fields
  FileTags,     \* the tags a new file may have
  Patches,      \* the edits: fields and target
  MaxChanges,   \* bound: files that come, change or go
  MaxEdits,     \* bound: edits
  MaxFaults     \* bound: kinds of fault that happen, each of them once

ASSUME IndexAssumption ==
  /\ Tmp \notin Paths /\ Created \in Types
  /\ MaxChanges \in Nat /\ MaxEdits \in Nat /\ MaxFaults \in Nat

AllPaths == Paths \cup {Tmp}
VideoFields == [Keys -> Values]
Stamps == 0..(MaxChanges + MaxEdits)

\* Tags are fields; a JSON value has a content, and a patch is for the row or for the file.
ASSUME IndexInputs ==
  /\ {Nil, "h"} \subseteq Values
  /\ FileTags \subseteq VideoFields
  /\ \A patch \in Patches : \A k \in DOMAIN patch.fields : patch.fields[k].v \in Values

NoFile == [tags |-> NoFields, stamp |-> 0]
NoRow == [present |-> FALSE, original |-> NoFields, override |-> NoFields, by |-> Nil, stamp |-> 0,
          columns |-> <<>>]

Scan == "scan"
Edit == "edit"
Procs == {Scan, Edit}

VARIABLES
  type,         \* the library's type
  disk,         \* the file at each path; its stamp is modification time and size
  down,         \* roots that cannot be read
  bin,          \* the recycled file of a path: where it is, and the file
  rows,         \* media_metadata
  loc,          \* per goroutine: control point and local variables
  todo, indexed, list, frozen,  \* the scan: paths to visit, visited, rows to look at, prefixes
  placed, kept, \* paths that were in their place, and that the bin kept, ever since the scan began
  blind,        \* the scan could not read a root or the prefixes
  changes, edits, faults

scanVars == <<todo, indexed, list, frozen, placed, kept, blind>>
boundVars == <<changes, edits, faults>>
vars == <<type, disk, down, bin, rows, loc, scanVars, boundVars>>

Idle == [pc |-> "idle", path |-> Nil, patch |-> <<>>, original |-> NoFields, override |-> NoFields,
         stamp |-> 0, columns |-> <<>>, then |-> "idle"]

InPlace(p) == disk[p] # NoFile
KeptAt == {"in", "restored", "cleaned", "wiped"}   \* while there is a trash_items row
Kept(p) == bin[p].at \in KeptAt

Init ==
  /\ type = Created
  /\ disk = [p \in AllPaths |-> NoFile]
  /\ down = {}
  /\ bin = [p \in AllPaths |-> [at |-> "none", file |-> NoFile]]
  /\ rows = [p \in AllPaths |-> NoRow]
  /\ loc = [x \in Procs |-> Idle]
  /\ todo = {} /\ indexed = {} /\ list = {} /\ frozen = {} /\ placed = {} /\ kept = {} /\ blind = FALSE
  /\ changes = 0 /\ edits = 0 /\ faults = {}

Goto(x, from, to) == loc[x].pc = from /\ loc' = [loc EXCEPT ![x].pc = to]

Fault(kind) ==
  /\ kind \notin faults
  /\ Cardinality(faults) < MaxFaults
  /\ faults' = faults \cup {kind}

\* What a step takes out of its place, or out of the bin, did not stay there.
Settle ==
  /\ placed' = {p \in placed : disk'[p] # NoFile}
  /\ kept' = {p \in kept : bin'[p].at \in KeptAt}

----------------------------------------------------------------------------
(* The store: UpsertOriginal and UpdateOverride write, read the row again  *)
(* and store the columns derived from it.                                  *)

UpsertOriginal(row, original, stamp) ==
  [row EXCEPT !.present = TRUE, !.original = original, !.stamp = stamp]

UpdateOverride(row, override, by) == [row EXCEPT !.present = TRUE, !.override = override, !.by = by]

\* Mutant: a file that has a row is not probed again.
NeedsFirstProbe(p) == ~rows[p].present

NeedsProbe(p) ==
  ~rows[p].present \/ rows[p].stamp # disk[p].stamp \/ IdentityHashesIncomplete(rows[p].original)

ListIndexedPaths == {p \in AllPaths : rows[p].present}
ListActiveIndexedPaths == {p \in ListIndexedPaths : ~Kept(p)}

\* refreshDerivedColumns: the row that is read now, the columns that are stored later
RefreshGet(x) ==
  LET p == loc[x].path
      row == rows[p]
  IN
  /\ loc[x].pc = "refresh"
  /\ loc' = [loc EXCEPT ![x].pc = IF row.present THEN "columns" ELSE loc[x].then,
                        ![x].columns = IF row.present
                                       THEN CatalogDenormFrom(type, Identity(p), row.original, row.override)
                                       ELSE <<>>]
  /\ UNCHANGED <<type, disk, down, bin, rows, scanVars, boundVars>>

RefreshStore(x) ==
  LET p == loc[x].path IN
  /\ loc[x].pc = "columns"
  /\ rows' = IF rows[p].present THEN [rows EXCEPT ![p].columns = loc[x].columns] ELSE rows
  /\ loc' = [loc EXCEPT ![x].pc = loc[x].then, ![x].columns = <<>>]
  /\ UNCHANGED <<type, disk, down, bin, scanVars, boundVars>>

----------------------------------------------------------------------------
(* The scan: indexLibrary                                                  *)

indexLibrary ==
  /\ Goto(Scan, "idle", "walk")
  /\ todo' = AllPaths
  /\ indexed' = {} /\ list' = {} /\ frozen' = {}
  /\ placed' = {p \in AllPaths : InPlace(p)}
  /\ kept' = {p \in AllPaths : Kept(p)}
  /\ blind' = FALSE
  /\ UNCHANGED <<type, disk, down, bin, rows, boundVars>>

\* A root that cannot be resolved, or a walk that ends with an error: only logged.
indexRootFails(r) ==
  /\ loc[Scan].pc = "walk"
  /\ \E p \in todo : RootOf(p) = r
  /\ (r \in down /\ UNCHANGED faults) \/ Fault("walk")
  /\ todo' = {p \in todo : RootOf(p) # r}
  /\ blind' = TRUE
  /\ UNCHANGED <<type, disk, down, bin, rows, loc, indexed, list, frozen, placed, kept, changes, edits>>

\* The callback of the walk for one entry: the file is met, and probed when it has changed.
indexRoot(p) ==
  /\ loc[Scan].pc = "walk"
  /\ p \in todo
  /\ RootOf(p) \notin down
  /\ todo' = todo \ {p}
  /\ \/ /\ ~InPlace(p)
        /\ UNCHANGED <<loc, indexed, faults>>
     \/ /\ InPlace(p)
        /\ ~NeedsProbe(p)
        /\ indexed' = indexed \cup {p}
        /\ UNCHANGED <<loc, faults>>
     \/ /\ InPlace(p)
        /\ NeedsProbe(p)
        /\ Fault("probe")
        /\ indexed' = indexed \cup {p}
        /\ UNCHANGED loc
     \/ /\ InPlace(p)
        /\ NeedsProbe(p)
        /\ indexed' = indexed \cup {p}
        /\ loc' = [loc EXCEPT ![Scan] =
                     [@ EXCEPT !.pc = "upsert", !.path = p, !.then = "walk", !.stamp = disk[p].stamp,
                               !.original = attachIdentityHashes(disk[p].tags, rows[p].original, "h")]]
        /\ UNCHANGED faults
  /\ UNCHANGED <<type, disk, down, bin, rows, list, frozen, placed, kept, blind, changes, edits>>

ScanUpsert ==
  LET x == loc[Scan] IN
  /\ x.pc = "upsert"
  /\ rows' = [rows EXCEPT ![x.path] = UpsertOriginal(@, x.original, x.stamp)]
  /\ loc' = [loc EXCEPT ![Scan] = [Idle EXCEPT !.pc = "refresh", !.path = x.path, !.then = "walk"]]
  /\ UNCHANGED <<type, disk, down, bin, scanVars, boundVars>>

\* deleteStalePaths: first the rows, then the prefixes of the recycle bin
deleteStalePaths ==
  /\ loc[Scan].pc = "walk"
  /\ todo = {}
  /\ loc' = [loc EXCEPT ![Scan] = [Idle EXCEPT !.pc = "prefixes"]]
  /\ list' = ListIndexedPaths
  /\ UNCHANGED <<type, disk, down, bin, rows, todo, indexed, frozen, placed, kept, blind, boundVars>>

\* An error leaves no prefix: nothing is kept.
OriginalPrefixes ==
  /\ Goto(Scan, "prefixes", "prune")
  /\ \/ frozen' = {p \in AllPaths : Kept(p)} /\ UNCHANGED <<blind, faults>>
     \/ frozen' = {} /\ blind' = TRUE /\ Fault("prefixes")
  /\ UNCHANGED <<type, disk, down, bin, rows, todo, indexed, list, placed, kept, changes, edits>>

\* Mutant: the recycle bin is not asked.
StaleUnfrozen == {p \in list : p \notin indexed}
Stale == {p \in list : p \notin indexed /\ p \notin frozen}

DeleteStale ==
  /\ loc[Scan].pc = "prune"
  /\ \E p \in list :
       /\ rows' = IF p \in Stale THEN [rows EXCEPT ![p] = NoRow] ELSE rows
       /\ list' = list \ {p}
  /\ UNCHANGED <<type, disk, down, bin, loc, todo, indexed, frozen, placed, kept, blind, boundVars>>

EndScan ==
  /\ todo' = {} /\ indexed' = {} /\ list' = {} /\ frozen' = {} /\ placed' = {} /\ kept' = {} /\ blind' = FALSE
  /\ loc' = [loc EXCEPT ![Scan] = Idle]

ScanDone ==
  /\ loc[Scan].pc = "prune"
  /\ list = {}
  /\ EndScan
  /\ UNCHANGED <<type, disk, down, bin, rows, boundVars>>

\* The context is cancelled: the walk stops and no statement runs any more.
ScanCancelled ==
  /\ loc[Scan].pc # "idle"
  /\ Fault("cancel")
  /\ EndScan
  /\ UNCHANGED <<type, disk, down, bin, rows, changes, edits>>

----------------------------------------------------------------------------
(* Edits: Patch with target override or file                               *)

Patch(p, patch) ==
  /\ loc[Edit] = Idle
  /\ edits < MaxEdits
  /\ edits' = edits + 1
  /\ loc' = [loc EXCEPT ![Edit] = [Idle EXCEPT !.pc = "load", !.path = p, !.patch = patch]]
  /\ UNCHANGED <<type, disk, down, bin, rows, scanVars, changes, faults>>

Return == loc' = [loc EXCEPT ![Edit] = Idle]

\* The row is read; a patch that is not valid is refused.
patchOverride ==
  LET e == loc[Edit] IN
  /\ e.pc = "load"
  /\ e.patch.target = "override"
  /\ IF ValidPatch(e.patch.fields)
     THEN loc' = [loc EXCEPT ![Edit] = [e EXCEPT !.pc = "override",
                    !.override = ApplyPatchFields(rows[e.path].override, e.patch.fields)]]
     ELSE Return
  /\ UNCHANGED <<type, disk, down, bin, rows, scanVars, boundVars>>

\* With target file the tags are written only when the file is there.
patchFile ==
  LET e == loc[Edit] IN
  /\ e.pc = "load"
  /\ e.patch.target = "file"
  /\ IF ValidPatch(e.patch.fields) /\ InPlace(e.path)
     THEN loc' = [loc EXCEPT ![Edit] = [e EXCEPT
                    !.pc = IF fileTagUpdates(e.patch.fields) = {} THEN "probe" ELSE "remux",
                    !.override = rows[e.path].override,
                    !.original = ApplyPatchFields(rows[e.path].original, e.patch.fields)]]
     ELSE Return
  /\ UNCHANGED <<type, disk, down, bin, rows, scanVars, boundVars>>

\* WriteFileTags: ffmpeg fills a hidden file, which is then renamed over the original.
WriteTemp ==
  LET e == loc[Edit] IN
  /\ e.pc = "remux"
  /\ \/ /\ InPlace(e.path)
        /\ disk' = [disk EXCEPT ![Tmp] =
             [tags |-> [k \in Keys |-> IF k \in fileTagUpdates(e.patch.fields) THEN e.original[k]
                                       ELSE disk[e.path].tags[k]],
              stamp |-> changes + 1]]
        /\ loc' = [loc EXCEPT ![Edit].pc = "rename"]
        /\ changes' = changes + 1
        /\ UNCHANGED faults
     \/ /\ (~InPlace(e.path) /\ UNCHANGED faults) \/ Fault("ffmpeg")
        /\ Return
        /\ UNCHANGED <<disk, changes>>
  /\ UNCHANGED <<type, down, bin, rows, todo, indexed, list, frozen, blind, edits>>
  /\ Settle

WriteFileTags ==
  /\ Goto(Edit, "rename", "probe")
  /\ disk' = [disk EXCEPT ![loc[Edit].path] = disk[Tmp], ![Tmp] = NoFile]
  /\ UNCHANGED <<type, down, bin, rows, todo, indexed, list, frozen, blind, boundVars>>
  /\ Settle

\* persistAfterFileWrite: without the hashes, which the next scan computes again
ProbeRewritten ==
  LET e == loc[Edit] IN
  /\ e.pc = "probe"
  /\ IF InPlace(e.path)
     THEN loc' = [loc EXCEPT ![Edit] = [e EXCEPT !.pc = "original", !.original = disk[e.path].tags,
                                                 !.stamp = disk[e.path].stamp]]
     ELSE Return
  /\ UNCHANGED <<type, disk, down, bin, rows, scanVars, boundVars>>

persistAfterFileWrite ==
  LET e == loc[Edit] IN
  /\ e.pc = "original"
  /\ rows' = [rows EXCEPT ![e.path] = UpsertOriginal(@, e.original, e.stamp)]
  /\ loc' = [loc EXCEPT ![Edit] = [e EXCEPT !.pc = "refresh", !.then = "override",
               !.override = ClearOverrideKeys(e.override, e.patch.fields)]]
  /\ UNCHANGED <<type, disk, down, bin, scanVars, boundVars>>

SaveOverride ==
  LET e == loc[Edit] IN
  /\ e.pc = "override"
  /\ rows' = [rows EXCEPT ![e.path] = UpdateOverride(@, e.override, "user")]
  /\ loc' = [loc EXCEPT ![Edit] = [Idle EXCEPT !.pc = "refresh", !.path = e.path, !.patch = e.patch]]
  /\ UNCHANGED <<type, disk, down, bin, scanVars, boundVars>>

\* The request is answered by Get.
PatchDone ==
  /\ loc[Edit].pc = "idle"
  /\ loc[Edit] # Idle
  /\ Return
  /\ UNCHANGED <<type, disk, down, bin, rows, scanVars, boundVars>>

\* UpdateLibrary changes the type; no row is derived again.
UpdateLibrary(t) ==
  /\ t # type
  /\ edits < MaxEdits
  /\ edits' = edits + 1
  /\ type' = t
  /\ UNCHANGED <<disk, down, bin, rows, loc, scanVars, changes, faults>>

----------------------------------------------------------------------------
(* Files, and the recycle bin                                              *)

Change == changes < MaxChanges /\ changes' = changes + 1

\* A file is put in its place, changed or taken away from outside.
ReplaceFile(p, tags) ==
  /\ Change
  /\ disk' = [disk EXCEPT ![p] = [tags |-> tags, stamp |-> changes']]
  /\ UNCHANGED <<type, down, bin, rows, loc, scanVars, edits, faults>>

RemoveFile(p) ==
  /\ InPlace(p)
  /\ Change
  /\ disk' = [disk EXCEPT ![p] = NoFile]
  /\ UNCHANGED bin /\ Settle
  /\ UNCHANGED <<type, down, rows, loc, todo, indexed, list, frozen, blind, edits, faults>>

\* A root goes away, for instance a mount, and comes back.
Unmount(r) ==
  /\ r \notin down
  /\ Fault("unmount")
  /\ down' = down \cup {r}
  /\ UNCHANGED <<type, disk, bin, rows, loc, scanVars, changes, edits>>

Mount(r) ==
  /\ r \in down
  /\ down' = down \ {r}
  /\ UNCHANGED <<type, disk, bin, rows, loc, scanVars, boundVars>>

\* The steps of trash.Move, Restore and DeleteForever that the index can see.
BinStep(p, from, to, file, place, row) ==
  /\ bin[p].at = from
  /\ bin' = [bin EXCEPT ![p] = [at |-> to, file |-> file]]
  /\ disk' = [disk EXCEPT ![p] = place]
  /\ rows' = [rows EXCEPT ![p] = row]
  /\ Settle
  /\ UNCHANGED <<type, down, loc, todo, indexed, list, frozen, blind, edits, faults>>

MoveToTrash(p) ==
  /\ InPlace(p)
  /\ Change
  /\ BinStep(p, "none", "moved", disk[p], NoFile, rows[p])

InsertTrashRow(p) == BinStep(p, "moved", "in", bin[p].file, disk[p], rows[p]) /\ UNCHANGED changes

RestoreFromTrash(p) ==
  /\ ~InPlace(p)
  /\ Change
  /\ BinStep(p, "in", "restored", NoFile, bin[p].file, rows[p])

DeleteTrashRow(p) ==
  /\ \/ BinStep(p, "restored", "none", NoFile, disk[p], rows[p])
     \/ BinStep(p, "wiped", "none", NoFile, disk[p], rows[p])
  /\ UNCHANGED changes

\* OnPermanentDelete: by the original path, whatever is there now
DeleteForPath(p) == Change /\ BinStep(p, "in", "cleaned", bin[p].file, disk[p], NoRow)

RemoveTrashItem(p) == BinStep(p, "cleaned", "wiped", NoFile, disk[p], rows[p]) /\ UNCHANGED changes

----------------------------------------------------------------------------

ScanStep ==
  \/ \E r \in Roots : indexRootFails(r)
  \/ \E p \in AllPaths : indexRoot(p)
  \/ ScanUpsert \/ RefreshGet(Scan) \/ RefreshStore(Scan)
  \/ deleteStalePaths \/ OriginalPrefixes \/ DeleteStale \/ ScanDone

EditStep ==
  \/ patchOverride \/ patchFile \/ WriteTemp \/ WriteFileTags \/ ProbeRewritten
  \/ persistAfterFileWrite \/ SaveOverride \/ RefreshGet(Edit) \/ RefreshStore(Edit) \/ PatchDone

TrashStep(p) == InsertTrashRow(p) \/ DeleteTrashRow(p) \/ RemoveTrashItem(p)

Environment ==
  \/ \E p \in Paths :
       \/ \E tags \in FileTags : ReplaceFile(p, tags)
       \/ RemoveFile(p) \/ MoveToTrash(p) \/ RestoreFromTrash(p) \/ DeleteForPath(p)
       \/ \E patch \in Patches : Patch(p, patch)
  \/ \E t \in Types : UpdateLibrary(t)
  \/ \E r \in Roots : Unmount(r)

Next ==
  \/ indexLibrary
  \/ ScanStep
  \/ EditStep
  \/ \E p \in Paths : TrashStep(p)
  \/ \E r \in Roots : Mount(r)
  \/ Environment
  \/ ScanCancelled

Spec == Init /\ [][Next]_vars

\* Goroutines run on, the schedule starts a scan again and again, and a mount comes back.
Fairness ==
  /\ WF_vars(indexLibrary) /\ WF_vars(ScanStep)
  /\ WF_vars(EditStep)
  /\ \A p \in Paths : WF_vars(TrashStep(p))
  /\ \A r \in Roots : WF_vars(Mount(r))

FairSpec == Spec /\ Fairness

----------------------------------------------------------------------------

PCs == {"idle", "walk", "upsert", "refresh", "columns", "prefixes", "prune", "load", "remux", "rename",
        "probe", "original", "override"}

\* Every variable has its type; a path without a row has no field, and the recycle bin
\* holds a file of a path exactly between the rename in and the rename out or the removal.
TypeOK ==
  /\ type \in Types
  /\ \A p \in AllPaths :
       /\ disk[p].tags \in VideoFields /\ disk[p].stamp \in Stamps
       /\ rows[p].original \in VideoFields /\ rows[p].override \in VideoFields
       /\ rows[p].stamp \in Stamps /\ rows[p].by \in {Nil, "user"}
       /\ ~rows[p].present => rows[p] = NoRow
       /\ bin[p].file # NoFile <=> bin[p].at \in {"moved", "in", "cleaned"}
  /\ down \subseteq Roots
  /\ \A x \in Procs : loc[x].pc \in PCs /\ loc[x].then \in {"idle", "walk", "override"}
  /\ todo \cup indexed \cup list \cup frozen \cup placed \cup kept \subseteq AllPaths

\* A scan never loses an administrator's edit of a file that stayed in its place, or in the
\* recycle bin, while the scan ran: indexRoot marks a file before anything about it can
\* fail, UpsertOriginal leaves the override alone, and deleteStalePaths asks the bin.  The
\* edit is lost only when a root or the bin's prefixes could not be read.
ScanKeepsEdits ==
  [][\A p \in AllPaths :
       rows'[p].override # rows[p].override /\ loc'[Edit] = loc[Edit] /\ bin' = bin
         => p \notin placed \cup kept \/ blind]_vars

\* Every row is of a file that is there or recycled, and every file has a row with its tags.
Mirrors ==
  \A p \in AllPaths :
    /\ rows[p].present => InPlace(p) \/ Kept(p)
    /\ InPlace(p) => /\ rows[p].present
                     /\ rows[p].stamp = disk[p].stamp
                     /\ \A k \in EditableFieldKeys : rows[p].original[k] = disk[p].tags[k]

\* Once nobody changes files any more, the repeated scans make the index mirror the disk
\* for good: whatever races, failed probes, failed walks or cancelled scans came before.
IndexConverges == <>[]Mirrors

\* The columns of the catalog show what Get shows, whenever no goroutine is at work.
CatalogAgrees ==
  (\A x \in Procs : loc[x] = Idle) =>
    \A p \in AllPaths : rows[p].present =>
      rows[p].columns = CatalogDenormFrom(type, Identity(p), rows[p].original, rows[p].override)

\* An edit that is written to the file, and no other, is in force when it is answered.
EditInForce ==
  LET e == loc[Edit] IN
  e.pc = "idle" /\ e # Idle =>
    \A k \in DOMAIN e.patch.fields :
      LET row == rows[e.path]
          v == EffectiveFields(type, Identity(e.path), row.original, row.override)[k]
      IN e.patch.fields[k] # Null => v = Head(setField(k, e.patch.fields[k]))

=============================================================================
