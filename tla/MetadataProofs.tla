-------------------------- MODULE MetadataProofs --------------------------
(***************************************************************************)
(* Theorems about the two parts that write the metadata of videos, for any *)
(* paths, fields, tags, edits and any number of changes and faults.        *)
(*                                                                         *)
(* MediaIndex (scans, edits of a video, the recycle bin): a scan knows of  *)
(* each file that stayed where it is, and of each one that the bin kept,   *)
(* before it takes away what no path holds.                                *)
(*                                                                         *)
(* Enrichment (metadata, poster and subtitle tasks): what a task is about  *)
(* to write was weighed against the row as it is, unless an edit was       *)
(* stored since it read the row.                                           *)
(***************************************************************************)
EXTENDS MediaIndex, Enrichment, TLAPS

(* Types *)

Columns == {<<>>} \cup {CatalogDenormFrom(t, Identity(p), f, g) :
                          t \in Types, p \in AllPaths, f \in VideoFields, g \in VideoFields}
File == [tags : VideoFields, stamp : Stamps]
Places == {"none", "moved"} \cup KeptAt
Row == [present : BOOLEAN, original : VideoFields, override : VideoFields, by : {Nil, "user"},
        stamp : Stamps, columns : Columns]
Local == [pc : PCs, path : AllPaths \cup {Nil}, patch : Patches \cup {<<>>}, original : VideoFields,
          override : VideoFields, stamp : Stamps, columns : Columns, then : {"idle", "walk", "override"}]

DataType ==
  /\ type \in Types
  /\ disk \in [AllPaths -> File]
  /\ bin \in [AllPaths -> [at : Places, file : File]]
  /\ rows \in [AllPaths -> Row]
  /\ loc \in [Procs -> Local]
  /\ down \subseteq Roots

ScanType ==
  /\ todo \subseteq AllPaths /\ indexed \subseteq AllPaths /\ list \subseteq AllPaths
  /\ frozen \subseteq AllPaths /\ placed \subseteq AllPaths /\ kept \subseteq AllPaths
  /\ blind \in BOOLEAN

\* A request may still write a file of its own, which is one change more.
Writes == loc[Edit].pc \in {"load", "remux"}
BoundType ==
  /\ changes \in Nat /\ edits \in 0..MaxEdits
  /\ changes <= MaxChanges + edits
  /\ Writes => edits >= 1 /\ changes < MaxChanges + edits

\* A path without a row has no field left; the bin holds a file exactly between the two renames.
RowInv == \A p \in AllPaths : ~rows[p].present => rows[p] = NoRow
BinInv == \A p \in AllPaths : bin[p].file # NoFile <=> bin[p].at \in {"moved", "in", "cleaned"}

\* Each goroutine is at a control point of its own and works on a path.
ScanPCs == {"idle", "walk", "upsert", "refresh", "columns", "prefixes", "prune"}
EditPCs == {"idle", "load", "remux", "rename", "probe", "original", "refresh", "columns", "override"}

PlaceInv ==
  LET s == loc[Scan]
      e == loc[Edit]
  IN
  /\ s.pc \in ScanPCs
  /\ s.pc \in {"upsert", "refresh", "columns"} => s.path \in AllPaths /\ s.then = "walk"
  /\ e.pc \in EditPCs
  /\ e.pc # "idle" => e.path \in Paths /\ e.patch \in Patches
  /\ e.then \in {"idle", "override"}

\* What stayed in its place was met or will be, and what the bin kept is in the prefixes.
ScanInv ==
  /\ \A p \in placed : InPlace(p)
  /\ \A p \in kept : Kept(p)
  /\ ~blind =>
       /\ loc[Scan].pc \in {"walk", "upsert", "refresh", "columns"} => placed \subseteq todo \cup indexed
       /\ loc[Scan].pc \in {"prefixes", "prune"} => placed \subseteq indexed
       /\ loc[Scan].pc = "prune" => kept \subseteq frozen

IndInv == DataType /\ ScanType /\ BoundType /\ RowInv /\ BinInv /\ PlaceInv /\ ScanInv

USE DEF scanVars, boundVars, vars

----------------------------------------------------------------------------
(* Values *)

LEMMA Empty ==
  NoFields \in VideoFields /\ NoFile \in File /\ NoRow \in Row /\ Idle \in Local
<1>1. NoFields \in VideoFields
  BY IndexInputs DEF NoFields, VideoFields
<1>2. 0 \in Stamps
  BY IndexAssumption DEF Stamps
<1>3. <<>> \in Columns
  BY DEF Columns
<1>4. NoFile \in File /\ NoRow \in Row
  BY <1>1, <1>2, <1>3 DEF NoFile, File, NoRow, Row
<1>5. Idle \in Local
  BY <1>1, <1>2, <1>3 DEF Idle, Local, PCs
<1> QED
  BY <1>1, <1>4, <1>5

\* A value that setField accepts is the content of the JSON value.
LEMMA SetFieldContent ==
  ASSUME NEW k, NEW raw, setField(k, raw) # <<>>
  PROVE  Head(setField(k, raw)) = raw.v
<1>1. setField(k, raw) = <<raw.v>>
  BY DEF setField, asInt, asString, asStringSlice
<1> QED
  BY <1>1

LEMMA PatchType ==
  ASSUME NEW f \in VideoFields, NEW patch \in Patches
  PROVE  /\ ValidPatch(patch.fields) => ApplyPatchFields(f, patch.fields) \in VideoFields
         /\ ClearOverrideKeys(f, patch.fields) \in VideoFields
<1>1. ClearOverrideKeys(f, patch.fields) \in VideoFields
  BY IndexInputs DEF ClearOverrideKeys, clearField, VideoFields
<1>2. ASSUME ValidPatch(patch.fields)
      PROVE  ApplyPatchFields(f, patch.fields) \in VideoFields
  <2> DEFINE nulls == {k \in DOMAIN patch.fields : patch.fields[k] = Null}
             cleared == clearField(f, nulls)
  <2>1. cleared \in VideoFields
    BY IndexInputs DEF clearField, VideoFields
  <2>2. ASSUME NEW k \in DOMAIN patch.fields \ nulls
        PROVE  Head(setField(k, patch.fields[k])) \in Values
    <3>1. setField(k, patch.fields[k]) # <<>>
      BY <1>2 DEF ValidPatch
    <3>2. patch.fields[k].v \in Values
      BY IndexInputs
    <3> QED
      BY <3>1, <3>2, SetFieldContent
  <2> QED
    BY <2>1, <2>2 DEF ApplyPatchFields, VideoFields
<1> QED
  BY <1>1, <1>2

LEMMA HashesType ==
  ASSUME NEW f \in VideoFields, NEW g \in VideoFields
  PROVE  attachIdentityHashes(f, g, "h") \in VideoFields
BY IndexInputs DEF attachIdentityHashes, VideoFields

LEMMA ColumnsType ==
  ASSUME NEW t \in Types, NEW p \in AllPaths, NEW r \in Row
  PROVE  CatalogDenormFrom(t, Identity(p), r.original, r.override) \in Columns
BY DEF Columns, Row

LEMMA StoreType ==
  ASSUME NEW r \in Row, NEW f \in VideoFields, NEW s \in Stamps
  PROVE  /\ UpsertOriginal(r, f, s) \in Row /\ UpsertOriginal(r, f, s).present
         /\ UpsertOriginal(r, f, s).override = r.override
         /\ UpdateOverride(r, f, "user") \in Row /\ UpdateOverride(r, f, "user").present
BY DEF Row, UpsertOriginal, UpdateOverride

----------------------------------------------------------------------------
(* What a step leaves alone *)

\* A step of the request to record l
LEMMA EditMoves ==
  ASSUME IndInv, NEW l \in Local, loc' = [loc EXCEPT ![Edit] = l],
         l.pc \in EditPCs, l.pc # "idle" => l.path \in Paths /\ l.patch \in Patches,
         l.then \in {"idle", "override"}
  PROVE  loc' \in [Procs -> Local] /\ PlaceInv' /\ loc'[Scan] = loc[Scan] /\ loc'[Edit] = l
<1>1. loc \in [Procs -> Local] /\ PlaceInv
  BY DEF IndInv, DataType
<1>2. loc' \in [Procs -> Local] /\ loc'[Scan] = loc[Scan] /\ loc'[Edit] = l
  BY <1>1 DEF Procs, Scan, Edit
<1> QED
  BY <1>1, <1>2 DEF PlaceInv

\* A step of the scan to record l
LEMMA ScanMoves ==
  ASSUME IndInv, NEW l \in Local, loc' = [loc EXCEPT ![Scan] = l],
         l.pc \in ScanPCs, l.pc \in {"upsert", "refresh", "columns"} => l.path \in AllPaths /\ l.then = "walk"
  PROVE  loc' \in [Procs -> Local] /\ PlaceInv' /\ loc'[Scan] = l /\ loc'[Edit] = loc[Edit]
<1>1. loc \in [Procs -> Local] /\ PlaceInv
  BY DEF IndInv, DataType
<1>2. loc' \in [Procs -> Local] /\ loc'[Edit] = loc[Edit] /\ loc'[Scan] = l
  BY <1>1 DEF Procs, Scan, Edit
<1> QED
  BY <1>1, <1>2 DEF PlaceInv

\* A step beside the scan, after which what it counts on is where it was
LEMMA ScanStays ==
  ASSUME IndInv, loc'[Scan] = loc[Scan], UNCHANGED <<todo, indexed, list, frozen, blind>>,
         placed' \subseteq placed, kept' \subseteq kept,
         \A p \in placed' : disk'[p] # NoFile, \A p \in kept' : bin'[p].at \in KeptAt
  PROVE  ScanType' /\ ScanInv'
<1>1. ScanType'
  BY DEF IndInv, ScanType
<1>2. ScanInv'
  BY DEF IndInv, ScanInv, InPlace, Kept
<1> QED
  BY <1>1, <1>2

\* Settle is one way, to leave files and bin alone is another.
LEMMA SettleStays ==
  ASSUME IndInv, loc'[Scan] = loc[Scan], UNCHANGED <<todo, indexed, list, frozen, blind>>, Settle
  PROVE  ScanType' /\ ScanInv'
<1>1. /\ placed' \subseteq placed /\ kept' \subseteq kept
      /\ \A p \in placed' : disk'[p] # NoFile
      /\ \A p \in kept' : bin'[p].at \in KeptAt
  BY DEF Settle
<1> QED
  BY <1>1, ScanStays

LEMMA QuietStays ==
  ASSUME IndInv, loc'[Scan] = loc[Scan], UNCHANGED <<disk, bin, scanVars>>
  PROVE  ScanType' /\ ScanInv'
<1>1. /\ \A p \in placed' : disk'[p] # NoFile
      /\ \A p \in kept' : bin'[p].at \in KeptAt
  BY DEF IndInv, ScanInv, InPlace, Kept
<1> QED
  BY <1>1, ScanStays

\* The counters while the request does not begin
LEMMA BoundStays ==
  ASSUME IndInv, UNCHANGED <<changes, edits>>, Writes' => Writes
  PROVE  BoundType'
BY DEF IndInv, BoundType

LEMMA BoundSame ==
  ASSUME IndInv, UNCHANGED <<changes, edits>>, loc'[Edit] = loc[Edit]
  PROVE  BoundType'
BY BoundStays DEF Writes

\* A row that is stored
LEMMA RowStored ==
  ASSUME IndInv, NEW p \in AllPaths, NEW r \in Row, r.present \/ r = NoRow,
         rows' = [rows EXCEPT ![p] = r]
  PROVE  rows' \in [AllPaths -> Row] /\ RowInv'
BY DEF IndInv, DataType, RowInv

----------------------------------------------------------------------------
(* Initially *)

LEMMA Initially == Init => IndInv
<1> SUFFICES ASSUME Init PROVE IndInv
  OBVIOUS
<1> USE Empty DEF Init
<1>1. DataType
  BY IndexAssumption DEF DataType, Places
<1>2. ScanType
  BY DEF ScanType
<1>3. BoundType
  BY IndexAssumption DEF BoundType, Writes, Idle, Procs, Edit
<1>4. RowInv /\ BinInv
  BY DEF RowInv, BinInv
<1>5. PlaceInv
  BY DEF PlaceInv, Procs, Idle, ScanPCs, EditPCs
<1>6. ScanInv
  BY DEF ScanInv, Idle, Procs
<1> QED
  BY <1>1, <1>2, <1>3, <1>4, <1>5, <1>6 DEF IndInv

----------------------------------------------------------------------------
(* The scan *)

LEMMA IndexLibrary == ASSUME IndInv, indexLibrary PROVE IndInv'
<1> DEFINE l == [loc[Scan] EXCEPT !.pc = "walk"]
<1>1. loc \in [Procs -> Local] /\ loc[Scan] \in Local
  BY DEF IndInv, DataType, Procs
<1>2. l \in Local /\ l.pc = "walk"
  BY <1>1 DEF Local, PCs
<1>3. loc' = [loc EXCEPT ![Scan] = l]
  BY <1>1 DEF indexLibrary, Goto, Procs
<1> HIDE DEF l
<1>4. loc' \in [Procs -> Local] /\ PlaceInv' /\ loc'[Scan] = l /\ loc'[Edit] = loc[Edit]
  BY <1>2, <1>3, ScanMoves DEF ScanPCs
<1>5. DataType' /\ RowInv' /\ BinInv' /\ BoundType'
  BY <1>4, BoundSame DEF indexLibrary, IndInv, DataType, RowInv, BinInv
<1>6. ScanType' /\ ScanInv'
  BY <1>2, <1>4 DEF indexLibrary, ScanType, ScanInv, InPlace, Kept
<1> QED
  BY <1>4, <1>5, <1>6 DEF IndInv

LEMMA RootFails == ASSUME IndInv, NEW r \in Roots, indexRootFails(r) PROVE IndInv'
<1>1. DataType' /\ RowInv' /\ BinInv' /\ PlaceInv' /\ BoundType'
  BY BoundSame DEF indexRootFails, IndInv, DataType, RowInv, BinInv, PlaceInv
<1>2. ScanType' /\ ScanInv'
  BY DEF indexRootFails, IndInv, ScanType, ScanInv, InPlace, Kept
<1> QED
  BY <1>1, <1>2 DEF IndInv

LEMMA IndexRoot == ASSUME IndInv, NEW p \in AllPaths, indexRoot(p) PROVE IndInv'
<1>1. /\ loc \in [Procs -> Local] /\ loc[Scan] \in Local /\ rows[p] \in Row /\ disk[p] \in File
      /\ loc[Scan].pc = "walk"
  BY DEF IndInv, DataType, Procs, indexRoot
<1>2. /\ todo' = todo \ {p} /\ ((indexed' = indexed /\ ~InPlace(p)) \/ indexed' = indexed \cup {p})
      /\ UNCHANGED <<type, disk, down, bin, rows, list, frozen, placed, kept, blind, changes, edits>>
  BY DEF indexRoot
<1>3. /\ loc' \in [Procs -> Local] /\ PlaceInv' /\ loc'[Edit] = loc[Edit]
      /\ loc'[Scan].pc \in {"walk", "upsert"}
  <2>1. CASE UNCHANGED loc
    BY <1>1, <2>1 DEF IndInv, PlaceInv
  <2>2. CASE loc' = [loc EXCEPT ![Scan] =
                 [@ EXCEPT !.pc = "upsert", !.path = p, !.then = "walk", !.stamp = disk[p].stamp,
                           !.original = attachIdentityHashes(disk[p].tags, rows[p].original, "h")]]
    <3> DEFINE o == attachIdentityHashes(disk[p].tags, rows[p].original, "h")
               l == [loc[Scan] EXCEPT !.pc = "upsert", !.path = p, !.then = "walk",
                                      !.stamp = disk[p].stamp, !.original = o]
    <3>1. o \in VideoFields
      BY <1>1, HashesType DEF File, Row
    <3>2. loc' = [loc EXCEPT ![Scan] = l]
      BY <1>1, <2>2 DEF Procs
    <3> HIDE DEF o
    <3>3. l \in Local /\ l.pc = "upsert" /\ l.path = p /\ l.then = "walk"
      BY <1>1, <3>1 DEF Local, PCs, File
    <3> HIDE DEF l
    <3> QED
      BY <3>2, <3>3, ScanMoves DEF ScanPCs
  <2> QED
    BY <2>1, <2>2 DEF indexRoot
<1>4. DataType' /\ RowInv' /\ BinInv' /\ BoundType'
  BY <1>2, <1>3, BoundSame DEF IndInv, DataType, RowInv, BinInv
<1>5. ScanType'
  BY <1>2 DEF IndInv, ScanType
<1>6. ScanInv'
  BY <1>1, <1>2, <1>3 DEF IndInv, ScanInv, InPlace, Kept
<1> QED
  BY <1>3, <1>4, <1>5, <1>6 DEF IndInv

LEMMA ScanUpserts == ASSUME IndInv, ScanUpsert PROVE IndInv'
<1> DEFINE x == loc[Scan]
           r == UpsertOriginal(rows[x.path], x.original, x.stamp)
           l == [Idle EXCEPT !.pc = "refresh", !.path = x.path, !.then = "walk"]
<1>1. x \in Local /\ x.path \in AllPaths /\ x.pc = "upsert" /\ rows \in [AllPaths -> Row]
  BY DEF IndInv, DataType, PlaceInv, ScanUpsert, Procs
<1>2. r \in Row /\ r.present
  BY <1>1, StoreType DEF Local
<1>3. rows' = [rows EXCEPT ![x.path] = r] /\ loc' = [loc EXCEPT ![Scan] = l]
  BY <1>1 DEF ScanUpsert
<1>4. l \in Local /\ l.pc = "refresh" /\ l.path = x.path /\ l.then = "walk"
  BY <1>1, Empty DEF Local, PCs, Idle
<1> HIDE DEF r, l
<1>5. loc' \in [Procs -> Local] /\ PlaceInv' /\ loc'[Scan] = l /\ loc'[Edit] = loc[Edit]
  BY <1>1, <1>3, <1>4, ScanMoves DEF ScanPCs
<1>6. rows' \in [AllPaths -> Row] /\ RowInv'
  BY <1>1, <1>2, <1>3, RowStored
<1>7. DataType' /\ BinInv' /\ BoundType'
  BY <1>5, <1>6, BoundSame DEF ScanUpsert, IndInv, DataType, BinInv
<1>8. ScanType' /\ ScanInv'
  BY <1>1, <1>4, <1>5 DEF ScanUpsert, IndInv, ScanType, ScanInv, InPlace, Kept
<1> QED
  BY <1>5, <1>6, <1>7, <1>8 DEF IndInv

LEMMA StaleListed == ASSUME IndInv, deleteStalePaths PROVE IndInv'
<1> DEFINE l == [Idle EXCEPT !.pc = "prefixes"]
<1>1. l \in Local /\ l.pc = "prefixes"
  BY Empty DEF Local, PCs, Idle
<1>2. loc' = [loc EXCEPT ![Scan] = l]
  BY DEF deleteStalePaths
<1> HIDE DEF l
<1>3. loc' \in [Procs -> Local] /\ PlaceInv' /\ loc'[Scan] = l /\ loc'[Edit] = loc[Edit]
  BY <1>1, <1>2, ScanMoves DEF ScanPCs
<1>4. DataType' /\ RowInv' /\ BinInv' /\ BoundType'
  BY <1>3, BoundSame DEF deleteStalePaths, IndInv, DataType, RowInv, BinInv
<1>5. ScanType' /\ ScanInv'
  BY <1>1, <1>3 DEF deleteStalePaths, IndInv, ScanType, ScanInv, InPlace, Kept, ListIndexedPaths
<1> QED
  BY <1>3, <1>4, <1>5 DEF IndInv

LEMMA Prefixes == ASSUME IndInv, OriginalPrefixes PROVE IndInv'
<1> DEFINE l == [loc[Scan] EXCEPT !.pc = "prune"]
<1>1. loc \in [Procs -> Local] /\ loc[Scan] \in Local /\ loc[Scan].pc = "prefixes"
  BY DEF IndInv, DataType, Procs, OriginalPrefixes, Goto
<1>2. l \in Local /\ l.pc = "prune"
  BY <1>1 DEF Local, PCs
<1>3. loc' = [loc EXCEPT ![Scan] = l]
  BY <1>1 DEF OriginalPrefixes, Goto, Procs
<1> HIDE DEF l
<1>4. loc' \in [Procs -> Local] /\ PlaceInv' /\ loc'[Scan] = l /\ loc'[Edit] = loc[Edit]
  BY <1>2, <1>3, ScanMoves DEF ScanPCs
<1>5. DataType' /\ RowInv' /\ BinInv' /\ BoundType'
  BY <1>4, BoundSame DEF OriginalPrefixes, IndInv, DataType, RowInv, BinInv
<1>6. ScanType'
  BY DEF OriginalPrefixes, IndInv, ScanType
<1>7. ScanInv'
  <2>1. UNCHANGED <<disk, bin, indexed, placed, kept>>
    BY DEF OriginalPrefixes
  <2>2. /\ \A p \in placed : InPlace(p)
        /\ \A p \in kept : Kept(p)
        /\ ~blind => placed \subseteq indexed
        /\ kept \subseteq AllPaths
    BY <1>1 DEF IndInv, ScanInv, ScanType
  <2>3. ~blind' => ~blind /\ frozen' = {p \in AllPaths : Kept(p)}
    BY DEF OriginalPrefixes
  <2>4. /\ \A p \in placed' : InPlace(p)'
        /\ \A p \in kept' : Kept(p)'
    BY <2>1, <2>2 DEF InPlace, Kept
  <2>5. ~blind' => placed' \subseteq indexed' /\ kept' \subseteq frozen'
    BY <2>1, <2>2, <2>3
  <2> QED
    BY <1>2, <1>4, <2>4, <2>5 DEF ScanInv
<1> QED
  BY <1>4, <1>5, <1>6, <1>7 DEF IndInv

LEMMA StaleDeleted == ASSUME IndInv, DeleteStale PROVE IndInv'
<1>1. rows' \in [AllPaths -> Row] /\ RowInv'
  <2>1. PICK p \in list : rows' = IF p \in Stale THEN [rows EXCEPT ![p] = NoRow] ELSE rows
    BY DEF DeleteStale
  <2>2. p \in AllPaths
    BY DEF IndInv, ScanType
  <2>3. CASE p \in Stale
    BY <2>1, <2>2, <2>3, Empty, RowStored
  <2>4. CASE p \notin Stale
    BY <2>1, <2>4 DEF IndInv, DataType, RowInv
  <2> QED
    BY <2>3, <2>4
<1>2. DataType' /\ BinInv' /\ BoundType' /\ PlaceInv'
  BY <1>1, BoundSame DEF DeleteStale, IndInv, DataType, BinInv, PlaceInv
<1>3. ScanType' /\ ScanInv'
  BY DEF DeleteStale, IndInv, ScanType, ScanInv, InPlace, Kept
<1> QED
  BY <1>1, <1>2, <1>3 DEF IndInv

\* The scan ends, or is cancelled.
LEMMA ScanEnds ==
  ASSUME IndInv, EndScan, UNCHANGED <<type, disk, down, bin, rows, changes, edits>>
  PROVE  IndInv'
<1>1. Idle.pc = "idle"
  BY DEF Idle
<1>2. loc' \in [Procs -> Local] /\ PlaceInv' /\ loc'[Scan] = Idle /\ loc'[Edit] = loc[Edit]
  BY <1>1, Empty, ScanMoves DEF EndScan, ScanPCs
<1>3. DataType' /\ RowInv' /\ BinInv' /\ BoundType'
  BY <1>2, BoundSame DEF IndInv, DataType, RowInv, BinInv
<1>4. ScanType' /\ ScanInv'
  BY <1>1, <1>2 DEF EndScan, ScanType, ScanInv
<1> QED
  BY <1>2, <1>3, <1>4 DEF IndInv

----------------------------------------------------------------------------
(* The columns, for the scan and for the request *)

LEMMA RefreshGets == ASSUME IndInv, NEW x \in Procs, RefreshGet(x) PROVE IndInv'
<1> DEFINE p == loc[x].path
           c == IF rows[p].present
                THEN CatalogDenormFrom(type, Identity(p), rows[p].original, rows[p].override) ELSE <<>>
           l == [loc[x] EXCEPT !.pc = IF rows[p].present THEN "columns" ELSE loc[x].then, !.columns = c]
<1>1. /\ loc \in [Procs -> Local] /\ loc[x] \in Local /\ loc[x].pc = "refresh" /\ p \in AllPaths
      /\ rows[p] \in Row /\ type \in Types /\ loc[x].then \in {"idle", "walk", "override"}
  BY DEF IndInv, DataType, PlaceInv, RefreshGet, Procs, Scan, Edit, AllPaths, Local
<1>2. c \in Columns
  <2>1. CASE rows[p].present
    BY <1>1, <2>1, ColumnsType
  <2>2. CASE ~rows[p].present
    BY <2>2 DEF Columns
  <2> QED
    BY <2>1, <2>2
<1>3. loc' = [loc EXCEPT ![x] = l]
  BY <1>1 DEF RefreshGet
<1> HIDE DEF c
<1>4. /\ l \in Local /\ l.path = p /\ l.then = loc[x].then /\ l.patch = loc[x].patch
      /\ l.pc \in {"columns", loc[x].then}
  BY <1>1, <1>2 DEF Local, PCs
<1> HIDE DEF l
<1>5. loc' \in [Procs -> Local] /\ PlaceInv'
  <2>1. CASE x = Scan
    BY <1>1, <1>3, <1>4, <2>1, ScanMoves DEF ScanPCs, IndInv, PlaceInv
  <2>2. CASE x = Edit
    BY <1>1, <1>3, <1>4, <2>2, EditMoves DEF EditPCs, IndInv, PlaceInv
  <2> QED
    BY <2>1, <2>2 DEF Procs
<1>6. DataType' /\ RowInv' /\ BinInv'
  BY <1>5 DEF RefreshGet, IndInv, DataType, RowInv, BinInv
<1>7. BoundType' /\ ScanType' /\ ScanInv'
  <2>1. CASE x = Scan
    <3>1. loc'[Edit] = loc[Edit] /\ loc'[Scan] = l /\ l.pc \in {"columns", "walk"}
      BY <1>1, <1>3, <1>4, <2>1 DEF Procs, Scan, Edit, IndInv, PlaceInv
    <3>2. ScanInv' /\ ScanType'
      BY <1>1, <2>1, <3>1 DEF RefreshGet, IndInv, ScanType, ScanInv, InPlace, Kept
    <3> QED
      BY <3>1, <3>2, BoundSame DEF RefreshGet
  <2>2. CASE x = Edit
    <3>1. loc'[Scan] = loc[Scan] /\ ~Writes'
      BY <1>1, <1>3, <1>4, <2>2 DEF Procs, Scan, Edit, Writes, IndInv, PlaceInv
    <3> QED
      BY <3>1, BoundStays, QuietStays DEF RefreshGet
  <2> QED
    BY <2>1, <2>2 DEF Procs
<1> QED
  BY <1>5, <1>6, <1>7 DEF IndInv

LEMMA RefreshStores == ASSUME IndInv, NEW x \in Procs, RefreshStore(x) PROVE IndInv'
<1> DEFINE p == loc[x].path
           l == [loc[x] EXCEPT !.pc = loc[x].then, !.columns = <<>>]
           r == [rows[p] EXCEPT !.columns = loc[x].columns]
<1>1. /\ loc \in [Procs -> Local] /\ loc[x] \in Local /\ loc[x].pc = "columns" /\ p \in AllPaths
      /\ rows \in [AllPaths -> Row] /\ loc[x].then \in {"idle", "walk", "override"}
  BY DEF IndInv, DataType, PlaceInv, RefreshStore, Procs, Scan, Edit, AllPaths, Local
<1>2. loc' = [loc EXCEPT ![x] = l]
  BY <1>1 DEF RefreshStore
<1>3. /\ l \in Local /\ l.path = p /\ l.then = loc[x].then /\ l.patch = loc[x].patch
      /\ l.pc = loc[x].then
  <2>1. <<>> \in Columns
    BY DEF Columns
  <2> QED
    BY <1>1, <2>1 DEF Local, PCs
<1>4. r \in Row /\ r.present = rows[p].present
  BY <1>1 DEF Row, Local
<1>5. rows' = IF rows[p].present THEN [rows EXCEPT ![p] = r] ELSE rows
  BY <1>1 DEF RefreshStore
<1> HIDE DEF l, r
<1>6. rows' \in [AllPaths -> Row] /\ RowInv'
  <2>1. CASE rows[p].present
    BY <1>1, <1>4, <1>5, <2>1, RowStored
  <2>2. CASE ~rows[p].present
    BY <1>1, <1>5, <2>2 DEF IndInv, RowInv
  <2> QED
    BY <2>1, <2>2
<1>7. loc' \in [Procs -> Local] /\ PlaceInv'
  <2>1. CASE x = Scan
    BY <1>1, <1>2, <1>3, <2>1, ScanMoves DEF ScanPCs, IndInv, PlaceInv
  <2>2. CASE x = Edit
    BY <1>1, <1>2, <1>3, <2>2, EditMoves DEF EditPCs, IndInv, PlaceInv
  <2> QED
    BY <2>1, <2>2 DEF Procs
<1>8. DataType' /\ BinInv'
  BY <1>6, <1>7 DEF RefreshStore, IndInv, DataType, BinInv
<1>9. BoundType' /\ ScanType' /\ ScanInv'
  <2>1. CASE x = Scan
    <3>1. loc'[Edit] = loc[Edit] /\ loc'[Scan] = l /\ l.pc = "walk"
      BY <1>1, <1>2, <1>3, <2>1 DEF Procs, Scan, Edit, IndInv, PlaceInv
    <3>2. ScanInv' /\ ScanType'
      BY <1>1, <2>1, <3>1 DEF RefreshStore, IndInv, ScanType, ScanInv, InPlace, Kept
    <3> QED
      BY <3>1, <3>2, BoundSame DEF RefreshStore
  <2>2. CASE x = Edit
    <3>1. loc'[Scan] = loc[Scan] /\ ~Writes'
      BY <1>1, <1>2, <1>3, <2>2 DEF Procs, Scan, Edit, Writes, IndInv, PlaceInv
    <3> QED
      BY <3>1, BoundStays, QuietStays DEF RefreshStore
  <2> QED
    BY <2>1, <2>2 DEF Procs
<1> QED
  BY <1>6, <1>7, <1>8, <1>9 DEF IndInv

----------------------------------------------------------------------------
(* The requests *)

\* What the request counts on, when it is at work
LEMMA EditAt ==
  ASSUME IndInv
  PROVE  /\ loc[Edit] \in Local /\ loc[Edit].pc \in EditPCs /\ loc[Edit].then \in {"idle", "override"}
         /\ loc[Edit].pc # "idle" => /\ loc[Edit].path \in Paths /\ loc[Edit].path \in AllPaths
                                     /\ loc[Edit].patch \in Patches
                                     /\ rows[loc[Edit].path] \in Row /\ disk[loc[Edit].path] \in File
BY DEF IndInv, DataType, PlaceInv, Procs, AllPaths

\* A step to record l that changes nothing else, or the rows only
LEMMA EditSteps ==
  ASSUME IndInv, NEW l \in Local, loc' = [loc EXCEPT ![Edit] = l],
         l.pc \in EditPCs, l.pc # "idle" => l.path \in Paths /\ l.patch \in Patches,
         l.then \in {"idle", "override"}, l.pc \in {"load", "remux"} => Writes,
         UNCHANGED <<type, disk, down, bin, scanVars, changes, edits>>,
         rows' \in [AllPaths -> Row] /\ RowInv'
  PROVE  IndInv'
<1>1. loc' \in [Procs -> Local] /\ PlaceInv' /\ loc'[Scan] = loc[Scan] /\ loc'[Edit] = l
  BY EditMoves
<1>2. DataType' /\ BinInv' /\ BoundType'
  BY <1>1, BoundStays DEF IndInv, DataType, BinInv, Writes
<1>3. ScanType' /\ ScanInv'
  BY <1>1, QuietStays
<1> QED
  BY <1>1, <1>2, <1>3 DEF IndInv

LEMMA EditMovesOn ==
  ASSUME IndInv, NEW l \in Local, loc' = [loc EXCEPT ![Edit] = l],
         l.pc \in EditPCs, l.pc # "idle" => l.path \in Paths /\ l.patch \in Patches,
         l.then \in {"idle", "override"}, l.pc \in {"load", "remux"} => Writes,
         UNCHANGED <<type, disk, down, bin, rows, scanVars, changes, edits>>
  PROVE  IndInv'
<1>1. rows' \in [AllPaths -> Row] /\ RowInv'
  BY DEF IndInv, DataType, RowInv
<1> QED
  BY <1>1, EditSteps

LEMMA EditReturns ==
  ASSUME IndInv, Return, UNCHANGED <<type, disk, down, bin, rows, scanVars, changes, edits>>
  PROVE  IndInv'
<1>1. Idle \in Local /\ Idle.pc = "idle" /\ Idle.then = "idle"
  BY Empty DEF Idle
<1> QED
  BY <1>1, EditMovesOn DEF Return, EditPCs

LEMMA Overrides == ASSUME IndInv, patchOverride PROVE IndInv'
<1> DEFINE e == loc[Edit]
           f == ApplyPatchFields(rows[e.path].override, e.patch.fields)
           l == [e EXCEPT !.pc = "override", !.override = f]
<1>1. e \in Local /\ e.path \in Paths /\ e.patch \in Patches /\ rows[e.path] \in Row
      /\ e.then \in {"idle", "override"}
  BY EditAt DEF patchOverride
<1>2. CASE ValidPatch(e.patch.fields)
  <2>1. f \in VideoFields
    BY <1>1, <1>2, PatchType DEF Row
  <2>2. loc' = [loc EXCEPT ![Edit] = l]
    BY <1>2 DEF patchOverride
  <2> HIDE DEF f
  <2>3. l \in Local /\ l.pc = "override" /\ l.path = e.path /\ l.patch = e.patch /\ l.then = e.then
    BY <1>1, <2>1 DEF Local, PCs
  <2> HIDE DEF l
  <2> QED
    BY <1>1, <2>2, <2>3, EditMovesOn DEF EditPCs, patchOverride
<1>3. CASE ~ValidPatch(e.patch.fields)
  BY <1>3, EditReturns DEF patchOverride
<1> QED
  BY <1>2, <1>3

LEMMA FileEdits == ASSUME IndInv, patchFile PROVE IndInv'
<1> DEFINE e == loc[Edit]
           f == ApplyPatchFields(rows[e.path].original, e.patch.fields)
           c == IF fileTagUpdates(e.patch.fields) = {} THEN "probe" ELSE "remux"
           l == [e EXCEPT !.pc = c, !.override = rows[e.path].override, !.original = f]
<1>1. e \in Local /\ e.path \in Paths /\ e.patch \in Patches /\ rows[e.path] \in Row
      /\ e.then \in {"idle", "override"} /\ e.pc = "load"
  BY EditAt DEF patchFile
<1>2. CASE ValidPatch(e.patch.fields) /\ InPlace(e.path)
  <2>1. f \in VideoFields
    BY <1>1, <1>2, PatchType DEF Row
  <2>2. loc' = [loc EXCEPT ![Edit] = l]
    BY <1>2 DEF patchFile
  <2>3. c \in {"probe", "remux"}
    OBVIOUS
  <2> HIDE DEF f, c
  <2>4. l \in Local /\ l.pc = c /\ l.path = e.path /\ l.patch = e.patch /\ l.then = e.then
    BY <1>1, <2>1, <2>3 DEF Local, PCs, Row
  <2>5. Writes
    BY <1>1 DEF Writes
  <2> HIDE DEF l
  <2> QED
    BY <1>1, <2>2, <2>3, <2>4, <2>5, EditMovesOn DEF EditPCs, patchFile
<1>3. CASE ~(ValidPatch(e.patch.fields) /\ InPlace(e.path))
  BY <1>3, EditReturns DEF patchFile
<1> QED
  BY <1>2, <1>3

LEMMA Probes == ASSUME IndInv, ProbeRewritten PROVE IndInv'
<1> DEFINE e == loc[Edit]
           l == [e EXCEPT !.pc = "original", !.original = disk[e.path].tags, !.stamp = disk[e.path].stamp]
<1>1. e \in Local /\ e.path \in Paths /\ e.patch \in Patches /\ disk[e.path] \in File
      /\ e.then \in {"idle", "override"}
  BY EditAt DEF ProbeRewritten
<1>2. CASE InPlace(e.path)
  <2>1. loc' = [loc EXCEPT ![Edit] = l]
    BY <1>2 DEF ProbeRewritten
  <2>2. l \in Local /\ l.pc = "original" /\ l.path = e.path /\ l.patch = e.patch /\ l.then = e.then
    BY <1>1 DEF Local, PCs, File
  <2> HIDE DEF l
  <2> QED
    BY <1>1, <2>1, <2>2, EditMovesOn DEF EditPCs, ProbeRewritten
<1>3. CASE ~InPlace(e.path)
  BY <1>3, EditReturns DEF ProbeRewritten
<1> QED
  BY <1>2, <1>3

LEMMA Persists == ASSUME IndInv, persistAfterFileWrite PROVE IndInv'
<1> DEFINE e == loc[Edit]
           f == ClearOverrideKeys(e.override, e.patch.fields)
           r == UpsertOriginal(rows[e.path], e.original, e.stamp)
           l == [e EXCEPT !.pc = "refresh", !.then = "override", !.override = f]
<1>1. e \in Local /\ e.path \in Paths /\ e.path \in AllPaths /\ e.patch \in Patches /\ rows[e.path] \in Row
      /\ rows \in [AllPaths -> Row]
  BY EditAt DEF persistAfterFileWrite, IndInv, DataType
<1>2. f \in VideoFields
  BY <1>1, PatchType DEF Local
<1>3. r \in Row /\ r.present
  BY <1>1, StoreType DEF Local
<1>4. rows' = [rows EXCEPT ![e.path] = r] /\ loc' = [loc EXCEPT ![Edit] = l]
  BY <1>1 DEF persistAfterFileWrite
<1> HIDE DEF f, r
<1>5. l \in Local /\ l.pc = "refresh" /\ l.path = e.path /\ l.patch = e.patch /\ l.then = "override"
  BY <1>1, <1>2 DEF Local, PCs
<1> HIDE DEF l
<1>6. rows' \in [AllPaths -> Row] /\ RowInv'
  BY <1>1, <1>3, <1>4, RowStored
<1> QED
  BY <1>1, <1>4, <1>5, <1>6, EditSteps DEF EditPCs, persistAfterFileWrite

LEMMA OverrideSaved == ASSUME IndInv, SaveOverride PROVE IndInv'
<1> DEFINE e == loc[Edit]
           r == UpdateOverride(rows[e.path], e.override, "user")
           l == [Idle EXCEPT !.pc = "refresh", !.path = e.path, !.patch = e.patch]
<1>1. e \in Local /\ e.path \in Paths /\ e.path \in AllPaths /\ e.patch \in Patches /\ rows[e.path] \in Row
      /\ rows \in [AllPaths -> Row]
  BY EditAt DEF SaveOverride, IndInv, DataType
<1>2. 0 \in Stamps
  BY IndexAssumption DEF Stamps
<1>3. r \in Row /\ r.present
  BY <1>1, <1>2, StoreType DEF Local
<1>4. rows' = [rows EXCEPT ![e.path] = r] /\ loc' = [loc EXCEPT ![Edit] = l]
  BY <1>1 DEF SaveOverride
<1>5. l \in Local /\ l.pc = "refresh" /\ l.path = e.path /\ l.patch = e.patch /\ l.then = "idle"
  BY <1>1, Empty DEF Local, PCs, Idle
<1> HIDE DEF r, l
<1>6. rows' \in [AllPaths -> Row] /\ RowInv'
  BY <1>1, <1>3, <1>4, RowStored
<1> QED
  BY <1>1, <1>4, <1>5, <1>6, EditSteps DEF EditPCs, SaveOverride

LEMMA TempWritten == ASSUME IndInv, WriteTemp PROVE IndInv'
<1> DEFINE e == loc[Edit]
           tags == [k \in Keys |-> IF k \in fileTagUpdates(e.patch.fields) THEN e.original[k]
                                   ELSE disk[e.path].tags[k]]
           f == [tags |-> tags, stamp |-> changes + 1]
           l == [e EXCEPT !.pc = "rename"]
<1>1. e \in Local /\ e.path \in Paths /\ e.patch \in Patches /\ disk[e.path] \in File
      /\ e.then \in {"idle", "override"} /\ e.pc = "remux"
  BY EditAt DEF WriteTemp
<1>2. UNCHANGED <<type, down, bin, rows, todo, indexed, list, frozen, blind, edits>> /\ Settle
  BY DEF WriteTemp
<1>3. CASE disk' = [disk EXCEPT ![Tmp] = f] /\ loc' = [loc EXCEPT ![Edit].pc = "rename"]
           /\ changes' = changes + 1
  <2>1. loc' = [loc EXCEPT ![Edit] = l]
    BY <1>3
  <2>2. l \in Local /\ l.pc = "rename" /\ l.path = e.path /\ l.patch = e.patch /\ l.then = e.then
    BY <1>1 DEF Local, PCs
  <2>3. tags \in VideoFields
    BY <1>1 DEF VideoFields, Local, File
  <2>4. changes \in Nat /\ edits \in 0..MaxEdits /\ changes < MaxChanges + edits
    BY <1>1 DEF IndInv, BoundType, Writes
  <2>5. changes + 1 \in Stamps
    BY <2>4, IndexAssumption DEF Stamps
  <2> HIDE DEF l, tags
  <2>6. disk' \in [AllPaths -> File]
    <3>1. f \in File
      BY <2>3, <2>5 DEF File
    <3> HIDE DEF f
    <3> QED
      BY <1>3, <3>1 DEF IndInv, DataType
  <2>7. loc' \in [Procs -> Local] /\ PlaceInv' /\ loc'[Scan] = loc[Scan] /\ loc'[Edit] = l
    BY <1>1, <2>1, <2>2, EditMoves DEF EditPCs
  <2>8. BoundType'
    BY <1>2, <1>3, <2>2, <2>4, <2>7, IndexAssumption DEF BoundType, Writes
  <2>9. DataType' /\ RowInv' /\ BinInv'
    BY <1>2, <2>6, <2>7 DEF IndInv, DataType, RowInv, BinInv
  <2>10. ScanType' /\ ScanInv'
    BY <1>2, <2>7, SettleStays
  <2> QED
    BY <2>7, <2>8, <2>9, <2>10 DEF IndInv
<1>4. CASE Return /\ UNCHANGED <<disk, changes>>
  <2>1. Idle \in Local /\ Idle.pc = "idle" /\ Idle.then = "idle"
    BY Empty DEF Idle
  <2>2. loc' \in [Procs -> Local] /\ PlaceInv' /\ loc'[Scan] = loc[Scan] /\ loc'[Edit] = Idle
    BY <1>4, <2>1, EditMoves DEF Return, EditPCs
  <2>3. BoundType'
    BY <1>2, <1>4, <2>1, <2>2, BoundStays DEF Writes
  <2>4. DataType' /\ RowInv' /\ BinInv'
    BY <1>2, <1>4, <2>2 DEF IndInv, DataType, RowInv, BinInv
  <2>5. ScanType' /\ ScanInv'
    BY <1>2, <2>2, SettleStays
  <2> QED
    BY <2>2, <2>3, <2>4, <2>5 DEF IndInv
<1> QED
  BY <1>3, <1>4 DEF WriteTemp

LEMMA TagsWritten == ASSUME IndInv, WriteFileTags PROVE IndInv'
<1> DEFINE e == loc[Edit]
           l == [e EXCEPT !.pc = "probe"]
<1>1. e \in Local /\ e.path \in Paths /\ e.patch \in Patches /\ e.then \in {"idle", "override"}
  BY EditAt DEF WriteFileTags, Goto
<1>2. /\ UNCHANGED <<type, down, bin, rows, todo, indexed, list, frozen, blind, changes, edits>> /\ Settle
      /\ disk' = [disk EXCEPT ![e.path] = disk[Tmp], ![Tmp] = NoFile]
      /\ loc' = [loc EXCEPT ![Edit] = l]
  BY DEF WriteFileTags, Goto
<1>3. l \in Local /\ l.pc = "probe" /\ l.path = e.path /\ l.patch = e.patch /\ l.then = e.then
  BY <1>1 DEF Local, PCs
<1> HIDE DEF l
<1>4. loc' \in [Procs -> Local] /\ PlaceInv' /\ loc'[Scan] = loc[Scan] /\ loc'[Edit] = l
  BY <1>1, <1>2, <1>3, EditMoves DEF EditPCs
<1>5. BoundType'
  BY <1>2, <1>3, <1>4, BoundStays DEF Writes
<1>6. disk' \in [AllPaths -> File]
  BY <1>2, Empty DEF IndInv, DataType, AllPaths
<1>7. DataType' /\ RowInv' /\ BinInv'
  BY <1>2, <1>4, <1>6 DEF IndInv, DataType, RowInv, BinInv
<1>8. ScanType' /\ ScanInv'
  BY <1>2, <1>4, SettleStays
<1> QED
  BY <1>4, <1>5, <1>7, <1>8 DEF IndInv

LEMMA EditBegins == ASSUME IndInv, NEW p \in Paths, NEW patch \in Patches, Patch(p, patch) PROVE IndInv'
<1> DEFINE l == [Idle EXCEPT !.pc = "load", !.path = p, !.patch = patch]
<1>1. l \in Local /\ l.pc = "load" /\ l.path = p /\ l.patch = patch /\ l.then = "idle"
  BY Empty DEF Local, PCs, Idle, AllPaths
<1>2. loc' = [loc EXCEPT ![Edit] = l]
  BY DEF Patch
<1> HIDE DEF l
<1>3. loc' \in [Procs -> Local] /\ PlaceInv' /\ loc'[Scan] = loc[Scan] /\ loc'[Edit] = l
  BY <1>1, <1>2, EditMoves DEF EditPCs
<1>4. BoundType'
  BY IndexAssumption DEF Patch, IndInv, BoundType
<1>5. DataType' /\ RowInv' /\ BinInv'
  BY <1>3 DEF Patch, IndInv, DataType, RowInv, BinInv
<1>6. ScanType' /\ ScanInv'
  BY <1>3, QuietStays DEF Patch
<1> QED
  BY <1>3, <1>4, <1>5, <1>6 DEF IndInv

LEMMA LibraryUpdated == ASSUME IndInv, NEW t \in Types, UpdateLibrary(t) PROVE IndInv'
<1>1. BoundType'
  BY IndexAssumption DEF UpdateLibrary, IndInv, BoundType, Writes
<1>2. DataType' /\ RowInv' /\ BinInv' /\ PlaceInv'
  BY DEF UpdateLibrary, IndInv, DataType, RowInv, BinInv, PlaceInv
<1>3. ScanType' /\ ScanInv'
  BY QuietStays DEF UpdateLibrary
<1> QED
  BY <1>1, <1>2, <1>3 DEF IndInv

----------------------------------------------------------------------------
(* Files, and the recycle bin *)

\* After a change of the disk there may be one file more, and its stamp is a new one.
LEMMA OneChange ==
  ASSUME IndInv, Change, UNCHANGED <<edits, loc>>
  PROVE  BoundType' /\ changes' \in Stamps /\ changes' # 0
BY IndexAssumption DEF IndInv, BoundType, Change, Stamps, Writes

LEMMA FileReplaced ==
  ASSUME IndInv, NEW p \in Paths, NEW tags \in FileTags, ReplaceFile(p, tags) PROVE IndInv'
<1> DEFINE f == [tags |-> tags, stamp |-> changes']
<1>1. BoundType' /\ changes' \in Stamps /\ changes' # 0
  BY OneChange DEF ReplaceFile
<1>2. f \in File /\ f # NoFile
  BY <1>1, IndexInputs DEF File, NoFile
<1>3. disk' = [disk EXCEPT ![p] = f] /\ UNCHANGED <<type, down, bin, rows, loc, scanVars>>
  BY DEF ReplaceFile
<1> HIDE DEF f
<1>4. DataType' /\ RowInv' /\ BinInv' /\ PlaceInv'
  BY <1>2, <1>3 DEF IndInv, DataType, RowInv, BinInv, PlaceInv
<1>5. /\ \A q \in placed' : disk'[q] # NoFile
      /\ \A q \in kept' : bin'[q].at \in KeptAt
  BY <1>2, <1>3 DEF IndInv, DataType, ScanType, ScanInv, InPlace, Kept
<1>6. ScanType' /\ ScanInv'
  BY <1>3, <1>5, ScanStays
<1> QED
  BY <1>1, <1>4, <1>6 DEF IndInv

LEMMA FileRemoved == ASSUME IndInv, NEW p \in Paths, RemoveFile(p) PROVE IndInv'
<1>1. BoundType'
  BY OneChange DEF RemoveFile
<1>2. DataType' /\ RowInv' /\ BinInv' /\ PlaceInv'
  BY Empty DEF RemoveFile, IndInv, DataType, RowInv, BinInv, PlaceInv
<1>3. ScanType' /\ ScanInv'
  BY SettleStays DEF RemoveFile
<1> QED
  BY <1>1, <1>2, <1>3 DEF IndInv

LEMMA RootMoves == ASSUME IndInv, NEW r \in Roots, Unmount(r) \/ Mount(r) PROVE IndInv'
<1>1. UNCHANGED <<type, disk, bin, rows, loc, scanVars, changes, edits>> /\ down' \subseteq Roots
  BY DEF Unmount, Mount, IndInv, DataType
<1>2. DataType' /\ RowInv' /\ BinInv' /\ PlaceInv' /\ BoundType'
  BY <1>1, BoundSame DEF IndInv, DataType, RowInv, BinInv, PlaceInv
<1>3. ScanType' /\ ScanInv'
  BY <1>1, QuietStays
<1> QED
  BY <1>2, <1>3 DEF IndInv

\* A step of the recycle bin: the file that it holds then, the one in the place, and the row
LEMMA BinSteps ==
  ASSUME IndInv, NEW p \in Paths, NEW from, NEW to \in Places, NEW f \in File, NEW place \in File,
         NEW row \in Row, row = rows[p] \/ row = NoRow,
         f # NoFile <=> to \in {"moved", "in", "cleaned"},
         BinStep(p, from, to, f, place, row), UNCHANGED changes \/ Change
  PROVE  IndInv'
<1>1. p \in AllPaths
  BY DEF AllPaths
<1>2. BoundType'
  BY OneChange, BoundSame DEF BinStep
<1>3. row.present \/ row = NoRow
  BY <1>1 DEF IndInv, RowInv
<1>4. rows' \in [AllPaths -> Row] /\ RowInv'
  BY <1>1, <1>3, RowStored DEF BinStep
<1>5. DataType' /\ PlaceInv'
  BY <1>1, <1>4 DEF BinStep, IndInv, DataType, PlaceInv
<1>6. BinInv'
  BY <1>1 DEF BinStep, IndInv, DataType, BinInv
<1>7. ScanType' /\ ScanInv'
  BY SettleStays DEF BinStep
<1> QED
  BY <1>2, <1>4, <1>5, <1>6, <1>7 DEF IndInv

LEMMA BinMoves ==
  ASSUME IndInv, NEW p \in Paths,
         \/ TrashStep(p)
         \/ MoveToTrash(p) \/ RestoreFromTrash(p) \/ DeleteForPath(p)
  PROVE  IndInv'
<1>1. /\ p \in AllPaths /\ disk[p] \in File /\ rows[p] \in Row /\ bin[p].file \in File
      /\ NoFile \in File /\ NoRow \in Row
      /\ bin[p].file # NoFile <=> bin[p].at \in {"moved", "in", "cleaned"}
  BY Empty DEF IndInv, DataType, BinInv, AllPaths
<1> USE DEF Places, KeptAt
<1>2. CASE InsertTrashRow(p)
  <2>1. BinStep(p, "moved", "in", bin[p].file, disk[p], rows[p])
    BY <1>2 DEF InsertTrashRow
  <2>2. bin[p].file # NoFile
    BY <1>1, <2>1 DEF BinStep
  <2> QED
    BY <1>1, <1>2, <2>1, <2>2, BinSteps DEF InsertTrashRow
<1>3. CASE DeleteTrashRow(p)
  <2>1. CASE BinStep(p, "restored", "none", NoFile, disk[p], rows[p])
    BY <1>1, <1>3, <2>1, BinSteps DEF DeleteTrashRow
  <2>2. CASE BinStep(p, "wiped", "none", NoFile, disk[p], rows[p])
    BY <1>1, <1>3, <2>2, BinSteps DEF DeleteTrashRow
  <2> QED
    BY <1>3, <2>1, <2>2 DEF DeleteTrashRow
<1>4. CASE RemoveTrashItem(p)
  BY <1>1, <1>4, BinSteps DEF RemoveTrashItem
<1>5. CASE MoveToTrash(p)
  BY <1>1, <1>5, BinSteps DEF MoveToTrash, InPlace
<1>6. CASE RestoreFromTrash(p)
  BY <1>1, <1>6, BinSteps DEF RestoreFromTrash
<1>7. CASE DeleteForPath(p)
  <2>1. BinStep(p, "in", "cleaned", bin[p].file, disk[p], NoRow)
    BY <1>7 DEF DeleteForPath
  <2>2. bin[p].file # NoFile
    BY <1>1, <2>1 DEF BinStep
  <2> QED
    BY <1>1, <1>7, <2>1, <2>2, BinSteps DEF DeleteForPath
<1> QED
  BY <1>2, <1>3, <1>4, <1>5, <1>6, <1>7 DEF TrashStep

----------------------------------------------------------------------------
(* Every step *)

LEMMA ScanStepKeeps == ASSUME IndInv, ScanStep PROVE IndInv'
<1>1. CASE \E r \in Roots : indexRootFails(r)
  BY <1>1, RootFails
<1>2. CASE \E p \in AllPaths : indexRoot(p)
  BY <1>2, IndexRoot
<1>3. CASE ScanUpsert
  BY <1>3, ScanUpserts
<1>4. CASE RefreshGet(Scan) \/ RefreshStore(Scan)
  BY <1>4, RefreshGets, RefreshStores DEF Procs
<1>5. CASE deleteStalePaths
  BY <1>5, StaleListed
<1>6. CASE OriginalPrefixes
  BY <1>6, Prefixes
<1>7. CASE DeleteStale
  BY <1>7, StaleDeleted
<1>8. CASE ScanDone
  BY <1>8, ScanEnds DEF ScanDone
<1> QED
  BY <1>1, <1>2, <1>3, <1>4, <1>5, <1>6, <1>7, <1>8 DEF ScanStep

LEMMA EditStepKeeps == ASSUME IndInv, EditStep PROVE IndInv'
<1>1. CASE patchOverride
  BY <1>1, Overrides
<1>2. CASE patchFile
  BY <1>2, FileEdits
<1>3. CASE WriteTemp
  BY <1>3, TempWritten
<1>4. CASE WriteFileTags
  BY <1>4, TagsWritten
<1>5. CASE ProbeRewritten
  BY <1>5, Probes
<1>6. CASE persistAfterFileWrite
  BY <1>6, Persists
<1>7. CASE SaveOverride
  BY <1>7, OverrideSaved
<1>8. CASE RefreshGet(Edit) \/ RefreshStore(Edit)
  BY <1>8, RefreshGets, RefreshStores DEF Procs
<1>9. CASE PatchDone
  BY <1>9, EditReturns DEF PatchDone
<1> QED
  BY <1>1, <1>2, <1>3, <1>4, <1>5, <1>6, <1>7, <1>8, <1>9 DEF EditStep

LEMMA EnvironmentKeeps == ASSUME IndInv, Environment PROVE IndInv'
<1>1. ASSUME NEW p \in Paths, NEW tags \in FileTags, ReplaceFile(p, tags) PROVE IndInv'
  BY <1>1, FileReplaced
<1>2. ASSUME NEW p \in Paths, RemoveFile(p) PROVE IndInv'
  BY <1>2, FileRemoved
<1>3. ASSUME NEW p \in Paths, MoveToTrash(p) \/ RestoreFromTrash(p) \/ DeleteForPath(p) PROVE IndInv'
  BY <1>3, BinMoves
<1>4. ASSUME NEW p \in Paths, NEW patch \in Patches, Patch(p, patch) PROVE IndInv'
  BY <1>4, EditBegins
<1>5. ASSUME NEW t \in Types, UpdateLibrary(t) PROVE IndInv'
  BY <1>5, LibraryUpdated
<1>6. ASSUME NEW r \in Roots, Unmount(r) PROVE IndInv'
  BY <1>6, RootMoves
<1> QED
  BY <1>1, <1>2, <1>3, <1>4, <1>5, <1>6 DEF Environment

LEMMA Steps == IndInv /\ [Next]_vars => IndInv'
<1> SUFFICES ASSUME IndInv, [Next]_vars PROVE IndInv'
  OBVIOUS
<1>1. CASE indexLibrary
  BY <1>1, IndexLibrary
<1>2. CASE ScanStep
  BY <1>2, ScanStepKeeps
<1>3. CASE EditStep
  BY <1>3, EditStepKeeps
<1>4. CASE \E p \in Paths : TrashStep(p)
  BY <1>4, BinMoves
<1>5. CASE \E r \in Roots : Mount(r)
  BY <1>5, RootMoves
<1>6. CASE Environment
  BY <1>6, EnvironmentKeeps
<1>7. CASE ScanCancelled
  BY <1>7, ScanEnds DEF ScanCancelled
<1>8. CASE UNCHANGED vars
  <2>1. DataType' /\ RowInv' /\ BinInv' /\ PlaceInv'
    BY <1>8 DEF IndInv, DataType, RowInv, BinInv, PlaceInv
  <2>2. BoundType' /\ ScanType' /\ ScanInv'
    BY <1>8, BoundSame, QuietStays
  <2> QED
    BY <2>1, <2>2 DEF IndInv
<1> QED
  BY <1>1, <1>2, <1>3, <1>4, <1>5, <1>6, <1>7, <1>8 DEF Next

\* Rows, files, bin and the two goroutines fit together in every reachable state: what the scan
\* must not delete was met by it, is still to be met, or is in the prefixes it has read.
THEOREM Inductive == Spec => []IndInv
BY Initially, Steps, PTL DEF Spec

\* In every reachable state a path without a row has nothing left of one, and the recycle bin
\* holds a file of a path exactly between the rename in and the rename out or the removal.
THEOREM TypeCorrect == Spec => []TypeOK
<1>1. IndInv => TypeOK
  BY DEF IndInv, DataType, ScanType, PlaceInv, RowInv, BinInv, TypeOK, File, Row, Local, Procs
<1> QED
  BY <1>1, Inductive, PTL

----------------------------------------------------------------------------
(* Edits *)

\* DeleteStale alone takes an override away without the request or the recycle bin.
LEMMA OnlyStaleLost ==
  ASSUME IndInv, [Next]_vars, loc'[Edit] = loc[Edit], bin' = bin,
         NEW p \in AllPaths, rows'[p].override # rows[p].override
  PROVE  p \in Stale /\ loc[Scan].pc = "prune" /\ UNCHANGED <<placed, kept, blind>>
<1>1. rows \in [AllPaths -> Row] /\ loc \in [Procs -> Local] /\ PlaceInv /\ bin \in [AllPaths -> [at : Places, file : File]]
  BY DEF IndInv, DataType
<1>2. rows' # rows
  OBVIOUS
<1>3. CASE ScanStep
  <2>1. CASE ScanUpsert
    <3> DEFINE x == loc[Scan]
               r == UpsertOriginal(rows[x.path], x.original, x.stamp)
    <3>1. x.path \in AllPaths /\ x \in Local /\ rows[x.path] \in Row
      BY <1>1, <2>1 DEF ScanUpsert, PlaceInv, Procs
    <3>2. rows' = [rows EXCEPT ![x.path] = r]
      BY <1>1, <2>1, <3>1 DEF ScanUpsert
    <3>3. r.override = rows[x.path].override
      <4>1. x.original \in VideoFields /\ x.stamp \in Stamps
        BY <3>1 DEF Local
      <4>2. r.override = rows[x.path].override
        BY ONLY <3>1, <4>1, StoreType
      <4> QED
        BY <4>2
    <3> HIDE DEF r
    <3> QED
      BY <1>1, <3>1, <3>2, <3>3
  <2>2. CASE RefreshStore(Scan)
    <3> DEFINE q == loc[Scan].path
    <3>1. q \in AllPaths
      BY <1>1, <2>2 DEF RefreshStore, PlaceInv
    <3>2. rows'[p].override = rows[p].override
      BY <1>1, <2>2, <3>1 DEF RefreshStore, Row
    <3> QED
      BY <3>2
  <2>3. CASE DeleteStale
    BY <1>1, <2>3 DEF DeleteStale
  <2>4. CASE \/ \E r \in Roots : indexRootFails(r)
             \/ \E q \in AllPaths : indexRoot(q)
             \/ RefreshGet(Scan) \/ deleteStalePaths \/ OriginalPrefixes \/ ScanDone
    BY <1>2, <2>4 DEF indexRootFails, indexRoot, RefreshGet, deleteStalePaths, OriginalPrefixes, ScanDone
  <2> QED
    BY <1>3, <2>1, <2>2, <2>3, <2>4 DEF ScanStep
<1>4. CASE EditStep
  <2>1. CASE persistAfterFileWrite
    <3>1. loc'[Edit].pc = "refresh" /\ loc[Edit].pc = "original"
      BY <1>1, <2>1, EditAt DEF persistAfterFileWrite, Procs, Local
    <3> QED
      BY <3>1
  <2>2. CASE SaveOverride
    <3>1. loc'[Edit].pc = "refresh" /\ loc[Edit].pc = "override"
      BY <1>1, <2>2 DEF SaveOverride, Procs, Idle
    <3> QED
      BY <3>1
  <2>3. CASE RefreshStore(Edit)
    <3> DEFINE q == loc[Edit].path
    <3>1. q \in AllPaths
      BY <2>3, EditAt DEF RefreshStore
    <3>2. rows'[p].override = rows[p].override
      BY <1>1, <2>3, <3>1 DEF RefreshStore, Row
    <3> QED
      BY <3>2
  <2>4. CASE \/ patchOverride \/ patchFile \/ WriteTemp \/ WriteFileTags \/ ProbeRewritten
             \/ RefreshGet(Edit) \/ PatchDone
    BY <1>2, <2>4 DEF patchOverride, patchFile, WriteTemp, WriteFileTags, ProbeRewritten, RefreshGet,
                      PatchDone
  <2> QED
    BY <1>4, <2>1, <2>2, <2>3, <2>4 DEF EditStep
<1>5. ASSUME NEW q \in Paths, NEW from, NEW to, NEW f, NEW place, NEW row,
             BinStep(q, from, to, f, place, row), row = rows[q]
      PROVE  FALSE
  BY <1>1, <1>2, <1>5 DEF BinStep, AllPaths
<1>6. CASE \E q \in Paths : TrashStep(q)
  BY <1>5, <1>6 DEF TrashStep, InsertTrashRow, DeleteTrashRow, RemoveTrashItem
<1>7. CASE Environment
  <2>1. ASSUME NEW q \in Paths, DeleteForPath(q)
        PROVE  FALSE
    <3>1. bin[q].at = "in" /\ bin'[q].at = "cleaned"
      BY <1>1, <2>1 DEF DeleteForPath, BinStep, AllPaths
    <3> QED
      BY <3>1
  <2>2. ASSUME NEW q \in Paths, MoveToTrash(q) \/ RestoreFromTrash(q)
        PROVE  FALSE
    BY <1>5, <2>2 DEF MoveToTrash, RestoreFromTrash
  <2> QED
    BY <1>2, <1>7, <2>1, <2>2 DEF Environment, ReplaceFile, RemoveFile, Patch, UpdateLibrary, Unmount
<1>8. CASE indexLibrary \/ (\E r \in Roots : Mount(r)) \/ ScanCancelled \/ UNCHANGED vars
  BY <1>2, <1>8 DEF indexLibrary, Mount, ScanCancelled
<1> QED
  BY <1>3, <1>4, <1>6, <1>7, <1>8 DEF Next

\* A scan never loses an administrator's edit of a file that stayed in its place, or in the
\* recycle bin, while the scan ran, unless a root or the bin's prefixes could not be read.
THEOREM ScansKeepEdits == Spec => ScanKeepsEdits
<1> DEFINE Keeps ==
      \A p \in AllPaths :
        rows'[p].override # rows[p].override /\ loc'[Edit] = loc[Edit] /\ bin' = bin
          => p \notin placed \cup kept \/ blind
<1>1. IndInv /\ [Next]_vars => [Keeps]_vars
  <2> SUFFICES ASSUME IndInv, [Next]_vars, NEW p \in AllPaths,
                      rows'[p].override # rows[p].override, loc'[Edit] = loc[Edit], bin' = bin
               PROVE  p \notin placed \cup kept \/ blind
    OBVIOUS
  <2>1. p \in Stale /\ loc[Scan].pc = "prune"
    BY OnlyStaleLost
  <2>2. ~blind => placed \subseteq indexed /\ kept \subseteq frozen
    BY <2>1 DEF IndInv, ScanInv
  <2> QED
    BY <2>1, <2>2 DEF Stale
<1>2. Spec => [][Keeps]_vars
  BY <1>1, Inductive, PTL DEF Spec
<1> QED
  BY <1>2 DEF ScanKeepsEdits

USE DEF taskVars, stored, metaVars, fetchVars

----------------------------------------------------------------------------
(* Enrichment: what a metadata task knows of the rows it has read *)

Film == "film" \in uses
TaskFields == {"pc", "set", "units", "todo", "rest", "path", "current", "match", "fields", "next", "then"}

\* An edit of the row that the task may not replace
Allowed(p) == media[p].by = "user" => meta.set.allow

\* The task has read the row of p as it is, unless an edit was stored since.
Seen(p, current) == p \in Videos \ raced => Allowed(p) /\ current = Effective(p)

\* What it will write leaves alone what the row shows.
Spares(p, fields) ==
  p \in Videos \ raced =>
    /\ Allowed(p)
    /\ meta.set.mode = "fill_missing" =>
         \A k \in EditableFieldKeys : IsSet(Effective(p)[k]) => ~IsSet(fields[k])

\* The same of the row that it has made.
NewOriginal(p) == IF meta.next.original = <<>> THEN media[p].original ELSE meta.next.original[1]
Leaves(p) ==
  p \in Videos \ raced =>
    /\ Allowed(p)
    /\ meta.set.mode = "fill_missing" =>
         \A k \in EditableFieldKeys : IsSet(Effective(p)[k]) =>
           EffectiveFields(Type, Inferred(p), NewOriginal(p), meta.next.override)[k] = Effective(p)[k]

\* Of films, each is a unit, and the task looks at one at a time.
OneFilm ==
  \E p \in Nat :
    /\ meta.todo \subseteq {p} /\ meta.rest \subseteq {p}
    /\ meta.rest # {} => meta.todo = {}
    /\ meta.pc = "hash" => meta.path = p /\ meta.todo = {} /\ meta.rest = {}

FilmInv ==
  Film =>
    /\ \A u \in meta.units : \E p \in Nat : u = {p}
    /\ meta.pc \notin {"episodes", "reget"}
    /\ OneFilm
    /\ meta.pc = "unit" => meta.rest = {}
    /\ meta.pc = "match" => meta.rest # {}
    /\ meta.pc \in {"get", "match"} => \A p \in meta.rest : Seen(p, meta.current)
    /\ meta.pc \in {"apply", "store"} => meta.rest = {} /\ meta.then = "get"

TaskInv ==
  /\ DOMAIN media = Videos /\ DOMAIN meta = TaskFields /\ videos \subseteq Videos
  /\ meta.pc \in {"apply", "store"} => meta.then \in {"get", "reget"}
  /\ meta.pc = "hash" => Seen(meta.path, meta.current)
  /\ meta.pc = "apply" => Spares(meta.path, meta.fields)
  /\ meta.pc = "store" => Leaves(meta.path)
  /\ FilmInv

----------------------------------------------------------------------------
(* Fields *)

\* A field that is shown depends on no other field.
LEMMA FieldAlone ==
  ASSUME NEW t, NEW i, NEW o1, NEW v1, NEW o2, NEW v2, NEW k \in Keys, o1[k] = o2[k], v1[k] = v2[k]
  PROVE  EffectiveFields(t, i, o1, v1)[k] = EffectiveFields(t, i, o2, v2)[k]
<1>1. applyOverride(o1, v1)[k] = applyOverride(o2, v2)[k]
  BY DEF applyOverride
<1> QED
  BY <1>1 DEF EffectiveFields, applyPathHeuristics, applyOverride

LEMMA FillSpares ==
  ASSUME NEW f, NEW e, NEW k \in Keys, IsSet(e[k])
  PROVE  ~IsSet(fillMissingOnly(f, e)[k])
BY DEF fillMissingOnly, IsSet

\* A patch of a provider's fields changes no field that they lack.
LEMMA PatchSpares ==
  ASSUME NEW f, NEW v, NEW k \in EditableFieldKeys, ~IsSet(f[k])
  PROVE  LET patch == providerPatchFields(f) IN
         /\ k \notin DOMAIN patch /\ k \notin fileTagUpdates(patch)
         /\ ApplyPatchFields(v, patch)[k] = v[k]
         /\ ClearOverrideKeys(v, patch)[k] = v[k]
<1> DEFINE patch == providerPatchFields(f)
<1>1. k \in Keys
  BY DEF EditableFieldKeys
<1>2. k \notin DOMAIN patch
  BY DEF providerPatchFields
<1> HIDE DEF patch
<1>3. k \notin fileTagUpdates(patch)
  BY <1>2 DEF fileTagUpdates
<1>4. ApplyPatchFields(v, patch)[k] = v[k]
  BY <1>1, <1>2 DEF ApplyPatchFields, clearField
<1>5. ClearOverrideKeys(v, patch)[k] = v[k]
  BY <1>1, <1>2 DEF ClearOverrideKeys, clearField
<1> QED
  BY <1>2, <1>3, <1>4, <1>5 DEF patch

LEMMA MinOfOne == \A p \in Nat : Min({p}) = p
BY DEF Min

----------------------------------------------------------------------------
(* Steps *)

Same == UNCHANGED <<uses, media, meta, raced>>

\* What is beside the task does not concern it.
LEMMA Beside ==
  ASSUME TaskInv, Same, videos' \subseteq Videos
  PROVE  TaskInv'
<1>1. \A p : /\ Effective(p)' = Effective(p)
             /\ Allowed(p)' = Allowed(p)
  BY DEF Same, Effective, Type, Allowed
<1>2. /\ \A p, c : Seen(p, c)' = Seen(p, c)
      /\ \A p, f : Spares(p, f)' = Spares(p, f)
      /\ \A p : Leaves(p)' = Leaves(p)
  BY <1>1 DEF Same, Seen, Spares, Leaves, NewOriginal, Type
<1> QED
  BY <1>1, <1>2 DEF TaskInv, FilmInv, OneFilm, Film, Same

\* A task that is over, or at the next unit, has nothing in hand.
LEMMA AtUnit ==
  ASSUME TaskInv, UNCHANGED <<uses, videos>>, DOMAIN media' = Videos, NEW units,
         Film => \A u \in units : \E p \in Nat : u = {p},
         DOMAIN meta' = TaskFields, meta'.pc \in {"idle", "unit"}, meta'.units = units,
         meta'.todo = {}, meta'.rest = {}
  PROVE  TaskInv'
<1>1. Film' = Film
  BY DEF Film
<1>2. OneFilm'
  BY DEF OneFilm
<1> QED
  BY <1>1, <1>2 DEF TaskInv, FilmInv

LEMMA NoTaskFields ==
  /\ DOMAIN NoTask = TaskFields /\ NoTask.pc = "idle" /\ NoTask.units = {} /\ NoTask.todo = {}
  /\ NoTask.rest = {}
BY DEF NoTask, TaskFields

LEMMA Ended == ASSUME TaskInv, UNCHANGED <<uses, videos, media>>, meta' = NoTask PROVE TaskInv'
<1>1. DOMAIN media' = Videos
  BY DEF TaskInv
<1> QED
  BY <1>1, NoTaskFields, AtUnit

LEMMA Skipped == ASSUME TaskInv, UNCHANGED <<uses, videos, media>>, meta' = NextUnit(meta) PROVE TaskInv'
<1>1. DOMAIN media' = Videos /\ (Film => \A u \in meta.units : \E p \in Nat : u = {p})
  BY DEF TaskInv, FilmInv
<1>2. /\ DOMAIN meta' = TaskFields /\ meta'.pc = "unit" /\ meta'.units = meta.units
      /\ meta'.todo = {} /\ meta'.rest = {}
  BY DEF NextUnit, NoTask, TaskFields
<1> QED
  BY <1>1, <1>2, AtUnit

LEMMA Enriches == ASSUME TaskInv, Enrich PROVE TaskInv'
<1> DEFINE units == IF Type = "film" THEN {{p} : p \in videos} ELSE groupShows
<1>1. /\ DOMAIN meta' = TaskFields /\ meta'.pc = "unit" /\ meta'.units = units
      /\ meta'.todo = {} /\ meta'.rest = {}
  BY DEF Enrich, NoTask, TaskFields
<1>2. Film => \A u \in units : \E p \in Nat : u = {p}
  BY EnrichmentAssumption DEF Film, Type, TaskInv
<1>3. DOMAIN media' = Videos /\ UNCHANGED <<uses, videos>>
  BY DEF Enrich, MetaFrame, TaskInv
<1> HIDE DEF units
<1> QED
  BY <1>1, <1>2, <1>3, AtUnit

LEMMA Runs == ASSUME TaskInv, runMetadata PROVE TaskInv'
<1>1. UNCHANGED <<uses, videos, media>>
  BY DEF runMetadata, MetaFrame
<1>2. CASE EndMeta
  BY <1>1, <1>2, Ended DEF EndMeta
<1>3. ASSUME NEW u \in meta.units,
             meta' = [meta EXCEPT !.pc = "get", !.units = @ \ {u}, !.todo = u], meta.pc = "unit"
      PROVE  TaskInv'
  <2>1. /\ DOMAIN meta' = TaskFields /\ meta'.pc = "get" /\ meta'.units = meta.units \ {u}
        /\ meta'.todo = u /\ meta'.rest = meta.rest
    BY <1>3 DEF TaskInv, TaskFields
  <2>2. Film => meta'.rest = {} /\ (\E p \in Nat : u = {p}) /\ \A v \in meta'.units : \E p \in Nat : v = {p}
    BY <1>3, <2>1 DEF TaskInv, FilmInv
  <2>3. Film => OneFilm'
    BY <2>1, <2>2 DEF OneFilm
  <2>4. Film' = Film
    BY <1>1 DEF Film
  <2>5. FilmInv'
    BY <2>1, <2>2, <2>3, <2>4 DEF FilmInv
  <2> QED
    BY <1>1, <2>1, <2>5 DEF TaskInv
<1> QED
  BY <1>2, <1>3 DEF runMetadata

LEMMA FieldsToWrite ==
  ASSUME NEW m, NEW p, NEW fields, NEW current, NEW then, DOMAIN m = TaskFields, then # "apply"
  PROVE  LET r == writeFields(m, p, fields, current, then) IN
         /\ DOMAIN r = TaskFields /\ r.set = m.set /\ r.units = m.units /\ r.todo = m.todo /\ r.rest = m.rest
         /\ r.pc \in {then, "apply"}
         /\ r.pc = "apply" =>
              /\ r.path = p /\ r.then = then
              /\ m.set.mode = "fill_missing" => \A k \in Keys : IsSet(current[k]) => ~IsSet(r.fields[k])
<1> DEFINE f == IF m.set.mode = "full_rewrite" THEN fields ELSE fillMissingOnly(fields, current)
           next == [m EXCEPT !.pc = then, !.path = 0, !.current = NoFields]
           more == [next EXCEPT !.pc = "apply", !.path = p, !.fields = f, !.then = then]
           r == writeFields(m, p, fields, current, then)
<1>1. m.set.mode = "fill_missing" => \A k \in Keys : IsSet(current[k]) => ~IsSet(f[k])
  BY FillSpares
<1>2. r = IF providerFieldsEmpty(f) THEN next ELSE more
  BY DEF writeFields
<1> HIDE DEF r, f
<1>3. /\ DOMAIN next = TaskFields /\ next.set = m.set /\ next.units = m.units /\ next.todo = m.todo
      /\ next.rest = m.rest /\ next.pc = then
  BY DEF TaskFields
<1>4. /\ DOMAIN more = TaskFields /\ more.set = m.set /\ more.units = m.units /\ more.todo = m.todo
      /\ more.rest = m.rest /\ more.pc = "apply" /\ more.path = p /\ more.then = then /\ more.fields = f
  BY <1>3 DEF TaskFields
<1> HIDE DEF next, more
<1>5. /\ DOMAIN r = TaskFields /\ r.set = m.set /\ r.units = m.units /\ r.todo = m.todo /\ r.rest = m.rest
      /\ r.pc \in {then, "apply"}
      /\ r.pc = "apply" => r.path = p /\ r.then = then /\ r.fields = f
  BY <1>2, <1>3, <1>4
<1> QED
  BY <1>1, <1>5 DEF r

\* Fields go on their way when the row they were weighed against is the one that was read.
LEMMA Weighed ==
  ASSUME TaskInv, UNCHANGED <<uses, videos, media>>, NEW m, NEW p, NEW fields, NEW current, NEW then,
         meta' = writeFields(m, p, fields, current, then), then \in {"get", "reget"},
         DOMAIN m = TaskFields, m.set = meta.set,
         p \in Videos \ raced' => Allowed(p) /\ current = Effective(p),
         Film => /\ then = "get" /\ m.todo = {} /\ m.rest = {}
                 /\ \A u \in m.units : \E q \in Nat : u = {q}
  PROVE  TaskInv'
<1>1. /\ DOMAIN meta' = TaskFields /\ meta'.set = meta.set /\ meta'.units = m.units
      /\ meta'.todo = m.todo /\ meta'.rest = m.rest
      /\ meta'.pc \in {then, "apply"}
      /\ meta'.pc = "apply" =>
           /\ meta'.path = p /\ meta'.then = then
           /\ meta.set.mode = "fill_missing" =>
                \A k \in Keys : IsSet(current[k]) => ~IsSet(meta'.fields[k])
  BY FieldsToWrite
<1>2. \A q : Allowed(q)' = Allowed(q) /\ Effective(q)' = Effective(q)
  BY <1>1 DEF Allowed, Effective, Type
<1>3. meta'.pc = "apply" => Spares(meta.path, meta.fields)'
  <2> SUFFICES ASSUME meta'.pc = "apply", p \in Videos \ raced'
               PROVE  /\ Allowed(p)
                      /\ meta.set.mode = "fill_missing" =>
                           \A k \in EditableFieldKeys : IsSet(Effective(p)[k]) => ~IsSet(meta'.fields[k])
    BY <1>1, <1>2 DEF Spares
  <2> QED
    BY <1>1 DEF EditableFieldKeys
<1>4. Film' = Film
  BY DEF Film
<1>5. Film => OneFilm'
  BY <1>1 DEF OneFilm
<1>6. FilmInv'
  BY <1>1, <1>4, <1>5 DEF FilmInv
<1> QED
  BY <1>1, <1>3, <1>6 DEF TaskInv

\* The task looks at a row, or leaves it for later.
LEMMA Reads == ASSUME TaskInv, meta.pc = "get", meta.todo # {}, NEW p, p = Min(meta.todo), ReadRow(p),
                      UNCHANGED <<uses, videos, media>>
               PROVE  TaskInv'
<1> DEFINE m == [meta EXCEPT !.todo = @ \ {p}]
<1>1. /\ DOMAIN m = TaskFields /\ m.pc = "get" /\ m.set = meta.set /\ m.units = meta.units
      /\ m.todo = meta.todo \ {p} /\ m.rest = meta.rest /\ m.current = meta.current
  BY DEF TaskInv, TaskFields
<1> HIDE DEF m
<1>2. Film' = Film /\ \A q : Effective(q)' = Effective(q)
  BY DEF Film, Effective, Type
<1>3. Film => meta.todo = {p} /\ p \in Nat /\ meta.rest = {} /\ \A u \in meta.units : \E q \in Nat : u = {q}
  BY MinOfOne DEF TaskInv, FilmInv, OneFilm
<1>4. CASE meta' = m
  <2>1. FilmInv'
    <3>1. Film => OneFilm'
      BY <1>1, <1>3, <1>4 DEF OneFilm
    <3> QED
      BY <1>1, <1>2, <1>3, <1>4, <3>1 DEF FilmInv
  <2> QED
    BY <1>1, <1>4, <2>1 DEF TaskInv
<1>5. ASSUME ~skipUserEdited(p), raced' = raced \ {p},
             meta' = IF m.set.metadata \in Hashers /\ IsSet(Field(Effective(p), "ed2k_hash"))
                     THEN [m EXCEPT !.pc = "hash", !.path = p, !.current = Effective(p)]
                     ELSE [m EXCEPT !.rest = @ \cup {p},
                                    !.current = IF Type = "film" THEN Effective(p) ELSE NoFields]
      PROVE  TaskInv'
  <2>1. /\ DOMAIN meta' = TaskFields /\ meta'.set = meta.set /\ meta'.units = meta.units
        /\ meta'.todo = meta.todo \ {p}
        /\ \/ meta'.pc = "hash" /\ meta'.path = p /\ meta'.current = Effective(p) /\ meta'.rest = meta.rest
           \/ /\ meta'.pc = "get" /\ meta'.rest = meta.rest \cup {p}
              /\ Film => meta'.current = Effective(p)
    BY <1>1, <1>5 DEF TaskFields, Film, Type
  <2>2. Allowed(p)'
    BY <1>5, <2>1 DEF skipUserEdited, Allowed
  <2>3. meta'.current = Effective(p) => Seen(p, meta.current)'
    BY <1>2, <2>2 DEF Seen
  <2>4. meta'.pc = "hash" => Seen(meta.path, meta.current)'
    BY <2>1, <2>3
  <2>5. FilmInv'
    <3>1. Film => OneFilm'
      BY <1>3, <2>1 DEF OneFilm
    <3>2. Film /\ meta'.pc = "get" => meta'.rest = {p} /\ Seen(p, meta.current)'
      BY <1>3, <2>1, <2>3
    <3> QED
      BY <1>2, <1>3, <2>1, <3>1, <3>2 DEF FilmInv
  <2> QED
    BY <2>1, <2>4, <2>5 DEF TaskInv
<1> QED
  BY <1>4, <1>5 DEF ReadRow, m

\* A step to the match or back, with nothing read but what waits
LEMMA Waits ==
  ASSUME TaskInv, UNCHANGED <<uses, videos, media, raced>>, meta.pc \in {"get", "hash"},
         DOMAIN meta' = TaskFields, meta'.set = meta.set, meta'.units = meta.units,
         meta'.pc \in {"get", "match"},
         Film => /\ meta'.todo \subseteq meta.todo /\ meta'.current = meta.current
                 /\ meta'.pc = "match" => meta'.rest # {}
                 /\ \/ meta.pc = "get" /\ meta'.rest = meta.rest
                    \/ meta.pc = "hash" /\ meta'.rest = meta.rest \cup {meta.path}
  PROVE  TaskInv'
<1>1. Film' = Film /\ \A p, c : Seen(p, c)' = Seen(p, c)
  BY DEF Film, Seen, Allowed, Effective, Type
<1>2. Film => OneFilm'
  BY DEF TaskInv, FilmInv, OneFilm
<1>3. ASSUME Film, NEW p \in meta'.rest
      PROVE  Seen(p, meta.current)'
  BY <1>1, <1>3 DEF TaskInv, FilmInv, OneFilm
<1>4. FilmInv'
  BY <1>1, <1>2, <1>3 DEF TaskInv, FilmInv
<1> QED
  BY <1>4 DEF TaskInv

LEMMA FirstPassed == ASSUME TaskInv, FirstPass PROVE TaskInv'
<1>1. UNCHANGED <<uses, videos, media>> /\ meta.pc = "get"
  BY DEF FirstPass, MetaFrame
<1>2. CASE meta.todo # {} /\ ReadRow(Min(meta.todo))
  BY <1>1, <1>2, Reads
<1>3. CASE meta' = NextUnit(meta)
  BY <1>1, <1>3, Skipped
<1>4. CASE meta' = [meta EXCEPT !.pc = "match"] /\ UNCHANGED raced /\ meta.rest # {}
  <2>1. /\ DOMAIN meta' = TaskFields /\ meta'.set = meta.set /\ meta'.units = meta.units
        /\ meta'.pc = "match" /\ meta'.todo = meta.todo /\ meta'.current = meta.current
        /\ meta'.rest = meta.rest
    BY <1>4 DEF TaskInv, TaskFields
  <2> QED
    BY <1>1, <1>4, <2>1, Waits
<1> QED
  BY <1>2, <1>3, <1>4 DEF FirstPass

LEMMA HashTried == ASSUME TaskInv, tryFileHashMetadata PROVE TaskInv'
<1>1. UNCHANGED <<uses, videos, media>> /\ meta.pc = "hash"
  BY DEF tryFileHashMetadata, MetaFrame
<1>2. CASE meta' = writeFields(meta, meta.path, Found("hash"), meta.current, "get") /\ UNCHANGED raced
  <2>1. meta.path \in Videos \ raced' => Allowed(meta.path) /\ meta.current = Effective(meta.path)
    BY <1>1, <1>2 DEF TaskInv, Seen
  <2>2. Film => /\ meta.todo = {} /\ meta.rest = {}
                /\ \A u \in meta.units : \E q \in Nat : u = {q}
    BY <1>1 DEF TaskInv, FilmInv, OneFilm
  <2>3. DOMAIN meta = TaskFields
    BY DEF TaskInv
  <2> QED
    BY <1>1, <1>2, <2>1, <2>2, <2>3, Weighed
<1>3. CASE meta' = [meta EXCEPT !.pc = "get", !.rest = @ \cup {meta.path}, !.path = 0,
                                !.current = IF Type = "film" THEN @ ELSE NoFields] /\ UNCHANGED raced
  <2>1. /\ DOMAIN meta' = TaskFields /\ meta'.set = meta.set /\ meta'.units = meta.units
        /\ meta'.pc = "get" /\ meta'.todo = meta.todo /\ meta'.rest = meta.rest \cup {meta.path}
        /\ Film => meta'.current = meta.current
    BY <1>3 DEF TaskInv, TaskFields, Film, Type
  <2> QED
    BY <1>1, <1>3, <2>1, Waits
<1>4. CASE EndMeta
  BY <1>1, <1>4, Ended DEF EndMeta
<1> QED
  BY <1>2, <1>3, <1>4 DEF tryFileHashMetadata

LEMMA FilmMatched == ASSUME TaskInv, applyFilmMetadata PROVE TaskInv'
<1>1. UNCHANGED <<uses, videos, media>> /\ meta.pc = "match" /\ Film
  BY DEF applyFilmMetadata, MetaFrame, Film, Type
<1>2. CASE meta' = writeFields([meta EXCEPT !.rest = {}], Min(meta.rest), Found("film"), meta.current, "get")
           /\ UNCHANGED raced
  <2> DEFINE m == [meta EXCEPT !.rest = {}]
             p == Min(meta.rest)
  <2>1. /\ DOMAIN m = TaskFields /\ m.set = meta.set /\ m.units = meta.units /\ m.rest = {}
        /\ m.todo = meta.todo
    BY DEF TaskInv, TaskFields
  <2>2. PICK q \in Nat : meta.rest = {q} /\ meta.todo = {}
    BY <1>1 DEF TaskInv, FilmInv, OneFilm
  <2>3. p = q
    BY <2>2, MinOfOne
  <2>4. Seen(p, meta.current) /\ \A u \in meta.units : \E r \in Nat : u = {r}
    BY <1>1, <2>2, <2>3 DEF TaskInv, FilmInv
  <2>5. p \in Videos \ raced' => Allowed(p) /\ meta.current = Effective(p)
    BY <1>2, <2>4 DEF Seen
  <2> HIDE DEF m, p
  <2>6. meta' = writeFields(m, p, Found("film"), meta.current, "get")
    BY <1>2 DEF m, p
  <2> QED
    BY <1>1, <2>1, <2>2, <2>4, <2>5, <2>6, Weighed
<1>3. CASE meta' = NextUnit(meta)
  BY <1>1, <1>3, Skipped
<1>4. CASE EndMeta
  BY <1>1, <1>4, Ended DEF EndMeta
<1> QED
  BY <1>2, <1>3, <1>4 DEF applyFilmMetadata

LEMMA ShowMatched == ASSUME TaskInv, MatchShow \/ FetchEpisodes PROVE TaskInv'
<1>1. UNCHANGED <<uses, videos, media>> /\ ~Film
  BY DEF MatchShow, FetchEpisodes, MetaFrame, Film, Type, TaskInv, FilmInv
<1>2. CASE meta' = NextUnit(meta)
  BY <1>1, <1>2, Skipped
<1>3. CASE EndMeta
  BY <1>1, <1>3, Ended DEF EndMeta
<1>4. ASSUME DOMAIN meta' = TaskFields, meta'.pc \in {"episodes", "reget"}
      PROVE  TaskInv'
  BY <1>1, <1>4 DEF TaskInv, FilmInv, Film
<1>5. CASE MatchShow
  <2>1. CASE meta' = [meta EXCEPT !.pc = IF meta.set.metadata \in Catalogs THEN "episodes" ELSE "reget",
                                  !.todo = meta.rest, !.rest = {}, !.match = Found("show")]
    BY <1>4, <2>1 DEF TaskInv, TaskFields
  <2> QED
    BY <1>2, <1>3, <1>5, <2>1 DEF MatchShow
<1>6. CASE FetchEpisodes
  <2>1. CASE meta' = [meta EXCEPT !.pc = "reget", !.match = applyOverride(@, Found("episode"))]
    BY <1>4, <2>1 DEF TaskInv, TaskFields
  <2>2. CASE meta' = [meta EXCEPT !.pc = "reget"]
    BY <1>4, <2>2 DEF TaskInv, TaskFields
  <2> QED
    BY <1>3, <1>6, <2>1, <2>2 DEF FetchEpisodes
<1> QED
  BY <1>5, <1>6

LEMMA ShowWritten == ASSUME TaskInv, applyShowMetadata PROVE TaskInv'
<1>1. UNCHANGED <<uses, videos, media>> /\ ~Film /\ meta.pc = "reget"
  BY DEF applyShowMetadata, MetaFrame, TaskInv, FilmInv
<1>2. CASE meta' = NextUnit(meta)
  BY <1>1, <1>2, Skipped
<1>3. CASE meta.todo # {}
  <2> DEFINE p == Min(meta.todo)
             m == [meta EXCEPT !.todo = @ \ {p}]
             f == applyEpisodeCatalog(meta.match, Effective(p))
  <2>1. DOMAIN m = TaskFields /\ m.set = meta.set /\ m.pc = "reget"
    BY <1>1 DEF TaskInv, TaskFields
  <2>2. CASE meta' = m
    BY <1>1, <2>1, <2>2 DEF TaskInv, FilmInv, Film
  <2>3. CASE ~skipUserEdited(p) /\ meta' = writeFields(m, p, f, Effective(p), "reget")
    <3>1. Allowed(p)
      BY <2>3 DEF skipUserEdited, Allowed
    <3> HIDE DEF m, p, f
    <3> QED
      BY <1>1, <2>1, <2>3, <3>1, Weighed
  <2> QED
    BY <1>1, <1>3, <2>2, <2>3 DEF applyShowMetadata
<1> QED
  BY <1>2, <1>3 DEF applyShowMetadata

\* Back to the rows once the fields are stored, or could not be.
LEMMA AppliedBack ==
  ASSUME TaskInv, meta.pc \in {"apply", "store"}, meta' = Applied(meta), UNCHANGED <<uses, videos>>,
         DOMAIN media' = Videos
  PROVE  TaskInv'
<1>1. /\ DOMAIN meta' = TaskFields /\ meta'.units = meta.units /\ meta'.todo = meta.todo
      /\ meta'.rest = meta.rest /\ meta'.pc = meta.then
  BY DEF Applied, TaskInv, TaskFields
<1>2. meta'.pc \in {"get", "reget"} /\ (Film => meta'.pc = "get" /\ meta'.rest = {})
  BY <1>1 DEF TaskInv, FilmInv
<1>3. Film' = Film
  BY DEF Film
<1>4. Film => OneFilm'
  BY <1>1, <1>2 DEF TaskInv, FilmInv, OneFilm
<1>5. FilmInv'
  BY <1>1, <1>2, <1>3, <1>4 DEF TaskInv, FilmInv
<1> QED
  BY <1>1, <1>2, <1>5 DEF TaskInv

\* A field that is in force and not provided stays as it is, in the row and in the file.
LEMMA Applies == ASSUME TaskInv, ApplyProviderFields PROVE TaskInv'
<1> PICK p : p = meta.path
  OBVIOUS
<1> DEFINE row == media[p]
           patch == providerPatchFields(meta.fields)
           original == [k \in Keys |-> IF k \notin EditableFieldKeys THEN Nil
                                       ELSE IF k \in fileTagUpdates(patch) THEN meta.fields[k]
                                       ELSE row.original[k]]
           db == [original |-> <<>>, override |-> ApplyPatchFields(row.override, patch)]
           file == [original |-> <<original>>, override |-> ClearOverrideKeys(row.override, patch)]
<1>1. UNCHANGED <<uses, videos, media, raced>> /\ meta.pc = "apply"
  BY DEF ApplyProviderFields, MetaFrame
<1>2. CASE meta' = Applied(meta)
  <2>1. DOMAIN media' = Videos
    BY <1>1 DEF TaskInv
  <2> QED
    BY <1>1, <1>2, <2>1, AppliedBack
<1>3. ASSUME NEW next \in {db, file}, meta' = [meta EXCEPT !.pc = "store", !.next = next]
      PROVE  TaskInv'
  <2> DEFINE o == IF next.original = <<>> THEN row.original ELSE next.original[1]
  <2>1. ASSUME NEW k \in EditableFieldKeys, ~IsSet(meta.fields[k])
        PROVE  o[k] = row.original[k] /\ next.override[k] = row.override[k]
    <3>1. /\ k \notin fileTagUpdates(patch)
          /\ ApplyPatchFields(row.override, patch)[k] = row.override[k]
          /\ ClearOverrideKeys(row.override, patch)[k] = row.override[k]
      BY <2>1, PatchSpares
    <3>2. original[k] = row.original[k]
      BY <3>1 DEF EditableFieldKeys
    <3>3. CASE next = db
      <4> HIDE DEF row, patch
      <4> QED
        BY <3>1, <3>3
    <3>4. CASE next = file
      <4> HIDE DEF row, patch, original
      <4>1. next.original = <<original>> /\ <<original>> # <<>> /\ <<original>>[1] = original
        BY <3>4
      <4> QED
        BY <3>1, <3>2, <3>4, <4>1
    <3> QED
      BY <3>3, <3>4
  <2>2. /\ DOMAIN meta' = TaskFields /\ meta'.set = meta.set /\ meta'.units = meta.units
        /\ meta'.todo = meta.todo /\ meta'.rest = meta.rest /\ meta'.path = p
        /\ meta'.then = meta.then /\ meta'.pc = "store" /\ meta'.next = next
    BY <1>3 DEF TaskInv, TaskFields
  <2> HIDE DEF db, file
  <2>3. NewOriginal(p)' = o
    BY <1>1, <2>2 DEF NewOriginal
  <2>4. Type' = Type /\ Effective(p)' = Effective(p) /\ Allowed(p)' = Allowed(p)
    BY <1>1, <2>2 DEF Effective, Type, Allowed
  <2>5. Spares(p, meta.fields)
    BY <1>1 DEF TaskInv
  <2> HIDE DEF o, row
  <2>6. Leaves(meta.path)'
    <3> SUFFICES ASSUME p \in Videos \ raced
                 PROVE  /\ Allowed(p)
                        /\ meta.set.mode = "fill_missing" =>
                             \A k \in EditableFieldKeys : IsSet(Effective(p)[k]) =>
                               EffectiveFields(Type, Inferred(p), o, next.override)[k] = Effective(p)[k]
      BY <1>1, <2>2, <2>3, <2>4 DEF Leaves
    <3>1. Allowed(p)
      BY <2>5 DEF Spares
    <3>2. ASSUME meta.set.mode = "fill_missing", NEW k \in EditableFieldKeys, IsSet(Effective(p)[k])
          PROVE  EffectiveFields(Type, Inferred(p), o, next.override)[k] = Effective(p)[k]
      <4>1. ~IsSet(meta.fields[k])
        BY <2>5, <3>2 DEF Spares
      <4>2. o[k] = row.original[k] /\ next.override[k] = row.override[k] /\ k \in Keys
        BY <2>1, <4>1 DEF EditableFieldKeys
      <4> QED
        BY <4>2, FieldAlone DEF Effective, row
    <3> QED
      BY <3>1, <3>2
  <2>7. Film' = Film /\ (Film => OneFilm')
    BY <1>1, <2>2 DEF TaskInv, FilmInv, OneFilm, Film
  <2>8. FilmInv'
    BY <1>1, <2>2, <2>7 DEF TaskInv, FilmInv
  <2> QED
    BY <1>1, <2>2, <2>6, <2>8 DEF TaskInv
<1> QED
  BY <1>2, <1>3 DEF ApplyProviderFields

LEMMA Stores == ASSUME TaskInv, StoreProviderFields PROVE TaskInv'
<1>1. UNCHANGED <<uses, videos>> /\ meta.pc = "store" /\ meta' = Applied(meta) /\ DOMAIN media' = Videos
  BY DEF StoreProviderFields, MetaFrame, TaskInv
<1> QED
  BY <1>1, AppliedBack

\* An edit is stored while the task holds what it has read: from then on the row is raced.
LEMMA UserSaves == ASSUME TaskInv, SavePatch PROVE TaskInv'
<1>1. UNCHANGED <<uses, videos, meta>> /\ DOMAIN media' = Videos
  BY DEF SavePatch, TaskInv
<1>2. CASE meta.pc = "idle"
  BY <1>1, <1>2 DEF TaskInv, FilmInv, OneFilm, Film
<1>3. CASE meta.pc # "idle"
  <2>1. raced' = raced \cup {user.path} /\ \A p \in Videos \ raced' : media'[p] = media[p]
    BY <1>3 DEF SavePatch, TaskInv
  <2>2. \A p \in Videos \ raced' : /\ p \in Videos \ raced
                                  /\ Effective(p)' = Effective(p) /\ Allowed(p)' = Allowed(p)
                                  /\ NewOriginal(p)' = NewOriginal(p)
    BY <1>1, <2>1 DEF Effective, Type, Allowed, NewOriginal
  <2>3. \A p, c : Seen(p, c) => Seen(p, c)'
    BY <1>1, <2>2 DEF Seen
  <2>4. \A p, f : Spares(p, f) => Spares(p, f)'
    BY <1>1, <2>2 DEF Spares
  <2>5. \A p : Leaves(p) => Leaves(p)'
    BY <1>1, <2>2 DEF Leaves, Type
  <2> QED
    BY <1>1, <2>3, <2>4, <2>5 DEF TaskInv, FilmInv, OneFilm, Film
<1> QED
  BY <1>2, <1>3

LEMMA Others ==
  ASSUME TaskInv, Changes \/ FetchStep \/ runPosters \/ runSubtitles \/ Restart
  PROVE  TaskInv'
<1>1. CASE Restart
  <2>1. UNCHANGED <<uses, videos, media>> /\ meta' = NoTask
    BY <1>1 DEF Restart
  <2> QED
    BY <2>1, Ended
<1>2. CASE Changes
  <2>1. Same /\ videos' \subseteq Videos
    BY <1>2 DEF Changes, PatchSettings, FileChange, PatchRow, Same, TaskInv, SymDiff
  <2> QED
    BY <2>1, Beside
<1>3. CASE FetchStep \/ runPosters \/ runSubtitles
  <2>1. FetchFrame
    BY <1>3 DEF FetchStep, NextPoster, collectSubtitleFetches, fetchPoster, fetchSubtitle, Write,
                UpsertArtifact, ListArtifacts, Remove, DeleteArtifact, runPosters, runSubtitles
  <2>2. Same /\ videos' \subseteq Videos
    BY <2>1 DEF FetchFrame, Same, TaskInv
  <2> QED
    BY <2>2, Beside
<1> QED
  BY <1>1, <1>2, <1>3

LEMMA TaskInit == TasksInit => TaskInv
<1> SUFFICES ASSUME TasksInit PROVE TaskInv
  OBVIOUS
<1>1. DOMAIN media = Videos /\ videos \subseteq Videos /\ meta = NoTask
  BY DEF TasksInit
<1> QED
  BY <1>1, NoTaskFields DEF TaskInv, FilmInv, OneFilm

LEMMA TaskStep == TaskInv /\ [TasksNext]_taskVars => TaskInv'
<1> SUFFICES ASSUME TaskInv, [TasksNext]_taskVars PROVE TaskInv'
  OBVIOUS
<1>1. CASE MetaStep
  BY <1>1, Runs, FirstPassed, HashTried, FilmMatched, ShowMatched, ShowWritten, Applies, Stores DEF MetaStep
<1>2. CASE Enrich
  BY <1>2, Enriches
<1>3. CASE SavePatch
  BY <1>3, UserSaves
<1>4. CASE Changes \/ FetchStep \/ runPosters \/ runSubtitles \/ Restart
  BY <1>4, Others
<1>5. CASE UNCHANGED taskVars
  <2>1. Same /\ videos' \subseteq Videos
    BY <1>5 DEF Same, TaskInv
  <2> QED
    BY <2>1, Beside
<1> QED
  BY <1>1, <1>2, <1>3, <1>4, <1>5 DEF TasksNext

\* What the metadata task has in hand is weighed against the rows as they are, except for those
\* that were edited since it read them.
THEOREM TaskInductive == TasksSpec => []TaskInv
BY TaskInit, TaskStep, PTL DEF TasksSpec

\* The metadata task keeps what users wrote before it last read a row, unless the library allows
\* otherwise, and with fill_missing every value that was shown then.
THEOREM TasksKeepEdits == TasksSpec => TaskKeepsEdits
<1> DEFINE Keeps ==
      \A p \in Videos \ raced :
        meta.pc = "store" /\ meta'.pc # "store" /\ p = meta.path /\ media'[p].by = "provider" =>
          /\ media[p].by = "user" => meta.set.allow
          /\ meta.set.mode = "fill_missing" =>
               \A k \in EditableFieldKeys : IsSet(Effective(p)[k]) => Effective(p)'[k] = Effective(p)[k]
<1>1. TaskInv /\ [TasksNext]_taskVars => [Keeps]_taskVars
  <2> SUFFICES ASSUME TaskInv, [TasksNext]_taskVars, NEW p \in Videos \ raced,
                      meta.pc = "store", meta'.pc # "store", p = meta.path, media'[p].by = "provider"
               PROVE  /\ media[p].by = "user" => meta.set.allow
                      /\ meta.set.mode = "fill_missing" =>
                           \A k \in EditableFieldKeys :
                             IsSet(Effective(p)[k]) => Effective(p)'[k] = Effective(p)[k]
    OBVIOUS
  <2>1. Leaves(p)
    BY DEF TaskInv
  <2>2. CASE StoreProviderFields
    <3>1. uses' = uses /\ media'[p] = [original |-> NewOriginal(p), override |-> meta.next.override,
                                      by |-> "provider"]
      BY <2>2 DEF StoreProviderFields, MetaFrame, NewOriginal, TaskInv
    <3>2. Effective(p)' = EffectiveFields(Type, Inferred(p), NewOriginal(p), meta.next.override)
      BY <3>1 DEF Effective, Type
    <3> QED
      BY <2>1, <3>2 DEF Leaves, Allowed
  <2>3. CASE UNCHANGED <<uses, media>>
    BY <2>1, <2>3 DEF Leaves, Allowed, Effective, Type
  <2>4. StoreProviderFields \/ UNCHANGED <<uses, media>>
    BY DEF TasksNext, MetaStep, FetchStep, Changes, PatchSettings, FileChange, PatchRow, Enrich, runMetadata,
           FirstPass, tryFileHashMetadata, applyFilmMetadata, MatchShow, FetchEpisodes, applyShowMetadata,
           ApplyProviderFields, MetaFrame, FetchFrame, NextPoster, collectSubtitleFetches, fetchPoster,
           fetchSubtitle, Write, UpsertArtifact, ListArtifacts, Remove, DeleteArtifact, runPosters,
           runSubtitles, Restart, SavePatch
  <2> QED
    BY <2>2, <2>3, <2>4
<1>2. TasksSpec => [][Keeps]_taskVars
  BY <1>1, TaskInductive, PTL DEF TasksSpec
<1> QED
  BY <1>2 DEF TaskKeepsEdits

=============================================================================
