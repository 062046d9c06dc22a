---------------------------- MODULE LibraryStore ----------------------------
(***************************************************************************)
(* The library tables of PostgreSQL and the statements of                  *)
(* internal/access/postgres, internal/watch/postgres,                      *)
(* internal/favorite/postgres and the listings of                          *)
(* internal/metadata/postgres, over the database `d`:                      *)
(*                                                                         *)
(*   d.libs    id -> type                                                  *)
(*   d.roots   path -> library     UNIQUE(rel_path)                        *)
(*   d.grants  user -> library -> nonempty set of permissions              *)
(*   d.media   set of [lib, path]  the index                               *)
(*   d.watch   [user, lib, path] -> [watched, pos, dur]                    *)
(*   d.fav     set of [user, lib, path]                                    *)
(*   d.bin     original paths of trash_items                               *)
(*                                                                         *)
(* A path is the sequence of its segments, canonical: what                 *)
(* CanonicalRelPath and normalizeMediaPath make of the request's path.     *)
(***************************************************************************)
EXTENDS Integers, SequencesExt

CONSTANTS
    Libs,           \* library ids
    Users,          \* user ids
    Admins,         \* the users whose role is admin
    RootPaths,      \* folders an administrator may attach
    Files,          \* video files, each under a folder of RootPaths
    Types,          \* library types in use
    Episode         \* file -> [show, season], what the index made of its name; show None for none

ASSUME LibraryAssumption ==
    /\ Admins \subseteq Users
    /\ RootPaths \cap Files = {}
    /\ RootPaths \cup Files \subseteq Seq(STRING) \ {<<>>}

Perms == {"create", "read", "update", "delete"}
None  == ""             \* no show, no user, no type
NoSec == -1             \* a NULL position or duration
Blank == [watched |-> FALSE, pos |-> NoSec, dur |-> NoSec]

Key(u, l, p) == [user |-> u, lib |-> l, path |-> p]

\* The outcome of a call: the database it leaves and its error.
R(d, err) == [db |-> d, err |-> err]

\* INSERT ... ON CONFLICT DO UPDATE: a row is added or replaced.
Insert(rows, k, row) == [x \in DOMAIN rows \cup {k} |-> IF x = k THEN row ELSE rows[x]]

(* access/path.go *)
PathWithinRoot(p, root) == root # <<>> /\ p # <<>> /\ IsPrefix(root, p)

\* Mutant: a folder above existing roots passes.
RootsNested(p, q) == PathWithinRoot(q, p)

RootsOverlap(p, q) == PathWithinRoot(p, q) \/ PathWithinRoot(q, p)

\* The library with the longest matching root, as a set of at most one.
MatchLibrary(d, p) ==
    LET over == {r \in DOMAIN d.roots : PathWithinRoot(p, r)}
    IN  {d.roots[r] : r \in {r \in over : \A q \in over : Len(q) <= Len(r)}}

(* libraries and library_roots *)
Roots(d, l)              == {r \in DOMAIN d.roots : d.roots[r] = l}
libraryIDForExactRoot(d, p) == IF p \in DOMAIN d.roots THEN {d.roots[p]} ELSE {}
conflictingLibraryID(d, l, p) ==
    {d.roots[r] : r \in {r \in DOMAIN d.roots : d.roots[r] # l /\ RootsOverlap(r, p)}}

\* Rows of a library at or below a path.
Below(rows, l, p) == {k \in rows : k.lib = l /\ PathWithinRoot(k.path, p)}

\* What the schema keeps (keys, foreign keys and the CHECK on permissions).
Consistent(d) ==
    /\ DOMAIN d = {"libs", "roots", "grants", "media", "watch", "fav", "bin"}
    /\ DOMAIN d.libs \subseteq Libs /\ \A l \in DOMAIN d.libs : d.libs[l] \in Types
    /\ DOMAIN d.roots \subseteq RootPaths
    /\ \A r \in DOMAIN d.roots : d.roots[r] \in DOMAIN d.libs
    /\ DOMAIN d.grants = Users
    /\ \A u \in Users : /\ DOMAIN d.grants[u] \subseteq DOMAIN d.libs
                        /\ d.grants[u] \in [DOMAIN d.grants[u] -> (SUBSET Perms) \ {{}}]
    /\ DOMAIN d.watch \cup d.fav \subseteq [user : Users, lib : DOMAIN d.libs, path : Files]
    /\ d.media \subseteq [lib : DOMAIN d.libs, path : Files]
    /\ d.bin \subseteq Files

\* No root lies in another.
Exclusive(d) == \A p, q \in DOMAIN d.roots : p # q => ~RootsOverlap(p, q)

CreateLibrary(d, l, type) == R([d EXCEPT !.libs = Insert(@, l, type)], "ok")

\* ON DELETE CASCADE: roots, grants, index, progress and favourites.
DeleteLibrary(d, l) ==
    IF l \notin DOMAIN d.libs THEN R(d, "notfound")
    ELSE R([d EXCEPT !.libs   = Restrict(@, DOMAIN @ \ {l}),
                     !.roots  = Restrict(@, DOMAIN @ \ Roots(d, l)),
                     !.grants = [u \in Users |-> Restrict(@[u], DOMAIN @[u] \ {l})],
                     !.media  = {k \in @ : k.lib # l},
                     !.watch  = Restrict(@, {k \in DOMAIN @ : k.lib # l}),
                     !.fav    = {k \in @ : k.lib # l}], "ok")

UpdateLibrary(d, l, type) ==
    IF l \notin DOMAIN d.libs THEN R(d, "notfound") ELSE R([d EXCEPT !.libs[l] = type], "ok")

deleteLibraryIfEmpty(d, l) == IF Roots(d, l) = {} THEN DeleteLibrary(d, l).db ELSE d

deletePrefixRows(d, l, p) ==
    [d EXCEPT !.media = @ \ Below(@, l, p),
              !.watch = Restrict(@, DOMAIN @ \ Below(DOMAIN @, l, p)),
              !.fav   = @ \ Below(@, l, p)]

\* Mutant: the index is moved and the viewers' rows are left to the clean-up.
reassignIndexOnly(d, src, dest, p) ==
    deletePrefixRows([d EXCEPT !.media = @ \cup {[k EXCEPT !.lib = dest] : k \in Below(@, src, p)}],
                     src, p)

\* Rows move unless the destination has one of its own; the rest is deleted.
reassignPrefix(d, src, dest, p) ==
    LET Moved(rows) == {[k EXCEPT !.lib = dest] : k \in Below(rows, src, p)}
        watched     == DOMAIN d.watch \cup Moved(DOMAIN d.watch)
        moved       == [d EXCEPT !.media = @ \cup Moved(@),
                                 !.fav   = @ \cup Moved(@),
                                 !.watch = [k \in watched |->
                                               IF k \in DOMAIN @ THEN @[k] ELSE @[[k EXCEPT !.lib = src]]]]
    IN  deletePrefixRows(moved, src, p)

\* The reads of the AddRoot transaction.
AddRootRead(d, l, p) ==
    IF l \notin DOMAIN d.libs THEN "notfound"
    ELSE IF p \in Roots(d, l) THEN "ok"
    ELSE IF \E r \in Roots(d, l) : PathWithinRoot(p, r) THEN "conflict"
    ELSE IF libraryIDForExactRoot(d, p) = {} /\ conflictingLibraryID(d, l, p) # {} THEN "conflict"
    ELSE "go"

\* Its writes, for the owners and the destination's roots that it read: the insert fails on
\* UNIQUE(rel_path) or on the foreign key, and the transaction is rolled back.
AddRootWrite(d, l, p, owner, own) ==
    LET merge == {o \in owner : o # l}
        src   == CHOOSE o \in merge : TRUE
        freed == IF merge = {} THEN d
                 ELSE deleteLibraryIfEmpty(
                          [reassignPrefix(d, src, l, p) EXCEPT
                               !.roots = Restrict(@, DOMAIN @ \ ({p} \cap Roots(d, src)))], src)
        mine  == [freed EXCEPT !.roots = Restrict(@, DOMAIN @ \ {r \in own : PathWithinRoot(r, p)})]
    IN  IF l \notin DOMAIN mine.libs \/ p \in DOMAIN mine.roots THEN R(d, "failed")
        ELSE R([mine EXCEPT !.roots = Insert(@, p, l)], "ok")

\* An emptied library is deleted, and answered with ErrLibraryNotFound.
RemoveRoot(d, l, p) ==
    LET gone == [deletePrefixRows(d, l, p) EXCEPT !.roots = Restrict(@, DOMAIN @ \ {p})]
    IN  IF p \notin Roots(d, l) THEN R(d, "rootnotfound")
        ELSE IF Roots(gone, l) = {} THEN R(DeleteLibrary(gone, l).db, "notfound")
        ELSE R(gone, "ok")

(* library_grants *)
GetUserGrantMap(d, u) == d.grants[u]

\* Mutant: no transaction around the delete and the inserts.
ReplaceUserGrantsStepwise(d, u, want) ==
    LET there == {l \in DOMAIN want : l \in DOMAIN d.libs /\ want[l] # {}}
    IN  R([d EXCEPT !.grants[u] = Restrict(want, there)],
          IF DOMAIN want \subseteq DOMAIN d.libs THEN "ok" ELSE "failed")

ReplaceUserGrants(d, u, want) ==
    LET rows == {l \in DOMAIN want : want[l] # {}}
    IN  IF ~(rows \subseteq DOMAIN d.libs) THEN R(d, "failed")
        ELSE R([d EXCEPT !.grants[u] = Restrict(want, rows)], "ok")

(* watch_state and favorites: the foreign key fails when the library is gone *)
GetWatch(d, k)       == IF k \in DOMAIN d.watch THEN d.watch[k] ELSE Blank
Upsert(d, k, state)  == IF k.lib \notin DOMAIN d.libs THEN R(d, "failed")
                        ELSE R([d EXCEPT !.watch = Insert(@, k, state)], "ok")
Clear(d, k)          == R([d EXCEPT !.watch = Restrict(@, DOMAIN @ \ {k})], "ok")
SetFavorite(d, k, on) ==
    IF ~on THEN R([d EXCEPT !.fav = @ \ {k}], "ok")
    ELSE IF k.lib \notin DOMAIN d.libs THEN R(d, "failed")
    ELSE R([d EXCEPT !.fav = @ \cup {k}], "ok")

(* listings: of one user, within the libraries `ids`; none for no ids *)
MinProgressSeconds == 10

WatchRows(d, u, ids) == {k \in DOMAIN d.watch : k.user = u /\ k.lib \in ids}
Rows(keys)           == {[lib |-> k.lib, path |-> k.path] : k \in keys}
InProgress(s)        == ~s.watched /\ s.pos >= MinProgressSeconds

ListFavorites(d, u, ids) == Rows({k \in d.fav : k.user = u /\ k.lib \in ids})
ListWatched(d, u, ids)   == Rows({k \in WatchRows(d, u, ids) : d.watch[k].watched})
ListContinue(d, u, ids)  == Rows({k \in WatchRows(d, u, ids) : InProgress(d.watch[k])})
ListUnwatched(d, u, ids) ==
    {m \in d.media : m.lib \in ids /\ LET s == GetWatch(d, Key(u, m.lib, m.path))
                                      IN  ~s.watched /\ ~InProgress(s)}

\* Rows of the index that no trash item covers.
activeMetadataScope(d, l) ==
    {m \in d.media : m.lib = l /\ ~\E b \in d.bin : PathWithinRoot(m.path, b)}

SearchRows(d, ids) == UNION {activeMetadataScope(d, l) : l \in ids}

(* catalog pages *)
ShowRows(d, l, s) == {m \in activeMetadataScope(d, l) : Episode[m.path].show = s /\ s # None}

ListCatalogMoviesPage(d, l) == activeMetadataScope(d, l)

\* One row for each show, that of its first path.
ListCatalogShowsPage(d, l) ==
    {CHOOSE m \in ShowRows(d, l, s) : TRUE :
        s \in {Episode[m.path].show : m \in activeMetadataScope(d, l)} \ {None}}
GetCatalogShowAgg(d, l, s) ==
    IF ShowRows(d, l, s) = {} THEN {} ELSE {CHOOSE m \in ShowRows(d, l, s) : TRUE}
CatalogShowExists(d, l, s) == ShowRows(d, l, s) # {}
ListCatalogSeasonEpisodes(d, l, s, n) == {m \in ShowRows(d, l, s) : Episode[m.path].season = n}

(* DeleteForPath of the three services: resolve the path, delete at and below it; an unknown *)
(* library is no error                                                                       *)
Cut(d, rows, p) == rows \ UNION {Below(rows, l, p) : l \in MatchLibrary(d, p)}
DeleteMetadataForPath(d, p) == [d EXCEPT !.media = Cut(d, @, p)]
DeleteWatchForPath(d, p)    == [d EXCEPT !.watch = Restrict(@, Cut(d, DOMAIN @, p))]
DeleteFavoriteForPath(d, p) == [d EXCEPT !.fav = Cut(d, @, p)]
=============================================================================
