------------------------------ MODULE Library ------------------------------
(***************************************************************************)
(* Who may see what: libraries, their exclusive folder roots, the grants   *)
(* on them, and what viewers keep under them (progress, favourites), as    *)
(* the handlers of internal/httpapi drive internal/access, internal/watch, *)
(* internal/favorite, internal/homeshelf, internal/catalog and             *)
(* internal/usersub, and as a television sees it through internal/dlna.    *)
(*                                                                         *)
(* A call that reads the tables and writes or answers from what it read is *)
(* two actions: the first puts a record into `flight`, the second takes it *)
(* out again, and every other call may come in between.  A transaction     *)
(* whose checks are reads of other rows than it locks (AddRoot) is two     *)
(* actions for the same reason; its writes become visible together.        *)
(*                                                                         *)
(*   db      the tables                                                    *)
(*   dirs    the folders of RootPaths that exist on disk                   *)
(*   flight  the calls past their reads                                    *)
(*   subs    the viewers' own subtitles on disk: [vtt, meta], by user+path *)
(*   tv      the television's account and the signed URLs it was given     *)
(*   shown   what the last step showed a viewer, and the libraries the     *)
(*           viewer had a read grant on when asking or being answered      *)
(*   uses    the groups of endpoints used in this behaviour                *)
(***************************************************************************)
EXTENDS LibraryViews

CONSTANTS
    Seeds,          \* the databases behaviours start from
    Patches,        \* watch patches players send: [watched, pos, dur], "keep" and NoSec for absent
    TV,             \* the user whose account has the role tv
    Savers,         \* bound: the users who save progress and favourites
    Saved,          \* bound: the files they save them for
    Wants,          \* the grant lists administrators put, library -> permissions
    Scenarios,      \* bound: the groups of endpoints that one behaviour uses
    MaxFlight,      \* bound: calls past their reads
    MaxAdds         \* bound: of these, AddRoot calls

ASSUME LibraryInputs ==
    /\ \A d \in Seeds : Consistent(d) /\ Exclusive(d)
    /\ \A w \in Wants : DOMAIN w \subseteq Libs /\ w \in [DOMAIN w -> SUBSET Perms]
    /\ TV \in Users /\ Savers \subseteq Users /\ Saved \subseteq Files
    /\ MaxFlight \in Nat /\ MaxAdds \in Nat

VARIABLES db, dirs, flight, subs, tv, shown, uses

vars == <<db, dirs, flight, subs, tv, shown, uses>>

Nobody == [user |-> None, items |-> {}, may |-> {}]

Init == /\ db \in Seeds
        /\ dirs = RootPaths
        /\ flight = {}
        /\ subs = [vtt |-> {}, meta |-> <<>>]
        /\ tv = [on |-> TRUE, urls |-> {}]
        /\ shown = Nobody
        /\ uses \in Scenarios

Suspend(rec) == /\ Cardinality(flight) < MaxFlight /\ rec \notin flight
                /\ flight' = flight \cup {rec}
                /\ shown' = Nobody
                /\ UNCHANGED <<db, dirs, subs, tv, uses>>
Replace(f, set, d) == /\ flight' = (flight \ {f}) \cup set
                      /\ db' = d
                      /\ shown' = Nobody
                      /\ UNCHANGED <<dirs, subs, tv, uses>>
Resume(f, d) == Replace(f, {}, d)
Write(d)     == db' = d /\ shown' = Nobody /\ UNCHANGED <<dirs, flight, subs, tv, uses>>
Calls(op)    == {f \in flight : f.op = op}

(* admin_handlers.go: libraries *)
createLibrary(l, type) == l \notin DOMAIN db.libs /\ Write(CreateLibrary(db, l, type).db)
deleteLibrary(l)       == l \in DOMAIN db.libs /\ Write(DeleteLibrary(db, l).db)
patchLibrary(l, type)  == l \in DOMAIN db.libs /\ Write(UpdateLibrary(db, l, type).db)

\* The service's checks.  A folder another library owns exactly is merged, an overlap refused.
AddRootAllowed(d, l, p) ==
    /\ l \in DOMAIN d.libs
    /\ libraryIDForExactRoot(d, p) # {l}
    /\ libraryIDForExactRoot(d, p) = {} => ~\E r \in DOMAIN d.roots : RootsOverlap(r, p)

addLibraryRoot(l, p) ==
    /\ Cardinality(Calls("addRoot")) < MaxAdds
    /\ p \in dirs /\ AddRootAllowed(db, l, p)
    /\ Suspend([op |-> "addRoot", lib |-> l, path |-> p, pc |-> "begin", owner |-> {}, own |-> {}])

AddRootBegin(f) ==
    /\ f \in Calls("addRoot") /\ f.pc = "begin"
    /\ Replace(f, IF AddRootRead(db, f.lib, f.path) # "go" THEN {}
                  ELSE {[f EXCEPT !.pc = "write", !.own = Roots(db, f.lib),
                                  !.owner = libraryIDForExactRoot(db, f.path)]}, db)

AddRootCommit(f) ==
    /\ f \in Calls("addRoot") /\ f.pc = "write"
    /\ Resume(f, AddRootWrite(db, f.lib, f.path, f.owner, f.own).db)

removeLibraryRoot(l, p) == p \in Roots(db, l) /\ Write(RemoveRoot(db, l, p).db)

\* SyncLibraries lists every root, then looks at each.  The order (by name) plays no part.
syncLibraries ==
    Suspend([op |-> "sync", todo |-> {[lib |-> db.roots[r], path |-> r] : r \in DOMAIN db.roots}])

\* A root that is gone already ends the sync with an error; an emptied library ends its own roots.
pruneLibraryRoots(f, r) ==
    /\ f \in Calls("sync") /\ r \in f.todo
    /\ LET out  == RemoveRoot(db, r.lib, r.path)
           rest == IF r.path \in dirs \/ out.err = "ok" THEN f.todo \ {r}
                   ELSE IF out.err = "notfound" THEN {q \in f.todo : q.lib # r.lib} ELSE {}
       IN  Replace(f, IF rest = {} THEN {} ELSE {[f EXCEPT !.todo = rest]},
                   IF r.path \in dirs THEN db ELSE out.db)

(* admin_handlers.go: grants *)
putUserLibraries(u, want) ==
    /\ u \notin Admins /\ validateGrantInputs(db, want)
    /\ Suspend([op |-> "grants", user |-> u, want |-> want])

SetUserGrants(f) == f \in Calls("grants") /\ Resume(f, ReplaceUserGrants(db, f.user, f.want).db)

(* watch and favorite: the path is resolved and the row read, then written *)
CompleteRemainingSeconds == 30
IsComplete(pos, dur) ==
    dur > 0 /\ pos >= 0 /\ (10 * pos >= 9 * dur \/ dur - pos <= CompleteRemainingSeconds)
derefSeconds(s)      == IF s = NoSec THEN 0 ELSE s

mergeWatchPatch(current, patch) ==
    LET pos == IF patch.pos = NoSec THEN current.pos ELSE patch.pos
        dur == IF patch.dur = NoSec THEN current.dur ELSE patch.dur
    IN  [pos |-> pos, dur |-> dur,
         watched |-> \/ current.watched \/ patch.watched = "true"
                     \/ IsComplete(derefSeconds(pos), derefSeconds(dur))]

skipProgressWrite(current, next) ==
    /\ ~next.watched /\ derefSeconds(next.pos) < MinProgressSeconds
    /\ ~current.watched /\ current.pos = NoSec

patchWatch(u, p, patch) ==
    /\ CanRead(db, u, p)
    /\ \E l \in MatchLibrary(db, p) :
         Suspend([op |-> "watch", key |-> Key(u, l, p), patch |-> patch,
                  current |-> GetWatch(db, Key(u, l, p))])

PatchWrite(f) ==
    /\ f \in Calls("watch")
    /\ LET next == mergeWatchPatch(f.current, f.patch)
       IN  Resume(f, IF f.patch.watched = "false" THEN Clear(db, f.key).db
                     ELSE IF skipProgressWrite(f.current, next) THEN db
                     ELSE Upsert(db, f.key, next).db)

patchFavorite(u, p, on) ==
    /\ CanRead(db, u, p)
    /\ \E l \in MatchLibrary(db, p) : Suspend([op |-> "fav", key |-> Key(u, l, p), on |-> on])

FavoriteWrite(f) == f \in Calls("fav") /\ Resume(f, SetFavorite(db, f.key, f.on).db)

(* The index, and the files *)
IndexFile(p) ==
    \E l \in MatchLibrary(db, p) :
        /\ [lib |-> l, path |-> p] \notin db.media
        /\ Write([db EXCEPT !.media = @ \cup {[lib |-> l, path |-> p]}])

Folders(set)  == dirs' = set /\ shown' = Nobody /\ UNCHANGED <<db, flight, subs, tv, uses>>
FolderGone(r) == r \in dirs /\ Folders(dirs \ {r})
FolderBack(r) == r \notin dirs /\ Folders(dirs \cup {r})

(* play_handlers.go and trash_handlers.go: the bin *)
deleteMedia(u, p) == /\ p \notin db.bin /\ CanDelete(db, u, p)
                     /\ Suspend([op |-> "trash", path |-> p])
moveMediaToTrash(f) == f \in Calls("trash") /\ Resume(f, [db EXCEPT !.bin = @ \cup {f.path}])
restoreTrash(p)     == p \in db.bin /\ Write([db EXCEPT !.bin = @ \ {p}])

deleteTrashForever(p) ==
    /\ p \in db.bin
    /\ Suspend([op |-> "purge", path |-> p, todo |-> <<"metadata", "watch", "favorite">>])

\* One service after the other.
OnPermanentDelete(f) ==
    /\ f \in Calls("purge") /\ f.todo # <<>>
    /\ Replace(f, {[f EXCEPT !.todo = Tail(@)]},
               CASE Head(f.todo) = "metadata" -> DeleteMetadataForPath(db, f.path)
                 [] Head(f.todo) = "watch"    -> DeleteWatchForPath(db, f.path)
                 [] Head(f.todo) = "favorite" -> DeleteFavoriteForPath(db, f.path))

DeleteTrashRow(f) == /\ f \in Calls("purge") /\ f.todo = <<>>
                     /\ Resume(f, [db EXCEPT !.bin = @ \ {f.path}])

(* What viewers see *)
\* Libraries on which the user holds a read grant now; administrators need none.
May(d, u) == IF u \in Admins THEN Libs
             ELSE {l \in DOMAIN d.grants[u] : "read" \in d.grants[u][l]}

\* A request for one path, past its check.
ensurePermission(u, p, allowed) ==
    /\ allowed
    /\ Suspend([op |-> "serve", user |-> u, path |-> p, may |-> May(db, u),
                libs |-> MatchLibrary(db, p)])

download(u, p)    == ensurePermission(u, p, CanRead(db, u, p))
stream(u, p)      == ensurePermission(u, p, CanRead(db, u, p))
thumbnail(u, p)   == ensurePermission(u, p, CanRead(db, u, p))
play(u, p)        == ensurePermission(u, p, CanRead(db, u, p))
getWatch(u, p)    == ensurePermission(u, p, CanRead(db, u, p) /\ MatchLibrary(db, p) # {})
getFavorite(u, p) == ensurePermission(u, p, CanRead(db, u, p) /\ MatchLibrary(db, p) # {})

Show(f, items) ==
    /\ flight' = flight \ {f}
    /\ shown' = [user |-> f.user, items |-> items, may |-> f.may \cup May(db, f.user)]
    /\ UNCHANGED <<db, dirs, subs, uses>>

Serve(f) == /\ f \in Calls("serve") /\ Show(f, {Item(l, f.path) : l \in f.libs})
            /\ UNCHANGED tv

browseWithPath(u, p) ==
    /\ CanBrowse(db, u, p)
    /\ Suspend([op |-> "browse", user |-> u, path |-> p, may |-> May(db, u)])

OnDisk == dirs \cup (Files \ db.bin)

\* The folder is read, filtered and marked.
BrowseAnswer(f) ==
    /\ f \in Calls("browse")
    /\ LET children == {c \in OnDisk : Len(c) = Len(f.path) + 1 /\ IsPrefix(f.path, c)}
           items    == UNION {{Item(l, c) : l \in MatchLibrary(db, c)} :
                                 c \in FilterBrowseResponse(db, f.user, children)}
           seen     == enrichItemsWatched(db, f.user, f.path, enrichItemsPermissions(db, f.user, items))
       IN  Show(f, enrichItemsFavorited(db, f.user, f.path, seen))
    /\ UNCHANGED tv

\* A shelf, the search, the statistics: the readable libraries, then the rows in them.
Ask(u, list, ids, key) ==
    Suspend([op |-> "list", user |-> u, list |-> list, may |-> May(db, u), ids |-> ids, key |-> key])
readableLibraries(u) == ListReadableLibraries(db, u)

homeItems(u, shelf) == Ask(u, shelf, readableLibraries(u), <<>>)
getHomeStats(u)     == Ask(u, "stats", readableLibraries(u), <<>>)
searchMedia(u)      == Ask(u, "search", readableLibraries(u), <<>>)

\* The catalog: a film or series library among the readable ones.
getLibraryCatalog(u, l) ==
    /\ l \in libraryBySlug(db, u, l) /\ db.libs[l] \in {"film", "series"}
    /\ Ask(u, IF db.libs[l] = "film" THEN "movies" ELSE "shows", {l}, <<>>)
getShowCatalog(u, l, s) ==
    /\ l \in libraryBySlug(db, u, l) /\ db.libs[l] = "series"
    /\ Ask(u, "show", {l}, <<s>>)
getShowSeasonEpisodes(u, l, s, n) ==
    /\ l \in libraryBySlug(db, u, l) /\ db.libs[l] = "series"
    /\ Ask(u, "season", {l}, <<s, n>>)

Shelves == {"favorites", "watched", "continue", "unwatched"}

ListAnswer(f) ==
    /\ f \in Calls("list")
    /\ LET l           == CHOOSE l \in f.ids : TRUE
           Marks(rows) == enrichCatalogFavorited(db, f.user, enrichCatalogWatched(db, f.user, rows))
       IN  Show(f, CASE f.list = "favorites" -> Favorites(db, f.user, f.ids)
                     [] f.list = "watched"   -> Watched(db, f.user, f.ids)
                     [] f.list = "continue"  -> Continue(db, f.user, f.ids)
                     [] f.list = "unwatched" -> Unwatched(db, f.user, f.ids)
                     [] f.list = "stats"     -> Stats(db, f.user, f.ids)
                     [] f.list = "search"    -> Search(db, f.ids)
                     [] f.list = "movies"    -> Marks(listMoviesPage(db, l))
                     [] f.list = "shows"     -> listShowsPage(db, l)
                     [] f.list = "show"      -> GetShow(db, l, f.key[1])
                     [] f.list = "season"    -> Marks(ListSeasonEpisodes(db, l, f.key[1], f.key[2])))
    /\ UNCHANGED tv

(* dlna: the television *)
Account(on) == /\ tv' = [tv EXCEPT !.on = on] /\ shown' = Nobody
               /\ UNCHANGED <<db, dirs, flight, subs, uses>>

Shows   == {Episode[p].show : p \in Files} \ {None}
Seasons == {Episode[p].season : p \in Files}
Objects == {<<"root">>} \cup ({"lib", "cat"} \X Libs) \cup ({"show"} \X Libs \X Shows)
           \cup ({"season"} \X Libs \X Shows \X Seasons)
           \cup ({"files"} \X Libs \X ({<<>>} \cup RootPaths))

\* tvUser, then findLibrary, whose type and roots are used for the answer.
BrowseDirectChildren(id) ==
    /\ tv.on
    /\ id[1] \in {"cat", "show", "season", "files"} => findLibrary(db, TV, id[2]) # {}
    /\ Suspend([op |-> "tv", user |-> TV, id |-> id, may |-> May(db, TV),
                type |-> IF Len(id) > 1 /\ id[2] \in DOMAIN db.libs THEN db.libs[id[2]] ELSE None,
                roots |-> IF Len(id) > 1 THEN Roots(db, id[2]) ELSE {}])

\* The catalog looks for the library again.
children(f) ==
    /\ f \in Calls("tv")
    /\ LET id     == f.id
           found  == id[1] \in {"cat", "show", "season"} => libraryBySlug(db, TV, id[2]) # {}
           series == found /\ f.type = "series" /\ db.libs[id[2]] = "series"
           items  == CASE id[1] = "root"  -> rootLibraries(db, TV)
                       [] id[1] = "lib"   -> libraryBranches
                       [] id[1] = "cat"   -> IF ~found THEN {}
                                             ELSE catalogChildren(db, TV, id[2], f.type, db.libs[id[2]])
                       [] id[1] = "files" -> filesChildren(db, TV, id[2], id[3], f.roots, OnDisk)
                       [] OTHER -> IF series THEN seriesCatalogChildren(db, TV, id[2], id) ELSE {}
       IN  /\ tv' = [tv EXCEPT !.urls = @ \cup {i.path : i \in {i \in items : "url" \in i.flags}}]
           /\ Show(f, items)

SignedUrlExpires(p) == /\ p \in tv.urls
                       /\ tv' = [tv EXCEPT !.urls = @ \ {p}] /\ shown' = Nobody
                       /\ UNCHANGED <<db, dirs, flight, subs, uses>>

\* A signed URL is checked against the account and the grants of the moment.
ServeHTTP(p) == p \in tv.urls /\ tv.on /\ ensurePermission(TV, p, CanRead(db, TV, p))

(* usersub: a viewer's own subtitles, one per user and path *)
Sub(u, p) == [user |-> u, path |-> p]
Keep(f, files) == /\ subs' = files /\ flight' = f /\ shown' = Nobody
                  /\ UNCHANGED <<db, dirs, tv, uses>>

putUserSubtitle(u, p)    == CanRead(db, u, p) /\ Suspend([op |-> "subPut", key |-> Sub(u, p)])
deleteUserSubtitle(u, p) == CanRead(db, u, p) /\ Suspend([op |-> "subDrop", key |-> Sub(u, p)])
getUserSubtitle(u, p)    == CanRead(db, u, p) /\ Suspend([op |-> "subGet", key |-> Sub(u, p)])

\* The text, then the metadata with its expiry.
PutText(f) == /\ f \in Calls("subPut") /\ Keep((flight \ {f}) \cup {[f EXCEPT !.op = "subMeta"]},
                                               [subs EXCEPT !.vtt = @ \cup {f.key}])
PutMeta(f) == /\ f \in Calls("subMeta")
              /\ Keep(flight \ {f}, [subs EXCEPT !.meta = Insert(@, f.key, "fresh")])

\* An expired subtitle is deleted after it was read.
readMeta(f) ==
    /\ f \in Calls("subGet")
    /\ LET stale == f.key \in DOMAIN subs.meta /\ f.key \in subs.vtt /\ subs.meta[f.key] = "expired"
       IN  Replace(f, IF stale THEN {[f EXCEPT !.op = "subDrop"]} ELSE {}, db)

DeleteSubtitle(f) ==
    /\ f \in Calls("subDrop")
    /\ Keep(flight \ {f}, [subs EXCEPT !.vtt = @ \ {f.key}, !.meta = Restrict(@, DOMAIN @ \ {f.key})])

SubtitleExpires(k) == /\ k \in DOMAIN subs.meta /\ subs.meta[k] = "fresh"
                      /\ Keep(flight, [subs EXCEPT !.meta[k] = "expired"])

(* Groups of endpoints *)
In(group) == group \in uses

Next ==
    \/ \E l \in Libs, t \in Types : In("libraries") /\ createLibrary(l, t)
    \/ \E l \in Libs : In("libraries") /\ deleteLibrary(l)
    \/ \E l \in Libs, t \in Types : In("libraries") /\ patchLibrary(l, t)
    \/ \E l \in Libs, p \in RootPaths : In("roots") /\ addLibraryRoot(l, p)
    \/ \E f \in flight : AddRootBegin(f)
    \/ \E f \in flight : AddRootCommit(f)
    \/ \E l \in Libs, p \in RootPaths : In("roots") /\ removeLibraryRoot(l, p)
    \/ In("sync") /\ syncLibraries
    \/ \E f \in Calls("sync") : \E r \in f.todo : pruneLibraryRoots(f, r)
    \/ \E u \in Users, w \in Wants : In("grants") /\ putUserLibraries(u, w)
    \/ \E f \in flight : SetUserGrants(f)
    \/ \E u \in Savers, p \in Saved, x \in Patches : In("watch") /\ patchWatch(u, p, x)
    \/ \E f \in flight : PatchWrite(f)
    \/ \E u \in Savers, p \in Saved, on \in BOOLEAN : In("favorite") /\ patchFavorite(u, p, on)
    \/ \E f \in flight : FavoriteWrite(f)
    \/ \E p \in Files : In("index") /\ IndexFile(p)
    \/ \E r \in RootPaths : In("sync") /\ FolderGone(r)
    \/ \E r \in RootPaths : In("sync") /\ FolderBack(r)
    \/ \E u \in Users, p \in Files : In("trash") /\ deleteMedia(u, p)
    \/ \E f \in flight : moveMediaToTrash(f)
    \/ \E p \in Files : In("trash") /\ restoreTrash(p)
    \/ \E p \in Files : In("trash") /\ deleteTrashForever(p)
    \/ \E f \in flight : OnPermanentDelete(f)
    \/ \E f \in flight : DeleteTrashRow(f)
    \/ \E u \in Users, p \in Files : In("open") /\ download(u, p)
    \/ \E u \in Users, p \in Files : In("open") /\ stream(u, p)
    \/ \E u \in Users, p \in Files : In("open") /\ thumbnail(u, p)
    \/ \E u \in Users, p \in Files : In("open") /\ play(u, p)
    \/ \E u \in Users, p \in Files : In("open") /\ getWatch(u, p)
    \/ \E u \in Users, p \in Files : In("open") /\ getFavorite(u, p)
    \/ \E f \in flight : Serve(f)
    \/ \E u \in Users, p \in RootPaths \cup {<<>>} : In("open") /\ browseWithPath(u, p)
    \/ \E f \in flight : BrowseAnswer(f)
    \/ \E u \in Users, s \in Shelves : In("lists") /\ homeItems(u, s)
    \/ \E u \in Users : In("lists") /\ getHomeStats(u)
    \/ \E u \in Users : In("lists") /\ searchMedia(u)
    \/ \E u \in Users, l \in Libs : In("catalog") /\ getLibraryCatalog(u, l)
    \/ \E u \in Users, l \in Libs, s \in Shows : In("catalog") /\ getShowCatalog(u, l, s)
    \/ \E u \in Users, l \in Libs, s \in Shows, n \in Seasons :
          In("catalog") /\ getShowSeasonEpisodes(u, l, s, n)
    \/ \E f \in flight : ListAnswer(f)
    \/ \E on \in BOOLEAN : In("tv") /\ Account(on)
    \/ \E id \in Objects : In("tv") /\ BrowseDirectChildren(id)
    \/ \E f \in flight : children(f)
    \/ \E p \in Files : SignedUrlExpires(p)
    \/ \E p \in Files : ServeHTTP(p)
    \/ \E u \in Users, p \in Saved : In("subtitles") /\ putUserSubtitle(u, p)
    \/ \E u \in Users, p \in Saved : In("subtitles") /\ getUserSubtitle(u, p)
    \/ \E u \in Users, p \in Saved : In("subtitles") /\ deleteUserSubtitle(u, p)
    \/ \E f \in flight : PutText(f)
    \/ \E f \in flight : PutMeta(f)
    \/ \E f \in flight : readMeta(f)
    \/ \E f \in flight : DeleteSubtitle(f)
    \/ \E k \in DOMAIN subs.meta : SubtitleExpires(k)

Spec == Init /\ [][Next]_vars

-----------------------------------------------------------------------------
\* The tables' shape (Consistent): roots, grants, rows and bin name what exists, and a grant row
\* grants something; the television's URLs and the viewers' subtitles are of files.
TypeOK ==
    /\ Consistent(db) /\ dirs \subseteq RootPaths
    /\ IsFiniteSet(flight) /\ Cardinality(flight) <= MaxFlight
    /\ tv \in [on : BOOLEAN, urls : SUBSET Files]
    /\ DOMAIN subs = {"vtt", "meta"}
    /\ subs.vtt \cup DOMAIN subs.meta \subseteq [user : Users, path : Files]

\* Roots are exclusive (AddRoot): no folder of one library lies in a folder of another, so a path
\* never belongs to two libraries, whatever adding, merging, removing, pruning and deleting came
\* before.  The code has no lock around AddRoot's checks: it holds for one AddRoot at a time.
RootsDisjoint == Exclusive(db)

\* Merging a folder into another library (reassignPrefix) keeps every viewer's progress and
\* favourites in it: whoever had a row under the old owner has one under the new owner.
MergeKeepsProgress ==
    [][\A r \in DOMAIN db.roots :
         (r \in DOMAIN db'.roots /\ db'.roots[r] # db.roots[r]) =>
            /\ \A k \in Below(DOMAIN db.watch, db.roots[r], r) :
                   [k EXCEPT !.lib = db'.roots[r]] \in DOMAIN db'.watch
            /\ \A k \in Below(db.fav, db.roots[r], r) :
                   [k EXCEPT !.lib = db'.roots[r]] \in db'.fav]_vars

\* A user's grants change as a whole (ReplaceUserGrants): apart from grants that go with their
\* library, the new ones are all those of one request, even when a library of the list was
\* deleted after the list was validated.
GrantsAreOneRequest ==
    [][\A u \in Users :
         \/ db'.grants[u] = Restrict(db.grants[u], DOMAIN db.grants[u] \cap DOMAIN db'.libs)
         \/ \E f \in Calls("grants") :
                /\ f.user = u
                /\ db'.grants[u] = Restrict(f.want, {l \in DOMAIN f.want : f.want[l] # {}})]_vars

\* Whatever the endpoints show a viewer (file, folder, shelf, search, catalog, television folder or
\* signed URL) is in a library on which the viewer held a read grant when asking or when being
\* answered; a file is marked watched or favourite only for the viewer who marked it.
ShownIsReadable ==
    \A i \in shown.items :
        /\ i.lib \in shown.may
        /\ (i.path # <<>> /\ "watched" \in i.flags) =>
               \E l \in Libs : GetWatch(db, Key(shown.user, l, i.path)).watched
        /\ "favorited" \in i.flags => \E l \in Libs : Key(shown.user, l, i.path) \in db.fav

\* "Nil fields are left unchanged" (watch.Patch): a watched title becomes unwatched only by a
\* patch that says so, which deletes the row.
NilFieldsUnchanged ==
    [][\A k \in DOMAIN db.watch \cap DOMAIN db'.watch :
          db.watch[k].watched => db'.watch[k].watched]_vars
=============================================================================
