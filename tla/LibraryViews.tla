---------------------------- MODULE LibraryViews ----------------------------
(***************************************************************************)
(* What the reading services compute from the tables: the decisions of     *)
(* internal/access, the flags and shelves of internal/watch,               *)
(* internal/favorite and internal/homeshelf, the pages of                  *)
(* internal/catalog and the folders of internal/dlna.  A view is the set   *)
(* of its items; a page is as long as the list, titles, posters and order  *)
(* are left out.                                                           *)
(***************************************************************************)
EXTENDS LibraryStore

\* Something shown: a file, a folder, or (empty path) a library, with its marks.
Item(l, p) == [lib |-> l, path |-> p, flags |-> {}]
Items(rows) == {Item(k.lib, k.path) : k \in rows}

(* access/service.go: decisions *)
permissionsForPath(d, u, p) ==
    UNION {GetUserGrantMap(d, u)[l] : l \in MatchLibrary(d, p) \cap DOMAIN GetUserGrantMap(d, u)}
checkPermission(d, u, p, perm) == u \in Admins \/ perm \in permissionsForPath(d, u, p)
CanRead(d, u, p)   == checkPermission(d, u, p, "read")
CanDelete(d, u, p) == checkPermission(d, u, p, "delete")
CanBrowse(d, u, p) == p = <<>> \/ CanRead(d, u, p)

\* Mutant: a user without any grant row is treated like an administrator.
ListReadableUnlessNone(d, u) ==
    IF u \in Admins \/ DOMAIN d.grants[u] = {} THEN DOMAIN d.libs
    ELSE {l \in DOMAIN d.libs \cap DOMAIN d.grants[u] : "read" \in d.grants[u][l]}

ListReadableLibraries(d, u) ==
    IF u \in Admins THEN DOMAIN d.libs
    ELSE {l \in DOMAIN d.libs \cap DOMAIN d.grants[u] : "read" \in d.grants[u][l]}

GetUserGrants(d, u)  == [l \in DOMAIN d.libs |-> IF l \in DOMAIN d.grants[u] THEN d.grants[u][l] ELSE {}]
validateGrantInputs(d, want) == DOMAIN want \subseteq DOMAIN d.libs

FilterBrowseResponse(d, u, children) ==
    {c \in children : MatchLibrary(d, c) # {} /\ (u \in Admins \/ CanRead(d, u, c))}

(* watch and favorite: marks on the files of a folder, resolved through the folder's library *)
WatchedForPaths(d, u, folder, paths) ==
    {p \in paths : \E l \in MatchLibrary(d, folder) : GetWatch(d, Key(u, l, p)).watched}
FavoritedForPaths(d, u, folder, paths) ==
    {p \in paths : \E l \in MatchLibrary(d, folder) : Key(u, l, p) \in d.fav}

Mark(items, paths, flag) ==
    {[i EXCEPT !.flags = IF i.path \in paths THEN @ \cup {flag} ELSE @] : i \in items}
FilePaths(items) == {i.path : i \in items} \cap Files

enrichItemsWatched(d, u, folder, items) ==
    Mark(items, WatchedForPaths(d, u, folder, FilePaths(items)), "watched")
enrichItemsFavorited(d, u, folder, items) ==
    Mark(items, FavoritedForPaths(d, u, folder, FilePaths(items)), "favorited")
enrichItemsPermissions(d, u, items) ==
    Mark(items, {i.path : i \in {i \in items : CanDelete(d, u, i.path)}}, "delete")

(* homeshelf/service.go: shelves, within the readable libraries `ids` *)
Favorites(d, u, ids) == Items(ListFavorites(d, u, ids))
Watched(d, u, ids)   == Items(ListWatched(d, u, ids))
Continue(d, u, ids)  == Items(ListContinue(d, u, ids))
Unwatched(d, u, ids) == Items(ListUnwatched(d, u, ids))

\* Watched rows over indexed rows, capped at all of them.
Stats(d, u, ids) ==
    LET total(l) == Cardinality({m \in d.media : m.lib = l})
        seen(l)  == Cardinality(ListWatched(d, u, {l}))
    IN  {IF total(l) > 0 /\ seen(l) >= total(l) THEN [Item(l, <<>>) EXCEPT !.flags = {"watched"}]
         ELSE Item(l, <<>>) : l \in ids}

Search(d, ids) == Items({m \in SearchRows(d, ids) : m.lib \in DOMAIN d.libs})

(* catalog/service.go *)
libraryBySlug(d, u, l) == {l} \cap ListReadableLibraries(d, u)

listMoviesPage(d, l) == Items(ListCatalogMoviesPage(d, l))
listShowsPage(d, l)  == Items(ListCatalogShowsPage(d, l))
GetShow(d, l, s)     == Items(GetCatalogShowAgg(d, l, s))
ListSeasonEpisodes(d, l, s, n) ==
    IF CatalogShowExists(d, l, s) THEN Items(ListCatalogSeasonEpisodes(d, l, s, n)) ELSE {}

\* The marks of a catalog page: the library is resolved through the page's first path.
First(items) == CHOOSE p \in FilePaths(items) : TRUE
enrichCatalogWatched(d, u, items) ==
    IF items = {} THEN {} ELSE enrichItemsWatched(d, u, First(items), items)
enrichCatalogFavorited(d, u, items) ==
    IF items = {} THEN {} ELSE enrichItemsFavorited(d, u, First(items), items)

(* dlna/browse.go: the folders of a television.  An object is a tuple: <<"root">>, <<"lib", l>>,  *)
(* <<"cat", l>>, <<"show", l, s>>, <<"season", l, s, n>>, <<"files", l, p>>.                      *)
findLibrary(d, u, l) == {l} \cap ListReadableLibraries(d, u)

rootLibraries(d, u) ==
    {Item(l, <<>>) : l \in {l \in ListReadableLibraries(d, u) : d.libs[l] \notin {"music", "photos"}}}

libraryBranches == {}     \* two fixed folders, whatever the id

\* A file gets a signed URL if it may be read.
videoItem(d, u, items) ==
    {[i EXCEPT !.flags = {"url"}] : i \in {i \in items : CanRead(d, u, i.path)}}

\* The library's type as found first decides, the catalog page follows the type it has now.
catalogChildren(d, u, l, type, now) ==
    CASE type = "film" /\ now = "film"     -> videoItem(d, u, listMoviesPage(d, l))
      [] type = "series" /\ now = "series" -> listShowsPage(d, l)
      [] OTHER                             -> {}

\* A show's seasons are folders under its first file; a season's episodes are files.
seriesCatalogChildren(d, u, l, id) ==
    IF id[1] = "show" THEN GetShow(d, l, id[3])
    ELSE videoItem(d, u, ListSeasonEpisodes(d, l, id[3], id[4]))

\* Several roots are folders of their own; the only root is opened.
filesChildren(d, u, l, p, roots, onDisk) ==
    LET folder   == IF p # <<>> \/ Cardinality(roots) # 1 THEN p ELSE CHOOSE r \in roots : TRUE
        children == {c \in onDisk : Len(c) = Len(folder) + 1 /\ IsPrefix(folder, c) /\ CanRead(d, u, c)}
        Owned(c) == {Item(o, c) : o \in MatchLibrary(d, c)}
    IN  IF p = <<>> /\ Cardinality(roots) # 1 THEN {Item(l, r) : r \in roots}
        ELSE UNION {IF c \in Files THEN videoItem(d, u, Owned(c)) ELSE Owned(c) : c \in children}
=============================================================================
