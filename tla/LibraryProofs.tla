---------------------------- MODULE LibraryProofs ----------------------------
(***************************************************************************)
(* Theorems about Library, for any number of libraries, users, folders,    *)
(* files and calls in flight.                                              *)
(*                                                                         *)
(* The statements of LibraryStore are related to Shrinks(d, e): e is as    *)
(* consistent as d, has no library, root or grant that d does not have.    *)
(* Only CreateLibrary, AddRootWrite and ReplaceUserGrants do more, and     *)
(* each has its lemma.  A call in flight is described by what it read      *)
(* (Sound), which no other call can spoil.                                 *)
(***************************************************************************)
EXTENDS Library, FiniteSetTheorems, SequenceTheorems, TLAPS

Paths == Seq(STRING) \ {<<>>}

-----------------------------------------------------------------------------
(* Paths *)

\* A prefix in terms of its segments.
LEMMA PrefixSegments ==
  ASSUME NEW s \in Seq(STRING), NEW t \in Seq(STRING)
  PROVE  IsPrefix(s, t) <=> Len(s) <= Len(t) /\ \A i \in 1 .. Len(s) : s[i] = t[i]
<1>1. Len(s) \in Nat /\ Len(t) \in Nat /\ SubSeq(s, 1, Len(s)) = s
  BY SubSeqFull
<1>2. CASE Len(s) <= Len(t)
  <2>1. CASE Len(s) = 0
    BY <1>1, <1>2, <2>1, SubSeqEmpty, EmptySeq DEF IsPrefix
  <2>2. CASE Len(s) # 0
    <3>1. /\ SubSeq(t, 1, Len(s)) \in Seq(STRING) /\ Len(SubSeq(t, 1, Len(s))) = Len(s)
          /\ \A i \in 1 .. Len(s) : SubSeq(t, 1, Len(s))[i] = t[i]
      <4>1. 1 \in 1 .. Len(t) + 1 /\ Len(s) \in 1 - 1 .. Len(t)
        BY <1>1, <1>2, <2>2
      <4>2. Len(s) - 1 + 1 = Len(s) /\ \A i \in 1 .. Len(s) : 1 + i - 1 = i
        BY <1>1
      <4> QED
        BY <1>1, <1>2, <2>2, <4>1, <4>2, SubSeqProperties
    <3>2. (\A i \in 1 .. Len(s) : s[i] = t[i]) => s = SubSeq(t, 1, Len(s))
      BY <3>1, <1>1
    <3> QED
      BY <1>1, <1>2, <3>1, <3>2 DEF IsPrefix
  <2> QED
    BY <2>1, <2>2
<1> QED
  BY <1>2 DEF IsPrefix

\* Two folders over the same path: one lies in the other, and two of the same depth are one.
LEMMA Chain ==
  ASSUME NEW p \in Paths, NEW q \in Paths, NEW x \in Paths,
         PathWithinRoot(x, p), PathWithinRoot(x, q)
  PROVE  /\ RootsOverlap(p, q)
         /\ Len(p) = Len(q) => p = q
<1>1. Len(p) \in Nat /\ Len(q) \in Nat /\ Len(x) \in Nat /\ p # <<>> /\ q # <<>>
  BY DEF Paths
<1>2. /\ Len(p) <= Len(x) /\ \A i \in 1 .. Len(p) : p[i] = x[i]
      /\ Len(q) <= Len(x) /\ \A i \in 1 .. Len(q) : q[i] = x[i]
  BY PrefixSegments DEF Paths, PathWithinRoot
<1>3. CASE Len(p) <= Len(q)
  <2>1. \A i \in 1 .. Len(p) : p[i] = q[i]
    BY <1>1, <1>2, <1>3
  <2> QED
    BY <1>1, <1>3, <2>1, PrefixSegments, SeqEqual DEF Paths, PathWithinRoot, RootsOverlap
<1>4. CASE Len(q) <= Len(p)
  <2>1. \A i \in 1 .. Len(q) : q[i] = p[i]
    BY <1>1, <1>2, <1>4
  <2> QED
    BY <1>1, <1>4, <2>1, PrefixSegments, SeqEqual DEF Paths, PathWithinRoot, RootsOverlap
<1> QED
  BY <1>1, <1>3, <1>4

LEMMA MatchIsLibrary ==
  ASSUME NEW d, Consistent(d), NEW p
  PROVE  MatchLibrary(d, p) \subseteq DOMAIN d.libs
  BY DEF MatchLibrary, Consistent

\* A path belongs to one library at most.
LEMMA OneLibrary ==
  ASSUME NEW d, Consistent(d), NEW p \in Paths
  PROVE  \A l, k \in MatchLibrary(d, p) : l = k
<1> DEFINE over == {r \in DOMAIN d.roots : PathWithinRoot(p, r)}
<1>1. \A r \in DOMAIN d.roots : r \in Paths /\ d.roots[r] \in DOMAIN d.libs
  BY LibraryAssumption DEF Consistent, Paths
<1>2. ASSUME NEW r \in over, NEW q \in over, Len(r) <= Len(q), Len(q) <= Len(r)
      PROVE  r = q
  <2>1. Len(r) = Len(q)
    BY <1>1, <1>2, LenProperties DEF Paths
  <2> QED
    BY <1>1, <2>1, Chain
<1> QED
  BY <1>1, <1>2 DEF MatchLibrary

-----------------------------------------------------------------------------
(* The statements of LibraryStore *)

\* No grant changes, but for those that go with a library.
GrantsFollow(d, e) ==
    \A u \in Users : e.grants[u] = Restrict(d.grants[u], DOMAIN d.grants[u] \cap DOMAIN e.libs)

\* From d to the consistent e no library, root or grant is new.
Shrinks(d, e) ==
    /\ Consistent(e)
    /\ DOMAIN e.libs \subseteq DOMAIN d.libs
    /\ DOMAIN e.roots \subseteq DOMAIN d.roots
    /\ \A r \in DOMAIN e.roots : e.roots[r] = d.roots[r]
    /\ GrantsFollow(d, e)

\* Statements that touch the viewers' rows, the index and the bin alone
RowsGood(d) ==
    /\ DOMAIN d.watch \cup d.fav \subseteq [user : Users, lib : DOMAIN d.libs, path : Files]
    /\ d.media \subseteq [lib : DOMAIN d.libs, path : Files]
    /\ d.bin \subseteq Files

LEMMA RestrictAll ==
  ASSUME NEW f, NEW S, NEW T, f \in [DOMAIN f -> T], DOMAIN f \subseteq S
  PROVE  Restrict(f, DOMAIN f \cap S) = f
<1>1. DOMAIN f \cap S = DOMAIN f
  OBVIOUS
<1>2. [x \in DOMAIN f |-> f[x]] = f
  OBVIOUS
<1> QED
  BY <1>1, <1>2 DEF Restrict

LEMMA GrantsStay ==
  ASSUME NEW d, NEW e, Consistent(d), e.grants = d.grants, DOMAIN d.libs \subseteq DOMAIN e.libs
  PROVE  GrantsFollow(d, e)
<1> SUFFICES ASSUME NEW u \in Users
             PROVE  e.grants[u] = Restrict(d.grants[u], DOMAIN d.grants[u] \cap DOMAIN e.libs)
  BY DEF GrantsFollow
<1>1. /\ DOMAIN d.grants[u] \subseteq DOMAIN e.libs
      /\ d.grants[u] \in [DOMAIN d.grants[u] -> (SUBSET Perms) \ {{}}]
  BY DEF Consistent
<1> QED
  BY <1>1, RestrictAll

LEMMA ShrinksSame == ASSUME NEW d, Consistent(d) PROVE Shrinks(d, d)
  BY GrantsStay DEF Shrinks

LEMMA ShrinksTrans ==
  ASSUME NEW c, NEW d, NEW e, Shrinks(c, d), Shrinks(d, e)
  PROVE  Shrinks(c, e)
<1>1. ASSUME NEW u \in Users
      PROVE  e.grants[u] = Restrict(c.grants[u], DOMAIN c.grants[u] \cap DOMAIN e.libs)
  <2>1. /\ d.grants[u] = Restrict(c.grants[u], DOMAIN c.grants[u] \cap DOMAIN d.libs)
        /\ e.grants[u] = Restrict(d.grants[u], DOMAIN d.grants[u] \cap DOMAIN e.libs)
    BY DEF Shrinks, GrantsFollow
  <2>2. DOMAIN d.grants[u] \cap DOMAIN e.libs = DOMAIN c.grants[u] \cap DOMAIN e.libs
    BY <2>1 DEF Shrinks, Restrict
  <2> QED
    BY <2>1, <2>2 DEF Restrict
<1> QED
  BY <1>1 DEF Shrinks, GrantsFollow

\* Only roots go, and rows change.
LEMMA RootsShrink ==
  ASSUME NEW d, NEW e, Consistent(d), DOMAIN e = DOMAIN d,
         e.libs = d.libs, e.grants = d.grants, RowsGood(e),
         DOMAIN e.roots \subseteq DOMAIN d.roots,
         \A r \in DOMAIN e.roots : e.roots[r] = d.roots[r]
  PROVE  Shrinks(d, e)
<1>1. Consistent(e)
  BY DEF Consistent, RowsGood
<1> QED
  BY <1>1, GrantsStay DEF Shrinks

LEMMA DeleteLibraryShrinks ==
  ASSUME NEW d, Consistent(d), NEW l
  PROVE  Shrinks(d, DeleteLibrary(d, l).db)
<1>1. CASE l \notin DOMAIN d.libs
  BY <1>1, ShrinksSame DEF DeleteLibrary, R
<1>2. CASE l \in DOMAIN d.libs
  <2> DEFINE e == DeleteLibrary(d, l).db
  <2>1. /\ DOMAIN e = DOMAIN d
        /\ e.libs = Restrict(d.libs, DOMAIN d.libs \ {l})
        /\ e.roots = Restrict(d.roots, DOMAIN d.roots \ Roots(d, l))
        /\ e.grants = [u \in Users |-> Restrict(d.grants[u], DOMAIN d.grants[u] \ {l})]
        /\ e.media = {k \in d.media : k.lib # l}
        /\ e.watch = Restrict(d.watch, {k \in DOMAIN d.watch : k.lib # l})
        /\ e.fav = {k \in d.fav : k.lib # l}
        /\ e.bin = d.bin
    BY <1>2 DEF DeleteLibrary, R, Consistent
  <2> HIDE DEF e
  <2>2. /\ DOMAIN e.libs = DOMAIN d.libs \ {l}
        /\ \A k \in DOMAIN e.libs : e.libs[k] = d.libs[k]
        /\ DOMAIN e.roots = DOMAIN d.roots \ Roots(d, l)
        /\ \A r \in DOMAIN e.roots : e.roots[r] = d.roots[r]
        /\ DOMAIN e.watch = {k \in DOMAIN d.watch : k.lib # l}
    BY <2>1 DEF Restrict
  <2>3. ASSUME NEW u \in Users
        PROVE  /\ e.grants[u] = Restrict(d.grants[u], DOMAIN d.grants[u] \cap DOMAIN e.libs)
               /\ DOMAIN e.grants[u] \subseteq DOMAIN e.libs
               /\ e.grants[u] \in [DOMAIN e.grants[u] -> (SUBSET Perms) \ {{}}]
    <3>1. /\ DOMAIN d.grants[u] \subseteq DOMAIN d.libs
          /\ d.grants[u] \in [DOMAIN d.grants[u] -> (SUBSET Perms) \ {{}}]
      BY DEF Consistent
    <3>2. DOMAIN d.grants[u] \cap DOMAIN e.libs = DOMAIN d.grants[u] \ {l}
      BY <2>2, <3>1
    <3>3. e.grants[u] = Restrict(d.grants[u], DOMAIN d.grants[u] \ {l})
      BY <2>1
    <3> QED
      BY <2>2, <3>1, <3>2, <3>3 DEF Restrict
  <2>4. DOMAIN e.watch \cup e.fav \subseteq [user : Users, lib : DOMAIN e.libs, path : Files]
    BY <2>1, <2>2 DEF Consistent
  <2>5. e.media \subseteq [lib : DOMAIN e.libs, path : Files]
    BY <2>1, <2>2 DEF Consistent
  <2>6. \A r \in DOMAIN e.roots : e.roots[r] \in DOMAIN e.libs
    BY <2>2 DEF Consistent, Roots
  <2>7. Consistent(e)
    BY <2>1, <2>2, <2>3, <2>4, <2>5, <2>6 DEF Consistent
  <2>8. Shrinks(d, e)
    BY <2>2, <2>3, <2>7 DEF Shrinks, GrantsFollow
  <2> QED
    BY <2>8 DEF e
<1> QED
  BY <1>1, <1>2

LEMMA UpdateLibraryShrinks ==
  ASSUME NEW d, Consistent(d), NEW l, NEW t \in Types
  PROVE  Shrinks(d, UpdateLibrary(d, l, t).db)
<1>1. CASE l \notin DOMAIN d.libs
  BY <1>1, ShrinksSame DEF UpdateLibrary, R
<1>2. CASE l \in DOMAIN d.libs
  <2> DEFINE e == [d EXCEPT !.libs[l] = t]
  <2>1. /\ DOMAIN e = DOMAIN d /\ e.roots = d.roots /\ e.grants = d.grants /\ e.media = d.media
        /\ e.watch = d.watch /\ e.fav = d.fav /\ e.bin = d.bin /\ DOMAIN e.libs = DOMAIN d.libs
        /\ \A k \in DOMAIN e.libs : e.libs[k] = IF k = l THEN t ELSE d.libs[k]
    BY <1>2 DEF Consistent
  <2> HIDE DEF e
  <2>2. Consistent(e)
    BY <2>1 DEF Consistent
  <2>3. Shrinks(d, e)
    BY <2>1, <2>2, GrantsStay DEF Shrinks
  <2> QED
    BY <1>2, <2>3 DEF e, UpdateLibrary, R
<1> QED
  BY <1>1, <1>2

LEMMA deleteLibraryIfEmptyShrinks ==
  ASSUME NEW d, Consistent(d), NEW l
  PROVE  Shrinks(d, deleteLibraryIfEmpty(d, l))
  BY DeleteLibraryShrinks, ShrinksSame DEF deleteLibraryIfEmpty

\* A library without roots goes with its rows alone.
LEMMA deleteLibraryIfEmptyKeeps ==
  ASSUME NEW d, Consistent(d), NEW l
  PROVE  LET e == deleteLibraryIfEmpty(d, l)
         IN  /\ DOMAIN e.roots = DOMAIN d.roots
             /\ \A k \in DOMAIN d.watch : k.lib # l => k \in DOMAIN e.watch
             /\ \A k \in d.fav : k.lib # l => k \in e.fav
<1>1. CASE Roots(d, l) = {} /\ l \in DOMAIN d.libs
  <2> DEFINE e == DeleteLibrary(d, l).db
  <2>1. /\ e.roots = Restrict(d.roots, DOMAIN d.roots \ Roots(d, l))
        /\ e.watch = Restrict(d.watch, {k \in DOMAIN d.watch : k.lib # l})
        /\ e.fav = {k \in d.fav : k.lib # l}
    BY <1>1 DEF DeleteLibrary, R, Consistent
  <2>2. deleteLibraryIfEmpty(d, l) = e
    BY <1>1 DEF deleteLibraryIfEmpty
  <2> HIDE DEF e
  <2> QED
    BY <1>1, <2>1, <2>2 DEF Restrict
<1>2. CASE ~(Roots(d, l) = {} /\ l \in DOMAIN d.libs)
  BY <1>2 DEF deleteLibraryIfEmpty, DeleteLibrary, R
<1> QED
  BY <1>1, <1>2

LEMMA deletePrefixRowsShrinks ==
  ASSUME NEW d, Consistent(d), NEW l, NEW p
  PROVE  Shrinks(d, deletePrefixRows(d, l, p))
<1> DEFINE e == deletePrefixRows(d, l, p)
<1>1. /\ DOMAIN e = DOMAIN d /\ e.libs = d.libs /\ e.roots = d.roots /\ e.grants = d.grants
      /\ e.media \subseteq d.media /\ e.fav \subseteq d.fav /\ e.bin = d.bin
      /\ DOMAIN e.watch \subseteq DOMAIN d.watch
  BY DEF Consistent, deletePrefixRows, Restrict
<1> HIDE DEF e
<1>2. RowsGood(e)
  BY <1>1 DEF Consistent, RowsGood
<1>3. Shrinks(d, e)
  BY <1>1, <1>2, RootsShrink
<1> QED
  BY <1>3 DEF e

\* What reassignPrefix does: rows at and below p move from src to dest.
LEMMA reassignPrefixMoves ==
  ASSUME NEW d, Consistent(d), NEW src, NEW dest \in DOMAIN d.libs, src # dest, NEW p
  PROVE  LET e == reassignPrefix(d, src, dest, p)
         IN  /\ DOMAIN e = DOMAIN d /\ e.libs = d.libs /\ e.roots = d.roots /\ e.grants = d.grants
             /\ RowsGood(e)
             /\ \A k \in Below(DOMAIN d.watch, src, p) : [k EXCEPT !.lib = dest] \in DOMAIN e.watch
             /\ \A k \in Below(d.fav, src, p) : [k EXCEPT !.lib = dest] \in e.fav
<1> DEFINE Moved(rows) == {[k EXCEPT !.lib = dest] : k \in Below(rows, src, p)}
           watched == DOMAIN d.watch \cup Moved(DOMAIN d.watch)
           table == [k \in watched |->
                       IF k \in DOMAIN d.watch THEN d.watch[k] ELSE d.watch[[k EXCEPT !.lib = src]]]
           m == [d EXCEPT !.media = @ \cup Moved(@), !.fav = @ \cup Moved(@), !.watch = table]
           e == deletePrefixRows(m, src, p)
           K == [user : Users, lib : DOMAIN d.libs, path : Files]
           M == [lib : DOMAIN d.libs, path : Files]
<1>1. reassignPrefix(d, src, dest, p) = e
  BY DEF reassignPrefix, Consistent
<1>2. /\ DOMAIN m = DOMAIN d /\ m.libs = d.libs /\ m.roots = d.roots /\ m.grants = d.grants
      /\ m.media = d.media \cup Moved(d.media) /\ m.fav = d.fav \cup Moved(d.fav)
      /\ m.watch = table /\ m.bin = d.bin
  BY DEF Consistent
<1>3. ASSUME NEW rows \in SUBSET K, NEW k \in Below(rows, src, p)
      PROVE  [k EXCEPT !.lib = dest] \in K /\ [k EXCEPT !.lib = dest].lib = dest
  BY <1>3 DEF Below
<1>4. ASSUME NEW k \in Below(d.media, src, p)
      PROVE  [k EXCEPT !.lib = dest] \in M
  BY <1>4 DEF Below, Consistent
<1>5. DOMAIN d.watch \in SUBSET K /\ d.fav \in SUBSET K /\ d.media \subseteq M /\ d.bin \subseteq Files
  BY DEF Consistent
<1> HIDE DEF K, M
<1>6. Moved(DOMAIN d.watch) \subseteq K /\ Moved(d.fav) \subseteq K /\ Moved(d.media) \subseteq M
  BY <1>3, <1>4, <1>5
<1>7. /\ \A k \in Moved(DOMAIN d.watch) : k.lib = dest
      /\ \A k \in Moved(d.fav) : k.lib = dest
  BY <1>3, <1>5
<1> HIDE DEF Moved
<1>8. DOMAIN m.watch = watched
  BY <1>2
<1> HIDE DEF m, table
<1>9. /\ DOMAIN e = DOMAIN d /\ e.libs = d.libs /\ e.roots = d.roots /\ e.grants = d.grants
      /\ e.media = m.media \ Below(m.media, src, p) /\ e.fav = m.fav \ Below(m.fav, src, p)
      /\ DOMAIN e.watch = watched \ Below(watched, src, p) /\ e.bin = d.bin
  BY <1>2, <1>8 DEF deletePrefixRows, Restrict, Consistent
<1> HIDE DEF e
<1>10. RowsGood(e)
  BY <1>2, <1>5, <1>6, <1>9 DEF RowsGood, K, M
<1>11. Moved(DOMAIN d.watch) \subseteq DOMAIN e.watch /\ Moved(d.fav) \subseteq e.fav
  BY <1>2, <1>7, <1>9 DEF Below
<1>12. /\ \A k \in Below(DOMAIN d.watch, src, p) : [k EXCEPT !.lib = dest] \in DOMAIN e.watch
       /\ \A k \in Below(d.fav, src, p) : [k EXCEPT !.lib = dest] \in e.fav
  BY <1>11 DEF Moved
<1> QED
  BY <1>1, <1>9, <1>10, <1>12

LEMMA RemoveRootShrinks ==
  ASSUME NEW d, Consistent(d), NEW l, NEW p
  PROVE  Shrinks(d, RemoveRoot(d, l, p).db)
<1> DEFINE c == deletePrefixRows(d, l, p)
           gone == [c EXCEPT !.roots = Restrict(@, DOMAIN @ \ {p})]
<1>1. Shrinks(d, c)
  BY deletePrefixRowsShrinks
<1> HIDE DEF c
<1>2. /\ DOMAIN gone = DOMAIN c /\ gone.libs = c.libs /\ gone.grants = c.grants /\ RowsGood(gone)
      /\ DOMAIN gone.roots \subseteq DOMAIN c.roots
      /\ \A r \in DOMAIN gone.roots : gone.roots[r] = c.roots[r]
  BY <1>1 DEF Shrinks, Consistent, RowsGood, Restrict
<1> HIDE DEF gone
<1>3. Shrinks(c, gone)
  BY <1>1, <1>2, RootsShrink DEF Shrinks
<1>4. Shrinks(d, gone)
  BY <1>1, <1>3, ShrinksTrans
<1>5. Shrinks(d, DeleteLibrary(gone, l).db)
  BY <1>4, DeleteLibraryShrinks, ShrinksTrans DEF Shrinks
<1> QED
  BY <1>4, <1>5, ShrinksSame DEF RemoveRoot, R, c, gone

\* Progress, favourites, the index and the bin.
LEMMA WatchShrinks ==
  ASSUME NEW d, Consistent(d), NEW k, NEW state,
         k.lib \in DOMAIN d.libs => k \in [user : Users, lib : DOMAIN d.libs, path : Files]
  PROVE  Shrinks(d, Clear(d, k).db) /\ Shrinks(d, Upsert(d, k, state).db)
<1> DEFINE e(w) == [d EXCEPT !.watch = w]
<1>1. ASSUME NEW w, DOMAIN w \subseteq [user : Users, lib : DOMAIN d.libs, path : Files]
      PROVE  Shrinks(d, e(w))
  <2>1. /\ DOMAIN e(w) = DOMAIN d /\ e(w).libs = d.libs /\ e(w).roots = d.roots
        /\ e(w).grants = d.grants /\ RowsGood(e(w))
    BY <1>1 DEF Consistent, RowsGood
  <2> HIDE DEF e
  <2> QED
    BY <2>1, RootsShrink
<1>2. DOMAIN d.watch \subseteq [user : Users, lib : DOMAIN d.libs, path : Files]
  BY DEF Consistent
<1>3. Shrinks(d, e(Restrict(d.watch, DOMAIN d.watch \ {k})))
  BY <1>1, <1>2 DEF Restrict
<1>4. ASSUME k \in [user : Users, lib : DOMAIN d.libs, path : Files]
      PROVE  Shrinks(d, e(Insert(d.watch, k, state)))
  BY <1>1, <1>2, <1>4 DEF Insert
<1> QED
  BY <1>3, <1>4, ShrinksSame DEF Clear, Upsert, R

LEMMA SetFavoriteShrinks ==
  ASSUME NEW d, Consistent(d), NEW k, NEW on,
         k.lib \in DOMAIN d.libs => k \in [user : Users, lib : DOMAIN d.libs, path : Files]
  PROVE  Shrinks(d, SetFavorite(d, k, on).db)
<1> DEFINE e(f) == [d EXCEPT !.fav = f]
<1>1. ASSUME NEW f, f \subseteq [user : Users, lib : DOMAIN d.libs, path : Files]
      PROVE  Shrinks(d, e(f))
  <2>1. /\ DOMAIN e(f) = DOMAIN d /\ e(f).libs = d.libs /\ e(f).roots = d.roots
        /\ e(f).grants = d.grants /\ RowsGood(e(f))
    BY <1>1 DEF Consistent, RowsGood
  <2> HIDE DEF e
  <2> QED
    BY <2>1, RootsShrink
<1>2. d.fav \subseteq [user : Users, lib : DOMAIN d.libs, path : Files]
  BY DEF Consistent
<1>3. Shrinks(d, e(d.fav \ {k}))
  BY <1>1, <1>2
<1>4. k.lib \in DOMAIN d.libs => Shrinks(d, e(d.fav \cup {k}))
  BY <1>1, <1>2
<1> QED
  BY <1>3, <1>4, ShrinksSame DEF SetFavorite, R

LEMMA IndexShrinks ==
  ASSUME NEW d, Consistent(d), NEW m, m \subseteq [lib : DOMAIN d.libs, path : Files]
  PROVE  Shrinks(d, [d EXCEPT !.media = m])
<1> DEFINE e == [d EXCEPT !.media = m]
<1>1. /\ DOMAIN e = DOMAIN d /\ e.libs = d.libs /\ e.roots = d.roots /\ e.grants = d.grants
      /\ RowsGood(e)
  BY DEF Consistent, RowsGood
<1> HIDE DEF e
<1>2. Shrinks(d, e)
  BY <1>1, RootsShrink
<1> QED
  BY <1>2 DEF e

LEMMA BinShrinks ==
  ASSUME NEW d, Consistent(d), NEW b, b \subseteq Files
  PROVE  Shrinks(d, [d EXCEPT !.bin = b])
<1> DEFINE e == [d EXCEPT !.bin = b]
<1>1. /\ DOMAIN e = DOMAIN d /\ e.libs = d.libs /\ e.roots = d.roots /\ e.grants = d.grants
      /\ RowsGood(e)
  BY DEF Consistent, RowsGood
<1> HIDE DEF e
<1>2. Shrinks(d, e)
  BY <1>1, RootsShrink
<1> QED
  BY <1>2 DEF e

LEMMA PermanentDeleteShrinks ==
  ASSUME NEW d, Consistent(d), NEW p
  PROVE  /\ Shrinks(d, DeleteMetadataForPath(d, p))
         /\ Shrinks(d, DeleteWatchForPath(d, p))
         /\ Shrinks(d, DeleteFavoriteForPath(d, p))
<1> DEFINE w == [d EXCEPT !.watch = Restrict(@, Cut(d, DOMAIN @, p))]
           f == [d EXCEPT !.fav = Cut(d, @, p)]
<1>1. Shrinks(d, DeleteMetadataForPath(d, p))
  BY IndexShrinks DEF DeleteMetadataForPath, Cut, Consistent
<1>2. /\ DOMAIN w = DOMAIN d /\ w.libs = d.libs /\ w.roots = d.roots /\ w.grants = d.grants
      /\ RowsGood(w)
  BY DEF Consistent, RowsGood, Cut, Restrict
<1>3. /\ DOMAIN f = DOMAIN d /\ f.libs = d.libs /\ f.roots = d.roots /\ f.grants = d.grants
      /\ RowsGood(f)
  BY DEF Consistent, RowsGood, Cut
<1> HIDE DEF w, f
<1>4. Shrinks(d, w) /\ Shrinks(d, f)
  BY <1>2, <1>3, RootsShrink
<1> QED
  BY <1>1, <1>4 DEF w, f, DeleteWatchForPath, DeleteFavoriteForPath

LEMMA CreateLibraryStep ==
  ASSUME NEW d, Consistent(d), NEW l \in Libs, l \notin DOMAIN d.libs, NEW t \in Types
  PROVE  LET e == CreateLibrary(d, l, t).db
         IN  Consistent(e) /\ GrantsFollow(d, e) /\ e.roots = d.roots
<1> DEFINE e == [d EXCEPT !.libs = Insert(@, l, t)]
<1>1. /\ DOMAIN e = DOMAIN d /\ e.roots = d.roots /\ e.grants = d.grants /\ e.media = d.media
      /\ e.watch = d.watch /\ e.fav = d.fav /\ e.bin = d.bin
      /\ DOMAIN e.libs = DOMAIN d.libs \cup {l}
      /\ \A k \in DOMAIN e.libs : e.libs[k] = IF k = l THEN t ELSE d.libs[k]
  BY DEF Consistent, Insert
<1> HIDE DEF e
<1>2. e.media \subseteq [lib : DOMAIN e.libs, path : Files]
  BY <1>1 DEF Consistent
<1>3. DOMAIN e.watch \cup e.fav \subseteq [user : Users, lib : DOMAIN e.libs, path : Files]
  BY <1>1 DEF Consistent
<1>4. Consistent(e)
  BY <1>1, <1>2, <1>3 DEF Consistent
<1>5. GrantsFollow(d, e)
  BY <1>1, GrantsStay
<1> QED
  BY <1>1, <1>4, <1>5 DEF e, CreateLibrary, R

\* The list of one request, without its empty entries.
LEMMA ReplaceUserGrantsStep ==
  ASSUME NEW d, Consistent(d), NEW u \in Users, NEW want, want \in [DOMAIN want -> SUBSET Perms]
  PROVE  LET e == ReplaceUserGrants(d, u, want).db
         IN  /\ Consistent(e) /\ e.roots = d.roots
             /\ \/ e = d
                \/ /\ e.grants[u] = Restrict(want, {l \in DOMAIN want : want[l] # {}})
                   /\ e.libs = d.libs
                   /\ \A v \in Users \ {u} : e.grants[v] = d.grants[v]
<1> DEFINE rows == {l \in DOMAIN want : want[l] # {}}
           e == [d EXCEPT !.grants[u] = Restrict(want, rows)]
<1>1. CASE ~(rows \subseteq DOMAIN d.libs)
  BY <1>1 DEF ReplaceUserGrants, R
<1>2. CASE rows \subseteq DOMAIN d.libs
  <2>1. /\ DOMAIN e = DOMAIN d /\ e.libs = d.libs /\ e.roots = d.roots /\ e.media = d.media
        /\ e.watch = d.watch /\ e.fav = d.fav /\ e.bin = d.bin
        /\ DOMAIN e.grants = Users
        /\ e.grants[u] = Restrict(want, rows)
        /\ \A v \in Users \ {u} : e.grants[v] = d.grants[v]
    BY DEF Consistent
  <2>2. /\ DOMAIN Restrict(want, rows) \subseteq DOMAIN d.libs
        /\ Restrict(want, rows) \in [DOMAIN Restrict(want, rows) -> (SUBSET Perms) \ {{}}]
    <3>1. ASSUME NEW l \in rows PROVE want[l] \in (SUBSET Perms) \ {{}}
      <4>1. l \in DOMAIN want /\ want[l] # {}
        OBVIOUS
      <4>2. want[l] \in SUBSET Perms
        BY <4>1
      <4> QED
        BY <4>1, <4>2
    <3> HIDE DEF rows
    <3>2. /\ Restrict(want, rows) \in [rows -> (SUBSET Perms) \ {{}}]
          /\ DOMAIN Restrict(want, rows) = rows
      BY <3>1 DEF Restrict
    <3> QED
      BY <1>2, <3>2
  <2> HIDE DEF e
  <2>3. Consistent(e)
    BY <2>1, <2>2 DEF Consistent
  <2> QED
    BY <1>2, <2>1, <2>3 DEF e, ReplaceUserGrants, R
<1> QED
  BY <1>1, <1>2

\* The writes of AddRoot: for a call that read at most one owner of the folder, other than the
\* library l, and does not find the folder among the roots of l.  The folder's owner changes only
\* with its rows, and everything else shrinks.
LEMMA AddRootWriteStep ==
  ASSUME NEW d, Consistent(d), NEW l \in Libs, NEW p \in RootPaths, NEW owner, NEW own,
         p \notin own, l \notin owner, \A a, b \in owner : a = b
  PROVE  LET e == AddRootWrite(d, l, p, owner, own).db
         IN  /\ Consistent(e) /\ GrantsFollow(d, e)
             /\ \/ e = d
                \/ /\ DOMAIN e.roots \subseteq
                           (DOMAIN d.roots \ {r \in own : PathWithinRoot(r, p)}) \cup {p}
                   /\ \A r \in DOMAIN e.roots : r # p => e.roots[r] = d.roots[r]
                   /\ p \in DOMAIN d.roots =>
                        /\ e.roots[p] = l
                        /\ \A k \in Below(DOMAIN d.watch, d.roots[p], p) :
                               [k EXCEPT !.lib = l] \in DOMAIN e.watch
                        /\ \A k \in Below(d.fav, d.roots[p], p) : [k EXCEPT !.lib = l] \in e.fav
<1> DEFINE merge == {o \in owner : o # l}
           src   == CHOOSE o \in merge : TRUE
           moved == reassignPrefix(d, src, l, p)
           taken == [moved EXCEPT !.roots = Restrict(@, DOMAIN @ \ ({p} \cap Roots(d, src)))]
           freed == IF merge = {} THEN d ELSE deleteLibraryIfEmpty(taken, src)
           mine  == [freed EXCEPT !.roots =
                        Restrict(@, DOMAIN @ \ {r \in own : PathWithinRoot(r, p)})]
           e     == [mine EXCEPT !.roots = Insert(@, p, l)]
<1>1. AddRootWrite(d, l, p, owner, own).db =
        IF l \notin DOMAIN mine.libs \/ p \in DOMAIN mine.roots THEN d ELSE e
  BY DEF AddRootWrite, R
<1>2. CASE l \notin DOMAIN mine.libs \/ p \in DOMAIN mine.roots
  BY <1>1, <1>2, GrantsStay
<1>3. CASE l \in DOMAIN mine.libs /\ p \notin DOMAIN mine.roots
  <2>1. DOMAIN mine.libs \subseteq DOMAIN d.libs
    <3>1. DOMAIN moved = DOMAIN d /\ moved.libs = d.libs
      BY DEF Consistent, reassignPrefix, deletePrefixRows
    <3> HIDE DEF moved
    <3>2. DOMAIN taken = DOMAIN d /\ taken.libs = d.libs
      BY <3>1 DEF Consistent
    <3> HIDE DEF taken
    <3>3. /\ DOMAIN deleteLibraryIfEmpty(taken, src) = DOMAIN d
          /\ DOMAIN deleteLibraryIfEmpty(taken, src).libs \subseteq DOMAIN d.libs
      BY <3>2 DEF Consistent, deleteLibraryIfEmpty, DeleteLibrary, R, Restrict
    <3>4. DOMAIN freed = DOMAIN d /\ DOMAIN freed.libs \subseteq DOMAIN d.libs
      BY <3>3
    <3> HIDE DEF freed
    <3> QED
      BY <3>4 DEF Consistent
  <2>2. /\ Shrinks(d, freed)
        /\ p \in DOMAIN d.roots \ DOMAIN freed.roots =>
             /\ \A k \in Below(DOMAIN d.watch, d.roots[p], p) : [k EXCEPT !.lib = l] \in DOMAIN freed.watch
             /\ \A k \in Below(d.fav, d.roots[p], p) : [k EXCEPT !.lib = l] \in freed.fav
    <3>1. CASE merge = {}
      BY <3>1, ShrinksSame
    <3>2. CASE merge # {}
      <4>1. src \in owner /\ src # l /\ l \in DOMAIN d.libs
        BY <1>3, <2>1, <3>2
      <4> HIDE DEF src, merge
      <4>2. /\ DOMAIN moved = DOMAIN d /\ moved.libs = d.libs /\ moved.roots = d.roots
            /\ moved.grants = d.grants /\ RowsGood(moved)
            /\ \A k \in Below(DOMAIN d.watch, src, p) : [k EXCEPT !.lib = l] \in DOMAIN moved.watch
            /\ \A k \in Below(d.fav, src, p) : [k EXCEPT !.lib = l] \in moved.fav
        BY <4>1, reassignPrefixMoves
      <4> HIDE DEF moved
      <4>3. /\ DOMAIN taken = DOMAIN d /\ taken.libs = d.libs /\ taken.grants = d.grants
            /\ taken.watch = moved.watch /\ taken.fav = moved.fav
            /\ taken.media = moved.media /\ taken.bin = moved.bin
            /\ DOMAIN taken.roots = DOMAIN d.roots \ ({p} \cap Roots(d, src))
            /\ \A r \in DOMAIN taken.roots : taken.roots[r] = d.roots[r]
        BY <4>2 DEF Consistent, Restrict
      <4> HIDE DEF taken
      <4>4. RowsGood(taken)
        BY <4>2, <4>3 DEF RowsGood
      <4>5. Shrinks(d, taken)
        BY <4>3, <4>4, RootsShrink
      <4>6. Shrinks(d, freed) /\ freed = deleteLibraryIfEmpty(taken, src)
        BY <3>2, <4>5, deleteLibraryIfEmptyShrinks, ShrinksTrans DEF Shrinks
      <4>7. /\ DOMAIN freed.roots = DOMAIN taken.roots
            /\ \A k \in DOMAIN taken.watch : k.lib # src => k \in DOMAIN freed.watch
            /\ \A k \in taken.fav : k.lib # src => k \in freed.fav
        BY <4>5, <4>6, deleteLibraryIfEmptyKeeps DEF Shrinks
      <4> HIDE DEF freed
      <4>8. p \in DOMAIN d.roots \ DOMAIN freed.roots => d.roots[p] = src
        BY <4>3, <4>7 DEF Roots
      <4>9. /\ \A k \in Below(DOMAIN d.watch, src, p) : [k EXCEPT !.lib = l].lib # src
            /\ \A k \in Below(d.fav, src, p) : [k EXCEPT !.lib = l].lib # src
        BY <4>1 DEF Below, Consistent
      <4> QED
        BY <4>2, <4>3, <4>6, <4>7, <4>8, <4>9
    <3> QED
      BY <3>1, <3>2
  <2> HIDE DEF freed
  <2>3. /\ DOMAIN mine = DOMAIN freed /\ mine.libs = freed.libs /\ mine.grants = freed.grants
        /\ mine.watch = freed.watch /\ mine.fav = freed.fav
        /\ mine.media = freed.media /\ mine.bin = freed.bin
        /\ DOMAIN mine.roots = DOMAIN freed.roots \ {r \in own : PathWithinRoot(r, p)}
        /\ \A r \in DOMAIN mine.roots : mine.roots[r] = freed.roots[r]
    BY <2>2 DEF Shrinks, Consistent, Restrict
  <2> HIDE DEF mine
  <2>4. RowsGood(mine)
    BY <2>2, <2>3 DEF Shrinks, Consistent, RowsGood
  <2>5. Shrinks(d, mine)
    BY <2>2, <2>3, <2>4, RootsShrink, ShrinksTrans DEF Shrinks
  <2>6. /\ DOMAIN e = DOMAIN mine /\ e.libs = mine.libs /\ e.grants = mine.grants
        /\ e.watch = mine.watch /\ e.fav = mine.fav /\ e.media = mine.media /\ e.bin = mine.bin
        /\ DOMAIN e.roots = DOMAIN mine.roots \cup {p}
        /\ e.roots[p] = l
        /\ \A r \in DOMAIN mine.roots : r # p => e.roots[r] = mine.roots[r]
    BY <2>5 DEF Shrinks, Consistent, Insert
  <2> HIDE DEF e
  <2>7. Consistent(e)
    <3>1. \A r \in DOMAIN e.roots : e.roots[r] \in DOMAIN e.libs
      BY <1>3, <2>5, <2>6 DEF Shrinks, Consistent
    <3> QED
      BY <2>5, <2>6, <3>1 DEF Shrinks, Consistent
  <2>8. GrantsFollow(d, e)
    BY <2>5, <2>6 DEF Shrinks, GrantsFollow
  <2>9. p \in DOMAIN d.roots => p \in DOMAIN d.roots \ DOMAIN freed.roots
    BY <1>3, <2>3
  <2>10. DOMAIN e.roots \subseteq (DOMAIN d.roots \ {r \in own : PathWithinRoot(r, p)}) \cup {p}
    BY <2>2, <2>3, <2>6 DEF Shrinks
  <2>11. \A r \in DOMAIN e.roots : r # p => e.roots[r] = d.roots[r]
    BY <2>5, <2>6 DEF Shrinks
  <2> QED
    BY <1>1, <1>3, <2>2, <2>3, <2>6, <2>7, <2>8, <2>9, <2>10, <2>11
<1> QED
  BY <1>2, <1>3

-----------------------------------------------------------------------------
(* What the views of LibraryViews show *)

\* Items of the libraries `may`, marked as ShownIsReadable says; only files get a URL.
Fine(d, u, may, items) ==
    \A i \in items :
        /\ DOMAIN i = {"lib", "path", "flags"}
        /\ i.lib \in may
        /\ (i.path # <<>> /\ "watched" \in i.flags) =>
               \E l \in Libs : GetWatch(d, Key(u, l, i.path)).watched
        /\ "favorited" \in i.flags => \E l \in Libs : Key(u, l, i.path) \in d.fav
        /\ "url" \in i.flags => i.path \in Files

\* Who may read a path may read its library.
LEMMA ReadMeansMay ==
  ASSUME NEW d, Consistent(d), NEW u \in Users, NEW p \in Paths, CanRead(d, u, p)
  PROVE  MatchLibrary(d, p) \subseteq May(d, u)
<1>1. CASE u \in Admins
  BY <1>1, MatchIsLibrary DEF May, Consistent
<1>2. CASE u \notin Admins
  <2>1. PICK l \in MatchLibrary(d, p) \cap DOMAIN d.grants[u] : "read" \in d.grants[u][l]
    BY <1>2 DEF CanRead, checkPermission, permissionsForPath, GetUserGrantMap
  <2>2. MatchLibrary(d, p) = {l}
    BY <2>1, OneLibrary
  <2> QED
    BY <1>2, <2>1, <2>2 DEF May
<1> QED
  BY <1>1, <1>2

LEMMA ReadableMay ==
  ASSUME NEW d, Consistent(d), NEW u
  PROVE  ListReadableLibraries(d, u) \subseteq May(d, u) /\ ListReadableLibraries(d, u) \subseteq DOMAIN d.libs
  BY DEF ListReadableLibraries, May, Consistent

LEMMA MayIsLibraries ==
  ASSUME NEW d, Consistent(d), NEW u \in Users
  PROVE  May(d, u) \subseteq Libs
  BY DEF May, Consistent

LEMMA ItemFine ==
  ASSUME NEW d, NEW u, NEW may, NEW l \in may, NEW p
  PROVE  Fine(d, u, may, {Item(l, p)})
  BY DEF Fine, Item

LEMMA RowsFine ==
  ASSUME NEW d, NEW u, NEW may, NEW rows, \A k \in rows : k.lib \in may
  PROVE  Fine(d, u, may, Items(rows))
  BY DEF Fine, Items, Item

LEMMA FinePart ==
  ASSUME NEW d, NEW u, NEW may, NEW items, Fine(d, u, may, items),
         NEW more, may \subseteq more, NEW part \in SUBSET items
  PROVE  Fine(d, u, more, part)
  BY DEF Fine

LEMMA MarkFine ==
  ASSUME NEW d, Consistent(d), NEW u, NEW may, NEW items, Fine(d, u, may, items), NEW folder
  PROVE  /\ Fine(d, u, may, enrichItemsWatched(d, u, folder, items))
         /\ Fine(d, u, may, enrichItemsFavorited(d, u, folder, items))
         /\ Fine(d, u, may, enrichItemsPermissions(d, u, items))
<1>1. MatchLibrary(d, folder) \subseteq Libs
  BY MatchIsLibrary DEF Consistent
<1>2. ASSUME NEW paths, NEW flag,
             flag = "watched" => \A p \in paths : \E l \in Libs : GetWatch(d, Key(u, l, p)).watched,
             flag = "favorited" => \A p \in paths : \E l \in Libs : Key(u, l, p) \in d.fav,
             flag # "url"
      PROVE  Fine(d, u, may, Mark(items, paths, flag))
  <2> SUFFICES ASSUME NEW i \in items
               PROVE  Fine(d, u, may, Mark({i}, paths, flag))
    BY DEF Mark, Fine
  <2> DEFINE j == [i EXCEPT !.flags = IF i.path \in paths THEN @ \cup {flag} ELSE @]
  <2>1. DOMAIN i = {"lib", "path", "flags"}
    BY DEF Fine
  <2>2. /\ DOMAIN j = {"lib", "path", "flags"} /\ j.lib = i.lib /\ j.path = i.path
        /\ j.flags = IF i.path \in paths THEN i.flags \cup {flag} ELSE i.flags
    BY <2>1
  <2>3. Mark({i}, paths, flag) = {j}
    BY DEF Mark
  <2> HIDE DEF j
  <2>4. \A f \in j.flags : f \in i.flags \/ (f = flag /\ i.path \in paths)
    BY <2>2
  <2> QED
    BY <1>2, <2>2, <2>3, <2>4 DEF Fine
<1>3. Fine(d, u, may, enrichItemsWatched(d, u, folder, items))
  BY <1>1, <1>2 DEF enrichItemsWatched, WatchedForPaths
<1>4. Fine(d, u, may, enrichItemsFavorited(d, u, folder, items))
  BY <1>1, <1>2 DEF enrichItemsFavorited, FavoritedForPaths
<1>5. Fine(d, u, may, enrichItemsPermissions(d, u, items))
  BY <1>2 DEF enrichItemsPermissions
<1> QED
  BY <1>3, <1>4, <1>5

LEMMA CatalogMarksFine ==
  ASSUME NEW d, Consistent(d), NEW u, NEW may, NEW items, Fine(d, u, may, items)
  PROVE  Fine(d, u, may, enrichCatalogFavorited(d, u, enrichCatalogWatched(d, u, items)))
<1>1. Fine(d, u, may, enrichCatalogWatched(d, u, items))
  BY MarkFine DEF enrichCatalogWatched, Fine
<1> QED
  BY <1>1, MarkFine DEF enrichCatalogFavorited, Fine

LEMMA VideoFine ==
  ASSUME NEW d, NEW u, NEW v, NEW may, NEW items, Fine(d, u, may, items),
         \A i \in items : i.path \in Files
  PROVE  Fine(d, u, may, videoItem(d, v, items))
<1> SUFFICES ASSUME NEW i \in items PROVE Fine(d, u, may, {[i EXCEPT !.flags = {"url"}]})
  BY DEF videoItem, Fine
<1>1. DOMAIN i = {"lib", "path", "flags"} /\ i.lib \in may /\ i.path \in Files
  BY DEF Fine
<1> DEFINE j == [i EXCEPT !.flags = {"url"}]
<1>2. DOMAIN j = {"lib", "path", "flags"} /\ j.lib = i.lib /\ j.path = i.path /\ j.flags = {"url"}
  BY <1>1
<1> HIDE DEF j
<1>3. Fine(d, u, may, {j})
  BY <1>1, <1>2 DEF Fine
<1> QED
  BY <1>3 DEF j

\* Shelves, statistics and search of the libraries `ids`.
LEMMA ShelvesFine ==
  ASSUME NEW d, NEW u, NEW may, NEW ids \in SUBSET may
  PROVE  /\ Fine(d, u, may, Favorites(d, u, ids))
         /\ Fine(d, u, may, Watched(d, u, ids))
         /\ Fine(d, u, may, Continue(d, u, ids))
         /\ Fine(d, u, may, Unwatched(d, u, ids))
         /\ Fine(d, u, may, Stats(d, u, ids))
         /\ Fine(d, u, may, Search(d, ids))
<1>1. Fine(d, u, may, Favorites(d, u, ids))
  BY RowsFine DEF Favorites, ListFavorites, Rows
<1>2. Fine(d, u, may, Watched(d, u, ids)) /\ Fine(d, u, may, Continue(d, u, ids))
  BY RowsFine DEF Watched, ListWatched, Continue, ListContinue, Rows, WatchRows
<1>3. Fine(d, u, may, Unwatched(d, u, ids))
  BY RowsFine DEF Unwatched, ListUnwatched
<1>4. Fine(d, u, may, Stats(d, u, ids))
  <2>1. ASSUME NEW i \in Stats(d, u, ids)
        PROVE  /\ DOMAIN i = {"lib", "path", "flags"} /\ i.lib \in ids /\ i.path = <<>>
               /\ "favorited" \notin i.flags /\ "url" \notin i.flags
    <3>1. PICK l \in ids : i = Item(l, <<>>) \/ i = [Item(l, <<>>) EXCEPT !.flags = {"watched"}]
      BY DEF Stats
    <3> QED
      BY <3>1 DEF Item
  <2> QED
    BY <2>1 DEF Fine
<1>5. Fine(d, u, may, Search(d, ids))
  <2>1. \A m \in SearchRows(d, ids) : m.lib \in ids
    BY DEF SearchRows, activeMetadataScope
  <2> QED
    BY <2>1, RowsFine DEF Search
<1> QED
  BY <1>1, <1>2, <1>3, <1>4, <1>5

\* The pages of one library; every item is a file of it.
LEMMA PagesFine ==
  ASSUME NEW d, Consistent(d), NEW u, NEW may, NEW l \in may, NEW s, NEW n
  PROVE  /\ Fine(d, u, may, listMoviesPage(d, l)) /\ \A i \in listMoviesPage(d, l) : i.path \in Files
         /\ Fine(d, u, may, listShowsPage(d, l))
         /\ Fine(d, u, may, GetShow(d, l, s))
         /\ Fine(d, u, may, ListSeasonEpisodes(d, l, s, n))
         /\ \A i \in ListSeasonEpisodes(d, l, s, n) : i.path \in Files
<1>1. \A m \in activeMetadataScope(d, l) : m.lib = l /\ m.path \in Files
  BY DEF activeMetadataScope, Consistent
<1>2. \A t : ShowRows(d, l, t) \subseteq activeMetadataScope(d, l)
  BY DEF ShowRows
<1>3. Fine(d, u, may, listMoviesPage(d, l)) /\ \A i \in listMoviesPage(d, l) : i.path \in Files
  <2>1. Fine(d, u, may, listMoviesPage(d, l))
    BY <1>1, RowsFine DEF listMoviesPage, ListCatalogMoviesPage
  <2>2. \A i \in listMoviesPage(d, l) : i.path \in Files
    BY <1>1 DEF listMoviesPage, ListCatalogMoviesPage, Items, Item
  <2> QED
    BY <2>1, <2>2
<1>4. ASSUME NEW t \in {Episode[m.path].show : m \in activeMetadataScope(d, l)} \ {None}
      PROVE  (CHOOSE m \in ShowRows(d, l, t) : TRUE).lib = l
  <2>1. ShowRows(d, l, t) # {}
    BY <1>4 DEF ShowRows
  <2> QED
    BY <1>1, <1>2, <2>1
<1>5. Fine(d, u, may, listShowsPage(d, l))
  BY <1>4, RowsFine DEF listShowsPage, ListCatalogShowsPage
<1>6. Fine(d, u, may, GetShow(d, l, s))
  <2>1. \A m \in GetCatalogShowAgg(d, l, s) : m \in ShowRows(d, l, s)
    BY DEF GetCatalogShowAgg
  <2> QED
    BY <1>1, <1>2, <2>1, RowsFine DEF GetShow
<1>7. /\ Fine(d, u, may, ListSeasonEpisodes(d, l, s, n))
      /\ \A i \in ListSeasonEpisodes(d, l, s, n) : i.path \in Files
  <2>1. \A m \in ListCatalogSeasonEpisodes(d, l, s, n) : m.lib = l /\ m.path \in Files
    BY <1>1, <1>2 DEF ListCatalogSeasonEpisodes
  <2>2. Fine(d, u, may, Items(ListCatalogSeasonEpisodes(d, l, s, n)))
    BY <2>1, RowsFine
  <2> QED
    BY <2>1, <2>2 DEF ListSeasonEpisodes, Items, Item, Fine
<1> QED
  BY <1>3, <1>5, <1>6, <1>7

-----------------------------------------------------------------------------
(* The invariant *)

AddCall   == [op : {"addRoot"}, lib : Libs, path : RootPaths, pc : {"begin", "write"},
              owner : SUBSET Libs, own : SUBSET RootPaths]
SyncCall  == [op : {"sync"}, todo : SUBSET [lib : Libs, path : RootPaths]]
PurgeCall == [op : {"purge"}, path : Files, todo : Seq({"metadata", "watch", "favorite"})]
SubOps    == {"subPut", "subMeta", "subDrop", "subGet"}
SubCall   == [op : SubOps, key : [user : Users, path : Files]]
Pages     == {"movies", "shows", "show", "season"}
Lists     == Shelves \cup {"stats", "search"} \cup Pages

\* What a call past its reads knows, whatever happened since.
Sound(f) ==
    /\ f.op = "addRoot" => /\ f \in AddCall
                           /\ f.pc = "write" => /\ f.path \notin f.own /\ f.lib \notin f.owner
                                                /\ \A a, b \in f.owner : a = b
    /\ f.op = "sync" => f \in SyncCall
    /\ f.op = "grants" => f.user \in Users /\ f.want \in Wants
    /\ f.op \in {"watch", "fav"} => f.key \in [user : Users, lib : Libs, path : Files]
    /\ f.op = "trash" => f.path \in Files
    /\ f.op = "purge" => f \in PurgeCall
    /\ f.op = "serve" => f.libs \subseteq f.may
    /\ f.op = "browse" => f.user \in Users
    /\ f.op = "list" => /\ f.user \in Users /\ f.list \in Lists
                        /\ f.ids \subseteq f.may
                        /\ f.list \in Pages => f.ids # {}
    /\ f.op = "tv" => /\ f.user = TV
                      /\ f.id[1] \in {"root", "lib", "cat", "show", "season", "files"}
                      /\ f.id[1] = "files" => f.id[2] \in f.may
    /\ f.op \in SubOps => f \in SubCall

\* An AddRoot about to write has read every root that overlaps its folder: all of them lie in the
\* folder and are the destination's own, except the folder itself.
AddKnows(f) ==
    (f.op = "addRoot" /\ f.pc = "write") =>
        \A r \in DOMAIN db.roots :
            (r # f.path /\ RootsOverlap(r, f.path)) => r \in f.own /\ PathWithinRoot(r, f.path)

\* One AddRoot at a time
Alone == /\ Exclusive(db)
         /\ \A f \in flight : AddKnows(f)
         /\ \A f, g \in Calls("addRoot") : f = g

Inv == /\ TypeOK
       /\ \A f \in flight : Sound(f)
       /\ MaxAdds = 1 => Alone
       /\ ShownIsReadable

\* The steps of the action properties
GrantStep ==
    \A u \in Users :
        \/ db'.grants[u] = Restrict(db.grants[u], DOMAIN db.grants[u] \cap DOMAIN db'.libs)
        \/ \E f \in Calls("grants") :
               /\ f.user = u
               /\ db'.grants[u] = Restrict(f.want, {l \in DOMAIN f.want : f.want[l] # {}})

MergeStep ==
    \A r \in DOMAIN db.roots :
        (r \in DOMAIN db'.roots /\ db'.roots[r] # db.roots[r]) =>
            /\ \A k \in Below(DOMAIN db.watch, db.roots[r], r) :
                   [k EXCEPT !.lib = db'.roots[r]] \in DOMAIN db'.watch
            /\ \A k \in Below(db.fav, db.roots[r], r) :
                   [k EXCEPT !.lib = db'.roots[r]] \in db'.fav

Ends == Inv' /\ GrantStep /\ MergeStep

\* No root is new or changes hands.
RootsKeep(d, e) ==
    DOMAIN e.roots \subseteq DOMAIN d.roots /\ \A r \in DOMAIN e.roots : e.roots[r] = d.roots[r]

\* Every step but those of AddRoot
LEMMA QuietEnds ==
  ASSUME Inv, TypeOK', RootsKeep(db, db'), GrantStep, ShownIsReadable',
         \A f \in flight' : Sound(f) /\ (f \in flight \/ f.op # "addRoot")
  PROVE  Ends
<1>1. MergeStep
  BY DEF MergeStep, RootsKeep
<1>2. ASSUME MaxAdds = 1 PROVE Alone'
  <2>1. Alone
    BY <1>2 DEF Inv
  <2>2. Exclusive(db)'
    BY <2>1 DEF Alone, Exclusive, RootsKeep
  <2>3. \A f \in flight' : AddKnows(f)'
    BY <2>1 DEF Alone, AddKnows, RootsKeep
  <2>4. \A f, g \in Calls("addRoot")' : f = g
    BY <2>1 DEF Alone, Calls
  <2> QED
    BY <2>2, <2>3, <2>4 DEF Alone
<1> QED
  BY <1>1, <1>2 DEF Ends, Inv

LEMMA NobodyReads == ASSUME shown' = Nobody PROVE ShownIsReadable'
  BY DEF ShownIsReadable, Nobody

\* A call is added to those in flight, or one is replaced by one at most.
LEMMA FlightSize ==
  ASSUME Inv
  PROVE  /\ \A rec : (Cardinality(flight) < MaxFlight /\ flight' = flight \cup {rec}) =>
                IsFiniteSet(flight') /\ Cardinality(flight') <= MaxFlight
         /\ \A f \in flight : \A set :
                (flight' = (flight \ {f}) \cup set /\ (set = {} \/ \E g : set = {g})) =>
                    IsFiniteSet(flight') /\ Cardinality(flight') <= MaxFlight
<1>1. IsFiniteSet(flight) /\ Cardinality(flight) \in Nat /\ Cardinality(flight) <= MaxFlight /\ MaxFlight \in Nat
  BY LibraryInputs, FS_CardinalityType DEF Inv, TypeOK
<1>2. ASSUME NEW S, IsFiniteSet(S), NEW x
      PROVE  /\ IsFiniteSet(S \cup {x}) /\ Cardinality(S) \in Nat
             /\ Cardinality(S \cup {x}) <= Cardinality(S) + 1
  <2>1. Cardinality(S) \in Nat
    BY <1>2, FS_CardinalityType
  <2>2. /\ IsFiniteSet(S \cup {x})
        /\ Cardinality(S \cup {x}) = IF x \in S THEN Cardinality(S) ELSE Cardinality(S) + 1
    BY <1>2, FS_AddElement
  <2> QED
    BY <2>1, <2>2
<1>3. ASSUME NEW f \in flight
      PROVE  IsFiniteSet(flight \ {f}) /\ Cardinality(flight \ {f}) = Cardinality(flight) - 1
  BY <1>1, FS_RemoveElement
<1>4. ASSUME NEW rec, Cardinality(flight) < MaxFlight, flight' = flight \cup {rec}
      PROVE  IsFiniteSet(flight') /\ Cardinality(flight') <= MaxFlight
  BY <1>1, <1>2, <1>4
<1>5. ASSUME NEW f \in flight, NEW set, flight' = (flight \ {f}) \cup set, set = {} \/ \E g : set = {g}
      PROVE  IsFiniteSet(flight') /\ Cardinality(flight') <= MaxFlight
  <2>1. CASE set = {}
    <3>1. flight' = flight \ {f}
      BY <1>5, <2>1
    <3> QED
      BY <1>1, <1>3, <3>1
  <2>2. CASE \E g : set = {g}
    <3>1. PICK g : flight' = (flight \ {f}) \cup {g}
      BY <1>5, <2>2
    <3>2. /\ IsFiniteSet((flight \ {f}) \cup {g})
          /\ Cardinality((flight \ {f}) \cup {g}) <= Cardinality(flight \ {f}) + 1
      BY <1>2, <1>3
    <3>3. Cardinality(flight \ {f}) + 1 = Cardinality(flight) /\ Cardinality((flight \ {f}) \cup {g}) \in Nat
      BY <1>1, <1>3, <3>2, FS_CardinalityType
    <3> QED
      BY <1>1, <3>1, <3>2, <3>3
  <2> QED
    BY <1>5, <2>1, <2>2
<1> QED
  BY <1>4, <1>5

LEMMA SuspendEnds ==
  ASSUME Inv, NEW rec, Suspend(rec), Sound(rec), rec.op # "addRoot"
  PROVE  Ends
<1>1. TypeOK'
  BY FlightSize DEF Suspend, Inv, TypeOK
<1>2. RootsKeep(db, db') /\ GrantStep
  BY ShrinksSame DEF Suspend, RootsKeep, GrantStep, Inv, TypeOK, Shrinks, GrantsFollow
<1>3. \A f \in flight' : Sound(f) /\ (f \in flight \/ f.op # "addRoot")
  BY DEF Suspend, Inv
<1>4. ShownIsReadable'
  BY NobodyReads DEF Suspend
<1> QED
  BY <1>1, <1>2, <1>3, <1>4, QuietEnds

\* A step that writes d, and may replace a call in flight
LEMMA ReplaceEnds ==
  ASSUME Inv, NEW f \in flight, NEW set, NEW d, Replace(f, set, d),
         set = {} \/ \E g : set = {g}, \A g \in set : Sound(g) /\ g.op # "addRoot",
         Shrinks(db, d)
  PROVE  Ends
<1>1. TypeOK'
  BY FlightSize DEF Replace, Inv, TypeOK, Shrinks
<1>2. RootsKeep(db, db') /\ GrantStep
  BY DEF Replace, RootsKeep, GrantStep, Shrinks, GrantsFollow
<1>3. \A g \in flight' : Sound(g) /\ (g \in flight \/ g.op # "addRoot")
  BY DEF Replace, Inv
<1>4. ShownIsReadable'
  BY NobodyReads DEF Replace
<1> QED
  BY <1>1, <1>2, <1>3, <1>4, QuietEnds

LEMMA ResumeEnds ==
  ASSUME Inv, NEW f \in flight, NEW d, Resume(f, d), Shrinks(db, d)
  PROVE  Ends
  BY ReplaceEnds DEF Resume

LEMMA WriteEnds ==
  ASSUME Inv, NEW d, Write(d), Consistent(d), RootsKeep(db, d), GrantsFollow(db, d)
  PROVE  Ends
<1>1. TypeOK'
  BY DEF Write, Inv, TypeOK
<1>2. GrantStep
  BY DEF Write, GrantStep, GrantsFollow
<1>3. ShownIsReadable'
  BY NobodyReads DEF Write
<1>4. RootsKeep(db, db') /\ \A f \in flight' : Sound(f) /\ f \in flight
  BY DEF Write, Inv
<1> QED
  BY <1>1, <1>2, <1>3, <1>4, QuietEnds

LEMMA ShrinkWriteEnds ==
  ASSUME Inv, NEW d, Write(d), Shrinks(db, d)
  PROVE  Ends
  BY WriteEnds DEF Shrinks, RootsKeep

\* A call answers.
LEMMA ShowEnds ==
  ASSUME Inv, NEW f \in flight, NEW items, Show(f, items),
         Fine(db, f.user, f.may \cup May(db, f.user), items),
         tv' \in [on : BOOLEAN, urls : SUBSET Files]
  PROVE  Ends
<1>1. TypeOK'
  <2>1. flight' = (flight \ {f}) \cup {}
    BY DEF Show
  <2> QED
    BY <2>1, FlightSize DEF Show, Inv, TypeOK
<1>2. RootsKeep(db, db') /\ GrantStep
  BY ShrinksSame DEF Show, RootsKeep, GrantStep, Inv, TypeOK, Shrinks, GrantsFollow
<1>3. \A g \in flight' : Sound(g) /\ g \in flight
  BY DEF Show, Inv
<1>4. ShownIsReadable'
  BY DEF Show, ShownIsReadable, Fine
<1> QED
  BY <1>1, <1>2, <1>3, <1>4, QuietEnds

-----------------------------------------------------------------------------
(* AddRoot *)

LEMMA addLibraryRootEnds ==
  ASSUME Inv, NEW l \in Libs, NEW p \in RootPaths, addLibraryRoot(l, p)
  PROVE  Ends
<1> DEFINE rec == [op |-> "addRoot", lib |-> l, path |-> p, pc |-> "begin", owner |-> {}, own |-> {}]
<1>1. /\ Suspend(rec) /\ Cardinality(Calls("addRoot")) < MaxAdds
      /\ flight' = flight \cup {rec} /\ UNCHANGED db /\ shown' = Nobody
  BY DEF addLibraryRoot, Suspend
<1>2. Sound(rec)
  BY DEF Sound, AddCall, SubOps
<1>3. rec.op = "addRoot" /\ rec.pc = "begin"
  OBVIOUS
<1> HIDE DEF rec
<1>4. TypeOK'
  BY <1>1, FlightSize DEF Suspend, Inv, TypeOK
<1>5. GrantStep /\ MergeStep
  BY <1>1, ShrinksSame DEF GrantStep, MergeStep, Inv, TypeOK, Shrinks, GrantsFollow
<1>6. ShownIsReadable'
  BY <1>1, NobodyReads
<1>7. ASSUME MaxAdds = 1 PROVE Alone'
  <2>1. Calls("addRoot") = {}
    <3>1. IsFiniteSet(Calls("addRoot"))
      BY FS_Subset DEF Calls, Inv, TypeOK
    <3>2. Cardinality(Calls("addRoot")) = 0
      BY <1>1, <1>7, <3>1, FS_CardinalityType
    <3> QED
      BY <3>1, <3>2, FS_EmptySet
  <2>2. \A f, g \in Calls("addRoot")' : f = g
    BY <1>1, <2>1 DEF Calls
  <2>3. \A f \in flight' : AddKnows(f)'
    BY <1>1, <1>3, <1>7 DEF AddKnows, Inv, Alone
  <2> QED
    BY <1>1, <1>7, <2>2, <2>3 DEF Inv, Alone, Exclusive
<1> QED
  BY <1>1, <1>2, <1>4, <1>5, <1>6, <1>7 DEF Ends, Inv

\* What the reads of the transaction establish.
LEMMA AddRootReads ==
  ASSUME NEW d, Consistent(d), NEW l \in Libs, NEW p \in RootPaths, AddRootRead(d, l, p) = "go"
  PROVE  /\ p \notin Roots(d, l) /\ l \notin libraryIDForExactRoot(d, p)
         /\ libraryIDForExactRoot(d, p) \subseteq Libs
         /\ Exclusive(d) =>
              \A r \in DOMAIN d.roots :
                 (r # p /\ RootsOverlap(r, p)) => r \in Roots(d, l) /\ PathWithinRoot(r, p)
<1>1. /\ p \notin Roots(d, l) /\ ~\E r \in Roots(d, l) : PathWithinRoot(p, r)
      /\ libraryIDForExactRoot(d, p) = {} => conflictingLibraryID(d, l, p) = {}
  BY DEF AddRootRead
<1>2. l \notin libraryIDForExactRoot(d, p) /\ libraryIDForExactRoot(d, p) \subseteq Libs
  BY <1>1 DEF libraryIDForExactRoot, Roots, Consistent
<1>3. ASSUME Exclusive(d), NEW r \in DOMAIN d.roots, r # p, RootsOverlap(r, p)
      PROVE  r \in Roots(d, l) /\ PathWithinRoot(r, p)
  <2>1. p \notin DOMAIN d.roots
    BY <1>3 DEF Exclusive
  <2>2. conflictingLibraryID(d, l, p) = {}
    BY <1>1, <2>1 DEF libraryIDForExactRoot
  <2>3. r \in Roots(d, l)
    BY <1>3, <2>2 DEF conflictingLibraryID, Roots
  <2> QED
    BY <1>1, <1>3, <2>3 DEF RootsOverlap
<1> QED
  BY <1>1, <1>2, <1>3

LEMMA AddRootBeginEnds ==
  ASSUME Inv, NEW f \in flight, AddRootBegin(f)
  PROVE  Ends
<1> DEFINE g == [f EXCEPT !.pc = "write", !.own = Roots(db, f.lib),
                          !.owner = libraryIDForExactRoot(db, f.path)]
<1>0. f.op = "addRoot" /\ f.pc = "begin" /\ f \in AddCall /\ Consistent(db)
  BY DEF AddRootBegin, Calls, Inv, Sound, TypeOK
<1>1. CASE AddRootRead(db, f.lib, f.path) # "go"
  <2>1. Replace(f, {}, db)
    BY <1>1 DEF AddRootBegin
  <2> QED
    BY <1>0, <2>1, ReplaceEnds, ShrinksSame
<1>2. CASE AddRootRead(db, f.lib, f.path) = "go"
  <2>1. Replace(f, {g}, db)
    BY <1>2 DEF AddRootBegin
  <2>2. f.lib \in Libs /\ f.path \in RootPaths
    BY <1>0 DEF AddCall
  <2>3. /\ f.path \notin Roots(db, f.lib) /\ f.lib \notin libraryIDForExactRoot(db, f.path)
        /\ libraryIDForExactRoot(db, f.path) \subseteq Libs
        /\ Exclusive(db) =>
              \A r \in DOMAIN db.roots : (r # f.path /\ RootsOverlap(r, f.path)) =>
                    r \in Roots(db, f.lib) /\ PathWithinRoot(r, f.path)
    BY <1>0, <1>2, <2>2, AddRootReads
  <2>4. /\ g.op = "addRoot" /\ g.pc = "write" /\ g.lib = f.lib /\ g.path = f.path
        /\ g.own = Roots(db, f.lib) /\ g.owner = libraryIDForExactRoot(db, f.path)
    BY <1>0 DEF AddCall
  <2>5. g \in AddCall
    BY <1>0, <2>3 DEF AddCall, Roots, Consistent
  <2> HIDE DEF g
  <2>6. \A a, b \in g.owner : a = b
    BY <2>4 DEF libraryIDForExactRoot
  <2>7. Sound(g)
    BY <2>3, <2>4, <2>5, <2>6 DEF Sound, SubOps
  <2>8. /\ UNCHANGED db /\ shown' = Nobody /\ flight' = (flight \ {f}) \cup {g}
    BY <2>1 DEF Replace
  <2>9. TypeOK'
    <3>1. IsFiniteSet(flight') /\ Cardinality(flight') <= MaxFlight
      BY <2>8, FlightSize
    <3> QED
      BY <2>1, <2>8, <3>1 DEF Replace, Inv, TypeOK
  <2>10. GrantStep /\ MergeStep
    BY <1>0, <2>8, ShrinksSame DEF GrantStep, MergeStep, Shrinks, GrantsFollow
  <2>11. ShownIsReadable'
    BY <2>8, NobodyReads
  <2>12. ASSUME MaxAdds = 1 PROVE Alone'
    <3>1. Alone
      BY <2>12 DEF Inv
    <3>2. \A h \in flight' : AddKnows(h)'
      BY <2>3, <2>4, <2>8, <3>1 DEF Alone, AddKnows
    <3>3. \A h, k \in Calls("addRoot")' : h = k
      BY <1>0, <2>4, <2>8, <3>1 DEF Alone, Calls
    <3> QED
      BY <2>8, <3>1, <3>2, <3>3 DEF Alone, Exclusive
  <2> QED
    BY <2>7, <2>8, <2>9, <2>10, <2>11, <2>12 DEF Ends, Inv
<1> QED
  BY <1>1, <1>2

LEMMA AddRootCommitEnds ==
  ASSUME Inv, NEW f \in flight, AddRootCommit(f)
  PROVE  Ends
<1> DEFINE l == f.lib
           p == f.path
           e == AddRootWrite(db, l, p, f.owner, f.own).db
<1>1. /\ f.op = "addRoot" /\ f.pc = "write" /\ Consistent(db)
      /\ l \in Libs /\ p \in RootPaths /\ p \notin f.own /\ l \notin f.owner
      /\ \A a, b \in f.owner : a = b
  BY DEF AddRootCommit, Calls, Inv, Sound, TypeOK, AddCall
<1>2. flight' = flight \ {f} /\ db' = e /\ shown' = Nobody /\ UNCHANGED <<dirs, subs, tv>>
  BY DEF AddRootCommit, Resume, Replace
<1>3. /\ Consistent(e) /\ GrantsFollow(db, e)
      /\ \/ e = db
         \/ /\ DOMAIN e.roots \subseteq
                    (DOMAIN db.roots \ {r \in f.own : PathWithinRoot(r, p)}) \cup {p}
            /\ \A r \in DOMAIN e.roots : r # p => e.roots[r] = db.roots[r]
            /\ p \in DOMAIN db.roots =>
                 /\ e.roots[p] = l
                 /\ \A k \in Below(DOMAIN db.watch, db.roots[p], p) :
                        [k EXCEPT !.lib = l] \in DOMAIN e.watch
                 /\ \A k \in Below(db.fav, db.roots[p], p) : [k EXCEPT !.lib = l] \in e.fav
  BY <1>1, AddRootWriteStep
<1> HIDE DEF e
<1>4. TypeOK'
  <2>1. IsFiniteSet(flight') /\ Cardinality(flight') <= MaxFlight
    BY <1>2, FlightSize, flight' = (flight \ {f}) \cup {}
  <2> QED
    BY <1>2, <1>3, <2>1 DEF Inv, TypeOK
<1>5. GrantStep
  BY <1>2, <1>3 DEF GrantStep, GrantsFollow
<1>6. MergeStep
  <2> SUFFICES ASSUME NEW r \in DOMAIN db.roots, r \in DOMAIN db'.roots, db'.roots[r] # db.roots[r]
               PROVE  /\ \A k \in Below(DOMAIN db.watch, db.roots[r], r) :
                             [k EXCEPT !.lib = db'.roots[r]] \in DOMAIN db'.watch
                      /\ \A k \in Below(db.fav, db.roots[r], r) :
                             [k EXCEPT !.lib = db'.roots[r]] \in db'.fav
    BY DEF MergeStep
  <2>1. r = p /\ db'.roots[r] = l
    BY <1>2, <1>3
  <2> QED
    BY <1>2, <1>3, <2>1
<1>7. ShownIsReadable'
  BY <1>2, NobodyReads
<1>8. ASSUME MaxAdds = 1 PROVE Alone'
  <2>1. Alone /\ \A h \in flight' : h.op # "addRoot"
    BY <1>1, <1>2, <1>8 DEF Inv, Alone, Calls
  <2>2. Exclusive(e)
    <3>1. CASE e = db
      BY <2>1, <3>1 DEF Alone
    <3>2. CASE e # db
      <4>1. \A r \in DOMAIN e.roots : r = p \/ (r \in DOMAIN db.roots /\ ~(r \in f.own /\ PathWithinRoot(r, p)))
        BY <1>3, <3>2
      <4>2. \A r \in DOMAIN e.roots : r # p => ~RootsOverlap(r, p)
        BY <1>1, <2>1, <4>1 DEF Alone, AddKnows
      <4>3. \A r \in DOMAIN e.roots : r # p => ~RootsOverlap(p, r)
        BY <4>2 DEF RootsOverlap
      <4>4. \A q, r \in DOMAIN e.roots : (q # r /\ q # p /\ r # p) => ~RootsOverlap(q, r)
        BY <2>1, <4>1 DEF Alone, Exclusive
      <4> QED
        BY <4>2, <4>3, <4>4 DEF Exclusive
    <3> QED
      BY <3>1, <3>2
  <2>3. \A h \in flight' : AddKnows(h)'
    BY <2>1 DEF AddKnows
  <2>4. \A h, k \in Calls("addRoot")' : h = k
    BY <2>1 DEF Calls
  <2> QED
    BY <1>2, <2>2, <2>3, <2>4 DEF Alone, Exclusive
<1> QED
  BY <1>2, <1>4, <1>5, <1>6, <1>7, <1>8 DEF Ends, Inv

-----------------------------------------------------------------------------
(* The other actions *)

LEMMA InvFacts ==
  ASSUME Inv
  PROVE  /\ Consistent(db) /\ DOMAIN db.libs \subseteq Libs
         /\ \A f \in flight : Sound(f)
  BY DEF Inv, TypeOK, Consistent

LEMMA PathTypes == /\ RootPaths \subseteq Paths /\ Files \subseteq Paths
                   /\ Saved \subseteq Files /\ Savers \subseteq Users /\ TV \in Users
  BY LibraryAssumption, LibraryInputs DEF Paths

LEMMA LibraryEnds ==
  ASSUME Inv,
         \/ \E l \in Libs, t \in Types : createLibrary(l, t) \/ patchLibrary(l, t)
         \/ \E l \in Libs : deleteLibrary(l)
         \/ \E l \in Libs, p \in RootPaths : removeLibraryRoot(l, p)
  PROVE  Ends
<1>1. ASSUME NEW l \in Libs, NEW t \in Types, createLibrary(l, t) PROVE Ends
  BY <1>1, InvFacts, CreateLibraryStep, WriteEnds DEF createLibrary, RootsKeep
<1>2. ASSUME NEW l \in Libs, NEW t \in Types, patchLibrary(l, t) PROVE Ends
  BY <1>2, InvFacts, UpdateLibraryShrinks, ShrinkWriteEnds DEF patchLibrary
<1>3. ASSUME NEW l \in Libs, deleteLibrary(l) PROVE Ends
  BY <1>3, InvFacts, DeleteLibraryShrinks, ShrinkWriteEnds DEF deleteLibrary
<1>4. ASSUME NEW l \in Libs, NEW p \in RootPaths, removeLibraryRoot(l, p) PROVE Ends
  BY <1>4, InvFacts, RemoveRootShrinks, ShrinkWriteEnds DEF removeLibraryRoot
<1> QED
  BY <1>1, <1>2, <1>3, <1>4

LEMMA SyncEnds ==
  ASSUME Inv,
         \/ syncLibraries
         \/ \E f \in Calls("sync") : \E r \in f.todo : pruneLibraryRoots(f, r)
  PROVE  Ends
<1>1. ASSUME syncLibraries PROVE Ends
  <2> DEFINE todo == {[lib |-> db.roots[r], path |-> r] : r \in DOMAIN db.roots}
             rec  == [op |-> "sync", todo |-> todo]
  <2>1. todo \subseteq [lib : Libs, path : RootPaths]
    BY InvFacts DEF Consistent
  <2>2. Suspend(rec)
    BY <1>1 DEF syncLibraries
  <2> HIDE DEF todo
  <2>3. Sound(rec) /\ rec.op # "addRoot"
    BY <2>1 DEF Sound, SyncCall, SubOps
  <2> QED
    BY <2>2, <2>3, SuspendEnds
<1>2. ASSUME NEW f \in Calls("sync"), NEW r \in f.todo, pruneLibraryRoots(f, r) PROVE Ends
  <2> DEFINE out  == RemoveRoot(db, r.lib, r.path)
             rest == IF r.path \in dirs \/ out.err = "ok" THEN f.todo \ {r}
                     ELSE IF out.err = "notfound" THEN {q \in f.todo : q.lib # r.lib} ELSE {}
             set  == IF rest = {} THEN {} ELSE {[f EXCEPT !.todo = rest]}
             d    == IF r.path \in dirs THEN db ELSE out.db
  <2>1. f \in flight /\ f.op = "sync" /\ f \in SyncCall /\ Replace(f, set, d)
    BY <1>2 DEF pruneLibraryRoots, Calls, Inv, Sound
  <2>2. Shrinks(db, d)
    BY InvFacts, RemoveRootShrinks, ShrinksSame
  <2>3. rest \subseteq f.todo
    OBVIOUS
  <2> HIDE DEF rest, d
  <2>4. LET g == [f EXCEPT !.todo = rest] IN g \in SyncCall /\ g.op = "sync"
    BY <2>1, <2>3 DEF SyncCall
  <2>5. Sound([f EXCEPT !.todo = rest])
    BY <2>4 DEF Sound, SubOps
  <2>6. /\ set = {} \/ \E g : set = {g}
        /\ \A g \in set : Sound(g) /\ g.op # "addRoot"
    BY <2>4, <2>5
  <2> HIDE DEF set
  <2> QED
    BY <2>1, <2>2, <2>6, ReplaceEnds
<1> QED
  BY <1>1, <1>2

LEMMA GrantsEnds ==
  ASSUME Inv,
         \/ \E u \in Users, w \in Wants : putUserLibraries(u, w)
         \/ \E f \in flight : SetUserGrants(f)
  PROVE  Ends
<1>1. ASSUME NEW u \in Users, NEW w \in Wants, putUserLibraries(u, w) PROVE Ends
  <2> DEFINE rec == [op |-> "grants", user |-> u, want |-> w]
  <2>1. Suspend(rec) /\ Sound(rec) /\ rec.op # "addRoot"
    BY <1>1 DEF putUserLibraries, Sound, SubOps
  <2> QED
    BY <2>1, SuspendEnds
<1>2. ASSUME NEW f \in flight, SetUserGrants(f) PROVE Ends
  <2> DEFINE e == ReplaceUserGrants(db, f.user, f.want).db
             row == Restrict(f.want, {l \in DOMAIN f.want : f.want[l] # {}})
  <2>1. f \in Calls("grants") /\ f.user \in Users /\ f.want \in Wants
    BY <1>2 DEF SetUserGrants, Calls, Inv, Sound
  <2>2. flight' = flight \ {f} /\ db' = e /\ shown' = Nobody /\ UNCHANGED <<dirs, subs, tv>>
    BY <1>2 DEF SetUserGrants, Resume, Replace
  <2>3. /\ Consistent(e) /\ e.roots = db.roots
        /\ \/ e = db
           \/ /\ e.grants[f.user] = row
              /\ e.libs = db.libs
              /\ \A v \in Users \ {f.user} : e.grants[v] = db.grants[v]
    <3>1. f.want \in [DOMAIN f.want -> SUBSET Perms]
      BY <2>1, LibraryInputs
    <3> QED
      BY <2>1, <3>1, InvFacts, ReplaceUserGrantsStep
  <2> HIDE DEF e
  <2>4. TypeOK'
    <3>1. flight' = (flight \ {f}) \cup {}
      BY <2>2
    <3>2. IsFiniteSet(flight') /\ Cardinality(flight') <= MaxFlight
      BY <3>1, FlightSize
    <3> QED
      BY <2>2, <2>3, <3>2 DEF Inv, TypeOK
  <2>5. GrantStep
    <3>1. \A u \in Users :
             Restrict(db.grants[u], DOMAIN db.grants[u] \cap DOMAIN db.libs) = db.grants[u]
      BY InvFacts, ShrinksSame DEF Shrinks, GrantsFollow
    <3> SUFFICES ASSUME NEW u \in Users
                 PROVE  \/ db'.grants[u] = Restrict(db.grants[u], DOMAIN db.grants[u] \cap DOMAIN db'.libs)
                        \/ f.user = u /\ db'.grants[u] = row
      BY <2>1 DEF GrantStep
    <3> HIDE DEF row
    <3> QED
      BY <2>2, <2>3, <3>1
  <2>6. RootsKeep(db, db') /\ \A g \in flight' : Sound(g) /\ g \in flight
    BY <2>2, <2>3 DEF RootsKeep, Inv
  <2> QED
    BY <2>2, <2>4, <2>5, <2>6, NobodyReads, QuietEnds
<1> QED
  BY <1>1, <1>2

\* Progress and favourites
LEMMA MarksEnds ==
  ASSUME Inv,
         \/ \E u \in Savers, p \in Saved, x \in Patches : patchWatch(u, p, x)
         \/ \E f \in flight : PatchWrite(f)
         \/ \E u \in Savers, p \in Saved, on \in BOOLEAN : patchFavorite(u, p, on)
         \/ \E f \in flight : FavoriteWrite(f)
  PROVE  Ends
<1>1. ASSUME NEW u \in Savers, NEW p \in Saved, NEW l \in MatchLibrary(db, p)
      PROVE  Key(u, l, p) \in [user : Users, lib : Libs, path : Files]
  BY InvFacts, PathTypes, MatchIsLibrary DEF Key
<1>2. ASSUME NEW u \in Savers, NEW p \in Saved, NEW x \in Patches, patchWatch(u, p, x) PROVE Ends
  <2>1. PICK l \in MatchLibrary(db, p) :
           Suspend([op |-> "watch", key |-> Key(u, l, p), patch |-> x, current |-> GetWatch(db, Key(u, l, p))])
    BY <1>2 DEF patchWatch
  <2> DEFINE rec == [op |-> "watch", key |-> Key(u, l, p), patch |-> x,
                     current |-> GetWatch(db, Key(u, l, p))]
  <2>2. Sound(rec) /\ rec.op # "addRoot"
    BY <1>1 DEF Sound, SubOps
  <2> QED
    BY <2>1, <2>2, SuspendEnds
<1>3. ASSUME NEW u \in Savers, NEW p \in Saved, NEW on \in BOOLEAN, patchFavorite(u, p, on) PROVE Ends
  <2>1. PICK l \in MatchLibrary(db, p) : Suspend([op |-> "fav", key |-> Key(u, l, p), on |-> on])
    BY <1>3 DEF patchFavorite
  <2> DEFINE rec == [op |-> "fav", key |-> Key(u, l, p), on |-> on]
  <2>2. Sound(rec) /\ rec.op # "addRoot"
    BY <1>1 DEF Sound, SubOps
  <2> QED
    BY <2>1, <2>2, SuspendEnds
<1>4. ASSUME NEW k \in [user : Users, lib : Libs, path : Files], k.lib \in DOMAIN db.libs
      PROVE  k \in [user : Users, lib : DOMAIN db.libs, path : Files]
  BY <1>4
<1>5. ASSUME NEW f \in flight, PatchWrite(f) PROVE Ends
  <2> DEFINE next == mergeWatchPatch(f.current, f.patch)
             d == IF f.patch.watched = "false" THEN Clear(db, f.key).db
                  ELSE IF skipProgressWrite(f.current, next) THEN db
                  ELSE Upsert(db, f.key, next).db
  <2>1. f.key \in [user : Users, lib : Libs, path : Files] /\ Resume(f, d)
    BY <1>5 DEF PatchWrite, Calls, Inv, Sound
  <2>2. Shrinks(db, d)
    BY <1>4, <2>1, InvFacts, WatchShrinks, ShrinksSame
  <2> HIDE DEF d
  <2> QED
    BY <2>1, <2>2, ResumeEnds
<1>6. ASSUME NEW f \in flight, FavoriteWrite(f) PROVE Ends
  <2> DEFINE d == SetFavorite(db, f.key, f.on).db
  <2>1. f.key \in [user : Users, lib : Libs, path : Files] /\ Resume(f, d)
    BY <1>6 DEF FavoriteWrite, Calls, Inv, Sound
  <2>2. Shrinks(db, d)
    BY <1>4, <2>1, InvFacts, SetFavoriteShrinks
  <2> HIDE DEF d
  <2> QED
    BY <2>1, <2>2, ResumeEnds
<1> QED
  BY <1>2, <1>3, <1>5, <1>6

\* The index, the disk and the bin
LEMMA FilesEnds ==
  ASSUME Inv,
         \/ \E p \in Files : IndexFile(p) \/ restoreTrash(p) \/ deleteTrashForever(p)
         \/ \E u \in Users, p \in Files : deleteMedia(u, p)
         \/ \E r \in RootPaths : FolderGone(r) \/ FolderBack(r)
         \/ \E f \in flight : moveMediaToTrash(f) \/ OnPermanentDelete(f) \/ DeleteTrashRow(f)
  PROVE  Ends
<1>0. Consistent(db) /\ db.media \subseteq [lib : DOMAIN db.libs, path : Files] /\ db.bin \subseteq Files
  BY InvFacts DEF Consistent
<1>1. ASSUME NEW p \in Files, IndexFile(p) PROVE Ends
  <2>1. PICK l \in MatchLibrary(db, p) : Write([db EXCEPT !.media = @ \cup {[lib |-> l, path |-> p]}])
    BY <1>1 DEF IndexFile
  <2>2. Shrinks(db, [db EXCEPT !.media = db.media \cup {[lib |-> l, path |-> p]}])
    BY <1>0, <2>1, MatchIsLibrary, IndexShrinks
  <2> QED
    BY <2>1, <2>2, ShrinkWriteEnds
<1>2. ASSUME NEW p \in Files, restoreTrash(p) PROVE Ends
  BY <1>0, <1>2, BinShrinks, ShrinkWriteEnds DEF restoreTrash
<1>3. ASSUME NEW p \in Files, deleteTrashForever(p) PROVE Ends
  <2> DEFINE rec == [op |-> "purge", path |-> p, todo |-> <<"metadata", "watch", "favorite">>]
  <2>1. Suspend(rec) /\ Sound(rec) /\ rec.op # "addRoot"
    BY <1>3 DEF deleteTrashForever, Sound, SubOps, PurgeCall
  <2> QED
    BY <2>1, SuspendEnds
<1>4. ASSUME NEW u \in Users, NEW p \in Files, deleteMedia(u, p) PROVE Ends
  <2> DEFINE rec == [op |-> "trash", path |-> p]
  <2>1. Suspend(rec) /\ Sound(rec) /\ rec.op # "addRoot"
    BY <1>4 DEF deleteMedia, Sound, SubOps
  <2> QED
    BY <2>1, SuspendEnds
<1>5. ASSUME NEW r \in RootPaths, FolderGone(r) \/ FolderBack(r) PROVE Ends
  <2>1. /\ dirs' \subseteq RootPaths /\ shown' = Nobody /\ UNCHANGED <<db, flight, subs, tv, uses>>
    BY <1>5 DEF FolderGone, FolderBack, Folders, Inv, TypeOK
  <2>2. TypeOK' /\ RootsKeep(db, db') /\ GrantStep
    BY <1>0, <2>1, ShrinksSame DEF Inv, TypeOK, RootsKeep, GrantStep, Shrinks, GrantsFollow
  <2>3. \A g \in flight' : Sound(g) /\ g \in flight
    BY <2>1, InvFacts
  <2> QED
    BY <2>1, <2>2, <2>3, NobodyReads, QuietEnds
<1>6. ASSUME NEW f \in flight, moveMediaToTrash(f) PROVE Ends
  <2>1. f.path \in Files /\ Resume(f, [db EXCEPT !.bin = @ \cup {f.path}])
    BY <1>6, InvFacts DEF moveMediaToTrash, Calls, Sound
  <2>2. Shrinks(db, [db EXCEPT !.bin = db.bin \cup {f.path}])
    BY <1>0, <2>1, BinShrinks
  <2> QED
    BY <2>1, <2>2, ResumeEnds
<1>7. ASSUME NEW f \in flight, DeleteTrashRow(f) PROVE Ends
  <2>1. Shrinks(db, [db EXCEPT !.bin = db.bin \ {f.path}])
    BY <1>0, BinShrinks
  <2> QED
    BY <1>7, <2>1, ResumeEnds DEF DeleteTrashRow
<1>8. ASSUME NEW f \in flight, OnPermanentDelete(f) PROVE Ends
  <2> DEFINE g == [f EXCEPT !.todo = Tail(@)]
             d == CASE Head(f.todo) = "metadata" -> DeleteMetadataForPath(db, f.path)
                    [] Head(f.todo) = "watch"    -> DeleteWatchForPath(db, f.path)
                    [] Head(f.todo) = "favorite" -> DeleteFavoriteForPath(db, f.path)
  <2>1. f.op = "purge" /\ f \in PurgeCall /\ f.todo # <<>> /\ Replace(f, {g}, d)
    BY <1>8, InvFacts DEF OnPermanentDelete, Calls, Sound
  <2>2. /\ Head(f.todo) \in {"metadata", "watch", "favorite"}
        /\ Tail(f.todo) \in Seq({"metadata", "watch", "favorite"})
    BY <2>1, HeadTailProperties DEF PurgeCall
  <2>3. g \in PurgeCall /\ g.op = "purge"
    BY <2>1, <2>2 DEF PurgeCall
  <2>4. Sound(g)
    BY <2>3 DEF Sound, SubOps
  <2>5. d \in {DeleteMetadataForPath(db, f.path), DeleteWatchForPath(db, f.path),
              DeleteFavoriteForPath(db, f.path)}
    BY <2>2
  <2> HIDE DEF d, g
  <2>6. Shrinks(db, d)
    BY <1>0, <2>5, PermanentDeleteShrinks
  <2>7. (\E h : {g} = {h}) /\ \A h \in {g} : Sound(h) /\ h.op # "addRoot"
    BY <2>3, <2>4
  <2> QED
    BY <2>1, <2>6, <2>7, ReplaceEnds
<1> QED
  BY <1>1, <1>2, <1>3, <1>4, <1>5, <1>6, <1>7, <1>8

\* Requests for one path
LEMMA ServeEnds ==
  ASSUME Inv,
         \/ \E u \in Users, p \in Files : \/ download(u, p) \/ stream(u, p) \/ thumbnail(u, p)
                                        \/ play(u, p) \/ getWatch(u, p) \/ getFavorite(u, p)
         \/ \E p \in Files : ServeHTTP(p)
         \/ \E f \in flight : Serve(f)
  PROVE  Ends
<1>1. ASSUME NEW u \in Users, NEW p \in Files, NEW allowed, allowed => CanRead(db, u, p),
             ensurePermission(u, p, allowed)
      PROVE  Ends
  <2> DEFINE rec == [op |-> "serve", user |-> u, path |-> p, may |-> May(db, u),
                     libs |-> MatchLibrary(db, p)]
  <2>1. MatchLibrary(db, p) \subseteq May(db, u) /\ Suspend(rec)
    BY <1>1, InvFacts, PathTypes, ReadMeansMay DEF ensurePermission
  <2>2. Sound(rec) /\ rec.op # "addRoot"
    BY <2>1 DEF Sound, SubOps
  <2> QED
    BY <2>1, <2>2, SuspendEnds
<1>2. ASSUME NEW f \in flight, Serve(f) PROVE Ends
  <2>1. f.libs \subseteq f.may
    BY <1>2, InvFacts DEF Serve, Calls, Sound
  <2>2. Fine(db, f.user, f.may \cup May(db, f.user), {Item(l, f.path) : l \in f.libs})
    BY <2>1 DEF Fine, Item
  <2>3. tv' \in [on : BOOLEAN, urls : SUBSET Files]
    BY <1>2 DEF Serve, Inv, TypeOK
  <2> QED
    BY <1>2, <2>2, <2>3, ShowEnds DEF Serve
<1>3. ASSUME NEW u \in Users, NEW p \in Files,
             \/ download(u, p) \/ stream(u, p) \/ thumbnail(u, p)
             \/ play(u, p) \/ getWatch(u, p) \/ getFavorite(u, p)
      PROVE  Ends
  BY <1>1, <1>3 DEF download, stream, thumbnail, play, getWatch, getFavorite
<1>4. ASSUME NEW p \in Files, ServeHTTP(p) PROVE Ends
  BY <1>1, <1>4, PathTypes DEF ServeHTTP
<1> QED
  BY <1>2, <1>3, <1>4

LEMMA BrowseEnds ==
  ASSUME Inv,
         \/ \E u \in Users, p \in RootPaths \cup {<<>>} : browseWithPath(u, p)
         \/ \E f \in flight : BrowseAnswer(f)
  PROVE  Ends
<1>1. ASSUME NEW u \in Users, NEW p, browseWithPath(u, p) PROVE Ends
  <2> DEFINE rec == [op |-> "browse", user |-> u, path |-> p, may |-> May(db, u)]
  <2>1. Suspend(rec) /\ Sound(rec) /\ rec.op # "addRoot"
    BY <1>1 DEF browseWithPath, Sound, SubOps
  <2> QED
    BY <2>1, SuspendEnds
<1>2. ASSUME NEW f \in flight, BrowseAnswer(f) PROVE Ends
  <2> DEFINE listed == {c \in OnDisk : Len(c) = Len(f.path) + 1 /\ IsPrefix(f.path, c)}
             shownOf  == FilterBrowseResponse(db, f.user, listed)
             items    == UNION {{Item(l, c) : l \in MatchLibrary(db, c)} : c \in shownOf}
             seen     == enrichItemsWatched(db, f.user, f.path, enrichItemsPermissions(db, f.user, items))
             may      == f.may \cup May(db, f.user)
  <2>1. /\ f.user \in Users /\ Show(f, enrichItemsFavorited(db, f.user, f.path, seen)) /\ UNCHANGED tv
    BY <1>2, InvFacts DEF BrowseAnswer, Calls, Sound
  <2>2. \A c \in shownOf : c \in Paths /\ CanRead(db, f.user, c)
    BY PathTypes DEF FilterBrowseResponse, OnDisk, Inv, TypeOK, CanRead, checkPermission
  <2>3. ASSUME NEW c \in shownOf PROVE MatchLibrary(db, c) \subseteq may
    BY <2>1, <2>2, InvFacts, ReadMeansMay
  <2> HIDE DEF shownOf, may
  <2>4. Fine(db, f.user, may, items)
    BY <2>3 DEF Fine, Item
  <2> HIDE DEF items
  <2>5. Fine(db, f.user, may, enrichItemsFavorited(db, f.user, f.path, seen))
    <3>1. Fine(db, f.user, may, enrichItemsPermissions(db, f.user, items))
      BY <2>4, InvFacts, MarkFine
    <3>2. Fine(db, f.user, may, seen)
      BY <3>1, InvFacts, MarkFine
    <3> QED
      BY <3>2, InvFacts, MarkFine
  <2> HIDE DEF seen
  <2>6. tv' \in [on : BOOLEAN, urls : SUBSET Files]
    BY <2>1 DEF Inv, TypeOK
  <2> QED
    BY <2>1, <2>5, <2>6, ShowEnds DEF may
<1> QED
  BY <1>1, <1>2

\* Shelves, search, statistics and the catalog
LEMMA AskEnds ==
  ASSUME Inv, NEW u \in Users, NEW list \in Lists, NEW ids, NEW key,
         ids \subseteq ListReadableLibraries(db, u), list \in Pages => ids # {},
         Ask(u, list, ids, key)
  PROVE  Ends
<1> DEFINE rec == [op |-> "list", user |-> u, list |-> list, may |-> May(db, u), ids |-> ids, key |-> key]
<1>1. Suspend(rec) /\ ids \subseteq May(db, u)
  BY InvFacts, ReadableMay DEF Ask
<1>2. Sound(rec) /\ rec.op # "addRoot"
  BY <1>1 DEF Sound, SubOps
<1> QED
  BY <1>1, <1>2, SuspendEnds

LEMMA AsksEnd ==
  ASSUME Inv,
         \/ \E u \in Users, s \in Shelves : homeItems(u, s)
         \/ \E u \in Users : getHomeStats(u) \/ searchMedia(u)
         \/ \E u \in Users, l \in Libs : getLibraryCatalog(u, l)
         \/ \E u \in Users, l \in Libs, s \in Shows : getShowCatalog(u, l, s)
         \/ \E u \in Users, l \in Libs, s \in Shows, n \in Seasons : getShowSeasonEpisodes(u, l, s, n)
  PROVE  Ends
<1>1. ASSUME NEW u \in Users, NEW s \in Shelves, homeItems(u, s) PROVE Ends
  BY <1>1, AskEnds DEF homeItems, readableLibraries, Shelves, Lists, Pages
<1>2. ASSUME NEW u \in Users, getHomeStats(u) \/ searchMedia(u) PROVE Ends
  BY <1>2, AskEnds DEF getHomeStats, searchMedia, readableLibraries, Lists, Pages
<1>3. ASSUME NEW u \in Users, NEW l, l \in libraryBySlug(db, u, l), NEW page \in Pages, NEW key,
             Ask(u, page, {l}, key)
      PROVE  Ends
  <2>1. \A ids : ids = {l} => ids \subseteq ListReadableLibraries(db, u) /\ ids # {}
    BY <1>3 DEF libraryBySlug
  <2>2. page \in Lists
    BY DEF Lists
  <2> QED
    BY <1>3, <2>1, <2>2, AskEnds
<1>4. ASSUME NEW u \in Users, NEW l \in Libs, getLibraryCatalog(u, l) PROVE Ends
  BY <1>3, <1>4 DEF getLibraryCatalog, Pages
<1>5. ASSUME NEW u \in Users, NEW l \in Libs, NEW s \in Shows, getShowCatalog(u, l, s) PROVE Ends
  BY <1>3, <1>5 DEF getShowCatalog, Pages
<1>6. ASSUME NEW u \in Users, NEW l \in Libs, NEW s \in Shows, NEW n \in Seasons,
             getShowSeasonEpisodes(u, l, s, n)
      PROVE  Ends
  BY <1>3, <1>6 DEF getShowSeasonEpisodes, Pages
<1> QED
  BY <1>1, <1>2, <1>4, <1>5, <1>6

LEMMA ListAnswerEnds ==
  ASSUME Inv, NEW f \in flight, ListAnswer(f)
  PROVE  Ends
<1> DEFINE l == CHOOSE l \in f.ids : TRUE
           Marks(rows) == enrichCatalogFavorited(db, f.user, enrichCatalogWatched(db, f.user, rows))
           may == f.may \cup May(db, f.user)
           items == CASE f.list = "favorites" -> Favorites(db, f.user, f.ids)
                      [] f.list = "watched"   -> Watched(db, f.user, f.ids)
                      [] f.list = "continue"  -> Continue(db, f.user, f.ids)
                      [] f.list = "unwatched" -> Unwatched(db, f.user, f.ids)
                      [] f.list = "stats"     -> Stats(db, f.user, f.ids)
                      [] f.list = "search"    -> Search(db, f.ids)
                      [] f.list = "movies"    -> Marks(listMoviesPage(db, l))
                      [] f.list = "shows"     -> listShowsPage(db, l)
                      [] f.list = "show"      -> GetShow(db, l, f.key[1])
                      [] f.list = "season"    -> Marks(ListSeasonEpisodes(db, l, f.key[1], f.key[2]))
<1>1. /\ f.list \in Lists /\ f.ids \subseteq may /\ (f.list \in Pages => f.ids # {})
      /\ Consistent(db)
  BY InvFacts DEF ListAnswer, Calls, Sound
<1>2. Show(f, items) /\ tv' \in [on : BOOLEAN, urls : SUBSET Files]
  BY DEF ListAnswer, Inv, TypeOK
<1> HIDE DEF may
<1>3. /\ Fine(db, f.user, may, Favorites(db, f.user, f.ids))
      /\ Fine(db, f.user, may, Watched(db, f.user, f.ids))
      /\ Fine(db, f.user, may, Continue(db, f.user, f.ids))
      /\ Fine(db, f.user, may, Unwatched(db, f.user, f.ids))
      /\ Fine(db, f.user, may, Stats(db, f.user, f.ids))
      /\ Fine(db, f.user, may, Search(db, f.ids))
  BY <1>1, ShelvesFine
<1>4. ASSUME f.list \in Pages
      PROVE  /\ Fine(db, f.user, may, Marks(listMoviesPage(db, l)))
             /\ Fine(db, f.user, may, listShowsPage(db, l))
             /\ Fine(db, f.user, may, GetShow(db, l, f.key[1]))
             /\ Fine(db, f.user, may, Marks(ListSeasonEpisodes(db, l, f.key[1], f.key[2])))
  <2>1. l \in may
    BY <1>1, <1>4
  <2> HIDE DEF l
  <2>2. /\ Fine(db, f.user, may, listMoviesPage(db, l))
        /\ Fine(db, f.user, may, listShowsPage(db, l))
        /\ Fine(db, f.user, may, GetShow(db, l, f.key[1]))
        /\ Fine(db, f.user, may, ListSeasonEpisodes(db, l, f.key[1], f.key[2]))
    BY <1>1, <2>1, PagesFine
  <2> QED
    BY <1>1, <2>2, CatalogMarksFine
<1> HIDE DEF Marks, l
<1>5. Fine(db, f.user, may, items)
  <2>1. CASE f.list \in Shelves \cup {"stats", "search"}
    BY <1>3, <2>1 DEF Shelves
  <2>2. CASE f.list \in Pages
    BY <1>4, <2>2 DEF Pages
  <2> QED
    BY <1>1, <2>1, <2>2 DEF Lists
<1> HIDE DEF items
<1> QED
  BY <1>2, <1>5, ShowEnds DEF may

\* The television
LEMMA TelevisionEnds ==
  ASSUME Inv,
         \/ \E on \in BOOLEAN : Account(on)
         \/ \E id \in Objects : BrowseDirectChildren(id)
         \/ \E p \in Files : SignedUrlExpires(p)
  PROVE  Ends
<1>1. ASSUME UNCHANGED <<db, dirs, flight, subs>>, shown' = Nobody, tv' \in [on : BOOLEAN, urls : SUBSET Files]
      PROVE  Ends
  <2>1. TypeOK' /\ RootsKeep(db, db') /\ GrantStep
    BY <1>1, InvFacts, ShrinksSame DEF Inv, TypeOK, RootsKeep, GrantStep, Shrinks, GrantsFollow
  <2>2. \A g \in flight' : Sound(g) /\ g \in flight
    BY <1>1, InvFacts
  <2> QED
    BY <1>1, <2>1, <2>2, NobodyReads, QuietEnds
<1>2. ASSUME NEW on \in BOOLEAN, Account(on) PROVE Ends
  BY <1>1, <1>2 DEF Account, Inv, TypeOK
<1>3. ASSUME NEW p \in Files, SignedUrlExpires(p) PROVE Ends
  BY <1>1, <1>3 DEF SignedUrlExpires, Inv, TypeOK
<1>4. ASSUME NEW id \in Objects, BrowseDirectChildren(id) PROVE Ends
  <2>1. PICK type, roots :
           Suspend([op |-> "tv", user |-> TV, id |-> id, may |-> May(db, TV), type |-> type, roots |-> roots])
    BY <1>4 DEF BrowseDirectChildren
  <2> DEFINE rec == [op |-> "tv", user |-> TV, id |-> id, may |-> May(db, TV), type |-> type, roots |-> roots]
  <2>2. id[1] = "files" => id[2] \in May(db, TV)
    BY <1>4, InvFacts, ReadableMay DEF BrowseDirectChildren, findLibrary
  <2>4. id[1] \in {"root", "lib", "cat", "show", "season", "files"}
    BY DEF Objects
  <2>3. Sound(rec) /\ rec.op # "addRoot"
    BY <2>2, <2>4 DEF Sound, SubOps
  <2> QED
    BY <2>1, <2>3, SuspendEnds
<1> QED
  BY <1>2, <1>3, <1>4

LEMMA CatalogChildrenFine ==
  ASSUME NEW d, Consistent(d), NEW u, NEW v, NEW may, NEW l \in may, NEW type, NEW now, NEW id
  PROVE  /\ Fine(d, u, may, catalogChildren(d, v, l, type, now))
         /\ Fine(d, u, may, seriesCatalogChildren(d, v, l, id))
<1>1. Fine(d, u, may, {})
  BY DEF Fine
<1>2. Fine(d, u, may, videoItem(d, v, listMoviesPage(d, l)))
  <2>1. Fine(d, u, may, listMoviesPage(d, l)) /\ \A i \in listMoviesPage(d, l) : i.path \in Files
    BY PagesFine
  <2> QED
    BY <2>1, VideoFine
<1>3. Fine(d, u, may, videoItem(d, v, ListSeasonEpisodes(d, l, id[3], id[4])))
  <2>1. /\ Fine(d, u, may, ListSeasonEpisodes(d, l, id[3], id[4]))
        /\ \A i \in ListSeasonEpisodes(d, l, id[3], id[4]) : i.path \in Files
    BY PagesFine
  <2> QED
    BY <2>1, VideoFine
<1>4. Fine(d, u, may, listShowsPage(d, l)) /\ Fine(d, u, may, GetShow(d, l, id[3]))
  BY PagesFine
<1> QED
  BY <1>1, <1>2, <1>3, <1>4 DEF catalogChildren, seriesCatalogChildren

LEMMA FilesChildrenFine ==
  ASSUME NEW d, Consistent(d), NEW u \in Users, NEW may, NEW l \in may, NEW p, NEW roots,
         NEW onDisk \in SUBSET Paths, May(d, u) \subseteq may
  PROVE  Fine(d, u, may, filesChildren(d, u, l, p, roots, onDisk))
<1> DEFINE folder == IF p # <<>> \/ Cardinality(roots) # 1 THEN p ELSE CHOOSE r \in roots : TRUE
           inside == {c \in onDisk : Len(c) = Len(folder) + 1 /\ IsPrefix(folder, c) /\ CanRead(d, u, c)}
           Owned(c) == {Item(o, c) : o \in MatchLibrary(d, c)}
<1>1. Fine(d, u, may, {Item(l, r) : r \in roots})
  BY DEF Fine, Item
<1>2. \A c \in inside : c \in Paths /\ CanRead(d, u, c)
  OBVIOUS
<1> HIDE DEF inside, folder
<1>3. ASSUME NEW c \in inside
      PROVE  Fine(d, u, may, IF c \in Files THEN videoItem(d, u, Owned(c)) ELSE Owned(c))
  <2>1. MatchLibrary(d, c) \subseteq may
    BY <1>2, ReadMeansMay
  <2>2. Fine(d, u, may, Owned(c)) /\ \A i \in Owned(c) : i.path = c
    BY <2>1 DEF Fine, Item
  <2> HIDE DEF Owned
  <2>3. c \in Files => Fine(d, u, may, videoItem(d, u, Owned(c)))
    BY <2>2, VideoFine
  <2> QED
    BY <2>2, <2>3
<1> HIDE DEF Owned
<1>4. Fine(d, u, may, UNION {IF c \in Files THEN videoItem(d, u, Owned(c)) ELSE Owned(c) : c \in inside})
  BY <1>3 DEF Fine
<1> QED
  BY <1>1, <1>4 DEF filesChildren, inside, folder, Owned

LEMMA childrenEnds ==
  ASSUME Inv, NEW f \in flight, children(f)
  PROVE  Ends
<1> DEFINE id     == f.id
           found  == id[1] \in {"cat", "show", "season"} => libraryBySlug(db, TV, id[2]) # {}
           series == found /\ f.type = "series" /\ db.libs[id[2]] = "series"
           items  == CASE id[1] = "root"  -> rootLibraries(db, TV)
                       [] id[1] = "lib"   -> libraryBranches
                       [] id[1] = "cat"   -> IF ~found THEN {}
                                             ELSE catalogChildren(db, TV, id[2], f.type, db.libs[id[2]])
                       [] id[1] = "files" -> filesChildren(db, TV, id[2], id[3], f.roots, OnDisk)
                       [] OTHER -> IF series THEN seriesCatalogChildren(db, TV, id[2], id) ELSE {}
           may    == f.may \cup May(db, TV)
<1>0. /\ f.op = "tv" /\ f.user = TV /\ (id[1] = "files" => id[2] \in f.may) /\ TV \in Users
      /\ id[1] \in {"root", "lib", "cat", "show", "season", "files"}
      /\ Consistent(db)
  BY InvFacts, PathTypes DEF children, Calls, Sound
<1>1. /\ Show(f, items)
      /\ tv' = [tv EXCEPT !.urls = @ \cup {i.path : i \in {i \in items : "url" \in i.flags}}]
  BY DEF children
<1>2. id[1] \in {"cat", "show", "season"} /\ found => id[2] \in may
  BY <1>0, ReadableMay DEF libraryBySlug
<1>3. OnDisk \in SUBSET Paths
  BY PathTypes DEF OnDisk, Inv, TypeOK
<1>4. Fine(db, TV, may, {})
  BY DEF Fine
<1>5. Fine(db, TV, may, rootLibraries(db, TV)) /\ Fine(db, TV, may, libraryBranches)
  BY <1>0, ReadableMay DEF Fine, rootLibraries, libraryBranches, Item
<1>6. Fine(db, TV, may, items)
  <2> HIDE DEF may
  <2>1. CASE id[1] = "root"
    BY <1>5, <2>1
  <2>2. CASE id[1] = "lib"
    BY <1>5, <2>2
  <2>3. CASE id[1] = "cat"
    <3>1. found => Fine(db, TV, may, catalogChildren(db, TV, id[2], f.type, db.libs[id[2]]))
      BY <1>0, <1>2, <2>3, CatalogChildrenFine
    <3> HIDE DEF found
    <3> QED
      BY <1>4, <2>3, <3>1
  <2>4. CASE id[1] = "files"
    <3>1. May(db, TV) \subseteq may /\ id[2] \in may
      BY <1>0, <2>4 DEF may
    <3>2. Fine(db, TV, may, filesChildren(db, TV, id[2], id[3], f.roots, OnDisk))
      BY <1>0, <1>3, <3>1, FilesChildrenFine
    <3> QED
      BY <2>4, <3>2
  <2>5. CASE id[1] \notin {"root", "lib", "cat", "files"}
    <3>1. items = IF series THEN seriesCatalogChildren(db, TV, id[2], id) ELSE {}
      BY <2>5
    <3>2. series => Fine(db, TV, may, seriesCatalogChildren(db, TV, id[2], id))
      <4>1. series => id[2] \in may
        BY <1>0, <1>2, <2>5 DEF may
      <4> QED
        BY <1>0, <4>1, CatalogChildrenFine
    <3> HIDE DEF series
    <3> QED
      BY <1>4, <3>1, <3>2
  <2> QED
    BY <2>1, <2>2, <2>3, <2>4, <2>5
<1> HIDE DEF items
<1>7. tv' \in [on : BOOLEAN, urls : SUBSET Files]
  BY <1>1, <1>6 DEF Fine, Inv, TypeOK
<1> QED
  BY <1>0, <1>1, <1>6, <1>7, ShowEnds

\* The viewers' own subtitles
LEMMA SubtitleEnds ==
  ASSUME Inv,
         \/ \E u \in Users, p \in Saved : \/ putUserSubtitle(u, p) \/ getUserSubtitle(u, p)
                                        \/ deleteUserSubtitle(u, p)
         \/ \E f \in flight : PutText(f) \/ PutMeta(f) \/ readMeta(f) \/ DeleteSubtitle(f)
         \/ \E k \in DOMAIN subs.meta : SubtitleExpires(k)
  PROVE  Ends
<1> DEFINE K == [user : Users, path : Files]
<1>1. ASSUME NEW op \in SubOps, NEW u \in Users, NEW p \in Saved, Suspend([op |-> op, key |-> Sub(u, p)])
      PROVE  Ends
  <2> DEFINE rec == [op |-> op, key |-> Sub(u, p)]
  <2>1. rec \in SubCall /\ rec.op = op
    BY PathTypes DEF SubCall, Sub
  <2>2. Sound(rec) /\ rec.op # "addRoot"
    BY <2>1 DEF Sound, SubOps
  <2> QED
    BY <1>1, <2>2, SuspendEnds
<1>2. ASSUME NEW u \in Users, NEW p \in Saved,
             putUserSubtitle(u, p) \/ getUserSubtitle(u, p) \/ deleteUserSubtitle(u, p)
      PROVE  Ends
  BY <1>1, <1>2 DEF putUserSubtitle, getUserSubtitle, deleteUserSubtitle, SubOps
<1>3. ASSUME NEW f \in flight, f.op \in SubOps, NEW op \in SubOps
      PROVE  /\ f.key \in K
             /\ Sound([f EXCEPT !.op = op]) /\ [f EXCEPT !.op = op].op # "addRoot"
  <2>1. f \in SubCall
    BY <1>3, InvFacts DEF Sound
  <2> DEFINE g == [f EXCEPT !.op = op]
  <2>2. f.key \in K /\ g \in SubCall /\ g.op = op
    BY <2>1 DEF SubCall
  <2> HIDE DEF g
  <2>3. Sound(g) /\ g.op # "addRoot"
    BY <2>2 DEF Sound, SubOps
  <2> QED
    BY <2>2, <2>3 DEF g
\* A step of the files: subs and flight alone
<1>4. ASSUME UNCHANGED <<db, dirs, tv>>, shown' = Nobody, DOMAIN subs' = {"vtt", "meta"},
             subs'.vtt \cup DOMAIN subs'.meta \subseteq K,
             IsFiniteSet(flight'), Cardinality(flight') <= MaxFlight,
             \A g \in flight' : Sound(g) /\ (g \in flight \/ g.op # "addRoot")
      PROVE  Ends
  <2>1. TypeOK' /\ RootsKeep(db, db') /\ GrantStep
    BY <1>4, InvFacts, ShrinksSame DEF Inv, TypeOK, RootsKeep, GrantStep, Shrinks, GrantsFollow
  <2> QED
    BY <1>4, <2>1, NobodyReads, QuietEnds
<1>5. /\ DOMAIN subs = {"vtt", "meta"} /\ subs.vtt \subseteq K /\ DOMAIN subs.meta \subseteq K
      /\ IsFiniteSet(flight) /\ Cardinality(flight) <= MaxFlight
  BY DEF Inv, TypeOK
<1>6. ASSUME NEW f \in flight, PutText(f) PROVE Ends
  <2> DEFINE g == [f EXCEPT !.op = "subMeta"]
  <2>1. f.key \in K /\ Sound(g) /\ g.op # "addRoot"
    BY <1>3, <1>6 DEF PutText, Calls, SubOps
  <2>2. flight' = (flight \ {f}) \cup {g} /\ subs' = [subs EXCEPT !.vtt = @ \cup {f.key}]
        /\ shown' = Nobody /\ UNCHANGED <<db, dirs, tv>>
    BY <1>6 DEF PutText, Keep
  <2> HIDE DEF g, K
  <2>3. IsFiniteSet(flight') /\ Cardinality(flight') <= MaxFlight
    BY <2>2, FlightSize
  <2>4. DOMAIN subs' = {"vtt", "meta"} /\ subs'.vtt \cup DOMAIN subs'.meta \subseteq K
    BY <1>5, <2>1, <2>2
  <2>5. \A h \in flight' : Sound(h) /\ (h \in flight \/ h.op # "addRoot")
    BY <2>1, <2>2, InvFacts
  <2> QED
    BY <1>4, <2>2, <2>3, <2>4, <2>5
<1>7. ASSUME NEW f \in flight, PutMeta(f) \/ DeleteSubtitle(f) PROVE Ends
  <2>1. f.key \in K
    BY <1>3, <1>7 DEF PutMeta, DeleteSubtitle, Calls, SubOps
  <2>2. flight' = (flight \ {f}) \cup {} /\ shown' = Nobody /\ UNCHANGED <<db, dirs, tv>>
    BY <1>7 DEF PutMeta, DeleteSubtitle, Keep
  <2>3. DOMAIN subs' = {"vtt", "meta"} /\ subs'.vtt \cup DOMAIN subs'.meta \subseteq K
    <3> HIDE DEF K
    <3>1. CASE PutMeta(f)
      BY <1>5, <2>1, <3>1 DEF PutMeta, Keep, Insert
    <3>2. CASE DeleteSubtitle(f)
      BY <1>5, <2>1, <3>2 DEF DeleteSubtitle, Keep, Restrict
    <3> QED
      BY <1>7, <3>1, <3>2
  <2>4. IsFiniteSet(flight') /\ Cardinality(flight') <= MaxFlight
    BY <2>2, FlightSize
  <2>5. \A h \in flight' : Sound(h) /\ h \in flight
    BY <2>2, InvFacts
  <2> QED
    BY <1>4, <2>2, <2>3, <2>4, <2>5
<1>8. ASSUME NEW f \in flight, readMeta(f) PROVE Ends
  <2> DEFINE stale == f.key \in DOMAIN subs.meta /\ f.key \in subs.vtt /\ subs.meta[f.key] = "expired"
             g     == [f EXCEPT !.op = "subDrop"]
             set   == IF stale THEN {g} ELSE {}
  <2>1. Sound(g) /\ g.op # "addRoot"
    BY <1>3, <1>8 DEF readMeta, Calls, SubOps
  <2>2. Replace(f, set, db)
    BY <1>8 DEF readMeta
  <2> HIDE DEF g, stale
  <2>3. (set = {} \/ \E h : set = {h}) /\ \A h \in set : Sound(h) /\ h.op # "addRoot"
    BY <2>1
  <2> HIDE DEF set
  <2> QED
    BY <2>2, <2>3, InvFacts, ShrinksSame, ReplaceEnds
<1>9. ASSUME NEW k \in DOMAIN subs.meta, SubtitleExpires(k) PROVE Ends
  <2>1. flight' = flight /\ shown' = Nobody /\ UNCHANGED <<db, dirs, tv>>
    BY <1>9 DEF SubtitleExpires, Keep
  <2>2. DOMAIN subs' = {"vtt", "meta"} /\ subs'.vtt \cup DOMAIN subs'.meta \subseteq K
    <3> HIDE DEF K
    <3> QED
      BY <1>5, <1>9 DEF SubtitleExpires, Keep
  <2> QED
    BY <1>4, <1>5, <2>1, <2>2, InvFacts
<1> QED
  BY <1>2, <1>6, <1>7, <1>8, <1>9

LEMMA NextEnds == ASSUME Inv, Next PROVE Ends
<1>1. CASE \/ \E l \in Libs, t \in Types : createLibrary(l, t) \/ patchLibrary(l, t)
           \/ \E l \in Libs : deleteLibrary(l)
           \/ \E l \in Libs, p \in RootPaths : removeLibraryRoot(l, p)
  BY <1>1, LibraryEnds
<1>2. CASE \/ \E l \in Libs, p \in RootPaths : addLibraryRoot(l, p)
           \/ \E f \in flight : AddRootBegin(f) \/ AddRootCommit(f)
  BY <1>2, addLibraryRootEnds, AddRootBeginEnds, AddRootCommitEnds
<1>3. CASE \/ syncLibraries
           \/ \E f \in Calls("sync") : \E r \in f.todo : pruneLibraryRoots(f, r)
  BY <1>3, SyncEnds
<1>4. CASE \/ \E u \in Users, w \in Wants : putUserLibraries(u, w)
           \/ \E f \in flight : SetUserGrants(f)
  BY <1>4, GrantsEnds
<1>5. CASE \/ \E u \in Savers, p \in Saved, x \in Patches : patchWatch(u, p, x)
           \/ \E f \in flight : PatchWrite(f)
           \/ \E u \in Savers, p \in Saved, on \in BOOLEAN : patchFavorite(u, p, on)
           \/ \E f \in flight : FavoriteWrite(f)
  BY <1>5, MarksEnds
<1>6. CASE \/ \E p \in Files : IndexFile(p) \/ restoreTrash(p) \/ deleteTrashForever(p)
           \/ \E u \in Users, p \in Files : deleteMedia(u, p)
           \/ \E r \in RootPaths : FolderGone(r) \/ FolderBack(r)
           \/ \E f \in flight : moveMediaToTrash(f) \/ OnPermanentDelete(f) \/ DeleteTrashRow(f)
  BY <1>6, FilesEnds
<1>7. CASE \/ \E u \in Users, p \in Files : \/ download(u, p) \/ stream(u, p) \/ thumbnail(u, p)
                                          \/ play(u, p) \/ getWatch(u, p) \/ getFavorite(u, p)
           \/ \E p \in Files : ServeHTTP(p)
           \/ \E f \in flight : Serve(f)
  BY <1>7, ServeEnds
<1>8. CASE \/ \E u \in Users, p \in RootPaths \cup {<<>>} : browseWithPath(u, p)
           \/ \E f \in flight : BrowseAnswer(f)
  BY <1>8, BrowseEnds
<1>9. CASE \/ \E u \in Users, s \in Shelves : homeItems(u, s)
           \/ \E u \in Users : getHomeStats(u) \/ searchMedia(u)
           \/ \E u \in Users, l \in Libs : getLibraryCatalog(u, l)
           \/ \E u \in Users, l \in Libs, s \in Shows : getShowCatalog(u, l, s)
           \/ \E u \in Users, l \in Libs, s \in Shows, n \in Seasons : getShowSeasonEpisodes(u, l, s, n)
  BY <1>9, AsksEnd
<1>10. CASE \E f \in flight : ListAnswer(f) \/ children(f)
  BY <1>10, ListAnswerEnds, childrenEnds
<1>11. CASE \/ \E on \in BOOLEAN : Account(on)
            \/ \E id \in Objects : BrowseDirectChildren(id)
            \/ \E p \in Files : SignedUrlExpires(p)
  BY <1>11, TelevisionEnds
<1>12. CASE \/ \E u \in Users, p \in Saved : \/ putUserSubtitle(u, p) \/ getUserSubtitle(u, p)
                                           \/ deleteUserSubtitle(u, p)
            \/ \E f \in flight : PutText(f) \/ PutMeta(f) \/ readMeta(f) \/ DeleteSubtitle(f)
            \/ \E k \in DOMAIN subs.meta : SubtitleExpires(k)
  BY <1>12, SubtitleEnds
<1> QED
  BY <1>1, <1>2, <1>3, <1>4, <1>5, <1>6, <1>7, <1>8, <1>9, <1>10, <1>11, <1>12 DEF Next

LEMMA InitInv == ASSUME Init PROVE Inv
<1>1. Consistent(db) /\ Exclusive(db)
  BY LibraryInputs DEF Init
<1>2. IsFiniteSet(flight) /\ Cardinality(flight) <= MaxFlight
  BY FS_EmptySet, LibraryInputs DEF Init
<1>3. /\ dirs \subseteq RootPaths /\ tv \in [on : BOOLEAN, urls : SUBSET Files]
      /\ DOMAIN subs = {"vtt", "meta"} /\ subs.vtt \cup DOMAIN subs.meta \subseteq [user : Users, path : Files]
  BY DEF Init
<1>4. TypeOK /\ ShownIsReadable
  BY <1>1, <1>2, <1>3 DEF TypeOK, Init, ShownIsReadable, Nobody
<1> QED
  BY <1>1, <1>4 DEF Inv, Init, Alone, Calls

LEMMA StepEnds == ASSUME Inv, [Next]_vars PROVE Ends
<1>1. CASE Next
  BY <1>1, NextEnds
<1>2. CASE UNCHANGED vars
  <2>1. GrantStep /\ MergeStep
    BY <1>2, InvFacts, ShrinksSame DEF vars, GrantStep, MergeStep, Shrinks, GrantsFollow
  <2> QED
    BY <1>2, <2>1 DEF vars, Ends, Inv, TypeOK, Alone, AddKnows, Calls, ShownIsReadable
<1> QED
  BY <1>1, <1>2

-----------------------------------------------------------------------------
(* Theorems *)

\* The invariant holds in every state.
THEOREM Inductive == Spec => []Inv
<1>1. Init => Inv
  BY InitInv
<1>2. Inv /\ [Next]_vars => Inv'
  BY StepEnds DEF Ends
<1> QED
  BY <1>1, <1>2, PTL DEF Spec

\* The tables keep their shape: every root, grant and viewer's row names a library that exists,
\* through deletions between a handler's check and its write (the writes fail on the foreign keys).
THEOREM TypeCorrect == Spec => []TypeOK
<1>1. Inv => TypeOK
  BY DEF Inv
<1> QED
  BY <1>1, Inductive, PTL

\* With one AddRoot at a time the roots of all libraries stay exclusive, so that a path belongs to
\* one library at most (AddRoot, RemoveRoot, DeleteLibrary, pruneLibraryRoots).
THEOREM RootsStayDisjoint == ASSUME MaxAdds = 1 PROVE Spec => []RootsDisjoint
<1>1. Inv => RootsDisjoint
  BY DEF Inv, Alone, RootsDisjoint
<1> QED
  BY <1>1, Inductive, PTL

\* Nothing is shown to a viewer who held no read grant on its library when asking or when being
\* answered, and no mark is another viewer's (the handlers' checks before their reads).
THEOREM OnlyReadableShown == Spec => []ShownIsReadable
<1>1. Inv => ShownIsReadable
  BY DEF Inv
<1> QED
  BY <1>1, Inductive, PTL

\* Moving a folder to another library keeps the progress and the favourites in it, also when
\* several administrators add roots at once (reassignPrefix).
THEOREM MergesKeepProgress == Spec => MergeKeepsProgress
<1>1. Inv /\ [Next]_vars => [MergeStep]_vars
  BY StepEnds DEF Ends
<1>2. [MergeStep]_vars =>
        [\A r \in DOMAIN db.roots :
           (r \in DOMAIN db'.roots /\ db'.roots[r] # db.roots[r]) =>
              /\ \A k \in Below(DOMAIN db.watch, db.roots[r], r) :
                     [k EXCEPT !.lib = db'.roots[r]] \in DOMAIN db'.watch
              /\ \A k \in Below(db.fav, db.roots[r], r) :
                     [k EXCEPT !.lib = db'.roots[r]] \in db'.fav]_vars
  BY DEF MergeStep
<1> QED
  BY <1>1, <1>2, Inductive, PTL DEF Spec, MergeKeepsProgress

\* A viewer's grants only change by one whole request, or go with their library
\* (ReplaceUserGrants, DeleteLibrary).
THEOREM GrantsChangeAsAWhole == Spec => GrantsAreOneRequest
<1>1. Inv /\ [Next]_vars => [GrantStep]_vars
  BY StepEnds DEF Ends
<1>2. [GrantStep]_vars =>
        [\A u \in Users :
           \/ db'.grants[u] = Restrict(db.grants[u], DOMAIN db.grants[u] \cap DOMAIN db'.libs)
           \/ \E f \in Calls("grants") :
                  /\ f.user = u
                  /\ db'.grants[u] = Restrict(f.want, {l \in DOMAIN f.want : f.want[l] # {}})]_vars
  BY DEF GrantStep
<1> QED
  BY <1>1, <1>2, Inductive, PTL DEF Spec, GrantsAreOneRequest
=============================================================================
