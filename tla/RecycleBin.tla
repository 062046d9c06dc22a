----------------------------- MODULE RecycleBin -----------------------------
(***************************************************************************)
(* What internal/trash promises to the administrators who use the recycle  *)
(* bin: an item holds the one file that it was made for, a file is never   *)
(* in two places, it returns to the path it came from or is gone, and an   *)
(* item leaves the listing only when its file has left the bin.  The       *)
(* directories, the info.json, the repair from disk, the goroutines and    *)
(* the failures that TrashBin has are not seen here.                       *)
(***************************************************************************)
CONSTANTS Paths, NoPath, Files, NoFile, Items

VARIABLES
  media,   \* the file at each path
  held,    \* the file in each item
  home,    \* the path an item was made for; NoPath for an unused ID
  spent,   \* the items that have had their file, or will have none
  listed,  \* the items that administrators see
  seen     \* the files there have been

vars == <<media, held, home, spent, listed, seen>>

Init ==
  /\ media = [p \in Paths |-> NoFile]
  /\ held = [i \in Items |-> NoFile]
  /\ home = [i \in Items |-> NoPath]
  /\ spent = {} /\ listed = {} /\ seen = {}

\* A new file, from outside
Put(p, f) ==
  /\ media[p] = NoFile
  /\ f \notin seen
  /\ media' = [media EXCEPT ![p] = f]
  /\ seen' = seen \cup {f}
  /\ UNCHANGED <<held, home, spent, listed>>

Draw(i, p) ==
  /\ home[i] = NoPath
  /\ media[p] # NoFile
  /\ home' = [home EXCEPT ![i] = p]
  /\ UNCHANGED <<media, held, spent, listed, seen>>

Waiting == {i \in Items : home[i] # NoPath /\ i \notin spent}

Recycle(i) ==
  /\ i \in Waiting
  /\ media[home[i]] # NoFile
  /\ held' = [held EXCEPT ![i] = media[home[i]]]
  /\ media' = [media EXCEPT ![home[i]] = NoFile]
  /\ spent' = spent \cup {i}
  /\ UNCHANGED <<home, listed, seen>>

\* The file could not be moved, or the server stopped.
Abandon(I) ==
  /\ spent' = spent \cup I
  /\ UNCHANGED <<media, held, home, listed, seen>>

\* An item is listed late, and also again when its file has just left.
List(i) ==
  /\ i \in spent
  /\ listed' = listed \cup {i}
  /\ UNCHANGED <<media, held, home, spent, seen>>

Unlist(i) ==
  /\ held[i] = NoFile
  /\ listed' = listed \ {i}
  /\ UNCHANGED <<media, held, home, spent, seen>>

\* Whatever is at the path by then is replaced.
Restore(i) ==
  /\ held[i] # NoFile
  /\ media' = [media EXCEPT ![home[i]] = held[i]]
  /\ held' = [held EXCEPT ![i] = NoFile]
  /\ UNCHANGED <<home, spent, listed, seen>>

Delete(i) ==
  /\ held' = [held EXCEPT ![i] = NoFile]
  /\ UNCHANGED <<media, home, spent, listed, seen>>

Next ==
  \/ \E p \in Paths, f \in Files : Put(p, f)
  \/ \E i \in Items :
       \/ \E p \in Paths : Draw(i, p)
       \/ Recycle(i) \/ List(i) \/ Unlist(i) \/ Restore(i) \/ Delete(i)
  \/ \E I \in SUBSET Waiting : Abandon(I)

Spec == Init /\ [][Next]_vars
=============================================================================
