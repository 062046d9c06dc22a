---------------------------- MODULE MCMediaIndex ----------------------------
(* Files in two roots (q in the second); edits of the row and of the file.  *)
EXTENDS MediaIndex

MCRootOf(p) == IF p = "q" THEN "r2" ELSE "r1"
MCIdentity(p) == [k \in Keys |-> IF k = "title" THEN "path" ELSE Nil]
MCFileTags == {[k \in Keys |-> Nil]}
MCPatches ==
  {[target |-> "override", fields |-> "title" :> JSON("string", "x")],
   [target |-> "override", fields |-> "ed2k_hash" :> JSON("string", "x")],
   [target |-> "file", fields |-> "title" :> JSON("string", "y")]}
MCTagPatches == {[target |-> "file", fields |-> "tvdb_id" :> JSON("string", "7")]}
=============================================================================
