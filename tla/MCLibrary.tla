----------------------------- MODULE MCLibrary -----------------------------
(* Two libraries, three nested or separate folders, one viewer. *)
EXTENDS Library

MCRootPaths == {<<"a">>, <<"a", "b">>, <<"c">>}
MCFiles     == {<<"a", "b", "f">>, <<"c", "g">>}
MCEpisode   == [p \in MCFiles |-> IF p = <<"c", "g">> THEN [show |-> "s", season |-> 1]
                                ELSE [show |-> "", season |-> 0]]
MCSaved     == {<<"a", "b", "f">>}

MCWants   == {<<>>, [L1 |-> {}, L2 |-> {"read", "delete"}],
              [L1 |-> {"delete"}, L2 |-> {"read"}]}
MCPatches == {[watched |-> "keep", pos |-> 50, dur |-> 100],
              [watched |-> "keep", pos |-> 5, dur |-> NoSec],
              [watched |-> "true", pos |-> NoSec, dur |-> NoSec],
              [watched |-> "false", pos |-> NoSec, dur |-> NoSec]}

Seed(roots) == [libs |-> [L1 |-> "film", L2 |-> "series"], roots |-> roots,
                grants |-> [u \in Users |-> IF u \in Admins THEN <<>> ELSE [L1 |-> {"read"}]],
                media |-> {}, watch |-> <<>>, fav |-> {}, bin |-> {}]
MCSeeds == {Seed((<<"a", "b">> :> "L1") @@ (<<"c">> :> "L1")), Seed(<<"a">> :> "L1" @@ <<"c">> :> "L2")}

MCScenarios == {{"roots", "watch", "favorite"}, {"roots", "favorite", "sync"},
                {"libraries", "grants", "index", "lists"}, {"roots", "grants", "open"},
                {"trash", "favorite", "index", "lists"}, {"trash", "index", "catalog"},
                {"grants", "watch", "index", "catalog"}, {"libraries", "catalog"},
                {"grants", "index", "tv"}, {"libraries", "tv"}, {"grants", "subtitles"}}
=============================================================================
