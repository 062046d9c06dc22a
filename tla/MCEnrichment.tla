---------------------------- MODULE MCEnrichment ----------------------------
(* Two videos of one show; a user edits a title or the show's name. *)
EXTENDS Enrichment, TLC

MCKeys == {"title", "show", "season", "episode", "episode_title", "ed2k_hash"}
MCInferred(p) == [NoFields EXCEPT !["title"] = "path", !["show"] = "s",
                                  !["season"] = "1", !["episode"] = IF p = 1 THEN "1" ELSE Nil]
MCTags(p) == [NoFields EXCEPT !["ed2k_hash"] = IF p = 1 THEN "h" ELSE Nil]
MCFound(what) ==
  CASE what = "film" -> [NoFields EXCEPT !["title"] = "T"]
    [] what = "show" -> [NoFields EXCEPT !["show"] = "S"]
    [] what = "episode" -> [NoFields EXCEPT !["episode_title"] = "E"]
    [] what = "hash" -> [NoFields EXCEPT !["title"] = "T", !["show"] = "S", !["episode_title"] = "E"]
MCEdits == {"show" :> JSON("string", "mine"), "title" :> JSON("string", "mine"),
            "episode_title" :> Null, "season" :> JSON("list", "x")}
Set(m, p, t, l, mode, target, allow) ==
  [metadata |-> m, poster |-> p, subtitle |-> t, langs |-> l, mode |-> mode, target |-> target, allow |-> allow]
MCStored == Set("a", "a", "a", {"en"}, "fill_missing", "db", FALSE)
MCInputs == {Set("b", "b", "b", {"en", "fr"}, "full_rewrite", "file", FALSE),
             Set("b", Nil, "a", {"fr"}, "full_rewrite", "db", TRUE),
             Set("a", "a", "a", {}, "fill_missing", "db", TRUE)}
MCScenarios == {{"film", "metadata", "edits", "settings"}, {"series", "metadata", "edits"},
                {"series", "metadata", "settings"},
                {"series", "poster", "files", "edits"}, {"film", "poster", "settings", "files"},
                {"film", "subtitle", "files", "settings"}}
=============================================================================
