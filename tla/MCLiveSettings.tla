--------------------------- MODULE MCLiveSettings ---------------------------
(* Two administrators, one connection of a TV, one action of each kind. *)
EXTENDS LiveSettings

Item(x, c) == [action |-> x, cron |-> c]
MCPatches == {<<Item("scan", "nightly")>>, <<Item("scan", "off"), Item("scan", "bad")>>,
              <<Item("warm", "nightly")>>, <<Item("warm", "off")>>}

Dlna(on, user, udn) == [on |-> on, user |-> user, udn |-> udn]
MCBodies ==
  [dlna |-> {Dlna(TRUE, "tv", ""), Dlna(FALSE, "", ""), Dlna(TRUE, "", ""), Dlna(TRUE, "viewer", ""),
             Dlna(TRUE, "tv", "uuid:0")},
   network |-> [url : {"", "http", "socks", "http+secret", "bad"}, pass : {"", "p"}],
   transcode |-> [hw : {"", "qsv", "bad"}, downmix : {"", "none", "bad"}, boost : 0 .. 4]]
=============================================================================
