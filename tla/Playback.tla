------------------------------ MODULE Playback ------------------------------
(***************************************************************************)
(* The players that TimelineJob publishes for: GET and POST /api/playback  *)
(* and GET /api/play/<path>/master.m3u8 (internal/httpapi/play_handlers.go)*)
(* with the choice between the original file and HLS (internal/playback)   *)
(* and Service.Status.  A handler holds no lock: it reads the registry,    *)
(* the markers, the metadata and the playlist one after the other, while   *)
(* jobs, removals and restarts go on.  The requests for segments are       *)
(* SegmentSession's.                                                       *)
(***************************************************************************)
EXTENDS TimelineJob

CONSTANTS
  Players,
  Source,     \* what ffprobe tells of the media file: a SourceCaps record
  Profiles,   \* the device profiles a player may send
  NoProfile,  \* GET /api/playback, which sends none
  Heights     \* the qualities a player may select, 0 for the original

ASSUME PlaybackAssumption == NoProfile \notin Profiles /\ Heights \subseteq Nat

VARIABLE player   \* each player and the request it waits for

allVars == <<vars, player>>

\* `decision' and `capsOK' are respondPlayback's locals, `hasJob' and `status'
\* those of Status.  `due' remembers the method that the file and the device
\* call for, `method' and `meta' are in the last answer.
Idle == [pc |-> "idle", decision |-> "none", capsOK |-> FALSE, hasJob |-> FALSE,
         status |-> "none", due |-> "none", method |-> "none", meta |-> FALSE]

PlaybackInit == Init /\ player = [p \in Players |-> Idle]

At(p, at) == player[p].pc = at

\* Player p goes on as the record r
Becomes(p, r) == player' = [player EXCEPT ![p] = r]

----------------------------------------------------------------------------
(* internal/playback: a codec list is a set of normalized tokens, {} when  *)
(* the profile leaves it out.                                              *)

csvContains(list, needle) == needle # "" /\ needle \in list

matchesDirectPlay(e, source) ==
  /\ csvContains(e.Container, source.Container)
  /\ e.VideoCodec # {} => csvContains(e.VideoCodec, source.VideoCodec)
  /\ e.AudioCodec # {} /\ source.AudioCodec # "" => csvContains(e.AudioCodec, source.AudioCodec)

ExceedsBitrate(profile, source) ==
  /\ profile.MaxStaticBitrate > 0
  /\ source.Bitrate > profile.MaxStaticBitrate

canDirectPlay(profile, source) ==
  /\ source.Container # "" /\ source.VideoCodec # ""
  /\ ~ExceedsBitrate(profile, source)
  /\ \E e \in profile.DirectPlay : matchesDirectPlay(e, source)

hlsMethod(source) == IF source.RemuxOK THEN "remux" ELSE "transcode"

Decide(profile, source, height) ==
  LET original == height = 0 \/ (source.Height > 0 /\ height >= source.Height) IN
  IF ~original THEN "transcode"
  ELSE IF ~profile.PreferHLS /\ canDirectPlay(profile, source) THEN "directPlay"
  ELSE hlsMethod(source)

\* Mutant: whether the video can be copied is not looked up in the metadata
metaCapsNoRemux == [Source EXCEPT !.Bitrate = 0, !.RemuxOK = FALSE]

\* sourceCapsForPlayback once the metadata is on disk: it has no bitrate
metaCaps == [Source EXCEPT !.Bitrate = 0]

----------------------------------------------------------------------------
(* respondPlayback.                                                        *)

\* decidePlaybackMethod: the metadata beside the playlists, or ffprobe
decidePlaybackMethod(profile, height) ==
  LET known == "meta" \in files IN
  CASE profile = NoProfile ->
         [decision |-> IF known THEN hlsMethod(Source) ELSE "transcode", capsOK |-> FALSE]
    [] profile # NoProfile /\ (known \/ sourceOK) ->
         [decision |-> Decide(profile, IF known THEN metaCaps ELSE Source, height),
          capsOK |-> TRUE]
    [] OTHER -> [decision |-> "transcode", capsOK |-> FALSE]

DueMethod(profile, height) ==
  IF profile = NoProfile THEN hlsMethod(Source) ELSE Decide(profile, Source, height)

\* Is it only the bitrate that keeps this device from the original file?
OnlyBitrate(profile, height) ==
  /\ profile # NoProfile
  /\ Decide(profile, [Source EXCEPT !.Bitrate = 0], height) # Decide(profile, Source, height)

\* respondDirectPlay needs neither a job nor the playlists.
Ask(p) ==
  /\ At(p, "idle") /\ ~stopping
  /\ \E profile \in Profiles \cup {NoProfile}, height \in Heights :
       LET d == decidePlaybackMethod(profile, height)
           due == IF OnlyBitrate(profile, height) THEN "either" ELSE DueMethod(profile, height)
       IN Becomes(p, IF d.decision = "directPlay"
                       THEN [Idle EXCEPT !.pc = "direct", !.method = "directPlay", !.due = due]
                       ELSE [Idle EXCEPT !.pc = "start", !.decision = d.decision,
                                         !.capsOK = d.capsOK, !.due = due])
  /\ UNCHANGED vars

\* The calls of StartJob that return early
StartsNothing ==
  stopping \/ isTranscodeComplete \/ entry # NoJob \/ readTranscodeError

\* Mutant: a job is started for the master playlist only
StartsOnPlay(p) ==
  /\ \/ At(p, "start") /\ UNCHANGED vars
     \/ At(p, "play") /\ StartsNothing /\ UNCHANGED vars
     \/ At(p, "play") /\ \E j \in Jobs : StartJob(j)
  /\ Becomes(p, [player[p] EXCEPT !.pc = IF @ = "start" THEN "registry" ELSE "playRegistry"])

\* A player asks for its job (transcode=1), and again with the master playlist
Start(p) ==
  /\ At(p, "start") \/ At(p, "play")
  /\ \/ StartsNothing /\ UNCHANGED vars
     \/ \E j \in Jobs : StartJob(j)
  /\ Becomes(p, [player[p] EXCEPT !.pc = IF @ = "start" THEN "registry" ELSE "playRegistry"])

\* Status looks the job up under s.mu.  It reads job.Failed after the unlock,
\* while the job's goroutine may be setting it.
StatusJob(p) ==
  /\ At(p, "registry") \/ At(p, "playRegistry")
  /\ \E failed \in IF entry # NoJob /\ job[entry] = "fail" THEN BOOLEAN ELSE {FALSE} :
       Becomes(p, [player[p] EXCEPT
         !.pc = IF @ = "registry" THEN "markers" ELSE "playMarkers",
         !.hasJob = entry # NoJob,
         !.status = IF failed THEN "error" ELSE "none"])
  /\ UNCHANGED vars

\* Status on the markers, in its order
StatusOnDisk(hasJob) ==
  CASE isTranscodeComplete -> "ready"
    [] ~isTranscodeComplete /\ readTranscodeError -> "error"
    [] ~isTranscodeComplete /\ ~readTranscodeError /\ (hasJob \/ dir) -> "processing"
    [] OTHER -> "idle"

StatusDisk(p) ==
  /\ At(p, "markers") \/ At(p, "playMarkers")
  /\ LET s == IF player[p].status = "error" THEN "error" ELSE StatusOnDisk(player[p].hasJob)
     IN Becomes(p, [player[p] EXCEPT
          !.pc = IF @ = "markers" THEN "info" ELSE "blocked", !.hasJob = FALSE, !.status = s])
  /\ UNCHANGED vars

resolvePlayMethod(decision, packaged, capsOK) ==
  IF capsOK \/ ~packaged THEN decision ELSE hlsMethod(Source)

\* BuildPlaybackInfoWithUserPrefs and the answer.  A player told "processing"
\* or "idle" asks again a second later.
respondHLSPlayback(p) ==
  /\ At(p, "info")
  /\ LET r == player[p]
         known == "meta" \in files
     IN Becomes(p, CASE r.status = "ready" ->
                          [Idle EXCEPT !.pc = "play", !.due = r.due, !.meta = known,
                             !.method = resolvePlayMethod(r.decision, known, r.capsOK)]
                     [] r.status = "error" -> [Idle EXCEPT !.pc = "failed"]
                     [] OTHER -> Idle)
  /\ UNCHANGED vars

----------------------------------------------------------------------------
(* serveHLSTranscode for the master playlist, after StartJob and Status.   *)

\* respondHLSTranscodeBlocked: a player that is told 503 asks again
respondHLSTranscodeBlocked(p) ==
  /\ At(p, "blocked")
  /\ Becomes(p, [player[p] EXCEPT !.status = "none",
       !.pc = CASE player[p].status = "error" -> "failed"
                [] player[p].status = "ready" -> "stat"
                [] OTHER -> "play"])
  /\ UNCHANGED vars

\* resolveHLSTranscodeDiskPath: os.Stat; 404 "playlist not found"
resolveHLSTranscodeDiskPath(p) ==
  /\ At(p, "stat")
  /\ Becomes(p, [player[p] EXCEPT !.pc = IF "master" \in files THEN "read" ELSE "missing"])
  /\ UNCHANGED vars

\* serveHLSPlaylist: os.ReadFile; 500 "failed to read playlist"
serveHLSPlaylist(p) ==
  /\ At(p, "read")
  /\ Becomes(p, [player[p] EXCEPT !.pc = IF "master" \in files THEN "playing" ELSE "missing"])
  /\ UNCHANGED vars

PlayerStep(p) ==
  \/ Ask(p) \/ Start(p) \/ StatusJob(p) \/ StatusDisk(p) \/ respondHLSPlayback(p)
  \/ respondHLSTranscodeBlocked(p) \/ resolveHLSTranscodeDiskPath(p) \/ serveHLSPlaylist(p)

\* A restart drops the requests; the players ask again.
Reconnected(r) ==
  CASE r.pc \in {"direct", "play", "playing", "failed", "missing"} -> r
    [] r.pc \in {"playRegistry", "playMarkers", "blocked", "stat", "read"} ->
         [r EXCEPT !.pc = "play", !.hasJob = FALSE, !.status = "none"]
    [] OTHER -> Idle

RestartUnderPlayers ==
  /\ ServerRestart
  /\ player' = [p \in Players |-> Reconnected(player[p])]

PlaybackNext ==
  \/ \E p \in Players : PlayerStep(p)
  \/ \E j \in Jobs : Run(j) /\ UNCHANGED player
  \/ \E r \in Removers : Remove(r) /\ UNCHANGED player
  \/ Shutdown /\ UNCHANGED player
  \/ RestartUnderPlayers

PlaybackSpec == PlaybackInit /\ [][PlaybackNext]_allVars

\* Goroutines run, a player that waits asks again, and a server that was shut
\* down is started again.  Nobody but the players starts a job.
PlaybackFairness ==
  /\ \A p \in Players : WF_allVars(PlayerStep(p))
  /\ \A j \in Jobs : WF_allVars(Run(j) /\ UNCHANGED player)
  /\ WF_allVars(stopping /\ RestartUnderPlayers)

PlaybackFairSpec == PlaybackSpec /\ PlaybackFairness

----------------------------------------------------------------------------

\* What a player is told is so: unless somebody removes the cache, an answer
\* "ready" comes with the qualities and tracks and with the method that the
\* file and the device call for, and the playlist it names is there when it is
\* fetched, whichever job publishes, fails, or is cut off by a restart between
\* the handler's reads.  (A device whose only obstacle is its bitrate limit
\* gets an answer that depends on the moment: "either".)
AnswerIsTrue ==
  removals = 0 =>
    \A p \in Players :
      /\ ~At(p, "missing")
      /\ player[p].method # "none" => player[p].due \in {"either", player[p].method}
      /\ At(p, "play") => player[p].meta

\* A player that keeps asking is not told "processing" for ever: it gets the
\* original file, the playlist or an error, once nobody removes the cache.
PlayerSettles ==
  (<>[](\A r \in Removers : removing[r] = "idle"))
    => \A p \in Players : <>(player[p].pc \in {"direct", "playing", "failed", "missing"})

----------------------------------------------------------------------------
(* What a test says and the code does not always do.                       *)

\* "bitrate above maxStaticBitrate blocks Direct Play"
BitrateLimitHolds ==
  \A p \in Players : At(p, "direct") => player[p].due = "directPlay"

=============================================================================
