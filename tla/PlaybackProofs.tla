------------------------- MODULE PlaybackProofs -----------------------------
(***************************************************************************)
(* Proofs about TimelineJob, for any number of jobs, removers, restarts    *)
(* and removals, and about the players beside the jobs, for any number of  *)
(* players, any media file, any device profiles and any qualities.         *)
(***************************************************************************)
EXTENDS Playback, TLAPS

\* Jobs that have written the segment table and not failed
Published == {"publish", "mark", "subtitles", "refresh", "done", "settle"}

\* As long as no removal was begun, nobody is removing anything, and the
\* segment table is on disk for every job that goes on to publish.
KeptInv ==
  removals = 0 =>
    /\ \A r \in Removers : removing[r] = "idle"
    /\ \A j \in Jobs : job[j] \in Published => "meta" \in files

IndInv == TypeOK /\ KeptInv /\ WorkerIsRegistered /\ ReadyHasMeta

USE DEF vars, diskVars, procVars

\* What an earlier run has left satisfies the invariant.
LEMMA IndInit == Init => IndInv
<1> SUFFICES ASSUME Init PROVE IndInv
  OBVIOUS
<1>1. 0 \in 0 .. MaxRestarts /\ 0 \in 0 .. MaxRemovals
  BY JobAssumption
<1>2. TypeOK
  BY <1>1 DEF Init, TypeOK, Files, JobPCs
<1>3. KeptInv /\ WorkerIsRegistered /\ ReadyHasMeta
  BY DEF Init, KeptInv, Published, WorkerIsRegistered, Working, ReadyHasMeta, isTranscodeComplete
<1> QED
  BY <1>2, <1>3 DEF IndInv

\* StartJob, Job.Run and finishJob preserve the invariant.
LEMMA IndJob ==
  ASSUME IndInv, NEW j \in Jobs, StartJob(j) \/ Run(j)
  PROVE  IndInv'
<1> USE JobAssumption
    DEF IndInv, TypeOK, Files, JobPCs, KeptInv, Published, WorkerIsRegistered, Working,
        ReadyHasMeta, isTranscodeComplete, Goto
<1>1. CASE StartJob(j)
  BY <1>1 DEF StartJob
<1>2. CASE Probe(j)
  BY <1>2 DEF Probe, WriteFile
<1>3. CASE ProbeFails(j)
  BY <1>3 DEF ProbeFails
<1>4. CASE Publish(j)
  BY <1>4 DEF Publish
<1>5. CASE MarkComplete(j)
  BY <1>5 DEF MarkComplete, WriteFile
<1>6. CASE PackageSubtitles(j)
  BY <1>6 DEF PackageSubtitles
<1>7. CASE Finish(j)
  BY <1>7 DEF Finish
<1>8. CASE WriteError(j)
  BY <1>8 DEF WriteError, WriteFile
<1> QED
  BY <1>1, <1>2, <1>3, <1>4, <1>5, <1>6, <1>7, <1>8 DEF Run

\* Removals, Shutdown and a restart preserve it.
LEMMA IndService ==
  ASSUME IndInv, (\E r \in Removers : Remove(r)) \/ Shutdown \/ ServerRestart \/ UNCHANGED vars
  PROVE  IndInv'
<1> USE JobAssumption
    DEF IndInv, TypeOK, Files, JobPCs, KeptInv, Published, WorkerIsRegistered, Working,
        ReadyHasMeta, isTranscodeComplete
<1>1. ASSUME NEW r \in Removers, Remove(r)
      PROVE  IndInv'
  <2>1. CASE JudgeStale(r)
    BY <2>1 DEF JudgeStale
  <2>2. CASE PurgeStaleCache(r)
    BY <2>2 DEF PurgeStaleCache
  <2>3. CASE RemoveCache(r)
    BY <2>3 DEF RemoveCache
  <2>4. CASE RemoveAll(r)
    BY <2>4 DEF RemoveAll
  <2> QED
    BY <1>1, <2>1, <2>2, <2>3, <2>4 DEF Remove
<1>2. CASE Shutdown
  BY <1>2 DEF Shutdown
<1>3. CASE ServerRestart
  <2> USE <1>3 DEF ServerRestart
  <2>1. restarts' \in 0 .. MaxRestarts
    OBVIOUS
  <2>2. job' \in [Jobs -> JobPCs] /\ removing' \in [Removers -> {"idle", "stale", "purged", "detached"}]
    OBVIOUS
  <2>3. TypeOK'
    BY <2>1, <2>2
  <2>4. KeptInv' /\ WorkerIsRegistered' /\ ReadyHasMeta'
    OBVIOUS
  <2> QED
    BY <2>3, <2>4
<1>4. CASE UNCHANGED vars
  BY <1>4
<1> QED
  BY <1>1, <1>2, <1>3, <1>4

\* Every step preserves the invariant.
LEMMA IndStep == IndInv /\ [Next]_vars => IndInv'
<1> SUFFICES ASSUME IndInv, [Next]_vars
             PROVE  IndInv'
  OBVIOUS
<1>1. CASE \E j \in Jobs : StartJob(j) \/ Run(j)
  BY <1>1, IndJob
<1>2. CASE (\E r \in Removers : Remove(r)) \/ Shutdown \/ ServerRestart \/ UNCHANGED vars
  BY <1>2, IndService
<1> QED
  BY <1>1, <1>2 DEF Next

\* The inductive invariant holds throughout.
THEOREM Inductive == Spec => []IndInv
  BY IndInit, IndStep, PTL DEF Spec

\* One publisher per key (WorkerIsRegistered): StartJob's look at s.jobs under
\* s.mu and the delete of finishJob keep two jobs from publishing at once.
THEOREM OnePublisher == Spec => []WorkerIsRegistered
<1>1. IndInv => WorkerIsRegistered
  BY DEF IndInv
<1> QED
  BY Inductive, <1>1, PTL

\* Ready means playable (ReadyHasMeta): the order in which Run, finishJob and
\* writeTranscodeError write their files leaves no .complete without the
\* segment table, wherever a job fails or the server stops.
THEOREM ReadyIsPlayable == Spec => []ReadyHasMeta
<1>1. IndInv => ReadyHasMeta
  BY DEF IndInv
<1> QED
  BY Inductive, <1>1, PTL


----------------------------------------------------------------------------
(* Players beside the timeline jobs                                        *)

\* Jobs that have not written .complete yet, that have, and that have failed
Early == {"probe", "publish", "mark"}
Marked == {"subtitles", "refresh", "done", "settle"}
Failing == {"fail", "writeError", "dropComplete", "dropMaster"}

\* As long as no removal was begun, .complete is written once, after the
\* master playlist and by a job whose source can be read, and no job that
\* fails is left to take it away.
PublishedInv ==
  removals = 0 =>
    /\ ".complete" \in files => "master" \in files /\ sourceOK
    /\ \A j \in Jobs :
         /\ job[j] # "free" => dir
         /\ job[j] \in Early \cup Failing => ".complete" \notin files
         /\ job[j] \in Failing => ~sourceOK \/ stopping
         /\ job[j] \in Marked => ".complete" \in files
         /\ job[j] \in Published => sourceOK
         /\ job[j] \in Marked \cup {"mark"} => "master" \in files
         /\ job[j] \in Failing => \A k \in Jobs :
              job[k] \notin Published /\ (sourceOK => job[k] # "probe")

PlayerPCs == {"idle", "direct", "start", "registry", "markers", "info", "play", "playRegistry",
              "playMarkers", "blocked", "stat", "read", "playing", "failed", "missing"}
Methods == {"none", "directPlay", "remux", "transcode"}

PlayerType ==
  [pc : PlayerPCs, decision : Methods, capsOK : BOOLEAN, hasJob : BOOLEAN,
   status : {"none", "error", "ready", "processing", "idle"},
   due : Methods \cup {"either"}, method : Methods, meta : BOOLEAN]

\* What player record r may say, given whether the source can be read and
\* whether .complete is on disk
Truthful(r, ok, complete) ==
  /\ r.pc \in {"start", "registry", "markers", "info"} /\ ok =>
       r.due \in {"either", IF r.capsOK THEN r.decision ELSE hlsMethod(Source)}
  /\ r.method # "none" => r.due \in {"either", r.method}
  /\ r.pc \in {"play", "playRegistry", "playMarkers", "blocked", "stat", "read"} => r.meta
  /\ r.pc \in {"stat", "read"} \/ r.status = "ready" => complete
  /\ r.pc # "missing"

AnswerInv ==
  /\ player \in [Players -> PlayerType]
  /\ removals = 0 => \A p \in Players : Truthful(player[p], sourceOK, ".complete" \in files)

PlayInv == IndInv /\ PublishedInv /\ AnswerInv

USE DEF vars, diskVars, procVars, allVars

----------------------------------------------------------------------------
(* The players run the timeline jobs.                                      *)

\* The handlers and the client reach the registry and the cache directory
\* through StartJob only: each of their steps is a step of TimelineJob or
\* leaves it alone.
LEMMA PlaysStep == [PlaybackNext]_allVars => [Next]_vars
<1> SUFFICES ASSUME [PlaybackNext]_allVars PROVE [Next]_vars
  OBVIOUS
<1>1. ASSUME NEW p \in Players, PlayerStep(p) PROVE [Next]_vars
  BY <1>1 DEF PlayerStep, Ask, Start, StatusJob, StatusDisk, respondHLSPlayback, Next,
              respondHLSTranscodeBlocked, resolveHLSTranscodeDiskPath, serveHLSPlaylist
<1>2. CASE \E j \in Jobs : Run(j) /\ UNCHANGED player
  BY <1>2 DEF Next
<1>3. CASE \E r \in Removers : Remove(r) /\ UNCHANGED player
  BY <1>3 DEF Next
<1>4. CASE Shutdown /\ UNCHANGED player
  BY <1>4 DEF Next
<1>5. CASE RestartUnderPlayers
  BY <1>5 DEF RestartUnderPlayers, Next
<1> QED
  BY <1>1, <1>2, <1>3, <1>4, <1>5 DEF PlaybackNext

\* The players and the jobs together implement TimelineJob, so whatever is
\* proved of the jobs alone holds beside the players.
THEOREM PlaysTimeline == PlaybackSpec => Spec
<1>1. PlaybackInit => Init
  BY DEF PlaybackInit
<1> QED
  BY <1>1, PlaysStep, PTL DEF PlaybackSpec, Spec

\* Two players never make two jobs publish the same key at once.
THEOREM PlayersOnePublisher == PlaybackSpec => []WorkerIsRegistered
BY PlaysTimeline, OnePublisher, PTL

\* Whenever the players ask, a ready key has its segment table.
THEOREM PlayersReadyIsPlayable == PlaybackSpec => []ReadyHasMeta
BY PlaysTimeline, ReadyIsPlayable, PTL

----------------------------------------------------------------------------
(* What .complete promises while nobody removes the cache.                 *)

\* The steps of a job keep the promise.
LEMMA PublishedJob ==
  ASSUME IndInv, PublishedInv, NEW j \in Jobs, StartJob(j) \/ Run(j)
  PROVE  PublishedInv'
<1> USE DEF IndInv, TypeOK, JobPCs, KeptInv, Published, WorkerIsRegistered, Working,
        isTranscodeComplete, Goto, PublishedInv, Early, Marked, Failing
<1>1. CASE StartJob(j)
  BY <1>1 DEF StartJob
<1>2. CASE Probe(j)
  BY <1>2 DEF Probe, WriteFile
<1>3. CASE ProbeFails(j)
  BY <1>3 DEF ProbeFails
<1>4. CASE Publish(j)
  BY <1>4 DEF Publish
<1>5. CASE MarkComplete(j)
  BY <1>5 DEF MarkComplete, WriteFile
<1>6. CASE PackageSubtitles(j)
  BY <1>6 DEF PackageSubtitles
<1>7. CASE Finish(j)
  BY <1>7 DEF Finish
<1>8. CASE WriteError(j)
  BY <1>8 DEF WriteError, WriteFile
<1> QED
  BY <1>1, <1>2, <1>3, <1>4, <1>5, <1>6, <1>7, <1>8 DEF Run

\* So does every other step, and .complete stays once it is written.
LEMMA PublishedStep ==
  ASSUME IndInv, PublishedInv, [Next]_vars
  PROVE  /\ PublishedInv'
         /\ removals' = 0 =>
              /\ removals = 0 /\ sourceOK' = sourceOK
              /\ ".complete" \in files => ".complete" \in files'
<1>1. PublishedInv'
  <2>1. CASE \E j \in Jobs : StartJob(j) \/ Run(j)
    BY <2>1, PublishedJob
  <2>2. ASSUME NEW r \in Removers, Remove(r) PROVE PublishedInv'
    BY <2>2 DEF IndInv, TypeOK, KeptInv, PublishedInv,
                Remove, JudgeStale, PurgeStaleCache, RemoveCache, RemoveAll
  <2>3. CASE Shutdown
    BY <2>3 DEF Shutdown, PublishedInv
  <2>4. CASE ServerRestart
    BY <2>4 DEF ServerRestart, PublishedInv, Early, Marked, Failing, Published
  <2>5. CASE UNCHANGED vars
    BY <2>5 DEF PublishedInv
  <2> QED
    BY <2>1, <2>2, <2>3, <2>4, <2>5 DEF Next
<1>2. ASSUME removals' = 0
      PROVE  /\ removals = 0 /\ sourceOK' = sourceOK
             /\ ".complete" \in files => ".complete" \in files'
  <2>1. ASSUME NEW j \in Jobs, StartJob(j) \/ Run(j)
        PROVE  /\ removals = 0 /\ sourceOK' = sourceOK
               /\ ".complete" \in files => ".complete" \in files'
    BY <1>2, <2>1 DEF PublishedInv, Failing, Goto, StartJob, Run, Probe, ProbeFails, Publish,
         MarkComplete, PackageSubtitles, Finish, WriteError, WriteFile
  <2>2. ASSUME NEW r \in Removers PROVE ~Remove(r)
    BY <1>2, <2>2 DEF IndInv, TypeOK, KeptInv, Remove, JudgeStale, PurgeStaleCache, RemoveCache,
                      RemoveAll
  <2> QED
    BY <1>2, <2>1, <2>2 DEF Next, Shutdown, ServerRestart
<1> QED
  BY <1>1, <1>2

----------------------------------------------------------------------------
(* What the players are told.                                              *)

\* HLS is either a remux or a transcode, and the decision one of three.
LEMMA DecideRange ==
  ASSUME NEW profile, NEW source, NEW height
  PROVE  /\ hlsMethod(source) \in {"remux", "transcode"}
         /\ Decide(profile, source, height) \in {"directPlay", "remux", "transcode"}
BY DEF hlsMethod, Decide

\* A record stays true while .complete stays.
LEMMA TruthStays ==
  ASSUME NEW r, NEW ok, NEW complete, NEW later, complete => later, Truthful(r, ok, complete)
  PROVE  Truthful(r, ok, later)
BY DEF Truthful

\* A player that asks is promised what the file and its device call for, or a
\* choice that its bitrate limit alone makes.
LEMMA AskTrue ==
  ASSUME AnswerInv, NEW p \in Players, Ask(p)
  PROVE  \E r \in PlayerType : Becomes(p, r) /\ Truthful(r, sourceOK, FALSE)
<1>1. PICK profile \in Profiles \cup {NoProfile}, height \in Heights :
        LET d == decidePlaybackMethod(profile, height)
            due == IF OnlyBitrate(profile, height) THEN "either" ELSE DueMethod(profile, height)
        IN Becomes(p, IF d.decision = "directPlay"
                        THEN [Idle EXCEPT !.pc = "direct", !.method = "directPlay", !.due = due]
                        ELSE [Idle EXCEPT !.pc = "start", !.decision = d.decision,
                                          !.capsOK = d.capsOK, !.due = due])
  BY DEF Ask
<1> DEFINE d == decidePlaybackMethod(profile, height)
           due == IF OnlyBitrate(profile, height) THEN "either" ELSE DueMethod(profile, height)
           r == IF d.decision = "directPlay"
                  THEN [Idle EXCEPT !.pc = "direct", !.method = "directPlay", !.due = due]
                  ELSE [Idle EXCEPT !.pc = "start", !.decision = d.decision,
                                    !.capsOK = d.capsOK, !.due = due]
<1>2. /\ d.decision \in {"directPlay", "remux", "transcode"}
      /\ d.capsOK \in BOOLEAN
      /\ due \in {"either", "directPlay", "remux", "transcode"}
  BY DecideRange DEF decidePlaybackMethod, DueMethod
<1>3. /\ d.decision = "directPlay" => d.capsOK
      /\ d.capsOK => due \in {"either", d.decision}
      /\ ~d.capsOK /\ sourceOK => due \in {"either", hlsMethod(Source)}
  <2>1. CASE profile = NoProfile
    BY <2>1, DecideRange DEF decidePlaybackMethod, DueMethod
  <2>2. CASE profile # NoProfile
    <3>1. due \in {"either", Decide(profile, Source, height)}
      BY <2>2 DEF DueMethod
    <3>2. due = "either" \/ Decide(profile, metaCaps, height) = Decide(profile, Source, height)
      BY <2>2 DEF OnlyBitrate, metaCaps
    <3> QED
      BY <2>2, <3>1, <3>2 DEF decidePlaybackMethod
  <2> QED
    BY <2>1, <2>2
<1> HIDE DEF d, due
<1>4. r \in PlayerType
  BY <1>2 DEF Idle, PlayerType, PlayerPCs, Methods
<1>5. Truthful(r, sourceOK, FALSE)
  BY <1>2, <1>3 DEF Idle, Truthful
<1>6. Becomes(p, r)
  BY <1>1 DEF d, due
<1> QED
  BY <1>4, <1>5, <1>6

\* Every step of a player leaves it with a true record.
LEMMA StepTrue ==
  ASSUME PlayInv, NEW p \in Players, PlayerStep(p)
  PROVE  \E r \in PlayerType :
           Becomes(p, r) /\ (removals = 0 => Truthful(r, sourceOK, ".complete" \in files))
<1>0. /\ player[p] \in PlayerType
      /\ removals = 0 => Truthful(player[p], sourceOK, ".complete" \in files)
  BY DEF PlayInv, AnswerInv
<1>a. ASSUME Ask(p)
      PROVE  \E r \in PlayerType :
               Becomes(p, r) /\ (removals = 0 => Truthful(r, sourceOK, ".complete" \in files))
  BY <1>a, AskTrue, TruthStays DEF PlayInv
<1>b. ASSUME NEW r, Becomes(p, r), r \in PlayerType,
             removals = 0 => Truthful(r, sourceOK, ".complete" \in files)
      PROVE  \E q \in PlayerType :
               Becomes(p, q) /\ (removals = 0 => Truthful(q, sourceOK, ".complete" \in files))
  BY <1>b
<1> DEFINE True(r) == /\ Becomes(p, r) /\ r \in PlayerType
                      /\ removals = 0 => Truthful(r, sourceOK, ".complete" \in files)
<1> SUFFICES ASSUME ~Ask(p) PROVE \E r : True(r)
  BY <1>a, <1>b
<1>1. CASE Start(p)
  <2> DEFINE r == [player[p] EXCEPT !.pc = IF @ = "start" THEN "registry" ELSE "playRegistry"]
  <2>1. Becomes(p, r) /\ (player[p].pc = "start" \/ player[p].pc = "play")
    BY <1>1 DEF Start, At
  <2>2. r \in PlayerType
    BY <1>0 DEF PlayerType, PlayerPCs
  <2>3. removals = 0 => Truthful(r, sourceOK, ".complete" \in files)
    BY <1>0, <2>1 DEF PlayerType, Truthful
  <2> QED
    BY <2>1, <2>2, <2>3
<1>2. CASE StatusJob(p)
  <2>1. PICK failed \in BOOLEAN :
          Becomes(p, [player[p] EXCEPT
            !.pc = IF @ = "registry" THEN "markers" ELSE "playMarkers",
            !.hasJob = entry # NoJob,
            !.status = IF failed THEN "error" ELSE "none"])
    BY <1>2 DEF StatusJob
  <2> DEFINE r == [player[p] EXCEPT
            !.pc = IF @ = "registry" THEN "markers" ELSE "playMarkers",
            !.hasJob = entry # NoJob,
            !.status = IF failed THEN "error" ELSE "none"]
  <2>2. player[p].pc = "registry" \/ player[p].pc = "playRegistry"
    BY <1>2 DEF StatusJob, At
  <2>3. r \in PlayerType
    BY <1>0 DEF PlayerType, PlayerPCs
  <2>4. removals = 0 => Truthful(r, sourceOK, ".complete" \in files)
    BY <1>0, <2>2 DEF PlayerType, Truthful
  <2> QED
    BY <2>1, <2>3, <2>4
<1>3. CASE StatusDisk(p)
  <2> DEFINE s == IF player[p].status = "error" THEN "error" ELSE StatusOnDisk(player[p].hasJob)
             r == [player[p] EXCEPT
                     !.pc = IF @ = "markers" THEN "info" ELSE "blocked",
                     !.hasJob = FALSE, !.status = s]
  <2>1. Becomes(p, r) /\ (player[p].pc = "markers" \/ player[p].pc = "playMarkers")
    BY <1>3 DEF StatusDisk, At
  <2>2. /\ s \in {"none", "error", "ready", "processing", "idle"}
        /\ s = "ready" => ".complete" \in files
    BY DEF StatusOnDisk, isTranscodeComplete
  <2> HIDE DEF s
  <2>3. r \in PlayerType
    BY <1>0, <2>2 DEF PlayerType, PlayerPCs
  <2>4. removals = 0 => Truthful(r, sourceOK, ".complete" \in files)
    BY <1>0, <2>1, <2>2 DEF PlayerType, Truthful
  <2> QED
    BY <2>1, <2>3, <2>4
<1>4. CASE respondHLSPlayback(p)
  <2> DEFINE m == resolvePlayMethod(player[p].decision, "meta" \in files, player[p].capsOK)
             known == "meta" \in files
             ready == [Idle EXCEPT !.pc = "play", !.due = player[p].due, !.meta = known, !.method = m]
             error == [Idle EXCEPT !.pc = "failed"]
  <2>1. /\ player[p].pc = "info"
        /\ player[p].status = "ready" => Becomes(p, ready)
        /\ player[p].status = "error" => Becomes(p, error)
        /\ player[p].status \notin {"ready", "error"} => Becomes(p, Idle)
    BY <1>4 DEF respondHLSPlayback, At
  <2>2. m \in Methods /\ known \in BOOLEAN
    BY <1>0, DecideRange DEF resolvePlayMethod, PlayerType, Methods
  <2> HIDE DEF m, known
  <2>3. ready \in PlayerType /\ error \in PlayerType /\ Idle \in PlayerType
    <3>1. Idle \in PlayerType
      BY DEF Idle, PlayerType, PlayerPCs, Methods
    <3>2. player[p].due \in Methods \cup {"either"}
      BY <1>0 DEF PlayerType
    <3>3. ready \in PlayerType
      BY <2>2, <3>1, <3>2 DEF PlayerType, PlayerPCs
    <3>4. error \in PlayerType
      BY <3>1 DEF PlayerType, PlayerPCs
    <3> QED
      BY <3>1, <3>3, <3>4
  <2>4. /\ Truthful(error, sourceOK, ".complete" \in files)
        /\ Truthful(Idle, sourceOK, ".complete" \in files)
    BY DEF Truthful, Idle
  <2>5. ASSUME removals = 0, player[p].status = "ready"
        PROVE  Truthful(ready, sourceOK, ".complete" \in files)
    <3>1. known /\ sourceOK
      BY <1>0, <2>5 DEF known, PlayInv, IndInv, ReadyHasMeta, PublishedInv, isTranscodeComplete, Truthful
    <3>2. player[p].due \in {"either", m}
      BY <1>0, <2>1, <2>5, <3>1 DEF m, known, Truthful, resolvePlayMethod
    <3> QED
      BY <3>1, <3>2 DEF Truthful, Idle
  <2> HIDE DEF ready, error
  <2> QED
    BY <2>1, <2>3, <2>4, <2>5
<1>5. CASE respondHLSTranscodeBlocked(p)
  <2> DEFINE n == CASE player[p].status = "error" -> "failed"
                    [] player[p].status = "ready" -> "stat"
                    [] OTHER -> "play"
             r == [player[p] EXCEPT !.status = "none", !.pc = n]
  <2>1. Becomes(p, r) /\ player[p].pc = "blocked"
    BY <1>5 DEF respondHLSTranscodeBlocked, At
  <2>2. n \in {"failed", "stat", "play"} /\ (n = "stat" => player[p].status = "ready")
    OBVIOUS
  <2> HIDE DEF n
  <2>3. r \in PlayerType
    BY <1>0, <2>2 DEF PlayerType, PlayerPCs
  <2>4. removals = 0 => Truthful(r, sourceOK, ".complete" \in files)
    BY <1>0, <2>1, <2>2 DEF PlayerType, Truthful
  <2> QED
    BY <2>1, <2>3, <2>4
<1>6. CASE resolveHLSTranscodeDiskPath(p) \/ serveHLSPlaylist(p)
  <2> DEFINE n == IF "master" \in files THEN (IF player[p].pc = "stat" THEN "read" ELSE "playing")
                                        ELSE "missing"
             r == [player[p] EXCEPT !.pc = n]
  <2>1. Becomes(p, r) /\ player[p].pc \in {"stat", "read"}
    BY <1>6 DEF resolveHLSTranscodeDiskPath, serveHLSPlaylist, At
  <2>2. /\ n \in {"read", "playing", "missing"}
        /\ removals = 0 => n # "missing"
    BY <1>0, <2>1 DEF PlayInv, PublishedInv, Truthful
  <2> HIDE DEF n
  <2>3. r \in PlayerType
    BY <1>0, <2>2 DEF PlayerType, PlayerPCs
  <2>4. removals = 0 => Truthful(r, sourceOK, ".complete" \in files)
    BY <1>0, <2>1, <2>2 DEF PlayerType, Truthful
  <2> QED
    BY <2>1, <2>3, <2>4
<1> QED
  BY <1>1, <1>2, <1>3, <1>4, <1>5, <1>6 DEF PlayerStep

----------------------------------------------------------------------------
(* The theorem.                                                            *)

\* The invariant holds before the first request.
LEMMA PlayInit == PlaybackInit => PlayInv
<1> SUFFICES ASSUME PlaybackInit PROVE PlayInv
  OBVIOUS
<1>1. IndInv
  BY IndInit DEF PlaybackInit
<1>2. PublishedInv
  BY DEF PlaybackInit, Init, PublishedInv, Early, Marked, Failing, Published
<1>3. Idle \in PlayerType /\ \A ok, complete : Truthful(Idle, ok, complete)
  BY DEF Idle, PlayerType, PlayerPCs, Methods, Truthful
<1>4. AnswerInv
  BY <1>3 DEF PlaybackInit, AnswerInv
<1> QED
  BY <1>1, <1>2, <1>4 DEF PlayInv

\* A restart forgets requests and leaves the rest of the players as they are.
LEMMA ReconnectTrue ==
  ASSUME NEW r \in PlayerType, NEW ok, NEW complete
  PROVE  /\ Reconnected(r) \in PlayerType
         /\ Truthful(r, ok, complete) => Truthful(Reconnected(r), ok, complete)
<1>1. CASE r.pc \in {"direct", "play", "playing", "failed", "missing"}
  BY <1>1 DEF Reconnected
<1>2. CASE r.pc \in {"playRegistry", "playMarkers", "blocked", "stat", "read"}
  BY <1>2 DEF Reconnected, PlayerType, PlayerPCs, Truthful
<1>3. CASE r.pc \notin {"direct", "play", "playing", "failed", "missing",
                        "playRegistry", "playMarkers", "blocked", "stat", "read"}
  BY <1>3 DEF Reconnected, Idle, PlayerType, PlayerPCs, Methods, Truthful
<1> QED
  BY <1>1, <1>2, <1>3

\* Every step preserves it.
LEMMA PlayNext == PlayInv /\ [PlaybackNext]_allVars => PlayInv'
<1> SUFFICES ASSUME PlayInv, [PlaybackNext]_allVars PROVE PlayInv'
  OBVIOUS
<1>1. [Next]_vars
  BY PlaysStep
<1>2. IndInv' /\ PublishedInv'
  BY <1>1, IndStep, PublishedStep DEF PlayInv
<1>3. removals' = 0 => /\ removals = 0 /\ sourceOK' = sourceOK
                       /\ ".complete" \in files => ".complete" \in files'
  BY <1>1, PublishedStep DEF PlayInv
<1>4. /\ player \in [Players -> PlayerType]
      /\ removals' = 0 => \A p \in Players : Truthful(player[p], sourceOK, ".complete" \in files)
  BY <1>3 DEF PlayInv, AnswerInv
<1>5. /\ player' \in [Players -> PlayerType]
      /\ removals' = 0 => \A p \in Players : Truthful(player'[p], sourceOK, ".complete" \in files)
  <2>1. ASSUME NEW p \in Players, PlayerStep(p)
        PROVE  <1>5!1 /\ <1>5!2
    <3>1. PICK r \in PlayerType :
            Becomes(p, r) /\ (removals = 0 => Truthful(r, sourceOK, ".complete" \in files))
      BY <2>1, StepTrue
    <3> QED
      BY <1>3, <1>4, <3>1 DEF Becomes
  <2>2. CASE UNCHANGED player
    BY <1>4, <2>2
  <2>3. CASE RestartUnderPlayers
    BY <1>4, <2>3, ReconnectTrue DEF RestartUnderPlayers
  <2> QED
    BY <2>1, <2>2, <2>3 DEF PlaybackNext
<1>6. AnswerInv'
  BY <1>3, <1>5, TruthStays DEF AnswerInv
<1> QED
  BY <1>2, <1>6 DEF PlayInv

\* What a player is told is so, for every media file, device and quality:
\* unless the cache is removed under it, "ready" comes with the method that
\* the file and the device call for and with its metadata, and the playlist
\* that the answer names is found, whatever happens between the reads.
THEOREM PlayersToldTruth == PlaybackSpec => []AnswerIsTrue
<1>1. PlayInv => AnswerIsTrue
  BY DEF PlayInv, AnswerInv, Truthful, AnswerIsTrue, At
<1> QED
  BY <1>1, PlayInit, PlayNext, PTL DEF PlaybackSpec

=============================================================================
