----------------------------- MODULE TimelineJob -----------------------------
(***************************************************************************)
(* The publication of ONE media file's HLS timeline: StartJob, Job.Run,    *)
(* finishJob, RemoveCache and PurgeStaleCache of internal/transcode        *)
(* (service.go, job.go).  No media is encoded here; the segment sessions   *)
(* are SegmentSession's.                                                   *)
(*                                                                         *)
(* Jobs is a pool of identities of job goroutines.  The disk, unlike the   *)
(* registry and the goroutines, survives a restart of the server.          *)
(***************************************************************************)
EXTENDS Naturals, FiniteSets

CONSTANTS
  Jobs, NoJob,
  Removers,     \* goroutines that run RemoveCache or PurgeStaleCache
  MaxRestarts,  \* bound: how often the server is restarted
  MaxRemovals   \* bound: how often a removal of the cache is begun

ASSUME JobAssumption ==
  NoJob \notin Jobs /\ MaxRestarts \in Nat /\ MaxRemovals \in Nat

VARIABLES
  sourceOK,   \* ffprobe can read the media file
  dir,        \* the cache directory of the key exists
  files,      \* which of its marker files exist
  entry,      \* s.jobs[cacheKey]
  job,        \* control point of each job goroutine
  removing,   \* control point of each remover
  stopping,   \* s.stopCh is closed
  restarts, removals  \* how often each has happened

vars == <<sourceOK, dir, files, entry, job, removing, stopping, restarts, removals>>
diskVars == <<dir, files>>
procVars == <<sourceOK, stopping, restarts>>

Files == {"meta", "master", ".complete", ".error"}

isTranscodeComplete == ".complete" \in files
readTranscodeError == ".error" \in files

\* A file is only created in a directory that exists.
WriteFile(f) == IF dir THEN files \cup {f} ELSE files

\* What an earlier run of the server can have left: nothing, or a directory
\* in which the markers appeared in Run's order.
Init ==
  /\ sourceOK \in BOOLEAN
  /\ \/ dir = FALSE /\ files = {}
     \/ dir = TRUE /\ files \in {{}, {"meta"}, {"meta", "master"}, {"meta", "master", ".complete"}}
  /\ sourceOK \/ files = {}
  /\ entry = NoJob
  /\ job = [j \in Jobs |-> "free"]
  /\ removing = [r \in Removers |-> "idle"]
  /\ stopping = FALSE
  /\ restarts = 0 /\ removals = 0

Goto(j, from, to) == job[j] = from /\ job' = [job EXCEPT ![j] = to]

----------------------------------------------------------------------------

\* Mutant: the registered job is not looked up
StartJobTwice(j) ==
  /\ ~stopping
  /\ ~isTranscodeComplete
  /\ ~readTranscodeError
  /\ Goto(j, "free", "probe")
  /\ dir' = TRUE
  /\ entry' = j
  /\ UNCHANGED <<files, removing, removals, procVars>>

\* Under s.mu.  The calls that return early change nothing.
StartJob(j) ==
  /\ ~stopping
  /\ ~isTranscodeComplete
  /\ entry = NoJob
  /\ ~readTranscodeError
  /\ Goto(j, "free", "probe")
  /\ dir' = TRUE
  /\ entry' = j
  /\ UNCHANGED <<files, removing, removals, procVars>>

\* ProbeAndPublish up to WriteSourceMeta
Probe(j) ==
  /\ sourceOK
  /\ dir
  /\ Goto(j, "probe", "publish")
  /\ files' = WriteFile("meta")
  /\ UNCHANGED <<dir, entry, removing, removals, procVars>>

\* Mutant: the probe's error is not returned
ProbeErrorIgnored(j) ==
  /\ ~sourceOK \/ stopping \/ ~dir
  /\ Goto(j, "probe", "publish")
  /\ UNCHANGED <<diskVars, entry, removing, removals, procVars>>

\* The source cannot be read, the worker context is cancelled by Shutdown, or
\* the directory has gone
ProbeFails(j) ==
  /\ ~sourceOK \/ stopping \/ ~dir
  /\ Goto(j, "probe", "fail")
  /\ UNCHANGED <<diskVars, entry, removing, removals, procVars>>

\* PublishPlaylists makes every directory it needs, the master playlist last
Publish(j) ==
  /\ \/ Goto(j, "publish", "mark")
     \/ Goto(j, "refresh", "done")
  /\ dir' = TRUE
  /\ files' = files \cup {"master"}
  /\ UNCHANGED <<entry, removing, removals, procVars>>

\* markTranscodeComplete, in Run before the subtitles and in finishJob
MarkComplete(j) ==
  /\ \/ Goto(j, "mark", "subtitles")
     \/ Goto(j, "settle", "free")
  /\ files' = WriteFile(".complete") \ {".error"}
  /\ UNCHANGED <<dir, entry, removing, removals, procVars>>

\* EnsurePackagedSubtitles; making the tracks' directory makes its parents
PackageSubtitles(j) ==
  /\ Goto(j, "subtitles", "refresh")
  /\ dir' \in {dir, TRUE}
  /\ UNCHANGED <<files, entry, removing, removals, procVars>>

\* finishJob under s.mu
Finish(j) ==
  /\ \/ Goto(j, "done", "settle")
     \/ Goto(j, "fail", "writeError")
  /\ entry' = NoJob
  /\ UNCHANGED <<diskVars, removing, removals, procVars>>

\* writeTranscodeError: one marker after the other
WriteError(j) ==
  /\ \/ /\ Goto(j, "writeError", "dropComplete")
        /\ files' = WriteFile(".error")
     \/ /\ Goto(j, "dropComplete", "dropMaster")
        /\ files' = files \ {".complete"}
     \/ /\ Goto(j, "dropMaster", "free")
        /\ files' = files \ {"master"}
  /\ UNCHANGED <<dir, entry, removing, removals, procVars>>

Run(j) ==
  \/ Probe(j) \/ ProbeFails(j) \/ Publish(j) \/ MarkComplete(j)
  \/ PackageSubtitles(j) \/ Finish(j) \/ WriteError(j)

----------------------------------------------------------------------------

\* PurgeStaleCache finds that the directory is older than maxAge (hours): no
\* job has been writing into it
JudgeStale(r) ==
  /\ removing[r] = "idle"
  /\ removals < MaxRemovals
  /\ removals' = removals + 1
  /\ dir
  /\ \A j \in Jobs : job[j] = "free"
  /\ removing' = [removing EXCEPT ![r] = "stale"]
  /\ UNCHANGED <<diskVars, entry, job, procVars>>

\* It then deletes the directory, and calls RemoveCache afterwards
PurgeStaleCache(r) ==
  /\ removing[r] = "stale"
  /\ dir' = FALSE
  /\ files' = {}
  /\ removing' = [removing EXCEPT ![r] = "purged"]
  /\ UNCHANGED <<entry, job, removals, procVars>>

\* RemoveCache under s.mu; it then waits for the segment sessions to end
RemoveCache(r) ==
  /\ \/ removing[r] = "purged" /\ removals' = removals
     \/ /\ removing[r] = "idle"
        /\ removals < MaxRemovals
        /\ removals' = removals + 1
  /\ removing' = [removing EXCEPT ![r] = "detached"]
  /\ entry' = NoJob
  /\ UNCHANGED <<diskVars, job, procVars>>

RemoveAll(r) ==
  /\ removing[r] = "detached"
  /\ removing' = [removing EXCEPT ![r] = "idle"]
  /\ dir' = FALSE
  /\ files' = {}
  /\ UNCHANGED <<entry, job, removals, procVars>>

Remove(r) == JudgeStale(r) \/ PurgeStaleCache(r) \/ RemoveCache(r) \/ RemoveAll(r)

Shutdown ==
  /\ ~stopping
  /\ restarts < MaxRestarts
  /\ stopping' = TRUE
  /\ UNCHANGED <<sourceOK, restarts, diskVars, entry, job, removing, removals>>

\* The process ends, after a Shutdown or by a crash, and starts again.
ServerRestart ==
  /\ restarts < MaxRestarts
  /\ restarts' = restarts + 1
  /\ stopping' = FALSE
  /\ entry' = NoJob
  /\ job' = [j \in Jobs |-> "free"]
  /\ removing' = [r \in Removers |-> "idle"]
  /\ UNCHANGED <<sourceOK, diskVars, removals>>

Next ==
  \/ \E j \in Jobs : StartJob(j) \/ Run(j)
  \/ \E r \in Removers : Remove(r)
  \/ Shutdown
  \/ ServerRestart

Spec == Init /\ [][Next]_vars

----------------------------------------------------------------------------

JobPCs == {"free", "probe", "publish", "mark", "subtitles", "refresh", "done", "fail",
           "settle", "writeError", "dropComplete", "dropMaster"}

\* Jobs between StartJob and finishJob
Working == {"probe", "publish", "mark", "subtitles", "refresh", "done", "fail"}

\* Every variable has its type.
TypeOK ==
  /\ sourceOK \in BOOLEAN
  /\ dir \in BOOLEAN
  /\ files \subseteq Files
  /\ entry \in Jobs \cup {NoJob}
  /\ job \in [Jobs -> JobPCs]
  /\ removing \in [Removers -> {"idle", "stale", "purged", "detached"}]
  /\ stopping \in BOOLEAN
  /\ restarts \in 0 .. MaxRestarts
  /\ removals \in 0 .. MaxRemovals

\* A job that is still publishing is the registered one, so that two requests
\* never publish the same key at once (as long as nobody removes the cache).
WorkerIsRegistered ==
  removals = 0 => \A j \in Jobs : job[j] \in Working => entry = j

\* A key whose status is "ready" has the segment table ResolveSegment needs,
\* whatever fails and whenever the server is restarted (as long as nobody
\* removes the cache).
ReadyHasMeta == removals = 0 /\ isTranscodeComplete => "meta" \in files

----------------------------------------------------------------------------
(* What comments say and the code does not always do.                      *)

\* StatusReady "indicates playlists are published and segments can be pulled
\* on demand".
ReadyMeansPublished == isTranscodeComplete => {"meta", "master"} \subseteq files

=============================================================================
