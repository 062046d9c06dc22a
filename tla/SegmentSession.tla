--------------------------- MODULE SegmentSession ---------------------------
(***************************************************************************)
(* On-demand HLS segments of ONE rendition: internal/transcode/session.go. *)
(*                                                                         *)
(* HTTP handlers (clients) call ResolveSegment, which serialises on a      *)
(* per-rendition mutex and either serves a finished file, waits for the    *)
(* running ffmpeg, or kills it and starts another one at the requested     *)
(* index.  Each ffmpeg (a session) is accompanied by a goroutine that      *)
(* waits for its exit, a goroutine that pauses and resumes it, and is      *)
(* watched by the reaper of idle sessions and by the service's Shutdown.   *)
(*                                                                         *)
(* Sessions is a pool of session identities: a session that nothing        *)
(* refers to any more may be handed out again (the garbage collector).     *)
(***************************************************************************)
EXTENDS Integers, FiniteSets

CONSTANTS
  Clients,              \* goroutines serving HTTP segment requests
  Sessions,             \* identities of segmentSession objects
  NoClient, NoSession,  \* nobody holds the mutex; a nil *segmentSession
  NumSegments,          \* len(meta.Segments)
  segmentGapThreshold,  \* 4 in the code
  throttleAheadSegments, throttleResumeSegments  \* 30 and 20 in the code

ASSUME IdentityAssumption ==
  /\ NoClient \notin Clients
  /\ NoSession \notin Sessions
  /\ Clients \cap Sessions = {}

ASSUME BoundsAssumption ==
  /\ NumSegments \in Nat \ {0}
  /\ segmentGapThreshold \in Nat
  /\ throttleResumeSegments \in Nat
  /\ throttleAheadSegments \in Nat
  /\ throttleResumeSegments <= throttleAheadSegments

VARIABLES
  disk,           \* content of each segment file of the variant directory
  registered,     \* s.sessions[cacheKey][variant]
  lockHolder,     \* owner of resolveLock(cacheKey, variant)
  stopping,       \* s.stopCh is closed
  life,           \* "live" until close(done), "closing" until clearSession
  proc,           \* the ffmpeg process as the kernel sees it
  cancelled,      \* sessionCtx is cancelled
  startIndex, pos,        \* first segment, segment ffmpeg works on
  lastRequested, paused,  \* fields guarded by session.mu
  idle,           \* now - lastAccess > sessionIdleTimeout
  doomed,         \* sessions idleSessions returned, not yet cancelled
  pc, idx, held,  \* per client: control point, index, local "session"
  call            \* per caller of applyThrottle: what it has still to do

encVars == <<disk, proc, pos>>
sessVars == <<life, cancelled, startIndex, lastRequested, paused, idle>>
svcVars == <<registered, stopping, doomed>>
clientVars == <<pc, idx, held, lockHolder>>
vars == <<encVars, sessVars, svcVars, clientVars, call>>

Segments == 0 .. NumSegments - 1
Content == {"none", "empty", "partial", "full"}
Callers == Clients \cup Sessions

----------------------------------------------------------------------------
(* Reads.  A file's name exists from the moment ffmpeg opens it.           *)

Present == {i \in Segments : disk[i] # "none"}

finished(s) == life[s] # "live"

Alive(s) == proc[s] \in {"running", "stopped"}

\* Mutant: the segment being written counts as written
HighestAtLeast(i) == \E j \in Present : j >= i

\* highestSegmentIndex > i, without naming the highest
HighestAbove(i) == \E j \in Present : j > i

segmentComplete(i, s) ==
  /\ disk[i] \in {"partial", "full"}
  /\ s # NoSession /\ ~finished(s) => HighestAbove(i)

needsRestart(i, s) ==
  s # NoSession /\ ~finished(s) =>
    \/ i < startIndex[s]
    \/ Present = {} /\ i > startIndex[s] + segmentGapThreshold
    \/ Present # {} /\ \A j \in Present : i > j + segmentGapThreshold

\* gap > n, the gap being highestSegmentIndex (startIndex - 1 when the
\* directory holds no segment) minus lastRequested
GapExceeds(s, n) ==
  IF Present = {} THEN startIndex[s] - 1 - lastRequested[s] > n
                  ELSE \E j \in Present : j - lastRequested[s] > n

throttleShouldPause(s) ==
  IF paused[s] THEN GapExceeds(s, throttleResumeSegments)
               ELSE GapExceeds(s, throttleAheadSegments)

\* The first critical section of applyThrottle: what the caller will signal.
ThrottleDecision(s) ==
  IF finished(s) \/ (throttleShouldPause(s) <=> paused[s]) THEN "off"
  ELSE IF throttleShouldPause(s) THEN "stop" ELSE "cont"

\* Mutant: the file at the index is overwritten, so only that one is removed
removeSegmentAt(i) == [disk EXCEPT ![i] = "none"]

removeSegmentsFrom(i) == [j \in Segments |-> IF j >= i THEN "none" ELSE disk[j]]

\* The fields of a finished session are never read again.
noteRequested(s, i) ==
  /\ lastRequested' = IF finished(s) THEN lastRequested
                                     ELSE [lastRequested EXCEPT ![s] = i]
  /\ idle' = [idle EXCEPT ![s] = FALSE]

\* No goroutine, map or local variable refers to s.
Unreferenced(s) ==
  /\ life[s] = "free"
  /\ registered # s
  /\ s \notin doomed
  /\ \A c \in Clients : held[c] # s

----------------------------------------------------------------------------
(* What an earlier run of the server left in the cache directory is any    *)
(* mixture of whole, truncated, empty and missing files: each seek starts  *)
(* at its own index and each crash truncates where it strikes.             *)

Init ==
  /\ disk \in [Segments -> Content]
  /\ registered = NoSession
  /\ lockHolder = NoClient
  /\ stopping = FALSE
  /\ life = [s \in Sessions |-> "free"]
  /\ proc = [s \in Sessions |-> "none"]
  /\ cancelled = [s \in Sessions |-> TRUE]
  /\ startIndex = [s \in Sessions |-> 0]
  /\ pos = [s \in Sessions |-> 0]
  /\ lastRequested = [s \in Sessions |-> 0]
  /\ paused = [s \in Sessions |-> FALSE]
  /\ idle = [s \in Sessions |-> FALSE]
  /\ doomed = {}
  /\ pc = [c \in Clients |-> "idle"]
  /\ idx = [c \in Clients |-> 0]
  /\ held = [c \in Clients |-> NoSession]
  /\ call = [x \in Callers |-> "off"]

----------------------------------------------------------------------------
(* ResolveSegment.  The mutex is held from Acquire to the return.          *)

Goto(c, from, to) == pc[c] = from /\ pc' = [pc EXCEPT ![c] = to]

\* "return", with the deferred lock.Unlock()
Return(c, from) ==
  /\ Goto(c, from, "idle")
  /\ lockHolder' = NoClient
  /\ held' = [held EXCEPT ![c] = NoSession]
  /\ idx' = [idx EXCEPT ![c] = 0]

\* A request whose metadata, variant and index pass validation
Request(c) ==
  /\ Goto(c, "idle", "locking")
  /\ ~stopping
  /\ UNCHANGED <<idx, held, lockHolder, encVars, sessVars, svcVars, call>>

\* Mutant: segment names counted from one
AcquireOneBased(c, i) ==
  /\ Goto(c, "locking", "check")
  /\ lockHolder = NoClient
  /\ lockHolder' = c
  /\ idx' = [idx EXCEPT ![c] = i + 1]
  /\ held' = [held EXCEPT ![c] = registered]
  /\ UNCHANGED <<encVars, sessVars, svcVars, call>>

\* lock.Lock() and the lookup of the session; the index is the request's
\* argument, chosen here because nothing reads it earlier
Acquire(c, i) ==
  /\ Goto(c, "locking", "check")
  /\ lockHolder = NoClient
  /\ lockHolder' = c
  /\ idx' = [idx EXCEPT ![c] = i]
  /\ held' = [held EXCEPT ![c] = registered]
  /\ UNCHANGED <<encVars, sessVars, svcVars, call>>

\* segmentComplete answers true, before and in waitForSegment's loop.  Under
\* the mutex that answer is stable, so the noteRequested that follows when
\* there is a session is part of the step.
Hit(c) ==
  /\ pc[c] \in {"check", "poll"}
  /\ call[c] = "off"
  /\ segmentComplete(idx[c], held[c])
  /\ IF held[c] = NoSession
       THEN /\ pc' = [pc EXCEPT ![c] = "served"]
            /\ UNCHANGED <<lastRequested, idle>>
       ELSE /\ pc' = [pc EXCEPT ![c] = "hit"]
            /\ noteRequested(held[c], idx[c])
  /\ UNCHANGED <<idx, held, lockHolder, encVars, life, cancelled, startIndex,
                 paused, svcVars, call>>

ThrottleHit(c) ==
  /\ Goto(c, "hit", "served")
  /\ call' = [call EXCEPT ![c] = ThrottleDecision(held[c])]
  /\ UNCHANGED <<idx, held, lockHolder, encVars, sessVars, svcVars>>

Serve(c) ==
  /\ Return(c, "served")
  /\ call[c] = "off"
  /\ UNCHANGED <<encVars, sessVars, svcVars, call>>

Miss(c) ==
  /\ Goto(c, "check", "decide")
  /\ ~segmentComplete(idx[c], held[c])
  /\ UNCHANGED <<idx, held, lockHolder, encVars, sessVars, svcVars, call>>

\* needsRestart, then stopSession up to its wait for session.done: resume a
\* process believed to be paused, cancel its context
Restart(c) ==
  /\ Goto(c, "decide", IF registered = NoSession THEN "start" ELSE "stopWait")
  /\ needsRestart(idx[c], held[c])
  /\ held' = [held EXCEPT ![c] = registered]
  /\ IF registered = NoSession
       THEN UNCHANGED <<cancelled, proc>>
       ELSE /\ cancelled' = [cancelled EXCEPT ![registered] = TRUE]
            /\ proc' = IF paused[registered] /\ proc[registered] = "stopped"
                         THEN [proc EXCEPT ![registered] = "running"]
                         ELSE proc
  /\ UNCHANGED <<idx, lockHolder, disk, pos, life, startIndex, lastRequested,
                 paused, idle, svcVars, call>>

\* Mutant: cancel without waiting for session.done
StoppedAtOnce(c) ==
  /\ Goto(c, "stopWait", "start")
  /\ held' = [held EXCEPT ![c] = NoSession]
  /\ UNCHANGED <<idx, lockHolder, encVars, sessVars, svcVars, call>>

\* <-session.done
Stopped(c) ==
  /\ Goto(c, "stopWait", "start")
  /\ finished(held[c])
  /\ held' = [held EXCEPT ![c] = NoSession]
  /\ UNCHANGED <<idx, lockHolder, encVars, sessVars, svcVars, call>>

\* startSession: clean the directory from the index on, spawn, register
StartSession(c, s) ==
  /\ Goto(c, "start", "poll")
  /\ Unreferenced(s)
  /\ held' = [held EXCEPT ![c] = s]
  /\ disk' = removeSegmentsFrom(idx[c])
  /\ registered' = s
  /\ life' = [life EXCEPT ![s] = "live"]
  /\ proc' = [proc EXCEPT ![s] = "running"]
  /\ cancelled' = [cancelled EXCEPT ![s] = FALSE]
  /\ startIndex' = [startIndex EXCEPT ![s] = idx[c]]
  /\ pos' = [pos EXCEPT ![s] = idx[c]]
  /\ lastRequested' = [lastRequested EXCEPT ![s] = idx[c]]
  /\ paused' = [paused EXCEPT ![s] = FALSE]
  /\ idle' = [idle EXCEPT ![s] = FALSE]
  /\ UNCHANGED <<idx, lockHolder, stopping, doomed, call>>

\* MkdirAll fails, the request context has ended, or ffmpeg cannot start
StartFails(c) ==
  /\ Return(c, "start")
  /\ disk' \in {disk, removeSegmentsFrom(idx[c])}
  /\ UNCHANGED <<proc, pos, sessVars, svcVars, call>>

\* Not needsRestart: note the request, throttle, wait
Join(c) ==
  /\ Goto(c, "decide", "join")
  /\ ~needsRestart(idx[c], held[c])
  /\ noteRequested(held[c], idx[c])
  /\ UNCHANGED <<idx, held, lockHolder, encVars, life, cancelled, startIndex,
                 paused, svcVars, call>>

ThrottleJoin(c) ==
  /\ Goto(c, "join", "poll")
  /\ call' = [call EXCEPT ![c] = ThrottleDecision(held[c])]
  /\ UNCHANGED <<idx, held, lockHolder, encVars, sessVars, svcVars>>

----------------------------------------------------------------------------
(* The loop of waitForSegment: complete?  finished?  nudge, select.        *)

PollMiss(c) ==
  /\ Goto(c, "poll", "exitCheck")
  /\ call[c] = "off"
  /\ ~segmentComplete(idx[c], held[c])
  /\ UNCHANGED <<idx, held, lockHolder, encVars, sessVars, svcVars, call>>

\* Mutant: the early return skips the unlock
UnavailableKeepsLock(c) ==
  /\ Goto(c, "exitCheck", "idle")
  /\ finished(held[c])
  /\ held' = [held EXCEPT ![c] = NoSession]
  /\ idx' = [idx EXCEPT ![c] = 0]
  /\ UNCHANGED <<lockHolder, encVars, sessVars, svcVars, call>>

\* ErrSegmentUnavailable: the encoder has finished
Unavailable(c) ==
  /\ Return(c, "exitCheck")
  /\ finished(held[c])
  /\ UNCHANGED <<encVars, sessVars, svcVars, call>>

Nudge(c) ==
  /\ Goto(c, "exitCheck", "select")
  /\ ~finished(held[c])
  /\ call' = [call EXCEPT ![c] = ThrottleDecision(held[c])]
  /\ UNCHANGED <<idx, held, lockHolder, encVars, sessVars, svcVars>>

PollTick(c) ==
  /\ Goto(c, "select", "poll")
  /\ call[c] = "off"
  /\ UNCHANGED <<idx, held, lockHolder, encVars, sessVars, svcVars, call>>

\* The client went away.
ContextDone(c) ==
  /\ Return(c, "select")
  /\ call[c] = "off"
  /\ UNCHANGED <<encVars, sessVars, svcVars, call>>

\* segmentWaitTimeout (90s) is twice sessionIdleTimeout (45s) and starts at
\* the access that the wait began with: the session is idle when it fires.
Deadline(c) ==
  /\ Return(c, "select")
  /\ call[c] = "off"
  /\ idle[held[c]] \/ finished(held[c])
  /\ UNCHANGED <<encVars, sessVars, svcVars, call>>

----------------------------------------------------------------------------
(* applyThrottle after its first critical section, for a client acting on  *)
(* its session and for the throttle goroutine of a session.                *)

Target(x) == IF x \in Sessions THEN x ELSE held[x]

Signal(x) ==
  LET s == Target(x) IN
  /\ call[x] \in {"stop", "cont"}
  /\ call' = [call EXCEPT ![x] = IF @ = "stop" THEN "setPaused" ELSE "setRunning"]
  /\ proc' = IF Alive(s)
               THEN [proc EXCEPT ![s] = IF call[x] = "stop" THEN "stopped" ELSE "running"]
               ELSE proc
  /\ UNCHANGED <<disk, pos, sessVars, svcVars, clientVars>>

SetFlag(x) ==
  /\ call[x] \in {"setPaused", "setRunning"}
  /\ paused' = [paused EXCEPT ![Target(x)] = (call[x] = "setPaused")]
  /\ call' = [call EXCEPT ![x] = "off"]
  /\ UNCHANGED <<encVars, life, cancelled, startIndex, lastRequested, idle,
                 svcVars, clientVars>>

\* throttleSession, which ends when the session does; a tick that finds
\* nothing to do changes nothing
ThrottleTick(s) ==
  /\ call[s] = "off"
  /\ ThrottleDecision(s) # "off"
  /\ call' = [call EXCEPT ![s] = ThrottleDecision(s)]
  /\ UNCHANGED <<encVars, sessVars, svcVars, clientVars>>

----------------------------------------------------------------------------
(* ffmpeg with the segment muxer (external): opens a file, fills it, closes *)
(* it before it opens the next one, and may stop anywhere.                  *)

Encode(s) ==
  /\ proc[s] = "running"
  /\ pos[s] < NumSegments
  /\ \/ /\ disk[pos[s]] = "none"
        /\ disk' = [disk EXCEPT ![pos[s]] = "empty"]
        /\ pos' = pos
     \/ /\ disk[pos[s]] = "empty"
        /\ disk' = [disk EXCEPT ![pos[s]] = "partial"]
        /\ pos' = pos
     \/ /\ disk[pos[s]] \in {"partial", "full"}
        /\ disk' = [disk EXCEPT ![pos[s]] = "full"]
        /\ pos' = [pos EXCEPT ![s] = @ + 1]
  /\ UNCHANGED <<proc, sessVars, svcVars, clientVars, call>>

\* End of the source, which may come before the last planned segment
ExitOK(s) ==
  /\ proc[s] = "running"
  /\ pos[s] < NumSegments => disk[pos[s]] = "none"
  /\ proc' = [proc EXCEPT ![s] = "exited"]
  /\ UNCHANGED <<disk, pos, sessVars, svcVars, clientVars, call>>

Fail(s) ==
  /\ proc[s] = "running"
  /\ proc' = [proc EXCEPT ![s] = "exited"]
  /\ UNCHANGED <<disk, pos, sessVars, svcVars, clientVars, call>>

\* exec.CommandContext: SIGKILL, which a stopped process obeys too
Kill(s) ==
  /\ cancelled[s]
  /\ Alive(s)
  /\ proc' = [proc EXCEPT ![s] = "exited"]
  /\ UNCHANGED <<disk, pos, sessVars, svcVars, clientVars, call>>

----------------------------------------------------------------------------
(* awaitSession, the reaper and Shutdown.                                  *)

\* cmd.Wait returns, done is closed, the context cancelled.  The other fields
\* of a finished session are never read again and proc.Signal fails on it:
\* its fields, and what an applyThrottle had still to do to it, are forgotten.
AwaitSession(s) ==
  /\ life[s] = "live"
  /\ proc[s] = "exited"
  /\ life' = [life EXCEPT ![s] = "closing"]
  /\ cancelled' = [cancelled EXCEPT ![s] = TRUE]
  /\ startIndex' = [startIndex EXCEPT ![s] = 0]
  /\ pos' = [pos EXCEPT ![s] = 0]
  /\ lastRequested' = [lastRequested EXCEPT ![s] = 0]
  /\ paused' = [paused EXCEPT ![s] = FALSE]
  /\ idle' = [idle EXCEPT ![s] = FALSE]
  /\ call' = [x \in Callers |-> IF Target(x) = s THEN "off" ELSE call[x]]
  /\ UNCHANGED <<disk, proc, svcVars, clientVars>>

\* Mutant: the entry is deleted whoever it belongs to
clearAnySession(s) ==
  /\ life[s] = "closing"
  /\ life' = [life EXCEPT ![s] = "free"]
  /\ proc' = [proc EXCEPT ![s] = "none"]
  /\ registered' = NoSession
  /\ UNCHANGED <<disk, pos, cancelled, startIndex, lastRequested, paused, idle,
                 stopping, doomed, clientVars, call>>

clearSession(s) ==
  /\ life[s] = "closing"
  /\ life' = [life EXCEPT ![s] = "free"]
  /\ proc' = [proc EXCEPT ![s] = "none"]
  /\ registered' = IF registered = s THEN NoSession ELSE registered
  /\ UNCHANGED <<disk, pos, cancelled, startIndex, lastRequested, paused, idle,
                 stopping, doomed, clientVars, call>>

\* sessionIdleTimeout passes since lastAccess
IdleTimeout(s) ==
  /\ life[s] = "live"
  /\ ~idle[s]
  /\ idle' = [idle EXCEPT ![s] = TRUE]
  /\ UNCHANGED <<encVars, life, cancelled, startIndex, lastRequested, paused,
                 svcVars, clientVars, call>>

\* Mutant: a paused session is taken for one that waits for its viewer
idleRunningSessions == {s \in Sessions : registered = s /\ idle[s] /\ ~paused[s]}

idleSessions == {s \in Sessions : registered = s /\ idle[s]}

\* reapIdleSessions: a tick selects under s.mu and cancels afterwards
ReapSelect ==
  /\ ~stopping
  /\ doomed = {}
  /\ idleSessions # {}
  /\ doomed' = idleSessions
  /\ UNCHANGED <<registered, stopping, encVars, sessVars, clientVars, call>>

ReapCancel(s) ==
  /\ s \in doomed
  /\ doomed' = doomed \ {s}
  /\ cancelled' = [cancelled EXCEPT ![s] = TRUE]
  /\ UNCHANGED <<registered, stopping, encVars, life, startIndex, lastRequested,
                 paused, idle, clientVars, call>>

Shutdown ==
  /\ ~stopping
  /\ stopping' = TRUE
  /\ UNCHANGED <<registered, doomed, encVars, sessVars, clientVars, call>>

\* Mutant: stopCh is checked only when a session starts
StopCancelNothing(s) == FALSE

\* The goroutine of detachedContext
StopCancel(s) ==
  /\ stopping
  /\ life[s] = "live"
  /\ ~cancelled[s]
  /\ cancelled' = [cancelled EXCEPT ![s] = TRUE]
  /\ UNCHANGED <<encVars, life, startIndex, lastRequested, paused, idle,
                 svcVars, clientVars, call>>

----------------------------------------------------------------------------

\* The steps a request takes by itself once it has the mutex
Resolve(c) ==
  \/ Hit(c) \/ ThrottleHit(c) \/ Serve(c) \/ Miss(c)
  \/ Restart(c) \/ Stopped(c) \/ (\E s \in Sessions : StartSession(c, s))
  \/ Join(c) \/ ThrottleJoin(c)
  \/ PollMiss(c) \/ Unavailable(c) \/ Nudge(c) \/ PollTick(c)

ClientNext(c) ==
  \/ Request(c)
  \/ \E i \in Segments : Acquire(c, i)
  \/ Resolve(c)
  \/ StartFails(c)
  \/ ContextDone(c)
  \/ Deadline(c)

Ffmpeg(s) == Encode(s) \/ ExitOK(s) \/ Fail(s) \/ Kill(s)

SessionNext(s) ==
  \/ Ffmpeg(s)
  \/ AwaitSession(s) \/ clearSession(s)
  \/ ThrottleTick(s)
  \/ IdleTimeout(s) \/ ReapCancel(s) \/ StopCancel(s)

\* The server has stopped: Shutdown has returned and no request is left.
Drained ==
  /\ stopping
  /\ \A c \in Clients : pc[c] = "idle"
  /\ \A s \in Sessions : life[s] = "free"
  /\ doomed = {}
  /\ UNCHANGED vars

Next ==
  \/ \E c \in Clients : ClientNext(c)
  \/ \E s \in Sessions : SessionNext(s)
  \/ \E x \in Callers : Signal(x) \/ SetFlag(x)
  \/ ReapSelect
  \/ Shutdown
  \/ Drained

Spec == Init /\ [][Next]_vars

\* Nothing is assumed of ffmpeg except that a SIGKILL ends it, and nothing of
\* the clients.  Go's mutex hands the lock over to a starving waiter and its
\* select eventually picks a ready timer: strong fairness for these two.
Fairness ==
  /\ \A c \in Clients :
       /\ WF_vars(Resolve(c))
       /\ SF_vars(\E i \in Segments : Acquire(c, i))
       /\ SF_vars(Deadline(c))
  /\ \A x \in Callers : WF_vars(Signal(x)) /\ WF_vars(SetFlag(x))
  /\ \A s \in Sessions :
       /\ WF_vars(Kill(s)) /\ WF_vars(AwaitSession(s)) /\ WF_vars(clearSession(s))
       /\ WF_vars(IdleTimeout(s))
       /\ WF_vars(ReapCancel(s)) /\ WF_vars(StopCancel(s))
  /\ WF_vars(ReapSelect)

FairSpec == Spec /\ Fairness

----------------------------------------------------------------------------
(* Properties.                                                             *)

ClientPCs == {"idle", "locking", "check", "hit", "served", "decide",
              "stopWait", "start", "join", "poll", "exitCheck", "select"}

\* Every variable has its type.
TypeOK ==
  /\ disk \in [Segments -> Content]
  /\ registered \in Sessions \cup {NoSession}
  /\ lockHolder \in Clients \cup {NoClient}
  /\ stopping \in BOOLEAN
  /\ life \in [Sessions -> {"free", "live", "closing"}]
  /\ proc \in [Sessions -> {"none", "running", "stopped", "exited"}]
  /\ cancelled \in [Sessions -> BOOLEAN]
  /\ startIndex \in [Sessions -> Segments]
  /\ pos \in [Sessions -> 0 .. NumSegments]
  /\ lastRequested \in [Sessions -> Segments]
  /\ paused \in [Sessions -> BOOLEAN]
  /\ idle \in [Sessions -> BOOLEAN]
  /\ doomed \in SUBSET Sessions
  /\ pc \in [Clients -> ClientPCs]
  /\ idx \in [Clients -> Segments]
  /\ held \in [Clients -> Sessions \cup {NoSession}]
  /\ call \in [Callers -> {"off", "stop", "cont", "setPaused", "setRunning"}]

\* At most one ffmpeg process writes into the rendition directory, across
\* seeks, reaping, failures and shutdown (stopSession waits for session.done
\* before startSession spawns).
SingleEncoder ==
  \A s, t \in Sessions : Alive(s) /\ Alive(t) => s = t

\* Every ffmpeg process is in the service's registry, where the reaper and the
\* next seek can find it: the clearSession of a finished session never drops
\* the entry of its successor.
EncoderIsRegistered == \A s \in Sessions : Alive(s) => registered = s

\* While an encoder runs, the directory holds whole segments from its start
\* up to the one it works on and nothing beyond: no leftover of an earlier
\* run lies ahead, which would make segmentComplete and needsRestart misjudge
\* the encoder's progress (removeSegmentsFrom in startSession).
NoStaleAhead ==
  \A s \in Sessions : Alive(s) =>
    \A i \in Segments :
      /\ startIndex[s] <= i /\ i < pos[s] => disk[i] = "full"
      /\ i > pos[s] => disk[i] = "none"

\* segmentComplete never reports a segment that the running encoder is still
\* writing: what a request is given while its encoder runs, at or after the
\* encoder's start, is a whole file.
LiveHitIsFull ==
  \A c \in Clients :
    /\ pc[c] \in {"hit", "served"}
    /\ held[c] # NoSession
    /\ Alive(held[c])
    /\ idx[c] >= startIndex[held[c]]
    => disk[idx[c]] = "full"

\* Every request that waits for the mutex is eventually answered, whatever
\* ffmpeg, the other clients and the throttle do (reaper and wait timeout).
RequestAnswered == \A c \in Clients : (pc[c] = "locking") ~> (pc[c] = "idle")

\* When clients stop asking for good, no encoder keeps running or stays
\* paused for ever: the reaper ends it (sessionIdleTimeout).
AbandonedEncoderEnds ==
  (<>[](\A c \in Clients : pc[c] = "idle")) => (<>[](\A s \in Sessions : ~Alive(s)))

\* After Shutdown every session worker ends, so s.wg.Wait returns.
ShutdownDrains ==
  stopping ~> (\A s \in Sessions : life[s] = "free")

----------------------------------------------------------------------------
(* What comments in session.go say and the code does not always do.        *)

\* "segmentComplete reports whether a segment file is fully written": every
\* file it accepts, and ResolveSegment serves, is whole.
CompleteMeansWhole ==
  \A c \in Clients : pc[c] \in {"hit", "served"} => disk[idx[c]] = "full"

=============================================================================
