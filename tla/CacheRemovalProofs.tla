------------------------- MODULE CacheRemovalProofs -------------------------
(***************************************************************************)
(* Proofs about SegmentSession, and about RemoveCache beside its requests, *)
(* for any number of clients, session identities and segments and any      *)
(* thresholds.  In the first part every live session is in the registry.   *)
(* In the second, with RemoveCache, a live session may have left it: what  *)
(* is kept is that a session out of the registry is on its way to its end. *)
(***************************************************************************)
EXTENDS CacheRemoval, TLAPS

\* Between Acquire and the return of ResolveSegment, and only then, a client
\* owns the rendition's mutex.
LockInv == \A c \in Clients : (lockHolder = c) <=> (pc[c] \notin {"idle", "locking"})

\* A session is in the registry until its done channel is closed, and its
\* process has ended by then.
RegistryInv ==
  \A s \in Sessions :
    /\ life[s] = "live" => registered = s
    /\ Alive(s) => life[s] = "live"

\* What a client knows of the session it holds: while it waits for the end of
\* one no other is live, and none is when it is about to start one.
HeldInv ==
  \A c \in Clients :
    /\ pc[c] \in {"hit", "stopWait", "join", "poll", "exitCheck", "select"} => held[c] \in Sessions
    /\ pc[c] = "stopWait" => \A s \in Sessions : life[s] = "live" => s = held[c]
    /\ pc[c] = "start" => \A s \in Sessions : life[s] # "live"

\* The encoder of a live session has written whole segments up to its position
\* and nothing beyond it.
DiskInv ==
  \A s \in Sessions : life[s] = "live" =>
    \A i \in Segments :
      /\ startIndex[s] <= i /\ i < pos[s] => disk[i] = "full"
      /\ i > pos[s] => disk[i] = "none"

IndInv == TypeOK /\ LockInv /\ RegistryInv /\ HeldInv /\ DiskInv /\ LiveHitIsFull

USE DEF vars, encVars, sessVars, svcVars, clientVars

----------------------------------------------------------------------------
(* Type correctness.                                                       *)

\* Segment indices are naturals and include 0.
LEMMA SegmentsRange ==
  /\ NumSegments \in Nat \ {0}
  /\ 0 \in Segments
  /\ Segments \subseteq 0 .. NumSegments
  /\ Segments \subseteq Nat
BY BoundsAssumption DEF Segments

\* NewService starts in a type-correct state.
LEMMA TypeInit == Init => TypeOK
<1> SUFFICES ASSUME Init PROVE TypeOK
  OBVIOUS
<1>1. /\ cancelled \in [Sessions -> BOOLEAN]
      /\ paused \in [Sessions -> BOOLEAN]
      /\ idle \in [Sessions -> BOOLEAN]
      /\ stopping \in BOOLEAN
  BY Zenon DEF Init
<1>2. /\ startIndex \in [Sessions -> Segments]
      /\ pos \in [Sessions -> 0 .. NumSegments]
      /\ lastRequested \in [Sessions -> Segments]
      /\ idx \in [Clients -> Segments]
  BY SegmentsRange DEF Init
<1> QED
  BY <1>1, <1>2 DEF Init, TypeOK, ClientPCs

\* applyThrottle decides on one of three signals.
LEMMA DecisionType ==
  ASSUME TypeOK, NEW s
  PROVE  ThrottleDecision(s) \in {"off", "stop", "cont"}
BY DEF ThrottleDecision

\* removeSegmentsFrom leaves a directory of segment files.
LEMMA CleanType ==
  ASSUME TypeOK, NEW i \in Segments
  PROVE  removeSegmentsFrom(i) \in [Segments -> Content]
BY DEF TypeOK, removeSegmentsFrom, Content

\* Every step of ResolveSegment keeps the types.
LEMMA TypeClient ==
  ASSUME TypeOK, NEW c \in Clients, ClientNext(c)
  PROVE  TypeOK'
<1> USE DEF TypeOK, Goto, Return, ClientPCs
<1>1. CASE Request(c)
  BY <1>1, SegmentsRange DEF Request
<1>2. CASE \E i \in Segments : Acquire(c, i)
  BY <1>2, SegmentsRange DEF Acquire
<1>3. CASE Hit(c)
  <2>1. CASE held[c] = NoSession
    BY <1>3, <2>1 DEF Hit
  <2>2. CASE held[c] # NoSession
    <3>1. noteRequested(held[c], idx[c])
      BY <1>3, <2>2 DEF Hit
    <3>2. /\ lastRequested' \in [Sessions -> Segments]
          /\ idle' \in [Sessions -> BOOLEAN]
      BY <3>1 DEF noteRequested
    <3>3. pc' \in [Clients -> ClientPCs]
      BY <1>3, <2>2 DEF Hit
    <3> QED
      BY <1>3, <3>2, <3>3 DEF Hit
  <2> QED
    BY <2>1, <2>2
<1>4. CASE ThrottleHit(c)
  BY <1>4, DecisionType, SegmentsRange DEF ThrottleHit, Callers
<1>5. CASE Serve(c)
  BY <1>5, SegmentsRange DEF Serve
<1>6. CASE Miss(c)
  BY <1>6, SegmentsRange DEF Miss
<1>7. CASE Restart(c)
  BY <1>7, SegmentsRange DEF Restart
<1>8. CASE Stopped(c)
  BY <1>8, SegmentsRange DEF Stopped
<1>9. ASSUME NEW s \in Sessions, StartSession(c, s) PROVE TypeOK'
  <2>1. removeSegmentsFrom(idx[c]) \in [Segments -> Content]
    BY CleanType
  <2>2. idx[c] \in Segments /\ idx[c] \in 0 .. NumSegments
    BY SegmentsRange
  <2> QED
    BY <1>9, <2>1, <2>2 DEF StartSession
<1>10. CASE Join(c)
  BY <1>10, SegmentsRange DEF Join, noteRequested
<1>11. CASE ThrottleJoin(c)
  BY <1>11, DecisionType, SegmentsRange DEF ThrottleJoin, Callers
<1>12. CASE PollMiss(c)
  BY <1>12, SegmentsRange DEF PollMiss
<1>13. CASE Unavailable(c)
  BY <1>13, SegmentsRange DEF Unavailable
<1>14. CASE Nudge(c)
  BY <1>14, DecisionType, SegmentsRange DEF Nudge, Callers
<1>15. CASE PollTick(c)
  BY <1>15, SegmentsRange DEF PollTick
<1>16. CASE StartFails(c)
  <2>1. removeSegmentsFrom(idx[c]) \in [Segments -> Content]
    BY CleanType
  <2> QED
    BY <1>16, <2>1, SegmentsRange DEF StartFails
<1>17. CASE ContextDone(c)
  BY <1>17, SegmentsRange DEF ContextDone
<1>18. CASE Deadline(c)
  BY <1>18, SegmentsRange DEF Deadline
<1> QED
  BY <1>1, <1>2, <1>3, <1>4, <1>5, <1>6, <1>7, <1>8, <1>9, <1>10, <1>11, <1>12, <1>13, <1>14, <1>15, <1>16, <1>17, <1>18 DEF ClientNext, Resolve

\* Every step of a session's goroutines, of ffmpeg and of the reaper keeps
\* the types.
LEMMA TypeSession ==
  ASSUME TypeOK, NEW s \in Sessions, SessionNext(s)
  PROVE  TypeOK'
<1> USE DEF TypeOK
<1>1. CASE Encode(s)
  <2>1. pos[s] \in Segments
    BY <1>1, SegmentsRange DEF Encode, Segments
  <2>2. disk' \in [Segments -> Content]
    BY <1>1, <2>1 DEF Encode, Content
  <2>3. pos[s] + 1 \in 0 .. NumSegments
    BY <1>1, <2>1, SegmentsRange DEF Encode, Segments
  <2>4. pos' \in [Sessions -> 0 .. NumSegments]
    BY <1>1, <2>3 DEF Encode
  <2> QED
    BY <1>1, <2>2, <2>4 DEF Encode
<1>2. CASE ExitOK(s)
  BY <1>2 DEF ExitOK
<1>3. CASE Fail(s)
  BY <1>3 DEF Fail
<1>4. CASE Kill(s)
  BY <1>4 DEF Kill
<1>5. CASE AwaitSession(s)
  BY <1>5, SegmentsRange DEF AwaitSession, Callers
<1>6. CASE clearSession(s)
  BY <1>6 DEF clearSession
<1>7. CASE ThrottleTick(s)
  BY <1>7, DecisionType DEF ThrottleTick, Callers
<1>8. CASE IdleTimeout(s)
  BY <1>8 DEF IdleTimeout
<1>9. CASE ReapCancel(s)
  BY <1>9 DEF ReapCancel
<1>10. CASE StopCancel(s)
  BY <1>10 DEF StopCancel
<1> QED
  BY <1>1, <1>2, <1>3, <1>4, <1>5, <1>6, <1>7, <1>8, <1>9, <1>10 DEF SessionNext, Ffmpeg

\* Every step keeps the types.
LEMMA TypeNext == TypeOK /\ [Next]_vars => TypeOK'
<1> SUFFICES ASSUME TypeOK, [Next]_vars PROVE TypeOK'
  OBVIOUS
<1>1. CASE \E c \in Clients : ClientNext(c)
  BY <1>1, TypeClient
<1>2. CASE \E s \in Sessions : SessionNext(s)
  BY <1>2, TypeSession
<1>3. ASSUME NEW x \in Callers, Signal(x) PROVE TypeOK'
  BY <1>3 DEF TypeOK, Signal
<1>4. ASSUME NEW x \in Callers, SetFlag(x) PROVE TypeOK'
  BY <1>4 DEF TypeOK, SetFlag
<1>5. CASE ReapSelect
  BY <1>5 DEF TypeOK, ReapSelect, idleSessions
<1>6. CASE Shutdown
  BY <1>6 DEF TypeOK, Shutdown
<1>7. CASE UNCHANGED vars
  BY <1>7 DEF TypeOK
<1> QED
  BY <1>1, <1>2, <1>3, <1>4, <1>5, <1>6, <1>7 DEF Next, Drained

\* Every reachable state is type correct, for every value of the constants.
THEOREM TypeCorrect == Spec => []TypeOK
BY TypeInit, TypeNext, PTL DEF Spec

----------------------------------------------------------------------------
(* Which actions touch the registry, the processes and the directory.      *)

core == <<life, registered, startIndex, encVars>>

\* Of a request's steps only stopSession and startSession touch the core.
LEMMA ClientFrame ==
  ASSUME NEW c \in Clients, ClientNext(c)
  PROVE  \/ Restart(c)
         \/ \E s \in Sessions : StartSession(c, s)
         \/ StartFails(c)
         \/ UNCHANGED core
BY DEF ClientNext, Resolve, core, Request, Acquire, Hit, ThrottleHit, Serve, Miss, Stopped, Join,
       ThrottleJoin, PollMiss, Unavailable, Nudge, PollTick, ContextDone, Deadline

\* Of a session's steps only ffmpeg's, awaitSession and clearSession touch
\* the core, and none touches a client.
LEMMA SessionFrame ==
  ASSUME NEW s \in Sessions, SessionNext(s)
  PROVE  /\ \/ Ffmpeg(s) \/ AwaitSession(s) \/ clearSession(s)
            \/ UNCHANGED core
         /\ UNCHANGED clientVars
BY DEF SessionNext, Ffmpeg, core, ThrottleTick, IdleTimeout, ReapCancel, StopCancel,
       Encode, ExitOK, Fail, Kill, AwaitSession, clearSession

\* SetFlag, ReapSelect and Shutdown touch neither the core nor a client.
LEMMA OtherFrame ==
  ASSUME ReapSelect \/ Shutdown \/ Drained \/ UNCHANGED vars \/ \E x \in Callers : SetFlag(x)
  PROVE  UNCHANGED <<core, clientVars>>
BY DEF ReapSelect, Shutdown, Drained, SetFlag, core

----------------------------------------------------------------------------
(* The mutex, the registry and what the clients know of the live session.  *)

\* ResolveSegment keeps to its mutex.
LEMMA LockClient ==
  ASSUME TypeOK, LockInv, NEW c \in Clients, ClientNext(c)
  PROVE  LockInv'
<1> USE DEF TypeOK, LockInv, Goto, Return, ClientPCs
<1>1. CASE Request(c)
  BY <1>1 DEF Request
<1>2. ASSUME NEW i \in Segments, Acquire(c, i) PROVE LockInv'
  BY <1>2, IdentityAssumption DEF Acquire
<1>3. CASE Hit(c)
  BY <1>3 DEF Hit
<1>4. CASE ThrottleHit(c)
  BY <1>4 DEF ThrottleHit
<1>5. CASE Serve(c)
  BY <1>5, IdentityAssumption DEF Serve
<1>6. CASE Miss(c)
  BY <1>6 DEF Miss
<1>7. CASE Restart(c)
  BY <1>7 DEF Restart
<1>8. CASE Stopped(c)
  BY <1>8 DEF Stopped
<1>9. ASSUME NEW s \in Sessions, StartSession(c, s) PROVE LockInv'
  BY <1>9 DEF StartSession
<1>10. CASE Join(c)
  BY <1>10 DEF Join
<1>11. CASE ThrottleJoin(c)
  BY <1>11 DEF ThrottleJoin
<1>12. CASE PollMiss(c)
  BY <1>12 DEF PollMiss
<1>13. CASE Unavailable(c)
  BY <1>13, IdentityAssumption DEF Unavailable
<1>14. CASE Nudge(c)
  BY <1>14 DEF Nudge
<1>15. CASE PollTick(c)
  BY <1>15 DEF PollTick
<1>16. CASE StartFails(c)
  BY <1>16, IdentityAssumption DEF StartFails
<1>17. CASE ContextDone(c)
  BY <1>17, IdentityAssumption DEF ContextDone
<1>18. CASE Deadline(c)
  BY <1>18, IdentityAssumption DEF Deadline
<1> QED
  BY <1>1, <1>2, <1>3, <1>4, <1>5, <1>6, <1>7, <1>8, <1>9, <1>10, <1>11, <1>12, <1>13, <1>14, <1>15, <1>16, <1>17, <1>18 DEF ClientNext, Resolve

\* A request that holds the mutex knows the live session, if there is one.
LEMMA HeldClient ==
  ASSUME TypeOK, LockInv, RegistryInv, HeldInv, NEW c \in Clients, ClientNext(c)
  PROVE  HeldInv'
<1> USE DEF TypeOK, LockInv, HeldInv, Goto, Return, ClientPCs
<1>1. CASE Request(c)
  BY <1>1 DEF Request
<1>2. ASSUME NEW i \in Segments, Acquire(c, i) PROVE HeldInv'
  BY <1>2, IdentityAssumption DEF Acquire
<1>3. CASE Hit(c)
  BY <1>3 DEF Hit, noteRequested
<1>4. CASE ThrottleHit(c)
  BY <1>4 DEF ThrottleHit
<1>5. CASE Serve(c)
  BY <1>5 DEF Serve
<1>6. CASE Miss(c)
  BY <1>6 DEF Miss
<1>7. CASE Restart(c)
  BY <1>7, IdentityAssumption DEF Restart, RegistryInv
<1>8. CASE Stopped(c)
  BY <1>8 DEF Stopped, finished
<1>9. ASSUME NEW s \in Sessions, StartSession(c, s) PROVE HeldInv'
  BY <1>9 DEF StartSession
<1>10. CASE Join(c)
  BY <1>10 DEF Join, needsRestart
<1>11. CASE ThrottleJoin(c)
  BY <1>11 DEF ThrottleJoin
<1>12. CASE PollMiss(c)
  BY <1>12 DEF PollMiss
<1>13. CASE Unavailable(c)
  BY <1>13 DEF Unavailable
<1>14. CASE Nudge(c)
  BY <1>14 DEF Nudge
<1>15. CASE PollTick(c)
  BY <1>15 DEF PollTick
<1>16. CASE StartFails(c)
  BY <1>16 DEF StartFails
<1>17. CASE ContextDone(c)
  BY <1>17 DEF ContextDone
<1>18. CASE Deadline(c)
  BY <1>18 DEF Deadline
<1> QED
  BY <1>1, <1>2, <1>3, <1>4, <1>5, <1>6, <1>7, <1>8, <1>9, <1>10, <1>11, <1>12, <1>13, <1>14, <1>15, <1>16, <1>17, <1>18 DEF ClientNext, Resolve

\* stopSession and startSession keep the registry true.
LEMMA RegistryClient ==
  ASSUME TypeOK, RegistryInv, HeldInv, NEW c \in Clients, ClientNext(c)
  PROVE  RegistryInv'
<1> USE DEF TypeOK, RegistryInv, Alive
<1>1. CASE Restart(c)
  BY <1>1 DEF Restart
<1>2. ASSUME NEW s \in Sessions, StartSession(c, s) PROVE RegistryInv'
  BY <1>2 DEF StartSession, HeldInv, Goto
<1>3. CASE StartFails(c)
  BY <1>3 DEF StartFails
<1>4. CASE UNCHANGED core
  BY <1>4 DEF core
<1> QED
  BY <1>1, <1>2, <1>3, <1>4, ClientFrame

\* awaitSession, clearSession and the end of ffmpeg keep the registry true.
LEMMA RegistrySession ==
  ASSUME TypeOK, RegistryInv, NEW s \in Sessions, SessionNext(s)
  PROVE  RegistryInv'
<1> USE DEF TypeOK, RegistryInv, Alive
<1>1. CASE Ffmpeg(s)
  BY <1>1 DEF Ffmpeg, Encode, ExitOK, Fail, Kill
<1>2. CASE AwaitSession(s)
  BY <1>2 DEF AwaitSession
<1>3. CASE clearSession(s)
  BY <1>3 DEF clearSession
<1>4. CASE UNCHANGED core
  BY <1>4 DEF core
<1> QED
  BY <1>1, <1>2, <1>3, <1>4, SessionFrame

\* No session becomes live by a step of its own goroutines.
LEMMA HeldSession ==
  ASSUME TypeOK, HeldInv, NEW s \in Sessions, SessionNext(s)
  PROVE  HeldInv'
<1>1. UNCHANGED clientVars
  BY SessionFrame
<1>2. \A t \in Sessions : life'[t] = "live" => life[t] = "live"
  BY SessionFrame DEF Ffmpeg, Encode, ExitOK, Fail, Kill, AwaitSession, clearSession, core, TypeOK
<1> QED
  BY <1>1, <1>2 DEF HeldInv

----------------------------------------------------------------------------
(* The directory of the rendition.                                         *)

\* startSession hands a clean directory to its encoder.
LEMMA DiskClient ==
  ASSUME TypeOK, HeldInv, DiskInv, NEW c \in Clients, ClientNext(c)
  PROVE  DiskInv'
<1> USE DEF TypeOK, DiskInv
<1>1. CASE Restart(c)
  BY <1>1 DEF Restart
<1>2. ASSUME NEW s \in Sessions, StartSession(c, s) PROVE DiskInv'
  BY <1>2, SegmentsRange DEF StartSession, HeldInv, Goto, removeSegmentsFrom, Segments
<1>3. CASE StartFails(c)
  BY <1>3 DEF StartFails, HeldInv, Return, Goto
<1>4. CASE UNCHANGED core
  BY <1>4 DEF core
<1> QED
  BY <1>1, <1>2, <1>3, <1>4, ClientFrame

\* ffmpeg fills the directory in order.
LEMMA DiskSession ==
  ASSUME TypeOK, RegistryInv, DiskInv, NEW s \in Sessions, SessionNext(s)
  PROVE  DiskInv'
<1> USE DEF TypeOK, DiskInv
<1>1. CASE Encode(s)
  <2> SUFFICES ASSUME NEW t \in Sessions, life'[t] = "live", NEW i \in Segments
               PROVE  /\ startIndex'[t] <= i /\ i < pos'[t] => disk'[i] = "full"
                      /\ i > pos'[t] => disk'[i] = "none"
    OBVIOUS
  <2>1. UNCHANGED <<life, startIndex>>
    BY <1>1 DEF Encode
  <2>2. t = s /\ life[s] = "live"
    BY <1>1, <2>1 DEF Encode, RegistryInv, Alive
  <2>3. /\ pos[s] \in Segments /\ pos[s] \in Int /\ i \in Int /\ startIndex[s] \in Int
        /\ startIndex[s] <= i /\ i < pos[s] => disk[i] = "full"
        /\ i > pos[s] => disk[i] = "none"
    BY <1>1, <2>2, SegmentsRange DEF Encode, Segments
  <2>4. CASE pos' = pos /\ \E v \in Content : disk' = [disk EXCEPT ![pos[s]] = v]
    BY <2>1, <2>2, <2>3, <2>4
  <2>5. CASE pos' = [pos EXCEPT ![s] = @ + 1] /\ disk' = [disk EXCEPT ![pos[s]] = "full"]
    <3>1. pos'[s] = pos[s] + 1
      BY <2>5
    <3>2. disk'[i] = IF i = pos[s] THEN "full" ELSE disk[i]
      BY <2>3, <2>5
    <3> QED
      BY <2>1, <2>2, <2>3, <3>1, <3>2
  <2> QED
    BY <1>1, <2>4, <2>5 DEF Encode, Content
<1>2. CASE ExitOK(s) \/ Fail(s) \/ Kill(s)
  BY <1>2 DEF ExitOK, Fail, Kill
<1>3. CASE AwaitSession(s)
  BY <1>3 DEF AwaitSession
<1>4. CASE clearSession(s)
  BY <1>4 DEF clearSession
<1>5. CASE UNCHANGED core
  BY <1>5 DEF core
<1> QED
  BY <1>1, <1>2, <1>3, <1>4, <1>5, SessionFrame DEF Ffmpeg

\* What segmentComplete accepts beside a running encoder is whole.
LEMMA HitClient ==
  ASSUME TypeOK, LockInv, RegistryInv, DiskInv, LiveHitIsFull, NEW c \in Clients, ClientNext(c)
  PROVE  LiveHitIsFull'
<1> USE DEF TypeOK, LiveHitIsFull, Goto, Return, ClientPCs, Alive
<1>1. CASE Request(c)
  BY <1>1 DEF Request
<1>2. ASSUME NEW i \in Segments, Acquire(c, i) PROVE LiveHitIsFull'
  BY <1>2 DEF Acquire
<1>3. CASE Hit(c)
  BY <1>3, SegmentsRange DEF Hit, segmentComplete, finished, HighestAbove, Present, RegistryInv, DiskInv, Segments
<1>4. CASE ThrottleHit(c)
  BY <1>4 DEF ThrottleHit
<1>5. CASE Serve(c)
  BY <1>5 DEF Serve
<1>6. CASE Miss(c)
  BY <1>6 DEF Miss
<1>7. CASE Restart(c)
  BY <1>7 DEF Restart
<1>8. CASE Stopped(c)
  BY <1>8 DEF Stopped
<1>9. ASSUME NEW s \in Sessions, StartSession(c, s) PROVE LiveHitIsFull'
  BY <1>9 DEF StartSession, LockInv
<1>10. CASE Join(c)
  BY <1>10 DEF Join
<1>11. CASE ThrottleJoin(c)
  BY <1>11 DEF ThrottleJoin
<1>12. CASE PollMiss(c)
  BY <1>12 DEF PollMiss
<1>13. CASE Unavailable(c)
  BY <1>13 DEF Unavailable
<1>14. CASE Nudge(c)
  BY <1>14 DEF Nudge
<1>15. CASE PollTick(c)
  BY <1>15 DEF PollTick
<1>16. CASE StartFails(c)
  BY <1>16 DEF StartFails, LockInv
<1>17. CASE ContextDone(c)
  BY <1>17 DEF ContextDone
<1>18. CASE Deadline(c)
  BY <1>18 DEF Deadline
<1> QED
  BY <1>1, <1>2, <1>3, <1>4, <1>5, <1>6, <1>7, <1>8, <1>9, <1>10, <1>11, <1>12, <1>13, <1>14, <1>15, <1>16, <1>17, <1>18 DEF ClientNext, Resolve

\* A whole segment stays whole while the encoder runs.
LEMMA HitSession ==
  ASSUME TypeOK, LiveHitIsFull, NEW s \in Sessions, SessionNext(s)
  PROVE  LiveHitIsFull'
<1> USE DEF TypeOK, LiveHitIsFull, Alive
<1>1. CASE Encode(s)
  BY <1>1 DEF Encode
<1>2. CASE ExitOK(s) \/ Fail(s) \/ Kill(s)
  BY <1>2 DEF ExitOK, Fail, Kill
<1>3. CASE AwaitSession(s)
  BY <1>3 DEF AwaitSession
<1>4. CASE clearSession(s)
  BY <1>4 DEF clearSession
<1>5. CASE UNCHANGED core
  BY <1>5, SessionFrame DEF core
<1> QED
  BY <1>1, <1>2, <1>3, <1>4, <1>5, SessionFrame DEF Ffmpeg

----------------------------------------------------------------------------
(* The inductive invariant and its consequences.                           *)

\* A signal stops or continues a process; it neither starts nor ends one.
LEMMA SignalKeepsAlive ==
  ASSUME TypeOK, NEW x \in Callers, Signal(x)
  PROVE  /\ \A s \in Sessions : Alive(s)' <=> Alive(s)
         /\ UNCHANGED <<life, registered, startIndex, disk, pos, clientVars>>
BY DEF TypeOK, Signal, Alive

\* The inductive invariant holds initially.
LEMMA IndInit == Init => IndInv
<1> SUFFICES ASSUME Init PROVE IndInv
  OBVIOUS
<1>1. TypeOK
  BY TypeInit
<1>2. LockInv
  BY IdentityAssumption DEF Init, LockInv
<1>3. RegistryInv /\ HeldInv /\ DiskInv /\ LiveHitIsFull
  BY DEF Init, RegistryInv, HeldInv, DiskInv, LiveHitIsFull, Alive
<1> QED
  BY <1>1, <1>2, <1>3 DEF IndInv

\* Every step preserves the inductive invariant.
LEMMA IndNext == IndInv /\ [Next]_vars => IndInv'
<1> SUFFICES ASSUME IndInv, [Next]_vars PROVE IndInv'
  OBVIOUS
<1>0. TypeOK /\ LockInv /\ RegistryInv /\ HeldInv /\ DiskInv /\ LiveHitIsFull
  BY DEF IndInv
<1>t. TypeOK'
  BY <1>0, TypeNext
<1>1. ASSUME NEW c \in Clients, ClientNext(c) PROVE IndInv'
  BY <1>0, <1>1, <1>t, LockClient, RegistryClient, HeldClient, DiskClient, HitClient DEF IndInv
<1>2. ASSUME NEW s \in Sessions, SessionNext(s) PROVE IndInv'
  <2>1. LockInv'
    BY <1>0, <1>2, SessionFrame DEF LockInv
  <2> QED
    BY <1>0, <1>2, <1>t, <2>1, RegistrySession, HeldSession, DiskSession, HitSession DEF IndInv
<1>3. ASSUME NEW x \in Callers, Signal(x) PROVE IndInv'
  <2>1. LockInv' /\ HeldInv' /\ DiskInv'
    BY <1>0, <1>3, SignalKeepsAlive DEF LockInv, HeldInv, DiskInv
  <2>2. RegistryInv'
    BY <1>0, <1>3, SignalKeepsAlive DEF RegistryInv
  <2>3. LiveHitIsFull'
    BY <1>0, <1>3, SignalKeepsAlive DEF LiveHitIsFull, TypeOK
  <2> QED
    BY <1>t, <2>1, <2>2, <2>3 DEF IndInv
<1>4. CASE ReapSelect \/ Shutdown \/ Drained \/ UNCHANGED vars \/ \E x \in Callers : SetFlag(x)
  BY <1>0, <1>4, <1>t, OtherFrame
     DEF IndInv, core, LockInv, RegistryInv, HeldInv, DiskInv, LiveHitIsFull, Alive
<1> QED
  BY <1>1, <1>2, <1>3, <1>4 DEF Next

\* The mutex, registry, held-session, directory and hit invariants hold
\* together in every reachable state.
THEOREM Inductive == Spec => []IndInv
BY IndInit, IndNext, PTL DEF Spec

\* For any number of clients and segments: at most one ffmpeg process writes
\* into the rendition directory.
THEOREM OneEncoder == Spec => []SingleEncoder
<1>1. IndInv => SingleEncoder
  BY DEF IndInv, RegistryInv, SingleEncoder
<1> QED
  BY <1>1, Inductive, PTL

\* Every ffmpeg process can be found through the registry of the service.
THEOREM EncoderRegistered == Spec => []EncoderIsRegistered
<1>1. IndInv => EncoderIsRegistered
  BY DEF IndInv, RegistryInv, EncoderIsRegistered
<1> QED
  BY <1>1, Inductive, PTL

\* No leftover of an earlier run lies ahead of a running encoder.
THEOREM NothingStaleAhead == Spec => []NoStaleAhead
<1>1. IndInv => NoStaleAhead
  BY DEF IndInv, RegistryInv, DiskInv, NoStaleAhead
<1> QED
  BY <1>1, Inductive, PTL

\* What a request is given from a running encoder is a whole segment.
THEOREM LiveHitWhole == Spec => []LiveHitIsFull
<1>1. IndInv => LiveHitIsFull
  BY DEF IndInv
<1> QED
  BY <1>1, Inductive, PTL


----------------------------------------------------------------------------
(* RemoveCache beside the requests                                         *)

\* The context of s is cancelled, or RemoveCache is about to cancel it.
Ending(s) == cancelled[s] \/ (detached = s /\ remover = "cancel")

\* RemoveCache refers to a session while it cancels and awaits it.
RemoverType ==
  /\ remover \in {"idle", "cancel", "wait", "sweep"}
  /\ detached \in Sessions \cup {NoSession}
  /\ remover \in {"cancel", "wait"} => detached \in Sessions

\* A process runs only while its session is live.
AliveIsLive == \A s \in Sessions : Alive(s) => life[s] = "live"

\* A live session is in the registry or about to end.
LiveAccounted == \A s \in Sessions : life[s] = "live" => registered = s \/ Ending(s)

\* A request that waits for a session's end, or is about to start one, does so
\* only when each live session is about to end.
PendingInv ==
  \A c \in Clients : pc[c] \in {"stopWait", "start"} =>
    \A s \in Sessions : life[s] = "live" => Ending(s)

RemovalInv ==
  TypeOK /\ LockInv /\ RemoverType /\ AliveIsLive /\ LiveAccounted /\ PendingInv

USE DEF vars, encVars, sessVars, svcVars, clientVars, removalVars, allVars

----------------------------------------------------------------------------
(* Steps of the requests and of the sessions.                              *)

\* What no step does but Restart, StartSession, ReapCancel, StopCancel and
\* AwaitSession: touch a session's context.  No step but startSession clears
\* a cancelled context.
LEMMA ClientEnding ==
  ASSUME NEW c \in Clients, ClientNext(c), TypeOK
  PROVE  \/ Restart(c)
         \/ \E s \in Sessions : StartSession(c, s)
         \/ StartFails(c) /\ UNCHANGED <<cancelled, life, proc, registered>>
         \/ /\ UNCHANGED <<core, cancelled>>
            /\ \A d \in Clients : pc'[d] \in {"stopWait", "start"} => pc[d] \in {"stopWait", "start"}
<1> USE DEF TypeOK, Goto, Return, core, ClientPCs
<1>1. CASE Request(c)
  BY <1>1 DEF Request
<1>2. ASSUME NEW i \in Segments, Acquire(c, i)
      PROVE  /\ UNCHANGED <<core, cancelled>>
             /\ \A d \in Clients : pc'[d] \in {"stopWait", "start"} => pc[d] \in {"stopWait", "start"}
  BY <1>2 DEF Acquire
<1>3. CASE Hit(c)
  BY <1>3 DEF Hit
<1>4. CASE ThrottleHit(c) \/ Serve(c) \/ Miss(c)
  BY <1>4 DEF ThrottleHit, Serve, Miss
<1>5. CASE Stopped(c)
  BY <1>5 DEF Stopped
<1>6. CASE Join(c) \/ ThrottleJoin(c)
  BY <1>6 DEF Join, ThrottleJoin
<1>7. CASE PollMiss(c) \/ Unavailable(c) \/ Nudge(c) \/ PollTick(c)
  BY <1>7 DEF PollMiss, Unavailable, Nudge, PollTick
<1>8. CASE StartFails(c)
  BY <1>8 DEF StartFails
<1>9. CASE ContextDone(c) \/ Deadline(c)
  BY <1>9 DEF ContextDone, Deadline
<1> QED
  BY <1>1, <1>2, <1>3, <1>4, <1>5, <1>6, <1>7, <1>8, <1>9 DEF ClientNext, Resolve

\* A session's own steps never start it, and only end what they take out of
\* the registry.
LEMMA SessionEnding ==
  ASSUME NEW s \in Sessions, SessionNext(s), TypeOK
  PROVE  /\ UNCHANGED clientVars
         /\ \A t \in Sessions :
              /\ life'[t] = "live" => life[t] = "live"
              /\ cancelled[t] => cancelled'[t]
              /\ life'[t] = "live" /\ registered = t => registered' = t
<1> USE DEF TypeOK
<1>1. CASE Ffmpeg(s)
  BY <1>1 DEF Ffmpeg, Encode, ExitOK, Fail, Kill
<1>2. CASE AwaitSession(s)
  BY <1>2 DEF AwaitSession
<1>3. CASE clearSession(s)
  BY <1>3 DEF clearSession
<1>4. CASE ThrottleTick(s) \/ IdleTimeout(s)
  BY <1>4 DEF ThrottleTick, IdleTimeout
<1>5. CASE ReapCancel(s) \/ StopCancel(s)
  BY <1>5 DEF ReapCancel, StopCancel
<1> QED
  BY <1>1, <1>2, <1>3, <1>4, <1>5 DEF SessionNext

\* A process runs only while its session is live, after a session's own step.
LEMMA AliveSession ==
  ASSUME NEW s \in Sessions, SessionNext(s), TypeOK, AliveIsLive
  PROVE  AliveIsLive'
<1> USE DEF TypeOK, AliveIsLive, Alive
<1>1. CASE Ffmpeg(s)
  BY <1>1 DEF Ffmpeg, Encode, ExitOK, Fail, Kill
<1>2. CASE AwaitSession(s)
  BY <1>2 DEF AwaitSession
<1>3. CASE clearSession(s)
  BY <1>3 DEF clearSession
<1>4. CASE UNCHANGED core
  BY <1>4 DEF core
<1> QED
  BY <1>1, <1>2, <1>3, <1>4, SessionFrame

\* A request's step keeps every live session accounted for: stopSession
\* cancels the one in the registry, and startSession registers a new one only
\* when all others are about to end.
LEMMA AccountedClient ==
  ASSUME RemovalInv, NEW c \in Clients, ClientNext(c),
         UNCHANGED <<remover, detached>>,
         registered' = NoSession \/ registered' # detached
  PROVE  AliveIsLive' /\ LiveAccounted' /\ PendingInv'
<1> USE DEF RemovalInv, TypeOK, AliveIsLive, LiveAccounted, PendingInv, Ending, Alive
<1>1. CASE Restart(c)
  BY <1>1, IdentityAssumption DEF Restart, Goto
<1>2. ASSUME NEW s \in Sessions, StartSession(c, s)
      PROVE  AliveIsLive' /\ LiveAccounted' /\ PendingInv'
  <2>1. /\ registered' = s /\ s # detached /\ pc[c] = "start"
        /\ life' = [life EXCEPT ![s] = "live"]
        /\ cancelled' = [cancelled EXCEPT ![s] = FALSE]
        /\ proc' = [proc EXCEPT ![s] = "running"]
        /\ pc' = [pc EXCEPT ![c] = "poll"]
    BY <1>2, IdentityAssumption DEF StartSession, Goto
  <2>2. AliveIsLive' /\ LiveAccounted'
    BY <2>1
  <2>3. \A d \in Clients : pc'[d] \notin {"stopWait", "start"}
    BY <2>1 DEF LockInv
  <2> QED
    BY <2>2, <2>3
<1>3. CASE StartFails(c) /\ UNCHANGED <<cancelled, life, proc, registered>>
  BY <1>3 DEF StartFails, Return, Goto
<1>4. CASE /\ UNCHANGED <<core, cancelled>>
           /\ \A d \in Clients : pc'[d] \in {"stopWait", "start"} => pc[d] \in {"stopWait", "start"}
  BY <1>4 DEF core, encVars
<1> QED
  BY <1>1, <1>2, <1>3, <1>4, ClientEnding

\* A step of SegmentSession keeps the invariant beside RemoveCache.
LEMMA InvSessionStep ==
  ASSUME RemovalInv, SessionStep
  PROVE  RemovalInv'
<1>t. TypeOK' /\ RemoverType'
  BY TypeNext DEF SessionStep, RemovalInv, RemoverType
<1>0. /\ TypeOK /\ LockInv /\ AliveIsLive /\ LiveAccounted /\ PendingInv
      /\ UNCHANGED <<remover, detached>>
      /\ registered' = NoSession \/ registered' # detached
  BY DEF RemovalInv, SessionStep
<1>1. ASSUME NEW c \in Clients, ClientNext(c) PROVE RemovalInv'
  <2>1. LockInv'
    BY <1>0, <1>1, LockClient
  <2>2. AliveIsLive' /\ LiveAccounted' /\ PendingInv'
    BY <1>0, <1>1, AccountedClient
  <2> QED
    BY <1>t, <2>1, <2>2 DEF RemovalInv
<1>2. ASSUME NEW s \in Sessions, SessionNext(s) PROVE RemovalInv'
  <2>1. LockInv'
    BY <1>0, <1>2, SessionFrame DEF LockInv
  <2>2. AliveIsLive'
    BY <1>0, <1>2, AliveSession
  <2>3. LiveAccounted' /\ PendingInv'
    BY <1>0, <1>2, SessionEnding DEF LiveAccounted, PendingInv, Ending
  <2> QED
    BY <1>t, <2>1, <2>2, <2>3 DEF RemovalInv
<1>3. ASSUME NEW x \in Callers, Signal(x) PROVE RemovalInv'
  <2>1. UNCHANGED cancelled
    BY <1>3 DEF Signal
  <2>2. LockInv' /\ LiveAccounted' /\ PendingInv'
    BY <1>0, <1>3, <2>1, SignalKeepsAlive DEF LockInv, LiveAccounted, PendingInv, Ending
  <2>3. AliveIsLive'
    BY <1>0, <1>3, SignalKeepsAlive DEF AliveIsLive
  <2> QED
    BY <1>t, <2>2, <2>3 DEF RemovalInv
<1>4. CASE ReapSelect \/ Shutdown \/ Drained \/ UNCHANGED vars \/ \E x \in Callers : SetFlag(x)
  <2>1. UNCHANGED cancelled
    BY <1>4 DEF ReapSelect, Shutdown, Drained, SetFlag
  <2> QED
    BY <1>0, <1>t, <1>4, <2>1, OtherFrame
       DEF RemovalInv, core, LockInv, AliveIsLive, Alive, LiveAccounted, PendingInv, Ending
<1> QED
  BY <1>1, <1>2, <1>3, <1>4 DEF SessionStep, Next

----------------------------------------------------------------------------
(* Steps of RemoveCache, and the theorems.                                 *)

\* RemoveCache takes a session out of the registry only to cancel it.
LEMMA InvRemoveCache ==
  ASSUME RemovalInv, RemoveCache
  PROVE  RemovalInv'
<1> USE DEF RemovalInv, TypeOK, RemoverType, LockInv, AliveIsLive, Alive, LiveAccounted, PendingInv, Ending
<1>1. CASE RemoveDetach
  BY <1>1, IdentityAssumption DEF RemoveDetach
<1>2. CASE RemoveCancel
  BY <1>2 DEF RemoveCancel
<1>3. CASE RemoveWait
  BY <1>3 DEF RemoveWait
<1>4. CASE RemoveAll
  BY <1>4 DEF RemoveAll, Content
<1> QED
  BY <1>1, <1>2, <1>3, <1>4 DEF RemoveCache

\* The invariant holds when no request and no removal is under way.
LEMMA RemovalInvInit == RemovalInit => RemovalInv
<1> SUFFICES ASSUME RemovalInit PROVE RemovalInv
  OBVIOUS
<1>1. TypeOK
  BY TypeInit DEF RemovalInit
<1>2. LockInv
  BY IdentityAssumption DEF RemovalInit, Init, LockInv
<1>3. RemoverType /\ AliveIsLive /\ LiveAccounted /\ PendingInv
  BY DEF RemovalInit, Init, RemoverType, AliveIsLive, Alive, LiveAccounted, PendingInv
<1> QED
  BY <1>1, <1>2, <1>3 DEF RemovalInv

\* Every step of the requests, the sessions and RemoveCache preserves it.
LEMMA RemovalInvNext == RemovalInv /\ [RemovalNext]_allVars => RemovalInv'
<1> SUFFICES ASSUME RemovalInv, [RemovalNext]_allVars PROVE RemovalInv'
  OBVIOUS
<1>1. CASE SessionStep
  BY <1>1, InvSessionStep
<1>2. CASE RemoveCache
  BY <1>2, InvRemoveCache
<1>3. CASE UNCHANGED allVars
  BY <1>3 DEF RemovalInv, TypeOK, RemoverType, LockInv, AliveIsLive, Alive, LiveAccounted, PendingInv, Ending
<1> QED
  BY <1>1, <1>2, <1>3 DEF RemovalNext

\* A session that is live, wherever RemoveCache and the requests stand, is in
\* the registry or about to end.
THEOREM RemovalInductive == RemovalSpec => []RemovalInv
BY RemovalInvInit, RemovalInvNext, PTL DEF RemovalSpec

\* Each running ffmpeg is in the registry, about to be cancelled by
\* RemoveCache, or cancelled: none is lost by a removal beside the requests.
THEOREM NoEncoderLost == RemovalSpec => []EncoderAccounted
<1>1. RemovalInv => EncoderAccounted
  BY DEF RemovalInv, AliveIsLive, LiveAccounted, Ending, EncoderAccounted
<1> QED
  BY <1>1, RemovalInductive, PTL

\* When a removal lets two encoders of a rendition overlap, one of them is
\* about to end.
THEOREM OverlapEnds == RemovalSpec => []OverlapIsEnding
<1>1. RemovalInv => OverlapIsEnding
  BY DEF RemovalInv, AliveIsLive, LiveAccounted, Ending, OverlapIsEnding
<1> QED
  BY <1>1, RemovalInductive, PTL

=============================================================================
