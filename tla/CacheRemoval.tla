---------------------------- MODULE CacheRemoval ----------------------------
(***************************************************************************)
(* SegmentSession composed with RemoveCache (internal/transcode/service.go)*)
(* running beside the requests: when a media file is deleted or its cache  *)
(* is purged, the sessions of the cache key leave the registry, are        *)
(* cancelled and waited for, and the whole directory is deleted.           *)
(* RemoveCache does not take the mutex of ResolveSegment, so a request can *)
(* start an encoder anywhere in between.                                   *)
(***************************************************************************)
EXTENDS SegmentSession

VARIABLES
  remover,    \* control point of RemoveCache
  detached,   \* its local copy of the registry's entry
  dirExists   \* the rendition directory exists

removalVars == <<remover, detached, dirExists>>
allVars == <<vars, removalVars>>

RemovalInit ==
  /\ Init
  /\ remover = "idle"
  /\ detached = NoSession
  /\ dirExists = (Present # {})

\* Mutant: the entry is dropped, the session left to itself
RemoveForgets ==
  /\ remover = "idle"
  /\ remover' = "sweep"
  /\ registered' = NoSession
  /\ UNCHANGED <<detached, dirExists, encVars, sessVars, stopping, doomed, clientVars, call>>

\* The registry entry is taken out under s.mu.
RemoveDetach ==
  /\ remover = "idle"
  /\ remover' = IF registered = NoSession THEN "sweep" ELSE "cancel"
  /\ detached' = registered
  /\ registered' = NoSession
  /\ UNCHANGED <<dirExists, encVars, sessVars, stopping, doomed, clientVars, call>>

\* Mutant: wait for the session without cancelling it
RemoveWaitsOnly ==
  /\ remover = "cancel"
  /\ remover' = "wait"
  /\ UNCHANGED <<detached, dirExists, vars>>

RemoveCancel ==
  /\ remover = "cancel"
  /\ remover' = "wait"
  /\ cancelled' = [cancelled EXCEPT ![detached] = TRUE]
  /\ UNCHANGED <<detached, dirExists, encVars, life, startIndex, lastRequested, paused, idle,
                 svcVars, clientVars, call>>

\* <-session.done
RemoveWait ==
  /\ remover = "wait"
  /\ finished(detached)
  /\ remover' = "sweep"
  /\ detached' = NoSession
  /\ UNCHANGED <<dirExists, vars>>

\* os.RemoveAll
RemoveAll ==
  /\ remover = "sweep"
  /\ remover' = "idle"
  /\ dirExists' = FALSE
  /\ disk' = [i \in Segments |-> "none"]
  /\ UNCHANGED <<detached, proc, pos, sessVars, svcVars, clientVars, call>>

RemoveCache == RemoveDetach \/ RemoveCancel \/ RemoveWait \/ RemoveAll

\* A step of SegmentSession.  startSession makes the directory, ffmpeg cannot
\* open a file without it, and the identity RemoveCache still refers to is not
\* handed out again.
Starting(c) == pc[c] = "start" /\ pc'[c] # "start"

SessionStep ==
  /\ Next
  /\ UNCHANGED <<remover, detached>>
  /\ dirExists' = (dirExists \/ \E c \in Clients : Starting(c))
  /\ disk' # disk => dirExists'
  /\ registered' = NoSession \/ registered' # detached

RemovalNext == SessionStep \/ RemoveCache

RemovalSpec == RemovalInit /\ [][RemovalNext]_allVars

RemovalFairness ==
  /\ WF_allVars(RemoveCancel) /\ WF_allVars(RemoveWait) /\ WF_allVars(RemoveAll)
  /\ \A s \in Sessions :
       /\ WF_allVars(Kill(s) /\ SessionStep)
       /\ WF_allVars(AwaitSession(s) /\ SessionStep)

RemovalFairSpec == RemovalSpec /\ RemovalFairness

----------------------------------------------------------------------------

\* No encoder is lost: each running ffmpeg is in the registry, or about to be
\* cancelled by RemoveCache, or cancelled already.  Neither the removal of the
\* entry nor the late clearSession of an older session orphans one.
EncoderAccounted ==
  \A s \in Sessions :
    Alive(s) => registered = s \/ (detached = s /\ remover = "cancel") \/ cancelled[s]

\* Two encoders may overlap during a removal, but then one has been cancelled
\* or is about to be.
OverlapIsEnding ==
  \A s, t \in Sessions :
    Alive(s) /\ Alive(t) /\ s # t =>
      \E u \in {s, t} : cancelled[u] \/ (detached = u /\ remover = "cancel")

\* RemoveCache returns: it never waits for a session that nobody ends.
RemovalEnds == (remover # "idle") ~> (remover = "idle")

=============================================================================
