---------------------------- MODULE LiveSettings ----------------------------
(***************************************************************************)
(* Settings that live twice: as rows of the database and as a copy a       *)
(* running part of the server works with.  Administrators change the rows  *)
(* through internal/httpapi; each handler then refreshes the copy:         *)
(*   maintenance schedules -> the entries of the cron engine               *)
(*   DLNA settings         -> the DLNA server and its SSDP announcements   *)
(*   network settings      -> network.Live, which provider requests read   *)
(* Transcode settings have no copy: every use reads the row.               *)
(*                                                                         *)
(* Nothing serialises the handlers.  A step is one database call or one    *)
(* section under a mutex, except that Reload keeps c.mu while it waits for *)
(* the old DLNA server to drain.                                           *)
(***************************************************************************)
EXTENDS Naturals, Sequences

CONSTANTS
  Admins,                         \* administrators, one request each at a time
  TVs,                            \* connections to the DLNA server
  GlobalActions, LibraryActions,  \* maintenance actions; there is one library
  Patches,                        \* schedule lists a request may carry
  Bodies,                         \* DLNA, network and transcode requests
  Documents,                      \* bound: a behaviour changes one of these
  NoAdmin,
  MaxUuids,                       \* bound: generated identifiers
  MaxPending,                     \* bound: listener goroutines not yet run when a request comes
  MaxFaults,                      \* bound: failing starts of the DLNA server
  MaxRestarts                     \* bound: restarts of the server

ASSUME SettingsAssumption ==
  /\ GlobalActions \cap LibraryActions = {}
  /\ NoAdmin \notin Admins
  /\ MaxUuids \in 0 .. 3 /\ MaxPending \in Nat /\ MaxFaults \in Nat /\ MaxRestarts \in Nat

\* What the handlers decode a request's body into
ScheduleItem == [action : STRING, cron : STRING]
DlnaDoc == [on : BOOLEAN, user : STRING, udn : STRING]
NetDoc == [url : STRING, pass : STRING]
TcDoc == [hw : STRING, downmix : STRING, boost : Nat]

ASSUME InputAssumption ==
  /\ Patches \subseteq Seq(ScheduleItem)
  /\ Bodies.dlna \subseteq DlnaDoc
  /\ Bodies.network \subseteq NetDoc
  /\ Bodies.transcode \subseteq TcDoc

VARIABLES
  sched, cron,      \* schedule rows; entries of the cron engine
  dlna, ctl,        \* the DLNA row; the controller
  cmu,              \* the holder of c.mu
  tv, strays,       \* DLNA requests; those of a server that is gone
  net, live,        \* the network row; network.Live
  tc,               \* the transcode row
  library,          \* the library exists
  req,              \* the administrators' requests
  uuids, faults, restarts,
  uses              \* the document this behaviour changes

schedVars == <<sched, cron, library>>
dlnaVars == <<dlna, ctl, cmu, uuids, faults>>
tvVars == <<tv, strays>>
netVars == <<net, live>>
vars == <<schedVars, dlnaVars, tvVars, netVars, tc, req, restarts, uses>>

Actions == GlobalActions \cup LibraryActions
NoRow == "none"
Blank == ""

\* A schedule is stored disabled ("off") or with a cron expression.
ValidateCron(c) == c \in {"off", "hourly", "nightly"}

----------------------------------------------------------------------------
(* Documents and their normal forms                                        *)

DlnaOff == [on |-> FALSE, user |-> Blank, udn |-> Blank]
NetDefault == [url |-> Blank, pass |-> Blank]
TcDefault == [hw |-> "off", downmix |-> "ac4", boost |-> 1]

\* The controller: its settings, server, listener and announcements
Down == [settings |-> DlnaOff, srv |-> "none", listening |-> FALSE,
         ads |-> Blank, pending |-> 0]

Ok(doc) == {doc}
Rejected == {}

NormalizeDLNA(s) == IF s.on /\ s.user = Blank THEN Rejected ELSE Ok(s)

\* A proxy URL may carry a password, which moves to its own field.
parseProxyURL(url) == url \in {"http", "socks", "http+secret"}
absorbProxyUserinfo(s) ==
  IF s.url = "http+secret"
    THEN [url |-> "http", pass |-> IF s.pass = Blank THEN "secret" ELSE s.pass]
    ELSE s

NormalizeNet(s) ==
  CASE s.url = Blank -> Ok([s EXCEPT !.pass = Blank])
    [] parseProxyURL(s.url) -> Ok(absorbProxyUserinfo(s))
    [] OTHER -> Rejected

MergePassword(patch, existing) ==
  IF patch.pass = Blank THEN [patch EXCEPT !.pass = existing.pass] ELSE patch

ParseHwAccel(h) ==
  CASE h \in {"off", Blank} -> Ok("off") [] h = "qsv" -> Ok(h) [] OTHER -> Rejected
ParseDownmixAlgorithm(d) ==
  CASE d \in {"ac4", Blank} -> Ok("ac4") [] d = "none" -> Ok(d) [] OTHER -> Rejected

\* 0 asks for the default of the algorithm; the bounds are 0.5 and 3.
DefaultDownmixBoost(d) == IF d = "ac4" THEN 1 ELSE 2
ParseDownmixBoost(b, d) ==
  CASE b = 0 -> Ok(DefaultDownmixBoost(d)) [] b \in 1 .. 3 -> Ok(b) [] OTHER -> Rejected

NormalizeTranscodeSettings(s) ==
  {[hw |-> h, downmix |-> d, boost |-> b] :
     h \in ParseHwAccel(s.hw), d \in ParseDownmixAlgorithm(s.downmix),
     b \in UNION {ParseDownmixBoost(s.boost, e) : e \in ParseDownmixAlgorithm(s.downmix)}}

\* A read validates again; a row that does not pass counts as the defaults.
ReadBack(normal, default) == IF normal = Rejected THEN default ELSE CHOOSE s \in normal : TRUE
GetNetworkSettings == ReadBack(NormalizeNet(net), NetDefault)
GetTranscodeSettings == ReadBack(NormalizeTranscodeSettings(tc), TcDefault)

----------------------------------------------------------------------------
(* Requests                                                                *)

Idle == [pc |-> "idle", scope |-> Blank, items |-> <<>>, found |-> FALSE,
         rows |-> [x \in Actions |-> NoRow], doc |-> DlnaOff, asked |-> FALSE,
         failed |-> FALSE, conf |-> NetDefault, quiet |-> TRUE]

Busy == {a \in Admins : req[a].pc # "idle"}

\* quiet: no other change of the document was under way at any time.
Begin(a, r) ==
  /\ req[a].pc = "idle"
  /\ req' = [b \in Admins |->
               CASE b = a -> [r EXCEPT !.quiet = (Busy = {})]
                 [] b \in Busy -> [req[b] EXCEPT !.quiet = FALSE]
                 [] OTHER -> req[b]]

Goto(a, r) == req' = [req EXCEPT ![a] = r]
Refuse(a) == Goto(a, Idle)
Succeed(a) == Goto(a, [Idle EXCEPT !.pc = "answer", !.quiet = req[a].quiet])

\* The answer of a request that succeeded
Answer(a) ==
  /\ req[a].pc = "answer"
  /\ Refuse(a)
  /\ UNCHANGED <<schedVars, dlnaVars, tvVars, netVars, tc, restarts, uses>>

----------------------------------------------------------------------------
(* Maintenance schedules                                                   *)

scheduleVars == <<dlnaVars, tvVars, netVars, tc, restarts, uses>>

Init ==
  /\ sched = [x \in Actions |-> NoRow] /\ cron = sched
  /\ dlna = DlnaOff /\ ctl = Down /\ cmu = NoAdmin
  /\ tv = [t \in TVs |-> "idle"] /\ strays = {}
  /\ net = NetDefault /\ live = NetDefault /\ tc = TcDefault
  /\ library = TRUE
  /\ req = [a \in Admins |-> Idle]
  /\ uuids = 0 /\ faults = 0 /\ restarts = 0
  /\ uses \in Documents

patchMaintenance(a, items) ==
  /\ uses = "schedules"
  /\ Begin(a, [Idle EXCEPT !.pc = "item", !.scope = "global", !.items = items])
  /\ UNCHANGED <<schedVars, scheduleVars>>

\* GetLibrary first: 404 for a library that is gone
patchLibraryMaintenance(a, items) ==
  /\ uses = "schedules" /\ library
  /\ Begin(a, [Idle EXCEPT !.pc = "item", !.scope = "library", !.items = items])
  /\ UNCHANGED <<schedVars, scheduleVars>>

\* One turn of the loop: an invalid item ends the request, the items before it
\* stay stored.  A valid one is looked up.
PatchItem(a, actions) ==
  /\ req[a].pc = "item" /\ req[a].items # <<>>
  /\ LET i == Head(req[a].items) IN
       IF i.action \in actions /\ ValidateCron(i.cron)
         THEN Goto(a, [req[a] EXCEPT !.pc = "upsert", !.found = sched[i.action] # NoRow])
         ELSE Refuse(a)
  /\ UNCHANGED <<schedVars, scheduleVars>>

PatchGlobalSchedules(a) == req[a].scope = "global" /\ PatchItem(a, GlobalActions)
PatchLibrarySchedules(a) == req[a].scope = "library" /\ PatchItem(a, LibraryActions)

\* Create or Save.  A second Create hits the unique index, a row of a library
\* that is gone the foreign key.
UpsertSchedule(a) ==
  /\ req[a].pc = "upsert"
  /\ LET i == Head(req[a].items)
         duplicate == ~req[a].found /\ sched[i.action] # NoRow
         orphan == req[a].scope = "library" /\ ~library
     IN IF duplicate \/ orphan
          THEN Refuse(a) /\ UNCHANGED sched
          ELSE /\ sched' = [sched EXCEPT ![i.action] = i.cron]
               /\ Goto(a, [req[a] EXCEPT !.pc = "item", !.items = Tail(@), !.found = FALSE])
  /\ UNCHANGED <<cron, library, scheduleVars>>

\* ReloadSchedules reads the rows before it takes s.mu ...
ListSchedules(a) ==
  /\ req[a].pc = "item" /\ req[a].items = <<>>
  /\ Goto(a, [req[a] EXCEPT !.pc = "cron", !.rows = sched])
  /\ UNCHANGED <<schedVars, scheduleVars>>

\* addCronEntryLocked leaves out disabled schedules.
Entries(rows) == [x \in Actions |-> IF rows[x] = "off" THEN NoRow ELSE rows[x]]

\* Mutant: the entries are added to the engine that runs
replaceCronAdds(a) ==
  /\ req[a].pc = "cron"
  /\ cron' = [x \in Actions |-> LET e == Entries(req[a].rows)[x]
                                IN IF e = NoRow THEN cron[x] ELSE e]
  /\ Succeed(a)
  /\ UNCHANGED <<sched, library, scheduleVars>>

\* ... and under it starts a new engine with their entries.
replaceCronLocked(a) ==
  /\ req[a].pc = "cron"
  /\ cron' = Entries(req[a].rows)
  /\ Succeed(a)
  /\ UNCHANGED <<sched, library, scheduleVars>>

\* ON DELETE CASCADE takes the library's rows; the engine keeps its entries.
deleteLibrary ==
  /\ uses = "schedules" /\ library
  /\ library' = FALSE
  /\ sched' = [x \in Actions |-> IF x \in LibraryActions THEN NoRow ELSE sched[x]]
  /\ req' = [b \in Admins |-> IF b \in Busy THEN [req[b] EXCEPT !.quiet = FALSE] ELSE req[b]]
  /\ UNCHANGED <<cron, scheduleVars>>

----------------------------------------------------------------------------
(* DLNA                                                                    *)

notDlna == <<schedVars, netVars, tc, restarts, uses>>
Uuid == <<"uuid:1", "uuid:2", "uuid:3">>

\* Mutant: a blank UDN always gets a new identifier
patchDLNASettingsNewUDN(a, body) ==
  /\ uses = "dlna" /\ ctl.pending <= MaxPending /\ uuids < MaxUuids
  /\ LET udn == IF body.udn # Blank THEN body.udn ELSE Uuid[uuids + 1] IN
       \E s \in NormalizeDLNA([body EXCEPT !.udn = udn]) :
         /\ s.on => s.user = "tv"
         /\ uuids' = uuids + 1
         /\ Begin(a, [Idle EXCEPT !.pc = "save", !.doc = s, !.asked = body.udn # Blank])
  /\ UNCHANGED <<dlna, ctl, cmu, faults, tvVars, notDlna>>

\* GetSettings; a blank UDN means the stored one, or a new one the first time.
\* An enabled document needs an account with the TV role.
patchDLNASettings(a, body) ==
  /\ uses = "dlna" /\ ctl.pending <= MaxPending
  /\ LET new == body.udn = Blank /\ dlna.udn = Blank
         udn == IF body.udn # Blank THEN body.udn
                  ELSE IF new THEN Uuid[uuids + 1] ELSE dlna.udn
     IN /\ new => uuids < MaxUuids
        /\ \E s \in NormalizeDLNA([body EXCEPT !.udn = udn]) :
             /\ s.on => s.user = "tv"
             /\ uuids' = IF new THEN uuids + 1 ELSE uuids
             /\ Begin(a, [Idle EXCEPT !.pc = "save", !.doc = s, !.asked = body.udn # Blank])
  /\ UNCHANGED <<dlna, ctl, cmu, faults, tvVars, notDlna>>

SaveDLNASettings(a) ==
  /\ req[a].pc = "save"
  /\ dlna' = req[a].doc
  /\ Goto(a, [Idle EXCEPT !.pc = "load", !.quiet = req[a].quiet])
  /\ UNCHANGED <<ctl, cmu, uuids, faults, tvVars, notDlna>>

\* Reload reads the settings before it takes c.mu.  (Enabled settings without
\* a UDN, which no handler stores, would get one here.)
ReloadLoad(a) ==
  /\ req[a].pc = "load"
  /\ Goto(a, [req[a] EXCEPT !.pc = "lock", !.doc = dlna])
  /\ UNCHANGED <<dlnaVars, tvVars, notDlna>>

\* stopLocked takes the announcements back and closes the server's listener.
StopServer(c) == [c EXCEPT !.ads = Blank, !.listening = FALSE,
                           !.srv = IF @ = "none" THEN @ ELSE "closing"]

ReloadLock(a) ==
  /\ req[a].pc = "lock" /\ cmu = NoAdmin
  /\ cmu' = a
  /\ ctl' = StopServer(ctl)
  /\ Goto(a, [req[a] EXCEPT !.pc = "drain"])
  /\ UNCHANGED <<dlna, uuids, faults, tvVars, notDlna>>

Serving == {t \in TVs : tv[t] # "idle"} \ strays

\* The server is gone; Reload goes on, or ends with the error of startLocked.
Stopped(a) ==
  /\ ctl' = [ctl EXCEPT !.srv = "none"]
  /\ IF req[a].failed
       THEN Refuse(a) /\ cmu' = NoAdmin
       ELSE Goto(a, [req[a] EXCEPT !.pc = "start"]) /\ UNCHANGED cmu

\* http.Server.Shutdown returns when every connection is idle ...
Drained(a) ==
  /\ req[a].pc = "drain" /\ Serving = {}
  /\ Stopped(a)
  /\ UNCHANGED <<dlna, uuids, faults, tvVars, notDlna>>

\* Mutant: Shutdown waits without a deadline
DrainForever(a) == FALSE /\ UNCHANGED vars

\* ... or when shutdownGrace is over: a handler may wait for c.mu itself.
DrainTimeout(a) ==
  /\ req[a].pc = "drain" /\ Serving # {}
  /\ Stopped(a)
  /\ strays' = strays \cup Serving
  /\ UNCHANGED <<dlna, uuids, faults, tv, notDlna>>

\* c.settings = settings; an enabled server is created and its goroutine started.
startLocked(a) ==
  /\ req[a].pc = "start"
  /\ IF req[a].doc.on
       THEN /\ ctl' = [ctl EXCEPT !.settings = req[a].doc, !.srv = "up", !.pending = @ + 1]
            /\ Goto(a, [req[a] EXCEPT !.pc = "advertise"])
            /\ UNCHANGED cmu
       ELSE /\ ctl' = [ctl EXCEPT !.settings = req[a].doc]
            /\ Succeed(a)
            /\ cmu' = NoAdmin
  /\ UNCHANGED <<dlna, uuids, faults, tvVars, notDlna>>

advertiseSSDP(a) ==
  /\ req[a].pc = "advertise"
  /\ ctl' = [ctl EXCEPT !.ads = req[a].doc.udn]
  /\ Succeed(a)
  /\ cmu' = NoAdmin
  /\ UNCHANGED <<dlna, uuids, faults, tvVars, notDlna>>

advertiseFails(a) ==
  /\ req[a].pc = "advertise" /\ faults < MaxFaults
  /\ faults' = faults + 1
  /\ ctl' = StopServer(ctl)
  /\ Goto(a, [req[a] EXCEPT !.pc = "drain", !.failed = TRUE])
  /\ UNCHANGED <<dlna, cmu, uuids, tvVars, notDlna>>

\* A SOAP request ends up waiting for c.mu, a stream does not need it.
Connect(t, pc) ==
  /\ tv[t] = "idle" /\ ctl.listening
  /\ tv' = [tv EXCEPT ![t] = pc]
  /\ UNCHANGED <<strays, dlnaVars, req, notDlna>>

tvUser(t) ==
  /\ tv[t] = "tvUser" /\ cmu = NoAdmin
  /\ tv' = [tv EXCEPT ![t] = IF ctl.settings.on THEN "serve" ELSE "idle"]
  /\ strays' = IF ctl.settings.on THEN strays ELSE strays \ {t}
  /\ UNCHANGED <<dlnaVars, req, notDlna>>

Served(t) ==
  /\ tv[t] = "serve"
  /\ tv' = [tv EXCEPT ![t] = "idle"]
  /\ strays' = strays \ {t}
  /\ UNCHANGED <<dlnaVars, req, notDlna>>

----------------------------------------------------------------------------
(* Network and transcode settings                                          *)

notNet == <<schedVars, dlnaVars, tvVars, restarts, uses>>

\* Mutant: the stored password is merged into the normalised document
patchNetworkMergesLast(a, body) ==
  /\ uses = "network"
  /\ \E s \in NormalizeNet(body) :
       Begin(a, [Idle EXCEPT !.pc = "saveNet", !.conf = MergePassword(s, GetNetworkSettings)])
  /\ UNCHANGED <<netVars, tc, notNet>>

\* A blank password means the stored one.
patchNetworkSettings(a, body) ==
  /\ uses = "network"
  /\ \E s \in NormalizeNet(MergePassword(body, GetNetworkSettings)) :
       Begin(a, [Idle EXCEPT !.pc = "saveNet", !.conf = s])
  /\ UNCHANGED <<netVars, tc, notNet>>

SaveNetworkSettings(a) ==
  /\ req[a].pc = "saveNet"
  /\ net' = req[a].conf
  /\ Goto(a, [req[a] EXCEPT !.pc = "store"])
  /\ UNCHANGED <<live, tc, notNet>>

Store(a) ==
  /\ req[a].pc = "store"
  /\ live' \in NormalizeNet(req[a].conf)
  /\ Succeed(a)
  /\ UNCHANGED <<net, tc, notNet>>

SaveTranscodeSettings(s) == tc' \in NormalizeTranscodeSettings(s)

patchTranscodeSettings(a, body) ==
  /\ uses = "transcode"
  /\ Begin(a, [Idle EXCEPT !.pc = "answer"])
  /\ \E s \in NormalizeTranscodeSettings(body) : SaveTranscodeSettings(s)
  /\ UNCHANGED <<netVars, notNet>>

----------------------------------------------------------------------------
(* The process                                                             *)

\* main: every copy is made from the rows.
Boot ==
  /\ cron' = Entries(sched)
  /\ live' = GetNetworkSettings
  /\ ctl' = IF dlna.on THEN [settings |-> dlna, srv |-> "up", listening |-> FALSE,
                             ads |-> dlna.udn, pending |-> 1]
            ELSE [Down EXCEPT !.settings = dlna]
  /\ cmu' = NoAdmin
  /\ tv' = [t \in TVs |-> "idle"] /\ strays' = {}
  /\ req' = [a \in Admins |-> Idle]
  /\ UNCHANGED <<sched, library, dlna, uuids, faults, net, tc, uses>>

\* The goroutine of startLocked uses the server c.httpServer holds by then.
Listen ==
  /\ ctl.pending > 0 /\ ctl.srv # "none"
  /\ ctl' = [ctl EXCEPT !.pending = @ - 1, !.listening = @ \/ ctl.srv = "up"]
  /\ UNCHANGED <<dlna, cmu, uuids, faults, tvVars, req, notDlna>>

\* There is none any more: a nil dereference outside any handler.
ListenPanics ==
  /\ ctl.pending > 0 /\ ctl.srv = "none"
  /\ Boot /\ UNCHANGED restarts

\* Shutdown of the parts, or a crash
Restart ==
  /\ restarts < MaxRestarts
  /\ restarts' = restarts + 1
  /\ Boot

----------------------------------------------------------------------------

Step(a) ==
  \/ PatchGlobalSchedules(a) \/ PatchLibrarySchedules(a)
  \/ UpsertSchedule(a) \/ ListSchedules(a) \/ replaceCronLocked(a)
  \/ SaveDLNASettings(a) \/ ReloadLoad(a) \/ Drained(a) \/ DrainTimeout(a)
  \/ startLocked(a) \/ advertiseSSDP(a)
  \/ SaveNetworkSettings(a) \/ Store(a)
  \/ Answer(a)

Next ==
  \/ \E a \in Admins :
       \/ \E items \in Patches : patchMaintenance(a, items) \/ patchLibraryMaintenance(a, items)
       \/ \E body \in Bodies.dlna : patchDLNASettings(a, body)
       \/ \E body \in Bodies.network : patchNetworkSettings(a, body)
       \/ \E body \in Bodies.transcode : patchTranscodeSettings(a, body)
       \/ ReloadLock(a) \/ advertiseFails(a)
       \/ Step(a)
  \/ \E t \in TVs : (\E pc \in {"tvUser", "serve"} : Connect(t, pc)) \/ tvUser(t) \/ Served(t)
  \/ deleteLibrary
  \/ Listen \/ ListenPanics \/ Restart

Spec == Init /\ [][Next]_vars

\* Goroutines run on and a Go mutex starves nobody; a TV need not ever finish
\* a stream.
Fairness == \A a \in Admins : WF_vars(Step(a)) /\ SF_vars(ReloadLock(a))

FairSpec == Spec /\ Fairness

----------------------------------------------------------------------------

\* The running copy is the one the stored document asks for.
InForce ==
  /\ uses = "schedules" => cron = Entries(sched)
  /\ uses = "dlna" =>
       ctl.settings = dlna /\ (ctl.srv = "up") = dlna.on
         /\ ctl.ads = IF dlna.on THEN dlna.udn ELSE Blank
  /\ uses = "network" => live = net

\* A change that is answered with success and met no other change on its way
\* is in force, whatever races, refused requests, failed starts and restarts
\* came before it (patchMaintenance, patchDLNASettings, patchNetworkSettings).
QuietChangeInForce == \A a \in Admins : req[a].pc = "answer" /\ req[a].quiet => InForce

\* What a handler stored passes the validation every read repeats, so that no
\* read falls back to the defaults (the GetSettings of the stores).
ReadsWhatWasStored == GetNetworkSettings = net /\ GetTranscodeSettings = tc

\* "UDN is a stable uuid": the identity TVs know the server by changes only
\* when a request asks for it, or when two first requests raced.
UdnStable ==
  [][dlna.udn # Blank /\ dlna'.udn # dlna.udn =>
       \E a \in Admins : req[a].pc = "save" /\ (req[a].asked \/ ~req[a].quiet)]_vars

\* Every request is answered, although Reload holds c.mu while it waits for
\* handlers that may wait for c.mu, and streams that may never end.
ChangeAnswered == \A a \in Admins : (req[a].pc # "idle") ~> (req[a].pc = "idle")

=============================================================================
