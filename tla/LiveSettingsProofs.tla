------------------------- MODULE LiveSettingsProofs -------------------------
(***************************************************************************)
(* Theorems about LiveSettings, for any number of administrators,          *)
(* televisions, requests, failing starts and restarts.                     *)
(*                                                                         *)
(* Nothing serialises the handlers, so that the copies follow the rows     *)
(* only for a request that met no other one.  Such a request is alone      *)
(* (QuietAlone), which makes what it has read and done so far stay true    *)
(* between its steps (Progress), also while it waits under c.mu.           *)
(***************************************************************************)
EXTENDS LiveSettings, TLAPS

(* Types *)

\* Strings: the provers do not see that a literal is one.
Text == STRING \cup {Blank, NoRow, "global", "library", "secret"} \cup {Uuid[i] : i \in 1 .. 3}
Doc == [on : BOOLEAN, user : Text, udn : Text]

PCs == {"idle", "answer", "item", "upsert", "cron", "save", "load", "lock", "drain", "start",
        "advertise", "saveNet", "store"}

\* The documents that normalisation leaves as they are
NetNormal == [url : {"http", "socks"}, pass : Text] \cup {NetDefault}
TcNormal == [hw : {"off", "qsv"}, downmix : {"ac4", "none"}, boost : 1 .. 3]

Request ==
  [pc : PCs, scope : Text, items : Seq(ScheduleItem), found : BOOLEAN,
   rows : [Actions -> Text], doc : Doc, asked : BOOLEAN, failed : BOOLEAN,
   conf : NetNormal, quiet : BOOLEAN]

Controller ==
  [settings : Doc, srv : {"none", "closing", "up"}, listening : BOOLEAN, ads : Text,
   pending : Nat]

TypeData ==
  /\ sched \in [Actions -> Text]
  /\ dlna \in Doc /\ ctl \in Controller
  /\ net \in NetNormal /\ tc \in TcNormal
  /\ uuids \in 0 .. MaxUuids

(* The invariant *)

\* A request works on the document of this behaviour, and stores an item that it has.
Fits(r) ==
  /\ r.pc = "upsert" => r.items # <<>>
  /\ r.pc \in {"item", "upsert", "cron"} => uses = "schedules"
  /\ r.pc \in {"save", "load", "lock", "drain", "start", "advertise"} => uses = "dlna"
  /\ r.pc \in {"saveNet", "store"} => uses = "network"

RequestsInv == req \in [Admins -> Request] /\ \A a \in Admins : Fits(req[a])

\* What a request that met no other one relies on
Progress(a) ==
  /\ req[a].pc = "cron" => req[a].rows = sched
  /\ req[a].pc = "save" => req[a].asked \/ dlna.udn = Blank \/ req[a].doc.udn = dlna.udn
  /\ req[a].pc \in {"lock", "drain", "start", "advertise"} => req[a].doc = dlna
  /\ req[a].pc = "drain" => ctl.srv # "up" /\ ctl.ads = Blank
  /\ req[a].pc = "start" => ctl.srv = "none" /\ ctl.ads = Blank
  /\ req[a].pc = "advertise" => ctl.srv = "up" /\ ctl.settings = dlna /\ dlna.on
  /\ req[a].pc = "store" => net = req[a].conf
  /\ req[a].pc = "answer" => InForce

Quiet(a) == req[a].pc # "idle" /\ req[a].quiet
QuietAlone == \A a, b \in Admins : Quiet(a) /\ b # a => req[b].pc = "idle"
ProgressInv == \A a \in Admins : Quiet(a) => Progress(a)

IndInv == TypeData /\ RequestsInv /\ QuietAlone /\ ProgressInv

USE DEF vars, schedVars, dlnaVars, tvVars, netVars, scheduleVars, notDlna, notNet

-----------------------------------------------------------------------------
(* Documents *)

LEMMA Literals == /\ Blank # "http" /\ Blank # "socks" /\ Blank # "http+secret"
                  /\ Blank # "off" /\ Blank # "qsv" /\ Blank # "ac4" /\ Blank # "none"
  BY Zenon DEF Blank

\* A stored network document passes the validation unchanged, and every
\* document that passes is one of these (NormalizeSettings is idempotent).
LEMMA NetFixed == \A s \in NetNormal : NormalizeNet(s) = {s}
<1> TAKE s \in NetNormal
<1>1. CASE s = NetDefault
  <2>1. s \in [url : {Blank}, pass : {Blank}]
    BY <1>1 DEF NetDefault
  <2>2. [s EXCEPT !.pass = Blank] = s /\ s.url = Blank
    BY <2>1
  <2> QED
    BY <2>2, Literals DEF NormalizeNet, Ok, parseProxyURL
<1>2. CASE s \in [url : {"http", "socks"}, pass : Text]
  <2>1. s.url # Blank /\ s.url # "http+secret" /\ parseProxyURL(s.url)
    BY <1>2, Literals DEF parseProxyURL
  <2> QED
    BY <2>1 DEF NormalizeNet, Ok, absorbProxyUserinfo
<1> QED
  BY <1>1, <1>2 DEF NetNormal

LEMMA NetNormalizes == \A s \in [url : Text, pass : Text] : NormalizeNet(s) \subseteq NetNormal
<1> TAKE s \in [url : Text, pass : Text]
<1>1. CASE s.url = Blank
  <2>1. [s EXCEPT !.pass = Blank] = NetDefault
    BY <1>1 DEF NetDefault
  <2> QED
    BY <1>1, <2>1, Literals DEF NormalizeNet, Ok, NetNormal, parseProxyURL
<1>2. CASE s.url # Blank /\ parseProxyURL(s.url)
  <2>1. absorbProxyUserinfo(s) \in NetNormal
    <3>1. "secret" \in Text
      BY DEF Text
    <3> QED
      BY <1>2, <3>1 DEF parseProxyURL, absorbProxyUserinfo, NetNormal
  <2> QED
    BY <1>2, <2>1 DEF NormalizeNet, Ok
<1>3. CASE s.url # Blank /\ ~parseProxyURL(s.url)
  BY <1>3 DEF NormalizeNet, Rejected
<1> QED
  BY <1>1, <1>2, <1>3

\* The same for transcode settings, whose defaults depend on each other.
LEMMA TcNormalizes == \A s \in TcDoc : NormalizeTranscodeSettings(s) \subseteq TcNormal
  BY DEF TcDoc, TcNormal, NormalizeTranscodeSettings, ParseHwAccel, ParseDownmixAlgorithm,
         ParseDownmixBoost, DefaultDownmixBoost, Ok, Rejected

LEMMA TcFixed == \A s \in TcNormal : NormalizeTranscodeSettings(s) = {s}
<1> TAKE s \in TcNormal
<1>1. s = [hw |-> s.hw, downmix |-> s.downmix, boost |-> s.boost]
  BY DEF TcNormal
<1>2. ParseHwAccel(s.hw) = {s.hw} /\ ParseDownmixAlgorithm(s.downmix) = {s.downmix}
  BY DEF TcNormal, ParseHwAccel, ParseDownmixAlgorithm, Ok
<1>3. ParseDownmixBoost(s.boost, s.downmix) = {s.boost}
  BY DEF TcNormal, ParseDownmixBoost, Ok
<1>4. UNION {ParseDownmixBoost(s.boost, e) : e \in {s.downmix}} = {s.boost}
  BY <1>3
<1> QED
  BY <1>1, <1>2, <1>4 DEF NormalizeTranscodeSettings

\* A read of a document in normal form returns it.
LEMMA ReadsFixed == \A s, d : ReadBack({s}, d) = s
  BY DEF ReadBack, Rejected

LEMMA GetNet == net \in NetNormal => GetNetworkSettings = net
  BY NetFixed, ReadsFixed DEF GetNetworkSettings

-----------------------------------------------------------------------------
(* Requests *)

LEMMA IdleType == Idle \in Request
<1>1. DlnaOff \in Doc /\ NetDefault \in NetNormal /\ <<>> \in Seq(ScheduleItem)
  BY DEF DlnaOff, Doc, NetNormal, Text
<1>2. [x \in Actions |-> NoRow] \in [Actions -> Text] /\ Blank \in Text
  BY DEF Text
<1> QED
  BY <1>1, <1>2 DEF Idle, Request, PCs

\* A request begins: whoever is at work, it and the others are not quiet.
LEMMA Begins ==
  ASSUME NEW a \in Admins, NEW r \in Request, RequestsInv, QuietAlone,
         Begin(a, r), Fits(r), UNCHANGED uses
  PROVE  /\ RequestsInv' /\ QuietAlone'
         /\ \A b \in Admins : Quiet(b)' => b = a
         /\ req'[a] = [r EXCEPT !.quiet = (Busy = {})]
<1> DEFINE mine == [r EXCEPT !.quiet = (Busy = {})]
<1> DEFINE other(b) == [req[b] EXCEPT !.quiet = FALSE]
<1>1. /\ mine \in Request /\ mine.pc = r.pc /\ mine.items = r.items
      /\ mine.quiet = (Busy = {})
  BY DEF Request
<1>2. ASSUME NEW b \in Admins
      PROVE  /\ other(b) \in Request /\ other(b).pc = req[b].pc
             /\ other(b).items = req[b].items /\ other(b).quiet = FALSE
  BY DEF Request, RequestsInv
<1>3. /\ req' = [b \in Admins |-> req'[b]] /\ req'[a] = mine
      /\ \A b \in Admins : b # a => req'[b] = IF b \in Busy THEN other(b) ELSE req[b]
  <2>1. a \notin Busy
    BY DEF Begin, Busy
  <2>2. req' = [b \in Admins |-> req'[b]]
    BY DEF Begin
  <2>3. req'[a] = mine
    BY <2>1 DEF Begin
  <2>4. ASSUME NEW b \in Admins, b # a
        PROVE  req'[b] = IF b \in Busy THEN other(b) ELSE req[b]
    BY <2>4 DEF Begin
  <2> QED
    BY <2>2, <2>3, <2>4
<1> HIDE DEF mine, other
<1>4. req' \in [Admins -> Request] /\ req'[a] = mine
  BY <1>1, <1>2, <1>3 DEF RequestsInv
<1>5. \A b \in Admins : Fits(req[b])
  BY DEF RequestsInv
<1>6. ASSUME NEW b \in Admins
      PROVE  Fits(req[b])'
  <2>1. CASE b = a
    BY <2>1, <1>1, <1>4 DEF Fits
  <2>2. CASE b # a /\ b \in Busy
    BY <2>2, <1>2, <1>3, <1>5 DEF Fits
  <2>3. CASE b # a /\ b \notin Busy
    BY <2>3, <1>3, <1>5 DEF Fits
  <2> QED
    BY <2>1, <2>2, <2>3
<1>7. ASSUME NEW b \in Admins, b # a
      PROVE  ~Quiet(b)' /\ (b \notin Busy => req'[b].pc = "idle")
  BY <1>2, <1>3, <1>7 DEF Quiet, Busy
<1>8. QuietAlone'
  <2> SUFFICES ASSUME NEW b \in Admins, NEW c \in Admins, Quiet(b)', c # b
               PROVE  req'[c].pc = "idle"
    BY DEF QuietAlone
  <2>1. b = a /\ Busy = {}
    BY <1>1, <1>4, <1>7 DEF Quiet
  <2> QED
    BY <2>1, <1>7
<1> QED
  BY <1>4, <1>6, <1>7, <1>8 DEF RequestsInv, mine

\* A step of a request at work: if it is quiet, the others stand still.
LEMMA Goes ==
  ASSUME NEW a \in Admins, NEW r \in Request, RequestsInv, QuietAlone,
         Goto(a, r), Fits(r), UNCHANGED uses,
         req[a].pc # "idle", r.pc # "idle" /\ r.quiet => req[a].quiet
  PROVE  /\ RequestsInv' /\ QuietAlone'
         /\ \A b \in Admins : Quiet(b)' => b = a /\ Quiet(a)
         /\ req'[a] = r
<1>1. /\ req' \in [Admins -> Request] /\ req'[a] = r
      /\ \A b \in Admins : b # a => req'[b] = req[b]
  BY DEF Goto, RequestsInv
<1>2. \A b \in Admins : Fits(req[b])'
  BY <1>1 DEF RequestsInv, Fits
<1>3. ASSUME NEW b \in Admins, Quiet(b)'
      PROVE  b = a /\ Quiet(a)
  BY <1>1, <1>3 DEF Quiet, QuietAlone
<1>4. QuietAlone'
  BY <1>1, <1>3 DEF Quiet, QuietAlone
<1> QED
  BY <1>1, <1>2, <1>3, <1>4 DEF RequestsInv

\* The request ends, with an error or after its answer.
LEMMA Ends ==
  ASSUME NEW a \in Admins, RequestsInv, QuietAlone, Refuse(a), UNCHANGED uses, req[a].pc # "idle"
  PROVE  RequestsInv' /\ QuietAlone' /\ ProgressInv'
<1>1. Idle.pc = "idle" /\ Fits(Idle)
  BY DEF Idle, Fits
<1>2. /\ RequestsInv' /\ QuietAlone' /\ req'[a] = Idle
      /\ \A b \in Admins : Quiet(b)' => b = a /\ Quiet(a)
  BY <1>1, IdleType, Goes DEF Refuse
<1>3. ~Quiet(a)'
  BY <1>1, <1>2 DEF Quiet
<1> QED
  BY <1>2, <1>3 DEF ProgressInv

\* The request has done its work.
LEMMA Succeeds ==
  ASSUME NEW a \in Admins, RequestsInv, QuietAlone, Succeed(a), UNCHANGED uses, req[a].pc # "idle",
         Quiet(a) => InForce'
  PROVE  RequestsInv' /\ QuietAlone' /\ ProgressInv'
<1> DEFINE r == [Idle EXCEPT !.pc = "answer", !.quiet = req[a].quiet]
<1>1. r \in Request /\ r.pc = "answer" /\ r.quiet = req[a].quiet
  BY IdleType DEF Request, PCs, RequestsInv
<1>2. Goto(a, r)
  BY DEF Succeed
<1> HIDE DEF r
<1>3. Fits(r)
  BY <1>1 DEF Fits
<1>4. /\ RequestsInv' /\ QuietAlone' /\ req'[a] = r
      /\ \A b \in Admins : Quiet(b)' => b = a /\ Quiet(a)
  BY <1>1, <1>2, <1>3, Goes
<1>5. Quiet(a) => Progress(a)'
  BY <1>1, <1>4 DEF Progress
<1> QED
  BY <1>4, <1>5 DEF ProgressInv

\* What a quiet request relies on is nothing in the first steps, and only
\* this request's in the others.
LEMMA Fresh ==
  ASSUME NEW a \in Admins, req'[a].pc \in {"item", "upsert", "load", "saveNet"},
         \A b \in Admins : Quiet(b)' => b = a
  PROVE  ProgressInv'
  BY DEF ProgressInv, Progress

-----------------------------------------------------------------------------
(* The initial state *)

LEMMA Initially == Init => IndInv
<1> SUFFICES ASSUME Init PROVE IndInv
  OBVIOUS
<1>1. TypeData
  <2>1. sched \in [Actions -> Text]
    BY DEF Init, Text
  <2>2. dlna \in Doc /\ ctl \in Controller
    BY DEF Init, DlnaOff, Down, Doc, Controller, Text
  <2>3. net \in NetNormal /\ tc \in TcNormal
    BY DEF Init, NetNormal, TcDefault, TcNormal
  <2>4. uuids \in 0 .. MaxUuids
    BY SettingsAssumption DEF Init
  <2> QED
    BY <2>1, <2>2, <2>3, <2>4 DEF TypeData
<1>2. \A a \in Admins : req[a].pc = "idle"
  BY DEF Init, Idle
<1>3. RequestsInv
  BY <1>2, IdleType DEF Init, RequestsInv, Fits
<1> QED
  BY <1>1, <1>2, <1>3 DEF IndInv, QuietAlone, ProgressInv, Quiet

-----------------------------------------------------------------------------
(* Maintenance schedules *)

\* The first step of both handlers
LEMMA SchedulesBegin ==
  ASSUME NEW a \in Admins, NEW items \in Patches, NEW k \in {"global", "library"}, IndInv,
         uses = "schedules",
         Begin(a, [Idle EXCEPT !.pc = "item", !.scope = k, !.items = items]),
         UNCHANGED <<schedVars, scheduleVars>>
  PROVE  IndInv'
<1> DEFINE r == [Idle EXCEPT !.pc = "item", !.scope = k, !.items = items]
<1>1. r \in Request /\ r.pc = "item"
  BY IdleType, InputAssumption DEF Request, PCs, Text
<1>2. TypeData'
  BY DEF IndInv, TypeData
<1> HIDE DEF r
<1>3. Fits(r) /\ Begin(a, r)
  BY <1>1 DEF Fits, r
<1>4. /\ RequestsInv' /\ QuietAlone' /\ req'[a] = [r EXCEPT !.quiet = (Busy = {})]
      /\ \A b \in Admins : Quiet(b)' => b = a
  BY <1>1, <1>3, Begins DEF IndInv
<1>5. req'[a].pc = "item"
  BY <1>1, <1>4 DEF Request
<1> QED
  BY <1>2, <1>4, <1>5, Fresh DEF IndInv

LEMMA PatchesItem ==
  ASSUME NEW a \in Admins, NEW actions, IndInv, PatchItem(a, actions)
  PROVE  IndInv'
<1> DEFINE i == Head(req[a].items)
           r == [req[a] EXCEPT !.pc = "upsert", !.found = sched[i.action] # NoRow]
<1>1. TypeData' /\ UNCHANGED uses /\ req[a].pc = "item" /\ req[a].items # <<>>
  BY DEF PatchItem, IndInv, TypeData
<1>2. CASE Refuse(a)
  BY <1>1, <1>2, Ends DEF IndInv
<1>3. CASE Goto(a, r)
  <2>1. /\ r \in Request /\ r.pc = "upsert" /\ r.items # <<>>
        /\ r.quiet = req[a].quiet /\ uses = "schedules"
    BY <1>1 DEF IndInv, RequestsInv, Fits, Request, PCs
  <2> HIDE DEF r
  <2>2. Fits(r)
    BY <2>1 DEF Fits
  <2>3. /\ RequestsInv' /\ QuietAlone' /\ req'[a] = r
        /\ \A b \in Admins : Quiet(b)' => b = a
    BY <1>1, <1>3, <2>1, <2>2, Goes DEF IndInv
  <2> QED
    BY <1>1, <2>1, <2>3, Fresh DEF IndInv
<1> QED
  BY <1>2, <1>3 DEF PatchItem

LEMMA UpsertsSchedule ==
  ASSUME NEW a \in Admins, IndInv, UpsertSchedule(a)
  PROVE  IndInv'
<1> DEFINE i == Head(req[a].items)
           r == [req[a] EXCEPT !.pc = "item", !.items = Tail(@), !.found = FALSE]
<1>1. req[a].pc = "upsert" /\ req[a].items # <<>> /\ req[a].items \in Seq(ScheduleItem)
  BY DEF UpsertSchedule, IndInv, RequestsInv, Fits, Request
<1>2. UNCHANGED <<cron, library, scheduleVars>>
  BY DEF UpsertSchedule
<1>3. CASE Refuse(a) /\ UNCHANGED sched
  BY <1>1, <1>2, <1>3, Ends DEF IndInv, TypeData
<1>4. CASE sched' = [sched EXCEPT ![i.action] = i.cron] /\ Goto(a, r)
  <2>1. i.cron \in Text
    <3>1. i \in ScheduleItem
      BY <1>1
    <3> QED
      BY <3>1 DEF ScheduleItem, Text
  <2>2. TypeData'
    BY <1>2, <1>4, <2>1 DEF IndInv, TypeData
  <2>3. Tail(req[a].items) \in Seq(ScheduleItem)
    BY <1>1
  <2>4. /\ r \in Request /\ r.pc = "item" /\ r.quiet = req[a].quiet /\ uses = "schedules"
    BY <1>1, <2>3 DEF IndInv, RequestsInv, Fits, Request, PCs
  <2> HIDE DEF r
  <2>5. Fits(r)
    BY <2>4 DEF Fits
  <2>6. /\ RequestsInv' /\ QuietAlone' /\ req'[a] = r
        /\ \A b \in Admins : Quiet(b)' => b = a
    BY <1>1, <1>2, <1>4, <2>4, <2>5, Goes DEF IndInv
  <2> QED
    BY <2>2, <2>4, <2>6, Fresh DEF IndInv
<1> QED
  BY <1>3, <1>4 DEF UpsertSchedule

LEMMA ListsSchedules ==
  ASSUME NEW a \in Admins, IndInv, ListSchedules(a)
  PROVE  IndInv'
<1> DEFINE r == [req[a] EXCEPT !.pc = "cron", !.rows = sched]
<1>1. TypeData' /\ UNCHANGED <<sched, uses>> /\ req[a].pc = "item" /\ Goto(a, r)
  BY DEF ListSchedules, IndInv, TypeData
<1>2. /\ r \in Request /\ r.pc = "cron" /\ r.rows = sched
      /\ r.quiet = req[a].quiet /\ uses = "schedules"
  BY <1>1 DEF IndInv, RequestsInv, Fits, Request, PCs, TypeData
<1> HIDE DEF r
<1>3. Fits(r)
  BY <1>2 DEF Fits
<1>4. /\ RequestsInv' /\ QuietAlone' /\ req'[a] = r
      /\ \A b \in Admins : Quiet(b)' => b = a
  BY <1>1, <1>2, <1>3, Goes DEF IndInv
<1>5. Progress(a)'
  BY <1>1, <1>2, <1>4 DEF Progress
<1> QED
  BY <1>1, <1>4, <1>5 DEF IndInv, ProgressInv

\* A quiet request replaces the entries by those of the rows as they are.
LEMMA ReplacesCron ==
  ASSUME NEW a \in Admins, IndInv, replaceCronLocked(a)
  PROVE  IndInv'
<1>1. /\ req[a].pc = "cron" /\ Succeed(a) /\ cron' = Entries(req[a].rows)
      /\ UNCHANGED <<sched, library, scheduleVars>>
  BY DEF replaceCronLocked
<1>2. TypeData'
  BY <1>1 DEF IndInv, TypeData
<1>3. uses = "schedules"
  BY <1>1 DEF IndInv, RequestsInv, Fits
<1>4. Quiet(a) => InForce'
  BY <1>1, <1>3 DEF IndInv, ProgressInv, Progress, InForce, Entries
<1> QED
  BY <1>1, <1>2, <1>4, Succeeds DEF IndInv

\* Deleting the library disturbs every request.
LEMMA DeletesLibrary ==
  ASSUME IndInv, deleteLibrary
  PROVE  IndInv'
<1> DEFINE other(b) == [req[b] EXCEPT !.quiet = FALSE]
<1>1. TypeData'
  <2>1. sched' = [x \in Actions |-> IF x \in LibraryActions THEN NoRow ELSE sched[x]]
    BY DEF deleteLibrary
  <2>2. sched' \in [Actions -> Text]
    BY <2>1 DEF IndInv, TypeData, Text
  <2> QED
    BY <2>2 DEF deleteLibrary, IndInv, TypeData
<1>2. ASSUME NEW b \in Admins
      PROVE  /\ other(b) \in Request /\ other(b).pc = req[b].pc
             /\ other(b).items = req[b].items /\ other(b).quiet = FALSE
  BY DEF IndInv, Request, RequestsInv
<1>3. req' = [b \in Admins |-> IF b \in Busy THEN other(b) ELSE req[b]] /\ UNCHANGED uses
  BY DEF deleteLibrary
<1> HIDE DEF other
<1>4. RequestsInv'
  BY <1>2, <1>3 DEF IndInv, RequestsInv, Fits
<1>5. \A b \in Admins : ~Quiet(b)'
  BY <1>2, <1>3 DEF Quiet, Busy
<1> QED
  BY <1>1, <1>4, <1>5 DEF IndInv, QuietAlone, ProgressInv

-----------------------------------------------------------------------------
(* DLNA *)

\* What the invariant says of requests depends on these only.
LEMMA Untouched ==
  ASSUME IndInv, TypeData',
         UNCHANGED <<req, sched, cron, dlna, ctl.settings, ctl.srv, ctl.ads, net, live, uses>>
  PROVE  IndInv'
<1>1. RequestsInv' /\ QuietAlone'
  BY DEF IndInv, RequestsInv, Fits, QuietAlone, Quiet
<1>2. InForce => InForce'
  BY DEF InForce, Entries
<1>3. \A a \in Admins : Quiet(a)' => Quiet(a)
  BY DEF Quiet
<1>4. \A a \in Admins : Progress(a) => Progress(a)'
  BY <1>2 DEF Progress
<1> QED
  BY <1>1, <1>3, <1>4 DEF IndInv, ProgressInv

\* A step of a request at work, and what it relies on afterwards
LEMMA Proceeds ==
  ASSUME NEW a \in Admins, NEW r \in Request, IndInv, TypeData',
         Goto(a, r), Fits(r), UNCHANGED uses,
         req[a].pc # "idle", r.quiet => req[a].quiet,
         Quiet(a) /\ req'[a] = r => Progress(a)'
  PROVE  IndInv'
<1>1. /\ RequestsInv' /\ QuietAlone' /\ req'[a] = r
      /\ \A b \in Admins : Quiet(b)' => b = a /\ Quiet(a)
  BY Goes DEF IndInv
<1> QED
  BY <1>1 DEF IndInv, ProgressInv

\* A document without a UDN takes the stored one, unless there is none.
LEMMA PatchesDLNA ==
  ASSUME NEW a \in Admins, NEW body \in Bodies.dlna, IndInv, patchDLNASettings(a, body)
  PROVE  IndInv'
<1> DEFINE new == body.udn = Blank /\ dlna.udn = Blank
           udn == IF body.udn # Blank THEN body.udn
                    ELSE IF new THEN Uuid[uuids + 1] ELSE dlna.udn
           r(s) == [Idle EXCEPT !.pc = "save", !.doc = s, !.asked = body.udn # Blank]
<1>1. /\ new => uuids < MaxUuids
      /\ uuids' = IF new THEN uuids + 1 ELSE uuids
      /\ UNCHANGED <<dlna, ctl, cmu, faults, tvVars, notDlna>>
      /\ uses = "dlna"
  BY DEF patchDLNASettings
<1>2. PICK s \in NormalizeDLNA([body EXCEPT !.udn = udn]) : Begin(a, r(s))
  BY DEF patchDLNASettings
<1>3. body \in DlnaDoc /\ dlna \in Doc /\ uuids \in 0 .. MaxUuids /\ MaxUuids \in 0 .. 3
  BY InputAssumption, SettingsAssumption DEF IndInv, TypeData
<1>4. udn \in Text /\ (body.udn # Blank \/ dlna.udn = Blank \/ udn = dlna.udn)
  <2>1. CASE body.udn # Blank
    BY <1>3, <2>1 DEF DlnaDoc, Text
  <2>2. CASE body.udn = Blank /\ dlna.udn # Blank
    BY <1>3, <2>2 DEF Doc
  <2>3. CASE new
    <3>1. udn = Uuid[uuids + 1] /\ uuids + 1 \in 1 .. 3
      BY <1>1, <1>3, <2>3
    <3> QED
      BY <2>3, <3>1 DEF Text
  <2>4. body.udn # Blank \/ (body.udn = Blank /\ dlna.udn # Blank) \/ new
    OBVIOUS
  <2> HIDE DEF udn, new
  <2> QED
    BY <2>1, <2>2, <2>3, <2>4
<1> HIDE DEF udn
<1>5. s \in Doc /\ s.udn = udn
  <2>1. [body EXCEPT !.udn = udn] \in Doc /\ [body EXCEPT !.udn = udn].udn = udn
    BY <1>3, <1>4 DEF DlnaDoc, Doc, Text
  <2>2. s = [body EXCEPT !.udn = udn]
    BY DEF NormalizeDLNA, Ok, Rejected
  <2> QED
    BY <2>1, <2>2
<1>6. /\ r(s) \in Request /\ r(s).pc = "save" /\ r(s).doc = s
      /\ r(s).asked = (body.udn # Blank)
  BY <1>5, IdleType DEF Request, PCs
<1> HIDE DEF r
<1>7. TypeData'
  BY <1>1, <1>3 DEF IndInv, TypeData
<1>8. Fits(r(s))
  BY <1>1, <1>6 DEF Fits
<1>9. /\ RequestsInv' /\ QuietAlone' /\ req'[a] = [r(s) EXCEPT !.quiet = (Busy = {})]
      /\ \A b \in Admins : Quiet(b)' => b = a
  BY <1>1, <1>2, <1>6, <1>8, Begins DEF IndInv
<1>10. req'[a].pc = "save" /\ req'[a].doc = s /\ req'[a].asked = (body.udn # Blank)
  BY <1>6, <1>9 DEF Request
<1>11. Progress(a)'
  BY <1>1, <1>4, <1>5, <1>10 DEF Progress
<1> QED
  BY <1>7, <1>9, <1>11 DEF IndInv, ProgressInv

LEMMA SavesDLNA ==
  ASSUME NEW a \in Admins, IndInv, SaveDLNASettings(a)
  PROVE  IndInv'
<1> DEFINE r == [Idle EXCEPT !.pc = "load", !.quiet = req[a].quiet]
<1>1. /\ req[a].pc = "save" /\ dlna' = req[a].doc /\ Goto(a, r)
      /\ UNCHANGED <<ctl, cmu, uuids, faults, tvVars, notDlna>>
  BY DEF SaveDLNASettings
<1>2. req[a] \in Request /\ uses = "dlna"
  BY <1>1 DEF IndInv, RequestsInv, Fits
<1>3. TypeData'
  BY <1>1, <1>2 DEF IndInv, TypeData, Request
<1>4. r \in Request /\ r.pc = "load" /\ r.quiet = req[a].quiet
  BY <1>2, IdleType DEF Request, PCs
<1> HIDE DEF r
<1>5. Fits(r)
  BY <1>2, <1>4 DEF Fits
<1>6. req'[a] = r => Progress(a)'
  BY <1>4 DEF Progress
<1> QED
  BY <1>1, <1>3, <1>4, <1>5, <1>6, Proceeds

LEMMA LoadsDLNA ==
  ASSUME NEW a \in Admins, IndInv, ReloadLoad(a)
  PROVE  IndInv'
<1> DEFINE r == [req[a] EXCEPT !.pc = "lock", !.doc = dlna]
<1>1. req[a].pc = "load" /\ Goto(a, r) /\ UNCHANGED <<dlnaVars, tvVars, notDlna>>
  BY DEF ReloadLoad
<1>2. req[a] \in Request /\ uses = "dlna" /\ dlna \in Doc
  BY <1>1 DEF IndInv, RequestsInv, Fits, TypeData
<1>3. TypeData'
  BY <1>1 DEF IndInv, TypeData
<1>4. r \in Request /\ r.pc = "lock" /\ r.doc = dlna /\ r.quiet = req[a].quiet
  BY <1>2 DEF Request, PCs
<1> HIDE DEF r
<1>5. Fits(r)
  BY <1>2, <1>4 DEF Fits
<1>6. req'[a] = r => Progress(a)'
  BY <1>1, <1>4 DEF Progress
<1> QED
  BY <1>1, <1>3, <1>4, <1>5, <1>6, Proceeds

LEMMA StopType ==
  ASSUME NEW c \in Controller
  PROVE  /\ StopServer(c) \in Controller /\ StopServer(c).ads = Blank
         /\ StopServer(c).srv # "up"
  BY DEF StopServer, Controller, Text

LEMMA LocksDLNA ==
  ASSUME NEW a \in Admins, IndInv, ReloadLock(a)
  PROVE  IndInv'
<1> DEFINE r == [req[a] EXCEPT !.pc = "drain"]
<1>1. /\ req[a].pc = "lock" /\ ctl' = StopServer(ctl) /\ Goto(a, r)
      /\ UNCHANGED <<dlna, uuids, faults, tvVars, notDlna>>
  BY DEF ReloadLock
<1>2. req[a] \in Request /\ uses = "dlna"
  BY <1>1 DEF IndInv, RequestsInv, Fits
<1>3. ctl' \in Controller /\ ctl'.ads = Blank /\ ctl'.srv # "up"
  BY <1>1, StopType DEF IndInv, TypeData
<1>4. TypeData'
  BY <1>1, <1>3 DEF IndInv, TypeData
<1>5. r \in Request /\ r.pc = "drain" /\ r.doc = req[a].doc /\ r.quiet = req[a].quiet
  BY <1>2 DEF Request, PCs
<1> HIDE DEF r
<1>6. Fits(r)
  BY <1>2, <1>5 DEF Fits
<1>7. Quiet(a) /\ req'[a] = r => Progress(a)'
  BY <1>1, <1>3, <1>5 DEF IndInv, ProgressInv, Progress
<1> QED
  BY <1>1, <1>4, <1>5, <1>6, <1>7, Proceeds

\* The server is gone, whether it has drained or not.
LEMMA Stops ==
  ASSUME NEW a \in Admins, IndInv, Stopped(a), req[a].pc = "drain",
         UNCHANGED <<dlna, uuids, faults, notDlna>>
  PROVE  IndInv'
<1> DEFINE r == [req[a] EXCEPT !.pc = "start"]
<1>1. ctl' = [ctl EXCEPT !.srv = "none"] /\ ctl \in Controller
  BY DEF Stopped, IndInv, TypeData
<1>2. /\ ctl' \in Controller /\ ctl'.ads = ctl.ads /\ ctl'.srv = "none"
  BY <1>1 DEF Controller
<1>3. TypeData'
  BY <1>2 DEF IndInv, TypeData
<1>4. CASE Refuse(a)
  BY <1>3, <1>4, Ends DEF IndInv
<1>5. CASE Goto(a, r)
  <2>1. req[a] \in Request /\ uses = "dlna"
    BY DEF IndInv, RequestsInv, Fits
  <2>2. r \in Request /\ r.pc = "start" /\ r.doc = req[a].doc /\ r.quiet = req[a].quiet
    BY <2>1 DEF Request, PCs
  <2> HIDE DEF r
  <2>3. Fits(r)
    BY <2>1, <2>2 DEF Fits
  <2>4. Quiet(a) /\ req'[a] = r => Progress(a)'
    BY <1>2, <2>2 DEF IndInv, ProgressInv, Progress
  <2> QED
    BY <1>3, <1>5, <2>2, <2>3, <2>4, Proceeds
<1> QED
  BY <1>4, <1>5 DEF Stopped

LEMMA StartsServer ==
  ASSUME NEW a \in Admins, IndInv, startLocked(a)
  PROVE  IndInv'
<1> DEFINE r == [req[a] EXCEPT !.pc = "advertise"]
<1>1. /\ req[a].pc = "start"
      /\ UNCHANGED <<dlna, uuids, faults, tvVars, notDlna>>
  BY DEF startLocked
<1>2. /\ req[a] \in Request /\ uses = "dlna" /\ ctl \in Controller /\ req[a].doc \in Doc
  BY <1>1 DEF IndInv, RequestsInv, Fits, TypeData, Request
<1>3. Quiet(a) => req[a].doc = dlna /\ ctl.srv = "none" /\ ctl.ads = Blank
  BY <1>1 DEF IndInv, ProgressInv, Progress
<1>4. CASE /\ req[a].doc.on
           /\ ctl' = [ctl EXCEPT !.settings = req[a].doc, !.srv = "up", !.pending = @ + 1]
           /\ Goto(a, r)
  <2>1. ctl' \in Controller /\ ctl'.settings = req[a].doc /\ ctl'.srv = "up"
    <3>1. ctl.pending + 1 \in Nat
      BY <1>2 DEF Controller
    <3>2. ctl' = [ctl EXCEPT !.settings = req[a].doc, !.srv = "up", !.pending = ctl.pending + 1]
      BY <1>4
    <3> QED
      BY <1>2, <3>1, <3>2 DEF Controller
  <2>2. TypeData'
    BY <1>1, <2>1 DEF IndInv, TypeData
  <2>3. r \in Request /\ r.pc = "advertise" /\ r.doc = req[a].doc /\ r.quiet = req[a].quiet
    BY <1>2 DEF Request, PCs
  <2> HIDE DEF r
  <2>4. Fits(r)
    BY <1>2, <2>3 DEF Fits
  <2>5. Quiet(a) /\ req'[a] = r => Progress(a)'
    BY <1>1, <1>3, <1>4, <2>1, <2>3 DEF Progress
  <2> QED
    BY <1>1, <1>4, <2>2, <2>3, <2>4, <2>5, Proceeds
<1>5. CASE /\ ~req[a].doc.on
           /\ ctl' = [ctl EXCEPT !.settings = req[a].doc]
           /\ Succeed(a)
  <2>1. /\ ctl' \in Controller /\ ctl'.settings = req[a].doc
        /\ ctl'.srv = ctl.srv /\ ctl'.ads = ctl.ads
    BY <1>2, <1>5 DEF Controller
  <2>2. TypeData'
    BY <1>1, <2>1 DEF IndInv, TypeData
  <2>3. Quiet(a) => InForce'
    <3> SUFFICES ASSUME Quiet(a) PROVE InForce'
      OBVIOUS
    <3>1. ctl'.settings = dlna' /\ ctl'.srv # "up" /\ ctl'.ads = Blank /\ dlna'.on = FALSE
      BY <1>1, <1>2, <1>3, <1>5, <2>1 DEF Doc
    <3>2. uses' = "dlna"
      BY <1>1, <1>2
    <3> QED
      BY <3>1, <3>2 DEF InForce
  <2> QED
    BY <1>1, <1>5, <2>2, <2>3, Succeeds DEF IndInv
<1> QED
  BY <1>4, <1>5 DEF startLocked

LEMMA Advertises ==
  ASSUME NEW a \in Admins, IndInv, advertiseSSDP(a)
  PROVE  IndInv'
<1>1. /\ req[a].pc = "advertise" /\ ctl' = [ctl EXCEPT !.ads = req[a].doc.udn] /\ Succeed(a)
      /\ UNCHANGED <<dlna, uuids, faults, tvVars, notDlna>>
  BY DEF advertiseSSDP
<1>2. /\ req[a] \in Request /\ uses = "dlna" /\ ctl \in Controller /\ req[a].doc.udn \in Text
      /\ dlna \in Doc
  BY <1>1 DEF IndInv, RequestsInv, Fits, TypeData, Request, Doc
<1>3. /\ ctl' \in Controller /\ ctl'.settings = ctl.settings /\ ctl'.srv = ctl.srv
      /\ ctl'.ads = req[a].doc.udn
  BY <1>1, <1>2 DEF Controller
<1>4. TypeData'
  BY <1>1, <1>3 DEF IndInv, TypeData
<1>5. Quiet(a) => InForce'
  <2> SUFFICES ASSUME Quiet(a) PROVE InForce'
    OBVIOUS
  <2>1. req[a].doc = dlna /\ ctl.srv = "up" /\ ctl.settings = dlna /\ dlna.on = TRUE
    BY <1>1, <1>2 DEF IndInv, ProgressInv, Progress, Doc
  <2>2. /\ ctl'.settings = dlna' /\ ctl'.srv = "up" /\ ctl'.ads = dlna'.udn /\ dlna'.on = TRUE
        /\ uses' = "dlna"
    BY <1>1, <1>2, <1>3, <2>1
  <2> QED
    BY <2>2 DEF InForce
<1> QED
  BY <1>1, <1>4, <1>5, Succeeds DEF IndInv

\* The server is stopped again and the request will end with an error.
LEMMA FailsToAdvertise ==
  ASSUME NEW a \in Admins, IndInv, advertiseFails(a)
  PROVE  IndInv'
<1> DEFINE r == [req[a] EXCEPT !.pc = "drain", !.failed = TRUE]
<1>1. /\ req[a].pc = "advertise" /\ ctl' = StopServer(ctl) /\ Goto(a, r)
      /\ UNCHANGED <<dlna, cmu, uuids, tvVars, notDlna>>
  BY DEF advertiseFails
<1>2. req[a] \in Request /\ uses = "dlna"
  BY <1>1 DEF IndInv, RequestsInv, Fits
<1>3. ctl' \in Controller /\ ctl'.ads = Blank /\ ctl'.srv # "up"
  BY <1>1, StopType DEF IndInv, TypeData
<1>4. TypeData'
  BY <1>1, <1>3 DEF IndInv, TypeData
<1>5. r \in Request /\ r.pc = "drain" /\ r.doc = req[a].doc /\ r.quiet = req[a].quiet
  BY <1>2 DEF Request, PCs
<1> HIDE DEF r
<1>6. Fits(r)
  BY <1>2, <1>5 DEF Fits
<1>7. Quiet(a) /\ req'[a] = r => Progress(a)'
  BY <1>1, <1>3, <1>5 DEF IndInv, ProgressInv, Progress
<1> QED
  BY <1>1, <1>4, <1>5, <1>6, <1>7, Proceeds

\* Televisions and the listener's goroutine change neither settings, server
\* nor announcements.
LEMMA Televisions ==
  ASSUME NEW t \in TVs, IndInv,
         (\E pc \in {"tvUser", "serve"} : Connect(t, pc)) \/ tvUser(t) \/ Served(t)
  PROVE  IndInv'
<1>1. UNCHANGED <<dlnaVars, req, notDlna>>
  BY DEF Connect, tvUser, Served
<1>2. TypeData'
  BY <1>1 DEF IndInv, TypeData
<1> QED
  BY <1>1, <1>2, Untouched

LEMMA Listens ==
  ASSUME IndInv, Listen
  PROVE  IndInv'
<1>1. /\ ctl \in Controller /\ ctl.pending > 0
      /\ ctl' = [ctl EXCEPT !.pending = @ - 1, !.listening = @ \/ ctl.srv = "up"]
      /\ UNCHANGED <<dlna, cmu, uuids, faults, tvVars, req, notDlna>>
  BY DEF Listen, IndInv, TypeData
<1>2. ctl.pending - 1 \in Nat /\ (ctl.listening \/ ctl.srv = "up") \in BOOLEAN
  BY <1>1 DEF Controller
<1>3. /\ ctl' \in Controller /\ ctl'.settings = ctl.settings /\ ctl'.srv = ctl.srv
      /\ ctl'.ads = ctl.ads
  BY <1>1, <1>2 DEF Controller
<1>4. TypeData'
  BY <1>1, <1>3 DEF IndInv, TypeData
<1> QED
  BY <1>1, <1>3, <1>4, Untouched

-----------------------------------------------------------------------------
(* Network and transcode settings *)

LEMMA PatchesNetwork ==
  ASSUME NEW a \in Admins, NEW body \in Bodies.network, IndInv, patchNetworkSettings(a, body)
  PROVE  IndInv'
<1> DEFINE r(s) == [Idle EXCEPT !.pc = "saveNet", !.conf = s]
<1>1. uses = "network" /\ UNCHANGED <<netVars, tc, notNet>>
  BY DEF patchNetworkSettings
<1>2. PICK s \in NormalizeNet(MergePassword(body, GetNetworkSettings)) : Begin(a, r(s))
  BY DEF patchNetworkSettings
<1>3. net \in NetNormal /\ GetNetworkSettings = net /\ body \in NetDoc
  BY GetNet, InputAssumption DEF IndInv, TypeData
<1>4. MergePassword(body, net) \in [url : Text, pass : Text]
  <2>1. net.pass \in Text
    BY <1>3 DEF NetNormal, NetDefault, Text
  <2>2. body \in [url : Text, pass : Text]
    BY <1>3 DEF NetDoc, Text
  <2> QED
    BY <2>1, <2>2 DEF MergePassword
<1>5. s \in NetNormal
  BY <1>3, <1>4, NetNormalizes
<1>6. r(s) \in Request /\ r(s).pc = "saveNet"
  BY <1>5, IdleType DEF Request, PCs
<1>7. TypeData'
  BY <1>1 DEF IndInv, TypeData
<1> HIDE DEF r
<1>8. Fits(r(s))
  BY <1>1, <1>6 DEF Fits
<1>9. /\ RequestsInv' /\ QuietAlone' /\ req'[a] = [r(s) EXCEPT !.quiet = (Busy = {})]
      /\ \A b \in Admins : Quiet(b)' => b = a
  BY <1>1, <1>2, <1>6, <1>8, Begins DEF IndInv
<1>10. req'[a].pc = "saveNet"
  BY <1>6, <1>9 DEF Request
<1> QED
  BY <1>7, <1>9, <1>10, Fresh DEF IndInv

LEMMA SavesNetwork ==
  ASSUME NEW a \in Admins, IndInv, SaveNetworkSettings(a)
  PROVE  IndInv'
<1> DEFINE r == [req[a] EXCEPT !.pc = "store"]
<1>1. /\ req[a].pc = "saveNet" /\ net' = req[a].conf /\ Goto(a, r)
      /\ UNCHANGED <<live, tc, notNet>>
  BY DEF SaveNetworkSettings
<1>2. req[a] \in Request /\ uses = "network"
  BY <1>1 DEF IndInv, RequestsInv, Fits
<1>3. TypeData'
  BY <1>1, <1>2 DEF IndInv, TypeData, Request
<1>4. r \in Request /\ r.pc = "store" /\ r.conf = req[a].conf /\ r.quiet = req[a].quiet
  BY <1>2 DEF Request, PCs
<1> HIDE DEF r
<1>5. Fits(r)
  BY <1>2, <1>4 DEF Fits
<1>6. req'[a] = r => Progress(a)'
  BY <1>1, <1>4 DEF Progress
<1> QED
  BY <1>1, <1>3, <1>4, <1>5, <1>6, Proceeds

\* network.Live normalises the document once more, which changes nothing.
LEMMA Stores ==
  ASSUME NEW a \in Admins, IndInv, Store(a)
  PROVE  IndInv'
<1>1. /\ req[a].pc = "store" /\ live' \in NormalizeNet(req[a].conf) /\ Succeed(a)
      /\ UNCHANGED <<net, tc, notNet>>
  BY DEF Store
<1>2. req[a].conf \in NetNormal /\ uses = "network"
  BY <1>1 DEF IndInv, RequestsInv, Fits, Request
<1>3. TypeData'
  BY <1>1 DEF IndInv, TypeData
<1>4. live' = req[a].conf
  BY <1>1, <1>2, NetFixed
<1>5. Quiet(a) => InForce'
  BY <1>1, <1>2, <1>4 DEF IndInv, ProgressInv, Progress, InForce
<1> QED
  BY <1>1, <1>3, <1>5, Succeeds DEF IndInv

LEMMA PatchesTranscode ==
  ASSUME NEW a \in Admins, NEW body \in Bodies.transcode, IndInv, patchTranscodeSettings(a, body)
  PROVE  IndInv'
<1> DEFINE r == [Idle EXCEPT !.pc = "answer"]
<1>1. uses = "transcode" /\ Begin(a, r) /\ UNCHANGED <<netVars, notNet>>
  BY DEF patchTranscodeSettings
<1>2. PICK s \in NormalizeTranscodeSettings(body) : tc' \in NormalizeTranscodeSettings(s)
  BY DEF patchTranscodeSettings, SaveTranscodeSettings
<1>3. body \in TcDoc
  BY InputAssumption
<1>4. s \in TcNormal
  BY <1>2, <1>3, TcNormalizes
<1>5. tc' \in TcNormal
  BY <1>2, <1>4, TcFixed
<1>6. TypeData'
  BY <1>1, <1>5 DEF IndInv, TypeData
<1>7. r \in Request /\ r.pc = "answer"
  BY IdleType DEF Request, PCs
<1> HIDE DEF r
<1>8. Fits(r)
  BY <1>7 DEF Fits
<1>9. /\ RequestsInv' /\ QuietAlone' /\ req'[a] = [r EXCEPT !.quiet = (Busy = {})]
      /\ \A b \in Admins : Quiet(b)' => b = a
  BY <1>1, <1>7, <1>8, Begins DEF IndInv
<1>10. req'[a].pc = "answer" /\ InForce'
  BY <1>1, <1>7, <1>9 DEF Request, InForce
<1>11. Progress(a)'
  BY <1>10 DEF Progress
<1> QED
  BY <1>6, <1>9, <1>11 DEF IndInv, ProgressInv

-----------------------------------------------------------------------------
(* The process *)

LEMMA Boots ==
  ASSUME IndInv, Boot
  PROVE  IndInv'
<1>1. /\ UNCHANGED <<sched, dlna, net, tc, uses, uuids>>
      /\ req' = [a \in Admins |-> Idle]
  BY DEF Boot
<1>2. ctl' \in Controller
  <2>1. dlna \in Doc /\ dlna.udn \in Text /\ DlnaOff \in Doc /\ Blank \in Text
    BY DEF IndInv, TypeData, Doc, DlnaOff, Text
  <2>2. Down \in Controller
    BY <2>1 DEF Down, Controller
  <2>3. [Down EXCEPT !.settings = dlna] \in Controller
    BY <2>1, <2>2 DEF Controller
  <2>4. [settings |-> dlna, srv |-> "up", listening |-> FALSE, ads |-> dlna.udn, pending |-> 1]
          \in Controller
    BY <2>1 DEF Controller
  <2> QED
    BY <2>3, <2>4 DEF Boot
<1>3. TypeData'
  BY <1>1, <1>2 DEF IndInv, TypeData
<1>4. \A a \in Admins : req'[a].pc = "idle"
  BY <1>1 DEF Idle
<1>5. RequestsInv'
  BY <1>1, <1>4, IdleType DEF RequestsInv, Fits
<1> QED
  BY <1>3, <1>4, <1>5 DEF IndInv, QuietAlone, ProgressInv, Quiet

LEMMA Answers ==
  ASSUME NEW a \in Admins, IndInv, Answer(a)
  PROVE  IndInv'
<1>1. TypeData' /\ UNCHANGED uses /\ req[a].pc = "answer" /\ Refuse(a)
  BY DEF Answer, IndInv, TypeData
<1> QED
  BY <1>1, Ends DEF IndInv

\* Every step of a handler but its first
LEMMA StepKeeps ==
  ASSUME NEW a \in Admins, IndInv, Step(a) \/ ReloadLock(a) \/ advertiseFails(a)
  PROVE  IndInv'
<1>1. CASE PatchGlobalSchedules(a) \/ PatchLibrarySchedules(a)
  BY <1>1, PatchesItem DEF PatchGlobalSchedules, PatchLibrarySchedules
<1>2. CASE UpsertSchedule(a) \/ ListSchedules(a) \/ replaceCronLocked(a)
  BY <1>2, UpsertsSchedule, ListsSchedules, ReplacesCron
<1>3. CASE SaveDLNASettings(a) \/ ReloadLoad(a) \/ ReloadLock(a)
  BY <1>3, SavesDLNA, LoadsDLNA, LocksDLNA
<1>4. CASE Drained(a) \/ DrainTimeout(a)
  BY <1>4, Stops DEF Drained, DrainTimeout
<1>5. CASE startLocked(a) \/ advertiseSSDP(a) \/ advertiseFails(a)
  BY <1>5, StartsServer, Advertises, FailsToAdvertise
<1>6. CASE SaveNetworkSettings(a) \/ Store(a) \/ Answer(a)
  BY <1>6, SavesNetwork, Stores, Answers
<1> QED
  BY <1>1, <1>2, <1>3, <1>4, <1>5, <1>6 DEF Step

LEMMA Inductive == IndInv /\ [Next]_vars => IndInv'
<1> SUFFICES ASSUME IndInv, [Next]_vars PROVE IndInv'
  OBVIOUS
<1>1. ASSUME NEW a \in Admins, NEW items \in Patches,
             patchMaintenance(a, items) \/ patchLibraryMaintenance(a, items)
      PROVE  IndInv'
  BY <1>1, SchedulesBegin DEF patchMaintenance, patchLibraryMaintenance
<1>2. ASSUME NEW t \in TVs,
             (\E pc \in {"tvUser", "serve"} : Connect(t, pc)) \/ tvUser(t) \/ Served(t)
      PROVE  IndInv'
  BY <1>2, Televisions
<1>3. CASE deleteLibrary \/ Listen
  BY <1>3, DeletesLibrary, Listens
<1>4. CASE ListenPanics \/ Restart
  BY <1>4, Boots DEF ListenPanics, Restart
<1>5. CASE UNCHANGED vars
  <2>1. TypeData'
    BY <1>5 DEF IndInv, TypeData
  <2> QED
    BY <1>5, <2>1, Untouched
<1> QED
  BY <1>1, <1>2, <1>3, <1>4, <1>5, StepKeeps, PatchesDLNA, PatchesNetwork, PatchesTranscode
     DEF Next

-----------------------------------------------------------------------------
(* Theorems *)

\* What a quiet request relies on holds at every step of every behaviour of
\* the settings handlers.
THEOREM Invariant == Spec => []IndInv
  BY Initially, Inductive, PTL DEF Spec

\* A change answered with success that met no other one is in force: the cron
\* entries are those of the rows, the DLNA server runs and announces itself as
\* stored, provider requests use the stored proxy (patchMaintenance,
\* patchDLNASettings, patchNetworkSettings).
THEOREM ChangesAreInForce == Spec => []QuietChangeInForce
<1>1. IndInv => QuietChangeInForce
  BY DEF IndInv, ProgressInv, Progress, Quiet, QuietChangeInForce
<1> QED
  BY <1>1, Invariant, PTL

\* What the handlers store passes the validation that the stores' GetSettings
\* repeat, unchanged.
THEOREM ReadsReturnStored == Spec => []ReadsWhatWasStored
<1>1. IndInv => ReadsWhatWasStored
  BY GetNet, TcFixed, ReadsFixed
     DEF IndInv, TypeData, ReadsWhatWasStored, GetTranscodeSettings
<1> QED
  BY <1>1, Invariant, PTL

\* The UDN changes only when a request asks for it, or when two requests met
\* before there was one (patchDLNASettings, SaveDLNASettings).
THEOREM UdnIsStable == Spec => UdnStable
<1> DEFINE Step1 == dlna.udn # Blank /\ dlna'.udn # dlna.udn =>
                      \E a \in Admins : req[a].pc = "save" /\ (req[a].asked \/ ~req[a].quiet)
<1>1. IndInv /\ [Next]_vars => [Step1]_vars
  <2> SUFFICES ASSUME IndInv, Next, dlna.udn # Blank, dlna'.udn # dlna.udn
               PROVE  \E a \in Admins : req[a].pc = "save" /\ (req[a].asked \/ ~req[a].quiet)
    OBVIOUS
  <2>1. PICK a \in Admins : SaveDLNASettings(a)
    BY DEF Next, Step, patchMaintenance, patchLibraryMaintenance, patchDLNASettings,
           patchNetworkSettings, patchTranscodeSettings, ReloadLock, advertiseFails,
           PatchGlobalSchedules, PatchLibrarySchedules, PatchItem, UpsertSchedule,
           ListSchedules, replaceCronLocked, ReloadLoad, Drained, DrainTimeout, startLocked,
           advertiseSSDP, SaveNetworkSettings, Store, Answer, Connect, tvUser, Served,
           deleteLibrary, Listen, ListenPanics, Restart, Boot
  <2>2. req[a].pc = "save" /\ dlna' = req[a].doc
    BY <2>1 DEF SaveDLNASettings
  <2>3. req[a].quiet => Progress(a)
    BY <2>2 DEF IndInv, ProgressInv, Quiet
  <2> QED
    BY <2>2, <2>3 DEF Progress
<1> QED
  BY <1>1, Invariant, PTL DEF Spec, UdnStable

=============================================================================
