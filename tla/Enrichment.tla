----------------------------- MODULE Enrichment -----------------------------
(***************************************************************************)
(* The provider tasks of one library: internal/provider/enrich.go over the *)
(* rows of media_metadata, the artifact rows (provider/postgres), the      *)
(* cache directory (provider/cache.go) and the settings                    *)
(* (provider/service.go), with the handlers that edit and serve them.      *)
(*                                                                         *)
(* A task loads its settings once and then works through the library for   *)
(* minutes, waiting for a service between the read of a row and its write, *)
(* while users edit rows, files come and go, administrators change the     *)
(* settings and the server may stop.  The service's answers are any that   *)
(* an adapter can return.                                                  *)
(***************************************************************************)
EXTENDS MediaFields, FiniteSets, FiniteSetsExt

CONSTANTS
  Videos,       \* videos of the library, as positions in lexical order
  Inferred(_), Tags(_),  \* what the path and the container tags of a video say
  Langs,        \* the subtitle languages
  Providers,    \* registered adapters
  Hashers, Catalogs,  \* those that are FileHashProviders and EpisodeCatalogProviders
  Stored, SettingsInputs,  \* the settings at first, and what administrators send
  Edits,        \* what users send to Patch
  Found(_),     \* the fields an adapter finds: of a film, a show, a hash; and an episode's title
  Exts,         \* extensions of the content types posters come in
  Scenarios,    \* what happens in a behaviour: the library's type, tasks and changes
  MaxEvents,    \* bound: files, edits and settings that change
  MaxMishaps    \* bound: answers that find nothing, errors and restarts

ASSUME EnrichmentAssumption ==
  /\ Videos \subseteq Nat /\ IsFiniteSet(Videos)
  /\ Hashers \subseteq Providers /\ Catalogs \subseteq Providers
  /\ MaxEvents \in Nat /\ MaxMishaps \in Nat

VARIABLES
  uses,         \* the scenario
  settings,     \* provider_settings
  videos,       \* the videos that are there
  local,        \* subtitle slots that a sidecar file or an embedded track covers
  media,        \* media_metadata
  art,          \* provider_artifacts: the row of a slot
  cache,        \* files of the cache directory
  meta, fetch,  \* the metadata task; the poster or subtitle task
  user,         \* a request that edits a row
  raced,        \* rows edited since the metadata task read them
  events, mishaps

stored == <<settings, videos, local>>
metaVars == <<media, meta, user, raced>>
fetchVars == <<art, cache, fetch>>
taskVars == <<uses, stored, metaVars, fetchVars, events, mishaps>>

Type == IF "film" \in uses THEN "film" ELSE "series"
Effective(p) == EffectiveFields(Type, Inferred(p), media[p].original, media[p].override)

\* A poster belongs to a path, a subtitle to a path and a language.
Slots(kind) == Videos \X (IF kind = "poster" THEN {Nil} ELSE Langs)
AllSlots == Slots("poster") \cup Slots("subtitle")
NoArt == [provider |-> Nil, file |-> <<>>]

NoTask == [pc |-> "idle", set |-> Stored, units |-> {}, todo |-> {}, rest |-> {}, path |-> 0,
           current |-> NoFields, match |-> NoFields, fields |-> NoFields, next |-> <<>>, then |-> "idle"]
NoFetch == [pc |-> "idle", set |-> Stored, kind |-> Nil, todo |-> {}, keep |-> {}, slot |-> <<>>,
            file |-> <<>>]
NoRequest == [pc |-> "idle", path |-> 0, override |-> NoFields]

TasksInit ==
  /\ uses \in Scenarios
  /\ settings = Stored
  /\ videos = Videos /\ local = {}
  /\ media = [p \in Videos |-> [original |-> Tags(p), override |-> NoFields, by |-> Nil]]
  /\ art = [s \in AllSlots |-> NoArt] /\ cache = {}
  /\ meta = NoTask /\ fetch = NoFetch /\ user = NoRequest /\ raced = {}
  /\ events = 0 /\ mishaps = 0

Event == events < MaxEvents /\ events' = events + 1
Mishap == mishaps < MaxMishaps /\ mishaps' = mishaps + 1

----------------------------------------------------------------------------
(* Settings, files and users *)

\* Languages are ISO 639-1 codes, without a subtitle provider there are none.
normalizeSubtitleLanguages(input) ==
  [input EXCEPT !.langs = IF input.subtitle = Nil THEN {} ELSE @]

validate(input) ==
  /\ {input.metadata, input.poster, input.subtitle} \subseteq Providers \cup {Nil}
  /\ input.mode \in {"fill_missing", "full_rewrite"}
  /\ input.target \in {"db", "file"}
  /\ input.langs \subseteq Langs
  /\ input.subtitle # Nil => input.langs # {}

PatchSettings(input) ==
  /\ "settings" \in uses /\ Event
  /\ settings' = IF validate(input) THEN normalizeSubtitleLanguages(input) ELSE settings
  /\ UNCHANGED <<uses, videos, local, metaVars, fetchVars, mishaps>>

FileChange ==
  /\ "files" \in uses /\ Event
  /\ \/ \E p \in Videos : videos' = SymDiff(videos, {p}) /\ UNCHANGED local
     \/ \E s \in Slots("subtitle") : local' = SymDiff(local, {s}) /\ UNCHANGED videos
  /\ UNCHANGED <<uses, settings, metaVars, fetchVars, mishaps>>

\* A user's Patch: the override is read ...
PatchRow(p, patch) ==
  /\ "edits" \in uses /\ Event
  /\ user = NoRequest
  /\ user' = IF ValidPatch(patch)
             THEN [pc |-> "save", path |-> p, override |-> ApplyPatchFields(media[p].override, patch)]
             ELSE NoRequest
  /\ UNCHANGED <<uses, stored, media, meta, raced, fetchVars, mishaps>>

\* ... and stored with the user's stamp.
SavePatch ==
  /\ user.pc = "save"
  /\ media' = [media EXCEPT ![user.path].override = user.override, ![user.path].by = "user"]
  /\ raced' = IF meta.pc = "idle" THEN {} ELSE raced \cup {user.path}
  /\ user' = NoRequest
  /\ UNCHANGED <<uses, stored, meta, fetchVars, events, mishaps>>

----------------------------------------------------------------------------
(* The metadata task *)

showIdentity(p) == FirstSet(<<Field(Effective(p), "show"), Field(Inferred(p), "show")>>)

\* Shows by name; a video without one is left out.
groupShows == {{q \in videos : showIdentity(q) = showIdentity(p)} :
                 p \in {p \in videos : showIdentity(p) # Nil}}

\* Mutant: a row is checked before the service is asked, and not again.
skipUserEditedOnce(p) == meta.pc = "get" /\ media[p].by = "user" /\ ~meta.set.allow
skipUserEdited(p) == media[p].by = "user" /\ ~meta.set.allow

MetaFrame == UNCHANGED <<uses, stored, user, fetchVars, events>>
NextUnit(m) == [NoTask EXCEPT !.pc = "unit", !.set = m.set, !.units = m.units]
EndMeta == meta' = NoTask /\ raced' = {}

\* Enrich loads library and settings and lists the videos.
Enrich ==
  /\ "metadata" \in uses /\ meta.pc = "idle" /\ settings.metadata # Nil
  /\ meta' = [NoTask EXCEPT !.pc = "unit", !.set = settings,
                !.units = IF Type = "film" THEN {{p} : p \in videos} ELSE groupShows]
  /\ UNCHANGED <<media, raced, mishaps>> /\ MetaFrame

\* runMetadata: the next film or show
runMetadata ==
  /\ meta.pc = "unit"
  /\ \/ meta.units = {} /\ EndMeta
     \/ \E u \in meta.units :
          meta' = [meta EXCEPT !.pc = "get", !.units = @ \ {u}, !.todo = u] /\ UNCHANGED raced
  /\ UNCHANGED <<media, mishaps>> /\ MetaFrame

\* The first pass over a unit: a row that cannot be read or is a user's is left out, one with a
\* hash is tried by the hash, the rest waits for the match.
ReadRow(p) ==
  LET m == [meta EXCEPT !.todo = @ \ {p}]
  IN
  \/ Mishap /\ meta' = m /\ UNCHANGED raced
  \/ skipUserEdited(p) /\ meta' = m /\ UNCHANGED <<raced, mishaps>>
  \/ /\ ~skipUserEdited(p)
     /\ raced' = raced \ {p}
     /\ meta' = IF m.set.metadata \in Hashers /\ IsSet(Field(Effective(p), "ed2k_hash"))
                THEN [m EXCEPT !.pc = "hash", !.path = p, !.current = Effective(p)]
                ELSE [m EXCEPT !.rest = @ \cup {p},
                               !.current = IF Type = "film" THEN Effective(p) ELSE NoFields]
     /\ UNCHANGED mishaps

FirstPass ==
  /\ meta.pc = "get"
  /\ \/ meta.todo # {} /\ ReadRow(Min(meta.todo))
     \/ /\ meta.todo = {}
        /\ meta' = IF meta.rest = {} THEN NextUnit(meta) ELSE [meta EXCEPT !.pc = "match"]
        /\ UNCHANGED <<raced, mishaps>>
  /\ UNCHANGED media /\ MetaFrame

\* writeFields: with fill_missing only what the row that was read lacks; nothing left, no write
writeFields(m, p, fields, current, then) ==
  LET f == IF m.set.mode = "full_rewrite" THEN fields ELSE fillMissingOnly(fields, current)
      next == [m EXCEPT !.pc = then, !.path = 0, !.current = NoFields]
  IN IF providerFieldsEmpty(f) THEN next
     ELSE [next EXCEPT !.pc = "apply", !.path = p, !.fields = f, !.then = then]

\* An error or no match leaves the file to the match by title; an abort ends the run.
tryFileHashMetadata ==
  /\ meta.pc = "hash"
  /\ \/ /\ meta' = writeFields(meta, meta.path, Found("hash"), meta.current, "get")
        /\ UNCHANGED <<raced, mishaps>>
     \/ /\ Mishap
        /\ meta' = [meta EXCEPT !.pc = "get", !.rest = @ \cup {meta.path}, !.path = 0,
                                !.current = IF Type = "film" THEN @ ELSE NoFields]
        /\ UNCHANGED raced
     \/ Mishap /\ EndMeta
  /\ UNCHANGED media /\ MetaFrame

\* MatchFilm: the fields are weighed against the row as it was before the call.
applyFilmMetadata ==
  /\ meta.pc = "match" /\ Type = "film"
  /\ \/ /\ meta' = writeFields([meta EXCEPT !.rest = {}], Min(meta.rest), Found("film"), meta.current, "get")
        /\ UNCHANGED <<raced, mishaps>>
     \/ Mishap /\ meta' = NextUnit(meta) /\ UNCHANGED raced
     \/ Mishap /\ EndMeta
  /\ UNCHANGED media /\ MetaFrame

\* Shows are matched once, for all their videos.
MatchShow ==
  /\ meta.pc = "match" /\ Type = "series"
  /\ \/ /\ meta' = [meta EXCEPT !.pc = IF meta.set.metadata \in Catalogs THEN "episodes" ELSE "reget",
                                !.todo = meta.rest, !.rest = {}, !.match = Found("show")]
        /\ UNCHANGED <<raced, mishaps>>
     \/ Mishap /\ meta' = NextUnit(meta) /\ UNCHANGED raced
     \/ Mishap /\ EndMeta
  /\ UNCHANGED media /\ MetaFrame

\* Without a catalog the show's fields are written all the same.
FetchEpisodes ==
  /\ meta.pc = "episodes"
  /\ \/ /\ meta' = [meta EXCEPT !.pc = "reget", !.match = applyOverride(@, Found("episode"))]
        /\ UNCHANGED <<raced, mishaps>>
     \/ Mishap /\ meta' = [meta EXCEPT !.pc = "reget"] /\ UNCHANGED raced
     \/ Mishap /\ EndMeta
  /\ UNCHANGED media /\ MetaFrame

\* The title of an episode is found by season and episode.
applyEpisodeCatalog(fields, current) ==
  [k \in Keys |-> IF k = "episode_title" /\ Nil \in {Field(current, "season"), Field(current, "episode")}
                  THEN Nil ELSE fields[k]]

\* The second pass over a show reads and checks every row again.
applyShowMetadata ==
  /\ meta.pc = "reget"
  /\ \/ meta.todo = {} /\ meta' = NextUnit(meta) /\ UNCHANGED <<raced, mishaps>>
     \/ /\ meta.todo # {}
        /\ LET p == Min(meta.todo)
               m == [meta EXCEPT !.todo = @ \ {p}]
           IN  \/ Mishap /\ meta' = m /\ UNCHANGED raced
               \/ skipUserEdited(p) /\ meta' = m /\ UNCHANGED <<raced, mishaps>>
               \/ /\ ~skipUserEdited(p)
                  /\ raced' = raced \ {p}
                  /\ meta' = writeFields(m, p, applyEpisodeCatalog(meta.match, Effective(p)), Effective(p), "reget")
                  /\ UNCHANGED mishaps
  /\ UNCHANGED media /\ MetaFrame

Applied(m) == [m EXCEPT !.pc = m.then, !.path = 0, !.fields = NoFields, !.next = <<>>, !.then = "idle"]

\* ApplyProviderFields reads the row once more, and for a file writes the tags first: what is read
\* back is the new original, without the hash.
ApplyProviderFields ==
  LET row == media[meta.path]
      patch == providerPatchFields(meta.fields)
      original == [k \in Keys |-> IF k \notin EditableFieldKeys THEN Nil
                                  ELSE IF k \in fileTagUpdates(patch) THEN meta.fields[k] ELSE row.original[k]]
  IN
  /\ meta.pc = "apply"
  /\ \/ /\ meta.set.target = "db"
        /\ meta' = [meta EXCEPT !.pc = "store",
                      !.next = [original |-> <<>>, override |-> ApplyPatchFields(row.override, patch)]]
        /\ UNCHANGED mishaps
     \/ /\ meta.set.target = "file" /\ meta.path \in videos
        /\ meta' = [meta EXCEPT !.pc = "store",
                      !.next = [original |-> <<original>>, override |-> ClearOverrideKeys(row.override, patch)]]
        /\ UNCHANGED mishaps
     \/ /\ meta.set.target = "file" /\ meta.path \notin videos
        /\ meta' = Applied(meta) /\ UNCHANGED mishaps
     \/ Mishap /\ meta' = Applied(meta)
  /\ UNCHANGED <<media, raced>> /\ MetaFrame

\* ... and stores it with the provider's stamp.
StoreProviderFields ==
  /\ meta.pc = "store"
  /\ media' = [media EXCEPT ![meta.path] =
                [original |-> IF meta.next.original = <<>> THEN @.original ELSE meta.next.original[1],
                 override |-> meta.next.override, by |-> "provider"]]
  /\ meta' = Applied(meta)
  /\ UNCHANGED <<raced, mishaps>> /\ MetaFrame

----------------------------------------------------------------------------
(* The poster and subtitle tasks *)

FetchFrame == UNCHANGED <<uses, stored, metaVars, events>>

\* Mutant: the row is taken for the file.
posterRecorded(slot) == art[slot].provider = fetch.set.poster

\* A row of another provider does not count, nor does one whose file is gone.
posterCached(slot) == art[slot].provider = fetch.set.poster /\ art[slot].file \in cache
subtitleCached(slot) == art[slot].provider = fetch.set.subtitle /\ art[slot].file \in cache

\* Every film, or the first video of every show
posterTargets == {<<p, Nil>> : p \in IF Type = "film" THEN videos ELSE {Min(g) : g \in groupShows}}

PosterCachePath(slot, ext) == <<slot, ext>>
SubtitleCachePath(slot) == <<slot, "vtt">>

\* What the task of a kind is to fetch; posters outside it are pruned.
runPosters ==
  /\ "poster" \in uses /\ fetch.pc = "idle" /\ settings.poster # Nil
  /\ fetch' = [NoFetch EXCEPT !.pc = "next", !.set = settings, !.kind = "poster",
                              !.todo = posterTargets, !.keep = posterTargets]
  /\ UNCHANGED <<art, cache, mishaps>> /\ FetchFrame

runSubtitles ==
  /\ "subtitle" \in uses /\ fetch.pc = "idle" /\ settings.subtitle # Nil /\ settings.langs # {}
  /\ fetch' = [NoFetch EXCEPT !.pc = "next", !.set = settings, !.kind = "subtitle",
                              !.todo = videos \X settings.langs]
  /\ UNCHANGED <<art, cache, mishaps>> /\ FetchFrame

Next1(f, slot) == [f EXCEPT !.pc = "next", !.todo = @ \ {slot}, !.slot = <<>>, !.file = <<>>]

NextPoster ==
  /\ fetch.pc = "next" /\ fetch.kind = "poster"
  /\ \E slot \in fetch.todo :
       fetch' = IF posterCached(slot) THEN Next1(fetch, slot)
                ELSE [fetch EXCEPT !.pc = "answer", !.slot = slot]
  /\ UNCHANGED <<art, cache, mishaps>> /\ FetchFrame

\* A language the video has by itself is not fetched, and what was fetched is not kept.
collectSubtitleFetches ==
  /\ fetch.pc = "next" /\ fetch.kind = "subtitle"
  /\ \E slot \in fetch.todo :
       fetch' = IF slot \in local THEN Next1(fetch, slot)
                ELSE IF subtitleCached(slot) THEN [Next1(fetch, slot) EXCEPT !.keep = @ \cup {slot}]
                ELSE [fetch EXCEPT !.pc = "answer", !.slot = slot, !.keep = @ \cup {slot}]
  /\ UNCHANGED <<art, cache, mishaps>> /\ FetchFrame

\* The adapter's answer: an image in some format, nothing, an error, or an abort.
fetchPoster ==
  /\ fetch.pc = "answer" /\ fetch.kind = "poster"
  /\ \/ \E ext \in Exts : /\ fetch' = [fetch EXCEPT !.pc = "write", !.file = PosterCachePath(fetch.slot, ext)]
                          /\ UNCHANGED mishaps
     \/ Mishap /\ fetch' \in {Next1(fetch, fetch.slot), NoFetch}
  /\ UNCHANGED <<art, cache>> /\ FetchFrame

\* Here an abort is an error like any other.
fetchSubtitle ==
  /\ fetch.pc = "answer" /\ fetch.kind = "subtitle"
  /\ \/ /\ fetch' = [fetch EXCEPT !.pc = "write", !.file = SubtitleCachePath(fetch.slot)]
        /\ UNCHANGED mishaps
     \/ Mishap /\ fetch' = Next1(fetch, fetch.slot)
  /\ UNCHANGED <<art, cache>> /\ FetchFrame

\* The file is renamed into place ...
Write ==
  /\ fetch.pc = "write"
  /\ \/ cache' = cache \cup {fetch.file} /\ fetch' = [fetch EXCEPT !.pc = "upsert"] /\ UNCHANGED mishaps
     \/ Mishap /\ fetch' = Next1(fetch, fetch.slot) /\ UNCHANGED cache
  /\ UNCHANGED art /\ FetchFrame

\* ... and its row written.
UpsertArtifact ==
  LET key == IF fetch.kind = "poster" THEN fetch.set.poster ELSE fetch.set.subtitle IN
  /\ fetch.pc = "upsert"
  /\ \/ art' = [art EXCEPT ![fetch.slot] = [provider |-> key, file |-> fetch.file]] /\ UNCHANGED mishaps
     \/ Mishap /\ UNCHANGED art
  /\ fetch' = Next1(fetch, fetch.slot)
  /\ UNCHANGED cache /\ FetchFrame

\* When all is fetched, the rows that are not to be kept
ListArtifacts ==
  /\ fetch.pc = "next" /\ fetch.todo = {}
  /\ \/ /\ fetch' = [fetch EXCEPT !.pc = "prune", !.keep = {},
                       !.todo = {s \in Slots(fetch.kind) : art[s] # NoArt /\ s \notin fetch.keep}]
        /\ UNCHANGED mishaps
     \/ Mishap /\ fetch' = NoFetch
  /\ UNCHANGED <<art, cache>> /\ FetchFrame

\* prunePosters and pruneSubtitles: first the file, whether that succeeds or not ...
Remove ==
  /\ fetch.pc = "prune"
  /\ \/ /\ fetch.todo = {} /\ fetch' = NoFetch /\ UNCHANGED <<cache, mishaps>>
     \/ \E slot \in fetch.todo :
          /\ fetch' = [fetch EXCEPT !.pc = "delete", !.slot = slot]
          /\ \/ cache' = cache \ {art[slot].file} /\ UNCHANGED mishaps
             \/ Mishap /\ UNCHANGED cache
  /\ UNCHANGED art /\ FetchFrame

\* ... then the row.
DeleteArtifact ==
  /\ fetch.pc = "delete"
  /\ \/ art' = [art EXCEPT ![fetch.slot] = NoArt] /\ UNCHANGED mishaps
     \/ Mishap /\ UNCHANGED art
  /\ fetch' = [fetch EXCEPT !.pc = "prune", !.slot = <<>>, !.todo = @ \ {fetch.slot}]
  /\ UNCHANGED cache /\ FetchFrame

\* The server stops: the tasks are lost.
Restart ==
  /\ Mishap
  /\ meta' = NoTask /\ fetch' = NoFetch /\ user' = NoRequest /\ raced' = {}
  /\ UNCHANGED <<uses, stored, media, art, cache, events>>

\* What the handlers serve
providerPoster(p) == art[<<p, Nil>>].file \in cache
providerSubtitle(p, lang) == art[<<p, lang>>].file \in cache
providerSubtitleTracks(p) == {lang \in Langs : art[<<p, lang>>] # NoArt}

----------------------------------------------------------------------------
MetaStep == \/ runMetadata \/ FirstPass \/ tryFileHashMetadata \/ applyFilmMetadata \/ MatchShow
            \/ FetchEpisodes \/ applyShowMetadata \/ ApplyProviderFields \/ StoreProviderFields
FetchStep == \/ NextPoster \/ collectSubtitleFetches \/ fetchPoster \/ fetchSubtitle \/ Write
             \/ UpsertArtifact \/ ListArtifacts \/ Remove \/ DeleteArtifact
Changes == \/ \E input \in SettingsInputs : PatchSettings(input)
           \/ FileChange
           \/ \E p \in Videos, patch \in Edits : PatchRow(p, patch)

TasksNext == \/ Enrich \/ MetaStep \/ runPosters \/ runSubtitles \/ FetchStep
             \/ SavePatch \/ Changes \/ Restart

TasksSpec == TasksInit /\ [][TasksNext]_taskVars

\* The server runs what it has started, and the scheduler starts the tasks again and again.
TasksFairness == /\ WF_taskVars(MetaStep) /\ WF_taskVars(FetchStep) /\ WF_taskVars(SavePatch)
                 /\ WF_taskVars(Enrich) /\ SF_taskVars(runPosters) /\ SF_taskVars(runSubtitles)
FairTasksSpec == TasksSpec /\ TasksFairness

----------------------------------------------------------------------------
\* Type invariant: tasks work on slots and rows that exist, and a row of provider_artifacts names
\* a file under the name of its own slot, so that no slot can lose the file of another.
TasksTypeOK ==
  /\ settings = Stored \/ settings \in SettingsInputs
  /\ videos \subseteq Videos /\ local \subseteq Slots("subtitle")
  /\ \A p \in Videos : media[p].by \in {Nil, "user", "provider"}
  /\ \A s \in AllSlots : art[s] # NoArt => art[s].file[1] = s /\ art[s].provider \in Providers
  /\ meta.path \in Videos \cup {0} /\ meta.todo \cup meta.rest \subseteq Videos
  /\ fetch.todo \cup fetch.keep \subseteq AllSlots

\* The metadata task keeps what users wrote: a row whose edit was stored before the task last read
\* it is not changed unless the library allows it, and with fill_missing no value that a viewer
\* could see when the task read the row is replaced (skipUserEdited and fillMissingOnly, across
\* the minutes that the service takes to answer).
TaskKeepsEdits ==
  [][\A p \in Videos \ raced :
       meta.pc = "store" /\ meta'.pc # "store" /\ p = meta.path /\ media'[p].by = "provider" =>
         /\ media[p].by = "user" => meta.set.allow
         /\ meta.set.mode = "fill_missing" =>
              \A k \in EditableFieldKeys : IsSet(Effective(p)[k]) => Effective(p)'[k] = Effective(p)[k]]_taskVars

\* A poster of the configured provider can be served for every film or show, and for nothing else
\* (the rows of a kind without a provider are left as they are).
PostersRight ==
  settings.poster # Nil =>
    \A p \in Videos : IF <<p, Nil>> \in posterTargets
                     THEN providerPoster(p) /\ art[<<p, Nil>>].provider = settings.poster
                     ELSE art[<<p, Nil>>] = NoArt

\* The same for subtitles: the configured languages that a video does not have by itself.
SubtitlesRight ==
  settings.subtitle # Nil =>
    \A p \in Videos, l \in Langs :
      IF p \in videos /\ l \in settings.langs /\ <<p, l>> \notin local
      THEN providerSubtitle(p, l) ELSE l \notin providerSubtitleTracks(p)

\* The tasks repair: once files, settings and edits stay as they are and the services answer, the
\* artifacts become right and stay so, whatever was interrupted, failed or removed before.
ArtifactsSettle ==
  /\ "poster" \in uses => <>[]PostersRight
  /\ "subtitle" \in uses => <>[]SubtitlesRight
=============================================================================
