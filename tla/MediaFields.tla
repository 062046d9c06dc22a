---------------------------- MODULE MediaFields ----------------------------
(***************************************************************************)
(* The metadata of one video: internal/metadata/merge.go, fields.go,       *)
(* catalog_denorm.go, provider_apply.go, ffmpeg.go (the tags) and the      *)
(* provider's choice of fields in internal/provider/fields.go.             *)
(*                                                                         *)
(* VideoFields is a function from keys to values; Nil is a nil pointer.    *)
(* What the path of a file says (naming.go) is a VideoFields too.          *)
(***************************************************************************)
EXTENDS Naturals, Sequences

CONSTANTS
  Keys,         \* the fields of VideoFields that are modelled
  Numerals,     \* the values that are numbers
  Basename      \* the display name taken from the file name

Nil == "nil"
Blank == " "    \* a value that strings.TrimSpace leaves empty

NoFields == [k \in Keys |-> Nil]

IntKeys == {"season", "episode", "year"}
ListKeys == {"genres"}

\* EditableFieldKeys; the other keys come from ffprobe and from the hashes only.
EditableFieldKeys == Keys \ {"ed2k_hash", "video_codec"}
IsEditableField(k) == k \in EditableFieldKeys

Field(f, k) == IF k \in Keys THEN f[k] ELSE Nil
IsSet(v) == v \notin {Nil, Blank}
FirstSet(s) == IF \E i \in DOMAIN s : IsSet(s[i])
               THEN s[CHOOSE i \in DOMAIN s : IsSet(s[i]) /\ \A j \in 1..(i - 1) : ~IsSet(s[j])]
               ELSE Nil

----------------------------------------------------------------------------
(* What a reader sees: the override over the original, then the path       *)

UsesMetadataForDisplay(type) == type \in {"film", "series"}

applyOverride(target, override) ==
  [k \in Keys |-> IF override[k] # Nil THEN override[k] ELSE target[k]]

\* A film fills what is missing; of a series the path wins for season and episode.
applyPathHeuristics(f, type, identity) ==
  [k \in Keys |->
     CASE type = "film" /\ k \in {"title", "year"} /\ f[k] = Nil -> identity[k]
       [] type = "series" /\ k = "show" /\ f[k] = Nil -> identity[k]
       [] type = "series" /\ k \in {"season", "episode", "episode_title"} /\ identity[k] # Nil
            -> identity[k]
       [] OTHER -> f[k]]

EffectiveFields(type, identity, original, override) ==
  LET f == applyOverride(original, override)
  IN IF UsesMetadataForDisplay(type) THEN applyPathHeuristics(f, type, identity) ELSE f

\* The label, as the parts that are joined; season and episode are one after the other.
DisplayName(type, identity, original, override) ==
  LET e == EffectiveFields(type, identity, original, override)
      title == FirstSet(<<Field(e, "title"), Field(e, "original_title")>>)
      number == IF Nil \in {Field(e, "season"), Field(e, "episode")} THEN <<>>
                ELSE <<Field(e, "season"), Field(e, "episode")>>
      parts == SelectSeq(<<Field(e, "show")>>, IsSet) \o number
               \o SelectSeq(<<Field(e, "episode_title")>>, IsSet)
  IN CASE type = "film" /\ title # Nil -> <<title>>
       [] type = "series" /\ parts # <<>> -> parts
       [] OTHER -> <<Basename>>

\* The columns the catalog queries read
CatalogDenormFrom(type, identity, original, override) ==
  LET e == EffectiveFields(type, identity, original, override)
      title == FirstSet(<<Field(e, "title"), Field(e, "original_title"), Field(identity, "title"),
                          Basename>>)
      show == FirstSet(<<Field(e, "show"), Field(identity, "show")>>)
      number(k) == IF show # Nil /\ Field(e, k) = Nil THEN "0" ELSE Field(e, k)
      none == [showKey |-> Nil, season |-> Nil, episode |-> Nil, sortTitle |-> Basename,
               year |-> Nil, episodeTitle |-> Nil,
               display |-> DisplayName(type, identity, original, override)]
  IN CASE type = "film" -> [none EXCEPT !.sortTitle = title, !.year = Field(e, "year")]
       [] type = "series" -> [none EXCEPT !.showKey = show, !.season = number("season"),
                                !.episode = number("episode"),
                                !.sortTitle = FirstSet(<<show, Basename>>),
                                !.episodeTitle = Field(e, "episode_title")]
       [] OTHER -> none

\* The words a search finds a file by
BuildSearchDocument(identity, original, override) ==
  {Basename} \cup ({f[k] : f \in {identity, original, override},
                           k \in Keys \ (IntKeys \cup {"ed2k_hash", "video_codec"})} \ {Nil, Blank})

----------------------------------------------------------------------------
(* Patches: a JSON value has a type and a content                          *)

JSON(t, v) == [t |-> t, v |-> v]
Null == JSON("null", Nil)

asString(raw) == IF raw.t \in {"string", "number"} THEN <<raw.v>> ELSE <<>>
asInt(raw) == IF raw.t = "number" \/ (raw.t = "string" /\ raw.v \in Numerals) THEN <<raw.v>> ELSE <<>>
asStringSlice(raw) == IF raw.t \in {"list", "string"} THEN <<raw.v>> ELSE <<>>

\* The value that is assigned, or <<>> for ErrInvalidPatchValue
setField(k, raw) ==
  CASE k \in IntKeys -> asInt(raw)
    [] k \in ListKeys -> asStringSlice(raw)
    [] OTHER -> asString(raw)

\* Every key is editable and every value has the type of its field.
ValidPatch(patch) ==
  \A k \in DOMAIN patch : IsEditableField(k) /\ (patch[k] = Null \/ setField(k, patch[k]) # <<>>)

\* clearField, for each of a set of keys
clearField(f, cleared) == [k \in Keys |-> IF k \in cleared THEN Nil ELSE f[k]]

ApplyPatchFields(current, patch) ==
  LET nulls == {k \in DOMAIN patch : patch[k] = Null}
      kept == clearField(current, nulls)
  IN [k \in Keys |-> IF k \in DOMAIN patch \ nulls THEN Head(setField(k, patch[k])) ELSE kept[k]]

ClearOverrideKeys(override, patch) ==
  clearField(override, {k \in DOMAIN patch : IsEditableField(k) /\ patch[k] # Null})

\* The container tags a patch writes: there is none for the ids of TVDB and TVmaze.
fileTagUpdates(patch) == DOMAIN patch \ {"tvdb_id", "tvmaze_id"}

----------------------------------------------------------------------------
(* Fields of a provider                                                    *)

\* putProviderString and the numbers: what is blank is not written.
providerPatchFields(fields) ==
  [k \in {k \in Keys : IsSet(fields[k])} |->
     JSON(IF k \in IntKeys THEN "number" ELSE IF k \in ListKeys THEN "list" ELSE "string", fields[k])]

\* clearFilledStrings, clearFilledIDs and clearFilledNumbers
fillMissingOnly(fields, effective) ==
  [k \in Keys |->
     IF (IF k \in IntKeys THEN effective[k] # Nil ELSE IsSet(effective[k])) THEN Nil ELSE fields[k]]

providerFieldsEmpty(fields) == \A k \in Keys : ~IsSet(fields[k])

\* The title to search for; a display name is never empty.
effectiveTitle(type, identity, original, override) ==
  LET title == Field(EffectiveFields(type, identity, original, override), "title")
  IN IF IsSet(title) THEN <<title>> ELSE DisplayName(type, identity, original, override)

----------------------------------------------------------------------------
(* Identity hashes, computed once for a row and then kept                  *)

attachIdentityHashes(fields, existing, hash) ==
  IF "ed2k_hash" \notin Keys THEN fields
  ELSE [fields EXCEPT !["ed2k_hash"] = IF IsSet(existing["ed2k_hash"]) THEN existing["ed2k_hash"]
                                      ELSE hash]

IdentityHashesIncomplete(fields) == "ed2k_hash" \in Keys /\ ~IsSet(fields["ed2k_hash"])

=============================================================================
