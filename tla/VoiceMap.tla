------------------------------ MODULE VoiceMap ------------------------------
(***************************************************************************)
(* Which model a request goes to, and what a client is told of the models  *)
(* (VoiceMap, AsrModelMap, resolve_voice, resolve_asr_model and build_info *)
(* of src/crates/server/src/handler.rs).                                   *)
(*                                                                         *)
(* `tts' and `asr' are the registered models of the runtime: functions     *)
(* from names to what a model said of itself when it was registered        *)
(* (voices, each with a name and languages; languages).  A language tag is *)
(* the sequence of its subtags.  Names and words are those of              *)
(* ModelFactory.                                                           *)
(***************************************************************************)
EXTENDS ModelFactory

\* Mutant of BaseLanguageSubtag: the case of a tag matters.
BaseAsWritten(tag) == tag[1]

BaseLanguageSubtag(tag) == Lower(tag[1])

\* The models that the runtime has.
Known(names, handles) ==
  Picked(names, {i \in DOMAIN names : names[i] \in DOMAIN handles})

\* entry(key).or_insert(value), for all that `more' holds.
Claim(table, more) ==
  [key \in DOMAIN table \cup DOMAIN more |->
     IF key \in DOMAIN table THEN table[key] ELSE more[key]]

\* One table after the other.
Claims(tables) == FoldLeft(Claim, <<>>, tables)

Lookup(table, key) == IF key \in DOMAIN table THEN table[key] ELSE Nothing

-----------------------------------------------------------------------------
BaseSubtags(languages) ==
  {BaseLanguageSubtag(languages[l]) : l \in DOMAIN languages}

\* What the voices of a model claim for it: their names, ...
ByName(model, voices) ==
  [name \in {voices[v].name : v \in DOMAIN voices} |-> model]

\* ... and their languages, one voice after the other.
ByLanguage(model, voices) ==
  Claims([v \in DOMAIN voices |->
            [base \in BaseSubtags(voices[v].languages) |->
               <<model, voices[v].name>>]])

\* VoiceMap::new
NewVoiceMap(model_names, tts, default_name) ==
  LET found == Known(model_names, tts)
  IN  [map |-> Claims([i \in DOMAIN found |->
                         ByName(found[i], tts[found[i]].voices)]),
       by_language |-> Claims([i \in DOMAIN found |->
                         ByLanguage(found[i], tts[found[i]].voices)]),
       model_names   |-> ToSet(found),
       default_model |-> default_name]

\* AsrModelMap::new
NewAsrModelMap(model_names, asr, default_name) ==
  LET found == Known(model_names, asr)
  IN  [by_language |-> Claims([i \in DOMAIN found |->
                         [base \in BaseSubtags(asr[found[i]].languages) |->
                            found[i]]]),
       model_names   |-> ToSet(found),
       default_model |-> default_name]

ModelForVoice(voice_map, name) == Lookup(voice_map.map, name)

ModelForLanguage(some_map, tag) ==
  Lookup(some_map.by_language, BaseLanguageSubtag(tag))

-----------------------------------------------------------------------------
Found(model, voice) == [found |-> TRUE, model |-> model, voice |-> voice]
NotFound == [found |-> FALSE, why |-> "unknown name"]
NoModel  == [found |-> FALSE, why |-> "no model"]

DefaultOf(some_map) ==
  IF some_map.default_model = Nothing THEN NoModel
  ELSE Found(some_map.default_model, Nothing)

\* A name decides alone; a language that no voice has does not.
ResolveVoice(voice_map, name, language) ==
  LET by_name     == ModelForVoice(voice_map, name)
      by_language == IF language = Nothing THEN Nothing
                     ELSE ModelForLanguage(voice_map, language)
  IN  CASE name # Nothing /\ by_name = Nothing -> NotFound
        [] name # Nothing /\ by_name # Nothing -> Found(by_name, name)
        [] name = Nothing /\ by_language # Nothing
             -> Found(by_language[1], by_language[2])
        [] OTHER -> DefaultOf(voice_map)

ResolveAsrModel(asr_map, name, language) ==
  LET by_language == IF language = Nothing THEN Nothing
                     ELSE ModelForLanguage(asr_map, language)
  IN  CASE name # Nothing /\ name \notin asr_map.model_names -> NotFound
        [] name # Nothing /\ name \in asr_map.model_names
             -> Found(name, Nothing)
        [] name = Nothing /\ by_language # Nothing
             -> Found(by_language, Nothing)
        [] OTHER -> DefaultOf(asr_map)

-----------------------------------------------------------------------------
\* Mutant of Advertised: every program lists all the voices of its model.
AdvertisedTwice(model, voices, voice_map) == voices

\* Those voices of a model that no earlier one has claimed.
Advertised(model, voices, voice_map) ==
  Picked(voices, {v \in DOMAIN voices :
                    ModelForVoice(voice_map, voices[v].name) = model})

\* build_info; HashMap iteration is made alphabetical.
BuildInfo(tts, asr, voice_map, asr_map, streaming, has_vad) ==
  LET speakers  == Alphabetically(DOMAIN tts \cap voice_map.model_names)
      listeners == Alphabetically(DOMAIN asr \cap asr_map.model_names)
  IN  [tts |-> [i \in DOMAIN speakers |->
                 [name   |-> speakers[i],
                  voices |-> Advertised(speakers[i], tts[speakers[i]].voices,
                                        voice_map),
                  supports_synthesize_streaming |-> streaming]],
       asr |-> [i \in DOMAIN listeners |->
                 [name      |-> listeners[i],
                  languages |-> asr[listeners[i]].languages,
                  supports_transcript_streaming |-> streaming,
                  requires_external_vad         |-> ~has_vad]]]
=============================================================================
