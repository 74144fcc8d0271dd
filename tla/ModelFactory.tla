---------------------------- MODULE ModelFactory ----------------------------
(***************************************************************************)
(* Which models a server loads (src/crates/server/src/engine/              *)
(* model_factory.rs and discover_or_empty of src/crates/server/src/        *)
(* lib.rs).                                                                *)
(*                                                                         *)
(* A directory is a function from names to entries, and a name is its      *)
(* place in the alphabetical order.  An entry is a record:                 *)
(*   kind      "dir", "file", or "unknown" when it cannot be examined      *)
(*   config    model_type and architectures of its config.json             *)
(*   params    model_type of its params.json                               *)
(*   onnx      it has a model.onnx                                         *)
(*   marks     the words that are looked for in its path                   *)
(*   sound     the model can be constructed from its files                 *)
(*   voices, languages   what the model then says of itself                *)
(* A file that is missing, unreadable or not of the expected shape is as   *)
(* good as one without fields.  An architecture is the words it contains,  *)
(* and all words are in lower case.                                        *)
(***************************************************************************)
EXTENDS Lists

CONSTANTS Nothing,    \* None
          Failure,    \* Err
          Missing,    \* there is no such directory
          Unreadable  \* it is none, or may not be read

\* Lowers a word's case.
CONSTANT Lower(_)

\* ModelType; Auto is Nothing.
ModelTypes == {"Qwen3TTS", "VoxtralTTS", "Qwen3ASR"}

ASSUME ModelFactoryAssumption == Nothing \notin ModelTypes

IsTts(type) == type \in {"Qwen3TTS", "VoxtralTTS"}
IsAsr(type) == type = "Qwen3ASR"

FirstOf(options) ==
  LET first == {i \in DOMAIN options :
                  options[i] # Nothing /\ \A j \in 1..(i - 1) : options[j] = Nothing}
  IN  IF first = {} THEN Nothing ELSE options[CHOOSE i \in first : TRUE]

-----------------------------------------------------------------------------
(***************************************************************************)
(* Detection                                                               *)
(***************************************************************************)
TypeOfConfig(word) ==
  CASE word \in {"qwen3_tts", "qwen3tts"} -> "Qwen3TTS"
    [] word \in {"qwen3_asr", "qwen3asr"} -> "Qwen3ASR"
    [] OTHER -> Nothing

TypeOfArchitecture(words) ==
  IF words \cap {"qwen3ttsforconditional", "qwen3_tts"} # {} THEN "Qwen3TTS"
  ELSE IF words \cap {"qwen3asrforconditional", "qwen3_asr"} # {}
    THEN "Qwen3ASR"
  ELSE Nothing

TypeOfParams(word) == IF word = "voxtral_tts" THEN "VoxtralTTS" ELSE Nothing

\* probe_model_type: the first of these that is recognised.
ProbeModelType(entry) ==
  FirstOf(<<TypeOfConfig(Lower(entry.config.model_type)),
            FirstOf([i \in DOMAIN entry.config.architectures |->
                       TypeOfArchitecture(entry.config.architectures[i])]),
            TypeOfParams(entry.params)>>)

TypeOfPath(marks) ==
  IF "voxtral" \in marks THEN "VoxtralTTS"
  ELSE IF marks \cap {"qwen3-asr", "qwen3_asr"} # {} THEN "Qwen3ASR"
  ELSE "Qwen3TTS"

DetectModelType(entry) ==
  FirstOf(<<ProbeModelType(entry), TypeOfPath(entry.marks)>>)

-----------------------------------------------------------------------------
(***************************************************************************)
(* Discovery                                                               *)
(***************************************************************************)
ScanSubdirs(dir) == {n \in DOMAIN dir : dir[n].kind = "dir"}

\* Names are their places in the alphabetical order.
Alphabetically(names) == InOrder(names)

\* discover_models and discover_asr_models, behind discover_or_empty.
Discover(dir, found) ==
  CASE dir = Missing    -> <<>>
    [] dir = Unreadable -> Failure
    [] OTHER -> Alphabetically(found)

DiscoverModels(dir) ==
  Discover(dir, {n \in ScanSubdirs(dir) : IsTts(ProbeModelType(dir[n]))})

DiscoverAsrModels(dir) ==
  Discover(dir, {n \in ScanSubdirs(dir) : IsAsr(ProbeModelType(dir[n]))})

\* discover_vad_model, behind discover_vad_or_none.
DiscoverVadModel(dir) ==
  CASE dir = Missing    -> Nothing
    [] dir = Unreadable -> Failure
    [] OTHER -> FirstOf(Alphabetically({n \in ScanSubdirs(dir) : dir[n].onnx}))

\* Mutant of ResolveRequestedModels: --model-tts only selects.
ResolveRequestedInOrder(discovered, requested) ==
  CASE requested = <<>> -> discovered
    [] ~IsInjective(requested) \/ ~(ToSet(requested) \subseteq ToSet(discovered))
         -> Failure
    [] OTHER -> SelectSeq(discovered, LAMBDA n : n \in ToSet(requested))

\* All of them, or just those that were asked for, in that order.
ResolveRequestedModels(discovered, requested) ==
  CASE requested = <<>> -> discovered
    [] ~IsInjective(requested) \/ ~(ToSet(requested) \subseteq ToSet(discovered))
         -> Failure
    [] OTHER -> requested

-----------------------------------------------------------------------------
(***************************************************************************)
(* Construction.  The type is detected again, in what the directory holds  *)
(* by now, and may then not be one that was discovered.                    *)
(***************************************************************************)
ResolveTts(entry) ==
  LET detected == DetectModelType(entry)
  IN  IF IsAsr(detected) THEN Failure ELSE detected

ResolveAsr(entry) ==
  LET detected == DetectModelType(entry)
  IN  IF IsTts(detected) THEN Failure ELSE detected

\* create_tts and create_asr after these: whether a model can be made.
Creates(resolved, entry) == resolved # Failure /\ entry.sound
=============================================================================
