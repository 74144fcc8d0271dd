---------------------------- MODULE WyomingEvents ----------------------------
(***************************************************************************)
(* The events of the protocol and their JSON form                          *)
(* (src/crates/wyoming-protocol/src/event.rs).                             *)
(*                                                                         *)
(* A JSON object is a function from its keys to values, and of a value all *)
(* that matters is whether it suits the field it is given to.  Each struct *)
(* of event.rs is a schema: new takes the required fields, every with_*    *)
(* sets an optional one, and an optional field that is None, or a list     *)
(* that is empty, is left out of the JSON.                                 *)
(***************************************************************************)
EXTENDS Naturals, Sequences

CONSTANTS Nothing,    \* None
          Null,       \* JSON's null
          Misfit,     \* a value of a kind the field does not take
          EmptyList   \* []

NoFields == [required |-> {}, optional |-> {}, lists |-> {}]
Required(fields, maybe) ==
  [NoFields EXCEPT !.required = fields, !.optional = maybe]

FormatFields          == Required({"rate", "width", "channels"}, {"timestamp"})
AudioStartFields      == FormatFields
AudioChunkFields      == FormatFields
AudioStopFields       == Required({}, {"timestamp"})
VoiceStartedFields    == Required({}, {"timestamp"})
VoiceStoppedFields    == Required({}, {"timestamp"})
SynthesizeFields      == Required({"text"}, {"voice"})
SynthesizeStartFields == Required({}, {"language", "voice"})
SynthesizeChunkFields == Required({"text"}, {})
TranscribeFields      == Required({}, {"name", "language", "vad_sensitivity"})
TranscriptFields      == Required({"text"}, {"language"})
TranscriptStartFields == Required({}, {"language"})
TranscriptChunkFields == Required({"text"}, {})
PingFields            == Required({}, {"text"})
PongFields            == Required({}, {"text"})
ErrorFields           == Required({"text"}, {"code"})
InfoFields            == [NoFields EXCEPT !.lists = {"tts", "asr", "wake"}]

\* Types whose data is neither written nor looked at.
Bare == {"synthesize-stop", "synthesize-stopped", "transcript-stop", "describe"}

Unknown(type) == type \notin Bare \cup
  {"audio-start", "audio-chunk", "audio-stop", "voice-started",
   "voice-stopped", "synthesize", "synthesize-start", "synthesize-chunk",
   "transcribe", "transcript", "transcript-start", "transcript-chunk",
   "info", "ping", "pong", "error"}

SchemaOf(type) ==
  CASE type = "audio-start"      -> AudioStartFields
    [] type = "audio-chunk"      -> AudioChunkFields
    [] type = "audio-stop"       -> AudioStopFields
    [] type = "voice-started"    -> VoiceStartedFields
    [] type = "voice-stopped"    -> VoiceStoppedFields
    [] type = "synthesize"       -> SynthesizeFields
    [] type = "synthesize-start" -> SynthesizeStartFields
    [] type = "synthesize-chunk" -> SynthesizeChunkFields
    [] type = "transcribe"       -> TranscribeFields
    [] type = "transcript"       -> TranscriptFields
    [] type = "transcript-start" -> TranscriptStartFields
    [] type = "transcript-chunk" -> TranscriptChunkFields
    [] type = "info"             -> InfoFields
    [] type = "ping"             -> PingFields
    [] type = "pong"             -> PongFields
    [] type = "error"            -> ErrorFields
    [] type \in Bare             -> NoFields

-----------------------------------------------------------------------------
(***************************************************************************)
(* The structs and their JSON.                                             *)
(***************************************************************************)
EmptyObject == <<>>

\* VadSensitivity: three values are named, any other text is kept as Other.
FromWireStr(text) ==
  CASE text = "default"    -> <<"Default">>
    [] text = "relaxed"    -> <<"Relaxed">>
    [] text = "aggressive" -> <<"Aggressive">>
    [] OTHER               -> <<"Other", text>>

AsWireStr(sensitivity) ==
  CASE sensitivity = <<"Default">>    -> "default"
    [] sensitivity = <<"Relaxed">>    -> "relaxed"
    [] sensitivity = <<"Aggressive">> -> "aggressive"
    [] OTHER                          -> sensitivity[2]

Fits(value) == value \notin {Misfit, Null, EmptyList}

\* A required field is there, an optional one may be null or missing, a list
\* may be missing only.
Accepts(schema, object) ==
  /\ \A f \in schema.required : f \in DOMAIN object /\ Fits(object[f])
  /\ \A f \in schema.optional \cap DOMAIN object :
       Fits(object[f]) \/ object[f] = Null
  /\ \A f \in schema.lists \cap DOMAIN object : object[f] \notin {Misfit, Null}

\* from_json_value; keys that are no fields are dropped.
FromJson(schema, object) ==
  LET fields == schema.required \cup schema.optional \cup schema.lists
      held == {f \in fields \cap DOMAIN object :
                 object[f] \notin {Null, EmptyList}}
  IN  [f \in held |-> IF f = "vad_sensitivity" THEN FromWireStr(object[f])
                                               ELSE object[f]]

\* to_json_vec
ToJson(data) ==
  [f \in DOMAIN data |-> IF f = "vad_sensitivity" THEN AsWireStr(data[f])
                                                  ELSE data[f]]

-----------------------------------------------------------------------------
(***************************************************************************)
(* The two halves of an event on the wire.                                 *)
(***************************************************************************)
SerializeData(event) ==
  IF event.type \in Bare \/ event.data \in {Null, EmptyObject}
    THEN Nothing
    ELSE IF Unknown(event.type) THEN event.data ELSE ToJson(event.data)

Payload(event) ==
  IF event.type = "audio-chunk" \/ Unknown(event.type) THEN event.payload
                                                       ELSE Nothing

NullAsObject(data) == IF data = Null THEN EmptyObject ELSE data

\* from_wire gives an event and not InvalidEventData.
IsEvent(type, data) ==
  Unknown(type) \/ type \in Bare \/ Accepts(SchemaOf(type), NullAsObject(data))

FromWire(type, data, payload) ==
  [type    |-> type,
   data    |-> IF Unknown(type) THEN NullAsObject(data)
                 ELSE FromJson(SchemaOf(type), NullAsObject(data)),
   payload |-> IF Unknown(type) THEN payload
                 ELSE IF type # "audio-chunk" THEN Nothing
                 ELSE IF payload = Nothing THEN <<>> ELSE payload]
=============================================================================
