------------------------------- MODULE MCWire --------------------------------
(***************************************************************************)
(* An instance of Wire for TLC: every type of event with the fewest fields *)
(* and with all of them, and the messages of other programs that differ    *)
(* from these: data in the header, null and unknown keys, wrong values,    *)
(* and each limit exceeded.                                                *)
(***************************************************************************)
EXTENDS Wire

Event(type, data, payload) ==
  [type |-> type, data |-> data, payload |-> payload]

Typed == {"audio-start", "audio-stop", "voice-started", "voice-stopped",
          "synthesize", "synthesize-start", "synthesize-chunk", "transcribe",
          "transcript", "transcript-start", "transcript-chunk", "info", "ping",
          "pong", "error"}

\* A field's value is its own name, so that no two are mixed up.
Given(fields) == [f \in fields |-> f]

MostFields(schema) == schema.required \cup schema.optional \cup schema.lists

Sensitive(word) == [vad_sensitivity |-> word]

MCEvents ==
  {Event(type, Given(SchemaOf(type).required), Nothing) : type \in Typed}
  \cup {Event(type, Given(MostFields(SchemaOf(type))), Nothing) :
          type \in Typed \ {"transcribe"}}
  \cup {Event("transcribe", Sensitive(<<"Relaxed">>), Nothing),
        Event("transcribe", Sensitive(<<"Other", "aggressive">>), Nothing)}
  \cup {Event("audio-chunk", Given(AudioChunkFields.required), n) : n \in 0..3}
  \cup {Event(type, EmptyObject, Nothing) : type \in Bare}
  \cup {Event("custom", data, payload) :
          data \in {Null, EmptyObject, Given({"text"})},
          payload \in {Nothing, 0, 1}}

Other(type, header, inline, external, payload) ==
  [event |-> Nothing, type |-> type, header |-> header, inline |-> inline,
   data |-> external, payload |-> payload]

Data == {Nothing, EmptyObject, [text |-> "text"], [text |-> Null],
         [text |-> Misfit], [more |-> "more"]}

MCForeign ==
  {Other(type, 1, inline, external, Nothing) :
     type \in {"ping", "synthesize", "custom"},
     inline \in Data \cup {Misfit}, external \in Data \cup {Misfit}}
  \cup {Other("info", 1, [tts |-> value], Nothing, Nothing) :
          value \in {"tts", EmptyList, Null, Misfit}}
  \cup {Other("audio-chunk", 1, Nothing, Given(AudioChunkFields.required), n) :
          n \in {Nothing, 3}}
  \cup {Other("ping", 1, [text |-> "text"], Nothing, n) : n \in 0..1}
  \cup {Other("ping", n, Nothing, [text |-> "text"], Nothing) : n \in {2, 3, 6}}
  \cup {Other("ping", n, Nothing, Nothing, Nothing) : n \in {2, 3}}
  \cup {Other("custom", 1, Nothing, Given(keys), Nothing) :
          keys \in {{"a", "b"}, {"a", "b", "c"}}}
  \cup {Other(Misfit, 1, Nothing, Nothing, Nothing)}
  \cup {Other("describe", 1, Nothing, [text |-> Misfit], Nothing)}

MCSize(object) ==
  IF object = Given({"a", "b", "c"}) THEN 3
    ELSE IF DOMAIN object \in {{}, {"text"}} THEN 1 ELSE 2

MCFollowers ==
  {MessageOf(Event("audio-chunk", Given(AudioChunkFields.required), 2)),
   MessageOf(Event("describe", EmptyObject, Nothing)),
   Other("ping", 1, [text |-> "text"], Nothing, 1)}
=============================================================================
