------------------------------ MODULE MCServer ------------------------------
(***************************************************************************)
(* Server for model checking: every scene shows one side of it, with no    *)
(* more clients, starts and signals than that side takes.                  *)
(***************************************************************************)
EXTENDS Server

CONSTANTS c1, c2, c3

MCLower(word) ==
  CASE word = "DE" -> "de" [] word = "Qwen3_TTS" -> "qwen3_tts" [] OTHER -> word

Entry(kind, model_type, architectures, params) ==
  [kind |-> kind, params |-> params, onnx |-> FALSE, marks |-> {},
   sound |-> TRUE, voices |-> <<>>, languages |-> <<>>,
   config |-> [model_type |-> model_type, architectures |-> architectures]]

Voice(name, languages) == [name |-> name, languages |-> languages]

\* Two models share the voice anna, and all three speak German.
Anna == Voice("anna", <<<<"de", "DE">>>>)
Ben  == Voice("ben", <<<<"en">>, <<"DE">>>>)
Carl == Voice("carl", <<<<"fr", "CA">>, <<"de">>>>)
Dora == Voice("dora", <<<<"fr">>>>)

Speaker(voices) ==
  [Entry("dir", "Qwen3_TTS", <<>>, Nothing) EXCEPT !.voices = voices]

Voxtral == [Entry("dir", Nothing, <<>>, "voxtral_tts")
              EXCEPT !.voices = <<Dora, Anna>>, !.marks = {"voxtral"}]

Transcriber(languages) ==
  [Entry("dir", Nothing, <<{"qwen2"}, {"qwen3asrforconditional"}>>, Nothing)
     EXCEPT !.languages = languages]

Silero == [Entry("dir", Nothing, <<>>, Nothing) EXCEPT !.onnx = TRUE]

Speakers ==
  1 :> Speaker(<<Anna, Ben>>) @@ 2 :> Entry("file", "qwen3_tts", <<>>, Nothing)
  @@ 3 :> Voxtral @@ 4 :> Transcriber(<<<<"de">>>>)
  @@ 5 :> Speaker(<<Carl, Anna>>) @@ 6 :> Entry("dir", "bert", <<>>, Nothing)

Transcribers ==
  1 :> Transcriber(<<<<"en">>>>) @@ 2 :> Transcriber(<<<<"DE">>, <<"en">>>>)
  @@ 3 :> Speaker(<<Anna>>)

Disk(ttsdir, asrdir, vaddir) ==
  [path |-> "dir", tts |-> ttsdir, asr |-> asrdir, vad |-> vaddir]

Full == Disk(Speakers, Transcribers, 1 :> Speaker(<<>>) @@ 2 :> Silero)

\* Its second transcriber is now a speaker, its first speaker has lost what
\* told its type, and the last cannot be constructed.
Changed ==
  [Full EXCEPT !.tts[1].config.model_type = Nothing,
               !.tts[5].sound = FALSE, !.asr[2] = Speaker(<<Anna>>)]

Args(ttsmodels, asrmodels, max) ==
  [list_models |-> FALSE, model_tts |-> ttsmodels, model_asr |-> asrmodels,
   no_vad_filter |-> FALSE, gpu |-> FALSE, max_connections |-> max]

Scene(arguments, where, before, after) ==
  [args |-> arguments, target |-> where, disk |-> before, later |-> after,
   clients |-> {}, stuck |-> {}, starts |-> 1, signals |-> 0]

Plain == Args(<<>>, <<>>, 1)

\* What is found, asked for and loaded; nobody connects.
LoadingScenes ==
  {Scene(Args(t, a, 1), "tcp", d, e) :
     t \in {<<>>, <<5, 1>>, <<3>>, <<1, 1>>, <<4>>}, a \in {<<>>, <<2, 1>>, <<3>>},
     d \in {Full}, e \in {Full, Changed}}
  \cup {Scene(Plain, "bad", Full, Full),
        Scene([Plain EXCEPT !.list_models = TRUE], "tcp", Full, Full),
        Scene([Plain EXCEPT !.no_vad_filter = TRUE], "tcp", Full, Full)}
  \cup {Scene(Plain, "tcp", d, d) :
          d \in {[Full EXCEPT !.path = "file"], Disk(Missing, Missing, Missing),
                 Disk(Missing, Transcribers, Missing),
                 Disk(Speakers, Missing, Unreadable),
                 Disk(Unreadable, Transcribers, Missing)}}

One == Disk(1 :> Speaker(<<Anna>>), Missing, Missing)

\* The path of the socket over kills and restarts.
SocketScenes ==
  {[Scene(Plain, t, One, One) EXCEPT
      !.starts = 2, !.signals = 1, !.clients = {c1}] : t \in {"unix", "systemd"}}

\* More clients than permits; one of them is stuck.
Busy ==
  [Scene(Args(<<>>, <<>>, 2), "tcp", One, One) EXCEPT
     !.clients = {c1, c2, c3}, !.stuck = {c1}, !.signals = 1]

\* Two clients are transcribed at once.
Listening ==
  [Scene(Args(<<>>, <<>>, 2), "tcp",
         Disk(Missing, 1 :> Transcriber(<<<<"de">>>>), 1 :> Silero),
         Disk(Missing, 1 :> Transcriber(<<<<"de">>>>), 1 :> Silero))
     EXCEPT !.clients = {c1, c2}, !.signals = 1]

MCScenes == LoadingScenes \cup SocketScenes \cup {Busy, Listening}

\* One permit, and a client that keeps it.
FullScenes == {[Busy EXCEPT !.args.max_connections = 1]}
=============================================================================
