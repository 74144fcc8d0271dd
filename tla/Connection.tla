----------------------------- MODULE Connection -----------------------------
(***************************************************************************)
(* One client connection: handle_connection's event loop and the handlers  *)
(* it calls (src/crates/server/src/handler.rs).  A handler is a coroutine: *)
(* it stops at every read of the client, every write to it and every       *)
(* answer of a model, so `phase' says where it stands.                     *)
(*                                                                         *)
(* A write is a step per event.  `todo' holds the events the handler is    *)
(* about to write and `after' the phase it goes on to; every write         *)
(* propagates its error to the loop, which ends.  The model's answer is    *)
(* whatever ModelThread allows a caller to receive.                        *)
(***************************************************************************)
EXTENDS Naturals, Sequences, WyomingReplies

CONSTANTS
  MaxPieces,    \* bound: pieces a model's answer has at most
  MaxAudio,     \* MAX_TRANSCRIBE_AUDIO_BYTES, in units of one chunk
  ChunkSizes    \* sizes of the audio-chunks a client sends, in those units

ASSUME ConnectionAssumption ==
  /\ MaxPieces \in Nat /\ MaxAudio \in Nat
  /\ ChunkSizes \subseteq Nat

VARIABLES
  server,     \* what the server was started with; it stays so
  phase,      \* where the handler stands
  request,    \* the request it serves, or the last one it served
  todo,       \* events it is about to write
  timed,      \* they are written with write_event_timeout
  after,      \* the phase to go on to when they are written
  stalled,    \* the client does not read
  reply,      \* events written since the request was read
  textRefused, \* its text was ended by an event that does not belong in it
  collected,  \* pcm_bytes.len()
  pieces,     \* pieces received from the model
  rxHeld,     \* the handler owns the receiver of a bounded chunk channel
  lastRead,   \* how the last read ended: with an "event", "eof", or with
              \* IDLE_TIMEOUT, "idle" between events or "cut" inside one
  torn        \* a write was given up or failed inside an event

readVars  == <<textRefused, collected, lastRead>>
writeVars == <<todo, timed, after>>
modelVars == <<pieces, rxHeld>>
vars == <<server, phase, request, todo, timed, after, stalled, reply,
          textRefused, collected, pieces, rxHeld, lastRead, torn>>

Streaming  == server.streaming   \* runtime.streaming_enabled()
TtsLoaded  == server.tts         \* voice_map has a default model
AsrLoaded  == server.asr         \* asr_map has a default model
VadApplies == server.vad         \* vad_decision is Apply

\* run refuses to start without any model.
Servers ==
  {s \in [{"streaming", "tts", "asr", "vad"} -> BOOLEAN] : s.tts \/ s.asr}

Collecting == {"text", "audioStart", "audio"}
Awaiting   ==
  {"vad", "whole", "first", "more", "transcript", "firstText", "moreText"}
Phases == {"main", "closed", "return", "write"} \cup Collecting \cup Awaiting

TypeOK ==
  /\ server \in Servers
  /\ phase \in Phases /\ after \in Phases
  /\ request \in RequestKinds
  /\ todo \in Seq(Replies) /\ reply \in Seq(Replies)
  /\ {timed, stalled, textRefused, rxHeld, torn} \subseteq BOOLEAN
  /\ collected \in 0..MaxAudio /\ pieces \in 0..MaxPieces
  /\ lastRead \in {"event", "eof", "idle", "cut"}
  /\ phase = "write" <=> todo # <<>>

Init ==
  /\ server \in Servers
  /\ phase = "main" /\ request = "other"
  /\ todo = <<>> /\ timed = FALSE /\ after = "main"
  /\ stalled = FALSE /\ reply = <<>>
  /\ textRefused = FALSE /\ collected = 0 /\ lastRead = "event"
  /\ pieces = 0 /\ rxHeld = FALSE /\ torn = FALSE

-----------------------------------------------------------------------------
(***************************************************************************)
(* Writing.                                                                *)
(***************************************************************************)
\* Mutant of Say: write_event_timeout is not used.
SayUntimed(events, withTimeout, next) ==
  /\ phase' = "write"
  /\ todo' = events /\ timed' = FALSE /\ after' = next

\* The handler's part of a step that ends in writes.
Say(events, withTimeout, next) ==
  /\ phase' = "write"
  /\ todo' = events /\ timed' = withTimeout /\ after' = next

Go(next) == phase' = next /\ UNCHANGED writeVars

\* send_error, then the handler returns Ok(()).
Refuse == Say(<<"error">>, FALSE, "return")

\* write_event: the event is written and flushed.
WriteEvent ==
  /\ phase = "write" /\ ~stalled
  /\ reply' = Append(reply, Head(todo))
  /\ todo' = Tail(todo)
  /\ phase' = IF Len(todo) = 1 THEN after ELSE "write"
  /\ UNCHANGED <<server, request, timed, after, stalled, readVars, modelVars,
                 torn>>

\* Mutant of WriteFails: the handler goes on after a failed write.
WriteErrorIgnored ==
  /\ phase = "write"
  /\ todo' = Tail(todo) /\ phase' = IF Len(todo) = 1 THEN after ELSE "write"
  /\ torn' = TRUE
  /\ UNCHANGED <<server, request, timed, after, stalled, reply, readVars,
                 modelVars>>

\* The handlers return the error and with it the loop: the receiver of the
\* model's chunks is dropped and the stream is closed.
WriteFails ==
  /\ phase = "write"
  /\ phase' = "closed" /\ todo' = <<>>
  /\ torn' = TRUE /\ rxHeld' = FALSE
  /\ UNCHANGED <<server, request, timed, after, stalled, reply, readVars,
                 pieces>>

\* The client stops reading, or reads again.
Stall ==
  /\ phase = "write"
  /\ stalled' = ~stalled
  /\ UNCHANGED <<server, phase, request, writeVars, reply, readVars,
                 modelVars, torn>>

(***************************************************************************)
(* The main loop.                                                          *)
(***************************************************************************)
Speak == IF Streaming THEN "first" ELSE "whole"
Listen == IF Streaming THEN "firstText" ELSE "transcript"

\* resolve_voice: a voice the map does not know is refused, no voice and no
\* model too; a dispatch on the streaming path opens the chunk channel.
Synthesize ==
  \/ Refuse /\ UNCHANGED rxHeld
  \/ TtsLoaded /\ Go(Speak) /\ rxHeld' = Streaming

Dispatch(kind) ==
  \/ kind = "synthesize" /\ Synthesize
  \/ kind = "synthesize-start" /\ Go("text") /\ UNCHANGED rxHeld
  \/ /\ kind = "transcribe" /\ UNCHANGED rxHeld
     /\ Refuse \/ (AsrLoaded /\ Go("audioStart"))
  \/ kind = "ping" /\ Say(<<"pong">>, FALSE, "main") /\ UNCHANGED rxHeld
  \/ kind = "describe" /\ Say(<<"info">>, FALSE, "main") /\ UNCHANGED rxHeld
  \/ kind = "unknown" /\ Say(<<"error">>, FALSE, "main") /\ UNCHANGED rxHeld
  \/ kind = "other" /\ Go("main") /\ UNCHANGED rxHeld

ReadRequest(kind) ==
  /\ phase = "main" /\ lastRead # "eof"
  /\ request' = kind /\ lastRead' = "event"
  /\ reply' = <<>> /\ textRefused' = FALSE /\ collected' = 0 /\ pieces' = 0
  /\ Dispatch(kind)
  /\ UNCHANGED <<server, stalled, torn>>

\* EOF, a read error, or IDLE_TIMEOUT, which may cut an event in two.
MainEnds ==
  /\ phase = "main"
  /\ lastRead' \in {"eof", "idle", "cut"}
  /\ Go("closed")
  /\ UNCHANGED <<server, request, stalled, reply, textRefused, collected,
                 modelVars, torn>>

(***************************************************************************)
(* Collecting the events of one exchange.                                  *)
(***************************************************************************)
\* synthesize-chunk, or the one-shot synthesize that older servers need, is
\* taken in; synthesize-stop ends the text.
CollectText ==
  /\ phase = "text"
  /\ \/ Go("text") /\ UNCHANGED rxHeld
     \/ Synthesize
  /\ UNCHANGED <<server, request, stalled, reply, readVars, pieces, torn>>

\* Anything else is an error, and the exchange is over: back to the loop,
\* without synthesize-stopped, and the rest of the text reaches the loop.
TextUnexpected ==
  /\ phase = "text"
  /\ textRefused' = TRUE
  /\ Say(<<"error">>, FALSE, "main")
  /\ UNCHANGED <<server, request, stalled, reply, collected, lastRead,
                 modelVars, torn>>

CollectAudioStart ==
  /\ phase = "audioStart"
  /\ Go("audio")
  /\ UNCHANGED <<server, request, stalled, reply, readVars, modelVars, torn>>

\* Mutant of CollectAudioChunk: the limit is compared before the chunk is added.
CollectAudioChunkCheckedLate ==
  /\ phase = "audio" /\ collected <= MaxAudio
  /\ \E size \in ChunkSizes : collected' = collected + size
  /\ Go("audio")
  /\ UNCHANGED <<server, request, stalled, reply, textRefused, lastRead,
                 modelVars, torn>>

CollectAudioChunk ==
  /\ phase = "audio"
  /\ \E size \in ChunkSizes :
       /\ collected + size <= MaxAudio
       /\ collected' = collected + size
  /\ Go("audio")
  /\ UNCHANGED <<server, request, stalled, reply, textRefused, lastRead,
                 modelVars, torn>>

CollectAudioStop ==
  /\ phase = "audio"
  /\ IF VadApplies
       THEN Go("vad") /\ UNCHANGED rxHeld
       ELSE Go(Listen) /\ rxHeld' = Streaming
  /\ UNCHANGED <<server, request, stalled, reply, readVars, pieces, torn>>

\* An unexpected event, a format the model does not take, or too much audio.
AudioRefused ==
  /\ phase \in {"audioStart", "audio"}
  /\ Refuse
  /\ UNCHANGED <<server, request, stalled, reply, readVars, modelVars, torn>>

\* read_event_or_idle: a read error ends the loop; EOF and IDLE_TIMEOUT make
\* the handler return Ok(()), and the loop reads on.
CollectEnds ==
  /\ phase \in Collecting
  /\ \/ Go("closed") /\ UNCHANGED lastRead
     \/ Go("main") /\ lastRead' \in {"eof", "idle", "cut"}
  /\ UNCHANGED <<server, request, stalled, reply, textRefused, collected,
                 modelVars, torn>>

(***************************************************************************)
(* Answering.                                                              *)
(***************************************************************************)
FilterAudio ==
  /\ phase = "vad"
  /\ \/ Go(Listen) /\ rxHeld' = Streaming
     \/ Refuse /\ UNCHANGED rxHeld
  /\ UNCHANGED <<server, request, stalled, reply, readVars, pieces, torn>>

\* handle_synthesize_blob: a waveform, one that does not encode, or an error.
AnswerWhole ==
  /\ phase = "whole"
  /\ \/ Say(<<"audio-start", "audio-chunk", "audio-stop">>, FALSE, "return")
     \/ Say(<<"audio-start", "audio-stop", "error">>, FALSE, "return")
     \/ Refuse
  /\ UNCHANGED <<server, request, stalled, reply, readVars, modelVars, torn>>

\* handle_synthesize_streaming, up to the first item of the channel.
AnswerFirst ==
  /\ phase = "first"
  /\ \/ /\ MaxPieces > 0 /\ pieces' = 1
        /\ \/ Say(<<"audio-start", "audio-chunk">>, TRUE, "more")
           \/ Say(<<"audio-start", "audio-stop", "error">>, TRUE, "return")
     \/ /\ UNCHANGED pieces
        /\ \/ Say(<<"error">>, TRUE, "return")
           \/ Say(<<"audio-start", "audio-stop">>, TRUE, "return")
  /\ UNCHANGED <<server, request, stalled, reply, readVars, rxHeld, torn>>

\* Mutant of AnswerMore: an error leaves the audio frame open.
AnswerMoreNoStop ==
  /\ phase = "more"
  /\ \/ /\ pieces < MaxPieces /\ pieces' = pieces + 1
        /\ \/ Say(<<"audio-chunk">>, TRUE, "more")
           \/ Say(<<"audio-stop", "error">>, TRUE, "return")
     \/ /\ UNCHANGED pieces
        /\ \/ Say(<<"error">>, TRUE, "return")
           \/ Say(<<"audio-stop">>, TRUE, "return")
  /\ UNCHANGED <<server, request, stalled, reply, readVars, rxHeld, torn>>

\* Its loop: a chunk, one that does not encode, an error, or the end.
AnswerMore ==
  /\ phase = "more"
  /\ \/ /\ pieces < MaxPieces /\ pieces' = pieces + 1
        /\ \/ Say(<<"audio-chunk">>, TRUE, "more")
           \/ Say(<<"audio-stop", "error">>, TRUE, "return")
     \/ /\ UNCHANGED pieces
        /\ \/ Say(<<"audio-stop", "error">>, TRUE, "return")
           \/ Say(<<"audio-stop">>, TRUE, "return")
  /\ UNCHANGED <<server, request, stalled, reply, readVars, rxHeld, torn>>

\* handle_transcribe_batch
AnswerTranscript ==
  /\ phase = "transcript"
  /\ Say(<<"transcript">>, FALSE, "return") \/ Refuse
  /\ UNCHANGED <<server, request, stalled, reply, readVars, modelVars, torn>>

WholeTranscript == <<"transcript-start", "transcript", "transcript-stop">>

\* handle_transcribe_streaming: the first transcript may be the final one.
AnswerFirstText ==
  /\ phase = "firstText"
  /\ \/ /\ MaxPieces > 0 /\ pieces' = 1
        /\ \/ Say(<<"transcript-start", "transcript-chunk">>, TRUE, "moreText")
           \/ Say(WholeTranscript, TRUE, "return")
     \/ /\ UNCHANGED pieces
        /\ \/ Say(<<"error">>, TRUE, "return")
           \/ Say(WholeTranscript, TRUE, "return")
  /\ UNCHANGED <<server, request, stalled, reply, readVars, rxHeld, torn>>

\* A stream that ends without a final transcript is closed with an empty one.
AnswerMoreText ==
  /\ phase = "moreText"
  /\ \/ /\ pieces < MaxPieces /\ pieces' = pieces + 1
        /\ \/ Say(<<"transcript-chunk">>, TRUE, "moreText")
           \/ Say(<<"transcript", "transcript-stop">>, TRUE, "return")
     \/ /\ UNCHANGED pieces
        /\ \/ Say(<<"transcript-stop", "error">>, TRUE, "return")
           \/ Say(<<"transcript", "transcript-stop">>, TRUE, "return")
  /\ UNCHANGED <<server, request, stalled, reply, readVars, rxHeld, torn>>

\* The answer's handler returns and drops the receiver it held; a streamed
\* synthesize is confirmed with synthesize-stopped.
Return ==
  /\ phase = "return"
  /\ rxHeld' = FALSE
  /\ IF request = "synthesize-start"
       THEN Say(<<"synthesize-stopped">>, TRUE, "main")
       ELSE Go("main")
  /\ UNCHANGED <<server, request, stalled, reply, readVars, pieces, torn>>

-----------------------------------------------------------------------------
Answer ==
  \/ FilterAudio \/ AnswerWhole \/ AnswerFirst \/ AnswerMore
  \/ AnswerTranscript \/ AnswerFirstText \/ AnswerMoreText

Collect ==
  \/ CollectText \/ TextUnexpected
  \/ CollectAudioStart \/ CollectAudioChunk \/ CollectAudioStop
  \/ AudioRefused \/ CollectEnds

Next ==
  \/ \E kind \in RequestKinds : ReadRequest(kind)
  \/ MainEnds \/ Collect \/ Answer \/ Return
  \/ WriteEvent \/ WriteFails \/ Stall

(***************************************************************************)
(* The models answer (ModelThread!CallerIsAnswered), the task is polled,   *)
(* and WRITE_TIMEOUT ends a timed write.  Nothing obliges a client to read *)
(* or to send.                                                             *)
(***************************************************************************)
Fairness ==
  /\ WF_vars(Answer) /\ WF_vars(Return)
  /\ WF_vars(WriteEvent \/ (timed /\ WriteFails))

Spec == Init /\ [][Next]_vars /\ Fairness

-----------------------------------------------------------------------------
(***************************************************************************)
(* Properties                                                              *)
(***************************************************************************)
\* Back in the main loop, the last request has been answered with one complete
\* reply of its kind -- an error never inside an audio or transcript frame, a
\* frame never left open, a streamed synthesis confirmed by synthesize-stopped
\* also when it failed (doc comments of the handle_* functions) -- and what the
\* loop ignores, the rest of an exchange that was refused included, with
\* nothing.  There are two exceptions.  A client that left or fell silent
\* inside an exchange has got nothing; and a text that was refused is answered
\* by the error alone, which StoppedFollowsError is about.
RepliesAreComplete ==
  phase = "main" =>
    IF lastRead # "event" THEN reply = <<>>
    ELSE IF textRefused THEN request = "synthesize-start" /\ reply = <<"error">>
    ELSE CompleteReply(request, reply)

\* handler.rs 621-628: "`synthesize-stopped' ... is sent after the audio stream
\* -- including after an `error' response, where it merely confirms the exchange
\* is over."
StoppedFollowsError ==
  phase = "main" /\ request = "synthesize-start" => ~EndsIn(reply, "error")

\* Nothing is written after an event that was given up half way, so the client
\* never takes bytes of another event for the rest of that one (every write in
\* handler.rs ends in `?').
NothingAfterTornWrite == [][torn => reply' = reply /\ phase' = "closed"]_vars

\* A handler that holds the receiver of a model's chunks gives it back,
\* whatever its client does: a client that stops reading costs the model's
\* other callers a bounded time only (WRITE_TIMEOUT, handler.rs 323-335).
ModelIsReleased == rxHeld ~> ~rxHeld

\* The documentation of read_event (wire.rs 199-204): a read that was cut off
\* inside an event leaves the stream out of step, so no event is read after it;
\* and of read_event_or_idle (handler.rs 835-838): a client that goes idle
\* during an exchange is disconnected as in the main loop.
NoReadAfterCutRead ==
  [][lastRead = "cut" => lastRead' = "cut" /\ phase' = "closed"]_vars

=============================================================================
