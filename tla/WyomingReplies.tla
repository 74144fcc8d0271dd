-------------------------- MODULE WyomingReplies ---------------------------
(***************************************************************************)
(* The answers a Wyoming client may rely on: which sequence of events      *)
(* completes the answer to which request, as the doc comments of the       *)
(* handlers in src/crates/server/src/handler.rs describe them.             *)
(***************************************************************************)
EXTENDS Naturals, Sequences

\* What the main loop of handle_connection tells apart; `other' are the events
\* it ignores: those of a server, and those inside an exchange (audio-start,
\* audio-chunk, audio-stop, synthesize-chunk, synthesize-stop), which reach it
\* when the exchange they belong to was refused.
RequestKinds ==
  {"synthesize", "synthesize-start", "transcribe", "ping", "describe",
   "unknown", "other"}

Replies ==
  {"audio-start", "audio-chunk", "audio-stop", "synthesize-stopped",
   "transcript-start", "transcript-chunk", "transcript", "transcript-stop",
   "pong", "info", "error"}

Final(s) == s[Len(s)]
ButFinal(s) == SubSeq(s, 1, Len(s) - 1)
EndsIn(s, e) == s # <<>> /\ Final(s) = e

\* open item* close
Framed(s, open, item, close) ==
  /\ Len(s) >= 2 /\ s[1] = open /\ Final(s) = close
  /\ \A i \in 2..(Len(s) - 1) : s[i] = item

\* A failure after the frame was opened closes it before the error is sent.
AudioReply(s) ==
  LET audio(t) == Framed(t, "audio-start", "audio-chunk", "audio-stop")
  IN  s = <<"error">> \/ audio(s) \/ (EndsIn(s, "error") /\ audio(ButFinal(s)))

StreamedTextReply(s) ==
  EndsIn(s, "synthesize-stopped") /\ AudioReply(ButFinal(s))

\* A streamed transcript is complete when `transcript' stands before the stop.
TranscriptReply(s) ==
  LET frame(t) ==
        Framed(t, "transcript-start", "transcript-chunk", "transcript-stop")
      whole(t) == /\ Len(t) >= 3 /\ t[Len(t) - 1] = "transcript"
                  /\ frame(Append(SubSeq(t, 1, Len(t) - 2), Final(t)))
  IN  \/ s \in {<<"error">>, <<"transcript">>}
      \/ whole(s)
      \/ EndsIn(s, "error") /\ frame(ButFinal(s))

CompleteReply(kind, s) ==
  \/ kind = "synthesize" /\ AudioReply(s)
  \/ kind = "synthesize-start" /\ StreamedTextReply(s)
  \/ kind = "transcribe" /\ TranscriptReply(s)
  \/ kind = "ping" /\ s = <<"pong">>
  \/ kind = "describe" /\ s = <<"info">>
  \/ kind = "unknown" /\ s = <<"error">>
  \/ kind = "other" /\ s = <<>>
=============================================================================
