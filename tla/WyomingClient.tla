--------------------------- MODULE WyomingClient ---------------------------
(***************************************************************************)
(* wyoming_protocol::client::Client (src/crates/wyoming-protocol/src/      *)
(* client.rs) and the connection it holds to a crane-wyoming server.       *)
(*                                                                         *)
(* The protocol has no request identifiers: a call takes the next events   *)
(* of the stream for its answer.  Every request and event carries here the *)
(* number of the call it belongs to, which the code cannot see.  What the  *)
(* server answers is what Connection shows of it: a complete reply, with   *)
(* the connection lost at any point.                                       *)
(***************************************************************************)
EXTENDS Naturals, Sequences, WyomingReplies

CONSTANTS
  MaxCalls,   \* bound: calls made through the client
  MaxPieces,  \* bound: audio-chunks in one reply
  Prompt      \* an error follows its audio-stop within TRAILING_ERROR_TIMEOUT

VARIABLES
  link,       \* the connection: "none" made yet, "up", or gone for the
              \* server: "closed", or "torn" inside an event
  requests,   \* requests the server has not read
  serving,    \* events of its reply the server has not written
  events,     \* events the client has not read
  call,       \* the number of the current or last call
  kind,       \* the request it made
  step,       \* where it is: "idle" when it has returned
  taken,      \* events it has read
  result,     \* how it ended
  replies     \* call -> the server's reply to it (history)

linkVars   == <<link, requests, serving, events, replies>>
callVars   == <<call, kind, step, taken, result>>
clientVars == <<link, requests, serving, events, call, kind, step, taken,
                result, replies>>

Event(of, e) == [of |-> of, event |-> e]
Tagged(of, s) == [i \in 1..Len(s) |-> Event(of, s[i])]

Frame(n) ==
  <<"audio-start">> \o [i \in 1..n |-> "audio-chunk"] \o <<"audio-stop">>

\* What handle_synthesize, handle_describe and handle_ping write.
AudioReplies ==
  {<<"error">>} \cup {Frame(n) : n \in 0..MaxPieces}
                \cup {Append(Frame(n), "error") : n \in 0..MaxPieces}
ServerReplies ==
  [synthesize |-> AudioReplies, describe |-> {<<"info">>}, ping |-> {<<"pong">>}]

Kinds == DOMAIN ServerReplies

\* Those are complete replies in the sense of Connection!RepliesAreComplete.
ASSUME WyomingClientAssumption ==
  /\ MaxCalls \in Nat /\ MaxPieces \in Nat /\ Prompt \in BOOLEAN
  /\ \A k \in Kinds : \A s \in ServerReplies[k] : CompleteReply(k, s)

Results == {"none", "ok", "serverError", "unexpected", "transport", "protocol"}
Tags == [of : 1..MaxCalls, event : Replies]

TypeOK ==
  /\ link \in {"none", "up", "closed", "torn"}
  /\ requests \in Seq([of : 1..MaxCalls, kind : Kinds])
  /\ serving \in Seq(Tags) /\ events \in Seq(Tags) /\ taken \in Seq(Tags)
  /\ call \in 0..MaxCalls /\ kind \in Kinds
  /\ step \in {"idle", "sent", "stream", "trailing"}
  /\ result \in Results
  /\ replies \in [1..MaxCalls -> Seq(Replies)]
  /\ link # "up" => serving = <<>> /\ requests = <<>>

ClientInit ==
  /\ link = "none" /\ requests = <<>> /\ serving = <<>> /\ events = <<>>
  /\ call = 0 /\ kind = "ping" /\ step = "idle" /\ taken = <<>>
  /\ result = "none"
  /\ replies = [c \in 1..MaxCalls |-> <<>>]

-----------------------------------------------------------------------------
(***************************************************************************)
(* The server, one handler task per connection, and the network.           *)
(***************************************************************************)
ServerReads ==
  /\ link = "up" /\ serving = <<>> /\ requests # <<>>
  /\ LET request == Head(requests)
     IN  \E s \in ServerReplies[request.kind] :
           /\ serving' = Tagged(request.of, s)
           /\ replies' = [replies EXCEPT ![request.of] = s]
  /\ requests' = Tail(requests)
  /\ UNCHANGED <<link, events, callVars>>

ServerWrites ==
  /\ link = "up" /\ serving # <<>>
  /\ events' = Append(events, Head(serving))
  /\ serving' = Tail(serving)
  /\ UNCHANGED <<link, requests, callVars, replies>>

\* IDLE_TIMEOUT, a failed write, a restart: what was not written never comes,
\* and the last event may have been cut.
ServerCloses ==
  /\ link = "up"
  /\ link' \in {"closed", "torn"}
  /\ serving' = <<>> /\ requests' = <<>>
  /\ UNCHANGED <<events, callVars, replies>>

Server == ServerReads \/ ServerWrites

(***************************************************************************)
(* The client.                                                             *)
(***************************************************************************)
\* connect: a new stream; what the old one held is gone with it.
Connect ==
  /\ step = "idle" /\ link # "up"
  /\ link' = "up"
  /\ requests' = <<>> /\ serving' = <<>> /\ events' = <<>>
  /\ UNCHANGED <<callVars, replies>>

Finish(how) == step' = "idle" /\ result' = how

\* write_event.  A write to a connection the server has closed may fail, and
\* may also be lost without an error.
Send(k) ==
  /\ step = "idle" /\ link # "none" /\ call < MaxCalls
  /\ call' = call + 1 /\ kind' = k /\ taken' = <<>>
  /\ \/ /\ step' = "sent" /\ result' = "none"
        /\ requests' = IF link = "up"
                         THEN Append(requests, [of |-> call', kind |-> k])
                         ELSE requests
     \/ /\ link # "up" /\ Finish("transport") /\ UNCHANGED requests
  /\ UNCHANGED <<link, serving, events, replies>>

\* read_expected, when there is an event.
ReadEvent ==
  /\ events # <<>>
  /\ events' = Tail(events) /\ taken' = Append(taken, Head(events))
  /\ UNCHANGED <<link, requests, serving, replies, call, kind>>

\* expect_response: describe, ping and start_synthesis.
ExpectResponse ==
  /\ step = "sent" /\ ReadEvent
  /\ LET e == Head(events).event
     IN  \/ e = "error" /\ Finish("serverError")
         \/ <<kind, e>> \in {<<"describe", "info">>, <<"ping", "pong">>}
              /\ Finish("ok")
         \/ kind = "synthesize" /\ e = "audio-start"
              /\ step' = "stream" /\ UNCHANGED result
         \/ <<kind, e>> \notin {<<"describe", "info">>, <<"ping", "pong">>,
                                <<"synthesize", "audio-start">>}
              /\ e # "error" /\ Finish("unexpected")

ReadChunk ==
  /\ step = "stream" /\ ReadEvent /\ Head(events).event = "audio-chunk"
  /\ UNCHANGED <<step, result>>

\* Mutant of ReadLast: check_trailing_error is not called.
ReadLastUnchecked ==
  /\ step = "stream" /\ ReadEvent
  /\ \/ Head(events).event = "audio-stop" /\ Finish("ok")
     \/ Head(events).event = "error" /\ Finish("serverError")
     \/ Head(events).event \notin {"audio-chunk", "audio-stop", "error"}
          /\ Finish("unexpected")

\* audio-stop ends the loop of synthesize(_streaming), and so does an error.
ReadLast ==
  /\ step = "stream" /\ ReadEvent
  /\ \/ Head(events).event = "audio-stop" /\ step' = "trailing"
          /\ UNCHANGED result
     \/ Head(events).event = "error" /\ Finish("serverError")
     \/ Head(events).event \notin {"audio-chunk", "audio-stop", "error"}
          /\ Finish("unexpected")

\* check_trailing_error: an event that is not an error is taken for nothing.
TrailingEvent ==
  /\ step = "trailing" /\ ReadEvent
  /\ Finish(IF Head(events).event = "error" THEN "serverError" ELSE "ok")

\* Mutant of TrailingTimeout: check_trailing_error just reads.
TrailingForever == FALSE /\ UNCHANGED clientVars

\* Nothing came within TRAILING_ERROR_TIMEOUT.
TrailingTimeout ==
  /\ step = "trailing" /\ events = <<>> /\ link = "up"
  /\ Prompt => serving = <<>>
  /\ Finish("ok")
  /\ UNCHANGED <<linkVars, call, kind, taken>>

\* The stream is over: UnexpectedEof, or Protocol(Io).  A header line cut in
\* two is not JSON, which is another error.
ReadEnds ==
  /\ step # "idle" /\ events = <<>> /\ link \in {"closed", "torn"}
  /\ Finish("transport") \/ (link = "torn" /\ Finish("protocol"))
  /\ link' = "closed"
  /\ UNCHANGED <<requests, serving, events, replies, call, kind, taken>>

Return == ReadLast \/ TrailingEvent \/ TrailingTimeout \/ ReadEnds
ClientReads == ExpectResponse \/ ReadChunk \/ Return

Next ==
  \/ Connect \/ \E k \in Kinds : Send(k)
  \/ ClientReads \/ Server \/ ServerCloses

-----------------------------------------------------------------------------
(***************************************************************************)
(* Properties                                                              *)
(***************************************************************************)
\* A call that returns a value, or the server's error, has read the server's
\* reply to it, the whole of it, and nothing else: the events of one call are
\* never taken for the answer to another (synthesize_streaming: `the
\* connection is left ready for a subsequent request').  This rests on Prompt.
OwnWholeReply ==
  step = "idle" /\ result \in {"ok", "serverError"}
    => taken = Tagged(call, replies[call])
=============================================================================
