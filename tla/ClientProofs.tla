---------------------------- MODULE ClientProofs ----------------------------
(***************************************************************************)
(* What the programs that hold a WyomingClient promise, proved for every   *)
(* number of calls, chunks, pieces and lines: a call reads the reply to it *)
(* and nothing else, a message of speech-dispatcher is answered once, and  *)
(* cw-say puts out what the server sent.  All rest on one invariant of a   *)
(* connection (ConnInv): what a call has read, what it can read and what   *)
(* the server still has to write are, in this order, the reply to it.      *)
(***************************************************************************)
EXTENDS ClientPrograms, FiniteSetTheorems, SequenceTheorems, TLAPS

\* The server's reply to the current or last call.
ItsReply == replies[call]

\* The events of s are those of ItsReply after its first `from'.
Carries(s, from) ==
  \A i \in 1..Len(s) : s[i] = Event(call, ItsReply[from + i])

\* The call has been made and nothing has come of it.
Awaiting ==
  /\ step = "sent" /\ taken = <<>> /\ events = <<>> /\ serving = <<>>
  /\ link = "up" => requests = <<[of |-> call, kind |-> kind]>>

\* What was read, what can be read and what the server still has to write are
\* its reply, one after the other.
InFlight ==
  /\ requests = <<>>
  /\ ItsReply \in ServerReplies[kind]
  /\ Carries(taken, 0)
  /\ Carries(events, Len(taken))
  /\ Carries(serving, Len(taken) + Len(events))
  /\ Len(taken) + Len(events) + Len(serving) <= Len(ItsReply)
  /\ link = "up" => Len(taken) + Len(events) + Len(serving) = Len(ItsReply)

\* The call in progress: nothing has come of it, or its reply is on the way, and
\* where the reader stands tells what it last read.
Calling ==
  step # "idle" =>
    /\ call > 0 /\ link # "none" /\ result = "none" /\ (Awaiting \/ InFlight)
    /\ step = "sent" => taken = <<>>
    /\ step = "stream" =>
         /\ kind = "synthesize" /\ taken # <<>>
         /\ ItsReply[Len(taken)] \in {"audio-start", "audio-chunk"}
    /\ step = "trailing" =>
         /\ kind = "synthesize" /\ taken # <<>>
         /\ ItsReply[Len(taken)] = "audio-stop"

\* Between calls nothing is left on the connection, if errors are prompt; and a
\* synthesize that went well was read to its audio-stop.
Returns ==
  step = "idle" =>
    /\ requests = <<>>
    /\ Prompt \/ call = 0 => serving = <<>> /\ events = <<>>
    /\ result = "ok" /\ kind = "synthesize" =>
         /\ ItsReply \in AudioReplies /\ taken # <<>>
         /\ Len(taken) <= Len(ItsReply)
         /\ ItsReply[Len(taken)] = "audio-stop"

\* What holds of a connection while it is in step.
ConnInv == Calling /\ Returns /\ (Prompt => OwnWholeReply)

\* A first call is in step even where errors are late.
ClientInv == TypeOK /\ (Prompt \/ call <= 1 => ConnInv)

\* The answer to a message has begun: its preamble, and pieces of audio.
Begun(s) ==
  /\ Len(s) >= 3 /\ s[1] = "202" /\ s[2] = "200" /\ s[3] = "701"
  /\ \A i \in 4..Len(s) : s[i] = "705"

\* Where the module is, and how far its answer to the message.
Answering ==
  /\ mode = "init" => out = <<>>
  /\ mode \in {"reconnect", "describe"} => out = <<"202">>
  /\ mode \in {"speak", "pieces"} =>
       /\ IF preamble_sent THEN Begun(out) ELSE out = <<"202">>
       /\ interrupt \in Interrupts => preamble_sent
  /\ mode = "pieces" => preamble_sent /\ taken # <<>>
  /\ mode = "pieces" /\ pieces > 0 => interrupt = "none"

\* An interrupt on the input, and one that was read and waits for the message to
\* end.
Pends == IF stdin # <<>> /\ stdin[1] \in Interrupts THEN 1 ELSE 0
Holds == IF mode \in {"speak", "pieces"} /\ interrupt \in Interrupts THEN 1 ELSE 0

\* The interrupts asked for are those answered and those that wait.
Counted ==
  /\ mode # "ended" => asked = told + Pends + Holds
  /\ told <= asked /\ asked <= lines

\* Where the module is, and whose audio was heard.
Speaks ==
  /\ mode \in {"init", "reconnect", "describe"} => spoken = {}
  /\ link = "none" => spoken = {}
  /\ mode \in {"speak", "pieces"} =>
       kind = "synthesize" /\ (~preamble_sent => spoken = {})
  /\ mode = "pieces" => step = "stream"
  /\ mode \in {"speak", "pieces", "command"} =>
       spoken \subseteq {call} /\ (spoken # {} => kind = "synthesize")
  /\ mode = "command" => step = "idle"
  /\ stdin = <<"INIT">> => mode = "command" /\ link = "none"

\* The module when it runs, and when another program does.
ModuleInv ==
  IF program = "speechd"
    THEN Answering /\ MessageIsAnswered /\ Counted /\ (Prompt => Speaks)
    ELSE /\ mode = "command" /\ stdin = <<>> /\ out = <<>>
         /\ asked = 0 /\ told = 0 /\ spoken = {}

\* The chunks the program has heard of a call that has not failed.
Heard ==
  CASE step = "sent" -> 0
    [] step = "stream" -> Len(taken) - 1
    [] OTHER -> Len(taken) - 2

\* Where cw-say is, and how far its one call.
SayWhere ==
  /\ call <= 1
  /\ say \in {"text", "connect", "request"} =>
       /\ call = 0 /\ step = "idle"
       /\ output = <<>> /\ ~header_written /\ ~write_error
  /\ say \in {"call", "create", "write", "remove"} =>
       call = 1 /\ kind = IF args.list THEN "describe" ELSE "synthesize"
  /\ say \in {"create", "write", "remove"} =>
       ~args.list /\ args.to_file /\ step = "idle"
  /\ exit = "ok" => call = 1 /\ step = "idle"

\* A header where one was asked for, and chunks.
Streaming(s) ==
  \A i \in 1..Len(s) : s[i] = IF args.wav /\ i = 1 THEN "header" ELSE "chunk"

\* As many chunks were put out as were heard, behind a header written with the
\* first of them, unless standard output failed.
SayOutput ==
  /\ args.list \/ args.to_file => output = <<>>
  /\ say # "done" => Streaming(output)
  /\ say = "call" /\ ~args.list /\ ~args.to_file /\ ~write_error =>
       /\ header_written <=> args.wav /\ output # <<>>
       /\ step # "idle" \/ result = "ok" =>
            Len(output) = IF args.wav /\ Heard > 0 THEN Heard + 1 ELSE Heard

\* Where cw-say is, and what its file is.
SayFile ==
  /\ say \in {"text", "connect", "request", "call", "create"} =>
       file \in {"none", "old"}
  /\ say = "write" => file = "part"
  /\ FileIsWhole

\* cw-say when it runs, and when another program does.
SayInv ==
  IF program = "cw-say" THEN SayWhere /\ SayOutput /\ SayFile /\ SaysTheReply
  ELSE /\ say = "text" /\ exit = "none" /\ output = <<>> /\ file = "none"

\* The invariant: the properties, and what they rest on.
ProgramsInv ==
  ProgramsTypeOK /\ ClientInv /\ ModuleInv /\ SayInv
-----------------------------------------------------------------------------
\* A reply to synthesize with n chunks.
Audio(R, n) ==
  /\ Len(R) \in {n + 2, n + 3}
  /\ R[1] = "audio-start" /\ R[n + 2] = "audio-stop"
  /\ \A i \in 2..(n + 1) : R[i] = "audio-chunk"
  /\ Len(R) = n + 3 => R[n + 3] = "error"

\* The frame the server puts around n chunks (write_audio_stream): as many
\* events as it says, in this order.
LEMMA FrameShape ==
  ASSUME NEW n \in Nat
  PROVE  /\ Frame(n) \in Seq(Replies) /\ Len(Frame(n)) = n + 2
         /\ Frame(n)[1] = "audio-start" /\ Frame(n)[n + 2] = "audio-stop"
         /\ \A i \in 2..(n + 1) : Frame(n)[i] = "audio-chunk"
<1> DEFINE body == [i \in 1..n |-> "audio-chunk"]
           front == <<"audio-start">> \o body
<1>1. body \in Seq(Replies) /\ Len(body) = n
  BY DEF Replies
<1>2. <<"audio-start">> \in Seq(Replies) /\ <<"audio-stop">> \in Seq(Replies)
  BY DEF Replies
<1>3. /\ front \in Seq(Replies) /\ Len(front) = n + 1
      /\ front[1] = "audio-start"
      /\ \A i \in 2..(n + 1) : front[i] = "audio-chunk"
  BY <1>1, <1>2
<1>4. QED
  BY <1>2, <1>3 DEF Frame

\* Every reply to synthesize is a lone error, or audio that an error may follow.
LEMMA AudioShape ==
  ASSUME NEW R \in AudioReplies
  PROVE  /\ R \in Seq(Replies)
         /\ R = <<"error">> \/ \E n \in Nat : Audio(R, n)
<1>1. CASE R = <<"error">>
  BY <1>1 DEF Replies
<1>2. ASSUME NEW n \in 0..MaxPieces, R = Frame(n) \/ R = Append(Frame(n), "error")
      PROVE  R \in Seq(Replies) /\ Audio(R, n)
  <2>1. n \in Nat
    BY WyomingClientAssumption
  <2> DEFINE F == Frame(n)
  <2>2. /\ F \in Seq(Replies) /\ Len(F) = n + 2
        /\ F[1] = "audio-start" /\ F[n + 2] = "audio-stop"
        /\ \A i \in 2..(n + 1) : F[i] = "audio-chunk"
    BY <2>1, FrameShape
  <2> HIDE DEF F
  <2>3. CASE R = F
    BY <2>1, <2>2, <2>3 DEF Audio
  <2>5. CASE R = Append(F, "error")
    <3>1. "error" \in Replies
      BY DEF Replies
    <3>2. R \in Seq(Replies) /\ Len(R) = n + 3 /\ R[n + 3] = "error"
      BY <2>1, <2>2, <2>5, <3>1
    <3>3. \A i \in 1..(n + 2) : R[i] = F[i]
      BY <2>1, <2>2, <2>5, <3>1
    <3>4. QED
      BY <2>1, <2>2, <3>2, <3>3 DEF Audio
  <2>4. QED
    BY <1>2, <2>3, <2>5 DEF F
<1>3. QED
  BY <1>1, <1>2, WyomingClientAssumption DEF AudioReplies

\* The replies to each kind of request the library reads: never empty, and the
\* one expected event for describe and ping.
LEMMA ReplyShape ==
  ASSUME NEW k \in Kinds, NEW R \in ServerReplies[k]
  PROVE  /\ R \in Seq(Replies) /\ Len(R) >= 1
         /\ k = "describe" => R = <<"info">>
         /\ k = "ping" => R = <<"pong">>
         /\ k = "synthesize" => R \in AudioReplies
         /\ k \in {"describe", "ping", "synthesize"}
<1>1. k \in {"describe", "ping", "synthesize"}
  BY DEF Kinds, ServerReplies
<1>2. CASE k = "describe"
  <2>1. R = <<"info">>
    BY <1>2 DEF ServerReplies
  <2>2. QED
    BY <1>2, <2>1 DEF Replies
<1>3. CASE k = "ping"
  <2>1. R = <<"pong">>
    BY <1>3 DEF ServerReplies
  <2>2. QED
    BY <1>3, <2>1 DEF Replies
<1>4. CASE k = "synthesize"
  <2>1. R \in AudioReplies
    BY <1>4 DEF ServerReplies
  <2>2. R \in Seq(Replies) /\ (R = <<"error">> \/ \E n \in Nat : Audio(R, n))
    BY <2>1, AudioShape
  <2>3. Len(R) >= 1
    <3>1. CASE R = <<"error">>
      BY <3>1
    <3>2. ASSUME NEW n \in Nat, Audio(R, n)
          PROVE  Len(R) >= 1
      BY <3>2 DEF Audio
    <3>3. QED
      BY <2>2, <3>1, <3>2
  <2>4. QED
    BY <1>4, <2>1, <2>2, <2>3
<1>5. QED
  BY <1>1, <1>2, <1>3, <1>4

\* What follows what in a reply to synthesize.
LEMMA AudioSteps ==
  ASSUME NEW R \in AudioReplies, NEW i \in 1..Len(R)
  PROVE  /\ R[i] \in {"audio-start", "audio-chunk"} =>
              i + 1 <= Len(R) /\ R[i + 1] \in {"audio-chunk", "audio-stop"}
         /\ R[i] = "audio-stop" =>
              i >= 2 /\ (i = Len(R) \/ (i + 1 = Len(R) /\ R[i + 1] = "error"))
         /\ R[1] = "audio-start" \/ (R[1] = "error" /\ Len(R) = 1)
<1>1. R \in Seq(Replies) /\ (R = <<"error">> \/ \E n \in Nat : Audio(R, n))
  BY AudioShape
<1>2. CASE R = <<"error">>
  BY <1>2
<1>3. ASSUME NEW n \in Nat, Audio(R, n)
      PROVE  /\ R[i] \in {"audio-start", "audio-chunk"} =>
                  i + 1 <= Len(R) /\ R[i + 1] \in {"audio-chunk", "audio-stop"}
             /\ R[i] = "audio-stop" =>
                  i >= 2 /\ (i = Len(R) \/ (i + 1 = Len(R) /\ R[i + 1] = "error"))
             /\ R[1] = "audio-start"
  <2>1. i = 1 \/ i \in 2..(n + 1) \/ i = n + 2 \/ (i = n + 3 /\ R[i] = "error")
    BY <1>1, <1>3 DEF Audio
  <2>2. CASE i = 1
    BY <1>3, <2>2 DEF Audio
  <2>3. CASE i \in 2..(n + 1)
    BY <1>3, <2>3 DEF Audio
  <2>4. CASE i = n + 2
    BY <1>3, <2>4 DEF Audio
  <2>5. CASE i = n + 3 /\ R[i] = "error"
    BY <1>3, <2>5 DEF Audio
  <2>6. QED
    BY <2>1, <2>2, <2>3, <2>4, <2>5
<1>4. QED
  BY <1>1, <1>2, <1>3

\* The chunks of a reply, counted from where it stops.
LEMMA ChunksOfAudio ==
  ASSUME NEW R \in AudioReplies, NEW i \in 1..Len(R), R[i] = "audio-stop"
  PROVE  Chunks(R) = i - 2
<1>1. R \in Seq(Replies) /\ (R = <<"error">> \/ \E n \in Nat : Audio(R, n))
  BY AudioShape
<1>2. PICK n \in Nat : Audio(R, n)
  BY <1>1
<1>3. i = n + 2
  BY <1>1, <1>2 DEF Audio
<1> DEFINE S == {j \in DOMAIN R : R[j] = "audio-chunk"}
<1>4. Chunks(R) = Cardinality(S)
  BY DEF Chunks
<1>5. S = 2..(n + 1)
  BY <1>1, <1>2 DEF Audio
<1>6. Cardinality(2..(n + 1)) = n
  BY FS_Interval
<1> HIDE DEF S
<1>7. QED
  BY <1>3, <1>4, <1>5, <1>6

-----------------------------------------------------------------------------
\* What the programs do to their client but by its own operations: they drop
\* it with its connection (InitDone, ReconnectFails).
Drops ==
  /\ link' \in {"none", "closed"} /\ requests' = <<>> /\ serving' = <<>>
  /\ events' = <<>> /\ step' = "idle" /\ kind' \in {kind, "ping"}
  /\ UNCHANGED <<call, taken, result, replies>>

ClientStep == Next \/ Drops

\* A reply tagged with its call is a sequence of tagged events.
LEMMA TagsType == \A c \in 1..MaxCalls, s \in Seq(Replies) :
  Tagged(c, s) \in Seq(Tags) /\ Len(Tagged(c, s)) = Len(s)
BY DEF Tagged, Event, Tags

\* Every operation of the client and of its server keeps the client's types.
LEMMA ClientTypeStep ==
  ASSUME TypeOK, ClientStep
  PROVE  TypeOK'
<1> USE WyomingClientAssumption
<1>0. "ping" \in Kinds /\ "error" \in Replies
  BY DEF Kinds, ServerReplies, Replies
<1>1. CASE Connect
  BY <1>1 DEF TypeOK, Connect, callVars
<1>2. ASSUME NEW k \in Kinds, Send(k)
      PROVE  TypeOK'
  <2>1. call' \in 1..MaxCalls
    BY <1>2 DEF TypeOK, Send
  <2>2. requests' \in Seq([of : 1..MaxCalls, kind : Kinds])
    <3> DEFINE A == [of : 1..MaxCalls, kind : Kinds]
    <3>1. [of |-> call', kind |-> k] \in A
      BY <2>1
    <3>2. requests \in Seq(A)
      BY DEF TypeOK
    <3> HIDE DEF A
    <3>3. requests' \in Seq(A)
      BY <1>2, <3>1, <3>2 DEF Send
    <3>4. QED
      BY <3>3 DEF A
  <2>3. result' \in Results /\ step' \in {"idle", "sent"}
    BY <1>2 DEF TypeOK, Send, Finish, Results
  <2>4. QED
    BY <1>2, <2>1, <2>2, <2>3 DEF TypeOK, Send
<1>3. ASSUME ReadEvent, step' \in {"idle", "sent", "stream", "trailing"},
             result' \in Results
      PROVE  TypeOK'
  BY <1>3 DEF TypeOK, ReadEvent
<1>4. CASE ExpectResponse
  BY <1>3, <1>4 DEF TypeOK, ExpectResponse, Finish, Results
<1>5. CASE ReadChunk
  BY <1>3, <1>5 DEF TypeOK, ReadChunk
<1>6. CASE ReadLast
  BY <1>3, <1>6 DEF TypeOK, ReadLast, Finish, Results
<1>7. CASE TrailingEvent
  BY <1>3, <1>7 DEF TypeOK, TrailingEvent, Finish, Results
<1>8. CASE TrailingTimeout
  BY <1>8 DEF TypeOK, TrailingTimeout, Finish, Results, linkVars
<1>9. CASE ReadEnds
  BY <1>9 DEF TypeOK, ReadEnds, Finish, Results
<1>10. CASE ServerReads
  <2>1. PICK s \in ServerReplies[Head(requests).kind] :
          /\ serving' = Tagged(Head(requests).of, s)
          /\ replies' = [replies EXCEPT ![Head(requests).of] = s]
    BY <1>10 DEF ServerReads
  <2>2. Head(requests) \in [of : 1..MaxCalls, kind : Kinds]
    <3> DEFINE A == [of : 1..MaxCalls, kind : Kinds]
    <3>1. requests \in Seq(A) /\ requests # <<>>
      BY <1>10 DEF TypeOK, ServerReads
    <3> HIDE DEF A
    <3>2. Head(requests) \in A
      BY <3>1
    <3>3. QED
      BY <3>2 DEF A
  <2>3. s \in Seq(Replies)
    BY <2>2, ReplyShape
  <2>4. serving' \in Seq(Tags)
    BY <2>1, <2>2, <2>3, TagsType
  <2>5. replies' \in [1..MaxCalls -> Seq(Replies)]
    BY <2>1, <2>2, <2>3 DEF TypeOK
  <2>6. QED
    BY <1>10, <2>4, <2>5 DEF TypeOK, ServerReads, callVars
<1>11. CASE ServerWrites
  BY <1>11 DEF TypeOK, ServerWrites, callVars
<1>12. CASE ServerCloses
  BY <1>12 DEF TypeOK, ServerCloses, callVars
<1>13. CASE Drops
  BY <1>0, <1>13 DEF TypeOK, Drops
<1>14. QED
  BY <1>1, <1>2, <1>4, <1>5, <1>6, <1>7, <1>8, <1>9, <1>10, <1>11, <1>12, <1>13
     DEF ClientStep, Next, ClientReads, Return, Server

\* A sequence that carries a whole reply is that reply.
LEMMA CarriesAll ==
  ASSUME NEW c, NEW R \in Seq(Replies), NEW s \in Seq(Tags), Len(s) = Len(R),
         \A i \in 1..Len(s) : s[i] = Event(c, R[0 + i])
  PROVE  s = Tagged(c, R)
BY DEF Tagged

\* The next event is the next one of the reply.
LEMMA NextEvent ==
  ASSUME TypeOK, InFlight, ReadEvent, call > 0
  PROVE  /\ InFlight'
         /\ taken' # <<>> /\ Len(taken') = Len(taken) + 1
         /\ Len(taken') <= Len(ItsReply)
         /\ Head(events).event = ItsReply[Len(taken) + 1]
         /\ ItsReply' = ItsReply /\ ItsReply \in Seq(Replies)
         /\ Len(taken') = Len(ItsReply) =>
              /\ events' = <<>> /\ serving' = <<>>
              /\ taken' = Tagged(call, ItsReply)
<1> DEFINE R == ItsReply
<1>1. R \in Seq(Replies)
  BY DEF TypeOK, ItsReply
<1>2. /\ events \in Seq(Tags) /\ taken \in Seq(Tags) /\ serving \in Seq(Tags)
      /\ events # <<>> /\ events' = Tail(events)
      /\ taken' = Append(taken, Head(events))
      /\ UNCHANGED <<link, requests, serving, replies, call, kind>>
  <2>1. events \in Seq(Tags) /\ taken \in Seq(Tags) /\ serving \in Seq(Tags)
    BY DEF TypeOK
  <2>2. /\ events # <<>> /\ events' = Tail(events)
        /\ taken' = Append(taken, Head(events))
        /\ UNCHANGED <<link, requests, serving, replies, call, kind>>
    BY DEF ReadEvent
  <2>3. QED
    BY <2>1, <2>2
<1>3. R' = R
  BY <1>2 DEF ItsReply
<1>4. /\ \A i \in 1..Len(taken) : taken[i] = Event(call, R[0 + i])
      /\ \A i \in 1..Len(events) : events[i] = Event(call, R[Len(taken) + i])
      /\ \A i \in 1..Len(serving) :
           serving[i] = Event(call, R[Len(taken) + Len(events) + i])
      /\ Len(taken) + Len(events) + Len(serving) <= Len(R)
      /\ link = "up" => Len(taken) + Len(events) + Len(serving) = Len(R)
      /\ requests = <<>> /\ R \in ServerReplies[kind]
  BY DEF InFlight, Carries
<1> HIDE DEF R
<1>5. Head(events) = events[1] /\ Len(events) >= 1 /\ Head(events) \in Tags
  BY <1>2
<1>6. Head(events) = Event(call, R[Len(taken) + 1])
  BY <1>4, <1>5
<1>7. /\ Len(taken') = Len(taken) + 1 /\ Len(events') = Len(events) - 1
      /\ taken' \in Seq(Tags) /\ events' \in Seq(Tags)
  BY <1>2, <1>5
<1>8. \A i \in 1..Len(taken') : taken'[i] = Event(call, R[0 + i])
  <2> TAKE i \in 1..Len(taken')
  <2>1. CASE i = Len(taken) + 1
    BY <1>2, <1>5, <1>6, <2>1
  <2>2. CASE i \in 1..Len(taken)
    BY <1>2, <1>4, <1>5, <2>2
  <2>3. QED
    BY <1>2, <1>7, <2>1, <2>2
<1>9. \A i \in 1..Len(events') : events'[i] = Event(call, R[Len(taken') + i])
  <2> TAKE i \in 1..Len(events')
  <2>1. events'[i] = events[i + 1] /\ i + 1 \in 1..Len(events)
    BY <1>2, <1>7
  <2>2. Len(taken) + (i + 1) = Len(taken') + i
    BY <1>2, <1>7
  <2>3. QED
    BY <1>4, <2>1, <2>2
<1>10. \A i \in 1..Len(serving') :
         serving'[i] = Event(call, R[Len(taken') + Len(events') + i])
  <2>1. Len(taken') + Len(events') = Len(taken) + Len(events)
    BY <1>2, <1>7
  <2>2. QED
    BY <1>2, <1>4, <2>1
<1>11. /\ Len(taken') + Len(events') + Len(serving') <= Len(R)
       /\ link' = "up" => Len(taken') + Len(events') + Len(serving') = Len(R)
  BY <1>1, <1>2, <1>4, <1>7
<1>12. Len(taken') <= Len(R)
  BY <1>1, <1>2, <1>7, <1>11
<1>13. ASSUME Len(taken') = Len(R)
       PROVE  events' = <<>> /\ serving' = <<>> /\ taken' = Tagged(call, R)
  <2>1. Len(events') = 0 /\ Len(serving') = 0
    BY <1>1, <1>2, <1>7, <1>11, <1>13
  <2>2. taken' = Tagged(call, R)
    BY <1>1, <1>7, <1>8, <1>13, CarriesAll
  <2>3. QED
    BY <1>2, <1>7, <2>1, <2>2
<1>14. InFlight'
  <2>1. Carries(taken, 0)' /\ Carries(events, Len(taken))'
        /\ Carries(serving, Len(taken) + Len(events))'
    BY <1>2, <1>3, <1>8, <1>9, <1>10 DEF Carries, R
  <2>2. QED
    BY <1>2, <1>3, <1>4, <1>11, <2>1 DEF InFlight, R
<1>15. Head(events).event = R[Len(taken) + 1]
  BY <1>6 DEF Event
<1>16. taken' # <<>>
  BY <1>2, <1>7
<1>17. QED
  BY <1>1, <1>3, <1>7, <1>12, <1>13, <1>14, <1>15, <1>16 DEF R

\* A request is sent with nothing left to read: the call awaits its reply.
LEMMA SendConn ==
  ASSUME TypeOK, ConnInv, NEW k \in Kinds, Send(k), Prompt \/ call' <= 1
  PROVE  ConnInv'
<1>1. /\ requests = <<>> /\ serving = <<>> /\ events = <<>>
      /\ call \in Nat /\ call' = call + 1
  BY DEF TypeOK, Send, ConnInv, Returns
<1>2. /\ kind' = k /\ taken' = <<>> /\ step = "idle" /\ link # "none"
      /\ UNCHANGED <<link, serving, events, replies>>
  BY DEF Send
<1>3. CASE step' = "sent"
  <2>1. result' = "none"
    BY <1>3 DEF Send, Finish
  <2>2. link = "up" => requests' = <<[of |-> call', kind |-> k]>>
    BY <1>1, <1>3 DEF Send, Finish
  <2>3. Awaiting'
    BY <1>1, <1>2, <1>3, <2>2 DEF Awaiting
  <2>4. QED
    BY <1>1, <1>2, <1>3, <2>1, <2>3 DEF ConnInv, Calling, Returns, OwnWholeReply
<1>4. CASE step' = "idle"
  <2>1. result' = "transport" /\ requests' = <<>>
    BY <1>1, <1>4 DEF Send, Finish
  <2>2. QED
    BY <1>1, <1>2, <1>4, <2>1 DEF ConnInv, Calling, Returns, OwnWholeReply
<1>5. QED
  BY <1>3, <1>4 DEF Send, Finish

\* An event read is the next of the reply, and the reader stops where the reply
\* stops: after its last event, its error, or the error behind its audio-stop.
LEMMA ReadConn ==
  ASSUME TypeOK, ConnInv,
         ExpectResponse \/ ReadChunk \/ ReadLast \/ TrailingEvent
  PROVE  ConnInv'
<1> DEFINE R == ItsReply
           n == Len(taken)
<1>1. step # "idle" /\ ReadEvent /\ kind \in Kinds
  BY DEF ExpectResponse, ReadChunk, ReadLast, TrailingEvent, TypeOK
<1>2. InFlight /\ call > 0 /\ link # "none" /\ result = "none"
  BY <1>1 DEF ConnInv, Calling, Awaiting, ReadEvent
<1>3. /\ InFlight'
      /\ taken' # <<>> /\ Len(taken') = n + 1 /\ n + 1 <= Len(R)
      /\ Head(events).event = R[n + 1]
      /\ R' = R /\ R \in Seq(Replies)
      /\ n + 1 = Len(R) =>
           events' = <<>> /\ serving' = <<>> /\ taken' = Tagged(call, R)
  BY <1>1, <1>2, NextEvent
<1>4. /\ R \in ServerReplies[kind] /\ requests' = <<>>
      /\ UNCHANGED <<call, kind, link>> /\ n \in Nat
  BY <1>1, <1>2 DEF InFlight, ReadEvent, TypeOK
<1>5. /\ kind = "describe" => R = <<"info">>
      /\ kind = "ping" => R = <<"pong">>
      /\ kind = "synthesize" => R \in AudioReplies
      /\ kind \in {"describe", "ping", "synthesize"}
  BY <1>1, <1>4, ReplyShape
<1> HIDE DEF R, n
<1>6. ASSUME step' = "idle", n + 1 = Len(R), result' = "ok" => kind # "synthesize"
      PROVE  ConnInv'
  BY <1>3, <1>4, <1>6 DEF ConnInv, Calling, Returns, OwnWholeReply, R, ItsReply
<1>7. CASE ExpectResponse
  <2>1. n = 0 /\ step = "sent"
    BY <1>1, <1>7 DEF ConnInv, Calling, ExpectResponse, n
  <2>2. CASE kind # "synthesize"
    <3>1. n + 1 = Len(R) /\ <<kind, R[n + 1]>> \in {<<"describe", "info">>, <<"ping", "pong">>}
      BY <1>5, <2>1, <2>2
    <3>2. step' = "idle"
      BY <1>3, <1>7, <2>2, <3>1 DEF ExpectResponse, Finish
    <3>3. QED
      BY <1>6, <2>2, <3>1, <3>2
  <2>3. CASE kind = "synthesize"
    <3>1. R[1] = "audio-start" \/ (R[1] = "error" /\ Len(R) = 1)
      <4>1. 1 \in 1..Len(R)
        BY <1>3, <1>4
      <4>2. QED
        BY <1>5, <2>3, <4>1, AudioSteps
    <3>2. CASE R[1] = "audio-start"
      <4>1. step' = "stream" /\ result' = "none"
        BY <1>2, <1>3, <1>7, <2>1, <2>3, <3>2 DEF ExpectResponse, Finish
      <4>2. R'[Len(taken')] = "audio-start"
        BY <1>3, <2>1, <3>2
      <4>3. QED
        BY <1>2, <1>3, <1>4, <2>3, <4>1, <4>2
           DEF ConnInv, Calling, Returns, OwnWholeReply, R
    <3>3. CASE R[1] = "error" /\ Len(R) = 1
      <4>1. step' = "idle" /\ result' = "serverError"
        BY <1>3, <1>7, <2>1, <2>3, <3>3 DEF ExpectResponse, Finish
      <4>2. QED
        BY <1>6, <2>1, <3>3, <4>1
    <3>4. QED
      BY <3>1, <3>2, <3>3
  <2>4. QED
    BY <2>2, <2>3
<1>8. CASE ReadChunk
  <2>1. step' = "stream" /\ result' = "none" /\ kind = "synthesize"
    BY <1>2, <1>8 DEF ReadChunk, ConnInv, Calling
  <2>2. R'[Len(taken')] = "audio-chunk"
    BY <1>3, <1>8 DEF ReadChunk
  <2>3. QED
    BY <1>2, <1>3, <1>4, <2>1, <2>2
       DEF ConnInv, Calling, Returns, OwnWholeReply, R
<1>9. CASE ReadLast
  <2>1. kind = "synthesize" /\ n >= 1 /\ R[n] \in {"audio-start", "audio-chunk"}
    BY <1>9, <1>4 DEF ReadLast, ConnInv, Calling, R, n, TypeOK
  <2>2. n \in 1..Len(R) /\ R \in AudioReplies
    BY <1>3, <1>4, <1>5, <2>1
  <2>3. R[n + 1] \in {"audio-chunk", "audio-stop"}
    BY <2>1, <2>2, AudioSteps
  <2>4. R[n + 1] = "audio-stop" /\ step' = "trailing" /\ result' = "none"
    BY <1>2, <1>3, <1>9, <2>3 DEF ReadLast, Finish
  <2>5. R'[Len(taken')] = "audio-stop"
    BY <1>3, <2>4
  <2>6. QED
    BY <1>2, <1>3, <1>4, <2>1, <2>4, <2>5
       DEF ConnInv, Calling, Returns, OwnWholeReply, R
<1>10. CASE TrailingEvent
  <2>1. kind = "synthesize" /\ n >= 1 /\ R[n] = "audio-stop"
    BY <1>10, <1>4 DEF TrailingEvent, ConnInv, Calling, R, n, TypeOK
  <2>2. n \in 1..Len(R) /\ R \in AudioReplies
    BY <1>3, <1>4, <1>5, <2>1
  <2>3. n + 1 = Len(R) /\ R[n + 1] = "error"
    BY <1>3, <2>1, <2>2, AudioSteps
  <2>4. step' = "idle" /\ result' = "serverError"
    BY <1>3, <1>10, <2>3 DEF TrailingEvent, Finish
  <2>5. QED
    BY <1>6, <2>3, <2>4
<1>11. QED
  BY <1>7, <1>8, <1>9, <1>10

\* The server writes the reply it began, event by event, or takes the next
\* request, or goes away: what the call has read is not disturbed.
LEMMA ServerConn ==
  ASSUME TypeOK, ConnInv, ServerReads \/ ServerWrites \/ ServerCloses
  PROVE  ConnInv'
<1>1. UNCHANGED <<call, kind, step, taken, result>> /\ call \in 0..MaxCalls
  BY DEF ServerReads, ServerWrites, ServerCloses, callVars, TypeOK
<1>a. link' # "none"
  BY DEF ServerReads, ServerWrites, ServerCloses
<1>2. CASE step = "idle"
  <2>1. ~ServerReads /\ UNCHANGED replies /\ requests' = <<>>
    BY <1>2 DEF ConnInv, Returns, ServerReads, ServerWrites, ServerCloses
  <2>2. Prompt \/ call = 0 => serving' = <<>> /\ events' = <<>>
    BY <1>2, <2>1 DEF ConnInv, Returns, ServerWrites, ServerCloses
  <2>3. ItsReply' = ItsReply
    BY <1>1, <2>1 DEF ItsReply
  <2>4. QED
    BY <1>1, <1>2, <2>1, <2>2, <2>3 DEF ConnInv, Calling, Returns, OwnWholeReply
<1>3. ASSUME step # "idle", Awaiting' \/ InFlight',
             taken # <<>> => ItsReply' = ItsReply
      PROVE  ConnInv'
  BY <1>1, <1>a, <1>3 DEF ConnInv, Calling, Returns, OwnWholeReply
<1>4. CASE step # "idle" /\ ServerReads
  <2>1. /\ Awaiting /\ link = "up" /\ requests = <<[of |-> call, kind |-> kind]>>
        /\ call \in 1..MaxCalls
    BY <1>1, <1>4 DEF ConnInv, Calling, ServerReads, InFlight, Awaiting
  <2>2. /\ Head(requests).of = call /\ Head(requests).kind = kind
        /\ Tail(requests) = <<>>
    BY <2>1
  <2>3. PICK s \in ServerReplies[kind] :
          serving' = Tagged(call, s) /\ replies' = [replies EXCEPT ![call] = s]
    BY <1>4, <2>2 DEF ServerReads
  <2>4. s \in Seq(Replies)
    BY ReplyShape DEF TypeOK
  <2>5. ItsReply' = s
    BY <1>1, <2>1, <2>3 DEF TypeOK, ItsReply
  <2>6. requests' = <<>> /\ events' = <<>> /\ taken' = <<>> /\ taken = <<>>
    BY <1>1, <1>4, <2>1, <2>2 DEF ServerReads, Awaiting
  <2>7. Len(serving') = Len(s)
        /\ \A i \in 1..Len(s) : serving'[i] = Event(call, s[i])
    BY <2>3, <2>4 DEF Tagged
  <2>8. Carries(taken, 0)' /\ Carries(events, Len(taken))'
        /\ Carries(serving, Len(taken) + Len(events))'
    BY <1>1, <2>4, <2>5, <2>6, <2>7 DEF Carries
  <2>9. InFlight'
    BY <1>1, <2>3, <2>4, <2>5, <2>6, <2>7, <2>8 DEF InFlight
  <2>10. QED
    BY <1>3, <1>4, <2>6, <2>9
<1>5. CASE step # "idle" /\ ServerWrites
  <2>1. InFlight /\ UNCHANGED <<link, requests, replies>>
    BY <1>5 DEF ConnInv, Calling, ServerWrites, Awaiting
  <2> DEFINE R == ItsReply
  <2>2. R' = R /\ R \in Seq(Replies)
    <3>1. call \in 1..MaxCalls
      BY <1>1, <1>5 DEF ConnInv, Calling
    <3>2. QED
      BY <1>1, <2>1, <3>1 DEF ItsReply, TypeOK
  <2>3. /\ events \in Seq(Tags) /\ taken \in Seq(Tags) /\ serving \in Seq(Tags)
        /\ serving # <<>> /\ serving' = Tail(serving)
        /\ events' = Append(events, Head(serving))
    BY <1>5 DEF TypeOK, ServerWrites
  <2>4. /\ \A i \in 1..Len(events) : events[i] = Event(call, R[Len(taken) + i])
        /\ \A i \in 1..Len(serving) :
             serving[i] = Event(call, R[Len(taken) + Len(events) + i])
        /\ Carries(taken, 0)
        /\ Len(taken) + Len(events) + Len(serving) <= Len(R)
        /\ link = "up" => Len(taken) + Len(events) + Len(serving) = Len(R)
        /\ requests = <<>> /\ R \in ServerReplies[kind]
    BY <2>1 DEF InFlight, Carries
  <2>5. Carries(taken, 0)'
    BY <1>1, <2>2, <2>4 DEF Carries
  <2> HIDE DEF R
  <2>6. /\ Head(serving) = serving[1] /\ Head(serving) \in Tags
        /\ Len(events') = Len(events) + 1 /\ Len(serving') = Len(serving) - 1
        /\ Len(serving) \in Nat \ {0} /\ Len(events) \in Nat /\ Len(taken) \in Nat
    BY <2>3
  <2>7. Head(serving) = Event(call, R[Len(taken) + Len(events) + 1])
    BY <2>4, <2>6
  <2>8. \A i \in 1..Len(events') : events'[i] = Event(call, R[Len(taken) + i])
    <3> TAKE i \in 1..Len(events')
    <3>1. CASE i = Len(events) + 1
      <4>1. events'[i] = Head(serving)
        BY <2>3, <2>6, <3>1
      <4>2. Len(taken) + Len(events) + 1 = Len(taken) + i
        BY <2>6, <3>1
      <4>3. QED
        BY <2>7, <4>1, <4>2
    <3>2. CASE i \in 1..Len(events)
      BY <2>3, <2>4, <2>6, <3>2
    <3>3. QED
      BY <2>6, <3>1, <3>2
  <2>9. \A i \in 1..Len(serving') :
          serving'[i] = Event(call, R[Len(taken) + Len(events') + i])
    <3> TAKE i \in 1..Len(serving')
    <3>1. serving'[i] = serving[i + 1] /\ i + 1 \in 1..Len(serving)
      BY <2>3, <2>6
    <3>2. Len(taken) + Len(events) + (i + 1) = Len(taken) + Len(events') + i
      BY <2>6
    <3>3. QED
      BY <2>4, <3>1, <3>2
  <2>10. Len(taken) + Len(events') + Len(serving')
           = Len(taken) + Len(events) + Len(serving)
    BY <2>6
  <2>11. Carries(events, Len(taken))' /\ Carries(serving, Len(taken) + Len(events))'
    BY <1>1, <2>2, <2>8, <2>9 DEF Carries, R
  <2>12. InFlight'
    BY <1>1, <2>1, <2>2, <2>4, <2>5, <2>10, <2>11 DEF InFlight, R
  <2>13. QED
    BY <1>3, <1>5, <2>2, <2>12 DEF R
<1>6. CASE step # "idle" /\ ServerCloses
  <2>1. /\ link' # "up" /\ link = "up" /\ serving' = <<>> /\ requests' = <<>>
        /\ UNCHANGED <<events, replies>>
    BY <1>6 DEF ServerCloses
  <2>2. ItsReply' = ItsReply
    BY <1>1, <2>1 DEF ItsReply
  <2>3. CASE Awaiting
    BY <1>1, <1>3, <1>6, <2>1, <2>2, <2>3 DEF Awaiting
  <2>4. CASE InFlight
    <3>1. Len(taken) + Len(events) + 0 <= Len(ItsReply)
      BY <2>4 DEF InFlight, TypeOK
    <3>2. Carries(taken, 0)' /\ Carries(events, Len(taken))'
          /\ Carries(serving, Len(taken) + Len(events))'
      BY <1>1, <2>1, <2>2, <2>4 DEF InFlight, Carries
    <3>3. InFlight'
      BY <1>1, <2>1, <2>2, <2>4, <3>1, <3>2 DEF InFlight
    <3>4. QED
      BY <1>3, <1>6, <2>2, <3>3
  <2>5. QED
    BY <1>6, <2>3, <2>4 DEF ConnInv, Calling
<1>7. QED
  BY <1>2, <1>4, <1>5, <1>6

\* The client's invariant is inductive, whatever program makes the calls.
LEMMA ClientStepInv ==
  ASSUME ClientInv, ClientStep
  PROVE  ClientInv'
<1>1. TypeOK' /\ TypeOK
  BY ClientTypeStep DEF ClientInv
<1>2. SUFFICES ASSUME Prompt \/ call' <= 1
               PROVE  ConnInv'
  BY <1>1 DEF ClientInv
<1>3. CASE \E k \in Kinds : Send(k)
  <2>1. Prompt \/ call <= 1
    BY <1>1, <1>2, <1>3, WyomingClientAssumption DEF Send, TypeOK
  <2>2. QED
    BY <1>1, <1>2, <1>3, <2>1, SendConn DEF ClientInv
<1>4. CASE ClientStep /\ ~ \E k \in Kinds : Send(k)
  <2>1. call' = call
    BY <1>4 DEF ClientStep, Next, Drops, Connect, ClientReads, Return, Server,
       ServerWrites, ServerCloses, ExpectResponse, ReadChunk, ReadLast,
       ReadEvent, ServerReads, TrailingEvent, TrailingTimeout, ReadEnds,
       callVars
  <2>2. ConnInv
    BY <1>2, <2>1 DEF ClientInv
  <2>3. CASE Connect
    BY <2>2, <2>3 DEF Connect, ConnInv, Calling, Returns, OwnWholeReply, ItsReply, callVars
  <2>4. CASE ExpectResponse \/ ReadChunk \/ ReadLast \/ TrailingEvent
    BY <1>1, <2>2, <2>4, ReadConn
  <2>5. CASE TrailingTimeout
    <3>1. /\ step = "trailing" /\ InFlight /\ events = <<>> /\ link = "up"
          /\ kind = "synthesize" /\ taken # <<>> /\ ItsReply[Len(taken)] = "audio-stop"
          /\ requests = <<>> /\ call > 0
      BY <2>2, <2>5 DEF TrailingTimeout, ConnInv, Calling, Awaiting, InFlight
    <3>2. /\ step' = "idle" /\ result' = "ok" /\ ItsReply' = ItsReply
          /\ UNCHANGED <<link, requests, serving, events, replies, call, kind, taken>>
      BY <2>5 DEF TrailingTimeout, Finish, linkVars, ItsReply
    <3>3. Len(taken) <= Len(ItsReply) /\ ItsReply \in AudioReplies
          /\ ItsReply \in Seq(Replies)
      <4>1. ItsReply \in ServerReplies[kind] /\ kind \in Kinds
        BY <1>1, <3>1 DEF InFlight, TypeOK
      <4>2. ItsReply \in AudioReplies /\ ItsReply \in Seq(Replies)
        BY <3>1, <4>1, ReplyShape
      <4>3. QED
        BY <1>1, <3>1, <4>2 DEF InFlight, TypeOK
    <3>4. ASSUME Prompt
          PROVE  serving = <<>> /\ taken = Tagged(call, ItsReply)
      <4>1. serving = <<>>
        BY <2>5, <3>4 DEF TrailingTimeout
      <4>2. Len(taken) = Len(ItsReply)
        BY <1>1, <3>1, <4>1 DEF InFlight, TypeOK
      <4>3. QED
        BY <1>1, <3>1, <3>3, <4>1, <4>2, CarriesAll DEF InFlight, Carries, TypeOK
    <3>5. QED
      BY <3>1, <3>2, <3>3, <3>4 DEF ConnInv, Calling, Returns, OwnWholeReply, ItsReply
  <2>6. CASE ReadEnds
    <3>1. result' \in {"transport", "protocol"} /\ step' = "idle"
          /\ UNCHANGED <<requests, serving, events, taken, replies, call, kind>>
          /\ events = <<>> /\ link # "up"
      BY <2>6 DEF ReadEnds, Finish
    <3>2. serving = <<>> /\ requests = <<>>
      BY <1>1, <3>1 DEF TypeOK
    <3>3. QED
      BY <3>1, <3>2 DEF ConnInv, Calling, Returns, OwnWholeReply
  <2>7. CASE ServerReads \/ ServerWrites \/ ServerCloses
    BY <1>1, <2>2, <2>7, ServerConn
  <2>8. CASE Drops
    <3>1. result' = "ok" \/ result' = "serverError" => step = "idle"
      BY <2>2, <2>8 DEF Drops, ConnInv, Calling
    <3>2. QED
      BY <2>2, <2>8, <3>1 DEF Drops, ConnInv, Calling, Returns, OwnWholeReply, ItsReply
  <2>9. QED
    BY <1>4, <2>3, <2>4, <2>5, <2>6, <2>7, <2>8
       DEF ClientStep, Next, ClientReads, Return, Server
<1>5. QED
  BY <1>3, <1>4

-----------------------------------------------------------------------------
\* The module uses its client by the client's operations, and drops it with a
\* failed connection.
LEMMA ModuleClientStep ==
  ASSUME ModuleNext
  PROVE  ClientStep \/ UNCHANGED clientVars
<1>1. CASE \E c \in Commands : SpeechdSends(c) \/ Command(c)
  BY <1>1 DEF SpeechdSends, Command
<1>2. CASE CommandInit \/ CommandSpeak
  BY <1>2 DEF CommandInit, CommandSpeak, ClientStep, Next, Kinds, ServerReplies
<1>3. CASE InitDone \/ ReconnectFails
  BY <1>3 DEF InitDone, ReconnectFails, ClientStep, Drops
<1>4. CASE InputEnds \/ NextPiece \/ ChunkDone \/ LoseConnection \/ Spoken
  BY <1>4 DEF InputEnds, NextPiece, ChunkDone, LoseConnection, Spoken
<1>5. CASE HearChunk \/ DrainChunk \/ Listen
  BY <1>5 DEF HearChunk, DrainChunk, Listen, ClientStep, Next, ClientReads
<1>6. CASE Reconnect \/ Describe \/ Retry
  BY <1>6 DEF Reconnect, Describe, Retry, ClientStep, Next, Kinds, ServerReplies
<1>7. CASE Server \/ ServerCloses
  BY <1>7 DEF ClientStep, Next
<1>8. QED
  BY <1>1, <1>2, <1>3, <1>4, <1>5, <1>6, <1>7 DEF ModuleNext, Module, Speaking

\* The codes the module answers with.
Codes == {"200", "202", "210", "299", "301", "399", "701", "702", "703", "704",
          "705"}

\* Every step of the module, or of speech-dispatcher, keeps the module's types.
LEMMA ModuleTypeStep ==
  ASSUME ModuleTypeOK, Answering, Counted, TypeOK', ModuleNext
  PROVE  ModuleTypeOK'
<1> DEFINE T ==
      /\ mode \in {"command", "init", "speak", "pieces", "reconnect", "describe",
                   "ended"}
      /\ stdin \in Seq(Commands) /\ Len(stdin) <= 1
      /\ lines \in 0..MaxLines
      /\ out \in Seq(Codes)
      /\ first \in BOOLEAN
      /\ preamble_sent \in BOOLEAN /\ bad_format \in BOOLEAN
      /\ interrupt \in Interrupts \cup {"none", "broken"}
      /\ pieces \in 0..PiecesPerChunk
      /\ spoken \subseteq 1..MaxCalls
      /\ asked \in 0..MaxLines /\ told \in 0..MaxLines
<1> USE WyomingClientAssumption, SpeechdModuleAssumption
<1>0. T /\ told <= asked /\ asked <= lines
  BY DEF ModuleTypeOK, Codes, Counted
<1>a. SUFFICES T'
  BY DEF ModuleTypeOK, Codes
<1>b. /\ <<>> \in Seq(Commands) /\ Len(<<>>) = 0 /\ <<>> \in Seq(Codes)
      /\ {"STOP", "PAUSE", "INIT", "SPEAK"} \subseteq Commands
      /\ Interrupts \subseteq Commands
  BY DEF Commands, Interrupts
<1>c. /\ <<"202">> \in Seq(Codes) /\ <<"299">> \in Seq(Codes)
      /\ <<"399">> \in Seq(Codes) /\ <<"703">> \in Seq(Codes)
      /\ <<"704">> \in Seq(Codes) /\ <<"200">> \in Seq(Codes)
      /\ <<"210">> \in Seq(Codes) /\ <<"202", "301">> \in Seq(Codes)
      /\ <<"200", "701">> \in Seq(Codes) /\ <<"702">> \in Seq(Codes)
      /\ <<"301">> \in Seq(Codes)
      /\ "705" \in Codes /\ "301" \in Codes
  BY DEF Codes
<1>d. \A s, t \in Seq(Codes) : s \o t \in Seq(Codes)
  BY ConcatProperties
<1>1. ASSUME NEW c \in Commands, SpeechdSends(c) PROVE T'
  <2>1. <<c>> \in Seq(Commands) /\ Len(<<c>>) = 1
    BY <1>1
  <2>2. QED
    BY <1>0, <1>1, <2>1 DEF SpeechdSends, attemptVars
<1>2. ASSUME NEW c \in Commands, Command(c) PROVE T'
  <2>1. CASE c \in Interrupts
    <3>1. asked = told + 1
      BY <1>0, <1>2, <2>1 DEF Command, Counted, Pends, Holds, Interrupts
    <3>a. c \notin {"OTHER", "QUIT", "SPEAK", "INIT"}
      BY <2>1 DEF Interrupts
    <3>b. out' = <<ReplyOf(c)>> /\ told' = told + 1 /\ UNCHANGED mode
      BY <1>2, <2>1, <3>a DEF Command
    <3>c. <<ReplyOf(c)>> \in Seq(Codes)
      BY <1>c DEF ReplyOf
    <3>2. out' \in Seq(Codes) /\ told' \in 0..MaxLines /\ UNCHANGED mode
      BY <1>0, <3>1, <3>b, <3>c
    <3>3. QED
      BY <1>0, <1>2, <1>b, <3>2 DEF Command, attemptVars
  <2>2. CASE c \notin Interrupts
    <3>1. /\ out' \in {<<"200">>, <<"210">>, <<"202", "301">>, <<"399">>}
          /\ mode' \in {mode, "ended"} /\ told' = told /\ stdin' = <<>>
      BY <1>2, <2>2 DEF Command
    <3>2. out' \in Seq(Codes)
      BY <1>c, <3>1
    <3>3. QED
      BY <1>0, <1>2, <1>b, <3>1, <3>2 DEF Command, attemptVars
  <2>3. QED
    BY <2>1, <2>2
<1>3. CASE CommandInit
  BY <1>0, <1>3, <1>b DEF CommandInit, attemptVars
<1>4. CASE CommandSpeak
  <2>1. /\ mode' = "speak" /\ out' = <<"202">> /\ first' = TRUE
        /\ spoken' = {} /\ stdin' = <<>> /\ preamble_sent' = FALSE
        /\ bad_format' = FALSE /\ interrupt' = "none"
        /\ UNCHANGED <<lines, pieces, asked, told>>
    BY <1>4 DEF CommandSpeak, FreshAttempt
  <2>2. out' \in Seq(Codes)
    BY <1>c, <2>1
  <2>3. stdin' \in Seq(Commands) /\ Len(stdin') <= 1
    BY <2>1
  <2>4. QED
    BY <1>0, <2>1, <2>2, <2>3
<1>5. CASE InitDone
  BY <1>0, <1>5, <1>c DEF InitDone, attemptVars
<1>6. CASE InputEnds
  BY <1>0, <1>6 DEF InputEnds, attemptVars
<1>7. CASE HearChunk
  <2>1. out' \in Seq(Codes)
    <3>1. out' = out \/ out' = out \o <<"200", "701">>
      BY <1>7 DEF HearChunk
    <3>2. QED
      BY <1>0, <1>c, <1>d, <3>1
  <2>2. QED
    BY <1>0, <1>7, <2>1 DEF HearChunk, Cuts
<1>8. CASE NextPiece
  <2>1. stdin' \in Seq(Commands) /\ Len(stdin') <= 1
    <3>1. stdin' = <<>> \/ stdin' = stdin
      BY <1>8 DEF NextPiece
    <3>2. CASE stdin' = <<>>
      BY <3>2
    <3>3. CASE stdin' = stdin
      BY <1>0, <3>3
    <3>4. QED
      BY <3>1, <3>2, <3>3
  <2>2. interrupt' \in Interrupts \cup {"none", "broken"}
    BY <1>0, <1>8 DEF NextPiece, Pending
  <2>3. out' \in Seq(Codes)
    BY <1>0, <1>8, <1>c DEF NextPiece
  <2>4. pieces' \in 0..PiecesPerChunk
    BY <1>0, <1>8 DEF NextPiece
  <2>5. spoken' \subseteq 1..MaxCalls
    <3>1. taken \in Seq(Tags) /\ taken # <<>>
      BY <1>8 DEF NextPiece, Answering, ModuleTypeOK, TypeOK
    <3>2. taken[Len(taken)] \in Tags
      BY <3>1
    <3>3. taken[Len(taken)].of \in 1..MaxCalls
      BY <3>2 DEF Tags
    <3>4. QED
      BY <1>0, <1>8, <3>3 DEF NextPiece
  <2>6. QED
    BY <1>0, <1>8, <2>1, <2>2, <2>3, <2>4, <2>5 DEF NextPiece
<1>9. CASE ChunkDone
  BY <1>0, <1>9 DEF ChunkDone, attemptVars
<1>10. CASE DrainChunk \/ Listen \/ Describe
  BY <1>0, <1>10 DEF DrainChunk, Listen, Describe, moduleVars
<1>11. CASE LoseConnection
  BY <1>0, <1>11 DEF LoseConnection, attemptVars
<1>12. CASE Spoken
  <2>1. Verdict \in Seq(Codes)
    BY <1>c, <1>d DEF Verdict, ReplyOf
  <2>2. out' \in Seq(Codes)
    <3>1. out' = out \/ out' = out \o Verdict
      BY <1>12 DEF Spoken
    <3>2. QED
      BY <1>0, <1>d, <2>1, <3>1
  <2>3. told' \in 0..MaxLines
    <3>1. CASE interrupt \in Interrupts
      <4>1. asked >= told + 1
        BY <1>0, <1>12, <3>1 DEF Spoken, Attempted, Counted, Pends, Holds
      <4>2. QED
        BY <1>0, <1>12, <4>1 DEF Spoken
    <3>2. CASE interrupt \notin Interrupts
      <4>1. Final(Verdict) \in {"702", "301"}
        BY <3>2 DEF Verdict, Final
      <4>2. QED
        BY <1>0, <1>12, <4>1 DEF Spoken
    <3>3. QED
      BY <3>1, <3>2
  <2>4. QED
    BY <1>0, <1>12, <2>2, <2>3 DEF Spoken, attemptVars
<1>13. CASE Reconnect
  BY <1>0, <1>13 DEF Reconnect, attemptVars
<1>14. CASE ReconnectFails
  BY <1>0, <1>14, <1>c DEF ReconnectFails, attemptVars
<1>15. CASE Retry
  BY <1>0, <1>15 DEF Retry, FreshAttempt
<1>16. CASE UNCHANGED moduleVars
  BY <1>0, <1>16 DEF moduleVars
<1>17. QED
  BY <1>1, <1>2, <1>3, <1>4, <1>5, <1>6, <1>7, <1>8, <1>9, <1>10, <1>11, <1>12,
     <1>13, <1>14, <1>15, <1>16 DEF ModuleNext, Module, Speaking

\* The answers to a message, put together.
LEMMA Refusal ==
  Append(<<"202">>, "301") = <<"202", "301">> /\ <<"202">> \o <<"301">> = <<"202", "301">>
<1> DEFINE u == <<"202", "301">>
           v == Append(<<"202">>, "301")
           w == <<"202">> \o <<"301">>
<1>1. u \in Seq(Codes) /\ Len(u) = 2 /\ u[1] = "202" /\ u[2] = "301"
  BY DEF Codes
<1>2. v \in Seq(Codes) /\ Len(v) = 2 /\ v[1] = "202" /\ v[2] = "301"
  BY DEF Codes
<1>3. w \in Seq(Codes) /\ Len(w) = 2 /\ w[1] = "202" /\ w[2] = "301"
  BY DEF Codes
<1> HIDE DEF u, v, w
<1>4. \A i \in 1..Len(v) : v[i] = u[i]
  BY <1>1, <1>2
<1>5. \A i \in 1..Len(w) : w[i] = u[i]
  BY <1>1, <1>3
<1>6. v = u
  BY <1>1, <1>2, <1>4, SeqEqual
<1>7. w = u
  BY <1>1, <1>3, <1>5, SeqEqual
<1>8. QED
  BY <1>6, <1>7 DEF u, v, w

\* The preamble (202, 200 OK, 701 BEGIN) begins an answer.
LEMMA Preamble ==
  /\ <<"202">> \o <<"200", "701">> \in Seq(Codes)
  /\ Begun(<<"202">> \o <<"200", "701">>)
  /\ <<"202">> \o (<<"200", "701">> \o <<"702">>)
       = (<<"202">> \o <<"200", "701">>) \o <<"702">>
<1> DEFINE u == <<"202">> \o <<"200", "701">>
<1>1. /\ <<"202">> \in Seq(Codes) /\ <<"200", "701">> \in Seq(Codes)
      /\ <<"702">> \in Seq(Codes)
  BY DEF Codes
<1>2. u \in Seq(Codes) /\ Len(u) = 3 /\ u[1] = "202" /\ u[2] = "200" /\ u[3] = "701"
  BY DEF Codes
<1>3. <<"202">> \o (<<"200", "701">> \o <<"702">>) = u \o <<"702">>
  BY <1>1, ConcatAssociative
<1> HIDE DEF u
<1>4. Begun(u)
  BY <1>2 DEF Begun
<1>5. QED
  BY <1>2, <1>3, <1>4 DEF u

\* What ends a message that has begun.
LEMMA Ending ==
  ASSUME NEW s \in Seq(Codes), Begun(s), NEW v, v \in {"702", "703", "704"}
  PROVE  LET t == s \o <<v>>
         IN  /\ Len(t) >= 4 /\ t[1] = "202" /\ t[2] = "200" /\ t[3] = "701"
             /\ Final(t) = v /\ \A i \in 4..(Len(t) - 1) : t[i] = "705"
<1> DEFINE t == s \o <<v>>
<1>1. v \in Codes
  BY DEF Codes
<1>2. Len(t) = Len(s) + 1 /\ t[Len(s) + 1] = v /\ Len(s) \in Nat
      /\ \A i \in 1..Len(s) : t[i] = s[i]
  BY <1>1
<1> HIDE DEF t
<1>3. QED
  BY <1>2 DEF Begun, Final, t

\* What the module has written of the current answer is a beginning of one that
\* speech-dispatcher expects, and is one when the module is back at its loop.
LEMMA AnsweringStep ==
  ASSUME ModuleTypeOK, Answering, MessageIsAnswered, ModuleNext
  PROVE  Answering' /\ MessageIsAnswered'
<1>0. out \in Seq(Codes) /\ preamble_sent \in BOOLEAN
  BY DEF ModuleTypeOK, Codes
<1>1. ASSUME NEW c \in Commands, SpeechdSends(c)
      PROVE  Answering' /\ MessageIsAnswered'
  BY <1>1 DEF SpeechdSends, Answering, MessageIsAnswered, Begun, clientVars,
     attemptVars
<1>2. ASSUME NEW c \in Commands, Command(c)
      PROVE  Answering' /\ MessageIsAnswered'
  <2>1. mode' \in {"command", "ended"}
    BY <1>2 DEF Command
  <2>2. out' \in {<<"703">>, <<"704">>, <<"200">>, <<"210">>, <<"399">>,
                 <<"202", "301">>}
    BY <1>2 DEF Command, ReplyOf
  <2>3. QED
    BY <2>1, <2>2 DEF Answering, MessageIsAnswered
<1>3. CASE CommandInit
  BY <1>3 DEF CommandInit, Answering, MessageIsAnswered
<1>4. CASE CommandSpeak
  BY <1>4 DEF CommandSpeak, FreshAttempt, Answering, MessageIsAnswered, Interrupts
<1>5. CASE InitDone
  <2>1. mode' = "command" /\ out' \in {<<"299">>, <<"399">>}
    BY <1>5 DEF InitDone
  <2>2. QED
    BY <2>1 DEF Answering, MessageIsAnswered
<1>6. CASE InputEnds
  BY <1>6 DEF InputEnds, Answering, MessageIsAnswered
<1>7. CASE HearChunk
  <2>1. /\ mode = "speak" /\ mode' \in {"speak", "pieces"}
        /\ taken' # <<>> /\ interrupt = "none" /\ interrupt' \in {"none", "broken"}
        /\ mode' = "pieces" => preamble_sent' /\ interrupt' = "none"
    <3>1. taken' # <<>>
      <4>1. events \in Seq(Tags) /\ taken \in Seq(Tags)
        BY DEF ModuleTypeOK, TypeOK
      <4>2. events # <<>> /\ taken' = Append(taken, Head(events))
        BY <1>7 DEF HearChunk, ReadChunk, ReadEvent
      <4>3. Head(events) \in Tags
        BY <4>1, <4>2
      <4>4. QED
        BY <4>1, <4>2, <4>3
    <3>2. QED
      BY <1>7, <3>1 DEF HearChunk, Deaf
  <2>2. IF preamble_sent' THEN Begun(out') ELSE out' = <<"202">>
    <3>1. CASE preamble_sent
      <4>1. preamble_sent' /\ out' = out /\ Begun(out)
        BY <1>7, <3>1 DEF HearChunk, Answering
      <4>2. QED
        BY <4>1
    <3>2. CASE ~preamble_sent /\ ~preamble_sent'
      BY <1>7, <3>2 DEF HearChunk, Answering
    <3>3. CASE ~preamble_sent /\ preamble_sent'
      <4>1. out' = <<"202">> \o <<"200", "701">>
        BY <1>7, <3>3 DEF HearChunk, Answering
      <4>2. QED
        BY <3>3, <4>1, Preamble
    <3>4. QED
      BY <3>1, <3>2, <3>3
  <2>3. QED
    BY <2>1, <2>2 DEF Answering, MessageIsAnswered, Begun, Interrupts
<1>8. CASE NextPiece
  <2>1. /\ mode = "pieces" /\ preamble_sent /\ Begun(out)
        /\ UNCHANGED <<mode, preamble_sent, taken>> /\ taken # <<>>
        /\ interrupt' # "none" /\ pieces > 0 => pieces' = 0 \/ interrupt' = interrupt
        /\ pieces > 0 /\ interrupt = "none"
    BY <1>8 DEF NextPiece, Answering, clientVars
  <2>2. Begun(out')
    <3>1. out' = out \/ out' = Append(out, "705")
      BY <1>8 DEF NextPiece
    <3>2. CASE out' = out
      BY <2>1, <3>2
    <3>3. CASE out' = Append(out, "705")
      <4>1. "705" \in Codes
        BY DEF Codes
      <4>2. /\ Len(out') = Len(out) + 1 /\ out'[Len(out) + 1] = "705"
            /\ \A i \in 1..Len(out) : out'[i] = out[i] /\ Len(out) \in Nat
        BY <1>0, <3>3, <4>1
      <4>3. QED
        BY <2>1, <4>2 DEF Begun
    <3>4. QED
      BY <3>1, <3>2, <3>3
  <2>3. QED
    BY <2>1, <2>2 DEF Answering, MessageIsAnswered, Begun
<1>9. CASE ChunkDone
  BY <1>9 DEF ChunkDone, Answering, MessageIsAnswered, Begun, attemptVars
<1>10. CASE DrainChunk \/ Listen \/ Describe
  BY <1>10 DEF DrainChunk, Listen, Describe, Answering, MessageIsAnswered,
     Begun, moduleVars, attemptVars
<1>11. CASE LoseConnection
  BY <1>11 DEF LoseConnection, MayRetry, Attempted, Answering,
     MessageIsAnswered, attemptVars
<1>12. CASE Spoken
  <2>1. mode = "speak" /\ (IF preamble_sent THEN Begun(out) ELSE out = <<"202">>)
        /\ (interrupt \in Interrupts => preamble_sent)
    BY <1>12 DEF Spoken, Attempted, Answering
  <2>2. CASE mode' = "ended"
    BY <2>2 DEF Answering, MessageIsAnswered
  <2>3. CASE mode' = "command" /\ out' = out \o Verdict /\ preamble_sent
    <3>1. Verdict \in {<<"702">>, <<"703">>, <<"704">>}
      <4>1. CASE interrupt \in Interrupts
        BY <4>1 DEF Verdict, ReplyOf
      <4>2. CASE interrupt \notin Interrupts
        BY <2>3, <4>2 DEF Verdict
      <4>3. QED
        BY <4>1, <4>2
    <3>2. PICK v \in {"702", "703", "704"} : out' = out \o <<v>>
      BY <2>3, <3>1
    <3>3. /\ Len(out') >= 4 /\ out'[1] = "202" /\ out'[2] = "200"
          /\ out'[3] = "701" /\ Final(out') = v
          /\ \A i \in 4..(Len(out') - 1) : out'[i] = "705"
      BY <1>0, <2>1, <2>3, <3>2, Ending
    <3>4. QED
      BY <2>3, <3>3 DEF Answering, MessageIsAnswered, Ends
  <2>4. CASE mode' = "command" /\ out' = out \o Verdict /\ ~preamble_sent
    <3>1. Verdict = <<"200", "701">> \o <<"702">> \/ Verdict = <<"301">>
      BY <2>1, <2>4 DEF Verdict
    <3>2. CASE Verdict = <<"301">>
      <4>1. out' = <<"202", "301">>
        BY <2>1, <2>4, <3>2, Refusal
      <4>2. QED
        BY <2>4, <4>1 DEF Answering, MessageIsAnswered
    <3>3. CASE Verdict = <<"200", "701">> \o <<"702">>
      <4>1. out' = (<<"202">> \o <<"200", "701">>) \o <<"702">>
        BY <2>1, <2>4, <3>3, Preamble
      <4>2. /\ Len(out') >= 4 /\ out'[1] = "202" /\ out'[2] = "200"
            /\ out'[3] = "701" /\ Final(out') = "702"
            /\ \A i \in 4..(Len(out') - 1) : out'[i] = "705"
        BY <4>1, Preamble, Ending
      <4>3. QED
        BY <2>4, <4>2 DEF Answering, MessageIsAnswered, Ends
    <3>4. QED
      BY <3>1, <3>2, <3>3
  <2>5. QED
    BY <1>0, <1>12, <2>2, <2>3, <2>4 DEF Spoken
<1>13. CASE Reconnect
  BY <1>13 DEF Reconnect, Answering, MessageIsAnswered
<1>14. CASE ReconnectFails
  <2>1. mode' = "command" /\ out' = Append(<<"202">>, "301")
    BY <1>14 DEF ReconnectFails, Answering
  <2>2. QED
    BY <2>1, Refusal DEF Answering, MessageIsAnswered
<1>15. CASE Retry
  BY <1>15 DEF Retry, FreshAttempt, Answering, MessageIsAnswered, Interrupts
<1>16. CASE (Server \/ ServerCloses) /\ UNCHANGED moduleVars
  <2>1. taken' = taken
    BY <1>16 DEF Server, ServerReads, ServerWrites, ServerCloses, callVars
  <2>2. QED
    BY <1>16, <2>1 DEF Answering, MessageIsAnswered, Begun, moduleVars, attemptVars
<1>17. QED
  BY <1>1, <1>2, <1>3, <1>4, <1>5, <1>6, <1>7, <1>8, <1>9, <1>10, <1>11, <1>12,
     <1>13, <1>14, <1>15, <1>16 DEF ModuleNext, Module, Speaking

\* The interrupts asked for are those answered, and the one that waits on the
\* input or in poll_fd_interrupt: each step keeps the count.
LEMMA CountedStep ==
  ASSUME ModuleTypeOK, Answering, Counted, ModuleNext
  PROVE  Counted'
<1>0. /\ asked \in Nat /\ told \in Nat /\ lines \in Nat
      /\ "STOP" \in Interrupts /\ "PAUSE" \in Interrupts
      /\ \A c \in {"INIT", "SPEAK", "OTHER", "QUIT", "none", "broken"} :
           c \notin Interrupts
  BY SpeechdModuleAssumption DEF ModuleTypeOK, Interrupts
<1>a. /\ mode # "ended" => asked = told + Pends + Holds
      /\ told <= asked /\ asked <= lines
      /\ Pends \in {0, 1} /\ Holds \in {0, 1}
  BY DEF Counted, Pends, Holds
<1>1. ASSUME NEW c \in Commands, SpeechdSends(c) PROVE Counted'
  <2>1. Pends = 0 /\ Pends' = (IF c \in Interrupts THEN 1 ELSE 0) /\ Holds' = Holds
    BY <1>1 DEF SpeechdSends, Pends, Holds, attemptVars
  <2>2. QED
    BY <1>0, <1>1, <1>a, <2>1 DEF SpeechdSends, Counted
<1>2. ASSUME NEW c \in Commands, Command(c) PROVE Counted'
  <2>1. /\ Pends = (IF c \in Interrupts THEN 1 ELSE 0) /\ Pends' = 0
        /\ Holds = 0 /\ Holds' = 0
    BY <1>2 DEF Command, Pends, Holds
  <2>2. told' = (IF c \in Interrupts THEN told + 1 ELSE told)
    BY <1>0, <1>2 DEF Command
  <2>3. QED
    BY <1>0, <1>2, <1>a, <2>1, <2>2 DEF Command, Counted
<1>3. CASE CommandInit \/ CommandSpeak
  <2>1. Pends = 0 /\ Pends' = 0 /\ Holds = 0 /\ Holds' = 0
    BY <1>0, <1>3 DEF CommandInit, CommandSpeak, FreshAttempt, Pends, Holds
  <2>2. UNCHANGED <<lines, asked, told>> /\ mode = "command"
    BY <1>3 DEF CommandInit, CommandSpeak
  <2>3. QED
    BY <1>0, <1>a, <2>1, <2>2 DEF Counted
<1>4. CASE InputEnds
  BY <1>0, <1>4, <1>a DEF InputEnds, Counted
<1>5. CASE HearChunk
  <2>1. /\ Holds = 0 /\ Holds' = 0 /\ Pends' = Pends /\ mode = "speak"
        /\ UNCHANGED <<lines, asked, told>>
    BY <1>0, <1>5 DEF HearChunk, Deaf, Pends, Holds
  <2>2. QED
    BY <1>0, <1>a, <2>1 DEF Counted
<1>6. CASE NextPiece
  <2>1. /\ mode = "pieces" /\ mode' = mode /\ interrupt = "none"
        /\ UNCHANGED <<lines, asked, told>>
    BY <1>6 DEF NextPiece, Answering
  <2>2. asked = told + Pends + Holds
    BY <1>a, <2>1
  <2>3. CASE Pending /\ stdin' = <<>> /\ interrupt' = Head(stdin)
    <3>1. Head(stdin) = stdin[1]
      BY <2>3 DEF Pending, ModuleTypeOK
    <3>2. Pends = 1 /\ Holds = 0 /\ Pends' = 0 /\ Holds' = 1
      BY <1>0, <2>1, <2>3, <3>1 DEF Pending, Pends, Holds
    <3>3. asked' = told' + Pends' + Holds'
      BY <1>0, <2>1, <2>2, <3>2
    <3>4. QED
      BY <1>a, <2>1, <3>3 DEF Counted
  <2>4. CASE stdin = <<>> /\ stdin' = stdin
           /\ (interrupt' = interrupt \/ interrupt' = "broken")
    <3>1. Pends = 0 /\ Holds = 0 /\ Pends' = 0 /\ Holds' = 0
      BY <1>0, <2>1, <2>4 DEF Pends, Holds
    <3>2. asked' = told' + Pends' + Holds'
      BY <1>0, <2>1, <2>2, <3>1
    <3>3. QED
      BY <1>a, <2>1, <3>2 DEF Counted
  <2>5. QED
    BY <1>6, <2>3, <2>4 DEF NextPiece
<1>7. CASE Spoken
  <2>1. mode = "speak" /\ UNCHANGED <<stdin, interrupt, lines, asked>>
    BY <1>7 DEF Spoken, Attempted, attemptVars
  <2>2. CASE mode' = "ended"
    BY <1>0, <1>7, <1>a, <2>1, <2>2 DEF Spoken, Counted
  <2>3. CASE mode' = "command"
    <3>1. told' = told + Holds
      <4>1. CASE interrupt \in Interrupts
        <5>1. Final(Verdict) \in {"703", "704"}
          BY <4>1 DEF Verdict, Final, ReplyOf
        <5>2. QED
          BY <1>7, <2>1, <2>3, <4>1, <5>1 DEF Spoken, Holds
      <4>2. CASE interrupt \notin Interrupts
        <5>1. Final(Verdict) \in {"702", "301"}
          BY <4>2 DEF Verdict, Final
        <5>2. QED
          BY <1>0, <1>7, <2>1, <2>3, <4>2, <5>1 DEF Spoken, Holds
      <4>3. QED
        BY <4>1, <4>2
    <3>2. Holds' = 0 /\ Pends' = Pends
      BY <2>1, <2>3 DEF Holds, Pends
    <3>3. QED
      BY <1>0, <1>a, <2>1, <2>3, <3>1, <3>2 DEF Counted
  <2>4. QED
    BY <1>7, <2>2, <2>3 DEF Spoken
<1>8. ASSUME UNCHANGED <<stdin, lines, asked, told>>, Holds' = Holds,
             mode # "ended"
      PROVE  Counted'
  BY <1>8, <1>a DEF Counted, Pends
<1>9. CASE InitDone \/ ChunkDone \/ Reconnect \/ ReconnectFails
  <2>1. Holds' = Holds
    BY <1>9 DEF InitDone, ChunkDone, Reconnect, ReconnectFails, Holds, attemptVars
  <2>2. UNCHANGED <<stdin, lines, asked, told>> /\ mode # "ended"
    BY <1>9 DEF InitDone, ChunkDone, Reconnect, ReconnectFails
  <2>3. QED
    BY <1>8, <2>1, <2>2
<1>10. CASE LoseConnection
  <2>1. mode = "speak" /\ interrupt \notin Interrupts /\ mode' = "reconnect"
    BY <1>10 DEF LoseConnection, Attempted, MayRetry, Answering
  <2>2. Holds' = Holds
    BY <2>1 DEF Holds
  <2>3. QED
    BY <1>8, <1>10, <2>1, <2>2 DEF LoseConnection
<1>11. CASE Retry
  <2>1. Holds' = Holds /\ mode # "ended"
    BY <1>0, <1>11 DEF Retry, FreshAttempt, Holds
  <2>2. QED
    BY <1>8, <1>11, <2>1 DEF Retry
<1>12. CASE UNCHANGED moduleVars
  BY <1>12 DEF Counted, Pends, Holds, moduleVars, attemptVars
<1>13. QED
  BY <1>1, <1>2, <1>3, <1>4, <1>5, <1>6, <1>7, <1>9, <1>10, <1>11, <1>12
     DEF ModuleNext, Module, Speaking, DrainChunk, Listen, Describe

\* What is heard is of the last call made for the message, through the retry of
\* a message whose first connection was lost.
LEMMA SpeaksStep ==
  ASSUME Prompt, ClientInv, ModuleTypeOK, Answering, Speaks, ModuleNext
  PROVE  Speaks'
<1>1. ASSUME NEW c \in Commands, SpeechdSends(c) PROVE Speaks'
  <2>1. stdin' = <<"INIT">> => c = "INIT"
    BY <1>1 DEF SpeechdSends
  <2>2. stdin' = <<"INIT">> => mode' = "command" /\ link' = "none"
    BY <1>1, <2>1 DEF SpeechdSends, Interrupts, clientVars
  <2>3. QED
    BY <1>1, <2>2 DEF SpeechdSends, Speaks, clientVars, attemptVars
<1>2. ASSUME NEW c \in Commands, Command(c) PROVE Speaks'
  <2>1. mode = "command" /\ mode' \in {"command", "ended"} /\ stdin' = <<>>
        /\ UNCHANGED <<clientVars, spoken>>
    BY <1>2 DEF Command
  <2>2. QED
    BY <2>1 DEF Speaks, clientVars
<1>3. CASE CommandInit
  <2>1. spoken = {} /\ spoken' = spoken /\ mode' = "init" /\ stdin' = <<>>
    BY <1>3 DEF CommandInit, Speaks
  <2>2. QED
    BY <2>1 DEF Speaks
<1>4. CASE CommandSpeak
  <2>1. spoken' = {} /\ mode' = "speak" /\ stdin' = <<>> /\ kind' = "synthesize"
    BY <1>4 DEF CommandSpeak, Send
  <2>2. QED
    BY <2>1 DEF Speaks
<1>5. CASE InitDone
  <2>1. /\ mode = "init" /\ mode' = "command" /\ spoken' = spoken /\ stdin' = stdin
        /\ step' = "idle"
    BY <1>5 DEF InitDone, clientVars
  <2>2. QED
    BY <2>1 DEF Speaks
<1>6. CASE InputEnds
  BY <1>6 DEF InputEnds, Speaks, clientVars
<1>7. CASE HearChunk
  <2>1. /\ mode = "speak" /\ mode' \in {"speak", "pieces"} /\ step' = "stream"
        /\ UNCHANGED <<kind, call, link, spoken, stdin>>
        /\ ~preamble_sent' => ~preamble_sent
    BY <1>7 DEF HearChunk, ReadChunk, ReadEvent
  <2>2. QED
    BY <2>1 DEF Speaks
<1>8. CASE NextPiece
  <2>1. /\ mode = "pieces" /\ preamble_sent /\ step = "stream" /\ taken # <<>>
        /\ UNCHANGED <<clientVars, mode, preamble_sent>>
    BY <1>8 DEF NextPiece, Answering, Speaks
  <2>2. Carries(taken, 0) /\ taken \in Seq(Tags)
    BY <2>1 DEF ClientInv, ConnInv, Calling, Awaiting, InFlight, TypeOK
  <2>3. taken[Len(taken)].of = call
    <3>1. Len(taken) \in 1..Len(taken)
      BY <2>1, <2>2
    <3>2. taken[Len(taken)] = Event(call, ItsReply[0 + Len(taken)])
      BY <2>2, <3>1 DEF Carries
    <3>3. QED
      BY <3>2 DEF Event
  <2>4. spoken' = spoken \/ spoken' = spoken \cup {call}
    BY <1>8, <2>3 DEF NextPiece
  <2>5. stdin' = stdin \/ stdin' = <<>>
    BY <1>8 DEF NextPiece
  <2>6. link # "none"
    BY <2>1 DEF ClientInv, ConnInv, Calling
  <2>7. QED
    BY <2>1, <2>4, <2>5, <2>6 DEF Speaks, clientVars
<1>9. CASE ChunkDone
  BY <1>9 DEF ChunkDone, Speaks, clientVars, attemptVars
<1>10. CASE DrainChunk \/ Listen
  <2>1. /\ mode \in {"init", "speak", "describe"} /\ UNCHANGED moduleVars
        /\ UNCHANGED <<kind, call>> /\ (link' = "none" => link = "none")
    BY <1>10 DEF DrainChunk, Listen, ReadChunk, ExpectResponse, Return, ReadLast,
       TrailingEvent, TrailingTimeout, ReadEnds, ReadEvent, linkVars
  <2>2. QED
    BY <2>1 DEF Speaks, moduleVars, attemptVars
<1>11. CASE Describe
  BY <1>11 DEF Describe, Speaks, moduleVars, attemptVars
<1>12. CASE LoseConnection
  BY <1>12 DEF LoseConnection, Attempted, MayRetry, Speaks, clientVars, attemptVars
<1>13. CASE Spoken
  <2>1. /\ mode = "speak" /\ step = "idle" /\ mode' \in {"command", "ended"}
        /\ UNCHANGED <<clientVars, spoken, stdin>>
    BY <1>13 DEF Spoken, Attempted
  <2>2. QED
    BY <2>1 DEF Speaks, clientVars
<1>14. CASE Reconnect
  BY <1>14 DEF Reconnect, Speaks
<1>15. CASE ReconnectFails
  BY <1>15 DEF ReconnectFails, Speaks
<1>16. CASE Retry
  <2>1. /\ mode = "describe" /\ mode' = "speak" /\ kind' = "synthesize"
        /\ UNCHANGED <<spoken, stdin>>
    BY <1>16 DEF Retry, Send
  <2>2. QED
    BY <2>1 DEF Speaks
<1>17. CASE (Server \/ ServerCloses) /\ UNCHANGED moduleVars
  <2>1. UNCHANGED <<kind, call, step>> /\ link' # "none" /\ link = "up"
    BY <1>17 DEF Server, ServerReads, ServerWrites, ServerCloses, callVars
  <2>2. QED
    BY <1>17, <2>1 DEF Speaks, moduleVars, attemptVars
<1>18. QED
  BY <1>1, <1>2, <1>3, <1>4, <1>5, <1>6, <1>7, <1>8, <1>9, <1>10, <1>11, <1>12,
     <1>13, <1>14, <1>15, <1>16, <1>17 DEF ModuleNext, Module, Speaking

-----------------------------------------------------------------------------
\* cw-say uses its client by the client's operations.
LEMMA SayClientStep ==
  ASSUME SayNext
  PROVE  ClientStep \/ UNCHANGED clientVars
<1>1. CASE ConnectClient \/ Request
  BY <1>1 DEF ConnectClient, Request, ClientStep, Next, Kinds, ServerReplies
<1>2. CASE Read \/ Play
  BY <1>2 DEF Read, Play, ClientStep, Next, ClientReads
<1>3. CASE ResolveText \/ ConnectFails \/ TimesOut \/ CallFailed \/ Listed \/ Played
  BY <1>3 DEF ResolveText, ConnectFails, TimesOut, CallFailed, Listed, Played
<1>4. CASE Synthesized \/ CreateFile \/ WriteFile \/ WriteFileFails \/ RemoveOutput
  BY <1>4 DEF Synthesized, CreateFile, WriteFile, WriteFileFails, RemoveOutput
<1>5. CASE Server \/ ServerCloses
  BY <1>5 DEF ClientStep, Next
<1>6. QED
  BY <1>1, <1>2, <1>3, <1>4, <1>5 DEF SayNext, Saying

\* What cw-say puts on standard output.
SayWords == {"header", "empty header", "chunk"}

\* Every step of cw-say keeps its types.
LEMMA SayTypeStep ==
  ASSUME SayTypeOK, SayNext
  PROVE  SayTypeOK'
<1>0. output \in Seq(SayWords)
  BY DEF SayTypeOK, SayWords
<1>1. output' \in Seq(SayWords)
  <2>1. /\ <<>> \in Seq(SayWords) /\ <<"header">> \in Seq(SayWords)
        /\ <<"chunk">> \in Seq(SayWords) /\ "empty header" \in SayWords
    BY DEF SayWords
  <2>2. HeaderFirst \in Seq(SayWords)
    BY <2>1 DEF HeaderFirst
  <2>3. CASE Play
    <3>1. \/ output' = output \/ output' = output \o HeaderFirst
          \/ output' = output \o HeaderFirst \o <<"chunk">>
      BY <2>3 DEF Play
    <3>2. output \o HeaderFirst \in Seq(SayWords)
      BY <1>0, <2>2, ConcatProperties
    <3>3. output \o HeaderFirst \o <<"chunk">> \in Seq(SayWords)
      BY <2>1, <3>2, ConcatProperties
    <3>4. QED
      BY <1>0, <3>1, <3>2, <3>3
  <2>4. CASE Played
    <3>1. output' = output \/ output' = Append(output, "empty header")
      BY <2>4 DEF Played
    <3>2. "empty header" \in SayWords
      BY DEF SayWords
    <3>3. Append(output, "empty header") \in Seq(SayWords)
      BY <1>0, <3>2, AppendProperties
    <3>4. QED
      BY <1>0, <3>1, <3>3
  <2>5. CASE ~Play /\ ~Played
    <3>1. output' = output
      BY <2>5 DEF SayNext, Saying, ResolveText, ConnectClient, ConnectFails, Request,
         Read, TimesOut, CallFailed, Listed, Synthesized, CreateFile, WriteFile,
         WriteFileFails, RemoveOutput, sayVars
    <3>2. QED
      BY <1>0, <3>1
  <2>6. QED
    BY <2>3, <2>4, <2>5
<1>2. UNCHANGED <<args, removable>>
  BY DEF SayNext, Saying, ResolveText, ConnectClient, ConnectFails, Request, Read,
     Play, Played, TimesOut, CallFailed, Listed, Synthesized, CreateFile,
     WriteFile, WriteFileFails, RemoveOutput, sayVars
<1>3. /\ say' \in {"text", "connect", "request", "call", "create", "write", "remove",
                   "done"}
      /\ exit' \in {"none", "ok", "error"}
      /\ say' = "done" <=> exit' # "none"
      /\ file' \in {"none", "old", "part", "whole"}
  <2>1. CASE ResolveText \/ ConnectClient \/ ConnectFails \/ Request \/ Read \/ Play
    BY <2>1 DEF SayTypeOK, ResolveText, ConnectClient, ConnectFails, Request, Read,
       Play, ExitWith, sayVars
  <2>2. CASE TimesOut \/ CallFailed \/ Listed \/ Played \/ Synthesized
    BY <2>2 DEF SayTypeOK, TimesOut, CallFailed, Listed, Played, PlayedStatus,
       Synthesized, Returned, ExitWith
  <2>3. CASE CreateFile \/ WriteFile \/ WriteFileFails \/ RemoveOutput
    BY <2>3 DEF SayTypeOK, CreateFile, WriteFile, WriteFileFails, AfterFailedWrite,
       RemoveOutput, ExitWith
  <2>4. CASE UNCHANGED sayVars
    BY <2>4 DEF SayTypeOK, sayVars
  <2>5. QED
    BY <2>1, <2>2, <2>3, <2>4 DEF SayNext, Saying
<1>4. QED
  BY <1>1, <1>2, <1>3 DEF SayTypeOK, SayWords

\* Where the program is, and how far its call.
LEMMA SayWhereStep ==
  ASSUME SayTypeOK, TypeOK, SayWhere, SayNext
  PROVE  SayWhere'
<1>1. ASSUME UNCHANGED <<call, kind, args>>, step = "idle" => step' = "idle",
             say' = say, exit' = exit,
             say \in {"text", "connect", "request"} =>
               UNCHANGED <<output, header_written, write_error>>
      PROVE  SayWhere'
  BY <1>1 DEF SayWhere
<1>2. CASE (Server \/ ServerCloses) /\ UNCHANGED sayVars
  BY <1>1, <1>2 DEF Server, ServerReads, ServerWrites, ServerCloses, callVars, sayVars
<1>3. CASE Read \/ Play
  <2>1. say = "call" /\ say' = say /\ exit' = exit /\ args' = args
    BY <1>3 DEF Read, Play, sayVars
  <2>2. UNCHANGED <<call, kind>> /\ step # "idle"
    BY <1>3 DEF Read, Play, ExpectResponse, Return, ReadChunk, ReadLast,
       TrailingEvent, TrailingTimeout, ReadEnds, ReadEvent
  <2>3. QED
    BY <1>1, <2>1, <2>2
<1>4. CASE ResolveText \/ ConnectFails \/ TimesOut \/ CallFailed
  BY <1>4 DEF ResolveText, ConnectFails, TimesOut, CallFailed, Returned, SayWhere,
     ExitWith, clientVars
<1>5. CASE ConnectClient
  BY <1>5 DEF ConnectClient, Connect, callVars, SayWhere, SayTypeOK
<1>6. CASE Request
  BY <1>6 DEF Request, Send, SayWhere, SayTypeOK
<1>7. CASE Listed \/ Played \/ Synthesized
  BY <1>7 DEF Listed, Played, Synthesized, Returned, SayWhere, ExitWith,
     clientVars, SayTypeOK
<1>8. CASE CreateFile
  BY <1>8 DEF CreateFile, SayWhere, clientVars, SayTypeOK
<1>9. CASE WriteFile
  <2>1. call = 1 /\ step = "idle"
    BY <1>9 DEF WriteFile, SayWhere
  <2>2. QED
    BY <1>9, <2>1 DEF WriteFile, SayWhere, ExitWith, clientVars, SayTypeOK
<1>10. CASE WriteFileFails \/ RemoveOutput
  BY <1>10 DEF WriteFileFails, AfterFailedWrite, RemoveOutput, SayWhere, ExitWith,
     clientVars, SayTypeOK
<1>11. QED
  BY <1>2, <1>3, <1>4, <1>5, <1>6, <1>7, <1>8, <1>9, <1>10 DEF SayNext, Saying

\* The output file is written after a call that succeeded, and what was written
\* of it is removed when the writing fails.
LEMMA SayFileStep ==
  ASSUME SayTypeOK, SayWhere, SayFile, SayNext
  PROVE  SayFile'
<1>1. CASE ResolveText \/ ConnectClient \/ ConnectFails \/ Request \/ Read \/ Play
  BY <1>1 DEF ResolveText, ConnectClient, ConnectFails, Request, Read, Play,
     ExitWith, sayVars, SayFile, FileIsWhole, SayTypeOK
<1>2. CASE TimesOut \/ CallFailed \/ Listed \/ Played \/ Synthesized
  BY <1>2 DEF TimesOut, CallFailed, Listed, Played, Synthesized, Returned,
     ExitWith, SayFile, FileIsWhole, SayTypeOK
<1>3. CASE CreateFile
  BY <1>3 DEF CreateFile, SayFile, FileIsWhole, SayTypeOK
<1>6. CASE WriteFile
  BY <1>6 DEF WriteFile, ExitWith, SayFile, FileIsWhole, SayTypeOK
<1>7. CASE WriteFileFails
  BY <1>7 DEF WriteFileFails, AfterFailedWrite, SayFile, FileIsWhole, SayTypeOK
<1>8. CASE RemoveOutput
  BY <1>8 DEF RemoveOutput, ExitWith, SayFile, FileIsWhole, SayTypeOK
<1>4. CASE UNCHANGED sayVars
  BY <1>4 DEF SayFile, FileIsWhole, sayVars
<1>5. QED
  BY <1>1, <1>2, <1>3, <1>4, <1>6, <1>7, <1>8 DEF SayNext, Saying

\* A step of the client's call leaves it with as many chunks as were heard.
LEMMA HeardStep ==
  ASSUME TypeOK, ConnInv, ConnInv', kind = "synthesize",
         ExpectResponse \/ Return,
         step' # "idle" \/ result' = "ok"
  PROVE  Heard' = Heard /\ step # "idle"
<1>1. /\ kind' = kind /\ step # "idle" /\ result = "none"
      /\ taken \in Seq(Tags) /\ Len(taken) \in Nat
  BY DEF ExpectResponse, Return, ReadLast, TrailingEvent, TrailingTimeout, ReadEnds,
     ReadEvent, ConnInv, Calling, TypeOK
<1>2. CASE ExpectResponse
  <2>1. step = "sent" /\ taken = <<>> /\ ReadEvent
    BY <1>2 DEF ExpectResponse, ConnInv, Calling
  <2>2. step' = "stream"
    BY <1>1, <1>2 DEF ExpectResponse, Finish
  <2>3. InFlight /\ call > 0
    BY <1>1, <2>1 DEF ConnInv, Calling, Awaiting, ReadEvent
  <2>4. Len(taken') = Len(taken) + 1 /\ Len(taken) = 0
    BY <2>1, <2>3, NextEvent
  <2>5. QED
    BY <1>1, <2>1, <2>2, <2>4 DEF Heard
<1>3. CASE ReadLast
  <2>1. step = "stream" /\ ReadEvent /\ InFlight /\ call > 0
    BY <1>3 DEF ReadLast, ConnInv, Calling, Awaiting
  <2>2. step' = "trailing" \/ result' = "ok"
    BY <1>3 DEF ReadLast, Finish
  <2>3. Len(taken') = Len(taken) + 1
    BY <2>1, NextEvent
  <2>4. step' \notin {"sent", "stream"}
    BY <1>3 DEF ReadLast, Finish
  <2>5. QED
    BY <1>1, <2>1, <2>3, <2>4 DEF Heard
<1>4. CASE TrailingEvent
  <2> DEFINE R == ItsReply
             n == Len(taken)
  <2>1. step = "trailing" /\ ReadEvent /\ InFlight /\ call > 0
    BY <1>4 DEF TrailingEvent, ConnInv, Calling, Awaiting
  <2>2. n + 1 <= Len(R) /\ Len(taken') = n + 1 /\ R' = R /\ R \in Seq(Replies)
    BY <2>1, NextEvent
  <2>3. R[n] = "audio-stop" /\ n >= 1
    BY <1>1, <2>1 DEF ConnInv, Calling
  <2>4. step' = "idle" /\ result' = "ok"
    BY <1>4 DEF TrailingEvent, Finish
  <2>5. R \in AudioReplies /\ R[n + 1] = "audio-stop"
    BY <1>1, <2>2, <2>4 DEF ConnInv, Returns
  <2>6. n \in 1..Len(R)
    BY <1>1, <2>2, <2>3
  <2>7. n + 1 = Len(R) /\ R[n + 1] = "error"
    <3> HIDE DEF R, n
    <3>1. QED
      BY <2>2, <2>3, <2>5, <2>6, AudioSteps
  <2>8. QED
    BY <2>5, <2>7
<1>5. CASE TrailingTimeout
  BY <1>1, <1>5 DEF TrailingTimeout, Finish, Heard
<1>6. CASE ReadEnds
  BY <1>6 DEF ReadEnds, Finish
<1>7. QED
  BY <1>2, <1>3, <1>4, <1>5, <1>6 DEF Return

\* Standard output carries the chunks the call has read, one by one, behind the
\* header the first of them brought.
LEMMA SayOutputStep ==
  ASSUME SayTypeOK, TypeOK, ConnInv, ConnInv', SayWhere, SayOutput, SayNext
  PROVE  SayOutput'
<1>0. output \in Seq(SayWords) /\ args \in SayArgs
  BY DEF SayTypeOK, SayWords
<1>1. ASSUME output' = output, args' = args,
             say = "done" => say' = "done", say' # "call" \/ write_error'
      PROVE  SayOutput'
  BY <1>1 DEF SayOutput, Streaming
<1>2. CASE (Server \/ ServerCloses) /\ UNCHANGED sayVars
  <2>1. UNCHANGED <<step, result, taken>>
    BY <1>2 DEF Server, ServerReads, ServerWrites, ServerCloses, callVars
  <2>2. Heard' = Heard
    BY <2>1 DEF Heard
  <2>3. QED
    BY <1>2, <2>1, <2>2 DEF SayOutput, Streaming, sayVars
<1>3. CASE ResolveText \/ ConnectClient \/ ConnectFails \/ TimesOut
  BY <1>1, <1>3 DEF ResolveText, ConnectClient, ConnectFails, TimesOut, ExitWith
<1>4. CASE CallFailed \/ Listed \/ Synthesized
  BY <1>1, <1>4 DEF CallFailed, Listed, Synthesized, Returned, ExitWith
<1>5. CASE CreateFile \/ WriteFile \/ WriteFileFails \/ RemoveOutput
  BY <1>1, <1>5 DEF CreateFile, WriteFile, WriteFileFails, AfterFailedWrite,
     RemoveOutput, ExitWith
<1>6. CASE Request
  <2>1. /\ output = <<>> /\ ~header_written /\ ~write_error
        /\ UNCHANGED <<args, output, header_written, write_error>>
    BY <1>6 DEF Request, SayWhere
  <2>2. step' = "sent" \/ (step' = "idle" /\ result' = "transport")
    BY <1>6 DEF Request, Send, Finish
  <2>3. step' = "sent" => Heard' = 0
    BY DEF Heard
  <2>4. QED
    BY <2>1, <2>2, <2>3 DEF SayOutput, Streaming
<1>7. CASE Read
  <2>1. say = "call" /\ UNCHANGED sayVars
    BY <1>7 DEF Read
  <2>2. CASE args.list \/ args.to_file \/ write_error
    BY <2>1, <2>2 DEF SayOutput, Streaming, sayVars
  <2>3. CASE ~args.list /\ ~args.to_file /\ ~write_error
    <3>1. kind = "synthesize" /\ (ExpectResponse \/ Return)
      BY <1>7, <2>1, <2>3 DEF Read, SayWhere
    <3>2. step' # "idle" \/ result' = "ok" => Heard' = Heard /\ step # "idle"
      BY <3>1, HeardStep
    <3>3. QED
      BY <2>1, <2>3, <3>2 DEF SayOutput, Streaming, sayVars
  <2>4. QED
    BY <2>2, <2>3
<1>8. CASE Play
  <2>1. /\ say = "call" /\ say' = say /\ ~args.to_file /\ ~write_error
        /\ args' = args /\ step = "stream" /\ step' = "stream"
        /\ taken \in Seq(Tags) /\ taken # <<>> /\ kind = "synthesize"
        /\ ReadEvent /\ InFlight /\ call > 0
    BY <1>8 DEF Play, ReadChunk, ConnInv, Calling, Awaiting, TypeOK
  <2>2. ~args.list
    BY <2>1 DEF SayWhere
  <2>3. /\ Len(taken') = Len(taken) + 1 /\ Len(taken) \in Nat \ {0}
    BY <2>1, NextEvent
  <2>4. Heard' = Heard + 1 /\ Heard \in Nat
    BY <2>1, <2>3 DEF Heard
  <2>5. /\ Streaming(output)
        /\ header_written <=> args.wav /\ output # <<>>
        /\ Len(output) = IF args.wav /\ Heard > 0 THEN Heard + 1 ELSE Heard
    BY <2>1, <2>2 DEF SayOutput
  <2> DEFINE h == output \o HeaderFirst
             p == h \o <<"chunk">>
  <2>6. <<>> \in Seq(SayWords) /\ <<"header">> \in Seq(SayWords) /\ <<"chunk">> \in Seq(SayWords)
    BY DEF SayWords
  <2>7. CASE args.wav /\ output = <<>>
    <3>1. HeaderFirst = <<"header">>
      BY <2>5, <2>7 DEF HeaderFirst
    <3>2. h = <<"header">>
      BY <2>6, <2>7, <3>1, ConcatEmptySeq
    <3>3. p \in Seq(SayWords) /\ Len(p) = 2 /\ p[1] = "header" /\ p[2] = "chunk"
      BY <2>6, <3>2
    <3>4. Heard = 0 /\ Len(output) = 0
      BY <2>4, <2>5, <2>7
    <3> HIDE DEF p, h
    <3>5. CASE output' = p /\ header_written' = args.wav /\ write_error' = write_error
      <4>1. Streaming(output)'
        <5>1. \A i \in 1..Len(p) :
                p[i] = IF args.wav /\ i = 1 THEN "header" ELSE "chunk"
          BY <2>7, <3>3
        <5>2. QED
          BY <2>1, <3>5, <5>1 DEF Streaming
      <4>3. output' # <<>> /\ Len(output') = 2
        BY <3>3, <3>5
      <4>2. QED
        BY <2>1, <2>2, <2>4, <2>7, <3>4, <3>5, <4>1, <4>3 DEF SayOutput
    <3>6. CASE write_error' /\ output' \in {output, h}
      <4>1. Streaming(h) /\ Streaming(output)
        BY <2>5, <2>7, <3>2 DEF Streaming
      <4>2. Streaming(output)'
        BY <2>1, <3>6, <4>1 DEF Streaming
      <4>3. QED
        BY <2>1, <2>2, <3>6, <4>2 DEF SayOutput
    <3>7. QED
      BY <1>8, <2>7, <3>5, <3>6 DEF Play, p, h
  <2>8. CASE ~(args.wav /\ output = <<>>)
    <3>1. HeaderFirst = <<>>
      BY <2>5, <2>8 DEF HeaderFirst
    <3>2. h = output
      BY <1>0, <3>1, ConcatEmptySeq
    <3>3. /\ Len(p) = Len(output) + 1 /\ p[Len(output) + 1] = "chunk"
          /\ \A i \in 1..Len(output) : p[i] = output[i]
          /\ Len(output) \in Nat
      BY <1>0, <2>6, <3>2
    <3> HIDE DEF p, h
    <3>4. header_written' = header_written \/ header_written' = args.wav
      BY <1>8 DEF Play
    <3>5. CASE output' = p /\ header_written' = args.wav /\ write_error' = write_error
      <4>1. args.wav => Len(output) # 0
        BY <1>0, <2>8
      <4>2. Streaming(output)' /\ output' # <<>>
        BY <2>1, <2>5, <3>3, <3>5, <4>1 DEF Streaming
      <4>3. Len(output') = IF args.wav /\ Heard' > 0 THEN Heard' + 1 ELSE Heard'
        BY <2>4, <2>5, <3>3, <3>5, <4>1
      <4>4. QED
        BY <2>1, <2>2, <3>5, <4>2, <4>3 DEF SayOutput
    <3>6. CASE write_error' /\ output' = output
      BY <1>1, <2>1, <3>6
    <3>7. QED
      BY <1>8, <3>2, <3>5, <3>6 DEF Play, p, h
  <2>9. QED
    BY <2>7, <2>8
<1>9. CASE Played
  BY <1>9 DEF Played, ExitWith, Returned, SayOutput
<1>10. QED
  BY <1>2, <1>3, <1>4, <1>5, <1>6, <1>7, <1>8, <1>9 DEF SayNext, Saying

\* What is on standard output so far begins with the header that was asked for.
LEMMA StreamingSays ==
  ASSUME SayTypeOK, Streaming(output)
  PROVE  /\ output # <<>> /\ args.wav => Head(output) = "header"
         /\ \A i \in 2..Len(output) : output[i] = "chunk"
<1>1. output \in Seq(SayWords)
  BY DEF SayTypeOK, SayWords
<1>2. ASSUME output # <<>>, args.wav PROVE Head(output) = "header"
  <2>1. Len(output) >= 1 /\ Head(output) = output[1]
    BY <1>1, <1>2
  <2>2. QED
    BY <1>2, <2>1 DEF Streaming
<1>3. ASSUME NEW i \in 2..Len(output) PROVE output[i] = "chunk"
  BY <1>1 DEF Streaming
<1>4. QED
  BY <1>2, <1>3

\* A run that ends well has read the reply to its end, and so has put all of it
\* on standard output.
LEMMA PlayedSays ==
  ASSUME SayTypeOK, TypeOK, ConnInv, SayWhere, SayOutput, Played
  PROVE  SaysTheReply'
<1>0. /\ output \in Seq(SayWords) /\ Streaming(output) /\ args' = args
      /\ replies' = replies /\ call' = call
      /\ "empty header" \in SayWords
  <2>1. output \in Seq(SayWords) /\ "empty header" \in SayWords
    BY DEF SayTypeOK, SayWords
  <2>2. say = "call" /\ args' = args /\ replies' = replies /\ call' = call
    BY DEF Played, Returned, clientVars
  <2>3. QED
    BY <2>1, <2>2 DEF SayOutput
<1>1. /\ output # <<>> /\ args.wav => Head(output) = "header"
      /\ \A i \in 2..Len(output) : output[i] = "chunk"
  BY <1>0, StreamingSays
<1>2. CASE write_error
  <2>1. output' = output /\ exit' = "error"
    BY <1>2 DEF Played, ExitWith, PlayedStatus
  <2>2. QED
    BY <1>0, <1>1, <2>1 DEF SaysTheReply
<1>3. CASE ~write_error
  <2> DEFINE R == ItsReply
             n == Len(taken) - 2
  <2>1. /\ R \in AudioReplies /\ R[Len(taken)] = "audio-stop"
        /\ Len(taken) \in 1..Len(R) /\ step = "idle" /\ say = "call"
        /\ ~args.list /\ ~args.to_file
    <3>1. step = "idle" /\ result = "ok" /\ say = "call" /\ ~args.list /\ ~args.to_file
      BY DEF Played, Returned
    <3>2. kind = "synthesize"
      BY <3>1 DEF SayWhere
    <3>3. R \in AudioReplies /\ R[Len(taken)] = "audio-stop" /\ taken # <<>>
          /\ Len(taken) <= Len(R)
      BY <3>1, <3>2 DEF ConnInv, Returns
    <3>4. R \in Seq(Replies) /\ taken \in Seq(Tags)
      BY <3>3, AudioShape DEF TypeOK
    <3>5. QED
      BY <3>1, <3>3, <3>4
  <2>2. Chunks(R) = n /\ n \in Nat
    <3>1. Chunks(R) = n
      BY <2>1, ChunksOfAudio
    <3>2. Len(taken) >= 2
      <4> HIDE DEF R
      <4>1. QED
        BY <2>1, AudioSteps
    <3>3. QED
      BY <2>1, <3>1, <3>2
  <2>3. Heard = n
    BY <2>1 DEF Heard
  <2>4. /\ header_written <=> args.wav /\ output # <<>>
        /\ Len(output) = IF args.wav /\ n > 0 THEN n + 1 ELSE n
    BY <1>3, <2>1, <2>3 DEF SayOutput, Played
  <2> DEFINE audio == [i \in 1..n |-> "chunk"]
  <2>5. audio \in Seq(SayWords) /\ Len(audio) = n /\ (audio = <<>> <=> n = 0)
    <3> HIDE DEF n
    <3>1. "chunk" \in SayWords
      BY DEF SayWords
    <3>2. audio \in Seq(SayWords) /\ Len(audio) = n
      BY <2>2, <3>1
    <3> HIDE DEF audio
    <3>3. QED
      BY <2>2, <3>2
  <2>6. /\ output' # <<>> /\ args.wav => Head(output') \in {"header", "empty header"}
        /\ \A i \in 2..Len(output') : output'[i] = "chunk"
        /\ exit' = "ok" =>
             output' = IF ~args.wav THEN audio
                       ELSE IF audio = <<>> THEN <<"empty header">>
                       ELSE <<"header">> \o audio
    <3> HIDE DEF n
    <3>1. CASE ~args.wav
      <4>1. output' = output
        BY <3>1 DEF Played
      <4>2. \A i \in 1..Len(output) : output[i] = audio[i]
        BY <1>0, <2>2, <2>4, <3>1 DEF Streaming
      <4>3. Len(output) = Len(audio)
        BY <2>4, <2>5, <3>1
      <4>4. output = audio
        BY <1>0, <2>5, <4>2, <4>3, SeqEqual
      <4> HIDE DEF audio
      <4>5. QED
        BY <1>1, <3>1, <4>1, <4>4
    <3>2. CASE args.wav /\ n = 0
      <4>a. Len(output) = 0
        BY <2>4, <3>2
      <4>b. output = <<>>
        BY <1>0, <4>a, EmptySeq
      <4>1. output = <<>> /\ ~header_written
        BY <2>4, <4>b
      <4>2. \/ output' = Append(output, "empty header")
            \/ exit' = "error" /\ output' = output
        BY <1>3, <3>2, <4>1 DEF Played, ExitWith
      <4>3. CASE output' = Append(output, "empty header")
        <5>1. Append(<<>>, "empty header") = <<"empty header">>
          OBVIOUS
        <5>2. output' = <<"empty header">>
          BY <4>1, <4>3, <5>1
        <5> HIDE DEF audio
        <5>3. Head(<<"empty header">>) = "empty header" /\ Len(<<"empty header">>) = 1
          OBVIOUS
        <5>4. Head(output') = "empty header" /\ Len(output') = 1
          BY <5>2, <5>3
        <5>5. \A i \in 2..Len(output') : output'[i] = "chunk"
          <6> DEFINE m == Len(output')
          <6>1. m = 1
            BY <5>4
          <6> HIDE DEF m
          <6>2. 2..m = {}
            BY <6>1
          <6>3. QED
            BY <6>2 DEF m
        <5>6. audio = <<>>
          BY <2>5, <3>2
        <5>7. QED
          BY <3>2, <5>2, <5>4, <5>5, <5>6
      <4>4. CASE exit' = "error" /\ output' = output
        BY <1>1, <4>4
      <4>5. QED
        BY <4>2, <4>3, <4>4
    <3>3. CASE args.wav /\ n # 0
      <4>1. output # <<>> /\ header_written
        BY <2>2, <2>4, <3>3
      <4>2. output' = output
        BY <4>1 DEF Played
      <4>3. <<"header">> \in Seq(SayWords)
        BY DEF SayWords
      <4> DEFINE w == <<"header">> \o audio
      <4> HIDE DEF audio
      <4>4. /\ w \in Seq(SayWords) /\ Len(w) = n + 1 /\ w[1] = "header"
            /\ \A i \in 2..(n + 1) : w[i] = audio[i - 1]
        BY <2>2, <2>5, <4>3
      <4>5. \A i \in 1..n : audio[i] = "chunk"
        BY DEF audio
      <4>6. \A i \in 1..Len(output) : output[i] = w[i]
        <5> HIDE DEF w
        <5> TAKE i \in 1..Len(output)
        <5>1. CASE i = 1
          BY <1>0, <3>3, <4>4, <5>1 DEF Streaming
        <5>2. CASE i # 1
          <6>1. i \in 2..(n + 1) /\ i - 1 \in 1..n
            BY <2>2, <2>4, <3>3, <5>2
          <6>2. QED
            BY <1>1, <4>4, <4>5, <5>2, <6>1
        <5>3. QED
          BY <5>1, <5>2
      <4>7. Len(output) = Len(w)
        BY <2>2, <2>4, <3>3, <4>4
      <4>8. output = w
        <5> HIDE DEF w
        <5>1. QED
          BY <1>0, <4>4, <4>6, <4>7, SeqEqual
      <4>9. QED
        BY <1>1, <2>5, <3>3, <4>2, <4>8
    <3>4. QED
      BY <3>1, <3>2, <3>3
  <2>7. Chunks(replies[call])' = n
    BY <1>0, <2>2 DEF ItsReply
  <2>8. QED
    BY <1>0, <2>6, <2>7 DEF SaysTheReply
<1>4. QED
  BY <1>2, <1>3

\* What cw-say has put on standard output stays right in every step.
LEMMA SaysTheReplyStep ==
  ASSUME SayTypeOK, SayTypeOK', TypeOK, ConnInv, SayWhere, SayOutput, SayOutput',
         SaysTheReply, SayNext
  PROVE  SaysTheReply'
<1>1. CASE (Server \/ ServerCloses) /\ UNCHANGED sayVars
  <2>1. exit = "ok" => ~ServerReads
    BY DEF SayWhere, ConnInv, Returns, ServerReads
  <2>2. exit = "ok" => UNCHANGED <<replies, call>>
    BY <1>1, <2>1 DEF Server, ServerWrites, ServerCloses, callVars
  <2>3. QED
    BY <1>1, <2>2 DEF SaysTheReply, sayVars
<1>2. CASE say' # "done"
  <2>1. exit' = "none" /\ Streaming(output)'
    BY <1>2 DEF SayTypeOK, SayOutput
  <2>2. /\ output' # <<>> /\ args'.wav => Head(output') = "header"
        /\ \A i \in 2..Len(output') : output'[i] = "chunk"
    <3>1. output' \in Seq(SayWords)
      BY DEF SayTypeOK, SayWords
    <3>2. \A i \in 1..Len(output') :
            output'[i] = IF args'.wav /\ i = 1 THEN "header" ELSE "chunk"
      BY <2>1 DEF Streaming
    <3>3. ASSUME output' # <<>>, args'.wav PROVE Head(output') = "header"
      <4>1. Len(output') >= 1 /\ Head(output') = output'[1]
        BY <3>1, <3>3
      <4>2. QED
        BY <3>2, <3>3, <4>1
    <3>4. QED
      BY <3>1, <3>2, <3>3
  <2>3. QED
    BY <2>1, <2>2 DEF SaysTheReply
<1>3. CASE Played
  BY <1>3, PlayedSays
<1>4. ASSUME UNCHANGED <<output, args>>,
             exit' = "error" \/ args.list \/ args.to_file
      PROVE  SaysTheReply'
  BY <1>4 DEF SaysTheReply
<1>5. CASE ResolveText \/ ConnectFails \/ TimesOut \/ CallFailed \/ Listed
  <2>1. CASE Listed
    BY <1>4, <2>1 DEF Listed
  <2>2. CASE say' = "done" /\ ~Listed
    BY <1>4, <1>5, <2>2 DEF ResolveText, ConnectFails, TimesOut, CallFailed, ExitWith
  <2>3. QED
    BY <1>2, <2>1, <2>2
<1>6. CASE ConnectClient \/ Request \/ Read \/ Play \/ Synthesized
  <2>1. say' # "done"
    BY <1>6 DEF ConnectClient, Request, Read, Play, Synthesized, Returned, sayVars
  <2>2. QED
    BY <1>2, <2>1
<1>7. CASE CreateFile \/ WriteFile \/ WriteFileFails \/ RemoveOutput
  <2>1. UNCHANGED <<output, args>> /\ args.to_file
    BY <1>7 DEF CreateFile, WriteFile, WriteFileFails, RemoveOutput, SayWhere
  <2>2. QED
    BY <1>4, <2>1
<1>8. QED
  BY <1>1, <1>3, <1>5, <1>6, <1>7 DEF SayNext, Saying

-----------------------------------------------------------------------------
\* Every program starts as the invariant says.
LEMMA ProgramsStart == ProgramsInit => ProgramsInv
<1> SUFFICES ASSUME ProgramsInit PROVE ProgramsInv
  OBVIOUS
<1> USE WyomingClientAssumption, SpeechdModuleAssumption
<1>1. ClientInit /\ Init
  BY DEF ProgramsInit, Init
<1>2. TypeOK
  <2>1. "ping" \in Kinds
    BY DEF Kinds, ServerReplies
  <2>2. <<>> \in Seq(Replies) /\ <<>> \in Seq(Tags)
        /\ <<>> \in Seq([of : 1..MaxCalls, kind : Kinds])
    OBVIOUS
  <2>3. QED
    BY <1>1, <2>1, <2>2 DEF ClientInit, TypeOK, Results
<1>3. ClientInv
  BY <1>1, <1>2 DEF ClientInit, ClientInv, ConnInv, Calling, Returns, OwnWholeReply
<1>4. ModuleTypeOK
  <2>1. <<>> \in Seq(Commands) /\ Len(<<>>) = 0
    OBVIOUS
  <2>2. stdin \in Seq(Commands) /\ Len(stdin) <= 1
    BY <1>1, <2>1 DEF Init
  <2>3. out \in Seq({"200", "202", "210", "299", "301", "399", "701", "702",
                     "703", "704", "705"})
    BY <1>1 DEF Init
  <2>4. /\ mode = "command" /\ first = TRUE /\ interrupt = "none"
        /\ preamble_sent = FALSE /\ bad_format = FALSE
    BY <1>1 DEF Init
  <2>5. lines = 0 /\ pieces = 0 /\ asked = 0 /\ told = 0 /\ spoken = {}
    BY <1>1 DEF Init
  <2>6. lines \in 0..MaxLines /\ pieces \in 0..PiecesPerChunk
    BY <2>5
  <2>7. {asked, told} \subseteq 0..MaxLines /\ spoken \subseteq 1..MaxCalls
    BY <2>5
  <2>8. QED
    BY <1>2, <2>2, <2>3, <2>4, <2>6, <2>7 DEF ModuleTypeOK
<1>5. ModuleInv
  BY <1>1 DEF ModuleInv, Init, ClientInit, Answering, MessageIsAnswered, Counted,
     Pends, Holds, Speaks
<1>6. SayTypeOK /\ SayInv
  <2>1. CASE program = "cw-say"
    <3>1. SayInit
      BY <2>1 DEF ProgramsInit
    <3>2. SayTypeOK
      BY <3>1 DEF SayInit, SayTypeOK
    <3>3. SayWhere /\ SayOutput /\ SayFile /\ SaysTheReply
      BY <1>1, <3>1 DEF SayInit, ClientInit, SayWhere, SayOutput, SayFile,
         SaysTheReply, FileIsWhole, Streaming
    <3>4. QED
      BY <2>1, <3>2, <3>3 DEF SayInv
  <2>2. CASE program # "cw-say"
    <3>1. /\ args = [list |-> FALSE, to_file |-> FALSE, wav |-> FALSE,
                     timeout |-> FALSE]
          /\ removable = FALSE /\ say = "text" /\ exit = "none"
          /\ file = "none" /\ output = <<>>
      BY <2>2 DEF ProgramsInit
    <3>2. args \in SayArgs
      BY <3>1 DEF SayArgs
    <3>3. output \in Seq({"header", "empty header", "chunk"})
      BY <3>1
    <3>4. SayTypeOK
      BY <3>1, <3>2, <3>3 DEF SayTypeOK
    <3>5. QED
      BY <2>2, <3>1, <3>4 DEF SayInv
  <2>3. QED
    BY <2>1, <2>2
<1>7. QED
  BY <1>3, <1>4, <1>5, <1>6 DEF ProgramsInv, ProgramsTypeOK

\* A step that leaves the client alone keeps its invariant.
LEMMA ClientVarsInv ==
  ASSUME ClientInv, UNCHANGED clientVars
  PROVE  ClientInv'
BY DEF ClientInv, TypeOK, ConnInv, Calling, Awaiting, InFlight, Carries, Returns,
   OwnWholeReply, ItsReply, clientVars

\* Every step of each program, and of the server it talks to, keeps the invariant.
LEMMA ProgramsStep ==
  ASSUME ProgramsInv, [Library \/ Speechd \/ Say \/ Dialogue]_programVars
  PROVE  ProgramsInv'
<1>1. /\ ProgramsTypeOK /\ ClientInv /\ ModuleInv /\ SayInv /\ TypeOK
      /\ ModuleTypeOK /\ SayTypeOK /\ program' = program
  BY DEF ProgramsInv, ProgramsTypeOK, ClientInv, Library, Speechd, Say, Dialogue,
     programVars
<1>2. ClientInv'
  <2>1. ClientStep \/ UNCHANGED clientVars
    BY ModuleClientStep, SayClientStep
       DEF Library, Speechd, Say, Dialogue, programVars, ClientStep
  <2>2. QED
    BY <1>1, <2>1, ClientStepInv, ClientVarsInv
<1>3. ASSUME UNCHANGED moduleVars, program # "speechd" \/ UNCHANGED clientVars
      PROVE  ModuleTypeOK' /\ ModuleInv'
  <2>1. ModuleTypeOK'
    BY <1>1, <1>2, <1>3 DEF ModuleTypeOK, ClientInv, moduleVars, attemptVars
  <2>2. ModuleInv'
    BY <1>1, <1>3 DEF ModuleInv, Answering, MessageIsAnswered, Counted, Pends, Holds,
       Speaks, Begun, moduleVars, attemptVars, clientVars
  <2>3. QED
    BY <2>1, <2>2
<1>4. ASSUME UNCHANGED sayVars, program # "cw-say" \/ UNCHANGED clientVars
      PROVE  SayTypeOK' /\ SayInv'
  BY <1>1, <1>4 DEF SayTypeOK, SayInv, SayWhere, SayOutput, SayFile, SaysTheReply,
     FileIsWhole, Streaming, Heard, sayVars, clientVars
<1>5. CASE Library
  BY <1>1, <1>2, <1>3, <1>4, <1>5 DEF Library, ProgramsInv, ProgramsTypeOK
<1>6. CASE Speechd
  <2>1. program = "speechd" /\ ModuleNext /\ UNCHANGED sayVars
    BY <1>6 DEF Speechd
  <2>2. Answering /\ MessageIsAnswered /\ Counted /\ (Prompt => Speaks)
    BY <1>1, <2>1 DEF ModuleInv
  <2>3. ModuleTypeOK'
    BY <1>1, <1>2, <2>1, <2>2, ModuleTypeStep DEF ClientInv
  <2>4. Answering' /\ MessageIsAnswered'
    BY <1>1, <2>1, <2>2, AnsweringStep
  <2>5. Counted'
    BY <1>1, <2>1, <2>2, CountedStep
  <2>6. Prompt => Speaks'
    BY <1>1, <2>1, <2>2, SpeaksStep
  <2>7. SayTypeOK' /\ SayInv'
    BY <1>4, <2>1
  <2>8. QED
    BY <1>1, <1>2, <2>1, <2>3, <2>4, <2>5, <2>6, <2>7
       DEF ProgramsInv, ProgramsTypeOK, ModuleInv
<1>7. CASE Say
  <2>1. program = "cw-say" /\ SayNext /\ UNCHANGED moduleVars
    BY <1>7 DEF Say
  <2>2. SayWhere /\ SayOutput /\ SayFile /\ SaysTheReply
    BY <1>1, <2>1 DEF SayInv
  <2>3. SayTypeOK'
    BY <1>1, <2>1, SayTypeStep
  <2>4. SayWhere' /\ SayFile'
    BY <1>1, <2>1, <2>2, SayWhereStep, SayFileStep
  <2>5. ConnInv /\ ConnInv'
    BY <1>1, <1>2, <2>2, <2>4 DEF ClientInv, SayWhere
  <2>6. SayOutput'
    BY <1>1, <2>1, <2>2, <2>5, SayOutputStep
  <2>7. SaysTheReply'
    BY <1>1, <2>1, <2>2, <2>3, <2>5, <2>6, SaysTheReplyStep
  <2>8. ModuleTypeOK' /\ ModuleInv'
    BY <1>3, <2>1
  <2>9. QED
    BY <1>1, <1>2, <2>1, <2>3, <2>4, <2>6, <2>7, <2>8
       DEF ProgramsInv, ProgramsTypeOK, SayInv
<1>8. CASE Dialogue \/ UNCHANGED programVars
  BY <1>1, <1>2, <1>3, <1>4, <1>8
     DEF Dialogue, programVars, ProgramsInv, ProgramsTypeOK
<1>9. QED
  BY <1>5, <1>6, <1>7, <1>8

\* The invariant of the client, of the module and of cw-say, together.
THEOREM ProgramsInductive == ProgramsSpec => []ProgramsInv
<1>1. ProgramsInv /\ [Library \/ Speechd \/ Say \/ Dialogue]_programVars => ProgramsInv'
  BY ProgramsStep
<1>2. QED
  BY ProgramsStart, <1>1, PTL DEF ProgramsSpec

\* The variables of the programs keep their types.
THEOREM ProgramsType == ProgramsSpec => []ProgramsTypeOK
<1>1. ProgramsInv => ProgramsTypeOK
  BY DEF ProgramsInv
<1>2. QED
  BY <1>1, ProgramsInductive, PTL

\* A call that returns has read the whole reply of the server to it and nothing
\* of any other (WyomingClient::synthesize_streaming, describe, ping), for any
\* number of calls and of chunks: as long as an error comes within
\* TRAILING_ERROR_TIMEOUT of the audio-stop it follows.
THEOREM CallsReadTheirOwnReply ==
  ASSUME Prompt
  PROVE  ProgramsSpec => []OwnWholeReply
<1>1. ProgramsInv => OwnWholeReply
  BY DEF ProgramsInv, ClientInv, ConnInv
<1>2. QED
  BY <1>1, ProgramsInductive, PTL

\* Whatever happens to the connection, to the audio or to the input, a message
\* of speech-dispatcher has one complete answer (Module::speak): refused, or
\* begun, heard and ended once.
THEOREM MessagesAreAnswered == ProgramsSpec => []MessageIsAnswered
<1>1. ProgramsInv => MessageIsAnswered
  BY DEF ProgramsInv, ModuleInv, MessageIsAnswered
<1>2. QED
  BY <1>1, ProgramsInductive, PTL

\* Each STOP and PAUSE is answered once, by the command loop or by the message
\* it cut short (Module::poll_interrupt).
THEOREM InterruptsAnswered == ProgramsSpec => []InterruptsAreAnswered
<1>1. ProgramsInv => InterruptsAreAnswered
  BY DEF ProgramsInv, ModuleInv, Counted, Pends, Holds, InterruptsAreAnswered
<1>2. QED
  BY <1>1, ProgramsInductive, PTL

\* Only the last call of a message is heard for it (Module::speak_attempt), under
\* the same condition on the server's errors.
THEOREM OnlyItsOwnTextIsHeard ==
  ASSUME Prompt
  PROVE  ProgramsSpec => []SpeaksItsOwnText
<1>1. ProgramsInv => SpeaksItsOwnText
  BY DEF ProgramsInv, ModuleInv, Speaks, SpeaksItsOwnText
<1>2. QED
  BY <1>1, ProgramsInductive, PTL

\* cw-say's standard output is at every moment a beginning of what was asked for,
\* and is all of the server's reply when the program ends well (run, play).
THEOREM OutputIsTheReply == ProgramsSpec => []SaysTheReply
<1>1. ProgramsInv => SaysTheReply
  <2> SUFFICES ASSUME ProgramsInv PROVE SaysTheReply
    OBVIOUS
  <2>1. CASE program = "cw-say"
    BY <2>1 DEF ProgramsInv, SayInv
  <2>2. CASE program # "cw-say"
    <3>1. output = <<>> /\ exit = "none"
      BY <2>2 DEF ProgramsInv, SayInv
    <3>2. QED
      BY <3>1 DEF SaysTheReply
  <2>3. QED
    BY <2>1, <2>2
<1>2. QED
  BY <1>1, ProgramsInductive, PTL

\* cw-say's output file is whole when the program ends well, and no part of one
\* is left by a failure that could remove it (synthesize_to_file).
THEOREM FileWhole == ProgramsSpec => []FileIsWhole
<1>1. ProgramsInv => FileIsWhole
  BY DEF ProgramsInv, SayInv, SayFile, FileIsWhole
<1>2. QED
  BY <1>1, ProgramsInductive, PTL

\* What the programs do with lines is a dialogue, whichever of them runs.
THEOREM ProgramsKeepTheDialogue == ProgramsSpec => DialogueSpec
<1>1. ProgramsInit => DialogueInit
  BY DEF ProgramsInit
<1>2. [Library \/ Speechd \/ Say \/ Dialogue]_programVars => [DialogueNext]_dialogueVars
  BY DEF Library, Speechd, Say, Dialogue, programVars
<1>3. QED
  BY <1>1, <1>2, PTL DEF ProgramsSpec, DialogueSpec
=============================================================================
