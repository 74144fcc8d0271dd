-------------------------- MODULE ConnectionProofs --------------------------
(***************************************************************************)
(* Theorems about a client's connection, for answers of any length and any *)
(* limit on audio: an exchange leaves one complete reply of its kind on    *)
(* the wire, but for the cases RepliesAreComplete names; nothing is written*)
(* after a torn event; and every state is well typed.                      *)
(*                                                                         *)
(* The reply a handler is producing is what is written and what it is      *)
(* about to write (Said); which shape that has depends on where the        *)
(* handler will be when it is written (Where).                             *)
(***************************************************************************)
EXTENDS Connection, TLAPS, SequenceTheorems

USE DEF readVars, writeVars, modelVars

Said == reply \o todo
Where == IF phase = "write" THEN after ELSE phase

Speech == {"synthesize", "synthesize-start"}

\* A frame that is still open.
Open(s, open, item) ==
  /\ s \in Seq(Replies) /\ Len(s) >= 1 /\ s[1] = open
  /\ \A i \in 2..Len(s) : s[i] = item

\* What has been said to request `kind' when the handler comes to `place', the
\* text having been refused or not, and the last read having ended so.
SaidAt(place, s, kind, cut, read) ==
  /\ place \notin {"main", "closed"} => read = "event"
  /\ place \in {"text", "audioStart", "audio", "vad", "whole", "first",
                "transcript", "firstText"} => s = <<>> /\ ~cut
  /\ place = "text" => kind = "synthesize-start"
  /\ place \in {"audioStart", "audio", "vad", "transcript", "firstText",
                "moreText"} => kind = "transcribe"
  /\ place \in {"whole", "first", "more"} => kind \in Speech
  /\ place = "more" => ~cut /\ Open(s, "audio-start", "audio-chunk")
  /\ place = "moreText" => ~cut /\ Open(s, "transcript-start", "transcript-chunk")
  /\ place = "return" =>
       /\ ~cut
       /\ \/ kind \in Speech /\ AudioReply(s)
          \/ kind = "transcribe" /\ TranscriptReply(s)
  /\ place = "main" =>
       IF read # "event" THEN s = <<>>
       ELSE IF cut THEN kind = "synthesize-start" /\ s = <<"error">>
       ELSE CompleteReply(kind, s)

Shape ==
  /\ reply \in Seq(Replies) /\ todo \in Seq(Replies)
  /\ phase = "write" <=> todo # <<>>
  /\ after # "write"
  /\ torn => phase = "closed"

ConnectionInv == Shape /\ SaidAt(Where, Said, request, textRefused, lastRead)

-----------------------------------------------------------------------------
(***************************************************************************)
(* Frames and replies                                                      *)
(***************************************************************************)
\* A sequence with one more event at its end.
LEMMA Ending ==
  ASSUME NEW s \in Seq(Replies), NEW e \in Replies
  PROVE  /\ s \o <<e>> \in Seq(Replies) /\ Len(s \o <<e>>) = Len(s) + 1
         /\ \A i \in 1..Len(s) : (s \o <<e>>)[i] = s[i]
         /\ EndsIn(s \o <<e>>, e) /\ ButFinal(s \o <<e>>) = s
<1>1. s \o <<e>> = Append(s, e)
  BY AppendIsConcat
<1>2. /\ Append(s, e) \in Seq(Replies) /\ Append(s, e) # <<>>
      /\ Len(Append(s, e)) = Len(s) + 1
      /\ \A i \in 1..Len(s) : Append(s, e)[i] = s[i]
      /\ Append(s, e)[Len(s) + 1] = e
  BY AppendProperties
<1>3. EndsIn(Append(s, e), e)
  BY <1>2 DEF EndsIn, Final
<1>4. Len(s) \in Nat /\ Len(Append(s, e)) - 1 = Len(s)
  BY <1>2, LenProperties
<1>5. SubSeq(Append(s, e), 1, Len(s)) = s
  <2>1. CASE s = <<>>
    BY <1>4, <2>1, EmptySeq, SubSeqEmpty
  <2>2. CASE s # <<>>
    <3>1. Len(s) \in Nat \ {0}
      BY <2>2, EmptySeq
    <3>2. <<e>> \in Seq(Replies) /\ 1 \in 1..Len(s) /\ Len(s) \in 1..Len(s)
      BY <3>1
    <3>3. SubSeq(s \o <<e>>, 1, Len(s)) = SubSeq(s, 1, Len(s))
      BY <3>2, SubSeqOfConcat1
    <3> QED BY <1>1, <3>3, SubSeqFull
  <2> QED BY <2>1, <2>2
<1> QED BY <1>1, <1>2, <1>3, <1>4, <1>5 DEF ButFinal

\* Short sequences are what their elements are.
LEMMA ShortSequences ==
  ASSUME NEW t \in Seq(Replies),
         NEW a \in Replies, NEW b \in Replies, NEW c \in Replies
  PROVE  /\ Len(t) = 2 /\ t[1] = a /\ t[2] = b => t = <<a, b>>
         /\ Len(t) = 3 /\ t[1] = a /\ t[2] = b /\ t[3] = c => t = <<a, b, c>>
<1>1. ASSUME Len(t) = 2, t[1] = a, t[2] = b
      PROVE  t = <<a, b>>
  <2>1. <<a, b>> \in Seq(Replies) /\ Len(<<a, b>>) = 2
    OBVIOUS
  <2>2. \A i \in 1..2 : i = 1 \/ i = 2
    OBVIOUS
  <2>3. \A i \in 1..Len(t) : t[i] = <<a, b>>[i]
    BY <1>1, <2>2
  <2> QED BY <1>1, <2>1, <2>3, SeqEqual
<1>2. ASSUME Len(t) = 3, t[1] = a, t[2] = b, t[3] = c
      PROVE  t = <<a, b, c>>
  <2>1. <<a, b, c>> \in Seq(Replies) /\ Len(<<a, b, c>>) = 3
    OBVIOUS
  <2>2. \A i \in 1..3 : i = 1 \/ i = 2 \/ i = 3
    OBVIOUS
  <2>3. \A i \in 1..Len(t) : t[i] = <<a, b, c>>[i]
    BY <1>2, <2>2
  <2> QED BY <1>2, <2>1, <2>3, SeqEqual
<1> QED BY <1>1, <1>2

\* Sequences written out, put together.
LEMMA Literals ==
  ASSUME NEW a \in Replies, NEW b \in Replies, NEW c \in Replies
  PROVE  /\ <<a>> \in Seq(Replies) /\ <<a, b>> \in Seq(Replies)
         /\ <<a, b, c>> \in Seq(Replies)
         /\ <<a>> \o <<b>> = <<a, b>>
         /\ <<a, b>> \o <<c>> = <<a, b, c>>
         /\ <<a>> \o <<b, c>> = <<a, b, c>>
<1>1. /\ <<a>> \in Seq(Replies) /\ <<b>> \in Seq(Replies)
      /\ <<c>> \in Seq(Replies)
      /\ <<a, b>> \in Seq(Replies) /\ <<b, c>> \in Seq(Replies)
      /\ <<a, b, c>> \in Seq(Replies)
  OBVIOUS
<1>2. <<a>> \o <<b>> = <<a, b>>
  <2> DEFINE t == <<a>> \o <<b>>
  <2>1. t \in Seq(Replies) /\ Len(t) = 2
    BY <1>1, ConcatProperties
  <2>2. t[1] = a /\ t[2] = b
    BY <1>1, ConcatProperties
  <2> HIDE DEF t
  <2>3. t = <<a, b>>
    BY <2>1, <2>2, ShortSequences
  <2> QED BY <2>3 DEF t
<1>3. <<a, b>> \o <<c>> = <<a, b, c>>
  <2> DEFINE t == <<a, b>> \o <<c>>
  <2>1. t \in Seq(Replies) /\ Len(t) = 3
    BY <1>1, ConcatProperties
  <2>2. t[1] = a /\ t[2] = b /\ t[3] = c
    BY <1>1, ConcatProperties
  <2> HIDE DEF t
  <2>3. t = <<a, b, c>>
    BY <2>1, <2>2, ShortSequences
  <2> QED BY <2>3 DEF t
<1>4. <<a>> \o <<b, c>> = <<a, b, c>>
  <2> DEFINE t == <<a>> \o <<b, c>>
  <2>1. t \in Seq(Replies) /\ Len(t) = 3
    BY <1>1, ConcatProperties
  <2>2. t[1] = a /\ t[2] = b /\ t[3] = c
    BY <1>1, ConcatProperties
  <2> HIDE DEF t
  <2>3. t = <<a, b, c>>
    BY <2>1, <2>2, ShortSequences
  <2> QED BY <2>3 DEF t
<1> QED BY <1>1, <1>2, <1>3, <1>4

\* Two events at the end are one after the other.
LEMMA TwoMore ==
  ASSUME NEW s \in Seq(Replies), NEW d \in Replies, NEW e \in Replies
  PROVE  s \o <<d, e>> = (s \o <<d>>) \o <<e>>
<1>1. (s \o <<d>>) \o <<e>> = s \o (<<d>> \o <<e>>)
  BY Literals, ConcatAssociative
<1> QED BY <1>1, Literals

\* An item leaves a frame open, and the closing event closes it.
LEMMA Frames ==
  ASSUME NEW open, NEW item \in Replies, NEW close \in Replies,
         NEW s, Open(s, open, item)
  PROVE  /\ Open(s \o <<item>>, open, item)
         /\ Framed(s \o <<close>>, open, item, close)
<1>1. s \in Seq(Replies) /\ Len(s) \in Nat /\ Len(s) >= 1
  BY LenProperties DEF Open
<1>2. Open(s \o <<item>>, open, item)
  <2> DEFINE t == s \o <<item>>
  <2>1. /\ t \in Seq(Replies) /\ Len(t) = Len(s) + 1 /\ t[Len(t)] = item
        /\ \A i \in 1..Len(s) : t[i] = s[i]
    BY <1>1, Ending DEF EndsIn, Final
  <2>2. ASSUME NEW i \in 2..Len(t)
        PROVE  t[i] = item
    <3>1. i = Len(t) \/ i \in 2..Len(s)
      BY <1>1, <2>1
    <3>2. i \in 2..Len(s) => i \in 1..Len(s) /\ s[i] = item
      BY <1>1 DEF Open
    <3> QED BY <2>1, <3>1, <3>2
  <2>3. t[1] = open
    BY <1>1, <2>1 DEF Open
  <2> HIDE DEF t
  <2>4. Open(t, open, item)
    BY <1>1, <2>1, <2>2, <2>3 DEF Open
  <2> QED BY <2>4 DEF t
<1>3. Framed(s \o <<close>>, open, item, close)
  <2> DEFINE t == s \o <<close>>
  <2>1. /\ t \in Seq(Replies) /\ Len(t) = Len(s) + 1 /\ t[Len(t)] = close
        /\ \A i \in 1..Len(s) : t[i] = s[i]
    BY <1>1, Ending DEF EndsIn, Final
  <2>2. ASSUME NEW i \in 2..(Len(t) - 1)
        PROVE  t[i] = item
    <3>1. i \in 2..Len(s) /\ i \in 1..Len(s)
      BY <1>1, <2>1
    <3> QED BY <2>1, <3>1 DEF Open
  <2>3. t[1] = open
    BY <1>1, <2>1 DEF Open
  <2> HIDE DEF t
  <2>4. Framed(t, open, item, close)
    BY <1>1, <2>1, <2>2, <2>3 DEF Framed, Final
  <2> QED BY <2>4 DEF t
<1> QED BY <1>2, <1>3

\* What closes an open audio frame, and what closes it after a failure.
LEMMA AudioReplies ==
  ASSUME NEW s, Open(s, "audio-start", "audio-chunk")
  PROVE  /\ Open(s \o <<"audio-chunk">>, "audio-start", "audio-chunk")
         /\ AudioReply(s \o <<"audio-stop">>)
         /\ AudioReply(s \o <<"audio-stop", "error">>)
<1>1. /\ {"audio-chunk", "audio-stop", "error"} \subseteq Replies
      /\ s \in Seq(Replies)
  BY DEF Replies, Open
<1> DEFINE t == s \o <<"audio-stop">>
<1>2. /\ Open(s \o <<"audio-chunk">>, "audio-start", "audio-chunk")
      /\ Framed(t, "audio-start", "audio-chunk", "audio-stop")
      /\ t \in Seq(Replies)
  BY <1>1, Frames, Ending
<1>3. s \o <<"audio-stop", "error">> = t \o <<"error">>
  BY <1>1, TwoMore
<1> HIDE DEF t
<1>4. EndsIn(t \o <<"error">>, "error") /\ ButFinal(t \o <<"error">>) = t
  BY <1>1, <1>2, Ending
<1>5. AudioReply(t) /\ AudioReply(t \o <<"error">>)
  BY <1>2, <1>4 DEF AudioReply
<1> QED BY <1>2, <1>3, <1>5 DEF t

\* The same of a transcript, which is whole with `transcript' before its stop.
LEMMA TranscriptReplies ==
  ASSUME NEW s, Open(s, "transcript-start", "transcript-chunk")
  PROVE  /\ Open(s \o <<"transcript-chunk">>, "transcript-start", "transcript-chunk")
         /\ TranscriptReply(s \o <<"transcript", "transcript-stop">>)
         /\ TranscriptReply(s \o <<"transcript-stop", "error">>)
<1>1. /\ {"transcript-chunk", "transcript", "transcript-stop", "error"}
           \subseteq Replies
      /\ s \in Seq(Replies) /\ Len(s) \in Nat /\ Len(s) >= 1
  BY LenProperties DEF Replies, Open
<1> DEFINE framed(t) ==
             Framed(t, "transcript-start", "transcript-chunk", "transcript-stop")
           stopped == s \o <<"transcript-stop">>
           final == s \o <<"transcript">>
           t == final \o <<"transcript-stop">>
<1>2. /\ Open(s \o <<"transcript-chunk">>, "transcript-start", "transcript-chunk")
      /\ framed(stopped) /\ stopped \in Seq(Replies)
  BY <1>1, Frames, Ending
<1>3. TranscriptReply(s \o <<"transcript-stop", "error">>)
  <2>1. s \o <<"transcript-stop", "error">> = stopped \o <<"error">>
    BY <1>1, TwoMore
  <2>2. /\ EndsIn(stopped \o <<"error">>, "error")
        /\ ButFinal(stopped \o <<"error">>) = stopped
    BY <1>1, <1>2, Ending
  <2> HIDE DEF stopped
  <2> QED BY <1>2, <2>1, <2>2 DEF TranscriptReply
<1>4. s \o <<"transcript", "transcript-stop">> = t
  BY <1>1, TwoMore
<1>5. /\ final \in Seq(Replies) /\ Len(final) = Len(s) + 1
      /\ final[Len(s) + 1] = "transcript" /\ ButFinal(final) = s
  BY <1>1, Ending DEF EndsIn, Final
<1>6. /\ t \in Seq(Replies) /\ Len(t) = Len(s) + 2
      /\ t[Len(s) + 1] = "transcript" /\ Final(t) = "transcript-stop"
  <2> HIDE DEF final
  <2>1. /\ t \in Seq(Replies) /\ Len(t) = Len(final) + 1
        /\ \A i \in 1..Len(final) : t[i] = final[i]
        /\ Final(t) = "transcript-stop"
    BY <1>1, <1>5, Ending DEF EndsIn
  <2>2. Len(s) + 1 \in 1..Len(final)
    BY <1>1, <1>5
  <2> QED BY <1>1, <1>5, <2>1, <2>2
<1>7. SubSeq(t, 1, Len(s)) = s
  <2>1. 1 \in 1..Len(s) /\ Len(s) \in 1..Len(s)
    BY <1>1
  <2>2. <<"transcript", "transcript-stop">> \in Seq(Replies)
    BY <1>1
  <2>3. SubSeq(s \o <<"transcript", "transcript-stop">>, 1, Len(s))
          = SubSeq(s, 1, Len(s))
    BY <1>1, <2>1, <2>2, SubSeqOfConcat1
  <2> QED BY <1>1, <1>4, <2>3, SubSeqFull
<1>8. Append(s, "transcript-stop") = stopped
  BY <1>1, AppendIsConcat
<1> HIDE DEF t, stopped
<1>9. TranscriptReply(t)
  <2>1. /\ Len(t) >= 3 /\ Len(t) - 1 = Len(s) + 1 /\ Len(t) - 2 = Len(s)
    BY <1>1, <1>6
  <2>2. t[Len(t) - 1] = "transcript"
    BY <1>6, <2>1
  <2>3. framed(Append(SubSeq(t, 1, Len(t) - 2), Final(t)))
    BY <1>2, <1>6, <1>7, <1>8, <2>1
  <2> QED BY <2>1, <2>2, <2>3 DEF TranscriptReply
<1> QED BY <1>2, <1>3, <1>4, <1>9

-----------------------------------------------------------------------------
(***************************************************************************)
(* The two ways in which a handler goes on                                 *)
(***************************************************************************)
\* Events are added to what has been said.
LEMMA Saying ==
  ASSUME Shape, phase # "write", NEW events \in Seq(Replies), events # <<>>,
         NEW withTimeout, NEW next, next # "write",
         Say(events, withTimeout, next), reply' \in {reply, <<>>},
         torn' = torn, phase # "closed"
  PROVE  /\ Shape' /\ Where' = next
         /\ reply' = reply => Said' = Said \o events
         /\ reply' = <<>> => Said' = events
<1>1. todo = <<>> /\ Said = reply
  BY ConcatEmptySeq DEF Shape, Said
<1>2. todo' = events /\ phase' = "write" /\ after' = next
  BY DEF Say
<1>3. Shape' /\ Where' = next
  BY <1>2, EmptySeq DEF Shape, Where
<1>4. reply' = reply => Said' = Said \o events
  BY <1>1, <1>2 DEF Said
<1>5. reply' = <<>> => Said' = events
  BY <1>2, ConcatEmptySeq DEF Said
<1> QED BY <1>3, <1>4, <1>5

\* Nothing is.
LEMMA Going ==
  ASSUME Shape, phase # "write", NEW next, next # "write",
         Go(next), reply' \in {reply, <<>>}, torn' = torn, phase # "closed"
  PROVE  /\ Shape' /\ Where' = next
         /\ reply' = reply => Said' = Said
         /\ reply' = <<>> => Said' = <<>>
<1>1. todo = <<>> /\ UNCHANGED <<todo, after>> /\ phase' = next
  BY DEF Shape, Go
<1>2. Shape' /\ Where' = next
  BY <1>1, EmptySeq DEF Shape, Where
<1>3. reply' = <<>> => Said' = <<>>
  BY <1>1, EmptySeq, ConcatEmptySeq DEF Said
<1> QED BY <1>1, <1>2, <1>3 DEF Said

\* An error alone answers whatever can fail.
LEMMA Errors ==
  /\ <<"error">> \in Seq(Replies) /\ <<"error">> # <<>>
  /\ <<>> \o <<"error">> = <<"error">>
  /\ AudioReply(<<"error">>) /\ TranscriptReply(<<"error">>)
  BY ConcatEmptySeq DEF Replies, AudioReply, TranscriptReply

(***************************************************************************)
(* The main loop and collecting                                            *)
(***************************************************************************)
\* A request is read: nothing has been said to it.
LEMMA ReadRequest_Inv ==
  ASSUME ConnectionInv, NEW k \in RequestKinds, ReadRequest(k)
  PROVE  ConnectionInv'
<1>1. /\ Shape /\ phase = "main" /\ request' = k /\ reply' = <<>>
      /\ textRefused' = FALSE /\ lastRead' = "event"
      /\ torn' = torn /\ Dispatch(k)
  BY DEF ConnectionInv, ReadRequest
<1>2. ASSUME Refuse, k \in Speech \cup {"transcribe"}
      PROVE  ConnectionInv'
  <2>1. Shape' /\ Where' = "return" /\ Said' = <<"error">>
    BY <1>1, <1>2, Errors, Saying DEF Refuse
  <2> QED BY <1>1, <1>2, <2>1, Errors DEF ConnectionInv, SaidAt, Speech
<1>3. ASSUME NEW next \in {"text", "audioStart", "whole", "first", "main"},
             Go(next),
             next = "text" => k = "synthesize-start",
             next = "audioStart" => k = "transcribe",
             next \in {"whole", "first"} => k \in Speech,
             next = "main" => k = "other"
      PROVE  ConnectionInv'
  <2>1. Shape' /\ Where' = next /\ Said' = <<>>
    BY <1>1, <1>3, Going
  <2> QED BY <1>1, <1>3, <2>1 DEF ConnectionInv, SaidAt, CompleteReply
<1>4. ASSUME NEW e \in Replies, Say(<<e>>, FALSE, "main"),
             CompleteReply(k, <<e>>)
      PROVE  ConnectionInv'
  <2>1. <<e>> \in Seq(Replies) /\ <<e>> # <<>>
    OBVIOUS
  <2>2. Shape' /\ Where' = "main" /\ Said' = <<e>>
    BY <1>1, <1>4, <2>1, Saying
  <2> QED BY <1>1, <1>4, <2>2 DEF ConnectionInv, SaidAt
<1>5. CASE k = "synthesize"
  BY <1>1, <1>2, <1>3, <1>5 DEF Dispatch, Synthesize, Speak, Speech
<1>6. CASE k = "transcribe"
  BY <1>1, <1>2, <1>3, <1>6 DEF Dispatch
<1>7. CASE k = "synthesize-start"
  BY <1>1, <1>3, <1>7 DEF Dispatch
<1>8. CASE k \in {"ping", "describe", "unknown"}
  <2>1. PICK e \in {"pong", "info", "error"} :
          Say(<<e>>, FALSE, "main") /\ CompleteReply(k, <<e>>)
    BY <1>1, <1>8 DEF Dispatch, CompleteReply
  <2>2. e \in Replies
    BY DEF Replies
  <2> QED BY <1>4, <2>1, <2>2
<1>9. CASE k = "other"
  BY <1>1, <1>3, <1>9 DEF Dispatch
<1> QED BY <1>5, <1>6, <1>7, <1>8, <1>9 DEF RequestKinds

\* The client is done, or silent.
LEMMA Ends_Inv ==
  ASSUME ConnectionInv, MainEnds \/ CollectEnds
  PROVE  ConnectionInv'
<1>1. /\ Shape /\ phase \in Collecting \cup {"main"}
      /\ UNCHANGED <<reply, torn, request>>
  BY DEF ConnectionInv, MainEnds, CollectEnds, Collecting
<1>2. CASE Go("closed")
  <2>1. Shape' /\ Where' = "closed"
    BY <1>1, <1>2, Going DEF Collecting
  <2> QED BY <2>1 DEF ConnectionInv, SaidAt
<1>3. CASE phase \in Collecting /\ Go("main") /\ lastRead' # "event"
  <2>1. Shape' /\ Where' = "main" /\ Said' = Said
    BY <1>1, <1>3, Going DEF Collecting
  <2>2. Said = <<>>
    BY <1>1, <1>3 DEF ConnectionInv, SaidAt, Where, Collecting
  <2> QED BY <1>3, <2>1, <2>2 DEF ConnectionInv, SaidAt
<1> QED BY <1>2, <1>3 DEF MainEnds, CollectEnds

\* The events of an exchange are taken in, and refused or handed on.
LEMMA Collect_Inv ==
  ASSUME ConnectionInv,
         \/ CollectText \/ TextUnexpected \/ CollectAudioStart
         \/ CollectAudioChunk \/ CollectAudioStop \/ AudioRefused \/ FilterAudio
  PROVE  ConnectionInv'
<1>1. /\ Shape /\ phase \in {"text", "audioStart", "audio", "vad"}
      /\ UNCHANGED <<reply, torn, request, lastRead>>
  BY DEF ConnectionInv, CollectText, TextUnexpected, CollectAudioStart,
     CollectAudioChunk, CollectAudioStop, AudioRefused, FilterAudio
<1>2. /\ Said = <<>> /\ ~textRefused /\ lastRead = "event"
      /\ request = IF phase = "text" THEN "synthesize-start" ELSE "transcribe"
  BY <1>1 DEF ConnectionInv, SaidAt, Where
<1>3. ASSUME NEW next \in {"text", "whole", "first", "audio", "vad",
                           "transcript", "firstText"},
             Go(next), textRefused' = textRefused,
             next \in {"text", "whole", "first"} <=> phase = "text"
      PROVE  ConnectionInv'
  <2>1. Shape' /\ Where' = next /\ Said' = <<>>
    BY <1>1, <1>2, <1>3, Going
  <2> QED BY <1>1, <1>2, <1>3, <2>1 DEF ConnectionInv, SaidAt, Speech
<1>4. ASSUME NEW next \in {"return", "main"}, Say(<<"error">>, FALSE, next),
             \/ textRefused' = textRefused /\ next = "return"
             \/ textRefused' = TRUE /\ next = "main" /\ phase = "text"
      PROVE  ConnectionInv'
  <2>1. Shape' /\ Where' = next /\ Said' = Said \o <<"error">>
    BY <1>1, <1>4, Errors, Saying
  <2>2. Said' = <<"error">>
    BY <1>2, <2>1, Errors
  <2> QED BY <1>1, <1>2, <1>4, <2>1, <2>2, Errors DEF ConnectionInv, SaidAt, Speech
<1>5. CASE CollectText
  BY <1>3, <1>4, <1>5 DEF CollectText, Synthesize, Speak, Refuse
<1>6. CASE TextUnexpected
  BY <1>4, <1>6 DEF TextUnexpected
<1>7. CASE CollectAudioStart \/ CollectAudioChunk
  BY <1>3, <1>7 DEF CollectAudioStart, CollectAudioChunk
<1>8. CASE CollectAudioStop
  BY <1>3, <1>8 DEF CollectAudioStop, Listen
<1>9. CASE AudioRefused
  BY <1>4, <1>9 DEF AudioRefused, Refuse
<1>10. CASE FilterAudio
  BY <1>3, <1>4, <1>10 DEF FilterAudio, Listen, Refuse
<1> QED BY <1>5, <1>6, <1>7, <1>8, <1>9, <1>10

(***************************************************************************)
(* Answering                                                               *)
(***************************************************************************)
\* The answers in one piece.
LEMMA AnswerOnce_Inv ==
  ASSUME ConnectionInv, AnswerWhole \/ AnswerTranscript
  PROVE  ConnectionInv'
<1>1. /\ Shape /\ phase \in {"whole", "transcript"}
      /\ UNCHANGED <<reply, torn, request, textRefused, lastRead>>
  BY DEF ConnectionInv, AnswerWhole, AnswerTranscript
<1>2. /\ Said = <<>> /\ ~textRefused /\ lastRead = "event"
      /\ IF phase = "whole" THEN request \in Speech ELSE request = "transcribe"
  BY <1>1 DEF ConnectionInv, SaidAt, Where
<1>3. ASSUME NEW events \in Seq(Replies), events # <<>>,
             Say(events, FALSE, "return"),
             IF phase = "whole" THEN AudioReply(events)
                                ELSE TranscriptReply(events)
      PROVE  ConnectionInv'
  <2>1. Shape' /\ Where' = "return" /\ Said' = events
    BY <1>1, <1>2, <1>3, Saying, ConcatEmptySeq
  <2> QED BY <1>1, <1>2, <1>3, <2>1 DEF ConnectionInv, SaidAt
<1>4. CASE Refuse
  BY <1>3, <1>4, Errors DEF Refuse
<1>5. CASE AnswerWhole /\ ~Refuse
  <2>1. <<"audio-start", "audio-chunk">> \in Seq(Replies)
        /\ <<"audio-start">> \in Seq(Replies)
    BY DEF Replies
  <2>2. Open(<<"audio-start", "audio-chunk">>, "audio-start", "audio-chunk")
        /\ Open(<<"audio-start">>, "audio-start", "audio-chunk")
    BY <2>1 DEF Open
  <2>3. {"audio-start", "audio-chunk", "audio-stop", "error"} \subseteq Replies
    BY DEF Replies
  <2>4. <<"audio-start", "audio-chunk">> \o <<"audio-stop">>
          = <<"audio-start", "audio-chunk", "audio-stop">>
        /\ <<"audio-start">> \o <<"audio-stop", "error">>
          = <<"audio-start", "audio-stop", "error">>
    BY <2>3, Literals
  <2>5. AudioReply(<<"audio-start", "audio-chunk", "audio-stop">>)
        /\ AudioReply(<<"audio-start", "audio-stop", "error">>)
    BY <2>2, <2>4, AudioReplies
  <2>6. <<"audio-start", "audio-chunk", "audio-stop">> \in Seq(Replies)
        /\ <<"audio-start", "audio-stop", "error">> \in Seq(Replies)
    BY <2>3
  <2>7. phase = "whole"
    BY <1>5 DEF AnswerWhole
  <2> QED BY <1>3, <1>5, <2>5, <2>6, <2>7 DEF AnswerWhole
<1>6. CASE AnswerTranscript /\ ~Refuse
  <2>1. <<"transcript">> \in Seq(Replies) /\ TranscriptReply(<<"transcript">>)
    BY DEF Replies, TranscriptReply
  <2>2. phase = "transcript"
    BY <1>6 DEF AnswerTranscript
  <2> QED BY <1>3, <1>6, <2>1, <2>2 DEF AnswerTranscript
<1> QED BY <1>4, <1>5, <1>6

\* The next answer of the model continues a frame, or ends it.
LEMMA Continue_Inv ==
  ASSUME Shape, UNCHANGED <<reply, torn, request, textRefused, lastRead>>,
         ~textRefused, lastRead = "event", phase \notin {"write", "closed"},
         NEW events \in Seq(Replies), events # <<>>, NEW withTimeout,
         NEW next \in {"more", "moreText", "return"},
         Say(events, withTimeout, next),
         SaidAt(next, Said \o events, request, FALSE, "event")
  PROVE  ConnectionInv'
<1>1. Shape' /\ Where' = next /\ Said' = Said \o events
  BY Saying
<1>2. textRefused' = FALSE \/ textRefused' = textRefused
  OBVIOUS
<1> QED BY <1>1, <1>2 DEF ConnectionInv, SaidAt

\* Streamed speech.
LEMMA AnswerAudio_Inv ==
  ASSUME ConnectionInv, AnswerFirst \/ AnswerMore
  PROVE  ConnectionInv'
<1>1. /\ Shape /\ phase \in {"first", "more"}
      /\ UNCHANGED <<reply, torn, request, textRefused, lastRead>>
  BY DEF ConnectionInv, AnswerFirst, AnswerMore
<1>2. /\ request \in Speech /\ ~textRefused /\ lastRead = "event"
      /\ phase = "first" => Said = <<>>
      /\ phase = "more" => Open(Said, "audio-start", "audio-chunk")
  BY <1>1 DEF ConnectionInv, SaidAt, Where
<1>3. {"audio-start", "audio-chunk", "audio-stop", "error"} \subseteq Replies
  BY DEF Replies
<1>4. ASSUME NEW events \in Seq(Replies), events # <<>>,
             \/ Say(events, TRUE, "return") /\ AudioReply(Said \o events)
             \/ /\ Say(events, TRUE, "more")
                /\ Open(Said \o events, "audio-start", "audio-chunk")
      PROVE  ConnectionInv'
  BY <1>1, <1>2, <1>4, Continue_Inv DEF SaidAt
<1>5. /\ <<"audio-start">> \in Seq(Replies)
      /\ Open(<<"audio-start">>, "audio-start", "audio-chunk")
  BY <1>3 DEF Open
<1>6. CASE AnswerFirst
  <2>1. phase = "first"
    BY <1>6 DEF AnswerFirst
  <2>2. ASSUME NEW events \in Seq(Replies)
        PROVE  Said \o events = events
    BY <1>2, <2>1, ConcatEmptySeq
  <2>3. /\ <<"audio-start", "audio-chunk">> \in Seq(Replies)
        /\ <<"audio-start", "audio-stop">> \in Seq(Replies)
        /\ <<"audio-start", "audio-stop", "error">> \in Seq(Replies)
        /\ <<"error">> \in Seq(Replies)
    BY <1>3, Literals
  <2>4. /\ Open(<<"audio-start", "audio-chunk">>, "audio-start", "audio-chunk")
        /\ AudioReply(<<"audio-start", "audio-stop">>)
        /\ AudioReply(<<"audio-start", "audio-stop", "error">>)
    <3>1. /\ <<"audio-start">> \o <<"audio-chunk">> = <<"audio-start", "audio-chunk">>
          /\ <<"audio-start">> \o <<"audio-stop">> = <<"audio-start", "audio-stop">>
          /\ <<"audio-start">> \o <<"audio-stop", "error">>
               = <<"audio-start", "audio-stop", "error">>
      BY <1>3, Literals
    <3>2. /\ Open(<<"audio-start">> \o <<"audio-chunk">>,
                  "audio-start", "audio-chunk")
          /\ AudioReply(<<"audio-start">> \o <<"audio-stop">>)
          /\ AudioReply(<<"audio-start">> \o <<"audio-stop", "error">>)
      BY <1>5, AudioReplies
    <3> QED BY <3>1, <3>2
  <2> QED BY <1>4, <1>6, <2>2, <2>3, <2>4, Errors DEF AnswerFirst
<1>7. CASE AnswerMore
  <2>1. phase = "more"
    BY <1>7 DEF AnswerMore
  <2>2. /\ <<"audio-chunk">> \in Seq(Replies) /\ <<"audio-stop">> \in Seq(Replies)
        /\ <<"audio-stop", "error">> \in Seq(Replies)
    BY <1>3, Literals
  <2>3. /\ Open(Said \o <<"audio-chunk">>, "audio-start", "audio-chunk")
        /\ AudioReply(Said \o <<"audio-stop">>)
        /\ AudioReply(Said \o <<"audio-stop", "error">>)
    BY <1>2, <2>1, AudioReplies
  <2> QED BY <1>4, <1>7, <2>2, <2>3 DEF AnswerMore
<1> QED BY <1>6, <1>7

\* A streamed transcript.
LEMMA AnswerText_Inv ==
  ASSUME ConnectionInv, AnswerFirstText \/ AnswerMoreText
  PROVE  ConnectionInv'
<1>1. /\ Shape /\ phase \in {"firstText", "moreText"}
      /\ UNCHANGED <<reply, torn, request, textRefused, lastRead>>
  BY DEF ConnectionInv, AnswerFirstText, AnswerMoreText
<1>2. /\ request = "transcribe" /\ ~textRefused /\ lastRead = "event"
      /\ phase = "firstText" => Said = <<>>
      /\ phase = "moreText" => Open(Said, "transcript-start", "transcript-chunk")
  BY <1>1 DEF ConnectionInv, SaidAt, Where
<1>3. {"transcript-start", "transcript-chunk", "transcript", "transcript-stop",
       "error"} \subseteq Replies
  BY DEF Replies
<1>4. ASSUME NEW events \in Seq(Replies), events # <<>>,
             \/ Say(events, TRUE, "return") /\ TranscriptReply(Said \o events)
             \/ /\ Say(events, TRUE, "moreText")
                /\ Open(Said \o events, "transcript-start", "transcript-chunk")
      PROVE  ConnectionInv'
  BY <1>1, <1>2, <1>4, Continue_Inv DEF SaidAt
<1>5. /\ <<"transcript-start">> \in Seq(Replies)
      /\ Open(<<"transcript-start">>, "transcript-start", "transcript-chunk")
  BY <1>3 DEF Open
<1>6. CASE AnswerFirstText
  <2>1. phase = "firstText"
    BY <1>6 DEF AnswerFirstText
  <2>2. ASSUME NEW events \in Seq(Replies)
        PROVE  Said \o events = events
    BY <1>2, <2>1, ConcatEmptySeq
  <2>3. /\ <<"transcript-start", "transcript-chunk">> \in Seq(Replies)
        /\ WholeTranscript \in Seq(Replies) /\ <<"error">> \in Seq(Replies)
    BY <1>3, Literals DEF WholeTranscript
  <2>4. /\ Open(<<"transcript-start", "transcript-chunk">>,
                "transcript-start", "transcript-chunk")
        /\ TranscriptReply(WholeTranscript)
    <3>1. /\ <<"transcript-start">> \o <<"transcript-chunk">>
               = <<"transcript-start", "transcript-chunk">>
          /\ <<"transcript-start">> \o <<"transcript", "transcript-stop">>
               = WholeTranscript
      BY <1>3, Literals DEF WholeTranscript
    <3>2. /\ Open(<<"transcript-start">> \o <<"transcript-chunk">>,
                  "transcript-start", "transcript-chunk")
          /\ TranscriptReply(<<"transcript-start">> \o
                               <<"transcript", "transcript-stop">>)
      BY <1>5, TranscriptReplies
    <3> QED BY <3>1, <3>2
  <2>5. WholeTranscript # <<>>
    BY DEF WholeTranscript
  <2> QED BY <1>4, <1>6, <2>2, <2>3, <2>4, <2>5, Errors DEF AnswerFirstText
<1>7. CASE AnswerMoreText
  <2>1. phase = "moreText"
    BY <1>7 DEF AnswerMoreText
  <2>2. /\ <<"transcript-chunk">> \in Seq(Replies)
        /\ <<"transcript", "transcript-stop">> \in Seq(Replies)
        /\ <<"transcript-stop", "error">> \in Seq(Replies)
    BY <1>3, Literals
  <2>3. /\ Open(Said \o <<"transcript-chunk">>,
                "transcript-start", "transcript-chunk")
        /\ TranscriptReply(Said \o <<"transcript", "transcript-stop">>)
        /\ TranscriptReply(Said \o <<"transcript-stop", "error">>)
    BY <1>2, <2>1, TranscriptReplies
  <2> QED BY <1>4, <1>7, <2>2, <2>3 DEF AnswerMoreText
<1> QED BY <1>6, <1>7

\* The answer is complete; a streamed synthesize is confirmed.
LEMMA Return_Inv ==
  ASSUME ConnectionInv, Return
  PROVE  ConnectionInv'
<1>1. /\ Shape /\ phase = "return"
      /\ UNCHANGED <<reply, torn, request, textRefused, lastRead>>
  BY DEF ConnectionInv, Return
<1>2. /\ ~textRefused /\ lastRead = "event"
      /\ \/ request \in Speech /\ AudioReply(Said)
         \/ request = "transcribe" /\ TranscriptReply(Said)
  BY <1>1 DEF ConnectionInv, SaidAt, Where
<1>3. CASE request = "synthesize-start"
  <2>1. <<"synthesize-stopped">> \in Seq(Replies)
        /\ "synthesize-stopped" \in Replies
    BY DEF Replies
  <2>2. Say(<<"synthesize-stopped">>, TRUE, "main")
    BY <1>3 DEF Return
  <2>3. Shape' /\ Where' = "main" /\ Said' = Said \o <<"synthesize-stopped">>
    BY <1>1, <2>1, <2>2, Saying
  <2>4. Said \in Seq(Replies)
    BY <1>1, ConcatProperties DEF Shape, Said
  <2>5. StreamedTextReply(Said \o <<"synthesize-stopped">>)
    BY <1>2, <1>3, <2>1, <2>4, Ending DEF StreamedTextReply
  <2> QED
    BY <1>1, <1>2, <1>3, <2>3, <2>5 DEF ConnectionInv, SaidAt, CompleteReply
<1>4. CASE request # "synthesize-start"
  <2>1. Shape' /\ Where' = "main" /\ Said' = Said
    BY <1>1, <1>4, Going DEF Return
  <2> QED
    BY <1>1, <1>2, <1>4, <2>1 DEF ConnectionInv, SaidAt, CompleteReply, Speech
<1> QED BY <1>3, <1>4

(***************************************************************************)
(* Writing                                                                 *)
(***************************************************************************)
\* An event that is written moves from what will be said to what was.
LEMMA WriteEvent_Inv ==
  ASSUME ConnectionInv, WriteEvent
  PROVE  ConnectionInv'
<1>1. /\ Shape /\ phase = "write" /\ todo # <<>>
      /\ reply' = Append(reply, Head(todo)) /\ todo' = Tail(todo)
      /\ phase' = IF Len(todo) = 1 THEN after ELSE "write"
      /\ UNCHANGED <<after, torn, request, textRefused, lastRead>>
  BY DEF ConnectionInv, Shape, WriteEvent
<1>2. /\ reply \in Seq(Replies) /\ todo \in Seq(Replies)
      /\ Head(todo) \in Replies /\ Tail(todo) \in Seq(Replies)
      /\ Len(Tail(todo)) = Len(todo) - 1 /\ Len(todo) \in Nat
  BY <1>1, HeadTailProperties, LenProperties DEF Shape
<1>3. Tail(todo) = <<>> <=> Len(todo) = 1
  <2>1. Tail(todo) = <<>> <=> Len(Tail(todo)) = 0
    BY <1>2, EmptySeq
  <2> QED BY <1>2, <2>1
<1>4. Append(reply, Head(todo)) \o Tail(todo) = reply \o todo
  <2>1. <<Head(todo)>> \o Tail(todo) = todo
    <3> DEFINE t == <<Head(todo)>> \o Tail(todo)
    <3>1. <<Head(todo)>> \in Seq(Replies) /\ Len(<<Head(todo)>>) = 1
      BY <1>2
    <3>2. /\ t \in Seq(Replies) /\ Len(t) = 1 + Len(Tail(todo))
          /\ \A i \in 1..(1 + Len(Tail(todo))) :
               t[i] = IF i <= 1 THEN <<Head(todo)>>[i] ELSE Tail(todo)[i - 1]
      BY <1>2, <3>1, ConcatProperties
    <3>3. Len(t) = Len(todo)
      BY <1>2, <3>2
    <3>4. ASSUME NEW i \in 1..Len(t)
          PROVE  t[i] = todo[i]
      <4>1. CASE i = 1
        BY <1>1, <1>2, <3>2, <4>1
      <4>2. CASE i # 1
        <5>1. i - 1 \in 1..Len(Tail(todo)) /\ i \in 1..(1 + Len(Tail(todo)))
              /\ ~(i <= 1)
          BY <1>2, <3>3, <4>2
        <5>2. Tail(todo)[i - 1] = todo[(i - 1) + 1]
          BY <1>1, <1>2, <5>1, HeadTailProperties
        <5>3. (i - 1) + 1 = i
          BY <3>3, <1>2
        <5> QED BY <3>2, <5>1, <5>2, <5>3
      <4> QED BY <4>1, <4>2
    <3> HIDE DEF t
    <3>5. t = todo
      BY <1>2, <3>2, <3>3, <3>4, SeqEqual
    <3> QED BY <3>5 DEF t
  <2>2. Append(reply, Head(todo)) = reply \o <<Head(todo)>>
    BY <1>2, AppendIsConcat
  <2>3. (reply \o <<Head(todo)>>) \o Tail(todo)
          = reply \o (<<Head(todo)>> \o Tail(todo))
    <3>1. <<Head(todo)>> \in Seq(Replies)
      BY <1>2
    <3> QED BY <1>2, <3>1, ConcatAssociative
  <2> QED BY <2>1, <2>2, <2>3
<1>5. Said' = Said
  BY <1>1, <1>4 DEF Said
<1>6. Where' = Where
  BY <1>1 DEF Where, Shape
<1>7. Append(reply, Head(todo)) \in Seq(Replies)
  BY <1>2, AppendProperties
<1>8. Shape'
  BY <1>1, <1>2, <1>3, <1>7 DEF Shape
<1> QED BY <1>1, <1>5, <1>6, <1>8 DEF ConnectionInv

\* No step breaks the invariant.
LEMMA Next_Inv ==
  ASSUME ConnectionInv, [Next]_vars
  PROVE  ConnectionInv'
<1>1. CASE UNCHANGED vars
  BY <1>1 DEF vars, ConnectionInv, Shape, SaidAt, Where, Said
<1>2. CASE Stall
  BY <1>2 DEF Stall, ConnectionInv, Shape, SaidAt, Where, Said
<1>3. CASE WriteFails
  <2>1. Shape' /\ Where' = "closed"
    BY <1>3, EmptySeq DEF WriteFails, ConnectionInv, Shape, Where
  <2> QED BY <2>1 DEF ConnectionInv, SaidAt
<1>4. CASE WriteEvent
  BY <1>4, WriteEvent_Inv
<1>5. CASE Return
  BY <1>5, Return_Inv
<1>6. CASE Answer
  BY <1>6, Collect_Inv, AnswerOnce_Inv, AnswerAudio_Inv, AnswerText_Inv
  DEF Answer
<1>7. CASE MainEnds \/ Collect
  BY <1>7, Ends_Inv, Collect_Inv DEF Collect
<1>8. ASSUME NEW k \in RequestKinds, ReadRequest(k)
      PROVE  ConnectionInv'
  BY <1>8, ReadRequest_Inv
<1> QED
  BY <1>1, <1>2, <1>3, <1>4, <1>5, <1>6, <1>7, <1>8 DEF Next

\* The invariant holds from the start.
LEMMA Inductive == Spec => []ConnectionInv
<1>1. ASSUME Init PROVE ConnectionInv
  <2>1. Shape
    BY <1>1, EmptySeq DEF Init, Shape
  <2>2. /\ Where = "main" /\ Said = <<>> /\ request = "other"
        /\ textRefused = FALSE /\ lastRead = "event"
    BY <1>1, EmptySeq, ConcatEmptySeq DEF Init, Where, Said
  <2> QED BY <2>1, <2>2 DEF ConnectionInv, SaidAt, CompleteReply
<1> QED BY <1>1, Next_Inv, PTL DEF Spec

\* Back in the main loop the last request has one complete reply of its kind,
\* an error never inside a frame, no frame left open and a streamed synthesis
\* confirmed by synthesize-stopped, but for two cases told apart exactly: a
\* client that left or fell silent inside an exchange got nothing, and a text
\* that was refused got the error alone (the handle_* functions).
THEOREM RepliesAreWhole == Spec => []RepliesAreComplete
<1>1. ASSUME ConnectionInv PROVE RepliesAreComplete
  <2>1. SUFFICES ASSUME phase = "main"
                 PROVE  IF lastRead # "event" THEN reply = <<>>
                        ELSE IF textRefused
                          THEN request = "synthesize-start" /\ reply = <<"error">>
                        ELSE CompleteReply(request, reply)
    BY DEF RepliesAreComplete
  <2>2. Said = reply /\ Where = "main"
    BY <1>1, <2>1, ConcatEmptySeq DEF ConnectionInv, Shape, Said, Where
  <2> QED BY <1>1, <2>2 DEF ConnectionInv, SaidAt
<1> QED BY <1>1, Inductive, PTL

\* After an event that was given up half way the connection is closed and
\* nothing is written to it.
THEOREM NothingFollowsTornWrite == Spec => NothingAfterTornWrite
<1>1. ASSUME ConnectionInv, [Next]_vars, torn
      PROVE  reply' = reply /\ phase' = "closed"
  <2>1. phase = "closed"
    BY <1>1 DEF ConnectionInv, Shape
  <2>2. ~Answer /\ ~Return /\ ~MainEnds
    BY <2>1 DEF Answer, FilterAudio, AnswerWhole, AnswerFirst, AnswerMore,
       AnswerTranscript, AnswerFirstText, AnswerMoreText, Return, MainEnds
  <2>3. ~Collect /\ ~WriteEvent /\ ~WriteFails /\ ~Stall
    BY <2>1 DEF Collect, CollectText, TextUnexpected, CollectAudioStart,
       CollectAudioChunk, CollectAudioStop, AudioRefused, CollectEnds,
       Collecting, WriteEvent, WriteFails, Stall
  <2>4. \A k \in RequestKinds : ~ReadRequest(k)
    BY <2>1 DEF ReadRequest
  <2>5. UNCHANGED vars
    BY <1>1, <2>2, <2>3, <2>4 DEF Next
  <2> QED BY <2>1, <2>5 DEF vars
<1>2. ConnectionInv /\ [Next]_vars =>
        [torn => reply' = reply /\ phase' = "closed"]_vars
  BY <1>1
<1> QED BY <1>2, Inductive, PTL DEF Spec, NothingAfterTornWrite
-----------------------------------------------------------------------------
(***************************************************************************)
(* Types                                                                   *)
(***************************************************************************)
\* The part of TypeOK that is not in Shape: where the handler is, ...
PlaceOK ==
  /\ phase \in Phases /\ after \in Phases
  /\ timed \in BOOLEAN /\ rxHeld \in BOOLEAN

\* ... and what it has heard and counted.
HeardOK ==
  /\ server \in Servers /\ request \in RequestKinds
  /\ stalled \in BOOLEAN /\ textRefused \in BOOLEAN /\ torn \in BOOLEAN
  /\ collected \in 0..MaxAudio /\ pieces \in 0..MaxPieces
  /\ lastRead \in {"event", "eof", "idle", "cut"}

\* They are TypeOK together.
LEMMA Parts == ASSUME Shape PROVE TypeOK <=> PlaceOK /\ HeardOK
  BY DEF TypeOK, PlaceOK, HeardOK, Shape

\* A handler that goes on has somewhere to go.
LEMMA Places ==
  ASSUME PlaceOK, NEW next \in Phases, rxHeld' \in BOOLEAN,
         \/ Go(next)
         \/ \E events : \E withTimeout \in BOOLEAN :
              Say(events, withTimeout, next)
  PROVE  PlaceOK'
<1>1. "write" \in Phases
  BY DEF Phases
<1> QED BY <1>1 DEF PlaceOK, Go, Say

\* The servers' settings decide where the handlers go.
LEMMA Settings ==
  ASSUME HeardOK
  PROVE  /\ Speak \in {"whole", "first"} /\ Listen \in {"transcript", "firstText"}
         /\ Streaming \in BOOLEAN
  BY DEF HeardOK, Servers, Speak, Listen, Streaming

\* The main loop reads a request, or ends.
LEMMA Main_Type ==
  ASSUME PlaceOK, HeardOK,
         (\E k \in RequestKinds : ReadRequest(k)) \/ MainEnds
  PROVE  PlaceOK' /\ HeardOK'
<1>1. {"main", "closed", "return", "write", "text", "audioStart", "whole",
       "first"} \subseteq Phases
  BY DEF Phases, Collecting, Awaiting
<1>2. CASE MainEnds
  <2>1. Go("closed") /\ UNCHANGED rxHeld
    BY <1>2 DEF MainEnds, modelVars
  <2>2. PlaceOK'
    BY <1>1, <2>1, Places DEF PlaceOK
  <2> QED BY <1>2, <2>2 DEF MainEnds, HeardOK, modelVars
<1>3. ASSUME NEW k \in RequestKinds, ReadRequest(k)
      PROVE  PlaceOK' /\ HeardOK'
  <2>1. rxHeld' \in BOOLEAN
    BY <1>3, Settings
    DEF ReadRequest, Dispatch, Synthesize, PlaceOK
  <2>2. PICK next \in {"main", "return", "text", "audioStart", "whole",
                       "first"} :
          \/ Go(next)
          \/ \E events : \E withTimeout \in BOOLEAN :
               Say(events, withTimeout, next)
    BY <1>3, Settings DEF ReadRequest, Dispatch, Synthesize, Refuse
  <2>3. PlaceOK'
    BY <1>1, <2>1, <2>2, Places
  <2>4. 0 \in 0..MaxAudio /\ 0 \in 0..MaxPieces
    BY ConnectionAssumption
  <2> QED BY <1>3, <2>3, <2>4 DEF ReadRequest, HeardOK
<1> QED BY <1>2, <1>3

\* Events are collected, never more audio than MaxAudio.
LEMMA Collect_Type ==
  ASSUME PlaceOK, HeardOK, Collect
  PROVE  PlaceOK' /\ HeardOK'
<1>1. {"main", "closed", "return", "text", "audio", "vad", "whole", "first",
       "transcript", "firstText"} \subseteq Phases
  BY DEF Phases, Collecting, Awaiting
<1>2. rxHeld' \in BOOLEAN
  BY Settings
  DEF Collect, CollectText, TextUnexpected, CollectAudioStart,
      CollectAudioChunk, CollectAudioStop, AudioRefused, CollectEnds,
      Synthesize, PlaceOK, modelVars
<1>3. PICK next \in {"main", "closed", "return", "text", "audio", "vad",
                     "whole", "first", "transcript", "firstText"} :
        \/ Go(next)
        \/ \E events : \E withTimeout \in BOOLEAN :
             Say(events, withTimeout, next)
  BY Settings
  DEF Collect, CollectText, TextUnexpected, CollectAudioStart,
      CollectAudioChunk, CollectAudioStop, AudioRefused, CollectEnds,
      Synthesize, Refuse
<1>4. PlaceOK'
  BY <1>1, <1>2, <1>3, Places
<1>5. CASE CollectAudioChunk
  <2>1. PICK size \in ChunkSizes :
          collected + size <= MaxAudio /\ collected' = collected + size
    BY <1>5 DEF CollectAudioChunk
  <2>2. collected' \in 0..MaxAudio
    BY <2>1, ConnectionAssumption DEF HeardOK
  <2> QED BY <1>4, <1>5, <2>2 DEF CollectAudioChunk, HeardOK, modelVars
<1>6. CASE ~CollectAudioChunk
  <2>1. /\ UNCHANGED <<server, request, stalled, collected, pieces, torn>>
        /\ textRefused' \in {textRefused, TRUE}
        /\ lastRead' \in {lastRead, "eof", "idle", "cut"}
    BY <1>6
    DEF Collect, CollectText, TextUnexpected, CollectAudioStart,
        CollectAudioStop, AudioRefused, CollectEnds, readVars, modelVars
  <2> QED BY <1>4, <2>1 DEF HeardOK
<1> QED BY <1>5, <1>6

\* The model's answers are passed on, and the handler returns.
LEMMA Answer_Type ==
  ASSUME PlaceOK, HeardOK, Answer \/ Return
  PROVE  PlaceOK' /\ HeardOK'
<1>1. {"main", "return", "more", "moreText", "transcript", "firstText"}
        \subseteq Phases
  BY DEF Phases, Awaiting
<1>2. rxHeld' \in BOOLEAN
  BY Settings
  DEF Answer, FilterAudio, AnswerWhole, AnswerFirst, AnswerMore,
      AnswerTranscript, AnswerFirstText, AnswerMoreText, Return, PlaceOK,
      modelVars
<1>3. PICK next \in {"main", "return", "more", "moreText", "transcript",
                     "firstText"} :
        \/ Go(next)
        \/ \E events : \E withTimeout \in BOOLEAN :
             Say(events, withTimeout, next)
  BY Settings
  DEF Answer, FilterAudio, AnswerWhole, AnswerFirst, AnswerMore,
      AnswerTranscript, AnswerFirstText, AnswerMoreText, Return, Refuse
<1>4. PlaceOK'
  BY <1>1, <1>2, <1>3, Places
<1>5. pieces' \in 0..MaxPieces
  <2>1. \/ pieces' = pieces
        \/ MaxPieces > 0 /\ pieces' = 1
        \/ pieces < MaxPieces /\ pieces' = pieces + 1
    BY DEF Answer, FilterAudio, AnswerWhole, AnswerFirst, AnswerMore,
       AnswerTranscript, AnswerFirstText, AnswerMoreText, Return, modelVars
  <2> QED BY <2>1, ConnectionAssumption DEF HeardOK
<1>6. UNCHANGED <<server, request, stalled, readVars, torn>>
  BY DEF Answer, FilterAudio, AnswerWhole, AnswerFirst, AnswerMore,
     AnswerTranscript, AnswerFirstText, AnswerMoreText, Return
<1> QED BY <1>4, <1>5, <1>6 DEF HeardOK, readVars

\* Events are written, or not.
LEMMA Write_Type ==
  ASSUME PlaceOK, HeardOK, WriteEvent \/ WriteFails \/ Stall
  PROVE  PlaceOK' /\ HeardOK'
<1>1. "closed" \in Phases /\ "write" \in Phases
  BY DEF Phases
<1>2. phase' \in {after, "write", "closed", phase} /\ UNCHANGED <<after, timed>>
  BY DEF WriteEvent, WriteFails, Stall, writeVars
<1>3. rxHeld' \in {rxHeld, FALSE} /\ torn' \in {torn, TRUE}
      /\ stalled' \in {stalled, ~stalled}
  BY DEF WriteEvent, WriteFails, Stall, modelVars
<1>4. UNCHANGED <<server, request, readVars, pieces>>
  BY DEF WriteEvent, WriteFails, Stall, modelVars
<1> QED BY <1>1, <1>2, <1>3, <1>4 DEF PlaceOK, HeardOK, readVars

\* Every reachable state is well typed.  In particular pcm_bytes never holds
\* more than MAX_TRANSCRIBE_AUDIO_BYTES (handle_transcribe's check of every
\* chunk), and there is something left to write exactly while writing.
THEOREM ConnectionIsTyped == Spec => []TypeOK
<1>1. ASSUME Init PROVE TypeOK
  <2>1. {"main", "write"} \subseteq Phases /\ "other" \in RequestKinds
    BY DEF Phases, RequestKinds
  <2>2. Shape
    BY <1>1, EmptySeq DEF Init, Shape
  <2>3. PlaceOK /\ HeardOK
    <3>1. 0 \in 0..MaxAudio /\ 0 \in 0..MaxPieces
      BY ConnectionAssumption
    <3>2. timed = FALSE /\ rxHeld = FALSE /\ phase = "main" /\ after = "main"
      BY <1>1 DEF Init
    <3>3. PlaceOK
      BY <2>1, <3>2 DEF PlaceOK
    <3> QED BY <1>1, <2>1, <3>1, <3>3 DEF Init, HeardOK
  <2> QED BY <2>2, <2>3, Parts
<1>2. ASSUME TypeOK, ConnectionInv, [Next]_vars PROVE TypeOK'
  <2>1. Shape /\ Shape'
    BY <1>2, Next_Inv DEF ConnectionInv
  <2>2. PlaceOK /\ HeardOK
    BY <1>2, <2>1, Parts
  <2>3. CASE UNCHANGED vars
    BY <1>2, <2>3 DEF TypeOK, vars
  <2>4. CASE Next
    <3>1. PlaceOK' /\ HeardOK'
      BY <2>2, <2>4, Main_Type, Collect_Type, Answer_Type, Write_Type DEF Next
    <3>2. Shape' => (TypeOK' <=> PlaceOK' /\ HeardOK')
      BY DEF TypeOK, PlaceOK, HeardOK, Shape
    <3> QED BY <2>1, <3>1, <3>2
  <2> QED BY <1>2, <2>3, <2>4
<1> QED BY <1>1, <1>2, Inductive, PTL DEF Spec
=============================================================================
