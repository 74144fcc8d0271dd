-------------------------------- MODULE Wire ---------------------------------
(***************************************************************************)
(* Framing (src/crates/wyoming-protocol/src/wire.rs): write_event at one   *)
(* end of a connection, a loop around read_event at the other, and a       *)
(* stream of bytes between them that delivers what it is given in pieces   *)
(* of any size.                                                            *)
(*                                                                         *)
(* A message is a header line, an optional data segment and an optional    *)
(* payload.  A byte is the message it belongs to, its segment and its      *)
(* place there, which is all that decides what the reader makes of it: a   *)
(* segment parses when it is the bytes of one segment, in full.            *)
(* The peer is this program, whose messages are written by write_event, or *)
(* another one, which may put data into the header, send what is no        *)
(* object, and exceed the limits.                                          *)
(***************************************************************************)
EXTENDS WyomingEvents

CONSTANTS
  Events,       \* events write_event is called with
  Foreign,      \* messages of other programs
  MaxMessages,  \* bound: messages in one connection
  Followers,    \* bound: messages that come after the first
  Size(_),      \* length of a JSON object's text
  PipeSize,     \* bytes the connection holds
  ChunkSize,    \* bytes fill_buf returns at most
  MaxHeader,    \* MAX_HEADER_LINE
  MaxData,      \* MAX_DATA_LENGTH
  MaxPayload    \* MAX_PAYLOAD_LENGTH

VARIABLES
  sent,    \* messages the peer has begun to write
  left,    \* bytes of the last one not yet in the connection
  stream,  \* bytes in the connection
  closed,  \* the peer will write no more
  stage,   \* what read_event reads next
  buf,     \* the bytes of the segment read so far
  at,      \* the message whose header was read
  merged,  \* merged_data
  got,     \* the events read_event has returned
  ending   \* how the last read_event ended, "" while the loop goes on

writerVars == <<sent, left, closed>>
readerVars == <<stage, buf, at, merged>>
vars == <<sent, left, stream, closed, readerVars, got, ending>>

\* The message of an event: data goes into a segment of its own.  `event' is
\* what the writer meant, a ghost; `header' is the length of the header.
MessageOf(event) ==
  [event |-> event, type |-> event.type, header |-> 1, inline |-> Nothing,
   data |-> SerializeData(event), payload |-> Payload(event)]

IsObject(value) == value \notin {Misfit, Null, EmptyList}

\* Bytes of a data segment, and of a payload.
DataLength(value) ==
  IF value = Nothing THEN 0 ELSE IF IsObject(value) THEN Size(value) ELSE 1

PayloadLength(payload) == IF payload = Nothing THEN 0 ELSE payload

ByteSet == Nat \X {"header", "newline", "data", "payload"} \X Nat

Segment(i, part, size) == [k \in 1..size |-> <<i, part, k>>]
Newline(i) == <<i, "newline", 1>>
HeaderBytes(i, m)  == Segment(i, "header", m.header)
DataBytes(i, m)    == Segment(i, "data", DataLength(m.data))
PayloadBytes(i, m) == Segment(i, "payload", PayloadLength(m.payload))

Bytes(i, m) == HeaderBytes(i, m) \o <<Newline(i)>> \o DataBytes(i, m)
                 \o PayloadBytes(i, m)

Messages == {MessageOf(e) : e \in Events} \cup Foreign

\* What the two objects of a message say together: the segment's word, and
\* what only the header has.
Said(m) ==
  LET object(value) == IF value = Nothing THEN EmptyObject ELSE value
      inline   == object(m.inline)
      external == object(m.data)
  IN  [f \in DOMAIN inline \cup DOMAIN external |->
         IF f \in DOMAIN external THEN external[f] ELSE inline[f]]

ASSUME WireAssumption ==
  /\ {MaxMessages, MaxHeader, MaxData, MaxPayload} \subseteq Nat
  /\ Followers \subseteq Messages
  /\ PipeSize \in Nat \ {0} /\ ChunkSize \in Nat \ {0}
  /\ Nothing \notin Nat \cup {Misfit, Null, EmptyList}
  /\ Nothing \notin Seq(ByteSet)

\* A JSON object is a function, and none of the other values.
IsJsonObject(value) ==
  /\ value \notin {Nothing, Misfit, Null, EmptyList}
  /\ value = [f \in DOMAIN value |-> value[f]]

\* The header and the text of a JSON value have at least one byte each; Misfit
\* stands for every value that is no object.
ASSUME MessagesAssumption ==
  \A m \in Messages :
    /\ m.header \in Nat \ {0}
    /\ m.payload = Nothing \/ m.payload \in Nat
    /\ m.data = Nothing \/ DataLength(m.data) \in Nat \ {0}
    /\ \A value \in {m.inline, m.data} :
         value \in {Nothing, Misfit} \/ IsJsonObject(value)
    /\ Misfit \notin {m.inline, m.data} => IsJsonObject(Said(m))

\* A struct has a value for each of its required fields and for some of the
\* others, and only an audio chunk and an unknown event have a payload.
WellFormed(event) ==
  IF Unknown(event.type)
    THEN event.data = Null \/ IsJsonObject(event.data)
    ELSE /\ IsJsonObject(event.data) /\ IsJsonObject(ToJson(event.data))
         /\ LET schema == SchemaOf(event.type)
            IN  /\ schema.required \subseteq DOMAIN event.data
                /\ DOMAIN event.data \subseteq
                     schema.required \cup schema.optional \cup schema.lists
         /\ \A f \in DOMAIN event.data :
              Fits(IF f = "vad_sensitivity" THEN AsWireStr(event.data[f])
                                            ELSE event.data[f])
         /\ IF event.type = "audio-chunk" THEN event.payload \in Nat
                                          ELSE event.payload = Nothing

ASSUME EventsAssumption ==
  /\ \A e \in Events : e # Nothing /\ e.type # Misfit /\ WellFormed(e)
  /\ \A m \in Foreign : m.event = Nothing

Init ==
  /\ sent = <<>> /\ left = <<>> /\ stream = <<>> /\ closed = FALSE
  /\ stage = "header" /\ buf = <<>> /\ at = 0 /\ merged = EmptyObject
  /\ got = <<>> /\ ending = ""

-----------------------------------------------------------------------------
(***************************************************************************)
(* Writing                                                                 *)
(***************************************************************************)
Begin(m) ==
  /\ ~closed /\ left = <<>> /\ Len(sent) < MaxMessages
  /\ sent # <<>> => m \in Followers
  /\ sent' = Append(sent, m)
  /\ left' = Bytes(Len(sent) + 1, m)
  /\ UNCHANGED <<stream, closed, readerVars, got, ending>>

WriteEvent == \E e \in Events : Begin(MessageOf(e))
ForeignWrites == \E m \in Foreign : Begin(m)

\* write_all waits while the connection is full.
WriteByte ==
  /\ ~closed /\ left # <<>> /\ Len(stream) < PipeSize
  /\ stream' = Append(stream, Head(left)) /\ left' = Tail(left)
  /\ UNCHANGED <<sent, closed, readerVars, got, ending>>

\* The peer leaves, its write fails, or it is dropped half way.
CloseWriter ==
  /\ ~closed
  /\ closed' = TRUE /\ left' = <<>>
  /\ UNCHANGED <<sent, stream, readerVars, got, ending>>

-----------------------------------------------------------------------------
(***************************************************************************)
(* Reading                                                                 *)
(***************************************************************************)
Stop(how) ==
  /\ ending' = how
  /\ UNCHANGED <<writerVars, stream, readerVars, got>>

IoStage == CASE stage = "data"    -> "ReadData"
             [] stage = "payload" -> "ReadPayload"
             [] OTHER             -> "ReadHeader"

Reading(here) == ending = "" /\ stage = here

\* What fill_buf shows: any part of the connection's bytes from the first on.
Available == {SubSeq(stream, 1, n) :
                n \in {k \in 1..ChunkSize : k <= Len(stream)}}

Take(bytes) ==
  /\ buf' = buf \o bytes
  /\ stream' = SubSeq(stream, Len(bytes) + 1, Len(stream))

\* A segment is read, parsed and let go.
NextStage(next) == stage' = next /\ buf' = <<>>

Newlines(bytes) == {k \in 1..Len(bytes) : bytes[k][2] = "newline"}
First(places) == CHOOSE k \in places : \A j \in places : k <= j

UpToNewline(chunk) ==
  IF Newlines(chunk) = {} THEN chunk ELSE SubSeq(chunk, 1, First(Newlines(chunk)))

\* Mutant of HeaderRoom: the length is looked at when the newline has come.
HeaderRoomUnbounded == TRUE

\* read_line_bounded asks for more.
HeaderRoom == Len(buf) <= MaxHeader

\* A chunk without a newline is consumed whole.
ReadHeader ==
  /\ Reading("header") /\ HeaderRoom
  /\ \E chunk \in Available :
       /\ Take(UpToNewline(chunk))
       /\ stage' = IF Newlines(chunk) = {} THEN "header" ELSE "parse"
  /\ UNCHANGED <<writerVars, at, merged, got, ending>>

\* Mutant of ReadHeaderEnds: the end of the stream within a header is taken for
\* the one between two events.
ReadHeaderEndsAnywhere ==
  /\ Reading("header") /\ Len(buf) <= MaxHeader
  /\ stream = <<>> /\ closed
  /\ Stop("eof")

\* The end of the stream ends the line as well; between events it is no error.
ReadHeaderEnds ==
  /\ Reading("header") /\ Len(buf) <= MaxHeader
  /\ stream = <<>> /\ closed
  /\ IF buf = <<>> THEN Stop("eof")
       ELSE /\ stage' = "parse"
            /\ UNCHANGED <<writerVars, stream, buf, at, merged, got, ending>>

HeaderTooLong ==
  /\ ending = "" /\ stage \in {"header", "parse"} /\ Len(buf) > MaxHeader
  /\ Stop("HeaderTooLong")

\* The line, without the space at its end, is the header of message i.
IsHeader(i) ==
  /\ sent[i].type # Misfit
  /\ buf \in {HeaderBytes(i, sent[i]),
               Append(HeaderBytes(i, sent[i]), Newline(i))}

\* A line that was cut may end within a character.
NoHeader == {"HeaderNotUtf8", "HeaderInvalidJson"}

ParseHeader ==
  /\ Reading("parse") /\ Len(buf) <= MaxHeader
  /\ LET i == buf[1][1]
     IN  IF ~IsHeader(i) THEN \E how \in NoHeader : Stop(how)
         ELSE IF sent[i].inline = Misfit THEN Stop("NonObjectData")
         ELSE /\ NextStage("data") /\ at' = i
              /\ merged' = IF sent[i].inline = Nothing THEN EmptyObject
                                                     ELSE sent[i].inline
              /\ UNCHANGED <<writerVars, stream, got, ending>>

\* Mutant of Announced: the length of a payload counts the header's newline.
AnnouncedOneMore ==
  IF stage = "data" THEN DataLength(sent[at].data)
  ELSE IF sent[at].payload = Nothing THEN 0 ELSE sent[at].payload + 1

\* data_length or payload_length of the header; 0 is as good as none.
Announced == IF stage = "data" THEN DataLength(sent[at].data)
                               ELSE PayloadLength(sent[at].payload)

Limit == IF stage = "data" THEN MaxData ELSE MaxPayload

InSegment == ending = "" /\ stage \in {"data", "payload"}

TooLongAnnounced ==
  /\ InSegment /\ Announced > Limit
  /\ Stop(IF stage = "data" THEN "DataLengthExceeded"
                            ELSE "PayloadLengthExceeded")

\* read_exact, chunk by chunk.
ReadExact ==
  /\ InSegment /\ Announced <= Limit
  /\ \E chunk \in Available :
       /\ Len(buf) + Len(chunk) <= Announced
       /\ Take(chunk)
  /\ UNCHANGED <<writerVars, stage, at, merged, got, ending>>

\* UnexpectedEof
ReadExactFails ==
  /\ InSegment /\ Announced <= Limit /\ Len(buf) < Announced
  /\ stream = <<>> /\ closed
  /\ Stop(IoStage)

\* merged_data: what comes later wins.
Merge(inline, external) ==
  [f \in DOMAIN inline \cup DOMAIN external |->
     IF f \in DOMAIN external THEN external[f] ELSE inline[f]]

ParseData ==
  /\ Reading("data") /\ Announced <= Limit /\ Len(buf) = Announced
  /\ LET external == sent[at].data
     IN  IF external = Nothing
           THEN /\ NextStage("payload") /\ UNCHANGED merged
                /\ UNCHANGED <<writerVars, stream, at, got, ending>>
         ELSE IF buf # DataBytes(at, sent[at]) THEN Stop("InvalidEventData")
         ELSE IF ~IsObject(external) THEN Stop("NonObjectData")
         ELSE /\ NextStage("payload") /\ merged' = Merge(merged, external)
              /\ UNCHANGED <<writerVars, stream, at, got, ending>>

\* The payload is complete, and with it the event; the loop calls read_event
\* again.
MakeEvent ==
  /\ Reading("payload") /\ Announced <= Limit /\ Len(buf) = Announced
  /\ LET value == IF merged = EmptyObject THEN Null ELSE merged
         payload == IF Announced = 0 THEN Nothing ELSE buf
         type == sent[at].type
     IN  IF ~IsEvent(type, value) THEN Stop("InvalidEventData")
         ELSE /\ got' = Append(got, FromWire(type, value, payload))
              /\ NextStage("header") /\ at' = 0 /\ merged' = EmptyObject
              /\ UNCHANGED <<writerVars, stream, ending>>

\* The connection is reset, and what it held is lost.
ReadFails ==
  /\ ending = "" /\ stage # "parse" /\ closed
  /\ Stop(IoStage)

\* The future of read_event is dropped (a timeout, a task that ends); as it is
\* not safe to cancel, nothing is read after it.
CancelRead == ending = "" /\ Stop("cancelled")

-----------------------------------------------------------------------------
ReadEvent ==
  \/ ReadHeader \/ ReadHeaderEnds \/ HeaderTooLong \/ ParseHeader
  \/ TooLongAnnounced \/ ReadExact \/ ReadExactFails
  \/ ParseData \/ MakeEvent

Next ==
  \/ WriteEvent \/ ForeignWrites \/ WriteByte \/ CloseWriter
  \/ ReadEvent \/ ReadFails \/ CancelRead

\* Both tasks are polled; nothing obliges a peer to begin or to close.
Fairness == WF_vars(WriteByte) /\ WF_vars(ReadEvent)

Spec == Init /\ [][Next]_vars /\ Fairness

-----------------------------------------------------------------------------
(***************************************************************************)
(* Properties                                                              *)
(***************************************************************************)
\* The types, and the memory one connection can claim: what is buffered never
\* exceeds a limit by more than one chunk, whatever the peer announces
\* (doc comments of MAX_HEADER_LINE, MAX_DATA_LENGTH, MAX_PAYLOAD_LENGTH).
TypeOK ==
  /\ sent \in Seq(Messages) /\ Len(got) <= Len(sent)
  /\ Len(stream) <= PipeSize /\ closed \in BOOLEAN
  /\ stage \in {"header", "parse", "data", "payload"}
  /\ at \in 0..Len(sent) /\ (at = 0 <=> stage \in {"header", "parse"})
  /\ Len(buf) <= CASE stage = "data"    -> MaxData
                   [] stage = "payload" -> MaxPayload
                   [] OTHER             -> MaxHeader + ChunkSize

\* What an event is after a journey: a payload without bytes and data without
\* fields are as good as none, and a sensitivity that has a name gets it.
Normal(i, event) ==
  [type |-> event.type,
   data |-> IF \/ Unknown(event.type)
               \/ "vad_sensitivity" \notin DOMAIN event.data
              THEN NullAsObject(event.data)
              ELSE [event.data EXCEPT !["vad_sensitivity"] =
                      FromWireStr(AsWireStr(@))],
   payload |-> IF event.type = "audio-chunk"
                 THEN Segment(i, "payload", event.payload)
                 ELSE IF event.payload \in {Nothing, 0} THEN Nothing
                 ELSE Segment(i, "payload", event.payload)]

Meaning(i, m) ==
  IF m.event # Nothing THEN Normal(i, m.event)
  ELSE FromWire(m.type, Said(m),
                IF PayloadLength(m.payload) = 0 THEN Nothing
                                                ELSE PayloadBytes(i, m))

\* Whoever wrote it, it must be within the limits, which write_event does not
\* look at.
Sound(m) ==
  /\ m.header <= MaxHeader
  /\ DataLength(m.data) <= MaxData /\ PayloadLength(m.payload) <= MaxPayload
  /\ \/ m.event # Nothing
     \/ /\ m.type # Misfit
        /\ IsObject(m.inline) /\ IsObject(m.data)
        /\ IsEvent(m.type, Said(m))

\* With its newline.
Short(m) == m.header < MaxHeader

\* A byte of the next message has come: into the connection, or to read_event.
Begun == stage # "header" \/ buf # <<>> \/ stream # <<>>

Channel == INSTANCE WireChannel WITH broken <- closed, begun <- Begun

\* However the bytes are cut into reads, the connection is a channel of events:
\* each arrives once, in order and unaltered, data and audio included; the
\* reading ends without an error only between two events, when no byte of the
\* next one has come, so that a message cut off anywhere is never taken for the
\* orderly end; and an error means that the peer was at fault or gone
\* (documentation of read_event and write_event).
ImplementsChannel == Channel!Spec

\* The reader never waits for bytes that are not part of the message: one that
\* is written to its end is read to its end, or the reading is over.
WholeIsRead ==
  \A n \in 1..MaxMessages :
    (Len(sent) = n /\ left = <<>> /\ ~closed) ~> (Len(got) >= n \/ ending # "")
=============================================================================
