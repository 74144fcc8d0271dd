------------------------------ MODULE WireProofs ------------------------------
(***************************************************************************)
(* The framing of one connection never slips: what read_event has read,    *)
(* what is in the connection and what is still to be written are together  *)
(* the bytes of the messages from the place the reader waits for to the    *)
(* end of the last one.  From this follow the bounds of the buffers and    *)
(* that the connection is a channel of events (WireChannel), whoever       *)
(* writes and however the bytes are cut.                                   *)
(***************************************************************************)
EXTENDS Wire, SequenceTheorems, TLAPS

\* The bytes of a message, and the one at each place of it.
Length(m) == m.header + 1 + DataLength(m.data) + PayloadLength(m.payload)

Byte(i, m, p) ==
  IF p <= m.header THEN <<i, "header", p>>
  ELSE IF p = m.header + 1 THEN Newline(i)
  ELSE IF p <= m.header + 1 + DataLength(m.data)
    THEN <<i, "data", p - (m.header + 1)>>
  ELSE <<i, "payload", p - (m.header + 1 + DataLength(m.data))>>

\* Byte p of message i of a connection in which `said' was sent.
ByteOf(said, i, p) == Byte(i, said[i], p)

\* From k on, q is message i from its place p on: all that follows is the rest
\* of the message and then the next one.
Follows(q, said, k, i, p) ==
  /\ \A d \in 0..Len(q) - k :
       p + d <= Length(said[i]) => q[k + d] = ByteOf(said, i, p + d)
  /\ k < Len(q) /\ p = Length(said[i]) =>
       i < Len(said) /\ q[k + 1] = ByteOf(said, i + 1, 1)

\* The bytes of q are those of the messages, in their order and without a gap.
InOrder(q, said) ==
  \A k \in 1..Len(q) : \E i \in 1..Len(said) : \E p \in 1..Length(said[i]) :
    Follows(q, said, k, i, p)

\* Place p of message i; behind its end, the beginning of the next one.
Place(said, i, p) == IF p <= Length(said[i]) THEN <<i, p>> ELSE <<i + 1, 1>>

\* The bytes go on to the end of the last message.
ReachesTheEnd(q, from, said) ==
  IF q = <<>> THEN from = <<Len(said) + 1, 1>>
    ELSE q[Len(q)] = ByteOf(said, Len(said), Length(said[Len(said)]))

\* They end somewhere in the last message, or with the one before.
ReachesTheLast(q, from, said) ==
  IF q = <<>> THEN from[1] >= Len(said)
    ELSE \/ q[Len(q)][1] = Len(said)
         \/ /\ Len(said) > 1
            /\ q[Len(q)] = ByteOf(said, Len(said) - 1,
                                  Length(said[Len(said) - 1]))

\* The bytes q are those from one place of what was said up to its end, or to
\* where the writer left.
Framing(q, from, said, gone) ==
  /\ InOrder(q, said)
  /\ q # <<>> => q[1] = ByteOf(said, from[1], from[2])
  /\ IF gone THEN ReachesTheLast(q, from, said) ELSE ReachesTheEnd(q, from, said)

-----------------------------------------------------------------------------
\* All that is read of the segment, in the connection, and to be written.
Bytestream == buf \o stream \o left

\* What read_event waits for, or waited for before it read buf.
Awaited ==
  CASE stage = "data" -> Place(sent, at, sent[at].header + 2)
    [] stage = "payload" ->
         Place(sent, at, sent[at].header + 2 + DataLength(sent[at].data))
    [] OTHER -> <<Len(got) + 1, 1>>

\* The bytes go from what read_event waits for to the end of the last message;
\* when the writer is gone, they end somewhere in that message, or before it.
Framed ==
  /\ Framing(Bytestream, Awaited, sent, closed)
  /\ closed => left = <<>>
  /\ \A k \in 1..Len(left) : left[k][1] = Len(sent)

\* read_line_bounded has not gone past a newline, and stops after one, or at
\* the end of the stream.
LineInv ==
  /\ stage \in {"header", "parse"} /\ buf # <<>> =>
       Len(buf) <= sent[Len(got) + 1].header + 1
  /\ stage = "header" /\ buf # <<>> => Len(buf) <= sent[Len(got) + 1].header
  /\ stage = "parse" =>
       /\ buf # <<>>
       /\ \/ Len(buf) = sent[Len(got) + 1].header + 1
          \/ closed /\ stream = <<>>

\* Behind the header, the message is one that was parsed so far.
SegmentInv ==
  stage \in {"data", "payload"} =>
    LET m == sent[at]
    IN  /\ at = Len(got) + 1 /\ at <= Len(sent)
        /\ m.type # Misfit /\ m.inline # Misfit
        /\ m.header <= MaxHeader /\ (Short(m) \/ closed)
        /\ Len(buf) <= Announced
        /\ buf # <<>> => Announced <= Limit
        /\ stage = "data" =>
             merged = IF m.inline = Nothing THEN EmptyObject ELSE m.inline
        /\ stage = "payload" =>
             /\ DataLength(m.data) <= MaxData /\ m.data # Misfit
             /\ merged = Said(m)

\* What may arrive.
Meanings == {Meaning(i, m) : i \in Nat, m \in Messages}

\* The types, and what does not depend on the bytes.
Shapes ==
  /\ sent \in Seq(Messages)
  /\ buf \in Seq(ByteSet) /\ stream \in Seq(ByteSet) /\ left \in Seq(ByteSet)
  /\ got \in Seq(Meanings)
  /\ Len(got) <= Len(sent)
  /\ closed \in BOOLEAN
  /\ stage \in {"header", "parse", "data", "payload"}
  /\ at = IF stage \in {"header", "parse"} THEN 0 ELSE Len(got) + 1
  /\ stage \in {"header", "parse"} => merged = EmptyObject
  /\ Len(stream) <= PipeSize
  /\ stage \in {"header", "parse"} => Len(buf) <= MaxHeader + ChunkSize

\* The inductive invariant.
IInv == Shapes /\ Framed /\ LineInv /\ SegmentInv

-----------------------------------------------------------------------------
(***************************************************************************)
(* Bytes                                                                   *)
(***************************************************************************)
\* The lengths of a message's parts.
LEMMA MessageFacts ==
  ASSUME NEW m \in Messages
  PROVE  /\ m.header \in Nat /\ m.header >= 1
         /\ DataLength(m.data) \in Nat
         /\ m.data # Nothing => DataLength(m.data) >= 1
         /\ PayloadLength(m.payload) \in Nat
         /\ Length(m) \in Nat /\ Length(m) >= 2
         /\ Length(m) = m.header + 1 + DataLength(m.data)
                          + PayloadLength(m.payload)
<1>1. /\ m.header \in Nat \ {0}
      /\ m.payload = Nothing \/ m.payload \in Nat
      /\ m.data = Nothing \/ DataLength(m.data) \in Nat \ {0}
  BY MessagesAssumption
<1>2. m.data = Nothing => DataLength(m.data) = 0
  BY DEF DataLength
<1>3. PayloadLength(m.payload) \in Nat
  BY <1>1 DEF PayloadLength
<1> QED BY <1>1, <1>2, <1>3 DEF Length

\* A segment is a sequence of bytes.
LEMMA SegmentFacts ==
  ASSUME NEW i \in Nat, NEW part \in {"header", "newline", "data", "payload"},
         NEW size \in Nat
  PROVE  /\ Segment(i, part, size) \in Seq(ByteSet)
         /\ Len(Segment(i, part, size)) = size
         /\ \A k \in 1..size : Segment(i, part, size)[k] = <<i, part, k>>
BY DEF Segment, ByteSet

\* Two places of a message hold two bytes, and each byte names its message.
LEMMA ByteInjective ==
  ASSUME NEW m \in Messages, NEW i \in Nat,
         NEW p \in 1..Length(m), NEW r \in 1..Length(m),
         Byte(i, m, p) = Byte(i, m, r)
  PROVE  p = r
<1> DEFINE H == m.header
<1> DEFINE D == DataLength(m.data)
<1>1. H \in Nat /\ H >= 1 /\ D \in Nat /\ Length(m) \in Nat
  BY MessageFacts
<1> HIDE DEF H, D
<1>2. \A s \in 1..Length(m) :
        \/ s <= H /\ Byte(i, m, s) = <<i, "header", s>>
        \/ s = H + 1 /\ Byte(i, m, s) = <<i, "newline", 1>>
        \/ s > H + 1 /\ s <= H + 1 + D
           /\ Byte(i, m, s) = <<i, "data", s - (H + 1)>>
        \/ s > H + 1 + D /\ Byte(i, m, s) = <<i, "payload", s - (H + 1 + D)>>
  BY <1>1 DEF Byte, Newline, H, D
<1> QED BY <1>1, <1>2

\* Each byte names its message.
LEMMA ByteNames ==
  ASSUME NEW m, NEW i, NEW p
  PROVE  Byte(i, m, p)[1] = i
BY DEF Byte, Newline

\* Two sequences, one after the other.
LEMMA Concat ==
  ASSUME NEW S, NEW s \in Seq(S), NEW t \in Seq(S)
  PROVE  /\ s \o t \in Seq(S)
         /\ Len(s \o t) = Len(s) + Len(t)
         /\ \A k \in 1..Len(s) : (s \o t)[k] = s[k]
         /\ \A k \in 1..Len(t) : (s \o t)[Len(s) + k] = t[k]
<1>1. s \o t \in Seq(S) /\ Len(s \o t) = Len(s) + Len(t)
  OBVIOUS
<1>2. \A k \in 1..Len(s) : (s \o t)[k] = s[k]
  OBVIOUS
<1>3. \A k \in 1..Len(t) : (s \o t)[Len(s) + k] = t[k]
  OBVIOUS
<1> QED BY <1>1, <1>2, <1>3

\* Three sequences, one after the other.
LEMMA ConcatThree ==
  ASSUME NEW S, NEW hs \in Seq(S), NEW ds \in Seq(S), NEW ps \in Seq(S)
  PROVE  LET all == (hs \o ds) \o ps
         IN  /\ all \in Seq(S)
             /\ Len(all) = Len(hs) + Len(ds) + Len(ps)
             /\ \A k \in 1..Len(hs) : all[k] = hs[k]
             /\ \A k \in 1..Len(ds) : all[Len(hs) + k] = ds[k]
             /\ \A k \in 1..Len(ps) : all[Len(hs) + Len(ds) + k] = ps[k]
<1> DEFINE two == hs \o ds
<1> DEFINE all == two \o ps
<1>1. /\ two \in Seq(S)
      /\ Len(two) = Len(hs) + Len(ds)
      /\ \A k \in 1..Len(hs) : two[k] = hs[k]
      /\ \A k \in 1..Len(ds) : two[Len(hs) + k] = ds[k]
  BY Concat
<1>2. two \in Seq(S)
  BY <1>1
<1> HIDE DEF two
<1>3. /\ all \in Seq(S)
      /\ Len(all) = Len(two) + Len(ps)
      /\ \A k \in 1..Len(two) : all[k] = two[k]
      /\ \A k \in 1..Len(ps) : all[Len(two) + k] = ps[k]
  BY <1>2, Concat
<1> HIDE DEF all
<1>4. /\ Len(hs) \in Nat /\ Len(ds) \in Nat /\ Len(ps) \in Nat
      /\ Len(two) \in Nat
  BY <1>2
<1>5. \A k \in 1..Len(hs) : all[k] = hs[k]
  <2> TAKE k \in 1..Len(hs)
  <2>1. k \in 1..Len(two)
    BY <1>1, <1>4
  <2> QED BY <2>1, <1>1, <1>3
<1>6. \A k \in 1..Len(ds) : all[Len(hs) + k] = ds[k]
  <2> TAKE k \in 1..Len(ds)
  <2>1. Len(hs) + k \in 1..Len(two)
    BY <1>1, <1>4
  <2> QED BY <2>1, <1>1, <1>3
<1>7. \A k \in 1..Len(ps) : all[Len(hs) + Len(ds) + k] = ps[k]
  BY <1>1, <1>3, <1>4
<1>8. Len(all) = Len(hs) + Len(ds) + Len(ps)
  BY <1>1, <1>3, <1>4
<1> QED BY <1>3, <1>5, <1>6, <1>7, <1>8 DEF all, two

\* The parts of a message.
LEMMA PartsFacts ==
  ASSUME NEW i \in Nat, NEW m \in Messages
  PROVE  /\ HeaderBytes(i, m) \in Seq(ByteSet)
         /\ Len(HeaderBytes(i, m)) = m.header
         /\ \A k \in 1..m.header : HeaderBytes(i, m)[k] = <<i, "header", k>>
         /\ DataBytes(i, m) \in Seq(ByteSet)
         /\ Len(DataBytes(i, m)) = DataLength(m.data)
         /\ \A k \in 1..DataLength(m.data) : DataBytes(i, m)[k] = <<i, "data", k>>
         /\ PayloadBytes(i, m) \in Seq(ByteSet)
         /\ Len(PayloadBytes(i, m)) = PayloadLength(m.payload)
         /\ \A k \in 1..PayloadLength(m.payload) :
              PayloadBytes(i, m)[k] = <<i, "payload", k>>
         /\ Newline(i) \in ByteSet
<1>1. /\ m.header \in Nat /\ DataLength(m.data) \in Nat
      /\ PayloadLength(m.payload) \in Nat
  BY MessageFacts
<1>2. /\ HeaderBytes(i, m) \in Seq(ByteSet)
      /\ Len(HeaderBytes(i, m)) = m.header
      /\ \A k \in 1..m.header : HeaderBytes(i, m)[k] = <<i, "header", k>>
  BY <1>1, SegmentFacts DEF HeaderBytes
<1>3. /\ DataBytes(i, m) \in Seq(ByteSet)
      /\ Len(DataBytes(i, m)) = DataLength(m.data)
      /\ \A k \in 1..DataLength(m.data) : DataBytes(i, m)[k] = <<i, "data", k>>
  BY <1>1, SegmentFacts DEF DataBytes
<1>4. /\ PayloadBytes(i, m) \in Seq(ByteSet)
      /\ Len(PayloadBytes(i, m)) = PayloadLength(m.payload)
      /\ \A k \in 1..PayloadLength(m.payload) :
           PayloadBytes(i, m)[k] = <<i, "payload", k>>
  BY <1>1, SegmentFacts DEF PayloadBytes
<1>5. Newline(i) \in ByteSet
  BY DEF Newline, ByteSet
<1> QED BY <1>2, <1>3, <1>4, <1>5

\* The places of the parts.
LEMMA BytesOfParts ==
  ASSUME NEW i, NEW m \in Messages
  PROVE  LET H == m.header
             D == DataLength(m.data)
         IN  /\ \A k \in 1..H : Byte(i, m, k) = <<i, "header", k>>
             /\ Byte(i, m, H + 1) = Newline(i)
             /\ \A k \in 1..D : Byte(i, m, H + 2 + k - 1) = <<i, "data", k>>
             /\ \A k \in Nat \ {0} :
                  Byte(i, m, H + 2 + D + k - 1) = <<i, "payload", k>>
<1> DEFINE H == m.header
<1> DEFINE D == DataLength(m.data)
<1>1. H \in Nat /\ D \in Nat
  BY MessageFacts
<1>2. \A p : Byte(i, m, p) =
        IF p <= H THEN <<i, "header", p>>
        ELSE IF p = H + 1 THEN Newline(i)
        ELSE IF p <= H + 1 + D THEN <<i, "data", p - (H + 1)>>
        ELSE <<i, "payload", p - (H + 1 + D)>>
  BY DEF Byte
<1> HIDE DEF H, D
<1>3. \A k \in 1..H : Byte(i, m, k) = <<i, "header", k>>
  BY <1>1, <1>2
<1>4. Byte(i, m, H + 1) = Newline(i)
  BY <1>1, <1>2
<1>5. ASSUME NEW k \in 1..D
      PROVE  Byte(i, m, H + 2 + k - 1) = <<i, "data", k>>
  <2> DEFINE p == H + 2 + k - 1
  <2>1. ~(p <= H) /\ p # H + 1 /\ p <= H + 1 + D /\ p - (H + 1) = k
    BY <1>1
  <2> HIDE DEF p
  <2>2. Byte(i, m, p) = <<i, "data", k>>
    BY <2>1, <1>2
  <2> QED BY <2>2 DEF p
<1>6. ASSUME NEW k \in Nat \ {0}
      PROVE  Byte(i, m, H + 2 + D + k - 1) = <<i, "payload", k>>
  <2> DEFINE p == H + 2 + D + k - 1
  <2>1. /\ ~(p <= H) /\ p # H + 1 /\ ~(p <= H + 1 + D)
        /\ p - (H + 1 + D) = k
    BY <1>1
  <2> HIDE DEF p
  <2>2. Byte(i, m, p) = <<i, "payload", k>>
    BY <2>1, <1>2
  <2> QED BY <2>2 DEF p
<1> QED BY <1>3, <1>4, <1>5, <1>6 DEF H, D

\* Place by place, what Begin writes.
LEMMA BytesFacts ==
  ASSUME NEW i \in Nat, NEW m \in Messages
  PROVE  /\ Bytes(i, m) \in Seq(ByteSet)
         /\ Len(Bytes(i, m)) = Length(m)
         /\ \A p \in 1..Length(m) : Bytes(i, m)[p] = Byte(i, m, p)
<1> DEFINE H == m.header
<1> DEFINE D == DataLength(m.data)
<1> DEFINE P == PayloadLength(m.payload)
<1> DEFINE hs == HeaderBytes(i, m)
<1> DEFINE ns == <<Newline(i)>>
<1> DEFINE ds == DataBytes(i, m)
<1> DEFINE ps == PayloadBytes(i, m)
<1>1. H \in Nat /\ D \in Nat /\ P \in Nat /\ Length(m) = H + 1 + D + P
  BY MessageFacts
<1>2. /\ hs \in Seq(ByteSet) /\ Len(hs) = H
      /\ \A k \in 1..H : hs[k] = <<i, "header", k>>
  BY PartsFacts
<1>3. /\ ns \in Seq(ByteSet) /\ Len(ns) = 1 /\ ns[1] = Newline(i)
  BY DEF Newline, ByteSet
<1>4. /\ ds \in Seq(ByteSet) /\ Len(ds) = D
      /\ \A k \in 1..D : ds[k] = <<i, "data", k>>
  BY PartsFacts
<1>5. /\ ps \in Seq(ByteSet) /\ Len(ps) = P
      /\ \A k \in 1..P : ps[k] = <<i, "payload", k>>
  BY PartsFacts
<1>6. Bytes(i, m) = ((hs \o ns) \o ds) \o ps
  BY DEF Bytes
<1>7. \A p \in 1..Length(m) :
        Byte(i, m, p) = IF p <= H THEN <<i, "header", p>>
                        ELSE IF p = H + 1 THEN Newline(i)
                        ELSE IF p <= H + 1 + D THEN <<i, "data", p - (H + 1)>>
                        ELSE <<i, "payload", p - (H + 1 + D)>>
  BY DEF Byte
<1> HIDE DEF H, D, P, hs, ns, ds, ps
<1>10. /\ Bytes(i, m) \in Seq(ByteSet) /\ Len(Bytes(i, m)) = H + 1 + D + P
       /\ \A k \in 1..H : Bytes(i, m)[k] = hs[k]
       /\ Bytes(i, m)[H + 1] = ns[1]
       /\ \A k \in 1..D : Bytes(i, m)[H + 1 + k] = ds[k]
       /\ \A k \in 1..P : Bytes(i, m)[H + 1 + D + k] = ps[k]
  <2> DEFINE line == hs \o ns
  <2> DEFINE all == (line \o ds) \o ps
  <2>1. hs \in Seq(ByteSet) /\ ns \in Seq(ByteSet)
    BY <1>2, <1>3
  <2>2. line \in Seq(ByteSet) /\ Len(line) = Len(hs) + Len(ns)
    BY <2>1, Concat
  <2>3. \A k \in 1..Len(hs) : line[k] = hs[k]
    BY <2>1, Concat
  <2>4. \A k \in 1..Len(ns) : line[Len(hs) + k] = ns[k]
    BY <2>1, Concat
  <2>5. all = Bytes(i, m)
    BY <1>6
  <2> HIDE DEF line
  <2>6. line \in Seq(ByteSet) /\ ds \in Seq(ByteSet) /\ ps \in Seq(ByteSet)
    BY <1>4, <1>5, <2>2
  <2>7. all \in Seq(ByteSet) /\ Len(all) = Len(line) + Len(ds) + Len(ps)
    BY <2>6, ConcatThree
  <2>8. \A k \in 1..Len(line) : all[k] = line[k]
    BY <2>6, ConcatThree
  <2>9. \A k \in 1..Len(ds) : all[Len(line) + k] = ds[k]
    BY <2>6, ConcatThree
  <2>10. \A k \in 1..Len(ps) : all[Len(line) + Len(ds) + k] = ps[k]
    BY <2>6, ConcatThree
  <2> HIDE DEF all
  <2>11. /\ Len(hs) = H /\ Len(ns) = 1 /\ Len(ds) = D /\ Len(ps) = P
         /\ Len(line) = H + 1 /\ 1 \in 1..1
    BY <1>1, <1>2, <1>3, <1>4, <1>5, <2>2
  <2>12. \A k \in 1..H : all[k] = hs[k]
    <3> TAKE k \in 1..H
    <3>1. k \in 1..(H + 1)
      BY <1>1
    <3> QED BY <3>1, <2>3, <2>8, <2>11
  <2>13. all[H + 1] = ns[1]
    <3>1. H + 1 \in 1..(H + 1)
      BY <1>1
    <3> QED BY <3>1, <2>4, <2>8, <2>11
  <2>14. Len(all) = H + 1 + D + P
    BY <2>7, <2>11, <1>1
  <2> QED BY <2>5, <2>7, <2>9, <2>10, <2>11, <2>12, <2>13, <2>14
<1>11. ASSUME NEW p \in 1..Length(m)
       PROVE  Bytes(i, m)[p] = Byte(i, m, p)
  <2>1. CASE p <= H
    <3>1. p \in 1..H
      BY <2>1, <1>1
    <3> QED BY <3>1, <2>1, <1>2, <1>7, <1>10
  <2>2. CASE p = H + 1
    <3>1. ~(p <= H)
      BY <2>2, <1>1
    <3> QED BY <3>1, <2>2, <1>3, <1>7, <1>10
  <2>3. CASE p > H + 1 /\ p <= H + 1 + D
    <3> DEFINE k == p - (H + 1)
    <3>1. k \in 1..D /\ p = H + 1 + k /\ ~(p <= H) /\ p # H + 1
      BY <2>3, <1>1
    <3>2. Byte(i, m, p) = <<i, "data", k>>
      BY <3>1, <2>3, <1>7
    <3> HIDE DEF k
    <3> QED BY <3>1, <3>2, <1>4, <1>10
  <2>4. CASE p > H + 1 + D
    <3> DEFINE k == p - (H + 1 + D)
    <3>1. /\ k \in 1..P /\ p = H + 1 + D + k
          /\ ~(p <= H) /\ p # H + 1 /\ ~(p <= H + 1 + D)
      BY <2>4, <1>1
    <3>2. Byte(i, m, p) = <<i, "payload", k>>
      BY <3>1, <1>7
    <3> HIDE DEF k
    <3> QED BY <3>1, <3>2, <1>5, <1>10
  <2> QED BY <2>1, <2>2, <2>3, <2>4, <1>1
<1> QED BY <1>1, <1>10, <1>11

-----------------------------------------------------------------------------
(***************************************************************************)
(* Sequences of bytes that are framed                                      *)
(***************************************************************************)
\* A part of what is in order is in order.
LEMMA PartInOrder ==
  ASSUME NEW said \in Seq(Messages), NEW q \in Seq(ByteSet), InOrder(q, said),
         NEW a \in Nat, NEW b \in Nat, 1 <= a, b <= Len(q)
  PROVE  InOrder(SubSeq(q, a, b), said)
<1> DEFINE t == SubSeq(q, a, b)
<1>1. Len(q) \in Nat
  OBVIOUS
<1>2. /\ Len(t) = IF a <= b THEN b - a + 1 ELSE 0
      /\ \A k \in 1..Len(t) : t[k] = q[a + k - 1]
  OBVIOUS
<1> HIDE DEF t
<1> SUFFICES ASSUME NEW k \in 1..Len(t)
             PROVE  \E i \in 1..Len(said) : \E p \in 1..Length(said[i]) :
                      Follows(t, said, k, i, p)
  BY DEF InOrder, t
<1>3. a + k - 1 \in 1..Len(q)
  BY <1>1, <1>2
<1>4. PICK i \in 1..Len(said) : \E p \in 1..Length(said[i]) :
             Follows(q, said, a + k - 1, i, p)
  BY <1>3 DEF InOrder
<1>5. PICK p \in 1..Length(said[i]) : Follows(q, said, a + k - 1, i, p)
  BY <1>4
<1>6. said[i] \in Messages
  OBVIOUS
<1>7. Length(said[i]) \in Nat
  BY <1>6, MessageFacts
<1>8. ASSUME NEW d \in 0..Len(t) - k, p + d <= Length(said[i])
      PROVE  t[k + d] = ByteOf(said, i, p + d)
  <2>1. d \in 0..Len(q) - (a + k - 1) /\ k + d \in 1..Len(t)
        /\ a + (k + d) - 1 = (a + k - 1) + d
    BY <1>1, <1>2
  <2>2. q[(a + k - 1) + d] = ByteOf(said, i, p + d)
    BY <2>1, <1>5, <1>8 DEF Follows
  <2> QED BY <2>1, <2>2, <1>2
<1>9. ASSUME k < Len(t), p = Length(said[i])
      PROVE  i < Len(said) /\ t[k + 1] = ByteOf(said, i + 1, 1)
  <2>1. a + k - 1 < Len(q) /\ k + 1 \in 1..Len(t)
        /\ a + (k + 1) - 1 = (a + k - 1) + 1
    BY <1>1, <1>2, <1>9
  <2>2. i < Len(said) /\ q[(a + k - 1) + 1] = ByteOf(said, i + 1, 1)
    BY <2>1, <1>5, <1>9 DEF Follows
  <2> QED BY <2>1, <2>2, <1>2
<1> QED BY <1>8, <1>9 DEF Follows

\* A byte of which the place is known says what follows it.
LEMMA FollowsAt ==
  ASSUME NEW said \in Seq(Messages), NEW q \in Seq(ByteSet), InOrder(q, said),
         NEW k \in 1..Len(q), NEW i \in Nat, NEW p \in Nat, p >= 1,
         i \in 1..Len(said) => p <= Length(said[i]),
         q[k] = ByteOf(said, i, p)
  PROVE  i \in 1..Len(said) /\ Follows(q, said, k, i, p)
<1>1. PICK j \in 1..Len(said) : \E r \in 1..Length(said[j]) :
             Follows(q, said, k, j, r)
  BY DEF InOrder
<1>2. PICK r \in 1..Length(said[j]) : Follows(q, said, k, j, r)
  BY <1>1
<1>3. said[j] \in Messages /\ Length(said[j]) \in Nat
  BY MessageFacts
<1>4. q[k] = ByteOf(said, j, r)
  <2>1. 0 \in 0..Len(q) - k /\ r + 0 = r /\ k + 0 = k /\ r <= Length(said[j])
    BY <1>3
  <2> QED BY <1>2, <2>1 DEF Follows
<1>5. i = j
  <2>1. ByteOf(said, i, p)[1] = i /\ ByteOf(said, j, r)[1] = j
    BY ByteNames DEF ByteOf
  <2> QED BY <2>1, <1>4
<1>6. p \in 1..Length(said[i])
  BY <1>5, <1>3
<1>7. p = r
  BY <1>3, <1>4, <1>5, <1>6, ByteInjective DEF ByteOf
<1> QED BY <1>2, <1>5, <1>7

\* From the place where the bytes begin, they are the message there.
LEMMA FromThePlace ==
  ASSUME NEW said \in Seq(Messages), NEW q \in Seq(ByteSet), InOrder(q, said),
         q # <<>>, NEW i \in Nat, NEW p \in Nat, p >= 1,
         i \in 1..Len(said) => p <= Length(said[i]),
         q[1] = ByteOf(said, i, p)
  PROVE  /\ i \in 1..Len(said)
         /\ \A k \in 1..Len(q) :
              p + k - 1 <= Length(said[i]) => q[k] = ByteOf(said, i, p + k - 1)
<1>1. 1 \in 1..Len(q)
  OBVIOUS
<1>2. i \in 1..Len(said) /\ Follows(q, said, 1, i, p)
  BY <1>1, FollowsAt
<1>3. ASSUME NEW k \in 1..Len(q), p + k - 1 <= Length(said[i])
      PROVE  q[k] = ByteOf(said, i, p + k - 1)
  <2>1. k - 1 \in 0..Len(q) - 1 /\ 1 + (k - 1) = k /\ p + (k - 1) = p + k - 1
    OBVIOUS
  <2> QED BY <2>1, <1>2, <1>3 DEF Follows
<1> QED BY <1>2, <1>3

\* Behind a byte comes the byte of the next place.
LEMMA NextByte ==
  ASSUME NEW said \in Seq(Messages), NEW q \in Seq(ByteSet), InOrder(q, said),
         NEW n \in 1..Len(q), n + 1 <= Len(q), NEW i \in 1..Len(said),
         NEW p \in 1..Length(said[i]), q[n] = ByteOf(said, i, p)
  PROVE  LET next == Place(said, i, p + 1)
         IN  next[1] <= Len(said) /\ q[n + 1] = ByteOf(said, next[1], next[2])
<1>1. said[i] \in Messages /\ Length(said[i]) \in Nat
  BY MessageFacts
<1>2. Follows(q, said, n, i, p)
  BY <1>1, FollowsAt
<1>3. CASE p + 1 <= Length(said[i])
  <2>1. 1 \in 0..Len(q) - n
    OBVIOUS
  <2>2. q[n + 1] = ByteOf(said, i, p + 1)
    BY <2>1, <1>2, <1>3 DEF Follows
  <2>3. Place(said, i, p + 1) = <<i, p + 1>>
    BY <1>3 DEF Place
  <2> QED BY <2>2, <2>3
<1>4. CASE ~(p + 1 <= Length(said[i]))
  <2>1. p = Length(said[i]) /\ n < Len(q)
    BY <1>1, <1>4
  <2>2. i < Len(said) /\ q[n + 1] = ByteOf(said, i + 1, 1)
    BY <2>1, <1>2 DEF Follows
  <2>3. Place(said, i, p + 1) = <<i + 1, 1>>
    BY <1>4 DEF Place
  <2> QED BY <2>2, <2>3
<1> QED BY <1>3, <1>4

\* Behind the last byte comes the end.
LEMMA BehindTheLast ==
  ASSUME NEW said \in Seq(Messages), NEW q \in Seq(ByteSet), q # <<>>,
         NEW from, NEW gone \in BOOLEAN, Framing(q, from, said, gone),
         NEW i \in 1..Len(said), NEW p \in 1..Length(said[i]),
         q[Len(q)] = ByteOf(said, i, p)
  PROVE  LET next == Place(said, i, p + 1)
         IN  IF gone THEN next[1] >= Len(said) ELSE next = <<Len(said) + 1, 1>>
<1> DEFINE N == Len(said)
<1>1. said[i] \in Messages /\ Length(said[i]) \in Nat
  BY MessageFacts, SMTT(30)
<1>2. q[Len(q)][1] = i
  BY ByteNames DEF ByteOf
<1>3. CASE gone
  <2>1. CASE i = N
    BY <2>1, <1>1, <1>3 DEF Place
  <2>2. CASE i # N
    <3>1. N > 1 /\ q[Len(q)] = ByteOf(said, N - 1, Length(said[N - 1]))
      BY <2>2, <1>2, <1>3 DEF Framing, ReachesTheLast
    <3>2. i = N - 1
      <4>1. ByteOf(said, N - 1, Length(said[N - 1]))[1] = N - 1
        BY ByteNames DEF ByteOf
      <4> QED BY <4>1, <3>1, <1>2
    <3>3. Byte(i, said[i], p) = Byte(i, said[i], Length(said[i]))
      BY <3>1, <3>2 DEF ByteOf
    <3>4. Length(said[i]) \in 1..Length(said[i])
      BY <1>1
    <3>5. p = Length(said[i])
      BY <3>3, <3>4, <1>1, ByteInjective
    <3>6. Place(said, i, p + 1) = <<i + 1, 1>>
      BY <3>5, <1>1 DEF Place
    <3> QED BY <3>2, <3>6, <1>3
  <2> QED BY <2>1, <2>2
<1>4. CASE ~gone
  <2>1. q[Len(q)] = ByteOf(said, N, Length(said[N]))
    BY <1>4 DEF Framing, ReachesTheEnd
  <2>2. i = N
    <3>1. ByteOf(said, N, Length(said[N]))[1] = N
      BY ByteNames DEF ByteOf
    <3> QED BY <3>1, <2>1, <1>2
  <2>3. Byte(i, said[i], p) = Byte(i, said[i], Length(said[i]))
    BY <2>1, <2>2 DEF ByteOf
  <2>4. Length(said[i]) \in 1..Length(said[i])
    BY <1>1
  <2>5. p = Length(said[i])
    BY <2>3, <2>4, <1>1, ByteInjective
  <2>6. Place(said, i, p + 1) = <<i + 1, 1>>
    BY <2>5, <1>1 DEF Place
  <2> QED BY <2>2, <2>6, <1>4
<1> QED BY <1>3, <1>4

\* What is read is let go: the rest is framed from the place behind it.
LEMMA StepOver ==
  ASSUME NEW said \in Seq(Messages), NEW q \in Seq(ByteSet), NEW from,
         NEW gone \in BOOLEAN, Framing(q, from, said, gone),
         NEW n \in 1..Len(q), NEW i \in 1..Len(said),
         NEW p \in 1..Length(said[i]), q[n] = ByteOf(said, i, p)
  PROVE  Framing(SubSeq(q, n + 1, Len(q)), Place(said, i, p + 1), said, gone)
<1> DEFINE t == SubSeq(q, n + 1, Len(q))
<1> DEFINE next == Place(said, i, p + 1)
<1>1. InOrder(q, said) /\ q # <<>>
  BY DEF Framing
<1>2. InOrder(t, said)
  <2>1. n + 1 \in Nat /\ Len(q) \in Nat /\ 1 <= n + 1 /\ Len(q) <= Len(q)
    OBVIOUS
  <2> QED BY <2>1, <1>1, PartInOrder
<1>3. CASE n = Len(q)
  <2>1. t = <<>>
    BY <1>3
  <2>2. IF gone THEN next[1] >= Len(said) ELSE next = <<Len(said) + 1, 1>>
    BY <1>1, <1>3, BehindTheLast
  <2> HIDE DEF t, next
  <2>3. Framing(t, next, said, gone)
    BY <2>1, <2>2, <1>2 DEF Framing, ReachesTheLast, ReachesTheEnd
  <2> QED BY <2>3 DEF t, next
<1>4. CASE n < Len(q)
  <2>1. /\ t \in Seq(ByteSet) /\ t # <<>> /\ Len(t) = Len(q) - n
        /\ t[1] = q[n + 1] /\ t[Len(t)] = q[Len(q)]
    <3>1. t \in Seq(ByteSet)
      OBVIOUS
    <3>2. Len(t) = Len(q) - n
      BY <1>4
    <3>3. \A k \in 1..Len(q) - n : t[k] = q[n + k]
      BY <1>4
    <3> HIDE DEF t
    <3>4. Len(q) - n \in 1..Len(q) - n /\ 1 \in 1..Len(q) - n
          /\ n + (Len(q) - n) = Len(q)
      BY <1>4
    <3>5. t # <<>>
      BY <3>2, <1>4
    <3>6. t[1] = q[n + 1] /\ t[Len(t)] = q[Len(q)]
      BY <3>2, <3>3, <3>4
    <3> QED BY <3>1, <3>2, <3>5, <3>6
  <2>2. q[n + 1] = ByteOf(said, next[1], next[2])
    <3>1. n + 1 <= Len(q)
      BY <1>4
    <3> QED BY <3>1, <1>1, NextByte
  <2> HIDE DEF t, next
  <2>3. IF gone THEN ReachesTheLast(t, next, said)
                ELSE ReachesTheEnd(t, next, said)
    BY <2>1, <1>1 DEF Framing, ReachesTheLast, ReachesTheEnd
  <2>4. Framing(t, next, said, gone)
    BY <2>1, <2>2, <2>3, <1>2 DEF Framing
  <2> QED BY <2>4 DEF t, next
<1> QED BY <1>3, <1>4

\* The writer leaves: what it had not written was of the last message.
LEMMA CutOff ==
  ASSUME NEW said \in Seq(Messages), NEW q \in Seq(ByteSet), NEW l \in Seq(ByteSet),
         NEW from, Framing(q \o l, from, said, FALSE), said # <<>> \/ l = <<>>,
         from[1] \in Nat,
         \A k \in 1..Len(l) : l[k][1] = Len(said)
  PROVE  Framing(q, from, said, TRUE)
<1> DEFINE all == q \o l
<1>1. all \in Seq(ByteSet) /\ Len(all) = Len(q) + Len(l)
  BY Concat
<1>2. \A k \in 1..Len(q) : all[k] = q[k]
  BY Concat
<1>3. \A k \in 1..Len(l) : all[Len(q) + k] = l[k]
  BY Concat
<1>4. q = SubSeq(all, 1, Len(q))
  BY <1>1, <1>2
<1>5. l = <<>> => all = q
  OBVIOUS
<1>6. InOrder(all, said)
      /\ (all # <<>> => all[1] = ByteOf(said, from[1], from[2]))
      /\ ReachesTheEnd(all, from, said)
  BY DEF Framing
<1> HIDE DEF all
<1>7. Len(q) \in Nat /\ Len(l) \in Nat /\ Len(said) \in Nat
  OBVIOUS
<1>8. InOrder(q, said)
  <2>1. 1 \in Nat /\ Len(q) \in Nat /\ 1 <= 1 /\ Len(q) <= Len(all)
    BY <1>1, <1>7
  <2> QED BY <2>1, <1>1, <1>4, <1>6, PartInOrder
<1>9. q # <<>> => q[1] = ByteOf(said, from[1], from[2])
  <2>1. q # <<>> => 1 \in 1..Len(q) /\ all # <<>>
    BY <1>1
  <2> QED BY <2>1, <1>2, <1>6
<1>10. CASE l = <<>>
  <2>1. CASE q = <<>>
    BY <2>1, <1>5, <1>6, <1>7, <1>8, <1>10
       DEF Framing, ReachesTheEnd, ReachesTheLast
  <2>2. CASE q # <<>>
    <3>1. q[Len(q)] = ByteOf(said, Len(said), Length(said[Len(said)]))
      BY <2>2, <1>5, <1>6, <1>10 DEF ReachesTheEnd
    <3>2. q[Len(q)][1] = Len(said)
      BY <3>1, ByteNames DEF ByteOf
    <3> QED BY <2>2, <3>2, <1>8, <1>9 DEF Framing, ReachesTheLast
  <2> QED BY <2>1, <2>2
<1>11. CASE l # <<>>
  <2>1. 1 \in 1..Len(l) /\ all # <<>> /\ Len(q) + 1 \in 1..Len(all)
    BY <1>1, <1>7, <1>11
  <2>2. all[Len(q) + 1][1] = Len(said)
    BY <2>1, <1>3
  <2>3. CASE q = <<>>
    <3>1. all[1] = ByteOf(said, from[1], from[2]) /\ Len(q) + 1 = 1
      BY <2>1, <2>3, <1>6
    <3>2. from[1] = Len(said)
      BY <3>1, <2>2, ByteNames DEF ByteOf
    <3> QED BY <2>3, <3>2, <1>7, <1>8 DEF Framing, ReachesTheLast
  <2>4. CASE q # <<>>
    <3>1. Len(q) \in 1..Len(all) /\ Len(q) + 1 <= Len(all)
          /\ Len(q) \in 1..Len(q)
      BY <2>1, <2>4, <1>1, <1>7
    <3>2. PICK i \in 1..Len(said) : \E p \in 1..Length(said[i]) :
                Follows(all, said, Len(q), i, p)
      BY <3>1, <1>6 DEF InOrder
    <3>3. PICK p \in 1..Length(said[i]) : Follows(all, said, Len(q), i, p)
      BY <3>2
    <3>4. said[i] \in Messages /\ Length(said[i]) \in Nat
      BY MessageFacts, SMTT(30)
    <3>5. q[Len(q)] = ByteOf(said, i, p)
      <4>1. 0 \in 0..Len(all) - Len(q) /\ p + 0 = p /\ Len(q) + 0 = Len(q)
            /\ p <= Length(said[i])
        BY <3>1, <3>4, <1>1, <1>7
      <4>2. all[Len(q)] = ByteOf(said, i, p)
        BY <4>1, <3>3 DEF Follows
      <4> QED BY <4>2, <3>1, <1>2
    <3>6. all[Len(q)] = ByteOf(said, i, p)
      BY <3>1, <3>5, <1>2
    <3> DEFINE next == Place(said, i, p + 1)
    <3>7. all[Len(q) + 1] = ByteOf(said, next[1], next[2])
      BY <3>1, <3>6, <1>1, <1>6, NextByte
    <3>8. next[1] = Len(said)
      BY <3>7, <2>2, ByteNames DEF ByteOf
    <3>9. CASE p + 1 <= Length(said[i])
      <4>1. i = Len(said)
        BY <3>8, <3>9 DEF Place
      <4>2. q[Len(q)][1] = Len(said)
        BY <4>1, <3>5, ByteNames DEF ByteOf
      <4> QED BY <4>2, <2>4, <1>8, <1>9 DEF Framing, ReachesTheLast
    <3>10. CASE ~(p + 1 <= Length(said[i]))
      <4>1. i + 1 = Len(said) /\ p = Length(said[i])
        BY <3>4, <3>8, <3>10 DEF Place
      <4>2. i = Len(said) - 1 /\ Len(said) > 1
        BY <4>1, <1>7
      <4> QED BY <4>1, <4>2, <3>5, <2>4, <1>8, <1>9 DEF Framing, ReachesTheLast
    <3> QED BY <3>9, <3>10
  <2> QED BY <2>3, <2>4
<1> QED BY <1>10, <1>11

\* A message is begun: the bytes go on to its end.
LEMMA GoesOn ==
  ASSUME NEW said \in Seq(Messages), NEW q \in Seq(ByteSet), NEW from,
         Framing(q, from, said, FALSE), NEW m \in Messages
  PROVE  Framing(q \o Bytes(Len(said) + 1, m), from, Append(said, m), FALSE)
<1> DEFINE N == Len(said)
<1> DEFINE more == Append(said, m)
<1> DEFINE bs == Bytes(N + 1, m)
<1> DEFINE all == q \o bs
<1>1. N \in Nat /\ N + 1 \in Nat /\ Len(q) \in Nat
  OBVIOUS
<1>2. /\ bs \in Seq(ByteSet) /\ Len(bs) = Length(m)
      /\ \A p \in 1..Length(m) : bs[p] = Byte(N + 1, m, p)
  BY <1>1, BytesFacts
<1>3. Length(m) \in Nat /\ Length(m) >= 2
  BY MessageFacts
<1>4. more \in Seq(Messages) /\ Len(more) = N + 1
  OBVIOUS
<1>5. /\ \A i \in 1..N : more[i] = said[i]
      /\ more[N + 1] = m
  OBVIOUS
<1>6. \A i \in 1..N, p \in Nat : ByteOf(more, i, p) = ByteOf(said, i, p)
  BY <1>5 DEF ByteOf
<1>7. \A p \in Nat : ByteOf(more, N + 1, p) = Byte(N + 1, m, p)
  BY <1>5 DEF ByteOf
<1>8. bs \in Seq(ByteSet)
  BY <1>2
<1> HIDE DEF bs
<1>9. all \in Seq(ByteSet) /\ Len(all) = Len(q) + Len(bs)
  BY <1>8, Concat
<1>10. \A k \in 1..Len(q) : all[k] = q[k]
  BY <1>8, Concat
<1>11. \A k \in 1..Len(bs) : all[Len(q) + k] = bs[k]
  BY <1>8, Concat
<1>12. Len(all) = Len(q) + Length(m)
  BY <1>2, <1>9
<1>13. \A k \in 1..Length(m) : all[Len(q) + k] = ByteOf(more, N + 1, k)
  <2> TAKE k \in 1..Length(m)
  <2>1. bs[k] = Byte(N + 1, m, k) /\ all[Len(q) + k] = bs[k]
    BY <1>2, <1>11
  <2> QED BY <2>1, <1>3, <1>7
<1> HIDE DEF all, more
<1>14. /\ InOrder(q, said)
       /\ q # <<>> => q[1] = ByteOf(said, from[1], from[2])
       /\ ReachesTheEnd(q, from, said)
  BY DEF Framing
<1>15. ASSUME NEW k \in 1..Len(q)
       PROVE  \E i \in 1..Len(more) : \E p \in 1..Length(more[i]) :
                Follows(all, more, k, i, p)
  <2>1. PICK i \in 1..N : \E p \in 1..Length(said[i]) : Follows(q, said, k, i, p)
    BY <1>14 DEF InOrder
  <2>2. PICK p \in 1..Length(said[i]) : Follows(q, said, k, i, p)
    BY <2>1
  <2>3. said[i] \in Messages /\ Length(said[i]) \in Nat
    BY MessageFacts
  <2>4. \A d \in 0..Len(q) - k :
          p + d <= Length(said[i]) => q[k + d] = ByteOf(said, i, p + d)
    BY <2>2 DEF Follows
  <2>5. q # <<>> /\ Len(q) \in 1..Len(q)
    BY <1>1
  <2>6. q[Len(q)] = ByteOf(said, N, Length(said[N]))
    BY <2>5, <1>14 DEF ReachesTheEnd
  <2>7. p + (Len(q) - k) <= Length(said[i])
          => i = N /\ p + (Len(q) - k) = Length(said[N])
    <3> SUFFICES ASSUME p + (Len(q) - k) <= Length(said[i])
                 PROVE  i = N /\ p + (Len(q) - k) = Length(said[N])
      OBVIOUS
    <3>1. Len(q) - k \in 0..Len(q) - k /\ k + (Len(q) - k) = Len(q)
      BY <1>1
    <3>2. q[Len(q)] = ByteOf(said, i, p + (Len(q) - k))
      BY <3>1, <2>4
    <3>3. i = N
      BY <3>2, <2>6, ByteNames DEF ByteOf
    <3>4. p + (Len(q) - k) \in 1..Length(said[i])
          /\ Length(said[i]) \in 1..Length(said[i])
      BY <2>3, <1>1
    <3>5. Byte(i, said[i], p + (Len(q) - k)) = Byte(i, said[i], Length(said[i]))
      BY <3>2, <3>3, <2>6 DEF ByteOf
    <3>6. p + (Len(q) - k) = Length(said[i])
      BY <3>4, <3>5, <2>3, ByteInjective
    <3> QED BY <3>3, <3>6
  <2>8. more[i] = said[i] /\ i \in 1..Len(more) /\ i < Len(more)
    BY <1>1, <1>4, <1>5
  <2>9. ASSUME NEW d \in 0..Len(all) - k, p + d <= Length(more[i])
        PROVE  all[k + d] = ByteOf(more, i, p + d)
    <3>1. k + d <= Len(q)
      <4> SUFFICES ASSUME ~(k + d <= Len(q)) PROVE FALSE
        OBVIOUS
      <4>1. p + (Len(q) - k) < p + d
        BY <1>1
      <4>2. p + (Len(q) - k) < Length(said[i])
        BY <4>1, <2>3, <2>8, <2>9, <1>1
      <4>3. i = N /\ p + (Len(q) - k) = Length(said[N])
        BY <4>2, <2>3, <2>7, <1>1
      <4> QED BY <4>2, <4>3
    <3>2. d \in 0..Len(q) - k /\ k + d \in 1..Len(q)
      BY <3>1, <1>1
    <3>3. all[k + d] = ByteOf(said, i, p + d)
      BY <3>2, <2>4, <2>8, <2>9, <1>10
    <3>4. p + d \in Nat
      BY <3>2
    <3> QED BY <3>3, <3>4, <1>6
  <2>10. ASSUME k < Len(all), p = Length(more[i])
         PROVE  i < Len(more) /\ all[k + 1] = ByteOf(more, i + 1, 1)
    <3>1. CASE k < Len(q)
      <4>1. i < N /\ q[k + 1] = ByteOf(said, i + 1, 1)
        BY <3>1, <2>2, <2>8, <2>10 DEF Follows
      <4>2. i + 1 \in 1..N /\ k + 1 \in 1..Len(q) /\ 1 \in Nat
        BY <4>1, <3>1, <1>1
      <4> QED BY <4>1, <4>2, <2>8, <1>6, <1>10
    <3>2. CASE k = Len(q)
      <4>1. i = N
        BY <3>2, <2>3, <2>7, <2>8, <2>10, <1>1
      <4>2. 1 \in 1..Length(m)
        BY <1>3
      <4> QED BY <4>1, <4>2, <3>2, <2>8, <1>13
    <3> QED BY <3>1, <3>2, <1>1
  <2> QED BY <2>8, <2>9, <2>10 DEF Follows
<1>16. ASSUME NEW r \in 1..Length(m)
       PROVE  \E i \in 1..Len(more) : \E p \in 1..Length(more[i]) :
                Follows(all, more, Len(q) + r, i, p)
  <2>1. N + 1 \in 1..Len(more) /\ r \in 1..Length(more[N + 1])
    BY <1>1, <1>4, <1>5
  <2>2. ASSUME NEW d \in 0..Len(all) - (Len(q) + r)
        PROVE  all[(Len(q) + r) + d] = ByteOf(more, N + 1, r + d)
    <3>1. r + d \in 1..Length(m) /\ (Len(q) + r) + d = Len(q) + (r + d)
      BY <1>1, <1>3, <1>12
    <3> QED BY <3>1, <1>13
  <2>3. ~(Len(q) + r < Len(all) /\ r = Length(more[N + 1]))
    BY <1>1, <1>3, <1>5, <1>12
  <2>4. Follows(all, more, Len(q) + r, N + 1, r)
    BY <2>2, <2>3 DEF Follows
  <2> QED BY <2>1, <2>4
<1>17. InOrder(all, more)
  <2> SUFFICES ASSUME NEW k \in 1..Len(all)
               PROVE  \E i \in 1..Len(more) : \E p \in 1..Length(more[i]) :
                        Follows(all, more, k, i, p)
    BY DEF InOrder
  <2>1. CASE k <= Len(q)
    <3>1. k \in 1..Len(q)
      BY <2>1, <1>1
    <3> QED BY <3>1, <1>15
  <2>2. CASE ~(k <= Len(q))
    <3>1. k - Len(q) \in 1..Length(m) /\ Len(q) + (k - Len(q)) = k
      BY <2>2, <1>1, <1>3, <1>12
    <3> QED BY <3>1, <1>16
  <2> QED BY <2>1, <2>2
<1>18. all[1] = ByteOf(more, from[1], from[2])
  <2>1. CASE q = <<>>
    <3>1. from = <<N + 1, 1>>
      BY <2>1, <1>14 DEF ReachesTheEnd
    <3>2. all[Len(q) + 1] = ByteOf(more, N + 1, 1) /\ Len(q) + 1 = 1
      BY <2>1, <1>3, <1>13
    <3> QED BY <3>1, <3>2
  <2>2. CASE q # <<>>
    <3>1. 1 \in 1..Len(q)
      BY <2>2
    <3>2. PICK i \in 1..N : \E p \in 1..Length(said[i]) : Follows(q, said, 1, i, p)
      BY <3>1, <1>14 DEF InOrder
    <3>3. PICK p \in 1..Length(said[i]) : Follows(q, said, 1, i, p)
      BY <3>2
    <3>4. said[i] \in Messages /\ Length(said[i]) \in Nat
      BY MessageFacts
    <3>5. q[1] = ByteOf(said, i, p)
      <4>1. 0 \in 0..Len(q) - 1 /\ p + 0 = p /\ 1 + 0 = 1
            /\ p <= Length(said[i])
        BY <3>1, <3>4
      <4> QED BY <4>1, <3>3 DEF Follows
    <3>6. q[1] = ByteOf(said, from[1], from[2])
      BY <2>2, <1>14
    <3>7. from[1] = i
      <4>1. ByteOf(said, i, p)[1] = i
            /\ ByteOf(said, from[1], from[2])[1] = from[1]
        BY ByteNames DEF ByteOf
      <4> QED BY <4>1, <3>5, <3>6
    <3>8. ByteOf(more, from[1], from[2]) = ByteOf(said, from[1], from[2])
      BY <3>7, <1>5 DEF ByteOf
    <3> QED BY <3>1, <3>6, <3>8, <1>10
  <2> QED BY <2>1, <2>2
<1>19. ReachesTheEnd(all, from, more)
  <2>1. Length(m) \in 1..Length(m) /\ all # <<>>
    BY <1>1, <1>3, <1>9, <1>12
  <2>2. all[Len(all)] = ByteOf(more, N + 1, Length(m))
    BY <2>1, <1>12, <1>13
  <2> QED BY <2>1, <2>2, <1>4, <1>5 DEF ReachesTheEnd
<1>20. Framing(all, from, more, FALSE)
  BY <1>17, <1>18, <1>19 DEF Framing
<1> QED BY <1>20 DEF all, more, bs

-----------------------------------------------------------------------------
(***************************************************************************)
(* Events and their JSON                                                   *)
(***************************************************************************)
\* There is one function without arguments.
LEMMA NoArguments ==
  ASSUME NEW o, o = [f \in DOMAIN o |-> o[f]], DOMAIN o = {}
  PROVE  o = EmptyObject
<1>1. DOMAIN EmptyObject = {}
  BY DEF EmptyObject
<1>2. EmptyObject = [f \in DOMAIN EmptyObject |-> EmptyObject[f]]
  BY DEF EmptyObject
<1> QED BY <1>1, <1>2

\* Only the data that is not null counts.
LEMMA ValueIsSaid ==
  ASSUME NEW m \in Messages, Misfit \notin {m.inline, m.data}, NEW payload,
         NEW value, value = IF Said(m) = EmptyObject THEN Null ELSE Said(m)
  PROVE  /\ IsEvent(m.type, value) <=> IsEvent(m.type, Said(m))
         /\ FromWire(m.type, value, payload) = FromWire(m.type, Said(m), payload)
<1>1. Said(m) # Null
  BY MessagesAssumption DEF IsJsonObject
<1>2. NullAsObject(value) = Said(m) /\ NullAsObject(Said(m)) = Said(m)
  BY <1>1 DEF NullAsObject
<1>3. IsEvent(m.type, value) <=> IsEvent(m.type, Said(m))
  BY <1>2 DEF IsEvent
<1>4. FromWire(m.type, value, payload) = FromWire(m.type, Said(m), payload)
  BY <1>2 DEF FromWire
<1> QED BY <1>3, <1>4

\* A message without inline data says what its segment says.
LEMMA SegmentSays ==
  ASSUME NEW m, m.inline = Nothing, m.data # Nothing => IsJsonObject(m.data)
  PROVE  Said(m) = IF m.data = Nothing THEN EmptyObject ELSE m.data
<1> DEFINE external == IF m.data = Nothing THEN EmptyObject ELSE m.data
<1>1. DOMAIN EmptyObject = {} /\ EmptyObject = [f \in {} |-> EmptyObject[f]]
  BY DEF EmptyObject
<1>2. Said(m) = [f \in {} \cup DOMAIN external |->
                   IF f \in DOMAIN external THEN external[f] ELSE EmptyObject[f]]
  BY <1>1 DEF Said
<1>3. external = [f \in DOMAIN external |-> external[f]]
  BY <1>1 DEF IsJsonObject
<1> HIDE DEF external
<1>4. Said(m) = external
  BY <1>2, <1>3
<1> QED BY <1>4 DEF external

\* The schema of a type whose data is not looked at.
LEMMA BareSchema ==
  ASSUME NEW type \in Bare
  PROVE  /\ SchemaOf(type).required = {} /\ SchemaOf(type).optional = {}
         /\ SchemaOf(type).lists = {}
         /\ ~Unknown(type) /\ type # "audio-chunk"
BY DEF Bare, SchemaOf, NoFields, Unknown

\* What an event says is its struct in JSON.
LEMMA OwnSaid ==
  ASSUME NEW e \in Events
  PROVE  LET m == MessageOf(e)
         IN  /\ m \in Messages /\ Misfit \notin {m.inline, m.data}
             /\ m.type = e.type /\ m.event = e /\ m.payload = Payload(e)
             /\ e # Nothing /\ e.type # Misfit
             /\ Unknown(e.type) => Said(m) = NullAsObject(e.data)
             /\ ~Unknown(e.type) => Said(m) = ToJson(e.data)
<1> DEFINE m == MessageOf(e)
<1>1. /\ m \in Messages /\ m.type = e.type /\ m.event = e
      /\ m.payload = Payload(e) /\ m.inline = Nothing
      /\ m.data = SerializeData(e)
  BY DEF Messages, MessageOf
<1>2. e # Nothing /\ e.type # Misfit /\ WellFormed(e)
  BY EventsAssumption
<1>3. Misfit # Nothing
  BY WireAssumption
<1>9. SerializeData(e) # Misfit
  <2>1. CASE SerializeData(e) = Nothing
    BY <2>1, <1>3
  <2>2. CASE Unknown(e.type) /\ SerializeData(e) # Nothing
    BY <2>2, <1>2 DEF SerializeData, WellFormed, IsJsonObject
  <2>3. CASE ~Unknown(e.type) /\ SerializeData(e) # Nothing
    BY <2>3, <1>2 DEF SerializeData, WellFormed, IsJsonObject
  <2> QED BY <2>1, <2>2, <2>3
<1> HIDE DEF m
<1>4. Misfit \notin {m.inline, m.data}
  BY <1>1, <1>3, <1>9
<1>5. m.data # Nothing => IsJsonObject(m.data)
  BY <1>1, <1>4, MessagesAssumption
<1>6. Said(m) = IF m.data = Nothing THEN EmptyObject ELSE m.data
  BY <1>1, <1>5, SegmentSays
<1>7. ASSUME Unknown(e.type)
      PROVE  Said(m) = NullAsObject(e.data)
  <2>1. e.type \notin Bare
    BY <1>7 DEF Unknown
  <2>2. e.data = Null \/ IsJsonObject(e.data)
    BY <1>2, <1>7 DEF WellFormed
  <2>3. CASE e.data \in {Null, EmptyObject}
    <3>1. m.data = Nothing
      BY <2>3, <1>1 DEF SerializeData
    <3> QED BY <3>1, <2>3, <1>6 DEF NullAsObject
  <2>4. CASE e.data \notin {Null, EmptyObject}
    <3>1. m.data = e.data /\ e.data # Nothing
      BY <2>1, <2>2, <2>4, <1>1, <1>7 DEF SerializeData, IsJsonObject
    <3> QED BY <3>1, <2>4, <1>6 DEF NullAsObject
  <2> QED BY <2>3, <2>4
<1>8. ASSUME ~Unknown(e.type)
      PROVE  Said(m) = ToJson(e.data)
  <2>1. /\ IsJsonObject(e.data)
        /\ DOMAIN e.data \subseteq SchemaOf(e.type).required
             \cup SchemaOf(e.type).optional \cup SchemaOf(e.type).lists
    BY <1>2, <1>8 DEF WellFormed
  <2>2. e.data = [f \in DOMAIN e.data |-> e.data[f]] /\ e.data # Null
    BY <2>1 DEF IsJsonObject
  <2>3. CASE e.type \in Bare \/ e.data = EmptyObject
    <3>1. DOMAIN e.data = {}
      <4>1. CASE e.type \in Bare
        BY <4>1, <2>1, BareSchema
      <4>2. CASE e.data = EmptyObject
        BY <4>2 DEF EmptyObject
      <4> QED BY <4>1, <4>2, <2>3
    <3>2. DOMAIN ToJson(e.data) = {}
          /\ ToJson(e.data) = [f \in DOMAIN ToJson(e.data) |-> ToJson(e.data)[f]]
      BY <3>1 DEF ToJson
    <3>3. ToJson(e.data) = EmptyObject
      BY <3>2, NoArguments
    <3>4. m.data = Nothing
      BY <2>3, <1>1 DEF SerializeData
    <3> QED BY <3>3, <3>4, <1>6
  <2>4. CASE ~(e.type \in Bare \/ e.data = EmptyObject)
    <3>1. m.data = ToJson(e.data)
      BY <2>2, <2>4, <1>1, <1>8 DEF SerializeData
    <3>2. ToJson(e.data) # Nothing
      BY <1>2, <1>8 DEF WellFormed, IsJsonObject
    <3> QED BY <3>1, <3>2, <1>6
  <2> QED BY <2>3, <2>4
<1> QED BY <1>1, <1>2, <1>4, <1>7, <1>8 DEF m

\* What was meant arrives: an event of this program's is one for the reader,
\* and the reader makes of it what the writer meant.
LEMMA OwnMeaning ==
  ASSUME NEW e \in Events, NEW i \in Nat, NEW m, m = MessageOf(e),
         NEW payload,
         payload = IF PayloadLength(m.payload) = 0 THEN Nothing
                                                   ELSE PayloadBytes(i, m)
  PROVE  /\ IsEvent(m.type, Said(m))
         /\ FromWire(m.type, Said(m), payload) = Normal(i, e)
<1> DEFINE o == e.data
<1> DEFINE schema == SchemaOf(e.type)
<1> DEFINE all == schema.required \cup schema.optional \cup schema.lists
<1>1. /\ m \in Messages /\ m.type = e.type /\ m.payload = Payload(e)
      /\ Unknown(e.type) => Said(m) = NullAsObject(o)
      /\ ~Unknown(e.type) => Said(m) = ToJson(o)
      /\ Misfit \notin {m.inline, m.data}
  BY OwnSaid
<1>2. WellFormed(e)
  BY EventsAssumption
<1>3. m.payload = Nothing \/ m.payload \in Nat
  BY <1>1, MessagesAssumption
<1>4. NullAsObject(Said(m)) = Said(m)
  <2>1. Said(m) # Null
    BY <1>1, MessagesAssumption DEF IsJsonObject
  <2> QED BY <2>1 DEF NullAsObject
<1>5. Segment(i, "payload", 0) = <<>>
  BY DEF Segment
<1>6. PayloadBytes(i, m) = Segment(i, "payload", PayloadLength(m.payload))
  BY DEF PayloadBytes
<1>7. CASE Unknown(e.type)
  <2>1. IsEvent(m.type, Said(m))
    BY <1>1, <1>7 DEF IsEvent
  <2>2. e.type # "audio-chunk"
    BY <1>7 DEF Unknown
  <2>3. m.payload = e.payload
    BY <1>1, <1>7 DEF Payload
  <2>4. payload = IF e.payload \in {Nothing, 0} THEN Nothing
                                               ELSE Segment(i, "payload", e.payload)
    BY <2>3, <1>3, <1>6 DEF PayloadLength
  <2>5. FromWire(m.type, Said(m), payload) =
          [type |-> e.type, data |-> Said(m), payload |-> payload]
    BY <1>1, <1>4, <1>7 DEF FromWire
  <2>6. Normal(i, e) = [type |-> e.type, data |-> NullAsObject(o),
                        payload |-> payload]
    BY <2>2, <2>4, <1>7 DEF Normal
  <2> QED BY <2>1, <2>5, <2>6, <1>1, <1>7
<1>8. CASE ~Unknown(e.type)
  <2>1. /\ IsJsonObject(o)
        /\ schema.required \subseteq DOMAIN o /\ DOMAIN o \subseteq all
        /\ \A f \in DOMAIN o :
             Fits(IF f = "vad_sensitivity" THEN AsWireStr(o[f]) ELSE o[f])
        /\ IF e.type = "audio-chunk" THEN e.payload \in Nat
                                     ELSE e.payload = Nothing
    BY <1>2, <1>8 DEF WellFormed
  <2>2. o # Null /\ o = [f \in DOMAIN o |-> o[f]]
    BY <2>1 DEF IsJsonObject
  <2> DEFINE json == Said(m)
  <2>3. json = [f \in DOMAIN o |-> IF f = "vad_sensitivity" THEN AsWireStr(o[f])
                                                           ELSE o[f]]
    BY <1>1, <1>8 DEF ToJson
  <2> HIDE DEF json, schema
  <2>4. DOMAIN json = DOMAIN o /\ \A f \in DOMAIN o : Fits(json[f])
    BY <2>1, <2>3
  <2>5. Accepts(schema, json)
    BY <2>1, <2>4 DEF Accepts, Fits
  <2>6. IsEvent(m.type, json)
    BY <2>5, <1>1, <1>4 DEF IsEvent, json, schema
  <2>7. {f \in all \cap DOMAIN json : json[f] \notin {Null, EmptyList}} = DOMAIN o
    BY <2>1, <2>4 DEF Fits
  <2>8. FromJson(schema, json) =
          [f \in DOMAIN o |-> IF f = "vad_sensitivity"
                                THEN FromWireStr(AsWireStr(o[f])) ELSE o[f]]
    <3>1. FromJson(schema, json) =
            [f \in DOMAIN o |-> IF f = "vad_sensitivity" THEN FromWireStr(json[f])
                                                        ELSE json[f]]
      BY <2>7 DEF FromJson
    <3>2. \A f \in DOMAIN o :
            json[f] = IF f = "vad_sensitivity" THEN AsWireStr(o[f]) ELSE o[f]
      BY <2>3
    <3> QED BY <3>1, <3>2
  <2>9. FromJson(schema, json) =
          IF "vad_sensitivity" \notin DOMAIN o THEN NullAsObject(o)
            ELSE [o EXCEPT !["vad_sensitivity"] = FromWireStr(AsWireStr(@))]
    <3>1. CASE "vad_sensitivity" \notin DOMAIN o
      <4>1. FromJson(schema, json) = [f \in DOMAIN o |-> o[f]]
        BY <3>1, <2>8
      <4> QED BY <4>1, <3>1, <2>2 DEF NullAsObject
    <3>2. CASE "vad_sensitivity" \in DOMAIN o
      <4>1. [o EXCEPT !["vad_sensitivity"] = FromWireStr(AsWireStr(@))] =
              [f \in DOMAIN o |-> IF f = "vad_sensitivity"
                                    THEN FromWireStr(AsWireStr(o[f])) ELSE o[f]]
        BY <3>2, <2>2
      <4> QED BY <4>1, <3>2, <2>8
    <3> QED BY <3>1, <3>2
  <2>10. FromWire(m.type, json, payload).payload = Normal(i, e).payload
    <3>1. CASE e.type = "audio-chunk"
      <4>1. m.payload = e.payload /\ e.payload \in Nat
        BY <3>1, <2>1, <1>1 DEF Payload
      <4>2. PayloadLength(m.payload) = e.payload
        BY <4>1, WireAssumption DEF PayloadLength
      <4>3. Normal(i, e).payload = Segment(i, "payload", e.payload)
        BY <3>1 DEF Normal
      <4>4. FromWire(m.type, json, payload).payload =
              IF payload = Nothing THEN <<>> ELSE payload
        BY <3>1, <1>1, <1>8 DEF FromWire
      <4>5. CASE e.payload = 0
        BY <4>2, <4>3, <4>4, <4>5, <1>5
      <4>6. CASE e.payload # 0
        <5>1. payload = Segment(i, "payload", e.payload)
          BY <4>2, <4>6, <1>6
        <5>2. payload # Nothing
          <6>1. Segment(i, "payload", e.payload) \in Seq(ByteSet)
            BY <4>1, SegmentFacts
          <6> QED BY <5>1, <6>1, WireAssumption
        <5> QED BY <5>1, <5>2, <4>3, <4>4
      <4> QED BY <4>5, <4>6
    <3>2. CASE e.type # "audio-chunk"
      BY <3>2, <2>1, <1>1, <1>8 DEF FromWire, Normal
    <3> QED BY <3>1, <3>2
  <2>11. FromWire(m.type, json, payload) =
           [type |-> e.type, data |-> FromJson(schema, json),
            payload |-> FromWire(m.type, json, payload).payload]
    BY <1>1, <1>4, <1>8 DEF FromWire, json, schema
  <2>12. Normal(i, e) =
           [type |-> e.type,
            data |-> IF "vad_sensitivity" \notin DOMAIN o THEN NullAsObject(o)
                       ELSE [o EXCEPT !["vad_sensitivity"] =
                               FromWireStr(AsWireStr(@))],
            payload |-> Normal(i, e).payload]
    BY <1>8 DEF Normal
  <2> QED BY <2>6, <2>9, <2>10, <2>11, <2>12 DEF json
<1> QED BY <1>7, <1>8

-----------------------------------------------------------------------------
(***************************************************************************)
(* What is in the connection                                               *)
(***************************************************************************)
\* The bytes read, those in the connection and those to be written.
LEMMA StreamFacts ==
  ASSUME Shapes
  PROVE  /\ Bytestream \in Seq(ByteSet)
         /\ Len(Bytestream) = Len(buf) + Len(stream) + Len(left)
         /\ \A k \in 1..Len(buf) : Bytestream[k] = buf[k]
         /\ \A k \in 1..Len(stream) : Bytestream[Len(buf) + k] = stream[k]
         /\ Len(buf) \in Nat /\ Len(stream) \in Nat /\ Len(left) \in Nat
         /\ Len(got) \in Nat /\ Len(sent) \in Nat
<1>1. buf \in Seq(ByteSet) /\ stream \in Seq(ByteSet) /\ left \in Seq(ByteSet)
  BY DEF Shapes
<1>2. Len(got) \in Nat /\ Len(sent) \in Nat
  BY DEF Shapes
<1>3. Bytestream \in Seq(ByteSet)
      /\ Len(Bytestream) = Len(buf) + Len(stream) + Len(left)
  BY <1>1, ConcatThree DEF Bytestream
<1>4. \A k \in 1..Len(buf) : Bytestream[k] = buf[k]
  BY <1>1, ConcatThree DEF Bytestream
<1>5. \A k \in 1..Len(stream) : Bytestream[Len(buf) + k] = stream[k]
  BY <1>1, ConcatThree DEF Bytestream
<1> QED BY <1>1, <1>2, <1>3, <1>4, <1>5

\* While a header is read, the bytes are the next message from its beginning.
LEMMA AtHeader ==
  ASSUME IInv, stage \in {"header", "parse"}, Bytestream # <<>>
  PROVE  LET i == Len(got) + 1
         IN  /\ i \in 1..Len(sent) /\ sent[i] \in Messages
             /\ \A k \in 1..Len(Bytestream) :
                  k <= Length(sent[i]) => Bytestream[k] = Byte(i, sent[i], k)
<1> DEFINE i == Len(got) + 1
<1>1. sent \in Seq(Messages) /\ InOrder(Bytestream, sent) /\ i \in Nat
      /\ 1 \in Nat
      /\ Bytestream \in Seq(ByteSet)
  BY StreamFacts DEF IInv, Shapes, Framed, Framing
<1>2. Bytestream[1] = ByteOf(sent, i, 1)
  BY DEF IInv, Framed, Framing, Awaited
<1>3. i \in 1..Len(sent) => 1 <= Length(sent[i])
  <2>1. i \in 1..Len(sent) => sent[i] \in Messages
    BY <1>1
  <2> QED BY <2>1, MessageFacts
<1> HIDE DEF i
<1>4. /\ i \in 1..Len(sent)
      /\ \A k \in 1..Len(Bytestream) :
           1 + k - 1 <= Length(sent[i]) => Bytestream[k] = ByteOf(sent, i, 1 + k - 1)
  BY <1>1, <1>2, <1>3, FromThePlace
<1>5. sent[i] \in Messages
  BY <1>1, <1>4
<1>6. \A k \in 1..Len(Bytestream) : 1 + k - 1 = k
  BY StreamFacts DEF IInv
<1> QED BY <1>4, <1>5, <1>6 DEF ByteOf, i

\* Where a segment is read that is not empty, the bytes are that segment.
LEMMA AtSegment ==
  ASSUME IInv, stage \in {"data", "payload"}, Bytestream # <<>>, Announced > 0,
         NEW p, p = IF stage = "data"
                      THEN sent[at].header + 2
                      ELSE sent[at].header + 2 + DataLength(sent[at].data)
  PROVE  /\ sent[at] \in Messages /\ p \in Nat
         /\ p + Announced - 1 <= Length(sent[at])
         /\ \A k \in 1..Len(Bytestream) :
              k <= Announced => Bytestream[k] = Byte(at, sent[at], p + k - 1)
<1>1. /\ sent \in Seq(Messages) /\ InOrder(Bytestream, sent)
      /\ Bytestream \in Seq(ByteSet) /\ at \in Nat /\ at \in 1..Len(sent)
  <2>1. /\ sent \in Seq(Messages) /\ InOrder(Bytestream, sent)
        /\ Bytestream \in Seq(ByteSet) /\ Len(got) \in Nat /\ Len(sent) \in Nat
    BY StreamFacts DEF IInv, Shapes, Framed, Framing
  <2>2. at = Len(got) + 1 /\ at <= Len(sent)
    BY DEF IInv, SegmentInv
  <2> QED BY <2>1, <2>2
<1>2. sent[at] \in Messages
  BY <1>1
<1>3. /\ sent[at].header \in Nat /\ sent[at].header >= 1
      /\ DataLength(sent[at].data) \in Nat
      /\ PayloadLength(sent[at].payload) \in Nat
      /\ Length(sent[at]) = sent[at].header + 1 + DataLength(sent[at].data)
                              + PayloadLength(sent[at].payload)
  BY <1>2, MessageFacts
<1>4. Announced = IF stage = "data" THEN DataLength(sent[at].data)
                                    ELSE PayloadLength(sent[at].payload)
  BY DEF Announced
<1> DEFINE H == sent[at].header
<1> DEFINE D == DataLength(sent[at].data)
<1> DEFINE P == PayloadLength(sent[at].payload)
<1> DEFINE L == Length(sent[at])
<1> DEFINE A == Announced
<1>10. H \in Nat /\ D \in Nat /\ P \in Nat /\ L = H + 1 + D + P
  BY <1>3
<1> HIDE DEF H, D, P, L, A
<1>11. p >= 1 /\ p \in Nat /\ A \in Nat /\ p + A - 1 <= L
  <2>1. CASE stage = "data"
    <3>1. p = H + 2 /\ A = D
      BY <2>1, <1>4 DEF H, D, A
    <3> QED BY <3>1, <1>10
  <2>2. CASE stage = "payload"
    <3>1. p = H + 2 + D /\ A = P
      BY <2>2, <1>4 DEF H, D, P, A
    <3> QED BY <3>1, <1>10
  <2> QED BY <2>1, <2>2
<1>12. A > 0
  BY DEF A
<1>13. p <= L
  BY <1>10, <1>11, <1>12
<1>5. /\ p \in Nat /\ p >= 1 /\ Announced \in Nat
      /\ p + Announced - 1 <= Length(sent[at]) /\ p <= Length(sent[at])
  BY <1>11, <1>13 DEF A, L
<1>6. Awaited = <<at, p>>
  BY <1>5 DEF Awaited, Place
<1>7. Bytestream[1] = ByteOf(sent, at, p)
  BY <1>6 DEF IInv, Framed, Framing
<1>8. \A k \in 1..Len(Bytestream) :
        p + k - 1 <= Length(sent[at]) => Bytestream[k] = ByteOf(sent, at, p + k - 1)
  BY <1>1, <1>5, <1>7, FromThePlace
<1>9. \A k \in 1..Len(Bytestream) :
        k <= Announced => p + k - 1 <= Length(sent[at])
  <2>1. Length(sent[at]) \in Nat
    BY <1>2, MessageFacts
  <2>2. Len(Bytestream) \in Nat
    BY <1>1
  <2> QED BY <2>1, <2>2, <1>5
<1> QED BY <1>2, <1>5, <1>8, <1>9 DEF ByteOf

\* Bytes that are taken leave one sequence and enter the other.
LEMMA BytesMove ==
  ASSUME NEW S, NEW b \in Seq(S), NEW s \in Seq(S),
         NEW n \in Nat, n <= Len(s)
  PROVE  LET c == SubSeq(s, 1, n)
             r == SubSeq(s, n + 1, Len(s))
         IN  /\ c \in Seq(S) /\ Len(c) = n
             /\ b \o c \in Seq(S) /\ Len(b \o c) = Len(b) + n
             /\ r \in Seq(S) /\ Len(r) = Len(s) - n
             /\ c \o r = s
<1> DEFINE c == SubSeq(s, 1, n)
<1> DEFINE r == SubSeq(s, n + 1, Len(s))
<1>1. c \in Seq(S)
  OBVIOUS
<1>2. Len(c) = n
  OBVIOUS
<1>3. r \in Seq(S)
  OBVIOUS
<1>4. Len(r) = Len(s) - n
  OBVIOUS
<1>5. c \o r = s
  <2>1. c \o r = SubSeq(s, 1, Len(s))
    <3>1. /\ 1 \in 1..Len(s) + 1 /\ n \in 1 - 1..Len(s) /\ Len(s) \in n..Len(s)
      OBVIOUS
    <3> QED BY <3>1, ConcatAdjacentSubSeq
  <2>2. SubSeq(s, 1, Len(s)) = s
    BY SubSeqFull
  <2> QED BY <2>1, <2>2
<1> HIDE DEF c, r
<1>6. b \o c \in Seq(S) /\ Len(b \o c) = Len(b) + Len(c)
  BY <1>1, Concat
<1> QED BY <1>1, <1>2, <1>3, <1>4, <1>5, <1>6 DEF c, r

\* Bytes that are let go are the first ones.
LEMMA BytesGo ==
  ASSUME NEW S, NEW b \in Seq(S), NEW s \in Seq(S), NEW l \in Seq(S),
         NEW all, all = (b \o s) \o l
  PROVE  (<<>> \o s) \o l = SubSeq(all, Len(b) + 1, Len(all))
<1>1. <<>> \o s = s
  BY ConcatEmptySeq
<1>2. s \o l \in Seq(S)
  OBVIOUS
<1>3. (b \o s) \o l = b \o (s \o l)
  BY ConcatAssociative
<1> DEFINE r == s \o l
<1> HIDE DEF r
<1>4. r \in Seq(S) /\ b \o r \in Seq(S) /\ Len(b \o r) = Len(b) + Len(r)
  BY <1>2, Concat DEF r
<1>5. \A k \in 1..Len(r) : (b \o r)[Len(b) + k] = r[k]
  BY <1>4, Concat
<1> DEFINE t == SubSeq(b \o r, Len(b) + 1, Len(b \o r))
<1>6. /\ t \in Seq(S) /\ Len(t) = Len(r)
      /\ \A k \in 1..Len(r) : t[k] = (b \o r)[Len(b) + k]
  <2> DEFINE q == b \o r
  <2>1. q \in Seq(S) /\ Len(q) = Len(b) + Len(r) /\ Len(b) \in Nat
        /\ Len(r) \in Nat
    BY <1>4
  <2> HIDE DEF q
  <2>2. SubSeq(q, Len(b) + 1, Len(q)) \in Seq(S)
    BY <2>1
  <2>3. Len(SubSeq(q, Len(b) + 1, Len(q))) = Len(r)
    BY <2>1
  <2>4. \A k \in 1..Len(r) : SubSeq(q, Len(b) + 1, Len(q))[k] = q[Len(b) + k]
    BY <2>1
  <2> QED BY <2>2, <2>3, <2>4 DEF q
<1> HIDE DEF t
<1>7. t = r
  <2>1. \A k \in 1..Len(r) : t[k] = r[k]
    BY <1>5, <1>6
  <2> QED BY <2>1, <1>4, <1>6, SeqEqual
<1> QED BY <1>1, <1>3, <1>7 DEF t, r

-----------------------------------------------------------------------------
(***************************************************************************)
(* The inductive invariant                                                 *)
(***************************************************************************)
\* It holds at first.
LEMMA InitIInv ==
  ASSUME Init
  PROVE  IInv
<1>1. Bytestream = <<>> /\ Awaited = <<1, 1>>
  <2>1. <<>> \in Seq(ByteSet)
    BY EmptySeq
  <2>2. <<>> \o <<>> = <<>>
    BY <2>1, ConcatEmptySeq
  <2>3. Bytestream = (<<>> \o <<>>) \o <<>>
    BY DEF Init, Bytestream
  <2>4. Awaited = <<Len(got) + 1, 1>> /\ Len(got) = 0
    BY DEF Init, Awaited
  <2> QED BY <2>2, <2>3, <2>4
<1>2. Shapes
  <2>1. {PipeSize, ChunkSize, MaxHeader} \subseteq Nat
    BY WireAssumption
  <2>6. Len(<<>>) = 0
    BY EmptySeq
  <2>3. Len(sent) = 0 /\ Len(got) = 0 /\ Len(stream) = 0 /\ Len(buf) = 0
    BY <2>6, Zenon DEF Init
  <2>7. /\ Len(got) <= Len(sent) /\ Len(stream) <= PipeSize
        /\ Len(buf) <= MaxHeader + ChunkSize
    BY <2>1, <2>3
  <2>4. /\ sent \in Seq(Messages) /\ buf \in Seq(ByteSet)
        /\ stream \in Seq(ByteSet) /\ left \in Seq(ByteSet)
        /\ got \in Seq(Meanings)
    <3>1. <<>> \in Seq(Messages)
      BY EmptySeq
    <3>2. <<>> \in Seq(ByteSet)
      BY EmptySeq
    <3>3. <<>> \in Seq(Meanings)
      BY EmptySeq
    <3>4. sent \in Seq(Messages)
      BY <3>1, Zenon DEF Init
    <3>5. buf \in Seq(ByteSet) /\ stream \in Seq(ByteSet)
          /\ left \in Seq(ByteSet)
      BY <3>2, Zenon DEF Init
    <3>6. got \in Seq(Meanings)
      BY <3>3, Zenon DEF Init
    <3> QED BY <3>4, <3>5, <3>6
  <2>5. closed \in BOOLEAN /\ stage = "header" /\ at = 0 /\ merged = EmptyObject
    BY DEF Init
  <2> QED BY <2>4, <2>5, <2>7 DEF Shapes
<1>3. Framed
  <2>1. Len(<<>>) = 0 /\ 1..0 = {}
    OBVIOUS
  <2>2. sent = <<>> /\ left = <<>> /\ closed = FALSE
    BY DEF Init
  <2>3. InOrder(<<>>, sent)
    BY <2>1 DEF InOrder
  <2>4. ReachesTheEnd(<<>>, <<1, 1>>, sent)
    BY <2>1, <2>2 DEF ReachesTheEnd
  <2>5. Framing(<<>>, <<1, 1>>, sent, closed)
    BY <2>2, <2>3, <2>4 DEF Framing
  <2> QED BY <2>1, <2>2, <2>5, <1>1 DEF Framed
<1>4. LineInv /\ SegmentInv
  BY DEF Init, LineInv, SegmentInv
<1> QED BY <1>2, <1>3, <1>4 DEF IInv

\* It says nothing of how the reading ends.
LEMMA StopKeeps ==
  ASSUME IInv, UNCHANGED <<writerVars, stream, readerVars, got>>
  PROVE  IInv'
<1>1. UNCHANGED <<sent, left, stream, closed, stage, buf, at, merged, got>>
  BY DEF writerVars, readerVars
<1>2. Bytestream' = Bytestream /\ Awaited' = Awaited
  BY <1>1 DEF Bytestream, Awaited
<1>3. Shapes'
  BY <1>1 DEF IInv, Shapes
<1>4. Framed'
  BY <1>1, <1>2 DEF IInv, Framed
<1>5. LineInv'
  BY <1>1 DEF IInv, LineInv
<1>6. SegmentInv'
  BY <1>1 DEF IInv, SegmentInv, Announced, Limit
<1> QED BY <1>3, <1>4, <1>5, <1>6 DEF IInv

\* A message is begun.
LEMMA BeginStep ==
  ASSUME IInv, NEW m \in Messages, Begin(m)
  PROVE  IInv'
<1> DEFINE N == Len(sent)
<1>1. /\ ~closed /\ left = <<>>
      /\ sent' = Append(sent, m) /\ left' = Bytes(N + 1, m)
      /\ UNCHANGED <<stream, closed, stage, buf, at, merged, got>>
  BY DEF Begin, readerVars
<1>2. Shapes
  BY DEF IInv
<1>3. sent \in Seq(Messages) /\ N \in Nat /\ closed = FALSE
  BY <1>1, <1>2 DEF Shapes
<1>4. /\ sent' \in Seq(Messages) /\ Len(sent') = N + 1
      /\ \A i \in 1..N : sent'[i] = sent[i]
  BY <1>1, <1>3
<1>5. /\ Bytes(N + 1, m) \in Seq(ByteSet) /\ Len(Bytes(N + 1, m)) = Length(m)
      /\ \A p \in 1..Length(m) : Bytes(N + 1, m)[p] = Byte(N + 1, m, p)
  BY <1>3, BytesFacts
<1>6. Bytestream' = Bytestream \o Bytes(N + 1, m)
  <2>1. Bytestream' = (buf \o stream) \o Bytes(N + 1, m)
    BY <1>1 DEF Bytestream
  <2>2. buf \o stream \in Seq(ByteSet)
    BY <1>2, Concat DEF Shapes
  <2>3. Bytestream = buf \o stream
    BY <2>2, <1>1, ConcatEmptySeq DEF Bytestream
  <2> QED BY <2>1, <2>3
<1>7. stage \in {"data", "payload"} => at \in 1..N /\ sent'[at] = sent[at]
  BY <1>2, <1>3, <1>4 DEF IInv, SegmentInv, Shapes
<1>8. stage \in {"header", "parse"} /\ buf # <<>> =>
        sent'[Len(got) + 1] = sent[Len(got) + 1]
  <2> SUFFICES ASSUME stage \in {"header", "parse"}, buf # <<>>
               PROVE  sent'[Len(got) + 1] = sent[Len(got) + 1]
    OBVIOUS
  <2>1. Bytestream # <<>>
    <3>1. Len(Bytestream) > 0
      BY <1>2, StreamFacts DEF Shapes
    <3> QED BY <3>1
  <2>2. Len(got) + 1 \in 1..N
    BY <2>1, AtHeader
  <2> QED BY <2>2, <1>4
<1>9. Awaited' = Awaited
  BY <1>1, <1>2, <1>7 DEF Awaited, Place, Shapes
<1>10. Shapes'
  BY <1>1, <1>2, <1>3, <1>4, <1>5 DEF Shapes
<1>11. Framed'
  <2>1. Framing(Bytestream, Awaited, sent, FALSE)
    BY <1>3 DEF IInv, Framed
  <2>2. Bytestream \in Seq(ByteSet)
    BY <1>2, StreamFacts
  <2>3. Framing(Bytestream \o Bytes(N + 1, m), Awaited, Append(sent, m), FALSE)
    BY <2>1, <2>2, <1>3, GoesOn
  <2>4. Framing(Bytestream, Awaited, sent, closed)'
    BY <2>3, <1>1, <1>3, <1>6, <1>9
  <2>5. \A k \in 1..Len(left') : left'[k][1] = Len(sent')
    BY <1>1, <1>4, <1>5, ByteNames
  <2> QED BY <2>4, <2>5, <1>1 DEF Framed
<1>12. LineInv'
  BY <1>1, <1>8 DEF IInv, LineInv
<1>13. SegmentInv'
  BY <1>1, <1>3, <1>4, <1>7 DEF IInv, SegmentInv, Announced, Limit
<1> QED BY <1>10, <1>11, <1>12, <1>13 DEF IInv

\* A byte is written.
LEMMA WriteByteStep ==
  ASSUME IInv, WriteByte
  PROVE  IInv'
<1>1. /\ ~closed /\ left # <<>> /\ Len(stream) < PipeSize
      /\ stream' = Append(stream, Head(left)) /\ left' = Tail(left)
      /\ UNCHANGED <<sent, closed, stage, buf, at, merged, got>>
  BY DEF WriteByte, readerVars
<1>2. Shapes /\ PipeSize \in Nat
  BY WireAssumption DEF IInv
<1>3. buf \in Seq(ByteSet) /\ stream \in Seq(ByteSet) /\ left \in Seq(ByteSet)
  BY <1>2 DEF Shapes
<1>10. left # <<>>
  BY <1>1
<1>11. (buf \o stream') \o left' = (buf \o stream) \o left
  <2>1. PICK h : h = <<Head(left)>>
    OBVIOUS
  <2>2. Head(left) \in ByteSet /\ left' \in Seq(ByteSet) /\ h \in Seq(ByteSet)
    BY <1>1, <1>3, <2>1, HeadTailProperties
  <2>3. stream' = stream \o h
    BY <1>1, <1>3, <2>1, <2>2
  <2>4. h \o left' = left
    BY <1>1, <1>3, <2>1, <2>2
  <2>5. (buf \o stream) \o h = buf \o (stream \o h)
    BY <1>3, <2>2, ConcatAssociative, SMTT(30)
  <2>6. PICK x : x = buf \o stream
    OBVIOUS
  <2>7. x \in Seq(ByteSet)
    BY <1>3, <2>6
  <2>8. PICK u : u = left'
    OBVIOUS
  <2>9. u \in Seq(ByteSet)
    BY <2>2, <2>8
  <2>10. (x \o h) \o u = x \o (h \o u)
    BY <2>2, <2>7, <2>9, ConcatAssociative
  <2> QED BY <2>3, <2>4, <2>5, <2>6, <2>8, <2>10, Zenon
<1>12. /\ Append(stream, Head(left)) \in Seq(ByteSet)
          /\ Tail(left) \in Seq(ByteSet)
       /\ Len(Append(stream, Head(left))) = Len(stream) + 1
  BY <1>3, <1>10, HeadTailProperties
<1>13. \A k \in 1..Len(Tail(left)) :
         Tail(left)[k] = left[k + 1] /\ k + 1 \in 1..Len(left)
  BY <1>3, <1>10, HeadTailProperties
<1>4. /\ (buf \o stream') \o left' = (buf \o stream) \o left
      /\ stream' \in Seq(ByteSet) /\ left' \in Seq(ByteSet)
      /\ Len(stream') = Len(stream) + 1
      /\ \A k \in 1..Len(left') : left'[k] = left[k + 1] /\ k + 1 \in 1..Len(left)
  <2>1. stream' = Append(stream, Head(left)) /\ left' = Tail(left)
    BY <1>1
  <2>2. stream' \in Seq(ByteSet) /\ left' \in Seq(ByteSet)
    BY <2>1, <1>12, Zenon
  <2>3. Len(stream') = Len(stream) + 1
    BY <2>1, <1>12, Zenon
  <2>4. \A k \in 1..Len(left') : left'[k] = left[k + 1] /\ k + 1 \in 1..Len(left)
    BY <2>1, <1>13, Zenon
  <2> QED BY <2>2, <2>3, <2>4, <1>11
<1>5. Bytestream' = Bytestream /\ Awaited' = Awaited
  BY <1>1, <1>4 DEF Bytestream, Awaited
<1>6. Shapes'
  <2>1. Len(stream') <= PipeSize
    BY <1>1, <1>2, <1>3, <1>4
  <2> QED BY <2>1, <1>1, <1>2, <1>4 DEF Shapes
<1>7. Framed'
  <2>1. \A k \in 1..Len(left') : left'[k][1] = Len(sent)
    BY <1>4 DEF IInv, Framed
  <2> QED BY <2>1, <1>1, <1>5 DEF IInv, Framed
<1>8. LineInv'
  BY <1>1 DEF IInv, LineInv
<1>9. SegmentInv'
  BY <1>1 DEF IInv, SegmentInv, Announced, Limit
<1> QED BY <1>6, <1>7, <1>8, <1>9 DEF IInv

\* The writer leaves.
LEMMA CloseWriterStep ==
  ASSUME IInv, CloseWriter
  PROVE  IInv'
<1>1. /\ ~closed /\ closed' = TRUE /\ left' = <<>>
      /\ UNCHANGED <<sent, stream, stage, buf, at, merged, got>>
  BY DEF CloseWriter, readerVars
<1>2. Shapes
  BY DEF IInv
<1>3. /\ buf \in Seq(ByteSet) /\ stream \in Seq(ByteSet)
         /\ left \in Seq(ByteSet)
      /\ sent \in Seq(Messages) /\ closed = FALSE
  BY <1>1, <1>2 DEF Shapes
<1> DEFINE q == buf \o stream
<1>4. q \in Seq(ByteSet)
  BY <1>3, Concat
<1>5. Bytestream = q \o left
  BY DEF Bytestream
<1>6. Bytestream' = q
  <2>1. Bytestream' = q \o <<>>
    BY <1>1 DEF Bytestream
  <2> HIDE DEF q
  <2> QED BY <2>1, <1>4, ConcatEmptySeq
<1> HIDE DEF q
<1>7. Awaited' = Awaited
  BY <1>1 DEF Awaited
<1>8. Awaited[1] \in Nat
  <2>1. CASE stage \in {"header", "parse"}
    BY <2>1, <1>2, StreamFacts DEF Awaited
  <2>2. CASE stage \in {"data", "payload"}
    <3>1. at \in Nat
      BY <2>2, <1>2, StreamFacts DEF Shapes
    <3> QED BY <2>2, <3>1 DEF Awaited, Place
  <2> QED BY <2>1, <2>2, <1>2 DEF Shapes
<1>9. Framing(q, Awaited, sent, TRUE)
  <2>1. Framing(q \o left, Awaited, sent, FALSE)
    BY <1>3, <1>5 DEF IInv, Framed
  <2>2. \A k \in 1..Len(left) : left[k][1] = Len(sent)
    BY DEF IInv, Framed
  <2>3. sent # <<>> \/ left = <<>>
    <3> SUFFICES ASSUME sent = <<>>, left # <<>> PROVE FALSE
      OBVIOUS
    <3>1. Len(Bytestream) \in Nat /\ Len(Bytestream) >= 1
      BY <1>2, <1>3, StreamFacts
    <3>2. 1 \in 1..Len(Bytestream) /\ 1..Len(sent) = {}
      BY <3>1
    <3> QED BY <3>2, <2>1, <1>5 DEF Framing, InOrder
  <2> QED BY <2>1, <2>2, <2>3, <1>3, <1>4, <1>8, CutOff
<1>10. Shapes'
  BY <1>1, <1>2 DEF Shapes
<1>11. Framed'
  <2>1. Framing(Bytestream, Awaited, sent, closed)'
    BY <1>1, <1>6, <1>7, <1>9
  <2> QED BY <2>1, <1>1 DEF Framed
<1>12. LineInv'
  BY <1>1 DEF IInv, LineInv
<1>13. SegmentInv'
  BY <1>1 DEF IInv, SegmentInv, Announced, Limit
<1> QED BY <1>10, <1>11, <1>12, <1>13 DEF IInv

\* Bytes go from the connection to the reader.
LEMMA TakeStep ==
  ASSUME IInv, NEW j \in 1..Len(stream), Take(SubSeq(stream, 1, j)),
         left' = left
  PROVE  /\ Bytestream' = Bytestream
         /\ buf' \in Seq(ByteSet) /\ stream' \in Seq(ByteSet)
         /\ Len(buf') = Len(buf) + j /\ Len(stream') <= PipeSize
         /\ buf' # <<>>
<1>1. /\ buf \in Seq(ByteSet) /\ stream \in Seq(ByteSet)
         /\ left \in Seq(ByteSet)
      /\ Len(stream) <= PipeSize
  BY DEF IInv, Shapes
<1>2. /\ Len(stream) \in Nat /\ Len(buf) \in Nat /\ j \in Nat
         /\ j <= Len(stream)
      /\ PipeSize \in Nat
  BY <1>1, WireAssumption
<1> DEFINE c == SubSeq(stream, 1, j)
<1> DEFINE r == SubSeq(stream, j + 1, Len(stream))
<1>3. c \in Seq(ByteSet) /\ Len(c) = j
  BY <1>1, <1>2, BytesMove
<1>4. buf \o c \in Seq(ByteSet) /\ Len(buf \o c) = Len(buf) + j
  BY <1>1, <1>2, BytesMove
<1>5. r \in Seq(ByteSet) /\ Len(r) = Len(stream) - j
  BY <1>1, <1>2, BytesMove
<1>6. c \o r = stream
  BY <1>1, <1>2, BytesMove
<1>7. buf' = buf \o c /\ stream' = r
  BY <1>3 DEF Take
<1> HIDE DEF c, r
<1>8. Bytestream' = Bytestream
  <2>1. (buf \o c) \o r = buf \o (c \o r)
    <3>1. buf \in Seq(ByteSet) /\ c \in Seq(ByteSet) /\ r \in Seq(ByteSet)
      BY <1>1, <1>3, <1>5
    <3> QED BY <3>1, ConcatAssociative, SMTT(30)
  <2> QED BY <2>1, <1>6, <1>7, Zenon DEF Bytestream
<1>9. buf' \in Seq(ByteSet) /\ Len(buf') = Len(buf) + j
  BY <1>4, <1>7, Zenon
<1>10. stream' \in Seq(ByteSet) /\ Len(stream') = Len(stream) - j
  BY <1>5, <1>7, Zenon
<1>11. Len(stream') <= PipeSize
  BY <1>1, <1>2, <1>10
<1>12. Len(buf') # 0
  BY <1>2, <1>9
<1>13. Len(<<>>) = 0
  BY EmptySeq
<1>14. buf' # <<>>
  BY <1>12, <1>13, Zenon
<1> QED BY <1>8, <1>9, <1>10, <1>11, <1>14

\* What read_line_bounded takes of a chunk ends with the newline of the header
\* that is read, or before it.
LEMMA TakenOfLine ==
  ASSUME IInv, stage = "header", NEW n \in 1..Len(stream), NEW chunk,
         chunk = SubSeq(stream, 1, n)
  PROVE  LET m == sent[Len(got) + 1]
         IN  /\ m \in Messages /\ Len(buf) <= m.header
             /\ \E j \in 1..n :
                  /\ UpToNewline(chunk) = SubSeq(stream, 1, j)
                  /\ IF Newlines(chunk) = {} THEN Len(buf) + j <= m.header
                                             ELSE Len(buf) + j = m.header + 1
<1> DEFINE i == Len(got) + 1
<1> DEFINE m == sent[i]
<1> DEFINE b == Len(buf)
<1> DEFINE H == m.header
<1>1. /\ buf \in Seq(ByteSet) /\ stream \in Seq(ByteSet) /\ b \in Nat
      /\ Len(stream) \in Nat /\ n \in Nat /\ i \in Nat
      /\ Len(Bytestream) \in Nat /\ Len(Bytestream) >= b + Len(stream)
      /\ \A k \in 1..Len(stream) : Bytestream[b + k] = stream[k]
  BY StreamFacts DEF IInv, Shapes
<1>2. Bytestream # <<>>
  <2>1. Len(Bytestream) # 0
    BY <1>1
  <2>2. Len(<<>>) = 0
    BY EmptySeq
  <2> QED BY <2>1, <2>2, Zenon
<1>3. /\ i \in 1..Len(sent) /\ m \in Messages
      /\ \A k \in 1..Len(Bytestream) :
           k <= Length(m) => Bytestream[k] = Byte(i, m, k)
  BY <1>2, AtHeader
<1>4. H \in Nat /\ H >= 1 /\ Length(m) \in Nat /\ Length(m) >= H + 1
  <2>1. m \in Messages
    BY <1>3
  <2> HIDE DEF m
  <2> QED BY <2>1, MessageFacts
<1>5. b <= H
  <2>1. buf # <<>> => b <= H
    BY DEF IInv, LineInv
  <2>2. buf = <<>> => b = 0
    BY EmptySeq
  <2> QED BY <2>1, <2>2, <1>4
<1>6. Len(chunk) = n /\ \A k \in 1..n : chunk[k] = stream[k]
  BY <1>1
<1>7. \A k \in 1..n : b + k <= H + 1 => chunk[k] = Byte(i, m, b + k)
  <2> TAKE k \in 1..n
  <2> HAVE b + k <= H + 1
  <2>1. k \in 1..Len(stream) /\ b + k \in 1..Len(Bytestream)
        /\ b + k <= Length(m)
    BY <1>1, <1>4
  <2> QED BY <2>1, <1>1, <1>3, <1>6
<1> HIDE DEF i, m, b
<1>8. \A k \in 1..n : b + k <= H => chunk[k][2] = "header"
  <2> TAKE k \in 1..n
  <2> HAVE b + k <= H
  <2>1. chunk[k] = Byte(i, m, b + k)
    BY <1>1, <1>4, <1>7
  <2>2. Byte(i, m, b + k) = <<i, "header", b + k>>
    BY DEF Byte
  <2> QED BY <2>1, <2>2
<1>9. \A k \in 1..n : b + k = H + 1 => chunk[k][2] = "newline"
  <2> TAKE k \in 1..n
  <2> HAVE b + k = H + 1
  <2>3. b + k <= H + 1
    <3>1. H + 1 \in Nat
      BY <1>4
    <3> HIDE DEF H
    <3> QED BY <3>1
  <2>1. chunk[k] = Byte(i, m, H + 1)
    BY <2>3, <1>7
  <2>2. Byte(i, m, H + 1) = <<i, "newline", 1>>
    BY <1>4 DEF Byte, Newline
  <2> QED BY <2>1, <2>2
<1> DEFINE places == Newlines(chunk)
<1>10. places = {k \in 1..n : chunk[k][2] = "newline"}
  BY <1>6 DEF Newlines
<1> HIDE DEF H, places
<1>11. CASE b + n <= H
  <2>1. \A k \in 1..n : chunk[k][2] = "header"
    BY <1>1, <1>4, <1>8, <1>11
  <2>2. places = {}
    BY <2>1, <1>10
  <2>3. UpToNewline(chunk) = SubSeq(stream, 1, n)
    BY <2>2 DEF UpToNewline, places
  <2>4. n \in 1..n
    BY <1>1
  <2> QED BY <2>2, <2>3, <2>4, <1>3, <1>5, <1>11 DEF places, H, m, i, b
<1>12. CASE ~(b + n <= H)
  <2> DEFINE k0 == H + 1 - b
  <2>1. k0 \in 1..n /\ b + k0 = H + 1
    BY <1>1, <1>4, <1>5, <1>12
  <2>2. k0 \in places
    BY <2>1, <1>9, <1>10
  <2>3. \A k \in places : k0 <= k
    <3> SUFFICES ASSUME NEW k \in places, ~(k0 <= k) PROVE FALSE
      OBVIOUS
    <3>1. k \in 1..n /\ chunk[k][2] = "newline"
      BY <1>10
    <3>2. b + k <= H
      BY <3>1, <1>1, <1>4, <1>5
    <3> QED BY <3>1, <3>2, <1>8
  <2> HIDE DEF k0
  <2>4. First(places) = k0
    <3>1. \A k \in places : k \in 1..n
      BY <1>10
    <3>2. First(places) \in places /\ \A k \in places : First(places) <= k
      BY <2>2, <2>3 DEF First
    <3> DEFINE k1 == First(places)
    <3>3. k1 \in 1..n /\ k1 <= k0 /\ k0 <= k1
      BY <2>2, <2>3, <3>1, <3>2
    <3> HIDE DEF k1
    <3>4. k1 = k0
      BY <2>1, <3>3
    <3> QED BY <3>4 DEF k1
  <2>5. UpToNewline(chunk) = SubSeq(chunk, 1, k0)
    BY <2>2, <2>4 DEF UpToNewline, places
  <2>6. SubSeq(chunk, 1, k0) = SubSeq(stream, 1, k0)
    BY <2>1, <1>1
  <2> QED BY <2>1, <2>2, <2>5, <2>6, <1>3, <1>5 DEF places, H, m, i, b
<1> QED BY <1>11, <1>12

\* A part of the header line is read.
LEMMA ReadHeaderStep ==
  ASSUME IInv, ReadHeader
  PROVE  IInv'
<1>1. /\ stage = "header" /\ Len(buf) <= MaxHeader
      /\ UNCHANGED <<sent, left, closed, at, merged, got>>
  BY DEF ReadHeader, Reading, HeaderRoom, writerVars
<1>2. PICK n \in 1..ChunkSize :
        /\ n <= Len(stream)
        /\ Take(UpToNewline(SubSeq(stream, 1, n)))
        /\ stage' = IF Newlines(SubSeq(stream, 1, n)) = {} THEN "header"
                                                           ELSE "parse"
  BY DEF ReadHeader, Available
<1> DEFINE chunk == SubSeq(stream, 1, n)
<1> DEFINE m == sent[Len(got) + 1]
<1>3. /\ n \in 1..Len(stream) /\ n \in Nat /\ n <= ChunkSize
      /\ ChunkSize \in Nat /\ MaxHeader \in Nat /\ Len(buf) \in Nat
  BY <1>2, StreamFacts, WireAssumption DEF IInv
<1>4. /\ m \in Messages /\ Len(buf) <= m.header
      /\ \E j \in 1..n :
           /\ UpToNewline(chunk) = SubSeq(stream, 1, j)
           /\ IF Newlines(chunk) = {} THEN Len(buf) + j <= m.header
                                      ELSE Len(buf) + j = m.header + 1
  BY <1>1, <1>3, TakenOfLine
<1>5. PICK j \in 1..n :
        /\ UpToNewline(chunk) = SubSeq(stream, 1, j)
        /\ IF Newlines(chunk) = {} THEN Len(buf) + j <= m.header
                                   ELSE Len(buf) + j = m.header + 1
  BY <1>4
<1>6. Take(SubSeq(stream, 1, j)) /\ j \in 1..Len(stream)
  <2>1. Take(UpToNewline(chunk))
    BY <1>2
  <2>2. Take(SubSeq(stream, 1, j))
    BY <2>1, <1>5, Zenon
  <2>3. Len(stream) \in Nat
    BY StreamFacts DEF IInv
  <2>4. j \in 1..Len(stream)
    BY <1>3, <2>3
  <2> QED BY <2>2, <2>4
<1>7. /\ Bytestream' = Bytestream
      /\ buf' \in Seq(ByteSet) /\ stream' \in Seq(ByteSet)
      /\ Len(buf') = Len(buf) + j /\ Len(stream') <= PipeSize
      /\ buf' # <<>>
  BY <1>1, <1>6, TakeStep
<1>8. \/ stage' = "header" /\ Len(buf') <= m.header
      \/ stage' = "parse" /\ Len(buf') = m.header + 1
  BY <1>2, <1>5, <1>7
<1> HIDE DEF chunk
<1>9. m.header \in Nat
  BY <1>4, MessageFacts
<1>10. m' = m
  BY <1>1
<1> HIDE DEF m
<1>11. Shapes'
  <2>1. Len(buf') <= MaxHeader + ChunkSize
    BY <1>1, <1>3, <1>5, <1>7
  <2>2. at = 0 /\ merged = EmptyObject
    BY <1>1 DEF IInv, Shapes
  <2> QED BY <2>1, <2>2, <1>1, <1>7, <1>8 DEF IInv, Shapes
<1>12. Framed'
  <2>1. Awaited' = Awaited
    BY <1>1, <1>8 DEF Awaited
  <2> QED BY <2>1, <1>1, <1>7 DEF IInv, Framed
<1>13. LineInv'
  <2>1. /\ Len(buf') <= m.header + 1
        /\ stage' = "header" => Len(buf') <= m.header
        /\ stage' = "parse" => Len(buf') = m.header + 1
    BY <1>8, <1>9
  <2>2. m = (sent[Len(got) + 1])'
    BY <1>10 DEF m
  <2> QED BY <2>1, <2>2, <1>7 DEF LineInv
<1>14. SegmentInv'
  BY <1>8 DEF SegmentInv
<1> QED BY <1>11, <1>12, <1>13, <1>14 DEF IInv

\* The stream ends, and with it the line.
LEMMA ReadHeaderEndsStep ==
  ASSUME IInv, ReadHeaderEnds
  PROVE  IInv'
<1>1. CASE buf = <<>>
  <2>1. UNCHANGED <<writerVars, stream, readerVars, got>>
    BY <1>1 DEF ReadHeaderEnds, Stop
  <2> QED BY <2>1, StopKeeps
<1>2. CASE buf # <<>>
  <2>1. /\ stage = "header" /\ stream = <<>> /\ closed /\ stage' = "parse"
        /\ UNCHANGED <<sent, left, closed, stream, buf, at, merged, got>>
    BY <1>2 DEF ReadHeaderEnds, Reading, writerVars
  <2>2. Bytestream' = Bytestream /\ Awaited' = Awaited
    BY <2>1 DEF Bytestream, Awaited
  <2>3. Shapes'
    BY <2>1 DEF IInv, Shapes
  <2>4. Framed'
    BY <2>1, <2>2 DEF IInv, Framed
  <2>5. LineInv'
    BY <2>1, <1>2 DEF IInv, LineInv
  <2>6. SegmentInv'
    BY <2>1 DEF SegmentInv
  <2> QED BY <2>3, <2>4, <2>5, <2>6 DEF IInv
<1> QED BY <1>1, <1>2

\* What was read is let go.
LEMMA LetGo ==
  ASSUME IInv, buf # <<>>, buf' = <<>>, UNCHANGED <<sent, left, stream, closed>>,
         NEW i \in 1..Len(sent), NEW p \in 1..Length(sent[i]),
         Bytestream[Len(buf)] = ByteOf(sent, i, p)
  PROVE  Framing(Bytestream', Place(sent, i, p + 1), sent, closed)
<1> DEFINE q == Bytestream
<1>1. /\ buf \in Seq(ByteSet) /\ stream \in Seq(ByteSet)
         /\ left \in Seq(ByteSet)
      /\ sent \in Seq(Messages) /\ closed \in BOOLEAN
  BY DEF IInv, Shapes
<1>2. /\ q \in Seq(ByteSet) /\ Len(buf) \in Nat /\ Len(q) \in Nat
      /\ Len(buf) <= Len(q)
  BY StreamFacts DEF IInv
<1>3. Len(buf) \in 1..Len(q)
  <2>1. Len(buf) # 0
    BY <1>1
  <2> QED BY <2>1, <1>2
<1>4. Framing(q, Awaited, sent, closed)
  BY DEF IInv, Framed
<1>5. Bytestream' = (<<>> \o stream) \o left
  BY DEF Bytestream
<1>6. q = (buf \o stream) \o left
  BY DEF Bytestream
<1> HIDE DEF q
<1>7. (<<>> \o stream) \o left = SubSeq(q, Len(buf) + 1, Len(q))
  BY <1>1, <1>6, BytesGo, SMTT(30)
<1>8. q[Len(buf)] = ByteOf(sent, i, p)
  BY DEF q
<1>9. Framing(SubSeq(q, Len(buf) + 1, Len(q)), Place(sent, i, p + 1), sent, closed)
  BY <1>1, <1>2, <1>3, <1>4, <1>8, StepOver
<1> QED BY <1>5, <1>7, <1>9, Zenon

\* The header line that is parsed is one of the next message.
LEMMA LineIsNext ==
  ASSUME IInv, stage = "parse"
  PROVE  LET i == Len(got) + 1
             m == sent[i]
         IN  /\ i \in 1..Len(sent) /\ m \in Messages /\ buf # <<>>
             /\ Len(buf) <= m.header + 1
             /\ buf[1][1] = i
             /\ Bytestream[Len(buf)] = ByteOf(sent, i, Len(buf))
             /\ Len(buf) \in 1..Length(m)
             /\ Len(buf) = m.header + 1 \/ (closed /\ stream = <<>>)
<1> DEFINE i == Len(got) + 1
<1> DEFINE m == sent[i]
<1>1. /\ buf # <<>> /\ Len(buf) <= m.header + 1
      /\ Len(buf) = m.header + 1 \/ (closed /\ stream = <<>>)
  BY DEF IInv, LineInv
<1>2. /\ buf \in Seq(ByteSet) /\ Len(buf) \in Nat /\ Len(Bytestream) \in Nat
      /\ Len(buf) <= Len(Bytestream)
      /\ \A k \in 1..Len(buf) : Bytestream[k] = buf[k]
  BY StreamFacts DEF IInv, Shapes
<1>3. Len(buf) # 0
  BY <1>1, <1>2
<1>4. Bytestream # <<>>
  <2>1. Len(Bytestream) # 0
    BY <1>2, <1>3
  <2>2. Len(<<>>) = 0
    BY EmptySeq
  <2> QED BY <2>1, <2>2, Zenon
<1>5. /\ i \in 1..Len(sent) /\ m \in Messages
      /\ \A k \in 1..Len(Bytestream) :
           k <= Length(m) => Bytestream[k] = Byte(i, m, k)
  BY <1>4, AtHeader
<1>6. m.header \in Nat /\ Length(m) \in Nat /\ Length(m) >= m.header + 1
  <2>1. m \in Messages
    BY <1>5
  <2> HIDE DEF m
  <2> QED BY <2>1, MessageFacts
<1>7. Len(buf) \in 1..Length(m) /\ 1 \in 1..Len(buf) /\ 1 <= Length(m)
      /\ 1 \in 1..Len(Bytestream) /\ Len(buf) \in 1..Len(Bytestream)
  BY <1>1, <1>2, <1>3, <1>6
<1> HIDE DEF i
<1>8. buf[1] = Byte(i, m, 1)
  BY <1>2, <1>5, <1>7
<1>9. buf[1][1] = i
  BY <1>8, ByteNames
<1>10. Bytestream[Len(buf)] = Byte(i, m, Len(buf))
  BY <1>5, <1>7
<1> QED BY <1>1, <1>5, <1>7, <1>9, <1>10 DEF i, m, ByteOf

\* A header is parsed.
LEMMA ParseHeaderStep ==
  ASSUME IInv, ParseHeader
  PROVE  IInv'
<1> DEFINE i == Len(got) + 1
<1> DEFINE m == sent[i]
<1> DEFINE b == Len(buf)
<1>1. stage = "parse" /\ b <= MaxHeader
  BY DEF ParseHeader, Reading
<1>2. /\ i \in 1..Len(sent) /\ m \in Messages /\ buf # <<>>
      /\ b <= m.header + 1 /\ buf[1][1] = i
      /\ Bytestream[b] = ByteOf(sent, i, b) /\ b \in 1..Length(m)
      /\ b = m.header + 1 \/ (closed /\ stream = <<>>)
  BY <1>1, LineIsNext
<1>3. CASE ~IsHeader(i) \/ m.inline = Misfit
  <2>1. UNCHANGED <<writerVars, stream, readerVars, got>>
    BY <1>2, <1>3 DEF ParseHeader, Stop
  <2> QED BY <2>1, StopKeeps
<1>4. CASE IsHeader(i) /\ m.inline # Misfit
  <2>1. /\ stage' = "data" /\ buf' = <<>> /\ at' = i
        /\ merged' = IF m.inline = Nothing THEN EmptyObject ELSE m.inline
        /\ UNCHANGED <<sent, left, closed, stream, got>>
    BY <1>2, <1>4 DEF ParseHeader, NextStage, writerVars
  <2>2. /\ m.header \in Nat /\ m.header >= 1 /\ DataLength(m.data) \in Nat
        /\ Length(m) \in Nat /\ Length(m) >= m.header + 1
        /\ i \in Nat /\ b \in Nat /\ MaxHeader \in Nat /\ Len(sent) \in Nat
    <3>1. /\ m.header \in Nat /\ m.header >= 1 /\ DataLength(m.data) \in Nat
          /\ Length(m) \in Nat /\ Length(m) >= m.header + 1
      <4>1. m \in Messages
        BY <1>2
      <4> HIDE DEF m
      <4> QED BY <4>1, MessageFacts
    <3>2. i \in Nat /\ b \in Nat /\ Len(sent) \in Nat
      BY StreamFacts DEF IInv
    <3>3. MaxHeader \in Nat
      BY WireAssumption
    <3> QED BY <3>1, <3>2, <3>3
  <2>3. b = m.header \/ b = m.header + 1
    <3>1. /\ HeaderBytes(i, m) \in Seq(ByteSet)
          /\ Len(HeaderBytes(i, m)) = m.header
      <4>1. i \in Nat /\ m \in Messages
        BY <1>2, <2>2
      <4> HIDE DEF i, m
      <4> QED BY <4>1, PartsFacts
    <3>2. CASE buf = HeaderBytes(i, m)
      BY <3>1, <3>2
    <3>3. CASE buf = Append(HeaderBytes(i, m), Newline(i))
      BY <3>1, <3>3
    <3> QED BY <3>2, <3>3, <1>4 DEF IsHeader
  <2>4. Framing(Bytestream', Place(sent, i, b + 1), sent, closed)
    BY <1>2, <2>1, LetGo
  <2> DEFINE next == Place(sent, i, m.header + 2)
  <2>5. Framing(Bytestream', next, sent, closed)
    <3>1. CASE b = m.header + 1
      <4>1. b + 1 = m.header + 2
        BY <3>1, <2>2
      <4> QED BY <4>1, <2>4
    <3>2. CASE b # m.header + 1
      <4>1. closed /\ stream = <<>> /\ left = <<>> /\ b = m.header
        BY <3>2, <1>2, <2>3 DEF IInv, Framed
      <4>2. Bytestream' = <<>>
        <5>1. <<>> \in Seq(ByteSet)
          BY EmptySeq
        <5>2. <<>> \o <<>> = <<>>
          BY <5>1, ConcatEmptySeq
        <5>3. Bytestream' = (<<>> \o <<>>) \o <<>>
          BY <4>1, <2>1, Zenon DEF Bytestream
        <5> QED BY <5>2, <5>3
      <4>3. Place(sent, i, b + 1) = <<i, b + 1>>
        BY <4>1, <2>2 DEF Place
      <4>4. i >= Len(sent)
        BY <4>1, <4>2, <4>3, <2>4 DEF Framing, ReachesTheLast
      <4>5. next[1] >= Len(sent)
        BY <4>4, <2>2 DEF Place
      <4>6. InOrder(<<>>, sent)
        BY <4>2, <2>4 DEF Framing
      <4> HIDE DEF next
      <4> QED BY <4>1, <4>2, <4>5, <4>6 DEF Framing, ReachesTheLast
    <3> QED BY <3>1, <3>2
  <2> HIDE DEF i, m
  <2>6. Awaited' = Place(sent, i, m.header + 2)
    BY <2>1 DEF Awaited, m
  <2>7. Shapes'
    <3>1. <<>> \in Seq(ByteSet)
      BY EmptySeq
    <3>2. buf' \in Seq(ByteSet)
      BY <3>1, <2>1
    <3> QED BY <3>2, <2>1 DEF IInv, Shapes, i
  <2>8. Framed'
    <3>1. Framing(Bytestream, Awaited, sent, closed)'
      BY <2>1, <2>5, <2>6
    <3> QED BY <3>1, <2>1 DEF IInv, Framed
  <2>9. LineInv'
    BY <2>1 DEF LineInv
  <2>10. SegmentInv'
    <3>1. m' = m /\ m = sent'[at']
      BY <2>1 DEF m, i
    <3>2. m.type # Misfit
      BY <1>4 DEF IsHeader, m
    <3>3. m.header <= MaxHeader /\ (Short(m) \/ closed)
      BY <1>1, <1>2, <2>2, <2>3 DEF Short
    <3>4. Announced' = DataLength(m.data)
      BY <2>1, <3>1 DEF Announced
    <3>5. Len(buf') = 0
      BY <2>1, EmptySeq
    <3>6. Len(buf') <= Announced'
      BY <3>4, <3>5, <2>2
    <3>7. at' = Len(got') + 1 /\ at' <= Len(sent')
      BY <2>1, <1>2, <2>2 DEF i
    <3>8. /\ m.inline # Misfit /\ closed' = closed /\ buf' = <<>>
          /\ stage' = "data"
          /\ merged' = IF m.inline = Nothing THEN EmptyObject ELSE m.inline
      BY <2>1, <1>4
    <3>9. Short(m)' <=> Short(m)
      BY <3>1 DEF Short
    <3> HIDE DEF m
    <3> QED BY <3>1, <3>2, <3>3, <3>6, <3>7, <3>8, <3>9 DEF SegmentInv, Short
  <2> QED BY <2>7, <2>8, <2>9, <2>10 DEF IInv
<1> QED BY <1>3, <1>4

\* A part of a segment is read.
LEMMA ReadExactStep ==
  ASSUME IInv, ReadExact
  PROVE  IInv'
<1>1. /\ stage \in {"data", "payload"} /\ Announced <= Limit
      /\ UNCHANGED <<sent, left, closed, stage, at, merged, got>>
  BY DEF ReadExact, InSegment, writerVars
<1>2. PICK n \in 1..ChunkSize :
        /\ n <= Len(stream)
        /\ Len(buf) + Len(SubSeq(stream, 1, n)) <= Announced
        /\ Take(SubSeq(stream, 1, n))
  BY DEF ReadExact, Available
<1>3. n \in 1..Len(stream) /\ stream \in Seq(ByteSet) /\ n \in Nat
  BY <1>2, StreamFacts, WireAssumption DEF IInv, Shapes
<1>4. /\ Bytestream' = Bytestream
      /\ buf' \in Seq(ByteSet) /\ stream' \in Seq(ByteSet)
      /\ Len(buf') = Len(buf) + n /\ Len(stream') <= PipeSize
      /\ buf' # <<>>
  BY <1>1, <1>2, <1>3, TakeStep
<1>5. Len(buf') <= Announced
  <2>1. Len(SubSeq(stream, 1, n)) = n
    BY <1>3
  <2> QED BY <2>1, <1>2, <1>4
<1>6. Shapes'
  BY <1>1, <1>4 DEF IInv, Shapes
<1>7. Framed'
  <2>1. Awaited' = Awaited
    BY <1>1 DEF Awaited
  <2> QED BY <2>1, <1>1, <1>4 DEF IInv, Framed
<1>8. LineInv'
  BY <1>1 DEF LineInv
<1>9. SegmentInv'
  <2>1. Announced' = Announced /\ Limit' = Limit
    BY <1>1 DEF Announced, Limit
  <2> QED BY <2>1, <1>1, <1>5 DEF IInv, SegmentInv
<1> QED BY <1>6, <1>7, <1>8, <1>9 DEF IInv

\* What the header says and then the segment is what the message says.
LEMMA SaidMerged ==
  ASSUME NEW m \in Messages, Misfit \notin {m.inline, m.data},
         NEW inline, inline = IF m.inline = Nothing THEN EmptyObject ELSE m.inline
  PROVE  Said(m) = IF m.data = Nothing THEN inline ELSE Merge(inline, m.data)
<1>1. m.inline # Nothing => IsJsonObject(m.inline)
  BY MessagesAssumption
<1>2. inline = [f \in DOMAIN inline |-> inline[f]]
  <2>1. EmptyObject = [f \in DOMAIN EmptyObject |-> EmptyObject[f]]
    BY DEF EmptyObject
  <2> QED BY <2>1, <1>1 DEF IsJsonObject
<1> DEFINE external == IF m.data = Nothing THEN EmptyObject ELSE m.data
<1>3. Said(m) = [f \in DOMAIN inline \cup DOMAIN external |->
                   IF f \in DOMAIN external THEN external[f] ELSE inline[f]]
  BY DEF Said
<1>4. CASE m.data = Nothing
  <2>1. DOMAIN external = {}
    BY <1>4 DEF EmptyObject
  <2> HIDE DEF external
  <2>2. Said(m) = [f \in DOMAIN inline |-> inline[f]]
    BY <2>1, <1>3
  <2> QED BY <2>2, <1>2, <1>4
<1>5. CASE m.data # Nothing
  BY <1>3, <1>5 DEF Merge
<1> QED BY <1>4, <1>5

\* The segment is complete and not empty: its last byte is the last one read.
LEMMA SegmentRead ==
  ASSUME IInv, stage \in {"data", "payload"}, Len(buf) = Announced, Announced > 0,
         NEW p, p = IF stage = "data"
                      THEN sent[at].header + 2
                      ELSE sent[at].header + 2 + DataLength(sent[at].data)
  PROVE  /\ buf # <<>> /\ at \in 1..Len(sent) /\ sent[at] \in Messages
         /\ p + Announced - 1 \in 1..Length(sent[at])
         /\ Bytestream[Len(buf)] = ByteOf(sent, at, p + Announced - 1)
         /\ \A k \in 1..Announced : buf[k] = Byte(at, sent[at], p + k - 1)
<1>1. /\ Len(buf) \in Nat /\ Len(Bytestream) \in Nat
         /\ Len(buf) <= Len(Bytestream)
      /\ \A k \in 1..Len(buf) : Bytestream[k] = buf[k]
      /\ Len(got) \in Nat /\ Len(sent) \in Nat
  BY StreamFacts DEF IInv
<1>2. Len(<<>>) = 0
  BY EmptySeq
<1>3. Bytestream # <<>> /\ buf # <<>>
  <2>1. Len(Bytestream) # 0 /\ Len(buf) # 0
    BY <1>1
  <2> QED BY <2>1, <1>2, Zenon
<1>4. /\ sent[at] \in Messages /\ p \in Nat
      /\ p + Announced - 1 <= Length(sent[at])
      /\ \A k \in 1..Len(Bytestream) :
           k <= Announced => Bytestream[k] = Byte(at, sent[at], p + k - 1)
  BY <1>3, AtSegment
<1>5. at \in 1..Len(sent)
  BY <1>1 DEF IInv, SegmentInv
<1>6. /\ sent[at].header \in Nat /\ sent[at].header >= 1
      /\ DataLength(sent[at].data) \in Nat /\ Length(sent[at]) \in Nat
  BY <1>4, MessageFacts
<1>7. p >= 1
  BY <1>6
<1>8. p + Announced - 1 \in 1..Length(sent[at])
      /\ Len(buf) \in 1..Len(Bytestream)
  BY <1>1, <1>4, <1>6, <1>7, SMTT(30)
<1>9. Bytestream[Len(buf)] = Byte(at, sent[at], p + Announced - 1)
  BY <1>4, <1>8
<1>10. \A k \in 1..Announced : buf[k] = Byte(at, sent[at], p + k - 1)
  <2> TAKE k \in 1..Announced
  <2>1. k \in 1..Len(buf) /\ k \in 1..Len(Bytestream) /\ k <= Announced
    BY <1>1
  <2> QED BY <2>1, <1>1, <1>4
<1> QED BY <1>3, <1>4, <1>5, <1>8, <1>9, <1>10 DEF ByteOf

\* A segment that is empty leaves no trace.
LEMMA NothingLetGo ==
  ASSUME IInv, Len(buf) = 0, buf' = <<>>, UNCHANGED <<stream, left>>
  PROVE  Bytestream' = Bytestream
<1>1. buf \in Seq(ByteSet)
  BY DEF IInv, Shapes
<1>2. buf = <<>>
  BY <1>1
<1> QED BY <1>2, Zenon DEF Bytestream

\* The data segment is read, and goes into the event's data.
LEMMA ParseDataStep ==
  ASSUME IInv, ParseData
  PROVE  IInv'
<1> DEFINE m == sent[at]
<1> DEFINE D == DataLength(m.data)
<1>1. /\ stage = "data" /\ Announced <= Limit /\ Len(buf) = Announced
      /\ Announced = D /\ Limit = MaxData
  BY DEF ParseData, Reading, Announced, Limit
<1>2. /\ at = Len(got) + 1 /\ at <= Len(sent)
      /\ m.type # Misfit /\ m.inline # Misfit
      /\ m.header <= MaxHeader /\ (Short(m) \/ closed)
      /\ merged = IF m.inline = Nothing THEN EmptyObject ELSE m.inline
  BY <1>1 DEF IInv, SegmentInv
<1>3. at \in 1..Len(sent) /\ m \in Messages
  <2>1. Len(got) \in Nat /\ Len(sent) \in Nat /\ sent \in Seq(Messages)
    BY StreamFacts DEF IInv, Shapes
  <2> QED BY <2>1, <1>2
<1>4. /\ m.header \in Nat /\ m.header >= 1 /\ D \in Nat /\ Length(m) \in Nat
      /\ m.data # Nothing => D >= 1
      /\ PayloadLength(m.payload) \in Nat
      /\ Length(m) = m.header + 1 + D + PayloadLength(m.payload)
  BY <1>3, MessageFacts
<1> DEFINE next == Place(sent, at, m.header + 2 + D)
<1>5. CASE m.data # Nothing /\ (buf # DataBytes(at, m) \/ ~IsObject(m.data))
  <2>1. UNCHANGED <<writerVars, stream, readerVars, got>>
    BY <1>5 DEF ParseData, Stop
  <2> QED BY <2>1, StopKeeps
<1>6. CASE m.data = Nothing \/ (buf = DataBytes(at, m) /\ IsObject(m.data))
  <2>1. /\ stage' = "payload" /\ buf' = <<>>
        /\ UNCHANGED <<sent, left, closed, stream, at, got>>
        /\ merged' = IF m.data = Nothing THEN merged ELSE Merge(merged, m.data)
    BY <1>6 DEF ParseData, NextStage, writerVars
  <2>2. m.data # Misfit
    BY <1>6, WireAssumption DEF IsObject
  <2>3. merged' = Said(m)
    BY <2>1, <2>2, <1>2, <1>3, SaidMerged
  <2>4. Framing(Bytestream', next, sent, closed)
    <3>1. CASE D = 0
      <4>1. Bytestream' = Bytestream
        BY <3>1, <2>1, <1>1, NothingLetGo
      <4>2. m.header + 2 + D = m.header + 2
        BY <3>1, <1>4
      <4>3. Awaited = next
        BY <4>2, <1>1 DEF Awaited
      <4> HIDE DEF next
      <4> QED BY <4>1, <4>3 DEF IInv, Framed
    <3>2. CASE D # 0
      <4> DEFINE p == m.header + 2
      <4>1. Announced > 0
        BY <3>2, <1>1, <1>4
      <4>2. /\ buf # <<>> /\ p + D - 1 \in 1..Length(m)
            /\ Bytestream[Len(buf)] = ByteOf(sent, at, p + D - 1)
        BY <4>1, <1>1, SegmentRead
      <4>3. Framing(Bytestream', Place(sent, at, (p + D - 1) + 1), sent, closed)
        BY <4>2, <2>1, <1>3, LetGo
      <4>4. (p + D - 1) + 1 = m.header + 2 + D
        BY <1>4
      <4> QED BY <4>3, <4>4
    <3> QED BY <3>1, <3>2
  <2> HIDE DEF m
  <2>5. Awaited' = next
    BY <2>1 DEF Awaited, m
  <2> HIDE DEF next
  <2>6. Shapes'
    <3>1. <<>> \in Seq(ByteSet)
      BY EmptySeq
    <3>2. buf' \in Seq(ByteSet)
      BY <3>1, <2>1
    <3> QED BY <3>2, <2>1, <1>1 DEF IInv, Shapes
  <2>7. Framed'
    <3>1. Framing(Bytestream, Awaited, sent, closed)'
      BY <2>1, <2>4, <2>5
    <3> QED BY <3>1, <2>1 DEF IInv, Framed
  <2>8. LineInv'
    BY <2>1 DEF LineInv
  <2>9. SegmentInv'
    <3>1. m' = m /\ m = sent'[at']
      BY <2>1 DEF m
    <3>2. Announced' = PayloadLength(m.payload)
      BY <2>1, <3>1 DEF Announced
    <3>3. Len(buf') = 0
      BY <2>1, EmptySeq
    <3>4. Len(buf') <= Announced' /\ D <= MaxData
      BY <3>2, <3>3, <1>1, <1>4
    <3> QED BY <3>1, <3>4, <2>1, <2>2, <2>3, <1>2 DEF SegmentInv, Short
  <2> QED BY <2>6, <2>7, <2>8, <2>9 DEF IInv
<1> QED BY <1>5, <1>6

\* A message that was meant is one of this program's.
LEMMA MeantIsOwn ==
  ASSUME NEW m \in Messages, m.event # Nothing
  PROVE  m.event \in Events /\ m = MessageOf(m.event)
<1>1. m \notin Foreign
  BY EventsAssumption
<1>2. PICK e \in Events : m = MessageOf(e)
  BY <1>1 DEF Messages
<1>3. m.event = e
  BY <1>2 DEF MessageOf
<1> QED BY <1>2, <1>3

\* What read_event makes of a message that was read to its end: no event only
\* where the message stands for none, and otherwise the one it stands for.
LEMMA MakesTheMeaning ==
  ASSUME IInv, stage = "payload", Len(buf) = Announced,
         NEW value, value = IF merged = EmptyObject THEN Null ELSE merged,
         NEW payload, payload = IF Announced = 0 THEN Nothing ELSE buf
  PROVE  LET m == sent[at]
         IN  /\ IsEvent(m.type, value) <=> IsEvent(m.type, Said(m))
             /\ m.event # Nothing => IsEvent(m.type, value)
             /\ FromWire(m.type, value, payload) = Meaning(at, m)
<1> DEFINE m == sent[at]
<1> DEFINE P == PayloadLength(m.payload)
<1>1. /\ at = Len(got) + 1 /\ at <= Len(sent) /\ m.inline # Misfit
      /\ m.data # Misfit /\ merged = Said(m) /\ Announced = P
  BY DEF IInv, SegmentInv, Announced
<1>2. /\ at \in Nat /\ at \in 1..Len(sent) /\ m \in Messages
      /\ buf \in Seq(ByteSet)
  <2>1. Len(got) \in Nat /\ Len(sent) \in Nat /\ sent \in Seq(Messages)
    BY StreamFacts DEF IInv, Shapes
  <2>2. buf \in Seq(ByteSet)
    BY DEF IInv, Shapes
  <2> QED BY <2>1, <2>2, <1>1
<1>3. P \in Nat /\ m.header \in Nat /\ m.header >= 1
      /\ DataLength(m.data) \in Nat
  BY <1>2, MessageFacts
<1>4. payload = IF P = 0 THEN Nothing ELSE PayloadBytes(at, m)
  <2>1. CASE P = 0
    BY <2>1, <1>1
  <2>2. CASE P # 0
    <3> DEFINE p == m.header + 2 + DataLength(m.data)
    <3>1. Announced > 0
      BY <2>2, <1>1, <1>3
    <3>2. \A k \in 1..P : buf[k] = Byte(at, m, p + k - 1)
      BY <3>1, <1>1, SegmentRead
    <3>3. /\ PayloadBytes(at, m) \in Seq(ByteSet)
          /\ Len(PayloadBytes(at, m)) = P
          /\ \A k \in 1..P : PayloadBytes(at, m)[k] = <<at, "payload", k>>
      BY <1>2, PartsFacts
    <3>8. \A k \in Nat \ {0} : Byte(at, m, p + k - 1) = <<at, "payload", k>>
      BY <1>2, BytesOfParts
    <3>4. \A k \in 1..P : buf[k] = <<at, "payload", k>>
      <4> TAKE k \in 1..P
      <4>1. k \in Nat \ {0}
        BY <1>3
      <4>2. buf[k] = Byte(at, m, p + k - 1)
        BY <3>2
      <4> HIDE DEF p
      <4> QED BY <4>1, <4>2, <3>8
    <3> DEFINE bytes == PayloadBytes(at, m)
    <3> HIDE DEF P, bytes
    <3>5. Len(buf) = Len(bytes) /\ \A k \in 1..Len(buf) : buf[k] = bytes[k]
      BY <3>3, <3>4, <1>1 DEF bytes
    <3>6. bytes \in Seq(ByteSet)
      BY <3>3 DEF bytes
    <3>7. buf = bytes
      BY <3>5, <3>6, <1>2, SeqEqual
    <3> QED BY <2>2, <3>7, <1>1 DEF bytes
  <2> QED BY <2>1, <2>2
<1>5. /\ IsEvent(m.type, value) <=> IsEvent(m.type, Said(m))
      /\ FromWire(m.type, value, payload) = FromWire(m.type, Said(m), payload)
  <2>1. value = IF Said(m) = EmptyObject THEN Null ELSE Said(m)
    BY <1>1
  <2>2. Misfit \notin {m.inline, m.data}
    BY <1>1
  <2> HIDE DEF m
  <2> QED BY <2>1, <2>2, <1>2, ValueIsSaid
<1>6. CASE m.event # Nothing
  <2>1. m.event \in Events /\ m = MessageOf(m.event)
    BY <1>2, <1>6, MeantIsOwn
  <2>2. /\ IsEvent(m.type, Said(m))
        /\ FromWire(m.type, Said(m), payload) = Normal(at, m.event)
    BY <2>1, <1>2, <1>4, OwnMeaning
  <2>3. Meaning(at, m) = Normal(at, m.event)
    BY <1>6 DEF Meaning
  <2> QED BY <2>2, <2>3, <1>5
<1>7. CASE m.event = Nothing
  <2>1. Meaning(at, m) = FromWire(m.type, Said(m), payload)
    BY <1>4, <1>7 DEF Meaning
  <2> QED BY <2>1, <1>5, <1>7
<1> QED BY <1>6, <1>7

\* An event is made.
LEMMA MakeEventStep ==
  ASSUME IInv, MakeEvent
  PROVE  IInv'
<1> DEFINE m == sent[at]
<1> DEFINE P == PayloadLength(m.payload)
<1> DEFINE value == IF merged = EmptyObject THEN Null ELSE merged
<1> DEFINE payload == IF Announced = 0 THEN Nothing ELSE buf
<1>1. /\ stage = "payload" /\ Len(buf) = Announced /\ Announced = P
  BY DEF MakeEvent, Reading, Announced
<1>2. /\ at = Len(got) + 1 /\ at <= Len(sent)
  BY <1>1 DEF IInv, SegmentInv
<1>3. /\ at \in Nat /\ at \in 1..Len(sent) /\ m \in Messages
      /\ Len(got) \in Nat /\ Len(sent) \in Nat /\ got \in Seq(Meanings)
  <2>1. Len(got) \in Nat /\ Len(sent) \in Nat /\ sent \in Seq(Messages)
    BY StreamFacts DEF IInv, Shapes
  <2>2. got \in Seq(Meanings)
    BY DEF IInv, Shapes
  <2> QED BY <2>1, <2>2, <1>2
<1>4. CASE ~IsEvent(m.type, value)
  <2>1. UNCHANGED <<writerVars, stream, readerVars, got>>
    BY <1>4 DEF MakeEvent, Stop
  <2> QED BY <2>1, StopKeeps
<1>5. CASE IsEvent(m.type, value)
  <2>1. /\ got' = Append(got, FromWire(m.type, value, payload))
        /\ stage' = "header" /\ buf' = <<>> /\ at' = 0 /\ merged' = EmptyObject
        /\ UNCHANGED <<sent, left, closed, stream>>
    BY <1>5 DEF MakeEvent, NextStage, writerVars
  <2>2. FromWire(m.type, value, payload) = Meaning(at, m)
    BY <1>1, MakesTheMeaning
  <2>3. got' = Append(got, Meaning(at, m))
    BY <2>1, <2>2
  <2>4. got' \in Seq(Meanings) /\ Len(got') = at
    <3>1. Meaning(at, m) \in Meanings
      BY <1>3 DEF Meanings
    <3> DEFINE e == Meaning(at, m)
    <3> HIDE DEF e
    <3>2. e \in Meanings /\ got' = Append(got, e)
      BY <2>3, <3>1 DEF e
    <3> QED BY <3>2, <1>2, <1>3
  <2> HIDE DEF value, payload
  <2>5. /\ m.header \in Nat /\ m.header >= 1 /\ DataLength(m.data) \in Nat
        /\ P \in Nat /\ Length(m) \in Nat
        /\ Length(m) = m.header + 1 + DataLength(m.data) + P
    BY <1>3, MessageFacts
  <2>6. Framing(Bytestream', <<at + 1, 1>>, sent, closed)
    <3> DEFINE p == m.header + 2 + DataLength(m.data)
    <3>1. CASE P = 0
      <4>1. Bytestream' = Bytestream
        BY <3>1, <2>1, <1>1, NothingLetGo
      <4>2. Awaited = Place(sent, at, p)
        BY <1>1 DEF Awaited
      <4>3. Awaited = <<at + 1, 1>>
        BY <4>2, <3>1, <2>5 DEF Place
      <4> QED BY <4>1, <4>3 DEF IInv, Framed
    <3>2. CASE P # 0
      <4>1. Announced > 0
        BY <3>2, <1>1, <2>5
      <4>2. /\ buf # <<>> /\ p + P - 1 \in 1..Length(m)
            /\ Bytestream[Len(buf)] = ByteOf(sent, at, p + P - 1)
        BY <4>1, <1>1, SegmentRead
      <4>3. Framing(Bytestream', Place(sent, at, (p + P - 1) + 1), sent, closed)
        BY <4>2, <2>1, <1>3, LetGo
      <4>4. Place(sent, at, (p + P - 1) + 1) = <<at + 1, 1>>
        BY <2>5 DEF Place
      <4> QED BY <4>3, <4>4
    <3> QED BY <3>1, <3>2
  <2>7. Awaited' = <<at + 1, 1>>
    BY <2>1, <2>4 DEF Awaited
  <2>8. Shapes'
    <3>1. <<>> \in Seq(ByteSet) /\ Len(<<>>) = 0
      BY EmptySeq
    <3>2. buf' \in Seq(ByteSet) /\ Len(buf') = 0
      BY <3>1, <2>1
    <3>3. Len(buf') <= MaxHeader + ChunkSize
      BY <3>2, WireAssumption
    <3> QED BY <3>2, <3>3, <2>1, <2>4, <1>2 DEF IInv, Shapes
  <2>9. Framed'
    <3>1. Framing(Bytestream, Awaited, sent, closed)'
      BY <2>1, <2>6, <2>7
    <3> QED BY <3>1, <2>1 DEF IInv, Framed
  <2>10. LineInv'
    BY <2>1 DEF LineInv
  <2>11. SegmentInv'
    BY <2>1 DEF SegmentInv
  <2> QED BY <2>8, <2>9, <2>10, <2>11 DEF IInv
<1> QED BY <1>4, <1>5

\* Every step keeps the invariant.
LEMMA NextIInv ==
  ASSUME IInv, [Next]_vars
  PROVE  IInv'
<1>1. ASSUME NEW e \in Events, Begin(MessageOf(e)) PROVE IInv'
  <2>1. MessageOf(e) \in Messages
    BY DEF Messages
  <2> QED BY <2>1, <1>1, BeginStep
<1>2. ASSUME NEW m \in Foreign, Begin(m) PROVE IInv'
  <2>1. m \in Messages
    BY DEF Messages
  <2> QED BY <2>1, <1>2, BeginStep
<1>3. CASE WriteByte
  BY <1>3, WriteByteStep
<1>4. CASE CloseWriter
  BY <1>4, CloseWriterStep
<1>5. CASE ReadHeader
  BY <1>5, ReadHeaderStep
<1>6. CASE ReadHeaderEnds
  BY <1>6, ReadHeaderEndsStep
<1>7. CASE HeaderTooLong
  BY <1>7, StopKeeps DEF HeaderTooLong, Stop
<1>8. CASE ParseHeader
  BY <1>8, ParseHeaderStep
<1>9. CASE TooLongAnnounced
  BY <1>9, StopKeeps DEF TooLongAnnounced, Stop
<1>10. CASE ReadExact
  BY <1>10, ReadExactStep
<1>11. CASE ReadExactFails
  BY <1>11, StopKeeps DEF ReadExactFails, Stop
<1>12. CASE ParseData
  BY <1>12, ParseDataStep
<1>13. CASE MakeEvent
  BY <1>13, MakeEventStep
<1>14. CASE ReadFails
  BY <1>14, StopKeeps DEF ReadFails, Stop
<1>15. CASE CancelRead
  BY <1>15, StopKeeps DEF CancelRead, Stop
<1>16. CASE UNCHANGED vars
  BY <1>16, StopKeeps DEF vars, writerVars
<1> QED BY <1>1, <1>2, <1>3, <1>4, <1>5, <1>6, <1>7, <1>8, <1>9, <1>10, <1>11,
           <1>12, <1>13, <1>14, <1>15, <1>16
        DEF Next, WriteEvent, ForeignWrites, ReadEvent

\* The framing of the connection, whoever writes and wherever reads are cut.
THEOREM FramingIsKept == Spec => []IInv
<1>1. Init => IInv
  BY InitIInv
<1>2. IInv /\ [Next]_vars => IInv'
  BY NextIInv
<1> QED BY <1>1, <1>2, PTL DEF Spec

\* Nothing that is buffered exceeds a limit by more than one chunk, whatever
\* the peer announces (MAX_HEADER_LINE, MAX_DATA_LENGTH, MAX_PAYLOAD_LENGTH).
THEOREM BuffersAreBounded == Spec => []TypeOK
<1>1. ASSUME IInv PROVE TypeOK
  <2>1. /\ Len(got) \in Nat /\ Len(sent) \in Nat /\ Len(buf) \in Nat
        /\ MaxHeader \in Nat /\ ChunkSize \in Nat
        /\ MaxData \in Nat /\ MaxPayload \in Nat
    BY <1>1, StreamFacts, WireAssumption DEF IInv
  <2>2. /\ sent \in Seq(Messages) /\ Len(got) <= Len(sent)
        /\ Len(stream) <= PipeSize /\ closed \in BOOLEAN
        /\ stage \in {"header", "parse", "data", "payload"}
        /\ at = IF stage \in {"header", "parse"} THEN 0 ELSE Len(got) + 1
    BY <1>1 DEF IInv, Shapes
  <2>3. CASE stage \in {"header", "parse"}
    <3>1. Len(buf) <= MaxHeader + ChunkSize
      BY <1>1, <2>3 DEF IInv, Shapes
    <3> QED BY <3>1, <2>1, <2>2, <2>3 DEF TypeOK
  <2>4. CASE stage \in {"data", "payload"}
    <3>1. /\ at = Len(got) + 1 /\ at <= Len(sent) /\ sent[at] \in Messages
          /\ Len(buf) <= Announced /\ (buf # <<>> => Announced <= Limit)
      BY <1>1, <2>1, <2>2, <2>4 DEF IInv, SegmentInv
    <3>2. Announced \in Nat
      BY <3>1, MessageFacts DEF Announced
    <3>3. Limit = IF stage = "data" THEN MaxData ELSE MaxPayload
      BY DEF Limit
    <3>4. buf = <<>> => Len(buf) = 0
      BY EmptySeq
    <3>5. Len(buf) <= Limit
      BY <3>1, <3>2, <3>3, <3>4, <2>1
    <3> QED BY <3>1, <3>3, <3>5, <2>1, <2>2, <2>4 DEF TypeOK
  <2> QED BY <2>2, <2>3, <2>4
<1> QED BY <1>1, FramingIsKept, PTL

-----------------------------------------------------------------------------
(***************************************************************************)
(* The channel                                                             *)
(***************************************************************************)
\* The data of a message is an object, or there is none, unless it is a misfit.
LEMMA ObjectOrNone ==
  ASSUME NEW m \in Messages, NEW value \in {m.inline, m.data}
  PROVE  IsObject(value) <=> value # Misfit
<1>1. value \in {Nothing, Misfit} \/ IsJsonObject(value)
  BY MessagesAssumption
<1>2. Nothing \notin {Misfit, Null, EmptyList}
  BY WireAssumption
<1> QED BY <1>1, <1>2 DEF IsObject, IsJsonObject

\* This program's messages have a type and no misfits.
LEMMA OwnIsSound ==
  ASSUME NEW m \in Messages, m.event # Nothing
  PROVE  m.type # Misfit /\ m.inline # Misfit /\ m.data # Misfit
<1>1. m.event \in Events /\ m = MessageOf(m.event)
  BY MeantIsOwn
<1>2. LET o == MessageOf(m.event)
      IN  /\ Misfit \notin {o.inline, o.data} /\ o.type = m.event.type
          /\ m.event.type # Misfit
  BY <1>1, OwnSaid
<1> QED BY <1>1, <1>2

\* A line that was read with its newline is the header.
LEMMA WholeLine ==
  ASSUME IInv, stage = "parse", Len(buf) = sent[Len(got) + 1].header + 1
  PROVE  LET i == Len(got) + 1
         IN  buf = Append(HeaderBytes(i, sent[i]), Newline(i))
<1> DEFINE i == Len(got) + 1
<1> DEFINE m == sent[i]
<1> DEFINE H == m.header
<1> DEFINE line == Append(HeaderBytes(i, m), Newline(i))
<1>1. /\ i \in 1..Len(sent) /\ m \in Messages /\ buf # <<>>
      /\ Len(buf) \in 1..Length(m)
  BY LineIsNext
<1>2. /\ buf \in Seq(ByteSet) /\ Len(Bytestream) \in Nat /\ i \in Nat
      /\ Len(buf) \in Nat /\ Len(buf) <= Len(Bytestream)
      /\ \A k \in 1..Len(buf) : Bytestream[k] = buf[k]
  BY StreamFacts, SMTT(30) DEF IInv, Shapes
<1>3. Bytestream # <<>>
  <2>1. Len(Bytestream) # 0
    BY <1>1, <1>2
  <2>2. Len(<<>>) = 0
    BY EmptySeq
  <2> QED BY <2>1, <2>2, Zenon
<1>4. \A k \in 1..Len(Bytestream) :
        k <= Length(m) => Bytestream[k] = Byte(i, m, k)
  BY <1>3, AtHeader
<1>5. H \in Nat /\ Length(m) \in Nat
  <2>1. m \in Messages
    BY <1>1
  <2> HIDE DEF m
  <2> QED BY <2>1, MessageFacts
<1>6. \A k \in 1..H + 1 : buf[k] = Byte(i, m, k)
  <2> TAKE k \in 1..H + 1
  <2>0. Len(buf) = H + 1 /\ Len(buf) <= Length(m)
    BY <1>1, <1>5
  <2> HIDE DEF H
  <2>1. k \in 1..Len(buf) /\ k \in 1..Len(Bytestream) /\ k <= Length(m)
    BY <2>0, <1>2, <1>5
  <2> QED BY <2>1, <1>2, <1>4
<1>7. /\ HeaderBytes(i, m) \in Seq(ByteSet) /\ Len(HeaderBytes(i, m)) = H
      /\ \A k \in 1..H : HeaderBytes(i, m)[k] = <<i, "header", k>>
      /\ Newline(i) \in ByteSet
  <2>1. m \in Messages
    BY <1>1
  <2> HIDE DEF m, i
  <2> QED BY <2>1, <1>2, PartsFacts
<1>8. /\ \A k \in 1..H : Byte(i, m, k) = <<i, "header", k>>
      /\ Byte(i, m, H + 1) = Newline(i)
  <2>1. m \in Messages
    BY <1>1
  <2> HIDE DEF m, i
  <2> QED BY <2>1, BytesOfParts
<1> DEFINE hs == HeaderBytes(i, m)
<1> DEFINE nl == Newline(i)
<1> HIDE DEF i, m, H, hs, nl
<1>9. /\ line \in Seq(ByteSet) /\ Len(line) = H + 1
      /\ \A k \in 1..H : line[k] = hs[k]
      /\ line[H + 1] = nl
  BY <1>5, <1>7 DEF hs, nl
<1>10. \A k \in 1..H + 1 : line[k] = Byte(i, m, k)
  <2> TAKE k \in 1..H + 1
  <2>1. CASE k \in 1..H
    BY <2>1, <1>7, <1>8, <1>9 DEF hs
  <2>2. CASE k = H + 1
    BY <2>2, <1>8, <1>9 DEF nl
  <2>3. k \in 1..H \/ k = H + 1
    BY <1>5
  <2> QED BY <2>1, <2>2, <2>3, Zenon
<1> HIDE DEF line
<1>11. Len(buf) = Len(line) /\ \A k \in 1..Len(buf) : buf[k] = line[k]
  BY <1>6, <1>9, <1>10 DEF i, m, H
<1>12. buf = line
  BY <1>2, <1>9, <1>11, SeqEqual
<1> QED BY <1>12 DEF line, i, m

\* A data segment that was read is the message's.
LEMMA WholeSegment ==
  ASSUME IInv, stage = "data", Len(buf) = Announced, Announced > 0
  PROVE  buf = DataBytes(at, sent[at])
<1> DEFINE m == sent[at]
<1> DEFINE D == DataLength(m.data)
<1> DEFINE p == m.header + 2
<1>1. Announced = D
  BY DEF Announced
<1>2. /\ m \in Messages /\ at \in 1..Len(sent) /\ buf \in Seq(ByteSet)
      /\ \A k \in 1..D : buf[k] = Byte(at, m, p + k - 1)
  BY <1>1, SegmentRead DEF IInv, Shapes
<1>3. m.header \in Nat /\ D \in Nat /\ at \in Nat
  BY <1>2, MessageFacts
<1>4. /\ DataBytes(at, m) \in Seq(ByteSet) /\ Len(DataBytes(at, m)) = D
      /\ \A k \in 1..D : DataBytes(at, m)[k] = <<at, "data", k>>
  BY <1>2, <1>3, PartsFacts
<1>9. \A k \in 1..D : Byte(at, m, p + k - 1) = <<at, "data", k>>
  BY <1>2, BytesOfParts
<1>5. \A k \in 1..D : buf[k] = <<at, "data", k>>
  BY <1>2, <1>9
<1> DEFINE bytes == DataBytes(at, m)
<1> HIDE DEF bytes, D
<1>6. Len(buf) = Len(bytes) /\ \A k \in 1..Len(buf) : buf[k] = bytes[k]
  BY <1>1, <1>4, <1>5 DEF bytes
<1>7. bytes \in Seq(ByteSet) /\ buf \in Seq(ByteSet)
  BY <1>2, <1>4 DEF bytes
<1>8. buf = bytes
  BY <1>6, <1>7, SeqEqual
<1> QED BY <1>8 DEF bytes

\* A byte anywhere is a byte of them all.
LEMMA SomeBytes ==
  ASSUME Shapes, buf # <<>> \/ stream # <<>> \/ left # <<>>
  PROVE  Bytestream # <<>>
<1>1. /\ Len(Bytestream) = Len(buf) + Len(stream) + Len(left)
      /\ Len(buf) \in Nat /\ Len(stream) \in Nat /\ Len(left) \in Nat
  BY StreamFacts
<1>2. buf \in Seq(ByteSet) /\ stream \in Seq(ByteSet) /\ left \in Seq(ByteSet)
  BY DEF Shapes
<1>3. Len(buf) # 0 \/ Len(stream) # 0 \/ Len(left) # 0
  BY <1>2, EmptySeq
<1>4. Len(Bytestream) # 0
  BY <1>1, <1>3
<1>5. Len(<<>>) = 0
  BY EmptySeq
<1> QED BY <1>4, <1>5, Zenon

\* What has come is of a message that was sent and not yet received.
LEMMA BegunIsSent == IInv => (Begun => Len(got) < Len(sent))
<1> SUFFICES ASSUME IInv, Begun
             PROVE  Len(got) < Len(sent)
  OBVIOUS
<1>1. Len(got) \in Nat /\ Len(sent) \in Nat
  BY StreamFacts DEF IInv
<1>2. stage \in {"header", "parse", "data", "payload"}
  BY DEF IInv, Shapes
<1>3. CASE stage \in {"data", "payload"}
  <2>1. at = Len(got) + 1 /\ at <= Len(sent)
    BY <1>3 DEF IInv, SegmentInv
  <2> QED BY <2>1, <1>1
<1>4. CASE stage \in {"header", "parse"}
  <2>1. buf # <<>> \/ stream # <<>>
    <3>1. stage = "parse" => buf # <<>>
      BY DEF IInv, LineInv
    <3> QED BY <3>1, <1>4 DEF Begun
  <2>2. Bytestream # <<>>
    BY <2>1, SomeBytes DEF IInv
  <2>3. Len(got) + 1 \in 1..Len(sent)
    BY <2>2, <1>4, AtHeader
  <2> QED BY <2>3, <1>1
<1> QED BY <1>2, <1>3, <1>4

\* A byte that moves on within one message is nothing new to the channel.
LEMMA GoesOnAsBegun ==
  ASSUME Begun, Begun', UNCHANGED <<sent, got, ending, closed>>
  PROVE  UNCHANGED Channel!vars
<1>1. Begun \in BOOLEAN /\ Begun' \in BOOLEAN
  BY DEF Begun
<1>2. Begun' = Begun
  BY <1>1, Zenon
<1> QED BY <1>2 DEF Channel!vars

\* The first byte of a message begins it; the others go on with it.
LEMMA ByteRefines ==
  ASSUME IInv, WriteByte
  PROVE  Channel!Next \/ UNCHANGED Channel!vars
<1>1. /\ left # <<>> /\ stream' = Append(stream, Head(left))
      /\ UNCHANGED <<sent, got, ending, closed, stage, buf>>
  BY DEF WriteByte, readerVars
<1>2. stream' # <<>>
  <2>1. stream \in Seq(ByteSet) /\ left \in Seq(ByteSet)
    BY DEF IInv, Shapes
  <2>2. Head(left) \in ByteSet
    BY <2>1, <1>1
  <2> QED BY <2>1, <2>2, <1>1
<1>3. Begun'
  BY <1>2 DEF Begun
<1>4. CASE Begun
  BY <1>1, <1>3, <1>4, GoesOnAsBegun
<1>5. CASE ~Begun
  <2>1. stage = "header"
    BY <1>5 DEF Begun
  <2>2. Bytestream # <<>>
    BY <1>1, SomeBytes DEF IInv
  <2>3. Len(got) + 1 \in 1..Len(sent)
    BY <2>1, <2>2, AtHeader
  <2>4. Len(got) < Len(sent)
    <3>1. Len(got) \in Nat /\ Len(sent) \in Nat
      BY StreamFacts DEF IInv
    <3> QED BY <2>3, <3>1
  <2>5. Channel!Arrive
    BY <1>1, <1>3, <1>5, <2>4 DEF Channel!Arrive, Begun
  <2> QED BY <2>5 DEF Channel!Next
<1> QED BY <1>4, <1>5

\* Bytes that are taken were there, and are held.
LEMMA TakingRefines ==
  ASSUME IInv, ReadHeader \/ ReadExact
  PROVE  UNCHANGED Channel!vars
<1>1. UNCHANGED <<sent, got, ending, closed>>
  BY DEF ReadHeader, ReadExact, writerVars
<1>2. CASE ReadExact
  <2>1. stage # "header" /\ stage' = stage
    BY <1>2 DEF ReadExact, InSegment
  <2>2. Begun /\ Begun'
    BY <2>1 DEF Begun
  <2> QED BY <2>2, <1>1, GoesOnAsBegun
<1>3. CASE ReadHeader
  <2>1. PICK n \in 1..ChunkSize :
          n <= Len(stream) /\ Take(UpToNewline(SubSeq(stream, 1, n)))
    BY <1>3 DEF ReadHeader, Available
  <2>2. n \in 1..Len(stream) /\ Len(stream) \in Nat
    BY <2>1, StreamFacts, WireAssumption DEF IInv
  <2>3. stage = "header" /\ left' = left
    BY <1>3 DEF ReadHeader, Reading, writerVars
  <2> DEFINE chunk == SubSeq(stream, 1, n)
  <2>4. \E j \in 1..n : UpToNewline(chunk) = SubSeq(stream, 1, j)
    BY <2>2, <2>3, TakenOfLine
  <2>5. PICK j \in 1..n : UpToNewline(chunk) = SubSeq(stream, 1, j)
    BY <2>4
  <2>6. Take(UpToNewline(chunk)) /\ j \in 1..Len(stream)
    BY <2>1, <2>2
  <2> HIDE DEF chunk
  <2>7. Take(SubSeq(stream, 1, j))
    BY <2>5, <2>6, Zenon
  <2>8. buf' # <<>>
    BY <2>3, <2>6, <2>7, TakeStep
  <2>9. stream # <<>>
    <3>1. Len(stream) # 0
      BY <2>2
    <3> QED BY <3>1, EmptySeq
  <2>10. Begun /\ Begun'
    BY <2>8, <2>9 DEF Begun
  <2> QED BY <2>10, <1>1, GoesOnAsBegun
<1> QED BY <1>2, <1>3

\* What the reader stops with at a header is the message's fault, or the line
\* was cut off.
LEMMA HeaderRefines ==
  ASSUME IInv, HeaderTooLong \/ ReadHeaderEnds \/ ParseHeader
  PROVE  Channel!Next \/ UNCHANGED Channel!vars
<1> DEFINE i == Len(got) + 1
<1> DEFINE m == sent[i]
<1>1. /\ Len(got) \in Nat /\ Len(sent) \in Nat /\ Len(buf) \in Nat
      /\ MaxHeader \in Nat
  BY StreamFacts, WireAssumption DEF IInv
<1>2. CASE HeaderTooLong
  <2>1. /\ ending = "" /\ stage \in {"header", "parse"} /\ Len(buf) > MaxHeader
        /\ ending' = "HeaderTooLong" /\ UNCHANGED <<sent, got, closed>>
    BY <1>2 DEF HeaderTooLong, Stop, writerVars
  <2>14. UNCHANGED Begun
    BY <1>2 DEF HeaderTooLong, Stop, readerVars, Begun
  <2>2. Len(<<>>) = 0
    BY EmptySeq
  <2> DEFINE b == Len(buf)
  <2>10. b > MaxHeader
    BY <2>1
  <2>11. Len(Bytestream) \in Nat /\ Len(Bytestream) >= b
    BY StreamFacts DEF IInv
  <2>12. b \in Nat /\ MaxHeader \in Nat
    BY <1>1
  <2> HIDE DEF b
  <2>13. b # 0 /\ Len(Bytestream) # 0
    BY <2>10, <2>11, <2>12
  <2>3. buf # <<>>
    BY <2>2, <2>13, Zenon DEF b
  <2>4. Bytestream # <<>>
    BY <2>2, <2>13, Zenon
  <2>5. i \in 1..Len(sent) /\ m \in Messages
    BY <2>1, <2>4, AtHeader
  <2>6. m.header \in Nat
    <3>1. m \in Messages
      BY <2>5
    <3> HIDE DEF m
    <3> QED BY <3>1, MessageFacts
  <2>7. ~Short(m)
    <3>1. b <= m.header + 1
      BY <2>1, <2>3 DEF IInv, LineInv, b
    <3> DEFINE H == m.header
    <3>2. H \in Nat /\ b <= H + 1
      BY <3>1, <2>6
    <3> HIDE DEF H
    <3>3. ~(H < MaxHeader)
      BY <3>2, <2>10, <2>12
    <3> QED BY <3>3 DEF Short, H
  <2>8. Len(got) < Len(sent)
    BY <2>5, <1>1
  <2>15. Begun
    BY <2>3 DEF Begun
  <2>9. Channel!EndByMessage
    BY <2>1, <2>7, <2>8, <2>14, <2>15
       DEF Channel!EndByMessage, Channel!MessageErrors
  <2> QED BY <2>9 DEF Channel!Next
<1>3. CASE ReadHeaderEnds
  <2>1. CASE buf = <<>>
    <3>1. /\ ending = "" /\ stage = "header" /\ stream = <<>> /\ closed
          /\ ending' = "eof" /\ UNCHANGED <<sent, got, closed>>
      BY <2>1, <1>3 DEF ReadHeaderEnds, Reading, Stop, writerVars
    <3>2. left = <<>> /\ Framing(Bytestream, Awaited, sent, closed)
      BY <3>1 DEF IInv, Framed
    <3>3. Bytestream = <<>>
      <4>1. <<>> \in Seq(ByteSet)
        BY EmptySeq
      <4>2. <<>> \o <<>> = <<>>
        BY <4>1, ConcatEmptySeq
      <4>3. Bytestream = (<<>> \o <<>>) \o <<>>
        BY <2>1, <3>1, <3>2, Zenon DEF Bytestream
      <4> QED BY <4>2, <4>3
    <3>4. Awaited[1] >= Len(sent)
      BY <3>1, <3>2, <3>3 DEF Framing, ReachesTheLast
    <3>5. Awaited = <<Len(got) + 1, 1>>
      BY <3>1 DEF Awaited
    <3>6. Len(got) >= Len(sent) - 1
      BY <3>4, <3>5, <1>1
    <3>7. ~Begun /\ UNCHANGED Begun
      BY <2>1, <3>1, <1>3 DEF ReadHeaderEnds, Stop, readerVars, Begun
    <3>8. Channel!EndCleanly
      BY <3>1, <3>6, <3>7 DEF Channel!EndCleanly
    <3> QED BY <3>8 DEF Channel!Next
  <2>2. CASE buf # <<>>
    <3>1. UNCHANGED <<sent, got, ending, closed, buf>>
      BY <2>2, <1>3 DEF ReadHeaderEnds, writerVars
    <3>2. Begun /\ Begun'
      BY <2>2, <3>1 DEF Begun
    <3> QED BY <3>1, <3>2, GoesOnAsBegun
  <2> QED BY <2>1, <2>2
<1>4. CASE ParseHeader
  <2>1. stage = "parse" /\ ending = ""
    BY <1>4 DEF ParseHeader, Reading
  <2>2. /\ i \in 1..Len(sent) /\ m \in Messages /\ buf[1][1] = i
        /\ Len(buf) = m.header + 1 \/ (closed /\ stream = <<>>)
    BY <2>1, LineIsNext
  <2>7. Begun
    BY <2>1, Zenon DEF Begun
  <2>3. Len(got) < Len(sent) /\ Begun
    BY <2>2, <2>7, <1>1
  <2>4. CASE ~IsHeader(i)
    <3>1. /\ ending' \in {"HeaderNotUtf8", "HeaderInvalidJson"}
          /\ UNCHANGED <<sent, got, closed, Begun>>
      BY <2>2, <2>4, <1>4
         DEF ParseHeader, Stop, NoHeader, writerVars, readerVars, Begun
    <3>2. CASE closed
      <4>1. Channel!EndByMessage
        BY <2>1, <2>3, <3>1, <3>2 DEF Channel!EndByMessage
      <4> QED BY <4>1 DEF Channel!Next
    <3>3. CASE ~closed
      <4>1. buf = Append(HeaderBytes(i, m), Newline(i))
        BY <2>1, <2>2, <3>3, WholeLine
      <4>2. m.type = Misfit
        BY <4>1, <2>4 DEF IsHeader
      <4>3. m.event = Nothing
        BY <4>2, <2>2, OwnIsSound
      <4>4. ~Sound(m)
        BY <4>2, <4>3 DEF Sound
      <4>5. Channel!EndByMessage
        BY <2>1, <2>3, <3>1, <4>4
           DEF Channel!EndByMessage, Channel!MessageErrors
      <4> QED BY <4>5 DEF Channel!Next
    <3> QED BY <3>2, <3>3
  <2>5. CASE IsHeader(i) /\ m.inline = Misfit
    <3>1. ending' = "NonObjectData" /\ UNCHANGED <<sent, got, closed, Begun>>
      BY <2>2, <2>5, <1>4 DEF ParseHeader, Stop, writerVars, readerVars, Begun
    <3>2. m.event = Nothing
      BY <2>2, <2>5, OwnIsSound
    <3>3. ~IsObject(m.inline)
      BY <2>5 DEF IsObject
    <3>4. ~Sound(m)
      BY <3>2, <3>3 DEF Sound
    <3>5. Channel!EndByMessage
      BY <2>1, <2>3, <3>1, <3>4 DEF Channel!EndByMessage, Channel!MessageErrors
    <3> QED BY <3>5 DEF Channel!Next
  <2>6. CASE IsHeader(i) /\ m.inline # Misfit
    <3>1. UNCHANGED <<sent, got, ending, closed>> /\ stage' = "data"
      BY <2>2, <2>6, <1>4 DEF ParseHeader, NextStage, writerVars
    <3>2. Begun'
      BY <3>1 DEF Begun
    <3> QED BY <2>3, <3>1, <3>2, GoesOnAsBegun
  <2> QED BY <2>4, <2>5, <2>6
<1> QED BY <1>2, <1>3, <1>4

\* What the reader stops with in a segment is the message's fault, or the
\* connection's.
LEMMA SegmentRefines ==
  ASSUME IInv, TooLongAnnounced \/ ReadExactFails \/ ParseData
  PROVE  Channel!Next \/ UNCHANGED Channel!vars
<1> DEFINE m == sent[at]
<1>1. /\ ending = "" /\ stage \in {"data", "payload"}
  BY DEF TooLongAnnounced, ReadExactFails, ParseData, InSegment, Reading
<1>2. /\ at = Len(got) + 1 /\ at \in 1..Len(sent) /\ m \in Messages
      /\ Len(got) < Len(sent)
  <2>1. Len(got) \in Nat /\ Len(sent) \in Nat /\ sent \in Seq(Messages)
    BY StreamFacts DEF IInv, Shapes
  <2>2. at = Len(got) + 1 /\ at <= Len(sent)
    BY <1>1 DEF IInv, SegmentInv
  <2> QED BY <2>1, <2>2
<1>3. /\ DataLength(m.data) \in Nat /\ PayloadLength(m.payload) \in Nat
      /\ m.data # Nothing => DataLength(m.data) >= 1
      /\ MaxData \in Nat /\ MaxPayload \in Nat
  BY <1>2, MessageFacts, WireAssumption
<1>8. Begun
  BY <1>1 DEF Begun
<1>4. ASSUME ~Sound(m), UNCHANGED <<sent, got, closed, Begun>>,
             ending' \in Channel!MessageErrors
      PROVE  Channel!Next
  <2>1. Channel!EndByMessage
    BY <1>1, <1>2, <1>4, <1>8 DEF Channel!EndByMessage
  <2> QED BY <2>1 DEF Channel!Next
<1>5. CASE TooLongAnnounced
  <2>1. /\ Announced > Limit /\ UNCHANGED <<sent, got, closed, Begun>>
        /\ ending' \in {"DataLengthExceeded", "PayloadLengthExceeded"}
    BY <1>5 DEF TooLongAnnounced, Stop, writerVars, readerVars, Begun
  <2>2. ~Sound(m)
    <3>1. CASE stage = "data"
      <4>1. DataLength(m.data) > MaxData
        BY <3>1, <2>1 DEF Announced, Limit
      <4> QED BY <4>1, <1>3 DEF Sound
    <3>2. CASE stage = "payload"
      <4>1. PayloadLength(m.payload) > MaxPayload
        BY <3>2, <2>1 DEF Announced, Limit
      <4> QED BY <4>1, <1>3 DEF Sound
    <3> QED BY <3>1, <3>2, <1>1
  <2>3. ending' \in Channel!MessageErrors
    BY <2>1 DEF Channel!MessageErrors
  <2> QED BY <2>1, <2>2, <2>3, <1>4
<1>6. CASE ReadExactFails
  <2>1. Channel!EndByFailure
    BY <1>6, <1>1 DEF ReadExactFails, Stop, IoStage, writerVars, readerVars,
                      Begun, Channel!EndByFailure, Channel!IoErrors
  <2> QED BY <2>1 DEF Channel!Next
<1>7. CASE ParseData
  <2>1. stage = "data" /\ Len(buf) = Announced /\ Announced = DataLength(m.data)
    BY <1>7 DEF ParseData, Reading, Announced
  <2>2. CASE m.data # Nothing /\ buf # DataBytes(at, m)
    <3>1. Announced > 0
      BY <2>1, <2>2, <1>3
    <3> QED BY <3>1, <2>1, <2>2, WholeSegment
  <2>3. CASE /\ m.data # Nothing /\ buf = DataBytes(at, m)
             /\ ~IsObject(m.data)
    <3>1. ending' = "NonObjectData" /\ UNCHANGED <<sent, got, closed, Begun>>
      BY <2>3, <1>7 DEF ParseData, Stop, writerVars, readerVars, Begun
    <3>2. m.data = Misfit
      BY <2>3, <1>2, ObjectOrNone
    <3>3. m.event = Nothing
      BY <3>2, <1>2, OwnIsSound
    <3>4. ~Sound(m)
      BY <2>3, <3>3 DEF Sound
    <3>5. ending' \in Channel!MessageErrors
      BY <3>1 DEF Channel!MessageErrors
    <3> QED BY <3>1, <3>4, <3>5, <1>4
  <2>4. CASE \/ m.data = Nothing
             \/ buf = DataBytes(at, m) /\ IsObject(m.data)
    <3>1. UNCHANGED <<sent, got, ending, closed>> /\ stage' = "payload"
      BY <2>4, <1>7 DEF ParseData, NextStage, writerVars
    <3>2. Begun'
      BY <3>1 DEF Begun
    <3> QED BY <1>8, <3>1, <3>2, GoesOnAsBegun
  <2> QED BY <2>2, <2>3, <2>4
<1> QED BY <1>5, <1>6, <1>7

\* An event that is made is received.
LEMMA EventRefines ==
  ASSUME IInv, MakeEvent, Begun' => Len(got') < Len(sent')
  PROVE  Channel!Next
<1> DEFINE m == sent[at]
<1> DEFINE value == IF merged = EmptyObject THEN Null ELSE merged
<1> DEFINE payload == IF Announced = 0 THEN Nothing ELSE buf
<1>1. /\ ending = "" /\ stage = "payload" /\ Len(buf) = Announced
      /\ Announced = PayloadLength(m.payload) /\ Announced <= MaxPayload
  BY DEF MakeEvent, Reading, Announced, Limit
<1>2. /\ at = Len(got) + 1 /\ at <= Len(sent) /\ m.type # Misfit
      /\ m.inline # Misfit /\ m.data # Misfit
      /\ m.header <= MaxHeader /\ DataLength(m.data) <= MaxData
      /\ Short(m) \/ closed
  BY <1>1 DEF IInv, SegmentInv
<1>3. at \in 1..Len(sent) /\ m \in Messages /\ Len(got) < Len(sent)
  <2>1. Len(got) \in Nat /\ Len(sent) \in Nat /\ sent \in Seq(Messages)
    BY StreamFacts DEF IInv, Shapes
  <2> QED BY <2>1, <1>2
<1>4. /\ IsEvent(m.type, value) <=> IsEvent(m.type, Said(m))
      /\ m.event # Nothing => IsEvent(m.type, value)
      /\ FromWire(m.type, value, payload) = Meaning(at, m)
  BY <1>1, MakesTheMeaning
<1>5. CASE ~IsEvent(m.type, value)
  <2>1. /\ ending' = "InvalidEventData"
        /\ UNCHANGED <<sent, got, closed, Begun>> /\ Begun
    BY <1>1, <1>5 DEF MakeEvent, Stop, writerVars, readerVars, Begun
  <2> HIDE DEF value, payload
  <2>2. ~Sound(m)
    BY <1>4, <1>5 DEF Sound
  <2>3. Channel!EndByMessage
    BY <2>1, <2>2, <1>1, <1>2, <1>3
       DEF Channel!EndByMessage, Channel!MessageErrors
  <2> QED BY <2>3 DEF Channel!Next
<1>6. CASE IsEvent(m.type, value)
  <2>1. /\ got' = Append(got, FromWire(m.type, value, payload))
        /\ UNCHANGED <<sent, ending, closed>>
    BY <1>6 DEF MakeEvent, writerVars
  <2> HIDE DEF value, payload
  <2>2. got' = Append(got, Meaning(at, m))
    BY <2>1, <1>4
  <2>3. IsObject(m.inline) /\ IsObject(m.data)
    BY <1>2, <1>3, ObjectOrNone
  <2>4. Sound(m)
    BY <2>3, <1>1, <1>2, <1>4, <1>6 DEF Sound
  <2>6. Begun
    BY <1>1 DEF Begun
  <2>7. Begun' \in {FALSE, Len(got') < Len(sent)}
    <3>1. Begun' \in BOOLEAN
      BY DEF Begun
    <3>2. Begun' => Len(got') < Len(sent)
      BY <2>1
    <3> QED BY <3>1, <3>2
  <2> HIDE DEF m
  <2>5. Channel!Receive
    BY <2>1, <2>2, <2>4, <2>6, <2>7, <1>1, <1>2, <1>3 DEF Channel!Receive, m
  <2> QED BY <2>5 DEF Channel!Next
<1> QED BY <1>5, <1>6

\* However the bytes are cut into reads, and whatever the peer writes, the
\* connection is a channel of events: each arrives once, in order and
\* unaltered; the reading ends without an error only where no byte of the next
\* event has come; and an error means that the peer was at fault or gone.
THEOREM TheConnectionIsAChannel == Spec => ImplementsChannel
<1>1. Init => Channel!Init
  BY DEF Init, Channel!Init, Begun
<1>2. ASSUME IInv, [Next]_vars
      PROVE  Channel!Next \/ UNCHANGED Channel!vars
  <2>14. Begun' => Len(got') < Len(sent')
    <3>1. IInv'
      BY <1>2, NextIInv
    <3>2. (Begun => Len(got) < Len(sent))'
      BY <3>1, BegunIsSent, PTL
    <3> QED BY <3>2
  <2>1. ASSUME NEW m \in Messages, Begin(m)
        PROVE  Channel!Next
    <3>1. Channel!Send(m)
      BY <2>1 DEF Begin, readerVars, Begun, Channel!Send
    <3> QED BY <3>1 DEF Channel!Next
  <2>2. CASE UNCHANGED vars
    BY <2>2 DEF vars, writerVars, readerVars, Channel!vars, Begun
  <2>12. CASE WriteByte
    BY <2>12, <1>2, ByteRefines
  <2>13. CASE ReadHeader \/ ReadExact
    BY <2>13, <1>2, TakingRefines
  <2>3. CASE CloseWriter
    <3>1. Channel!Break
      BY <2>3 DEF CloseWriter, readerVars, Begun, Channel!Break
    <3> QED BY <3>1 DEF Channel!Next
  <2>4. CASE HeaderTooLong \/ ReadHeaderEnds \/ ParseHeader
    BY <2>4, <1>2, HeaderRefines
  <2>5. CASE TooLongAnnounced \/ ReadExactFails \/ ParseData
    BY <2>5, <1>2, SegmentRefines
  <2>6. CASE MakeEvent
    BY <2>6, <2>14, <1>2, EventRefines
  <2>7. CASE ReadFails
    <3>1. Channel!EndByFailure
      BY <2>7 DEF ReadFails, Stop, IoStage, writerVars, readerVars, Begun,
                  Channel!EndByFailure, Channel!IoErrors
    <3> QED BY <3>1 DEF Channel!Next
  <2>8. CASE CancelRead
    <3>1. Channel!Cancel
      BY <2>8 DEF CancelRead, Stop, writerVars, readerVars, Begun,
                  Channel!Cancel
    <3> QED BY <3>1 DEF Channel!Next
  <2>9. \A e \in Events : MessageOf(e) \in Messages
    BY DEF Messages
  <2>10. Foreign \subseteq Messages
    BY DEF Messages
  <2>11. CASE WriteEvent \/ ForeignWrites
    BY <2>1, <2>9, <2>10, <2>11 DEF WriteEvent, ForeignWrites
  <2> QED BY <2>2, <2>3, <2>4, <2>5, <2>6, <2>7, <2>8, <2>11, <2>12, <2>13,
             <1>2
          DEF Next, ReadEvent
<1> QED BY <1>1, <1>2, FramingIsKept, PTL
           DEF Spec, ImplementsChannel, Channel!Spec
=============================================================================
