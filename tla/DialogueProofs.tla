--------------------------- MODULE DialogueProofs ---------------------------
(***************************************************************************)
(* What speech-dispatcher and its output module say to each other, for     *)
(* every exchange, text, audio and number of turns: both agree where they  *)
(* are in the dialogue (InStep), unless a line of a text looks like its    *)
(* terminator, and what the user has written arrives at the server         *)
(* (SpeechIsCarried), through dots, SSML, lines and escapes.               *)
(***************************************************************************)
EXTENDS SpeechdDialogue, ListLemmas

Text == Seq(Words)

-----------------------------------------------------------------------------
(***************************************************************************)
(* SSML                                                                    *)
(***************************************************************************)
\* In a tag: an opening bracket is before i and no bracket after it.
LEMMA OmittedIs ==
  ASSUME NEW x \in Text, NEW i \in 1..(Len(x) + 1)
  PROVE  Omitted(x, i) <=>
           \E j \in 1..(i - 1) :
             x[j] = "<" /\ \A k \in (j + 1)..(i - 1) : x[k] \notin {"<", ">"}
<1> DEFINE brackets == {j \in 1..(i - 1) : x[j] \in {"<", ">"}}
           m == Max(brackets)
<1>1. i \in Nat /\ Len(x) \in Nat /\ brackets \in SUBSET Nat /\ IsFiniteSet(brackets)
  <2>1. Len(x) \in Nat
    BY LenProperties DEF Text
  <2>2. \A n \in brackets : n \in 0..Len(x)
    BY <2>1
  <2> QED BY <2>1, <2>2, Parts
<1>2. Omitted(x, i) <=> brackets # {} /\ x[m] = "<"
  BY DEF Omitted
<1>3. CASE brackets = {}
  BY <1>2, <1>3
<1>4. CASE brackets # {}
  <2>1. m \in brackets /\ \A n \in brackets : n <= m
    BY <1>1, <1>4, Greatest
  <2> HIDE DEF m
  <2>2. m \in 1..(i - 1) /\ x[m] \in {"<", ">"}
    BY <2>1
  <2>3. \A k \in (m + 1)..(i - 1) : x[k] \notin {"<", ">"}
    BY <1>1, <2>1, <2>2
  <2>4. ASSUME NEW j \in 1..(i - 1), x[j] = "<",
               \A k \in (j + 1)..(i - 1) : x[k] \notin {"<", ">"}
        PROVE  j = m
    <3>1. j \in brackets
      BY <2>4
    <3>2. j <= m /\ ~(j < m)
      BY <1>1, <2>1, <2>2, <2>4, <3>1
    <3> QED BY <1>1, <2>2, <3>2
  <2>5. Omitted(x, i) <=> x[m] = "<"
    BY <1>2, <1>4
  <2> QED BY <2>2, <2>3, <2>4, <2>5
<1> QED BY <1>3, <1>4

\* Nothing in x waits for what may follow.
Complete(x) ==
  /\ ~Omitted(x, Len(x) + 1)
  /\ x = <<>> \/ x[Len(x)] # "&"

\* The entities and what they stand for.
LEMMA EntityIs ==
  /\ DOMAIN Entities = {"lt", "gt", "amp", "quot", "apos"}
  /\ Entities["lt"] = "<" /\ Entities["gt"] = ">" /\ Entities["amp"] = "&"
  /\ Entities["quot"] = "quote" /\ Entities["apos"] = "apostrophe"
BY DEF Entities

\* What is kept is words.
LEMMA KeptTyped ==
  ASSUME NEW x \in Text, NEW i \in 1..Len(x)
  PROVE  Kept(x, i) \in Text
<1>1. Len(x) \in Nat /\ x[i] \in Words /\ <<>> \in Text /\ <<x[i]>> \in Text
  BY LenProperties, ElementOfSeq, EmptySeq DEF Text
<1>2. ASSUME IsEntity(x, i)
      PROVE  <<Entities[x[i + 1]]>> \in Text
  <2>1. x[i + 1] \in {"lt", "gt", "amp", "quot", "apos"}
    BY <1>2, EntityIs DEF IsEntity
  <2>2. Entities[x[i + 1]] \in {"<", ">", "&", "quote", "apostrophe"}
    BY <2>1, EntityIs
  <2>3. \A word \in {"<", ">", "&", "quote", "apostrophe"} : word \in Words
    BY WordsAssumption DEF Signs
  <2> QED BY <2>2, <2>3 DEF Text
<1> QED BY <1>1, <1>2 DEF Kept

\* Of two texts the first of which is complete, each loses its own tags.
LEMMA StripConcat ==
  ASSUME NEW a \in Text, NEW b \in Text, Complete(a)
  PROVE  /\ StripSsml(a \o b) = StripSsml(a) \o StripSsml(b)
         /\ Complete(b) => Complete(a \o b)
<1> DEFINE x == a \o b
           A == Len(a)
           B == Len(b)
<1>1. /\ x \in Text /\ A \in Nat /\ B \in Nat /\ Len(x) = A + B
      /\ \A i \in 1..A : x[i] = a[i]
      /\ \A i \in 1..B : x[A + i] = b[i]
  <2>1. A \in Nat /\ B \in Nat
    BY LenProperties DEF Text
  <2>2. /\ x \in Text /\ Len(x) = A + B
        /\ \A i \in 1..(A + B) : x[i] = IF i <= A THEN a[i] ELSE b[i - A]
    BY ConcatProperties DEF Text
  <2> HIDE DEF x, A, B
  <2>3. \A i \in 1..A : x[i] = a[i]
    BY <2>1, <2>2
  <2>4. \A i \in 1..B : A + i \in 1..(A + B) /\ ~(A + i <= A) /\ (A + i) - A = i
    BY <2>1
  <2> QED BY <2>1, <2>2, <2>3, <2>4
<1>2. DOMAIN x = 1..(A + B) /\ DOMAIN a = 1..A /\ DOMAIN b = 1..B
  <2> HIDE DEF x
  <2> QED BY <1>1, LenProperties DEF Text
<1>3. ~Omitted(a, A + 1) /\ (A # 0 => a[A] # "&")
  BY EmptySeq DEF Complete
<1> HIDE DEF x, A, B
<1>4. ASSUME NEW i \in 1..(A + 1)
      PROVE  Omitted(x, i) <=> Omitted(a, i)
  <2>1. i \in 1..(Len(x) + 1) /\ i \in 1..(Len(a) + 1) /\ i \in Nat
    BY <1>1 DEF A
  <2>2. \A j \in 1..(i - 1) : x[j] = a[j]
    BY <1>1
  <2>3. \A j \in 1..(i - 1), k \in Nat : k \in (j + 1)..(i - 1) => k \in 1..(i - 1)
    BY <2>1
  <2>4. /\ Omitted(x, i) <=>
              \E j \in 1..(i - 1) :
                x[j] = "<" /\ \A k \in (j + 1)..(i - 1) : x[k] \notin {"<", ">"}
        /\ Omitted(a, i) <=>
              \E j \in 1..(i - 1) :
                a[j] = "<" /\ \A k \in (j + 1)..(i - 1) : a[k] \notin {"<", ">"}
    BY <1>1, <2>1, OmittedIs
  <2>5. \A j \in 1..(i - 1) : \A k \in (j + 1)..(i - 1) : x[k] = a[k]
    BY <2>1, <2>2
  <2> QED BY <2>2, <2>4, <2>5
<1>5. ASSUME NEW i \in 1..(B + 1)
      PROVE  Omitted(x, A + i) <=> Omitted(b, i)
  <2>1. A + i \in 1..(Len(x) + 1) /\ i \in 1..(Len(b) + 1) /\ i \in Nat
    BY <1>1 DEF B
  <2>2. ASSUME Omitted(b, i)
        PROVE  Omitted(x, A + i)
    <3>1. PICK j \in 1..(i - 1) :
            b[j] = "<" /\ \A k \in (j + 1)..(i - 1) : b[k] \notin {"<", ">"}
      BY <2>1, <2>2, OmittedIs
    <3>2. A + j \in 1..(A + i - 1) /\ x[A + j] = "<"
      BY <1>1, <2>1, <3>1
    <3>3. ASSUME NEW k \in (A + j + 1)..(A + i - 1)
          PROVE  x[k] \notin {"<", ">"}
      <4>1. k - A \in (j + 1)..(i - 1) /\ k - A \in 1..B /\ A + (k - A) = k
        BY <1>1, <2>1, <3>1
      <4> QED BY <1>1, <3>1, <4>1
    <3> QED BY <1>1, <2>1, <3>2, <3>3, OmittedIs
  <2>3. ASSUME Omitted(x, A + i)
        PROVE  Omitted(b, i)
    <3>1. PICK j \in 1..((A + i) - 1) :
            x[j] = "<" /\ \A k \in (j + 1)..((A + i) - 1) : x[k] \notin {"<", ">"}
      <4> DEFINE at == A + i
      <4>1. at \in 1..(Len(x) + 1) /\ Omitted(x, at)
        BY <2>1, <2>3
      <4> HIDE DEF at
      <4>2. \E j \in 1..(at - 1) :
              x[j] = "<" /\ \A k \in (j + 1)..(at - 1) : x[k] \notin {"<", ">"}
        BY <1>1, <4>1, OmittedIs
      <4> QED BY <4>2 DEF at
    <3>2. ~(j <= A)
      <4> SUFFICES ASSUME j <= A PROVE FALSE
        OBVIOUS
      <4>1. j \in 1..((A + 1) - 1) /\ a[j] = "<"
        BY <1>1, <2>1, <3>1
      <4>2. ASSUME NEW k \in (j + 1)..((A + 1) - 1)
            PROVE  a[k] \notin {"<", ">"}
        <5>1. k \in (j + 1)..(A + i - 1) /\ k \in 1..A
          BY <1>1, <2>1, <3>1
        <5> QED BY <1>1, <3>1, <5>1
      <4>3. A + 1 \in 1..(Len(a) + 1)
        BY <1>1 DEF A
      <4> QED BY <1>3, <4>1, <4>2, <4>3, OmittedIs
    <3>3. j - A \in 1..(i - 1) /\ j - A \in 1..B /\ A + (j - A) = j
      BY <1>1, <2>1, <3>1, <3>2
    <3>4. b[j - A] = "<"
      BY <1>1, <3>1, <3>3
    <3>5. ASSUME NEW k \in ((j - A) + 1)..(i - 1)
          PROVE  b[k] \notin {"<", ">"}
      <4>1. A + k \in (j + 1)..(A + i - 1) /\ k \in 1..B
        BY <1>1, <2>1, <3>1, <3>3
      <4> QED BY <1>1, <3>1, <4>1
    <3> QED BY <2>1, <3>3, <3>4, <3>5, OmittedIs
  <2> QED BY <2>2, <2>3
<1>6. ~IsEntity(x, A) /\ ~IsEntity(x, 0) /\ ~IsEntity(a, 0) /\ ~IsEntity(b, 0)
  BY <1>1, <1>3 DEF IsEntity, A, B
<1>7. ASSUME NEW i \in 1..A
      PROVE  IsEntity(x, i) <=> IsEntity(a, i)
  <2>1. CASE i = A
    BY <1>1, <1>6, <2>1 DEF IsEntity, A
  <2>2. CASE i # A
    <3>1. i \in 1..(Len(a) - 1) /\ i \in 1..(Len(x) - 1) /\ i + 1 \in 1..A
      BY <1>1, <2>2 DEF A
    <3>2. x[i] = a[i] /\ x[i + 1] = a[i + 1]
      BY <1>1, <3>1
    <3> QED BY <3>1, <3>2 DEF IsEntity
  <2> QED BY <2>1, <2>2
<1>8. ASSUME NEW i \in 1..B
      PROVE  IsEntity(x, A + i) <=> IsEntity(b, i)
  <2>1. A + i \in 1..(Len(x) - 1) <=> i \in 1..(Len(b) - 1)
    BY <1>1 DEF B
  <2>2. ASSUME i \in 1..(Len(b) - 1)
        PROVE  x[A + i] = b[i] /\ x[(A + i) + 1] = b[i + 1]
    <3>1. i \in 1..B /\ i + 1 \in 1..B /\ (A + i) + 1 = A + (i + 1)
      BY <1>1, <2>2 DEF B
    <3> QED BY <1>1, <3>1
  <2> QED BY <2>1, <2>2 DEF IsEntity
<1>9. ASSUME NEW i \in 1..A
      PROVE  Kept(x, i) = Kept(a, i)
  <2>1. i \in 1..(A + 1) /\ (i - 1 = 0 \/ i - 1 \in 1..A)
    BY <1>1
  <2>2. x[i] = a[i] /\ (Omitted(x, i) <=> Omitted(a, i))
    BY <1>1, <1>4, <2>1
  <2>3. IsEntity(x, i - 1) <=> IsEntity(a, i - 1)
    BY <1>6, <1>7, <2>1
  <2>4. IsEntity(x, i) => x[i + 1] = a[i + 1]
    <3>1. IsEntity(x, i) => i + 1 \in 1..A
      BY <1>1, <1>7 DEF IsEntity, A
    <3> QED BY <1>1, <3>1
  <2> QED BY <1>7, <2>2, <2>3, <2>4 DEF Kept
<1>10. ASSUME NEW i \in 1..B
       PROVE  Kept(x, A + i) = Kept(b, i)
  <2>1. i \in 1..(B + 1) /\ (i - 1 = 0 \/ i - 1 \in 1..B)
        /\ (A + i) - 1 = A + (i - 1) /\ A + 0 = A
    BY <1>1
  <2>2. x[A + i] = b[i] /\ (Omitted(x, A + i) <=> Omitted(b, i))
    BY <1>1, <1>5, <2>1
  <2>3. IsEntity(x, (A + i) - 1) <=> IsEntity(b, i - 1)
    BY <1>6, <1>8, <2>1
  <2>4. IsEntity(b, i) => x[(A + i) + 1] = b[i + 1]
    <3>1. IsEntity(b, i) => i + 1 \in 1..B /\ (A + i) + 1 = A + (i + 1)
      BY <1>1 DEF IsEntity, B
    <3> QED BY <1>1, <3>1
  <2> QED BY <1>8, <2>2, <2>3, <2>4 DEF Kept
<1> DEFINE K(t) == [i \in 1..Len(t) |-> Kept(t, i)]
<1>11. ASSUME NEW t \in Text
       PROVE  /\ K(t) \in Seq(Text) /\ Len(K(t)) = Len(t)
              /\ StripSsml(t) = FlattenSeq(K(t))
  <2>1. Len(t) \in Nat /\ DOMAIN t = 1..Len(t)
    BY LenProperties DEF Text
  <2>2. K(t) \in [1..Len(t) -> Text]
    BY KeptTyped
  <2>3. K(t) \in Seq(Text)
    BY <2>1, KeptTyped, IsASeq
  <2>4. Len(K(t)) = Len(t)
    BY <2>1, <2>2, <2>3, LenProperties
  <2> QED BY <2>1, <2>3, <2>4 DEF StripSsml
<1>12. K(x) = K(a) \o K(b)
  <2> DEFINE u == K(a)
             v == K(b)
             w == K(x)
  <2>1. /\ u \in Seq(Text) /\ Len(u) = A /\ v \in Seq(Text) /\ Len(v) = B
        /\ w \in Seq(Text) /\ Len(w) = A + B
    BY <1>1, <1>11 DEF A, B
  <2>2. ASSUME NEW i \in 1..(A + B)
        PROVE  w[i] = IF i <= A THEN u[i] ELSE v[i - A]
    <3>1. CASE i <= A
      <4>1. i \in 1..A
        BY <1>1, <3>1
      <4> QED BY <1>1, <1>9, <3>1, <4>1 DEF A
    <3>2. CASE ~(i <= A)
      <4>1. i - A \in 1..B /\ A + (i - A) = i
        BY <1>1, <3>2
      <4>2. Kept(x, i) = Kept(b, i - A)
        BY <1>10, <4>1
      <4> QED BY <1>1, <3>2, <4>1, <4>2 DEF B
    <3> QED BY <3>1, <3>2
  <2> HIDE DEF u, v, w, K
  <2>3. /\ u \o v \in Seq(Text) /\ Len(u \o v) = A + B
        /\ \A i \in 1..(A + B) : (u \o v)[i] = IF i <= A THEN u[i] ELSE v[i - A]
    BY <2>1, ConcatProperties
  <2>4. w = u \o v
    BY <2>1, <2>2, <2>3, SeqEqual
  <2> QED BY <2>4 DEF u, v, w
<1>13. StripSsml(x) = StripSsml(a) \o StripSsml(b)
  <2> HIDE DEF K
  <2>1. FlattenSeq(K(a) \o K(b)) = FlattenSeq(K(a)) \o FlattenSeq(K(b))
    <3>1. K(a) \in Seq(Seq(Words)) /\ K(b) \in Seq(Seq(Words))
      BY <1>11 DEF Text
    <3> QED BY <3>1, FlatConcat
  <2> QED BY <1>1, <1>11, <1>12, <2>1
<1>14. ASSUME Complete(b)
       PROVE  Complete(x)
  <2>1. ~Omitted(b, B + 1) /\ (B # 0 => b[B] # "&")
    BY <1>14, EmptySeq DEF Complete, B
  <2>2. ~Omitted(x, (A + B) + 1)
    <3>1. B + 1 \in 1..(B + 1) /\ A + (B + 1) = (A + B) + 1
      BY <1>1
    <3> QED BY <1>5, <2>1, <3>1
  <2>3. A + B # 0 => x[A + B] # "&"
    <3>1. CASE B = 0
      BY <1>1, <1>3, <3>1
    <3>2. CASE B # 0
      <4>1. B \in 1..B
        BY <1>1, <3>2
      <4> QED BY <1>1, <2>1, <3>2, <4>1
    <3> QED BY <3>1, <3>2
  <2>4. A + B = 0 => x = <<>>
    BY <1>1, EmptySeq DEF Text
  <2> QED BY <1>1, <2>2, <2>3, <2>4 DEF Complete
<1> QED BY <1>13, <1>14 DEF x

\* A tag goes.
LEMMA TagGoes ==
  ASSUME NEW x \in Text, Len(x) >= 2, x[1] = "<", x[Len(x)] = ">",
         \A k \in 2..(Len(x) - 1) : x[k] \notin {"<", ">"}
  PROVE  StripSsml(x) = <<>> /\ Complete(x)
<1> DEFINE N == Len(x)
<1>1. N \in Nat /\ DOMAIN x = 1..N
  BY LenProperties DEF Text
<1>2. ASSUME NEW i \in 1..N
      PROVE  Kept(x, i) = <<>>
  <2>1. CASE x[i] \in {"<", ">"}
    BY <2>1 DEF Kept
  <2>2. CASE x[i] \notin {"<", ">"}
    <3>1. i \in 1..(Len(x) + 1) /\ 1 \in 1..(i - 1)
      BY <1>1, <2>2
    <3>2. \A k \in (1 + 1)..(i - 1) : x[k] \notin {"<", ">"}
      BY <1>1
    <3>3. Omitted(x, i)
      BY <3>1, <3>2, OmittedIs
    <3> QED BY <3>3 DEF Kept
  <2> QED BY <2>1, <2>2
<1>3. [i \in DOMAIN x |-> Kept(x, i)] = [i \in 1..N |-> <<>>]
  <2> HIDE DEF N
  <2> QED BY <1>1, <1>2
<1>4. StripSsml(x) = <<>>
  <2> HIDE DEF N
  <2> QED BY <1>1, <1>3, FlatNothing DEF StripSsml
<1>5. ~Omitted(x, Len(x) + 1)
  <2> SUFFICES ASSUME Omitted(x, N + 1) PROVE FALSE
    OBVIOUS
  <2> DEFINE at == N + 1
  <2>1. at \in 1..(Len(x) + 1) /\ Omitted(x, at) /\ at - 1 = N
    BY <1>1
  <2> HIDE DEF at
  <2>2. PICK j \in 1..(at - 1) :
          x[j] = "<" /\ \A k \in (j + 1)..(at - 1) : x[k] \notin {"<", ">"}
    BY <2>1, OmittedIs
  <2>3. j # N /\ j \in 1..(at - 1)
    BY <2>2
  <2>4. N \in (j + 1)..(at - 1)
    <3> HIDE DEF N
    <3> QED BY <1>1, <2>1, <2>3
  <2> QED BY <2>2, <2>4
<1> QED BY <1>4, <1>5 DEF Complete

\* What stands for a word becomes that word.
LEMMA EscapeIsUndone ==
  ASSUME NEW word \in Words
  PROVE  /\ Escape(word) \in Text /\ StripSsml(Escape(word)) = <<word>>
         /\ Complete(Escape(word))
<1> DEFINE x == Escape(word)
<1>1. CASE word \in {"<", ">", "&"}
  <2>1. PICK name \in {"lt", "gt", "amp"} : x = <<"&", name>> /\ Entities[name] = word
    BY <1>1, EntityIs DEF Escape
  <2> HIDE DEF x
  <2>2. x \in Text /\ Len(x) = 2 /\ x[1] = "&" /\ x[2] = name
    <3>1. "&" \in Words /\ name \in Words
      BY WordsAssumption DEF Signs
    <3> QED BY <2>1, <3>1 DEF Text
  <2>3. name \notin {"<", ">", "&"} /\ name \in DOMAIN Entities
    BY EntityIs
  <2>4. \A i \in 1..3 : ~Omitted(x, i)
    <3> SUFFICES ASSUME NEW i \in 1..3, Omitted(x, i) PROVE FALSE
      OBVIOUS
    <3>1. i \in 1..(Len(x) + 1)
      BY <2>2
    <3>2. PICK j \in 1..(i - 1) : x[j] = "<"
      BY <2>2, <3>1, OmittedIs
    <3>3. j = 1 \/ j = 2
      BY <3>1, <3>2
    <3> QED BY <2>2, <2>3, <3>2, <3>3
  <2>5. IsEntity(x, 1) /\ ~IsEntity(x, 0)
    BY <2>2, <2>3 DEF IsEntity
  <2>6. Kept(x, 1) = <<word>>
    BY <2>1, <2>2, <2>4, <2>5 DEF Kept
  <2>7. Kept(x, 2) = <<>>
    BY <2>2, <2>5 DEF Kept
  <2>8. [i \in DOMAIN x |-> Kept(x, i)] = Append(<<<<word>>>>, <<>>)
    <3>1. DOMAIN x = 1..2
      BY <2>1
    <3> QED BY <2>6, <2>7, <3>1
  <2>9. StripSsml(x) = <<word>>
    <3>1. <<>> \in Text /\ <<word>> \in Text /\ <<<<word>>>> \in Seq(Text)
      BY DEF Text
    <3>2. FlattenSeq(Append(<<<<word>>>>, <<>>)) = FlattenSeq(<<<<word>>>>) \o <<>>
      BY <3>1, FlatAppend DEF Text
    <3>3. FlattenSeq(<<<<word>>>>) = <<word>> /\ <<word>> \o <<>> = <<word>>
      BY <3>1, FlatSingle, ConcatEmptySeq DEF Text
    <3> QED BY <2>8, <3>2, <3>3 DEF StripSsml
  <2> QED BY <2>2, <2>3, <2>4, <2>9 DEF Complete, x
<1>2. CASE word \notin {"<", ">", "&"}
  <2>1. x = <<word>>
    BY <1>2 DEF Escape
  <2> HIDE DEF x
  <2>2. x \in Text /\ Len(x) = 1 /\ x[1] = word
    BY <2>1 DEF Text
  <2>3. \A i \in 1..2 : ~Omitted(x, i)
    <3> SUFFICES ASSUME NEW i \in 1..2, Omitted(x, i) PROVE FALSE
      OBVIOUS
    <3>1. i \in 1..(Len(x) + 1)
      BY <2>2
    <3>2. PICK j \in 1..(i - 1) : x[j] = "<"
      BY <2>2, <3>1, OmittedIs
    <3>3. j = 1
      BY <3>1, <3>2
    <3> QED BY <1>2, <2>2, <3>2, <3>3
  <2>4. ~IsEntity(x, 0) /\ ~IsEntity(x, 1)
    BY <2>2 DEF IsEntity
  <2>5. Kept(x, 1) = <<word>>
    BY <1>2, <2>2, <2>3, <2>4 DEF Kept
  <2>6. [i \in DOMAIN x |-> Kept(x, i)] = <<<<word>>>>
    <3>1. DOMAIN x = 1..1
      BY <2>1
    <3> QED BY <2>5, <3>1
  <2>7. StripSsml(x) = <<word>>
    BY <2>1, <2>2, <2>6, FlatSingle DEF StripSsml, Text
  <2> QED BY <1>2, <2>2, <2>3, <2>7 DEF Complete, x
<1> QED BY <1>1, <1>2 DEF x

\* A text that was escaped for SSML is itself again.
LEMMA TextIsUndone ==
  ASSUME NEW t \in Text
  PROVE  /\ EscapeSsml(t) \in Text /\ StripSsml(EscapeSsml(t)) = t
         /\ Complete(EscapeSsml(t))
<1> DEFINE e == [word \in Words |-> Escape(word)]
           N == Len(t)
           first(n) == SubSeq(t, 1, n)
           P(n) == /\ Each(e, first(n)) \in Text /\ Complete(Each(e, first(n)))
                   /\ StripSsml(Each(e, first(n))) = first(n)
           S == {n \in 0..N : P(n)}
<1>1. N \in Nat /\ DOMAIN t = 1..N /\ \A i \in 1..N : t[i] \in Words
  BY LenProperties, ElementOfSeq DEF Text
<1>2. e \in [Words -> Seq(Words)] /\ \A word \in Words : e[word] = Escape(word)
  BY EscapeIsUndone DEF Text
<1>3. EscapeSsml(t) = Each(e, t)
  <2>1. [i \in DOMAIN t |-> Escape(t[i])] = [i \in DOMAIN t |-> e[t[i]]]
    <3> HIDE DEF e
    <3> QED BY <1>1, <1>2
  <2> QED BY <2>1 DEF EscapeSsml, Each
<1> HIDE DEF e
<1>4. ASSUME NEW s \in Seq(Words)
       PROVE  /\ Each(e, s) \in Seq(Words)
              /\ \A c \in Words : Each(e, Append(s, c)) = Each(e, s) \o e[c]
              /\ \A r \in Seq(Words) : Each(e, s \o r) = Each(e, s) \o Each(e, r)
  <2> DEFINE X == Words
             Y == Words
  <2>1. e \in Spellings(X, Y) /\ s \in Seq(X)
    BY <1>2 DEF Spellings
  <2> HIDE DEF X, Y
  <2>2. /\ Each(e, s) \in Seq(Y)
        /\ \A c \in X : Each(e, Append(s, c)) = Each(e, s) \o e[c]
        /\ \A r \in Seq(X) : Each(e, s \o r) = Each(e, s) \o Each(e, r)
    BY <2>1, EachIs
  <2> QED BY <2>2 DEF X, Y
<1>5. /\ first(0) = <<>> /\ first(N) = t
      /\ \A n \in 0..N : first(n) \in Text
      /\ \A n \in 0..(N - 1) : first(n + 1) = Append(first(n), t[n + 1])
  BY FirstOnes DEF Text
<1> HIDE DEF first
<1>6. P(0)
  <2>1. Each(e, <<>>) = <<>>
    BY FlatEmpty DEF Each
  <2>2. StripSsml(<<>>) = <<>>
    BY FlatEmpty DEF StripSsml
  <2>3. Complete(<<>>) /\ <<>> \in Text
    <3>1. <<>> \in Text /\ Len(<<>>) = 0
      BY EmptySeq DEF Text
    <3>2. ~Omitted(<<>>, 1)
      <4>1. 1 \in 1..(Len(<<>>) + 1) /\ 1..(1 - 1) = {}
        BY <3>1
      <4> QED BY <3>1, <4>1, OmittedIs
    <3> QED BY <3>1, <3>2 DEF Complete
  <2> QED BY <1>5, <2>1, <2>2, <2>3
<1>7. ASSUME NEW n \in 0..(N - 1), P(n)
      PROVE  P(n + 1)
  <2> DEFINE a == Each(e, first(n))
             word == t[n + 1]
             b == Escape(word)
  <2>1. n \in 0..N /\ n + 1 \in 0..N /\ n + 1 \in 1..N
    BY <1>1
  <2>2. word \in Words /\ first(n) \in Text
    BY <1>1, <1>5, <2>1
  <2>3. a \in Text /\ Complete(a) /\ StripSsml(a) = first(n)
    BY <1>7
  <2>4. b \in Text /\ Complete(b) /\ StripSsml(b) = <<word>>
    BY <2>2, EscapeIsUndone
  <2>5. Each(e, first(n + 1)) = a \o b
    <3>1. Each(e, Append(first(n), word)) = Each(e, first(n)) \o e[word]
      <4> DEFINE s == first(n)
      <4>1. s \in Seq(Words) /\ word \in Words
        BY <2>2 DEF Text
      <4> HIDE DEF s, word
      <4>2. Each(e, Append(s, word)) = Each(e, s) \o e[word]
        BY <1>4, <4>1
      <4> QED BY <4>2 DEF s
    <3>2. e[word] = b /\ first(n + 1) = Append(first(n), word)
      BY <1>2, <1>5, <2>2
    <3> QED BY <3>1, <3>2
  <2>6. first(n + 1) = first(n) \o <<word>>
    BY <1>5, <2>2, AppendIsConcat DEF Text
  <2> HIDE DEF a, b, word
  <2>7. a \o b \in Text
    BY <2>3, <2>4, ConcatProperties DEF Text
  <2>8. StripSsml(a \o b) = first(n) \o <<word>> /\ Complete(a \o b)
    BY <2>3, <2>4, StripConcat
  <2> QED BY <2>5, <2>6, <2>7, <2>8
<1> HIDE DEF P
<1>8. 0 \in S /\ \A n \in 0..(N - 1) : n \in S => n + 1 \in S
  BY <1>1, <1>6, <1>7
<1> HIDE DEF S
<1>9. N \in S
  <2>1. \A n \in 0..N : n \in S
    BY <1>1, <1>8, OneByOne
  <2>2. N \in 0..N
    <3>1. N \in Nat
      BY <1>1
    <3> HIDE DEF N
    <3> QED BY <3>1
  <2> QED BY <2>1, <2>2
<1> QED BY <1>3, <1>5, <1>9 DEF P, S

\* ... and with an index mark in it, in a speak element.
LEMMA MarksAreUndone ==
  ASSUME NEW t \in Text, NEW mark \in 0..Len(t)
  PROVE  WithMarks(t, mark) \in Text /\ StripSsml(WithMarks(t, mark)) = t
<1> DEFINE s1 == SubSeq(t, 1, mark)
           s2 == SubSeq(t, mark + 1, Len(t))
           a == <<"<", "speak", ">">>
           b == EscapeSsml(s1)
           c == <<"<", "mark", "/", ">">>
           d == EscapeSsml(s2)
           f == <<"<", "/", "speak", ">">>
<1>1. Len(t) \in Nat
  BY LenProperties DEF Text
<1>2. s1 \in Text /\ s2 \in Text /\ s1 \o s2 = t
  <2>1. s1 \in Text
    BY FirstOnes DEF Text
  <2>2. s2 \in Text
    <3>1. \A i \in (mark + 1)..Len(t) : t[i] \in Words
      BY <1>1, ElementOfSeq DEF Text
    <3>2. mark + 1 \in Int /\ Len(t) \in Int
      BY <1>1
    <3> QED BY <3>1, <3>2, SubSeqProperties DEF Text
  <2>3. s1 \o s2 = SubSeq(t, 1, Len(t))
    <3>1. 1 \in 1..(Len(t) + 1) /\ mark \in (1 - 1)..Len(t) /\ Len(t) \in mark..Len(t)
      BY <1>1
    <3> QED BY <3>1, ConcatAdjacentSubSeq DEF Text
  <2>4. SubSeq(t, 1, Len(t)) = t
    BY FirstOnes DEF Text
  <2>5. s1 \o s2 = t
    BY <2>3, <2>4
  <2> HIDE DEF s1, s2
  <2> QED BY <2>1, <2>2, <2>5
<1> HIDE DEF s1, s2
<1>3. {"<", "/", ">", "speak", "mark"} \subseteq Words
  BY WordsAssumption DEF Signs
<1>4. a \in Text /\ StripSsml(a) = <<>> /\ Complete(a)
  <2>1. a \in Text /\ Len(a) = 3 /\ a[1] = "<" /\ a[2] = "speak" /\ a[3] = ">"
    BY <1>3 DEF Text
  <2> HIDE DEF a
  <2>2. Len(a) >= 2 /\ a[Len(a)] = ">"
    BY <2>1
  <2>3. \A k \in 2..(Len(a) - 1) : a[k] \notin {"<", ">"}
    <3>1. \A k \in 2..(Len(a) - 1) : k = 2
      BY <2>1
    <3> QED BY <2>1, <3>1
  <2> QED BY <2>1, <2>2, <2>3, TagGoes
<1>5. c \in Text /\ StripSsml(c) = <<>> /\ Complete(c)
  <2>1. /\ c \in Text /\ Len(c) = 4 /\ c[1] = "<" /\ c[4] = ">"
        /\ c[2] \notin {"<", ">"} /\ c[3] \notin {"<", ">"}
    <3>1. c \in Text /\ Len(c) = 4 /\ c[1] = "<" /\ c[2] = "mark" /\ c[3] = "/" /\ c[4] = ">"
      BY <1>3 DEF Text
    <3> HIDE DEF c
    <3> QED BY <3>1, Zenon
  <2> HIDE DEF c
  <2>2. Len(c) >= 2 /\ c[Len(c)] = ">"
    BY <2>1
  <2>3. \A k \in 2..(Len(c) - 1) : c[k] \notin {"<", ">"}
    <3>1. \A k \in 2..(Len(c) - 1) : k = 2 \/ k = 3
      BY <2>1
    <3> QED BY <2>1, <3>1
  <2> QED BY <2>1, <2>2, <2>3, TagGoes
<1>6. f \in Text /\ StripSsml(f) = <<>> /\ Complete(f)
  <2>1. /\ f \in Text /\ Len(f) = 4 /\ f[1] = "<" /\ f[4] = ">"
        /\ f[2] \notin {"<", ">"} /\ f[3] \notin {"<", ">"}
    <3>1. f \in Text /\ Len(f) = 4 /\ f[1] = "<" /\ f[2] = "/" /\ f[3] = "speak" /\ f[4] = ">"
      BY <1>3 DEF Text
    <3> HIDE DEF f
    <3> QED BY <3>1, Zenon
  <2> HIDE DEF f
  <2>2. Len(f) >= 2 /\ f[Len(f)] = ">"
    BY <2>1
  <2>3. \A k \in 2..(Len(f) - 1) : f[k] \notin {"<", ">"}
    <3>1. \A k \in 2..(Len(f) - 1) : k = 2 \/ k = 3
      BY <2>1
    <3> QED BY <2>1, <3>1
  <2> QED BY <2>1, <2>2, <2>3, TagGoes
<1>7. b \in Text /\ StripSsml(b) = s1 /\ Complete(b) /\ d \in Text
      /\ StripSsml(d) = s2 /\ Complete(d)
  BY <1>2, TextIsUndone
<1>8. WithMarks(t, mark) = (((a \o b) \o c) \o d) \o f
  BY DEF WithMarks, s1, s2
<1> HIDE DEF a, b, c, d, f
<1>9. /\ a \o b \in Text /\ (a \o b) \o c \in Text /\ ((a \o b) \o c) \o d \in Text
      /\ (((a \o b) \o c) \o d) \o f \in Text
  BY <1>4, <1>5, <1>6, <1>7, ConcatProperties DEF Text
<1>10. <<>> \o s1 = s1 /\ s1 \o <<>> = s1 /\ t \o <<>> = t
  BY <1>2, ConcatEmptySeq DEF Text
<1>11. StripSsml(a \o b) = s1 /\ Complete(a \o b)
  <2>1. StripSsml(a \o b) = StripSsml(a) \o StripSsml(b) /\ Complete(a \o b)
    BY <1>4, <1>7, StripConcat
  <2> QED BY <1>4, <1>7, <1>10, <2>1
<1>12. StripSsml((a \o b) \o c) = s1 /\ Complete((a \o b) \o c)
  <2> DEFINE u == a \o b
  <2>1. u \in Text /\ Complete(u) /\ StripSsml(u) = s1
    BY <1>9, <1>11
  <2> HIDE DEF u
  <2>2. StripSsml(u \o c) = StripSsml(u) \o StripSsml(c) /\ Complete(u \o c)
    BY <1>5, <2>1, StripConcat
  <2> QED BY <1>5, <1>10, <2>1, <2>2 DEF u
<1>13. StripSsml(((a \o b) \o c) \o d) = t /\ Complete(((a \o b) \o c) \o d)
  <2> DEFINE u == (a \o b) \o c
  <2>1. u \in Text /\ Complete(u) /\ StripSsml(u) = s1
    BY <1>9, <1>12
  <2> HIDE DEF u
  <2>2. StripSsml(u \o d) = StripSsml(u) \o StripSsml(d) /\ Complete(u \o d)
    BY <1>7, <2>1, StripConcat
  <2> QED BY <1>2, <1>7, <2>1, <2>2 DEF u
<1>14. StripSsml((((a \o b) \o c) \o d) \o f) = t
  <2> DEFINE u == ((a \o b) \o c) \o d
  <2>1. u \in Text /\ Complete(u) /\ StripSsml(u) = t
    BY <1>9, <1>13
  <2> HIDE DEF u
  <2>2. StripSsml(u \o f) = StripSsml(u) \o StripSsml(f)
    BY <1>6, <2>1, StripConcat
  <2> QED BY <1>6, <1>10, <2>1, <2>2 DEF u
<1> QED BY <1>8, <1>9, <1>14

-----------------------------------------------------------------------------
(***************************************************************************)
(* Lines                                                                   *)
(***************************************************************************)
LineEnds(t) == {i \in DOMAIN t : t[i] = "newline"}
Edges(t) == <<0>> \o InOrder(LineEnds(t)) \o <<Len(t) + 1>>

\* Lines lie between edges.
LEMMA EdgesAre ==
  ASSUME NEW t \in Text
  PROVE  LET M == Cardinality(LineEnds(t)) + 1
             edges == Edges(t)
         IN  /\ M \in Nat \ {0}
             /\ \A i \in 1..(M + 1) : edges[i] \in 0..(Len(t) + 1)
             /\ edges[1] = 0 /\ edges[M + 1] = Len(t) + 1
             /\ \A i \in 1..M : edges[i] < edges[i + 1]
             /\ \A i \in 2..M : edges[i] \in 1..Len(t) /\ t[edges[i]] = "newline"
             /\ SplitLines(t) =
                  [i \in 1..M |-> SubSeq(t, edges[i] + 1, edges[i + 1] - 1)]
<1> DEFINE C == Cardinality(LineEnds(t))
           o == InOrder(LineEnds(t))
           last == Len(t) + 1
           edges == Edges(t)
<1>1. Len(t) \in Nat /\ DOMAIN t = 1..Len(t)
  BY LenProperties DEF Text
<1>2. LineEnds(t) \in SUBSET Nat /\ IsFiniteSet(LineEnds(t))
  <2>1. \A n \in LineEnds(t) : n \in 0..Len(t)
    BY <1>1 DEF LineEnds
  <2> QED BY <1>1, <2>1, Parts
<1>3. /\ C \in Nat /\ o \in Seq(LineEnds(t)) /\ Len(o) = C
      /\ \A i, j \in 1..C : i < j => o[i] < o[j]
  BY <1>2, Ordered, FS_CardinalityType
<1>4. \A i \in 1..C : o[i] \in 1..Len(t) /\ t[o[i]] = "newline"
  <2>1. \A i \in 1..C : o[i] \in LineEnds(t)
    BY <1>3, ElementOfSeq
  <2> QED BY <1>1, <2>1 DEF LineEnds
<1>5. SplitLines(t) = [i \in 1..(C + 1) |-> SubSeq(t, edges[i] + 1, edges[i + 1] - 1)]
  <2>1. SplitLines(t)
        = [i \in 1..(Len(o) + 1) |-> SubSeq(t, edges[i] + 1, edges[i + 1] - 1)]
    BY DEF SplitLines, Edges, LineEnds
  <2> QED BY <1>3, <2>1
<1>6. /\ edges \in Seq(Nat) /\ Len(edges) = C + 2 /\ edges[1] = 0
      /\ edges[C + 2] = last /\ \A i \in 1..C : edges[i + 1] = o[i]
  <2> DEFINE a == <<0>>
             b == <<last>>
             u == a \o o
  <2>1. a \in Seq(Nat) /\ Len(a) = 1 /\ a[1] = 0
    OBVIOUS
  <2>2. b \in Seq(Nat) /\ Len(b) = 1 /\ b[1] = last
    BY <1>1
  <2>3. o \in Seq(Nat)
    BY <1>2, <1>3, SeqMonotonic
  <2> HIDE DEF a, b, o, last
  <2>4. /\ u \in Seq(Nat) /\ Len(u) = C + 1
        /\ \A i \in 1..(1 + C) : u[i] = IF i <= 1 THEN a[i] ELSE o[i - 1]
    <3>1. /\ u \in Seq(Nat) /\ Len(u) = Len(a) + Len(o)
          /\ \A i \in 1..(Len(a) + Len(o)) :
               u[i] = IF i <= Len(a) THEN a[i] ELSE o[i - Len(a)]
      BY <2>1, <2>3, ConcatProperties
    <3> HIDE DEF u, C
    <3> QED BY <1>3, <2>1, <3>1
  <2>5. edges = u \o b
    BY DEF Edges, a, b, o, last
  <2> HIDE DEF u, edges
  <2>6. /\ edges \in Seq(Nat) /\ Len(edges) = (C + 1) + 1
        /\ \A i \in 1..((C + 1) + 1) :
             edges[i] = IF i <= C + 1 THEN u[i] ELSE b[i - (C + 1)]
    <3>1. u \in Seq(Nat) /\ Len(u) = C + 1
      BY <2>4
    <3>2. /\ edges \in Seq(Nat) /\ Len(edges) = Len(u) + Len(b)
          /\ \A i \in 1..(Len(u) + Len(b)) :
               edges[i] = IF i <= Len(u) THEN u[i] ELSE b[i - Len(u)]
      BY <2>2, <2>5, <3>1, ConcatProperties
    <3> HIDE DEF C
    <3> QED BY <2>2, <3>1, <3>2
  <2> HIDE DEF C
  <2>7. edges[1] = 0
    <3>1. 1 \in 1..((C + 1) + 1) /\ 1 \in 1..(1 + C) /\ 1 <= C + 1
      BY <1>3
    <3> QED BY <2>1, <2>4, <2>6, <3>1
  <2>8. edges[C + 2] = last
    <3>1. C + 2 \in 1..((C + 1) + 1) /\ ~(C + 2 <= C + 1) /\ (C + 2) - (C + 1) = 1
      BY <1>3
    <3> QED BY <2>2, <2>6, <3>1
  <2>9. ASSUME NEW i \in 1..C
        PROVE  edges[i + 1] = o[i]
    <3>1. i + 1 \in 1..((C + 1) + 1) /\ i + 1 \in 1..(1 + C) /\ i + 1 <= C + 1
          /\ ~(i + 1 <= 1) /\ (i + 1) - 1 = i
      BY <1>3
    <3> QED BY <2>4, <2>6, <3>1
  <2> QED BY <1>3, <2>6, <2>7, <2>8, <2>9
<1> HIDE DEF o, edges, C
<1>7. ASSUME NEW i \in 2..(C + 1)
      PROVE  edges[i] \in 1..Len(t) /\ t[edges[i]] = "newline"
  <2>1. i - 1 \in 1..C /\ (i - 1) + 1 = i
    BY <1>3
  <2>2. edges[i] = o[i - 1]
    BY <1>6, <2>1
  <2> QED BY <1>4, <2>1, <2>2
<1>8. ASSUME NEW i \in 1..(C + 1)
      PROVE  edges[i] < edges[i + 1]
  <2>1. CASE i = 1 /\ C = 0
    <3>1. i + 1 = C + 2
      BY <2>1
    <3> QED BY <1>1, <1>6, <2>1, <3>1
  <2>2. CASE i = 1 /\ C # 0
    <3>1. i + 1 \in 2..(C + 1)
      BY <1>3, <2>2
    <3>2. edges[i + 1] \in 1..Len(t)
      BY <1>7, <3>1
    <3> QED BY <1>1, <1>6, <2>2, <3>2
  <2>3. CASE i # 1 /\ i = C + 1
    <3>1. i \in 2..(C + 1) /\ i + 1 = C + 2
      BY <1>3, <2>3
    <3>2. edges[i] \in 1..Len(t) /\ edges[i + 1] = Len(t) + 1
      BY <1>6, <1>7, <3>1
    <3> QED BY <1>1, <3>2
  <2>4. CASE i # 1 /\ i # C + 1
    <3>1. i - 1 \in 1..C /\ i \in 1..C /\ i - 1 < i /\ (i - 1) + 1 = i
      BY <1>3, <2>4
    <3>2. edges[i] = o[i - 1] /\ edges[i + 1] = o[i]
      BY <1>6, <3>1
    <3> QED BY <1>3, <3>1, <3>2
  <2> QED BY <2>1, <2>2, <2>3, <2>4
<1>9. ASSUME NEW i \in 1..(C + 2)
      PROVE  edges[i] \in 0..last
  <2>1. i = 1 \/ i = C + 2 \/ i \in 2..(C + 1)
    BY <1>3
  <2> QED BY <1>1, <1>6, <1>7, <2>1
<1>10. C + 1 \in Nat \ {0} /\ (C + 1) + 1 = C + 2
  BY <1>3
<1> QED BY <1>5, <1>6, <1>7, <1>8, <1>9, <1>10 DEF C, edges

\* The lines of a text, one after the other, are the text.
LEMMA LinesAreJoined ==
  ASSUME NEW t \in Text
  PROVE  SplitLines(t) \in Seq(Text) /\ JoinLines(SplitLines(t)) = t
<1> DEFINE M == Cardinality(LineEnds(t)) + 1
           edges == Edges(t)
           piece(i) == SubSeq(t, edges[i] + 1, edges[i + 1] - 1)
           part(i) == IF i = 1 THEN piece(i) ELSE <<"newline">> \o piece(i)
           parts == [i \in 1..M |-> part(i)]
<1>1. Len(t) \in Nat /\ DOMAIN t = 1..Len(t) /\ \A i \in 1..Len(t) : t[i] \in Words
  BY LenProperties, ElementOfSeq DEF Text
<1>2. /\ M \in Nat \ {0}
      /\ \A i \in 1..(M + 1) : edges[i] \in 0..(Len(t) + 1)
      /\ edges[1] = 0 /\ edges[M + 1] = Len(t) + 1
      /\ \A i \in 1..M : edges[i] < edges[i + 1]
      /\ \A i \in 2..M : edges[i] \in 1..Len(t) /\ t[edges[i]] = "newline"
      /\ SplitLines(t) = [i \in 1..M |-> piece(i)]
  BY EdgesAre
<1> HIDE DEF M, edges
<1>3. M \in Nat \ {0}
  BY <1>2
<1>4. \A i \in 1..(M + 1) : edges[i] \in 0..(Len(t) + 1)
  BY <1>2
<1>5. ASSUME NEW i \in 1..M
      PROVE  piece(i) \in Text
  <2>1. /\ i \in 1..(M + 1) /\ i + 1 \in 1..(M + 1)
        /\ edges[i] \in 0..(Len(t) + 1) /\ edges[i + 1] \in 0..(Len(t) + 1)
    <3>1. i \in 1..(M + 1) /\ i + 1 \in 1..(M + 1)
      BY <1>3
    <3> QED BY <1>4, <3>1
  <2>2. /\ edges[i] + 1 \in Int /\ edges[i + 1] - 1 \in Int
        /\ \A j \in (edges[i] + 1)..(edges[i + 1] - 1) : j \in 1..Len(t)
    <3>1. Len(t) \in Nat
      BY <1>1
    <3> QED BY <2>1, <3>1
  <2>3. \A j \in (edges[i] + 1)..(edges[i + 1] - 1) : t[j] \in Words
    BY <1>1, <2>2
  <2> QED BY <2>2, <2>3, SubSeqProperties DEF Text
<1>6. SplitLines(t) \in Seq(Text)
  <2> HIDE DEF piece
  <2> QED BY <1>2, <1>5, IsASeq
<1>7. ASSUME NEW i \in 2..M
      PROVE  part(i) = SubSeq(t, edges[i], edges[i + 1] - 1)
  <2>1. /\ i \in 1..M /\ i # 1 /\ i + 1 \in 1..(M + 1)
        /\ edges[i] \in 1..Len(t) /\ t[edges[i]] = "newline"
        /\ edges[i + 1] \in 0..(Len(t) + 1) /\ edges[i] < edges[i + 1]
    <3>1. i \in 1..M /\ i # 1 /\ i + 1 \in 1..(M + 1)
      BY <1>3
    <3>2. edges[i + 1] \in 0..(Len(t) + 1)
      BY <1>4, <3>1
    <3> QED BY <1>2, <3>1, <3>2
  <2>2. edges[i + 1] - 1 \in edges[i]..Len(t)
    BY <1>1, <2>1
  <2>3. SubSeq(t, edges[i], edges[i + 1] - 1) = <<t[edges[i]]>> \o piece(i)
    BY <2>1, <2>2, SubSeqRecursiveFirst DEF Text
  <2> QED BY <2>1, <2>3
<1>8. parts \in Seq(Text) /\ Len(parts) = M
  <2>1. ASSUME NEW i \in 1..M
        PROVE  part(i) \in Text
    <3>1. "newline" \in Words
      BY WordsAssumption DEF Signs
    <3>2. <<"newline">> \in Text
      BY <3>1 DEF Text
    <3>3. piece(i) \in Text
      BY <1>5
    <3> HIDE DEF piece
    <3>4. <<"newline">> \o piece(i) \in Text
      BY <3>2, <3>3, ConcatProperties DEF Text
    <3> QED BY <3>3, <3>4
  <2> HIDE DEF part
  <2>2. parts \in Seq(Text)
    BY <1>2, <2>1, IsASeq
  <2>3. parts \in [1..M -> Text]
    BY <2>1
  <2> HIDE DEF parts
  <2> QED BY <1>2, <2>2, <2>3, LenProperties
<1>9. \A i \in 1..M : parts[i] = part(i)
  OBVIOUS
<1>10. JoinLines(SplitLines(t)) = FlattenSeq(parts)
  <2> DEFINE lines == SplitLines(t)
  <2>1. DOMAIN lines = 1..M /\ \A i \in 1..M : lines[i] = piece(i)
    BY <1>2
  <2> HIDE DEF lines, piece
  <2>2. [i \in DOMAIN lines |-> IF i = 1 THEN lines[i] ELSE <<"newline">> \o lines[i]]
        = parts
    BY <2>1
  <2> QED BY <2>2 DEF JoinLines, lines
<1> HIDE DEF parts
<1> DEFINE P(n) == FlattenSeq(SubSeq(parts, 1, n)) = SubSeq(t, 1, edges[n + 1] - 1)
           S == {n \in 0..M : P(n)}
<1>11. /\ SubSeq(parts, 1, 0) = <<>> /\ SubSeq(parts, 1, M) = parts
       /\ \A n \in 0..M : SubSeq(parts, 1, n) \in Seq(Text)
       /\ \A n \in 0..(M - 1) :
            SubSeq(parts, 1, n + 1) = Append(SubSeq(parts, 1, n), parts[n + 1])
  BY <1>8, FirstOnes
<1>12. P(0)
  <2>1. 0 + 1 = 1 /\ edges[1] - 1 < 1 /\ edges[1] - 1 \in Int
    BY <1>2
  <2>2. SubSeq(t, 1, edges[1] - 1) = <<>>
    BY <2>1, SubSeqEmpty
  <2> QED BY <1>11, <2>1, <2>2, FlatEmpty
<1>13. ASSUME NEW n \in 0..(M - 1), P(n)
       PROVE  P(n + 1)
  <2>1. n \in 0..M /\ n + 1 \in 1..M /\ n + 1 \in 1..(M + 1) /\ (n + 1) + 1 \in 1..(M + 1)
    BY <1>2
  <2>2. parts[n + 1] = part(n + 1) /\ parts[n + 1] \in Text
    BY <1>8, <1>9, <2>1, ElementOfSeq
  <2> HIDE DEF part
  <2> DEFINE before == SubSeq(parts, 1, n)
             next == parts[n + 1]
  <2>3. FlattenSeq(Append(before, next)) = FlattenSeq(before) \o next
    <3>1. before \in Seq(Seq(Words)) /\ next \in Seq(Words)
      BY <1>11, <2>1, <2>2 DEF Text
    <3> HIDE DEF before, next
    <3> QED BY <3>1, FlatAppend
  <2>4. FlattenSeq(SubSeq(parts, 1, n + 1)) = SubSeq(t, 1, edges[n + 1] - 1) \o next
    BY <1>11, <1>13, <2>3
  <2>5. CASE n = 0
    <3>1. SubSeq(t, 1, edges[n + 1] - 1) = <<>>
      <4>1. edges[n + 1] - 1 < 1 /\ edges[n + 1] - 1 \in Int
        <5>1. edges[1] = 0 /\ n + 1 = 1
          BY <1>2, <2>5
        <5> QED BY <5>1
      <4> QED BY <4>1, SubSeqEmpty
    <3>2. <<>> \o next = next
      BY <2>2, ConcatEmptySeq DEF Text
    <3>3. next = SubSeq(t, 1, edges[(n + 1) + 1] - 1)
      BY <1>2, <2>2, <2>5 DEF part
    <3> QED BY <2>4, <3>1, <3>2, <3>3
  <2>6. CASE n # 0
    <3>1. n + 1 \in 2..M
      BY <2>1, <2>6
    <3>2. next = SubSeq(t, edges[n + 1], edges[(n + 1) + 1] - 1)
      BY <1>7, <2>2, <3>1 DEF part
    <3> DEFINE k == edges[n + 1] - 1
               m == edges[(n + 1) + 1] - 1
    <3>3. /\ 1 \in 1..(Len(t) + 1) /\ k \in (1 - 1)..Len(t) /\ m \in k..Len(t)
          /\ edges[n + 1] = k + 1
      <4>1. /\ edges[n + 1] \in 1..Len(t) /\ edges[n + 1] < edges[(n + 1) + 1]
            /\ edges[(n + 1) + 1] \in 0..(Len(t) + 1)
        BY <1>2, <2>1, <3>1
      <4>2. Len(t) \in Nat
        BY <1>1
      <4> QED BY <4>1, <4>2
    <3> HIDE DEF k, m
    <3>4. SubSeq(t, 1, k) \o SubSeq(t, k + 1, m) = SubSeq(t, 1, m)
      BY <3>3, ConcatAdjacentSubSeq DEF Text
    <3> QED BY <2>4, <3>2, <3>3, <3>4 DEF k, m
  <2> QED BY <2>5, <2>6
<1> HIDE DEF P
<1>14. 0 \in S /\ \A n \in 0..(M - 1) : n \in S => n + 1 \in S
  BY <1>2, <1>12, <1>13
<1> HIDE DEF S
<1>15. M \in S
  <2>1. \A n \in 0..M : n \in S
    BY <1>2, <1>14, OneByOne
  <2>2. M \in 0..M
    BY <1>2
  <2> QED BY <2>1, <2>2
<1>16. FlattenSeq(parts) = SubSeq(t, 1, edges[M + 1] - 1)
  BY <1>11, <1>15 DEF P, S
<1>17. edges[M + 1] - 1 = Len(t)
  BY <1>1, <1>2
<1>18. SubSeq(t, 1, Len(t)) = t
  BY FirstOnes DEF Text
<1> QED BY <1>6, <1>10, <1>16, <1>17, <1>18

\* The dot put before a line's dot is taken away.
LEMMA StuffingIsUndone ==
  ASSUME NEW lines \in Seq(Text)
  PROVE  /\ Stuffed(lines) \in Seq(Text) /\ Len(Stuffed(lines)) = Len(lines)
         /\ \A i \in 1..Len(lines) : Unstuff(Stuffed(lines)[i]) = lines[i]
<1> DEFINE stuffed(line) == IF line # <<>> /\ line[1] = "." THEN <<".">> \o line ELSE line
           s == [i \in 1..Len(lines) |-> stuffed(lines[i])]
<1>1. Len(lines) \in Nat /\ DOMAIN lines = 1..Len(lines)
      /\ \A i \in 1..Len(lines) : lines[i] \in Text
  BY LenProperties, ElementOfSeq
<1>2. ASSUME NEW line \in Text
      PROVE  stuffed(line) \in Text /\ Unstuff(stuffed(line)) = line
  <2>1. CASE line # <<>> /\ line[1] = "."
    <3> DEFINE dot == <<".">>
               more == dot \o line
    <3>1. "." \in Words
      BY WordsAssumption DEF Signs
    <3>2. dot \in Text /\ Len(dot) = 1 /\ dot[1] = "."
      BY <3>1 DEF Text
    <3> HIDE DEF dot
    <3>3. Len(line) \in Nat
      BY LenProperties DEF Text
    <3>4. /\ more \in Text /\ Len(more) = 1 + Len(line)
          /\ \A i \in 1..(1 + Len(line)) : more[i] = IF i <= 1 THEN dot[i] ELSE line[i - 1]
      <4>1. /\ more \in Text /\ Len(more) = Len(dot) + Len(line)
            /\ \A i \in 1..(Len(dot) + Len(line)) :
                 more[i] = IF i <= Len(dot) THEN dot[i] ELSE line[i - Len(dot)]
        BY <3>2, ConcatProperties DEF Text
      <4> HIDE DEF more
      <4> QED BY <3>2, <4>1
    <3> HIDE DEF more
    <3>5. more # <<>> /\ more[1] = "."
      BY <3>2, <3>3, <3>4, EmptySeq
    <3>6. /\ Tail(more) \in Text /\ Len(Tail(more)) = Len(line)
          /\ \A i \in 1..Len(line) : Tail(more)[i] = more[i + 1]
      BY <3>3, <3>4, <3>5, HeadTailProperties DEF Text
    <3>7. \A i \in 1..Len(line) : more[i + 1] = line[i]
      <4>1. \A i \in 1..Len(line) :
              i + 1 \in 1..(1 + Len(line)) /\ ~(i + 1 <= 1) /\ (i + 1) - 1 = i
        BY <3>3
      <4> QED BY <3>4, <4>1
    <3> DEFINE rest == Tail(more)
    <3>8. rest \in Text /\ Len(rest) = Len(line) /\ \A i \in 1..Len(rest) : rest[i] = line[i]
      BY <3>6, <3>7
    <3> HIDE DEF rest
    <3>9. rest = line
      BY <3>8, SeqEqual DEF Text
    <3>10. stuffed(line) = more
      BY <2>1 DEF more, dot
    <3> HIDE DEF stuffed
    <3>11. Unstuff(more) = rest
      BY <3>5 DEF Unstuff, rest
    <3> QED BY <3>4, <3>9, <3>10, <3>11
  <2>2. CASE ~(line # <<>> /\ line[1] = ".")
    BY <2>2 DEF Unstuff
  <2> QED BY <2>1, <2>2
<1>3. \A i \in 1..Len(lines) : stuffed(lines[i]) \in Text
  <2> HIDE DEF stuffed
  <2> QED BY <1>1, <1>2
<1>4. Stuffed(lines) = s
  BY <1>1 DEF Stuffed
<1>5. s \in Seq(Text) /\ Len(s) = Len(lines)
  <2> HIDE DEF stuffed
  <2>1. s \in Seq(Text)
    BY <1>1, <1>3, IsASeq
  <2>2. s \in [1..Len(lines) -> Text]
    BY <1>3
  <2> HIDE DEF s
  <2> QED BY <1>1, <2>1, <2>2, LenProperties
<1>6. ASSUME NEW i \in 1..Len(lines)
      PROVE  Unstuff(s[i]) = lines[i]
  <2>1. s[i] = stuffed(lines[i])
    OBVIOUS
  <2> HIDE DEF s, stuffed
  <2> QED BY <1>1, <1>2, <2>1
<1> HIDE DEF s
<1> QED BY <1>4, <1>5, <1>6

\* A message is what the user has written, when its lines have been read.
LEMMA MessageArrives ==
  ASSUME NEW t \in Text, NEW mark \in 0..Len(t)
  PROVE  LET lines == Message(t, mark).lines
         IN  /\ lines \in Seq(Text)
             /\ StripSsml(JoinLines([i \in 1..Len(lines) |-> Unstuff(lines[i])])) = t
<1> DEFINE ssml == WithMarks(t, mark)
           split == SplitLines(ssml)
           lines == Stuffed(split)
<1>1. Message(t, mark).lines = lines
  BY DEF Message
<1>2. ssml \in Text /\ StripSsml(ssml) = t
  BY MarksAreUndone
<1> HIDE DEF ssml
<1>3. split \in Seq(Text) /\ JoinLines(split) = ssml
  BY <1>2, LinesAreJoined
<1> HIDE DEF split
<1>4. /\ lines \in Seq(Text) /\ Len(lines) = Len(split)
      /\ \A i \in 1..Len(split) : Unstuff(lines[i]) = split[i]
  BY <1>3, StuffingIsUndone
<1> HIDE DEF lines
<1>5. [i \in 1..Len(lines) |-> Unstuff(lines[i])] = split
  <2>1. split = [i \in 1..Len(split) |-> split[i]]
    BY <1>3, LenProperties
  <2> QED BY <1>4, <2>1
<1> QED BY <1>1, <1>2, <1>3, <1>4, <1>5

-----------------------------------------------------------------------------
(***************************************************************************)
(* Audio                                                                   *)
(***************************************************************************)
\* The decoder goes through a line byte after byte.
LEMMA DecodeSteps ==
  ASSUME NEW line, Len(line) \in Nat
  PROVE  \E f : /\ f[0] = [escaped |-> FALSE, out |-> <<>>]
                /\ \A i \in 1..Len(line) : f[i] = DecodeByte(f[i - 1], line[i])
                /\ Decode(line) = f[Len(line)]
<1> DEFINE N == Len(line)
           start == [escaped |-> FALSE, out |-> <<>>]
           Body(g, n) == [i \in 0..n |-> IF i = 0 THEN start
                                         ELSE DecodeByte(g[i - 1], line[i])]
           f == CHOOSE g : g = Body(g, N)
<1>1. Decode(line) = f[N]
  BY DEF Decode
<1> HIDE DEF start
<1>2. \E g : g = Body(g, N)
  <2> DEFINE P(n) == \E g : g = Body(g, n)
             S == {n \in 0..N : P(n)}
  <2>1. P(0)
    <3> DEFINE g == [i \in 0..0 |-> start]
    <3>1. g = Body(g, 0)
      OBVIOUS
    <3> HIDE DEF g, Body
    <3> QED BY <3>1
  <2>2. ASSUME NEW n \in 0..(N - 1), P(n)
        PROVE  P(n + 1)
    <3>1. PICK g : g = Body(g, n)
      BY <2>2
    <3> DEFINE h == [i \in 0..(n + 1) |-> IF i = 0 THEN start
                                          ELSE DecodeByte(g[i - 1], line[i])]
    <3>2. ASSUME NEW i \in 0..n
          PROVE  h[i] = g[i]
      <4>1. i \in 0..(n + 1)
        OBVIOUS
      <4>2. g[i] = Body(g, n)[i]
        BY <3>1
      <4> QED BY <4>1, <4>2
    <3>3. ASSUME NEW i \in 0..(n + 1), i # 0
          PROVE  h[i - 1] = g[i - 1]
      <4>1. i - 1 \in 0..n
        BY <3>3
      <4> QED BY <4>1, <3>2
    <3>4. h = Body(h, n + 1)
      <4> HIDE DEF h
      <4>1. h = [i \in 0..(n + 1) |-> IF i = 0 THEN start
                                      ELSE DecodeByte(g[i - 1], line[i])]
        BY DEF h
      <4> QED BY <3>3, <4>1
    <3> HIDE DEF h, Body
    <3> QED BY <3>4
  <2> HIDE DEF P
  <2>3. 0 \in S /\ \A n \in 0..(N - 1) : n \in S => n + 1 \in S
    BY <2>1, <2>2
  <2> HIDE DEF S
  <2>4. \A n \in 0..N : n \in S
    BY <2>3, OneByOne
  <2>5. P(N)
    BY <2>4 DEF S
  <2> QED BY <2>5 DEF P
<1>3. f = Body(f, N)
  <2> HIDE DEF Body
  <2> QED BY <1>2
<1> HIDE DEF f
<1>4. \A i \in 0..N : f[i] = IF i = 0 THEN start ELSE DecodeByte(f[i - 1], line[i])
  BY <1>3, Zenon
<1>5. f[0] = start /\ \A i \in 1..N : f[i] = DecodeByte(f[i - 1], line[i])
  <2>1. 0 \in 0..N /\ \A i \in 1..N : i \in 0..N /\ i # 0
    OBVIOUS
  <2> QED BY <1>4, <2>1
<1> QED BY <1>1, <1>5 DEF start

\* A byte and what stands for it.
LEMMA BytesAre ==
  ASSUME NEW b \in Bytes
  PROVE  /\ EscapeByte(b) \in Seq(Bytes \ {10})
         /\ b \in {125, 10} => /\ EscapeByte(b) = <<125, Flip(b)>>
                               /\ Flip(Flip(b)) = b
         /\ b \notin {125, 10} => EscapeByte(b) = <<b>> /\ b # 125
<1>1. Flip(125) = 93 /\ Flip(93) = 125 /\ Flip(10) = 42 /\ Flip(42) = 10
  BY DEF Flip
<1>2. CASE b = 125
  BY <1>1, <1>2 DEF EscapeByte, Bytes
<1>3. CASE b = 10
  BY <1>1, <1>3 DEF EscapeByte, Bytes
<1>4. CASE b \notin {125, 10}
  BY <1>4 DEF EscapeByte
<1> QED BY <1>2, <1>3, <1>4

\* The audio that was escaped has no newline in it, and is itself again.
LEMMA AudioIsUndone ==
  ASSUME NEW pcm \in Seq(Bytes)
  PROVE  /\ HdlcEscape(pcm) \in Seq(Bytes \ {10})
         /\ Decode(HdlcEscape(pcm)).out = pcm
<1> DEFINE Y == Bytes \ {10}
           e == [b \in Bytes |-> EscapeByte(b)]
           N == Len(pcm)
           first(n) == SubSeq(pcm, 1, n)
           x == Each(e, pcm)
           k(n) == Len(Each(e, first(n)))
<1>1. N \in Nat /\ DOMAIN pcm = 1..N /\ \A i \in 1..N : pcm[i] \in Bytes
  BY LenProperties, ElementOfSeq
<1>2. e \in Spellings(Bytes, Y) /\ \A b \in Bytes : e[b] = EscapeByte(b)
  BY BytesAre DEF Spellings
<1>3. HdlcEscape(pcm) = x
  <2>1. [i \in DOMAIN pcm |-> EscapeByte(pcm[i])] = [i \in DOMAIN pcm |-> e[pcm[i]]]
    <3> HIDE DEF e
    <3> QED BY <1>1, <1>2
  <2> HIDE DEF e
  <2> QED BY <2>1 DEF HdlcEscape, Each
<1> HIDE DEF e, Y
<1>4. /\ first(0) = <<>> /\ first(N) = pcm
      /\ \A n \in 0..N : first(n) \in Seq(Bytes)
      /\ \A n \in 0..(N - 1) : first(n + 1) = Append(first(n), pcm[n + 1])
  BY FirstOnes
<1>5. ASSUME NEW n \in 0..(N - 1)
      PROVE  \E rest \in Seq(Bytes) : pcm = first(n + 1) \o rest
  <2> DEFINE m == n + 1
             rest == SubSeq(pcm, m + 1, N)
  <2>1. m \in 0..N
    BY <1>1
  <2> HIDE DEF m
  <2>2. first(m) \o rest = SubSeq(pcm, 1, N)
    <3>1. 1 \in 1..(N + 1) /\ m \in (1 - 1)..N /\ N \in m..N
      BY <1>1, <2>1
    <3> QED BY <3>1, ConcatAdjacentSubSeq
  <2>3. rest \in Seq(Bytes)
    <3>1. m + 1 \in Int /\ N \in Int /\ \A i \in (m + 1)..N : i \in 1..N
      BY <1>1, <2>1
    <3>2. \A i \in (m + 1)..N : pcm[i] \in Bytes
      BY <1>1, <3>1
    <3> QED BY <3>1, <3>2, SubSeqProperties
  <2>4. pcm = first(m) \o rest
    BY <1>4, <2>2
  <2> HIDE DEF rest, first
  <2> QED BY <2>3, <2>4 DEF m
<1> HIDE DEF first
<1>6. ASSUME NEW s \in Seq(Bytes)
      PROVE  /\ Each(e, s) \in Seq(Y)
             /\ \A b \in Bytes : Each(e, Append(s, b)) = Each(e, s) \o e[b]
             /\ \A r \in Seq(Bytes) : Each(e, s \o r) = Each(e, s) \o Each(e, r)
  <2>1. e \in Spellings(Bytes, Y)
    BY <1>2
  <2> QED BY <2>1, EachIs
<1>7. x \in Seq(Y)
  BY <1>6
<1>8. ASSUME NEW n \in 0..(N - 1)
      PROVE  /\ k(n) \in Nat /\ k(n + 1) = k(n) + Len(EscapeByte(pcm[n + 1]))
             /\ k(n + 1) <= Len(x)
             /\ \A j \in 1..Len(EscapeByte(pcm[n + 1])) :
                  x[k(n) + j] = EscapeByte(pcm[n + 1])[j]
  <2> DEFINE b == pcm[n + 1]
             a == Each(e, first(n))
             w == EscapeByte(b)
             aw == Each(e, first(n + 1))
  <2>1. b \in Bytes /\ first(n) \in Seq(Bytes) /\ first(n + 1) \in Seq(Bytes)
        /\ first(n + 1) = Append(first(n), b)
    <3>1. n \in 0..N /\ n + 1 \in 0..N /\ n + 1 \in 1..N
      BY <1>1
    <3> QED BY <1>1, <1>4, <3>1
  <2>2. PICK rest \in Seq(Bytes) : pcm = first(n + 1) \o rest
    BY <1>5
  <2> DEFINE r == Each(e, rest)
  <2>3. a \in Seq(Y) /\ aw \in Seq(Y) /\ r \in Seq(Y) /\ aw = a \o e[b] /\ x = aw \o r
    <3> HIDE DEF b
    <3>1. a \in Seq(Y) /\ aw \in Seq(Y) /\ r \in Seq(Y)
      BY <1>6, <2>1
    <3>2. aw = a \o e[b]
      BY <1>6, <2>1
    <3>3. x = aw \o r
      BY <1>6, <2>1, <2>2
    <3> QED BY <3>1, <3>2, <3>3
  <2>4. e[b] = w /\ w \in Seq(Y)
    <3> HIDE DEF b
    <3> QED BY <1>2, <2>1, BytesAre DEF Y
  <2> HIDE DEF a, w, aw, r, x
  <2>5. Len(a) \in Nat /\ Len(w) \in Nat /\ Len(r) \in Nat
    BY <2>3, <2>4, LenProperties
  <2>6. /\ Len(aw) = Len(a) + Len(w)
        /\ \A i \in 1..(Len(a) + Len(w)) :
             aw[i] = IF i <= Len(a) THEN a[i] ELSE w[i - Len(a)]
    BY <2>3, <2>4, ConcatProperties
  <2>7. /\ Len(x) = Len(aw) + Len(r)
        /\ \A i \in 1..(Len(aw) + Len(r)) :
             x[i] = IF i <= Len(aw) THEN aw[i] ELSE r[i - Len(aw)]
    BY <2>3, ConcatProperties
  <2>8. ASSUME NEW j \in 1..Len(w)
        PROVE  x[Len(a) + j] = w[j]
    <3>1. /\ Len(a) + j \in 1..(Len(a) + Len(w)) /\ ~(Len(a) + j <= Len(a))
          /\ (Len(a) + j) - Len(a) = j
          /\ Len(a) + j \in 1..(Len(aw) + Len(r)) /\ Len(a) + j <= Len(aw)
      BY <2>5, <2>6
    <3> QED BY <2>6, <2>7, <3>1
  <2>9. Len(aw) <= Len(x)
    BY <2>5, <2>6, <2>7
  <2> QED BY <2>5, <2>6, <2>8, <2>9 DEF a, w, aw
<1>9. k(0) = 0
  <2>1. Each(e, <<>>) = <<>>
    BY FlatEmpty DEF Each
  <2> QED BY <1>4, <2>1, EmptySeq
<1>10. k(N) = Len(x) /\ Len(x) \in Nat
  BY <1>4, <1>7, LenProperties
<1>11. PICK f : /\ f[0] = [escaped |-> FALSE, out |-> <<>>]
                /\ \A i \in 1..Len(x) : f[i] = DecodeByte(f[i - 1], x[i])
                /\ Decode(x) = f[Len(x)]
  <2> HIDE DEF x
  <2> QED BY <1>10, DecodeSteps
<1> HIDE DEF x, k
<1> DEFINE P(n) == f[k(n)] = [escaped |-> FALSE, out |-> first(n)]
           S == {n \in 0..N : P(n)}
<1>12. P(0)
  BY <1>4, <1>9, <1>11
<1>13. ASSUME NEW n \in 0..(N - 1), P(n)
       PROVE  P(n + 1)
  <2> DEFINE b == pcm[n + 1]
             w == EscapeByte(b)
             q == k(n)
  <2>1. b \in Bytes /\ first(n + 1) = Append(first(n), b)
    <3>1. n + 1 \in 1..N
      BY <1>1
    <3> QED BY <1>1, <1>4, <3>1
  <2>2. /\ q \in Nat /\ k(n + 1) = q + Len(w) /\ k(n + 1) <= Len(x)
        /\ \A j \in 1..Len(w) : x[q + j] = w[j]
    BY <1>8
  <2>3. f[q] = [escaped |-> FALSE, out |-> first(n)]
    BY <1>13
  <2> HIDE DEF b, q
  <2>4. CASE b \in {125, 10}
    <3>1. w = <<125, Flip(b)>> /\ Flip(Flip(b)) = b
      BY <2>1, <2>4, BytesAre
    <3>2. Len(w) = 2 /\ w[1] = 125 /\ w[2] = Flip(b)
      BY <3>1
    <3> HIDE DEF w
    <3>3. /\ k(n + 1) = q + 2 /\ x[q + 1] = 125 /\ x[q + 2] = Flip(b)
          /\ q + 1 \in 1..Len(x) /\ (q + 1) - 1 = q
          /\ q + 2 \in 1..Len(x) /\ (q + 2) - 1 = q + 1
      BY <1>10, <2>2, <3>2
    <3>4. f[q + 1] = DecodeByte(f[q], 125) /\ f[q + 2] = DecodeByte(f[q + 1], Flip(b))
      BY <1>11, <3>3
    <3>5. f[q + 1] = [escaped |-> TRUE, out |-> first(n)]
      BY <2>3, <3>4 DEF DecodeByte
    <3>6. f[q + 2] = [escaped |-> FALSE, out |-> Append(first(n), Flip(Flip(b)))]
      <4>1. f[q + 2] = DecodeByte(f[q + 1], Flip(b))
        BY <3>4
      <4>2. f[q + 1].escaped /\ f[q + 1].out = first(n)
        BY <3>5
      <4> QED BY <4>1, <4>2 DEF DecodeByte
    <3> QED BY <2>1, <3>1, <3>3, <3>6
  <2>5. CASE b \notin {125, 10}
    <3>1. w = <<b>> /\ b # 125
      BY <2>1, <2>5, BytesAre
    <3>2. Len(w) = 1 /\ w[1] = b
      BY <3>1
    <3> HIDE DEF w
    <3>3. /\ k(n + 1) = q + 1 /\ x[q + 1] = b
          /\ q + 1 \in 1..Len(x) /\ (q + 1) - 1 = q
      BY <1>10, <2>2, <3>2
    <3>4. f[q + 1] = DecodeByte(f[q], b)
      BY <1>11, <3>3
    <3>5. f[q + 1] = [escaped |-> FALSE, out |-> Append(first(n), b)]
      BY <2>3, <3>1, <3>4 DEF DecodeByte
    <3> QED BY <2>1, <3>3, <3>5
  <2> QED BY <2>4, <2>5
<1> HIDE DEF P
<1>14. 0 \in S /\ \A n \in 0..(N - 1) : n \in S => n + 1 \in S
  BY <1>1, <1>12, <1>13
<1> HIDE DEF S
<1>15. N \in S
  <2>1. N \in Nat
    BY <1>1
  <2> HIDE DEF N
  <2>2. \A n \in 0..N : n \in S
    BY <1>14, <2>1, OneByOne
  <2> QED BY <2>1, <2>2
<1>16. Decode(x).out = pcm
  BY <1>4, <1>10, <1>11, <1>15 DEF P, S
<1> QED BY <1>3, <1>7, <1>16 DEF Y

\* And so it is at the other end.
LEMMA AudioArrives ==
  ASSUME NEW pcm \in Seq(Bytes)
  PROVE  Unescaped(AudioEvent(pcm)) = pcm
<1> DEFINE x == HdlcEscape(pcm)
           bytes == x \o <<10>>
           ends == {i \in DOMAIN bytes : bytes[i] = 10}
           N == Len(x)
<1>1. x \in Seq(Bytes \ {10}) /\ Decode(x).out = pcm
  BY AudioIsUndone
<1> HIDE DEF x
<1>2. N \in Nat /\ x \in Seq(Nat) /\ \A i \in 1..N : x[i] # 10
  <2>1. Bytes \ {10} \subseteq Nat
    BY DEF Bytes
  <2>2. \A i \in 1..N : x[i] \in Bytes \ {10}
    BY <1>1, ElementOfSeq
  <2> QED BY <1>1, <2>1, <2>2, LenProperties, SeqMonotonic
<1>3. /\ bytes \in Seq(Nat) /\ Len(bytes) = N + 1
      /\ \A i \in 1..(N + 1) : bytes[i] = IF i <= N THEN x[i] ELSE 10
  <2> DEFINE b == <<10>>
  <2>1. b \in Seq(Nat) /\ Len(b) = 1 /\ b[1] = 10
    OBVIOUS
  <2> HIDE DEF b
  <2>2. /\ x \o b \in Seq(Nat) /\ Len(x \o b) = N + 1
        /\ \A i \in 1..(N + 1) : (x \o b)[i] = IF i <= N THEN x[i] ELSE b[i - N]
    <3>1. x \in Seq(Nat) /\ b \in Seq(Nat)
      BY <1>2, <2>1
    <3>2. /\ x \o b \in Seq(Nat) /\ Len(x \o b) = Len(x) + Len(b)
          /\ \A i \in 1..(Len(x) + Len(b)) :
               (x \o b)[i] = IF i <= Len(x) THEN x[i] ELSE b[i - Len(x)]
      BY <3>1, ConcatProperties
    <3> QED BY <2>1, <3>2
  <2>3. \A i \in 1..(N + 1) : ~(i <= N) => i - N = 1
    BY <1>2
  <2> QED BY <2>1, <2>2, <2>3 DEF b
<1> HIDE DEF bytes
<1>4. DOMAIN bytes = 1..(N + 1)
  BY <1>3, LenProperties
<1>5. ends = {N + 1}
  <2>1. \A i \in 1..(N + 1) : bytes[i] = 10 <=> i = N + 1
    BY <1>2, <1>3
  <2>2. N + 1 \in 1..(N + 1)
    BY <1>2
  <2> QED BY <1>4, <2>1, <2>2
<1> HIDE DEF ends
<1>6. Min(ends) = N + 1
  <2>1. ends \in SUBSET Nat /\ ends # {}
    <3>1. N + 1 \in Nat
      BY <1>2
    <3> QED BY <1>5, <3>1
  <2>3. IsFiniteSet(ends)
    BY <1>5, FS_Singleton
  <2>2. Min(ends) \in ends
    BY <2>1, <2>3, Least
  <2> QED BY <1>5, <2>2
<1>7. SubSeq(bytes, 1, N) = x
  <2> DEFINE y == SubSeq(bytes, 1, N)
  <2>1. N \in 0..Len(bytes)
    BY <1>2, <1>3
  <2>2. y \in Seq(Nat) /\ Len(y) = N /\ \A i \in 1..N : y[i] = bytes[i]
    BY <1>3, <2>1, FirstOnes
  <2>3. \A i \in 1..N : y[i] = x[i]
    BY <1>2, <1>3, <2>2
  <2> HIDE DEF y
  <2>4. y = x
    BY <1>2, <2>2, <2>3, SeqEqual
  <2> QED BY <2>4 DEF y
<1>8. (N + 1) - 1 = N
  BY <1>2
<1>9. AudioEvent(pcm) = bytes
  BY DEF AudioEvent, bytes, x
<1> QED BY <1>1, <1>6, <1>7, <1>8, <1>9 DEF Unescaped, ends

-----------------------------------------------------------------------------
(***************************************************************************)
(* Exchanges                                                               *)
(***************************************************************************)
\* All that is written for an exchange.
Writing(e) == <<<<e.command>>>> \o e.lines
              \o (IF e.command \in Multiline THEN <<Terminator>> ELSE <<>>)

\* A line of one word is that word.
LEMMA ParseIs ==
  ASSUME NEW c, c # "blank"
  PROVE  /\ Trim(<<c>>) = <<c>>
         /\ Parse(<<c>>) = IF c \in KnownCommands THEN c ELSE "UNKNOWN"
<1> DEFINE line == <<c>>
           ink == {i \in DOMAIN line : line[i] # "blank"}
<1>1. ink = {1}
  OBVIOUS
<1>2. Min(ink) = 1 /\ Max(ink) = 1
  <2>1. ink \in SUBSET Nat /\ ink # {} /\ IsFiniteSet(ink)
    BY <1>1, FS_Singleton
  <2> HIDE DEF ink
  <2>2. Min(ink) \in ink /\ Max(ink) \in ink
    BY <2>1, Least, Greatest
  <2> QED BY <1>1, <2>2
<1>3. SubSeq(line, 1, 1) = line
  <2>1. line \in Seq({c}) /\ Len(line) = 1
    OBVIOUS
  <2> HIDE DEF line
  <2> QED BY <2>1, FirstOnes
<1>4. Trim(line) = line
  <2>1. Trim(line) = IF ink = {} THEN <<>> ELSE SubSeq(line, Min(ink), Max(ink))
    BY DEF Trim
  <2> HIDE DEF line, ink
  <2> QED BY <1>1, <1>2, <1>3, <2>1
<1>5. (\E d \in KnownCommands : line = <<d>>) <=> c \in KnownCommands
  OBVIOUS
<1>6. line[1] = c
  OBVIOUS
<1> QED BY <1>4, <1>5, <1>6 DEF Parse

\* What is exchanged.
LEMMA ExchangeIs ==
  ASSUME NEW e, IsExchange(e)
  PROVE  /\ e.command \in Words /\ e.command # "blank" /\ e.lines \in Seq(Text)
         /\ e.command \notin Multiline => e.lines = <<>>
         /\ e.command \in Multiline /\ e.command # "SPEAK" =>
              \A i \in 1..Len(e.lines) : Trim(e.lines[i]) = e.lines[i]
         /\ e.command = "SPEAK" =>
              StripSsml(JoinLines([i \in 1..Len(e.lines) |-> Unstuff(e.lines[i])]))
                = e.text
<1>1. CASE e = Plain(e.command) /\ e.command \in Words \ (Multiline \cup {"blank"})
  <2>1. e.lines = <<>>
    <3>1. \A c : Plain(c).lines = <<>>
      BY DEF Plain, Block
    <3> QED BY <1>1, <3>1
  <2>2. <<>> \in Seq(Text)
    OBVIOUS
  <2> QED BY <1>1, <2>1, <2>2 DEF Multiline
<1>2. CASE /\ e = Block(e.command, e.lines) /\ e.command \in {"SET", "AUDIO", "LOGLEVEL"}
           /\ e.lines \in Seq(Seq(Words))
           /\ \A i \in DOMAIN e.lines : Trim(e.lines[i]) = e.lines[i]
  <2>1. e.lines \in Seq(Text) /\ DOMAIN e.lines = 1..Len(e.lines)
    BY <1>2, LenProperties DEF Text
  <2>2. e.command \in Words /\ e.command \notin {"blank", "SPEAK"}
    BY <1>2, WordsAssumption DEF KnownCommands, Multiline
  <2> QED BY <1>2, <2>1, <2>2 DEF Multiline
<1>3. CASE /\ e.text \in Seq(Words)
           /\ \E mark \in 0..Len(e.text) : e = Message(e.text, mark)
  <2>1. PICK mark \in 0..Len(e.text) : e = Message(e.text, mark)
    BY <1>3
  <2>2. e.command = "SPEAK"
    <3>1. \A t : Message(t, mark).command = "SPEAK"
      BY DEF Message
    <3> QED BY <2>1, <3>1
  <2>3. e.command \in Words /\ e.command # "blank" /\ e.command \in Multiline
    BY <2>2, WordsAssumption DEF KnownCommands, Multiline
  <2>4. e.text \in Text
    BY <1>3 DEF Text
  <2> DEFINE t == e.text
             lines == Message(t, mark).lines
  <2>5. e.lines = lines
    BY <2>1, Zenon
  <2>6. t \in Text /\ mark \in 0..Len(t)
    BY <2>4
  <2>7. /\ lines \in Seq(Text)
        /\ StripSsml(JoinLines([i \in 1..Len(lines) |-> Unstuff(lines[i])])) = t
    <3> HIDE DEF t
    <3> QED BY <2>6, MessageArrives
  <2> HIDE DEF lines
  <2> QED BY <2>2, <2>3, <2>5, <2>7
<1> QED BY <1>1, <1>2, <1>3 DEF IsExchange

\* ... and how it is written.
LEMMA WritingIs ==
  ASSUME NEW e, IsExchange(e)
  PROVE  LET w == Writing(e)
             n == Len(e.lines)
         IN  /\ w \in Seq(Text) /\ n \in Nat /\ w[1] = <<e.command>>
             /\ \A i \in 1..n : w[1 + i] = e.lines[i]
             /\ e.command \notin Multiline => Len(w) = 1
             /\ e.command \in Multiline => Len(w) = n + 2 /\ w[n + 2] = Terminator
<1> DEFINE a == <<<<e.command>>>>
           b == e.lines
           ab == a \o b
           c == IF e.command \in Multiline THEN <<Terminator>> ELSE <<>>
           n == Len(b)
           m == Len(c)
<1>1. /\ e.command \in Words /\ b \in Seq(Text)
      /\ e.command \notin Multiline => b = <<>>
  BY ExchangeIs
<1>2. a \in Seq(Text) /\ Len(a) = 1 /\ a[1] = <<e.command>>
  BY <1>1 DEF Text
<1>3. /\ c \in Seq(Text)
      /\ e.command \notin Multiline => m = 0 /\ n = 0
      /\ e.command \in Multiline => m = 1 /\ c[1] = Terminator
  <2>1. Terminator \in Text
    BY WordsAssumption DEF Terminator, Text, Signs
  <2> HIDE DEF Terminator
  <2> QED BY <1>1, <2>1
<1>4. Writing(e) = ab \o c
  BY DEF Writing
<1> HIDE DEF a, b, c
<1>5. n \in Nat /\ m \in Nat
  BY <1>1, <1>3, LenProperties
<1>6. /\ ab \in Seq(Text) /\ Len(ab) = 1 + n
      /\ \A i \in 1..(1 + n) : ab[i] = IF i <= 1 THEN a[i] ELSE b[i - 1]
  <2>1. /\ ab \in Seq(Text) /\ Len(ab) = Len(a) + Len(b)
        /\ \A i \in 1..(Len(a) + Len(b)) :
             ab[i] = IF i <= Len(a) THEN a[i] ELSE b[i - Len(a)]
    BY <1>1, <1>2, ConcatProperties
  <2> HIDE DEF ab
  <2> QED BY <1>2, <2>1
<1> DEFINE w == ab \o c
<1>7. /\ w \in Seq(Text) /\ Len(w) = Len(ab) + m
      /\ \A i \in 1..(Len(ab) + m) :
           w[i] = IF i <= Len(ab) THEN ab[i] ELSE c[i - Len(ab)]
  <2> HIDE DEF ab
  <2> QED BY <1>3, <1>6, ConcatProperties
<1> HIDE DEF ab, w, n, m
<1>8. Len(w) = 1 + n + m /\ w[1] = a[1]
  <2>1. 1 \in 1..(Len(ab) + m) /\ 1 <= Len(ab) /\ 1 \in 1..(1 + n) /\ 1 <= 1
    BY <1>5, <1>6
  <2> QED BY <1>5, <1>6, <1>7, <2>1
<1>9. ASSUME NEW i \in 1..n
      PROVE  w[1 + i] = b[i]
  <2>1. /\ 1 + i \in 1..(Len(ab) + m) /\ 1 + i <= Len(ab) /\ 1 + i \in 1..(1 + n)
        /\ ~(1 + i <= 1) /\ (1 + i) - 1 = i
    BY <1>5, <1>6
  <2> QED BY <1>6, <1>7, <2>1
<1>10. ASSUME m = 1
       PROVE  w[n + 2] = c[1]
  <2>1. /\ n + 2 \in 1..(Len(ab) + m) /\ ~(n + 2 <= Len(ab)) /\ (n + 2) - Len(ab) = 1
    BY <1>5, <1>6, <1>10
  <2> QED BY <1>7, <2>1
<1>11. ASSUME e.command \notin Multiline
       PROVE  Len(w) = 1
  BY <1>3, <1>8, <1>11
<1>12. ASSUME e.command \in Multiline
       PROVE  Len(w) = n + 2 /\ w[n + 2] = Terminator
  BY <1>3, <1>5, <1>8, <1>10, <1>12
<1>13. w \in Seq(Text) /\ n \in Nat /\ w[1] = <<e.command>>
  BY <1>2, <1>5, <1>7, <1>8
<1>14. w = Writing(e) /\ b = e.lines /\ n = Len(e.lines)
  BY <1>4 DEF b, n, w
<1> HIDE DEF Multiline, Terminator
<1> QED BY <1>9, <1>11, <1>12, <1>13, <1>14

-----------------------------------------------------------------------------
(***************************************************************************)
(* Settings                                                                *)
(***************************************************************************)
Fields == Names \cup Degrees
Values == Text \cup {Absent}

\* A pair is a key and a value.
LEMMA PairIs ==
  ASSUME NEW line \in Text, IsPair(line)
  PROVE  KeyOf(line) \in Text /\ ValueOf(line) \in Text
<1> DEFINE m == Min(Equals(line))
<1>1. Len(line) \in Nat /\ DOMAIN line = 1..Len(line)
      /\ \A i \in 1..Len(line) : line[i] \in Words
  BY LenProperties, ElementOfSeq DEF Text
<1>2. m \in 1..Len(line)
  <2>1. \A i \in Equals(line) : i \in 1..Len(line)
    BY <1>1 DEF Equals
  <2>2. \A i \in Equals(line) : i \in 0..Len(line)
    BY <1>1, <2>1
  <2>3. Equals(line) \in SUBSET Nat /\ IsFiniteSet(Equals(line))
    BY <1>1, <2>2, Parts
  <2>4. m \in Equals(line)
    BY <2>3, Least DEF IsPair
  <2> QED BY <2>1, <2>4
<1> HIDE DEF m
<1>3. SubSeq(line, 1, m - 1) \in Text
  <2>1. 1 \in Int /\ m - 1 \in Int /\ \A i \in 1..(m - 1) : i \in 1..Len(line)
    BY <1>1, <1>2
  <2>2. \A i \in 1..(m - 1) : line[i] \in Words
    BY <1>1, <2>1
  <2> QED BY <2>1, <2>2, SubSeqProperties DEF Text
<1>4. SubSeq(line, m + 1, Len(line)) \in Text
  <2>1. /\ m + 1 \in Int /\ Len(line) \in Int
        /\ \A i \in (m + 1)..Len(line) : i \in 1..Len(line)
    BY <1>1, <1>2
  <2>2. \A i \in (m + 1)..Len(line) : line[i] \in Words
    BY <1>1, <2>1
  <2> QED BY <2>1, <2>2, SubSeqProperties DEF Text
<1> QED BY <1>3, <1>4 DEF KeyOf, ValueOf, m

\* What a pair sets.
LEMMA ApplyIs ==
  ASSUME NEW old \in [Fields -> Values], NEW key, NEW value \in Text
  PROVE  /\ Apply(old, key, value) \in [Fields -> Values]
         /\ \A f \in Fields :
              Apply(old, key, value)[f] =
                IF key = <<f>> THEN IF value = <<"NULL">> THEN Absent ELSE value
                               ELSE old[f]
<1> DEFINE v == IF value = <<"NULL">> THEN Absent ELSE value
<1>1. v \in Values
  BY DEF Values
<1>2. Apply(old, key, value) =
        IF \E k \in Fields : key = <<k>> THEN [old EXCEPT ![key[1]] = v] ELSE old
  BY DEF Apply, Known
<1> HIDE DEF v
<1>3. CASE \E k \in Fields : key = <<k>>
  <2>1. PICK k \in Fields : key = <<k>>
    BY <1>3
  <2>2. key[1] = k /\ \A f : key = <<f>> <=> f = k
    BY <2>1
  <2>3. Apply(old, key, value) = [old EXCEPT ![k] = v]
    BY <1>2, <1>3, <2>2
  <2>4. [old EXCEPT ![k] = v] \in [Fields -> Values]
    BY <1>1
  <2>5. \A f \in Fields : [old EXCEPT ![k] = v][f] = IF f = k THEN v ELSE old[f]
    OBVIOUS
  <2> QED BY <2>2, <2>3, <2>4, <2>5 DEF v
<1>4. CASE ~\E k \in Fields : key = <<k>>
  BY <1>2, <1>4
<1> QED BY <1>3, <1>4

\* What a block sets: nothing before its first line, ...
LEMMA ToldNothing ==
  ASSUME NEW old \in [Fields -> Values]
  PROVE  Told(old, <<>>) = old
<1>1. DOMAIN old = Fields /\ DOMAIN <<>> = {}
  OBVIOUS
<1>2. \A f \in Fields : {i \in DOMAIN <<>> : KeyOf(<<>>[i]) = <<f>>} = {}
  BY <1>1
<1>3. Told(old, <<>>) = [f \in Fields |-> old[f]]
  BY <1>1, <1>2 DEF Told
<1> QED BY <1>3

\* ... and with every line what that line sets.
LEMMA ToldStep ==
  ASSUME NEW old \in [Fields -> Values], NEW lines \in Seq(Text),
         NEW k \in 0..(Len(lines) - 1), IsPair(lines[k + 1]),
         Told(old, SubSeq(lines, 1, k)) \in [Fields -> Values]
  PROVE  Told(old, SubSeq(lines, 1, k + 1)) =
           Apply(Told(old, SubSeq(lines, 1, k)),
                 KeyOf(lines[k + 1]), ValueOf(lines[k + 1]))
<1> DEFINE N == Len(lines)
           first(n) == SubSeq(lines, 1, n)
           its(n, f) == {i \in 1..n : KeyOf(lines[i]) = <<f>>}
           valueAt(i) == IF ValueOf(lines[i]) = <<"NULL">> THEN Absent
                         ELSE ValueOf(lines[i])
           told(n, f) == IF its(n, f) = {} THEN old[f] ELSE valueAt(Max(its(n, f)))
           line == lines[k + 1]
<1>1. N \in Nat /\ k \in 0..N /\ k + 1 \in 0..N /\ k \in Nat /\ k + 1 \in 1..N
  BY LenProperties
<1>2. line \in Text
  BY <1>1, ElementOfSeq
<1>3. ASSUME NEW n \in 0..N, NEW f \in Fields
      PROVE  its(n, f) # {} => Max(its(n, f)) \in its(n, f)
                               /\ \A i \in its(n, f) : i <= Max(its(n, f))
  <2> DEFINE S == its(n, f)
  <2>1. n \in Nat /\ \A i \in S : i \in 0..n
    BY <1>1
  <2> HIDE DEF S
  <2>2. S \in SUBSET Nat /\ IsFiniteSet(S)
    BY <2>1, Parts
  <2>3. S # {} => Max(S) \in S /\ \A i \in S : i <= Max(S)
    BY <2>2, Greatest
  <2> QED BY <2>3 DEF S
<1>4. ASSUME NEW n \in 0..N
      PROVE  Told(old, first(n)) = [f \in Fields |-> told(n, f)]
  <2>1. /\ DOMAIN old = Fields
        /\ first(n) \in Seq(Text) /\ Len(first(n)) = n
        /\ \A i \in 1..n : first(n)[i] = lines[i]
    BY FirstOnes
  <2> DEFINE x == first(n)
             set(f) == {i \in DOMAIN x : KeyOf(x[i]) = <<f>>}
             chosen(f) == IF set(f) = {} THEN old[f]
                          ELSE IF ValueOf(x[Max(set(f))]) = <<"NULL">> THEN Absent
                          ELSE ValueOf(x[Max(set(f))])
  <2>2. Told(old, x) = [f \in Fields |-> chosen(f)]
    BY <2>1 DEF Told
  <2>3. DOMAIN x = 1..n /\ \A i \in 1..n : x[i] = lines[i]
    BY <2>1, LenProperties
  <2> HIDE DEF x
  <2>4. ASSUME NEW f \in Fields
        PROVE  chosen(f) = told(n, f)
    <3>1. set(f) = its(n, f)
      BY <2>3
    <3>2. its(n, f) # {} => Max(its(n, f)) \in 1..n
      BY <1>3
    <3> HIDE DEF set, its
    <3>3. its(n, f) # {} => x[Max(its(n, f))] = lines[Max(its(n, f))]
      BY <2>3, <3>2
    <3> QED BY <3>1, <3>3
  <2> HIDE DEF chosen, told
  <2> QED BY <2>2, <2>4 DEF x
<1>5. KeyOf(line) \in Text /\ ValueOf(line) \in Text
  BY <1>2, PairIs
<1> DEFINE before == Told(old, first(k))
           after == Apply(before, KeyOf(line), ValueOf(line))
<1>6. before \in [Fields -> Values] /\ \A f \in Fields : before[f] = told(k, f)
  <2> HIDE DEF told
  <2> QED BY <1>1, <1>4
<1>7. /\ after \in [Fields -> Values]
      /\ \A f \in Fields :
           after[f] = IF KeyOf(line) = <<f>> THEN valueAt(k + 1) ELSE before[f]
  <2> HIDE DEF before
  <2> QED BY <1>5, <1>6, ApplyIs
<1>8. ASSUME NEW f \in Fields
      PROVE  told(k + 1, f) = after[f]
  <2>1. CASE KeyOf(line) = <<f>>
    <3>1. k + 1 \in its(k + 1, f)
      BY <1>1, <2>1
    <3>2. /\ Max(its(k + 1, f)) \in its(k + 1, f)
          /\ k + 1 <= Max(its(k + 1, f))
      BY <1>1, <1>3, <3>1
    <3>3. Max(its(k + 1, f)) = k + 1
      <4>1. \A i \in its(k + 1, f) : i \in 1..(k + 1)
        OBVIOUS
      <4> HIDE DEF its
      <4>2. Max(its(k + 1, f)) \in 1..(k + 1)
        BY <3>2, <4>1
      <4> QED BY <1>1, <3>2, <4>2
    <3> HIDE DEF its, after, valueAt
    <3> QED BY <1>7, <2>1, <3>1, <3>3
  <2>2. CASE KeyOf(line) # <<f>>
    <3>1. its(k + 1, f) = its(k, f)
      <4>1. \A i \in 1..(k + 1) : i \in 1..k \/ i = k + 1
        BY <1>1
      <4>2. \A i \in 1..k : i \in 1..(k + 1)
        BY <1>1
      <4> QED BY <2>2, <4>1, <4>2
    <3>2. told(k + 1, f) = told(k, f)
      <4> HIDE DEF its, valueAt
      <4> QED BY <3>1
    <3> HIDE DEF told, after, before
    <3> QED BY <1>6, <1>7, <2>2, <3>2
  <2> QED BY <2>1, <2>2
<1>9. Told(old, first(k + 1)) = [f \in Fields |-> after[f]]
  <2>1. Told(old, first(k + 1)) = [f \in Fields |-> told(k + 1, f)]
    BY <1>1, <1>4
  <2> HIDE DEF told, after, first
  <2> QED BY <1>8, <2>1
<1>10. [f \in Fields |-> after[f]] = after
  <2> HIDE DEF after
  <2> QED BY <1>7
<1> QED BY <1>9, <1>10

-----------------------------------------------------------------------------
(***************************************************************************)
(* The dialogue                                                            *)
(***************************************************************************)
BlockStates ==
  [scratch : [Fields -> Values], level : Values, body : Seq(Text),
   bad_syntax : BOOLEAN, bad_value : BOOLEAN]

VoiceLines == (Words \cup {Absent}) \X (Words \cup {"none"})

\* What is left of what was written, or the beginning of that, when k lines of
\* it have been read.
Left(lines, cut, all, k) ==
  /\ Len(lines) <= Len(all) - k
  /\ ~cut => Len(lines) = Len(all) - k
  /\ \A i \in 1..Len(lines) : lines[i] = all[k + i]

\* What has been made of the first k lines of a block or of a text.
Made(some, command, lines, old, k) ==
  /\ some \in BlockStates
  /\ command # "SPEAK" =>
       /\ some.bad_syntax <=> \E i \in 1..k : ~IsPair(lines[i])
       /\ some.bad_value <=>
            \E i \in 1..k : IsPair(lines[i]) /\ ~Accepts(command, lines[i])
  /\ command = "SET" /\ ~some.bad_syntax /\ ~some.bad_value =>
       some.scratch = Told(old, SubSeq(lines, 1, k))
  /\ command = "SPEAK" => some.body = [i \in 1..k |-> Unstuff(lines[i])]

Carried ==
  said # Absent =>
    /\ said.request.text = sent.text
    /\ said.request.voice =
         (IF Agreed.synthesis_voice = Absent /\ Agreed.language = Absent
          THEN Absent ELSE [name |-> Agreed.synthesis_voice,
                            language |-> Agreed.language])
    /\ said.bytes # <<>> => Unescaped(said.bytes) = said.audio

\* What is exchanged, and the types.
Exchanging ==
  /\ talk \in Talks \cup {Silence} /\ IsExchange(sent)
  /\ \A i \in 1..Len(sent.lines) : Trim(sent.lines[i]) # Terminator
  /\ pipe \in Seq(Text) /\ closed \in BOOLEAN /\ voices \in Seq(VoiceLines)
  /\ settings \in [Fields -> Values] /\ agreed \in [Fields -> Values]

\* Nothing of it has been read yet.
Unread ==
  /\ Left(pipe, closed, Writing(sent), 0)
  /\ answer = <<>> /\ settings = agreed /\ said = Absent

\* The command and some of its lines have.
InTheMiddle ==
  /\ reading = sent.command /\ answer = <<Receiving[reading]>>
  /\ settings = agreed /\ said = Absent
  /\ \E k \in 0..Len(sent.lines) :
       /\ Left(pipe, closed, Writing(sent), k + 1)
       /\ Made(block, reading, sent.lines, agreed, k)

\* All has, and is answered.
Answered ==
  /\ settings = Agreed /\ Carried
  /\ turn > 0 => answer \in Expected

\* Between the two ends of a dialogue.
DialogueInv ==
  /\ Exchanging
  /\ reading = "command" /\ pipe # <<>> => Unread
  /\ reading \in Multiline => InTheMiddle
  /\ reading = "command" /\ pipe = <<>> /\ ~closed => Answered

\* The voices of some programs are names with languages.
LEMMA VoicesAre ==
  ASSUME NEW programs \in Seq(Seq(Offers))
  PROVE  ExtractVoices(programs) \in Seq(VoiceLines)
<1> DEFINE all == FlattenSeq(programs)
           named == {i \in DOMAIN all : all[i].name # Absent}
           offers == Picked(all, named)
           line(o) == <<o.name, IF o.languages = <<>> THEN "none" ELSE o.languages[1]>>
<1>1. all \in Seq(Offers)
  BY FlatTyped
<1> HIDE DEF all
<1>2. /\ Len(all) \in Nat /\ DOMAIN all = 1..Len(all)
      /\ \A i \in 1..Len(all) : all[i] \in Offers
  BY <1>1, LenProperties, ElementOfSeq
<1>3. named \in SUBSET Nat /\ IsFiniteSet(named) /\ named \subseteq 1..Len(all)
  <2>1. named \subseteq 1..Len(all)
    BY <1>2
  <2> HIDE DEF named
  <2>2. \A i \in named : i \in 0..Len(all)
    BY <1>2, <2>1
  <2> QED BY <1>2, <2>1, <2>2, Parts
<1> HIDE DEF named
<1>4. /\ InOrder(named) \in Seq(named) /\ Len(InOrder(named)) = Cardinality(named)
      /\ Cardinality(named) \in Nat
  BY <1>3, Ordered, FS_CardinalityType
<1>5. \A i \in 1..Cardinality(named) : InOrder(named)[i] \in named
  BY <1>4, ElementOfSeq
<1>6. DOMAIN offers = 1..Cardinality(named)
      /\ \A i \in 1..Cardinality(named) : offers[i] \in Offers
  <2>1. offers = [i \in 1..Cardinality(named) |-> all[InOrder(named)[i]]]
    BY DEF Picked
  <2>2. \A i \in 1..Cardinality(named) : all[InOrder(named)[i]] \in Offers
    BY <1>2, <1>3, <1>5
  <2> HIDE DEF offers
  <2> QED BY <2>1, <2>2
<1>7. ASSUME NEW o \in Offers
      PROVE  line(o) \in VoiceLines
  <2>1. o.name \in Words \cup {Absent} /\ o.languages \in Seq(Words)
    BY DEF Offers
  <2>2. o.languages # <<>> => o.languages[1] \in Words
    <3> SUFFICES ASSUME o.languages # <<>> PROVE o.languages[1] \in Words
      OBVIOUS
    <3>1. Len(o.languages) \in Nat \ {0}
      BY <2>1, EmptySeq
    <3>2. 1 \in 1..Len(o.languages)
      BY <3>1
    <3> QED BY <2>1, <3>2, ElementOfSeq
  <2> QED BY <2>1, <2>2 DEF VoiceLines
<1>8. ExtractVoices(programs) = [i \in DOMAIN offers |-> line(offers[i])]
  BY DEF ExtractVoices, all, named
<1> HIDE DEF offers
<1>9. \A i \in 1..Cardinality(named) : line(offers[i]) \in VoiceLines
  BY <1>6, <1>7
<1> DEFINE n == Cardinality(named)
           lines == [i \in 1..n |-> line(offers[i])]
<1>10. ExtractVoices(programs) = lines
  BY <1>6, <1>8
<1>11. n \in Nat /\ \A i \in 1..n : line(offers[i]) \in VoiceLines
  BY <1>4, <1>9
<1> HIDE DEF line, n
<1>12. lines \in Seq(VoiceLines)
  BY <1>11, IsASeq
<1> QED BY <1>10, <1>12

LineRead(p, cut, all, k) ==
  /\ k + 1 \in 1..Len(all) /\ Head(p) = all[k + 1] /\ p[1] = Head(p)
  /\ Tail(p) \in Seq(Text) /\ Left(Tail(p), cut, all, k + 1)
  /\ k + 1 = Len(all) => Tail(p) = <<>>

\* A line is read, ...
LEMMA LeftTail ==
  ASSUME NEW p \in Seq(Text), NEW cut, NEW all \in Seq(Text), NEW k \in Nat,
         Left(p, cut, all, k), p # <<>>
  PROVE  LineRead(p, cut, all, k)
<1> DEFINE r == Tail(p)
<1>1. Len(p) \in Nat \ {0} /\ Len(all) \in Nat
  BY EmptySeq, LenProperties
<1>2. /\ r \in Seq(Text) /\ Len(r) = Len(p) - 1
      /\ \A i \in 1..Len(r) : r[i] = p[i + 1]
  BY HeadTailProperties
<1>3. Head(p) = p[1]
  BY <1>1
<1> HIDE DEF r
<1>4. k + 1 \in 1..Len(all) /\ p[1] = all[k + 1]
  BY <1>1 DEF Left
<1>5. Left(r, cut, all, k + 1)
  <2>1. Len(r) <= Len(all) - (k + 1) /\ (~cut => Len(r) = Len(all) - (k + 1))
    BY <1>1, <1>2 DEF Left
  <2>2. ASSUME NEW i \in 1..Len(r)
        PROVE  r[i] = all[(k + 1) + i]
    <3>1. i + 1 \in 1..Len(p) /\ k + (i + 1) = (k + 1) + i
      BY <1>1, <1>2
    <3> QED BY <1>2, <3>1 DEF Left
  <2> QED BY <2>1, <2>2 DEF Left
<1>6. k + 1 = Len(all) => r = <<>>
  <2>1. k + 1 = Len(all) => Len(r) = 0
    BY <1>1, <1>2 DEF Left
  <2> QED BY <1>2, <2>1, EmptySeq
<1> QED BY <1>2, <1>3, <1>4, <1>5, <1>6 DEF LineRead, r

\* ... or is not written any more.
LEMMA LeftCut ==
  ASSUME NEW p \in Seq(Text), NEW cut, NEW all \in Seq(Text), NEW k \in Nat,
         Left(p, cut, all, k), NEW n \in 0..Len(p)
  PROVE  SubSeq(p, 1, n) \in Seq(Text) /\ Left(SubSeq(p, 1, n), TRUE, all, k)
<1> DEFINE r == SubSeq(p, 1, n)
<1>1. Len(p) \in Nat /\ Len(all) \in Nat
  BY LenProperties
<1>2. r \in Seq(Text) /\ Len(r) = n /\ \A i \in 1..n : r[i] = p[i]
  BY FirstOnes
<1> HIDE DEF r
<1>3. Len(r) <= Len(all) - k
  BY <1>1, <1>2 DEF Left
<1>4. ASSUME NEW i \in 1..Len(r)
      PROVE  r[i] = all[k + i]
  <2>1. i \in 1..Len(p)
    BY <1>1, <1>2
  <2> QED BY <1>2, <2>1 DEF Left
<1> QED BY <1>2, <1>3, <1>4 DEF Left, r

\* Nothing has been made of no line, ...
LEMMA MadeNothing ==
  ASSUME NEW command, NEW lines, NEW old \in [Fields -> Values]
  PROVE  Made([scratch |-> old, level |-> Absent, body |-> <<>>,
               bad_syntax |-> FALSE, bad_value |-> FALSE], command, lines, old, 0)
<1> DEFINE some == [scratch |-> old, level |-> Absent, body |-> <<>>,
                    bad_syntax |-> FALSE, bad_value |-> FALSE]
<1>1. some \in BlockStates
  BY DEF BlockStates, Values
<1>2. Told(old, SubSeq(lines, 1, 0)) = old
  <2>1. SubSeq(lines, 1, 0) = <<>>
    BY SubSeqEmpty
  <2> QED BY <2>1, ToldNothing
<1>3. [i \in 1..0 |-> Unstuff(lines[i])] = <<>>
  OBVIOUS
<1>4. /\ some.scratch = old /\ some.body = <<>>
      /\ some.bad_syntax = FALSE /\ some.bad_value = FALSE
  OBVIOUS
<1> HIDE DEF some
<1> QED BY <1>1, <1>2, <1>3, <1>4 DEF Made, some

\* ... of a line of a block what is right or wrong with it, ...
LEMMA MadePair ==
  ASSUME NEW command \in {"SET", "AUDIO", "LOGLEVEL"}, NEW lines \in Seq(Text),
         NEW old \in [Fields -> Values], NEW k \in 0..(Len(lines) - 1), NEW some,
         Made(some, command, lines, old, k)
  PROVE  LET line == lines[k + 1]
         IN  Made(IF ~IsPair(line) THEN [some EXCEPT !.bad_syntax = TRUE]
                  ELSE IF ~Accepts(command, line)
                    THEN [some EXCEPT !.bad_value = TRUE]
                  ELSE [some EXCEPT
                    !.scratch = IF command = "SET"
                                THEN Apply(@, KeyOf(line), ValueOf(line)) ELSE @,
                    !.level = IF command = "LOGLEVEL" THEN ValueOf(line) ELSE @],
                  command, lines, old, k + 1)
<1> DEFINE line == lines[k + 1]
           next == IF ~IsPair(line) THEN [some EXCEPT !.bad_syntax = TRUE]
                   ELSE IF ~Accepts(command, line)
                     THEN [some EXCEPT !.bad_value = TRUE]
                   ELSE [some EXCEPT
                     !.scratch = IF command = "SET"
                                 THEN Apply(@, KeyOf(line), ValueOf(line)) ELSE @,
                     !.level = IF command = "LOGLEVEL" THEN ValueOf(line) ELSE @]
<1>1. /\ Len(lines) \in Nat /\ k \in Nat /\ k + 1 \in 1..Len(lines) /\ line \in Text
  <2>1. Len(lines) \in Nat
    BY LenProperties
  <2>2. k \in Nat /\ k + 1 \in 1..Len(lines)
    BY <2>1
  <2> QED BY <2>1, <2>2, ElementOfSeq
<1>2. /\ some \in BlockStates /\ some.scratch \in [Fields -> Values]
      /\ some.bad_syntax \in BOOLEAN /\ some.bad_value \in BOOLEAN
  BY DEF Made, BlockStates
<1>3. /\ some.bad_syntax <=> \E i \in 1..k : ~IsPair(lines[i])
      /\ some.bad_value <=>
           \E i \in 1..k : IsPair(lines[i]) /\ ~Accepts(command, lines[i])
  BY DEF Made
<1>4. \A i \in 1..(k + 1) : i \in 1..k \/ i = k + 1
  BY <1>1
<1>5. k + 1 \in 1..(k + 1) /\ \A i \in 1..k : i \in 1..(k + 1)
  BY <1>1
<1>6. CASE ~IsPair(line)
  <2>1. next = [some EXCEPT !.bad_syntax = TRUE]
    BY <1>6
  <2>2. /\ next \in BlockStates /\ next.bad_syntax = TRUE
        /\ next.bad_value = some.bad_value
    BY <1>2, <2>1 DEF BlockStates
  <2> HIDE DEF next
  <2>3. \E i \in 1..(k + 1) : ~IsPair(lines[i])
    BY <1>5, <1>6
  <2>4. (\E i \in 1..(k + 1) : IsPair(lines[i]) /\ ~Accepts(command, lines[i]))
        <=> \E i \in 1..k : IsPair(lines[i]) /\ ~Accepts(command, lines[i])
    BY <1>4, <1>5, <1>6
  <2> QED BY <1>3, <2>2, <2>3, <2>4 DEF Made, next
<1>7. CASE IsPair(line) /\ ~Accepts(command, line)
  <2>1. next = [some EXCEPT !.bad_value = TRUE]
    BY <1>7
  <2>2. /\ next \in BlockStates /\ next.bad_value = TRUE
        /\ next.bad_syntax = some.bad_syntax
    BY <1>2, <2>1 DEF BlockStates
  <2> HIDE DEF next
  <2>3. \E i \in 1..(k + 1) : IsPair(lines[i]) /\ ~Accepts(command, lines[i])
    BY <1>5, <1>7
  <2>4. (\E i \in 1..(k + 1) : ~IsPair(lines[i])) <=> \E i \in 1..k : ~IsPair(lines[i])
    BY <1>4, <1>5, <1>7
  <2> QED BY <1>3, <2>2, <2>3, <2>4 DEF Made, next
<1>8. CASE IsPair(line) /\ Accepts(command, line)
  <2>1. KeyOf(line) \in Text /\ ValueOf(line) \in Text
    BY <1>1, <1>8, PairIs
  <2> DEFINE scratch == IF command = "SET"
                        THEN Apply(some.scratch, KeyOf(line), ValueOf(line))
                        ELSE some.scratch
             level == IF command = "LOGLEVEL" THEN ValueOf(line) ELSE some.level
  <2>2. scratch \in [Fields -> Values] /\ level \in Values
    <3>1. Apply(some.scratch, KeyOf(line), ValueOf(line)) \in [Fields -> Values]
      BY <1>2, <2>1, ApplyIs
    <3>2. some.level \in Values /\ ValueOf(line) \in Values
      BY <1>2, <2>1 DEF BlockStates, Values
    <3> QED BY <1>2, <3>1, <3>2
  <2>3. next = [some EXCEPT !.scratch = scratch, !.level = level]
    BY <1>8
  <2> HIDE DEF next, scratch, level
  <2>4. /\ next \in BlockStates /\ next.scratch = scratch
        /\ next.bad_syntax = some.bad_syntax /\ next.bad_value = some.bad_value
    BY <1>2, <2>2, <2>3 DEF BlockStates
  <2>5. (\E i \in 1..(k + 1) : ~IsPair(lines[i])) <=> \E i \in 1..k : ~IsPair(lines[i])
    BY <1>4, <1>5, <1>8
  <2>6. (\E i \in 1..(k + 1) : IsPair(lines[i]) /\ ~Accepts(command, lines[i]))
        <=> \E i \in 1..k : IsPair(lines[i]) /\ ~Accepts(command, lines[i])
    BY <1>4, <1>5, <1>8
  <2>7. ASSUME command = "SET", ~next.bad_syntax, ~next.bad_value
        PROVE  next.scratch = Told(old, SubSeq(lines, 1, k + 1))
    <3>1. some.scratch = Told(old, SubSeq(lines, 1, k))
      BY <2>4, <2>7 DEF Made
    <3>2. Told(old, SubSeq(lines, 1, k)) \in [Fields -> Values]
      BY <1>2, <3>1
    <3>3. Told(old, SubSeq(lines, 1, k + 1)) =
            Apply(Told(old, SubSeq(lines, 1, k)), KeyOf(line), ValueOf(line))
      BY <1>8, <3>2, ToldStep
    <3> QED BY <2>4, <2>7, <3>1, <3>3 DEF scratch
  <2>8. command # "SPEAK"
    OBVIOUS
  <2>9. Made(next, command, lines, old, k + 1)
    BY <1>3, <2>4, <2>5, <2>6, <2>7, <2>8 DEF Made
  <2> QED BY <2>9 DEF next
<1> QED BY <1>6, <1>7, <1>8

\* ... and of a line of a text that line.
LEMMA MadeText ==
  ASSUME NEW lines \in Seq(Text), NEW old, NEW k \in 0..(Len(lines) - 1), NEW some,
         Made(some, "SPEAK", lines, old, k)
  PROVE  Made([some EXCEPT !.body = Append(@, Unstuff(lines[k + 1]))],
              "SPEAK", lines, old, k + 1)
<1> DEFINE line == lines[k + 1]
           un == Unstuff(line)
           body == Append(some.body, un)
           next == [some EXCEPT !.body = body]
<1>1. k \in Nat /\ line \in Text
  <2>1. Len(lines) \in Nat
    BY LenProperties
  <2>2. k \in Nat /\ k + 1 \in 1..Len(lines)
    BY <2>1
  <2> QED BY <2>2, ElementOfSeq
<1> HIDE DEF line
<1>2. un \in Text
  <2>1. line # <<>> => Tail(line) \in Text
    BY <1>1, HeadTailProperties DEF Text
  <2> QED BY <1>1, <2>1 DEF Unstuff
<1> HIDE DEF un
<1>3. /\ some \in BlockStates /\ some.body \in Seq(Text)
      /\ some.body = [i \in 1..k |-> Unstuff(lines[i])]
  BY DEF Made, BlockStates
<1>4. body = [i \in 1..(k + 1) |-> Unstuff(lines[i])]
  <2>1. DOMAIN some.body = 1..k /\ DOMAIN some.body = 1..Len(some.body)
        /\ Len(some.body) \in Nat
    BY <1>3, LenProperties
  <2>2. Len(some.body) = k
    BY <1>1, <2>1
  <2>3. /\ body \in Seq(Text) /\ Len(body) = k + 1 /\ body[k + 1] = un
        /\ \A i \in 1..k : body[i] = some.body[i]
    BY <1>2, <1>3, <2>2, AppendProperties
  <2> HIDE DEF body
  <2>4. body = [i \in 1..(k + 1) |-> body[i]]
    BY <2>3, LenProperties
  <2>5. ASSUME NEW i \in 1..(k + 1)
        PROVE  body[i] = Unstuff(lines[i])
    <3>1. i \in 1..k \/ i = k + 1
      BY <1>1
    <3> QED BY <1>3, <2>3, <3>1 DEF un, line
  <2> QED BY <2>4, <2>5
<1>5. body \in Seq(Text)
  BY <1>2, <1>3, AppendProperties
<1> HIDE DEF body
<1>6. next \in BlockStates /\ next.body = body
  BY <1>3, <1>5 DEF BlockStates
<1>7. next = [some EXCEPT !.body = Append(@, Unstuff(lines[k + 1]))]
  BY DEF body, un, line
<1> HIDE DEF next
<1> QED BY <1>4, <1>6, <1>7 DEF Made

Judged(some, e, old) ==
  /\ BlockVerdict(e) = IF some.bad_syntax THEN "302"
                       ELSE IF some.bad_value THEN "303" ELSE "203"
  /\ e.command = "SET" /\ ~some.bad_syntax /\ ~some.bad_value =>
       some.scratch = Told(old, e.lines)

\* What has been made of a whole block is its verdict.
LEMMA VerdictIs ==
  ASSUME NEW e, e.command \in {"SET", "AUDIO", "LOGLEVEL"}, e.lines \in Seq(Text),
         NEW old, NEW some, Made(some, e.command, e.lines, old, Len(e.lines))
  PROVE  Judged(some, e, old)
<1> DEFINE n == Len(e.lines)
<1>1. DOMAIN e.lines = 1..n /\ SubSeq(e.lines, 1, n) = e.lines
  BY LenProperties, FirstOnes
<1>2. /\ some.bad_syntax <=> \E i \in 1..n : ~IsPair(e.lines[i])
      /\ some.bad_value <=>
           \E i \in 1..n : IsPair(e.lines[i]) /\ ~Accepts(e.command, e.lines[i])
      /\ e.command = "SET" /\ ~some.bad_syntax /\ ~some.bad_value =>
           some.scratch = Told(old, SubSeq(e.lines, 1, n))
  BY DEF Made
<1> HIDE DEF n
<1>3. BlockVerdict(e) =
        IF \E i \in 1..n : ~IsPair(e.lines[i]) THEN "302"
        ELSE IF \E i \in 1..n : ~Accepts(e.command, e.lines[i]) THEN "303"
        ELSE "203"
  BY <1>1 DEF BlockVerdict
<1>4. CASE some.bad_syntax
  BY <1>1, <1>2, <1>3, <1>4 DEF Judged
<1>5. CASE ~some.bad_syntax
  <2>1. (\E i \in 1..n : ~Accepts(e.command, e.lines[i])) <=> some.bad_value
    BY <1>2, <1>5
  <2> QED BY <1>1, <1>2, <1>3, <1>5, <2>1 DEF Judged
<1> QED BY <1>4, <1>5

-----------------------------------------------------------------------------
(***************************************************************************)
(* The steps                                                               *)
(***************************************************************************)
\* A reply after another makes two, ...
LEMMA TwoReplies ==
  ASSUME NEW r, NEW v
  PROVE  Append(<<r>>, v) = <<r, v>>
<1> DEFINE X == {r, v}
           one == <<r>>
           two == <<r, v>>
           both == Append(one, v)
<1>1. Len(one) = 1 /\ one[1] = r
  OBVIOUS
<1>2. one \in Seq(X) /\ v \in X
  OBVIOUS
<1>3. two \in Seq(X) /\ Len(two) = 2 /\ two[1] = r /\ two[2] = v
  OBVIOUS
<1> HIDE DEF X, one, two
<1>4. both \in Seq(X) /\ Len(both) = 2 /\ both[1] = one[1] /\ both[2] = v
  <2>1. /\ both \in Seq(X) /\ Len(both) = Len(one) + 1 /\ both[Len(one) + 1] = v
        /\ \A i \in 1..Len(one) : both[i] = one[i]
    BY <1>2, AppendProperties
  <2> HIDE DEF both
  <2> QED BY <1>1, <2>1
<1> HIDE DEF both
<1>5. \A i \in 1..2 : both[i] = two[i]
  BY <1>1, <1>3, <1>4
<1>6. both = two
  BY <1>3, <1>4, <1>5, SeqEqual
<1> QED BY <1>6 DEF both, one, two

\* ... and the whole of a message gives five.
LEMMA FiveReplies ==
  <<"202">> \o <<"200", "701", "705", "702">> = <<"202", "200", "701", "705", "702">>
<1> DEFINE X == {"202", "200", "701", "705", "702"}
           one == <<"202">>
           four == <<"200", "701", "705", "702">>
           five == <<"202", "200", "701", "705", "702">>
           all == one \o four
<1>1. one \in Seq(X) /\ Len(one) = 1 /\ one[1] = "202"
  OBVIOUS
<1>2. /\ four \in Seq(X) /\ Len(four) = 4
      /\ four[1] = "200" /\ four[2] = "701" /\ four[3] = "705" /\ four[4] = "702"
  OBVIOUS
<1>3. /\ five \in Seq(X) /\ Len(five) = 5 /\ five[1] = "202"
      /\ five[2] = "200" /\ five[3] = "701" /\ five[4] = "705" /\ five[5] = "702"
  OBVIOUS
<1> HIDE DEF X, one, four, five
<1>4. /\ all \in Seq(X) /\ Len(all) = Len(one) + Len(four)
      /\ \A i \in 1..(Len(one) + Len(four)) :
           all[i] = IF i <= Len(one) THEN one[i] ELSE four[i - Len(one)]
  BY <1>1, <1>2, ConcatProperties
<1> HIDE DEF all
<1>5. \A i \in 1..5 : all[i] = IF i <= 1 THEN one[i] ELSE four[i - 1]
  BY <1>1, <1>2, <1>4
<1>6. /\ all[1] = five[1] /\ all[2] = five[2] /\ all[3] = five[3]
      /\ all[4] = five[4] /\ all[5] = five[5]
  BY <1>1, <1>2, <1>3, <1>5
<1>7. \A i \in 1..5 : all[i] = five[i]
  BY <1>6
<1>8. Len(all) = 5 /\ Len(five) = 5
  BY <1>1, <1>2, <1>3, <1>4
<1>9. all = five
  BY <1>3, <1>4, <1>7, <1>8, SeqEqual
<1> QED BY <1>9 DEF all, one, four, five

\* It is so at the beginning.
LEMMA DialogueInitInv == DialogueInit => DialogueInv
<1> SUFFICES ASSUME DialogueInit PROVE DialogueInv
  OBVIOUS
<1>1. "STOP" \in Words \ (Multiline \cup {"blank"})
  BY WordsAssumption DEF Multiline, KnownCommands
<1>2. /\ sent = Block("STOP", <<>>) /\ sent.command = "STOP" /\ sent.lines = <<>>
      /\ Plain("STOP") = Block("STOP", <<>>)
  BY DEF DialogueInit, Plain, Block
<1>3. IsExchange(sent)
  BY <1>1, <1>2 DEF IsExchange, Plain
<1>4. NoSettings \in [Fields -> Values]
  BY DEF NoSettings, Fields, Values
<1>5. Agreed = agreed
  BY <1>2 DEF Agreed
<1>6. Exchanging
  <2>1. \A i \in 1..Len(sent.lines) : FALSE
    BY <1>2
  <2>2. pipe \in Seq(Text) /\ voices \in Seq(VoiceLines)
    BY EmptySeq DEF DialogueInit
  <2> QED BY <1>3, <1>4, <2>1, <2>2 DEF Exchanging, DialogueInit
<1>7. Answered
  BY <1>5 DEF Answered, Carried, DialogueInit
<1> QED BY <1>6, <1>7 DEF DialogueInv, DialogueInit, Multiline

\* What a step leaves alone, it leaves as it was.
LEMMA Stays ==
  ASSUME DialogueInv, UNCHANGED dialogueVars
  PROVE  DialogueInv'
BY DEF DialogueInv, dialogueVars, Exchanging, Unread, InTheMiddle, Answered,
       Carried, Agreed, Expected

\* A command is written when the last one is answered.
LEMMA TellsKeeps ==
  ASSUME Unmistakable, DialogueInv, NEW e \in talk.exchanges, SpeechdTells(e)
  PROVE  DialogueInv'
<1>1. talk \in Talks
  <2>1. talk # Silence
    BY DEF Silence
  <2> QED BY <2>1 DEF DialogueInv, Exchanging
<1>2. IsExchange(e)
  BY <1>1, TalksAssumption
<1>3. \A i \in 1..Len(e.lines) : Trim(e.lines[i]) # Terminator
  <2>1. DOMAIN e.lines = 1..Len(e.lines)
    BY <1>2, ExchangeIs, LenProperties
  <2> QED BY <1>1, <2>1 DEF Unmistakable
<1>4. settings = Agreed /\ Exchanging
  BY DEF SpeechdTells, DialogueInv, Answered
<1>5. /\ pipe' = Writing(e) /\ sent' = e /\ agreed' = Agreed /\ settings' = settings
      /\ answer' = <<>> /\ said' = Absent /\ reading' = "command"
      /\ closed' = closed /\ closed = FALSE /\ talk' = talk /\ voices' = voices
  BY <1>4 DEF SpeechdTells, Writing, Exchanging
<1>6. pipe' \in Seq(Text) /\ pipe' # <<>> /\ Left(Writing(e), FALSE, Writing(e), 0)
  <2> DEFINE w == Writing(e)
  <2>1. w \in Seq(Text) /\ Len(w) # 0 /\ Len(w) \in Nat
    BY <1>2, WritingIs, LenProperties
  <2> HIDE DEF w
  <2>2. Left(w, FALSE, w, 0)
    BY <2>1 DEF Left
  <2> QED BY <1>5, <2>1, <2>2, EmptySeq DEF w
<1>7. Exchanging'
  BY <1>2, <1>3, <1>4, <1>5, <1>6 DEF Exchanging
<1>8. Unread'
  BY <1>4, <1>5, <1>6 DEF Unread
<1> QED BY <1>5, <1>6, <1>7, <1>8 DEF DialogueInv, Multiline

\* It goes away, and what it has written is the beginning of something.
LEMMA ClosesKeeps ==
  ASSUME DialogueInv, SpeechdCloses
  PROVE  DialogueInv'
<1> USE DEF SpeechdCloses
<1>1. PICK n \in 0..Len(pipe) : pipe' = SubSeq(pipe, 1, n)
  OBVIOUS
<1>2. Exchanging /\ pipe \in Seq(Text) /\ Writing(sent) \in Seq(Text) /\ closed = FALSE
      /\ Len(sent.lines) \in Nat
  BY WritingIs DEF DialogueInv, Exchanging
<1>3. pipe' \in Seq(Text)
  BY <1>1, <1>2, FirstOnes
<1>4. Exchanging'
  BY <1>2, <1>3 DEF Exchanging
<1>5. ASSUME NEW k \in Nat, Left(pipe, closed, Writing(sent), k)
      PROVE  Left(pipe', closed', Writing(sent), k)
  BY <1>1, <1>2, <1>5, LeftCut
<1>6. pipe = <<>> => pipe' = <<>>
  BY <1>1
<1>7. ASSUME reading' = "command", pipe' # <<>> PROVE Unread'
  <2>1. Unread
    BY <1>6, <1>7 DEF DialogueInv
  <2>2. Left(pipe', closed', Writing(sent), 0)
    BY <1>5, <2>1 DEF Unread
  <2> QED BY <2>1, <2>2 DEF Unread, Writing
<1>8. ASSUME reading' \in Multiline PROVE InTheMiddle'
  <2>1. InTheMiddle
    BY <1>8 DEF DialogueInv
  <2>2. PICK k \in 0..Len(sent.lines) :
          /\ Left(pipe, closed, Writing(sent), k + 1)
          /\ Made(block, reading, sent.lines, agreed, k)
    BY <2>1 DEF InTheMiddle
  <2>3. Left(pipe', closed', Writing(sent), k + 1)
    <3>1. k + 1 \in Nat
      BY <1>2
    <3> QED BY <1>5, <2>2, <3>1
  <2>4. /\ reading' = sent'.command /\ answer' = <<Receiving[reading']>>
        /\ settings' = agreed' /\ said' = Absent
    BY <2>1 DEF InTheMiddle, Receiving
  <2>5. Writing(sent') = Writing(sent) /\ sent' = sent /\ block' = block
        /\ reading' = reading /\ agreed' = agreed
    OBVIOUS
  <2>6. Made(block', reading', sent'.lines, agreed', k)
    BY <2>2, <2>5
  <2>7. Left(pipe', closed', Writing(sent'), k + 1)
    BY <2>3, <2>5
  <2>8. k \in 0..Len(sent'.lines)
    BY <2>2, <2>5
  <2> QED BY <2>4, <2>6, <2>7, <2>8 DEF InTheMiddle
<1> QED BY <1>4, <1>7, <1>8 DEF DialogueInv

\* The next line is the command, or a line of it, or the terminator.
LEMMA CommandIsRead ==
  ASSUME DialogueInv, reading = "command", ReadLine
  PROVE  /\ Unread /\ Exchanging
         /\ Parse(Head(pipe)) = IF sent.command \in KnownCommands
                                THEN sent.command ELSE "UNKNOWN"
         /\ pipe' \in Seq(Text) /\ Left(pipe', closed, Writing(sent), 1)
         /\ sent.command \notin Multiline => pipe' = <<>>
<1>1. Unread /\ Exchanging /\ IsExchange(sent) /\ pipe \in Seq(Text)
  BY DEF DialogueInv, ReadLine, Exchanging
<1> DEFINE w == Writing(sent)
<1>2. /\ w \in Seq(Text) /\ w[1] = <<sent.command>>
      /\ sent.command \notin Multiline => Len(w) = 1
  BY <1>1, WritingIs
<1>3. Left(pipe, closed, w, 0) /\ pipe # <<>> /\ pipe' = Tail(pipe)
  BY <1>1 DEF Unread, ReadLine
<1> HIDE DEF w
<1>4. /\ Head(pipe) = w[1] /\ Tail(pipe) \in Seq(Text)
      /\ Left(Tail(pipe), closed, w, 1) /\ (1 = Len(w) => Tail(pipe) = <<>>)
  <2>1. LineRead(pipe, closed, w, 0)
    BY <1>1, <1>2, <1>3, LeftTail
  <2> QED BY <2>1 DEF LineRead
<1>5. sent.command # "blank"
  BY <1>1, ExchangeIs
<1>6. Parse(Head(pipe)) = IF sent.command \in KnownCommands
                          THEN sent.command ELSE "UNKNOWN"
  BY <1>2, <1>4, <1>5, ParseIs
<1> QED BY <1>1, <1>2, <1>3, <1>4, <1>6 DEF w

\* A command that is answered at once gets its own reply.
LEMMA AnswerKeeps ==
  ASSUME DialogueInv, AnswerCommand
  PROVE  DialogueInv'
<1> DEFINE c == Parse(Head(pipe))
<1>1. /\ Unread /\ Exchanging /\ pipe' \in Seq(Text)
      /\ c = IF sent.command \in KnownCommands THEN sent.command ELSE "UNKNOWN"
      /\ sent.command \notin Multiline => pipe' = <<>>
  BY CommandIsRead DEF AnswerCommand
<1> HIDE DEF c
<1>2. UNCHANGED <<talk, turn, closed, block, settings, log_level, voices,
                  sent, agreed, said>>
  BY DEF AnswerCommand
<1>3. /\ reading' \in {"command", "ended"} /\ c \notin Multiline
      /\ reading' = "command" =>
           \/ c = "STOP" /\ answer' = Append(answer, "703")
           \/ c = "PAUSE" /\ answer' = Append(answer, "704")
           \/ c = "UNKNOWN" /\ answer' = Append(answer, "300")
           \/ c = "LIST_VOICES"
              /\ answer' = answer \o (IF voices = <<>> THEN <<"304">>
                                      ELSE voices \o <<"200">>)
  BY DEF AnswerCommand, c, Reply, Multiline
<1>4. Exchanging'
  BY <1>1, <1>2 DEF Exchanging
<1>5. sent.command \notin Multiline /\ pipe' = <<>>
  BY <1>1, <1>3 DEF KnownCommands
<1>6. ASSUME reading' = "command"
      PROVE  Answered'
  <2>1. answer = <<>> /\ settings = agreed /\ said = Absent
    BY <1>1 DEF Unread
  <2>2. Agreed = agreed
    BY <1>5 DEF Agreed, Multiline
  <2>3. settings' = Agreed' /\ Carried'
    BY <1>2, <2>1, <2>2 DEF Agreed, Carried
  <2> DEFINE v == IF voices = <<>> THEN <<"304">> ELSE voices \o <<"200">>
  <2>4. <<>> \o v = v
    <3>1. \A x \in Seq(VoiceLines \cup {"200", "304"}) : <<>> \o x = x
      BY ConcatEmptySeq
    <3>2. voices \in Seq(VoiceLines \cup {"200", "304"})
      <4>1. voices \in Seq(VoiceLines)
        BY <1>1 DEF Exchanging
      <4>2. /\ Len(voices) \in Nat /\ voices = [i \in 1..Len(voices) |-> voices[i]]
            /\ \A i \in 1..Len(voices) : voices[i] \in VoiceLines
        BY <4>1, LenProperties, ElementOfSeq
      <4>3. \A i \in 1..Len(voices) : voices[i] \in VoiceLines \cup {"200", "304"}
        BY <4>2
      <4> DEFINE n == Len(voices)
                 vs == [i \in 1..n |-> voices[i]]
      <4>4. n \in Nat /\ voices = vs
        BY <4>2
      <4> HIDE DEF n
      <4>5. vs \in Seq(VoiceLines \cup {"200", "304"})
        BY <4>3, <4>4, IsASeq DEF n
      <4> QED BY <4>4, <4>5
    <3>3. <<"304">> \in Seq(VoiceLines \cup {"200", "304"})
          /\ <<"200">> \in Seq(VoiceLines \cup {"200", "304"})
      OBVIOUS
    <3> HIDE DEF v
    <3>4. v \in Seq(VoiceLines \cup {"200", "304"})
      BY <3>2, <3>3, ConcatProperties DEF v
    <3> QED BY <3>1, <3>4
  <2> HIDE DEF v
  <2>5. answer' \in Expected
    <3>1. CASE c = "STOP"
      <4>1. sent.command = "STOP" /\ answer' = <<"703">>
        BY <1>1, <1>3, <1>6, <2>1, <3>1
      <4> QED BY <4>1 DEF Expected
    <3>2. CASE c = "PAUSE"
      <4>1. sent.command = "PAUSE" /\ answer' = <<"704">>
        BY <1>1, <1>3, <1>6, <2>1, <3>2
      <4> QED BY <4>1 DEF Expected
    <3>3. CASE c = "UNKNOWN"
      <4>1. sent.command \notin KnownCommands /\ answer' = <<"300">>
        BY <1>1, <1>3, <1>6, <2>1, <3>3 DEF KnownCommands, Multiline
      <4> QED BY <4>1 DEF Expected, KnownCommands, Multiline
    <3>4. CASE c = "LIST_VOICES"
      <4>1. sent.command = "LIST_VOICES"
        BY <1>1, <3>4
      <4>2. answer' = v
        BY <1>3, <1>6, <2>1, <2>4, <3>4 DEF v
      <4> QED BY <4>1, <4>2 DEF Expected, v
    <3> QED BY <1>3, <1>6, <3>1, <3>2, <3>3, <3>4
  <2>6. Expected' = Expected
    BY <1>2 DEF Expected
  <2> QED BY <2>3, <2>5, <2>6 DEF Answered
<1> QED BY <1>3, <1>4, <1>5, <1>6 DEF DialogueInv, Multiline

\* So does INIT.
LEMMA InitKeeps ==
  ASSUME DialogueInv, AnswerInit
  PROVE  DialogueInv'
<1>1. /\ Unread /\ Exchanging /\ pipe' \in Seq(Text)
      /\ sent.command = "INIT" /\ pipe' = <<>>
  BY CommandIsRead DEF AnswerInit, Multiline, KnownCommands
<1>2. UNCHANGED <<talk, turn, closed, reading, block, settings, log_level,
                  sent, agreed, said>> /\ reading = "command"
  BY DEF AnswerInit
<1>3. voices' \in Seq(VoiceLines)
  <2>1. CASE voices' = voices
    BY <1>1, <2>1 DEF Exchanging
  <2>2. ASSUME NEW programs \in talk.infos, voices' = ExtractVoices(programs)
        PROVE  voices' \in Seq(VoiceLines)
    <3>1. talk # Silence
      BY DEF Silence
    <3>2. talk \in Talks
      BY <1>1, <3>1 DEF Exchanging
    <3>3. programs \in Seq(Seq(Offers))
      BY <3>2, TalksAssumption
    <3> QED BY <2>2, <3>3, VoicesAre
  <2> QED BY <2>1, <2>2 DEF AnswerInit
<1>4. Exchanging'
  BY <1>1, <1>2, <1>3 DEF Exchanging
<1>5. answer' \in {<<"299">>, <<"399">>}
  BY <1>1 DEF AnswerInit, Reply, Unread
<1>6. Answered'
  <2>1. settings' = Agreed' /\ Carried'
    BY <1>1, <1>2 DEF Agreed, Carried, Unread
  <2> QED BY <1>1, <1>2, <1>5, <2>1 DEF Answered, Expected
<1> QED BY <1>1, <1>2, <1>4, <1>6 DEF DialogueInv, Multiline

\* The lines of a block are the lines that were written, up to the terminator.
LEMMA LineIsRead ==
  ASSUME Exchanging, sent.command \in Multiline, ReadLine,
         NEW k \in 0..Len(sent.lines), Left(pipe, closed, Writing(sent), k + 1)
  PROVE  /\ pipe' \in Seq(Text) /\ Left(pipe', closed, Writing(sent), k + 2)
         /\ k # Len(sent.lines) =>
              /\ k \in 0..(Len(sent.lines) - 1) /\ k + 1 \in 1..Len(sent.lines)
              /\ Head(pipe) = sent.lines[k + 1] /\ Trim(Head(pipe)) # Terminator
         /\ k = Len(sent.lines) => Trim(Head(pipe)) = Terminator /\ pipe' = <<>>
<1> DEFINE w == Writing(sent)
           n == Len(sent.lines)
<1>1. /\ w \in Seq(Text) /\ n \in Nat /\ \A i \in 1..n : w[1 + i] = sent.lines[i]
      /\ Len(w) = n + 2 /\ w[n + 2] = Terminator
  BY WritingIs DEF Exchanging
<1>2. pipe \in Seq(Text) /\ \A i \in 1..n : Trim(sent.lines[i]) # Terminator
  BY DEF Exchanging
<1>3. pipe # <<>> /\ pipe' = Tail(pipe) /\ Left(pipe, closed, w, k + 1)
  BY DEF ReadLine
<1>4. k \in 0..n
  OBVIOUS
<1> HIDE DEF w, n
<1>5. k + 1 \in Nat /\ (k + 1) + 1 = k + 2
  BY <1>1, <1>4
<1>6. LineRead(pipe, closed, w, k + 1)
  BY <1>1, <1>2, <1>3, <1>5, LeftTail
<1>7. /\ Head(pipe) = w[k + 2] /\ Tail(pipe) \in Seq(Text)
      /\ Left(Tail(pipe), closed, w, k + 2)
      /\ k + 2 = Len(w) => Tail(pipe) = <<>>
  BY <1>5, <1>6 DEF LineRead
<1>8. ASSUME k # n
      PROVE  /\ k \in 0..(n - 1) /\ k + 1 \in 1..n
             /\ Head(pipe) = sent.lines[k + 1] /\ Trim(Head(pipe)) # Terminator
  <2>1. k \in 0..(n - 1) /\ k + 1 \in 1..n /\ 1 + (k + 1) = k + 2
    BY <1>1, <1>4, <1>8
  <2> QED BY <1>1, <1>2, <1>7, <2>1
<1>9. ASSUME k = n
      PROVE  Trim(Head(pipe)) = Terminator /\ Tail(pipe) = <<>>
  <2>1. Trim(<<".">>) = <<".">>
    <3>1. "." # "blank"
      OBVIOUS
    <3> QED BY <3>1, ParseIs
  <2> QED BY <1>1, <1>7, <1>9, <2>1 DEF Terminator
<1> QED BY <1>3, <1>7, <1>8, <1>9 DEF n, w

\* A block begins with nothing made of it.
LEMMA BeginKeeps ==
  ASSUME DialogueInv, BeginBlock
  PROVE  DialogueInv'
<1>1. /\ Unread /\ Exchanging /\ pipe' \in Seq(Text)
      /\ Left(pipe', closed, Writing(sent), 1)
      /\ reading' = sent.command /\ sent.command \in Multiline
      /\ answer' = Append(answer, Receiving[sent.command])
  BY CommandIsRead DEF BeginBlock, Reply, Multiline, KnownCommands
<1>2. /\ UNCHANGED <<talk, turn, closed, settings, log_level, voices, connected,
                     sent, agreed, said>>
      /\ block' = [scratch |-> settings, level |-> Absent, body |-> <<>>,
                   bad_syntax |-> FALSE, bad_value |-> FALSE]
  BY DEF BeginBlock
<1>3. Exchanging'
  BY <1>1, <1>2 DEF Exchanging
<1>4. Made(block', sent.command, sent.lines, agreed, 0)
  <2>1. settings = agreed /\ agreed \in [Fields -> Values]
    BY <1>1 DEF Unread, Exchanging
  <2>2. Made([scratch |-> agreed, level |-> Absent, body |-> <<>>,
              bad_syntax |-> FALSE, bad_value |-> FALSE],
             sent.command, sent.lines, agreed, 0)
    BY <2>1, MadeNothing
  <2> QED BY <1>2, <2>1, <2>2
<1>5. InTheMiddle'
  <2>1. 0 \in 0..Len(sent.lines) /\ 0 + 1 = 1
    BY <1>1, WritingIs DEF Exchanging
  <2>2. answer' = <<Receiving[sent.command]>> /\ settings = agreed /\ said = Absent
    BY <1>1 DEF Unread
  <2>3. /\ Left(pipe', closed', Writing(sent'), 0 + 1)
        /\ Made(block', reading', sent'.lines, agreed', 0)
    BY <1>1, <1>2, <1>4, <2>1
  <2>4. /\ reading' = sent'.command /\ answer' = <<Receiving[reading']>>
        /\ settings' = agreed' /\ said' = Absent /\ 0 \in 0..Len(sent'.lines)
    BY <1>1, <1>2, <2>1, <2>2 DEF Receiving
  <2> QED BY <2>3, <2>4 DEF InTheMiddle
<1> QED BY <1>1, <1>3, <1>5 DEF DialogueInv, Multiline

\* A line of a block ...
LEMMA PairKeeps ==
  ASSUME DialogueInv, ReadPair
  PROVE  DialogueInv'
<1>1. /\ InTheMiddle /\ Exchanging /\ reading \in {"SET", "AUDIO", "LOGLEVEL"}
      /\ reading = sent.command /\ ReadLine /\ Trim(Head(pipe)) # Terminator
  BY DEF DialogueInv, ReadPair, InBlock, Multiline, InTheMiddle, EndsBlock
<1>2. PICK k \in 0..Len(sent.lines) :
        /\ Left(pipe, closed, Writing(sent), k + 1)
        /\ Made(block, reading, sent.lines, agreed, k)
  BY <1>1 DEF InTheMiddle
<1>3. sent.command \in Multiline
  BY <1>1 DEF Multiline
<1>4. /\ pipe' \in Seq(Text) /\ Left(pipe', closed, Writing(sent), k + 2)
      /\ k \in 0..(Len(sent.lines) - 1) /\ k + 1 \in 1..Len(sent.lines)
      /\ Head(pipe) = sent.lines[k + 1]
  BY <1>1, <1>2, <1>3, LineIsRead
<1>5. Trim(Head(pipe)) = sent.lines[k + 1]
  BY <1>1, <1>3, <1>4, ExchangeIs DEF Exchanging
<1> DEFINE line == sent.lines[k + 1]
           next == IF ~IsPair(line) THEN [block EXCEPT !.bad_syntax = TRUE]
                   ELSE IF ~Accepts(reading, line)
                     THEN [block EXCEPT !.bad_value = TRUE]
                   ELSE [block EXCEPT
                     !.scratch = IF reading = "SET"
                                 THEN Apply(@, KeyOf(line), ValueOf(line)) ELSE @,
                     !.level = IF reading = "LOGLEVEL" THEN ValueOf(line) ELSE @]
<1>6. block' = next
  <2>1. LET l == Trim(Head(pipe))
        IN  block' =
              IF ~IsPair(l) THEN [block EXCEPT !.bad_syntax = TRUE]
              ELSE IF ~Accepts(reading, l)
                THEN [block EXCEPT !.bad_value = TRUE]
              ELSE [block EXCEPT
                !.scratch = IF reading = "SET"
                            THEN Apply(@, KeyOf(l), ValueOf(l)) ELSE @,
                !.level = IF reading = "LOGLEVEL" THEN ValueOf(l) ELSE @]
    BY DEF ReadPair
  <2> QED BY <1>5, <2>1
<1>7. Made(next, reading, sent.lines, agreed, k + 1)
  <2>1. sent.lines \in Seq(Text) /\ agreed \in [Fields -> Values]
    BY <1>1, ExchangeIs DEF Exchanging
  <2> QED BY <1>1, <1>2, <1>4, <2>1, MadePair
<1> HIDE DEF next
<1>8. UNCHANGED <<talk, turn, closed, reading, settings, log_level, voices,
                  connected, answer, sent, agreed, said>>
  BY DEF ReadPair
<1>9. Exchanging'
  BY <1>1, <1>4, <1>8 DEF Exchanging
<1>10. InTheMiddle'
  <2>1. k + 1 \in 0..Len(sent.lines) /\ (k + 1) + 1 = k + 2
    BY <1>4
  <2>2. /\ Left(pipe', closed', Writing(sent'), (k + 1) + 1)
        /\ Made(block', reading', sent'.lines, agreed', k + 1)
        /\ k + 1 \in 0..Len(sent'.lines)
    BY <1>4, <1>6, <1>7, <1>8, <2>1
  <2>3. /\ reading' = sent'.command /\ answer' = <<Receiving[reading']>>
        /\ settings' = agreed' /\ said' = Absent
    BY <1>1, <1>8 DEF InTheMiddle, Receiving
  <2> QED BY <2>2, <2>3 DEF InTheMiddle
<1> QED BY <1>1, <1>8, <1>9, <1>10 DEF DialogueInv

\* ... and its end.
LEMMA EndKeeps ==
  ASSUME DialogueInv, EndBlock
  PROVE  DialogueInv'
<1>1. /\ InTheMiddle /\ Exchanging /\ reading \in {"SET", "AUDIO", "LOGLEVEL"}
      /\ reading = sent.command /\ sent.command \in Multiline
  BY DEF DialogueInv, EndBlock, InBlock, Multiline, InTheMiddle
<1>2. /\ UNCHANGED <<talk, turn, closed, voices, connected, sent, agreed, said>>
      /\ reading' = "command"
      /\ answer' = Append(answer, IF block.bad_syntax THEN "302"
                                  ELSE IF block.bad_value THEN "303" ELSE "203")
      /\ settings' = IF reading = "SET" /\ ~block.bad_syntax /\ ~block.bad_value
                     THEN block.scratch ELSE settings
  BY DEF EndBlock, Reply
<1>3. PICK k \in 0..Len(sent.lines) :
        /\ Left(pipe, closed, Writing(sent), k + 1)
        /\ Made(block, reading, sent.lines, agreed, k)
  BY <1>1 DEF InTheMiddle
<1>4. pipe' \in Seq(Text) /\ pipe' = <<>> /\ (~closed => k = Len(sent.lines))
  <2>1. CASE ReadLine /\ EndsBlock(Trim(Head(pipe)))
    BY <1>1, <1>3, <2>1, LineIsRead DEF EndsBlock
  <2>2. CASE pipe = <<>> /\ closed /\ UNCHANGED pipe
    BY <1>1, <2>2 DEF Exchanging
  <2> QED BY <2>1, <2>2 DEF EndBlock
<1>5. settings' \in [Fields -> Values]
  <2>1. block.scratch \in [Fields -> Values]
    BY <1>3 DEF Made, BlockStates
  <2> QED BY <1>1, <1>2, <2>1 DEF Exchanging
<1>6. Exchanging'
  BY <1>1, <1>2, <1>4, <1>5 DEF Exchanging
<1>7. ASSUME ~closed PROVE Answered'
  <2>1. Made(block, sent.command, sent.lines, agreed, Len(sent.lines))
    BY <1>1, <1>3, <1>4, <1>7
  <2>2. sent.lines \in Seq(Text)
    BY <1>1, ExchangeIs DEF Exchanging
  <2>3. /\ BlockVerdict(sent) = IF block.bad_syntax THEN "302"
                                ELSE IF block.bad_value THEN "303" ELSE "203"
        /\ sent.command = "SET" /\ ~block.bad_syntax /\ ~block.bad_value =>
             block.scratch = Told(agreed, sent.lines)
    <3>1. Judged(block, sent, agreed)
      BY <1>1, <2>1, <2>2, VerdictIs
    <3> QED BY <3>1 DEF Judged
  <2>4. answer' = <<Receiving[sent.command], BlockVerdict(sent)>>
    <3>1. answer = <<Receiving[sent.command]>>
      BY <1>1 DEF InTheMiddle
    <3> DEFINE r == Receiving[sent.command]
               v == BlockVerdict(sent)
    <3>2. answer = <<r>> /\ answer' = Append(answer, v)
      BY <1>2, <2>3, <3>1
    <3> HIDE DEF r, v
    <3>3. Append(<<r>>, v) = <<r, v>>
      BY TwoReplies
    <3>4. answer' = <<r, v>>
      BY <3>2, <3>3
    <3> QED BY <3>4 DEF r, v
  <2>5. answer' \in Expected
    BY <1>1, <2>4 DEF Expected
  <2>6. Expected' = Expected
    BY <1>1, <1>2 DEF Expected, BlockVerdict
  <2>7. settings' = Agreed
    <3>1. settings = agreed
      BY <1>1 DEF InTheMiddle
    <3>2. BlockVerdict(sent) = "203" <=> ~block.bad_syntax /\ ~block.bad_value
      BY <2>3
    <3> QED BY <1>1, <1>2, <2>3, <3>1, <3>2 DEF Agreed
  <2>8. Agreed' = Agreed
    BY <1>2 DEF Agreed
  <2>9. Carried'
    BY <1>1, <1>2 DEF Carried, InTheMiddle
  <2> QED BY <2>5, <2>6, <2>7, <2>8, <2>9 DEF Answered
<1> QED BY <1>2, <1>4, <1>6, <1>7 DEF DialogueInv, Multiline

\* A line of a text, ...
LEMMA TextKeeps ==
  ASSUME DialogueInv, ReadText
  PROVE  DialogueInv'
<1>1. /\ InTheMiddle /\ Exchanging /\ reading = "SPEAK"
      /\ reading = sent.command /\ ReadLine /\ Trim(Head(pipe)) # Terminator
      /\ sent.command \in Multiline
  BY DEF DialogueInv, ReadText, Multiline, InTheMiddle
<1>2. PICK k \in 0..Len(sent.lines) :
        /\ Left(pipe, closed, Writing(sent), k + 1)
        /\ Made(block, reading, sent.lines, agreed, k)
  BY <1>1 DEF InTheMiddle
<1>3. /\ pipe' \in Seq(Text) /\ Left(pipe', closed, Writing(sent), k + 2)
      /\ k \in 0..(Len(sent.lines) - 1) /\ k + 1 \in 1..Len(sent.lines)
      /\ Head(pipe) = sent.lines[k + 1]
  BY <1>1, <1>2, LineIsRead
<1> DEFINE next == [block EXCEPT !.body = Append(@, Unstuff(sent.lines[k + 1]))]
<1>4. block' = next
  BY <1>3 DEF ReadText
<1>5. Made(next, reading, sent.lines, agreed, k + 1)
  <2>1. sent.lines \in Seq(Text) /\ Made(block, "SPEAK", sent.lines, agreed, k)
    BY <1>1, <1>2, ExchangeIs DEF Exchanging
  <2>2. Made(next, "SPEAK", sent.lines, agreed, k + 1)
    BY <1>3, <2>1, MadeText
  <2> QED BY <1>1, <2>2
<1> HIDE DEF next
<1>6. UNCHANGED <<talk, turn, closed, reading, settings, log_level, voices,
                  connected, answer, sent, agreed, said>>
  BY DEF ReadText
<1>7. Exchanging'
  BY <1>1, <1>3, <1>6 DEF Exchanging
<1>8. InTheMiddle'
  <2>1. k + 1 \in 0..Len(sent.lines) /\ (k + 1) + 1 = k + 2
    BY <1>3
  <2>2. /\ Left(pipe', closed', Writing(sent'), (k + 1) + 1)
        /\ Made(block', reading', sent'.lines, agreed', k + 1)
        /\ k + 1 \in 0..Len(sent'.lines)
    BY <1>3, <1>4, <1>5, <1>6, <2>1
  <2>3. /\ reading' = sent'.command /\ answer' = <<Receiving[reading']>>
        /\ settings' = agreed' /\ said' = Absent
    BY <1>1, <1>6 DEF InTheMiddle, Receiving
  <2> QED BY <2>2, <2>3 DEF InTheMiddle
<1> QED BY <1>1, <1>6, <1>7, <1>8 DEF DialogueInv

\* ... and the whole of it, which is what was written.
LEMMA SpeakKeeps ==
  ASSUME DialogueInv, Speak
  PROVE  DialogueInv'
<1>1. /\ InTheMiddle /\ Exchanging /\ reading = "SPEAK" /\ sent.command = "SPEAK"
      /\ ReadLine /\ Trim(Head(pipe)) = Terminator /\ sent.command \in Multiline
  BY DEF DialogueInv, Speak, Multiline, InTheMiddle
<1>2. PICK k \in 0..Len(sent.lines) :
        /\ Left(pipe, closed, Writing(sent), k + 1)
        /\ Made(block, reading, sent.lines, agreed, k)
  BY <1>1 DEF InTheMiddle
<1>3. k = Len(sent.lines) /\ pipe' = <<>> /\ pipe' \in Seq(Text)
  BY <1>1, <1>2, LineIsRead
<1>4. StripSsml(JoinLines(block.body)) = sent.text
  <2>1. block.body = [i \in 1..Len(sent.lines) |-> Unstuff(sent.lines[i])]
    BY <1>1, <1>2, <1>3 DEF Made
  <2>2. IsExchange(sent)
    BY <1>1 DEF Exchanging
  <2> QED BY <1>1, <2>1, <2>2, ExchangeIs
<1>5. /\ UNCHANGED <<talk, turn, closed, settings, log_level, voices, connected,
                     sent, agreed>>
      /\ reading' = "command"
  BY DEF Speak
<1>6. Exchanging'
  BY <1>1, <1>3, <1>5 DEF Exchanging
<1>7. Agreed = agreed /\ settings = agreed /\ answer = <<Receiving["SPEAK"]>>
  BY <1>1 DEF Agreed, InTheMiddle
<1>8. Receiving["SPEAK"] = "202"
  BY DEF Receiving, Multiline
<1> DEFINE request == ToSynthesizeData(sent.text, settings)
<1>9. /\ answer' \in {<<"202", "301">>, <<"202", "200", "701", "705", "702">>}
      /\ said'.request = request
      /\ said'.bytes # <<>> => Unescaped(said'.bytes) = said'.audio
  <2> DEFINE text == StripSsml(JoinLines(block.body))
  <2>1. CASE /\ Reply("301")
             /\ said' = [request |-> ToSynthesizeData(text, settings),
                         audio |-> <<>>, bytes |-> <<>>]
    <3>1. answer' = <<"202", "301">>
      <4>1. Append(<<"202">>, "301") = <<"202", "301">>
        BY TwoReplies
      <4> QED BY <1>7, <1>8, <2>1, <4>1 DEF Reply
    <3>2. said' = [request |-> request, audio |-> <<>>, bytes |-> <<>>]
      BY <1>4, <2>1
    <3> HIDE DEF request
    <3> QED BY <3>1, <3>2
  <2>2. ASSUME NEW pcm \in talk.audio,
               said' = [request |-> ToSynthesizeData(text, settings),
                        audio |-> pcm, bytes |-> AudioEvent(pcm)],
               answer' = answer \o <<"200", "701", "705", "702">>
        PROVE  /\ answer' = <<"202", "200", "701", "705", "702">>
               /\ said'.request = request
               /\ said'.bytes # <<>> => Unescaped(said'.bytes) = said'.audio
    <3>1. answer' = <<"202", "200", "701", "705", "702">>
      BY <1>7, <1>8, <2>2, FiveReplies
    <3>2. said' = [request |-> request, audio |-> pcm, bytes |-> AudioEvent(pcm)]
      BY <1>4, <2>2
    <3>3. talk # Silence
      BY DEF Silence
    <3>4. pcm \in Seq(Bytes)
      BY <1>1, <3>3, TalksAssumption DEF Exchanging
    <3>5. Unescaped(AudioEvent(pcm)) = pcm
      BY <3>4, AudioArrives
    <3> HIDE DEF request
    <3>6. said'.request = request /\ said'.audio = pcm /\ said'.bytes = AudioEvent(pcm)
      BY <3>2
    <3> QED BY <3>1, <3>5, <3>6
  <2> HIDE DEF request
  <2> QED BY <2>1, <2>2 DEF Speak
<1>10. /\ request.text = sent.text
       /\ request.voice =
            (IF settings.synthesis_voice = Absent /\ settings.language = Absent
             THEN Absent ELSE [name |-> settings.synthesis_voice,
                               language |-> settings.language])
  BY DEF ToSynthesizeData
<1> HIDE DEF request
<1>11. Carried'
  BY <1>5, <1>7, <1>9, <1>10 DEF Carried, Agreed
<1>12. Answered'
  <2>1. answer' \in Expected
    BY <1>1, <1>9 DEF Expected
  <2>2. Expected' = Expected /\ Agreed' = Agreed
    BY <1>1, <1>5 DEF Expected, Agreed
  <2> QED BY <1>5, <1>7, <1>11, <2>1, <2>2 DEF Answered
<1> QED BY <1>3, <1>5, <1>6, <1>12 DEF DialogueInv, Multiline

\* The dialogue can end.
LEMMA EndDialogueKeeps ==
  ASSUME DialogueInv, EndDialogue
  PROVE  DialogueInv'
<1>1. Exchanging
  BY DEF DialogueInv
<1>2. Exchanging'
  BY <1>1 DEF Exchanging, EndDialogue
<1> QED BY <1>2 DEF DialogueInv, EndDialogue, Multiline

-----------------------------------------------------------------------------
(***************************************************************************)
(* What both sides may rely on                                             *)
(***************************************************************************)
\* The invariant is inductive.
LEMMA DialogueInductive ==
  ASSUME Unmistakable
  PROVE  DialogueSpec => []DialogueInv
<1>1. ASSUME DialogueInv, [DialogueNext]_dialogueVars
      PROVE  DialogueInv'
  <2>1. CASE \E e \in talk.exchanges : SpeechdTells(e)
    BY <1>1, <2>1, TellsKeeps
  <2>2. CASE SpeechdCloses
    BY <1>1, <2>2, ClosesKeeps
  <2>3. CASE AnswerCommand
    BY <1>1, <2>3, AnswerKeeps
  <2>4. CASE AnswerInit
    BY <1>1, <2>4, InitKeeps
  <2>5. CASE BeginBlock
    BY <1>1, <2>5, BeginKeeps
  <2>6. CASE ReadPair
    BY <1>1, <2>6, PairKeeps
  <2>7. CASE EndBlock
    BY <1>1, <2>7, EndKeeps
  <2>8. CASE ReadText
    BY <1>1, <2>8, TextKeeps
  <2>9. CASE Speak
    BY <1>1, <2>9, SpeakKeeps
  <2>10. CASE EndDialogue
    BY <1>1, <2>10, EndDialogueKeeps
  <2>11. CASE UNCHANGED dialogueVars
    BY <1>1, <2>11, Stays
  <2> QED BY <1>1, <2>1, <2>2, <2>3, <2>4, <2>5, <2>6, <2>7, <2>8, <2>9, <2>10,
             <2>11 DEF DialogueNext
<1>2. QED
  BY <1>1, DialogueInitInv, PTL DEF DialogueSpec

\* Whatever speech-dispatcher sends and whenever it goes away, a line of a block
\* or of a text is never taken for a command, a command gets its own replies and
\* no others, and between two commands the settings are those of the blocks that
\* were accepted: if no line of what it sends is a dot between blanks.
THEOREM BothAreInStep ==
  ASSUME Unmistakable
  PROVE  DialogueSpec => []InStep
<1>1. DialogueInv => InStep
  <2> SUFFICES ASSUME DialogueInv PROVE InStep
    OBVIOUS
  <2>1. ASSUME reading = "command", pipe # <<>>
        PROVE  pipe[1] = <<sent.command>> /\ answer = <<>>
    <3>1. Unread /\ Exchanging
      BY <2>1 DEF DialogueInv
    <3> DEFINE w == Writing(sent)
    <3>2. w[1] = <<sent.command>>
      BY <3>1, WritingIs DEF Exchanging
    <3>3. Left(pipe, closed, w, 0) /\ pipe \in Seq(Text) /\ answer = <<>>
      BY <3>1 DEF Unread, Exchanging
    <3> HIDE DEF w
    <3>4. 1 \in 1..Len(pipe)
      <4>1. Len(pipe) \in Nat /\ Len(pipe) # 0
        BY <2>1, <3>3, EmptySeq, LenProperties
      <4> QED BY <4>1
    <3>5. pipe[1] = w[0 + 1]
      BY <3>3, <3>4 DEF Left
    <3> QED BY <3>2, <3>3, <3>5
  <2>2. Rests => answer \in Expected /\ settings = Agreed
    BY DEF DialogueInv, Rests, Answered
  <2> QED BY <2>1, <2>2 DEF InStep
<1>2. QED
  BY <1>1, DialogueInductive, PTL

\* A text of any words arrives at the server as it was written, through escaping,
\* index marks, line ends and dots, in the voice that was agreed; and any audio
\* of the server arrives at speech-dispatcher: under the same condition.
THEOREM SpeechArrives ==
  ASSUME Unmistakable
  PROVE  DialogueSpec => []SpeechIsCarried
<1>1. DialogueInv => SpeechIsCarried
  BY DEF DialogueInv, Rests, Answered, Carried, SpeechIsCarried
<1>2. QED
  BY <1>1, DialogueInductive, PTL
=============================================================================
