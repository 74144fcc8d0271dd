---------------------------- MODULE ListLemmas ----------------------------
(***************************************************************************)
(* What the operators on lists compute, for every list: those of Lists,    *)
(* and FlattenSeq of the community modules.  The library's theorems about  *)
(* induction take an operator, which the provers cannot instantiate; where *)
(* a definition recurses, the least number for which the claim fails is    *)
(* taken from a finite set, and shown not to be there (Least).             *)
(***************************************************************************)
EXTENDS Lists, FiniteSetTheorems, SequenceTheorems, TLAPS

-----------------------------------------------------------------------------
(***************************************************************************)
(* Sets of numbers in their order                                          *)
(***************************************************************************)
\* How many of S there are up to n.
Rank(S, n) == Cardinality({m \in S : m <= n})

\* The rank of the members of a finite set numbers them in their order.
LEMMA Ranks ==
  ASSUME NEW S \in SUBSET Nat, IsFiniteSet(S)
  PROVE  /\ \A n \in S : Rank(S, n) \in 1..Cardinality(S)
         /\ \A m, n \in S : m < n => Rank(S, m) < Rank(S, n)
         /\ \A i \in 1..Cardinality(S) : \E n \in S : Rank(S, n) = i
<1> DEFINE upto(n) == {m \in S : m <= n}
<1>1. ASSUME NEW n \in S
      PROVE  /\ IsFiniteSet(upto(n)) /\ upto(n) # {}
             /\ Cardinality(upto(n)) \in 1..Cardinality(S)
  <2>1. n \in upto(n) /\ upto(n) \subseteq S
    OBVIOUS
  <2>2. IsFiniteSet(upto(n)) /\ Cardinality(upto(n)) <= Cardinality(S)
    BY <2>1, FS_Subset
  <2>3. Cardinality(upto(n)) \in Nat /\ Cardinality(upto(n)) # 0
    BY <2>1, <2>2, FS_CardinalityType, FS_EmptySet
  <2>4. Cardinality(S) \in Nat
    BY FS_CardinalityType
  <2> QED BY <2>1, <2>2, <2>3, <2>4
<1>2. ASSUME NEW m \in S, NEW n \in S, m < n
      PROVE  Cardinality(upto(m)) < Cardinality(upto(n))
  <2>1. upto(m) \subseteq upto(n) /\ n \in upto(n) /\ n \notin upto(m)
    <3>1. \A k \in S : k \in Nat
      OBVIOUS
    <3>2. \A k \in S : k <= m => k <= n
      BY <1>2, <3>1
    <3>3. ~(n <= m) /\ n <= n
      BY <1>2, <3>1
    <3>4. n \in upto(n) /\ n \notin upto(m)
      BY <3>3
    <3>5. \A k : k \in upto(m) => k \in upto(n)
      BY <3>2
    <3> QED BY <3>4, <3>5
  <2>2. upto(m) # upto(n)
    BY <2>1
  <2>3. /\ Cardinality(upto(m)) <= Cardinality(upto(n))
        /\ Cardinality(upto(m)) # Cardinality(upto(n))
    BY <1>1, <2>1, <2>2, FS_Subset
  <2> QED BY <1>1, <2>3, FS_CardinalityType
<1>3. ASSUME NEW i \in 1..Cardinality(S)
      PROVE  \E n \in S : Cardinality(upto(n)) = i
  <2> DEFINE f == [n \in S |-> Cardinality(upto(n))]
             image == {f[n] : n \in S}
  <2>1. f \in Bijection(S, image)
    <3>1. f \in Surjection(S, image)
      BY DEF Surjection
    <3>2. \A m, n \in S : m # n => f[m] # f[n]
      <4> SUFFICES ASSUME NEW m \in S, NEW n \in S, m # n
                   PROVE  f[m] # f[n]
        OBVIOUS
      <4>1. m < n \/ n < m
        OBVIOUS
      <4>2. Cardinality(upto(m)) \in Nat /\ Cardinality(upto(n)) \in Nat
        BY <1>1
      <4> QED BY <1>2, <4>1, <4>2
    <3>3. f \in Injection(S, image)
      BY <3>1, <3>2 DEF Injection, IsInjective, Surjection
    <3> QED BY <3>1, <3>3 DEF Bijection
  <2>2. IsFiniteSet(image) /\ Cardinality(image) = Cardinality(S)
    BY <2>1, FS_Bijection DEF ExistsBijection
  <2>3. image \subseteq 1..Cardinality(S)
    BY <1>1
  <2>4. /\ IsFiniteSet(1..Cardinality(S))
        /\ Cardinality(1..Cardinality(S)) = Cardinality(S)
    BY FS_CardinalityType, FS_Interval
  <2>5. image = 1..Cardinality(S)
    BY <2>2, <2>3, <2>4, FS_Subset
  <2> QED BY <2>5
<1> QED BY <1>1, <1>2, <1>3 DEF Rank

\* No two of them have the same rank.
LEMMA Alike ==
  ASSUME NEW S \in SUBSET Nat, IsFiniteSet(S), NEW m \in S, NEW n \in S,
         Rank(S, m) = Rank(S, n)
  PROVE  m = n
<1>1. m \in Nat /\ n \in Nat /\ Cardinality(S) \in Nat
  BY FS_CardinalityType
<1>2. Rank(S, m) \in 1..Cardinality(S) /\ Rank(S, n) \in 1..Cardinality(S)
  BY Ranks
<1>3. (m < n => Rank(S, m) < Rank(S, n)) /\ (n < m => Rank(S, n) < Rank(S, m))
  BY Ranks
<1> QED BY <1>1, <1>2, <1>3

\* InOrder puts the members of a set in their order, each once.
LEMMA Ordered ==
  ASSUME NEW S \in SUBSET Nat, IsFiniteSet(S)
  PROVE  /\ InOrder(S) \in Seq(S) /\ Len(InOrder(S)) = Cardinality(S)
         /\ ToSet(InOrder(S)) = S
         /\ \A i, j \in 1..Cardinality(S) : i < j => InOrder(S)[i] < InOrder(S)[j]
<1> DEFINE N == Cardinality(S)
<1>1. N \in Nat
  BY FS_CardinalityType
<1>2. ASSUME NEW i \in 1..N
      PROVE  InOrder(S)[i] \in S /\ Rank(S, InOrder(S)[i]) = i
  <2>1. \E n \in S : Rank(S, n) = i
    BY Ranks
  <2>2. InOrder(S)[i] = CHOOSE n \in S : Rank(S, n) = i
    BY DEF InOrder, Rank
  <2> QED BY <2>1, <2>2
<1>3. DOMAIN InOrder(S) = 1..N /\ InOrder(S) = [i \in 1..N |-> InOrder(S)[i]]
  BY DEF InOrder
<1>4. InOrder(S) \in [1..N -> S]
  BY <1>2, <1>3
<1>5. InOrder(S) \in Seq(S) /\ Len(InOrder(S)) = N
  BY <1>1, <1>3, <1>4, IsASeq, LenProperties
<1>6. ASSUME NEW n \in S
      PROVE  \E i \in 1..N : InOrder(S)[i] = n
  <2>1. Rank(S, n) \in 1..N
    BY Ranks
  <2> DEFINE i == Rank(S, n)
  <2>2. InOrder(S)[i] \in S /\ Rank(S, InOrder(S)[i]) = i
    BY <1>2, <2>1
  <2>3. \A a \in S : Rank(S, a) = Rank(S, n) => a = n
    BY <1>1, Alike
  <2> QED BY <2>1, <2>2, <2>3
<1>7. ASSUME NEW i \in 1..N, NEW j \in 1..N, i < j
      PROVE  InOrder(S)[i] < InOrder(S)[j]
  <2> DEFINE a == InOrder(S)[i]
             b == InOrder(S)[j]
  <2>1. /\ a \in S /\ b \in S /\ a \in Nat /\ b \in Nat
        /\ Rank(S, a) = i /\ Rank(S, b) = j
    BY <1>2
  <2>2. ~(b < a) /\ a # b
    BY <1>1, <1>7, <2>1, Ranks
  <2> HIDE DEF a, b
  <2>3. a < b
    BY <2>1, <2>2
  <2> QED BY <2>3 DEF a, b
<1>8. ToSet(InOrder(S)) = S
  BY <1>3, <1>4, <1>6 DEF ToSet
<1> QED BY <1>5, <1>7, <1>8

\* Nothing is left out of a list whose every place is picked.
LEMMA PickAll ==
  ASSUME NEW X, NEW s \in Seq(X)
  PROVE  Picked(s, DOMAIN s) = s
<1> DEFINE N == Len(s)
<1>1. N \in Nat /\ DOMAIN s = 1..N
  BY LenProperties
<1>2. (1..N) \in SUBSET Nat /\ IsFiniteSet(1..N) /\ Cardinality(1..N) = N
  <2> HIDE DEF N
  <2>1. IsFiniteSet(1..N) /\ Cardinality(1..N) = IF 1 > N THEN 0 ELSE N - 1 + 1
    BY <1>1, FS_Interval
  <2> QED BY <1>1, <2>1
<1>3. ASSUME NEW i \in 1..N
      PROVE  InOrder(1..N)[i] = i
  <2>1. {m \in 1..N : m <= i} = 1..i /\ i \in Nat
    BY <1>1
  <2>2. Rank(1..N, i) = i
    <3>1. Cardinality(1..i) = i
      BY <2>1, FS_Interval
    <3> QED BY <2>1, <3>1 DEF Rank
  <2>3. ASSUME NEW n \in 1..N, Rank(1..N, n) = i
        PROVE  n = i
    BY <1>2, <2>2, <2>3, Alike
  <2>4. InOrder(1..N)[i] = CHOOSE n \in 1..N : Rank(1..N, n) = i
    BY <1>2 DEF InOrder, Rank
  <2> QED BY <2>2, <2>3, <2>4
<1>4. Picked(s, 1..N) = [i \in 1..N |-> s[i]]
  BY <1>2, <1>3 DEF Picked
<1>5. s = [i \in 1..N |-> s[i]]
  BY <1>1
<1> QED BY <1>1, <1>4, <1>5

\* A set of numbers has a greatest ...
LEMMA Greatest ==
  ASSUME NEW S \in SUBSET Nat, IsFiniteSet(S), S # {}
  PROVE  Max(S) \in S /\ \A n \in S : n <= Max(S)
<1>1. Cardinality(S) \in Nat \ {0}
  BY FS_CardinalityType, FS_EmptySet
<1>2. PICK n \in S : Rank(S, n) = Cardinality(S)
  BY <1>1, Ranks
<1>3. ASSUME NEW m \in S
      PROVE  m <= n
  <2>1. Rank(S, m) \in 1..Cardinality(S) /\ (n < m => Rank(S, n) < Rank(S, m))
    BY Ranks
  <2>2. ~(n < m)
    BY <1>1, <1>2, <2>1
  <2> QED BY <2>2
<1>4. \A m \in S : n >= m
  BY <1>3
<1>5. /\ Max(S) \in S /\ \A m \in S : Max(S) >= m
  BY <1>4 DEF Max
<1> QED BY <1>5

\* ... and a least member.
LEMMA Least ==
  ASSUME NEW S \in SUBSET Nat, IsFiniteSet(S), S # {}
  PROVE  Min(S) \in S /\ \A n \in S : Min(S) <= n
<1>1. Cardinality(S) \in Nat \ {0}
  BY FS_CardinalityType, FS_EmptySet
<1>2. PICK n \in S : Rank(S, n) = 1
  BY <1>1, Ranks
<1>3. ASSUME NEW m \in S
      PROVE  n <= m
  <2>1. Rank(S, m) \in 1..Cardinality(S) /\ (m < n => Rank(S, m) < Rank(S, n))
    BY Ranks
  <2>2. ~(m < n)
    BY <1>1, <1>2, <2>1
  <2> QED BY <2>2
<1>5. /\ Min(S) \in S /\ \A m \in S : Min(S) <= m
  BY <1>3 DEF Min
<1> QED BY <1>5

\* A part of an interval is a finite set of numbers.
LEMMA Parts ==
  ASSUME NEW N \in Nat, NEW S, \A n \in S : n \in 0..N
  PROVE  S \in SUBSET Nat /\ IsFiniteSet(S)
<1>1. IsFiniteSet(0..N)
  BY FS_Interval
<1>2. S \subseteq 0..N
  OBVIOUS
<1>3. IsFiniteSet(S)
  BY <1>1, <1>2, FS_Subset
<1> QED BY <1>2, <1>3

\* InOrder numbers the members of a finite set.
LEMMA Numbered ==
  ASSUME NEW S \in SUBSET Nat, IsFiniteSet(S)
  PROVE  /\ ToSet(InOrder(S)) = S
         /\ \A k \in DOMAIN InOrder(S) : InOrder(S)[k] \in S
         /\ \A n \in S : \E k \in DOMAIN InOrder(S) : InOrder(S)[k] = n
         /\ \A k, l \in DOMAIN InOrder(S) : InOrder(S)[k] = InOrder(S)[l] => k = l
<1> DEFINE o == InOrder(S)
<1>1. /\ o \in Seq(S) /\ ToSet(o) = S /\ Len(o) = Cardinality(S)
      /\ \A k, l \in 1..Cardinality(S) : k < l => o[k] < o[l]
  BY Ordered
<1> HIDE DEF o
<1>2. DOMAIN o = 1..Cardinality(S) /\ Cardinality(S) \in Nat
  BY <1>1, LenProperties
<1>3. ASSUME NEW k \in DOMAIN o, NEW l \in DOMAIN o, o[k] = o[l]
      PROVE  k = l
  <2>1. o[k] \in Nat
    BY <1>1, <1>2, ElementOfSeq
  <2>2. ~(k < l) /\ ~(l < k)
    BY <1>1, <1>2, <1>3, <2>1
  <2> QED BY <1>2, <2>2
<1>4. ToSet(o) = S /\ DOMAIN o = DOMAIN o
  BY <1>1
<1>5. /\ \A k \in DOMAIN o : o[k] \in S
      /\ \A n \in S : \E k \in DOMAIN o : o[k] = n
  BY <1>1 DEF ToSet
<1> QED BY <1>1, <1>3, <1>5 DEF o

-----------------------------------------------------------------------------
(***************************************************************************)
(* One after the other                                                     *)
(***************************************************************************)
\* A set that has 0 and with each number the next has all of them, up to N.
LEMMA OneByOne ==
  ASSUME NEW N \in Nat, NEW S, 0 \in S,
         \A n \in 0..(N - 1) : n \in S => n + 1 \in S
  PROVE  \A n \in 0..N : n \in S
<1> DEFINE bad == {n \in 0..N : n \notin S}
<1> SUFFICES ASSUME bad # {} PROVE FALSE
  OBVIOUS
<1>1. bad \in SUBSET Nat /\ IsFiniteSet(bad)
  BY Parts
<1> DEFINE m == Min(bad)
<1>2. m \in bad /\ \A k \in bad : m <= k
  BY <1>1, Least
<1> HIDE DEF m
<1>3. m \in 0..N /\ m \notin S /\ m # 0
  BY <1>2
<1>4. m - 1 \in 0..(N - 1) /\ m - 1 \in 0..N /\ ~(m <= m - 1) /\ (m - 1) + 1 = m
  BY <1>3
<1>5. m - 1 \in S
  BY <1>2, <1>4
<1> QED BY <1>3, <1>4, <1>5

\* FlattenSeq appends one sequence after the other.
LEMMA FlatSteps ==
  ASSUME NEW X, NEW seqs \in Seq(Seq(X)), seqs # <<>>
  PROVE  \E f : /\ f \in [1..Len(seqs) -> Seq(X)]
                /\ f[1] = seqs[1]
                /\ \A i \in 2..Len(seqs) : f[i] = f[i - 1] \o seqs[i]
                /\ FlattenSeq(seqs) = f[Len(seqs)]
<1> DEFINE N == Len(seqs)
           Body(g, n) == [i \in 1..n |-> IF i = 1 THEN seqs[i] ELSE g[i - 1] \o seqs[i]]
           f == CHOOSE g : g = Body(g, N)
<1>1. N \in Nat /\ N # 0 /\ \A i \in 1..N : seqs[i] \in Seq(X)
  BY EmptySeq, LenProperties
<1>2. FlattenSeq(seqs) = f[N]
  <2>1. Len(seqs) # 0
    BY <1>1
  <2> QED BY <2>1 DEF FlattenSeq
<1>3. \E g : g = Body(g, N)
  <2> DEFINE P(n) == \E g : g = Body(g, n)
             S == {n \in 0..N : P(n)}
  <2>1. P(0)
    <3>1. <<>> = Body(<<>>, 0)
      OBVIOUS
    <3> QED BY <3>1
  <2>2. ASSUME NEW n \in 0..(N - 1), P(n)
        PROVE  P(n + 1)
    <3>1. PICK g : g = Body(g, n)
      BY <2>2
    <3> DEFINE h == [i \in 1..(n + 1) |->
                       IF i = 1 THEN seqs[i] ELSE g[i - 1] \o seqs[i]]
    <3>2. ASSUME NEW i \in 1..n
          PROVE  h[i] = g[i]
      <4>1. i \in 1..(n + 1)
        BY <1>1
      <4>2. g[i] = Body(g, n)[i]
        BY <3>1
      <4> QED BY <4>1, <4>2
    <3>3. ASSUME NEW i \in 1..(n + 1), i # 1
          PROVE  h[i - 1] = g[i - 1]
      <4>1. i - 1 \in 1..n
        BY <3>3, <1>1
      <4> QED BY <4>1, <3>2
    <3>4. h = Body(h, n + 1)
      <4> HIDE DEF h
      <4>1. h = [i \in 1..(n + 1) |-> IF i = 1 THEN seqs[i] ELSE g[i - 1] \o seqs[i]]
        BY DEF h
      <4> QED BY <3>3, <4>1
    <3> HIDE DEF h, Body
    <3> QED BY <3>4
  <2> HIDE DEF P
  <2>3. 0 \in S /\ \A n \in 0..(N - 1) : n \in S => n + 1 \in S
    BY <1>1, <2>1, <2>2
  <2> HIDE DEF S
  <2>4. \A n \in 0..N : n \in S
    BY <1>1, <2>3, OneByOne
  <2>5. P(N)
    BY <1>1, <2>4 DEF S
  <2> QED BY <2>5 DEF P
<1>4. f = Body(f, N)
  <2> HIDE DEF Body
  <2> QED BY <1>3
<1> HIDE DEF f
<1>5. f[1] = seqs[1] /\ \A i \in 2..N : f[i] = f[i - 1] \o seqs[i]
  <2>1. \A i \in 1..N : f[i] = IF i = 1 THEN seqs[i] ELSE f[i - 1] \o seqs[i]
    BY <1>4, Zenon
  <2>2. 1 \in 1..N /\ \A i \in 2..N : i \in 1..N /\ i # 1
    BY <1>1
  <2> QED BY <2>1, <2>2
<1>6. \A n \in 1..N : f[n] \in Seq(X)
  <2> DEFINE P(n) == n # 0 => f[n] \in Seq(X)
             S == {n \in 0..N : P(n)}
  <2>1. P(0)
    OBVIOUS
  <2>2. ASSUME NEW n \in 0..(N - 1), P(n)
        PROVE  P(n + 1)
    <3>1. CASE n = 0
      BY <1>1, <1>5, <3>1
    <3>2. CASE n # 0
      <4>1. n + 1 \in 2..N /\ (n + 1) - 1 = n /\ n + 1 \in 1..N
        BY <1>1, <3>2
      <4>2. f[n + 1] = f[n] \o seqs[n + 1]
        BY <1>5, <4>1
      <4>3. f[n] \in Seq(X) /\ seqs[n + 1] \in Seq(X)
        BY <1>1, <2>2, <3>2, <4>1
      <4> DEFINE a == f[n]
                 b == seqs[n + 1]
      <4>4. a \in Seq(X) /\ b \in Seq(X) /\ f[n + 1] = a \o b
        BY <4>2, <4>3
      <4> HIDE DEF a, b
      <4>5. f[n + 1] \in Seq(X)
        BY <4>4, ConcatProperties
      <4> QED BY <4>5
    <3> QED BY <3>1, <3>2
  <2> HIDE DEF P
  <2>3. 0 \in S /\ \A n \in 0..(N - 1) : n \in S => n + 1 \in S
    BY <1>1, <2>1, <2>2
  <2> HIDE DEF S
  <2>4. \A n \in 0..N : n \in S
    BY <1>1, <2>3, OneByOne
  <2> QED BY <1>1, <2>4 DEF P, S
<1>7. f \in [1..N -> Seq(X)]
  BY <1>4, <1>6
<1> QED BY <1>2, <1>5, <1>7

\* Nothing in, nothing out; ...
LEMMA FlatEmpty == FlattenSeq(<<>>) = <<>>
  BY DEF FlattenSeq

\* ... a sequence, if those in it are; ...
LEMMA FlatTyped ==
  ASSUME NEW X, NEW seqs \in Seq(Seq(X))
  PROVE  FlattenSeq(seqs) \in Seq(X)
<1>1. CASE seqs = <<>>
  BY <1>1, FlatEmpty, EmptySeq
<1>2. CASE seqs # <<>>
  <2>1. PICK f : f \in [1..Len(seqs) -> Seq(X)] /\ FlattenSeq(seqs) = f[Len(seqs)]
    BY <1>2, FlatSteps
  <2>2. Len(seqs) \in 1..Len(seqs)
    BY <1>2, EmptySeq, LenProperties
  <2> QED BY <2>1, <2>2
<1> QED BY <1>1, <1>2

\* ... and the last one at the end.
LEMMA FlatAppend ==
  ASSUME NEW X, NEW seqs \in Seq(Seq(X)), NEW s \in Seq(X)
  PROVE  FlattenSeq(Append(seqs, s)) = FlattenSeq(seqs) \o s
<1> DEFINE N == Len(seqs)
           more == Append(seqs, s)
<1>1. /\ N \in Nat /\ more \in Seq(Seq(X)) /\ Len(more) = N + 1 /\ more # <<>>
      /\ more[N + 1] = s /\ \A i \in 1..N : more[i] = seqs[i]
  BY AppendProperties, LenProperties
<1> HIDE DEF more
<1>2. PICK g : /\ g \in [1..(N + 1) -> Seq(X)] /\ g[1] = more[1]
               /\ \A i \in 2..(N + 1) : g[i] = g[i - 1] \o more[i]
               /\ FlattenSeq(more) = g[N + 1]
  <2> HIDE DEF N
  <2>1. \E g : /\ g \in [1..Len(more) -> Seq(X)] /\ g[1] = more[1]
               /\ \A i \in 2..Len(more) : g[i] = g[i - 1] \o more[i]
               /\ FlattenSeq(more) = g[Len(more)]
    BY <1>1, FlatSteps
  <2> QED BY <1>1, <2>1
<1>3. CASE seqs = <<>>
  <2>1. N = 0 /\ FlattenSeq(seqs) = <<>>
    BY <1>3, FlatEmpty
  <2>2. FlattenSeq(more) = s
    BY <1>1, <1>2, <2>1
  <2>3. <<>> \o s = s
    BY ConcatEmptySeq
  <2> QED BY <2>1, <2>2, <2>3 DEF more
<1>4. CASE seqs # <<>>
  <2>1. PICK f : /\ f \in [1..N -> Seq(X)] /\ f[1] = seqs[1]
                 /\ \A i \in 2..N : f[i] = f[i - 1] \o seqs[i]
                 /\ FlattenSeq(seqs) = f[N]
    BY <1>4, FlatSteps
  <2>2. N # 0
    BY <1>4, EmptySeq
  <2> DEFINE P(n) == n # 0 => g[n] = f[n]
             S == {n \in 0..N : P(n)}
  <2>3. P(0)
    OBVIOUS
  <2>4. ASSUME NEW n \in 0..(N - 1), P(n)
        PROVE  P(n + 1)
    <3>1. CASE n = 0
      BY <1>1, <1>2, <2>1, <2>2, <3>1
    <3>2. CASE n # 0
      <4>1. /\ n + 1 \in 2..N /\ n + 1 \in 2..(N + 1) /\ (n + 1) - 1 = n
            /\ n + 1 \in 1..N
        BY <1>1, <3>2
      <4>2. g[n + 1] = g[n] \o more[n + 1] /\ f[n + 1] = f[n] \o seqs[n + 1]
        BY <1>2, <2>1, <4>1
      <4>3. g[n] = f[n]
        BY <2>4, <3>2
      <4> QED BY <1>1, <4>1, <4>2, <4>3
    <3> QED BY <3>1, <3>2
  <2> HIDE DEF P
  <2>5. 0 \in S /\ \A n \in 0..(N - 1) : n \in S => n + 1 \in S
    BY <1>1, <2>3, <2>4
  <2> HIDE DEF S
  <2>6. g[N] = f[N]
    <3>1. \A n \in 0..N : n \in S
      BY <1>1, <2>5, OneByOne
    <3> QED BY <1>1, <2>2, <3>1 DEF P, S
  <2>7. N + 1 \in 2..(N + 1) /\ (N + 1) - 1 = N
    BY <1>1, <2>2
  <2>8. g[N + 1] = g[N] \o s
    BY <1>1, <1>2, <2>7
  <2> QED BY <1>2, <2>1, <2>6, <2>8 DEF more
<1> QED BY <1>3, <1>4

\* A list is what is before its n-th element, and that.
LEMMA FirstOnes ==
  ASSUME NEW X, NEW s \in Seq(X)
  PROVE  /\ SubSeq(s, 1, 0) = <<>> /\ SubSeq(s, 1, Len(s)) = s
         /\ \A n \in 0..Len(s) :
              /\ SubSeq(s, 1, n) \in Seq(X) /\ Len(SubSeq(s, 1, n)) = n
              /\ \A i \in 1..n : SubSeq(s, 1, n)[i] = s[i]
         /\ \A n \in 0..(Len(s) - 1) :
              SubSeq(s, 1, n + 1) = Append(SubSeq(s, 1, n), s[n + 1])
<1> DEFINE N == Len(s)
<1>1. N \in Nat /\ s = [i \in 1..N |-> s[i]] /\ \A i \in 1..N : s[i] \in X
  BY LenProperties, ElementOfSeq
<1>2. ASSUME NEW n \in 0..N
      PROVE  /\ SubSeq(s, 1, n) = [i \in 1..n |-> s[i]]
             /\ SubSeq(s, 1, n) \in Seq(X) /\ Len(SubSeq(s, 1, n)) = n
  <2>1. SubSeq(s, 1, n) = [i \in 1..n |-> s[i]]
    BY <1>1 DEF SubSeq
  <2>2. [i \in 1..n |-> s[i]] \in [1..n -> X] /\ n \in Nat
    BY <1>1
  <2> QED BY <2>1, <2>2, IsASeq, LenProperties
<1>3. SubSeq(s, 1, 0) = <<>> /\ SubSeq(s, 1, N) = s
  BY <1>1, <1>2
<1>4. ASSUME NEW n \in 0..(N - 1)
      PROVE  SubSeq(s, 1, n + 1) = Append(SubSeq(s, 1, n), s[n + 1])
  <2>1. n \in 0..N /\ n + 1 \in 0..N /\ n + 1 \in 1..N /\ n \in Nat
    BY <1>1
  <2> DEFINE a == SubSeq(s, 1, n)
  <2>2. a \in Seq(X) /\ Len(a) = n /\ a = [i \in 1..n |-> s[i]] /\ s[n + 1] \in X
    BY <1>1, <1>2, <2>1
  <2> HIDE DEF a
  <2>3. /\ Append(a, s[n + 1]) \in Seq(X) /\ Len(Append(a, s[n + 1])) = n + 1
        /\ \A i \in 1..n : Append(a, s[n + 1])[i] = a[i]
        /\ Append(a, s[n + 1])[n + 1] = s[n + 1]
    BY <2>2, AppendProperties
  <2>4. /\ SubSeq(s, 1, n + 1) = [i \in 1..(n + 1) |-> s[i]]
        /\ SubSeq(s, 1, n + 1) \in Seq(X) /\ Len(SubSeq(s, 1, n + 1)) = n + 1
    BY <1>2, <2>1
  <2>5. \A i \in 1..(n + 1) : SubSeq(s, 1, n + 1)[i] = Append(a, s[n + 1])[i]
    BY <2>1, <2>2, <2>3, <2>4
  <2> QED BY <2>1, <2>3, <2>4, <2>5, SeqEqual DEF a
<1> QED BY <1>1, <1>2, <1>3, <1>4

\* It does not matter which two of three lists are put together first.
Associate(a, b, c) == (a \o b) \o c = a \o (b \o c)

LEMMA Together == \A X : \A a, b, c \in Seq(X) : Associate(a, b, c)
<1> TAKE X
<1> TAKE a, b, c \in Seq(X)
<1> QED BY ConcatAssociative DEF Associate

\* Two lists of sequences give what the one gives, and then the other.
LEMMA FlatConcat ==
  ASSUME NEW X, NEW s \in Seq(Seq(X)), NEW t \in Seq(Seq(X))
  PROVE  FlattenSeq(s \o t) = FlattenSeq(s) \o FlattenSeq(t)
<1> DEFINE N == Len(t)
           Q(n) == SubSeq(t, 1, n)
           P(n) == FlattenSeq(s \o Q(n)) = FlattenSeq(s) \o FlattenSeq(Q(n))
           S == {n \in 0..N : P(n)}
<1>1. N \in Nat /\ FlattenSeq(s) \in Seq(X)
  BY LenProperties, FlatTyped
<1>2. P(0)
  <2>1. Q(0) = <<>> /\ s \o <<>> = s /\ FlattenSeq(s) \o <<>> = FlattenSeq(s)
    BY <1>1, FirstOnes, ConcatEmptySeq
  <2> HIDE DEF Q
  <2> QED BY <2>1, FlatEmpty
<1>3. ASSUME NEW n \in 0..(N - 1), P(n)
      PROVE  P(n + 1)
  <2>1. n \in 0..N /\ n + 1 \in 0..N /\ n + 1 \in 1..N
    BY <1>1
  <2>2. Q(n + 1) = Append(Q(n), t[n + 1]) /\ Q(n) \in Seq(Seq(X)) /\ t[n + 1] \in Seq(X)
    BY <2>1, FirstOnes, ElementOfSeq
  <2> DEFINE q == Q(n)
             x == t[n + 1]
  <2>3. FlattenSeq(s \o q) = FlattenSeq(s) \o FlattenSeq(q)
    BY <1>3
  <2>4. q \in Seq(Seq(X)) /\ x \in Seq(X) /\ Q(n + 1) = Append(q, x)
    BY <2>2
  <2> HIDE DEF q, x, Q
  <2>5. s \o Append(q, x) = Append(s \o q, x) /\ s \o q \in Seq(Seq(X))
    <3>1. Append(q, x) = q \o <<x>> /\ <<x>> \in Seq(Seq(X)) /\ s \o q \in Seq(Seq(X))
      BY <2>4, AppendIsConcat, ConcatProperties
    <3>2. Append(s \o q, x) = (s \o q) \o <<x>>
      BY <2>4, <3>1, AppendIsConcat
    <3>3. (s \o q) \o <<x>> = s \o (q \o <<x>>)
      <4> DEFINE u == <<x>>
      <4>1. u \in Seq(Seq(X))
        BY <3>1
      <4> HIDE DEF u
      <4>2. Associate(s, q, u)
        BY <2>4, <4>1, Together
      <4> QED BY <4>2 DEF u, Associate
    <3> QED BY <3>1, <3>2, <3>3
  <2>6. FlattenSeq(Append(s \o q, x)) = (FlattenSeq(s) \o FlattenSeq(q)) \o x
    BY <2>3, <2>4, <2>5, FlatAppend
  <2>7. FlattenSeq(Append(q, x)) = FlattenSeq(q) \o x /\ FlattenSeq(q) \in Seq(X)
    BY <2>4, FlatAppend, FlatTyped
  <2>8. (FlattenSeq(s) \o FlattenSeq(q)) \o x = FlattenSeq(s) \o (FlattenSeq(q) \o x)
    <3> DEFINE a == FlattenSeq(s)
               b == FlattenSeq(q)
    <3>1. a \in Seq(X)
      BY <1>1
    <3>2. b \in Seq(X)
      BY <2>7
    <3>3. x \in Seq(X)
      BY <2>4
    <3> HIDE DEF a, b
    <3>4. Associate(a, b, x)
      BY <3>1, <3>2, <3>3, Together
    <3> QED BY <3>4 DEF a, b, Associate
  <2> QED BY <2>4, <2>5, <2>6, <2>7, <2>8
<1> HIDE DEF P, Q
<1>4. 0 \in S /\ \A n \in 0..(N - 1) : n \in S => n + 1 \in S
  BY <1>1, <1>2, <1>3
<1> HIDE DEF S
<1>5. P(N)
  <2>1. \A n \in 0..N : n \in S
    BY <1>1, <1>4, OneByOne
  <2> QED BY <1>1, <2>1 DEF S
<1>6. Q(N) = t
  BY FirstOnes DEF Q
<1> QED BY <1>5, <1>6 DEF P

\* A list of one gives that one, ...
LEMMA FlatSingle ==
  ASSUME NEW X, NEW s \in Seq(X)
  PROVE  FlattenSeq(<<s>>) = s
<1>1. <<>> \in Seq(Seq(X)) /\ Append(<<>>, s) = <<s>> /\ <<>> \o s = s
  BY EmptySeq, ConcatEmptySeq
<1>2. FlattenSeq(Append(<<>>, s)) = FlattenSeq(<<>>) \o s
  BY <1>1, FlatAppend
<1> QED BY <1>1, <1>2, FlatEmpty

\* ... and a list of empty ones nothing.
LEMMA FlatNothing ==
  ASSUME NEW N \in Nat
  PROVE  FlattenSeq([i \in 1..N |-> <<>>]) = <<>>
<1> DEFINE Q(n) == [i \in 1..n |-> <<>>]
           P(n) == FlattenSeq(Q(n)) = <<>>
           S == {n \in 0..N : P(n)}
<1>1. P(0)
  <2>1. Q(0) = <<>>
    OBVIOUS
  <2> HIDE DEF Q
  <2> QED BY <2>1, FlatEmpty
<1>2. ASSUME NEW n \in 0..(N - 1), P(n)
      PROVE  P(n + 1)
  <2>1. Q(n) \in Seq(Seq({})) /\ <<>> \in Seq({}) /\ Len(Q(n)) = n
    <3>1. n \in Nat /\ \A i \in 1..n : Q(n)[i] \in Seq({})
      BY EmptySeq
    <3>2. Q(n) \in [1..n -> Seq({})]
      BY <3>1
    <3> QED BY <3>1, <3>2, EmptySeq, IsASeq
  <2>2. Q(n + 1) = Append(Q(n), <<>>)
    BY <2>1
  <2> HIDE DEF Q
  <2>3. FlattenSeq(Append(Q(n), <<>>)) = FlattenSeq(Q(n)) \o <<>>
    BY <2>1, FlatAppend
  <2>4. <<>> \o <<>> = <<>>
    BY EmptySeq, ConcatEmptySeq
  <2> QED BY <1>2, <2>2, <2>3, <2>4
<1> HIDE DEF P, Q
<1>3. 0 \in S /\ \A n \in 0..(N - 1) : n \in S => n + 1 \in S
  BY <1>1, <1>2
<1> HIDE DEF S
<1>4. P(N)
  <2>1. \A n \in 0..N : n \in S
    BY <1>3, OneByOne
  <2> QED BY <2>1 DEF S
<1> QED BY <1>4 DEF P, Q
\* What becomes of the elements of t, one after the other.
Each(e, t) == FlattenSeq([i \in DOMAIN t |-> e[t[i]]])

Spellings(X, Y) == [X -> Seq(Y)]

\* It is a sequence, and grows with t: by an element, or by a sequence.
LEMMA EachIs ==
  ASSUME NEW X, NEW Y, NEW e \in Spellings(X, Y), NEW t \in Seq(X)
  PROVE  /\ Each(e, t) \in Seq(Y)
         /\ \A c \in X : Each(e, Append(t, c)) = Each(e, t) \o e[c]
         /\ \A s \in Seq(X) : Each(e, t \o s) = Each(e, t) \o Each(e, s)
<1> USE DEF Spellings
<1> DEFINE list(s) == [i \in 1..Len(s) |-> e[s[i]]]
<1>1. ASSUME NEW s \in Seq(X)
      PROVE  /\ list(s) \in Seq(Seq(Y)) /\ Len(list(s)) = Len(s)
             /\ Each(e, s) = FlattenSeq(list(s))
  <2>1. Len(s) \in Nat /\ DOMAIN s = 1..Len(s) /\ \A i \in 1..Len(s) : s[i] \in X
    BY LenProperties, ElementOfSeq
  <2>2. \A i \in 1..Len(s) : e[s[i]] \in Seq(Y)
    BY <2>1
  <2>3. list(s) \in Seq(Seq(Y))
    BY <2>1, <2>2, IsASeq
  <2>4. list(s) \in [1..Len(s) -> Seq(Y)]
    BY <2>2
  <2>5. Len(list(s)) = Len(s)
    BY <2>1, <2>3, <2>4, LenProperties
  <2> QED BY <2>1, <2>3, <2>5 DEF Each
<1>2. ASSUME NEW c \in X
      PROVE  Each(e, Append(t, c)) = Each(e, t) \o e[c]
  <2> DEFINE more == Append(t, c)
             u == list(more)
             v == Append(list(t), e[c])
             N == Len(t)
  <2>1. /\ more \in Seq(X) /\ Len(more) = N + 1 /\ more[N + 1] = c
        /\ \A i \in 1..N : more[i] = t[i]
    BY AppendProperties
  <2>2. N \in Nat
    BY LenProperties
  <2>3. u \in Seq(Seq(Y)) /\ Len(u) = N + 1 /\ \A i \in 1..(N + 1) : u[i] = e[more[i]]
    BY <1>1, <2>1
  <2>4. e[c] \in Seq(Y)
    OBVIOUS
  <2>5. /\ v \in Seq(Seq(Y)) /\ Len(v) = N + 1 /\ v[N + 1] = e[c]
        /\ \A i \in 1..N : v[i] = e[t[i]]
    <3>1. list(t) \in Seq(Seq(Y)) /\ Len(list(t)) = N
      BY <1>1
    <3>2. \A i \in 1..N : list(t)[i] = e[t[i]]
      OBVIOUS
    <3> HIDE DEF list
    <3> QED BY <2>4, <3>1, <3>2, AppendProperties
  <2> HIDE DEF u, v
  <2>6. \A i \in 1..(N + 1) : u[i] = v[i]
    <3>0. /\ \A i \in 1..(N + 1) : u[i] = e[more[i]]
          /\ \A i \in 1..N : v[i] = e[t[i]] /\ more[i] = t[i]
          /\ v[N + 1] = e[c] /\ more[N + 1] = c
      BY <2>1, <2>3, <2>5
    <3>1. \A i \in 1..(N + 1) : i \in 1..N \/ i = N + 1
      BY <2>2
    <3> HIDE DEF N, more
    <3>2. ASSUME NEW i \in 1..N
          PROVE  u[i] = v[i]
      <4>1. i \in 1..(N + 1)
        BY <2>2
      <4> QED BY <3>0, <4>1
    <3>3. u[N + 1] = v[N + 1]
      <4>1. N + 1 \in 1..(N + 1)
        BY <2>2
      <4> QED BY <3>0, <4>1
    <3> QED BY <3>1, <3>2, <3>3
  <2>7. u = v
    BY <2>3, <2>5, <2>6, SeqEqual
  <2>8. FlattenSeq(v) = FlattenSeq(list(t)) \o e[c]
    <3>1. list(t) \in Seq(Seq(Y))
      BY <1>1
    <3> HIDE DEF list
    <3> QED BY <2>4, <3>1, FlatAppend DEF v
  <2> QED BY <1>1, <2>1, <2>7, <2>8 DEF u
<1>3. Each(e, t) \in Seq(Y)
  <2>1. list(t) \in Seq(Seq(Y)) /\ Each(e, t) = FlattenSeq(list(t))
    BY <1>1
  <2> HIDE DEF list
  <2> QED BY <2>1, FlatTyped
<1>4. ASSUME NEW s \in Seq(X)
      PROVE  Each(e, t \o s) = Each(e, t) \o Each(e, s)
  <2> DEFINE both == t \o s
             u == list(both)
             a == list(t)
             b == list(s)
             N == Len(t)
             M == Len(s)
  <2>1. N \in Nat /\ M \in Nat
    BY LenProperties
  <2>2. /\ both \in Seq(X) /\ Len(both) = N + M
        /\ \A i \in 1..(N + M) : both[i] = IF i <= N THEN t[i] ELSE s[i - N]
    BY ConcatProperties
  <2>3. /\ u \in Seq(Seq(Y)) /\ Len(u) = N + M
        /\ \A i \in 1..(N + M) : u[i] = e[both[i]]
    BY <1>1, <2>2
  <2>4. a \in Seq(Seq(Y)) /\ Len(a) = N /\ \A i \in 1..N : a[i] = e[t[i]]
    BY <1>1
  <2>5. b \in Seq(Seq(Y)) /\ Len(b) = M /\ \A i \in 1..M : b[i] = e[s[i]]
    BY <1>1
  <2>6. Each(e, t) = FlattenSeq(a) /\ Each(e, s) = FlattenSeq(b)
        /\ Each(e, both) = FlattenSeq(u)
    BY <1>1, <2>2
  <2> HIDE DEF both, u, a, b, N, M
  <2>7. /\ a \o b \in Seq(Seq(Y)) /\ Len(a \o b) = N + M
        /\ \A i \in 1..(N + M) : (a \o b)[i] = IF i <= N THEN a[i] ELSE b[i - N]
    <3>1. a \in Seq(Seq(Y)) /\ b \in Seq(Seq(Y))
      BY <2>4, <2>5
    <3>2. /\ a \o b \in Seq(Seq(Y)) /\ Len(a \o b) = Len(a) + Len(b)
          /\ \A i \in 1..(Len(a) + Len(b)) :
               (a \o b)[i] = IF i <= Len(a) THEN a[i] ELSE b[i - Len(a)]
      BY <3>1, ConcatProperties
    <3> QED BY <2>4, <2>5, <3>2
  <2>8. ASSUME NEW i \in 1..(N + M)
        PROVE  u[i] = (a \o b)[i]
    <3>1. CASE i <= N
      <4>1. i \in 1..N /\ both[i] = t[i] /\ (a \o b)[i] = a[i] /\ u[i] = e[both[i]]
        BY <2>1, <2>2, <2>3, <2>7, <3>1
      <4>2. a[i] = e[t[i]]
        BY <2>4, <4>1
      <4> QED BY <4>1, <4>2
    <3>2. CASE ~(i <= N)
      <4>0. i - N \in 1..M
        BY <2>1, <3>2
      <4>1. /\ i - N \in 1..M /\ both[i] = s[i - N] /\ (a \o b)[i] = b[i - N]
            /\ u[i] = e[both[i]]
        <5>1. both[i] = s[i - N]
          BY <2>2, <3>2
        <5>2. (a \o b)[i] = b[i - N]
          BY <2>7, <3>2
        <5> QED BY <2>3, <4>0, <5>1, <5>2
      <4>2. b[i - N] = e[s[i - N]]
        BY <2>5, <4>1
      <4> QED BY <4>1, <4>2
    <3> QED BY <3>1, <3>2
  <2> DEFINE v == a \o b
  <2>9. /\ v \in Seq(Seq(Y)) /\ u \in Seq(Seq(Y)) /\ Len(u) = Len(v)
        /\ \A i \in 1..Len(u) : u[i] = v[i]
    BY <2>3, <2>7, <2>8
  <2>10. FlattenSeq(v) = FlattenSeq(a) \o FlattenSeq(b)
    BY <2>4, <2>5, FlatConcat
  <2> HIDE DEF v
  <2>11. u = v
    BY <2>9, SeqEqual
  <2> QED BY <2>6, <2>10, <2>11 DEF both
<1> QED BY <1>2, <1>3, <1>4
=============================================================================
