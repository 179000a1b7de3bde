-------------------------- MODULE ChainReadsProofs --------------------------
(***************************************************************************)
(* Proofs about ChainReads for any number of requests, chains, queries,    *)
(* blocks and any size of a batch.                                         *)
(***************************************************************************)
EXTENDS ChainReads, FiniteSetTheorems, WellFoundedInduction, TLAPS

----------------------------------------------------------------------------
\* Induction, once and for all: from the least of a set of numbers.

LEMMA LeastNat ==
  ASSUME NEW S \in SUBSET Nat, S # {}
  PROVE  \E i \in S : \A j \in S : i <= j
<1> DEFINE R == OpToRel(<, Nat)
<1>1. IsWellFoundedOn(R, Nat) BY NatLessThanWellFounded
<1>2. \A i, j \in Nat : i < j => <<i, j>> \in R BY DEF OpToRel
<1> HIDE DEF R
<1>3. PICK i \in S : \A j \in S : ~(<<j, i>> \in R) BY <1>1, WFMin
<1>4. \A j \in S : i \in Nat /\ j \in Nat /\ ~(j < i) BY <1>2, <1>3
<1> QED BY <1>4

\* G are the good ones among 1..n.
LEMMA UpTo ==
  ASSUME NEW n \in Nat, NEW G,
         1 \in G, \A i \in 1..n : (i > 1 /\ i - 1 \in G) => i \in G
  PROVE  \A i \in 1..n : i \in G
<1> DEFINE B == {i \in 1..n : i \notin G}
<1>1. SUFFICES ASSUME B # {} PROVE FALSE OBVIOUS
<1>2. B \in SUBSET Nat OBVIOUS
<1>3. PICK i \in B : \A j \in B : i <= j
  <2> HIDE DEF B
  <2> QED BY <1>1, <1>2, LeastNat
<1>4. i # 1 OBVIOUS
<1>5. i - 1 \in 1..n /\ i - 1 \notin B BY <1>3, <1>4
<1> QED BY <1>4, <1>5

----------------------------------------------------------------------------
\* FlattenSeq, which the library defines by a recursive function.

\* The loop's function exists, and at 1..i its values have what G asks.
LEMMA Flattened ==
  ASSUME NEW T, NEW s \in Seq(Seq(T)), s # <<>>
  PROVE  \E f : /\ FlattenSeq(s) = f[Len(s)]
                /\ f[1] = s[1]
                /\ \A i \in 2..Len(s) : f[i] = f[i - 1] \o s[i]
<1> DEFINE n == Len(s)
           Loop(f) == [i \in 1..Len(s) |-> IF i = 1 THEN s[i] ELSE f[i - 1] \o s[i]]
           Partial(f, k) == f[1] = s[1] /\ \A i \in 2..k : f[i] = f[i - 1] \o s[i]
           flatten == CHOOSE f : f = Loop(f)
           G == {k \in 1..n : \E f : Partial(f, k)}
<1>0. n \in Nat \ {0} OBVIOUS
<1>1. \A k \in 1..n : k \in G
  <2>1. 1 \in G
    <3>1. Partial([i \in {1} |-> s[1]], 1) OBVIOUS
    <3> HIDE DEF Partial
    <3> QED BY <1>0, <3>1
  <2>2. ASSUME NEW k \in 1..n, k > 1, k - 1 \in G PROVE k \in G
    <3>1. PICK f : Partial(f, k - 1) BY <2>2
    <3> DEFINE g == [i \in 1..k |-> IF i = k THEN f[k - 1] \o s[k] ELSE f[i]]
    <3>2. g[1] = s[1] BY <2>2, <3>1
    <3>3. ASSUME NEW i \in 2..k PROVE g[i] = g[i - 1] \o s[i]
      <4>1. CASE i = k
        <5>1. k \in 1..k /\ k - 1 \in 1..k /\ k - 1 # k BY <2>2
        <5>2. g[k] = f[k - 1] \o s[k] /\ g[k - 1] = f[k - 1] BY <5>1
        <5> QED BY <4>1, <5>2
      <4>2. CASE i # k
        <5>1. i \in 2..(k - 1) /\ i \in 1..k /\ i - 1 \in 1..k /\ i - 1 # k
          BY <4>2, <2>2
        <5> QED BY <5>1, <4>2, <3>1
      <4> QED BY <4>1, <4>2
    <3>4. Partial(g, k)
      <4> HIDE DEF g
      <4> QED BY <3>2, <3>3
    <3> HIDE DEF Partial
    <3> QED BY <3>4
  <2> HIDE DEF G
  <2> QED BY <1>0, <2>1, <2>2, UpTo
<1>2. PICK f : Partial(f, n)
  <2>1. n \in 1..n BY <1>0
  <2> HIDE DEF Partial, n
  <2> QED BY <1>1, <2>1
<1>3. \E h : h = Loop(h)
  <2> DEFINE h == [i \in 1..n |-> f[i]]
  <2>1. h[1] = s[1] BY <1>0, <1>2
  <2>2. ASSUME NEW i \in 2..n PROVE h[i] = h[i - 1] \o s[i]
    <3>1. i \in 1..n /\ i - 1 \in 1..n OBVIOUS
    <3> QED BY <3>1, <1>2
  <2>3. \A i \in 1..n : h[i] = IF i = 1 THEN s[i] ELSE h[i - 1] \o s[i]
    <3> HIDE DEF h
    <3> TAKE i \in 1..n
    <3>1. CASE i = 1 BY <3>1, <2>1
    <3>2. CASE i # 1
      <4>1. i \in 2..n BY <3>2
      <4> QED BY <3>2, <4>1, <2>2
    <3> QED BY <3>1, <3>2
  <2>4. h = [i \in 1..n |-> h[i]] OBVIOUS
  <2> HIDE DEF h
  <2>5. h = Loop(h) BY <2>3, <2>4
  <2> QED BY <2>5
<1>4. flatten = Loop(flatten)
  <2> HIDE DEF Loop
  <2> QED BY <1>3
<1>5. FlattenSeq(s) = flatten[n] BY <1>0 DEF FlattenSeq
<1>6. flatten[1] = s[1]
  <2> HIDE DEF flatten
  <2>1. 1 \in 1..Len(s) BY <1>0
  <2> QED BY <1>4, <2>1
<1>7. ASSUME NEW i \in 2..n PROVE flatten[i] = flatten[i - 1] \o s[i]
  <2>1. i \in 1..Len(s) /\ i # 1 OBVIOUS
  <2> HIDE DEF flatten
  <2> QED BY <1>4, <2>1
<1> QED BY <1>5, <1>6, <1>7

LEMMA IsSequence ==
  ASSUME NEW T, NEW t, NEW n \in Nat, t = [i \in 1..n |-> t[i]], \A i \in 1..n : t[i] \in T
  PROVE  t \in Seq(T) /\ Len(t) = n /\ DOMAIN t = 1..n
OBVIOUS

LEMMA Member ==
  ASSUME NEW T, NEW s \in Seq(T), NEW i \in 1..Len(s)
  PROVE  s[i] \in ToSet(s) /\ s[i] \in T
<1>1. i \in DOMAIN s OBVIOUS
<1> QED BY <1>1 DEF ToSet

IsJoined(T, c, a, b) ==
  /\ c \in Seq(T) /\ Len(c) = Len(a) + Len(b)
  /\ \A i \in 1..Len(a) : c[i] = a[i]
  /\ \A i \in 1..Len(b) : c[i + Len(a)] = b[i]

LEMMA Joined ==
  ASSUME NEW T, NEW a \in Seq(T), NEW b \in Seq(T)
  PROVE  IsJoined(T, a \o b, a, b)
BY DEF IsJoined

\* Elements of a sequence that is joined from two.
LEMMA JoinedFrom ==
  ASSUME NEW T, NEW a \in Seq(T), NEW b \in Seq(T), NEW c, IsJoined(T, c, a, b)
  PROVE  ToSet(c) = ToSet(a) \cup ToSet(b)
<1>1. Len(a) \in Nat /\ Len(b) \in Nat /\ c \in Seq(T) /\ Len(c) = Len(a) + Len(b)
  BY DEF IsJoined
<1>2. ASSUME NEW x \in ToSet(c) PROVE x \in ToSet(a) \cup ToSet(b)
  <2>1. PICK i \in 1..Len(c) : x = c[i] BY <1>1 DEF ToSet
  <2>2. CASE i <= Len(a)
    <3>1. i \in 1..Len(a) BY <1>1, <2>2
    <3> QED BY <3>1, <2>1 DEF IsJoined, ToSet
  <2>3. CASE i > Len(a)
    <3>1. i - Len(a) \in 1..Len(b) /\ (i - Len(a)) + Len(a) = i BY <1>1, <2>3
    <3>2. c[i] = b[i - Len(a)] BY <3>1 DEF IsJoined
    <3> QED BY <3>1, <3>2, <2>1 DEF ToSet
  <2> QED BY <1>1, <2>2, <2>3
<1>3. ASSUME NEW x \in ToSet(a) PROVE x \in ToSet(c)
  <2>1. PICK i \in 1..Len(a) : x = a[i] BY DEF ToSet
  <2>2. i \in 1..Len(c) /\ c[i] = a[i] BY <1>1 DEF IsJoined
  <2>3. c[i] \in ToSet(c) BY <1>1, <2>2, Member
  <2> QED BY <2>1, <2>2, <2>3
<1>4. ASSUME NEW x \in ToSet(b) PROVE x \in ToSet(c)
  <2>1. PICK i \in 1..Len(b) : x = b[i] BY DEF ToSet
  <2>2. i + Len(a) \in 1..Len(c) /\ c[i + Len(a)] = b[i] BY <1>1 DEF IsJoined
  <2>3. c[i + Len(a)] \in ToSet(c) BY <1>1, <2>2, Member
  <2> QED BY <2>1, <2>2, <2>3
<1> QED BY <1>2, <1>3, <1>4

LEMMA FlattenedSet ==
  ASSUME NEW T, NEW s \in Seq(Seq(T)), s # <<>>
  PROVE  /\ FlattenSeq(s) \in Seq(T)
         /\ ToSet(FlattenSeq(s)) = UNION {ToSet(s[i]) : i \in 1..Len(s)}
<1>1. PICK f : /\ FlattenSeq(s) = f[Len(s)]
               /\ f[1] = s[1]
               /\ \A i \in 2..Len(s) : f[i] = f[i - 1] \o s[i]
  BY Flattened
<1> DEFINE U(i) == UNION {ToSet(s[j]) : j \in 1..i}
           Good(i) == f[i] \in Seq(T) /\ ToSet(f[i]) = U(i)
           G == {i \in 1..Len(s) : Good(i)}
<1>0. Len(s) \in Nat \ {0} OBVIOUS
<1>2. ASSUME NEW i \in 1..Len(s) PROVE s[i] \in Seq(T) OBVIOUS
<1>3. 1 \in G
  <2>1. U(1) = ToSet(s[1])
    <3>1. 1..1 = {1} OBVIOUS
    <3> QED BY <3>1
  <2>2. 1 \in 1..Len(s) BY <1>0
  <2> QED BY <1>1, <1>2, <2>1, <2>2
<1>4. ASSUME NEW i \in 1..Len(s), i > 1, i - 1 \in G PROVE i \in G
  <2>1. f[i - 1] \in Seq(T) /\ ToSet(f[i - 1]) = U(i - 1) BY <1>4
  <2>2. f[i] = f[i - 1] \o s[i]
    <3>1. i \in 2..Len(s) BY <1>4
    <3> QED BY <1>1, <3>1
  <2>3. IsJoined(T, f[i], f[i - 1], s[i]) BY <2>1, <2>2, <1>2, Joined
  <2>4. f[i] \in Seq(T) BY <2>3 DEF IsJoined
  <2>5. ToSet(f[i]) = ToSet(f[i - 1]) \cup ToSet(s[i])
    BY ONLY <2>1, <2>3, <1>2, JoinedFrom
  <2>6. U(i) = U(i - 1) \cup ToSet(s[i])
    <3>1. 1..i = (1..(i - 1)) \cup {i} BY <1>4
    <3> QED BY <3>1
  <2> QED BY <2>1, <2>4, <2>6, <2>5
<1>5. Len(s) \in G
  <2>1. Len(s) \in 1..Len(s) BY <1>0
  <2> HIDE DEF G
  <2> QED BY <1>0, <1>3, <1>4, <2>1, UpTo
<1> QED BY <1>1, <1>5

----------------------------------------------------------------------------
\* Orders of a finite set have all its elements.

LEMMA OrderHasAll ==
  ASSUME NEW D, IsFiniteSet(D), NEW order \in SetToSeqs(D)
  PROVE  order \in Seq(D) /\ ToSet(order) = D
<1> DEFINE n == Cardinality(D)
<1>1. n \in Nat BY FS_CardinalityType
<1>2. order \in [1..n -> D] /\ \A i, j \in 1..n : i # j => order[i] # order[j]
  BY DEF SetToSeqs
<1> HIDE DEF n
<1>3. order \in Seq(D) /\ DOMAIN order = 1..n BY <1>1, <1>2
<1>4. order \in Injection(1..n, D) BY <1>2 DEF Injection, IsInjective
<1>5. IsFiniteSet(1..n) /\ Cardinality(1..n) = n
  <2>1. 1 \in Int /\ n \in Int BY <1>1
  <2>2. /\ IsFiniteSet(1..n)
        /\ Cardinality(1..n) = IF 1 > n THEN 0 ELSE n - 1 + 1
    BY <2>1, FS_Interval
  <2> QED BY <1>1, <2>2
<1>6. order \in Surjection(1..n, D)
  <2>1. Cardinality(1..n) = Cardinality(D) <=> order \in Surjection(1..n, D)
    BY <1>4, FS_Injection
  <2> QED BY <1>5, <2>1 DEF n
<1>7. \A x \in D : \E i \in 1..n : order[i] = x BY <1>6 DEF Surjection
<1> QED BY <1>2, <1>3, <1>7 DEF ToSet

----------------------------------------------------------------------------
\* The pairs a query asks for, in whatever order they are listed.

Text == DOMAIN Hex
Item == Text \cup (Text \X Text)

PairsFor(q, a) == {<<Spelling(q.chain, t), Spelling(q.chain, a)>> : t \in ToSet(q.tokens[a])}
Pairs(q) == UNION {PairsFor(q, a) : a \in DOMAIN q.tokens}

LEMMA Sizes == MaxBatch \in Nat /\ MaxBatch >= 1 /\ MaxHeight \in Nat /\ MaxHeight >= 1
<1>1. MaxBatch \in Nat \ {0} /\ MaxHeight \in Nat \ {0} BY ChainAssumption, Zenon
<1> QED BY <1>1

LEMMA Bounds ==
  /\ None \notin Req /\ None \notin Blocks
  /\ "SOLANA" \notin Evm /\ "TRON" \notin Evm
  /\ \A m \in DOMAIN Number : Number[m] \in Height
  /\ \A m \in {"", "latest", "latest_solid", "safe", "finalized"} : m \notin DOMAIN Number
BY ChainAssumption

LEMMA QueryFacts ==
  ASSUME NEW q \in Query
  PROVE  /\ q.addrs \in Seq(Text)
         /\ DOMAIN q.tokens \subseteq Text /\ IsFiniteSet(DOMAIN q.tokens)
         /\ \A a \in DOMAIN q.tokens : q.tokens[a] \in Seq(Text)
         /\ \A a \in Text : Spelling(q.chain, a) \in Text
BY ChainAssumption DEF Spelling, Text

LEMMA PairsListed ==
  ASSUME NEW q \in Query, DOMAIN q.tokens # {},
         NEW order \in SetToSeqs(DOMAIN q.tokens)
  PROVE  /\ PairsOf(q, order) \in Seq(Text \X Text)
         /\ ToSet(PairsOf(q, order)) = Pairs(q)
<1> DEFINE D == DOMAIN q.tokens
           c == q.chain
           row(a) == [j \in DOMAIN q.tokens[a] |->
                       <<Spelling(c, q.tokens[a][j]), Spelling(c, a)>>]
           s == [i \in DOMAIN order |-> row(order[i])]
<1>1. order \in Seq(D) /\ ToSet(order) = D BY QueryFacts, OrderHasAll
<1>2. ASSUME NEW a \in D
      PROVE  row(a) \in Seq(Text \X Text) /\ ToSet(row(a)) = PairsFor(q, a)
  <2>1. q.tokens[a] \in Seq(Text) /\ a \in Text BY QueryFacts
  <2>2. \A j \in DOMAIN q.tokens[a] :
          <<Spelling(c, q.tokens[a][j]), Spelling(c, a)>> \in Text \X Text
    BY <2>1, QueryFacts
  <2>3. row(a) \in Seq(Text \X Text)
    <3>1. PICK n \in Nat : DOMAIN q.tokens[a] = 1..n BY <2>1
    <3>2. row(a) = [j \in 1..n |-> row(a)[j]] BY <3>1
    <3>3. \A j \in 1..n : row(a)[j] \in Text \X Text BY <2>2, <3>1
    <3> HIDE DEF row
    <3> QED BY ONLY <3>1, <3>2, <3>3, IsSequence
  <2>4. ToSet(row(a)) = {row(a)[j] : j \in DOMAIN q.tokens[a]} BY DEF ToSet
  <2>5. ToSet(q.tokens[a]) = {q.tokens[a][j] : j \in DOMAIN q.tokens[a]} BY DEF ToSet
  <2>6. \A j \in DOMAIN q.tokens[a] :
          row(a)[j] = <<Spelling(c, q.tokens[a][j]), Spelling(c, a)>>
    OBVIOUS
  <2> HIDE DEF row
  <2>7. ToSet(row(a)) = PairsFor(q, a) BY <2>4, <2>5, <2>6 DEF PairsFor
  <2> QED BY <2>3, <2>7
<1> HIDE DEF row
<1>3. s \in Seq(Seq(Text \X Text)) /\ Len(s) = Len(order) /\ s # <<>>
  <2>1. order # <<>> BY <1>1 DEF ToSet
  <2>2. \A i \in 1..Len(order) : order[i] \in D BY <1>1
  <2>3. \A i \in 1..Len(order) : row(order[i]) \in Seq(Text \X Text) BY <1>2, <2>2
  <2>4. Len(order) \in Nat \ {0} /\ DOMAIN order = 1..Len(order) BY <1>1, <2>1
  <2> QED BY <2>3, <2>4
<1>4. \A i \in 1..Len(s) : order[i] \in D /\ ToSet(s[i]) = PairsFor(q, order[i])
  BY <1>1, <1>2, <1>3
<1>5. UNION {ToSet(s[i]) : i \in 1..Len(s)} = Pairs(q)
  <2>1. \A a \in D : \E i \in 1..Len(s) : order[i] = a BY <1>1, <1>3 DEF ToSet
  <2> HIDE DEF s
  <2> QED BY <1>4, <2>1 DEF Pairs
<1>6. PairsOf(q, order) = FlattenSeq(s) BY DEF PairsOf, row
<1> HIDE DEF s
<1> QED BY <1>3, <1>5, <1>6, FlattenedSet

----------------------------------------------------------------------------
\* Chunks: none empty, none too long, nothing lost and nothing added.

LEMMA DivBounds ==
  ASSUME NEW a \in Nat, NEW n \in Nat \ {0}
  PROVE  /\ a \div n \in Nat
         /\ (a \div n) * n <= a
         /\ a < (a \div n) * n + n
OBVIOUS

LEMMA MultMonotone ==
  ASSUME NEW i \in Nat, NEW j \in Nat, NEW n \in Nat, i <= j
  PROVE  i * n <= j * n
OBVIOUS

LEMMA Slice ==
  ASSUME NEW T, NEW s \in Seq(T), NEW a \in 1..Len(s), NEW b \in a..Len(s)
  PROVE  /\ SubSeq(s, a, b) \in Seq(T)
         /\ Len(SubSeq(s, a, b)) = b - a + 1
         /\ ToSet(SubSeq(s, a, b)) = {s[k] : k \in a..b}
<1> DEFINE t == SubSeq(s, a, b)
<1>1. /\ t \in Seq(T) /\ Len(t) = b - a + 1
      /\ \A i \in 1..(b - a + 1) : t[i] = s[i + a - 1]
  OBVIOUS
<1> HIDE DEF t
<1>2. ASSUME NEW x \in ToSet(t) PROVE x \in {s[k] : k \in a..b}
  <2>1. PICK i \in 1..(b - a + 1) : x = t[i] BY <1>1 DEF ToSet
  <2>2. i + a - 1 \in a..b OBVIOUS
  <2> QED BY <1>1, <2>1, <2>2
<1>3. ASSUME NEW k \in a..b PROVE s[k] \in ToSet(t)
  <2>1. k - a + 1 \in 1..(b - a + 1) /\ (k - a + 1) + a - 1 = k OBVIOUS
  <2>2. t[k - a + 1] = s[k] BY <1>1, <2>1
  <2>3. k - a + 1 \in 1..Len(t) BY <1>1, <2>1
  <2> QED BY <1>1, <2>2, <2>3, Member
<1> QED BY <1>1, <1>2, <1>3 DEF t

LEMMA Chunked ==
  ASSUME NEW T, NEW s \in Seq(T), NEW n \in Nat \ {0}
  PROVE  /\ Chunks(s, n) \in Seq(Seq(T))
         /\ \A i \in 1..Len(Chunks(s, n)) : Len(Chunks(s, n)[i]) \in 1..n
         /\ UNION {ToSet(Chunks(s, n)[i]) : i \in 1..Len(Chunks(s, n))} = ToSet(s)
<1> DEFINE L == Len(s)
           N == (L + n - 1) \div n
           first(i) == (i - 1) * n + 1
           last(i) == IF i * n > L THEN L ELSE i * n
           C == [i \in 1..N |-> SubSeq(s, first(i), last(i))]
<1>0. C = Chunks(s, n) BY DEF Chunks
<1>1. L \in Nat OBVIOUS
<1>2. N \in Nat /\ N * n <= L + n - 1 /\ L + n - 1 < N * n + n
  <2>1. L + n - 1 \in Nat BY <1>1
  <2> HIDE DEF L
  <2> QED BY <2>1, DivBounds
<1> HIDE DEF N, L
<1>3. ASSUME NEW i \in 1..N
      PROVE  /\ first(i) \in 1..L /\ last(i) \in first(i)..L
             /\ last(i) - first(i) + 1 \in 1..n
  <2>1. i * n <= N * n BY <1>2, MultMonotone
  <2>2. (i - 1) * n = i * n - n OBVIOUS
  <2>3. i * n \in Nat /\ (i - 1) * n \in Nat
    <3>1. i \in Nat /\ i - 1 \in Nat BY <1>2
    <3> QED BY <3>1
  <2> DEFINE m == i * n
             l == (i - 1) * n
             p == N * n
  <2>4. p \in Int BY <1>2
  <2> HIDE DEF m, l, p
  <2>5. /\ m <= p /\ l = m - n /\ m \in Nat /\ l \in Nat /\ p <= L + n - 1
    BY <2>1, <2>2, <2>3, <1>2 DEF m, l, p
  <2>6. first(i) = l + 1 /\ last(i) = IF m > L THEN L ELSE m BY DEF m, l
  <2> HIDE DEF first, last
  <2> QED BY <2>4, <2>5, <2>6, <1>1
<1>4. ASSUME NEW i \in 1..N
      PROVE  /\ C[i] \in Seq(T) /\ Len(C[i]) \in 1..n
             /\ ToSet(C[i]) = {s[k] : k \in first(i)..last(i)}
  <2>1. C[i] = SubSeq(s, first(i), last(i)) OBVIOUS
  <2>2. first(i) \in 1..Len(s) /\ last(i) \in first(i)..Len(s) BY <1>3 DEF L
  <2> HIDE DEF first, last, C
  <2> QED BY <2>1, <2>2, <1>3, Slice
<1>5. C \in Seq(Seq(T)) /\ Len(C) = N
  <2>1. DOMAIN C = 1..N /\ C = [i \in 1..N |-> C[i]] OBVIOUS
  <2>2. \A i \in 1..N : C[i] \in Seq(T) BY <1>4
  <2>3. N \in Nat BY <1>2
  <2> HIDE DEF C
  <2> QED BY ONLY <2>1, <2>2, <2>3, IsSequence
<1>6. ASSUME NEW k \in 1..L PROVE \E i \in 1..N : k \in first(i)..last(i)
  <2> DEFINE i == (k - 1) \div n
  <2>1. i \in Nat /\ i * n <= k - 1 /\ k - 1 < i * n + n
    <3>1. k - 1 \in Nat OBVIOUS
    <3> QED BY <3>1, DivBounds
  <2> HIDE DEF i
  <2>2. i < N
    <3>1. SUFFICES ASSUME N <= i PROVE FALSE BY <1>2, <2>1
    <3>2. N * n <= i * n BY <1>2, <2>1, <3>1, MultMonotone
    <3>3. N * n \in Nat /\ i * n \in Nat BY <1>2, <2>1
    <3> QED BY <1>1, <1>2, <2>1, <3>2, <3>3
  <2>3. i + 1 \in 1..N BY <1>2, <2>1, <2>2
  <2>4. first(i + 1) = i * n + 1 /\ (i + 1) * n = i * n + n /\ i * n \in Nat BY <2>1
  <2>5. k \in first(i + 1)..last(i + 1)
    <3> DEFINE m == (i + 1) * n
               l == i * n
    <3>1. l \in Nat /\ m = l + n /\ l <= k - 1 /\ k - 1 < l + n /\ first(i + 1) = l + 1
      BY <2>1, <2>4
    <3>2. last(i + 1) = IF m > L THEN L ELSE m OBVIOUS
    <3> HIDE DEF m, l, first, last
    <3> QED BY <1>1, <3>1, <3>2
  <2> QED BY <2>3, <2>5
<1> HIDE DEF C
<1>7. UNION {ToSet(C[i]) : i \in 1..N} = ToSet(s)
  <2>1. ASSUME NEW i \in 1..N, NEW x \in ToSet(C[i]) PROVE x \in ToSet(s)
    <3>1. PICK k \in first(i)..last(i) : x = s[k] BY <1>4, <2>1
    <3>2. k \in 1..Len(s)
      <4> HIDE DEF first, last
      <4> QED BY <1>1, <1>3 DEF L
    <3> QED BY <3>1, <3>2, Member
  <2>2. ASSUME NEW x \in ToSet(s) PROVE \E i \in 1..N : x \in ToSet(C[i])
    <3>1. PICK k \in 1..L : x = s[k] BY DEF ToSet, L
    <3>2. PICK i \in 1..N : k \in first(i)..last(i) BY <1>6
    <3>3. ToSet(C[i]) = {s[j] : j \in first(i)..last(i)} BY <1>4
    <3> HIDE DEF first, last
    <3> QED BY <3>1, <3>2, <3>3
  <2> QED BY <2>1, <2>2
<1> QED BY <1>0, <1>4, <1>5, <1>7

----------------------------------------------------------------------------
\* What is left to call.

LeftOf(todo) == UNION {ToSet(todo[i].items) : i \in 1..Len(todo)}

Batch == {s \in Seq(Item) : Len(s) \in 1..MaxBatch}

Call(hows) == [how : hows, items : Batch]

LEMMA TodoPlanned ==
  ASSUME NEW how, NEW cs \in Seq(Batch)
  PROVE  /\ Todo(how, cs) \in Seq(Call({how}))
         /\ LeftOf(Todo(how, cs)) = UNION {ToSet(cs[i]) : i \in 1..Len(cs)}
<1> DEFINE t == Todo(how, cs)
<1>1. /\ DOMAIN t = 1..Len(cs) /\ Len(cs) \in Nat
      /\ \A i \in 1..Len(cs) : t[i] = [how |-> how, items |-> cs[i]]
      /\ t = [i \in 1..Len(cs) |-> t[i]]
  BY DEF Todo
<1> HIDE DEF t
<1>2. ASSUME NEW i \in 1..Len(cs) PROVE t[i] \in Call({how}) /\ t[i].items = cs[i]
  <2>1. cs[i] \in Batch OBVIOUS
  <2> QED BY <1>1, <2>1 DEF Call
<1>3. t \in Seq(Call({how})) /\ Len(t) = Len(cs) BY ONLY <1>1, <1>2, IsSequence
<1>4. LeftOf(t) = UNION {ToSet(cs[i]) : i \in 1..Len(cs)} BY <1>2, <1>3 DEF LeftOf
<1> QED BY <1>3, <1>4 DEF t

LEMMA CallsWiden ==
  ASSUME NEW G, NEW H, G \subseteq H, NEW t \in Seq(Call(G))
  PROVE  t \in Seq(Call(H))
<1>1. Call(G) \subseteq Call(H) BY DEF Call
<1> QED BY <1>1

LEMMA ChunksPlanned ==
  ASSUME NEW H, NEW how \in H, NEW s \in Seq(Item)
  PROVE  /\ Todo(how, Chunks(s, MaxBatch)) \in Seq(Call(H))
         /\ LeftOf(Todo(how, Chunks(s, MaxBatch))) = ToSet(s)
<1> DEFINE cs == Chunks(s, MaxBatch)
<1>1. /\ cs \in Seq(Seq(Item))
      /\ \A i \in 1..Len(cs) : Len(cs[i]) \in 1..MaxBatch
      /\ UNION {ToSet(cs[i]) : i \in 1..Len(cs)} = ToSet(s)
  BY Chunked, ChainAssumption
<1> HIDE DEF cs
<1>2. cs \in Seq(Batch)
  <2>1. \A i \in 1..Len(cs) : cs[i] \in Batch BY <1>1 DEF Batch
  <2>2. cs = [i \in 1..Len(cs) |-> cs[i]] /\ Len(cs) \in Nat BY <1>1
  <2> QED BY <2>1, <2>2
<1>3. /\ Todo(how, cs) \in Seq(Call({how}))
      /\ LeftOf(Todo(how, cs)) = UNION {ToSet(cs[i]) : i \in 1..Len(cs)}
  BY <1>2, TodoPlanned
<1>4. {how} \subseteq H OBVIOUS
<1>5. Todo(how, cs) \in Seq(Call(H))
  <2>1. Todo(how, cs) \in Seq(Call({how})) BY <1>3
  <2> QED BY ONLY <1>4, <2>1, CallsWiden
<1> QED BY <1>1, <1>3, <1>5 DEF cs

LEMMA OneByOnePlanned ==
  ASSUME NEW H, NEW how \in H, NEW s \in Seq(Item)
  PROVE  /\ OneByOne(how, s) \in Seq(Call(H))
         /\ LeftOf(OneByOne(how, s)) = ToSet(s)
<1> DEFINE t == OneByOne(how, s)
<1>1. /\ DOMAIN t = 1..Len(s) /\ Len(s) \in Nat
      /\ \A i \in 1..Len(s) : t[i] = [how |-> how, items |-> <<s[i]>>]
      /\ t = [i \in 1..Len(s) |-> t[i]]
  BY DEF OneByOne
<1> HIDE DEF t
<1>2. ASSUME NEW x \in Item PROVE <<x>> \in Batch /\ ToSet(<<x>>) = {x}
  <2>1. <<x>> \in Seq(Item) /\ Len(<<x>>) = 1 OBVIOUS
  <2>2. 1 \in 1..MaxBatch BY Sizes
  <2>3. ToSet(<<x>>) = {x} BY DEF ToSet
  <2> QED BY <2>1, <2>2, <2>3 DEF Batch
<1>3. ASSUME NEW i \in 1..Len(s)
      PROVE  t[i] \in Call(H) /\ ToSet(t[i].items) = {s[i]}
  <2>1. s[i] \in Item OBVIOUS
  <2>2. <<s[i]>> \in Batch /\ ToSet(<<s[i]>>) = {s[i]} BY <2>1, <1>2
  <2> QED BY <1>1, <2>2 DEF Call
<1>4. t \in Seq(Call(H)) /\ Len(t) = Len(s) BY ONLY <1>1, <1>3, IsSequence
<1>5. ToSet(s) = {s[i] : i \in 1..Len(s)} BY DEF ToSet
<1>6. LeftOf(t) = ToSet(s)
  <2>1. LeftOf(t) = UNION {{s[i]} : i \in 1..Len(s)} BY <1>3, <1>4 DEF LeftOf
  <2> QED BY <1>5, <2>1
<1> QED BY <1>4, <1>6 DEF t

LEMMA NextCall ==
  ASSUME NEW H, NEW t \in Seq(Call(H)), t # <<>>
  PROVE  /\ Head(t) \in Call(H) /\ Tail(t) \in Seq(Call(H))
         /\ LeftOf(t) = ToSet(Head(t).items) \cup LeftOf(Tail(t))
<1>1. /\ Head(t) = t[1] /\ Head(t) \in Call(H) /\ Tail(t) \in Seq(Call(H))
      /\ Len(t) \in Nat \ {0} /\ Len(Tail(t)) = Len(t) - 1
      /\ \A i \in 1..(Len(t) - 1) : Tail(t)[i] = t[i + 1]
  OBVIOUS
<1>2. ASSUME NEW x \in LeftOf(t)
      PROVE  x \in ToSet(Head(t).items) \cup LeftOf(Tail(t))
  <2>1. PICK i \in 1..Len(t) : x \in ToSet(t[i].items) BY DEF LeftOf
  <2>2. CASE i = 1 BY <1>1, <2>1, <2>2
  <2>3. CASE i # 1
    <3>1. i - 1 \in 1..(Len(t) - 1) /\ (i - 1) + 1 = i BY <1>1, <2>3
    <3>2. Tail(t)[i - 1] = t[i] BY <1>1, <3>1
    <3>3. i - 1 \in 1..Len(Tail(t)) BY <1>1, <3>1
    <3> QED BY <2>1, <3>2, <3>3 DEF LeftOf
  <2> QED BY <2>2, <2>3
<1>3. ASSUME NEW x \in ToSet(Head(t).items) PROVE x \in LeftOf(t)
  <2>1. 1 \in 1..Len(t) BY <1>1
  <2> QED BY <1>1, <1>3, <2>1 DEF LeftOf
<1>4. ASSUME NEW x \in LeftOf(Tail(t)) PROVE x \in LeftOf(t)
  <2>1. PICK i \in 1..(Len(t) - 1) : x \in ToSet(Tail(t)[i].items) BY <1>1 DEF LeftOf
  <2>2. i + 1 \in 1..Len(t) /\ Tail(t)[i] = t[i + 1] BY <1>1
  <2> QED BY <2>1, <2>2 DEF LeftOf
<1> QED BY <1>1, <1>2, <1>3, <1>4

LEMMA JoinedCalls ==
  ASSUME NEW H, NEW a \in Seq(Call(H)), NEW b \in Seq(Call(H))
  PROVE  /\ a \o b \in Seq(Call(H))
         /\ LeftOf(a \o b) = LeftOf(a) \cup LeftOf(b)
<1>1. PICK c : c = a \o b OBVIOUS
<1>2. IsJoined(Call(H), c, a, b) BY <1>1, Joined
<1>3. c \in Seq(Call(H)) BY <1>2 DEF IsJoined
<1>4. ToSet(c) = ToSet(a) \cup ToSet(b) BY <1>2, JoinedFrom
<1>5. \A t \in Seq(Call(H)) : LeftOf(t) = UNION {ToSet(x.items) : x \in ToSet(t)}
  BY DEF LeftOf, ToSet
<1>6. LeftOf(c) = LeftOf(a) \cup LeftOf(b) BY <1>3, <1>4, <1>5
<1> QED BY <1>1, <1>3, <1>6

----------------------------------------------------------------------------
\* Type correctness, and what a flight and those aboard know of each other.

EvmHow == {"eth_getBalance", "tryAggregate", "eth_call"}
SolHow == {"getMultipleAccounts", "getBalance", "getTokenAccountsByOwner"}
TronHow == {"getaccount", "triggerconstantcontract"}
AnyHow == EvmHow \cup SolHow \cup TronHow

Hows(c) == IF c \in Evm THEN EvmHow ELSE IF c = "SOLANA" THEN SolHow ELSE TronHow

Readings == UNION {[D -> Blocks] : D \in SUBSET Item}

Place == {"new", "pick", "dial", "anchor", "native", "tokens", "flight",
          "answered", "refused"}
Request == [at : Place, q : Query \cup {None}, height : Height, of : Req,
            alone : BOOLEAN, native : Readings, tokens : Readings]

KeyText == Seq(Text) \cup Seq(Text \X Text) \cup {Prefix[a] : a \in Text}
Key == {"nb", "tb"} \X Chain \X Height \X KeyText
Flight == [key : Key \cup {<<>>}, list : Seq(Item), todo : Seq(Call(AnyHow)),
           out : Readings]

Typed ==
  /\ head \in [Chain -> Height] /\ settled \in [Chain -> Height]
  /\ \A c \in Chain : settled[c] <= head[c] /\ 1 <= head[c]
  /\ pool \in [Chain -> Req \cup {None}]
  /\ req \in [Req -> Request]
  /\ flight \in [Req -> Flight]

\* The anchor was there when it was taken, and still is.
Reached(q, h) ==
  /\ q.chain \in Evm =>
       /\ q.mode \in {"safe", "finalized"} => h <= settled[q.chain]
       /\ q.mode = "latest" => h <= head[q.chain]
       /\ q.mode = "" => 1 <= h /\ h <= head[q.chain]
  /\ q.chain = "SOLANA" =>
       h <= (IF q.mode = "finalized" THEN settled["SOLANA"] ELSE head["SOLANA"])
  /\ (q.chain = "TRON" /\ q.mode \notin DOMAIN Number) => h <= head["TRON"]

RequestSound(r) ==
  /\ ~At(r, "new") => req[r].q \in Query
  /\ req[r].at \notin {"new", "refused"} => req[r].q.chain \in Chain
  /\ At(r, "flight") => /\ Flying(req[r].of)
                        /\ req[r].alone = TRUE => req[r].of = r
  /\ req[r].at \in {"native", "tokens", "flight", "answered"} =>
       Reached(req[r].q, req[r].height)

FlightSound(l) ==
  /\ Flying(l) => /\ At(l, "flight") /\ req[l].of = l
                  /\ flight[l].todo \in Seq(Call(Hows(req[l].q.chain)))
  /\ ~Flying(l) => flight[l].todo = <<>>

Sound == /\ Typed
         /\ \A r \in Req : RequestSound(r)
         /\ \A l \in Req : FlightSound(l)

----------------------------------------------------------------------------
LEMMA EmptyReadings == Empty \in Readings /\ DOMAIN Empty = {}
<1>1. Empty \in [{} -> Blocks] BY DEF Empty
<1> QED BY <1>1 DEF Readings

LEMMA ReadingsFacts ==
  ASSUME NEW f \in Readings
  PROVE  DOMAIN f \subseteq Item /\ \A x \in DOMAIN f : f[x] \in Blocks
BY DEF Readings

LEMMA NotedReadings ==
  ASSUME NEW f \in Readings, NEW items \in SUBSET Item, NEW failed, NEW block \in Height
  PROVE  /\ Noted(f, items, failed, block) \in Readings
         /\ DOMAIN Noted(f, items, failed, block) = items \cup DOMAIN f
<1> DEFINE g == Noted(f, items, failed, block)
<1>1. DOMAIN f \subseteq Item /\ \A x \in DOMAIN f : f[x] \in Blocks BY ReadingsFacts
<1>2. /\ DOMAIN g = items \cup DOMAIN f
      /\ \A x \in items \cup DOMAIN f :
           g[x] = IF x \notin items THEN f[x] ELSE IF x \in failed THEN Zero ELSE block
      /\ g = [x \in items \cup DOMAIN f |-> g[x]]
  BY DEF Noted
<1> HIDE DEF g
<1>3. Zero \in Blocks /\ block \in Blocks BY DEF Blocks
<1>4. \A x \in items \cup DOMAIN f : g[x] \in Blocks BY <1>1, <1>2, <1>3
<1>5. g \in [items \cup DOMAIN f -> Blocks] /\ items \cup DOMAIN f \subseteq Item
  BY <1>1, <1>2, <1>4
<1>6. g \in Readings BY <1>5 DEF Readings
<1> QED BY <1>2, <1>6 DEF g

LEMMA InitSound == Init => Sound
<1> SUFFICES ASSUME Init PROVE Sound OBVIOUS
<1>1. /\ head \in [Chain -> Height] /\ settled \in [Chain -> Height]
      /\ \A c \in Chain : settled[c] <= head[c] /\ 1 <= head[c]
  BY Sizes DEF Init, Height
<1>2. pool \in [Chain -> Req \cup {None}] BY DEF Init
<1>3. ASSUME NEW r \in Req PROVE req[r] \in Request /\ At(r, "new")
  <2>1. 0 \in Height BY Sizes DEF Height
  <2>2. req[r] = [at |-> "new", q |-> None, height |-> 0, of |-> r, alone |-> TRUE,
                  native |-> Empty, tokens |-> Empty]
    BY DEF Init
  <2> QED BY <2>1, <2>2, EmptyReadings DEF Request, Place, At
<1>4. ASSUME NEW l \in Req
      PROVE  flight[l] \in Flight /\ ~Flying(l) /\ flight[l].todo = <<>>
  <2>1. flight[l] = NoFlight BY DEF Init
  <2> QED BY <2>1, EmptyReadings DEF NoFlight, Flight, Flying
<1>5. req \in [Req -> Request] /\ flight \in [Req -> Flight]
  BY <1>3, <1>4 DEF Init
<1>6. \A r \in Req : RequestSound(r) BY <1>3 DEF RequestSound, At
<1>7. \A l \in Req : FlightSound(l) BY <1>4 DEF FlightSound
<1> QED BY <1>1, <1>2, <1>5, <1>6, <1>7 DEF Sound, Typed

----------------------------------------------------------------------------
\* What the two batches of a request start a flight with.

NativePurpose(r, key, list, todo) ==
  LET q == req[r].q IN
  /\ At(r, "native") /\ q.addrs # <<>>
  /\ key = NativeKey(q, req[r].height) /\ list = q.addrs /\ todo = NativeTodo(q)

TokenPurpose(r, key, list, todo, order, again) ==
  LET q == req[r].q IN
  /\ At(r, "tokens") /\ DOMAIN q.tokens # {}
  /\ order \in SetToSeqs(DOMAIN q.tokens) /\ again \in SetToSeqs(DOMAIN q.tokens)
  /\ key = TokenKey(q, req[r].height, order) /\ list = PairsOf(q, order)
  /\ todo = TokenTodo(q, order, again)

LEMMA ChainCases ==
  ASSUME NEW c \in Chain
  PROVE  \/ c \in Evm /\ c # "SOLANA" /\ c # "TRON" /\ Hows(c) = EvmHow
         \/ c = "SOLANA" /\ c \notin Evm /\ Hows(c) = SolHow
         \/ c = "TRON" /\ c \notin Evm /\ Hows(c) = TronHow
<1>1. "SOLANA" \notin Evm /\ "TRON" \notin Evm BY Bounds
<1>2. c \in Evm \/ c = "SOLANA" \/ c = "TRON" BY DEF Chain
<1> QED BY <1>1, <1>2 DEF Hows

LEMMA ItemSeqs ==
  /\ \A s \in Seq(Text) : s \in Seq(Item)
  /\ \A s \in Seq(Text \X Text) : s \in Seq(Item)
<1>1. Text \subseteq Item /\ (Text \X Text) \subseteq Item BY DEF Item
<1> QED BY <1>1

LEMMA NativePurposeTyped ==
  ASSUME NEW r \in Req, Typed, RequestSound(r), NEW key, NEW list, NEW todo,
         NativePurpose(r, key, list, todo)
  PROVE  /\ key \in Key /\ key # <<>> /\ list \in Seq(Item)
         /\ todo \in Seq(Call(Hows(req[r].q.chain))) /\ LeftOf(todo) = ToSet(list)
<1> DEFINE q == req[r].q
           c == q.chain
           h == req[r].height
<1>1. q \in Query /\ c \in Chain /\ h \in Height
  BY DEF NativePurpose, RequestSound, At, Typed, Request
<1>2. /\ key = <<"nb", c, h, q.addrs>> /\ list = q.addrs /\ todo = NativeTodo(q)
  BY DEF NativePurpose, NativeKey
<1>3. q.addrs \in Seq(Text) BY <1>1, QueryFacts
<1> HIDE DEF q, c, h
<1>4. key \in Key /\ key # <<>>
  <2>1. q.addrs \in KeyText BY <1>3 DEF KeyText
  <2> QED BY <1>1, <1>2, <2>1 DEF Key
<1>5. list \in Seq(Item) BY <1>2, <1>3, ItemSeqs
<1>6. todo \in Seq(Call(Hows(c))) /\ LeftOf(todo) = ToSet(list)
  <2>1. CASE c \in Evm /\ c # "SOLANA" /\ c # "TRON" /\ Hows(c) = EvmHow
    <3>1. todo = Todo("eth_getBalance", Chunks(list, MaxBatch))
      BY <1>2, <2>1 DEF NativeTodo, c
    <3>2. "eth_getBalance" \in Hows(c) BY <2>1 DEF EvmHow
    <3> QED BY <1>5, <3>1, <3>2, ChunksPlanned
  <2>2. CASE c = "SOLANA" /\ c \notin Evm /\ Hows(c) = SolHow
    <3>1. todo = Todo("getMultipleAccounts", Chunks(list, MaxBatch))
      BY <1>2, <2>2 DEF NativeTodo, c
    <3>2. "getMultipleAccounts" \in Hows(c) BY <2>2 DEF SolHow
    <3> QED BY <1>5, <3>1, <3>2, ChunksPlanned
  <2>3. CASE c = "TRON" /\ c \notin Evm /\ Hows(c) = TronHow
    <3>1. todo = OneByOne("getaccount", list) BY <1>2, <2>3 DEF NativeTodo, c
    <3>2. "getaccount" \in Hows(c) BY <2>3 DEF TronHow
    <3> QED BY <1>5, <3>1, <3>2, OneByOnePlanned
  <2> QED BY <1>1, <2>1, <2>2, <2>3, ChainCases
<1> QED BY <1>4, <1>5, <1>6 DEF c, q

LEMMA SolWordsTyped ==
  ASSUME NEW q \in Query, DOMAIN q.tokens # {},
         NEW order \in SetToSeqs(DOMAIN q.tokens)
  PROVE  SolWords(q, order) \in Seq(Text)
<1> DEFINE D == DOMAIN q.tokens
           s == [i \in DOMAIN order |-> <<order[i]>> \o q.tokens[order[i]]]
<1>1. order \in Seq(D) /\ ToSet(order) = D BY QueryFacts, OrderHasAll
<1>2. order # <<>> BY <1>1 DEF ToSet
<1>3. ASSUME NEW a \in D PROVE <<a>> \o q.tokens[a] \in Seq(Text)
  <2>1. a \in Text /\ q.tokens[a] \in Seq(Text) BY QueryFacts
  <2>2. <<a>> \in Seq(Text) BY <2>1
  <2> QED BY <2>1, <2>2
<1>4. s \in Seq(Seq(Text)) /\ s # <<>>
  <2>1. Len(order) \in Nat \ {0} /\ DOMAIN order = 1..Len(order) BY <1>1, <1>2
  <2>2. \A i \in 1..Len(order) : s[i] \in Seq(Text) BY <1>1, <1>3
  <2>3. s = [i \in 1..Len(order) |-> s[i]] BY <2>1
  <2> HIDE DEF s
  <2>4. s \in Seq(Seq(Text)) /\ Len(s) = Len(order) BY <2>1, <2>2, <2>3, IsSequence
  <2> QED BY <2>1, <2>4
<1>5. SolWords(q, order) = FlattenSeq(s) BY DEF SolWords
<1> HIDE DEF s
<1> QED BY <1>4, <1>5, FlattenedSet

LEMMA TokenPurposeTyped ==
  ASSUME NEW r \in Req, Typed, RequestSound(r), NEW key, NEW list, NEW todo,
         NEW order, NEW again, TokenPurpose(r, key, list, todo, order, again)
  PROVE  /\ key \in Key /\ key # <<>> /\ list \in Seq(Item)
         /\ ToSet(list) = Pairs(req[r].q)
         /\ todo \in Seq(Call(Hows(req[r].q.chain))) /\ LeftOf(todo) = ToSet(list)
<1> DEFINE q == req[r].q
           c == q.chain
           h == req[r].height
<1>1. q \in Query /\ c \in Chain /\ h \in Height
  BY DEF TokenPurpose, RequestSound, At, Typed, Request
<1>2. /\ DOMAIN q.tokens # {} /\ order \in SetToSeqs(DOMAIN q.tokens)
      /\ again \in SetToSeqs(DOMAIN q.tokens)
      /\ key = TokenKey(q, h, order) /\ list = PairsOf(q, order)
      /\ todo = TokenTodo(q, order, again)
  BY DEF TokenPurpose
<1>3. /\ list \in Seq(Text \X Text) /\ ToSet(list) = Pairs(q)
      /\ PairsOf(q, again) \in Seq(Text \X Text) /\ ToSet(PairsOf(q, again)) = Pairs(q)
  BY <1>1, <1>2, PairsListed
<1>4. list \in Seq(Item) /\ PairsOf(q, again) \in Seq(Item) BY <1>3, ItemSeqs
<1> HIDE DEF q, c, h
<1>5. PICK x : key = <<"tb", c, h, x>> /\ x \in KeyText
  <2>1. CASE c \in Evm /\ c # "SOLANA" /\ c # "TRON" /\ Hows(c) = EvmHow
    <3>1. key = <<"tb", c, h, list>> BY <1>2, <2>1 DEF TokenKey, c
    <3> QED BY <1>3, <3>1 DEF KeyText
  <2>2. CASE c = "SOLANA" /\ c \notin Evm /\ Hows(c) = SolHow
    <3>1. key = <<"tb", c, h, SolWords(q, order)>> BY <1>2, <2>2 DEF TokenKey, c
    <3>2. SolWords(q, order) \in Seq(Text) BY <1>1, <1>2, SolWordsTyped
    <3> QED BY <3>1, <3>2 DEF KeyText
  <2>3. CASE c = "TRON" /\ c \notin Evm /\ Hows(c) = TronHow
    <3>1. key = <<"tb", c, h, Prefix[order[1]]>> BY <1>2, <2>3 DEF TokenKey, TronWords, c
    <3>2. order[1] \in Text
      <4>1. /\ order \in Seq(DOMAIN q.tokens) /\ ToSet(order) = DOMAIN q.tokens
            /\ DOMAIN q.tokens \subseteq Text
        BY <1>1, <1>2, QueryFacts, OrderHasAll
      <4>2. order # <<>> BY <1>2, <4>1 DEF ToSet
      <4>3. 1 \in 1..Len(order) BY <4>1, <4>2
      <4>4. order[1] \in DOMAIN q.tokens BY <4>1, <4>3, Member
      <4> QED BY <4>1, <4>4
    <3> QED BY <3>1, <3>2 DEF KeyText
  <2> QED BY <1>1, <2>1, <2>2, <2>3, ChainCases
<1>6. key \in Key /\ key # <<>> BY <1>1, <1>5 DEF Key
<1>7. todo \in Seq(Call(Hows(c))) /\ LeftOf(todo) = ToSet(list)
  <2>1. CASE c \in Evm /\ c # "SOLANA" /\ c # "TRON" /\ Hows(c) = EvmHow
    <3>1. PICK how \in {"tryAggregate", "eth_call"} :
            todo = Todo(how, Chunks(list, MaxBatch))
      BY <1>2, <2>1 DEF TokenTodo, EvmTokenTodo, c
    <3>2. how \in Hows(c) BY <2>1 DEF EvmHow
    <3> QED BY <1>4, <3>1, <3>2, ChunksPlanned
  <2>2. CASE c = "SOLANA" /\ c \notin Evm /\ Hows(c) = SolHow
    <3>1. todo = OneByOne("getTokenAccountsByOwner", PairsOf(q, again))
      BY <1>2, <2>2 DEF TokenTodo, SolTokenTodo, c
    <3>2. "getTokenAccountsByOwner" \in Hows(c) BY <2>2 DEF SolHow
    <3> QED BY <1>3, <1>4, <3>1, <3>2, OneByOnePlanned
  <2>3. CASE c = "TRON" /\ c \notin Evm /\ Hows(c) = TronHow
    <3>1. todo = OneByOne("triggerconstantcontract", PairsOf(q, again))
      BY <1>2, <2>3 DEF TokenTodo, TronTokenTodo, c
    <3>2. "triggerconstantcontract" \in Hows(c) BY <2>3 DEF TronHow
    <3> QED BY <1>3, <1>4, <3>1, <3>2, OneByOnePlanned
  <2> QED BY <1>1, <2>1, <2>2, <2>3, ChainCases
<1> QED BY <1>3, <1>4, <1>6, <1>7 DEF c, q

----------------------------------------------------------------------------
\* The kinds of steps, as the invariants see them: what becomes of the
\* request or flight that takes the step, field by field; the rest stays.

Others(r) == \A s \in Req : s # r => req'[s] = req[s]
OtherFlights(l) == \A k \in Req : k # l => flight'[k] = flight[k]
Quiet == UNCHANGED <<head, settled, pool>>

Ticks == /\ UNCHANGED <<pool, req, flight>>
         /\ \A c \in Chain : head[c] <= head'[c] /\ settled[c] <= settled'[c]

Asks(r) ==
  /\ At(r, "new") /\ Others(r) /\ Quiet /\ UNCHANGED flight
  /\ req'[r].q \in Query
  /\ \/ req'[r].at = "pick" /\ req'[r].q.chain \in Chain
     \/ req'[r].at = "refused"
  /\ req'[r].native = req[r].native /\ req'[r].tokens = req[r].tokens

\* All but the place.
Goes(r) ==
  /\ Others(r) /\ UNCHANGED <<head, settled, flight>>
  /\ req'[r].q = req[r].q
  /\ req'[r].height = req[r].height /\ req'[r].alone = req[r].alone
  /\ req'[r].native = req[r].native /\ req'[r].tokens = req[r].tokens

Turns(r) ==
  /\ Goes(r) /\ req[r].at \in {"pick", "dial", "anchor"}
  /\ req'[r].at \in {"dial", "anchor", "refused"}

Skips(r) ==
  /\ Goes(r) /\ Quiet
  /\ \/ At(r, "native") /\ req'[r].at = "tokens" /\ ToSet(req[r].q.addrs) = {}
     \/ At(r, "tokens") /\ req'[r].at = "answered" /\ Pairs(req[r].q) = {}

Takes(r) ==
  /\ At(r, "anchor") /\ Others(r) /\ Quiet /\ UNCHANGED flight
  /\ req'[r].at = "native" /\ req'[r].q = req[r].q
  /\ Reached(req[r].q, req'[r].height)
  /\ req'[r].native = req[r].native /\ req'[r].tokens = req[r].tokens

Purpose(r, key, list, todo) ==
  \/ NativePurpose(r, key, list, todo)
  \/ \E order, again : TokenPurpose(r, key, list, todo, order, again)

Boards(r, l) ==
  /\ Others(r) /\ Quiet
  /\ req'[r].at = "flight" /\ req'[r].of = l /\ req'[r].q = req[r].q
  /\ req'[r].height = req[r].height
  /\ req'[r].native = req[r].native /\ req'[r].tokens = req[r].tokens

Joins(r, l, key, list, todo) ==
  /\ Purpose(r, key, list, todo) /\ Boards(r, l) /\ UNCHANGED flight
  /\ flight[l].key = key /\ req'[r].alone = FALSE

Leads(r, key, list, todo) ==
  /\ Purpose(r, key, list, todo) /\ Boards(r, r) /\ OtherFlights(r)
  /\ \A k \in Req : flight[k].key # key
  /\ req'[r].alone = req[r].alone
  /\ flight'[r].key = key /\ flight'[r].list = list /\ flight'[r].todo = todo
  /\ flight'[r].out = Empty

\* The node a call is answered by, and at which block.
Answers(l, block) ==
  LET q == req[l].q IN
  \/ q.chain \in Evm /\ block = EvmBlock(l)
  \/ q.chain = "SOLANA" /\ block = SolBlock(l)
  \/ q.chain = "TRON" /\ block = head["TRON"]

Flies(l) ==
  /\ Flying(l) /\ UNCHANGED <<head, settled, pool, req>> /\ OtherFlights(l)
  /\ flight'[l].key = flight[l].key /\ flight'[l].list = flight[l].list

Reads(l, block) ==
  /\ Flies(l) /\ Answers(l, block) /\ flight[l].todo # <<>>
  /\ flight'[l].todo = Tail(flight[l].todo)
  /\ \E failed : flight'[l].out =
       Noted(flight[l].out, ToSet(Head(flight[l].todo).items), failed, block)

Replans(l) ==
  /\ Flies(l)
  /\ flight'[l].todo \in Seq(Call(Hows(req[l].q.chain)))
  /\ \/ LeftOf(flight'[l].todo) = ToSet(flight[l].list) /\ flight'[l].out = Empty
     \/ /\ LeftOf(flight'[l].todo) = LeftOf(flight[l].todo)
        /\ flight'[l].out = flight[l].out

Ends(l) ==
  /\ Flying(l) /\ Quiet /\ OtherFlights(l)
  /\ flight'[l].key = <<>> /\ flight'[l].todo = <<>>
  /\ \A r \in Req : r \notin Aboard(l) => req'[r] = req[r]
  /\ \A r \in Aboard(l) : /\ req'[r].q = req[r].q /\ req'[r].height = req[r].height
                          /\ req'[r].alone = req[r].alone

Fails(l) ==
  /\ Ends(l)
  /\ \A r \in Aboard(l) : /\ req'[r].at = "refused"
                          /\ req'[r].native = req[r].native
                          /\ req'[r].tokens = req[r].tokens

Lands(l) ==
  /\ Ends(l) /\ flight[l].todo = <<>>
  /\ \A r \in Aboard(l) :
       \/ /\ flight[l].key[1] = "nb"
          /\ req'[r].at = "tokens" /\ req'[r].native = flight[l].out
          /\ req'[r].tokens = req[r].tokens
       \/ /\ flight[l].key[1] # "nb"
          /\ req'[r].at = "answered" /\ req'[r].tokens = flight[l].out
          /\ req'[r].native = req[r].native

Steps ==
  \/ Ticks
  \/ \E r \in Req : \/ Asks(r) \/ Turns(r) \/ Takes(r) \/ Skips(r)
                    \/ \E l \in Req : \E key, list, todo : Joins(r, l, key, list, todo)
                    \/ \E key, list, todo : Leads(r, key, list, todo)
  \/ \E l \in Req : \/ \E block \in Height : Reads(l, block)
                    \/ Replans(l) \/ Fails(l) \/ Lands(l)

----------------------------------------------------------------------------
\* Every action is a step of one of these kinds, and keeps the types.

LEMMA Ticking ==
  ASSUME Typed, NEW c \in Chain, NewBlock(c) \/ Settle(c)
  PROVE  Ticks /\ Typed'
<1>0. MaxHeight \in Nat BY Sizes
<1>1. CASE NewBlock(c)
  <2>1. /\ head[c] \in Height /\ head[c] < MaxHeight
        /\ head' = [head EXCEPT ![c] = head[c] + 1] /\ UNCHANGED <<settled, pool, req, flight>>
    BY <1>1 DEF NewBlock, Typed
  <2>2. head[c] + 1 \in Height BY <1>0, <2>1 DEF Height
  <2>3. head' \in [Chain -> Height] BY <2>1, <2>2 DEF Typed
  <2>4. \A d \in Chain : head[d] <= head'[d] /\ settled[d] <= settled'[d]
    BY <2>1, <1>0 DEF Typed, Height
  <2>5. \A d \in Chain : settled'[d] <= head'[d] /\ 1 <= head'[d]
    BY <2>1, <1>0 DEF Typed, Height
  <2> QED BY <2>1, <2>3, <2>4, <2>5 DEF Ticks, Typed
<1>2. CASE Settle(c)
  <2>1. /\ settled[c] \in Height /\ head[c] \in Height /\ settled[c] < head[c]
        /\ settled' = [settled EXCEPT ![c] = settled[c] + 1]
        /\ UNCHANGED <<head, pool, req, flight>>
    BY <1>2 DEF Settle, Typed
  <2>2. settled[c] + 1 \in Height BY <1>0, <2>1 DEF Height
  <2>3. settled' \in [Chain -> Height] BY <2>1, <2>2 DEF Typed
  <2>4. \A d \in Chain : head[d] <= head'[d] /\ settled[d] <= settled'[d]
    BY <2>1, <1>0 DEF Typed, Height
  <2>5. \A d \in Chain : settled'[d] <= head'[d] /\ 1 <= head'[d]
    BY <2>1, <1>0 DEF Typed, Height
  <2> QED BY <2>1, <2>3, <2>4, <2>5 DEF Ticks, Typed
<1> QED BY <1>1, <1>2

\* A request that changes, and no other.
LEMMA OneRequest ==
  ASSUME NEW r \in Req, NEW x \in Request, req \in [Req -> Request],
         req' = [req EXCEPT ![r] = x]
  PROVE  req' \in [Req -> Request] /\ req'[r] = x /\ Others(r)
BY DEF Others

LEMMA OneFlight ==
  ASSUME NEW l \in Req, NEW x \in Flight, flight \in [Req -> Flight],
         flight' = [flight EXCEPT ![l] = x]
  PROVE  flight' \in [Req -> Flight] /\ flight'[l] = x /\ OtherFlights(l)
BY DEF OtherFlights

LEMMA Asking ==
  ASSUME Typed, NEW r \in Req, NEW q \in Query, Ask(r, q)
  PROVE  Asks(r) /\ Typed'
<1> DEFINE place == IF q.chain \in Chain THEN "pick" ELSE "refused"
           x == [req[r] EXCEPT !.q = q, !.at = place]
<1>1. req[r] \in Request /\ place \in Place /\ req \in [Req -> Request] BY DEF Typed, Place
<1>2. x \in Request /\ x.q = q /\ x.at = place /\ x.native = req[r].native /\ x.tokens = req[r].tokens
  BY <1>1 DEF Request
<1>3. req' = [req EXCEPT ![r] = x] BY DEF Ask
<1>4. At(r, "new") /\ Quiet /\ UNCHANGED flight BY DEF Ask, Quiet
<1> HIDE DEF x
<1>5. req' \in [Req -> Request] /\ req'[r] = x /\ Others(r)
  BY <1>1, <1>2, <1>3, OneRequest
<1> QED BY <1>2, <1>4, <1>5 DEF Asks, Typed, Quiet

LEMMA Turning ==
  ASSUME Typed, NEW r \in Req,
         Pick(r) \/ EnsurePool(r) \/ EnsureClient(r) \/ AnchorFails(r)
  PROVE  Turns(r) /\ Typed'
<1>1. PICK place \in {"dial", "anchor", "refused"} :
        req' = [req EXCEPT ![r].at = place]
  BY DEF Pick, EnsurePool, EnsureClient, AnchorFails
<1>2. /\ req[r].at \in {"pick", "dial", "anchor"} /\ UNCHANGED <<head, settled, flight>>
  BY DEF Pick, EnsurePool, EnsureClient, AnchorFails, At
<1>3. pool' \in [Chain -> Req \cup {None}]
  BY DEF Pick, EnsurePool, EnsureClient, AnchorFails, Typed
<1> DEFINE x == [req[r] EXCEPT !.at = place]
<1>4. req[r] \in Request /\ place \in Place /\ req \in [Req -> Request] BY DEF Typed, Place
<1>5. /\ x \in Request /\ x.at = place /\ x.q = req[r].q /\ x.height = req[r].height
      /\ x.alone = req[r].alone /\ x.native = req[r].native /\ x.tokens = req[r].tokens
  BY <1>4 DEF Request
<1>6. req' = [req EXCEPT ![r] = x] BY <1>1
<1> HIDE DEF x
<1>7. req' \in [Req -> Request] /\ req'[r] = x /\ Others(r)
  BY <1>4, <1>5, <1>6, OneRequest
<1> QED BY <1>2, <1>3, <1>5, <1>7 DEF Turns, Goes, Typed

\* The block of an anchor is there: it is the head's or the settled block's,
\* block 0, or, if the mode is a number, whatever the number is.
LEMMA AnchorReached ==
  ASSUME Typed, NEW q \in Query, q.chain \in Chain, Understood(q),
         NEW h \in Anchors(q)
  PROVE  h \in Height /\ Reached(q, h)
<1> DEFINE c == q.chain
<1>1. /\ head[c] \in Height /\ settled[c] \in Height /\ settled[c] <= head[c] /\ 1 <= head[c]
      /\ head[c] <= head[c] /\ settled[c] <= settled[c]
  BY DEF Typed, Height
<1> HIDE DEF c
<1>0. c = q.chain BY DEF c
<1>2. CASE c \in Evm /\ c # "SOLANA" /\ c # "TRON" /\ Hows(c) = EvmHow
  <2>1. h = EvmAnchor(q) BY <1>0, <1>2 DEF Anchors, AnchorOf
  <2>2. CASE q.mode \in DOMAIN Number
    <3>1. h \in Height BY <2>1, <2>2, Bounds DEF EvmAnchor, c
    <3>2. q.mode \notin {"", "latest", "safe", "finalized"} BY <2>2, Bounds
    <3> QED BY <1>0, <1>2, <3>1, <3>2 DEF Reached
  <2>3. CASE q.mode \in {"safe", "finalized"}
    <3>1. q.mode \notin DOMAIN Number /\ q.mode # "" /\ q.mode # "latest" BY <2>3, Bounds
    <3>2. h = settled[c] BY <2>1, <2>3, <3>1 DEF EvmAnchor, c
    <3> QED BY <1>0, <1>1, <1>2, <2>3, <3>1, <3>2 DEF Reached
  <2>4. CASE q.mode \notin DOMAIN Number /\ q.mode \notin {"safe", "finalized"}
    <3>1. h = head[c] BY <2>1, <2>4 DEF EvmAnchor, c
    <3> QED BY <1>0, <1>1, <1>2, <2>4, <3>1 DEF Reached
  <2> QED BY <2>2, <2>3, <2>4
<1>3. CASE c = "SOLANA" /\ c \notin Evm /\ Hows(c) = SolHow
  <2>1. h = SolAnchor(q) BY <1>0, <1>3 DEF Anchors, AnchorOf
  <2>2. h = IF q.mode = "finalized" THEN settled["SOLANA"] ELSE head["SOLANA"]
    BY <1>3, <2>1 DEF SolAnchor, c
  <2>3. h \in Height BY <1>1, <1>3, <2>2
  <2> QED BY <1>0, <1>1, <1>3, <2>2, <2>3 DEF Reached
<1>4. CASE c = "TRON" /\ c \notin Evm /\ Hows(c) = TronHow
  <2>1. CASE q.mode \in DOMAIN Number
    <3>1. h = Number[q.mode] BY <1>0, <1>4, <2>1 DEF Anchors, AnchorOf, TronAnchor
    <3> QED BY <1>0, <1>4, <2>1, <3>1, Bounds DEF Reached
  <2>2. CASE q.mode \notin DOMAIN Number
    <3>1. h = head["TRON"] \/ h = 0 BY <1>0, <1>4, <2>2 DEF Anchors, AnchorOf, TronAnchor
    <3>2. 0 \in Height /\ MaxHeight \in Nat BY Sizes DEF Height
    <3>3. h \in Height /\ h <= head["TRON"] BY <1>1, <1>4, <3>1, <3>2 DEF Height
    <3> QED BY <1>0, <1>4, <3>3 DEF Reached
  <2> QED BY <2>1, <2>2
<1> QED BY <1>0, <1>2, <1>3, <1>4, ChainCases

LEMMA Taking ==
  ASSUME Typed, NEW r \in Req, RequestSound(r), Anchored(r)
  PROVE  Takes(r) /\ Typed'
<1>1. /\ At(r, "anchor") /\ Understood(req[r].q) /\ Quiet /\ UNCHANGED flight
  BY DEF Anchored, Quiet
<1>2. PICK h \in Anchors(req[r].q) :
        req' = [req EXCEPT ![r].at = "native", ![r].height = h]
  BY DEF Anchored
<1>3. req[r].q \in Query /\ req[r].q.chain \in Chain BY <1>1 DEF RequestSound, At
<1>4. h \in Height /\ Reached(req[r].q, h) BY <1>1, <1>3, AnchorReached
<1> DEFINE x == [req[r] EXCEPT !.at = "native", !.height = h]
<1>5. req[r] \in Request /\ "native" \in Place /\ req \in [Req -> Request]
  BY DEF Typed, Place
<1>6. /\ x \in Request /\ x.at = "native" /\ x.height = h /\ x.q = req[r].q
      /\ x.native = req[r].native /\ x.tokens = req[r].tokens
  BY <1>4, <1>5 DEF Request
<1>7. req' = [req EXCEPT ![r] = x] BY <1>2
<1> HIDE DEF x
<1>8. req' \in [Req -> Request] /\ req'[r] = x /\ Others(r)
  BY <1>5, <1>6, <1>7, OneRequest
<1> QED BY <1>1, <1>4, <1>6, <1>8 DEF Takes, Typed, Quiet

LEMMA Skipping ==
  ASSUME Typed, NEW r \in Req, RequestSound(r), NEW place \in {"tokens", "answered"},
         req' = [req EXCEPT ![r].at = place], UNCHANGED <<head, settled, pool, flight>>,
         \/ place = "tokens" /\ At(r, "native") /\ req[r].q.addrs = <<>>
         \/ /\ place = "answered" /\ At(r, "tokens")
            /\ \A a \in DOMAIN req[r].q.tokens : req[r].q.tokens[a] = <<>>
  PROVE  Skips(r) /\ Typed'
<1> DEFINE x == [req[r] EXCEPT !.at = place]
<1>1. req[r] \in Request /\ place \in Place /\ req \in [Req -> Request] BY DEF Typed, Place
<1>2. /\ x \in Request /\ x.at = place /\ x.q = req[r].q /\ x.height = req[r].height
      /\ x.alone = req[r].alone /\ x.native = req[r].native /\ x.tokens = req[r].tokens
  BY <1>1 DEF Request
<1>3. req' = [req EXCEPT ![r] = x] OBVIOUS
<1>4. ToSet(<<>>) = {} BY DEF ToSet
<1>5. place = "answered" => Pairs(req[r].q) = {} BY <1>4 DEF Pairs, PairsFor
<1> HIDE DEF x
<1>6. req' \in [Req -> Request] /\ req'[r] = x /\ Others(r)
  BY <1>1, <1>2, <1>3, OneRequest
<1>7. Typed' BY <1>6 DEF Typed
<1>8. Goes(r) /\ Quiet BY <1>2, <1>6 DEF Goes, Quiet
<1> QED BY <1>2, <1>4, <1>5, <1>6, <1>7, <1>8 DEF Skips

\* The two ways of Do.
LEMMA Boarding ==
  ASSUME Typed, NEW r \in Req, RequestSound(r), NEW key, NEW list, NEW todo,
         Purpose(r, key, list, todo), Do(r, key, list, todo)
  PROVE  /\ \/ \E l \in Req : Joins(r, l, key, list, todo)
            \/ Leads(r, key, list, todo)
         /\ Typed'
<1>0. req[r] \in Request /\ "flight" \in Place /\ req \in [Req -> Request] /\ Quiet
  BY DEF Typed, Place, Do, Quiet
<1>1. CASE \E l \in Req :
          /\ flight[l].key = key /\ UNCHANGED flight
          /\ req' = [req EXCEPT ![r].at = "flight", ![r].of = l, ![r].alone = FALSE]
  <2>1. PICK l \in Req :
          /\ flight[l].key = key /\ UNCHANGED flight
          /\ req' = [req EXCEPT ![r].at = "flight", ![r].of = l, ![r].alone = FALSE]
    BY <1>1
  <2> DEFINE x == [req[r] EXCEPT !.at = "flight", !.of = l, !.alone = FALSE]
  <2>2. /\ x \in Request /\ x.at = "flight" /\ x.of = l /\ x.alone = FALSE
        /\ x.q = req[r].q /\ x.height = req[r].height
        /\ x.native = req[r].native /\ x.tokens = req[r].tokens
    BY <1>0 DEF Request
  <2>3. req' = [req EXCEPT ![r] = x] BY <2>1
  <2> HIDE DEF x
  <2>4. req' \in [Req -> Request] /\ req'[r] = x /\ Others(r)
    BY <1>0, <2>2, <2>3, OneRequest
  <2>5. Typed' BY <1>0, <2>1, <2>4 DEF Typed, Quiet
  <2>6. Boards(r, l) BY <1>0, <2>2, <2>4 DEF Boards
  <2>7. Joins(r, l, key, list, todo) BY <2>1, <2>2, <2>4, <2>6 DEF Joins
  <2> QED BY <2>5, <2>7
<1>2. CASE /\ \A l \in Req : flight[l].key # key
           /\ flight' = [flight EXCEPT ![r] =
                [key |-> key, list |-> list, todo |-> todo, out |-> Empty]]
           /\ req' = [req EXCEPT ![r].at = "flight", ![r].of = r]
  <2> DEFINE x == [req[r] EXCEPT !.at = "flight", !.of = r]
             y == [key |-> key, list |-> list, todo |-> todo, out |-> Empty]
  <2>1. /\ x \in Request /\ x.at = "flight" /\ x.of = r /\ x.alone = req[r].alone
        /\ x.q = req[r].q /\ x.height = req[r].height
        /\ x.native = req[r].native /\ x.tokens = req[r].tokens
    BY <1>0 DEF Request
  <2>2. req' = [req EXCEPT ![r] = x] BY <1>2
  <2>3. key \in Key /\ list \in Seq(Item) /\ todo \in Seq(Call(AnyHow))
    <3>1. /\ key \in Key /\ list \in Seq(Item)
          /\ todo \in Seq(Call(Hows(req[r].q.chain)))
      BY NativePurposeTyped, TokenPurposeTyped DEF Purpose
    <3>2. Hows(req[r].q.chain) \subseteq AnyHow BY DEF Hows, AnyHow
    <3> QED BY <3>1, <3>2, CallsWiden
  <2>4. y \in Flight BY <2>3, EmptyReadings DEF Flight
  <2>5. y.key = key /\ y.list = list /\ y.todo = todo /\ y.out = Empty OBVIOUS
  <2>6. flight' = [flight EXCEPT ![r] = y] /\ flight \in [Req -> Flight] BY <1>2 DEF Typed
  <2> HIDE DEF x, y
  <2>7. req' \in [Req -> Request] /\ req'[r] = x /\ Others(r)
    BY <1>0, <2>1, <2>2, OneRequest
  <2>8. flight' \in [Req -> Flight] /\ flight'[r] = y /\ OtherFlights(r)
    BY <2>4, <2>6, OneFlight
  <2>9. Typed' BY <1>0, <2>7, <2>8 DEF Typed, Quiet
  <2>10. Boards(r, r) BY <1>0, <2>1, <2>7 DEF Boards
  <2>11. Leads(r, key, list, todo) BY <1>2, <2>1, <2>5, <2>7, <2>8, <2>10 DEF Leads
  <2> QED BY <2>9, <2>11
<1> QED BY <1>1, <1>2 DEF Do

----------------------------------------------------------------------------
LEMMA NoFlightTyped == NoFlight \in Flight /\ NoFlight.key = <<>> /\ NoFlight.todo = <<>>
BY EmptyReadings DEF NoFlight, Flight

\* What is called tells the chain.
LEMMA CallFacts ==
  ASSUME Typed, NEW l \in Req, RequestSound(l), FlightSound(l), NEW how, Calls(l, how)
  PROVE  /\ Flying(l) /\ req[l].q \in Query /\ req[l].q.chain \in Chain
         /\ how \in EvmHow => req[l].q.chain \in Evm
         /\ how \in SolHow => req[l].q.chain = "SOLANA"
         /\ how \in TronHow => req[l].q.chain = "TRON"
         /\ flight[l].todo \in Seq(Call(Hows(req[l].q.chain))) /\ flight[l].todo # <<>>
<1>1. flight[l].todo # <<>> /\ Head(flight[l].todo).how = how BY DEF Calls
<1>2. Flying(l) /\ flight[l].todo \in Seq(Call(Hows(req[l].q.chain))) /\ At(l, "flight")
  BY <1>1 DEF FlightSound
<1>3. req[l].q \in Query /\ req[l].q.chain \in Chain BY <1>2 DEF RequestSound, At
<1>4. Head(flight[l].todo) \in Call(Hows(req[l].q.chain)) BY ONLY <1>1, <1>2, NextCall
<1>5. how \in Hows(req[l].q.chain) BY <1>1, <1>4 DEF Call
<1>6. EvmHow \cap SolHow = {} /\ EvmHow \cap TronHow = {} /\ SolHow \cap TronHow = {}
  BY DEF EvmHow, SolHow, TronHow
<1> QED BY <1>1, <1>2, <1>3, <1>5, <1>6, ChainCases

LEMMA BlocksTyped ==
  ASSUME Typed, NEW l \in Req, req[l].q.chain \in Chain, NEW block, Answers(l, block)
  PROVE  block \in Height
<1>1. \A c \in Chain : head[c] \in Height /\ settled[c] \in Height BY DEF Typed
<1>2. req[l].height \in Height BY DEF Typed, Request
<1>3. "SOLANA" \in Chain /\ "TRON" \in Chain BY DEF Chain
<1>4. EvmBlock(l) \in Height BY <1>1, <1>2 DEF EvmBlock
<1>5. SolBlock(l) \in Height BY <1>1, <1>3 DEF SolBlock
<1> QED BY <1>1, <1>3, <1>4, <1>5 DEF Answers

LEMMA Reading ==
  ASSUME Typed, NEW l \in Req, RequestSound(l), FlightSound(l), NEW how, NEW block,
         Calls(l, how), Answers(l, block), Read(l, block)
  PROVE  block \in Height /\ Reads(l, block) /\ Typed'
<1>1. /\ Flying(l) /\ req[l].q.chain \in Chain /\ flight[l].todo # <<>>
      /\ flight[l].todo \in Seq(Call(Hows(req[l].q.chain)))
  BY CallFacts
<1>2. block \in Height BY <1>1, BlocksTyped
<1> DEFINE items == ToSet(Head(flight[l].todo).items)
<1>3. PICK failed :
        flight' = [flight EXCEPT ![l].todo = Tail(flight[l].todo),
                                 ![l].out = Noted(flight[l].out, items, failed, block)]
  BY DEF Read
<1>4. flight[l] \in Flight /\ flight \in [Req -> Flight] BY DEF Typed
<1>5. /\ flight[l].todo \in Seq(Call(AnyHow)) /\ flight[l].out \in Readings
  BY <1>4 DEF Flight
<1>6. Head(flight[l].todo) \in Call(AnyHow) /\ Tail(flight[l].todo) \in Seq(Call(AnyHow))
  BY ONLY <1>1, <1>5, NextCall
<1>7. items \subseteq Item
  <2>1. Head(flight[l].todo).items \in Seq(Item) BY <1>6 DEF Call, Batch
  <2> QED BY <2>1 DEF ToSet
<1> HIDE DEF items
<1>8. Noted(flight[l].out, items, failed, block) \in Readings
  BY <1>2, <1>5, <1>7, NotedReadings
<1> DEFINE x == [flight[l] EXCEPT !.todo = Tail(flight[l].todo),
                                  !.out = Noted(flight[l].out, items, failed, block)]
<1>9. /\ x \in Flight /\ x.key = flight[l].key /\ x.list = flight[l].list
      /\ x.todo = Tail(flight[l].todo)
      /\ x.out = Noted(flight[l].out, items, failed, block)
  BY <1>4, <1>6, <1>8 DEF Flight
<1>10. flight' = [flight EXCEPT ![l] = x] BY <1>3
<1> HIDE DEF x
<1>11. flight' \in [Req -> Flight] /\ flight'[l] = x /\ OtherFlights(l)
  BY <1>4, <1>9, <1>10, OneFlight
<1>12. UNCHANGED <<head, settled, pool, req>> BY DEF Read
<1>13. Flies(l) BY <1>1, <1>9, <1>11, <1>12 DEF Flies
<1>14. Reads(l, block) BY <1>1, <1>9, <1>11, <1>13 DEF Reads, items
<1> QED BY <1>2, <1>11, <1>12, <1>14 DEF Typed

LEMMA Replanning ==
  ASSUME Typed, NEW l \in Req, RequestSound(l), FlightSound(l),
         MulticallFails(l) \/ AccountsFail(l)
  PROVE  Replans(l) /\ Typed'
<1> DEFINE f == flight[l]
           hows == Hows(req[l].q.chain)
<1>1. /\ flight \in [Req -> Flight] /\ f \in Flight /\ f.list \in Seq(Item)
      /\ f.out \in Readings
  BY DEF Typed, Flight
<1>2. PICK todo, out :
        /\ flight' = [flight EXCEPT ![l].todo = todo, ![l].out = out]
        /\ todo \in Seq(Call(hows)) /\ out \in Readings /\ Flying(l)
        /\ \/ LeftOf(todo) = ToSet(f.list) /\ out = Empty
           \/ LeftOf(todo) = LeftOf(f.todo) /\ out = f.out
  <2>1. CASE MulticallFails(l)
    <3>1. Flying(l) /\ req[l].q.chain \in Evm
      BY <2>1, CallFacts DEF MulticallFails, EvmHow
    <3>2. "eth_call" \in hows BY <3>1 DEF Hows, EvmHow
    <3> DEFINE todo == Todo("eth_call", Chunks(f.list, MaxBatch))
    <3>3. todo \in Seq(Call(hows)) /\ LeftOf(todo) = ToSet(f.list)
      BY <1>1, <3>2, ChunksPlanned
    <3>4. flight' = [flight EXCEPT ![l].todo = todo, ![l].out = Empty]
      BY <2>1 DEF MulticallFails
    <3> HIDE DEF todo, hows
    <3> QED BY <3>1, <3>3, <3>4, EmptyReadings
  <2>2. CASE AccountsFail(l)
    <3>1. Flying(l) /\ req[l].q.chain = "SOLANA" /\ f.todo \in Seq(Call(hows)) /\ f.todo # <<>>
      BY <2>2, CallFacts DEF AccountsFail, SolHow
    <3>2. "getBalance" \in hows BY <3>1, Bounds DEF Hows, SolHow
    <3>3. /\ Head(f.todo) \in Call(hows) /\ Tail(f.todo) \in Seq(Call(hows))
          /\ LeftOf(f.todo) = ToSet(Head(f.todo).items) \cup LeftOf(Tail(f.todo))
      BY <3>1, NextCall
    <3>4. Head(f.todo).items \in Seq(Item) BY <3>3 DEF Call, Batch
    <3> DEFINE one == OneByOne("getBalance", Head(f.todo).items)
               todo == one \o Tail(f.todo)
    <3>5. one \in Seq(Call(hows)) /\ LeftOf(one) = ToSet(Head(f.todo).items)
      BY <3>2, <3>4, OneByOnePlanned
    <3> HIDE DEF one, hows
    <3>6. todo \in Seq(Call(hows)) /\ LeftOf(todo) = LeftOf(one) \cup LeftOf(Tail(f.todo))
      <4>1. Tail(f.todo) \in Seq(Call(hows)) /\ one \in Seq(Call(hows)) BY <3>3, <3>5
      <4> QED BY ONLY <4>1, JoinedCalls
    <3>7. flight' = [flight EXCEPT ![l].todo = todo] BY <2>2 DEF AccountsFail, one
    <3>8. flight' = [flight EXCEPT ![l].todo = todo, ![l].out = f.out]
      BY <1>1, <3>7 DEF Flight
    <3> QED BY <1>1, <3>1, <3>3, <3>5, <3>6, <3>8
  <2> QED BY <2>1, <2>2
<1> DEFINE x == [f EXCEPT !.todo = todo, !.out = out]
<1>3. /\ x \in Flight /\ x.key = f.key /\ x.list = f.list /\ x.todo = todo /\ x.out = out
  <2>1. hows \subseteq AnyHow BY DEF Hows, AnyHow
  <2>2. todo \in Seq(Call(AnyHow)) BY ONLY <1>2, <2>1, CallsWiden
  <2> QED BY <1>1, <1>2, <2>2 DEF Flight
<1>4. flight' = [flight EXCEPT ![l] = x] BY <1>2
<1> HIDE DEF x
<1>5. flight' \in [Req -> Flight] /\ flight'[l] = x /\ OtherFlights(l)
  BY <1>1, <1>3, <1>4, OneFlight
<1>6. UNCHANGED <<head, settled, pool, req>> BY DEF MulticallFails, AccountsFail
<1>7. Flies(l) BY <1>2, <1>3, <1>5, <1>6 DEF Flies
<1>8. Replans(l) BY <1>2, <1>3, <1>5, <1>7 DEF Replans
<1> QED BY <1>5, <1>6, <1>8 DEF Typed

\* A flight that ends: it is gone, and those aboard go on as X says.
GoOn(l, X) ==
  /\ \A r \in Aboard(l) : /\ X[r] \in Request /\ X[r].q = req[r].q
                          /\ X[r].height = req[r].height /\ X[r].alone = req[r].alone
  /\ req' = [r \in Req |-> IF r \in Aboard(l) THEN X[r] ELSE req[r]]

LEMMA Ending ==
  ASSUME Typed, NEW l \in Req, Flying(l), Quiet,
         flight' = [flight EXCEPT ![l] = NoFlight], NEW X, GoOn(l, X)
  PROVE  Ends(l) /\ Typed' /\ \A r \in Aboard(l) : r \in Req /\ req'[r] = X[r]
<1> USE DEF GoOn
<1>1. flight' \in [Req -> Flight] /\ flight'[l] = NoFlight /\ OtherFlights(l)
  BY NoFlightTyped, OneFlight DEF Typed
<1>2. \A r \in Req : req'[r] = IF r \in Aboard(l) THEN X[r] ELSE req[r] OBVIOUS
<1>3. \A r \in Req : req'[r] \in Request BY <1>2 DEF Typed
<1>4. req' \in [Req -> Request] BY <1>3
<1>5. \A r \in Aboard(l) : r \in Req BY DEF Aboard
<1>6. Ends(l) BY <1>1, <1>2, <1>5, NoFlightTyped DEF Ends
<1>7. Typed' BY <1>1, <1>4 DEF Typed, Quiet
<1> QED BY <1>2, <1>5, <1>6, <1>7

LEMMA Failing ==
  ASSUME Typed, NEW l \in Req, RequestSound(l), FlightSound(l), BatchFails(l)
  PROVE  Fails(l) /\ Typed'
<1> DEFINE X == [r \in Req |-> [req[r] EXCEPT !.at = "refused"]]
<1>1. Flying(l) BY CallFacts DEF BatchFails
<1>2. /\ Quiet /\ flight' = [flight EXCEPT ![l] = NoFlight]
      /\ req' = [r \in Req |-> IF r \in Aboard(l) THEN X[r] ELSE req[r]]
  BY DEF BatchFails, Quiet
<1>3. \A r \in Req : /\ X[r] \in Request /\ X[r].at = "refused" /\ X[r].q = req[r].q
                     /\ X[r].height = req[r].height /\ X[r].alone = req[r].alone
                     /\ X[r].native = req[r].native /\ X[r].tokens = req[r].tokens
  BY DEF Typed, Request, Place
<1>4. \A r \in Aboard(l) : r \in Req BY DEF Aboard
<1> HIDE DEF X
<1>5. Ends(l) /\ Typed' /\ \A r \in Aboard(l) : req'[r] = X[r]
  <2>1. GoOn(l, X) BY <1>2, <1>3, <1>4 DEF GoOn
  <2>2. Typed /\ l \in Req OBVIOUS
  <2>3. Quiet /\ flight' = [flight EXCEPT ![l] = NoFlight] BY <1>2
  <2> QED BY ONLY <1>1, <2>1, <2>2, <2>3, Ending
<1>6. \A r \in Aboard(l) : /\ req'[r].at = "refused" /\ req'[r].native = req[r].native
                           /\ req'[r].tokens = req[r].tokens
  BY <1>3, <1>4, <1>5
<1> QED BY <1>5, <1>6 DEF Fails

LEMMA Landing ==
  ASSUME Typed, NEW l \in Req, Land(l)
  PROVE  Lands(l) /\ Typed'
<1> DEFINE out == flight[l].out
           N == [r \in Req |-> [req[r] EXCEPT !.native = out, !.at = "tokens"]]
           T == [r \in Req |-> [req[r] EXCEPT !.tokens = out, !.at = "answered"]]
<1>1. /\ Flying(l) /\ flight[l].todo = <<>> /\ Quiet
      /\ flight' = [flight EXCEPT ![l] = NoFlight]
  BY DEF Land, Quiet
<1>2. out \in Readings BY DEF Typed, Flight
<1>3. \A r \in Aboard(l) : r \in Req BY DEF Aboard
<1>4. ASSUME NEW r \in Req
      PROVE  /\ N[r] \in Request /\ N[r].at = "tokens" /\ N[r].q = req[r].q
             /\ N[r].height = req[r].height /\ N[r].alone = req[r].alone
             /\ N[r].native = out /\ N[r].tokens = req[r].tokens
  <2>1. req[r] \in Request BY DEF Typed
  <2> HIDE DEF out
  <2>2. N[r] = [req[r] EXCEPT !.native = out, !.at = "tokens"] OBVIOUS
  <2> HIDE DEF N
  <2> QED BY <1>2, <2>1, <2>2 DEF Request, Place
<1>5. ASSUME NEW r \in Req
      PROVE  /\ T[r] \in Request /\ T[r].at = "answered" /\ T[r].q = req[r].q
             /\ T[r].height = req[r].height /\ T[r].alone = req[r].alone
             /\ T[r].tokens = out /\ T[r].native = req[r].native
  <2>1. req[r] \in Request BY DEF Typed
  <2> HIDE DEF out
  <2>2. T[r] = [req[r] EXCEPT !.tokens = out, !.at = "answered"] OBVIOUS
  <2> HIDE DEF T
  <2> QED BY <1>2, <2>1, <2>2 DEF Request, Place
<1>6. CASE flight[l].key[1] = "nb"
  <2>1. req' = [r \in Req |-> IF r \in Aboard(l) THEN N[r] ELSE req[r]] BY <1>6 DEF Land
  <2> HIDE DEF N, T, out
  <2>2. Ends(l) /\ Typed' /\ \A r \in Aboard(l) : req'[r] = N[r]
    <3>1. GoOn(l, N) BY <1>3, <1>4, <2>1 DEF GoOn
    <3>2. Typed /\ l \in Req OBVIOUS
    <3> QED BY ONLY <1>1, <3>1, <3>2, Ending
  <2>3. \A r \in Aboard(l) : /\ req'[r].at = "tokens" /\ req'[r].native = out
                             /\ req'[r].tokens = req[r].tokens
    BY <1>3, <1>4, <2>2
  <2> QED BY <1>1, <1>6, <2>2, <2>3 DEF Lands, out
<1>7. CASE flight[l].key[1] # "nb"
  <2>1. req' = [r \in Req |-> IF r \in Aboard(l) THEN T[r] ELSE req[r]] BY <1>7 DEF Land
  <2> HIDE DEF N, T, out
  <2>2. Ends(l) /\ Typed' /\ \A r \in Aboard(l) : req'[r] = T[r]
    <3>1. GoOn(l, T) BY <1>3, <1>5, <2>1 DEF GoOn
    <3>2. Typed /\ l \in Req OBVIOUS
    <3> QED BY ONLY <1>1, <3>1, <3>2, Ending
  <2>3. \A r \in Aboard(l) : /\ req'[r].at = "answered" /\ req'[r].tokens = out
                             /\ req'[r].native = req[r].native
    BY <1>3, <1>5, <2>2
  <2> QED BY <1>1, <1>7, <2>2, <2>3 DEF Lands, out
<1> QED BY <1>6, <1>7

LEMMA FlightSteps ==
  ASSUME Typed, NEW l \in Req, RequestSound(l), FlightSound(l), Fly(l)
  PROVE  /\ \/ \E block \in Height : Reads(l, block)
            \/ Replans(l) \/ Fails(l) \/ Lands(l)
         /\ Typed'
<1>1. ASSUME NEW how, NEW block, Calls(l, how), Read(l, block),
             \/ how \in EvmHow /\ block = EvmBlock(l)
             \/ how \in SolHow /\ block = SolBlock(l)
             \/ how \in TronHow /\ block = head["TRON"]
      PROVE  (\E b \in Height : Reads(l, b)) /\ Typed'
  <2>1. Answers(l, block) BY <1>1, CallFacts DEF Answers
  <2> QED BY <1>1, <2>1, Reading
<1>2. CASE GetBalanceRead(l) BY <1>1, <1>2 DEF GetBalanceRead, EvmHow
<1>3. CASE MulticallRead(l) BY <1>1, <1>3 DEF MulticallRead, EvmHow
<1>4. CASE BatchedBalanceOfRead(l) BY <1>1, <1>4 DEF BatchedBalanceOfRead, EvmHow
<1>5. CASE AccountsRead(l) BY <1>1, <1>5 DEF AccountsRead, SolHow
<1>6. CASE AccountRead(l) BY <1>1, <1>6 DEF AccountRead, SolHow
<1>7. CASE SPLTokenRead(l) BY <1>1, <1>7 DEF SPLTokenRead, SolHow
<1>8. CASE TronAccountRead(l) BY <1>1, <1>8 DEF TronAccountRead, TronHow
<1>9. CASE TRC20Read(l) BY <1>1, <1>9 DEF TRC20Read, TronHow
<1>10. CASE MulticallFails(l) \/ AccountsFail(l) BY <1>10, Replanning
<1>11. CASE BatchFails(l) BY <1>11, Failing
<1>12. CASE Land(l) BY <1>12, Landing
<1> QED BY <1>2, <1>3, <1>4, <1>5, <1>6, <1>7, <1>8, <1>9, <1>10, <1>11, <1>12 DEF Fly

LEMMA Kinds ==
  ASSUME Sound, Next
  PROVE  Steps /\ Typed'
<1>0. Typed /\ \A r \in Req : RequestSound(r) /\ FlightSound(r) BY DEF Sound
<1>1. CASE \E c \in Chain : NewBlock(c) \/ Settle(c) BY <1>0, <1>1, Ticking DEF Steps
<1>2. ASSUME NEW r \in Req, (\E q \in Query : Ask(r, q)) \/ Step(r)
      PROVE  Steps /\ Typed'
  <2>1. CASE \E q \in Query : Ask(r, q) BY <1>0, <2>1, Asking DEF Steps
  <2>2. CASE Pick(r) \/ EnsurePool(r) \/ EnsureClient(r) \/ AnchorFails(r)
    BY <1>0, <2>2, Turning DEF Steps
  <2>3. CASE Anchored(r) BY <1>0, <2>3, Taking DEF Steps
  <2>4. CASE NativeBalanceBatch(r)
    <3> DEFINE q == req[r].q
    <3>1. CASE q.addrs = <<>>
      <4>1. /\ At(r, "native") /\ req' = [req EXCEPT ![r].at = "tokens"]
            /\ UNCHANGED <<head, settled, pool, flight>>
        BY <2>4, <3>1 DEF NativeBalanceBatch
      <4>2. Skips(r) /\ Typed' BY <1>0, <3>1, <4>1, Skipping
      <4> QED BY <4>2 DEF Steps
    <3>2. CASE q.addrs # <<>>
      <4> DEFINE key == NativeKey(q, req[r].height)
                 todo == NativeTodo(q)
      <4>1. At(r, "native") /\ Do(r, key, q.addrs, todo)
        BY <2>4, <3>2 DEF NativeBalanceBatch
      <4>2. Purpose(r, key, q.addrs, todo) BY <3>2, <4>1 DEF Purpose, NativePurpose
      <4> HIDE DEF key, todo
      <4>3. /\ \/ \E l \in Req : Joins(r, l, key, q.addrs, todo)
               \/ Leads(r, key, q.addrs, todo)
            /\ Typed'
        BY <1>0, <4>1, <4>2, Boarding
      <4> QED BY <4>3 DEF Steps
    <3> QED BY <3>1, <3>2
  <2>5. CASE TokenBalancesBatch(r)
    <3> DEFINE q == req[r].q
               none == \/ DOMAIN q.tokens = {}
                       \/ q.chain \in Evm /\ \A a \in DOMAIN q.tokens : q.tokens[a] = <<>>
    <3>1. CASE none
      <4>1. /\ At(r, "tokens") /\ req' = [req EXCEPT ![r].at = "answered"]
            /\ UNCHANGED <<head, settled, pool, flight>>
        BY <2>5, <3>1 DEF TokenBalancesBatch
      <4>2. \A a \in DOMAIN q.tokens : q.tokens[a] = <<>> BY <3>1
      <4>3. Skips(r) /\ Typed' BY <1>0, <4>1, <4>2, Skipping
      <4> QED BY <4>3 DEF Steps
    <3>2. CASE ~none
      <4>1. PICK order, again \in SetToSeqs(DOMAIN q.tokens) :
              Do(r, TokenKey(q, req[r].height, order), PairsOf(q, order),
                 TokenTodo(q, order, again))
        BY <2>5, <3>2 DEF TokenBalancesBatch
      <4> DEFINE key == TokenKey(q, req[r].height, order)
                 list == PairsOf(q, order)
                 todo == TokenTodo(q, order, again)
      <4>2. At(r, "tokens") /\ DOMAIN q.tokens # {}
        BY <2>5, <3>2 DEF TokenBalancesBatch
      <4>3. TokenPurpose(r, key, list, todo, order, again) BY <4>2 DEF TokenPurpose
      <4>4. Do(r, key, list, todo) BY <4>1
      <4> HIDE DEF key, list, todo
      <4>5. Purpose(r, key, list, todo) BY <4>3 DEF Purpose
      <4>6. /\ \/ \E l \in Req : Joins(r, l, key, list, todo)
               \/ Leads(r, key, list, todo)
            /\ Typed'
        BY <1>0, <4>4, <4>5, Boarding
      <4> QED BY <4>6 DEF Steps
    <3> QED BY <3>1, <3>2
  <2>6. CASE Fly(r) BY <1>0, <2>6, FlightSteps DEF Steps
  <2> QED BY <1>2, <2>1, <2>2, <2>3, <2>4, <2>5, <2>6 DEF Step
<1> QED BY <1>1, <1>2 DEF Next

LEMMA Stuttering ==
  ASSUME Sound, UNCHANGED vars
  PROVE  Steps /\ Typed'
<1>1. Typed BY DEF Sound
<1>2. \A c \in Chain : head[c] <= head'[c] /\ settled[c] <= settled'[c]
  BY <1>1 DEF vars, Typed, Height
<1>3. Ticks BY <1>2 DEF Ticks, vars
<1> QED BY <1>1, <1>3 DEF Steps, Typed, vars

----------------------------------------------------------------------------
\* Sound is an invariant.

\* What has been reached stays so.
LEMMA StaysReached ==
  ASSUME Typed, Typed', NEW q, NEW h \in Height, Reached(q, h),
         \A c \in Chain : head[c] <= head'[c] /\ settled[c] <= settled'[c]
  PROVE  Reached(q, h)'
<1>1. ASSUME NEW c \in Chain
      PROVE  /\ h <= head[c] => h <= head'[c]
             /\ h <= settled[c] => h <= settled'[c]
  BY DEF Typed, Height
<1>2. "SOLANA" \in Chain /\ "TRON" \in Chain /\ Evm \subseteq Chain BY DEF Chain
<1> QED BY <1>1, <1>2 DEF Reached

LEMMA QuietReached ==
  ASSUME NEW q, NEW h, Reached(q, h), head' = head, settled' = settled
  PROVE  Reached(q, h)'
BY DEF Reached

\* A request that keeps still, while the flight it waits for goes on.
LEMMA StillSound ==
  ASSUME NEW r \in Req, RequestSound(r), req'[r] = req[r],
         At(r, "flight") => flight'[req[r].of].key # <<>>,
         Reached(req[r].q, req[r].height) => Reached(req[r].q, req[r].height)'
  PROVE  RequestSound(r)'
BY DEF RequestSound, At, Flying, Reached

\* A flight whose leader stays aboard.
LEMMA StillFlies ==
  ASSUME NEW l \in Req, FlightSound(l), flight'[l] = flight[l],
         At(l, "flight") => req'[l] = req[l]
  PROVE  FlightSound(l)'
BY DEF FlightSound, At, Flying

\* Steps of a request that is not aboard a flight.
LEMMA MoveSound ==
  ASSUME Sound, Typed', NEW r \in Req, Others(r), UNCHANGED <<head, settled, flight>>,
         ~At(r, "flight"), RequestSound(r)'
  PROVE  Sound'
<1>0. Typed /\ \A s \in Req : RequestSound(s) /\ FlightSound(s) BY DEF Sound
<1>1. ASSUME NEW s \in Req, s # r PROVE RequestSound(s)'
  <2>1. req'[s] = req[s] BY <1>1 DEF Others
  <2>2. At(s, "flight") => flight'[req[s].of].key # <<>>
    BY <1>0 DEF RequestSound, Flying
  <2>3. Reached(req[s].q, req[s].height) => Reached(req[s].q, req[s].height)'
    BY <2>1, QuietReached DEF Reached
  <2> QED BY <1>0, <2>1, <2>2, <2>3, StillSound
<1>2. ASSUME NEW l \in Req PROVE FlightSound(l)'
  <2>1. At(l, "flight") => req'[l] = req[l] BY DEF Others
  <2> QED BY <1>0, <2>1, StillFlies
<1> QED BY <1>1, <1>2 DEF Sound

LEMMA PurposeFacts ==
  ASSUME Typed, NEW r \in Req, RequestSound(r), NEW key, NEW list, NEW todo,
         Purpose(r, key, list, todo)
  PROVE  /\ req[r].at \in {"native", "tokens"}
         /\ req[r].q \in Query /\ req[r].q.chain \in Chain
         /\ Reached(req[r].q, req[r].height)
         /\ key \in Key /\ key # <<>> /\ list \in Seq(Item)
         /\ todo \in Seq(Call(Hows(req[r].q.chain))) /\ LeftOf(todo) = ToSet(list)
<1>1. req[r].at \in {"native", "tokens"}
  BY DEF Purpose, NativePurpose, TokenPurpose, At
<1>2. /\ key \in Key /\ key # <<>> /\ list \in Seq(Item)
      /\ todo \in Seq(Call(Hows(req[r].q.chain))) /\ LeftOf(todo) = ToSet(list)
  BY NativePurposeTyped, TokenPurposeTyped DEF Purpose
<1> QED BY <1>1, <1>2 DEF RequestSound, At

LEMMA SoundBoards ==
  ASSUME Sound, Typed', NEW r \in Req, NEW l \in Req, NEW key, NEW list, NEW todo,
         Purpose(r, key, list, todo), Boards(r, l),
         req'[r].alone = TRUE => l = r, flight'[l].key # <<>>
  PROVE  RequestSound(r)'
<1>0. Typed /\ RequestSound(r) BY DEF Sound
<1>1. /\ req[r].q \in Query /\ req[r].q.chain \in Chain /\ Reached(req[r].q, req[r].height)
  BY <1>0, PurposeFacts
<1>2. /\ req'[r].at = "flight" /\ req'[r].of = l /\ req'[r].q = req[r].q
      /\ req'[r].height = req[r].height /\ head' = head /\ settled' = settled
  BY DEF Boards, Quiet
<1>3. Reached(req[r].q, req[r].height)' BY <1>1, <1>2 DEF Reached
<1> QED BY <1>1, <1>2, <1>3 DEF RequestSound, At, Flying

LEMMA SoundSteps ==
  ASSUME Sound, Steps, Typed'
  PROVE  Sound'
<1>0. Typed /\ \A s \in Req : RequestSound(s) /\ FlightSound(s) BY DEF Sound
<1>1. CASE Ticks
  <2>1. UNCHANGED <<req, flight>> BY <1>1 DEF Ticks
  <2>2. \A s \in Req : req[s].height \in Height BY <1>0 DEF Typed, Request
  <2>3. ASSUME NEW s \in Req PROVE RequestSound(s)'
    <3>1. Reached(req[s].q, req[s].height) => Reached(req[s].q, req[s].height)'
      BY <1>0, <1>1, <2>1, <2>2, StaysReached DEF Ticks
    <3>2. At(s, "flight") => flight'[req[s].of].key # <<>>
      BY <1>0, <2>1 DEF RequestSound, Flying
    <3> QED BY <1>0, <2>1, <3>1, <3>2, StillSound
  <2>4. ASSUME NEW l \in Req PROVE FlightSound(l)' BY <1>0, <2>1, StillFlies
  <2> QED BY <2>3, <2>4 DEF Sound
<1>2. ASSUME NEW r \in Req, Asks(r) \/ Turns(r) \/ Takes(r) \/ Skips(r) PROVE Sound'
  <2>1. /\ Others(r) /\ UNCHANGED <<head, settled, flight>> /\ ~At(r, "flight")
    BY <1>2 DEF Asks, Turns, Takes, Skips, Goes, Quiet, At
  <2>2. RequestSound(r)'
    <3>1. CASE Asks(r) BY <3>1 DEF Asks, RequestSound, At
    <3>2. CASE Turns(r) BY <1>0, <3>2 DEF Turns, Goes, RequestSound, At
    <3>3. CASE Takes(r)
      <4>1. Reached(req[r].q, req[r].height)' BY <3>3, <2>1 DEF Takes, Reached
      <4> QED BY <1>0, <3>3, <4>1 DEF Takes, RequestSound, At
    <3>4. CASE Skips(r)
      <4>1. Reached(req[r].q, req[r].height) BY <1>0, <3>4 DEF Skips, RequestSound, At
      <4>2. Reached(req[r].q, req[r].height)'
        BY <3>4, <2>1, <4>1 DEF Skips, Goes, Reached
      <4> QED BY <1>0, <3>4, <4>2 DEF Skips, Goes, RequestSound, At
    <3> QED BY <1>2, <3>1, <3>2, <3>3, <3>4
  <2> QED BY <2>1, <2>2, MoveSound
<1>3. ASSUME NEW r \in Req, NEW l \in Req, NEW key, NEW list, NEW todo,
             Joins(r, l, key, list, todo)
      PROVE  Sound'
  <2>1. /\ Purpose(r, key, list, todo) /\ Boards(r, l) /\ flight' = flight
        /\ flight[l].key = key /\ req'[r].alone = FALSE
    BY <1>3 DEF Joins
  <2>2. req[r].at \in {"native", "tokens"} /\ key # <<>> BY <1>0, <2>1, PurposeFacts
  <2>3. RequestSound(r)' BY <2>1, <2>2, SoundBoards
  <2>4. Others(r) /\ UNCHANGED <<head, settled, flight>> /\ ~At(r, "flight")
    BY <2>1, <2>2 DEF Boards, Quiet, At
  <2> QED BY <2>3, <2>4, MoveSound
<1>4. ASSUME NEW r \in Req, NEW key, NEW list, NEW todo, Leads(r, key, list, todo)
      PROVE  Sound'
  <2>1. /\ Purpose(r, key, list, todo) /\ Boards(r, r) /\ OtherFlights(r)
        /\ flight'[r].key = key /\ flight'[r].todo = todo
    BY <1>4 DEF Leads
  <2>2. /\ req[r].at \in {"native", "tokens"} /\ key # <<>>
        /\ todo \in Seq(Call(Hows(req[r].q.chain)))
    BY <1>0, <2>1, PurposeFacts
  <2>3. RequestSound(r)' BY <2>1, <2>2, SoundBoards
  <2>4. ASSUME NEW s \in Req, s # r PROVE RequestSound(s)'
    <3>1. req'[s] = req[s] /\ head' = head /\ settled' = settled
      BY <2>1, <2>4 DEF Boards, Others, Quiet
    <3>2. At(s, "flight") => flight'[req[s].of].key # <<>>
      <4>1. \A k \in Req : flight'[k] = flight[k] \/ flight'[k].key # <<>>
        BY <2>1, <2>2 DEF OtherFlights
      <4>2. req[s].of \in Req BY <1>0 DEF Typed, Request
      <4> QED BY <1>0, <4>1, <4>2 DEF RequestSound, Flying
    <3>3. Reached(req[s].q, req[s].height) => Reached(req[s].q, req[s].height)'
      BY <3>1 DEF Reached
    <3> QED BY <1>0, <3>1, <3>2, <3>3, StillSound
  <2>5. ASSUME NEW l \in Req PROVE FlightSound(l)'
    <3>1. CASE l = r
      <4>1. req'[r].at = "flight" /\ req'[r].of = r /\ req'[r].q = req[r].q
        BY <2>1 DEF Boards
      <4> QED BY <2>1, <2>2, <3>1, <4>1 DEF FlightSound, At, Flying
    <3>2. CASE l # r
      <4>1. flight'[l] = flight[l] /\ req'[l] = req[l]
        BY <2>1, <3>2 DEF OtherFlights, Boards, Others
      <4> QED BY <1>0, <4>1, StillFlies
    <3> QED BY <3>1, <3>2
  <2> QED BY <2>3, <2>4, <2>5 DEF Sound
<1>5. ASSUME NEW l \in Req, (\E block \in Height : Reads(l, block)) \/ Replans(l)
      PROVE  Sound'
  <2>1. Flies(l) BY <1>5 DEF Reads, Replans
  <2>2. /\ UNCHANGED <<head, settled, pool, req>> /\ OtherFlights(l) /\ Flying(l)
        /\ flight'[l].key = flight[l].key
    BY <2>1 DEF Flies
  <2>3. flight'[l].todo \in Seq(Call(Hows(req[l].q.chain)))
    <3>1. CASE Replans(l) BY <3>1 DEF Replans
    <3>2. CASE \E block \in Height : Reads(l, block)
      <4>1. flight'[l].todo = Tail(flight[l].todo) /\ flight[l].todo # <<>>
        BY <3>2 DEF Reads
      <4>2. flight[l].todo \in Seq(Call(Hows(req[l].q.chain)))
        BY <1>0, <2>2 DEF FlightSound
      <4> HIDE DEF Hows, Call
      <4> QED BY ONLY <4>1, <4>2, NextCall
    <3> QED BY <1>5, <3>1, <3>2
  <2>4. ASSUME NEW s \in Req PROVE RequestSound(s)'
    <3>1. req'[s] = req[s] /\ head' = head /\ settled' = settled BY <2>2
    <3>2. At(s, "flight") => flight'[req[s].of].key # <<>>
      <4>1. \A k \in Req : flight'[k].key = flight[k].key BY <2>2 DEF OtherFlights
      <4>2. req[s].of \in Req BY <1>0 DEF Typed, Request
      <4> QED BY <1>0, <4>1, <4>2 DEF RequestSound, Flying
    <3>3. Reached(req[s].q, req[s].height) => Reached(req[s].q, req[s].height)'
      BY <3>1 DEF Reached
    <3> QED BY <1>0, <3>1, <3>2, <3>3, StillSound
  <2>5. ASSUME NEW k \in Req PROVE FlightSound(k)'
    <3>1. CASE k = l BY <1>0, <2>2, <2>3, <3>1 DEF FlightSound, At, Flying
    <3>2. CASE k # l
      <4>1. flight'[k] = flight[k] /\ req'[k] = req[k] BY <2>2, <3>2 DEF OtherFlights
      <4> QED BY <1>0, <4>1, StillFlies
    <3> QED BY <3>1, <3>2
  <2> QED BY <2>4, <2>5 DEF Sound
<1>6. ASSUME NEW l \in Req, Fails(l) \/ Lands(l) PROVE Sound'
  <2>1. Ends(l) BY <1>6 DEF Fails, Lands
  <2>2. /\ Flying(l) /\ Quiet /\ OtherFlights(l)
        /\ flight'[l].key = <<>> /\ flight'[l].todo = <<>>
        /\ \A r \in Req : r \notin Aboard(l) => req'[r] = req[r]
        /\ \A r \in Aboard(l) : /\ req'[r].q = req[r].q /\ req'[r].height = req[r].height
                                /\ req'[r].at \in {"refused", "tokens", "answered"}
    BY <1>6, <2>1 DEF Ends, Fails, Lands
  <2>3. ASSUME NEW s \in Req PROVE RequestSound(s)'
    <3>1. CASE s \in Aboard(l)
      <4>1. At(s, "flight") BY <3>1 DEF Aboard
      <4>2. /\ req[s].q \in Query /\ req[s].q.chain \in Chain
            /\ Reached(req[s].q, req[s].height)
        BY <1>0, <4>1 DEF RequestSound, At
      <4>3. Reached(req[s].q, req[s].height)'
        BY <2>2, <3>1, <4>2 DEF Quiet, Reached
      <4> QED BY <2>2, <3>1, <4>2, <4>3 DEF RequestSound, At
    <3>2. CASE s \notin Aboard(l)
      <4>1. req'[s] = req[s] BY <2>2, <3>2
      <4>2. At(s, "flight") => flight'[req[s].of].key # <<>>
        <5>1. At(s, "flight") => req[s].of # l BY <3>2 DEF Aboard
        <5>2. req[s].of \in Req BY <1>0 DEF Typed, Request
        <5> QED BY <1>0, <2>2, <5>1, <5>2 DEF OtherFlights, RequestSound, Flying
      <4>3. Reached(req[s].q, req[s].height) => Reached(req[s].q, req[s].height)'
        BY <2>2, <4>1 DEF Quiet, Reached
      <4> QED BY <1>0, <4>1, <4>2, <4>3, StillSound
    <3> QED BY <3>1, <3>2
  <2>4. ASSUME NEW k \in Req PROVE FlightSound(k)'
    <3>1. CASE k = l BY <2>2, <3>1 DEF FlightSound, Flying
    <3>2. CASE k # l
      <4>1. flight'[k] = flight[k] BY <2>2, <3>2 DEF OtherFlights
      <4>2. CASE k \in Aboard(l)
        <5>1. At(k, "flight") /\ req[k].of # k BY <3>2, <4>2 DEF Aboard
        <5>2. ~Flying(k) BY <1>0, <5>1 DEF FlightSound
        <5> QED BY <1>0, <4>1, <5>2 DEF FlightSound, Flying
      <4>3. CASE k \notin Aboard(l)
        <5>1. req'[k] = req[k] BY <2>2, <4>3
        <5> QED BY <1>0, <4>1, <5>1, StillFlies
      <4> QED BY <4>2, <4>3
    <3> QED BY <3>1, <3>2
  <2> QED BY <2>3, <2>4 DEF Sound
<1> QED BY <1>1, <1>2, <1>3, <1>4, <1>5, <1>6 DEF Steps

LEMMA SoundNext ==
  ASSUME Sound, [Next]_vars
  PROVE  Steps /\ Typed' /\ Sound'
<1>1. CASE Next
  <2>1. Steps /\ Typed' BY <1>1, Kinds
  <2> QED BY <2>1, SoundSteps
<1>2. CASE UNCHANGED vars
  <2>1. Steps /\ Typed' BY <1>2, Stuttering
  <2> QED BY <2>1, SoundSteps
<1> QED BY <1>1, <1>2

LEMMA SoundAlways == Spec => []Sound
<1>1. Sound /\ [Next]_vars => Sound' BY SoundNext
<1> QED BY InitSound, <1>1, PTL DEF Spec

\* Shared state is well-formed at all times, a flight is led by a request
\* aboard it, and no call asks for more than maxBatch items.
THEOREM ReadsAreTyped == Spec => []TypeOK
<1>1. Sound => TypeOK
  <2> SUFFICES ASSUME Sound PROVE TypeOK OBVIOUS
  <2>0. Typed /\ \A s \in Req : RequestSound(s) /\ FlightSound(s) BY DEF Sound
  <2>1. ASSUME NEW r \in Req, ~At(r, "new")
        PROVE  /\ req[r].q \in Query /\ req[r].height \in Height /\ req[r].of \in Req
               /\ req[r].at \in {"pick", "dial", "anchor", "native", "tokens", "flight",
                                 "answered", "refused"}
               /\ \A x \in DOMAIN req[r].native : req[r].native[x] \in Blocks
               /\ \A x \in DOMAIN req[r].tokens : req[r].tokens[x] \in Blocks
    <3>1. req[r].q \in Query BY <2>0, <2>1 DEF RequestSound
    <3>2. /\ req[r].height \in Height /\ req[r].of \in Req /\ req[r].at \in Place
          /\ req[r].native \in Readings /\ req[r].tokens \in Readings
      BY <2>0 DEF Typed, Request
    <3> QED BY <2>1, <3>1, <3>2, ReadingsFacts DEF Place, At
  <2>2. ASSUME NEW l \in Req, Flying(l)
        PROVE  /\ l \in Aboard(l)
               /\ \A i \in DOMAIN flight[l].todo :
                    Len(flight[l].todo[i].items) \in 1..MaxBatch
               /\ \A x \in DOMAIN flight[l].out : flight[l].out[x] \in Blocks
    <3>1. l \in Aboard(l) BY <2>0, <2>2 DEF FlightSound, Aboard
    <3>2. flight[l].todo \in Seq(Call(AnyHow)) /\ flight[l].out \in Readings
      BY <2>0 DEF Typed, Flight
    <3>3. ASSUME NEW i \in DOMAIN flight[l].todo
          PROVE  flight[l].todo[i].items \in Batch
      <4>1. flight[l].todo[i] \in Call(AnyHow) BY <3>2
      <4> QED BY <4>1 DEF Call
    <3>4. \A s \in Batch : Len(s) \in 1..MaxBatch BY DEF Batch
    <3>5. \A i \in DOMAIN flight[l].todo : Len(flight[l].todo[i].items) \in 1..MaxBatch
      BY ONLY <3>3, <3>4
    <3> QED BY <3>1, <3>2, <3>5, ReadingsFacts
  <2> QED BY <2>0, <2>1, <2>2 DEF TypeOK, Typed
<1> QED BY SoundAlways, <1>1, PTL

\* The connections of a chain are made once (the second look of ensurePool
\* and ensureClient), in whatever order requests look and connect.
THEOREM PoolsAreMadeOnce == Spec => OnePool
<1> DEFINE Once == \A c \in Chain : pool[c] # None => pool'[c] = pool[c]
<1>1. ASSUME Sound, [Next]_vars PROVE [Once]_pool
  <2>0. pool \in [Chain -> Req \cup {None}] BY <1>1 DEF Sound, Typed
  <2>1. ASSUME NEW r \in Req, EnsurePool(r) \/ EnsureClient(r) PROVE Once
    <3>1. pool' = [pool EXCEPT ![req[r].q.chain] =
                     IF pool[req[r].q.chain] = None THEN r ELSE pool[req[r].q.chain]]
      BY <2>1 DEF EnsurePool, EnsureClient
    <3> QED BY <2>0, <3>1
  <2>2. CASE \E c \in Chain : NewBlock(c) \/ Settle(c) BY <2>2 DEF NewBlock, Settle
  <2>3. ASSUME NEW r \in Req, \E q \in Query : Ask(r, q) PROVE pool' = pool
    BY <2>3 DEF Ask
  <2>4. ASSUME NEW r \in Req, Step(r), ~EnsurePool(r), ~EnsureClient(r)
        PROVE  pool' = pool
    <3>1. CASE Pick(r) \/ Anchored(r) \/ AnchorFails(r)
      BY <3>1 DEF Pick, Anchored, AnchorFails
    <3>2. CASE NativeBalanceBatch(r) BY <3>2 DEF NativeBalanceBatch, Do
    <3>3. CASE TokenBalancesBatch(r) BY <3>3 DEF TokenBalancesBatch, Do
    <3>4. CASE Fly(r)
      BY <3>4 DEF Fly, GetBalanceRead, MulticallRead, BatchedBalanceOfRead,
           MulticallFails, BatchFails, AccountsRead, AccountsFail, AccountRead,
           SPLTokenRead, TronAccountRead, TRC20Read, Land, Read
    <3> QED BY <2>4, <3>1, <3>2, <3>3, <3>4 DEF Step
  <2>5. CASE UNCHANGED vars BY <2>5 DEF vars
  <2> HIDE DEF Once
  <2> QED BY <1>1, <2>1, <2>2, <2>3, <2>4, <2>5 DEF Next
<1> QED BY SoundAlways, <1>1, PTL DEF Spec, OnePool

----------------------------------------------------------------------------
\* What a key of SOLANA tells: the words of the map in a row tell its pairs
\* as long as no token is an owner's address too.

Owners == UNION {DOMAIN q.tokens : q \in {p \in Query : p.chain = "SOLANA"}}

DistinctMints ==
  \A q \in Query : q.chain = "SOLANA" =>
    \A a \in DOMAIN q.tokens : ToSet(q.tokens[a]) \cap Owners = {}

\* Word j is a token of word i.
Owned(w, i, j) == /\ i < j /\ w[i] \in Owners
                  /\ \A k \in (i + 1)..j : w[k] \notin Owners

Told(w) == {p \in Text \X Text :
             \E i, j \in 1..Len(w) : Owned(w, i, j) /\ p = <<w[j], w[i]>>}

LEMMA RowTold ==
  ASSUME NEW w \in Seq(Text), NEW a \in Text, a \in Owners, NEW t \in Seq(Text),
         ToSet(t) \cap Owners = {}, NEW row, IsJoined(Text, row, <<a>>, t),
         NEW v, IsJoined(Text, v, w, row)
  PROVE  Told(v) = Told(w) \cup {<<x, a>> : x \in ToSet(t)}
<1> DEFINE n == Len(w)
           m == Len(t)
<1>1. n \in Nat /\ m \in Nat OBVIOUS
<1>2. Len(row) = m + 1 /\ row[1] = a /\ \A i \in 1..m : row[i + 1] = t[i]
  BY DEF IsJoined
<1>3. /\ Len(v) = n + m + 1 /\ \A i \in 1..n : v[i] = w[i]
      /\ \A i \in 1..(m + 1) : v[i + n] = row[i]
  BY <1>1, <1>2 DEF IsJoined
<1>4. \A i \in 1..m : t[i] \in ToSet(t) /\ t[i] \in Text BY Member
<1> HIDE DEF n, m
<1>5. v[n + 1] = a
  <2>1. 1 \in 1..(m + 1) /\ 1 + n = n + 1 BY <1>1
  <2> QED BY <1>2, <1>3, <2>1
<1>6. ASSUME NEW i \in 1..m PROVE v[n + 1 + i] = t[i] /\ t[i] \notin Owners
  <2>1. i + 1 \in 1..(m + 1) /\ (i + 1) + n = n + 1 + i BY <1>1
  <2>2. v[n + 1 + i] = row[i + 1] BY <1>3, <2>1
  <2> QED BY <1>2, <1>4, <2>2
<1>7. ASSUME NEW p \in Told(v) PROVE p \in Told(w) \cup {<<x, a>> : x \in ToSet(t)}
  <2>1. PICK i, j \in 1..(n + m + 1) : Owned(v, i, j) /\ p = <<v[j], v[i]>>
    BY <1>3, <1>7 DEF Told
  <2>2. i < j /\ v[i] \in Owners /\ \A k \in (i + 1)..j : v[k] \notin Owners
    BY <2>1 DEF Owned
  <2>3. CASE j <= n
    <3>1. i \in 1..n /\ j \in 1..n BY <1>1, <2>2, <2>3
    <3>2. v[i] = w[i] /\ v[j] = w[j] BY <1>3, <3>1
    <3>3. \A k \in (i + 1)..j : k \in 1..n BY <1>1, <3>1
    <3>4. \A k \in (i + 1)..j : w[k] \notin Owners BY <1>3, <2>2, <3>3
    <3>5. Owned(w, i, j) BY <2>2, <3>2, <3>4 DEF Owned
    <3> QED BY <1>7, <2>1, <3>1, <3>2, <3>5 DEF Told, n
  <2>4. CASE j > n
    <3>1. i = n + 1
      <4>1. i <= n + 1
        <5>1. SUFFICES ASSUME i > n + 1 PROVE FALSE BY <1>1
        <5>2. i - n - 1 \in 1..m /\ n + 1 + (i - n - 1) = i BY <1>1, <5>1
        <5>3. v[i] \notin Owners BY <1>6, <5>2
        <5> QED BY <2>2, <5>3
      <4>2. ~(i < n + 1)
        <5>1. SUFFICES ASSUME i < n + 1 PROVE FALSE OBVIOUS
        <5>2. n + 1 \in (i + 1)..j BY <1>1, <2>4, <5>1
        <5> QED BY <1>5, <2>2, <5>2
      <4> QED BY <1>1, <4>1, <4>2
    <3>2. j - n - 1 \in 1..m /\ n + 1 + (j - n - 1) = j BY <1>1, <2>2, <3>1
    <3>3. v[j] = t[j - n - 1] BY <1>6, <3>2
    <3>4. t[j - n - 1] \in ToSet(t) BY <1>4, <3>2
    <3>5. p = <<t[j - n - 1], a>> BY <1>5, <2>1, <3>1, <3>3
    <3> QED BY <3>4, <3>5
  <2> QED BY <1>1, <2>3, <2>4
<1>8. ASSUME NEW p \in Told(w) PROVE p \in Told(v)
  <2>1. PICK i, j \in 1..n : Owned(w, i, j) /\ p = <<w[j], w[i]>> BY <1>8 DEF Told, n
  <2>2. i < j /\ w[i] \in Owners /\ \A k \in (i + 1)..j : w[k] \notin Owners
    BY <2>1 DEF Owned
  <2>3. v[i] = w[i] /\ v[j] = w[j] BY <1>3
  <2>4. \A k \in (i + 1)..j : k \in 1..n BY <1>1
  <2>5. Owned(v, i, j) BY <1>3, <2>2, <2>3, <2>4 DEF Owned
  <2>6. i \in 1..Len(v) /\ j \in 1..Len(v) BY <1>1, <1>3
  <2> QED BY <1>8, <2>1, <2>3, <2>5, <2>6 DEF Told
<1>9. ASSUME NEW x \in ToSet(t) PROVE <<x, a>> \in Told(v)
  <2>1. PICK j \in 1..m : x = t[j] BY DEF ToSet, m
  <2>2. v[n + 1 + j] = x BY <1>6, <2>1
  <2>3. \A k \in (n + 2)..(n + 1 + j) : k - n - 1 \in 1..m /\ n + 1 + (k - n - 1) = k
    BY <1>1
  <2>4. \A k \in (n + 2)..(n + 1 + j) : v[k] \notin Owners BY <1>6, <2>3
  <2>5. /\ n + 1 < n + 1 + j /\ (n + 1) + 1 = n + 2
        /\ n + 1 \in 1..Len(v) /\ n + 1 + j \in 1..Len(v)
    BY <1>1, <1>3
  <2>6. Owned(v, n + 1, n + 1 + j) BY <1>5, <2>4, <2>5 DEF Owned
  <2>7. <<x, a>> \in Text \X Text BY <1>4, <2>1
  <2> QED BY <1>5, <2>2, <2>5, <2>6, <2>7 DEF Told
<1> QED BY <1>7, <1>8, <1>9

LEMMA WordsTell ==
  ASSUME DistinctMints, NEW q \in Query, q.chain = "SOLANA", DOMAIN q.tokens # {},
         NEW order \in SetToSeqs(DOMAIN q.tokens)
  PROVE  Told(SolWords(q, order)) = Pairs(q)
<1> DEFINE D == DOMAIN q.tokens
           row(a) == <<a>> \o q.tokens[a]
           s == [i \in DOMAIN order |-> row(order[i])]
<1>1. order \in Seq(D) /\ ToSet(order) = D BY QueryFacts, OrderHasAll
<1>2. order # <<>> BY <1>1 DEF ToSet
<1>3. ASSUME NEW a \in D
      PROVE  /\ <<a>> \in Seq(Text) /\ q.tokens[a] \in Seq(Text) /\ a \in Text /\ a \in Owners
             /\ ToSet(q.tokens[a]) \cap Owners = {}
             /\ row(a) \in Seq(Text) /\ IsJoined(Text, row(a), <<a>>, q.tokens[a])
             /\ PairsFor(q, a) = {<<x, a>> : x \in ToSet(q.tokens[a])}
  <2>1. a \in Text /\ q.tokens[a] \in Seq(Text) BY QueryFacts
  <2>2. <<a>> \in Seq(Text) BY <2>1
  <2>3. a \in Owners BY DEF Owners
  <2>4. ToSet(q.tokens[a]) \cap Owners = {} BY DEF DistinctMints
  <2>5. IsJoined(Text, row(a), <<a>>, q.tokens[a]) BY <2>1, <2>2, Joined
  <2>6. PairsFor(q, a) = {<<x, a>> : x \in ToSet(q.tokens[a])}
    BY Bounds DEF PairsFor, Spelling
  <2> QED BY <2>1, <2>2, <2>3, <2>4, <2>5, <2>6 DEF IsJoined
<1> DEFINE n == Len(order)
<1>4. /\ n \in Nat \ {0} /\ s \in Seq(Seq(Text)) /\ Len(s) = n /\ s # <<>>
      /\ \A i \in 1..n : order[i] \in D /\ s[i] = row(order[i])
  <2>1. n \in Nat \ {0} /\ DOMAIN order = 1..n BY <1>1, <1>2
  <2>2. \A i \in 1..n : s[i] \in Seq(Text)
    <3>1. \A i \in 1..n : order[i] \in D /\ s[i] = row(order[i]) BY <1>1, <2>1
    <3>2. \A a \in D : row(a) \in Seq(Text) BY <1>3
    <3> HIDE DEF s, row
    <3> QED BY <3>1, <3>2
  <2>3. s = [i \in 1..n |-> s[i]] BY <2>1
  <2>4. \A i \in 1..n : order[i] \in D /\ s[i] = row(order[i]) BY <1>1, <2>1
  <2> HIDE DEF s
  <2>5. s \in Seq(Seq(Text)) /\ Len(s) = n BY <2>1, <2>2, <2>3, IsSequence
  <2> QED BY <2>1, <2>4, <2>5
<1>5. SolWords(q, order) = FlattenSeq(s) BY DEF SolWords
<1> HIDE DEF s, row, n
<1>6. PICK f : /\ FlattenSeq(s) = f[n] /\ f[1] = s[1]
               /\ \A i \in 2..n : f[i] = f[i - 1] \o s[i]
  BY <1>4, Flattened
<1> DEFINE U(i) == UNION {PairsFor(q, order[j]) : j \in 1..i}
           Good(i) == f[i] \in Seq(Text) /\ Told(f[i]) = U(i)
           G == {i \in 1..n : Good(i)}
<1>7. 1 \in G
  <2>1. 1 \in 1..n BY <1>4
  <2>2. s[1] \in Seq(Text) BY <1>3, <1>4, <2>1
  <2>3. PICK w : w = <<>> OBVIOUS
  <2>4. w \in Seq(Text) /\ IsJoined(Text, s[1], w, s[1]) /\ Told(w) = {}
    BY <2>2, <2>3 DEF IsJoined, Told
  <2>5. Told(s[1]) = PairsFor(q, order[1])
    <3>1. PICK a \in D : a = order[1] /\ s[1] = row(a) BY <1>4, <2>1
    <3>2. Told(s[1]) = Told(w) \cup {<<x, a>> : x \in ToSet(q.tokens[a])}
      <4>1. /\ a \in Text /\ a \in Owners /\ q.tokens[a] \in Seq(Text)
            /\ ToSet(q.tokens[a]) \cap Owners = {}
            /\ IsJoined(Text, s[1], <<a>>, q.tokens[a])
        BY <1>3, <3>1
      <4> QED BY ONLY <2>4, <4>1, RowTold
    <3> QED BY <1>3, <2>4, <3>1, <3>2
  <2>6. U(1) = PairsFor(q, order[1])
    <3>1. 1..1 = {1} OBVIOUS
    <3> QED BY <3>1
  <2> QED BY <1>6, <2>1, <2>2, <2>5, <2>6
<1>8. ASSUME NEW i \in 1..n, i > 1, i - 1 \in G PROVE i \in G
  <2>1. f[i - 1] \in Seq(Text) /\ Told(f[i - 1]) = U(i - 1) BY <1>8
  <2>2. f[i] = f[i - 1] \o s[i]
    <3>1. i \in 2..n BY <1>4, <1>8
    <3> QED BY <1>6, <3>1
  <2>3. PICK a \in D : a = order[i] /\ s[i] = row(a) BY <1>4
  <2>4. s[i] \in Seq(Text) BY <1>3, <2>3
  <2>5. IsJoined(Text, f[i], f[i - 1], s[i]) BY <2>1, <2>2, <2>4, Joined
  <2>6. f[i] \in Seq(Text) BY <2>5 DEF IsJoined
  <2>7. Told(f[i]) = Told(f[i - 1]) \cup {<<x, a>> : x \in ToSet(q.tokens[a])}
    <3>1. /\ a \in Text /\ a \in Owners /\ q.tokens[a] \in Seq(Text)
          /\ ToSet(q.tokens[a]) \cap Owners = {}
          /\ IsJoined(Text, s[i], <<a>>, q.tokens[a])
      BY <1>3, <2>3
    <3> QED BY ONLY <2>1, <2>5, <3>1, RowTold
  <2>8. U(i) = U(i - 1) \cup PairsFor(q, order[i])
    <3>1. 1..i = (1..(i - 1)) \cup {i} BY <1>8
    <3> QED BY <3>1
  <2> QED BY <1>3, <2>1, <2>3, <2>6, <2>7, <2>8
<1>9. n \in G
  <2>1. n \in 1..n BY <1>4
  <2> HIDE DEF G
  <2> QED BY <1>4, <1>7, <1>8, <2>1, UpTo
<1>10. U(n) = Pairs(q)
  <2>1. \A a \in D : \E j \in 1..n : order[j] = a BY <1>1 DEF ToSet, n
  <2> QED BY <1>4, <2>1 DEF Pairs
<1> QED BY <1>5, <1>6, <1>9, <1>10

\* Equal keys of token flights are of queries for the same pairs.
LEMMA KeyTells ==
  ASSUME DistinctMints, NEW p \in Query, NEW q \in Query,
         p.chain \in Chain, p.chain # "TRON",
         DOMAIN p.tokens # {}, DOMAIN q.tokens # {},
         NEW o \in SetToSeqs(DOMAIN p.tokens), NEW u \in SetToSeqs(DOMAIN q.tokens),
         NEW h, NEW k, TokenKey(p, h, o) = TokenKey(q, k, u)
  PROVE  Pairs(p) = Pairs(q)
<1>1. q.chain = p.chain BY DEF TokenKey
<1>2. CASE p.chain \in Evm
  <2>1. /\ TokenKey(p, h, o) = <<"tb", p.chain, h, PairsOf(p, o)>>
        /\ TokenKey(q, k, u) = <<"tb", q.chain, k, PairsOf(q, u)>>
    BY <1>1, <1>2, Bounds DEF TokenKey
  <2>2. PairsOf(p, o) = PairsOf(q, u)
    <3>1. <<"tb", p.chain, h, PairsOf(p, o)>> = <<"tb", q.chain, k, PairsOf(q, u)>>
      BY <2>1
    <3> QED BY ONLY <3>1
  <2>3. ToSet(PairsOf(p, o)) = Pairs(p) /\ ToSet(PairsOf(q, u)) = Pairs(q) BY PairsListed
  <2> QED BY <2>2, <2>3
<1>3. CASE p.chain = "SOLANA"
  <2>1. /\ TokenKey(p, h, o) = <<"tb", p.chain, h, SolWords(p, o)>>
        /\ TokenKey(q, k, u) = <<"tb", q.chain, k, SolWords(q, u)>>
    BY <1>1, <1>3, Bounds DEF TokenKey
  <2>2. SolWords(p, o) = SolWords(q, u)
    <3>1. <<"tb", p.chain, h, SolWords(p, o)>> = <<"tb", q.chain, k, SolWords(q, u)>>
      BY <2>1
    <3> QED BY ONLY <3>1
  <2>3. Told(SolWords(p, o)) = Pairs(p) /\ Told(SolWords(q, u)) = Pairs(q)
    BY <1>1, <1>3, WordsTell
  <2> QED BY <2>2, <2>3
<1> QED BY <1>2, <1>3, ChainCases

----------------------------------------------------------------------------
\* The flight a request waits for was started with the request's own key, and
\* lists what the request asks for.

AsksFor(q, h, key, list) ==
  \/ key = NativeKey(q, h) /\ list = q.addrs
  \/ /\ DOMAIN q.tokens # {}
     /\ \E o \in SetToSeqs(DOMAIN q.tokens) : key = TokenKey(q, h, o)
     /\ (DistinctMints /\ q.chain # "TRON") => ToSet(list) = Pairs(q)

Boarded(r) ==
  At(r, "flight") =>
    AsksFor(req[r].q, req[r].height, flight[req[r].of].key, flight[req[r].of].list)

LEMMA KeyParts ==
  ASSUME NEW q, NEW h, NEW key, NEW list, AsksFor(q, h, key, list)
  PROVE  /\ key[2] = q.chain /\ key[3] = h
         /\ \/ key[1] = "nb" /\ key = NativeKey(q, h) /\ list = q.addrs
            \/ /\ key[1] = "tb" /\ key[1] # "nb" /\ DOMAIN q.tokens # {}
               /\ \E o \in SetToSeqs(DOMAIN q.tokens) : key = TokenKey(q, h, o)
               /\ (DistinctMints /\ q.chain # "TRON") => ToSet(list) = Pairs(q)
<1>1. CASE key = NativeKey(q, h) /\ list = q.addrs
  <2>1. key = <<"nb", q.chain, h, q.addrs>> BY <1>1 DEF NativeKey
  <2> QED BY <1>1, <2>1
<1>2. CASE /\ DOMAIN q.tokens # {}
           /\ \E o \in SetToSeqs(DOMAIN q.tokens) : key = TokenKey(q, h, o)
           /\ (DistinctMints /\ q.chain # "TRON") => ToSet(list) = Pairs(q)
  <2>1. PICK x : key = <<"tb", q.chain, h, x>> BY <1>2 DEF TokenKey
  <2>2. key[1] = "tb" /\ key[2] = q.chain /\ key[3] = h BY <2>1
  <2> QED BY <1>2, <2>2
<1> QED BY <1>1, <1>2 DEF AsksFor

LEMMA PurposeAsks ==
  ASSUME Typed, NEW r \in Req, RequestSound(r), NEW key, NEW list, NEW todo,
         Purpose(r, key, list, todo)
  PROVE  AsksFor(req[r].q, req[r].height, key, list)
<1>1. CASE NativePurpose(r, key, list, todo) BY <1>1 DEF NativePurpose, AsksFor
<1>2. CASE \E order, again : TokenPurpose(r, key, list, todo, order, again)
  <2>1. PICK order, again : TokenPurpose(r, key, list, todo, order, again) BY <1>2
  <2>2. ToSet(list) = Pairs(req[r].q) BY <2>1, TokenPurposeTyped
  <2> QED BY <2>1, <2>2 DEF TokenPurpose, AsksFor
<1> QED BY <1>1, <1>2 DEF Purpose

\* Who has the same key asks for the same.
LEMMA SameKey ==
  ASSUME NEW p \in Query, NEW q \in Query, p.chain \in Chain,
         NEW h, NEW k, NEW key, NEW list, NEW other,
         AsksFor(p, h, key, list), AsksFor(q, k, key, other)
  PROVE  AsksFor(p, h, key, other)
<1>1. CASE key[1] = "nb"
  <2>1. key = NativeKey(p, h) /\ key = NativeKey(q, k) /\ other = q.addrs
    BY <1>1, KeyParts
  <2>2. p.addrs = q.addrs BY <2>1 DEF NativeKey
  <2> QED BY <2>1, <2>2 DEF AsksFor
<1>2. CASE key[1] # "nb"
  <2>1. /\ DOMAIN p.tokens # {} /\ DOMAIN q.tokens # {} /\ q.chain = p.chain
        /\ (DistinctMints /\ q.chain # "TRON") => ToSet(other) = Pairs(q)
    BY <1>2, KeyParts
  <2>2. PICK o \in SetToSeqs(DOMAIN p.tokens) : key = TokenKey(p, h, o) BY <1>2, KeyParts
  <2>3. PICK u \in SetToSeqs(DOMAIN q.tokens) : key = TokenKey(q, k, u) BY <1>2, KeyParts
  <2>4. ASSUME DistinctMints, p.chain # "TRON" PROVE Pairs(p) = Pairs(q)
    BY <2>1, <2>2, <2>3, <2>4, KeyTells
  <2> QED BY <2>1, <2>2, <2>4 DEF AsksFor
<1> QED BY <1>1, <1>2

\* Who is aboard after a step was so before it, or has just boarded.
LEMMA OnBoard ==
  ASSUME Sound, Steps, NEW s \in Req, req'[s].at = "flight"
  PROVE  \/ /\ At(s, "flight") /\ req'[s] = req[s]
            /\ flight'[req[s].of].key = flight[req[s].of].key
            /\ flight'[req[s].of].list = flight[req[s].of].list
         \/ \E l \in Req : \E key, list, todo : Joins(s, l, key, list, todo)
         \/ \E key, list, todo : Leads(s, key, list, todo)
<1>0. /\ Typed /\ \A r \in Req : RequestSound(r) /\ FlightSound(r) /\ req[r].of \in Req
  BY DEF Sound, Typed, Request
<1>1. CASE Ticks BY <1>1 DEF Ticks, At
<1>2. ASSUME NEW r \in Req, Asks(r) \/ Turns(r) \/ Takes(r) \/ Skips(r)
      PROVE  /\ At(s, "flight") /\ req'[s] = req[s] /\ flight' = flight
  <2>1. /\ Others(r) /\ flight' = flight /\ req'[r].at # "flight"
    BY <1>2 DEF Asks, Turns, Takes, Skips, Goes
  <2> QED BY <2>1 DEF Others, At
<1>3. ASSUME NEW r \in Req, r # s, NEW l \in Req, NEW key, NEW list, NEW todo,
             Joins(r, l, key, list, todo)
      PROVE  At(s, "flight") /\ req'[s] = req[s] /\ flight' = flight
  BY <1>3 DEF Joins, Boards, Others, At
<1>4. ASSUME NEW r \in Req, r # s, NEW key, NEW list, NEW todo,
             Leads(r, key, list, todo)
      PROVE  /\ At(s, "flight") /\ req'[s] = req[s]
             /\ flight'[req[s].of] = flight[req[s].of]
  <2>1. At(s, "flight") /\ req'[s] = req[s] /\ OtherFlights(r) /\ Purpose(r, key, list, todo)
    BY <1>4 DEF Leads, Boards, Others, At
  <2>2. ~At(r, "flight") BY <1>0, <2>1, PurposeFacts DEF At
  <2>3. req[s].of # r BY <1>0, <2>1, <2>2 DEF RequestSound, FlightSound
  <2> QED BY <1>0, <2>1, <2>3 DEF OtherFlights
<1>5. ASSUME NEW l \in Req, (\E block \in Height : Reads(l, block)) \/ Replans(l)
      PROVE  /\ At(s, "flight") /\ req'[s] = req[s]
             /\ flight'[req[s].of].key = flight[req[s].of].key
             /\ flight'[req[s].of].list = flight[req[s].of].list
  <2>1. Flies(l) BY <1>5 DEF Reads, Replans
  <2> QED BY <1>0, <2>1 DEF Flies, OtherFlights, At
<1>6. ASSUME NEW l \in Req, Fails(l) \/ Lands(l)
      PROVE  /\ At(s, "flight") /\ req'[s] = req[s]
             /\ flight'[req[s].of] = flight[req[s].of]
  <2>1. Ends(l) /\ \A r \in Aboard(l) : req'[r].at # "flight" BY <1>6 DEF Fails, Lands
  <2>2. s \notin Aboard(l) BY <2>1
  <2>3. req'[s] = req[s] /\ OtherFlights(l) BY <2>1, <2>2 DEF Ends
  <2>4. At(s, "flight") /\ req[s].of # l BY <2>2, <2>3 DEF At, Aboard
  <2> QED BY <1>0, <2>3, <2>4 DEF OtherFlights
<1>7. CASE \E r \in Req : Asks(r) \/ Turns(r) \/ Takes(r) \/ Skips(r) BY <1>2, <1>7
<1>8. CASE \E r, l \in Req : \E key, list, todo : Joins(r, l, key, list, todo) BY <1>3, <1>8
<1>9. CASE \E r \in Req : \E key, list, todo : Leads(r, key, list, todo) BY <1>4, <1>9
<1>10. CASE \E l \in Req : \/ \E block \in Height : Reads(l, block)
                           \/ Replans(l) \/ Fails(l) \/ Lands(l)
  BY <1>5, <1>6, <1>10
<1> QED BY <1>1, <1>7, <1>8, <1>9, <1>10 DEF Steps

LEMMA BoardedSteps ==
  ASSUME Sound, Steps, \A r \in Req : Boarded(r)
  PROVE  \A r \in Req : Boarded(r)'
<1>0. Typed /\ \A r \in Req : RequestSound(r) /\ FlightSound(r) BY DEF Sound
<1> SUFFICES ASSUME NEW s \in Req, req'[s].at = "flight" PROVE Boarded(s)'
  BY DEF Boarded, At
<1>1. CASE /\ At(s, "flight") /\ req'[s] = req[s]
           /\ flight'[req[s].of].key = flight[req[s].of].key
           /\ flight'[req[s].of].list = flight[req[s].of].list
  BY <1>1 DEF Boarded
<1>2. ASSUME NEW l \in Req, NEW key, NEW list, NEW todo, Joins(s, l, key, list, todo)
      PROVE  Boarded(s)'
  <2>1. /\ Purpose(s, key, list, todo) /\ flight' = flight /\ flight[l].key = key
        /\ req'[s].of = l /\ req'[s].q = req[s].q /\ req'[s].height = req[s].height
    BY <1>2 DEF Joins, Boards
  <2>2. /\ AsksFor(req[s].q, req[s].height, key, list) /\ key # <<>>
        /\ req[s].q \in Query /\ req[s].q.chain \in Chain
    BY <1>0, <2>1, PurposeAsks, PurposeFacts
  <2>3. At(l, "flight") /\ req[l].of = l BY <1>0, <2>1, <2>2 DEF FlightSound, Flying
  <2>4. req[l].q \in Query BY <1>0, <2>3 DEF RequestSound, At
  <2>5. AsksFor(req[l].q, req[l].height, key, flight[l].list)
    BY <2>1, <2>3 DEF Boarded
  <2>6. AsksFor(req[s].q, req[s].height, key, flight[l].list)
    BY ONLY <2>2, <2>4, <2>5, SameKey
  <2> QED BY <2>1, <2>6 DEF Boarded
<1>3. ASSUME NEW key, NEW list, NEW todo, Leads(s, key, list, todo)
      PROVE  Boarded(s)'
  <2>1. /\ Purpose(s, key, list, todo) /\ flight'[s].key = key /\ flight'[s].list = list
        /\ req'[s].of = s /\ req'[s].q = req[s].q /\ req'[s].height = req[s].height
    BY <1>3 DEF Leads, Boards
  <2>2. AsksFor(req[s].q, req[s].height, key, list) BY <1>0, <2>1, PurposeAsks
  <2> QED BY <2>1, <2>2 DEF Boarded
<1> QED BY <1>1, <1>2, <1>3, OnBoard

\* A flight after a step: the same, for the same request, or begun just now,
\* or one call further.
LEMMA InFlight ==
  ASSUME Sound, Steps, NEW l \in Req, flight'[l].key # <<>>
  PROVE  \/ /\ Flying(l) /\ flight'[l] = flight[l]
            /\ req'[l].q = req[l].q /\ req'[l].height = req[l].height
         \/ \E key, list, todo : Leads(l, key, list, todo)
         \/ (\E block \in Height : Reads(l, block)) \/ Replans(l)
<1>0. /\ Typed /\ \A r \in Req : RequestSound(r) /\ FlightSound(r)
      /\ \A r \in Req : Flying(r) => At(r, "flight")
  BY DEF Sound, FlightSound
<1>1. CASE Ticks BY <1>1 DEF Ticks, Flying
<1>2. ASSUME NEW r \in Req,
             \/ Asks(r) \/ Turns(r) \/ Takes(r) \/ Skips(r)
             \/ \E k \in Req : \E key, list, todo : Joins(r, k, key, list, todo)
      PROVE  Flying(l) /\ flight'[l] = flight[l] /\ req'[l] = req[l]
  <2>1. Others(r) /\ flight' = flight /\ ~At(r, "flight")
    <3>1. CASE Asks(r) \/ Turns(r) \/ Takes(r) \/ Skips(r)
      BY <3>1 DEF Asks, Turns, Takes, Skips, Goes, At
    <3>2. CASE \E k \in Req : \E key, list, todo : Joins(r, k, key, list, todo)
      BY <1>0, <3>2, PurposeFacts DEF Joins, Boards, At
    <3> QED BY <1>2, <3>1, <3>2
  <2> QED BY <1>0, <2>1 DEF Others, Flying
<1>3. ASSUME NEW r \in Req, r # l, NEW key, NEW list, NEW todo,
             Leads(r, key, list, todo)
      PROVE  Flying(l) /\ flight'[l] = flight[l] /\ req'[l] = req[l]
  BY <1>3 DEF Leads, Boards, Others, OtherFlights, Flying
<1>4. ASSUME NEW k \in Req, k # l, (\E block \in Height : Reads(k, block)) \/ Replans(k)
      PROVE  Flying(l) /\ flight'[l] = flight[l] /\ req'[l] = req[l]
  BY <1>4 DEF Reads, Replans, Flies, OtherFlights, Flying
<1>5. ASSUME NEW k \in Req, Fails(k) \/ Lands(k)
      PROVE  /\ Flying(l) /\ flight'[l] = flight[l]
             /\ req'[l].q = req[l].q /\ req'[l].height = req[l].height
  <2>1. Ends(k) BY <1>5 DEF Fails, Lands
  <2>2. k # l /\ flight'[l] = flight[l] BY <2>1 DEF Ends, OtherFlights
  <2>3. req'[l].q = req[l].q /\ req'[l].height = req[l].height BY <2>1 DEF Ends
  <2> QED BY <2>2, <2>3 DEF Flying
<1>6. CASE \E r \in Req : \/ Asks(r) \/ Turns(r) \/ Takes(r) \/ Skips(r)
                          \/ \E k \in Req : \E key, list, todo : Joins(r, k, key, list, todo)
  BY <1>2, <1>6
<1>7. CASE \E r \in Req : \E key, list, todo : Leads(r, key, list, todo) BY <1>3, <1>7
<1>8. CASE \E k \in Req : \/ \E block \in Height : Reads(k, block)
                          \/ Replans(k)
  BY <1>4, <1>8
<1>9. CASE \E k \in Req : Fails(k) \/ Lands(k) BY <1>5, <1>9
<1> QED BY <1>1, <1>6, <1>7, <1>8, <1>9 DEF Steps

----------------------------------------------------------------------------
\* The blocks that balances may be read at.  The calls of a TRON client name
\* no block: for a block number as the mode the node may still be behind it.

TronUnnumbered == \A q \in Query : q.chain = "TRON" => q.mode \notin DOMAIN Number

Allowed(q, h, alone) ==
  {b \in Blocks :
    \/ b = Zero
    \/ q.chain = "TRON" /\ ~TronUnnumbered
    \/ b >= h /\ ((alone = TRUE /\ q.chain \in Evm /\ q.mode = "") => b = h)}

Within(f, S) == \A x \in DOMAIN f : f[x] \in S

ValuesSound(r) ==
  /\ req[r].at \in {"new", "pick", "dial", "anchor"} =>
       DOMAIN req[r].native = {} /\ DOMAIN req[r].tokens = {}
  /\ req[r].at \in {"native", "tokens", "flight", "answered"} =>
       /\ Within(req[r].native, Allowed(req[r].q, req[r].height, req[r].alone))
       /\ Within(req[r].tokens, Allowed(req[r].q, req[r].height, req[r].alone))

OutSound(l) ==
  Flying(l) => Within(flight[l].out, Allowed(req[l].q, req[l].height, TRUE))

LEMMA NotedWithin ==
  ASSUME NEW f, NEW items, NEW failed, NEW block, NEW A,
         Zero \in A, block \in A, Within(f, A)
  PROVE  Within(Noted(f, items, failed, block), A)
BY DEF Within, Noted

LEMMA BlockAllowed ==
  ASSUME Sound, NEW l \in Req, Flying(l), NEW block \in Height, Answers(l, block)
  PROVE  block \in Allowed(req[l].q, req[l].height, TRUE)
<1> DEFINE q == req[l].q
           h == req[l].height
<1>0. Typed /\ RequestSound(l) /\ FlightSound(l) BY DEF Sound
<1>1. q \in Query /\ q.chain \in Chain /\ Reached(q, h) /\ h \in Height
  BY <1>0 DEF FlightSound, RequestSound, At, Typed, Request
<1>2. \A c \in Chain : head[c] \in Height /\ settled[c] \in Height BY <1>0 DEF Typed
<1>3. block \in Blocks BY DEF Blocks
<1>4. \A x, y \in Height : (x <= y <=> y >= x) /\ x >= x /\ x >= 0 BY DEF Height
<1>5. CASE q.chain \in Evm /\ q.chain # "SOLANA" /\ q.chain # "TRON" /\ Hows(q.chain) = EvmHow
  <2>1. block = EvmBlock(l) BY <1>5 DEF Answers
  <2>2. CASE q.mode = "latest"
    <3>1. block = head[q.chain] BY <2>1, <2>2 DEF EvmBlock
    <3>2. h <= head[q.chain] BY <1>1, <1>5, <2>2 DEF Reached
    <3>3. block >= h BY <1>1, <1>2, <1>4, <3>1, <3>2
    <3> QED BY <1>3, <2>2, <3>3 DEF Allowed
  <2>3. CASE q.mode \in {"safe", "finalized"}
    <3>1. block = settled[q.chain] BY <2>1, <2>3 DEF EvmBlock
    <3>2. h <= settled[q.chain] BY <1>1, <1>5, <2>3 DEF Reached
    <3>3. block >= h BY <1>1, <1>2, <1>4, <3>1, <3>2
    <3> QED BY <1>3, <2>3, <3>3 DEF Allowed
  <2>4. CASE q.mode \notin {"latest", "safe", "finalized"}
    <3>1. block = IF h = 0 THEN head[q.chain] ELSE h BY <2>1, <2>4 DEF EvmBlock
    <3>2. block >= h BY <1>1, <1>2, <1>4, <3>1
    <3>3. q.mode = "" => block = h
      <4>1. q.mode = "" => 1 <= h BY <1>1, <1>5 DEF Reached
      <4>2. 1 <= h => h # 0 OBVIOUS
      <4>3. h # 0 => block = h BY <3>1
      <4> QED BY <4>1, <4>2, <4>3, Zenon
    <3> QED BY <1>3, <3>2, <3>3 DEF Allowed
  <2> QED BY <2>2, <2>3, <2>4
<1>6. CASE q.chain = "SOLANA" /\ q.chain \notin Evm /\ Hows(q.chain) = SolHow
  <2>1. block = SolBlock(l) BY <1>6 DEF Answers
  <2>2. h <= block BY <1>1, <1>6, <2>1 DEF SolBlock, Reached
  <2> QED BY <1>1, <1>3, <1>4, <1>6, <2>2 DEF Allowed
<1>7. CASE q.chain = "TRON" /\ q.chain \notin Evm /\ Hows(q.chain) = TronHow
  <2>1. block = head["TRON"] BY <1>7 DEF Answers
  <2>2. CASE q.mode \notin DOMAIN Number
    <3>1. h <= block BY <1>1, <1>7, <2>1, <2>2 DEF Reached
    <3> QED BY <1>1, <1>3, <1>4, <1>7, <3>1 DEF Allowed
  <2>3. CASE q.mode \in DOMAIN Number
    <3>1. ~TronUnnumbered BY <1>1, <1>7, <2>3 DEF TronUnnumbered
    <3> QED BY <1>3, <1>7, <3>1 DEF Allowed
  <2> QED BY <2>2, <2>3
<1> QED BY <1>1, <1>5, <1>6, <1>7, ChainCases

LEMMA ValuesSteps ==
  ASSUME Sound, Steps, Typed', \A r \in Req : Boarded(r) /\ ValuesSound(r) /\ OutSound(r)
  PROVE  \A r \in Req : ValuesSound(r)' /\ OutSound(r)'
<1>0. /\ Typed /\ \A r \in Req : RequestSound(r) /\ FlightSound(r)
      /\ \A r \in Req : req[r].of \in Req /\ req[r].alone \in BOOLEAN
      /\ \A r \in Req : flight[r].todo \in Seq(Call(AnyHow)) /\ flight[r].out \in Readings
  BY DEF Sound, Typed, Request, Flight
<1>1. ASSUME NEW l \in Req, flight'[l].key # <<>> PROVE OutSound(l)'
  <2> DEFINE A == Allowed(req[l].q, req[l].height, TRUE)
  <2>1. CASE /\ Flying(l) /\ flight'[l] = flight[l]
             /\ req'[l].q = req[l].q /\ req'[l].height = req[l].height
    BY <2>1 DEF OutSound, Allowed, Within
  <2>2. CASE \E key, list, todo : Leads(l, key, list, todo)
    BY <2>2, EmptyReadings DEF Leads, OutSound, Within
  <2>3. CASE Replans(l)
    <3>1. Flying(l) /\ req' = req /\ (flight'[l].out = flight[l].out \/ flight'[l].out = Empty)
      BY <2>3 DEF Replans, Flies
    <3> QED BY <3>1, EmptyReadings DEF OutSound, Allowed, Within
  <2>4. ASSUME NEW block \in Height, Reads(l, block) PROVE OutSound(l)'
    <3>1. /\ Flying(l) /\ req' = req /\ Answers(l, block) /\ flight[l].todo # <<>>
      BY <2>4 DEF Reads, Flies
    <3> DEFINE items == ToSet(Head(flight[l].todo).items)
    <3>2. PICK failed : flight'[l].out = Noted(flight[l].out, items, failed, block)
      BY <2>4 DEF Reads
    <3>3. items \in SUBSET Item
      <4>1. Head(flight[l].todo) \in Call(AnyHow)
        <5>1. flight[l].todo \in Seq(Call(AnyHow)) BY <1>0
        <5> QED BY ONLY <3>1, <5>1, NextCall
      <4>2. Head(flight[l].todo).items \in Seq(Item) BY <4>1 DEF Call, Batch
      <4> QED BY <4>2 DEF ToSet
    <3> HIDE DEF items
    <3>4. block \in A /\ Zero \in A
      <4>1. block \in A BY <3>1, BlockAllowed
      <4>2. Zero \in Blocks BY DEF Blocks
      <4> QED BY <4>1, <4>2 DEF Allowed
    <3>5. Within(flight[l].out, A) BY <3>1 DEF OutSound
    <3> HIDE DEF A
    <3>7. Within(flight'[l].out, A)
      <4>1. Within(Noted(flight[l].out, items, failed, block), A)
        BY ONLY <3>4, <3>5, NotedWithin
      <4> QED BY <3>2, <4>1
    <3> QED BY <3>1, <3>7 DEF OutSound, A, Allowed, Within
  <2> QED BY <1>1, <2>1, <2>2, <2>3, <2>4, InFlight
<1>2. ASSUME NEW r \in Req, req'[r] = req[r] PROVE ValuesSound(r)'
  <2>1. ValuesSound(r) OBVIOUS
  <2> QED BY <1>2, <2>1 DEF ValuesSound, Allowed, Within
<1>3. ASSUME NEW r \in Req,
             \/ Asks(r) \/ Turns(r) \/ Takes(r) \/ Skips(r)
             \/ \E l \in Req : \E key, list, todo : Joins(r, l, key, list, todo)
             \/ \E key, list, todo : Leads(r, key, list, todo)
      PROVE  \A s \in Req : ValuesSound(s)'
  <2>1. Others(r) BY <1>3 DEF Asks, Turns, Takes, Skips, Goes, Joins, Leads, Boards
  <2>2. ValuesSound(r)'
    <3>0. ValuesSound(r) OBVIOUS
    <3>1. CASE Asks(r) BY <3>0, <3>1 DEF Asks, ValuesSound, At
    <3>2. CASE Turns(r) BY <3>0, <3>2 DEF Turns, Goes, ValuesSound, At
    <3>3. CASE Takes(r) BY <3>0, <3>3 DEF Takes, ValuesSound, At, Within
    <3>4. CASE Skips(r)
      <4>1. /\ Within(req[r].native, Allowed(req[r].q, req[r].height, req[r].alone))
            /\ Within(req[r].tokens, Allowed(req[r].q, req[r].height, req[r].alone))
        BY <3>0, <3>4 DEF Skips, ValuesSound, At
      <4>2. /\ Goes(r) /\ req'[r].at \in {"tokens", "answered"} BY <3>4 DEF Skips
      <4>3. /\ req'[r].q = req[r].q /\ req'[r].height = req[r].height
            /\ req'[r].alone = req[r].alone /\ req'[r].native = req[r].native
            /\ req'[r].tokens = req[r].tokens
        BY <4>2 DEF Goes
      <4>4. /\ Within(req'[r].native, Allowed(req'[r].q, req'[r].height, req'[r].alone))
            /\ Within(req'[r].tokens, Allowed(req'[r].q, req'[r].height, req'[r].alone))
        BY <4>1, <4>3
      <4> QED BY <4>2, <4>4 DEF ValuesSound, Within, Allowed
    <3>5. ASSUME NEW l \in Req, NEW key, NEW list, NEW todo,
                 Purpose(r, key, list, todo), Boards(r, l),
                 req'[r].alone = req[r].alone \/ req'[r].alone = FALSE
          PROVE  ValuesSound(r)'
      <4>1. req[r].at \in {"native", "tokens"} BY <1>0, <3>5, PurposeFacts
      <4>2. /\ Within(req[r].native, Allowed(req[r].q, req[r].height, req[r].alone))
            /\ Within(req[r].tokens, Allowed(req[r].q, req[r].height, req[r].alone))
        BY <3>0, <4>1 DEF ValuesSound
      <4>3. Allowed(req[r].q, req[r].height, req[r].alone)
              \subseteq Allowed(req'[r].q, req'[r].height, req'[r].alone)
        BY <3>5 DEF Boards, Allowed
      <4> HIDE DEF Allowed
      <4>4. /\ req'[r].at = "flight" /\ req'[r].native = req[r].native
            /\ req'[r].tokens = req[r].tokens
        BY <3>5 DEF Boards
      <4>5. /\ Within(req'[r].native, Allowed(req'[r].q, req'[r].height, req'[r].alone))
            /\ Within(req'[r].tokens, Allowed(req'[r].q, req'[r].height, req'[r].alone))
        BY <4>2, <4>3, <4>4 DEF Within
      <4> QED BY <4>4, <4>5 DEF ValuesSound, Within, Allowed
    <3>6. CASE \E l \in Req : \E key, list, todo : Joins(r, l, key, list, todo)
      BY <3>5, <3>6 DEF Joins
    <3>7. CASE \E key, list, todo : Leads(r, key, list, todo)
      BY <3>5, <3>7 DEF Leads
    <3> QED BY <1>3, <3>1, <3>2, <3>3, <3>4, <3>6, <3>7
  <2> QED BY <1>2, <2>1, <2>2 DEF Others
<1>4. ASSUME NEW l \in Req, Fails(l) \/ Lands(l), NEW r \in Aboard(l)
      PROVE  ValuesSound(r)'
  <2>0. r \in Req /\ At(r, "flight") /\ req[r].of = l /\ Flying(l) /\ ValuesSound(r)
    BY <1>4 DEF Aboard, Fails, Lands, Ends
  <2>1. CASE Fails(l) BY <1>4, <2>1 DEF Fails, ValuesSound
  <2>2. CASE Lands(l)
    <3> DEFINE A == Allowed(req[r].q, req[r].height, req[r].alone)
    <3>1. At(l, "flight") /\ req[l].of = l BY <1>0, <2>0 DEF FlightSound
    <3>2. req[r].q.chain = req[l].q.chain /\ req[r].height = req[l].height
      BY <2>0, <3>1, KeyParts DEF Boarded
    <3>3. Allowed(req[l].q, req[l].height, TRUE) \subseteq A
      <4>1. CASE req[r].alone = TRUE
        <5>1. r = l BY <1>0, <2>0, <4>1 DEF RequestSound
        <5> QED BY <4>1, <5>1
      <4>2. CASE req[r].alone = FALSE BY <3>2, <4>2 DEF Allowed
      <4> QED BY <1>0, <2>0, <4>1, <4>2
    <3>4. Within(flight[l].out, Allowed(req[l].q, req[l].height, TRUE))
      BY <2>0 DEF OutSound
    <3>5. Within(flight[l].out, A) BY <3>3, <3>4 DEF Within
    <3>6. Within(req[r].native, A) /\ Within(req[r].tokens, A)
      BY <2>0 DEF ValuesSound, At
    <3>7. /\ req'[r].q = req[r].q /\ req'[r].height = req[r].height
          /\ req'[r].alone = req[r].alone
      BY <1>4, <2>2 DEF Lands, Ends
    <3>8. /\ req'[r].at \in {"tokens", "answered"}
          /\ req'[r].native \in {req[r].native, flight[l].out}
          /\ req'[r].tokens \in {req[r].tokens, flight[l].out}
      BY <1>4, <2>2 DEF Lands
    <3> HIDE DEF A
    <3>9. Within(req'[r].native, A) /\ Within(req'[r].tokens, A)
      BY <3>5, <3>6, <3>8
    <3> QED BY <3>7, <3>8, <3>9 DEF A, ValuesSound, Within, Allowed
  <2> QED BY <1>4, <2>1, <2>2
<1>5. ASSUME NEW l \in Req, Fails(l) \/ Lands(l) PROVE \A s \in Req : ValuesSound(s)'
  BY <1>2, <1>4, <1>5 DEF Fails, Lands, Ends
<1>6. ASSUME \/ Ticks
             \/ \E l \in Req : (\E block \in Height : Reads(l, block)) \/ Replans(l)
      PROVE  \A s \in Req : ValuesSound(s)'
  <2>1. req' = req BY <1>6 DEF Ticks, Reads, Replans, Flies
  <2> QED BY <1>2, <2>1
<1>7. \A s \in Req : ValuesSound(s)'
  <2>1. CASE \E r \in Req : \/ Asks(r) \/ Turns(r) \/ Takes(r) \/ Skips(r)
                            \/ \E l \in Req : \E key, list, todo : Joins(r, l, key, list, todo)
                            \/ \E key, list, todo : Leads(r, key, list, todo)
    BY <1>3, <2>1
  <2>2. CASE \E l \in Req : Fails(l) \/ Lands(l) BY <1>5, <2>2
  <2> QED BY <1>6, <2>1, <2>2 DEF Steps
<1>8. \A l \in Req : OutSound(l)' BY <1>1 DEF OutSound, Flying
<1> QED BY <1>7, <1>8

----------------------------------------------------------------------------
\* What is read is what was asked for, all of it and nothing else.

OutCovers(l) ==
  Flying(l) =>
    LeftOf(flight[l].todo) \cup DOMAIN flight[l].out = ToSet(flight[l].list)

CoverSound(r) ==
  /\ \/ req[r].at \in {"tokens", "answered"}
     \/ At(r, "flight") /\ flight[req[r].of].key[1] # "nb"
     => ToSet(req[r].q.addrs) \subseteq DOMAIN req[r].native
  /\ req[r].at \notin {"answered", "refused"} => DOMAIN req[r].tokens = {}
  /\ (At(r, "answered") /\ DistinctMints /\ req[r].q.chain # "TRON") =>
       DOMAIN req[r].tokens = Pairs(req[r].q)

LEMMA OutSteps ==
  ASSUME Sound, Steps, \A r \in Req : OutCovers(r)
  PROVE  \A r \in Req : OutCovers(r)'
<1>0. Typed /\ \A r \in Req : RequestSound(r) /\ FlightSound(r) BY DEF Sound
<1> SUFFICES ASSUME NEW l \in Req, flight'[l].key # <<>> PROVE OutCovers(l)'
  BY DEF OutCovers, Flying
<1>1. CASE Flying(l) /\ flight'[l] = flight[l] BY <1>1 DEF OutCovers, LeftOf
<1>2. ASSUME NEW key, NEW list, NEW todo, Leads(l, key, list, todo) PROVE OutCovers(l)'
  <2>1. /\ flight'[l].todo = todo /\ flight'[l].list = list /\ flight'[l].out = Empty
        /\ Purpose(l, key, list, todo)
    BY <1>2 DEF Leads
  <2>2. LeftOf(todo) = ToSet(list) BY <1>0, <2>1, PurposeFacts
  <2>3. LeftOf(flight'[l].todo) \cup DOMAIN flight'[l].out = ToSet(flight'[l].list)
    BY <2>1, <2>2, EmptyReadings
  <2> QED BY <2>3 DEF OutCovers, LeftOf
<1>3. CASE Replans(l)
  <2>1. /\ Flying(l) /\ flight'[l].list = flight[l].list
        /\ \/ LeftOf(flight'[l].todo) = ToSet(flight[l].list) /\ flight'[l].out = Empty
           \/ /\ LeftOf(flight'[l].todo) = LeftOf(flight[l].todo)
              /\ flight'[l].out = flight[l].out
    BY <1>3 DEF Replans, Flies
  <2>2. LeftOf(flight[l].todo) \cup DOMAIN flight[l].out = ToSet(flight[l].list)
    BY <2>1 DEF OutCovers
  <2>3. LeftOf(flight'[l].todo) \cup DOMAIN flight'[l].out = ToSet(flight'[l].list)
    BY <2>1, <2>2, EmptyReadings
  <2> QED BY <2>3 DEF OutCovers, LeftOf
<1>4. ASSUME NEW block \in Height, Reads(l, block) PROVE OutCovers(l)'
  <2> DEFINE todo == flight[l].todo
             items == ToSet(Head(todo).items)
  <2>1. /\ Flying(l) /\ flight'[l].list = flight[l].list /\ todo # <<>>
        /\ flight'[l].todo = Tail(todo)
    BY <1>4 DEF Reads, Flies
  <2>2. PICK failed : flight'[l].out = Noted(flight[l].out, items, failed, block)
    BY <1>4 DEF Reads
  <2>3. LeftOf(todo) = items \cup LeftOf(Tail(todo))
    <3>1. todo \in Seq(Call(AnyHow)) BY <1>0 DEF Typed, Flight
    <3> QED BY ONLY <2>1, <3>1, NextCall
  <2>4. LeftOf(todo) \cup DOMAIN flight[l].out = ToSet(flight[l].list)
    BY <2>1 DEF OutCovers
  <2> HIDE DEF todo, items
  <2>5. DOMAIN flight'[l].out = items \cup DOMAIN flight[l].out BY <2>2 DEF Noted
  <2>6. LeftOf(flight'[l].todo) \cup DOMAIN flight'[l].out = ToSet(flight'[l].list)
    BY <2>1, <2>3, <2>4, <2>5
  <2> QED BY <2>6 DEF OutCovers, LeftOf
<1> QED BY <1>1, <1>2, <1>3, <1>4, InFlight

LEMMA CoverStill ==
  ASSUME NEW r \in Req, CoverSound(r), req'[r] = req[r],
         At(r, "flight") => flight'[req[r].of].key = flight[req[r].of].key
  PROVE  CoverSound(r)'
BY DEF CoverSound, At

LEMMA CoverSteps ==
  ASSUME Sound, Steps, \A r \in Req : Boarded(r) /\ OutCovers(r) /\ CoverSound(r)
  PROVE  \A r \in Req : CoverSound(r)'
<1>0. Typed /\ \A r \in Req : RequestSound(r) /\ FlightSound(r) BY DEF Sound
<1>1. ASSUME NEW r \in Req, req'[r] = req[r] PROVE CoverSound(r)'
  <2>1. ASSUME At(r, "flight") PROVE flight'[req[r].of].key = flight[req[r].of].key
    <3>1. req'[r].at = "flight" BY <1>1, <2>1 DEF At
    <3>2. ASSUME NEW key, NEW list, NEW todo PROVE ~Purpose(r, key, list, todo)
      BY <1>0, <2>1, PurposeFacts DEF At
    <3> QED BY <3>1, <3>2, OnBoard DEF Joins, Leads
  <2> QED BY <1>1, <2>1, CoverStill
<1>2. ASSUME NEW r \in Req, Asks(r) \/ Turns(r) \/ Takes(r) \/ Skips(r)
      PROVE  Others(r) /\ CoverSound(r)'
  <2>0. CoverSound(r) OBVIOUS
  <2>1. CASE Asks(r) BY <2>0, <2>1 DEF Asks, CoverSound, At
  <2>2. CASE Turns(r) BY <2>0, <2>2 DEF Turns, Goes, CoverSound, At
  <2>3. CASE Takes(r) BY <2>0, <2>3 DEF Takes, CoverSound, At
  <2>4. CASE Skips(r)
    <3>1. /\ Others(r) /\ req'[r].q = req[r].q /\ req'[r].native = req[r].native
          /\ req'[r].tokens = req[r].tokens
      BY <2>4 DEF Skips, Goes
    <3>2. DOMAIN req[r].tokens = {} BY <2>0, <2>4 DEF Skips, CoverSound, At
    <3>3. CASE At(r, "native") /\ req'[r].at = "tokens" /\ ToSet(req[r].q.addrs) = {}
      BY <3>1, <3>2, <3>3 DEF CoverSound, At
    <3>4. CASE At(r, "tokens") /\ req'[r].at = "answered" /\ Pairs(req[r].q) = {}
      <4>1. ToSet(req[r].q.addrs) \subseteq DOMAIN req[r].native
        BY <2>0, <3>4 DEF CoverSound, At
      <4>2. DOMAIN req'[r].tokens = Pairs(req'[r].q) BY <3>1, <3>2, <3>4
      <4> QED BY <3>1, <3>4, <4>1, <4>2 DEF CoverSound, At, Pairs, PairsFor
    <3> QED BY <2>4, <3>1, <3>3, <3>4 DEF Skips
  <2> QED BY <1>2, <2>1, <2>2, <2>3, <2>4
<1>3. ASSUME NEW r \in Req, NEW l \in Req, NEW key, NEW list, NEW todo,
             Purpose(r, key, list, todo), Boards(r, l), flight'[l].key = key
      PROVE  CoverSound(r)'
  <2>0. CoverSound(r) OBVIOUS
  <2>1. /\ req'[r].at = "flight" /\ req'[r].of = l /\ req'[r].q = req[r].q
        /\ req'[r].native = req[r].native /\ req'[r].tokens = req[r].tokens
    BY <1>3 DEF Boards
  <2>2. DOMAIN req[r].tokens = {}
    <3>1. req[r].at \in {"native", "tokens"} BY <1>0, <1>3, PurposeFacts
    <3> QED BY <2>0, <3>1 DEF CoverSound
  <2>3. key[1] # "nb" => ToSet(req[r].q.addrs) \subseteq DOMAIN req[r].native
    <3>1. CASE NativePurpose(r, key, list, todo)
      <4>1. key = NativeKey(req[r].q, req[r].height) BY <3>1 DEF NativePurpose
      <4>2. key[1] = "nb" BY <4>1 DEF NativeKey
      <4> QED BY <4>2
    <3>2. CASE \E order, again : TokenPurpose(r, key, list, todo, order, again)
      <4>1. At(r, "tokens") BY <3>2 DEF TokenPurpose
      <4> QED BY <2>0, <4>1 DEF CoverSound, At
    <3> QED BY <1>3, <3>1, <3>2 DEF Purpose
  <2> QED BY <1>3, <2>1, <2>2, <2>3 DEF CoverSound, At
<1>4. ASSUME NEW l \in Req, Fails(l) \/ Lands(l), NEW r \in Aboard(l)
      PROVE  CoverSound(r)'
  <2>0. r \in Req /\ At(r, "flight") /\ req[r].of = l /\ Flying(l) /\ CoverSound(r)
    BY <1>4 DEF Aboard, Fails, Lands, Ends
  <2>1. CASE Fails(l) BY <1>4, <2>1 DEF Fails, CoverSound, At
  <2>2. CASE Lands(l)
    <3>1. flight[l].todo = <<>> /\ req'[r].q = req[r].q BY <1>4, <2>2 DEF Lands, Ends
    <3>2. DOMAIN flight[l].out = ToSet(flight[l].list)
      <4>1. LeftOf(<<>>) = {} BY DEF LeftOf
      <4> QED BY <2>0, <3>1, <4>1 DEF OutCovers
    <3>3. AsksFor(req[r].q, req[r].height, flight[l].key, flight[l].list)
      BY <2>0 DEF Boarded
    <3>4. DOMAIN req[r].tokens = {} BY <2>0 DEF CoverSound, At
    <3>5. CASE flight[l].key[1] = "nb"
      <4>1. /\ req'[r].at = "tokens" /\ req'[r].native = flight[l].out
            /\ req'[r].tokens = req[r].tokens
        BY <1>4, <2>2, <3>5 DEF Lands
      <4>2. flight[l].list = req[r].q.addrs BY <3>3, <3>5, KeyParts
      <4> QED BY <3>1, <3>2, <3>4, <4>1, <4>2 DEF CoverSound, At
    <3>6. CASE flight[l].key[1] # "nb"
      <4>1. /\ req'[r].at = "answered" /\ req'[r].tokens = flight[l].out
            /\ req'[r].native = req[r].native
        BY <1>4, <2>2, <3>6 DEF Lands
      <4>2. (DistinctMints /\ req[r].q.chain # "TRON") =>
              ToSet(flight[l].list) = Pairs(req[r].q)
        BY <3>3, <3>6, KeyParts
      <4>3. ToSet(req[r].q.addrs) \subseteq DOMAIN req[r].native
        BY <2>0, <3>6 DEF CoverSound
      <4>4. (DistinctMints /\ req[r].q.chain # "TRON") =>
              DOMAIN req'[r].tokens = Pairs(req'[r].q)
        BY <3>1, <3>2, <4>1, <4>2
      <4> QED BY <3>1, <4>1, <4>3, <4>4 DEF CoverSound, At, Pairs, PairsFor, DistinctMints, Owners
    <3> QED BY <3>5, <3>6
  <2> QED BY <1>4, <2>1, <2>2
<1> SUFFICES ASSUME NEW s \in Req PROVE CoverSound(s)' OBVIOUS
<1>5. CASE \/ Ticks
           \/ \E l \in Req : (\E block \in Height : Reads(l, block)) \/ Replans(l)
  <2>1. req' = req BY <1>5 DEF Ticks, Reads, Replans, Flies
  <2> QED BY <1>1, <2>1
<1>6. CASE \E r \in Req : Asks(r) \/ Turns(r) \/ Takes(r) \/ Skips(r)
  BY <1>1, <1>2, <1>6 DEF Others
<1>7. CASE \E r, l \in Req : \E key, list, todo : Joins(r, l, key, list, todo)
  BY <1>1, <1>3, <1>7 DEF Joins, Boards, Others
<1>8. CASE \E r \in Req : \E key, list, todo : Leads(r, key, list, todo)
  BY <1>1, <1>3, <1>8 DEF Leads, Boards, Others
<1>9. CASE \E l \in Req : Fails(l) \/ Lands(l)
  BY <1>1, <1>4, <1>9 DEF Fails, Lands, Ends
<1> QED BY <1>5, <1>6, <1>7, <1>8, <1>9 DEF Steps

----------------------------------------------------------------------------
\* All together.

Shared == /\ Sound
          /\ \A r \in Req : /\ Boarded(r) /\ ValuesSound(r) /\ OutSound(r)
                            /\ OutCovers(r) /\ CoverSound(r)

LEMMA SharedAlways == Spec => []Shared
<1>1. Init => Shared
  <2> SUFFICES ASSUME Init PROVE Shared OBVIOUS
  <2>1. Sound BY InitSound
  <2>2. ASSUME NEW r \in Req
        PROVE  /\ At(r, "new") /\ ~Flying(r)
               /\ req[r].native = Empty /\ req[r].tokens = Empty
    BY DEF Init, At, Flying, NoFlight
  <2>3. ASSUME NEW r \in Req
        PROVE  Boarded(r) /\ ValuesSound(r) /\ OutSound(r) /\ OutCovers(r) /\ CoverSound(r)
    BY <2>2, EmptyReadings DEF Boarded, ValuesSound, OutSound, OutCovers, CoverSound, At
  <2> QED BY <2>1, <2>3 DEF Shared
<1>2. Shared /\ [Next]_vars => Shared'
  <2> SUFFICES ASSUME Shared, [Next]_vars PROVE Shared' OBVIOUS
  <2>1. Sound /\ Steps /\ Typed' /\ Sound' BY SoundNext DEF Shared
  <2>2. \A r \in Req : /\ Boarded(r) /\ ValuesSound(r) /\ OutSound(r)
                       /\ OutCovers(r) /\ CoverSound(r)
    BY DEF Shared
  <2>3. \A r \in Req : Boarded(r)' BY <2>1, <2>2, BoardedSteps
  <2>4. \A r \in Req : ValuesSound(r)' /\ OutSound(r)' BY <2>1, <2>2, ValuesSteps
  <2>5. \A r \in Req : OutCovers(r)' BY <2>1, <2>2, OutSteps
  <2>6. \A r \in Req : CoverSound(r)' BY <2>1, <2>2, CoverSteps
  <2> QED BY <2>1, <2>3, <2>4, <2>5, <2>6 DEF Shared
<1> QED BY <1>1, <1>2, PTL DEF Spec

\* No balance of an answer is older than the anchor the answer names, whoever
\* read it, as long as no TRON query names a block number: a TRON node is not
\* told the number and answers with the block it has.
THEOREM NothingOlderThanTheAnchor ==
  ASSUME TronUnnumbered
  PROVE  Spec => []NotBeforeAnchor
<1>1. Shared => NotBeforeAnchor
  <2> SUFFICES ASSUME Shared, NEW r \in Req, At(r, "answered"),
                      NEW f \in {req[r].native, req[r].tokens}, NEW x \in DOMAIN f
               PROVE  f[x] = Zero \/ f[x] >= req[r].height
    BY DEF NotBeforeAnchor
  <2>1. ValuesSound(r) BY DEF Shared
  <2>2. Within(f, Allowed(req[r].q, req[r].height, req[r].alone))
    BY <2>1 DEF ValuesSound, At
  <2> QED BY <2>2 DEF Within, Allowed
<1> QED BY SharedAlways, <1>1, PTL

\* In an EVM query without a mode that shared no flight of another, all the
\* balances are of one block, the anchor's.
THEOREM OneBlockForAll == Spec => []AloneIsSnapshot
<1>1. Shared => AloneIsSnapshot
  <2> SUFFICES ASSUME Shared, NEW r \in Req, At(r, "answered"), req[r].alone,
                      req[r].q.chain \in Evm, req[r].q.mode = "",
                      NEW f \in {req[r].native, req[r].tokens}, NEW x \in DOMAIN f
               PROVE  f[x] \in {Zero, req[r].height}
    BY DEF AloneIsSnapshot
  <2>1. ValuesSound(r) /\ req[r].alone \in BOOLEAN
    BY DEF Shared, Sound, Typed, Request
  <2>2. req[r].alone = TRUE BY <2>1
  <2>3. f[x] \in Allowed(req[r].q, req[r].height, TRUE)
    BY <2>1, <2>2 DEF ValuesSound, At, Within
  <2>4. req[r].q.chain # "TRON" BY Bounds
  <2> QED BY <2>3, <2>4 DEF Allowed
<1> QED BY SharedAlways, <1>1, PTL

\* Nobody names an address in two spellings.
OneSpelling ==
  \A q \in Query : q.chain \in Evm =>
    \A x, y \in ToSet(q.addrs) \cup DOMAIN q.tokens : Hex[x] = Hex[y] => x = y

LEMMA PairsOfAddress ==
  ASSUME OneSpelling, NEW q \in Query, NEW a \in ToSet(q.addrs),
         Spelling(q.chain, a) = a
  PROVE  {x[1] : x \in {y \in Pairs(q) : y[2] = a}} =
           {Spelling(q.chain, t) : t \in ToSet(TokensOf(q, a))}
<1> DEFINE S(t) == Spelling(q.chain, t)
           L == {x[1] : x \in {y \in Pairs(q) : y[2] = a}}
           R == {S(t) : t \in ToSet(TokensOf(q, a))}
<1>1. ASSUME NEW b \in DOMAIN q.tokens, S(b) = a PROVE b = a
  <2>1. CASE q.chain \in Evm
    <3>1. Hex[b] = a /\ Hex[a] = a BY <1>1, <2>1 DEF Spelling
    <3> QED BY <2>1, <3>1 DEF OneSpelling
  <2>2. CASE q.chain \notin Evm BY <1>1, <2>2 DEF Spelling
  <2> QED BY <2>1, <2>2
<1>2. \A y \in Pairs(q) : \E b \in DOMAIN q.tokens : \E t \in ToSet(q.tokens[b]) :
        y = <<S(t), S(b)>>
  BY DEF Pairs, PairsFor
<1>3. \A b \in DOMAIN q.tokens : \A t \in ToSet(q.tokens[b]) : <<S(t), S(b)>> \in Pairs(q)
  BY DEF Pairs, PairsFor
<1>4. S(a) = a OBVIOUS
<1> HIDE DEF S
<1>5. ASSUME NEW z \in L PROVE z \in R
  <2>1. PICK y \in Pairs(q) : y[2] = a /\ z = y[1] OBVIOUS
  <2>2. PICK b \in DOMAIN q.tokens : \E t \in ToSet(q.tokens[b]) : y = <<S(t), S(b)>>
    BY <1>2
  <2>5. PICK t \in ToSet(q.tokens[b]) : y = <<S(t), S(b)>> BY <2>2
  <2>3. S(b) = a /\ z = S(t) BY <2>1, <2>5
  <2>4. b = a BY <1>1, <2>3
  <2> QED BY <2>2, <2>3, <2>4 DEF TokensOf
<1>6. ASSUME NEW z \in R PROVE z \in L
  <2>1. PICK t \in ToSet(TokensOf(q, a)) : z = S(t) OBVIOUS
  <2>2. a \in DOMAIN q.tokens
    <3>1. ToSet(<<>>) = {} BY DEF ToSet
    <3> QED BY <2>1, <3>1 DEF TokensOf
  <2>3. t \in ToSet(q.tokens[a]) BY <2>1, <2>2 DEF TokensOf
  <2>4. <<S(t), a>> \in Pairs(q) BY <1>3, <1>4, <2>2, <2>3
  <2>5. <<S(t), a>>[1] = z /\ <<S(t), a>>[2] = a BY <2>1
  <2> QED BY <2>4, <2>5
<1> QED BY <1>5, <1>6 DEF S

\* An EVM or SOLANA answer has a native balance for every address of the
\* list and, for each, the tokens asked for it and no others, though another
\* request may have read them: for queries that do not spell an address twice
\* and do not ask for an owner's address as a token.
THEOREM AnswersAreToTheQuestion ==
  ASSUME OneSpelling, DistinctMints
  PROVE  Spec => []AnswersTheQuestion
<1>1. Shared => AnswersTheQuestion
  <2> SUFFICES ASSUME Shared, NEW r \in Req, At(r, "answered"),
                      req[r].q.chain # "TRON"
               PROVE  Answered(r)
    BY DEF AnswersTheQuestion
  <2> DEFINE q == req[r].q
  <2>1. CoverSound(r) /\ RequestSound(r) /\ req[r].native \in Readings
    BY DEF Shared, Sound, Typed, Request
  <2>2. q \in Query BY <2>1 DEF RequestSound, At
  <2>3. /\ ToSet(q.addrs) \subseteq DOMAIN req[r].native
        /\ DOMAIN req[r].tokens = Pairs(q)
    BY <2>1 DEF CoverSound, At
  <2>4. \A x \in DOMAIN req[r].native : req[r].native[x] # None
    BY <2>1, ReadingsFacts, Bounds
  <2> SUFFICES ASSUME NEW a \in ToSet(q.addrs)
               PROVE  /\ Result(r)[a].native # None
                      /\ Spelling(q.chain, a) = a =>
                           Result(r)[a].tokens =
                             {Spelling(q.chain, t) : t \in ToSet(TokensOf(q, a))}
    BY DEF Answered
  <2>5. Result(r)[a] =
          [native |-> req[r].native[a],
           tokens |-> {x[1] : x \in {y \in DOMAIN req[r].tokens : y[2] = a}}]
    BY <2>3 DEF Result
  <2>6. Result(r)[a].native # None BY <2>3, <2>4, <2>5
  <2>7. ASSUME Spelling(q.chain, a) = a
        PROVE  Result(r)[a].tokens =
                 {Spelling(q.chain, t) : t \in ToSet(TokensOf(q, a))}
    <3>1. Result(r)[a].tokens = {x[1] : x \in {y \in Pairs(q) : y[2] = a}}
      BY <2>3, <2>5
    <3> HIDE DEF q
    <3> QED BY <2>2, <2>7, <3>1, PairsOfAddress
  <2> QED BY <2>6, <2>7
<1> QED BY SharedAlways, <1>1, PTL
=============================================================================
