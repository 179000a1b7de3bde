------------------------- MODULE WalletCreateProofs -------------------------
(***************************************************************************)
(* WalletCreate for any number of requests, tenants, chains and rows.      *)
(***************************************************************************)
EXTENDS WalletCreate, FiniteSetTheorems, SequenceTheorems, TLAPS

\* Joining tuples.
LEMMA Join32 ==
  ASSUME NEW a, NEW b, NEW c, NEW d, NEW e
  PROVE  <<a, b, c>> \o <<d, e>> = <<a, b, c, d, e>>
<1> DEFINE S == {a, b, c, d, e}
<1>0. a \in S /\ b \in S /\ c \in S /\ d \in S /\ e \in S OBVIOUS
<1> HIDE DEF S
<1>1. /\ <<a, b, c>> \in Seq(S) /\ <<d, e>> \in Seq(S)
      /\ <<a, b, c, d, e>> \in Seq(S)
  BY <1>0
<1>2. /\ Len(<<a, b, c>> \o <<d, e>>) = 5 /\ <<a, b, c>> \o <<d, e>> \in Seq(S)
      /\ Len(<<a, b, c, d, e>>) = 5
  BY <1>1
<1>3. \A k \in 1..5 : (<<a, b, c>> \o <<d, e>>)[k] = <<a, b, c, d, e>>[k] BY <1>1
<1>4. QED BY <1>1, <1>2, <1>3, SeqEqual

LEMMA Join42 ==
  ASSUME NEW a, NEW b, NEW c, NEW d, NEW e, NEW f
  PROVE  <<a, b, c, d>> \o <<e, f>> = <<a, b, c, d, e, f>>
<1> DEFINE S == {a, b, c, d, e, f}
<1>0. a \in S /\ b \in S /\ c \in S /\ d \in S /\ e \in S /\ f \in S OBVIOUS
<1> HIDE DEF S
<1>1. /\ <<a, b, c, d>> \in Seq(S) /\ <<e, f>> \in Seq(S)
      /\ <<a, b, c, d, e, f>> \in Seq(S)
  BY <1>0
<1>2. /\ Len(<<a, b, c, d>> \o <<e, f>>) = 6 /\ <<a, b, c, d>> \o <<e, f>> \in Seq(S)
      /\ Len(<<a, b, c, d, e, f>>) = 6
  BY <1>1
<1>3. \A k \in 1..6 : (<<a, b, c, d>> \o <<e, f>>)[k] = <<a, b, c, d, e, f>>[k] BY <1>1
<1>4. QED BY <1>1, <1>2, <1>3, SeqEqual

LEMMA Join15 ==
  ASSUME NEW a, NEW b, NEW c, NEW d, NEW e, NEW f
  PROVE  <<a>> \o <<b, c, d, e, f>> = <<a, b, c, d, e, f>>
<1> DEFINE S == {a, b, c, d, e, f}
<1>0. a \in S /\ b \in S /\ c \in S /\ d \in S /\ e \in S /\ f \in S OBVIOUS
<1> HIDE DEF S
<1>1. /\ <<a>> \in Seq(S) /\ <<b, c, d, e, f>> \in Seq(S)
      /\ <<a, b, c, d, e, f>> \in Seq(S)
  BY <1>0
<1>2. /\ Len(<<a>> \o <<b, c, d, e, f>>) = 6 /\ <<a>> \o <<b, c, d, e, f>> \in Seq(S)
      /\ Len(<<a, b, c, d, e, f>>) = 6
  BY <1>1
<1>3. \A k \in 1..6 : (<<a>> \o <<b, c, d, e, f>>)[k] = <<a, b, c, d, e, f>>[k] BY <1>1
<1>4. QED BY <1>1, <1>2, <1>3, SeqEqual

LEMMA WordIsNat == ASSUME NEW n \in Nat PROVE Word(n) \in Nat
BY WalletAssumption DEF Word

\* Nothing is cut off a number of 31 bits.
LEMMA ShortWord ==
  ASSUME NEW n \in Nat, n < Half
  PROVE  Word(n) = n /\ Hardened(n) = n + Half
<1>1. n % (2 * Half) = n BY WalletAssumption
<1>2. (n + Half) % (2 * Half) = n + Half BY WalletAssumption
<1>3. QED BY <1>1, <1>2 DEF Word, Hardened

LEMMA KeyIsKey ==
  ASSUME NEW t \in Tenant, NEW n \in Chain, NEW id
  PROVE  KeyOf(t, n, id) \in Key
<1>1. t \in Nat /\ CoinType[n] \in Nat /\ Half \in Nat BY WalletAssumption
<1>2. Hardened(44) \in Nat /\ Hardened(CoinType[n]) \in Nat /\ Hardened(Word(t)) \in Nat
  BY <1>1, WordIsNat DEF Hardened
<1>3. QED BY <1>1, <1>2 DEF KeyOf, Key

LEMMA PathIsPath ==
  ASSUME NEW t \in Tenant, NEW n \in Chain, NEW i \in Index
  PROVE  PathOf(t, n, i) \in Path
<1>1. t \in Nat /\ CoinType[n] \in Nat /\ i \in Nat BY WalletAssumption DEF Index
<1>2. Word(t) \in Nat BY <1>1, WordIsNat
<1>3. Account(t, n) \in Path BY <1>1, <1>2 DEF Account, Prime, Path
<1>4. /\ <<Plain(0), Plain(i)>> \in Path /\ <<Prime(0)>> \in Path
      /\ <<Prime(0), Prime(i)>> \in Path
  BY <1>1 DEF Plain, Prime, Path
<1>5. PICK q \in Path : PathOf(t, n, i) = Account(t, n) \o q BY <1>4 DEF PathOf
<1>6. QED BY <1>3, <1>5, ConcatProperties DEF Path

LEMMA FollowIsKey ==
  ASSUME NEW t \in Tenant, NEW p \in Path
  PROVE  Follow(t, p) \in Key
<1>1. t \in Nat /\ Half \in Nat BY WalletAssumption
<1>2. p \in Seq([num : Nat, prime : BOOLEAN]) BY DEF Path
<1>3. DOMAIN p = 1..Len(p) /\ Len(p) \in Nat BY <1>2, LenProperties
<1>4. ASSUME NEW k \in 1..Len(p)
      PROVE  p[k].num + (IF p[k].prime THEN Half ELSE 0) \in Nat
  <2>1. p[k] \in [num : Nat, prime : BOOLEAN] BY <1>2, ElementOfSeq
  <2>2. QED BY <1>1, <2>1
<1>5. Parsed(p) \in Seq(Nat) BY <1>3, <1>4 DEF Parsed
<1>6. QED BY <1>1, <1>5, ConcatProperties DEF Follow, Key

\* The children of an xpub are those of the path, where it can be parsed.
LEMMA FollowsPath ==
  ASSUME NEW t \in Tenant, NEW n \in Chain \ Seeded, NEW i \in Index, NEW id,
         Parsable(PathOf(t, n, i))
  PROVE  KeyOf(t, n, id) \o <<0, i>> = Follow(t, PathOf(t, n, i))
<1> DEFINE p == <<Prime(44), Prime(CoinType[n]), Prime(Word(t)), Plain(0), Plain(i)>>
<1>1. t \in Nat /\ CoinType[n] \in Nat /\ i \in Nat /\ Half \in Nat /\ Half > 44
  BY WalletAssumption DEF Index
<1>2. Word(t) \in Nat BY <1>1, WordIsNat
<1>3. PathOf(t, n, i) = p
  <2>1. /\ PathOf(t, n, i) = Account(t, n) \o <<Plain(0), Plain(i)>>
        /\ Account(t, n) = <<Prime(44), Prime(CoinType[n]), Prime(Word(t))>>
    BY DEF PathOf, Account
  <2>2. QED BY <2>1, Join32
<1>4. CoinType[n] < Half /\ Word(t) < Half
  BY <1>1, <1>2, <1>3 DEF Parsable, Prime, Plain
<1>5. Parsed(p) = <<44 + Half, CoinType[n] + Half, Word(t) + Half, 0, i>>
  BY <1>1, <1>2 DEF Parsed, Prime, Plain
<1>6. KeyOf(t, n, id) = <<t, 44 + Half, CoinType[n] + Half, Word(t) + Half>>
  BY <1>1, <1>2, <1>4, ShortWord DEF KeyOf
<1>7. KeyOf(t, n, id) \o <<0, i>>
        = <<t, 44 + Half, CoinType[n] + Half, Word(t) + Half, 0, i>>
  BY <1>6, Join42
<1>8. <<t>> \o <<44 + Half, CoinType[n] + Half, Word(t) + Half, 0, i>>
        = <<t, 44 + Half, CoinType[n] + Half, Word(t) + Half, 0, i>>
  BY Join15
<1>9. QED BY <1>3, <1>5, <1>7, <1>8 DEF Follow

----------------------------------------------------------------------------
\* The one address there is for a tenant, a chain and an index.
AddrOf(t, n, i) ==
  IF n \in Seeded THEN Follow(t, PathOf(t, n, i)) ELSE KeyOf(t, n, 0) \o <<0, i>>

LEMMA AddrIsKey ==
  ASSUME NEW t \in Tenant, NEW n \in Chain, NEW i \in Index
  PROVE  AddrOf(t, n, i) \in Key
<1>1. i \in Nat BY WalletAssumption DEF Index
<1>2. <<0, i>> \in Seq(Nat) BY <1>1
<1>3. KeyOf(t, n, 0) \o <<0, i>> \in Key BY <1>2, KeyIsKey, ConcatProperties DEF Key
<1>4. Follow(t, PathOf(t, n, i)) \in Key BY PathIsPath, FollowIsKey
<1>5. QED BY <1>3, <1>4 DEF AddrOf

LEMMA RequestFields ==
  ASSUME NEW q \in Request
  PROVE  /\ q.tenant \in Tenant /\ q.body \in Tenant \cup {0}
         /\ q.code \in Code /\ q.index \in Index /\ Name[q.code] \in Chain
BY WalletAssumption

\* The first number of an address is the tenant whose master it comes from.
LEMMA MasterOfAddr ==
  ASSUME NEW t \in Tenant, NEW n \in Chain, NEW i \in Index
  PROVE  Master(AddrOf(t, n, i)) = t
<1>1. t \in Nat /\ Half \in Nat BY WalletAssumption
<1>2. CASE n \in Seeded
  <2>1. PICK p \in Path : p = PathOf(t, n, i) BY PathIsPath
  <2>2. DOMAIN p = 1..Len(p) /\ Len(p) \in Nat BY LenProperties DEF Path
  <2>3. \A k \in 1..Len(p) : p[k] \in [num : Nat, prime : BOOLEAN]
    BY ElementOfSeq DEF Path
  <2>4. Parsed(p) \in Seq(Nat)
    <3>1. \A k \in 1..Len(p) : p[k].num + (IF p[k].prime THEN Half ELSE 0) \in Nat
      BY <1>1, <2>3
    <3>2. QED BY <2>2, <3>1 DEF Parsed
  <2>5. (<<t>> \o Parsed(p))[1] = t BY <1>1, <2>4
  <2>6. QED BY <1>2, <2>1, <2>5 DEF AddrOf, Follow, Master
<1>3. CASE n \notin Seeded
  <2>1. AddrOf(t, n, i) =
          <<t, Hardened(44), Hardened(CoinType[n]), Hardened(Word(t)), 0, i>>
    BY <1>3, Join42 DEF AddrOf, KeyOf
  <2>2. QED BY <2>1 DEF Master
<1>4. QED BY <1>2, <1>3

\* An address that can be derived has a path that can be parsed, and so has the
\* address of the tenant whose xpub it is derived from.
LEMMA DerivablePath ==
  ASSUME NEW q \in Request, NEW c \in ChainRow, CanDerive(q, c),
         NEW t \in Tenant, FitsColumn(t), c.chain \in Seeded => t = q.tenant
  PROVE  Parsable(PathOf(t, c.chain, q.index))
<1> DEFINE n == c.chain  i == q.index
<1>0. q.tenant \in Tenant /\ q.index \in Index /\ c.chain \in Chain
  BY RequestFields DEF ChainRow
<1>1. /\ t \in Nat /\ i \in Nat /\ CoinType[n] \in Nat /\ CoinType[n] < Half
      /\ Half \in Nat /\ Half > 44
  <2>1. /\ Half \in Nat /\ Half > 44 /\ Tenant \subseteq Nat
        /\ CoinType \in [Chain -> 0..(Half - 1)]
    BY WalletAssumption
  <2>2. CoinType[n] \in 0..(Half - 1) BY <1>0, <2>1
  <2>3. i \in Nat BY <1>0, <2>1 DEF Index
  <2>4. CoinType[n] \in Nat /\ CoinType[n] < Half BY <2>1, <2>2
  <2>5. QED BY <2>1, <2>3, <2>4
<1>2. CASE n \in Seeded BY <1>2 DEF CanDerive
<1>3. CASE n \notin Seeded
  <2>1. i < Half /\ t < Half BY <1>3 DEF CanDerive, FitsColumn
  <2>2. Word(t) = t BY <1>1, <2>1, ShortWord
  <2>3. PathOf(t, n, i) = <<Prime(44), Prime(CoinType[n]), Prime(t), Plain(0), Plain(i)>>
    BY <1>3, <2>2, Join32 DEF PathOf, Account
  <2>4. QED BY <1>1, <2>1, <2>3 DEF Parsable, Prime, Plain
<1>4. QED BY <1>2, <1>3

\* Whose keys a request of tenant t uses that has found or made the row c.
OwnerOf(t, c) == IF c.chain \in Seeded THEN t ELSE c.tenant

LEMMA DerivedIsAddrOf ==
  ASSUME NEW q \in Request, NEW c \in ChainRow, c.key = KeyOf(c.tenant, c.chain, 0)
  PROVE  Derived(q, c) = AddrOf(OwnerOf(q.tenant, c), c.chain, q.index)
BY DEF Derived, AddrOf, OwnerOf

----------------------------------------------------------------------------
(* Types, and the count of open transactions.                              *)
CountInv == TypeOK /\ OnlyFoundStaysOpen

LEMMA ActiveIsFinite == IsFiniteSet(Active)
BY WalletAssumption, FS_Subset DEF Active

LEMMA TxFields ==
  ASSUME TypeOK, NEW r \in Req, tx[r] # Idle
  PROVE  /\ tx[r] \in Tx /\ tx[r].req \in Request
         /\ tx[r].seen \subseteq AddrRow /\ tx[r].chain \subseteq ChainRow
         /\ tx[r].newChains \subseteq ChainRow /\ tx[r].newAddrs \subseteq AddrRow
BY DEF TypeOK, Tx

\* A request that begins is one more, one that ends is one less.
LEMMA CountUp ==
  ASSUME TypeOK, OnlyFoundStaysOpen, NEW r \in Req, tx[r] = Idle,
         NEW x \in Tx, tx' = [tx EXCEPT ![r] = x], open' = open + 1, found' = found
  PROVE  OnlyFoundStaysOpen'
<1>1. x # Idle BY IdleAssumption
<1>2. Active' = Active \cup {r} /\ r \notin Active BY <1>1 DEF Active, TypeOK
<1>3. Cardinality(Active') = Cardinality(Active) + 1 BY <1>2, ActiveIsFinite, FS_AddElement
<1>4. Cardinality(Active) \in Nat BY ActiveIsFinite, FS_CardinalityType
<1>5. open \in Int /\ found \in Int BY DEF TypeOK
<1>6. QED BY <1>3, <1>4, <1>5 DEF OnlyFoundStaysOpen

LEMMA CountDown ==
  ASSUME TypeOK, OnlyFoundStaysOpen, NEW r \in Req, tx[r] # Idle,
         tx' = [tx EXCEPT ![r] = Idle],
         \/ open' = open - 1 /\ found' = found
         \/ open' = open /\ found' = found + 1
  PROVE  OnlyFoundStaysOpen' /\ open' \in 0..MaxConn
<1>1. Active' = Active \ {r} /\ r \in Active BY DEF Active, TypeOK
<1>2. Cardinality(Active') = Cardinality(Active) - 1
  BY <1>1, ActiveIsFinite, FS_RemoveElement
<1>3. Cardinality(Active) \in Nat /\ Cardinality(Active') \in Nat
  <2>1. IsFiniteSet(Active') BY <1>1, ActiveIsFinite, FS_Subset
  <2>2. QED BY <2>1, ActiveIsFinite, FS_CardinalityType
<1>4. open \in 0..MaxConn /\ found \in Nat BY DEF TypeOK
<1>5. QED BY <1>2, <1>3, <1>4, WalletAssumption DEF OnlyFoundStaysOpen

LEMMA CountSame ==
  ASSUME TypeOK, OnlyFoundStaysOpen, NEW r \in Req, tx[r] # Idle,
         NEW x \in Tx, tx' = [tx EXCEPT ![r] = x], UNCHANGED <<open, found>>
  PROVE  OnlyFoundStaysOpen'
<1>1. x # Idle BY IdleAssumption
<1>2. Active' = Active BY <1>1 DEF Active, TypeOK
<1>3. QED BY <1>2 DEF OnlyFoundStaysOpen

LEMMA InitCount == Init => CountInv
<1> SUFFICES ASSUME Init PROVE CountInv OBVIOUS
<1>1. TypeOK
  <2>1. open \in 0..MaxConn BY WalletAssumption DEF Init
  <2>2. lastId \in [{"chain", "addr"} -> 0..MaxId] BY WalletAssumption DEF Init
  <2>3. QED BY <2>1, <2>2 DEF Init, TypeOK
<1>2. Active = {} BY DEF Init, Active
<1>3. Cardinality(Active) = 0 BY <1>2, FS_EmptySet
<1>4. QED BY <1>1, <1>3 DEF CountInv, OnlyFoundStaysOpen, Init

LEMMA BeginCount ==
  ASSUME CountInv, NEW r \in Req, NEW q \in Request, Begin(r, q)
  PROVE  CountInv'
<1>1. ChainsFor(q) \subseteq ChainRow /\ FirstOf(ChainsFor(q)) \subseteq ChainRow
  BY DEF CountInv, TypeOK, ChainsFor, FirstOf
<1>2. PICK x : /\ x = [at |-> IF FirstOf(ChainsFor(q)) = {} THEN "insert_chain" ELSE "address",
                       req |-> q, seen |-> addrs, chain |-> FirstOf(ChainsFor(q)),
                       newChains |-> {}, newAddrs |-> {}]
               /\ tx' = [tx EXCEPT ![r] = x]
  BY DEF Begin
<1>3. x \in Tx BY <1>1, <1>2 DEF Tx, CountInv, TypeOK
<1>4. tx' \in [Req -> Tx \cup {Idle}] BY <1>2, <1>3 DEF CountInv, TypeOK
<1>5. open' \in 0..MaxConn BY WalletAssumption DEF Begin, CountInv, TypeOK
<1>6. TypeOK' BY <1>4, <1>5 DEF Begin, CountInv, TypeOK
<1>7. OnlyFoundStaysOpen' BY <1>2, <1>3, CountUp DEF Begin, CountInv
<1>8. QED BY <1>6, <1>7 DEF CountInv

LEMMA InsertChainCount ==
  ASSUME CountInv, NEW r \in Req, InsertChain(r)
  PROVE  CountInv'
<1>1. tx[r] # Idle BY DEF InsertChain, At
<1>2. /\ tx[r] \in Tx /\ tx[r].req.tenant \in Tenant /\ Name[tx[r].req.code] \in Chain
  BY <1>1, TxFields, RequestFields DEF CountInv
<1>3. lastId["chain"] + 1 \in 1..MaxId
  BY WalletAssumption DEF InsertChain, CountInv, TypeOK
<1>4. PICK row \in ChainRow :
        tx' = [tx EXCEPT ![r] =
                [@ EXCEPT !.at = "address", !.chain = {row}, !.newChains = {row}]]
  <2>1. [id |-> lastId["chain"] + 1, tenant |-> tx[r].req.tenant,
         chain |-> Name[tx[r].req.code],
         key |-> KeyOf(tx[r].req.tenant, Name[tx[r].req.code], lastId["chain"] + 1)]
          \in ChainRow
    BY <1>2, <1>3, KeyIsKey DEF ChainRow
  <2>2. QED BY <2>1 DEF InsertChain
<1>5. PICK x \in Tx : tx' = [tx EXCEPT ![r] = x]
  <2>1. [tx[r] EXCEPT !.at = "address", !.chain = {row}, !.newChains = {row}] \in Tx
    BY <1>2 DEF Tx
  <2>2. QED BY <1>4, <2>1 DEF CountInv, TypeOK
<1>6. lastId' \in [{"chain", "addr"} -> 0..MaxId]
  BY <1>3 DEF InsertChain, CountInv, TypeOK
<1>7. TypeOK' BY <1>5, <1>6 DEF InsertChain, CountInv, TypeOK
<1>8. OnlyFoundStaysOpen' BY <1>1, <1>5, CountSame DEF InsertChain, CountInv
<1>9. QED BY <1>7, <1>8 DEF CountInv

\* Inserting an address leaves the record of a request in flight.
LEMMA InsertAddressTx ==
  ASSUME TypeOK, NEW r \in Req, InsertAddress(r)
  PROVE  \E x \in Tx : tx' = [tx EXCEPT ![r] = x]
<1>1. tx[r] # Idle BY DEF InsertAddress, At
<1>2. /\ tx[r] \in Tx /\ tx[r].req.tenant \in Tenant /\ tx[r].req.index \in Index
      /\ tx[r].chain \subseteq ChainRow
  BY <1>1, TxFields, RequestFields
<1>3. lastId["addr"] + 1 \in 1..MaxId
  BY WalletAssumption DEF InsertAddress, TypeOK
<1>4. PICK c \in tx[r].chain :
        tx' = [tx EXCEPT ![r] = [@ EXCEPT !.at = "commit", !.newAddrs =
          {[id |-> lastId["addr"] + 1, tenant |-> tx[r].req.tenant, chainId |-> c.id,
            index |-> tx[r].req.index, addr |-> Derived(tx[r].req, c),
            path |-> PathOf(tx[r].req.tenant, c.chain, tx[r].req.index)]}]]
  BY DEF InsertAddress
<1>5. c.chain \in Chain /\ c.id \in 1..MaxId /\ c.key \in Key BY <1>2 DEF ChainRow
<1>6. PathOf(tx[r].req.tenant, c.chain, tx[r].req.index) \in Path BY <1>2, <1>5, PathIsPath
<1>7. Derived(tx[r].req, c) \in Key
  <2>1. <<0, tx[r].req.index>> \in Seq(Nat) BY <1>2, WalletAssumption DEF Index
  <2>2. c.key \o <<0, tx[r].req.index>> \in Key BY <1>5, <2>1, ConcatProperties DEF Key
  <2>3. QED BY <1>2, <1>6, <2>2, FollowIsKey DEF Derived
<1>8. QED
  <2>1. PICK row : row = [id |-> lastId["addr"] + 1, tenant |-> tx[r].req.tenant,
            chainId |-> c.id, index |-> tx[r].req.index, addr |-> Derived(tx[r].req, c),
            path |-> PathOf(tx[r].req.tenant, c.chain, tx[r].req.index)]
    OBVIOUS
  <2>2. row \in AddrRow BY <1>2, <1>3, <1>5, <1>6, <1>7, <2>1 DEF AddrRow
  <2>3. [tx[r] EXCEPT !.at = "commit", !.newAddrs = {row}] \in Tx BY <1>2, <2>2 DEF Tx
  <2>4. QED BY <1>4, <2>1, <2>3 DEF TypeOK

LEMMA InsertAddressCount ==
  ASSUME CountInv, NEW r \in Req, InsertAddress(r)
  PROVE  CountInv'
<1>1. tx[r] # Idle BY DEF InsertAddress, At
<1>2. PICK x \in Tx : tx' = [tx EXCEPT ![r] = x] BY InsertAddressTx DEF CountInv
<1>3. lastId["addr"] + 1 \in 1..MaxId
  BY WalletAssumption DEF InsertAddress, CountInv, TypeOK
<1>4. lastId' \in [{"chain", "addr"} -> 0..MaxId]
  BY <1>3 DEF InsertAddress, CountInv, TypeOK
<1>5. TypeOK' BY <1>2, <1>4 DEF InsertAddress, CountInv, TypeOK
<1>6. OnlyFoundStaysOpen' BY <1>1, <1>2, CountSame DEF InsertAddress, CountInv
<1>7. QED BY <1>5, <1>6 DEF CountInv

\* What a request is told has the types of an answer.
LEMMA AnsweredType ==
  ASSUME TypeOK, NEW q \in Request, NEW a \in AddrRow
  PROVE  Answered(q, a.addr) \subseteq Answer
BY RequestFields DEF TypeOK, Answered, Answer, AddrRow

LEMMA EndCount ==
  ASSUME CountInv, NEW r \in Req, Found(r) \/ Commit(r) \/ Rollback(r)
  PROVE  CountInv'
<1>1. tx[r] # Idle /\ tx' = [tx EXCEPT ![r] = Idle]
  BY DEF Found, Commit, Rollback, At
<1>2. \/ open' = open - 1 /\ found' = found
      \/ open' = open /\ found' = found + 1
  BY DEF Found, Commit, Rollback, Closed
<1>3. OnlyFoundStaysOpen' /\ open' \in 0..MaxConn BY <1>1, <1>2, CountDown DEF CountInv
<1>4. /\ tx[r].req \in Request /\ tx[r].newChains \subseteq ChainRow
      /\ tx[r].newAddrs \subseteq AddrRow /\ FirstOf(AddressesFor(r)) \subseteq AddrRow
  BY <1>1, TxFields DEF CountInv, FirstOf, AddressesFor
<1>5. answers' \subseteq Answer
  <2>1. CASE Found(r) BY <1>4, <2>1, AnsweredType DEF Found, CountInv
  <2>2. CASE Commit(r) BY <1>4, <2>2, AnsweredType DEF Commit, CountInv
  <2>3. CASE Rollback(r) BY <2>3 DEF Rollback, CountInv, TypeOK
  <2>4. QED BY <2>1, <2>2, <2>3
<1>6. chains' \subseteq ChainRow /\ addrs' \subseteq AddrRow /\ lastId' = lastId
  BY <1>4 DEF Found, Commit, Rollback, Saved, CountInv, TypeOK
<1>7. tx' \in [Req -> Tx \cup {Idle}] /\ found' \in Nat
  BY <1>1, <1>2 DEF CountInv, TypeOK
<1>8. QED BY <1>3, <1>5, <1>6, <1>7 DEF CountInv, TypeOK

LEMMA CountStep == CountInv /\ [Next]_vars => CountInv'
<1> SUFFICES ASSUME CountInv, [Next]_vars PROVE CountInv' OBVIOUS
<1>1. CASE UNCHANGED vars
  BY <1>1 DEF vars, CountInv, TypeOK, OnlyFoundStaysOpen, Active
<1>2. CASE Next
  <2>1. PICK r \in Req : \/ \E q \in Request : Begin(r, q)
                         \/ InsertChain(r) \/ InsertAddress(r)
                         \/ Found(r) \/ Commit(r) \/ Rollback(r)
    BY <1>2 DEF Next
  <2>2. QED BY <2>1, BeginCount, InsertChainCount, InsertAddressCount, EndCount
<1>3. QED BY <1>1, <1>2

\* Types are right in every behaviour.
THEOREM WalletTypeCorrect == Spec => []TypeOK
<1>1. CountInv => TypeOK BY DEF CountInv
<1>2. QED BY <1>1, InitCount, CountStep, PTL DEF Spec

\* However requests fail, the transactions that stay open are those of requests
\* that found their address (service/wallet.go:70).
THEOREM OnlyFoundLeak == Spec => []OnlyFoundStaysOpen
<1>1. CountInv => OnlyFoundStaysOpen BY DEF CountInv
<1>2. QED BY <1>1, InitCount, CountStep, PTL DEF Spec

----------------------------------------------------------------------------
(* Addresses.  A request finds a chain of the tenant its body names, and    *)
(* makes one of its own tenant; nothing but the row says whose xpub it is.  *)

\* A row of tenant_chain, committed or inserted by a request in flight.
HasRow(c) == c \in chains \/ \E r \in Req : tx[r] # Idle /\ c \in tx[r].newChains

\* Its key is the one of its tenant and chain, and its id is its own.
RowsInv ==
  /\ \A c \in ChainRow : HasRow(c) =>
       c.key = KeyOf(c.tenant, c.chain, 0) /\ c.id <= lastId["chain"]
  /\ \A c, d \in ChainRow : HasRow(c) /\ HasRow(d) /\ c.id = d.id => c = d

\* The tenant of a stored chain is one whose addresses can be stored.
ChainsInv == \A c \in chains : FitsColumn(c.tenant)

\* A row of tenant_address has the address at its index of whoever owns the
\* chain, and a path of its own tenant.
AddrFrom(a, d) ==
  /\ d.id = a.chainId
  /\ a.addr = AddrOf(OwnerOf(a.tenant, d), d.chain, a.index)
  /\ a.path = PathOf(a.tenant, d.chain, a.index) /\ Parsable(a.path)
  /\ Parsable(PathOf(OwnerOf(a.tenant, d), d.chain, a.index))

\* Some request named the other tenant whose chain it is.
NamedBy(a, d) == d.tenant # a.tenant =>
  \E x \in answers : /\ x.tenant = a.tenant /\ x.body = d.tenant
                     /\ x.index = a.index /\ x.addr = a.addr

AddrsInv == \A a \in addrs : \E d \in chains : AddrFrom(a, d) /\ NamedBy(a, d)

\* A request works with a row of its chain, and inserts those of its tenant.
OwnChains(r) ==
  /\ \A c \in tx[r].chain : /\ c.tenant \in {tx[r].req.tenant, tx[r].req.body}
                           /\ c.chain = Name[tx[r].req.code]
                           /\ c \in chains \cup tx[r].newChains
  /\ \A c \in tx[r].newChains : c.tenant = tx[r].req.tenant

OwnAddrs(r) ==
  /\ \A a \in tx[r].newAddrs : /\ a.tenant = tx[r].req.tenant /\ a.index = tx[r].req.index
                              /\ \E c \in tx[r].chain : AddrFrom(a, c)
  /\ \A a, b \in tx[r].newAddrs : a = b

OwnRows(r) ==
  /\ tx[r].seen \subseteq addrs /\ OwnChains(r) /\ OwnAddrs(r)
  /\ tx[r].at # "commit" => tx[r].newAddrs = {}
  /\ tx[r].at = "commit" => FitsColumn(tx[r].req.tenant)

TxInv == \A r \in Req : tx[r] # Idle => OwnRows(r)

AnswersInv == \A x \in answers :
  \E o \in {x.tenant, x.body} \cap Tenant : x.addr = AddrOf(o, x.chain, x.index)

AddressInv == /\ TypeOK /\ RowsInv /\ ChainsInv /\ AddrsInv /\ TxInv
              /\ AnswersInv /\ AnswersAreStored

LEMMA InitAddress == ASSUME Init PROVE AddressInv
<1>1. TypeOK BY InitCount DEF CountInv
<1>2. RowsInv BY DEF Init, RowsInv, HasRow
<1>3. ChainsInv /\ AddrsInv /\ TxInv /\ AnswersInv /\ AnswersAreStored
  BY DEF Init, ChainsInv, AddrsInv, TxInv, AnswersInv, AnswersAreStored
<1>4. QED BY <1>1, <1>2, <1>3 DEF AddressInv

LEMMA OneKey == ASSUME NEW t, NEW n, NEW id PROVE KeyOf(t, n, id) = KeyOf(t, n, 0)
BY DEF KeyOf

\* A request is not disturbed by what others commit.
LEMMA OthersKeep ==
  ASSUME TxInv, chains \subseteq chains', addrs \subseteq addrs',
         NEW s \in Req, tx[s] # Idle, tx'[s] = tx[s]
  PROVE  OwnRows(s)'
<1>1. OwnRows(s) BY DEF TxInv
<1>2. OwnChains(s)' BY <1>1 DEF OwnRows, OwnChains
<1>3. OwnAddrs(s)' BY <1>1 DEF OwnRows, OwnAddrs
<1>4. QED BY <1>1, <1>2, <1>3 DEF OwnRows

\* Nor are the rows by what is answered.
LEMMA TablesKeep ==
  ASSUME ChainsInv, AddrsInv, AnswersInv, AnswersAreStored, UNCHANGED <<chains, addrs, answers>>
  PROVE  ChainsInv' /\ AddrsInv' /\ AnswersInv' /\ AnswersAreStored'
<1>1. ChainsInv' BY DEF ChainsInv
<1>2. AddrsInv' BY DEF AddrsInv, NamedBy
<1>3. AnswersInv' BY DEF AnswersInv
<1>4. AnswersAreStored' BY DEF AnswersAreStored
<1>5. QED BY <1>1, <1>2, <1>3, <1>4

LEMMA BeginAddress ==
  ASSUME AddressInv, TypeOK', NEW r \in Req, NEW q \in Request, Begin(r, q)
  PROVE  AddressInv'
<1>1. PICK x : /\ x = [at |-> IF FirstOf(ChainsFor(q)) = {} THEN "insert_chain" ELSE "address",
                       req |-> q, seen |-> addrs, chain |-> FirstOf(ChainsFor(q)),
                       newChains |-> {}, newAddrs |-> {}]
               /\ tx' = [tx EXCEPT ![r] = x] /\ tx[r] = Idle
  BY DEF Begin
<1>2. UNCHANGED <<chains, addrs, lastId, answers>> BY DEF Begin
<1>3. tx'[r] = x /\ \A s \in Req \ {r} : tx'[s] = tx[s]
  BY <1>1 DEF AddressInv, TypeOK
<1>4. /\ x.req = q /\ x.seen = addrs /\ x.chain = FirstOf(ChainsFor(q))
      /\ x.newChains = {} /\ x.newAddrs = {}
  BY <1>1
<1>5. \A c \in ChainRow : HasRow(c)' <=> HasRow(c) BY <1>1, <1>2, <1>3, <1>4 DEF HasRow
<1>6. RowsInv' BY <1>2, <1>5 DEF AddressInv, RowsInv
<1>7. \A c \in x.chain : c.tenant = q.body /\ c.chain = Name[q.code] /\ c \in chains
  <2> SUFFICES ASSUME NEW c \in x.chain
               PROVE  c.tenant = q.body /\ c.chain = Name[q.code] /\ c \in chains
    OBVIOUS
  <2>1. c \in chains /\ c.tenant = q.body /\ c.chain = q.code
    BY <1>4 DEF FirstOf, ChainsFor
  <2>2. c \in ChainRow BY <2>1 DEF AddressInv, TypeOK
  <2>3. c.chain \in Chain BY <2>2 DEF ChainRow
  <2>4. Name[q.code] = q.code BY <2>1, <2>3, WalletAssumption
  <2>5. QED BY <2>1, <2>4
<1>8. TxInv'
  <2>1. ASSUME NEW s \in Req, tx'[s] # Idle
        PROVE  OwnRows(s)'
    <3>1. CASE s = r
      <4>1. OwnChains(r)' BY <1>2, <1>3, <1>4, <1>7 DEF OwnChains
      <4>2. OwnAddrs(r)' BY <1>3, <1>4 DEF OwnAddrs
      <4>3. x.at # "commit" BY <1>1
      <4>4. QED BY <1>2, <1>3, <1>4, <3>1, <4>1, <4>2, <4>3 DEF OwnRows
    <3>2. CASE s # r BY <1>2, <1>3, <2>1, <3>2, OthersKeep DEF AddressInv
    <3>3. QED BY <3>1, <3>2
  <2>2. QED BY <2>1 DEF TxInv
<1>9. ChainsInv' /\ AddrsInv' /\ AnswersInv' /\ AnswersAreStored'
  BY <1>2, TablesKeep DEF AddressInv
<1>10. QED BY <1>6, <1>8, <1>9 DEF AddressInv

LEMMA InsertChainAddress ==
  ASSUME AddressInv, TypeOK', NEW r \in Req, InsertChain(r)
  PROVE  AddressInv'
<1>1. PICK q, id, row :
        /\ q = tx[r].req /\ id = lastId["chain"] + 1
        /\ row = [id |-> id, tenant |-> q.tenant, chain |-> Name[q.code],
                  key |-> KeyOf(q.tenant, Name[q.code], id)]
        /\ tx' = [tx EXCEPT ![r] =
             [@ EXCEPT !.at = "address", !.chain = {row}, !.newChains = {row}]]
        /\ lastId' = [lastId EXCEPT !["chain"] = id]
        /\ tx[r] # Idle
  BY DEF InsertChain, At
<1>2. UNCHANGED <<chains, addrs, answers>> BY DEF InsertChain
<1>3. tx[r] \in Tx /\ tx[r].newChains \subseteq ChainRow BY <1>1, TxFields DEF AddressInv
<1>4. PICK x : x = [tx[r] EXCEPT !.at = "address", !.chain = {row}, !.newChains = {row}]
  OBVIOUS
<1>5. tx'[r] = x /\ \A s \in Req \ {r} : tx'[s] = tx[s]
  BY <1>1, <1>4 DEF AddressInv, TypeOK
<1>6. /\ x.req = q /\ x.seen = tx[r].seen /\ x.chain = {row} /\ x.newChains = {row}
      /\ x.newAddrs = tx[r].newAddrs /\ x.at = "address"
  BY <1>1, <1>3, <1>4 DEF Tx
<1>7. lastId["chain"] \in Nat /\ lastId'["chain"] = lastId["chain"] + 1
  BY <1>1, WalletAssumption DEF AddressInv, TypeOK
<1>8. /\ row.key = KeyOf(row.tenant, row.chain, 0) /\ row.id = lastId'["chain"]
      /\ row.tenant = q.tenant /\ row.chain = Name[q.code]
  BY <1>1, <1>7, OneKey
<1>9. ASSUME NEW c \in ChainRow, HasRow(c)' PROVE HasRow(c) \/ c = row
  BY <1>2, <1>5, <1>6, <1>9 DEF HasRow
<1>10. RowsInv'
  <2>1. ASSUME NEW c \in ChainRow, HasRow(c)'
        PROVE  c.key = KeyOf(c.tenant, c.chain, 0) /\ c.id <= lastId'["chain"]
    <3>1. c.id \in Int BY DEF ChainRow
    <3>2. CASE HasRow(c) BY <1>7, <3>1, <3>2 DEF AddressInv, RowsInv
    <3>3. CASE c = row BY <1>7, <1>8, <3>3
    <3>4. QED BY <1>9, <2>1, <3>2, <3>3
  <2>2. ASSUME NEW c \in ChainRow, NEW d \in ChainRow, HasRow(c)', HasRow(d)', c.id = d.id
        PROVE  c = d
    <3>1. \A e \in ChainRow : HasRow(e) => e.id < row.id
      BY <1>7, <1>8 DEF AddressInv, RowsInv, ChainRow
    <3>2. c.id \in Int /\ d.id \in Int BY DEF ChainRow
    <3>3. CASE HasRow(c) /\ HasRow(d) BY <2>2, <3>3 DEF AddressInv, RowsInv
    <3>4. CASE c = row \/ d = row BY <1>9, <2>2, <3>1, <3>2, <3>4
    <3>5. QED BY <1>9, <2>2, <3>3, <3>4
  <2>3. QED BY <2>1, <2>2 DEF RowsInv
<1>11. tx[r].newAddrs = {} /\ tx[r].seen \subseteq addrs
  BY <1>1 DEF InsertChain, At, AddressInv, TxInv, OwnRows
<1>12. TxInv'
  <2>1. ASSUME NEW s \in Req, tx'[s] # Idle
        PROVE  OwnRows(s)'
    <3>1. CASE s = r
      <4>1. OwnChains(r)' BY <1>2, <1>5, <1>6, <1>8 DEF OwnChains
      <4>2. OwnAddrs(r)' BY <1>5, <1>6, <1>11 DEF OwnAddrs
      <4>3. QED BY <1>2, <1>5, <1>6, <1>11, <3>1, <4>1, <4>2 DEF OwnRows
    <3>2. CASE s # r BY <1>2, <1>5, <2>1, <3>2, OthersKeep DEF AddressInv
    <3>3. QED BY <3>1, <3>2
  <2>2. QED BY <2>1 DEF TxInv
<1>13. ChainsInv' /\ AddrsInv' /\ AnswersInv' /\ AnswersAreStored'
  BY <1>2, TablesKeep DEF AddressInv
<1>14. QED BY <1>10, <1>12, <1>13 DEF AddressInv

LEMMA InsertAddressAddress ==
  ASSUME AddressInv, TypeOK', NEW r \in Req, InsertAddress(r)
  PROVE  AddressInv'
<1>1. PICK c, q, row :
        /\ c \in tx[r].chain /\ q = tx[r].req
        /\ CanDerive(q, c) /\ FitsColumn(q.tenant)
        /\ row = [id |-> lastId["addr"] + 1, tenant |-> q.tenant, chainId |-> c.id,
                  index |-> q.index, addr |-> Derived(q, c),
                  path |-> PathOf(q.tenant, c.chain, q.index)]
        /\ tx' = [tx EXCEPT ![r] = [@ EXCEPT !.at = "commit", !.newAddrs = {row}]]
        /\ lastId' = [lastId EXCEPT !["addr"] = lastId["addr"] + 1]
        /\ tx[r] # Idle
  BY DEF InsertAddress, At
<1>2. UNCHANGED <<chains, addrs, answers>> BY DEF InsertAddress
<1>3. /\ tx[r] \in Tx /\ q \in Request /\ tx[r].chain \subseteq ChainRow
      /\ tx[r].newChains \subseteq ChainRow /\ chains \subseteq ChainRow
  BY <1>1, TxFields DEF AddressInv, TypeOK
<1>4. PICK x : x = [tx[r] EXCEPT !.at = "commit", !.newAddrs = {row}] OBVIOUS
<1>5. tx'[r] = x /\ \A s \in Req \ {r} : tx'[s] = tx[s]
  BY <1>1, <1>4 DEF AddressInv, TypeOK
<1>6. /\ x.at = "commit" /\ x.req = q /\ x.seen = tx[r].seen /\ x.chain = tx[r].chain
      /\ x.newChains = tx[r].newChains /\ x.newAddrs = {row} /\ x # Idle
  <2>1. PICK y \in Tx : tx' = [tx EXCEPT ![r] = y] BY InsertAddressTx DEF AddressInv
  <2>2. x # Idle BY <1>5, <2>1, IdleAssumption DEF AddressInv, TypeOK
  <2>3. QED BY <1>1, <1>3, <1>4, <2>2 DEF Tx
<1>7. lastId'["chain"] = lastId["chain"] BY <1>1 DEF AddressInv, TypeOK
<1>8. \A d \in ChainRow : HasRow(d)' <=> HasRow(d)
  BY <1>1, <1>2, <1>5, <1>6 DEF HasRow
<1>9. RowsInv' BY <1>7, <1>8 DEF AddressInv, RowsInv
<1>10. OwnRows(r) BY <1>1 DEF AddressInv, TxInv
<1>11. /\ c \in ChainRow /\ c \in chains \cup tx[r].newChains
       /\ FitsColumn(c.tenant) /\ c.tenant \in Tenant
  <2>1. c \in ChainRow /\ c \in chains \cup tx[r].newChains
    BY <1>1, <1>3, <1>10 DEF OwnRows, OwnChains
  <2>2. CASE c \in chains BY <2>1, <2>2 DEF AddressInv, ChainsInv, ChainRow
  <2>3. CASE c \in tx[r].newChains
    BY <1>1, <1>10, <2>1, <2>3 DEF OwnRows, OwnChains, ChainRow
  <2>4. QED BY <2>1, <2>2, <2>3
<1>12. c.key = KeyOf(c.tenant, c.chain, 0)
  BY <1>1, <1>11 DEF AddressInv, RowsInv, HasRow
<1>13. Derived(q, c) = AddrOf(OwnerOf(q.tenant, c), c.chain, q.index)
  BY <1>3, <1>11, <1>12, DerivedIsAddrOf
<1>14. /\ Parsable(PathOf(q.tenant, c.chain, q.index))
       /\ Parsable(PathOf(OwnerOf(q.tenant, c), c.chain, q.index))
  <2>1. q.tenant \in Tenant BY <1>3, RequestFields
  <2>2. QED BY <1>1, <1>3, <1>11, <2>1, DerivablePath DEF OwnerOf
<1>15. /\ row.tenant = q.tenant /\ row.index = q.index /\ row.chainId = c.id
       /\ row.addr = AddrOf(OwnerOf(q.tenant, c), c.chain, q.index)
       /\ row.path = PathOf(q.tenant, c.chain, q.index)
  BY <1>1, <1>13
<1>16. AddrFrom(row, c) BY <1>14, <1>15 DEF AddrFrom
<1>17. OwnRows(r)'
  <2>1. OwnChains(r)' BY <1>2, <1>5, <1>6, <1>10, <1>1 DEF OwnRows, OwnChains
  <2>2. OwnAddrs(r)' BY <1>1, <1>2, <1>5, <1>6, <1>15, <1>16 DEF OwnAddrs
  <2>3. QED BY <1>1, <1>2, <1>5, <1>6, <1>10, <2>1, <2>2 DEF OwnRows
<1>18. TxInv' BY <1>2, <1>5, <1>17, OthersKeep DEF AddressInv, TxInv
<1>19. ChainsInv' /\ AddrsInv' /\ AnswersInv' /\ AnswersAreStored'
  BY <1>2, TablesKeep DEF AddressInv
<1>20. QED BY <1>9, <1>18, <1>19 DEF AddressInv

\* A request that ends takes no row into the tables but its own.
LEMMA RowsAtEnd ==
  ASSUME AddressInv, NEW r \in Req, tx[r] # Idle, tx' = [tx EXCEPT ![r] = Idle],
         lastId' = lastId,
         chains' = chains \/ chains' = chains \cup tx[r].newChains
  PROVE  RowsInv'
<1>1. \A s \in Req : tx'[s] # Idle => tx'[s] = tx[s] /\ tx[s] # Idle
  BY DEF AddressInv, TypeOK
<1>2. \A c \in ChainRow : HasRow(c)' => HasRow(c) BY <1>1 DEF HasRow
<1>3. QED BY <1>2 DEF AddressInv, RowsInv

LEMMA OthersAtEnd ==
  ASSUME AddressInv, NEW r \in Req, tx' = [tx EXCEPT ![r] = Idle],
         chains \subseteq chains', addrs \subseteq addrs'
  PROVE  TxInv'
<1>1. \A s \in Req : tx'[s] # Idle => tx'[s] = tx[s] /\ tx[s] # Idle
  BY DEF AddressInv, TypeOK
<1>2. QED BY <1>1, OthersKeep DEF AddressInv, TxInv

\* Who is told an address of its own keys, or of those of the tenant it names,
\* where it is stored.
LEMMA RightAnswer ==
  ASSUME AddressInv, NEW q \in Request, NEW a, addrs \subseteq addrs', a \in addrs',
         NEW o \in {q.tenant, q.body} \cap Tenant,
         a.tenant = q.tenant, a.index = q.index,
         a.addr = AddrOf(o, Name[q.code], q.index), answers' = Answered(q, a.addr)
  PROVE  /\ AnswersInv' /\ AnswersAreStored' /\ answers \subseteq answers'
         /\ \E x \in answers' : /\ x.tenant = a.tenant /\ x.body = q.body
                               /\ x.index = a.index /\ x.addr = a.addr
<1>1. PICK x : /\ x = [tenant |-> q.tenant, body |-> q.body, chain |-> Name[q.code],
                       index |-> q.index, addr |-> a.addr]
               /\ answers' = answers \cup {x}
  BY DEF Answered
<1>2. /\ x.tenant = q.tenant /\ x.body = q.body /\ x.chain = Name[q.code]
      /\ x.index = q.index /\ x.addr = a.addr
  BY <1>1
<1>3. AnswersInv' BY <1>1, <1>2 DEF AddressInv, AnswersInv
<1>4. AnswersAreStored' BY <1>1, <1>2 DEF AddressInv, AnswersAreStored
<1>5. QED BY <1>1, <1>2, <1>3, <1>4

\* Whose address it is.
LEMMA OwnerIsNamed ==
  ASSUME NEW q \in Request, NEW c \in ChainRow, c.tenant \in {q.tenant, q.body}
  PROVE  OwnerOf(q.tenant, c) \in {q.tenant, q.body} \cap Tenant
BY RequestFields DEF OwnerOf, ChainRow

LEMMA FoundAddress ==
  ASSUME AddressInv, TypeOK', NEW r \in Req, Found(r)
  PROVE  AddressInv'
<1>1. PICK a \in FirstOf(AddressesFor(r)) : answers' = Answered(tx[r].req, a.addr)
  BY DEF Found
<1>2. /\ tx[r] # Idle /\ tx' = [tx EXCEPT ![r] = Idle]
      /\ UNCHANGED <<chains, addrs, lastId>>
  BY DEF Found, At
<1>3. /\ tx[r].req \in Request /\ tx[r].chain \subseteq ChainRow
      /\ tx[r].newChains \subseteq ChainRow /\ chains \subseteq ChainRow
  BY <1>2, TxFields DEF AddressInv, TypeOK
<1>4. OwnRows(r) BY <1>2 DEF AddressInv, TxInv
<1>5. PICK c \in tx[r].chain : a.chainId = c.id BY DEF FirstOf, AddressesFor
<1>6. /\ a \in addrs /\ a.tenant = tx[r].req.tenant /\ a.index = tx[r].req.index
  BY <1>4 DEF FirstOf, AddressesFor, OwnRows
<1>7. PICK d \in chains : AddrFrom(a, d)
  BY <1>6 DEF AddressInv, AddrsInv
<1>8. /\ c.chain = Name[tx[r].req.code] /\ c \in chains \cup tx[r].newChains
      /\ c.tenant \in {tx[r].req.tenant, tx[r].req.body}
  BY <1>4 DEF OwnRows, OwnChains
<1>9. HasRow(c) /\ HasRow(d) /\ c \in ChainRow /\ d \in ChainRow
  BY <1>2, <1>3, <1>8 DEF HasRow
<1>10. c = d BY <1>5, <1>7, <1>9 DEF AddressInv, RowsInv, AddrFrom
<1>11. a.addr = AddrOf(OwnerOf(tx[r].req.tenant, c), Name[tx[r].req.code], tx[r].req.index)
  BY <1>6, <1>7, <1>8, <1>10 DEF AddrFrom
<1>12. AnswersInv' /\ AnswersAreStored' /\ answers \subseteq answers'
  BY <1>1, <1>2, <1>3, <1>6, <1>8, <1>9, <1>11, OwnerIsNamed, RightAnswer
<1>13. RowsInv' /\ TxInv' BY <1>2, RowsAtEnd, OthersAtEnd
<1>14. ChainsInv' /\ AddrsInv' BY <1>2, <1>12 DEF AddressInv, ChainsInv, AddrsInv, NamedBy
<1>15. QED BY <1>12, <1>13, <1>14 DEF AddressInv

LEMMA CommitAddress ==
  ASSUME AddressInv, TypeOK', NEW r \in Req, Commit(r)
  PROVE  AddressInv'
<1>1. PICK a \in tx[r].newAddrs : answers' = Answered(tx[r].req, a.addr)
  BY DEF Commit
<1>2. /\ tx[r] # Idle /\ tx' = [tx EXCEPT ![r] = Idle] /\ lastId' = lastId
      /\ chains' = chains \cup tx[r].newChains /\ addrs' = addrs \cup tx[r].newAddrs
      /\ tx[r].at = "commit"
  BY DEF Commit, At, Saved
<1>3. tx[r].req \in Request /\ tx[r].chain \subseteq ChainRow
  BY <1>2, TxFields DEF AddressInv
<1>4. OwnRows(r) BY <1>2 DEF AddressInv, TxInv
<1>5. a.tenant = tx[r].req.tenant /\ a.index = tx[r].req.index
  BY <1>4 DEF OwnRows, OwnAddrs
<1>6. PICK c \in tx[r].chain : AddrFrom(a, c) BY <1>4 DEF OwnRows, OwnAddrs
<1>7. /\ c \in ChainRow /\ c.chain = Name[tx[r].req.code] /\ c \in chains'
      /\ c.tenant \in {tx[r].req.tenant, tx[r].req.body}
  BY <1>2, <1>3, <1>4 DEF OwnRows, OwnChains
<1>8. /\ AnswersInv' /\ AnswersAreStored' /\ answers \subseteq answers'
      /\ \E x \in answers' : /\ x.tenant = a.tenant /\ x.body = tx[r].req.body
                            /\ x.index = a.index /\ x.addr = a.addr
  <2>1. OwnerOf(tx[r].req.tenant, c) \in {tx[r].req.tenant, tx[r].req.body} \cap Tenant
    BY <1>3, <1>7, OwnerIsNamed
  <2>2. a.addr = AddrOf(OwnerOf(tx[r].req.tenant, c), Name[tx[r].req.code], tx[r].req.index)
    BY <1>5, <1>6, <1>7 DEF AddrFrom
  <2>3. QED BY <1>1, <1>2, <1>3, <1>5, <2>1, <2>2, RightAnswer
<1>9. RowsInv' /\ TxInv' BY <1>2, RowsAtEnd, OthersAtEnd
<1>10. ChainsInv'
  BY <1>2, <1>4 DEF AddressInv, ChainsInv, OwnRows, OwnChains
<1>11. AddrsInv'
  <2>1. ASSUME NEW b \in addrs
        PROVE  \E d \in chains' : AddrFrom(b, d) /\ NamedBy(b, d)'
    <3>1. PICK d \in chains : AddrFrom(b, d) /\ NamedBy(b, d) BY DEF AddressInv, AddrsInv
    <3>2. NamedBy(b, d)' BY <1>8, <3>1 DEF NamedBy
    <3>3. QED BY <1>2, <3>1, <3>2
  <2>2. NamedBy(a, c)' BY <1>5, <1>7, <1>8 DEF NamedBy
  <2>3. \A b \in tx[r].newAddrs : b = a BY <1>4 DEF OwnRows, OwnAddrs
  <2>4. ASSUME NEW b \in addrs'
        PROVE  \E d \in chains' : AddrFrom(b, d) /\ NamedBy(b, d)'
    BY <1>2, <1>6, <1>7, <2>1, <2>2, <2>3
  <2>5. QED BY <2>4 DEF AddrsInv
<1>12. QED BY <1>8, <1>9, <1>10, <1>11 DEF AddressInv

LEMMA RollbackAddress ==
  ASSUME AddressInv, TypeOK', NEW r \in Req, Rollback(r)
  PROVE  AddressInv'
<1>1. /\ tx[r] # Idle /\ tx' = [tx EXCEPT ![r] = Idle]
      /\ UNCHANGED <<chains, addrs, lastId, answers>>
  BY DEF Rollback
<1>2. RowsInv' /\ TxInv' BY <1>1, RowsAtEnd, OthersAtEnd
<1>3. ChainsInv' /\ AddrsInv' /\ AnswersInv' /\ AnswersAreStored'
  BY <1>1, TablesKeep DEF AddressInv
<1>4. QED BY <1>2, <1>3 DEF AddressInv

LEMMA AddressStep ==
  ASSUME AddressInv, TypeOK', [Next]_vars
  PROVE  AddressInv'
<1>1. CASE UNCHANGED vars
  <2>1. RowsInv' /\ TxInv'
    BY <1>1 DEF vars, AddressInv, RowsInv, HasRow, TxInv, OwnRows, OwnChains, OwnAddrs
  <2>2. QED BY <1>1, <2>1, TablesKeep DEF vars, AddressInv
<1>2. CASE Next
  <2>1. PICK r \in Req : \/ \E q \in Request : Begin(r, q)
                         \/ InsertChain(r) \/ InsertAddress(r)
                         \/ Found(r) \/ Commit(r) \/ Rollback(r)
    BY <1>2 DEF Next
  <2>2. QED BY <2>1, BeginAddress, InsertChainAddress, InsertAddressAddress, FoundAddress,
               CommitAddress, RollbackAddress
<1>3. QED BY <1>1, <1>2

LEMMA AddressInvHolds == Spec => []AddressInv
<1>1. AddressInv /\ TypeOK' /\ [Next]_vars => AddressInv' BY AddressStep
<1>2. Init => AddressInv BY InitAddress
<1>3. QED BY <1>1, <1>2, WalletTypeCorrect, PTL DEF Spec

\* Whatever requests race, repeat or fail, and whichever tenant their bodies
\* name, there is one address for the keys of a tenant, a chain and an index,
\* and a caller is told one of its own or of the tenant it names
\* (DeriveAddressFromXpub after either lookup).
THEOREM AnswersAlwaysAgree == Spec => []AnswersAgree
<1>1. ASSUME AddressInv, NEW a \in answers, NEW b \in answers
      PROVE  /\ Master(a.addr) \in {a.tenant, a.body}
             /\ a.chain = b.chain /\ a.index = b.index /\ Master(a.addr) = Master(b.addr)
                  => a.addr = b.addr
  <2>1. /\ a.chain \in Chain /\ a.index \in Index
        /\ b.chain \in Chain /\ b.index \in Index
    BY <1>1 DEF AddressInv, TypeOK, Answer
  <2>2. PICK o \in {a.tenant, a.body} \cap Tenant : a.addr = AddrOf(o, a.chain, a.index)
    BY <1>1 DEF AddressInv, AnswersInv
  <2>3. PICK p \in {b.tenant, b.body} \cap Tenant : b.addr = AddrOf(p, b.chain, b.index)
    BY <1>1 DEF AddressInv, AnswersInv
  <2>4. Master(a.addr) = o /\ Master(b.addr) = p BY <2>1, <2>2, <2>3, MasterOfAddr
  <2>5. QED BY <2>2, <2>3, <2>4
<1>2. AddressInv => AnswersAgree BY <1>1 DEF AnswersAgree
<1>3. QED BY <1>2, AddressInvHolds, PTL

\* An address a request was told is stored.
THEOREM AnswersAlwaysStored == Spec => []AnswersAreStored
<1>1. AddressInv => AnswersAreStored BY DEF AddressInv
<1>2. QED BY <1>1, AddressInvHolds, PTL

\* The stored path of a stored address can be parsed and, unless the chain is
\* another tenant's, leads to its key, on both sides of 2^31
\* (AddressAndPrivFromPath); only a request that named that tenant stores the
\* address of another tenant's chain, and it is that tenant's own.
THEOREM PathAlwaysLeadsToAddress == Spec => []PathLeadsToAddress
<1> DEFINE Leads(a, c) ==
      /\ c.id = a.chainId
      /\ c.tenant = a.tenant \/ c.chain \in Seeded => a.addr = Follow(a.tenant, a.path)
      /\ c.tenant # a.tenant =>
           /\ c.chain \notin Seeded =>
                a.addr = Follow(c.tenant, PathOf(c.tenant, c.chain, a.index))
           /\ \E x \in answers : /\ x.tenant = a.tenant /\ x.body = c.tenant
                                /\ x.index = a.index /\ x.addr = a.addr
<1>1. ASSUME AddressInv, NEW a \in addrs
      PROVE  Parsable(a.path) /\ \E c \in chains : Leads(a, c)
  <2>1. PICK d \in chains : AddrFrom(a, d) /\ NamedBy(a, d)
    BY <1>1 DEF AddressInv, AddrsInv
  <2>2. /\ a.tenant \in Tenant /\ a.index \in Index
        /\ d.chain \in Chain /\ d.tenant \in Tenant
    BY <1>1 DEF AddressInv, TypeOK, AddrRow, ChainRow
  <2>3. CASE d.chain \in Seeded
    <3>1. a.addr = Follow(a.tenant, a.path) BY <2>1, <2>3 DEF AddrFrom, OwnerOf, AddrOf
    <3>2. QED BY <2>1, <2>3, <3>1 DEF AddrFrom, NamedBy
  <2>4. CASE d.chain \notin Seeded
    <3>1. a.addr = KeyOf(d.tenant, d.chain, 0) \o <<0, a.index>>
      BY <2>1, <2>4 DEF AddrFrom, OwnerOf, AddrOf
    <3>2. a.addr = Follow(d.tenant, PathOf(d.tenant, d.chain, a.index))
      BY <2>1, <2>2, <2>4, <3>1, FollowsPath DEF AddrFrom, OwnerOf
    <3>3. QED BY <2>1, <2>4, <3>2 DEF AddrFrom, NamedBy
  <2>5. QED BY <2>1, <2>3, <2>4 DEF AddrFrom
<1>2. AddressInv => PathLeadsToAddress BY <1>1 DEF PathLeadsToAddress
<1>3. QED BY <1>2, AddressInvHolds, PTL
=============================================================================
