---------------------------- MODULE WalletCreate ----------------------------
(***************************************************************************)
(* WalletCreate of cmd/modapi/service/wallet.go: find or insert the row of *)
(* tenant_chain for a tenant and chain, then find or insert the row of     *)
(* tenant_address for an index, in one REPEATABLE READ transaction.        *)
(*                                                                         *)
(* Both finds are plain reads of the snapshot the first one takes, and no  *)
(* key of the tables is unique but the ids.  The chain is looked up by the *)
(* tenant id and the code in the request body, and stored under the id of  *)
(* the caller's tenant and the name the code stands for.  Nothing compares *)
(* the two ids: a body that names another tenant is served with the xpub   *)
(* in that tenant's row.                                                   *)
(*                                                                         *)
(* A key is a node of the tree under a tenant's master key, written as the *)
(* tenant and the child numbers down to it; the address of a key stands    *)
(* for the key.  The derivations (BIP-32, SLIP-10) are deterministic and   *)
(* are assumed not to collide.  Child numbers are words of 32 bits, and    *)
(* from Half = 2^31 on they are the hardened ones.                         *)
(***************************************************************************)
EXTENDS Integers, FiniteSets, Sequences

CONSTANTS
  Req,        \* slots for requests in flight
  Tenant,     \* ids of tenants
  Request,    \* what may be asked: [tenant, body, code, index], where body is the
              \* tenant_id of the body (0 if there is none, or no tenant has it),
              \* and index its unique_id
  Code,       \* chain codes in requests
  Chain,      \* chain names, CheckValidChainCode's table
  Name,       \* Name[c] : the name code c stands for
  CoinType,   \* CoinType[n] : the coin type of chain n
  Derivable,  \* chains DeriveEvmAddressFromXpub or DeriveSOL knows
  Seeded,     \* chains derived from the seed, not from the xpub (SOLANA)
  Half,       \* half of the words
  MaxConn,    \* connections the database gives
  MaxId,      \* bound: rows ever inserted in a table
  Idle

Index == 0..(2 * Half - 1)

ASSUME WalletAssumption ==
  /\ IsFiniteSet(Req)
  /\ Tenant \subseteq Nat \ {0}
  /\ Name \in [Code -> Chain] /\ \A c \in Code \cap Chain : Name[c] = c
  /\ Derivable \subseteq Chain /\ Seeded \subseteq Derivable
  /\ Half \in Nat /\ Half > 44
  /\ CoinType \in [Chain -> 0..(Half - 1)]
  /\ MaxConn \in Nat /\ MaxId \in Nat
  /\ \A q \in Request : /\ q.tenant \in Tenant /\ q.body \in Tenant \cup {0}
                        /\ q.code \in Code /\ q.index \in Index

VARIABLES
  chains,   \* committed rows of tenant_chain
  addrs,    \* committed rows of tenant_address
  lastId,   \* the last ids given out, of both tables
  tx,       \* tx[r] : the transaction of the request in slot r, or Idle
  open,     \* open transactions of the server
  answers,  \* what requests were answered (history)
  found     \* answers with an address that was there already (history)

vars == <<chains, addrs, lastId, tx, open, answers, found>>

Word(n) == n % (2 * Half)
Hardened(n) == Word(n + Half)

Key == Seq(Nat)

KeyOfRow(t, n, id) ==  \* mutant: the account of the row's id
  <<t, Hardened(44), Hardened(CoinType[n]), Hardened(Word(id))>>

\* The account of the tenant, in 32 bits: m/44'/coin'/tenant', whose xpub the
\* row keeps; for a chain derived from the seed it keeps none.
KeyOf(t, n, id) ==
  IF n \in Seeded THEN <<>>
  ELSE <<t, Hardened(44), Hardened(CoinType[n]), Hardened(Word(t))>>

\* A derivation path: numbers, with a prime or without.
Plain(n) == [num |-> n, prime |-> FALSE]
Prime(n) == [num |-> n, prime |-> TRUE]
Path == Seq([num : Nat, prime : BOOLEAN])

Account(t, n) == <<Prime(44), Prime(CoinType[n]), Prime(Word(t))>>

PathOf(t, n, i) ==
  Account(t, n) \o
    IF n \notin Seeded THEN <<Plain(0), Plain(i)>>
    ELSE IF i = 0 THEN <<Prime(0)>> ELSE <<Prime(0), Prime(i)>>

\* parseBIP44Path: every number has 31 bits, and a prime adds Half.
Parsable(path) == \A k \in DOMAIN path : path[k].num < Half
Parsed(path) == [k \in DOMAIN path |-> path[k].num + IF path[k].prime THEN Half ELSE 0]

\* DeriveChildXprv, deriveSOLFromSeed: from the master down the path.
Follow(t, path) == <<t>> \o Parsed(path)

ChainRow == [id : 1..MaxId, tenant : Tenant, chain : Chain, key : Key]
AddrRow == [id : 1..MaxId, tenant : Tenant, chainId : 1..MaxId, index : Index,
            addr : Key, path : Path]

\* at: the call made next; the snapshot; the chain row found or inserted;
\* the rows this transaction has inserted.
Tx == [at : {"insert_chain", "address", "commit"}, req : Request,
       seen : SUBSET AddrRow, chain : SUBSET ChainRow,
       newChains : SUBSET ChainRow, newAddrs : SUBSET AddrRow]

ASSUME IdleAssumption == Idle \notin Tx

Answer == [tenant : Tenant, body : Tenant \cup {0}, chain : Chain, index : Index,
           addr : Key]

Active == {r \in Req : tx[r] # Idle}

TypeOK == /\ chains \subseteq ChainRow
          /\ addrs \subseteq AddrRow
          /\ lastId \in [{"chain", "addr"} -> 0..MaxId]
          /\ tx \in [Req -> Tx \cup {Idle}]
          /\ open \in 0..MaxConn
          /\ answers \subseteq Answer
          /\ found \in Nat

Init == /\ chains = {} /\ addrs = {}
        /\ lastId = [t \in {"chain", "addr"} |-> 0]
        /\ tx = [r \in Req |-> Idle]
        /\ open = 0
        /\ answers = {}
        /\ found = 0

----------------------------------------------------------------------------
At(r, at) == tx[r] # Idle /\ tx[r].at = at

\* First: the row with the least id.
FirstOf(S) == {x \in S : \A y \in S : x.id <= y.id}

\* tenant_id = request.TenantID and chain = request.Chain
ChainsFor(q) == {x \in chains : x.tenant = q.body /\ x.chain = q.code}

\* Begin, and the first read, which takes the snapshot.  Without a connection
\* Begin fails and the request is answered with an error.
Begin(r, q) ==
  /\ tx[r] = Idle /\ open < MaxConn
  /\ open' = open + 1
  /\ LET row == FirstOf(ChainsFor(q)) IN
     tx' = [tx EXCEPT ![r] =
       [at |-> IF row = {} THEN "insert_chain" ELSE "address", req |-> q,
        seen |-> addrs, chain |-> row, newChains |-> {}, newAddrs |-> {}]]
  /\ UNCHANGED <<chains, addrs, lastId, answers, found>>

\* GenerateDerivationChain, for the caller's tenant.
InsertChain(r) == LET q == tx[r].req  id == lastId["chain"] + 1 IN
  /\ At(r, "insert_chain") /\ id <= MaxId
  /\ lastId' = [lastId EXCEPT !["chain"] = id]
  /\ LET row == {[id |-> id, tenant |-> q.tenant, chain |-> Name[q.code],
                  key |-> KeyOf(q.tenant, Name[q.code], id)]} IN
     tx' = [tx EXCEPT ![r] =
       [@ EXCEPT !.at = "address", !.chain = row, !.newChains = row]]
  /\ UNCHANGED <<chains, addrs, open, answers, found>>

\* tenant_id, tenant_chain_id and address_index of the request.  The error of
\* this read is ignored; a connection that fails it fails the save as well.
AddressesFor(r) == {a \in tx[r].seen :
  /\ a.tenant = tx[r].req.tenant
  /\ \E c \in tx[r].chain : a.chainId = c.id
  /\ a.index = tx[r].req.index}

Answered(q, addr) == answers \cup
  {[tenant |-> q.tenant, body |-> q.body, chain |-> Name[q.code], index |-> q.index,
    addr |-> addr]}

\* The address is there: its row is returned, and the transaction is neither
\* committed nor rolled back, since committed is set.
Found(r) == LET q == tx[r].req IN
  /\ At(r, "address")
  /\ \E a \in FirstOf(AddressesFor(r)) : answers' = Answered(q, a.addr)
  /\ found' = found + 1
  /\ tx' = [tx EXCEPT ![r] = Idle]
  /\ UNCHANGED <<chains, addrs, lastId, open>>

DerivedAtId(q, c) ==  \* mutant: the child of the row's id
  IF c.chain \in Seeded THEN Follow(q.tenant, PathOf(q.tenant, c.chain, q.index))
  ELSE c.key \o <<0, c.id>>

\* DeriveAddressFromXpub: children 0 and index of the key in the chain row; on
\* SOLANA down the path from the seed of the caller's tenant.
Derived(q, c) ==
  IF c.chain \in Seeded THEN Follow(q.tenant, PathOf(q.tenant, c.chain, q.index))
  ELSE c.key \o <<0, q.index>>

\* An xpub has no hardened children, and go-slip10 takes no number of more
\* than 31 bits.
CanDerive(q, c) ==
  /\ c.chain \in Derivable
  /\ IF c.chain \in Seeded THEN Parsable(PathOf(q.tenant, c.chain, q.index))
     ELSE q.index < Half

\* tenant_address.tenant_id is an int(11), a signed word.
FitsColumn(t) == t < Half

InsertAddress(r) == LET q == tx[r].req  id == lastId["addr"] + 1 IN
  /\ At(r, "address") /\ AddressesFor(r) = {} /\ id <= MaxId
  /\ lastId' = [lastId EXCEPT !["addr"] = id]
  /\ \E c \in tx[r].chain :
       /\ CanDerive(q, c) /\ FitsColumn(q.tenant)
       /\ LET row == [id |-> id, tenant |-> q.tenant, chainId |-> c.id, index |-> q.index,
                      addr |-> Derived(q, c), path |-> PathOf(q.tenant, c.chain, q.index)] IN
          tx' = [tx EXCEPT ![r] = [@ EXCEPT !.at = "commit", !.newAddrs = {row}]]
  /\ UNCHANGED <<chains, addrs, open, answers, found>>

SavedNot(r) == addrs  \* mutant: the new row is returned but not saved

Saved(r) == addrs \cup tx[r].newAddrs

Commit(r) == LET q == tx[r].req IN
  /\ At(r, "commit")
  /\ chains' = chains \cup tx[r].newChains
  /\ addrs' = Saved(r)
  /\ \E a \in tx[r].newAddrs : answers' = Answered(q, a.addr)
  /\ open' = open - 1
  /\ tx' = [tx EXCEPT ![r] = Idle]
  /\ UNCHANGED <<lastId, found>>

ClosedNot == open  \* mutant: an early return leaves the transaction open

Closed == open - 1

\* A database error, an address that cannot be derived or stored, or a panic:
\* the deferred function rolls back.
Rollback(r) ==
  /\ tx[r] # Idle
  /\ open' = Closed
  /\ tx' = [tx EXCEPT ![r] = Idle]
  /\ UNCHANGED <<chains, addrs, lastId, answers, found>>

Next == \E r \in Req :
  \/ \E q \in Request : Begin(r, q)
  \/ InsertChain(r) \/ Found(r) \/ InsertAddress(r) \/ Commit(r)
  \/ Rollback(r)

Spec == Init /\ [][Next]_vars

----------------------------------------------------------------------------
\* The tenant whose master key an address comes from.
Master(addr) == addr[1]

\* Whatever requests race, repeat or fail, there is one address for the keys of
\* a tenant, a chain and an index, although the tables may hold several rows
\* for it (DeriveAddressFromXpub after either lookup).  A caller is told the
\* one of its own keys or the one of the keys of the tenant its body names: so
\* all its answers agree unless it names another tenant.
AnswersAgree == \A a, b \in answers :
  /\ Master(a.addr) \in {a.tenant, a.body}
  /\ a.chain = b.chain /\ a.index = b.index /\ Master(a.addr) = Master(b.addr)
       => a.addr = b.addr

\* A stored address refers to a stored chain, and its stored path can be
\* parsed.  Where the chain is the tenant's own, or is derived from its seed,
\* the path leads to the key of the address (AddressAndPrivFromPath): it can be
\* spent from.  This is not so for tenants from 2^31 on, whose accounts wrap to
\* children that are not hardened, but their addresses cannot be stored.  The
\* chain of another tenant comes only from a request that named that tenant,
\* and then the address is the one that tenant has at this index.
PathLeadsToAddress == \A a \in addrs :
  /\ Parsable(a.path)
  /\ \E c \in chains :
       /\ c.id = a.chainId
       /\ c.tenant = a.tenant \/ c.chain \in Seeded => a.addr = Follow(a.tenant, a.path)
       /\ c.tenant # a.tenant =>
            /\ c.chain \notin Seeded =>
                 a.addr = Follow(c.tenant, PathOf(c.tenant, c.chain, a.index))
            /\ \E x \in answers : /\ x.tenant = a.tenant /\ x.body = c.tenant
                                 /\ x.index = a.index /\ x.addr = a.addr

\* An address a request was told is stored, so that WalletBalanceQuery and a
\* later request find it.
AnswersAreStored == \A a \in answers : \E x \in addrs :
  x.tenant = a.tenant /\ x.index = a.index /\ x.addr = a.addr

\* No error path leaves its transaction open: besides those of requests in
\* flight there are only the ones of requests that found their address.
OnlyFoundStaysOpen == open = Cardinality(Active) + found

\* wallet.go:40, "if !committed": a transaction that is not committed when the
\* request ends is rolled back, so none is open while no request runs.
NoneLeftOpen == Active = {} => open = 0
=============================================================================
