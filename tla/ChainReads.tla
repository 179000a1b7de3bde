----------------------------- MODULE ChainReads -----------------------------
(***************************************************************************)
(* Balance queries through the chain gateway (common/chain): GetBalances   *)
(* anchors a query at a block, reads the native balances and then the      *)
(* token balances, each through a singleflight group, so that a request    *)
(* whose key equals that of a running flight takes that flight's result.   *)
(* A flight reads in chunks, one RPC at a time; meanwhile the chain grows. *)
(*                                                                         *)
(* A balance is represented by the block it was read at, or by Zero when   *)
(* the code puts a zero amount in place of a failed reading.  A chain has  *)
(* a head (EVM latest, SOLANA processed and confirmed) and a settled block *)
(* behind it (EVM safe and finalized, SOLANA finalized).  Every RPC is     *)
(* answered at one such block or not at all, by a node that never goes     *)
(* back.                                                                   *)
(***************************************************************************)
EXTENDS Integers, FiniteSets, SequencesExt

CONSTANTS
  Req,        \* the requests, each made once
  Query,      \* what may be asked
  Evm,        \* chains of GetSupportedEVMs
  Number,     \* the modes that are block numbers, with their block
  Hex,        \* an EVM address or token in the spelling Address.Hex gives it
  Prefix,     \* the first eight bytes of a TRON address
  MaxBatch,   \* maxBatch of the clients
  MaxHeight,  \* bound: blocks of a chain
  None

Zero == -1
Height == 0..MaxHeight
Blocks == Height \cup {Zero}

\* The chains with a client: MustRegister of the three packages.
Chain == Evm \cup {"SOLANA", "TRON"}

ASSUME ChainAssumption ==
  /\ {"SOLANA", "TRON"} \cap Evm = {}
  /\ Hex \in [DOMAIN Hex -> DOMAIN Hex]
  /\ DOMAIN Prefix = DOMAIN Hex
  /\ \A q \in Query :
       /\ q.addrs \in Seq(DOMAIN Hex)
       /\ DOMAIN q.tokens \subseteq DOMAIN Hex /\ IsFiniteSet(DOMAIN q.tokens)
       /\ q.tokens \in [DOMAIN q.tokens -> Seq(DOMAIN Hex)]
  /\ \A m \in DOMAIN Number : Number[m] \in Height
  /\ DOMAIN Number \cap {"", "latest", "latest_solid", "safe", "finalized"} = {}
  /\ MaxBatch \in Nat \ {0} /\ MaxHeight \in Nat \ {0}
  /\ None \notin Req \cup Blocks

VARIABLES
  head, settled,  \* of every chain
  pool,    \* pool[c] : the request that made the connection to c, or None
  req,     \* req[r] : where request r is, and what it has
  flight   \* flight[r] : the flight r leads, if any

vars == <<head, settled, pool, req, flight>>

\* No readings; no flight.
Empty == [x \in {} |-> Zero]
NoFlight == [key |-> <<>>, list |-> <<>>, todo |-> <<>>, out |-> Empty]

Init == /\ head = [c \in Chain |-> 1] /\ settled = [c \in Chain |-> 1]
        /\ pool = [c \in Chain |-> None]
        /\ req = [r \in Req |->
             [at |-> "new", q |-> None, height |-> 0, of |-> r, alone |-> TRUE,
              native |-> Empty, tokens |-> Empty]]
        /\ flight = [r \in Req |-> NoFlight]

At(r, place) == req[r].at = place

\* Tokens of an address: nil if there is no entry for it.
TokensOf(q, a) == IF a \in DOMAIN q.tokens THEN q.tokens[a] ELSE <<>>
----------------------------------------------------------------------------
\* The nodes go on by themselves (bounded; only while somebody reads).
Watched(c) == \E r \in Req : /\ req[r].at \notin {"new", "answered", "refused"}
                             /\ req[r].q.chain = c

NewBlock(c) == /\ Watched(c) /\ head[c] < MaxHeight
               /\ head' = [head EXCEPT ![c] = @ + 1]
               /\ UNCHANGED <<settled, pool, req, flight>>

Settle(c) == /\ Watched(c) /\ settled[c] < head[c]
             /\ settled' = [settled EXCEPT ![c] = @ + 1]
             /\ UNCHANGED <<head, pool, req, flight>>

----------------------------------------------------------------------------
\* What the handler of wallet balances asks (cmd/modapi/http/wallet.go).
BalanceOf(c, a, t) ==
  [chain |-> c, addrs |-> <<a>>, tokens |-> [x \in {a} |-> <<t>>], mode |-> "safe"]

\* GetBalances; it is refused at once if the chain has no client.
Ask(r, q) ==
  /\ At(r, "new")
  /\ req' = [req EXCEPT ![r].q = q,
       ![r].at = IF q.chain \in Chain THEN "pick" ELSE "refused"]
  /\ UNCHANGED <<head, settled, pool, flight>>

\* ensurePool, ensureClient: a look under the read lock.  (The picks inside
\* a flight come after Anchor's and find what it found.)
Pick(r) ==
  /\ At(r, "pick")
  /\ req' = [req EXCEPT ![r].at =
       IF pool[req[r].q.chain] # None THEN "anchor" ELSE "dial"]
  /\ UNCHANGED <<head, settled, pool, flight>>

EnsurePoolUnchecked(r) ==  \* mutant: no second look under the lock
  /\ At(r, "dial") /\ req[r].q.chain \in Evm
  /\ pool' = [pool EXCEPT ![req[r].q.chain] = r]
  /\ req' = [req EXCEPT ![r].at = "anchor"]
  /\ UNCHANGED <<head, settled, flight>>

\* The same under the lock: a second look, then the connections.
EnsurePool(r) ==
  /\ At(r, "dial") /\ req[r].q.chain \in Evm
  /\ pool' = [pool EXCEPT ![req[r].q.chain] = IF @ = None THEN r ELSE @]
  /\ req' = [req EXCEPT ![r].at = "anchor"]
  /\ UNCHANGED <<head, settled, flight>>

\* SOLANA and TRON: the first endpoint that is configured, not yet called.
EnsureClient(r) ==
  /\ At(r, "dial") /\ req[r].q.chain \notin Evm
  /\ pool' = [pool EXCEPT ![req[r].q.chain] = IF @ = None THEN r ELSE @]
  /\ req' = [req EXCEPT ![r].at = "anchor"]
  /\ UNCHANGED <<head, settled, flight>>

\* Modes the clients know; SOLANA takes any other for "confirmed".
EvmMode == {"", "latest", "safe", "finalized"} \cup DOMAIN Number
TronMode == {"", "latest", "latest_solid"} \cup DOMAIN Number

Understood(q) == \/ q.chain = "SOLANA"
                 \/ q.chain = "TRON" /\ q.mode \in TronMode
                 \/ q.chain \in Evm /\ q.mode \in EvmMode

\* Anchor of the three clients.
EvmAnchor(q) == CASE q.mode \in DOMAIN Number -> Number[q.mode]
                  [] q.mode \in {"safe", "finalized"} -> settled[q.chain]
                  [] OTHER -> head[q.chain]

SolAnchor(q) == IF q.mode = "finalized" THEN settled[q.chain] ELSE head[q.chain]

\* latest_solid too is answered with the newest block.
TronAnchor(q) ==
  IF q.mode \in DOMAIN Number THEN Number[q.mode] ELSE head[q.chain]

AnchorOf(q) == CASE q.chain \in Evm -> EvmAnchor(q)
                 [] q.chain = "SOLANA" -> SolAnchor(q)
                 [] q.chain = "TRON" -> TronAnchor(q)

\* TRON takes an answer without a header for block 0.
Anchors(q) == {AnchorOf(q)} \cup
  (IF q.chain = "TRON" /\ q.mode \notin DOMAIN Number THEN {0} ELSE {})

Anchored(r) ==
  /\ At(r, "anchor") /\ Understood(req[r].q)
  /\ \E h \in Anchors(req[r].q) :
       req' = [req EXCEPT ![r].at = "native", ![r].height = h]
  /\ UNCHANGED <<head, settled, pool, flight>>

\* No configuration, no connection; an RPC that fails; a mode Anchor refuses.
\* A block number asks the node for nothing.
AnchorFails(r) ==
  /\ \/ At(r, "dial") /\ pool[req[r].q.chain] = None
     \/ /\ At(r, "anchor")
        /\ req[r].q.chain = "SOLANA" \/ req[r].q.mode \notin DOMAIN Number
  /\ req' = [req EXCEPT ![r].at = "refused"]
  /\ UNCHANGED <<head, settled, pool, flight>>

----------------------------------------------------------------------------
ChunksDropLast(s, n) ==  \* mutant: an incomplete last chunk is lost
  [i \in 1 .. Len(s) \div n |-> SubSeq(s, (i - 1) * n + 1, i * n)]

ChunksOverlong(s, n) ==  \* mutant: one element too many
  [i \in 1 .. (Len(s) + n - 1) \div n |->
     SubSeq(s, (i - 1) * n + 1, IF i * n + 1 > Len(s) THEN Len(s) ELSE i * n + 1)]

\* chunkStrings, chunkPairs.
Chunks(s, n) ==
  [i \in 1 .. (Len(s) + n - 1) \div n |->
     SubSeq(s, (i - 1) * n + 1, IF i * n > Len(s) THEN Len(s) ELSE i * n)]

\* What is left to call: each RPC with its items.
Todo(how, chunks) == [i \in DOMAIN chunks |-> [how |-> how, items |-> chunks[i]]]
OneByOne(how, s) == [i \in DOMAIN s |-> [how |-> how, items |-> <<s[i]>>]]

\* resolveMulticall.
Multicall == {"ETH", "BSC", "BSC_TESTNET"}

Flying(l) == flight[l].key # <<>>

\* singleflight.Group.Do: join the flight that has the key, or lead one.
Do(r, key, list, todo) ==
  /\ \/ \E l \in Req :
          /\ flight[l].key = key
          /\ req' = [req EXCEPT ![r].at = "flight", ![r].of = l,
                                ![r].alone = FALSE]
          /\ UNCHANGED flight
     \/ /\ \A l \in Req : flight[l].key # key
        /\ flight' = [flight EXCEPT ![r] =
             [key |-> key, list |-> list, todo |-> todo, out |-> Empty]]
        /\ req' = [req EXCEPT ![r].at = "flight", ![r].of = r]
  /\ UNCHANGED <<head, settled, pool>>

NativeKeyNoHeight(q, h) ==  \* mutant: the key lacks the height
  <<"nb", q.chain, 0, q.addrs>>

NativeKey(q, h) == <<"nb", q.chain, h, q.addrs>>

\* NativeBalanceBatch of the three clients.
NativeTodo(q) ==
  CASE q.chain \in Evm -> Todo("eth_getBalance", Chunks(q.addrs, MaxBatch))
    [] q.chain = "SOLANA" -> Todo("getMultipleAccounts", Chunks(q.addrs, MaxBatch))
    [] q.chain = "TRON" -> OneByOne("getaccount", q.addrs)

NativeBalanceBatch(r) ==
  LET q == req[r].q IN
  /\ At(r, "native")
  /\ IF q.addrs = <<>>
     THEN /\ req' = [req EXCEPT ![r].at = "tokens"]
          /\ UNCHANGED <<head, settled, pool, flight>>
     ELSE Do(r, NativeKey(q, req[r].height), q.addrs, NativeTodo(q))

----------------------------------------------------------------------------
\* An EVM client turns texts into addresses, the others keep them.
Spelling(c, a) == IF c \in Evm THEN Hex[a] ELSE a

\* flattenPairs, and the loops of the others: the [token, owner] pairs of
\* the map, iterated in this order.
PairsOf(q, order) ==
  FlattenSeq([i \in DOMAIN order |->
    [j \in DOMAIN q.tokens[order[i]] |->
       <<Spelling(q.chain, q.tokens[order[i]][j]), Spelling(q.chain, order[i])>>]])

\* hashAddr2Tokens of SOLANA: the words in a row.
SolWords(q, order) ==
  FlattenSeq([i \in DOMAIN order |-> <<order[i]>> \o q.tokens[order[i]]])

\* hashAddr2Tokens of TRON: no hash, but the first eight bytes of the text,
\* and these are of an address.
TronWords(q, order) == Prefix[order[1]]

TokenKey(q, h, order) ==
  <<"tb", q.chain, h, CASE q.chain \in Evm -> PairsOf(q, order)
                        [] q.chain = "SOLANA" -> SolWords(q, order)
                        [] q.chain = "TRON" -> TronWords(q, order)>>

\* TokenBalancesBatch of the clients; SOLANA and TRON walk the map again.
EvmTokenTodo(q, order) ==
  Todo(IF q.chain \in Multicall THEN "tryAggregate" ELSE "eth_call",
       Chunks(PairsOf(q, order), MaxBatch))

SolTokenTodo(q, again) == OneByOne("getTokenAccountsByOwner", PairsOf(q, again))

TronTokenTodo(q, again) == OneByOne("triggerconstantcontract", PairsOf(q, again))

TokenTodo(q, order, again) ==
  CASE q.chain \in Evm -> EvmTokenTodo(q, order)
    [] q.chain = "SOLANA" -> SolTokenTodo(q, again)
    [] q.chain = "TRON" -> TronTokenTodo(q, again)

TokenBalancesBatch(r) ==
  LET q == req[r].q IN
  /\ At(r, "tokens")
  /\ IF \/ DOMAIN q.tokens = {}
        \/ q.chain \in Evm /\ \A a \in DOMAIN q.tokens : q.tokens[a] = <<>>
     THEN /\ req' = [req EXCEPT ![r].at = "answered"]
          /\ UNCHANGED <<head, settled, pool, flight>>
     ELSE \E order, again \in SetToSeqs(DOMAIN q.tokens) :
            Do(r, TokenKey(q, req[r].height, order),
               PairsOf(q, order), TokenTodo(q, order, again))

----------------------------------------------------------------------------
EvmBlockLatest(l) ==  \* mutant: the anchor is forgotten
  head[req[l].q.chain]

\* blockParam: the block an EVM node is asked for.
EvmBlock(l) ==
  LET q == req[l].q IN
  CASE q.mode = "latest" -> head[q.chain]
    [] q.mode \in {"safe", "finalized"} -> settled[q.chain]
    [] q.mode \notin {"latest", "safe", "finalized"} ->
         IF req[l].height = 0 THEN head[q.chain] ELSE req[l].height

\* getCommitmentFromTag.
SolBlock(l) == IF req[l].q.mode = "finalized" THEN settled["SOLANA"] ELSE head["SOLANA"]

\* The next RPC of flight l.
Calls(l, how) == /\ flight[l].todo # <<>>
                 /\ Head(flight[l].todo).how = how

\* A block that is not yet there has no answers.
Known(l, block) == block <= head[req[l].q.chain]

\* The map of balances after the items of a call.
Noted(out, items, failed, block) ==
  [x \in items \cup DOMAIN out |->
    IF x \notin items THEN out[x] ELSE IF x \in failed THEN Zero ELSE block]

\* It is answered at this block, with nothing usable for some items.
Read(l, block) ==
  /\ LET items == ToSet(Head(flight[l].todo).items) IN
     \E failed \in SUBSET items :
       /\ Known(l, block) \/ failed = items
       /\ flight' = [flight EXCEPT
           ![l].todo = Tail(@),
           ![l].out = Noted(@, items, failed, block)]
  /\ UNCHANGED <<head, settled, pool, req>>

\* EVM: a batch of eth_getBalance or eth_call; an error of an element is not
\* looked at and counts as zero.
GetBalanceRead(l) == Calls(l, "eth_getBalance") /\ Read(l, EvmBlock(l))

BatchedBalanceOfRead(l) == Calls(l, "eth_call") /\ Read(l, EvmBlock(l))

\* EVM: a chunk through Multicall, which fails altogether at an unknown block.
MulticallRead(l) ==
  Calls(l, "tryAggregate") /\ Known(l, EvmBlock(l)) /\ Read(l, EvmBlock(l))

\* It fails: all pairs again, without Multicall.
MulticallFails(l) ==
  /\ Calls(l, "tryAggregate")
  /\ flight' = [flight EXCEPT
       ![l].todo = Todo("eth_call", Chunks(flight[l].list, MaxBatch)),
       ![l].out = Empty]
  /\ UNCHANGED <<head, settled, pool, req>>

\* SOLANA: a chunk of accounts, or, after it failed, one after the other.
AccountsRead(l) == Calls(l, "getMultipleAccounts") /\ Read(l, SolBlock(l))

AccountsFail(l) ==
  /\ Calls(l, "getMultipleAccounts")
  /\ flight' = [flight EXCEPT
       ![l].todo = OneByOne("getBalance", Head(@).items) \o Tail(@)]
  /\ UNCHANGED <<head, settled, pool, req>>

AccountRead(l) == Calls(l, "getBalance") /\ Read(l, SolBlock(l))

SPLTokenRead(l) == Calls(l, "getTokenAccountsByOwner") /\ Read(l, SolBlock(l))

\* TRON: its calls name no block.
TronAccountRead(l) == Calls(l, "getaccount") /\ Read(l, head["TRON"])

TRC20Read(l) == Calls(l, "triggerconstantcontract") /\ Read(l, head["TRON"])

AboardLeader(l) ==  \* mutant: the others are not told
  {r \in Req : At(r, "flight") /\ req[r].of = l /\ r = l}

\* Those who wait for the flight of l, its leader among them.
Aboard(l) == {r \in Req : At(r, "flight") /\ req[r].of = l}

\* A batch fails, and the flight with it, for all aboard.
BatchFails(l) ==
  /\ Calls(l, "eth_getBalance") \/ Calls(l, "eth_call")
  /\ flight' = [flight EXCEPT ![l] = NoFlight]
  /\ req' = [r \in Req |-> IF r \in Aboard(l)
               THEN [req[r] EXCEPT !.at = "refused"] ELSE req[r]]
  /\ UNCHANGED <<head, settled, pool>>

\* The flight is over; its one result goes to all aboard.
Land(l) ==
  /\ Flying(l) /\ flight[l].todo = <<>>
  /\ flight' = [flight EXCEPT ![l] = NoFlight]
  /\ req' = [r \in Req |->
       IF r \notin Aboard(l) THEN req[r]
       ELSE IF flight[l].key[1] = "nb"
            THEN [req[r] EXCEPT !.native = flight[l].out, !.at = "tokens"]
            ELSE [req[r] EXCEPT !.tokens = flight[l].out, !.at = "answered"]]
  /\ UNCHANGED <<head, settled, pool>>

\* The results of GetBalances, one for every address of the list.
Result(r) ==
  [a \in ToSet(req[r].q.addrs) |->
    [native |-> IF a \in DOMAIN req[r].native THEN req[r].native[a] ELSE None,
     tokens |-> {x[1] : x \in {y \in DOMAIN req[r].tokens : y[2] = a}}]]

----------------------------------------------------------------------------
Fly(l) == \/ GetBalanceRead(l) \/ MulticallRead(l) \/ BatchedBalanceOfRead(l)
          \/ MulticallFails(l) \/ BatchFails(l)
          \/ AccountsRead(l) \/ AccountsFail(l) \/ AccountRead(l) \/ SPLTokenRead(l)
          \/ TronAccountRead(l) \/ TRC20Read(l)
          \/ Land(l)

Step(r) == \/ Pick(r) \/ EnsurePool(r) \/ EnsureClient(r)
           \/ Anchored(r) \/ AnchorFails(r)
           \/ NativeBalanceBatch(r) \/ TokenBalancesBatch(r)
           \/ Fly(r)

Next == \/ \E c \in Chain : NewBlock(c) \/ Settle(c)
        \/ \E r \in Req : (\E q \in Query : Ask(r, q)) \/ Step(r)

Spec == Init /\ [][Next]_vars

\* Go schedules every goroutine, and every RPC ends within reqTimeout.
FairSpec == Spec /\ \A r \in Req : WF_vars(Step(r))

----------------------------------------------------------------------------
Done(r) == At(r, "answered") \/ At(r, "refused")

\* State is well-formed, a flight is led by a request aboard it, and no RPC
\* asks for more than maxBatch items (evm/abi.go chunkStrings, chunkPairs).
TypeOK ==
  /\ head \in [Chain -> Height] /\ settled \in [Chain -> Height]
  /\ \A c \in Chain : settled[c] <= head[c]
  /\ pool \in [Chain -> Req \cup {None}]
  /\ \A r \in Req : ~At(r, "new") =>
       /\ req[r].q \in Query /\ req[r].height \in Height /\ req[r].of \in Req
       /\ req[r].at \in {"pick", "dial", "anchor", "native", "tokens", "flight",
                         "answered", "refused"}
       /\ \A x \in DOMAIN req[r].native : req[r].native[x] \in Blocks
       /\ \A x \in DOMAIN req[r].tokens : req[r].tokens[x] \in Blocks
  /\ \A l \in Req : Flying(l) =>
       /\ l \in Aboard(l)
       /\ \A i \in DOMAIN flight[l].todo : Len(flight[l].todo[i].items) \in 1..MaxBatch
       /\ \A x \in DOMAIN flight[l].out : flight[l].out[x] \in Blocks

\* No balance of an answer is older than the anchor the answer names, though
\* another request may have read it (singleflight keys with the height).
NotBeforeAnchor ==
  \A r \in Req : At(r, "answered") =>
    \A f \in {req[r].native, req[r].tokens} : \A x \in DOMAIN f :
      f[x] = Zero \/ f[x] >= req[r].height

\* An answer has a native balance for every address of the list and, for
\* each, the tokens asked for it and no others, although another request may
\* have read them (the keys of the clients; explodePairs, whose map is keyed
\* by the spelling of Hex, so an address in another one gets no tokens).
Answered(r) ==
  LET q == req[r].q IN
  \A a \in ToSet(q.addrs) :
    /\ Result(r)[a].native # None
    /\ Spelling(q.chain, a) = a =>
         Result(r)[a].tokens = {Spelling(q.chain, t) : t \in ToSet(TokensOf(q, a))}

AnswersTheQuestion ==
  \A r \in Req : At(r, "answered") /\ req[r].q.chain # "TRON" => Answered(r)

\* "hashAddr2Tokens computes the hash of the map from addresses to token
\* lists" (tron/client.go, comment): so a TRON request too gets the tokens it
\* asked for.
TronAnswersTheQuestion ==
  \A r \in Req : At(r, "answered") /\ req[r].q.chain = "TRON" => Answered(r)

\* In an EVM query without a mode all balances are of one block, the anchor's,
\* unless it shared a flight with a request that asked for a tag (blockParam).
AloneIsSnapshot ==
  \A r \in Req :
    (At(r, "answered") /\ req[r].alone /\ req[r].q.chain \in Evm /\ req[r].q.mode = "") =>
      \A f \in {req[r].native, req[r].tokens} : \A x \in DOMAIN f :
        f[x] \in {Zero, req[r].height}

\* The connections of a chain are made once: nobody replaces a pool that
\* others use (ensurePool's second look).
OnePool == [][\A c \in Chain : pool[c] # None => pool'[c] = pool[c]]_pool

\* Every query ends, whatever fails: also for those who only wait for the
\* flight of another.  (A request is made once and an end is final, so this
\* is what every request's own ~> says, in one formula.)
Settles == <>[](\A r \in Req : At(r, "new") \/ Done(r))
=============================================================================
