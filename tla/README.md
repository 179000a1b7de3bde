# Walletus: models and proofs

This directory holds TLA+ models of walletus, the Go service in `src/`
(`cmd/modapi`): a custodial wallet back end with a portal for payrolls, users,
roles and tenants. The modules are translated from the source; `PROJECT.json`
names the lines each definition stands for.

## The system

Every HTTP request is a handler running in a goroutine of its own (gin). The
handlers keep no state between calls except a few package-level caches; the
state is in a MySQL database reached through gorm. Most handlers run their
database calls outside any transaction, so between two calls of one request
the calls of other requests run. That is where most of the hazards are.

| Component | State | Operations | What is hard | Modules |
|---|---|---|---|---|
| payroll workflow (`http/portal/admin.go` 604-1645) | `admin_portal_payroll`, `admin_portal_payslip` | create, update, delete, submit, audit, pay, status check, slip removal | stale copies written back by `db.Save`, unlocked month check, remote receipt query between read and write | `Payroll`, `PayrollWorkflow` |
| payroll settings (`http/portal/sys.go`) | rows of `admin_portal_spec` | read, save (delete all, insert) | save is two calls without a transaction | `PayrollSettings` |
| portal users and departments (`http/portal/admin.go` 37-602, 1256-1359) | `admin_portal_user`, `_dept`, `_dept_user`, `_user_wallet` | add, update, delete, password reset, wallet binding; login, lists, dashboard | whole rows saved from old reads, link lists replaced in two statements, check-then-insert of wallets whose read may fail unnoticed | `PortalAdmin` |
| roles, functions and token check (`http/portal/rbac.go`, `interceptor/tokenor.go`, `service/portal.go`) | `admin_portal_role`, `_func`, `_role_func`, `_user_role` | role CRUD, bind, unbind, menus; token and permission check before every handler | rights that change between the reads of the check, errors of those reads that nobody looks at, functions found by the address as written | `PortalAdmin` |
| tenants (`http/tenant.go`, `http/portal/tenant.go`) | `tenant`, `sys_channel` | create, update and delete over the signed interface and in the portal | unlocked uniqueness check, transaction left open on one error path, whole rows saved | `Tenants` |
| channel keys (`interceptor/apitor.go`, `wsor.go`) | `sys_channel`, key cache | find the caller of a signed request | which tenant a channel stands for | `Tenants` (not the cache) |
| wallet creation (`cmd/modapi/service/wallet.go`, `http/wallet.go`) | `tenant_chain`, `tenant_address` | derive and store chain and address | a return path without commit or rollback, check-then-insert, chain aliases, a tenant id in the body that nothing compares with the caller, integer widths | `WalletCreate` |
| key derivation (`common/bip/...`) | none | paths, addresses | widths of path elements, parsing | `WalletCreate` |
| number generator (`common/system/rand.go`) | table `user_seq` | next number of a day, digits with a check digit | row lock, first insert of the day, the bound, digits lost in the shuffle | `SeqGenerator`, `NumberDispenser`, `UserNumbers` |
| task queue `RichQueue` (`common/system/queue_enhance.go`) | slots, sign-in map | enqueue, delayed enqueue, batch, dequeue, consumers | sign-in released late or early, one token for many items | `RichQueue` |
| chain gateway and clients (`common/chain/...`) | client registry, RPC pools, flights | balances on EVM chains, SOLANA, TRON; receipts | double-checked pool creation, shared flights, chunks, fallbacks, errors turned into zero balances | `ChainReads` |
| task queue `SlotQueue`, process start and shutdown, routing, configuration, logging, requests, codes, token encryption, `modscanner` | | | | not modelled, see the end |

How they meet: `TokenInterceptor` runs before every portal handler and
`HttpInterceptor` before every signed one; the latter hands `WalletCreate` the
tenant whose keys it uses. The settings saved by one handler are read by Pay and
by the wallet binding. Pay and the status check ask the chain clients for a
receipt. Each module states at the seam what it assumes of the other side:
`Payroll` takes any chain for the settings and a growing set of confirmed
transactions for the chains; `WalletCreate` takes any tenant and any tenant id in
the body; `Tenants` makes `WalletCreate` one step that notes whose key it got and
for which tenant the chain is found.

## Modules

The `MC` modules hold only values of constants and symmetry sets.

### `Payroll`: the payroll handlers

State: `payroll` is the payroll table (one row per id, or `NoRow`), `slips` the
payslip table, `job` the requests in flight. A row keeps its status, flag,
payment (the columns `tx_hash` and `chain`, which only Pay writes, together)
and `body`, which stands for the columns copied from the request (month and
total); a slip carries the `body` of the request that inserted it. `confirmed`
is the outside world: the transactions a chain has included with status `0x1`.
`approvals` and the field `claim` of a row are history: which payrolls an audit
request saved as approved, and the status the request that gave a row its `body`
asked for. Update stores whatever status the client sends (`admin.go:772`), so in
`UpdateBegin` it is any of `Status`; the properties about status say what holds of
rows that an update did not put there itself.

Each handler is cut at its database and RPC calls. `...Begin` is the first read
with the checks on the copy, `SubmitSlips`, `PaySettings` and `CheckReceipt` are
the second call with the checks after it, `Save` and `UpdateCommit` write the
copy back. A request that is refused by its first read changes nothing and is
no step; a request that fails or is refused later ends with `Abort`, which also
stands for a server that stops. The transaction of Update is one step because
its first statement locks the row until it commits; the transaction of Create
is two steps because its check is a non-locking read. Pay reads the settings of
the moment: since they can be saved at any time, `PaySettings` takes any chain.

One request slot means one request at a time; two or more mean that requests
interleave. What holds in which case differs, and the runs and theorems say so.

### `PayrollWorkflow`: what the handlers promise together

The life of a payroll, one step per accepted request. `Payroll` with one slot
implements it under the mapping `WorkflowStatus`, `WorkflowPayment`.

### `PayrollSettings`: saving and reading the settings

State: `rows` is the part of `admin_portal_spec` that holds the payroll
settings, `save` the save requests between their DELETE and their INSERT,
`shown` the settings `PortalPayrollPayConfig` has shown to a user who is about
to pay. `SaveBegin` is the DELETE, which may fail unnoticed (its error is not
looked at); `SaveInsert` is the one INSERT of the settings that are not empty,
`SaveFail` its failure. `Current` is what the loop of the readers makes of the
rows: a later row overwrites an earlier one. A save may leave settings empty.
`saved`, `paid` and `untidy` are history: the contents of all saves, what the last
payment was shown and recorded with, and whether a DELETE has failed or two saves
have run side by side since a save last emptied the table alone.

### `PortalAdmin`: users, departments, roles and the check before every handler

State: the rows of users, roles and departments, their link tables, the wallets
of users, the requests in flight. A row is a deletion flag, a name (all the
columns an update writes) and a password, each represented by the request that
wrote it, so that a lost update shows as an older writer. `seen` and `moved` are
history: what was true of the caller at some moment of the check, and which
fields of its row changed since the request came.

A request passes `TokenCheckUser`, `TokenCheckGrants` and `TokenCheckFunc`, the
three reads of `TokenInterceptor`, each of which may fail without the code looking
at the error (`failed` notes it), and then its handler. The function is looked up
by the address as the client wrote it: `uri` says whether that is the registered
one, one with more after it, which is cut only for the handlers of
`splitRequestingForGrants` (`SplitOp`), or another spelling; `Registered` follows from
it. The handlers: read and save of one row (`FindRow`,
`SaveRow`), the inserts (`Create`), the transactions of UserUpdate and UserDelete
statement by statement, the three calls of StaffWallet (the second, `StaffWalletFind`, may
fail unnoticed too), and the single
statements of the bindings. Only UserAdd, UserUpdate and UserDelete run in a
transaction. The model assumes no more of the database than READ COMMITTED with
row locks held to the end of a transaction; waiting for each other (UserUpdate
and UserDelete lock in opposite orders) ends with `Fail`, the rollback of one.

### `Tenants`: tenants, channels, and whose keys a request uses

State: the tables `sys_channel` and `tenant`, the last ids given out, the open
transactions, the requests in flight. `InterceptChannel` and `InterceptTenant`
are the two reads of `HttpInterceptor`; `CreateLook` and `CreateSave` the check
and the insert of TenantCreate, whose failed look counts as "none"; `FindRow` and
`SaveRow` the three handlers that read a row and save all of it; `Portal...` the
transaction of PortalTenantCreate, with `PortalKeysFail` the return without
rollback when the keys cannot be generated. A key is named by the request that
generated it; a signature is valid for the channel it was made for. `chains`
is `tenant_chain`: the tenant a chain is stored for and the tenant whose key it is
derived from. `ServeWallet` looks it up by the tenant id of the body, as
`service/wallet.go:46` does, and notes in `served` the channel, its tenant, that id
and whose key it got. `served`, `leaked` and `moved` are history. As in the code, a deleted tenant is still found
by its channel and served.

### `WalletCreate`: find or insert a chain and an address

State: the committed rows of `tenant_chain` and `tenant_address`, and per
request a transaction with the snapshot of its first read (REPEATABLE READ)
and the rows it has inserted. `open` counts open transactions of the server, of
requests in flight or not: a request that finds its address returns without
commit or rollback (`Found`). Chain codes are looked up as they are in the
request and stored under the chain's name, which matters for the alias
`arbitrum`; the tenant id of the body is used for the lookup and the id of the
authenticated tenant for everything else. Nothing compares the two: a body may
name another tenant, and then the address is derived from the chain of that one.

A key is the tenant and the child numbers down to it, words of `2 * Half`
(`Half` stands for 2^31), so that truncation to `uint32`, hardening and the
indexes without an unhardened child are those of the code. `PathOf` and `Parsed`
are the path written and read back. The column of tenant ids is a signed word
(`FitsColumn`). The curves and hashes (BIP-32, and SLIP-10 of `go-slip10`, which is
external) are deterministic and assumed without collision.

### `SeqGenerator` and `UserNumbers`: the numbers of a day

State: the row of `user_seq` per key (day and flag), the row locks, the calls
in flight, the numbers drawn in commit order. `Lock` is the SELECT ... FOR
UPDATE that finds a row, `NotFound` the one that does not and so locks nothing,
`Insert` and `Duplicate` the two outcomes of the INSERT under the primary key.
`Rollback` stands for every error and for a server that stops. A number is
counted as drawn when its transaction commits. `Capacity` is how many numbers four
digits can print (10000, as the comments count them); the check of the code stops
one short of it (`Full`), so the last number is never drawn. `UserNumbers` adds what `Generate`
prints for a number: the shuffle of the digits of the day by bytes of the
secret, their rotation, four digits, three random ones and the Luhn digit.
`NumberDispenser` is what callers may rely on: a counter per key that is read and
advanced in one step, up to the last number but one. `SeqGenerator` implements it with the numbers drawn and the
keys refused as its state; a draw is one step of it at the commit.

### `RichQueue`: queues that share a sign-in map

State: per queue its items, its token and its mutex; `locked` is `signInLocks`;
`prod` the enqueues in progress, `at` and `work` the consumers and the handlers
they wait for; `taken` the items handed out by `Dequeue` itself. `Enqueue` signs
in before it takes the mutex and is two steps; `BatchEnqueue` signs in one item
after the other under the mutex and is a step per item, since other queues use
the map meanwhile. Handlers of items in `Retried` may call `EnqueueWithDelay`.
A handler that panics ends like one that returns: the deferred calls run.

### `ChainReads`: balance queries

State: per chain its head and its settled block (safe, finalized), the
connections made to it, the queries, and the flights of the singleflight groups.
A balance is represented by the block it was read at, or `Zero` where the code
puts zero for a reading that failed. A query picks or makes the connection
(`Pick`, `EnsurePool`, `EnsureClient`), is anchored (`Anchored`), and reads native
balances and then tokens, each by leading a flight or joining one with the same
key (`Do`). A flight is a list of RPCs: chunks of `MaxBatch` on EVM and SOLANA, one
by one on TRON; Multicall falls back to a batch of all pairs (`MulticallFails`),
a chunk of SOLANA accounts to one call each (`AccountsFail`), a failed batch fails
all who wait for it (`BatchFails`). The keys of flights are translated with their
shortcomings: `TronWords` is the first eight bytes of one address. One RPC is
answered at one block by a node that never goes back; meanwhile `NewBlock` and
`Settle` go on. A mode that is a number may name a block that is not there yet: the
calls for it fail (`Known`). The TRON client takes a block without a header for
block 0 (`Anchors`), and its calls name no block at all. A request that has not
come is `"new"`; a flight that is over, or was never started, is `NoFlight`.
`Settles` says that from some time on every request is answered, refused or never
came.

## Runs

| Run | Bounds | Shows |
|---|---|---|
| `payroll_races` | 2 requests, 1 payroll, 2 contents, 2 transactions, 2 chains | what rows and slips keep under every interleaving, with updates to any status |
| `payroll_serial` | 1 request, 2 payrolls, 2 months (one content with slips, one without), 1 transaction on 1 chain, fairness | the workflow and the relations of row, slips and month, one request at a time; a confirmed payment on a supported chain is settled |
| `payroll_paid_twice` | 2 requests, 1 payroll | violation: Pay records a payment on a payroll that is not approved |
| `settings_races` | 2 saves in flight; contents that give all settings (2), one, and none; 2 users, 12 rows ever, DELETE may fail | settings found, shown or paid with are never a part of a save, and mix two only after a lost DELETE or two saves at once |
| `wallet_races` | 2 requests out of 11, codes `arbitrum`, `ETH`, `SOLANA`, `BSC_TESTNET`, indexes 0, 1 and Half, tenants 1, 2 and Half + 1, bodies that name no tenant, the caller or another, 3 connections, 3 rows a table | one address per master key, chain and index in all answers, the caller's or that of the tenant its body names; stored; spendable by the stored path where the chain is the caller's; no error path leaves a transaction open |
| `wallet_leak` | 1 request, 2 connections | violation: a repeated request leaves its transaction open |
| `seq_generator` | 3 calls, 2 days, capacity 3, 2 secrets, fairness | calls draw as from `NumberDispenser`: numbers in order without gap or repetition, refusal only when all but the last are drawn (a finding: the comments count the last one in); every call ends; numbers printed differ in two digits at least |
| `queue` | 2 queues, 1 producer, 2 consumers, 2 items (one put off by its handlers), batches of 2, batch size 1, fairness | no lost wake-up; an item is signed in exactly while one party has it; everything signed in is handled |
| `chain_reads` | 2 queries out of 7 on ETH, SOLANA, TRON and a chain without a client, chunks of 2, up to 3 tokens, 3 heights, fairness | answers are complete, not older than their anchor, of one block when nothing was shared; one pool per chain; every query ends |
| `chain_tron` | 2 TRON queries for one address | violation: one is answered with the tokens of the other |
| `portal_admin` | 3 requests out of 17, 4 users, 2 roles, 3 departments, 2 functions, addresses as registered or with more after them | who passes or fails the check, reads that fail included; department lists unmixed; deleted rows and passwords are undone in races only, a second wallet comes from a race or a failed read |
| `tenants` | 3 requests out of 14, 2 unique ids, 5 rows a table | channel and tenant come together; a channel's wallets are of its tenant's key or of the key of the tenant the body names; deleted tenants and double unique ids in races only; which transactions leak |

Why these bounds. Two requests are enough to put any write between a read and
its write; two contents tell the slips of two requests apart; two transactions
tell a payment from the one that overwrites it. In `portal_admin` and `tenants` a
third request lets a deletion or a binding be over before the second one comes,
which is what separates a race from an update that should have seen it. Three
calls of `nextSeq` let two of them race for the first row of a day while a third
waits for the winner's lock; two drawn numbers fill a day of capacity 3 with calls
still waiting. In the queues one item is put off by its handlers and one is not;
batches of 2 with a batch size of 1 leave items behind in a queue whose token is
taken, and an item can be offered to both queues. Three tokens in chunks of two
make an incomplete last chunk; three heights let the chain grow between the
anchor and each of two readings. `Half = 600` keeps the coin types 60 and 501
below it, as 2^31 does. `MaxId`, `MaxSlots`, `MaxBatch` (of `RichQueue`), `MaxConn` and
`MaxHeight` are the bounds of the models and are named in their modules.

Deadlock is not checked where the system may stop: a workflow ends when all
payrolls are paid or rejected and the ids are used up; wallet requests end when
the connections or rows are used up; every query, administrative request and
tenant request is made once; consumers stop when they are cancelled. The number
generator and the settings are checked for deadlock.

### What the code does and no property forbids

The models allow these steps, as the code does, and the properties are stated
so that they hold beside them. They are worth a reader's attention.

- Two Creates that interleave can both insert a payroll for a month, and Update
  moves a payroll into a taken month (`FreshMonth` is about Create, one request
  at a time). A paid payroll does not keep its month (`TakesMonth` skips "paid"
  as line 658 of `admin.go` does, though the message at line 661 mentions
  "rejected" only).
- Update stores any status the request carries: a draft can so become approved
  without an audit, paid without a transaction, or submitted without the check of
  the addresses. `claim` marks such rows, and the properties exempt them by name.
- The tenant id in the body of a wallet request is not compared with the caller's:
  naming another tenant gives an address of that tenant's keys, stored for the
  caller. The properties say that this happens to such a request only.
- `TokenInterceptor` finds the function by the address as written, so a handler
  asked with a query appended (outside `splitRequestingForGrants`) needs no
  permission; the errors of its three reads are not looked at: a failed read of
  the user or the grants refuses, one of the function admits.
- StaffWallet takes a failed read of the wallets for "none" and inserts a second.
- The last number of a day (9999) is never drawn.
- A save of the payroll settings need not be complete, so after a lost DELETE or
  two saves at once the chain of one can stand with the token of another.
- StaffDelete and Delete are not tied to the status of the payroll.
- `EnqueueWithDelay` signs an item out at the call, so it may be queued and
  handled again beside its handler; an item given out by `Dequeue` outside a
  consumer stays signed in.
- Elements of an EVM batch that fail, and TRON or SOLANA readings that fail,
  count as zero balances. The handler of wallet balances asks in mode "safe",
  which the TRON client refuses.
- A deleted tenant is still found by its channel and served. TenantUpdate and
  the portal's handlers do not look at unique ids.
- UserDelete removes wallets and departments but no role bindings, and
  StaffWallet accepts a deleted user, so wallets of deleted users are possible
  again. The flag of a role plays no part in the permission check.
- In PortalAdmin and Tenants a whole row saved from an old read undoes what
  others did to it meanwhile; `OnlyRacesUndo` says that this is all it undoes.

### Fairness

`Polling` (payroll): a request in flight goes on, since no handler waits in a
loop; and clients keep polling while neither the database nor the node fails
every time, so the calls of a status check that may succeed again and again
succeed at last (strong fairness: aborted requests disable them in between).
`SeqGenerator`: InnoDB grants a row lock to waiting transactions in turn, and a
holder goes on to its commit or rollback. `RichQueue`: a goroutine waiting for a
mutex gets it (a starving `sync.Mutex` is handed over), and handlers return;
nothing is assumed of the callers of Enqueue, Dequeue and cancel. `ChainReads`: Go
schedules every goroutine and each RPC ends within `reqTimeout`, with or without
an answer; nothing is assumed about the growth of the chains.

## Proofs

The theorems hold for any values of the constants under the assumptions named
in the modules, and with the extra assumptions given here.

`PayrollProofs`: types (`PayrollTypeCorrect`), and the four other invariants of
`payroll_races`, for updates to any status. None is inductive by itself, since a row that is written was
read earlier: `SafeInv` asks of every copy in flight what it asks of the stored
rows (`RowSafe`, `RowApproved`), and of each request the status its check has
seen; a row whose `claim` is "paying" or "paid" keeps that status, since no handler
but Update accepts it without a payment, which is what keeps the exemption small.
Confirmations, approvals and rows only grow (`Grows`), which keeps the other
requests' copies safe.

Its second part assumes one slot (`OneAtATime`). The invariant `FreshInv` says that
the copy in flight is the stored row but for the change of its handler; each
write then is one step of `PayrollWorkflow`. `SlipInv` adds that the slips a submit
request has checked are still the ones of the payroll.

`PayrollSettingsProofs`: types and `NoMixture`, for saves of any contents. `SavedInv`
says that the last rows are all those of one save with consecutive ids (`Last`),
that older ones are left only in an untidy table, and that in a tidy one a save
on its way is alone and finds it empty (`Alone`).

`PortalAdminProofs`: every property of its run. `TypeInv` adds that who has found a
row has a copy of it; `EvidenceInv` that what holds now is among what was seen
since the check began, and that what each read of the check found was so at its
moment unless the read is among the failed ones; `MovedInv` that a row differs from a copy only in fields
noted as changed since. `LinkInv` is the argument of the row locks: at most one
transaction holds a user's row, one that has deleted links has deleted the ones
there are, and links not deleted are the list of one request. `WalletInv` says that
the requests answered before another stay answered, and that it finds a wallet
they inserted unless its read has failed.

`TenantsProofs`: every property of its run. `TypeInv` includes the count of open
transactions and the ids given out; `PairInv` says that the channel of a request
in its transaction is nobody else's; `KeyInv` that a stored chain is of the key of
its tenant, and what was served of the tenant with that channel or of the one the
body named (`ChainOk`, `ServedOk`); `RaceInv` that a request which looked knows its
unique id in no row saved before it came; `MovedInv` is as above.

`WalletCreateProofs`: types and `OnlyFoundStaysOpen` (`CountInv`), and the three
invariants about addresses, for any requests. `AddressInv` says of every chain row,
committed or in a transaction, that its key is the one of its tenant and chain
(`RowsInv`, `ChainsInv`), of snapshots that they are part of what is committed
(`TxInv`), of stored and answered addresses that they are the one function of the
chain's owner, the chain and the index (`AddrFrom`, `AddrsInv`, `AnswersInv`; the
owner is the chain's tenant, or the caller where the chain is derived from the
seed, `OwnerOf`), and that a chain of another tenant was asked for by name
(`NamedBy`): so rows may be stored twice but agree.

`UserNumbersProofs`: types, `NumbersInOrder`, `RefusedWhenFull` (which follows
from the refinement and is in no run) and `ImplementsDispenser` for any number of
calls and keys and any capacity. `LockInv` says that a call that has its number
holds the row lock and the number is still the committed one (or there is still no
row, after an insert); `BoundInv` that no row passes the capacity and a row a call
was refused for stays at it. From these, every step of `SeqGenerator` is a step of
`NumberDispenser` or a stutter (`CommitDraws`, `RefuseRefuses`). And
`PrintedApart`, for any flags, days, secrets and random digits: the shuffle of
`buildDigitPerm` only swaps, so it loses no digit (`DigitPermShuffles`), and a
rotation loses no place: different days are different after the obfuscation
(`ObfuscatedApart`), different numbers have different digits (`FourDigitsApart`),
and so two bodies differ in a digit (`BodiesApart`). If they differ in one only,
the Luhn digit makes the second (`LuhnTells`): the weight of a place is a
permutation of the digits. The loops of `DigitPerm` and of the Luhn sum are
recursive functions; what they compute is shown by the least step at which it
could fail.

`ChainReadsProofs`: every safety property of `chain_reads`, for any requests, chains,
queries and blocks and any size of a batch. The proofs are about kinds of steps
(`Steps`): the clock of a chain, a request that turns, joins or leads a flight, a
flight that reads, falls back, fails or lands; `Kinds` says that every action is
one of them. Four invariants carry the rest.

- `Sound`: who is aboard a flight finds it under way, a flight under way is led
  by a request aboard it, its calls are in batches of at most `MaxBatch`, and an
  anchor was there when it was taken and still is (`Reached`: blocks are only
  added). Types and `OnePool` follow.
- `Boarded`: a flight was started with the key the request itself would use, and
  lists what it would ask for, whoever leads it. For this a key must tell what
  it was made of (`WordsTell`).
- `ValuesSound` and `OutSound`: what was read was read at a block the anchor allows
  (`Allowed`); `NotBeforeAnchor` and `AloneIsSnapshot` follow.
- `OutCovers` and `CoverSound`: the calls to come and the balances noted together are
  always the list of the flight, through chunks, fallbacks and failures, and a
  request has the native balances of its list before it is at the tokens;
  `AnswersTheQuestion` follows.

Two of these theorems need a hypothesis, and each is where the code is weak.
`NotBeforeAnchor` assumes that no TRON query names a block number
(`TronUnnumbered`): the node is not told the number and answers with the block it
has, which may be an older one. `AnswersTheQuestion` assumes that a query does not
spell an address in two ways (`OneSpelling`: `explodePairs` keys its map by the
checksummed spelling, so the tokens of the two are mixed) and that no SOLANA
token is also an owner that is asked about (`DistinctMints`: the key of a token
flight is a row of words without separators, where an owner among the tokens of
another reads as a new entry). `WalletBalanceQuery`, the one caller in `src`, asks in
mode "safe" for one address and one token, which satisfies the first two. The
instance of `chain_reads` satisfies all three. `AloneIsSnapshot`, the types and
`OnePool` need none.

`RichQueueProofs`: types, `NoLostWakeup` and `SignedInOnce` for any number of items,
queues, producers and consumers. For the wake-up it is enough to know that a
batch in progress holds its queue's mutex (`ProdInv`). For `SignedInOnce` the holders
of an item are a producer between sign-in and append, a place in a queue and a
handler: each of them has the item signed in (`AllSignedIn`) and no two have the
same item (`ProdAlone`, `SlotAlone`, `WorkAlone`); and what is signed in is in
somebody's hand or was given to a caller of Dequeue, not both (`HeldInv`). Items in
`Retried` are left out, since `EnqueueWithDelay` signs them out while their handler
runs; that only such items sleep is `DelayedRetried`.

The type invariants of `PayrollSettings`, `WalletCreate`, `SeqGenerator` and `RichQueue`
are proved and not repeated in a run.

Every safety and action property of the passing runs is a theorem. Only
model-checked: liveness (`ConfirmedIsSettled`, `CallsReturn`, `AllHandled`, `Settles`),
which is out of the provers' reach, and the three violations.

## Not modelled

- `SlotQueue` (`common/system/queue.go`): `RichQueue` without the sign-in map. Nothing
  in `src` makes one, and its consumer never leaves the inner loop.
- The cache of channel keys: only `WSInterceptor` reads it, and no route uses that.
- Process start and shutdown: one goroutine waits for a signal and then for
  deadlines. What matters is what a request cut off leaves behind: `Abort` of
  `Payroll`, `Rollback` of `WalletCreate` and `SeqGenerator`, `SaveFail` of
  `PayrollSettings`, `Fail` of `PortalAdmin` and `Tenants`.
- Login, lists, details, menus and the dashboard change no shared state; they
  appear where another component depends on what they read.
- Routing tables, configuration, database setup, logging, response codes and
  request types have no behaviour of their own. `modscanner` is an empty program.
- Elliptic curves, hashing and the encryption of keys and tokens are functions
  without collisions here; the encoding of calls to chains is left out.
