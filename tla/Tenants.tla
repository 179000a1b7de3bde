------------------------------ MODULE Tenants ------------------------------
(***************************************************************************)
(* Tenants and the channels they call by: creation and change over the     *)
(* signed interface (cmd/modapi/http/tenant.go) and in the portal          *)
(* (portal/tenant.go), and the lookup of the caller in HttpInterceptor     *)
(* (interceptor/apitor.go), which chooses the tenant WalletCreate works    *)
(* for.  Whose keys it uses is up to the body as well: it looks the chain  *)
(* up by the tenant id there, which nothing compares with the caller's.    *)
(*                                                                         *)
(* Only PortalTenantCreate runs in a transaction.  The others read a row   *)
(* and save all of it later; rows are flagged as deleted, never removed.   *)
(* A signature is valid for the channel it was made for (Verify), and a    *)
(* field is represented by the request that wrote it.                      *)
(***************************************************************************)
EXTENDS Integers, FiniteSets

CONSTANTS
  Req,        \* the requests, each made once
  Request,    \* what they may be: [op, app, on, unique, body], where body is the
              \* tenant_id in the body of WalletCreate (0 if there is none)
  Unique,     \* unique ids of tenants
  FirstUnique, \* that of the tenant there is at first
  MaxId,      \* bound: rows of a table
  None

Id == 1..MaxId
TenantOp == {"create", "update", "wallet"}
PortalOp == {"portal_create", "portal_update", "portal_delete"}

ASSUME TenantsAssumption ==
  /\ FirstUnique \in Unique
  /\ MaxId \in Nat /\ MaxId > 1
  /\ Request \subseteq [op : TenantOp \cup PortalOp, app : Id, on : Id, unique : Unique,
                   body : 0..MaxId]

Field == {"text", "desc", "gone", "api", "key"}
Writer == Req \cup {None}
Row == [text : [unique : Unique, by : Writer], desc : Writer, gone : BOOLEAN,
        api : 0..MaxId, key : Writer, saved : Writer]
Place == {"channel", "tenant", "begin", "looked", "found", "opened", "channel_in",
          "done", "refused"}

\* A request: the tenant it is on, the row it read, its new channel, whether a
\* failed read was taken for "there is none", the requests answered before.
Call == [at : Place, q : Request, on : 0..MaxId, copy : Row \cup {None},
         new : 0..MaxId, blind : BOOLEAN, before : SUBSET Req]

ASSUME NoneAssumption == None \notin Req \cup Row \cup Call \cup {"operator", "tenant"}

VARIABLES
  channel,  \* channel[c] : the kind of channel c, or None
  tenant,   \* tenant[t] : the row of tenant t, or None
  chains,   \* tenants with rows of tenant_chain, and the keys these are of
  last,     \* the last ids given out, those of rolled back rows included
  open,     \* open transactions
  leaked,   \* those whose request has ended (history)
  req,      \* req[r] : where request r is, or None before it
  served,   \* whose key wallets are derived from, and who asked (history)
  moved     \* moved[r] : fields of rows changed since r came (history)

tables == <<channel, tenant>>
vars == <<tables, chains, last, open, leaked, req, served, moved>>

NewTenant(r, unique, api) ==
  [text |-> [unique |-> unique, by |-> r], desc |-> r, gone |-> FALSE,
   api |-> api, key |-> r, saved |-> r]

\* An operator's channel, and a tenant made in the portal with its channel.
Init == /\ channel = [c \in Id |-> CASE c = 1 -> "operator" [] c = 2 -> "tenant"
                                     [] OTHER -> None]
        /\ tenant = [t \in Id |-> IF t = 1 THEN NewTenant(None, FirstUnique, 2) ELSE None]
        /\ chains = {}
        /\ last = [channel |-> 2, tenant |-> 1]
        /\ open = 0 /\ leaked = 0
        /\ req = [r \in Req |-> None]
        /\ served = {} /\ moved = [r \in Req |-> {}]

At(r, place) == req[r] # None /\ req[r].at = place
Doing(r, ops) == req[r] # None /\ req[r].q.op \in ops
Goes(r, place) == req' = [req EXCEPT ![r].at = place]
Reads == UNCHANGED <<tables, last, open, leaked, served, chains>>

\* First: the row with the least id.
FirstOf(S) == IF S = {} THEN 0 ELSE CHOOSE t \in S : \A u \in S : t <= u

OfChannel(c) == {t \in Id : tenant[t] # None /\ tenant[t].api = c}
OfUnique(u) == {t \in Id : tenant[t] # None /\ tenant[t].text.unique = u}

----------------------------------------------------------------------------
Ask(r, q) ==
  /\ req[r] = None
  /\ req' = [req EXCEPT ![r] =
       [at |-> "channel", q |-> q, on |-> q.on, copy |-> None, new |-> 0,
        blind |-> FALSE, before |-> {s \in Req : At(s, "done")}]]
  /\ Reads

\* HttpInterceptor: a channel of that id, of any status, and a valid
\* signature; ...
InterceptChannel(r) ==
  /\ At(r, "channel")
  /\ LET kind == channel[req[r].q.app] IN
     Goes(r, CASE kind = None -> "refused"
               [] kind = "tenant" -> "tenant"
               [] OTHER -> IF Doing(r, {"update", "wallet"}) THEN "refused" ELSE "begin")
  /\ Reads

\* ... for a tenant's channel the tenant, deleted or not.
Caller(app) == FirstOf(OfChannel(app))

\* TENANTID: no tenant has id 0, the one set if there is none.
InterceptTenant(r) ==
  /\ At(r, "tenant")
  /\ LET t == Caller(req[r].q.app) IN
     req' = [req EXCEPT
       ![r].at = IF Doing(r, {"update", "wallet"}) /\ t = 0 THEN "refused" ELSE "begin",
       ![r].on = IF Doing(r, {"update", "wallet"}) THEN t ELSE @]
  /\ Reads

\* A row of tenant_chain with the key of the caller's tenant.
OwnChain(r) == [tenant |-> req[r].on, key |-> tenant[req[r].on].key]

\* tenant_id = request.TenantID
ChainsFor(r) == {x \in chains : x.tenant = req[r].q.body}

\* WalletCreate reads the caller's tenant.  If the tenant of the body has a row
\* of the chain, the wallet is derived from the key in that row, or, for a
\* chain that is derived from the seed, from the caller's.  If it has none the
\* caller's tenant gets one, of its own key.
ServeWallet(r) ==
  /\ At(r, "begin") /\ Doing(r, {"wallet"})
  /\ \E x \in ChainsFor(r) \cup {OwnChain(r)} :
       /\ \/ ChainsFor(r) # {} /\ chains' = chains
          \/ x = OwnChain(r) /\ chains' = chains \cup {x}
       /\ served' = served \cup {[app |-> req[r].q.app, body |-> req[r].q.body,
                                 tenant |-> req[r].on, owner |-> x.tenant, key |-> x.key]}
  /\ Goes(r, "done")
  /\ UNCHANGED <<tables, last, open, leaked>>

----------------------------------------------------------------------------
UniqueTakenNow(u) ==  \* mutant: deleted tenants do not count
  \E t \in OfUnique(u) : ~tenant[t].gone

\* unique_id = u, whatever the flag
UniqueTaken(u) == OfUnique(u) # {}

\* TenantCreate looks for the unique id, and takes a failed read for a no.
\* Then it generates the keys, for half a second of Argon2, ...
CreateLook(r) ==
  /\ At(r, "begin") /\ Doing(r, {"create"})
  /\ \E sees \in BOOLEAN :
       req' = [req EXCEPT ![r].blind = ~sees,
         ![r].at = IF sees /\ UniqueTaken(req[r].q.unique) THEN "refused" ELSE "looked"]
  /\ Reads

\* ... and inserts the tenant, without a channel.
CreateSave(r) == LET t == last.tenant + 1 IN
  /\ At(r, "looked") /\ t \in Id
  /\ tenant' = [tenant EXCEPT ![t] = NewTenant(r, req[r].q.unique, 0)]
  /\ last' = [last EXCEPT !.tenant = t]
  /\ Goes(r, "done")
  /\ UNCHANGED <<channel, open, leaked, served, chains>>

\* TenantUpdate finds the caller, deleted or not; PortalTenantUpdate and
\* PortalTenantDelete a tenant that is not deleted.
FindRow(r) ==
  /\ At(r, "begin") /\ Doing(r, {"update", "portal_update", "portal_delete"})
  /\ LET x == tenant[req[r].on] IN
     req' = [req EXCEPT ![r].copy = x,
       ![r].at = IF x = None \/ (x.gone /\ ~Doing(r, {"update"})) THEN "refused"
                 ELSE "found"]
  /\ Reads

Text(r) == [unique |-> req[r].q.unique, by |-> r]

UpdatedAfresh(x, r) ==  \* mutant: the row is built like a new one
  [NewTenant(r, req[r].q.unique, x.api) EXCEPT !.desc = x.desc]
Updated(x, r) == [x EXCEPT !.text = Text(r)]
PortalUpdated(x, r) == [x EXCEPT !.text = Text(r), !.desc = r]
Deleted(x, r) == [x EXCEPT !.gone = TRUE]

\* Save: every field of the row.
SaveRow(r) ==
  /\ At(r, "found")
  /\ LET x == req[r].copy
         y == CASE Doing(r, {"update"}) -> Updated(x, r)
                [] Doing(r, {"portal_update"}) -> PortalUpdated(x, r)
                [] Doing(r, {"portal_delete"}) -> Deleted(x, r)
     IN tenant' = [tenant EXCEPT ![req[r].on] = [y EXCEPT !.saved = r]]
  /\ Goes(r, "done")
  /\ UNCHANGED <<channel, last, open, leaked, served, chains>>

----------------------------------------------------------------------------
InTx(r) == At(r, "opened") \/ At(r, "channel_in")

\* PortalTenantCreate: a transaction, ...
PortalBegin(r) ==
  /\ At(r, "begin") /\ Doing(r, {"portal_create"})
  /\ open' = open + 1
  /\ Goes(r, "opened")
  /\ UNCHANGED <<tables, last, leaked, served, chains>>

\* ... the keys, whose failure is answered without ending it, ...
PortalKeysFail(r) ==
  /\ At(r, "opened")
  /\ leaked' = leaked + 1
  /\ Goes(r, "refused")
  /\ UNCHANGED <<tables, last, open, served, chains>>

\* ... the channel, ...
PortalInsertChannel(r) == LET c == last.channel + 1 IN
  /\ At(r, "opened") /\ c \in Id
  /\ last' = [last EXCEPT !.channel = c]
  /\ req' = [req EXCEPT ![r].at = "channel_in", ![r].new = c]
  /\ UNCHANGED <<tables, open, leaked, served, chains>>

NewApiOfLast(r) == last.channel  \* mutant: the last id, not the one inserted

\* newAPI.ID
NewApi(r) == req[r].new

\* ... the tenant with the id of the channel, and the commit of both.
PortalCommit(r) == LET t == last.tenant + 1 IN
  /\ At(r, "channel_in") /\ t \in Id
  /\ channel' = [channel EXCEPT ![req[r].new] = "tenant"]
  /\ tenant' = [tenant EXCEPT ![t] = NewTenant(r, req[r].q.unique, NewApi(r))]
  /\ last' = [last EXCEPT !.tenant = t]
  /\ open' = open - 1
  /\ Goes(r, "done")
  /\ UNCHANGED <<leaked, served, chains>>

RolledBackTwice(r) == open - 2  \* mutant: in the handler and in its deferred function

RolledBackNot(r) == open  \* mutant: an early return without Rollback

RolledBack(r) == open - 1

\* A statement of it fails, or it panics.
PortalRollback(r) ==
  /\ InTx(r)
  /\ open' = RolledBack(r)
  /\ Goes(r, "refused")
  /\ UNCHANGED <<tables, last, leaked, served, chains>>

\* A statement outside it fails, or the keys of TenantCreate; the error of
\* Save is not looked at, and the answer is a success.
Fail(r) ==
  /\ req[r] # None /\ req[r].at \in {"channel", "tenant", "begin", "looked", "found"}
  /\ Goes(r, "refused")
  /\ Reads

----------------------------------------------------------------------------
Step(r) == \/ InterceptChannel(r) \/ InterceptTenant(r) \/ ServeWallet(r)
           \/ CreateLook(r) \/ CreateSave(r) \/ FindRow(r) \/ SaveRow(r)
           \/ PortalBegin(r) \/ PortalKeysFail(r) \/ PortalInsertChannel(r)
           \/ PortalCommit(r) \/ PortalRollback(r) \/ Fail(r)

Changed == {e \in Id \X Field : /\ tenant[e[1]] # None /\ tenant'[e[1]] # None
                               /\ tenant'[e[1]][e[2]] # tenant[e[1]][e[2]]}

Observe == moved' = [r \in Req |-> IF req[r] = None THEN {} ELSE moved[r] \cup Changed]

Next == /\ \E r \in Req : (\E q \in Request : Ask(r, q)) \/ Step(r)
        /\ Observe

Spec == Init /\ [][Next]_vars

----------------------------------------------------------------------------
TypeOK ==
  /\ channel \in [Id -> {"operator", "tenant", None}]
  /\ tenant \in [Id -> Row \cup {None}]
  /\ chains \subseteq [tenant : Id, key : Writer]
  /\ last \in [channel : Id, tenant : Id]
  /\ open \in Nat /\ leaked \in Nat
  /\ req \in [Req -> Call \cup {None}]
  /\ \A r \in Req : At(r, "found") => req[r].on \in Id /\ req[r].copy # None

\* Whatever part of PortalTenantCreate fails, and whoever creates at the same
\* time, a tenant's channel and its tenant come together and belong to each
\* other alone.
ChannelsPaired ==
  /\ \A c \in Id : channel[c] = "tenant" =>
       Cardinality(OfChannel(c)) = 1
  /\ \A t \in Id : tenant[t] # None =>
       tenant[t].api = 0 \/ channel[tenant[t].api] = "tenant"

\* A wallet is derived from the key of the tenant whose channel asked, or of the
\* tenant its body names, whose it may be; and over updates, deletions and new
\* tenants a channel stays one tenant's and a tenant's wallets are of one key.
OneKeyPerChannel ==
  /\ \A x \in served : x.owner \in {x.tenant, x.body}
  /\ \A x, y \in served : /\ x.app = y.app <=> x.tenant = y.tenant
                          /\ x.owner = y.owner => x.key = y.key

\* The fields a handler is there to change.
Own(op) == CASE op = "update" -> {"text"}
             [] op = "portal_update" -> {"text", "desc"}
             [] op = "portal_delete" -> {"gone"}
             [] OTHER -> {}

\* A saved row changes another field only back to what it was when read, if
\* that was changed since the request came: a deleted tenant comes back in a
\* race only, and its keys and channel are never changed.
OnlyRacesUndo ==
  [][\A r \in Req : (req[r] # None /\ At(r, "found") /\ At(r, "done")') =>
       \A e \in Changed : e[1] = req[r].on
                          /\ (e[2] \in Own(req[r].q.op) \/ e \in moved[r])]_vars

\* TenantCreate makes a second tenant of a unique id only beside the request
\* that saved the first, or when its look failed; a deleted tenant keeps its
\* unique id.  (Updates and PortalTenantCreate do not look at all.)
SameUniqueIdNeedsRace ==
  \A s, t \in Id : (s # t /\ tenant[s] # None /\ tenant[t] # None) =>
    LET r == tenant[t].saved IN
    (r # None /\ Doing(r, {"create"}) /\ tenant[s].text.unique = tenant[t].text.unique) =>
      req[r].blind \/ tenant[s].saved \notin req[r].before \cup {None}

\* Transactions that outlive their request are those whose keys could not be
\* generated, no others: every other way out of PortalTenantCreate ends them.
OnlyKeysLeak ==
  open = leaked + Cardinality({r \in Req : InTx(r)})
=============================================================================
