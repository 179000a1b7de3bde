--------------------------- MODULE TenantsProofs ---------------------------
(***************************************************************************)
(* What TLAPS proves about Tenants: every property its run checks, for any *)
(* number of requests, tenants and channels.                               *)
(***************************************************************************)
EXTENDS Tenants, FiniteSetTheorems, WellFoundedInduction, TLAPS

SaveOps == {"update", "portal_update", "portal_delete"}

\* What a request knows of the tables stays true of them: tenants stay, with
\* their channels and keys.
Sound(r) == req[r] # None =>
  /\ req[r].at # "refused" => req[r].on \in Id
  /\ req[r].at = "found" =>
       /\ req[r].q.op \in SaveOps /\ req[r].copy \in Row /\ tenant[req[r].on] # None
       /\ req[r].copy.api = tenant[req[r].on].api /\ req[r].copy.key = tenant[req[r].on].key
  /\ req[r].at = "looked" => req[r].q.op = "create"
  /\ req[r].at \in {"opened", "channel_in"} => req[r].q.op = "portal_create"
  /\ (req[r].at = "begin" /\ req[r].q.op = "wallet") =>
       tenant[req[r].on] # None /\ tenant[req[r].on].api = req[r].q.app
  /\ req[r].at = "channel_in" => req[r].new \in Id /\ req[r].new <= last.channel

InTxs == {r \in Req : InTx(r)}
CountInv == /\ IsFiniteSet(InTxs) /\ leaked \in Nat
            /\ open = leaked + Cardinality(InTxs)

LastInv == \A t \in Id : tenant[t] # None => t <= last.tenant

TypeInv == TypeOK /\ CountInv /\ LastInv /\ \A r \in Req : Sound(r)

\* A step moves one request on.
Advance(r) ==
  /\ req' \in [Req -> Call \cup {None}]
  /\ \A s \in Req \ {r} : req'[s] = req[s]
  /\ req[r] \in Call /\ req'[r] \in Call
  /\ req[r] # None /\ req'[r] # None
  /\ req'[r].q = req[r].q /\ req'[r].before = req[r].before

AdvanceTo(r, p) ==
  /\ Advance(r) /\ req'[r].at = p
  /\ req'[r].on = req[r].on /\ req'[r].copy = req[r].copy
  /\ req'[r].new = req[r].new /\ req'[r].blind = req[r].blind

\* The tables are typed after a step, and no tenant has gone or changed its
\* channel or its key.
Grown ==
  /\ channel' \in [Id -> {"operator", "tenant", None}]
  /\ tenant' \in [Id -> Row \cup {None}]
  /\ last' \in [channel : Id, tenant : Id]
  /\ last.channel <= last'.channel
  /\ LastInv'
  /\ \A t \in Id : tenant[t] # None =>
       /\ tenant'[t] # None
       /\ tenant'[t].api = tenant[t].api /\ tenant'[t].key = tenant[t].key

Quiet == UNCHANGED <<channel, tenant, last>>

LEMMA IdFacts ==
  /\ Id \subseteq Nat /\ 1 \in Id /\ 2 \in Id /\ 0 \notin Id
  /\ \A i \in Id : i \in 0..MaxId
  /\ \A i \in 0..MaxId : i # 0 => i \in Id
BY TenantsAssumption DEF Id

LEMMA Become ==
  ASSUME TypeOK, NEW r \in Req, req[r] # None, NEW x \in Call,
         req' = [req EXCEPT ![r] = x], x.q = req[r].q, x.before = req[r].before
  PROVE  Advance(r) /\ req'[r] = x
<1>1. req[r] \in Call /\ None \notin Call BY NoneAssumption DEF TypeOK
<1>2. req'[r] = x /\ \A s \in Req \ {r} : req'[s] = req[s] BY DEF TypeOK
<1>3. req' \in [Req -> Call \cup {None}] BY DEF TypeOK
<1>4. QED BY <1>1, <1>2, <1>3 DEF Advance

LEMMA GoesAdvances ==
  ASSUME TypeOK, NEW r \in Req, req[r] # None, NEW p \in Place, Goes(r, p)
  PROVE  AdvanceTo(r, p)
<1>1. req[r] \in Call BY DEF TypeOK
<1>2. PICK x : x = [req[r] EXCEPT !.at = p] OBVIOUS
<1>3. /\ x \in Call /\ x.at = p /\ x.q = req[r].q /\ x.before = req[r].before
      /\ x.on = req[r].on /\ x.copy = req[r].copy /\ x.new = req[r].new
      /\ x.blind = req[r].blind
  BY <1>1, <1>2 DEF Call
<1>4. req' = [req EXCEPT ![r] = x] BY <1>2 DEF Goes
<1>5. QED BY <1>3, <1>4, Become DEF AdvanceTo

LEMMA LastNat == ASSUME TypeInv PROVE last.channel \in Nat /\ last.channel <= last.channel
<1>1. last.channel \in Nat BY IdFacts DEF TypeInv, TypeOK
<1>2. QED BY <1>1

LEMMA QuietGrown == ASSUME TypeInv, Quiet PROVE Grown
<1>1. last.channel <= last.channel BY LastNat
<1>2. LastInv'
  <2>1. tenant' = tenant /\ last' = last BY DEF Quiet
  <2>2. QED BY <2>1 DEF LastInv, TypeInv
<1>3. QED BY <1>1, <1>2 DEF Quiet, Grown, TypeInv, TypeOK

LEMMA SoundKept ==
  ASSUME TypeInv, Grown, NEW s \in Req, req'[s] = req[s]
  PROVE  Sound(s)'
<1>1. Sound(s) BY DEF TypeInv
<1>2. CASE req[s] = None BY <1>2 DEF Sound
<1>3. CASE req[s] # None
  <2>1. req[s].at = "channel_in" => req[s].new <= last'.channel
    <3>1. last.channel \in Nat /\ last'.channel \in Nat /\ last.channel <= last'.channel
      BY IdFacts DEF Grown, TypeInv, TypeOK
    <3>2. req[s].at = "channel_in" => req[s].new \in Nat /\ req[s].new <= last.channel
      BY <1>1, <1>3, IdFacts DEF Sound
    <3>3. QED BY <3>1, <3>2
  <2>2. req[s].at \in {"found", "begin"} => req[s].on \in Id BY <1>1, <1>3 DEF Sound
  <2>3. QED BY <1>1, <1>3, <2>1, <2>2 DEF Sound, Grown
<1>4. QED BY <1>2, <1>3

----------------------------------------------------------------------------
StepTyped(r) == Advance(r) /\ Grown /\ Sound(r)'

\* Steps that end a request.
LEMMA EndTyped ==
  ASSUME TypeInv, NEW r \in Req, req[r] # None, NEW p \in {"done", "refused"}, Goes(r, p),
         p = "done" => req[r].at # "refused", Grown
  PROVE  StepTyped(r)
<1>1. AdvanceTo(r, p) BY GoesAdvances DEF TypeInv, Place
<1>2. QED BY <1>1 DEF AdvanceTo, Advance, StepTyped, Sound, TypeInv

LEMMA InterceptChannelTyped ==
  ASSUME TypeInv, NEW r \in Req, InterceptChannel(r) PROVE StepTyped(r)
<1>1. req[r] # None /\ req[r].at = "channel" /\ Quiet
  BY DEF InterceptChannel, At, Reads, tables, Quiet
<1>2. PICK p \in {"refused", "tenant", "begin"} :
        Goes(r, p) /\ (p = "begin" => req[r].q.op # "wallet")
  BY <1>1 DEF InterceptChannel, Doing
<1>3. AdvanceTo(r, p) BY <1>1, <1>2, GoesAdvances DEF TypeInv, Place
<1>4. Grown BY <1>1, QuietGrown
<1>5. QED BY <1>1, <1>2, <1>3, <1>4 DEF AdvanceTo, Advance, StepTyped, Sound, TypeInv

\* The row with the least id.
LEMMA LeastNat ==
  ASSUME NEW S \in SUBSET Nat, S # {}
  PROVE  \E i \in S : \A j \in S : i <= j
<1> DEFINE R == OpToRel(<, Nat)
<1>1. IsWellFoundedOn(R, Nat) BY NatLessThanWellFounded
<1>2. \A i, j \in Nat : i < j => <<i, j>> \in R BY DEF OpToRel
<1> HIDE DEF R
<1>3. PICK i \in S : \A j \in S : ~(<<j, i>> \in R) BY <1>1, WFMin
<1>4. \A j \in S : i \in Nat /\ j \in Nat /\ ~(j < i) BY <1>2, <1>3
<1>5. QED BY <1>4

LEMMA CallerIs ==
  ASSUME NEW c
  PROVE  \/ Caller(c) = 0
         \/ Caller(c) \in Id /\ tenant[Caller(c)] # None /\ tenant[Caller(c)].api = c
<1>1. CASE OfChannel(c) = {} BY <1>1 DEF Caller, FirstOf
<1>2. CASE OfChannel(c) # {}
  <2>1. OfChannel(c) \in SUBSET Nat BY IdFacts DEF OfChannel
  <2>2. \E t \in OfChannel(c) : \A u \in OfChannel(c) : t <= u BY <1>2, <2>1, LeastNat
  <2>3. Caller(c) \in OfChannel(c) BY <1>2, <2>2 DEF Caller, FirstOf
  <2>4. QED BY <2>3 DEF OfChannel
<1>3. QED BY <1>1, <1>2

LEMMA InterceptTenantTyped ==
  ASSUME TypeInv, NEW r \in Req, InterceptTenant(r) PROVE StepTyped(r)
<1>1. req[r] # None /\ req[r].at = "tenant" /\ Quiet
  BY DEF InterceptTenant, At, Reads, tables, Quiet
<1>2. req[r] \in Call /\ req[r].on \in Id
  BY <1>1 DEF TypeInv, TypeOK, Sound
<1>3. PICK c : c = req[r].q.app OBVIOUS
<1>4. PICK t : t = Caller(c) OBVIOUS
<1>5. PICK p \in {"refused", "begin"}, n \in 0..MaxId :
        /\ req' = [req EXCEPT ![r].at = p, ![r].on = n]
        /\ p = "begin" => n \in Id
        /\ (p = "begin" /\ req[r].q.op = "wallet") => n = t
  <2>1. t = 0 \/ t \in Id BY <1>4, CallerIs
  <2>2. PICK p, n :
          /\ req' = [req EXCEPT ![r].at = p, ![r].on = n]
          /\ p = IF Doing(r, {"update", "wallet"}) /\ t = 0 THEN "refused" ELSE "begin"
          /\ n = IF Doing(r, {"update", "wallet"}) THEN t ELSE req[r].on
    BY <1>3, <1>4 DEF InterceptTenant
  <2>3. n \in 0..MaxId BY <1>2, <2>1, <2>2, IdFacts, TenantsAssumption
  <2>4. p = "begin" => n \in Id BY <1>2, <2>1, <2>2
  <2>5. (p = "begin" /\ req[r].q.op = "wallet") => n = t BY <1>1, <2>2 DEF Doing
  <2>6. p \in {"refused", "begin"} BY <2>2
  <2>7. QED BY <2>2, <2>3, <2>4, <2>5, <2>6
<1>6. PICK x : x = [req[r] EXCEPT !.at = p, !.on = n] OBVIOUS
<1>7. /\ x \in Call /\ x.at = p /\ x.q = req[r].q /\ x.before = req[r].before
      /\ x.on = n
  BY <1>2, <1>6 DEF Call, Place
<1>8. req' = [req EXCEPT ![r] = x] BY <1>5, <1>6
<1>9. Advance(r) /\ req'[r] = x BY <1>1, <1>7, <1>8, Become DEF TypeInv
<1>10. Grown BY <1>1, QuietGrown
<1>11. (p = "begin" /\ req[r].q.op = "wallet") => tenant[n] # None /\ tenant[n].api = c
  BY <1>4, <1>5, CallerIs, IdFacts
<1>12. Sound(r)' BY <1>1, <1>3, <1>5, <1>7, <1>9, <1>11 DEF Sound, Quiet
<1>13. QED BY <1>9, <1>10, <1>12 DEF StepTyped

LEMMA ServeWalletTyped ==
  ASSUME TypeInv, NEW r \in Req, ServeWallet(r) PROVE StepTyped(r)
<1>1. /\ req[r] # None /\ req[r].at # "refused" /\ Quiet /\ Goes(r, "done")
  BY DEF ServeWallet, At, tables, Quiet
<1>2. QED BY <1>1, QuietGrown, EndTyped

LEMMA CreateLookTyped ==
  ASSUME TypeInv, NEW r \in Req, CreateLook(r)
  PROVE  /\ StepTyped(r) /\ req'[r].at \in {"looked", "refused"}
         /\ req'[r].at = "looked" => req'[r].blind \/ ~UniqueTaken(req[r].q.unique)
<1>1. req[r] # None /\ req[r].at = "begin" /\ req[r].q.op = "create" /\ Quiet
  BY DEF CreateLook, At, Doing, Reads, tables, Quiet
<1>2. req[r] \in Call /\ req[r].on \in Id BY <1>1 DEF TypeInv, TypeOK, Sound
<1>3. PICK sees \in BOOLEAN, p \in {"looked", "refused"} :
        /\ req' = [req EXCEPT ![r].blind = ~sees, ![r].at = p]
        /\ p = IF sees /\ UniqueTaken(req[r].q.unique) THEN "refused" ELSE "looked"
  BY DEF CreateLook
<1>4. PICK x : x = [req[r] EXCEPT !.blind = ~sees, !.at = p] OBVIOUS
<1>5. /\ x \in Call /\ x.at = p /\ x.q = req[r].q /\ x.before = req[r].before
      /\ x.on = req[r].on /\ x.blind = ~sees
  BY <1>2, <1>4 DEF Call, Place
<1>6. req' = [req EXCEPT ![r] = x] BY <1>3, <1>4
<1>7. Advance(r) /\ req'[r] = x BY <1>1, <1>5, <1>6, Become DEF TypeInv
<1>8. Grown BY <1>1, QuietGrown
<1>9. Sound(r)' BY <1>1, <1>2, <1>3, <1>5, <1>7 DEF Sound
<1>10. QED BY <1>3, <1>5, <1>7, <1>8, <1>9 DEF StepTyped

LEMMA NewTenantType ==
  ASSUME NEW r \in Req \cup {None}, NEW u \in Unique, NEW c \in 0..MaxId
  PROVE  /\ NewTenant(r, u, c) \in Row /\ NewTenant(r, u, c) # None
         /\ NewTenant(r, u, c).api = c /\ NewTenant(r, u, c).saved = r
         /\ NewTenant(r, u, c).text.unique = u
<1>1. NewTenant(r, u, c) \in Row BY DEF NewTenant, Row, Writer
<1>2. QED BY <1>1, NoneAssumption DEF NewTenant

\* A request is about rows there may be.
LEMMA AskedOf ==
  ASSUME TypeOK, NEW r \in Req, req[r] # None
  PROVE  /\ req[r] \in Call /\ req[r].q \in Request
         /\ req[r].q.unique \in Unique /\ req[r].q.on \in Id /\ req[r].q.app \in Id
<1>1. req[r] \in Call BY DEF TypeOK
<1>2. req[r].q \in Request BY <1>1 DEF Call
<1>3. QED BY <1>1, <1>2, TenantsAssumption

\* A new tenant takes the next id, which no tenant has.
LEMMA NewTenantGrown ==
  ASSUME TypeInv, NEW y \in Row, last.tenant + 1 \in Id,
         last' = [last EXCEPT !.tenant = last.tenant + 1],
         tenant' = [tenant EXCEPT ![last.tenant + 1] = y],
         channel' \in [Id -> {"operator", "tenant", None}]
  PROVE  Grown /\ tenant[last.tenant + 1] = None
<1>1. last.tenant \in Nat /\ last.channel \in Nat /\ last \in [channel : Id, tenant : Id]
  BY IdFacts DEF TypeInv, TypeOK
<1>2. tenant[last.tenant + 1] = None BY <1>1 DEF TypeInv, LastInv
<1>3. tenant' \in [Id -> Row \cup {None}] BY DEF TypeInv, TypeOK
<1>4. \A t \in Id : t # last.tenant + 1 => tenant'[t] = tenant[t] BY DEF TypeInv, TypeOK
<1>5. last'.channel = last.channel /\ last'.tenant = last.tenant + 1 BY <1>1
<1>6. last' \in [channel : Id, tenant : Id] BY <1>1
<1>7. LastInv'
  <2> SUFFICES ASSUME NEW t \in Id, tenant'[t] # None PROVE t <= last'.tenant BY DEF LastInv
  <2>1. CASE t = last.tenant + 1 BY <1>1, <1>5, <2>1
  <2>2. CASE t # last.tenant + 1
    <3>1. t <= last.tenant /\ t \in Nat BY <1>4, <2>2, IdFacts DEF TypeInv, LastInv
    <3>2. QED BY <1>1, <1>5, <3>1
  <2>3. QED BY <2>1, <2>2
<1>8. QED BY <1>1, <1>2, <1>3, <1>4, <1>5, <1>6, <1>7 DEF Grown

LEMMA CreateSaved ==
  ASSUME TypeInv, NEW r \in Req, CreateSave(r)
  PROVE  /\ StepTyped(r) /\ req[r].at = "looked" /\ AdvanceTo(r, "done")
         /\ req[r].q.unique \in Unique /\ last.tenant + 1 \in Id
         /\ last' = [last EXCEPT !.tenant = last.tenant + 1]
         /\ tenant' = [tenant EXCEPT ![last.tenant + 1] = NewTenant(r, req[r].q.unique, 0)]
<1>1. /\ req[r] # None /\ req[r].at = "looked" /\ Goes(r, "done") /\ channel' = channel
      /\ last.tenant + 1 \in Id
      /\ last' = [last EXCEPT !.tenant = last.tenant + 1]
      /\ tenant' = [tenant EXCEPT ![last.tenant + 1] = NewTenant(r, req[r].q.unique, 0)]
  BY DEF CreateSave, At
<1>2. req[r].q.unique \in Unique BY <1>1, AskedOf DEF TypeInv
<1>3. Grown
  <2>1. PICK y \in Row : y = NewTenant(r, req[r].q.unique, 0)
    BY <1>2, NewTenantType, TenantsAssumption
  <2>2. channel' \in [Id -> {"operator", "tenant", None}] BY <1>1 DEF TypeInv, TypeOK
  <2>3. QED BY <1>1, <2>1, <2>2, NewTenantGrown
<1>4. AdvanceTo(r, "done") BY <1>1, GoesAdvances DEF TypeInv, Place
<1>5. QED BY <1>1, <1>2, <1>3, <1>4, EndTyped

LEMMA FindRowTyped ==
  ASSUME TypeInv, NEW r \in Req, FindRow(r)
  PROVE  /\ StepTyped(r) /\ req'[r].at \in {"found", "refused"} /\ Quiet
         /\ req'[r].on = req[r].on /\ req'[r].copy = tenant[req[r].on]
<1>1. req[r] # None /\ req[r].at = "begin" /\ req[r].q.op \in SaveOps /\ Quiet
  BY DEF FindRow, At, Doing, Reads, tables, Quiet, SaveOps
<1>2. req[r] \in Call /\ req[r].on \in Id BY <1>1 DEF TypeInv, TypeOK, Sound
<1>3. PICK y \in Row \cup {None} : y = tenant[req[r].on] BY <1>2 DEF TypeInv, TypeOK
<1>4. PICK p \in {"refused", "found"} :
        req' = [req EXCEPT ![r].copy = y, ![r].at = p] /\ (p = "found" => y # None)
  BY <1>3 DEF FindRow
<1>5. PICK x : x = [req[r] EXCEPT !.copy = y, !.at = p] OBVIOUS
<1>6. /\ x \in Call /\ x.at = p /\ x.q = req[r].q /\ x.before = req[r].before
      /\ x.on = req[r].on /\ x.copy = y
  BY <1>2, <1>5 DEF Call, Place
<1>7. req' = [req EXCEPT ![r] = x] BY <1>4, <1>5
<1>8. Advance(r) /\ req'[r] = x BY <1>1, <1>6, <1>7, Become DEF TypeInv
<1>9. Grown BY <1>1, QuietGrown
<1>10. Sound(r)' BY <1>1, <1>2, <1>3, <1>4, <1>6, <1>8 DEF Sound, Quiet
<1>11. QED BY <1>1, <1>3, <1>4, <1>6, <1>8, <1>9, <1>10 DEF StepTyped

\* The row SaveRow writes: fields of its own beside those of the copy.
Written(r) ==
  [(CASE Doing(r, {"update"}) -> Updated(req[r].copy, r)
      [] Doing(r, {"portal_update"}) -> PortalUpdated(req[r].copy, r)
      [] Doing(r, {"portal_delete"}) -> Deleted(req[r].copy, r)) EXCEPT !.saved = r]

LEMMA WrittenIs ==
  ASSUME TypeInv, NEW r \in Req, req[r] # None, req[r].q.op \in SaveOps,
         req[r].copy \in Row
  PROVE  /\ Written(r) \in Row /\ Written(r).saved = r
         /\ \A f \in Field \ Own(req[r].q.op) : Written(r)[f] = req[r].copy[f]
<1>1. PICK x \in Row : x = req[r].copy OBVIOUS
<1>2. Text(r) \in [unique : Unique, by : Writer] BY AskedOf DEF TypeInv, Text, Writer
<1>3. PICK w : w = Text(r) /\ w \in [unique : Unique, by : Writer] BY <1>2
<1>4. CASE req[r].q.op = "update"
  <2>1. Written(r) = [x EXCEPT !.text = w, !.saved = r]
    BY <1>1, <1>3, <1>4 DEF Written, Updated, Doing
  <2>2. /\ [x EXCEPT !.text = w, !.saved = r] \in Row
        /\ [x EXCEPT !.text = w, !.saved = r].saved = r
        /\ \A f \in Field \ {"text"} : [x EXCEPT !.text = w, !.saved = r][f] = x[f]
    BY <1>3 DEF Row, Writer, Field
  <2>3. QED BY <1>1, <1>4, <2>1, <2>2 DEF Own
<1>5. CASE req[r].q.op = "portal_update"
  <2>1. Written(r) = [x EXCEPT !.text = w, !.desc = r, !.saved = r]
    BY <1>1, <1>3, <1>5 DEF Written, PortalUpdated, Doing
  <2>2. /\ [x EXCEPT !.text = w, !.desc = r, !.saved = r] \in Row
        /\ [x EXCEPT !.text = w, !.desc = r, !.saved = r].saved = r
        /\ \A f \in Field \ {"text", "desc"} :
             [x EXCEPT !.text = w, !.desc = r, !.saved = r][f] = x[f]
    BY <1>3 DEF Row, Writer, Field
  <2>3. QED BY <1>1, <1>5, <2>1, <2>2 DEF Own
<1>6. CASE req[r].q.op = "portal_delete"
  <2>1. Written(r) = [x EXCEPT !.gone = TRUE, !.saved = r]
    BY <1>1, <1>6 DEF Written, Deleted, Doing
  <2>2. /\ [x EXCEPT !.gone = TRUE, !.saved = r] \in Row
        /\ [x EXCEPT !.gone = TRUE, !.saved = r].saved = r
        /\ \A f \in Field \ {"gone"} : [x EXCEPT !.gone = TRUE, !.saved = r][f] = x[f]
    BY DEF Row, Writer, Field
  <2>3. QED BY <1>1, <1>6, <2>1, <2>2 DEF Own
<1>7. QED BY <1>4, <1>5, <1>6 DEF SaveOps

LEMMA SaveRowTyped ==
  ASSUME TypeInv, NEW r \in Req, SaveRow(r)
  PROVE  /\ StepTyped(r) /\ req[r].at = "found" /\ AdvanceTo(r, "done")
         /\ channel' = channel /\ last' = last
         /\ req[r].on \in Id /\ req[r].copy \in Row /\ req[r].q.op \in SaveOps
         /\ Written(r) \in Row /\ tenant' = [tenant EXCEPT ![req[r].on] = Written(r)]
<1>1. /\ req[r] # None /\ req[r].at = "found" /\ Goes(r, "done")
      /\ UNCHANGED <<channel, last>> /\ tenant' = [tenant EXCEPT ![req[r].on] = Written(r)]
  BY DEF SaveRow, At, Written
<1>2. /\ req[r].on \in Id /\ req[r].copy \in Row /\ req[r].q.op \in SaveOps
      /\ tenant[req[r].on] # None
      /\ req[r].copy.api = tenant[req[r].on].api /\ req[r].copy.key = tenant[req[r].on].key
  BY <1>1 DEF TypeInv, Sound
<1>3. PICK y \in Row : y = Written(r) BY <1>1, <1>2, WrittenIs
<1>4. y.api = req[r].copy.api /\ y.key = req[r].copy.key
  <2>1. "api" \in Field \ Own(req[r].q.op) /\ "key" \in Field \ Own(req[r].q.op)
    BY <1>2 DEF Field, Own, SaveOps
  <2>2. y["api"] = req[r].copy["api"] /\ y["key"] = req[r].copy["key"]
    BY <1>1, <1>2, <1>3, <2>1, WrittenIs
  <2>3. QED BY <2>2
<1>5. y # None BY NoneAssumption
<1>6. tenant' \in [Id -> Row \cup {None}] BY <1>1, <1>3 DEF TypeInv, TypeOK
<1>7. \A t \in Id : tenant'[t] = IF t = req[r].on THEN y ELSE tenant[t]
  BY <1>1, <1>3 DEF TypeInv, TypeOK
<1>8. last.channel <= last'.channel BY <1>1, LastNat
<1>9. LastInv'
  <2> SUFFICES ASSUME NEW t \in Id, tenant'[t] # None PROVE t <= last'.tenant BY DEF LastInv
  <2>1. tenant[t] # None BY <1>2, <1>7
  <2>2. last' = last BY <1>1
  <2>3. QED BY <2>1, <2>2 DEF TypeInv, LastInv
<1>10. Grown BY <1>1, <1>2, <1>4, <1>5, <1>6, <1>7, <1>8, <1>9 DEF Grown, TypeInv, TypeOK
<1>11. AdvanceTo(r, "done") BY <1>1, GoesAdvances DEF TypeInv, Place
<1>12. QED BY <1>1, <1>2, <1>3, <1>10, <1>11, EndTyped

LEMMA PortalBeginTyped ==
  ASSUME TypeInv, NEW r \in Req, PortalBegin(r)
  PROVE  StepTyped(r) /\ req[r].at = "begin" /\ req'[r].at = "opened" /\ Quiet
<1>1. /\ req[r] # None /\ req[r].at = "begin" /\ req[r].q.op = "portal_create"
      /\ Goes(r, "opened") /\ Quiet
  BY DEF PortalBegin, At, Doing, tables, Quiet
<1>2. AdvanceTo(r, "opened") BY <1>1, GoesAdvances DEF TypeInv, Place
<1>3. Grown BY <1>1, QuietGrown
<1>4. QED BY <1>1, <1>2, <1>3 DEF AdvanceTo, Advance, StepTyped, Sound, TypeInv

LEMMA InsertChannelTyped ==
  ASSUME TypeInv, NEW r \in Req, PortalInsertChannel(r)
  PROVE  /\ StepTyped(r) /\ req[r].at = "opened" /\ req'[r].at = "channel_in"
         /\ req'[r].new = last.channel + 1 /\ last.channel + 1 \in Id
         /\ UNCHANGED tables /\ last'.channel = last.channel + 1
<1>1. /\ req[r] # None /\ req[r].at = "opened" /\ last.channel + 1 \in Id
      /\ last' = [last EXCEPT !.channel = last.channel + 1] /\ UNCHANGED tables
  BY DEF PortalInsertChannel, At
<1>2. /\ req[r] \in Call /\ req[r].on \in Id /\ req[r].q.op = "portal_create"
      /\ last \in [channel : Id, tenant : Id] /\ last.channel \in Nat
  BY <1>1, LastNat DEF TypeInv, TypeOK, Sound
<1>3. PICK c \in Id : c = last.channel + 1 BY <1>1
<1>4. req' = [req EXCEPT ![r].at = "channel_in", ![r].new = c]
  BY <1>3 DEF PortalInsertChannel
<1>5. PICK x : x = [req[r] EXCEPT !.at = "channel_in", !.new = c] OBVIOUS
<1>6. /\ x \in Call /\ x.at = "channel_in" /\ x.q = req[r].q /\ x.before = req[r].before
      /\ x.on = req[r].on /\ x.new = c
  BY <1>2, <1>5, IdFacts DEF Call, Place
<1>7. req' = [req EXCEPT ![r] = x] BY <1>4, <1>5
<1>8. Advance(r) /\ req'[r] = x BY <1>1, <1>6, <1>7, Become DEF TypeInv
<1>9. /\ last' \in [channel : Id, tenant : Id]
      /\ last'.channel = c /\ last'.tenant = last.tenant
  BY <1>1, <1>2, <1>3
<1>10. Grown
  <2>1. last.channel <= last'.channel BY <1>2, <1>3, <1>9
  <2>2. LastInv'
    <3>1. tenant' = tenant BY <1>1 DEF tables
    <3>2. QED BY <1>9, <3>1 DEF TypeInv, LastInv
  <2>3. QED BY <1>1, <1>9, <2>1, <2>2 DEF Grown, TypeInv, TypeOK, tables
<1>11. Sound(r)'
  <2>1. c <= c BY IdFacts
  <2>2. QED BY <1>2, <1>6, <1>8, <1>9, <2>1 DEF Sound
<1>12. QED BY <1>1, <1>3, <1>6, <1>8, <1>9, <1>10, <1>11 DEF StepTyped

LEMMA PortalCommitTyped ==
  ASSUME TypeInv, NEW r \in Req, PortalCommit(r)
  PROVE  /\ StepTyped(r) /\ req[r].at = "channel_in" /\ AdvanceTo(r, "done")
         /\ req[r].new \in Id /\ req[r].new <= last.channel
         /\ req[r].q.op = "portal_create"
         /\ req[r].q.unique \in Unique /\ last.tenant + 1 \in Id
         /\ last' = [last EXCEPT !.tenant = last.tenant + 1]
         /\ channel' = [channel EXCEPT ![req[r].new] = "tenant"]
         /\ tenant' = [tenant EXCEPT ![last.tenant + 1] =
                          NewTenant(r, req[r].q.unique, req[r].new)]
<1>1. /\ req[r] # None /\ req[r].at = "channel_in" /\ Goes(r, "done")
      /\ last.tenant + 1 \in Id
      /\ last' = [last EXCEPT !.tenant = last.tenant + 1]
      /\ channel' = [channel EXCEPT ![req[r].new] = "tenant"]
      /\ tenant' = [tenant EXCEPT ![last.tenant + 1] =
                       NewTenant(r, req[r].q.unique, req[r].new)]
  BY DEF PortalCommit, NewApi, At
<1>2. req[r].q.unique \in Unique BY <1>1, AskedOf DEF TypeInv
<1>3. /\ req[r].new \in Id /\ req[r].new <= last.channel /\ req[r].new \in 0..MaxId
      /\ req[r].q.op = "portal_create"
  BY <1>1, IdFacts DEF TypeInv, Sound
<1>4. Grown
  <2>1. PICK y \in Row : y = NewTenant(r, req[r].q.unique, req[r].new)
    BY <1>2, <1>3, NewTenantType
  <2>2. channel' \in [Id -> {"operator", "tenant", None}] BY <1>1 DEF TypeInv, TypeOK
  <2>3. QED BY <1>1, <2>1, <2>2, NewTenantGrown
<1>5. AdvanceTo(r, "done") BY <1>1, GoesAdvances DEF TypeInv, Place
<1>6. QED BY <1>1, <1>2, <1>3, <1>4, <1>5, EndTyped

LEMMA RefusedTyped ==
  ASSUME TypeInv, NEW r \in Req, PortalKeysFail(r) \/ PortalRollback(r) \/ Fail(r)
  PROVE  StepTyped(r) /\ req'[r].at = "refused" /\ Quiet /\ req[r].at # "done"
<1>1. /\ req[r] # None /\ Goes(r, "refused") /\ Quiet /\ req[r].at # "done"
  BY DEF PortalKeysFail, PortalRollback, Fail, InTx, At, Reads, tables, Quiet
<1>2. AdvanceTo(r, "refused") BY <1>1, GoesAdvances DEF TypeInv, Place
<1>3. QED BY <1>1, <1>2, QuietGrown, EndTyped DEF AdvanceTo

LEMMA StepTypes == ASSUME TypeInv, NEW r \in Req, Step(r) PROVE StepTyped(r)
BY InterceptChannelTyped, InterceptTenantTyped, ServeWalletTyped, CreateLookTyped, CreateSaved,
   FindRowTyped, SaveRowTyped, PortalBeginTyped, InsertChannelTyped, PortalCommitTyped,
   RefusedTyped
DEF Step

----------------------------------------------------------------------------
\* Transactions are counted right.
LEMMA CountSame ==
  ASSUME TypeInv, InTxs' = InTxs, open' = open, leaked' = leaked PROVE CountInv'
BY DEF CountInv, TypeInv

LEMMA CountLess ==
  ASSUME TypeInv, NEW r \in InTxs, InTxs' = InTxs \ {r},
         \/ open' = open - 1 /\ leaked' = leaked
         \/ open' = open /\ leaked' = leaked + 1
  PROVE  CountInv'
<1>1. IsFiniteSet(InTxs) /\ leaked \in Nat /\ open = leaked + Cardinality(InTxs)
  BY DEF CountInv, TypeInv
<1>2. /\ IsFiniteSet(InTxs \ {r}) /\ Cardinality(InTxs \ {r}) = Cardinality(InTxs) - 1
  BY <1>1, FS_RemoveElement
<1>3. Cardinality(InTxs) \in Nat BY <1>1, FS_CardinalityType
<1>4. PICK n : n = Cardinality(InTxs) OBVIOUS
<1>5. IsFiniteSet(InTxs)' /\ Cardinality(InTxs)' = n - 1 BY <1>2, <1>4
<1>6. leaked' \in Nat /\ open' = leaked' + (n - 1) BY <1>1, <1>3, <1>4
<1>7. QED BY <1>5, <1>6 DEF CountInv

LEMMA CountMore ==
  ASSUME TypeInv, NEW r, r \notin InTxs, InTxs' = InTxs \cup {r}, open' = open + 1,
         leaked' = leaked
  PROVE  CountInv'
<1>1. IsFiniteSet(InTxs) /\ leaked \in Nat /\ open = leaked + Cardinality(InTxs)
  BY DEF CountInv, TypeInv
<1>2. IsFiniteSet(InTxs \cup {r}) /\ Cardinality(InTxs \cup {r}) = Cardinality(InTxs) + 1
  BY <1>1, FS_AddElement
<1>3. Cardinality(InTxs) \in Nat BY <1>1, FS_CardinalityType
<1>4. PICK n : n = Cardinality(InTxs) OBVIOUS
<1>5. IsFiniteSet(InTxs)' /\ Cardinality(InTxs)' = n + 1 BY <1>2, <1>4
<1>6. leaked' \in Nat /\ open' = leaked' + (n + 1) BY <1>1, <1>3, <1>4
<1>7. QED BY <1>5, <1>6 DEF CountInv

LEMMA CountStep ==
  ASSUME TypeInv, NEW r \in Req, Step(r)
  PROVE  CountInv'
<1> DEFINE Tx == {"opened", "channel_in"}
<1>0. StepTyped(r) /\ Advance(r) BY StepTypes DEF StepTyped
<1>1. \A s \in Req : s # r => (s \in InTxs' <=> s \in InTxs)
  BY <1>0 DEF Advance, InTxs, InTx, At
<1>2. (r \in InTxs <=> req[r].at \in Tx) /\ (r \in InTxs' <=> req'[r].at \in Tx)
  BY <1>0 DEF Advance, InTxs, InTx, At
<1>3. InTxs \subseteq Req /\ InTxs' \subseteq Req BY DEF InTxs
<1>4. ASSUME req[r].at \notin Tx, req'[r].at \notin Tx, UNCHANGED <<open, leaked>> PROVE CountInv'
  <2>1. InTxs' = InTxs BY <1>1, <1>2, <1>3, <1>4
  <2>2. QED BY <1>4, <2>1, CountSame
<1>5. ASSUME NEW p \in Place, Goes(r, p) PROVE req'[r].at = p
  BY <1>0, <1>5, GoesAdvances DEF TypeInv, Advance, AdvanceTo
<1>6. CASE InterceptChannel(r)
  <2>1. \E p \in {"refused", "tenant", "begin"} : Goes(r, p)
    BY <1>6 DEF InterceptChannel
  <2>2. req'[r].at \in {"refused", "tenant", "begin"} BY <1>5, <2>1 DEF Place
  <2>3. req[r].at = "channel" /\ UNCHANGED <<open, leaked>>
    BY <1>6 DEF InterceptChannel, At, Reads
  <2>4. QED BY <1>4, <2>2, <2>3
<1>7. CASE InterceptTenant(r)
  <2>1. \E p \in {"refused", "begin"} : \E n :
          req' = [req EXCEPT ![r].at = p, ![r].on = n]
    BY <1>7 DEF InterceptTenant
  <2>2. req'[r].at \in {"refused", "begin"}
    BY <1>0, <2>1 DEF Advance, TypeInv, TypeOK, Call
  <2>3. req[r].at = "tenant" /\ UNCHANGED <<open, leaked>>
    BY <1>7 DEF InterceptTenant, At, Reads
  <2>4. QED BY <1>4, <2>2, <2>3
<1>8. CASE ServeWallet(r) \/ CreateSave(r) \/ SaveRow(r)
  <2>1. req[r].at \notin Tx /\ Goes(r, "done") /\ UNCHANGED <<open, leaked>>
    BY <1>8 DEF ServeWallet, CreateSave, SaveRow, At
  <2>2. req'[r].at = "done" BY <1>5, <2>1 DEF Place
  <2>3. QED BY <1>4, <2>1, <2>2
<1>9. CASE CreateLook(r)
  <2>1. req[r].at = "begin" /\ UNCHANGED <<open, leaked>>
    BY <1>9 DEF CreateLook, At, Reads
  <2>2. QED BY <1>4, <1>9, <2>1, CreateLookTyped
<1>10. CASE FindRow(r)
  <2>1. req[r].at = "begin" /\ UNCHANGED <<open, leaked>> BY <1>10 DEF FindRow, At, Reads
  <2>2. QED BY <1>4, <1>10, <2>1, FindRowTyped
<1>11. CASE PortalBegin(r)
  <2>1. req[r].at = "begin" /\ req'[r].at = "opened" BY <1>11, PortalBeginTyped
  <2>2. r \notin InTxs /\ InTxs' = InTxs \cup {r} BY <1>1, <1>2, <1>3, <2>1
  <2>3. QED BY <1>11, <2>2, CountMore DEF PortalBegin
<1>12. CASE PortalInsertChannel(r)
  <2>1. req[r].at = "opened" /\ req'[r].at = "channel_in" BY <1>12, InsertChannelTyped
  <2>2. InTxs' = InTxs BY <1>1, <1>2, <1>3, <2>1
  <2>3. QED BY <1>12, <2>2, CountSame DEF PortalInsertChannel
<1>13. CASE PortalKeysFail(r) \/ PortalCommit(r) \/ PortalRollback(r)
  <2>1. req[r].at \in Tx BY <1>13 DEF PortalKeysFail, PortalCommit, PortalRollback, InTx, At
  <2>2. req'[r].at \in {"done", "refused"}
    BY <1>13, RefusedTyped, PortalCommitTyped DEF AdvanceTo
  <2>3. r \in InTxs /\ InTxs' = InTxs \ {r} BY <1>1, <1>2, <1>3, <2>1, <2>2
  <2>4. \/ open' = open - 1 /\ leaked' = leaked
        \/ open' = open /\ leaked' = leaked + 1
    BY <1>13 DEF PortalKeysFail, PortalCommit, PortalRollback, RolledBack
  <2>5. QED BY <2>3, <2>4, CountLess
<1>14. CASE Fail(r)
  <2>1. req[r].at \notin Tx /\ UNCHANGED <<open, leaked>> BY <1>14 DEF Fail, Reads
  <2>2. QED BY <1>4, <1>14, <2>1, RefusedTyped
<1>15. QED
  BY <1>6, <1>7, <1>8, <1>9, <1>10, <1>11, <1>12, <1>13, <1>14 DEF Step

\* What Ask makes of a request.
LEMMA AskedIs ==
  ASSUME TypeOK, NEW r \in Req, NEW q \in Request, Ask(r, q)
  PROVE  /\ req[r] = None /\ req'[r] # None /\ Quiet
         /\ UNCHANGED <<open, leaked, served, chains>>
         /\ \A s \in Req \ {r} : req'[s] = req[s]
         /\ req' \in [Req -> Call \cup {None}]
         /\ req'[r].at = "channel" /\ req'[r].q = q /\ req'[r].on \in Id
         /\ req'[r].before = {s \in Req : At(s, "done")}
<1>1. PICK x : /\ x = [at |-> "channel", q |-> q, on |-> q.on, copy |-> None, new |-> 0,
                       blind |-> FALSE, before |-> {s \in Req : At(s, "done")}]
               /\ req' = [req EXCEPT ![r] = x]
  BY DEF Ask
<1>2. q.on \in Id /\ q.on \in 0..MaxId /\ 0 \in 0..MaxId
  <2>1. q.on \in Id BY TenantsAssumption
  <2>2. 0 \in 0..MaxId BY TenantsAssumption
  <2>3. QED BY <2>1, <2>2, IdFacts
<1>3. x \in Call BY <1>1, <1>2 DEF Call, Place
<1>4. req'[r] = x /\ \A s \in Req \ {r} : req'[s] = req[s] BY <1>1 DEF TypeOK
<1>5. req' \in [Req -> Call \cup {None}] BY <1>1, <1>3 DEF TypeOK
<1>6. x # None /\ req[r] = None BY <1>3, NoneAssumption DEF Ask
<1>7. Quiet /\ UNCHANGED <<open, leaked, served, chains>> BY DEF Ask, Reads, tables, Quiet
<1>8. /\ x.at = "channel" /\ x.q = q /\ x.on = q.on
      /\ x.before = {s \in Req : At(s, "done")}
  BY <1>1
<1>9. QED BY <1>2, <1>4, <1>5, <1>6, <1>7, <1>8

\* Rows of tenant_chain are of tenants, with a key somebody generated.
ChainsTyped == chains \subseteq [tenant : Id, key : Writer]

LEMMA ServeChainsTyped ==
  ASSUME TypeInv, NEW r \in Req, ServeWallet(r) PROVE ChainsTyped'
<1>1. /\ req[r] # None /\ req[r].at = "begin" /\ req[r].q.op = "wallet"
      /\ chains' \subseteq chains \cup {OwnChain(r)}
  BY DEF ServeWallet, At, Doing
<1>2. req[r].on \in Id /\ tenant[req[r].on] # None BY <1>1 DEF TypeInv, Sound
<1>3. tenant[req[r].on] \in Row BY <1>2 DEF TypeInv, TypeOK
<1>4. tenant[req[r].on].key \in Writer BY <1>3 DEF Row
<1>5. OwnChain(r) \in [tenant : Id, key : Writer] BY <1>2, <1>4 DEF OwnChain
<1>6. QED BY <1>1, <1>5 DEF ChainsTyped, TypeInv, TypeOK

LEMMA ChainsStay ==
  ASSUME NEW r \in Req, Step(r), ~ServeWallet(r) PROVE UNCHANGED <<served, chains>>
BY DEF Step, InterceptChannel, InterceptTenant, CreateLook, CreateSave, FindRow,
   SaveRow, PortalBegin, PortalKeysFail, PortalInsertChannel, PortalCommit,
   PortalRollback, Fail, Reads

LEMMA TypedAfter ==
  ASSUME req' \in [Req -> Call \cup {None}], Grown, CountInv', \A r \in Req : Sound(r)',
         ChainsTyped'
  PROVE  TypeInv'
<1>1. open' \in Nat /\ leaked' \in Nat
  <2>1. Cardinality(InTxs)' \in Nat BY FS_CardinalityType DEF CountInv
  <2>2. QED BY <2>1 DEF CountInv
<1>2. \A r \in Req : At(r, "found")' => req'[r].on \in Id /\ req'[r].copy # None
  BY NoneAssumption DEF At, Sound
<1>3. TypeOK' BY <1>1, <1>2 DEF TypeOK, Grown, ChainsTyped
<1>4. QED BY <1>3 DEF TypeInv, Grown

LEMMA AskTyped ==
  ASSUME TypeInv, NEW r \in Req, NEW q \in Request, Ask(r, q)
  PROVE  TypeInv'
<1>1. /\ req[r] = None /\ req'[r] # None /\ Quiet /\ UNCHANGED <<open, leaked, chains>>
      /\ \A s \in Req \ {r} : req'[s] = req[s]
      /\ req' \in [Req -> Call \cup {None}]
      /\ req'[r].at = "channel" /\ req'[r].on \in Id
  BY AskedIs DEF TypeInv
<1>2. Grown BY <1>1, QuietGrown
<1>3. Sound(r)' BY <1>1 DEF Sound
<1>4. \A s \in Req : Sound(s)' BY <1>1, <1>2, <1>3, SoundKept
<1>5. InTxs' = InTxs
  <2>1. \A s \in Req : InTx(s)' <=> InTx(s) BY <1>1 DEF InTx, At
  <2>2. QED BY <2>1 DEF InTxs
<1>6. CountInv' BY <1>1, <1>5, CountSame
<1>7. ChainsTyped' BY <1>1 DEF ChainsTyped, TypeInv, TypeOK
<1>8. QED BY <1>1, <1>2, <1>4, <1>6, <1>7, TypedAfter

LEMMA InitTyped == Init => TypeInv
<1> SUFFICES ASSUME Init PROVE TypeInv OBVIOUS
<1>1. NewTenant(None, FirstUnique, 2) \in Row
  BY NewTenantType, IdFacts, TenantsAssumption
<1>2. PICK y \in Row : y = NewTenant(None, FirstUnique, 2) BY <1>1
<1>3. tenant \in [Id -> Row \cup {None}] /\ \A t \in Id : tenant[t] # None => t = 1
  BY <1>2 DEF Init
<1>4. channel \in [Id -> {"operator", "tenant", None}] BY DEF Init
<1>5. last = [channel |-> 2, tenant |-> 1] BY DEF Init
<1>6. last \in [channel : Id, tenant : Id] /\ last.tenant = 1 BY <1>5, IdFacts
<1>7. LastInv BY <1>3, <1>6 DEF LastInv
<1>8. req \in [Req -> Call \cup {None}] /\ \A r \in Req : req[r] = None BY DEF Init
<1>9. InTxs = {} BY <1>8 DEF InTxs, InTx, At
<1>10. CountInv BY <1>9, FS_EmptySet DEF CountInv, Init
<1>11. \A r \in Req : Sound(r) BY <1>8 DEF Sound
<1>12. TypeOK BY <1>3, <1>4, <1>6, <1>8 DEF TypeOK, Init, At
<1>13. QED BY <1>7, <1>10, <1>11, <1>12 DEF TypeInv

LEMMA SameTyped == ASSUME TypeInv, UNCHANGED vars PROVE TypeInv'
<1>1. Quiet /\ UNCHANGED <<req, open, leaked, chains>> BY DEF vars, tables, Quiet
<1>2. Grown BY <1>1, QuietGrown
<1>3. InTxs' = InTxs BY <1>1 DEF InTxs, InTx, At
<1>4. CountInv' BY <1>1, <1>3, CountSame
<1>5. \A s \in Req : Sound(s)' BY <1>1, <1>2, SoundKept
<1>6. ChainsTyped' BY <1>1 DEF ChainsTyped, TypeInv, TypeOK
<1>7. QED BY <1>1, <1>2, <1>4, <1>5, <1>6, TypedAfter DEF TypeInv, TypeOK

LEMMA TypeStep == TypeInv /\ [Next]_vars => TypeInv'
<1> SUFFICES ASSUME TypeInv, [Next]_vars PROVE TypeInv' OBVIOUS
<1>1. CASE UNCHANGED vars BY <1>1, SameTyped
<1>2. CASE Next
  <2>1. PICK r \in Req : (\E q \in Request : Ask(r, q)) \/ Step(r) BY <1>2 DEF Next
  <2>2. CASE Step(r)
    <3>1. StepTyped(r) BY <2>2, StepTypes
    <3>2. \A s \in Req : Sound(s)' BY <3>1, SoundKept DEF StepTyped, Advance
    <3>3. ChainsTyped' BY <2>2, ServeChainsTyped, ChainsStay DEF ChainsTyped, TypeInv, TypeOK
    <3>4. QED BY <2>2, <3>1, <3>2, <3>3, CountStep, TypedAfter DEF StepTyped, Advance
  <2>3. QED BY <2>1, <2>2, AskTyped
<1>3. QED BY <1>1, <1>2

LEMMA TypeInvHolds == Spec => []TypeInv
BY InitTyped, TypeStep, PTL DEF Spec

\* The tables stay well-formed, ids are given once, and a handler that saves
\* has read a tenant, whatever requests interleave.
THEOREM TenantsTypeCorrect == Spec => []TypeOK
<1>1. TypeInv => TypeOK BY DEF TypeInv
<1>2. QED BY <1>1, TypeInvHolds, PTL

\* No transaction of PortalTenantCreate outlives its request, except where
\* the code returns without ending it.
THEOREM AlwaysOnlyKeysLeak == Spec => []OnlyKeysLeak
<1>1. TypeInv => OnlyKeysLeak BY DEF TypeInv, CountInv, OnlyKeysLeak, InTxs
<1>2. QED BY <1>1, TypeInvHolds, PTL

----------------------------------------------------------------------------
\* The steps that look at a table or write one, and the others.
LEMMA StepKinds ==
  ASSUME TypeInv, NEW r \in Req, Step(r)
  PROVE  \/ Quiet /\ req'[r].at \notin {"channel_in", "looked", "found"}
         \/ CreateLook(r) /\ Quiet
         \/ FindRow(r) \/ CreateSave(r) \/ SaveRow(r)
         \/ PortalInsertChannel(r) \/ PortalCommit(r)
<1>0. Advance(r) BY StepTypes DEF StepTyped
<1>1. ASSUME NEW p \in Place, Goes(r, p) PROVE req'[r].at = p
  BY <1>0, <1>1, GoesAdvances DEF TypeInv, Advance, AdvanceTo
<1>2. CASE InterceptChannel(r)
  <2>1. \E p \in {"refused", "tenant", "begin"} : Goes(r, p) BY <1>2 DEF InterceptChannel
  <2>2. req'[r].at \in {"refused", "tenant", "begin"} BY <1>1, <2>1 DEF Place
  <2>3. QED BY <1>2, <2>2 DEF InterceptChannel, Reads, tables, Quiet
<1>3. CASE InterceptTenant(r)
  <2>1. \E p \in {"refused", "begin"} : \E n :
          req' = [req EXCEPT ![r].at = p, ![r].on = n]
    BY <1>3 DEF InterceptTenant
  <2>2. req'[r].at \in {"refused", "begin"}
    BY <1>0, <2>1 DEF Advance, TypeInv, TypeOK, Call
  <2>3. QED BY <1>3, <2>2 DEF InterceptTenant, Reads, tables, Quiet
<1>4. CASE ServeWallet(r)
  <2>1. req'[r].at = "done" BY <1>1, <1>4 DEF ServeWallet, Place
  <2>2. QED BY <1>4, <2>1 DEF ServeWallet, tables, Quiet
<1>5. CASE CreateLook(r) BY <1>5 DEF CreateLook, Reads, tables, Quiet
<1>6. QED
  BY <1>2, <1>3, <1>4, <1>5, PortalBeginTyped, RefusedTyped DEF Step

\* Channels are given once, a request in its transaction has one nobody sees,
\* and a channel that is seen has one tenant.
Inserted(r) == At(r, "channel_in")
PairInv ==
  /\ \A c \in Id : channel[c] # None => c <= last.channel
  /\ \A r \in Req : Inserted(r) => channel[req[r].new] = None
  /\ \A r, s \in Req : (Inserted(r) /\ Inserted(s) /\ req[r].new = req[s].new) => r = s
  /\ \A c \in Id : channel[c] = "tenant" => \E t \in Id : tenant[t] # None /\ tenant[t].api = c
  /\ \A t \in Id : tenant[t] # None =>
       tenant[t].api = 0 \/ (tenant[t].api \in Id /\ channel[tenant[t].api] = "tenant")
  /\ \A s, t \in Id :
       (tenant[s] # None /\ tenant[t] # None /\ tenant[s].api = tenant[t].api
          /\ tenant[s].api # 0) => s = t

LEMMA PairSame ==
  ASSUME TypeInv, PairInv, channel' = channel, last'.channel = last.channel,
         \A s \in Req : Inserted(s)' => Inserted(s) /\ req'[s].new = req[s].new,
         \A t \in Id : tenant[t] # None => tenant'[t] # None /\ tenant'[t].api = tenant[t].api,
         \A t \in Id : (tenant[t] = None /\ tenant'[t] # None) => tenant'[t].api = 0
  PROVE  PairInv'
<1>1. \A c \in Id : channel'[c] # None => c <= last'.channel BY DEF PairInv
<1>2. \A r \in Req : Inserted(r)' => channel'[req'[r].new] = None BY DEF PairInv
<1>3. \A r, s \in Req : (Inserted(r)' /\ Inserted(s)' /\ req'[r].new = req'[s].new) => r = s
  BY DEF PairInv
<1>4. \A c \in Id : channel'[c] = "tenant" =>
        \E t \in Id : tenant'[t] # None /\ tenant'[t].api = c
  BY DEF PairInv
<1>5. \A t \in Id : tenant'[t] # None =>
        tenant'[t].api = 0 \/ (tenant'[t].api \in Id /\ channel'[tenant'[t].api] = "tenant")
  BY DEF PairInv
<1>6. \A s, t \in Id :
        (tenant'[s] # None /\ tenant'[t] # None /\ tenant'[s].api = tenant'[t].api
           /\ tenant'[s].api # 0) => s = t
  BY DEF PairInv
<1>7. QED BY <1>1, <1>2, <1>3, <1>4, <1>5, <1>6 DEF PairInv

LEMMA PairQuiet ==
  ASSUME TypeInv, PairInv, Quiet,
         \A s \in Req : Inserted(s)' => Inserted(s) /\ req'[s].new = req[s].new
  PROVE  PairInv'
BY PairSame DEF Quiet

LEMMA PairInsert ==
  ASSUME TypeInv, PairInv, NEW r \in Req, PortalInsertChannel(r)
  PROVE  PairInv'
<1>1. /\ Advance(r) /\ req[r].at = "opened" /\ req'[r].at = "channel_in"
      /\ req'[r].new = last.channel + 1 /\ last.channel + 1 \in Id
      /\ tenant' = tenant /\ channel' = channel /\ last'.channel = last.channel + 1
      /\ last.channel \in Nat
  BY InsertChannelTyped, LastNat DEF StepTyped, tables
<1>2. channel[last.channel + 1] = None
  <2>1. ~(last.channel + 1 <= last.channel) BY <1>1
  <2>2. QED BY <1>1, <2>1 DEF PairInv
<1>3. \A s \in Req \ {r} : /\ (Inserted(s)' <=> Inserted(s)) /\ req'[s].new = req[s].new
                           /\ Inserted(s) => req[s].new # last.channel + 1
  <2>1. \A s \in Req \ {r} : req'[s] = req[s] BY <1>1 DEF Advance
  <2>2. ASSUME NEW s \in Req, Inserted(s) PROVE req[s].new # last.channel + 1
    <3>1. req[s].new \in Nat /\ req[s].new <= last.channel
      BY <2>2, IdFacts DEF Inserted, At, TypeInv, Sound
    <3>2. QED BY <1>1, <3>1
  <2>3. QED BY <2>1, <2>2 DEF Inserted, At
<1>4. \A s \in Req : Inserted(s)' => channel'[req'[s].new] = None
  BY <1>1, <1>2, <1>3 DEF PairInv
<1>5. \A s, u \in Req : (Inserted(s)' /\ Inserted(u)' /\ req'[s].new = req'[u].new) => s = u
  BY <1>1, <1>3 DEF PairInv
<1>6. \A c \in Id : channel'[c] # None => c <= last'.channel
  <2> SUFFICES ASSUME NEW c \in Id, channel'[c] # None PROVE c <= last'.channel OBVIOUS
  <2>1. c <= last.channel /\ c \in Nat BY <1>1, IdFacts DEF PairInv
  <2>2. QED BY <1>1, <2>1
<1>7. QED BY <1>1, <1>4, <1>5, <1>6 DEF PairInv

LEMMA PairCommit ==
  ASSUME TypeInv, PairInv, NEW r \in Req, PortalCommit(r)
  PROVE  PairInv'
<1> DEFINE c == req[r].new  t == last.tenant + 1
<1>1. /\ AdvanceTo(r, "done") /\ Grown /\ Inserted(r) /\ c \in Id /\ c <= last.channel /\ t \in Id
      /\ last' = [last EXCEPT !.tenant = t] /\ channel' = [channel EXCEPT ![c] = "tenant"]
      /\ tenant' = [tenant EXCEPT ![t] = NewTenant(r, req[r].q.unique, c)]
      /\ req[r].q.unique \in Unique /\ c \in 0..MaxId
  BY PortalCommitTyped, IdFacts DEF StepTyped, Advance, Inserted, At
<1>2. PICK y \in Row : /\ y # None /\ y.api = c
                       /\ tenant' = [tenant EXCEPT ![t] = y]
  <2>1. PICK y : y = NewTenant(r, req[r].q.unique, c) OBVIOUS
  <2>2. y \in Row /\ y # None /\ y.api = c BY <1>1, <2>1, NewTenantType
  <2>3. QED BY <1>1, <2>1, <2>2
<1>3. tenant[t] = None /\ last'.channel = last.channel
  <2>1. channel' \in [Id -> {"operator", "tenant", None}] BY <1>1 DEF Grown
  <2>2. tenant[t] = None BY <1>1, <1>2, <2>1, NewTenantGrown
  <2>3. last'.channel = last.channel BY <1>1 DEF TypeInv, TypeOK
  <2>4. QED BY <2>2, <2>3
<1> HIDE DEF c, t
<1>4. /\ tenant'[t] = y /\ \A s \in Id : s # t => tenant'[s] = tenant[s]
      /\ channel'[c] = "tenant" /\ \A d \in Id : d # c => channel'[d] = channel[d]
      /\ 0 # c
  <2>1. tenant \in [Id -> Row \cup {None}] /\ channel \in [Id -> {"operator", "tenant", None}]
    BY DEF TypeInv, TypeOK
  <2>2. tenant'[t] = y /\ \A s \in Id : s # t => tenant'[s] = tenant[s] BY <1>1, <1>2, <2>1
  <2>3. channel'[c] = "tenant" /\ \A d \in Id : d # c => channel'[d] = channel[d]
    BY <1>1, <2>1
  <2>4. QED BY <1>1, <2>2, <2>3, IdFacts
<1>5. channel[c] = None /\ "tenant" # None BY <1>1, NoneAssumption DEF PairInv, c
<1>6. \A s \in Req : Inserted(s)' => Inserted(s) /\ s # r /\ req'[s].new = req[s].new
  BY <1>1 DEF AdvanceTo, Advance, Inserted, At
<1>7. \A s \in Req : Inserted(s)' => channel'[req'[s].new] = None
  <2> SUFFICES ASSUME NEW s \in Req, Inserted(s)' PROVE channel'[req'[s].new] = None
    OBVIOUS
  <2>1. req[s].new # c BY <1>1, <1>6 DEF PairInv, c
  <2>2. req[s].new \in Id /\ channel[req[s].new] = None
    BY <1>6 DEF PairInv, TypeInv, Sound, Inserted, At
  <2>3. QED BY <1>4, <1>6, <2>1, <2>2
<1>8. \A s, u \in Req : (Inserted(s)' /\ Inserted(u)' /\ req'[s].new = req'[u].new) => s = u
  BY <1>6 DEF PairInv
<1>9. \A d \in Id : channel'[d] # None => d <= last'.channel
  BY <1>1, <1>3, <1>4 DEF PairInv
<1>10. \A d \in Id : channel'[d] = "tenant" =>
         \E s \in Id : tenant'[s] # None /\ tenant'[s].api = d
  <2> SUFFICES ASSUME NEW d \in Id, channel'[d] = "tenant"
               PROVE  \E s \in Id : tenant'[s] # None /\ tenant'[s].api = d
    OBVIOUS
  <2>1. CASE d = c BY <1>1, <1>2, <1>4, <2>1
  <2>2. CASE d # c
    <3>1. PICK s \in Id : tenant[s] # None /\ tenant[s].api = d BY <1>4, <2>2 DEF PairInv
    <3>2. s # t BY <1>3, <3>1
    <3>3. QED BY <1>4, <3>1, <3>2
  <2>3. QED BY <2>1, <2>2
<1>11. \A s \in Id : tenant'[s] # None =>
         tenant'[s].api = 0 \/ (tenant'[s].api \in Id /\ channel'[tenant'[s].api] = "tenant")
  <2> SUFFICES ASSUME NEW s \in Id, tenant'[s] # None
               PROVE  \/ tenant'[s].api = 0
                      \/ tenant'[s].api \in Id /\ channel'[tenant'[s].api] = "tenant"
    OBVIOUS
  <2>1. CASE s = t BY <1>1, <1>2, <1>4, <2>1
  <2>2. CASE s # t BY <1>4, <2>2 DEF PairInv
  <2>3. QED BY <2>1, <2>2
<1>12. \A s \in Id : (s # t /\ tenant'[s] # None) => tenant'[s].api # c
  BY <1>4, <1>5 DEF PairInv
<1>13. \A s, u \in Id :
         (tenant'[s] # None /\ tenant'[u] # None /\ tenant'[s].api = tenant'[u].api
            /\ tenant'[s].api # 0) => s = u
  <2> SUFFICES ASSUME NEW s \in Id, NEW u \in Id, tenant'[s] # None, tenant'[u] # None,
                      tenant'[s].api = tenant'[u].api, tenant'[s].api # 0
               PROVE  s = u
    OBVIOUS
  <2>1. CASE s # t /\ u # t BY <1>4, <2>1 DEF PairInv
  <2>2. CASE s = t \/ u = t BY <1>2, <1>4, <1>12, <2>2
  <2>3. QED BY <2>1, <2>2
<1>14. QED BY <1>7, <1>8, <1>9, <1>10, <1>11, <1>13 DEF PairInv

LEMMA PairStep == TypeInv /\ PairInv /\ [Next]_vars => PairInv'
<1> SUFFICES ASSUME TypeInv, PairInv, [Next]_vars PROVE PairInv' OBVIOUS
<1>1. CASE UNCHANGED vars
  <2>1. Quiet /\ req' = req BY <1>1 DEF vars, tables, Quiet
  <2>2. QED BY <2>1, PairQuiet DEF Inserted, At
<1>2. ASSUME NEW r \in Req, NEW q \in Request, Ask(r, q) PROVE PairInv'
  <2>1. /\ Quiet /\ req'[r].at = "channel" /\ \A s \in Req \ {r} : req'[s] = req[s]
    BY <1>2, AskedIs DEF TypeInv
  <2>2. QED BY <2>1, PairQuiet DEF Inserted, At
<1>3. ASSUME NEW r \in Req, Step(r) PROVE PairInv'
  <2>1. Advance(r) /\ Grown BY <1>3, StepTypes DEF StepTyped
  <2>2. ASSUME req'[r].at # "channel_in"
        PROVE  \A s \in Req : Inserted(s)' => Inserted(s) /\ req'[s].new = req[s].new
    BY <2>1, <2>2 DEF Advance, Inserted, At
  <2>3. CASE Quiet /\ req'[r].at # "channel_in" BY <2>2, <2>3, PairQuiet
  <2>4. CASE CreateLook(r) /\ Quiet
    <3>1. req'[r].at # "channel_in" BY <2>4, CreateLookTyped
    <3>2. QED BY <2>3, <2>4, <3>1
  <2>5. CASE FindRow(r)
    <3>1. Quiet /\ req'[r].at # "channel_in" BY <2>5, FindRowTyped
    <3>2. QED BY <2>3, <3>1
  <2>6. CASE CreateSave(r)
    <3>1. /\ req'[r].at # "channel_in" /\ channel' = channel
          /\ last.tenant + 1 \in Id /\ req[r].q.unique \in Unique
          /\ tenant' = [tenant EXCEPT ![last.tenant + 1] = NewTenant(r, req[r].q.unique, 0)]
          /\ last' = [last EXCEPT !.tenant = last.tenant + 1]
      BY <2>6, CreateSaved DEF AdvanceTo, CreateSave
    <3>2. PICK y : y.api = 0 /\ tenant' = [tenant EXCEPT ![last.tenant + 1] = y]
      <4>1. PICK y : y = NewTenant(r, req[r].q.unique, 0) OBVIOUS
      <4>2. y.api = 0 BY <4>1 DEF NewTenant
      <4>3. QED BY <3>1, <4>1, <4>2
    <3>3. last'.channel = last.channel BY <3>1 DEF TypeInv, TypeOK
    <3>4. \A t \in Id : tenant'[t] = tenant[t] \/ tenant'[t].api = 0
      BY <3>1, <3>2 DEF TypeInv, TypeOK
    <3>5. QED BY <2>1, <2>2, <3>1, <3>3, <3>4, PairSame DEF Grown
  <2>7. CASE SaveRow(r)
    <3>1. /\ req'[r].at # "channel_in" /\ UNCHANGED <<channel, last>> /\ req[r].on \in Id
          /\ tenant' = [tenant EXCEPT ![req[r].on] = Written(r)]
      BY <2>7, SaveRowTyped DEF AdvanceTo
    <3>2. tenant[req[r].on] # None
      BY <2>1, <2>7, SaveRowTyped DEF Advance, TypeInv, Sound
    <3>3. \A t \in Id : tenant[t] = None => tenant'[t] = tenant[t]
      BY <3>1, <3>2 DEF TypeInv, TypeOK
    <3>4. QED BY <2>1, <2>2, <3>1, <3>3, PairSame DEF Grown
  <2>8. QED
    BY <1>3, <2>3, <2>4, <2>5, <2>6, <2>7, StepKinds, PairInsert, PairCommit
<1>4. QED BY <1>1, <1>2, <1>3 DEF Next

LEMMA InitPairs == Init => PairInv
<1> SUFFICES ASSUME Init PROVE PairInv OBVIOUS
<1>1. PICK y \in Row : y.api = 2 /\ y # None /\ y = NewTenant(None, FirstUnique, 2)
  BY NewTenantType, IdFacts, TenantsAssumption
<1>2. tenant = [t \in Id |-> IF t = 1 THEN y ELSE None] BY <1>1 DEF Init
<1>3. tenant[1] = y /\ \A t \in Id : t # 1 => tenant[t] = None BY <1>2, IdFacts
<1>4. /\ channel[1] = "operator" /\ channel[2] = "tenant"
      /\ \A c \in Id : c \notin {1, 2} => channel[c] = None
  BY IdFacts DEF Init
<1>5. last.channel = 2 BY DEF Init
<1>6. \A r \in Req : ~Inserted(r) BY DEF Init, Inserted, At
<1>7. "tenant" # None BY NoneAssumption
<1>8. \A c \in Id : channel[c] # None => c <= last.channel BY <1>4, <1>5
<1>9. \A c \in Id : channel[c] = "tenant" => c = 2 BY <1>4, <1>7
<1>10. QED BY <1>1, <1>3, <1>4, <1>6, <1>8, <1>9, IdFacts DEF PairInv

LEMMA PairInvHolds == Spec => []PairInv
BY TypeInvHolds, InitPairs, PairStep, PTL DEF Spec

\* A channel and its tenant come together and belong to each other alone
\* (PortalTenantCreate), whatever fails and whoever creates at the same time.
THEOREM AlwaysChannelsPaired == Spec => []ChannelsPaired
<1>1. TypeInv /\ PairInv => ChannelsPaired
  <2> SUFFICES ASSUME TypeInv, PairInv PROVE ChannelsPaired OBVIOUS
  <2>1. ASSUME NEW c \in Id, channel[c] = "tenant" PROVE Cardinality(OfChannel(c)) = 1
    <3>1. PICK t \in Id : tenant[t] # None /\ tenant[t].api = c BY <2>1 DEF PairInv
    <3>2. \A s \in OfChannel(c) : s = t BY <3>1, IdFacts DEF OfChannel, PairInv
    <3>3. OfChannel(c) = {t} BY <3>1, <3>2 DEF OfChannel
    <3>4. QED BY <3>3, FS_Singleton
  <2>2. QED BY <2>1 DEF ChannelsPaired, PairInv
<1>2. QED BY <1>1, TypeInvHolds, PairInvHolds, PTL

\* A row of tenant_chain is of the key its tenant has; what was served belongs
\* to the tenant of the channel that asked, and to the key of the owner, that
\* tenant or the one the body names.
ChainOk(x) == x.tenant \in Id /\ tenant[x.tenant] # None /\ tenant[x.tenant].key = x.key
ServedOk(x) ==
  /\ x.tenant \in Id /\ tenant[x.tenant] # None /\ x.app \in Id
  /\ tenant[x.tenant].api = x.app
  /\ x.owner \in {x.tenant, x.body} /\ x.owner \in Id
  /\ tenant[x.owner] # None /\ tenant[x.owner].key = x.key
KeyInv == (\A x \in chains : ChainOk(x)) /\ (\A x \in served : ServedOk(x))

LEMMA KeyKept == ASSUME KeyInv, Grown, UNCHANGED <<served, chains>> PROVE KeyInv'
BY DEF KeyInv, ChainOk, ServedOk, Grown

LEMMA KeyServe ==
  ASSUME TypeInv, KeyInv, NEW r \in Req, ServeWallet(r) PROVE KeyInv'
<1>1. /\ req[r] # None /\ req[r].at = "begin" /\ req[r].q.op = "wallet" /\ tenant' = tenant
  BY DEF ServeWallet, At, Doing, tables
<1>2. PICK x \in ChainsFor(r) \cup {OwnChain(r)} :
        /\ chains' \subseteq chains \cup {OwnChain(r)}
        /\ served' = served \cup {[app |-> req[r].q.app, body |-> req[r].q.body,
             tenant |-> req[r].on, owner |-> x.tenant, key |-> x.key]}
  BY DEF ServeWallet
<1>3. /\ req[r].on \in Id /\ tenant[req[r].on] # None /\ req[r].q.app \in Id
      /\ tenant[req[r].on].api = req[r].q.app
  BY <1>1, AskedOf DEF TypeInv, Sound
<1>4. ChainOk(OwnChain(r)) /\ OwnChain(r).tenant = req[r].on
  BY <1>3 DEF ChainOk, OwnChain
<1>5. ChainOk(x) /\ x.tenant \in {req[r].on, req[r].q.body}
  BY <1>2, <1>4 DEF ChainsFor, KeyInv
<1>6. PICK y : y = [app |-> req[r].q.app, body |-> req[r].q.body, tenant |-> req[r].on,
                    owner |-> x.tenant, key |-> x.key]
  OBVIOUS
<1>7. ServedOk(y) BY <1>3, <1>5, <1>6 DEF ServedOk, ChainOk
<1>8. \A z \in chains' : ChainOk(z) BY <1>2, <1>4 DEF KeyInv
<1>9. \A z \in served' : ServedOk(z) BY <1>2, <1>6, <1>7 DEF KeyInv
<1>10. QED BY <1>1, <1>8, <1>9 DEF KeyInv, ChainOk, ServedOk

LEMMA KeyStep == TypeInv /\ KeyInv /\ [Next]_vars => KeyInv'
<1> SUFFICES ASSUME TypeInv, KeyInv, [Next]_vars PROVE KeyInv' OBVIOUS
<1>1. CASE UNCHANGED vars
  <2>1. Quiet /\ UNCHANGED <<served, chains>> BY <1>1 DEF vars, tables, Quiet
  <2>2. QED BY <2>1, KeyKept, QuietGrown
<1>2. ASSUME NEW r \in Req, NEW q \in Request, Ask(r, q) PROVE KeyInv'
  <2>1. Quiet /\ UNCHANGED <<served, chains>> BY <1>2, AskedIs DEF TypeInv
  <2>2. QED BY <2>1, KeyKept, QuietGrown
<1>3. ASSUME NEW r \in Req, Step(r), ~ServeWallet(r) PROVE KeyInv'
  <2>1. Grown BY <1>3, StepTypes DEF StepTyped
  <2>2. QED BY <1>3, <2>1, ChainsStay, KeyKept
<1>4. QED BY <1>1, <1>2, <1>3, KeyServe DEF Next

LEMMA KeyInvHolds == Spec => []KeyInv
<1>1. Init => KeyInv BY DEF Init, KeyInv
<1>2. QED BY <1>1, TypeInvHolds, KeyStep, PTL DEF Spec

\* However updates, deletions and new tenants interleave with them, requests
\* for wallets are served for the tenant of their channel, with its key or that
\* of the tenant their body names, and with one key of each.
THEOREM AlwaysOneKeyPerChannel == Spec => []OneKeyPerChannel
<1>1. PairInv /\ KeyInv => OneKeyPerChannel
  <2> SUFFICES ASSUME PairInv, KeyInv PROVE OneKeyPerChannel OBVIOUS
  <2>1. \A x \in served : x.owner \in {x.tenant, x.body} BY DEF KeyInv, ServedOk
  <2>2. ASSUME NEW x \in served, NEW y \in served
        PROVE  (x.app = y.app <=> x.tenant = y.tenant) /\ (x.owner = y.owner => x.key = y.key)
    <3>1. ServedOk(x) /\ ServedOk(y) BY DEF KeyInv
    <3>2. x.app # 0 BY <3>1, IdFacts DEF ServedOk
    <3>3. x.app = y.app => x.tenant = y.tenant BY <3>1, <3>2 DEF PairInv, ServedOk
    <3>4. QED BY <3>1, <3>3 DEF ServedOk
  <2>3. QED BY <2>1, <2>2 DEF OneKeyPerChannel
<1>2. QED BY <1>1, PairInvHolds, KeyInvHolds, PTL

----------------------------------------------------------------------------
\* The rows a step writes are those of its request, which is answered by it.
LEMMA RowsWritten ==
  ASSUME TypeInv, NEW r \in Req, Step(r), NEW t \in Id, tenant'[t] # tenant[t]
  PROVE  /\ tenant'[t] # None /\ tenant'[t].saved = r
         /\ req[r].at # "done" /\ AdvanceTo(r, "done")
         /\ req[r].q.op = "create" =>
              /\ req[r].at = "looked" /\ tenant'[t].text.unique = req[r].q.unique
              /\ \A s \in Id : s # t => tenant'[s] = tenant[s]
<1>1. ~Quiet BY DEF Quiet
<1>2. CASE CreateSave(r)
  <2>1. /\ req[r].at = "looked" /\ AdvanceTo(r, "done") /\ req[r].q.unique \in Unique
        /\ last.tenant + 1 \in Id
        /\ tenant' = [tenant EXCEPT ![last.tenant + 1] = NewTenant(r, req[r].q.unique, 0)]
    BY <1>2, CreateSaved
  <2>2. PICK y : y = NewTenant(r, req[r].q.unique, 0) OBVIOUS
  <2>3. y # None /\ y.saved = r /\ y.text.unique = req[r].q.unique
    BY <2>1, <2>2, NewTenantType, TenantsAssumption
  <2>4. \A s \in Id : tenant'[s] = IF s = last.tenant + 1 THEN y ELSE tenant[s]
    BY <2>1, <2>2 DEF TypeInv, TypeOK
  <2>5. t = last.tenant + 1 BY <2>4
  <2>6. QED BY <2>1, <2>3, <2>4, <2>5
<1>3. CASE PortalCommit(r)
  <2>1. /\ req[r].at = "channel_in" /\ AdvanceTo(r, "done") /\ req[r].q.unique \in Unique
        /\ last.tenant + 1 \in Id /\ req[r].new \in Id /\ req[r].q.op = "portal_create"
        /\ tenant' = [tenant EXCEPT ![last.tenant + 1] =
                         NewTenant(r, req[r].q.unique, req[r].new)]
    BY <1>3, PortalCommitTyped
  <2>2. PICK y : y = NewTenant(r, req[r].q.unique, req[r].new) OBVIOUS
  <2>3. y # None /\ y.saved = r
    <3>1. req[r].new \in 0..MaxId BY <2>1, IdFacts
    <3>2. QED BY <2>1, <2>2, <3>1, NewTenantType
  <2>4. tenant'[t] = y BY <2>1, <2>2 DEF TypeInv, TypeOK
  <2>5. QED BY <2>1, <2>3, <2>4
<1>4. CASE SaveRow(r)
  <2>1. /\ req[r].at = "found" /\ AdvanceTo(r, "done") /\ req[r].copy \in Row
        /\ req[r].q.op \in SaveOps /\ Written(r) \in Row /\ req[r].on \in Id
        /\ tenant' = [tenant EXCEPT ![req[r].on] = Written(r)]
    BY <1>4, SaveRowTyped
  <2>2. Written(r).saved = r BY <2>1, WrittenIs DEF AdvanceTo, Advance
  <2>3. tenant'[t] = Written(r) BY <2>1 DEF TypeInv, TypeOK
  <2>4. QED BY <2>1, <2>2, <2>3, NoneAssumption DEF SaveOps
<1>5. tenant' = tenant \/ CreateSave(r) \/ PortalCommit(r) \/ SaveRow(r)
  BY StepKinds, FindRowTyped, InsertChannelTyped DEF Quiet, tables
<1>6. QED BY <1>2, <1>3, <1>4, <1>5

LEMMA NotDone == ASSUME NEW r \in Req, Step(r) PROVE req[r].at # "done"
BY DEF Step, InterceptChannel, InterceptTenant, ServeWallet, CreateLook, CreateSave, FindRow,
       SaveRow, PortalBegin, PortalKeysFail, PortalInsertChannel, PortalCommit,
       PortalRollback, Fail, InTx, At

LEMMA DoneStays ==
  ASSUME TypeInv, NEW r \in Req, Step(r), NEW s \in Req, At(s, "done")
  PROVE  At(s, "done")' /\ s # r /\ req'[s] = req[s]
<1>1. s # r BY NotDone DEF At
<1>2. req'[s] = req[s] BY <1>1, StepTypes DEF StepTyped, Advance
<1>3. QED BY <1>1, <1>2 DEF At

\* Rows were saved by requests that are answered; so are those a request came
\* after; and a request that looked for its unique id knows it is in no row
\* that they saved.
SaverDone(t) == (tenant[t] # None /\ tenant[t].saved # None) =>
  tenant[t].saved \in Req /\ At(tenant[t].saved, "done")
SavedInv == \A t \in Id : SaverDone(t)
BeforeInv == \A r \in Req : req[r] # None =>
               \A s \in req[r].before : s \in Req /\ At(s, "done")
LookInv == \A r \in Req : (At(r, "looked") /\ ~req[r].blind) =>
  \A t \in Id : (tenant[t] # None /\ tenant[t].saved \in req[r].before \cup {None}) =>
    tenant[t].text.unique # req[r].q.unique

\* SameUniqueIdNeedsRace for two tenants and the request c that saved one.
Race(s, t, c) ==
  (s # t /\ tenant[s] # None /\ tenant[t] # None /\ tenant[t].saved = c
     /\ c # None /\ Doing(c, {"create"}) /\ tenant[s].text.unique = tenant[t].text.unique)
   => req[c].blind \/ tenant[s].saved \notin req[c].before \cup {None}

LEMMA RaceIs ==
  ASSUME SavedInv
  PROVE  SameUniqueIdNeedsRace <=> \A s, t \in Id, c \in Req : Race(s, t, c)
<1>1. \A t \in Id : (tenant[t] # None /\ tenant[t].saved # None) => tenant[t].saved \in Req
  BY DEF SavedInv, SaverDone
<1>2. QED BY <1>1, NoneAssumption DEF SameUniqueIdNeedsRace, Race

RaceInv == SavedInv /\ BeforeInv /\ LookInv /\ SameUniqueIdNeedsRace

LEMMA RaceStep ==
  ASSUME TypeInv, RaceInv, NEW r \in Req, Step(r)
  PROVE  RaceInv'
<1>0. Advance(r) /\ r # None BY StepTypes, NoneAssumption DEF StepTyped
<1>1. SavedInv'
  <2> SUFFICES ASSUME NEW t \in Id PROVE SaverDone(t)' BY DEF SavedInv
  <2>1. CASE tenant'[t] = tenant[t]
    <3>1. SaverDone(t) BY DEF RaceInv, SavedInv
    <3>2. ASSUME NEW s \in Req, At(s, "done") PROVE At(s, "done")' BY <3>2, DoneStays
    <3>3. \A s \in Req : req[s] # None /\ req[s].at = "done" =>
                       req'[s] # None /\ req'[s].at = "done"
      BY <3>2 DEF At
    <3>4. QED BY <2>1, <3>1, <3>3 DEF SaverDone, At
  <2>2. CASE tenant'[t] # tenant[t]
    <3>1. tenant'[t].saved = r /\ AdvanceTo(r, "done") BY <2>2, RowsWritten
    <3>2. QED BY <3>1 DEF AdvanceTo, Advance, At, SaverDone
  <2>3. QED BY <2>1, <2>2
<1>2. BeforeInv'
  <2> SUFFICES ASSUME NEW s \in Req, req'[s] # None, NEW u \in req'[s].before
               PROVE  u \in Req /\ At(u, "done")'
    BY DEF BeforeInv
  <2>1. req[s] # None /\ u \in req[s].before BY <1>0 DEF Advance
  <2>2. u \in Req /\ At(u, "done") BY <2>1 DEF RaceInv, BeforeInv
  <2>3. QED BY <2>2, DoneStays
\* A row somebody writes now was saved by nobody who came before.
<1>3. ASSUME NEW s \in Req, req[s] # None, NEW t \in Id, tenant'[t] # tenant[t]
      PROVE  tenant'[t].saved \notin req[s].before \cup {None}
  <2>1. tenant'[t].saved = r BY <1>3, RowsWritten
  <2>2. r \notin req[s].before
    <3>1. r \in req[s].before => At(r, "done") BY <1>3 DEF RaceInv, BeforeInv
    <3>2. QED BY <3>1, NotDone DEF At
  <2>3. QED BY <1>0, <2>1, <2>2
<1>4. LookInv'
  <2> SUFFICES ASSUME NEW s \in Req, At(s, "looked")', ~req'[s].blind, NEW t \in Id,
                      tenant'[t] # None, tenant'[t].saved \in req'[s].before \cup {None}
               PROVE  tenant'[t].text.unique # req'[s].q.unique
    BY DEF LookInv
  <2>1. req[s] # None /\ req'[s].before = req[s].before /\ req'[s].q = req[s].q
    BY <1>0 DEF Advance, At
  <2>2. tenant'[t] = tenant[t] BY <1>3, <2>1
  <2>3. CASE s # r
    <3>1. req'[s] = req[s] BY <1>0, <2>3 DEF Advance
    <3>2. QED BY <2>2, <3>1 DEF RaceInv, LookInv, At
  <2>4. CASE s = r
    <3>1. CreateLook(r)
      <4>1. req'[r].at = "looked" BY <2>4 DEF At
      <4>2. \/ req'[r].at \in {"done", "found", "refused", "channel_in"}
            \/ CreateLook(r) \/ req'[r].at # "looked"
        BY StepKinds, FindRowTyped, CreateSaved, SaveRowTyped, InsertChannelTyped,
           PortalCommitTyped DEF AdvanceTo
      <4>3. QED BY <4>1, <4>2
    <3>2. ~UniqueTaken(req[r].q.unique) BY <2>4, <3>1, CreateLookTyped DEF At
    <3>3. tenant[t].text.unique # req[r].q.unique
      BY <2>2, <3>2 DEF UniqueTaken, OfUnique
    <3>4. QED BY <2>1, <2>2, <2>4, <3>3
  <2>5. QED BY <2>3, <2>4
<1>5. ASSUME NEW s \in Id, NEW t \in Id, NEW c \in Req PROVE Race(s, t, c)'
  <2> SUFFICES ASSUME s # t, tenant'[s] # None, tenant'[t] # None, tenant'[t].saved = c,
                      c # None, Doing(c, {"create"})',
                      tenant'[s].text.unique = tenant'[t].text.unique
               PROVE  req'[c].blind \/ tenant'[s].saved \notin req'[c].before \cup {None}
    BY DEF Race
  <2>3. req'[c].q.op = "create" BY DEF Doing
  <2>4. CASE tenant'[t] = tenant[t]
    <3>1. At(c, "done") BY <2>4 DEF RaceInv, SavedInv, SaverDone
    <3>2. req'[c] = req[c] /\ req[c] # None BY <3>1, DoneStays DEF At
    <3>3. Doing(c, {"create"}) BY <2>3, <3>2 DEF Doing
    <3>4. CASE tenant'[s] = tenant[s]
      <4>1. Race(s, t, c) BY RaceIs DEF RaceInv
      <4>2. req[c].blind \/ tenant[s].saved \notin req[c].before \cup {None}
        BY <2>4, <3>3, <3>4, <4>1 DEF Race
      <4>3. QED BY <3>2, <3>4, <4>2
    <3>5. CASE tenant'[s] # tenant[s] BY <1>3, <3>2, <3>5
    <3>6. QED BY <3>4, <3>5
  <2>5. CASE tenant'[t] # tenant[t]
    <3>1. c = r /\ AdvanceTo(r, "done") BY <2>5, RowsWritten
    <3>2. req[r].q.op = "create" BY <1>0, <2>3, <3>1 DEF Advance
    <3>3. /\ req[r].at = "looked" /\ tenant'[t].text.unique = req[r].q.unique
          /\ tenant'[s] = tenant[s]
      BY <2>5, <3>2, RowsWritten
    <3>4. req[r].blind \/ tenant[s].saved \notin req[r].before \cup {None}
      BY <1>0, <3>3 DEF RaceInv, LookInv, At, Advance
    <3>5. QED BY <3>1, <3>3, <3>4 DEF AdvanceTo, Advance
  <2>6. QED BY <2>4, <2>5
<1>6. SameUniqueIdNeedsRace'
  <2>1. \A s, t \in Id, c \in Req : Race(s, t, c)' BY <1>5
  <2>2. \A t \in Id : (tenant'[t] # None /\ tenant'[t].saved # None) => tenant'[t].saved \in Req
    BY <1>1 DEF SavedInv, SaverDone
  <2>3. QED BY <2>1, <2>2 DEF SameUniqueIdNeedsRace, Race
<1>7. QED BY <1>1, <1>2, <1>4, <1>6 DEF RaceInv

LEMMA RaceAsk ==
  ASSUME TypeInv, RaceInv, NEW r \in Req, NEW q \in Request, Ask(r, q)
  PROVE  RaceInv'
<1>1. /\ req[r] = None /\ tenant' = tenant /\ req'[r].at = "channel" /\ req'[r] # None
      /\ \A s \in Req \ {r} : req'[s] = req[s]
      /\ req'[r].before = {s \in Req : At(s, "done")}
  BY AskedIs DEF TypeInv, Quiet
<1>2. \A s \in Req : At(s, "done") => At(s, "done")' /\ req'[s] = req[s] /\ s # r
  BY <1>1 DEF At
<1>3. SavedInv' BY <1>1, <1>2 DEF RaceInv, SavedInv, SaverDone
<1>4. BeforeInv'
  <2> SUFFICES ASSUME NEW s \in Req, req'[s] # None, NEW u \in req'[s].before
               PROVE  u \in Req /\ At(u, "done")'
    BY DEF BeforeInv
  <2>1. u \in Req /\ At(u, "done") BY <1>1 DEF RaceInv, BeforeInv
  <2>2. QED BY <1>2, <2>1
<1>5. LookInv' BY <1>1 DEF RaceInv, LookInv, At
<1>6. ASSUME NEW s \in Id, NEW t \in Id, NEW c \in Req PROVE Race(s, t, c)'
  <2>1. Race(s, t, c) BY RaceIs DEF RaceInv
  <2>2. (tenant[t] # None /\ tenant[t].saved = c /\ c # None) => At(c, "done")
    BY DEF RaceInv, SavedInv, SaverDone
  <2>3. QED BY <1>1, <1>2, <2>1, <2>2 DEF Race, Doing
<1>7. SameUniqueIdNeedsRace'
  <2>1. \A s, t \in Id, c \in Req : Race(s, t, c)' BY <1>6
  <2>2. \A t \in Id : (tenant'[t] # None /\ tenant'[t].saved # None) => tenant'[t].saved \in Req
    BY <1>3 DEF SavedInv, SaverDone
  <2>3. QED BY <2>1, <2>2 DEF SameUniqueIdNeedsRace, Race
<1>8. QED BY <1>3, <1>4, <1>5, <1>7 DEF RaceInv

LEMMA RaceInvHolds == Spec => []RaceInv
<1>1. Init => RaceInv
  <2> SUFFICES ASSUME Init PROVE RaceInv OBVIOUS
  <2>1. \A t \in Id : tenant[t] # None => tenant[t] = NewTenant(None, FirstUnique, 2)
    BY DEF Init
  <2>2. \A t \in Id : tenant[t] # None => tenant[t].saved = None BY <2>1 DEF NewTenant
  <2>3. \A r \in Req : req[r] = None BY DEF Init
  <2>4. QED
    BY <2>2, <2>3 DEF RaceInv, SavedInv, SaverDone, BeforeInv, LookInv,
       SameUniqueIdNeedsRace, At
<1>2. TypeInv /\ RaceInv /\ [Next]_vars => RaceInv'
  <2> SUFFICES ASSUME TypeInv, RaceInv, [Next]_vars PROVE RaceInv' OBVIOUS
  <2>1. CASE UNCHANGED vars
    <3>1. tenant' = tenant /\ req' = req BY <2>1 DEF vars, tables
    <3>2. QED
      BY <3>1 DEF RaceInv, SavedInv, SaverDone, BeforeInv, LookInv, SameUniqueIdNeedsRace,
         At, Doing
  <2>2. QED BY <2>1, RaceStep, RaceAsk DEF Next
<1>3. QED BY <1>1, <1>2, TypeInvHolds, PTL DEF Spec

\* TenantCreate makes a second tenant of a unique id only beside the request
\* that saved the first, or when it could not look.
THEOREM SameUniqueIdAlwaysNeedsRace == Spec => []SameUniqueIdNeedsRace
<1>1. RaceInv => SameUniqueIdNeedsRace BY DEF RaceInv
<1>2. QED BY <1>1, RaceInvHolds, PTL

----------------------------------------------------------------------------
\* Where a tenant differs from what a request has read of it, it was changed
\* since the request came.
MovedInv == \A r \in Req : At(r, "found") =>
  \A f \in Field : \/ tenant[req[r].on][f] = req[r].copy[f]
                   \/ <<req[r].on, f>> \in moved[r]

LEMMA MovedKept ==
  ASSUME TypeInv, Grown, MovedInv, Observe, NEW s \in Req, At(s, "found"), NEW f \in Field
  PROVE  tenant'[req[s].on][f] = req[s].copy[f] \/ <<req[s].on, f>> \in moved'[s]
<1>1. req[s].on \in Id /\ tenant[req[s].on] # None /\ tenant'[req[s].on] # None
  BY DEF At, TypeInv, Sound, Grown
<1>2. moved'[s] = moved[s] \cup Changed BY DEF Observe, At
<1>3. PICK e : e = <<req[s].on, f>> OBVIOUS
<1>4. tenant'[req[s].on][f] # tenant[req[s].on][f] => e \in Changed
  BY <1>1, <1>3 DEF Changed
<1>5. tenant[req[s].on][f] = req[s].copy[f] \/ e \in moved[s] BY <1>3 DEF MovedInv
<1>6. QED BY <1>2, <1>3, <1>4, <1>5

LEMMA MovedNext == TypeInv /\ MovedInv /\ [Next]_vars => MovedInv'
<1> SUFFICES ASSUME TypeInv, MovedInv, [Next]_vars PROVE MovedInv' OBVIOUS
<1>1. CASE UNCHANGED vars BY <1>1 DEF vars, tables, MovedInv, At
<1>2. CASE Next
  <2>1. PICK r \in Req : (\E q \in Request : Ask(r, q)) \/ Step(r) BY <1>2 DEF Next
  <2>2. Observe BY <1>2 DEF Next
  <2>3. ASSUME NEW q \in Request, Ask(r, q) PROVE MovedInv'
    <3>1. /\ Grown /\ req'[r].at = "channel" /\ \A s \in Req \ {r} : req'[s] = req[s]
      BY <2>3, AskedIs, QuietGrown DEF TypeInv
    <3>2. \A s \in Req : At(s, "found")' => At(s, "found") /\ req'[s] = req[s]
      BY <3>1 DEF At
    <3>3. QED BY <2>2, <3>1, <3>2, MovedKept DEF MovedInv
  <2>4. CASE Step(r)
    <3>1. Advance(r) /\ Grown BY <2>4, StepTypes DEF StepTyped
    <3>2. \A s \in Req \ {r} : At(s, "found")' => At(s, "found") /\ req'[s] = req[s]
      BY <3>1 DEF Advance, At
    <3>3. At(r, "found")' => /\ req'[r].copy = tenant[req[r].on] /\ tenant' = tenant
                             /\ req'[r].on = req[r].on
      <4>1. req'[r].at = "found" => FindRow(r)
        BY <2>4, StepKinds, CreateLookTyped, CreateSaved, SaveRowTyped, InsertChannelTyped,
           PortalCommitTyped DEF AdvanceTo
      <4>2. QED BY <4>1, FindRowTyped DEF At, Quiet
    <3>4. QED BY <2>2, <3>1, <3>2, <3>3, MovedKept DEF MovedInv
  <2>5. QED BY <2>1, <2>3, <2>4
<1>3. QED BY <1>1, <1>2

LEMMA MovedInvHolds == Spec => []MovedInv
<1>1. Init => MovedInv BY DEF Init, MovedInv, At
<1>2. QED BY <1>1, MovedNext, TypeInvHolds, PTL DEF Spec

\* Saving a whole row read before undoes only what was changed since the
\* request came, and no channel or key of a tenant ever.
THEOREM AlwaysOnlyRacesUndo == Spec => OnlyRacesUndo
<1> DEFINE Undo == \A r \in Req : (req[r] # None /\ At(r, "found") /\ At(r, "done")') =>
              \A e \in Changed : e[1] = req[r].on
                                 /\ (e[2] \in Own(req[r].q.op) \/ e \in moved[r])
<1>1. TypeInv /\ MovedInv /\ [Next]_vars => [Undo]_vars
  <2> SUFFICES ASSUME TypeInv, MovedInv, Next, NEW s \in Req, At(s, "found"),
                      At(s, "done")', NEW e \in Changed
               PROVE  e[1] = req[s].on /\ (e[2] \in Own(req[s].q.op) \/ e \in moved[s])
    OBVIOUS
  <2>1. PICK r \in Req : (\E q \in Request : Ask(r, q)) \/ Step(r) BY DEF Next
  <2>2. s = r /\ Step(r)
    <3>1. req'[s] # req[s] BY DEF At
    <3>2. ASSUME NEW q \in Request, Ask(r, q) PROVE FALSE
      BY <3>1, <3>2, AskedIs DEF TypeInv, At
    <3>3. QED BY <2>1, <3>1, <3>2, StepTypes DEF StepTyped, Advance
  <2>3. SaveRow(r)
    <3>1. tenant' # tenant BY DEF Changed
    <3>2. QED
      BY <2>2, <3>1, StepKinds, FindRowTyped, CreateSaved, InsertChannelTyped,
         PortalCommitTyped DEF At, Quiet, tables
  <2>4. /\ req[r].on \in Id /\ req[r].copy \in Row /\ req[r].q.op \in SaveOps
        /\ tenant' = [tenant EXCEPT ![req[r].on] = Written(r)] /\ req[r] # None
    BY <2>3, SaveRowTyped DEF AdvanceTo, Advance
  <2>5. PICK t \in Id, f \in Field : e = <<t, f>> /\ tenant'[t][f] # tenant[t][f]
    BY DEF Changed
  <2>6. t = req[r].on /\ tenant'[t] = Written(r) BY <2>4, <2>5 DEF TypeInv, TypeOK
  <2>7. f \in Own(req[r].q.op) \/ Written(r)[f] = req[r].copy[f] BY <2>4, <2>5, WrittenIs
  <2>8. tenant[t][f] = req[r].copy[f] \/ <<t, f>> \in moved[r]
    BY <2>2, <2>5, <2>6 DEF MovedInv
  <2>9. QED BY <2>2, <2>5, <2>6, <2>7, <2>8
<1>2. Spec => [][Undo]_vars BY <1>1, TypeInvHolds, MovedInvHolds, PTL DEF Spec
<1>3. QED BY <1>2 DEF OnlyRacesUndo
=============================================================================
