------------------------- MODULE PortalAdminProofs -------------------------
(***************************************************************************)
(* What TLAPS proves about PortalAdmin: every property its run checks, for *)
(* any number of requests, users, roles, departments and functions.        *)
(***************************************************************************)
EXTENDS PortalAdmin, WellFoundedInduction, TLAPS

UserTx == {"user_update", "user_delete"}
RowOps == SaveOps \cup UserTx

\* Handlers that have found a row have a copy of it, and the row stays.
CopyInv == \A r \in Req :
  (req[r] # None /\ req[r].at \in {"found", "saved", "cleared"} /\ req[r].q.op \in RowOps)
    => req[r].copy \in Row /\ row[req[r].q.on] # None

Fact == {"live", "dead", "granted", "ungranted"}

TypeInv == /\ TypeOK /\ CopyInv
           /\ seen \in [Req -> SUBSET Fact]
           /\ moved \in [Req -> SUBSET Field]

\* A step moves one request on.
Advance(r) ==
  /\ req' \in [Req -> Call \cup {None}]
  /\ \A s \in Req \ {r} : req'[s] = req[s]
  /\ req[r] \in Call /\ req'[r] \in Call
  /\ req[r] # None /\ req'[r] # None
  /\ req'[r].q = req[r].q /\ req'[r].before = req[r].before

AdvanceTo(r, p) ==
  /\ Advance(r) /\ req'[r].at = p
  /\ req'[r].copy = req[r].copy /\ req'[r].cleared = req[r].cleared
  /\ req'[r].wallet = req[r].wallet /\ req'[r].failed = req[r].failed

LEMMA GoesAdvances ==
  ASSUME TypeOK, NEW r \in Req, req[r] # None, NEW p \in Place, Goes(r, p)
  PROVE  AdvanceTo(r, p)
<1>1. req[r] \in Call /\ None \notin Call BY NoneAssumption DEF TypeOK
<1>2. PICK x : x = [req[r] EXCEPT !.at = p] OBVIOUS
<1>3. /\ x \in Call /\ x.at = p /\ x.q = req[r].q /\ x.before = req[r].before
      /\ x.copy = req[r].copy /\ x.cleared = req[r].cleared /\ x.wallet = req[r].wallet
      /\ x.failed = req[r].failed
  BY <1>1, <1>2 DEF Call
<1>4. req' = [req EXCEPT ![r] = x] BY <1>2 DEF Goes
<1>5. req'[r] = x /\ \A s \in Req \ {r} : req'[s] = req[s] BY <1>4 DEF TypeOK
<1>6. req' \in [Req -> Call \cup {None}] BY <1>3, <1>4 DEF TypeOK
<1>7. QED BY <1>1, <1>3, <1>5, <1>6 DEF AdvanceTo, Advance

\* A request is on rows of the tables it is about.
LEMMA OnEntity ==
  ASSUME TypeOK, NEW r \in Req, req[r] # None
  PROVE  /\ req[r].q \in Request /\ WellFormed(req[r].q)
         /\ req[r].q.op \in RowOps => req[r].q.on \in Entity
         /\ req[r].q.op \in UserOp => req[r].q.on \in User
<1>1. req[r].q \in Request BY DEF TypeOK, Call
<1>2. WellFormed(req[r].q) BY <1>1, AdminAssumption
<1>3. QED BY <1>1, <1>2 DEF WellFormed, RowOps, SaveOps, UserTx, RoleOp, DeptOp, UserOp, Entity

LEMMA SavedType ==
  ASSUME TypeOK, NEW r \in Req, req[r] # None, req[r].copy \in Row, req[r].q.op \in RowOps
  PROVE  Saved(r) \in Row
<1>1. PICK x \in Row : x = req[r].copy OBVIOUS
<1>2. /\ [x EXCEPT !.name = r] \in Row /\ [x EXCEPT !.gone = TRUE] \in Row
      /\ [x EXCEPT !.password = r] \in Row
  BY DEF Row, Writer
<1>3. QED BY <1>1, <1>2 DEF Saved, RowOps, SaveOps, UserTx, RoleUpdated, RoleDeleted,
        DeptUpdated, DeptDeleted, UserUpdated, UserDeleted, PasswordResetTo

\* The tables are typed after a step, and no row has gone.
TablesType ==
  /\ row' \in [Entity -> Row \cup {None}]
  /\ \A e \in Entity : row[e] # None => row'[e] # None
  /\ links' \in [User -> SUBSET Link]
  /\ wallet' \subseteq [id : 1..lastWallet', user : User, by : Req]
  /\ \A v, w \in wallet' : v.id = w.id => v = w
  /\ lastWallet' \in Nat /\ lastWallet <= lastWallet'
  /\ userRole' \subseteq User \X Role /\ roleFunc' \subseteq Role \X Func

LEMMA SameTables == ASSUME TypeOK, UNCHANGED tables PROVE TablesType
BY DEF tables, TablesType, TypeOK

\* What a step has to establish.
LEMMA StepIsTyped ==
  ASSUME TypeInv, NEW r \in Req, Advance(r), TablesType, Observe,
         req'[r].wallet \in 0..lastWallet',
         (req'[r].at \in {"found", "saved", "cleared"} /\ req'[r].q.op \in RowOps) =>
           req'[r].copy \in Row /\ row'[req'[r].q.on] # None
  PROVE  TypeInv'
<1>1. ASSUME NEW s \in Req, req'[s] # None PROVE req'[s].wallet \in 0..lastWallet'
  <2>1. CASE s = r BY <2>1
  <2>2. CASE s # r BY <1>1, <2>2 DEF Advance, TablesType, TypeInv, TypeOK
  <2>3. QED BY <2>1, <2>2
<1>2. TypeOK' BY <1>1 DEF TypeOK, TablesType, Advance
<1>3. ASSUME NEW s \in Req, req'[s] # None, req'[s].at \in {"found", "saved", "cleared"},
             req'[s].q.op \in RowOps
      PROVE  req'[s].copy \in Row /\ row'[req'[s].q.on] # None
  <2>1. CASE s = r BY <1>3, <2>1
  <2>2. CASE s # r
    <3>1. req'[s] = req[s] BY <2>2 DEF Advance
    <3>2. req[s].q.on \in Entity BY <1>3, <3>1, OnEntity DEF TypeInv
    <3>3. QED BY <1>3, <3>1, <3>2 DEF TypeInv, CopyInv, TablesType
  <2>3. QED BY <2>1, <2>2
<1>4. CopyInv' BY <1>3 DEF CopyInv
<1>5. seen' \in [Req -> SUBSET Fact]
  <2>1. \A s \in Req : Facts(s)' \subseteq Fact BY DEF Facts, Fact
  <2>2. QED BY <2>1 DEF Observe, TypeInv
<1>6. moved' \in [Req -> SUBSET Field]
  <2>1. \A e : ChangedFields(e) \subseteq Field BY DEF ChangedFields
  <2>2. QED BY <2>1 DEF Observe, TypeInv
<1>7. QED BY <1>2, <1>4, <1>5, <1>6 DEF TypeInv

----------------------------------------------------------------------------
StepTyped(r) ==
  /\ Advance(r) /\ TablesType /\ req'[r].wallet \in 0..lastWallet'
  /\ (req'[r].at \in {"found", "saved", "cleared"} /\ req'[r].q.op \in RowOps) =>
       req'[r].copy \in Row /\ row'[req'[r].q.on] # None

\* Steps that only send the request elsewhere, with the copy it has.
LEMMA MoveTyped ==
  ASSUME TypeInv, NEW r \in Req, req[r] # None, NEW p \in Place, Goes(r, p), UNCHANGED tables,
         p \in {"found", "saved", "cleared"} => \/ req[r].at \in {"found", "saved", "cleared"}
                                                 \/ req[r].q.op \notin RowOps
  PROVE  StepTyped(r)
<1>1. AdvanceTo(r, p) /\ TablesType /\ lastWallet' = lastWallet /\ row' = row
  BY GoesAdvances, SameTables DEF TypeInv, tables
<1>2. req'[r].wallet \in 0..lastWallet' BY <1>1 DEF AdvanceTo, TypeInv, TypeOK
<1>3. QED BY <1>1, <1>2 DEF AdvanceTo, Advance, StepTyped, TypeInv, CopyInv

\* Steps that end a request.
LEMMA DoneTyped ==
  ASSUME TypeInv, NEW r \in Req, req[r] # None, NEW p \in {"done", "refused"}, Goes(r, p),
         TablesType
  PROVE  StepTyped(r)
<1>1. AdvanceTo(r, p) BY GoesAdvances DEF TypeInv, Place
<1>2. req[r].wallet \in 0..lastWallet /\ lastWallet \in Nat BY DEF TypeInv, TypeOK
<1>3. req'[r].wallet \in 0..lastWallet' BY <1>1, <1>2 DEF AdvanceTo, TablesType
<1>4. QED BY <1>1, <1>3 DEF AdvanceTo, StepTyped

LEMMA Become ==
  ASSUME TypeOK, NEW r \in Req, req[r] # None, NEW x \in Call,
         req' = [req EXCEPT ![r] = x], x.q = req[r].q, x.before = req[r].before
  PROVE  Advance(r) /\ req'[r] = x
<1>1. req[r] \in Call /\ None \notin Call BY NoneAssumption DEF TypeOK
<1>2. req'[r] = x /\ \A s \in Req \ {r} : req'[s] = req[s] BY DEF TypeOK
<1>3. req' \in [Req -> Call \cup {None}] BY DEF TypeOK
<1>4. QED BY <1>1, <1>2, <1>3 DEF Advance

\* One of the functions read for r has the permission asked for.
Permitted(r) == \E f \in req[r].funcs : SamePermission(f, Needs[req[r].q.op])

Check(r) == TokenCheckUser(r) \/ TokenCheckGrants(r) \/ TokenCheckFunc(r)

\* What the check leaves alone.
Checked(r) == /\ Advance(r) /\ req'[r].copy = req[r].copy
              /\ req'[r].cleared = req[r].cleared /\ req'[r].wallet = req[r].wallet
              /\ UNCHANGED tables

UserLeads(r) ==
  /\ At(r, "token")
  /\ "func" \in req'[r].failed => "func" \in req[r].failed
  /\ \/ req'[r].at = "refused" /\ (~Live(req[r].q.who) \/ "user" \in req'[r].failed)
     \/ req'[r].at = "begin" /\ Live(req[r].q.who) /\ req[r].q.who \in Super
     \/ req'[r].at = "grants" /\ Live(req[r].q.who) /\ req[r].q.who \notin Super

GrantsLeads(r) ==
  /\ At(r, "grants")
  /\ "func" \in req'[r].failed => "func" \in req[r].failed
  /\ req'[r].at = "func" /\ req'[r].funcs \subseteq Grants(req[r].q.who)
  /\ req'[r].funcs = Grants(req[r].q.who) \/ "grants" \in req'[r].failed

FuncLeads(r) ==
  /\ At(r, "func")
  /\ \/ /\ req'[r].at = "refused" /\ Registered(r) /\ ~Permitted(r)
        /\ req'[r].failed = req[r].failed
     \/ /\ req'[r].at = "begin"
        /\ ~Registered(r) \/ Permitted(r) \/ "func" \in req'[r].failed

LEMMA UserIs ==
  ASSUME TypeOK, NEW r \in Req, TokenCheckUser(r)
  PROVE  Checked(r) /\ UserLeads(r)
<1>1. req[r] # None /\ At(r, "token") /\ req[r] \in Call /\ UNCHANGED tables
  BY DEF TokenCheckUser, At, TypeOK
<1>2. CASE Goes(r, IF ~Live(req[r].q.who) THEN "refused"
                   ELSE IF req[r].q.who \in Super THEN "begin" ELSE "grants")
  <2>1. PICK p \in {"refused", "begin", "grants"} :
          /\ Goes(r, p)
          /\ p = IF ~Live(req[r].q.who) THEN "refused"
                 ELSE IF req[r].q.who \in Super THEN "begin" ELSE "grants"
    BY <1>2
  <2>2. AdvanceTo(r, p) BY <1>1, <2>1, GoesAdvances DEF Place
  <2>3. QED BY <1>1, <2>1, <2>2 DEF AdvanceTo, Checked, UserLeads
<1>3. CASE req' = [req EXCEPT ![r].at = "refused", ![r].failed = @ \cup {"user"}]
  <2>1. PICK x : x = [req[r] EXCEPT !.at = "refused", !.failed = @ \cup {"user"}] OBVIOUS
  <2>2. /\ x \in Call /\ x.at = "refused" /\ x.q = req[r].q /\ x.before = req[r].before
        /\ x.copy = req[r].copy /\ x.cleared = req[r].cleared /\ x.wallet = req[r].wallet
        /\ x.failed = req[r].failed \cup {"user"}
    BY <1>1, <2>1 DEF Call, Place, Read
  <2>3. req' = [req EXCEPT ![r] = x] BY <1>3, <2>1
  <2>4. Advance(r) /\ req'[r] = x BY <1>1, <2>2, <2>3, Become
  <2>5. QED BY <1>1, <2>2, <2>4 DEF Checked, UserLeads
<1>4. QED BY <1>2, <1>3 DEF TokenCheckUser

LEMMA GrantsIs ==
  ASSUME TypeOK, NEW r \in Req, TokenCheckGrants(r)
  PROVE  Checked(r) /\ GrantsLeads(r)
<1>1. req[r] # None /\ At(r, "grants") /\ req[r] \in Call /\ UNCHANGED tables
  BY DEF TokenCheckGrants, At, TypeOK
<1>2. PICK funcs \in SUBSET Grants(req[r].q.who), failed \in SUBSET {"grants"} :
        /\ failed = {} => funcs = Grants(req[r].q.who)
        /\ req' = [req EXCEPT ![r].at = "func", ![r].funcs = funcs,
                             ![r].failed = @ \cup failed]
  BY DEF TokenCheckGrants
<1>3. funcs \subseteq Func BY DEF Grants
<1>4. PICK x : x = [req[r] EXCEPT !.at = "func", !.funcs = funcs, !.failed = @ \cup failed]
  OBVIOUS
<1>5. /\ x \in Call /\ x.at = "func" /\ x.q = req[r].q /\ x.before = req[r].before
      /\ x.copy = req[r].copy /\ x.cleared = req[r].cleared /\ x.wallet = req[r].wallet
      /\ x.funcs = funcs /\ x.failed = req[r].failed \cup failed
  BY <1>1, <1>3, <1>4 DEF Call, Place, Read
<1>6. req' = [req EXCEPT ![r] = x] BY <1>2, <1>4
<1>7. Advance(r) /\ req'[r] = x BY <1>1, <1>5, <1>6, Become
<1>8. failed # {} => "grants" \in failed BY <1>2
<1>9. QED BY <1>1, <1>2, <1>5, <1>7, <1>8 DEF Checked, GrantsLeads

LEMMA FuncIs ==
  ASSUME TypeOK, NEW r \in Req, TokenCheckFunc(r)
  PROVE  Checked(r) /\ FuncLeads(r)
<1>1. req[r] # None /\ At(r, "func") /\ req[r] \in Call /\ UNCHANGED tables
  BY DEF TokenCheckFunc, At, TypeOK
<1>2. PICK p \in {"begin", "refused"}, failed \in SUBSET {"func"} :
        /\ req' = [req EXCEPT ![r].funcs = {}, ![r].at = p, ![r].failed = @ \cup failed]
        /\ p = "refused" => Registered(r) /\ ~Permitted(r) /\ failed = {}
        /\ p = "begin" => ~Registered(r) \/ Permitted(r) \/ "func" \in failed
  <2>1. CASE req' = [req EXCEPT ![r].funcs = {},
                       ![r].at = IF Registered(r) => Permitted(r) THEN "begin" ELSE "refused"]
    <3>1. PICK p : p = IF Registered(r) => Permitted(r) THEN "begin" ELSE "refused" OBVIOUS
    <3>2. req' = [req EXCEPT ![r].funcs = {}, ![r].at = p] BY <2>1, <3>1
    <3>3. [req EXCEPT ![r].funcs = {}, ![r].at = p]
          = [req EXCEPT ![r].funcs = {}, ![r].at = p, ![r].failed = @ \cup {}]
      <4>1. [req[r] EXCEPT !.funcs = {}, !.at = p]
            = [req[r] EXCEPT !.funcs = {}, !.at = p, !.failed = @ \cup {}]
        BY <1>1 DEF Call
      <4>2. QED BY <4>1 DEF TypeOK
    <3>4. {} \in SUBSET {"func"} OBVIOUS
    <3>5. QED BY <3>1, <3>2, <3>3, <3>4
  <2>2. CASE req' = [req EXCEPT ![r].funcs = {}, ![r].at = "begin",
                                ![r].failed = @ \cup {"func"}]
    BY <2>2
  <2>3. QED BY <2>1, <2>2 DEF TokenCheckFunc, Permitted
<1>3. PICK x : x = [req[r] EXCEPT !.funcs = {}, !.at = p, !.failed = @ \cup failed] OBVIOUS
<1>4. /\ x \in Call /\ x.at = p /\ x.q = req[r].q /\ x.before = req[r].before
      /\ x.copy = req[r].copy /\ x.cleared = req[r].cleared /\ x.wallet = req[r].wallet
      /\ x.failed = req[r].failed \cup failed
  BY <1>1, <1>2, <1>3 DEF Call, Place, Read
<1>5. req' = [req EXCEPT ![r] = x] BY <1>2, <1>3
<1>6. Advance(r) /\ req'[r] = x BY <1>1, <1>4, <1>5, Become
<1>7. QED BY <1>1, <1>2, <1>4, <1>6 DEF Checked, FuncLeads

LEMMA CheckIs ==
  ASSUME TypeOK, NEW r \in Req, Check(r)
  PROVE  /\ Checked(r) /\ req[r] # None /\ req[r].at \in {"token", "grants", "func"}
         /\ req'[r].at \in {"refused", "begin", "grants", "func"}
         /\ UserLeads(r) \/ GrantsLeads(r) \/ FuncLeads(r)
<1>1. Checked(r) /\ (UserLeads(r) \/ GrantsLeads(r) \/ FuncLeads(r))
  BY UserIs, GrantsIs, FuncIs DEF Check
<1>2. QED BY <1>1 DEF UserLeads, GrantsLeads, FuncLeads, At, Checked, Advance

LEMMA CheckTyped ==
  ASSUME TypeInv, NEW r \in Req, Check(r)
  PROVE  StepTyped(r)
<1>1. Checked(r) /\ req'[r].at \in {"refused", "begin", "grants", "func"}
  BY CheckIs DEF TypeInv
<1>2. TablesType /\ lastWallet' = lastWallet BY <1>1, SameTables DEF Checked, TypeInv, tables
<1>3. req'[r].wallet \in 0..lastWallet' BY <1>1, <1>2 DEF Checked, Advance, TypeInv, TypeOK
<1>4. QED BY <1>1, <1>2, <1>3 DEF Checked, StepTyped

\* The request keeps what it was asked, and takes x along.
LEMMA FindTyped ==
  ASSUME TypeInv, NEW r \in Req, FindRow(r)
  PROVE  StepTyped(r)
<1>1. req[r] # None /\ UNCHANGED tables /\ req[r].q.op \in RowOps
  BY DEF FindRow, At, Doing, RowOps, UserTx
<1>2. req[r] \in Call /\ req[r].q.on \in Entity BY <1>1, OnEntity DEF TypeInv, TypeOK
<1>3. row[req[r].q.on] \in Row \cup {None} BY <1>2 DEF TypeInv, TypeOK
<1>4. PICK p \in {"refused", "found"} :
        /\ req' = [req EXCEPT ![r].copy = row[req[r].q.on], ![r].at = p]
        /\ p = "found" => row[req[r].q.on] # None
  BY DEF FindRow
<1> DEFINE x == [req[r] EXCEPT !.copy = row[req[r].q.on], !.at = p]
<1>5. /\ x \in Call /\ x.at = p /\ x.q = req[r].q /\ x.before = req[r].before
      /\ x.copy = row[req[r].q.on] /\ x.wallet = req[r].wallet
  BY <1>2, <1>3, <1>4 DEF Call, Place
<1>6. Advance(r) /\ req'[r] = x
  <2>1. req' = [req EXCEPT ![r] = x] BY <1>4
  <2> HIDE DEF x
  <2>2. QED BY <1>1, <1>2, <2>1, <1>5, NoneAssumption DEF Advance, TypeInv, TypeOK
<1>7. TablesType /\ row' = row /\ lastWallet' = lastWallet
  BY <1>1, SameTables DEF TypeInv, tables
<1>8. x.wallet \in 0..lastWallet' BY <1>1, <1>5, <1>7 DEF TypeInv, TypeOK
<1> HIDE DEF x
<1>9. QED BY <1>3, <1>4, <1>5, <1>6, <1>7, <1>8 DEF StepTyped

LEMMA SaveTyped ==
  ASSUME TypeInv, NEW r \in Req, SaveRow(r)
  PROVE  StepTyped(r)
<1>1. req[r] # None /\ req[r].at = "found" /\ req[r].q.op \in RowOps
  BY DEF SaveRow, At, Doing, RowOps
<1>2. Saved(r) \in Row BY <1>1, SavedType DEF TypeInv, CopyInv
<1>3. /\ row' = [row EXCEPT ![req[r].q.on] = Saved(r)]
      /\ UNCHANGED <<links, wallet, lastWallet, userRole, roleFunc>>
  BY DEF SaveRow
<1>4. row' \in [Entity -> Row \cup {None}] /\ \A e \in Entity : row[e] # None => row'[e] # None
  BY <1>2, <1>3, NoneAssumption DEF TypeInv, TypeOK
<1>5. TablesType BY <1>3, <1>4 DEF TablesType, TypeInv, TypeOK
<1>6. QED BY <1>1, <1>5, DoneTyped DEF SaveRow

LEMMA CreateTyped ==
  ASSUME TypeInv, NEW r \in Req, Create(r)
  PROVE  StepTyped(r)
<1>1. req[r] # None /\ req[r].q.op \in CreateOps BY DEF Create, At, Doing
<1>2. NewRow(r) \in Row /\ None \notin Row BY NoneAssumption DEF NewRow, Row, Writer
<1>3. PICK e \in Fresh(req[r].q.op) :
        /\ row[e] = None /\ row' = [row EXCEPT ![e] = NewRow(r)]
        /\ links' = IF e \notin User THEN links
                    ELSE [links EXCEPT ![e] = {[dept |-> d, by |-> r] : d \in req[r].q.arg}]
  BY DEF Create
<1>4. WellFormed(req[r].q) BY <1>1, OnEntity DEF TypeInv
<1>5. ASSUME e \in User PROVE {[dept |-> d, by |-> r] : d \in req[r].q.arg} \in SUBSET Link
  <2>1. req[r].q.op = "user_add"
    BY <1>1, <1>3, <1>5, AdminAssumption DEF Fresh, CreateOps
  <2>2. QED BY <1>4, <2>1 DEF WellFormed, Link
<1>6. row' \in [Entity -> Row \cup {None}] /\ \A f \in Entity : row[f] # None => row'[f] # None
  BY <1>2, <1>3 DEF TypeInv, TypeOK
<1>7. links' \in [User -> SUBSET Link] BY <1>3, <1>5 DEF TypeInv, TypeOK
<1>8. TablesType BY <1>6, <1>7 DEF Create, TablesType, TypeInv, TypeOK
<1>9. QED BY <1>1, <1>8, DoneTyped DEF Create

\* The row of a UserUpdate or a UserDelete.
LEMMA UserTxRow ==
  ASSUME TypeInv, NEW r \in Req, req[r] # None, req[r].q.op \in UserTx
  PROVE  /\ req[r].q.op \in RowOps /\ req[r].q.on \in User /\ req[r].q.on \in Entity
         /\ req[r].at \in {"found", "saved", "cleared"} =>
              req[r].copy \in Row /\ Saved(r) \in Row /\ row[req[r].q.on] # None
<1>1. req[r].q.op \in RowOps /\ req[r].q.op \in UserOp BY DEF RowOps, UserTx, UserOp
<1>2. req[r].q.on \in User /\ req[r].q.on \in Entity BY <1>1, OnEntity DEF TypeInv
<1>3. QED BY <1>1, <1>2, SavedType DEF TypeInv, CopyInv

LEMMA TxSaveTyped ==
  ASSUME TypeInv, NEW r \in Req, UserUpdateSave(r) \/ UserDeleteSave(r)
  PROVE  StepTyped(r)
<1>1. /\ req[r] # None /\ req[r].at \in {"found", "cleared"} /\ UNCHANGED tables
      /\ Goes(r, "saved")
  BY DEF UserUpdateSave, UserDeleteSave, At
<1>2. QED BY <1>1, MoveTyped DEF Place

LEMMA TxClearTyped ==
  ASSUME TypeInv, NEW r \in Req, UserUpdateClear(r) \/ UserDeleteClear(r)
  PROVE  StepTyped(r)
<1>1. /\ req[r] # None /\ req[r].at \in {"found", "saved"} /\ UNCHANGED tables
      /\ req[r].q.op \in UserTx
      /\ req' = [req EXCEPT ![r].at = "cleared", ![r].cleared = links[req[r].q.on]]
  BY DEF UserUpdateClear, UserDeleteClear, At, Doing, UserTx
<1>2. /\ req[r] \in Call /\ links[req[r].q.on] \subseteq Link
      /\ req[r].copy \in Row /\ row[req[r].q.on] # None
  BY <1>1, UserTxRow DEF TypeInv, TypeOK
<1>3. PICK x : /\ x = [req[r] EXCEPT !.at = "cleared", !.cleared = links[req[r].q.on]]
               /\ req' = [req EXCEPT ![r] = x]
  BY <1>1
<1>4. /\ x \in Call /\ x.at = "cleared" /\ x.q = req[r].q /\ x.before = req[r].before
      /\ x.copy = req[r].copy /\ x.wallet = req[r].wallet
  BY <1>2, <1>3 DEF Call, Place
<1>5. Advance(r) /\ req'[r] = x
  BY <1>1, <1>2, <1>3, <1>4, NoneAssumption DEF Advance, TypeInv, TypeOK
<1>6. TablesType /\ row' = row /\ lastWallet' = lastWallet
  BY <1>1, SameTables DEF TypeInv, tables
<1>7. x.wallet \in 0..lastWallet' BY <1>1, <1>4, <1>6 DEF TypeInv, TypeOK
<1>8. QED BY <1>2, <1>4, <1>5, <1>6, <1>7 DEF StepTyped

LEMMA UpdateCommitTyped ==
  ASSUME TypeInv, NEW r \in Req, UserUpdateCommit(r)
  PROVE  StepTyped(r)
<1>1. req[r] # None /\ req[r].at = "cleared" /\ req[r].q.op = "user_update"
  BY DEF UserUpdateCommit, At, Doing
<1>2. Saved(r) \in Row /\ None \notin Row BY <1>1, UserTxRow, NoneAssumption DEF UserTx
<1>3. PICK new : new = {[dept |-> d, by |-> r] : d \in req[r].q.arg} OBVIOUS
<1>4. req[r].q.arg \subseteq Dept BY <1>1, OnEntity DEF TypeInv, WellFormed
<1>5. new \subseteq Link BY <1>3, <1>4 DEF Link
<1>6. /\ row' = [row EXCEPT ![req[r].q.on] = Saved(r)]
      /\ links' = [links EXCEPT ![req[r].q.on] = (@ \ req[r].cleared) \cup new]
      /\ UNCHANGED <<wallet, lastWallet, userRole, roleFunc>>
  BY <1>3 DEF UserUpdateCommit
<1>7. row' \in [Entity -> Row \cup {None}] /\ \A e \in Entity : row[e] # None => row'[e] # None
  BY <1>2, <1>6 DEF TypeInv, TypeOK
<1>8. links' \in [User -> SUBSET Link] BY <1>5, <1>6 DEF TypeInv, TypeOK
<1>9. TablesType BY <1>6, <1>7, <1>8 DEF TablesType, TypeInv, TypeOK
<1>10. QED BY <1>1, <1>9, DoneTyped DEF UserUpdateCommit

LEMMA DeleteCommitTyped ==
  ASSUME TypeInv, NEW r \in Req, UserDeleteCommit(r)
  PROVE  StepTyped(r)
<1>1. req[r] # None /\ req[r].at = "saved" /\ req[r].q.op = "user_delete"
  BY DEF UserDeleteCommit, At, Doing
<1>2. Saved(r) \in Row /\ None \notin Row BY <1>1, UserTxRow, NoneAssumption DEF UserTx
<1>3. /\ row' = [row EXCEPT ![req[r].q.on] = Saved(r)]
      /\ links' = [links EXCEPT ![req[r].q.on] = @ \ req[r].cleared]
      /\ wallet' \subseteq wallet
      /\ UNCHANGED <<lastWallet, userRole, roleFunc>>
  BY DEF UserDeleteCommit
<1>4. row' \in [Entity -> Row \cup {None}] /\ \A e \in Entity : row[e] # None => row'[e] # None
  BY <1>2, <1>3 DEF TypeInv, TypeOK
<1>5. links' \in [User -> SUBSET Link] BY <1>3 DEF TypeInv, TypeOK
<1>6. TablesType BY <1>3, <1>4, <1>5 DEF TablesType, TypeInv, TypeOK
<1>7. QED BY <1>1, <1>6, DoneTyped DEF UserDeleteCommit

LEMMA FailTyped == ASSUME TypeInv, NEW r \in Req, Fail(r) PROVE StepTyped(r)
<1>1. TablesType BY SameTables DEF Fail, TypeInv
<1>2. QED BY <1>1, DoneTyped DEF Fail

LEMMA WalletUserTyped ==
  ASSUME TypeInv, NEW r \in Req, StaffWalletUser(r)
  PROVE  StepTyped(r)
<1>1. req[r] # None /\ req[r].q.op = "wallet" /\ UNCHANGED tables
  BY DEF StaffWalletUser, Begins, At, Doing
<1>2. \E p \in {"refused", "found"} : Goes(r, p) BY DEF StaffWalletUser
<1>3. req[r].q.op \notin RowOps BY <1>1 DEF RowOps, SaveOps, UserTx
<1>4. QED BY <1>1, <1>2, <1>3, MoveTyped DEF Place

LEMMA BindTyped ==
  ASSUME TypeInv, NEW r \in Req,
         RoleFuncBind(r) \/ RoleUserBind(r) \/ RoleFuncUnbind(r) \/ RoleUserUnbind(r)
  PROVE  StepTyped(r)
<1>1. req[r] # None BY DEF RoleFuncBind, RoleUserBind, RoleFuncUnbind, RoleUserUnbind, Begins, At
<1>2. WellFormed(req[r].q) BY <1>1, OnEntity DEF TypeInv
<1>3. UNCHANGED <<row, links, wallet, lastWallet>> /\ \E p \in {"done", "refused"} : Goes(r, p)
  BY DEF RoleFuncBind, RoleUserBind, RoleFuncUnbind, RoleUserUnbind
<1>4. userRole' \subseteq User \X Role
  <2>1. CASE RoleUserBind(r)
    <3>1. req[r].q.op = "bind_user" BY <2>1 DEF RoleUserBind, Begins, Doing
    <3>2. <<req[r].q.arg, req[r].q.on>> \in User \X Role BY <1>2, <3>1 DEF WellFormed, RoleOp
    <3>3. QED BY <2>1, <3>2 DEF RoleUserBind, TypeInv, TypeOK
  <2>2. CASE ~RoleUserBind(r)
    BY <2>2 DEF RoleFuncBind, RoleFuncUnbind, RoleUserUnbind, TypeInv, TypeOK
  <2>3. QED BY <2>1, <2>2
<1>5. roleFunc' \subseteq Role \X Func
  <2>1. CASE RoleFuncBind(r)
    <3>1. req[r].q.op = "bind_func" BY <2>1 DEF RoleFuncBind, Begins, Doing
    <3>2. <<req[r].q.on, req[r].q.arg>> \in Role \X Func BY <1>2, <3>1 DEF WellFormed, RoleOp
    <3>3. QED BY <2>1, <3>2 DEF RoleFuncBind, TypeInv, TypeOK
  <2>2. CASE ~RoleFuncBind(r)
    BY <2>2 DEF RoleUserBind, RoleFuncUnbind, RoleUserUnbind, TypeInv, TypeOK
  <2>3. QED BY <2>1, <2>2
<1>6. TablesType BY <1>3, <1>4, <1>5 DEF TablesType, TypeInv, TypeOK
<1>7. QED BY <1>1, <1>3, <1>6, DoneTyped

----------------------------------------------------------------------------
\* StaffWallet finds the least of some ids.
LEMMA LeastNat ==
  ASSUME NEW S \in SUBSET Nat, S # {}
  PROVE  \E i \in S : \A j \in S : i <= j
<1> DEFINE R == OpToRel(<, Nat)
<1>1. IsWellFoundedOn(R, Nat) BY NatLessThanWellFounded
<1>2. \A i, j \in Nat : i < j => <<i, j>> \in R BY DEF OpToRel
<1> HIDE DEF R
<1>3. PICK i \in S : \A j \in S : ~(<<j, i>> \in R) BY <1>1, WFMin
<1>4. \A j \in S : i \in Nat /\ j \in Nat /\ ~(j < i) BY <1>2, <1>3
<1>5. QED BY <1>4

\* It finds one of the user's, if there is any, and goes on.
LEMMA FirstIsThere ==
  ASSUME TypeInv, NEW u \in User
  PROVE  /\ FirstWallet(u) \in 0..lastWallet
         /\ WalletsOf(u) = {} => FirstWallet(u) = 0
         /\ WalletsOf(u) # {} => \E w \in WalletsOf(u) : w.id = FirstWallet(u)
<1> DEFINE mine == {w.id : w \in WalletsOf(u)}
<1>1. FirstWallet(u) = IF mine = {} THEN 0 ELSE CHOOSE i \in mine : \A j \in mine : i <= j
  BY DEF FirstWallet
<1>2. mine \in SUBSET (1..lastWallet) /\ lastWallet \in Nat
  BY DEF WalletsOf, TypeInv, TypeOK
<1>3. (mine = {}) <=> (WalletsOf(u) = {}) OBVIOUS
<1>4. \A j \in mine : \E w \in WalletsOf(u) : w.id = j OBVIOUS
<1> HIDE DEF mine
<1>5. mine \in SUBSET Nat BY <1>2
<1>6. mine # {} => \E j \in mine : \A k \in mine : j <= k BY <1>5, LeastNat
<1>7. mine # {} => FirstWallet(u) \in mine BY <1>1, <1>6
<1>8. FirstWallet(u) \in 0..lastWallet
  <2>1. CASE mine = {} BY <1>1, <1>2, <2>1
  <2>2. CASE mine # {}
    <3>1. FirstWallet(u) \in 1..lastWallet BY <1>2, <1>7, <2>2
    <3>2. QED BY <1>2, <3>1
  <2>3. QED BY <2>1, <2>2
<1>9. QED BY <1>1, <1>3, <1>4, <1>7, <1>8

LEMMA WalletFound ==
  ASSUME TypeInv, NEW r \in Req, StaffWalletFind(r)
  PROVE  /\ req[r].q.op = "wallet" /\ req[r].at = "found" /\ req[r].q.on \in User
         /\ Advance(r) /\ req'[r].at = "walletless"
         /\ WalletsOf(req[r].q.on) # {} =>
              \/ \E w \in WalletsOf(req[r].q.on) : w.id = req'[r].wallet
              \/ "wallet" \in req'[r].failed
         /\ req[r].failed \subseteq req'[r].failed /\ req'[r].cleared = req[r].cleared
         /\ WalletsOf(req[r].q.on) = {} => req'[r].wallet = 0
         /\ req'[r].wallet \in 0..lastWallet
<1>1. /\ req[r] # None /\ req[r].at = "found" /\ req[r].q.op = "wallet" /\ UNCHANGED tables
  BY DEF StaffWalletFind, At, Doing
<1>2. req[r].q.on \in User BY <1>1, OnEntity DEF TypeInv, UserOp
<1>3. PICK failed \in SUBSET {"wallet"} :
        req' = [req EXCEPT ![r].at = "walletless", ![r].failed = @ \cup failed,
                           ![r].wallet = IF failed = {} THEN FirstWallet(req[r].q.on) ELSE 0]
  BY DEF StaffWalletFind
<1>4. PICK i : i = IF failed = {} THEN FirstWallet(req[r].q.on) ELSE 0 OBVIOUS
<1>5. i \in 0..lastWallet /\ (WalletsOf(req[r].q.on) = {} => i = 0)
  BY <1>2, <1>4, FirstIsThere DEF TypeInv, TypeOK
<1>6. (WalletsOf(req[r].q.on) # {} /\ failed = {}) => \E w \in WalletsOf(req[r].q.on) : w.id = i
  BY <1>2, <1>4, FirstIsThere
<1>8. i \in Nat BY <1>5
<1>9. PICK x : /\ x = [req[r] EXCEPT !.at = "walletless", !.failed = @ \cup failed, !.wallet = i]
               /\ req' = [req EXCEPT ![r] = x]
  BY <1>3, <1>4
<1>10. req[r] \in Call BY <1>1 DEF TypeInv, TypeOK
<1>11. /\ x \in Call /\ x.at = "walletless" /\ x.q = req[r].q /\ x.before = req[r].before
       /\ x.wallet = i /\ x.failed = req[r].failed \cup failed /\ x.cleared = req[r].cleared
  BY <1>3, <1>8, <1>9, <1>10 DEF Call, Place, Read
<1>12. Advance(r) /\ req'[r] = x BY <1>1, <1>9, <1>10, <1>11, Become DEF TypeInv
<1>13. failed # {} => "wallet" \in failed BY <1>3
<1>14. QED BY <1>1, <1>2, <1>5, <1>6, <1>11, <1>12, <1>13

LEMMA WalletFindTyped ==
  ASSUME TypeInv, NEW r \in Req, StaffWalletFind(r)
  PROVE  StepTyped(r)
<1>1. TablesType /\ lastWallet' = lastWallet
  BY SameTables DEF StaffWalletFind, TypeInv, tables
<1>2. QED BY <1>1, WalletFound DEF StepTyped

\* The id of the row StaffWallet saves.
WalletId(r) == IF req[r].wallet = 0 THEN lastWallet + 1 ELSE req[r].wallet

LEMMA WalletSaved ==
  ASSUME TypeInv, NEW r \in Req, StaffWalletSave(r)
  PROVE  /\ req[r] # None /\ req[r].at = "walletless" /\ req[r].q.op = "wallet"
         /\ req[r].q.on \in User /\ Goes(r, "done") /\ AdvanceTo(r, "done")
         /\ UNCHANGED <<row, links, userRole, roleFunc>>
         /\ WalletId(r) \in 1..lastWallet' /\ lastWallet' \in Nat /\ lastWallet <= lastWallet'
         /\ IF \E w \in wallet : w.id = WalletId(r) THEN wallet' = wallet
            ELSE wallet' = wallet \cup {[id |-> WalletId(r), user |-> req[r].q.on, by |-> r]}
<1>1. /\ req[r] # None /\ req[r].at = "walletless" /\ req[r].q.op = "wallet"
      /\ Goes(r, "done") /\ UNCHANGED <<row, links, userRole, roleFunc>>
  BY DEF StaffWalletSave, At, Doing
<1>2. req[r].q.on \in User BY <1>1, OnEntity DEF TypeInv, UserOp
<1>3. req[r].wallet \in 0..lastWallet /\ lastWallet \in Nat BY <1>1 DEF TypeInv, TypeOK
<1>4. lastWallet' = IF WalletId(r) > lastWallet THEN WalletId(r) ELSE lastWallet
  BY DEF StaffWalletSave, WalletId
<1>5. WalletId(r) \in 1..lastWallet' /\ lastWallet' \in Nat /\ lastWallet <= lastWallet'
  BY <1>3, <1>4 DEF WalletId
<1>6. AdvanceTo(r, "done") BY <1>1, GoesAdvances DEF TypeInv, Place
<1>7. QED BY <1>1, <1>2, <1>5, <1>6 DEF StaffWalletSave, WalletId

LEMMA WalletSaveTyped ==
  ASSUME TypeInv, NEW r \in Req, StaffWalletSave(r)
  PROVE  StepTyped(r)
<1>1. PICK new : new = [id |-> WalletId(r), user |-> req[r].q.on, by |-> r] OBVIOUS
<1>2. /\ new.id = WalletId(r) /\ new \in [id : 1..lastWallet', user : User, by : Req]
  BY <1>1, WalletSaved
<1>3. wallet' \subseteq wallet \cup {new} /\ (new \in wallet' => wallet' = wallet
         \/ \A w \in wallet : w.id # new.id)
  BY <1>1, <1>2, WalletSaved
<1>4. lastWallet <= lastWallet' /\ lastWallet' \in Nat /\ lastWallet \in Nat
  BY WalletSaved DEF TypeInv, TypeOK
<1>5. wallet \subseteq [id : 1..lastWallet', user : User, by : Req]
  BY <1>4 DEF TypeInv, TypeOK
<1>6. wallet' \subseteq [id : 1..lastWallet', user : User, by : Req] BY <1>2, <1>3, <1>5
<1>7. \A v, w \in wallet' : v.id = w.id => v = w BY <1>3 DEF TypeInv, TypeOK
<1>8. TablesType BY <1>4, <1>6, <1>7, WalletSaved DEF TablesType, TypeInv, TypeOK
<1>9. QED BY <1>8, WalletSaved, DoneTyped

LEMMA StepTypes == ASSUME TypeInv, NEW r \in Req, Step(r) PROVE StepTyped(r)
BY CheckTyped, FindTyped, SaveTyped, CreateTyped, FailTyped, TxSaveTyped, TxClearTyped,
   UpdateCommitTyped, DeleteCommitTyped, WalletUserTyped, WalletFindTyped, WalletSaveTyped,
   BindTyped
DEF Step, Check

\* What Ask makes of a request.
LEMMA Asked ==
  ASSUME TypeOK, NEW r \in Req, NEW q \in Request, Ask(r, q)
  PROVE  /\ req[r] = None /\ req'[r] # None /\ UNCHANGED tables
         /\ \A s \in Req \ {r} : req'[s] = req[s]
         /\ req'[r] \in Call /\ req' \in [Req -> Call \cup {None}]
         /\ req'[r].at = "token" /\ req'[r].q = q /\ req'[r].copy = None
         /\ req'[r].wallet = 0 /\ req'[r].before = {s \in Req : At(s, "done")}
         /\ req'[r].failed = {}
<1>1. PICK x : /\ x = [at |-> "token", q |-> q, funcs |-> {}, copy |-> None, cleared |-> {},
                       wallet |-> 0, before |-> {s \in Req : At(s, "done")},
                       failed |-> {}]
               /\ req' = [req EXCEPT ![r] = x]
  BY DEF Ask
<1>2. x \in Call BY <1>1 DEF Call, Place
<1>3. req'[r] = x /\ \A s \in Req \ {r} : req'[s] = req[s] BY <1>1 DEF TypeOK
<1>4. req' \in [Req -> Call \cup {None}] BY <1>1, <1>2 DEF TypeOK
<1>5. x # None /\ req[r] = None /\ UNCHANGED tables BY <1>2, NoneAssumption DEF Ask
<1>6. /\ x.at = "token" /\ x.q = q /\ x.copy = None /\ x.wallet = 0
      /\ x.before = {s \in Req : At(s, "done")} /\ x.failed = {}
  BY <1>1
<1>7. QED BY <1>2, <1>3, <1>4, <1>5, <1>6

LEMMA AskTyped ==
  ASSUME TypeInv, NEW r \in Req, NEW q \in Request, Ask(r, q), Observe
  PROVE  TypeInv'
<1>1. TablesType /\ lastWallet' = lastWallet /\ row' = row
  BY Asked, SameTables DEF TypeInv, tables
<1>2. \A s \in Req : req'[s] # None => req'[s].wallet \in 0..lastWallet'
  <2>1. 0 \in 0..lastWallet BY DEF TypeInv, TypeOK
  <2>2. QED BY <1>1, <2>1, Asked DEF TypeInv, TypeOK
<1>3. TypeOK' BY <1>1, <1>2, Asked DEF TypeInv, TypeOK, TablesType
<1>4. CopyInv' BY <1>1, Asked DEF TypeInv, CopyInv
<1>5. seen' \in [Req -> SUBSET Fact]
  <2>1. \A s \in Req : Facts(s)' \subseteq Fact BY DEF Facts, Fact
  <2>2. QED BY <2>1 DEF Observe, TypeInv
<1>6. moved' \in [Req -> SUBSET Field]
  <2>1. \A e : ChangedFields(e) \subseteq Field BY DEF ChangedFields
  <2>2. QED BY <2>1 DEF Observe, TypeInv
<1>7. QED BY <1>3, <1>4, <1>5, <1>6 DEF TypeInv

LEMMA InitTyped == Init => TypeInv
<1> SUFFICES ASSUME Init PROVE TypeInv OBVIOUS
<1>1. NewRow(None) \in Row BY DEF NewRow, Row, Writer
<1>2. row \in [Entity -> Row \cup {None}] BY <1>1 DEF Init
<1>3. TypeOK BY <1>2, AdminAssumption DEF Init, TypeOK
<1>4. CopyInv BY DEF Init, CopyInv
<1>5. QED BY <1>3, <1>4 DEF Init, TypeInv

LEMMA TypeStep == TypeInv /\ [Next]_vars => TypeInv'
<1> SUFFICES ASSUME TypeInv, [Next]_vars PROVE TypeInv' OBVIOUS
<1>1. CASE UNCHANGED vars BY <1>1 DEF vars, tables, TypeInv, TypeOK, CopyInv
<1>2. CASE Next
  <2>1. PICK r \in Req : (\E q \in Request : Ask(r, q)) \/ Step(r) BY <1>2 DEF Next
  <2>2. Observe BY <1>2 DEF Next
  <2>3. CASE Step(r) BY <2>2, <2>3, StepTypes, StepIsTyped DEF StepTyped
  <2>4. QED BY <2>1, <2>2, <2>3, AskTyped
<1>3. QED BY <1>1, <1>2

LEMMA TypeInvHolds == Spec => []TypeInv
BY InitTyped, TypeStep, PTL DEF Spec

\* The tables stay well-formed and wallets have ids of their own, whatever
\* requests interleave.
THEOREM AdminTypeCorrect == Spec => []TypeOK
<1>1. TypeInv => TypeOK BY DEF TypeInv
<1>2. QED BY <1>1, TypeInvHolds, PTL

----------------------------------------------------------------------------
\* What holds at the moment is among what was seen since the check began, and
\* who passed part of the check, or all of it, passed on evidence.
Evidence(r) ==
  /\ InCheck(r) => Facts(r) \subseteq seen[r] /\ "func" \notin req[r].failed
  /\ (At(r, "grants") \/ At(r, "func")) => "live" \in seen[r] /\ req[r].q.who \notin Super
  /\ (At(r, "func") /\ Registered(r)) =>
       IF Permitted(r) THEN "granted" \in seen[r]
       ELSE "ungranted" \in seen[r] \/ "grants" \in req[r].failed
  /\ Admitted(r) => /\ "live" \in seen[r]
                    /\ \/ req[r].q.who \in Super \/ "granted" \in seen[r]
                       \/ ~Registered(r) \/ "func" \in req[r].failed
EvidenceInv == \A r \in Req : Evidence(r)

\* The join finds a permission iff there is one.
LEMMA GrantFact ==
  ASSUME NEW r \in Req, Registered(r)
  PROVE  /\ (\E f \in Grants(req[r].q.who) : SamePermission(f, Needs[req[r].q.op]))
              <=> "granted" \in Facts(r)
         /\ "granted" \in Facts(r) \/ "ungranted" \in Facts(r)
BY DEF Grants, Facts, Registered, SamePermission

\* What is seen grows, by everything that holds while the check goes on.
LEMMA SeenGrows ==
  ASSUME TypeInv, Observe, NEW r \in Req
  PROVE  /\ seen[r] \subseteq seen'[r]
         /\ InCheck(r)' => Facts(r)' \subseteq seen'[r]
<1>1. seen'[r] = IF InCheck(r)' THEN seen[r] \cup Facts(r)' ELSE seen[r] BY DEF Observe
<1>2. QED BY <1>1

\* Where a step of the check, and any other step, leads.
LEMMA CheckLeads ==
  ASSUME TypeInv, NEW r \in Req, Step(r)
  PROVE  \/ UserLeads(r) \/ GrantsLeads(r) \/ FuncLeads(r)
         \/ /\ Admitted(r) /\ req'[r].at \notin {"token", "grants", "func"}
            /\ req[r].failed \subseteq req'[r].failed
<1>1. CASE Check(r) BY <1>1, CheckIs DEF TypeInv
<1>3. CASE FindRow(r)
  <2>1. req[r] # None /\ req[r].at = "begin" /\ req[r] \in Call
    BY <1>3 DEF FindRow, At, TypeInv, TypeOK
  <2>2. req'[r].at \in {"refused", "found"} /\ req'[r].failed = req[r].failed
    BY <1>3, <2>1 DEF FindRow, TypeInv, TypeOK, Call
  <2>3. QED BY <2>1, <2>2 DEF Admitted, InCheck, At
<1>4. CASE UserUpdateClear(r) \/ UserDeleteClear(r)
  <2>1. req[r] # None /\ req[r].at \in {"saved", "found"} /\ req[r] \in Call
    BY <1>4 DEF UserUpdateClear, UserDeleteClear, At, TypeInv, TypeOK
  <2>2. req'[r].at = "cleared" /\ req'[r].failed = req[r].failed
    BY <1>4, <2>1 DEF UserUpdateClear, UserDeleteClear, TypeInv, TypeOK, Call
  <2>3. QED BY <2>1, <2>2 DEF Admitted, InCheck, At
<1>5. CASE StaffWalletFind(r)
  <2>1. req[r] # None BY <1>5 DEF StaffWalletFind, At
  <2>2. QED BY <1>5, <2>1, WalletFound DEF Admitted, InCheck, At
<1>6. ASSUME NEW p \in {"done", "refused", "found", "saved"}, Goes(r, p),
             req[r] # None, req[r].at \in {"begin", "found", "walletless", "saved", "cleared"}
      PROVE  /\ Admitted(r) /\ req'[r].at \notin {"token", "grants", "func"}
             /\ req[r].failed \subseteq req'[r].failed
  <2>1. req'[r].at = p /\ req'[r].failed = req[r].failed
    BY <1>6, GoesAdvances DEF TypeInv, Place, AdvanceTo
  <2>2. QED BY <1>6, <2>1 DEF Admitted, InCheck, At
<1>7. CASE SaveRow(r) \/ Create(r) \/ Fail(r)
  BY <1>6, <1>7 DEF SaveRow, Create, Fail, At
<1>8. CASE UserUpdateSave(r) \/ UserUpdateCommit(r) \/ UserDeleteSave(r) \/ UserDeleteCommit(r)
  BY <1>6, <1>8 DEF UserUpdateSave, UserUpdateCommit, UserDeleteSave, UserDeleteCommit, At
<1>9. CASE StaffWalletUser(r)
  <2>1. \E p \in {"found", "refused"} : Goes(r, p) BY <1>9 DEF StaffWalletUser
  <2>2. req[r] # None /\ req[r].at = "begin" BY <1>9 DEF StaffWalletUser, Begins, At
  <2>3. QED BY <1>6, <2>1, <2>2
<1>10. CASE StaffWalletSave(r) BY <1>6, <1>10, WalletSaved
<1>11. CASE RoleFuncBind(r) \/ RoleUserBind(r) \/ RoleFuncUnbind(r) \/ RoleUserUnbind(r)
  <2>1. \E p \in {"done", "refused"} : Goes(r, p)
    BY <1>11 DEF RoleFuncBind, RoleUserBind, RoleFuncUnbind, RoleUserUnbind
  <2>2. req[r] # None /\ req[r].at = "begin"
    BY <1>11 DEF RoleFuncBind, RoleUserBind, RoleFuncUnbind, RoleUserUnbind, Begins, At
  <2>3. QED BY <1>6, <2>1, <2>2
<1>12. QED BY <1>1, <1>3, <1>4, <1>5, <1>7, <1>8, <1>9, <1>10, <1>11 DEF Step, Check

LEMMA LiveFact == ASSUME NEW r \in Req PROVE Live(req[r].q.who) <=> "live" \in Facts(r)
BY DEF Facts

LEMMA EvidenceStep ==
  ASSUME TypeInv, EvidenceInv, NEW r \in Req, Step(r), Observe
  PROVE  EvidenceInv'
<1>1. Advance(r) BY StepTypes DEF StepTyped
<1>2. ASSUME NEW s \in Req PROVE Evidence(s)'
  <2>1. seen[s] \subseteq seen'[s] /\ (InCheck(s)' => Facts(s)' \subseteq seen'[s])
    BY SeenGrows
  <2>2. CASE s # r
    <3>1. req'[s] = req[s] BY <1>1, <2>2 DEF Advance
    <3>2. Evidence(s) BY DEF EvidenceInv
    <3>3. QED BY <2>1, <3>1, <3>2 DEF Evidence, At, Admitted, InCheck, Registered, Permitted
  <2>3. CASE s = r
    <3>1. req'[r].q = req[r].q /\ req'[r] # None /\ req[r] # None BY <1>1 DEF Advance
    <3>2. Registered(r)' <=> Registered(r) BY <3>1 DEF Registered
    <3>3. Evidence(r) BY DEF EvidenceInv
    <3>4. CASE UserLeads(r)
      <4>1. Live(req[r].q.who) => "live" \in seen[r]
        BY <3>3, <3>4, LiveFact DEF UserLeads, Evidence, InCheck
      <4>2. "func" \notin req'[r].failed BY <3>3, <3>4 DEF UserLeads, Evidence, InCheck
      <4>3. QED
        BY <2>1, <2>3, <3>1, <3>4, <4>1, <4>2 DEF UserLeads, Evidence, At, Admitted, InCheck
    <3>5. CASE GrantsLeads(r)
      <4>1. /\ Facts(r) \subseteq seen[r] /\ "live" \in seen[r] /\ req[r].q.who \notin Super
            /\ "func" \notin req'[r].failed
        BY <3>3, <3>5 DEF GrantsLeads, Evidence, InCheck
      <4>2. Registered(r) => IF Permitted(r)' THEN "granted" \in seen[r]
                             ELSE "ungranted" \in seen[r] \/ "grants" \in req'[r].failed
        BY <3>1, <3>5, <4>1, GrantFact DEF GrantsLeads, Permitted
      <4>3. QED
        BY <2>1, <2>3, <3>1, <3>2, <3>5, <4>1, <4>2
        DEF GrantsLeads, Evidence, At, Admitted, InCheck
    <3>6. CASE FuncLeads(r)
      <4>1. "live" \in seen[r] /\ (Registered(r) /\ Permitted(r) => "granted" \in seen[r])
        BY <3>3, <3>6 DEF FuncLeads, Evidence
      <4>2. QED
        BY <2>1, <2>3, <3>1, <3>2, <3>6, <4>1 DEF FuncLeads, Evidence, At, Admitted, InCheck
    <3>7. CASE /\ Admitted(r) /\ req'[r].at \notin {"token", "grants", "func"}
               /\ req[r].failed \subseteq req'[r].failed
      BY <2>1, <2>3, <3>1, <3>2, <3>3, <3>7 DEF Evidence, At, InCheck
    <3>8. QED BY <3>4, <3>5, <3>6, <3>7, CheckLeads
  <2>4. QED BY <2>2, <2>3
<1>3. QED BY <1>2 DEF EvidenceInv

LEMMA EvidenceAsk ==
  ASSUME TypeInv, EvidenceInv, NEW r \in Req, NEW q \in Request, Ask(r, q), Observe
  PROVE  EvidenceInv'
<1>1. ASSUME NEW s \in Req PROVE Evidence(s)'
  <2>1. seen[s] \subseteq seen'[s] /\ (InCheck(s)' => Facts(s)' \subseteq seen'[s])
    BY SeenGrows
  <2>2. CASE s # r
    <3>1. req'[s] = req[s] BY <2>2, Asked DEF TypeInv
    <3>2. Evidence(s) BY DEF EvidenceInv
    <3>3. QED BY <2>1, <3>1, <3>2 DEF Evidence, At, Admitted, InCheck, Registered, Permitted
  <2>3. CASE s = r
    <3>1. req'[r] # None /\ req'[r].at = "token" /\ req'[r].failed = {} BY Asked DEF TypeInv
    <3>2. QED BY <2>1, <2>3, <3>1 DEF Evidence, At, Admitted, InCheck
  <2>4. QED BY <2>2, <2>3
<1>2. QED BY <1>1 DEF EvidenceInv

LEMMA EvidenceNext == TypeInv /\ EvidenceInv /\ [Next]_vars => EvidenceInv'
<1> SUFFICES ASSUME TypeInv, EvidenceInv, [Next]_vars PROVE EvidenceInv' OBVIOUS
<1>1. CASE UNCHANGED vars
  <2>1. ASSUME NEW s \in Req PROVE Evidence(s)'
    <3>1. Evidence(s) BY DEF EvidenceInv
    <3>2. req' = req /\ seen' = seen /\ Facts(s)' = Facts(s)
      BY <1>1 DEF vars, tables, Facts, Live
    <3>3. QED BY <3>1, <3>2 DEF Evidence, InCheck, At, Admitted, Registered, Permitted
  <2>2. QED BY <2>1 DEF EvidenceInv
<1>2. CASE Next
  <2>1. PICK r \in Req : (\E q \in Request : Ask(r, q)) \/ Step(r) BY <1>2 DEF Next
  <2>2. Observe BY <1>2 DEF Next
  <2>3. QED BY <2>1, <2>2, EvidenceStep, EvidenceAsk
<1>3. QED BY <1>1, <1>2

LEMMA EvidenceInvHolds == Spec => []EvidenceInv
<1>1. Init => EvidenceInv BY DEF Init, EvidenceInv, Evidence, InCheck, At, Admitted
<1>2. QED BY <1>1, EvidenceNext, TypeInvHolds, PTL DEF Spec

\* Who passes TokenInterceptor was, while it ran, an undeleted user, and had the
\* permission, unless no function was found for the address: a deletion, and an
\* unbinding for registered addresses that are read, holds for later requests.
THEOREM AlwaysAdmittedOnEvidence == Spec => []AdmittedOnEvidence
<1>1. EvidenceInv => AdmittedOnEvidence BY DEF EvidenceInv, Evidence, AdmittedOnEvidence
<1>2. QED BY <1>1, EvidenceInvHolds, PTL

\* Nobody is turned away who was an undeleted user with the permission while
\* the check ran, unless it could not read that: a binding holds for later
\* requests.
THEOREM AlwaysRefusedOnEvidence == Spec => RefusedOnEvidence
<1> DEFINE Reason(r) ==
             \/ "dead" \in seen[r] \/ "user" \in req'[r].failed
             \/ /\ req[r].q.who \notin Super /\ Registered(r) /\ "func" \notin req'[r].failed
                /\ "ungranted" \in seen[r] \/ "grants" \in req'[r].failed
           Refusal == \A r \in Req : (InCheck(r) /\ At(r, "refused")') => Reason(r)
<1>1. TypeInv /\ EvidenceInv /\ [Next]_vars => [Refusal]_vars
  <2> SUFFICES ASSUME TypeInv, EvidenceInv, Next, NEW s \in Req, InCheck(s),
                      At(s, "refused")'
               PROVE  Reason(s)
    OBVIOUS
  <2>1. PICK r \in Req : (\E q \in Request : Ask(r, q)) \/ Step(r) BY DEF Next
  <2>2. s = r /\ Step(r)
    <3>1. ASSUME req'[s] = req[s] PROVE FALSE BY <3>1 DEF InCheck, At
    <3>2. ASSUME NEW q \in Request, Ask(r, q) PROVE FALSE
      BY <3>1, <3>2, Asked DEF TypeInv, InCheck, At
    <3>3. QED BY <2>1, <3>1, <3>2, StepTypes DEF StepTyped, Advance
  <2>3. /\ Facts(r) \subseteq seen[r] /\ "func" \notin req[r].failed /\ Evidence(r)
        /\ req'[r].at = "refused"
    BY <2>2 DEF EvidenceInv, Evidence, At
  <2>4. CASE UserLeads(r)
    <3>1. ~Live(req[r].q.who) \/ "user" \in req'[r].failed BY <2>3, <2>4 DEF UserLeads
    <3>2. ~Live(req[r].q.who) => "dead" \in Facts(r) BY DEF Facts
    <3>3. QED BY <2>2, <2>3, <3>1, <3>2
  <2>5. CASE FuncLeads(r)
    <3>1. /\ Registered(r) /\ ~Permitted(r) /\ req'[r].failed = req[r].failed
          /\ At(r, "func")
      BY <2>3, <2>5 DEF FuncLeads
    <3>2. /\ req[r].q.who \notin Super
          /\ "ungranted" \in seen[r] \/ "grants" \in req[r].failed
      BY <2>3, <3>1 DEF Evidence
    <3>3. QED BY <2>2, <2>3, <3>1, <3>2
  <2>6. ~GrantsLeads(r) BY <2>3 DEF GrantsLeads
  <2>7. ~Admitted(r) BY <2>2 DEF Admitted
  <2>8. QED BY <2>2, <2>4, <2>5, <2>6, <2>7, CheckLeads
<1>2. Spec => [][Refusal]_vars BY <1>1, TypeInvHolds, EvidenceInvHolds, PTL DEF Spec
<1>3. QED BY <1>2 DEF RefusedOnEvidence

----------------------------------------------------------------------------
\* What a row has in another way than a request's copy of it was changed since
\* the request came.
MovedInv == \A r \in Req :
  (req[r] # None /\ req[r].at \in {"found", "saved", "cleared"} /\ req[r].q.op \in RowOps)
    => \A f \in Field : row[req[r].q.on][f] = req[r].copy[f] \/ f \in moved[r]

Saves(r) == /\ req[r].at \in {"found", "saved", "cleared"} /\ req[r].q.op \in RowOps
            /\ row' = [row EXCEPT ![req[r].q.on] = Saved(r)]

Creates(r) == \E e \in Entity : /\ row[e] = None /\ row' = [row EXCEPT ![e] = NewRow(r)]

\* The steps that change a row.
LEMMA RowChanges ==
  ASSUME NEW r \in Req, Step(r)
  PROVE  row' = row \/ Saves(r) \/ Creates(r)
<1>1. CASE SaveRow(r) BY <1>1 DEF SaveRow, Saves, At, Doing, RowOps
<1>2. CASE UserUpdateCommit(r) \/ UserDeleteCommit(r)
  BY <1>2 DEF UserUpdateCommit, UserDeleteCommit, Saves, At, Doing, RowOps, UserTx
<1>3. CASE Create(r)
  <2>1. PICK e \in Fresh(req[r].q.op) : row[e] = None /\ row' = [row EXCEPT ![e] = NewRow(r)]
    BY <1>3 DEF Create
  <2>2. req[r].q.op \in CreateOps BY <1>3 DEF Create, Doing
  <2>3. e \in Entity BY <2>1, <2>2 DEF Fresh, CreateOps, Entity
  <2>4. QED BY <2>1, <2>3 DEF Creates
<1>4. CASE Check(r) \/ FindRow(r) \/ Fail(r)
  BY <1>4 DEF Check, TokenCheckUser, TokenCheckGrants, TokenCheckFunc, FindRow, Fail, tables
<1>5. CASE UserUpdateSave(r) \/ UserUpdateClear(r) \/ UserDeleteClear(r) \/ UserDeleteSave(r)
  BY <1>5 DEF UserUpdateSave, UserUpdateClear, UserDeleteClear, UserDeleteSave, tables
<1>6. CASE StaffWalletUser(r) \/ StaffWalletFind(r) \/ StaffWalletSave(r)
  BY <1>6 DEF StaffWalletUser, StaffWalletFind, StaffWalletSave, tables
<1>7. CASE RoleFuncBind(r) \/ RoleUserBind(r) \/ RoleFuncUnbind(r) \/ RoleUserUnbind(r)
  BY <1>7 DEF RoleFuncBind, RoleUserBind, RoleFuncUnbind, RoleUserUnbind
<1>8. QED BY <1>1, <1>2, <1>3, <1>4, <1>5, <1>6, <1>7 DEF Step, Check

\* A handler changes its own fields of the copy.
LEMMA SavedFields ==
  ASSUME TypeInv, NEW r \in Req, req[r].copy \in Row, req[r].q.op \in RowOps,
         NEW f \in Field
  PROVE  Saved(r)[f] = req[r].copy[f] \/ f \in Own(req[r].q.op)
<1>1. PICK x \in Row : x = req[r].copy OBVIOUS
<1>2. /\ \A g \in Field \ {"name"} : [x EXCEPT !.name = r][g] = x[g]
      /\ \A g \in Field \ {"gone"} : [x EXCEPT !.gone = TRUE][g] = x[g]
      /\ \A g \in Field \ {"password"} : [x EXCEPT !.password = r][g] = x[g]
  BY DEF Row, Field
<1>3. QED BY <1>1, <1>2 DEF Saved, Own, RowOps, SaveOps, UserTx, RoleUpdated, RoleDeleted,
        DeptUpdated, DeptDeleted, UserUpdated, UserDeleted, PasswordResetTo

\* A request in the middle of a handler has just read its row, or keeps the
\* copy it has.
LEMMA CopyKept ==
  ASSUME TypeInv, NEW r \in Req, Step(r),
         req'[r].at \in {"found", "saved", "cleared"}, req[r].q.op \in RowOps
  PROVE  \/ req'[r].copy = row[req[r].q.on] /\ row' = row
         \/ req[r].at \in {"found", "saved", "cleared"} /\ req'[r].copy = req[r].copy
<1>1. ASSUME NEW p \in Place, Goes(r, p), req[r] # None
      PROVE  req'[r].at = p /\ req'[r].copy = req[r].copy
  BY <1>1, GoesAdvances DEF TypeInv, AdvanceTo
<1>2. CASE FindRow(r)
  <2>1. req[r] \in Call BY <1>2 DEF FindRow, At, TypeInv, TypeOK
  <2>2. PICK p \in {"refused", "found"} :
          req' = [req EXCEPT ![r].copy = row[req[r].q.on], ![r].at = p]
    BY <1>2 DEF FindRow
  <2>3. req'[r].copy = row[req[r].q.on] BY <2>1, <2>2 DEF TypeInv, TypeOK, Call
  <2>4. QED BY <1>2, <2>3 DEF FindRow, tables
<1>3. CASE UserUpdateClear(r) \/ UserDeleteClear(r)
  <2>1. req[r] \in Call /\ req[r].at \in {"found", "saved"}
    BY <1>3 DEF UserUpdateClear, UserDeleteClear, At, TypeInv, TypeOK
  <2>2. req' = [req EXCEPT ![r].at = "cleared", ![r].cleared = links[req[r].q.on]]
    BY <1>3 DEF UserUpdateClear, UserDeleteClear
  <2>3. req'[r].copy = req[r].copy BY <2>1, <2>2 DEF TypeInv, TypeOK, Call
  <2>4. QED BY <2>1, <2>3
<1>4. CASE UserUpdateSave(r) \/ UserDeleteSave(r)
  <2>1. req[r] # None /\ req[r].at \in {"found", "cleared"} /\ Goes(r, "saved")
    BY <1>4 DEF UserUpdateSave, UserDeleteSave, At
  <2>2. QED BY <1>1, <2>1 DEF Place
<1>5. CASE StaffWalletUser(r) \/ StaffWalletFind(r) \/ StaffWalletSave(r)
  <2>1. req[r].q.op = "wallet"
    BY <1>5 DEF StaffWalletUser, StaffWalletFind, StaffWalletSave, Begins, Doing
  <2>2. QED BY <2>1 DEF RowOps, SaveOps, UserTx
<1>6. CASE SaveRow(r) \/ Create(r) \/ Fail(r) \/ UserUpdateCommit(r) \/ UserDeleteCommit(r)
  <2>1. req[r] # None /\ \E p \in {"done", "refused"} : Goes(r, p)
    BY <1>6 DEF SaveRow, Create, Fail, UserUpdateCommit, UserDeleteCommit, At
  <2>2. QED BY <1>1, <2>1 DEF Place
<1>7. CASE RoleFuncBind(r) \/ RoleUserBind(r) \/ RoleFuncUnbind(r) \/ RoleUserUnbind(r)
  <2>1. req[r] # None /\ \E p \in {"done", "refused"} : Goes(r, p)
    BY <1>7 DEF RoleFuncBind, RoleUserBind, RoleFuncUnbind, RoleUserUnbind, Begins, At
  <2>2. QED BY <1>1, <2>1 DEF Place
<1>8. CASE Check(r) BY <1>8, CheckIs DEF TypeInv
<1>9. QED BY <1>2, <1>3, <1>4, <1>5, <1>6, <1>7, <1>8 DEF Step, Check

\* Observe notes what changes of the row of a request that has come.
LEMMA MovedGrows ==
  ASSUME TypeInv, Observe, NEW s \in Req, req[s] # None
  PROVE  moved'[s] = moved[s] \cup ChangedFields(req[s].q.on)
BY DEF Observe

\* A copy that is kept stays as good as it was.
LEMMA MovedKept ==
  ASSUME TypeInv, MovedInv, Observe, NEW s \in Req, req[s] # None,
         req[s].at \in {"found", "saved", "cleared"}, req[s].q.op \in RowOps,
         row'[req[s].q.on] # None, NEW f \in Field
  PROVE  row'[req[s].q.on][f] = req[s].copy[f] \/ f \in moved'[s]
<1>1. req[s].q.on \in Entity /\ row[req[s].q.on] # None
  BY OnEntity DEF TypeInv, CopyInv
<1>2. row'[req[s].q.on][f] # row[req[s].q.on][f] => f \in ChangedFields(req[s].q.on)
  BY <1>1 DEF ChangedFields
<1>3. row[req[s].q.on][f] = req[s].copy[f] \/ f \in moved[s] BY DEF MovedInv
<1>4. QED BY <1>2, <1>3, MovedGrows

LEMMA MovedStep ==
  ASSUME TypeInv, TypeInv', MovedInv, NEW r \in Req, Step(r), Observe
  PROVE  MovedInv'
<1>1. Advance(r) BY StepTypes DEF StepTyped
<1>2. ASSUME NEW s \in Req, req'[s] # None, req'[s].at \in {"found", "saved", "cleared"},
             req'[s].q.op \in RowOps, NEW f \in Field
      PROVE  row'[req'[s].q.on][f] = req'[s].copy[f] \/ f \in moved'[s]
  <2>1. row'[req'[s].q.on] # None BY <1>2 DEF TypeInv, CopyInv
  <2>2. req[s] # None /\ req'[s].q = req[s].q BY <1>1, <1>2 DEF Advance
  <2>3. CASE req'[s].copy = req[s].copy /\ req[s].at \in {"found", "saved", "cleared"}
    BY <1>2, <2>1, <2>2, <2>3, MovedKept
  <2>4. CASE s # r BY <1>1, <1>2, <2>3, <2>4 DEF Advance
  <2>5. CASE s = r /\ req'[r].copy = row[req[r].q.on] /\ row' = row BY <2>2, <2>5
  <2>6. QED BY <1>2, <2>2, <2>3, <2>4, <2>5, CopyKept
<1>3. QED BY <1>2 DEF MovedInv

LEMMA MovedNext == TypeInv /\ TypeInv' /\ MovedInv /\ [Next]_vars => MovedInv'
<1> SUFFICES ASSUME TypeInv, TypeInv', MovedInv, [Next]_vars PROVE MovedInv' OBVIOUS
<1>1. CASE UNCHANGED vars BY <1>1 DEF vars, tables, MovedInv
<1>2. CASE Next
  <2>1. PICK r \in Req : (\E q \in Request : Ask(r, q)) \/ Step(r) BY <1>2 DEF Next
  <2>2. Observe BY <1>2 DEF Next
  <2>3. ASSUME NEW q \in Request, Ask(r, q) PROVE MovedInv'
    <3>1. ASSUME NEW s \in Req, req'[s] # None, req'[s].at \in {"found", "saved", "cleared"},
                 req'[s].q.op \in RowOps, NEW f \in Field
          PROVE  row'[req'[s].q.on][f] = req'[s].copy[f] \/ f \in moved'[s]
      <4>1. s # r /\ req'[s] = req[s] BY <2>3, <3>1, Asked DEF TypeInv
      <4>2. row'[req[s].q.on] # None BY <3>1, <4>1 DEF TypeInv, CopyInv
      <4>3. QED BY <2>2, <3>1, <4>1, <4>2, MovedKept
    <3>2. QED BY <3>1 DEF MovedInv
  <2>4. QED BY <2>1, <2>2, <2>3, MovedStep
<1>3. QED BY <1>1, <1>2

LEMMA MovedInvHolds == Spec => []MovedInv
<1>1. Init => MovedInv BY DEF Init, MovedInv
<1>2. QED BY <1>1, MovedNext, TypeInvHolds, PTL DEF Spec

\* A step that answers a request has not answered it before.
LEMMA NotDone == ASSUME NEW r \in Req, Step(r) PROVE req[r].at # "done"
BY DEF Step, TokenCheckUser, TokenCheckGrants, TokenCheckFunc, FindRow, SaveRow, Create,
       Fail, UserUpdateSave, UserUpdateClear, UserUpdateCommit, UserDeleteClear,
       UserDeleteSave, UserDeleteCommit, StaffWalletUser, StaffWalletFind, StaffWalletSave, RoleFuncBind, RoleUserBind,
       RoleFuncUnbind, RoleUserUnbind, Begins, At

\* A saved row undoes what others did to it only if they did it since the
\* request came.
THEOREM AlwaysOnlyRacesUndo == Spec => OnlyRacesUndo
<1> DEFINE Undo == \A r \in Req :
              (req[r] # None /\ row' # row /\ req[r].at # "done" /\ At(r, "done")') =>
                ChangedFields(req[r].q.on) \subseteq Own(req[r].q.op) \cup moved[r]
<1>1. TypeInv /\ TypeInv' /\ MovedInv /\ [Next]_vars => [Undo]_vars
  <2> SUFFICES ASSUME TypeInv, TypeInv', MovedInv, Next, NEW s \in Req,
                      req[s] # None, row' # row, req[s].at # "done", At(s, "done")',
                      NEW f \in ChangedFields(req[s].q.on)
               PROVE  f \in Own(req[s].q.op) \cup moved[s]
    OBVIOUS
  <2>1. PICK r \in Req : (\E q \in Request : Ask(r, q)) \/ Step(r) BY DEF Next
  <2>2. s = r /\ Step(r)
    <3>1. req'[s] # req[s] BY DEF At
    <3>2. ASSUME NEW q \in Request, Ask(r, q) PROVE FALSE BY <3>2, Asked DEF TypeInv, tables
    <3>3. QED BY <2>1, <3>1, <3>2, StepTypes DEF StepTyped, Advance
  <2>3. /\ req[r].q.on \in Entity /\ f \in Field
        /\ row[req[r].q.on] # None /\ row'[req[r].q.on][f] # row[req[r].q.on][f]
    BY <2>2 DEF ChangedFields
  <2>4. CASE Creates(r)
    <3>1. PICK e \in Entity : row[e] = None /\ row' = [row EXCEPT ![e] = NewRow(r)]
      BY <2>4 DEF Creates
    <3>2. QED BY <2>3, <3>1 DEF TypeInv, TypeOK
  <2>5. CASE Saves(r)
    <3>1. req[r].copy \in Row BY <2>2, <2>5 DEF Saves, TypeInv, CopyInv
    <3>2. row'[req[r].q.on][f] = Saved(r)[f] BY <2>3, <2>5 DEF Saves, TypeInv, TypeOK
    <3>3. row[req[r].q.on][f] = req[r].copy[f] \/ f \in moved[r]
      BY <2>2, <2>3, <2>5 DEF Saves, MovedInv
    <3>4. Saved(r)[f] = req[r].copy[f] \/ f \in Own(req[r].q.op)
      BY <2>3, <2>5, <3>1, SavedFields DEF Saves
    <3>5. QED BY <2>2, <2>3, <3>2, <3>3, <3>4
  <2>6. QED BY <2>2, <2>4, <2>5, RowChanges
<1>2. Spec => [][Undo]_vars BY <1>1, TypeInvHolds, MovedInvHolds, PTL DEF Spec
<1>3. QED BY <1>2 DEF OnlyRacesUndo

----------------------------------------------------------------------------
\* The transaction of s has deleted links that it holds the locks of, or found
\* none and holds the lock of the row.
Cleared(s) == \/ req[s].q.op = "user_update" /\ req[s].at = "cleared"
              \/ /\ req[s].q.op = "user_delete" /\ req[s].at \in {"cleared", "saved"}
                 /\ req[s].cleared # {}

\* A request that has not deleted links yet.
Early(s) == \/ req[s].at \in {"token", "grants", "func", "begin", "found", "walletless"}
            \/ req[s].at = "saved" /\ req[s].q.op = "user_update"

\* Whoever cleared the links of a user has cleared those that are there; no two
\* hold a user's row or links; and links are the list of one request.
LinkInv ==
  /\ \A s \in Req : req[s] # None /\ Cleared(s) => links[req[s].q.on] = req[s].cleared
  /\ \A s \in Req : req[s] # None /\ Early(s) => req[s].cleared = {}
  /\ \A s, t \in Req, u \in User : s # t => /\ ~(HoldsRow(s, u) /\ HoldsRow(t, u))
                                            /\ ~(HoldsLinks(s, u) /\ HoldsLinks(t, u))
  /\ \A u \in User : \A x \in links[u] :
       req[x.by] # None /\ {y.dept : y \in links[u]} = req[x.by].q.arg
       /\ \A y \in links[u] : y.by = x.by

\* The other steps: the transaction has ended or not begun, and links stay.
Elsewhere(r) ==
  /\ links' = links /\ req'[r].cleared = req[r].cleared
  /\ \/ req'[r].at \in {"done", "refused"}
     \/ /\ req[r].at \in {"token", "grants", "func", "begin", "found"}
        /\ req'[r].at \in {"refused", "token", "grants", "func", "begin", "found",
                           "walletless"}

LEMMA LinkSteps ==
  ASSUME TypeInv, NEW r \in Req, Step(r)
  PROVE  \/ UserUpdateSave(r) \/ UserDeleteSave(r) \/ UserUpdateClear(r) \/ UserDeleteClear(r)
         \/ UserUpdateCommit(r) \/ UserDeleteCommit(r) \/ Create(r) \/ Elsewhere(r)
<1>1. ASSUME NEW p \in {"done", "refused"}, Goes(r, p), req[r] # None, links' = links
      PROVE  Elsewhere(r)
  BY <1>1, GoesAdvances DEF TypeInv, Place, AdvanceTo, Elsewhere
<1>2. CASE Check(r)
  <2>1. /\ Checked(r) /\ req[r].at \in {"token", "grants", "func"}
        /\ req'[r].at \in {"refused", "begin", "grants", "func"}
    BY <1>2, CheckIs DEF TypeInv
  <2>2. QED BY <2>1 DEF Checked, Elsewhere, tables
<1>3. CASE StaffWalletUser(r)
  <2>1. PICK p \in {"refused", "found"} : Goes(r, p) BY <1>3 DEF StaffWalletUser
  <2>2. req[r] # None /\ links' = links /\ req[r].at = "begin"
    BY <1>3 DEF StaffWalletUser, Begins, At, tables
  <2>3. QED BY <2>1, <2>2, GoesAdvances DEF TypeInv, Place, AdvanceTo, Elsewhere
<1>4. CASE FindRow(r)
  <2>1. /\ req[r] # None /\ req[r].at = "begin" /\ req[r] \in Call /\ links' = links
    BY <1>4 DEF FindRow, At, TypeInv, TypeOK, tables
  <2>2. PICK p \in {"refused", "found"} :
          req' = [req EXCEPT ![r].copy = row[req[r].q.on], ![r].at = p]
    BY <1>4 DEF FindRow
  <2>3. req'[r].at = p /\ req'[r].cleared = req[r].cleared
    BY <2>1, <2>2 DEF TypeInv, TypeOK, Call
  <2>4. QED BY <2>1, <2>3 DEF Elsewhere
<1>5. CASE SaveRow(r) \/ Fail(r) \/ StaffWalletSave(r)
  <2>1. req[r] # None /\ links' = links /\ \E p \in {"done", "refused"} : Goes(r, p)
    BY <1>5 DEF SaveRow, Fail, StaffWalletSave, At, tables
  <2>2. QED BY <1>1, <2>1
<1>6. CASE RoleFuncBind(r) \/ RoleUserBind(r) \/ RoleFuncUnbind(r) \/ RoleUserUnbind(r)
  <2>1. req[r] # None /\ links' = links /\ \E p \in {"done", "refused"} : Goes(r, p)
    BY <1>6 DEF RoleFuncBind, RoleUserBind, RoleFuncUnbind, RoleUserUnbind, Begins, At
  <2>2. QED BY <1>1, <2>1
<1>7. CASE StaffWalletFind(r)
  <2>1. req[r] # None /\ req[r].at = "found" /\ req[r] \in Call /\ links' = links
    BY <1>7 DEF StaffWalletFind, At, TypeInv, TypeOK, tables
  <2>2. req'[r].at = "walletless" /\ req'[r].cleared = req[r].cleared
    BY <1>7, WalletFound
  <2>3. QED BY <2>1, <2>2 DEF Elsewhere
<1>8. QED BY <1>2, <1>3, <1>4, <1>5, <1>6, <1>7 DEF Step, Check

\* Links that stay are still the list of one request.
LEMMA ListsKept ==
  ASSUME LinkInv, TypeInv, NEW r \in Req, Advance(r), NEW u \in User, links'[u] = links[u],
         NEW x \in links'[u]
  PROVE  /\ req'[x.by] # None /\ {y.dept : y \in links'[u]} = req'[x.by].q.arg
         /\ \A y \in links'[u] : y.by = x.by
<1>1. x.by \in Req /\ req[x.by] # None BY DEF TypeInv, TypeOK, Link, LinkInv
<1>2. req'[x.by] # None /\ req'[x.by].q = req[x.by].q BY <1>1 DEF Advance
<1>3. QED BY <1>1, <1>2 DEF LinkInv

\* A request that does not hold anything after its step, and leaves the links
\* alone.
LEMMA ElsewhereLinks ==
  ASSUME TypeInv, LinkInv, NEW r \in Req, Advance(r), Elsewhere(r)
  PROVE  LinkInv'
<1>1. /\ links' = links /\ req'[r].at \notin {"saved", "cleared"}
      /\ req'[r].q = req[r].q /\ \A s \in Req \ {r} : req'[s] = req[s]
  BY DEF Elsewhere, Advance
<1>2. \A s \in Req : req'[s] # None /\ Cleared(s)' => links'[req'[s].q.on] = req'[s].cleared
  BY <1>1 DEF LinkInv, Cleared
<1>3. \A s \in Req : req'[s] # None /\ Early(s)' => req'[s].cleared = {}
  BY <1>1 DEF LinkInv, Early, Elsewhere, Advance
<1>4. \A s, t \in Req, u \in User : s # t => /\ ~(HoldsRow(s, u) /\ HoldsRow(t, u))'
                                             /\ ~(HoldsLinks(s, u) /\ HoldsLinks(t, u))'
  BY <1>1 DEF LinkInv, HoldsRow, HoldsLinks, Doing
<1>5. QED BY <1>1, <1>2, <1>3, <1>4, ListsKept DEF LinkInv

\* Save takes the lock of the row.
LEMMA TxSaveLinks ==
  ASSUME TypeInv, LinkInv, NEW r \in Req, UserUpdateSave(r) \/ UserDeleteSave(r)
  PROVE  LinkInv'
<1>1. /\ req[r] # None /\ Goes(r, "saved") /\ links' = links /\ RowFree(r, req[r].q.on)
      /\ \/ req[r].q.op = "user_update" /\ req[r].at = "found"
         \/ req[r].q.op = "user_delete" /\ req[r].at = "cleared"
  BY DEF UserUpdateSave, UserDeleteSave, At, Doing, tables
<1>2. AdvanceTo(r, "saved") BY <1>1, GoesAdvances DEF TypeInv, Place
<1>3. /\ req'[r].q = req[r].q /\ req'[r].cleared = req[r].cleared /\ req'[r].at = "saved"
      /\ \A s \in Req \ {r} : req'[s] = req[s]
  BY <1>2 DEF AdvanceTo, Advance
<1>4. ASSUME NEW s \in Req, req'[s] # None, Cleared(s)'
      PROVE  links'[req'[s].q.on] = req'[s].cleared
  <2>1. Cleared(r)' => Cleared(r) BY <1>1, <1>3 DEF Cleared
  <2>2. s # r => (Cleared(s)' <=> Cleared(s)) BY <1>3 DEF Cleared
  <2>3. /\ req'[s].q = req[s].q /\ req'[s].cleared = req[s].cleared
        /\ req[s] # None /\ Cleared(s)
    BY <1>1, <1>3, <1>4, <2>1, <2>2
  <2>4. links[req[s].q.on] = req[s].cleared BY <2>3 DEF LinkInv
  <2>5. QED BY <1>1, <2>3, <2>4
<1>5. \A s \in Req : req'[s] # None /\ Early(s)' => req'[s].cleared = {}
  BY <1>1, <1>3 DEF LinkInv, Early
<1>6. ASSUME NEW s \in Req \ {r}, NEW u \in User, HoldsRow(r, u)' PROVE ~HoldsRow(s, u)'
  <2>1. u = req[r].q.on BY <1>3, <1>6 DEF HoldsRow
  <2>2. QED BY <1>1, <1>3, <2>1 DEF RowFree, HoldsRow, Doing
<1>7. ASSUME NEW u \in User, HoldsLinks(r, u)' PROVE HoldsLinks(r, u)
  BY <1>1, <1>3, <1>7 DEF LinkInv, Early, HoldsLinks, Doing
<1>8. \A s \in Req \ {r}, u \in User : /\ HoldsRow(s, u)' <=> HoldsRow(s, u)
                                       /\ HoldsLinks(s, u)' <=> HoldsLinks(s, u)
  BY <1>3 DEF HoldsRow, HoldsLinks, Doing
<1>9. \A s, t \in Req, u \in User : s # t => /\ ~(HoldsRow(s, u) /\ HoldsRow(t, u))'
                                             /\ ~(HoldsLinks(s, u) /\ HoldsLinks(t, u))'
  BY <1>6, <1>7, <1>8 DEF LinkInv
<1>10. QED BY <1>1, <1>2, <1>4, <1>5, <1>9, ListsKept DEF LinkInv, AdvanceTo

\* Deleting links takes their locks, if there are any.
LEMMA TxClearLinks ==
  ASSUME TypeInv, LinkInv, NEW r \in Req, UserUpdateClear(r) \/ UserDeleteClear(r)
  PROVE  LinkInv'
<1>1. /\ req[r] # None /\ req[r] \in Call /\ links' = links /\ LinksFree(r, req[r].q.on)
      /\ req' = [req EXCEPT ![r].at = "cleared", ![r].cleared = links[req[r].q.on]]
      /\ \/ req[r].q.op = "user_update" /\ req[r].at = "saved"
         \/ req[r].q.op = "user_delete" /\ req[r].at = "found"
  BY DEF UserUpdateClear, UserDeleteClear, At, Doing, tables, TypeInv, TypeOK
<1>2. Advance(r) BY TxClearTyped DEF StepTyped
<1>3. /\ req'[r].q = req[r].q /\ req'[r].cleared = links[req[r].q.on] /\ req'[r].at = "cleared"
      /\ \A s \in Req \ {r} : req'[s] = req[s]
  BY <1>1, <1>2 DEF Advance, Call, TypeInv, TypeOK
<1>4. ASSUME NEW s \in Req, req'[s] # None, Cleared(s)'
      PROVE  links'[req'[s].q.on] = req'[s].cleared
  <2>1. CASE s = r BY <1>1, <1>3, <2>1
  <2>2. CASE s # r
    <3>1. req'[s] = req[s] /\ Cleared(s) /\ req[s] # None
      BY <1>3, <1>4, <2>2 DEF Cleared
    <3>2. QED BY <1>1, <3>1 DEF LinkInv
  <2>3. QED BY <2>1, <2>2
<1>5. \A s \in Req : req'[s] # None /\ Early(s)' => req'[s].cleared = {}
  BY <1>1, <1>3 DEF LinkInv, Early
<1>6. ASSUME NEW s \in Req \ {r}, NEW u \in User, HoldsLinks(r, u)' PROVE ~HoldsLinks(s, u)'
  <2>1. u = req[r].q.on BY <1>3, <1>6 DEF HoldsLinks
  <2>2. QED BY <1>1, <1>3, <2>1 DEF LinksFree, HoldsLinks, Doing
<1>7. ASSUME NEW u \in User, HoldsRow(r, u)' PROVE HoldsRow(r, u)
  BY <1>1, <1>3, <1>7 DEF HoldsRow, Doing
<1>8. \A s \in Req \ {r}, u \in User : /\ HoldsRow(s, u)' <=> HoldsRow(s, u)
                                       /\ HoldsLinks(s, u)' <=> HoldsLinks(s, u)
  BY <1>3 DEF HoldsRow, HoldsLinks, Doing
<1>9. \A s, t \in Req, u \in User : s # t => /\ ~(HoldsRow(s, u) /\ HoldsRow(t, u))'
                                             /\ ~(HoldsLinks(s, u) /\ HoldsLinks(t, u))'
  BY <1>6, <1>7, <1>8 DEF LinkInv
<1>10. QED BY <1>1, <1>2, <1>4, <1>5, <1>9, ListsKept DEF LinkInv

\* A list of departments is read back from its links.
LinksOf(r, D) == {[dept |-> d, by |-> r] : d \in D}
DeptsOf(L) == {y.dept : y \in L}

LEMMA ListOfLinks ==
  ASSUME NEW r, NEW D
  PROVE  DeptsOf(LinksOf(r, D)) = D /\ \A y \in LinksOf(r, D) : y.by = r
<1>1. PICK L : L = LinksOf(r, D) OBVIOUS
<1>2. \A d \in D : \E y \in L : y.dept = d
  <2>1. \A d \in D : [dept |-> d, by |-> r] \in L /\ [dept |-> d, by |-> r].dept = d
    BY <1>1 DEF LinksOf
  <2>2. QED BY <2>1
<1>3. \A y \in L : y.dept \in D /\ y.by = r BY <1>1 DEF LinksOf
<1>4. DeptsOf(L) = D BY <1>2, <1>3 DEF DeptsOf
<1>5. QED BY <1>1, <1>3, <1>4

\* A new user's links are those of UserAdd's list.
LEMMA CreateLinks ==
  ASSUME TypeInv, LinkInv, NEW r \in Req, Create(r)
  PROVE  LinkInv'
<1>1. /\ req[r] # None /\ req[r].q.op \in CreateOps /\ Goes(r, "done")
  BY DEF Create, At, Doing
<1>2. AdvanceTo(r, "done") BY <1>1, GoesAdvances DEF TypeInv, Place
<1>3. /\ req'[r].q = req[r].q /\ req'[r].at = "done" /\ req'[r] # None /\ Advance(r)
      /\ \A s \in Req \ {r} : req'[s] = req[s]
  BY <1>2 DEF AdvanceTo, Advance
<1>4. PICK e \in Fresh(req[r].q.op) :
        /\ row[e] = None
        /\ links' = IF e \notin User THEN links
                    ELSE [links EXCEPT ![e] = {[dept |-> d, by |-> r] : d \in req[r].q.arg}]
  BY DEF Create
<1>5. \A u \in User \ {e} : links'[u] = links[u] BY <1>4 DEF TypeInv, TypeOK
<1>6. ASSUME NEW s \in Req, req'[s] # None, Cleared(s)'
      PROVE  links'[req'[s].q.on] = req'[s].cleared
  <2>1. s # r /\ req'[s] = req[s] BY <1>3, <1>6 DEF Cleared
  <2>2. Cleared(s) /\ req[s] # None /\ req[s].q.op \in UserTx
        /\ req[s].at \in {"found", "saved", "cleared"}
    BY <1>6, <2>1 DEF Cleared, UserTx
  <2>3. req[s].q.on \in User /\ row[req[s].q.on] # None BY <2>2, UserTxRow
  <2>4. links'[req[s].q.on] = links[req[s].q.on] BY <1>4, <1>5, <2>3
  <2>5. QED BY <2>1, <2>2, <2>4 DEF LinkInv
<1>7. \A s \in Req : req'[s] # None /\ Early(s)' => req'[s].cleared = {}
  BY <1>3 DEF LinkInv, Early
<1>8. \A s, t \in Req, u \in User : s # t => /\ ~(HoldsRow(s, u) /\ HoldsRow(t, u))'
                                             /\ ~(HoldsLinks(s, u) /\ HoldsLinks(t, u))'
  BY <1>3 DEF LinkInv, HoldsRow, HoldsLinks, Doing
<1>9. ASSUME NEW u \in User, NEW x \in links'[u]
      PROVE  /\ req'[x.by] # None /\ {y.dept : y \in links'[u]} = req'[x.by].q.arg
             /\ \A y \in links'[u] : y.by = x.by
  <2>1. CASE u # e BY <1>3, <1>5, <2>1, ListsKept
  <2>2. CASE u = e
    <3>1. links'[u] = {[dept |-> d, by |-> r] : d \in req[r].q.arg}
      BY <1>4, <2>2 DEF TypeInv, TypeOK
    <3>2. links'[u] = LinksOf(r, req[r].q.arg) BY <3>1 DEF LinksOf
    <3>3. \A y \in links'[u] : y.by = r BY <3>2, ListOfLinks
    <3>4. DeptsOf(links'[u]) = req[r].q.arg BY <3>2, ListOfLinks
    <3>5. QED BY <1>3, <3>3, <3>4 DEF DeptsOf
  <2>3. QED BY <2>1, <2>2
<1>10. QED BY <1>6, <1>7, <1>8, <1>9 DEF LinkInv

\* What a commit of r leaves as it was.
LEMMA CommitKeeps ==
  ASSUME TypeInv, LinkInv, NEW r \in Req, AdvanceTo(r, "done"),
         \A u \in User \ {req[r].q.on} : links'[u] = links[u],
         \A s \in Req \ {r} : req[s] # None /\ Cleared(s) /\ req[s].q.on = req[r].q.on =>
           links'[req[s].q.on] = links[req[s].q.on],
         \A x \in links'[req[r].q.on] :
           /\ req[x.by] # None /\ x.by \in Req
           /\ {y.dept : y \in links'[req[r].q.on]} = req[x.by].q.arg
           /\ \A y \in links'[req[r].q.on] : y.by = x.by
  PROVE  LinkInv'
<1>1. /\ req'[r].q = req[r].q /\ req'[r].at = "done" /\ req'[r] # None /\ Advance(r)
      /\ \A s \in Req \ {r} : req'[s] = req[s]
  BY DEF AdvanceTo, Advance
<1>2. ASSUME NEW s \in Req, req'[s] # None, Cleared(s)'
      PROVE  links'[req'[s].q.on] = req'[s].cleared
  <2>1. s # r /\ req'[s] = req[s] BY <1>1, <1>2 DEF Cleared
  <2>2. Cleared(s) /\ req[s] # None /\ req[s].q.op \in UserTx
    BY <1>2, <2>1 DEF Cleared, UserTx
  <2>3. req[s].q.on \in User BY <2>2, UserTxRow
  <2>4. links'[req[s].q.on] = links[req[s].q.on] BY <2>1, <2>2, <2>3
  <2>5. QED BY <2>1, <2>2, <2>4 DEF LinkInv
<1>3. \A s \in Req : req'[s] # None /\ Early(s)' => req'[s].cleared = {}
  BY <1>1 DEF LinkInv, Early
<1>4. \A s, t \in Req, u \in User : s # t => /\ ~(HoldsRow(s, u) /\ HoldsRow(t, u))'
                                             /\ ~(HoldsLinks(s, u) /\ HoldsLinks(t, u))'
  BY <1>1 DEF LinkInv, HoldsRow, HoldsLinks, Doing
<1>5. ASSUME NEW u \in User, NEW x \in links'[u]
      PROVE  /\ req'[x.by] # None /\ {y.dept : y \in links'[u]} = req'[x.by].q.arg
             /\ \A y \in links'[u] : y.by = x.by
  <2>1. CASE u # req[r].q.on BY <1>1, <2>1, ListsKept
  <2>2. CASE u = req[r].q.on BY <1>1, <2>2
  <2>3. QED BY <2>1, <2>2
<1>6. QED BY <1>2, <1>3, <1>4, <1>5 DEF LinkInv

\* UserUpdate holds the row, so nobody else has inserted links since it deleted
\* them, and nobody else has deleted any.
LEMMA UpdateCommitLinks ==
  ASSUME TypeInv, LinkInv, NEW r \in Req, UserUpdateCommit(r)
  PROVE  LinkInv'
<1>1. req[r] # None /\ req[r].at = "cleared" /\ req[r].q.op = "user_update" /\ Goes(r, "done")
  BY DEF UserUpdateCommit, At, Doing
<1>2. AdvanceTo(r, "done") BY <1>1, GoesAdvances DEF TypeInv, Place
<1>3. req[r].q.on \in User BY <1>1, UserTxRow DEF UserTx
<1>4. links[req[r].q.on] = req[r].cleared BY <1>1 DEF LinkInv, Cleared
<1>5. links' = [links EXCEPT ![req[r].q.on] =
         (@ \ req[r].cleared) \cup {[dept |-> d, by |-> r] : d \in req[r].q.arg}]
  BY DEF UserUpdateCommit
<1>6. links'[req[r].q.on] = {[dept |-> d, by |-> r] : d \in req[r].q.arg}
  <2>1. links'[req[r].q.on] = (links[req[r].q.on] \ req[r].cleared)
                                \cup {[dept |-> d, by |-> r] : d \in req[r].q.arg}
    BY <1>3, <1>5 DEF TypeInv, TypeOK
  <2>2. QED BY <1>4, <2>1
<1>7. \A u \in User \ {req[r].q.on} : links'[u] = links[u] BY <1>5 DEF TypeInv, TypeOK
<1>8. ASSUME NEW s \in Req \ {r}, req[s] # None, Cleared(s), req[s].q.on = req[r].q.on
      PROVE  FALSE
  <2>1. HoldsRow(r, req[r].q.on) BY <1>1 DEF HoldsRow, Doing
  <2>2. CASE req[s].q.op = "user_update"
    <3>1. HoldsRow(s, req[r].q.on) BY <1>8, <2>2 DEF HoldsRow, Doing, Cleared
    <3>2. QED BY <1>3, <2>1, <3>1 DEF LinkInv
  <2>3. CASE req[s].q.op = "user_delete"
    <3>1. HoldsLinks(s, req[r].q.on) BY <1>8, <2>3 DEF HoldsLinks, Doing, Cleared
    <3>2. req[s].cleared # {} /\ links[req[s].q.on] = req[s].cleared
      BY <1>8, <2>3 DEF LinkInv, Cleared
    <3>3. req[r].cleared # {} BY <1>4, <1>8, <3>2
    <3>4. HoldsLinks(r, req[r].q.on) BY <1>1, <3>3 DEF HoldsLinks, Doing
    <3>5. QED BY <1>3, <3>1, <3>4 DEF LinkInv
  <2>4. QED BY <1>8, <2>2, <2>3 DEF Cleared
<1>9. /\ \A y \in links'[req[r].q.on] : y.by = r
      /\ {y.dept : y \in links'[req[r].q.on]} = req[r].q.arg
  <2>1. links'[req[r].q.on] = LinksOf(r, req[r].q.arg) BY <1>6 DEF LinksOf
  <2>2. \A y \in links'[req[r].q.on] : y.by = r BY <2>1, ListOfLinks
  <2>3. DeptsOf(links'[req[r].q.on]) = req[r].q.arg BY <2>1, ListOfLinks
  <2>4. QED BY <2>2, <2>3 DEF DeptsOf
<1>10. QED BY <1>1, <1>2, <1>7, <1>8, <1>9, CommitKeeps

\* UserDelete removes all links there are, or none.
LEMMA DeleteCommitLinks ==
  ASSUME TypeInv, LinkInv, NEW r \in Req, UserDeleteCommit(r)
  PROVE  LinkInv'
<1>1. req[r] # None /\ req[r].at = "saved" /\ req[r].q.op = "user_delete" /\ Goes(r, "done")
  BY DEF UserDeleteCommit, At, Doing
<1>2. AdvanceTo(r, "done") BY <1>1, GoesAdvances DEF TypeInv, Place
<1>3. req[r].q.on \in User BY <1>1, UserTxRow DEF UserTx
<1>4. links' = [links EXCEPT ![req[r].q.on] = @ \ req[r].cleared] BY DEF UserDeleteCommit
<1>5. links'[req[r].q.on] = links[req[r].q.on] \ req[r].cleared
  BY <1>3, <1>4 DEF TypeInv, TypeOK
<1>6. \A u \in User \ {req[r].q.on} : links'[u] = links[u] BY <1>4 DEF TypeInv, TypeOK
<1>7. CASE req[r].cleared = {}
  <2>1. links'[req[r].q.on] = links[req[r].q.on] BY <1>5, <1>7
  <2>2. \A x \in links[req[r].q.on] :
           /\ req[x.by] # None /\ x.by \in Req
           /\ {y.dept : y \in links[req[r].q.on]} = req[x.by].q.arg
           /\ \A y \in links[req[r].q.on] : y.by = x.by
    BY <1>3 DEF LinkInv, TypeInv, TypeOK, Link
  <2>3. QED BY <1>2, <1>6, <2>1, <2>2, CommitKeeps
<1>8. CASE req[r].cleared # {}
  <2>1. links[req[r].q.on] = req[r].cleared BY <1>1, <1>8 DEF LinkInv, Cleared
  <2>2. links'[req[r].q.on] = {} BY <1>5, <2>1
  <2>3. HoldsLinks(r, req[r].q.on) BY <1>1, <1>8 DEF HoldsLinks, Doing
  <2>4. ASSUME NEW s \in Req \ {r}, req[s] # None, Cleared(s), req[s].q.on = req[r].q.on
        PROVE  FALSE
    <3>1. req[s].cleared # {} BY <1>8, <2>1, <2>4 DEF LinkInv
    <3>2. HoldsLinks(s, req[r].q.on) BY <2>4, <3>1 DEF HoldsLinks, Doing, Cleared
    <3>3. QED BY <1>3, <2>3, <3>2 DEF LinkInv
  <2>5. QED BY <1>2, <1>6, <2>2, <2>4, CommitKeeps
<1>9. QED BY <1>7, <1>8

LEMMA AskLinks ==
  ASSUME TypeInv, LinkInv, NEW r \in Req, NEW q \in Request, Ask(r, q)
  PROVE  LinkInv'
<1>1. /\ req[r] = None /\ req'[r] # None /\ req'[r].at = "token" /\ links' = links
      /\ \A s \in Req \ {r} : req'[s] = req[s]
  BY Asked DEF TypeInv, tables
<1>2. req'[r].cleared = {} BY DEF Ask, TypeInv, TypeOK
<1>3. \A s \in Req : req'[s] # None /\ Cleared(s)' => links'[req'[s].q.on] = req'[s].cleared
  BY <1>1 DEF LinkInv, Cleared
<1>4. \A s \in Req : req'[s] # None /\ Early(s)' => req'[s].cleared = {}
  BY <1>1, <1>2 DEF LinkInv, Early
<1>5. \A s, t \in Req, u \in User : s # t => /\ ~(HoldsRow(s, u) /\ HoldsRow(t, u))'
                                             /\ ~(HoldsLinks(s, u) /\ HoldsLinks(t, u))'
  BY <1>1 DEF LinkInv, HoldsRow, HoldsLinks, Doing
<1>6. ASSUME NEW u \in User, NEW x \in links'[u]
      PROVE  /\ req'[x.by] # None /\ {y.dept : y \in links'[u]} = req'[x.by].q.arg
             /\ \A y \in links'[u] : y.by = x.by
  <2>1. x.by \in Req /\ req[x.by] # None BY <1>1, <1>6 DEF TypeInv, TypeOK, Link, LinkInv
  <2>2. req'[x.by] = req[x.by] BY <1>1, <2>1
  <2>3. QED BY <1>1, <1>6, <2>1, <2>2 DEF LinkInv
<1>7. QED BY <1>3, <1>4, <1>5, <1>6 DEF LinkInv

LEMMA LinkNext == TypeInv /\ LinkInv /\ [Next]_vars => LinkInv'
<1> SUFFICES ASSUME TypeInv, LinkInv, [Next]_vars PROVE LinkInv' OBVIOUS
<1>1. CASE UNCHANGED vars
  BY <1>1 DEF vars, tables, LinkInv, Cleared, Early, HoldsRow, HoldsLinks, Doing
<1>2. CASE Next
  <2>1. PICK r \in Req : (\E q \in Request : Ask(r, q)) \/ Step(r) BY <1>2 DEF Next
  <2>2. ASSUME Step(r) PROVE Advance(r) BY <2>2, StepTypes DEF StepTyped
  <2>3. QED BY <2>1, <2>2, LinkSteps, AskLinks, ElsewhereLinks, TxSaveLinks, TxClearLinks,
               CreateLinks, UpdateCommitLinks, DeleteCommitLinks
<1>3. QED BY <1>1, <1>2

LEMMA InitLinks == Init => LinkInv
BY DEF Init, LinkInv, HoldsRow, HoldsLinks, Doing

LEMMA LinkInvHolds == Spec => []LinkInv
BY InitLinks, LinkNext, TypeInvHolds, PTL DEF Spec

\* The departments of a user are the whole list of one request, although two
\* UserUpdates delete and insert side by side.
THEOREM AlwaysLinksOfOneRequest == Spec => []LinksOfOneRequest
<1>1. LinkInv => LinksOfOneRequest BY DEF LinkInv, LinksOfOneRequest
<1>2. QED BY <1>1, LinkInvHolds, PTL

----------------------------------------------------------------------------
\* The requests before another one are answered, and stay so; and StaffWallet,
\* if a request before it inserted a wallet of the user, has found one that is
\* there.
WalletInv ==
  /\ \A r \in Req : req[r] # None => \A s \in req[r].before : At(s, "done")
  /\ \A w \in wallet : At(w.by, "done")
  /\ \A r \in Req : (req[r] # None /\ req[r].q.op = "wallet" /\ req[r].at = "walletless") =>
       \A v \in WalletsOf(req[r].q.on) : v.by \in req[r].before =>
         \/ \E w \in WalletsOf(req[r].q.on) : w.id = req[r].wallet
         \/ "wallet" \in req[r].failed
  /\ \A v, w \in wallet : (v.user = w.user /\ v # w /\ v.by \in req[w.by].before) =>
       "wallet" \in req[w.by].failed

\* The steps that change wallets, and the one that leads to the save.
LEMMA WalletSteps ==
  ASSUME TypeInv, NEW r \in Req, Step(r)
  PROVE  \/ StaffWalletFind(r) /\ wallet' = wallet
         \/ StaffWalletSave(r)
         \/ /\ wallet' = wallet \/ \E u \in User : wallet' = wallet \ WalletsOf(u)
            /\ req'[r].at # "walletless"
<1>1. ASSUME NEW p \in Place \ {"walletless"}, Goes(r, p), req[r] # None
      PROVE  req'[r].at # "walletless"
  BY <1>1, GoesAdvances DEF TypeInv, AdvanceTo
<1>2. CASE UserDeleteCommit(r)
  <2>1. req[r] # None /\ req[r].q.op = "user_delete" /\ Goes(r, "done")
    BY <1>2 DEF UserDeleteCommit, At, Doing
  <2>2. req[r].q.on \in User BY <2>1, UserTxRow DEF UserTx
  <2>3. QED BY <1>1, <1>2, <2>1, <2>2 DEF UserDeleteCommit, Place
<1>3. CASE Check(r) \/ StaffWalletUser(r)
  <2>1. CASE Check(r) BY <2>1, CheckIs DEF TypeInv, Checked, tables
  <2>2. CASE StaffWalletUser(r)
    <3>1. req[r] # None /\ wallet' = wallet /\ \E p \in {"refused", "found"} : Goes(r, p)
      BY <2>2 DEF StaffWalletUser, Begins, At, tables
    <3>2. QED BY <1>1, <3>1 DEF Place
  <2>3. QED BY <1>3, <2>1, <2>2
<1>4. CASE FindRow(r)
  <2>1. /\ req[r] # None /\ req[r] \in Call /\ wallet' = wallet
    BY <1>4 DEF FindRow, At, TypeInv, TypeOK, tables
  <2>2. PICK p \in {"refused", "found"} :
          req' = [req EXCEPT ![r].copy = row[req[r].q.on], ![r].at = p]
    BY <1>4 DEF FindRow
  <2>3. req'[r].at = p BY <2>1, <2>2 DEF TypeInv, TypeOK, Call
  <2>4. QED BY <2>1, <2>3
<1>5. CASE SaveRow(r) \/ Create(r) \/ Fail(r) \/ UserUpdateCommit(r)
  <2>1. req[r] # None /\ wallet' = wallet /\ \E p \in {"done", "refused"} : Goes(r, p)
    BY <1>5 DEF SaveRow, Create, Fail, UserUpdateCommit, At, tables
  <2>2. QED BY <1>1, <2>1 DEF Place
<1>6. CASE RoleFuncBind(r) \/ RoleUserBind(r) \/ RoleFuncUnbind(r) \/ RoleUserUnbind(r)
  <2>1. req[r] # None /\ wallet' = wallet /\ \E p \in {"done", "refused"} : Goes(r, p)
    BY <1>6 DEF RoleFuncBind, RoleUserBind, RoleFuncUnbind, RoleUserUnbind, Begins, At
  <2>2. QED BY <1>1, <2>1 DEF Place
<1>7. CASE UserUpdateSave(r) \/ UserDeleteSave(r)
  <2>1. req[r] # None /\ wallet' = wallet /\ Goes(r, "saved")
    BY <1>7 DEF UserUpdateSave, UserDeleteSave, At, tables
  <2>2. QED BY <1>1, <2>1 DEF Place
<1>8. CASE UserUpdateClear(r) \/ UserDeleteClear(r)
  <2>1. req[r] \in Call /\ wallet' = wallet
    BY <1>8 DEF UserUpdateClear, UserDeleteClear, At, TypeInv, TypeOK, tables
  <2>2. req' = [req EXCEPT ![r].at = "cleared", ![r].cleared = links[req[r].q.on]]
    BY <1>8 DEF UserUpdateClear, UserDeleteClear
  <2>3. req'[r].at = "cleared" BY <2>1, <2>2 DEF TypeInv, TypeOK, Call
  <2>4. QED BY <2>1, <2>3
<1>9. CASE StaffWalletFind(r) BY <1>9 DEF StaffWalletFind, tables
<1>10. QED BY <1>2, <1>3, <1>4, <1>5, <1>6, <1>7, <1>8, <1>9 DEF Step, Check

\* An answered request stays answered.
LEMMA DoneStays ==
  ASSUME TypeInv, NEW r \in Req, Step(r), NEW s \in Req, At(s, "done")
  PROVE  At(s, "done")' /\ s # r
<1>1. s # r BY NotDone DEF At
<1>2. req'[s] = req[s] BY <1>1, StepTypes DEF StepTyped, Advance
<1>3. QED BY <1>1, <1>2 DEF At

\* Nothing but r's place, and wallets that are removed.
LEMMA WalletsRemoved ==
  ASSUME TypeInv, WalletInv, NEW r \in Req, Step(r),
         wallet' = wallet \/ \E u \in User : wallet' = wallet \ WalletsOf(u),
         req'[r].at # "walletless"
  PROVE  WalletInv'
<1>1. Advance(r) BY StepTypes DEF StepTyped
<1>2. wallet' \subseteq wallet OBVIOUS
<1>3. ASSUME NEW s \in Req, req'[s] # None, NEW t \in req'[s].before PROVE At(t, "done")'
  <2>1. req[s] # None /\ req'[s].before = req[s].before BY <1>1, <1>3 DEF Advance
  <2>2. t \in Req /\ At(t, "done") BY <1>3, <2>1 DEF WalletInv, TypeInv, TypeOK, Call
  <2>3. QED BY <2>2, DoneStays
<1>4. ASSUME NEW w \in wallet' PROVE At(w.by, "done")' /\ req'[w.by] = req[w.by]
  <2>1. w.by \in Req /\ At(w.by, "done") BY <1>2 DEF WalletInv, TypeInv, TypeOK
  <2>2. QED BY <1>1, <2>1, DoneStays DEF Advance
<1>5. ASSUME NEW s \in Req, req'[s] # None, req'[s].q.op = "wallet",
             req'[s].at = "walletless", NEW v \in wallet', v.user = req'[s].q.on,
             v.by \in req'[s].before
      PROVE  \/ \E w \in wallet' : w.user = req'[s].q.on /\ w.id = req'[s].wallet
             \/ "wallet" \in req'[s].failed
  <2>1. s # r /\ req'[s] = req[s] BY <1>1, <1>5 DEF Advance
  <2>2. CASE "wallet" \in req[s].failed BY <2>1, <2>2
  <2> SUFFICES ASSUME "wallet" \notin req[s].failed
               PROVE  \E w \in wallet' : w.user = req'[s].q.on /\ w.id = req'[s].wallet
    BY <2>1
  <2>5. PICK w \in wallet : w.user = req[s].q.on /\ w.id = req[s].wallet
    BY <1>2, <1>5, <2>1 DEF WalletInv, WalletsOf
  <2>3. w \in wallet'
    <3>1. CASE wallet' = wallet BY <3>1
    <3>2. ASSUME NEW u \in User, wallet' = wallet \ WalletsOf(u) PROVE w \in wallet'
      BY <1>5, <2>1, <2>5, <3>2 DEF WalletsOf
    <3>3. QED BY <3>1, <3>2
  <2>4. QED BY <2>1, <2>5, <2>3
<1>6. \A v, w \in wallet' : (v.user = w.user /\ v # w /\ v.by \in req'[w.by].before) =>
        "wallet" \in req'[w.by].failed
  BY <1>2, <1>4 DEF WalletInv
<1>7. QED BY <1>3, <1>4, <1>5, <1>6 DEF WalletInv, WalletsOf

\* StaffWallet finds a wallet of the user, if there is one.
LEMMA WalletFindInv ==
  ASSUME TypeInv, WalletInv, NEW r \in Req, Step(r), StaffWalletFind(r), wallet' = wallet
  PROVE  WalletInv'
<1>1. Advance(r) BY StepTypes DEF StepTyped
<1>2. ASSUME NEW s \in Req, req'[s] # None, NEW t \in req'[s].before PROVE At(t, "done")'
  <2>1. req[s] # None /\ req'[s].before = req[s].before BY <1>1, <1>2 DEF Advance
  <2>2. t \in Req /\ At(t, "done") BY <1>2, <2>1 DEF WalletInv, TypeInv, TypeOK, Call
  <2>3. QED BY <2>2, DoneStays
<1>3. ASSUME NEW w \in wallet' PROVE At(w.by, "done")' /\ req'[w.by] = req[w.by]
  <2>1. w.by \in Req /\ At(w.by, "done") BY DEF WalletInv, TypeInv, TypeOK
  <2>2. QED BY <1>1, <2>1, DoneStays DEF Advance
<1>4. ASSUME NEW s \in Req, req'[s] # None, req'[s].q.op = "wallet",
             req'[s].at = "walletless", NEW v \in wallet', v.user = req'[s].q.on,
             v.by \in req'[s].before
      PROVE  \/ \E w \in wallet' : w.user = req'[s].q.on /\ w.id = req'[s].wallet
             \/ "wallet" \in req'[s].failed
  <2>1. CASE s = r
    <3>1. v \in WalletsOf(req[r].q.on) BY <1>1, <1>4, <2>1 DEF Advance, WalletsOf
    <3>2. \/ \E w \in WalletsOf(req[r].q.on) : w.id = req'[r].wallet
          \/ "wallet" \in req'[r].failed
      BY <3>1, WalletFound
    <3>3. QED BY <1>1, <2>1, <3>2 DEF Advance, WalletsOf
  <2>2. CASE s # r
    <3>1. req'[s] = req[s] BY <1>1, <2>2 DEF Advance
    <3>2. QED BY <1>4, <3>1 DEF WalletInv, WalletsOf
  <2>3. QED BY <2>1, <2>2
<1>5. \A v, w \in wallet' : (v.user = w.user /\ v # w /\ v.by \in req'[w.by].before) =>
        "wallet" \in req'[w.by].failed
  BY <1>3 DEF WalletInv
<1>6. QED BY <1>2, <1>3, <1>4, <1>5 DEF WalletInv, WalletsOf

\* A wallet is inserted only if no request before has one.
LEMMA WalletSaveInv ==
  ASSUME TypeInv, WalletInv, NEW r \in Req, Step(r), StaffWalletSave(r)
  PROVE  WalletInv'
<1>1. Advance(r) /\ req'[r].at = "done" /\ req'[r] # None BY WalletSaved DEF AdvanceTo, Advance
<1>2. PICK new : new = [id |-> WalletId(r), user |-> req[r].q.on, by |-> r] OBVIOUS
<1>3. new.id = WalletId(r) /\ new.user = req[r].q.on /\ new.by = r BY <1>2
<1>4. /\ wallet \subseteq wallet' /\ wallet' \subseteq wallet \cup {new}
      /\ wallet' # wallet => \A w \in wallet : w.id # WalletId(r)
  BY <1>2, WalletSaved
<1>5. ASSUME NEW s \in Req, req'[s] # None, NEW t \in req'[s].before
      PROVE  At(t, "done")' /\ t # r
  <2>1. req[s] # None /\ req'[s].before = req[s].before BY <1>1, <1>5 DEF Advance
  <2>2. t \in Req /\ At(t, "done") BY <1>5, <2>1 DEF WalletInv, TypeInv, TypeOK, Call
  <2>3. QED BY <2>2, DoneStays
<1>6. ASSUME NEW w \in wallet PROVE w.by \in Req /\ At(w.by, "done")' /\ req'[w.by] = req[w.by]
                                    /\ w.by # r
  <2>1. w.by \in Req /\ At(w.by, "done") BY DEF WalletInv, TypeInv, TypeOK
  <2>2. QED BY <1>1, <2>1, DoneStays DEF Advance
<1>7. \A w \in wallet' : At(w.by, "done")' BY <1>1, <1>3, <1>4, <1>6 DEF At
<1>8. ASSUME NEW s \in Req, req'[s] # None, req'[s].q.op = "wallet",
             req'[s].at = "walletless", NEW v \in wallet', v.user = req'[s].q.on,
             v.by \in req'[s].before
      PROVE  \/ \E w \in wallet' : w.user = req'[s].q.on /\ w.id = req'[s].wallet
             \/ "wallet" \in req'[s].failed
  <2>1. s # r /\ req'[s] = req[s] BY <1>1, <1>8 DEF Advance
  <2>2. v.by # r BY <1>5, <1>8
  <2>3. v \in wallet BY <1>3, <1>4, <2>2
  <2>4. \/ \E w \in wallet : w.user = req[s].q.on /\ w.id = req[s].wallet
        \/ "wallet" \in req[s].failed
    BY <1>8, <2>1, <2>3 DEF WalletInv, WalletsOf
  <2>5. QED BY <1>4, <2>1, <2>4
<1>9. ASSUME NEW v \in wallet', NEW w \in wallet', v.user = w.user, v # w,
             v.by \in req'[w.by].before
      PROVE  "wallet" \in req'[w.by].failed
  <2>1. CASE v \in wallet /\ w \in wallet BY <1>6, <1>9, <2>1 DEF WalletInv
  <2>2. CASE v = new /\ w \in wallet
    <3>1. req'[w.by] # None BY <1>6, <2>2 DEF At
    <3>2. v.by # r BY <1>5, <1>6, <1>9, <2>2, <3>1
    <3>3. QED BY <1>3, <2>2, <3>2
  <2>3. CASE v \in wallet /\ w = new /\ wallet' # wallet
    <3>1. /\ req[r] # None /\ req[r].at = "walletless" /\ req[r].q.op = "wallet"
          /\ v \in WalletsOf(req[r].q.on)
      BY <1>3, <1>9, <2>3, WalletSaved DEF WalletsOf
    <3>2. ASSUME v.by \in req[r].before, "wallet" \notin req[r].failed PROVE FALSE
      <4>1. PICK x \in wallet : x.id = req[r].wallet
        BY <3>1, <3>2 DEF WalletInv, WalletsOf
      <4>2. x.id # 0 BY DEF TypeInv, TypeOK
      <4>3. x.id = WalletId(r) BY <4>1, <4>2 DEF WalletId
      <4>4. QED BY <1>4, <2>3, <4>3
    <3>3. req'[r].before = req[r].before /\ req'[r].failed = req[r].failed
      BY <1>1, WalletSaved DEF AdvanceTo, Advance
    <3>4. QED BY <1>3, <1>9, <2>3, <3>2, <3>3
  <2>4. QED BY <1>4, <1>9, <2>1, <2>2, <2>3
<1>10. QED BY <1>5, <1>7, <1>8, <1>9 DEF WalletInv, WalletsOf

LEMMA WalletAsk ==
  ASSUME TypeInv, WalletInv, NEW r \in Req, NEW q \in Request, Ask(r, q)
  PROVE  WalletInv'
<1>1. /\ req[r] = None /\ wallet' = wallet /\ req'[r].at = "token"
      /\ req'[r].before = {s \in Req : At(s, "done")}
      /\ \A s \in Req \ {r} : req'[s] = req[s]
  BY Asked DEF TypeInv, tables
<1>2. \A s \in Req : At(s, "done") => At(s, "done")' /\ s # r /\ req'[s] = req[s]
  BY <1>1 DEF At
<1>3. ASSUME NEW s \in Req, req'[s] # None, NEW t \in req'[s].before PROVE At(t, "done")'
  <2>1. CASE s = r BY <1>1, <1>2, <1>3, <2>1
  <2>2. CASE s # r
    <3>1. t \in Req /\ At(t, "done")
      BY <1>1, <1>3, <2>2 DEF WalletInv, TypeInv, TypeOK, Call
    <3>2. QED BY <1>2, <3>1
  <2>3. QED BY <2>1, <2>2
<1>4. \A w \in wallet : w.by \in Req /\ At(w.by, "done") BY DEF WalletInv, TypeInv, TypeOK
<1>5. \A w \in wallet' : At(w.by, "done")' /\ req'[w.by] = req[w.by] BY <1>1, <1>2, <1>4
<1>6. \A s \in Req : (req'[s] # None /\ req'[s].q.op = "wallet" /\ req'[s].at = "walletless") =>
       \A v \in wallet' : (v.user = req'[s].q.on /\ v.by \in req'[s].before) =>
         \/ \E w \in wallet' : w.user = req'[s].q.on /\ w.id = req'[s].wallet
         \/ "wallet" \in req'[s].failed
  BY <1>1 DEF WalletInv, WalletsOf
<1>7. \A v, w \in wallet' : (v.user = w.user /\ v # w /\ v.by \in req'[w.by].before) =>
        "wallet" \in req'[w.by].failed
  BY <1>1, <1>5 DEF WalletInv
<1>8. QED BY <1>3, <1>5, <1>6, <1>7 DEF WalletInv, WalletsOf

LEMMA WalletNext == TypeInv /\ WalletInv /\ [Next]_vars => WalletInv'
<1> SUFFICES ASSUME TypeInv, WalletInv, [Next]_vars PROVE WalletInv' OBVIOUS
<1>1. CASE UNCHANGED vars BY <1>1 DEF vars, tables, WalletInv, WalletsOf, At
<1>2. CASE Next
  <2>1. PICK r \in Req : (\E q \in Request : Ask(r, q)) \/ Step(r) BY <1>2 DEF Next
  <2>2. QED BY <2>1, WalletSteps, WalletAsk, WalletsRemoved, WalletFindInv, WalletSaveInv
<1>3. QED BY <1>1, <1>2

LEMMA WalletInvHolds == Spec => []WalletInv
<1>1. Init => WalletInv BY DEF Init, WalletInv
<1>2. QED BY <1>1, WalletNext, TypeInvHolds, PTL DEF Spec

\* A user has two wallets only if the StaffWallet requests that inserted them
\* ran side by side, or the later one could not read the wallets.
THEOREM SecondWalletAlwaysNeedsRace == Spec => []SecondWalletNeedsRace
<1>1. WalletInv => SecondWalletNeedsRace BY DEF WalletInv, SecondWalletNeedsRace
<1>2. QED BY <1>1, WalletInvHolds, PTL
=============================================================================
