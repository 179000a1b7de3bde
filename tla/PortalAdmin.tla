---------------------------- MODULE PortalAdmin ----------------------------
(***************************************************************************)
(* Administration of the portal: users, departments and wallets            *)
(* (cmd/modapi/http/portal/admin.go), roles and their bindings (rbac.go),  *)
(* and the check every request passes first (interceptor/tokenor.go).      *)
(*                                                                         *)
(* A handler reads a row, changes some fields and saves the whole row;     *)
(* rows are flagged as deleted, never removed.  Only UserAdd, UserUpdate   *)
(* and UserDelete run in a transaction; its writes are seen when it        *)
(* commits.  A field is represented by the request that wrote it.          *)
(*                                                                         *)
(* The database promises no more than READ COMMITTED: a statement sees     *)
(* what is committed, and a row written by a transaction is locked until   *)
(* it ends.  Whoever waits for a lock may be told to give up.              *)
(*                                                                         *)
(* TokenInterceptor and StaffWallet do not look at the errors of their     *)
(* reads: a failed read is taken for one that found nothing.               *)
(***************************************************************************)
EXTENDS Integers, FiniteSets

CONSTANTS
  Req,      \* the requests, each made once
  Request,  \* what they may be: [who, op, on, arg, uri], where uri tells how its
            \* address is written
  User, Role, Dept, Func,  \* ids, those of rows still to be made included
  Super,    \* users of type super_admin
  Needs,    \* Needs[op] : the function registered for a handler; None if there is
            \* none, or the address is one of unconfigURLs
  PermCode, \* PermCode[f] : the permission of a function
  InitRows, InitUserRole, InitRoleFunc, \* what is there from the beginning
  None

RoleOp == {"role_update", "role_delete", "bind_func", "unbind_func",
           "bind_user", "unbind_user"}
DeptOp == {"dept_update", "dept_delete"}
UserOp == {"user_update", "user_delete", "password", "wallet"}

\* Handlers whose address splitRequestingForGrants cuts at the registered one.
SplitOp == {"bind_func", "bind_user", "unbind_func", "unbind_user", "wallet",
            "user_delete"}

\* RequestURI as registered, with more after it (parameters of the path or a
\* query), or written in another way (with escapes, or the host before it).
Uri == {"exact", "extended", "other"}

\* What a request is on (on), and with (arg).
WellFormed(q) ==
  /\ q.who \in User /\ q.op \in DOMAIN Needs /\ q.uri \in Uri
  /\ q.op \in RoleOp => q.on \in Role
  /\ q.op \in DeptOp => q.on \in Dept
  /\ q.op \in UserOp => q.on \in User
  /\ q.op \in {"user_add", "user_update"} => q.arg \subseteq Dept
  /\ q.op \in {"bind_func", "unbind_func"} => q.arg \in Func
  /\ q.op \in {"bind_user", "unbind_user"} => q.arg \in User

ASSUME AdminAssumption ==
  /\ Super \subseteq User /\ None \notin Req \cup Func
  /\ \A q \in Request : WellFormed(q)
  /\ \A op \in DOMAIN Needs : Needs[op] \in Func \cup {None}
  /\ InitRows \subseteq User \cup Role \cup Dept
  /\ InitUserRole \subseteq User \X Role /\ InitRoleFunc \subseteq Role \X Func
  /\ User \cap Role = {} /\ User \cap Dept = {} /\ Role \cap Dept = {}

Field == {"gone", "name", "password"}
Writer == Req \cup {None}
Row == [gone : BOOLEAN, name : Writer, password : Writer]
Link == [dept : Dept, by : Req]
Place == {"token", "grants", "func", "begin", "found", "walletless", "saved", "cleared",
          "done", "refused"}

\* Reads whose failure goes unnoticed.
Read == {"user", "grants", "func", "wallet"}

\* A request: the functions granted to its sender, the row it read, the links
\* it deleted, the wallet it found, the requests answered before it came, and
\* those of its reads that failed.
Call == [at : Place, q : Request, funcs : SUBSET Func, copy : Row \cup {None},
         cleared : SUBSET Link, wallet : Nat, before : SUBSET Req, failed : SUBSET Read]

ASSUME NoneAssumption == None \notin Row /\ None \notin Call

VARIABLES
  row,       \* row[e] : the row of a user, a role or a department, or None
  links,     \* links[u] : u's rows of admin_portal_dept_user
  wallet,    \* rows of admin_portal_user_wallet
  lastWallet, \* the last id given to one
  userRole,  \* rows of admin_portal_user_role
  roleFunc,  \* rows of admin_portal_role_func
  req,       \* req[r] : where request r is, or None before it
  seen,      \* seen[r] : what was true at some moment of r's check (history)
  moved      \* moved[r] : fields of r's row changed since r came (history)

tables == <<row, links, wallet, lastWallet, userRole, roleFunc>>
vars == <<tables, req, seen, moved>>

Entity == User \cup Role \cup Dept

NewRow(by) == [gone |-> FALSE, name |-> by, password |-> by]

Init == /\ row = [e \in Entity |-> IF e \in InitRows THEN NewRow(None) ELSE None]
        /\ links = [u \in User |-> {}]
        /\ wallet = {} /\ lastWallet = 0
        /\ userRole = InitUserRole /\ roleFunc = InitRoleFunc
        /\ req = [r \in Req |-> None]
        /\ seen = [r \in Req |-> {}] /\ moved = [r \in Req |-> {}]

At(r, place) == req[r] # None /\ req[r].at = place
Doing(r, ops) == req[r] # None /\ req[r].q.op \in ops
Goes(r, place) == req' = [req EXCEPT ![r].at = place]

WalletsOf(u) == {w \in wallet : w.user = u}

----------------------------------------------------------------------------
\* A request with somebody's token: login looks at no flag, so anybody may
\* have one.
Ask(r, q) ==
  /\ req[r] = None
  /\ req' = [req EXCEPT ![r] =
       [at |-> "token", q |-> q, funcs |-> {}, copy |-> None, cleared |-> {},
        wallet |-> 0, before |-> {s \in Req : At(s, "done")}, failed |-> {}]]
  /\ UNCHANGED tables

Live(u) == row[u] # None /\ ~row[u].gone

GrantsForeign(u) ==  \* mutant: the roles of everybody
  {f \in Func : \E x \in Role, v \in User : <<v, x>> \in userRole /\ <<x, f>> \in roleFunc}

\* The join of functions, role bindings and user bindings; flags of role and
\* function play no part.
Grants(u) ==
  {f \in Func : \E x \in Role : <<u, x>> \in userRole /\ <<x, f>> \in roleFunc}

\* TokenInterceptor reads the user, whose id is 0 if the read fails, ...
TokenCheckUser(r) ==
  /\ At(r, "token")
  /\ \/ Goes(r, IF ~Live(req[r].q.who) THEN "refused"
                ELSE IF req[r].q.who \in Super THEN "begin" ELSE "grants")
     \/ req' = [req EXCEPT ![r].at = "refused", ![r].failed = @ \cup {"user"}]
  /\ UNCHANGED tables

\* ... the functions granted, of which a failed read leaves what it has got, ...
TokenCheckGrants(r) ==
  /\ At(r, "grants")
  /\ \E funcs \in SUBSET Grants(req[r].q.who), failed \in SUBSET {"grants"} :
       /\ failed = {} => funcs = Grants(req[r].q.who)
       /\ req' = [req EXCEPT ![r].at = "func", ![r].funcs = funcs,
                            ![r].failed = @ \cup failed]
  /\ UNCHANGED tables

\* The function of a handler is found by the address as it was written.
Registered(r) == LET q == req[r].q IN
  Needs[q.op] # None /\ (q.uri = "exact" \/ (q.uri = "extended" /\ q.op \in SplitOp))

SameFunction(f, g) == f = g  \* mutant: functions are compared, not permissions

SamePermission(f, g) == PermCode[f] = PermCode[g]

\* ... and the function asked for; if it finds none, or the read fails, the
\* request may go on.  (No handler changes the functions.)
TokenCheckFunc(r) ==
  /\ At(r, "func")
  /\ LET permitted == \E f \in req[r].funcs : SamePermission(f, Needs[req[r].q.op]) IN
     \/ req' = [req EXCEPT ![r].funcs = {},
                 ![r].at = IF Registered(r) => permitted THEN "begin" ELSE "refused"]
     \/ req' = [req EXCEPT ![r].funcs = {}, ![r].at = "begin",
                            ![r].failed = @ \cup {"func"}]
  /\ UNCHANGED tables

Begins(r, op) == At(r, "begin") /\ Doing(r, {op})

----------------------------------------------------------------------------
\* Locks of the two transactions on user u that last over a step.
HoldsRow(s, u) == /\ Doing(s, {"user_update", "user_delete"}) /\ req[s].q.on = u
                  /\ \/ Doing(s, {"user_update"}) /\ req[s].at \in {"saved", "cleared"}
                     \/ Doing(s, {"user_delete"}) /\ req[s].at = "saved"

HoldsLinks(s, u) == /\ Doing(s, {"user_update", "user_delete"}) /\ req[s].q.on = u
                    /\ req[s].cleared # {} /\ req[s].at \in {"cleared", "saved"}

RowFree(r, u) == \A s \in Req \ {r} : ~HoldsRow(s, u)
LinksFree(r, u) == \A s \in Req \ {r} : ~HoldsLinks(s, u)

\* Handlers that read one row and save it: the fields each one changes.
RoleUpdated(x, r) == [x EXCEPT !.name = r]
RoleDeleted(x, r) == [x EXCEPT !.gone = TRUE]
DeptUpdated(x, r) == [x EXCEPT !.name = r]
DeptDeleted(x, r) == [x EXCEPT !.gone = TRUE]
UserUpdatedAfresh(x, r) ==  \* mutant: the row is built anew
  [x EXCEPT !.name = r, !.gone = FALSE]
UserUpdated(x, r) == [x EXCEPT !.name = r]
UserDeleted(x, r) == [x EXCEPT !.gone = TRUE]
PasswordResetTo(x, r) == [x EXCEPT !.password = r]

Saved(r) ==
  LET op == req[r].q.op  x == req[r].copy IN
  CASE op = "role_update" -> RoleUpdated(x, r)
    [] op = "role_delete" -> RoleDeleted(x, r)
    [] op = "dept_update" -> DeptUpdated(x, r)
    [] op = "dept_delete" -> DeptDeleted(x, r)
    [] op = "user_update" -> UserUpdated(x, r)
    [] op = "user_delete" -> UserDeleted(x, r)
    [] op = "password" -> PasswordResetTo(x, r)

SaveOps == {"role_update", "role_delete", "dept_update", "dept_delete", "password"}

\* First: the row, whatever its flag; UserDelete refuses a super_admin.
FindRow(r) ==
  /\ At(r, "begin") /\ Doing(r, SaveOps \cup {"user_update", "user_delete"})
  /\ LET e == req[r].q.on IN
     req' = [req EXCEPT ![r].copy = row[e],
       ![r].at = IF row[e] = None \/ (Doing(r, {"user_delete"}) /\ e \in Super)
                 THEN "refused" ELSE "found"]
  /\ UNCHANGED tables

\* Save, outside a transaction: every field of the row.
SaveRow(r) ==
  /\ At(r, "found") /\ Doing(r, SaveOps) /\ RowFree(r, req[r].q.on)
  /\ row' = [row EXCEPT ![req[r].q.on] = Saved(r)]
  /\ Goes(r, "done")
  /\ UNCHANGED <<links, wallet, lastWallet, userRole, roleFunc>>

CreateOps == {"role_create", "dept_create", "user_add"}
Fresh(op) == CASE op = "role_create" -> Role [] op = "dept_create" -> Dept
               [] op = "user_add" -> User

\* RoleCreate; DeptCreate, unless the name is taken; UserAdd, which nobody
\* sees anything of before it commits the user and its departments.
Create(r) ==
  /\ At(r, "begin") /\ Doing(r, CreateOps)
  /\ \E e \in Fresh(req[r].q.op) :
       /\ row[e] = None
       /\ row' = [row EXCEPT ![e] = NewRow(r)]
       /\ links' = IF e \notin User THEN links
                   ELSE [links EXCEPT ![e] = {[dept |-> d, by |-> r] : d \in req[r].q.arg}]
  /\ Goes(r, "done")
  /\ UNCHANGED <<wallet, lastWallet, userRole, roleFunc>>

----------------------------------------------------------------------------
UserUpdateSaveFree(r) ==  \* mutant: the row is saved without its lock
  /\ At(r, "found") /\ Doing(r, {"user_update"})
  /\ Goes(r, "saved")
  /\ UNCHANGED tables

\* UserUpdate: Save locks the row, ...
UserUpdateSave(r) ==
  /\ At(r, "found") /\ Doing(r, {"user_update"}) /\ RowFree(r, req[r].q.on)
  /\ Goes(r, "saved")
  /\ UNCHANGED tables

\* ... the departments so far are deleted, ...
UserUpdateClear(r) ==
  /\ At(r, "saved") /\ Doing(r, {"user_update"}) /\ LinksFree(r, req[r].q.on)
  /\ req' = [req EXCEPT ![r].at = "cleared", ![r].cleared = links[req[r].q.on]]
  /\ UNCHANGED tables

\* ... the new ones inserted, and all is committed.
UserUpdateCommit(r) ==
  /\ At(r, "cleared") /\ Doing(r, {"user_update"})
  /\ row' = [row EXCEPT ![req[r].q.on] = Saved(r)]
  /\ links' = [links EXCEPT ![req[r].q.on] =
       (@ \ req[r].cleared) \cup {[dept |-> d, by |-> r] : d \in req[r].q.arg}]
  /\ Goes(r, "done")
  /\ UNCHANGED <<wallet, lastWallet, userRole, roleFunc>>

\* UserDelete goes the other way: departments, row, wallets.
UserDeleteClear(r) ==
  /\ At(r, "found") /\ Doing(r, {"user_delete"}) /\ LinksFree(r, req[r].q.on)
  /\ req' = [req EXCEPT ![r].at = "cleared", ![r].cleared = links[req[r].q.on]]
  /\ UNCHANGED tables

UserDeleteSave(r) ==
  /\ At(r, "cleared") /\ Doing(r, {"user_delete"}) /\ RowFree(r, req[r].q.on)
  /\ Goes(r, "saved")
  /\ UNCHANGED tables

UserDeleteCommit(r) ==
  /\ At(r, "saved") /\ Doing(r, {"user_delete"})
  /\ row' = [row EXCEPT ![req[r].q.on] = Saved(r)]
  /\ links' = [links EXCEPT ![req[r].q.on] = @ \ req[r].cleared]
  /\ wallet' = wallet \ WalletsOf(req[r].q.on)
  /\ Goes(r, "done")
  /\ UNCHANGED <<lastWallet, userRole, roleFunc>>

\* A row looked for is not there, a statement fails, a lock is waited for too
\* long, or the database breaks a deadlock: a transaction is rolled back, and
\* nothing is changed.  (The handlers of roles and departments do not look
\* at the error of Save and answer success.)
Fail(r) ==
  /\ req[r] # None /\ req[r].at \in {"begin", "found", "walletless", "saved", "cleared"}
  /\ Goes(r, "refused")
  /\ UNCHANGED tables

----------------------------------------------------------------------------
\* StaffWallet (the settings and the address are valid): the user of any
\* flag, ...
StaffWalletUser(r) ==
  /\ Begins(r, "wallet")
  /\ Goes(r, IF row[req[r].q.on] = None THEN "refused" ELSE "found")
  /\ UNCHANGED tables

StaffWalletFindNothing(r) ==  \* mutant: the wallet there is not found
  /\ At(r, "found") /\ Doing(r, {"wallet"})
  /\ Goes(r, "walletless")
  /\ UNCHANGED tables

FirstWallet(u) == LET mine == {w.id : w \in WalletsOf(u)} IN
  IF mine = {} THEN 0 ELSE CHOOSE i \in mine : \A j \in mine : i <= j

\* ... its first wallet, none if the read fails, ...
StaffWalletFind(r) ==
  /\ At(r, "found") /\ Doing(r, {"wallet"})
  /\ \E failed \in SUBSET {"wallet"} :
       req' = [req EXCEPT ![r].at = "walletless", ![r].failed = @ \cup failed,
         ![r].wallet = IF failed = {} THEN FirstWallet(req[r].q.on) ELSE 0]
  /\ UNCHANGED tables

StaffWalletInsert(r) ==  \* mutant: the row with the id stays
  /\ At(r, "walletless") /\ Doing(r, {"wallet"})
  /\ LET id == IF req[r].wallet = 0 THEN lastWallet + 1 ELSE req[r].wallet IN
     /\ wallet' = wallet \cup {[id |-> id, user |-> req[r].q.on, by |-> r]}
     /\ lastWallet' = IF id > lastWallet THEN id ELSE lastWallet
  /\ Goes(r, "done")
  /\ UNCHANGED <<row, links, userRole, roleFunc>>

\* ... and Save: an insert without an id; with one an update, or an insert
\* again if the row has gone.  (by: who inserted it.)
StaffWalletSave(r) ==
  /\ At(r, "walletless") /\ Doing(r, {"wallet"})
  /\ LET id == IF req[r].wallet = 0 THEN lastWallet + 1 ELSE req[r].wallet IN
     /\ IF \E w \in wallet : w.id = id THEN UNCHANGED wallet
        ELSE wallet' = wallet \cup {[id |-> id, user |-> req[r].q.on, by |-> r]}
     /\ lastWallet' = IF id > lastWallet THEN id ELSE lastWallet
  /\ Goes(r, "done")
  /\ UNCHANGED <<row, links, userRole, roleFunc>>

----------------------------------------------------------------------------
\* RoleFuncBind, RoleUserBind and their reverses.  The rows they look for
\* are never removed, so the look and the statement are one step.
RoleFuncBind(r) ==
  /\ Begins(r, "bind_func") /\ row[req[r].q.on] # None
  /\ roleFunc' = roleFunc \cup {<<req[r].q.on, req[r].q.arg>>}
  /\ Goes(r, "done")
  /\ UNCHANGED <<row, links, wallet, lastWallet, userRole>>

RoleUserBind(r) ==
  /\ Begins(r, "bind_user") /\ row[req[r].q.on] # None /\ row[req[r].q.arg] # None
  /\ userRole' = userRole \cup {<<req[r].q.arg, req[r].q.on>>}
  /\ Goes(r, "done")
  /\ UNCHANGED <<row, links, wallet, lastWallet, roleFunc>>

RoleFuncUnbind(r) ==
  /\ Begins(r, "unbind_func") /\ row[req[r].q.on] # None
  /\ roleFunc' = roleFunc \ {<<req[r].q.on, req[r].q.arg>>}
  /\ Goes(r, IF roleFunc' = roleFunc THEN "refused" ELSE "done")
  /\ UNCHANGED <<row, links, wallet, lastWallet, userRole>>

RoleUserUnbind(r) ==
  /\ Begins(r, "unbind_user") /\ row[req[r].q.on] # None /\ row[req[r].q.arg] # None
  /\ userRole' = userRole \ {<<req[r].q.arg, req[r].q.on>>}
  /\ Goes(r, IF userRole' = userRole THEN "refused" ELSE "done")
  /\ UNCHANGED <<row, links, wallet, lastWallet, roleFunc>>

----------------------------------------------------------------------------
Step(r) ==
  \/ TokenCheckUser(r) \/ TokenCheckGrants(r) \/ TokenCheckFunc(r)
  \/ FindRow(r) \/ SaveRow(r) \/ Create(r) \/ Fail(r)
  \/ UserUpdateSave(r) \/ UserUpdateClear(r) \/ UserUpdateCommit(r)
  \/ UserDeleteClear(r) \/ UserDeleteSave(r) \/ UserDeleteCommit(r)
  \/ StaffWalletUser(r) \/ StaffWalletFind(r) \/ StaffWalletSave(r)
  \/ RoleFuncBind(r) \/ RoleUserBind(r) \/ RoleFuncUnbind(r) \/ RoleUserUnbind(r)

\* What holds now of the sender of r.
Facts(r) ==
  LET who == req[r].q.who  needs == Needs[req[r].q.op] IN
  {IF Live(who) THEN "live" ELSE "dead",
   IF needs # None /\ \E x \in Role, f \in Func :
        <<who, x>> \in userRole /\ <<x, f>> \in roleFunc /\ PermCode[f] = PermCode[needs]
   THEN "granted" ELSE "ungranted"}

InCheck(r) == At(r, "token") \/ At(r, "grants") \/ At(r, "func")

ChangedFields(e) ==
  IF e \notin Entity \/ row[e] = None \/ row'[e] = None THEN {}
  ELSE {f \in Field : row'[e][f] # row[e][f]}

Observe ==
  /\ seen' = [r \in Req |-> IF InCheck(r)' THEN seen[r] \cup Facts(r)' ELSE seen[r]]
  /\ moved' = [r \in Req |-> IF req[r] = None THEN {}
                             ELSE moved[r] \cup ChangedFields(req[r].q.on)]

Next == /\ \E r \in Req : (\E q \in Request : Ask(r, q)) \/ Step(r)
        /\ Observe

Spec == Init /\ [][Next]_vars

----------------------------------------------------------------------------
\* State is well-formed, and ids of wallets are not given out twice.
TypeOK ==
  /\ row \in [Entity -> Row \cup {None}]
  /\ links \in [User -> SUBSET Link]
  /\ wallet \subseteq [id : 1..lastWallet, user : User, by : Req]
  /\ \A v, w \in wallet : v.id = w.id => v = w
  /\ lastWallet \in Nat
  /\ userRole \subseteq User \X Role /\ roleFunc \subseteq Role \X Func
  /\ req \in [Req -> Call \cup {None}]
  /\ \A r \in Req : req[r] # None => req[r].wallet \in 0..lastWallet

\* After the check of the sender of r.
Admitted(r) == req[r] # None /\ ~InCheck(r) /\ req[r].at # "refused"

\* Whoever is let through was, while the check ran, an undeleted user and,
\* unless a super_admin, somebody with the permission of what was asked (both
\* not always at one moment: TokenInterceptor reads twice), or asked for it by
\* an address that no function is registered for, or the read of the function
\* failed.  So for requests of the registered address a deletion holds always,
\* and an unbinding unless that read fails.
AdmittedOnEvidence ==
  \A r \in Req : Admitted(r) =>
    /\ "live" \in seen[r]
    /\ \/ req[r].q.who \in Super \/ "granted" \in seen[r]
       \/ ~Registered(r) \/ "func" \in req[r].failed

\* Whoever is turned away by the check was, while it ran, deleted or without
\* the permission that the registered address needs, unless the read of the
\* user or of the grants failed: a binding holds for every request after it
\* whose reads succeed.
RefusedOnEvidence ==
  [][\A r \in Req : (InCheck(r) /\ At(r, "refused")') =>
       \/ "dead" \in seen[r] \/ "user" \in req'[r].failed
       \/ /\ req[r].q.who \notin Super /\ Registered(r) /\ "func" \notin req'[r].failed
          /\ "ungranted" \in seen[r] \/ "grants" \in req'[r].failed]_vars

\* The departments of a user are the whole list of one request, although two
\* UserUpdates delete and insert side by side (the row lock orders them).
LinksOfOneRequest ==
  \A u \in User : \A x \in links[u] :
    {y.dept : y \in links[u]} = req[x.by].q.arg /\ \A y \in links[u] : y.by = x.by

\* The fields of a row a handler is there to change.
Own(op) == CASE op \in {"role_update", "dept_update", "user_update"} -> {"name"}
             [] op \in {"role_delete", "dept_delete", "user_delete"} -> {"gone"}
             [] op = "password" -> {"password"}
             [] OTHER -> {}

\* A saved row overwrites a field that is not the handler's own only if that
\* was changed while the handler ran: so a deleted user, role or department
\* comes back, and a new password is lost, in a race only, never by a request
\* that came afterwards.
OnlyRacesUndo ==
  [][\A r \in Req : (req[r] # None /\ row' # row /\ req[r].at # "done" /\ At(r, "done")') =>
       ChangedFields(req[r].q.on) \subseteq Own(req[r].q.op) \cup moved[r]]_vars

\* A user has two wallets, and so is on the staff list twice, only if the
\* StaffWallet requests that inserted them ran side by side, or the later one
\* could not read the wallets.
SecondWalletNeedsRace ==
  \A v, w \in wallet : (v.user = w.user /\ v # w /\ v.by \in req[w.by].before) =>
    "wallet" \in req[w.by].failed
=============================================================================
