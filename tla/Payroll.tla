------------------------------ MODULE Payroll ------------------------------
(***************************************************************************)
(* The payroll handlers of cmd/modapi/http/portal/admin.go over the tables *)
(* admin_portal_payroll and admin_portal_payslip.                          *)
(*                                                                         *)
(* Every handler runs in a goroutine of its own.  Most of them read the    *)
(* payroll row, check the status of that copy, change the copy, and write  *)
(* all its columns back with db.Save.  Nothing locks the row in between    *)
(* and no version is compared, so each database call is a step of its own  *)
(* here, and the other requests run between them.  A request that is       *)
(* refused or fails before its write just ends (Abort); a request refused  *)
(* by its first read leaves no trace at all and is no step.                *)
(***************************************************************************)
EXTENDS Integers

CONSTANTS
  Req,            \* slots for requests in flight
  PayrollId,      \* ids of payroll rows; rows are never removed
  Month,          \* roll_month
  Item,           \* payslip items a request can carry
  HexItem,        \* those whose wallet_address passes IsHexAddress
  Body,           \* contents of create and update requests
  TxHash, Chain,  \* values of the columns tx_hash and chain
  SupportedChain, \* chains CheckValidChainCode and the gateway know
  NoRow, NoId, NoPayment, Idle

\* The texts of the column status the handlers know; "" stands for all others.
Status == {"", "create", "waiting_approval", "approved", "rejected",
           "paying", "paid"}

Approved == {"approved", "paying", "paid"}

Payment == TxHash \X Chain

\* body stands for the columns copied from the request (roll_month and
\* total_amount), payment for tx_hash and chain, which Pay writes together.
\* claim is history and no column: the status that the request which gave this
\* version of the row its body asked for.  It goes where the copy goes.
Row == [body : Body, flag : {0, 1}, status : Status,
        payment : Payment \cup {NoPayment}, claim : Status]

\* A payslip holds an item of the request that inserted it.
Slip == [payroll : PayrollId, body : Body, item : Item]

\* A request in flight: the call it makes next, its payroll, and its copy of
\* the row with the changes made so far.
SaveAt == {"delete_save", "submit_save", "audit_save", "pay_save", "check_save"}
ReadAt == {"submit_slips", "pay_settings", "check_receipt"}
Job == [at : {"create_insert"}, id : {NoId}, row : Row]
         \cup [at : SaveAt \cup ReadAt \cup {"update_commit"},
               id : PayrollId, row : Row]

ASSUME PayrollAssumption ==
  /\ Body \subseteq [month : Month, items : SUBSET Item]
  /\ HexItem \subseteq Item
  /\ SupportedChain \subseteq Chain
  /\ NoRow \notin Row
  /\ NoPayment \notin Payment
  /\ NoId \notin PayrollId
  /\ Idle \notin Job

VARIABLES
  payroll,   \* payroll[p] : row p, or NoRow
  slips,     \* the rows of admin_portal_payslip
  job,       \* job[r] : the request in slot r, or Idle
  confirmed, \* payments some chain has included with status 0x1
  approvals  \* payrolls an audit request has saved as approved (history)

vars == <<payroll, slips, job, confirmed, approvals>>

TypeOK == /\ payroll \in [PayrollId -> Row \cup {NoRow}]
          /\ slips \subseteq Slip
          /\ job \in [Req -> Job \cup {Idle}]
          /\ confirmed \subseteq Payment
          /\ approvals \subseteq PayrollId

Init == /\ payroll = [p \in PayrollId |-> NoRow]
        /\ slips = {}
        /\ job = [r \in Req |-> Idle]
        /\ confirmed = {}
        /\ approvals = {}

----------------------------------------------------------------------------
\* The steps requests are made of.

Start(r, at, p, row) ==
  /\ job[r] = Idle
  /\ job' = [job EXCEPT ![r] = [at |-> at, id |-> p, row |-> row]]

Continue(r, at, row) ==
  job' = [job EXCEPT ![r] = [@ EXCEPT !.at = at, !.row = row]]

Finish(r) == job' = [job EXCEPT ![r] = Idle]

At(r, at) == job[r] # Idle /\ job[r].at = at

\* db.First(&payroll, id) found the row, in status s; the flag is not asked.
Reads(p, s) == payroll[p] # NoRow /\ payroll[p].status = s

SlipsOf(p) == {s \in slips : s.payroll = p}
SlipsFrom(p, b) == {[payroll |-> p, body |-> b, item |-> i] : i \in b.items}

WrittenStatusOnly(r) ==  \* mutant: only the column status is written
  [payroll EXCEPT ![job[r].id].status = job[r].row.status]

\* db.Save(&payroll): UPDATE of every column.
Written(r) == [payroll EXCEPT ![job[r].id] = job[r].row]

----------------------------------------------------------------------------
\* PortalPayrollCreate: one transaction, a snapshot read and the inserts.

NewRowMisspelt(b) ==  \* mutant: a status no handler knows
  [body |-> b, flag |-> 0, status |-> "created", payment |-> NoPayment,
   claim |-> "create"]

NewRow(b) == [body |-> b, flag |-> 0, status |-> "create", payment |-> NoPayment,
              claim |-> "create"]

\* A payroll that takes its month: no create request for the month passes.
TakesMonth(p, m) ==
  /\ payroll[p] # NoRow
  /\ payroll[p].body.month = m
  /\ payroll[p].status \notin {"rejected", "paid"}

MonthFreeOfDrafts(m) ==  \* mutant: only drafts are looked for
  \A p \in PayrollId : ~(TakesMonth(p, m) /\ payroll[p].status = "create")
MonthFree(m) == \A p \in PayrollId : ~TakesMonth(p, m)

CreateCheck(r, b) ==
  /\ MonthFree(b.month)
  /\ Start(r, "create_insert", NoId, NewRow(b))
  /\ UNCHANGED <<payroll, slips, confirmed, approvals>>

CreateInsert(r) ==
  /\ At(r, "create_insert")
  /\ \E p \in PayrollId :
       /\ payroll[p] = NoRow
       /\ payroll' = [payroll EXCEPT ![p] = job[r].row]
       /\ slips' = slips \cup SlipsFrom(p, job[r].row.body)
  /\ Finish(r)
  /\ UNCHANGED <<confirmed, approvals>>

----------------------------------------------------------------------------
\* PortalPayrollUpdate: the read, then one transaction that saves the row and
\* replaces the slips.  The saved row stays locked until the commit.  The
\* status is the one the request carries, and any is accepted.

Edited(p, b, s) == [payroll[p] EXCEPT !.body = b, !.status = s, !.claim = s]

UpdateBegin(r, p, b, s) ==
  /\ Reads(p, "create")
  /\ Start(r, "update_commit", p, Edited(p, b, s))
  /\ UNCHANGED <<payroll, slips, confirmed, approvals>>

ReplacedNoDelete(p, b) == slips \cup SlipsFrom(p, b)  \* mutant

Replaced(p, b) == (slips \ SlipsOf(p)) \cup SlipsFrom(p, b)

UpdateCommit(r) ==
  /\ At(r, "update_commit")
  /\ payroll' = Written(r)
  /\ slips' = Replaced(job[r].id, job[r].row.body)
  /\ Finish(r)
  /\ UNCHANGED <<confirmed, approvals>>

----------------------------------------------------------------------------
\* PortalPayrollDelete, Submit, Audit, Pay, StatusCheck: read, check, Save.

DeleteBegin(r, p) ==
  /\ Reads(p, "create")
  /\ Start(r, "delete_save", p, [payroll[p] EXCEPT !.flag = 1])
  /\ UNCHANGED <<payroll, slips, confirmed, approvals>>

SubmitBegin(r, p) ==
  /\ Reads(p, "create")
  /\ Start(r, "submit_slips", p, payroll[p])
  /\ UNCHANGED <<payroll, slips, confirmed, approvals>>

SubmitSlipsAny(r) ==  \* mutant: one valid address is enough
  /\ At(r, "submit_slips")
  /\ \E s \in SlipsOf(job[r].id) : s.item \in HexItem
  /\ Continue(r, "submit_save", [job[r].row EXCEPT !.status = "waiting_approval"])
  /\ UNCHANGED <<payroll, slips, confirmed, approvals>>

SubmitSlips(r) ==
  /\ At(r, "submit_slips")
  /\ SlipsOf(job[r].id) # {}
  /\ \A s \in SlipsOf(job[r].id) : s.item \in HexItem
  /\ Continue(r, "submit_save", [job[r].row EXCEPT !.status = "waiting_approval"])
  /\ UNCHANGED <<payroll, slips, confirmed, approvals>>

AuditBeginDraft(r, p) ==  \* mutant: a draft can be audited
  /\ payroll[p] # NoRow /\ payroll[p].status \in {"create", "waiting_approval"}
  /\ \E s \in {"approved", "rejected"} :
       Start(r, "audit_save", p, [payroll[p] EXCEPT !.status = s])
  /\ UNCHANGED <<payroll, slips, confirmed, approvals>>

\* op is "approve" or "reject"; any other op is refused.
AuditBegin(r, p) ==
  /\ Reads(p, "waiting_approval")
  /\ \E s \in {"approved", "rejected"} :
       Start(r, "audit_save", p, [payroll[p] EXCEPT !.status = s])
  /\ UNCHANGED <<payroll, slips, confirmed, approvals>>

PayBeginUnlessRejected(r, p) ==  \* mutant: anything but a refused payroll is paid
  /\ payroll[p] # NoRow /\ payroll[p].status # "rejected"
  /\ Start(r, "pay_settings", p, payroll[p])
  /\ UNCHANGED <<payroll, slips, confirmed, approvals>>

PayBegin(r, p) ==
  /\ Reads(p, "approved")
  /\ Start(r, "pay_settings", p, payroll[p])
  /\ UNCHANGED <<payroll, slips, confirmed, approvals>>

\* The settings are complete (IsValid) and name chain c; h is the tx_hash of
\* the request.  Settings are saved by other requests at any time.
PaySettings(r, h, c) ==
  /\ At(r, "pay_settings")
  /\ Continue(r, "pay_save", [job[r].row EXCEPT !.status = "paying",
                                                !.payment = <<h, c>>])
  /\ UNCHANGED <<payroll, slips, confirmed, approvals>>

CheckBeginUnsupported(r, p) ==  \* mutant: the chain check is inverted
  /\ Reads(p, "paying")
  /\ payroll[p].payment # NoPayment
  /\ payroll[p].payment[2] \notin SupportedChain
  /\ Start(r, "check_receipt", p, payroll[p])
  /\ UNCHANGED <<payroll, slips, confirmed, approvals>>

\* CheckValidChainCode refuses an empty chain and those it does not know.
CheckBegin(r, p) ==
  /\ Reads(p, "paying")
  /\ payroll[p].payment # NoPayment
  /\ payroll[p].payment[2] \in SupportedChain
  /\ Start(r, "check_receipt", p, payroll[p])
  /\ UNCHANGED <<payroll, slips, confirmed, approvals>>

ReceiptFound(r) == job[r].row.payment \in Payment  \* mutant: status not asked

\* GetTransaction answers with a receipt whose status is "0x1".
ReceiptOk(r) == job[r].row.payment \in confirmed

CheckReceipt(r) ==
  /\ At(r, "check_receipt")
  /\ ReceiptOk(r)
  /\ Continue(r, "check_save", [job[r].row EXCEPT !.status = "paid"])
  /\ UNCHANGED <<payroll, slips, confirmed, approvals>>

\* The payroll a saved audit approves.
Approves(r) == IF At(r, "audit_save") /\ job[r].row.status = "approved"
               THEN {job[r].id} ELSE {}

Save(r) ==
  /\ \E at \in SaveAt : At(r, at)
  /\ payroll' = Written(r)
  /\ approvals' = approvals \cup Approves(r)
  /\ Finish(r)
  /\ UNCHANGED <<slips, confirmed>>

\* A request ends without its write: a call fails, a later check refuses it
\* (no slips, a bad address, incomplete settings, no receipt or a failed
\* one), or the server stops.  The transaction of Create is rolled back.
Abort(r) ==
  /\ job[r] # Idle
  /\ Finish(r)
  /\ UNCHANGED <<payroll, slips, confirmed, approvals>>

\* PortalPayrollStaffDelete removes one slip by its id, whatever the status
\* of the payroll; if it is gone by then, nothing happens.
StaffDelete(r) ==
  /\ job[r] = Idle
  /\ \E s \in slips : slips' = slips \ {s}
  /\ UNCHANGED <<payroll, job, confirmed, approvals>>

\* The chain includes a transaction successfully.
Confirm(x) ==
  /\ confirmed' = confirmed \cup {x}
  /\ UNCHANGED <<payroll, slips, job, approvals>>

----------------------------------------------------------------------------
Begin(r, p) ==
  \/ \E b \in Body, s \in Status : UpdateBegin(r, p, b, s)
  \/ DeleteBegin(r, p)
  \/ SubmitBegin(r, p)
  \/ AuditBegin(r, p)
  \/ PayBegin(r, p)
  \/ CheckBegin(r, p)

Step(r) ==
  \/ \E b \in Body : CreateCheck(r, b)
  \/ CreateInsert(r)
  \/ \E p \in PayrollId : Begin(r, p)
  \/ UpdateCommit(r)
  \/ SubmitSlips(r)
  \/ \E h \in TxHash, c \in Chain : PaySettings(r, h, c)
  \/ CheckReceipt(r)
  \/ Save(r)
  \/ Abort(r)
  \/ StaffDelete(r)

Next == (\E r \in Req : Step(r)) \/ (\E x \in Payment : Confirm(x))

Spec == Init /\ [][Next]_vars

\* Every request in flight goes on and ends: the handlers have no loops that
\* wait.  Clients keep asking for the status of a payroll, and neither the
\* database nor the node fails every call: each call of a status check that
\* may succeed again and again succeeds at last.
Polling ==
  /\ \A r \in Req : WF_vars(job[r] # Idle /\ Step(r))
  /\ \A p \in PayrollId :
      /\ SF_vars(\E r \in Req : CheckBegin(r, p))
      /\ SF_vars(\E r \in Req : CheckReceipt(r) /\ job[r].id = p)
      /\ SF_vars(\E r \in Req : Save(r) /\ job[r].id = p)

FairSpec == Spec /\ Polling

----------------------------------------------------------------------------
\* Properties of every interleaving.

\* A payroll is paid only if the chain confirmed the very transaction the row
\* records, whatever stale rows were written in between: a Save writes the
\* status together with tx_hash and chain, never one without the others.  The
\* one other way is an update request that says "paid" itself.
PaidConfirmed ==
  \A p \in PayrollId : Reads(p, "paid") =>
    payroll[p].payment \in confirmed \/ payroll[p].claim = "paid"

\* A row records a transaction exactly while the handlers have it paid out: no
\* interleaving leaves a "paying" row without tx_hash, for which the status
\* check could never succeed, nor a draft that carries one.  Only a row that an
\* update request declared "paying" or "paid" never carries one.
PaymentRecorded ==
  \A p \in PayrollId : payroll[p] # NoRow =>
    ((payroll[p].payment # NoPayment) <=>
       /\ payroll[p].status \in {"paying", "paid"}
       /\ payroll[p].claim \notin {"paying", "paid"})

\* Beyond the approval are only payrolls that an audit request approved, and
\* those an update request put there by its status: no interleaving of stale
\* copies takes a draft across.
ApprovedByAudit ==
  \A p \in PayrollId :
    payroll[p] # NoRow /\ payroll[p].status \in Approved
      => p \in approvals \/ payroll[p].claim \in Approved

\* The slips of a payroll come from one create or update request: concurrent
\* updates never leave the staff of both in it.
SlipsOneBatch ==
  \A s, t \in slips : s.payroll = t.payroll => s.body = t.body

----------------------------------------------------------------------------
\* Properties of one request at a time (Req has one element).

WorkflowStatus ==
  [p \in PayrollId |-> IF payroll[p] = NoRow THEN "none" ELSE payroll[p].status]
WorkflowPayment ==
  [p \in PayrollId |-> IF payroll[p] = NoRow THEN NoPayment ELSE payroll[p].payment]

Workflow == INSTANCE PayrollWorkflow
              WITH status <- WorkflowStatus, payment <- WorkflowPayment,
                   approved <- approvals

\* Each request that is accepted takes the payroll one step along the workflow,
\* in which an edit may give a draft any status.
ImplementsWorkflow == Workflow!Spec

\* The month and amount of a row and its slips come from the same request, so
\* that what is audited and paid is what the row announces.
SlipsOfRow ==
  \A s \in slips : payroll[s.payroll] # NoRow /\ s.body = payroll[s.payroll].body

\* A payroll that left the drafts by Submit has no slip with an invalid wallet
\* address; one that an update request gave another status was never checked.
SubmittedSlipsValid ==
  \A s \in slips :
    \/ payroll[s.payroll].status \in {"", "create"}
    \/ payroll[s.payroll].claim # "create"
    \/ s.item \in HexItem

\* A payroll is inserted only for a month that no other payroll takes.
InsertsFreshMonth ==
  \A p \in PayrollId : payroll[p] = NoRow /\ payroll'[p] # NoRow =>
    \A q \in PayrollId : ~TakesMonth(q, payroll'[p].body.month)
FreshMonth == [][InsertsFreshMonth]_vars

\* A recorded payment that is confirmed on a supported chain is settled.
ConfirmedIsSettled ==
  \A p \in PayrollId, x \in TxHash \X SupportedChain :
    (Reads(p, "paying") /\ payroll[p].payment = x /\ x \in confirmed)
      ~> Reads(p, "paid")

----------------------------------------------------------------------------
\* What a message of a handler says, and the handler does not ensure.

=============================================================================
