--------------------------- MODULE PayrollProofs ---------------------------
(***************************************************************************)
(* Proofs about Payroll for any number of requests, payrolls, contents,    *)
(* transactions and chains.                                                *)
(***************************************************************************)
EXTENDS Payroll, TLAPS

----------------------------------------------------------------------------
\* Type correctness.

LEMMA NewRowType ==
  ASSUME NEW b \in Body
  PROVE  NewRow(b) \in Row
BY DEF NewRow, Row, Status

LEMMA NewRowFields ==
  ASSUME NEW b
  PROVE  /\ NewRow(b).status = "create" /\ NewRow(b).claim = "create"
         /\ NewRow(b).payment = NoPayment
BY DEF NewRow

LEMMA SlipsFromType ==
  ASSUME NEW p \in PayrollId, NEW b \in Body
  PROVE  SlipsFrom(p, b) \subseteq Slip
BY PayrollAssumption DEF SlipsFrom, Slip

LEMMA SlipsFromFields ==
  ASSUME NEW p, NEW b, NEW s \in SlipsFrom(p, b)
  PROVE  s.payroll = p /\ s.body = b
BY DEF SlipsFrom

\* A request in a slot that is not idle is a Job.
LEMMA JobType ==
  ASSUME TypeOK, NEW r \in Req, job[r] # Idle
  PROVE  /\ job[r].row \in Row
         /\ job[r].row.body \in Body
         /\ job[r].at # "create_insert" =>
              /\ job[r].id \in PayrollId
              /\ job[r].at \in SaveAt \cup ReadAt \cup {"update_commit"}
BY DEF TypeOK, Job, Row

LEMMA StartType ==
  ASSUME TypeOK, NEW r \in Req, NEW p \in PayrollId, NEW row \in Row,
         NEW at \in SaveAt \cup ReadAt \cup {"update_commit"},
         Start(r, at, p, row)
  PROVE  job' \in [Req -> Job \cup {Idle}]
BY DEF TypeOK, Start, Job

LEMMA ContinueType ==
  ASSUME TypeOK, NEW r \in Req, job[r] # Idle, job[r].at # "create_insert",
         NEW row \in Row, NEW at \in SaveAt, Continue(r, at, row)
  PROVE  job' \in [Req -> Job \cup {Idle}]
<1>1. job[r] \in [at : SaveAt \cup ReadAt \cup {"update_commit"},
                  id : PayrollId, row : Row]
  BY DEF TypeOK, Job
<1> QED BY <1>1 DEF TypeOK, Continue, Job

LEMMA FinishType ==
  ASSUME TypeOK, NEW r \in Req, Finish(r)
  PROVE  job' \in [Req -> Job \cup {Idle}]
BY DEF TypeOK, Finish

LEMMA InitType == Init => TypeOK
BY DEF Init, TypeOK

LEMMA BeginType ==
  ASSUME TypeOK, NEW r \in Req, NEW p \in PayrollId, Begin(r, p)
  PROVE  TypeOK'
<1> USE DEF Reads
<1>1. ASSUME NEW b \in Body, NEW s \in Status, UpdateBegin(r, p, b, s)
      PROVE  TypeOK'
  <2>1. Edited(p, b, s) \in Row
    BY <1>1, PayrollAssumption DEF UpdateBegin, TypeOK, Row, Edited
  <2> QED BY <1>1, <2>1, StartType DEF UpdateBegin, TypeOK
<1>2. CASE DeleteBegin(r, p)
  <2>1. [payroll[p] EXCEPT !.flag = 1] \in Row
    BY <1>2 DEF DeleteBegin, TypeOK, Row
  <2> QED BY <1>2, <2>1, StartType DEF DeleteBegin, TypeOK, SaveAt
<1>3. CASE SubmitBegin(r, p)
  BY <1>3, StartType DEF SubmitBegin, TypeOK, ReadAt
<1>4. CASE AuditBegin(r, p)
  <2>1. PICK s \in {"approved", "rejected"} :
          Start(r, "audit_save", p, [payroll[p] EXCEPT !.status = s])
    BY <1>4 DEF AuditBegin
  <2>2. [payroll[p] EXCEPT !.status = s] \in Row
    BY <1>4 DEF AuditBegin, TypeOK, Row, Status
  <2>3. job' \in [Req -> Job \cup {Idle}]
    BY <2>1, <2>2, StartType DEF SaveAt
  <2> QED BY <1>4, <2>3 DEF AuditBegin, TypeOK
<1>5. CASE PayBegin(r, p)
  BY <1>5, StartType DEF PayBegin, TypeOK, ReadAt
<1>6. CASE CheckBegin(r, p)
  BY <1>6, StartType DEF CheckBegin, TypeOK, ReadAt
<1> QED BY <1>1, <1>2, <1>3, <1>4, <1>5, <1>6 DEF Begin

LEMMA StepType ==
  ASSUME TypeOK, NEW r \in Req, Step(r)
  PROVE  TypeOK'
<1> USE DEF At
<1>1. ASSUME NEW b \in Body, CreateCheck(r, b)
      PROVE  TypeOK'
  <2>1. [at |-> "create_insert", id |-> NoId, row |-> NewRow(b)] \in Job
    BY NewRowType DEF Job
  <2>2. job' \in [Req -> Job \cup {Idle}]
    BY <1>1, <2>1 DEF CreateCheck, Start, TypeOK
  <2> QED BY <1>1, <2>2 DEF CreateCheck, TypeOK
<1>2. CASE CreateInsert(r)
  <2>1. PICK p \in PayrollId :
          /\ payroll' = [payroll EXCEPT ![p] = job[r].row]
          /\ slips' = slips \cup SlipsFrom(p, job[r].row.body)
    BY <1>2 DEF CreateInsert
  <2>2. job[r].row \in Row /\ job[r].row.body \in Body
    BY <1>2, JobType DEF CreateInsert
  <2>3. SlipsFrom(p, job[r].row.body) \subseteq Slip
    BY <2>2, SlipsFromType
  <2> QED BY <1>2, <2>1, <2>2, <2>3, FinishType DEF CreateInsert, TypeOK
<1>3. ASSUME NEW p \in PayrollId, Begin(r, p)
      PROVE  TypeOK'
  BY <1>3, BeginType
<1>4. CASE UpdateCommit(r)
  <2>1. /\ job[r].row \in Row /\ job[r].row.body \in Body
        /\ job[r].id \in PayrollId
    BY <1>4, JobType DEF UpdateCommit
  <2>2. payroll' \in [PayrollId -> Row \cup {NoRow}]
    BY <1>4, <2>1 DEF UpdateCommit, Written, TypeOK
  <2>3. slips' \subseteq Slip
    <3>1. SlipsFrom(job[r].id, job[r].row.body) \subseteq Slip
      BY <2>1, SlipsFromType
    <3> QED BY <1>4, <3>1 DEF UpdateCommit, Replaced, TypeOK
  <2> QED BY <1>4, <2>2, <2>3, FinishType DEF UpdateCommit, TypeOK
<1>5. CASE SubmitSlips(r)
  <2>1. [job[r].row EXCEPT !.status = "waiting_approval"] \in Row
    BY <1>5, JobType DEF SubmitSlips, Row, Status
  <2> QED BY <1>5, <2>1, ContinueType DEF SubmitSlips, TypeOK, SaveAt
<1>6. ASSUME NEW h \in TxHash, NEW c \in Chain, PaySettings(r, h, c)
      PROVE  TypeOK'
  <2>1. [job[r].row EXCEPT !.status = "paying", !.payment = <<h, c>>] \in Row
    BY <1>6, JobType DEF PaySettings, Row, Status, Payment
  <2> QED BY <1>6, <2>1, ContinueType DEF PaySettings, TypeOK, SaveAt
<1>7. CASE CheckReceipt(r)
  <2>1. [job[r].row EXCEPT !.status = "paid"] \in Row
    BY <1>7, JobType DEF CheckReceipt, Row, Status
  <2> QED BY <1>7, <2>1, ContinueType DEF CheckReceipt, TypeOK, SaveAt
<1>8. CASE Save(r)
  <2>1. job[r] # Idle /\ job[r].row \in Row /\ job[r].id \in PayrollId
    BY <1>8, JobType DEF Save, SaveAt
  <2>2. payroll' \in [PayrollId -> Row \cup {NoRow}]
    BY <1>8, <2>1 DEF Save, Written, TypeOK
  <2>3. approvals' \subseteq PayrollId
    BY <1>8, <2>1 DEF Save, Approves, TypeOK
  <2> QED BY <1>8, <2>2, <2>3, FinishType DEF Save, TypeOK
<1>9. CASE Abort(r)
  BY <1>9, FinishType DEF Abort, TypeOK
<1>10. CASE StaffDelete(r)
  BY <1>10 DEF StaffDelete, TypeOK
<1> QED BY <1>1, <1>2, <1>3, <1>4, <1>5, <1>6, <1>7, <1>8, <1>9, <1>10 DEF Step

LEMMA NextType == TypeOK /\ [Next]_vars => TypeOK'
<1> SUFFICES ASSUME TypeOK, [Next]_vars
             PROVE  TypeOK'
  OBVIOUS
<1>1. ASSUME NEW x \in Payment, Confirm(x)
      PROVE  TypeOK'
  BY <1>1 DEF Confirm, TypeOK
<1>2. CASE UNCHANGED vars
  BY <1>2 DEF vars, TypeOK
<1> QED BY <1>1, <1>2, StepType DEF Next

\* Every behaviour of the handlers keeps its types: rows, slips and the copies
\* that requests hold are always rows the tables can store.
THEOREM PayrollTypeCorrect == Spec => []TypeOK
BY InitType, NextType, PTL DEF Spec

----------------------------------------------------------------------------
\* The safety of every interleaving.  The properties speak of the stored rows,
\* but a stored row is what some request wrote, and that is a copy that was
\* read earlier: the inductive invariant asks of each copy what it asks of the
\* rows, and of each request the status its check has seen.  Only the approval
\* an audit is about to save is not yet on record.  A row that an update
\* declared "paying" or "paid" stays as it is: no handler takes it further.

RowSafe(row) ==
  /\ row.status = "paid" => row.payment \in confirmed \/ row.claim = "paid"
  /\ (row.payment # NoPayment) <=> /\ row.status \in {"paying", "paid"}
                                   /\ row.claim \notin {"paying", "paid"}
  /\ row.claim \in {"paying", "paid"} => row.status = row.claim

RowApproved(p, row) ==
  row.status \in Approved => p \in approvals \/ row.claim \in Approved

RowsSafe == \A p \in PayrollId : payroll[p] # NoRow =>
              RowSafe(payroll[p]) /\ RowApproved(p, payroll[p])

JobSafe(r) ==
  IF job[r].at = "create_insert"
  THEN job[r].row = NewRow(job[r].row.body)
  ELSE /\ payroll[job[r].id] # NoRow
       /\ RowSafe(job[r].row)
       /\ job[r].at # "audit_save" => RowApproved(job[r].id, job[r].row)
       /\ job[r].at = "audit_save" => job[r].row.status \in {"approved", "rejected"}
       /\ job[r].at = "submit_slips" => job[r].row.status = "create"
       /\ job[r].at = "pay_settings" => job[r].row.status = "approved"
       /\ job[r].at = "check_receipt" => job[r].row.status = "paying"

JobsSafe == \A r \in Req : job[r] # Idle => JobSafe(r)

SlipsSafe == /\ \A s \in slips : payroll[s.payroll] # NoRow
             /\ SlipsOneBatch

SafeInv == TypeOK /\ RowsSafe /\ JobsSafe /\ SlipsSafe

\* What every step keeps: rows are not removed, and the payments confirmed
\* and the payrolls approved only grow.
Grows == /\ \A p \in PayrollId : payroll[p] # NoRow => payroll'[p] # NoRow
         /\ confirmed \subseteq confirmed'
         /\ approvals \subseteq approvals'

LEMMA RowSafeGrows ==
  ASSUME Grows, NEW row
  PROVE  /\ RowSafe(row) => RowSafe(row)'
         /\ \A p : RowApproved(p, row) => RowApproved(p, row)'
BY DEF Grows, RowSafe, RowApproved

\* A step of one request leaves the others as safe as they were.
LEMMA OthersSafe ==
  ASSUME SafeInv, Grows, NEW r \in Req,
         \A q \in Req \ {r} : job'[q] = job[q],
         job'[r] # Idle => JobSafe(r)'
  PROVE  JobsSafe'
<1> SUFFICES ASSUME NEW q \in Req, job'[q] # Idle
             PROVE  JobSafe(q)'
  BY DEF JobsSafe
<1>1. CASE q = r
  BY <1>1
<1>2. CASE q # r
  <2>1. job'[q] = job[q] /\ job[q] # Idle /\ JobSafe(q)
    BY <1>2 DEF SafeInv, JobsSafe
  <2>2. CASE job[q].at = "create_insert"
    BY <2>1, <2>2 DEF JobSafe
  <2>3. CASE job[q].at # "create_insert"
    <3>1. RowSafe(job[q].row)'
      BY <2>1, <2>3, RowSafeGrows DEF JobSafe
    <3>2. job[q].at # "audit_save" => RowApproved(job[q].id, job[q].row)'
      BY <2>1, <2>3, RowSafeGrows DEF JobSafe
    <3>3. payroll'[job[q].id] # NoRow
      BY <2>1, <2>3, JobType DEF JobSafe, SafeInv, Grows
    <3> QED BY <2>1, <2>3, <3>1, <3>2, <3>3 DEF JobSafe
  <2> QED BY <2>2, <2>3
<1> QED BY <1>1, <1>2

LEMMA StoredSafe ==
  ASSUME SafeInv, Grows, UNCHANGED payroll
  PROVE  RowsSafe'
<1> SUFFICES ASSUME NEW p \in PayrollId, payroll[p] # NoRow
             PROVE  (RowSafe(payroll[p]) /\ RowApproved(p, payroll[p]))'
  BY DEF RowsSafe
<1>1. RowSafe(payroll[p]) /\ RowApproved(p, payroll[p])
  BY DEF SafeInv, RowsSafe
<1> QED BY <1>1 DEF Grows, RowSafe, RowApproved

LEMMA InitSafe == Init => SafeInv
BY InitType DEF Init, SafeInv, RowsSafe, JobsSafe, SlipsSafe, SlipsOneBatch

\* The copy a request starts with, and the changes each handler makes to it.
LEMMA BeginSafe ==
  ASSUME SafeInv, NEW r \in Req, NEW p \in PayrollId, Begin(r, p)
  PROVE  SafeInv'
<1>0. /\ job[r] = Idle /\ payroll[p] # NoRow
      /\ UNCHANGED <<payroll, slips, confirmed, approvals>>
      /\ \A q \in Req \ {r} : job'[q] = job[q]
  BY DEF SafeInv, TypeOK, Begin, UpdateBegin, DeleteBegin, SubmitBegin, AuditBegin, PayBegin,
         CheckBegin, Start, Reads
<1>1. Grows
  BY <1>0 DEF Grows
<1>2. RowSafe(payroll[p]) /\ RowApproved(p, payroll[p]) /\ payroll[p] \in Row
  BY <1>0 DEF SafeInv, RowsSafe, TypeOK
<1>3. JobSafe(r)'
  <2> DEFINE Began(at, row) == job'[r] = [at |-> at, id |-> p, row |-> row]
  <2> USE DEF SafeInv, TypeOK, Start, Reads
  <2>1. ASSUME NEW b \in Body, NEW s \in Status, UpdateBegin(r, p, b, s)
        PROVE  JobSafe(r)'
    <3>1. Began("update_commit", Edited(p, b, s))
      BY <2>1 DEF UpdateBegin
    <3>2. (RowSafe(Edited(p, b, s)) /\ RowApproved(p, Edited(p, b, s)))'
      BY <1>0, <1>2, <2>1 DEF UpdateBegin, Edited, RowSafe, RowApproved, Row
    <3> QED BY <1>0, <3>1, <3>2 DEF JobSafe, Edited
  <2>2. CASE DeleteBegin(r, p)
    <3>1. Began("delete_save", [payroll[p] EXCEPT !.flag = 1])
      BY <2>2 DEF DeleteBegin
    <3> DEFINE row == [payroll[p] EXCEPT !.flag = 1]
    <3>2. (RowSafe(row) /\ RowApproved(p, row))'
      BY <1>0, <1>2, <2>2 DEF DeleteBegin, RowSafe, RowApproved, Row
    <3> QED BY <1>0, <3>1, <3>2 DEF JobSafe
  <2>3. CASE SubmitBegin(r, p)
    <3>1. Began("submit_slips", payroll[p])
      BY <2>3 DEF SubmitBegin
    <3> QED BY <1>0, <1>1, <1>2, <2>3, <3>1, RowSafeGrows DEF JobSafe, SubmitBegin
  <2>4. CASE AuditBegin(r, p)
    <3>1. PICK s \in {"approved", "rejected"} :
            Began("audit_save", [payroll[p] EXCEPT !.status = s])
      BY <2>4 DEF AuditBegin
    <3>2. RowSafe([payroll[p] EXCEPT !.status = s])'
      BY <1>0, <1>2, <2>4, <3>1 DEF AuditBegin, RowSafe, Row
    <3>3. [payroll[p] EXCEPT !.status = s].status = s
      BY <1>2 DEF Row
    <3>4. /\ job'[r].at = "audit_save" /\ job'[r].id = p
          /\ job'[r].row = [payroll[p] EXCEPT !.status = s]
      BY <3>1
    <3> HIDE DEF Began
    <3> QED BY <1>0, <3>2, <3>3, <3>4 DEF JobSafe
  <2>5. CASE PayBegin(r, p)
    <3>1. Began("pay_settings", payroll[p])
      BY <2>5 DEF PayBegin
    <3> QED BY <1>0, <1>1, <1>2, <2>5, <3>1, RowSafeGrows DEF JobSafe, PayBegin
  <2>6. CASE CheckBegin(r, p)
    <3>1. Began("check_receipt", payroll[p])
      BY <2>6 DEF CheckBegin
    <3> QED BY <1>0, <1>1, <1>2, <2>6, <3>1, RowSafeGrows DEF JobSafe, CheckBegin
  <2> QED BY <2>1, <2>2, <2>3, <2>4, <2>5, <2>6 DEF Begin
<1>4. SlipsSafe'
  BY <1>0 DEF SafeInv, SlipsSafe, SlipsOneBatch
<1> QED BY <1>0, <1>1, <1>3, <1>4, BeginType, OthersSafe, StoredSafe DEF SafeInv

\* A write stores a copy that is safe; with it come the slips of its request.
LEMMA WriteSafe ==
  ASSUME SafeInv, NEW r \in Req, job[r] # Idle, job[r].at # "create_insert",
         payroll' = Written(r), UNCHANGED confirmed,
         approvals \subseteq approvals', Approves(r) \subseteq approvals'
  PROVE  Grows /\ RowsSafe'
<1>1. /\ job[r].id \in PayrollId /\ job[r].row \in Row
      /\ RowSafe(job[r].row)
      /\ payroll \in [PayrollId -> Row \cup {NoRow}]
  BY JobType DEF SafeInv, JobsSafe, JobSafe, TypeOK
<1>2. Grows
  BY <1>1, PayrollAssumption DEF Grows, Written
<1>3. ASSUME NEW p, NEW row, p = job[r].id, row = job[r].row
      PROVE  RowApproved(p, row)'
  <2>1. CASE job[r].at = "audit_save"
    BY <1>3, <2>1 DEF RowApproved, Approves, At, Approved, SafeInv, JobsSafe, JobSafe
  <2>2. CASE job[r].at # "audit_save"
    <3>1. RowApproved(p, row)
      BY <1>3, <2>2 DEF SafeInv, JobsSafe, JobSafe
    <3> QED BY <1>2, <3>1, RowSafeGrows
  <2> QED BY <2>1, <2>2
<1>4. ASSUME NEW p \in PayrollId, payroll'[p] # NoRow
      PROVE  (RowSafe(payroll[p]) /\ RowApproved(p, payroll[p]))'
  <2>1. CASE p = job[r].id
    <3>1. payroll'[p] = job[r].row
      BY <1>1, <2>1 DEF Written
    <3> QED BY <1>1, <1>3, <2>1, <3>1 DEF RowSafe, RowApproved
  <2>2. CASE p # job[r].id
    <3>1. payroll'[p] = payroll[p]
      BY <1>1, <2>2 DEF Written
    <3>2. RowSafe(payroll[p]) /\ RowApproved(p, payroll[p])
      BY <1>4, <3>1 DEF SafeInv, RowsSafe
    <3> QED BY <1>2, <3>1, <3>2 DEF RowSafe, RowApproved, Grows
  <2> QED BY <2>1, <2>2
<1> QED BY <1>2, <1>4 DEF RowsSafe

LEMMA StepSafe ==
  ASSUME SafeInv, NEW r \in Req, Step(r)
  PROVE  SafeInv'
<1>0. TypeOK /\ TypeOK'
  BY StepType DEF SafeInv
<1> USE <1>0
<1> DEFINE OnlyMine == \A q \in Req \ {r} : job'[q] = job[q]
<1>1. ASSUME NEW b \in Body, CreateCheck(r, b)
      PROVE  SafeInv'
  <2>1. Grows /\ OnlyMine /\ UNCHANGED <<payroll, slips>>
    BY <1>1 DEF CreateCheck, Start, TypeOK, Grows
  <2>2. JobSafe(r)'
    <3>1. job'[r] = [at |-> "create_insert", id |-> NoId, row |-> NewRow(b)]
      BY <1>1 DEF CreateCheck, Start, TypeOK
    <3> QED BY <3>1 DEF JobSafe, NewRow
  <2> QED BY <2>1, <2>2, OthersSafe, StoredSafe DEF SafeInv, SlipsSafe, SlipsOneBatch
<1>2. CASE CreateInsert(r)
  <2>1. PICK p \in PayrollId :
          /\ payroll[p] = NoRow
          /\ payroll' = [payroll EXCEPT ![p] = job[r].row]
          /\ slips' = slips \cup SlipsFrom(p, job[r].row.body)
    BY <1>2 DEF CreateInsert
  <2>2. /\ job[r].row = NewRow(job[r].row.body) /\ job[r].row \in Row
        /\ UNCHANGED <<confirmed, approvals>>
    BY <1>2, JobType DEF CreateInsert, At, SafeInv, JobsSafe, JobSafe
  <2>3. Grows /\ OnlyMine /\ job'[r] = Idle
    BY <1>2, <2>1, <2>2, PayrollAssumption DEF CreateInsert, Finish, TypeOK, Grows
  <2>4. RowsSafe'
    <3>1. RowSafe(job[r].row) /\ RowApproved(p, job[r].row)
      BY <2>2 DEF RowSafe, RowApproved, Approved, NewRow
    <3>2. \A q \in PayrollId : payroll'[q] # NoRow =>
            RowSafe(payroll'[q]) /\ RowApproved(q, payroll'[q])
      BY <2>1, <3>1 DEF SafeInv, RowsSafe, TypeOK
    <3> QED BY <2>2, <3>2 DEF RowsSafe, RowSafe, RowApproved
  <2>5. SlipsSafe'
    <3>1. \A s \in SlipsFrom(p, job[r].row.body) : s.payroll = p /\ s.body = job[r].row.body
      BY SlipsFromFields
    <3>2. \A s \in slips : s.payroll # p /\ s.payroll \in PayrollId
      BY <2>1 DEF SafeInv, SlipsSafe, TypeOK, Slip
    <3>3. payroll'[p] # NoRow
      BY <2>1, <2>2, PayrollAssumption DEF TypeOK
    <3>4. \A s \in slips' : payroll'[s.payroll] # NoRow
      BY <2>1, <2>3, <3>1, <3>2, <3>3 DEF SafeInv, SlipsSafe, Grows
    <3>5. \A s, t \in slips' : s.payroll = t.payroll => s.body = t.body
      BY <2>1, <3>1, <3>2 DEF SafeInv, SlipsSafe, SlipsOneBatch
    <3> QED BY <3>4, <3>5 DEF SlipsSafe, SlipsOneBatch
  <2> QED BY <2>3, <2>4, <2>5, OthersSafe DEF SafeInv
<1>3. ASSUME NEW p \in PayrollId, Begin(r, p)
      PROVE  SafeInv'
  BY <1>3, BeginSafe
<1>4. CASE UpdateCommit(r)
  <2>1. Grows /\ RowsSafe' /\ job[r].id \in PayrollId
    BY <1>4, WriteSafe, JobType DEF UpdateCommit, At, Approves
  <2>2. OnlyMine /\ job'[r] = Idle
    BY <1>4 DEF UpdateCommit, Finish, TypeOK
  <2>3. SlipsSafe'
    <3> DEFINE p == job[r].id
               b == job[r].row.body
    <3>1. slips' = (slips \ SlipsOf(p)) \cup SlipsFrom(p, b)
      BY <1>4 DEF UpdateCommit, Replaced
    <3>2. \A s \in SlipsFrom(p, b) : s.payroll = p /\ s.body = b
      BY SlipsFromFields
    <3>3. \A s \in slips \ SlipsOf(p) : s.payroll # p /\ s.payroll \in PayrollId
      BY DEF SlipsOf, TypeOK, Slip
    <3>4. payroll[p] # NoRow
      BY <1>4 DEF UpdateCommit, At, SafeInv, JobsSafe, JobSafe
    <3>5. \A s \in slips' : payroll'[s.payroll] # NoRow
      BY <2>1, <3>1, <3>2, <3>3, <3>4 DEF SafeInv, SlipsSafe, Grows
    <3>6. \A s, t \in slips' : s.payroll = t.payroll => s.body = t.body
      BY <3>1, <3>2, <3>3 DEF SafeInv, SlipsSafe, SlipsOneBatch
    <3> QED BY <3>5, <3>6 DEF SlipsSafe, SlipsOneBatch
  <2> QED BY <2>1, <2>2, <2>3, OthersSafe DEF SafeInv
<1>5. CASE SubmitSlips(r) \/ (\E h \in TxHash, c \in Chain : PaySettings(r, h, c))
           \/ CheckReceipt(r)
  <2>1. /\ Grows /\ OnlyMine /\ UNCHANGED <<payroll, slips, confirmed, approvals>>
        /\ job[r] # Idle /\ job[r].at # "create_insert"
    BY <1>5 DEF SubmitSlips, PaySettings, CheckReceipt, At, Continue, TypeOK, Grows
  <2>2. /\ payroll[job[r].id] # NoRow /\ job[r].row \in Row
        /\ RowSafe(job[r].row)
    BY <2>1, JobType DEF SafeInv, JobsSafe, JobSafe
  <2> DEFINE Goes(at, row) ==
        job'[r].at = at /\ job'[r].id = job[r].id /\ job'[r].row = row
  <2>3. ASSUME NEW at \in SaveAt, NEW row, Continue(r, at, row)
        PROVE  Goes(at, row)
    <3>1. job[r] \in [at : SaveAt \cup ReadAt \cup {"update_commit"},
                      id : PayrollId, row : Row]
      BY <2>1 DEF TypeOK, Job
    <3> QED BY <2>3, <3>1 DEF Continue, TypeOK
  <2>4. JobSafe(r)'
    <3>1. CASE SubmitSlips(r)
      <4>1. Goes("submit_save", [job[r].row EXCEPT !.status = "waiting_approval"])
        BY <3>1, <2>3 DEF SubmitSlips, SaveAt
      <4>2. job[r].row.status = "create"
        BY <3>1 DEF SubmitSlips, At, SafeInv, JobsSafe, JobSafe
      <4> QED BY <2>1, <2>2, <4>1, <4>2 DEF JobSafe, RowSafe, RowApproved, Approved, Row
    <3>2. ASSUME NEW h \in TxHash, NEW c \in Chain, PaySettings(r, h, c)
          PROVE  JobSafe(r)'
      <4>1. Goes("pay_save", [job[r].row EXCEPT !.status = "paying", !.payment = <<h, c>>])
        BY <3>2, <2>3 DEF PaySettings, SaveAt
      <4>2. job[r].row.status = "approved" /\ RowApproved(job[r].id, job[r].row)
        BY <3>2 DEF PaySettings, At, SafeInv, JobsSafe, JobSafe
      <4>3. <<h, c>> # NoPayment
        BY PayrollAssumption DEF Payment
      <4> QED BY <2>1, <2>2, <4>1, <4>2, <4>3 DEF JobSafe, RowSafe, RowApproved, Approved, Row
    <3>3. CASE CheckReceipt(r)
      <4>1. Goes("check_save", [job[r].row EXCEPT !.status = "paid"])
        BY <3>3, <2>3 DEF CheckReceipt, SaveAt
      <4>2. /\ job[r].row.status = "paying" /\ RowApproved(job[r].id, job[r].row)
            /\ job[r].row.payment \in confirmed /\ job[r].row.payment # NoPayment
        BY <3>3, PayrollAssumption DEF CheckReceipt, ReceiptOk, At, SafeInv, TypeOK, JobsSafe,
           JobSafe
      <4> QED BY <2>1, <2>2, <4>1, <4>2 DEF JobSafe, RowSafe, RowApproved, Approved, Row
    <3> QED BY <1>5, <3>1, <3>2, <3>3
  <2> QED BY <2>1, <2>4, OthersSafe, StoredSafe DEF SafeInv, SlipsSafe, SlipsOneBatch
<1>6. CASE Save(r)
  <2>1. Grows /\ RowsSafe' /\ UNCHANGED slips
    BY <1>6, WriteSafe DEF Save, At, SaveAt
  <2>2. OnlyMine /\ job'[r] = Idle
    BY <1>6 DEF Save, Finish, TypeOK
  <2>3. SlipsSafe'
    BY <2>1 DEF SafeInv, SlipsSafe, SlipsOneBatch, Grows, TypeOK, Slip
  <2> QED BY <2>1, <2>2, <2>3, OthersSafe DEF SafeInv
<1>7. CASE Abort(r)
  <2>1. /\ Grows /\ OnlyMine /\ job'[r] = Idle
        /\ UNCHANGED <<payroll, slips>>
    BY <1>7 DEF Abort, Finish, TypeOK, Grows
  <2> QED BY <2>1, OthersSafe, StoredSafe DEF SafeInv, SlipsSafe, SlipsOneBatch
<1>8. CASE StaffDelete(r)
  <2>1. /\ Grows /\ OnlyMine /\ job'[r] = Idle
        /\ UNCHANGED payroll /\ slips' \subseteq slips
    BY <1>8 DEF StaffDelete, TypeOK, Grows
  <2> QED BY <2>1, OthersSafe, StoredSafe DEF SafeInv, SlipsSafe, SlipsOneBatch
<1> QED BY <1>1, <1>2, <1>3, <1>4, <1>5, <1>6, <1>7, <1>8 DEF Step

LEMMA NextSafe ==
  ASSUME SafeInv, [Next]_vars
  PROVE  SafeInv'
<1>1. ASSUME NEW x \in Payment, Confirm(x)
      PROVE  SafeInv'
  <2>1. Grows /\ UNCHANGED <<payroll, slips, job>>
    BY <1>1 DEF Confirm, Grows
  <2>2. JobsSafe'
    <3> SUFFICES ASSUME NEW q \in Req, job'[q] # Idle
                 PROVE  JobSafe(q)'
      BY DEF JobsSafe
    <3>1. JobSafe(q)
      BY <2>1 DEF SafeInv, JobsSafe
    <3> QED BY <2>1, <3>1 DEF JobSafe, RowSafe, RowApproved, Grows
  <2>3. TypeOK'
    BY NextType DEF SafeInv
  <2> QED BY <2>1, <2>2, <2>3, StoredSafe DEF SafeInv, SlipsSafe, SlipsOneBatch
<1>2. CASE UNCHANGED vars
  BY <1>2 DEF vars, SafeInv, TypeOK, RowsSafe, RowSafe, RowApproved, JobsSafe, JobSafe,
              SlipsSafe, SlipsOneBatch
<1> QED BY <1>1, <1>2, StepSafe DEF Next

LEMMA PayrollSafe == Spec => []SafeInv
<1>1. SafeInv /\ [Next]_vars => SafeInv'
  BY NextSafe
<1> QED BY <1>1, InitSafe, PTL DEF Spec

\* However the requests interleave, a payroll that is marked paid records a
\* transaction the chain has confirmed, or an update request said "paid".
THEOREM PaidIsConfirmed == Spec => []PaidConfirmed
<1>1. SafeInv => PaidConfirmed
  BY DEF SafeInv, RowsSafe, RowSafe, PaidConfirmed, Reads
<1> QED BY <1>1, PayrollSafe, PTL

\* However the requests interleave, a row records a transaction exactly while
\* it is paying or paid and no update request made it so.
THEOREM PaymentIsRecorded == Spec => []PaymentRecorded
<1>1. SafeInv => PaymentRecorded
  BY DEF SafeInv, RowsSafe, RowSafe, PaymentRecorded
<1> QED BY <1>1, PayrollSafe, PTL

\* However the requests interleave, no payroll is approved, paying or paid
\* that neither an audit request approved nor an update request declared so.
THEOREM ApprovalIsByAudit == Spec => []ApprovedByAudit
<1>1. SafeInv => ApprovedByAudit
  BY DEF SafeInv, RowsSafe, RowApproved, ApprovedByAudit
<1> QED BY <1>1, PayrollSafe, PTL

\* However the requests interleave, the slips of a payroll were inserted by
\* one create or update request.
THEOREM SlipsAreOneBatch == Spec => []SlipsOneBatch
<1>1. SafeInv => SlipsOneBatch
  BY DEF SafeInv, SlipsSafe
<1> QED BY <1>1, PayrollSafe, PTL

----------------------------------------------------------------------------
\* When requests are handled one at a time (one slot), Payroll implements
\* PayrollWorkflow and keeps rows, slips and months in step.
OneAtATime == \A q, r \in Req : q = r

----------------------------------------------------------------------------
\* With nobody in between, the copy of a request is the stored row but for
\* the change its handler makes, and what the handler has checked still holds.

Agrees(at, cur, row) ==
  /\ cur # NoRow
  /\ at \in ReadAt => row = cur
  /\ at # "update_commit" => row.body = cur.body /\ row.claim = cur.claim
  /\ at # "pay_save" => row.payment = cur.payment
  /\ at = "update_commit" => cur.status = "create" /\ row.claim = row.status
  /\ at = "delete_save" => cur.status = "create" /\ row.status = "create"
  /\ at = "submit_slips" => cur.status = "create"
  /\ at = "submit_save" => cur.status = "create" /\ row.status = "waiting_approval"
  /\ at = "audit_save" => /\ cur.status = "waiting_approval"
                          /\ row.status \in {"approved", "rejected"}
  /\ at = "pay_settings" => cur.status = "approved"
  /\ at = "pay_save" => /\ cur.status = "approved" /\ row.status = "paying"
                        /\ row.payment \in Payment
  /\ at = "check_receipt" => cur.status = "paying"
  /\ at = "check_save" => /\ cur.status = "paying" /\ row.status = "paid"
                          /\ row.payment \in confirmed

Fresh(r) ==
  IF job[r].at = "create_insert"
  THEN /\ job[r].row = NewRow(job[r].row.body)
       /\ \A p \in PayrollId : ~TakesMonth(p, job[r].row.body.month)
  ELSE Agrees(job[r].at, payroll[job[r].id], job[r].row)

FreshCopies == \A r \in Req : job[r] # Idle => Fresh(r)

FreshInv == TypeOK /\ FreshCopies

\* The slot is the only one, so its own Fresh is all there is to show.
LEMMA OnlySlot ==
  ASSUME OneAtATime, NEW r \in Req, job'[r] # Idle => Fresh(r)'
  PROVE  FreshCopies'
BY DEF OneAtATime, FreshCopies

LEMMA BeginFresh ==
  ASSUME OneAtATime, FreshInv, NEW r \in Req, NEW p \in PayrollId, Begin(r, p)
  PROVE  FreshInv'
<1> USE DEF FreshInv
<1>0. TypeOK /\ TypeOK' /\ payroll[p] \in Row /\ payroll[p] # NoRow
      /\ UNCHANGED <<payroll, slips, confirmed>>
  BY BeginType DEF TypeOK, Begin, UpdateBegin, DeleteBegin, SubmitBegin, AuditBegin,
     PayBegin, CheckBegin, Reads
<1> DEFINE Began(at, row) == job'[r] = [at |-> at, id |-> p, row |-> row]
<1>1. ASSUME NEW at, NEW row, at # "create_insert",
             Start(r, at, p, row), Agrees(at, payroll[p], row)
      PROVE  FreshCopies'
  <2>1. Began(at, row)
    BY <1>1 DEF Start, TypeOK
  <2>2. Fresh(r)'
    BY <1>0, <1>1, <2>1 DEF Fresh, Agrees
  <2> QED BY <2>2, OnlySlot
<1>2. ASSUME NEW b \in Body, NEW s \in Status, UpdateBegin(r, p, b, s)
      PROVE  FreshCopies'
  <2>1. Agrees("update_commit", payroll[p], Edited(p, b, s))
    BY <1>0, <1>2 DEF UpdateBegin, Reads, Edited, Agrees, Row, ReadAt
  <2> QED BY <1>1, <1>2, <2>1 DEF UpdateBegin
<1>3. CASE DeleteBegin(r, p)
  <2>1. Agrees("delete_save", payroll[p], [payroll[p] EXCEPT !.flag = 1])
    BY <1>0, <1>3 DEF DeleteBegin, Reads, Agrees, Row, ReadAt
  <2> QED BY <1>0, <1>1, <1>3, <2>1 DEF DeleteBegin
<1>4. CASE SubmitBegin(r, p)
  <2>1. Agrees("submit_slips", payroll[p], payroll[p])
    BY <1>0, <1>4 DEF SubmitBegin, Reads, Agrees
  <2> QED BY <1>0, <1>1, <1>4, <2>1 DEF SubmitBegin
<1>5. CASE AuditBegin(r, p)
  <2>1. PICK s \in {"approved", "rejected"} :
          Start(r, "audit_save", p, [payroll[p] EXCEPT !.status = s])
    BY <1>5 DEF AuditBegin
  <2>2. Agrees("audit_save", payroll[p], [payroll[p] EXCEPT !.status = s])
    BY <1>0, <1>5 DEF AuditBegin, Reads, Agrees, Row, ReadAt
  <2> QED BY <1>0, <1>1, <2>1, <2>2
<1>6. CASE PayBegin(r, p)
  <2>1. Agrees("pay_settings", payroll[p], payroll[p])
    BY <1>0, <1>6 DEF PayBegin, Reads, Agrees
  <2> QED BY <1>0, <1>1, <1>6, <2>1 DEF PayBegin
<1>7. CASE CheckBegin(r, p)
  <2>1. Agrees("check_receipt", payroll[p], payroll[p])
    BY <1>0, <1>7 DEF CheckBegin, Reads, Agrees
  <2> QED BY <1>0, <1>1, <1>7, <2>1 DEF CheckBegin
<1> QED BY <1>0, <1>2, <1>3, <1>4, <1>5, <1>6, <1>7 DEF Begin

LEMMA StepFresh ==
  ASSUME OneAtATime, FreshInv, NEW r \in Req, Step(r)
  PROVE  FreshInv'
<1> USE DEF FreshInv
<1>0. TypeOK /\ TypeOK'
  BY StepType
<1>1. ASSUME job'[r] = Idle
      PROVE  FreshCopies'
  BY <1>1, OnlySlot
<1>2. CASE CreateInsert(r) \/ UpdateCommit(r) \/ Save(r) \/ Abort(r) \/ StaffDelete(r)
  <2>1. job'[r] = Idle
    BY <1>0, <1>2 DEF CreateInsert, UpdateCommit, Save, Abort, StaffDelete, Finish, TypeOK
  <2> QED BY <1>0, <1>1, <2>1
<1>3. ASSUME NEW b \in Body, CreateCheck(r, b)
      PROVE  FreshInv'
  <2>1. /\ job'[r] = [at |-> "create_insert", id |-> NoId, row |-> NewRow(b)]
        /\ \A p \in PayrollId : ~TakesMonth(p, b.month)
        /\ UNCHANGED payroll
    BY <1>0, <1>3 DEF CreateCheck, MonthFree, Start, TypeOK
  <2>2. Fresh(r)'
    BY <2>1 DEF Fresh, NewRow, TakesMonth
  <2> QED BY <1>0, <2>2, OnlySlot
<1>4. ASSUME NEW p \in PayrollId, Begin(r, p)
      PROVE  FreshInv'
  BY <1>4, BeginFresh
<1>5. CASE SubmitSlips(r) \/ (\E h \in TxHash, c \in Chain : PaySettings(r, h, c))
           \/ CheckReceipt(r)
  <2>1. /\ job[r] # Idle /\ UNCHANGED <<payroll, confirmed>>
        /\ job[r] \in [at : SaveAt \cup ReadAt \cup {"update_commit"},
                       id : PayrollId, row : Row]
        /\ Agrees(job[r].at, payroll[job[r].id], job[r].row)
    BY <1>0, <1>5 DEF SubmitSlips, PaySettings, CheckReceipt, At, TypeOK, Job, FreshCopies, Fresh
  <2>2. ASSUME NEW at \in SaveAt, NEW row, Continue(r, at, row),
               Agrees(at, payroll[job[r].id], row)
        PROVE  FreshCopies'
    <3>1. job'[r].at = at /\ job'[r].id = job[r].id /\ job'[r].row = row
      BY <1>0, <2>1, <2>2 DEF Continue, TypeOK
    <3>2. Fresh(r)'
      BY <2>1, <2>2, <3>1 DEF Fresh, Agrees, SaveAt
    <3> QED BY <3>2, OnlySlot
  <2>3. CASE SubmitSlips(r)
    <3>1. Agrees("submit_save", payroll[job[r].id],
                 [job[r].row EXCEPT !.status = "waiting_approval"])
      BY <2>1, <2>3 DEF SubmitSlips, At, Agrees, Row, ReadAt
    <3> QED BY <1>0, <2>2, <2>3, <3>1 DEF SubmitSlips, SaveAt
  <2>4. ASSUME NEW h \in TxHash, NEW c \in Chain, PaySettings(r, h, c)
        PROVE  FreshCopies'
    <3>1. Agrees("pay_save", payroll[job[r].id],
                 [job[r].row EXCEPT !.status = "paying", !.payment = <<h, c>>])
      BY <2>1, <2>4 DEF PaySettings, At, Agrees, Row, ReadAt, Payment
    <3> QED BY <1>0, <2>2, <2>4, <3>1 DEF PaySettings, SaveAt
  <2>5. CASE CheckReceipt(r)
    <3>1. Agrees("check_save", payroll[job[r].id], [job[r].row EXCEPT !.status = "paid"])
      BY <2>1, <2>5 DEF CheckReceipt, ReceiptOk, At, Agrees, Row, ReadAt
    <3> QED BY <1>0, <2>2, <2>5, <3>1 DEF CheckReceipt, SaveAt
  <2> QED BY <1>0, <1>5, <2>3, <2>4, <2>5
<1> QED BY <1>2, <1>3, <1>4, <1>5 DEF Step

LEMMA NextFresh ==
  ASSUME OneAtATime, FreshInv, [Next]_vars
  PROVE  FreshInv'
<1> USE DEF FreshInv
<1>1. ASSUME NEW x \in Payment, Confirm(x)
      PROVE  FreshInv'
  <2>1. \A r \in Req : Fresh(r) => Fresh(r)'
    BY <1>1 DEF Confirm, Fresh, Agrees, TakesMonth
  <2> QED BY <1>1, <2>1, NextType DEF Confirm, FreshCopies, Next
<1>2. CASE UNCHANGED vars
  BY <1>2, NextType DEF vars, FreshCopies, Fresh, Agrees, TakesMonth
<1> QED BY <1>1, <1>2, StepFresh DEF Next

LEMMA SerialFresh ==
  ASSUME OneAtATime
  PROVE  Spec => []FreshInv
<1>1. Init => FreshInv
  BY InitType DEF Init, FreshInv, FreshCopies
<1>2. FreshInv /\ [Next]_vars => FreshInv'
  BY NextFresh
<1> QED BY <1>1, <1>2, PTL DEF Spec

----------------------------------------------------------------------------
\* Every step is a step of the workflow, or changes nothing it speaks of.

LEMMA Unmoved ==
  ASSUME UNCHANGED <<payroll, confirmed, approvals>>
  PROVE  UNCHANGED Workflow!vars
BY DEF Workflow!vars, WorkflowStatus, WorkflowPayment

LEMMA Written1 ==
  ASSUME TypeOK, NEW p \in PayrollId, NEW row \in Row,
         payroll' = [payroll EXCEPT ![p] = row]
  PROVE  /\ WorkflowStatus' = [WorkflowStatus EXCEPT ![p] = row.status]
         /\ WorkflowPayment' = [WorkflowPayment EXCEPT ![p] = row.payment]
BY PayrollAssumption DEF TypeOK, WorkflowStatus, WorkflowPayment

LEMMA StepMaps ==
  ASSUME OneAtATime, FreshInv, SafeInv, NEW r \in Req, Step(r)
  PROVE  [Workflow!Next]_(Workflow!vars)
<1> USE DEF FreshInv
<1> DEFINE id == job[r].id
           row == job[r].row
           cur == payroll[id]
<1>1. CASE CreateInsert(r)
  <2>1. PICK p \in PayrollId : /\ payroll[p] = NoRow
                               /\ payroll' = [payroll EXCEPT ![p] = row]
    BY <1>1 DEF CreateInsert
  <2>2. row \in Row /\ row = NewRow(row.body) /\ UNCHANGED <<confirmed, approvals>>
    BY <1>1, JobType DEF CreateInsert, At, FreshCopies, Fresh
  <2>3. /\ WorkflowStatus[p] = "none" /\ WorkflowPayment[p] = NoPayment
        /\ row.status = "create" /\ row.payment = NoPayment
    BY <2>1, <2>2 DEF WorkflowStatus, WorkflowPayment, NewRow
  <2>4. /\ WorkflowStatus' = [WorkflowStatus EXCEPT ![p] = "create"]
        /\ WorkflowPayment' = WorkflowPayment
    <3>1. /\ WorkflowStatus' = [WorkflowStatus EXCEPT ![p] = row.status]
          /\ WorkflowPayment' = [WorkflowPayment EXCEPT ![p] = row.payment]
      BY <2>1, <2>2, Written1
    <3>2. [WorkflowPayment EXCEPT ![p] = NoPayment] = WorkflowPayment
      BY <2>3 DEF WorkflowPayment
    <3> QED BY <2>3, <3>1, <3>2
  <2>5. Workflow!Draft(p)
    BY <2>2, <2>3, <2>4 DEF Workflow!Draft, Workflow!Move
  <2> QED BY <2>5 DEF Workflow!Next
<1>2. CASE UpdateCommit(r) \/ Save(r)
  <2>1. /\ job[r] # Idle /\ job[r].at \in SaveAt \cup {"update_commit"}
        /\ payroll' = [payroll EXCEPT ![id] = row] /\ UNCHANGED confirmed
        /\ approvals' = approvals \cup Approves(r)
    BY <1>2 DEF UpdateCommit, Save, At, Written, Approves
  <2>2. id \in PayrollId /\ row \in Row /\ Agrees(job[r].at, cur, row)
    BY <2>1, JobType DEF SaveAt, FreshCopies, Fresh
  <2>3. /\ WorkflowStatus[id] = cur.status /\ WorkflowPayment[id] = cur.payment
        /\ WorkflowStatus' = [WorkflowStatus EXCEPT ![id] = row.status]
        /\ WorkflowPayment' = [WorkflowPayment EXCEPT ![id] = row.payment]
    <3>1. cur # NoRow
      BY <2>2 DEF Agrees
    <3> QED BY <2>1, <2>2, <3>1, Written1 DEF WorkflowStatus, WorkflowPayment
  <2>4. ASSUME row.payment = cur.payment
        PROVE  WorkflowPayment' = WorkflowPayment
    BY <2>2, <2>3, <2>4 DEF WorkflowPayment
  <2>5. ASSUME NEW to, WorkflowPayment' = WorkflowPayment, row.status = to
        PROVE  Workflow!Move(id, cur.status, to)
    BY <2>1, <2>3, <2>5 DEF Workflow!Move
  <2>12. ASSUME job[r].at # "audit_save" \/ row.status # "approved"
        PROVE  UNCHANGED approvals
    BY <2>1, <2>12 DEF Approves, At
  <2>6. CASE job[r].at = "update_commit"
    <3>1. cur.status = "create" /\ row.status \in Status /\ row.payment = cur.payment
      BY <2>2, <2>6 DEF Agrees, Row
    <3>2. Workflow!Edit(id)
      BY <2>4, <2>5, <2>6, <2>12, <3>1 DEF Workflow!Edit
    <3> QED BY <2>2, <3>2 DEF Workflow!Next
  <2>7. CASE job[r].at = "delete_save"
    <3>1. row.status = cur.status /\ row.payment = cur.payment
      BY <2>2, <2>7 DEF Agrees
    <3>2. WorkflowStatus' = WorkflowStatus
      BY <2>2, <2>3, <3>1 DEF WorkflowStatus
    <3> QED BY <2>1, <2>4, <2>7, <2>12, <3>1, <3>2 DEF Workflow!vars
  <2>8. CASE job[r].at = "submit_save"
    <3>1. /\ cur.status = "create" /\ row.status = "waiting_approval"
          /\ row.payment = cur.payment
      BY <2>2, <2>8 DEF Agrees
    <3>2. Workflow!Submit(id)
      BY <2>4, <2>5, <2>8, <2>12, <3>1 DEF Workflow!Submit
    <3> QED BY <2>2, <3>2 DEF Workflow!Next
  <2>9. CASE job[r].at = "audit_save"
    <3>1. /\ cur.status = "waiting_approval" /\ row.status \in {"approved", "rejected"}
          /\ row.payment = cur.payment
      BY <2>2, <2>9 DEF Agrees
    <3>2. CASE row.status = "approved"
      <4>1. approvals' = approvals \cup {id}
        BY <2>1, <2>9, <3>2 DEF Approves, At
      <4>2. Workflow!Approve(id)
        BY <2>4, <2>5, <3>1, <3>2, <4>1 DEF Workflow!Approve
      <4> QED BY <2>2, <4>2 DEF Workflow!Next
    <3>3. CASE row.status = "rejected"
      <4>1. Workflow!Reject(id)
        BY <2>4, <2>5, <2>12, <3>1, <3>3 DEF Workflow!Reject
      <4> QED BY <2>2, <4>1 DEF Workflow!Next
    <3> QED BY <3>1, <3>2, <3>3
  <2>10. CASE job[r].at = "pay_save"
    <3>1. cur.status = "approved" /\ row.status = "paying" /\ row.payment \in Payment
      BY <2>2, <2>10 DEF Agrees
    <3>3. cur.payment = NoPayment
      BY <2>2, <3>1 DEF SafeInv, RowsSafe, RowSafe, Agrees, TypeOK, Row
    <3>2. Workflow!Pay(id)
      BY <2>1, <2>3, <2>10, <2>12, <3>1, <3>3 DEF Workflow!Pay, Workflow!Move
    <3> QED BY <2>2, <3>2 DEF Workflow!Next
  <2>11. CASE job[r].at = "check_save"
    <3>1. /\ cur.status = "paying" /\ row.status = "paid"
          /\ row.payment = cur.payment /\ row.payment \in confirmed
      BY <2>2, <2>11 DEF Agrees
    <3>2. Workflow!Settle(id)
      BY <2>3, <2>4, <2>5, <2>11, <2>12, <3>1 DEF Workflow!Settle
    <3> QED BY <2>2, <3>2 DEF Workflow!Next
  <2> QED BY <2>1, <2>6, <2>7, <2>8, <2>9, <2>10, <2>11 DEF SaveAt
<1>3. ASSUME UNCHANGED <<payroll, confirmed, approvals>>
      PROVE  [Workflow!Next]_(Workflow!vars)
  BY <1>3, Unmoved
<1>4. CASE ~(CreateInsert(r) \/ UpdateCommit(r) \/ Save(r))
  <2>1. UNCHANGED <<payroll, confirmed, approvals>>
    BY <1>4 DEF Step, CreateCheck, Begin, UpdateBegin, DeleteBegin, SubmitBegin, AuditBegin,
       PayBegin, CheckBegin, SubmitSlips, PaySettings, CheckReceipt, Abort, StaffDelete
  <2> QED BY <2>1, <1>3
<1> QED BY <1>1, <1>2, <1>4

LEMMA NextMaps ==
  ASSUME OneAtATime, FreshInv, SafeInv, [Next]_vars
  PROVE  [Workflow!Next]_(Workflow!vars)
<1>1. ASSUME NEW x \in Payment, Confirm(x)
      PROVE  Workflow!Next
  <2>1. Workflow!Confirm
    BY <1>1 DEF Confirm, Workflow!Confirm, WorkflowStatus, WorkflowPayment
  <2> QED BY <2>1 DEF Workflow!Next
<1>2. CASE UNCHANGED vars
  BY <1>2, Unmoved DEF vars
<1> QED BY <1>1, <1>2, StepMaps DEF Next

\* Handled one at a time, the requests take every payroll along the workflow:
\* a draft is edited to any status, but from there no status is skipped,
\* "rejected" and "paid" are final, and a payment is recorded once.
THEOREM PayrollImplementsWorkflow ==
  ASSUME OneAtATime
  PROVE  Spec => ImplementsWorkflow
<1>1. Init => Workflow!Init
  BY DEF Init, Workflow!Init, WorkflowStatus, WorkflowPayment
<1>2. FreshInv /\ SafeInv /\ [Next]_vars => [Workflow!Next]_(Workflow!vars)
  BY NextMaps
<1> QED BY <1>1, <1>2, SerialFresh, PayrollSafe, PTL DEF Spec, ImplementsWorkflow, Workflow!Spec

----------------------------------------------------------------------------
\* Months.

LEMMA NextFreshMonth ==
  ASSUME FreshInv, [Next]_vars
  PROVE  [InsertsFreshMonth]_vars
<1> USE DEF FreshInv
<1>1. ASSUME NEW r \in Req, CreateInsert(r)
      PROVE  InsertsFreshMonth
  <2>1. PICK p \in PayrollId : payroll' = [payroll EXCEPT ![p] = job[r].row]
    BY <1>1 DEF CreateInsert
  <2>2. \A q \in PayrollId : ~TakesMonth(q, job[r].row.body.month)
    BY <1>1 DEF CreateInsert, At, FreshCopies, Fresh
  <2> QED BY <2>1, <2>2 DEF InsertsFreshMonth, TypeOK
<1>2. ASSUME NEW r \in Req, UpdateCommit(r) \/ Save(r)
      PROVE  InsertsFreshMonth
  <2>1. /\ payroll' = Written(r) /\ job[r].id \in PayrollId /\ payroll[job[r].id] # NoRow
    BY <1>2, JobType DEF UpdateCommit, Save, At, SaveAt, FreshCopies, Fresh, Agrees
  <2> QED BY <2>1 DEF Written, InsertsFreshMonth, TypeOK
<1>3. ASSUME UNCHANGED payroll
      PROVE  InsertsFreshMonth
  BY <1>3 DEF InsertsFreshMonth
<1>4. ASSUME NEW r \in Req, Step(r), ~(CreateInsert(r) \/ UpdateCommit(r) \/ Save(r))
      PROVE  UNCHANGED payroll
  BY <1>4 DEF Step, CreateCheck, Begin, UpdateBegin, DeleteBegin, SubmitBegin, AuditBegin,
     PayBegin, CheckBegin, SubmitSlips, PaySettings, CheckReceipt, Abort, StaffDelete
<1> QED BY <1>1, <1>2, <1>3, <1>4 DEF Next, Confirm, vars

\* Handled one at a time, a create request never inserts a payroll for a month
\* that another payroll takes.
THEOREM MonthIsFresh ==
  ASSUME OneAtATime
  PROVE  Spec => FreshMonth
<1>1. FreshInv /\ [Next]_vars => [InsertsFreshMonth]_vars
  BY NextFreshMonth
<1> QED BY <1>1, SerialFresh, PTL DEF Spec, FreshMonth

----------------------------------------------------------------------------
\* Slips.  SubmittedSlipsValid needs to know of a submit request that has
\* checked the slips that they are still the ones it checked.

CheckedSlipsValid ==
  \A r \in Req : At(r, "submit_save") =>
    \A s \in SlipsOf(job[r].id) : s.item \in HexItem

SlipInv == FreshInv /\ SlipsOfRow /\ SubmittedSlipsValid /\ CheckedSlipsValid

LEMMA StepSlips ==
  ASSUME OneAtATime, SlipInv, NEW r \in Req, Step(r)
  PROVE  SlipInv'
<1> USE DEF SlipInv, FreshInv
<1>0. TypeOK /\ TypeOK' /\ FreshInv' /\ \A q \in Req : q = r
  BY StepFresh, StepType DEF OneAtATime
<1>1. CASE CreateInsert(r)
  <2>1. PICK p \in PayrollId :
          /\ payroll[p] = NoRow
          /\ payroll' = [payroll EXCEPT ![p] = job[r].row]
          /\ slips' = slips \cup SlipsFrom(p, job[r].row.body)
    BY <1>1 DEF CreateInsert
  <2>2. /\ job[r].row \in Row /\ job[r].row = NewRow(job[r].row.body)
        /\ \A q \in Req : job'[q] = Idle
    BY <1>0, <1>1, JobType DEF CreateInsert, At, Finish, FreshCopies, Fresh, TypeOK
  <2>3. \A s \in slips : s.payroll \in PayrollId /\ s.payroll # p
    BY <2>1 DEF SlipsOfRow, TypeOK, Slip
  <2>4. \A s \in SlipsFrom(p, job[r].row.body) : s.payroll = p /\ s.body = job[r].row.body
    BY SlipsFromFields
  <2>5. payroll'[p] = job[r].row /\ payroll'[p] # NoRow /\ payroll'[p].status = "create"
    <3>1. job[r].row.status = "create"
      BY <2>2, NewRowFields
    <3> QED BY <1>0, <2>1, <2>2, <3>1, PayrollAssumption DEF TypeOK
  <2>6. \A q \in PayrollId \ {p} : payroll'[q] = payroll[q]
    BY <1>0, <2>1 DEF TypeOK
  <2>7. SlipsOfRow' /\ SubmittedSlipsValid'
    BY <2>1, <2>3, <2>4, <2>5, <2>6 DEF SlipsOfRow, SubmittedSlipsValid
  <2> QED BY <1>0, <2>2, <2>7 DEF CheckedSlipsValid, At
<1>2. CASE UpdateCommit(r)
  <2> DEFINE p == job[r].id
             b == job[r].row.body
  <2>1. /\ p \in PayrollId /\ job[r].row \in Row /\ job[r].row.claim = job[r].row.status
        /\ payroll' = [payroll EXCEPT ![p] = job[r].row]
        /\ slips' = (slips \ SlipsOf(p)) \cup SlipsFrom(p, b)
        /\ \A q \in Req : job'[q] = Idle
    BY <1>0, <1>2, JobType DEF UpdateCommit, At, Finish, FreshCopies, Fresh, Agrees, TypeOK,
       Written, Replaced
  <2>2. \A s \in slips \ SlipsOf(p) : s.payroll \in PayrollId /\ s.payroll # p
    BY DEF SlipsOf, TypeOK, Slip
  <2>3. \A s \in SlipsFrom(p, b) : s.payroll = p /\ s.body = b
    BY SlipsFromFields
  <2>4. payroll'[p] = job[r].row /\ payroll'[p] # NoRow /\ payroll'[p].claim = payroll'[p].status
    BY <1>0, <2>1, PayrollAssumption DEF TypeOK
  <2>5. \A q \in PayrollId \ {p} : payroll'[q] = payroll[q]
    BY <1>0, <2>1 DEF TypeOK
  <2>6. SlipsOfRow' /\ SubmittedSlipsValid'
    BY <2>1, <2>2, <2>3, <2>4, <2>5 DEF SlipsOfRow, SubmittedSlipsValid
  <2> QED BY <1>0, <2>1, <2>6 DEF CheckedSlipsValid, At
<1>3. CASE Save(r)
  <2> DEFINE p == job[r].id
             row == job[r].row
  <2>1. /\ p \in PayrollId /\ row \in Row /\ Agrees(job[r].at, payroll[p], row)
        /\ payroll' = [payroll EXCEPT ![p] = row] /\ UNCHANGED slips
        /\ job[r].at \in SaveAt /\ \A q \in Req : job'[q] = Idle
    BY <1>0, <1>3, JobType DEF Save, At, SaveAt, Finish, FreshCopies, Fresh, TypeOK, Written
  <2>2. /\ row.body = payroll[p].body /\ row.claim = payroll[p].claim
        /\ row # NoRow /\ payroll'[p] = row
    BY <1>0, <2>1, PayrollAssumption DEF Agrees, SaveAt, TypeOK
  <2>3. \A q \in PayrollId \ {p} : payroll'[q] = payroll[q]
    BY <1>0, <2>1 DEF TypeOK
  <2>4. \A s \in slips : s.payroll \in PayrollId
    BY DEF TypeOK, Slip
  <2>5. SlipsOfRow'
    BY <2>1, <2>2, <2>3, <2>4 DEF SlipsOfRow
  <2>6. \A s \in slips : s.payroll = p =>
          row.status \in {"", "create"} \/ row.claim # "create" \/ s.item \in HexItem
    <3>1. CASE job[r].at = "submit_save"
      BY <1>3, <3>1 DEF CheckedSlipsValid, Save, At, SlipsOf
    <3>2. CASE job[r].at = "delete_save"
      BY <2>1, <3>2 DEF Agrees
    <3>3. CASE job[r].at \in {"audit_save", "pay_save", "check_save"}
      BY <2>1, <2>2, <3>3 DEF Agrees, SubmittedSlipsValid
    <3> QED BY <2>1, <3>1, <3>2, <3>3 DEF SaveAt
  <2>7. SubmittedSlipsValid'
    BY <2>1, <2>2, <2>3, <2>4, <2>6 DEF SubmittedSlipsValid
  <2> QED BY <1>0, <2>1, <2>5, <2>7 DEF CheckedSlipsValid, At
<1>4. CASE SubmitSlips(r)
  <2>1. /\ UNCHANGED <<payroll, slips>> /\ job'[r].id = job[r].id
        /\ \A s \in SlipsOf(job[r].id) : s.item \in HexItem
    <3>1. job[r] \in [at : SaveAt \cup ReadAt \cup {"update_commit"},
                      id : PayrollId, row : Row]
      BY <1>4 DEF SubmitSlips, At, TypeOK, Job
    <3> QED BY <1>4, <3>1 DEF SubmitSlips, Continue, TypeOK
  <2>2. CheckedSlipsValid'
    BY <1>0, <2>1 DEF CheckedSlipsValid, SlipsOf
  <2> QED BY <1>0, <2>1, <2>2 DEF SlipsOfRow, SubmittedSlipsValid
<1>5. CASE StaffDelete(r)
  <2>1. /\ UNCHANGED payroll /\ slips' \subseteq slips /\ \A q \in Req : job'[q] = Idle
    BY <1>0, <1>5 DEF StaffDelete
  <2> QED BY <1>0, <2>1 DEF SlipsOfRow, SubmittedSlipsValid, CheckedSlipsValid, At
<1>6. CASE ~(CreateInsert(r) \/ UpdateCommit(r) \/ Save(r) \/ SubmitSlips(r) \/ StaffDelete(r))
  <2>1. UNCHANGED <<payroll, slips>>
    BY <1>6 DEF Step, CreateCheck, Begin, UpdateBegin, DeleteBegin, SubmitBegin, AuditBegin,
       PayBegin, CheckBegin, PaySettings, CheckReceipt, Abort
  <2>2. ~At(r, "submit_save")'
    <3>1. ASSUME NEW at, at # "submit_save", NEW p, NEW row, Start(r, at, p, row)
          PROVE  ~At(r, "submit_save")'
      BY <1>0, <3>1 DEF Start, At, TypeOK
    <3>2. ASSUME NEW at, at # "submit_save", NEW row, At(r, "pay_settings") \/ At(r, "check_receipt"),
                 Continue(r, at, row)
          PROVE  ~At(r, "submit_save")'
      <4>1. job[r] \in [at : SaveAt \cup ReadAt \cup {"update_commit"},
                        id : PayrollId, row : Row]
        BY <3>2 DEF At, TypeOK, Job
      <4> QED BY <1>0, <3>2, <4>1 DEF Continue, At, TypeOK
    <3>3. CASE Abort(r)
      BY <1>0, <3>3 DEF Abort, Finish, At, TypeOK
    <3>4. CASE \E b \in Body : CreateCheck(r, b)
      BY <3>1, <3>4 DEF CreateCheck
    <3>5. ASSUME NEW p \in PayrollId, Begin(r, p)
          PROVE  ~At(r, "submit_save")'
      BY <3>1, <3>5 DEF Begin, UpdateBegin, DeleteBegin, SubmitBegin, AuditBegin, PayBegin,
         CheckBegin
    <3>6. CASE (\E h \in TxHash, c \in Chain : PaySettings(r, h, c)) \/ CheckReceipt(r)
      BY <3>2, <3>6 DEF PaySettings, CheckReceipt
    <3> QED BY <1>6, <3>3, <3>4, <3>5, <3>6 DEF Step
  <2> QED BY <1>0, <2>1, <2>2 DEF SlipsOfRow, SubmittedSlipsValid, CheckedSlipsValid
<1> QED BY <1>1, <1>2, <1>3, <1>4, <1>5, <1>6

LEMMA SerialSlips ==
  ASSUME OneAtATime
  PROVE  Spec => []SlipInv
<1>1. Init => SlipInv
  BY InitType DEF Init, SlipInv, FreshInv, FreshCopies, SlipsOfRow, SubmittedSlipsValid,
     CheckedSlipsValid, At
<1>2. SlipInv /\ [Next]_vars => SlipInv'
  <2> SUFFICES ASSUME SlipInv, [Next]_vars
               PROVE  SlipInv'
    OBVIOUS
  <2>1. FreshInv'
    BY NextFresh DEF SlipInv
  <2>2. CASE UNCHANGED <<payroll, slips, job>>
    BY <2>1, <2>2 DEF SlipInv, SlipsOfRow, SubmittedSlipsValid, CheckedSlipsValid, At, SlipsOf
  <2> QED BY <2>2, StepSlips DEF Next, Confirm, vars
<1> QED BY <1>1, <1>2, PTL DEF Spec

\* Handled one at a time, the slips of a payroll are those of the request
\* that gave the row its month and amount.
THEOREM SlipsAreOfRow ==
  ASSUME OneAtATime
  PROVE  Spec => []SlipsOfRow
<1>1. SlipInv => SlipsOfRow
  BY DEF SlipInv
<1> QED BY <1>1, SerialSlips, PTL

\* Handled one at a time, a payroll that was submitted has no slip with an
\* invalid wallet address, unless an update request gave it its status.
THEOREM SubmittedSlipsAreValid ==
  ASSUME OneAtATime
  PROVE  Spec => []SubmittedSlipsValid
<1>1. SlipInv => SubmittedSlipsValid
  BY DEF SlipInv
<1> QED BY <1>1, SerialSlips, PTL
=============================================================================
