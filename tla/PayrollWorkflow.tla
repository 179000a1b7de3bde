-------------------------- MODULE PayrollWorkflow --------------------------
(***************************************************************************)
(* What the payroll handlers of cmd/modapi/http/portal/admin.go promise    *)
(* together: the life of a payroll, one atomic step per accepted request.  *)
(*                                                                         *)
(*   none -> create -> waiting_approval -> approved -> paying -> paid      *)
(*                                      \-> rejected                       *)
(*                                                                         *)
(* An audit that approves is on record in approved.  A draft may be        *)
(* edited, and nothing but the draft is sure of an edit: the status is the *)
(* one the request carries, so that an edit may leave the workflow (the    *)
(* empty status, from which no handler takes it on) or jump ahead in it    *)
(* without audit or payment.  Once a payroll is no draft, every step is    *)
(* one of the arrows: "rejected" and "paid" are final, a payment is        *)
(* recorded once, and "paid" needs the recorded payment to be confirmed.   *)
(* Payroll.tla implements this module when requests are handled one at a   *)
(* time.                                                                   *)
(***************************************************************************)
CONSTANTS PayrollId,   \* ids of admin_portal_payroll
          Payment,     \* pairs of a transaction hash and a chain
          NoPayment,   \* tx_hash and chain are both empty
          Status       \* the texts of the column status

VARIABLES status,      \* status[p] : "none" before p is created
          payment,     \* payment[p] : the recorded payment of p
          confirmed,   \* the payments a chain has confirmed
          approved     \* the payrolls an audit has approved

vars == <<status, payment, confirmed, approved>>

Init == /\ status = [p \in PayrollId |-> "none"]
        /\ payment = [p \in PayrollId |-> NoPayment]
        /\ confirmed = {}
        /\ approved = {}

Move(p, from, to) == /\ status[p] = from
                     /\ status' = [status EXCEPT ![p] = to]
                     /\ UNCHANGED confirmed

Draft(p)  == /\ Move(p, "none", "create")
             /\ UNCHANGED <<payment, approved>>
Edit(p)   == /\ \E s \in Status : Move(p, "create", s)
             /\ UNCHANGED <<payment, approved>>
Submit(p) == /\ Move(p, "create", "waiting_approval")
             /\ UNCHANGED <<payment, approved>>
Approve(p) == /\ Move(p, "waiting_approval", "approved")
              /\ approved' = approved \cup {p}
              /\ UNCHANGED payment
Reject(p) == /\ Move(p, "waiting_approval", "rejected")
             /\ UNCHANGED <<payment, approved>>
Pay(p)    == /\ payment[p] = NoPayment
             /\ Move(p, "approved", "paying")
             /\ \E x \in Payment : payment' = [payment EXCEPT ![p] = x]
             /\ UNCHANGED approved
Settle(p) == /\ payment[p] \in confirmed
             /\ Move(p, "paying", "paid")
             /\ UNCHANGED <<payment, approved>>

Confirm   == /\ \E x \in Payment : confirmed' = confirmed \cup {x}
             /\ UNCHANGED <<status, payment, approved>>

Next == \/ \E p \in PayrollId : Draft(p) \/ Edit(p) \/ Submit(p) \/ Approve(p)
                                \/ Reject(p) \/ Pay(p) \/ Settle(p)
        \/ Confirm

Spec == Init /\ [][Next]_vars
=============================================================================
