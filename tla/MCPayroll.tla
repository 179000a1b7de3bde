----------------------------- MODULE MCPayroll -----------------------------
(* Small instances of Payroll for TLC. *)
EXTENDS Payroll, TLC

CONSTANTS jan, feb, good, bad, h1, h2, arb, other

\* Two contents for the same month, one of which cannot be submitted.
MCOneMonth == {[month |-> jan, items |-> {good}],
               [month |-> jan, items |-> {good, bad}]}

\* Contents for two months, one of them without any slips.
MCTwoMonths == {[month |-> jan, items |-> {good, bad}],
                [month |-> feb, items |-> {}]}

MCSymmetry == Permutations(Req) \cup Permutations(PayrollId) \cup Permutations(TxHash)
=============================================================================
