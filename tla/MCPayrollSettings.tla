-------------------------- MODULE MCPayrollSettings --------------------------
(* A small instance of PayrollSettings for TLC. *)
EXTENDS PayrollSettings, TLC

CONSTANTS a, b

Uniform(v) == [n \in SettingName |-> v]

Only(n, v) == [m \in SettingName |-> IF m = n THEN v ELSE Empty]

\* Two complete contents, one without contract and token, and none at all.
MCSave == {Uniform(a), Uniform(b), Only("chain", b), Uniform(Empty)}

MCSymmetry == Permutations(Req) \cup Permutations(User)
=============================================================================
