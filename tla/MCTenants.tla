----------------------------- MODULE MCTenants -----------------------------
(* A small instance of Tenants for TLC. *)
EXTENDS Tenants, TLC

Asked(op, app, on, unique) ==
  [op |-> op, app |-> app, on |-> on, unique |-> unique, body |-> 0]

Wallet(app, body) == [Asked("wallet", app, 1, "a") EXCEPT !.body = body]

\* Channel 1 is the operator's, 2 the first tenant's, 3 the next one's.
MCRequest ==
  {Asked("create", app, 1, "b") : app \in {1, 2}} \cup
  {Asked("create", 1, 1, "a"), Asked("update", 1, 1, "a"), Asked("update", 2, 1, "b"),
   Wallet(2, 1), Wallet(3, 1), Wallet(3, 2),
   Asked("portal_create", 1, 1, "b"), Asked("portal_create", 1, 1, "a"),
   Asked("portal_update", 1, 1, "a"), Asked("portal_update", 1, 1, "b"),
   Asked("portal_delete", 1, 1, "a"), Asked("portal_delete", 1, 2, "a")}

MCSymmetry == Permutations(Req)
=============================================================================
