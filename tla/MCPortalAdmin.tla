--------------------------- MODULE MCPortalAdmin ---------------------------
(* A small instance of PortalAdmin for TLC. *)
EXTENDS PortalAdmin, TLC

CONSTANTS root, u1, u2, u3, x1, x2, d1, d2, d3, f1, f2

By(who, op, on, arg) == [who |-> who, op |-> op, on |-> on, arg |-> arg, uri |-> "exact"]

Extended(q) == [q EXCEPT !.uri = "extended"]

\* f2 has the permission of f1, as functions of one page do.
MCPermCode == [f \in Func |-> "edit"]

MCNeeds == [op \in {"user_update", "user_delete", "user_add", "password", "wallet",
                    "role_create", "role_update", "role_delete",
                    "dept_create", "dept_update", "dept_delete",
                    "bind_func", "unbind_func", "bind_user", "unbind_user"} |->
              IF op \in {"password", "wallet"} THEN f1 ELSE None]

\* At first only u2 has the permission.
MCUserRole == {<<u2, x1>>}
MCRoleFunc == {<<x1, f2>>}

MCRequest ==
  {By(root, "user_update", u1, {d1, d2}), By(root, "user_update", u1, {d1}),
   Extended(By(root, "user_delete", u1, {})), By(root, "user_add", None, {d1}),
   By(u1, "password", u1, {}), By(u2, "password", u1, {}),
   Extended(By(u1, "password", u1, {})), Extended(By(u1, "wallet", u1, {})),
   Extended(By(root, "wallet", u1, {})),
   By(root, "role_update", x1, {}), By(root, "role_delete", x1, {}),
   By(root, "dept_create", None, {}), By(root, "dept_delete", d1, {}),
   By(root, "bind_user", x1, u1), By(root, "unbind_user", x1, u1),
   By(root, "bind_func", x1, f1), By(root, "unbind_func", x1, f2)}

MCSymmetry == Permutations(Req)
=============================================================================
