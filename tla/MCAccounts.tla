------------------------------ MODULE MCAccounts ------------------------------
(* Instances of Accounts for TLC. *)
EXTENDS Accounts

CONSTANTS u1, u2, admin, user, analyst, t1, t2, s1, s2

\* One thread edits users, the other roles, and both serve the provider's callbacks.
DividedOps ==
  [t \in {t1, t2} |-> {"setup", "login"} \union
     IF t = t1 THEN {"create_user", "edit_user", "sso"}
     ELSE {"create_role", "edit_role", "delete_role", "sso"}]

SingleRoles == {{admin}, {analyst}}
=============================================================================
