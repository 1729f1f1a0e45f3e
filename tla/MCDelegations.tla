----------------------------- MODULE MCDelegations -----------------------------
(* Delegations on small instances: two users with a link each to the same  *)
(* account, the portal and one other client, and a name nobody has.        *)
EXTENDS Delegations

CONSTANTS ann, bob, tacc, acct, tms, app, tms_name, app_name, unknown

MCKey == {<<ann, tacc, acct>>, <<bob, tacc, acct>>}
MCClientNamed ==
  [n \in Name |-> CASE n = tms_name -> tms [] n = app_name -> app [] OTHER -> NoClient]
===============================================================================
