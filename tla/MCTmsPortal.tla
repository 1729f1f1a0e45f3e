------------------------------ MODULE MCTmsPortal ------------------------------
(* The portal on small instances: ann at the portal, bob at another client, *)
(* each with one account, one request slot, and two sign-ins at providers.  *)
EXTENDS TmsPortal

CONSTANTS ann, bob, tacc, acct, tms, app, app_name, tok_ann, tok_bob

MCKey == {<<ann, tacc, acct>>, <<bob, tacc, acct>>}
MCClientNamed == [n \in Name |-> app]
MCContextOf ==
  [t \in Token |-> IF t = tok_ann THEN [tms_identity |-> ann, client_id |-> tms]
                                  ELSE [tms_identity |-> bob, client_id |-> app]]
===============================================================================
