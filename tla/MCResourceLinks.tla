---------------------------- MODULE MCResourceLinks ----------------------------
(* ResourceLinks on small instances: two resources, which the provider may *)
(* list in either order.                                                   *)
EXTENDS ResourceLinks

CONSTANTS f1, f2, ann, bob, tacc, acct, other, r1, r2

MCResourceLists == {<<r1, r2>>, <<r2, r1>>}
(* f1 and f3 are the same link of ann, f2 is bob's; all in one browser. *)
MCIdentityOf == [f \in Flow |-> IF f = f2 THEN bob ELSE ann]
MCRpOf == [f \in Flow |-> tacc]
MCAccountOf == [f \in Flow |-> IF f = f2 THEN other ELSE acct]
===============================================================================
