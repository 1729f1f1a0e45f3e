-------------------------- MODULE MCAuthorizationFlow --------------------------
(* AuthorizationFlow on small instances: two sign-ins of one browser.      *)
EXTENDS AuthorizationFlow

CONSTANTS f1, f2, app, tms, uri1, uri2

(* A portal login and a sign-in for a client, in two tabs. *)
MCClientOf == [f \in Flow |-> IF f \in LoginFlow THEN tms ELSE app]
MCRedirectOf == [f \in Flow |-> IF f \in LoginFlow THEN uri1 ELSE uri2]
(* The client may also use a second redirect. *)
MCAllowed == {<<tms, uri1>>, <<app, uri2>>, <<app, uri1>>}
===============================================================================
