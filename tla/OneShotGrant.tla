----------------------------- MODULE OneShotGrant -----------------------------
(***************************************************************************)
(* What signing in through the portal promises a client: the user asks     *)
(* from one client, the identity provider vouches for the user once, and   *)
(* at most one token comes out of it, issued to the client that asked.     *)
(* A grant may be lost on the way; it is never duplicated or diverted.     *)
(***************************************************************************)
EXTENDS Naturals

CONSTANTS
  Flow,     \* sign-ins started by users
  Client,   \* registered clients
  NoClient, \* the holder of a token that was not issued
  ClientOf  \* ClientOf[f]: the client for which sign-in f was started

VARIABLES
  grant,    \* grant[f]: "none", "asked", "vouched" or "issued"
  holder,   \* holder[f]: the client that f's token was issued to
  issued    \* issued[f]: how many tokens sign-in f produced

absVars == <<grant, holder, issued>>

Init == /\ grant = [f \in Flow |-> "none"]
        /\ holder = [f \in Flow |-> NoClient]
        /\ issued = [f \in Flow |-> 0]

Ask(f) == /\ grant[f] = "none"
          /\ grant' = [grant EXCEPT ![f] = "asked"]
          /\ UNCHANGED <<holder, issued>>

(* The provider accepts its own code once. *)
Vouch(f) == /\ grant[f] = "asked"
            /\ grant' = [grant EXCEPT ![f] = "vouched"]
            /\ UNCHANGED <<holder, issued>>

Issue(f) == /\ grant[f] = "vouched"
            /\ grant' = [grant EXCEPT ![f] = "issued"]
            /\ holder' = [holder EXCEPT ![f] = ClientOf[f]]
            /\ issued' = [issued EXCEPT ![f] = 1]

Next == \E f \in Flow : Ask(f) \/ Vouch(f) \/ Issue(f)

Spec == Init /\ [][Next]_absVars
===============================================================================
