------------------------------- MODULE LinkTable -------------------------------
(***************************************************************************)
(* What the rest of the portal relies on about resource_provider_logins:   *)
(* a row for a key (TMS identity, provider, provider account) appears      *)
(* enabled, may be disabled by an operator, is refreshed by a new sign-in  *)
(* without being re-enabled, and disappears when the user unlinks it.      *)
(***************************************************************************)
EXTENDS Integers

CONSTANTS
  Key,     \* the keys (tms_identity, rp_id, rp_account)
  MaxTime  \* horizon of the clock

VARIABLES
  now,     \* the wall clock
  links    \* links[k]: the row of k as its readers see it

NoLink == [present |-> FALSE, enabled |-> FALSE, last_login |-> 0]
Link == [present : BOOLEAN, enabled : BOOLEAN, last_login : Nat]

LinkInit == /\ now = 0
            /\ links = [k \in Key |-> NoLink]

(***************************************************************************)
(* A sign-in is recorded with a time t taken before the row was written:   *)
(* of two that overlap, the later write may carry the earlier time.        *)
(***************************************************************************)
Record(k, t) ==
  /\ t \in 0 .. now
  /\ links' = [links EXCEPT ![k] =
       [present |-> TRUE, last_login |-> t,
        enabled |-> IF links[k].present THEN links[k].enabled ELSE TRUE]]
  /\ UNCHANGED now

Remove(k) == /\ links[k].present
             /\ links' = [links EXCEPT ![k] = NoLink]
             /\ UNCHANGED now

(* An operator clears the flag; no handler does. *)
Disable(k) == /\ links[k].present
              /\ links' = [links EXCEPT ![k].enabled = FALSE]
              /\ UNCHANGED now

LinkTick == /\ now < MaxTime
            /\ now' = now + 1
            /\ UNCHANGED links

LinkNext == \/ LinkTick
            \/ \E k \in Key : \/ \E t \in 0 .. now : Record(k, t)
                              \/ Remove(k)
                              \/ Disable(k)

LinkSpec == LinkInit /\ [][LinkNext]_<<now, links>>
===============================================================================
