--------------------------- MODULE SessionLifecycle ---------------------------
(***************************************************************************)
(* What the portal promises about TMS tokens, without saying how.          *)
(*                                                                         *)
(* A token is unborn, then live, then dead, and never goes back.  A        *)
(* request that presents a token is admitted only if, at some moment       *)
(* between its arrival and its admission, the token was live: a request    *)
(* behaves as if the token had been judged at one instant.                 *)
(***************************************************************************)
CONSTANTS
  Token,  \* TMS token strings (each carries a fresh jti)
  NoToken, \* the value of a slot that holds no token
  Req     \* request slots of the server

VARIABLES
  status, \* status[t]: "unborn", "live" or "dead"
  phase   \* phase[r]: [step, token], how far the request has come

Free == [step |-> "free", token |-> NoToken]

absVars == <<status, phase>>

Init == /\ status = [t \in Token |-> "unborn"]
        /\ phase = [r \in Req |-> Free]

(***************************************************************************)
(* Tokens only move forward.  Several may die at once, when time passes.   *)
(***************************************************************************)
Forward(a, b) == <<a, b>> \in {<<"unborn", "unborn">>, <<"unborn", "live">>,
                               <<"unborn", "dead">>, <<"live", "live">>,
                               <<"live", "dead">>, <<"dead", "dead">>}

Age == /\ status' \in [Token -> {"unborn", "live", "dead"}]
       /\ \A t \in Token : Forward(status[t], status'[t])
       /\ UNCHANGED phase

Present(r, t) == /\ phase[r] = Free
                 /\ phase' = [phase EXCEPT ![r] = [step |-> "presented", token |-> t]]
                 /\ UNCHANGED status

(* The instant at which the token is judged. *)
Judge(r) == /\ phase[r].step = "presented"
            /\ status[phase[r].token] = "live"
            /\ phase' = [phase EXCEPT ![r].step = "judged"]
            /\ UNCHANGED status

Admit(r) == /\ phase[r].step = "judged"
            /\ phase' = [phase EXCEPT ![r].step = "admitted"]
            /\ UNCHANGED status

(* A request may end at any moment; an admitted one may kill its token.    *)
Finish(r) == /\ phase[r] # Free
             /\ phase' = [phase EXCEPT ![r] = Free]
             /\ \/ UNCHANGED status
                \/ /\ phase[r].step = "admitted"
                   /\ status' = [status EXCEPT ![phase[r].token] = "dead"]

(* The server restarts: every request in progress is gone. *)
Abandon == /\ phase' = [r \in Req |-> Free]
           /\ UNCHANGED status

Next == \/ Age
        \/ Abandon
        \/ \E r \in Req : \/ \E t \in Token : Present(r, t)
                          \/ Judge(r)
                          \/ Admit(r)
                          \/ Finish(r)

Spec == Init /\ [][Next]_absVars
===============================================================================
