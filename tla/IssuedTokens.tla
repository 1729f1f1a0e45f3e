----------------------------- MODULE IssuedTokens -----------------------------
(***************************************************************************)
(* The life of a TMS token in the portal: the claims are computed, the     *)
(* token is signed and its row stored in issued_tokens, requests present   *)
(* it and the JwtValidator judges it, logout revokes it, and the cleanup   *)
(* task deletes its row once it has been expired for a while.              *)
(*                                                                         *)
(* Every database transaction is one step unless it runs several           *)
(* statements that others can interleave with (PostgreSQL READ COMMITTED,  *)
(* the default the code never changes).  Handlers run concurrently: each   *)
(* in-flight request is a slot of req.  The process can stop at any moment *)
(* and start again with another signing key in its environment; the        *)
(* database survives.                                                      *)
(***************************************************************************)
EXTENDS Integers

CONSTANTS
  Token,        \* TMS token strings; a token has a fresh jti, so it is minted once
  Req,          \* slots for requests in flight
  NoToken,      \* the value of a slot that holds no token
  Kid,          \* signing key ids the environment may configure
  KeyRows,      \* the kids that have a row in the table keys
  TokenTtl,     \* lifetime of a token (default_expiration_minutes)
  CleanupGrace, \* how long an expired row is kept (one hour in main.rs)
  MaxTime       \* horizon of the clock

ASSUME TtlAssumption == TokenTtl \in Nat
ASSUME GraceAssumption == CleanupGrace \in Nat
ASSUME HorizonAssumption == MaxTime \in Nat
ASSUME NoTokenAssumption == NoToken \notin Token
ASSUME KeyAssumption == KeyRows \subseteq Kid /\ Kid # {}

NoRow == [expiration |-> 0, revoked |-> FALSE, present |-> FALSE]

VARIABLES
  now,            \* the wall clock of server and database
  up,             \* is the process running
  signing_kid,    \* jwt_config.signing_key_kid of the running process
  jwt,            \* jwt[t]: the contents of token t, see Jwt
  issued_tokens,  \* the table: issued_tokens[t] is t's row or NoRow
  req,            \* req[r]: the request in slot r
  cleaner         \* the cleanup task and its cutoff

vars == <<now, up, signing_kid, jwt, issued_tokens, req, cleaner>>

(***************************************************************************)
(* A token string that has not been signed has st "unused" (its jti is not *)
(* drawn yet), "claims" (TmsTokenClaims are held in memory or in an        *)
(* authorization code), or "lost" (the process died holding the claims).   *)
(***************************************************************************)
Jwt == [st : {"unused", "claims", "lost", "signed"}, exp : Nat, kid : Kid]
Row == [expiration : Nat, revoked : BOOLEAN, present : BOOLEAN]
Op == {"logout", "whoami"}

(***************************************************************************)
(* dead is a history field: the token was already dead when the request    *)
(* arrived.  read_at is the moment the validator read the token's row.     *)
(***************************************************************************)
Request == [pc : {"idle", "presented", "row_ok", "admitted"},
            op : Op, token : Token \cup {NoToken}, read_at : Nat, dead : BOOLEAN]
Idle == [pc |-> "idle", op |-> "whoami", token |-> NoToken, read_at |-> 0, dead |-> FALSE]

TypeOK ==
  /\ now \in Nat
  /\ up \in BOOLEAN
  /\ signing_kid \in Kid
  /\ jwt \in [Token -> Jwt]
  /\ issued_tokens \in [Token -> Row]
  /\ req \in [Req -> Request]
  /\ \A r \in Req : req[r].pc # "idle" => req[r].token \in Token
  /\ cleaner \in [pc : {"waiting", "deleting"}, expires_before : Int]

is_expired(row) == row.expiration < now
is_revoked(row) == row.revoked

Live(t) == LET row == issued_tokens[t]
           IN  row.present /\ ~is_revoked(row) /\ ~is_expired(row)
Dead(t) == jwt[t].st = "signed" /\ ~Live(t)

Init ==
  /\ now = 0
  /\ up = TRUE
  /\ signing_kid \in Kid
  /\ jwt = [t \in Token |-> [st |-> "unused", exp |-> 0, kid |-> signing_kid]]
  /\ issued_tokens = [t \in Token |-> NoRow]
  /\ req = [r \in Req |-> Idle]
  /\ cleaner = [pc |-> "waiting", expires_before |-> 0]

-------------------------------------------------------------------------------
(***************************************************************************)
(* Minting.  The expiry is fixed when the claims are computed; the row is  *)
(* stored later, by make_auth_token, in a transaction of its own.          *)
(***************************************************************************)
get_tms_token_claims(t) ==
  /\ up
  /\ jwt[t].st = "unused"
  /\ jwt' = [jwt EXCEPT ![t].st = "claims", ![t].exp = now + TokenTtl]
  /\ UNCHANGED <<now, up, signing_kid, issued_tokens, req, cleaner>>

db_insert_token(t, expiration) ==
  issued_tokens' = [issued_tokens EXCEPT
    ![t] = [expiration |-> expiration, revoked |-> FALSE, present |-> TRUE]]

(* Bug: the claims can be used again, so the same token is stored twice. *)
Bug_make_auth_token(t) ==
  /\ up
  /\ jwt[t].st \in {"claims", "signed"}
  /\ jwt' = [jwt EXCEPT ![t].st = "signed", ![t].kid = signing_kid]
  /\ db_insert_token(t, jwt[t].exp)
  /\ UNCHANGED <<now, up, signing_kid, req, cleaner>>

make_auth_token(t) ==
  /\ up
  /\ jwt[t].st = "claims"
  /\ jwt' = [jwt EXCEPT ![t].st = "signed", ![t].kid = signing_kid]
  /\ db_insert_token(t, jwt[t].exp)
  /\ UNCHANGED <<now, up, signing_kid, req, cleaner>>

-------------------------------------------------------------------------------
(***************************************************************************)
(* A request arrives with a signed token, in its Authorization header or   *)
(* its cookie.                                                             *)
(***************************************************************************)
(* Bug: the validator does not keep the token for the handler. *)
Bug_Present(r, t, op) ==
  /\ up
  /\ req[r].pc = "idle"
  /\ jwt[t].st = "signed"
  /\ req' = [req EXCEPT ![r] = [Idle EXCEPT !.pc = "presented", !.op = op]]
  /\ UNCHANGED <<now, up, signing_kid, jwt, issued_tokens, cleaner>>

Present(r, t, op) ==
  /\ up
  /\ req[r].pc = "idle"
  /\ jwt[t].st = "signed"
  /\ req' = [req EXCEPT ![r] = [pc |-> "presented", op |-> op, token |-> t,
                                read_at |-> 0, dead |-> Dead(t)]]
  /\ UNCHANGED <<now, up, signing_kid, jwt, issued_tokens, cleaner>>

Reply(r) == req' = [req EXCEPT ![r] = Idle]

(* Bugs: one of the two checks of the row is forgotten. *)
Bug_IgnoreRevoked(t) == issued_tokens[t].present /\ ~is_expired(issued_tokens[t])
Bug_IgnoreExpired(t) == issued_tokens[t].present /\ ~is_revoked(issued_tokens[t])

(* The row as the validator judges it: found, not revoked, not expired. *)
RowAccepted(t) == Live(t)

ReadToken(r) ==
  /\ req[r].pc = "presented"
  /\ IF RowAccepted(req[r].token)
       THEN req' = [req EXCEPT ![r].pc = "row_ok", ![r].read_at = now]
       ELSE Reply(r)
  /\ UNCHANGED <<now, up, signing_kid, jwt, issued_tokens, cleaner>>

(***************************************************************************)
(* The key row is looked up by the kid in the token's header and the       *)
(* signature verified.  The exp claim is in milliseconds where the decoder *)
(* compares seconds, so the signature check itself never refuses a token   *)
(* for its age: only the row does.                                         *)
(***************************************************************************)
VerifyKey(r) ==
  /\ req[r].pc = "row_ok"
  /\ IF jwt[req[r].token].kid \in KeyRows
       THEN req' = [req EXCEPT ![r].pc = "admitted"]
       ELSE Reply(r)
  /\ UNCHANGED <<now, up, signing_kid, jwt, issued_tokens, cleaner>>

(***************************************************************************)
(* logout: an update of the row in a second transaction; a row deleted in  *)
(* the meantime makes the update find nothing and the request fail.  So    *)
(* does a transaction that cannot begin or commit: the token lives on.     *)
(***************************************************************************)
db_revoke_token(t) ==
  issued_tokens' = IF issued_tokens[t].present
                     THEN [issued_tokens EXCEPT ![t].revoked = TRUE]
                     ELSE issued_tokens

logout(r) ==
  /\ req[r].pc = "admitted"
  /\ req[r].op = "logout"
  /\ db_revoke_token(req[r].token) \/ UNCHANGED issued_tokens
  /\ Reply(r)
  /\ UNCHANGED <<now, up, signing_kid, jwt, cleaner>>

(* whoami reads the key row and the token again, and never the token's row. *)
whoami(r) ==
  /\ req[r].pc = "admitted"
  /\ req[r].op = "whoami"
  /\ Reply(r)
  /\ UNCHANGED <<now, up, signing_kid, jwt, issued_tokens, cleaner>>

-------------------------------------------------------------------------------
(***************************************************************************)
(* The cleanup task.  The cutoff is computed after the transaction begins  *)
(* and used by a later statement.  A failed pass is logged and the task    *)
(* waits for its next tick.                                                *)
(***************************************************************************)
(* Bugs: the grace is left out, or added where it must be subtracted. *)
Bug_NoGrace ==
  /\ up
  /\ cleaner.pc = "waiting"
  /\ cleaner' = [pc |-> "deleting", expires_before |-> now]
  /\ UNCHANGED <<now, up, signing_kid, jwt, issued_tokens, req>>

Bug_GraceAdded ==
  /\ up
  /\ cleaner.pc = "waiting"
  /\ cleaner' = [pc |-> "deleting", expires_before |-> now + CleanupGrace]
  /\ UNCHANGED <<now, up, signing_kid, jwt, issued_tokens, req>>

CleanupTick ==
  /\ up
  /\ cleaner.pc = "waiting"
  /\ cleaner' = [pc |-> "deleting", expires_before |-> now - CleanupGrace]
  /\ UNCHANGED <<now, up, signing_kid, jwt, issued_tokens, req>>

db_cleanup_tokens(expired_before) ==
  issued_tokens' = [t \in Token |->
    IF issued_tokens[t].present /\ issued_tokens[t].expiration < expired_before
      THEN NoRow ELSE issued_tokens[t]]

(* Bug: the pass ends without a commit, so the deletion is rolled back. *)
Bug_CleanupDelete ==
  /\ cleaner.pc = "deleting"
  /\ cleaner' = [cleaner EXCEPT !.pc = "waiting"]
  /\ UNCHANGED <<now, up, signing_kid, jwt, issued_tokens, req>>

CleanupDelete ==
  /\ cleaner.pc = "deleting"
  /\ db_cleanup_tokens(cleaner.expires_before)
  /\ cleaner' = [cleaner EXCEPT !.pc = "waiting"]
  /\ UNCHANGED <<now, up, signing_kid, jwt, req>>

CleanupFail ==
  /\ cleaner.pc = "deleting"
  /\ cleaner' = [cleaner EXCEPT !.pc = "waiting"]
  /\ UNCHANGED <<now, up, signing_kid, jwt, issued_tokens, req>>

-------------------------------------------------------------------------------
Tick ==
  /\ now < MaxTime
  /\ now' = now + 1
  /\ UNCHANGED <<up, signing_kid, jwt, issued_tokens, req, cleaner>>

(***************************************************************************)
(* The process stops: requests and the cleanup task vanish, transactions   *)
(* that have not committed roll back.  Claims survive only if they were    *)
(* saved with an authorization code.                                       *)
(***************************************************************************)
Stop ==
  /\ up
  /\ up' = FALSE
  /\ \E saved \in SUBSET {t \in Token : jwt[t].st = "claims"} :
       jwt' = [t \in Token |-> IF jwt[t].st = "claims" /\ t \notin saved
                                 THEN [jwt[t] EXCEPT !.st = "lost"] ELSE jwt[t]]
  /\ req' = [r \in Req |-> Idle]
  /\ cleaner' = [cleaner EXCEPT !.pc = "waiting"]
  /\ UNCHANGED <<now, signing_kid, issued_tokens>>

(* The configuration, with the signing key, is read once at start. *)
Start ==
  /\ ~up
  /\ up' = TRUE
  /\ signing_kid' \in Kid
  /\ UNCHANGED <<now, jwt, issued_tokens, req, cleaner>>

Handler(r) ==
  \/ \E t \in Token, op \in Op : Present(r, t, op)
  \/ ReadToken(r)
  \/ VerifyKey(r)
  \/ logout(r)
  \/ whoami(r)

Next ==
  \/ \E t \in Token : get_tms_token_claims(t) \/ make_auth_token(t)
  \/ \E r \in Req : Handler(r)
  \/ CleanupTick \/ CleanupDelete \/ CleanupFail
  \/ Tick \/ Stop \/ Start

Spec == Init /\ [][Next]_vars

(***************************************************************************)
(* The clock advances, the process is restarted when it stops, and neither *)
(* crashes nor database errors hit every single pass of the cleanup task.  *)
(***************************************************************************)
FairSpec == /\ Spec
            /\ WF_vars(Tick)
            /\ WF_vars(Start)
            /\ SF_vars(CleanupTick)
            /\ SF_vars(CleanupDelete)

-------------------------------------------------------------------------------
(***************************************************************************)
(* A request that arrives after its token died - logged out, expired or    *)
(* cleaned up - is never admitted, whatever runs between its arrival and   *)
(* the validator's reads.  (jwt_utils.rs get_token_claims)                 *)
(***************************************************************************)
NoAdmissionAfterDeath ==
  \A r \in Req : req[r].pc \in {"row_ok", "admitted"} => ~req[r].dead

(***************************************************************************)
(* A logout whose token was found valid still finds the row when it comes  *)
(* to revoke it, unless the request itself took longer than the cleanup    *)
(* grace: the one-hour margin in main.rs is what keeps an ordinary logout  *)
(* from answering 404.                                                     *)
(***************************************************************************)
LogoutFindsItsRow ==
  \A r \in Req : /\ req[r].pc \in {"row_ok", "admitted"}
                 /\ ~issued_tokens[req[r].token].present
                 => now > req[r].read_at + CleanupGrace

(***************************************************************************)
(* Once a token has been logged out, has expired or has been cleaned up,   *)
(* nothing brings it back: no second insert, no reset of revoked, no       *)
(* restart with other keys.                                                *)
(***************************************************************************)
DeadForGood == \A t \in Token : Dead(t) => Dead(t)'
DeadStaysDead == [][DeadForGood]_vars

(***************************************************************************)
(* No step removes the row of a token that is still live: the cleanup task *)
(* and its cutoff, computed earlier, never end a session.                  *)
(***************************************************************************)
LiveRowsStay == \A t \in Token : Live(t) => issued_tokens'[t].present
CleanupSparesLive == [][LiveRowsStay]_vars

(***************************************************************************)
(* A row expired for longer than the grace is eventually deleted, across   *)
(* restarts and failed passes of the cleanup task.                         *)
(***************************************************************************)
Overdue(t) == /\ issued_tokens[t].present
              /\ issued_tokens[t].expiration + CleanupGrace < now
ExpiredRowsRemoved ==
  \A t \in Token : Overdue(t) ~> ~issued_tokens[t].present

(***************************************************************************)
(* The module implements the abstract life cycle: the row decides whether  *)
(* a token is live, and reading it is the instant of judgement.            *)
(***************************************************************************)
statusBar == [t \in Token |-> IF jwt[t].st # "signed" THEN "unborn"
                              ELSE IF Live(t) THEN "live" ELSE "dead"]
phaseOf(q) == [step |-> CASE q.pc = "idle" -> "free"
                          [] q.pc = "presented" -> "presented"
                          [] q.pc = "row_ok" -> "judged"
                          [] OTHER -> "admitted",
               token |-> q.token]
phaseBar == [r \in Req |-> phaseOf(req[r])]

Lifecycle == INSTANCE SessionLifecycle WITH status <- statusBar, phase <- phaseBar
LifecycleSpec == Lifecycle!Spec
===============================================================================
