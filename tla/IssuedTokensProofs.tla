-------------------------- MODULE IssuedTokensProofs --------------------------
(***************************************************************************)
(* Theorems about IssuedTokens, for any number of tokens, requests and     *)
(* keys, any lifetimes and any horizon.                                    *)
(***************************************************************************)
EXTENDS IssuedTokens, TLAPS

(***************************************************************************)
(* The inductive invariant.  RowsFollowClaims ties a row to the token's    *)
(* claims and says that the row of a signed token is missing only when the *)
(* token expired longer ago than the grace; CutoffIsOld bounds the cutoff  *)
(* the cleanup task computed before its delete; RequestKeepsFacts carries  *)
(* what the validator learned up to the moment the handler uses it.        *)
(***************************************************************************)
RowsFollowClaims ==
  \A t \in Token :
    /\ issued_tokens[t].present =>
         jwt[t].st = "signed" /\ issued_tokens[t].expiration = jwt[t].exp
    /\ jwt[t].st = "signed" /\ ~issued_tokens[t].present =>
         jwt[t].exp + CleanupGrace < now

CutoffIsOld ==
  cleaner.pc = "deleting" => cleaner.expires_before <= now - CleanupGrace

RequestKeepsFacts(r) ==
  /\ req[r].pc = "idle" => req[r].token = NoToken
  /\ req[r].pc # "idle" => jwt[req[r].token].st = "signed"
  /\ req[r].pc = "presented" /\ req[r].dead => Dead(req[r].token)
  /\ req[r].pc \in {"row_ok", "admitted"} =>
       /\ ~req[r].dead
       /\ req[r].read_at <= jwt[req[r].token].exp

IndInv == /\ TypeOK
          /\ RowsFollowClaims
          /\ CutoffIsOld
          /\ \A r \in Req : RequestKeepsFacts(r)

USE TtlAssumption, GraceAssumption, HorizonAssumption, NoTokenAssumption, KeyAssumption

(* The initial state is well typed and satisfies the invariant. *)
LEMMA InitInv == Init => IndInv
BY DEF Init, IndInv, TypeOK, RowsFollowClaims, CutoffIsOld, RequestKeepsFacts, NoRow, Idle,
       Jwt, Row, Request, Op

(* Updating some fields of a well-typed record gives a well-typed record. *)
LEMMA JwtFields ==
  ASSUME NEW j \in Jwt, NEW e \in Nat, NEW k \in Kid
  PROVE  /\ [j EXCEPT !.st = "claims", !.exp = e] \in Jwt
         /\ [j EXCEPT !.st = "signed", !.kid = k] \in Jwt
         /\ [j EXCEPT !.st = "lost"] \in Jwt
BY DEF Jwt

LEMMA RequestFields ==
  ASSUME NEW q \in Request, NEW n \in Nat
  PROVE  /\ [q EXCEPT !.pc = "row_ok", !.read_at = n] \in Request
         /\ [q EXCEPT !.pc = "admitted"] \in Request
         /\ Idle \in Request
         /\ Idle.pc = "idle"
BY DEF Request, Idle, Op

LEMMA RowFields ==
  ASSUME NEW row \in Row, NEW e \in Nat
  PROVE  /\ [row EXCEPT !.revoked = TRUE] \in Row
         /\ [expiration |-> e, revoked |-> FALSE, present |-> TRUE] \in Row
         /\ NoRow \in Row
BY DEF Row, NoRow

(* Every step keeps the types. *)
LEMMA NextType == TypeOK /\ [Next]_vars => TypeOK'
<1> SUFFICES ASSUME TypeOK, [Next]_vars PROVE TypeOK'
  OBVIOUS
<1>t. /\ now \in Nat
      /\ up \in BOOLEAN
      /\ signing_kid \in Kid
      /\ jwt \in [Token -> Jwt]
      /\ issued_tokens \in [Token -> Row]
      /\ req \in [Req -> Request]
      /\ \A r \in Req : req[r].pc # "idle" => req[r].token \in Token
      /\ cleaner \in [pc : {"waiting", "deleting"}, expires_before : Int]
  BY DEF TypeOK
<1>e. \A t \in Token : jwt[t] \in Jwt /\ jwt[t].exp \in Nat
  BY <1>t DEF Jwt
<1>1. ASSUME NEW t \in Token, get_tms_token_claims(t) PROVE TypeOK'
  <2>1. now + TokenTtl \in Nat
    BY <1>t
  <2>2. jwt' \in [Token -> Jwt]
    BY <1>1, <1>t, <1>e, <2>1, JwtFields DEF get_tms_token_claims
  <2> QED
    BY <1>1, <1>t, <2>2 DEF get_tms_token_claims, TypeOK
<1>2. ASSUME NEW t \in Token, make_auth_token(t) PROVE TypeOK'
  <2>1. jwt' \in [Token -> Jwt]
    BY <1>2, <1>t, <1>e, JwtFields DEF make_auth_token
  <2>2. issued_tokens' \in [Token -> Row]
    BY <1>2, <1>t, <1>e, RowFields DEF make_auth_token, db_insert_token
  <2> QED
    BY <1>2, <1>t, <2>1, <2>2 DEF make_auth_token, TypeOK
<1>3. ASSUME NEW r \in Req, NEW t \in Token, NEW op \in Op, Present(r, t, op) PROVE TypeOK'
  <2>1. Dead(t) \in BOOLEAN
    BY DEF Dead, Live, is_expired, is_revoked
  <2>2. [pc |-> "presented", op |-> op, token |-> t, read_at |-> 0, dead |-> Dead(t)] \in Request
    BY <2>1 DEF Request
  <2> QED
    BY <1>3, <1>t, <2>2 DEF Present, TypeOK
<1>4. ASSUME NEW r \in Req, ReadToken(r) PROVE TypeOK'
  <2>1. CASE RowAccepted(req[r].token)
    <3>1. req' = [req EXCEPT ![r] = [req[r] EXCEPT !.pc = "row_ok", !.read_at = now]]
      BY <1>4, <2>1, <1>t DEF ReadToken
    <3>2. [req[r] EXCEPT !.pc = "row_ok", !.read_at = now].token = req[r].token
      BY <1>t DEF Request
    <3> QED
      BY <1>4, <1>t, <3>1, <3>2, RequestFields DEF ReadToken, TypeOK
  <2>2. CASE ~RowAccepted(req[r].token)
    BY <1>4, <2>2, <1>t, RequestFields DEF ReadToken, Reply, TypeOK
  <2> QED
    BY <2>1, <2>2
<1>5. ASSUME NEW r \in Req, VerifyKey(r) PROVE TypeOK'
  <2>1. CASE jwt[req[r].token].kid \in KeyRows
    <3>1. req' = [req EXCEPT ![r] = [req[r] EXCEPT !.pc = "admitted"]]
      BY <1>5, <2>1, <1>t DEF VerifyKey
    <3>2. [req[r] EXCEPT !.pc = "admitted"].token = req[r].token
      BY <1>t DEF Request
    <3> QED
      BY <1>5, <1>t, <3>1, <3>2, RequestFields DEF VerifyKey, TypeOK
  <2>2. CASE ~(jwt[req[r].token].kid \in KeyRows)
    BY <1>5, <2>2, <1>t, RequestFields DEF VerifyKey, Reply, TypeOK
  <2> QED
    BY <2>1, <2>2
<1>6. ASSUME NEW r \in Req, logout(r) \/ whoami(r) PROVE TypeOK'
  <2>1. req' = [req EXCEPT ![r] = Idle]
    BY <1>6 DEF logout, whoami, Reply
  <2>2. [issued_tokens EXCEPT ![req[r].token].revoked = TRUE] \in [Token -> Row]
    BY <1>t, RowFields
  <2>3. issued_tokens' \in [Token -> Row]
    BY <1>6, <1>t, <2>2 DEF logout, whoami, db_revoke_token
  <2> QED
    BY <1>6, <1>t, <2>1, <2>3, RequestFields DEF logout, whoami, TypeOK
<1>7. CASE CleanupTick
  BY <1>7, <1>t DEF CleanupTick, TypeOK
<1>8. CASE CleanupDelete
  BY <1>8, <1>t, RowFields DEF CleanupDelete, db_cleanup_tokens, TypeOK
<1>9. CASE CleanupFail
  BY <1>9, <1>t DEF CleanupFail, TypeOK
<1>10. CASE Tick
  BY <1>10, <1>t DEF Tick, TypeOK
<1>11. CASE Stop
  <2>1. jwt' \in [Token -> Jwt]
    BY <1>11, <1>t, <1>e, JwtFields DEF Stop
  <2> QED
    BY <1>11, <1>t, <2>1, RequestFields DEF Stop, TypeOK
<1>12. CASE Start
  BY <1>12, <1>t DEF Start, TypeOK
<1>13. CASE UNCHANGED vars
  BY <1>13, <1>t DEF vars, TypeOK
<1> QED
  BY <1>1, <1>2, <1>3, <1>4, <1>5, <1>6, <1>7, <1>8, <1>9, <1>10, <1>11, <1>12, <1>13
     DEF Next, Handler

(* What a signed token says never changes again. *)
LEMMA SignedStays ==
  TypeOK /\ [Next]_vars =>
    \A t \in Token : jwt[t].st = "signed" => jwt'[t] = jwt[t]
<1> SUFFICES ASSUME TypeOK, [Next]_vars, NEW u \in Token, jwt[u].st = "signed"
             PROVE  jwt'[u] = jwt[u]
  OBVIOUS
<1>t. jwt \in [Token -> Jwt]
  BY DEF TypeOK
<1>1. ASSUME NEW t \in Token, get_tms_token_claims(t) PROVE jwt'[u] = jwt[u]
  BY <1>1, <1>t DEF get_tms_token_claims
<1>2. ASSUME NEW t \in Token, make_auth_token(t) PROVE jwt'[u] = jwt[u]
  BY <1>2, <1>t DEF make_auth_token
<1>3. CASE Stop
  BY <1>3, <1>t DEF Stop
<1>4. CASE UNCHANGED jwt
  BY <1>4
<1> QED
  BY <1>1, <1>2, <1>3, <1>4
     DEF Next, Handler, Present, ReadToken, VerifyKey, logout, whoami, CleanupTick,
         CleanupDelete, CleanupFail, Tick, Start, vars

(* The rows and the cutoff keep their part of the invariant. *)
LEMMA RowsStep == IndInv /\ [Next]_vars => RowsFollowClaims' /\ CutoffIsOld'
<1> SUFFICES ASSUME IndInv, [Next]_vars PROVE RowsFollowClaims' /\ CutoffIsOld'
  OBVIOUS
<1>t. /\ now \in Nat
      /\ jwt \in [Token -> Jwt]
      /\ issued_tokens \in [Token -> Row]
      /\ req \in [Req -> Request]
      /\ \A r \in Req : req[r].pc # "idle" => req[r].token \in Token
      /\ cleaner \in [pc : {"waiting", "deleting"}, expires_before : Int]
      /\ RowsFollowClaims
      /\ CutoffIsOld
  BY DEF IndInv, TypeOK
<1>e. \A t \in Token : jwt[t].exp \in Nat /\ issued_tokens[t].expiration \in Nat
  BY <1>t DEF Jwt, Row
<1> USE DEF RowsFollowClaims, CutoffIsOld
<1>1. ASSUME NEW t \in Token, get_tms_token_claims(t)
      PROVE  RowsFollowClaims' /\ CutoffIsOld'
  <2>1. /\ jwt'[t].st = "claims"
        /\ \A u \in Token \ {t} : jwt'[u] = jwt[u]
    BY <1>1, <1>t DEF get_tms_token_claims, Jwt
  <2> QED
    BY <1>1, <1>t, <2>1 DEF get_tms_token_claims
<1>2. ASSUME NEW t \in Token, make_auth_token(t)
      PROVE  RowsFollowClaims' /\ CutoffIsOld'
  <2>1. /\ jwt'[t].st = "signed" /\ jwt'[t].exp = jwt[t].exp
        /\ \A u \in Token \ {t} : jwt'[u] = jwt[u]
    BY <1>2, <1>t DEF make_auth_token, Jwt
  <2>2. /\ issued_tokens'[t].present /\ issued_tokens'[t].expiration = jwt[t].exp
        /\ \A u \in Token \ {t} : issued_tokens'[u] = issued_tokens[u]
    BY <1>2, <1>t DEF make_auth_token, db_insert_token
  <2> QED
    BY <1>2, <1>t, <2>1, <2>2 DEF make_auth_token
<1>3. ASSUME NEW r \in Req, logout(r)
      PROVE  RowsFollowClaims' /\ CutoffIsOld'
  <2>1. \A u \in Token : /\ issued_tokens'[u].present = issued_tokens[u].present
                         /\ issued_tokens'[u].expiration = issued_tokens[u].expiration
    BY <1>3, <1>t DEF logout, db_revoke_token, Row
  <2> QED
    BY <1>3, <1>t, <2>1 DEF logout
<1>4. CASE CleanupTick
  BY <1>4, <1>t DEF CleanupTick
<1>5. CASE CleanupDelete
  <2>1. \A u \in Token :
          \/ issued_tokens'[u] = issued_tokens[u]
          \/ /\ issued_tokens'[u] = NoRow
             /\ issued_tokens[u].present
             /\ issued_tokens[u].expiration < cleaner.expires_before
    BY <1>5, <1>t DEF CleanupDelete, db_cleanup_tokens
  <2>2. cleaner.expires_before <= now - CleanupGrace /\ cleaner.expires_before \in Int
    BY <1>5, <1>t DEF CleanupDelete
  <2>3. RowsFollowClaims'
    <3> SUFFICES ASSUME NEW u \in Token
                 PROVE  /\ issued_tokens'[u].present =>
                             jwt[u].st = "signed" /\ issued_tokens'[u].expiration = jwt[u].exp
                        /\ jwt[u].st = "signed" /\ ~issued_tokens'[u].present =>
                             jwt[u].exp + CleanupGrace < now
      BY <1>5 DEF CleanupDelete
    <3>1. CASE issued_tokens'[u] = issued_tokens[u]
      BY <3>1, <1>t
    <3>2. CASE /\ issued_tokens'[u] = NoRow
               /\ issued_tokens[u].present
               /\ issued_tokens[u].expiration < cleaner.expires_before
      BY <3>2, <1>t, <1>e, <2>2 DEF NoRow
    <3> QED
      BY <3>1, <3>2, <2>1
  <2>4. CutoffIsOld'
    BY <1>5, <1>t DEF CleanupDelete
  <2> QED
    BY <2>3, <2>4
<1>6. CASE CleanupFail
  BY <1>6, <1>t DEF CleanupFail
<1>7. CASE Tick
  BY <1>7, <1>t, <1>e DEF Tick
<1>8. CASE Stop
  <2>1. \A u \in Token : /\ jwt'[u].st = "signed" <=> jwt[u].st = "signed"
                         /\ jwt'[u].exp = jwt[u].exp
    BY <1>8, <1>t DEF Stop, Jwt
  <2> QED
    BY <1>8, <1>t, <2>1 DEF Stop
<1>9. CASE UNCHANGED <<now, jwt, issued_tokens, cleaner>>
  BY <1>9, <1>t
<1> QED
  BY <1>1, <1>2, <1>3, <1>4, <1>5, <1>6, <1>7, <1>8, <1>9
     DEF Next, Handler, Present, ReadToken, VerifyKey, whoami, Start, vars

(* No step brings a dead token back to life. *)
LEMMA DeadStep == IndInv /\ [Next]_vars => DeadForGood
<1> SUFFICES ASSUME IndInv, [Next]_vars, NEW u \in Token, Dead(u) PROVE Dead(u)'
  BY DEF DeadForGood
<1>t. /\ now \in Nat
      /\ jwt \in [Token -> Jwt]
      /\ issued_tokens \in [Token -> Row]
      /\ req \in [Req -> Request]
  BY DEF IndInv, TypeOK
<1>e. issued_tokens[u].expiration \in Nat
  BY <1>t DEF Row
<1>s. jwt[u].st = "signed" /\ jwt'[u] = jwt[u]
  BY SignedStays DEF Dead, IndInv
<1> USE DEF Dead, Live, is_expired, is_revoked
<1>1. ASSUME NEW t \in Token, make_auth_token(t) PROVE Dead(u)'
  <2>1. t # u
    BY <1>1, <1>s DEF make_auth_token
  <2>2. issued_tokens'[u] = issued_tokens[u]
    BY <1>1, <1>t, <2>1 DEF make_auth_token, db_insert_token
  <2> QED
    BY <1>1, <1>s, <2>2 DEF make_auth_token
<1>2. ASSUME NEW r \in Req, logout(r) PROVE Dead(u)'
  <2>1. \/ issued_tokens'[u] = issued_tokens[u]
        \/ issued_tokens'[u].revoked
    BY <1>2, <1>t DEF logout, db_revoke_token, Row
  <2> QED
    BY <1>2, <1>s, <2>1 DEF logout
<1>3. CASE CleanupDelete
  <2>1. \/ issued_tokens'[u] = issued_tokens[u]
        \/ ~issued_tokens'[u].present
    BY <1>3, <1>t DEF CleanupDelete, db_cleanup_tokens, NoRow
  <2> QED
    BY <1>3, <1>s, <2>1 DEF CleanupDelete
<1>4. CASE Tick
  BY <1>4, <1>s, <1>t, <1>e DEF Tick
<1>5. CASE UNCHANGED <<now, issued_tokens>>
  BY <1>5, <1>s
<1> QED
  BY <1>1, <1>2, <1>3, <1>4, <1>5
     DEF Next, Handler, get_tms_token_claims, Present, ReadToken, VerifyKey, whoami,
         CleanupTick, CleanupFail, Stop, Start, vars

(* A request keeps the facts the validator established for it. *)
LEMMA RequestsStep ==
  IndInv /\ [Next]_vars => \A r \in Req : RequestKeepsFacts(r)'
<1> SUFFICES ASSUME IndInv, [Next]_vars, NEW q \in Req PROVE RequestKeepsFacts(q)'
  OBVIOUS
<1>t. /\ now \in Nat
      /\ jwt \in [Token -> Jwt]
      /\ req \in [Req -> Request]
      /\ \A r \in Req : req[r].pc # "idle" => req[r].token \in Token
      /\ RowsFollowClaims
      /\ RequestKeepsFacts(q)
  BY DEF IndInv, TypeOK
<1>s. \A t \in Token : jwt[t].st = "signed" => jwt'[t] = jwt[t]
  BY SignedStays DEF IndInv
<1>d. \A t \in Token : Dead(t) => Dead(t)'
  BY DeadStep DEF DeadForGood
<1>i. Idle.pc = "idle" /\ Idle.token = NoToken
  BY DEF Idle
<1>0. CASE req'[q] = req[q]
  <2>1. CASE req[q].pc = "idle"
    BY <1>0, <2>1, <1>t DEF RequestKeepsFacts
  <2>2. CASE req[q].pc # "idle"
    <3>1. req[q].token \in Token /\ jwt[req[q].token].st = "signed"
      BY <2>2, <1>t DEF RequestKeepsFacts
    <3>2. jwt'[req[q].token] = jwt[req[q].token]
      BY <3>1, <1>s
    <3>3. Dead(req[q].token) => Dead(req[q].token)'
      <4> DEFINE u == req[q].token
      <4>1. u \in Token
        BY <3>1
      <4>2. ASSUME Dead(u) PROVE jwt'[u].st = "signed" /\ ~(/\ issued_tokens'[u].present
              /\ ~issued_tokens'[u].revoked /\ ~(issued_tokens'[u].expiration < now'))
        BY <4>1, <4>2, <1>d DEF Dead, Live, is_expired, is_revoked
      <4> QED
        BY <4>2, <1>0 DEF Dead, Live, is_expired, is_revoked
    <3> QED
      BY <1>0, <3>1, <3>2, <3>3, <1>t DEF RequestKeepsFacts
  <2> QED
    BY <2>1, <2>2
<1>1. CASE req'[q] = Idle
  BY <1>1, <1>i DEF RequestKeepsFacts
<1>2. ASSUME NEW t \in Token, NEW op \in Op, Present(q, t, op)
      PROVE  RequestKeepsFacts(q)'
  <2>1. /\ req'[q].pc = "presented"
        /\ req'[q].token = t
        /\ req'[q].dead = Dead(t)
    BY <1>2, <1>t DEF Present
  <2>2. UNCHANGED <<jwt, now, issued_tokens>> /\ jwt[t].st = "signed"
    BY <1>2 DEF Present
  <2> QED
    BY <2>1, <2>2 DEF RequestKeepsFacts, Dead, Live, is_expired, is_revoked
<1>3. ASSUME ReadToken(q), RowAccepted(req[q].token)
      PROVE  RequestKeepsFacts(q)'
  <2>1. /\ req'[q].pc = "row_ok"
        /\ req'[q].token = req[q].token
        /\ req'[q].dead = req[q].dead
        /\ req'[q].read_at = now
        /\ UNCHANGED jwt
    BY <1>3, <1>t DEF ReadToken, Request
  <2>2. /\ req[q].token \in Token
        /\ jwt[req[q].token].st = "signed"
        /\ ~req[q].dead
    BY <1>3, <1>t DEF ReadToken, RequestKeepsFacts, RowAccepted, Dead, Request
  <2>3. now <= jwt[req[q].token].exp
    BY <1>3, <1>t, <2>2 DEF RowsFollowClaims, RowAccepted, Live, is_expired, Jwt
  <2> QED
    BY <2>1, <2>2, <2>3 DEF RequestKeepsFacts
<1>4. ASSUME VerifyKey(q), jwt[req[q].token].kid \in KeyRows
      PROVE  RequestKeepsFacts(q)'
  <2>1. /\ req'[q].pc = "admitted"
        /\ req'[q].token = req[q].token
        /\ req'[q].dead = req[q].dead
        /\ req'[q].read_at = req[q].read_at
        /\ UNCHANGED jwt
    BY <1>4, <1>t DEF VerifyKey, Request
  <2> QED
    BY <1>4, <2>1, <1>t DEF RequestKeepsFacts, VerifyKey
<1>5. \/ req'[q] = req[q]
      \/ req'[q] = Idle
      \/ \E t \in Token, op \in Op : Present(q, t, op)
      \/ ReadToken(q) /\ RowAccepted(req[q].token)
      \/ VerifyKey(q) /\ jwt[req[q].token].kid \in KeyRows
  <2>1. ASSUME NEW r \in Req, NEW t \in Token, NEW op \in Op, Present(r, t, op), r # q
        PROVE  req'[q] = req[q]
    BY <2>1, <1>t DEF Present
  <2>2. ASSUME NEW r \in Req, ReadToken(r),
               ~(r = q /\ RowAccepted(req[q].token))
        PROVE  req'[q] = req[q] \/ req'[q] = Idle
    BY <2>2, <1>t DEF ReadToken, Reply
  <2>3. ASSUME NEW r \in Req, VerifyKey(r),
               ~(r = q /\ jwt[req[q].token].kid \in KeyRows)
        PROVE  req'[q] = req[q] \/ req'[q] = Idle
    BY <2>3, <1>t DEF VerifyKey, Reply
  <2>4. ASSUME NEW r \in Req, logout(r) \/ whoami(r)
        PROVE  req'[q] = req[q] \/ req'[q] = Idle
    BY <2>4, <1>t DEF logout, whoami, Reply
  <2>5. CASE Stop
    BY <2>5 DEF Stop
  <2>6. CASE UNCHANGED req
    BY <2>6
  <2> QED
    BY <2>1, <2>2, <2>3, <2>4, <2>5, <2>6
       DEF Next, Handler, get_tms_token_claims, make_auth_token, CleanupTick,
           CleanupDelete, CleanupFail, Tick, Start, vars
<1> QED
  BY <1>0, <1>1, <1>2, <1>3, <1>4, <1>5

LEMMA NextInv == IndInv /\ [Next]_vars => IndInv'
BY NextType, RowsStep, RequestsStep DEF IndInv

(* The invariant holds in every reachable state. *)
LEMMA Invariance == Spec => []IndInv
<1>1. Init => IndInv
  BY InitInv
<1>2. IndInv /\ [Next]_vars => IndInv'
  BY NextInv
<1> QED
  BY <1>1, <1>2, PTL DEF Spec

(***************************************************************************)
(* Every variable keeps its type, whatever the handlers, the cleanup task  *)
(* and restarts do.                                                        *)
(***************************************************************************)
THEOREM TypeCorrect == Spec => []TypeOK
<1>1. IndInv => TypeOK
  BY DEF IndInv
<1> QED
  BY <1>1, Invariance, PTL

(***************************************************************************)
(* A request that arrives after its token died is never admitted: nothing  *)
(* that runs between its arrival and the validator's reads can make the    *)
(* row look valid again.                                                   *)
(***************************************************************************)
THEOREM NoAdmission == Spec => []NoAdmissionAfterDeath
<1>1. IndInv => NoAdmissionAfterDeath
  BY DEF IndInv, NoAdmissionAfterDeath, RequestKeepsFacts
<1> QED
  BY <1>1, Invariance, PTL

(***************************************************************************)
(* A logout admitted by the validator finds its row for at least the whole *)
(* cleanup grace, for every grace and every token lifetime.                *)
(***************************************************************************)
THEOREM LogoutRow == Spec => []LogoutFindsItsRow
<1>1. IndInv => LogoutFindsItsRow
  <2> SUFFICES ASSUME IndInv, NEW r \in Req, req[r].pc \in {"row_ok", "admitted"},
                      ~issued_tokens[req[r].token].present
               PROVE  now > req[r].read_at + CleanupGrace
    BY DEF LogoutFindsItsRow
  <2>1. /\ req[r].token \in Token
        /\ jwt[req[r].token].st = "signed"
        /\ req[r].read_at <= jwt[req[r].token].exp
    BY DEF IndInv, TypeOK, RequestKeepsFacts
  <2>2. jwt[req[r].token].exp + CleanupGrace < now
    BY <2>1 DEF IndInv, RowsFollowClaims
  <2>3. now \in Nat /\ req[r].read_at \in Nat /\ jwt[req[r].token].exp \in Nat
    BY <2>1 DEF IndInv, TypeOK, Request, Jwt
  <2> QED
    BY <2>1, <2>2, <2>3
<1> QED
  BY <1>1, Invariance, PTL

(***************************************************************************)
(* A token that was logged out, expired or was cleaned up stays unusable   *)
(* for ever, across restarts and key changes.                              *)
(***************************************************************************)
THEOREM NoResurrection == Spec => DeadStaysDead
<1>1. IndInv /\ [Next]_vars => [DeadForGood]_vars
  BY DeadStep
<1> QED
  BY <1>1, Invariance, PTL DEF Spec, DeadStaysDead

(***************************************************************************)
(* The cleanup task never removes the row of a live token, however old the *)
(* cutoff it works with has become.                                        *)
(***************************************************************************)
THEOREM LiveRowsSpared == Spec => CleanupSparesLive
<1>1. IndInv /\ [Next]_vars => LiveRowsStay
  <2> SUFFICES ASSUME IndInv, [Next]_vars, NEW u \in Token, Live(u)
               PROVE  issued_tokens'[u].present
    BY DEF LiveRowsStay
  <2>t. /\ now \in Nat
        /\ issued_tokens \in [Token -> Row]
        /\ issued_tokens[u].expiration \in Nat
        /\ issued_tokens[u].present
        /\ cleaner.expires_before \in Int
    BY DEF IndInv, TypeOK, Live, Row
  <2>1. CASE CleanupDelete
    <3>1. cleaner.expires_before <= now - CleanupGrace
      BY <2>1 DEF IndInv, CutoffIsOld, CleanupDelete
    <3>2. ~(issued_tokens[u].expiration < cleaner.expires_before)
      BY <2>t, <3>1 DEF Live, is_expired
    <3> QED
      BY <2>1, <2>t, <3>2 DEF CleanupDelete, db_cleanup_tokens
  <2>2. ASSUME NEW t \in Token, make_auth_token(t) PROVE issued_tokens'[u].present
    BY <2>2, <2>t DEF make_auth_token, db_insert_token
  <2>3. ASSUME NEW r \in Req, logout(r) PROVE issued_tokens'[u].present
    BY <2>3, <2>t DEF logout, db_revoke_token, Row
  <2>4. CASE UNCHANGED issued_tokens
    BY <2>4, <2>t
  <2> QED
    BY <2>1, <2>2, <2>3, <2>4
       DEF Next, Handler, get_tms_token_claims, Present, ReadToken, VerifyKey, whoami,
           CleanupTick, CleanupFail, Tick, Stop, Start, vars
<1> QED
  BY <1>1, Invariance, PTL DEF Spec, CleanupSparesLive

-------------------------------------------------------------------------------
(* The abstract status of a token only moves forward. *)
LEMMA StatusForward ==
  IndInv /\ [Next]_vars =>
    \A t \in Token : Lifecycle!Forward(statusBar[t], statusBar'[t])
<1> SUFFICES ASSUME IndInv, [Next]_vars, NEW t \in Token
             PROVE  Lifecycle!Forward(statusBar[t], statusBar'[t])
  OBVIOUS
<1>1. jwt[t].st = "signed" => jwt'[t].st = "signed"
  BY SignedStays DEF IndInv
<1>2. Dead(t) => Dead(t)'
  BY DeadStep DEF DeadForGood
<1>3. Live(t)' => jwt'[t].st = "signed"
  BY NextInv DEF IndInv, RowsFollowClaims, Live
<1> QED
  BY <1>1, <1>2, <1>3
     DEF statusBar, Lifecycle!Forward, Dead, Live, is_expired, is_revoked

(* A step that moves no request is an Age step of the abstraction. *)
LEMMA AgeStep ==
  IndInv /\ [Next]_vars /\ UNCHANGED req => Lifecycle!Age
<1> SUFFICES ASSUME IndInv, [Next]_vars, UNCHANGED req PROVE Lifecycle!Age
  OBVIOUS
<1>1. statusBar' \in [Token -> {"unborn", "live", "dead"}]
  BY DEF statusBar
<1>2. UNCHANGED phaseBar
  BY DEF phaseBar
<1> QED
  BY <1>1, <1>2, StatusForward DEF Lifecycle!Age

(* An idle slot is a free one. *)
LEMMA IdleIsFree == phaseOf(Idle) = Lifecycle!Free
BY DEF phaseOf, Idle, Lifecycle!Free

(* A step that ends a request and leaves the tokens alone. *)
LEMMA FinishStep ==
  ASSUME TypeOK, NEW r \in Req, req[r].pc # "idle",
         req' = [req EXCEPT ![r] = Idle], UNCHANGED statusBar
  PROVE  Lifecycle!Finish(r)
<1>1. phaseBar' = [phaseBar EXCEPT ![r] = Lifecycle!Free]
  BY IdleIsFree DEF phaseBar, TypeOK
<1>2. phaseBar[r] # Lifecycle!Free
  <2>1. phaseBar[r].step # "free"
    BY DEF phaseBar, phaseOf, TypeOK, Request
  <2> QED
    BY <2>1 DEF Lifecycle!Free
<1> QED
  BY <1>1, <1>2 DEF Lifecycle!Finish

(***************************************************************************)
(* The portal implements the token life cycle: whatever interleaves, a     *)
(* request behaves as if its token had been judged at one instant, the     *)
(* read of its row.                                                        *)
(***************************************************************************)
THEOREM ImplementsLifecycle == Spec => LifecycleSpec
<1>1. Init => Lifecycle!Init
  <2> SUFFICES ASSUME Init PROVE Lifecycle!Init
    OBVIOUS
  <2>1. statusBar = [t \in Token |-> "unborn"]
    BY DEF Init, statusBar, Live, is_expired, is_revoked
  <2>2. phaseBar = [r \in Req |-> Lifecycle!Free]
    BY IdleIsFree DEF Init, phaseBar
  <2> QED
    BY <2>1, <2>2 DEF Lifecycle!Init
<1>2. IndInv /\ [Next]_vars => [Lifecycle!Next]_(Lifecycle!absVars)
  <2> SUFFICES ASSUME IndInv, [Next]_vars PROVE [Lifecycle!Next]_(Lifecycle!absVars)
    OBVIOUS
  <2>t. /\ TypeOK
        /\ jwt \in [Token -> Jwt]
        /\ issued_tokens \in [Token -> Row]
        /\ req \in [Req -> Request]
        /\ \A r \in Req : req[r].pc # "idle" =>
             req[r].token \in Token /\ jwt[req[r].token].st = "signed"
        /\ \A r \in Req : req[r].pc = "idle" => req[r].token = NoToken
    BY DEF IndInv, TypeOK, RequestKeepsFacts
  <2>1. CASE UNCHANGED req
    BY <2>1, AgeStep DEF Lifecycle!Next
  <2>2. ASSUME NEW r \in Req, NEW t \in Token, NEW op \in Op, Present(r, t, op)
        PROVE  Lifecycle!Present(r, t)
    <3>1. UNCHANGED statusBar
      BY <2>2 DEF Present, statusBar, Live, is_expired, is_revoked
    <3>2. phaseBar[r] = Lifecycle!Free
      BY <2>2, <2>t DEF Present, phaseBar, phaseOf, Lifecycle!Free
    <3>3. phaseBar' = [phaseBar EXCEPT ![r] = [step |-> "presented", token |-> t]]
      BY <2>2, <2>t DEF Present, phaseBar, phaseOf
    <3> QED
      BY <3>1, <3>2, <3>3 DEF Lifecycle!Present
  <2>3. ASSUME NEW r \in Req, ReadToken(r)
        PROVE  Lifecycle!Judge(r) \/ Lifecycle!Finish(r)
    <3>1. UNCHANGED statusBar
      BY <2>3 DEF ReadToken, statusBar, Live, is_expired, is_revoked
    <3>2. CASE RowAccepted(req[r].token)
      <4>1. /\ phaseBar[r].step = "presented"
            /\ phaseBar[r].token = req[r].token
            /\ statusBar[req[r].token] = "live"
        BY <2>3, <2>t, <3>2 DEF ReadToken, phaseBar, phaseOf, statusBar, RowAccepted
      <4>2. req' = [req EXCEPT ![r] = [req[r] EXCEPT !.pc = "row_ok", !.read_at = now]]
        BY <2>3, <3>2, <2>t DEF ReadToken
      <4>3. [req[r] EXCEPT !.pc = "row_ok", !.read_at = now].pc = "row_ok" /\ [req[r] EXCEPT !.pc = "row_ok", !.read_at = now].token = req[r].token
        BY <2>t DEF Request
      <4>4. phaseBar' = [phaseBar EXCEPT ![r].step = "judged"]
        BY <4>1, <4>2, <4>3, <2>t DEF phaseBar, phaseOf
      <4> QED
        BY <3>1, <4>1, <4>4 DEF Lifecycle!Judge
    <3>3. CASE ~RowAccepted(req[r].token)
      BY <2>3, <2>t, <3>1, <3>3, FinishStep DEF ReadToken, Reply
    <3> QED
      BY <3>2, <3>3
  <2>4. ASSUME NEW r \in Req, VerifyKey(r)
        PROVE  Lifecycle!Admit(r) \/ Lifecycle!Finish(r)
    <3>1. UNCHANGED statusBar
      BY <2>4 DEF VerifyKey, statusBar, Live, is_expired, is_revoked
    <3>2. CASE jwt[req[r].token].kid \in KeyRows
      <4>1. phaseBar[r].step = "judged" /\ phaseBar[r].token = req[r].token
        BY <2>4, <2>t DEF VerifyKey, phaseBar, phaseOf
      <4>2. req' = [req EXCEPT ![r] = [req[r] EXCEPT !.pc = "admitted"]]
        BY <2>4, <3>2, <2>t DEF VerifyKey
      <4>3. [req[r] EXCEPT !.pc = "admitted"].pc = "admitted" /\ [req[r] EXCEPT !.pc = "admitted"].token = req[r].token
        BY <2>t DEF Request
      <4>4. phaseBar' = [phaseBar EXCEPT ![r].step = "admitted"]
        BY <4>1, <4>2, <4>3, <2>t DEF phaseBar, phaseOf
      <4> QED
        BY <3>1, <4>1, <4>4 DEF Lifecycle!Admit
    <3>3. CASE ~(jwt[req[r].token].kid \in KeyRows)
      BY <2>4, <2>t, <3>1, <3>3, FinishStep DEF VerifyKey, Reply
    <3> QED
      BY <3>2, <3>3
  <2>5. ASSUME NEW r \in Req, whoami(r)
        PROVE  Lifecycle!Finish(r)
    <3>1. UNCHANGED statusBar
      BY <2>5 DEF whoami, statusBar, Live, is_expired, is_revoked
    <3> QED
      BY <2>5, <2>t, <3>1, FinishStep DEF whoami, Reply
  <2>6. ASSUME NEW r \in Req, logout(r)
        PROVE  Lifecycle!Finish(r)
    <3>1. /\ phaseBar[r].step = "admitted"
          /\ phaseBar[r].token = req[r].token
          /\ req[r].token \in Token
          /\ jwt[req[r].token].st = "signed"
      BY <2>6, <2>t DEF logout, phaseBar, phaseOf
    <3>2. phaseBar' = [phaseBar EXCEPT ![r] = Lifecycle!Free]
      BY <2>6, <2>t, IdleIsFree DEF logout, Reply, phaseBar
    <3>3. PICK u \in Token : u = req[r].token
      BY <3>1
    <3>5. UNCHANGED <<jwt, now>>
      BY <2>6 DEF logout
    <3>6. CASE UNCHANGED issued_tokens
      <4>1. UNCHANGED statusBar
        BY <3>5, <3>6 DEF statusBar, Live, is_expired, is_revoked
      <4> QED
        BY <3>1, <3>2, <4>1 DEF Lifecycle!Finish, Lifecycle!Free
    <3>7. CASE db_revoke_token(u)
      <4>1. /\ ~issued_tokens'[u].present \/ issued_tokens'[u].revoked
            /\ \A t \in Token \ {u} : issued_tokens'[t] = issued_tokens[t]
        BY <2>t, <3>7 DEF db_revoke_token, Row
      <4>2. statusBar'[u] = "dead"
        BY <3>1, <3>3, <3>5, <4>1 DEF statusBar, Live, is_expired, is_revoked
      <4>3. \A t \in Token \ {u} : statusBar'[t] = statusBar[t]
        BY <3>5, <4>1 DEF statusBar, Live, is_expired, is_revoked
      <4>4. statusBar' = [statusBar EXCEPT ![u] = "dead"]
        BY <4>2, <4>3 DEF statusBar
      <4> QED
        BY <3>1, <3>2, <3>3, <4>4 DEF Lifecycle!Finish, Lifecycle!Free
    <3> QED
      BY <2>6, <3>3, <3>6, <3>7 DEF logout
  <2>7. CASE Stop
    <3>1. \A t \in Token : jwt'[t].st = "signed" <=> jwt[t].st = "signed"
      BY <2>7, <2>t DEF Stop, Jwt
    <3>2. UNCHANGED statusBar
      BY <2>7, <3>1 DEF Stop, statusBar, Live, is_expired, is_revoked
    <3>3. phaseBar' = [r \in Req |-> Lifecycle!Free]
      BY <2>7, IdleIsFree DEF Stop, phaseBar
    <3> QED
      BY <3>2, <3>3 DEF Lifecycle!Abandon, Lifecycle!Next
  <2> QED
    BY <2>1, <2>2, <2>3, <2>4, <2>5, <2>6, <2>7
       DEF Next, Handler, get_tms_token_claims, make_auth_token, CleanupTick,
           CleanupDelete, CleanupFail, Tick, Start, vars, Lifecycle!Next
<1> QED
  BY <1>1, <1>2, Invariance, PTL DEF Spec, LifecycleSpec, Lifecycle!Spec

-------------------------------------------------------------------------------
(***************************************************************************)
(* Liveness.  The predicates of the argument: the task runs or may run;    *)
(* the row of t is due for longer than the grace; the pass under way, if   *)
(* there is one, has a cutoff past the row's expiration.                   *)
(***************************************************************************)
Down == ~up /\ cleaner.pc = "waiting"
Waiting == up /\ cleaner.pc = "waiting"
Deleting == cleaner.pc = "deleting"
Gone(t) == ~issued_tokens[t].present
Armed(t) == Deleting => issued_tokens[t].expiration < cleaner.expires_before

(* The task is in one of three states, and stops with the process. *)
TaskState == TypeOK /\ (Down \/ Waiting \/ (up /\ Deleting))

LEMMA TaskStateInvariant == Spec => []TaskState
<1>1. Init => TaskState
  BY InitInv DEF Init, IndInv, TaskState, Waiting
<1>2. TaskState /\ [Next]_vars => TaskState'
  <2> SUFFICES ASSUME TaskState, [Next]_vars PROVE TaskState'
    OBVIOUS
  <2>1. TypeOK /\ TypeOK'
    BY NextType DEF TaskState
  <2>2. /\ cleaner.pc = "waiting" \/ (up /\ cleaner.pc = "deleting")
        /\ up \in BOOLEAN
    BY <2>1 DEF TaskState, TypeOK, Down, Waiting, Deleting
  <2>3. cleaner'.pc = "waiting" \/ (up' /\ cleaner'.pc = "deleting")
    <3>1. CASE CleanupTick
      BY <3>1 DEF CleanupTick
    <3>2. CASE CleanupDelete \/ CleanupFail \/ Stop
      BY <2>1, <3>2 DEF CleanupDelete, CleanupFail, Stop, TypeOK
    <3>3. CASE cleaner' = cleaner /\ up' = up
      BY <2>2, <3>3
    <3>4. CASE Start
      BY <2>2, <3>4 DEF Start
    <3> QED
      BY <3>1, <3>2, <3>3, <3>4
         DEF Next, Handler, get_tms_token_claims, make_auth_token, Present, ReadToken, VerifyKey,
             logout, whoami, Tick, vars
  <2>4. up' \in BOOLEAN
    BY <2>1 DEF TypeOK
  <2> QED
    BY <2>1, <2>3, <2>4 DEF TaskState, Down, Waiting, Deleting
<1> QED
  BY <1>1, <1>2, PTL DEF Spec

(* A process that is down stays down, or starts with a task that waits. *)
LEMMA DownStep == TaskState /\ Down /\ [Next]_vars => Down' \/ Waiting'
<1> SUFFICES ASSUME TaskState, Down, [Next]_vars PROVE Down' \/ Waiting'
  OBVIOUS
<1>1. cleaner' = cleaner
  BY DEF Next, Handler, get_tms_token_claims, make_auth_token, Present, ReadToken, VerifyKey,
         logout, whoami, CleanupTick, CleanupDelete, CleanupFail, Tick, Stop, Start, vars,
         TaskState, Down, Waiting, Deleting
<1> QED
  BY <1>1 DEF Down, Waiting

(* What the fair steps lead to. *)
LEMMA FairSteps ==
  /\ TaskState /\ Down /\ <<Start>>_vars => Waiting'
  /\ <<CleanupTick>>_vars => Deleting'
  /\ TaskState /\ <<CleanupDelete>>_vars => ~Deleting'
<1>1. TaskState /\ Down /\ <<Start>>_vars => Waiting'
  BY DEF Down, Waiting, Start
<1>2. <<CleanupTick>>_vars => Deleting'
  BY DEF Deleting, CleanupTick
<1>3. TaskState /\ <<CleanupDelete>>_vars => ~Deleting'
  BY DEF TaskState, TypeOK, Deleting, CleanupDelete
<1> QED
  BY <1>1, <1>2, <1>3

(* The row of an overdue token keeps its expiration until it is deleted. *)
LEMMA OverdueRowStays ==
  ASSUME IndInv, [Next]_vars, NEW t \in Token, issued_tokens[t].present
  PROVE  \/ Gone(t)'
         \/ /\ issued_tokens'[t].present
            /\ issued_tokens'[t].expiration = issued_tokens[t].expiration
<1>t. issued_tokens \in [Token -> Row] /\ jwt[t].st = "signed" /\ req \in [Req -> Request]
  BY DEF IndInv, TypeOK, RowsFollowClaims
<1>1. ASSUME NEW u \in Token, make_auth_token(u)
      PROVE  issued_tokens'[t] = issued_tokens[t]
  <2>1. u # t
    BY <1>1, <1>t DEF make_auth_token
  <2> QED
    BY <1>1, <1>t, <2>1 DEF make_auth_token, db_insert_token
<1>2. ASSUME NEW r \in Req, logout(r)
      PROVE  /\ issued_tokens'[t].present
             /\ issued_tokens'[t].expiration = issued_tokens[t].expiration
  BY <1>2, <1>t DEF logout, db_revoke_token, Row
<1>3. CASE CleanupDelete
  BY <1>3, <1>t DEF CleanupDelete, db_cleanup_tokens, Gone, NoRow
<1>4. CASE issued_tokens' = issued_tokens
  BY <1>4
<1> QED
  BY <1>1, <1>2, <1>3, <1>4
     DEF Next, Handler, get_tms_token_claims, Present, ReadToken, VerifyKey, whoami,
         CleanupTick, CleanupFail, Tick, Stop, Start, vars

(* The clock does not go back. *)
LEMMA ClockForward == TypeOK /\ [Next]_vars => now' \in Nat /\ now <= now'
<1> SUFFICES ASSUME TypeOK, [Next]_vars PROVE now' \in Nat /\ now <= now'
  OBVIOUS
<1>1. now \in Nat
  BY DEF TypeOK
<1>2. CASE Tick
  BY <1>1, <1>2 DEF Tick
<1>3. CASE now' = now
  BY <1>1, <1>3
<1> QED
  BY <1>2, <1>3
     DEF Next, Handler, get_tms_token_claims, make_auth_token, Present, ReadToken, VerifyKey,
         logout, whoami, CleanupTick, CleanupDelete, CleanupFail, Stop, Start, vars

(* An overdue row stays overdue while it is there. *)
LEMMA OverdueStep ==
  ASSUME NEW t \in Token
  PROVE  IndInv /\ Overdue(t) /\ [Next]_vars => Overdue(t)' \/ Gone(t)'
<1> SUFFICES ASSUME IndInv, Overdue(t), [Next]_vars, ~Gone(t)' PROVE Overdue(t)'
  OBVIOUS
<1>1. /\ issued_tokens'[t].present
      /\ issued_tokens'[t].expiration = issued_tokens[t].expiration
      /\ issued_tokens[t].expiration \in Nat
  BY OverdueRowStays DEF Overdue, Gone, IndInv, TypeOK, Row
<1>2. now \in Nat /\ now' \in Nat /\ now <= now'
  BY ClockForward DEF IndInv, TypeOK
<1> QED
  BY <1>1, <1>2 DEF Overdue

(* A pass that begins while a row is overdue is armed against it. *)
LEMMA TickArms ==
  ASSUME NEW t \in Token
  PROVE  IndInv /\ Overdue(t) /\ CleanupTick => Armed(t)'
<1> SUFFICES ASSUME IndInv, Overdue(t), CleanupTick PROVE Armed(t)'
  OBVIOUS
<1>1. /\ issued_tokens' = issued_tokens /\ cleaner'.expires_before = now - CleanupGrace
      /\ issued_tokens[t].expiration \in Nat /\ now \in Nat
      /\ issued_tokens[t].expiration + CleanupGrace < now
  BY DEF CleanupTick, Overdue, IndInv, TypeOK, Row
<1>2. issued_tokens[t].expiration < now - CleanupGrace
  BY <1>1
<1> QED
  BY <1>1, <1>2 DEF Armed

(* It stays armed, whatever happens before it deletes. *)
LEMMA ArmedStep ==
  ASSUME NEW t \in Token
  PROVE  IndInv /\ Overdue(t) /\ Armed(t) /\ [Next]_vars => Armed(t)' \/ Gone(t)'
<1> SUFFICES ASSUME IndInv, Overdue(t), Armed(t), [Next]_vars, ~Gone(t)' PROVE Armed(t)'
  OBVIOUS
<1>1. issued_tokens'[t].expiration = issued_tokens[t].expiration
  BY OverdueRowStays DEF Overdue
<1>2. CASE CleanupTick
  BY <1>2, TickArms
<1>3. CASE CleanupDelete \/ CleanupFail \/ Stop
  BY <1>3 DEF CleanupDelete, CleanupFail, Stop, Armed, Deleting, IndInv, TypeOK
<1>4. CASE cleaner' = cleaner
  BY <1>1, <1>4 DEF Armed, Deleting
<1> QED
  BY <1>2, <1>3, <1>4
     DEF Next, Handler, get_tms_token_claims, make_auth_token, Present, ReadToken, VerifyKey,
         logout, whoami, Tick, Start, vars

(* The delete of an armed pass removes the row. *)
LEMMA ArmedDeletes ==
  ASSUME NEW t \in Token
  PROVE  IndInv /\ Overdue(t) /\ Armed(t) /\ CleanupDelete => Gone(t)'
BY DEF CleanupDelete, db_cleanup_tokens, Overdue, Armed, Deleting, Gone, NoRow

(***************************************************************************)
(* When the fair actions can be taken, without ENABLED: the actions of the *)
(* process and the task with the next state as arguments, and the          *)
(* existence of a next state that differs from this one.                   *)
(***************************************************************************)
StartTo(n, u, k, j, i, q, c) ==
  /\ ~up
  /\ u = TRUE
  /\ k \in Kid
  /\ n = now /\ j = jwt /\ i = issued_tokens /\ q = req /\ c = cleaner

CleanupTickTo(n, u, k, j, i, q, c) ==
  /\ up
  /\ cleaner.pc = "waiting"
  /\ c = [pc |-> "deleting", expires_before |-> now - CleanupGrace]
  /\ n = now /\ u = up /\ k = signing_kid /\ j = jwt /\ i = issued_tokens /\ q = req

CleanupDeleteTo(n, u, k, j, i, q, c) ==
  /\ cleaner.pc = "deleting"
  /\ i = [t \in Token |->
            IF issued_tokens[t].present /\ issued_tokens[t].expiration < cleaner.expires_before
              THEN NoRow ELSE issued_tokens[t]]
  /\ c = [cleaner EXCEPT !.pc = "waiting"]
  /\ n = now /\ u = up /\ k = signing_kid /\ j = jwt /\ q = req

Changes(n, u, k, j, i, q, c) == <<n, u, k, j, i, q, c>> # vars

StartIsPossible ==
  \E n, u, k, j, i, q, c : StartTo(n, u, k, j, i, q, c) /\ Changes(n, u, k, j, i, q, c)
TickIsPossible ==
  \E n, u, k, j, i, q, c : CleanupTickTo(n, u, k, j, i, q, c) /\ Changes(n, u, k, j, i, q, c)
DeleteIsPossible ==
  \E n, u, k, j, i, q, c : CleanupDeleteTo(n, u, k, j, i, q, c) /\ Changes(n, u, k, j, i, q, c)

(* These are the actions. *)
LEMMA StepsOfTheTask ==
  /\ Start <=> StartTo(now', up', signing_kid', jwt', issued_tokens', req', cleaner')
  /\ CleanupTick <=> CleanupTickTo(now', up', signing_kid', jwt', issued_tokens', req', cleaner')
  /\ CleanupDelete <=>
       CleanupDeleteTo(now', up', signing_kid', jwt', issued_tokens', req', cleaner')
<1>1. Start <=> StartTo(now', up', signing_kid', jwt', issued_tokens', req', cleaner')
  BY DEF Start, StartTo
<1>2. CleanupTick <=> CleanupTickTo(now', up', signing_kid', jwt', issued_tokens', req', cleaner')
  BY DEF CleanupTick, CleanupTickTo
<1>3. CleanupDelete <=>
        CleanupDeleteTo(now', up', signing_kid', jwt', issued_tokens', req', cleaner')
  BY DEF CleanupDelete, CleanupDeleteTo, db_cleanup_tokens
<1> QED
  BY <1>1, <1>2, <1>3

FairStepsArePossible ==
  /\ ~up => StartIsPossible
  /\ up /\ cleaner.pc = "waiting" => TickIsPossible
  /\ cleaner.pc = "deleting" => DeleteIsPossible

LEMMA TaskMayGoOn == TypeOK => FairStepsArePossible
<1> SUFFICES ASSUME TypeOK PROVE FairStepsArePossible
  OBVIOUS
<1>1. ASSUME ~up PROVE StartIsPossible
  <2>1. PICK k : k \in Kid
    BY KeyAssumption
  <2>2. StartTo(now, TRUE, k, jwt, issued_tokens, req, cleaner)
    BY <1>1, <2>1 DEF StartTo
  <2>3. Changes(now, TRUE, k, jwt, issued_tokens, req, cleaner)
    BY <1>1 DEF Changes, vars
  <2> QED
    BY <2>2, <2>3 DEF StartIsPossible
<1>2. ASSUME up, cleaner.pc = "waiting" PROVE TickIsPossible
  <2> DEFINE c == [pc |-> "deleting", expires_before |-> now - CleanupGrace]
  <2>1. CleanupTickTo(now, up, signing_kid, jwt, issued_tokens, req, c)
    BY <1>2 DEF CleanupTickTo
  <2>2. c.pc # cleaner.pc
    BY <1>2
  <2>3. Changes(now, up, signing_kid, jwt, issued_tokens, req, c)
    BY <2>2 DEF Changes, vars
  <2> QED
    BY <2>1, <2>3 DEF TickIsPossible
<1>3. ASSUME cleaner.pc = "deleting" PROVE DeleteIsPossible
  <2> DEFINE c == [cleaner EXCEPT !.pc = "waiting"]
             i == [t \in Token |->
                    IF issued_tokens[t].present
                         /\ issued_tokens[t].expiration < cleaner.expires_before
                      THEN NoRow ELSE issued_tokens[t]]
  <2>1. CleanupDeleteTo(now, up, signing_kid, jwt, i, req, c)
    BY <1>3 DEF CleanupDeleteTo
  <2>2. c.pc = "waiting"
    BY DEF TypeOK
  <2>3. c.pc # cleaner.pc
    BY <1>3, <2>2
  <2>4. Changes(now, up, signing_kid, jwt, i, req, c)
    BY <2>3 DEF Changes, vars
  <2> QED
    BY <2>1, <2>4 DEF DeleteIsPossible
<1> QED
  BY <1>1, <1>2, <1>3 DEF FairStepsArePossible

(***************************************************************************)
(* The meaning of ENABLED for the three actions.  By the definition of     *)
(* ENABLED it holds in every state of every behaviour; the provers do not  *)
(* know that definition, so it is a hypothesis wherever ENABLED matters.   *)
(***************************************************************************)
EnabledIsPossible ==
  /\ ENABLED <<Start>>_vars <=> StartIsPossible
  /\ ENABLED <<CleanupTick>>_vars <=> TickIsPossible
  /\ ENABLED <<CleanupDelete>>_vars <=> DeleteIsPossible

FairStepsEnabled ==
  /\ ~up => ENABLED <<Start>>_vars
  /\ up /\ cleaner.pc = "waiting" => ENABLED <<CleanupTick>>_vars
  /\ cleaner.pc = "deleting" => ENABLED <<CleanupDelete>>_vars

(* So the fair actions are enabled whenever the process is down, the task  *)
(* waits, or a pass is at its delete.                                      *)
LEMMA TaskGoesOn == Spec /\ []EnabledIsPossible => []FairStepsEnabled
<1>1. EnabledIsPossible /\ FairStepsArePossible => FairStepsEnabled
  BY DEF EnabledIsPossible, FairStepsArePossible, FairStepsEnabled
<1> QED
  BY <1>1, TypeCorrect, TaskMayGoOn, PTL

(***************************************************************************)
(* The row of a token that has been expired for longer than the grace is   *)
(* removed: while it stays, the process is up again and again, so the task *)
(* begins pass after pass, every pass it begins is armed, and not all of   *)
(* them fail.                                                              *)
(***************************************************************************)
THEOREM OverdueRemoved == FairSpec /\ []EnabledIsPossible => ExpiredRowsRemoved
<1>1. FairStepsEnabled /\ TaskState =>
        /\ Down => ENABLED <<Start>>_vars
        /\ Waiting => ENABLED <<CleanupTick>>_vars
        /\ Deleting => ENABLED <<CleanupDelete>>_vars
  BY DEF FairStepsEnabled, Down, Waiting, Deleting
<1>2. TaskState => Down \/ Waiting \/ Deleting
  BY DEF TaskState
<1>3. FairSpec /\ []EnabledIsPossible => []<>Waiting
  <2>1. TaskState => ~(Down /\ Deleting)
    BY DEF Down, Deleting
  <2> QED
    BY <1>1, <1>2, <2>1, TaskStateInvariant, TaskGoesOn, DownStep,
       FairSteps, PTL DEF FairSpec, Spec
<1>4. FairSpec /\ []EnabledIsPossible => []<><<CleanupTick>>_vars
  BY <1>1, <1>3, TaskStateInvariant, TaskGoesOn, PTL DEF FairSpec, Spec
<1>5. FairSpec /\ []EnabledIsPossible => []<><<CleanupDelete>>_vars
  BY <1>1, <1>4, TaskStateInvariant, TaskGoesOn, FairSteps, PTL DEF FairSpec, Spec
<1>6. ASSUME NEW t \in Token
      PROVE  FairSpec /\ []EnabledIsPossible =>
               (Overdue(t) ~> ~issued_tokens[t].present)
  <2>1. IndInv /\ Overdue(t) /\ [Next]_vars => Overdue(t)' \/ Gone(t)'
    BY OverdueStep
  <2>2. IndInv /\ Overdue(t) /\ <<CleanupTick>>_vars => Armed(t)'
    BY TickArms
  <2>3. IndInv /\ Overdue(t) /\ Armed(t) /\ [Next]_vars => Armed(t)' \/ Gone(t)'
    BY ArmedStep
  <2>4. IndInv /\ Overdue(t) /\ Armed(t) /\ <<CleanupDelete>>_vars => Gone(t)'
    BY ArmedDeletes
  <2>5. Gone(t) <=> ~issued_tokens[t].present
    BY DEF Gone
  <2> QED
    BY <1>4, <1>5, <2>1, <2>2, <2>3, <2>4, <2>5, Invariance, PTL DEF FairSpec, Spec
<1> QED
  BY <1>6 DEF ExpiredRowsRemoved
===============================================================================
