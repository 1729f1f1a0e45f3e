--------------------------- MODULE AuthorizationFlow ---------------------------
(***************************************************************************)
(* The two browser sign-ins of the portal, which share one state cookie:   *)
(* the portal's own login (/login, /login/callback) and the OAuth2  *)
(* authorization code flow it offers to clients (authorize, callback,      *)
(* tokens).  Both send the browser to the login identity provider and come *)
(* back to a callback that compares the state parameter with the cookie,   *)
(* exchanges the provider's code over HTTP and computes the token claims.  *)
(* The login callback stores the token itself; the OAuth2 callback saves   *)
(* the claims with an authorization code that the client redeems later.    *)
(*                                                                         *)
(* All sign-ins of the model run in tabs of one browser, so they share its *)
(* cookie jar.  Callback handlers and token requests run concurrently, any *)
(* of them can fail at any step, and the process can stop.                 *)
(***************************************************************************)
EXTENDS Integers, FiniteSets

CONSTANTS
  Flow,          \* sign-ins, each with its own state (a fresh nonce)
  NoFlow,        \* an absent cookie, a slot that holds nothing
  LoginFlow,     \* the sign-ins made by /login; the others are OAuth2
  Client,        \* client ids; /login always uses the portal's own
  NoClient,
  Redirect,      \* redirect URIs
  ClientOf,      \* ClientOf[f]: the client sign-in f is for
  RedirectOf,    \* RedirectOf[f]: the redirect URI it asks for
  AllowedRedirect, \* the pairs <<client, redirect>> in allowed_redirects
  Handler,       \* slots for callback requests in flight
  Redeemer,      \* slots for token requests in flight
  StateTtl,      \* seconds a state is valid (300)
  Leeway,        \* what the JWT library adds to an expiry (60)
  CodeTtl,       \* seconds an authorization code is valid (30)
  TokenTtl,      \* lifetime of a token
  MaxTime        \* horizon of the clock

ASSUME FlowAssumption == LoginFlow \subseteq Flow /\ NoFlow \notin Flow
ASSUME ClientAssumption == NoClient \notin Client /\ Redirect # {}
ASSUME RegistrationAssumption == /\ ClientOf \in [Flow -> Client]
                                 /\ RedirectOf \in [Flow -> Redirect]
                                 /\ AllowedRedirect \subseteq Client \X Redirect
ASSUME TimeAssumption == {StateTtl, Leeway, CodeTtl, TokenTtl, MaxTime} \subseteq Nat

VARIABLES
  now,            \* the wall clock
  up,             \* is the process running
  jar,            \* the browser's cookies: the flow each one stems from
  flow,           \* flow[f]: how far the browser is with f
  spent,          \* spent[f]: has the provider exchanged its code for f
  handler,        \* handler[h]: the callback request in slot h
  auth_code_data, \* the table: the row of the code generated for f's sign-in
  tms_identities, \* the table, as the sign-ins whose subject it holds
  tokens,         \* the tokens stored in issued_tokens for f's sign-in
  redeemer        \* redeemer[d]: the token request in slot d

vars == <<now, up, jar, flow, spent, handler, auth_code_data, tms_identities,
          tokens, redeemer>>

(***************************************************************************)
(* exp is the expiry in f's state.  overlap is a history field: another    *)
(* sign-in was started while f was pending, or f was started while the     *)
(* callback of another was still running.  code_out says that the response *)
(* carrying f's token or code reached the browser.                         *)
(***************************************************************************)
FlowRecord == [step : {"new", "at_idp", "back"}, exp : Nat,
               overlap : BOOLEAN, code_out : BOOLEAN]
NewFlow == [step |-> "new", exp |-> 0, overlap |-> FALSE, code_out |-> FALSE]

HandlerRecord == [pc : {"idle", "started", "exchange", "exchanged", "claims",
                        "identified", "minted", "respond"},
                  flow : Flow \cup {NoFlow}, cookie : Flow \cup {NoFlow}, exp : Nat]
IdleHandler == [pc |-> "idle", flow |-> NoFlow, cookie |-> NoFlow, exp |-> 0]

CodeRow == [client_id : Client \cup {NoClient}, redirect_uri : Redirect,
            updated : Nat, exp : Nat]
NoCode == [client_id |-> NoClient, redirect_uri |-> CHOOSE r \in Redirect : TRUE,
           updated |-> 0, exp |-> 0]

TokenRecord == [count : Nat, client : Client \cup {NoClient}, exp : Nat]

RedeemerRecord == [pc : {"idle", "claimed"}, code : Flow \cup {NoFlow},
                   client : Client \cup {NoClient}, exp : Nat]
IdleRedeemer == [pc |-> "idle", code |-> NoFlow, client |-> NoClient, exp |-> 0]

TypeOK ==
  /\ now \in Nat
  /\ up \in BOOLEAN
  /\ jar \in [state_cookie : Flow \cup {NoFlow}, tmstoken : LoginFlow \cup {NoFlow}]
  /\ flow \in [Flow -> FlowRecord]
  /\ spent \in [Flow -> BOOLEAN]
  /\ handler \in [Handler -> HandlerRecord]
  /\ auth_code_data \in [Flow -> CodeRow]
  /\ tms_identities \subseteq Flow
  /\ tokens \in [Flow -> TokenRecord]
  /\ redeemer \in [Redeemer -> RedeemerRecord]

HasCode(f) == auth_code_data[f].client_id # NoClient

Init ==
  /\ now = 0
  /\ up = TRUE
  /\ jar = [state_cookie |-> NoFlow, tmstoken |-> NoFlow]
  /\ flow = [f \in Flow |-> NewFlow]
  /\ spent = [f \in Flow |-> FALSE]
  /\ handler = [h \in Handler |-> IdleHandler]
  /\ auth_code_data = [f \in Flow |-> NoCode]
  /\ tms_identities = {}
  /\ tokens = [f \in Flow |-> [count |-> 0, client |-> NoClient, exp |-> 0]]
  /\ redeemer = [d \in Redeemer |-> IdleRedeemer]

-------------------------------------------------------------------------------
(***************************************************************************)
(* login_handler and authorize_handler: the redirect URI must be on the    *)
(* list of the client; the state is signed, set as the cookie (over        *)
(* whatever another tab left there) and sent along to the provider.        *)
(* login_handler also refuses a client_return_uri that is not on the list  *)
(* of the named client, or that comes without a name: such a request ends  *)
(* before it changes anything and is no step here.                         *)
(***************************************************************************)
check_allowed_redirects(client_id, redirect) == <<client_id, redirect>> \in AllowedRedirect

Busy(f) == \E h \in Handler : handler[h].pc # "idle" /\ handler[h].flow = f

(* get_state, and what login_handler does for the same purpose. *)
get_state(f) == [step |-> "at_idp", exp |-> now + StateTtl, code_out |-> FALSE,
                 overlap |-> \E other \in Flow \ {f} : Busy(other)]

StartSignIn(f) ==
  /\ up
  /\ flow[f].step = "new"
  /\ check_allowed_redirects(ClientOf[f], RedirectOf[f])
  /\ jar' = [jar EXCEPT !.state_cookie = f]
  /\ flow' = [g \in Flow |->
       IF g = f THEN get_state(f)
       ELSE IF flow[g].step = "new" THEN flow[g]
       ELSE [flow[g] EXCEPT !.overlap = TRUE]]
  /\ UNCHANGED <<now, up, spent, handler, auth_code_data, tms_identities, tokens, redeemer>>

login_handler(f) == f \in LoginFlow /\ StartSignIn(f)
authorize_handler(f) == f \notin LoginFlow /\ StartSignIn(f)

(* The user signs in at the provider, which sends the browser back. *)
IdpRedirect(f) ==
  /\ flow[f].step = "at_idp"
  /\ flow' = [flow EXCEPT ![f].step = "back"]
  /\ UNCHANGED <<now, up, jar, spent, handler, auth_code_data, tms_identities, tokens, redeemer>>

(***************************************************************************)
(* The browser calls the callback, with the cookie it has at that moment.  *)
(* A reload or a duplicate request calls it again.                         *)
(***************************************************************************)
(* Bug: the state cookie is removed when the callback arrives, not when it *)
(* is answered.                                                            *)
Bug_Callback(h, f) ==
  /\ up
  /\ flow[f].step = "back"
  /\ handler[h].pc = "idle"
  /\ handler' = [handler EXCEPT ![h] =
       [pc |-> "started", flow |-> f, cookie |-> jar.state_cookie, exp |-> 0]]
  /\ jar' = [jar EXCEPT !.state_cookie = NoFlow]
  /\ UNCHANGED <<now, up, flow, spent, auth_code_data, tms_identities, tokens, redeemer>>

Callback(h, f) ==
  /\ up
  /\ flow[f].step = "back"
  /\ handler[h].pc = "idle"
  /\ handler' = [handler EXCEPT ![h] =
       [pc |-> "started", flow |-> f, cookie |-> jar.state_cookie, exp |-> 0]]
  /\ UNCHANGED <<now, up, jar, flow, spent, auth_code_data, tms_identities, tokens, redeemer>>

Goto(h, pc) == handler' = [handler EXCEPT ![h].pc = pc]
Refuse(h) == handler' = [handler EXCEPT ![h] = IdleHandler]

decode_state(f) == flow[f].exp + Leeway >= now

(* Bug: the cookie is decoded but not compared with the parameter. *)
Bug_StateAccepted(h) == /\ handler[h].cookie # NoFlow
                        /\ decode_state(handler[h].cookie)

(* No cookie, another flow's cookie or an expired state: refused. *)
StateAccepted(h) == /\ handler[h].cookie = handler[h].flow
                    /\ decode_state(handler[h].flow)

(***************************************************************************)
(* The checks before the exchange.  The OAuth2 callback decodes the state  *)
(* twice around a read-only transaction; the later decoding decides.       *)
(***************************************************************************)
CheckState(h) ==
  /\ handler[h].pc = "started"
  /\ IF StateAccepted(h) THEN Goto(h, "exchange") ELSE Refuse(h)
  /\ UNCHANGED <<now, up, jar, flow, spent, auth_code_data, tms_identities, tokens, redeemer>>

(* Bug: the answer is kept, and serves a repeated callback as well. *)
Bug_get_token_for_provider(h) ==
  /\ handler[h].pc = "exchange"
  /\ LET f == handler[h].flow
     IN  \/ /\ spent' = [spent EXCEPT ![f] = TRUE]
            /\ Goto(h, "exchanged") \/ Refuse(h)
         \/ Refuse(h) /\ UNCHANGED spent
  /\ UNCHANGED <<now, up, jar, flow, auth_code_data, tms_identities, tokens, redeemer>>

(***************************************************************************)
(* The HTTP call to the provider, which honours its code once (external).  *)
(* It may fail, or succeed and leave the portal without a usable answer.   *)
(***************************************************************************)
get_token_for_provider(h) ==
  /\ handler[h].pc = "exchange"
  /\ LET f == handler[h].flow
     IN  \/ /\ ~spent[f]
            /\ spent' = [spent EXCEPT ![f] = TRUE]
            /\ Goto(h, "exchanged") \/ Refuse(h)
         \/ Refuse(h) /\ UNCHANGED spent
  /\ UNCHANGED <<now, up, jar, flow, auth_code_data, tms_identities, tokens, redeemer>>

get_tms_token_claims(h) ==
  /\ handler[h].pc = "exchanged"
  /\ handler' = [handler EXCEPT ![h].pc = "claims", ![h].exp = now + TokenTtl]
  /\ UNCHANGED <<now, up, jar, flow, spent, auth_code_data, tms_identities, tokens, redeemer>>

-------------------------------------------------------------------------------
(***************************************************************************)
(* OAuth2: the claims are saved with a fresh code.  Client and redirect    *)
(* come from the state in the cookie, the subject from the provider.       *)
(***************************************************************************)
db_insert_auth_code_data(h) ==
  /\ handler[h].pc = "claims"
  /\ handler[h].flow \notin LoginFlow
  /\ auth_code_data' = [auth_code_data EXCEPT ![handler[h].flow] =
       [client_id |-> ClientOf[handler[h].cookie],
        redirect_uri |-> RedirectOf[handler[h].cookie],
        updated |-> now, exp |-> handler[h].exp]]
  /\ Goto(h, "respond")
  /\ UNCHANGED <<now, up, jar, flow, spent, tms_identities, tokens, redeemer>>

db_insert_tms_identity_if_absent(h) ==
  /\ handler[h].pc = "claims"
  /\ handler[h].flow \in LoginFlow
  /\ tms_identities' = tms_identities \cup {handler[h].flow}
  /\ Goto(h, "identified")
  /\ UNCHANGED <<now, up, jar, flow, spent, auth_code_data, tokens, redeemer>>

make_auth_token(f, client, exp) ==
  tokens' = [tokens EXCEPT
    ![f] = [count |-> @.count + 1, client |-> client, exp |-> exp]]

(* Bug: the token is stored first, without waiting for the identity. *)
Bug_LoginToken(h) ==
  /\ handler[h].pc = "claims"
  /\ handler[h].flow \in LoginFlow
  /\ make_auth_token(handler[h].flow, ClientOf[handler[h].cookie], handler[h].exp)
  /\ Goto(h, "minted")
  /\ UNCHANGED <<now, up, jar, flow, spent, auth_code_data, tms_identities, redeemer>>

LoginToken(h) ==
  /\ handler[h].pc = "identified"
  /\ make_auth_token(handler[h].flow, ClientOf[handler[h].cookie], handler[h].exp)
  /\ Goto(h, "minted")
  /\ UNCHANGED <<now, up, jar, flow, spent, auth_code_data, tms_identities, redeemer>>

(***************************************************************************)
(* login.rs decodes the state once more, for the redirect, after the token *)
(* has been stored.                                                        *)
(***************************************************************************)
DecodeRedirect(h) ==
  /\ handler[h].pc = "minted"
  /\ IF decode_state(handler[h].cookie) THEN Goto(h, "respond") ELSE Refuse(h)
  /\ UNCHANGED <<now, up, jar, flow, spent, auth_code_data, tms_identities, tokens, redeemer>>

(***************************************************************************)
(* The response removes the state cookie, whichever flow it now belongs    *)
(* to, and carries the token cookie or the code - or never arrives.        *)
(***************************************************************************)
(* Bug: both callbacks set the token cookie. *)
Bug_Respond(h) ==
  /\ handler[h].pc = "respond"
  /\ Refuse(h)
  /\ jar' = [state_cookie |-> NoFlow, tmstoken |-> handler[h].flow]
  /\ flow' = [flow EXCEPT ![handler[h].flow].code_out = TRUE]
  /\ UNCHANGED <<now, up, spent, auth_code_data, tms_identities, tokens, redeemer>>

Respond(h) ==
  /\ handler[h].pc = "respond"
  /\ Refuse(h)
  /\ \/ LET f == handler[h].flow
        IN  /\ jar' = [state_cookie |-> NoFlow,
                       tmstoken |-> IF f \in LoginFlow THEN f ELSE jar.tmstoken]
            /\ flow' = [flow EXCEPT ![f].code_out = TRUE]
     \/ UNCHANGED <<jar, flow>>
  /\ UNCHANGED <<now, up, spent, auth_code_data, tms_identities, tokens, redeemer>>

(* A database error, a pool timeout or a closed connection ends a handler. *)
Abort(h) ==
  /\ handler[h].pc # "idle"
  /\ Refuse(h)
  /\ UNCHANGED <<now, up, jar, flow, spent, auth_code_data, tms_identities, tokens, redeemer>>

-------------------------------------------------------------------------------
(***************************************************************************)
(* The client redeems the code: one transaction checks the redirect,       *)
(* deletes the row and reads the claims from it.  A row that does not      *)
(* match is left alone and the request refused, as is one without the      *)
(* client's secret: client_id is the client its credentials have named.    *)
(***************************************************************************)
(* Bug: the row is read, not deleted. *)
Bug_db_delete_auth_code_data(f, client_id, redirect_uri) ==
  /\ HasCode(f)
  /\ auth_code_data[f].client_id = client_id
  /\ auth_code_data[f].redirect_uri = redirect_uri
  /\ auth_code_data[f].updated > now - CodeTtl
  /\ UNCHANGED auth_code_data

(* Bug: the age of the row is not looked at. *)
Bug_DeleteAnyAge(f, client_id, redirect_uri) ==
  /\ HasCode(f)
  /\ auth_code_data[f].client_id = client_id
  /\ auth_code_data[f].redirect_uri = redirect_uri
  /\ auth_code_data' = [auth_code_data EXCEPT ![f] = NoCode]

db_delete_auth_code_data(f, client_id, redirect_uri) ==
  /\ HasCode(f)
  /\ auth_code_data[f].client_id = client_id
  /\ auth_code_data[f].redirect_uri = redirect_uri
  /\ auth_code_data[f].updated > now - CodeTtl
  /\ auth_code_data' = [auth_code_data EXCEPT ![f] = NoCode]

get_access_token_from_code(d, f, client_id, redirect_uri) ==
  /\ up
  /\ flow[f].code_out
  /\ redeemer[d].pc = "idle"
  /\ check_allowed_redirects(client_id, redirect_uri)
  /\ db_delete_auth_code_data(f, client_id, redirect_uri)
  /\ redeemer' = [redeemer EXCEPT ![d] =
       [pc |-> "claimed", code |-> f, client |-> auth_code_data[f].client_id,
        exp |-> auth_code_data[f].exp]]
  /\ UNCHANGED <<now, up, jar, flow, spent, handler, tms_identities, tokens>>

(* The token is stored by a second transaction, after the delete committed. *)
(* Bug: the insert is retried after it succeeded. *)
Bug_RedeemedToken(d) ==
  /\ redeemer[d].pc = "claimed"
  /\ make_auth_token(redeemer[d].code, redeemer[d].client, redeemer[d].exp)
  /\ UNCHANGED <<now, up, jar, flow, spent, handler, auth_code_data, tms_identities, redeemer>>

RedeemedToken(d) ==
  /\ redeemer[d].pc = "claimed"
  /\ make_auth_token(redeemer[d].code, redeemer[d].client, redeemer[d].exp)
  /\ redeemer' = [redeemer EXCEPT ![d] = IdleRedeemer]
  /\ UNCHANGED <<now, up, jar, flow, spent, handler, auth_code_data, tms_identities>>

AbortRedeem(d) ==
  /\ redeemer[d].pc = "claimed"
  /\ redeemer' = [redeemer EXCEPT ![d] = IdleRedeemer]
  /\ UNCHANGED <<now, up, jar, flow, spent, handler, auth_code_data, tms_identities, tokens>>

-------------------------------------------------------------------------------
Tick ==
  /\ now < MaxTime
  /\ now' = now + 1
  /\ UNCHANGED <<up, jar, flow, spent, handler, auth_code_data, tms_identities, tokens, redeemer>>

Stop ==
  /\ up
  /\ up' = FALSE
  /\ handler' = [h \in Handler |-> IdleHandler]
  /\ redeemer' = [d \in Redeemer |-> IdleRedeemer]
  /\ UNCHANGED <<now, jar, flow, spent, auth_code_data, tms_identities, tokens>>

Start ==
  /\ ~up
  /\ up' = TRUE
  /\ UNCHANGED <<now, jar, flow, spent, handler, auth_code_data, tms_identities, tokens, redeemer>>

HandlerStep(h) ==
  \/ CheckState(h)
  \/ get_token_for_provider(h)
  \/ get_tms_token_claims(h)
  \/ db_insert_auth_code_data(h)
  \/ db_insert_tms_identity_if_absent(h)
  \/ LoginToken(h)
  \/ DecodeRedirect(h)
  \/ Respond(h)

Next ==
  \/ \E f \in Flow : login_handler(f) \/ authorize_handler(f) \/ IdpRedirect(f)
  \/ \E h \in Handler : \/ \E f \in Flow : Callback(h, f)
                        \/ HandlerStep(h)
                        \/ Abort(h)
  \/ \E d \in Redeemer :
       \/ \E f \in Flow, c \in Client, r \in Redirect : get_access_token_from_code(d, f, c, r)
       \/ RedeemedToken(d)
       \/ AbortRedeem(d)
  \/ Tick \/ Stop \/ Start

Spec == Init /\ [][Next]_vars

-------------------------------------------------------------------------------
(***************************************************************************)
(* One sign-in is in one place: as claims in a callback, as a row of       *)
(* auth_code_data, in the hands of one token request, or as a stored       *)
(* token.  Concurrent callbacks, concurrent redemptions, failures and      *)
(* restarts may lose it; they never make two of it.                        *)
(***************************************************************************)
Holding(f) == {h \in Handler : /\ handler[h].flow = f
                               /\ handler[h].pc \in {"exchanged", "claims", "identified"}}
Claiming(f) == {d \in Redeemer : redeemer[d].pc = "claimed" /\ redeemer[d].code = f}
SingleCustody ==
  \A f \in Flow : Cardinality(Holding(f)) + Cardinality(Claiming(f)) + tokens[f].count
                  + (IF HasCode(f) THEN 1 ELSE 0) <= 1

(***************************************************************************)
(* A code, and the token made from it, is for the client from which that   *)
(* user's sign-in was started, though all tabs share one state cookie.     *)
(***************************************************************************)
CodeBelongsToFlow ==
  \A f \in Flow :
    /\ HasCode(f) => /\ auth_code_data[f].client_id = ClientOf[f]
                  /\ auth_code_data[f].redirect_uri = RedirectOf[f]
    /\ tokens[f].count > 0 => tokens[f].client = ClientOf[f]

(***************************************************************************)
(* The portal's login stores the identity and the token in two             *)
(* transactions, answers in a third step, and can fail or stop after each: *)
(* still no token of a login is stored whose subject tms_identities lacks, *)
(* and the cookie in the browser is that of a stored token.                *)
(***************************************************************************)
TokenHasSubject ==
  /\ \A f \in LoginFlow : tokens[f].count > 0 => f \in tms_identities
  /\ jar.tmstoken # NoFlow => tokens[jar.tmstoken].count = 1

(***************************************************************************)
(* A callback meets a missing or foreign state cookie only if sign-ins     *)
(* overlapped in the browser, or if it repeats one that was answered: a    *)
(* user with one tab is never refused for the cookie.                      *)
(***************************************************************************)
LoneSignInKeepsCookie ==
  \A h \in Handler :
    LET f == handler[h].flow
    IN  handler[h].pc = "started" /\ handler[h].cookie # f
          => flow[f].overlap \/ flow[f].code_out

(***************************************************************************)
(* A callback that got its provider's answer carries the sign-in to the    *)
(* browser.  A login is lost when its token is stored and nobody is left   *)
(* to carry the answer; a code is dead when its time is over or its answer *)
(* never reached the browser.                                              *)
(***************************************************************************)
InHand == {"exchanged", "claims", "identified"}
PastExchange == InHand \cup {"minted", "respond"}
Carries(h, f) == handler[h].pc \in PastExchange /\ handler[h].flow = f
Unanswered(f) == ~flow[f].code_out /\ \A h \in Handler : ~Carries(h, f)

Stored(f) == f \in LoginFlow /\ tokens[f].count > 0
Lost(f) == Stored(f) /\ Unanswered(f)

DeadCode(f) ==
  /\ HasCode(f)
  /\ auth_code_data[f].updated + CodeTtl <= now \/ Unanswered(f)

(***************************************************************************)
(* A login whose callback failed after the token was stored (login.rs:239, *)
(* a lost response, a stop) is lost for good: no reload of the callback,   *)
(* which may still find its state cookie, and no other sign-in in the      *)
(* browser makes the cookie of the stored token reach it.                  *)
(***************************************************************************)
LostStaysLost == \A f \in Flow : Lost(f) => Lost(f)' /\ jar'.tmstoken # f
LoginsStayLost == [][LostStaysLost]_vars

(***************************************************************************)
(* A code that was not redeemed in time, or whose answer never reached the *)
(* browser, stays in auth_code_data as it is and its sign-in never gets a  *)
(* token: the one statement that deletes rows is the redemption, which can *)
(* no longer succeed.                                                      *)
(***************************************************************************)
DeadCodeStays ==
  \A f \in Flow : DeadCode(f) => /\ DeadCode(f)'
                                 /\ auth_code_data'[f] = auth_code_data[f]
                                 /\ tokens'[f].count = 0
CodesStayDead == [][DeadCodeStays]_vars

(***************************************************************************)
(* The flows implement the one-shot grant: the provider's exchange         *)
(* vouches, storing the token issues.                                      *)
(***************************************************************************)
grantBar == [f \in Flow |-> IF tokens[f].count > 0 THEN "issued"
                            ELSE IF spent[f] THEN "vouched"
                            ELSE IF flow[f].step # "new" THEN "asked" ELSE "none"]
Grant == INSTANCE OneShotGrant WITH grant <- grantBar,
                                    holder <- [f \in Flow |-> tokens[f].client],
                                    issued <- [f \in Flow |-> tokens[f].count]
GrantSpec == Grant!Spec

(***************************************************************************)
(* login.rs says of the login callback that a TMS token is created and     *)
(* returned: once it is stored, the handler goes on to its response unless *)
(* the request is aborted or the process stops.                            *)
(***************************************************************************)
CreatedIsReturned ==
  [][\A h \in Handler : DecodeRedirect(h) => handler'[h].pc = "respond"]_vars
===============================================================================
