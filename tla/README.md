# TLA+ verification of the TMS portal

This directory holds TLA+ models of the TMS portal (`src/`): a Rust/axum service
(`src/application`) over PostgreSQL that signs users in through an identity provider, issues
TMS tokens, links accounts at resource providers and records delegations to client
applications, and a React page (`src/client`) that lists and changes them. TLC checks the
models on small instances; TLAPS proves, for all values of the constants, every invariant and action
property and every refinement the runs check, and part of the liveness.

`PROJECT.json` lists, for each definition, the source lines it models (`map`), the runs, a
mutant per property (a plausible bug the property detects under the same configuration), the
hazards found in the code with the properties that watch them, and the theorems.

    tlc -workers 2 -config IssuedTokens.cfg IssuedTokens.tla
    tlapm IssuedTokensProofs.tla

## 1. The system

Everything in the service happens in request handlers (tokio tasks) that run concurrently and
share nothing but the configuration read at start, the connection pool and the database. Each
handler opens and commits one or more transactions (`db::...`); PostgreSQL runs them at READ
COMMITTED, which the code never changes. The callbacks of sign-ins call an external service
over HTTP, one of them with a transaction open. One background task deletes outdated token
rows. The browser contributes cookies (shared by all its tabs), reloads and duplicate requests.

| Component | Source | State | Operations | Status |
|---|---|---|---|---|
| Issued tokens | `utils/jwt_utils.rs`, `db/issued_tokens_dao.rs`, `db/keys_dao.rs`, `services/login_service.rs`, `main.rs` | tables `issued_tokens`, `keys`; signing key id in memory; token strings in cookies | mint, validate, logout, whoami, cleanup | modelled: `IssuedTokens` |
| Sign-in flows | `routes/login.rs`, `routes/oauth.rs`, `services/oauth2_service.rs`, `db/auth_code_data_dao.rs`, `utils/state_utils.rs` | tables `auth_code_data`, `tms_identities`, `issued_tokens`; one state cookie and one token cookie per browser | login, authorize, both callbacks, redeem a code | modelled: `AuthorizationFlow` |
| Resource provider links | `routes/resource.rs`, `services/resource_service.rs`, `db/resource_provider_logins_dao.rs` | tables `resource_provider_logins`, `resources`, `usernames`; one state cookie per provider | authorize, callback, list, unlink | modelled: `ResourceLinks` |
| Delegations | `routes/delegation.rs`, `services/delegation_service.rs`, `db/delegations_dao.rs` | table `delegations`; `default_expiration` in memory | add, list, delete | modelled: `Delegations` |
| Identity provider catalogue | `db/identity_provider_dao.rs`, `obj_model/identity_provider.rs`, `utils/oauth2_authorization_code_utils.rs` | table `identity_providers`, written by operators only | the four queries, the choice of the verifying key | modelled: `ProviderCatalog` |
| Connection pool | `application/src/config.rs`, every `db_pool.begin()` | five connections, the queue for them, row locks | acquire, write, commit, time out, drop | modelled: `ConnectionPool` |
| The portal as a whole | `utils/jwt_utils.rs` (the extractor), `routes/` | all of the tables | a request with a token; a sign-in it starts | modelled: `TmsPortal` |
| Portal page | `client/src/tms-hooks`, `LinkSuccessAlert.tsx`, `DelegationsListing.tsx` | query caches, mutation state | list, confirm, retry, revoke, unlink | partly: `DelegationPage`; the link dialog only by its disconnect button |
| Configuration and start-up | `utils/configuration.rs`, `obj_model/configuration.rs`, `config.rs` | values read once at start | start | partly: the signing key (`IssuedTokens!Start`) and the delegation expiration (`Delegations!Restart`) |
| JWT library | `libraries/tms_lib/src/utils` | none | encode, decode | partly: the choice of a key (`ProviderCatalog!find`) and what the validator relies on |
| Discovery document and key set | `routes/well_known.rs` | none | two answers | not modelled, see section 5 |
| Placeholder resource listing, error and API objects, UI widgets, macros, deployment scripts | | | | not modelled: no state of their own |

How they interact:

- A sign-in ends with a row of `issued_tokens`: the portal's login stores it in the callback,
  the OAuth2 flow stores the *claims* with an authorization code and the token when the code is
  redeemed. Every other protected handler starts with the `JwtValidator` extractor reading
  that row in a transaction of its own, before the handler's.
- Linking an account is started by an authenticated handler, but finished by a callback that
  carries no token: the identity is the one in the signed state cookie.
- A delegation refers to a link by identity, provider and account; adding one reads the link
  in one statement and inserts in a later one.
- Every sign-in reads its provider's row when it starts and again in its callback, in other
  transactions; the OAuth2 callback reads it twice.
- All transactions share five connections. The link callback keeps one, and a row lock, while
  the provider answers.
- The page caches the lists of links and delegations, and asks for them again after its own
  successful requests and when its window gets the focus.

What is hard about each, and what makes it correct (the full list, at its lines, is
`PROJECT.json` "hazards"):

- *Tokens*: logout, expiry, cleanup and validation of the same token run concurrently, over
  several transactions; the cleanup's cutoff is older than the statement using it; the process
  restarts with another key. A dead token is never admitted and never lives again; cleanup
  removes dead rows only, and in the end all of them; a logout finds its row.
- *Sign-ins*: tabs overwrite each other's state cookie; callbacks and token requests are
  duplicated; each flow spans several transactions and an HTTP call, and may stop in between.
  One sign-in yields at most one token, for the client that asked.
- *Links*: a transaction stays open across an HTTP request and locks rows in the order of the
  provider's answer. Links are complete or absent, belong to the identity that earned them,
  keep their id, and every callback ends.
- *Delegations*: check and insert are two statements; three things called "client" must agree;
  the expiration is computed at start. A delegation is justified by a usable link, answered
  to its owner only, limited in time and deleted by its owner only.
- *Catalogue*: rows are edited and keys rotated between the steps of one callback. An accepted
  sign-in was vouched for by the site of the row that names it; a provider that stays as it is
  loses nobody.
- *Pool*: requests wait for connections and for rows. They never wait for each other in a
  circle, and a silent provider keeps nobody it has nothing to do with.
- *The whole*: a logout or an expiry can fall between any two transactions of a request or of a
  sign-in. Whatever is stored has an accepted token of its owner behind it, and, if providers
  answer, a user whose tokens are dead comes to rest.
- *Page*: answers arrive late, out of order or never; a request the page gave up on may still
  take effect. What it made is listed, what it revoked is not.

## 2. Modules

| Module | Contents |
|---|---|
| `SessionLifecycle` | abstract: a token is unborn, live, dead; a request behaves as if its token were judged at one instant |
| `IssuedTokens` | the table, validation, logout, cleanup task, restarts; implements `SessionLifecycle` |
| `OneShotGrant` | abstract: asked, vouched, issued, at most one token for the client that asked |
| `AuthorizationFlow` | both sign-ins with one cookie jar, callbacks, codes, redemption; implements `OneShotGrant` |
| `LinkTable` | abstract: what readers rely on about `resource_provider_logins` |
| `ResourceLinks` | linking with row locks, deletion, operator, restarts; implements `LinkTable` |
| `Delegations` | add, list, delete; EXTENDS `LinkTable`, so it composes with any implementation of it |
| `TmsPortal` | EXTENDS `Delegations` and instantiates `SessionLifecycle`: the handlers behind the extractor, and sign-ins that make links |
| `ProviderCatalog` | the table of identity providers under the sign-ins that read it |
| `ConnectionPool` | requests by the order of their transactions, provider calls and contested writes |
| `DelegationPage` | the page's caches and requests against a server that behaves as `Delegations` and `LinkTable` allow |
| `MCAuthorizationFlow`, `MCDelegations`, `MCProviderCatalog`, `MCResourceLinks`, `MCTmsPortal` | instances for TLC: definitions for the constants that are functions or records |
| `...Proofs` | theorems about the module of that name: eight of them, one for each module that is not abstract |

Conventions. Actions carry the name of the function they model where there is one. A
transaction is one step, unless it consists of statements between which others can act: the
validator's two reads (`ReadToken`, `VerifyKey`), the cleanup's cutoff and delete, the check and
insert of a delegation, and the linking transaction, whose row locks are modelled
(`handler[h].locked`) and whose writes appear at the commit. Each
in-flight request is a slot of a function (`req`, `handler`, `redeemer`, `request`, `post`). Handlers can
fail at every step; a stop loses all of them and rolls back what is not committed.
`NoRow`, `NoCode`, `NoLink` and `Deleted` stand for the absence of a row. Definitions starting with
`Bug_` are the mutants; nothing else uses them.

### IssuedTokens

`jwt[t]` is the content of token string `t` (a token has a fresh `jti`, so it is minted once),
`issued_tokens[t]` its row, `signing_kid` the key id the running process signs with, `req` the
requests in flight, `cleaner` the loop at the end of `main`. `get_tms_token_claims` fixes the
expiry, `make_auth_token` stores the row later; in between the claims may be saved with an
authorization code and survive a stop (`Stop` chooses which do). The transaction of `logout` may
fail and leave the row as it is. Two facts of the code worth
knowing: the `exp` claim is in milliseconds where the decoder compares seconds, so only the
*row* makes a token expire; and the key row is looked up by the `kid` of the token's header,
so a start with a `kid` without a row issues tokens that are refused.
`dead` and `read_at` in a request are history: was the token dead on arrival, and when was its
row read.

### AuthorizationFlow

A `Flow` is one sign-in with its own state (a fresh nonce). All of them run in one browser:
`jar.state_cookie` is the cookie both `/login` and `authorize` overwrite, `jar.tmstoken` the
token cookie. The callback's steps follow the code: compare and decode the state
(`CheckState`), exchange the provider's code over HTTP, compute claims, then either store a
code (`db_insert_auth_code_data`) or the identity and, in another transaction, the token
(`db_insert_tms_identity_if_absent`, `LoginToken`), for a login decode the state *again*
(`DecodeRedirect`), respond. The response removes the state cookie whosever it now is.
`get_access_token_from_code` deletes the code in one transaction and `RedeemedToken` stores the
token in the next. A sign-in is `Lost` when its token was stored and its callback ended without an
answer, a code is `DeadCode` when it is too old or its answer never reached the browser. Left out are
the checks that look at constants only: the allowed redirect and the client's name of a login, the
client secret, whether `client_return_uri` parses. External: the identity provider, which honours its code once.

### ResourceLinks

A `Flow` names an identity (from the state), a provider and the account that will come back.
`resource_provider_logins[k]` is the row of a key, `allocated` the sequence of ids drawn, so that
an id never names two rows, `usernames` the usernames stored for each id. A callback takes
the time, locks the row (`UpsertLogin`), asks the provider for resources with the transaction
open (`get_resources`), upserts each resource in the order of the answer
(`db_add_or_update_resource`) and commits. Deletion waits for locks. External: the provider,
the operator clearing `enabled`, and PostgreSQL's deadlock detector.

### Delegations

`request[r]` carries the security context of its token (identity, client), the client name in the
request and the answer. Adding takes two steps (`ensure_recent_rp_login`,
`CommitDelegation`); the link table may change in between by any step of `LinkTable`.
`expiration` is `DelegationPolicyConfig`'s value, recomputed only by `Restart`. A list without a
name is answered to the portal only: for another client the service asks for the rows of one
client (`delegations_dao.rs:58`) by an unqualified `client_id`, a column of both joined tables, and
PostgreSQL refuses the statement as ambiguous whatever they hold. So the filter by client never
takes effect: a list that is answered holds the caller's rows of all clients. `usable` is
history: was the caller's link enabled and recent at some moment of the request.

### TmsPortal

The composition. A request presents a token (`Present`), is judged and admitted by the
extractor (`Judge`, `Admit`, steps of `SessionLifecycle`), and only then does one of its
handlers run (`Handle`), with the identity and client of the token: the three delegation
handlers, `logout`, `unlink_resource_provider`, and `authorize_handler`, which starts a
sign-in `flow[f]` at a resource provider for the caller. The sign-in's callback carries no
token. It is accepted while its state has not expired (`Callback`), verifies the provider's token
with the provider's keys (`Verify`), writes the row of its link, which stays locked (`TakeRow`), asks the
provider for resources and commits (`StoreLink`), or fails on the way (`LinkFails`). An unlink
whose delete has begun (`unlinking[r]`) waits while a callback has its row locked (`DeleteLink`); its
client may give up (`AbandonUnlink`). Names are prefixed with `Portal` where `Delegations` has the same one.
`seen_live[r]` and `authorised[f]` are history: was the token of the request, or of the request
that started the sign-in, live at some moment of it. The module is written over the abstract parts:
`SessionLifecycle`, which `IssuedTokens` implements, and `LinkTable`, which `ResourceLinks` implements.
That its steps are steps of the parts is how they are written, and is not listed as a result.

### ProviderCatalog

`identity_providers[i]` is a row: the site it points to, whether it names a key set, a stored
public key, the provider type, and what it is allowed for. `keys[s]` is what site `s` signs
with and publishes, in order. A sign-in (`handler[h]`) keeps the site the browser was sent to
and the row or rows it has read: the OAuth2 callback verifies with the first
(`VerifyingRow`) and asks the second for the token (`get_token_for_provider`). `find` is the
decoder's choice of a key: the one the token names, else the *first* of the set. `try_from`
fails for a column its query does not select, and for a provider type `from_str` does not know;
one such row fails a whole list (`Answer`). The link callback passes no stored key on. External:
operators (`Edit`), providers (`Rotate`). `steady` is history: since the callback arrived the row has
not changed and the token's key could be found.

### ConnectionPool

`Script` gives each kind of request the order of what it does: begin and commit a transaction,
ask a provider, write the row that others of its kind write too. `pool` is the set of
requests holding a connection, `queue` those that wait for one, `writer[t]` the request whose
transaction has locked the contested row of table `t`. Inserts under fresh keys and reads wait
for nobody and are left out; that requests writing the same table write the same row is the
worst case for waiting. A dropped handler leaves its transaction, which rolls it back
(`Drop`). External: sqlx's pool and PostgreSQL's row locks. `ResourceLinks` has the resources one by
one, in the order of the answer, and the deadlock detector; here they are written in one go.

### DelegationPage

`linkQuery` and `query` are what `useQuery` keeps of each list: data, and a fetch under way that the
server has or has not answered yet. `post` holds POST requests, including those abandoned after
the 30 seconds of `httpClient`, `mutation` what `useMutation` reports, `deletion` a
DELETE. The TanStack Query library is external and modelled as its documentation describes it:
`invalidateQueries` starts a new fetch and drops the answer of one under way, but does not
restart the very first fetch; a fetch that fails keeps the old data; focus fetches again.
`LinkElsewhere` and `DelegateElsewhere` are other tabs, the operator and the clock.

## 3. Runs

| Run | Instance | Shows |
|---|---|---|
| `tokens` | 2 tokens, 2 requests, 2 key ids (one without a row), lifetime 0, grace 1, clock to 2, `FairSpec` | `NoAdmissionAfterDeath`, `LogoutFindsItsRow`, `DeadStaysDead`, `CleanupSparesLive`, `ExpiredRowsRemoved`, and `LifecycleSpec`: the module implements `SessionLifecycle` |
| `signin_tabs` | a login and an OAuth2 sign-in, 2 callbacks and 2 token requests in flight, all lifetimes 1, leeway 1, clock to 3 | `SingleCustody`, `CodeBelongsToFlow`, `LoneSignInKeepsCookie`, `TokenHasSubject`, `LoginsStayLost` and `CodesStayDead` (what a failure or the clock has lost is never half taken up again), and `GrantSpec`: implements `OneShotGrant` |
| `links` | 2 users in one browser, 3 sign-ins of which two make the same link, 1 provider, 2 callbacks, 2 resources listed in either order, clock to 1, `FairSpec` | `LinkWasEarned`, `LinkIsComplete`, `RefreshKeepsId`, `LockedRowsStay`, `TableSpec`: readers see `LinkTable`; `EveryCallbackEnds` although the resources are locked in opposite orders |
| `delegations_safety` | 2 users, the portal and another client, 3 client names of which one is unknown, 1 request, 1 row, clock to 2 | `DelegationWasJustified`, `AnswersAreTheCallers`, `OwnerDeletes` |
| `portal` | 2 users with a token each (one at the portal, one at another client), 1 request, 2 sign-ins, 1 delegation id, clock to 1, `PortalFairSpec` | `EffectsAreAuthorised`, and `LogoutTakesHold` with its premise that providers answer |
| `catalog` | 1 row slot, 6 rows an operator may write, 2 sites with 2 keys each, 1 sign-in of any kind | `AcceptedByItsRow`, `SteadyProviderAccepted` |
| `pool` | 3 requests of 5 kinds, 2 connections, `FairSpec` | `StallsOnlyBehindLinks`, `EveryRequestEnds`, `BystandersEnd` |
| `page_lists` | 1 account, 1 POST and 1 DELETE in flight, 2 delegation ids | `SuccessIsReflected`, `RevokedIsGone` |

Each of them checks its module's type invariant too. Four runs expect a violation. Each states
what a comment, a document or a test of the repository says and shows a behaviour of the code
that differs:

| Run | Statement | Behaviour |
|---|---|---|
| `login_answer` | `CreatedIsReturned`: "A TMS token is created and returned" (`routes/login.rs:209`) | the login callback decodes the state again after storing the token; if it expires in between, the token exists and the user gets an error |
| `list_by_name` | `NameLimitsList`: "Client name may be supplied to limit the list" (`docs/tms_openapi.yml:414`) | the name is checked against the token and then not used in the query |
| `born_expired` | `AddedIsLive`: the page says "You have successfully delegated" | `DelegationPolicyConfig` computes the expiration when the process starts; after 30 days of uptime each new delegation has expired already |
| `idp_listing` | `LoginProvidersListed`: "Get list of all supported login identity providers" (`docs/tms_openapi.yml:117`) | the query of the login providers selects `resources_endpoint`, the conversion it shares with the others reads `resources_services_url`: a list with a row in it fails |

**Bounds.** Two of each kind of actor are what the races need: a request against a logout or
the cleanup; two tabs; two redeemers of one code; two callbacks with opposite lock orders; two
users. Each handler treats rows of different keys independently, and no guard counts
actors, so a third adds no new kind of conflict; the proofs confirm it for the safety properties. The
clock goes one or two ticks beyond lifetime plus grace or leeway, so each comparison is met from below, at equality and
above (`TokenTtl + CleanupGrace < MaxTime`, `StateTtl + Leeway < MaxTime`). The bounds in guards are `MaxTime` (`Tick`, and
`authorize_handler` of `TmsPortal`, which starts no sign-in that could not expire),
`MaxDelegations`, and, for the page, `MaxRows` and `MaxLogins`. With one delegation id the run
`delegations_safety` still relates a row to callers of either identity and either client, through
every earlier owner the row may have had. The pool needs three requests for two connections: one
holds a row, one waits for it, one waits for a connection; its five kinds are one that writes
nothing contested, one that writes a row of its own, one that asks a provider without a
transaction, one with, and one that writes the row the latter has locked. The catalogue
has one row slot because a sign-in reads no other row than its own; two sites, because a row can be
pointed at another. The page has one POST slot, so that two POSTs overlap only
through an abandoned one whose slot has been freed; that two simultaneous clicks change nothing
of the two invariants is proved, not explored. The portal has one request slot and two sign-ins: a
request against the callbacks whose rows it waits for. A second slot could only offer
`EffectsAreAuthorised` another request to name as the cause, so one is the stricter instance; what
needs two, a delete that finds its row gone because another request was first, is covered by the
proofs only. The largest runs have 397,050 (`signin_tabs`), 379,932 (`tokens`) and 320,305 (`portal`)
distinct states.

Deadlock is not checked by TLC (`CHECK_DEADLOCK FALSE`): with the clock at its horizon, every identifier used
and no request in flight the models have nothing left to do. That requests do not block each
other is what `StallsOnlyBehindLinks`, `EveryRequestEnds`, `EveryCallbackEnds` and `LogoutTakesHold` say.

**Fairness.** `IssuedTokens!FairSpec`: weak fairness of the clock and of a restart, and *strong*
fairness of `CleanupTick` and `CleanupDelete`. The task's loop never ends (errors are logged, a
tokio interval ticks), but a stop or a database error can hit any pass; strong fairness says that they do
not hit every one. The 15-minute interval itself is abstracted to "again and again".
`ResourceLinks!FairSpec`: weak fairness of each callback's
own steps and of the deadlock detector. This assumes that providers answer or drop the
connection: the HTTP client has no timeout, so a provider that hangs would keep the callback,
its transaction and its row lock. Lock waits are part of the guards, so fairness does not
resolve them: without `DeadlockDetected` two callbacks with opposite lock orders wait for ever.
`ConnectionPool!FairSpec` is *strong* fairness of each request's own moves, because PostgreSQL
queues the waiters for a row and none is passed over for ever (the pool's queue is part of the
state). That providers answer (`ProvidersAnswer`) and that the pool's timeout fires
(`AcquireTimesOut`) are not assumed but premises of one property each: with the first every
request ends without the timeout; with the second, and providers that may be silent for ever,
still all do that neither ask a provider nor write a link.
`TmsPortal!PortalFairSpec`: the clock advances (weak fairness); the runtime goes on with every
admitted request and every callback that can go on, and PostgreSQL queues those that wait for a
row (strong fairness of `Proceed` and `TakeRow`). Nobody has to present a token, sign in or come
back from a provider, no provider has to answer, and no client has to give up waiting. That
providers answer is the premise `ProvidersAnswer` of `LogoutTakesHold`: the callback asks for
keys and resources over a client without a timeout (`resource_service.rs:212-253`), and an unlink waits
for the row it has locked; without the premise `LogoutTakesHold` does not hold.
The remaining runs use `Spec`, without fairness.

**What a run's pass does not mean.** `LogoutFindsItsRow`
carries the condition that the request took no longer than the grace; `LoneSignInKeepsCookie`
is about sign-ins that did not overlap (history field `overlap`), `SuccessIsReflected` about a
POST whose answer met a list that could be fetched again (`reloads`). `EffectsAreAuthorised`
asks for a token that was live *while* the request ran: a logout in the middle of a request does not
stop it, and a sign-in at a provider outlives the logout of the token that started it until its
state expires, which is what `LogoutTakesHold` bounds. `SteadyProviderAccepted` excepts rows
without a key set: their stored key must be the current one, and the link callback does not use it.
`TableSpec` allows a commit to record any time up to now, so two sign-ins for one link may leave the
older time behind, as the code does (`resource_service.rs:239`); `DelegationWasJustified` asks for a
link usable at *some* moment of the request, so one disabled between check and insert does not
violate it. `EffectsAreAuthorised` is about delegation rows and links, not about answers, and the
flag of a link is the operator's.

## 4. Theorems

All theorems hold for all constants that satisfy the named assumptions of their modules.

| Module (obligations) | Theorem | Statement |
|---|---|---|
| `IssuedTokensProofs` (841) | `TypeCorrect` | `Spec => []TypeOK` |
| | `NoAdmission` | `Spec => []NoAdmissionAfterDeath` |
| | `LogoutRow` | `Spec => []LogoutFindsItsRow` |
| | `NoResurrection` | `Spec => DeadStaysDead` |
| | `LiveRowsSpared` | `Spec => CleanupSparesLive` |
| | `ImplementsLifecycle` | `Spec => LifecycleSpec` |
| | `OverdueRemoved` | `FairSpec /\ []EnabledIsPossible => ExpiredRowsRemoved` |
| `AuthorizationFlowProofs` (1738) | `TypeCorrect` | `Spec => []TypeOK` |
| | `OneCustodian` | `Spec => []SingleCustody` |
| | `CodesBelong` | `Spec => []CodeBelongsToFlow` |
| | `LoneCookie` | `Spec => []LoneSignInKeepsCookie` |
| | `SubjectsAreStored` | `Spec => []TokenHasSubject` |
| | `ImplementsGrant` | `Spec => GrantSpec` |
| | `AnsweredOnce` | `Spec`: at most one callback carries a sign-in to the browser, and none once it was answered |
| | `LateLoginsAreLost` | `Spec`: a login's callback that ends after storing the token and before responding leaves the login lost |
| | `LostForGood` | `Spec => LoginsStayLost` |
| | `DeadCodesStay` | `Spec => CodesStayDead` |
| `ResourceLinksProofs` (1044) | `TypeCorrect` | `Spec => []TypeOK` |
| | `LinksAreEarned` | `Spec => []LinkWasEarned` |
| | `LinksAreComplete` | `Spec => []LinkIsComplete` |
| | `IdsAreKept` | `Spec => RefreshKeepsId` |
| | `LockedRowsAreStable` | `Spec => LockedRowsStay` |
| | `ImplementsTable` | `Spec => TableSpec` |
| | `DisabledStays` | `Spec`: a disabled link is not enabled again while its row stays |
| | `OneOrderNoDeadlock` | if one order of the resources agrees with every list: `Spec => []NobodyDeadlocked` |
| `DelegationsProofs` (530) | `TypeCorrect` | `Spec => []TypeOK` |
| | `Justified` | `Spec => []DelegationWasJustified` |
| | `OnlyTheCallers` | `Spec => []AnswersAreTheCallers` |
| | `LifeBounded` | `Spec => []LifeIsBounded` |
| | `OwnersDelete` | `Spec => OwnerDeletes` |
| | `DisabledBars` | `Spec`: a request that begins while its link is disabled never succeeds while the row stays |
| `TmsPortalProofs` (1643) | `PortalTypeCorrect` | `PortalSpec => []PortalTypeOK` |
| | `EffectsAuthorised` | `PortalSpec => EffectsAreAuthorised` |
| | `PortalDelegations` | `PortalSpec => [](DelegationWasJustified /\ AnswersAreTheCallers)` |
| | `AcceptedRequestsEnd` | `PortalFairSpec /\ ProvidersAnswer /\ []EnabledIfPossible`: every accepted request ends, an unlink that waits for a row included |
| | `LastRequestsEnd` | under the same premises, a user whose tokens are dead for good has at some time no request in a given slot any more |
| | `SignInsRunOut` | if the clock also passes every moment: each sign-in at some time is of no more use |
| `ProviderCatalogProofs` (608) | `TypeCorrect` | `Spec => []TypeOK` |
| | `AcceptedByRow` | `Spec => []AcceptedByItsRow` |
| | `SteadyAccepted` | `Spec => []SteadyProviderAccepted` |
| | `LoginListsFail` | `Spec`: no list of login providers ever has a provider in it, and asking for it fails whenever there is one |
| `ConnectionPoolProofs` (1734) | `TypeCorrect` | `Spec => []TypeOK` |
| | `StallsAreLinks` | `Spec => []StallsOnlyBehindLinks` |
| | `BystandersAlwaysEnd` | `FairSpec /\ []EnabledIsPossible => BystandersEnd` |
| | `RequestsEndInTime` | `FairSpec /\ []EnabledIsPossible /\ ProvidersAnswer /\ AcquireTimesOut`: every request of every kind ends |
| | `EndsUnlessQueued` | `FairSpec /\ []EnabledIsPossible /\ ProvidersAnswer`: every request ends that does not stay in the pool's queue for ever |
| | `FirstInLineIsServed` | under the same premises the head of the queue does not stay there |
| `DelegationPageProofs` (783) | `TypeCorrect` | `Spec => []TypeOK` |
| | `SuccessReflected` | `Spec => []SuccessIsReflected` |
| | `RevokedStaysGone` | `Spec => []RevokedIsGone` |

The arguments:

- *IssuedTokens*: `IndInv == TypeOK /\ RowsFollowClaims /\ CutoffIsOld /\ RequestKeepsFacts`. That a
  dead token stays dead needs `RowsFollowClaims` (a row exists only for a signed token and has the
  expiry of its claims, and the row of a signed token is missing only once the token has been
  expired for longer than the grace). That cleanup spares live rows needs `CutoffIsOld` (the cutoff
  lies at least the grace before now, however long ago it was computed). That a logout finds its
  row needs `RequestKeepsFacts` (a token that was accepted had an expiry not before the moment it
  was read, and a request that found its token dead still does). The refinement maps a token to
  unborn, live or dead by its row and the clock; `Tick` is the abstract `Age` in which any
  number of tokens may die. `OverdueRemoved` argues by contradiction: while an overdue row stays,
  the process is up again and again (weak fairness of `Start`), so passes begin again and again
  (strong fairness of `CleanupTick`), each of them with a cutoff at which the row is due; strong
  fairness of `CleanupDelete` then ends the row.
- *AuthorizationFlow*: `Custody(f)` follows a sign-in from hand to hand. Before the
  provider has exchanged its code nobody holds it (`~spent[f] => Nowhere(f)`); afterwards it is with
  one callback, or stored as a code, or with one token request, or a token. `RecordFacts`
  says that a callback past the check of the state came with the cookie of its own flow, which is
  why codes belong to the flow that asked. The lone sign-in needs a second invariant: while no
  other sign-in has overlapped it, the cookie is its own until a response removes it. `SubjectInv`
  is a third one: a callback past a transaction has what that transaction stored behind it
  (`SubjectFacts`), and logins and codes never meet. The fourth, `AnswerInv`, follows the answer: the
  provider vouches once, so one callback at most is past the exchange for a sign-in, and nobody takes
  up what it drops (`NobodyTakesOver`). From this come the theorems on what is lost: the
  finding of the run `login_answer` for every browser and clock, and the codes nobody can redeem any
  more, which no statement removes.
- *ResourceLinks*: a callback was let in with the cookie of its own flow, has spent its flow's
  code past the exchange, and what it is about to write of resources is a whole answer; no recorded
  login is of the future, and every id was drawn for its key. The refinement hides locks and open transactions: only a commit is a
  step of `LinkTable`. Neither locks nor their order matter for that; they do for `EveryCallbackEnds`,
  and for `LockedRowsAreStable`, which needs that no two callbacks have locked the same row (an
  invariant of its own). `OneOrderNoDeadlock` says where the deadlocks come from that the detector has
  to break: a callback waiting for its link's row holds nothing, and if the lists all ran down one
  order, whoever waits for a resource would wait for a callback that is further down, so a circle of
  waiters would descend for ever. It has two premises. That a row belongs to one of the
  two tables is so by their nature. That the lists agree on an order the code does not establish:
  `db_add_or_update_resources_with_username` writes in the order of the provider's answer, and with
  two lists in opposite orders, as in the run `links`, `NobodyDeadlocked` fails.
- *Delegations*: `TypeOK /\ AddFacts /\ AnswerFacts /\ LifeFacts`: a request that adds carries a
  key of its own caller, and has been seen usable once it is past the check; an answer
  holds rows of the caller and the clients it may see; the expiration in memory is at most
  `DelegationLife` ahead of the clock, and no row lives longer than that from its creation.
  `DisabledBars` adds that the slot of an idle request remembers no use of a link, and that no step
  of the link table sets a flag that was cleared.
- *TmsPortal*: a step of the portal is a step or a stutter of each part, so the invariant of
  `DelegationsProofs` is one of the portal; added are `Trusted` (an accepted request has been
  seen with a live token) and `Pending` (a sign-in that has begun was begun by such a request).
  For the liveness a row is locked by one callback at most, which is at its provider and lets go once
  that answers (`LocksEnd`). So a request goes through at most six stages, each left by its own steps:
  an unlink waits for a row that is free again and again, and strong fairness takes it on. A callback
  likewise gets its row and ends (`CallbacksEnd`). A user without live tokens gets no request
  accepted, so what ended stays ended; a sign-in is refused once its state has expired.
- *ProviderCatalog*: a sign-in is described by its record alone (`Good`), and by what else it
  knows while its provider is steady (`Steady`). `accepted` is where they meet: the token was signed
  by the site the browser was sent to, and verified with a key of the first row's site; sites share
  no keys, so the sites are one. `LoginListsFail` says of every table what the run `idp_listing`
  shows on one.
- *ConnectionPool*: where a request is in its script determines what it holds (tables `Held`,
  `Locked`). `Sound` states what the scripts have in common and is checked for each of the twelve:
  only a link callback asks a provider or writes a second table inside a transaction, and having
  written the second it commits. So whoever is blocked on a row is blocked behind a request that can
  move or by a link callback at its provider, and a full pool always holds one of these.
  Liveness is proved for each place of a script and put together over the at most eight places of
  one: a request leaves a place by its own move only, so strong fairness takes it on if
  what it waits for is there again and again. A row comes free because its writer commits next (a
  link callback after its provider's answer); a connection because its holder comes to its commit;
  the queue is left by the timeout or from its head.
- *DelegationPage*: `ListFacts` holds of the answer under way and of the list shown after a fetch
  succeeded: nothing revoked, and what was reported as made. It survives every step that does not
  start a new fetch; a step that reports or revokes does start one (`PageStep` describes what any
  step may do, `FactsStay` is the core).

**Liveness and its premises.** The prover treats `ENABLED` as an unknown predicate. The liveness
theorems therefore have the meaning of `ENABLED` as a premise, for the fair actions only:
`EnabledIsPossible` says that such an action is enabled exactly if there are values of the next
state that satisfy it and differ from the present ones, `EnabledIfPossible` that it is if there are
such values for one of its disjuncts. By the definition of `ENABLED` both hold in every state; they
say nothing about the portal. The next states are written out as
operators over values (`AcquireTo`, `CleanupTickTo`, `FinishTo`...), lemmas tie each to its action
(`StepOfMove`, `StepOfFinish`...), and that there are such values is a lemma (`TaskMayGoOn`,
`CanMoveThenMay`, `RequestCanEnd`...).
`SignInsRunOut` has one more premise, `TimePasses`: that weak fairness of a tick brings the clock past
every moment below its horizon is an induction on the time.

Only model-checked, and why:

- `EveryRequestEnds` without the timeout: from `FirstInLineIsServed` and `EndsUnlessQueued` it lacks
  the induction on the place in the queue. Induction on a temporal formula is out of the
  prover's reach;
- `EveryCallbackEnds` (induction over flows and over the list of resources), for the same reason;
- `LogoutTakesHold`: `LastRequestsEnd` and `SignInsRunOut` prove it request by request and
  sign-in by sign-in; that there is one moment from which on it holds of all of them, a conjunction of
  finitely many `<>[]`, is an induction on their number, and the passing of time one on the clock;
- the violations, which are single behaviours; the one of `idp_listing` is proved in general.

The other direction of the table: `LifeIsBounded`, `PortalDelegations`, `LoginListsFail` and the
theorems whose statement is given in words are only proved, no run checks them.

## 5. Assumptions and what is left out

- The clocks of service and database are one, and do not go back.
- Transactions run at READ COMMITTED; a statement sees what is committed when it starts, and a
  write waits for the transaction that wrote the same row.
- The schema is not in the repository; `src/tms_portal_dev_config.sql` has sample inserts
  only. `Delegations` models tables without cascades or unique keys
  beyond those the statements' `ON CONFLICT` clauses name. `ProviderCatalog` leaves the columns a
  constant that has `resources_services_url`, as the sample rows do (`TableAssumption`).
- `ConnectionPool` assumes that two requests that write a table write the same row of it.
- Signatures cannot be made without the key, providers share no keys, nonces and codes are fresh,
  and a provider honours its code once.
- Tokens, names, URIs and provider answers are model values; formatting, logging, HTTP status
  codes, audiences and encryption of provider tokens are left out. Requests without any token, or
  with a malformed one, are refused before any state is touched and are not modelled.
- A delegation's request and the answer of a list are one transaction each; the time from the commit to the
  reading of the answer is modelled by the slot keeping it.

Not modelled, and why:

- The discovery document and the key set (`routes/well_known.rs`) are constants computed from
  the configuration, and no step depends on them; the key set's transaction is the kind
  `open` of `ConnectionPool`. The document's endpoints are not the paths the routers register.
- The link dialog (`LinkIdentityModal.tsx`) beyond its disconnect button: it only sends the
  browser to `authorize_handler`.
- Reading configuration files (pure I/O; errors end the start), cryptography, generic widgets,
  stubs, error and response objects, macros and deployment scripts: no state of their own.

Some behaviour is modelled as it is without a property, because nothing in the repository says
what is intended: deleting a disabled link and linking again enables it; unlinking leaves
delegations; two requests may store the same delegation twice; of two sign-ins for one link the
older time may stay; another client's list without a name always fails; the page compares client and provider but not the account, and before the list has arrived
offers to make a delegation that exists; the OAuth2 flow stores no `tms_identities` row; the
`linked_only` list joins a table no other statement names; one provider of an unknown type fails the
whole list; links of a provider that has been withdrawn can still be delegated.

## 6. Plan

Done: every part of the service that keeps state, its abstractions and the refinements between
them, the composition of the parts, the page's caches, the proofs of all safety properties, and of the
liveness of the cleanup, the pool and the portal as far as the prover reaches.

Left:

1. The link dialog in `DelegationPage` and two POST slots in its run, so that two clicks are
   explored as well as proved.
2. `TmsPortal` over `IssuedTokens` and `ResourceLinks` themselves instead of their abstractions; the
   refinements make it redundant for safety, not for liveness.
3. `ConnectionPool` with two contested rows for `resources`, which would bring the deadlock of
   `ResourceLinks` and the pool into one model.
