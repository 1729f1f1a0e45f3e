----------------------------- MODULE ResourceLinks -----------------------------
(***************************************************************************)
(* Linking accounts at resource providers: a signed-in user starts a link  *)
(* (GET /resources/providers/authorize), signs in at the provider, and the *)
(* callback writes resource_provider_logins, resources and usernames in    *)
(* one transaction that stays open across an HTTP request to the provider. *)
(* Users list and delete their links by id; an operator may disable one.   *)
(*                                                                         *)
(* The callback does not see the user's token: the identity comes from the *)
(* signed state, kept in one cookie per provider.  Row locks are modelled  *)
(* (an upsert or delete waits for the transaction that wrote the row), and *)
(* so is PostgreSQL's deadlock detector, because the order of the resource *)
(* upserts is the order in which the provider lists them.                  *)
(***************************************************************************)
EXTENDS Integers, Sequences

CONSTANTS
  Identity,      \* TMS identities
  Rp,            \* resource providers
  Account,       \* account names at the providers
  Flow,          \* link attempts, each with its own state
  NoFlow,
  IdentityOf,    \* IdentityOf[f]: the identity whose token started f
  RpOf,          \* RpOf[f]: the provider
  AccountOf,     \* AccountOf[f]: the account used at the provider
  WithResources, \* the providers with a resources endpoint
  ResourceLists, \* the lists of resources an endpoint may answer
  Handler,       \* slots for callbacks in flight
  StateTtl, Leeway,
  MaxTime

Key == Identity \X Rp \X Account
Resource == UNION {{list[i] : i \in 1 .. Len(list)} : list \in ResourceLists}

ASSUME FlowAssumption == /\ IdentityOf \in [Flow -> Identity]
                         /\ RpOf \in [Flow -> Rp]
                         /\ AccountOf \in [Flow -> Account]
                         /\ NoFlow \notin Flow
ASSUME ListAssumption == ResourceLists \subseteq Seq(Resource)
ASSUME TimeAssumption == {StateTtl, Leeway, MaxTime} \subseteq Nat

VARIABLES
  now,
  jar,       \* jar[p]: the flow in cookie state_rp_id_<p> of the browser
  flow,      \* flow[f]: how far the browser is with f, and its state's expiry
  spent,     \* spent[f]: has the provider exchanged its code for f
  handler,   \* handler[h]: the callback in slot h
  resource_provider_logins, \* the table: row of a key, or NoRow
  allocated, \* allocated[i]: the key for which the serial id i was drawn
  usernames  \* usernames[i]: the resources with a username for link id i

vars == <<now, jar, flow, spent, handler, resource_provider_logins, allocated, usernames>>

Row == [id : Nat, enabled : BOOLEAN, last_login : Nat]
NoRow == [id |-> 0, enabled |-> FALSE, last_login |-> 0]
Present(k) == resource_provider_logins[k].id # 0

(* locked: the rows the transaction of the callback has written. *)
HandlerRecord == [pc : {"idle", "exchange", "login", "fetch", "upsert"},
                  flow : Flow \cup {NoFlow}, cookie : Flow \cup {NoFlow},
                  last_login : Nat, todo : Seq(Resource), fetched : SUBSET Resource,
                  locked : SUBSET (Key \cup Resource)]
Idle == [pc |-> "idle", flow |-> NoFlow, cookie |-> NoFlow, last_login |-> 0,
         todo |-> <<>>, fetched |-> {}, locked |-> {}]

TypeOK ==
  /\ now \in Nat
  /\ jar \in [Rp -> Flow \cup {NoFlow}]
  /\ flow \in [Flow -> [step : {"new", "at_rp"}, exp : Nat]]
  /\ spent \in [Flow -> BOOLEAN]
  /\ handler \in [Handler -> HandlerRecord]
  /\ resource_provider_logins \in [Key -> Row]
  /\ allocated \in Seq(Key)
  /\ usernames \in [1 .. Len(allocated) -> SUBSET Resource]
  /\ \A k \in Key : Present(k) => allocated[resource_provider_logins[k].id] = k

Init ==
  /\ now = 0
  /\ jar = [p \in Rp |-> NoFlow]
  /\ flow = [f \in Flow |-> [step |-> "new", exp |-> 0]]
  /\ spent = [f \in Flow |-> FALSE]
  /\ handler = [h \in Handler |-> Idle]
  /\ resource_provider_logins = [k \in Key |-> NoRow]
  /\ allocated = <<>>
  /\ usernames = <<>>

-------------------------------------------------------------------------------
(***************************************************************************)
(* The authorize handler, for an authenticated user: the state names the   *)
(* user's identity; the provider's state cookie is overwritten.            *)
(***************************************************************************)
get_authenticate_redirect_info(f) ==
  flow' = [flow EXCEPT ![f] = [step |-> "at_rp", exp |-> now + StateTtl]]

authorize_handler(f) ==
  /\ flow[f].step = "new"
  /\ get_authenticate_redirect_info(f)
  /\ jar' = [jar EXCEPT ![RpOf[f]] = f]
  /\ UNCHANGED <<now, spent, handler, resource_provider_logins, allocated, usernames>>

(***************************************************************************)
(* The user signs in at the provider, which sends the browser back with a  *)
(* code and the state; a reload sends the same callback again.  The state  *)
(* must equal the cookie of its provider and not be outdated, else the     *)
(* handler answers with an error and changes nothing.                      *)
(***************************************************************************)
decode_state(f) == flow[f].exp + Leeway >= now

(* Mutant: any state of the right provider will do. *)
Bug_StateAccepted(f, cookie) == cookie # NoFlow /\ decode_state(cookie)

StateAccepted(f, cookie) == cookie = f /\ decode_state(f)

Callback(h, f) ==
  /\ flow[f].step = "at_rp"
  /\ handler[h].pc = "idle"
  /\ StateAccepted(f, jar[RpOf[f]])
  /\ handler' = [handler EXCEPT ![h] =
       [Idle EXCEPT !.pc = "exchange", !.flow = f, !.cookie = jar[RpOf[f]]]]
  /\ UNCHANGED <<now, jar, flow, spent, resource_provider_logins, allocated, usernames>>

End(h) == handler' = [handler EXCEPT ![h] = Idle]

(***************************************************************************)
(* The provider honours its code once (external); the call may fail.  The  *)
(* time of the login is taken before the row is locked.                    *)
(***************************************************************************)
get_token_for_provider(h) ==
  /\ handler[h].pc = "exchange"
  /\ \/ /\ ~spent[handler[h].flow]
        /\ spent' = [spent EXCEPT ![handler[h].flow] = TRUE]
        /\ \/ handler' = [handler EXCEPT ![h].pc = "login", ![h].last_login = now]
           \/ End(h)
     \/ End(h) /\ UNCHANGED spent
  /\ UNCHANGED <<now, jar, flow, resource_provider_logins, allocated, usernames>>

-------------------------------------------------------------------------------
(* The identity comes from the state in the cookie, the account from the   *)
(* provider's answer for the code in the request.                          *)
KeyOf(h) == <<IdentityOf[handler[h].cookie], RpOf[handler[h].flow], AccountOf[handler[h].flow]>>

Free(h, row) == \A g \in Handler \ {h} : row \notin handler[g].locked

(* Mutants: the conflict branch re-enables the row; it draws a new id; the *)
(* insert reads the sequence before it draws.                              *)
Bug_UpsertEnables(k, last_login) ==
  /\ allocated' = IF Present(k) THEN allocated ELSE Append(allocated, k)
  /\ resource_provider_logins' = [resource_provider_logins EXCEPT
       ![k] = [id |-> IF Present(k) THEN resource_provider_logins[k].id ELSE Len(allocated'),
               enabled |-> TRUE, last_login |-> last_login]]
Bug_UpsertRenumbers(k, last_login) ==
  /\ allocated' = Append(allocated, k)
  /\ resource_provider_logins' = [resource_provider_logins EXCEPT
       ![k] = [id |-> Len(allocated'), last_login |-> last_login,
               enabled |-> IF Present(k) THEN resource_provider_logins[k].enabled ELSE TRUE]]
Bug_UpsertReusesId(k, last_login) ==
  /\ allocated' = IF Present(k) \/ allocated # <<>> THEN allocated ELSE Append(allocated, k)
  /\ resource_provider_logins' = [resource_provider_logins EXCEPT
       ![k] = [id |-> Len(allocated'), last_login |-> last_login,
               enabled |-> IF Present(k) THEN resource_provider_logins[k].enabled ELSE TRUE]]

(***************************************************************************)
(* Insert with enabled true and a fresh id, or update of last_login (and   *)
(* the provider's tokens) that keeps id and enabled.  PostgreSQL draws a   *)
(* serial value for the conflicting insert as well and drops it: the gap   *)
(* in the ids is left out, no id is ever drawn twice.                      *)
(***************************************************************************)
db_add_or_update_resource_account_login(k, last_login) ==
  IF Present(k)
    THEN /\ resource_provider_logins' =
              [resource_provider_logins EXCEPT ![k].last_login = last_login]
         /\ UNCHANGED allocated
    ELSE /\ allocated' = Append(allocated, k)
         /\ resource_provider_logins' = [resource_provider_logins EXCEPT
              ![k] = [id |-> Len(allocated'), enabled |-> TRUE, last_login |-> last_login]]

(* Usernames are added or renamed, never removed. *)
db_add_or_update_username(id, resources) ==
  usernames' = [i \in 1 .. Len(allocated') |->
    (IF i \in DOMAIN usernames THEN usernames[i] ELSE {})
    \cup (IF i = id THEN resources ELSE {})]

(* Mutant: the link is committed before the provider is asked. *)
Bug_UpsertLogin(h) ==
  /\ handler[h].pc = "login"
  /\ Free(h, KeyOf(h))
  /\ handler' = [handler EXCEPT ![h].pc = "fetch"]
  /\ db_add_or_update_resource_account_login(KeyOf(h), handler[h].last_login)
  /\ db_add_or_update_username(0, {})
  /\ UNCHANGED <<now, jar, flow, spent>>

(* Mutant: the upsert does not wait for the transaction that has the row.  *)
Bug_UpsertOverwrites(h) ==
  /\ handler[h].pc = "login"
  /\ handler' = [handler EXCEPT
       ![h].locked = {KeyOf(h)},
       ![h].pc = IF RpOf[handler[h].flow] \in WithResources THEN "fetch" ELSE "upsert"]
  /\ UNCHANGED <<now, jar, flow, spent, resource_provider_logins, allocated, usernames>>

(***************************************************************************)
(* The upsert of the link waits for any transaction that wrote the same    *)
(* key.  What it writes becomes visible at the commit; the lock keeps the  *)
(* row as it found it until then.                                          *)
(***************************************************************************)
UpsertLogin(h) ==
  /\ handler[h].pc = "login"
  /\ Free(h, KeyOf(h))
  /\ handler' = [handler EXCEPT
       ![h].locked = {KeyOf(h)},
       ![h].pc = IF RpOf[handler[h].flow] \in WithResources THEN "fetch" ELSE "upsert"]
  /\ UNCHANGED <<now, jar, flow, spent, resource_provider_logins, allocated, usernames>>

(* Mutant: a failed request is tried again, for ever. *)
Bug_get_resources(h) ==
  /\ handler[h].pc = "fetch"
  /\ \/ \E list \in ResourceLists :
          handler' = [handler EXCEPT
            ![h].pc = "upsert", ![h].todo = list,
            ![h].fetched = {list[i] : i \in 1 .. Len(list)}]
     \/ handler' = [handler EXCEPT ![h].pc = "login"]
  /\ UNCHANGED <<now, jar, flow, spent, resource_provider_logins, allocated, usernames>>

(* The HTTP request, with the transaction open and the row locked. *)
get_resources(h) ==
  /\ handler[h].pc = "fetch"
  /\ \/ \E list \in ResourceLists :
          handler' = [handler EXCEPT
            ![h].pc = "upsert", ![h].todo = list,
            ![h].fetched = {list[i] : i \in 1 .. Len(list)}]
     \/ End(h)
  /\ UNCHANGED <<now, jar, flow, spent, resource_provider_logins, allocated, usernames>>

(* One resource and its username, in the order of the provider's list. *)
db_add_or_update_resource(h) ==
  /\ handler[h].pc = "upsert"
  /\ handler[h].todo # <<>>
  /\ Free(h, Head(handler[h].todo))
  /\ handler' = [handler EXCEPT ![h].locked = @ \cup {Head(handler[h].todo)},
                                ![h].todo = Tail(@)]
  /\ UNCHANGED <<now, jar, flow, spent, resource_provider_logins, allocated, usernames>>

CommitLink(h) ==
  /\ handler[h].pc = "upsert"
  /\ handler[h].todo = <<>>
  /\ db_add_or_update_resource_account_login(KeyOf(h), handler[h].last_login)
  /\ db_add_or_update_username(resource_provider_logins'[KeyOf(h)].id, handler[h].fetched)
  /\ jar' = [jar EXCEPT ![RpOf[handler[h].flow]] = NoFlow]
  /\ End(h)
  /\ UNCHANGED <<now, flow, spent>>

(* A database error or a closed connection rolls the transaction back. *)
Abort(h) ==
  /\ handler[h].pc # "idle"
  /\ End(h)
  /\ UNCHANGED <<now, jar, flow, spent, resource_provider_logins, allocated, usernames>>

(* PostgreSQL aborts a transaction that waits in a cycle (external). *)
WaitsFor(h, g) ==
  \/ handler[h].pc = "login" /\ KeyOf(h) \in handler[g].locked
  \/ /\ handler[h].pc = "upsert"
     /\ handler[h].todo # <<>>
     /\ Head(handler[h].todo) \in handler[g].locked
Deadlocked(h) ==
  \E cycle \in SUBSET Handler :
    h \in cycle /\ \A g \in cycle : \E g2 \in cycle \ {g} : WaitsFor(g, g2)
DeadlockDetected(h) == Deadlocked(h) /\ Abort(h)

-------------------------------------------------------------------------------
(***************************************************************************)
(* DELETE /resources/providers/links/{id}: a user deletes by an id seen in *)
(* some earlier listing.  The delete waits for a transaction on the row.   *)
(***************************************************************************)
db_delete_resource_provider_link(u, id) ==
  \E k \in Key :
    /\ Present(k)
    /\ k[1] = u
    /\ resource_provider_logins[k].id = id
    /\ \A h \in Handler : k \notin handler[h].locked
    /\ resource_provider_logins' = [resource_provider_logins EXCEPT ![k] = NoRow]

unlink_resource_provider(u, id) ==
  /\ db_delete_resource_provider_link(u, id)
  /\ UNCHANGED <<now, jar, flow, spent, handler, allocated, usernames>>

(* An operator clears the enabled flag (external). *)
Disable(k) ==
  /\ Present(k)
  /\ resource_provider_logins[k].enabled
  /\ \A h \in Handler : k \notin handler[h].locked
  /\ resource_provider_logins' = [resource_provider_logins EXCEPT ![k].enabled = FALSE]
  /\ UNCHANGED <<now, jar, flow, spent, handler, allocated, usernames>>

Tick ==
  /\ now < MaxTime
  /\ now' = now + 1
  /\ UNCHANGED <<jar, flow, spent, handler, resource_provider_logins, allocated, usernames>>

(* The process stops and starts again: open transactions roll back. *)
Restart ==
  /\ \E h \in Handler : handler[h].pc # "idle"
  /\ handler' = [h \in Handler |-> Idle]
  /\ UNCHANGED <<now, jar, flow, spent, resource_provider_logins, allocated, usernames>>

HandlerStep(h) ==
  \/ get_token_for_provider(h)
  \/ UpsertLogin(h)
  \/ get_resources(h)
  \/ db_add_or_update_resource(h)
  \/ CommitLink(h)

Next ==
  \/ \E f \in Flow : authorize_handler(f)
  \/ \E h \in Handler : \/ \E f \in Flow : Callback(h, f)
                        \/ HandlerStep(h)
                        \/ Abort(h)
                        \/ DeadlockDetected(h)
  \/ \E u \in Identity, id \in 1 .. Len(allocated) : unlink_resource_provider(u, id)
  \/ \E k \in Key : Disable(k)
  \/ Tick
  \/ Restart

Spec == Init /\ [][Next]_vars

(***************************************************************************)
(* A callback goes on when it can: the providers answer or drop the        *)
(* connection (the client sets no timeout), and the database detects       *)
(* deadlocks.                                                              *)
(***************************************************************************)
FairSpec == /\ Spec
            /\ \A h \in Handler : WF_vars(HandlerStep(h)) /\ WF_vars(DeadlockDetected(h))

-------------------------------------------------------------------------------
(***************************************************************************)
(* A link says that this identity started a sign-in at the provider which  *)
(* ended with this account, however tabs, callbacks and state cookies were *)
(* interleaved.                                                            *)
(***************************************************************************)
LinkWasEarned ==
  \A k \in Key : Present(k) =>
    \E f \in Flow : spent[f] /\ <<IdentityOf[f], RpOf[f], AccountOf[f]>> = k

(***************************************************************************)
(* A link that is visible has the usernames of a complete answer of its    *)
(* provider: a failure while the resources are fetched or stored leaves no *)
(* half-made link behind.                                                  *)
(***************************************************************************)
LinkIsComplete ==
  \A k \in Key : Present(k) /\ k[2] \in WithResources =>
    \E list \in ResourceLists :
      {list[i] : i \in 1 .. Len(list)} \subseteq usernames[resource_provider_logins[k].id]

(***************************************************************************)
(* A new sign-in for an existing link keeps its id, so that the ids in a   *)
(* page the user has open still name what they named, whatever callbacks   *)
(* and deletions happened in between.                                      *)
(***************************************************************************)
RefreshKeepsId ==
  [][\A k \in Key : Present(k) /\ Present(k)' =>
       resource_provider_logins'[k].id = resource_provider_logins[k].id]_vars

(***************************************************************************)
(* What a callback commits is based on the row it found, though it kept    *)
(* the transaction open while its provider answered: from its upsert on,   *)
(* nobody deletes, disables or refreshes the link but the callback itself, *)
(* by the commit that ends it.                                             *)
(***************************************************************************)
LockedRowsStay ==
  [][\A h \in Handler : \A k \in Key \cap handler[h].locked :
       resource_provider_logins'[k] # resource_provider_logins[k]
         => k = KeyOf(h) /\ handler'[h].pc = "idle"]_vars

(***************************************************************************)
(* Every callback ends, also when callbacks update the same resources in   *)
(* opposite orders or wait for each other's links.                         *)
(***************************************************************************)
EveryCallbackEnds ==
  \A h \in Handler : handler[h].pc # "idle" ~> handler[h].pc = "idle"

(***************************************************************************)
(* Readers of the table see the abstract link table, although the rows are *)
(* written under locks by transactions that may fail half-way.             *)
(***************************************************************************)
linksBar ==
  [k \in Key |->
    [present |-> Present(k), enabled |-> resource_provider_logins[k].enabled,
     last_login |-> resource_provider_logins[k].last_login]]
Table == INSTANCE LinkTable WITH links <- linksBar
TableSpec == Table!LinkSpec
===============================================================================
