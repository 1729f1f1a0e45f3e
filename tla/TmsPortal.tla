------------------------------- MODULE TmsPortal -------------------------------
(***************************************************************************)
(* The portal as a whole.  Every handler of delegations and links takes    *)
(* the identity and the client of its caller from a token, which the       *)
(* extractor judges first (SessionLifecycle); links are made by a sign-in  *)
(* that a request with a token starts and a callback without one finishes; *)
(* links, delegations and tokens change while all of this is under way.    *)
(* A callback keeps the row of its link locked while it asks the provider  *)
(* for resources, and an unlink or another callback waits for that row.    *)
(*                                                                         *)
(* The parts are the abstract life cycle, which IssuedTokens implements,   *)
(* the delegations, and the link table, which ResourceLinks implements.    *)
(***************************************************************************)
EXTENDS Delegations

CONSTANTS
  Token, NoToken,
  ContextOf,      \* ContextOf[t]: the identity and client in t's claims
  Flow,           \* sign-ins at resource providers, each with a fresh state
  NoIdentity,
  StateTtl        \* how long a callback is accepted, leeway included

VARIABLES
  status, phase,  \* see SessionLifecycle
  flow,           \* flow[f]: a sign-in at a resource provider
  unlinking,      \* unlinking[r]: the delete statement of r, if it has begun
  seen_live,      \* history: was the token of r live at some moment of r
  authorised      \* history: was it for the request that started flow f

Session == INSTANCE SessionLifecycle WITH Req <- Request

ASSUME PortalAssumption ==
  /\ ContextOf \in [Token -> SecurityContext]
  /\ NoIdentity \notin Identity
  /\ NoToken \notin Token
  /\ StateTtl \in Nat

portalVars == <<status, phase, now, links, expiration, delegations, request, usable, flow,
                unlinking, seen_live, authorised>>

(***************************************************************************)
(* identity comes from the token of the request that starts the flow.  The *)
(* callback exchanges the provider's code, verifies the token it got, with *)
(* the provider's keys, and knows the account then; last_login is the time *)
(* of that.  It writes the row of its link, which stays locked while it    *)
(* asks the provider for resources, and commits.                           *)
(***************************************************************************)
FlowRecord == [step : {"new", "at_provider", "exchanged", "verified", "locked", "done"},
               identity : Identity \cup {NoIdentity}, exp : Nat, last_login : Nat,
               key : Key \cup {NoKey}]
NewFlow == [step |-> "new", identity |-> NoIdentity, exp |-> 0, last_login |-> 0, key |-> NoKey]

(* What a delete waits for: the row it has found, NoKey when that is gone. *)
UnlinkRecord == [waits : BOOLEAN, key : Key \cup {NoKey}]
NotUnlinking == [waits |-> FALSE, key |-> NoKey]

Caller(r) == ContextOf[phase[r].token].tms_identity
Admitted(r) == phase[r].step = "admitted"

PortalTypeOK ==
  /\ TypeOK
  /\ status \in [Token -> {"unborn", "live", "dead"}]
  /\ phase \in [Request -> [step : {"free", "presented", "judged", "admitted"},
                            token : Token \cup {NoToken}]]
  /\ \A r \in Request :
       /\ phase[r].step # "free" => phase[r].token \in Token
       /\ request[r].pc # "idle" => /\ Admitted(r)
                                    /\ request[r].context = ContextOf[phase[r].token]
  /\ flow \in [Flow -> FlowRecord]
  /\ \A f \in Flow :
       /\ flow[f].step \in {"verified", "locked"} =>
            flow[f].key \in Key /\ flow[f].key[1] = flow[f].identity
       /\ \A g \in Flow : /\ flow[f].step = "locked" /\ flow[g].step = "locked"
                         /\ flow[f].key = flow[g].key => f = g
  /\ unlinking \in [Request -> UnlinkRecord]
  /\ \A r \in Request :
       /\ unlinking[r].waits => Admitted(r) /\ request[r].pc = "idle"
       /\ unlinking[r].key # NoKey =>
            /\ unlinking[r].waits /\ links[unlinking[r].key].present
            /\ unlinking[r].key[1] = Caller(r)
  /\ seen_live \in [Request -> BOOLEAN]
  /\ authorised \in [Flow -> BOOLEAN]

PortalInit ==
  /\ Session!Init
  /\ Init
  /\ flow = [f \in Flow |-> NewFlow]
  /\ unlinking = [r \in Request |-> NotUnlinking]
  /\ seen_live = [r \in Request |-> FALSE]
  /\ authorised = [f \in Flow |-> FALSE]

-------------------------------------------------------------------------------
DelegationsStay == UNCHANGED <<now, links, expiration, delegations, request, usable>>
SessionsStay == UNCHANGED <<status, phase>>
LinkingStays == UNCHANGED <<flow, unlinking>>

(* History: every step notes whose tokens are live after it. *)
Watch ==
  seen_live' = [r \in Request |->
    \E t \in Token : phase'[r].token = t /\ (seen_live[r] \/ status'[t] = "live")]
Witnessed == Watch /\ UNCHANGED authorised

(* Tokens are minted, expire and are logged out elsewhere. *)
Age == Session!Age /\ DelegationsStay /\ LinkingStays /\ Witnessed

(* The extractor. *)
Present(r, t) ==
  /\ Session!Present(r, t)
  /\ DelegationsStay
  /\ LinkingStays
  /\ Witnessed

Judge(r) == Session!Judge(r) /\ DelegationsStay /\ LinkingStays /\ Witnessed
Admit(r) == Session!Admit(r) /\ DelegationsStay /\ LinkingStays /\ Witnessed

(* The handlers of a request that was admitted and has not begun its work. *)
Begin(r) == Admitted(r) /\ request[r].pc = "idle" /\ ~unlinking[r].waits
Context(r) == ContextOf[phase[r].token]

(* Mutant: the handler runs for whoever the request names. *)
Bug_AddDelegation(r, name, k) ==
  /\ Begin(r)
  /\ add_delegation(r, [Context(r) EXCEPT !.tms_identity = k[1]], name, k)
  /\ SessionsStay /\ LinkingStays /\ Witnessed

AddDelegation(r, name, k) ==
  /\ Begin(r)
  /\ add_delegation(r, Context(r), name, k)
  /\ SessionsStay /\ LinkingStays /\ Witnessed

ListDelegations(r, name) ==
  /\ Begin(r)
  /\ get_delegations(r, Context(r), name)
  /\ SessionsStay /\ LinkingStays /\ Witnessed

DeleteDelegation(r, name, id) ==
  /\ Begin(r)
  /\ delete_delegation(r, Context(r), name, id)
  /\ SessionsStay /\ LinkingStays /\ Witnessed

(* The two later steps of add_delegation; neither looks at the token again. *)
GoOn(r) ==
  /\ ensure_recent_rp_login(r) \/ CommitDelegation(r)
  /\ SessionsStay /\ LinkingStays /\ Witnessed

(* The request leaves its slot. *)
Leave(r) == /\ phase[r] # Session!Free
            /\ phase' = [phase EXCEPT ![r] = Session!Free]

(* Mutant: the request is dropped while its statements go on. *)
Bug_Finish(r) ==
  /\ Leave(r)
  /\ UNCHANGED status /\ LinkingStays
  /\ DelegationsStay
  /\ Witnessed

(* The request is answered: what it did is done, or rolled back. *)
Finish(r) ==
  /\ Leave(r)
  /\ ~unlinking[r].waits
  /\ UNCHANGED status /\ LinkingStays
  /\ IF request[r].pc = "idle" THEN DelegationsStay ELSE Done(r)
  /\ Witnessed

logout(r) ==
  /\ Begin(r)
  /\ Leave(r)
  /\ status' = [status EXCEPT ![phase[r].token] = "dead"]
  /\ DelegationsStay
  /\ LinkingStays
  /\ Witnessed

-------------------------------------------------------------------------------
(***************************************************************************)
(* Unlinking.  A row is locked by the callback that has written it.        *)
(***************************************************************************)
Locks(f, k) == flow[f].step = "locked" /\ flow[f].key = k
Unlocked(k) == \A f \in Flow : ~Locks(f, k)

(* The delete finds the caller's row by its id. *)
unlink_resource_provider(r, k) ==
  /\ Begin(r)
  /\ k[1] = Caller(r)
  /\ links[k].present
  /\ unlinking' = [unlinking EXCEPT ![r] = [waits |-> TRUE, key |-> k]]
  /\ UNCHANGED flow
  /\ SessionsStay /\ DelegationsStay /\ Witnessed

(* Other deletes that wait for the row will find nothing. *)
UnlinksOf(r, k) ==
  [q \in Request |-> IF q = r THEN NotUnlinking
                     ELSE IF unlinking[q].key = k THEN [unlinking[q] EXCEPT !.key = NoKey]
                     ELSE unlinking[q]]

(* Once nobody locks the row it is deleted, unless another request was     *)
(* first: then the answer is an error.                                     *)
DeleteLink(r) ==
  /\ unlinking[r].waits
  /\ LET k == unlinking[r].key
     IN  /\ Unlocked(k)
         /\ IF k = NoKey THEN DelegationsStay ELSE Unlink(k)
         /\ unlinking' = UnlinksOf(r, k)
  /\ Leave(r)
  /\ UNCHANGED <<status, flow>>
  /\ Witnessed

(* The client gives up, or the database, while the delete still waits. *)
AbandonUnlink(r) ==
  /\ unlinking[r].waits
  /\ unlinking' = [unlinking EXCEPT ![r] = NotUnlinking]
  /\ Leave(r)
  /\ UNCHANGED <<status, flow>>
  /\ DelegationsStay
  /\ Witnessed

-------------------------------------------------------------------------------
(***************************************************************************)
(* Linking.  A token of any client will do to start it.  Horizon: no       *)
(* sign-in starts so late that the clock cannot pass its expiry.           *)
(***************************************************************************)
authorize_handler(r, f) ==
  /\ Begin(r)
  /\ flow[f].step = "new"
  /\ now + StateTtl < MaxTime
  /\ flow' = [flow EXCEPT ![f] = [step |-> "at_provider", identity |-> Caller(r),
                                  exp |-> now + StateTtl, last_login |-> 0, key |-> NoKey]]
  /\ authorised' = [authorised EXCEPT ![f] = seen_live[r]]
  /\ Leave(r)
  /\ UNCHANGED <<status, unlinking>>
  /\ DelegationsStay
  /\ Watch

(* The callback goes on to the next step of its handler. *)
Step(f, record) ==
  /\ flow' = [flow EXCEPT ![f] = record]
  /\ UNCHANGED unlinking
  /\ SessionsStay /\ Witnessed

(* Mutant: the callback does not look at the age of the state. *)
Bug_StateAccepted(f) == TRUE

StateAccepted(f) == now <= flow[f].exp

(* The callback carries a state and no token; its code works once. *)
Callback(f) ==
  /\ flow[f].step = "at_provider"
  /\ StateAccepted(f)
  /\ Step(f, [flow[f] EXCEPT !.step = "exchanged"])
  /\ DelegationsStay

(* The provider's keys have come; the token names the account. *)
Verify(f, k) ==
  /\ flow[f].step = "exchanged"
  /\ k[1] = flow[f].identity
  /\ Step(f, [flow[f] EXCEPT !.step = "verified", !.key = k, !.last_login = now])
  /\ DelegationsStay

(* The upsert: it waits for whoever has locked the row. *)
TakeRow(f) ==
  /\ flow[f].step = "verified"
  /\ Unlocked(flow[f].key)
  /\ Step(f, [flow[f] EXCEPT !.step = "locked"])
  /\ DelegationsStay

(* The resources have come and are stored; others see the link now. *)
StoreLink(f) ==
  /\ flow[f].step = "locked"
  /\ RecordLogin(flow[f].key, flow[f].last_login)
  /\ Step(f, [flow[f] EXCEPT !.step = "done"])

(* An error, or the browser is gone: nothing is stored. *)
LinkFails(f) ==
  /\ flow[f].step \in {"exchanged", "verified", "locked"}
  /\ Step(f, [flow[f] EXCEPT !.step = "done"])
  /\ DelegationsStay

-------------------------------------------------------------------------------
(* The operator's update waits for the row like everybody's. *)
OperatorDisables(k) == Unlocked(k) /\ DisableLink(k) /\ SessionsStay /\ LinkingStays /\ Witnessed
PortalTick == Tick /\ SessionsStay /\ LinkingStays /\ Witnessed

(* The process stops and starts again; states at providers stay valid. *)
PortalRestart ==
  /\ Session!Abandon
  /\ Restart
  /\ flow' = [f \in Flow |-> IF flow[f].step \in {"exchanged", "verified", "locked"}
                               THEN [flow[f] EXCEPT !.step = "done"] ELSE flow[f]]
  /\ unlinking' = [r \in Request |-> NotUnlinking]
  /\ Witnessed

(* A handler goes on with what it has begun, or answers. *)
Proceed(r) == GoOn(r) \/ DeleteLink(r) \/ Finish(r)

Handle(r) ==
  \/ \E name \in Name, k \in Key : AddDelegation(r, name, k)
  \/ \E name \in Name \cup {NoName} : ListDelegations(r, name)
  \/ \E name \in Name, id \in 1 .. Len(delegations) : DeleteDelegation(r, name, id)
  \/ \E k \in Key : unlink_resource_provider(r, k)
  \/ \E f \in Flow : authorize_handler(r, f)
  \/ logout(r)
  \/ Proceed(r)

(* What a callback does once its provider has answered, with an error too. *)
AsksProvider(f) == flow[f].step \in {"exchanged", "locked"}
HearProvider(f) ==
  AsksProvider(f) /\ ((\E k \in Key : Verify(f, k)) \/ StoreLink(f) \/ LinkFails(f))

SignIn(f) == HearProvider(f) \/ TakeRow(f) \/ LinkFails(f)

PortalNext ==
  \/ \E r \in Request : \/ \E t \in Token : Present(r, t)
                        \/ Judge(r)
                        \/ Admit(r)
                        \/ Handle(r)
                        \/ AbandonUnlink(r)
  \/ \E f \in Flow : Callback(f) \/ SignIn(f)
  \/ \E k \in Key : OperatorDisables(k)
  \/ Age
  \/ PortalTick
  \/ PortalRestart

PortalSpec == PortalInit /\ [][PortalNext]_portalVars

(***************************************************************************)
(* Time passes; the runtime goes on with every request and every callback  *)
(* that can go on.  PostgreSQL queues those that wait for a row, so none   *)
(* is passed over for ever: strong fairness.  Nobody has to present a      *)
(* token, to sign in at a provider or to come back from there; no provider *)
(* has to answer, and nobody has to give up waiting.                       *)
(***************************************************************************)
ClockRuns == WF_portalVars(PortalTick)
IsHandled(r) == SF_portalVars(Proceed(r))
GetsItsRow(f) == SF_portalVars(TakeRow(f))
PortalFairSpec ==
  /\ PortalSpec
  /\ ClockRuns
  /\ \A r \in Request : IsHandled(r)
  /\ \A f \in Flow : GetsItsRow(f)

(* The premise: the HTTP client has no timeout, so providers must answer.  *)
IsAnswered(f) == WF_portalVars(HearProvider(f))
ProvidersAnswer == \A f \in Flow : IsAnswered(f)

-------------------------------------------------------------------------------
(* A request of u was admitted, on a token that was live while it ran. *)
ActsFor(u) == \E r \in Request : Admitted(r) /\ Caller(r) = u /\ seen_live[r]

(* A sign-in of u that has written its row, which such a request started.  *)
SignsInFor(u) ==
  \E f \in Flow : flow[f].step = "locked" /\ flow[f].identity = u /\ authorised[f]

(* A row of a user appears or disappears. *)
RowsAuthorised ==
  \A id \in 1 .. Len(delegations') :
    LET old == IF id <= Len(delegations) THEN delegations[id] ELSE Deleted
        owned == IF old = Deleted THEN delegations'[id] ELSE old
    IN  delegations'[id] # old => ActsFor(IdentityOfKey(owned.key))

(* A link of a user is removed, made or refreshed. *)
LinksAuthorised ==
  \A k \in Key :
    LET removed == links[k].present /\ ~links'[k].present
        made == ~links[k].present /\ links'[k].present
        refreshed == links'[k].present /\ links'[k].last_login # links[k].last_login
    IN  /\ removed => ActsFor(IdentityOfKey(k))
        /\ made \/ refreshed => SignsInFor(IdentityOfKey(k))

(***************************************************************************)
(* Nothing of a user changes without a token of theirs that was accepted   *)
(* while it lived: a delegation appears or disappears, and a link is       *)
(* removed, only by an admitted request of its owner; a link is made or    *)
(* refreshed only by a sign-in such a request started.  Only the operator  *)
(* disables links.  Logouts, expiry and restarts may come at any point.    *)
(***************************************************************************)
EffectsAreAuthorised == [][RowsAuthorised /\ LinksAuthorised]_portalVars

(* A callback of f is at work, or would be accepted. *)
AtWork(f) == flow[f].step \in {"exchanged", "verified", "locked"}
Acceptable(f) == AtWork(f) \/ (flow[f].step = "at_provider" /\ StateAccepted(f))

(* Nothing of u is under way, and no callback of u would be accepted. *)
Quiet(u) ==
  /\ \A r \in Request : phase[r].step \in {"judged", "admitted"} => Caller(r) # u
  /\ \A f \in Flow : flow[f].identity = u => ~Acceptable(f)

(***************************************************************************)
(* If providers answer, a user whose tokens are dead for good, by logout   *)
(* or by age, comes to rest: their last requests end, also those that wait *)
(* for a row behind a callback, and the states of sign-ins they left at a  *)
(* provider, which logout does not touch, run out.                         *)
(***************************************************************************)
LogoutTakesHold ==
  ProvidersAnswer =>
    \A u \in Identity :
      <>[](\A t \in Token : ContextOf[t].tms_identity = u => status[t] # "live")
        => <>[]Quiet(u)
===============================================================================
