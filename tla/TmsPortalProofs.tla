---------------------------- MODULE TmsPortalProofs ----------------------------
(***************************************************************************)
(* Proofs about TmsPortal, for any tokens, requests, sign-ins and clients. *)
(*                                                                         *)
(* The steps of the portal are built from those of its parts, so the       *)
(* invariant of DelegationsProofs is one of the portal.  What is added: an *)
(* accepted request has been seen with a live token, and a sign-in that    *)
(* has begun was begun by such a request for its own caller.               *)
(***************************************************************************)
EXTENDS TmsPortal, DelegationsProofs

Trusted(r) == phase[r].step \in {"judged", "admitted"} => seen_live[r]
Pending(f) == flow[f].step # "new" => authorised[f]

PortalInv == /\ IndInv
             /\ PortalTypeOK
             /\ \A r \in Request : Trusted(r)
             /\ \A f \in Flow : Pending(f)

-------------------------------------------------------------------------------
(***************************************************************************)
(* The parts.                                                              *)
(***************************************************************************)
(* The security context of an accepted request is one. *)
LEMMA ContextTyped ==
  ASSUME PortalTypeOK, NEW r \in Request, Admitted(r)
  PROVE  /\ phase[r].token \in Token
         /\ Context(r) \in SecurityContext
         /\ Caller(r) = Context(r).tms_identity
         /\ Caller(r) \in Identity
<1>1. phase[r].token \in Token
  BY DEF PortalTypeOK, Admitted
<1>2. Context(r) \in SecurityContext
  BY <1>1, PortalAssumption DEF Context
<1> QED
  BY <1>1, <1>2 DEF Caller, Context, SecurityContext

(* What a step does to the tokens is a step of their life cycle. *)
LEMMA SessionStep ==
  ASSUME PortalTypeOK, [PortalNext]_portalVars
  PROVE  [Session!Next]_(Session!absVars)
<1> USE DEF Session!Next, Session!absVars
<1>1. ASSUME NEW r \in Request, Leave(r), UNCHANGED status PROVE Session!Next
  BY <1>1 DEF Leave, Session!Finish
<1>2. ASSUME NEW r \in Request, logout(r) PROVE Session!Next
  BY <1>2 DEF logout, Leave, Begin, Admitted, Session!Finish
<1>3. ASSUME NEW r \in Request, Handle(r) PROVE [Session!Next]_(Session!absVars)
  BY <1>1, <1>2, <1>3
  DEF Handle, Proceed, AddDelegation, ListDelegations, DeleteDelegation, GoOn, Finish, DeleteLink,
      unlink_resource_provider, authorize_handler, SessionsStay
<1>4. ASSUME NEW r \in Request, NEW t \in Token, Present(r, t) PROVE Session!Next
  BY <1>4 DEF Present
<1>5. ASSUME NEW r \in Request, Judge(r) \/ Admit(r) PROVE Session!Next
  BY <1>5 DEF Judge, Admit
<1>6. ASSUME Age \/ PortalRestart PROVE Session!Next
  BY <1>6 DEF Age, PortalRestart
<1>7. ASSUME NEW f \in Flow, Callback(f) \/ SignIn(f) PROVE UNCHANGED Session!absVars
  BY <1>7 DEF Callback, SignIn, HearProvider, Verify, TakeRow, StoreLink, LinkFails, Step, SessionsStay
<1>8. ASSUME PortalTick \/ \E k \in Key : OperatorDisables(k) PROVE UNCHANGED Session!absVars
  BY <1>8 DEF PortalTick, OperatorDisables, SessionsStay
<1>9. ASSUME NEW r \in Request, AbandonUnlink(r) PROVE Session!Next
  BY <1>1, <1>9 DEF AbandonUnlink
<1>10. CASE UNCHANGED portalVars
  BY <1>10 DEF portalVars
<1> QED
  BY <1>3, <1>4, <1>5, <1>6, <1>7, <1>8, <1>9, <1>10 DEF PortalNext

(* What a request does to delegations and links is a step of theirs. *)
LEMMA HandleDelegates ==
  ASSUME PortalTypeOK, NEW r \in Request, Handle(r)
  PROVE  [Next]_vars
<1>1. ASSUME RequestStep(r) PROVE Next
  BY <1>1 DEF Next
<1>2. ASSUME NEW name \in Name, NEW k \in Key, AddDelegation(r, name, k) PROVE RequestStep(r)
  BY <1>2, ContextTyped DEF AddDelegation, Begin, RequestStep
<1>3. ASSUME NEW name \in Name \cup {NoName}, ListDelegations(r, name) PROVE RequestStep(r)
  BY <1>3, ContextTyped DEF ListDelegations, Begin, RequestStep
<1>4. ASSUME NEW name \in Name, NEW id \in 1 .. Len(delegations), DeleteDelegation(r, name, id)
      PROVE  RequestStep(r)
  BY <1>4, ContextTyped DEF DeleteDelegation, Begin, RequestStep
<1>5. CASE GoOn(r)
  BY <1>1, <1>5 DEF GoOn, RequestStep
<1>6. CASE Finish(r)
  BY <1>1, <1>6 DEF Finish, DelegationsStay, vars, RequestStep
<1>7. ASSUME NEW k \in Key, unlink_resource_provider(r, k) PROVE UNCHANGED vars
  BY <1>7 DEF unlink_resource_provider, DelegationsStay, vars
<1>8. ASSUME NEW f \in Flow, authorize_handler(r, f) PROVE UNCHANGED vars
  BY <1>8 DEF authorize_handler, DelegationsStay, vars
<1>9. CASE logout(r)
  BY <1>9 DEF logout, DelegationsStay, vars
<1>10. CASE DeleteLink(r)
  <2>1. unlinking[r].key \in Key \cup {NoKey}
    BY DEF PortalTypeOK, UnlinkRecord
  <2>2. CASE unlinking[r].key = NoKey
    BY <1>10, <2>2 DEF DeleteLink, DelegationsStay, vars
  <2>3. CASE unlinking[r].key # NoKey
    <3>1. Unlink(unlinking[r].key)
      BY <1>10, <2>3 DEF DeleteLink
    <3> QED
      BY <2>1, <2>3, <3>1 DEF Next
  <2> QED
    BY <2>2, <2>3
<1> QED
  BY <1>1, <1>2, <1>3, <1>4, <1>5, <1>6, <1>7, <1>8, <1>9, <1>10 DEF Handle, Proceed

LEMMA DelegationsStep ==
  ASSUME PortalTypeOK, [PortalNext]_portalVars
  PROVE  [Next]_vars
<1>1. ASSUME NEW f \in Flow, StoreLink(f) PROVE Next
  <2>1. flow[f].key \in Key
    BY <1>1 DEF StoreLink, PortalTypeOK
  <2> QED
    BY <1>1, <2>1 DEF StoreLink, RecordLogin, Record, Next
<1>2. ASSUME NEW f \in Flow, Callback(f) \/ (\E k \in Key : Verify(f, k)) \/ TakeRow(f) \/ LinkFails(f)
      PROVE  UNCHANGED vars
  BY <1>2 DEF Callback, Verify, TakeRow, LinkFails, DelegationsStay, vars
<1>3. ASSUME NEW r \in Request,
             (\E t \in Token : Present(r, t)) \/ Judge(r) \/ Admit(r) \/ AbandonUnlink(r)
      PROVE  UNCHANGED vars
  BY <1>3 DEF Present, Judge, Admit, AbandonUnlink, DelegationsStay, vars
<1>4. CASE Age
  BY <1>4 DEF Age, DelegationsStay, vars
<1>5. CASE PortalRestart \/ PortalTick \/ \E k \in Key : OperatorDisables(k)
  BY <1>5 DEF PortalRestart, PortalTick, OperatorDisables, Next
<1>6. CASE UNCHANGED portalVars
  BY <1>6 DEF portalVars, vars
<1> QED
  BY <1>1, <1>2, <1>3, <1>4, <1>5, <1>6, HandleDelegates DEF PortalNext, SignIn, HearProvider

(***************************************************************************)
(* Which steps touch the sign-ins, the waiting deletes, and the links.     *)
(***************************************************************************)
LEMMA FlowMoves ==
  ASSUME [PortalNext]_portalVars
  PROVE  \/ UNCHANGED <<flow, authorised>>
         \/ PortalRestart
         \/ \E r \in Request, f \in Flow : authorize_handler(r, f)
         \/ \E f \in Flow : Callback(f) \/ SignIn(f)
<1>1. ASSUME NEW r \in Request, Handle(r), ~\E f \in Flow : authorize_handler(r, f)
      PROVE  UNCHANGED <<flow, authorised>>
  BY <1>1 DEF Handle, Proceed, AddDelegation, ListDelegations, DeleteDelegation, DeleteLink, GoOn,
              Finish, unlink_resource_provider, logout, LinkingStays, Witnessed
<1>2. ASSUME NEW r \in Request,
             (\E t \in Token : Present(r, t)) \/ Judge(r) \/ Admit(r) \/ AbandonUnlink(r)
      PROVE  UNCHANGED <<flow, authorised>>
  BY <1>2 DEF Present, Judge, Admit, AbandonUnlink, LinkingStays, Witnessed
<1>3. CASE Age \/ PortalTick \/ \E k \in Key : OperatorDisables(k)
  BY <1>3 DEF Age, PortalTick, OperatorDisables, LinkingStays, Witnessed
<1> QED
  BY <1>1, <1>2, <1>3 DEF PortalNext, portalVars

UnlinkMove(r) ==
  (\E k \in Key : unlink_resource_provider(r, k)) \/ DeleteLink(r) \/ AbandonUnlink(r)

LEMMA UnlinkMoves ==
  ASSUME [PortalNext]_portalVars
  PROVE  \/ UNCHANGED unlinking
         \/ PortalRestart
         \/ \E r \in Request : UnlinkMove(r)
<1>1. ASSUME NEW r \in Request, Handle(r), ~UnlinkMove(r) PROVE UNCHANGED unlinking
  BY <1>1 DEF Handle, Proceed, AddDelegation, ListDelegations, DeleteDelegation, GoOn, Finish,
              authorize_handler, logout, LinkingStays, UnlinkMove
<1>2. ASSUME NEW r \in Request, (\E t \in Token : Present(r, t)) \/ Judge(r) \/ Admit(r)
      PROVE  UNCHANGED unlinking
  BY <1>2 DEF Present, Judge, Admit, LinkingStays
<1>3. ASSUME NEW f \in Flow, Callback(f) \/ SignIn(f) PROVE UNCHANGED unlinking
  BY <1>3 DEF Callback, SignIn, HearProvider, Verify, TakeRow, StoreLink, LinkFails, Step
<1>4. CASE Age \/ PortalTick \/ \E k \in Key : OperatorDisables(k)
  BY <1>4 DEF Age, PortalTick, OperatorDisables, LinkingStays
<1> QED
  BY <1>1, <1>2, <1>3, <1>4 DEF PortalNext, portalVars, UnlinkMove

LEMMA LinkMoves ==
  ASSUME [PortalNext]_portalVars
  PROVE  \/ UNCHANGED links
         \/ \E r \in Request : DeleteLink(r)
         \/ \E f \in Flow : StoreLink(f)
         \/ \E k \in Key : OperatorDisables(k)
<1>1. ASSUME NEW r \in Request, Handle(r), ~DeleteLink(r) PROVE UNCHANGED links
  BY <1>1 DEF Handle, Proceed, AddDelegation, add_delegation, ListDelegations, get_delegations,
              DeleteDelegation, delete_delegation, unlink_resource_provider, authorize_handler,
              logout, GoOn, ensure_recent_rp_login, CommitDelegation, Finish, Done, DelegationsStay
<1>2. ASSUME NEW r \in Request,
             (\E t \in Token : Present(r, t)) \/ Judge(r) \/ Admit(r) \/ AbandonUnlink(r)
      PROVE  UNCHANGED links
  BY <1>2 DEF Present, Judge, Admit, AbandonUnlink, DelegationsStay
<1>3. ASSUME NEW f \in Flow, Callback(f) \/ SignIn(f), ~StoreLink(f) PROVE UNCHANGED links
  BY <1>3 DEF Callback, SignIn, HearProvider, Verify, TakeRow, LinkFails, DelegationsStay
<1>4. CASE Age \/ PortalTick \/ PortalRestart
  BY <1>4 DEF Age, PortalTick, Tick, LinkTick, PortalRestart, Restart, DelegationsStay
<1> QED
  BY <1>1, <1>2, <1>3, <1>4 DEF PortalNext, portalVars

-------------------------------------------------------------------------------
(***************************************************************************)
(* The invariant.                                                          *)
(***************************************************************************)
LEMMA PortalInitInv == PortalInit => PortalInv
<1> SUFFICES ASSUME PortalInit PROVE PortalInv
  OBVIOUS
<1>1. IndInv
  BY InitInv DEF PortalInit
<1>2. \A r \in Request : phase[r].step = "free" /\ request[r].pc = "idle"
  BY IdleFacts DEF PortalInit, Init, Session!Init, Session!Free
<1>3. /\ NewFlow \in FlowRecord /\ NewFlow.step = "new"
      /\ NotUnlinking \in UnlinkRecord /\ ~NotUnlinking.waits /\ NotUnlinking.key = NoKey
  BY DEF NewFlow, FlowRecord, NotUnlinking, UnlinkRecord
<1>4. PortalTypeOK
  BY <1>1, <1>2, <1>3 DEF PortalTypeOK, IndInv, PortalInit, Session!Init, Session!Free
<1> QED
  BY <1>1, <1>2, <1>3, <1>4 DEF PortalInv, Trusted, Pending, PortalInit

PhaseRecord == [step : {"free", "presented", "judged", "admitted"}, token : Token \cup {NoToken}]

(* The life cycle keeps the types of tokens and slots. *)
LEMMA SlotTyped ==
  ASSUME PortalTypeOK, Session!Next
  PROVE  /\ status' \in [Token -> {"unborn", "live", "dead"}]
         /\ phase' \in [Request -> PhaseRecord]
         /\ \A r \in Request : phase'[r].step # "free" => phase'[r].token \in Token
<1> USE DEF PortalTypeOK, PhaseRecord
<1>0. Session!Free \in PhaseRecord /\ Session!Free.step = "free"
  BY DEF Session!Free
<1>1. CASE Session!Age
  BY <1>1 DEF Session!Age
<1>2. CASE Session!Abandon
  BY <1>0, <1>2 DEF Session!Abandon
<1>3. ASSUME NEW r \in Request, NEW t \in Token, Session!Present(r, t)
      PROVE  /\ UNCHANGED status
             /\ phase' \in [Request -> PhaseRecord]
             /\ \A q \in Request : phase'[q].step # "free" => phase'[q].token \in Token
  BY <1>3 DEF Session!Present
<1>4. ASSUME NEW r \in Request, Session!Judge(r) \/ Session!Admit(r)
      PROVE  /\ UNCHANGED status
             /\ phase' \in [Request -> PhaseRecord]
             /\ \A q \in Request : phase'[q].step # "free" => phase'[q].token \in Token
  <2>1. PICK step \in {"judged", "admitted"} :
          /\ phase' = [phase EXCEPT ![r] = [phase[r] EXCEPT !.step = step]]
          /\ phase[r].step # "free"
    BY <1>4 DEF Session!Judge, Session!Admit
  <2>2. /\ [phase[r] EXCEPT !.step = step] \in PhaseRecord
        /\ [phase[r] EXCEPT !.step = step].token = phase[r].token
    OBVIOUS
  <2> QED
    BY <1>4, <2>1, <2>2 DEF Session!Judge, Session!Admit
<1>5. ASSUME NEW r \in Request, Session!Finish(r)
      PROVE  /\ status' \in [Token -> {"unborn", "live", "dead"}]
             /\ phase' \in [Request -> PhaseRecord]
             /\ \A q \in Request : phase'[q].step # "free" => phase'[q].token \in Token
  BY <1>0, <1>5 DEF Session!Finish
<1> QED
  BY <1>1, <1>2, <1>3, <1>4, <1>5 DEF Session!Next

(* Every request that works does so for the token it was admitted on. *)
WorksForToken(r) ==
  request[r].pc # "idle" => Admitted(r) /\ request[r].context = ContextOf[phase[r].token]

LEMMA IdleWhenNotAdmitted ==
  ASSUME PortalTypeOK, NEW r \in Request, ~Admitted(r)
  PROVE  request[r].pc = "idle"
BY DEF PortalTypeOK

LEMMA UnlinkKeepsRequests ==
  ASSUME NEW r, DeleteLink(r) \/ AbandonUnlink(r)
  PROVE  Leave(r) /\ UNCHANGED request /\ unlinking[r].waits
BY DEF DeleteLink, AbandonUnlink, Unlink, Elsewhere, DelegationsStay

LEMMA HandleWorks ==
  ASSUME PortalTypeOK, NEW r \in Request, Handle(r), NEW q \in Request
  PROVE  WorksForToken(q)'
<1>t. /\ request \in [Request -> RequestRecord]
      /\ phase \in [Request -> PhaseRecord]
      /\ \A s \in Request : WorksForToken(s)
  BY DEF PortalTypeOK, TypeOK, PhaseRecord, WorksForToken
<1> USE DEF WorksForToken, Admitted
<1>1. ASSUME NEW context \in SecurityContext, NEW record, Admitted(r), phase' = phase,
             context = ContextOf[phase[r].token],
             request' = [request EXCEPT ![r] = record], record.context = context
      PROVE  WorksForToken(q)'
  BY <1>t, <1>1
<1>2. ASSUME NEW name \in Name, NEW k \in Key, AddDelegation(r, name, k) PROVE WorksForToken(q)'
  <2>1. Admitted(r) /\ Context(r) \in SecurityContext /\ phase' = phase
    BY <1>2, ContextTyped DEF AddDelegation, Begin, SessionsStay
  <2>2. request' = [request EXCEPT ![r] =
          [Idle EXCEPT !.pc = "add", !.context = Context(r), !.name = name, !.key = k]]
    BY <1>2 DEF AddDelegation, add_delegation
  <2>3. [Idle EXCEPT !.pc = "add", !.context = Context(r), !.name = name, !.key = k].context
          = Context(r)
    BY IdleFacts DEF RequestRecord
  <2> QED
    BY <1>1, <2>1, <2>2, <2>3 DEF Context
<1>3. ASSUME NEW name \in Name \cup {NoName}, ListDelegations(r, name) PROVE WorksForToken(q)'
  <2> DEFINE p == [Idle EXCEPT !.context = Context(r), !.name = name]
  <2> DEFINE answered == [p EXCEPT !.pc = "listed", !.answer = ListedRows(Context(r))]
  <2>1. Admitted(r) /\ Context(r) \in SecurityContext /\ phase' = phase
    BY <1>3, ContextTyped DEF ListDelegations, Begin, SessionsStay
  <2>2. PICK record \in {answered, [p EXCEPT !.pc = "refused"]} :
          request' = [request EXCEPT ![r] = record]
    BY <1>3 DEF ListDelegations, get_delegations
  <2>3. answered.context = Context(r) /\ [p EXCEPT !.pc = "refused"].context = Context(r)
    BY IdleFacts DEF RequestRecord
  <2> QED
    BY <1>1, <2>1, <2>2, <2>3 DEF Context
<1>4. ASSUME NEW name \in Name, NEW id \in 1 .. Len(delegations), DeleteDelegation(r, name, id)
      PROVE  WorksForToken(q)'
  <2> DEFINE p == [Idle EXCEPT !.context = Context(r), !.name = name]
  <2>1. Admitted(r) /\ Context(r) \in SecurityContext /\ phase' = phase
    BY <1>4, ContextTyped DEF DeleteDelegation, Begin, SessionsStay
  <2>2. PICK pc \in {"deleted", "refused"} : request' = [request EXCEPT ![r] = [p EXCEPT !.pc = pc]]
    BY <1>4 DEF DeleteDelegation, delete_delegation
  <2>3. [p EXCEPT !.pc = pc].context = Context(r)
    BY IdleFacts DEF RequestRecord
  <2> QED
    BY <1>1, <2>1, <2>2, <2>3 DEF Context
<1>5. CASE GoOn(r)
  <2>1. PICK pc, answer : request' = [request EXCEPT ![r] = [request[r] EXCEPT !.pc = pc, !.answer = answer]]
    BY <1>5 DEF GoOn, ensure_recent_rp_login, CommitDelegation, Answer
  <2>2. [request[r] EXCEPT !.pc = pc, !.answer = answer].context = request[r].context
    BY <1>t DEF RequestRecord
  <2>3. request[r].pc # "idle" /\ phase' = phase
    BY <1>5 DEF GoOn, ensure_recent_rp_login, CommitDelegation, SessionsStay
  <2> QED
    BY <1>t, <2>1, <2>2, <2>3
<1>6. CASE Finish(r)
  <2>1. phase' = [phase EXCEPT ![r] = Session!Free]
    BY <1>6 DEF Finish, Leave
  <2>2. CASE request[r].pc = "idle"
    BY <1>t, <1>6, <2>1, <2>2 DEF Finish, DelegationsStay
  <2>3. CASE request[r].pc # "idle"
    BY <1>t, <1>6, <2>1, <2>3, IdleFacts DEF Finish, Done
  <2> QED
    BY <2>2, <2>3
<1>7. ASSUME request[r].pc = "idle", UNCHANGED request, Leave(r) PROVE WorksForToken(q)'
  BY <1>t, <1>7 DEF Leave
<1>8. ASSUME NEW k \in Key, unlink_resource_provider(r, k) PROVE WorksForToken(q)'
  BY <1>t, <1>8 DEF unlink_resource_provider, DelegationsStay, SessionsStay
<1>9. ASSUME NEW f \in Flow, authorize_handler(r, f) PROVE WorksForToken(q)'
  BY <1>7, <1>9 DEF authorize_handler, Begin, DelegationsStay
<1>10. CASE logout(r)
  BY <1>7, <1>10 DEF logout, Begin, DelegationsStay
<1>11. CASE DeleteLink(r)
  BY <1>7, <1>11, UnlinkKeepsRequests DEF PortalTypeOK
<1> QED
  BY <1>2, <1>3, <1>4, <1>5, <1>6, <1>8, <1>9, <1>10, <1>11 DEF Handle, Proceed

LEMMA WorksStep ==
  ASSUME PortalTypeOK, PortalNext, NEW q \in Request
  PROVE  WorksForToken(q)'
<1>t. /\ phase \in [Request -> PhaseRecord]
      /\ \A s \in Request : WorksForToken(s)
  BY DEF PortalTypeOK, PhaseRecord, WorksForToken
<1>1. ASSUME UNCHANGED <<request, phase>> PROVE WorksForToken(q)'
  BY <1>t, <1>1 DEF WorksForToken, Admitted
<1>2. ASSUME NEW r \in Request,
             (\E t \in Token : Present(r, t)) \/ Judge(r) \/ Admit(r)
      PROVE  WorksForToken(q)'
  <2>1. request' = request /\ ~Admitted(r)
    BY <1>2 DEF Present, Judge, Admit, Session!Present, Session!Judge, Session!Admit, Session!Free,
                DelegationsStay, Admitted
  <2>2. q # r => phase'[q] = phase[q]
    BY <1>t, <1>2 DEF Present, Judge, Admit, Session!Present, Session!Judge, Session!Admit
  <2> QED
    BY <1>t, <2>1, <2>2, IdleWhenNotAdmitted DEF WorksForToken, Admitted
<1>3. CASE PortalRestart
  BY <1>3, IdleFacts DEF PortalRestart, Restart, WorksForToken
<1>4. ASSUME NEW f \in Flow, Callback(f) \/ SignIn(f) PROVE UNCHANGED <<request, phase>>
  BY <1>4 DEF Callback, SignIn, HearProvider, Verify, TakeRow, StoreLink, LinkFails, Step,
              RecordLogin, Elsewhere, DelegationsStay, SessionsStay
<1>5. CASE Age \/ PortalTick \/ \E k \in Key : OperatorDisables(k)
  BY <1>1, <1>5 DEF Age, Session!Age, PortalTick, OperatorDisables, Tick, DisableLink, Elsewhere,
                    DelegationsStay, SessionsStay
<1>6. ASSUME NEW r \in Request, AbandonUnlink(r) PROVE WorksForToken(q)'
  <2>1. Leave(r) /\ request' = request /\ request[r].pc = "idle"
    BY <1>6, UnlinkKeepsRequests DEF PortalTypeOK
  <2> QED
    BY <1>t, <2>1 DEF Leave, WorksForToken, Admitted
<1> QED
  BY <1>1, <1>2, <1>3, <1>4, <1>5, <1>6, HandleWorks DEF PortalNext

(***************************************************************************)
(* Sign-ins.  A callback has a key from the moment it knows the account,   *)
(* and is alone in locking it.                                             *)
(***************************************************************************)
Keyed(f) == flow[f].step \in {"verified", "locked"} =>
              flow[f].key \in Key /\ flow[f].key[1] = flow[f].identity
Alone(f, g) == flow[f].step = "locked" /\ flow[g].step = "locked" /\ flow[f].key = flow[g].key
                 => f = g

(* The record of a sign-in after a step of its callback. *)
Stepped(f, new) ==
  \/ /\ flow[f].step = "at_provider" /\ now <= flow[f].exp
     /\ new.step = "exchanged"
  \/ /\ flow[f].step = "exchanged"
     /\ new.step = "verified" /\ new.key \in Key /\ new.key[1] = flow[f].identity
  \/ /\ flow[f].step = "verified" /\ Unlocked(flow[f].key)
     /\ new.step = "locked" /\ new.key = flow[f].key
  \/ /\ flow[f].step \in {"exchanged", "verified", "locked"}
     /\ new.step = "done"

LEMMA CallbackSteps ==
  ASSUME PortalTypeOK, NEW f \in Flow, Callback(f) \/ SignIn(f)
  PROVE  /\ authorised' = authorised
         /\ \E new \in FlowRecord :
              /\ flow' = [flow EXCEPT ![f] = new]
              /\ new.identity = flow[f].identity /\ new.exp = flow[f].exp
              /\ Stepped(f, new)
<1>t. flow[f] \in FlowRecord /\ now \in Nat
  BY DEF PortalTypeOK, TypeOK
<1>1. authorised' = authorised
  BY DEF Callback, SignIn, HearProvider, Verify, TakeRow, StoreLink, LinkFails, Step, Witnessed
<1> DEFINE Goal == \E new \in FlowRecord :
                     /\ flow' = [flow EXCEPT ![f] = new]
                     /\ new.identity = flow[f].identity /\ new.exp = flow[f].exp
                     /\ Stepped(f, new)
<1>2. ASSUME Callback(f) PROVE Goal
  <2> DEFINE new == [flow[f] EXCEPT !.step = "exchanged"]
  <2>1. /\ new \in FlowRecord /\ new.identity = flow[f].identity /\ new.exp = flow[f].exp
        /\ new.step = "exchanged"
    BY <1>t DEF FlowRecord
  <2>2. flow' = [flow EXCEPT ![f] = new] /\ flow[f].step = "at_provider" /\ now <= flow[f].exp
    BY <1>2 DEF Callback, Step, StateAccepted
  <2> QED
    BY <2>1, <2>2 DEF Stepped
<1>3. ASSUME NEW k \in Key, Verify(f, k) PROVE Goal
  <2> DEFINE new == [flow[f] EXCEPT !.step = "verified", !.key = k, !.last_login = now]
  <2>1. /\ new \in FlowRecord /\ new.identity = flow[f].identity /\ new.exp = flow[f].exp
        /\ new.step = "verified" /\ new.key = k
    BY <1>t DEF FlowRecord
  <2>2. flow' = [flow EXCEPT ![f] = new] /\ flow[f].step = "exchanged" /\ k[1] = flow[f].identity
    BY <1>3 DEF Verify, Step
  <2> QED
    BY <2>1, <2>2 DEF Stepped
<1>4. ASSUME TakeRow(f) PROVE Goal
  <2> DEFINE new == [flow[f] EXCEPT !.step = "locked"]
  <2>1. /\ new \in FlowRecord /\ new.identity = flow[f].identity /\ new.exp = flow[f].exp
        /\ new.step = "locked" /\ new.key = flow[f].key
    BY <1>t DEF FlowRecord
  <2>2. /\ flow' = [flow EXCEPT ![f] = new] /\ flow[f].step = "verified"
        /\ Unlocked(flow[f].key)
    BY <1>4 DEF TakeRow, Step
  <2> QED
    BY <2>1, <2>2 DEF Stepped
<1>5. ASSUME StoreLink(f) \/ LinkFails(f) PROVE Goal
  <2> DEFINE new == [flow[f] EXCEPT !.step = "done"]
  <2>1. /\ new \in FlowRecord /\ new.identity = flow[f].identity /\ new.exp = flow[f].exp
        /\ new.step = "done"
    BY <1>t DEF FlowRecord
  <2>2. /\ flow' = [flow EXCEPT ![f] = new]
        /\ flow[f].step \in {"exchanged", "verified", "locked"}
    BY <1>5 DEF StoreLink, LinkFails, Step
  <2> QED
    BY <2>1, <2>2 DEF Stepped
<1>6. Goal
  BY <1>2, <1>3, <1>4, <1>5 DEF SignIn, HearProvider
<1> QED
  BY <1>1, <1>6

(* A sign-in begins with a request that saw a live token. *)
LEMMA FlowStep ==
  ASSUME PortalInv, PortalNext
  PROVE  /\ flow' \in [Flow -> FlowRecord]
         /\ authorised' \in [Flow -> BOOLEAN]
         /\ \A f \in Flow : Pending(f)' /\ Keyed(f)'
         /\ \A f, g \in Flow : Alone(f, g)'
<1> DEFINE Goal == /\ flow' \in [Flow -> FlowRecord]
                   /\ authorised' \in [Flow -> BOOLEAN]
                   /\ \A f \in Flow : Pending(f)' /\ Keyed(f)'
                   /\ \A f, g \in Flow : Alone(f, g)'
<1>t. /\ flow \in [Flow -> FlowRecord] /\ authorised \in [Flow -> BOOLEAN]
      /\ now \in Nat /\ StateTtl \in Nat /\ PortalTypeOK
      /\ \A f \in Flow : Pending(f) /\ Keyed(f)
      /\ \A f, g \in Flow : Alone(f, g)
  BY PortalAssumption DEF PortalInv, PortalTypeOK, TypeOK, Keyed, Alone
<1>1. CASE UNCHANGED <<flow, authorised>>
  BY <1>t, <1>1 DEF Pending, Keyed, Alone
<1>2. ASSUME NEW r \in Request, NEW f \in Flow, authorize_handler(r, f) PROVE Goal
  <2> DEFINE begun == [step |-> "at_provider", identity |-> Caller(r),
                       exp |-> now + StateTtl, last_login |-> 0, key |-> NoKey]
  <2>1. Caller(r) \in Identity /\ seen_live[r] = TRUE /\ Admitted(r)
    BY <1>t, <1>2, ContextTyped DEF authorize_handler, Begin, PortalInv, Trusted, Admitted,
                                    PortalTypeOK
  <2>2. now + StateTtl \in Nat
    BY <1>t
  <2>3. begun \in FlowRecord
    BY <2>1, <2>2 DEF FlowRecord
  <2>4. flow' = [flow EXCEPT ![f] = begun] /\ authorised' = [authorised EXCEPT ![f] = TRUE]
    BY <1>2, <2>1 DEF authorize_handler
  <2> QED
    BY <1>t, <2>3, <2>4 DEF Pending, Keyed, Alone
<1>3. ASSUME NEW f \in Flow, Callback(f) \/ SignIn(f) PROVE Goal
  <2>1. PICK new \in FlowRecord :
          /\ flow' = [flow EXCEPT ![f] = new] /\ authorised' = authorised
          /\ new.identity = flow[f].identity
          /\ Stepped(f, new)
    BY <1>t, <1>3, CallbackSteps
  <2>2. flow[f].step # "new" /\ new.step # "new"
    BY <2>1 DEF Stepped
  <2>3. /\ flow'[f] = new
        /\ \A g \in Flow : g # f => flow'[g] = flow[g]
        /\ flow' \in [Flow -> FlowRecord]
    BY <1>t, <2>1
  <2>4. \A g \in Flow : Pending(g)'
    BY <1>t, <2>1, <2>2, <2>3 DEF Pending
  <2>5. \A g \in Flow : Keyed(g)'
    BY <1>t, <2>1, <2>3 DEF Keyed, Stepped
  <2>6. \A g \in Flow : g # f /\ flow[g].step = "locked" /\ new.step = "locked" => flow[g].key # new.key
    BY <2>1 DEF Stepped, Unlocked, Locks
  <2>7. \A g, h \in Flow : Alone(g, h)'
    BY <1>t, <2>3, <2>6 DEF Alone
  <2> QED
    BY <1>t, <2>1, <2>3, <2>4, <2>5, <2>7
<1>4. CASE PortalRestart
  <2>1. authorised' = authorised
    BY <1>4 DEF PortalRestart, Witnessed
  <2>2. \A f \in Flow : /\ [flow[f] EXCEPT !.step = "done"] \in FlowRecord
                        /\ [flow[f] EXCEPT !.step = "done"].step = "done"
    BY <1>t DEF FlowRecord
  <2>3. \A f \in Flow : /\ flow'[f] \in FlowRecord
                        /\ \/ flow'[f] = flow[f] /\ ~(flow[f].step \in {"verified", "locked"})
                           \/ flow[f].step # "new" /\ flow'[f].step = "done"
    BY <1>t, <1>4, <2>2 DEF PortalRestart
  <2>4. flow' \in [Flow -> FlowRecord]
    BY <1>t, <1>4, <2>2 DEF PortalRestart
  <2> QED
    BY <1>t, <2>1, <2>3, <2>4 DEF Pending, Keyed, Alone
<1> QED
  BY <1>1, <1>2, <1>3, <1>4, FlowMoves

LEMMA Watched == PortalNext => Watch
BY DEF PortalNext, Handle, Proceed, SignIn, HearProvider, Age, Present, Judge, Admit, AddDelegation,
       ListDelegations, DeleteDelegation, GoOn, Finish, DeleteLink, AbandonUnlink, logout,
       unlink_resource_provider, authorize_handler, Callback, Verify, TakeRow, StoreLink, LinkFails,
       Step, OperatorDisables, PortalTick, PortalRestart, Witnessed

(* How the slot of a request can change. *)
LEMMA SlotStep ==
  ASSUME PortalTypeOK, [PortalNext]_portalVars, NEW q \in Request
  PROVE  \/ phase'[q] = phase[q]
         \/ phase'[q].step \in {"free", "presented"}
         \/ Session!Judge(q) \/ Session!Admit(q)
<1>t. phase \in [Request -> PhaseRecord]
  BY DEF PortalTypeOK, PhaseRecord
<1>1. [Session!Next]_(Session!absVars)
  BY SessionStep
<1>2. CASE UNCHANGED Session!absVars
  BY <1>2 DEF Session!absVars
<1>3. CASE Session!Age
  BY <1>3 DEF Session!Age
<1>4. CASE Session!Abandon
  BY <1>4 DEF Session!Abandon, Session!Free
<1>5. ASSUME NEW r \in Request, NEW t \in Token, Session!Present(r, t)
      PROVE  phase'[q] = phase[q] \/ phase'[q].step = "presented"
  BY <1>t, <1>5 DEF Session!Present
<1>6. ASSUME NEW r \in Request, Session!Judge(r) \/ Session!Admit(r), r # q
      PROVE  phase'[q] = phase[q]
  BY <1>t, <1>6 DEF Session!Judge, Session!Admit
<1>7. ASSUME NEW r \in Request, Session!Finish(r)
      PROVE  phase'[q] = phase[q] \/ phase'[q].step = "free"
  BY <1>t, <1>7 DEF Session!Finish, Session!Free
<1> QED
  BY <1>1, <1>2, <1>3, <1>4, <1>5, <1>6, <1>7 DEF Session!Next

(* A request is accepted by a judgement of its token, while it was live.   *)
LEMMA TrustStep ==
  ASSUME PortalInv, PortalNext, NEW q \in Request
  PROVE  Trusted(q)' /\ seen_live' \in [Request -> BOOLEAN]
<1>t. /\ status \in [Token -> {"unborn", "live", "dead"}]
      /\ phase \in [Request -> PhaseRecord]
      /\ seen_live \in [Request -> BOOLEAN]
      /\ \A r \in Request : phase[r].step # "free" => phase[r].token \in Token
      /\ \A r \in Request : Trusted(r)
      /\ PortalTypeOK
  BY DEF PortalInv, PortalTypeOK, PhaseRecord
<1>1. seen_live' = [r \in Request |->
         \E t \in Token : phase'[r].token = t /\ (seen_live[r] \/ status'[t] = "live")]
  BY Watched DEF Watch
<1>2. seen_live'[q] = \E t \in Token : phase'[q].token = t /\ (seen_live[q] \/ status'[t] = "live")
  BY <1>1, ZenonT(30)
<1>3. ASSUME phase'[q] = phase[q] PROVE Trusted(q)'
  BY <1>t, <1>2, <1>3 DEF Trusted
<1>4. ASSUME phase'[q].step \in {"free", "presented"} PROVE Trusted(q)'
  BY <1>4 DEF Trusted
<1>5. ASSUME Session!Judge(q) PROVE Trusted(q)'
  <2>1. phase' = [phase EXCEPT ![q] = [phase[q] EXCEPT !.step = "judged"]]
    BY <1>5 DEF Session!Judge
  <2>2. [phase[q] EXCEPT !.step = "judged"].token = phase[q].token
    BY <1>t DEF PhaseRecord
  <2>3. phase'[q].token = phase[q].token
    BY <1>t, <2>1, <2>2
  <2>4. phase[q].token \in Token /\ status'[phase[q].token] = "live"
    BY <1>t, <1>5 DEF Session!Judge
  <2> QED
    BY <1>2, <2>3, <2>4 DEF Trusted
<1>6. ASSUME Session!Admit(q) PROVE Trusted(q)'
  <2>1. phase' = [phase EXCEPT ![q] = [phase[q] EXCEPT !.step = "admitted"]]
    BY <1>6 DEF Session!Admit
  <2>2. [phase[q] EXCEPT !.step = "admitted"].token = phase[q].token
    BY <1>t DEF PhaseRecord
  <2>3. phase'[q].token = phase[q].token
    BY <1>t, <2>1, <2>2
  <2>4. phase[q].token \in Token /\ seen_live[q]
    BY <1>t, <1>6 DEF Session!Admit, Trusted
  <2> QED
    BY <1>2, <2>3, <2>4 DEF Trusted
<1>7. \/ phase'[q] = phase[q]
      \/ phase'[q].step \in {"free", "presented"}
      \/ Session!Judge(q) \/ Session!Admit(q)
  BY <1>t, SlotStep
<1>8. seen_live' \in [Request -> BOOLEAN]
  BY <1>1
<1> QED
  BY <1>3, <1>4, <1>5, <1>6, <1>7, <1>8

(***************************************************************************)
(* Deletes that wait: the row one waits for is there, and its caller's.    *)
(***************************************************************************)
WaitFacts(r) ==
  /\ unlinking[r].waits => Admitted(r) /\ request[r].pc = "idle"
  /\ unlinking[r].key # NoKey =>
       /\ unlinking[r].waits /\ links[unlinking[r].key].present
       /\ unlinking[r].key[1] = Caller(r)

(* A request that waits is left alone by all others. *)
LEMMA HandleIsLocal ==
  ASSUME PortalTypeOK, NEW q \in Request, NEW r \in Request, Handle(q) \/ AbandonUnlink(q), q # r
  PROVE  phase'[r] = phase[r] /\ request'[r] = request[r]
<1>t. /\ request \in [Request -> RequestRecord]
      /\ phase \in [Request -> PhaseRecord]
  BY DEF PortalTypeOK, TypeOK, PhaseRecord
<1>1. phase' = phase \/ Leave(q)
  BY DEF Handle, Proceed, AddDelegation, ListDelegations, DeleteDelegation, GoOn, Finish, logout,
         DeleteLink, AbandonUnlink, unlink_resource_provider, authorize_handler, SessionsStay
<1>2. request' = request \/ \E record : request' = [request EXCEPT ![q] = record]
  <2>1. CASE DeleteLink(q) \/ AbandonUnlink(q)
    BY <2>1, UnlinkKeepsRequests
  <2>2. CASE Handle(q) /\ ~DeleteLink(q)
    BY <2>2
    DEF Handle, Proceed, AddDelegation, add_delegation, ListDelegations, get_delegations,
        DeleteDelegation, delete_delegation, GoOn, ensure_recent_rp_login, CommitDelegation,
        Answer, Finish, Done, logout, unlink_resource_provider, authorize_handler, DelegationsStay
  <2> QED
    BY <2>1, <2>2
<1> QED
  BY <1>t, <1>1, <1>2 DEF Leave

LEMMA WaitingStays ==
  ASSUME PortalTypeOK, [PortalNext]_portalVars, NEW q \in Request, unlinking[q].waits
  PROVE  \/ unlinking'[q] = NotUnlinking
         \/ /\ phase'[q] = phase[q] /\ request'[q] = request[q]
            /\ unlinking'[q].waits
            /\ unlinking'[q].key \in {unlinking[q].key, NoKey}
<1> DEFINE Still == phase'[q] = phase[q] /\ request'[q] = request[q]
           Waits == unlinking'[q].waits /\ unlinking'[q].key \in {unlinking[q].key, NoKey}
<1>t. /\ unlinking \in [Request -> UnlinkRecord] /\ unlinking[q] \in UnlinkRecord
      /\ phase \in [Request -> PhaseRecord]
      /\ phase[q].step = "admitted" /\ request[q].pc = "idle"
  BY DEF PortalTypeOK, PhaseRecord, Admitted
<1>1. unlinking'[q] = NotUnlinking \/ Waits
  <2>1. CASE UNCHANGED unlinking
    BY <2>1
  <2>2. CASE PortalRestart
    BY <2>2 DEF PortalRestart
  <2>3. ASSUME NEW r \in Request, UnlinkMove(r) PROVE unlinking'[q] = NotUnlinking \/ Waits
    <3>1. ASSUME NEW k \in Key, unlink_resource_provider(r, k) PROVE r # q
      BY <3>1 DEF unlink_resource_provider, Begin
    <3>2. CASE r # q /\ ~DeleteLink(r)
      BY <1>t, <2>3, <3>2 DEF UnlinkMove, unlink_resource_provider, AbandonUnlink
    <3>3. CASE AbandonUnlink(r) /\ r = q
      BY <1>t, <3>3 DEF AbandonUnlink
    <3>4. CASE DeleteLink(r)
      <4>1. [unlinking[q] EXCEPT !.key = NoKey].waits /\ [unlinking[q] EXCEPT !.key = NoKey].key = NoKey
        BY <1>t DEF UnlinkRecord
      <4>2. unlinking'[q] \in {NotUnlinking, unlinking[q], [unlinking[q] EXCEPT !.key = NoKey]}
        BY <3>4 DEF DeleteLink, UnlinksOf
      <4> QED
        BY <4>1, <4>2
    <3> QED
      BY <2>3, <3>1, <3>2, <3>3, <3>4 DEF UnlinkMove
  <2> QED
    BY <2>1, <2>2, <2>3, UnlinkMoves
<1>2. unlinking'[q] = NotUnlinking \/ Still
  <2>1. ASSUME NEW r \in Request, Handle(r) \/ AbandonUnlink(r), r # q PROVE Still
    BY <2>1, HandleIsLocal
  <2>2. CASE Handle(q) \/ AbandonUnlink(q)
    <3>1. DeleteLink(q) \/ AbandonUnlink(q)
      BY <1>t, <2>2
      DEF Handle, Proceed, AddDelegation, ListDelegations, DeleteDelegation, GoOn, Begin, Finish,
          unlink_resource_provider, authorize_handler, logout, ensure_recent_rp_login,
          CommitDelegation
    <3> QED
      BY <1>t, <3>1 DEF DeleteLink, UnlinksOf, AbandonUnlink
  <2>3. ASSUME NEW r \in Request, (\E t \in Token : Present(r, t)) \/ Judge(r) \/ Admit(r)
        PROVE  Still
    BY <1>t, <2>3 DEF Present, Judge, Admit, Session!Present, Session!Judge, Session!Admit,
                      Session!Free, DelegationsStay
  <2>4. ASSUME NEW f \in Flow, Callback(f) \/ SignIn(f) PROVE Still
    BY <2>4 DEF Callback, SignIn, HearProvider, Verify, TakeRow, StoreLink, LinkFails, Step,
                RecordLogin, Elsewhere, DelegationsStay, SessionsStay
  <2>5. CASE Age \/ PortalTick \/ \E k \in Key : OperatorDisables(k)
    BY <2>5 DEF Age, Session!Age, PortalTick, OperatorDisables, Tick, DisableLink, Elsewhere,
                DelegationsStay, SessionsStay
  <2>6. CASE PortalRestart
    BY <2>6 DEF PortalRestart
  <2>7. CASE UNCHANGED portalVars
    BY <2>7 DEF portalVars
  <2> QED
    BY <2>1, <2>2, <2>3, <2>4, <2>5, <2>6, <2>7 DEF PortalNext
<1> QED
  BY <1>1, <1>2

(* A row goes only with a delete that has waited for it. *)
LEMMA LinkGoes ==
  ASSUME PortalTypeOK, [PortalNext]_portalVars, NEW k \in Key, links[k].present, ~links'[k].present
  PROVE  \E r \in Request : /\ DeleteLink(r) /\ unlinking[r].key = k
                            /\ Unlocked(k) /\ unlinking' = UnlinksOf(r, k)
<1>t. links \in [Key -> Link] /\ links[k] \in Link
  BY DEF PortalTypeOK, TypeOK
<1>1. ASSUME NEW f \in Flow, StoreLink(f) PROVE FALSE
  BY <1>t, <1>1 DEF StoreLink, RecordLogin, Record
<1>2. ASSUME NEW l \in Key, OperatorDisables(l) PROVE FALSE
  <2>1. links' = [links EXCEPT ![l] = [links[l] EXCEPT !.enabled = FALSE]]
    BY <1>2 DEF OperatorDisables, DisableLink, Disable
  <2>2. [links[k] EXCEPT !.enabled = FALSE].present = links[k].present
    BY <1>t DEF Link
  <2> QED
    BY <1>t, <2>1, <2>2
<1>3. PICK r \in Request : DeleteLink(r)
  BY <1>1, <1>2, LinkMoves
<1>4. unlinking[r].key # NoKey /\ Unlink(unlinking[r].key)
  BY <1>3 DEF DeleteLink, DelegationsStay
<1>5. links' = [links EXCEPT ![unlinking[r].key] = NoLink]
  BY <1>4 DEF Unlink, Remove
<1>6. unlinking[r].key = k
  BY <1>t, <1>5
<1> QED
  BY <1>3, <1>6 DEF DeleteLink

LEMMA WaitStep ==
  ASSUME PortalTypeOK, PortalNext, NEW q \in Request
  PROVE  WaitFacts(q)'
<1>t. /\ unlinking \in [Request -> UnlinkRecord] /\ unlinking[q] \in UnlinkRecord
      /\ phase \in [Request -> PhaseRecord] /\ request[q] \in RequestRecord
      /\ links \in [Key -> Link]
      /\ WaitFacts(q)
  BY DEF PortalTypeOK, TypeOK, WaitFacts, PhaseRecord
<1>1. CASE unlinking'[q] = NotUnlinking
  BY <1>1 DEF WaitFacts, NotUnlinking
<1>2. CASE unlinking[q].waits /\ unlinking'[q] # NotUnlinking
  <2>1. /\ phase'[q] = phase[q] /\ request'[q] = request[q]
        /\ unlinking'[q].waits
        /\ unlinking'[q].key \in {unlinking[q].key, NoKey}
    BY <1>2, WaitingStays
  <2>2. Caller(q)' = Caller(q)
    BY <2>1 DEF Caller
  <2>3. ASSUME unlinking'[q].key # NoKey PROVE links'[unlinking'[q].key].present
    <3> DEFINE k == unlinking[q].key
    <3>1. /\ k \in Key /\ k # NoKey /\ links[k].present /\ unlinking'[q].key = k
      BY <1>t, <2>1, <2>3 DEF UnlinkRecord, WaitFacts
    <3>2. ASSUME ~links'[k].present PROVE FALSE
      <4>1. PICK r \in Request : DeleteLink(r) /\ unlinking' = UnlinksOf(r, k)
        BY <3>1, <3>2, LinkGoes
      <4>2. unlinking'[q] = NotUnlinking \/ unlinking'[q] = [unlinking[q] EXCEPT !.key = NoKey]
        BY <4>1 DEF UnlinksOf
      <4>3. [unlinking[q] EXCEPT !.key = NoKey].key = NoKey
        BY <1>t DEF UnlinkRecord
      <4> QED
        BY <1>2, <3>1, <4>2, <4>3
    <3> QED
      BY <3>1, <3>2
  <2> QED
    BY <1>2, <1>t, <2>1, <2>2, <2>3 DEF WaitFacts, Admitted
<1>3. CASE ~unlinking[q].waits /\ unlinking'[q] # NotUnlinking
  <2>1. unlinking[q].key = NoKey
    BY <1>t, <1>3 DEF WaitFacts
  <2>2. [unlinking[q] EXCEPT !.key = NoKey] = unlinking[q]
    BY <1>t, <2>1 DEF UnlinkRecord
  <2>3. CASE unlinking'[q] = unlinking[q]
    BY <1>3, <2>1, <2>3 DEF WaitFacts
  <2>4. ASSUME NEW k \in Key, unlink_resource_provider(q, k) PROVE WaitFacts(q)'
    BY <1>t, <2>4
    DEF WaitFacts, unlink_resource_provider, Begin, SessionsStay, DelegationsStay, Admitted, Caller
  <2>5. ASSUME NEW r \in Request, UnlinkMove(r), ~\E k \in Key : unlink_resource_provider(q, k)
        PROVE  unlinking'[q] \in {unlinking[q], NotUnlinking}
    BY <1>t, <2>2, <2>5 DEF UnlinkMove, unlink_resource_provider, DeleteLink, UnlinksOf, AbandonUnlink
  <2>6. CASE PortalRestart
    BY <1>3, <2>6 DEF PortalRestart
  <2> QED
    BY <1>3, <2>3, <2>4, <2>5, <2>6, UnlinkMoves
<1> QED
  BY <1>1, <1>2, <1>3

LEMMA UnlinkingTyped ==
  ASSUME PortalTypeOK, PortalNext
  PROVE  unlinking' \in [Request -> UnlinkRecord]
<1>t. /\ unlinking \in [Request -> UnlinkRecord]
      /\ NotUnlinking \in UnlinkRecord
      /\ \A q \in Request : [unlinking[q] EXCEPT !.key = NoKey] \in UnlinkRecord
      /\ \A k \in Key : [waits |-> TRUE, key |-> k] \in UnlinkRecord
  BY DEF PortalTypeOK, UnlinkRecord, NotUnlinking
<1>1. CASE PortalRestart
  BY <1>t, <1>1 DEF PortalRestart
<1>2. ASSUME NEW r \in Request, UnlinkMove(r) PROVE unlinking' \in [Request -> UnlinkRecord]
  BY <1>t, <1>2 DEF UnlinkMove, unlink_resource_provider, DeleteLink, UnlinksOf, AbandonUnlink
<1> QED
  BY <1>t, <1>1, <1>2, UnlinkMoves

LEMMA PortalInvStep == PortalInv /\ [PortalNext]_portalVars => PortalInv'
<1>1. ASSUME PortalInv, PortalNext PROVE PortalInv'
  <2>1. PortalTypeOK /\ IndInv
    BY <1>1 DEF PortalInv
  <2>2. IndInv'
    BY <1>1, <2>1, DelegationsStep, InvStep
  <2>3. /\ status' \in [Token -> {"unborn", "live", "dead"}]
        /\ phase' \in [Request -> PhaseRecord]
        /\ \A r \in Request : phase'[r].step # "free" => phase'[r].token \in Token
    <3>1. CASE Session!Next
      BY <2>1, <3>1, SlotTyped
    <3>2. CASE UNCHANGED Session!absVars
      BY <2>1, <3>2 DEF Session!absVars, PortalTypeOK, PhaseRecord
    <3> QED
      BY <1>1, <2>1, <3>1, <3>2, SessionStep
  <2>4. \A q \in Request : WorksForToken(q)' /\ Trusted(q)'
    BY <1>1, <2>1, WorksStep, TrustStep
  <2>5. seen_live' \in [Request -> BOOLEAN]
    <3>1. CASE Request = {}
      BY <1>1, <3>1, Watched DEF Watch
    <3>2. CASE Request # {}
      BY <1>1, <3>2, TrustStep
    <3> QED
      BY <3>1, <3>2
  <2>6. /\ unlinking' \in [Request -> UnlinkRecord]
        /\ \A r \in Request : WaitFacts(r)'
    BY <1>1, <2>1, UnlinkingTyped, WaitStep
  <2>7. TypeOK'
    BY <2>2 DEF IndInv
  <2>8. /\ flow' \in [Flow -> FlowRecord] /\ authorised' \in [Flow -> BOOLEAN]
        /\ \A f \in Flow : Keyed(f)' /\ \A g \in Flow : Alone(f, g)'
    BY <1>1, FlowStep
  <2>9. PortalTypeOK'
    BY <2>3, <2>4, <2>5, <2>6, <2>7, <2>8
    DEF PortalTypeOK, WorksForToken, PhaseRecord, WaitFacts, Keyed, Alone
  <2> QED
    BY <1>1, <2>2, <2>4, <2>9, FlowStep DEF PortalInv
<1>2. ASSUME PortalInv, UNCHANGED portalVars PROVE PortalInv'
  <2>1. IndInv'
    BY <1>2, InvStep DEF portalVars, PortalInv, vars
  <2> QED
    BY <1>2, <2>1
    DEF portalVars, PortalInv, PortalTypeOK, TypeOK, Trusted, Pending, Admitted, Caller, IndInv
<1> QED
  BY <1>1, <1>2

THEOREM PortalInvariance == PortalSpec => []PortalInv
BY PortalInitInv, PortalInvStep, PTL DEF PortalSpec

-------------------------------------------------------------------------------
(***************************************************************************)
(* Tokens, slots, rows, links and sign-ins keep their types, and a request *)
(* works only once its token was accepted, for the caller it names.        *)
(***************************************************************************)
THEOREM PortalTypeCorrect == PortalSpec => []PortalTypeOK
<1>1. PortalInv => PortalTypeOK
  BY DEF PortalInv
<1> QED
  BY <1>1, PortalInvariance, PTL

(* What is proved of the delegations therefore holds of the portal. *)
LEMMA PartOfThePortal == PortalSpec => Spec
<1>1. PortalInit => Init
  BY DEF PortalInit
<1>2. PortalInv /\ [PortalNext]_portalVars => [Next]_vars
  BY DelegationsStep DEF PortalInv
<1> QED
  BY <1>1, <1>2, PortalInvariance, PTL DEF PortalSpec, Spec

(***************************************************************************)
(* Who changes what.                                                       *)
(***************************************************************************)
(* A request at work acts for its caller, on a token that was live. *)
LEMMA ActsForCaller ==
  ASSUME PortalInv, NEW r \in Request, Admitted(r)
  PROVE  ActsFor(Caller(r))
BY DEF PortalInv, Trusted, Admitted, ActsFor

LEMMA CommitIsAuthorised ==
  ASSUME PortalInv, NEW r \in Request, CommitDelegation(r)
  PROVE  RowsAuthorised
<1>1. request[r].pc = "recent" /\ Admitted(r) /\ request[r].context = Context(r) /\ AddFacts(r)
  BY DEF CommitDelegation, PortalInv, PortalTypeOK, IndInv, Context
<1>2. IdentityOfKey(request[r].key) = Caller(r)
  BY <1>1 DEF AddFacts, Caller, Context
<1>3. ActsFor(IdentityOfKey(request[r].key))
  BY <1>1, <1>2, ActsForCaller
<1>4. delegations \in Seq(Delegation \cup {Deleted})
  BY DEF PortalInv, IndInv, TypeOK
<1>5. \/ delegations' = delegations
      \/ delegations' = Append(delegations, NewDelegation(r))
  BY DEF CommitDelegation, db_insert_delegation
<1>6. NewDelegation(r).key = request[r].key
  BY DEF NewDelegation
<1>7. ASSUME NEW id \in 1 .. Len(delegations')
      PROVE  \/ id <= Len(delegations) /\ delegations'[id] = delegations[id]
             \/ ~(id <= Len(delegations)) /\ delegations'[id] = NewDelegation(r)
  BY <1>4, <1>5, <1>7
<1> QED
  BY <1>3, <1>6, <1>7 DEF RowsAuthorised

LEMMA DeleteIsAuthorised ==
  ASSUME PortalInv, NEW r \in Request, NEW name \in Name, NEW gone \in 1 .. Len(delegations),
         DeleteDelegation(r, name, gone)
  PROVE  RowsAuthorised
<1>1. Admitted(r) /\ PortalTypeOK
  BY DEF DeleteDelegation, Begin, PortalInv
<1>2. ActsFor(Context(r).tms_identity)
  BY <1>1, ActsForCaller, ContextTyped
<1>3. delegations \in Seq(Delegation \cup {Deleted})
  BY DEF PortalInv, IndInv, TypeOK
<1>4. \/ delegations' = delegations
      \/ /\ Selected(Context(r), name, gone)
         /\ delegations' = [delegations EXCEPT ![gone] = Deleted]
  BY DEF DeleteDelegation, delete_delegation
<1>5. ASSUME NEW id \in 1 .. Len(delegations'), delegations'[id] # delegations[id]
      PROVE  Selected(Context(r), name, id)
  BY <1>3, <1>4, <1>5
<1>6. Len(delegations') = Len(delegations)
  BY <1>3, <1>4
<1> QED
  BY <1>2, <1>3, <1>5, <1>6 DEF RowsAuthorised, Selected

LEMMA RowsStep == PortalInv /\ [PortalNext]_portalVars => RowsAuthorised
<1> SUFFICES ASSUME PortalInv, [PortalNext]_portalVars PROVE RowsAuthorised
  OBVIOUS
<1>1. ASSUME UNCHANGED delegations PROVE RowsAuthorised
  BY <1>1 DEF RowsAuthorised
<1>2. ASSUME NEW r \in Request, GoOn(r) PROVE RowsAuthorised
  BY <1>1, <1>2, CommitIsAuthorised DEF GoOn, ensure_recent_rp_login
<1>3. ASSUME NEW r \in Request, Handle(r) PROVE RowsAuthorised
  <2>1. ASSUME \/ \E name \in Name, k \in Key : AddDelegation(r, name, k)
               \/ \E name \in Name \cup {NoName} : ListDelegations(r, name)
               \/ \E k \in Key : unlink_resource_provider(r, k)
               \/ \E f \in Flow : authorize_handler(r, f)
               \/ logout(r) \/ Finish(r) \/ DeleteLink(r)
        PROVE  UNCHANGED delegations
    BY <2>1 DEF AddDelegation, add_delegation, ListDelegations, get_delegations, Unlink, Elsewhere,
                unlink_resource_provider, authorize_handler, logout, Finish, Done, DeleteLink,
                DelegationsStay
  <2> QED
    BY <1>1, <1>2, <1>3, <2>1, DeleteIsAuthorised DEF Handle, Proceed
<1>4. ASSUME NEW r \in Request,
             (\E t \in Token : Present(r, t)) \/ Judge(r) \/ Admit(r) \/ AbandonUnlink(r)
      PROVE  UNCHANGED delegations
  BY <1>4 DEF Present, Judge, Admit, AbandonUnlink, DelegationsStay
<1>5. ASSUME NEW f \in Flow, Callback(f) \/ SignIn(f) PROVE UNCHANGED delegations
  BY <1>5 DEF Callback, SignIn, HearProvider, Verify, TakeRow, StoreLink, LinkFails, RecordLogin,
              Elsewhere, DelegationsStay
<1>6. ASSUME Age \/ PortalTick \/ PortalRestart \/ \E k \in Key : OperatorDisables(k)
      PROVE  UNCHANGED delegations
  BY <1>6 DEF Age, PortalTick, Tick, PortalRestart, Restart, OperatorDisables, DisableLink,
              Elsewhere, DelegationsStay
<1>7. CASE UNCHANGED portalVars
  BY <1>1, <1>7 DEF portalVars
<1> QED
  BY <1>1, <1>3, <1>4, <1>5, <1>6, <1>7 DEF PortalNext

LEMMA LinksStepAuthorised == PortalInv /\ [PortalNext]_portalVars => LinksAuthorised
<1> SUFFICES ASSUME PortalInv, [PortalNext]_portalVars PROVE LinksAuthorised
  OBVIOUS
<1>t. links \in [Key -> Link] /\ PortalTypeOK
  BY DEF PortalInv, IndInv, TypeOK
<1>1. CASE UNCHANGED links
  BY <1>1 DEF LinksAuthorised
<1>2. ASSUME NEW r \in Request, DeleteLink(r), links' # links PROVE LinksAuthorised
  <2> DEFINE k == unlinking[r].key
  <2>1. k # NoKey /\ links' = [links EXCEPT ![k] = NoLink] /\ ~NoLink.present
    BY <1>2 DEF DeleteLink, DelegationsStay, Unlink, Remove, NoLink
  <2>2. Admitted(r) /\ k[1] = Caller(r)
    BY <1>t, <2>1 DEF PortalTypeOK
  <2>3. ActsFor(IdentityOfKey(k))
    BY <2>2, ActsForCaller DEF IdentityOfKey
  <2> HIDE DEF k
  <2> QED
    BY <1>t, <2>1, <2>3 DEF LinksAuthorised
<1>3. ASSUME NEW f \in Flow, StoreLink(f) PROVE LinksAuthorised
  <2> DEFINE k == flow[f].key
             link == [present |-> TRUE, last_login |-> flow[f].last_login,
                      enabled |-> IF links[k].present THEN links[k].enabled ELSE TRUE]
  <2>1. links' = [links EXCEPT ![k] = link] /\ link.present
    BY <1>3 DEF StoreLink, RecordLogin, Record
  <2>2. k \in Key /\ k[1] = flow[f].identity /\ flow[f].step = "locked" /\ authorised[f]
    BY <1>3, <1>t DEF PortalInv, PortalTypeOK, Pending, StoreLink
  <2>3. SignsInFor(IdentityOfKey(k))
    BY <2>2 DEF SignsInFor, IdentityOfKey
  <2> HIDE DEF k, link
  <2> QED
    BY <1>t, <2>1, <2>2, <2>3 DEF LinksAuthorised
<1>4. ASSUME NEW k \in Key, OperatorDisables(k) PROVE LinksAuthorised
  <2>1. links' = [links EXCEPT ![k] = [links[k] EXCEPT !.enabled = FALSE]]
    BY <1>4 DEF OperatorDisables, DisableLink, Disable
  <2>2. /\ [links[k] EXCEPT !.enabled = FALSE].present = links[k].present
        /\ [links[k] EXCEPT !.enabled = FALSE].last_login = links[k].last_login
    BY <1>t DEF Link
  <2>3. \A l \in Key : /\ links'[l].present = links[l].present
                      /\ links'[l].last_login = links[l].last_login
    BY <1>t, <2>1, <2>2
  <2> QED
    BY <2>3 DEF LinksAuthorised
<1> QED
  BY <1>1, <1>2, <1>3, <1>4, LinkMoves

(***************************************************************************)
(* What is a user's changes only by a request of theirs, accepted on a     *)
(* token that was live, or by the sign-in such a request has started.      *)
(***************************************************************************)
THEOREM EffectsAuthorised == PortalSpec => EffectsAreAuthorised
<1>1. PortalInv /\ [PortalNext]_portalVars => [RowsAuthorised /\ LinksAuthorised]_portalVars
  BY RowsStep, LinksStepAuthorised
<1> QED
  BY <1>1, PortalInvariance, PTL DEF PortalSpec, EffectsAreAuthorised

(***************************************************************************)
(* So a delegation is answered only to a caller whose link was usable, and *)
(* its rows only to their owner, when callers are those of the tokens.     *)
(***************************************************************************)
THEOREM PortalDelegations == PortalSpec => [](DelegationWasJustified /\ AnswersAreTheCallers)
BY PartOfThePortal, Justified, OnlyTheCallers, PTL

-------------------------------------------------------------------------------
(***************************************************************************)
(* Liveness, of one request and of one sign-in.  A request that has been   *)
(* accepted goes forwards only through the stages judged, idle, add,       *)
(* recent and answered, or waits with its delete, and leaves.              *)
(***************************************************************************)
Judged(r) == phase[r].step = "judged"
Works(r, pcs) == Admitted(r) /\ ~unlinking[r].waits /\ request[r].pc \in pcs
Answered(r) == Works(r, {"added", "listed", "deleted", "refused"})
Waits(r) == unlinking[r].waits
Out(r) == ~(phase[r].step \in {"judged", "admitted"})

LEMMA StagesOfARequest ==
  ASSUME PortalInv, NEW r \in Request
  PROVE  /\ ~Out(r) => \/ Judged(r) \/ Works(r, {"idle"}) \/ Works(r, {"add"})
                       \/ Works(r, {"recent"}) \/ Answered(r) \/ Waits(r)
         /\ Waits(r) => Admitted(r) /\ request[r].pc = "idle" /\ ~Out(r)
BY DEF PortalInv, PortalTypeOK, TypeOK, RequestRecord, UnlinkRecord, Out, Judged, Works, Answered,
       Waits, Admitted

(* A handler takes its request to a later stage; one that goes on with     *)
(* what it has begun does not stay where it is.                            *)
LEMMA HandleAdvances ==
  ASSUME PortalInv, NEW r \in Request, Handle(r)
  PROVE  \/ /\ Works(r, {"idle"})
            /\ Works(r, {"add"})' \/ Answered(r)' \/ Waits(r)'
            /\ ~Proceed(r)
         \/ Works(r, {"add"}) /\ (Works(r, {"recent"})' \/ Answered(r)')
         \/ Works(r, {"recent"}) /\ Answered(r)'
         \/ Out(r)'
<1>t. /\ request \in [Request -> RequestRecord]
      /\ phase \in [Request -> PhaseRecord]
      /\ unlinking \in [Request -> UnlinkRecord] /\ unlinking[r].waits \in BOOLEAN
      /\ PortalTypeOK
  BY DEF PortalInv, PortalTypeOK, TypeOK, PhaseRecord, UnlinkRecord
<1>1. ASSUME Leave(r) PROVE Out(r)'
  BY <1>t, <1>1 DEF Leave, Out, Session!Free
<1>2. ASSUME NEW pc, NEW record, phase' = phase, unlinking' = unlinking, Admitted(r),
             ~unlinking[r].waits, request' = [request EXCEPT ![r] = record], record.pc = pc
      PROVE  Works(r, {pc})'
  BY <1>t, <1>2 DEF Works, Admitted
<1>3. ASSUME NEW name \in Name, NEW k \in Key, AddDelegation(r, name, k)
      PROVE  Works(r, {"idle"}) /\ Works(r, {"add"})'
  <2> DEFINE record == [Idle EXCEPT !.pc = "add", !.context = Context(r), !.name = name, !.key = k]
  <2>1. /\ request[r].pc = "idle" /\ Admitted(r) /\ ~unlinking[r].waits
        /\ phase' = phase /\ unlinking' = unlinking
        /\ request' = [request EXCEPT ![r] = record]
    BY <1>3 DEF AddDelegation, add_delegation, Begin, SessionsStay, LinkingStays
  <2>2. record.pc = "add"
    BY IdleFacts DEF RequestRecord
  <2>3. Works(r, {"add"})'
    BY <1>2, <2>1, <2>2
  <2> QED
    BY <2>1, <2>3 DEF Works
<1>4. ASSUME NEW name \in Name \cup {NoName}, ListDelegations(r, name)
      PROVE  Works(r, {"idle"}) /\ (Works(r, {"listed"})' \/ Works(r, {"refused"})')
  <2> DEFINE p == [Idle EXCEPT !.context = Context(r), !.name = name]
             listed == [p EXCEPT !.pc = "listed", !.answer = ListedRows(Context(r))]
             refused == [p EXCEPT !.pc = "refused"]
  <2>1. /\ request[r].pc = "idle" /\ Admitted(r) /\ ~unlinking[r].waits
        /\ phase' = phase /\ unlinking' = unlinking
    BY <1>4 DEF ListDelegations, Begin, SessionsStay, LinkingStays
  <2>2. \/ request' = [request EXCEPT ![r] = listed]
        \/ request' = [request EXCEPT ![r] = refused]
    BY <1>4 DEF ListDelegations, get_delegations
  <2>3. listed.pc = "listed" /\ refused.pc = "refused"
    BY IdleFacts DEF RequestRecord
  <2>4. Works(r, {"listed"})' \/ Works(r, {"refused"})'
    BY <1>2, <2>1, <2>2, <2>3
  <2> QED
    BY <2>1, <2>4 DEF Works
<1>5. ASSUME NEW name \in Name, NEW id \in 1 .. Len(delegations), DeleteDelegation(r, name, id)
      PROVE  Works(r, {"idle"}) /\ (Works(r, {"deleted"})' \/ Works(r, {"refused"})')
  <2> DEFINE p == [Idle EXCEPT !.context = Context(r), !.name = name]
  <2>1. /\ request[r].pc = "idle" /\ Admitted(r) /\ ~unlinking[r].waits
        /\ phase' = phase /\ unlinking' = unlinking
    BY <1>5 DEF DeleteDelegation, Begin, SessionsStay, LinkingStays
  <2>2. PICK pc \in {"deleted", "refused"} :
          request' = [request EXCEPT ![r] = [p EXCEPT !.pc = pc]]
    BY <1>5 DEF DeleteDelegation, delete_delegation
  <2>3. [p EXCEPT !.pc = pc].pc = pc
    BY IdleFacts DEF RequestRecord
  <2>4. Works(r, {pc})'
    BY <1>2, <2>1, <2>2, <2>3
  <2> QED
    BY <2>1, <2>2, <2>4 DEF Works
<1>6. ASSUME GoOn(r)
      PROVE  \/ Works(r, {"add"}) /\ (Works(r, {"recent"})' \/ Works(r, {"refused"})')
             \/ Works(r, {"recent"}) /\ (Works(r, {"added"})' \/ Works(r, {"refused"})')
  <2>1. /\ request[r].pc \in {"add", "recent"}
        /\ phase' = phase /\ unlinking' = unlinking
    BY <1>6 DEF GoOn, ensure_recent_rp_login, CommitDelegation, SessionsStay, LinkingStays
  <2>2. Admitted(r) /\ ~unlinking[r].waits
    BY <1>t, <2>1 DEF PortalTypeOK
  <2>3. PICK pc, answer :
          /\ request' = [request EXCEPT ![r] = [request[r] EXCEPT !.pc = pc, !.answer = answer]]
          /\ request[r].pc = "add" => pc \in {"recent", "refused"}
          /\ request[r].pc = "recent" => pc \in {"added", "refused"}
    BY <1>6 DEF GoOn, ensure_recent_rp_login, CommitDelegation, Answer
  <2>4. [request[r] EXCEPT !.pc = pc, !.answer = answer].pc = pc
    BY <1>t DEF RequestRecord
  <2>5. Works(r, {pc})'
    BY <1>2, <2>1, <2>2, <2>3, <2>4
  <2>6. Works(r, {request[r].pc})
    BY <2>2 DEF Works
  <2> QED
    BY <2>1, <2>3, <2>5, <2>6
<1>7. ASSUME NEW k \in Key, unlink_resource_provider(r, k)
      PROVE  Works(r, {"idle"}) /\ Waits(r)'
  BY <1>t, <1>7 DEF unlink_resource_provider, Begin, Works, Waits
<1>8. ASSUME Finish(r) \/ DeleteLink(r) \/ logout(r) \/ \E f \in Flow : authorize_handler(r, f)
      PROVE  Out(r)'
  BY <1>1, <1>8 DEF Finish, DeleteLink, logout, authorize_handler
<1>9. \A pc \in {"added", "listed", "deleted", "refused"} : Works(r, {pc})' => Answered(r)'
  BY DEF Works, Answered
<1>10. CASE Proceed(r)
  BY <1>6, <1>8, <1>9, <1>10 DEF Proceed
<1>11. CASE ~Proceed(r)
  BY <1>3, <1>4, <1>5, <1>7, <1>8, <1>9, <1>11 DEF Handle
<1> QED
  BY <1>10, <1>11

LEMMA ProceedAdvances ==
  ASSUME NEW r \in Request
  PROVE  PortalInv /\ <<Proceed(r)>>_portalVars =>
           /\ Works(r, {"add"}) => Works(r, {"recent"})' \/ Answered(r)' \/ Out(r)'
           /\ Works(r, {"recent"}) => Answered(r)' \/ Out(r)'
           /\ Judged(r) \/ Works(r, {"idle"}) \/ Answered(r) \/ Waits(r) => Out(r)'
<1> SUFFICES ASSUME PortalInv, Proceed(r)
             PROVE  /\ Works(r, {"add"}) => Works(r, {"recent"})' \/ Answered(r)' \/ Out(r)'
                    /\ Works(r, {"recent"}) => Answered(r)' \/ Out(r)'
                    /\ Judged(r) \/ Works(r, {"idle"}) \/ Answered(r) \/ Waits(r) => Out(r)'
  OBVIOUS
<1>1. Handle(r)
  BY DEF Handle
<1>2. \/ Works(r, {"add"}) /\ (Works(r, {"recent"})' \/ Answered(r)')
      \/ Works(r, {"recent"}) /\ Answered(r)'
      \/ Out(r)'
  BY <1>1, HandleAdvances
<1>3. /\ ~(Works(r, {"add"}) /\ Works(r, {"recent"}))
      /\ Judged(r) \/ Works(r, {"idle"}) \/ Answered(r) \/ Waits(r) =>
           ~Works(r, {"add"}) /\ ~Works(r, {"recent"})
  BY DEF Works, Answered, Waits, Judged, Admitted
<1> QED
  BY <1>2, <1>3

(* What any step does to an accepted request. *)
LEMMA StageStep ==
  ASSUME NEW r \in Request
  PROVE  PortalInv /\ [PortalNext]_portalVars =>
           /\ Judged(r) => Judged(r)' \/ Works(r, {"idle"})' \/ Out(r)'
           /\ Works(r, {"idle"}) =>
                Works(r, {"idle"})' \/ Works(r, {"add"})' \/ Answered(r)' \/ Waits(r)' \/ Out(r)'
           /\ Works(r, {"add"}) =>
                Works(r, {"add"})' \/ Works(r, {"recent"})' \/ Answered(r)' \/ Out(r)'
           /\ Works(r, {"recent"}) => Works(r, {"recent"})' \/ Answered(r)' \/ Out(r)'
           /\ Answered(r) => Answered(r)' \/ Out(r)'
<1> DEFINE Goal ==
           /\ Judged(r) => Judged(r)' \/ Works(r, {"idle"})' \/ Out(r)'
           /\ Works(r, {"idle"}) =>
                Works(r, {"idle"})' \/ Works(r, {"add"})' \/ Answered(r)' \/ Waits(r)' \/ Out(r)'
           /\ Works(r, {"add"}) =>
                Works(r, {"add"})' \/ Works(r, {"recent"})' \/ Answered(r)' \/ Out(r)'
           /\ Works(r, {"recent"}) => Works(r, {"recent"})' \/ Answered(r)' \/ Out(r)'
           /\ Answered(r) => Answered(r)' \/ Out(r)'
<1> SUFFICES ASSUME PortalInv, [PortalNext]_portalVars PROVE Goal
  OBVIOUS
<1>t. /\ phase \in [Request -> PhaseRecord] /\ PortalTypeOK
      /\ unlinking \in [Request -> UnlinkRecord]
  BY DEF PortalInv, PortalTypeOK, PhaseRecord
<1>1. ASSUME phase'[r] = phase[r], request'[r] = request[r], unlinking'[r].waits = unlinking[r].waits
      PROVE  Goal
  BY <1>1 DEF Judged, Works, Answered, Admitted
<1>2. CASE Handle(r)
  <2>1. \/ Works(r, {"idle"}) /\ (Works(r, {"add"})' \/ Answered(r)' \/ Waits(r)')
        \/ Works(r, {"add"}) /\ (Works(r, {"recent"})' \/ Answered(r)')
        \/ Works(r, {"recent"}) /\ Answered(r)'
        \/ Out(r)'
    BY <1>2, HandleAdvances
  <2>2. /\ Works(r, {"idle"}) => ~Judged(r) /\ ~Works(r, {"add"}) /\ ~Works(r, {"recent"}) /\ ~Answered(r)
        /\ Works(r, {"add"}) => ~Judged(r) /\ ~Works(r, {"recent"}) /\ ~Answered(r)
        /\ Works(r, {"recent"}) => ~Judged(r) /\ ~Answered(r)
    BY DEF Works, Answered, Judged, Admitted
  <2> QED
    BY <2>1, <2>2
<1>3. CASE UnlinkMove(r) \/ Waits(r)
  <2>1. CASE Waits(r)
    BY <1>t, <2>1 DEF Waits, Judged, Works, Answered, PortalTypeOK, Admitted
  <2>2. CASE DeleteLink(r) \/ AbandonUnlink(r)
    BY <2>1, <2>2, UnlinkKeepsRequests DEF Waits
  <2>3. CASE \E k \in Key : unlink_resource_provider(r, k)
    BY <1>2, <2>3 DEF Handle
  <2> QED
    BY <1>3, <2>1, <2>2, <2>3 DEF UnlinkMove
<1>4. ASSUME ~UnlinkMove(r), ~Waits(r), ~PortalRestart PROVE unlinking'[r].waits = unlinking[r].waits
  <2>1. ASSUME NEW q \in Request, UnlinkMove(q), q # r PROVE unlinking'[r].waits = unlinking[r].waits
    <3>1. [unlinking[r] EXCEPT !.key = NoKey].waits = unlinking[r].waits
      BY <1>t DEF UnlinkRecord
    <3> QED
      BY <1>t, <2>1, <3>1 DEF UnlinkMove, unlink_resource_provider, DeleteLink, UnlinksOf, AbandonUnlink
  <2> QED
    BY <1>4, <2>1, UnlinkMoves
<1>5. ASSUME NEW q \in Request, Handle(q) \/ AbandonUnlink(q), q # r, ~UnlinkMove(r), ~Waits(r),
             ~PortalRestart
      PROVE  Goal
  BY <1>t, <1>1, <1>4, <1>5, HandleIsLocal
<1>6. ASSUME NEW q \in Request, (\E t \in Token : Present(q, t)) \/ Judge(q) \/ Admit(q),
             ~UnlinkMove(r), ~Waits(r), ~PortalRestart
      PROVE  Goal
  <2>1. request' = request
    BY <1>6 DEF Present, Judge, Admit, DelegationsStay
  <2>2. CASE q # r
    <3>1. phase'[r] = phase[r]
      BY <1>t, <1>6, <2>2 DEF Present, Judge, Admit, Session!Present, Session!Judge, Session!Admit
    <3> QED
      BY <1>1, <1>4, <1>6, <2>1, <3>1
  <2>3. CASE q = r /\ ~Admit(r)
    <3>1. phase[r].step \in {"free", "presented"}
      BY <1>6, <2>3 DEF Present, Judge, Session!Present, Session!Judge, Session!Free
    <3> QED
      BY <3>1 DEF Judged, Works, Answered, Admitted
  <2>4. CASE Admit(r)
    <3>1. phase[r].step = "judged" /\ phase'[r].step = "admitted"
      BY <1>t, <2>4 DEF Admit, Session!Admit, PhaseRecord
    <3>2. request[r].pc = "idle"
      BY <1>t, <3>1, IdleWhenNotAdmitted DEF Admitted
    <3>3. unlinking' = unlinking
      BY <2>4 DEF Admit, LinkingStays
    <3> QED
      BY <1>6, <2>1, <3>1, <3>2, <3>3 DEF Judged, Works, Answered, Admitted, Waits
  <2> QED
    BY <1>6, <2>2, <2>3, <2>4
<1>7. ASSUME UNCHANGED <<phase, request, unlinking>> PROVE Goal
  BY <1>1, <1>7
<1>8. ASSUME NEW f \in Flow, Callback(f) \/ SignIn(f) PROVE UNCHANGED <<phase, request, unlinking>>
  BY <1>8 DEF Callback, SignIn, HearProvider, Verify, TakeRow, StoreLink, LinkFails, Step,
              RecordLogin, Elsewhere, DelegationsStay, SessionsStay
<1>9. CASE Age \/ PortalTick \/ \E k \in Key : OperatorDisables(k)
  <2>1. UNCHANGED <<phase, request, unlinking>>
    BY <1>9 DEF Age, Session!Age, PortalTick, Tick, OperatorDisables, DisableLink, Elsewhere,
                DelegationsStay, SessionsStay, LinkingStays
  <2> QED
    BY <1>7, <2>1
<1>10. CASE PortalRestart
  <2>1. Out(r)'
    BY <1>10 DEF PortalRestart, Session!Abandon, Session!Free, Out
  <2> QED
    BY <2>1
<1>11. CASE UNCHANGED portalVars
  BY <1>7, <1>11 DEF portalVars
<1> QED
  BY <1>2, <1>3, <1>5, <1>6, <1>7, <1>8, <1>9, <1>10, <1>11 DEF PortalNext, UnlinkMove

-------------------------------------------------------------------------------
(***************************************************************************)
(* Rows.  Who has locked one is alone with it, until nobody locks it.      *)
(***************************************************************************)
LEMMA LockStep ==
  ASSUME NEW f \in Flow, NEW k \in Key
  PROVE  PortalInv /\ [PortalNext]_portalVars /\ Locks(f, k) => Locks(f, k)' \/ Unlocked(k)'
<1> SUFFICES ASSUME PortalInv, [PortalNext]_portalVars, Locks(f, k), ~Locks(f, k)'
             PROVE  Unlocked(k)'
  OBVIOUS
<1>t. /\ flow \in [Flow -> FlowRecord] /\ PortalTypeOK
      /\ flow[f].step = "locked" /\ flow[f].key = k
      /\ \A g \in Flow : flow[g].step = "locked" /\ flow[g].key = k => g = f
  BY DEF PortalInv, PortalTypeOK, Locks
<1>1. CASE UNCHANGED <<flow, authorised>>
  BY <1>1, <1>t DEF Locks
<1>2. CASE PortalRestart
  <2>1. \A g \in Flow : flow'[g].step # "locked"
    <3>1. \A g \in Flow : [flow[g] EXCEPT !.step = "done"].step = "done"
      BY <1>t DEF FlowRecord
    <3> QED
      BY <1>2, <3>1 DEF PortalRestart
  <2> QED
    BY <2>1 DEF Unlocked, Locks
<1>3. ASSUME NEW r \in Request, NEW g \in Flow, authorize_handler(r, g) PROVE FALSE
  BY <1>t, <1>3 DEF authorize_handler, Locks
<1>4. ASSUME NEW g \in Flow, Callback(g) \/ SignIn(g) PROVE Unlocked(k)'
  <2>1. PICK new \in FlowRecord : flow' = [flow EXCEPT ![g] = new] /\ Stepped(g, new)
    BY <1>t, <1>4, CallbackSteps
  <2>2. g = f /\ new.step = "done"
    BY <1>t, <2>1 DEF Locks, Stepped
  <2> QED
    BY <1>t, <2>1, <2>2 DEF Unlocked, Locks
<1> QED
  BY <1>1, <1>2, <1>3, <1>4, FlowMoves

LEMMA HeardUnlocks ==
  ASSUME NEW f \in Flow, NEW k \in Key
  PROVE  PortalInv /\ [PortalNext]_portalVars /\ <<HearProvider(f)>>_portalVars /\ Locks(f, k)
           => Unlocked(k)'
<1> SUFFICES ASSUME PortalInv, [PortalNext]_portalVars, HearProvider(f), Locks(f, k)
             PROVE  Unlocked(k)'
  OBVIOUS
<1>1. SignIn(f) /\ PortalTypeOK /\ flow \in [Flow -> FlowRecord]
  BY DEF SignIn, PortalInv, PortalTypeOK
<1>2. PICK new \in FlowRecord : flow' = [flow EXCEPT ![f] = new] /\ Stepped(f, new)
  BY <1>1, CallbackSteps
<1>3. ~Locks(f, k)'
  BY <1>1, <1>2 DEF Locks, Stepped
<1> QED
  BY <1>3, LockStep

(***************************************************************************)
(* Answering a request, deleting its link, giving up a callback and taking *)
(* the row, with the next state as arguments: the steps by which a handler *)
(* or a callback can go on.                                                *)
(***************************************************************************)
WatchTo(s, p, sl) ==
  sl = [x \in Request |-> \E t \in Token : p[x].token = t /\ (seen_live[x] \/ s[t] = "live")]

LeaveTo(r, p) == phase[r] # Session!Free /\ p = [phase EXCEPT ![r] = Session!Free]

UsableIn(n, l, k) ==
  l[k].present /\ l[k].enabled /\ l[k].last_login >= n - MaxSinceLogin

ObserveTo(n, l, q, u) ==
  u = [x \in Request |-> \E k \in Key : q[x].key = k /\ (usable[x] \/ UsableIn(n, l, k))]

FinishTo(r, s, p, n, l, e, d, q, u, fl, ul, sl, au) ==
  /\ LeaveTo(r, p)
  /\ ~unlinking[r].waits
  /\ s = status /\ n = now /\ l = links /\ e = expiration /\ d = delegations
  /\ fl = flow /\ ul = unlinking
  /\ IF request[r].pc = "idle"
       THEN q = request /\ u = usable
       ELSE q = [request EXCEPT ![r] = Idle] /\ ObserveTo(n, l, q, u)
  /\ WatchTo(s, p, sl)
  /\ au = authorised

DeleteLinkTo(r, s, p, n, l, e, d, q, u, fl, ul, sl, au) ==
  /\ unlinking[r].waits
  /\ Unlocked(unlinking[r].key)
  /\ LeaveTo(r, p)
  /\ s = status /\ n = now /\ e = expiration /\ d = delegations /\ q = request /\ fl = flow
  /\ IF unlinking[r].key = NoKey
       THEN l = links /\ u = usable
       ELSE /\ links[unlinking[r].key].present
            /\ l = [links EXCEPT ![unlinking[r].key] = NoLink]
            /\ ObserveTo(n, l, q, u)
  /\ ul = UnlinksOf(r, unlinking[r].key)
  /\ WatchTo(s, p, sl)
  /\ au = authorised

StepTo(f, step, s, p, n, l, e, d, q, u, fl, ul, sl, au) ==
  /\ fl = [flow EXCEPT ![f] = [flow[f] EXCEPT !.step = step]]
  /\ s = status /\ p = phase /\ n = now /\ l = links /\ e = expiration /\ d = delegations
  /\ q = request /\ u = usable /\ ul = unlinking
  /\ WatchTo(s, p, sl)
  /\ au = authorised

Changes(s, p, n, l, e, d, q, u, fl, ul, sl, au) ==
  <<s, p, n, l, e, d, q, u, fl, ul, sl, au>> # portalVars

ProceedIsPossible(r) ==
  \E s, p, n, l, e, d, q, u, fl, ul, sl, au :
    /\ \/ FinishTo(r, s, p, n, l, e, d, q, u, fl, ul, sl, au)
       \/ DeleteLinkTo(r, s, p, n, l, e, d, q, u, fl, ul, sl, au)
    /\ Changes(s, p, n, l, e, d, q, u, fl, ul, sl, au)
LinkFailsIsPossible(f) ==
  /\ AsksProvider(f)
  /\ \E s, p, n, l, e, d, q, u, fl, ul, sl, au :
       /\ StepTo(f, "done", s, p, n, l, e, d, q, u, fl, ul, sl, au)
       /\ Changes(s, p, n, l, e, d, q, u, fl, ul, sl, au)
TakeRowIsPossible(f) ==
  /\ flow[f].step = "verified" /\ Unlocked(flow[f].key)
  /\ \E s, p, n, l, e, d, q, u, fl, ul, sl, au :
       /\ StepTo(f, "locked", s, p, n, l, e, d, q, u, fl, ul, sl, au)
       /\ Changes(s, p, n, l, e, d, q, u, fl, ul, sl, au)

(* That these are the steps. *)
LEMMA UsableThen == \A k : Usable(k)' <=> UsableIn(now', links', k)
BY DEF Usable, UsableIn

LEMMA ObserveIs == Observe <=> ObserveTo(now', links', request', usable')
<1>1. [r \in Request |-> \E k \in Key : request'[r].key = k /\ (usable[r] \/ Usable(k)')]
        = [r \in Request |->
             \E k \in Key : request'[r].key = k /\ (usable[r] \/ UsableIn(now', links', k))]
  BY UsableThen
<1> QED
  BY <1>1 DEF Observe, ObserveTo

LEMMA StepOfFinish ==
  ASSUME NEW r
  PROVE  Finish(r) <=> FinishTo(r, status', phase', now', links', expiration', delegations',
                                request', usable', flow', unlinking', seen_live', authorised')
BY ObserveIs DEF Finish, FinishTo, Leave, LeaveTo, DelegationsStay, LinkingStays, Done, Witnessed,
                 Watch, WatchTo

LEMMA StepOfDeleteLink ==
  ASSUME NEW r
  PROVE  DeleteLink(r) <=> DeleteLinkTo(r, status', phase', now', links', expiration',
                                        delegations', request', usable', flow', unlinking',
                                        seen_live', authorised')
BY ObserveIs DEF DeleteLink, DeleteLinkTo, Leave, LeaveTo, DelegationsStay, Unlink, Remove,
                 Elsewhere, Witnessed, Watch, WatchTo

LEMMA StepOfLinkFails ==
  ASSUME NEW f, AsksProvider(f)
  PROVE  LinkFails(f) <=> StepTo(f, "done", status', phase', now', links', expiration',
                                 delegations', request', usable', flow', unlinking', seen_live',
                                 authorised')
BY DEF AsksProvider, LinkFails, Step, StepTo, SessionsStay, DelegationsStay, Witnessed, Watch, WatchTo

LEMMA StepOfTakeRow ==
  ASSUME NEW f, flow[f].step = "verified", Unlocked(flow[f].key)
  PROVE  TakeRow(f) <=> StepTo(f, "locked", status', phase', now', links', expiration',
                               delegations', request', usable', flow', unlinking', seen_live',
                               authorised')
BY DEF TakeRow, Step, StepTo, SessionsStay, DelegationsStay, Witnessed, Watch, WatchTo

(* Unless it waits for a locked row, a request can be answered. *)
LEMMA RequestCanEnd ==
  ASSUME PortalInv, NEW r \in Request, ~Out(r), Waits(r) => Unlocked(unlinking[r].key)
  PROVE  ProceedIsPossible(r)
<1> DEFINE k == unlinking[r].key
           deletes == unlinking[r].waits /\ k # NoKey
           p == [phase EXCEPT ![r] = Session!Free]
           l == IF deletes THEN [links EXCEPT ![k] = NoLink] ELSE links
           ul == IF unlinking[r].waits THEN UnlinksOf(r, k) ELSE unlinking
           q == IF request[r].pc = "idle" THEN request ELSE [request EXCEPT ![r] = Idle]
           u == IF deletes \/ request[r].pc # "idle"
                  THEN [x \in Request |->
                          \E y \in Key : q[x].key = y /\ (usable[x] \/ UsableIn(now, l, y))]
                  ELSE usable
           sl == [x \in Request |->
                    \E t \in Token : p[x].token = t /\ (seen_live[x] \/ status[t] = "live")]
<1>1. phase[r] # Session!Free
  BY DEF Out, Session!Free
<1>2. phase \in [Request -> PhaseRecord] /\ unlinking[r].waits \in BOOLEAN
  BY DEF PortalInv, PortalTypeOK, PhaseRecord, UnlinkRecord
<1>3. p # phase
  BY <1>1, <1>2
<1>4. Changes(status, p, now, l, expiration, delegations, q, u, flow, ul, sl, authorised)
  BY <1>3 DEF Changes, portalVars
<1>5. CASE ~unlinking[r].waits
  <2>1. FinishTo(r, status, p, now, l, expiration, delegations, q, u, flow, ul, sl, authorised)
    BY <1>1, <1>5 DEF FinishTo, LeaveTo, WatchTo, ObserveTo
  <2> HIDE DEF p, l, ul, q, u, sl, k, deletes
  <2> QED
    BY <1>4, <2>1 DEF ProceedIsPossible
<1>6. CASE unlinking[r].waits
  <2>1. request[r].pc = "idle" /\ (k # NoKey => links[k].present) /\ Unlocked(k)
    BY <1>6 DEF PortalInv, PortalTypeOK, Waits
  <2>2. DeleteLinkTo(r, status, p, now, l, expiration, delegations, q, u, flow, ul, sl, authorised)
    BY <1>1, <1>6, <2>1 DEF DeleteLinkTo, LeaveTo, WatchTo, ObserveTo
  <2> HIDE DEF p, l, ul, q, u, sl, k, deletes
  <2> QED
    BY <1>4, <2>2 DEF ProceedIsPossible
<1> QED
  BY <1>2, <1>5, <1>6

LEMMA FlowCanStep ==
  ASSUME PortalInv, NEW f \in Flow, NEW step, flow[f].step # step
  PROVE  \E s, p, n, l, e, d, q, u, fl, ul, sl, au :
           /\ StepTo(f, step, s, p, n, l, e, d, q, u, fl, ul, sl, au)
           /\ Changes(s, p, n, l, e, d, q, u, fl, ul, sl, au)
<1> DEFINE fl == [flow EXCEPT ![f] = [flow[f] EXCEPT !.step = step]]
           sl == [x \in Request |->
                    \E t \in Token : phase[x].token = t /\ (seen_live[x] \/ status[t] = "live")]
<1>1. fl[f].step = step
  BY DEF PortalInv, PortalTypeOK, FlowRecord
<1>2. fl # flow
  BY <1>1
<1>3. StepTo(f, step, status, phase, now, links, expiration, delegations, request, usable, fl,
             unlinking, sl, authorised)
  BY DEF StepTo, WatchTo
<1>4. Changes(status, phase, now, links, expiration, delegations, request, usable, fl, unlinking,
              sl, authorised)
  BY <1>2 DEF Changes, portalVars
<1> HIDE DEF fl, sl
<1> QED
  BY <1>3, <1>4

(* Once its provider has answered, a callback can go on, as it can once    *)
(* nobody locks its row.                                                   *)
LEMMA CallbackCanGoOn ==
  ASSUME PortalInv, NEW f \in Flow
  PROVE  /\ AsksProvider(f) => LinkFailsIsPossible(f)
         /\ flow[f].step = "verified" /\ Unlocked(flow[f].key) => TakeRowIsPossible(f)
<1>1. ASSUME AsksProvider(f) PROVE LinkFailsIsPossible(f)
  <2>1. flow[f].step # "done"
    BY <1>1 DEF AsksProvider
  <2> QED
    BY <1>1, <2>1, FlowCanStep DEF LinkFailsIsPossible
<1>2. ASSUME flow[f].step = "verified", Unlocked(flow[f].key) PROVE TakeRowIsPossible(f)
  <2>1. flow[f].step # "locked"
    BY <1>2
  <2> QED
    BY <1>2, <2>1, FlowCanStep DEF TakeRowIsPossible
<1> QED
  BY <1>1, <1>2

(***************************************************************************)
(* What follows from the meaning of ENABLED, by which it holds in every    *)
(* state of every behaviour: an action can be taken if one of its disjuncts*)
(* can.  The provers do not know that meaning, so it is a hypothesis.      *)
(***************************************************************************)
EnabledIfPossible ==
  /\ \A r \in Request : ProceedIsPossible(r) => ENABLED <<Proceed(r)>>_portalVars
  /\ \A f \in Flow :
       /\ LinkFailsIsPossible(f) => ENABLED <<HearProvider(f)>>_portalVars
       /\ TakeRowIsPossible(f) => ENABLED <<TakeRow(f)>>_portalVars

-------------------------------------------------------------------------------
(* If providers answer, a row that is locked is unlocked in the end. *)
Frees(k) == []<>Unlocked(k)
LetsGo(f, k) == [](Locks(f, k) => <>Unlocked(k))

LEMMA LocksEnd ==
  ASSUME NEW k \in Key
  PROVE  PortalFairSpec /\ ProvidersAnswer /\ []EnabledIfPossible => Frees(k)
<1>1. ASSUME NEW f \in Flow
      PROVE  PortalFairSpec /\ ProvidersAnswer /\ []EnabledIfPossible => LetsGo(f, k)
  <2>1. PortalInv /\ EnabledIfPossible /\ Locks(f, k) => ENABLED <<HearProvider(f)>>_portalVars
    BY CallbackCanGoOn DEF EnabledIfPossible, Locks, AsksProvider
  <2>2. PortalInv /\ [PortalNext]_portalVars /\ Locks(f, k) => Locks(f, k)' \/ Unlocked(k)'
    BY LockStep
  <2>3. PortalInv /\ [PortalNext]_portalVars /\ <<HearProvider(f)>>_portalVars /\ Locks(f, k)
          => Unlocked(k)'
    BY HeardUnlocks
  <2>4. ProvidersAnswer => IsAnswered(f)
    BY DEF ProvidersAnswer
  <2> QED
    BY <2>1, <2>2, <2>3, <2>4, PortalInvariance, PTL
       DEF PortalFairSpec, PortalSpec, IsAnswered, LetsGo
<1>2. (\A f \in Flow : LetsGo(f, k)) => []((\E f \in Flow : Locks(f, k)) => <>Unlocked(k))
  <2>1. (\A f \in Flow : LetsGo(f, k)) => [](\A f \in Flow : Locks(f, k) => <>Unlocked(k))
    BY DEF LetsGo
  <2>2. (\A f \in Flow : Locks(f, k) => <>Unlocked(k))
          => ((\E f \in Flow : Locks(f, k)) => <>Unlocked(k))
    OBVIOUS
  <2> QED
    BY <2>1, <2>2, PTL
<1>3. Unlocked(k) \/ \E f \in Flow : Locks(f, k)
  BY DEF Unlocked
<1>4. PortalFairSpec /\ ProvidersAnswer /\ []EnabledIfPossible => \A f \in Flow : LetsGo(f, k)
  BY <1>1
<1> QED
  BY <1>2, <1>3, <1>4, PTL DEF Frees

(* A delete waits for one row, or for none. *)
WaitsFor(r, k) == unlinking[r].waits /\ unlinking[r].key = k
WaitsForNone(r) == unlinking[r].waits /\ unlinking[r].key = NoKey
Released(r, k) == [](WaitsFor(r, k) => <>(~Waits(r) \/ WaitsForNone(r)))
WaitEnds(r) == [](Waits(r) => <>~Waits(r))

LEMMA WaitingStep ==
  ASSUME NEW r \in Request
  PROVE  PortalInv /\ [PortalNext]_portalVars =>
           /\ Waits(r) => Waits(r)' \/ Out(r)'
           /\ WaitsForNone(r) => WaitsForNone(r)' \/ ~Waits(r)'
           /\ \A k \in Key : WaitsFor(r, k) => WaitsFor(r, k)' \/ WaitsForNone(r)' \/ ~Waits(r)'
<1> SUFFICES ASSUME PortalInv, [PortalNext]_portalVars, Waits(r)
             PROVE  /\ Waits(r)' \/ Out(r)'
                    /\ WaitsForNone(r) => WaitsForNone(r)' \/ ~Waits(r)'
                    /\ \A k \in Key :
                         WaitsFor(r, k) => WaitsFor(r, k)' \/ WaitsForNone(r)' \/ ~Waits(r)'
  BY DEF Waits, WaitsFor, WaitsForNone
<1>t. /\ PortalTypeOK /\ unlinking[r].waits
      /\ unlinking \in [Request -> UnlinkRecord] /\ phase \in [Request -> PhaseRecord]
  BY DEF PortalInv, PortalTypeOK, Waits, PhaseRecord
<1>1. CASE unlinking'[r].waits /\ unlinking'[r].key \in {unlinking[r].key, NoKey}
  BY <1>t, <1>1 DEF Waits, WaitsFor, WaitsForNone
<1>2. CASE unlinking'[r] = NotUnlinking
  <2>1. ~Waits(r)'
    BY <1>2 DEF Waits, NotUnlinking
  <2>2. CASE PortalRestart
    BY <2>1, <2>2 DEF PortalRestart, Session!Abandon, Session!Free, Out
  <2>3. CASE UNCHANGED unlinking
    BY <1>t, <2>1, <2>3 DEF Waits
  <2>4. ASSUME NEW q \in Request, UnlinkMove(q) PROVE Out(r)'
    <3>1. CASE q = r
      <4>1. Leave(r)
        BY <1>t, <2>4, <3>1, UnlinkKeepsRequests DEF UnlinkMove, unlink_resource_provider, Begin
      <4> QED
        BY <1>t, <4>1 DEF Leave, Out, Session!Free
    <3>2. CASE q # r
      <4>1. [unlinking[r] EXCEPT !.key = NoKey].waits
        BY <1>t DEF UnlinkRecord
      <4>2. unlinking'[r] \in {unlinking[r], [unlinking[r] EXCEPT !.key = NoKey]}
        BY <1>t, <2>4, <3>2
        DEF UnlinkMove, unlink_resource_provider, DeleteLink, UnlinksOf, AbandonUnlink
      <4> QED
        BY <1>t, <2>1, <4>1, <4>2 DEF Waits
    <3> QED
      BY <3>1, <3>2
  <2> QED
    BY <2>1, <2>2, <2>3, <2>4, UnlinkMoves
<1> QED
  BY <1>t, <1>1, <1>2, WaitingStays

LEMMA DeletesEnd ==
  ASSUME NEW r \in Request
  PROVE  PortalFairSpec /\ ProvidersAnswer /\ []EnabledIfPossible => WaitEnds(r)
<1>1. PortalFairSpec => IsHandled(r)
  BY DEF PortalFairSpec
<1>2. PortalInv /\ <<Proceed(r)>>_portalVars => (Waits(r) => Out(r)')
  BY ProceedAdvances
<1>3. PortalInv => (Waits(r) => ~Out(r))
  BY StagesOfARequest
<1>4. ASSUME NEW k \in Key
      PROVE  PortalFairSpec /\ ProvidersAnswer /\ []EnabledIfPossible => Released(r, k)
  <2>1. PortalInv /\ EnabledIfPossible /\ WaitsFor(r, k) /\ Unlocked(k)
          => ENABLED <<Proceed(r)>>_portalVars
    <3> SUFFICES ASSUME PortalInv, EnabledIfPossible, WaitsFor(r, k), Unlocked(k)
                 PROVE  ProceedIsPossible(r)
      BY DEF EnabledIfPossible
    <3>1. ~Out(r) /\ Unlocked(unlinking[r].key)
      BY StagesOfARequest DEF WaitsFor, Waits
    <3> QED
      BY <3>1, RequestCanEnd
  <2>2. PortalInv /\ [PortalNext]_portalVars /\ WaitsFor(r, k)
          => WaitsFor(r, k)' \/ WaitsForNone(r)' \/ ~Waits(r)'
    BY WaitingStep
  <2>3. PortalFairSpec /\ ProvidersAnswer /\ []EnabledIfPossible => Frees(k)
    BY LocksEnd
  <2>4. PortalInv /\ [PortalNext]_portalVars /\ Waits(r) => Waits(r)' \/ Out(r)'
    BY WaitingStep
  <2>5. WaitsFor(r, k) => Waits(r)
    BY DEF WaitsFor, Waits
  <2> QED
    BY <1>1, <1>2, <1>3, <2>1, <2>2, <2>3, <2>4, <2>5, PortalInvariance, PTL
       DEF PortalFairSpec, PortalSpec, IsHandled, Frees, Released
<1>5. PortalInv /\ EnabledIfPossible /\ WaitsForNone(r) => ENABLED <<Proceed(r)>>_portalVars
  <2> SUFFICES ASSUME PortalInv, EnabledIfPossible, WaitsForNone(r)
               PROVE  ProceedIsPossible(r)
    BY DEF EnabledIfPossible
  <2>1. Unlocked(NoKey)
    BY DelegationAssumption DEF PortalInv, PortalTypeOK, Unlocked, Locks
  <2>2. ~Out(r) /\ Unlocked(unlinking[r].key)
    BY <2>1, StagesOfARequest DEF WaitsForNone, Waits
  <2> QED
    BY <2>2, RequestCanEnd
<1>6. PortalInv /\ [PortalNext]_portalVars /\ WaitsForNone(r) => WaitsForNone(r)' \/ ~Waits(r)'
  BY WaitingStep
<1>7. (\A k \in Key : Released(r, k))
        => []((\E k \in Key : WaitsFor(r, k)) => <>(~Waits(r) \/ WaitsForNone(r)))
  <2>1. (\A k \in Key : Released(r, k))
          => [](\A k \in Key : WaitsFor(r, k) => <>(~Waits(r) \/ WaitsForNone(r)))
    BY DEF Released
  <2>2. (\A k \in Key : WaitsFor(r, k) => <>(~Waits(r) \/ WaitsForNone(r)))
          => ((\E k \in Key : WaitsFor(r, k)) => <>(~Waits(r) \/ WaitsForNone(r)))
    OBVIOUS
  <2> QED
    BY <2>1, <2>2, PTL
<1>8. PortalInv => (Waits(r) => WaitsForNone(r) \/ \E k \in Key : WaitsFor(r, k))
  BY DEF PortalInv, PortalTypeOK, UnlinkRecord, Waits, WaitsFor, WaitsForNone
<1>9. WaitsForNone(r) => Waits(r)
  BY DEF WaitsForNone, Waits
<1>10. PortalFairSpec /\ ProvidersAnswer /\ []EnabledIfPossible => \A k \in Key : Released(r, k)
  BY <1>4
<1> QED
  BY <1>1, <1>2, <1>3, <1>5, <1>6, <1>7, <1>8, <1>9, <1>10, PortalInvariance, PTL
     DEF PortalFairSpec, PortalSpec, IsHandled, WaitEnds

Ends(r) == ~Out(r) ~> Out(r)

(* If providers answer, an accepted request always ends: its handler goes  *)
(* on, and a delete gets the row that a callback has locked.               *)
THEOREM AcceptedRequestsEnd ==
  PortalFairSpec /\ ProvidersAnswer /\ []EnabledIfPossible => \A r \in Request : Ends(r)
<1>1. ASSUME NEW r \in Request
      PROVE  PortalFairSpec /\ ProvidersAnswer /\ []EnabledIfPossible => Ends(r)
  <2>1. PortalInv /\ EnabledIfPossible /\ ~Out(r) /\ ~Waits(r) => ENABLED <<Proceed(r)>>_portalVars
    BY RequestCanEnd DEF EnabledIfPossible
  <2>2. PortalInv =>
          /\ ~Out(r) => \/ Judged(r) \/ Works(r, {"idle"}) \/ Works(r, {"add"})
                        \/ Works(r, {"recent"}) \/ Answered(r) \/ Waits(r)
          /\ Judged(r) \/ Works(r, {"idle"}) \/ Works(r, {"add"}) \/ Works(r, {"recent"})
               \/ Answered(r) => ~Waits(r)
    <3>1. PortalInv => (Judged(r) => ~Waits(r))
      BY StagesOfARequest DEF Judged, Admitted
    <3>2. Works(r, {"idle"}) \/ Works(r, {"add"}) \/ Works(r, {"recent"}) \/ Answered(r) => ~Waits(r)
      BY DEF Works, Answered, Waits
    <3> QED
      BY <3>1, <3>2, StagesOfARequest
  <2>3. PortalInv /\ <<Proceed(r)>>_portalVars =>
          /\ Works(r, {"add"}) => Works(r, {"recent"})' \/ Answered(r)' \/ Out(r)'
          /\ Works(r, {"recent"}) => Answered(r)' \/ Out(r)'
          /\ Judged(r) \/ Works(r, {"idle"}) \/ Answered(r) \/ Waits(r) => Out(r)'
    BY ProceedAdvances
  <2>4. PortalFairSpec => IsHandled(r)
    BY DEF PortalFairSpec
  <2>5. PortalInv /\ [PortalNext]_portalVars =>
           /\ Judged(r) => Judged(r)' \/ Works(r, {"idle"})' \/ Out(r)'
           /\ Works(r, {"idle"}) =>
                Works(r, {"idle"})' \/ Works(r, {"add"})' \/ Answered(r)' \/ Waits(r)' \/ Out(r)'
           /\ Works(r, {"add"}) =>
                Works(r, {"add"})' \/ Works(r, {"recent"})' \/ Answered(r)' \/ Out(r)'
           /\ Works(r, {"recent"}) => Works(r, {"recent"})' \/ Answered(r)' \/ Out(r)'
           /\ Answered(r) => Answered(r)' \/ Out(r)'
    BY StageStep
  <2>6. PortalInv /\ [PortalNext]_portalVars => (Waits(r) => Waits(r)' \/ Out(r)')
    BY WaitingStep
  <2>7. PortalFairSpec /\ ProvidersAnswer /\ []EnabledIfPossible => WaitEnds(r)
    BY DeletesEnd
  <2>8. PortalInv => (~Out(r) \/ ~Waits(r))
    BY StagesOfARequest
  <2> DEFINE Premise == PortalFairSpec /\ ProvidersAnswer /\ []EnabledIfPossible
  <2>9. Premise => [](Answered(r) \/ Works(r, {"recent"}) => <>(Out(r)))
    BY <2>1, <2>2, <2>3, <2>4, <2>5, PortalInvariance, PTL DEF PortalFairSpec, PortalSpec, IsHandled
  <2>10. Premise => [](Works(r, {"add"}) \/ Waits(r) => <>(Out(r)))
    BY <2>1, <2>2, <2>3, <2>4, <2>5, <2>6, <2>7, <2>8, <2>9, PortalInvariance, PTL
       DEF PortalFairSpec, PortalSpec, IsHandled, WaitEnds
  <2>11. Premise => [](Works(r, {"idle"}) \/ Judged(r) => <>(Out(r)))
    BY <2>1, <2>2, <2>3, <2>4, <2>5, <2>9, <2>10, PortalInvariance, PTL
       DEF PortalFairSpec, PortalSpec, IsHandled
  <2> QED
    BY <2>2, <2>9, <2>10, <2>11, PortalInvariance, PTL DEF PortalFairSpec, PortalSpec, Ends
<1> QED
  BY <1>1

-------------------------------------------------------------------------------
(***************************************************************************)
(* What LogoutTakesHold says, of one request and of one sign-in.           *)
(***************************************************************************)
LoggedOut(u) == \A t \in Token : ContextOf[t].tms_identity = u => status[t] # "live"
BusyFor(r, u) == ~Out(r) /\ Caller(r) = u

(* Without a live token of u, no request becomes one of u. *)
LEMMA NoneIsAccepted ==
  ASSUME NEW u, NEW r \in Request
  PROVE  PortalInv /\ LoggedOut(u) /\ ~BusyFor(r, u) /\ [PortalNext]_portalVars => ~BusyFor(r, u)'
<1> SUFFICES ASSUME PortalInv, LoggedOut(u), ~BusyFor(r, u), [PortalNext]_portalVars, BusyFor(r, u)'
             PROVE  FALSE
  OBVIOUS
<1>t. /\ PortalTypeOK /\ phase \in [Request -> PhaseRecord]
      /\ phase[r].step # "free" => phase[r].token \in Token
  BY DEF PortalInv, PortalTypeOK, PhaseRecord
<1> USE DEF BusyFor, Out, Caller
<1>1. phase'[r] # phase[r]
  OBVIOUS
<1>2. PICK step \in {"judged", "admitted"} :
        /\ phase' = [phase EXCEPT ![r] = [phase[r] EXCEPT !.step = step]]
        /\ Session!Judge(r) \/ Session!Admit(r)
  BY <1>t, <1>1, SlotStep DEF Session!Judge, Session!Admit
<1>3. [phase[r] EXCEPT !.step = step].token = phase[r].token
  BY <1>t DEF PhaseRecord
<1>4. phase'[r].token = phase[r].token
  BY <1>t, <1>2, <1>3
<1>5. CASE Session!Judge(r)
  BY <1>t, <1>4, <1>5 DEF Session!Judge, LoggedOut
<1>6. CASE Session!Admit(r)
  BY <1>4, <1>6 DEF Session!Admit
<1> QED
  BY <1>2, <1>5, <1>6

RestsOnLogout(r, u) == <>[]LoggedOut(u) => <>[]~BusyFor(r, u)

(* If providers answer: once a user's tokens are dead for good, each       *)
(* request that acts for the user ends, and none is accepted in its slot.  *)
THEOREM LastRequestsEnd ==
  PortalFairSpec /\ ProvidersAnswer /\ []EnabledIfPossible =>
    \A u \in Identity : \A r \in Request : RestsOnLogout(r, u)
<1>1. ASSUME NEW u \in Identity, NEW r \in Request
      PROVE  PortalFairSpec /\ ProvidersAnswer /\ []EnabledIfPossible => RestsOnLogout(r, u)
  <2>1. Out(r) => ~BusyFor(r, u)
    BY DEF BusyFor
  <2>2. PortalFairSpec /\ ProvidersAnswer /\ []EnabledIfPossible => Ends(r)
    BY AcceptedRequestsEnd
  <2>3. PortalInv /\ LoggedOut(u) /\ ~BusyFor(r, u) /\ [PortalNext]_portalVars
          => ~BusyFor(r, u)'
    BY NoneIsAccepted
  <2> QED
    BY <2>1, <2>2, <2>3, PortalInvariance, PTL
       DEF PortalFairSpec, PortalSpec, Ends, RestsOnLogout
<1> QED
  BY <1>1

-------------------------------------------------------------------------------
(***************************************************************************)
(* How a sign-in goes on: it begins, its callback is accepted and goes     *)
(* from step to step, or ends.                                             *)
(***************************************************************************)
New(f) == flow[f].step = "new"
Exchanged(f) == flow[f].step = "exchanged"
Verified(f) == flow[f].step = "verified"
HasLocked(f) == flow[f].step = "locked"
VerifiedFor(f, k) == Verified(f) /\ flow[f].key = k
BegunUntil(f, n) == ~New(f) /\ flow[f].exp = n
Past(n) == now > n
Moment == {n \in Nat : n < MaxTime}

LEMMA SignInStep ==
  ASSUME PortalInv, [PortalNext]_portalVars, NEW f \in Flow
  PROVE  \/ flow'[f] = flow[f]
         \/ /\ New(f) /\ now + StateTtl < MaxTime
            /\ flow'[f].step = "at_provider" /\ flow'[f].exp = now + StateTtl
         \/ /\ ~New(f) /\ flow'[f].exp = flow[f].exp
            /\ \/ Stepped(f, flow'[f])
               \/ AtWork(f) /\ flow'[f].step = "done"
<1> DEFINE Goal == \/ flow'[f] = flow[f]
                   \/ /\ New(f) /\ now + StateTtl < MaxTime
                      /\ flow'[f].step = "at_provider" /\ flow'[f].exp = now + StateTtl
                   \/ /\ ~New(f) /\ flow'[f].exp = flow[f].exp
                      /\ \/ Stepped(f, flow'[f])
                         \/ AtWork(f) /\ flow'[f].step = "done"
<1>t. flow \in [Flow -> FlowRecord] /\ flow[f] \in FlowRecord /\ PortalTypeOK
  BY DEF PortalInv, PortalTypeOK
<1>1. CASE UNCHANGED <<flow, authorised>>
  BY <1>1
<1>2. ASSUME NEW r \in Request, NEW g \in Flow, authorize_handler(r, g) PROVE Goal
  BY <1>t, <1>2 DEF authorize_handler, New
<1>3. ASSUME NEW g \in Flow, Callback(g) \/ SignIn(g) PROVE Goal
  <2>1. PICK new \in FlowRecord :
          flow' = [flow EXCEPT ![g] = new] /\ new.exp = flow[g].exp /\ Stepped(g, new)
    BY <1>t, <1>3, CallbackSteps
  <2>2. CASE g # f
    BY <1>t, <2>1, <2>2
  <2>3. CASE g = f
    <3>1. flow'[f] = new
      BY <1>t, <2>1, <2>3
    <3>2. ~New(f)
      BY <2>1, <2>3 DEF Stepped, New
    <3> QED
      BY <2>1, <2>3, <3>1, <3>2
  <2> QED
    BY <2>2, <2>3
<1>4. CASE PortalRestart
  <2>1. /\ [flow[f] EXCEPT !.step = "done"].step = "done"
        /\ [flow[f] EXCEPT !.step = "done"].exp = flow[f].exp
    BY <1>t DEF FlowRecord
  <2>2. flow'[f] = IF AtWork(f) THEN [flow[f] EXCEPT !.step = "done"] ELSE flow[f]
    BY <1>4 DEF PortalRestart, AtWork
  <2>3. AtWork(f) => ~New(f)
    BY DEF AtWork, New
  <2> QED
    BY <2>1, <2>2, <2>3
<1> QED
  BY <1>1, <1>2, <1>3, <1>4, FlowMoves

(* The expiry of a sign-in is within reach of the clock, and stays.        *)
LEMMA ExpiryStays ==
  ASSUME NEW f \in Flow, NEW n \in Moment
  PROVE  PortalInv /\ [PortalNext]_portalVars /\ BegunUntil(f, n) => BegunUntil(f, n)'
BY SignInStep DEF BegunUntil, New, Stepped

LEMMA ExpiryIsSet ==
  ASSUME NEW f \in Flow
  PROVE  PortalInv /\ [PortalNext]_portalVars /\ New(f) =>
           New(f)' \/ (\E n \in Moment : BegunUntil(f, n))'
<1> SUFFICES ASSUME PortalInv, [PortalNext]_portalVars, New(f), ~New(f)'
             PROVE  (\E n \in Moment : BegunUntil(f, n))'
  OBVIOUS
<1>1. now + StateTtl \in Moment /\ flow'[f].exp = now + StateTtl
  BY SignInStep, PortalAssumption, DelegationAssumption
  DEF New, Moment, PortalInv, PortalTypeOK, TypeOK
<1>2. PICK n \in Moment : n = now + StateTtl
  BY <1>1
<1>3. BegunUntil(f, n)'
  BY <1>1, <1>2 DEF BegunUntil
<1> QED
  BY <1>3

LEMMA TimeGoesOn ==
  ASSUME NEW n \in Moment
  PROVE  PortalInv /\ [PortalNext]_portalVars /\ Past(n) => Past(n)'
<1> SUFFICES ASSUME PortalInv, [PortalNext]_portalVars, Past(n) PROVE Past(n)'
  OBVIOUS
<1>1. now \in Nat /\ [Next]_vars
  BY DelegationsStep DEF PortalInv, PortalTypeOK, TypeOK
<1>2. now' \in {now, now + 1}
  BY <1>1 DEF Next, vars, RequestStep, add_delegation, ensure_recent_rp_login, CommitDelegation, get_delegations,
              delete_delegation, Done, Restart, RecordLogin, Record, Unlink, Remove, DisableLink,
              Disable, Tick, LinkTick
<1> QED
  BY <1>1, <1>2 DEF Past, Moment

(* Past its expiry, a sign-in is not taken up any more. *)
LEMMA LateCallbackIsRefused ==
  ASSUME NEW f \in Flow, NEW n \in Moment
  PROVE  PortalInv /\ [PortalNext]_portalVars /\ BegunUntil(f, n) /\ Past(n) /\ ~AtWork(f)
           => ~AtWork(f)'
<1> SUFFICES ASSUME PortalInv, [PortalNext]_portalVars, BegunUntil(f, n), Past(n), ~AtWork(f)
             PROVE  ~AtWork(f)'
  OBVIOUS
<1>1. now \in Nat /\ n \in Nat
  BY DEF PortalInv, PortalTypeOK, TypeOK, Moment
<1>2. ~Stepped(f, flow'[f]) /\ ~New(f)
  BY <1>1 DEF Stepped, AtWork, BegunUntil, Past
<1> QED
  BY <1>2, SignInStep DEF AtWork

(* The steps of a callback lead to its end. *)
LEMMA CallbackStages ==
  ASSUME NEW f \in Flow
  PROVE  PortalInv /\ [PortalNext]_portalVars =>
           /\ Exchanged(f) => Exchanged(f)' \/ Verified(f)' \/ ~AtWork(f)'
           /\ HasLocked(f) => HasLocked(f)' \/ ~AtWork(f)'
           /\ \A k \in Key : VerifiedFor(f, k) => VerifiedFor(f, k)' \/ HasLocked(f)' \/ ~AtWork(f)'
BY SignInStep DEF Stepped, Exchanged, Verified, HasLocked, VerifiedFor, AtWork, New

LEMMA HeardGoesOn ==
  ASSUME NEW f \in Flow
  PROVE  PortalInv /\ [PortalNext]_portalVars /\ <<HearProvider(f)>>_portalVars =>
           /\ Exchanged(f) => ~Exchanged(f)'
           /\ HasLocked(f) => ~HasLocked(f)'
<1> SUFFICES ASSUME PortalInv, HearProvider(f)
             PROVE  flow'[f].step # flow[f].step
  BY DEF Exchanged, HasLocked
<1>1. SignIn(f) /\ PortalTypeOK /\ flow \in [Flow -> FlowRecord]
  BY DEF SignIn, PortalInv, PortalTypeOK
<1>2. PICK new \in FlowRecord : flow' = [flow EXCEPT ![f] = new] /\ Stepped(f, new)
  BY <1>1, CallbackSteps
<1> QED
  BY <1>1, <1>2 DEF Stepped

LEMMA TakesRow ==
  ASSUME NEW f \in Flow
  PROVE  PortalInv /\ <<TakeRow(f)>>_portalVars => ~Verified(f)'
<1> SUFFICES ASSUME PortalInv, TakeRow(f) PROVE ~Verified(f)'
  OBVIOUS
<1>1. /\ flow \in [Flow -> FlowRecord]
      /\ flow' = [flow EXCEPT ![f] = [flow[f] EXCEPT !.step = "locked"]]
  BY DEF TakeRow, Step, PortalInv, PortalTypeOK
<1>2. [flow[f] EXCEPT !.step = "locked"].step = "locked"
  BY <1>1 DEF FlowRecord
<1> QED
  BY <1>1, <1>2 DEF Verified

Takes(f, k) == [](VerifiedFor(f, k) => <>~Verified(f))
Settles(f) == [](AtWork(f) => <>~AtWork(f))

(* If providers answer, a callback at work ends: it gets their answers,    *)
(* and its row from whoever has locked it.                                 *)
LEMMA CallbacksEnd ==
  ASSUME NEW f \in Flow
  PROVE  PortalFairSpec /\ ProvidersAnswer /\ []EnabledIfPossible => Settles(f)
<1> DEFINE Premise == PortalFairSpec /\ ProvidersAnswer /\ []EnabledIfPossible
<1>1. PortalInv /\ EnabledIfPossible /\ (Exchanged(f) \/ HasLocked(f))
        => ENABLED <<HearProvider(f)>>_portalVars
  BY CallbackCanGoOn DEF EnabledIfPossible, AsksProvider, Exchanged, HasLocked
<1>2. PortalInv /\ [PortalNext]_portalVars =>
        /\ Exchanged(f) => Exchanged(f)' \/ Verified(f)' \/ ~AtWork(f)'
        /\ HasLocked(f) => HasLocked(f)' \/ ~AtWork(f)'
  BY CallbackStages
<1>3. PortalInv /\ [PortalNext]_portalVars /\ <<HearProvider(f)>>_portalVars =>
        /\ Exchanged(f) => ~Exchanged(f)'
        /\ HasLocked(f) => ~HasLocked(f)'
  BY HeardGoesOn
<1>4. (ProvidersAnswer => IsAnswered(f)) /\ (PortalFairSpec => GetsItsRow(f))
  BY DEF ProvidersAnswer, PortalFairSpec
<1>5. Premise => []((Exchanged(f) => <>(Verified(f) \/ ~AtWork(f))) /\ (HasLocked(f) => <>~AtWork(f)))
  BY <1>1, <1>2, <1>3, <1>4, PortalInvariance, PTL DEF PortalFairSpec, PortalSpec, IsAnswered
<1>6. ASSUME NEW k \in Key PROVE Premise => Takes(f, k)
  <2>1. PortalInv /\ EnabledIfPossible /\ VerifiedFor(f, k) /\ Unlocked(k)
          => ENABLED <<TakeRow(f)>>_portalVars
    BY CallbackCanGoOn DEF EnabledIfPossible, VerifiedFor, Verified
  <2>2. PortalInv /\ [PortalNext]_portalVars /\ VerifiedFor(f, k)
          => VerifiedFor(f, k)' \/ HasLocked(f)' \/ ~AtWork(f)'
    BY CallbackStages
  <2>3. PortalInv /\ <<TakeRow(f)>>_portalVars => ~Verified(f)'
    BY TakesRow
  <2>4. Premise => Frees(k)
    BY LocksEnd
  <2>5. HasLocked(f) \/ ~AtWork(f) => ~Verified(f)
    BY DEF HasLocked, AtWork, Verified
  <2>6. VerifiedFor(f, k) => Verified(f)
    BY DEF VerifiedFor
  <2> QED
    BY <1>4, <2>1, <2>2, <2>3, <2>4, <2>5, <2>6, PortalInvariance, PTL
       DEF PortalFairSpec, PortalSpec, GetsItsRow, Frees, Takes
<1>7. (\A k \in Key : Takes(f, k)) => []((\E k \in Key : VerifiedFor(f, k)) => <>~Verified(f))
  <2>1. (\A k \in Key : Takes(f, k)) => [](\A k \in Key : VerifiedFor(f, k) => <>~Verified(f))
    BY DEF Takes
  <2>2. (\A k \in Key : VerifiedFor(f, k) => <>~Verified(f))
          => ((\E k \in Key : VerifiedFor(f, k)) => <>~Verified(f))
    OBVIOUS
  <2> QED
    BY <2>1, <2>2, PTL
<1>8. PortalInv => (Verified(f) => \E k \in Key : VerifiedFor(f, k))
  BY DEF PortalInv, PortalTypeOK, Verified, VerifiedFor
<1>9. PortalInv /\ [PortalNext]_portalVars /\ Verified(f) => Verified(f)' \/ HasLocked(f)' \/ ~AtWork(f)'
  BY SignInStep DEF Stepped, Verified, HasLocked, AtWork, New
<1>10. AtWork(f) <=> Exchanged(f) \/ Verified(f) \/ HasLocked(f)
  BY DEF AtWork, Exchanged, Verified, HasLocked
<1>11. Premise => \A k \in Key : Takes(f, k)
  BY <1>6
<1>12. Premise => [](Verified(f) => <>~Verified(f))
  BY <1>7, <1>8, <1>11, PortalInvariance, PTL DEF PortalFairSpec
<1> QED
  BY <1>5, <1>9, <1>10, <1>12, PortalInvariance, PTL DEF PortalFairSpec, PortalSpec, Settles

(* The clock gets past every moment before its horizon: from ClockRuns and *)
(* the step of the clock this is an induction on the time, which is out of *)
(* the provers' reach, so it is a hypothesis.                              *)
Passes(n) == <>Past(n)
TimePasses == \A n \in Moment : Passes(n)

RunsOut(f) == <>[]~Acceptable(f)
RunsOutBegun(f, n) == [](BegunUntil(f, n) => <>[]~Acceptable(f))
Begins(f) == [](New(f) \/ \E n \in Moment : BegunUntil(f, n))

(* If providers answer, every sign-in runs out: from some time on its      *)
(* state is of no use to whoever still has it, and nothing of it is under  *)
(* way.                                                                    *)
THEOREM SignInsRunOut ==
  PortalFairSpec /\ ProvidersAnswer /\ []EnabledIfPossible /\ TimePasses =>
    \A f \in Flow : RunsOut(f)
<1> DEFINE Premise == PortalFairSpec /\ ProvidersAnswer /\ []EnabledIfPossible
<1>1. ASSUME NEW f \in Flow
      PROVE  Premise /\ TimePasses => RunsOut(f)
  <2>1. Premise => Settles(f)
    BY CallbacksEnd
  <2>3. ASSUME NEW n \in Moment
        PROVE  Premise /\ Passes(n) => RunsOutBegun(f, n)
    <3>1. PortalInv /\ BegunUntil(f, n) /\ Past(n) /\ ~AtWork(f) => ~Acceptable(f)
      BY DEF PortalInv, PortalTypeOK, TypeOK, BegunUntil, Past, Acceptable, StateAccepted, Moment
    <3>2. PortalInv /\ [PortalNext]_portalVars /\ BegunUntil(f, n) => BegunUntil(f, n)'
      BY ExpiryStays
    <3>3. PortalInv /\ [PortalNext]_portalVars /\ Past(n) => Past(n)'
      BY TimeGoesOn
    <3>4. PortalInv /\ [PortalNext]_portalVars /\ BegunUntil(f, n) /\ Past(n) /\ ~AtWork(f)
            => ~AtWork(f)'
      BY LateCallbackIsRefused
    <3> QED
      BY <2>1, <3>1, <3>2, <3>3, <3>4, PortalInvariance, PTL
         DEF PortalFairSpec, PortalSpec, Settles, Passes, RunsOutBegun
  <2>4. PortalFairSpec => Begins(f)
    <3> DEFINE Set == \E n \in Moment : BegunUntil(f, n)
    <3>1. PortalInit => New(f)
      BY DEF PortalInit, New, NewFlow
    <3>2. PortalInv /\ [PortalNext]_portalVars /\ Set => Set'
      <4>1. ASSUME NEW n \in Moment
            PROVE  PortalInv /\ [PortalNext]_portalVars /\ BegunUntil(f, n) => BegunUntil(f, n)'
        BY ExpiryStays
      <4> QED
        BY <4>1
    <3>3. PortalInv /\ [PortalNext]_portalVars /\ New(f) => New(f)' \/ Set'
      BY ExpiryIsSet
    <3> HIDE DEF Set
    <3>4. PortalFairSpec => [](New(f) \/ Set)
      BY <3>1, <3>2, <3>3, PortalInvariance, PTL DEF PortalFairSpec, PortalSpec
    <3> QED
      BY <3>4 DEF Begins, Set
  <2>5. (\A n \in Moment : RunsOutBegun(f, n))
          => []((\E n \in Moment : BegunUntil(f, n)) => <>[]~Acceptable(f))
    <3>1. (\A n \in Moment : RunsOutBegun(f, n))
            => [](\A n \in Moment : BegunUntil(f, n) => <>[]~Acceptable(f))
      BY DEF RunsOutBegun
    <3>2. (\A n \in Moment : BegunUntil(f, n) => <>[]~Acceptable(f))
            => ((\E n \in Moment : BegunUntil(f, n)) => <>[]~Acceptable(f))
      OBVIOUS
    <3> QED
      BY <3>1, <3>2, PTL
  <2>6. New(f) => ~Acceptable(f)
    BY DEF New, Acceptable, AtWork
  <2>7. Premise /\ TimePasses => \A n \in Moment : RunsOutBegun(f, n)
    BY <2>3 DEF TimePasses
  <2> QED
    BY <2>4, <2>5, <2>6, <2>7, PTL DEF Begins, RunsOut
<1> QED
  BY <1>1
===============================================================================
