--------------------------- MODULE DelegationsProofs ---------------------------
(***************************************************************************)
(* Proofs about Delegations, for any sets of users, accounts, clients and  *)
(* requests and any values of the policy.                                  *)
(*                                                                         *)
(* The properties are proved from one inductive invariant.  What it adds   *)
(* to them: a request that adds carries a key of its own caller, one that  *)
(* passed the check has been observed usable, and the expiration of the    *)
(* process is not later than the life counted from now.                    *)
(***************************************************************************)
EXTENDS Delegations, TLAPS

AddFacts(r) ==
  request[r].pc \in {"add", "recent", "added"} =>
    /\ request[r].key \in Key
    /\ IdentityOfKey(request[r].key) = request[r].context.tms_identity
    /\ request[r].name \in Name
    /\ request[r].pc # "add" => usable[r]

AnswerFacts(q) ==
  \A d \in q.answer :
    /\ IdentityOfKey(d.key) = q.context.tms_identity
    /\ q.pc = "added" =>
         /\ token_matches_client(q.context, d.client_id)
         /\ d.client_id = ClientNamed[q.name]

LifeFacts ==
  /\ expiration <= now + DelegationLife
  /\ \A id \in 1 .. Len(delegations) :
       delegations[id] # Deleted =>
         delegations[id].expires_at <= delegations[id].created + DelegationLife

IndInv ==
  /\ TypeOK
  /\ \A r \in Request : AddFacts(r)
  /\ \A r \in Request : AnswerFacts(request[r])
  /\ LifeFacts

-------------------------------------------------------------------------------
(* The slot of an idle request, and records that differ from one in a few  *)
(* fields.                                                                 *)
LEMMA ContextExists == SecurityContext # {} /\ (CHOOSE c \in SecurityContext : TRUE) \in SecurityContext
<1>1. PICK k \in Key : TRUE
  BY DelegationAssumption
<1>2. [tms_identity |-> IdentityOfKey(k), client_id |-> Portal] \in SecurityContext
  BY <1>1, DelegationAssumption DEF SecurityContext, Identity
<1> QED
  BY <1>2

LEMMA IdleFacts ==
  /\ Idle \in RequestRecord
  /\ Idle.pc = "idle" /\ Idle.answer = {} /\ Idle.key = NoKey
BY ContextExists DEF Idle, RequestRecord

LEMMA DeletedIsNoDelegation == Deleted \notin Delegation
BY DelegationAssumption DEF Deleted, Delegation

(* Rows are delegations, found under some id. *)
LEMMA RowsAreDelegations ==
  ASSUME TypeOK
  PROVE  /\ Rows \subseteq Delegation
         /\ \A d \in Rows : \E id \in 1 .. Len(delegations) : d = delegations[id]
<1>1. \A id \in 1 .. Len(delegations) : delegations[id] \in Delegation \cup {Deleted}
  BY DEF TypeOK
<1> QED
  BY <1>1 DEF Rows

-------------------------------------------------------------------------------
UsableAfter(k) == /\ links'[k].present
                  /\ links'[k].enabled
                  /\ links'[k].last_login >= now' - MaxSinceLogin

(* A step that puts q in the slot of r keeps these facts. *)
SlotChange(r, q) ==
  /\ request' = [request EXCEPT ![r] = q]
  /\ AnswerFacts(q)
  /\ q.pc = "add" => /\ q.key \in Key
                     /\ IdentityOfKey(q.key) = q.context.tms_identity
                     /\ q.name \in Name
  /\ q.pc \in {"recent", "added"} =>
       /\ request[r].pc \in {"add", "recent"}
       /\ q.key = request[r].key /\ q.context = request[r].context
       /\ q.name = request[r].name
       /\ request[r].pc = "add" => UsableAfter(q.key)

(* Every step changes the slot of at most one request or empties them all. *)
SlotChanges ==
  \/ request' = request
  \/ request' = [r \in Request |-> Idle]
  \/ \E r \in Request, q \in RequestRecord : SlotChange(r, q)

LEMMA InitInv == Init => IndInv
<1> SUFFICES ASSUME Init PROVE IndInv
  OBVIOUS
<1>1. TypeOK
  BY IdleFacts, DelegationAssumption DEF Init, LinkInit, NoLink, Link, TypeOK
<1>2. \A r \in Request : AddFacts(r) /\ AnswerFacts(request[r])
  BY IdleFacts DEF Init, AddFacts, AnswerFacts
<1>3. LifeFacts
  BY DelegationAssumption DEF Init, LinkInit, LifeFacts
<1> QED
  BY <1>1, <1>2, <1>3 DEF IndInv

(* One lemma per handler: what it leaves in the slot of its request. *)
LEMMA AddDelegationSlot ==
  ASSUME IndInv, NEW r \in Request, NEW context \in SecurityContext, NEW name \in Name,
         NEW k \in Key, add_delegation(r, context, name, k)
  PROVE  SlotChanges
<1> DEFINE q == [Idle EXCEPT !.pc = "add", !.context = context, !.name = name, !.key = k]
<1>1. request' = [request EXCEPT ![r] = q] /\ IdentityOfKey(k) = context.tms_identity
  BY DEF add_delegation
<1>2. /\ q \in RequestRecord
      /\ q.pc = "add" /\ q.context = context /\ q.name = name /\ q.key = k
      /\ q.answer = {}
  BY IdleFacts DEF RequestRecord
<1> HIDE DEF q
<1>3. SlotChange(r, q)
  BY <1>1, <1>2 DEF SlotChange, AnswerFacts
<1> QED
  BY <1>2, <1>3 DEF SlotChanges

LEMMA RecentLoginSlot ==
  ASSUME IndInv, NEW r \in Request, ensure_recent_rp_login(r)
  PROVE  SlotChanges
<1> DEFINE pc == IF Usable(request[r].key) THEN "recent" ELSE "refused"
<1> DEFINE q == [request[r] EXCEPT !.pc = pc, !.answer = {}]
<1>1. request' = [request EXCEPT ![r] = q]
  BY DEF ensure_recent_rp_login, Answer
<1>2. /\ q \in RequestRecord /\ q.pc = pc /\ q.answer = {}
      /\ q.key = request[r].key /\ q.name = request[r].name
      /\ q.context = request[r].context
  <2>1. request[r] \in RequestRecord /\ pc \in {"recent", "refused"}
    BY DEF IndInv, TypeOK
  <2> HIDE DEF pc
  <2> QED
    BY <2>1 DEF RequestRecord
<1> HIDE DEF q
<1>3. request[r].pc = "add" /\ now' = now /\ links' = links
  BY DEF ensure_recent_rp_login
<1>4. q.pc \notin {"add", "added"} /\ (q.pc = "recent" => UsableAfter(q.key))
  BY <1>2, <1>3 DEF Usable, UsableAfter
<1>5. SlotChange(r, q)
  BY <1>1, <1>2, <1>3, <1>4 DEF SlotChange, AnswerFacts
<1> QED
  BY <1>2, <1>5 DEF SlotChanges

LEMMA CommitSlot ==
  ASSUME IndInv, NEW r \in Request, CommitDelegation(r)
  PROVE  SlotChanges
<1> DEFINE allowed == MayActFor(request[r].context, request[r].name)
<1> DEFINE pc == IF allowed THEN "added" ELSE "refused"
<1> DEFINE answer == IF allowed THEN {NewDelegation(r)} ELSE {}
<1> DEFINE q == [request[r] EXCEPT !.pc = pc, !.answer = answer]
<1>1. request[r].pc = "recent" /\ request' = [request EXCEPT ![r] = q]
  BY DEF CommitDelegation, Answer
<1>2. request[r] \in RequestRecord /\ AddFacts(r)
  BY DEF IndInv, TypeOK
<1>3. /\ request[r].key \in Key /\ request[r].name \in Name
      /\ IdentityOfKey(request[r].key) = request[r].context.tms_identity
  BY <1>1, <1>2 DEF AddFacts
<1>4. allowed => NewDelegation(r) \in Delegation
  BY <1>3, DelegationAssumption DEF MayActFor, NewDelegation, Delegation, IndInv, TypeOK
<1>5. /\ q \in RequestRecord /\ q.pc = pc /\ q.answer = answer
      /\ q.key = request[r].key /\ q.name = request[r].name
      /\ q.context = request[r].context
  <2>1. pc \in {"added", "refused"} /\ answer \in SUBSET Delegation
    BY <1>4
  <2> HIDE DEF pc, answer
  <2> QED
    BY <1>2, <2>1 DEF RequestRecord
<1> HIDE DEF q
<1>6. AnswerFacts(q)
  <2>1. ASSUME allowed PROVE token_matches_client(q.context, ClientNamed[q.name])
    BY <2>1, <1>5 DEF MayActFor
  <2>2. ASSUME NEW d \in q.answer
        PROVE  allowed /\ d.key = q.key /\ d.client_id = ClientNamed[q.name]
    BY <1>5 DEF NewDelegation
  <2> QED
    BY <2>1, <2>2, <1>3, <1>5 DEF AnswerFacts
<1>7. SlotChange(r, q)
  BY <1>1, <1>5, <1>6 DEF SlotChange
<1> QED
  BY <1>5, <1>7 DEF SlotChanges

LEMMA ListSlot ==
  ASSUME IndInv, NEW r \in Request, NEW context \in SecurityContext,
         NEW name \in Name \cup {NoName}, get_delegations(r, context, name)
  PROVE  SlotChanges
<1> DEFINE allowed == IF name = NoName THEN is_tms_client(context)
                                      ELSE MayActFor(context, name)
<1> DEFINE p == [Idle EXCEPT !.context = context, !.name = name]
<1> DEFINE q == IF allowed THEN [p EXCEPT !.pc = "listed", !.answer = ListedRows(context)]
                           ELSE [p EXCEPT !.pc = "refused"]
<1>1. request' = [request EXCEPT ![r] = q]
  BY DEF get_delegations
<1>2. ListedRows(context) \in SUBSET Delegation
  BY RowsAreDelegations DEF IndInv, ListedRows, OfIdentity
<1>3. /\ q \in RequestRecord /\ q.context = context /\ q.name = name
      /\ q.pc \in {"listed", "refused"} /\ q.answer \subseteq ListedRows(context)
  <2>1. CASE allowed
    BY <1>2, <2>1, IdleFacts DEF RequestRecord
  <2>2. CASE ~allowed
    BY <2>2, IdleFacts DEF RequestRecord
  <2> QED
    BY <2>1, <2>2
<1> HIDE DEF q
<1>4. \A d \in ListedRows(context) : IdentityOfKey(d.key) = context.tms_identity
  BY DEF ListedRows, OfIdentity
<1>5. AnswerFacts(q)
  BY <1>3, <1>4 DEF AnswerFacts
<1>6. SlotChange(r, q)
  BY <1>1, <1>3, <1>5 DEF SlotChange
<1> QED
  BY <1>3, <1>6 DEF SlotChanges

LEMMA DeleteSlot ==
  ASSUME IndInv, NEW r \in Request, NEW context \in SecurityContext, NEW name \in Name,
         NEW id \in 1 .. Len(delegations), delete_delegation(r, context, name, id)
  PROVE  SlotChanges
<1> DEFINE allowed == MayActFor(context, name) /\ Selected(context, name, id)
<1> DEFINE pc == IF allowed THEN "deleted" ELSE "refused"
<1> DEFINE p == [Idle EXCEPT !.context = context, !.name = name]
<1> DEFINE q == [p EXCEPT !.pc = pc]
<1>1. request' = [request EXCEPT ![r] = q]
  BY DEF delete_delegation
<1>2. q \in RequestRecord /\ q.pc \in {"deleted", "refused"} /\ q.answer = {}
  BY IdleFacts DEF RequestRecord
<1> HIDE DEF q
<1>3. SlotChange(r, q)
  BY <1>1, <1>2 DEF SlotChange, AnswerFacts
<1> QED
  BY <1>2, <1>3 DEF SlotChanges

LEMMA DoneSlot ==
  ASSUME NEW r \in Request, Done(r)
  PROVE  SlotChanges
<1>1. request' = [request EXCEPT ![r] = Idle]
  BY DEF Done
<1>2. SlotChange(r, Idle)
  BY <1>1, IdleFacts DEF SlotChange, AnswerFacts
<1> QED
  BY <1>2, IdleFacts DEF SlotChanges

LEMMA SlotsStep == ASSUME IndInv, Next PROVE SlotChanges
<1>1. ASSUME NEW r \in Request, RequestStep(r) PROVE SlotChanges
  BY <1>1, AddDelegationSlot, RecentLoginSlot, CommitSlot, ListSlot, DeleteSlot, DoneSlot
  DEF RequestStep
<1>2. ASSUME Elsewhere PROVE SlotChanges
  BY <1>2 DEF Elsewhere, SlotChanges
<1>3. ASSUME Restart PROVE SlotChanges
  BY <1>3 DEF Restart, SlotChanges
<1> QED
  BY <1>1, <1>2, <1>3 DEF Next, RecordLogin, Unlink, DisableLink, Tick

-------------------------------------------------------------------------------
(* What a step does to the rest of the state. *)
OthersKeepType ==
  /\ now' \in {now, now + 1}
  /\ expiration' \in {expiration, now + DelegationLife}
  /\ links' \in [Key -> Link]

NewRow == [key : Key, client_id : Client, created : {now}, expires_at : {expiration}]

RowChanges ==
  \/ delegations' = delegations
  \/ \E d \in NewRow : delegations' = Append(delegations, d)
  \/ \E id \in 1 .. Len(delegations) : delegations' = [delegations EXCEPT ![id] = Deleted]

LEMMA LinksStep ==
  ASSUME TypeOK, NEW k \in Key, NEW t \in 0 .. now,
         Record(k, t) \/ Remove(k) \/ Disable(k)
  PROVE  links' \in [Key -> Link] /\ now' = now
<1>1. links \in [Key -> Link] /\ t \in Nat
  BY DEF TypeOK
<1>2. CASE Record(k, t)
  BY <1>1, <1>2 DEF Record, Link
<1>3. CASE Remove(k)
  BY <1>1, <1>3 DEF Remove, Link, NoLink
<1>4. CASE Disable(k)
  BY <1>1, <1>4 DEF Disable, Link
<1> QED
  BY <1>2, <1>3, <1>4

LEMMA OthersStep == ASSUME IndInv, Next PROVE OthersKeepType /\ RowChanges
<1> USE DEF OthersKeepType, RowChanges
<1>1. TypeOK /\ links \in [Key -> Link] /\ now \in Nat
  BY DEF IndInv, TypeOK
<1>2. ASSUME NEW r \in Request, CommitDelegation(r) PROVE RowChanges
  <2>1. request[r].pc = "recent" /\ AddFacts(r) /\ request[r].key \in Key /\ request[r].name \in Name
    BY <1>2 DEF CommitDelegation, IndInv, AddFacts
  <2>2. CASE MayActFor(request[r].context, request[r].name)
    <3>1. NewDelegation(r) \in NewRow
      BY <2>1, <2>2, DelegationAssumption DEF MayActFor, NewDelegation, NewRow
    <3> QED
      BY <1>2, <2>2, <3>1 DEF CommitDelegation, db_insert_delegation
  <2>3. CASE ~MayActFor(request[r].context, request[r].name)
    BY <1>2, <2>3 DEF CommitDelegation
  <2> QED
    BY <2>2, <2>3
<1>3. ASSUME NEW r \in Request, RequestStep(r) PROVE RowChanges
  BY <1>2, <1>3 DEF RequestStep, add_delegation, get_delegations, delete_delegation,
                    ensure_recent_rp_login, Done
<1>4. ASSUME NEW r \in Request, RequestStep(r) PROVE UNCHANGED <<now, links, expiration>>
  BY <1>4 DEF RequestStep, add_delegation, get_delegations, delete_delegation,
              ensure_recent_rp_login, CommitDelegation, Done
<1>5. ASSUME NEW k \in Key, NEW t \in 0 .. now,
             RecordLogin(k, t) \/ Unlink(k) \/ DisableLink(k)
      PROVE  OthersKeepType /\ RowChanges
  BY <1>1, <1>5, LinksStep DEF RecordLogin, Unlink, DisableLink, Elsewhere
<1>6. CASE \E k \in Key : \/ \E t \in 0 .. now : RecordLogin(k, t)
                          \/ Unlink(k)
                          \/ DisableLink(k)
  <2>1. 0 \in 0 .. now
    BY <1>1
  <2> QED
    BY <1>5, <1>6, <2>1
<1>7. CASE Tick
  BY <1>1, <1>7 DEF Tick, LinkTick, Elsewhere
<1>8. CASE Restart
  BY <1>1, <1>8 DEF Restart
<1> QED
  BY <1>1, <1>3, <1>4, <1>6, <1>7, <1>8 DEF Next

LEMMA Observed == Next => Observe
BY DEF Next, RequestStep, add_delegation, ensure_recent_rp_login, CommitDelegation,
       get_delegations, delete_delegation, Done, RecordLogin, Unlink, DisableLink, Tick,
       Restart, Elsewhere

LEMMA TypeStep ==
  ASSUME TypeOK, SlotChanges, OthersKeepType, RowChanges, Observe
  PROVE  TypeOK'
<1>1. now' \in Nat /\ links' \in [Key -> Link] /\ expiration' \in Nat
  BY DelegationAssumption DEF TypeOK, OthersKeepType
<1>2. request' \in [Request -> RequestRecord]
  BY IdleFacts DEF TypeOK, SlotChanges, SlotChange
<1>3. usable' \in [Request -> BOOLEAN]
  BY DEF Observe
<1>4. delegations' \in Seq(Delegation \cup {Deleted})
  <2>1. NewRow \subseteq Delegation
    BY DEF NewRow, Delegation, TypeOK
  <2>2. CASE \E d \in NewRow : delegations' = Append(delegations, d)
    BY <2>1, <2>2 DEF TypeOK
  <2>3. CASE \E id \in 1 .. Len(delegations) : delegations' = [delegations EXCEPT ![id] = Deleted]
    BY <2>3 DEF TypeOK
  <2> QED
    BY <2>2, <2>3 DEF RowChanges, TypeOK
<1> QED
  BY <1>1, <1>2, <1>3, <1>4 DEF TypeOK

LEMMA FactsStep ==
  ASSUME IndInv, SlotChanges, Observe
  PROVE  \A r \in Request : AddFacts(r)' /\ AnswerFacts(request[r])'
<1> SUFFICES ASSUME NEW r \in Request PROVE AddFacts(r)' /\ AnswerFacts(request'[r])
  BY DEF AnswerFacts
<1>1. AddFacts(r) /\ AnswerFacts(request[r]) /\ request \in [Request -> RequestRecord]
  BY DEF IndInv, TypeOK
<1>2. usable'[r] <=> \E k \in Key : request'[r].key = k /\ (usable[r] \/ UsableAfter(k))
  BY DEF Observe, Usable, UsableAfter
<1>3. CASE request'[r] = request[r]
  BY <1>1, <1>2, <1>3 DEF AddFacts, AnswerFacts
<1>4. CASE request'[r] = Idle
  BY <1>4, IdleFacts DEF AddFacts, AnswerFacts
<1>5. ASSUME NEW q \in RequestRecord, SlotChange(r, q) PROVE AddFacts(r)' /\ AnswerFacts(request'[r])
  <2>1. request'[r] = q
    BY <1>1, <1>5 DEF SlotChange
  <2>2. AnswerFacts(q)
    BY <1>5 DEF SlotChange
  <2>3. AddFacts(r)'
    BY <1>1, <1>2, <1>5, <2>1 DEF SlotChange, AddFacts
  <2> QED
    BY <2>1, <2>2, <2>3
<1>6. ASSUME NEW s \in Request, NEW q \in RequestRecord, SlotChange(s, q), s # r
      PROVE  request'[r] = request[r]
  BY <1>1, <1>6 DEF SlotChange
<1> QED
  BY <1>3, <1>4, <1>5, <1>6 DEF SlotChanges

LEMMA LaterBound ==
  ASSUME NEW e \in Nat, NEW n \in Nat, NEW life \in Nat, e <= n + life,
         NEW f \in {e, n + life}, NEW m \in {n, n + 1}
  PROVE  f <= m + life
OBVIOUS

LEMMA LifeStep ==
  ASSUME IndInv, OthersKeepType, RowChanges
  PROVE  LifeFacts'
<1>1. /\ now \in Nat /\ expiration \in Nat /\ DelegationLife \in Nat
      /\ delegations \in Seq(Delegation \cup {Deleted}) /\ LifeFacts
  BY DelegationAssumption DEF IndInv, TypeOK
<1>2. expiration' <= now' + DelegationLife
  <2>1. expiration <= now + DelegationLife
    BY <1>1 DEF LifeFacts
  <2>2. now' \in {now, now + 1} /\ expiration' \in {expiration, now + DelegationLife}
    BY DEF OthersKeepType
  <2>3. now \in Nat /\ expiration \in Nat /\ DelegationLife \in Nat
    BY <1>1
  <2> QED
    BY <2>1, <2>2, <2>3, LaterBound
<1>3. ASSUME NEW id \in 1 .. Len(delegations'), delegations'[id] # Deleted
      PROVE  delegations'[id].expires_at <= delegations'[id].created + DelegationLife
  <2>1. CASE id \in 1 .. Len(delegations) /\ delegations'[id] = delegations[id]
    BY <1>1, <1>3, <2>1 DEF LifeFacts
  <2>2. CASE delegations'[id] \in NewRow
    BY <1>1, <2>2 DEF LifeFacts, NewRow
  <2> QED
    BY <1>1, <1>3, <2>1, <2>2 DEF RowChanges
<1> QED
  BY <1>2, <1>3 DEF LifeFacts

(* Every step keeps the invariant. *)
LEMMA InvStep == IndInv /\ [Next]_vars => IndInv'
<1>1. IndInv /\ Next => IndInv'
  <2> SUFFICES ASSUME IndInv, Next PROVE IndInv'
    OBVIOUS
  <2>1. SlotChanges /\ OthersKeepType /\ RowChanges /\ Observe
    BY SlotsStep, OthersStep, Observed
  <2>2. TypeOK' /\ LifeFacts'
    BY <2>1, TypeStep, LifeStep DEF IndInv
  <2> QED
    BY <2>1, <2>2, FactsStep DEF IndInv
<1>2. IndInv /\ UNCHANGED vars => IndInv'
  BY DEF vars, IndInv, TypeOK, AddFacts, AnswerFacts, LifeFacts
<1> QED
  BY <1>1, <1>2

THEOREM Invariance == Spec => []IndInv
BY InitInv, InvStep, PTL DEF Spec

-------------------------------------------------------------------------------
(***************************************************************************)
(* Every variable keeps its type, for any number of users, clients,        *)
(* requests and rows.                                                      *)
(***************************************************************************)
THEOREM TypeCorrect == Spec => []TypeOK
<1>1. IndInv => TypeOK
  BY DEF IndInv
<1> QED
  BY <1>1, Invariance, PTL

(***************************************************************************)
(* A delegation is answered only to a caller whose link could be used at   *)
(* some moment of the request, although add_delegation checks the link and *)
(* inserts the row in two statements (delegation.rs).                      *)
(***************************************************************************)
THEOREM Justified == Spec => []DelegationWasJustified
<1>1. IndInv => DelegationWasJustified
  BY DEF IndInv, AddFacts, DelegationWasJustified
<1> QED
  BY <1>1, Invariance, PTL

(***************************************************************************)
(* No handler of delegation.rs answers a row of another identity, or adds  *)
(* a row for a client that is not the one named or not the token's own.    *)
(***************************************************************************)
THEOREM OnlyTheCallers == Spec => []AnswersAreTheCallers
<1>1. IndInv => AnswersAreTheCallers
  BY DEF IndInv, AnswerFacts, AnswersAreTheCallers
<1> QED
  BY <1>1, Invariance, PTL

(***************************************************************************)
(* The expiration computed when the process started never gives a row more *)
(* than the configured life, however often the process restarts.           *)
(***************************************************************************)
THEOREM LifeBounded == Spec => []LifeIsBounded
<1>1. IndInv => LifeIsBounded
  BY RowsAreDelegations DEF IndInv, LifeFacts, LifeIsBounded, Rows
<1> QED
  BY <1>1, Invariance, PTL

(* A row is lost only by delete_delegation. *)
LEMMA LostByDelete ==
  ASSUME IndInv, Next, NEW id \in 1 .. Len(delegations),
         delegations[id] # Deleted, delegations'[id] = Deleted
  PROVE  \E r \in Request, context \in SecurityContext, name \in Name :
           delete_delegation(r, context, name, id)
<1>1. delegations \in Seq(Delegation \cup {Deleted})
  BY DEF IndInv, TypeOK
<1>2. delegations' # delegations
  OBVIOUS
<1>3. ASSUME NEW r \in Request, CommitDelegation(r) PROVE FALSE
  BY <1>1, <1>2, <1>3 DEF CommitDelegation, db_insert_delegation
<1>4. ASSUME NEW r \in Request, NEW context \in SecurityContext, NEW name \in Name,
             NEW i \in 1 .. Len(delegations), delete_delegation(r, context, name, i)
      PROVE  i = id
  BY <1>1, <1>2, <1>4 DEF delete_delegation
<1>5. PICK r \in Request : RequestStep(r)
  BY <1>2 DEF Next, RecordLogin, Unlink, DisableLink, Tick, Elsewhere, Restart
<1> QED
  BY <1>2, <1>3, <1>4, <1>5
  DEF RequestStep, add_delegation, get_delegations, ensure_recent_rp_login, Done

(***************************************************************************)
(* A row goes only by a request of the identity that owns it, made through *)
(* the row's client or the portal.                                         *)
(***************************************************************************)
THEOREM OwnersDelete == Spec => OwnerDeletes
<1> DEFINE Lost(id) == delegations[id] # Deleted /\ delegations'[id] = Deleted
<1> DEFINE DeletedBy(r, id) ==
             LET context == request'[r].context
             IN  /\ request[r].pc = "idle" /\ request'[r].pc = "deleted"
                 /\ context.tms_identity = IdentityOfKey(delegations[id].key)
                 /\ token_matches_client(context, delegations[id].client_id)
<1>1. ASSUME IndInv, Next, NEW id \in 1 .. Len(delegations), Lost(id)
      PROVE  \E r \in Request : DeletedBy(r, id)
  <2>1. PICK r \in Request, context \in SecurityContext, name \in Name :
          delete_delegation(r, context, name, id)
    BY <1>1, LostByDelete
  <2> DEFINE allowed == MayActFor(context, name) /\ Selected(context, name, id)
  <2> DEFINE p == [Idle EXCEPT !.context = context, !.name = name]
  <2>2. allowed
    BY <1>1, <2>1 DEF delete_delegation
  <2>3. request[r].pc = "idle" /\ request' = [request EXCEPT ![r] = [p EXCEPT !.pc = "deleted"]]
    BY <2>1, <2>2 DEF delete_delegation
  <2>4. request'[r].pc = "deleted" /\ request'[r].context = context
    <3>1. request'[r] = [p EXCEPT !.pc = "deleted"]
      BY <1>1, <2>3 DEF IndInv, TypeOK
    <3> QED
      BY <3>1, IdleFacts DEF RequestRecord
  <2>5. /\ context.tms_identity = IdentityOfKey(delegations[id].key)
        /\ token_matches_client(context, delegations[id].client_id)
    BY <2>2 DEF MayActFor, Selected
  <2> QED
    BY <2>3, <2>4, <2>5
<1>2. ASSUME IndInv, [Next]_vars, NEW id \in 1 .. Len(delegations), Lost(id)
      PROVE  \E r \in Request : DeletedBy(r, id)
  BY <1>1, <1>2 DEF vars
<1>3. IndInv /\ [Next]_vars =>
        [\A id \in 1 .. Len(delegations) : Lost(id) => \E r \in Request : DeletedBy(r, id)]_vars
  BY <1>2
<1> QED
  BY <1>3, Invariance, PTL DEF Spec, OwnerDeletes

-------------------------------------------------------------------------------
(***************************************************************************)
(* The operator's flag.  Delegations changes the links as LinkTable says,  *)
(* and that table does not put back a flag an operator has cleared.        *)
(***************************************************************************)
Off(k) == links[k].present /\ ~links[k].enabled

(* A request whose link was off when it began and has not been used since. *)
Barred(r) == request[r].key \in Key /\ ~usable[r] /\ Off(request[r].key)

IdleSlots ==
  \A r \in Request : /\ usable[r] => request[r].key \in Key
                     /\ request[r].pc = "idle" => request[r].key = NoKey

LEMMA LinksMove ==
  ASSUME Next
  PROVE  [LinkNext]_<<now, links>>
<1>1. ASSUME NEW r \in Request, RequestStep(r) PROVE UNCHANGED <<now, links>>
  BY <1>1 DEF RequestStep, add_delegation, get_delegations, delete_delegation,
              ensure_recent_rp_login, CommitDelegation, Done
<1>2. CASE Restart
  BY <1>2 DEF Restart
<1> QED
  BY <1>1, <1>2 DEF Next, LinkNext, RecordLogin, Unlink, DisableLink, Tick

LEMMA OffStays ==
  ASSUME links \in [Key -> Link], [LinkNext]_<<now, links>>, NEW k \in Key, Off(k), links'[k].present
  PROVE  Off(k)'
<1>1. ASSUME NEW l \in Key, NEW t \in 0 .. now, Record(l, t) PROVE Off(k)'
  BY <1>1 DEF Record, Off
<1>2. ASSUME NEW l \in Key, Remove(l) PROVE Off(k)'
  BY <1>2 DEF Remove, NoLink, Off
<1>3. ASSUME NEW l \in Key, Disable(l) PROVE Off(k)'
  BY <1>3 DEF Disable, Link, Off
<1>4. CASE LinkTick \/ UNCHANGED <<now, links>>
  BY <1>4 DEF LinkTick, Off
<1> QED
  BY <1>1, <1>2, <1>3, <1>4 DEF LinkNext

LEMMA IdleSlotsStep ==
  ASSUME TypeOK, IdleSlots, [Next]_vars
  PROVE  IdleSlots'
<1>t. request \in [Request -> RequestRecord]
  BY DEF TypeOK
<1>1. CASE UNCHANGED vars
  BY <1>1 DEF vars, IdleSlots
<1>2. CASE Next
  <2>1. \A r \in Request : usable'[r] => request'[r].key \in Key
    BY <1>2, Observed DEF Observe
  <2>2. ASSUME NEW r \in Request, request' = [request EXCEPT ![r] = Idle]
        PROVE  \A s \in Request : request'[s].pc = "idle" => request'[s].key = NoKey
    BY <1>t, <2>2, IdleFacts DEF IdleSlots
  <2>3. ASSUME NEW r \in Request, NEW q, q.pc # "idle", request' = [request EXCEPT ![r] = q]
        PROVE  \A s \in Request : request'[s].pc = "idle" => request'[s].key = NoKey
    BY <1>t, <2>3 DEF IdleSlots
  <2>4. ASSUME NEW r \in Request, NEW pc, NEW answer, Answer(r, pc, answer), pc # "idle"
        PROVE  \A s \in Request : request'[s].pc = "idle" => request'[s].key = NoKey
    <3>1. PICK q : q = [request[r] EXCEPT !.pc = pc, !.answer = answer]
      OBVIOUS
    <3>2. q.pc = pc
      BY <1>t, <3>1 DEF RequestRecord
    <3> QED
      BY <2>3, <2>4, <3>1, <3>2 DEF Answer
  <2>5. ASSUME NEW r \in Request, RequestStep(r)
        PROVE  \A s \in Request : request'[s].pc = "idle" => request'[s].key = NoKey
    <3>1. CASE Done(r)
      BY <2>2, <3>1 DEF Done
    <3>2. CASE ensure_recent_rp_login(r) \/ CommitDelegation(r)
      BY <2>4, <3>2 DEF ensure_recent_rp_login, CommitDelegation
    <3>3. ASSUME NEW context \in SecurityContext, NEW name \in Name, NEW k \in Key,
                 add_delegation(r, context, name, k)
          PROVE  \E q : q.pc # "idle" /\ request' = [request EXCEPT ![r] = q]
      <4>1. [Idle EXCEPT !.pc = "add", !.context = context, !.name = name, !.key = k].pc = "add"
        BY DEF Idle
      <4> QED
        BY <3>3, <4>1 DEF add_delegation
    <3>4. ASSUME NEW context \in SecurityContext, NEW name \in Name, NEW id,
                 delete_delegation(r, context, name, id)
          PROVE  \E q : q.pc # "idle" /\ request' = [request EXCEPT ![r] = q]
      <4>1. PICK q : q = [Idle EXCEPT !.context = context, !.name = name]
        OBVIOUS
      <4>2. \A pc : [q EXCEPT !.pc = pc].pc = pc
        BY <4>1 DEF Idle
      <4>3. \E pc \in {"deleted", "refused"} : request' = [request EXCEPT ![r] = [q EXCEPT !.pc = pc]]
        BY <3>4, <4>1 DEF delete_delegation
      <4> QED
        BY <4>2, <4>3
    <3>5. ASSUME NEW context \in SecurityContext, NEW name \in Name \cup {NoName},
                 get_delegations(r, context, name)
          PROVE  \E q : q.pc # "idle" /\ request' = [request EXCEPT ![r] = q]
      <4>1. PICK q : q = [Idle EXCEPT !.context = context, !.name = name]
        OBVIOUS
      <4>2. \A rows : [q EXCEPT !.pc = "listed", !.answer = rows].pc = "listed"
        BY <4>1 DEF Idle
      <4>3. [q EXCEPT !.pc = "refused"].pc = "refused"
        BY <4>1 DEF Idle
      <4>4. \/ request' = [request EXCEPT ![r] = [q EXCEPT !.pc = "listed", !.answer = ListedRows(context)]]
            \/ request' = [request EXCEPT ![r] = [q EXCEPT !.pc = "refused"]]
        BY <3>5, <4>1 DEF get_delegations
      <4> QED
        BY <4>2, <4>3, <4>4
    <3> QED
      <4>1. CASE \E q : q.pc # "idle" /\ request' = [request EXCEPT ![r] = q]
        BY <2>3, <4>1
      <4> QED
        BY <2>5, <3>1, <3>2, <3>3, <3>4, <3>5, <4>1 DEF RequestStep
  <2>6. ASSUME UNCHANGED request
        PROVE  \A s \in Request : request'[s].pc = "idle" => request'[s].key = NoKey
    BY <2>6 DEF IdleSlots
  <2>7. ASSUME Restart
        PROVE  \A s \in Request : request'[s].pc = "idle" => request'[s].key = NoKey
    BY <2>7, IdleFacts DEF Restart
  <2>8. \A s \in Request : request'[s].pc = "idle" => request'[s].key = NoKey
    BY <1>2, <2>5, <2>6, <2>7 DEF Next, RecordLogin, Unlink, DisableLink, Tick, Elsewhere
  <2> QED
    BY <2>1, <2>8 DEF IdleSlots
<1> QED
  BY <1>1, <1>2

BarRises ==
  \A r \in Request : \A k \in Key :
    request[r].pc = "idle" /\ request'[r].pc = "add" /\ request'[r].key = k /\ Off(k)' => Barred(r)'
BarHolds ==
  \A r \in Request : Barred(r) =>
    /\ request[r].pc # "added"
    /\ request'[r].key = request[r].key /\ links'[request[r].key].present => Barred(r)'

(* A request to add a delegation that begins while an operator has the     *)
(* link disabled is barred, and stays so until the user deletes the link:  *)
(* no sign-in recorded in the meantime, however recent, gets it through.   *)
THEOREM DisabledBars == Spec => [][BarRises /\ BarHolds]_vars
<1>1. Init => IdleSlots
  BY IdleFacts DEF Init, IdleSlots
<1>2. IndInv => TypeOK
  BY DEF IndInv
<1>3. ASSUME IndInv, IdleSlots, [Next]_vars, NEW r \in Request, NEW k \in Key,
             request'[r].key = k, Off(k)', ~usable[r]
      PROVE  Barred(r)'
  <2>1. ~usable'[r]
    <3>1. CASE Next
      <4>1. ~UsableAfter(k)
        BY <1>3 DEF UsableAfter, Off
      <4>2. usable'[r] = \E l \in Key : request'[r].key = l /\ (usable[r] \/ UsableAfter(l))
        BY <3>1, Observed DEF Observe, Usable, UsableAfter
      <4> QED
        BY <1>3, <4>1, <4>2
    <3>2. CASE UNCHANGED vars
      BY <1>3, <3>2 DEF vars
    <3> QED
      BY <1>3, <3>1, <3>2
  <2> QED
    BY <1>3, <2>1 DEF Barred
<1>4. ASSUME IndInv, IdleSlots, [Next]_vars PROVE BarRises
  <2>1. ASSUME NEW r \in Request, request[r].pc = "idle" PROVE ~usable[r]
    BY <1>4, <2>1, DelegationAssumption DEF IdleSlots
  <2> QED
    BY <1>3, <1>4, <2>1 DEF BarRises
<1>5. ASSUME IndInv, IdleSlots, [Next]_vars PROVE BarHolds
  <2>1. ASSUME NEW r \in Request, Barred(r) PROVE request[r].pc # "added"
    BY <1>5, <2>1 DEF IndInv, AddFacts, Barred
  <2>2. ASSUME NEW r \in Request, Barred(r), request'[r].key = request[r].key,
               links'[request[r].key].present
        PROVE  Barred(r)'
    <3>1. PICK k \in Key : k = request[r].key /\ Off(k) /\ ~usable[r]
      BY <2>2 DEF Barred
    <3>2. [LinkNext]_<<now, links>>
      BY <1>5, LinksMove DEF vars
    <3>3. Off(k)'
      BY <1>5, <2>2, <3>1, <3>2, OffStays DEF IndInv, TypeOK
    <3> QED
      BY <1>3, <1>5, <2>2, <3>1, <3>3
  <2> QED
    BY <2>1, <2>2 DEF BarHolds
<1>6. IndInv /\ IdleSlots /\ [Next]_vars => IdleSlots'
  BY <1>2, IdleSlotsStep
<1>7. IndInv /\ IdleSlots /\ [Next]_vars => [BarRises /\ BarHolds]_vars
  BY <1>4, <1>5
<1> QED
  BY <1>1, <1>6, <1>7, Invariance, PTL DEF Spec
===============================================================================
