------------------------------ MODULE Delegations ------------------------------
(***************************************************************************)
(* Delegations: a user lets a client act for an account at a resource      *)
(* provider.  Adding one needs a link that is enabled and whose last login *)
(* is recent; the check and the insert are two statements of a READ        *)
(* COMMITTED transaction, so the link may be removed, disabled or grow old *)
(* in between.  The expiration of all delegations is computed once, when   *)
(* the process starts.                                                     *)
(*                                                                         *)
(* The links are the abstract table of LinkTable, which ResourceLinks is   *)
(* shown to implement.  The caller's identity and client come from a token *)
(* the request extractor has accepted (IssuedTokens).                      *)
(***************************************************************************)
EXTENDS LinkTable, Sequences

CONSTANTS
  Client,         \* client ids
  Portal,         \* the portal's own client id, CLIENT_ID_TMS
  Name,           \* client names a request may carry
  NoClient,       \* for names without a row in clients
  NoName,         \* the list request without a client name
  ClientNamed,    \* ClientNamed[n]: the client id with name n, or NoClient
  Request,        \* slots for requests in flight
  NoKey,
  DelegationLife, \* days a delegation lives, counted from the process start
  MaxSinceLogin,  \* delegation_max_mins_since_login
  MaxDelegations  \* bound on the ids drawn

ASSUME DelegationAssumption ==
  /\ DelegationLife \in Nat
  /\ MaxSinceLogin \in Nat
  /\ MaxTime \in Nat
  /\ ClientNamed \in [Name -> Client \cup {NoClient}]
  /\ Portal \in Client
  /\ NoClient \notin Client
  /\ NoName \notin Name
  /\ NoKey \notin Key
  /\ Key # {}

VARIABLES
  expiration,  \* delegation_policy_config of the running process
  delegations, \* delegations[id]: the row with that serial id, or Deleted
  request,     \* request[r]: a request in flight or just answered
  usable       \* history: could r's link be used at some moment since r began

vars == <<now, links, expiration, delegations, request, usable>>

IdentityOfKey(k) == k[1]
Identity == {IdentityOfKey(k) : k \in Key}

(* What the extractor hands to the handlers: SecurityContext. *)
SecurityContext == [tms_identity : Identity, client_id : Client]
is_tms_client(context) == context.client_id = Portal

Delegation == [key : Key, client_id : Client, created : Nat, expires_at : Nat]
Deleted == [key |-> NoKey, client_id |-> NoClient, created |-> 0, expires_at |-> 0]

RequestRecord ==
  [pc : {"idle", "add", "recent", "added", "listed", "deleted", "refused"},
   context : SecurityContext, name : Name \cup {NoName}, key : Key \cup {NoKey},
   answer : SUBSET Delegation]

TypeOK ==
  /\ now \in Nat
  /\ links \in [Key -> Link]
  /\ expiration \in Nat
  /\ delegations \in Seq(Delegation \cup {Deleted})
  /\ request \in [Request -> RequestRecord]
  /\ usable \in [Request -> BOOLEAN]

Idle == [pc |-> "idle", name |-> NoName, key |-> NoKey, answer |-> {},
         context |-> CHOOSE c \in SecurityContext : TRUE]

Init ==
  /\ LinkInit
  /\ expiration = DelegationLife
  /\ delegations = <<>>
  /\ request = [r \in Request |-> Idle]
  /\ usable = [r \in Request |-> FALSE]

-------------------------------------------------------------------------------
(***************************************************************************)
(* The checks.                                                             *)
(***************************************************************************)
token_matches_client(context, client_id) ==
  is_tms_client(context) \/ context.client_id = client_id

(* Mutant: a name without a row in clients is not refused. *)
Bug_MayActFor(context, name) == token_matches_client(context, ClientNamed[name])

(* The client with this name exists and the token may act for it. *)
MayActFor(context, name) ==
  /\ ClientNamed[name] # NoClient
  /\ token_matches_client(context, ClientNamed[name])

(* db_get_resource_provider_login finds a row. *)
Usable(k) == /\ links[k].present
             /\ links[k].enabled
             /\ links[k].last_login >= now - MaxSinceLogin

(* The history variable: every step notes for which requests the link can  *)
(* be used after it.                                                       *)
Observe ==
  usable' = [r \in Request |->
    \E k \in Key : request'[r].key = k /\ (usable[r] \/ Usable(k)')]

-------------------------------------------------------------------------------
(***************************************************************************)
(* add_delegation: begin, check the link, check the client, insert.        *)
(***************************************************************************)
Answer(r, pc, answer) ==
  request' = [request EXCEPT ![r] = [request[r] EXCEPT !.pc = pc, !.answer = answer]]

add_delegation(r, context, name, k) ==
  /\ request[r].pc = "idle"
  /\ IdentityOfKey(k) = context.tms_identity
  /\ request' = [request EXCEPT ![r] =
       [Idle EXCEPT !.pc = "add", !.context = context, !.name = name, !.key = k]]
  /\ UNCHANGED <<now, links, expiration, delegations>>
  /\ Observe

(* Mutant: the login is looked up for the account only, by anybody. *)
Bug_ensure_recent_rp_login(r) ==
  /\ request[r].pc = "add"
  /\ \E k \in Key :
       /\ k[2] = request[r].key[2]
       /\ k[3] = request[r].key[3]
       /\ IF Usable(k) THEN Answer(r, "recent", {}) ELSE Answer(r, "refused", {})
  /\ UNCHANGED <<now, links, expiration, delegations>>
  /\ Observe

ensure_recent_rp_login(r) ==
  /\ request[r].pc = "add"
  /\ IF Usable(request[r].key) THEN Answer(r, "recent", {}) ELSE Answer(r, "refused", {})
  /\ UNCHANGED <<now, links, expiration, delegations>>
  /\ Observe

NewDelegation(r) ==
  [key |-> request[r].key, client_id |-> ClientNamed[request[r].name],
   created |-> now, expires_at |-> expiration]

(* No uniqueness is asked for: the same delegation may be added again. *)
db_insert_delegation(r) ==
  /\ Len(delegations) < MaxDelegations
  /\ delegations' = Append(delegations, NewDelegation(r))

CommitDelegation(r) ==
  /\ request[r].pc = "recent"
  /\ IF MayActFor(request[r].context, request[r].name)
       THEN /\ db_insert_delegation(r)
            /\ Answer(r, "added", {NewDelegation(r)})
       ELSE /\ Answer(r, "refused", {})
            /\ UNCHANGED delegations
  /\ UNCHANGED <<now, links, expiration>>
  /\ Observe

-------------------------------------------------------------------------------
(***************************************************************************)
(* get_delegations: one query.  With a client other than the portal and no *)
(* name the service asks for one client's rows, by a client_id that is a   *)
(* column of both joined tables: PostgreSQL refuses the statement as       *)
(* ambiguous, whatever the tables hold.  All other lists are by identity.  *)
(***************************************************************************)
Rows == {delegations[id] : id \in 1 .. Len(delegations)} \ {Deleted}
OfIdentity(u) == {d \in Rows : IdentityOfKey(d.key) = u}

(* Mutant: the rows are selected by the token's client alone. *)
Bug_ListedRows(context) == {d \in Rows : d.client_id = context.client_id}

(* A name is checked against the token, and then not used as a filter. *)
ListedRows(context) == OfIdentity(context.tms_identity)

get_delegations(r, context, name) ==
  /\ request[r].pc = "idle"
  /\ LET answered == [Idle EXCEPT !.context = context, !.name = name]
         allowed == IF name = NoName THEN is_tms_client(context)
                                     ELSE MayActFor(context, name)
     IN  request' = [request EXCEPT ![r] =
           IF allowed
             THEN [answered EXCEPT !.pc = "listed", !.answer = ListedRows(context)]
             ELSE [answered EXCEPT !.pc = "refused"]]
  /\ UNCHANGED <<now, links, expiration, delegations>>
  /\ Observe

-------------------------------------------------------------------------------
(***************************************************************************)
(* delete_delegation: by an id, for the named client, of the caller's.     *)
(* What its RETURNING * answers mixes the row with that of its client;     *)
(* nobody reads it, so the answer is left out.                             *)
(***************************************************************************)
(* Mutant: the statement selects by id and client only. *)
Bug_Selected(context, name, id) ==
  /\ delegations[id] # Deleted
  /\ delegations[id].client_id = ClientNamed[name]

Selected(context, name, id) ==
  /\ delegations[id] # Deleted
  /\ IdentityOfKey(delegations[id].key) = context.tms_identity
  /\ delegations[id].client_id = ClientNamed[name]

delete_delegation(r, context, name, id) ==
  /\ request[r].pc = "idle"
  /\ LET answered == [Idle EXCEPT !.context = context, !.name = name]
         allowed == MayActFor(context, name) /\ Selected(context, name, id)
     IN  /\ request' = [request EXCEPT ![r] =
              [answered EXCEPT !.pc = IF allowed THEN "deleted" ELSE "refused"]]
         /\ delegations' = IF allowed THEN [delegations EXCEPT ![id] = Deleted]
                                      ELSE delegations
  /\ UNCHANGED <<now, links, expiration>>
  /\ Observe

(* The answer has been read, or a database error rolled the request back. *)
Done(r) ==
  /\ request[r].pc # "idle"
  /\ request' = [request EXCEPT ![r] = Idle]
  /\ UNCHANGED <<now, links, expiration, delegations>>
  /\ Observe

(* Mutant: the new process adds to the expiration the old one had. *)
Bug_Restart ==
  /\ expiration' = expiration + DelegationLife
  /\ request' = [r \in Request |-> Idle]
  /\ UNCHANGED <<now, links, delegations>>
  /\ Observe

(* A new process computes the expiration anew and knows no request. *)
Restart ==
  /\ expiration' = now + DelegationLife
  /\ request' = [r \in Request |-> Idle]
  /\ UNCHANGED <<now, links, delegations>>
  /\ Observe

(* Steps of the rest of the system. *)
Elsewhere == UNCHANGED <<expiration, delegations, request>> /\ Observe

RecordLogin(k, t) == Record(k, t) /\ Elsewhere
Unlink(k) == Remove(k) /\ Elsewhere
DisableLink(k) == Disable(k) /\ Elsewhere
Tick == LinkTick /\ Elsewhere

-------------------------------------------------------------------------------
RequestStep(r) ==
  \/ \E context \in SecurityContext, name \in Name :
       \/ \E k \in Key : add_delegation(r, context, name, k)
       \/ \E id \in 1 .. Len(delegations) : delete_delegation(r, context, name, id)
  \/ \E context \in SecurityContext, name \in Name \cup {NoName} :
       get_delegations(r, context, name)
  \/ ensure_recent_rp_login(r)
  \/ CommitDelegation(r)
  \/ Done(r)

Next ==
  \/ \E r \in Request : RequestStep(r)
  \/ \E k \in Key : \/ \E t \in 0 .. now : RecordLogin(k, t)
                    \/ Unlink(k)
                    \/ DisableLink(k)
  \/ Tick
  \/ Restart

Spec == Init /\ [][Next]_vars

-------------------------------------------------------------------------------
(***************************************************************************)
(* add_delegation answers with a delegation only if the caller's link to   *)
(* this account was enabled and recently used at some moment between the   *)
(* request's begin and its answer, however unlinking, disabling, sign-ins  *)
(* and the passing of time interleave with its two statements.             *)
(***************************************************************************)
DelegationWasJustified == \A r \in Request : request[r].pc = "added" => usable[r]

(***************************************************************************)
(* Every row answered is of the caller's identity.  A row added is for the *)
(* client the request names, and a client other than the portal adds rows  *)
(* for itself only.  (It does see those of other clients: NameLimitsList.) *)
(***************************************************************************)
AnswersAreTheCallers ==
  \A r \in Request : \A d \in request[r].answer :
    LET context == request[r].context
    IN  /\ IdentityOfKey(d.key) = context.tms_identity
        /\ request[r].pc = "added" =>
             /\ token_matches_client(context, d.client_id)
             /\ d.client_id = ClientNamed[request[r].name]

(***************************************************************************)
(* A delegation lives at most DelegationLife from its creation, also when  *)
(* the process is restarted any number of times.                           *)
(***************************************************************************)
LifeIsBounded == \A d \in Rows : d.expires_at <= d.created + DelegationLife

(***************************************************************************)
(* A row disappears only by a request of its owner, through its client or  *)
(* the portal; unlinking, disabling and restarts leave rows alone.         *)
(***************************************************************************)
OwnerDeletes ==
  [][\A id \in 1 .. Len(delegations) :
       delegations[id] # Deleted /\ delegations'[id] = Deleted =>
         \E r \in Request :
           LET context == request'[r].context
           IN  /\ request[r].pc = "idle" /\ request'[r].pc = "deleted"
               /\ context.tms_identity = IdentityOfKey(delegations[id].key)
               /\ token_matches_client(context, delegations[id].client_id)]_vars

(***************************************************************************)
(* docs/tms_openapi.yml:414: "Client name may be supplied to limit the     *)
(* list to delegations for a particular client".                           *)
(***************************************************************************)
NameLimitsList ==
  \A r \in Request : request[r].pc = "listed" /\ request[r].name # NoName =>
    \A d \in request[r].answer : d.client_id = ClientNamed[request[r].name]

(***************************************************************************)
(* The page answers an added delegation with "You have successfully        *)
(* delegated ..." (LinkSuccessAlert.tsx:79): it has not expired before it  *)
(* was made.                                                               *)
(***************************************************************************)
AddedIsLive ==
  \A d \in Rows : d.created <= d.expires_at
===============================================================================
