---------------------------- MODULE ConnectionPool ----------------------------
(***************************************************************************)
(* How requests share the database connections of the process.  A handler  *)
(* takes a connection when it begins a transaction and gives it back when  *)
(* the transaction ends.  Handlers begin several transactions one after    *)
(* the other; some ask a provider over HTTP in between; the link callback  *)
(* asks its provider with a transaction open.  The rows that a transaction *)
(* has written stay locked until it ends.                                  *)
(*                                                                         *)
(* Requests that write the same table are assumed to write the same row of *)
(* it: the worst case for waiting.  What they read or write, and why they  *)
(* may fail, is the subject of the other modules.                          *)
(***************************************************************************)
EXTENDS Naturals, FiniteSets, SequencesExt

CONSTANTS
  Request,   \* slots for requests in flight; a pass of the cleanup task is one
  NoRequest, \* the writer of a row that is not locked
  PoolSize,  \* max_connections
  Kind       \* the kinds of requests that arrive

ASSUME PoolAssumption == /\ PoolSize \in Nat \ {0}
                         /\ NoRequest \notin Request
                         /\ IsFiniteSet(Request)

VARIABLES
  request, \* request[r]: its kind and the position in the kind's script
  pool,    \* the requests that hold a connection
  queue,   \* the requests that wait for one, in order of arrival
  writer   \* writer[t]: the request whose transaction locks the row of table t

vars == <<request, pool, queue, writer>>

-------------------------------------------------------------------------------
(***************************************************************************)
(* What each kind of request does, in order: begin and commit transactions *)
(* of its own, ask a provider, or write the contested row of a table.      *)
(* Reads, and inserts under fresh keys, wait for nobody and are left out.  *)
(* The first transaction of a request with a token is the extractor's.     *)
(***************************************************************************)
Table == {"issued_tokens", "tms_identities", "auth_code_data", "delegations",
          "resource_provider_logins", "resources"}

(* whoami and the lists of delegations, links and resource providers *)
read == <<"begin", "commit", "begin", "commit">>

(* no token needed: /oauth2/authorize, the list of login providers, jwks.json *)
open == <<"begin", "commit">>

(* the portal's login; a client's return URI is checked in a second transaction *)
login == <<"begin", "commit", "begin", "commit">>

(* Mutant: the token is revoked in a transaction begun before that of the  *)
(* validator has ended.                                                    *)
Bug_logout == <<"begin", "begin", "issued_tokens", "commit", "commit">>

logout == <<"begin", "commit", "begin", "issued_tokens", "commit">>

(* Mutant: the provider is asked with the identity's transaction open. *)
Bug_login_callback ==
  <<"begin", "commit", "begin", "tms_identities", "ask", "commit", "begin", "commit">>

login_callback ==
  <<"begin", "commit", "ask", "begin", "tms_identities", "commit", "begin", "commit">>

oauth_callback ==
  <<"begin", "commit", "begin", "commit", "ask", "begin", "commit">>

redeem == <<"begin", "auth_code_data", "commit", "begin", "commit">>

(* Mutant: the check of the link locks its row until the commit. *)
Bug_add_delegation ==
  <<"begin", "commit", "begin", "resource_provider_logins", "commit">>

add_delegation == <<"begin", "commit", "begin", "commit">>

delete_delegation == <<"begin", "commit", "begin", "delegations", "commit">>

unlink == <<"begin", "commit", "begin", "resource_provider_logins", "commit">>

(* It carries no token.  The resources are written in one go here. *)
link_callback ==
  <<"begin", "commit", "ask", "begin", "resource_provider_logins", "ask",
    "resources", "commit">>

cleanup == <<"begin", "issued_tokens", "commit">>

Script ==
  [read |-> read, open |-> open, login |-> login, logout |-> logout,
   login_callback |-> login_callback, oauth_callback |-> oauth_callback,
   redeem |-> redeem, add_delegation |-> add_delegation,
   delete_delegation |-> delete_delegation, unlink |-> unlink,
   link_callback |-> link_callback, cleanup |-> cleanup]

ASSUME KindAssumption == Kind \subseteq DOMAIN Script

Idle == [kind |-> "none", at |-> 0]
Active(r) == request[r] # Idle

(* The next thing request r does. *)
Do(r) == IF Active(r) THEN Script[request[r].kind][request[r].at] ELSE "nothing"

TypeOK ==
  /\ \A r \in Request :
       \/ request[r] = Idle
       \/ \E k \in Kind, i \in 1 .. 8 :
            i <= Len(Script[k]) /\ request[r] = [kind |-> k, at |-> i]
  /\ pool \subseteq Request
  /\ Cardinality(pool) <= PoolSize
  /\ queue \in Seq(Request)
  /\ writer \in [Table -> Request \cup {NoRequest}]

Init ==
  /\ request = [r \in Request |-> Idle]
  /\ pool = {}
  /\ queue = <<>>
  /\ writer = [t \in Table |-> NoRequest]

-------------------------------------------------------------------------------
Waiting(r) == \E i \in 1 .. Len(queue) : queue[i] = r

Arrive(r, k) ==
  /\ ~Active(r)
  /\ request' = [request EXCEPT ![r] = [kind |-> k, at |-> 1]]
  /\ UNCHANGED <<pool, queue, writer>>

Advance(r) == request' = [request EXCEPT ![r].at = @ + 1]

(* db_pool.begin() asks for a connection; the pool serves in order. *)
Enqueue(r) ==
  /\ Do(r) = "begin"
  /\ ~Waiting(r)
  /\ queue' = Append(queue, r)
  /\ UNCHANGED <<request, pool, writer>>

HasFree == Cardinality(pool) < PoolSize

(* Mutant: a connection is opened for whoever has waited, at any time. *)
Bug_Acquire(r) ==
  /\ queue # <<>>
  /\ Head(queue) = r
  /\ queue' = Tail(queue)
  /\ pool' = pool \cup {r}
  /\ Advance(r)
  /\ UNCHANGED writer

Acquire(r) ==
  /\ queue # <<>>
  /\ Head(queue) = r
  /\ HasFree
  /\ queue' = Tail(queue)
  /\ pool' = pool \cup {r}
  /\ Advance(r)
  /\ UNCHANGED writer

(* A statement that writes a row waits for the transaction that wrote it. *)
Write(r) ==
  /\ Do(r) \in Table
  /\ writer[Do(r)] = NoRequest
  /\ writer' = [writer EXCEPT ![Do(r)] = r]
  /\ Advance(r)
  /\ UNCHANGED <<pool, queue>>

(* The provider answers.  The portal's HTTP client sets no timeout. *)
Answer(r) ==
  /\ Do(r) = "ask"
  /\ Advance(r)
  /\ UNCHANGED <<pool, queue, writer>>

Release(r) ==
  /\ pool' = pool \ {r}
  /\ writer' = [t \in Table |-> IF writer[t] = r THEN NoRequest ELSE writer[t]]

(* The last step of every script is a commit; the response follows. *)
Commit(r) ==
  /\ Do(r) = "commit"
  /\ Release(r)
  /\ IF request[r].at = Len(Script[request[r].kind])
       THEN request' = [request EXCEPT ![r] = Idle]
       ELSE Advance(r)
  /\ UNCHANGED queue

LeaveQueue(r) ==
  IF Waiting(r)
    THEN \E i \in 1 .. Len(queue) : queue[i] = r /\ queue' = RemoveAt(queue, i)
    ELSE UNCHANGED queue

(* The pool's acquire timeout: the request is answered with an error. *)
AcquireTimeout(r) ==
  /\ Waiting(r)
  /\ LeaveQueue(r)
  /\ request' = [request EXCEPT ![r] = Idle]
  /\ UNCHANGED <<pool, writer>>

(***************************************************************************)
(* An error ends the handler, or its client closes the connection and the  *)
(* handler is dropped, wherever it is: leaving a transaction open rolls it *)
(* back and gives the connection to the pool.                              *)
(***************************************************************************)
Drop(r) ==
  /\ Active(r)
  /\ LeaveQueue(r)
  /\ Release(r)
  /\ request' = [request EXCEPT ![r] = Idle]

(* What a request does without anybody's answer. *)
Move(r) == Enqueue(r) \/ Acquire(r) \/ Write(r) \/ Commit(r)

Next == \E r \in Request :
  \/ \E k \in Kind : Arrive(r, k)
  \/ Move(r)
  \/ Answer(r)
  \/ AcquireTimeout(r)
  \/ Drop(r)

Spec == Init /\ [][Next]_vars

(***************************************************************************)
(* Handlers that can go on do.  PostgreSQL queues those that wait for a    *)
(* row, so none is passed over for ever: strong fairness.                  *)
(***************************************************************************)
MovesOn(r) == SF_vars(Move(r))
FairSpec == /\ Spec
            /\ \A r \in Request : MovesOn(r)

IsAnswered(r) == WF_vars(Answer(r))
ProvidersAnswer == \A r \in Request : IsAnswered(r)

TimesOut(r) == WF_vars(AcquireTimeout(r))
AcquireTimesOut == \A r \in Request : TimesOut(r)

-------------------------------------------------------------------------------
(* The request is not kept waiting: not by the queue, nor by a row that is *)
(* locked, nor by a provider.                                              *)
CanMove(r) ==
  \/ Do(r) = "begin" /\ ~Waiting(r)
  \/ queue # <<>> /\ Head(queue) = r /\ HasFree
  \/ Do(r) \in Table /\ writer[Do(r)] = NoRequest
  \/ Do(r) = "commit"

(***************************************************************************)
(* Requests never lock each other out of the pool or of rows: when none of *)
(* them can move, everyone who waits for a connection or a row does so     *)
(* because a link callback has a transaction open while its provider has   *)
(* not answered.  No pool size is too small for the portal itself.         *)
(***************************************************************************)
StallsOnlyBehindLinks ==
  (\A r \in Request : ~CanMove(r)) =>
    \A r \in Request : Do(r) \in {"begin"} \cup Table =>
      \E g \in pool : request[g].kind = "link_callback" /\ Do(g) = "ask"

(***************************************************************************)
(* If providers answer, every request ends, without any help from the      *)
(* pool's timeout: connections and rows always come free again, also after *)
(* failures.                                                               *)
(***************************************************************************)
EveryRequestEnds ==
  ProvidersAnswer => \A r \in Request : Active(r) ~> ~Active(r)

(***************************************************************************)
(* If providers may stay silent for ever, the timeout still ends every     *)
(* request that neither asks a provider nor writes a link: a hung provider *)
(* can make the portal refuse them, never keep them.                       *)
(***************************************************************************)
Bystander == Kind \ {"login_callback", "oauth_callback", "link_callback", "unlink"}
BystandersEnd ==
  AcquireTimesOut =>
    \A r \in Request : (Active(r) /\ request[r].kind \in Bystander) ~> ~Active(r)
===============================================================================
