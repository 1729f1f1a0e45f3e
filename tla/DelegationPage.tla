---------------------------- MODULE DelegationPage ----------------------------
(***************************************************************************)
(* The page a user lands on after linking an account for a client that     *)
(* asked for it: it lists the user's links and delegations, offers to      *)
(* delegate the most recent account to the client, and lets the user       *)
(* revoke delegations and remove links.  What it shows are cached answers  *)
(* of the server; its own requests make it fetch the lists again, and a    *)
(* request it has given up on may still take effect.                       *)
(*                                                                         *)
(* One user, one client and one provider, those of the page's URL.  The    *)
(* server is what Delegations and LinkTable promise, other tabs included.  *)
(***************************************************************************)
EXTENDS Integers, Sequences

CONSTANTS
  Account,   \* the user's accounts at the provider
  NoAccount,
  Post,      \* slots for POST /delegations in flight
  NoPost,
  MaxRows,   \* bound on the ids of delegations drawn
  MaxLogins  \* bound on the sign-ins at the provider

ASSUME PageAssumption == /\ NoAccount \notin Account
                         /\ NoPost \notin Post
                         /\ MaxRows \in Nat /\ MaxLogins \in Nat

VARIABLES
  links,       \* server: links[a], its last login and whether it may be used
  rows,        \* server: the account of each delegation, or NoAccount
  linkQuery,   \* page: the list of links
  query,       \* page: the list of delegations
  post,        \* post[s]: a POST in flight and how far the server is with it
  mutation,    \* page: the latest POST, as useMutation reports it
  deletion,    \* a DELETE in flight
  revoked      \* history: delegations the page was told are deleted

vars == <<links, rows, linkQuery, query, post, mutation, deletion, revoked>>

Link == [last_login : Nat, usable : BOOLEAN]
NoLink == [last_login |-> 0, usable |-> FALSE]
Linked(a) == a \in Account /\ links[a].last_login # 0

(* What useQuery keeps: the data, and the fetch under way. *)
QueryOver(Data) == [has : BOOLEAN, data : Data, failed : BOOLEAN,
                    fetch : {"idle", "sent", "answered"}, answer : Data]
FirstFetch(none) == [has |-> FALSE, data |-> none, failed |-> FALSE,
                     fetch |-> "sent", answer |-> none]
LinkList == [Account -> Nat]
DelegationList == SUBSET (Nat \X Account)
NoLinks == [a \in Account |-> 0]

NoPosting == [pc |-> "idle", account |-> NoAccount, id |-> 0, abandoned |-> FALSE]
NoDeletion == [pc |-> "idle", id |-> 0, account |-> NoAccount]

TypeOK ==
  /\ links \in [Account -> Link]
  /\ rows \in Seq(Account \cup {NoAccount})
  /\ linkQuery \in QueryOver(LinkList)
  /\ query \in QueryOver(DelegationList)
  /\ post \in [Post -> [pc : {"idle", "sent", "stored", "refused"},
                        account : Account \cup {NoAccount}, id : Nat, abandoned : BOOLEAN]]
  /\ \A s \in Post : post[s].pc # "idle" => post[s].account \in Account
  /\ mutation \in [status : {"idle", "pending", "success", "error"},
                   slot : Post \cup {NoPost}, id : Nat, reloads : BOOLEAN]
  /\ deletion \in [pc : {"idle", "sent", "deleted", "refused"}, id : Nat,
                   account : Account \cup {NoAccount}]
  /\ revoked \in SUBSET (1 .. Len(rows))

(* The page is opened by the redirect of a successful link: fresh caches,  *)
(* both lists requested, at least one account linked.                      *)
Init ==
  /\ links \in [Account -> {NoLink, [last_login |-> 1, usable |-> TRUE]}]
  /\ \E a \in Account : Linked(a)
  /\ rows \in {<<>>} \cup {<<a>> : a \in Account}
  /\ linkQuery = FirstFetch(NoLinks)
  /\ query = FirstFetch({})
  /\ post = [s \in Post |-> NoPosting]
  /\ mutation = [status |-> "idle", slot |-> NoPost, id |-> 0, reloads |-> FALSE]
  /\ deletion = NoDeletion
  /\ revoked = {}

-------------------------------------------------------------------------------
(***************************************************************************)
(* What LinkSuccessAlert renders.  `find' on a list that has not arrived   *)
(* is undefined, as if it were empty; the account is not compared.         *)
(***************************************************************************)
existingDelegation == query.has /\ query.data # {}
Shown == IF linkQuery.has THEN {a \in Account : linkQuery.data[a] # 0} ELSE {}
mostRecentProvider ==
  {a \in Shown : \A b \in Shown : linkQuery.data[b] <= linkQuery.data[a]}

(* The account a click would send; the hook falls back to an empty one. *)
providerAccount == IF Shown = {} THEN {NoAccount} ELSE mostRecentProvider

(* Mutant: the dialog is rendered before the links have arrived. *)
Bug_ConfirmOffered == ~existingDelegation

ConfirmOffered == Shown # {} /\ ~existingDelegation
RetryOffered == Shown # {} /\ mutation.status = "error"

-------------------------------------------------------------------------------
(***************************************************************************)
(* The queries.  The server reads a list at one moment and the page gets   *)
(* it at a later one, or an error after the retries of the query library,  *)
(* which keeps the old data.  The library fetches again when the window    *)
(* gets the focus and when a mutation invalidates the list; the latter     *)
(* drops the answer of a fetch under way, except that of the first fetch.  *)
(***************************************************************************)
Rows == {<<id, rows[id]>> : id \in {i \in 1 .. Len(rows) : rows[i] # NoAccount}}

fetchProviderLinks ==
  /\ linkQuery.fetch = "sent"
  /\ linkQuery' = [linkQuery EXCEPT !.fetch = "answered",
                                    !.answer = [a \in Account |-> links[a].last_login]]
  /\ UNCHANGED <<links, rows, query, post, mutation, deletion, revoked>>

fetchDelegations ==
  /\ query.fetch = "sent"
  /\ query' = [query EXCEPT !.fetch = "answered", !.answer = Rows]
  /\ UNCHANGED <<links, rows, linkQuery, post, mutation, deletion, revoked>>

Settled(q, none) == [has |-> TRUE, data |-> q.answer, failed |-> FALSE,
                     fetch |-> "idle", answer |-> none]
Arrive ==
  /\ \/ /\ linkQuery.fetch = "answered"
        /\ linkQuery' = Settled(linkQuery, NoLinks)
        /\ UNCHANGED query
     \/ /\ query.fetch = "answered"
        /\ query' = Settled(query, {})
        /\ UNCHANGED linkQuery
  /\ UNCHANGED <<links, rows, post, mutation, deletion, revoked>>

Failed(q, none) == [q EXCEPT !.fetch = "idle", !.answer = none, !.failed = TRUE]
FetchFails ==
  /\ \/ /\ linkQuery.fetch # "idle"
        /\ linkQuery' = Failed(linkQuery, NoLinks)
        /\ UNCHANGED query
     \/ /\ query.fetch # "idle"
        /\ query' = Failed(query, {})
        /\ UNCHANGED linkQuery
  /\ UNCHANGED <<links, rows, post, mutation, deletion, revoked>>

Refetch(q, none) == [q EXCEPT !.fetch = "sent", !.answer = none]
Focus ==
  /\ linkQuery' = IF linkQuery.fetch = "idle" THEN Refetch(linkQuery, NoLinks) ELSE linkQuery
  /\ query' = IF query.fetch = "idle" THEN Refetch(query, {}) ELSE query
  /\ linkQuery' # linkQuery \/ query' # query
  /\ UNCHANGED <<links, rows, post, mutation, deletion, revoked>>

Reloads(q) == q.has \/ q.fetch = "idle"
invalidateQueries(q, none) == IF Reloads(q) THEN Refetch(q, none) ELSE q

-------------------------------------------------------------------------------
(***************************************************************************)
(* useDelegateProvider.  The button stays enabled while a POST is pending; *)
(* the hook reports on the latest one only, but each one that succeeds     *)
(* invalidates the list.  httpClient gives up after 30 seconds.            *)
(***************************************************************************)
confirmDelegation(s) ==
  /\ ConfirmOffered \/ RetryOffered
  /\ post[s].pc = "idle"
  /\ \E a \in providerAccount :
       post' = [post EXCEPT ![s] = [NoPosting EXCEPT !.pc = "sent", !.account = a]]
  /\ mutation' = [status |-> "pending", slot |-> s, id |-> 0, reloads |-> FALSE]
  /\ UNCHANGED <<links, rows, linkQuery, query, deletion, revoked>>

(* The server's part; a duplicate is stored like any other row. *)
add_delegation(s) ==
  /\ post[s].pc = "sent"
  /\ \/ /\ Linked(post[s].account) /\ links[post[s].account].usable
        /\ Len(rows) < MaxRows
        /\ rows' = Append(rows, post[s].account)
        /\ post' = [post EXCEPT ![s].pc = "stored", ![s].id = Len(rows')]
     \/ /\ post' = [post EXCEPT ![s].pc = "refused"]
        /\ UNCHANGED rows
  /\ UNCHANGED <<links, linkQuery, query, mutation, deletion, revoked>>

Report(s, status) ==
  mutation' = IF mutation.slot = s
                THEN [status |-> status, slot |-> s, id |-> post[s].id,
                      reloads |-> status = "success" /\ Reloads(query)]
                ELSE mutation

(* Mutant: the list is not invalidated when a delegation was made. *)
Bug_onSuccess(s) ==
  /\ post[s].pc = "stored" /\ ~post[s].abandoned
  /\ post' = [post EXCEPT ![s] = NoPosting]
  /\ Report(s, "success")
  /\ UNCHANGED <<links, rows, linkQuery, query, deletion, revoked>>

onSuccess(s) ==
  /\ post[s].pc = "stored" /\ ~post[s].abandoned
  /\ post' = [post EXCEPT ![s] = NoPosting]
  /\ Report(s, "success")
  /\ query' = invalidateQueries(query, {})
  /\ UNCHANGED <<links, rows, linkQuery, deletion, revoked>>

onError(s) ==
  /\ post[s].pc = "refused" /\ ~post[s].abandoned
  /\ post' = [post EXCEPT ![s] = NoPosting]
  /\ Report(s, "error")
  /\ UNCHANGED <<links, rows, linkQuery, query, deletion, revoked>>

Timeout(s) ==
  /\ post[s].pc # "idle" /\ ~post[s].abandoned
  /\ post' = [post EXCEPT ![s].abandoned = TRUE]
  /\ Report(s, "error")
  /\ UNCHANGED <<links, rows, linkQuery, query, deletion, revoked>>

(* Nobody waits for the answer, or the request never reached the server. *)
Forget(s) ==
  /\ post[s].abandoned
  /\ post' = [post EXCEPT ![s] = NoPosting]
  /\ UNCHANGED <<links, rows, linkQuery, query, mutation, deletion, revoked>>

-------------------------------------------------------------------------------
(***************************************************************************)
(* useDeleteDelegation and useUnlinkProvider: by the id of a shown card.   *)
(***************************************************************************)
deleteDelegation ==
  /\ deletion.pc = "idle"
  /\ \E d \in query.data : deletion' = [NoDeletion EXCEPT !.pc = "sent", !.id = d[1]]
  /\ UNCHANGED <<links, rows, linkQuery, query, post, mutation, revoked>>

unlinkProvider ==
  /\ deletion.pc = "idle"
  /\ \E a \in Shown : deletion' = [NoDeletion EXCEPT !.pc = "sent", !.account = a]
  /\ UNCHANGED <<links, rows, linkQuery, query, post, mutation, revoked>>

(* The server's part: it refuses what is not there (any more).             *)
delete_delegation ==
  /\ deletion.id # 0 /\ rows[deletion.id] # NoAccount
  /\ rows' = [rows EXCEPT ![deletion.id] = NoAccount]
  /\ deletion' = [deletion EXCEPT !.pc = "deleted"]
  /\ UNCHANGED links

unlink_resource_provider ==
  /\ deletion.id = 0 /\ Linked(deletion.account)
  /\ links' = [links EXCEPT ![deletion.account] = NoLink]
  /\ deletion' = [deletion EXCEPT !.pc = "deleted"]
  /\ UNCHANGED rows

NothingDeleted ==
  /\ deletion' = [deletion EXCEPT !.pc = "refused"]
  /\ UNCHANGED <<links, rows>>

Deletes ==
  /\ deletion.pc = "sent"
  /\ delete_delegation \/ unlink_resource_provider \/ NothingDeleted
  /\ UNCHANGED <<linkQuery, query, post, mutation, revoked>>

(* Mutant: the list is not invalidated when a delegation was deleted. *)
Bug_Deleted ==
  /\ deletion.pc = "deleted"
  /\ deletion' = NoDeletion
  /\ revoked' = revoked \cup ({deletion.id} \ {0})
  /\ UNCHANGED <<links, rows, linkQuery, query, post, mutation>>

Deleted ==
  /\ deletion.pc = "deleted"
  /\ deletion' = NoDeletion
  /\ IF deletion.id # 0
       THEN /\ query' = invalidateQueries(query, {})
            /\ revoked' = revoked \cup {deletion.id}
            /\ UNCHANGED linkQuery
       ELSE /\ linkQuery' = invalidateQueries(linkQuery, NoLinks)
            /\ UNCHANGED <<query, revoked>>
  /\ UNCHANGED <<links, rows, post, mutation>>

(* Refused, timed out or lost: no callback, the lists stay as they are. *)
NotDeleted ==
  /\ deletion.pc # "idle"
  /\ deletion' = NoDeletion
  /\ UNCHANGED <<links, rows, linkQuery, query, post, mutation, revoked>>

-------------------------------------------------------------------------------
(* Other tabs, other pages, an operator and the clock. *)
Logins == {links[a].last_login : a \in Account}
LinkElsewhere(a) ==
  /\ \/ \E n \in 1 .. MaxLogins :
          /\ \A m \in Logins : m < n
          /\ links' = [links EXCEPT ![a] = [last_login |-> n, usable |-> TRUE]]
     \/ /\ Linked(a)
        /\ links' \in {[links EXCEPT ![a] = NoLink], [links EXCEPT ![a].usable = FALSE]}
  /\ UNCHANGED <<rows, linkQuery, query, post, mutation, deletion, revoked>>

DelegateElsewhere ==
  /\ \/ /\ Len(rows) < MaxRows
        /\ \E a \in Account : Linked(a) /\ rows' = Append(rows, a)
     \/ \E id \in 1 .. Len(rows) : rows' = [rows EXCEPT ![id] = NoAccount]
  /\ UNCHANGED <<links, linkQuery, query, post, mutation, deletion, revoked>>

PostStep(s) == add_delegation(s) \/ onSuccess(s) \/ onError(s) \/ Timeout(s) \/ Forget(s)
FetchStep == fetchProviderLinks \/ fetchDelegations \/ Arrive \/ FetchFails
DeletionStep == deleteDelegation \/ unlinkProvider \/ Deletes \/ Deleted \/ NotDeleted

Next == \/ \E s \in Post : confirmDelegation(s) \/ PostStep(s)
        \/ FetchStep \/ Focus
        \/ DeletionStep
        \/ DelegateElsewhere
        \/ \E a \in Account : LinkElsewhere(a)

Spec == Init /\ [][Next]_vars

-------------------------------------------------------------------------------
(***************************************************************************)
(* The page reports a delegation as made, and the list fetched because of  *)
(* it has arrived: the list holds that delegation unless it has been       *)
(* deleted since; an answer read before the POST took effect is not taken  *)
(* for the one asked for after it.  Without reloads, when the POST was     *)
(* answered before the list had arrived at all, nothing of this kind holds.*)
(***************************************************************************)
SuccessIsReflected ==
  mutation.status = "success" /\ mutation.reloads /\ query.fetch = "idle" /\ ~query.failed =>
    \/ mutation.id \in {d[1] : d \in query.data}
    \/ rows[mutation.id] = NoAccount

(***************************************************************************)
(* A delegation the page was told is deleted does not stay on, nor come    *)
(* back to, the page once a list has been fetched.                         *)
(***************************************************************************)
RevokedIsGone ==
  query.fetch = "idle" /\ ~query.failed =>
    \A d \in query.data : d[1] \notin revoked
===============================================================================
