-------------------------- MODULE DelegationPageProofs --------------------------
(***************************************************************************)
(* Proofs about DelegationPage, for any accounts, any number of requests   *)
(* in flight and any bounds.                                               *)
(*                                                                         *)
(* The invariant follows the list of delegations through its cache: the    *)
(* answer under way, and the list shown once a fetch has succeeded, hold   *)
(* nothing that was revoked and everything that was reported as made.      *)
(* Many actions differ only in what else they change, so the proof first   *)
(* describes what any step may do to the rows, the cache, the report and   *)
(* the revocations, and then proves each fact once from that.              *)
(***************************************************************************)
EXTENDS DelegationPage, TLAPS

Ids == 1 .. Len(rows)

(* A delegation that is listed or deleted. *)
Reflected(id, list) == id \in {d[1] : d \in list} \/ rows[id] = NoAccount

LinksType == /\ links \in [Account -> Link]
             /\ linkQuery \in QueryOver(LinkList)

QueryType == /\ query \in QueryOver(DelegationList)
             /\ query.data # {} => query.has
             /\ \A d \in query.data \cup query.answer : d[1] \in Ids

PostRecord == [pc : {"idle", "sent", "stored", "refused"},
               account : Account \cup {NoAccount}, id : Nat, abandoned : BOOLEAN]
PostType == /\ post \in [Post -> PostRecord]
            /\ \A s \in Post : post[s].pc # "idle" => post[s].account \in Account
            /\ \A s \in Post : post[s].pc = "stored" => post[s].id \in Ids

MutationRecord == [status : {"idle", "pending", "success", "error"},
                   slot : Post \cup {NoPost}, id : Nat, reloads : BOOLEAN]
MutationType == /\ mutation \in MutationRecord
                /\ mutation.status = "success" => mutation.id \in Ids

DeletionRecord == [pc : {"idle", "sent", "deleted", "refused"}, id : Nat,
                   account : Account \cup {NoAccount}]
DeletionType == /\ deletion \in DeletionRecord
                /\ deletion.id # 0 => deletion.id \in Ids /\ query.has
                /\ deletion.id # 0 /\ deletion.pc = "deleted" => rows[deletion.id] = NoAccount

RevokedType == /\ revoked \subseteq Ids
               /\ \A id \in revoked : rows[id] = NoAccount

Typed == /\ LinksType /\ QueryType /\ PostType /\ MutationType /\ DeletionType /\ RevokedType
         /\ rows \in Seq(Account \cup {NoAccount})

ListFacts(list) ==
  /\ \A d \in list : d[1] \notin revoked
  /\ mutation.status = "success" /\ mutation.reloads => Reflected(mutation.id, list)

CacheFacts == /\ query.fetch = "answered" => ListFacts(query.answer)
              /\ query.fetch = "idle" /\ ~query.failed => ListFacts(query.data)

IndInv == Typed /\ CacheFacts

LEMMA InvImpliesTypeOK == IndInv => TypeOK
BY DEF IndInv, Typed, LinksType, QueryType, PostType, PostRecord, MutationType, MutationRecord,
       DeletionType, DeletionRecord, RevokedType, Ids, TypeOK

LEMMA InvImpliesReflected == IndInv => SuccessIsReflected
BY DEF IndInv, CacheFacts, ListFacts, Reflected, SuccessIsReflected

LEMMA InvImpliesGone == IndInv => RevokedIsGone
BY DEF IndInv, CacheFacts, ListFacts, RevokedIsGone

-------------------------------------------------------------------------------
(* The records of the page. *)
LEMMA Bools == TRUE \in BOOLEAN /\ FALSE \in BOOLEAN
OBVIOUS

LEMMA PostingFacts ==
  /\ NoPosting \in PostRecord /\ NoPosting.pc = "idle"
  /\ \A a \in Account : /\ [NoPosting EXCEPT !.pc = "sent", !.account = a] \in PostRecord
                        /\ [NoPosting EXCEPT !.pc = "sent", !.account = a].pc = "sent"
                        /\ [NoPosting EXCEPT !.pc = "sent", !.account = a].account = a
<1>1. \A b \in BOOLEAN :
        LET p == [pc |-> "idle", account |-> NoAccount, id |-> 0, abandoned |-> b]
        IN  /\ p \in PostRecord /\ p.pc = "idle"
            /\ \A a \in Account : /\ [p EXCEPT !.pc = "sent", !.account = a] \in PostRecord
                                  /\ [p EXCEPT !.pc = "sent", !.account = a].pc = "sent"
                                  /\ [p EXCEPT !.pc = "sent", !.account = a].account = a
  BY DEF PostRecord
<1> QED
  BY <1>1, Bools DEF NoPosting

LEMMA DeletionFacts ==
  /\ NoDeletion \in DeletionRecord /\ NoDeletion.id = 0
  /\ \A n \in Nat : LET d == [NoDeletion EXCEPT !.pc = "sent", !.id = n]
                    IN  d \in DeletionRecord /\ d.pc = "sent" /\ d.id = n
  /\ \A a \in Account : LET d == [NoDeletion EXCEPT !.pc = "sent", !.account = a]
                        IN  d \in DeletionRecord /\ d.pc = "sent" /\ d.id = 0
  /\ \A d \in DeletionRecord, pc \in {"deleted", "refused"} :
       LET e == [d EXCEPT !.pc = pc]
       IN  e \in DeletionRecord /\ e.pc = pc /\ e.id = d.id
BY DEF NoDeletion, DeletionRecord

(* What becomes of a cached list. *)
Sent(q, p, none) == /\ p.fetch = "sent" /\ p.has = q.has /\ p.data = q.data
                    /\ p.failed = q.failed /\ p.answer = none
Answered(q, p, list) == /\ q.fetch = "sent" /\ p.fetch = "answered"
                        /\ p.has = q.has /\ p.data = q.data
                        /\ p.failed = q.failed /\ p.answer = list
Arrived(q, p, none) == /\ q.fetch = "answered" /\ p.fetch = "idle"
                       /\ p.has /\ p.data = q.answer /\ ~p.failed /\ p.answer = none
Broken(q, p, none) == /\ p.fetch = "idle" /\ p.has = q.has /\ p.data = q.data
                      /\ p.failed /\ p.answer = none

LEMMA QueryRecords ==
  ASSUME NEW Data, NEW none \in Data, NEW list \in Data, NEW q \in QueryOver(Data)
  PROVE  /\ Refetch(q, none) \in QueryOver(Data) /\ Sent(q, Refetch(q, none), none)
         /\ LET p == [q EXCEPT !.fetch = "answered", !.answer = list]
            IN  p \in QueryOver(Data) /\ (q.fetch = "sent" => Answered(q, p, list))
         /\ /\ Settled(q, none) \in QueryOver(Data)
            /\ q.fetch = "answered" => Arrived(q, Settled(q, none), none)
         /\ Failed(q, none) \in QueryOver(Data) /\ Broken(q, Failed(q, none), none)
<1>1. Refetch(q, none) \in QueryOver(Data) /\ Sent(q, Refetch(q, none), none)
  BY DEF Refetch, QueryOver, Sent
<1>2. LET p == [q EXCEPT !.fetch = "answered", !.answer = list]
      IN  p \in QueryOver(Data) /\ (q.fetch = "sent" => Answered(q, p, list))
  BY DEF QueryOver, Answered
<1>3. /\ Settled(q, none) \in QueryOver(Data)
      /\ q.fetch = "answered" => Arrived(q, Settled(q, none), none)
  <2>1. \A a, b \in BOOLEAN :
          LET p == [has |-> a, data |-> q.answer, failed |-> b, fetch |-> "idle", answer |-> none]
          IN  /\ p \in QueryOver(Data) /\ p.has = a /\ p.failed = b
              /\ p.data = q.answer /\ p.fetch = "idle" /\ p.answer = none
    BY DEF QueryOver
  <2>2. LET p == Settled(q, none)
        IN  /\ p \in QueryOver(Data) /\ p.has = TRUE /\ p.failed = FALSE
            /\ p.data = q.answer /\ p.fetch = "idle" /\ p.answer = none
    BY <2>1, Bools DEF Settled
  <2> QED
    BY <2>2 DEF Arrived
<1>4. Failed(q, none) \in QueryOver(Data) /\ Broken(q, Failed(q, none), none)
  <2>1. \A b \in BOOLEAN :
          LET p == [q EXCEPT !.fetch = "idle", !.answer = none, !.failed = b]
          IN  /\ p \in QueryOver(Data) /\ p.failed = b
              /\ p.has = q.has /\ p.data = q.data /\ p.fetch = "idle" /\ p.answer = none
    BY DEF QueryOver
  <2>2. LET p == Failed(q, none)
        IN  /\ p \in QueryOver(Data) /\ p.failed = TRUE
            /\ p.has = q.has /\ p.data = q.data /\ p.fetch = "idle" /\ p.answer = none
    BY <2>1, Bools DEF Failed
  <2> QED
    BY <2>2 DEF Broken
<1> QED
  BY <1>1, <1>2, <1>3, <1>4

-------------------------------------------------------------------------------
(* What a step may do to each part of the state. *)
RowsMove == /\ rows' \in Seq(Account \cup {NoAccount})
            /\ Len(rows') >= Len(rows)
            /\ \A id \in Ids : rows'[id] \in {rows[id], NoAccount}

Resent == Sent(query, query', {})

QueryMove == /\ query' \in QueryOver(DelegationList)
             /\ \/ query' = query
                \/ Resent
                \/ Answered(query, query', Rows) /\ rows' = rows
                \/ Arrived(query, query', {})
                \/ Broken(query, query', {})

PostMove == /\ post' \in [Post -> PostRecord]
            /\ \A s \in Post : \/ post'[s] = post[s]
                               \/ post'[s].pc = "idle"
                               \/ /\ post'[s].account \in Account
                                  /\ post'[s].pc = "stored" => post'[s].id \in Ids'

MutationMove == /\ mutation' \in MutationRecord
                /\ \/ mutation' = mutation
                   \/ mutation'.status # "success"
                   \/ /\ mutation'.id \in Ids
                      /\ mutation'.reloads => Resent

DeletionMove == /\ deletion' \in DeletionRecord
                /\ \/ deletion' = deletion
                   \/ deletion'.id = 0
                   \/ /\ deletion'.id \in Ids /\ query.has
                      /\ deletion'.pc = "deleted" => rows'[deletion'.id] = NoAccount

RevokedMove == \/ revoked' = revoked
               \/ \E id \in Ids : /\ rows[id] = NoAccount
                                  /\ revoked' = revoked \cup {id}
                                  /\ Resent

PageStep == /\ RowsMove /\ QueryMove /\ PostMove /\ MutationMove /\ DeletionMove /\ RevokedMove
            /\ LinksType'

LEMMA StillMoves ==
  ASSUME IndInv
  PROVE  /\ UNCHANGED rows => RowsMove
         /\ UNCHANGED query => QueryMove
         /\ UNCHANGED post => PostMove
         /\ UNCHANGED mutation => MutationMove
         /\ UNCHANGED deletion => DeletionMove
         /\ UNCHANGED revoked => RevokedMove
         /\ UNCHANGED <<links, linkQuery>> => LinksType'
<1>1. UNCHANGED rows => RowsMove
  BY DEF IndInv, Typed, RowsMove, Ids
<1>2. UNCHANGED query => QueryMove
  BY DEF IndInv, Typed, QueryType, QueryMove
<1>3. UNCHANGED post => PostMove
  BY DEF IndInv, Typed, PostType, PostMove
<1>4. UNCHANGED mutation => MutationMove
  BY DEF IndInv, Typed, MutationType, MutationMove
<1>5. UNCHANGED deletion => DeletionMove
  BY DEF IndInv, Typed, DeletionType, DeletionMove
<1>6. UNCHANGED <<links, linkQuery>> => LinksType'
  BY DEF IndInv, Typed, LinksType
<1> QED
  BY <1>1, <1>2, <1>3, <1>4, <1>5, <1>6 DEF RevokedMove

(* Ids are never drawn twice, and what is deleted stays deleted. *)
LEMMA RowsStay ==
  ASSUME IndInv, PageStep
  PROVE  /\ rows \in Seq(Account \cup {NoAccount}) /\ Ids \subseteq Ids'
         /\ \A id \in Ids : rows[id] = NoAccount => rows'[id] = NoAccount
<1>1. Len(rows) \in Nat /\ Len(rows') \in Nat /\ Len(rows') >= Len(rows)
  BY DEF IndInv, Typed, PageStep, RowsMove
<1>2. Ids \subseteq Ids'
  BY <1>1 DEF Ids
<1> QED
  BY <1>2 DEF IndInv, Typed, PageStep, RowsMove

LEMMA RowsListed ==
  ASSUME IndInv
  PROVE  /\ Rows \in DelegationList
         /\ \A d \in Rows : d[1] \in Ids /\ rows[d[1]] # NoAccount
         /\ \A id \in Ids : Reflected(id, Rows)
<1>1. \A id \in Ids : id \in Nat /\ (rows[id] # NoAccount => rows[id] \in Account)
  BY DEF IndInv, Typed, Ids
<1>2. \A id \in Ids : rows[id] # NoAccount => <<id, rows[id]>> \in Rows
  BY DEF Rows, Ids
<1>3. \A d \in Rows : \E id \in Ids : rows[id] # NoAccount /\ d = <<id, rows[id]>>
  BY DEF Rows, Ids
<1>4. Rows \subseteq Nat \X Account
  BY <1>1, <1>3
<1>5. \A d \in Rows : d[1] \in Ids /\ rows[d[1]] # NoAccount
  BY <1>3
<1>6. \A id \in Ids : rows[id] # NoAccount => id \in {d[1] : d \in Rows}
  <2>1. \A id \in Ids : rows[id] # NoAccount => \E d \in Rows : d[1] = id
    <3> SUFFICES ASSUME NEW id \in Ids, rows[id] # NoAccount
                 PROVE  \E d \in Rows : d[1] = id
      OBVIOUS
    <3>1. <<id, rows[id]>>[1] = id
      OBVIOUS
    <3> QED
      BY <3>1, <1>2
  <2> QED
    BY <2>1
<1> QED
  BY <1>4, <1>5, <1>6 DEF DelegationList, Reflected

LEMMA StepTyped ==
  ASSUME IndInv, PageStep
  PROVE  Typed'
<1>r. /\ Ids \subseteq Ids' /\ \A id \in Ids : rows[id] = NoAccount => rows'[id] = NoAccount
      /\ rows' \in Seq(Account \cup {NoAccount})
  BY RowsStay DEF PageStep, RowsMove
<1>q. query.has => query'.has
  BY DEF PageStep, QueryMove, Resent, Sent, Answered, Arrived, Broken
<1>1. QueryType'
  <2>1. /\ query \in QueryOver(DelegationList) /\ (query.data # {} => query.has)
        /\ \A d \in query.data \cup query.answer : d[1] \in Ids
    BY DEF IndInv, Typed, QueryType
  <2>2. /\ query'.data \subseteq query.data \cup query.answer
        /\ query'.answer \subseteq query.data \cup query.answer \cup Rows
    BY DEF PageStep, QueryMove, Resent, Sent, Answered, Arrived, Broken
  <2>3. query'.data # {} => query'.has
    BY <2>1 DEF PageStep, QueryMove, Resent, Sent, Answered, Arrived, Broken
  <2>4. \A d \in query'.data \cup query'.answer : d[1] \in Ids'
    BY <1>r, <2>1, <2>2, RowsListed
  <2> QED
    BY <2>3, <2>4 DEF PageStep, QueryMove, QueryType
<1>2. PostType'
  <2>1. \A s \in Post : /\ post'[s].pc # "idle" => post'[s].account \in Account
                        /\ post'[s].pc = "stored" => post'[s].id \in Ids'
    BY <1>r DEF PageStep, PostMove, IndInv, Typed, PostType
  <2> QED
    BY <2>1 DEF PageStep, PostMove, PostType
<1>3. MutationType'
  <2>1. mutation'.status = "success" => mutation'.id \in Ids'
    BY <1>r DEF PageStep, MutationMove, IndInv, Typed, MutationType
  <2> QED
    BY <2>1 DEF PageStep, MutationMove, MutationType
<1>4. DeletionType'
  <2>1. deletion'.id # 0 => deletion'.id \in Ids' /\ query'.has
    BY <1>r, <1>q DEF PageStep, DeletionMove, IndInv, Typed, DeletionType
  <2>2. deletion'.id # 0 /\ deletion'.pc = "deleted" => rows'[deletion'.id] = NoAccount
    BY <1>r DEF PageStep, DeletionMove, IndInv, Typed, DeletionType
  <2> QED
    BY <2>1, <2>2 DEF PageStep, DeletionMove, DeletionType
<1>5. RevokedType'
  BY <1>r DEF PageStep, RevokedMove, IndInv, Typed, RevokedType
<1> QED
  BY <1>r, <1>1, <1>2, <1>3, <1>4, <1>5 DEF PageStep, Typed

(* Facts about a list survive as long as no fetch is started for it. *)
LEMMA FactsStay ==
  ASSUME IndInv, PageStep, ~Resent, NEW list, ListFacts(list),
         \A d \in list : d[1] \in Ids
  PROVE  ListFacts(list)'
<1>1. revoked' = revoked
  BY DEF PageStep, RevokedMove
<1>2. ASSUME mutation'.status = "success", mutation'.reloads
      PROVE  mutation' = mutation /\ mutation.id \in Ids
  BY <1>2 DEF PageStep, MutationMove, IndInv, Typed, MutationType
<1>3. ASSUME mutation'.status = "success", mutation'.reloads
      PROVE  mutation'.id \in {d[1] : d \in list} \/ rows'[mutation'.id] = NoAccount
  <2>1. mutation' = mutation /\ mutation.id \in Ids
    BY <1>2, <1>3
  <2>2. mutation.id \in {d[1] : d \in list} \/ rows[mutation.id] = NoAccount
    BY <1>3, <2>1 DEF ListFacts, Reflected
  <2> QED
    BY <2>1, <2>2, RowsStay
<1> QED
  BY <1>1, <1>3 DEF ListFacts, Reflected

LEMMA StepCache ==
  ASSUME IndInv, PageStep
  PROVE  CacheFacts'
<1>t. /\ \A d \in query.data \cup query.answer : d[1] \in Ids
      /\ query.fetch = "answered" => ListFacts(query.answer)
      /\ query.fetch = "idle" /\ ~query.failed => ListFacts(query.data)
  BY DEF IndInv, Typed, QueryType, CacheFacts
<1>1. CASE Resent
  BY <1>1 DEF Resent, Sent, CacheFacts
<1>2. CASE ~Resent /\ query' = query
  <2>1. query.fetch = "answered" => ListFacts(query.answer)'
    <3> SUFFICES ASSUME query.fetch = "answered"
                 PROVE  \A list : list = query.answer => ListFacts(list)'
      BY <1>2 DEF ListFacts, Reflected
    <3> QED
      BY <1>t, <1>2, FactsStay
  <2>2. query.fetch = "idle" /\ ~query.failed => ListFacts(query.data)'
    <3> SUFFICES ASSUME query.fetch = "idle", ~query.failed
                 PROVE  \A list : list = query.data => ListFacts(list)'
      BY <1>2 DEF ListFacts, Reflected
    <3> QED
      BY <1>t, <1>2, FactsStay
  <2> QED
    BY <1>2, <2>1, <2>2 DEF CacheFacts
<1>3. CASE ~Resent /\ Answered(query, query', Rows) /\ rows' = rows
  <2>1. \A d \in Rows : d[1] \notin revoked'
    BY <1>3, RowsListed DEF PageStep, RevokedMove, IndInv, Typed, RevokedType
  <2>2. mutation'.status = "success" /\ mutation'.reloads => mutation'.id \in Ids
    BY <1>3 DEF PageStep, MutationMove, IndInv, Typed, MutationType
  <2>3. mutation'.status = "success" /\ mutation'.reloads =>
          mutation'.id \in {d[1] : d \in Rows} \/ rows'[mutation'.id] = NoAccount
    BY <1>3, <2>2, RowsListed DEF Reflected
  <2> QED
    BY <1>3, <2>1, <2>3 DEF Answered, CacheFacts, ListFacts, Reflected
<1>4. CASE ~Resent /\ Arrived(query, query', {})
  <2>1. query.fetch = "answered" /\ query'.fetch = "idle" /\ query'.data = query.answer
    BY <1>4 DEF Arrived
  <2>2. \A list : list = query.answer => ListFacts(list)'
    BY <1>t, <1>4, <2>1, FactsStay
  <2>3. ListFacts(query.data)'
    BY <2>1, <2>2 DEF ListFacts, Reflected
  <2> QED
    BY <2>1, <2>3 DEF CacheFacts
<1>5. CASE Broken(query, query', {})
  BY <1>5 DEF Broken, CacheFacts
<1> QED
  BY <1>1, <1>2, <1>3, <1>4, <1>5 DEF PageStep, QueryMove

-------------------------------------------------------------------------------
(* Each action moves the parts as PageStep says. *)
LEMMA InvTypes ==
  ASSUME IndInv
  PROVE  /\ links \in [Account -> Link] /\ linkQuery \in QueryOver(LinkList)
         /\ rows \in Seq(Account \cup {NoAccount}) /\ query \in QueryOver(DelegationList)
         /\ post \in [Post -> PostRecord] /\ mutation \in MutationRecord
         /\ deletion \in DeletionRecord
         /\ NoLinks \in LinkList /\ {} \in DelegationList /\ NoLink \in Link
<1>1. NoLinks \in LinkList /\ {} \in DelegationList
  BY DEF NoLinks, LinkList, DelegationList
<1>2. \A b \in BOOLEAN : [last_login |-> 0, usable |-> b] \in Link
  BY DEF Link
<1>3. NoLink \in Link
  BY <1>2, Bools DEF NoLink
<1> QED
  BY <1>1, <1>3 DEF IndInv, Typed, LinksType, QueryType, PostType, MutationType, DeletionType

LEMMA FetchMoves ==
  ASSUME IndInv, FetchStep \/ Focus
  PROVE  PageStep
<1>a. /\ RowsMove /\ PostMove /\ MutationMove /\ DeletionMove /\ RevokedMove
      /\ UNCHANGED <<links, rows>>
  <2>1. UNCHANGED <<links, rows, post, mutation, deletion, revoked>>
    BY DEF FetchStep, fetchProviderLinks, fetchDelegations, Arrive, FetchFails, Focus
  <2> QED
    BY <2>1, StillMoves
<1>b. (UNCHANGED query => QueryMove) /\ (UNCHANGED linkQuery => linkQuery' \in QueryOver(LinkList))
  BY StillMoves, InvTypes
<1>c. /\ Refetch(query, {}) \in QueryOver(DelegationList)
      /\ Sent(query, Refetch(query, {}), {})
      /\ Settled(query, {}) \in QueryOver(DelegationList)
      /\ query.fetch = "answered" => Arrived(query, Settled(query, {}), {})
      /\ Failed(query, {}) \in QueryOver(DelegationList)
      /\ Broken(query, Failed(query, {}), {})
  BY InvTypes, QueryRecords
<1>d. \A list \in DelegationList :
        LET p == [query EXCEPT !.fetch = "answered", !.answer = list]
        IN  p \in QueryOver(DelegationList) /\ (query.fetch = "sent" => Answered(query, p, list))
  BY InvTypes, QueryRecords
<1>e. /\ Refetch(linkQuery, NoLinks) \in QueryOver(LinkList)
      /\ Settled(linkQuery, NoLinks) \in QueryOver(LinkList)
      /\ Failed(linkQuery, NoLinks) \in QueryOver(LinkList)
  BY InvTypes, QueryRecords
<1>f. \A list \in LinkList :
        [linkQuery EXCEPT !.fetch = "answered", !.answer = list] \in QueryOver(LinkList)
  BY InvTypes, QueryRecords
<1>1. QueryMove
  <2>1. CASE fetchProviderLinks
    BY <1>b, <2>1 DEF fetchProviderLinks
  <2>2. CASE fetchDelegations
    <3>1. query' \in QueryOver(DelegationList) /\ Answered(query, query', Rows) /\ rows' = rows
      BY <2>2, <1>d, RowsListed DEF fetchDelegations
    <3> QED
      BY <3>1 DEF QueryMove
  <2>3. CASE Arrive
    BY <1>b, <1>c, <2>3 DEF Arrive, QueryMove
  <2>4. CASE FetchFails
    BY <1>b, <1>c, <2>4 DEF FetchFails, QueryMove
  <2>5. CASE Focus
    BY <1>b, <1>c, <2>5 DEF Focus, QueryMove, Resent
  <2> QED
    BY <2>1, <2>2, <2>3, <2>4, <2>5 DEF FetchStep
<1>2. LinksType'
  <2>1. CASE fetchProviderLinks
    <3>1. [a \in Account |-> links[a].last_login] \in LinkList
      BY InvTypes DEF LinkList, Link
    <3>2. linkQuery' \in QueryOver(LinkList)
      BY <1>f, <2>1, <3>1 DEF fetchProviderLinks
    <3> QED
      BY <1>a, <3>2, InvTypes DEF LinksType
  <2>2. CASE ~fetchProviderLinks
    <3>1. linkQuery' \in QueryOver(LinkList)
      BY <1>b, <1>e, <2>2 DEF FetchStep, fetchDelegations, Arrive, FetchFails, Focus
    <3> QED
      BY <1>a, <3>1, InvTypes DEF LinksType
  <2> QED
    BY <2>1, <2>2
<1> QED
  BY <1>a, <1>1, <1>2 DEF PageStep

LEMMA ReportMoves ==
  ASSUME IndInv, NEW s \in Post, NEW status \in {"success", "error"}, Report(s, status),
         status = "success" => post[s].id \in Ids /\ (Reloads(query) => Resent)
  PROVE  MutationMove
<1>1. post[s].id \in Nat
  BY InvTypes DEF PostRecord
<1>2. \A b \in BOOLEAN :
        LET m == [status |-> status, slot |-> s, id |-> post[s].id, reloads |-> b]
        IN m \in MutationRecord /\ m.status = status /\ m.id = post[s].id /\ m.reloads = b
  BY <1>1 DEF MutationRecord
<1>3. CASE mutation.slot = s
  <2>1. PICK b \in BOOLEAN : b = (status = "success" /\ Reloads(query))
    BY Bools
  <2>2. mutation' = [status |-> status, slot |-> s, id |-> post[s].id, reloads |-> b]
    BY <1>3, <2>1 DEF Report
  <2>3. /\ mutation' \in MutationRecord /\ mutation'.status = status
        /\ mutation'.id = post[s].id /\ mutation'.reloads = b
    BY <1>2, <2>2
  <2> QED
    BY <2>1, <2>3 DEF MutationMove
<1>4. CASE mutation.slot # s
  BY <1>4, InvTypes DEF Report, MutationMove
<1> QED
  BY <1>3, <1>4

(* A slot of post takes a new value. *)
LEMMA SlotMoves ==
  ASSUME IndInv, NEW s \in Post, NEW p \in PostRecord, post' = [post EXCEPT ![s] = p],
         \/ p.pc = "idle"
         \/ p.account \in Account /\ (p.pc = "stored" => p.id \in Ids')
  PROVE  PostMove
<1>1. post' \in [Post -> PostRecord]
  BY InvTypes
<1>2. post'[s] = p /\ \A t \in Post \ {s} : post'[t] = post[t]
  BY InvTypes
<1> QED
  BY <1>1, <1>2 DEF PostMove

LEMMA RowAppended ==
  ASSUME IndInv, NEW a \in Account, rows' = Append(rows, a)
  PROVE  RowsMove /\ Len(rows') \in Ids'
<1>1. rows' \in Seq(Account \cup {NoAccount}) /\ Len(rows') = Len(rows) + 1 /\ Len(rows) \in Nat
  BY InvTypes
<1>2. \A id \in Ids : rows'[id] = rows[id]
  BY InvTypes DEF Ids
<1> QED
  BY <1>1, <1>2 DEF RowsMove, Ids

LEMMA RowEmptied ==
  ASSUME IndInv, NEW n \in Ids, rows' = [rows EXCEPT ![n] = NoAccount]
  PROVE  RowsMove /\ rows'[n] = NoAccount
<1>1. rows' \in Seq(Account \cup {NoAccount}) /\ Len(rows') = Len(rows)
  BY InvTypes DEF Ids
<1>2. \A id \in Ids : rows'[id] = IF id = n THEN NoAccount ELSE rows[id]
  BY InvTypes DEF Ids
<1> QED
  BY <1>1, <1>2, InvTypes DEF RowsMove, Ids

LEMMA ConfirmMoves ==
  ASSUME IndInv, NEW s \in Post, confirmDelegation(s)
  PROVE  PageStep
<1>1. RowsMove /\ QueryMove /\ DeletionMove /\ RevokedMove /\ LinksType'
  BY StillMoves DEF confirmDelegation
<1>2. PICK a \in providerAccount :
        post' = [post EXCEPT ![s] = [NoPosting EXCEPT !.pc = "sent", !.account = a]]
  BY DEF confirmDelegation
<1>3. a \in Account
  BY DEF confirmDelegation, ConfirmOffered, RetryOffered, providerAccount, mostRecentProvider, Shown
<1>4. PostMove
  <2> DEFINE p == [NoPosting EXCEPT !.pc = "sent", !.account = a]
  <2>1. p \in PostRecord /\ p.pc = "sent" /\ p.account = a
    BY <1>3, PostingFacts
  <2>2. post' = [post EXCEPT ![s] = p]
    BY <1>2
  <2> HIDE DEF p
  <2> QED
    BY <1>3, <2>1, <2>2, SlotMoves
<1>5. MutationMove
  <2>1. \A b \in BOOLEAN :
          LET m == [status |-> "pending", slot |-> s, id |-> 0, reloads |-> b]
          IN  m \in MutationRecord /\ m.status = "pending"
    BY DEF MutationRecord
  <2>2. mutation' = [status |-> "pending", slot |-> s, id |-> 0, reloads |-> FALSE]
    BY DEF confirmDelegation
  <2>3. mutation' \in MutationRecord /\ mutation'.status = "pending"
    BY <2>1, <2>2, Bools
  <2> QED
    BY <2>3 DEF MutationMove
<1> QED
  BY <1>1, <1>4, <1>5 DEF PageStep

LEMMA AddMoves ==
  ASSUME IndInv, NEW s \in Post, add_delegation(s)
  PROVE  PageStep
<1>1. QueryMove /\ MutationMove /\ DeletionMove /\ RevokedMove /\ LinksType'
  BY StillMoves DEF add_delegation
<1>2. post[s] \in PostRecord /\ post[s].pc = "sent" /\ post[s].account \in Account
  BY InvTypes DEF add_delegation, IndInv, Typed, PostType
<1>3. CASE /\ rows' = Append(rows, post[s].account)
           /\ post' = [post EXCEPT ![s].pc = "stored", ![s].id = Len(rows')]
  <2> DEFINE p == [post[s] EXCEPT !.pc = "stored", !.id = Len(rows')]
  <2>1. RowsMove /\ Len(rows') \in Ids'
    BY <1>2, <1>3, RowAppended
  <2>2. Len(rows') \in Nat
    BY <2>1 DEF RowsMove
  <2>3. p \in PostRecord /\ p.account = post[s].account /\ p.id = Len(rows')
    BY <1>2, <2>2 DEF PostRecord
  <2>4. post' = [post EXCEPT ![s] = p]
    BY <1>3, InvTypes
  <2> HIDE DEF p
  <2>5. PostMove
    BY <1>2, <2>1, <2>3, <2>4, SlotMoves
  <2> QED
    BY <1>1, <2>1, <2>5 DEF PageStep
<1>4. CASE UNCHANGED rows /\ post' = [post EXCEPT ![s].pc = "refused"]
  <2> DEFINE p == [post[s] EXCEPT !.pc = "refused"]
  <2>1. RowsMove
    BY <1>4, StillMoves
  <2>2. p \in PostRecord /\ p.account = post[s].account /\ p.pc = "refused"
    BY <1>2 DEF PostRecord
  <2>3. post' = [post EXCEPT ![s] = p]
    BY <1>4, InvTypes
  <2> HIDE DEF p
  <2>4. PostMove
    BY <1>2, <2>2, <2>3, SlotMoves
  <2> QED
    BY <1>1, <2>1, <2>4 DEF PageStep
<1> QED
  BY <1>3, <1>4 DEF add_delegation

LEMMA AnswerMoves ==
  ASSUME IndInv, NEW s \in Post, onSuccess(s) \/ onError(s) \/ Timeout(s) \/ Forget(s)
  PROVE  PageStep
<1>1. RowsMove /\ DeletionMove /\ RevokedMove /\ LinksType' /\ (UNCHANGED query => QueryMove)
  BY StillMoves DEF onSuccess, onError, Timeout, Forget
<1>2. CASE onSuccess(s)
  <2>1. Refetch(query, {}) \in QueryOver(DelegationList) /\ Sent(query, Refetch(query, {}), {})
    BY InvTypes, QueryRecords
  <2>2. QueryMove /\ (Reloads(query) => Resent)
    BY <1>2, <2>1, InvTypes DEF onSuccess, invalidateQueries, QueryMove, Resent
  <2>3. post[s].id \in Ids
    BY <1>2 DEF onSuccess, IndInv, Typed, PostType
  <2>4. MutationMove
    BY <1>2, <2>2, <2>3, ReportMoves DEF onSuccess
  <2>5. PostMove
    BY <1>2, PostingFacts, SlotMoves DEF onSuccess
  <2> QED
    BY <1>1, <2>2, <2>4, <2>5 DEF PageStep
<1>3. CASE onError(s)
  <2>1. MutationMove
    BY <1>3, ReportMoves DEF onError
  <2>2. PostMove
    BY <1>3, PostingFacts, SlotMoves DEF onError
  <2> QED
    BY <1>1, <1>3, <2>1, <2>2 DEF PageStep, onError
<1>4. CASE Timeout(s)
  <2>1. MutationMove
    BY <1>4, ReportMoves DEF Timeout
  <2>2. post[s] \in PostRecord /\ post[s].account \in Account
        /\ (post[s].pc = "stored" => post[s].id \in Ids)
    BY <1>4, InvTypes DEF Timeout, IndInv, Typed, PostType
  <2>3. \A b \in BOOLEAN :
          LET p == [post[s] EXCEPT !.abandoned = b]
          IN  p \in PostRecord /\ p.account = post[s].account /\ p.pc = post[s].pc /\ p.id = post[s].id
    BY <2>2 DEF PostRecord
  <2> DEFINE p == [post[s] EXCEPT !.abandoned = TRUE]
  <2>4. p \in PostRecord /\ p.account = post[s].account /\ p.pc = post[s].pc /\ p.id = post[s].id
    BY <2>3, Bools
  <2>5. post' = [post EXCEPT ![s] = p]
    BY <1>4, InvTypes DEF Timeout
  <2>6. Ids' = Ids
    BY <1>4 DEF Timeout, Ids
  <2> HIDE DEF p
  <2>7. PostMove
    BY <2>2, <2>4, <2>5, <2>6, SlotMoves
  <2> QED
    BY <1>1, <1>4, <2>1, <2>7 DEF PageStep, Timeout
<1>5. CASE Forget(s)
  <2>1. PostMove
    BY <1>5, PostingFacts, SlotMoves DEF Forget
  <2>2. MutationMove
    BY <1>5, StillMoves DEF Forget
  <2> QED
    BY <1>1, <1>5, <2>1, <2>2 DEF PageStep, Forget
<1> QED
  BY <1>2, <1>3, <1>4, <1>5

LEMMA DeletionMoves ==
  ASSUME IndInv, DeletionStep
  PROVE  PageStep
<1>1. PostMove /\ MutationMove
  BY StillMoves DEF DeletionStep, deleteDelegation, unlinkProvider, Deletes, delete_delegation,
                  unlink_resource_provider, NothingDeleted, Deleted, NotDeleted
<1>2. CASE deleteDelegation
  <2>1. PICK d \in query.data : deletion' = [NoDeletion EXCEPT !.pc = "sent", !.id = d[1]]
    BY <1>2 DEF deleteDelegation
  <2>2. d[1] \in Ids /\ d[1] \in Nat /\ query.has
    BY DEF IndInv, Typed, QueryType, Ids
  <2>3. deletion' \in DeletionRecord /\ deletion'.pc = "sent" /\ deletion'.id = d[1]
    BY <2>1, <2>2, DeletionFacts
  <2>4. DeletionMove
    BY <2>2, <2>3 DEF DeletionMove
  <2> QED
    BY <1>1, <1>2, <2>4, StillMoves DEF deleteDelegation, PageStep
<1>3. CASE unlinkProvider
  <2>1. PICK a \in Shown : deletion' = [NoDeletion EXCEPT !.pc = "sent", !.account = a]
    BY <1>3 DEF unlinkProvider
  <2>2. a \in Account
    BY DEF Shown
  <2>3. deletion' \in DeletionRecord /\ deletion'.id = 0
    BY <2>1, <2>2, DeletionFacts
  <2>4. DeletionMove
    BY <2>3 DEF DeletionMove
  <2> QED
    BY <1>1, <1>3, <2>4, StillMoves DEF unlinkProvider, PageStep
<1>4. CASE Deletes
  <2>1. QueryMove /\ RevokedMove
    BY <1>4, StillMoves DEF Deletes, delete_delegation, unlink_resource_provider, NothingDeleted
  <2>2. /\ deletion \in DeletionRecord
        /\ deletion.id # 0 => deletion.id \in Ids /\ query.has
    BY DEF IndInv, Typed, DeletionType
  <2>3. PICK pc \in {"deleted", "refused"} :
          /\ deletion' = [deletion EXCEPT !.pc = pc]
          /\ \/ /\ pc = "refused" /\ UNCHANGED <<links, rows>>
             \/ /\ deletion.id # 0 /\ UNCHANGED links
                /\ rows' = [rows EXCEPT ![deletion.id] = NoAccount]
             \/ /\ deletion.id = 0 /\ UNCHANGED rows
                /\ links' = [links EXCEPT ![deletion.account] = NoLink]
    BY <1>4 DEF Deletes, delete_delegation, unlink_resource_provider, NothingDeleted
  <2>4. deletion' \in DeletionRecord /\ deletion'.pc = pc /\ deletion'.id = deletion.id
    <3> DEFINE e == [deletion EXCEPT !.pc = pc]
    <3>1. e \in DeletionRecord /\ e.pc = pc /\ e.id = deletion.id
      BY <2>2 DEF DeletionRecord
    <3>2. deletion' = e
      BY <2>3
    <3> HIDE DEF e
    <3> QED
      BY <3>1, <3>2
  <2>5. CASE pc = "refused" /\ UNCHANGED <<links, rows>>
    <3>1. RowsMove /\ LinksType'
      BY <1>4, <2>5, StillMoves DEF Deletes, delete_delegation, unlink_resource_provider, NothingDeleted
    <3>2. DeletionMove
      BY <2>2, <2>4, <2>5 DEF DeletionMove
    <3> QED
      BY <1>1, <2>1, <3>1, <3>2 DEF PageStep
  <2>6. CASE /\ deletion.id # 0 /\ UNCHANGED links
             /\ rows' = [rows EXCEPT ![deletion.id] = NoAccount]
    <3>1. RowsMove /\ rows'[deletion.id] = NoAccount
      BY <2>2, <2>6, RowEmptied
    <3>2. LinksType'
      BY <1>4, <2>6, StillMoves DEF Deletes, delete_delegation, unlink_resource_provider, NothingDeleted
    <3>3. DeletionMove
      BY <2>2, <2>4, <2>6, <3>1 DEF DeletionMove
    <3> QED
      BY <1>1, <2>1, <3>1, <3>2, <3>3 DEF PageStep
  <2>7. CASE /\ deletion.id = 0 /\ UNCHANGED rows
             /\ links' = [links EXCEPT ![deletion.account] = NoLink]
    <3>1. RowsMove
      BY <2>7, StillMoves
    <3>2. links' \in [Account -> Link] /\ linkQuery' = linkQuery
      BY <1>4, <2>7, InvTypes DEF Deletes, delete_delegation, unlink_resource_provider, NothingDeleted
    <3>3. LinksType'
      BY <3>2, InvTypes DEF LinksType
    <3>4. DeletionMove
      BY <2>4, <2>7 DEF DeletionMove
    <3> QED
      BY <1>1, <2>1, <3>1, <3>3, <3>4 DEF PageStep
  <2> QED
    BY <2>3, <2>5, <2>6, <2>7
<1>5. CASE Deleted
  <2>1. RowsMove
    BY <1>5, StillMoves DEF Deleted
  <2>2. DeletionMove
    BY <1>5, DeletionFacts DEF Deleted, DeletionMove
  <2>3. CASE deletion.id # 0
    <3>1. deletion.id \in Ids /\ query.has /\ rows[deletion.id] = NoAccount
      BY <1>5, <2>3 DEF Deleted, IndInv, Typed, DeletionType
    <3>2. Refetch(query, {}) \in QueryOver(DelegationList) /\ Sent(query, Refetch(query, {}), {})
      BY InvTypes, QueryRecords
    <3>3. query' = Refetch(query, {}) /\ revoked' = revoked \cup {deletion.id}
      BY <1>5, <2>3, <3>1 DEF Deleted, invalidateQueries, Reloads
    <3>4. QueryMove /\ RevokedMove
      BY <3>1, <3>2, <3>3 DEF QueryMove, RevokedMove, Resent
    <3>5. LinksType'
      BY <1>5, <2>3, StillMoves DEF Deleted
    <3> QED
      BY <1>1, <2>1, <2>2, <3>4, <3>5 DEF PageStep
  <2>4. CASE deletion.id = 0
    <3>1. QueryMove /\ RevokedMove
      BY <1>5, <2>4, StillMoves DEF Deleted
    <3>2. Refetch(linkQuery, NoLinks) \in QueryOver(LinkList)
      BY InvTypes, QueryRecords
    <3>3. linkQuery' \in QueryOver(LinkList) /\ links' = links
      BY <1>5, <2>4, <3>2, InvTypes DEF Deleted, invalidateQueries
    <3>4. LinksType'
      BY <3>3, InvTypes DEF LinksType
    <3> QED
      BY <1>1, <2>1, <2>2, <3>1, <3>4 DEF PageStep
  <2> QED
    BY <2>3, <2>4
<1>6. CASE NotDeleted
  <2>1. DeletionMove
    BY <1>6, DeletionFacts DEF NotDeleted, DeletionMove
  <2> QED
    BY <1>1, <1>6, <2>1, StillMoves DEF NotDeleted, PageStep
<1> QED
  BY <1>2, <1>3, <1>4, <1>5, <1>6 DEF DeletionStep

LEMMA ElsewhereMoves ==
  ASSUME IndInv, DelegateElsewhere \/ \E a \in Account : LinkElsewhere(a)
  PROVE  PageStep
<1>1. QueryMove /\ PostMove /\ MutationMove /\ DeletionMove /\ RevokedMove
  BY StillMoves DEF DelegateElsewhere, LinkElsewhere
<1>2. CASE DelegateElsewhere
  <2>1. CASE \E a \in Account : rows' = Append(rows, a)
    <3>1. RowsMove
      BY <2>1, RowAppended
    <3> QED
      BY <1>1, <1>2, <3>1, StillMoves DEF DelegateElsewhere, PageStep
  <2>2. CASE \E id \in Ids : rows' = [rows EXCEPT ![id] = NoAccount]
    <3>1. RowsMove
      BY <2>2, RowEmptied
    <3> QED
      BY <1>1, <1>2, <3>1, StillMoves DEF DelegateElsewhere, PageStep
  <2> QED
    BY <1>2, <2>1, <2>2 DEF DelegateElsewhere, Ids
<1>3. CASE \E a \in Account : LinkElsewhere(a)
  <2>1. PICK a \in Account : LinkElsewhere(a)
    BY <1>3
  <2>2. \A n \in Nat, b \in BOOLEAN : [last_login |-> n, usable |-> b] \in Link
    BY DEF Link
  <2>3. \A n \in 1 .. MaxLogins : [last_login |-> n, usable |-> TRUE] \in Link
    <3>1. 1 .. MaxLogins \subseteq Nat
      BY PageAssumption
    <3> QED
      BY <2>2, <3>1, Bools
  <2>4. \A l \in Link, b \in BOOLEAN : [l EXCEPT !.usable = b] \in Link
    BY DEF Link
  <2>5. [links[a] EXCEPT !.usable = FALSE] \in Link
    BY <2>4, Bools, InvTypes
  <2>6. \/ links' \in {[links EXCEPT ![a] = NoLink], [links EXCEPT ![a].usable = FALSE]}
        \/ \E n \in 1 .. MaxLogins :
             links' = [links EXCEPT ![a] = [last_login |-> n, usable |-> TRUE]]
    BY <2>1 DEF LinkElsewhere
  <2>7. PICK l \in Link : links' = [links EXCEPT ![a] = l]
    BY <2>3, <2>5, <2>6, InvTypes
  <2>8. links' \in [Account -> Link] /\ UNCHANGED <<rows, linkQuery>>
    BY <2>1, <2>7, InvTypes DEF LinkElsewhere
  <2>9. RowsMove /\ LinksType'
    BY <2>8, InvTypes, StillMoves DEF LinksType
  <2> QED
    BY <1>1, <2>9 DEF PageStep
<1> QED
  BY <1>2, <1>3

-------------------------------------------------------------------------------
LEMMA InitInv == Init => IndInv
<1> SUFFICES ASSUME Init
             PROVE  IndInv
  OBVIOUS
<1>1. rows \in Seq(Account \cup {NoAccount}) /\ Len(rows) \in Nat
  <2>1. rows = <<>> \/ \E a \in Account : rows = <<a>>
    BY DEF Init
  <2>2. ASSUME rows = <<>>
        PROVE  rows \in Seq(Account \cup {NoAccount})
    BY <2>2
  <2>3. ASSUME NEW a \in Account, rows = <<a>>
        PROVE  rows \in Seq(Account \cup {NoAccount})
    <3>1. a \in Account \cup {NoAccount}
      OBVIOUS
    <3> QED
      BY <2>3, <3>1
  <2>4. rows \in Seq(Account \cup {NoAccount})
    BY <2>1, <2>2, <2>3
  <2> QED
    BY <2>4
<1>2. LinksType
  <2>1. \A b, c \in BOOLEAN :
          /\ [last_login |-> 0, usable |-> b] \in Link
          /\ [last_login |-> 1, usable |-> c] \in Link
    BY DEF Link
  <2>2. NoLink \in Link /\ [last_login |-> 1, usable |-> TRUE] \in Link
    BY <2>1, Bools DEF NoLink
  <2>3. links \in [Account -> Link]
    BY <2>2 DEF Init
  <2>4. linkQuery \in QueryOver(LinkList)
    <3>1. NoLinks \in LinkList
      BY DEF NoLinks, LinkList
    <3>2. \A b, c \in BOOLEAN :
            [has |-> b, data |-> NoLinks, failed |-> c, fetch |-> "sent", answer |-> NoLinks]
              \in QueryOver(LinkList)
      BY <3>1 DEF QueryOver
    <3>3. FirstFetch(NoLinks) \in QueryOver(LinkList)
      BY <3>2, Bools DEF FirstFetch
    <3> QED
      BY <3>3 DEF Init
  <2> QED
    BY <2>3, <2>4 DEF LinksType
<1>3. QueryType /\ query.fetch = "sent"
  <2>1. {} \in DelegationList
    BY DEF DelegationList
  <2>2. \A b, c \in BOOLEAN :
          LET q == [has |-> b, data |-> {}, failed |-> c, fetch |-> "sent", answer |-> {}]
          IN  /\ q \in QueryOver(DelegationList)
              /\ q.fetch = "sent" /\ q.data = {} /\ q.answer = {}
    BY <2>1 DEF QueryOver
  <2>3. LET q == FirstFetch({})
        IN  /\ q \in QueryOver(DelegationList)
            /\ q.fetch = "sent" /\ q.data = {} /\ q.answer = {}
    BY <2>2, Bools DEF FirstFetch
  <2>4. query = FirstFetch({})
    BY DEF Init
  <2> QED
    BY <2>3, <2>4 DEF QueryType
<1>4. PostType
  <2>1. post = [s \in Post |-> NoPosting]
    BY DEF Init
  <2> QED
    BY <2>1, PostingFacts DEF PostType
<1>5. MutationType
  <2>1. \A b \in BOOLEAN :
          LET m == [status |-> "idle", slot |-> NoPost, id |-> 0, reloads |-> b]
          IN  m \in MutationRecord /\ m.status = "idle"
    BY DEF MutationRecord
  <2>2. mutation \in MutationRecord /\ mutation.status = "idle"
    BY <2>1, Bools DEF Init
  <2> QED
    BY <2>2 DEF MutationType
<1>6. DeletionType
  BY DeletionFacts DEF Init, DeletionType
<1>7. RevokedType
  BY DEF Init, RevokedType
<1>8. CacheFacts
  BY <1>3 DEF CacheFacts
<1> QED
  BY <1>1, <1>2, <1>3, <1>4, <1>5, <1>6, <1>7, <1>8 DEF IndInv, Typed

LEMMA StepInv == IndInv /\ [Next]_vars => IndInv'
<1> SUFFICES ASSUME IndInv, [Next]_vars
             PROVE  IndInv'
  OBVIOUS
<1>1. PageStep
  <2>1. CASE UNCHANGED vars
    BY <2>1, StillMoves DEF vars, PageStep
  <2>2. ASSUME NEW s \in Post, confirmDelegation(s) \/ PostStep(s)
        PROVE  PageStep
    BY <2>2, ConfirmMoves, AddMoves, AnswerMoves DEF PostStep
  <2>3. CASE FetchStep \/ Focus
    BY <2>3, FetchMoves
  <2>4. CASE DeletionStep
    BY <2>4, DeletionMoves
  <2>5. CASE DelegateElsewhere \/ \E a \in Account : LinkElsewhere(a)
    BY <2>5, ElsewhereMoves
  <2> QED
    BY <2>1, <2>2, <2>3, <2>4, <2>5 DEF Next
<1> QED
  BY <1>1, StepTyped, StepCache DEF IndInv

(* Every reachable state satisfies the invariant. *)
THEOREM Invariance == Spec => []IndInv
<1> QED
  BY InitInv, StepInv, PTL DEF Spec

(***************************************************************************)
(* The caches, requests and rows stay what TypeOK says.                    *)
(***************************************************************************)
THEOREM TypeCorrect == Spec => []TypeOK
<1> QED
  BY Invariance, InvImpliesTypeOK, PTL

(***************************************************************************)
(* A delegation the page reports as made is in the list fetched because of *)
(* it, unless it was deleted since: however many tabs and requests there   *)
(* are, and whichever answers are late, lost or given up on.               *)
(***************************************************************************)
THEOREM SuccessReflected == Spec => []SuccessIsReflected
<1> QED
  BY Invariance, InvImpliesReflected, PTL

(***************************************************************************)
(* A delegation the page was told is deleted is not shown by a list that   *)
(* was fetched.                                                            *)
(***************************************************************************)
THEOREM RevokedStaysGone == Spec => []RevokedIsGone
<1> QED
  BY Invariance, InvImpliesGone, PTL
===============================================================================
