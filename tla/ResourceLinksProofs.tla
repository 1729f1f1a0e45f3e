-------------------------- MODULE ResourceLinksProofs --------------------------
(***************************************************************************)
(* Proofs about ResourceLinks, for any users, providers, accounts, lists   *)
(* of resources and callbacks.                                             *)
(*                                                                         *)
(* The invariant follows a callback: the cookie it was let in with is that *)
(* of its own flow, past the exchange its flow's code is spent, what it    *)
(* will write of resources is a whole answer of the provider, and the      *)
(* login it will record is not of the future.                              *)
(***************************************************************************)
EXTENDS ResourceLinks, WellFoundedInduction, TLAPS

AllOf(list) == {list[i] : i \in 1 .. Len(list)}
Complete(resources) == \E list \in ResourceLists : AllOf(list) \subseteq resources

RecordFacts(q) ==
  q.pc # "idle" =>
    /\ q.flow \in Flow /\ q.cookie = q.flow
    /\ q.pc # "exchange" => spent[q.flow] /\ q.last_login <= now
    /\ q.pc = "upsert" /\ RpOf[q.flow] \in WithResources => Complete(q.fetched)

IdFacts ==
  \A k \in Key : Present(k) =>
    /\ resource_provider_logins[k].id \in 1 .. Len(allocated)
    /\ resource_provider_logins[k].last_login <= now

IndInv ==
  /\ TypeOK
  /\ IdFacts
  /\ LinkWasEarned
  /\ LinkIsComplete
  /\ \A h \in Handler : RecordFacts(handler[h])

-------------------------------------------------------------------------------
LEMMA IdleTyped == Idle \in HandlerRecord /\ Idle.pc = "idle"
BY DEF Idle, HandlerRecord

LEMMA InitInv == Init => IndInv
<1> SUFFICES ASSUME Init PROVE IndInv
  OBVIOUS
<1>1. \A k \in Key : ~Present(k)
  BY DEF Init, Present, NoRow
<1>2. NoRow \in Row
  BY DEF NoRow, Row
<1>3. usernames \in [1 .. Len(allocated) -> SUBSET Resource] /\ allocated \in Seq(Key)
  BY DEF Init
<1>4. TypeOK
  BY <1>1, <1>2, <1>3, IdleTyped DEF Init, TypeOK
<1> QED
  BY <1>1, <1>4, IdleTyped
  DEF IndInv, IdFacts, LinkWasEarned, LinkIsComplete, RecordFacts, Init

-------------------------------------------------------------------------------
(***************************************************************************)
(* The slots.                                                              *)
(***************************************************************************)
CallbackStep(h) ==
  HandlerStep(h) \/ Abort(h) \/ DeadlockDetected(h) \/ \E f \in Flow : Callback(h, f)

(* What a callback writes into its slot, with spent as it is afterwards. *)
SlotChange(h, q) ==
  /\ handler' = [handler EXCEPT ![h] = q]
  /\ q.pc # "idle" =>
       /\ q.flow \in Flow /\ q.cookie = q.flow
       /\ q.pc # "exchange" => spent'[q.flow] /\ q.last_login <= now
       /\ q.pc = "upsert" /\ RpOf[q.flow] \in WithResources => Complete(q.fetched)

LEMMA KeyTyped ==
  ASSUME IndInv, NEW h \in Handler, handler[h].pc # "idle"
  PROVE  /\ handler[h].flow \in Flow
         /\ KeyOf(h) \in Key
         /\ KeyOf(h) = <<IdentityOf[handler[h].flow], RpOf[handler[h].flow],
                         AccountOf[handler[h].flow]>>
BY FlowAssumption DEF IndInv, RecordFacts, KeyOf, Key

LEMMA CallbackSlot ==
  ASSUME IndInv, NEW h \in Handler, CallbackStep(h)
  PROVE  \E q \in HandlerRecord : SlotChange(h, q)
<1> DEFINE old == handler[h]
<1>t. /\ handler \in [Handler -> HandlerRecord] /\ now \in Nat
      /\ jar \in [Rp -> Flow \cup {NoFlow}] /\ spent \in [Flow -> BOOLEAN]
      /\ old \in HandlerRecord /\ RecordFacts(old)
  BY DEF IndInv, TypeOK
<1>1. ASSUME End(h) PROVE \E q \in HandlerRecord : SlotChange(h, q)
  BY <1>1, IdleTyped DEF End, SlotChange
<1>2. ASSUME NEW f \in Flow, Callback(h, f) PROVE \E q \in HandlerRecord : SlotChange(h, q)
  <2> DEFINE q == [Idle EXCEPT !.pc = "exchange", !.flow = f, !.cookie = jar[RpOf[f]]]
  <2>1. handler' = [handler EXCEPT ![h] = q] /\ jar[RpOf[f]] = f
    BY <1>2 DEF Callback, StateAccepted
  <2>2. q \in HandlerRecord /\ q.pc = "exchange" /\ q.flow = f /\ q.cookie = f
    BY <2>1, IdleTyped DEF HandlerRecord
  <2>3. SlotChange(h, q)
    BY <2>1, <2>2 DEF SlotChange
  <2> QED
    BY <2>2, <2>3
<1>3. CASE get_token_for_provider(h)
  <2> DEFINE q == [old EXCEPT !.pc = "login", !.last_login = now]
  <2>1. CASE End(h)
    BY <1>1, <2>1
  <2>2. CASE ~End(h)
    <3>1. /\ spent' = [spent EXCEPT ![old.flow] = TRUE] /\ old.pc = "exchange"
          /\ handler' = [handler EXCEPT ![h] = q]
      BY <1>3, <2>2 DEF get_token_for_provider
    <3>2. /\ q \in HandlerRecord /\ q.pc = "login" /\ q.flow = old.flow
          /\ q.cookie = old.cookie /\ q.last_login = now
      BY <1>t DEF HandlerRecord
    <3>3. SlotChange(h, q)
      BY <1>t, <3>1, <3>2 DEF SlotChange, RecordFacts
    <3> QED
      BY <3>2, <3>3
  <2> QED
    BY <2>1, <2>2
<1>4. CASE UpsertLogin(h)
  <2> DEFINE pc == IF RpOf[old.flow] \in WithResources THEN "fetch" ELSE "upsert"
  <2> DEFINE q == [old EXCEPT !.locked = {KeyOf(h)}, !.pc = pc]
  <2>1. handler' = [handler EXCEPT ![h] = q] /\ old.pc = "login" /\ UNCHANGED spent
    BY <1>4 DEF UpsertLogin
  <2>2. KeyOf(h) \in Key
    BY <2>1, KeyTyped
  <2>3. /\ q \in HandlerRecord /\ q.pc = pc /\ q.flow = old.flow
        /\ q.cookie = old.cookie /\ q.last_login = old.last_login
    BY <1>t, <2>2 DEF HandlerRecord
  <2>4. SlotChange(h, q)
    BY <1>t, <2>1, <2>3 DEF SlotChange, RecordFacts
  <2> QED
    BY <2>3, <2>4
<1>5. CASE get_resources(h)
  <2>1. ASSUME NEW list \in ResourceLists,
               handler' = [handler EXCEPT ![h] =
                 [old EXCEPT !.pc = "upsert", !.todo = list, !.fetched = AllOf(list)]]
        PROVE  \E q \in HandlerRecord : SlotChange(h, q)
    <3> DEFINE q == [old EXCEPT !.pc = "upsert", !.todo = list, !.fetched = AllOf(list)]
    <3>1. list \in Seq(Resource) /\ AllOf(list) \in SUBSET Resource
      BY ListAssumption DEF AllOf
    <3>2. /\ q \in HandlerRecord /\ q.pc = "upsert" /\ q.flow = old.flow
          /\ q.cookie = old.cookie /\ q.last_login = old.last_login
          /\ q.fetched = AllOf(list)
      BY <1>t, <3>1 DEF HandlerRecord
    <3>3. SlotChange(h, q)
      BY <1>t, <1>5, <2>1, <3>2 DEF get_resources, SlotChange, RecordFacts, Complete
    <3> QED
      BY <3>2, <3>3
  <2> QED
    BY <1>1, <1>5, <2>1 DEF get_resources, AllOf
<1>6. CASE db_add_or_update_resource(h)
  <2> DEFINE q == [old EXCEPT !.locked = old.locked \cup {Head(old.todo)}, !.todo = Tail(old.todo)]
  <2>1. /\ handler' = [handler EXCEPT ![h] = q] /\ old.pc = "upsert" /\ old.todo # <<>>
        /\ UNCHANGED spent
    BY <1>6 DEF db_add_or_update_resource
  <2>2. old.todo \in Seq(Resource) /\ old.locked \subseteq Key \cup Resource
    BY <1>t DEF HandlerRecord
  <2>3. Head(old.todo) \in Resource /\ Tail(old.todo) \in Seq(Resource)
    BY <2>1, <2>2
  <2>4. /\ q \in HandlerRecord /\ q.pc = old.pc /\ q.flow = old.flow /\ q.cookie = old.cookie
        /\ q.last_login = old.last_login /\ q.fetched = old.fetched
    BY <1>t, <2>2, <2>3 DEF HandlerRecord
  <2>5. SlotChange(h, q)
    BY <1>t, <2>1, <2>4 DEF SlotChange, RecordFacts
  <2> QED
    BY <2>4, <2>5
<1>7. CASE CommitLink(h) \/ Abort(h) \/ DeadlockDetected(h)
  BY <1>1, <1>7 DEF CommitLink, DeadlockDetected, Abort
<1> QED
  BY <1>2, <1>3, <1>4, <1>5, <1>6, <1>7 DEF CallbackStep, HandlerStep

(* What a step of anything else leaves to the callbacks. *)
LEMMA HandlersStep ==
  ASSUME IndInv, Next
  PROVE  /\ handler' \in [Handler -> HandlerRecord]
         /\ \A h \in Handler : RecordFacts(handler[h])'
<1>t. /\ handler \in [Handler -> HandlerRecord] /\ now \in Nat
      /\ spent \in [Flow -> BOOLEAN]
      /\ \A h \in Handler : RecordFacts(handler[h])
      /\ \A h \in Handler : handler[h].last_login \in Nat
  BY DEF IndInv, TypeOK, HandlerRecord
<1>1. ASSUME now' \in Nat, now <= now', \A f \in Flow : spent[f] => spent'[f], NEW q, RecordFacts(q),
             q.pc # "idle" => q.last_login \in Nat
      PROVE  q.pc # "idle" =>
               /\ q.flow \in Flow /\ q.cookie = q.flow
               /\ q.pc # "exchange" => spent'[q.flow] /\ q.last_login <= now'
               /\ q.pc = "upsert" /\ RpOf[q.flow] \in WithResources => Complete(q.fetched)
  BY <1>t, <1>1 DEF RecordFacts
<1>2. ASSUME UNCHANGED handler, now' \in Nat, now <= now', UNCHANGED spent
      PROVE  /\ handler' \in [Handler -> HandlerRecord]
             /\ \A h \in Handler : RecordFacts(handler[h])'
  BY <1>t, <1>1, <1>2 DEF RecordFacts
<1>3. ASSUME NEW h \in Handler, CallbackStep(h)
      PROVE  /\ handler' \in [Handler -> HandlerRecord]
             /\ \A g \in Handler : RecordFacts(handler[g])'
  <2>1. PICK q \in HandlerRecord : SlotChange(h, q)
    BY <1>3, CallbackSlot
  <2>2. UNCHANGED now /\ \A f \in Flow : spent[f] => spent'[f]
    BY <1>t, <1>3 DEF CallbackStep, HandlerStep, Callback, Abort, DeadlockDetected, get_token_for_provider,
                UpsertLogin, get_resources, db_add_or_update_resource, CommitLink
  <2>3. \A g \in Handler : handler'[g] = IF g = h THEN q ELSE handler[g]
    BY <1>t, <2>1 DEF SlotChange
  <2>4. ASSUME NEW g \in Handler PROVE RecordFacts(handler[g])'
    <3>1. CASE g = h
      BY <1>t, <2>1, <2>2, <2>3, <3>1 DEF SlotChange, RecordFacts
    <3>2. CASE g # h
      BY <1>t, <1>1, <2>2, <2>3, <3>2 DEF RecordFacts
    <3> QED
      BY <3>1, <3>2
  <2> QED
    BY <1>t, <2>1, <2>4 DEF SlotChange
<1>4. CASE Restart
  BY <1>4, IdleTyped DEF Restart, RecordFacts
<1>5. CASE \/ \E f \in Flow : authorize_handler(f)
           \/ \E u \in Identity, id \in 1 .. Len(allocated) : unlink_resource_provider(u, id)
           \/ \E k \in Key : Disable(k)
           \/ Tick
  BY <1>t, <1>2, <1>5 DEF authorize_handler, unlink_resource_provider, Disable, Tick
<1> QED
  BY <1>3, <1>4, <1>5 DEF Next, CallbackStep

-------------------------------------------------------------------------------
(***************************************************************************)
(* The tables.                                                             *)
(***************************************************************************)
logins == resource_provider_logins

TablesGood ==
  /\ logins' \in [Key -> Row]
  /\ allocated' \in Seq(Key)
  /\ usernames' \in [1 .. Len(allocated') -> SUBSET Resource]
  /\ \A k \in Key : Present(k)' => allocated'[logins'[k].id] = k
  /\ IdFacts' /\ LinkWasEarned' /\ LinkIsComplete'

(* The row a callback commits. *)
NewId(k) == IF Present(k) THEN logins[k].id ELSE Len(allocated) + 1
NewRow(h) ==
  [id |-> NewId(KeyOf(h)), last_login |-> handler[h].last_login,
   enabled |-> IF Present(KeyOf(h)) THEN logins[KeyOf(h)].enabled ELSE TRUE]

LEMMA CommitWrites ==
  ASSUME IndInv, NEW h \in Handler, CommitLink(h)
  PROVE  /\ KeyOf(h) \in Key
         /\ NewRow(h) \in Row
         /\ NewRow(h).id \in 1 .. Len(allocated) + 1
         /\ logins' = [logins EXCEPT ![KeyOf(h)] = NewRow(h)]
         /\ allocated' = IF Present(KeyOf(h)) THEN allocated ELSE Append(allocated, KeyOf(h))
         /\ usernames' = [i \in 1 .. Len(allocated') |->
              (IF i \in DOMAIN usernames THEN usernames[i] ELSE {})
              \cup (IF i = NewRow(h).id THEN handler[h].fetched ELSE {})]
<1> USE DEF logins
<1>1. PICK k \in Key : k = KeyOf(h)
  BY KeyTyped DEF CommitLink
<1>t. /\ logins \in [Key -> Row] /\ logins[k] \in Row
      /\ allocated \in Seq(Key) /\ Len(allocated) \in Nat
      /\ handler[h].last_login \in Nat
      /\ Present(k) => logins[k].id \in 1 .. Len(allocated)
  BY DEF IndInv, TypeOK, IdFacts, HandlerRecord
<1> DEFINE enabled == IF Present(k) THEN logins[k].enabled ELSE TRUE
<1>e. enabled \in BOOLEAN
  BY <1>t DEF Row
<1>n. NewRow(h) = [id |-> NewId(k), enabled |-> enabled, last_login |-> handler[h].last_login]
  BY <1>1 DEF NewRow
<1>2. NewRow(h) \in Row /\ NewRow(h).id = NewId(k)
  <2>1. NewId(k) \in Nat
    BY <1>t DEF NewId
  <2> HIDE DEF enabled
  <2> QED
    BY <1>t, <1>e, <1>n, <2>1 DEF Row
<1>3. NewId(k) \in 1 .. Len(allocated) + 1
  BY <1>t DEF NewId
<1>4. CASE Present(k)
  <2>1. [logins[k] EXCEPT !.last_login = handler[h].last_login] = NewRow(h)
    <3>1. [logins[k] EXCEPT !.last_login = handler[h].last_login]
            = [id |-> logins[k].id, enabled |-> logins[k].enabled,
               last_login |-> handler[h].last_login]
      <4>1. \A row \in Row, t \in Nat : [row EXCEPT !.last_login = t]
              = [id |-> row.id, enabled |-> row.enabled, last_login |-> t]
        BY DEF Row
      <4> QED
        BY <1>t, <4>1
    <3>2. NewId(k) = logins[k].id /\ enabled = logins[k].enabled
      BY <1>4 DEF NewId
    <3> QED
      BY <1>n, <3>1, <3>2
  <2>2. /\ logins' = [logins EXCEPT ![k] = NewRow(h)]
        /\ allocated' = allocated
    BY <1>1, <1>4, <2>1 DEF CommitLink, db_add_or_update_resource_account_login
  <2>3. logins'[k].id = NewRow(h).id
    BY <1>t, <2>2
  <2> QED
    BY <1>1, <1>2, <1>3, <1>4, <2>2, <2>3 DEF CommitLink, db_add_or_update_username
<1>5. CASE ~Present(k)
  <2>1. allocated' = Append(allocated, k)
    BY <1>1, <1>5 DEF CommitLink, db_add_or_update_resource_account_login
  <2>2. Len(allocated') = Len(allocated) + 1
    BY <1>t, <2>1
  <2>3. logins' = [logins EXCEPT ![k] = NewRow(h)]
    BY <1>1, <1>5, <2>2
    DEF CommitLink, db_add_or_update_resource_account_login, NewRow, NewId
  <2>4. logins'[k].id = NewRow(h).id
    BY <1>t, <2>3
  <2> QED
    BY <1>1, <1>2, <1>3, <1>5, <2>1, <2>3, <2>4 DEF CommitLink, db_add_or_update_username
<1> QED
  BY <1>4, <1>5

LEMMA CommitGood ==
  ASSUME IndInv, NEW h \in Handler, CommitLink(h)
  PROVE  TablesGood
<1>1. PICK k \in Key, row \in Row :
        /\ k = KeyOf(h) /\ row = NewRow(h) /\ row.id \in 1 .. Len(allocated) + 1
        /\ logins' = [logins EXCEPT ![k] = row]
        /\ allocated' = IF Present(k) THEN allocated ELSE Append(allocated, k)
        /\ usernames' = [i \in 1 .. Len(allocated') |->
             (IF i \in DOMAIN usernames THEN usernames[i] ELSE {})
             \cup (IF i = row.id THEN handler[h].fetched ELSE {})]
  BY CommitWrites
<1>2. /\ row.id = (IF Present(k) THEN logins[k].id ELSE Len(allocated) + 1)
      /\ row.last_login = handler[h].last_login
  BY <1>1 DEF NewRow, NewId
<1>3. /\ handler[h].flow \in Flow /\ spent[handler[h].flow] /\ UNCHANGED <<now, spent>>
      /\ handler[h].last_login <= now
      /\ k = <<IdentityOf[handler[h].flow], RpOf[handler[h].flow], AccountOf[handler[h].flow]>>
      /\ RpOf[handler[h].flow] \in WithResources => Complete(handler[h].fetched)
  BY <1>1, KeyTyped DEF CommitLink, IndInv, RecordFacts
<1>t. /\ logins \in [Key -> Row] /\ allocated \in Seq(Key) /\ Len(allocated) \in Nat
      /\ usernames \in [1 .. Len(allocated) -> SUBSET Resource]
      /\ handler[h].fetched \in SUBSET Resource
      /\ \A l \in Key : Present(l) => allocated[logins[l].id] = l
      /\ \A l \in Key : Present(l) => /\ logins[l].id \in 1 .. Len(allocated)
                                     /\ logins[l].last_login <= now
      /\ LinkWasEarned /\ LinkIsComplete
  BY DEF IndInv, TypeOK, IdFacts, HandlerRecord, logins
<1>4. /\ \A l \in Key : logins'[l] = IF l = k THEN row ELSE logins[l]
      /\ \A l \in Key : Present(l) <=> logins[l].id # 0
      /\ \A l \in Key : Present(l)' <=> logins'[l].id # 0
  BY <1>1, <1>t DEF Present, logins
<1>5. /\ allocated' \in Seq(Key)
      /\ Len(allocated') \in Nat /\ Len(allocated) <= Len(allocated')
      /\ \A i \in 1 .. Len(allocated) : allocated'[i] = allocated[i]
      /\ row.id \in 1 .. Len(allocated') /\ allocated'[row.id] = k
  <2>1. CASE Present(k)
    BY <1>1, <1>2, <1>t, <2>1
  <2>2. CASE ~Present(k)
    BY <1>1, <1>2, <1>t, <2>2
  <2> QED
    BY <2>1, <2>2
<1>6. \A i \in 1 .. Len(allocated) : i \in 1 .. Len(allocated') /\ usernames[i] \subseteq usernames'[i]
  BY <1>1, <1>5, <1>t
<1>7. usernames' \in [1 .. Len(allocated') -> SUBSET Resource]
  BY <1>1, <1>5, <1>t
<1>8. /\ \A l \in Key : Present(l)' => allocated'[logins'[l].id] = l
      /\ IdFacts'
  <2>1. ASSUME NEW l \in Key, Present(l)'
        PROVE  /\ allocated'[logins'[l].id] = l
               /\ logins'[l].id \in 1 .. Len(allocated') /\ logins'[l].last_login <= now
    <3>1. CASE l = k
      BY <1>2, <1>3, <1>4, <1>5, <3>1
    <3>2. CASE l # k
      BY <1>4, <1>5, <1>t, <2>1, <3>2
    <3> QED
      BY <3>1, <3>2
  <2> QED
    BY <1>3, <2>1 DEF IdFacts, logins
<1>9. LinkWasEarned'
  BY <1>3, <1>4, <1>t DEF LinkWasEarned
<1>10. LinkIsComplete'
  <2>1. ASSUME NEW l \in Key, Present(l)', l[2] \in WithResources
        PROVE  Complete(usernames'[logins'[l].id])
    <3>1. CASE l = k
      <4>1. Complete(handler[h].fetched) /\ logins'[l].id = row.id
        BY <1>3, <1>4, <2>1, <3>1
      <4>2. handler[h].fetched \subseteq usernames'[row.id]
        BY <1>1, <1>5
      <4> QED
        BY <4>1, <4>2 DEF Complete
    <3>2. CASE l # k
      <4>1. Present(l) /\ logins'[l] = logins[l] /\ logins[l].id \in 1 .. Len(allocated)
        BY <1>4, <1>t, <2>1, <3>2
      <4>2. Complete(usernames[logins[l].id])
        BY <1>t, <2>1, <4>1 DEF LinkIsComplete, Complete, AllOf, logins
      <4> QED
        BY <1>6, <4>1, <4>2 DEF Complete
    <3> QED
      BY <3>1, <3>2
  <2> QED
    BY <2>1 DEF LinkIsComplete, Complete, AllOf, logins
<1>11. logins' \in [Key -> Row]
  BY <1>1, <1>t
<1> QED
  BY <1>5, <1>7, <1>8, <1>9, <1>10, <1>11 DEF TablesGood

(* Rows are deleted or disabled, nothing else changes. *)
LEMMA FewerRowsGood ==
  ASSUME IndInv, UNCHANGED <<allocated, usernames>>, logins' \in [Key -> Row],
         now' \in Nat, now <= now', \A f \in Flow : spent[f] => spent'[f],
         \A k \in Key : Present(k)' =>
           /\ Present(k)
           /\ logins'[k].id = logins[k].id /\ logins'[k].last_login = logins[k].last_login
  PROVE  TablesGood
<1>t. /\ allocated \in Seq(Key) /\ usernames \in [1 .. Len(allocated) -> SUBSET Resource]
      /\ now \in Nat /\ \A k \in Key : logins[k].last_login \in Nat
      /\ \A l \in Key : Present(l) => allocated[logins[l].id] = l
      /\ \A l \in Key : Present(l) => /\ logins[l].id \in 1 .. Len(allocated)
                                     /\ logins[l].last_login <= now
      /\ LinkWasEarned /\ LinkIsComplete
  BY DEF IndInv, TypeOK, IdFacts, logins, Row
<1>1. /\ \A k \in Key : Present(k)' => allocated'[logins'[k].id] = k
      /\ allocated' \in Seq(Key) /\ usernames' \in [1 .. Len(allocated') -> SUBSET Resource]
  BY <1>t
<1>2. IdFacts'
  BY <1>t DEF IdFacts, logins
<1>3. LinkWasEarned'
  BY <1>t DEF LinkWasEarned
<1>4. LinkIsComplete'
  BY <1>t DEF LinkIsComplete, logins
<1> QED
  BY <1>1, <1>2, <1>3, <1>4 DEF TablesGood

LEMMA TablesStep == ASSUME IndInv, Next PROVE TablesGood
<1>t. /\ logins \in [Key -> Row] /\ now \in Nat /\ spent \in [Flow -> BOOLEAN]
      /\ NoRow \in Row /\ NoRow.id = 0
  BY DEF IndInv, TypeOK, logins, NoRow, Row
<1>1. ASSUME UNCHANGED <<allocated, usernames, resource_provider_logins>>,
             now' \in Nat, now <= now', \A f \in Flow : spent[f] => spent'[f]
      PROVE  TablesGood
  BY <1>1, <1>t, FewerRowsGood DEF logins, Present
<1>2. ASSUME NEW h \in Handler, CallbackStep(h) PROVE TablesGood
  <2>1. CASE CommitLink(h)
    BY <2>1, CommitGood
  <2>2. CASE get_token_for_provider(h)
    BY <1>1, <1>t, <2>2 DEF get_token_for_provider
  <2>3. CASE ~(CommitLink(h) \/ get_token_for_provider(h))
    <3>1. UNCHANGED <<allocated, usernames, resource_provider_logins, now, spent>>
      BY <1>2, <2>3 DEF CallbackStep, HandlerStep, Callback, Abort, DeadlockDetected,
                        UpsertLogin, get_resources, db_add_or_update_resource
    <3> QED
      BY <1>1, <1>t, <3>1
  <2> QED
    BY <2>1, <2>2, <2>3
<1>3. ASSUME NEW u \in Identity, NEW id \in 1 .. Len(allocated), unlink_resource_provider(u, id)
      PROVE  TablesGood
  <2>1. PICK k \in Key : logins' = [logins EXCEPT ![k] = NoRow]
    BY <1>3 DEF unlink_resource_provider, db_delete_resource_provider_link, logins
  <2>2. \A l \in Key : Present(l)' => Present(l) /\ logins'[l] = logins[l]
    BY <1>t, <2>1 DEF Present, logins
  <2> QED
    BY <1>3, <1>t, <2>1, <2>2, FewerRowsGood DEF unlink_resource_provider
<1>4. ASSUME NEW k \in Key, Disable(k) PROVE TablesGood
  <2> DEFINE row == [logins[k] EXCEPT !.enabled = FALSE]
  <2>1. logins' = [logins EXCEPT ![k] = row]
    BY <1>4 DEF Disable, logins
  <2>2. row \in Row /\ row.id = logins[k].id /\ row.last_login = logins[k].last_login
    BY <1>t DEF Row
  <2>3. /\ logins' \in [Key -> Row]
        /\ \A l \in Key : /\ logins'[l].id = logins[l].id
                         /\ logins'[l].last_login = logins[l].last_login
    BY <1>t, <2>1, <2>2
  <2>4. \A l \in Key : Present(l)' => Present(l)
    BY <2>3 DEF Present, logins
  <2> QED
    BY <1>4, <1>t, <2>3, <2>4, FewerRowsGood DEF Disable
<1>5. CASE (\E f \in Flow : authorize_handler(f)) \/ Tick \/ Restart
  BY <1>1, <1>5, <1>t DEF authorize_handler, Tick, Restart
<1> QED
  BY <1>2, <1>3, <1>4, <1>5 DEF Next, CallbackStep

LEMMA BrowserStep ==
  ASSUME IndInv, Next
  PROVE  /\ now' \in Nat
         /\ jar' \in [Rp -> Flow \cup {NoFlow}]
         /\ flow' \in [Flow -> [step : {"new", "at_rp"}, exp : Nat]]
         /\ spent' \in [Flow -> BOOLEAN]
<1>t. /\ now \in Nat /\ now + StateTtl \in Nat
      /\ jar \in [Rp -> Flow \cup {NoFlow}]
      /\ flow \in [Flow -> [step : {"new", "at_rp"}, exp : Nat]]
      /\ spent \in [Flow -> BOOLEAN]
  BY TimeAssumption DEF IndInv, TypeOK
<1>1. ASSUME NEW f \in Flow, authorize_handler(f)
      PROVE  /\ jar' \in [Rp -> Flow \cup {NoFlow}]
             /\ flow' \in [Flow -> [step : {"new", "at_rp"}, exp : Nat]]
             /\ UNCHANGED <<now, spent>>
  BY <1>1, <1>t DEF authorize_handler, get_authenticate_redirect_info
<1>2. ASSUME NEW h \in Handler, get_token_for_provider(h)
      PROVE  spent' \in [Flow -> BOOLEAN] /\ UNCHANGED <<now, jar, flow>>
  BY <1>2, <1>t DEF get_token_for_provider
<1>3. ASSUME NEW h \in Handler, CommitLink(h)
      PROVE  jar' \in [Rp -> Flow \cup {NoFlow}] /\ UNCHANGED <<now, flow, spent>>
  BY <1>3, <1>t DEF CommitLink
<1>4. ASSUME NEW h \in Handler, CallbackStep(h), ~get_token_for_provider(h), ~CommitLink(h)
      PROVE  UNCHANGED <<now, jar, flow, spent>>
  BY <1>4 DEF CallbackStep, HandlerStep, Callback, Abort, DeadlockDetected, UpsertLogin,
              get_resources, db_add_or_update_resource
<1>5. CASE \/ \E u \in Identity, id \in 1 .. Len(allocated) : unlink_resource_provider(u, id)
           \/ \E k \in Key : Disable(k)
           \/ Restart
  BY <1>5, <1>t DEF unlink_resource_provider, Disable, Restart
<1>6. CASE Tick
  BY <1>6, <1>t DEF Tick
<1> QED
  BY <1>1, <1>2, <1>3, <1>4, <1>5, <1>6, <1>t DEF Next, CallbackStep

LEMMA InvStep == IndInv /\ [Next]_vars => IndInv'
<1>1. ASSUME IndInv, Next PROVE IndInv'
  BY <1>1, HandlersStep, TablesStep, BrowserStep DEF IndInv, TypeOK, TablesGood, logins
<1>2. ASSUME IndInv, UNCHANGED vars PROVE IndInv'
  BY <1>2 DEF vars, IndInv, TypeOK, IdFacts, LinkWasEarned, LinkIsComplete, RecordFacts, Present
<1> QED
  BY <1>1, <1>2

THEOREM Invariance == Spec => []IndInv
BY InitInv, InvStep, PTL DEF Spec

-------------------------------------------------------------------------------
(***************************************************************************)
(* Cookies, states, callbacks and the tables keep their types, and the id  *)
(* of a link was drawn for its key.                                        *)
(***************************************************************************)
THEOREM TypeCorrect == Spec => []TypeOK
<1>1. IndInv => TypeOK
  BY DEF IndInv
<1> QED
  BY <1>1, Invariance, PTL

(***************************************************************************)
(* A link says that its identity started a sign-in at its provider that    *)
(* ended with its account, however tabs, callbacks and cookies interleave. *)
(***************************************************************************)
THEOREM LinksAreEarned == Spec => []LinkWasEarned
<1>1. IndInv => LinkWasEarned
  BY DEF IndInv
<1> QED
  BY <1>1, Invariance, PTL

(***************************************************************************)
(* A visible link has the usernames of a whole answer of its provider.     *)
(***************************************************************************)
THEOREM LinksAreComplete == Spec => []LinkIsComplete
<1>1. IndInv => LinkIsComplete
  BY DEF IndInv
<1> QED
  BY <1>1, Invariance, PTL

(***************************************************************************)
(* A new sign-in for an existing link keeps its id, whatever callbacks,    *)
(* deletions and the operator do in between.                               *)
(***************************************************************************)
THEOREM IdsAreKept == Spec => RefreshKeepsId
<1> DEFINE Kept(k) == Present(k) /\ Present(k)' => logins'[k].id = logins[k].id
<1>1. ASSUME IndInv, Next, NEW k \in Key PROVE Kept(k)
  <2>t. logins \in [Key -> Row] /\ NoRow.id = 0
    BY <1>1 DEF IndInv, TypeOK, logins, NoRow
  <2>1. ASSUME NEW h \in Handler, CommitLink(h) PROVE Kept(k)
    <3>1. logins' = [logins EXCEPT ![KeyOf(h)] = NewRow(h)] /\ KeyOf(h) \in Key
      BY <1>1, <2>1, CommitWrites
    <3>2. Present(KeyOf(h)) => NewRow(h).id = logins[KeyOf(h)].id
      BY DEF NewRow, NewId
    <3> QED
      BY <2>t, <3>1, <3>2
  <2>2. ASSUME NEW h \in Handler, CallbackStep(h), ~CommitLink(h)
        PROVE  UNCHANGED resource_provider_logins
    BY <2>2 DEF CallbackStep, HandlerStep, Callback, Abort, DeadlockDetected, UpsertLogin,
                get_resources, db_add_or_update_resource, get_token_for_provider
  <2>3. ASSUME NEW u \in Identity, NEW id \in 1 .. Len(allocated), unlink_resource_provider(u, id)
        PROVE  Kept(k)
    <3>1. PICK l \in Key : logins' = [logins EXCEPT ![l] = NoRow]
      BY <2>3 DEF unlink_resource_provider, db_delete_resource_provider_link, logins
    <3> QED
      BY <2>t, <3>1 DEF Present, logins
  <2>4. ASSUME NEW l \in Key, Disable(l) PROVE Kept(k)
    <3>1. logins' = [logins EXCEPT ![l] = [logins[l] EXCEPT !.enabled = FALSE]]
      BY <2>4 DEF Disable, logins
    <3>2. [logins[l] EXCEPT !.enabled = FALSE].id = logins[l].id
      BY <2>t DEF Row
    <3> QED
      BY <2>t, <3>1, <3>2
  <2>5. CASE (\E f \in Flow : authorize_handler(f)) \/ Tick \/ Restart
    BY <2>5 DEF authorize_handler, Tick, Restart, logins
  <2> QED
    BY <1>1, <2>1, <2>2, <2>3, <2>4, <2>5 DEF Next, CallbackStep, logins
<1>2. ASSUME IndInv, [Next]_vars, NEW k \in Key PROVE Kept(k)
  BY <1>1, <1>2 DEF vars, logins
<1>3. IndInv /\ [Next]_vars =>
        [\A k \in Key : Present(k) /\ Present(k)' =>
           resource_provider_logins'[k].id = resource_provider_logins[k].id]_vars
  BY <1>2 DEF logins
<1> QED
  BY <1>3, Invariance, PTL DEF Spec, RefreshKeepsId

-------------------------------------------------------------------------------
(***************************************************************************)
(* Readers see the abstract table.                                         *)
(***************************************************************************)
Seen(row) == [present |-> row.id # 0, enabled |-> row.enabled, last_login |-> row.last_login]

LEMMA SeenAs ==
  ASSUME NEW k \in Key, NEW row, logins \in [Key -> Row], logins' = [logins EXCEPT ![k] = row]
  PROVE  linksBar' = [linksBar EXCEPT ![k] = Seen(row)]
BY DEF linksBar, Seen, Present, logins

LEMMA CommitRecords ==
  ASSUME IndInv, NEW h \in Handler, CommitLink(h)
  PROVE  \E k \in Key : \E t \in 0 .. now : Table!Record(k, t)
<1>1. PICK k \in Key : /\ k = KeyOf(h) /\ NewRow(h) \in Row
                        /\ NewRow(h).id \in 1 .. Len(allocated) + 1
                        /\ logins' = [logins EXCEPT ![k] = NewRow(h)]
  BY CommitWrites
<1>2. PICK t \in 0 .. now : t = handler[h].last_login
  <2>1. handler[h] \in HandlerRecord /\ RecordFacts(handler[h]) /\ now \in Nat
    BY DEF IndInv, TypeOK
  <2>2. handler[h].last_login \in Nat /\ handler[h].last_login <= now
    BY <2>1 DEF CommitLink, RecordFacts, HandlerRecord
  <2> QED
    BY <2>1, <2>2
<1>3. linksBar' = [linksBar EXCEPT ![k] = Seen(NewRow(h))]
  BY <1>1, SeenAs DEF IndInv, TypeOK, logins
<1>4. Seen(NewRow(h)) = [present |-> TRUE, last_login |-> t,
         enabled |-> IF linksBar[k].present THEN linksBar[k].enabled ELSE TRUE]
  <2>1. linksBar[k].present = Present(k) /\ linksBar[k].enabled = logins[k].enabled
    BY DEF linksBar, logins
  <2>2. (NewRow(h).id # 0) = TRUE
    BY <1>1
  <2>3. /\ NewRow(h).last_login = t
        /\ NewRow(h).enabled = IF Present(k) THEN logins[k].enabled ELSE TRUE
    BY <1>1, <1>2 DEF NewRow
  <2> QED
    BY <2>1, <2>2, <2>3 DEF Seen
<1>5. UNCHANGED now
  BY DEF CommitLink
<1>6. Table!Record(k, t)
  BY <1>2, <1>3, <1>4, <1>5 DEF Table!Record
<1> QED
  BY <1>1, <1>2, <1>6

LEMMA TableSteps ==
  ASSUME IndInv, [Next]_vars
  PROVE  [Table!LinkNext]_<<now, linksBar>>
<1>t. /\ logins \in [Key -> Row]
      /\ NoRow \in Row /\ NoRow.id = 0
      /\ \A k \in Key : linksBar[k].present = Present(k)
  BY DEF IndInv, TypeOK, logins, NoRow, Row, linksBar
<1>1. ASSUME UNCHANGED <<now, resource_provider_logins>> PROVE UNCHANGED <<now, linksBar>>
  BY <1>1 DEF linksBar, Present
<1>2. ASSUME NEW h \in Handler, CommitLink(h) PROVE Table!LinkNext
  BY <1>2, CommitRecords DEF Table!LinkNext
<1>3. ASSUME NEW h \in Handler, CallbackStep(h), ~CommitLink(h)
      PROVE  UNCHANGED <<now, resource_provider_logins>>
  BY <1>3 DEF CallbackStep, HandlerStep, Callback, Abort, DeadlockDetected, UpsertLogin,
              get_resources, db_add_or_update_resource, get_token_for_provider
<1>4. ASSUME NEW u \in Identity, NEW id \in 1 .. Len(allocated), unlink_resource_provider(u, id)
      PROVE  Table!LinkNext
  <2>1. PICK k \in Key : Present(k) /\ logins' = [logins EXCEPT ![k] = NoRow] /\ UNCHANGED now
    BY <1>4 DEF unlink_resource_provider, db_delete_resource_provider_link, logins
  <2>2. linksBar' = [linksBar EXCEPT ![k] = Seen(NoRow)]
    BY <1>t, <2>1, SeenAs
  <2>3. Seen(NoRow) = Table!NoLink
    BY DEF Seen, NoRow, Table!NoLink
  <2>4. Table!Remove(k)
    BY <1>t, <2>1, <2>2, <2>3 DEF Table!Remove
  <2> QED
    BY <2>1, <2>4 DEF Table!LinkNext
<1>5. ASSUME NEW k \in Key, Disable(k) PROVE Table!LinkNext
  <2> DEFINE row == [logins[k] EXCEPT !.enabled = FALSE]
  <2>1. logins' = [logins EXCEPT ![k] = row] /\ Present(k) /\ UNCHANGED now
    BY <1>5 DEF Disable, logins
  <2>2. linksBar' = [linksBar EXCEPT ![k] = Seen(row)]
    BY <1>t, <2>1, SeenAs
  <2>3. Seen(row) = [linksBar[k] EXCEPT !.enabled = FALSE]
    <3>1. linksBar[k] = [present |-> logins[k].id # 0, enabled |-> logins[k].enabled,
                         last_login |-> logins[k].last_login]
      BY DEF linksBar, Present, logins
    <3>2. row.id = logins[k].id /\ row.enabled = FALSE /\ row.last_login = logins[k].last_login
      BY <1>t DEF Row
    <3>3. \A link \in Table!Link, e \in BOOLEAN :
            [link EXCEPT !.enabled = e]
              = [present |-> link.present, enabled |-> e, last_login |-> link.last_login]
      BY DEF Table!Link
    <3>5. (logins[k].id # 0) \in BOOLEAN /\ logins[k].enabled \in BOOLEAN /\ logins[k].last_login \in Nat
      BY <1>t DEF Row
    <3>6. /\ linksBar[k] \in Table!Link
          /\ linksBar[k].present = (logins[k].id # 0)
          /\ linksBar[k].last_login = logins[k].last_login
      BY <3>1, <3>5 DEF Table!Link
    <3>4. Seen(row) = [present |-> logins[k].id # 0, enabled |-> FALSE,
                       last_login |-> logins[k].last_login]
      BY <3>2 DEF Seen
    <3> QED
      BY <3>3, <3>4, <3>6
  <2>4. Table!Disable(k)
    BY <1>t, <2>1, <2>2, <2>3 DEF Table!Disable
  <2> QED
    BY <2>1, <2>4 DEF Table!LinkNext
<1>6. CASE Tick
  BY <1>6 DEF Tick, Table!LinkNext, Table!LinkTick, linksBar, Present
<1>7. CASE (\E f \in Flow : authorize_handler(f)) \/ Restart \/ UNCHANGED vars
  BY <1>1, <1>7 DEF authorize_handler, Restart, vars
<1> QED
  BY <1>1, <1>2, <1>3, <1>4, <1>5, <1>6, <1>7 DEF Next, CallbackStep

(***************************************************************************)
(* Links, though written under locks by transactions that may fail, are    *)
(* the abstract link table that Delegations and TmsPortal build on.        *)
(***************************************************************************)
THEOREM ImplementsTable == Spec => TableSpec
<1>1. Init => Table!LinkInit
  <2>1. ASSUME Init, NEW k \in Key
        PROVE  [present |-> Present(k), enabled |-> logins[k].enabled,
                last_login |-> logins[k].last_login] = Table!NoLink
    <3>1. logins[k] = NoRow
      BY <2>1 DEF Init, logins
    <3>2. Present(k) = FALSE
      BY <3>1 DEF Present, logins, NoRow
    <3>3. logins[k].enabled = FALSE /\ logins[k].last_login = 0
      BY <3>1 DEF NoRow
    <3> QED
      BY <3>2, <3>3, Zenon DEF Table!NoLink
  <2> QED
    BY <2>1 DEF Init, Table!LinkInit, linksBar, logins
<1>2. IndInv /\ [Next]_vars => [Table!LinkNext]_<<now, linksBar>>
  BY TableSteps
<1> QED
  BY <1>1, <1>2, Invariance, PTL DEF Spec, TableSpec, Table!LinkSpec

-------------------------------------------------------------------------------
(***************************************************************************)
(* Locks.  A callback has locked the row of its link from the upsert to    *)
(* the commit, and no row is locked twice.                                 *)
(***************************************************************************)
OwnRow(h) ==
  /\ handler[h].pc \in {"idle", "exchange", "login"} => handler[h].locked = {}
  /\ handler[h].pc \in {"fetch", "upsert"} => KeyOf(h) \in handler[h].locked

LockInv ==
  /\ \A h \in Handler : OwnRow(h)
  /\ \A g, h \in Handler : g # h => handler[g].locked \cap handler[h].locked = {}

(* A step of h leaves the other callbacks alone, and locks free rows only. *)
LEMMA LocksStep ==
  ASSUME IndInv, LockInv, NEW h \in Handler, CallbackStep(h)
  PROVE  LockInv'
<1> DEFINE old == handler[h]
           new == handler'[h]
<1>t. handler \in [Handler -> HandlerRecord] /\ old \in HandlerRecord
  BY DEF IndInv, TypeOK
<1>1. PICK q \in HandlerRecord : handler' = [handler EXCEPT ![h] = q]
  BY CallbackSlot DEF SlotChange
<1>2. new = q /\ \A g \in Handler : g # h => handler'[g] = handler[g]
  BY <1>t, <1>1
<1>3. \A g \in Handler : g # h => OwnRow(g)'
  BY <1>2 DEF LockInv, OwnRow, KeyOf
<1>4. ASSUME new.locked \subseteq old.locked, OwnRow(h)' PROVE LockInv'
  <2>1. \A g \in Handler : OwnRow(g)'
    BY <1>3, <1>4
  <2>2. \A g \in Handler : handler'[g].locked \subseteq handler[g].locked
    BY <1>2, <1>4
  <2>3. \A g, l \in Handler : g # l => handler'[g].locked \cap handler'[l].locked = {}
    BY <2>2 DEF LockInv
  <2> QED
    BY <2>1, <2>3 DEF LockInv
<1>5. ASSUME NEW row, Free(h, row), new.locked \subseteq old.locked \cup {row}, OwnRow(h)'
      PROVE  LockInv'
  <2>1. \A g \in Handler : OwnRow(g)'
    BY <1>3, <1>5
  <2>2. \A g \in Handler : g # h => row \notin handler'[g].locked
    BY <1>2, <1>5 DEF Free
  <2>3. \A g \in Handler : g # h => handler'[g].locked \cap new.locked = {}
    BY <1>2, <1>5, <2>2 DEF LockInv
  <2>4. \A g, l \in Handler : g # l => handler'[g].locked \cap handler'[l].locked = {}
    BY <1>2, <2>3 DEF LockInv
  <2> QED
    BY <2>1, <2>4 DEF LockInv
<1>6. ASSUME End(h) PROVE LockInv'
  <2>1. new = Idle
    BY <1>t, <1>6 DEF End
  <2>2. new.locked = {} /\ new.pc = "idle"
    BY <2>1 DEF Idle
  <2>3. OwnRow(h)'
    BY <2>2 DEF OwnRow
  <2> QED
    BY <1>4, <2>2, <2>3
<1>7. ASSUME NEW f \in Flow, Callback(h, f) PROVE LockInv'
  <2>1. new = [Idle EXCEPT !.pc = "exchange", !.flow = f, !.cookie = jar[RpOf[f]]]
    BY <1>t, <1>7 DEF Callback
  <2>2. new.pc = "exchange" /\ new.locked = {}
    BY <2>1 DEF Idle
  <2>3. OwnRow(h)'
    BY <2>2 DEF OwnRow
  <2> QED
    BY <1>4, <2>2, <2>3
<1>8. CASE get_token_for_provider(h)
  <2>1. CASE End(h)
    BY <1>6, <2>1
  <2>2. CASE ~End(h)
    <3>1. new = [old EXCEPT !.pc = "login", !.last_login = now] /\ old.pc = "exchange"
      BY <1>t, <1>8, <2>2 DEF get_token_for_provider
    <3>2. new.pc = "login" /\ new.locked = old.locked /\ old.locked = {}
      BY <1>t, <3>1 DEF HandlerRecord, LockInv, OwnRow
    <3>3. OwnRow(h)'
      BY <3>2 DEF OwnRow
    <3> QED
      BY <1>4, <3>2, <3>3
  <2> QED
    BY <2>1, <2>2
<1>9. CASE UpsertLogin(h)
  <2>1. /\ new.locked = {KeyOf(h)} /\ new.flow = old.flow /\ new.cookie = old.cookie
        /\ new.pc \in {"fetch", "upsert"}
    BY <1>t, <1>9 DEF UpsertLogin, HandlerRecord
  <2>2. KeyOf(h)' = KeyOf(h)
    BY <2>1 DEF KeyOf
  <2>3. OwnRow(h)'
    BY <2>1, <2>2 DEF OwnRow
  <2>4. Free(h, KeyOf(h))
    BY <1>9 DEF UpsertLogin
  <2> QED
    BY <1>5, <2>1, <2>3, <2>4
<1>10. CASE get_resources(h)
  <2>1. CASE End(h)
    BY <1>6, <2>1
  <2>2. CASE ~End(h)
    <3>1. PICK list \in ResourceLists :
            new = [old EXCEPT !.pc = "upsert", !.todo = list, !.fetched = AllOf(list)]
      BY <1>t, <1>10, <2>2 DEF get_resources, AllOf
    <3>2. /\ new.pc = "upsert" /\ new.locked = old.locked
          /\ new.flow = old.flow /\ new.cookie = old.cookie
      BY <1>t, <3>1 DEF HandlerRecord
    <3>3. KeyOf(h) \in old.locked
      BY <1>10 DEF get_resources, LockInv, OwnRow
    <3>4. OwnRow(h)'
      BY <3>2, <3>3 DEF OwnRow, KeyOf
    <3> QED
      BY <1>4, <3>2, <3>4
  <2> QED
    BY <2>1, <2>2
<1>11. CASE db_add_or_update_resource(h)
  <2>1. /\ new = [old EXCEPT !.locked = old.locked \cup {Head(old.todo)},
                             !.todo = Tail(old.todo)]
        /\ old.pc = "upsert"
    BY <1>t, <1>11 DEF db_add_or_update_resource
  <2>2. /\ new.pc = "upsert" /\ new.locked = old.locked \cup {Head(old.todo)}
        /\ new.flow = old.flow /\ new.cookie = old.cookie
    BY <1>t, <2>1 DEF HandlerRecord
  <2>3. KeyOf(h) \in old.locked
    BY <2>1 DEF LockInv, OwnRow
  <2>4. OwnRow(h)'
    BY <2>2, <2>3 DEF OwnRow, KeyOf
  <2>5. Free(h, Head(old.todo))
    BY <1>11 DEF db_add_or_update_resource
  <2> QED
    BY <1>5, <2>2, <2>4, <2>5
<1>12. CASE CommitLink(h) \/ Abort(h) \/ DeadlockDetected(h)
  BY <1>6, <1>12 DEF CommitLink, DeadlockDetected, Abort
<1> QED
  BY <1>7, <1>8, <1>9, <1>10, <1>11, <1>12 DEF CallbackStep, HandlerStep

LEMMA LocksInit == Init => LockInv
BY DEF Init, LockInv, OwnRow, Idle

LEMMA LocksNext ==
  ASSUME IndInv, LockInv, [Next]_vars
  PROVE  LockInv'
<1>1. ASSUME UNCHANGED handler PROVE LockInv'
  BY <1>1 DEF LockInv, OwnRow, KeyOf
<1>2. CASE Restart
  <2>1. \A h \in Handler : handler'[h].pc = "idle" /\ handler'[h].locked = {}
    BY <1>2 DEF Restart, Idle
  <2> QED
    BY <2>1 DEF LockInv, OwnRow
<1>3. CASE \/ \E f \in Flow : authorize_handler(f)
           \/ \E u \in Identity, id \in 1 .. Len(allocated) : unlink_resource_provider(u, id)
           \/ \E k \in Key : Disable(k)
           \/ Tick
           \/ UNCHANGED vars
  BY <1>1, <1>3 DEF authorize_handler, unlink_resource_provider, Disable, Tick, vars
<1> QED
  BY <1>2, <1>3, LocksStep DEF Next, CallbackStep

LEMMA Locks == Spec => [](IndInv /\ LockInv)
BY LocksInit, LocksNext, Invariance, PTL DEF Spec

(***************************************************************************)
(* The row a callback has found and locked is changed by nothing but its   *)
(* own commit, for any number of callbacks, deletions and lists of         *)
(* resources in any order.                                                 *)
(***************************************************************************)
THEOREM LockedRowsAreStable == Spec => LockedRowsStay
<1> DEFINE Kept(h, k) == logins'[k] # logins[k] => k = KeyOf(h) /\ handler'[h].pc = "idle"
<1>1. ASSUME IndInv, LockInv, [Next]_vars,
             NEW h \in Handler, NEW k \in Key, k \in handler[h].locked
      PROVE  Kept(h, k)
  <2>t. handler \in [Handler -> HandlerRecord] /\ logins \in [Key -> Row]
    BY <1>1 DEF IndInv, TypeOK, logins
  <2>1. ASSUME NEW g \in Handler, CommitLink(g) PROVE Kept(h, k)
    <3>1. logins' = [logins EXCEPT ![KeyOf(g)] = NewRow(g)]
      BY <1>1, <2>1, CommitWrites
    <3>2. CASE g = h
      <4>1. handler'[h].pc = "idle"
        BY <2>t, <2>1, <3>2, IdleTyped DEF CommitLink, End
      <4>2. k # KeyOf(h) => logins'[k] = logins[k]
        BY <2>t, <3>1, <3>2
      <4> QED
        BY <4>1, <4>2
    <3>3. CASE g # h
      <4>1. KeyOf(g) \in handler[g].locked
        BY <1>1, <2>1 DEF CommitLink, LockInv, OwnRow
      <4>2. KeyOf(g) # k
        BY <1>1, <3>3, <4>1 DEF LockInv
      <4>3. logins'[k] = logins[k]
        BY <2>t, <3>1, <4>2
      <4> QED
        BY <4>3
    <3> QED
      BY <3>2, <3>3
  <2>2. ASSUME NEW g \in Handler, CallbackStep(g), ~CommitLink(g) PROVE Kept(h, k)
    BY <2>2 DEF CallbackStep, HandlerStep, Callback, Abort, DeadlockDetected, UpsertLogin,
                get_resources, db_add_or_update_resource, get_token_for_provider, logins
  <2>3. ASSUME NEW u \in Identity, NEW id \in 1 .. Len(allocated), unlink_resource_provider(u, id)
        PROVE  Kept(h, k)
    <3>1. PICK l \in Key : /\ l \notin handler[h].locked
                           /\ logins' = [logins EXCEPT ![l] = NoRow]
      BY <2>3 DEF unlink_resource_provider, db_delete_resource_provider_link, logins
    <3>2. logins'[k] = logins[k]
      BY <1>1, <2>t, <3>1
    <3> QED
      BY <3>2
  <2>4. ASSUME NEW l \in Key, Disable(l) PROVE Kept(h, k)
    <3>1. l # k /\ logins' = [logins EXCEPT ![l].enabled = FALSE]
      BY <1>1, <2>4 DEF Disable, logins
    <3>2. logins'[k] = logins[k]
      BY <2>t, <3>1
    <3> QED
      BY <3>2
  <2>5. CASE (\E f \in Flow : authorize_handler(f)) \/ Tick \/ Restart \/ UNCHANGED vars
    BY <2>5 DEF authorize_handler, Tick, Restart, vars, logins
  <2> QED
    BY <1>1, <2>1, <2>2, <2>3, <2>4, <2>5 DEF Next, CallbackStep
<1>2. IndInv /\ LockInv /\ [Next]_vars =>
        [\A h \in Handler : \A k \in Key \cap handler[h].locked :
           resource_provider_logins'[k] # resource_provider_logins[k]
             => k = KeyOf(h) /\ handler'[h].pc = "idle"]_vars
  BY <1>1 DEF logins
<1> QED
  BY <1>2, Locks, PTL DEF Spec, LockedRowsStay

-------------------------------------------------------------------------------
(***************************************************************************)
(* Deadlock.  A callback that waits for the row of its link holds nothing, *)
(* so callbacks wait in a circle only over resources, and only because the *)
(* providers list them in different orders.                                *)
(***************************************************************************)
NobodyDeadlocked == \A h \in Handler : ~Deadlocked(h)

(* place puts the resources in one order, which every list runs down. *)
OneOrder(place) ==
  /\ place \in [Resource -> Nat]
  /\ \A list \in ResourceLists : \A i, j \in 1 .. Len(list) :
       i < j => place[list[j]] < place[list[i]]

(* What a callback has still to write comes after what it has locked. *)
Orderly(place, q) ==
  /\ q.pc # "upsert" => q.locked \subseteq Key /\ q.todo = <<>>
  /\ \A i, j \in 1 .. Len(q.todo) : i < j => place[q.todo[j]] < place[q.todo[i]]
  /\ \A r \in q.locked \ Key : \A i \in 1 .. Len(q.todo) : place[q.todo[i]] < place[r]

(* Of some numbers one is the least. *)
LEMMA Least ==
  ASSUME NEW T, T \subseteq Nat, T # {}
  PROVE  \E x \in T : \A y \in T : ~(y < x)
<1>1. \E x \in T : \A y \in T : ~(<<y, x>> \in OpToRel(<, Nat))
  BY NatLessThanWellFounded, WFMin
<1> QED
  BY <1>1 DEF OpToRel

LEMMA TheRestOfAList ==
  ASSUME NEW S, NEW todo \in Seq(S), todo # <<>>
  PROVE  /\ Head(todo) = todo[1] /\ 1 \in 1 .. Len(todo) /\ Head(todo) \in S
         /\ Len(Tail(todo)) = Len(todo) - 1 /\ Len(todo) \in Nat
         /\ \A i \in 1 .. Len(Tail(todo)) : i + 1 \in 1 .. Len(todo) /\ Tail(todo)[i] = todo[i + 1]
OBVIOUS

LEMMA OrderlyStep ==
  ASSUME NEW place, OneOrder(place), IndInv, NEW h \in Handler, CallbackStep(h),
         Orderly(place, handler[h])
  PROVE  Orderly(place, handler'[h])
<1> DEFINE old == handler[h]
           new == handler'[h]
<1>t. handler \in [Handler -> HandlerRecord] /\ old \in HandlerRecord
  BY DEF IndInv, TypeOK
<1>1. ASSUME new.todo = <<>>, new.locked \subseteq Key \/ new.pc = "upsert" PROVE Orderly(place, new)
  BY <1>1 DEF Orderly
<1>2. ASSUME End(h) PROVE Orderly(place, new)
  BY <1>t, <1>1, <1>2 DEF End, Idle
<1>3. CASE \E f \in Flow : Callback(h, f)
  BY <1>t, <1>1, <1>3 DEF Callback, Idle
<1>4. CASE get_token_for_provider(h)
  <2>1. CASE ~End(h)
    <3>1. new = [old EXCEPT !.pc = "login", !.last_login = now] /\ old.pc = "exchange"
      BY <1>t, <1>4, <2>1 DEF get_token_for_provider
    <3>2. new.locked = old.locked /\ new.todo = old.todo
      BY <1>t, <3>1 DEF HandlerRecord
    <3> QED
      BY <1>1, <3>1, <3>2 DEF Orderly
  <2> QED
    BY <1>2, <2>1
<1>5. CASE UpsertLogin(h)
  <2>1. new.locked = {KeyOf(h)} /\ new.todo = old.todo /\ old.pc = "login"
    BY <1>t, <1>5 DEF UpsertLogin, HandlerRecord
  <2>2. KeyOf(h) \in Key
    BY <2>1, KeyTyped
  <2> QED
    BY <1>1, <2>1, <2>2 DEF Orderly
<1>6. CASE get_resources(h)
  <2>1. CASE ~End(h)
    <3>1. PICK list \in ResourceLists :
            new = [old EXCEPT !.pc = "upsert", !.todo = list, !.fetched = AllOf(list)]
      BY <1>t, <1>6, <2>1 DEF get_resources, AllOf
    <3>2. new.pc = "upsert" /\ new.locked = old.locked /\ new.todo = list
      BY <1>t, <3>1 DEF HandlerRecord
    <3>3. old.locked \subseteq Key
      BY <1>6 DEF get_resources, Orderly
    <3> QED
      BY <3>2, <3>3 DEF Orderly, OneOrder
  <2> QED
    BY <1>2, <2>1
<1>7. CASE db_add_or_update_resource(h)
  <2>1. /\ new = [old EXCEPT !.locked = old.locked \cup {Head(old.todo)}, !.todo = Tail(old.todo)]
        /\ old.pc = "upsert" /\ old.todo # <<>>
    BY <1>t, <1>7 DEF db_add_or_update_resource
  <2>2. /\ new.pc = "upsert" /\ new.locked = old.locked \cup {Head(old.todo)}
        /\ new.todo = Tail(old.todo) /\ old.todo \in Seq(Resource)
    BY <1>t, <2>1 DEF HandlerRecord
  <2>3. /\ Head(old.todo) = old.todo[1] /\ 1 \in 1 .. Len(old.todo) /\ Len(old.todo) \in Nat
        /\ Len(new.todo) = Len(old.todo) - 1
        /\ \A i \in 1 .. Len(new.todo) :
             i + 1 \in 1 .. Len(old.todo) /\ new.todo[i] = old.todo[i + 1]
    BY <2>1, <2>2, TheRestOfAList
  <2>4. ASSUME NEW i \in 1 .. Len(new.todo), NEW j \in 1 .. Len(new.todo), i < j
        PROVE  place[new.todo[j]] < place[new.todo[i]]
    <3>1. PICK m \in 1 .. Len(old.todo) : m = i + 1 /\ new.todo[i] = old.todo[m]
      BY <2>3
    <3>2. PICK n \in 1 .. Len(old.todo) : n = j + 1 /\ new.todo[j] = old.todo[n]
      BY <2>3
    <3>3. m < n
      BY <2>3, <2>4, <3>1, <3>2
    <3> QED
      BY <3>1, <3>2, <3>3 DEF Orderly
  <2>5. ASSUME NEW r \in new.locked \ Key, NEW i \in 1 .. Len(new.todo)
        PROVE  place[new.todo[i]] < place[r]
    <3>1. PICK m \in 1 .. Len(old.todo) : m = i + 1 /\ new.todo[i] = old.todo[m]
      BY <2>3
    <3>2. 1 < m
      BY <2>3, <3>1
    <3> QED
      BY <2>2, <2>3, <2>5, <3>1, <3>2 DEF Orderly
  <2> QED
    BY <2>2, <2>4, <2>5 DEF Orderly
<1>8. CASE CommitLink(h) \/ Abort(h) \/ DeadlockDetected(h)
  BY <1>2, <1>8 DEF CommitLink, DeadlockDetected, Abort
<1> QED
  BY <1>3, <1>4, <1>5, <1>6, <1>7, <1>8 DEF CallbackStep, HandlerStep

AllOrderly(place) == \A h \in Handler : Orderly(place, handler[h])

LEMMA OrderlyNext ==
  ASSUME NEW place, OneOrder(place), IndInv, AllOrderly(place), [Next]_vars
  PROVE  AllOrderly(place)'
<1>1. ASSUME NEW h \in Handler, CallbackStep(h) PROVE AllOrderly(place)'
  <2>1. \A g \in Handler \ {h} : handler'[g] = handler[g]
    BY <1>1, CallbackSlot DEF SlotChange, IndInv, TypeOK
  <2>2. Orderly(place, handler'[h])
    BY <1>1, OrderlyStep DEF AllOrderly
  <2>3. ASSUME NEW g \in Handler PROVE Orderly(place, handler'[g])
    BY <2>1, <2>2 DEF AllOrderly
  <2> QED
    BY <2>3 DEF AllOrderly
<1>2. CASE Restart
  BY <1>2 DEF Restart, AllOrderly, Orderly, Idle
<1>3. CASE UNCHANGED handler
  BY <1>3 DEF AllOrderly
<1> QED
  BY <1>1, <1>2, <1>3 DEF Next, CallbackStep, authorize_handler, unlink_resource_provider,
                          Disable, Tick, vars

(* Following the waiting callbacks one runs down the order for ever. *)
LEMMA NoCircle ==
  ASSUME NEW place, OneOrder(place), Key \cap Resource = {}, IndInv, LockInv, AllOrderly(place)
  PROVE  NobodyDeadlocked
<1> SUFFICES ASSUME NEW h \in Handler, NEW cycle \in SUBSET Handler, h \in cycle,
                    \A g \in cycle : \E l \in cycle \ {g} : WaitsFor(g, l)
             PROVE  FALSE
  BY DEF NobodyDeadlocked, Deadlocked
<1> DEFINE Stuck == {g \in cycle : handler[g].pc = "upsert"}
           Place(g) == place[Head(handler[g].todo)]
<1>t. \A g \in Handler : handler[g].todo \in Seq(Resource)
  BY DEF IndInv, TypeOK, HandlerRecord
<1>1. ASSUME NEW g \in cycle
      PROVE  \E l \in Stuck : WaitsFor(g, l)
  <2>1. PICK l \in cycle : WaitsFor(g, l)
    BY <1>1
  <2>2. handler[l].locked # {}
    BY <2>1 DEF WaitsFor
  <2>3. handler[l].pc \in {"fetch", "upsert"}
    BY <2>2 DEF LockInv, OwnRow, IndInv, TypeOK, HandlerRecord
  <2>4. handler[l].pc \in {"login", "upsert"}
    BY DEF WaitsFor
  <2> QED
    BY <2>1, <2>3, <2>4
<1>2. \A g \in Stuck : /\ handler[g].todo # <<>> /\ Head(handler[g].todo) \in Resource
                       /\ Head(handler[g].todo) = handler[g].todo[1]
                       /\ 1 \in 1 .. Len(handler[g].todo)
                       /\ Place(g) \in Nat
  <2>1. ASSUME NEW g \in Stuck PROVE handler[g].todo # <<>>
    BY <1>1, <2>1 DEF WaitsFor
  <2> QED
    BY <1>t, <2>1, TheRestOfAList DEF OneOrder
<1>3. ASSUME NEW g \in Stuck PROVE \E l \in Stuck : Place(l) < Place(g)
  <2>1. PICK l \in Stuck : WaitsFor(g, l)
    BY <1>1
  <2>2. Head(handler[g].todo) \in handler[l].locked \ Key
    BY <1>2, <2>1 DEF WaitsFor
  <2>3. Orderly(place, handler[l])
    BY DEF AllOrderly
  <2>4. Place(l) < Place(g)
    BY <1>2, <2>2, <2>3 DEF Orderly
  <2> QED
    BY <2>4
<1>4. {Place(g) : g \in Stuck} \subseteq Nat /\ {Place(g) : g \in Stuck} # {}
  <2>1. PICK l \in Stuck : WaitsFor(h, l)
    BY <1>1
  <2> HIDE DEF Place, Stuck
  <2> QED
    BY <1>2, <2>1
<1>5. \E x \in {Place(g) : g \in Stuck} : \A y \in {Place(g) : g \in Stuck} : ~(y < x)
  BY <1>4, Least
<1> QED
  BY <1>3, <1>5

(* Were there one order in which every provider lists its resources, no    *)
(* callback would ever be in a deadlock or blocked behind one, however     *)
(* many run: it takes lists in different orders, never the links that two  *)
(* callbacks share, to make the database abort one of them.                *)
THEOREM OneOrderNoDeadlock ==
  ASSUME NEW place, OneOrder(place), Key \cap Resource = {}
  PROVE  Spec => []NobodyDeadlocked
<1>1. Init => AllOrderly(place)
  BY DEF Init, AllOrderly, Orderly, Idle
<1>2. IndInv /\ AllOrderly(place) /\ [Next]_vars => AllOrderly(place)'
  BY OrderlyNext
<1>3. IndInv /\ LockInv /\ AllOrderly(place) => NobodyDeadlocked
  BY NoCircle
<1> QED
  BY <1>1, <1>2, <1>3, Locks, PTL DEF Spec

(***************************************************************************)
(* The operator's flag.                                                    *)
(***************************************************************************)
FlagHolds ==
  \A k \in Key : Present(k) /\ ~logins[k].enabled /\ Present(k)' => ~logins'[k].enabled

(* No callback re-enables a link an operator has disabled, also one that   *)
(* began before and commits after: only when the user has deleted it does  *)
(* a new sign-in bring it back.                                            *)
THEOREM DisabledStays == Spec => [][FlagHolds]_vars
<1>1. ASSUME IndInv, [Next]_vars, NEW k \in Key, Present(k), ~logins[k].enabled, Present(k)'
      PROVE  ~logins'[k].enabled
  <2>t. logins \in [Key -> Row]
    BY <1>1 DEF IndInv, TypeOK, logins
  <2>1. /\ linksBar[k].present = TRUE /\ linksBar[k].enabled = FALSE
        /\ linksBar'[k].present = TRUE /\ linksBar'[k].enabled = logins'[k].enabled
    BY <1>1, <2>t DEF linksBar, logins, Row
  <2>b. linksBar = [l \in Key |-> linksBar[l]] /\ linksBar[k] \in Table!Link
    BY <2>t DEF linksBar, Table!Link, Row, Present, logins
  <2>2. [Table!LinkNext]_<<now, linksBar>>
    BY <1>1, TableSteps
  <2>3. ASSUME NEW l \in Key, NEW t \in 0 .. now, Table!Record(l, t) PROVE ~linksBar'[k].enabled
    BY <2>1, <2>b, <2>3 DEF Table!Record
  <2>4. ASSUME NEW l \in Key, Table!Remove(l) PROVE ~linksBar'[k].enabled
    BY <2>1, <2>b, <2>4 DEF Table!Remove, Table!NoLink
  <2>5. ASSUME NEW l \in Key, Table!Disable(l) PROVE ~linksBar'[k].enabled
    BY <2>1, <2>b, <2>5 DEF Table!Disable, Table!Link
  <2>6. CASE Table!LinkTick \/ UNCHANGED <<now, linksBar>>
    BY <2>1, <2>6 DEF Table!LinkTick
  <2> QED
    BY <2>1, <2>2, <2>3, <2>4, <2>5, <2>6 DEF Table!LinkNext
<1>2. IndInv /\ [Next]_vars => [FlagHolds]_vars
  BY <1>1 DEF FlagHolds
<1> QED
  BY <1>2, Invariance, PTL DEF Spec
===============================================================================
