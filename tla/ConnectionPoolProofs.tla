-------------------------- MODULE ConnectionPoolProofs --------------------------
(***************************************************************************)
(* Proofs about ConnectionPool, for any number of requests of any of its   *)
(* kinds and any size of the pool.                                         *)
(*                                                                         *)
(* What holds a connection, and what has a row locked, follows from where  *)
(* a request is in its script: the tables Held and Locked.  Sound says     *)
(* what the tables and a script have to do with each other, and what is    *)
(* special about the portal's scripts: only a link callback asks its       *)
(* provider or writes a second table inside a transaction, and having      *)
(* written the second it commits.                                          *)
(***************************************************************************)
EXTENDS ConnectionPool, SequenceTheorems, FiniteSetTheorems, TLAPS

(* The positions at which a request of a kind has a connection. *)
Held ==
  [read |-> {2, 4}, open |-> {2}, login |-> {2, 4}, logout |-> {2, 4, 5},
   login_callback |-> {2, 5, 6, 8}, oauth_callback |-> {2, 4, 7},
   redeem |-> {2, 3, 5}, add_delegation |-> {2, 4},
   delete_delegation |-> {2, 4, 5}, unlink |-> {2, 4, 5},
   link_callback |-> {2, 5, 6, 7, 8}, cleanup |-> {2, 3}]

(* The positions at which it has locked the row of a table. *)
Locked ==
  [read |-> {}, open |-> {}, login |-> {}, logout |-> {<<5, "issued_tokens">>},
   login_callback |-> {<<6, "tms_identities">>}, oauth_callback |-> {},
   redeem |-> {<<3, "auth_code_data">>}, add_delegation |-> {},
   delete_delegation |-> {<<5, "delegations">>},
   unlink |-> {<<5, "resource_provider_logins">>},
   link_callback |-> {<<6, "resource_provider_logins">>, <<7, "resource_provider_logins">>,
                      <<8, "resource_provider_logins">>, <<8, "resources">>},
   cleanup |-> {<<3, "issued_tokens">>}]

KindName == {"read", "open", "login", "logout", "login_callback", "oauth_callback", "redeem",
             "add_delegation", "delete_delegation", "unlink", "link_callback", "cleanup"}

(* The tables whose row a request has locked until its very next step, and *)
(* the kinds that ask no provider and write no other table.                *)
Quick == Table \ {"resource_provider_logins"}
Bystanders == KindName \ {"login_callback", "oauth_callback", "link_callback", "unlink"}

SoundAt(k, i, s) ==
  /\ s \in {"begin", "commit", "ask"} \cup Table
  /\ s # "commit" => i < Len(Script[k])
  /\ s = "begin" => i \notin Held[k] /\ i + 1 \in Held[k]
  /\ s = "commit" => i \in Held[k] /\ i + 1 \notin Held[k]
  /\ k \in Bystanders => s \in {"begin", "commit"} \cup Quick
  /\ s \in Table => i \in Held[k] /\ i + 1 \in Held[k] /\ <<i + 1, s>> \in Locked[k]
  /\ s = "ask" => /\ i \in Held[k] <=> i + 1 \in Held[k]
                  /\ i \in Held[k] => k = "link_callback"
  /\ \A t \in Table : <<i, t>> \in Locked[k] =>
       /\ i \in Held[k]
       /\ s # "commit" => <<i + 1, t>> \in Locked[k]
       /\ s \in Table => s = "resources"
       /\ t # "resource_provider_logins" => s = "commit"

Sound(k) == /\ Len(Script[k]) \in 1 .. 8
            /\ 1 \notin Held[k]
            /\ \A t \in Table : <<1, t>> \notin Locked[k]
            /\ \A i \in 1 .. Len(Script[k]) : SoundAt(k, i, Script[k][i])

LEMMA Kinds == Kind \subseteq KindName
BY KindAssumption DEF Script, KindName

LEMMA ScriptsAreSound == \A k \in KindName : Sound(k)
<1>1. Sound("read")
  BY DEF Sound, SoundAt, Script, Held, Locked, Table, Quick, Bystanders, read
<1>2. Sound("open")
  BY DEF Sound, SoundAt, Script, Held, Locked, Table, Quick, Bystanders, open
<1>3. Sound("login")
  BY DEF Sound, SoundAt, Script, Held, Locked, Table, Quick, Bystanders, login
<1>4. Sound("logout")
  BY DEF Sound, SoundAt, Script, Held, Locked, Table, Quick, Bystanders, logout
<1>5. Sound("login_callback")
  BY DEF Sound, SoundAt, Script, Held, Locked, Table, Quick, Bystanders, login_callback
<1>6. Sound("oauth_callback")
  BY DEF Sound, SoundAt, Script, Held, Locked, Table, Quick, Bystanders, oauth_callback
<1>7. Sound("redeem")
  BY DEF Sound, SoundAt, Script, Held, Locked, Table, Quick, Bystanders, redeem
<1>8. Sound("add_delegation")
  BY DEF Sound, SoundAt, Script, Held, Locked, Table, Quick, Bystanders, add_delegation
<1>9. Sound("delete_delegation")
  BY DEF Sound, SoundAt, Script, Held, Locked, Table, Quick, Bystanders, delete_delegation
<1>10. Sound("unlink")
  BY DEF Sound, SoundAt, Script, Held, Locked, Table, Quick, Bystanders, unlink
<1>11. Sound("link_callback")
  BY DEF Sound, SoundAt, Script, Held, Locked, Table, Quick, Bystanders, link_callback
<1>12. Sound("cleanup")
  BY DEF Sound, SoundAt, Script, Held, Locked, Table, Quick, Bystanders, cleanup
<1> QED
  BY <1>1, <1>2, <1>3, <1>4, <1>5, <1>6, <1>7, <1>8, <1>9, <1>10, <1>11, <1>12 DEF KindName

-------------------------------------------------------------------------------
Holding(q) == q # Idle /\ q.at \in Held[q.kind]
HasWritten(q, t) == q # Idle /\ <<q.at, t>> \in Locked[q.kind]

RequestsHaveType ==
  /\ request = [r \in Request |-> request[r]]
  /\ \A r \in Request :
       \/ request[r] = Idle
       \/ \E k \in Kind, i \in 1 .. 8 :
            i <= Len(Script[k]) /\ request[r] = [kind |-> k, at |-> i]

PoolFacts ==
  /\ pool = {r \in Request : Holding(request[r])}
  /\ Cardinality(pool) <= PoolSize

QueueFacts ==
  /\ queue \in Seq(Request)
  /\ \A i \in 1 .. Len(queue) : Do(queue[i]) = "begin"
  /\ \A i, j \in 1 .. Len(queue) : queue[i] = queue[j] => i = j

WriterFacts ==
  /\ writer \in [Table -> Request \cup {NoRequest}]
  /\ \A t \in Table : writer[t] # NoRequest => HasWritten(request[writer[t]], t)

IndInv == RequestsHaveType /\ PoolFacts /\ QueueFacts /\ WriterFacts

LEMMA InvImpliesTypeOK == IndInv => TypeOK
BY DEF IndInv, RequestsHaveType, PoolFacts, QueueFacts, WriterFacts, TypeOK

-------------------------------------------------------------------------------
(* Where an active request is. *)
LEMMA IdleHasNothing == /\ ~Holding(Idle)
                        /\ \A t : ~HasWritten(Idle, t)
                        /\ \A k, i : i \in 1 .. 8 => [kind |-> k, at |-> i] # Idle
<1>1. \A k, i : i \in 1 .. 8 => [kind |-> k, at |-> i].at # Idle.at
  BY DEF Idle
<1> QED
  BY <1>1 DEF Holding, HasWritten

LEMMA Place ==
  ASSUME RequestsHaveType, NEW r \in Request, Active(r)
  PROVE  \E k \in Kind : \E i \in 1 .. Len(Script[k]) :
           /\ request[r] = [kind |-> k, at |-> i]
           /\ i \in 1 .. 8 /\ Len(Script[k]) \in 1 .. 8
           /\ Sound(k) /\ SoundAt(k, i, Script[k][i])
           /\ Do(r) = Script[k][i]
<1>1. PICK k \in Kind, i \in 1 .. 8 : i <= Len(Script[k]) /\ request[r] = [kind |-> k, at |-> i]
  BY DEF RequestsHaveType, Active
<1>2. Sound(k)
  BY Kinds, ScriptsAreSound
<1>3. Len(Script[k]) \in 1 .. 8 /\ i \in 1 .. Len(Script[k])
  BY <1>1, <1>2 DEF Sound
<1>4. Do(r) = Script[k][i]
  BY <1>1 DEF Do
<1> QED
  BY <1>1, <1>2, <1>3, <1>4 DEF Sound

(* What advancing changes about the request that advances. *)
LEMMA Advances ==
  ASSUME RequestsHaveType, NEW r \in Request, Active(r), Do(r) # "commit", Advance(r)
  PROVE  /\ RequestsHaveType'
         /\ request'[r] # Idle
         /\ \A g \in Request : g # r => request'[g] = request[g]
         /\ Do(r) = "begin" => ~Holding(request[r]) /\ Holding(request'[r])
         /\ Do(r) # "begin" => (Holding(request[r]) <=> Holding(request'[r]))
         /\ Do(r) \in Table => HasWritten(request'[r], Do(r))
         /\ \A t \in Table : HasWritten(request[r], t) => HasWritten(request'[r], t)
<1>1. PICK k \in Kind : \E i \in 1 .. Len(Script[k]) :
        /\ request[r] = [kind |-> k, at |-> i]
        /\ i \in 1 .. 8 /\ Len(Script[k]) \in 1 .. 8
        /\ SoundAt(k, i, Script[k][i])
        /\ Do(r) = Script[k][i]
  BY Place
<1>2. PICK i \in 1 .. Len(Script[k]) :
        /\ request[r] = [kind |-> k, at |-> i]
        /\ i \in 1 .. 8 /\ Len(Script[k]) \in 1 .. 8
        /\ SoundAt(k, i, Script[k][i])
        /\ Do(r) = Script[k][i]
  BY <1>1
<1>3. request' = [request EXCEPT ![r] = [kind |-> k, at |-> i + 1]]
  <2>1. [request[r] EXCEPT !.at = request[r].at + 1] = [kind |-> k, at |-> i + 1]
    BY <1>2
  <2> QED
    BY <2>1 DEF Advance
<1>4. i + 1 \in 1 .. 8 /\ i + 1 <= Len(Script[k])
  <2>1. i < Len(Script[k])
    BY <1>2, Zenon DEF SoundAt
  <2> DEFINE n == Len(Script[k])
  <2>2. i \in 1 .. 8 /\ n \in 1 .. 8 /\ i < n
    BY <1>2, <2>1
  <2> HIDE DEF n
  <2>3. i + 1 \in 1 .. 8 /\ i + 1 <= n
    BY <2>2
  <2> QED
    BY <2>3 DEF n
<1>5. request'[r] = [kind |-> k, at |-> i + 1]
  BY <1>3 DEF RequestsHaveType
<1>6. request[r] # Idle /\ request'[r] # Idle
  BY <1>2, <1>4, <1>5, IdleHasNothing
<1>7. RequestsHaveType'
  <2>1. request' = [g \in Request |-> request'[g]]
    BY <1>3 DEF RequestsHaveType
  <2>2. ASSUME NEW g \in Request
        PROVE  \/ request'[g] = Idle
               \/ \E l \in Kind, j \in 1 .. 8 :
                    j <= Len(Script[l]) /\ request'[g] = [kind |-> l, at |-> j]
    <3>1. CASE g = r
      BY <1>4, <1>5, <3>1
    <3>2. CASE g # r
      <4>1. request'[g] = request[g]
        BY <1>3, <3>2 DEF RequestsHaveType
      <4> QED
        BY <4>1 DEF RequestsHaveType
    <3> QED
      BY <3>1, <3>2
  <2> QED
    BY <2>1, <2>2 DEF RequestsHaveType
<1>8. \A g \in Request : g # r => request'[g] = request[g]
  BY <1>3 DEF RequestsHaveType
<1>9. /\ Holding(request[r]) <=> i \in Held[k]
      /\ Holding(request'[r]) <=> i + 1 \in Held[k]
      /\ \A t : HasWritten(request[r], t) <=> <<i, t>> \in Locked[k]
      /\ \A t : HasWritten(request'[r], t) <=> <<i + 1, t>> \in Locked[k]
  BY <1>2, <1>5, <1>6 DEF Holding, HasWritten
<1>10.
      /\ Do(r) = "begin" => i \notin Held[k] /\ i + 1 \in Held[k]
      /\ Do(r) # "begin" => (i \in Held[k] <=> i + 1 \in Held[k])
      /\ Do(r) \in Table => <<i + 1, Do(r)>> \in Locked[k]
      /\ \A t \in Table : <<i, t>> \in Locked[k] => <<i + 1, t>> \in Locked[k]
  BY <1>2 DEF SoundAt
<1>11. Do(r) = "begin" => ~Holding(request[r]) /\ Holding(request'[r])
  BY <1>9, <1>10
<1>12. Do(r) # "begin" => (Holding(request[r]) <=> Holding(request'[r]))
  BY <1>9, <1>10
<1>13. Do(r) \in Table => HasWritten(request'[r], Do(r))
  BY <1>9, <1>10
<1>14. \A t \in Table : HasWritten(request[r], t) => HasWritten(request'[r], t)
  BY <1>9, <1>10
<1> QED
  BY <1>6, <1>7, <1>8, <1>11, <1>12, <1>13, <1>14

(* A request that does something is not idle. *)
LEMMA DoesSomething ==
  ASSUME NEW r \in Request, Do(r) # "nothing"
  PROVE  Active(r)
BY DEF Do

LEMMA TablesAreNot == /\ "nothing" \notin Table /\ "begin" \notin Table
                      /\ "ask" \notin Table /\ "commit" \notin Table
BY DEF Table

(* Which request does what is a matter of its record. *)
LEMMA DoStays ==
  ASSUME NEW g \in Request, request'[g] = request[g]
  PROVE  Do(g)' = Do(g) /\ Active(g)' = Active(g)
BY DEF Do, Active

LEMMA PoolIsFinite ==
  ASSUME IndInv
  PROVE  IsFiniteSet(pool) /\ Cardinality(pool) \in Nat
<1>1. pool \in SUBSET Request /\ IsFiniteSet(Request)
  BY PoolAssumption DEF IndInv, PoolFacts
<1>2. IsFiniteSet(pool)
  BY <1>1, FS_Subset
<1> QED
  BY <1>2, FS_CardinalityType

LEMMA QueueRemoval ==
  ASSUME NEW S, NEW s \in Seq(S), NEW i \in 1 .. Len(s)
  PROVE  /\ RemoveAt(s, i) \in Seq(S)
         /\ Len(RemoveAt(s, i)) = Len(s) - 1
         /\ \A j \in 1 .. Len(s) - 1 : RemoveAt(s, i)[j] = IF j < i THEN s[j] ELSE s[j + 1]
<1> DEFINE front == SubSeq(s, 1, i - 1)
           back == SubSeq(s, i + 1, Len(s))
<1>1. Len(s) \in Nat /\ i \in Nat /\ i - 1 \in Int /\ i + 1 \in Int
  OBVIOUS
<1>2. \A j \in 1 .. Len(s) : s[j] \in S
  OBVIOUS
<1>3. /\ front \in Seq(S) /\ Len(front) = i - 1
      /\ \A j \in 1 .. i - 1 : front[j] = s[j]
  <2>1. \A j \in 1 .. i - 1 : s[j] \in S
    BY <1>1, <1>2
  <2>2. /\ SubSeq(s, 1, i - 1) \in Seq(S)
        /\ Len(SubSeq(s, 1, i - 1)) = IF 1 <= i - 1 THEN i - 1 - 1 + 1 ELSE 0
        /\ \A j \in 1 .. i - 1 - 1 + 1 : SubSeq(s, 1, i - 1)[j] = s[1 + j - 1]
    BY <1>1, <2>1, SubSeqProperties
  <2> QED
    BY <1>1, <2>2
<1>4. /\ back \in Seq(S) /\ Len(back) = Len(s) - i
      /\ \A j \in 1 .. Len(s) - i : back[j] = s[i + j]
  <2>1. \A j \in i + 1 .. Len(s) : s[j] \in S
    BY <1>1, <1>2
  <2>2. /\ SubSeq(s, i + 1, Len(s)) \in Seq(S)
        /\ Len(SubSeq(s, i + 1, Len(s))) =
             IF i + 1 <= Len(s) THEN Len(s) - (i + 1) + 1 ELSE 0
        /\ \A j \in 1 .. Len(s) - (i + 1) + 1 : SubSeq(s, i + 1, Len(s))[j] = s[i + 1 + j - 1]
    BY <1>1, <2>1, SubSeqProperties
  <2> QED
    BY <1>1, <2>2
<1> HIDE DEF front, back
<1>5. /\ front \o back \in Seq(S)
      /\ Len(front \o back) = Len(front) + Len(back)
      /\ \A j \in 1 .. Len(front) + Len(back) :
           (front \o back)[j] = IF j <= Len(front) THEN front[j] ELSE back[j - Len(front)]
  BY <1>3, <1>4, ConcatProperties
<1>6. RemoveAt(s, i) = front \o back
  BY DEF RemoveAt, front, back
<1>7. Len(front) + Len(back) = Len(s) - 1
  BY <1>1, <1>3, <1>4
<1>8. ASSUME NEW j \in 1 .. Len(s) - 1
      PROVE  (front \o back)[j] = IF j < i THEN s[j] ELSE s[j + 1]
  <2>1. (front \o back)[j] = IF j <= i - 1 THEN front[j] ELSE back[j - (i - 1)]
    BY <1>3, <1>5, <1>7
  <2>2. CASE j < i
    <3>1. j \in 1 .. i - 1 /\ j <= i - 1
      BY <1>1, <2>2
    <3> QED
      BY <1>3, <2>1, <2>2, <3>1
  <2>3. CASE ~(j < i)
    <3>1. ~(j <= i - 1) /\ j - (i - 1) \in 1 .. Len(s) - i /\ i + (j - (i - 1)) = j + 1
      BY <1>1, <2>3
    <3>2. back[j - (i - 1)] = s[i + (j - (i - 1))]
      BY <1>4, <3>1
    <3> QED
      BY <2>1, <2>3, <3>1, <3>2
  <2> QED
    BY <2>2, <2>3
<1> QED
  BY <1>5, <1>6, <1>7, <1>8

(* What a request has locked, it locked in its open transaction. *)
LEMMA LockedIsHeld ==
  ASSUME RequestsHaveType, NEW r \in Request, NEW t \in Table, HasWritten(request[r], t)
  PROVE  /\ Holding(request[r]) /\ Active(r)
         /\ Do(r) \in {"ask", "commit"} \cup Table
         /\ Do(r) \in Table => Do(r) = "resources"
         /\ t # "resource_provider_logins" => Do(r) = "commit"
<1>1. Active(r)
  BY DEF HasWritten, Active
<1>2. PICK k \in Kind : \E i \in 1 .. Len(Script[k]) :
        /\ request[r] = [kind |-> k, at |-> i]
        /\ SoundAt(k, i, Script[k][i]) /\ Do(r) = Script[k][i]
  BY <1>1, Place
<1>3. PICK i \in 1 .. Len(Script[k]) :
        /\ request[r] = [kind |-> k, at |-> i]
        /\ SoundAt(k, i, Script[k][i]) /\ Do(r) = Script[k][i]
  BY <1>2
<1>4. <<i, t>> \in Locked[k]
  BY <1>3 DEF HasWritten
<1>5. i \in Held[k]
  BY <1>3, <1>4 DEF SoundAt
<1>6. Holding(request[r])
  BY <1>1, <1>3, <1>5 DEF Holding, Active
<1>7. Do(r) \in {"begin", "commit", "ask"} \cup Table /\ Do(r) # "begin"
  BY <1>3, <1>5 DEF SoundAt
<1>8. /\ Do(r) \in Table => Do(r) = "resources"
      /\ t # "resource_provider_logins" => Do(r) = "commit"
  BY <1>3, <1>4 DEF SoundAt
<1> QED
  BY <1>1, <1>6, <1>7, <1>8

(* What a request with a connection may be about to do. *)
LEMMA HeldDoes ==
  ASSUME RequestsHaveType, NEW r \in Request
  PROVE  /\ Holding(request[r]) => /\ Active(r)
                                   /\ Do(r) \in {"ask", "commit"} \cup Table
                                   /\ Do(r) = "ask" => request[r].kind = "link_callback"
         /\ Do(r) \in Table \cup {"commit"} => Holding(request[r])
<1>1. ASSUME Active(r)
      PROVE  /\ Holding(request[r]) => /\ Do(r) \in {"ask", "commit"} \cup Table
                                       /\ Do(r) = "ask" => request[r].kind = "link_callback"
             /\ Do(r) \in Table \cup {"commit"} => Holding(request[r])
  <2>1. PICK k \in Kind : \E i \in 1 .. Len(Script[k]) :
          /\ request[r] = [kind |-> k, at |-> i]
          /\ SoundAt(k, i, Script[k][i]) /\ Do(r) = Script[k][i]
    BY <1>1, Place
  <2>2. PICK i \in 1 .. Len(Script[k]) :
          /\ request[r] = [kind |-> k, at |-> i]
          /\ SoundAt(k, i, Script[k][i]) /\ Do(r) = Script[k][i]
    BY <2>1
  <2>3. /\ Holding(request[r]) <=> i \in Held[k]
        /\ request[r].kind = k
    BY <1>1, <2>2 DEF Holding, Active
  <2>4. /\ i \in Held[k] => Do(r) \in {"ask", "commit"} \cup Table
        /\ i \in Held[k] /\ Do(r) = "ask" => k = "link_callback"
        /\ Do(r) \in Table \cup {"commit"} => i \in Held[k]
    BY <2>2 DEF SoundAt
  <2> QED
    BY <2>3, <2>4
<1>2. Holding(request[r]) => Active(r)
  BY DEF Holding, Active
<1>3. Do(r) \in Table \cup {"commit"} => Active(r)
  BY DoesSomething, TablesAreNot
<1> QED
  BY <1>1, <1>2, <1>3

-------------------------------------------------------------------------------
(* The property: with no link callback waiting for its provider inside a   *)
(* transaction, whoever has a connection can go on or waits for a row      *)
(* that a link callback about to commit has locked.                        *)
LEMMA HoldersMove ==
  ASSUME IndInv, NEW g \in pool, Do(g) # "ask", \A r \in Request : ~CanMove(r)
  PROVE  \E w \in pool : Do(w) = "ask"
<1>1. g \in Request /\ Holding(request[g])
  BY DEF IndInv, PoolFacts
<1>2. Do(g) \in Table /\ writer[Do(g)] # NoRequest
  BY <1>1, HeldDoes, PoolAssumption DEF IndInv, CanMove
<1>3. PICK w \in Request : w = writer[Do(g)] /\ HasWritten(request[w], Do(g))
  BY <1>2 DEF IndInv, WriterFacts
<1>4. Holding(request[w]) /\ Do(w) \in {"ask", "commit"} \cup Table
      /\ (Do(w) \in Table => Do(w) = "resources")
  BY <1>2, <1>3, LockedIsHeld DEF IndInv
<1>5. w \in pool
  BY <1>4 DEF IndInv, PoolFacts
<1>6. CASE Do(w) = "ask"
  BY <1>5, <1>6
<1>7. CASE Do(w) = "commit"
  BY <1>7 DEF CanMove
<1>8. CASE Do(w) \in Table
  <2>1. Do(w) = "resources" /\ writer["resources"] # NoRequest /\ "resources" \in Table
    BY <1>4, <1>8 DEF CanMove
  <2>2. PICK v \in Request : v = writer["resources"] /\ HasWritten(request[v], "resources")
    BY <2>1 DEF IndInv, WriterFacts
  <2>3. Do(v) = "commit"
    BY <2>1, <2>2, LockedIsHeld DEF IndInv
  <2> QED
    BY <2>3 DEF CanMove
<1> QED
  BY <1>4, <1>6, <1>7, <1>8

LEMMA InvImpliesStalls == IndInv => StallsOnlyBehindLinks
<1> SUFFICES ASSUME IndInv, \A r \in Request : ~CanMove(r),
                    NEW r \in Request, Do(r) \in {"begin"} \cup Table
             PROVE  \E g \in pool : request[g].kind = "link_callback" /\ Do(g) = "ask"
  BY DEF StallsOnlyBehindLinks
<1>1. SUFFICES \E g \in pool : Do(g) = "ask"
  BY HeldDoes DEF IndInv, PoolFacts
<1>2. SUFFICES pool # {}
  BY HoldersMove
<1>3. CASE Do(r) \in Table
  BY <1>3, HeldDoes DEF IndInv, PoolFacts
<1>4. CASE Do(r) = "begin"
  <2> SUFFICES ASSUME pool = {} PROVE FALSE
    OBVIOUS
  <2>1. HasFree
    BY FS_EmptySet, PoolAssumption DEF HasFree
  <2>2. Waiting(r)
    BY <1>4 DEF CanMove
  <2>3. queue # <<>> /\ Head(queue) \in Request
    BY <2>2 DEF Waiting, IndInv, QueueFacts
  <2> QED
    BY <2>1, <2>3 DEF CanMove
<1> QED
  BY <1>3, <1>4

-------------------------------------------------------------------------------
(* The parts of the invariant after a step that changes one request. *)
OthersStay(r) == \A g \in Request : g # r => request'[g] = request[g]

LEMMA QueueStays ==
  ASSUME IndInv, NEW r \in Request, OthersStay(r), UNCHANGED queue, Do(r) # "begin"
  PROVE  QueueFacts'
<1>1. \A i \in 1 .. Len(queue) : queue[i] \in Request /\ queue[i] # r
  BY DEF IndInv, QueueFacts
<1>2. \A i \in 1 .. Len(queue) : Do(queue[i])' = "begin"
  <2> TAKE i \in 1 .. Len(queue)
  <2> DEFINE g == queue[i]
  <2>1. g \in Request /\ request'[g] = request[g] /\ Do(g) = "begin"
    BY <1>1 DEF OthersStay, IndInv, QueueFacts
  <2>2. queue'[i] = g
    OBVIOUS
  <2>3. (IF request'[g] # Idle THEN Script[request'[g].kind][request'[g].at] ELSE "nothing")
          = "begin"
    BY <2>1 DEF Do, Active
  <2> QED
    BY <2>2, <2>3 DEF Do, Active
<1> QED
  BY <1>2 DEF IndInv, QueueFacts

LEMMA PoolStays ==
  ASSUME IndInv, NEW r \in Request, OthersStay(r), UNCHANGED pool,
         Holding(request[r]) <=> Holding(request'[r])
  PROVE  PoolFacts'
<1>1. \A g \in Request : Holding(request[g]) <=> Holding(request'[g])
  <2> TAKE g \in Request
  <2>1. CASE g = r
    BY <2>1
  <2>2. CASE g # r
    BY <2>2 DEF OthersStay
  <2> QED
    BY <2>1, <2>2
<1>2. pool = {g \in Request : Holding(request'[g])}
  BY <1>1 DEF IndInv, PoolFacts
<1> QED
  BY <1>2 DEF IndInv, PoolFacts, Holding

LEMMA WritersStay ==
  ASSUME IndInv, NEW r \in Request, OthersStay(r), UNCHANGED writer,
         \A t \in Table : HasWritten(request[r], t) => HasWritten(request'[r], t)
  PROVE  WriterFacts'
<1>1. ASSUME NEW t \in Table, writer[t] # NoRequest
      PROVE  HasWritten(request'[writer[t]], t)
  <2>1. writer[t] \in Request /\ HasWritten(request[writer[t]], t)
    BY <1>1 DEF IndInv, WriterFacts
  <2>2. CASE writer[t] = r
    BY <2>1, <2>2
  <2>3. CASE writer[t] # r
    BY <2>1, <2>3 DEF OthersStay
  <2> QED
    BY <2>2, <2>3
<1> QED
  BY <1>1 DEF IndInv, WriterFacts, HasWritten

(* A transaction ends: its connection and its rows are free again. *)
LEMMA Released ==
  ASSUME IndInv, NEW r \in Request, OthersStay(r), Release(r), ~Holding(request'[r])
  PROVE  PoolFacts' /\ WriterFacts'
<1>1. \A g \in Request : Holding(request'[g]) <=> Holding(request[g]) /\ g # r
  <2> TAKE g \in Request
  <2>1. CASE g = r
    BY <2>1
  <2>2. CASE g # r
    BY <2>2 DEF OthersStay
  <2> QED
    BY <2>1, <2>2
<1>2. pool' = {g \in Request : Holding(request'[g])}
  BY <1>1 DEF Release, IndInv, PoolFacts
<1>3. Cardinality(pool') <= PoolSize
  <2>1. pool' \in SUBSET pool /\ IsFiniteSet(pool) /\ Cardinality(pool) \in Nat
    BY PoolIsFinite DEF Release
  <2>2. IsFiniteSet(pool') /\ Cardinality(pool') <= Cardinality(pool)
    BY <2>1, FS_Subset
  <2>3. Cardinality(pool') \in Nat
    BY <2>2, FS_CardinalityType
  <2> QED
    BY <2>1, <2>2, <2>3, PoolAssumption DEF IndInv, PoolFacts
<1>4. PoolFacts'
  BY <1>2, <1>3 DEF PoolFacts, Holding
<1>5. writer' = [t \in Table |-> IF writer[t] = r THEN NoRequest ELSE writer[t]]
  BY DEF Release
<1>6. ASSUME NEW t \in Table, writer'[t] # NoRequest
      PROVE  HasWritten(request'[writer'[t]], t)
  <2>1. writer'[t] = writer[t] /\ writer[t] # r
    BY <1>5, <1>6
  <2>2. writer[t] \in Request /\ HasWritten(request[writer[t]], t)
    BY <1>6, <2>1 DEF IndInv, WriterFacts
  <2>3. request'[writer[t]] = request[writer[t]]
    BY <2>1, <2>2 DEF OthersStay
  <2> QED
    BY <2>1, <2>2, <2>3
<1>7. writer' \in [Table -> Request \cup {NoRequest}]
  BY <1>5 DEF IndInv, WriterFacts
<1>8. WriterFacts'
  BY <1>6, <1>7 DEF WriterFacts, HasWritten
<1> QED
  BY <1>4, <1>8

(* A request that has been answered is idle, and waits for nothing. *)
LEMMA Leaves ==
  ASSUME IndInv, NEW r \in Request, LeaveQueue(r), request' = [request EXCEPT ![r] = Idle]
  PROVE  RequestsHaveType' /\ QueueFacts' /\ OthersStay(r) /\ request'[r] = Idle
<1>1. /\ OthersStay(r) /\ request'[r] = Idle
      /\ request' = [g \in Request |-> request'[g]]
  BY DEF IndInv, RequestsHaveType, OthersStay
<1>2. RequestsHaveType'
  <2>1. ASSUME NEW g \in Request
        PROVE  \/ request'[g] = Idle
               \/ \E l \in Kind, j \in 1 .. 8 :
                    j <= Len(Script[l]) /\ request'[g] = [kind |-> l, at |-> j]
    BY <1>1 DEF OthersStay, IndInv, RequestsHaveType
  <2> QED
    BY <1>1, <2>1 DEF RequestsHaveType
<1>3. /\ queue' \in Seq(Request)
      /\ \A i \in 1 .. Len(queue') : queue'[i] # r /\ Do(queue'[i]) = "begin"
      /\ \A i, j \in 1 .. Len(queue') : queue'[i] = queue'[j] => i = j
  <2>1. CASE ~Waiting(r)
    BY <2>1 DEF LeaveQueue, Waiting, IndInv, QueueFacts
  <2>2. CASE Waiting(r)
    <3>1. PICK i \in 1 .. Len(queue) : queue[i] = r /\ queue' = RemoveAt(queue, i)
      BY <2>2 DEF LeaveQueue
    <3>2. queue \in Seq(Request) /\ Len(queue) \in Nat
      BY DEF IndInv, QueueFacts
    <3>3. /\ queue' \in Seq(Request)
          /\ Len(queue') = Len(queue) - 1
          /\ \A j \in 1 .. Len(queue) - 1 : queue'[j] = IF j < i THEN queue[j] ELSE queue[j + 1]
      BY <3>1, <3>2, QueueRemoval
    <3> DEFINE from(j) == IF j < i THEN j ELSE j + 1
    <3>4. \A j \in 1 .. Len(queue') :
            from(j) \in 1 .. Len(queue) /\ from(j) # i /\ queue'[j] = queue[from(j)]
      BY <3>2, <3>3
    <3>5. \A j, l \in 1 .. Len(queue') : from(j) = from(l) => j = l
      BY <3>2, <3>3
    <3>6. \A j, l \in 1 .. Len(queue) : queue[j] = queue[l] => j = l
      BY DEF IndInv, QueueFacts
    <3>7. \A j \in 1 .. Len(queue) : Do(queue[j]) = "begin"
      BY DEF IndInv, QueueFacts
    <3> HIDE DEF from
    <3>8. \A j \in 1 .. Len(queue') : queue'[j] # r /\ Do(queue'[j]) = "begin"
      BY <3>1, <3>4, <3>6, <3>7
    <3>9. \A j, l \in 1 .. Len(queue') : queue'[j] = queue'[l] => j = l
      BY <3>4, <3>5, <3>6
    <3> QED
      BY <3>3, <3>8, <3>9
  <2> QED
    BY <2>1, <2>2
<1>4. \A i \in 1 .. Len(queue') : Do(queue[i])' = "begin"
  <2> TAKE i \in 1 .. Len(queue')
  <2> DEFINE g == queue'[i]
  <2>1. g \in Request /\ request'[g] = request[g] /\ Do(g) = "begin"
    BY <1>1, <1>3 DEF OthersStay
  <2>2. (IF request'[g] # Idle THEN Script[request'[g].kind][request'[g].at] ELSE "nothing")
          = "begin"
    BY <2>1 DEF Do, Active
  <2> QED
    BY <2>2 DEF Do, Active
<1>5. QueueFacts'
  BY <1>3, <1>4 DEF QueueFacts
<1> QED
  BY <1>1, <1>2, <1>5

-------------------------------------------------------------------------------
LEMMA InitInv == Init => IndInv
<1> SUFFICES ASSUME Init PROVE IndInv
  OBVIOUS
<1>1. RequestsHaveType
  BY DEF Init, RequestsHaveType
<1>2. PoolFacts
  BY FS_EmptySet, PoolAssumption, IdleHasNothing DEF Init, PoolFacts
<1>3. QueueFacts
  BY DEF Init, QueueFacts
<1>4. WriterFacts
  BY DEF Init, WriterFacts
<1> QED
  BY <1>1, <1>2, <1>3, <1>4 DEF IndInv

LEMMA ArriveInv ==
  ASSUME IndInv, NEW r \in Request, NEW k \in Kind, Arrive(r, k)
  PROVE  IndInv'
<1>1. /\ request[r] = Idle /\ UNCHANGED <<pool, queue, writer>>
      /\ request' = [request EXCEPT ![r] = [kind |-> k, at |-> 1]]
  BY DEF Arrive, Active
<1>2. /\ OthersStay(r) /\ request'[r] = [kind |-> k, at |-> 1]
      /\ request' = [g \in Request |-> request'[g]]
  BY <1>1 DEF IndInv, RequestsHaveType, OthersStay
<1>3. 1 <= Len(Script[k]) /\ 1 \notin Held[k]
  <2>1. Sound(k)
    BY Kinds, ScriptsAreSound
  <2> QED
    BY <2>1 DEF Sound
<1>4. RequestsHaveType'
  <2>1. ASSUME NEW g \in Request
        PROVE  \/ request'[g] = Idle
               \/ \E l \in Kind, j \in 1 .. 8 :
                    j <= Len(Script[l]) /\ request'[g] = [kind |-> l, at |-> j]
    <3>1. CASE g = r
      BY <1>2, <1>3, <3>1
    <3>2. CASE g # r
      <4>1. request'[g] = request[g]
        BY <1>2, <3>2 DEF OthersStay
      <4> QED
        BY <4>1 DEF IndInv, RequestsHaveType
    <3> QED
      BY <3>1, <3>2
  <2> QED
    BY <1>2, <2>1 DEF RequestsHaveType
<1>5. ~Holding(request[r]) /\ ~Holding(request'[r]) /\ (\A t : ~HasWritten(request[r], t))
  BY <1>1, <1>2, <1>3, IdleHasNothing DEF Holding
<1>6. Do(r) # "begin"
  BY <1>1 DEF Do, Active
<1>7. PoolFacts' /\ QueueFacts' /\ WriterFacts'
  BY <1>1, <1>2, <1>5, <1>6, PoolStays, QueueStays, WritersStay
<1> QED
  BY <1>4, <1>7 DEF IndInv

LEMMA EnqueueInv ==
  ASSUME IndInv, NEW r \in Request, Enqueue(r)
  PROVE  IndInv'
<1>1. /\ Do(r) = "begin" /\ ~Waiting(r) /\ queue' = Append(queue, r)
      /\ request' = request /\ pool' = pool /\ writer' = writer
  BY DEF Enqueue
<1>2. /\ queue \in Seq(Request) /\ Len(queue) \in Nat
      /\ \A i \in 1 .. Len(queue) : Do(queue[i]) = "begin" /\ queue[i] # r
      /\ \A i, j \in 1 .. Len(queue) : queue[i] = queue[j] => i = j
  BY <1>1 DEF IndInv, QueueFacts, Waiting
<1>3. /\ queue' \in Seq(Request) /\ Len(queue') = Len(queue) + 1
      /\ \A i \in 1 .. Len(queue) : queue'[i] = queue[i]
      /\ queue'[Len(queue) + 1] = r
  BY <1>1, <1>2, AppendProperties
<1>4. \A i \in 1 .. Len(queue') : i \in 1 .. Len(queue) \/ i = Len(queue) + 1
  BY <1>2, <1>3
<1>5. \A i, j \in 1 .. Len(queue') : queue'[i] = queue'[j] => i = j
  BY <1>2, <1>3, <1>4
<1>6. \A i \in 1 .. Len(queue') : Do(queue'[i]) = "begin"
  BY <1>1, <1>2, <1>3, <1>4
<1>7. QueueFacts'
  BY <1>1, <1>3, <1>5, <1>6 DEF QueueFacts, Do, Active
<1> QED
  BY <1>1, <1>7 DEF IndInv, RequestsHaveType, PoolFacts, WriterFacts, Holding, HasWritten

LEMMA AcquireInv ==
  ASSUME IndInv, NEW r \in Request, Acquire(r)
  PROVE  IndInv'
<1>1. /\ queue # <<>> /\ Head(queue) = r /\ HasFree /\ queue' = Tail(queue)
      /\ pool' = pool \cup {r} /\ Advance(r) /\ writer' = writer
  BY DEF Acquire
<1>2. /\ queue \in Seq(Request) /\ Len(queue) \in Nat /\ Len(queue) >= 1 /\ queue[1] = r
      /\ \A i \in 1 .. Len(queue) : queue[i] \in Request /\ Do(queue[i]) = "begin"
      /\ \A i, j \in 1 .. Len(queue) : queue[i] = queue[j] => i = j
  BY <1>1 DEF IndInv, QueueFacts
<1>3. Do(r) = "begin" /\ Active(r)
  BY <1>2, DoesSomething
<1>4. /\ RequestsHaveType' /\ OthersStay(r)
      /\ ~Holding(request[r]) /\ Holding(request'[r])
      /\ \A t \in Table : HasWritten(request[r], t) => HasWritten(request'[r], t)
  BY <1>1, <1>3, Advances DEF IndInv, OthersStay
<1>5. PoolFacts'
  <2>1. \A g \in Request : Holding(request'[g]) <=> Holding(request[g]) \/ g = r
    <3> TAKE g \in Request
    <3>1. CASE g = r
      BY <1>4, <3>1
    <3>2. CASE g # r
      BY <1>4, <3>2 DEF OthersStay
    <3> QED
      BY <3>1, <3>2
  <2>2. pool' = {g \in Request : Holding(request'[g])}
    BY <1>1, <2>1 DEF IndInv, PoolFacts
  <2>3. Cardinality(pool') = Cardinality(pool) \/ Cardinality(pool') = Cardinality(pool) + 1
    BY <1>1, PoolIsFinite, FS_AddElement
  <2>4. Cardinality(pool') <= PoolSize
    BY <1>1, <2>3, PoolIsFinite, PoolAssumption DEF HasFree
  <2> QED
    BY <2>2, <2>4 DEF PoolFacts, Holding
<1>6. QueueFacts'
  <2>1. /\ queue' \in Seq(Request) /\ Len(queue') = Len(queue) - 1
        /\ \A i \in 1 .. Len(queue') : queue'[i] = queue[i + 1]
    BY <1>1, <1>2, HeadTailProperties
  <2>2. \A i \in 1 .. Len(queue') : i + 1 \in 1 .. Len(queue) /\ i + 1 # 1
    BY <1>2, <2>1
  <2>3. \A i \in 1 .. Len(queue') :
          queue'[i] \in Request /\ queue'[i] # r /\ Do(queue'[i]) = "begin"
    BY <1>2, <2>1, <2>2
  <2>4. \A i, j \in 1 .. Len(queue') : queue'[i] = queue'[j] => i = j
    BY <1>2, <2>1, <2>2
  <2>5. \A i \in 1 .. Len(queue') : Do(queue[i])' = "begin"
    <3> TAKE i \in 1 .. Len(queue')
    <3> DEFINE g == queue'[i]
    <3>1. g \in Request /\ request'[g] = request[g] /\ Do(g) = "begin"
      BY <1>4, <2>3 DEF OthersStay
    <3>2. (IF request'[g] # Idle THEN Script[request'[g].kind][request'[g].at] ELSE "nothing")
            = "begin"
      BY <3>1 DEF Do, Active
    <3> QED
      BY <3>2 DEF Do, Active
  <2> QED
    BY <2>1, <2>4, <2>5 DEF QueueFacts
<1>7. WriterFacts'
  BY <1>1, <1>4, WritersStay
<1> QED
  BY <1>4, <1>5, <1>6, <1>7 DEF IndInv

LEMMA WriteInv ==
  ASSUME IndInv, NEW r \in Request, Write(r)
  PROVE  IndInv'
<1>1. /\ Do(r) \in Table /\ Do(r) \notin {"begin", "commit", "nothing"}
      /\ writer' = [writer EXCEPT ![Do(r)] = r] /\ Advance(r)
      /\ pool' = pool /\ queue' = queue
  BY TablesAreNot DEF Write
<1>2. Active(r)
  BY <1>1, DoesSomething
<1>3. /\ RequestsHaveType' /\ OthersStay(r)
      /\ Holding(request[r]) <=> Holding(request'[r])
      /\ HasWritten(request'[r], Do(r))
      /\ \A t \in Table : HasWritten(request[r], t) => HasWritten(request'[r], t)
  BY <1>1, <1>2, Advances DEF IndInv, OthersStay
<1>4. PoolFacts' /\ QueueFacts'
  BY <1>1, <1>3, PoolStays, QueueStays
<1>5. writer' \in [Table -> Request \cup {NoRequest}]
  BY <1>1 DEF IndInv, WriterFacts
<1>6. ASSUME NEW t \in Table, writer'[t] # NoRequest
      PROVE  HasWritten(request'[writer'[t]], t)
  <2>1. CASE t = Do(r)
    BY <1>1, <1>3, <2>1 DEF IndInv, WriterFacts
  <2>2. CASE t # Do(r)
    <3>1. writer'[t] = writer[t]
      BY <1>1, <2>2 DEF IndInv, WriterFacts
    <3>2. writer[t] \in Request /\ HasWritten(request[writer[t]], t)
      BY <1>6, <3>1 DEF IndInv, WriterFacts
    <3>3. CASE writer[t] = r
      BY <1>3, <3>1, <3>2, <3>3
    <3>4. CASE writer[t] # r
      BY <1>3, <3>1, <3>2, <3>4 DEF OthersStay
    <3> QED
      BY <3>3, <3>4
  <2> QED
    BY <2>1, <2>2
<1>7. WriterFacts'
  BY <1>5, <1>6 DEF WriterFacts, HasWritten
<1> QED
  BY <1>3, <1>4, <1>7 DEF IndInv

LEMMA AnswerInv ==
  ASSUME IndInv, NEW r \in Request, Answer(r)
  PROVE  IndInv'
<1>1. /\ Do(r) = "ask" /\ Advance(r)
      /\ pool' = pool /\ queue' = queue /\ writer' = writer
  BY DEF Answer
<1>2. Active(r)
  BY <1>1, DoesSomething
<1>3. /\ RequestsHaveType' /\ OthersStay(r)
      /\ Holding(request[r]) <=> Holding(request'[r])
      /\ \A t \in Table : HasWritten(request[r], t) => HasWritten(request'[r], t)
  BY <1>1, <1>2, Advances DEF IndInv, OthersStay
<1>4. PoolFacts' /\ QueueFacts' /\ WriterFacts'
  BY <1>1, <1>3, PoolStays, QueueStays, WritersStay
<1> QED
  BY <1>3, <1>4 DEF IndInv

LEMMA CommitInv ==
  ASSUME IndInv, NEW r \in Request, Commit(r)
  PROVE  IndInv'
<1>1. /\ Do(r) = "commit" /\ Release(r) /\ queue' = queue /\ Active(r)
  BY DoesSomething DEF Commit
<1>2. CASE request[r].at = Len(Script[request[r].kind])
  <2>1. request' = [request EXCEPT ![r] = Idle]
    BY <1>2 DEF Commit
  <2>2. ~Waiting(r)
    BY <1>1 DEF Waiting, IndInv, QueueFacts
  <2>3. RequestsHaveType' /\ QueueFacts' /\ OthersStay(r) /\ request'[r] = Idle
    BY <1>1, <2>1, <2>2, Leaves DEF LeaveQueue
  <2> QED
    BY <1>1, <2>3, Released, IdleHasNothing DEF IndInv
<1>3. CASE request[r].at # Len(Script[request[r].kind])
  <2>1. PICK k \in Kind : \E i \in 1 .. Len(Script[k]) :
          /\ request[r] = [kind |-> k, at |-> i]
          /\ i \in 1 .. 8 /\ Len(Script[k]) \in 1 .. 8
          /\ SoundAt(k, i, Script[k][i]) /\ Do(r) = Script[k][i]
    BY <1>1, Place DEF IndInv
  <2>2. PICK i \in 1 .. Len(Script[k]) :
          /\ request[r] = [kind |-> k, at |-> i]
          /\ i \in 1 .. 8 /\ Len(Script[k]) \in 1 .. 8
          /\ SoundAt(k, i, Script[k][i]) /\ Do(r) = Script[k][i]
    BY <2>1
  <2>3. Advance(r) /\ i # Len(Script[k])
    BY <1>3, <2>2 DEF Commit
  <2>4. i + 1 \in 1 .. 8 /\ i + 1 <= Len(Script[k])
    <3> DEFINE n == Len(Script[k])
    <3>1. i \in 1 .. n /\ n \in 1 .. 8 /\ i # n
      BY <2>2, <2>3
    <3> HIDE DEF n
    <3>2. i + 1 \in 1 .. 8 /\ i + 1 <= n
      BY <3>1
    <3> QED
      BY <3>2 DEF n
  <2>5. request' = [request EXCEPT ![r] = [kind |-> k, at |-> i + 1]]
    <3>1. [request[r] EXCEPT !.at = request[r].at + 1] = [kind |-> k, at |-> i + 1]
      BY <2>2
    <3> QED
      BY <2>3, <3>1 DEF Advance
  <2>6. /\ OthersStay(r) /\ request'[r] = [kind |-> k, at |-> i + 1]
        /\ request' = [g \in Request |-> request'[g]]
    BY <2>5 DEF IndInv, RequestsHaveType, OthersStay
  <2>7. RequestsHaveType'
    <3>1. ASSUME NEW g \in Request
          PROVE  \/ request'[g] = Idle
                 \/ \E l \in Kind, j \in 1 .. 8 :
                      j <= Len(Script[l]) /\ request'[g] = [kind |-> l, at |-> j]
      <4>1. CASE g = r
        BY <2>4, <2>6, <4>1
      <4>2. CASE g # r
        <5>1. request'[g] = request[g]
          BY <2>6, <4>2 DEF OthersStay
        <5> QED
          BY <5>1 DEF IndInv, RequestsHaveType
      <4> QED
        BY <4>1, <4>2
    <3> QED
      BY <2>6, <3>1 DEF RequestsHaveType
  <2>8. ~Holding(request'[r])
    BY <1>1, <2>2, <2>6 DEF SoundAt, Holding
  <2>9. QueueFacts'
    BY <1>1, <2>6, QueueStays
  <2> QED
    BY <1>1, <2>6, <2>7, <2>8, <2>9, Released DEF IndInv
<1> QED
  BY <1>2, <1>3

(* Who waits for a connection has none, and no rows. *)
LEMMA AcquireTimeoutInv ==
  ASSUME IndInv, NEW r \in Request, AcquireTimeout(r)
  PROVE  IndInv'
<1>1. /\ LeaveQueue(r) /\ request' = [request EXCEPT ![r] = Idle]
      /\ pool' = pool /\ writer' = writer
  BY DEF AcquireTimeout
<1>2. RequestsHaveType' /\ QueueFacts' /\ OthersStay(r) /\ request'[r] = Idle
  BY <1>1, Leaves
<1>3. Do(r) = "begin"
  BY DEF AcquireTimeout, Waiting, IndInv, QueueFacts
<1>4. ~Holding(request[r])
  BY <1>3, HeldDoes, TablesAreNot DEF IndInv
<1>5. \A t \in Table : ~HasWritten(request[r], t)
  BY <1>4, LockedIsHeld DEF IndInv
<1>6. ~Holding(request'[r])
  BY <1>2, IdleHasNothing
<1>7. PoolFacts'
  BY <1>1, <1>2, <1>4, <1>6, PoolStays
<1>8. WriterFacts'
  BY <1>1, <1>2, <1>5, WritersStay
<1> QED
  BY <1>2, <1>7, <1>8 DEF IndInv

LEMMA DropInv ==
  ASSUME IndInv, NEW r \in Request, Drop(r)
  PROVE  IndInv'
<1>1. /\ LeaveQueue(r) /\ Release(r) /\ request' = [request EXCEPT ![r] = Idle]
  BY DEF Drop
<1>2. RequestsHaveType' /\ QueueFacts' /\ OthersStay(r) /\ request'[r] = Idle
  BY <1>1, Leaves
<1> QED
  BY <1>1, <1>2, Released, IdleHasNothing DEF IndInv

LEMMA StepInv == IndInv /\ [Next]_vars => IndInv'
<1> SUFFICES ASSUME IndInv, [Next]_vars PROVE IndInv'
  OBVIOUS
<1>1. CASE UNCHANGED vars
  BY <1>1 DEF vars, IndInv, RequestsHaveType, PoolFacts, QueueFacts, WriterFacts,
              Holding, HasWritten, Do, Active
<1>2. ASSUME NEW r \in Request, Move(r) PROVE IndInv'
  BY <1>2, EnqueueInv, AcquireInv, WriteInv, CommitInv DEF Move
<1> QED
  BY <1>1, <1>2, ArriveInv, AnswerInv, AcquireTimeoutInv, DropInv DEF Next

-------------------------------------------------------------------------------
(* The invariant, from which the theorems follow. *)
THEOREM Invariance == Spec => []IndInv
<1> QED
  BY InitInv, StepInv, PTL DEF Spec

(* No more connections are in use than the pool has, and the queue, the    *)
(* positions and the locks have their types.                               *)
THEOREM TypeCorrect == Spec => []TypeOK
<1> QED
  BY Invariance, InvImpliesTypeOK, PTL

(* Whatever requests are in flight and however small the pool is, they     *)
(* never wait for each other alone: behind every stall is a link callback  *)
(* whose provider has not answered.                                        *)
THEOREM StallsAreLinks == Spec => []StallsOnlyBehindLinks
<1> QED
  BY Invariance, InvImpliesStalls, PTL

-------------------------------------------------------------------------------
(***************************************************************************)
(* How requests end.  A request stays where it is in its script, goes one  *)
(* step on or is answered (StepOf); it leaves each place for good reasons  *)
(* only (MoveLeaves, StaysInQueue), so fairness takes it through the at    *)
(* most eight places of a script.  What it may wait for on the way are     *)
(* hypotheses: NotHeldUp says what the steps of the code need.             *)
(***************************************************************************)
LEMMA StepOf ==
  ASSUME IndInv, [Next]_vars, NEW r \in Request, Active(r)
  PROVE  \/ request'[r] = request[r]
         \/ request'[r] = Idle
         \/ /\ Active(r)'
            /\ request'[r].kind = request[r].kind
            /\ request'[r].at = request[r].at + 1
<1>t. /\ request = [g \in Request |-> request[g]]
      /\ request[r].at \in Nat
      /\ request[r] = [kind |-> request[r].kind, at |-> request[r].at]
  BY DEF IndInv, RequestsHaveType, Active
<1>1. ASSUME Advance(r), Do(r) # "commit"
      PROVE  /\ Active(r)'
             /\ request'[r].kind = request[r].kind
             /\ request'[r].at = request[r].at + 1
  <2>1. request'[r] # Idle
    BY <1>1, Advances DEF IndInv
  <2>2. request'[r] = [request[r] EXCEPT !.at = request[r].at + 1]
    BY <1>1, <1>t DEF Advance
  <2>3. [request[r] EXCEPT !.at = request[r].at + 1]
          = [kind |-> request[r].kind, at |-> request[r].at + 1]
    BY <1>t
  <2> QED
    BY <2>1, <2>2, <2>3 DEF Active
<1>2. ASSUME NEW g \in Request, g # r, Advance(g) \/ request' = [request EXCEPT ![g] = Idle]
      PROVE  request'[r] = request[r]
  BY <1>2, <1>t DEF Advance
<1>3. ASSUME request' = [request EXCEPT ![r] = Idle] PROVE request'[r] = Idle
  BY <1>3, <1>t
<1>4. ASSUME NEW g \in Request, NEW k \in Kind, Arrive(g, k) PROVE request'[r] = request[r]
  BY <1>4, <1>t DEF Arrive, Active
<1>5. ASSUME NEW g \in Request, Enqueue(g) PROVE request'[r] = request[r]
  BY <1>5 DEF Enqueue
<1>6. ASSUME NEW g \in Request, Acquire(g)
      PROVE  Advance(g) /\ Do(g) # "commit"
  BY <1>6 DEF Acquire, IndInv, QueueFacts
<1>7. ASSUME NEW g \in Request, Write(g) \/ Answer(g)
      PROVE  Advance(g) /\ Do(g) # "commit"
  BY <1>7, TablesAreNot DEF Write, Answer
<1>8. ASSUME NEW g \in Request, Commit(g)
      PROVE  \/ request' = [request EXCEPT ![g] = Idle]
             \/ Advance(g)
  BY <1>8 DEF Commit
<1>9. ASSUME Commit(r), Advance(r)
      PROVE  /\ Active(r)'
             /\ request'[r].kind = request[r].kind
             /\ request'[r].at = request[r].at + 1
  <2>1. request'[r] = [request[r] EXCEPT !.at = request[r].at + 1]
    BY <1>9, <1>t DEF Advance
  <2>2. [request[r] EXCEPT !.at = request[r].at + 1]
          = [kind |-> request[r].kind, at |-> request[r].at + 1]
    BY <1>t
  <2>3. request[r].at + 1 # 0
    BY <1>t
  <2>4. [kind |-> request[r].kind, at |-> request[r].at + 1] # Idle
    BY <2>3 DEF Idle
  <2> QED
    BY <2>1, <2>2, <2>4 DEF Active
<1>10. ASSUME NEW g \in Request, AcquireTimeout(g) \/ Drop(g)
       PROVE  request' = [request EXCEPT ![g] = Idle]
  BY <1>10 DEF AcquireTimeout, Drop
<1>11. CASE UNCHANGED vars
  BY <1>11 DEF vars
<1>12. ASSUME NEW g \in Request,
              Acquire(g) \/ Write(g) \/ Answer(g) \/ Commit(g) \/ AcquireTimeout(g) \/ Drop(g)
       PROVE  \/ request'[r] = request[r]
              \/ request'[r] = Idle
              \/ /\ Active(r)'
                 /\ request'[r].kind = request[r].kind
                 /\ request'[r].at = request[r].at + 1
  <2>1. CASE g = r
    BY <1>1, <1>3, <1>6, <1>7, <1>8, <1>9, <1>10, <1>12, <2>1
  <2>2. CASE g # r
    BY <1>2, <1>6, <1>7, <1>8, <1>10, <1>12, <2>2
  <2> QED
    BY <2>1, <2>2
<1> QED
  BY <1>4, <1>5, <1>11, <1>12 DEF Next, Move

(* Only time-outs, failures and its turn take a request out of the queue.  *)
LEMMA StaysInQueue ==
  ASSUME IndInv, [Next]_vars, NEW r \in Request, Waiting(r), request'[r] = request[r]
  PROVE  Waiting(r)'
<1>t. /\ queue \in Seq(Request) /\ Len(queue) \in Nat
      /\ Do(r) = "begin"
      /\ \A i, j \in 1 .. Len(queue) : queue[i] = queue[j] => i = j
  BY DEF IndInv, QueueFacts, Waiting
<1>a. /\ request[r] # Idle /\ request = [g \in Request |-> request[g]]
      /\ request[r].at \in Nat
  BY <1>t DEF Do, Active, IndInv, RequestsHaveType
<1>1. PICK i \in 1 .. Len(queue) : queue[i] = r
  BY DEF Waiting
<1>2. ASSUME UNCHANGED queue PROVE Waiting(r)'
  BY <1>2 DEF Waiting
<1>3. ASSUME NEW g \in Request, Enqueue(g) PROVE Waiting(r)'
  <2>1. /\ queue' = Append(queue, g)
        /\ Len(queue') = Len(queue) + 1 /\ queue'[i] = queue[i]
    BY <1>3, <1>t, AppendProperties DEF Enqueue
  <2>2. i \in 1 .. Len(queue')
    BY <1>t, <2>1
  <2> QED
    BY <1>1, <2>1, <2>2 DEF Waiting
<1>4. ASSUME NEW g \in Request, Acquire(g) PROVE Waiting(r)'
  <2>1. g # r
    <3>1. ASSUME Advance(r) PROVE request'[r] # request[r]
      <4>1. request'[r] = [request[r] EXCEPT !.at = request[r].at + 1]
        BY <1>a, <3>1 DEF Advance
      <4>2. request[r] = [kind |-> request[r].kind, at |-> request[r].at]
        BY <1>a DEF IndInv, RequestsHaveType
      <4>3. request'[r] = [kind |-> request[r].kind, at |-> request[r].at + 1]
        BY <4>1, <4>2
      <4>4. request'[r].at = request[r].at + 1
        BY <4>3
      <4> QED
        BY <1>a, <4>4
    <3> QED
      BY <1>4, <3>1 DEF Acquire
  <2>2. /\ queue # <<>> /\ queue[1] = g /\ queue' = Tail(queue)
        /\ Len(queue') = Len(queue) - 1
        /\ \A j \in 1 .. Len(queue') : queue'[j] = queue[j + 1]
    BY <1>4, <1>t, HeadTailProperties DEF Acquire
  <2>3. i # 1
    BY <1>1, <2>1, <2>2
  <2>4. i - 1 \in 1 .. Len(queue') /\ (i - 1) + 1 = i
    BY <1>t, <2>2, <2>3
  <2>5. queue'[i - 1] = r
    BY <1>1, <2>2, <2>4
  <2> QED
    BY <2>4, <2>5 DEF Waiting
<1>5. ASSUME NEW g \in Request, LeaveQueue(g), request' = [request EXCEPT ![g] = Idle]
      PROVE  Waiting(r)'
  <2>1. g # r
    BY <1>a, <1>5
  <2>2. CASE ~Waiting(g)
    BY <1>2, <1>5, <2>2 DEF LeaveQueue
  <2>3. CASE Waiting(g)
    <3>1. PICK l \in 1 .. Len(queue) : queue[l] = g /\ queue' = RemoveAt(queue, l)
      BY <1>5, <2>3 DEF LeaveQueue
    <3>2. /\ Len(queue') = Len(queue) - 1
          /\ \A j \in 1 .. Len(queue) - 1 : queue'[j] = IF j < l THEN queue[j] ELSE queue[j + 1]
      BY <1>t, <3>1, QueueRemoval
    <3>3. i # l
      BY <1>1, <2>1, <3>1
    <3>4. CASE i < l
      <4>1. i \in 1 .. Len(queue') /\ i \in 1 .. Len(queue) - 1
        BY <1>t, <3>2, <3>4
      <4>2. queue'[i] = r
        BY <1>1, <3>2, <3>4, <4>1
      <4> QED
        BY <4>1, <4>2 DEF Waiting
    <3>5. CASE l < i
      <4>1. i - 1 \in 1 .. Len(queue') /\ i - 1 \in 1 .. Len(queue) - 1 /\ ~(i - 1 < l)
            /\ (i - 1) + 1 = i
        BY <1>t, <3>2, <3>5
      <4>2. queue'[i - 1] = r
        BY <1>1, <3>2, <4>1
      <4> QED
        BY <4>1, <4>2 DEF Waiting
    <3> QED
      BY <3>3, <3>4, <3>5
  <2> QED
    BY <2>2, <2>3
<1>6. CASE UNCHANGED vars
  BY <1>2, <1>6 DEF vars
<1> QED
  BY <1>2, <1>3, <1>4, <1>5, <1>6
  DEF Next, Move, Arrive, Write, Commit, Answer, AcquireTimeout, Drop

(* A move takes the request on, or into the queue. *)
LEMMA MoveLeaves ==
  ASSUME IndInv, NEW r \in Request, Move(r), request'[r] = request[r]
  PROVE  Do(r) = "begin" /\ ~Waiting(r) /\ Waiting(r)'
<1>t. request = [g \in Request |-> request[g]]
  BY DEF IndInv, RequestsHaveType
<1>1. ASSUME Advance(r), Active(r) PROVE FALSE
  <2>1. /\ request[r].at \in Nat
        /\ request[r] = [kind |-> request[r].kind, at |-> request[r].at]
    BY <1>1 DEF IndInv, RequestsHaveType, Active
  <2>2. request'[r] = [request[r] EXCEPT !.at = request[r].at + 1]
    BY <1>1, <1>t DEF Advance
  <2>3. request'[r] = [kind |-> request[r].kind, at |-> request[r].at + 1]
    BY <2>1, <2>2
  <2>4. request'[r].at = request[r].at + 1
    BY <2>3
  <2> QED
    BY <2>1, <2>4
<1>2. CASE Enqueue(r)
  <2>1. queue \in Seq(Request) /\ queue' = Append(queue, r)
    BY <1>2 DEF Enqueue, IndInv, QueueFacts
  <2>2. Len(queue') \in 1 .. Len(queue') /\ queue'[Len(queue')] = r
    BY <2>1, AppendProperties
  <2> QED
    BY <1>2, <2>2 DEF Enqueue, Waiting
<1>3. CASE Acquire(r)
  <2>1. Do(r) = "begin"
    BY <1>3 DEF Acquire, IndInv, QueueFacts
  <2> QED
    BY <1>1, <1>3, <2>1, DoesSomething DEF Acquire
<1>4. CASE Write(r)
  BY <1>1, <1>4, DoesSomething, TablesAreNot DEF Write
<1>5. CASE Commit(r)
  <2>1. Active(r)
    BY <1>5, DoesSomething DEF Commit
  <2>2. request' = [request EXCEPT ![r] = Idle] => FALSE
    BY <1>t, <2>1 DEF Active
  <2> QED
    BY <1>1, <1>5, <2>1, <2>2 DEF Commit
<1> QED
  BY <1>2, <1>3, <1>4, <1>5 DEF Move

LEMMA AnswerLeaves ==
  ASSUME IndInv, NEW r \in Request, Answer(r)
  PROVE  request'[r] # request[r]
<1>1. Active(r) /\ Advance(r)
  BY DoesSomething DEF Answer
<1>2. /\ request[r].at \in Nat
      /\ request[r] = [kind |-> request[r].kind, at |-> request[r].at]
      /\ request = [g \in Request |-> request[g]]
  BY <1>1 DEF IndInv, RequestsHaveType, Active
<1>3. request'[r] = [request[r] EXCEPT !.at = request[r].at + 1]
  BY <1>1, <1>2 DEF Advance
<1>4. request'[r] = [kind |-> request[r].kind, at |-> request[r].at + 1]
  BY <1>2, <1>3
<1>5. request'[r].at = request[r].at + 1
  BY <1>4
<1> QED
  BY <1>2, <1>5

LEMMA TimeoutLeaves ==
  ASSUME IndInv, NEW r \in Request, AcquireTimeout(r)
  PROVE  ~Waiting(r)'
<1>1. LeaveQueue(r) /\ request' = [request EXCEPT ![r] = Idle]
  BY DEF AcquireTimeout
<1>2. PICK i \in 1 .. Len(queue) : queue[i] = r /\ queue' = RemoveAt(queue, i)
  BY <1>1 DEF AcquireTimeout, LeaveQueue
<1>3. /\ queue \in Seq(Request) /\ Len(queue) \in Nat
      /\ \A j, l \in 1 .. Len(queue) : queue[j] = queue[l] => j = l
  BY DEF IndInv, QueueFacts
<1>4. /\ Len(queue') = Len(queue) - 1
      /\ \A j \in 1 .. Len(queue) - 1 : queue'[j] = IF j < i THEN queue[j] ELSE queue[j + 1]
  BY <1>2, <1>3, QueueRemoval
<1>5. \A j \in 1 .. Len(queue') : queue'[j] # r
  <2> TAKE j \in 1 .. Len(queue')
  <2>1. CASE j < i
    <3>1. queue'[j] = queue[j] /\ j \in 1 .. Len(queue) /\ j # i
      BY <1>3, <1>4, <2>1
    <3> QED
      BY <1>2, <1>3, <3>1
  <2>2. CASE ~(j < i)
    <3>1. queue'[j] = queue[j + 1] /\ j + 1 \in 1 .. Len(queue) /\ j + 1 # i
      BY <1>3, <1>4, <2>2
    <3> QED
      BY <1>2, <1>3, <3>1
  <2> QED
    BY <2>1, <2>2
<1> QED
  BY <1>5 DEF Waiting

-------------------------------------------------------------------------------
(* Request r, of a kind in K, stands at place n of its script; and what it *)
(* does there is s.                                                        *)
Path(r, K, n) == Active(r) /\ request[r].kind \in K /\ request[r].at = n
At(r, K, n, s) == Path(r, K, n) /\ Do(r) = s
Stays(r) == request'[r] = request[r]

LEMMA PathStep ==
  ASSUME IndInv, [Next]_vars, NEW r \in Request, NEW K, NEW n, Path(r, K, n)
  PROVE  \/ Path(r, K, n)' /\ Stays(r)
         \/ Path(r, K, n + 1)' /\ ~Path(r, K, n)'
         \/ ~Active(r)' /\ ~Path(r, K, n)'
<1>1. n \in Nat
  BY DEF Path, IndInv, RequestsHaveType, Active
<1>2. CASE request'[r] = request[r]
  BY <1>2 DEF Path, Active, Stays
<1>3. CASE request'[r] = Idle
  BY <1>3 DEF Path, Active
<1>4. CASE /\ Active(r)'
           /\ request'[r].kind = request[r].kind
           /\ request'[r].at = request[r].at + 1
  BY <1>1, <1>4 DEF Path
<1> QED
  BY <1>2, <1>3, <1>4, StepOf DEF Path

LEMMA AtStep ==
  ASSUME IndInv, [Next]_vars, NEW r \in Request, NEW K, NEW n, NEW s, At(r, K, n, s)
  PROVE  Path(r, K, n)' => At(r, K, n, s)' /\ Stays(r)
BY PathStep DEF At, Do, Path, Active, Stays

(* Where it does s it goes on, or is answered. *)
PassesAt(r, K, n, s) == [](At(r, K, n, s) => <>~Path(r, K, n))

(* What the steps of a request need.                                       *)
NotHeldUp(r) ==
  /\ CanMove(r) => ENABLED <<Move(r)>>_vars
  /\ Do(r) = "ask" => ENABLED <<Answer(r)>>_vars
  /\ Waiting(r) => ENABLED <<AcquireTimeout(r)>>_vars

Fair(r) == [](IndInv /\ NotHeldUp(r)) /\ [][Next]_vars /\ MovesOn(r)

(* A request that is not kept in the queue begins its transaction. *)
LEMMA BeginPasses ==
  ASSUME NEW r \in Request, NEW K, NEW n
  PROVE  Fair(r) /\ []<>~Waiting(r) => PassesAt(r, K, n, "begin")
<1>1. At(r, K, n, "begin") => Path(r, K, n)
  BY DEF At
<1>2. IndInv /\ At(r, K, n, "begin") /\ [Next]_vars =>
        (Path(r, K, n)' => At(r, K, n, "begin")')
  BY AtStep
<1>3. IndInv /\ At(r, K, n, "begin") /\ Waiting(r) /\ [Next]_vars =>
        (Path(r, K, n)' => Waiting(r)')
  BY AtStep, StaysInQueue DEF Stays
<1>4. NotHeldUp(r) /\ At(r, K, n, "begin") /\ ~Waiting(r) => ENABLED <<Move(r)>>_vars
  BY DEF NotHeldUp, CanMove, At
<1>5. IndInv /\ At(r, K, n, "begin") /\ ~Waiting(r) /\ [Next]_vars /\ <<Move(r)>>_vars =>
        (Path(r, K, n)' => Waiting(r)')
  BY AtStep, MoveLeaves DEF Stays
<1> QED
  BY <1>1, <1>2, <1>3, <1>4, <1>5, PTL DEF Fair, MovesOn, PassesAt

LEMMA CommitPasses ==
  ASSUME NEW r \in Request, NEW K, NEW n
  PROVE  Fair(r) => PassesAt(r, K, n, "commit")
<1>1. IndInv /\ At(r, K, n, "commit") /\ [Next]_vars =>
        (Path(r, K, n)' => At(r, K, n, "commit")')
  BY AtStep
<1>2. NotHeldUp(r) /\ At(r, K, n, "commit") => ENABLED <<Move(r)>>_vars
  BY DEF NotHeldUp, CanMove, At
<1>3. IndInv /\ At(r, K, n, "commit") /\ [Next]_vars /\ <<Move(r)>>_vars => ~Path(r, K, n)'
  BY AtStep, MoveLeaves DEF Stays, At
<1> QED
  BY <1>1, <1>2, <1>3, PTL DEF Fair, MovesOn, PassesAt

Freed(t) == []<>(writer[t] = NoRequest)

(* A row that is free again and again is written in the end. *)
LEMMA WritePasses ==
  ASSUME NEW r \in Request, NEW K, NEW n, NEW t \in Table
  PROVE  Fair(r) /\ Freed(t) => PassesAt(r, K, n, t)
<1>1. IndInv /\ At(r, K, n, t) /\ [Next]_vars => (Path(r, K, n)' => At(r, K, n, t)')
  BY AtStep
<1>2. NotHeldUp(r) /\ At(r, K, n, t) /\ writer[t] = NoRequest => ENABLED <<Move(r)>>_vars
  BY DEF NotHeldUp, CanMove, At
<1>3. IndInv /\ At(r, K, n, t) /\ [Next]_vars /\ <<Move(r)>>_vars => ~Path(r, K, n)'
  BY AtStep, MoveLeaves, TablesAreNot DEF Stays, At
<1> QED
  BY <1>1, <1>2, <1>3, PTL DEF Fair, MovesOn, PassesAt, Freed

LEMMA AskPasses ==
  ASSUME NEW r \in Request, NEW K, NEW n
  PROVE  Fair(r) /\ IsAnswered(r) => PassesAt(r, K, n, "ask")
<1>1. IndInv /\ At(r, K, n, "ask") /\ [Next]_vars => (Path(r, K, n)' => At(r, K, n, "ask")')
  BY AtStep
<1>2. NotHeldUp(r) /\ At(r, K, n, "ask") => ENABLED <<Answer(r)>>_vars
  BY DEF NotHeldUp, At
<1>3. IndInv /\ At(r, K, n, "ask") /\ [Next]_vars /\ <<Answer(r)>>_vars => ~Path(r, K, n)'
  BY AtStep, AnswerLeaves DEF Stays
<1> QED
  BY <1>1, <1>2, <1>3, PTL DEF Fair, IsAnswered, PassesAt

LEMMA QueueIsLeft ==
  ASSUME NEW r \in Request
  PROVE  Fair(r) /\ TimesOut(r) => []<>~Waiting(r)
<1>1. NotHeldUp(r) /\ Waiting(r) => ENABLED <<AcquireTimeout(r)>>_vars
  BY DEF NotHeldUp
<1>2. IndInv /\ <<AcquireTimeout(r)>>_vars => ~Waiting(r)'
  BY TimeoutLeaves
<1> QED
  BY <1>1, <1>2, PTL DEF Fair, TimesOut

-------------------------------------------------------------------------------
(* Locked rows come free again. *)
LEMMA WriterStep ==
  ASSUME IndInv, [Next]_vars, NEW t \in Table, NEW g \in Request, writer[t] = g
  PROVE  writer'[t] = g \/ writer'[t] = NoRequest
<1>1. g # NoRequest /\ writer \in [Table -> Request \cup {NoRequest}]
  BY PoolAssumption DEF IndInv, WriterFacts
<1>2. ASSUME NEW r \in Request, Release(r) PROVE writer'[t] = g \/ writer'[t] = NoRequest
  BY <1>2 DEF Release
<1>3. ASSUME NEW r \in Request, Write(r) PROVE writer'[t] = g
  BY <1>1, <1>3 DEF Write
<1> QED
  BY <1>2, <1>3 DEF Next, Move, Arrive, Enqueue, Acquire, Commit, Answer, AcquireTimeout, Drop, vars

LEMMA WriterPlace ==
  ASSUME IndInv, NEW t \in Table, NEW g \in Request, writer[t] = g
  PROVE  /\ Active(g)
         /\ Do(g) \in {"ask", "commit", "resources"}
         /\ t \in Quick => Do(g) = "commit"
<1>1. HasWritten(request[g], t)
  BY PoolAssumption DEF IndInv, WriterFacts
<1>2. /\ Active(g)
      /\ Do(g) \in {"ask", "commit"} \cup Table
      /\ Do(g) \in Table => Do(g) = "resources"
      /\ t # "resource_provider_logins" => Do(g) = "commit"
  BY <1>1, LockedIsHeld DEF IndInv
<1> QED
  BY <1>2 DEF Quick

(* Rows that are locked up to the commit only. *)
LEMMA QuickWriterEnds ==
  ASSUME NEW t \in Quick, NEW g \in Request
  PROVE  Fair(g) => [](writer[t] = g => <>(writer[t] = NoRequest))
<1>t. t \in Table
  BY DEF Quick
<1>1. IndInv /\ writer[t] = g => Do(g) = "commit"
  BY <1>t, WriterPlace
<1>2. IndInv /\ writer[t] = g /\ [Next]_vars => (writer[t] = g)' \/ (writer[t] = NoRequest)'
  BY <1>t, WriterStep
<1>3. NotHeldUp(g) /\ Do(g) = "commit" => ENABLED <<Move(g)>>_vars
  BY DEF NotHeldUp, CanMove
<1>4. IndInv /\ writer[t] = g /\ Do(g) = "commit" /\ <<Move(g)>>_vars => (writer[t] = NoRequest)'
  <2> SUFFICES ASSUME IndInv, writer[t] = g, Do(g) = "commit", Move(g)
               PROVE  writer'[t] = NoRequest
    OBVIOUS
  <2>1. ~Enqueue(g) /\ ~Write(g)
    BY TablesAreNot DEF Enqueue, Write
  <2>2. ~Acquire(g)
    BY DEF Acquire, IndInv, QueueFacts
  <2>3. Release(g)
    BY <2>1, <2>2 DEF Move, Commit
  <2> QED
    BY <1>t, <2>3 DEF Release
<1> QED
  BY <1>1, <1>2, <1>3, <1>4, PTL DEF Fair, MovesOn

AllFair == \A g \in Request : Fair(g)

LEMMA QuickRowsComeFree ==
  ASSUME NEW t \in Quick
  PROVE  []IndInv /\ AllFair => Freed(t)
<1>1. AllFair => \A g \in Request : [](writer[t] = g => <>(writer[t] = NoRequest))
  BY QuickWriterEnds DEF AllFair
<1>2. (\A g \in Request : [](writer[t] = g => <>(writer[t] = NoRequest)))
        => [](\A g \in Request : writer[t] = g => <>(writer[t] = NoRequest))
  OBVIOUS
<1>3. IndInv /\ (\A g \in Request : writer[t] = g => <>(writer[t] = NoRequest))
        => writer[t] = NoRequest \/ <>(writer[t] = NoRequest)
  BY DEF IndInv, WriterFacts, Quick
<1> QED
  BY <1>1, <1>2, <1>3, PTL DEF Freed

(* The row of a link: its writer may ask a provider and write resources    *)
(* before it commits.                                                      *)
LinkRow == "resource_provider_logins"
Writes(g, n) == writer[LinkRow] = g /\ Path(g, Kind, n)
WriterOn(g, n, m) == [](Writes(g, n) => <>(Writes(g, m) \/ writer[LinkRow] = NoRequest))

LEMMA LinkWriterPasses ==
  ASSUME NEW g \in Request, NEW n
  PROVE  Fair(g) /\ IsAnswered(g) /\ Freed("resources")
           => [](Writes(g, n) => <>~Path(g, Kind, n))
<1>1. IndInv /\ Writes(g, n) => \/ At(g, Kind, n, "ask")
                                \/ At(g, Kind, n, "commit")
                                \/ At(g, Kind, n, "resources")
  BY WriterPlace DEF Writes, At, Table, LinkRow
<1>2. Fair(g) /\ IsAnswered(g) => PassesAt(g, Kind, n, "ask")
  BY AskPasses
<1>3. Fair(g) => PassesAt(g, Kind, n, "commit")
  BY CommitPasses
<1>4. Fair(g) /\ Freed("resources") => PassesAt(g, Kind, n, "resources")
  BY WritePasses DEF Table
<1>5. Fair(g) => []IndInv
  BY PTL DEF Fair
<1> QED
  BY <1>1, <1>2, <1>3, <1>4, <1>5, PTL DEF PassesAt

LEMMA LinkWriterGoesOn ==
  ASSUME NEW g \in Request, NEW n, NEW m, m = n + 1
  PROVE  Fair(g) /\ IsAnswered(g) /\ Freed("resources")
           => WriterOn(g, n, m)
<1>1. IndInv /\ IndInv' /\ Writes(g, n) /\ [Next]_vars =>
        \/ Writes(g, n)'
        \/ Writes(g, m)'
        \/ (writer[LinkRow] = NoRequest)'
  <2> SUFFICES ASSUME IndInv, IndInv', Writes(g, n), [Next]_vars, writer'[LinkRow] # NoRequest
               PROVE  Writes(g, n)' \/ Writes(g, m)'
    OBVIOUS
  <2>1. LinkRow \in Table /\ writer[LinkRow] = g
    BY DEF Writes, Table, LinkRow
  <2>2. writer'[LinkRow] = g
    BY <2>1, WriterStep
  <2>3. Active(g)'
    <3>1. HasWritten(request'[g], LinkRow)
      BY <2>1, <2>2, PoolAssumption DEF IndInv, WriterFacts, HasWritten
    <3> QED
      BY <3>1 DEF HasWritten, Active
  <2>4. Path(g, Kind, n)' \/ Path(g, Kind, m)'
    BY <2>3, PathStep DEF Writes
  <2> QED
    BY <2>2, <2>4 DEF Writes, LinkRow
<1>2. Fair(g) /\ IsAnswered(g) /\ Freed("resources")
        => [](Writes(g, n) => <>~Path(g, Kind, n))
  BY LinkWriterPasses
<1>3. Writes(g, n) => Path(g, Kind, n)
  BY DEF Writes
<1> QED
  BY <1>1, <1>2, <1>3, PTL DEF Fair, WriterOn

LEMMA PlacesOfPath ==
  ASSUME IndInv, NEW r \in Request, NEW K, Active(r), request[r].kind \in K
  PROVE  \/ Path(r, K, 1) \/ Path(r, K, 2) \/ Path(r, K, 3) \/ Path(r, K, 4)
         \/ Path(r, K, 5) \/ Path(r, K, 6) \/ Path(r, K, 7) \/ Path(r, K, 8)
BY DEF Path, IndInv, RequestsHaveType, Active

LEMMA PathsAreShort ==
  ASSUME IndInv, NEW r \in Request, NEW K
  PROVE  ~Path(r, K, 9)
BY DEF Path, IndInv, RequestsHaveType, Active

LEMMA LinkWriterEnds ==
  ASSUME NEW g \in Request
  PROVE  Fair(g) /\ IsAnswered(g) /\ Freed("resources")
           => [](writer[LinkRow] = g => <>(writer[LinkRow] = NoRequest))
<1> DEFINE Premise == Fair(g) /\ IsAnswered(g) /\ Freed("resources")
           On(n, m) == WriterOn(g, n, m)
<1>1. Premise => /\ On(1, 2) /\ On(2, 3) /\ On(3, 4) /\ On(4, 5)
                 /\ On(5, 6) /\ On(6, 7) /\ On(7, 8) /\ On(8, 9)
  <2>1. /\ 2 = 1 + 1 /\ 3 = 2 + 1 /\ 4 = 3 + 1 /\ 5 = 4 + 1
        /\ 6 = 5 + 1 /\ 7 = 6 + 1 /\ 8 = 7 + 1 /\ 9 = 8 + 1
    OBVIOUS
  <2> QED
    BY <2>1, LinkWriterGoesOn
<1>2. IndInv /\ writer[LinkRow] = g =>
        \/ Writes(g, 1) \/ Writes(g, 2) \/ Writes(g, 3) \/ Writes(g, 4)
        \/ Writes(g, 5) \/ Writes(g, 6) \/ Writes(g, 7) \/ Writes(g, 8)
  <2> SUFFICES ASSUME IndInv, writer[LinkRow] = g
               PROVE  \/ Writes(g, 1) \/ Writes(g, 2) \/ Writes(g, 3) \/ Writes(g, 4)
                      \/ Writes(g, 5) \/ Writes(g, 6) \/ Writes(g, 7) \/ Writes(g, 8)
    OBVIOUS
  <2>1. Active(g)
    BY WriterPlace DEF LinkRow, Table
  <2>2. request[g].kind \in Kind
    BY <2>1 DEF IndInv, RequestsHaveType, Active
  <2> QED
    BY <2>1, <2>2, PlacesOfPath DEF Writes, LinkRow
<1>3. IndInv => ~Writes(g, 9)
  BY PathsAreShort DEF Writes
<1>4. Premise => []IndInv
  BY PTL DEF Fair
<1> QED
  BY <1>1, <1>2, <1>3, <1>4, PTL DEF WriterOn

LEMMA LinkRowComesFree ==
  []IndInv /\ AllFair /\ ProvidersAnswer => Freed(LinkRow)
<1>0. "resources" \in Quick
  BY DEF Quick, Table
<1>1. []IndInv /\ AllFair => Freed("resources")
  BY <1>0, QuickRowsComeFree
<1>2. AllFair /\ ProvidersAnswer /\ Freed("resources")
        => \A g \in Request : [](writer[LinkRow] = g => <>(writer[LinkRow] = NoRequest))
  BY LinkWriterEnds DEF AllFair, ProvidersAnswer
<1>3. (\A g \in Request : [](writer[LinkRow] = g => <>(writer[LinkRow] = NoRequest)))
        => [](\A g \in Request : writer[LinkRow] = g => <>(writer[LinkRow] = NoRequest))
  OBVIOUS
<1>4. IndInv /\ (\A g \in Request : writer[LinkRow] = g => <>(writer[LinkRow] = NoRequest))
        => writer[LinkRow] = NoRequest \/ <>(writer[LinkRow] = NoRequest)
  BY DEF IndInv, WriterFacts, Table, LinkRow
<1> QED
  BY <1>1, <1>2, <1>3, <1>4, PTL DEF Freed

-------------------------------------------------------------------------------
Passes(r, K, n) == [](Path(r, K, n) => <>~Path(r, K, n))
Ends(r, K) == [](Active(r) /\ request[r].kind \in K => <>~Active(r))

PathOn(r, K, n, m) == [](Path(r, K, n) => <>(Path(r, K, m) \/ ~Active(r)))

LEMMA GoesOn ==
  ASSUME NEW r \in Request, NEW K, NEW n, NEW m, m = n + 1
  PROVE  Fair(r) /\ Passes(r, K, n) => PathOn(r, K, n, m)
<1>1. IndInv /\ Path(r, K, n) /\ [Next]_vars => \/ Path(r, K, n)'
                                                \/ Path(r, K, m)'
                                                \/ ~Active(r)'
  BY PathStep
<1> QED
  BY <1>1, PTL DEF Fair, Passes, PathOn

LEMMA PathEnds ==
  ASSUME NEW r \in Request, NEW K
  PROVE  Fair(r) /\ (\A n : Passes(r, K, n)) => Ends(r, K)
<1> DEFINE Premise == Fair(r) /\ \A n : Passes(r, K, n)
           On(n, m) == PathOn(r, K, n, m)
<1>1. Premise => /\ On(1, 2) /\ On(2, 3) /\ On(3, 4) /\ On(4, 5)
                 /\ On(5, 6) /\ On(6, 7) /\ On(7, 8) /\ On(8, 9)
  <2>1. /\ 2 = 1 + 1 /\ 3 = 2 + 1 /\ 4 = 3 + 1 /\ 5 = 4 + 1
        /\ 6 = 5 + 1 /\ 7 = 6 + 1 /\ 8 = 7 + 1 /\ 9 = 8 + 1
    OBVIOUS
  <2> QED
    BY <2>1, GoesOn
<1>2. IndInv /\ Active(r) /\ request[r].kind \in K =>
        \/ Path(r, K, 1) \/ Path(r, K, 2) \/ Path(r, K, 3) \/ Path(r, K, 4)
        \/ Path(r, K, 5) \/ Path(r, K, 6) \/ Path(r, K, 7) \/ Path(r, K, 8)
  BY PlacesOfPath
<1>3. IndInv => ~Path(r, K, 9)
  BY PathsAreShort
<1>4. Premise => []IndInv
  BY PTL DEF Fair
<1> QED
  BY <1>1, <1>2, <1>3, <1>4, PTL DEF Ends, PathOn

(* What a request may do, and with which premises it passes that place.    *)
LEMMA DoesOne ==
  ASSUME IndInv, NEW r \in Request, NEW K, NEW n, Path(r, K, n)
  PROVE  /\ \E s \in {"begin", "commit", "ask"} \cup Table : At(r, K, n, s)
         /\ K \subseteq Bystander => \E s \in {"begin", "commit"} \cup Quick : At(r, K, n, s)
<1>1. PICK k \in Kind : \E i \in 1 .. Len(Script[k]) :
        /\ request[r] = [kind |-> k, at |-> i]
        /\ SoundAt(k, i, Script[k][i]) /\ Do(r) = Script[k][i]
  BY Place DEF IndInv, Path
<1>2. PICK i \in 1 .. Len(Script[k]) :
        /\ request[r] = [kind |-> k, at |-> i]
        /\ SoundAt(k, i, Script[k][i]) /\ Do(r) = Script[k][i]
  BY <1>1
<1>3. Do(r) \in {"begin", "commit", "ask"} \cup Table
  BY <1>2 DEF SoundAt
<1>4. ASSUME K \subseteq Bystander PROVE Do(r) \in {"begin", "commit"} \cup Quick
  <2>1. k \in Bystanders
    BY <1>2, <1>4, Kinds DEF Path, Bystander, Bystanders
  <2> QED
    BY <1>2, <2>1 DEF SoundAt
<1> QED
  BY <1>3, <1>4 DEF At

DoesOneOf(r, K, n, S) == [](Path(r, K, n) => \E s \in S : At(r, K, n, s))

LEMMA PassesAll ==
  ASSUME NEW r \in Request, NEW K, NEW n, NEW S
  PROVE  /\ DoesOneOf(r, K, n, S)
         /\ \A s \in S : PassesAt(r, K, n, s)
         => Passes(r, K, n)
<1>1. (\A s \in S : PassesAt(r, K, n, s))
        => \A s \in S : [](At(r, K, n, s) => <>~Path(r, K, n))
  BY DEF PassesAt
<1>2. (\A s \in S : [](At(r, K, n, s) => <>~Path(r, K, n)))
        => [](\A s \in S : At(r, K, n, s) => <>~Path(r, K, n))
  OBVIOUS
<1>3. /\ Path(r, K, n) => \E s \in S : At(r, K, n, s)
      /\ \A s \in S : At(r, K, n, s) => <>~Path(r, K, n)
      => (Path(r, K, n) => <>~Path(r, K, n))
  OBVIOUS
<1> QED
  BY <1>1, <1>2, <1>3, PTL DEF Passes, DoesOneOf

(* Who has a connection gives it back, and the pool serves whoever is      *)
(* first in line.                                                          *)
Holds(g, n) == g \in pool /\ Path(g, Kind, n)
HolderOn(g, n, m) == [](Holds(g, n) => <>(Holds(g, m) \/ ~(g \in pool)))
RowsComeFree == \A t \in Table : Freed(t)

LEMMA HolderGoesOn ==
  ASSUME NEW g \in Request, NEW n, NEW m, m = n + 1
  PROVE  Fair(g) /\ IsAnswered(g) /\ RowsComeFree => HolderOn(g, n, m)
<1> DEFINE S == {"ask", "commit"} \cup Table
           Elsewhere == [](Holds(g, n) => <>~Path(g, Kind, n))
<1>1. IndInv => (Holds(g, n) => \E s \in S : At(g, Kind, n, s))
  BY HeldDoes DEF Holds, At, IndInv, PoolFacts
<1>2. Fair(g) /\ IsAnswered(g) /\ RowsComeFree => \A s \in S : PassesAt(g, Kind, n, s)
  BY AskPasses, CommitPasses, WritePasses DEF RowsComeFree
<1>3. (\A s \in S : PassesAt(g, Kind, n, s))
        => [](\A s \in S : At(g, Kind, n, s) => <>~Path(g, Kind, n))
  <2>1. (\A s \in S : PassesAt(g, Kind, n, s))
          => \A s \in S : [](At(g, Kind, n, s) => <>~Path(g, Kind, n))
    BY DEF PassesAt
  <2>2. (\A s \in S : [](At(g, Kind, n, s) => <>~Path(g, Kind, n)))
          => [](\A s \in S : At(g, Kind, n, s) => <>~Path(g, Kind, n))
    OBVIOUS
  <2> QED
    BY <2>1, <2>2
<1>4. /\ Holds(g, n) => \E s \in S : At(g, Kind, n, s)
      /\ \A s \in S : At(g, Kind, n, s) => <>~Path(g, Kind, n)
      => (Holds(g, n) => <>~Path(g, Kind, n))
  OBVIOUS
<1>5. Fair(g) => []IndInv /\ [][Next]_vars
  BY PTL DEF Fair
<1>6. IndInv /\ IndInv' /\ Holds(g, n) /\ [Next]_vars =>
        Holds(g, n)' \/ Holds(g, m)' \/ (~(g \in pool))'
  <2> SUFFICES ASSUME IndInv, IndInv', Holds(g, n), [Next]_vars, g \in pool'
               PROVE  Holds(g, n)' \/ Holds(g, m)'
    OBVIOUS
  <2>1. Active(g)'
    <3>1. Holding(request'[g])
      BY DEF IndInv, PoolFacts, Holding
    <3> QED
      BY <3>1 DEF Holding, Active
  <2> QED
    BY <2>1, PathStep DEF Holds
<1>7. Holds(g, n) => Path(g, Kind, n)
  BY DEF Holds
<1>8. Fair(g) /\ IsAnswered(g) /\ RowsComeFree => Elsewhere
  BY <1>1, <1>2, <1>3, <1>4, <1>5, PTL
<1> QED
  BY <1>5, <1>6, <1>7, <1>8, PTL DEF HolderOn

LEMMA HolderEnds ==
  ASSUME NEW g \in Request
  PROVE  Fair(g) /\ IsAnswered(g) /\ RowsComeFree => [](g \in pool => <>~(g \in pool))
<1> DEFINE Premise == Fair(g) /\ IsAnswered(g) /\ RowsComeFree
           On(n, m) == HolderOn(g, n, m)
<1>1. Premise => /\ On(1, 2) /\ On(2, 3) /\ On(3, 4) /\ On(4, 5)
                 /\ On(5, 6) /\ On(6, 7) /\ On(7, 8) /\ On(8, 9)
  <2>1. /\ 2 = 1 + 1 /\ 3 = 2 + 1 /\ 4 = 3 + 1 /\ 5 = 4 + 1
        /\ 6 = 5 + 1 /\ 7 = 6 + 1 /\ 8 = 7 + 1 /\ 9 = 8 + 1
    OBVIOUS
  <2> QED
    BY <2>1, HolderGoesOn
<1>2. IndInv /\ g \in pool =>
        \/ Holds(g, 1) \/ Holds(g, 2) \/ Holds(g, 3) \/ Holds(g, 4)
        \/ Holds(g, 5) \/ Holds(g, 6) \/ Holds(g, 7) \/ Holds(g, 8)
  <2> SUFFICES ASSUME IndInv, g \in pool
               PROVE  \/ Holds(g, 1) \/ Holds(g, 2) \/ Holds(g, 3) \/ Holds(g, 4)
                      \/ Holds(g, 5) \/ Holds(g, 6) \/ Holds(g, 7) \/ Holds(g, 8)
    OBVIOUS
  <2>1. Active(g)
    BY DEF IndInv, PoolFacts, Holding, Active
  <2>2. request[g].kind \in Kind
    BY <2>1 DEF IndInv, RequestsHaveType, Active
  <2> QED
    BY <2>1, <2>2, PlacesOfPath DEF Holds
<1>3. IndInv => ~Holds(g, 9)
  BY PathsAreShort DEF Holds
<1>4. Premise => []IndInv
  BY PTL DEF Fair
<1> QED
  BY <1>1, <1>2, <1>3, <1>4, PTL DEF HolderOn

LEMMA ReturnedIsFree ==
  ASSUME IndInv, IndInv', [Next]_vars, NEW g \in Request, g \in pool, g \notin pool'
  PROVE  HasFree'
<1>1. IsFiniteSet(pool) /\ Cardinality(pool) \in Nat /\ Cardinality(pool) <= PoolSize
  BY PoolIsFinite DEF IndInv, PoolFacts
<1>2. pool' \subseteq pool
  <2>1. ASSUME NEW r \in Request, Release(r) PROVE pool' \subseteq pool
    BY <2>1 DEF Release
  <2>2. ASSUME NEW r \in Request, Acquire(r) PROVE FALSE
    BY <2>2 DEF Acquire
  <2> QED
    BY <2>1, <2>2
    DEF Next, Move, Arrive, Enqueue, Write, Commit, Answer, AcquireTimeout, Drop, vars
<1>3. pool' \subseteq pool \ {g}
  BY <1>2
<1>4. IsFiniteSet(pool \ {g}) /\ Cardinality(pool \ {g}) = Cardinality(pool) - 1
  BY <1>1, FS_RemoveElement
<1>5. IsFiniteSet(pool') /\ Cardinality(pool') <= Cardinality(pool \ {g})
  BY <1>3, <1>4, FS_Subset
<1>6. Cardinality(pool') \in Nat
  BY <1>5, FS_CardinalityType
<1> QED
  BY <1>1, <1>4, <1>5, <1>6, PoolAssumption DEF HasFree

ConnectionFreed == []<>HasFree

LEMMA ConnectionsComeFree ==
  []IndInv /\ AllFair /\ ProvidersAnswer /\ RowsComeFree => ConnectionFreed
<1>1. ASSUME NEW g \in Request
      PROVE  Fair(g) /\ IsAnswered(g) /\ RowsComeFree => [](g \in pool => <>HasFree)
  <2>1. Fair(g) /\ IsAnswered(g) /\ RowsComeFree => [](g \in pool => <>~(g \in pool))
    BY HolderEnds
  <2>2. IndInv /\ IndInv' /\ [Next]_vars /\ g \in pool => (g \in pool)' \/ HasFree'
    <3> SUFFICES ASSUME IndInv, IndInv', [Next]_vars, g \in pool, g \notin pool'
                 PROVE  HasFree'
      OBVIOUS
    <3> QED
      BY ReturnedIsFree
  <2> QED
    BY <2>1, <2>2, PTL DEF Fair
<1>2. AllFair /\ ProvidersAnswer /\ RowsComeFree
        => \A g \in Request : [](g \in pool => <>HasFree)
  BY <1>1 DEF AllFair, ProvidersAnswer
<1>3. (\A g \in Request : [](g \in pool => <>HasFree))
        => [](\A g \in Request : g \in pool => <>HasFree)
  OBVIOUS
<1>4. IndInv /\ (\A g \in Request : g \in pool => <>HasFree) => HasFree \/ <>HasFree
  <2>1. IndInv => HasFree \/ \E g \in Request : g \in pool
    <3> SUFFICES ASSUME IndInv, pool = {} PROVE HasFree
      BY DEF IndInv, PoolFacts
    <3> QED
      BY FS_EmptySet, PoolAssumption DEF HasFree
  <2> QED
    BY <2>1
<1> QED
  BY <1>2, <1>3, <1>4, PTL DEF ConnectionFreed

FirstInLine(r) == queue # <<>> /\ Head(queue) = r

LEMMA FirstStays ==
  ASSUME IndInv, [Next]_vars, NEW r \in Request, FirstInLine(r)
  PROVE  FirstInLine(r)' \/ ~Waiting(r)'
<1>t. /\ queue \in Seq(Request) /\ Len(queue) \in Nat /\ Len(queue) >= 1 /\ queue[1] = r
      /\ \A i, j \in 1 .. Len(queue) : queue[i] = queue[j] => i = j
  BY DEF FirstInLine, IndInv, QueueFacts
<1>1. ASSUME UNCHANGED queue PROVE FirstInLine(r)'
  BY <1>1 DEF FirstInLine
<1>2. ASSUME NEW g \in Request, Enqueue(g) PROVE FirstInLine(r)'
  <2>1. /\ queue' \in Seq(Request) /\ Len(queue') = Len(queue) + 1 /\ queue'[1] = queue[1]
    BY <1>2, <1>t, AppendProperties DEF Enqueue
  <2> QED
    BY <1>t, <2>1 DEF FirstInLine
<1>3. ASSUME NEW g \in Request, Acquire(g) PROVE ~Waiting(r)'
  <2>1. /\ Len(queue') = Len(queue) - 1
        /\ \A j \in 1 .. Len(queue') : queue'[j] = queue[j + 1]
    BY <1>3, <1>t, HeadTailProperties DEF Acquire
  <2>2. \A j \in 1 .. Len(queue') : j + 1 \in 1 .. Len(queue) /\ j + 1 # 1
    BY <1>t, <2>1
  <2>3. \A j \in 1 .. Len(queue') : queue'[j] # r
    BY <1>t, <2>1, <2>2
  <2> QED
    BY <2>3 DEF Waiting
<1>4. ASSUME NEW g \in Request, Waiting(g), LeaveQueue(g) PROVE FirstInLine(r)' \/ ~Waiting(r)'
  <2>1. PICK l \in 1 .. Len(queue) : queue[l] = g /\ queue' = RemoveAt(queue, l)
    BY <1>4 DEF LeaveQueue
  <2>2. /\ queue' \in Seq(Request) /\ Len(queue') = Len(queue) - 1
        /\ \A j \in 1 .. Len(queue) - 1 : queue'[j] = IF j < l THEN queue[j] ELSE queue[j + 1]
    BY <1>t, <2>1, QueueRemoval
  <2>3. CASE l = 1
    <3>1. \A j \in 1 .. Len(queue') :
            queue'[j] = queue[j + 1] /\ j + 1 \in 1 .. Len(queue) /\ j + 1 # 1
      BY <1>t, <2>2, <2>3
    <3>2. \A j \in 1 .. Len(queue') : queue'[j] # r
      BY <1>t, <3>1
    <3> QED
      BY <3>2 DEF Waiting
  <2>4. CASE l # 1
    <3>1. 1 < l /\ 1 \in 1 .. Len(queue) - 1
      BY <1>t, <2>1, <2>4
    <3>2. queue'[1] = r /\ Len(queue') >= 1
      BY <1>t, <2>2, <3>1
    <3> QED
      BY <2>2, <3>2 DEF FirstInLine
  <2> QED
    BY <2>3, <2>4
<1>5. ASSUME NEW g \in Request, AcquireTimeout(g) \/ Drop(g)
      PROVE  FirstInLine(r)' \/ ~Waiting(r)'
  <2>1. LeaveQueue(g)
    BY <1>5 DEF AcquireTimeout, Drop
  <2>2. CASE ~Waiting(g)
    BY <1>1, <2>1, <2>2 DEF LeaveQueue
  <2> QED
    BY <1>4, <2>1, <2>2
<1> QED
  BY <1>1, <1>2, <1>3, <1>5 DEF Next, Move, Arrive, Write, Commit, Answer, vars

LEMMA FirstIsServed ==
  ASSUME NEW r \in Request
  PROVE  Fair(r) /\ ConnectionFreed => (FirstInLine(r) ~> ~Waiting(r))
<1>1. IndInv /\ FirstInLine(r) /\ [Next]_vars => FirstInLine(r)' \/ (~Waiting(r))'
  BY FirstStays
<1>2. NotHeldUp(r) /\ FirstInLine(r) /\ HasFree => ENABLED <<Move(r)>>_vars
  BY DEF NotHeldUp, CanMove, FirstInLine
<1>3. IndInv /\ FirstInLine(r) /\ <<Move(r)>>_vars => (~Waiting(r))'
  <2> SUFFICES ASSUME IndInv, FirstInLine(r), Move(r) PROVE ~Waiting(r)'
    OBVIOUS
  <2>t. /\ queue \in Seq(Request) /\ Len(queue) \in Nat /\ Len(queue) >= 1 /\ queue[1] = r
        /\ \A i, j \in 1 .. Len(queue) : queue[i] = queue[j] => i = j
        /\ Do(r) = "begin"
    BY DEF FirstInLine, IndInv, QueueFacts
  <2>1. Waiting(r)
    BY <2>t DEF Waiting
  <2>2. Acquire(r)
    BY <2>t, <2>1, TablesAreNot DEF Move, Enqueue, Write, Commit
  <2>3. /\ Len(queue') = Len(queue) - 1
        /\ \A j \in 1 .. Len(queue') : queue'[j] = queue[j + 1]
    BY <2>2, <2>t, HeadTailProperties DEF Acquire
  <2>4. \A j \in 1 .. Len(queue') : j + 1 \in 1 .. Len(queue) /\ j + 1 # 1
    BY <2>t, <2>3
  <2>5. \A j \in 1 .. Len(queue') : queue'[j] # r
    BY <2>t, <2>3, <2>4
  <2> QED
    BY <2>5 DEF Waiting
<1> QED
  BY <1>1, <1>2, <1>3, PTL DEF Fair, MovesOn, ConnectionFreed

-------------------------------------------------------------------------------
(***************************************************************************)
(* When the fair actions can be taken, without ENABLED: the actions with   *)
(* the next state <<a, p, q, w>> as their arguments.  StepOfMove and the   *)
(* two lemmas after it tie them to the actions.                            *)
(***************************************************************************)
AdvanceTo(r, a) == a = [request EXCEPT ![r].at = @ + 1]

EnqueueTo(r, a, p, q, w) ==
  /\ Do(r) = "begin"
  /\ ~Waiting(r)
  /\ q = Append(queue, r)
  /\ a = request /\ p = pool /\ w = writer

AcquireTo(r, a, p, q, w) ==
  /\ queue # <<>>
  /\ Head(queue) = r
  /\ HasFree
  /\ q = Tail(queue)
  /\ p = pool \cup {r}
  /\ AdvanceTo(r, a)
  /\ w = writer

WriteTo(r, a, p, q, w) ==
  /\ Do(r) \in Table
  /\ writer[Do(r)] = NoRequest
  /\ w = [writer EXCEPT ![Do(r)] = r]
  /\ AdvanceTo(r, a)
  /\ p = pool /\ q = queue

CommitTo(r, a, p, q, w) ==
  /\ Do(r) = "commit"
  /\ p = pool \ {r}
  /\ w = [t \in Table |-> IF writer[t] = r THEN NoRequest ELSE writer[t]]
  /\ IF request[r].at = Len(Script[request[r].kind])
       THEN a = [request EXCEPT ![r] = Idle]
       ELSE AdvanceTo(r, a)
  /\ q = queue

MoveTo(r, a, p, q, w) ==
  EnqueueTo(r, a, p, q, w) \/ AcquireTo(r, a, p, q, w) \/ WriteTo(r, a, p, q, w)
    \/ CommitTo(r, a, p, q, w)

AnswerTo(r, a, p, q, w) ==
  /\ Do(r) = "ask"
  /\ AdvanceTo(r, a)
  /\ p = pool /\ q = queue /\ w = writer

AcquireTimeoutTo(r, a, p, q, w) ==
  /\ Waiting(r)
  /\ \E i \in 1 .. Len(queue) : queue[i] = r /\ q = RemoveAt(queue, i)
  /\ a = [request EXCEPT ![r] = Idle]
  /\ p = pool /\ w = writer

LEMMA StepOfMove ==
  ASSUME NEW r PROVE Move(r) <=> MoveTo(r, request', pool', queue', writer')
<1>1. Enqueue(r) <=> EnqueueTo(r, request', pool', queue', writer')
  BY DEF Enqueue, EnqueueTo
<1>2. Acquire(r) <=> AcquireTo(r, request', pool', queue', writer')
  BY DEF Acquire, AcquireTo, Advance, AdvanceTo
<1>3. Write(r) <=> WriteTo(r, request', pool', queue', writer')
  BY DEF Write, WriteTo, Advance, AdvanceTo
<1>4. Commit(r) <=> CommitTo(r, request', pool', queue', writer')
  BY DEF Commit, CommitTo, Release, Advance, AdvanceTo
<1> QED
  BY <1>1, <1>2, <1>3, <1>4 DEF Move, MoveTo

LEMMA StepOfAnswer ==
  ASSUME NEW r PROVE Answer(r) <=> AnswerTo(r, request', pool', queue', writer')
BY DEF Answer, AnswerTo, Advance, AdvanceTo

LEMMA StepOfTimeout ==
  ASSUME NEW r PROVE AcquireTimeout(r) <=> AcquireTimeoutTo(r, request', pool', queue', writer')
BY DEF AcquireTimeout, AcquireTimeoutTo, LeaveQueue

(* A next state exists that the action allows and that differs from this   *)
(* one.                                                                    *)
Changes(a, p, q, w) == <<a, p, q, w>> # <<request, pool, queue, writer>>
MoveIsPossible(r) == \E a, p, q, w : MoveTo(r, a, p, q, w) /\ Changes(a, p, q, w)
AnswerIsPossible(r) == \E a, p, q, w : AnswerTo(r, a, p, q, w) /\ Changes(a, p, q, w)
TimeoutIsPossible(r) == \E a, p, q, w : AcquireTimeoutTo(r, a, p, q, w) /\ Changes(a, p, q, w)

(* Going on changes the request's place. *)
LEMMA AdvanceChanges ==
  ASSUME RequestsHaveType, NEW r \in Request, Active(r), NEW a, AdvanceTo(r, a)
  PROVE  a # request
<1>1. PICK k \in Kind, i \in 1 .. 8 : request[r] = [kind |-> k, at |-> i]
  BY DEF RequestsHaveType, Active
<1>2. a[r] = [request[r] EXCEPT !.at = @ + 1]
  BY DEF RequestsHaveType, AdvanceTo
<1>3. a[r].at = i + 1 /\ request[r].at = i /\ i + 1 # i
  BY <1>1, <1>2
<1> QED
  BY <1>3

LEMMA SomethingIsDone ==
  ASSUME NEW r \in Request, Do(r) # "nothing"
  PROVE  Active(r)
BY DEF Do

LEMMA CanMoveThenMay ==
  ASSUME IndInv, NEW r \in Request, CanMove(r)
  PROVE  MoveIsPossible(r)
<1>q. queue \in Seq(Request) /\ Len(queue) \in Nat
  BY DEF IndInv, QueueFacts
<1>p. pool = {g \in Request : Holding(request[g])} /\ RequestsHaveType
  BY DEF IndInv, PoolFacts
<1>1. CASE Do(r) = "begin" /\ ~Waiting(r)
  <2>1. Len(Append(queue, r)) # Len(queue)
    BY <1>q
  <2>2. EnqueueTo(r, request, pool, Append(queue, r), writer)
    BY <1>1 DEF EnqueueTo
  <2>3. Changes(request, pool, Append(queue, r), writer)
    BY <2>1 DEF Changes
  <2> QED
    BY <2>2, <2>3 DEF MoveTo, MoveIsPossible
<1>2. CASE queue # <<>> /\ Head(queue) = r /\ HasFree
  <2> DEFINE a == [request EXCEPT ![r].at = @ + 1]
  <2>1. Len(Tail(queue)) # Len(queue)
    BY <1>q, <1>2, HeadTailProperties
  <2>2. AcquireTo(r, a, pool \cup {r}, Tail(queue), writer)
    BY <1>2 DEF AcquireTo, AdvanceTo
  <2>3. Changes(a, pool \cup {r}, Tail(queue), writer)
    BY <2>1 DEF Changes
  <2> QED
    BY <2>2, <2>3 DEF MoveTo, MoveIsPossible
<1>3. CASE Do(r) \in Table /\ writer[Do(r)] = NoRequest
  <2> DEFINE a == [request EXCEPT ![r].at = @ + 1]
             w == [writer EXCEPT ![Do(r)] = r]
  <2>1. WriteTo(r, a, pool, queue, w)
    BY <1>3 DEF WriteTo, AdvanceTo
  <2>2. Active(r)
    BY <1>3, TablesAreNot, SomethingIsDone
  <2>3. a # request
    BY <1>p, <2>2, AdvanceChanges DEF AdvanceTo
  <2>4. Changes(a, pool, queue, w)
    BY <2>3 DEF Changes
  <2> QED
    BY <2>1, <2>4 DEF MoveTo, MoveIsPossible
<1>4. CASE Do(r) = "commit"
  <2> DEFINE a == IF request[r].at = Len(Script[request[r].kind])
                    THEN [request EXCEPT ![r] = Idle]
                    ELSE [request EXCEPT ![r].at = @ + 1]
             w == [t \in Table |-> IF writer[t] = r THEN NoRequest ELSE writer[t]]
  <2>1. CommitTo(r, a, pool \ {r}, queue, w)
    BY <1>4 DEF CommitTo, AdvanceTo
  <2>2. Active(r)
    BY <1>4, SomethingIsDone
  <2>3. Holding(request[r])
    <3>1. PICK k \in Kind, i \in 1 .. 8 :
            request[r] = [kind |-> k, at |-> i] /\ SoundAt(k, i, Script[k][i]) /\ Do(r) = Script[k][i]
      BY <1>p, <2>2, Place
    <3> QED
      BY <1>4, <2>2, <3>1 DEF SoundAt, Holding, Active
  <2>4. pool \ {r} # pool
    BY <1>p, <2>3
  <2>5. Changes(a, pool \ {r}, queue, w)
    BY <2>4 DEF Changes
  <2> QED
    BY <2>1, <2>5 DEF MoveTo, MoveIsPossible
<1> QED
  BY <1>1, <1>2, <1>3, <1>4 DEF CanMove

LEMMA AskThenMayAnswer ==
  ASSUME IndInv, NEW r \in Request, Do(r) = "ask"
  PROVE  AnswerIsPossible(r)
<1> DEFINE a == [request EXCEPT ![r].at = @ + 1]
<1>1. AnswerTo(r, a, pool, queue, writer)
  BY DEF AnswerTo, AdvanceTo
<1>2. a # request
  BY SomethingIsDone, AdvanceChanges DEF IndInv, AdvanceTo
<1> QED
  BY <1>1, <1>2 DEF AnswerIsPossible, Changes

LEMMA WaitingThenMayTimeOut ==
  ASSUME IndInv, NEW r \in Request, Waiting(r)
  PROVE  TimeoutIsPossible(r)
<1>1. queue \in Seq(Request)
  BY DEF IndInv, QueueFacts
<1>2. PICK i \in 1 .. Len(queue) : queue[i] = r
  BY DEF Waiting
<1>3. Len(RemoveAt(queue, i)) # Len(queue)
  <2>1. Len(RemoveAt(queue, i)) = Len(queue) - 1 /\ Len(queue) \in Nat
    BY <1>1, QueueRemoval
  <2> QED
    BY <2>1
<1>4. AcquireTimeoutTo(r, [request EXCEPT ![r] = Idle], pool, RemoveAt(queue, i), writer)
  BY <1>2 DEF AcquireTimeoutTo
<1>5. Changes([request EXCEPT ![r] = Idle], pool, RemoveAt(queue, i), writer)
  BY <1>3 DEF Changes
<1> QED
  BY <1>4, <1>5 DEF TimeoutIsPossible

(***************************************************************************)
(* The meaning of ENABLED for the fair actions.  By the definition of      *)
(* ENABLED it holds in every state of every behaviour; the provers do not  *)
(* know that definition, so it is a hypothesis wherever ENABLED matters.   *)
(***************************************************************************)
EnabledIsPossible ==
  \A r \in Request :
    /\ ENABLED <<Move(r)>>_vars <=> MoveIsPossible(r)
    /\ ENABLED <<Answer(r)>>_vars <=> AnswerIsPossible(r)
    /\ ENABLED <<AcquireTimeout(r)>>_vars <=> TimeoutIsPossible(r)

(* So the fair actions are enabled in every state where the request is not *)
(* kept waiting.                                                           *)
LEMMA NobodyIsHeldUp == Spec /\ []EnabledIsPossible => [](\A r \in Request : NotHeldUp(r))
<1>1. IndInv /\ EnabledIsPossible => \A r \in Request : NotHeldUp(r)
  BY CanMoveThenMay, AskThenMayAnswer, WaitingThenMayTimeOut DEF EnabledIsPossible, NotHeldUp
<1> QED
  BY <1>1, Invariance, PTL

-------------------------------------------------------------------------------
LEMMA FairToAll == FairSpec /\ []EnabledIsPossible => []IndInv /\ AllFair
<1>1. ASSUME NEW g \in Request PROVE FairSpec /\ []EnabledIsPossible => Fair(g)
  <2>1. (\A r \in Request : NotHeldUp(r)) => NotHeldUp(g)
    OBVIOUS
  <2>2. FairSpec => Spec /\ MovesOn(g)
    BY DEF FairSpec
  <2> QED
    BY <2>1, <2>2, Invariance, NobodyIsHeldUp, PTL DEF Fair, Spec
<1>2. FairSpec => []IndInv
  BY Invariance, PTL DEF FairSpec
<1> QED
  BY <1>1, <1>2 DEF AllFair

LEMMA AllRowsComeFree == []IndInv /\ AllFair /\ ProvidersAnswer => RowsComeFree
BY QuickRowsComeFree, LinkRowComesFree DEF RowsComeFree, Quick, LinkRow

(* If the pool's timeout fires, every request that neither asks a provider *)
(* nor writes a link ends, whatever providers do, for any number of        *)
(* requests and any size of the pool.                                      *)
THEOREM BystandersAlwaysEnd == FairSpec /\ []EnabledIsPossible => BystandersEnd
<1> DEFINE S == {"begin", "commit"} \cup Quick
<1>1. ASSUME NEW r \in Request
      PROVE  []IndInv /\ AllFair /\ TimesOut(r) => Ends(r, Bystander)
  <2>1. ASSUME NEW n PROVE []IndInv /\ AllFair /\ TimesOut(r) => Passes(r, Bystander, n)
    <3>1. IndInv => (Path(r, Bystander, n) => \E s \in S : At(r, Bystander, n, s))
      BY DoesOne
    <3>2. AllFair => Fair(r)
      BY DEF AllFair
    <3>3. []IndInv /\ AllFair => \A t \in Quick : PassesAt(r, Bystander, n, t)
      BY <3>2, QuickRowsComeFree, WritePasses DEF Quick
    <3>4. Fair(r) /\ TimesOut(r) => PassesAt(r, Bystander, n, "begin")
      BY QueueIsLeft, BeginPasses
    <3>5. Fair(r) => PassesAt(r, Bystander, n, "commit")
      BY CommitPasses
    <3>6. []IndInv /\ AllFair /\ TimesOut(r) => \A s \in S : PassesAt(r, Bystander, n, s)
      BY <3>2, <3>3, <3>4, <3>5
    <3>7. []IndInv => DoesOneOf(r, Bystander, n, S)
      BY <3>1, PTL DEF DoesOneOf
    <3> QED
      BY <3>6, <3>7, PassesAll
  <2> QED
    BY <2>1, PathEnds DEF AllFair
<1>2. FairSpec /\ []EnabledIsPossible /\ AcquireTimesOut => \A r \in Request : Ends(r, Bystander)
  BY <1>1, FairToAll DEF AcquireTimesOut
<1>3. ASSUME NEW r \in Request
      PROVE  Ends(r, Bystander) => ((Active(r) /\ request[r].kind \in Bystander) ~> ~Active(r))
  BY PTL DEF Ends
<1> QED
  BY <1>2, <1>3 DEF BystandersEnd

(* If providers answer, a request ends unless it stands in the queue for   *)
(* ever: no row and no connection keeps it, whatever the other requests do.*)
THEOREM EndsUnlessQueued ==
  FairSpec /\ []EnabledIsPossible /\ ProvidersAnswer =>
    \A r \in Request : []<>~Waiting(r) => (Active(r) ~> ~Active(r))
<1> DEFINE S == {"begin", "commit", "ask"} \cup Table
           Served(r) == []<>~Waiting(r)
<1>1. ASSUME NEW r \in Request
      PROVE  []IndInv /\ AllFair /\ ProvidersAnswer /\ Served(r) => Ends(r, Kind)
  <2>1. ASSUME NEW n
        PROVE  []IndInv /\ AllFair /\ ProvidersAnswer /\ Served(r) => Passes(r, Kind, n)
    <3>1. IndInv => (Path(r, Kind, n) => \E s \in S : At(r, Kind, n, s))
      BY DoesOne
    <3>2. AllFair /\ ProvidersAnswer => Fair(r) /\ IsAnswered(r)
      BY DEF AllFair, ProvidersAnswer
    <3>3. []IndInv /\ AllFair /\ ProvidersAnswer => \A t \in Table : PassesAt(r, Kind, n, t)
      BY <3>2, AllRowsComeFree, WritePasses DEF RowsComeFree
    <3>4. Fair(r) /\ Served(r) => PassesAt(r, Kind, n, "begin")
      BY BeginPasses
    <3>5. Fair(r) => PassesAt(r, Kind, n, "commit")
      BY CommitPasses
    <3>6. Fair(r) /\ IsAnswered(r) => PassesAt(r, Kind, n, "ask")
      BY AskPasses
    <3>7. []IndInv /\ AllFair /\ ProvidersAnswer /\ Served(r)
            => \A s \in S : PassesAt(r, Kind, n, s)
      BY <3>2, <3>3, <3>4, <3>5, <3>6
    <3>8. []IndInv => DoesOneOf(r, Kind, n, S)
      BY <3>1, PTL DEF DoesOneOf
    <3> QED
      BY <3>7, <3>8, PassesAll
  <2> QED
    BY <2>1, PathEnds DEF AllFair
<1>2. ASSUME NEW r \in Request
      PROVE  []IndInv /\ Ends(r, Kind) => (Active(r) ~> ~Active(r))
  <2>1. IndInv /\ Active(r) => request[r].kind \in Kind
    BY DEF IndInv, RequestsHaveType, Active
  <2> QED
    BY <2>1, PTL DEF Ends
<1> QED
  BY <1>1, <1>2, FairToAll

(* With the pool's timeout, every request of every kind ends.              *)
THEOREM RequestsEndInTime ==
  FairSpec /\ []EnabledIsPossible /\ ProvidersAnswer /\ AcquireTimesOut =>
    \A r \in Request : Active(r) ~> ~Active(r)
<1>1. FairSpec /\ []EnabledIsPossible /\ AcquireTimesOut => \A r \in Request : []<>~Waiting(r)
  BY FairToAll, QueueIsLeft DEF AllFair, AcquireTimesOut
<1> QED
  BY <1>1, EndsUnlessQueued

(* Without it, whoever is first in line is served or leaves: what is       *)
(* missing for EveryRequestEnds is the induction on the place in the queue.*)
THEOREM FirstInLineIsServed ==
  FairSpec /\ []EnabledIsPossible /\ ProvidersAnswer =>
    \A r \in Request : FirstInLine(r) ~> ~Waiting(r)
BY FairToAll, AllRowsComeFree, ConnectionsComeFree, FirstIsServed DEF AllFair
===============================================================================
