------------------------- MODULE ProviderCatalogProofs -------------------------
(***************************************************************************)
(* Proofs about ProviderCatalog, for any number of rows, providers, keys   *)
(* and sign-ins.                                                           *)
(*                                                                         *)
(* A sign-in is described by its record alone: Good says what it knows at  *)
(* each point, and Steady what else it knows while its provider is steady. *)
(* The step from "verify" to "accepted" is where they meet: the token was  *)
(* signed by the site the browser was sent to, it was verified with a key  *)
(* of the first row's site, and sites share no keys.                       *)
(***************************************************************************)
EXTENDS ProviderCatalog, TLAPS

Steady(q) ==
  /\ q.pc \in {"again", "exchange", "verify"} => q.first = identity_providers[q.idp]
  /\ q.pc \in {"exchange", "verify"} => q.second = identity_providers[q.idp]
  /\ q.pc = "verify" => Findable(q.token, keys[q.site].published)
  /\ q.pc = "refused" =>
       LET row == identity_providers[q.idp]
       IN  \/ ~Allowed(row, q.kind)
           \/ row.provider_type = "unknown"
           \/ q.token # NoToken /\ ~row.jwks /\ (q.kind = "link" \/ row.public_key # q.token.key)

Good(q) ==
  /\ q.pc \in {"again", "exchange", "verify", "accepted"} =>
       q.first \in Row /\ Allowed(q.first, q.kind) /\ q.first.provider_type \in Type
  /\ q.pc \in {"exchange", "verify", "accepted"} => q.second \in Row
  /\ q.pc \in {"verify", "accepted"} =>
       q.token \in Token /\ q.token.key \in KeysOf[q.site] /\ q.token.kid \in {q.token.key, NoKey}
  /\ q.pc = "verify" => q.second.site = q.site
  /\ q.pc = "accepted" => q.first.site = q.site

KeysHaveType ==
  /\ keys = [s \in Site |-> keys[s]]
  /\ \A s \in Site : /\ keys[s].signing \in KeysOf[s]
                     /\ keys[s].published \in Seq(KeysOf[s])

ListingHasType == listing \in [List -> [status : {"none", "ok", "error"}, idps : SUBSET Idp]]

HandlersAreGood ==
  /\ handler \in [Handler -> HandlerRecord]
  /\ \A h \in Handler : Good(handler[h])
  /\ \A h \in Handler : handler[h].steady => Steady(handler[h])

IndInv ==
  /\ identity_providers \in [Idp -> Row \cup {NoRow}]
  /\ KeysHaveType
  /\ ListingHasType
  /\ HandlersAreGood

LEMMA InvImpliesTypeOK == IndInv => TypeOK
BY DEF IndInv, KeysHaveType, ListingHasType, HandlersAreGood, Good, TypeOK

LEMMA InvImpliesAccepted == IndInv => AcceptedByItsRow
BY DEF IndInv, HandlersAreGood, Good, AcceptedByItsRow

LEMMA InvImpliesSteady == IndInv => SteadyProviderAccepted
BY DEF IndInv, HandlersAreGood, Steady, SteadyProviderAccepted

-------------------------------------------------------------------------------
(* The records a sign-in passes through. *)
LEMMA IdleFacts == /\ Idle \in HandlerRecord
                   /\ Idle.pc = "idle" /\ Idle.token = NoToken /\ Good(Idle) /\ Steady(Idle)
<1>1. (CHOOSE i \in Idp : TRUE) \in Idp /\ (CHOOSE s \in Site : TRUE) \in Site
  BY TableAssumption
<1>2. FALSE \in BOOLEAN
  OBVIOUS
<1>3. \A b \in BOOLEAN :
        [pc |-> "idle", kind |-> "login", idp |-> CHOOSE i \in Idp : TRUE,
         site |-> CHOOSE s \in Site : TRUE, first |-> NoRow, second |-> NoRow,
         token |-> NoToken, steady |-> b] \in HandlerRecord
  BY <1>1 DEF HandlerRecord, Kind
<1>4. Idle \in HandlerRecord
  BY <1>2, <1>3 DEF Idle
<1>5. Idle.pc = "idle" /\ Idle.token = NoToken
  BY DEF Idle
<1> QED
  BY <1>4, <1>5 DEF Good, Steady

LEMMA RowFacts ==
  /\ \A row \in Row :
       /\ row \in IdentityProvider /\ row # NoRow
       /\ row.site \in Site /\ row.public_key \in KeysOf[row.site] \cup {NoKey}
  /\ \A i \in Idp : identity_providers \in [Idp -> Row \cup {NoRow}] =>
       identity_providers[i] \in Row \cup {NoRow}
BY RowAssumption DEF IdentityProvider

(* A row that a query by id returns. *)
LEMMA FoundRow ==
  ASSUME NEW row \in Row \cup {NoRow}, NEW kind \in Kind
  PROVE  /\ get_provider_by_id(row, kind) =>
              row \in Row /\ Allowed(row, kind) /\ row.provider_type \in Type
         /\ ~get_provider_by_id(row, kind) =>
              ~Allowed(row, kind) \/ row.provider_type = "unknown"
<1>1. ReadColumn \subseteq Column
  BY TableAssumption DEF ReadColumn
<1>2. get_provider_by_id(row, kind) <=> Allowed(row, kind) /\ row.provider_type # "unknown"
  BY <1>1 DEF get_provider_by_id, try_from
<1>3. Allowed(row, kind) => row \in Row /\ row.provider_type \in Type \cup {"unknown"}
  BY RowFacts DEF Allowed, IdentityProvider
<1> QED
  BY <1>2, <1>3

LEMMA KeyStateFacts ==
  ASSUME NEW s \in Site, NEW k \in KeyState(s)
  PROVE  k.signing \in KeysOf[s] /\ k.published \in Seq(KeysOf[s])
<1>1. k.signing \in KeysOf[s] /\ k.published \in JwkSet(s)
  BY DEF KeyState
<1>2. PICK m \in 0 .. Cardinality(KeysOf[s]) : k.published \in [1 .. m -> KeysOf[s]]
  BY <1>1 DEF JwkSet, SeqOf
<1>3. m \in Nat
  BY <1>2
<1> QED
  BY <1>1, <1>2, <1>3

-------------------------------------------------------------------------------
(* A step of the sign-in in slot h leaves a good record there. *)
Moves(h) ==
  \E q \in HandlerRecord :
    Update(h, q) /\ Good(q) /\ (q.steady => Steady(q))

LEMMA StartSignInMoves ==
  ASSUME IndInv, NEW h \in Handler, NEW kind \in Kind, NEW i \in Idp, StartSignIn(h, kind, i)
  PROVE  Moves(h)
<1> DEFINE row == identity_providers[i]
           q == [Idle EXCEPT !.pc = "at_provider", !.kind = kind, !.idp = i, !.site = row.site]
<1>1. row \in Row /\ row.site \in Site
  BY RowFacts, FoundRow DEF StartSignIn, IndInv
<1>2. q \in HandlerRecord /\ q.pc = "at_provider"
  BY <1>1, IdleFacts DEF HandlerRecord
<1>3. Update(h, q)
  BY DEF StartSignIn
<1> HIDE DEF q
<1> QED
  BY <1>2, <1>3 DEF Moves, Good, Steady

(* The records that differ from one in few fields. *)
LEMMA RecordFacts ==
  ASSUME NEW hd \in HandlerRecord
  PROVE  /\ hd.kind \in Kind /\ hd.idp \in Idp /\ hd.site \in Site
         /\ \A b \in BOOLEAN :
              /\ [hd EXCEPT !.pc = "called", !.steady = b] \in HandlerRecord
              /\ [hd EXCEPT !.pc = "called", !.steady = b].pc = "called"
         /\ \A pc \in {"accepted", "refused"} :
              /\ [hd EXCEPT !.pc = pc] \in HandlerRecord
              /\ [hd EXCEPT !.pc = pc].pc = pc
              /\ [hd EXCEPT !.pc = pc].kind = hd.kind
              /\ [hd EXCEPT !.pc = pc].idp = hd.idp
              /\ [hd EXCEPT !.pc = pc].site = hd.site
              /\ [hd EXCEPT !.pc = pc].first = hd.first
              /\ [hd EXCEPT !.pc = pc].second = hd.second
              /\ [hd EXCEPT !.pc = pc].token = hd.token
              /\ [hd EXCEPT !.pc = pc].steady = hd.steady
BY DEF HandlerRecord

(* The records into which the callback puts what it has read. *)
LEMMA FirstRead ==
  ASSUME NEW hd \in HandlerRecord, NEW row \in Row \cup {NoRow}
  PROVE  \E q \in HandlerRecord :
           /\ q = [hd EXCEPT !.pc = "again", !.first = row]
           /\ q.pc = "again" /\ q.first = row /\ q.kind = hd.kind /\ q.idp = hd.idp
<1> DEFINE q == [hd EXCEPT !.pc = "again", !.first = row]
<1>1. /\ q \in HandlerRecord
      /\ q.pc = "again" /\ q.first = row /\ q.kind = hd.kind /\ q.idp = hd.idp
  BY DEF HandlerRecord
<1> QED
  BY <1>1, Zenon

LEMMA OnlyRead ==
  ASSUME NEW hd \in HandlerRecord, NEW row \in Row \cup {NoRow}
  PROVE  \E q \in HandlerRecord :
           /\ q = [hd EXCEPT !.pc = "exchange", !.first = row, !.second = row]
           /\ q.pc = "exchange" /\ q.first = row /\ q.second = row
           /\ q.kind = hd.kind /\ q.idp = hd.idp
<1> DEFINE q == [hd EXCEPT !.pc = "exchange", !.first = row, !.second = row]
<1>1. /\ q \in HandlerRecord
      /\ q.pc = "exchange" /\ q.first = row /\ q.second = row
      /\ q.kind = hd.kind /\ q.idp = hd.idp
  BY DEF HandlerRecord
<1> QED
  BY <1>1, Zenon

LEMMA SecondRead ==
  ASSUME NEW hd \in HandlerRecord, NEW row \in Row \cup {NoRow}
  PROVE  \E q \in HandlerRecord :
           /\ q = [hd EXCEPT !.pc = "exchange", !.second = row]
           /\ q.pc = "exchange" /\ q.first = hd.first /\ q.second = row
           /\ q.kind = hd.kind /\ q.idp = hd.idp /\ q.steady = hd.steady
<1> DEFINE q == [hd EXCEPT !.pc = "exchange", !.second = row]
<1>1. /\ q \in HandlerRecord
      /\ q.pc = "exchange" /\ q.first = hd.first /\ q.second = row
      /\ q.kind = hd.kind /\ q.idp = hd.idp /\ q.steady = hd.steady
  BY DEF HandlerRecord
<1> QED
  BY <1>1, Zenon

LEMMA TokenRead ==
  ASSUME NEW hd \in HandlerRecord, NEW t \in Token
  PROVE  \A b \in BOOLEAN :
           LET q == [hd EXCEPT !.pc = "verify", !.token = t, !.steady = b]
           IN  /\ q \in HandlerRecord /\ q.steady = b
               /\ q.pc = "verify" /\ q.token = t
               /\ q.first = hd.first /\ q.second = hd.second
               /\ q.kind = hd.kind /\ q.idp = hd.idp /\ q.site = hd.site
BY DEF HandlerRecord

LEMMA CallbackMoves ==
  ASSUME IndInv, NEW h \in Handler, Callback(h)
  PROVE  Moves(h)
<1>1. handler[h] \in HandlerRecord
  BY DEF IndInv, HandlersAreGood
<1>2. TRUE \in BOOLEAN
  OBVIOUS
<1>3. PICK q \in HandlerRecord :
        q = [handler[h] EXCEPT !.pc = "called", !.steady = TRUE] /\ q.pc = "called"
  BY <1>1, <1>2, RecordFacts
<1>4. Update(h, q)
  BY <1>3 DEF Callback
<1> QED
  BY <1>3, <1>4 DEF Moves, Good, Steady

(* A callback whose provider cannot be read is refused. *)
LEMMA RefusalMoves ==
  ASSUME IndInv, NEW h \in Handler, Goto(h, "refused"),
         ~get_provider_by_id(identity_providers[handler[h].idp], handler[h].kind)
  PROVE  Moves(h)
<1>1. handler[h] \in HandlerRecord
  BY DEF IndInv, HandlersAreGood
<1>2. PICK q \in HandlerRecord :
        /\ q = [handler[h] EXCEPT !.pc = "refused"]
        /\ q.pc = "refused" /\ q.idp = handler[h].idp /\ q.kind = handler[h].kind
  BY <1>1, RecordFacts
<1>3. Update(h, q)
  BY <1>2 DEF Goto
<1>4. q.idp \in Idp /\ q.kind \in Kind
  BY <1>1, <1>2, RecordFacts
<1>5. ~Allowed(identity_providers[q.idp], q.kind)
        \/ identity_providers[q.idp].provider_type = "unknown"
  BY <1>2, <1>4, RowFacts, FoundRow DEF IndInv
<1> QED
  BY <1>2, <1>3, <1>5 DEF Moves, Good, Steady

LEMMA ReadProviderMoves ==
  ASSUME IndInv, NEW h \in Handler, ReadProvider(h)
  PROVE  Moves(h)
<1> DEFINE hd == handler[h]
           row == identity_providers[hd.idp]
<1>1. hd \in HandlerRecord /\ hd.kind \in Kind /\ hd.idp \in Idp
  BY RecordFacts DEF IndInv, HandlersAreGood
<1>2. row \in Row \cup {NoRow}
  BY <1>1, RowFacts DEF IndInv
<1>3. CASE ~get_provider_by_id(row, hd.kind)
  BY <1>3, RefusalMoves DEF ReadProvider
<1>4. CASE get_provider_by_id(row, hd.kind) /\ hd.kind = "oauth"
  <2>1. PICK q \in HandlerRecord :
          /\ q = [hd EXCEPT !.pc = "again", !.first = row]
          /\ q.pc = "again" /\ q.first = row /\ q.kind = hd.kind /\ q.idp = hd.idp
    <3> HIDE DEF hd, row
    <3> QED
      BY <1>1, <1>2, FirstRead, Zenon
  <2>2. Update(h, q)
    BY <1>4, <2>1 DEF ReadProvider
  <2>3. row \in Row /\ Allowed(row, hd.kind) /\ row.provider_type \in Type
    BY <1>1, <1>2, <1>4, FoundRow
  <2> QED
    BY <2>1, <2>2, <2>3 DEF Moves, Good, Steady
<1>5. CASE get_provider_by_id(row, hd.kind) /\ hd.kind # "oauth"
  <2>1. PICK q \in HandlerRecord :
          /\ q = [hd EXCEPT !.pc = "exchange", !.first = row, !.second = row]
          /\ q.pc = "exchange" /\ q.first = row /\ q.second = row
          /\ q.kind = hd.kind /\ q.idp = hd.idp
    <3> HIDE DEF hd, row
    <3> QED
      BY <1>1, <1>2, OnlyRead, Zenon
  <2>2. Update(h, q)
    BY <1>5, <2>1 DEF ReadProvider
  <2>3. row \in Row /\ Allowed(row, hd.kind) /\ row.provider_type \in Type
    BY <1>1, <1>2, <1>5, FoundRow
  <2> QED
    BY <2>1, <2>2, <2>3 DEF Moves, Good, Steady
<1> QED
  BY <1>3, <1>4, <1>5

LEMMA ReadAgainMoves ==
  ASSUME IndInv, NEW h \in Handler, ReadAgain(h)
  PROVE  Moves(h)
<1> DEFINE hd == handler[h]
           row == identity_providers[hd.idp]
<1>1. hd \in HandlerRecord /\ hd.kind \in Kind /\ hd.idp \in Idp
  BY RecordFacts DEF IndInv, HandlersAreGood
<1>2. row \in Row \cup {NoRow}
  BY <1>1, RowFacts DEF IndInv
<1>3. CASE ~get_provider_by_id(row, hd.kind)
  BY <1>3, RefusalMoves DEF ReadAgain
<1>4. CASE get_provider_by_id(row, hd.kind)
  <2>1. PICK q \in HandlerRecord :
          /\ q = [hd EXCEPT !.pc = "exchange", !.second = row]
          /\ q.pc = "exchange" /\ q.first = hd.first /\ q.second = row
          /\ q.kind = hd.kind /\ q.idp = hd.idp /\ q.steady = hd.steady
    <3> HIDE DEF hd, row
    <3> QED
      BY <1>1, <1>2, SecondRead, Zenon
  <2>2. Update(h, q)
    BY <1>4, <2>1 DEF ReadAgain
  <2>3. row \in Row
    BY <1>1, <1>2, <1>4, FoundRow
  <2>4. hd.pc = "again" /\ Good(hd) /\ (hd.steady => Steady(hd))
    BY DEF ReadAgain, IndInv, HandlersAreGood
  <2>5. q.first \in Row /\ Allowed(q.first, q.kind) /\ q.first.provider_type \in Type
    BY <2>1, <2>4 DEF Good
  <2>6. hd.steady => hd.first = row
    BY <2>4 DEF Steady
  <2>7. Good(q)
    BY <2>1, <2>3, <2>5 DEF Good
  <2>8. q.steady => Steady(q)
    BY <2>1, <2>6 DEF Steady
  <2> QED
    BY <2>2, <2>7, <2>8 DEF Moves
<1> QED
  BY <1>3, <1>4

(* The token is signed by the site of the second row, the browser's. *)
LEMMA ExchangeMoves ==
  ASSUME IndInv, NEW h \in Handler, get_token_for_provider(h)
  PROVE  Moves(h)
<1> DEFINE hd == handler[h]
           s == hd.second.site
<1>1. hd \in HandlerRecord /\ hd.site \in Site /\ Good(hd) /\ (hd.steady => Steady(hd))
  BY RecordFacts DEF IndInv, HandlersAreGood
<1>2. hd.pc = "exchange" /\ hd.site = s
  BY DEF get_token_for_provider
<1>3. PICK kid \in {keys[s].signing, NoKey} :
        Update(h, [hd EXCEPT
          !.pc = "verify", !.token = [key |-> keys[s].signing, kid |-> kid],
          !.steady = @ /\ Findable([key |-> keys[s].signing, kid |-> kid], keys[s].published)])
  BY DEF get_token_for_provider
<1> DEFINE t == [key |-> keys[s].signing, kid |-> kid]
<1>4. keys[s].signing \in KeysOf[s] /\ keys[s].signing \in Key
  BY <1>1, <1>2, KeysAssumption DEF IndInv, KeysHaveType
<1>5. t \in Token /\ t.key \in KeysOf[s] /\ t.kid \in {t.key, NoKey}
  BY <1>4 DEF Token
<1> DEFINE b == hd.steady /\ Findable(t, keys[s].published)
<1>6. b \in BOOLEAN
  BY DEF Findable, Contains
<1>7. PICK q \in HandlerRecord :
        /\ q = [hd EXCEPT !.pc = "verify", !.token = t, !.steady = b]
        /\ q.pc = "verify" /\ q.token = t /\ q.steady = b
        /\ q.first = hd.first /\ q.second = hd.second
        /\ q.kind = hd.kind /\ q.idp = hd.idp /\ q.site = hd.site
  <2>1. t \in Token
    BY <1>5
  <2>2. hd \in HandlerRecord
    BY <1>1
  <2>3. b \in BOOLEAN
    BY <1>6
  <2>4. \A bool \in BOOLEAN :
          LET r == [hd EXCEPT !.pc = "verify", !.token = t, !.steady = bool]
          IN  /\ r \in HandlerRecord /\ r.steady = bool
              /\ r.pc = "verify" /\ r.token = t
              /\ r.first = hd.first /\ r.second = hd.second
              /\ r.kind = hd.kind /\ r.idp = hd.idp /\ r.site = hd.site
    <3> HIDE DEF hd, t
    <3> QED
      BY <2>1, <2>2, TokenRead
  <2> HIDE DEF hd, t, b
  <2> QED
    BY <2>3, <2>4
<1>8. Update(h, q)
  BY <1>3, <1>6, <1>7
<1>9. Good(q)
  <2>1. /\ q.first \in Row /\ Allowed(q.first, q.kind) /\ q.first.provider_type \in Type
        /\ q.second \in Row
    BY <1>1, <1>2, <1>7 DEF Good
  <2>2. q.token \in Token /\ q.token.key \in KeysOf[q.site] /\ q.token.kid \in {q.token.key, NoKey}
    BY <1>2, <1>5, <1>7
  <2>3. q.second.site = q.site
    BY <1>2, <1>7
  <2> QED
    BY <1>7, <2>1, <2>2, <2>3 DEF Good
<1>10. q.steady => Steady(q)
  <2> SUFFICES ASSUME q.steady PROVE Steady(q)
    OBVIOUS
  <2>1. hd.steady /\ Findable(t, keys[s].published)
    BY <1>6, <1>7
  <2>2. hd.first = identity_providers[hd.idp] /\ hd.second = identity_providers[hd.idp]
    BY <1>1, <1>2, <2>1 DEF Steady
  <2>3. Findable(q.token, keys[q.site].published)
    BY <1>2, <1>7, <2>1
  <2>4. q.first = identity_providers[q.idp] /\ q.second = identity_providers[q.idp]
    BY <1>7, <2>2
  <2> HIDE DEF hd, t
  <2> QED
    BY <1>7, <2>3, <2>4 DEF Steady
<1> QED
  BY <1>8, <1>9, <1>10 DEF Moves

(* The key that verifies a token belongs to the row's site, and a steady   *)
(* token's key is found.                                                   *)
LEMMA FoundKey ==
  ASSUME IndInv, NEW row \in Row, NEW kind \in Kind, NEW t \in Token
  PROVE  /\ DecodingKey(row, kind, t) \in KeysOf[row.site] \cup {NoKey}
         /\ /\ row.jwks /\ t.kid \in {t.key, NoKey}
            /\ Findable(t, keys[row.site].published)
            => DecodingKey(row, kind, t) = t.key
<1> DEFINE published == keys[row.site].published
<1>1. /\ row.site \in Site /\ row.public_key \in KeysOf[row.site] \cup {NoKey}
      /\ row.jwks \in BOOLEAN
  BY RowFacts DEF IdentityProvider
<1>2. published \in Seq(KeysOf[row.site])
  BY <1>1 DEF IndInv, KeysHaveType
<1>3. find(t, published) \in KeysOf[row.site] \cup {NoKey}
  <2>1. \A k : Contains(published, k) => k \in KeysOf[row.site]
    BY <1>2 DEF Contains
  <2>2. published # <<>> => published[1] \in KeysOf[row.site]
    BY <1>2
  <2> QED
    BY <2>1, <2>2 DEF find
<1>4. t.key \in Key /\ t.key # NoKey
  BY KeysAssumption DEF Token
<1>5. t.kid \in {t.key, NoKey} /\ Findable(t, published) => find(t, published) = t.key
  <2>1. CASE t.kid = t.key
    BY <1>4, <2>1 DEF Findable, find
  <2>2. CASE t.kid = NoKey /\ Findable(t, published)
    <3>1. Len(published) = 1 /\ \E i \in 1 .. Len(published) : published[i] = t.key
      BY <2>2 DEF Findable, Contains
    <3>2. published # <<>> /\ published[1] = t.key
      BY <3>1, <1>2
    <3> QED
      BY <2>2, <3>2 DEF find
  <2> QED
    BY <2>1, <2>2
<1> HIDE DEF published
<1>6. DecodingKey(row, kind, t) =
        IF row.jwks THEN find(t, published) ELSE IF kind # "link" THEN row.public_key ELSE NoKey
  BY DEF DecodingKey, published
<1> QED
  BY <1>1, <1>3, <1>5, <1>6 DEF published

LEMMA DecodeMoves ==
  ASSUME IndInv, NEW h \in Handler, decode(h)
  PROVE  Moves(h)
<1> DEFINE hd == handler[h]
           key == DecodingKey(hd.first, hd.kind, hd.token)
<1>1. hd \in HandlerRecord /\ hd.kind \in Kind /\ hd.idp \in Idp /\ hd.site \in Site
      /\ Good(hd) /\ (hd.steady => Steady(hd))
  BY RecordFacts DEF IndInv, HandlersAreGood
<1>2. hd.pc = "verify" /\ Goto(h, IF key = hd.token.key THEN "accepted" ELSE "refused")
  BY DEF decode, VerifyingRow
<1>3. /\ hd.first \in Row /\ Allowed(hd.first, hd.kind) /\ hd.first.provider_type \in Type
      /\ hd.second \in Row /\ hd.second.site = hd.site
      /\ hd.token \in Token /\ hd.token.key \in KeysOf[hd.site]
      /\ hd.token.kid \in {hd.token.key, NoKey}
  BY <1>1, <1>2 DEF Good
<1>4. hd.token.key # NoKey /\ hd.first.site \in Site
  BY <1>3, RowFacts, KeysAssumption DEF Token
<1>5. CASE key = hd.token.key
  <2>1. PICK q \in HandlerRecord :
          /\ q = [hd EXCEPT !.pc = "accepted"] /\ q.pc = "accepted"
          /\ q.first = hd.first /\ q.second = hd.second /\ q.token = hd.token
          /\ q.kind = hd.kind /\ q.idp = hd.idp /\ q.site = hd.site
    BY <1>1, RecordFacts
  <2>2. Update(h, q)
    BY <1>2, <1>5, <2>1 DEF Goto
  <2>3. key \in KeysOf[hd.first.site]
    BY <1>1, <1>3, <1>4, <1>5, FoundKey
  <2>4. hd.first.site = hd.site
    BY <1>1, <1>3, <1>4, <1>5, <2>3, KeysAssumption
  <2> HIDE DEF hd, key
  <2> QED
    BY <1>3, <2>1, <2>2, <2>4 DEF Moves, Good, Steady
<1>6. CASE key # hd.token.key
  <2>1. PICK q \in HandlerRecord :
          /\ q = [hd EXCEPT !.pc = "refused"] /\ q.pc = "refused"
          /\ q.token = hd.token /\ q.kind = hd.kind /\ q.idp = hd.idp /\ q.steady = hd.steady
    BY <1>1, RecordFacts
  <2>2. Update(h, q)
    BY <1>2, <1>6, <2>1 DEF Goto
  <2>3. ASSUME hd.steady
        PROVE  LET row == identity_providers[hd.idp]
               IN  hd.token # NoToken /\ ~row.jwks
                     /\ (hd.kind = "link" \/ row.public_key # hd.token.key)
    <3>1. /\ hd.first = identity_providers[hd.idp] /\ hd.second = identity_providers[hd.idp]
          /\ Findable(hd.token, keys[hd.site].published)
      BY <1>1, <1>2, <2>3 DEF Steady
    <3>2. hd.first.site = hd.site
      BY <1>3, <3>1
    <3>3. ~hd.first.jwks
      BY <1>1, <1>3, <1>6, <3>1, <3>2, FoundKey
    <3>4. hd.kind = "link" \/ hd.first.public_key # hd.token.key
      BY <1>6, <3>3 DEF DecodingKey
    <3>5. hd.token # NoToken
      BY <1>3, TableAssumption DEF Token
    <3> QED
      BY <3>1, <3>3, <3>4, <3>5
  <2> HIDE DEF hd, key
  <2>4. Good(q)
    BY <2>1 DEF Good
  <2>5. q.steady => Steady(q)
    BY <2>1, <2>3 DEF Steady
  <2> QED
    BY <2>2, <2>4, <2>5 DEF Moves
<1> QED
  BY <1>5, <1>6

LEMMA SignInMoves ==
  ASSUME IndInv, NEW h \in Handler, SignIn(h)
  PROVE  Moves(h)
<1>1. ASSUME NEW kind \in Kind, NEW i \in Idp, StartSignIn(h, kind, i) PROVE Moves(h)
  BY <1>1, StartSignInMoves
<1>2. ASSUME Drop(h) PROVE Moves(h)
  BY <1>2, IdleFacts DEF Drop, Moves
<1> QED
  BY <1>1, <1>2, CallbackMoves, ReadProviderMoves, ReadAgainMoves, ExchangeMoves, DecodeMoves
     DEF SignIn

-------------------------------------------------------------------------------
LEMMA InitInv == Init => IndInv
<1> SUFFICES ASSUME Init PROVE IndInv
  OBVIOUS
<1>1. PICK k \in [Site -> UNION {KeyState(s) : s \in Site}] :
        k = keys /\ \A s \in Site : k[s] \in KeyState(s)
  BY DEF Init
<1>2. KeysHaveType
  BY <1>1, KeyStateFacts DEF KeysHaveType
<1>3. ListingHasType
  BY DEF Init, ListingHasType, List
<1>4. HandlersAreGood
  BY IdleFacts DEF Init, HandlersAreGood
<1> QED
  BY <1>2, <1>3, <1>4 DEF Init, IndInv

LEMMA MovesInv ==
  ASSUME IndInv, NEW h \in Handler, Moves(h)
  PROVE  IndInv'
<1>1. PICK q \in HandlerRecord : Update(h, q) /\ Good(q) /\ (q.steady => Steady(q))
  BY DEF Moves
<1>2. /\ handler' = [handler EXCEPT ![h] = q]
      /\ identity_providers' = identity_providers /\ keys' = keys /\ listing' = listing
  BY <1>1 DEF Update, Others
<1>3. handler' \in [Handler -> HandlerRecord]
  BY <1>2 DEF IndInv, HandlersAreGood
<1>4. ASSUME NEW g \in Handler
      PROVE  Good(handler'[g]) /\ (handler'[g].steady => Steady(handler'[g]))
  BY <1>1, <1>2 DEF IndInv, HandlersAreGood
<1>5. \A g \in Handler : Good(handler[g])' /\ (handler[g].steady => Steady(handler[g]))'
  BY <1>2, <1>4 DEF Good, Steady
<1>6. HandlersAreGood'
  BY <1>3, <1>5 DEF HandlersAreGood
<1> QED
  BY <1>2, <1>6 DEF IndInv, KeysHaveType, ListingHasType

(* Only the answers of the lists change. *)
LEMMA ListInv ==
  ASSUME IndInv, get_idp_handler \/ list_resource_provider_handler
  PROVE  IndInv'
<1>1. \A found \in SUBSET Idp : \A selected :
        Answer(found, selected) \in [status : {"none", "ok", "error"}, idps : SUBSET Idp]
  BY DEF Answer
<1>2. UNCHANGED <<identity_providers, keys, handler>>
  BY DEF get_idp_handler, list_resource_provider_handler
<1>3. ListingHasType'
  <2>1. CASE get_idp_handler
    <3>1. db_get_login_providers \in [status : {"none", "ok", "error"}, idps : SUBSET Idp]
      BY <1>1 DEF db_get_login_providers
    <3> QED
      BY <2>1, <3>1 DEF get_idp_handler, IndInv, ListingHasType, List
  <2>2. CASE list_resource_provider_handler
    <3>1. PICK linked_only \in BOOLEAN, joined \in SUBSET Idp :
            listing' = [listing EXCEPT
              !["resources"] = db_get_resource_providers(linked_only, joined)]
      BY <2>2 DEF list_resource_provider_handler
    <3>2. db_get_resource_providers(linked_only, joined)
            \in [status : {"none", "ok", "error"}, idps : SUBSET Idp]
      BY <1>1 DEF db_get_resource_providers
    <3> QED
      BY <3>1, <3>2 DEF IndInv, ListingHasType, List
  <2> QED
    BY <2>1, <2>2
<1> QED
  BY <1>2, <1>3 DEF IndInv, KeysHaveType, HandlersAreGood, Good, Steady

(* An edited row ends the steadiness of the sign-ins that use it. *)
LEMMA EditInv ==
  ASSUME IndInv, NEW i \in Idp, NEW row \in Row \cup {NoRow}, Edit(i, row)
  PROVE  IndInv'
<1>1. /\ identity_providers' = [identity_providers EXCEPT ![i] = row]
      /\ handler' = [h \in Handler |->
           IF handler[h].idp = i THEN [handler[h] EXCEPT !.steady = FALSE] ELSE handler[h]]
      /\ keys' = keys /\ listing' = listing
  BY DEF Edit
<1>2. \A hd \in HandlerRecord, b \in BOOLEAN :
        LET q == [hd EXCEPT !.steady = b]
        IN  /\ q \in HandlerRecord /\ q.steady = b
            /\ q.pc = hd.pc /\ q.kind = hd.kind /\ q.idp = hd.idp /\ q.site = hd.site
            /\ q.first = hd.first /\ q.second = hd.second /\ q.token = hd.token
  BY DEF HandlerRecord
<1>3. FALSE \in BOOLEAN
  OBVIOUS
<1>4. ASSUME NEW h \in Handler
      PROVE  /\ handler'[h] \in HandlerRecord
             /\ Good(handler[h])' /\ (handler[h].steady => Steady(handler[h]))'
  <2>1. handler[h] \in HandlerRecord /\ Good(handler[h]) /\ handler[h].idp \in Idp
    BY RecordFacts DEF IndInv, HandlersAreGood
  <2>2. CASE handler[h].idp = i
    <3>1. PICK q \in HandlerRecord :
            /\ q = [handler[h] EXCEPT !.steady = FALSE] /\ q.steady = FALSE
            /\ q.pc = handler[h].pc /\ q.kind = handler[h].kind /\ q.idp = handler[h].idp
            /\ q.site = handler[h].site /\ q.first = handler[h].first
            /\ q.second = handler[h].second /\ q.token = handler[h].token
      BY <1>2, <1>3, <2>1
    <3>2. handler'[h] = q
      BY <1>1, <2>2, <3>1
    <3>3. Good(q)
      BY <2>1, <3>1 DEF Good
    <3> QED
      BY <3>1, <3>2, <3>3 DEF Good
  <2>3. CASE handler[h].idp # i
    <3>1. /\ handler'[h] = handler[h]
          /\ identity_providers'[handler[h].idp] = identity_providers[handler[h].idp]
      BY <1>1, <2>1, <2>3 DEF IndInv
    <3>2. handler[h].steady => Steady(handler[h])
      BY DEF IndInv, HandlersAreGood
    <3> QED
      BY <1>1, <2>1, <3>1, <3>2 DEF Good, Steady
  <2> QED
    BY <2>2, <2>3
<1>5. HandlersAreGood'
  <2>1. handler' \in [Handler -> HandlerRecord]
    BY <1>1, <1>4
  <2> QED
    BY <1>4, <2>1 DEF HandlersAreGood
<1> QED
  BY <1>1, <1>5 DEF IndInv, KeysHaveType, ListingHasType

(* A rotation ends the steadiness of the sign-ins whose key it withdraws. *)
LEMMA RotateInv ==
  ASSUME IndInv, NEW s \in Site, NEW k \in KeyState(s), Rotate(s, k)
  PROVE  IndInv'
<1> DEFINE stays(h) == handler[h].token # NoToken /\ handler[h].site = s =>
                         Findable(handler[h].token, k.published)
<1>1. /\ keys' = [keys EXCEPT ![s] = k]
      /\ handler' = [h \in Handler |->
           [handler[h] EXCEPT !.steady = handler[h].steady /\ stays(h)]]
      /\ identity_providers' = identity_providers /\ listing' = listing
  BY DEF Rotate
<1>2. KeysHaveType'
  BY <1>1, KeyStateFacts DEF IndInv, KeysHaveType
<1>3. \A hd \in HandlerRecord, b \in BOOLEAN :
        LET q == [hd EXCEPT !.steady = b]
        IN  /\ q \in HandlerRecord /\ q.steady = b
            /\ q.pc = hd.pc /\ q.kind = hd.kind /\ q.idp = hd.idp /\ q.site = hd.site
            /\ q.first = hd.first /\ q.second = hd.second /\ q.token = hd.token
  BY DEF HandlerRecord
<1>4. ASSUME NEW h \in Handler
      PROVE  /\ handler'[h] \in HandlerRecord
             /\ Good(handler[h])' /\ (handler[h].steady => Steady(handler[h]))'
  <2> DEFINE hd == handler[h]
             b == hd.steady /\ stays(h)
  <2>1. hd \in HandlerRecord /\ Good(hd) /\ hd.site \in Site
    BY RecordFacts DEF IndInv, HandlersAreGood
  <2>2. b \in BOOLEAN
    BY DEF stays
  <2>3. PICK q \in HandlerRecord :
          /\ q = [hd EXCEPT !.steady = b] /\ q.steady = b
          /\ q.pc = hd.pc /\ q.kind = hd.kind /\ q.idp = hd.idp /\ q.site = hd.site
          /\ q.first = hd.first /\ q.second = hd.second /\ q.token = hd.token
    <3> HIDE DEF hd, b
    <3> QED
      BY <1>3, <2>1, <2>2
  <2>4. handler'[h] = q
    BY <1>1, <2>3
  <2>5. Good(q)
    <3> HIDE DEF hd, b
    <3> QED
      BY <2>1, <2>3 DEF Good
  <2>6. ASSUME q.steady
        PROVE  /\ Steady(hd)
               /\ hd.pc = "verify" => Findable(hd.token, keys'[hd.site].published)
    <3>1. hd.steady /\ stays(h)
      BY <2>3, <2>6
    <3>2. Steady(hd)
      BY <3>1 DEF IndInv, HandlersAreGood
    <3>3. hd.pc = "verify" => hd.token # NoToken
      BY <2>1, TableAssumption DEF Good, Token
    <3>4. CASE hd.site = s
      <4>1. keys'[hd.site] = k
        BY <1>1, <3>4 DEF IndInv, KeysHaveType
      <4> QED
        BY <3>1, <3>2, <3>3, <3>4, <4>1
    <3>5. CASE hd.site # s
      <4>1. keys'[hd.site] = keys[hd.site]
        BY <1>1, <2>1, <3>5 DEF IndInv, KeysHaveType
      <4> QED
        BY <3>2, <4>1 DEF Steady
    <3> QED
      BY <3>4, <3>5
  <2> HIDE DEF hd, b
  <2>7. q.steady => Steady(q)'
    BY <1>1, <2>3, <2>6 DEF Steady
  <2>8. Good(q)'
    BY <2>5 DEF Good
  <2> QED
    BY <2>4, <2>7, <2>8
<1>5. HandlersAreGood'
  <2>1. handler' \in [Handler -> HandlerRecord]
    BY <1>1, <1>4
  <2> QED
    BY <1>4, <2>1 DEF HandlersAreGood
<1> QED
  BY <1>1, <1>2, <1>5 DEF IndInv, ListingHasType

LEMMA StepInv == IndInv /\ [Next]_vars => IndInv'
<1> SUFFICES ASSUME IndInv, [Next]_vars PROVE IndInv'
  OBVIOUS
<1>1. ASSUME NEW h \in Handler, SignIn(h) PROVE IndInv'
  BY <1>1, SignInMoves, MovesInv
<1>2. CASE UNCHANGED vars
  BY <1>2 DEF vars, IndInv, KeysHaveType, ListingHasType, HandlersAreGood, Good, Steady
<1> QED
  BY <1>1, <1>2, ListInv, EditInv, RotateInv DEF Next

(* The invariant, from which the theorems follow. *)
THEOREM Invariance == Spec => []IndInv
<1> QED
  BY InitInv, StepInv, PTL DEF Spec

(* Every record of a sign-in, every key set and every answer has its type. *)
THEOREM TypeCorrect == Spec => []TypeOK
<1> QED
  BY Invariance, InvImpliesTypeOK, PTL

(* However operators edit the catalogue and providers rotate their keys,   *)
(* an accepted sign-in's row was allowed for it and names the provider     *)
(* that vouched for the user.                                              *)
THEOREM AcceptedByRow == Spec => []AcceptedByItsRow
<1> QED
  BY Invariance, InvImpliesAccepted, PTL

(* A provider whose row and keys stay for the length of a callback is not  *)
(* refused for its keys.                                                   *)
THEOREM SteadyAccepted == Spec => []SteadyProviderAccepted
<1> QED
  BY Invariance, InvImpliesSteady, PTL

-------------------------------------------------------------------------------
(* The query of the login providers does not select a column its           *)
(* conversion reads.                                                       *)
LEMMA LoginAnswer ==
  /\ db_get_login_providers.idps = {}
  /\ (\E i \in Idp : Allowed(identity_providers[i], "login"))
       => db_get_login_providers.status = "error"
<1> DEFINE found == {i \in Idp : Allowed(identity_providers[i], "login")}
           selected == {"resources_endpoint"}
<1>1. \A row : ~try_from(row, selected)
  BY DEF try_from, ReadColumn
<1>2. CASE found = {}
  <2>1. \/ db_get_login_providers = [status |-> "ok", idps |-> found]
        \/ db_get_login_providers = [status |-> "error", idps |-> {}]
    BY DEF db_get_login_providers, Answer
  <2> QED
    BY <1>2, <2>1
<1>3. CASE found # {}
  <2>1. db_get_login_providers = [status |-> "error", idps |-> {}]
    BY <1>1, <1>3 DEF db_get_login_providers, Answer
  <2> QED
    BY <2>1
<1> QED
  BY <1>2, <1>3

(* No answer of the list of login providers has a provider in it.          *)
NoLoginProviderListed == listing["login"].idps = {}

(* What the run idp_listing shows on one table holds for every table: the  *)
(* list of login providers never has a provider in it, and asking for it   *)
(* fails as soon as there is one.                                          *)
THEOREM LoginListsFail ==
  Spec => /\ []NoLoginProviderListed
          /\ [][get_idp_handler /\ (\E i \in Idp : Allowed(identity_providers[i], "login"))
                  => listing'["login"].status = "error"]_vars
<1>1. Init => NoLoginProviderListed
  BY DEF Init, NoLoginProviderListed, List
<1>2. ASSUME IndInv, NoLoginProviderListed, [Next]_vars PROVE NoLoginProviderListed'
  <2>1. CASE get_idp_handler
    <3>1. listing'["login"] = db_get_login_providers
      BY <1>2, <2>1 DEF get_idp_handler, IndInv, ListingHasType, List
    <3> QED
      BY <3>1, LoginAnswer DEF NoLoginProviderListed
  <2>2. CASE list_resource_provider_handler
    BY <1>2, <2>2 DEF list_resource_provider_handler, NoLoginProviderListed
  <2>3. ASSUME UNCHANGED listing PROVE NoLoginProviderListed'
    BY <1>2, <2>3 DEF NoLoginProviderListed
  <2>4. ASSUME NEW h \in Handler, SignIn(h) PROVE UNCHANGED listing
    BY <2>4 DEF SignIn, StartSignIn, Callback, ReadProvider, ReadAgain,
                get_token_for_provider, decode, Drop, Goto, Update, Others
  <2> QED
    BY <1>2, <2>1, <2>2, <2>3, <2>4 DEF Next, Edit, Rotate, vars
<1>3. ASSUME IndInv, get_idp_handler, \E i \in Idp : Allowed(identity_providers[i], "login")
      PROVE  listing'["login"].status = "error"
  <2>1. listing'["login"] = db_get_login_providers
    BY <1>3 DEF get_idp_handler, IndInv, ListingHasType, List
  <2> QED
    BY <1>3, <2>1, LoginAnswer
<1>4. Spec => []NoLoginProviderListed
  BY <1>1, <1>2, Invariance, PTL DEF Spec
<1>5. IndInv /\ [Next]_vars =>
        [get_idp_handler /\ (\E i \in Idp : Allowed(identity_providers[i], "login"))
           => listing'["login"].status = "error"]_vars
  BY <1>3
<1>6. Spec => [][get_idp_handler /\ (\E i \in Idp : Allowed(identity_providers[i], "login"))
                   => listing'["login"].status = "error"]_vars
  BY <1>5, Invariance, PTL DEF Spec
<1> QED
  BY <1>4, <1>6
===============================================================================
