------------------------ MODULE AuthorizationFlowProofs ------------------------
(***************************************************************************)
(* Proofs about AuthorizationFlow, for any sign-ins, clients, callbacks,   *)
(* token requests and lifetimes.                                           *)
(*                                                                         *)
(* The invariant follows a sign-in from hand to hand.  Before the provider *)
(* has exchanged its code nobody holds it; afterwards it is in at most one *)
(* place; and a callback that got past the check of the state has the      *)
(* cookie of its own flow.                                                 *)
(***************************************************************************)
EXTENDS AuthorizationFlow, FiniteSetTheorems, TLAPS

RecordFacts(q) ==
  /\ q.pc # "idle" => q.flow \in Flow /\ flow[q.flow].step = "back"
  /\ q.pc \notin {"idle", "started"} => q.cookie = q.flow

ClaimFacts(c) == c.pc = "claimed" => c.code \in Flow /\ c.client = ClientOf[c.code]

Nowhere(f) == /\ Holding(f) = {} /\ Claiming(f) = {}
              /\ ~HasCode(f) /\ tokens[f].count = 0

(* A sign-in is in one place, if in any. *)
Custody(f) ==
  /\ \A h, g \in Holding(f) : h = g
  /\ \A d, e \in Claiming(f) : d = e
  /\ Holding(f) # {} => Claiming(f) = {} /\ ~HasCode(f) /\ tokens[f].count = 0
  /\ Claiming(f) # {} => ~HasCode(f) /\ tokens[f].count = 0
  /\ HasCode(f) => tokens[f].count = 0
  /\ tokens[f].count <= 1
  /\ ~spent[f] => Nowhere(f)
  /\ spent[f] => flow[f].step = "back"

IndInv ==
  /\ TypeOK
  /\ \A h \in Handler : RecordFacts(handler[h])
  /\ \A d \in Redeemer : ClaimFacts(redeemer[d])
  /\ CodeBelongsToFlow
  /\ \A f \in Flow : Custody(f)

-------------------------------------------------------------------------------
LEMMA IdleTyped ==
  /\ IdleHandler \in HandlerRecord /\ IdleHandler.pc = "idle"
  /\ IdleRedeemer \in RedeemerRecord /\ IdleRedeemer.pc = "idle"
  /\ NoCode \in CodeRow /\ NoCode.client_id = NoClient
BY ClientAssumption DEF IdleHandler, HandlerRecord, IdleRedeemer, RedeemerRecord, NoCode, CodeRow

LEMMA InitInv == Init => IndInv
<1> SUFFICES ASSUME Init PROVE IndInv
  OBVIOUS
<1>1. \A f \in Flow : /\ ~HasCode(f) /\ ~spent[f] /\ tokens[f].count = 0
                      /\ flow[f] = NewFlow /\ auth_code_data[f] = NoCode
  BY IdleTyped DEF Init, HasCode
<1>2. NewFlow \in FlowRecord
  BY DEF NewFlow, FlowRecord
<1>3. /\ \A h \in Handler : handler[h] = IdleHandler
      /\ \A d \in Redeemer : redeemer[d] = IdleRedeemer
  BY DEF Init
<1>4. TypeOK
  BY <1>2, IdleTyped DEF Init, TypeOK, TokenRecord
<1>5. \A f \in Flow : Holding(f) = {} /\ Claiming(f) = {}
  BY <1>3, IdleTyped DEF Holding, Claiming
<1>6. \A f \in Flow : Custody(f)
  BY <1>1, <1>5 DEF Custody, Nowhere
<1> QED
  BY <1>1, <1>3, <1>4, <1>6, IdleTyped DEF IndInv, RecordFacts, ClaimFacts, CodeBelongsToFlow

-------------------------------------------------------------------------------
(***************************************************************************)
(* What a callback does to its own slot.                                   *)
(***************************************************************************)
(* The step by which the provider vouches for f. *)
Vouched(h, f) ==
  /\ handler[h].pc = "exchange" /\ handler[h].flow = f
  /\ ~spent[f]
  /\ spent' = [spent EXCEPT ![f] = TRUE]

SlotChange(h, q) ==
  /\ handler' = [handler EXCEPT ![h] = q]
  /\ RecordFacts(q)
  /\ q.pc \in InHand => /\ q.flow = handler[h].flow
                        /\ handler[h].pc \in InHand \/ Vouched(h, q.flow)

CallbackStep(h) == HandlerStep(h) \/ Abort(h) \/ \E f \in Flow : Callback(h, f)

LEMMA RefuseSlot == ASSUME NEW h \in Handler, Refuse(h) PROVE SlotChange(h, IdleHandler)
BY IdleTyped DEF Refuse, SlotChange, RecordFacts, InHand

(* The rest of its steps only move the handler on, perhaps with an expiry. *)
LEMMA GotoSlot ==
  ASSUME IndInv, NEW h \in Handler, NEW pc \in {"exchange", "exchanged", "claims", "identified",
                                               "minted", "respond"},
         NEW exp \in Nat,
         handler' = [handler EXCEPT ![h] = [handler[h] EXCEPT !.pc = pc, !.exp = exp]],
         handler[h].pc # "idle",
         handler[h].pc = "started" => handler[h].cookie = handler[h].flow,
         pc \in InHand => handler[h].pc \in InHand \/ Vouched(h, handler[h].flow)
  PROVE  \E q \in HandlerRecord : SlotChange(h, q)
<1> DEFINE q == [handler[h] EXCEPT !.pc = pc, !.exp = exp]
<1>1. handler[h] \in HandlerRecord /\ RecordFacts(handler[h])
  BY DEF IndInv, TypeOK
<1>2. /\ q \in HandlerRecord
      /\ q.pc = pc /\ q.flow = handler[h].flow /\ q.cookie = handler[h].cookie
  BY <1>1 DEF HandlerRecord
<1>3. SlotChange(h, q)
  BY <1>1, <1>2 DEF SlotChange, RecordFacts
<1> QED
  BY <1>2, <1>3

LEMMA CallbackSlot ==
  ASSUME IndInv, NEW h \in Handler, CallbackStep(h)
  PROVE  \E q \in HandlerRecord : SlotChange(h, q)
<1>t. /\ handler \in [Handler -> HandlerRecord] /\ now \in Nat /\ TokenTtl \in Nat
      /\ jar.state_cookie \in Flow \cup {NoFlow}
      /\ handler[h].exp \in Nat
  BY TimeAssumption DEF IndInv, TypeOK, HandlerRecord
<1>1. ASSUME Refuse(h) PROVE \E q \in HandlerRecord : SlotChange(h, q)
  BY <1>1, RefuseSlot, IdleTyped
<1>2. ASSUME NEW pc \in {"exchange", "exchanged", "claims", "identified", "minted", "respond"},
             Goto(h, pc), handler[h].pc # "idle",
             handler[h].pc = "started" => handler[h].cookie = handler[h].flow,
             pc \in InHand => handler[h].pc \in InHand \/ Vouched(h, handler[h].flow)
      PROVE  \E q \in HandlerRecord : SlotChange(h, q)
  <2>1. [handler[h] EXCEPT !.pc = pc]
          = [handler[h] EXCEPT !.pc = pc, !.exp = handler[h].exp]
    BY <1>t DEF HandlerRecord
  <2>2. handler' = [handler EXCEPT ![h] = [handler[h] EXCEPT !.pc = pc]]
    BY <1>2 DEF Goto
  <2>3. handler' = [handler EXCEPT ![h] = [handler[h] EXCEPT !.pc = pc, !.exp = handler[h].exp]]
    BY <2>1, <2>2
  <2> QED
    BY <1>t, <1>2, <2>3, GotoSlot
<1>3. ASSUME NEW f \in Flow, Callback(h, f) PROVE \E q \in HandlerRecord : SlotChange(h, q)
  <2> DEFINE q == [pc |-> "started", flow |-> f, cookie |-> jar.state_cookie, exp |-> 0]
  <2>1. q \in HandlerRecord
    BY <1>t DEF HandlerRecord
  <2>2. SlotChange(h, q)
    BY <1>3 DEF Callback, SlotChange, RecordFacts, InHand
  <2> QED
    BY <2>1, <2>2
<1>4. CASE CheckState(h)
  BY <1>1, <1>2, <1>4 DEF CheckState, StateAccepted, InHand
<1>5. CASE get_token_for_provider(h)
  <2>1. CASE Refuse(h)
    BY <1>1, <2>1
  <2>2. CASE ~Refuse(h)
    BY <1>2, <1>5, <2>2 DEF get_token_for_provider, Vouched
  <2> QED
    BY <2>1, <2>2
<1>6. CASE get_tms_token_claims(h)
  <2>1. now + TokenTtl \in Nat
    BY <1>t
  <2>2. handler' = [handler EXCEPT ![h] = [handler[h] EXCEPT !.pc = "claims", !.exp = now + TokenTtl]]
    BY <1>6 DEF get_tms_token_claims
  <2> QED
    BY <1>6, <2>1, <2>2, GotoSlot DEF get_tms_token_claims, InHand
<1>7. CASE \/ db_insert_auth_code_data(h) \/ db_insert_tms_identity_if_absent(h)
           \/ LoginToken(h)
  BY <1>2, <1>7 DEF db_insert_auth_code_data, db_insert_tms_identity_if_absent, LoginToken, InHand
<1>8. CASE DecodeRedirect(h) \/ Respond(h) \/ Abort(h)
  BY <1>1, <1>2, <1>8 DEF DecodeRedirect, Respond, Abort, InHand
<1> QED
  BY <1>3, <1>4, <1>5, <1>6, <1>7, <1>8 DEF CallbackStep, HandlerStep

LEMMA HoldingAfter ==
  ASSUME TypeOK, NEW h \in Handler, NEW q \in HandlerRecord, NEW f \in Flow,
         handler' = [handler EXCEPT ![h] = q]
  PROVE  Holding(f)' = IF q.flow = f /\ q.pc \in InHand THEN Holding(f) \cup {h}
                                                        ELSE Holding(f) \ {h}
BY DEF TypeOK, Holding, InHand

LEMMA ClaimingAfter ==
  ASSUME TypeOK, NEW d \in Redeemer, NEW c \in RedeemerRecord, NEW f \in Flow,
         redeemer' = [redeemer EXCEPT ![d] = c]
  PROVE  Claiming(f)' = IF c.code = f /\ c.pc = "claimed" THEN Claiming(f) \cup {d}
                                                          ELSE Claiming(f) \ {d}
BY DEF TypeOK, Claiming

-------------------------------------------------------------------------------
(***************************************************************************)
(* The slots after a step.                                                 *)
(***************************************************************************)
(* No callback is forgotten by a flow: what came back stays back. *)
BackStays == \A f \in Flow : flow[f].step = "back" => flow'[f].step = "back"

LEMMA FlowStep ==
  ASSUME IndInv, Next
  PROVE  /\ flow' \in [Flow -> FlowRecord]
         /\ BackStays
<1>t. flow \in [Flow -> FlowRecord] /\ now + StateTtl \in Nat
      /\ handler \in [Handler -> HandlerRecord]
  BY TimeAssumption DEF IndInv, TypeOK
<1>1. ASSUME NEW f \in Flow, StartSignIn(f) PROVE flow' \in [Flow -> FlowRecord] /\ BackStays
  <2>1. get_state(f) \in FlowRecord
    BY <1>t DEF get_state, FlowRecord
  <2>2. \A g \in Flow : /\ [flow[g] EXCEPT !.overlap = TRUE] \in FlowRecord
                        /\ [flow[g] EXCEPT !.overlap = TRUE].step = flow[g].step
    BY <1>t DEF FlowRecord
  <2>3. flow' = [g \in Flow |-> IF g = f THEN get_state(f)
                                ELSE IF flow[g].step = "new" THEN flow[g]
                                ELSE [flow[g] EXCEPT !.overlap = TRUE]]
    BY <1>1 DEF StartSignIn
  <2>4. flow[f].step = "new"
    BY <1>1 DEF StartSignIn
  <2>5. \A g \in Flow : flow'[g] \in FlowRecord /\ (g # f => flow'[g].step = flow[g].step)
    BY <1>t, <2>1, <2>2, <2>3
  <2>6. flow' \in [Flow -> FlowRecord]
    BY <2>3, <2>5
  <2> QED
    BY <2>4, <2>5, <2>6 DEF BackStays
<1>2. ASSUME NEW f \in Flow, IdpRedirect(f) PROVE flow' \in [Flow -> FlowRecord] /\ BackStays
  <2>1. flow' = [flow EXCEPT ![f] = [flow[f] EXCEPT !.step = "back"]]
    BY <1>2 DEF IdpRedirect
  <2>2. [flow[f] EXCEPT !.step = "back"] \in FlowRecord /\ [flow[f] EXCEPT !.step = "back"].step = "back"
    BY <1>t DEF FlowRecord
  <2> QED
    BY <1>t, <2>1, <2>2 DEF BackStays
<1>3. ASSUME NEW h \in Handler, Respond(h) PROVE flow' \in [Flow -> FlowRecord] /\ BackStays
  <2>1. handler[h].flow \in Flow
    BY <1>3 DEF Respond, IndInv, RecordFacts
  <2> DEFINE r == [flow[handler[h].flow] EXCEPT !.code_out = TRUE]
  <2>2. flow' = flow \/ flow' = [flow EXCEPT ![handler[h].flow] = r]
    BY <1>3 DEF Respond
  <2>3. r \in FlowRecord /\ r.step = flow[handler[h].flow].step
    BY <1>t, <2>1 DEF FlowRecord
  <2> QED
    BY <1>t, <2>1, <2>2, <2>3 DEF BackStays
<1>4. ASSUME UNCHANGED flow PROVE flow' \in [Flow -> FlowRecord] /\ BackStays
  BY <1>t, <1>4 DEF BackStays
<1>5. ASSUME NEW h \in Handler, CallbackStep(h), ~Respond(h) PROVE UNCHANGED flow
  BY <1>5 DEF CallbackStep, HandlerStep, Callback, Abort, CheckState, get_token_for_provider,
              get_tms_token_claims, db_insert_auth_code_data, db_insert_tms_identity_if_absent,
              LoginToken, DecodeRedirect
<1>6. ASSUME NEW d \in Redeemer,
             \/ \E f \in Flow, c \in Client, r \in Redirect : get_access_token_from_code(d, f, c, r)
             \/ RedeemedToken(d) \/ AbortRedeem(d)
      PROVE  UNCHANGED flow
  BY <1>6 DEF get_access_token_from_code, RedeemedToken, AbortRedeem
<1>7. CASE Tick \/ Stop \/ Start
  BY <1>4, <1>7 DEF Tick, Stop, Start
<1> QED
  BY <1>1, <1>2, <1>3, <1>4, <1>5, <1>6, <1>7 DEF Next, login_handler, authorize_handler, CallbackStep

LEMMA HandlersStep ==
  ASSUME IndInv, Next
  PROVE  /\ handler' \in [Handler -> HandlerRecord]
         /\ \A h \in Handler : RecordFacts(handler[h])'
<1>t. /\ handler \in [Handler -> HandlerRecord]
      /\ \A h \in Handler : RecordFacts(handler[h])
      /\ BackStays
  BY FlowStep DEF IndInv, TypeOK
<1>1. ASSUME NEW h \in Handler, NEW q \in HandlerRecord, SlotChange(h, q)
      PROVE  /\ handler' \in [Handler -> HandlerRecord]
             /\ \A g \in Handler : RecordFacts(handler[g])'
  <2>1. handler' = [handler EXCEPT ![h] = q] /\ RecordFacts(q)
    BY <1>1 DEF SlotChange
  <2>2. \A g \in Handler : RecordFacts(handler'[g])
    BY <1>t, <2>1
  <2> QED
    BY <1>t, <2>1, <2>2 DEF RecordFacts, BackStays
<1>2. ASSUME NEW h \in Handler, CallbackStep(h)
      PROVE  /\ handler' \in [Handler -> HandlerRecord]
             /\ \A g \in Handler : RecordFacts(handler[g])'
  BY <1>1, <1>2, CallbackSlot
<1>3. CASE Stop
  BY <1>3, IdleTyped DEF Stop, RecordFacts
<1>4. CASE UNCHANGED handler
  BY <1>t, <1>4 DEF RecordFacts, BackStays
<1>5. ASSUME NEW f \in Flow, login_handler(f) \/ authorize_handler(f) \/ IdpRedirect(f)
      PROVE  UNCHANGED handler
  BY <1>5 DEF login_handler, authorize_handler, StartSignIn, IdpRedirect
<1>6. ASSUME NEW d \in Redeemer,
             \/ \E f \in Flow, c \in Client, r \in Redirect : get_access_token_from_code(d, f, c, r)
             \/ RedeemedToken(d) \/ AbortRedeem(d)
      PROVE  UNCHANGED handler
  BY <1>6 DEF get_access_token_from_code, RedeemedToken, AbortRedeem
<1>7. CASE Tick \/ Start
  BY <1>4, <1>7 DEF Tick, Start
<1> QED
  BY <1>2, <1>3, <1>4, <1>5, <1>6, <1>7 DEF Next, CallbackStep

-------------------------------------------------------------------------------
(***************************************************************************)
(* Codes, token requests and tokens.                                       *)
(***************************************************************************)
(* Nothing but the slots, clock and cookies changes, or a slot only loses. *)
StoresStay == UNCHANGED <<spent, auth_code_data, tokens, redeemer>>

StoresTyped ==
  /\ spent' \in [Flow -> BOOLEAN]
  /\ auth_code_data' \in [Flow -> CodeRow]
  /\ tokens' \in [Flow -> TokenRecord]
  /\ redeemer' \in [Redeemer -> RedeemerRecord]

StoresGood ==
  /\ StoresTyped
  /\ \A d \in Redeemer : ClaimFacts(redeemer[d])'
  /\ CodeBelongsToFlow'
  /\ \A f \in Flow : Custody(f)'

(* A step after which f is held by nobody new. *)
LEMMA Shrinks ==
  ASSUME IndInv, BackStays, NEW f \in Flow,
         Holding(f)' \subseteq Holding(f), Claiming(f)' \subseteq Claiming(f),
         HasCode(f)' => HasCode(f), tokens'[f].count = tokens[f].count,
         spent'[f] = spent[f]
  PROVE  Custody(f)'
BY DEF IndInv, Custody, Nowhere, BackStays

LEMMA StoresGoodWhenUnchanged ==
  ASSUME IndInv, BackStays, StoresStay,
         \A f \in Flow : Holding(f)' \subseteq Holding(f)
  PROVE  StoresGood
<1>1. \A f \in Flow : Custody(f)'
  <2>1. ASSUME NEW f \in Flow PROVE Custody(f)'
    BY <2>1, Shrinks DEF StoresStay, Claiming, HasCode
  <2> QED
    BY <2>1
<1> QED
  BY <1>1 DEF StoresGood, StoresTyped, StoresStay, IndInv, TypeOK, ClaimFacts, CodeBelongsToFlow, HasCode

(* The provider honours the code of a flow that nobody holds. *)
LEMMA VouchGood ==
  ASSUME IndInv, BackStays, NEW h \in Handler, get_token_for_provider(h)
  PROVE  StoresGood
<1>0. PICK f \in Flow : f = handler[h].flow
  BY DEF get_token_for_provider, IndInv, RecordFacts
<1>1. f \in Flow /\ flow[f].step = "back" /\ handler[h].cookie = f /\ h \notin Holding(f)
  BY <1>0 DEF get_token_for_provider, IndInv, RecordFacts, Holding
<1>2. PICK q \in HandlerRecord : SlotChange(h, q)
  BY CallbackSlot DEF CallbackStep, HandlerStep
<1>3. TypeOK /\ spent \in [Flow -> BOOLEAN]
  BY DEF IndInv, TypeOK
<1>4. \A g \in Flow : Holding(g)' = IF q.flow = g /\ q.pc \in InHand THEN Holding(g) \cup {h}
                                                                   ELSE Holding(g) \ {h}
  BY <1>2, <1>3, HoldingAfter DEF SlotChange
<1>5. q.pc \in InHand => q.flow = f /\ ~spent[f] /\ spent' = [spent EXCEPT ![f] = TRUE]
  BY <1>0, <1>2 DEF SlotChange, Vouched, get_token_for_provider, InHand
<1>6. /\ UNCHANGED <<auth_code_data, tokens, redeemer>>
      /\ UNCHANGED spent \/ spent' = [spent EXCEPT ![f] = TRUE]
  BY <1>0 DEF get_token_for_provider
<1>7. \A g \in Flow : Claiming(g)' = Claiming(g) /\ (HasCode(g)' <=> HasCode(g))
  BY <1>6 DEF Claiming, HasCode
<1>8. ASSUME NEW g \in Flow, g # f PROVE Custody(g)'
  BY <1>1, <1>3, <1>4, <1>5, <1>6, <1>7, <1>8, Shrinks
<1>9. Custody(f)'
  <2>1. CASE q.pc \in InHand
    <3>1. Nowhere(f)
      BY <1>1, <1>5, <2>1 DEF IndInv, Custody
    <3> QED
      BY <1>1, <1>3, <1>4, <1>5, <1>6, <1>7, <2>1, <3>1 DEF Custody, Nowhere, BackStays
  <2>2. CASE q.pc \notin InHand
    <3>1. Holding(f)' \subseteq Holding(f) /\ Claiming(f)' = Claiming(f)
      BY <1>1, <1>4, <1>7, <2>2
    <3> QED
      BY <1>1, <1>3, <1>6, <1>7, <3>1 DEF IndInv, Custody, Nowhere, BackStays
  <2> QED
    BY <2>1, <2>2
<1>10. \A g \in Flow : Custody(g)'
  BY <1>8, <1>9
<1> QED
  BY <1>1, <1>3, <1>6, <1>10
  DEF StoresGood, StoresTyped, IndInv, TypeOK, ClaimFacts, CodeBelongsToFlow, HasCode

(* A callback that moves on, and lets go of its flow. *)
LEMMA LetsGo ==
  ASSUME IndInv, NEW h \in Handler, NEW pc \in {"respond", "minted"}, Goto(h, pc), NEW f \in Flow
  PROVE  Holding(f)' = Holding(f) \ {h}
<1> DEFINE q == [handler[h] EXCEPT !.pc = pc]
<1>1. handler' = [handler EXCEPT ![h] = q] /\ TypeOK
  BY DEF Goto, IndInv
<1>2. q \in HandlerRecord /\ q.pc \notin InHand
  BY DEF IndInv, TypeOK, HandlerRecord, InHand
<1> QED
  BY <1>1, <1>2, HoldingAfter

LEMMA SaveCodeGood ==
  ASSUME IndInv, BackStays, NEW h \in Handler, db_insert_auth_code_data(h)
  PROVE  StoresGood
<1>0. PICK f \in Flow : f = handler[h].flow
  BY DEF db_insert_auth_code_data, IndInv, RecordFacts
<1>1. f \in Flow /\ handler[h].cookie = f /\ h \in Holding(f)
  BY <1>0 DEF db_insert_auth_code_data, IndInv, RecordFacts, Holding
<1> DEFINE row == [client_id |-> ClientOf[f], redirect_uri |-> RedirectOf[f],
                   updated |-> now, exp |-> handler[h].exp]
<1>2. auth_code_data' = [auth_code_data EXCEPT ![f] = row]
  BY <1>0, <1>1 DEF db_insert_auth_code_data
<1>3. row \in CodeRow /\ row.client_id # NoClient
  BY <1>1, ClientAssumption, RegistrationAssumption DEF IndInv, TypeOK, HandlerRecord, CodeRow
<1>4. /\ UNCHANGED <<spent, tokens, redeemer>>
      /\ \A g \in Flow : Holding(g)' = Holding(g) \ {h} /\ Claiming(g)' = Claiming(g)
  BY LetsGo DEF db_insert_auth_code_data, Claiming
<1>5. \A g \in Flow : g # f => (HasCode(g)' <=> HasCode(g))
  BY <1>2 DEF HasCode, IndInv, TypeOK
<1>6. ASSUME NEW g \in Flow, g # f PROVE Custody(g)'
  BY <1>4, <1>5, <1>6, Shrinks
<1>7. Custody(f)'
  <2>1. /\ \A g \in Holding(f) : g = h
        /\ Claiming(f) = {} /\ tokens[f].count = 0 /\ spent[f] /\ flow[f].step = "back"
    BY <1>1 DEF IndInv, Custody, Nowhere
  <2>2. Holding(f)' = {} /\ Claiming(f)' = {}
    BY <1>1, <1>4, <2>1
  <2> QED
    BY <1>1, <1>4, <2>1, <2>2 DEF Custody, BackStays
<1>8. \A g \in Flow : Custody(g)'
  BY <1>6, <1>7
<1> QED
  BY <1>1, <1>2, <1>3, <1>4, <1>8
  DEF StoresGood, StoresTyped, IndInv, TypeOK, ClaimFacts, CodeBelongsToFlow, HasCode

(* A token is stored by its one holder, who then no longer holds the flow. *)
LEMMA TokenGood ==
  ASSUME IndInv, BackStays, NEW f \in Flow, NEW exp \in Nat,
         make_auth_token(f, ClientOf[f], exp), tokens[f].count = 0, ~HasCode(f),
         spent[f], Holding(f)' = {}, Claiming(f)' = {},
         \A g \in Flow : Holding(g)' \subseteq Holding(g) /\ Claiming(g)' \subseteq Claiming(g),
         UNCHANGED <<spent, auth_code_data>>
  PROVE  /\ tokens' \in [Flow -> TokenRecord]
         /\ CodeBelongsToFlow'
         /\ \A g \in Flow : Custody(g)'
<1> DEFINE row == [count |-> 1, client |-> ClientOf[f], exp |-> exp]
<1>1. tokens' = [tokens EXCEPT ![f] = row] /\ tokens \in [Flow -> TokenRecord]
  BY DEF make_auth_token, IndInv, TypeOK
<1>2. row \in TokenRecord
  BY RegistrationAssumption DEF TokenRecord
<1>3. CodeBelongsToFlow'
  BY <1>1 DEF IndInv, CodeBelongsToFlow, HasCode
<1>4. ASSUME NEW g \in Flow, g # f PROVE Custody(g)'
  BY <1>1, <1>4, Shrinks DEF HasCode
<1>5. Custody(f)'
  BY <1>1 DEF IndInv, Custody, BackStays, HasCode
<1> QED
  BY <1>1, <1>2, <1>3, <1>4, <1>5

LEMMA LoginTokenGood ==
  ASSUME IndInv, BackStays, NEW h \in Handler, LoginToken(h)
  PROVE  StoresGood
<1>0. PICK f \in Flow : f = handler[h].flow
  BY DEF LoginToken, IndInv, RecordFacts
<1>1. f \in Flow /\ handler[h].cookie = f /\ h \in Holding(f) /\ handler[h].exp \in Nat
  BY <1>0 DEF LoginToken, IndInv, TypeOK, HandlerRecord, RecordFacts, Holding
<1>2. /\ make_auth_token(f, ClientOf[f], handler[h].exp)
      /\ UNCHANGED <<spent, auth_code_data, redeemer>>
  BY <1>0, <1>1 DEF LoginToken
<1>3. \A g \in Flow : Holding(g)' = Holding(g) \ {h} /\ Claiming(g)' = Claiming(g)
  BY LetsGo DEF LoginToken, Claiming
<1>4. /\ \A g \in Holding(f) : g = h
      /\ Claiming(f) = {} /\ tokens[f].count = 0 /\ ~HasCode(f) /\ spent[f]
  BY <1>1 DEF IndInv, Custody, Nowhere
<1>5. Holding(f)' = {} /\ Claiming(f)' = {}
  BY <1>1, <1>3, <1>4
<1>6. /\ tokens' \in [Flow -> TokenRecord] /\ CodeBelongsToFlow'
      /\ \A g \in Flow : Custody(g)'
  BY <1>1, <1>2, <1>3, <1>4, <1>5, TokenGood
<1> QED
  BY <1>2, <1>6 DEF StoresGood, StoresTyped, IndInv, TypeOK, ClaimFacts

LEMMA ClaimGood ==
  ASSUME IndInv, BackStays, NEW d \in Redeemer, NEW f \in Flow, NEW client \in Client,
         NEW redirect \in Redirect, get_access_token_from_code(d, f, client, redirect)
  PROVE  StoresGood
<1> DEFINE c == [pc |-> "claimed", code |-> f, client |-> auth_code_data[f].client_id,
                 exp |-> auth_code_data[f].exp]
<1>1. /\ redeemer' = [redeemer EXCEPT ![d] = c] /\ redeemer[d].pc = "idle"
      /\ auth_code_data' = [auth_code_data EXCEPT ![f] = NoCode] /\ HasCode(f)
      /\ UNCHANGED <<spent, tokens, handler>>
  BY DEF get_access_token_from_code, db_delete_auth_code_data
<1>2. auth_code_data[f] \in CodeRow /\ auth_code_data[f].client_id = ClientOf[f]
  BY <1>1 DEF IndInv, TypeOK, CodeBelongsToFlow
<1>3. c \in RedeemerRecord /\ ClaimFacts(c)
  BY <1>2 DEF RedeemerRecord, CodeRow, ClaimFacts
<1>4. TypeOK
  BY DEF IndInv
<1>5. \A g \in Flow : /\ Holding(g)' = Holding(g)
                      /\ Claiming(g)' = IF g = f THEN Claiming(g) \cup {d} ELSE Claiming(g) \ {d}
  BY <1>1, <1>3, <1>4, ClaimingAfter DEF Holding
<1>6. \A g \in Flow : IF g = f THEN ~HasCode(g)' ELSE HasCode(g)' <=> HasCode(g)
  BY <1>1, IdleTyped DEF HasCode, IndInv, TypeOK
<1>7. ASSUME NEW g \in Flow, g # f PROVE Custody(g)'
  BY <1>1, <1>5, <1>6, <1>7, Shrinks
<1>8. Custody(f)'
  <2>1. /\ Holding(f) = {} /\ Claiming(f) = {} /\ tokens[f].count = 0
        /\ spent[f] /\ flow[f].step = "back"
    BY <1>1 DEF IndInv, Custody, Nowhere
  <2> QED
    BY <1>1, <1>5, <1>6, <2>1 DEF Custody, BackStays
<1>9. \A g \in Flow : Custody(g)'
  BY <1>7, <1>8
<1>10. CodeBelongsToFlow'
  BY <1>1, <1>6 DEF IndInv, TypeOK, CodeBelongsToFlow, HasCode
<1>11. \A e \in Redeemer : ClaimFacts(redeemer[e])'
  BY <1>1, <1>3 DEF IndInv, TypeOK, ClaimFacts
<1>12. StoresTyped
  BY <1>1, <1>3, IdleTyped DEF StoresTyped, IndInv, TypeOK
<1> QED
  BY <1>9, <1>10, <1>11, <1>12 DEF StoresGood

LEMMA RedeemerIdles ==
  ASSUME IndInv, NEW d \in Redeemer, redeemer' = [redeemer EXCEPT ![d] = IdleRedeemer]
  PROVE  /\ redeemer' \in [Redeemer -> RedeemerRecord]
         /\ \A e \in Redeemer : ClaimFacts(redeemer[e])'
         /\ \A f \in Flow : Claiming(f)' = Claiming(f) \ {d}
<1>1. TypeOK
  BY DEF IndInv
<1> QED
  BY <1>1, ClaimingAfter, IdleTyped DEF IndInv, TypeOK, ClaimFacts

LEMMA RedeemedTokenGood ==
  ASSUME IndInv, BackStays, NEW d \in Redeemer, RedeemedToken(d)
  PROVE  StoresGood
<1>0. PICK f \in Flow : f = redeemer[d].code
  BY DEF RedeemedToken, IndInv, ClaimFacts
<1>1. f \in Flow /\ redeemer[d].client = ClientOf[f] /\ d \in Claiming(f) /\ redeemer[d].exp \in Nat
  BY <1>0 DEF RedeemedToken, IndInv, TypeOK, RedeemerRecord, ClaimFacts, Claiming
<1>2. /\ make_auth_token(f, ClientOf[f], redeemer[d].exp)
      /\ UNCHANGED <<spent, auth_code_data, handler>>
      /\ redeemer' = [redeemer EXCEPT ![d] = IdleRedeemer]
  BY <1>0, <1>1 DEF RedeemedToken
<1>3. \A g \in Flow : Holding(g)' = Holding(g) /\ Claiming(g)' = Claiming(g) \ {d}
  BY <1>2, RedeemerIdles DEF Holding
<1>4. /\ \A e \in Claiming(f) : e = d
      /\ Holding(f) = {} /\ tokens[f].count = 0 /\ ~HasCode(f) /\ spent[f]
  BY <1>1 DEF IndInv, Custody, Nowhere
<1>5. Holding(f)' = {} /\ Claiming(f)' = {}
  BY <1>1, <1>3, <1>4
<1>6. /\ tokens' \in [Flow -> TokenRecord] /\ CodeBelongsToFlow'
      /\ \A g \in Flow : Custody(g)'
  BY <1>1, <1>2, <1>3, <1>4, <1>5, TokenGood
<1> QED
  BY <1>2, <1>6, RedeemerIdles DEF StoresGood, StoresTyped, IndInv, TypeOK

LEMMA StoresStep == ASSUME IndInv, Next PROVE StoresGood
<1>b. BackStays
  BY FlowStep
<1>1. ASSUME StoresStay, UNCHANGED handler PROVE StoresGood
  BY <1>b, <1>1, StoresGoodWhenUnchanged DEF Holding
<1>2. ASSUME NEW h \in Handler, CallbackStep(h), StoresStay PROVE StoresGood
  <2>1. PICK q \in HandlerRecord : SlotChange(h, q)
    BY <1>2, CallbackSlot
  <2>2. q.pc \in InHand => q.flow = handler[h].flow /\ handler[h].pc \in InHand
    <3>1. ASSUME Vouched(h, q.flow), q.flow \in Flow PROVE FALSE
      BY <1>2, <3>1 DEF Vouched, StoresStay, IndInv, TypeOK
    <3> QED
      BY <2>1, <3>1 DEF SlotChange, RecordFacts, InHand
  <2>3. \A f \in Flow : Holding(f)' \subseteq Holding(f)
    BY <2>1, <2>2, HoldingAfter DEF SlotChange, Holding, InHand, IndInv
  <2> QED
    BY <1>b, <1>2, <2>3, StoresGoodWhenUnchanged
<1>3. ASSUME NEW h \in Handler, CallbackStep(h) PROVE StoresGood
  <2>1. CASE get_token_for_provider(h) \/ db_insert_auth_code_data(h) \/ LoginToken(h)
    BY <1>b, <2>1, VouchGood, SaveCodeGood, LoginTokenGood
  <2>2. CASE ~(get_token_for_provider(h) \/ db_insert_auth_code_data(h) \/ LoginToken(h))
    <3>1. StoresStay
      BY <1>3, <2>2 DEF CallbackStep, HandlerStep, Callback, Abort, CheckState,
                        get_tms_token_claims, db_insert_tms_identity_if_absent,
                        DecodeRedirect, Respond, StoresStay
    <3> QED
      BY <1>2, <1>3, <3>1
  <2> QED
    BY <2>1, <2>2
<1>4. ASSUME NEW d \in Redeemer, AbortRedeem(d) PROVE StoresGood
  <2>1. /\ redeemer' = [redeemer EXCEPT ![d] = IdleRedeemer]
        /\ UNCHANGED <<spent, auth_code_data, tokens, handler>>
    BY <1>4 DEF AbortRedeem
  <2>2. \A f \in Flow : Custody(f)'
    <3>1. ASSUME NEW f \in Flow PROVE Custody(f)'
      <4>1. Holding(f)' = Holding(f) /\ Claiming(f)' \subseteq Claiming(f) /\ (HasCode(f)' => HasCode(f))
        BY <2>1, RedeemerIdles DEF Holding, HasCode
      <4> QED
        BY <1>b, <2>1, <4>1, Shrinks
    <3> QED
      BY <3>1
  <2> QED
    BY <2>1, <2>2, RedeemerIdles
    DEF StoresGood, StoresTyped, IndInv, TypeOK, CodeBelongsToFlow, HasCode
<1>5. CASE Stop
  <2>1. /\ handler' = [h \in Handler |-> IdleHandler]
        /\ redeemer' = [d \in Redeemer |-> IdleRedeemer]
        /\ UNCHANGED <<spent, auth_code_data, tokens>>
    BY <1>5 DEF Stop
  <2>2. \A f \in Flow : Custody(f)'
    <3>1. ASSUME NEW f \in Flow PROVE Custody(f)'
      <4>1. Holding(f)' = {} /\ Claiming(f)' = {} /\ (HasCode(f)' => HasCode(f))
        BY <2>1, IdleTyped DEF Holding, Claiming, HasCode
      <4> QED
        BY <1>b, <2>1, <4>1, Shrinks
    <3> QED
      BY <3>1
  <2> QED
    BY <2>1, <2>2, IdleTyped
    DEF StoresGood, StoresTyped, ClaimFacts, IndInv, TypeOK, CodeBelongsToFlow, HasCode
<1>6. ASSUME NEW f \in Flow, login_handler(f) \/ authorize_handler(f) \/ IdpRedirect(f)
      PROVE  StoresStay /\ UNCHANGED handler
  BY <1>6 DEF login_handler, authorize_handler, StartSignIn, IdpRedirect, StoresStay
<1>7. CASE Tick \/ Start
  BY <1>1, <1>7 DEF Tick, Start, StoresStay
<1> QED
  BY <1>b, <1>1, <1>3, <1>4, <1>5, <1>6, <1>7, ClaimGood, RedeemedTokenGood DEF Next, CallbackStep

LEMMA OthersStep ==
  ASSUME IndInv, Next
  PROVE  /\ now' \in Nat /\ up' \in BOOLEAN /\ tms_identities' \subseteq Flow
         /\ jar' \in [state_cookie : Flow \cup {NoFlow}, tmstoken : LoginFlow \cup {NoFlow}]
<1> USE DEF IndInv, TypeOK
<1>1. ASSUME NEW f \in Flow, StartSignIn(f)
      PROVE  jar' \in [state_cookie : Flow \cup {NoFlow}, tmstoken : LoginFlow \cup {NoFlow}]
  BY <1>1 DEF StartSignIn
<1>2. ASSUME NEW h \in Handler, Respond(h)
      PROVE  jar' \in [state_cookie : Flow \cup {NoFlow}, tmstoken : LoginFlow \cup {NoFlow}]
  BY <1>2 DEF Respond
<1>3. ASSUME NEW f \in Flow, login_handler(f) \/ authorize_handler(f) \/ IdpRedirect(f)
      PROVE  UNCHANGED <<now, up, tms_identities>> /\ (UNCHANGED jar \/ StartSignIn(f))
  BY <1>3 DEF login_handler, authorize_handler, StartSignIn, IdpRedirect
<1>4. ASSUME NEW h \in Handler, CallbackStep(h)
      PROVE  /\ UNCHANGED <<now, up>> /\ (UNCHANGED jar \/ Respond(h))
             /\ UNCHANGED tms_identities \/ db_insert_tms_identity_if_absent(h)
  BY <1>4 DEF CallbackStep, HandlerStep, Callback, Abort, CheckState, get_token_for_provider,
              get_tms_token_claims, db_insert_auth_code_data, db_insert_tms_identity_if_absent,
              LoginToken, DecodeRedirect, Respond
<1>5. ASSUME NEW h \in Handler, db_insert_tms_identity_if_absent(h) PROVE tms_identities' \subseteq Flow
  BY <1>5 DEF db_insert_tms_identity_if_absent, RecordFacts
<1>6. ASSUME NEW d \in Redeemer,
             \/ \E f \in Flow, c \in Client, r \in Redirect : get_access_token_from_code(d, f, c, r)
             \/ RedeemedToken(d) \/ AbortRedeem(d)
      PROVE  UNCHANGED <<now, up, jar, tms_identities>>
  BY <1>6 DEF get_access_token_from_code, RedeemedToken, AbortRedeem
<1>7. ASSUME Tick \/ Stop \/ Start
      PROVE  now' \in Nat /\ up' \in BOOLEAN /\ UNCHANGED <<jar, tms_identities>>
  <2>1. now' \in Nat /\ UNCHANGED <<jar, tms_identities>>
    BY <1>7 DEF Tick, Stop, Start
  <2>2. up' \in BOOLEAN
    <3>1. up \in BOOLEAN /\ up' \in {up, TRUE, FALSE}
      BY <1>7 DEF Tick, Stop, Start
    <3> QED
      BY <3>1, Zenon
  <2> QED
    BY <2>1, <2>2
<1> QED
  BY <1>1, <1>2, <1>3, <1>4, <1>5, <1>6, <1>7 DEF Next, CallbackStep

LEMMA InvStep == IndInv /\ [Next]_vars => IndInv'
<1>1. ASSUME IndInv, Next PROVE IndInv'
  BY <1>1, FlowStep, HandlersStep, StoresStep, OthersStep
  DEF IndInv, TypeOK, StoresGood, StoresTyped
<1>2. ASSUME IndInv, UNCHANGED vars PROVE IndInv'
  <2>1. TypeOK' /\ CodeBelongsToFlow'
    BY <1>2 DEF vars, IndInv, TypeOK, CodeBelongsToFlow, HasCode
  <2>2. \A h \in Handler : RecordFacts(handler[h])'
    BY <1>2 DEF vars, IndInv, RecordFacts
  <2>3. \A d \in Redeemer : ClaimFacts(redeemer[d])'
    BY <1>2 DEF vars, IndInv, ClaimFacts
  <2>4. \A f \in Flow : Custody(f)'
    <3>1. ASSUME NEW f \in Flow PROVE Custody(f)'
      BY <1>2, <3>1, Shrinks DEF vars, BackStays, Holding, Claiming, HasCode
    <3> QED
      BY <3>1
  <2> QED
    BY <2>1, <2>2, <2>3, <2>4 DEF IndInv
<1> QED
  BY <1>1, <1>2

THEOREM Invariance == Spec => []IndInv
BY InitInv, InvStep, PTL DEF Spec

-------------------------------------------------------------------------------
(***************************************************************************)
(* Clock, cookies, sign-ins, slots, codes and tokens keep their types.     *)
(***************************************************************************)
THEOREM TypeCorrect == Spec => []TypeOK
<1>1. IndInv => TypeOK
  BY DEF IndInv
<1> QED
  BY <1>1, Invariance, PTL

(***************************************************************************)
(* A sign-in is in one place, as claims in a callback, a stored code, in a *)
(* token request or as a token: however callbacks and redemptions are      *)
(* repeated, overlap and fail, no two tokens come of it.                   *)
(***************************************************************************)
THEOREM OneCustodian == Spec => []SingleCustody
<1>1. ASSUME IndInv PROVE SingleCustody
  <2>1. ASSUME NEW S, \A x, y \in S : x = y PROVE Cardinality(S) = IF S = {} THEN 0 ELSE 1
    <3>1. CASE S = {}
      BY <3>1, FS_EmptySet
    <3>2. CASE S # {}
      <4>1. PICK x \in S : TRUE
        BY <3>2
      <4>2. S = {x}
        BY <2>1, <4>1
      <4>3. Cardinality({x}) = 1
        BY FS_Singleton
      <4> QED
        BY <3>2, <4>2, <4>3
    <3> QED
      BY <3>1, <3>2
  <2>2. ASSUME NEW f \in Flow
        PROVE  Cardinality(Holding(f)) + Cardinality(Claiming(f)) + tokens[f].count
                 + (IF HasCode(f) THEN 1 ELSE 0) <= 1
    <3>1. Custody(f) /\ tokens[f].count \in Nat
      BY <1>1 DEF IndInv, TypeOK, TokenRecord
    <3>2. Cardinality(Holding(f)) = IF Holding(f) = {} THEN 0 ELSE 1
      BY <2>1, <3>1 DEF Custody
    <3>3. Cardinality(Claiming(f)) = IF Claiming(f) = {} THEN 0 ELSE 1
      BY <2>1, <3>1 DEF Custody
    <3> QED
      BY <3>1, <3>2, <3>3 DEF Custody
  <2> QED
    BY <2>2 DEF SingleCustody
<1> QED
  BY <1>1, Invariance, PTL

(***************************************************************************)
(* A code and its token are for the client and the redirect URI of their   *)
(* own sign-in, though all tabs share one state cookie.                    *)
(***************************************************************************)
THEOREM CodesBelong == Spec => []CodeBelongsToFlow
<1>1. IndInv => CodeBelongsToFlow
  BY DEF IndInv
<1> QED
  BY <1>1, Invariance, PTL

-------------------------------------------------------------------------------
(***************************************************************************)
(* The flows implement the one-shot grant: asked once, vouched for once by *)
(* the provider, issued once, to the client that asked.                    *)
(***************************************************************************)
GrantOf(f) == IF tokens[f].count > 0 THEN "issued"
              ELSE IF spent[f] THEN "vouched"
              ELSE IF flow[f].step # "new" THEN "asked" ELSE "none"

(* A step that moves one sign-in on is one of the grant. *)
LEMMA OneGrantMoves ==
  ASSUME IndInv, NEW f \in Flow,
         \A g \in Flow : g # f => /\ GrantOf(g)' = GrantOf(g)
                                 /\ tokens'[g] = tokens[g],
         \/ /\ GrantOf(f) = "none" /\ GrantOf(f)' = "asked" /\ UNCHANGED tokens
         \/ /\ GrantOf(f) = "asked" /\ GrantOf(f)' = "vouched" /\ UNCHANGED tokens
         \/ /\ GrantOf(f) = "vouched" /\ GrantOf(f)' = "issued"
            /\ tokens'[f].client = ClientOf[f] /\ tokens'[f].count = 1
  PROVE  Grant!Next
<1>1. grantBar = [g \in Flow |-> GrantOf(g)] /\ grantBar' = [g \in Flow |-> GrantOf(g)']
  BY DEF grantBar, GrantOf
<1>2. CASE GrantOf(f) = "none" /\ GrantOf(f)' = "asked" /\ UNCHANGED tokens
  BY <1>1, <1>2 DEF Grant!Next, Grant!Ask
<1>3. CASE GrantOf(f) = "asked" /\ GrantOf(f)' = "vouched" /\ UNCHANGED tokens
  BY <1>1, <1>3 DEF Grant!Next, Grant!Vouch
<1>4. CASE /\ GrantOf(f) = "vouched" /\ GrantOf(f)' = "issued"
           /\ tokens'[f].client = ClientOf[f] /\ tokens'[f].count = 1
  BY <1>1, <1>4 DEF Grant!Next, Grant!Issue
<1> QED
  BY <1>2, <1>3, <1>4

LEMMA NoGrantMoves ==
  ASSUME UNCHANGED <<tokens, spent>>,
         \A f \in Flow : flow[f].step = "new" <=> flow'[f].step = "new"
  PROVE  UNCHANGED Grant!absVars
BY DEF Grant!absVars, grantBar

(* Storing the token of a sign-in that the provider has vouched for. *)
LEMMA TokenIssues ==
  ASSUME IndInv, NEW f \in Flow, NEW exp \in Nat, make_auth_token(f, ClientOf[f], exp),
         tokens[f].count = 0, spent[f], UNCHANGED <<spent, flow>>
  PROVE  Grant!Next
<1>1. tokens' = [tokens EXCEPT ![f] = [count |-> 1, client |-> ClientOf[f], exp |-> exp]]
  BY DEF make_auth_token
<1>2. tokens \in [Flow -> TokenRecord]
  BY DEF IndInv, TypeOK
<1>3. /\ tokens'[f].count = 1 /\ tokens'[f].client = ClientOf[f]
      /\ \A g \in Flow : g # f => tokens'[g] = tokens[g]
  BY <1>1, <1>2
<1> QED
  BY <1>3, OneGrantMoves DEF GrantOf

LEMMA GrantStep ==
  ASSUME IndInv, [Next]_vars
  PROVE  [Grant!Next]_(Grant!absVars)
<1>t. /\ flow \in [Flow -> FlowRecord] /\ spent \in [Flow -> BOOLEAN]
      /\ tokens \in [Flow -> TokenRecord]
      /\ \A h \in Handler : RecordFacts(handler[h])
      /\ \A f \in Flow : Custody(f)
  BY DEF IndInv, TypeOK
<1>1. ASSUME NEW f \in Flow, StartSignIn(f) PROVE Grant!Next
  <2>1. /\ UNCHANGED <<tokens, spent>> /\ flow[f].step = "new"
        /\ flow' = [g \in Flow |-> IF g = f THEN get_state(f)
                                   ELSE IF flow[g].step = "new" THEN flow[g]
                                   ELSE [flow[g] EXCEPT !.overlap = TRUE]]
    BY <1>1 DEF StartSignIn
  <2>2. /\ flow'[f].step = "at_idp"
        /\ \A g \in Flow : g # f => flow'[g].step = flow[g].step
    BY <1>t, <2>1 DEF get_state, FlowRecord
  <2>3. ~spent[f] /\ tokens[f].count = 0
    BY <1>t, <2>1 DEF Custody, Nowhere
  <2>4. GrantOf(f) = "none" /\ GrantOf(f)' = "asked"
    BY <2>1, <2>2, <2>3 DEF GrantOf
  <2>5. \A g \in Flow : g # f => GrantOf(g)' = GrantOf(g) /\ tokens'[g] = tokens[g]
    BY <2>1, <2>2 DEF GrantOf
  <2> QED
    BY <2>1, <2>4, <2>5, OneGrantMoves
<1>2. ASSUME NEW f \in Flow, IdpRedirect(f) PROVE UNCHANGED Grant!absVars
  <2>1. /\ UNCHANGED <<tokens, spent>> /\ flow[f].step = "at_idp"
        /\ flow' = [flow EXCEPT ![f] = [flow[f] EXCEPT !.step = "back"]]
    BY <1>2 DEF IdpRedirect
  <2>2. [flow[f] EXCEPT !.step = "back"].step = "back"
    BY <1>t DEF FlowRecord
  <2>3. \A g \in Flow : flow[g].step = "new" <=> flow'[g].step = "new"
    BY <1>t, <2>1, <2>2
  <2> QED
    BY <2>1, <2>3, NoGrantMoves
<1>3. ASSUME NEW h \in Handler, Respond(h) PROVE UNCHANGED Grant!absVars
  <2>1. handler[h].flow \in Flow /\ UNCHANGED <<tokens, spent>>
    BY <1>t, <1>3 DEF Respond, RecordFacts
  <2> DEFINE r == [flow[handler[h].flow] EXCEPT !.code_out = TRUE]
  <2>2. flow' = flow \/ flow' = [flow EXCEPT ![handler[h].flow] = r]
    BY <1>3 DEF Respond
  <2>3. r.step = flow[handler[h].flow].step
    BY <1>t, <2>1 DEF FlowRecord
  <2>4. \A g \in Flow : flow[g].step = "new" <=> flow'[g].step = "new"
    BY <1>t, <2>1, <2>2, <2>3
  <2> QED
    BY <2>1, <2>4, NoGrantMoves
<1>4. ASSUME UNCHANGED <<tokens, spent, flow>> PROVE UNCHANGED Grant!absVars
  BY <1>4, NoGrantMoves
<1>5. ASSUME NEW h \in Handler, get_token_for_provider(h) PROVE [Grant!Next]_(Grant!absVars)
  <2>1. PICK f \in Flow : f = handler[h].flow
    BY <1>t, <1>5 DEF get_token_for_provider, RecordFacts
  <2>2. UNCHANGED <<tokens, flow>> /\ flow[f].step = "back"
    BY <1>t, <1>5, <2>1 DEF get_token_for_provider, RecordFacts
  <2>3. CASE UNCHANGED spent
    BY <1>4, <2>2, <2>3
  <2>4. CASE ~spent[f] /\ spent' = [spent EXCEPT ![f] = TRUE]
    <3>1. tokens[f].count = 0
      BY <1>t, <2>4 DEF Custody, Nowhere
    <3>2. GrantOf(f) = "asked" /\ GrantOf(f)' = "vouched"
      BY <1>t, <2>2, <2>4, <3>1 DEF GrantOf
    <3>3. \A g \in Flow : g # f => GrantOf(g)' = GrantOf(g) /\ tokens'[g] = tokens[g]
      BY <1>t, <2>2, <2>4 DEF GrantOf
    <3> QED
      BY <2>2, <3>2, <3>3, OneGrantMoves
  <2> QED
    BY <1>5, <2>1, <2>3, <2>4 DEF get_token_for_provider
<1>6. ASSUME NEW h \in Handler, LoginToken(h) PROVE Grant!Next
  <2>1. PICK f \in Flow : f = handler[h].flow
    BY <1>t, <1>6 DEF LoginToken, RecordFacts
  <2>2. h \in Holding(f) /\ handler[h].cookie = f /\ handler[h].exp \in Nat
    BY <1>t, <1>6, <2>1 DEF LoginToken, RecordFacts, Holding, IndInv, TypeOK, HandlerRecord
  <2>3. tokens[f].count = 0 /\ spent[f]
    BY <1>t, <2>2 DEF Custody, Nowhere
  <2>4. make_auth_token(f, ClientOf[f], handler[h].exp) /\ UNCHANGED <<spent, flow>>
    BY <1>6, <2>1, <2>2 DEF LoginToken
  <2> QED
    BY <2>2, <2>3, <2>4, TokenIssues
<1>7. ASSUME NEW d \in Redeemer, RedeemedToken(d) PROVE Grant!Next
  <2>1. PICK f \in Flow : f = redeemer[d].code /\ redeemer[d].client = ClientOf[f]
    BY <1>7 DEF RedeemedToken, IndInv, ClaimFacts
  <2>2. d \in Claiming(f) /\ redeemer[d].exp \in Nat
    BY <1>7, <2>1 DEF RedeemedToken, Claiming, IndInv, TypeOK, RedeemerRecord
  <2>3. tokens[f].count = 0 /\ spent[f]
    BY <1>t, <2>2 DEF Custody, Nowhere
  <2>4. make_auth_token(f, ClientOf[f], redeemer[d].exp) /\ UNCHANGED <<spent, flow>>
    BY <1>7, <2>1 DEF RedeemedToken
  <2> QED
    BY <2>2, <2>3, <2>4, TokenIssues
<1>8. ASSUME NEW h \in Handler, CallbackStep(h),
             ~(Respond(h) \/ get_token_for_provider(h) \/ LoginToken(h))
      PROVE  UNCHANGED <<tokens, spent, flow>>
  BY <1>8 DEF CallbackStep, HandlerStep, Callback, Abort, CheckState, get_tms_token_claims,
              db_insert_auth_code_data, db_insert_tms_identity_if_absent, DecodeRedirect
<1>9. ASSUME NEW d \in Redeemer,
             \/ \E f \in Flow, c \in Client, r \in Redirect : get_access_token_from_code(d, f, c, r)
             \/ AbortRedeem(d)
      PROVE  UNCHANGED <<tokens, spent, flow>>
  BY <1>9 DEF get_access_token_from_code, AbortRedeem
<1>10. CASE Tick \/ Stop \/ Start \/ UNCHANGED vars
  BY <1>4, <1>10 DEF Tick, Stop, Start, vars
<1> QED
  BY <1>1, <1>2, <1>3, <1>4, <1>5, <1>6, <1>7, <1>8, <1>9, <1>10
  DEF Next, login_handler, authorize_handler, CallbackStep

THEOREM ImplementsGrant == Spec => GrantSpec
<1>1. Init => Grant!Init
  BY DEF Init, Grant!Init, grantBar, NewFlow
<1>2. IndInv /\ [Next]_vars => [Grant!Next]_(Grant!absVars)
  BY GrantStep
<1> QED
  BY <1>1, <1>2, Invariance, PTL DEF Spec, GrantSpec, Grant!Spec

-------------------------------------------------------------------------------
(***************************************************************************)
(* The cookie of a user with one tab.  While a sign-in is alone in the     *)
(* browser the state cookie is its own, and the callbacks of others can    *)
(* only be ones that arrived with a foreign cookie and will be refused:    *)
(* one that was already past that check would have been seen at the start. *)
(***************************************************************************)
Lone(f) == flow[f].step # "new" /\ ~flow[f].overlap /\ ~flow[f].code_out

LoneSlot(q) ==
  q.pc # "idle" =>
    /\ \A f \in Flow : Lone(f) /\ q.flow # f => q.pc = "started" /\ q.cookie # q.flow
    /\ q.pc = "started" /\ q.cookie # q.flow => ~Lone(q.flow)

LoneInv == /\ \A f \in Flow : Lone(f) => jar.state_cookie = f
           /\ \A h \in Handler : LoneSlot(handler[h])

LEMMA LoneInit == Init => LoneInv
BY IdleTyped DEF Init, LoneInv, Lone, LoneSlot, NewFlow

LEMMA LoneImplies == IndInv /\ LoneInv => LoneSignInKeepsCookie
<1> SUFFICES ASSUME IndInv, LoneInv, NEW h \in Handler,
                    handler[h].pc = "started", handler[h].cookie # handler[h].flow
             PROVE  flow[handler[h].flow].overlap \/ flow[handler[h].flow].code_out
  BY DEF LoneSignInKeepsCookie
<1>1. flow[handler[h].flow].step = "back"
  BY DEF IndInv, RecordFacts
<1>2. ~Lone(handler[h].flow)
  BY DEF LoneInv, LoneSlot
<1> QED
  BY <1>1, <1>2 DEF Lone

(* A slot that stays, is freed, or goes on from a check it has passed. *)
SlotGoesOn(h) ==
  \/ handler'[h] = handler[h]
  \/ handler'[h].pc = "idle"
  \/ /\ handler'[h].flow = handler[h].flow /\ handler'[h].cookie = handler[h].cookie
     /\ handler[h].pc # "idle" /\ handler'[h].pc # "started"
     /\ handler[h].pc = "started" => handler[h].cookie = handler[h].flow

LEMMA GoingOn ==
  ASSUME LoneInv, \A f \in Flow : Lone(f)' <=> Lone(f),
         UNCHANGED jar, \A h \in Handler : SlotGoesOn(h), IndInv
  PROVE  LoneInv'
<1>1. ASSUME NEW h \in Handler PROVE LoneSlot(handler[h])'
  <2>1. LoneSlot(handler[h]) /\ RecordFacts(handler[h])
    BY DEF LoneInv, IndInv
  <2>2. CASE handler'[h] = handler[h]
    BY <2>1, <2>2 DEF LoneSlot, RecordFacts
  <2>3. CASE handler'[h].pc = "idle"
    BY <2>3 DEF LoneSlot
  <2>4. CASE /\ handler'[h].flow = handler[h].flow /\ handler'[h].cookie = handler[h].cookie
             /\ handler[h].pc # "idle" /\ handler'[h].pc # "started"
             /\ handler[h].pc = "started" => handler[h].cookie = handler[h].flow
    BY <2>1, <2>4 DEF LoneSlot
  <2> QED
    BY <2>2, <2>3, <2>4 DEF SlotGoesOn
<1> QED
  BY <1>1 DEF LoneInv

LEMMA CallbacksGoOn ==
  ASSUME IndInv, NEW h \in Handler, HandlerStep(h) \/ Abort(h)
  PROVE  \A g \in Handler : SlotGoesOn(g)
<1>1. handler \in [Handler -> HandlerRecord]
  BY DEF IndInv, TypeOK
<1>2. ASSUME Refuse(h) PROVE \A g \in Handler : SlotGoesOn(g)
  BY <1>1, <1>2, IdleTyped DEF Refuse, SlotGoesOn
<1>3. ASSUME NEW pc \in {"exchange", "exchanged", "claims", "identified", "minted", "respond"},
             NEW q \in HandlerRecord, q.pc = pc,
             q.flow = handler[h].flow, q.cookie = handler[h].cookie,
             handler' = [handler EXCEPT ![h] = q], handler[h].pc # "idle",
             handler[h].pc = "started" => handler[h].cookie = handler[h].flow
      PROVE  \A g \in Handler : SlotGoesOn(g)
  BY <1>1, <1>3 DEF SlotGoesOn
<1>4. ASSUME NEW pc \in {"exchange", "exchanged", "claims", "identified", "minted", "respond"},
             Goto(h, pc), handler[h].pc # "idle",
             handler[h].pc = "started" => handler[h].cookie = handler[h].flow
      PROVE  \A g \in Handler : SlotGoesOn(g)
  <2> DEFINE q == [handler[h] EXCEPT !.pc = pc]
  <2>1. q \in HandlerRecord /\ q.pc = pc /\ q.flow = handler[h].flow /\ q.cookie = handler[h].cookie
    BY <1>1 DEF HandlerRecord
  <2>2. handler' = [handler EXCEPT ![h] = q]
    BY <1>4 DEF Goto
  <2> HIDE DEF q
  <2> QED
    BY <1>3, <1>4, <2>1, <2>2
<1>5. CASE get_tms_token_claims(h)
  <2>1. now + TokenTtl \in Nat
    BY TimeAssumption DEF IndInv, TypeOK
  <2> DEFINE q == [handler[h] EXCEPT !.pc = "claims", !.exp = now + TokenTtl]
  <2>2. /\ q \in HandlerRecord /\ q.pc = "claims"
        /\ q.flow = handler[h].flow /\ q.cookie = handler[h].cookie
    BY <1>1, <2>1 DEF HandlerRecord
  <2>3. handler' = [handler EXCEPT ![h] = q] /\ handler[h].pc = "exchanged"
    BY <1>5 DEF get_tms_token_claims
  <2> HIDE DEF q
  <2> QED
    BY <1>3, <2>2, <2>3
<1>6. CASE CheckState(h) \/ get_token_for_provider(h)
  BY <1>2, <1>4, <1>6 DEF CheckState, StateAccepted, get_token_for_provider
<1>7. CASE \/ db_insert_auth_code_data(h) \/ db_insert_tms_identity_if_absent(h)
           \/ LoginToken(h) \/ DecodeRedirect(h)
  BY <1>2, <1>4, <1>7
     DEF db_insert_auth_code_data, db_insert_tms_identity_if_absent, LoginToken, DecodeRedirect
<1>8. CASE Respond(h) \/ Abort(h)
  BY <1>2, <1>8 DEF Respond, Abort
<1> QED
  BY <1>5, <1>6, <1>7, <1>8 DEF HandlerStep

LEMMA LoneStart ==
  ASSUME IndInv, LoneInv, NEW f \in Flow, StartSignIn(f)
  PROVE  LoneInv'
<1>t. flow \in [Flow -> FlowRecord] /\ jar' = [jar EXCEPT !.state_cookie = f]
      /\ flow[f].step = "new" /\ handler' = handler
      /\ jar \in [state_cookie : Flow \cup {NoFlow}, tmstoken : LoginFlow \cup {NoFlow}]
  BY DEF IndInv, TypeOK, StartSignIn
<1>1. flow' = [g \in Flow |-> IF g = f THEN get_state(f)
                              ELSE IF flow[g].step = "new" THEN flow[g]
                              ELSE [flow[g] EXCEPT !.overlap = TRUE]]
  BY DEF StartSignIn
<1>2. \A g \in Flow : [flow[g] EXCEPT !.overlap = TRUE].overlap
  BY <1>t DEF FlowRecord
<1>3. \A g \in Flow : g # f => ~Lone(g)'
  BY <1>1, <1>2 DEF Lone
<1>4. Lone(f)' => \A other \in Flow \ {f} : ~Busy(other)
  BY <1>1 DEF Lone, get_state
<1>5. ASSUME NEW h \in Handler, handler[h].pc # "idle"
      PROVE  handler[h].flow \in Flow /\ handler[h].flow # f /\ Busy(handler[h].flow)
  BY <1>t, <1>5 DEF IndInv, RecordFacts, Busy
<1>6. \A g \in Flow : Lone(g)' => jar'.state_cookie = g
  BY <1>t, <1>3
<1>7. ASSUME NEW h \in Handler PROVE LoneSlot(handler[h])'
  <2>1. CASE handler[h].pc = "idle"
    BY <1>t, <2>1 DEF LoneSlot
  <2>2. CASE handler[h].pc # "idle"
    <3>1. \A g \in Flow : ~Lone(g)'
      BY <1>3, <1>4, <1>5, <2>2
    <3>2. handler[h].flow \in Flow
      BY <1>5, <2>2
    <3> QED
      BY <1>t, <3>1, <3>2 DEF LoneSlot
  <2> QED
    BY <2>1, <2>2
<1> QED
  BY <1>6, <1>7 DEF LoneInv

LEMMA LoneCallback ==
  ASSUME IndInv, LoneInv, NEW h \in Handler, NEW f \in Flow, Callback(h, f)
  PROVE  LoneInv'
<1> DEFINE q == [pc |-> "started", flow |-> f, cookie |-> jar.state_cookie, exp |-> 0]
<1>1. /\ handler' = [handler EXCEPT ![h] = q] /\ jar' = jar /\ flow' = flow
      /\ handler \in [Handler -> HandlerRecord]
  BY DEF Callback, IndInv, TypeOK
<1>2. LoneSlot(q)
  BY DEF LoneSlot, LoneInv
<1> HIDE DEF q
<1>3. \A g \in Handler : LoneSlot(handler'[g])
  BY <1>1, <1>2 DEF LoneInv
<1> QED
  BY <1>1, <1>3 DEF LoneInv, LoneSlot, Lone

LEMMA LoneRespond ==
  ASSUME IndInv, LoneInv, NEW h \in Handler, Respond(h)
  PROVE  LoneInv'
<1>0. PICK f \in Flow : f = handler[h].flow
  BY DEF Respond, IndInv, RecordFacts
<1> DEFINE r == [flow[f] EXCEPT !.code_out = TRUE]
<1>1. handler[h].flow = f /\ handler[h].pc = "respond" /\ flow \in [Flow -> FlowRecord]
  BY <1>0 DEF Respond, IndInv, TypeOK
<1>2. CASE UNCHANGED <<jar, flow>>
  <2>1. \A g \in Handler : SlotGoesOn(g)
    BY CallbacksGoOn DEF HandlerStep
  <2>2. \A g \in Flow : Lone(g)' <=> Lone(g)
    BY <1>2 DEF Lone
  <2> QED
    BY <1>2, <2>1, <2>2, GoingOn
<1>3. CASE flow' = [flow EXCEPT ![f] = r]
  <2>1. r.code_out
    BY <1>1 DEF FlowRecord
  <2>2. \A g \in Flow : g # f => ~Lone(g)
    BY <1>1 DEF LoneInv, LoneSlot
  <2>3. ~Lone(f)' /\ \A g \in Flow : g # f => (Lone(g)' <=> Lone(g))
    <3> HIDE DEF r
    <3> QED
      BY <1>1, <1>3, <2>1 DEF Lone
  <2>4. \A g \in Flow : ~Lone(g)'
    BY <2>2, <2>3
  <2>5. \A g \in Handler : handler'[g].pc # "idle" => handler'[g].flow \in Flow
    <3>1. handler' = [handler EXCEPT ![h] = IdleHandler]
      BY DEF Respond, Refuse
    <3> QED
      BY <3>1, IdleTyped DEF IndInv, TypeOK, RecordFacts
  <2> QED
    BY <2>4, <2>5 DEF LoneInv, LoneSlot
<1> QED
  BY <1>1, <1>2, <1>3 DEF Respond

LEMMA LoneStep == IndInv /\ LoneInv /\ [Next]_vars => LoneInv'
<1> SUFFICES ASSUME IndInv, LoneInv, [Next]_vars PROVE LoneInv'
  OBVIOUS
<1>1. ASSUME NEW f \in Flow, login_handler(f) \/ authorize_handler(f) PROVE LoneInv'
  BY <1>1, LoneStart DEF login_handler, authorize_handler
<1>2. ASSUME UNCHANGED <<flow, jar>>, \A h \in Handler : SlotGoesOn(h) PROVE LoneInv'
  <2>1. \A f \in Flow : Lone(f)' <=> Lone(f)
    BY <1>2 DEF Lone
  <2> QED
    BY <1>2, <2>1, GoingOn
<1>3. ASSUME NEW f \in Flow, IdpRedirect(f) PROVE LoneInv'
  <2>1. /\ flow' = [flow EXCEPT ![f] = [flow[f] EXCEPT !.step = "back"]]
        /\ flow[f].step = "at_idp" /\ flow \in [Flow -> FlowRecord]
        /\ jar' = jar /\ handler' = handler
    BY <1>3 DEF IdpRedirect, IndInv, TypeOK
  <2> DEFINE r == [flow[f] EXCEPT !.step = "back"]
  <2>2. /\ r.step = "back"
        /\ r.overlap = flow[f].overlap /\ r.code_out = flow[f].code_out
    BY <2>1 DEF FlowRecord
  <2>3. \A g \in Flow : g # f => (Lone(g)' <=> Lone(g))
    BY <2>1 DEF Lone
  <2>4. Lone(f)' <=> Lone(f)
    <3>1. flow'[f] = r
      BY <2>1
    <3> HIDE DEF r
    <3> QED
      BY <2>1, <2>2, <3>1, Zenon DEF Lone
  <2>5. \A h \in Handler : SlotGoesOn(h)
    BY <2>1 DEF SlotGoesOn
  <2> QED
    BY <2>1, <2>3, <2>4, <2>5, GoingOn
<1>4. ASSUME NEW h \in Handler, HandlerStep(h) \/ Abort(h), ~Respond(h) PROVE LoneInv'
  <2>1. UNCHANGED <<flow, jar>>
    BY <1>4 DEF HandlerStep, Abort, CheckState, get_token_for_provider, get_tms_token_claims,
                db_insert_auth_code_data, db_insert_tms_identity_if_absent, LoginToken,
                DecodeRedirect
  <2> QED
    BY <1>2, <1>4, <2>1, CallbacksGoOn
<1>5. ASSUME NEW d \in Redeemer,
             \/ \E f \in Flow, c \in Client, r \in Redirect : get_access_token_from_code(d, f, c, r)
             \/ RedeemedToken(d) \/ AbortRedeem(d)
      PROVE  LoneInv'
  BY <1>2, <1>5 DEF get_access_token_from_code, RedeemedToken, AbortRedeem, SlotGoesOn
<1>6. CASE Tick \/ Start \/ UNCHANGED vars
  BY <1>2, <1>6 DEF Tick, Start, vars, SlotGoesOn
<1>7. CASE Stop
  BY <1>2, <1>7, IdleTyped DEF Stop, SlotGoesOn
<1> QED
  BY <1>1, <1>3, <1>4, <1>5, <1>6, <1>7, LoneCallback, LoneRespond DEF Next

(* A user with one tab is never refused for the cookie. *)
THEOREM LoneCookie == Spec => []LoneSignInKeepsCookie
<1>1. Spec => []LoneInv
  BY Invariance, LoneInit, LoneStep, PTL DEF Spec
<1> QED
  BY <1>1, Invariance, LoneImplies, PTL

-------------------------------------------------------------------------------
(***************************************************************************)
(* The subject of a login.  A callback that has stored the identity says   *)
(* so by its step, and again for the token; a client's sign-in never gets  *)
(* near either, nor a login near a code.                                   *)
(***************************************************************************)
Known(f) == f \in LoginFlow /\ f \in tms_identities

SubjectFacts(q) ==
  /\ q.pc = "identified" => Known(q.flow)
  /\ q.pc = "minted" => Stored(q.flow)
  /\ q.pc = "respond" => (q.flow \in LoginFlow => Stored(q.flow))

SubjectInv ==
  /\ \A h \in Handler : SubjectFacts(handler[h])
  /\ \A f \in LoginFlow : /\ ~HasCode(f)
                          /\ tokens[f].count > 0 => f \in tms_identities
  /\ \A d \in Redeemer : redeemer[d].pc = "claimed" => ~(redeemer[d].code \in LoginFlow)
  /\ jar.tmstoken # NoFlow => Stored(jar.tmstoken)

LEMMA SubjectInit == Init => SubjectInv
<1> SUFFICES ASSUME Init PROVE SubjectInv
  OBVIOUS
<1>1. /\ \A h \in Handler : handler[h] = IdleHandler
      /\ \A d \in Redeemer : redeemer[d] = IdleRedeemer
      /\ jar.tmstoken = NoFlow
  BY DEF Init
<1>2. \A f \in Flow : ~HasCode(f) /\ tokens[f].count = 0
  BY IdleTyped DEF Init, HasCode
<1> QED
  BY <1>1, <1>2, IdleTyped, FlowAssumption DEF SubjectInv, SubjectFacts, IdleHandler

(* Nothing of it is ever taken back. *)
Keeps ==
  /\ tms_identities \subseteq tms_identities'
  /\ \A f \in Flow : tokens[f].count > 0 => tokens'[f].count > 0

(* What a step must not disturb. *)
LEMMA SubjectKept ==
  ASSUME IndInv, SubjectInv, Keeps,
         \A h \in Handler : SubjectFacts(handler[h])',
         \A f \in LoginFlow : tokens'[f].count > 0 => tokens[f].count > 0 \/ Known(f),
         \A f \in LoginFlow : ~HasCode(f)',
         \A d \in Redeemer : redeemer'[d].pc = "claimed" => ~(redeemer'[d].code \in LoginFlow),
         \/ jar'.tmstoken \in {jar.tmstoken, NoFlow}
         \/ Stored(jar.tmstoken)'
  PROVE  SubjectInv'
<1>1. \A f \in LoginFlow : (tokens[f].count > 0 => f \in tms_identities)'
  BY DEF SubjectInv, Keeps, Known
<1>2. (jar.tmstoken # NoFlow => Stored(jar.tmstoken))'
  BY FlowAssumption DEF SubjectInv, Keeps, Stored
<1> QED
  BY <1>1, <1>2 DEF SubjectInv

(* One slot moves, and what it then claims has been stored. *)
LEMMA SlotClaims ==
  ASSUME IndInv, SubjectInv, Keeps, NEW h \in Handler, NEW q,
         handler' = [handler EXCEPT ![h] = q], SubjectFacts(q)'
  PROVE  \A g \in Handler : SubjectFacts(handler[g])'
<1>1. ASSUME NEW g \in Handler PROVE SubjectFacts(handler[g])'
  <2>1. PICK c : c = handler[g]
    OBVIOUS
  <2>2. SubjectFacts(c)
    BY <2>1 DEF SubjectInv
  <2>3. SubjectFacts(c)'
    BY <2>2, FlowAssumption DEF SubjectFacts, Known, Stored, Keeps
  <2>4. handler'[g] = c \/ handler'[g] = q
    BY <2>1 DEF IndInv, TypeOK
  <2> QED
    BY <2>3, <2>4 DEF SubjectFacts
<1> QED
  BY <1>1

(* What a callback that has just stored nothing may say of itself. *)
LEMMA ModestSlot ==
  ASSUME NEW q, q.pc \in {"idle", "started", "exchange", "exchanged", "claims"}
  PROVE  SubjectFacts(q)'
BY DEF SubjectFacts

(* The moves of a callback that neither stores nor answers. *)
LEMMA QuietCallback ==
  ASSUME IndInv, SubjectInv, NEW h \in Handler,
         \/ Abort(h) \/ CheckState(h) \/ get_token_for_provider(h) \/ get_tms_token_claims(h)
         \/ DecodeRedirect(h) \/ \E f \in Flow : Callback(h, f)
  PROVE  SubjectInv'
<1>t. handler[h] \in HandlerRecord /\ SubjectFacts(handler[h])
  BY DEF IndInv, TypeOK, SubjectInv
<1>1. UNCHANGED <<tms_identities, tokens, auth_code_data, redeemer, jar>>
  BY DEF Abort, CheckState, get_token_for_provider, get_tms_token_claims, DecodeRedirect, Callback
<1>2. Keeps
  BY <1>1 DEF Keeps
<1>3. \E q : SubjectFacts(q)' /\ handler' = [handler EXCEPT ![h] = q]
  <2>1. CASE Refuse(h)
    <3>1. PICK q : q = IdleHandler
      OBVIOUS
    <3>2. SubjectFacts(q)'
      BY <3>1, IdleTyped, ModestSlot
    <3> QED
      BY <2>1, <3>1, <3>2 DEF Refuse
  <2>2. ASSUME NEW f \in Flow, Callback(h, f) PROVE \E q : SubjectFacts(q)' /\ handler' = [handler EXCEPT ![h] = q]
    <3>1. PICK q : q = [pc |-> "started", flow |-> f, cookie |-> jar.state_cookie, exp |-> 0]
      OBVIOUS
    <3>2. SubjectFacts(q)'
      BY <3>1, ModestSlot
    <3>3. handler' = [handler EXCEPT ![h] = q]
      BY <2>2, <3>1 DEF Callback
    <3> QED
      BY <3>2, <3>3
  <2>3. ASSUME NEW pc \in {"exchange", "exchanged"}, Goto(h, pc)
        PROVE  \E q : SubjectFacts(q)' /\ handler' = [handler EXCEPT ![h] = q]
    <3>1. PICK q : q = [handler[h] EXCEPT !.pc = pc]
      OBVIOUS
    <3>2. q.pc = pc
      BY <1>t, <3>1 DEF HandlerRecord
    <3>3. SubjectFacts(q)'
      BY <3>2, ModestSlot
    <3> QED
      BY <2>3, <3>1, <3>3 DEF Goto
  <2>4. CASE get_tms_token_claims(h)
    <3>1. PICK q : q = [handler[h] EXCEPT !.pc = "claims", !.exp = now + TokenTtl]
      OBVIOUS
    <3>2. q.pc = "claims"
      BY <1>t, <3>1 DEF HandlerRecord
    <3>3. SubjectFacts(q)'
      BY <3>2, ModestSlot
    <3> QED
      BY <2>4, <3>1, <3>3 DEF get_tms_token_claims
  <2>5. CASE DecodeRedirect(h) /\ Goto(h, "respond")
    <3>1. PICK q : q = [handler[h] EXCEPT !.pc = "respond"]
      OBVIOUS
    <3>2. q.pc = "respond" /\ q.flow = handler[h].flow
      BY <1>t, <3>1 DEF HandlerRecord
    <3>3. Stored(q.flow)'
      BY <1>t, <1>1, <2>5, <3>2 DEF DecodeRedirect, SubjectFacts, Stored
    <3>4. SubjectFacts(q)'
      BY <3>2, <3>3 DEF SubjectFacts
    <3> QED
      BY <2>5, <3>1, <3>4 DEF Goto
  <2> QED
    BY <2>1, <2>2, <2>3, <2>4, <2>5 DEF Abort, CheckState, get_token_for_provider, DecodeRedirect
<1>4. \A g \in Handler : SubjectFacts(handler[g])'
  BY <1>2, <1>3, SlotClaims
<1> QED
  BY <1>1, <1>2, <1>4, SubjectKept DEF SubjectInv, HasCode

(* The callback of a client saves a code, that of a login the identity. *)
LEMMA SavingCallback ==
  ASSUME IndInv, SubjectInv, NEW h \in Handler,
         db_insert_auth_code_data(h) \/ db_insert_tms_identity_if_absent(h)
  PROVE  SubjectInv'
<1>t. /\ handler[h] \in HandlerRecord /\ auth_code_data \in [Flow -> CodeRow]
      /\ LoginFlow \subseteq Flow
  BY FlowAssumption DEF IndInv, TypeOK
<1>1. /\ UNCHANGED <<tokens, redeemer, jar>>
      /\ tms_identities \subseteq tms_identities'
  BY DEF db_insert_auth_code_data, db_insert_tms_identity_if_absent
<1>2. Keeps
  BY <1>1 DEF Keeps
<1>3. \A f \in LoginFlow : ~HasCode(f)'
  <2>1. \A f \in LoginFlow : auth_code_data'[f] = auth_code_data[f]
    BY <1>t DEF db_insert_auth_code_data, db_insert_tms_identity_if_absent
  <2> QED
    BY <2>1 DEF SubjectInv, HasCode
<1>4. \A g \in Handler : SubjectFacts(handler[g])'
  <2>1. CASE db_insert_auth_code_data(h)
    <3>1. PICK q : q = [handler[h] EXCEPT !.pc = "respond"]
      OBVIOUS
    <3>2. q.pc = "respond" /\ q.flow = handler[h].flow
      BY <1>t, <3>1 DEF HandlerRecord
    <3>3. SubjectFacts(q)' /\ handler' = [handler EXCEPT ![h] = q]
      BY <2>1, <3>1, <3>2 DEF db_insert_auth_code_data, Goto, SubjectFacts
    <3> QED
      BY <1>2, <3>3, SlotClaims
  <2>2. CASE db_insert_tms_identity_if_absent(h)
    <3>1. PICK q : q = [handler[h] EXCEPT !.pc = "identified"]
      OBVIOUS
    <3>2. q.pc = "identified" /\ q.flow = handler[h].flow
      BY <1>t, <3>1 DEF HandlerRecord
    <3>3. Known(q.flow)'
      BY <2>2, <3>2 DEF db_insert_tms_identity_if_absent, Known
    <3>4. SubjectFacts(q)' /\ handler' = [handler EXCEPT ![h] = q]
      BY <2>2, <3>1, <3>2, <3>3 DEF db_insert_tms_identity_if_absent, Goto, SubjectFacts
    <3> QED
      BY <1>2, <3>4, SlotClaims
  <2> QED
    BY <2>1, <2>2
<1> QED
  BY <1>1, <1>2, <1>3, <1>4, SubjectKept DEF SubjectInv

(* A token more for f. *)
LEMMA TokensGrow ==
  ASSUME IndInv, NEW f \in Flow, NEW client, NEW exp, make_auth_token(f, client, exp)
  PROVE  \A g \in Flow : /\ tokens'[g].count = IF g = f THEN tokens[f].count + 1 ELSE tokens[g].count
                         /\ tokens[g].count \in Nat
BY DEF IndInv, TypeOK, TokenRecord, make_auth_token

LEMMA TokenCallback ==
  ASSUME IndInv, SubjectInv, NEW h \in Handler, LoginToken(h)
  PROVE  SubjectInv'
<1>t. handler[h] \in HandlerRecord /\ LoginFlow \subseteq Flow
  BY FlowAssumption DEF IndInv, TypeOK
<1>1. PICK f : f = handler[h].flow /\ Known(f)
  BY DEF LoginToken, SubjectInv, SubjectFacts
<1>2. PICK q : q = [handler[h] EXCEPT !.pc = "minted"]
  OBVIOUS
<1>3. q.pc = "minted" /\ q.flow = f
  BY <1>t, <1>1, <1>2 DEF HandlerRecord
<1>4. /\ handler' = [handler EXCEPT ![h] = q]
      /\ UNCHANGED <<tms_identities, redeemer, jar, auth_code_data>>
  BY <1>2 DEF LoginToken, Goto
<1>5. \A g \in Flow : /\ tokens'[g].count = IF g = f THEN tokens[f].count + 1 ELSE tokens[g].count
                      /\ tokens[g].count \in Nat
  BY <1>t, <1>1, TokensGrow DEF LoginToken, Known
<1>6. Keeps
  BY <1>4, <1>5 DEF Keeps
<1>7. SubjectFacts(q)'
  BY <1>t, <1>1, <1>3, <1>5 DEF SubjectFacts, Known, Stored
<1>8. \A g \in LoginFlow : tokens'[g].count > 0 => tokens[g].count > 0 \/ Known(g)
  BY <1>t, <1>1, <1>5
<1>9. \A g \in Handler : SubjectFacts(handler[g])'
  BY <1>4, <1>6, <1>7, SlotClaims
<1> QED
  BY <1>4, <1>6, <1>8, <1>9, SubjectKept DEF SubjectInv, HasCode

LEMMA AnsweringCallback ==
  ASSUME IndInv, SubjectInv, NEW h \in Handler, Respond(h)
  PROVE  SubjectInv'
<1>1. UNCHANGED <<tms_identities, tokens, auth_code_data, redeemer>>
  BY DEF Respond
<1>2. Keeps
  BY <1>1 DEF Keeps
<1>3. \A g \in Handler : SubjectFacts(handler[g])'
  <2>1. PICK q : q = IdleHandler
    OBVIOUS
  <2>2. SubjectFacts(q)' /\ handler' = [handler EXCEPT ![h] = q]
    BY <2>1, IdleTyped, ModestSlot DEF Respond, Refuse
  <2> QED
    BY <1>2, <2>2, SlotClaims
<1>4. \/ jar'.tmstoken \in {jar.tmstoken, NoFlow}
      \/ Stored(jar.tmstoken)'
  <2>1. CASE jar'.tmstoken = handler[h].flow /\ handler[h].flow \in LoginFlow
    BY <1>1, <2>1 DEF Respond, SubjectInv, SubjectFacts, Stored
  <2>2. CASE jar'.tmstoken = jar.tmstoken
    BY <2>2
  <2> QED
    BY <2>1, <2>2 DEF Respond
<1> QED
  BY <1>1, <1>2, <1>3, <1>4, SubjectKept DEF SubjectInv, HasCode

(* Token requests deal in the codes of clients only. *)
LEMMA SubjectOfRedeemer ==
  ASSUME IndInv, SubjectInv, NEW d \in Redeemer,
         \/ \E f \in Flow, c \in Client, r \in Redirect : get_access_token_from_code(d, f, c, r)
         \/ RedeemedToken(d) \/ AbortRedeem(d)
  PROVE  SubjectInv'
<1>t. /\ redeemer \in [Redeemer -> RedeemerRecord] /\ auth_code_data \in [Flow -> CodeRow]
      /\ tokens \in [Flow -> TokenRecord]
      /\ LoginFlow \subseteq Flow /\ ClaimFacts(redeemer[d])
  BY FlowAssumption DEF IndInv, TypeOK
<1>1. UNCHANGED <<tms_identities, jar, handler>>
  BY DEF get_access_token_from_code, RedeemedToken, AbortRedeem
<1>2. \A f \in LoginFlow : tokens'[f] = tokens[f]
  BY <1>t DEF get_access_token_from_code, RedeemedToken, AbortRedeem, SubjectInv, make_auth_token
<1>3. Keeps
  <2>1. CASE RedeemedToken(d)
    <3>1. PICK f \in Flow : f = redeemer[d].code
      BY <1>t, <2>1 DEF RedeemedToken, ClaimFacts
    <3>2. \A g \in Flow : /\ tokens'[g].count = IF g = f THEN tokens[f].count + 1 ELSE tokens[g].count
                          /\ tokens[g].count \in Nat
      BY <2>1, <3>1, TokensGrow DEF RedeemedToken
    <3> QED
      BY <1>1, <3>2 DEF Keeps
  <2> QED
    BY <1>1, <2>1 DEF Keeps, get_access_token_from_code, AbortRedeem
<1>4. \A f \in LoginFlow : ~HasCode(f)'
  BY <1>t, IdleTyped DEF get_access_token_from_code, db_delete_auth_code_data, RedeemedToken, AbortRedeem,
                         SubjectInv, HasCode
<1>5. \A e \in Redeemer : redeemer'[e].pc = "claimed" => ~(redeemer'[e].code \in LoginFlow)
  BY <1>t, IdleTyped DEF get_access_token_from_code, db_delete_auth_code_data, RedeemedToken, AbortRedeem,
                         SubjectInv
<1>6. \A g \in Handler : SubjectFacts(handler[g])'
  <2>1. ASSUME NEW g \in Handler PROVE SubjectFacts(handler[g])'
    <3>1. PICK c : c = handler[g]
      OBVIOUS
    <3>2. SubjectFacts(c)'
      BY <1>3, <3>1, FlowAssumption DEF SubjectInv, SubjectFacts, Known, Stored, Keeps
    <3> QED
      BY <1>1, <3>1, <3>2 DEF SubjectFacts
  <2> QED
    BY <2>1
<1> QED
  BY <1>1, <1>2, <1>3, <1>4, <1>5, <1>6, SubjectKept

LEMMA SubjectStep == IndInv /\ SubjectInv /\ [Next]_vars => SubjectInv'
<1> SUFFICES ASSUME IndInv, SubjectInv, [Next]_vars PROVE SubjectInv'
  OBVIOUS
<1>1. ASSUME NEW h \in Handler, HandlerStep(h) \/ Abort(h) \/ \E f \in Flow : Callback(h, f)
      PROVE  SubjectInv'
  BY <1>1, QuietCallback, SavingCallback, TokenCallback, AnsweringCallback DEF HandlerStep
<1>2. ASSUME UNCHANGED <<tms_identities, tokens, auth_code_data, handler, redeemer>>,
             jar'.tmstoken = jar.tmstoken
      PROVE  SubjectInv'
  BY <1>2 DEF SubjectInv, SubjectFacts, Known, Stored, HasCode
<1>3. ASSUME NEW f \in Flow, login_handler(f) \/ authorize_handler(f) \/ IdpRedirect(f)
      PROVE  SubjectInv'
  BY <1>2, <1>3 DEF login_handler, authorize_handler, StartSignIn, IdpRedirect, IndInv, TypeOK
<1>4. CASE Stop
  BY <1>4, IdleTyped DEF Stop, SubjectInv, SubjectFacts, Stored, HasCode
<1>5. CASE Tick \/ Start \/ UNCHANGED vars
  BY <1>2, <1>5 DEF Tick, Start, vars
<1> QED
  BY <1>1, <1>3, <1>4, <1>5, SubjectOfRedeemer DEF Next

(* Whatever fails between its transactions and whatever else goes on, a    *)
(* login's token is stored only with its subject, and the cookie a browser *)
(* holds is that of a stored token.                                        *)
THEOREM SubjectsAreStored == Spec => []TokenHasSubject
<1>1. ASSUME IndInv, SubjectInv PROVE TokenHasSubject
  <2>1. \A f \in Flow : tokens[f].count \in Nat /\ tokens[f].count <= 1
    BY <1>1 DEF IndInv, TypeOK, TokenRecord, Custody
  <2> QED
    BY <1>1, <2>1, FlowAssumption DEF SubjectInv, Stored, TokenHasSubject
<1>2. Spec => []SubjectInv
  BY Invariance, SubjectInit, SubjectStep, PTL DEF Spec
<1> QED
  BY <1>1, <1>2, Invariance, PTL

-------------------------------------------------------------------------------
(***************************************************************************)
(* The answer.  A callback that got its provider's answer carries the      *)
(* sign-in to the browser; there is one such callback, and none once the   *)
(* answer has arrived.                                                     *)
(***************************************************************************)
OneAnswer(f) ==
  /\ flow[f].code_out => spent[f]
  /\ \A h \in Handler : Carries(h, f) => spent[f] /\ ~flow[f].code_out
  /\ \A h, g \in Handler : Carries(h, f) /\ Carries(g, f) => h = g

AnswerInv ==
  /\ \A f \in Flow : OneAnswer(f)
  /\ jar.tmstoken # NoFlow => flow[jar.tmstoken].code_out

LEMMA AnswerInit == Init => AnswerInv
<1> SUFFICES ASSUME Init PROVE AnswerInv
  OBVIOUS
<1>1. /\ \A h \in Handler : handler[h].pc = "idle"
      /\ \A f \in Flow : flow[f] = NewFlow
      /\ jar.tmstoken = NoFlow
  BY IdleTyped DEF Init
<1>2. ~NewFlow.code_out
  BY DEF NewFlow
<1> QED
  BY <1>1, <1>2 DEF AnswerInv, OneAnswer, Carries, PastExchange, InHand

(* A callback gets past the exchange by the provider's answer only. *)
LEMMA CarrierStep ==
  ASSUME IndInv, NEW h \in Handler, CallbackStep(h), NEW g \in Handler, NEW f, Carries(g, f)'
  PROVE  Carries(g, f) \/ (g = h /\ get_token_for_provider(h) /\ Vouched(h, f))
<1>t. handler \in [Handler -> HandlerRecord]
  BY DEF IndInv, TypeOK
<1> USE DEF Carries, PastExchange, InHand
<1>1. CASE g # h
  <2>1. handler'[g] = handler[g]
    BY <1>t, <1>1, CallbackSlot DEF SlotChange
  <2> QED
    BY <2>1
<1>2. CASE Refuse(h) /\ g = h
  BY <1>t, <1>2, IdleTyped DEF Refuse
<1>3. ASSUME NEW pc, Goto(h, pc), g = h PROVE handler'[g].pc = pc /\ handler'[g].flow = handler[g].flow
  BY <1>t, <1>3 DEF Goto, HandlerRecord
<1>4. CASE g = h /\ \E e \in Flow : Callback(h, e)
  BY <1>t, <1>4 DEF Callback
<1>5. CASE g = h /\ CheckState(h)
  BY <1>2, <1>3, <1>5 DEF CheckState
<1>6. CASE g = h /\ get_token_for_provider(h)
  BY <1>2, <1>3, <1>6 DEF get_token_for_provider, Vouched
<1>7. CASE g = h /\ get_tms_token_claims(h)
  <2>1. handler' = [handler EXCEPT ![h] = [handler[h] EXCEPT !.pc = "claims", !.exp = now + TokenTtl]]
    BY <1>7 DEF get_tms_token_claims
  <2>2. [handler[h] EXCEPT !.pc = "claims", !.exp = now + TokenTtl].flow = handler[h].flow
    BY <1>t DEF HandlerRecord
  <2> QED
    BY <1>t, <1>7, <2>1, <2>2 DEF get_tms_token_claims
<1>8. CASE g = h /\ \/ db_insert_auth_code_data(h) \/ db_insert_tms_identity_if_absent(h)
                    \/ LoginToken(h) \/ DecodeRedirect(h)
  BY <1>2, <1>3, <1>8
     DEF db_insert_auth_code_data, db_insert_tms_identity_if_absent, LoginToken, DecodeRedirect
<1>9. CASE g = h /\ (Respond(h) \/ Abort(h))
  BY <1>2, <1>9 DEF Respond, Abort
<1> QED
  BY <1>1, <1>4, <1>5, <1>6, <1>7, <1>8, <1>9 DEF CallbackStep, HandlerStep

(* Nothing else moves a callback forward. *)
LEMMA CarriersOf ==
  ASSUME IndInv, [Next]_vars, NEW g \in Handler, NEW f, Carries(g, f)'
  PROVE  Carries(g, f) \/ (get_token_for_provider(g) /\ Vouched(g, f))
<1>1. ASSUME NEW h \in Handler, CallbackStep(h)
      PROVE  Carries(g, f) \/ (get_token_for_provider(g) /\ Vouched(g, f))
  BY <1>1, CarrierStep
<1>2. CASE Stop
  BY <1>2, IdleTyped DEF Stop, Carries, PastExchange, InHand
<1>3. ASSUME UNCHANGED handler PROVE Carries(g, f)
  BY <1>3 DEF Carries
<1>4. ASSUME NEW e \in Flow, login_handler(e) \/ authorize_handler(e) \/ IdpRedirect(e)
      PROVE  UNCHANGED handler
  BY <1>4 DEF login_handler, authorize_handler, StartSignIn, IdpRedirect
<1>5. ASSUME NEW d \in Redeemer,
             \/ \E e \in Flow, c \in Client, r \in Redirect : get_access_token_from_code(d, e, c, r)
             \/ RedeemedToken(d) \/ AbortRedeem(d)
      PROVE  UNCHANGED handler
  BY <1>5 DEF get_access_token_from_code, RedeemedToken, AbortRedeem
<1>6. CASE Tick \/ Start \/ UNCHANGED vars
  BY <1>3, <1>6 DEF Tick, Start, vars
<1> QED
  BY <1>1, <1>2, <1>3, <1>4, <1>5, <1>6 DEF Next, CallbackStep

(* The browser learns of an answer from the response alone. *)
LEMMA CodeOutStep ==
  ASSUME IndInv, [Next]_vars, NEW f \in Flow, flow[f].code_out => spent[f]
  PROVE  \/ flow'[f].code_out = flow[f].code_out
         \/ \E h \in Handler : Respond(h) /\ handler[h].flow = f /\ flow'[f].code_out
<1>t. flow \in [Flow -> FlowRecord] /\ (spent[f] => flow[f].step = "back")
  BY DEF IndInv, TypeOK, Custody
<1>1. ASSUME NEW e \in Flow, StartSignIn(e) PROVE flow'[f].code_out = flow[f].code_out
  <2>1. CASE e = f
    <3>1. flow'[f] = get_state(f) /\ flow[f].step = "new"
      BY <1>1, <2>1 DEF StartSignIn
    <3>2. ~get_state(f).code_out
      BY DEF get_state
    <3>3. ~flow[f].code_out
      BY <1>t, <3>1
    <3>4. flow[f].code_out \in BOOLEAN /\ get_state(f).code_out \in BOOLEAN
      BY <1>t DEF FlowRecord, get_state
    <3> QED
      BY <3>1, <3>2, <3>3, <3>4
  <2>2. CASE e # f
    <3>1. flow'[f] \in {flow[f], [flow[f] EXCEPT !.overlap = TRUE]}
      BY <1>1, <2>2 DEF StartSignIn
    <3>2. [flow[f] EXCEPT !.overlap = TRUE].code_out = flow[f].code_out
      BY <1>t DEF FlowRecord
    <3> QED
      BY <3>1, <3>2
  <2> QED
    BY <2>1, <2>2
<1>2. ASSUME NEW e \in Flow, IdpRedirect(e) PROVE flow'[f].code_out = flow[f].code_out
  <2>1. flow' = [flow EXCEPT ![e] = [flow[e] EXCEPT !.step = "back"]]
    BY <1>2 DEF IdpRedirect
  <2>2. [flow[f] EXCEPT !.step = "back"].code_out = flow[f].code_out
    BY <1>t DEF FlowRecord
  <2> QED
    BY <1>t, <2>1, <2>2
<1>3. ASSUME NEW h \in Handler, Respond(h)
      PROVE  \/ flow'[f].code_out = flow[f].code_out
             \/ handler[h].flow = f /\ flow'[f].code_out
  <2>1. PICK e : e = handler[h].flow
    OBVIOUS
  <2>2. flow' = flow \/ flow' = [flow EXCEPT ![e] = [flow[e] EXCEPT !.code_out = TRUE]]
    BY <1>3, <2>1 DEF Respond
  <2>3. [flow[f] EXCEPT !.code_out = TRUE].code_out
    BY <1>t DEF FlowRecord
  <2> QED
    BY <1>t, <2>1, <2>2, <2>3
<1>4. ASSUME NEW h \in Handler, CallbackStep(h), ~Respond(h) PROVE UNCHANGED flow
  BY <1>4 DEF CallbackStep, HandlerStep, Callback, Abort, CheckState, get_token_for_provider,
              get_tms_token_claims, db_insert_auth_code_data, db_insert_tms_identity_if_absent,
              LoginToken, DecodeRedirect
<1>5. ASSUME NEW d \in Redeemer,
             \/ \E e \in Flow, c \in Client, r \in Redirect : get_access_token_from_code(d, e, c, r)
             \/ RedeemedToken(d) \/ AbortRedeem(d)
      PROVE  UNCHANGED flow
  BY <1>5 DEF get_access_token_from_code, RedeemedToken, AbortRedeem
<1>6. CASE Tick \/ Stop \/ Start \/ UNCHANGED vars
  BY <1>6 DEF Tick, Stop, Start, vars
<1> QED
  BY <1>1, <1>2, <1>3, <1>4, <1>5, <1>6 DEF Next, login_handler, authorize_handler, CallbackStep

(* What the provider has exchanged it has exchanged for good. *)
LEMMA SpentStays ==
  ASSUME IndInv, [Next]_vars, NEW f \in Flow, spent[f]
  PROVE  spent'[f]
<1>t. spent \in [Flow -> BOOLEAN]
  BY DEF IndInv, TypeOK
<1>1. spent' = spent \/ \E e \in Flow : spent' = [spent EXCEPT ![e] = TRUE]
  <2>1. ASSUME NEW h \in Handler, get_token_for_provider(h)
        PROVE  spent' = spent \/ \E e \in Flow : spent' = [spent EXCEPT ![e] = TRUE]
    BY <2>1 DEF get_token_for_provider, IndInv, RecordFacts
  <2> QED
    BY <2>1 DEF Next, vars, login_handler, authorize_handler, StartSignIn, IdpRedirect, Callback,
           HandlerStep, Abort, CheckState, get_tms_token_claims, db_insert_auth_code_data,
           db_insert_tms_identity_if_absent, LoginToken, DecodeRedirect, Respond,
           get_access_token_from_code, RedeemedToken, AbortRedeem, Tick, Stop, Start
<1> QED
  BY <1>t, <1>1

LEMMA TokenCookieStep ==
  ASSUME IndInv, [Next]_vars
  PROVE  \/ jar'.tmstoken = jar.tmstoken
         \/ \E h \in Handler : /\ Respond(h) /\ handler[h].flow \in Flow
                               /\ jar'.tmstoken = handler[h].flow
                               /\ flow'[handler[h].flow].code_out
<1>t. /\ jar \in [state_cookie : Flow \cup {NoFlow}, tmstoken : LoginFlow \cup {NoFlow}]
      /\ flow \in [Flow -> FlowRecord]
  BY DEF IndInv, TypeOK
<1>1. ASSUME NEW e \in Flow, StartSignIn(e) PROVE jar'.tmstoken = jar.tmstoken
  BY <1>t, <1>1 DEF StartSignIn
<1>2. ASSUME NEW h \in Handler, Respond(h)
      PROVE  \/ jar'.tmstoken = jar.tmstoken
             \/ /\ handler[h].flow \in Flow
                /\ jar'.tmstoken = handler[h].flow
                /\ flow'[handler[h].flow].code_out
  <2>1. PICK e \in Flow : e = handler[h].flow
    BY <1>2 DEF Respond, IndInv, RecordFacts
  <2>2. [flow[e] EXCEPT !.code_out = TRUE].code_out
    BY <1>t DEF FlowRecord
  <2>3. ASSUME flow' = [flow EXCEPT ![e] = [flow[e] EXCEPT !.code_out = TRUE]]
        PROVE  flow'[e].code_out
    BY <1>t, <2>2, <2>3
  <2> QED
    BY <1>2, <2>1, <2>3 DEF Respond
<1> QED
  BY <1>1, <1>2 DEF Next, vars, login_handler, authorize_handler, IdpRedirect, Callback,
         HandlerStep, Abort, CheckState, get_token_for_provider, get_tms_token_claims,
         db_insert_auth_code_data, db_insert_tms_identity_if_absent, LoginToken, DecodeRedirect,
         get_access_token_from_code, RedeemedToken, AbortRedeem, Tick, Stop, Start

LEMMA AnswerStep == IndInv /\ AnswerInv /\ [Next]_vars => AnswerInv'
<1> SUFFICES ASSUME IndInv, AnswerInv, [Next]_vars PROVE AnswerInv'
  OBVIOUS
<1>1. ASSUME NEW f \in Flow PROVE OneAnswer(f)'
  <2>0. OneAnswer(f)
    BY DEF AnswerInv
  <2>1. \/ flow'[f].code_out = flow[f].code_out
        \/ \E h \in Handler : Respond(h) /\ handler[h].flow = f /\ flow'[f].code_out
    BY <2>0, CodeOutStep DEF OneAnswer
  <2>2. (flow[f].code_out => spent[f])'
    <3>1. ASSUME NEW h \in Handler, Respond(h), handler[h].flow = f PROVE spent[f]
      BY <2>0, <3>1 DEF OneAnswer, Carries, PastExchange, Respond
    <3> QED
      BY <2>0, <2>1, <3>1, SpentStays DEF OneAnswer
  <2>3. ASSUME NEW g \in Handler, Carries(g, f)' PROVE (spent[f] /\ ~flow[f].code_out)'
    <3>1. CASE Carries(g, f)
      <4>1. ASSUME NEW h \in Handler, Respond(h), handler[h].flow = f PROVE FALSE
        <5>1. h = g
          BY <2>0, <3>1, <4>1 DEF OneAnswer, Carries, PastExchange, Respond
        <5>2. handler'[g].pc = "idle"
          BY <4>1, <5>1, IdleTyped DEF Respond, Refuse, IndInv, TypeOK
        <5> QED
          BY <2>3, <5>2 DEF Carries, PastExchange, InHand
      <4> QED
        BY <2>0, <2>1, <3>1, <4>1, SpentStays DEF OneAnswer
    <3>2. CASE get_token_for_provider(g) /\ Vouched(g, f)
      <4>1. UNCHANGED flow
        BY <3>2 DEF get_token_for_provider
      <4> QED
        BY <2>0, <3>2, <4>1 DEF OneAnswer, Vouched, IndInv, TypeOK
    <3> QED
      BY <2>3, <3>1, <3>2, CarriersOf
  <2>4. ASSUME NEW g \in Handler, NEW h \in Handler, Carries(g, f)', Carries(h, f)' PROVE g = h
    <3>1. ASSUME NEW x \in Handler, NEW y \in Handler, get_token_for_provider(x), Vouched(x, f),
                 Carries(y, f)', x # y
          PROVE  FALSE
      <4>1. handler'[y] = handler[y]
        <5>1. CallbackStep(x)
          BY <3>1 DEF CallbackStep, HandlerStep
        <5>2. PICK q : handler' = [handler EXCEPT ![x] = q]
          BY <5>1, CallbackSlot DEF SlotChange
        <5> QED
          BY <3>1, <5>2 DEF IndInv, TypeOK
      <4>2. Carries(y, f)
        BY <3>1, <4>1 DEF Carries
      <4> QED
        BY <2>0, <3>1, <4>2 DEF OneAnswer, Vouched
    <3>2. CASE Carries(g, f) /\ Carries(h, f)
      BY <2>0, <3>2 DEF OneAnswer
    <3>3. (Carries(g, f) \/ (get_token_for_provider(g) /\ Vouched(g, f)))
          /\ (Carries(h, f) \/ (get_token_for_provider(h) /\ Vouched(h, f)))
      BY <2>4, CarriersOf
    <3> QED
      BY <2>4, <3>1, <3>2, <3>3
  <2> QED
    BY <2>2, <2>3, <2>4 DEF OneAnswer
<1>2. (jar.tmstoken # NoFlow => flow[jar.tmstoken].code_out)'
  <2>1. CASE jar'.tmstoken = jar.tmstoken
    <3>1. ASSUME jar.tmstoken # NoFlow
          PROVE  flow'[jar.tmstoken].code_out
      <4>1. PICK f \in Flow : f = jar.tmstoken /\ flow[f].code_out
        BY <3>1, FlowAssumption DEF AnswerInv, IndInv, TypeOK
      <4>2. flow[f].code_out => spent[f]
        BY DEF AnswerInv, OneAnswer
      <4>3. flow'[f].code_out = flow[f].code_out \/ flow'[f].code_out
        BY <4>2, CodeOutStep
      <4> QED
        BY <4>1, <4>3
    <3> QED
      BY <2>1, <3>1
  <2>2. CASE \E h \in Handler : /\ Respond(h) /\ handler[h].flow \in Flow
                                /\ jar'.tmstoken = handler[h].flow
                                /\ flow'[handler[h].flow].code_out
    BY <2>2
  <2> QED
    BY <2>1, <2>2, TokenCookieStep
<1> QED
  BY <1>1, <1>2 DEF AnswerInv

(* However often the provider's redirect is repeated, whatever fails and   *)
(* whatever else the browser is doing, a sign-in is carried to the browser *)
(* by at most one callback, and by none once it has been answered: while   *)
(* the cookie lasts, a reload of the callback URL is stopped only by the   *)
(* provider, which honours its code once.                                  *)
THEOREM AnsweredOnce == Spec => [](\A f \in Flow : OneAnswer(f))
<1>1. Spec => []AnswerInv
  BY Invariance, AnswerInit, AnswerStep, PTL DEF Spec
<1>2. AnswerInv => \A f \in Flow : OneAnswer(f)
  BY DEF AnswerInv
<1> QED
  BY <1>1, <1>2, PTL

-------------------------------------------------------------------------------
(* The provider answers once, so nobody takes up a sign-in that was dropped. *)
LEMMA NobodyTakesOver ==
  ASSUME IndInv, AnswerInv, [Next]_vars, NEW f \in Flow, spent[f], Unanswered(f)
  PROVE  Unanswered(f)'
<1>1. ASSUME NEW h \in Handler, Carries(h, f)' PROVE FALSE
  BY <1>1, CarriersOf DEF Unanswered, Vouched
<1>2. ASSUME NEW h \in Handler, Respond(h), handler[h].flow = f PROVE FALSE
  BY <1>2 DEF Unanswered, Respond, Carries, PastExchange
<1>3. flow[f].code_out => spent[f]
  OBVIOUS
<1>4. ~flow'[f].code_out
  BY <1>2, <1>3, CodeOutStep DEF Unanswered
<1> QED
  BY <1>1, <1>4 DEF Unanswered

LEMMA TokensStay ==
  ASSUME IndInv, [Next]_vars, NEW f \in Flow, tokens[f].count > 0
  PROVE  tokens'[f].count > 0
<1>1. ASSUME NEW g \in Flow, NEW client, NEW exp, make_auth_token(g, client, exp)
      PROVE  tokens'[f].count > 0
  BY <1>1, TokensGrow
<1>2. ASSUME NEW h \in Handler, LoginToken(h) PROVE tokens'[f].count > 0
  <2>1. handler[h].flow \in Flow
    BY <1>2 DEF LoginToken, IndInv, RecordFacts
  <2> QED
    BY <1>1, <1>2, <2>1 DEF LoginToken
<1>3. ASSUME NEW d \in Redeemer, RedeemedToken(d) PROVE tokens'[f].count > 0
  <2>1. redeemer[d].code \in Flow
    BY <1>3 DEF RedeemedToken, IndInv, ClaimFacts
  <2> QED
    BY <1>1, <1>3, <2>1 DEF RedeemedToken
<1> QED
  BY <1>2, <1>3 DEF Next, vars, login_handler, authorize_handler, StartSignIn, IdpRedirect, Callback,
         HandlerStep, Abort, CheckState, get_token_for_provider, get_tms_token_claims,
         db_insert_auth_code_data, db_insert_tms_identity_if_absent, DecodeRedirect, Respond,
         get_access_token_from_code, AbortRedeem, Tick, Stop, Start

LEMMA CodeStays ==
  ASSUME IndInv, [Next]_vars, NEW f \in Flow, DeadCode(f)
  PROVE  auth_code_data'[f] = auth_code_data[f]
<1>t. /\ auth_code_data \in [Flow -> CodeRow] /\ now \in Nat /\ CodeTtl \in Nat
      /\ auth_code_data[f].updated \in Nat
      /\ Holding(f) = {}
  BY TimeAssumption DEF IndInv, TypeOK, CodeRow, DeadCode, Custody
<1>1. ASSUME NEW h \in Handler, db_insert_auth_code_data(h) PROVE auth_code_data'[f] = auth_code_data[f]
  <2>1. handler[h].flow # f
    BY <1>t, <1>1 DEF db_insert_auth_code_data, Holding
  <2> QED
    BY <1>t, <1>1, <2>1 DEF db_insert_auth_code_data
<1>2. ASSUME NEW d \in Redeemer, NEW g \in Flow, NEW c \in Client, NEW r \in Redirect,
             get_access_token_from_code(d, g, c, r)
      PROVE  auth_code_data'[f] = auth_code_data[f]
  <2>1. g # f
    BY <1>t, <1>2 DEF get_access_token_from_code, db_delete_auth_code_data, DeadCode, Unanswered
  <2> QED
    BY <1>t, <1>2, <2>1 DEF get_access_token_from_code, db_delete_auth_code_data
<1> QED
  BY <1>1, <1>2 DEF Next, vars, login_handler, authorize_handler, StartSignIn, IdpRedirect, Callback,
         HandlerStep, Abort, CheckState, get_token_for_provider, get_tms_token_claims,
         db_insert_tms_identity_if_absent, LoginToken, DecodeRedirect, Respond,
         RedeemedToken, AbortRedeem, Tick, Stop, Start

LEMMA TimeGoesOn == IndInv /\ [Next]_vars => now' \in Nat /\ now <= now'
<1> SUFFICES ASSUME IndInv, [Next]_vars PROVE now' \in Nat /\ now <= now'
  OBVIOUS
<1>1. now \in Nat /\ now' \in {now, now + 1}
  BY DEF IndInv, TypeOK, Next, vars, login_handler, authorize_handler, StartSignIn, IdpRedirect, Callback,
         HandlerStep, Abort, CheckState, get_token_for_provider, get_tms_token_claims,
         db_insert_auth_code_data, db_insert_tms_identity_if_absent, LoginToken, DecodeRedirect, Respond,
         get_access_token_from_code, RedeemedToken, AbortRedeem, Tick, Stop, Start
<1> QED
  BY <1>1

EndsLost == \A h \in Handler : \A f \in Flow :
              handler[h].pc = "minted" /\ handler[h].flow = f /\ handler'[h].pc = "idle" => Lost(f)'

LEMMA AnswerHolds == Spec => []AnswerInv
BY Invariance, AnswerInit, AnswerStep, PTL DEF Spec

LEMMA SubjectHolds == Spec => []SubjectInv
BY Invariance, SubjectInit, SubjectStep, PTL DEF Spec

(* A login's callback that ends between storing the token and sending the  *)
(* response leaves the login lost: the state expired in between (the third *)
(* decode_state of login.rs), the request was dropped, or the process      *)
(* stopped.  The token is stored, and nobody will tell the browser.        *)
THEOREM LateLoginsAreLost == Spec => [][EndsLost]_vars
<1>1. ASSUME IndInv, AnswerInv, SubjectInv, [Next]_vars, NEW h \in Handler, NEW f \in Flow,
             handler[h].pc = "minted", handler[h].flow = f, handler'[h].pc = "idle"
      PROVE  Lost(f)'
  <2>1. Carries(h, f) /\ Stored(f)
    BY <1>1 DEF Carries, PastExchange, SubjectInv, SubjectFacts
  <2>2. spent[f] /\ ~flow[f].code_out /\ \A g \in Handler : Carries(g, f) => g = h
    BY <1>1, <2>1 DEF AnswerInv, OneAnswer
  <2>3. ASSUME NEW g \in Handler, Carries(g, f)' PROVE FALSE
    <3>1. Carries(g, f)
      BY <1>1, <2>2, <2>3, CarriersOf DEF Vouched
    <3> QED
      BY <1>1, <2>2, <2>3, <3>1 DEF Carries, PastExchange, InHand
  <2>4. ASSUME NEW g \in Handler, Respond(g), handler[g].flow = f PROVE FALSE
    <3>1. Carries(g, f) /\ handler[g].pc = "respond"
      BY <2>4 DEF Carries, PastExchange, Respond
    <3> QED
      BY <1>1, <2>2, <3>1
  <2>5. ~flow'[f].code_out
    BY <1>1, <2>2, <2>4, CodeOutStep
  <2>6. Stored(f)'
    BY <1>1, <2>1, TokensStay DEF Stored
  <2> QED
    BY <2>3, <2>5, <2>6 DEF Lost, Unanswered
<1>2. IndInv /\ AnswerInv /\ SubjectInv /\ [Next]_vars => [EndsLost]_vars
  BY <1>1 DEF EndsLost
<1> QED
  BY <1>2, Invariance, AnswerHolds, SubjectHolds, PTL DEF Spec

(* And it stays lost: no reload of the callback and no later sign-in in    *)
(* the browser makes the stored token's cookie reach it.                   *)
THEOREM LostForGood == Spec => LoginsStayLost
<1>1. ASSUME IndInv, AnswerInv, [Next]_vars, NEW f \in Flow, Lost(f)
      PROVE  Lost(f)' /\ jar'.tmstoken # f
  <2>1. tokens[f].count > 0 /\ tokens[f].count \in Nat /\ f \in LoginFlow
    BY <1>1 DEF Lost, Stored, IndInv, TypeOK, TokenRecord
  <2>2. spent[f]
    BY <1>1, <2>1 DEF IndInv, Custody, Nowhere
  <2>3. Unanswered(f)'
    BY <1>1, <2>2, NobodyTakesOver DEF Lost
  <2>4. Stored(f)'
    BY <1>1, <2>1, TokensStay DEF Stored
  <2>5. AnswerInv'
    BY <1>1, AnswerStep
  <2>6. jar'.tmstoken # f
    BY <2>1, <2>3, <2>5, FlowAssumption DEF AnswerInv, Unanswered
  <2> QED
    BY <2>3, <2>4, <2>6 DEF Lost
<1>2. IndInv /\ AnswerInv /\ [Next]_vars => [LostStaysLost]_vars
  BY <1>1 DEF LostStaysLost
<1> QED
  BY <1>2, Invariance, AnswerHolds, PTL DEF Spec, LoginsStayLost

(* A code nobody redeemed in time, or whose answer never arrived, stays in *)
(* auth_code_data for ever, unchanged, and its sign-in never gets a token: *)
(* the one statement that deletes rows is the redemption that can no       *)
(* longer succeed, so the table only grows.                                *)
THEOREM DeadCodesStay == Spec => CodesStayDead
<1>1. ASSUME IndInv, AnswerInv, [Next]_vars, NEW f \in Flow, DeadCode(f)
      PROVE  /\ DeadCode(f)'
             /\ auth_code_data'[f] = auth_code_data[f]
             /\ tokens'[f].count = 0
  <2>1. auth_code_data'[f] = auth_code_data[f]
    BY <1>1, CodeStays
  <2>2. HasCode(f) /\ spent[f]
    BY <1>1 DEF DeadCode, IndInv, Custody, Nowhere
  <2>3. HasCode(f)'
    BY <2>1, <2>2 DEF HasCode
  <2>4. Unanswered(f) => Unanswered(f)'
    BY <1>1, <2>2, NobodyTakesOver
  <2>5. auth_code_data[f].updated + CodeTtl <= now => (auth_code_data[f].updated + CodeTtl <= now)'
    BY <1>1, <2>1, TimeGoesOn, TimeAssumption DEF IndInv, TypeOK, CodeRow
  <2>6. DeadCode(f)'
    BY <1>1, <2>3, <2>4, <2>5 DEF DeadCode
  <2>7. IndInv'
    BY <1>1, InvStep
  <2>8. tokens'[f].count = 0
    BY <2>3, <2>7 DEF IndInv, Custody
  <2> QED
    BY <2>1, <2>6, <2>8
<1>2. IndInv /\ AnswerInv /\ [Next]_vars => [DeadCodeStays]_vars
  BY <1>1 DEF DeadCodeStays
<1> QED
  BY <1>2, Invariance, AnswerHolds, PTL DEF Spec, CodesStayDead
===============================================================================
