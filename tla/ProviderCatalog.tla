---------------------------- MODULE ProviderCatalog ----------------------------
(***************************************************************************)
(* The table identity_providers as the sign-ins use it.  A row says where  *)
(* a provider is, how its id tokens are verified and what it is allowed    *)
(* for.  The code only reads the table; operators edit it while sign-ins   *)
(* are under way, and providers change their signing keys.                 *)
(*                                                                         *)
(* A sign-in reads the row of its provider when it starts and again in its *)
(* callback, exchanges the provider's code for an id token, fetches the    *)
(* provider's keys and verifies the token.  The callback of the OAuth2     *)
(* flow reads the row twice, in two transactions: the first row verifies   *)
(* the token and names the provider in the claims, the second one is asked *)
(* for the token.                                                          *)
(***************************************************************************)
EXTENDS SequencesExt, FiniteSets

CONSTANTS
  Idp,       \* ids of rows
  Site,      \* the providers' installations a row can point to
  Key,       \* signing keys
  NoKey,
  KeysOf,    \* KeysOf[s]: the keys of site s
  Row,       \* the rows operators write
  NoRow,
  NoToken,
  Column,    \* the columns of the table
  Handler    \* slots for sign-ins

ASSUME KeysAssumption ==
  /\ KeysOf \in [Site -> SUBSET Key]
  /\ \A s1, s2 \in Site : s1 # s2 => KeysOf[s1] \cap KeysOf[s2] = {}
  /\ NoKey \notin Key

(* The provider types from_str knows; every other string is "unknown". *)
Type == {"globus", "tacc_tapis", "danger_mode"}

(* jwks: is oauth2_jwks_url set?  An operator who stores the public key of *)
(* a provider stores one of its own.                                       *)
IdentityProvider ==
  [site : Site, jwks : BOOLEAN, public_key : Key \cup {NoKey},
   provider_type : Type \cup {"unknown"},
   supports_login : BOOLEAN, supports_resources : BOOLEAN]

ASSUME RowAssumption ==
  /\ Row \subseteq IdentityProvider
  /\ \A row \in Row : row.public_key \in KeysOf[row.site] \cup {NoKey}
  /\ NoRow \notin Row

(* Every query but one selects the columns that the conversion reads. *)
ASSUME TableAssumption ==
  /\ Idp # {} /\ Site # {}
  /\ "resources_services_url" \in Column
  /\ NoToken \notin [key : Key, kid : Key \cup {NoKey}]

VARIABLES
  identity_providers, \* identity_providers[i]: the row with id i, or NoRow
  keys,               \* keys[s]: the key site s signs with, and those it publishes
  handler,            \* handler[h]: the sign-in in slot h
  listing             \* the last answer of each list

vars == <<identity_providers, keys, handler, listing>>

Kind == {"login", "oauth", "link"}
Token == [key : Key, kid : Key \cup {NoKey}]
List == {"login", "resources"}

(***************************************************************************)
(* site is where the browser was sent.  first and second are the rows the  *)
(* callback has read (login and link callbacks read one).  steady is a     *)
(* history field: since the callback arrived its provider's row has not    *)
(* changed and the key of its token could be found among the provider's.   *)
(***************************************************************************)
HandlerRecord ==
  [pc : {"idle", "at_provider", "called", "again", "exchange", "verify", "accepted", "refused"},
   kind : Kind, idp : Idp, site : Site, first : Row \cup {NoRow}, second : Row \cup {NoRow},
   token : Token \cup {NoToken}, steady : BOOLEAN]

TypeOK ==
  /\ identity_providers \in [Idp -> Row \cup {NoRow}]
  /\ \A s \in Site : /\ keys[s].signing \in KeysOf[s]
                     /\ keys[s].published \in Seq(KeysOf[s])
  /\ handler \in [Handler -> HandlerRecord]
  /\ \A h \in Handler :
       /\ handler[h].pc \in {"again", "exchange", "verify", "accepted"} => handler[h].first \in Row
       /\ handler[h].pc \in {"exchange", "verify", "accepted"} => handler[h].second \in Row
       /\ handler[h].pc \in {"verify", "accepted"} => handler[h].token \in Token
  /\ listing \in [List -> [status : {"none", "ok", "error"}, idps : SUBSET Idp]]

(* The key sets a site may publish: distinct keys in some order.  A site   *)
(* publishes the key it signs with.                                        *)
JwkSet(s) == {list \in SeqOf(KeysOf[s], Cardinality(KeysOf[s])) : IsInjective(list)}
KeyState(s) == {k \in [signing : KeysOf[s], published : JwkSet(s)] :
                  Contains(k.published, k.signing)}

Idle == [pc |-> "idle", kind |-> "login", idp |-> CHOOSE i \in Idp : TRUE,
         site |-> CHOOSE s \in Site : TRUE, first |-> NoRow, second |-> NoRow,
         token |-> NoToken, steady |-> FALSE]

Init ==
  /\ identity_providers \in [Idp -> Row \cup {NoRow}]
  /\ keys \in {k \in [Site -> UNION {KeyState(s) : s \in Site}] : \A s \in Site : k[s] \in KeyState(s)}
  /\ handler = [h \in Handler |-> Idle]
  /\ listing = [l \in List |-> [status |-> "none", idps |-> {}]]

-------------------------------------------------------------------------------
(***************************************************************************)
(* The queries.  A row is converted when the columns that are read from it *)
(* have been selected and its provider type is known.                      *)
(***************************************************************************)
Allowed(row, kind) ==
  row # NoRow /\ IF kind = "link" THEN row.supports_resources ELSE row.supports_login

(* Columns that every query selects are left out. *)
ReadColumn == {"resources_services_url"}
try_from(row, selected) == ReadColumn \subseteq selected /\ row.provider_type # "unknown"

(* db_get_login_provider_by_id, db_get_resource_provider_by_id *)
get_provider_by_id(row, kind) == Allowed(row, kind) /\ try_from(row, Column)

(* The query fails as a whole when it names a column the table lacks, or   *)
(* when one of the rows it found cannot be converted.                      *)
Answer(found, selected) ==
  IF /\ selected \subseteq Column
     /\ \A i \in found : try_from(identity_providers[i], selected)
    THEN [status |-> "ok", idps |-> found]
    ELSE [status |-> "error", idps |-> {}]

db_get_login_providers ==
  Answer({i \in Idp : Allowed(identity_providers[i], "login")}, {"resources_endpoint"})

get_idp_handler ==
  /\ listing' = [listing EXCEPT !["login"] = db_get_login_providers]
  /\ UNCHANGED <<identity_providers, keys, handler>>

(* With linked_only the ids are also looked up in a table that no other    *)
(* statement of the code reads or writes.                                  *)
db_get_resource_providers(linked_only, joined) ==
  Answer({i \in Idp : Allowed(identity_providers[i], "link") /\ (linked_only => i \in joined)},
         Column)

list_resource_provider_handler ==
  /\ \E linked_only \in BOOLEAN, joined \in SUBSET Idp :
       listing' = [listing EXCEPT
         !["resources"] = db_get_resource_providers(linked_only, joined)]
  /\ UNCHANGED <<identity_providers, keys, handler>>

-------------------------------------------------------------------------------
(***************************************************************************)
(* A sign-in, from the redirect to the verified id token.                  *)
(***************************************************************************)
Others == UNCHANGED <<identity_providers, keys, listing>>
Update(h, record) == handler' = [handler EXCEPT ![h] = record] /\ Others
Goto(h, pc) == Update(h, [handler[h] EXCEPT !.pc = pc])

(* login_handler, authorize_code, get_authenticate_redirect_info *)
StartSignIn(h, kind, i) ==
  LET row == identity_providers[i]
  IN  /\ handler[h].pc = "idle"
      /\ get_provider_by_id(row, kind)
      /\ Update(h, [Idle EXCEPT !.pc = "at_provider", !.kind = kind, !.idp = i,
                                !.site = row.site])

(* The provider sends the browser to the callback. *)
Callback(h) ==
  /\ handler[h].pc = "at_provider"
  /\ Update(h, [handler[h] EXCEPT !.pc = "called", !.steady = TRUE])

(* Mutant: the row is not kept for the exchange. *)
Bug_ReadProvider(h) ==
  LET row == identity_providers[handler[h].idp]
  IN  /\ handler[h].pc = "called"
      /\ IF get_provider_by_id(row, handler[h].kind)
           THEN Update(h, [handler[h] EXCEPT !.pc = "exchange", !.first = row])
           ELSE Goto(h, "refused")

ReadProvider(h) ==
  LET row == identity_providers[handler[h].idp]
  IN  /\ handler[h].pc = "called"
      /\ IF ~get_provider_by_id(row, handler[h].kind)
           THEN Goto(h, "refused")
           ELSE IF handler[h].kind = "oauth"
           THEN Update(h, [handler[h] EXCEPT !.pc = "again", !.first = row])
           ELSE Update(h, [handler[h] EXCEPT !.pc = "exchange", !.first = row, !.second = row])

(* get_provider_token reads the provider again for the OAuth2 callback. *)
ReadAgain(h) ==
  LET row == identity_providers[handler[h].idp]
  IN  /\ handler[h].pc = "again"
      /\ IF get_provider_by_id(row, handler[h].kind)
           THEN Update(h, [handler[h] EXCEPT !.pc = "exchange", !.second = row])
           ELSE Goto(h, "refused")

(* For the history: the token's key is published, under the name the token *)
(* gives it or as the only one.                                            *)
Findable(token, published) ==
  Contains(published, token.key) /\ (token.kid = NoKey => Len(published) = 1)

(* Only the site that issued the code honours it; it may name its key. *)
get_token_for_provider(h) ==
  LET s == handler[h].second.site
  IN  /\ handler[h].pc = "exchange"
      /\ handler[h].site = s
      /\ \E kid \in {keys[s].signing, NoKey} :
           LET token == [key |-> keys[s].signing, kid |-> kid]
           IN  Update(h, [handler[h] EXCEPT
                 !.pc = "verify", !.token = token,
                 !.steady = @ /\ Findable(token, keys[s].published)])

(* Mutant: the OAuth2 callback verifies with the row it exchanged with. *)
Bug_VerifyingRow(h) == handler[h].second

VerifyingRow(h) == handler[h].first

(* Mutant: the first published key, whatever the token says. *)
Bug_find(token, published) ==
  IF published # <<>> THEN published[1] ELSE NoKey

(* The key among the published ones that the token names, or the first. *)
find(token, published) ==
  IF token.kid # NoKey
    THEN IF Contains(published, token.kid) THEN token.kid ELSE NoKey
    ELSE IF published # <<>> THEN published[1] ELSE NoKey

(* The published keys come before a stored one.  The link callback does    *)
(* not pass the stored key on.                                             *)
DecodingKey(row, kind, token) ==
  IF row.jwks THEN find(token, keys[row.site].published)
  ELSE IF kind # "link" THEN row.public_key ELSE NoKey

decode(h) ==
  /\ handler[h].pc = "verify"
  /\ Goto(h, IF DecodingKey(VerifyingRow(h), handler[h].kind, handler[h].token)
                  = handler[h].token.key
               THEN "accepted" ELSE "refused")

(* The sign-in is answered, or given up because the provider, the database *)
(* or the browser failed it.                                               *)
Drop(h) == handler[h].pc # "idle" /\ Update(h, Idle)

-------------------------------------------------------------------------------
(* An operator adds, changes or removes a row (external). *)
Edit(i, row) ==
  /\ identity_providers[i] # row
  /\ identity_providers' = [identity_providers EXCEPT ![i] = row]
  /\ handler' = [h \in Handler |->
       IF handler[h].idp = i THEN [handler[h] EXCEPT !.steady = FALSE] ELSE handler[h]]
  /\ UNCHANGED <<keys, listing>>

(* A provider changes its keys (external). *)
Rotate(s, k) ==
  /\ k # keys[s]
  /\ keys' = [keys EXCEPT ![s] = k]
  /\ handler' = [h \in Handler |->
       [handler[h] EXCEPT !.steady =
          @ /\ (handler[h].token # NoToken /\ handler[h].site = s =>
                  Findable(handler[h].token, k.published))]]
  /\ UNCHANGED <<identity_providers, listing>>

SignIn(h) ==
  \/ \E kind \in Kind, i \in Idp : StartSignIn(h, kind, i)
  \/ Callback(h)
  \/ ReadProvider(h)
  \/ ReadAgain(h)
  \/ get_token_for_provider(h)
  \/ decode(h)
  \/ Drop(h)

Next ==
  \/ \E h \in Handler : SignIn(h)
  \/ get_idp_handler
  \/ list_resource_provider_handler
  \/ \E i \in Idp, row \in Row \cup {NoRow} : Edit(i, row)
  \/ \E s \in Site : \E k \in KeyState(s) : Rotate(s, k)

Spec == Init /\ [][Next]_vars

-------------------------------------------------------------------------------
(***************************************************************************)
(* The row that names the provider in an accepted sign-in's claims was     *)
(* allowed for that kind of sign-in, has a known type, and points to the   *)
(* site that vouched for the user, however operators change the row        *)
(* between the reads of one callback.                                      *)
(***************************************************************************)
AcceptedByItsRow ==
  \A h \in Handler : handler[h].pc = "accepted" =>
    LET row == handler[h].first
    IN  /\ Allowed(row, handler[h].kind)
        /\ row.provider_type \in Type
        /\ row.site = handler[h].site

(***************************************************************************)
(* A callback is not refused for its keys as long as its provider's row    *)
(* stays and the key of its token stays published, under its name or as    *)
(* the only one: a provider that rotates with an overlap loses nobody.     *)
(* The exceptions are rows without published keys, which must hold the     *)
(* current key and cannot be linked at all.                                *)
(***************************************************************************)
SteadyProviderAccepted ==
  \A h \in Handler : handler[h].pc = "refused" /\ handler[h].steady =>
    LET row == identity_providers[handler[h].idp]
        token == handler[h].token
    IN  \/ ~Allowed(row, handler[h].kind)
        \/ row.provider_type = "unknown"
        \/ token # NoToken /\ ~row.jwks /\ (handler[h].kind = "link" \/ row.public_key # token.key)

(***************************************************************************)
(* docs/tms_openapi.yml:117 of /login/idps: "Get list of all supported     *)
(* login identity providers".                                              *)
(***************************************************************************)
LoginProvidersListed ==
  [][get_idp_handler /\ (\A i \in Idp : identity_providers[i] # NoRow =>
                            identity_providers[i].provider_type \in Type)
       => listing'["login"] =
            [status |-> "ok", idps |-> {i \in Idp : Allowed(identity_providers[i], "login")}]]_vars
===============================================================================
