--------------------------- MODULE MCProviderCatalog ---------------------------
(* ProviderCatalog on small instances: two sites that rotate between two   *)
(* keys each; rows as tms_portal_dev_config.sql writes them, and what      *)
(* operators may change in them.                                           *)
EXTENDS ProviderCatalog

CONSTANTS globus, tacc, k1, k2, k3, k4

MCKeysOf == [s \in Site |-> IF s = globus THEN {k1, k2} ELSE {k3, k4}]

LoginRow == [site |-> globus, jwks |-> TRUE, public_key |-> NoKey, provider_type |-> "globus",
             supports_login |-> TRUE, supports_resources |-> FALSE]
ResourceRow == [site |-> tacc, jwks |-> TRUE, public_key |-> NoKey,
                provider_type |-> "tacc_tapis",
                supports_login |-> FALSE, supports_resources |-> TRUE]
MCRow == {LoginRow, ResourceRow,
          [LoginRow EXCEPT !.supports_resources = TRUE],
          [LoginRow EXCEPT !.jwks = FALSE, !.public_key = k1, !.supports_resources = TRUE],
          [ResourceRow EXCEPT !.supports_login = TRUE],
          [ResourceRow EXCEPT !.provider_type = "unknown"]}

(* The columns that the queries do not agree on.  The sample rows of the   *)
(* repository have the first; the second is granted to the query that      *)
(* names it.                                                               *)
MCColumn == {"resources_services_url", "resources_endpoint"}
===============================================================================
