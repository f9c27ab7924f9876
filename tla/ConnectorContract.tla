------------------------- MODULE ConnectorContract -------------------------
(***************************************************************************)
(* What setUpDataConnector takes for a custom_mcp connector, as far as the *)
(* application has found out, and what it makes of a refusal.              *)
(*                                                                         *)
(* The body is reduced to the keys of its two untyped maps and the value   *)
(* of auth_type.  A contract says which keys the service takes; it is a    *)
(* v1alpha surface that changes, so the contract is a parameter of         *)
(* everything here and what the application believes of it a constant.     *)
(***************************************************************************)
EXTENDS FiniteSets

Sentinel == "__p2m_contract_probe__"

BASE_ACTION_PARAMS ==
  {"agent_gateway_engine", "instance_uri", "mcp_server_source",
   "registry_mcp_server_name", "tool_list", "use_agent_gateway_egress"}

REQUIRED_OAUTH_ACTION_PARAMS == {"auth_type", "auth_uri", "client_id", "token_uri"}

OAUTH_ACTION_PARAMS ==
  REQUIRED_OAUTH_ACTION_PARAMS \union {"auth_uri_params", "client_secret", "scopes"}

SUPPORTED_ACTION_PARAMS == BASE_ACTION_PARAMS \union OAUTH_ACTION_PARAMS

SUPPORTED_PARAMS == {"oauth_access_token"}

Keys == SUPPORTED_ACTION_PARAMS \union SUPPORTED_PARAMS \union {Sentinel, "audience"}

Body == [params : SUBSET Keys, action : SUBSET Keys, auth : {"OAUTH", "NO_AUTH"}]

\* A refusal: of keys that are missing from params, of keys that are not taken
\* (with the list of those that are), or for another reason, or in words
\* that the application cannot read.
Complaint == [kind : {"missing", "stray", "other"}, keys : SUBSET Keys, allowed : SUBSET Keys]

Missing(keys) == [kind |-> "missing", keys |-> keys, allowed |-> {}]
Stray(keys, allowed) == [kind |-> "stray", keys |-> keys, allowed |-> allowed]
Other == [kind |-> "other", keys |-> {}, allowed |-> {}]

(***************************************************************************)
(* The service.                                                            *)
(***************************************************************************)

\* base and permits are the keys either map takes; need and optional the OAuth
\* group; demands what params must have, oauthDemands what it must have
\* besides when auth_type is OAUTH; order which map is looked at first.
Contract ==
  [base : SUBSET Keys, need : SUBSET Keys, optional : SUBSET Keys,
   permits : SUBSET Keys, demands : SUBSET Keys, oauthDemands : SUBSET Keys,
   order : {"action", "params"}, legible : BOOLEAN]

CONSTANT Contracts     \* the contracts the service may have

\* auth_type belongs to the OAuth group, which is all or nothing.
ASSUME ContractsAssumption ==
  /\ Contracts \subseteq Contract /\ Contracts # {}
  /\ \A c \in Contracts : "auth_type" \notin c.base

\* The auth_type a body declares.
Declares(b, auth) == "auth_type" \in b.action /\ b.auth = auth

Whole(c, b) == Declares(b, "OAUTH") /\ c.need \subseteq b.action

\* The OAuth group is taken all or nothing: a part of it is as strange to the
\* service as any other key.
ActionStrays(c, b) ==
  b.action \ (c.base \union (IF Whole(c, b) THEN c.need \union c.optional ELSE {})
                     \union (IF Declares(b, "NO_AUTH") THEN {"auth_type"} ELSE {}))

ActionComplaints(c, b) == {Stray({k}, c.base) : k \in ActionStrays(c, b)}

Demanded(c, b) ==
  c.demands \union (IF Declares(b, "OAUTH") THEN c.oauthDemands ELSE {})

ParamsComplaints(c, b) ==
  IF b.params \subseteq c.permits
  THEN IF Demanded(c, b) \subseteq b.params THEN {}
       ELSE {Missing(Demanded(c, b) \ b.params)}
  ELSE {Stray({k}, c.permits) : k \in b.params \ c.permits}

\* Looked at last: an absent auth_type means OAUTH, and then the client is missing.
DefaultComplaints(b) ==
  IF "auth_type" \in b.action THEN {} ELSE {Missing({"client_id"})}

Acceptable(c, b) ==
  ActionStrays(c, b) = {} /\ ParamsComplaints(c, b) = {} /\ DefaultComplaints(b) = {}

\* The first check that fails answers, naming one key.
Complaints(c, b) ==
  LET first  == IF c.order = "action" THEN ActionComplaints(c, b) ELSE ParamsComplaints(c, b)
      second == IF c.order = "action" THEN ParamsComplaints(c, b) ELSE ActionComplaints(c, b)
      said == IF first # {} THEN first
              ELSE IF second # {} THEN second ELSE DefaultComplaints(b)
  IN  IF c.legible \/ said = {} THEN said ELSE {Other}

(***************************************************************************)
(* The application.                                                        *)
(***************************************************************************)

\* The group is built from what the run holds, complete or not at all.
BuildConnector(held) ==
  LET whole == {"client_id", "auth_uri", "token_uri"} \subseteq held
  IN  [params |-> {"oauth_access_token"},
       action |-> {"mcp_server_source", "instance_uri", "auth_type"}
                  \union (IF whole THEN held \intersect OAUTH_ACTION_PARAMS ELSE {}),
       auth |-> IF whole THEN "OAUTH" ELSE "NO_AUTH"]

\* A refused OAuth key taken for all of them forbidden, and auth_type reset.
AmendmentsDropGroup(m, b, pool) ==
  IF m.kind = "stray" /\ m.keys \intersect b.action \intersect OAUTH_ACTION_PARAMS # {}
  THEN {[b EXCEPT !.action = (@ \ OAUTH_ACTION_PARAMS) \union {"auth_type"}, !.auth = "NO_AUTH"]}
  ELSE {}

\* The bodies a complaint leads to: one, or none if it names nothing that
\* can be met from the pool.
Amendments(m, b, pool) ==
  CASE m.kind = "missing" ->
         IF m.keys \subseteq pool /\ m.keys \intersect b.params = {}
         THEN {[b EXCEPT !.params = @ \union m.keys]} ELSE {}
    [] m.kind = "stray" ->
         IF m.keys \intersect b.params # {}
         THEN {[b EXCEPT !.params = @ \ m.keys]}
         ELSE IF m.keys \intersect b.action # {}
              THEN {[b EXCEPT !.action = @ \ m.keys]} ELSE {}
    [] OTHER -> {}
=============================================================================
