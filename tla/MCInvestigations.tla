-------------------------- MODULE MCInvestigations --------------------------
(***************************************************************************)
(* The six components that ask the outside before, or besides, a run: the  *)
(* connector's negotiation, the contract probes, the SDK search, the       *)
(* invoker policy, the resolution dialogue and the console.  They share no *)
(* state, so that one runs while the others are idle: an interleaving of   *)
(* two adds nothing to the states of each.                                 *)
(***************************************************************************)
EXTENDS ConnectorNegotiation, ContractProbes, SdkSearch, InvokerPolicy, Resolution, Console

(* The connector service *)

Known ==
  [base |-> BASE_ACTION_PARAMS, need |-> REQUIRED_OAUTH_ACTION_PARAMS,
   optional |-> {"auth_uri_params", "client_secret", "scopes"},
   permits |-> {"oauth_access_token"}, demands |-> {"oauth_access_token"},
   oauthDemands |-> {}, order |-> "action", legible |-> TRUE]

\* The contract as known, and what it may become in up to two respects.
Drifts ==
  {c \in [base : {Known.base, Known.base \ {"mcp_server_source"}, Known.base \ {"instance_uri"},
                  Known.base \union {Sentinel}},
          need : {Known.need, Known.need \union {"audience"}, Known.need \union {"client_secret"}},
          optional : {Known.optional, {}, {"client_secret"}},
          permits : {Known.permits, Known.permits \union {"instance_uri"}, Known.permits \union {"client_id"}, {}},
          demands : {Known.demands, {}, {"oauth_access_token", "instance_uri"}},
          oauthDemands : {{}, {"client_id"}},
          order : {"action", "params"}, legible : BOOLEAN] :
     Cardinality({f \in DOMAIN Known : c[f] # Known[f]}) <= 2}

SomeHoldings ==
  {{}, {"client_id", "auth_uri"}, REQUIRED_OAUTH_ACTION_PARAMS \ {"auth_type"},
   {"client_id", "client_secret", "auth_uri", "token_uri", "scopes"}}

\* What the model tries: the shape of the documentation, no auth_type, part
\* of a group, a whole group without a secret.
SomeShapes ==
  {[params |-> {"client_id", "oauth_access_token"}, action |-> {"instance_uri", "auth_type"}, auth |-> "OAUTH"],
   [params |-> {}, action |-> {"instance_uri"}, auth |-> "NO_AUTH"],
   [params |-> {}, action |-> REQUIRED_OAUTH_ACTION_PARAMS \union {"instance_uri"}, auth |-> "OAUTH"]}

(* The web *)

SomeUrls == {"page", "first", "second", "third"}

\* A page with as many places around it as the budget does not reach, and a package.
SomeReferences ==
  {[package |-> FALSE, page |-> "page", candidates |-> <<"first", "second", "third">>],
   [package |-> TRUE, page |-> "page", candidates |-> <<"first", "second">>]}

\* The third place has a specification that only the model can come by.
SomeWebs ==
  {[page |-> w[1], first |-> w[2], second |-> w[3], third |-> "spec"] :
     w \in {<<"page", "absent", "spec">>, <<"page", "absent", "unusable">>, <<"page", "spec", "absent">>,
            <<"absent", "absent", "absent">>, <<"spec", "absent", "absent">>,
            <<"long", "spec", "absent">>}}

SomePaths == {<<"users", "octocat">>, <<"users", "octocat", "repos">>}

SomeTemplates == {<<"users", "*">>}

(* The policy *)

SomeWanted == [d \in {"first run", "second run"} |->
                 IF d = "first run" THEN {"Gemini Enterprise"} ELSE {"Gemini Enterprise", "allUsers"}]

(* The dialogue *)

Said(words, keys) == [words |-> words, keys |-> keys]

Form(looks, keys, description, api_key, auth) ==
  [input |-> [looks |-> looks, keys |-> keys], description |-> description,
   overrides |-> [api_key |-> api_key, auth |-> auth, description |-> NoDescription,
                  client |-> FALSE, engine |-> None]]

SomeForms ==
  {Form(looks, keys, NoDescription, None, None) : looks \in Looks, keys \in {{}, {"k1"}, {"k1", "k2"}}}
  \union {Form("docs_text", keys, d, api_key, None) :
            keys \in {{}, {"k1"}}, api_key \in {None, "k2"},
            d \in {Said("few", {}), Said("enough", {}), Said("none", {"k1"}), Said("enough", {"k2"})}}
  \union {Form("mcp_endpoint", {}, Said("few", {}), api_key, auth) :
            api_key \in {None, "k1"}, auth \in AuthKinds}

Quiet == [mcp |-> "no", content |-> "page", scheme |-> "none", preset |-> FALSE, discovered |-> FALSE,
          describes |-> FALSE, blocked |-> FALSE, engines |-> {}]

SomeWorlds ==
  {Quiet, [Quiet EXCEPT !.content = "unreadable"], [Quiet EXCEPT !.content = "spec", !.describes = TRUE],
   [Quiet EXCEPT !.content = "spec", !.scheme = "oauth_user", !.engines = {"app"}]}
  \union {[Quiet EXCEPT !.mcp = mcp, !.preset = preset, !.describes = TRUE, !.discovered = ~preset,
                        !.engines = engines] :
            mcp \in {"open", "gated"}, preset \in BOOLEAN, engines \in {{}, {"app"}, {"app", "other app"}}}
  \union {[Quiet EXCEPT !.mcp = "open", !.blocked = TRUE]}

(* The form *)

SomeWiped == [f \in {"a form", "a form with a key", "another form"} |->
                IF f = "a form with a key" THEN "a form" ELSE f]

(* All of them *)

VARIABLE running    \* the component that runs, once one does

vars == <<running, negotiationVars, probesVars, searchVars, policyVars, dialogueVars, consoleVars>>

Runs(c) == running \in {"none", c} /\ running' = c

Connecting == Runs("connector")
  /\ UNCHANGED <<probesVars, searchVars, policyVars, dialogueVars, consoleVars>>
Probing == Runs("probes")
  /\ UNCHANGED <<negotiationVars, searchVars, policyVars, dialogueVars, consoleVars>>
Searching == Runs("search")
  /\ UNCHANGED <<negotiationVars, probesVars, policyVars, dialogueVars, consoleVars>>
Deploying == Runs("policy")
  /\ UNCHANGED <<negotiationVars, probesVars, searchVars, dialogueVars, consoleVars>>
Resolving == Runs("dialogue")
  /\ UNCHANGED <<negotiationVars, probesVars, searchVars, policyVars, consoleVars>>
Filling == Runs("console")
  /\ UNCHANGED <<negotiationVars, probesVars, searchVars, policyVars, dialogueVars>>

Init == running = "none" /\ NegotiationInit /\ ProbesInit /\ SearchInit /\ PolicyInit /\ DialogueInit /\ ConsoleInit

Next ==
  \/ Connecting /\ NegotiationNext
  \/ Probing /\ ProbesNext
  \/ Searching /\ SearchNext
  \/ Deploying /\ PolicyNext
  \/ Resolving /\ DialogueNext
  \/ Filling /\ ConsoleNext

\* Every call is answered or times out, and a turn's calls are finitely many.
Spec ==
  /\ Init /\ [][Next]_vars
  /\ WF_vars(Connecting /\ SetUpStep)
  /\ WF_vars(Deploying /\ DeployStep)
  /\ WF_vars(Probing /\ ProbesStep) /\ WF_vars(Probing /\ Answered)
  /\ WF_vars(Searching /\ SearchStep) /\ WF_vars(Searching /\ CallsAnswered)

TypeOK ==
  NegotiationTypeOK /\ ProbesTypeOK /\ SearchTypeOK /\ PolicyTypeOK /\ DialogueTypeOK /\ ConsoleTypeOK

Underway ==
  \/ negotiation \in {"posting", "operation", "datastore"}
  \/ probing \in {"seeding", "seeded", "thinking", "calling"}
  \/ probing = "checking" /\ ~CanaryDone
  \/ search \in {"page", "hunting", "adopting", "thinking", "calling"}
  \/ \E d \in Deployments : deploying[d] \notin {"idle", "done", "failed"}

\* Whatever is started ends, however the services and the models behave: a connector is there or
\* given up, a finding is made and the checks are through, a search has a
\* manifest or an error, and a deployment is through.
EveryInvestigationEnds == Underway ~> ~Underway
=============================================================================
