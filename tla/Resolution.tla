----------------------------- MODULE Resolution -----------------------------
(***************************************************************************)
(* POST /v1/resolve (resolve.py): one free-form input becomes a request    *)
(* and the questions that are left; the operator answers them and resolves *)
(* again.                                                                  *)
(*                                                                         *)
(* A text is reduced to the credentials that stand in it and to what it    *)
(* looks like, the network to what it has to say about the input.          *)
(***************************************************************************)
EXTENDS Naturals, FiniteSets

CONSTANTS
  Credentials,    \* credential-shaped strings
  Forms,          \* what may stand in the form at first
  Worlds,         \* what the network may have to say
  Engines,        \* Gemini Enterprise apps
  Rounds          \* bound on the rounds of the dialogue

\* "mcp_config" is a text in which an endpoint was detected, the others are InputKinds.
Looks == {"empty", "mcp_endpoint", "mcp_config", "openapi_url", "docs_url", "openapi_text", "docs_text"}

AuthKinds == {"oauth_user", "google_id_token", "api_key", "none"}

None == "no value"

\* A description: what is there besides the credentials in it and the words that
\* introduce them (nothing, too little, enough), and these credentials.
Description == [words : {"none", "few", "enough"}, keys : SUBSET Credentials]

NoDescription == [words |-> "none", keys |-> {}]

Overrides ==
  [api_key : Credentials \union {None}, auth : AuthKinds \union {None},
   description : Description, client : BOOLEAN, engine : Engines \union {None}]

Payload ==
  [input : [looks : Looks, keys : SUBSET Credentials],
   description : Description, overrides : Overrides]

\* What is at the URL, how the spec and the endpoint say they authenticate,
\* whether the source describes itself, whether something outside blocks the
\* run, and the apps there are.
World ==
  [mcp : {"no", "open", "gated"}, content : {"spec", "page", "unreadable"},
   scheme : {"oauth_user", "none"}, preset : BOOLEAN, discovered : BOOLEAN,
   describes : BOOLEAN, blocked : BOOLEAN, engines : SUBSET Engines]

Request ==
  [source : {"mcp", "docs"}, keys : SUBSET Credentials, auth : AuthKinds,
   api_key : Credentials \union {None}, client : BOOLEAN, engine : Engines \union {None}]

Questions == {"description", "oauth_client", "blocked", "engine"}

Plan == [request : SUBSET Request, asks : SUBSET Questions, error : BOOLEAN]

ASSUME ResolutionAssumption ==
  /\ IsFiniteSet(Credentials)
  /\ Forms \subseteq Payload
  /\ Worlds \subseteq World /\ Worlds # {}
  /\ Rounds \in Nat
  /\ None \notin Credentials \union Engines \union AuthKinds

(***************************************************************************)
(* The steps of _resolve                                                   *)
(***************************************************************************)

Found(p) == p.input.keys \union p.description.keys

\* The input alone is relieved of the credential.
StripInput(p, key) == [p EXCEPT !.input.keys = @ \ {key}]

\* _strip_credential on both texts.
Strip(p, key) ==
  [p EXCEPT !.input.keys = @ \ {key}, !.description.keys = @ \ {key}]

\* A credential becomes the api_key, and the auth kind unless one was chosen.
TakesKey(o, key) == [o EXCEPT !.api_key = key, !.auth = IF @ = None THEN "api_key" ELSE @]

\* _lift_pasted_credential takes the first credential found (which that is depends
\* on their forms); an api_key that was given leaves the texts as they are.
Lifts(p) ==
  IF p.overrides.api_key # None \/ Found(p) = {} THEN {p}
  ELSE {[Strip(p, key) EXCEPT !.overrides = TakesKey(@, key)] : key \in Found(p)}

\* classify_input sees what the lifted credential has left.
Classified(p) == IF p.input.looks = "empty" /\ p.input.keys # {} THEN "docs_text" ELSE p.input.looks

\* Offline guesses are confirmed: a page that answers tools/list is a server, an
\* endpoint that does not is a page, and the parser says what a document is.
Kind(p, w) ==
  LET looks == Classified(p) IN
  IF looks \in {"mcp_endpoint", "mcp_config", "docs_url"} /\ w.mcp # "no" THEN "mcp_endpoint"
  ELSE IF looks \in {"mcp_endpoint", "mcp_config", "docs_url", "openapi_url"}
       THEN CASE w.content = "spec" -> "openapi_url"
              [] w.content = "page" -> "docs_url"
              [] OTHER -> "unreadable"
       ELSE looks

\* A credential that stays is long enough a description.
Enough(d) == d.words = "enough" \/ d.keys # {}

\* An answer that is not looked at.
DescribedByForm(p) == p.description

\* The description of the form, if there is one, or else the answer.
Described(p) == IF p.description # NoDescription THEN p.description ELSE p.overrides.description

\* The source's own description, for want of one.
Derived(p, w) ==
  w.describes /\ Kind(p, w) \in {"openapi_url", "openapi_text", "mcp_endpoint"}

\* Provider knowledge, then the spec, then discovery; the safe default; and
\* the operator's choice over all.
Inferred(p, w) ==
  LET kind == Kind(p, w) IN
  CASE kind = "mcp_endpoint" /\ w.preset -> "oauth_user"
    [] kind \in {"openapi_url", "openapi_text"} -> w.scheme
    [] kind = "mcp_endpoint" /\ ~w.discovered /\ w.mcp = "open" -> "none"
    [] OTHER -> "oauth_user"

Auth(p, w) == IF p.overrides.auth # None THEN p.overrides.auth ELSE Inferred(p, w)

\* The only app there is need not be chosen.
Engine(p, w) ==
  IF p.overrides.engine = None /\ Cardinality(w.engines) = 1
  THEN CHOOSE e \in w.engines : TRUE ELSE p.overrides.engine

\* An endpoint found in a text is all that is kept of the text.
Assemble(p, w) ==
  LET auth == Auth(p, w)
      kept == IF Classified(p) = "mcp_config" THEN {} ELSE p.input.keys IN
  [source |-> IF Kind(p, w) = "mcp_endpoint" THEN "mcp" ELSE "docs",
   keys |-> kept \union (IF Enough(Described(p)) THEN Described(p).keys ELSE {}),
   auth |-> auth,
   api_key |-> IF auth = "api_key" THEN p.overrides.api_key ELSE None,
   client |-> p.overrides.client,
   engine |-> Engine(p, w)]

\* What evaluate leaves for the operator: a provider with a preset mints no
\* clients, and other requirements have to be met elsewhere.
Left(r, w) ==
  (IF r.auth = "oauth_user" /\ r.source = "mcp" /\ w.preset /\ ~r.client THEN {"oauth_client"} ELSE {})
  \union (IF w.blocked THEN {"blocked"} ELSE {})
  \union (IF r.engine = None /\ w.engines # {} THEN {"engine"} ELSE {})

NoPlan == [request |-> {}, asks |-> {}, error |-> FALSE]

\* What is answered for a payload from which the credential is lifted.
PlanFor(p, w) ==
  IF Classified(p) = "empty" THEN NoPlan
  ELSE IF Kind(p, w) = "unreadable" THEN [NoPlan EXCEPT !.error = TRUE]
  ELSE IF ~Enough(Described(p)) /\ ~Derived(p, w) THEN [NoPlan EXCEPT !.asks = {"description"}]
  ELSE IF Auth(p, w) = "api_key" /\ p.overrides.api_key = None THEN [NoPlan EXCEPT !.error = TRUE]
  ELSE [request |-> {Assemble(p, w)}, asks |-> Left(Assemble(p, w), w), error |-> FALSE]

(***************************************************************************)
(* The dialogue                                                            *)
(***************************************************************************)

VARIABLES
  payload,     \* what is sent: the form and the answers so far
  answer,      \* the plan that came back, if one is shown
  round

dialogueVars == <<payload, answer, round>>

DialogueTypeOK ==
  /\ payload \in Payload
  /\ answer \subseteq Plan
  /\ round \in 0..Rounds

Blank ==
  [input |-> [looks |-> "empty", keys |-> {}], description |-> NoDescription,
   overrides |-> [api_key |-> None, auth |-> None, description |-> NoDescription,
                  client |-> FALSE, engine |-> None]]

DialogueInit == payload = Blank /\ answer = {} /\ round = 0

\* The form is filled in, or edited; what has been answered stays.
FillIn(form) ==
  /\ round < Rounds
  /\ payload' = [form EXCEPT !.overrides.description = payload.overrides.description,
                             !.overrides.client = payload.overrides.client,
                             !.overrides.engine = payload.overrides.engine]
  /\ answer' = {}
  /\ UNCHANGED round

Resolve(w) ==
  /\ answer = {} /\ round < Rounds
  /\ \E p \in Lifts(payload) : answer' = {PlanFor(p, w)}
  /\ round' = round + 1
  /\ UNCHANGED payload

\* The fields of the questions become overrides; a question without one, or
\* left alone, changes nothing.
Reply(plan, description, engine) ==
  /\ answer = {plan} /\ plan.asks # {} /\ round < Rounds
  /\ payload' =
       [payload EXCEPT
          !.overrides.description = IF "description" \in plan.asks THEN description ELSE @,
          !.overrides.client = @ \/ "oauth_client" \in plan.asks,
          !.overrides.engine = IF "engine" \in plan.asks THEN engine ELSE @]
  /\ answer' = {}
  /\ UNCHANGED round

DialogueNext ==
  \/ \E form \in Forms : FillIn(form)
  \/ \E w \in Worlds : Resolve(w)
  \/ \E plan \in answer, keys \in SUBSET Credentials, engine \in Engines :
       Cardinality(keys) <= 1 /\ Reply(plan, [words |-> "enough", keys |-> keys], engine)

DialogueSpec == DialogueInit /\ [][DialogueNext]_dialogueVars

(***************************************************************************)
(* Properties                                                              *)
(***************************************************************************)

\* A credential pasted into the form is in no text of the request, neither in
\* the docs nor in the description, whatever the input turns out to be.  Except
\* where it stays: if it is not the only one, if a key was given besides, or
\* if it was pasted into the answer about the description (_lift_pasted_credential).
CredentialLifted ==
  \A plan \in answer : \A r \in plan.request :
    r.keys # {} =>
      \/ payload.overrides.api_key # None
      \/ Cardinality(Found(payload)) > 1
      \/ r.keys \subseteq payload.overrides.description.keys

\* What has been answered is not asked again.  Except that a description too short stays in the
\* form and hides the answer: the question returns however often it is answered (_resolve).
AnswersConverge ==
  \A plan \in answer :
    /\ "description" \in plan.asks /\ Enough(payload.overrides.description) =>
         payload.description.words = "few"
    /\ "oauth_client" \in plan.asks => ~payload.overrides.client
    /\ "engine" \in plan.asks => payload.overrides.engine = None
=============================================================================
