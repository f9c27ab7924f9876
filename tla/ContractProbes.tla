--------------------------- MODULE ContractProbes ---------------------------
(***************************************************************************)
(* The two that ask the connector service what it takes without wanting a  *)
(* connector: the contract agent (contract_agent.py), whose model chooses  *)
(* what to probe, and the canary (canary.py), whose four checks run at     *)
(* once.  A probe is a body that ought to be refused; one that is not has  *)
(* made a collection.                                                      *)
(***************************************************************************)
EXTENDS ConnectorContract, Naturals, Sequences

CONSTANTS
  Shapes,         \* the bodies the model may think of
  MaxProbes,      \* the harness's budget
  MaxSteps        \* turns of the model

ASSUME ProbesAssumption ==
  /\ Shapes \subseteq Body
  /\ MaxProbes \in Nat /\ MaxSteps \in Nat

VARIABLES
  probing,     \* where investigate or run_canary is
  live,        \* the service's contract
  probes,      \* the harness's transcript
  steps,       \* turns taken
  finding,     \* the ContractFinding: what it says is verified, if anything
  check,       \* the canary's checks
  left,        \* the collections that probes have made and nobody deleted
  excused      \* history: those whose deletion failed, or whose probe was not answered

probesVars == <<probing, live, probes, steps, finding, check, left, excused>>

Checks == {"params_contract", "required_params", "oauth_group_contract", "action_params_contract"}

Outcome == [body : Body, outcome : {"rejected", "inconclusive", "shape_accepted", "created"}]

ProbesTypeOK ==
  /\ probing \in {"idle", "seeding", "seeded", "thinking", "calling", "found", "checking"}
  /\ live \in Contract
  /\ probes \in Seq(Outcome)
  /\ steps \in 0..MaxSteps
  /\ finding \subseteq Body
  /\ check \in [Checks -> {"idle", "created", "passed", "failed"}]
  /\ left \subseteq Body /\ excused \subseteq Body

ProbesInit ==
  /\ probing = "idle"
  /\ live = CHOOSE c \in Contracts : TRUE
  /\ probes = <<>> /\ steps = 0
  /\ finding = {}
  /\ check = [k \in Checks |-> "idle"]
  /\ left = {} /\ excused = {}

(***************************************************************************)
(* The harness                                                             *)
(***************************************************************************)

\* The setup token never leaves the harness, whoever asks for it.
Safe(b) == [b EXCEPT !.params = @ \ {"oauth_access_token"}]

Probed(b) == \E i \in DOMAIN probes : probes[i].body = b

\* A refusal for the token taken for an acceptance of everything else.
VerdictHopeful(m, b) ==
  IF m.kind = "missing" /\ "oauth_access_token" \in m.keys THEN "shape_accepted" ELSE "rejected"

\* A body refused for the missing token alone has passed every check before
\* that one; the default of auth_type is checked after it.
Verdict(m, b) ==
  IF ~(m.kind = "missing" /\ "oauth_access_token" \in m.keys) THEN "rejected"
  ELSE IF "auth_type" \notin b.action THEN "inconclusive" ELSE "shape_accepted"

\* A new probe within the budget; a repeated one is answered from the transcript.
ProbeShape(shape) ==
  LET b == Safe(shape) IN
  /\ ~Probed(b) /\ Len(probes) < MaxProbes
  /\ \/ \E m \in Complaints(live, b) \union {Other} :
          /\ probes' = Append(probes, [body |-> b, outcome |-> Verdict(m, b)])
          /\ UNCHANGED <<left, excused>>
     \/ /\ Complaints(live, b) = {}
        /\ probes' = Append(probes, [body |-> b, outcome |-> "created"])
        /\ \/ UNCHANGED <<left, excused>>
           \/ left' = left \union {b} /\ excused' = excused \union {b}
     \/ \* the transport fails: nothing is noted, whatever the service did
        /\ probes' = probes
        /\ \/ UNCHANGED <<left, excused>>
           \/ /\ Complaints(live, b) = {}
              /\ left' = left \union {b} /\ excused' = excused \union {b}

\* What the application sends today, without and with an OAuth client.
Baseline(auth) ==
  [params |-> {}, auth |-> auth,
   action |-> {"mcp_server_source", "instance_uri", "auth_type"} \union
              (IF auth = "OAUTH" THEN {"client_id", "client_secret", "auth_uri", "token_uri"} ELSE {})]

(***************************************************************************)
(* The contract agent                                                      *)
(***************************************************************************)

Investigate ==
  /\ probing = "idle"
  /\ live' \in Contracts
  /\ probing' = "seeding"
  /\ UNCHANGED <<probes, steps, finding, check, left, excused>>

\* A baseline is probed before the model is asked; a probe that fails is skipped.
SeedWith(auth, from, to) ==
  /\ probing = from
  /\ probing' = to
  /\ ProbeShape(Baseline(auth)) \/ UNCHANGED <<probes, left, excused>>
  /\ UNCHANGED <<live, steps, finding, check>>

Seed == SeedWith("NO_AUTH", "seeding", "seeded") \/ SeedWith("OAUTH", "seeded", "thinking")

Accepted(i) == i \in DOMAIN probes /\ probes[i].outcome = "shape_accepted"

\* The action params alone: what a probe had in params is not looked at.
Same(b, shape) == b.action = shape.action /\ ("auth_type" \in b.action => b.auth = shape.auth)

\* The gate: a shape is verified if a probe of just these action params was accepted.
Verified(shape) ==
  {b \in {shape} : \E i \in DOMAIN probes : Accepted(i) /\ Same(probes[i].body, b)}

\* A finding from the probes alone: the last shape that was accepted.
Fallback ==
  {probes[i].body : i \in {j \in DOMAIN probes :
     Accepted(j) /\ \A k \in DOMAIN probes : Accepted(k) => k <= j}}

\* A turn of the model: it has calls to make; or it fails, has none, or the
\* turns are over, and the probes alone are the finding.
Turn ==
  /\ probing = "thinking"
  /\ \/ /\ steps < MaxSteps
        /\ probing' = "calling" /\ steps' = steps + 1
        /\ UNCHANGED finding
     \/ /\ probing' = "found"
        /\ finding' = Fallback
        /\ UNCHANGED steps
  /\ UNCHANGED <<live, probes, check, left, excused>>

CallProbe ==
  /\ probing = "calling"
  /\ \E shape \in Shapes : ProbeShape(shape)
  /\ UNCHANGED <<probing, live, steps, finding, check>>

\* The model proposes a shape, and the gate decides what is verified of it.
CallPropose ==
  /\ probing = "calling"
  /\ \E shape \in Shapes : finding' = Verified(shape)
  /\ probing' = "found"
  /\ UNCHANGED <<live, probes, steps, check, left, excused>>

\* The calls of the turn are answered.
Answered ==
  /\ probing = "calling"
  /\ probing' = "thinking"
  /\ UNCHANGED <<live, probes, steps, finding, check, left, excused>>

(***************************************************************************)
(* The canary                                                              *)
(***************************************************************************)

\* What each check sends.
CheckBody(k) ==
  CASE k = "params_contract" -> [Baseline("NO_AUTH") EXCEPT !.params = {Sentinel}]
    [] k = "required_params" -> Baseline("NO_AUTH")
    [] k = "oauth_group_contract" -> Baseline("OAUTH")
    [] k = "action_params_contract" ->
         [Baseline("NO_AUTH") EXCEPT !.params = {"oauth_access_token"}, !.action = @ \union {Sentinel}]

\* A check of required_params that is content with any answer to no params.
PassesUnread(k, m) ==
  CASE k = "params_contract" -> m.kind = "stray" /\ SUPPORTED_PARAMS \subseteq m.allowed
    [] k = "action_params_contract" -> m.kind = "stray" /\ m.allowed = BASE_ACTION_PARAMS
    [] OTHER -> m.kind # "other"

\* Whether the answer to a check is the one the application relies on.
Passes(k, m) ==
  CASE k = "params_contract" -> m.kind = "stray" /\ SUPPORTED_PARAMS \subseteq m.allowed
    [] k = "required_params" -> m.kind = "missing" /\ m.keys \subseteq SUPPORTED_PARAMS
    [] k = "oauth_group_contract" -> m.kind = "missing"
    [] k = "action_params_contract" -> m.kind = "stray" /\ m.allowed = BASE_ACTION_PARAMS

Watch ==
  /\ probing = "idle"
  /\ live' \in Contracts
  /\ probing' = "checking"
  /\ UNCHANGED <<probes, steps, finding, check, left, excused>>

\* A check's probe is refused, and the refusal read; or is taken; or fails.
Ask(k) ==
  /\ probing = "checking" /\ check[k] = "idle"
  /\ LET b == CheckBody(k) IN
     \/ \E m \in Complaints(live, b) \union {Other} :
          /\ check' = [check EXCEPT ![k] = IF Passes(k, m) THEN "passed" ELSE "failed"]
          /\ UNCHANGED <<left, excused>>
     \/ /\ Complaints(live, b) = {}
        /\ check' = [check EXCEPT ![k] = "created"]
        /\ left' = left \union {b}
        /\ UNCHANGED excused
     \/ /\ check' = [check EXCEPT ![k] = "failed"]
        /\ \/ UNCHANGED <<left, excused>>
           \/ /\ Complaints(live, b) = {}
              /\ left' = left \union {b} /\ excused' = excused \union {b}
  /\ UNCHANGED <<probing, live, probes, steps, finding>>

\* The collection of a probe that was taken stays.
CleanupForgotten(k) ==
  /\ probing = "checking" /\ check[k] = "created"
  /\ check' = [check EXCEPT ![k] = "failed"]
  /\ UNCHANGED <<probing, live, probes, steps, finding, left, excused>>

\* The collection of a probe that was taken is deleted; a failure is logged.
Cleanup(k) ==
  /\ probing = "checking" /\ check[k] = "created"
  /\ check' = [check EXCEPT ![k] = "failed"]
  /\ \/ left' = left \ {CheckBody(k)} /\ UNCHANGED excused
     \/ excused' = excused \union {CheckBody(k)} /\ UNCHANGED left
  /\ UNCHANGED <<probing, live, probes, steps, finding>>

ProbesStep ==
  \/ Seed \/ Turn \/ CallProbe \/ CallPropose \/ Answered
  \/ \E k \in Checks : Ask(k) \/ Cleanup(k)

ProbesNext == Investigate \/ Watch \/ ProbesStep

ProbesSpec == ProbesInit /\ [][ProbesNext]_probesVars

(***************************************************************************)
(* Properties                                                              *)
(***************************************************************************)

\* The order of its checks on which the application relies (contract_knowledge.py).
AsKnown(c) == c.order = "action"

\* A finding is not an opinion: a connector with the action params it calls verified is taken by the
\* service as soon as the setup token and whatever else the service
\* demands is in params (_finalise, _fallback).  A service that looks at
\* params first is not covered: it complains of the token before it has
\* looked at the action params, and the verdict calls them accepted.
VerifiedIsAcceptable ==
  \A b \in finding :
    AsKnown(live) /\ Demanded(live, b) \subseteq live.permits =>
      Acceptable(live, [b EXCEPT !.params = Demanded(live, b)])

CanaryDone == \A k \in Checks : check[k] \in {"passed", "failed"}

CanaryOk == \A k \in Checks : check[k] = "passed"

\* The keys of a client that none of the canary's checks sends.
Unasked == OAUTH_ACTION_PARAMS \ Baseline("OAUTH").action

\* A canary that is content tells the truth of every connector that the application builds,
\* whatever a run holds of a client: it is taken as it is, but for the optional keys that no
\* check sends (scopes, auth_uri_params).  Of those that sign in it tells
\* nothing where the service looks at params first, demands more of params
\* with OAUTH, or wants a secret that the run's client has not: the check of
\* the group sends a secret, and is content with any complaint of a missing
\* param (check_oauth_group_contract).
QuietMeansAccepted ==
  CanaryOk =>
    \A held \in SUBSET OAUTH_ACTION_PARAMS :
      LET b == BuildConnector(held) IN
      \/ /\ ActionStrays(live, b) \subseteq Unasked
         /\ ParamsComplaints(live, b) = {} /\ DefaultComplaints(b) = {}
      \/ /\ b.auth = "OAUTH"
         /\ \/ ~AsKnown(live) \/ ~(live.oauthDemands \subseteq SUPPORTED_PARAMS)
            \/ "client_secret" \in live.need \ held

\* Neither leaves a collection behind, whatever the service takes, unless the
\* service did not delete it or the probe's answer was lost (_cleanup).
ProbesLeaveNothing ==
  probing = "found" \/ CanaryDone => left \subseteq excused
=============================================================================
