--------------------------- MODULE InvokerPolicy ---------------------------
(***************************************************************************)
(* Deploying to one Cloud Run service and letting callers in               *)
(* (deployer/cloud_run.py): the service is created or updated, and then    *)
(* members are added to its IAM policy by reading, changing and writing    *)
(* it.  Several deployments and the operator change the policy at a time.  *)
(***************************************************************************)
EXTENDS Naturals

CONSTANTS
  Deployments,    \* calls of deploy for this service
  Members,        \* what a policy may bind to roles/run.invoker
  Wanted,         \* the members a deployment lets in
  Edits           \* bound on the versions of the policy

ASSUME PolicyAssumption ==
  /\ Wanted \in [Deployments -> SUBSET Members]
  /\ Edits \in Nat

VARIABLES
  deploying,   \* where each deploy is
  exists,      \* the service is there
  members,     \* the policy of the service
  etag,        \* its version
  seen,        \* the members that a deployment has read
  tag          \* the etag that came with them, if any

policyVars == <<deploying, exists, members, etag, seen, tag>>

PolicyTypeOK ==
  /\ deploying \in [Deployments -> {"idle", "posting", "patching", "polling", "reading",
                                    "writing", "done", "failed"}]
  /\ exists \in BOOLEAN
  /\ members \subseteq Members
  /\ etag \in Nat
  /\ seen \in [Deployments -> SUBSET Members]
  /\ tag \in [Deployments -> SUBSET Nat]

PolicyInit ==
  /\ deploying = [d \in Deployments |-> "idle"]
  /\ exists = FALSE
  /\ members = {} /\ etag = 0
  /\ seen = [d \in Deployments |-> {}]
  /\ tag = [d \in Deployments |-> {}]

Goes(d, from, to) == deploying[d] = from /\ deploying' = [deploying EXCEPT ![d] = to]

\* Any other call that fails fails the deployment.
Raises(d) ==
  /\ \E from \in {"posting", "patching", "polling"} : Goes(d, from, "failed")
  /\ UNCHANGED <<exists, members, etag, seen, tag>>

Deploy(d) ==
  /\ Goes(d, "idle", "posting")
  /\ UNCHANGED <<exists, members, etag, seen, tag>>

\* A new service has an empty policy.
Post(d) ==
  /\ ~exists
  /\ Goes(d, "posting", "polling")
  /\ exists' = TRUE
  /\ members' = {} /\ etag' = etag + 1
  /\ UNCHANGED <<seen, tag>>

\* 409: the service is there and is updated; its policy stays.
PostConflict(d) ==
  /\ exists
  /\ Goes(d, "posting", "patching")
  /\ UNCHANGED <<exists, members, etag, seen, tag>>

Patch(d) ==
  /\ exists
  /\ Goes(d, "patching", "polling")
  /\ UNCHANGED <<exists, members, etag, seen, tag>>

\* The operation is done and the service has a URI; there may be nobody to let in.
Poll(d) ==
  /\ Goes(d, "polling", IF Wanted[d] = {} THEN "done" ELSE "reading")
  /\ UNCHANGED <<exists, members, etag, seen, tag>>

\* getIamPolicy answers; or it fails, for whatever reason, and the policy is
\* taken to be empty.  Members that are all in already need no write.
ReadPolicy(d) ==
  /\ \/ exists /\ seen' = [seen EXCEPT ![d] = members] /\ tag' = [tag EXCEPT ![d] = {etag}]
     \/ seen' = [seen EXCEPT ![d] = {}] /\ tag' = [tag EXCEPT ![d] = {}]
  /\ Goes(d, "reading", IF Wanted[d] \subseteq seen'[d] THEN "done" ELSE "writing")
  /\ UNCHANGED <<exists, members, etag>>

\* A policy that is written without its etag.
AppliesAlways(d) == exists

\* The service compares the etag, if one was sent.
Applies(d) == exists /\ tag[d] \subseteq {etag}

\* setIamPolicy replaces the policy, or is refused (a stale etag, an
\* organisation's policy); a refusal is logged and the deployment goes on.
WritePolicy(d) ==
  /\ Goes(d, "writing", "done")
  /\ \/ Applies(d) /\ members' = seen[d] \union Wanted[d] /\ etag' = etag + 1
     \/ UNCHANGED <<members, etag>>
  /\ UNCHANGED <<exists, seen, tag>>

\* The operator, another tool, or the application's own delete.
OperatorSets(set) ==
  /\ exists /\ etag < Edits
  /\ members' = set /\ etag' = etag + 1
  /\ UNCHANGED <<deploying, exists, seen, tag>>

Remove ==
  /\ exists /\ etag < Edits
  /\ exists' = FALSE
  /\ members' = {}
  /\ UNCHANGED <<deploying, etag, seen, tag>>

DeployStep ==
  \E d \in Deployments :
    \/ Raises(d) \/ Post(d) \/ PostConflict(d) \/ Patch(d)
    \/ Poll(d) \/ ReadPolicy(d) \/ WritePolicy(d)

PolicyNext ==
  \/ \E d \in Deployments : Deploy(d)
  \/ DeployStep
  \/ \E set \in SUBSET Members : OperatorSets(set)
  \/ Remove

PolicySpec == PolicyInit /\ [][PolicyNext]_policyVars

(***************************************************************************)
(* Properties                                                              *)
(***************************************************************************)

\* Who changes the policy in a deployment's name.
Writes(d) == deploying[d] = "writing" /\ deploying'[d] = "done"

\* A deployment lets its own members in and changes nothing else, whatever
\* others did to the policy since it was read: what they granted stays, what
\* they revoked is not granted again.  Unless the read failed: then the
\* policy is written over, which the code takes to be harmless (_grant_invoker).
GrantsKept ==
  [][\A d \in Deployments :
       Writes(d) /\ members' # members =>
         members' = members \union Wanted[d] \/ tag[d] = {}]_policyVars
=============================================================================
