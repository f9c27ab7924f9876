------------------------ MODULE ConnectorNegotiation ------------------------
(***************************************************************************)
(* One connect stage against Discovery Engine (gcp/discovery_engine.py):   *)
(* the body is posted, amended as the complaint says and posted again; an  *)
(* accepted body is followed to the operation and to its data store.       *)
(*                                                                         *)
(* The service answers by a contract that the application does not know.   *)
(***************************************************************************)
EXTENDS ConnectorContract, Naturals

CONSTANTS
  Holdings,       \* what a run may hold of an OAuth client
  MaxAttempts,    \* MAX_PARAM_NEGOTIATION_ATTEMPTS
  PollLimit       \* how often something is polled before its deadline

ASSUME NegotiationAssumption ==
  /\ MaxAttempts \in Nat \ {0}
  /\ PollLimit \in Nat

\* What the run may put into params when the service asks for it.
Pool == {"oauth_access_token", "instance_uri"}

VARIABLES
  negotiation,   \* where set_up_mcp_connector is
  contract,      \* what the service takes
  asked,         \* the body that build_mcp_connector made
  body,          \* the body posted now, or last
  refused,       \* the bodies the service refused
  complaint,     \* what the last request failed with
  attempt,       \* the round
  datastore,     \* the connector's data store: none, pending, ready, failed
  polls          \* polls since the wait began

negotiationVars ==
  <<negotiation, contract, asked, body, refused, complaint, attempt, datastore, polls>>

Nothing == [params |-> {}, action |-> {}, auth |-> "NO_AUTH"]

NegotiationTypeOK ==
  /\ negotiation \in {"idle", "posting", "operation", "datastore", "connected", "failed"}
  /\ contract \in Contract
  /\ asked \in Body /\ body \in Body
  /\ refused \subseteq Body
  /\ complaint \in Complaint
  /\ attempt \in 0..MaxAttempts
  /\ datastore \in {"none", "pending", "ready", "failed"}
  /\ polls \in 0..PollLimit

NegotiationInit ==
  /\ negotiation = "idle"
  /\ contract = CHOOSE c \in Contracts : TRUE
  /\ asked = Nothing /\ body = Nothing
  /\ refused = {} /\ complaint = Other
  /\ attempt = 0 /\ polls = 0
  /\ datastore = "none"

Build(held) ==
  /\ negotiation = "idle"
  /\ contract' \in Contracts
  /\ asked' = BuildConnector(held)
  /\ body' = BuildConnector(held)
  /\ attempt' = 1
  /\ negotiation' = "posting"
  /\ UNCHANGED <<refused, complaint, datastore, polls>>

\* By the keys of params alone, which is all that the attempts are reported by.
FreshByParams(next) == {n \in next : \A r \in refused \union {body} : n.params # r.params}

\* What may be posted again: not what was refused before.
Fresh(next) == next \ (refused \union {body})

\* The service refuses: by its contract, or (a quota, a conflict) for no
\* reason that lies in the body.
Refuse ==
  /\ negotiation = "posting"
  /\ \E m \in Complaints(contract, body) \union {Other} :
       LET next == Amendments(m, body, Pool) IN
       /\ refused' = refused \union {body} /\ complaint' = m
       /\ \/ /\ attempt < MaxAttempts
             /\ body' \in Fresh(next)
             /\ attempt' = attempt + 1
             /\ UNCHANGED negotiation
          \/ /\ attempt = MaxAttempts \/ Fresh(next) = {}
             /\ negotiation' = "failed"
             /\ UNCHANGED <<body, attempt>>
  /\ UNCHANGED <<contract, asked, datastore, polls>>

\* The service takes the body; the answer names an operation or is the result.
Accept ==
  /\ negotiation = "posting"
  /\ Complaints(contract, body) = {}
  /\ negotiation' \in {"operation", "datastore"}
  /\ datastore' = "pending"
  /\ UNCHANGED <<contract, asked, body, refused, complaint, attempt, polls>>

\* The transport fails: no round of the negotiation, whatever the service did.
Break ==
  /\ negotiation = "posting"
  /\ negotiation' = "failed"
  /\ datastore' \in IF Complaints(contract, body) = {} THEN {"none", "pending"} ELSE {"none"}
  /\ complaint' = Other
  /\ UNCHANGED <<contract, asked, body, refused, attempt, polls>>

\* The operation is done, or cannot be retrieved (404), which is as good; or
\* it ended in an error, or is not done in time.
PollOperation ==
  /\ negotiation = "operation"
  /\ \/ /\ polls < PollLimit
        /\ \/ negotiation' = "datastore" /\ polls' = 0
           \/ negotiation' = "failed" /\ polls' = polls
           \/ negotiation' = negotiation /\ polls' = polls + 1
     \/ polls = PollLimit /\ negotiation' = "failed" /\ polls' = polls
  /\ UNCHANGED <<contract, asked, body, refused, complaint, attempt, datastore>>

\* wait_for_mcp_datastore: a missing connector is one that is not there yet.
PollDatastore ==
  /\ negotiation = "datastore"
  /\ \/ /\ polls < PollLimit
        /\ \/ datastore = "ready" /\ negotiation' = "connected" /\ polls' = polls
           \/ negotiation' = "failed" /\ polls' = polls
           \/ datastore = "pending" /\ negotiation' = negotiation /\ polls' = polls + 1
     \/ polls = PollLimit /\ negotiation' = "failed" /\ polls' = polls
  /\ UNCHANGED <<contract, asked, body, refused, complaint, attempt, datastore>>

\* The service works on the connector.
Materialise ==
  /\ datastore = "pending"
  /\ datastore' \in {"ready", "failed"}
  /\ UNCHANGED <<negotiation, contract, asked, body, refused, complaint, attempt, polls>>

SetUpStep == Refuse \/ Accept \/ Break \/ PollOperation \/ PollDatastore

NegotiationNext == (\E held \in Holdings : Build(held)) \/ SetUpStep \/ Materialise

NegotiationSpec == NegotiationInit /\ [][NegotiationNext]_negotiationVars

(***************************************************************************)
(* Properties                                                              *)
(***************************************************************************)

\* The keys of the body asked for that the contract takes.
Takes(c, b) ==
  c.base \union (IF b.auth = "OAUTH" THEN c.need \union c.optional ELSE {"auth_type"})

\* A connector that comes into being is the one asked for: it authenticates
\* the same way, with the whole OAuth group, and each key that was dropped on
\* the way is one the service does not take, however misleading its
\* complaints were (amend_connector_body).
AcceptedAsAsked ==
  negotiation \in {"operation", "datastore", "connected"} =>
    /\ Declares(body, asked.auth)
    /\ asked.auth = "OAUTH" => Whole(contract, body)
    /\ asked.action \intersect Takes(contract, asked) \subseteq body.action

\* What was asked for, without the action params that the service does not take, would be
\* taken with a choice of params that the run has.  Where the service refuses
\* a key of the pool as an action param, its complaint is taken for one
\* about params, so that this says nothing of it.
Meetable ==
  /\ Pool \intersect asked.action \subseteq contract.base
  /\ \E p \in SUBSET Pool :
       Acceptable(contract, [asked EXCEPT !.params = p, !.action = @ \intersect Takes(contract, asked)])

\* A negotiation that a complaint ends before the last round was hopeless: it has given up
\* because nothing that the run holds would have met the service, and not because the
\* amendments missed it, went in a circle, or were taken for a circle
\* (_post_negotiated, amend_connector_body).
GivesUpRightly ==
  negotiation = "failed" /\ datastore = "none" /\ complaint.kind # "other" /\ attempt < MaxAttempts =>
    ~Meetable
=============================================================================
