--------------------------- MODULE ConnectorProofs ---------------------------
(***************************************************************************)
(* The negotiation of a connector and the probes, proved for every set of  *)
(* contracts the service may have, whatever a run holds of an OAuth client *)
(* and whatever the model probes, and for all budgets.                     *)
(***************************************************************************)
EXTENDS ConnectorNegotiation, ContractProbes, TLAPS

(***************************************************************************)
(* The service and the application                                         *)
(***************************************************************************)

\* A body without a complaint passes the checks of the action params.
LEMMA Uncomplained ==
  ASSUME NEW c \in Contract, NEW b \in Body, Complaints(c, b) = {}
  PROVE  ActionStrays(c, b) = {} /\ "auth_type" \in b.action
<1> DEFINE first  == IF c.order = "action" THEN ActionComplaints(c, b) ELSE ParamsComplaints(c, b)
           second == IF c.order = "action" THEN ParamsComplaints(c, b) ELSE ActionComplaints(c, b)
           said == IF first # {} THEN first ELSE IF second # {} THEN second ELSE DefaultComplaints(b)
<1>1. said = {}
  <2>1. Complaints(c, b) = IF c.legible \/ said = {} THEN said ELSE {Other}
    BY DEF Complaints
  <2> HIDE DEF said
  <2> QED
    BY <2>1
<1>2. first = {} /\ second = {} /\ DefaultComplaints(b) = {}
  BY <1>1
<1>3. ActionComplaints(c, b) = {}
  BY <1>2
<1>4. ActionStrays(c, b) = {}
  BY <1>3 DEF ActionComplaints
<1>5. "auth_type" \in b.action
  BY <1>2 DEF DefaultComplaints
<1> QED
  BY <1>4, <1>5

\* A complaint of a stray key names one that is stray in its map; nothing
\* else is one.
LEMMA StrayKeys ==
  ASSUME NEW c \in Contract, NEW b \in Body,
         NEW m \in Complaints(c, b) \union {Other}, m.kind = "stray"
  PROVE  \E k : m.keys = {k} /\ (k \in ActionStrays(c, b) \/ k \in b.params)
<1>1. \/ m \in ActionComplaints(c, b) \/ m \in ParamsComplaints(c, b)
      \/ m \in DefaultComplaints(b) \/ m = Other
  BY DEF Complaints
<1>2. CASE m \in ActionComplaints(c, b)
  BY <1>2 DEF ActionComplaints, Stray
<1>3. CASE m \in ParamsComplaints(c, b)
  BY <1>3 DEF ParamsComplaints, Stray, Missing
<1>4. CASE m \in DefaultComplaints(b)
  BY <1>4 DEF DefaultComplaints, Missing
<1>5. CASE m = Other
  BY <1>5 DEF Other
<1> QED
  BY <1>1, <1>2, <1>3, <1>4, <1>5

\* The bodies the application builds.
LEMMA BuiltBody ==
  ASSUME NEW held
  PROVE  BuildConnector(held) \in Body /\ "auth_type" \in BuildConnector(held).action
BY DEF BuildConnector, Body, Keys, SUPPORTED_ACTION_PARAMS, SUPPORTED_PARAMS, BASE_ACTION_PARAMS,
       OAUTH_ACTION_PARAMS, REQUIRED_OAUTH_ACTION_PARAMS

\* An amendment adds to params from the pool, or takes a key from one of the maps.
LEMMA AmendedBody ==
  ASSUME NEW b \in Body, NEW m, NEW pool \in SUBSET Keys, NEW next \in Amendments(m, b, pool)
  PROVE  /\ next \in Body
         /\ next.auth = b.auth
         /\ \/ next.action = b.action
            \/ /\ m.kind = "stray" /\ m.keys \intersect b.params = {}
               /\ next.action = b.action \ m.keys
<1>1. CASE /\ m.kind = "missing" /\ m.keys \subseteq pool
           /\ next = [b EXCEPT !.params = @ \union m.keys]
  BY <1>1 DEF Body
<1>2. CASE m.kind = "stray" /\ next = [b EXCEPT !.params = @ \ m.keys]
  BY <1>2 DEF Body
<1>3. CASE /\ m.kind = "stray" /\ m.keys \intersect b.params = {}
           /\ next = [b EXCEPT !.action = @ \ m.keys]
  BY <1>3 DEF Body
<1> QED
  BY <1>1, <1>2, <1>3 DEF Amendments

LEMMA PoolOfKeys == Pool \in SUBSET Keys
BY DEF Pool, Keys, SUPPORTED_ACTION_PARAMS, SUPPORTED_PARAMS, BASE_ACTION_PARAMS

\* What the service says is a complaint.
LEMMA SaidComplaint ==
  ASSUME NEW c \in Contract, NEW b \in Body, NEW m \in Complaints(c, b) \union {Other}
  PROVE  m \in Complaint
<1>1. ActionStrays(c, b) \subseteq Keys /\ Demanded(c, b) \subseteq Keys
  BY DEF ActionStrays, Demanded, Body, Contract
<1>2. c.base \subseteq Keys /\ c.permits \subseteq Keys /\ b.params \subseteq Keys /\ "client_id" \in Keys
  BY DEF Contract, Body, Keys, SUPPORTED_ACTION_PARAMS, OAUTH_ACTION_PARAMS, REQUIRED_OAUTH_ACTION_PARAMS
<1>3. /\ \A k, a \in SUBSET Keys : Stray(k, a) \in Complaint /\ Missing(k) \in Complaint
      /\ Other \in Complaint
  BY DEF Stray, Missing, Other, Complaint
<1>4. ActionComplaints(c, b) \subseteq Complaint
  BY <1>1, <1>2, <1>3 DEF ActionComplaints
<1>5. ParamsComplaints(c, b) \subseteq Complaint
  BY <1>1, <1>2, <1>3 DEF ParamsComplaints
<1>6. DefaultComplaints(b) \subseteq Complaint
  BY <1>2, <1>3 DEF DefaultComplaints
<1> QED
  BY <1>3, <1>4, <1>5, <1>6 DEF Complaints

(***************************************************************************)
(* The negotiation                                                         *)
(***************************************************************************)

\* What is posted is what was asked for without some of its action params; and
\* as long as the group is whole, none that the service takes is missing.
Kept ==
  /\ body.auth = asked.auth
  /\ asked.auth = "NO_AUTH" \/ Whole(contract, body) =>
       asked.action \intersect Takes(contract, asked) \subseteq body.action

\* As long as the service can be met, the amendments go one way: action params are
\* only taken away, none that it takes; of params what it does not take is
\* only taken away, and what it takes only added.
Onward(b, r) ==
  /\ b.action \subseteq r.action
  /\ r.params \intersect contract.permits \subseteq b.params
  /\ b.params \ contract.permits \subseteq r.params

Closing ==
  /\ body.action \subseteq asked.action /\ body.params \subseteq Pool
  /\ Meetable =>
       /\ asked.action \intersect Takes(contract, asked) \subseteq body.action
       /\ \A r \in refused : Onward(body, r)

\* A connector that is followed up has a data store coming, or more.
Posted == negotiation \in {"operation", "datastore", "connected"} => datastore # "none"

NegotiationInv ==
  /\ NegotiationTypeOK
  /\ contract \in Contracts
  /\ negotiation = "idle" => refused = {}
  /\ Kept
  /\ Closing
  /\ AcceptedAsAsked
  /\ Posted
  /\ GivesUpRightly

\* No complaint makes the application drop a key that the service takes of a
\* body with a whole group, or with none.
LEMMA KeptByAmendment ==
  ASSUME NEW c \in Contracts, NEW a \in Body, NEW b \in Body, b.auth = a.auth,
         a.auth = "NO_AUTH" \/ Whole(c, b) => a.action \intersect Takes(c, a) \subseteq b.action,
         NEW m \in Complaints(c, b) \union {Other}, NEW next \in Amendments(m, b, Pool)
  PROVE  /\ next \in Body /\ next.auth = a.auth
         /\ a.auth = "NO_AUTH" \/ Whole(c, next) =>
              a.action \intersect Takes(c, a) \subseteq next.action
<1>1. Pool \in SUBSET Keys
  BY PoolOfKeys
<1>2. next \in Body /\ next.auth = a.auth
  BY <1>1, AmendedBody
<1>3. CASE next.action = b.action
  BY <1>2, <1>3 DEF Whole, Declares
<1>4. CASE /\ m.kind = "stray" /\ m.keys \intersect b.params = {}
           /\ next.action = b.action \ m.keys
  <2>1. c \in Contract
    BY ContractsAssumption
  <2>2. PICK k : m.keys = {k} /\ k \in ActionStrays(c, b)
    BY <1>4, <2>1, StrayKeys
  <2> SUFFICES ASSUME a.auth = "NO_AUTH" \/ Whole(c, next)
               PROVE  k \notin Takes(c, a)
    BY <1>2, <1>4, <2>2 DEF Whole, Declares
  <2>3. CASE a.auth = "NO_AUTH"
    <3>1. k \in b.action /\ k \notin c.base
      BY <2>2 DEF ActionStrays
    <3>2. k # "auth_type"
      BY <2>2, <2>3, <3>1 DEF ActionStrays, Declares
    <3> QED
      BY <2>3, <3>1, <3>2 DEF Takes
  <2>4. CASE a.auth # "NO_AUTH" /\ Whole(c, next)
    <3>1. Whole(c, b)
      BY <1>2, <1>4, <2>4 DEF Whole, Declares
    <3>2. k \notin c.base /\ k \notin c.need /\ k \notin c.optional
      BY <2>2, <3>1 DEF ActionStrays
    <3>3. a.auth = "OAUTH"
      BY <2>4 DEF Body
    <3> QED
      BY <3>2, <3>3 DEF Takes
  <2> QED
    BY <2>3, <2>4
<1> QED
  BY <1>1, <1>2, <1>3, <1>4, AmendedBody

\* A body that the service takes is the one that was asked for.
LEMMA AcceptedBody ==
  ASSUME NegotiationInv, Complaints(contract, body) = {}
  PROVE  /\ Declares(body, asked.auth)
         /\ asked.auth = "OAUTH" => Whole(contract, body)
         /\ asked.action \intersect Takes(contract, asked) \subseteq body.action
<1>1. contract \in Contract /\ "auth_type" \notin contract.base
  BY ContractsAssumption DEF NegotiationInv
<1>2. ActionStrays(contract, body) = {} /\ "auth_type" \in body.action
  BY <1>1, Uncomplained DEF NegotiationInv, NegotiationTypeOK
<1>3. Declares(body, asked.auth)
  BY <1>2 DEF NegotiationInv, Kept, Declares
<1>4. ASSUME asked.auth = "OAUTH" PROVE Whole(contract, body)
  BY <1>1, <1>2, <1>3, <1>4 DEF ActionStrays, Declares
<1>5. asked.auth = "OAUTH" \/ asked.auth = "NO_AUTH"
  BY DEF NegotiationInv, NegotiationTypeOK, Body
<1> QED
  BY <1>3, <1>4, <1>5 DEF NegotiationInv, Kept

\* What a service that can be met takes: the whole group, and what it demands.
LEMMA WhatMeets ==
  ASSUME NegotiationInv, Meetable
  PROVE  /\ "auth_type" \in asked.action \intersect Takes(contract, asked)
         /\ asked.auth = "OAUTH" => contract.need \subseteq asked.action \intersect Takes(contract, asked)
         /\ \A b \in Body : b.auth = asked.auth /\ "auth_type" \in b.action =>
              Demanded(contract, b) \subseteq contract.permits \intersect Pool
<1> DEFINE taken == asked.action \intersect Takes(contract, asked)
<1>1. PICK p \in SUBSET Pool : Acceptable(contract, [asked EXCEPT !.params = p, !.action = @ \intersect Takes(contract, asked)])
  BY DEF Meetable
<1> DEFINE target == [asked EXCEPT !.params = p, !.action = @ \intersect Takes(contract, asked)]
<1>2. target.params = p /\ target.action = taken /\ target.auth = asked.auth
  BY DEF NegotiationInv, NegotiationTypeOK, Body
<1>3. /\ ActionStrays(contract, target) = {} /\ ParamsComplaints(contract, target) = {}
      /\ DefaultComplaints(target) = {}
  BY <1>1 DEF Acceptable
<1> HIDE DEF target, taken
<1>4. "auth_type" \in taken
  BY <1>2, <1>3 DEF DefaultComplaints
<1>5. "auth_type" \notin contract.base
  BY ContractsAssumption DEF NegotiationInv
<1>6. ASSUME asked.auth = "OAUTH" PROVE contract.need \subseteq taken
  BY <1>2, <1>3, <1>4, <1>5, <1>6 DEF ActionStrays, Whole, Declares
<1>7. p \subseteq contract.permits /\ Demanded(contract, target) \subseteq p
  BY <1>2, <1>3 DEF ParamsComplaints
<1>8. ASSUME NEW b \in Body, b.auth = asked.auth, "auth_type" \in b.action
      PROVE  Demanded(contract, b) \subseteq contract.permits \intersect Pool
  BY <1>2, <1>4, <1>7, <1>8 DEF Demanded, Declares
<1> QED
  BY <1>4, <1>6, <1>8 DEF taken

\* What a complaint is of.
LEMMA ComplainedOf ==
  ASSUME NEW c \in Contract, NEW b \in Body, NEW m \in Complaints(c, b), m.kind # "other",
         "auth_type" \in b.action
  PROVE  \/ \E k \in ActionStrays(c, b) : m = Stray({k}, c.base)
         \/ \E k \in b.params \ c.permits : m = Stray({k}, c.permits)
         \/ /\ m = Missing(Demanded(c, b) \ b.params)
            /\ ~(Demanded(c, b) \subseteq b.params)
<1>1. m \in ActionComplaints(c, b) \/ m \in ParamsComplaints(c, b) \/ m \in DefaultComplaints(b) \/ m = Other
  BY DEF Complaints
<1>2. m # Other
  BY DEF Other
<1> QED
  BY <1>1, <1>2 DEF ActionComplaints, ParamsComplaints, DefaultComplaints

\* Every complaint of a service that can be met can be met, with a body that goes
\* on, and so was not refused before.
LEMMA CanGoOn ==
  ASSUME NegotiationInv, Meetable, NEW m \in Complaints(contract, body), m.kind # "other"
  PROVE  /\ \A next \in Amendments(m, body, Pool) :
              /\ Onward(next, body)
              /\ asked.action \intersect Takes(contract, asked) \subseteq next.action
         /\ Fresh(Amendments(m, body, Pool)) # {}
<1>1. contract \in Contract /\ body \in Body /\ body.auth = asked.auth /\ asked.auth \in {"OAUTH", "NO_AUTH"}
  BY DEF NegotiationInv, NegotiationTypeOK, Kept, Body
<1>2. /\ "auth_type" \in body.action
      /\ asked.action \intersect Takes(contract, asked) \subseteq body.action
      /\ body.action \subseteq asked.action /\ body.params \subseteq Pool
      /\ \A r \in refused : Onward(body, r)
  BY WhatMeets DEF NegotiationInv, Closing
<1>3. Demanded(contract, body) \subseteq contract.permits \intersect Pool
  BY <1>1, <1>2, WhatMeets
<1>4. Pool \intersect asked.action \subseteq contract.base
  BY DEF Meetable
<1>5. ASSUME NEW next \in Body, Onward(next, body), next # body,
             \/ \E k \in body.action : k \notin next.action
             \/ \E k \in body.params \ contract.permits : k \notin next.params
             \/ \E k \in contract.permits \ body.params : k \in next.params
      PROVE  next \notin refused \union {body}
  BY <1>2, <1>5 DEF Onward
<1>6. CASE \E k \in ActionStrays(contract, body) : m = Stray({k}, contract.base)
  <2>1. PICK k \in ActionStrays(contract, body) : m = Stray({k}, contract.base)
    BY <1>6
  <2>2. m.kind = "stray" /\ m.keys = {k}
    BY <2>1 DEF Stray
  <2>3. k \in body.action /\ k \notin contract.base /\ k \notin body.params
    BY <1>2, <1>4, <2>1 DEF ActionStrays
  <2>4. k \notin Takes(contract, asked)
    <3>1. CASE asked.auth = "NO_AUTH"
      BY <1>1, <1>2, <2>1, <2>3, <3>1 DEF Takes, ActionStrays, Declares
    <3>2. CASE asked.auth = "OAUTH"
      <4>1. Whole(contract, body)
        BY <1>1, <1>2, <3>2, WhatMeets DEF Whole, Declares
      <4> QED
        BY <2>1, <2>3, <3>2, <4>1 DEF Takes, ActionStrays
    <3> QED
      BY <1>1, <3>1, <3>2
  <2> DEFINE next == [body EXCEPT !.action = @ \ m.keys]
  <2>5. Amendments(m, body, Pool) = {next}
    BY <2>2, <2>3 DEF Amendments
  <2>6. next \in Body /\ next.action = body.action \ {k} /\ next.params = body.params
    BY <1>1, <2>2 DEF Body
  <2> HIDE DEF next
  <2>7. Onward(next, body) /\ next # body
    BY <2>3, <2>6 DEF Onward
  <2>8. next \notin refused \union {body}
    BY <1>5, <2>3, <2>6, <2>7
  <2> QED
    BY <1>2, <2>4, <2>5, <2>6, <2>7, <2>8 DEF Fresh
<1>7. CASE \E k \in body.params \ contract.permits : m = Stray({k}, contract.permits)
  <2>1. PICK k \in body.params \ contract.permits : m = Stray({k}, contract.permits)
    BY <1>7
  <2>2. m.kind = "stray" /\ m.keys = {k}
    BY <2>1 DEF Stray
  <2> DEFINE next == [body EXCEPT !.params = @ \ m.keys]
  <2>3. Amendments(m, body, Pool) = {next}
    BY <2>1, <2>2 DEF Amendments
  <2>4. next \in Body /\ next.action = body.action /\ next.params = body.params \ {k}
    BY <1>1, <2>2 DEF Body
  <2> HIDE DEF next
  <2>5. Onward(next, body) /\ next # body
    BY <2>1, <2>4 DEF Onward
  <2>6. next \notin refused \union {body}
    BY <1>5, <2>1, <2>4, <2>5
  <2> QED
    BY <1>2, <2>3, <2>4, <2>5, <2>6 DEF Fresh
<1>8. CASE /\ m = Missing(Demanded(contract, body) \ body.params)
           /\ ~(Demanded(contract, body) \subseteq body.params)
  <2>1. m.kind = "missing" /\ m.keys = Demanded(contract, body) \ body.params
    BY <1>8 DEF Missing
  <2>2. PICK k \in Demanded(contract, body) : k \notin body.params
    BY <1>8
  <2> DEFINE next == [body EXCEPT !.params = @ \union m.keys]
  <2>3. Amendments(m, body, Pool) = {next}
    BY <1>3, <2>1 DEF Amendments
  <2>4. /\ next.action = body.action
        /\ next.params = body.params \union Demanded(contract, body)
    BY <1>1, <2>1 DEF Body
  <2>5. next \in Body
    BY <1>1, <2>1, <2>3, AmendedBody, PoolOfKeys
  <2> HIDE DEF next
  <2>6. Onward(next, body) /\ next # body
    BY <1>3, <2>2, <2>4 DEF Onward
  <2>7. next \notin refused \union {body}
    BY <1>3, <1>5, <2>2, <2>4, <2>5, <2>6
  <2> QED
    BY <1>2, <2>3, <2>4, <2>6, <2>7 DEF Fresh
<1> QED
  BY <1>1, <1>2, <1>6, <1>7, <1>8, ComplainedOf

LEMMA MeetableStays == UNCHANGED <<contract, asked>> => (Meetable' <=> Meetable)
BY DEF Meetable, Acceptable, ActionStrays, ParamsComplaints, DefaultComplaints, Demanded, Takes,
       Whole, Declares

\* Steps that leave the body alone and post nothing.
LEMMA NothingPosted ==
  ASSUME NegotiationInv, NegotiationTypeOK', UNCHANGED <<contract, asked, body, refused>>,
         negotiation' # "idle" \/ UNCHANGED negotiation,
         negotiation' \in {"operation", "datastore", "connected"} =>
           \/ negotiation \in {"operation", "datastore", "connected"}
           \/ negotiation = "posting" /\ Complaints(contract, body) = {},
         Posted' /\ GivesUpRightly'
  PROVE  NegotiationInv'
<1>1. Kept' /\ (negotiation' = "idle" => refused' = {})
  BY DEF NegotiationInv, Kept, Takes, Whole, Declares
<1>2. AcceptedAsAsked'
  BY AcceptedBody DEF NegotiationInv, AcceptedAsAsked, Takes, Whole, Declares
<1>3. Closing'
  BY MeetableStays DEF NegotiationInv, Closing, Onward, Takes
<1> QED
  BY <1>1, <1>2, <1>3 DEF NegotiationInv

\* Every step keeps the invariant.
LEMMA NegotiationStep == NegotiationInv /\ [NegotiationNext]_negotiationVars => NegotiationInv'
<1> SUFFICES ASSUME NegotiationInv, [NegotiationNext]_negotiationVars PROVE NegotiationInv'
  OBVIOUS
<1>1. ASSUME NEW held \in Holdings, Build(held) PROVE NegotiationInv'
  <2>1. contract' \in Contract /\ BuildConnector(held) \in Body
    BY <1>1, BuiltBody, ContractsAssumption DEF Build
  <2>2. NegotiationTypeOK'
    BY <1>1, <2>1, NegotiationAssumption DEF Build, NegotiationInv, NegotiationTypeOK
  <2>3. BuildConnector(held).params \subseteq Pool
    BY DEF BuildConnector, Pool
  <2>4. Closing'
    BY <1>1, <2>3 DEF Build, NegotiationInv, Closing
  <2> QED
    BY <1>1, <2>2, <2>4 DEF Build, NegotiationInv, Kept, AcceptedAsAsked, Posted, GivesUpRightly
<1>2. CASE Refuse
  <2>1. PICK m \in Complaints(contract, body) \union {Other} :
          /\ refused' = refused \union {body} /\ complaint' = m
          /\ \/ /\ attempt < MaxAttempts
                /\ body' \in Fresh(Amendments(m, body, Pool))
                /\ attempt' = attempt + 1
                /\ UNCHANGED negotiation
             \/ /\ attempt = MaxAttempts \/ Fresh(Amendments(m, body, Pool)) = {}
                /\ negotiation' = "failed"
                /\ UNCHANGED <<body, attempt>>
    BY <1>2 DEF Refuse
  <2>2. /\ negotiation = "posting"
        /\ UNCHANGED <<contract, asked, datastore, polls>>
    BY <1>2 DEF Refuse
  <2>3. m \in Complaint /\ (Other.kind = "other")
    BY SaidComplaint DEF NegotiationInv, NegotiationTypeOK, Other
  <2>4. Meetable' <=> Meetable
    BY <2>2, MeetableStays
  <2>5. m.kind # "other" => m \in Complaints(contract, body)
    BY <2>3
  <2>6. \A r \in refused' : r \in refused \/ r = body
    BY <2>1
  <2>7. CASE /\ attempt = MaxAttempts \/ Fresh(Amendments(m, body, Pool)) = {}
             /\ negotiation' = "failed" /\ UNCHANGED <<body, attempt>>
    <3>1. NegotiationTypeOK'
      BY <2>1, <2>2, <2>3, <2>7 DEF NegotiationInv, NegotiationTypeOK
    <3>2. Kept'
      BY <2>2, <2>7 DEF NegotiationInv, Kept, Takes, Whole, Declares
    <3>3. Closing'
      BY <2>2, <2>4, <2>6, <2>7 DEF NegotiationInv, Closing, Onward, Takes
    <3>4. GivesUpRightly'
      <4>1. attempt = MaxAttempts => ~(attempt' < MaxAttempts)
        BY <2>7, NegotiationAssumption
      <4>2. Meetable /\ m.kind # "other" => Fresh(Amendments(m, body, Pool)) # {}
        BY <2>5, CanGoOn
      <4> QED
        BY <2>1, <2>4, <2>7, <4>1, <4>2 DEF GivesUpRightly
    <3> QED
      BY <2>2, <2>7, <3>1, <3>2, <3>3, <3>4 DEF NegotiationInv, AcceptedAsAsked, Posted
  <2>8. CASE /\ attempt < MaxAttempts
             /\ body' \in Fresh(Amendments(m, body, Pool))
             /\ attempt' = attempt + 1
             /\ UNCHANGED negotiation
    <3>1. body' \in Amendments(m, body, Pool) /\ body \in Body
      BY <2>1, <2>8 DEF Fresh, NegotiationInv, NegotiationTypeOK
    <3>2. /\ body' \in Body /\ body'.auth = asked.auth
          /\ asked.auth = "NO_AUTH" \/ Whole(contract, body') =>
               asked.action \intersect Takes(contract, asked) \subseteq body'.action
      BY <3>1, KeptByAmendment DEF NegotiationInv, NegotiationTypeOK, Kept
    <3>3. NegotiationTypeOK'
      <4>1. attempt' \in 0..MaxAttempts
        BY <2>8, NegotiationAssumption DEF NegotiationInv, NegotiationTypeOK
      <4> QED
        BY <2>1, <2>2, <2>3, <2>8, <3>2, <4>1 DEF NegotiationInv, NegotiationTypeOK
    <3>4. Kept'
      BY <2>2, <3>2 DEF Kept, Whole, Declares, Takes
    <3>5. Closing'
      <4>1. body'.action \subseteq body.action /\ body'.params \subseteq body.params \union Pool
        BY <3>1 DEF Amendments, Body
      <4>2. body'.action \subseteq asked.action /\ body'.params \subseteq Pool
        BY <4>1 DEF NegotiationInv, Closing
      <4>3. m.kind # "other"
        BY <3>1 DEF Amendments
      <4>4. ASSUME Meetable
            PROVE  /\ Onward(body', body)
                   /\ asked.action \intersect Takes(contract, asked) \subseteq body'.action
        BY <2>5, <3>1, <4>3, <4>4, CanGoOn
      <4>5. ASSUME Meetable, NEW r \in refused' PROVE Onward(body', r)
        BY <2>6, <4>4, <4>5 DEF NegotiationInv, Closing, Onward
      <4>6. \A r \in refused' : Onward(body', r) => Onward(body, r)'
        BY <2>2 DEF Onward
      <4> QED
        BY <2>2, <2>4, <4>2, <4>4, <4>5, <4>6 DEF Closing, Takes
    <3> QED
      BY <2>2, <2>8, <3>3, <3>4, <3>5 DEF NegotiationInv, AcceptedAsAsked, Posted, GivesUpRightly
  <2> QED
    BY <2>1, <2>7, <2>8
<1>3. CASE Accept
  <2>1. NegotiationTypeOK'
    BY <1>3 DEF Accept, NegotiationInv, NegotiationTypeOK
  <2> QED
    BY <1>3, <2>1, NothingPosted DEF Accept, Posted, GivesUpRightly
<1>4. CASE Break
  <2>1. complaint' = Other /\ Other \in Complaint /\ Other.kind = "other"
    BY <1>4, SaidComplaint DEF Break, NegotiationInv, NegotiationTypeOK, Other
  <2>2. NegotiationTypeOK'
    BY <1>4, <2>1 DEF Break, NegotiationInv, NegotiationTypeOK
  <2>3. Posted' /\ GivesUpRightly'
    BY <1>4, <2>1 DEF Break, Posted, GivesUpRightly
  <2> QED
    BY <1>4, <2>2, <2>3, NothingPosted DEF Break
<1>5. CASE PollOperation
  <2>1. NegotiationTypeOK'
    BY <1>5, NegotiationAssumption DEF PollOperation, NegotiationInv, NegotiationTypeOK
  <2> QED
    BY <1>5, <2>1, NothingPosted DEF PollOperation, NegotiationInv, Posted, GivesUpRightly
<1>6. CASE PollDatastore
  <2>1. NegotiationTypeOK'
    BY <1>6, NegotiationAssumption DEF PollDatastore, NegotiationInv, NegotiationTypeOK
  <2> QED
    BY <1>6, <2>1, NothingPosted DEF PollDatastore, NegotiationInv, Posted, GivesUpRightly
<1>7. CASE Materialise
  <2>1. NegotiationTypeOK'
    BY <1>7 DEF Materialise, NegotiationInv, NegotiationTypeOK
  <2>2. Posted' /\ GivesUpRightly'
    BY <1>7 DEF Materialise, Posted, GivesUpRightly
  <2> QED
    BY <1>7, <2>1, <2>2, NothingPosted DEF Materialise, NegotiationInv
<1>8. CASE UNCHANGED negotiationVars
  <2>1. NegotiationTypeOK'
    BY <1>8 DEF negotiationVars, NegotiationInv, NegotiationTypeOK
  <2>2. Posted' /\ GivesUpRightly'
    BY <1>8, MeetableStays DEF negotiationVars, Posted, GivesUpRightly, NegotiationInv
  <2> QED
    BY <1>8, <2>1, <2>2, NothingPosted DEF negotiationVars, NegotiationInv
<1> QED
  BY <1>1, <1>2, <1>3, <1>4, <1>5, <1>6, <1>7, <1>8 DEF NegotiationNext, SetUpStep

\* The invariant of the negotiation (_post_negotiated, amend_connector_body).
THEOREM NegotiationInvariant == NegotiationSpec => []NegotiationInv
<1>1. NegotiationInit => NegotiationInv
  <2> SUFFICES ASSUME NegotiationInit PROVE NegotiationInv
    OBVIOUS
  <2>1. contract \in Contracts /\ contract \in Contract
    BY ContractsAssumption DEF NegotiationInit
  <2>2. Nothing \in Body
    BY DEF Nothing, Body
  <2>3. NegotiationTypeOK
    BY <2>1, <2>2, NegotiationAssumption DEF NegotiationInit, NegotiationTypeOK, Complaint, Other
  <2>4. Kept /\ Closing
    BY DEF NegotiationInit, Kept, Closing, Nothing
  <2> QED
    BY <2>1, <2>3, <2>4 DEF NegotiationInit, NegotiationInv, AcceptedAsAsked, Posted, GivesUpRightly
<1> QED
  BY <1>1, NegotiationStep, PTL DEF NegotiationSpec

\* A negotiation that a complaint ends before the last round was hopeless, whatever
\* contract the service has and in whatever order it complains.
THEOREM GivingUpIsRight == NegotiationSpec => []GivesUpRightly
<1>1. NegotiationInv => GivesUpRightly
  BY DEF NegotiationInv
<1> QED
  BY <1>1, NegotiationInvariant, PTL

\* A connector that comes into being authenticates as asked and keeps every key
\* the service takes.
THEOREM ConnectorsAreAsAsked == NegotiationSpec => []AcceptedAsAsked
<1>1. NegotiationInv => AcceptedAsAsked
  BY DEF NegotiationInv
<1> QED
  BY <1>1, NegotiationInvariant, PTL

(***************************************************************************)
(* The probes                                                              *)
(***************************************************************************)

\* Bodies whose action params the service takes, if it checks in the order the
\* application relies on, and that do not leave auth_type to its default.
Shown(c, b) == "auth_type" \in b.action /\ (AsKnown(c) => ActionStrays(c, b) = {})

\* The transcript, the finding and the checks rest on what the service answered.
Evidenced ==
  /\ \A i \in DOMAIN probes : probes[i].outcome = "shape_accepted" => Shown(live, probes[i].body)
  /\ \A b \in finding : Shown(live, b)
  /\ \A k \in Checks : check[k] = "passed" =>
       \E m \in Complaints(live, CheckBody(k)) : Passes(k, m)

\* What stands is excused, or is about to be deleted.
Accounted ==
  \A b \in left : b \in excused \/ \E k \in Checks : check[k] = "created" /\ b = CheckBody(k)

\* Only the canary has checks; before either starts there is nothing.
Apart ==
  /\ probing # "checking" => \A k \in Checks : check[k] = "idle"
  /\ probing = "idle" => probes = <<>> /\ finding = {}

ProbesInv == ProbesTypeOK /\ Evidenced /\ Accounted /\ Apart

\* With the documented order, a missing parameter is complained of only when
\* the action params have passed.
LEMMA MissingComesLater ==
  ASSUME NEW c \in Contract, NEW b \in Body, NEW m \in Complaints(c, b),
         m.kind = "missing", AsKnown(c)
  PROVE  /\ ActionStrays(c, b) = {}
         /\ "auth_type" \in b.action => m \in ParamsComplaints(c, b)
<1> DEFINE first == ActionComplaints(c, b)
           second == ParamsComplaints(c, b)
           said == IF first # {} THEN first ELSE IF second # {} THEN second ELSE DefaultComplaints(b)
<1>1. m \in said
  <2>1. Complaints(c, b) = IF c.legible \/ said = {} THEN said ELSE {Other}
    BY DEF Complaints, AsKnown
  <2> HIDE DEF said
  <2> QED
    BY <2>1 DEF Other
<1>2. m \notin first
  BY DEF ActionComplaints, Stray
<1>3. first = {} /\ (m \in second \/ m \in DefaultComplaints(b))
  BY <1>1, <1>2
<1>4. ActionStrays(c, b) = {}
  BY <1>3 DEF ActionComplaints
<1>5. "auth_type" \in b.action => DefaultComplaints(b) = {}
  BY DEF DefaultComplaints
<1> QED
  BY <1>3, <1>4, <1>5

\* What the agent and the canary send are bodies.
LEMMA ProbeBodies ==
  /\ \A auth \in {"OAUTH", "NO_AUTH"} : Baseline(auth) \in Body /\ "auth_type" \in Baseline(auth).action
  /\ \A k \in Checks : CheckBody(k) \in Body
  /\ \A shape \in Body : Safe(shape) \in Body
<1>1. \A auth \in {"OAUTH", "NO_AUTH"} : Baseline(auth) \in Body /\ "auth_type" \in Baseline(auth).action
  BY DEF Baseline, Body, Keys, SUPPORTED_ACTION_PARAMS, SUPPORTED_PARAMS, BASE_ACTION_PARAMS,
         OAUTH_ACTION_PARAMS, REQUIRED_OAUTH_ACTION_PARAMS
<1>2. {Sentinel, "oauth_access_token"} \subseteq Keys
  BY DEF Keys, SUPPORTED_PARAMS
<1>3. \A k \in Checks : CheckBody(k) \in Body
  <2>1. CheckBody("params_contract") \in Body
    BY <1>1, <1>2 DEF CheckBody, Body
  <2>2. CheckBody("required_params") \in Body /\ CheckBody("oauth_group_contract") \in Body
    BY <1>1 DEF CheckBody
  <2>3. CheckBody("action_params_contract") \in Body
    BY <1>1, <1>2 DEF CheckBody, Body
  <2> QED
    BY <2>1, <2>2, <2>3 DEF Checks
<1>4. \A shape \in Body : Safe(shape) \in Body
  BY DEF Safe, Body
<1> QED
  BY <1>1, <1>3, <1>4

\* A probe is noted with what it shows, and leaves nothing unexcused.
LEMMA ProbeKeeps ==
  ASSUME ProbesTypeOK, NEW shape \in Body, ProbeShape(shape)
  PROVE  /\ probes' \in Seq(Outcome) /\ left' \subseteq Body /\ excused' \subseteq Body
         /\ \A i \in DOMAIN probes' :
              probes'[i].outcome = "shape_accepted" =>
                \/ i \in DOMAIN probes /\ probes'[i] = probes[i]
                \/ Shown(live, probes'[i].body)
         /\ \A b \in left' : b \in left \/ b \in excused'
         /\ excused \subseteq excused'
<1> DEFINE b == Safe(shape)
<1>1. b \in Body
  BY ProbeBodies
<1> HIDE DEF b
<1>2. \A b2 \in left' : b2 \in left \/ b2 \in excused'
  BY DEF ProbeShape, b
<1>3. left' \subseteq Body /\ excused' \subseteq Body /\ excused \subseteq excused'
  BY <1>1 DEF ProbeShape, b, ProbesTypeOK
<1>4. CASE probes' = probes
  BY <1>2, <1>3, <1>4 DEF ProbesTypeOK
<1>5. ASSUME NEW o \in {"rejected", "inconclusive", "shape_accepted", "created"},
             probes' = Append(probes, [body |-> b, outcome |-> o]),
             o = "shape_accepted" => Shown(live, b)
      PROVE  /\ probes' \in Seq(Outcome)
             /\ \A i \in DOMAIN probes' :
                  probes'[i].outcome = "shape_accepted" =>
                    \/ i \in DOMAIN probes /\ probes'[i] = probes[i]
                    \/ Shown(live, probes'[i].body)
  <2>1. [body |-> b, outcome |-> o] \in Outcome
    BY <1>1 DEF Outcome
  <2> DEFINE new == [body |-> b, outcome |-> o]
  <2>2. new \in Outcome /\ (new.outcome = "shape_accepted" => Shown(live, new.body))
    BY <1>5, <2>1
  <2>3. probes' = Append(probes, new)
    BY <1>5
  <2> HIDE DEF new
  <2>4. probes' \in Seq(Outcome) /\ Len(probes') = Len(probes) + 1
    BY <2>2, <2>3 DEF ProbesTypeOK
  <2>5. \A i \in DOMAIN probes' :
          (i \in DOMAIN probes /\ probes'[i] = probes[i]) \/ probes'[i] = new
    BY <2>2, <2>3 DEF ProbesTypeOK
  <2> QED
    BY <2>2, <2>4, <2>5
<1>6. ASSUME NEW m \in Complaints(live, b) \union {Other},
             probes' = Append(probes, [body |-> b, outcome |-> Verdict(m, b)])
      PROVE  /\ Verdict(m, b) \in {"rejected", "inconclusive", "shape_accepted", "created"}
             /\ Verdict(m, b) = "shape_accepted" => Shown(live, b)
  <2>1. Verdict(m, b) \in {"rejected", "inconclusive", "shape_accepted", "created"}
    BY DEF Verdict
  <2>2. ASSUME Verdict(m, b) = "shape_accepted" PROVE Shown(live, b)
    <3>1. m.kind = "missing" /\ "auth_type" \in b.action
      BY <2>2 DEF Verdict
    <3>2. m \in Complaints(live, b)
      BY <3>1 DEF Other
    <3> QED
      BY <1>1, <3>1, <3>2, MissingComesLater DEF Shown, ProbesTypeOK
  <2> QED
    BY <2>1, <2>2
<1>7. \/ probes' = probes
      \/ probes' = Append(probes, [body |-> b, outcome |-> "created"])
      \/ \E m \in Complaints(live, b) \union {Other} :
           probes' = Append(probes, [body |-> b, outcome |-> Verdict(m, b)])
  BY DEF ProbeShape, b
<1>8. probes' \in Seq(Outcome)
  BY <1>4, <1>5, <1>6, <1>7
<1>9. \A i \in DOMAIN probes' :
        probes'[i].outcome = "shape_accepted" =>
          \/ i \in DOMAIN probes /\ probes'[i] = probes[i]
          \/ Shown(live, probes'[i].body)
  BY <1>4, <1>5, <1>6, <1>7
<1> QED
  BY <1>2, <1>3, <1>8, <1>9

\* Steps of the agent that probe, or do nothing, keep the invariant.
LEMMA AgentProbes ==
  ASSUME ProbesInv, probing # "checking", probing # "idle",
         UNCHANGED <<live, finding, check>>,
         steps' = steps,
         probing' \in {"seeded", "thinking", "calling", "found"},
         NEW shape \in Body, ProbeShape(shape) \/ UNCHANGED <<probes, left, excused>>
  PROVE  ProbesInv'
<1>1. CASE UNCHANGED <<probes, left, excused>>
  BY <1>1 DEF ProbesInv, ProbesTypeOK, Evidenced, Accounted, Apart, Shown
<1>2. CASE ProbeShape(shape)
  <2>1. /\ probes' \in Seq(Outcome) /\ left' \subseteq Body /\ excused' \subseteq Body
        /\ \A i \in DOMAIN probes' :
             probes'[i].outcome = "shape_accepted" =>
               \/ i \in DOMAIN probes /\ probes'[i] = probes[i]
               \/ Shown(live, probes'[i].body)
        /\ \A b \in left' : b \in left \/ b \in excused'
        /\ excused \subseteq excused'
    BY <1>2, ProbeKeeps DEF ProbesInv
  <2>2. ProbesTypeOK'
    BY <2>1 DEF ProbesInv, ProbesTypeOK
  <2>3. Evidenced'
    BY <2>1 DEF ProbesInv, Evidenced
  <2>4. Accounted' /\ Apart'
    BY <2>1 DEF ProbesInv, Accounted, Apart
  <2> QED
    BY <2>2, <2>3, <2>4 DEF ProbesInv
<1> QED
  BY <1>1, <1>2

\* What the gate and the probes alone let into a finding.
LEMMA FindingsShown ==
  ASSUME ProbesInv
  PROVE  /\ \A b \in Fallback : b \in Body /\ Shown(live, b)
         /\ \A shape \in Body : \A b \in Verified(shape) : b \in Body /\ Shown(live, b)
<1>1. ASSUME NEW i \in DOMAIN probes, Accepted(i)
      PROVE  probes[i].body \in Body /\ Shown(live, probes[i].body)
  <2>1. probes \in Seq(Outcome)
    BY DEF ProbesInv, ProbesTypeOK
  <2>2. probes[i] \in Outcome
    BY <2>1
  <2>3. probes[i].body \in Body
    BY <2>2 DEF Outcome
  <2> QED
    BY <1>1, <2>3 DEF ProbesInv, Evidenced, Accepted
<1>2. \A b \in Fallback : b \in Body /\ Shown(live, b)
  BY <1>1 DEF Fallback
<1>3. ASSUME NEW shape \in Body, NEW b \in Verified(shape) PROVE b \in Body /\ Shown(live, b)
  <2>1. b = shape /\ \E i \in DOMAIN probes : Accepted(i) /\ Same(probes[i].body, b)
    BY <1>3 DEF Verified
  <2>2. PICK i \in DOMAIN probes : Accepted(i) /\ Same(probes[i].body, b)
    BY <2>1
  <2>3. /\ Shown(live, probes[i].body)
        /\ b.action = probes[i].body.action
        /\ "auth_type" \in b.action => b.auth = probes[i].body.auth
    BY <1>1, <2>2 DEF Same
  <2>4. ActionStrays(live, b) = ActionStrays(live, probes[i].body)
    BY <2>3 DEF Shown, ActionStrays, Whole, Declares
  <2> QED
    BY <2>1, <2>3, <2>4 DEF Shown
<1> QED
  BY <1>2, <1>3

\* No check is content with an answer that says nothing of the contract.
LEMMA OtherFails == \A k \in Checks : ~Passes(k, Other)
<1>1. Other.kind = "other"
  BY DEF Other
<1> HIDE DEF Other
<1>2. ~Passes("params_contract", Other) /\ ~Passes("action_params_contract", Other)
  BY <1>1 DEF Passes
<1>3. ~Passes("required_params", Other) /\ ~Passes("oauth_group_contract", Other)
  BY <1>1 DEF Passes
<1> QED
  BY <1>2, <1>3 DEF Checks

\* Every step keeps the invariant.
LEMMA ProbesStepKeeps == ProbesInv /\ [ProbesNext]_probesVars => ProbesInv'
<1> SUFFICES ASSUME ProbesInv, [ProbesNext]_probesVars PROVE ProbesInv'
  OBVIOUS
<1>1. CASE Investigate \/ Watch
  <2>1. live' \in Contract
    BY <1>1, ContractsAssumption DEF Investigate, Watch
  <2>2. ProbesTypeOK'
    BY <1>1, <2>1 DEF Investigate, Watch, ProbesInv, ProbesTypeOK
  <2>3. probing = "idle" /\ probes = <<>> /\ finding = {} /\ \A k \in Checks : check[k] = "idle"
    BY <1>1 DEF Investigate, Watch, ProbesInv, Apart
  <2>4. /\ probing' \in {"seeding", "checking"}
        /\ UNCHANGED <<probes, steps, finding, check, left, excused>>
    BY <1>1 DEF Investigate, Watch
  <2>5. Evidenced' /\ Accounted' /\ Apart'
    <3>1. DOMAIN probes' = {}
      BY <2>3, <2>4
    <3> QED
      BY <2>3, <2>4, <3>1 DEF ProbesInv, Evidenced, Accounted, Apart
  <2> QED
    BY <2>2, <2>5 DEF ProbesInv
<1>2. CASE Seed
  <2>1. Baseline("NO_AUTH") \in Body /\ Baseline("OAUTH") \in Body
    BY ProbeBodies
  <2> QED
    BY <1>2, <2>1, AgentProbes DEF Seed, SeedWith
<1>3. CASE Turn
  <2>1. /\ probing = "thinking" /\ probing' \in {"calling", "found"}
        /\ UNCHANGED <<live, probes, check, left, excused>>
        /\ finding' = finding \/ finding' = Fallback
    BY <1>3 DEF Turn
  <2>2. finding' \subseteq Body /\ \A b \in finding' : Shown(live, b)
    BY <2>1, FindingsShown DEF ProbesInv, ProbesTypeOK, Evidenced
  <2>3. steps' \in 0..MaxSteps
    BY <1>3, ProbesAssumption DEF Turn, ProbesInv, ProbesTypeOK
  <2>4. ProbesTypeOK'
    BY <2>1, <2>2, <2>3 DEF ProbesInv, ProbesTypeOK
  <2> QED
    BY <2>1, <2>2, <2>4 DEF ProbesInv, Evidenced, Accounted, Apart
<1>4. CASE CallProbe
  BY <1>4, AgentProbes, ProbesAssumption DEF CallProbe
<1>5. CASE CallPropose
  <2>1. /\ probing = "calling" /\ probing' = "found"
        /\ UNCHANGED <<live, probes, steps, check, left, excused>>
        /\ \E shape \in Body : finding' = Verified(shape)
    BY <1>5, ProbesAssumption DEF CallPropose
  <2>2. finding' \subseteq Body /\ \A b \in finding' : Shown(live, b)
    BY <2>1, FindingsShown
  <2>3. ProbesTypeOK'
    BY <2>1, <2>2 DEF ProbesInv, ProbesTypeOK
  <2> QED
    BY <2>1, <2>2, <2>3 DEF ProbesInv, Evidenced, Accounted, Apart
<1>6. CASE Answered
  BY <1>6 DEF Answered, ProbesInv, ProbesTypeOK, Evidenced, Accounted, Apart, Shown
<1>7. ASSUME NEW k \in Checks, Ask(k) PROVE ProbesInv'
  <2> DEFINE b == CheckBody(k)
  <2>1. b \in Body
    BY ProbeBodies
  <2>2. /\ probing = "checking" /\ check[k] = "idle"
        /\ UNCHANGED <<probing, live, probes, steps, finding>>
    BY <1>7 DEF Ask
  <2>3. PICK s \in {"created", "passed", "failed"} :
          /\ check' = [check EXCEPT ![k] = s]
          /\ s = "passed" => \E m \in Complaints(live, b) : Passes(k, m)
          /\ left' \subseteq left \union {b} /\ excused \subseteq excused'
          /\ excused' \subseteq excused \union {b}
          /\ left' = left \/ s = "created" \/ b \in excused'
    <3>1. \A m \in Complaints(live, b) \union {Other} :
            Passes(k, m) => m \in Complaints(live, b)
      BY OtherFails
    <3> QED
      BY <1>7, <3>1 DEF Ask
  <2>4. ProbesTypeOK'
    BY <2>1, <2>2, <2>3 DEF ProbesInv, ProbesTypeOK
  <2>5. Evidenced'
    <3>1. \A j \in Checks : check'[j] = IF j = k THEN s ELSE check[j]
      BY <2>3 DEF ProbesInv, ProbesTypeOK
    <3> QED
      BY <2>2, <2>3, <3>1 DEF ProbesInv, Evidenced, Shown
  <2>6. Accounted'
    <3>1. \A j \in Checks : check'[j] = IF j = k THEN s ELSE check[j]
      BY <2>3 DEF ProbesInv, ProbesTypeOK
    <3> QED
      BY <2>2, <2>3, <3>1 DEF ProbesInv, Accounted
  <2>7. Apart'
    BY <2>2 DEF Apart, ProbesInv
  <2> QED
    BY <2>4, <2>5, <2>6, <2>7 DEF ProbesInv
<1>8. ASSUME NEW k \in Checks, Cleanup(k) PROVE ProbesInv'
  <2>1. /\ probing = "checking" /\ check' = [check EXCEPT ![k] = "failed"]
        /\ UNCHANGED <<probing, live, probes, steps, finding>>
        /\ \/ left' = left \ {CheckBody(k)} /\ UNCHANGED excused
           \/ excused' = excused \union {CheckBody(k)} /\ UNCHANGED left
    BY <1>8 DEF Cleanup
  <2>2. CheckBody(k) \in Body
    BY ProbeBodies
  <2>3. ProbesTypeOK'
    BY <2>1, <2>2 DEF ProbesInv, ProbesTypeOK
  <2>4. \A j \in Checks : check'[j] = IF j = k THEN "failed" ELSE check[j]
    BY <2>1 DEF ProbesInv, ProbesTypeOK
  <2>5. Evidenced'
    BY <2>1, <2>4 DEF ProbesInv, Evidenced, Shown
  <2>6. Accounted'
    BY <2>1, <2>4 DEF ProbesInv, Accounted
  <2> QED
    BY <2>1, <2>3, <2>5, <2>6 DEF ProbesInv, Apart
<1>9. CASE UNCHANGED probesVars
  BY <1>9 DEF probesVars, ProbesInv, ProbesTypeOK, Evidenced, Accounted, Apart, Shown
<1> QED
  BY <1>1, <1>2, <1>3, <1>4, <1>5, <1>6, <1>7, <1>8, <1>9 DEF ProbesNext, ProbesStep

\* The invariant of the agent and the canary (ProbeHarness, run_canary).
THEOREM ProbesInvariant == ProbesSpec => []ProbesInv
<1>1. ASSUME ProbesInit PROVE ProbesInv
  <2>1. live \in Contract
    BY <1>1, ContractsAssumption DEF ProbesInit
  <2>2. \A k \in Checks : check[k] = "idle"
    BY <1>1 DEF ProbesInit
  <2>3. ProbesTypeOK
    BY <1>1, <2>1, ProbesAssumption DEF ProbesInit, ProbesTypeOK
  <2>4. DOMAIN probes = {}
    BY <1>1 DEF ProbesInit
  <2> QED
    BY <1>1, <2>2, <2>3, <2>4 DEF ProbesInit, ProbesInv, Evidenced, Accounted, Apart
<1> QED
  BY <1>1, ProbesStepKeeps, PTL DEF ProbesSpec

\* Whatever a finding calls verified is taken by a service that checks in the
\* known order, whoever proposed it and whatever else was probed.
THEOREM FindingsHold == ProbesSpec => []VerifiedIsAcceptable
<1>1. ASSUME ProbesInv, NEW b \in finding, AsKnown(live), Demanded(live, b) \subseteq live.permits
      PROVE  Acceptable(live, [b EXCEPT !.params = Demanded(live, b)])
  <2> DEFINE d == [b EXCEPT !.params = Demanded(live, b)]
  <2>1. ActionStrays(live, b) = {} /\ "auth_type" \in b.action /\ b \in Body
    BY <1>1 DEF ProbesInv, Evidenced, Shown, ProbesTypeOK
  <2>2. d.action = b.action /\ d.auth = b.auth /\ d.params = Demanded(live, b)
    BY <2>1 DEF Body
  <2> HIDE DEF d
  <2>3. ActionStrays(live, d) = {}
    BY <2>1, <2>2 DEF ActionStrays, Whole, Declares
  <2>4. Demanded(live, d) = Demanded(live, b)
    BY <2>2 DEF Demanded, Declares
  <2>5. ParamsComplaints(live, d) = {}
    BY <1>1, <2>2, <2>4 DEF ParamsComplaints
  <2>6. DefaultComplaints(d) = {}
    BY <2>1, <2>2 DEF DefaultComplaints
  <2>7. Acceptable(live, d)
    BY <2>3, <2>5, <2>6 DEF Acceptable
  <2> QED
    BY <2>7 DEF d
<1>2. ProbesInv => VerifiedIsAcceptable
  BY <1>1 DEF VerifiedIsAcceptable
<1> QED
  BY <1>2, ProbesInvariant, PTL

\* No collection is left by a probe unless it was beyond the application's reach.
THEOREM NothingIsLeft == ProbesSpec => []ProbesLeaveNothing
<1>1. ProbesInv => ProbesLeaveNothing
  BY DEF ProbesInv, Accounted, Apart, ProbesLeaveNothing, CanaryDone
<1> QED
  BY <1>1, ProbesInvariant, PTL

\* What a bare baseline shows of the two maps, in the order the application relies on.
LEMMA AskedBare ==
  ASSUME NEW c \in Contract, AsKnown(c), NEW auth \in {"OAUTH", "NO_AUTH"},
         NEW m \in Complaints(c, Baseline(auth)), m.kind = "missing"
  PROVE  /\ ActionStrays(c, Baseline(auth)) = {}
         /\ m.keys = Demanded(c, Baseline(auth))
<1> DEFINE b == Baseline(auth)
<1>1. b \in Body /\ "auth_type" \in b.action /\ b.params = {}
  BY ProbeBodies DEF Baseline
<1> HIDE DEF b
<1>2. ActionStrays(c, b) = {} /\ m \in ParamsComplaints(c, b)
  BY <1>1, MissingComesLater DEF b
<1>3. m.keys = Demanded(c, b)
  BY <1>1, <1>2 DEF ParamsComplaints, Missing
<1> QED
  BY <1>2, <1>3 DEF b

\* A service that looks at params first answers by them, or has nothing to say of them.
LEMMA ParamsFirst ==
  ASSUME NEW c \in Contract, ~AsKnown(c), NEW b \in Body, "auth_type" \in b.action,
         NEW m \in Complaints(c, b), m.kind # "other"
  PROVE  \/ m \in ParamsComplaints(c, b)
         \/ ParamsComplaints(c, b) = {} /\ m \in ActionComplaints(c, b)
<1> DEFINE first == ParamsComplaints(c, b)
           second == ActionComplaints(c, b)
           said == IF first # {} THEN first ELSE IF second # {} THEN second ELSE DefaultComplaints(b)
<1>1. m \in said
  <2>1. Complaints(c, b) = IF c.legible \/ said = {} THEN said ELSE {Other}
    BY DEF Complaints, AsKnown
  <2> HIDE DEF said
  <2> QED
    BY <2>1 DEF Other
<1>2. DefaultComplaints(b) = {}
  BY DEF DefaultComplaints
<1> QED
  BY <1>1, <1>2

\* The check of params shows that the setup token is among what they take.
LEMMA TokenPermitted ==
  ASSUME NEW c \in Contract, AsKnown(c), ActionStrays(c, Baseline("NO_AUTH")) = {},
         NEW m \in Complaints(c, CheckBody("params_contract")), Passes("params_contract", m)
  PROVE  "oauth_access_token" \in c.permits
<1> DEFINE b == CheckBody("params_contract")
           first == ActionComplaints(c, b)
           second == ParamsComplaints(c, b)
           said == IF first # {} THEN first ELSE IF second # {} THEN second ELSE DefaultComplaints(b)
<1>1. m.kind = "stray" /\ SUPPORTED_PARAMS \subseteq m.allowed
  BY DEF Passes
<1>2. m \in said
  <2>1. Complaints(c, b) = IF c.legible \/ said = {} THEN said ELSE {Other}
    BY DEF Complaints, AsKnown
  <2> HIDE DEF said, b
  <2> QED
    BY <1>1, <2>1 DEF Other, b
<1>3. b.action = Baseline("NO_AUTH").action /\ b.auth = Baseline("NO_AUTH").auth
  BY DEF CheckBody, Baseline
<1> HIDE DEF b
<1>4. first = {}
  BY <1>3 DEF ActionComplaints, ActionStrays, Whole, Declares
<1>5. m \in ParamsComplaints(c, b)
  BY <1>1, <1>2, <1>4 DEF DefaultComplaints, Missing
<1>6. m.allowed = c.permits
  BY <1>1, <1>5 DEF ParamsComplaints, Missing, Stray
<1> QED
  BY <1>1, <1>6 DEF SUPPORTED_PARAMS

\* The answers to the checks, as far as a quiet canary has seen them.
Content(c) == \A k \in Checks : \E m \in Complaints(c, CheckBody(k)) : Passes(k, m)

\* A quiet canary has seen what a connector without a client needs, in either order.
LEMMA BareContract ==
  ASSUME NEW c \in Contract, Content(c)
  PROVE  /\ ActionStrays(c, Baseline("NO_AUTH")) = {}
         /\ c.demands \subseteq {"oauth_access_token"} /\ "oauth_access_token" \in c.permits
<1>1. PICK required \in Complaints(c, Baseline("NO_AUTH")) :
        required.kind = "missing" /\ required.keys \subseteq {"oauth_access_token"}
  <2>1. CheckBody("required_params") = Baseline("NO_AUTH")
    BY DEF CheckBody
  <2>2. \A m : Passes("required_params", m) =>
                m.kind = "missing" /\ m.keys \subseteq {"oauth_access_token"}
    BY DEF Passes, SUPPORTED_PARAMS
  <2> QED
    BY <2>1, <2>2 DEF Content, Checks
<1>2. PICK permitted \in Complaints(c, CheckBody("params_contract")) :
        Passes("params_contract", permitted)
  BY DEF Content, Checks
<1>3. PICK known \in Complaints(c, CheckBody("action_params_contract")) :
        known.kind = "stray" /\ known.allowed = BASE_ACTION_PARAMS
  <2>1. \A m : Passes("action_params_contract", m) =>
                m.kind = "stray" /\ m.allowed = BASE_ACTION_PARAMS
    BY DEF Passes
  <2> QED
    BY <2>1 DEF Content, Checks
<1>4. Demanded(c, Baseline("NO_AUTH")) = c.demands
  BY DEF Demanded, Declares, Baseline
<1>5. CASE AsKnown(c)
  BY <1>1, <1>2, <1>4, <1>5, AskedBare, TokenPermitted
<1>6. CASE ~AsKnown(c)
  <2> DEFINE bare == Baseline("NO_AUTH")
             strange == CheckBody("params_contract")
             extra == CheckBody("action_params_contract")
  <2>1. /\ bare \in Body /\ "auth_type" \in bare.action /\ bare.params = {} /\ bare.auth = "NO_AUTH"
        /\ bare.action = {"mcp_server_source", "instance_uri", "auth_type"}
    BY ProbeBodies DEF Baseline
  <2>2. /\ strange \in Body /\ "auth_type" \in strange.action /\ strange.params = {Sentinel}
        /\ strange.auth = "NO_AUTH"
    BY ProbeBodies DEF CheckBody, Baseline, Checks
  <2>3. /\ extra \in Body /\ "auth_type" \in extra.action /\ extra.params = {"oauth_access_token"}
        /\ extra.auth = "NO_AUTH"
    BY ProbeBodies DEF CheckBody, Baseline, Checks
  <2>4. /\ required \in Complaints(c, bare) /\ permitted \in Complaints(c, strange)
        /\ known \in Complaints(c, extra)
    OBVIOUS
  <2>5. permitted.kind = "stray" /\ "oauth_access_token" \in permitted.allowed
    BY <1>2 DEF Passes, SUPPORTED_PARAMS
  <2> HIDE DEF bare, strange, extra
  <2>6. required \in ParamsComplaints(c, bare)
    <3>1. required \notin ActionComplaints(c, bare)
      BY <1>1 DEF ActionComplaints, Stray
    <3> QED
      BY <1>1, <1>6, <2>1, <2>4, <3>1, ParamsFirst
  <2>7. c.demands = {"oauth_access_token"}
    <3>1. Demanded(c, bare) = c.demands /\ Demanded(c, bare) # {}
      BY <2>1, <2>6 DEF ParamsComplaints, Demanded, Declares
    <3>2. required.keys = Demanded(c, bare)
      BY <2>1, <2>6 DEF ParamsComplaints, Missing
    <3> QED
      BY <1>1, <3>1, <3>2
  <2>8. "oauth_access_token" \in c.permits
    <3>1. Demanded(c, strange) = c.demands
      BY <2>2 DEF Demanded, Declares
    <3>2. "oauth_access_token" # Sentinel
      BY DEF Sentinel
    <3>3. ParamsComplaints(c, strange) # {}
      <4>1. CASE Sentinel \in c.permits
        <5>1. strange.params \subseteq c.permits /\ ~(Demanded(c, strange) \subseteq strange.params)
          BY <2>2, <2>7, <3>1, <3>2, <4>1
        <5>2. ParamsComplaints(c, strange) = {Missing(Demanded(c, strange) \ strange.params)}
          BY <5>1 DEF ParamsComplaints
        <5> QED
          BY <5>2
      <4>2. CASE Sentinel \notin c.permits
        <5>1. ~(strange.params \subseteq c.permits) /\ Sentinel \in strange.params \ c.permits
          BY <2>2, <4>2
        <5>2. Stray({Sentinel}, c.permits) \in ParamsComplaints(c, strange)
          BY <5>1 DEF ParamsComplaints
        <5> QED
          BY <5>2
      <4> QED
        BY <4>1, <4>2
    <3>4. permitted \in ParamsComplaints(c, strange)
      BY <1>6, <2>2, <2>4, <2>5, <3>3, ParamsFirst
    <3>5. permitted.allowed = c.permits
      BY <2>5, <3>4 DEF ParamsComplaints, Missing, Stray
    <3> QED
      BY <2>5, <3>5
  <2>9. c.base = BASE_ACTION_PARAMS
    <3>1. Demanded(c, extra) = c.demands
      BY <2>3 DEF Demanded, Declares
    <3>2. ParamsComplaints(c, extra) = {}
      BY <2>3, <2>7, <2>8, <3>1 DEF ParamsComplaints
    <3>3. known \in ActionComplaints(c, extra)
      BY <1>3, <1>6, <2>3, <2>4, <3>2, ParamsFirst
    <3>4. known.allowed = c.base
      BY <3>3 DEF ActionComplaints, Stray
    <3> QED
      BY <1>3, <3>4
  <2>10. ActionStrays(c, bare) = {}
    BY <2>1, <2>9 DEF ActionStrays, Declares, BASE_ACTION_PARAMS
  <2> QED
    BY <2>7, <2>8, <2>10 DEF bare
<1> QED
  BY <1>5, <1>6

\* A canary that is content tells the truth of every connector that the application builds.
THEOREM CanariesTell == ProbesSpec => []QuietMeansAccepted
<1>1. ASSUME ProbesInv, CanaryOk, NEW held \in SUBSET OAUTH_ACTION_PARAMS,
             BuildConnector(held).auth = "OAUTH" =>
               /\ AsKnown(live) /\ live.oauthDemands \subseteq SUPPORTED_PARAMS
               /\ "client_secret" \notin live.need \ held
      PROVE  LET b == BuildConnector(held) IN
             /\ ActionStrays(live, b) \subseteq Unasked
             /\ ParamsComplaints(live, b) = {} /\ DefaultComplaints(b) = {}
  <2> DEFINE b == BuildConnector(held)
  <2>1. live \in Contract
    BY <1>1 DEF ProbesInv, ProbesTypeOK
  <2>2. Content(live)
    BY <1>1 DEF ProbesInv, Evidenced, CanaryOk, Content
  <2>3. /\ ActionStrays(live, Baseline("NO_AUTH")) = {}
        /\ live.demands \subseteq {"oauth_access_token"} /\ "oauth_access_token" \in live.permits
    BY <2>1, <2>2, BareContract
  <2>4. b.params = {"oauth_access_token"} /\ "auth_type" \in b.action
    BY DEF BuildConnector
  <2>5. DefaultComplaints(b) = {}
    BY <2>4 DEF DefaultComplaints
  <2>6. CASE ~({"client_id", "auth_uri", "token_uri"} \subseteq held)
    <3>1. b.auth = "NO_AUTH" /\ b.action = {"mcp_server_source", "instance_uri", "auth_type"}
      BY <2>6 DEF BuildConnector
    <3> HIDE DEF b
    <3>2. /\ Baseline("NO_AUTH").auth = b.auth
          /\ Baseline("NO_AUTH").action = b.action
      BY <3>1 DEF Baseline
    <3>3. ActionStrays(live, b) = {}
      BY <2>3, <3>2 DEF ActionStrays, Whole, Declares
    <3>4. ParamsComplaints(live, b) = {}
      BY <2>3, <2>4, <3>1 DEF ParamsComplaints, Demanded, Declares
    <3> QED
      BY <2>5, <3>3, <3>4 DEF b
  <2>7. CASE {"client_id", "auth_uri", "token_uri"} \subseteq held
    <3>1. /\ b.auth = "OAUTH"
          /\ b.action = {"mcp_server_source", "instance_uri", "auth_type"} \union held
      BY <2>7 DEF BuildConnector
    <3>2. PICK group \in Complaints(live, Baseline("OAUTH")) : group.kind = "missing"
      <4>1. CheckBody("oauth_group_contract") = Baseline("OAUTH")
        BY DEF CheckBody
      <4>2. \A m : Passes("oauth_group_contract", m) => m.kind = "missing"
        BY DEF Passes
      <4> QED
        BY <2>2, <4>1, <4>2 DEF Content, Checks
    <3> DEFINE g == Baseline("OAUTH")
    <3>3. /\ g.auth = "OAUTH"
          /\ g.action = {"mcp_server_source", "instance_uri", "auth_type", "client_id",
                         "client_secret", "auth_uri", "token_uri"}
      BY DEF Baseline
    <3>4. AsKnown(live) /\ live.oauthDemands \subseteq {"oauth_access_token"}
          /\ ("client_secret" \in live.need => "client_secret" \in held)
      BY <1>1, <3>1 DEF SUPPORTED_PARAMS
    <3>5. ActionStrays(live, g) = {}
      BY <2>1, <3>2, <3>4, AskedBare
    <3>6. Unasked = OAUTH_ACTION_PARAMS \ g.action
      BY DEF Unasked
    <3> HIDE DEF b, g
    <3>7. Whole(live, g) => Whole(live, b)
      BY <2>4, <2>7, <3>1, <3>3, <3>4 DEF Whole, Declares
    <3>8. \A k \in b.action : k \in g.action \/ k \in Unasked
      BY <3>1, <3>3, <3>6
    <3>9. ActionStrays(live, b) \subseteq Unasked
      <4>1. CASE Whole(live, g)
        BY <3>3, <3>5, <3>7, <3>8, <4>1 DEF ActionStrays, Declares
      <4>2. CASE ~Whole(live, g)
        BY <3>3, <3>5, <3>8, <4>2 DEF ActionStrays, Declares
      <4> QED
        BY <4>1, <4>2
    <3>10. ParamsComplaints(live, b) = {}
      <4>1. Demanded(live, b) \subseteq {"oauth_access_token"}
        BY <2>3, <3>4 DEF Demanded
      <4> QED
        BY <2>3, <2>4, <4>1 DEF ParamsComplaints
    <3> QED
      BY <2>5, <3>9, <3>10 DEF b
  <2> QED
    BY <2>6, <2>7
<1>2. ASSUME NEW held PROVE BuildConnector(held).auth \in {"OAUTH", "NO_AUTH"}
  BY DEF BuildConnector
<1>3. ProbesInv => QuietMeansAccepted
  BY <1>1, <1>2 DEF QuietMeansAccepted
<1> QED
  BY <1>3, ProbesInvariant, PTL
=============================================================================
