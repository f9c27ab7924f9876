--------------------------- MODULE PipelineProofs ---------------------------
(***************************************************************************)
(* Proofs about Pipeline, for all requests, overrides and bounds.          *)
(***************************************************************************)
EXTENDS Pipeline, TLAPS

\* Rehydration yields a request again: redaction and merge keep each field in
\* its range (rehydrate_request).
LEMMA RehydrateType ==
  ASSUME NEW r \in Request, NEW o \in Request
  PROVE  Rehydrate(r, o) \in Request /\ Redacted(r) \in Request
<1>1. Redacted(r) \in Request
  <2>1. \A c \in {None, "partial", "full"} :
          [r EXCEPT !.client = c, !.apiKey = None] \in Request
    BY DEF Request
  <2>2. (IF r.client = "full" THEN "partial" ELSE r.client) \in {None, "partial", "full"}
    BY DEF Request
  <2> QED BY <2>1, <2>2 DEF Redacted
<1>2. \A b \in Request : DeepMerge(b, o) \in Request
  BY DEF DeepMerge, Over, Request
<1> QED BY <1>1, <1>2 DEF Rehydrate

\* A record stays a record when a stage is completed and when a run settles.
LEMMA RecordUpdates ==
  ASSUME NEW r \in Record, NEW s \in Stages
  PROVE  /\ WithStage(r, s) \in Record
         /\ \A e \in Errors : \A st \in States : \A f \in Stages \union {None} :
              [r EXCEPT !.state = st, !.failedStage = f, !.error = e] \in Record
         /\ \A st \in States : [r EXCEPT !.state = st] \in Record
         /\ Crashed(r) \in Record
         /\ Outcome(r) \in States \ {"ABSENT"}
<1>1. WithStage(r, s) \in Record
  BY DEF WithStage, Record
<1>2. Outcome(r) \in States \ {"ABSENT"}
  BY DEF Outcome, States
<1>3. \A e \in Errors : \A st \in States : \A f \in Stages \union {None} :
        [r EXCEPT !.state = st, !.failedStage = f, !.error = e] \in Record
  BY DEF Record
<1>4. \A st \in States : [r EXCEPT !.state = st] \in Record
  BY DEF Record
<1>5. Crashed(r) \in Record
  BY <1>2 DEF Crashed, Record, Errors
<1> QED BY <1>1, <1>2, <1>3, <1>4, <1>5

LEMMA CompleteType ==
  ASSUME TypeOK, NEW p \in Record, NEW k \in Record, NEW s \in Stages, NEW next \in Points,
         Complete(p, k, s, next)
  PROVE  mem' \in Record /\ db' \in Record /\ pc' \in Points /\ faults' \in Nat
<1>1. WithStage(p, s) \in Record /\ WithStage(k, s) \in Record
  BY RecordUpdates
<1>2. [WithStage(k, s) EXCEPT !.state = "STOPPED"] \in Record
  BY <1>1, RecordUpdates DEF States
<1>3. db' \in Record /\ faults' \in Nat
  BY <1>1 DEF Complete, Emit, TypeOK
<1>4. mem' \in Record /\ pc' \in Points
  BY <1>1, <1>2 DEF Complete, Points
<1> QED BY <1>3, <1>4

LEMMA FailType ==
  ASSUME NEW r \in Record, NEW s \in Stages, NEW e \in Errors, Fail(r, s, e)
  PROVE  mem' \in Record /\ pc' \in Points
<1>1. Outcome(r) \in States
  BY RecordUpdates
<1>2. [r EXCEPT !.state = Outcome(r), !.failedStage = s, !.error = e] \in Record
  BY <1>1, RecordUpdates
<1> QED BY <1>2 DEF Fail, Points

LEMMA AbortType ==
  ASSUME TypeOK, NEW r \in Record, NEW s \in Stages, NEW e \in Errors, Abort(r, s, e)
  PROVE  mem' \in Record /\ db' \in Record /\ pc' \in Points /\ faults' \in Nat
BY FailType DEF Abort, TypeOK

\* What one call of a stage does to the cloud leaves it a cloud.
LEMMA CloudUpdates ==
  ASSUME NEW c \in Cloud, NEW n \in Nat, NEW h \in Clients, NEW e \in Endpoints
  PROVE  /\ [c EXCEPT !.keySecret = TRUE] \in Cloud
         /\ \A k \in AuthKinds \union {None} : [c EXCEPT !.service = k] \in Cloud
         /\ \A k \in BOOLEAN : [c EXCEPT !.upstream = @ \/ k] \in Cloud
         /\ [c EXCEPT !.downstream = n] \in Cloud
         /\ [c EXCEPT !.client = n] \in Cloud
         /\ [c EXCEPT !.registry = e] \in Cloud
         /\ [c EXCEPT !.authzClient = h, !.authzSecret = n] \in Cloud
         /\ \A i \in Nat :
              [c EXCEPT !.collections = @ \union {i}, !.connClient = h,
                        !.connSecret = n, !.connEndpoint = e] \in Cloud
         /\ [c EXCEPT !.attached = @ \union {n}] \in Cloud
<1>1. [c EXCEPT !.keySecret = TRUE] \in Cloud
  BY DEF Cloud
<1>2. \A k \in AuthKinds \union {None} : [c EXCEPT !.service = k] \in Cloud
  BY DEF Cloud
<1>3. \A k \in BOOLEAN : [c EXCEPT !.upstream = @ \/ k] \in Cloud
  <2>1. \A k \in BOOLEAN : [c EXCEPT !.upstream = k] \in Cloud
    BY DEF Cloud
  <2>2. \A k \in BOOLEAN : (c.upstream \/ k) \in BOOLEAN
    OBVIOUS
  <2> QED BY <2>1, <2>2
<1>4. [c EXCEPT !.downstream = n] \in Cloud
  BY DEF Cloud
<1>5. [c EXCEPT !.client = n] \in Cloud
  BY DEF Cloud
<1>6. [c EXCEPT !.registry = e] \in Cloud
  BY DEF Cloud
<1>7. [c EXCEPT !.authzClient = h, !.authzSecret = n] \in Cloud
  BY DEF Cloud
<1>8. \A i \in Nat : [c EXCEPT !.collections = @ \union {i}, !.connClient = h,
                              !.connSecret = n, !.connEndpoint = e] \in Cloud
  BY DEF Cloud
<1>9. [c EXCEPT !.attached = @ \union {n}] \in Cloud
  BY DEF Cloud
<1> QED BY <1>1, <1>2, <1>3, <1>4, <1>5, <1>6, <1>7, <1>8, <1>9

\* A deletion takes fields back to what they were before the run.
LEMMA WithoutType ==
  ASSUME NEW c \in Cloud, NEW gone, NEW r \in Record
  PROVE  Without(c, gone, r) \in Cloud
<1>1. None \in Clients /\ None \in Endpoints
  BY DEF Clients, Endpoints
<1> QED BY <1>1 DEF Without, Cloud

\* The endpoint a record derives is one of those there are.
LEMMA EndpointType ==
  ASSUME NEW r \in Record
  PROVE  McpEndpoint(r) \in Endpoints
BY DEF McpEndpoint, Record, Request, Endpoints

LEMMA EmptyIs ==
  EmptyCloud = [service |-> None, keySecret |-> FALSE, registered |-> 0, upstream |-> FALSE,
                downstream |-> 0, client |-> 0, registry |-> None, authzClient |-> None,
                authzSecret |-> 0, collections |-> {}, connClient |-> None, connSecret |-> 0,
                connEndpoint |-> None, attached |-> {}]
BY DEF EmptyCloud, OnlyRegistered

\* A run starts from a typed state: nothing exists, nothing is recorded.
LEMMA InitType == Init => TypeOK
<1> SUFFICES ASSUME Init PROVE TypeOK
  OBVIOUS
<1>1. PICK r \in Requests : req = r /\ mem = NoRecord(Redacted(r)) /\ db = NoRecord(Redacted(r))
  BY DEF Init
<1>2. r \in Request
  BY <1>1, RequestsAssumption
<1>3. Redacted(r) \in Request
  BY <1>2, RehydrateType
<1>4. NoRecord(Redacted(r)) \in Record
  BY <1>3 DEF NoRecord, Record, States, Errors, Endpoints
<1>5. EmptyCloud \in Cloud
  BY EmptyIs DEF Cloud, Clients, Endpoints
<1>6. pc \in Points /\ endpoint \in Endpoints /\ holder \in Clients
  BY DEF Init, Points, Clients, Endpoints
<1>7. /\ done \subseteq Stages /\ resumed \in BOOLEAN /\ existing \in BOOLEAN
      /\ cloud \in Cloud
  BY <1>5 DEF Init
<1>8. {secret, minted, named, resumes, faults, crashes} \subseteq Nat
  BY DEF Init
<1> QED
  BY <1>1, <1>2, <1>4, <1>6, <1>7, <1>8 DEF TypeOK

\* The parts of TypeOK that only some actions touch.
ExecutorTyped ==
  /\ req \in Request /\ done \subseteq Stages /\ resumed \in BOOLEAN /\ existing \in BOOLEAN
  /\ endpoint \in Endpoints /\ holder \in Clients
CountersTyped ==
  secret \in Nat /\ minted \in Nat /\ named \in Nat /\ resumes \in Nat /\ crashes \in Nat

LEMMA TypeParts ==
  TypeOK <=> /\ pc \in Points /\ mem \in Record /\ db \in Record /\ cloud \in Cloud
             /\ ExecutorTyped /\ CountersTyped /\ faults \in Nat
BY DEF TypeOK, ExecutorTyped, CountersTyped

\* Every action keeps the variables in their types.
LEMMA StepType == TypeOK /\ [Next]_vars => TypeOK'
<1> SUFFICES ASSUME TypeOK, [Next]_vars PROVE TypeOK'
  OBVIOUS
<1> USE DEF bounds
<1>0. /\ pc \in Points /\ mem \in Record /\ db \in Record /\ cloud \in Cloud
      /\ ExecutorTyped /\ CountersTyped /\ faults \in Nat
  BY TypeParts
<1> SUFFICES /\ pc' \in Points /\ mem' \in Record /\ db' \in Record /\ cloud' \in Cloud
             /\ ExecutorTyped' /\ CountersTyped' /\ faults' \in Nat
  BY DEF TypeOK, ExecutorTyped, CountersTyped
<1>e. {"preflight", "ingest", "deploy", "oauth", "register", "authorize", "connect", "attach"}
        \subseteq Stages \intersect Points
      /\ {"createService", "mint", "putClient", "awaitStore", "finish", "idle"} \subseteq Points
      /\ {"call", "truncated", "no_key", "refused", "internal", None, "blocked", "url_conflict"}
           \subseteq Errors
  BY DEF Stages, Points, BeforeDatastore, BeforeAuthorization, BeforeClient, Errors
<1>1. CASE Preflight
  <2>1. ExecutorTyped' /\ CountersTyped' /\ cloud' \in Cloud
    BY <1>0, <1>1 DEF Preflight, ExecutorTyped, CountersTyped, Detections
  <2>2. CASE Abort(mem, "preflight", "call")
    BY <2>1, <2>2, <1>0, <1>e, AbortType
  <2>3. CASE Complete(mem, mem, "preflight", "ingest")
    BY <2>1, <2>3, <1>0, <1>e, CompleteType
  <2>4. ASSUME NEW l \in BOOLEAN, Emit(WithStage(mem, "preflight")),
               Fail(WithStage(mem, "preflight"), "preflight", Blocking(l))
        PROVE  mem' \in Record /\ db' \in Record /\ pc' \in Points /\ faults' \in Nat
    <3>1. WithStage(mem, "preflight") \in Record
      BY <1>0, <1>e, RecordUpdates
    <3>2. Blocking(l) \in Errors
      BY <1>e DEF Blocking
    <3>3. db' \in Record /\ faults' \in Nat
      BY <2>4, <3>1, <1>0 DEF Emit
    <3> QED BY <2>4, <3>1, <3>2, <3>3, <1>e, FailType
  <2> QED BY <1>1, <2>1, <2>2, <2>3, <2>4 DEF Preflight
<1>2. CASE Ingest
  <2>1. ExecutorTyped' /\ CountersTyped' /\ cloud' \in Cloud
    BY <1>0, <1>2 DEF Ingest, ExecutorTyped, CountersTyped
  <2>2. CASE Complete(mem, mem, "ingest", "deploy")
    BY <2>1, <2>2, <1>0, <1>e, CompleteType
  <2>3. ASSUME NEW e \in {"call", "truncated"}, Abort(mem, "ingest", e)
        PROVE  mem' \in Record /\ db' \in Record /\ pc' \in Points /\ faults' \in Nat
    BY <2>3, <1>0, <1>e, AbortType
  <2>4. CASE Emit(WithStage(mem, "ingest")) /\ Fail(WithStage(mem, "ingest"), "ingest", "call")
    <3>1. WithStage(mem, "ingest") \in Record
      BY <1>0, <1>e, RecordUpdates
    <3>2. db' \in Record /\ faults' \in Nat
      BY <2>4, <3>1, <1>0 DEF Emit
    <3> QED BY <2>1, <2>4, <3>1, <3>2, <1>e, FailType
  <2>5. CASE BuildManifest
    <3>1. [mem EXCEPT !.manifest = req.auth] \in Record
      <4>1. req.auth \in AuthKinds \union {None}
        BY <1>0 DEF ExecutorTyped, Request
      <4> QED BY <1>0, <4>1 DEF Record
    <3> QED BY <2>1, <2>3, <2>5, <3>1, <1>0, <1>e, CompleteType DEF BuildManifest
  <2> QED BY <1>2, <2>1, <2>2, <2>3, <2>4, <2>5 DEF Ingest, ProbeExisting
<1>3. CASE DeployNothing
  <2>1. EndpointHere \in Endpoints
    BY <1>0, EndpointType DEF EndpointHere, Endpoints
  <2>2. ExecutorTyped' /\ CountersTyped' /\ cloud' \in Cloud
    BY <1>0, <1>3, <2>1 DEF DeployNothing, ExecutorTyped, CountersTyped
  <2>3. Complete(mem, mem, "deploy", "oauth")
    BY <1>3 DEF DeployNothing
  <2> QED BY <2>2, <2>3, <1>0, <1>e, CompleteType
<1>4. CASE StoreApiKey
  <2>1. ExecutorTyped' /\ CountersTyped' /\ db' \in Record /\ faults' \in Nat
    BY <1>0, <1>4 DEF StoreApiKey, ExecutorTyped, CountersTyped
  <2>2. cloud' \in Cloud
    BY <1>0, <1>4, CloudUpdates DEF StoreApiKey, Clients, Endpoints
  <2>3. mem' \in Record /\ pc' \in Points
    BY <1>0, <1>4, <1>e, FailType DEF StoreApiKey
  <2> QED BY <2>1, <2>2, <2>3
<1>5. CASE CreateService
  <2>1. Served \in Cloud
    <3>1. mem.manifest \in AuthKinds \union {None}
      BY <1>0 DEF Record
    <3> QED BY <3>1, <1>0, CloudUpdates DEF Served, Clients, Endpoints
  <2>2. cloud' \in Cloud
    BY <1>0, <1>5, <2>1 DEF CreateService
  <2>3. ExecutorTyped' /\ CountersTyped'
    BY <1>0, <1>5 DEF CreateService, ExecutorTyped, CountersTyped, Endpoints
  <2>4. [mem EXCEPT !.service = TRUE, !.keySecret = (req.auth = "api_key")] \in Record
    <3>1. \A b \in BOOLEAN : [mem EXCEPT !.service = TRUE, !.keySecret = b] \in Record
      BY <1>0 DEF Record
    <3> QED BY <3>1
  <2>5. mem' \in Record /\ db' \in Record /\ pc' \in Points /\ faults' \in Nat
    BY <1>0, <1>5, <1>e, <2>4, CompleteType, AbortType DEF CreateService
  <2> QED BY <2>2, <2>3, <2>5
<1>6. CASE OAuthSkip
  <2>1. ExecutorTyped' /\ CountersTyped' /\ cloud' \in Cloud
    BY <1>0, <1>6 DEF OAuthSkip, ExecutorTyped, CountersTyped
  <2>2. Complete(mem, mem, "oauth", "register")
    BY <1>6 DEF OAuthSkip
  <2> QED BY <2>1, <2>2, <1>0, <1>e, CompleteType
<1>7. CASE RehydrateOauth
  <2>1. cloud.downstream \in Nat
    BY <1>0 DEF Cloud
  <2>2. ExecutorTyped' /\ CountersTyped' /\ cloud' \in Cloud
    BY <1>0, <1>7, <2>1 DEF RehydrateOauth, ExecutorTyped, CountersTyped, Clients
  <2>3. mem' \in Record /\ db' \in Record /\ pc' \in Points /\ faults' \in Nat
    BY <1>0, <1>7, <1>e, CompleteType, AbortType DEF RehydrateOauth
  <2> QED BY <2>2, <2>3
<1>8. CASE DirectOauth
  <2>1. ExecutorTyped' /\ CountersTyped' /\ cloud' \in Cloud
    BY <1>0, <1>8 DEF DirectOauth, ExecutorTyped, CountersTyped, Clients
  <2>2. Complete(mem, mem, "oauth", "register")
    BY <1>8 DEF DirectOauth
  <2> QED BY <2>1, <2>2, <1>0, <1>e, CompleteType
<1>9. CASE ResolveUpstream
  <2>1. ExecutorTyped' /\ CountersTyped' /\ db' \in Record /\ faults' \in Nat
    BY <1>0, <1>9 DEF ResolveUpstream, ExecutorTyped, CountersTyped
  <2>2. ASSUME NEW n \in Registrations(req), NEW k \in Confidential(req)
        PROVE  LET asked == [cloud EXCEPT !.registered = @ + n]
               IN  asked \in Cloud /\ [asked EXCEPT !.upstream = @ \/ k] \in Cloud
    <3>1. Confidential(req) \subseteq BOOLEAN /\ Registrations(req) \subseteq Nat
      <4>1. Confidential(req) \subseteq BOOLEAN
        BY DEF Confidential
      <4>2. Registrations(req) \subseteq Nat
        BY DEF Registrations
      <4> QED BY <4>1, <4>2
    <3> DEFINE asked == [cloud EXCEPT !.registered = @ + n]
    <3>2. asked \in Cloud
      BY <1>0, <3>1 DEF Cloud
    <3> HIDE DEF asked
    <3>3. [asked EXCEPT !.upstream = @ \/ k] \in Cloud
      BY <3>1, <3>2, CloudUpdates DEF Clients, Endpoints
    <3> QED BY <3>2, <3>3 DEF asked
  <2>3. cloud' \in Cloud
    <3>1. \E n \in Registrations(req), k \in Confidential(req) :
            LET asked == [cloud EXCEPT !.registered = @ + n]
            IN  cloud' = asked \/ cloud' = [asked EXCEPT !.upstream = @ \/ k]
      BY <1>9 DEF ResolveUpstream
    <3> QED BY <2>2, <3>1
  <2>4. mem' \in Record /\ pc' \in Points
    BY <1>0, <1>9, <1>e, FailType DEF ResolveUpstream
  <2> QED BY <2>1, <2>3, <2>4
<1>10. CASE MintSecret
  <2>1. minted' \in Nat /\ secret' \in Nat
    BY <1>0, <1>10 DEF MintSecret, CountersTyped
  <2>2. ExecutorTyped' /\ CountersTyped' /\ db' \in Record /\ faults' \in Nat
    BY <1>0, <1>10, <2>1 DEF MintSecret, ExecutorTyped, CountersTyped
  <2>3. [cloud EXCEPT !.downstream = minted'] \in Cloud
    BY <1>0, <2>1, CloudUpdates DEF Clients, Endpoints
  <2>4. cloud' \in Cloud
    BY <1>0, <1>10, <2>3 DEF MintSecret
  <2>5. mem' \in Record /\ pc' \in Points
    BY <1>0, <1>10, <1>e, FailType DEF MintSecret
  <2> QED BY <2>2, <2>4, <2>5
<1>11. CASE PutClient
  <2>1. ExecutorTyped' /\ CountersTyped'
    BY <1>0, <1>11 DEF PutClient, ExecutorTyped, CountersTyped, Clients
  <2>2. [cloud EXCEPT !.client = secret] \in Cloud
    BY <1>0, CloudUpdates DEF CountersTyped, Clients, Endpoints
  <2>3. cloud' \in Cloud
    BY <1>0, <1>11, <2>2 DEF PutClient
  <2>4. [mem EXCEPT !.proxyClient = TRUE] \in Record
    BY <1>0 DEF Record
  <2>5. mem' \in Record /\ db' \in Record /\ pc' \in Points /\ faults' \in Nat
    BY <1>0, <1>11, <1>e, <2>4, CompleteType, AbortType DEF PutClient
  <2> QED BY <2>1, <2>3, <2>5
<1>12. CASE Register
  <2>1. ExecutorTyped' /\ CountersTyped'
    BY <1>0, <1>12 DEF Register, ExecutorTyped, CountersTyped
  <2>2. [cloud EXCEPT !.registry = endpoint] \in Cloud
    BY <1>0, CloudUpdates DEF ExecutorTyped, Clients
  <2>3. cloud' \in Cloud
    BY <1>0, <1>12, <2>2 DEF Register
  <2>4. Asked \in Record /\ [Asked EXCEPT !.registry = TRUE] \in Record
    <3>1. Asked \in Record
      BY <1>0 DEF Asked, Record, ExecutorTyped
    <3> QED BY <3>1 DEF Record
  <2>5. mem' \in Record /\ db' \in Record /\ pc' \in Points /\ faults' \in Nat
    <3>1. CASE Complete(mem, mem, "register", "authorize")
      BY <3>1, <1>0, <1>e, CompleteType
    <3>2. CASE Complete([Asked EXCEPT !.registry = TRUE], [Asked EXCEPT !.registry = TRUE],
                        "register", "authorize")
      BY <3>2, <2>4, <1>0, <1>e, CompleteType
    <3>3. ASSUME NEW r \in Record, Abort(r, "register", "call")
          PROVE  mem' \in Record /\ db' \in Record /\ pc' \in Points /\ faults' \in Nat
      BY <3>3, <1>0, <1>e, AbortType
    <3> QED BY <1>12, <2>4, <3>1, <3>2, <3>3 DEF Register
  <2> QED BY <2>1, <2>3, <2>5
<1>13. CASE Authorize
  <2>1. ExecutorTyped' /\ CountersTyped'
    BY <1>0, <1>13 DEF Authorize, ExecutorTyped, CountersTyped
  <2>2. [cloud EXCEPT !.authzClient = holder, !.authzSecret = secret] \in Cloud
    BY <1>0, CloudUpdates DEF ExecutorTyped, CountersTyped, Endpoints
  <2>3. cloud' \in Cloud
    BY <1>0, <1>13, <2>2 DEF Authorize, Authorized
  <2>4. [mem EXCEPT !.authorization = TRUE] \in Record
    BY <1>0 DEF Record
  <2>5. mem' \in Record /\ db' \in Record /\ pc' \in Points /\ faults' \in Nat
    <3>1. CASE Complete(mem, mem, "authorize", "connect")
      BY <3>1, <1>0, <1>e, CompleteType
    <3>2. CASE Complete(mem, [mem EXCEPT !.authorization = TRUE], "authorize", "connect")
      BY <3>2, <2>4, <1>0, <1>e, CompleteType
    <3>3. CASE Abort(mem, "authorize", "call")
      BY <3>3, <1>0, <1>e, AbortType
    <3> QED BY <1>13, <3>1, <3>2, <3>3 DEF Authorize
  <2> QED BY <2>1, <2>3, <2>5
<1>14. CASE ReuseConnection
  <2>1. ExecutorTyped' /\ CountersTyped' /\ cloud' \in Cloud
    BY <1>0, <1>14 DEF ReuseConnection, ExecutorTyped, CountersTyped
  <2>2. Complete(mem, mem, "connect", "attach")
    BY <1>14 DEF ReuseConnection
  <2> QED BY <2>1, <2>2, <1>0, <1>e, CompleteType
<1>15. CASE SetUpConnector
  <2>1. CollectionId \in Nat /\ named' \in Nat
    BY <1>0, <1>15 DEF CollectionId, SetUpConnector, CountersTyped, Record
  <2>2. ExecutorTyped' /\ CountersTyped' /\ db' \in Record /\ faults' \in Nat
    BY <1>0, <1>15, <2>1 DEF SetUpConnector, ExecutorTyped, CountersTyped
  <2>3. [cloud EXCEPT !.collections = @ \union {CollectionId}, !.connClient = holder,
                      !.connSecret = secret, !.connEndpoint = endpoint] \in Cloud
    BY <1>0, <2>1, CloudUpdates DEF ExecutorTyped, CountersTyped
  <2>4. cloud' \in Cloud
    BY <1>0, <1>15, <2>3 DEF SetUpConnector
  <2>5. [mem EXCEPT !.collection = CollectionId] \in Record
    BY <1>0, <2>1 DEF Record
  <2>6. mem' \in Record /\ pc' \in Points
    BY <1>0, <1>15, <1>e, <2>5, FailType DEF SetUpConnector
  <2> QED BY <2>2, <2>4, <2>6
<1>16. CASE AwaitDatastore
  <2>1. ExecutorTyped' /\ CountersTyped' /\ cloud' \in Cloud
    BY <1>0, <1>16 DEF AwaitDatastore, ExecutorTyped, CountersTyped
  <2>2. [mem EXCEPT !.datastore = mem.collection] \in Record
    <3>1. \A n \in Nat : [mem EXCEPT !.datastore = n] \in Record
      BY <1>0 DEF Record
    <3>2. mem.collection \in Nat
      BY <1>0 DEF Record
    <3> QED BY <3>1, <3>2
  <2>3. mem' \in Record /\ db' \in Record /\ pc' \in Points /\ faults' \in Nat
    BY <1>0, <1>16, <1>e, <2>2, CompleteType, AbortType DEF AwaitDatastore
  <2> QED BY <2>1, <2>3
<1>17. CASE Attach
  <2>1. ExecutorTyped' /\ CountersTyped'
    BY <1>0, <1>17 DEF Attach, ExecutorTyped, CountersTyped
  <2>2. Tied \in Cloud
    <3>1. mem.datastore \in Nat
      BY <1>0 DEF Record
    <3> QED BY <3>1, <1>0, CloudUpdates DEF Tied, Clients, Endpoints
  <2>3. cloud' \in Cloud
    BY <1>0, <1>17, <2>2 DEF Attach
  <2>4. CASE Abort(mem, "attach", "call")
    BY <2>1, <2>3, <2>4, <1>0, <1>e, AbortType
  <2>5. CASE /\ Emit(WithStage(mem, "attach"))
             /\ mem' = [WithStage(mem, "attach") EXCEPT !.state = "READY"]
             /\ pc' = "finish"
    <3>1. WithStage(mem, "attach") \in Record
      BY <1>0, <1>e, RecordUpdates
    <3>2. mem' \in Record
      BY <2>5, <3>1, <1>e, RecordUpdates DEF States
    <3>3. db' \in Record /\ faults' \in Nat
      BY <2>5, <3>1, <1>0 DEF Emit
    <3> QED BY <2>1, <2>3, <2>5, <3>2, <3>3, <1>e
  <2> QED BY <1>17, <2>4, <2>5 DEF Attach
<1>18. ASSUME Idle, db' \in Record
       PROVE  pc' \in Points /\ mem' \in Record /\ ExecutorTyped' /\ secret' \in Nat
  <2>1. db'.request \in Request
    BY <1>18 DEF Record
  <2> QED BY <1>18, <2>1, <1>e DEF Idle, ExecutorTyped, Endpoints, Clients
<1>19. CASE Finish
  <2>1. Crashed(mem) \in Record /\ Crashed(db) \in Record
    BY <1>0, <1>e, RecordUpdates
  <2>2. db' \in Record /\ faults' \in Nat
    BY <1>0, <1>19, <2>1 DEF Finish
  <2> QED BY <1>0, <1>18, <1>19, <2>2 DEF Finish, CountersTyped
<1>20. CASE Crash
  BY <1>0, <1>18, <1>20 DEF Crash, CountersTyped
<1>21. CASE Submit
  <2>1. db' \in Record
    BY <1>0, <1>e, <1>21, RecordUpdates DEF Submit, States
  <2> QED BY <1>0, <1>e, <1>21, <2>1 DEF Submit, ExecutorTyped, CountersTyped
<1>22. ASSUME NEW o \in Overrides, Resume(o)
       PROVE  TypeOK'
  <2>1. db.request \in Request /\ db.ok \subseteq Stages
    BY <1>0 DEF Record
  <2>2. Rehydrate(db.request, o) \in Request
    BY <2>1, OverridesAssumption, RehydrateType
  <2>3. [db EXCEPT !.state = "RUNNING", !.error = None, !.failedStage = None] \in Record
    BY <1>0, <1>e DEF Record, States
  <2>4. mem' \in Record /\ db' \in Record
    BY <1>22, <2>3 DEF Resume
  <2>5. ExecutorTyped' /\ CountersTyped'
    BY <1>0, <1>22, <2>1, <2>2 DEF Resume, ExecutorTyped, CountersTyped
  <2> QED BY <1>0, <1>e, <1>22, <2>4, <2>5 DEF Resume, TypeOK, ExecutorTyped, CountersTyped
<1>23. CASE Delete
  <2>1. db.request \in Request
    BY <1>0 DEF Record
  <2>2. NoRecord(db.request) \in Record
    BY <2>1, <1>e DEF NoRecord, Record, States, Endpoints
  <2>3. mem' \in Record /\ db' \in Record /\ req' \in Request
    BY <1>23, <2>1, <2>2 DEF Delete, NoRecord
  <2>4. cloud' \in Cloud
    BY <1>0, <1>23, WithoutType DEF Delete
  <2> QED BY <1>0, <1>23, <2>3, <2>4 DEF Delete, ExecutorTyped, CountersTyped
<1>24. CASE UNCHANGED vars
  BY <1>0, <1>24 DEF vars, execVars, ExecutorTyped, CountersTyped
<1> QED
  BY <1>1, <1>2, <1>3, <1>4, <1>5, <1>6, <1>7, <1>8, <1>9, <1>10, <1>11, <1>12, <1>13, <1>14,
     <1>15, <1>16, <1>17, <1>19, <1>20, <1>21, <1>22, <1>23, <1>24
  DEF Next, RunStep, TypeOK, ExecutorTyped, CountersTyped

\* The variables hold what their declarations say, whatever requests are
\* submitted and resumed and whatever fails.
THEOREM TypeCorrect == Spec => []TypeOK
<1>1. Init => TypeOK
  BY InitType
<1>2. TypeOK /\ [Next]_vars => TypeOK'
  BY StepType
<1> QED BY <1>1, <1>2, PTL DEF Spec

-----------------------------------------------------------------------------
(***************************************************************************)
(* The secrets agree.  Most steps are neutral: they leave the credentials  *)
(* in the cloud alone and the records name what they named before.         *)
(***************************************************************************)
\* Record r names the credentials that q names, and has q's stages behind it.
Same(r, q) ==
  /\ r.proxyClient = q.proxyClient /\ r.authorization = q.authorization
  /\ r.datastore = q.datastore /\ q.ok \subseteq r.ok

Untouched(c, d) ==
  /\ d.client = c.client /\ d.downstream = c.downstream
  /\ d.authzClient = c.authzClient /\ d.authzSecret = c.authzSecret
  /\ d.connClient = c.connClient /\ d.connSecret = c.connSecret

\* The executor does not go back to before a stage that makes a credential.
Forward(p, q) ==
  /\ q \notin {"idle", "mint", "putClient", "awaitStore"}
  /\ q \in BeforeClient => p \in BeforeClient
  /\ q \in BeforeAuthorization => p \in BeforeAuthorization
  /\ q \in BeforeDatastore => p \in BeforeDatastore

LEMMA BackedSame ==
  ASSUME NEW r, NEW q, NEW c, NEW d, Backed(q, c), Same(r, q), Untouched(c, d)
  PROVE  Backed(r, d)
BY DEF Backed, Same, Untouched

\* Completing a stage names nothing but what the caller put on the record.
LEMMA CompleteKeeps ==
  ASSUME TypeOK, NEW p \in Record, NEW k \in Record, NEW s \in Stages, NEW next,
         Complete(p, k, s, next), p.state # "ABSENT", k.state # "ABSENT"
  PROVE  /\ Same(mem', k) /\ s \in mem'.ok /\ mem'.state # "ABSENT"
         /\ db' = db \/ (Same(db', p) /\ s \in db'.ok /\ db'.state # "ABSENT")
         /\ pc' \in {next, "finish"}
<1>1. \A r \in Record : /\ Same(WithStage(r, s), r) /\ s \in WithStage(r, s).ok
                        /\ WithStage(r, s).state = r.state
  BY DEF Same, WithStage, Record
<1>2. \A r \in Record : /\ Same([WithStage(r, s) EXCEPT !.state = "STOPPED"], r)
                        /\ s \in [WithStage(r, s) EXCEPT !.state = "STOPPED"].ok
                        /\ [WithStage(r, s) EXCEPT !.state = "STOPPED"].state = "STOPPED"
  BY DEF Same, WithStage, Record
<1> QED BY <1>1, <1>2 DEF Complete, Emit

LEMMA FailKeeps ==
  ASSUME NEW r \in Record, NEW s \in Stages, NEW e \in Errors, Fail(r, s, e)
  PROVE  Same(mem', r) /\ mem'.state # "ABSENT" /\ pc' = "finish"
<1>1. Outcome(r) \in States \ {"ABSENT"}
  BY RecordUpdates
<1>2. \A st \in States :
        /\ Same([r EXCEPT !.state = st, !.failedStage = s, !.error = e], r)
        /\ [r EXCEPT !.state = st, !.failedStage = s, !.error = e].state = st
  BY DEF Same, Record
<1> QED BY <1>1, <1>2 DEF Fail

LEMMA Neutral ==
  ASSUME TypeOK, CredentialsInv, pc # "idle", Untouched(cloud, cloud'), Forward(pc, pc'),
         Same(mem', mem), mem'.state # "ABSENT",
         db' = db \/ (Same(db', mem) /\ db'.state # "ABSENT"),
         done' = done,
         holder' = "proxy" => mem.proxyClient /\ secret' = cloud.client
  PROVE  CredentialsInv'
<1>1. Backed(mem', cloud')
  BY BackedSame DEF CredentialsInv
<1>2. Backed(db', cloud')
  <2>1. CASE db' = db
    BY <2>1, BackedSame DEF CredentialsInv, Same
  <2>2. CASE Same(db', mem)
    BY <2>2, BackedSame DEF CredentialsInv
  <2> QED BY <2>1, <2>2
<1>3. StoreLags'
  BY DEF StoreLags, CredentialsInv, Same
<1>4. InHand'
  BY DEF InHand, CredentialsInv, Same, Untouched, Forward
<1>5. AtRest'
  BY DEF AtRest, CredentialsInv, Forward, NamesNothing
<1> QED BY <1>1, <1>2, <1>3, <1>4, <1>5 DEF CredentialsInv

\* A stage announced and then failed (preflight, ingest) names nothing.
LEMMA AnnounceKeeps ==
  ASSUME TypeOK, NEW s \in Stages, NEW e \in Errors, mem.state # "ABSENT",
         Emit(WithStage(mem, s)), Fail(WithStage(mem, s), s, e)
  PROVE  /\ Same(mem', mem) /\ mem'.state # "ABSENT" /\ pc' = "finish"
         /\ db' = db \/ (Same(db', mem) /\ db'.state # "ABSENT")
<1>1. mem \in Record
  BY DEF TypeOK
<1>2. /\ WithStage(mem, s) \in Record /\ Same(WithStage(mem, s), mem)
      /\ WithStage(mem, s).state = mem.state
  BY <1>1 DEF Same, WithStage, Record
<1>3. Same(mem', WithStage(mem, s)) /\ mem'.state # "ABSENT" /\ pc' = "finish"
  BY <1>2, FailKeeps
<1> QED BY <1>2, <1>3 DEF Emit, Same

\* The neutral ends of a stage, in terms of the credentials that mem names.
LEMMA EndKeeps ==
  ASSUME TypeOK, NEW p \in Record, Same(p, mem), p.state # "ABSENT",
         NEW s \in Stages, NEW next, NEW e \in Errors,
         Complete(p, p, s, next) \/ Abort(p, s, e)
  PROVE  /\ Same(mem', mem) /\ mem'.state # "ABSENT" /\ pc' \in {next, "finish"}
         /\ db' = db \/ (Same(db', mem) /\ db'.state # "ABSENT")
<1>1. CASE Complete(p, p, s, next)
  BY <1>1, CompleteKeeps DEF Same
<1>2. CASE Abort(p, s, e)
  BY <1>2, FailKeeps DEF Same, Abort
<1> QED BY <1>1, <1>2

LEMMA StepCredentials == TypeOK /\ CredentialsInv /\ [Next]_vars => CredentialsInv'
<1> SUFFICES ASSUME TypeOK, CredentialsInv, [Next]_vars PROVE CredentialsInv'
  OBVIOUS
<1>0. /\ mem \in Record /\ db \in Record /\ cloud \in Cloud /\ mem.ok \subseteq Stages
      /\ minted \in Nat /\ Same(mem, mem) /\ Same(db, db) /\ Untouched(cloud, cloud)
      /\ secret \in Nat
  BY DEF TypeOK, Record, Same, Untouched
<1>e. /\ {"preflight", "ingest", "deploy", "oauth", "register", "authorize", "connect", "attach"}
            \subseteq Stages
      /\ {"call", "truncated", "no_key", "refused", "internal", None, "blocked", "url_conflict"}
            \subseteq Errors
  BY DEF Stages, Errors
<1>h. holder = "proxy" => mem.proxyClient /\ secret = cloud.client
  BY DEF CredentialsInv, InHand
<1>a. pc # "idle" => mem.state # "ABSENT"
  BY DEF CredentialsInv, AtRest
<1>f. /\ \A p \in {"preflight", "ingest", "deploy", "createService"} :
           \A q \in {"ingest", "deploy", "createService", "oauth", "finish"} : Forward(p, q)
      /\ \A p \in BeforeClient \union {"mint", "putClient", "register"} :
           \A q \in {"register", "authorize", "finish"} : Forward(p, q)
      /\ \A q \in {"connect", "finish"} : Forward("authorize", q)
      /\ \A p : \A q \in {"attach", "finish"} : Forward(p, q)
  BY DEF Forward, BeforeClient, BeforeAuthorization, BeforeDatastore
<1>1. CASE Preflight
  <2>1. pc = "preflight" /\ done' = done /\ holder' = holder /\ secret' = secret /\ cloud' = cloud
    BY <1>1 DEF Preflight
  <2>2. \A l : Blocking(l) \in Errors
    BY <1>e DEF Blocking
  <2>3. /\ Same(mem', mem) /\ mem'.state # "ABSENT" /\ pc' \in {"ingest", "finish"}
        /\ db' = db \/ (Same(db', mem) /\ db'.state # "ABSENT")
    BY <1>0, <1>a, <1>e, <1>1, <2>1, <2>2, EndKeeps, AnnounceKeeps DEF Preflight
  <2> QED BY <1>0, <1>f, <1>h, <2>1, <2>3, Neutral
<1>2. CASE Ingest
  <2>1. pc = "ingest" /\ done' = done /\ holder' = holder /\ secret' = secret /\ cloud' = cloud
    BY <1>2 DEF Ingest
  <2>2. /\ [mem EXCEPT !.manifest = req.auth] \in Record
        /\ Same([mem EXCEPT !.manifest = req.auth], mem)
        /\ [mem EXCEPT !.manifest = req.auth].state = mem.state
    <3>1. req.auth \in AuthKinds \union {None}
      BY DEF TypeOK, Request
    <3> QED BY <1>0, <3>1 DEF Record, Same
  <2>3. /\ Same(mem', mem) /\ mem'.state # "ABSENT" /\ pc' \in {"deploy", "finish"}
        /\ db' = db \/ (Same(db', mem) /\ db'.state # "ABSENT")
    BY <1>0, <1>a, <1>e, <1>2, <2>1, <2>2, EndKeeps, AnnounceKeeps
    DEF Ingest, ProbeExisting, BuildManifest
  <2> QED BY <1>0, <1>f, <1>h, <2>1, <2>3, Neutral
<1>3. CASE DeployNothing
  <2>1. /\ pc = "deploy" /\ done' = done /\ holder' = holder /\ secret' = secret
        /\ cloud' = cloud /\ Complete(mem, mem, "deploy", "oauth")
    BY <1>3 DEF DeployNothing
  <2>2. /\ Same(mem', mem) /\ mem'.state # "ABSENT" /\ pc' \in {"oauth", "finish"}
        /\ db' = db \/ (Same(db', mem) /\ db'.state # "ABSENT")
    BY <1>0, <1>a, <1>e, <2>1, EndKeeps
  <2> QED BY <1>0, <1>f, <1>h, <2>1, <2>2, Neutral
<1>4. CASE StoreApiKey
  <2>1. /\ pc = "deploy" /\ done' = done /\ holder' = holder /\ secret' = secret /\ db' = db
    BY <1>4 DEF StoreApiKey
  <2>2. Untouched(cloud, cloud')
    BY <1>0, <1>4 DEF StoreApiKey, Untouched, Cloud
  <2>3. Same(mem', mem) /\ mem'.state # "ABSENT" /\ pc' \in {"createService", "finish"}
    BY <1>0, <1>a, <1>e, <1>4, <2>1, FailKeeps DEF StoreApiKey
  <2> QED BY <1>0, <1>f, <1>h, <2>1, <2>2, <2>3, Neutral
<1>5. CASE CreateService
  <2>1. pc = "createService" /\ done' = done /\ holder' = holder /\ secret' = secret
    BY <1>5 DEF CreateService
  <2>2. Untouched(cloud, cloud')
    BY <1>0, <1>5 DEF CreateService, Served, Untouched, Cloud
  <2>3. \A b \in BOOLEAN :
          /\ [mem EXCEPT !.service = TRUE, !.keySecret = b] \in Record
          /\ Same([mem EXCEPT !.service = TRUE, !.keySecret = b], mem)
          /\ [mem EXCEPT !.service = TRUE, !.keySecret = b].state = mem.state
    BY <1>0 DEF Record, Same
  <2>4. CASE Abort(mem, "deploy", "refused") \/ Abort(mem, "deploy", "call")
    BY <1>0, <1>a, <1>e, <1>f, <1>h, <2>1, <2>2, <2>4, EndKeeps, Neutral
  <2>5. ASSUME NEW b \in BOOLEAN,
               Complete([mem EXCEPT !.service = TRUE, !.keySecret = b],
                        [mem EXCEPT !.service = TRUE, !.keySecret = b], "deploy", "oauth")
        PROVE  CredentialsInv'
    <3>1. /\ Same(mem', mem) /\ mem'.state # "ABSENT" /\ pc' \in {"oauth", "finish"}
          /\ db' = db \/ (Same(db', mem) /\ db'.state # "ABSENT")
      BY <1>a, <1>e, <2>1, <2>3, <2>5, EndKeeps
    <3> QED BY <1>0, <1>f, <1>h, <2>1, <2>2, <3>1, Neutral
  <2>6. (req.auth = "api_key") \in BOOLEAN
    OBVIOUS
  <2> QED BY <1>5, <2>4, <2>5, <2>6 DEF CreateService
<1>6. CASE OAuthSkip
  <2>1. /\ pc = "oauth" /\ done' = done /\ holder' = holder /\ secret' = secret
        /\ cloud' = cloud /\ Complete(mem, mem, "oauth", "register")
    BY <1>6 DEF OAuthSkip
  <2>2. /\ Same(mem', mem) /\ mem'.state # "ABSENT" /\ pc' \in {"register", "finish"}
        /\ db' = db \/ (Same(db', mem) /\ db'.state # "ABSENT")
    BY <1>0, <1>a, <1>e, <2>1, EndKeeps
  <2> QED BY <1>0, <1>f, <1>h, <2>1, <2>2, Neutral DEF BeforeClient
<1>7. CASE RehydrateOauth
  <2>1. pc = "oauth" /\ done' = done /\ cloud' = cloud /\ mem.proxyClient
    BY <1>7 DEF RehydrateOauth, ReuseClient
  <2>2. holder' = "proxy" => secret' = cloud.client
    BY <1>7, <1>h, <2>1 DEF RehydrateOauth, CredentialsInv, Backed
  <2>3. /\ Same(mem', mem) /\ mem'.state # "ABSENT" /\ pc' \in {"register", "finish"}
        /\ db' = db \/ (Same(db', mem) /\ db'.state # "ABSENT")
    BY <1>0, <1>a, <1>e, <1>7, <2>1, EndKeeps DEF RehydrateOauth
  <2> QED BY <1>0, <1>f, <2>1, <2>2, <2>3, Neutral DEF BeforeClient
<1>8. CASE DirectOauth
  <2>1. /\ pc = "oauth" /\ done' = done /\ holder' # "proxy"
        /\ cloud' = cloud /\ Complete(mem, mem, "oauth", "register")
    BY <1>8 DEF DirectOauth
  <2>2. /\ Same(mem', mem) /\ mem'.state # "ABSENT" /\ pc' \in {"register", "finish"}
        /\ db' = db \/ (Same(db', mem) /\ db'.state # "ABSENT")
    BY <1>0, <1>a, <1>e, <2>1, EndKeeps
  <2> QED BY <1>0, <1>f, <2>1, <2>2, Neutral DEF BeforeClient
<1>9. CASE ResolveUpstream
  <2>1. /\ pc = "oauth" /\ done' = done /\ holder' = holder /\ secret' = secret /\ db' = db
        /\ ~ReuseClient
    BY <1>9 DEF ResolveUpstream
  <2>2. Untouched(cloud, cloud')
    BY <1>0, <1>9 DEF ResolveUpstream, Untouched, Cloud
  <2>3. CASE Fail(mem, "oauth", "call")
    BY <1>0, <1>e, <1>f, <1>h, <2>1, <2>2, <2>3, FailKeeps, Neutral DEF BeforeClient
  <2>4. CASE pc' = "mint" /\ mem' = mem
    <3>1. ~mem.proxyClient
      BY <2>1 DEF ReuseClient, CredentialsInv, InHand, BeforeClient
    <3>2. Backed(mem', cloud') /\ Backed(db', cloud')
      BY <1>0, <2>1, <2>2, <2>4, BackedSame DEF CredentialsInv
    <3>3. StoreLags' /\ AtRest'
      BY <1>a, <2>1, <2>4 DEF CredentialsInv, StoreLags, AtRest, NamesNothing
    <3>4. pc \in BeforeAuthorization /\ pc \in BeforeDatastore /\ pc' \notin BeforeClient
      BY <2>1, <2>4 DEF BeforeClient, BeforeAuthorization, BeforeDatastore
    <3>5. InHand'
      BY <1>h, <2>1, <2>2, <2>4, <3>1, <3>4 DEF CredentialsInv, InHand, Untouched
    <3> QED BY <3>2, <3>3, <3>5 DEF CredentialsInv
  <2> QED BY <1>9, <2>3, <2>4 DEF ResolveUpstream
<1>10. CASE MintSecret
  <2>1. /\ pc = "mint" /\ done' = done /\ holder' = holder /\ db' = db
        /\ secret' = minted + 1 /\ minted' = minted + 1
    BY <1>10 DEF MintSecret
  <2>2. /\ ~mem.proxyClient /\ ~db.proxyClient /\ holder # "proxy"
    BY <1>h, <2>1 DEF CredentialsInv, InHand, StoreLags
  <2>3. cloud' \in {cloud, [cloud EXCEPT !.downstream = minted + 1]}
    BY <1>10, <2>1 DEF MintSecret
  <2>4. /\ cloud'.client = cloud.client /\ cloud'.authzClient = cloud.authzClient
        /\ cloud'.authzSecret = cloud.authzSecret /\ cloud'.connClient = cloud.connClient
        /\ cloud'.connSecret = cloud.connSecret
    BY <1>0, <2>3 DEF Cloud
  <2>5. Same(mem', mem) /\ mem'.state # "ABSENT" /\ pc' \in {"putClient", "finish"}
    BY <1>0, <1>a, <1>e, <1>10, <2>1, FailKeeps DEF MintSecret
  <2>6. Backed(mem', cloud') /\ Backed(db', cloud')
    BY <2>1, <2>2, <2>4, <2>5 DEF CredentialsInv, Backed, Same
  <2>7. StoreLags' /\ AtRest'
    BY <2>1, <2>5 DEF CredentialsInv, StoreLags, AtRest, NamesNothing, Same
  <2>8. pc' = "putClient" => secret' # 0 /\ cloud'.downstream = secret'
    <3>1. Fail(mem, "oauth", "call") => pc' = "finish"
      BY DEF Fail
    <3>2. pc' = "putClient" => cloud' = [cloud EXCEPT !.downstream = minted + 1]
      BY <1>10, <2>1, <3>1 DEF MintSecret
    <3> QED BY <1>0, <2>1, <3>2 DEF Cloud
  <2>9. pc \in BeforeAuthorization /\ pc \in BeforeDatastore /\ pc' \notin BeforeClient
    BY <2>1, <2>5 DEF BeforeClient, BeforeAuthorization, BeforeDatastore
  <2>10. InHand'
    BY <2>1, <2>2, <2>5, <2>8, <2>9 DEF CredentialsInv, InHand, Same
  <2> QED BY <2>6, <2>7, <2>10 DEF CredentialsInv
<1>11. CASE PutClient
  <2>1. pc = "putClient" /\ done' = done /\ secret' = secret
    BY <1>11 DEF PutClient
  <2>2. /\ ~mem.proxyClient /\ ~db.proxyClient /\ holder # "proxy"
        /\ secret # 0 /\ secret = cloud.downstream
    BY <1>h, <2>1 DEF CredentialsInv, InHand, StoreLags
  <2>3. cloud' \in {cloud, [cloud EXCEPT !.client = secret]}
    BY <1>11 DEF PutClient
  <2>4. /\ cloud'.downstream = cloud.downstream /\ cloud'.authzClient = cloud.authzClient
        /\ cloud'.authzSecret = cloud.authzSecret /\ cloud'.connClient = cloud.connClient
        /\ cloud'.connSecret = cloud.connSecret
    BY <1>0, <2>3 DEF Cloud
  <2>5. Backed(db, cloud') /\ Backed(mem, cloud')
    BY <2>2, <2>4 DEF CredentialsInv, Backed
  <2>6. pc \in BeforeAuthorization /\ pc \in BeforeDatastore
    BY <2>1 DEF BeforeClient, BeforeAuthorization, BeforeDatastore
  <2>7. "register" \notin BeforeClient /\ "finish" \notin BeforeDatastore
        /\ "finish" \notin BeforeAuthorization /\ "finish" \notin BeforeClient
    BY DEF BeforeClient, BeforeAuthorization, BeforeDatastore
  <2>8. CASE Abort(mem, "oauth", "call") /\ holder' = holder
    <3>1. Same(mem', mem) /\ mem'.state # "ABSENT" /\ pc' = "finish" /\ db' = db
      BY <1>0, <1>e, <2>8, FailKeeps DEF Abort
    <3>2. Backed(mem', cloud') /\ Backed(db', cloud')
      BY <2>5, <3>1 DEF Backed, Same
    <3>3. StoreLags' /\ AtRest' /\ InHand'
      BY <2>1, <2>2, <2>7, <2>8, <3>1
      DEF CredentialsInv, StoreLags, AtRest, NamesNothing, InHand, Same
    <3> QED BY <3>2, <3>3 DEF CredentialsInv
  <2>9. CASE /\ cloud' = [cloud EXCEPT !.client = secret] /\ holder' = "proxy"
             /\ Complete(mem, [mem EXCEPT !.proxyClient = TRUE], "oauth", "register")
    <3> DEFINE k == [mem EXCEPT !.proxyClient = TRUE]
    <3>1. /\ k \in Record /\ k.proxyClient = TRUE /\ k.state = mem.state
          /\ k.authorization = mem.authorization /\ k.datastore = mem.datastore /\ k.ok = mem.ok
      BY <1>0 DEF Record
    <3>2. /\ Same(mem', k) /\ "oauth" \in mem'.ok /\ mem'.state # "ABSENT"
          /\ db' = db \/ (Same(db', mem) /\ db'.state # "ABSENT")
          /\ pc' \in {"register", "finish"}
      <4> HIDE DEF k
      <4> QED BY <1>0, <1>a, <1>e, <2>1, <2>9, <3>1, CompleteKeeps DEF k
    <3>3. cloud'.client = secret
      BY <1>0, <2>9 DEF Cloud
    <3> HIDE DEF k
    <3>4. Backed(mem', cloud')
      BY <2>2, <2>4, <2>5, <3>1, <3>2, <3>3 DEF Backed, Same
    <3>5. Backed(db', cloud')
      BY <2>2, <2>5, <3>2 DEF Backed, Same
    <3>6. StoreLags' /\ AtRest'
      BY <2>2, <3>1, <3>2 DEF CredentialsInv, StoreLags, AtRest, NamesNothing, Same
    <3>7. InHand'
      BY <2>1, <2>6, <2>7, <2>9, <3>1, <3>2, <3>3 DEF CredentialsInv, InHand, Same
    <3> QED BY <3>4, <3>5, <3>6, <3>7 DEF CredentialsInv
  <2> QED BY <1>11, <2>8, <2>9 DEF PutClient
<1>12. CASE Register
  <2>1. pc = "register" /\ done' = done /\ holder' = holder /\ secret' = secret
    BY <1>12 DEF Register
  <2>2. Untouched(cloud, cloud')
    BY <1>0, <1>12 DEF Register, Untouched, Cloud
  <2> DEFINE held == [Asked EXCEPT !.registry = TRUE]
  <2>3. /\ Asked \in Record /\ Same(Asked, mem) /\ Asked.state = mem.state
        /\ held \in Record /\ Same(held, mem) /\ held.state = mem.state
    <3>1. endpoint \in Endpoints
      BY DEF TypeOK
    <3>2. Asked \in Record /\ Same(Asked, mem) /\ Asked.state = mem.state
      BY <1>0, <3>1 DEF Asked, Record, Same
    <3> QED BY <3>2 DEF Record, Same
  <2>4. ASSUME NEW r \in {mem, Asked, held},
               Complete(r, r, "register", "authorize") \/ Abort(r, "register", "call")
        PROVE  CredentialsInv'
    <3>1. r \in Record /\ Same(r, mem) /\ r.state # "ABSENT"
      BY <1>0, <1>a, <2>1, <2>3
    <3>2. /\ Same(mem', mem) /\ mem'.state # "ABSENT" /\ pc' \in {"authorize", "finish"}
          /\ db' = db \/ (Same(db', mem) /\ db'.state # "ABSENT")
      BY <1>e, <2>4, <3>1, EndKeeps
    <3> QED BY <1>0, <1>f, <1>h, <2>1, <2>2, <3>2, Neutral
  <2> HIDE DEF held
  <2> QED BY <1>12, <2>4 DEF Register, held
<1>13. CASE Authorize
  <2>1. pc = "authorize" /\ done' = done /\ holder' = holder /\ secret' = secret
    BY <1>13 DEF Authorize
  <2>2. CASE cloud' = cloud /\ (Complete(mem, mem, "authorize", "connect")
                                \/ Abort(mem, "authorize", "call"))
    <3>1. /\ Same(mem', mem) /\ mem'.state # "ABSENT" /\ pc' \in {"connect", "finish"}
          /\ db' = db \/ (Same(db', mem) /\ db'.state # "ABSENT")
      BY <1>0, <1>a, <1>e, <2>1, <2>2, EndKeeps
    <3> QED BY <1>0, <1>f, <1>h, <2>1, <2>2, <3>1, Neutral
  <2> DEFINE k == [mem EXCEPT !.authorization = TRUE]
  <2>3. /\ Authorized.client = cloud.client /\ Authorized.downstream = cloud.downstream
        /\ Authorized.connClient = cloud.connClient /\ Authorized.connSecret = cloud.connSecret
        /\ Authorized.authzClient = holder /\ Authorized.authzSecret = secret
    BY <1>0 DEF Cloud, Authorized
  <2>4. /\ k \in Record /\ k.authorization = TRUE /\ k.state = mem.state /\ k.ok = mem.ok
        /\ k.proxyClient = mem.proxyClient /\ k.datastore = mem.datastore
    BY <1>0 DEF Record
  <2>5. "authorize" \in BeforeAuthorization /\ "finish" \notin BeforeAuthorization
        /\ "connect" \notin BeforeAuthorization /\ "authorize" \in BeforeDatastore
        /\ "finish" \notin BeforeDatastore
        /\ "connect" \notin BeforeClient /\ "finish" \notin BeforeClient
    BY DEF BeforeAuthorization, BeforeClient, BeforeDatastore
  <2> HIDE DEF k
  <2>6. CASE ~(holder = None \/ ReuseAuthorization) /\ cloud' = Authorized
    <3>1. ~mem.authorization /\ ~db.authorization
      BY <2>1, <2>5, <2>6 DEF ReuseAuthorization, CredentialsInv, InHand, StoreLags
    <3>2. Backed(mem, cloud') /\ Backed(db, cloud')
      BY <2>3, <2>6, <3>1 DEF CredentialsInv, Backed
    <3>3. CASE Abort(mem, "authorize", "call")
      <4>1. Same(mem', mem) /\ mem'.state # "ABSENT" /\ pc' = "finish" /\ db' = db
        BY <1>0, <1>e, <3>3, FailKeeps DEF Abort
      <4>2. Backed(mem', cloud') /\ Backed(db', cloud')
        BY <3>2, <4>1 DEF Backed, Same
      <4>3. StoreLags' /\ AtRest' /\ InHand'
        BY <1>h, <2>1, <2>3, <2>5, <2>6, <4>1
        DEF CredentialsInv, StoreLags, AtRest, NamesNothing, InHand, Same
      <4> QED BY <4>2, <4>3 DEF CredentialsInv
    <3>4. CASE Complete(mem, k, "authorize", "connect")
      <4>1. /\ Same(mem', k) /\ "authorize" \in mem'.ok /\ mem'.state # "ABSENT"
            /\ db' = db \/ (Same(db', mem) /\ db'.state # "ABSENT")
            /\ pc' \in {"connect", "finish"}
        BY <1>0, <1>a, <1>e, <2>1, <2>4, <3>4, CompleteKeeps
      <4>2. Backed(mem', cloud')
        BY <1>h, <2>3, <2>4, <2>6, <3>2, <4>1 DEF Backed, Same
      <4>3. Backed(db', cloud')
        BY <3>1, <3>2, <4>1 DEF Backed, Same
      <4>4. StoreLags' /\ AtRest'
        BY <2>4, <3>1, <4>1 DEF CredentialsInv, StoreLags, AtRest, NamesNothing, Same
      <4>5. InHand'
        BY <1>h, <2>1, <2>3, <2>4, <2>5, <2>6, <4>1 DEF CredentialsInv, InHand, Same
      <4> QED BY <4>2, <4>3, <4>4, <4>5 DEF CredentialsInv
    <3> QED BY <1>13, <2>6, <3>3, <3>4, <2>2 DEF Authorize, k
  <2> QED BY <1>13, <2>2, <2>6 DEF Authorize
<1>14. CASE ReuseConnection
  <2>1. /\ pc = "connect" /\ done' = done /\ holder' = holder /\ secret' = secret
        /\ cloud' = cloud /\ Complete(mem, mem, "connect", "attach")
    BY <1>14 DEF ReuseConnection
  <2>2. /\ Same(mem', mem) /\ mem'.state # "ABSENT" /\ pc' \in {"attach", "finish"}
        /\ db' = db \/ (Same(db', mem) /\ db'.state # "ABSENT")
    BY <1>0, <1>a, <1>e, <2>1, EndKeeps
  <2> QED BY <1>0, <1>f, <1>h, <2>1, <2>2, Neutral
<1>15. CASE SetUpConnector
  <2>1. /\ pc = "connect" /\ done' = done /\ holder' = holder /\ secret' = secret /\ db' = db
    BY <1>15 DEF SetUpConnector
  <2>2. mem.datastore = 0 /\ db.datastore = 0
    BY <1>15, <2>1
    DEF SetUpConnector, ReuseDatastore, CredentialsInv, InHand, StoreLags, BeforeDatastore
  <2> DEFINE made == [cloud EXCEPT !.collections = @ \union {CollectionId},
                         !.connClient = holder, !.connSecret = secret,
                         !.connEndpoint = endpoint]
  <2>3. /\ made.client = cloud.client /\ made.downstream = cloud.downstream
        /\ made.authzClient = cloud.authzClient /\ made.authzSecret = cloud.authzSecret
        /\ made.connClient = holder /\ made.connSecret = secret
    BY <1>0 DEF Cloud
  <2> HIDE DEF made
  <2>4. cloud' \in {cloud, made}
    BY <1>15 DEF SetUpConnector, made
  <2>5. Backed(mem, cloud') /\ Backed(db, cloud')
    BY <2>2, <2>3, <2>4 DEF CredentialsInv, Backed
  <2>6. CASE Fail(mem, "connect", "call")
    <3>1. Same(mem', mem) /\ mem'.state # "ABSENT" /\ pc' = "finish"
      BY <1>0, <1>e, <2>6, FailKeeps
    <3>2. Backed(mem', cloud') /\ Backed(db', cloud')
      BY <2>1, <2>5, <3>1 DEF Backed, Same
    <3>3. StoreLags' /\ AtRest' /\ InHand'
      BY <1>h, <2>1, <2>3, <2>4, <3>1
      DEF CredentialsInv, StoreLags, AtRest, NamesNothing, InHand, Same,
          BeforeClient, BeforeAuthorization, BeforeDatastore
    <3> QED BY <3>2, <3>3 DEF CredentialsInv
  <2>7. CASE /\ cloud' = made /\ pc' = "awaitStore"
             /\ mem' = [mem EXCEPT !.collection = CollectionId]
    <3>1. Same(mem', mem) /\ mem'.state = mem.state
      BY <1>0, <2>7 DEF Same, Record
    <3>2. Backed(mem', cloud') /\ Backed(db', cloud')
      BY <2>1, <2>5, <3>1 DEF Backed, Same
    <3>3. StoreLags' /\ AtRest'
      BY <1>a, <2>1, <2>7, <3>1 DEF CredentialsInv, StoreLags, AtRest, NamesNothing, Same
    <3>4. InHand'
      BY <1>h, <2>1, <2>2, <2>3, <2>7, <3>1
      DEF CredentialsInv, InHand, Same, BeforeClient, BeforeAuthorization, BeforeDatastore
    <3> QED BY <3>2, <3>3, <3>4 DEF CredentialsInv
  <2> QED BY <1>15, <2>6, <2>7 DEF SetUpConnector, made
<1>16. CASE AwaitDatastore
  <2>1. /\ pc = "awaitStore" /\ done' = done /\ holder' = holder /\ secret' = secret
        /\ cloud' = cloud
    BY <1>16 DEF AwaitDatastore
  <2>2. mem.datastore = 0 /\ db.datastore = 0
    BY <2>1 DEF CredentialsInv, InHand, StoreLags
  <2>3. CASE Abort(mem, "connect", "call")
    BY <1>0, <1>a, <1>e, <1>f, <1>h, <2>1, <2>3, EndKeeps, Neutral
  <2>4. CASE Complete([mem EXCEPT !.datastore = mem.collection],
                      [mem EXCEPT !.datastore = mem.collection], "connect", "attach")
    <3> DEFINE m == [mem EXCEPT !.datastore = mem.collection]
    <3>1. /\ m \in Record /\ m.proxyClient = mem.proxyClient /\ m.state = mem.state
          /\ m.authorization = mem.authorization /\ m.ok = mem.ok
      <4>1. mem.collection \in Nat
        BY <1>0 DEF Record
      <4> QED BY <1>0, <4>1 DEF Record
    <3> HIDE DEF m
    <3>2. /\ Same(mem', m) /\ "connect" \in mem'.ok /\ mem'.state # "ABSENT"
          /\ db' = db \/ (Same(db', m) /\ "connect" \in db'.ok /\ db'.state # "ABSENT")
          /\ pc' \in {"attach", "finish"}
      BY <1>0, <1>a, <1>e, <2>1, <2>4, <3>1, CompleteKeeps DEF m
    <3>3. /\ cloud.connClient = holder /\ cloud.connSecret = secret
      BY <2>1 DEF CredentialsInv, InHand
    <3>4. Backed(mem', cloud')
      BY <1>h, <2>1, <3>1, <3>2, <3>3 DEF CredentialsInv, Backed, Same
    <3>5. Backed(db', cloud')
      BY <1>h, <2>1, <3>1, <3>2, <3>3 DEF CredentialsInv, Backed, Same
    <3>6. StoreLags' /\ AtRest'
      BY <2>2, <3>1, <3>2 DEF CredentialsInv, StoreLags, AtRest, NamesNothing, Same
    <3>7. InHand'
      BY <1>h, <2>1, <3>1, <3>2
      DEF CredentialsInv, InHand, Same, BeforeClient, BeforeAuthorization, BeforeDatastore
    <3> QED BY <3>4, <3>5, <3>6, <3>7 DEF CredentialsInv
  <2> QED BY <1>16, <2>3, <2>4 DEF AwaitDatastore
<1>17. CASE Attach
  <2>1. /\ pc = "attach" /\ done' = done /\ holder' = holder /\ secret' = secret
    BY <1>17 DEF Attach
  <2>2. Untouched(cloud, cloud')
    BY <1>0, <1>17 DEF Attach, Tied, Untouched, Cloud
  <2>3. CASE Abort(mem, "attach", "call")
    BY <1>0, <1>a, <1>e, <1>f, <1>h, <2>1, <2>2, <2>3, EndKeeps, Neutral
  <2>4. CASE /\ Emit(WithStage(mem, "attach"))
             /\ mem' = [WithStage(mem, "attach") EXCEPT !.state = "READY"]
             /\ pc' = "finish"
    <3>1. /\ Same(WithStage(mem, "attach"), mem) /\ WithStage(mem, "attach").state = mem.state
          /\ Same([WithStage(mem, "attach") EXCEPT !.state = "READY"], mem)
          /\ [WithStage(mem, "attach") EXCEPT !.state = "READY"].state = "READY"
      BY <1>0 DEF WithStage, Same, Record
    <3>2. /\ Same(mem', mem) /\ mem'.state # "ABSENT"
          /\ db' = db \/ (Same(db', mem) /\ db'.state # "ABSENT")
      BY <1>a, <2>1, <2>4, <3>1 DEF Emit
    <3> QED BY <1>0, <1>f, <1>h, <2>1, <2>2, <2>4, <3>2, Neutral
  <2> QED BY <1>17, <2>3, <2>4 DEF Attach
<1>18. ASSUME Idle, Backed(db', cloud'), db'.state = "ABSENT" => NamesNothing(db')
       PROVE  CredentialsInv'
  <2>1. pc' = "idle" /\ mem' = db' /\ holder' = None /\ None # "proxy"
    BY <1>18 DEF Idle, None
  <2>2. StoreLags' /\ AtRest' /\ InHand'
    BY <1>18, <2>1
    DEF StoreLags, AtRest, InHand, NamesNothing, BeforeClient, BeforeAuthorization, BeforeDatastore
  <2> QED BY <1>18, <2>1, <2>2 DEF CredentialsInv
<1>19. CASE Finish
  <2>1. cloud' = cloud /\ Idle /\ pc = "finish" /\ db' \in {mem, Crashed(mem), Crashed(db), db}
    BY <1>19 DEF Finish
  <2>2. \A r \in Record : Same(Crashed(r), r) /\ Crashed(r).state # "ABSENT"
    <3>1. \A r \in Record : Outcome(r) \in States \ {"ABSENT"}
      BY RecordUpdates, <1>e
    <3> QED BY <3>1 DEF Crashed, Same, Record
  <2>3. Backed(db', cloud')
    BY <1>0, <2>1, <2>2, BackedSame DEF CredentialsInv
  <2>4. db'.state = "ABSENT" => NamesNothing(db')
    BY <1>0, <1>a, <2>1, <2>2 DEF CredentialsInv, AtRest
  <2> QED BY <1>18, <2>1, <2>3, <2>4
<1>20. CASE Crash
  BY <1>18, <1>20 DEF Crash, CredentialsInv, AtRest, NamesNothing
<1>21. CASE Submit
  <2>1. /\ pc = "idle" /\ pc' = "preflight" /\ mem' = db' /\ cloud' = cloud /\ holder' = holder
        /\ db.state = "ABSENT" /\ db' = [db EXCEPT !.state = "RUNNING"]
    BY <1>21 DEF Submit
  <2>2. Same(db', db) /\ db'.state = "RUNNING"
    BY <1>0, <2>1 DEF Same, Record
  <2>3. NamesNothing(db) /\ holder' = None /\ None # "proxy"
    BY <2>1 DEF CredentialsInv, AtRest, None
  <2>4. Backed(db', cloud')
    BY <1>0, <2>1, <2>2, BackedSame DEF CredentialsInv
  <2>5. StoreLags' /\ AtRest' /\ InHand'
    BY <2>1, <2>2, <2>3 DEF StoreLags, AtRest, InHand, NamesNothing, Same
  <2> QED BY <2>1, <2>4, <2>5 DEF CredentialsInv
<1>22. ASSUME NEW o \in Overrides, Resume(o)
       PROVE  CredentialsInv'
  <2>1. /\ pc = "idle" /\ pc' = "preflight" /\ mem' = db' /\ cloud' = cloud /\ holder' = holder
        /\ done' = db.ok
        /\ db' = [db EXCEPT !.state = "RUNNING", !.error = None, !.failedStage = None]
    BY <1>22 DEF Resume
  <2>2. Same(db', db) /\ db'.state = "RUNNING" /\ db'.ok = db.ok
    BY <1>0, <2>1 DEF Same, Record
  <2>3. holder' = None /\ None # "proxy"
    BY <2>1 DEF CredentialsInv, AtRest, None
  <2>4. Backed(db', cloud')
    BY <1>0, <2>1, <2>2, BackedSame DEF CredentialsInv
  <2>5. StoreLags' /\ AtRest' /\ InHand'
    BY <2>1, <2>2, <2>3, <2>4 DEF StoreLags, AtRest, InHand, Backed
  <2> QED BY <2>1, <2>4, <2>5 DEF CredentialsInv
<1>23. CASE Delete
  <2>1. pc' = "idle" /\ pc = "idle" /\ db' = NoRecord(db.request) /\ mem' = db' /\ holder' = holder
    BY <1>23 DEF Delete
  <2>2. NamesNothing(db') /\ ~db'.proxyClient /\ ~db'.authorization /\ db'.datastore = 0
    BY <2>1 DEF NoRecord, NamesNothing
  <2>3. holder' = None /\ None # "proxy"
    BY <2>1 DEF CredentialsInv, AtRest, None
  <2>4. Backed(db', cloud')
    BY <2>2 DEF Backed
  <2>5. StoreLags' /\ AtRest' /\ InHand'
    BY <2>1, <2>2, <2>3 DEF StoreLags, AtRest, InHand, BeforeClient,
       BeforeAuthorization, BeforeDatastore
  <2> QED BY <2>1, <2>4, <2>5 DEF CredentialsInv
<1>24. CASE UNCHANGED vars
  BY <1>24 DEF vars, execVars, CredentialsInv, StoreLags, AtRest, InHand, NamesNothing
<1> QED
  BY <1>1, <1>2, <1>3, <1>4, <1>5, <1>6, <1>7, <1>8, <1>9, <1>10, <1>11, <1>12, <1>13, <1>14,
     <1>15, <1>16, <1>17, <1>19, <1>20, <1>21, <1>22, <1>23, <1>24 DEF Next, RunStep

\* No credential is named in the initial state.
LEMMA InitCredentials == Init => CredentialsInv
<1> SUFFICES ASSUME Init PROVE CredentialsInv
  OBVIOUS
<1>1. PICK r \in Requests : mem = NoRecord(Redacted(r)) /\ db = NoRecord(Redacted(r))
  BY DEF Init
<1>2. /\ ~mem.proxyClient /\ ~mem.authorization /\ mem.datastore = 0
      /\ mem = db /\ pc = "idle" /\ holder = None /\ None # "proxy"
  BY <1>1 DEF Init, NoRecord, None
<1> QED
  BY <1>2 DEF CredentialsInv, Backed, StoreLags, InHand, AtRest, NamesNothing,
     BeforeClient, BeforeAuthorization, BeforeDatastore

\* What the stored record and the executor's imply about the credentials holds
\* in every reachable state.
THEOREM CredentialsInvariant == Spec => []CredentialsInv
<1>1. TypeOK /\ CredentialsInv /\ [Next]_vars => CredentialsInv'
  BY StepCredentials
<1> QED BY <1>1, InitCredentials, TypeCorrect, PTL DEF Spec

\* The proxy, Secret Manager, the Authorization and the connector agree on the
\* synthetic client's secret, however often the run is resumed and whatever
\* call, write or process fails on the way (_rehydrate_oauth).
THEOREM SecretsAlwaysAgree == Spec => []SecretsAgree
<1>1. CredentialsInv => SecretsAgree
  BY DEF CredentialsInv, Backed, SecretsAgree
<1> QED BY <1>1, CredentialsInvariant, PTL

-----------------------------------------------------------------------------
(***************************************************************************)
(* The record is true.  What a record names exists, what a run that says   *)
(* READY promises is there, and the store's copy never runs ahead of the   *)
(* executor's: the parts of RunInv.                                        *)
(***************************************************************************)
\* What record r names is in cloud c.
Named(r, c) ==
  /\ r.service => c.service # None
  /\ r.keySecret => c.keySecret /\ r.service
  /\ r.registry => c.registry # None /\ r.registerUrl # None
  /\ r.authorization => c.authzClient # None
  /\ r.collection # 0 => r.collection \in c.collections
  /\ r.datastore # 0 => r.datastore = r.collection

Deployed(r) == r.service => "deploy" \in r.ok

\* What READY promises of record r.
Whole(r, c) ==
  /\ r.ok = Stages /\ Usable(r) /\ r.datastore # 0
  /\ r.request.engine # None => r.datastore \in c.attached

\* Record q names nothing that r does not.
Lags(q, r) ==
  /\ r.request = q.request
  /\ q.service => r.service
  /\ q.keySecret => r.keySecret
  /\ q.registry => r.registry
  /\ q.registerUrl # None => r.registerUrl # None
  /\ q.proxyClient => r.proxyClient
  /\ q.authorization => r.authorization
  /\ q.collection # 0 => r.collection # 0
  /\ q.datastore # 0 => r.datastore # 0

\* How the two records, the executor and the last DELETE go together.
Phases ==
  /\ mem.request = db.request
  /\ pc = "idle" => mem = db
  /\ pc # "idle" => db.state = "RUNNING"
  /\ pc \notin {"idle", "finish"} => mem.state = "RUNNING"
  /\ pc = "finish" => mem.state \in {"STOPPED", "READY", Outcome(mem)}
  /\ report.answered => db.state = "ABSENT"
  /\ db.state = "ABSENT" => ~db.service

\* The points at which stage s need not have been passed.
NotPast ==
  [s \in Stages |->
     {"idle", "finish"} \union
     CASE s = "preflight" -> {"preflight"}
       [] s = "ingest"    -> {"preflight", "ingest"}
       [] s = "deploy"    -> {"preflight", "ingest", "deploy", "createService"}
       [] s = "oauth"     -> BeforeClient \union {"mint", "putClient"}
       [] s = "register"  -> BeforeClient \union {"mint", "putClient", "register"}
       [] s = "authorize" -> BeforeAuthorization
       [] s = "connect"   -> BeforeDatastore \union {"awaitStore"}
       [] s = "attach"    -> Points]

Behind == \A s \in Stages : pc \notin NotPast[s] => s \in mem.ok

\* The request of this execution, against the stored one.
Requested ==
  /\ req.auth # None /\ db.request.auth # None
  /\ db.request.engine # None => req.engine # None

\* What the executor knows at each point of its way.
AtHand ==
  /\ pc \in {"deploy", "createService"} /\ ~existing => mem.manifest # None
  /\ pc \in {"preflight", "ingest", "deploy"} /\ mem.service => "deploy" \in done
  /\ pc = "createService" =>
       ~existing /\ ~mem.service /\ (req.auth = "api_key" => cloud.keySecret)
  /\ pc \in {"oauth", "mint", "putClient", "register", "authorize",
             "connect", "awaitStore", "attach"} => endpoint # None
  /\ pc \in {"authorize", "connect", "awaitStore", "attach"} => mem.registry
  /\ pc = "awaitStore" => mem.collection # 0
  /\ pc = "attach" => mem.datastore # 0

RunInv ==
  /\ Named(mem, cloud) /\ Named(db, cloud) /\ Deployed(mem) /\ Deployed(db)
  /\ mem.state = "READY" => Whole(mem, cloud)
  /\ db.state = "READY" => Whole(db, cloud)
  /\ Lags(db, mem) /\ Phases /\ Behind /\ Requested /\ AtHand

\* Record r is q but for the run's state and its account of the stages.
Kept(r, q) ==
  /\ r.request = q.request /\ r.manifest = q.manifest
  /\ r.service = q.service /\ r.keySecret = q.keySecret
  /\ r.proxyClient = q.proxyClient
  /\ r.registry = q.registry /\ r.registerUrl = q.registerUrl
  /\ r.authorization = q.authorization
  /\ r.collection = q.collection /\ r.datastore = q.datastore

\* Nothing a record can name goes.
Grows(c, d) ==
  /\ c.service # None => d.service # None
  /\ c.keySecret => d.keySecret
  /\ c.registry # None => d.registry # None
  /\ c.authzClient # None => d.authzClient # None
  /\ c.collections \subseteq d.collections
  /\ c.attached \subseteq d.attached

\* What Complete and Fail amount to, for the fields of the records.
Completes(p, k, s, next) ==
  /\ Kept(mem', k) /\ mem'.ok = k.ok \union {s}
  /\ db' = db \/ (Kept(db', p) /\ db'.ok = p.ok \union {s} /\ db'.state = "RUNNING")
  /\ \/ pc' = next /\ mem'.state = "RUNNING" /\ ~ShouldStop(req, s)
     \/ pc' = "finish" /\ mem'.state = "STOPPED"

Fails(k) ==
  /\ Kept(mem', k) /\ k.ok \subseteq mem'.ok
  /\ db' = db \/ (Kept(db', k) /\ k.ok \subseteq db'.ok /\ db'.state = "RUNNING")
  /\ pc' = "finish" /\ mem'.state = Outcome(mem')

LEMMA KeptFacts ==
  ASSUME NEW r \in Record
  PROVE  /\ Kept(r, r)
         /\ \A q \in Record : Kept(q, r) =>
              /\ McpEndpoint(q) = McpEndpoint(r) /\ Usable(q) = Usable(r)
              /\ Outcome(q) = Outcome(r) /\ OutputsOf(q) = OutputsOf(r)
         /\ \A s \in Stages : /\ WithStage(r, s) \in Record /\ Kept(WithStage(r, s), r)
                              /\ WithStage(r, s).ok = r.ok \union {s}
                              /\ WithStage(r, s).state = r.state
<1>1. \A q \in Record : Kept(q, r) =>
        McpEndpoint(q) = McpEndpoint(r) /\ Usable(q) = Usable(r)
  BY DEF Kept, McpEndpoint, Usable
<1>2. \A q \in Record : Kept(q, r) => Outcome(q) = Outcome(r) /\ OutputsOf(q) = OutputsOf(r)
  <2> SUFFICES ASSUME NEW q \in Record, Kept(q, r)
               PROVE  Outcome(q) = Outcome(r) /\ OutputsOf(q) = OutputsOf(r)
    OBVIOUS
  <2>1. Outcome(q) = Outcome(r)
    BY <1>1 DEF Outcome
  <2>2. OutputsOf(q) = OutputsOf(r)
    BY <1>1 DEF OutputsOf, Kept
  <2> QED BY <2>1, <2>2
<1>3. \A s \in Stages : /\ WithStage(r, s) \in Record /\ Kept(WithStage(r, s), r)
                        /\ WithStage(r, s).ok = r.ok \union {s}
                        /\ WithStage(r, s).state = r.state
  BY DEF WithStage, Record, Kept
<1> QED BY <1>1, <1>2, <1>3 DEF Kept

LEMMA CompleteEnds ==
  ASSUME NEW p \in Record, NEW k \in Record, NEW s \in Stages, NEW next,
         Complete(p, k, s, next), p.state = "RUNNING", k.state = "RUNNING"
  PROVE  Completes(p, k, s, next)
<1>1. \A r \in Record : /\ WithStage(r, s) \in Record /\ Kept(WithStage(r, s), r)
                        /\ WithStage(r, s).ok = r.ok \union {s}
                        /\ WithStage(r, s).state = r.state
  BY KeptFacts
<1>2. \A r \in Record : /\ Kept([r EXCEPT !.state = "STOPPED"], r)
                        /\ [r EXCEPT !.state = "STOPPED"].ok = r.ok
                        /\ [r EXCEPT !.state = "STOPPED"].state = "STOPPED"
  BY DEF Record, Kept
<1>3. /\ Kept([WithStage(k, s) EXCEPT !.state = "STOPPED"], k)
      /\ [WithStage(k, s) EXCEPT !.state = "STOPPED"].ok = k.ok \union {s}
      /\ [WithStage(k, s) EXCEPT !.state = "STOPPED"].state = "STOPPED"
  BY <1>1, <1>2 DEF Kept
<1>4. db' = db \/ (Kept(db', p) /\ db'.ok = p.ok \union {s} /\ db'.state = "RUNNING")
  BY <1>1 DEF Complete, Emit
<1> QED BY <1>1, <1>3, <1>4 DEF Complete, Completes

LEMMA FailEnds ==
  ASSUME NEW k \in Record, NEW s \in Stages, NEW e \in Errors, Fail(k, s, e)
  PROVE  /\ Kept(mem', k) /\ mem'.ok = k.ok
         /\ pc' = "finish" /\ mem'.state = Outcome(mem')
<1>1. Outcome(k) \in States
  BY RecordUpdates
<1>2. \A st \in States :
        /\ [k EXCEPT !.state = st, !.failedStage = s, !.error = e] \in Record
        /\ Kept([k EXCEPT !.state = st, !.failedStage = s, !.error = e], k)
        /\ [k EXCEPT !.state = st, !.failedStage = s, !.error = e].ok = k.ok
        /\ [k EXCEPT !.state = st, !.failedStage = s, !.error = e].state = st
  BY DEF Record, Kept
<1>3. /\ mem' \in Record /\ Kept(mem', k) /\ mem'.ok = k.ok /\ mem'.state = Outcome(k)
      /\ pc' = "finish"
  BY <1>1, <1>2 DEF Fail
<1>4. Outcome(mem') = Outcome(k)
  BY <1>3, KeptFacts
<1> QED BY <1>3, <1>4

\* A failure leaves what was named named, published or not.
LEMMA FailFails ==
  ASSUME NEW k \in Record, NEW s \in Stages, NEW e \in Errors, Fail(k, s, e), UNCHANGED db
  PROVE  Fails(k)
BY FailEnds DEF Fails

LEMMA AnnounceFails ==
  ASSUME NEW k \in Record, NEW s \in Stages, NEW e \in Errors, k.state = "RUNNING",
         Emit(WithStage(k, s)), Fail(WithStage(k, s), s, e)
  PROVE  Fails(k)
<1>1. /\ WithStage(k, s) \in Record /\ Kept(WithStage(k, s), k)
      /\ WithStage(k, s).ok = k.ok \union {s} /\ WithStage(k, s).state = "RUNNING"
  BY KeptFacts
<1>2. /\ Kept(mem', WithStage(k, s)) /\ mem'.ok = k.ok \union {s}
      /\ pc' = "finish" /\ mem'.state = Outcome(mem')
  BY <1>1, FailEnds
<1>3. Kept(mem', k)
  BY <1>1, <1>2 DEF Kept
<1> QED BY <1>1, <1>2, <1>3 DEF Emit, Fails

\* What the next step of a record needs of the records it completes with.
Sound(r, s, c) ==
  Named(r, c) /\ (r.service => "deploy" \in r.ok \union {s}) /\ r.request = mem.request

LEMMA NamedKept ==
  ASSUME NEW r, NEW q, NEW c, NEW d, Named(q, c), Kept(r, q), Grows(c, d)
  PROVE  Named(r, d)
BY DEF Named, Kept, Grows

LEMMA CompletesRun ==
  ASSUME TypeOK, TypeOK', RunInv, pc \notin {"idle", "finish"}, UNCHANGED report,
         NEW p \in Record, NEW k \in Record, NEW s \in Stages, NEW next,
         next \notin {"idle", "finish"}, Completes(p, k, s, next),
         Grows(cloud, cloud'), Sound(p, s, cloud'), Sound(k, s, cloud'),
         Lags(mem, p), Lags(mem, k), Lags(p, k)
  PROVE  /\ Named(mem', cloud') /\ Named(db', cloud') /\ Deployed(mem') /\ Deployed(db')
         /\ mem'.state # "READY" /\ db'.state # "READY"
         /\ Lags(db', mem') /\ Phases' /\ Lags(db, db')
         /\ mem'.ok = k.ok \union {s} /\ pc' \in {next, "finish"} /\ mem'.request = mem.request
<1>0. Grows(cloud', cloud')
  BY DEF Grows
<1>1. Named(mem', cloud') /\ Deployed(mem')
  BY <1>0, NamedKept DEF Completes, Sound, Deployed, Kept
<1>2. Named(db', cloud') /\ Deployed(db')
  <2>1. CASE db' = db
    <3>1. Kept(db', db)
      BY <2>1 DEF Kept
    <3> QED BY <2>1, <3>1, NamedKept DEF RunInv
  <2>2. CASE Kept(db', p) /\ db'.ok = p.ok \union {s}
    BY <1>0, <2>2, NamedKept DEF Sound, Deployed, Kept
  <2> QED BY <2>1, <2>2 DEF Completes
<1>3. mem'.state # "READY" /\ db'.state # "READY" /\ db'.state = "RUNNING"
  BY DEF Completes, RunInv, Phases
<1>4. Lags(db', mem') /\ Lags(db, db')
  BY DEF Completes, RunInv, Lags, Kept
<1>5. Phases'
  BY <1>3 DEF Completes, RunInv, Phases, Kept, Sound
<1> QED BY <1>1, <1>2, <1>3, <1>4, <1>5 DEF Completes, Kept, Sound

LEMMA FailsRun ==
  ASSUME TypeOK, TypeOK', RunInv, pc \notin {"idle", "finish"}, UNCHANGED report,
         NEW k \in Record, Fails(k), Grows(cloud, cloud'), Named(k, cloud'),
         k.service => "deploy" \in k.ok, k.request = mem.request, Lags(mem, k)
  PROVE  /\ Named(mem', cloud') /\ Named(db', cloud') /\ Deployed(mem') /\ Deployed(db')
         /\ mem'.state # "READY" /\ db'.state # "READY"
         /\ Lags(db', mem') /\ Phases' /\ Lags(db, db') /\ Behind'
         /\ mem'.request = mem.request /\ pc' = "finish"
<1>0. Grows(cloud', cloud')
  BY DEF Grows
<1>1. Named(mem', cloud') /\ Deployed(mem')
  BY <1>0, NamedKept DEF Fails, Deployed, Kept
<1>2. Named(db', cloud') /\ Deployed(db')
  <2>1. CASE db' = db
    <3>1. Kept(db', db)
      BY <2>1 DEF Kept
    <3> QED BY <2>1, <3>1, NamedKept DEF RunInv
  <2>2. CASE Kept(db', k) /\ k.ok \subseteq db'.ok
    BY <1>0, <2>2, NamedKept DEF Deployed, Kept
  <2> QED BY <2>1, <2>2 DEF Fails
<1>3. mem'.state # "READY" /\ db'.state # "READY" /\ db'.state = "RUNNING"
  BY DEF Fails, RunInv, Phases, Outcome
<1>4. Lags(db', mem') /\ Lags(db, db')
  BY DEF Fails, RunInv, Lags, Kept
<1>5. Phases'
  BY <1>3 DEF Fails, RunInv, Phases, Kept
<1>6. Behind'
  BY DEF Fails, Behind, NotPast
<1> QED BY <1>1, <1>2, <1>3, <1>4, <1>5, <1>6 DEF Fails, Kept

\* One stage further: the next point lies past this stage and no other.
LEMMA BehindNext ==
  /\ \A t \in Stages : "ingest" \notin NotPast[t] => t = "preflight" \/ "preflight" \notin NotPast[t]
  /\ \A t \in Stages : "deploy" \notin NotPast[t] => t = "ingest" \/ "ingest" \notin NotPast[t]
  /\ \A t \in Stages : "oauth" \notin NotPast[t]
                         => t = "deploy" \/ {"deploy", "createService"} \intersect NotPast[t] = {}
  /\ \A t \in Stages : "register" \notin NotPast[t]
                         => t = "oauth" \/ {"oauth", "putClient"} \intersect NotPast[t] = {}
  /\ \A t \in Stages : "authorize" \notin NotPast[t] => t = "register" \/ "register" \notin NotPast[t]
  /\ \A t \in Stages : "connect" \notin NotPast[t] => t = "authorize" \/ "authorize" \notin NotPast[t]
  /\ \A t \in Stages : "attach" \notin NotPast[t]
                         => t = "connect" \/ {"connect", "awaitStore"} \intersect NotPast[t] = {}
  /\ \A t \in Stages : /\ {"finish", "idle", "preflight"} \subseteq NotPast[t]
                       /\ "createService" \notin NotPast[t] => "deploy" \notin NotPast[t]
                       /\ "mint" \notin NotPast[t] => "oauth" \notin NotPast[t]
                       /\ "putClient" \notin NotPast[t] => "mint" \notin NotPast[t]
                       /\ "awaitStore" \notin NotPast[t] => "connect" \notin NotPast[t]
                       /\ t # "attach" => "attach" \notin NotPast[t]
BY DEF NotPast, Stages, BeforeClient, BeforeAuthorization, BeforeDatastore, Points

LEMMA FailStep ==
  ASSUME TypeOK, TypeOK', RunInv, pc \notin {"idle", "finish"}, UNCHANGED <<req, report>>,
         NEW k \in Record, Fails(k), Grows(cloud, cloud'), Named(k, cloud'),
         k.service => "deploy" \in k.ok, k.request = mem.request, Lags(mem, k)
  PROVE  RunInv' /\ Lags(db, db')
<1>1. /\ Named(mem', cloud') /\ Named(db', cloud') /\ Deployed(mem') /\ Deployed(db')
      /\ mem'.state # "READY" /\ db'.state # "READY"
      /\ Lags(db', mem') /\ Phases' /\ Lags(db, db') /\ Behind'
      /\ mem'.request = mem.request /\ pc' = "finish"
  BY FailsRun
<1>2. Requested' /\ AtHand'
  BY <1>1 DEF RunInv, Phases, Requested, AtHand
<1> QED BY <1>1, <1>2 DEF RunInv

LEMMA CompleteStep ==
  ASSUME TypeOK, TypeOK', RunInv, pc \notin {"idle", "finish"}, UNCHANGED <<req, report>>,
         NEW p \in Record, NEW k \in Record, NEW s \in Stages, NEW next,
         next \notin {"idle", "finish"}, Completes(p, k, s, next), mem.ok = k.ok,
         \A t \in Stages : next \notin NotPast[t] => t = s \/ pc \notin NotPast[t],
         Grows(cloud, cloud'), Sound(p, s, cloud'), Sound(k, s, cloud'),
         Lags(mem, p), Lags(mem, k), Lags(p, k), pc' = next => AtHand'
  PROVE  RunInv' /\ Lags(db, db')
<1>1. /\ Named(mem', cloud') /\ Named(db', cloud') /\ Deployed(mem') /\ Deployed(db')
      /\ mem'.state # "READY" /\ db'.state # "READY"
      /\ Lags(db', mem') /\ Phases' /\ Lags(db, db')
      /\ mem'.ok = k.ok \union {s} /\ pc' \in {next, "finish"} /\ mem'.request = mem.request
  BY CompletesRun
<1>2. Behind'
  BY <1>1, BehindNext DEF RunInv, Behind
<1>3. Requested'
  BY <1>1 DEF RunInv, Phases, Requested
<1>4. AtHand'
  BY <1>1 DEF AtHand
<1> QED BY <1>1, <1>2, <1>3, <1>4 DEF RunInv

\* The executor moves within a stage.
LEMMA MoveStep ==
  ASSUME TypeOK, TypeOK', RunInv, pc \notin {"idle", "finish"}, UNCHANGED <<req, report, db>>,
         NEW k \in Record, Kept(mem', k), mem'.ok = mem.ok, mem'.state = mem.state,
         Named(k, cloud'), k.service = mem.service, k.request = mem.request, Lags(mem, k),
         pc' \notin {"idle", "finish"}, \A t \in Stages : pc' \notin NotPast[t] => pc \notin NotPast[t],
         Grows(cloud, cloud'), AtHand'
  PROVE  RunInv' /\ Lags(db, db')
<1>1. Named(mem', cloud') /\ Deployed(mem')
  BY DEF RunInv, Deployed, Kept, Named
<1>2. Kept(db', db)
  BY DEF Kept
<1>3. Named(db', cloud') /\ Deployed(db')
  BY <1>2, NamedKept DEF RunInv, Deployed
<1>4. mem'.state # "READY" /\ db'.state # "READY" /\ Phases'
  BY DEF RunInv, Phases, Kept
<1>5. Lags(db', mem') /\ Lags(db, db') /\ Behind' /\ Requested'
  BY DEF RunInv, Lags, Behind, Requested, Kept
<1> QED BY <1>1, <1>3, <1>4, <1>5 DEF RunInv

LEMMA StepRun ==
  TypeOK /\ TypeOK' /\ CredentialsInv /\ RunInv /\ [Next]_vars
    => RunInv' /\ (Delete \/ Lags(db, db'))
<1> SUFFICES ASSUME TypeOK, TypeOK', CredentialsInv, RunInv, [Next]_vars
             PROVE  RunInv' /\ (Delete \/ Lags(db, db'))
  OBVIOUS
<1>0. /\ mem \in Record /\ db \in Record /\ cloud \in Cloud /\ req \in Request
      /\ Kept(mem, mem) /\ Grows(cloud, cloud) /\ Lags(mem, mem)
      /\ Named(mem, cloud) /\ (mem.service => "deploy" \in mem.ok)
  BY DEF TypeOK, Kept, Grows, Lags, RunInv, Deployed
<1>r. pc \notin {"idle", "finish"} => mem.state = "RUNNING"
  BY DEF RunInv, Phases
<1>e. /\ {"preflight", "ingest", "deploy", "oauth", "register", "authorize", "connect", "attach"}
            \subseteq Stages
      /\ {"call", "truncated", "no_key", "refused", "internal", None, "blocked", "url_conflict"}
            \subseteq Errors
  BY DEF Stages, Errors
\* A stage that leaves the cloud and the record's names alone.
<1>q. ASSUME NEW s \in Stages, NEW next, Complete(mem, mem, s, next),
             UNCHANGED <<req, report, cloud>>, pc \notin {"idle", "finish"},
             next \notin {"idle", "finish"}, pc' = next => AtHand',
             \A t \in Stages : next \notin NotPast[t] => t = s \/ pc \notin NotPast[t]
      PROVE  RunInv' /\ Lags(db, db')
  <2>1. Completes(mem, mem, s, next) /\ Sound(mem, s, cloud') /\ Grows(cloud, cloud')
    BY <1>0, <1>r, <1>q, CompleteEnds DEF Sound
  <2> QED BY <1>0, <1>q, <2>1, CompleteStep
<1>x. ASSUME NEW s \in Stages, NEW e \in Errors, Fail(mem, s, e),
             UNCHANGED <<req, report, db>>, pc \notin {"idle", "finish"}, Grows(cloud, cloud')
      PROVE  RunInv' /\ Lags(db, db')
  <2>1. Fails(mem) /\ Named(mem, cloud')
    BY <1>0, <1>x, FailFails, NamedKept
  <2> QED BY <1>0, <1>x, <2>1, FailStep
<1>y. ASSUME NEW s \in Stages, NEW e \in Errors, Emit(WithStage(mem, s)),
             Fail(WithStage(mem, s), s, e),
             UNCHANGED <<req, report, cloud>>, pc \notin {"idle", "finish"}
      PROVE  RunInv' /\ Lags(db, db')
  <2>1. Fails(mem) /\ Named(mem, cloud') /\ Grows(cloud, cloud')
    BY <1>0, <1>r, <1>y, AnnounceFails
  <2> QED BY <1>0, <1>y, <2>1, FailStep
<1>1. CASE Preflight
  <2>1. pc = "preflight" /\ UNCHANGED <<req, report, cloud, done>>
    BY <1>1 DEF Preflight
  <2>2. CASE Abort(mem, "preflight", "call")
    BY <1>0, <1>e, <1>x, <2>1, <2>2 DEF Abort
  <2>3. CASE Complete(mem, mem, "preflight", "ingest")
    <3>1. Completes(mem, mem, "preflight", "ingest")
      BY <1>0, <1>e, <1>r, <2>1, <2>3, CompleteEnds
    <3>2. pc' = "ingest" => AtHand'
      BY <2>1, <3>1 DEF RunInv, AtHand, Completes, Kept
    <3> QED BY <1>e, <1>q, <2>1, <2>3, <3>2, BehindNext
  <2>4. \A l : Blocking(l) \in Errors
    BY <1>e DEF Blocking
  <2>5. ASSUME NEW l \in BOOLEAN, Emit(WithStage(mem, "preflight")),
               Fail(WithStage(mem, "preflight"), "preflight", Blocking(l))
        PROVE  RunInv' /\ Lags(db, db')
    BY <1>e, <1>y, <2>1, <2>4, <2>5
  <2> QED BY <1>1, <2>2, <2>3, <2>5 DEF Preflight
<1>2. CASE Ingest
  <2>1. pc = "ingest" /\ UNCHANGED <<req, report, cloud, done, existing>>
    BY <1>2 DEF Ingest
  <2>2. ASSUME NEW e \in Errors, Abort(mem, "ingest", e)
        PROVE  RunInv' /\ Lags(db, db')
    BY <1>0, <1>e, <1>x, <2>1, <2>2 DEF Abort
  <2>3. CASE Complete(mem, mem, "ingest", "deploy") /\ (existing \/ mem.manifest # None)
    <3>1. Completes(mem, mem, "ingest", "deploy")
      BY <1>0, <1>e, <1>r, <2>1, <2>3, CompleteEnds
    <3>2. pc' = "deploy" => AtHand'
      BY <2>1, <2>3, <3>1 DEF RunInv, AtHand, Completes, Kept
    <3> QED BY <1>e, <1>q, <2>1, <2>3, <3>2, BehindNext
  <2>4. CASE Emit(WithStage(mem, "ingest")) /\ Fail(WithStage(mem, "ingest"), "ingest", "call")
    BY <1>e, <1>y, <2>1, <2>4
  <2> DEFINE m == [mem EXCEPT !.manifest = req.auth]
  <2>5. CASE Complete(m, m, "ingest", "deploy")
    <3>1. /\ m \in Record /\ m.manifest = req.auth /\ m.state = mem.state /\ m.ok = mem.ok
          /\ m.proxyClient = mem.proxyClient /\ m.request = mem.request
          /\ m.service = mem.service /\ m.keySecret = mem.keySecret
          /\ m.registry = mem.registry /\ m.registerUrl = mem.registerUrl
          /\ m.authorization = mem.authorization
          /\ m.collection = mem.collection /\ m.datastore = mem.datastore
      <4>1. req.auth \in AuthKinds \union {None}
        BY <1>0 DEF Request
      <4> QED BY <1>0, <4>1 DEF Record
    <3> HIDE DEF m
    <3>2. Completes(m, m, "ingest", "deploy")
      BY <1>e, <1>r, <2>1, <2>5, <3>1, CompleteEnds
    <3>3. Sound(m, "ingest", cloud') /\ Lags(mem, m) /\ Lags(m, m) /\ Grows(cloud, cloud')
      BY <1>0, <2>1, <3>1 DEF Sound, Named, Lags
    <3>4. pc' = "deploy" => AtHand'
      BY <2>1, <3>1, <3>2 DEF RunInv, AtHand, Requested, Completes, Kept
    <3> QED BY <1>e, <2>1, <3>1, <3>2, <3>3, <3>4, BehindNext, CompleteStep
  <2> HIDE DEF m
  <2> QED
    BY <1>2, <1>e, <2>2, <2>3, <2>4, <2>5
    DEF Ingest, ReuseManifest, ProbeExisting, BuildManifest, m
<1>3. CASE DeployNothing
  <2>1. /\ pc = "deploy" /\ UNCHANGED <<req, report, cloud>> /\ endpoint' = EndpointHere
        /\ Complete(mem, mem, "deploy", "oauth") /\ (existing \/ ReuseDeployment)
    BY <1>3 DEF DeployNothing
  <2>2. endpoint' # None
    BY <2>1 DEF EndpointHere, ReuseDeployment, None
  <2>3. pc' = "oauth" => AtHand'
    BY <2>2 DEF AtHand
  <2> QED BY <1>e, <1>q, <2>1, <2>3, BehindNext
<1>4. CASE StoreApiKey
  <2>1. /\ pc = "deploy" /\ UNCHANGED <<req, report, db, existing>> /\ ~existing /\ ~ReuseDeployment
    BY <1>4 DEF StoreApiKey
  <2>2. Grows(cloud, cloud')
    BY <1>0, <1>4 DEF StoreApiKey, Grows, Cloud
  <2>3. ASSUME NEW e \in Errors, Fail(mem, "deploy", e)
        PROVE  RunInv' /\ Lags(db, db')
    BY <1>e, <1>x, <2>1, <2>2, <2>3
  <2>4. CASE /\ pc' = "createService" /\ mem' = mem
             /\ req.auth = "api_key" => cloud' = [cloud EXCEPT !.keySecret = TRUE]
    <3>1. ~mem.service
      BY <2>1 DEF ReuseDeployment, McpEndpoint, RunInv, AtHand, None
    <3>2. req.auth = "api_key" => cloud'.keySecret
      BY <1>0, <2>4 DEF Cloud
    <3>3. AtHand'
      BY <2>1, <2>4, <3>1, <3>2 DEF RunInv, AtHand
    <3>4. Named(mem, cloud')
      BY <1>0, <2>2, NamedKept
    <3> QED BY <1>0, <2>1, <2>2, <2>4, <3>3, <3>4, MoveStep, BehindNext
  <2> QED BY <1>4, <1>e, <2>3, <2>4 DEF StoreApiKey, NeedsKey
<1>5. CASE CreateService
  <2>1. pc = "createService" /\ UNCHANGED <<req, report>>
    BY <1>5 DEF CreateService
  <2>2. /\ ~mem.service /\ ~mem.keySecret /\ mem.manifest # None
        /\ req.auth = "api_key" => cloud.keySecret
    BY <2>1 DEF RunInv, AtHand, Named
  <2>3. /\ Served \in Cloud /\ Served.service = mem.manifest /\ Grows(cloud, Served)
        /\ Served.keySecret = cloud.keySecret /\ Served.registry = cloud.registry
        /\ Served.authzClient = cloud.authzClient /\ Served.collections = cloud.collections
    <3>1. mem.manifest \in AuthKinds \union {None}
      BY <1>0 DEF Record
    <3>2. \A k \in AuthKinds \union {None} : [cloud EXCEPT !.service = k] \in Cloud
      BY <1>0, CloudUpdates DEF Clients, Endpoints
    <3> QED BY <1>0, <2>2, <3>1, <3>2 DEF Served, Grows, Cloud
  <2>4. ASSUME NEW e \in Errors, Abort(mem, "deploy", e), cloud' \in {cloud, Served}
        PROVE  RunInv' /\ Lags(db, db')
    BY <1>0, <1>e, <1>x, <2>1, <2>3, <2>4 DEF Abort
  <2> DEFINE m == [mem EXCEPT !.service = TRUE, !.keySecret = (req.auth = "api_key")]
  <2>5. CASE cloud' = Served /\ endpoint' = "generated" /\ Complete(m, m, "deploy", "oauth")
    <3>1. /\ m \in Record /\ m.service /\ m.keySecret = (req.auth = "api_key")
          /\ m.state = mem.state /\ m.ok = mem.ok
          /\ m.proxyClient = mem.proxyClient /\ m.request = mem.request /\ m.manifest = mem.manifest
          /\ m.registry = mem.registry /\ m.registerUrl = mem.registerUrl
          /\ m.authorization = mem.authorization
          /\ m.collection = mem.collection /\ m.datastore = mem.datastore
      <4>1. (req.auth = "api_key") \in BOOLEAN
        OBVIOUS
      <4>2. \A b \in BOOLEAN : LET n == [mem EXCEPT !.service = TRUE, !.keySecret = b] IN
              /\ n \in Record /\ n.service /\ n.keySecret = b
              /\ n.state = mem.state /\ n.ok = mem.ok
              /\ n.proxyClient = mem.proxyClient /\ n.request = mem.request /\ n.manifest = mem.manifest
              /\ n.registry = mem.registry /\ n.registerUrl = mem.registerUrl
              /\ n.authorization = mem.authorization
              /\ n.collection = mem.collection /\ n.datastore = mem.datastore
        BY <1>0 DEF Record
      <4> QED BY <4>1, <4>2
    <3> HIDE DEF m
    <3>2. Completes(m, m, "deploy", "oauth")
      BY <1>e, <1>r, <2>1, <2>5, <3>1, CompleteEnds
    <3>3. Sound(m, "deploy", cloud') /\ Lags(mem, m) /\ Lags(m, m) /\ Grows(cloud, cloud')
      BY <1>0, <2>2, <2>3, <2>5, <3>1 DEF Sound, Named, Lags
    <3>4. pc' = "oauth" => AtHand'
      BY <2>5 DEF AtHand, None
    <3> QED BY <1>e, <2>1, <3>1, <3>2, <3>3, <3>4, BehindNext, CompleteStep
  <2> HIDE DEF m
  <2> QED BY <1>5, <1>e, <2>4, <2>5 DEF CreateService, m
<1>6. CASE OAuthSkip
  <2>1. /\ pc = "oauth" /\ UNCHANGED <<req, report, cloud, endpoint>>
        /\ Complete(mem, mem, "oauth", "register")
    BY <1>6 DEF OAuthSkip
  <2>2. pc' = "register" => AtHand'
    BY <2>1 DEF RunInv, AtHand
  <2> QED BY <1>e, <1>q, <2>1, <2>2, BehindNext
<1>7. CASE RehydrateOauth
  <2>1. pc = "oauth" /\ UNCHANGED <<req, report, cloud, endpoint>>
    BY <1>7 DEF RehydrateOauth
  <2>2. pc' = "register" => AtHand'
    BY <2>1 DEF RunInv, AtHand
  <2>3. Complete(mem, mem, "oauth", "register") \/ Abort(mem, "oauth", "call")
    BY <1>7 DEF RehydrateOauth
  <2> QED BY <1>0, <1>e, <1>q, <1>x, <2>1, <2>2, <2>3, BehindNext DEF Abort
<1>8. CASE DirectOauth
  <2>1. /\ pc = "oauth" /\ UNCHANGED <<req, report, cloud, endpoint>>
        /\ Complete(mem, mem, "oauth", "register")
    BY <1>8 DEF DirectOauth
  <2>2. pc' = "register" => AtHand'
    BY <2>1 DEF RunInv, AtHand
  <2> QED BY <1>e, <1>q, <2>1, <2>2, BehindNext
<1>9. CASE ResolveUpstream
  <2>1. pc = "oauth" /\ UNCHANGED <<req, report, db, endpoint>>
    BY <1>9 DEF ResolveUpstream
  <2>2. Grows(cloud, cloud')
    BY <1>0, <1>9 DEF ResolveUpstream, Grows, Cloud
  <2>3. CASE Fail(mem, "oauth", "call")
    BY <1>e, <1>x, <2>1, <2>2, <2>3
  <2>4. CASE pc' = "mint" /\ mem' = mem
    <3>1. AtHand'
      BY <2>1, <2>4 DEF RunInv, AtHand
    <3>2. Named(mem, cloud')
      BY <1>0, <2>2, NamedKept
    <3> QED BY <1>0, <2>1, <2>2, <2>4, <3>1, <3>2, MoveStep, BehindNext
  <2> QED BY <1>9, <2>3, <2>4 DEF ResolveUpstream
<1>10. CASE MintSecret
  <2>1. pc = "mint" /\ UNCHANGED <<req, report, db, endpoint>>
    BY <1>10 DEF MintSecret
  <2>2. Grows(cloud, cloud')
    BY <1>0, <1>10 DEF MintSecret, Grows, Cloud
  <2>3. CASE Fail(mem, "oauth", "call")
    BY <1>e, <1>x, <2>1, <2>2, <2>3
  <2>4. CASE pc' = "putClient" /\ mem' = mem
    <3>1. AtHand'
      BY <2>1, <2>4 DEF RunInv, AtHand
    <3>2. Named(mem, cloud')
      BY <1>0, <2>2, NamedKept
    <3> QED BY <1>0, <2>1, <2>2, <2>4, <3>1, <3>2, MoveStep, BehindNext
  <2> QED BY <1>10, <2>3, <2>4 DEF MintSecret
<1>11. CASE PutClient
  <2>1. pc = "putClient" /\ UNCHANGED <<req, report, endpoint>>
    BY <1>11 DEF PutClient
  <2>2. Grows(cloud, cloud')
    BY <1>0, <1>11 DEF PutClient, Grows, Cloud
  <2>3. CASE Abort(mem, "oauth", "call")
    BY <1>0, <1>e, <1>x, <2>1, <2>2, <2>3 DEF Abort
  <2> DEFINE k == [mem EXCEPT !.proxyClient = TRUE]
  <2>4. CASE Complete(mem, k, "oauth", "register")
    <3>1. /\ k \in Record /\ k.service = mem.service /\ k.keySecret = mem.keySecret
          /\ k.state = mem.state /\ k.ok = mem.ok
          /\ k.proxyClient = TRUE /\ k.request = mem.request /\ k.manifest = mem.manifest
          /\ k.registry = mem.registry /\ k.registerUrl = mem.registerUrl
          /\ k.authorization = mem.authorization
          /\ k.collection = mem.collection /\ k.datastore = mem.datastore
      BY <1>0 DEF Record
    <3> HIDE DEF k
    <3>2. Completes(mem, k, "oauth", "register")
      BY <1>0, <1>e, <1>r, <2>1, <2>4, <3>1, CompleteEnds
    <3>3. Named(mem, cloud')
      BY <1>0, <2>2, NamedKept
    <3>4. Sound(mem, "oauth", cloud') /\ Sound(k, "oauth", cloud') /\ Lags(mem, k)
      BY <1>0, <3>1, <3>3 DEF Sound, Named, Lags
    <3>5. pc' = "register" => AtHand'
      BY <2>1 DEF RunInv, AtHand
    <3> QED BY <1>0, <1>e, <2>1, <2>2, <3>1, <3>2, <3>4, <3>5, BehindNext, CompleteStep
  <2> HIDE DEF k
  <2> QED BY <1>11, <2>3, <2>4 DEF PutClient, k
<1>12. CASE Register
  <2>1. pc = "register" /\ UNCHANGED <<req, report, endpoint>> /\ endpoint # None
    BY <1>12 DEF Register, RunInv, AtHand
  <2>2. CASE ReuseRegistration /\ Complete(mem, mem, "register", "authorize") /\ cloud' = cloud
    <3>1. Completes(mem, mem, "register", "authorize")
      BY <1>0, <1>e, <1>r, <2>1, <2>2, CompleteEnds
    <3>2. pc' = "authorize" => AtHand'
      BY <2>1, <2>2, <3>1 DEF RunInv, AtHand, ReuseRegistration, Completes, Kept
    <3> QED BY <1>e, <1>q, <2>1, <2>2, <3>2, BehindNext
  <2> DEFINE held == [Asked EXCEPT !.registry = TRUE]
             bound == [cloud EXCEPT !.registry = endpoint]
  <2>3. /\ bound.service = cloud.service /\ bound.keySecret = cloud.keySecret
        /\ bound.registry = endpoint /\ bound.authzClient = cloud.authzClient
        /\ bound.collections = cloud.collections /\ Grows(cloud, bound)
    BY <1>0, <2>1 DEF Cloud, Grows
  <2>4. /\ Asked \in Record /\ Asked.service = mem.service /\ Asked.keySecret = mem.keySecret
        /\ Asked.state = mem.state /\ Asked.ok = mem.ok
        /\ Asked.proxyClient = mem.proxyClient /\ Asked.request = mem.request
        /\ Asked.manifest = mem.manifest
        /\ Asked.registry = mem.registry /\ Asked.registerUrl = endpoint
        /\ Asked.authorization = mem.authorization
        /\ Asked.collection = mem.collection /\ Asked.datastore = mem.datastore
    <3>1. endpoint \in Endpoints
      BY DEF TypeOK
    <3> QED BY <1>0, <3>1 DEF Asked, Record
  <2>5. /\ held \in Record /\ held.service = mem.service /\ held.keySecret = mem.keySecret
        /\ held.state = mem.state /\ held.ok = mem.ok
        /\ held.proxyClient = mem.proxyClient /\ held.request = mem.request
        /\ held.manifest = mem.manifest
        /\ held.registry = TRUE /\ held.registerUrl = endpoint
        /\ held.authorization = mem.authorization
        /\ held.collection = mem.collection /\ held.datastore = mem.datastore
    BY <2>4 DEF Record
  <2> HIDE DEF held, bound
  <2>6. CASE cloud' \in {cloud, bound} /\ Abort(Asked, "register", "call")
    <3>1. Grows(cloud, cloud')
      BY <1>0, <2>3, <2>6
    <3>2. Named(mem, cloud')
      BY <1>0, <3>1, NamedKept
    <3>3. Fails(Asked) /\ Named(Asked, cloud') /\ Lags(mem, Asked)
      BY <1>e, <2>1, <2>4, <2>6, <3>2, FailFails DEF Abort, Named, Lags
    <3> QED BY <1>0, <2>1, <2>4, <3>1, <3>3, FailStep
  <2>7. ASSUME cloud' = bound
        PROVE  Named(held, cloud') /\ Lags(mem, held) /\ Lags(held, held) /\ Grows(cloud, cloud')
    BY <1>0, <2>1, <2>3, <2>5, <2>7 DEF Named, Lags
  <2>8. CASE cloud' = bound /\ Abort(held, "register", "call")
    <3>1. Fails(held)
      BY <1>e, <2>5, <2>8, FailFails DEF Abort
    <3> QED BY <1>0, <2>1, <2>5, <2>7, <2>8, <3>1, FailStep
  <2>9. CASE cloud' = bound /\ Complete(held, held, "register", "authorize")
    <3>1. Completes(held, held, "register", "authorize")
      BY <1>e, <1>r, <2>1, <2>5, <2>9, CompleteEnds
    <3>2. Sound(held, "register", cloud')
      BY <1>0, <2>5, <2>7, <2>9 DEF Sound
    <3>3. pc' = "authorize" => AtHand'
      BY <2>1, <2>5, <3>1 DEF AtHand, Completes, Kept
    <3> QED BY <1>e, <2>1, <2>5, <2>7, <2>9, <3>1, <3>2, <3>3, BehindNext, CompleteStep
  <2> QED BY <1>12, <2>2, <2>6, <2>8, <2>9 DEF Register, held, bound
<1>13. CASE Authorize
  <2>1. /\ pc = "authorize" /\ UNCHANGED <<req, report, endpoint>> /\ endpoint # None
        /\ mem.registry
    BY <1>13 DEF Authorize, RunInv, AtHand
  <2>2. CASE Complete(mem, mem, "authorize", "connect") /\ cloud' = cloud
    <3>1. Completes(mem, mem, "authorize", "connect")
      BY <1>0, <1>e, <1>r, <2>1, <2>2, CompleteEnds
    <3>2. pc' = "connect" => AtHand'
      BY <2>1, <3>1 DEF AtHand, Completes, Kept
    <3> QED BY <1>e, <1>q, <2>1, <2>2, <3>2, BehindNext
  <2> DEFINE k == [mem EXCEPT !.authorization = TRUE]
  <2>3. CASE holder # None /\ cloud' \in {cloud, Authorized}
    <3>1. /\ Authorized.service = cloud.service /\ Authorized.keySecret = cloud.keySecret
          /\ Authorized.registry = cloud.registry /\ Authorized.authzClient = holder
          /\ Authorized.collections = cloud.collections /\ Grows(cloud, Authorized)
      BY <1>0, <2>3 DEF Cloud, Grows, Authorized
    <3>2. /\ k \in Record /\ k.service = mem.service /\ k.keySecret = mem.keySecret
          /\ k.state = mem.state /\ k.ok = mem.ok
          /\ k.proxyClient = mem.proxyClient /\ k.request = mem.request /\ k.manifest = mem.manifest
          /\ k.registry = mem.registry /\ k.registerUrl = mem.registerUrl
          /\ k.authorization = TRUE
          /\ k.collection = mem.collection /\ k.datastore = mem.datastore
      BY <1>0 DEF Record
    <3> HIDE DEF k
    <3>3. Grows(cloud, cloud')
      BY <1>0, <2>3, <3>1
    <3>4. CASE Abort(mem, "authorize", "call")
      BY <1>0, <1>e, <1>x, <2>1, <3>3, <3>4 DEF Abort
    <3>5. CASE cloud' = Authorized /\ Complete(mem, k, "authorize", "connect")
      <4>1. Completes(mem, k, "authorize", "connect")
        BY <1>0, <1>e, <1>r, <2>1, <3>2, <3>5, CompleteEnds
      <4>2. Named(mem, cloud')
        BY <1>0, <3>3, NamedKept
      <4>3. /\ Sound(mem, "authorize", cloud') /\ Sound(k, "authorize", cloud') /\ Lags(mem, k)
        BY <1>0, <2>3, <3>1, <3>2, <3>5, <4>2 DEF Sound, Named, Lags
      <4>4. pc' = "connect" => AtHand'
        BY <2>1, <3>2, <4>1 DEF AtHand, Completes, Kept
      <4> QED BY <1>0, <1>e, <2>1, <3>2, <3>3, <4>1, <4>3, <4>4, BehindNext, CompleteStep
    <3> QED BY <1>13, <2>2, <2>3, <3>4, <3>5 DEF Authorize, k
  <2> QED BY <1>13, <2>2, <2>3 DEF Authorize
<1>14. CASE ReuseConnection
  <2>1. /\ pc = "connect" /\ UNCHANGED <<req, report, cloud, endpoint>> /\ endpoint # None
        /\ mem.registry /\ mem.datastore # 0 /\ Complete(mem, mem, "connect", "attach")
    BY <1>14 DEF ReuseConnection, ReuseDatastore, RunInv, AtHand
  <2>2. Completes(mem, mem, "connect", "attach")
    BY <1>0, <1>e, <1>r, <2>1, CompleteEnds
  <2>3. pc' = "attach" => AtHand'
    BY <2>1, <2>2 DEF AtHand, Completes, Kept
  <2> QED BY <1>e, <1>q, <2>1, <2>3, BehindNext
<1>15. CASE SetUpConnector
  <2>1. /\ pc = "connect" /\ UNCHANGED <<req, report, db, endpoint>> /\ endpoint # None
        /\ mem.registry
    BY <1>15 DEF SetUpConnector, RunInv, AtHand
  <2>2. mem.datastore = 0
    BY <1>15, <2>1 DEF SetUpConnector, ReuseDatastore, CredentialsInv, InHand, BeforeDatastore
  <2>3. CollectionId \in Nat /\ CollectionId # 0
    BY <1>0 DEF CollectionId, TypeOK, Record
  <2> DEFINE made == [cloud EXCEPT !.collections = @ \union {CollectionId},
                         !.connClient = holder, !.connSecret = secret,
                         !.connEndpoint = endpoint]
             k == [mem EXCEPT !.collection = CollectionId]
  <2>4. /\ made.service = cloud.service /\ made.keySecret = cloud.keySecret
        /\ made.registry = cloud.registry /\ made.authzClient = cloud.authzClient
        /\ made.collections = cloud.collections \union {CollectionId} /\ Grows(cloud, made)
    BY <1>0 DEF Cloud, Grows
  <2>5. /\ k \in Record /\ k.service = mem.service /\ k.keySecret = mem.keySecret
        /\ k.state = mem.state /\ k.ok = mem.ok
        /\ k.proxyClient = mem.proxyClient /\ k.request = mem.request /\ k.manifest = mem.manifest
        /\ k.registry = mem.registry /\ k.registerUrl = mem.registerUrl
        /\ k.authorization = mem.authorization /\ Kept(k, k)
        /\ k.collection = CollectionId /\ k.datastore = mem.datastore
    BY <1>0, <2>3 DEF Record, Kept
  <2> HIDE DEF made, k
  <2>6. cloud' \in {cloud, made} /\ Grows(cloud, cloud')
    BY <1>0, <1>15, <2>4 DEF SetUpConnector, made
  <2>7. CASE Fail(mem, "connect", "call")
    BY <1>e, <1>x, <2>1, <2>6, <2>7
  <2>8. CASE cloud' = made /\ mem' = k /\ pc' = "awaitStore"
    <3>1. Named(k, cloud') /\ Lags(mem, k)
      BY <1>0, <2>2, <2>3, <2>4, <2>5, <2>8 DEF Named, Lags
    <3>2. AtHand'
      BY <2>1, <2>3, <2>5, <2>8 DEF AtHand
    <3> QED BY <1>0, <2>1, <2>5, <2>6, <2>8, <3>1, <3>2, MoveStep, BehindNext
  <2> QED BY <1>15, <2>7, <2>8 DEF SetUpConnector, made, k
<1>16. CASE AwaitDatastore
  <2>1. /\ pc = "awaitStore" /\ UNCHANGED <<req, report, cloud, endpoint>> /\ endpoint # None
        /\ mem.registry /\ mem.collection # 0
    BY <1>16 DEF AwaitDatastore, RunInv, AtHand
  <2>2. CASE Abort(mem, "connect", "call")
    BY <1>0, <1>e, <1>x, <2>1, <2>2 DEF Abort
  <2> DEFINE m == [mem EXCEPT !.datastore = mem.collection]
  <2>3. CASE Complete(m, m, "connect", "attach")
    <3>1. /\ m \in Record /\ m.service = mem.service /\ m.keySecret = mem.keySecret
          /\ m.state = mem.state /\ m.ok = mem.ok
          /\ m.proxyClient = mem.proxyClient /\ m.request = mem.request /\ m.manifest = mem.manifest
          /\ m.registry = mem.registry /\ m.registerUrl = mem.registerUrl
          /\ m.authorization = mem.authorization
          /\ m.collection = mem.collection /\ m.datastore = mem.collection
      <4>1. mem.collection \in Nat
        BY <1>0 DEF Record
      <4> QED BY <1>0, <4>1 DEF Record
    <3> HIDE DEF m
    <3>2. Completes(m, m, "connect", "attach")
      BY <1>e, <1>r, <2>1, <2>3, <3>1, CompleteEnds
    <3>3. Sound(m, "connect", cloud') /\ Lags(mem, m) /\ Lags(m, m) /\ Grows(cloud, cloud')
      BY <1>0, <2>1, <3>1 DEF Sound, Named, Lags
    <3>4. pc' = "attach" => AtHand'
      BY <2>1, <3>1, <3>2 DEF AtHand, Completes, Kept
    <3> QED BY <1>e, <2>1, <3>1, <3>2, <3>3, <3>4, BehindNext, CompleteStep
  <2> HIDE DEF m
  <2> QED BY <1>16, <2>2, <2>3 DEF AwaitDatastore, m
<1>17. CASE Attach
  <2>1. /\ pc = "attach" /\ UNCHANGED <<req, report>> /\ mem.registry /\ mem.datastore # 0
    BY <1>17 DEF Attach, RunInv, AtHand
  <2>2. /\ Tied.service = cloud.service /\ Tied.keySecret = cloud.keySecret
        /\ Grows(cloud, Tied) /\ (req.engine # None => mem.datastore \in Tied.attached)
    BY <1>0 DEF Tied, Grows, Cloud
  <2>3. Grows(cloud, cloud')
    BY <1>0, <1>17, <2>2 DEF Attach
  <2>4. CASE Abort(mem, "attach", "call")
    BY <1>0, <1>e, <1>x, <2>1, <2>3, <2>4 DEF Abort
  <2>5. CASE /\ cloud' = Tied /\ Emit(WithStage(mem, "attach"))
             /\ mem' = [WithStage(mem, "attach") EXCEPT !.state = "READY"]
             /\ pc' = "finish"
    <3> DEFINE w == WithStage(mem, "attach")
    <3>1. w \in Record /\ Kept(w, mem) /\ w.ok = mem.ok \union {"attach"} /\ w.state = "RUNNING"
      BY <1>0, <1>e, <1>r, <2>1, KeptFacts
    <3> HIDE DEF w
    <3>2. Kept(mem', w) /\ mem'.ok = w.ok /\ mem'.state = "READY"
      BY <2>5, <3>1 DEF Record, Kept, w
    <3>3. Kept(mem', mem) /\ mem'.ok = mem.ok \union {"attach"}
      BY <3>1, <3>2 DEF Kept
    <3>4. db' = db \/ (Kept(db', mem) /\ mem.ok \subseteq db'.ok /\ db'.state = "RUNNING")
      BY <2>5, <3>1 DEF Emit, w
    <3>5. Named(mem', cloud') /\ Deployed(mem')
      BY <1>0, <2>3, <3>3, NamedKept DEF Deployed, Kept
    <3>6. Kept(db, db)
      BY DEF Kept
    <3>7. Named(db', cloud') /\ Deployed(db')
      BY <1>0, <2>3, <3>4, <3>6, NamedKept DEF RunInv, Deployed, Kept
    <3>8. mem'.ok = Stages
      <4>1. \A t \in Stages : t # "attach" => t \in mem.ok
        BY <2>1, BehindNext DEF RunInv, Behind
      <4>2. mem.ok \subseteq Stages
        BY <1>0 DEF Record
      <4> QED BY <1>e, <3>3, <4>1, <4>2
    <3>9. Usable(mem')
      <4>1. McpEndpoint(mem') # None
        BY <2>1, <3>3, <3>5 DEF McpEndpoint, Named, Kept, None
      <4> QED BY <2>1, <3>3, <4>1 DEF Usable, Kept
    <3>10. Whole(mem', cloud')
      BY <2>1, <2>2, <2>5, <3>3, <3>8, <3>9 DEF Whole, Kept, RunInv, Phases, Requested
    <3>11. db'.state = "RUNNING"
      BY <2>1, <3>4 DEF RunInv, Phases
    <3>12. Phases' /\ Lags(db', mem') /\ Lags(db, db')
      <4>1. Phases'
        BY <2>1, <2>5, <3>2, <3>3, <3>4, <3>11 DEF RunInv, Phases, Kept
      <4>2. Lags(db', mem') /\ Lags(db, db')
        BY <3>3, <3>4 DEF RunInv, Lags, Kept
      <4> QED BY <4>1, <4>2
    <3>13. Behind' /\ Requested' /\ AtHand'
      BY <2>1, <2>5, <3>3, <3>12, BehindNext DEF RunInv, Phases, Behind, Requested, AtHand, Kept
    <3> QED BY <3>5, <3>7, <3>10, <3>11, <3>12, <3>13 DEF RunInv
  <2> QED BY <1>17, <2>4, <2>5 DEF Attach
<1>18. ASSUME Idle, Named(db', cloud'), Deployed(db'), db'.state = "READY" => Whole(db', cloud'),
              db'.request = db.request, ~report'.answered, db'.state # "ABSENT"
       PROVE  RunInv'
  <2>1. mem' = db' /\ pc' = "idle" /\ req' = db'.request
    BY <1>18 DEF Idle
  <2>2. Lags(db', mem') /\ Phases'
    BY <1>18, <2>1 DEF Lags, Phases
  <2>3. Behind' /\ Requested' /\ AtHand'
    BY <1>18, <2>1, BehindNext DEF RunInv, Behind, Requested, AtHand
  <2> QED BY <1>18, <2>1, <2>2, <2>3 DEF RunInv
<1>19. CASE Finish
  <2>1. /\ cloud' = cloud /\ Idle /\ pc = "finish" /\ db' \in {mem, Crashed(mem), Crashed(db), db}
        /\ report' = report /\ db.state = "RUNNING" /\ ~report'.answered
    BY <1>19 DEF Finish, RunInv, Phases
  <2>2. \A r \in Record : /\ Kept(Crashed(r), r) /\ Crashed(r).ok = r.ok
                          /\ Crashed(r).state \in {"PARTIAL", "FAILED"}
    <3>1. \A r \in Record : Outcome(r) \in {"PARTIAL", "FAILED"}
      BY DEF Outcome
    <3> QED BY <3>1 DEF Crashed, Record, Kept
  <2>3. PICK r \in {mem, db} : Kept(db', r) /\ db'.ok = r.ok /\ (db' = r \/ db' = Crashed(r))
    BY <1>0, <2>1, <2>2 DEF Kept
  <2>4. Named(db', cloud') /\ Deployed(db') /\ db'.request = db.request
    BY <1>0, <2>1, <2>3, NamedKept DEF RunInv, Deployed, Phases, Kept
  <2>5. db'.state # "ABSENT"
    BY <1>0, <2>1, <2>2, <2>3 DEF RunInv, Phases, Outcome
  <2>6. db'.state = "READY" => Whole(db', cloud')
    BY <1>0, <2>1, <2>2, <2>3 DEF RunInv
  <2>7. Lags(db, db')
    BY <2>3 DEF RunInv, Lags, Kept
  <2> QED BY <1>18, <2>1, <2>4, <2>5, <2>6, <2>7
<1>20. CASE Crash
  <2>1. Idle /\ pc # "idle" /\ UNCHANGED <<db, cloud, report>>
    BY <1>20 DEF Crash
  <2>2. Named(db', cloud') /\ Deployed(db') /\ Lags(db, db')
    BY <2>1 DEF RunInv, Named, Deployed, Lags
  <2>3. /\ db'.state = "READY" => Whole(db', cloud')
        /\ ~report'.answered /\ db'.state # "ABSENT" /\ db'.request = db.request
    BY <2>1 DEF RunInv, Phases
  <2> QED BY <1>18, <2>1, <2>2, <2>3
<1>21. CASE Submit
  <2>1. /\ pc = "idle" /\ pc' = "preflight" /\ mem' = db' /\ UNCHANGED <<cloud, report, req>>
        /\ db.state = "ABSENT" /\ db' = [db EXCEPT !.state = "RUNNING"] /\ ~report.answered
    BY <1>21 DEF Submit
  <2>2. Kept(db', db) /\ db'.state = "RUNNING" /\ db'.ok = db.ok /\ ~db'.service
    BY <1>0, <2>1 DEF Kept, Record, RunInv, Phases
  <2>3. Named(db', cloud') /\ Deployed(db')
    BY <1>0, <2>1, <2>2, NamedKept DEF RunInv, Deployed
  <2>4. Lags(db', mem') /\ Lags(db, db') /\ Phases' /\ AtHand'
    BY <2>1, <2>2 DEF Lags, Phases, AtHand, Kept
  <2>5. Behind' /\ Requested'
    BY <2>1, <2>2, BehindNext DEF RunInv, Behind, Requested, Kept
  <2> QED BY <2>1, <2>2, <2>3, <2>4, <2>5 DEF RunInv
<1>22. ASSUME NEW o \in Overrides, Resume(o)
       PROVE  RunInv' /\ Lags(db, db')
  <2>1. /\ pc = "idle" /\ pc' = "preflight" /\ mem' = db' /\ UNCHANGED <<cloud, report>>
        /\ done' = db.ok /\ req' = Rehydrate(db.request, o) /\ db.state # "ABSENT"
        /\ db' = [db EXCEPT !.state = "RUNNING", !.error = None, !.failedStage = None]
    BY <1>22 DEF Resume, Resumable
  <2>2. Kept(db', db) /\ db'.state = "RUNNING" /\ db'.ok = db.ok
    BY <1>0, <2>1 DEF Kept, Record
  <2>3. Named(db', cloud') /\ Deployed(db')
    BY <1>0, <2>1, <2>2, NamedKept DEF RunInv, Deployed, Kept
  <2>4. Lags(db', mem') /\ Lags(db, db') /\ Phases'
    BY <2>1, <2>2 DEF Lags, Phases, RunInv, Kept
  <2>5. AtHand'
    BY <2>1, <2>2 DEF AtHand, RunInv, Deployed, Kept
  <2>6. db.request \in Request
    BY <1>0 DEF Record
  <2>7. /\ Redacted(db.request).auth = db.request.auth
        /\ Redacted(db.request).engine = db.request.engine
    BY <2>6 DEF Redacted, Request
  <2>8. Requested'
    BY <2>1, <2>2, <2>7 DEF Rehydrate, DeepMerge, Over, RunInv, Requested, Kept
  <2> QED BY <2>1, <2>2, <2>3, <2>4, <2>5, <2>8, BehindNext DEF RunInv, Behind
<1>23. CASE Delete
  <2>1. /\ pc' = pc /\ pc = "idle" /\ db' = NoRecord(db.request) /\ mem' = db'
        /\ req' = db'.request
    BY <1>23 DEF Delete
  <2>2. /\ ~db'.service /\ ~db'.keySecret /\ ~db'.registry /\ ~db'.authorization
        /\ db'.collection = 0 /\ db'.datastore = 0 /\ db'.state = "ABSENT"
        /\ db'.request = db.request
    BY <2>1 DEF NoRecord
  <2>3. Named(db', cloud') /\ Deployed(db') /\ Lags(db', mem') /\ Phases' /\ AtHand'
    BY <2>1, <2>2 DEF Named, Deployed, Lags, Phases, AtHand
  <2>4. Behind' /\ Requested'
    BY <2>1, <2>2, BehindNext DEF RunInv, Behind, Requested
  <2> QED BY <1>23, <2>1, <2>2, <2>3, <2>4 DEF RunInv
<1>24. CASE UNCHANGED vars
  BY <1>24 DEF vars, execVars, RunInv, Phases, Behind, Requested, AtHand, Lags
<1> QED
  BY <1>1, <1>2, <1>3, <1>4, <1>5, <1>6, <1>7, <1>8, <1>9, <1>10, <1>11, <1>12, <1>13, <1>14,
     <1>15, <1>16, <1>17, <1>19, <1>20, <1>21, <1>22, <1>23, <1>24 DEF Next, RunStep

LEMMA InitRun == Init => RunInv
<1> SUFFICES ASSUME Init PROVE RunInv
  OBVIOUS
<1>1. PICK r \in Requests : req = r /\ mem = NoRecord(Redacted(r)) /\ db = NoRecord(Redacted(r))
  BY DEF Init
<1>2. r \in Request /\ r.auth # None
  BY <1>1, RequestsAssumption
<1>3. Redacted(r).auth = r.auth /\ Redacted(r).engine = r.engine
  BY <1>2 DEF Redacted, Request
<1>4. /\ pc = "idle" /\ report.answered = FALSE /\ mem = db
      /\ ~db.service /\ ~db.keySecret /\ ~db.registry /\ ~db.authorization
      /\ db.collection = 0 /\ db.datastore = 0 /\ db.state = "ABSENT"
      /\ db.request = Redacted(r)
  BY <1>1 DEF Init, NoRecord, NoReport
<1>5. Named(db, cloud) /\ Deployed(db) /\ Lags(db, mem) /\ Phases /\ AtHand
  BY <1>4 DEF Named, Deployed, Lags, Phases, AtHand
<1>6. Behind /\ Requested
  BY <1>1, <1>2, <1>3, <1>4, BehindNext DEF Behind, Requested
<1> QED BY <1>4, <1>5, <1>6 DEF RunInv

\* The executor's record, the stored one and the cloud tell one story.
THEOREM RunInvariant == Spec => []RunInv
<1>1. TypeOK /\ TypeOK' /\ CredentialsInv /\ RunInv /\ [Next]_vars => RunInv'
  BY StepRun
<1> QED BY <1>1, InitRun, TypeCorrect, CredentialsInvariant, PTL DEF Spec

\* What the stored record names exists, so a resume that trusts one of its
\* fields and a teardown that deletes by it act on what is there, whatever was
\* lost, reused or overridden before (_reuse_stage, delete_mcp).
THEOREM RecordAlwaysBacked == Spec => []RecordIsBacked
<1>1. CredentialsInv /\ RunInv => RecordIsBacked
  BY DEF CredentialsInv, RunInv, Backed, Named, RecordIsBacked
<1> QED BY <1>1, CredentialsInvariant, RunInvariant, PTL

\* READY is never said of less than a whole run, in every request, every resume
\* and every failure (Pipeline.run).
THEOREM ReadyAlwaysWhole == Spec => []ReadyIsWhole
<1>1. RunInv => ReadyIsWhole
  BY DEF RunInv, Named, Whole, ReadyIsWhole
<1> QED BY <1>1, RunInvariant, PTL

\* Only the connector's setup makes a collection, and only teardown takes one.
LEMMA CollectionSteps ==
  ASSUME TypeOK, [Next]_vars
  PROVE  \/ cloud'.collections \subseteq cloud.collections
         \/ SetUpConnector /\ cloud'.collections \subseteq cloud.collections \union {CollectionId}
<1>0. cloud \in Cloud
  BY DEF TypeOK
<1>1. CASE \/ Preflight \/ Ingest \/ DeployNothing \/ OAuthSkip \/ RehydrateOauth \/ DirectOauth
           \/ ReuseConnection \/ AwaitDatastore \/ Finish \/ Crash \/ Submit
           \/ (\E o \in Overrides : Resume(o)) \/ UNCHANGED vars
  <2>1. cloud' = cloud
    BY <1>1 DEF Preflight, Ingest, DeployNothing, OAuthSkip, RehydrateOauth, DirectOauth,
       ReuseConnection, AwaitDatastore, Finish, Crash, Submit, Resume, vars
  <2> QED BY <2>1
<1>2. CASE StoreApiKey
  BY <1>0, <1>2 DEF StoreApiKey, Cloud
<1>3. CASE CreateService
  BY <1>0, <1>3 DEF CreateService, Served, Cloud
<1>4. CASE ResolveUpstream
  BY <1>0, <1>4 DEF ResolveUpstream, Cloud
<1>5. CASE MintSecret
  BY <1>0, <1>5 DEF MintSecret, Cloud
<1>6. CASE PutClient
  BY <1>0, <1>6 DEF PutClient, Cloud
<1>7. CASE Register
  BY <1>0, <1>7 DEF Register, Cloud
<1>8. CASE Authorize
  BY <1>0, <1>8 DEF Authorize, Authorized, Cloud
<1>9. CASE SetUpConnector
  BY <1>0, <1>9 DEF SetUpConnector, Cloud
<1>10. CASE Attach
  BY <1>0, <1>10 DEF Attach, Tied, Cloud
<1>11. CASE Delete
  BY <1>0, <1>11 DEF Delete, Without
<1> QED
  BY <1>1, <1>2, <1>3, <1>4, <1>5, <1>6, <1>7, <1>8, <1>9, <1>10, <1>11 DEF Next, RunStep

\* However often a run whose record names a collection is resumed, it makes no
\* second one: the name in the executor's hand is the stored one (_connect).
THEOREM CollectionStays == Spec => CollectionStable
<1>1. TypeOK /\ RunInv /\ [Next]_vars =>
        [db.collection # 0 /\ db'.collection # 0 => cloud'.collections \subseteq cloud.collections]_vars
  <2> SUFFICES ASSUME TypeOK, RunInv, [Next]_vars, db.collection # 0
               PROVE  cloud'.collections \subseteq cloud.collections
    OBVIOUS
  <2>1. mem.collection # 0 /\ mem.collection \in cloud.collections
    BY DEF RunInv, Lags, Named
  <2>2. CollectionId \in cloud.collections
    BY <2>1 DEF CollectionId
  <2> QED BY <2>2, CollectionSteps
<1> QED BY <1>1, RunInvariant, TypeCorrect, PTL DEF Spec, CollectionStable

-----------------------------------------------------------------------------
(***************************************************************************)
(* The pipeline implements RunLifecycle.                                   *)
(***************************************************************************)
LEMMA OutputsGrow ==
  ASSUME NEW q \in Record, NEW r \in Record, Lags(q, r)
  PROVE  OutputsOf(q) \subseteq OutputsOf(r) /\ OutputsOf(r) \subseteq Lifecycle!Outputs
<1>1. McpEndpoint(q) # None => McpEndpoint(r) # None
  BY DEF McpEndpoint, Lags, None
<1>2. OutputsOf(q) \subseteq OutputsOf(r)
  <2> SUFFICES ASSUME NEW o \in OutputsOf(q) PROVE o \in OutputsOf(r)
    OBVIOUS
  <2> QED BY <1>1 DEF OutputsOf, Lags
<1> QED BY <1>2 DEF OutputsOf, Lifecycle!Outputs

\* A record that says READY, PARTIAL or FAILED says what its outputs say.
LEMMA OutcomeSettles ==
  ASSUME NEW r \in Record, NEW c,
         r.state \in {"STOPPED", Outcome(r)} \/ (r.state = "READY" /\ Whole(r, c) /\ Named(r, c))
  PROVE  r.state \in Lifecycle!Settled(OutputsOf(r))
<1>1. Lifecycle!Working(OutputsOf(r)) <=> Usable(r)
  BY DEF Lifecycle!Working, OutputsOf, Usable
<1>2. CASE r.state \in {"STOPPED", Outcome(r)}
  BY <1>1, <1>2 DEF Outcome, Lifecycle!Settled
<1>3. CASE r.state = "READY" /\ Whole(r, c) /\ Named(r, c)
  <2>1. r.collection # 0 /\ r.datastore # 0
    BY <1>3 DEF Whole, Named
  <2>2. {"collection", "datastore"} \subseteq OutputsOf(r)
    BY <2>1 DEF OutputsOf
  <2> QED BY <1>1, <1>3, <2>2 DEF Whole, Lifecycle!Settled
<1> QED BY <1>2, <1>3

\* The executor's steps are its own: it runs, and goes on or finishes.
LEMMA RunStepMoves ==
  ASSUME RunStep
  PROVE  /\ pc # "idle" /\ UNCHANGED report
         /\ Finish \/ pc' # "idle"
<1>1. ASSUME NEW p, NEW k, NEW s, NEW next, Complete(p, k, s, next), next # "idle"
      PROVE  pc' # "idle"
  BY <1>1 DEF Complete
<1>2. \A r, s, e : (Fail(r, s, e) => pc' # "idle") /\ (Abort(r, s, e) => pc' # "idle")
  BY DEF Fail, Abort
<1>3. CASE Preflight
  BY <1>1, <1>2, <1>3 DEF Preflight
<1>4. CASE Ingest
  BY <1>1, <1>2, <1>4 DEF Ingest, ProbeExisting, BuildManifest
<1>5. CASE DeployNothing \/ StoreApiKey \/ CreateService
  BY <1>1, <1>2, <1>5 DEF DeployNothing, StoreApiKey, CreateService
<1>6. CASE OAuthSkip \/ RehydrateOauth \/ DirectOauth \/ ResolveUpstream \/ MintSecret \/ PutClient
  BY <1>1, <1>2, <1>6 DEF OAuthSkip, RehydrateOauth, DirectOauth, ResolveUpstream, MintSecret, PutClient
<1>7. CASE Register \/ Authorize
  BY <1>1, <1>2, <1>7 DEF Register, Authorize
<1>8. CASE ReuseConnection \/ SetUpConnector \/ AwaitDatastore \/ Attach
  BY <1>1, <1>2, <1>8 DEF ReuseConnection, SetUpConnector, AwaitDatastore, Attach
<1>9. CASE Finish
  BY <1>9 DEF Finish
<1> QED BY <1>3, <1>4, <1>5, <1>6, <1>7, <1>8, <1>9 DEF RunStep

\* One step of the pipeline is one step of the lifecycle, or none.
LEMMA StepRefines ==
  ASSUME TypeOK, TypeOK', CredentialsInv, RunInv, [Next]_vars
  PROVE  [Lifecycle!Next]_(Lifecycle!vars)
<1>0. mem \in Record /\ db \in Record /\ db' \in Record /\ RunInv'
  BY StepRun DEF TypeOK
<1>1. Delete \/ (OutputsOf(db) \subseteq OutputsOf(db') /\ OutputsOf(db') \subseteq Lifecycle!Outputs)
  BY <1>0, StepRun, OutputsGrow
<1>2. CASE Submit
  <2>1. /\ db.state = "ABSENT" /\ ~report.answered /\ report' = report
        /\ db' = [db EXCEPT !.state = "RUNNING"]
    BY <1>2 DEF Submit
  <2>2. Kept(db', db) /\ db'.state = "RUNNING"
    BY <1>0, <2>1 DEF Kept, Record
  <2>3. OutputsOf(db') = OutputsOf(db)
    BY <1>0, <2>2, KeptFacts
  <2>4. Lifecycle!Start
    BY <2>1, <2>2, <2>3 DEF Lifecycle!Start
  <2> QED BY <2>4 DEF Lifecycle!Next
<1>3. ASSUME NEW o \in Overrides, Resume(o)
      PROVE  Lifecycle!Next
  <2>1. /\ db.state \notin {"ABSENT", "RUNNING", "READY"} /\ report' = report
        /\ db' = [db EXCEPT !.state = "RUNNING", !.error = None, !.failedStage = None]
    BY <1>3 DEF Resume, Resumable
  <2>2. Kept(db', db) /\ db'.state = "RUNNING" /\ db.state \in States
    BY <1>0, <2>1 DEF Kept, Record
  <2>3. OutputsOf(db') = OutputsOf(db)
    BY <1>0, <2>2, KeptFacts
  <2>4. Lifecycle!Resume
    BY <2>1, <2>2, <2>3 DEF Lifecycle!Resume, States
  <2> QED BY <2>4 DEF Lifecycle!Next
<1>4. CASE Delete
  <2>1. db.state # "ABSENT" /\ db' = NoRecord(db.request) /\ report'.answered = TRUE
    BY <1>4 DEF Delete
  <2>2. /\ ~db'.service /\ ~db'.keySecret /\ ~db'.proxyClient /\ ~db'.registry
        /\ ~db'.authorization /\ db'.collection = 0 /\ db'.datastore = 0 /\ db'.state = "ABSENT"
    BY <2>1 DEF NoRecord
  <2>3. OutputsOf(db') \subseteq {"endpoint"}
    BY <2>2 DEF OutputsOf
  <2>4. Lifecycle!Delete
    BY <2>1, <2>2, <2>3 DEF Lifecycle!Delete
  <2> QED BY <2>4 DEF Lifecycle!Next
<1>5. CASE Crash
  BY <1>5 DEF Crash, Lifecycle!vars
<1>6. CASE RunStep
  <2>1. db.state = "RUNNING" /\ report' = report
    BY <1>6, RunStepMoves DEF RunInv, Phases
  <2>2. ~Delete
    BY <1>6, RunStepMoves DEF Delete
  <2>3. CASE pc' # "idle"
    <3>1. db'.state = "RUNNING"
      BY <1>0, <2>3 DEF RunInv, Phases
    <3>2. Lifecycle!Progress
      BY <1>1, <2>1, <2>2, <3>1 DEF Lifecycle!Progress
    <3> QED BY <3>2 DEF Lifecycle!Next
  <2>4. CASE Finish
    <3>1. cloud' = cloud /\ pc = "finish" /\ db' \in {mem, Crashed(mem), Crashed(db), db}
      BY <2>4 DEF Finish
    <3>2. CASE db' = db
      BY <2>1, <3>2 DEF Lifecycle!vars
    <3>3. CASE db' # db
      <4>1. \A r \in Record : Kept(Crashed(r), r) /\ Crashed(r).state = Outcome(r)
        <5>1. \A r \in Record : Outcome(r) \in States
          BY RecordUpdates DEF Stages
        <5> QED BY <5>1 DEF Crashed, Record, Kept
      <4>2. db' \in {Crashed(mem), Crashed(db)} => db'.state = Outcome(db')
        BY <1>0, <4>1, KeptFacts
      <4>3. \/ db'.state \in {"STOPPED", Outcome(db')}
            \/ (db'.state = "READY" /\ Whole(db', cloud) /\ Named(db', cloud))
        BY <1>0, <3>1, <3>3, <4>2 DEF RunInv, Phases
      <4>4. Lifecycle!Settle
        BY <1>0, <1>1, <2>1, <2>2, <4>3, OutcomeSettles DEF Lifecycle!Settle
      <4> QED BY <4>4 DEF Lifecycle!Next
    <3> QED BY <3>2, <3>3
  <2> QED BY <1>6, <2>3, <2>4, RunStepMoves
<1>7. CASE UNCHANGED vars
  BY <1>7 DEF vars, Lifecycle!vars
<1> QED BY <1>2, <1>3, <1>4, <1>5, <1>6, <1>7 DEF Next

\* Whatever a run does, whoever polls its record sees the life RunLifecycle
\* promises: it settles as what it has built, forgets nothing it has named, is
\* resumed only short of success, and is gone after its deletion.
THEOREM RunImplementsLifecycle == Spec => ImplementsLifecycle
<1>1. Init => Lifecycle!Init
  <2> SUFFICES ASSUME Init PROVE Lifecycle!Init
    OBVIOUS
  <2>1. PICK r \in Requests : db = NoRecord(Redacted(r))
    BY DEF Init
  <2>2. /\ ~db.service /\ ~db.keySecret /\ ~db.proxyClient /\ ~db.registry
        /\ ~db.authorization /\ db.collection = 0 /\ db.datastore = 0 /\ db.state = "ABSENT"
    BY <2>1 DEF NoRecord
  <2>3. OutputsOf(db) \subseteq {"endpoint"}
    BY <2>2 DEF OutputsOf
  <2>4. report.answered = FALSE
    BY DEF Init, NoReport
  <2> QED BY <2>2, <2>3, <2>4 DEF Lifecycle!Init
<1>2. TypeOK /\ TypeOK' /\ CredentialsInv /\ RunInv /\ [Next]_vars => [Lifecycle!Next]_(Lifecycle!vars)
  BY StepRefines
<1> QED
  BY <1>1, <1>2, TypeCorrect, CredentialsInvariant, RunInvariant, PTL
  DEF Spec, ImplementsLifecycle, Lifecycle!Spec

-----------------------------------------------------------------------------
(***************************************************************************)
(* Where a run stops, and what its teardown takes with it.                 *)
(***************************************************************************)
\* The stage a point of the executor belongs to.
StageOf(p) == IF p \in {"preflight", "ingest"} THEN p ELSE StageAt[p]

Working == Points \ {"idle", "finish"}

WithinStop ==
  pc \in Working /\ req.stop # None => StageIndex[StageOf(pc)] =< StageIndex[req.stop]

LEMMA IndexFacts ==
  /\ StageIndex["preflight"] = 0 /\ StageIndex["ingest"] = 1 /\ StageIndex["deploy"] = 2
  /\ StageIndex["oauth"] = 3 /\ StageIndex["register"] = 4 /\ StageIndex["authorize"] = 5
  /\ StageIndex["connect"] = 6 /\ StageIndex["attach"] = 7
  /\ \A s \in Stages : StageIndex[s] \in Nat
BY DEF StageIndex, Stages

LEMMA PointFacts ==
  /\ StageOf("preflight") = "preflight" /\ StageOf("ingest") = "ingest"
  /\ StageOf("deploy") = "deploy" /\ StageOf("createService") = "deploy"
  /\ StageOf("oauth") = "oauth" /\ StageOf("mint") = "oauth" /\ StageOf("putClient") = "oauth"
  /\ StageOf("register") = "register" /\ StageOf("authorize") = "authorize"
  /\ StageOf("connect") = "connect" /\ StageOf("awaitStore") = "connect"
  /\ StageOf("attach") = "attach"
  /\ Working = {"preflight", "ingest", "deploy", "createService", "oauth", "mint", "putClient",
                "register", "authorize", "connect", "awaitStore", "attach"}
<1>1. Working = {"preflight", "ingest", "deploy", "createService", "oauth", "mint", "putClient",
                 "register", "authorize", "connect", "awaitStore", "attach"}
  BY DEF Working, Points, BeforeDatastore, BeforeAuthorization, BeforeClient
<1> QED BY <1>1 DEF StageOf, StageAt

\* Where a step of a run leads: to its end, on within the stage, or past the
\* stage and its stop_after check.
LEMMA PointMoves ==
  ASSUME RunStep
  PROVE  /\ pc' \in {"idle", "finish"} \/ req' = req
         /\ \/ pc' \in {"idle", "finish"}
            \/ StageOf(pc') = StageOf(pc) /\ pc' \in Working
            \/ /\ ~ShouldStop(req, StageOf(pc)) /\ pc' \in Working
               /\ StageIndex[StageOf(pc')] = StageIndex[StageOf(pc)] + 1
<1>1. \A p, k, s, next : Complete(p, k, s, next) =>
        pc' = "finish" \/ (pc' = next /\ ~ShouldStop(req, s))
  BY DEF Complete
<1>2. \A r, s, e : (Fail(r, s, e) => pc' = "finish") /\ (Abort(r, s, e) => pc' = "finish")
  BY DEF Fail, Abort
<1>3. CASE Preflight
  BY <1>1, <1>2, <1>3, IndexFacts, PointFacts DEF Preflight
<1>4. CASE Ingest
  BY <1>1, <1>2, <1>4, IndexFacts, PointFacts DEF Ingest, ProbeExisting, BuildManifest
<1>5. CASE DeployNothing \/ StoreApiKey \/ CreateService
  BY <1>1, <1>2, <1>5, IndexFacts, PointFacts DEF DeployNothing, StoreApiKey, CreateService
<1>6. CASE OAuthSkip \/ RehydrateOauth \/ DirectOauth \/ ResolveUpstream \/ MintSecret \/ PutClient
  <2>1. CASE ResolveUpstream
    BY <1>2, <2>1, IndexFacts, PointFacts DEF ResolveUpstream
  <2>2. CASE OAuthSkip \/ RehydrateOauth \/ DirectOauth \/ MintSecret \/ PutClient
    BY <1>1, <1>2, <2>2, IndexFacts, PointFacts
    DEF OAuthSkip, RehydrateOauth, DirectOauth, MintSecret, PutClient
  <2> QED BY <1>6, <2>1, <2>2
<1>7. CASE Register \/ Authorize
  BY <1>1, <1>2, <1>7, IndexFacts, PointFacts DEF Register, Authorize
<1>8. CASE ReuseConnection \/ SetUpConnector \/ AwaitDatastore \/ Attach
  BY <1>1, <1>2, <1>8, IndexFacts, PointFacts
  DEF ReuseConnection, SetUpConnector, AwaitDatastore, Attach
<1>9. CASE Finish
  BY <1>9 DEF Finish, Idle
<1> QED BY <1>3, <1>4, <1>5, <1>6, <1>7, <1>8, <1>9 DEF RunStep

LEMMA StepStop == TypeOK /\ TypeOK' /\ WithinStop /\ [Next]_vars => WithinStop'
<1> SUFFICES ASSUME TypeOK, TypeOK', WithinStop, [Next]_vars PROVE WithinStop'
  OBVIOUS
<1>0. req \in Request /\ req' \in Request /\ pc \in Points
  BY DEF TypeOK
<1>1. CASE RunStep
  <2>1. CASE pc' \in {"idle", "finish"}
    BY <2>1 DEF WithinStop, Working
  <2>2. CASE req' = req /\ pc' \in Working /\ pc \in Working /\ req.stop # None
    <3>1. req.stop \in Stages /\ StageOf(pc) \in Stages
      BY <1>0, <2>2, PointFacts DEF Request, Stages
    <3>2. StageIndex[req.stop] \in Nat /\ StageIndex[StageOf(pc)] \in Nat
      BY <3>1, IndexFacts
    <3>3. ~ShouldStop(req, StageOf(pc)) => StageIndex[StageOf(pc)] < StageIndex[req.stop]
      BY <2>2, <3>2 DEF ShouldStop
    <3> QED BY <1>1, <2>2, <3>2, <3>3, PointMoves DEF WithinStop, Working
  <2>3. pc \in Working \/ pc' \in {"idle", "finish"}
    BY <1>0, <1>1, RunStepMoves DEF Working, RunStep, Preflight, Ingest, DeployNothing,
       StoreApiKey, CreateService, OAuthSkip, RehydrateOauth, DirectOauth, ResolveUpstream,
       MintSecret, PutClient, Register, Authorize, ReuseConnection, SetUpConnector,
       AwaitDatastore, Attach, Finish, Idle
  <2> QED BY <1>1, <2>1, <2>2, <2>3, PointMoves DEF WithinStop
<1>2. CASE Submit \/ (\E o \in Overrides : Resume(o))
  <2>1. pc' = "preflight"
    BY <1>2 DEF Submit, Resume
  <2>2. req'.stop # None => StageIndex[req'.stop] \in Nat
    BY <1>0, IndexFacts DEF Request
  <2> QED BY <2>1, <2>2, IndexFacts, PointFacts DEF WithinStop
<1>3. CASE Crash \/ Delete
  BY <1>3 DEF Crash, Idle, Delete, WithinStop, Working
<1>4. CASE UNCHANGED vars
  BY <1>4 DEF vars, execVars, WithinStop
<1> QED BY <1>1, <1>2, <1>3, <1>4 DEF Next

\* A run told to stop after a stage makes no change to the cloud in a later one,
\* whether its stages are done or reused and wherever it is resumed (stop_after).
THEOREM StopAlwaysHonoured == Spec => StopHonoured
<1>1. Init => WithinStop
  BY DEF Init, WithinStop, Working
<1>2. TypeOK /\ WithinStop /\ [Next]_vars =>
        [cloud' # cloud /\ pc # "idle" /\ req.stop # None
           => StageIndex[StageAt[pc]] <= StageIndex[req.stop]]_vars
  <2> SUFFICES ASSUME TypeOK, WithinStop, [Next]_vars,
                      cloud' # cloud, pc # "idle", req.stop # None
               PROVE  StageIndex[StageAt[pc]] <= StageIndex[req.stop]
    OBVIOUS
  <2>1. \/ StoreApiKey \/ CreateService \/ ResolveUpstream \/ MintSecret \/ PutClient
        \/ Register \/ Authorize \/ SetUpConnector \/ Attach
    BY DEF Next, RunStep, Preflight, Ingest, DeployNothing, OAuthSkip, RehydrateOauth, DirectOauth,
       ReuseConnection, AwaitDatastore, Finish, Crash, Submit, Resume, Delete, vars
  <2>2. pc \in Working \ {"preflight", "ingest"}
    BY <2>1, PointFacts DEF StoreApiKey, CreateService, ResolveUpstream, MintSecret, PutClient,
       Register, Authorize, SetUpConnector, Attach
  <2> QED BY <2>2 DEF WithinStop, StageOf
<1> QED BY <1>1, <1>2, StepStop, TypeCorrect, PTL DEF Spec, StopHonoured

\* All that is in cloud c is named by record r: what a teardown of r removes.
Accounted(r, c) ==
  /\ c.registry # None => r.registry
  /\ c.client # 0 => r.proxyClient
  /\ c.authzClient # None \/ c.authzSecret # 0 => r.authorization
  /\ r.collection = 0 => c.connClient = None /\ c.connSecret = 0 /\ c.connEndpoint = None
  /\ c.collections \subseteq {r.collection} \ {0}
  /\ c.attached \subseteq {r.datastore} \ {0}
  /\ c.attached # {} => r.request.engine # None

\* What a stage has made and not yet put on the record.
InFlight ==
  /\ cloud.keySecret => mem.keySecret \/ (pc = "createService" /\ req.auth = "api_key")
  /\ cloud.upstream => mem.proxyClient \/ pc \in {"mint", "putClient"}
  /\ cloud.downstream # 0 => mem.proxyClient \/ pc = "putClient"

\* A first attempt that has not failed: it waits, works, or has succeeded.
FirstAttempt ==
  /\ resumes = 0 /\ ~report.answered
  /\ pc = "idle" => db.state \in {"ABSENT", "READY"}
  /\ pc = "finish" => mem.state = "READY"

Tidy ==
  FirstAttempt => Accounted(mem, cloud) /\ InFlight
                  /\ (req.engine # None => mem.request.engine # None)

\* A step that neither fails nor makes anything keeps the account.
LEMMA TidyKeeps ==
  ASSUME Tidy, FirstAttempt, pc \notin {"createService", "mint", "putClient"},
         Kept(mem', mem), cloud' = cloud, req' = req
  PROVE  Tidy'
BY DEF Tidy, Accounted, InFlight, Kept

LEMMA StepTidy == TypeOK /\ TypeOK' /\ CredentialsInv /\ RunInv /\ Tidy /\ [Next]_vars => Tidy'
<1> SUFFICES ASSUME TypeOK, TypeOK', CredentialsInv, RunInv, Tidy, [Next]_vars, FirstAttempt'
             PROVE  Tidy'
  BY DEF Tidy
<1>0. /\ mem \in Record /\ db \in Record /\ cloud \in Cloud /\ req \in Request /\ Kept(mem, mem)
      /\ resumes \in Nat
  BY DEF TypeOK, Kept
<1>r. pc \notin {"idle", "finish"} => mem.state = "RUNNING"
  BY DEF RunInv, Phases
<1>e. {"preflight", "ingest", "deploy", "oauth", "register", "authorize", "connect", "attach"}
        \subseteq Stages
  BY DEF Stages
<1>w. RunStep /\ ~Finish => FirstAttempt
  <2> SUFFICES ASSUME RunStep, ~Finish PROVE FirstAttempt
    OBVIOUS
  <2>1. pc \notin {"idle", "finish"}
    BY DEF RunStep, Preflight, Ingest, DeployNothing, StoreApiKey, CreateService, OAuthSkip,
       RehydrateOauth, DirectOauth, ResolveUpstream, MintSecret, PutClient, Register, Authorize,
       ReuseConnection, SetUpConnector, AwaitDatastore, Attach
  <2>2. resumes' = resumes
    BY DEF RunStep, Preflight, Ingest, DeployNothing, StoreApiKey, CreateService, OAuthSkip,
       RehydrateOauth, DirectOauth, ResolveUpstream, MintSecret, PutClient, Register, Authorize,
       ReuseConnection, SetUpConnector, AwaitDatastore, Attach, bounds
  <2> QED BY <2>1, <2>2, RunStepMoves DEF FirstAttempt
<1>o. \A r \in Record : Outcome(r) \in {"PARTIAL", "FAILED"}
  BY DEF Outcome
\* A stage that fails makes this an attempt that failed.
<1>x. \A k \in Record : \A s \in Stages : \A e : ~Fail(k, s, e)
  <2> SUFFICES ASSUME NEW k \in Record, NEW s \in Stages, NEW e, Fail(k, s, e) PROVE FALSE
    OBVIOUS
  <2>1. mem'.state = Outcome(k) /\ pc' = "finish"
    BY <1>0 DEF Fail, Record
  <2> QED BY <1>o, <2>1 DEF FirstAttempt
<1>c. ASSUME NEW p \in Record, NEW k \in Record, NEW s \in Stages, NEW next,
             Complete(p, k, s, next), p.state = "RUNNING", k.state = "RUNNING"
      PROVE  Kept(mem', k) /\ pc' = next
  <2>1. Completes(p, k, s, next)
    BY <1>c, CompleteEnds
  <2> QED BY <2>1 DEF Completes, FirstAttempt
<1>1. CASE Preflight
  <2>1. pc = "preflight" /\ req' = req /\ cloud' = cloud
    BY <1>1 DEF Preflight
  <2>2. WithStage(mem, "preflight") \in Record
    BY <1>0, <1>e, RecordUpdates
  <2>3. Complete(mem, mem, "preflight", "ingest")
    BY <1>0, <1>1, <1>e, <1>x, <2>2 DEF Preflight, Abort
  <2> QED BY <1>0, <1>1, <1>c, <1>e, <1>r, <1>w, <2>1, <2>3, TidyKeeps DEF RunStep, Finish
<1>2. CASE Ingest
  <2>1. pc = "ingest" /\ req' = req /\ cloud' = cloud
    BY <1>2 DEF Ingest
  <2>2. WithStage(mem, "ingest") \in Record
    BY <1>0, <1>e, RecordUpdates
  <2> DEFINE m == [mem EXCEPT !.manifest = req.auth]
  <2>3. Complete(mem, mem, "ingest", "deploy") \/ Complete(m, m, "ingest", "deploy")
    BY <1>0, <1>2, <1>e, <1>x, <2>2 DEF Ingest, ProbeExisting, BuildManifest, Abort
  <2>4. /\ m \in Record /\ m.state = mem.state /\ m.request = mem.request
        /\ m.keySecret = mem.keySecret /\ m.proxyClient = mem.proxyClient
        /\ m.registry = mem.registry /\ m.authorization = mem.authorization
        /\ m.collection = mem.collection /\ m.datastore = mem.datastore
    <3>1. req.auth \in AuthKinds \union {None}
      BY <1>0 DEF Request
    <3> QED BY <1>0, <3>1 DEF Record
  <2> HIDE DEF m
  <2>5. FirstAttempt
    BY <1>2, <1>w, <2>1 DEF RunStep, Finish
  <2>6. CASE Complete(mem, mem, "ingest", "deploy")
    BY <1>0, <1>c, <1>e, <1>r, <2>1, <2>5, <2>6, TidyKeeps
  <2>7. CASE Complete(m, m, "ingest", "deploy")
    <3>1. Kept(mem', m)
      BY <1>c, <1>e, <1>r, <2>1, <2>4, <2>7
    <3> QED BY <2>1, <2>4, <2>5, <3>1 DEF Tidy, Accounted, InFlight, Kept
  <2> QED BY <2>3, <2>6, <2>7
<1>3. CASE DeployNothing \/ OAuthSkip \/ RehydrateOauth \/ DirectOauth
  <2>1. pc \in {"deploy", "oauth"} /\ req' = req /\ cloud' = cloud
    BY <1>3 DEF DeployNothing, OAuthSkip, RehydrateOauth, DirectOauth
  <2>2. Complete(mem, mem, "deploy", "oauth") \/ Complete(mem, mem, "oauth", "register")
    BY <1>0, <1>3, <1>e, <1>x DEF DeployNothing, OAuthSkip, RehydrateOauth, DirectOauth, Abort
  <2>3. FirstAttempt
    BY <1>3, <1>w, <2>1 DEF RunStep, Finish
  <2> QED BY <1>0, <1>c, <1>e, <1>r, <2>1, <2>2, <2>3, TidyKeeps
<1>4. CASE StoreApiKey
  <2>1. /\ pc = "deploy" /\ req' = req /\ mem' = mem /\ pc' = "createService"
        /\ \/ cloud' = [cloud EXCEPT !.keySecret = TRUE] /\ req.auth = "api_key"
           \/ cloud' = cloud
    BY <1>0, <1>4, <1>e, <1>x DEF StoreApiKey, NeedsKey
  <2>2. FirstAttempt
    BY <1>4, <1>w, <2>1 DEF RunStep, Finish
  <2>3. /\ cloud'.registry = cloud.registry /\ cloud'.client = cloud.client
        /\ cloud'.authzClient = cloud.authzClient /\ cloud'.authzSecret = cloud.authzSecret
        /\ cloud'.connClient = cloud.connClient /\ cloud'.connSecret = cloud.connSecret
        /\ cloud'.connEndpoint = cloud.connEndpoint /\ cloud'.collections = cloud.collections
        /\ cloud'.attached = cloud.attached /\ cloud'.upstream = cloud.upstream
        /\ cloud'.downstream = cloud.downstream
        /\ req.auth # "api_key" => cloud'.keySecret = cloud.keySecret
    BY <1>0, <2>1 DEF Cloud
  <2> QED BY <2>1, <2>2, <2>3 DEF Tidy, Accounted, InFlight
<1>5. CASE CreateService
  <2> DEFINE m == [mem EXCEPT !.service = TRUE, !.keySecret = (req.auth = "api_key")]
  <2>1. pc = "createService" /\ req' = req
    BY <1>5 DEF CreateService
  <2>2. cloud' = Served /\ Complete(m, m, "deploy", "oauth")
    BY <1>0, <1>5, <1>e, <1>x DEF CreateService, Abort
  <2>3. FirstAttempt
    BY <1>5, <1>w, <2>1 DEF RunStep, Finish
  <2>4. /\ m \in Record /\ m.state = mem.state /\ m.request = mem.request
        /\ m.keySecret = (req.auth = "api_key") /\ m.proxyClient = mem.proxyClient
        /\ m.registry = mem.registry /\ m.authorization = mem.authorization
        /\ m.collection = mem.collection /\ m.datastore = mem.datastore
    <3>1. (req.auth = "api_key") \in BOOLEAN
      OBVIOUS
    <3>2. \A b \in BOOLEAN : LET n == [mem EXCEPT !.service = TRUE, !.keySecret = b] IN
            /\ n \in Record /\ n.state = mem.state /\ n.request = mem.request
            /\ n.keySecret = b /\ n.proxyClient = mem.proxyClient
            /\ n.registry = mem.registry /\ n.authorization = mem.authorization
            /\ n.collection = mem.collection /\ n.datastore = mem.datastore
      BY <1>0 DEF Record
    <3> QED BY <3>1, <3>2
  <2> HIDE DEF m
  <2>5. Kept(mem', m) /\ pc' = "oauth"
    BY <1>c, <1>e, <1>r, <2>1, <2>2, <2>4
  <2>6. /\ cloud'.registry = cloud.registry /\ cloud'.client = cloud.client
        /\ cloud'.authzClient = cloud.authzClient /\ cloud'.authzSecret = cloud.authzSecret
        /\ cloud'.connClient = cloud.connClient /\ cloud'.connSecret = cloud.connSecret
        /\ cloud'.connEndpoint = cloud.connEndpoint /\ cloud'.collections = cloud.collections
        /\ cloud'.attached = cloud.attached /\ cloud'.upstream = cloud.upstream
        /\ cloud'.downstream = cloud.downstream /\ cloud'.keySecret = cloud.keySecret
    BY <1>0, <2>2 DEF Cloud, Served
  <2>7. Accounted(mem, cloud) /\ InFlight /\ (req.engine # None => mem.request.engine # None)
    BY <2>3 DEF Tidy
  <2>8. Accounted(m, cloud) /\ m.request = mem.request
    BY <2>4, <2>7 DEF Accounted
  <2>9. Accounted(mem', cloud')
    BY <2>5, <2>6, <2>8 DEF Accounted, Kept
  <2>10. ~mem.keySecret
    BY <2>1 DEF RunInv, AtHand, Named
  <2>11. cloud.keySecret => mem'.keySecret
    BY <2>1, <2>4, <2>5, <2>7, <2>10 DEF InFlight, Kept
  <2>12. mem'.proxyClient = mem.proxyClient /\ mem'.request = mem.request
    BY <2>4, <2>5 DEF Kept
  <2>13. InFlight'
    BY <2>1, <2>6, <2>7, <2>11, <2>12 DEF InFlight
  <2> QED BY <2>1, <2>7, <2>9, <2>12, <2>13 DEF Tidy
<1>6. CASE ResolveUpstream
  <2>1. pc = "oauth" /\ req' = req /\ mem' = mem /\ pc' = "mint"
    BY <1>0, <1>6, <1>e, <1>x DEF ResolveUpstream
  <2>2. FirstAttempt
    BY <1>6, <1>w, <2>1 DEF RunStep, Finish
  <2>3. /\ cloud'.registry = cloud.registry /\ cloud'.client = cloud.client
        /\ cloud'.authzClient = cloud.authzClient /\ cloud'.authzSecret = cloud.authzSecret
        /\ cloud'.connClient = cloud.connClient /\ cloud'.connSecret = cloud.connSecret
        /\ cloud'.connEndpoint = cloud.connEndpoint /\ cloud'.collections = cloud.collections
        /\ cloud'.attached = cloud.attached /\ cloud'.keySecret = cloud.keySecret
        /\ cloud'.downstream = cloud.downstream
    BY <1>0, <1>6 DEF Cloud, ResolveUpstream
  <2> QED BY <2>1, <2>2, <2>3 DEF Tidy, Accounted, InFlight
<1>7. CASE MintSecret
  <2>1. pc = "mint" /\ req' = req /\ mem' = mem /\ pc' = "putClient"
    BY <1>0, <1>7, <1>e, <1>x DEF MintSecret
  <2>2. FirstAttempt
    BY <1>7, <1>w, <2>1 DEF RunStep, Finish
  <2>3. /\ cloud'.registry = cloud.registry /\ cloud'.client = cloud.client
        /\ cloud'.authzClient = cloud.authzClient /\ cloud'.authzSecret = cloud.authzSecret
        /\ cloud'.connClient = cloud.connClient /\ cloud'.connSecret = cloud.connSecret
        /\ cloud'.connEndpoint = cloud.connEndpoint /\ cloud'.collections = cloud.collections
        /\ cloud'.attached = cloud.attached /\ cloud'.keySecret = cloud.keySecret
    BY <1>0, <1>7 DEF Cloud, MintSecret
  <2> QED BY <2>1, <2>2, <2>3 DEF Tidy, Accounted, InFlight
<1>8. CASE PutClient
  <2> DEFINE k == [mem EXCEPT !.proxyClient = TRUE]
  <2>1. pc = "putClient" /\ req' = req /\ Complete(mem, k, "oauth", "register")
    BY <1>0, <1>8, <1>e, <1>x DEF PutClient, Abort
  <2>2. FirstAttempt
    BY <1>8, <1>w, <2>1 DEF RunStep, Finish
  <2>3. /\ k \in Record /\ k.state = mem.state /\ k.request = mem.request
        /\ k.keySecret = mem.keySecret /\ k.proxyClient
        /\ k.registry = mem.registry /\ k.authorization = mem.authorization
        /\ k.collection = mem.collection /\ k.datastore = mem.datastore
    BY <1>0 DEF Record
  <2> HIDE DEF k
  <2>4. Kept(mem', k)
    BY <1>0, <1>c, <1>e, <1>r, <2>1, <2>3
  <2>5. /\ cloud'.registry = cloud.registry /\ cloud'.attached = cloud.attached
        /\ cloud'.authzClient = cloud.authzClient /\ cloud'.authzSecret = cloud.authzSecret
        /\ cloud'.connClient = cloud.connClient /\ cloud'.connSecret = cloud.connSecret
        /\ cloud'.connEndpoint = cloud.connEndpoint /\ cloud'.collections = cloud.collections
        /\ cloud'.keySecret = cloud.keySecret
    BY <1>0, <1>8 DEF Cloud, PutClient
  <2> QED BY <2>1, <2>2, <2>3, <2>4, <2>5 DEF Tidy, Accounted, InFlight, Kept
<1>9. CASE Register
  <2> DEFINE held == [Asked EXCEPT !.registry = TRUE]
  <2>1. pc = "register" /\ req' = req
    BY <1>9 DEF Register
  <2>2. FirstAttempt
    BY <1>9, <1>w, <2>1 DEF RunStep, Finish
  <2>3. /\ Asked \in Record /\ held \in Record /\ held.state = mem.state /\ held.request = mem.request
        /\ held.keySecret = mem.keySecret /\ held.proxyClient = mem.proxyClient
        /\ held.registry /\ held.authorization = mem.authorization
        /\ held.collection = mem.collection /\ held.datastore = mem.datastore
    <3>1. endpoint \in Endpoints
      BY DEF TypeOK
    <3>2. Asked \in Record /\ Asked.state = mem.state /\ Asked.request = mem.request
          /\ Asked.keySecret = mem.keySecret /\ Asked.proxyClient = mem.proxyClient
          /\ Asked.authorization = mem.authorization
          /\ Asked.collection = mem.collection /\ Asked.datastore = mem.datastore
      BY <1>0, <3>1 DEF Asked, Record
    <3> QED BY <3>2 DEF Record
  <2>4. \/ Complete(mem, mem, "register", "authorize") /\ cloud' = cloud
        \/ Complete(held, held, "register", "authorize")
           /\ cloud' = [cloud EXCEPT !.registry = endpoint]
    BY <1>0, <1>9, <1>e, <1>x, <2>3 DEF Register, Abort
  <2> HIDE DEF held
  <2>5. CASE Complete(mem, mem, "register", "authorize") /\ cloud' = cloud
    BY <1>0, <1>c, <1>e, <1>r, <2>1, <2>2, <2>5, TidyKeeps
  <2>6. CASE Complete(held, held, "register", "authorize")
           /\ cloud' = [cloud EXCEPT !.registry = endpoint]
    <3>1. Kept(mem', held)
      BY <1>c, <1>e, <1>r, <2>1, <2>3, <2>6
    <3>2. /\ cloud'.client = cloud.client /\ cloud'.attached = cloud.attached
          /\ cloud'.authzClient = cloud.authzClient /\ cloud'.authzSecret = cloud.authzSecret
          /\ cloud'.connClient = cloud.connClient /\ cloud'.connSecret = cloud.connSecret
          /\ cloud'.connEndpoint = cloud.connEndpoint /\ cloud'.collections = cloud.collections
          /\ cloud'.keySecret = cloud.keySecret /\ cloud'.upstream = cloud.upstream
          /\ cloud'.downstream = cloud.downstream
      BY <1>0, <2>6 DEF Cloud
    <3> QED BY <2>1, <2>2, <2>3, <3>1, <3>2 DEF Tidy, Accounted, InFlight, Kept
  <2> QED BY <2>4, <2>5, <2>6
<1>10. CASE Authorize
  <2> DEFINE k == [mem EXCEPT !.authorization = TRUE]
  <2>1. pc = "authorize" /\ req' = req
    BY <1>10 DEF Authorize
  <2>2. FirstAttempt
    BY <1>10, <1>w, <2>1 DEF RunStep, Finish
  <2>3. /\ k \in Record /\ k.state = mem.state /\ k.request = mem.request
        /\ k.keySecret = mem.keySecret /\ k.proxyClient = mem.proxyClient
        /\ k.registry = mem.registry /\ k.authorization
        /\ k.collection = mem.collection /\ k.datastore = mem.datastore
    BY <1>0 DEF Record
  <2>4. \/ Complete(mem, mem, "authorize", "connect") /\ cloud' = cloud
        \/ Complete(mem, k, "authorize", "connect") /\ cloud' = Authorized
    BY <1>0, <1>10, <1>e, <1>x DEF Authorize, Abort
  <2>5. /\ Authorized.client = cloud.client /\ Authorized.attached = cloud.attached
        /\ Authorized.registry = cloud.registry
        /\ Authorized.connClient = cloud.connClient /\ Authorized.connSecret = cloud.connSecret
        /\ Authorized.connEndpoint = cloud.connEndpoint /\ Authorized.collections = cloud.collections
        /\ Authorized.keySecret = cloud.keySecret /\ Authorized.upstream = cloud.upstream
        /\ Authorized.downstream = cloud.downstream
    BY <1>0 DEF Cloud, Authorized
  <2> HIDE DEF k
  <2>6. CASE Complete(mem, mem, "authorize", "connect") /\ cloud' = cloud
    BY <1>0, <1>c, <1>e, <1>r, <2>1, <2>2, <2>6, TidyKeeps
  <2>7. CASE Complete(mem, k, "authorize", "connect") /\ cloud' = Authorized
    <3>1. Kept(mem', k)
      BY <1>0, <1>c, <1>e, <1>r, <2>1, <2>3, <2>7
    <3> QED BY <2>1, <2>2, <2>3, <2>5, <2>7, <3>1 DEF Tidy, Accounted, InFlight, Kept
  <2> QED BY <2>4, <2>6, <2>7
<1>11. CASE ReuseConnection
  <2>1. /\ pc = "connect" /\ req' = req /\ cloud' = cloud
        /\ Complete(mem, mem, "connect", "attach")
    BY <1>11 DEF ReuseConnection
  <2>2. FirstAttempt
    BY <1>11, <1>w, <2>1 DEF RunStep, Finish
  <2> QED BY <1>0, <1>c, <1>e, <1>r, <2>1, <2>2, TidyKeeps
<1>12. CASE SetUpConnector
  <2> DEFINE k == [mem EXCEPT !.collection = CollectionId]
             made == [cloud EXCEPT !.collections = @ \union {CollectionId},
                         !.connClient = holder, !.connSecret = secret,
                         !.connEndpoint = endpoint]
  <2>1. pc = "connect" /\ req' = req /\ pc' = "awaitStore" /\ mem' = k /\ cloud' = made
    BY <1>0, <1>12, <1>e, <1>x DEF SetUpConnector
  <2>2. FirstAttempt
    BY <1>12, <1>w, <2>1 DEF RunStep, Finish
  <2>3. /\ CollectionId \in Nat /\ CollectionId # 0
        /\ mem.collection # 0 => CollectionId = mem.collection
    BY <1>0 DEF CollectionId, TypeOK, Record
  <2>4. /\ k.request = mem.request
        /\ k.keySecret = mem.keySecret /\ k.proxyClient = mem.proxyClient
        /\ k.registry = mem.registry /\ k.authorization = mem.authorization
        /\ k.collection = CollectionId /\ k.datastore = mem.datastore
    BY <1>0, <2>3 DEF Record
  <2>5. /\ made.client = cloud.client /\ made.attached = cloud.attached
        /\ made.registry = cloud.registry
        /\ made.authzClient = cloud.authzClient /\ made.authzSecret = cloud.authzSecret
        /\ made.collections = cloud.collections \union {CollectionId}
        /\ made.keySecret = cloud.keySecret /\ made.upstream = cloud.upstream
        /\ made.downstream = cloud.downstream
    BY <1>0 DEF Cloud
  <2> HIDE DEF k, made
  <2> QED BY <2>1, <2>2, <2>3, <2>4, <2>5 DEF Tidy, Accounted, InFlight
<1>13. CASE AwaitDatastore
  <2> DEFINE m == [mem EXCEPT !.datastore = mem.collection]
  <2>1. /\ pc = "awaitStore" /\ req' = req /\ cloud' = cloud
        /\ Complete(m, m, "connect", "attach")
    BY <1>0, <1>13, <1>e, <1>x DEF AwaitDatastore, Abort
  <2>2. FirstAttempt
    BY <1>13, <1>w, <2>1 DEF RunStep, Finish
  <2>3. /\ m \in Record /\ m.state = mem.state /\ m.request = mem.request
        /\ m.keySecret = mem.keySecret /\ m.proxyClient = mem.proxyClient
        /\ m.registry = mem.registry /\ m.authorization = mem.authorization
        /\ m.collection = mem.collection
    <3>1. mem.collection \in Nat
      BY <1>0 DEF Record
    <3> QED BY <1>0, <3>1 DEF Record
  <2> HIDE DEF m
  <2>4. Kept(mem', m)
    BY <1>c, <1>e, <1>r, <2>1, <2>3
  <2>5. mem.datastore = 0
    BY <2>1 DEF CredentialsInv, InHand
  <2> QED BY <2>1, <2>2, <2>3, <2>4, <2>5 DEF Tidy, Accounted, InFlight, Kept
<1>14. CASE Attach
  <2>1. /\ pc = "attach" /\ req' = req /\ cloud' = Tied /\ pc' = "finish"
        /\ mem' = [WithStage(mem, "attach") EXCEPT !.state = "READY"]
    BY <1>0, <1>14, <1>e, <1>x DEF Attach, Abort
  <2>2. FirstAttempt
    BY <1>14, <1>w, <2>1 DEF RunStep, Finish, Attach
  <2>3. Kept(mem', mem)
    <3>1. \A r \in Record : Kept([r EXCEPT !.state = "READY"], r)
      BY DEF Record, Kept
    <3>2. WithStage(mem, "attach") \in Record /\ Kept(WithStage(mem, "attach"), mem)
      BY <1>0, <1>e, KeptFacts
    <3> QED BY <2>1, <3>1, <3>2 DEF Kept
  <2>4. mem.datastore # 0
    BY <2>1 DEF RunInv, AtHand
  <2>5. /\ cloud'.client = cloud.client /\ cloud'.registry = cloud.registry
        /\ cloud'.authzClient = cloud.authzClient /\ cloud'.authzSecret = cloud.authzSecret
        /\ cloud'.connClient = cloud.connClient /\ cloud'.connSecret = cloud.connSecret
        /\ cloud'.connEndpoint = cloud.connEndpoint /\ cloud'.collections = cloud.collections
        /\ cloud'.keySecret = cloud.keySecret /\ cloud'.upstream = cloud.upstream
        /\ cloud'.downstream = cloud.downstream
        /\ cloud'.attached = cloud.attached
           \/ (req.engine # None /\ cloud'.attached = cloud.attached \union {mem.datastore})
    BY <1>0, <2>1 DEF Cloud, Tied
  <2> QED BY <2>1, <2>2, <2>3, <2>4, <2>5 DEF Tidy, Accounted, InFlight, Kept
<1>15. CASE Finish
  <2>1. /\ pc = "finish" /\ cloud' = cloud /\ mem' = db' /\ req' = db'.request
        /\ db' \in {mem, Crashed(mem), Crashed(db), db} /\ pc' = "idle"
        /\ resumes' = resumes /\ report' = report
    BY <1>15 DEF Finish, Idle, bounds
  <2>2. \A r \in Record : Crashed(r).state = Outcome(r)
    BY <1>o DEF Crashed, Record
  <2>3. db' = mem /\ mem.state = "READY"
    BY <1>0, <1>o, <2>1, <2>2 DEF FirstAttempt, RunInv, Phases
  <2>4. FirstAttempt
    BY <2>1, <2>3 DEF FirstAttempt
  <2> QED BY <2>1, <2>3, <2>4 DEF Tidy, Accounted, InFlight
<1>16. CASE Crash
  BY <1>16 DEF Crash, Idle, FirstAttempt, RunInv, Phases
<1>17. CASE Submit
  <2>1. /\ pc = "idle" /\ pc' = "preflight" /\ mem' = db' /\ mem = db /\ cloud' = cloud /\ req' = req
        /\ resumes' = resumes /\ report' = report
        /\ db.state = "ABSENT" /\ db' = [db EXCEPT !.state = "RUNNING"] /\ ~report.answered
    BY <1>17 DEF Submit, RunInv, Phases, bounds
  <2>2. Kept(db', db)
    BY <1>0, <2>1 DEF Kept, Record
  <2>3. FirstAttempt
    BY <2>1 DEF FirstAttempt
  <2> QED BY <2>1, <2>2, <2>3, TidyKeeps
<1>18. ASSUME NEW o \in Overrides, Resume(o)
       PROVE  FALSE
  BY <1>0, <1>18 DEF Resume, FirstAttempt
<1>19. CASE Delete
  BY <1>19 DEF Delete, FirstAttempt
<1>20. CASE UNCHANGED vars
  BY <1>20 DEF vars, execVars, Tidy, FirstAttempt, InFlight
<1> QED
  BY <1>1, <1>2, <1>3, <1>4, <1>5, <1>6, <1>7, <1>8, <1>9, <1>10, <1>11, <1>12, <1>13, <1>14,
     <1>15, <1>16, <1>17, <1>18, <1>19, <1>20 DEF Next, RunStep

\* What the teardown of an accounted record leaves: what is registered upstream.
LEMMA TeardownEmpties ==
  ASSUME NEW r \in Record, NEW c \in Cloud, Accounted(r, c),
         c.keySecret => r.keySecret, c.upstream => r.proxyClient, c.downstream # 0 => r.proxyClient,
         r.datastore # 0 => r.datastore = r.collection
  PROVE  Without(c, ToRemove(r), r) = OnlyRegistered(c.registered)
<1>1. /\ "service" \in ToRemove(r) /\ (r.registry => "registry" \in ToRemove(r))
      /\ r.keySecret => "key" \in ToRemove(r)
      /\ r.proxyClient => {"client", "downstream", "upstream"} \subseteq ToRemove(r)
      /\ r.authorization => "authorization" \in ToRemove(r)
      /\ r.collection # 0 => "collection" \in ToRemove(r)
      /\ r.request.engine # None /\ r.datastore # 0 => "detach" \in ToRemove(r)
  BY DEF ToRemove
<1> DEFINE w == Without(c, ToRemove(r), r)
<1>2. w.service = None /\ w.registry = None /\ w.client = 0 /\ w.downstream = 0
  BY <1>1 DEF Without, Accounted
<1>3. w.keySecret = FALSE /\ w.upstream = FALSE
  BY <1>1 DEF Without, Cloud
<1>4. w.authzClient = None /\ w.authzSecret = 0
  BY <1>1 DEF Without, Accounted
<1>5. w.connClient = None /\ w.connSecret = 0 /\ w.connEndpoint = None
  BY <1>1 DEF Without, Accounted
<1>6. w.collections = {} /\ w.attached = {}
  <2>1. w.collections = {}
    BY <1>1 DEF Without, Accounted
  <2>2. w.attached = {}
    BY <1>1 DEF Without, Accounted
  <2> QED BY <2>1, <2>2
<1>7. w = [service |-> w.service, keySecret |-> w.keySecret, registered |-> c.registered,
           upstream |-> w.upstream,
           downstream |-> w.downstream, client |-> w.client, registry |-> w.registry,
           authzClient |-> w.authzClient, authzSecret |-> w.authzSecret,
           collections |-> w.collections, connClient |-> w.connClient,
           connSecret |-> w.connSecret, connEndpoint |-> w.connEndpoint,
           attached |-> w.attached]
  BY DEF Without
<1> HIDE DEF w
<1>8. w = OnlyRegistered(c.registered)
  BY <1>2, <1>3, <1>4, <1>5, <1>6, <1>7 DEF OnlyRegistered
<1> QED BY <1>8 DEF w

LEMMA InitTidy == Init => Tidy
<1> SUFFICES ASSUME Init PROVE Tidy
  OBVIOUS
<1>1. PICK r \in Requests : req = r /\ mem = NoRecord(Redacted(r))
  BY DEF Init
<1>2. r \in Request
  BY <1>1, RequestsAssumption
<1>3. Redacted(r).engine = r.engine
  BY <1>2 DEF Redacted, Request
<1>4. mem.request.engine = req.engine
  BY <1>1, <1>3 DEF NoRecord
<1> QED BY <1>4, EmptyIs DEF Init, Tidy, Accounted, InFlight

\* A run that succeeded at its first attempt, and whose deletions all succeed,
\* leaves nothing in the project: provisioning makes nothing there that the record
\* does not name by the time it says READY (delete_mcp).  It leaves the clients that
\* were registered with the upstream, which no deletion reaches.
THEOREM TeardownIsClean == Spec => CleanTeardown
<1>1. TypeOK /\ RunInv /\ Tidy /\ [Next]_vars =>
        [Delete /\ db.state = "READY" /\ resumes = 0 /\ report'.errors = {}
           => cloud' = OnlyRegistered(cloud.registered)]_vars
  <2> SUFFICES ASSUME TypeOK, RunInv, Tidy, Delete, db.state = "READY", resumes = 0,
                      report'.errors = {}
               PROVE  cloud' = OnlyRegistered(cloud.registered)
    OBVIOUS
  <2>0. db \in Record /\ cloud \in Cloud
    BY DEF TypeOK
  <2>1. pc = "idle" /\ cloud' = Without(cloud, ToRemove(db), db)
    BY DEF Delete
  <2>2. mem = db /\ ~report.answered
    BY <2>1 DEF RunInv, Phases
  <2>3. FirstAttempt
    BY <2>1, <2>2 DEF FirstAttempt
  <2>4. /\ Accounted(db, cloud) /\ (cloud.keySecret => db.keySecret)
        /\ cloud.upstream => db.proxyClient
        /\ cloud.downstream # 0 => db.proxyClient
    BY <2>1, <2>2, <2>3 DEF Tidy, InFlight
  <2>5. db.datastore # 0 => db.datastore = db.collection
    BY DEF RunInv, Named
  <2> QED BY <2>0, <2>1, <2>4, <2>5, TeardownEmpties
<1> QED
  BY <1>1, InitTidy, StepTidy, TypeCorrect, CredentialsInvariant, RunInvariant, PTL
  DEF Spec, CleanTeardown
=============================================================================
