---------------------------- MODULE ResumeProofs ----------------------------
(***************************************************************************)
(* Proofs about what outlives an attempt: what an eviction leaves, what a  *)
(* resume that changes the kind of a run can break and how, and what a run *)
(* keeps that does not change.                                             *)
(***************************************************************************)
EXTENDS PipelineProofs

(***************************************************************************)
(* What a step writes on the records, makes in the cloud and leaves alone. *)
(***************************************************************************)
\* What a step of the run before its last writes on the executor's record, and
\* what the store may then hold.
Writes ==
  /\ Kept(db', db) \/ Kept(db', mem) \/ (Kept(db', mem') /\ pc # "authorize")
  /\ mem'.request = mem.request
  /\ mem'.manifest = mem.manifest \/ mem'.manifest = req.auth
  /\ \/ mem'.service = mem.service /\ mem'.keySecret = mem.keySecret
     \/ pc = "createService" /\ mem'.service /\ (mem'.keySecret <=> req.auth = "api_key")
  /\ mem'.registerUrl = mem.registerUrl \/ mem'.registerUrl = endpoint
  /\ mem'.authorization = mem.authorization \/ (pc = "authorize" /\ holder # None)
  /\ mem'.datastore = mem.datastore \/ (pc = "awaitStore" /\ mem'.datastore = mem.collection)
  /\ mem'.state = "READY" => pc = "attach"

LEMMA RunWrites ==
  ASSUME TypeOK, RunInv, RunStep, ~Finish
  PROVE  Writes
<1>0. /\ mem \in Record /\ db \in Record /\ req \in Request /\ endpoint \in Endpoints
      /\ Kept(mem, mem) /\ Kept(db, db)
  BY DEF TypeOK, Kept
<1>r. pc \notin {"idle", "finish"} => mem.state = "RUNNING"
  BY DEF RunInv, Phases
<1>e. /\ {"preflight", "ingest", "deploy", "oauth", "register", "authorize", "connect", "attach"}
            \subseteq Stages
      /\ {"call", "truncated", "no_key", "refused", "internal", None, "blocked", "url_conflict"}
            \subseteq Errors
  BY DEF Stages, Errors
<1>c. ASSUME NEW p \in Record, NEW k \in Record, NEW s \in Stages, NEW next,
             Complete(p, k, s, next), p.state = "RUNNING", k.state = "RUNNING"
      PROVE  Kept(mem', k) /\ (Kept(db', db) \/ Kept(db', p)) /\ mem'.state # "READY"
  <2>1. Completes(p, k, s, next)
    BY <1>c, CompleteEnds
  <2> QED BY <1>0, <2>1 DEF Completes
<1>f. ASSUME NEW k \in Record, NEW s \in Stages, NEW e \in Errors, Fail(k, s, e), db' = db
      PROVE  Kept(mem', k) /\ Kept(db', db) /\ mem'.state # "READY"
  BY <1>0, <1>f, FailEnds DEF Outcome
\* A step that names nothing new.
<1>k. ASSUME NEW s \in Stages,
             \/ \E next : Complete(mem, mem, s, next)
             \/ \E e \in Errors : Fail(mem, s, e) /\ db' = db
             \/ \E e \in Errors : Emit(WithStage(mem, s)) /\ Fail(WithStage(mem, s), s, e)
             \/ mem' = mem /\ db' = db,
             pc \notin {"idle", "finish"}
      PROVE  Writes
  <2>1. ASSUME NEW e \in Errors, Emit(WithStage(mem, s)), Fail(WithStage(mem, s), s, e)
        PROVE  Kept(mem', mem) /\ (Kept(db', db) \/ Kept(db', mem)) /\ mem'.state # "READY"
    BY <1>0, <1>k, <1>r, <2>1, AnnounceFails DEF Fails, Outcome
  <2>2. Kept(mem', mem) /\ (Kept(db', db) \/ Kept(db', mem)) /\ mem'.state # "READY"
    BY <1>0, <1>c, <1>f, <1>k, <1>r, <2>1
  <2> QED BY <2>2 DEF Writes, Kept
<1>1. CASE Preflight
  <2>1. \A l : Blocking(l) \in Errors
    BY <1>e DEF Blocking
  <2> QED BY <1>1, <1>e, <1>k, <2>1 DEF Preflight, Abort
<1>2. CASE Ingest
  <2> DEFINE m == [mem EXCEPT !.manifest = req.auth]
  <2>1. m \in Record /\ m.manifest = req.auth /\ m.state = mem.state
        /\ m.request = mem.request /\ m.service = mem.service
        /\ m.keySecret = mem.keySecret /\ m.registerUrl = mem.registerUrl
        /\ m.authorization = mem.authorization /\ m.datastore = mem.datastore
    <3>1. req.auth \in AuthKinds \union {None}
      BY <1>0 DEF Request
    <3> QED BY <1>0, <3>1 DEF Record
  <2>2. pc = "ingest"
    BY <1>2 DEF Ingest
  <2> HIDE DEF m
  <2>3. CASE Complete(m, m, "ingest", "deploy")
    <3>1. Kept(mem', m) /\ (Kept(db', db) \/ Kept(db', m)) /\ mem'.state # "READY"
      BY <1>c, <1>e, <1>r, <2>1, <2>2, <2>3
    <3>2. Kept(db', m) => Kept(db', mem')
      BY <3>1 DEF Kept
    <3> QED BY <2>1, <2>2, <3>1, <3>2 DEF Writes, Kept
  <2> QED BY <1>2, <1>e, <1>k, <2>2, <2>3 DEF Ingest, ProbeExisting, BuildManifest, Abort, m
<1>3. CASE DeployNothing \/ StoreApiKey
  BY <1>3, <1>e, <1>k DEF DeployNothing, StoreApiKey
<1>4. CASE CreateService
  <2> DEFINE m == [mem EXCEPT !.service = TRUE, !.keySecret = (req.auth = "api_key")]
  <2>1. \A b \in BOOLEAN : LET n == [mem EXCEPT !.service = TRUE, !.keySecret = b] IN
          /\ n \in Record /\ n.service /\ n.keySecret = b /\ n.state = mem.state /\ n.manifest = mem.manifest
          /\ n.request = mem.request /\ n.registerUrl = mem.registerUrl
          /\ n.authorization = mem.authorization /\ n.datastore = mem.datastore
    BY <1>0 DEF Record
  <2>2. (req.auth = "api_key") \in BOOLEAN /\ pc = "createService"
    BY <1>4 DEF CreateService
  <2>3. /\ m \in Record /\ m.state = mem.state /\ m.manifest = mem.manifest
        /\ m.service /\ (m.keySecret <=> req.auth = "api_key")
        /\ m.request = mem.request /\ m.registerUrl = mem.registerUrl
        /\ m.authorization = mem.authorization /\ m.datastore = mem.datastore
    BY <2>1, <2>2
  <2> HIDE DEF m
  <2>4. CASE Complete(m, m, "deploy", "oauth")
    <3>1. Kept(mem', m) /\ (Kept(db', db) \/ Kept(db', m)) /\ mem'.state # "READY"
      BY <1>c, <1>e, <1>r, <2>2, <2>3, <2>4
    <3>2. Kept(db', m) => Kept(db', mem')
      BY <3>1 DEF Kept
    <3> QED BY <2>2, <2>3, <3>1, <3>2 DEF Writes, Kept
  <2> QED BY <1>4, <1>e, <1>k, <2>2, <2>4 DEF CreateService, Abort, m
<1>5. CASE OAuthSkip \/ RehydrateOauth \/ DirectOauth \/ ResolveUpstream \/ MintSecret
  BY <1>5, <1>e, <1>k DEF OAuthSkip, RehydrateOauth, DirectOauth, ResolveUpstream, MintSecret, Abort
<1>6. CASE PutClient
  <2> DEFINE k == [mem EXCEPT !.proxyClient = TRUE]
  <2>1. k \in Record /\ k.state = mem.state /\ k.manifest = mem.manifest
        /\ k.request = mem.request /\ k.service = mem.service
        /\ k.keySecret = mem.keySecret /\ k.registerUrl = mem.registerUrl
        /\ k.authorization = mem.authorization /\ k.datastore = mem.datastore
    BY <1>0 DEF Record
  <2>2. pc = "putClient"
    BY <1>6 DEF PutClient
  <2> HIDE DEF k
  <2>3. CASE Complete(mem, k, "oauth", "register")
    <3>1. Kept(mem', k) /\ (Kept(db', db) \/ Kept(db', mem)) /\ mem'.state # "READY"
      BY <1>0, <1>c, <1>e, <1>r, <2>1, <2>2, <2>3
    <3> QED BY <2>1, <3>1 DEF Writes, Kept
  <2> QED BY <1>6, <1>e, <1>k, <2>2, <2>3 DEF PutClient, Abort, k
<1>7. CASE Register
  <2> DEFINE held == [Asked EXCEPT !.registry = TRUE]
  <2>1. Asked \in Record /\ Asked.state = mem.state /\ Asked.manifest = mem.manifest
        /\ Asked.request = mem.request /\ Asked.service = mem.service
        /\ Asked.keySecret = mem.keySecret
        /\ Asked.registerUrl = endpoint
        /\ Asked.authorization = mem.authorization /\ Asked.datastore = mem.datastore
    BY <1>0 DEF Asked, Record
  <2>2. held \in Record /\ held.state = mem.state /\ held.manifest = mem.manifest
        /\ held.request = mem.request /\ held.service = mem.service
        /\ held.keySecret = mem.keySecret
        /\ held.registerUrl = endpoint
        /\ held.authorization = mem.authorization /\ held.datastore = mem.datastore
    BY <2>1 DEF Record
  <2>3. pc = "register"
    BY <1>7 DEF Register
  <2> HIDE DEF held
  <2>4. CASE Complete(held, held, "register", "authorize")
    <3>1. Kept(mem', held) /\ (Kept(db', db) \/ Kept(db', held)) /\ mem'.state # "READY"
      BY <1>c, <1>e, <1>r, <2>2, <2>3, <2>4
    <3>2. Kept(db', held) => Kept(db', mem')
      BY <3>1 DEF Kept
    <3> QED BY <2>2, <2>3, <3>1, <3>2 DEF Writes, Kept
  <2>5. CASE Abort(held, "register", "call") \/ Abort(Asked, "register", "call")
    <3>1. (Kept(mem', held) \/ Kept(mem', Asked)) /\ Kept(db', db) /\ mem'.state # "READY"
      BY <1>e, <1>f, <2>1, <2>2, <2>5 DEF Abort
    <3> QED BY <2>1, <2>2, <3>1 DEF Writes, Kept
  <2> QED BY <1>7, <1>e, <1>k, <2>3, <2>4, <2>5 DEF Register, held
<1>8. CASE Authorize
  <2> DEFINE k == [mem EXCEPT !.authorization = TRUE]
  <2>1. k \in Record /\ k.state = mem.state /\ k.manifest = mem.manifest
        /\ k.request = mem.request /\ k.service = mem.service
        /\ k.keySecret = mem.keySecret /\ k.registerUrl = mem.registerUrl
        /\ k.authorization /\ k.datastore = mem.datastore
    BY <1>0 DEF Record
  <2>2. pc = "authorize"
    BY <1>8 DEF Authorize
  <2> HIDE DEF k
  <2>3. CASE holder # None /\ Complete(mem, k, "authorize", "connect")
    <3>1. Kept(mem', k) /\ (Kept(db', db) \/ Kept(db', mem)) /\ mem'.state # "READY"
      BY <1>0, <1>c, <1>e, <1>r, <2>1, <2>2, <2>3
    <3> QED BY <2>1, <2>2, <2>3, <3>1 DEF Writes, Kept
  <2> QED BY <1>8, <1>e, <1>k, <2>2, <2>3 DEF Authorize, Abort, k
<1>9. CASE ReuseConnection
  BY <1>9, <1>e, <1>k DEF ReuseConnection
<1>10. CASE SetUpConnector
  <2>1. pc = "connect" /\ db' = db
    BY <1>10 DEF SetUpConnector
  <2>2. CASE Fail(mem, "connect", "call")
    BY <1>e, <1>k, <2>1, <2>2
  <2>3. CASE mem' = [mem EXCEPT !.collection = CollectionId]
    BY <1>0, <1>r, <2>1, <2>3 DEF Record, Writes, Kept
  <2> QED BY <1>10, <2>2, <2>3 DEF SetUpConnector
<1>11. CASE AwaitDatastore
  <2> DEFINE m == [mem EXCEPT !.datastore = mem.collection]
  <2>1. m \in Record /\ m.state = mem.state /\ m.manifest = mem.manifest
        /\ m.request = mem.request /\ m.service = mem.service
        /\ m.keySecret = mem.keySecret /\ m.registerUrl = mem.registerUrl
        /\ m.authorization = mem.authorization /\ m.datastore = mem.collection
    <3>1. mem.collection \in Nat
      BY <1>0 DEF Record
    <3> QED BY <1>0, <3>1 DEF Record
  <2>2. pc = "awaitStore"
    BY <1>11 DEF AwaitDatastore
  <2> HIDE DEF m
  <2>3. CASE Complete(m, m, "connect", "attach")
    <3>1. Kept(mem', m) /\ (Kept(db', db) \/ Kept(db', m)) /\ mem'.state # "READY"
      BY <1>c, <1>e, <1>r, <2>1, <2>2, <2>3
    <3>2. Kept(db', m) => Kept(db', mem')
      BY <3>1 DEF Kept
    <3> QED BY <2>1, <2>2, <3>1, <3>2 DEF Writes, Kept
  <2> QED BY <1>11, <1>e, <1>k, <2>2, <2>3 DEF AwaitDatastore, Abort, m
<1>12. CASE Attach
  <2>1. pc = "attach"
    BY <1>12 DEF Attach
  <2>2. CASE /\ Emit(WithStage(mem, "attach"))
             /\ mem' = [WithStage(mem, "attach") EXCEPT !.state = "READY"]
    <3> DEFINE w == WithStage(mem, "attach")
    <3>1. w \in Record /\ Kept(w, mem)
      BY <1>0, <1>e, KeptFacts
    <3> HIDE DEF w
    <3>2. Kept(mem', w)
      BY <2>2, <3>1 DEF Record, Kept, w
    <3>3. Kept(mem', mem) /\ (Kept(db', db) \/ Kept(db', mem))
      BY <1>0, <2>2, <3>1, <3>2 DEF Emit, Kept, w
    <3> QED BY <2>1, <3>3 DEF Writes, Kept
  <2> QED BY <1>12, <1>e, <1>k, <2>1, <2>2 DEF Attach, Abort
<1> QED
  BY <1>1, <1>2, <1>3, <1>4, <1>5, <1>6, <1>7, <1>8, <1>9, <1>10, <1>11, <1>12 DEF RunStep

\* What the same steps make outside the process.
Makes ==
  /\ cloud'.service = cloud.service \/ (pc = "createService" /\ cloud'.service = mem.manifest)
  /\ \/ cloud'.keySecret = cloud.keySecret
     \/ pc = "deploy" /\ req.auth = "api_key" /\ cloud'.keySecret
  /\ cloud'.registry = cloud.registry \/ (pc = "register" /\ cloud'.registry = endpoint)
  /\ \/ cloud'.authzClient = cloud.authzClient
     \/ /\ pc = "authorize" /\ holder # None /\ ~ReuseAuthorization
        /\ cloud'.authzClient = holder
  /\ \/ /\ cloud'.connEndpoint = cloud.connEndpoint /\ cloud'.connClient = cloud.connClient
        /\ pc' # "awaitStore"
     \/ /\ cloud'.connEndpoint = endpoint /\ cloud'.connClient = holder
        /\ pc = "connect" /\ ~ReuseDatastore
  /\ \/ cloud'.attached = cloud.attached
     \/ pc = "attach" /\ cloud'.attached = cloud.attached \union {mem.datastore}

LEMMA RunMakes ==
  ASSUME TypeOK, RunStep, ~Finish
  PROVE  Makes
<1>0. cloud \in Cloud
  BY DEF TypeOK
<1>1. \A p, k, s, next : Complete(p, k, s, next) => pc' \in {next, "finish"}
  BY DEF Complete
<1>2. \A r, s, e : (Fail(r, s, e) => pc' = "finish") /\ (Abort(r, s, e) => pc' = "finish")
  BY DEF Fail, Abort
<1>3. cloud' = cloud /\ pc' # "awaitStore" => Makes
  BY DEF Makes
<1>4. CASE Preflight \/ Ingest
  BY <1>1, <1>2, <1>3, <1>4 DEF Preflight, Ingest, ProbeExisting, BuildManifest
<1>5. CASE DeployNothing
  BY <1>1, <1>3, <1>5 DEF DeployNothing
<1>6. CASE StoreApiKey
  <2>1. /\ cloud' = cloud \/ (cloud' = [cloud EXCEPT !.keySecret = TRUE] /\ req.auth = "api_key")
        /\ pc' # "awaitStore" /\ pc = "deploy"
    BY <1>2, <1>6 DEF StoreApiKey, NeedsKey
  <2> QED BY <1>0, <2>1 DEF Makes, Cloud
<1>7. CASE CreateService
  <2>1. cloud' \in {cloud, Served} /\ pc' # "awaitStore" /\ pc = "createService"
    BY <1>1, <1>2, <1>7 DEF CreateService
  <2> QED BY <1>0, <2>1 DEF Makes, Cloud, Served
<1>8. CASE OAuthSkip \/ RehydrateOauth \/ DirectOauth
  BY <1>1, <1>2, <1>3, <1>8 DEF OAuthSkip, RehydrateOauth, DirectOauth
<1>9. CASE ResolveUpstream
  <2>1. pc' # "awaitStore"
    BY <1>2, <1>9 DEF ResolveUpstream
  <2>2. /\ cloud'.service = cloud.service /\ cloud'.keySecret = cloud.keySecret
        /\ cloud'.registry = cloud.registry /\ cloud'.authzClient = cloud.authzClient
        /\ cloud'.connEndpoint = cloud.connEndpoint /\ cloud'.connClient = cloud.connClient
        /\ cloud'.attached = cloud.attached
    BY <1>0, <1>9 DEF ResolveUpstream, Cloud
  <2> QED BY <2>1, <2>2 DEF Makes
<1>10. CASE MintSecret
  <2>1. cloud' \in {cloud, [cloud EXCEPT !.downstream = minted']} /\ pc' # "awaitStore"
    BY <1>2, <1>10 DEF MintSecret
  <2> QED BY <1>0, <2>1 DEF Makes, Cloud
<1>11. CASE PutClient
  <2>1. cloud' \in {cloud, [cloud EXCEPT !.client = secret]} /\ pc' # "awaitStore"
    BY <1>1, <1>2, <1>11 DEF PutClient
  <2> QED BY <1>0, <2>1 DEF Makes, Cloud
<1>12. CASE Register
  <2>1. /\ cloud' \in {cloud, [cloud EXCEPT !.registry = endpoint]}
        /\ pc' # "awaitStore" /\ pc = "register"
    BY <1>1, <1>2, <1>12 DEF Register
  <2> QED BY <1>0, <2>1 DEF Makes, Cloud
<1>13. CASE Authorize
  <2>1. /\ \/ cloud' = cloud
           \/ /\ cloud' = [cloud EXCEPT !.authzClient = holder, !.authzSecret = secret]
              /\ holder # None /\ ~ReuseAuthorization
        /\ pc' # "awaitStore" /\ pc = "authorize"
    BY <1>1, <1>2, <1>13 DEF Authorize, Authorized
  <2> QED BY <1>0, <2>1 DEF Makes, Cloud
<1>14. CASE ReuseConnection
  BY <1>1, <1>3, <1>14 DEF ReuseConnection
<1>15. CASE SetUpConnector
  <2> DEFINE made == [cloud EXCEPT !.collections = @ \union {CollectionId},
                         !.connClient = holder, !.connSecret = secret,
                         !.connEndpoint = endpoint]
  <2>1. /\ cloud' = made \/ (cloud' = cloud /\ pc' # "awaitStore")
        /\ pc = "connect" /\ ~ReuseDatastore
    BY <1>2, <1>15 DEF SetUpConnector
  <2>2. /\ made.service = cloud.service /\ made.keySecret = cloud.keySecret
        /\ made.attached = cloud.attached
        /\ made.registry = cloud.registry /\ made.authzClient = cloud.authzClient
        /\ made.connEndpoint = endpoint /\ made.connClient = holder
    BY <1>0 DEF Cloud
  <2> QED BY <1>3, <2>1, <2>2 DEF Makes
<1>16. CASE AwaitDatastore
  BY <1>1, <1>2, <1>3, <1>16 DEF AwaitDatastore
<1>17. CASE Attach
  <2>1. /\ cloud' \in {cloud, [cloud EXCEPT !.attached = @ \union {mem.datastore}]}
        /\ pc' # "awaitStore" /\ pc = "attach"
    BY <1>2, <1>17 DEF Attach, Tied
  <2> QED BY <1>0, <2>1 DEF Makes, Cloud
<1> QED
  BY <1>4, <1>5, <1>6, <1>7, <1>8, <1>9, <1>10, <1>11, <1>12, <1>13, <1>14, <1>15, <1>16, <1>17
  DEF RunStep

\* Where a step of the run leads to from each point, unless it ends the run.
Onward ==
  [p \in Working |->
     CASE p = "preflight"     -> {"ingest"}        [] p = "ingest"     -> {"deploy"}
       [] p = "deploy"        -> {"oauth", "createService"}
       [] p = "createService" -> {"oauth"}         [] p = "oauth"      -> {"register", "mint"}
       [] p = "mint"          -> {"putClient"}     [] p = "putClient"  -> {"register"}
       [] p = "register"      -> {"authorize"}     [] p = "authorize"  -> {"connect"}
       [] p = "connect"       -> {"awaitStore", "attach"}
       [] p = "awaitStore"    -> {"attach"}        [] p = "attach"     -> {}]

LEMMA OnwardFacts ==
  /\ Onward["preflight"] = {"ingest"} /\ Onward["ingest"] = {"deploy"}
  /\ Onward["deploy"] = {"oauth", "createService"} /\ Onward["createService"] = {"oauth"}
  /\ Onward["oauth"] = {"register", "mint"} /\ Onward["mint"] = {"putClient"}
  /\ Onward["putClient"] = {"register"} /\ Onward["register"] = {"authorize"}
  /\ Onward["authorize"] = {"connect"} /\ Onward["connect"] = {"awaitStore", "attach"}
  /\ Onward["awaitStore"] = {"attach"} /\ Onward["attach"] = {}
BY PointFacts DEF Onward

\* What the same steps leave alone, and where they lead.
Leaves ==
  /\ req' = req /\ done' = done /\ report' = report
  /\ existing' = existing \/ pc = "preflight"
  /\ endpoint' = endpoint \/ pc \in {"deploy", "createService"}
  /\ holder' = holder \/ pc \in {"oauth", "putClient"}
  /\ pc \in Working /\ (pc' = "finish" \/ pc' \in Onward[pc])

LEMMA RunLeaves ==
  ASSUME RunStep, ~Finish
  PROVE  Leaves
<1>1. \A p, k, s, next : Complete(p, k, s, next) => pc' \in {next, "finish"}
  BY DEF Complete
<1>2. \A r, s, e : (Fail(r, s, e) => pc' = "finish") /\ (Abort(r, s, e) => pc' = "finish")
  BY DEF Fail, Abort
<1>3. CASE Preflight \/ Ingest
  BY <1>1, <1>2, <1>3, OnwardFacts, PointFacts
  DEF Preflight, Ingest, ProbeExisting, BuildManifest, Leaves
<1>4. CASE DeployNothing \/ StoreApiKey \/ CreateService
  BY <1>1, <1>2, <1>4, OnwardFacts, PointFacts DEF DeployNothing, StoreApiKey, CreateService, Leaves
<1>5. CASE OAuthSkip \/ RehydrateOauth \/ DirectOauth \/ ResolveUpstream \/ MintSecret \/ PutClient
  <2>1. CASE ResolveUpstream
    BY <1>2, <2>1, OnwardFacts, PointFacts DEF ResolveUpstream, Leaves
  <2>2. CASE OAuthSkip \/ RehydrateOauth \/ DirectOauth \/ MintSecret \/ PutClient
    BY <1>1, <1>2, <2>2, OnwardFacts, PointFacts
    DEF OAuthSkip, RehydrateOauth, DirectOauth, MintSecret, PutClient, Leaves
  <2> QED BY <1>5, <2>1, <2>2
<1>6. CASE Register \/ Authorize
  BY <1>1, <1>2, <1>6, OnwardFacts, PointFacts DEF Register, Authorize, Leaves
<1>7. CASE ReuseConnection \/ SetUpConnector \/ AwaitDatastore \/ Attach
  BY <1>1, <1>2, <1>7, OnwardFacts, PointFacts
  DEF ReuseConnection, SetUpConnector, AwaitDatastore, Attach, Leaves
<1> QED BY <1>3, <1>4, <1>5, <1>6, <1>7 DEF RunStep

\* The other steps carry the stored record over: nothing outside changes.
Carries ==
  /\ Kept(db', db) \/ Kept(db', mem)
  /\ mem' = db' /\ db'.request = db.request
  /\ UNCHANGED <<cloud, report>>
  /\ \/ pc' = "idle" /\ req' = db'.request /\ endpoint' = None /\ holder' = None
     \/ pc' = "preflight" /\ UNCHANGED <<endpoint, holder>> /\ pc = "idle"
        /\ (req' = req \/ \E o \in Overrides : req' = Rehydrate(db.request, o))

LEMMA RestCarries ==
  ASSUME TypeOK, RunInv, Finish \/ Crash \/ Submit \/ \E o \in Overrides : Resume(o)
  PROVE  Carries
<1>0. mem \in Record /\ db \in Record /\ mem.request = db.request
  BY DEF TypeOK, RunInv, Phases
<1>1. CASE Finish
  <2>1. db' \in {mem, Crashed(mem), Crashed(db), db}
    BY <1>1 DEF Finish
  <2>2. \A r \in Record : Kept(Crashed(r), r) /\ Kept(r, r)
    BY DEF Crashed, Record, Kept
  <2>3. Kept(db', db) \/ Kept(db', mem)
    BY <1>0, <2>1, <2>2
  <2> QED BY <1>0, <1>1, <2>3 DEF Finish, Idle, Carries, Kept
<1>2. CASE Crash
  BY <1>2 DEF Crash, Idle, Carries, Kept
<1>3. CASE Submit
  <2>1. db' = [db EXCEPT !.state = "RUNNING"]
    BY <1>3 DEF Submit
  <2>2. Kept(db', db)
    BY <1>0, <2>1 DEF Record, Kept
  <2> QED BY <1>3, <2>2 DEF Submit, Carries, Kept
<1>4. ASSUME NEW o \in Overrides, Resume(o)
      PROVE  Carries
  <2>1. db' = [db EXCEPT !.state = "RUNNING", !.error = None, !.failedStage = None]
    BY <1>4 DEF Resume
  <2>2. Kept(db', db)
    BY <1>0, <2>1 DEF Record, Kept
  <2> QED BY <1>4, <2>2 DEF Resume, Carries, Kept
<1> QED BY <1>1, <1>2, <1>3, <1>4

LEMMA RehydrateKeeps ==
  ASSUME NEW r \in Request, NEW o \in Overrides
  PROVE  /\ o.auth \in {None, r.auth} => Rehydrate(r, o).auth = r.auth
         /\ o.url \in {None, r.url} => Rehydrate(r, o).url = r.url
         /\ o.docs # "mcp" /\ r.docs # "mcp" => Rehydrate(r, o).docs # "mcp"
         /\ (o.client = "full" => o.proxy = "always") => ~Direct(Rehydrate(r, o))
<1>1. /\ Redacted(r).auth = r.auth /\ Redacted(r).url = r.url /\ Redacted(r).docs = r.docs
      /\ Redacted(r).client # "full"
  BY DEF Redacted, Request
<1> QED BY <1>1 DEF Rehydrate, DeepMerge, Over, Direct, None

\* A deletion leaves a record that names nothing, and an answer.
LEMMA DeleteLeaves ==
  ASSUME TypeOK, Delete
  PROVE  /\ db' = NoRecord(db.request) /\ mem' = db' /\ req' = db.request /\ db'.request = db.request
         /\ db'.state = "ABSENT" /\ ~db'.service /\ ~db'.authorization /\ db'.datastore = 0
         /\ report'.answered /\ pc = "idle" /\ pc' = "idle" /\ db.state # "ABSENT"
         /\ UNCHANGED <<done, existing, endpoint, holder, faults, crashes>>
BY DEF Delete, NoRecord, bounds

\* What a step of the run makes of the state of the stored record.
LEMMA RunStates ==
  ASSUME TypeOK, TypeOK', CredentialsInv, RunInv, RunStep
  PROVE  /\ db.state = "RUNNING"
         /\ ~Finish => db'.state = "RUNNING"
         /\ Finish => \/ db' = mem /\ mem.state \in {"STOPPED", "READY", "PARTIAL", "FAILED"}
                      \/ db'.state \in {"RUNNING", "PARTIAL", "FAILED"} /\ faults' > faults
<1>0. mem \in Record /\ db \in Record /\ faults \in Nat /\ RunInv'
  BY StepRun DEF TypeOK, Next
<1>1. pc # "idle" /\ (Finish \/ pc' # "idle")
  BY RunStepMoves
<1>2. db.state = "RUNNING" /\ (~Finish => db'.state = "RUNNING")
  BY <1>0, <1>1 DEF RunInv, Phases
<1>3. ASSUME Finish
      PROVE  \/ db' = mem /\ mem.state \in {"STOPPED", "READY", "PARTIAL", "FAILED"}
             \/ db'.state \in {"RUNNING", "PARTIAL", "FAILED"} /\ faults' > faults
  <2>1. mem.state \in {"STOPPED", "READY", "PARTIAL", "FAILED"}
    BY <1>3 DEF Finish, RunInv, Phases, Outcome
  <2>2. \A r \in Record : Crashed(r).state \in {"PARTIAL", "FAILED"}
    BY DEF Crashed, Record, Outcome
  <2>3. db' = mem \/ (db' \in {Crashed(mem), Crashed(db), db} /\ faults' > faults)
    BY <1>0, <1>3 DEF Finish
  <2> QED BY <1>0, <1>2, <2>1, <2>2, <2>3
<1> QED BY <1>2, <1>3

-----------------------------------------------------------------------------
(***************************************************************************)
(* What an eviction leaves, and what a resume can break.                   *)
(***************************************************************************)
\* No failure of a call leaves a record that says RUNNING with nobody at work:
\* the executor was evicted, or its writes to the store were lost.
THEOREM OrphansAlwaysEvicted == Spec => []OrphansWereEvicted
<1>1. Init => OrphansWereEvicted
  BY DEF Init, OrphansWereEvicted, NoRecord
<1>2. TypeOK /\ TypeOK' /\ CredentialsInv /\ RunInv /\ OrphansWereEvicted /\ [Next]_vars
        => OrphansWereEvicted'
  <2> SUFFICES ASSUME TypeOK, TypeOK', CredentialsInv, RunInv, OrphansWereEvicted, [Next]_vars
               PROVE  OrphansWereEvicted'
    OBVIOUS
  <2>0. faults \in Nat /\ faults' \in Nat /\ crashes \in Nat
    BY DEF TypeOK
  <2>1. CASE RunStep
    BY <2>0, <2>1, RunStates, RunStepMoves DEF OrphansWereEvicted
  <2>2. CASE Crash
    BY <2>0, <2>2 DEF Crash, OrphansWereEvicted
  <2>3. CASE Submit \/ \E o \in Overrides : Resume(o)
    BY <2>3 DEF Submit, Resume, OrphansWereEvicted
  <2>4. CASE Delete
    BY <2>4, DeleteLeaves DEF OrphansWereEvicted
  <2>5. CASE UNCHANGED vars
    BY <2>5 DEF vars, execVars, OrphansWereEvicted
  <2> QED BY <2>1, <2>2, <2>3, <2>4, <2>5 DEF Next
<1> QED BY <1>1, <1>2, TypeCorrect, CredentialsInvariant, RunInvariant, PTL DEF Spec

\* How far a point is on the way through a run.
Place ==
  [p \in Working \union {"finish"} |->
     CASE p = "preflight" -> 0 [] p = "ingest"   -> 1 [] p = "deploy"     -> 2 [] p = "createService" -> 3
       [] p = "oauth"     -> 4 [] p = "mint"     -> 5 [] p = "putClient"  -> 6 [] p = "register"      -> 7
       [] p = "authorize" -> 8 [] p = "connect"  -> 9 [] p = "awaitStore" -> 10 [] p = "attach"       -> 11
       [] OTHER -> 12]

\* Whatever fails, a step of a run brings it closer to its end, and the last one
\* ends it: no reuse, retry or stop leads back (Pipeline.run).  Thirteen steps at
\* most settle a run, so that one which does not settle has lost its process.
THEOREM RunsGoForward ==
  Spec => [][RunStep => IF pc = "finish" THEN pc' = "idle" ELSE Place[pc] < Place[pc']]_vars
<1>1. Working \union {"finish"} =
        {"preflight", "ingest", "deploy", "createService", "oauth", "mint", "putClient", "register",
         "authorize", "connect", "awaitStore", "attach", "finish"}
  BY PointFacts
<1>2. /\ Place["preflight"] = 0 /\ Place["ingest"] = 1 /\ Place["deploy"] = 2
      /\ Place["createService"] = 3 /\ Place["oauth"] = 4 /\ Place["mint"] = 5
      /\ Place["putClient"] = 6 /\ Place["register"] = 7 /\ Place["authorize"] = 8
      /\ Place["connect"] = 9 /\ Place["awaitStore"] = 10 /\ Place["attach"] = 11
      /\ Place["finish"] = 12
  BY <1>1 DEF Place
<1>3. ASSUME RunStep PROVE IF pc = "finish" THEN pc' = "idle" ELSE Place[pc] < Place[pc']
  <2>1. CASE Finish
    BY <2>1 DEF Finish, Idle
  <2>2. CASE ~Finish
    <3>1. pc \in Working /\ pc # "finish" /\ (pc' = "finish" \/ pc' \in Onward[pc])
      BY <1>3, <2>2, RunLeaves, PointFacts DEF Leaves
    <3>2. CASE pc' = "finish"
      BY <1>2, <3>1, <3>2, PointFacts
    <3>3. CASE pc' \in Onward[pc]
      BY <1>2, <3>1, <3>3, OnwardFacts, PointFacts
    <3> QED BY <3>1, <3>2, <3>3
  <2> QED BY <2>1, <2>2
<1> QED BY <1>3, PTL DEF Spec

\* Before a run is submitted nothing is deployed.
Unbuilt == db.state = "ABSENT" /\ ~report.answered => cloud.service = None

\* A service loses the key it presents in one way only: it is deployed, by a run
\* that a resume has turned to another authentication, from the manifest made
\* before (_store_api_key).
THEOREM KeyOnlyLostByChange == Spec => KeyLostOnlyByChange
<1>1. Init => Unbuilt
  BY EmptyIs DEF Init, Unbuilt
<1>2. TypeOK /\ TypeOK' /\ CredentialsInv /\ RunInv /\ Unbuilt /\ [Next]_vars => Unbuilt'
  <2> SUFFICES ASSUME TypeOK, TypeOK', CredentialsInv, RunInv, Unbuilt, [Next]_vars PROVE Unbuilt'
    OBVIOUS
  <2>1. CASE RunStep
    BY <2>1, RunStates DEF Unbuilt
  <2>2. CASE Crash \/ Submit \/ \E o \in Overrides : Resume(o)
    <3>1. db \in Record
      BY DEF TypeOK
    <3> QED BY <2>2, <3>1 DEF Crash, Submit, Resume, Record, Unbuilt
  <2>3. CASE Delete
    BY <2>3, DeleteLeaves DEF Unbuilt
  <2>4. CASE UNCHANGED vars
    BY <2>4 DEF vars, Unbuilt
  <2> QED BY <2>1, <2>2, <2>3, <2>4 DEF Next
<1>3. TypeOK /\ TypeOK' /\ CredentialsInv /\ RunInv /\ Unbuilt /\ [Next]_vars =>
        [KeyIsStored /\ ~KeyIsStored' => pc = "createService" /\ req.auth # "api_key"]_vars
  <2> SUFFICES ASSUME TypeOK, TypeOK', CredentialsInv, RunInv, Unbuilt, Next,
                      KeyIsStored, ~KeyIsStored'
               PROVE  pc = "createService" /\ req.auth # "api_key"
    BY DEF vars, KeyIsStored
  <2>1. db'.state # "ABSENT" /\ cloud'.service = "api_key" /\ ~cloud'.keySecret
    BY DEF KeyIsStored
  <2>2. CASE RunStep /\ ~Finish
    <3>1. Makes /\ db.state = "RUNNING"
      BY <2>2, RunMakes, RunStates
    <3>2. cloud'.keySecret = cloud.keySecret /\ cloud.service # "api_key" /\ pc = "createService"
      BY <2>1, <3>1 DEF Makes, KeyIsStored
    <3>3. req.auth = "api_key" => cloud.keySecret
      BY <3>2 DEF RunInv, AtHand
    <3> QED BY <2>1, <3>2, <3>3
  <2>3. CASE Finish \/ Crash \/ Submit \/ \E o \in Overrides : Resume(o)
    <3>1. cloud' = cloud
      BY <2>3, RestCarries DEF Carries
    <3>2. db.state = "ABSENT"
      BY <2>1, <3>1 DEF KeyIsStored
    <3>3. Submit
      BY <2>3, <3>2, RunStates DEF RunStep, Crash, Resume, Resumable, RunInv, Phases
    <3> QED BY <2>1, <3>1, <3>2, <3>3 DEF Submit, Unbuilt, None
  <2>4. CASE Delete
    BY <2>1, <2>4, DeleteLeaves
  <2> QED BY <2>2, <2>3, <2>4 DEF Next
<1> QED
  BY <1>1, <1>2, <1>3, TypeCorrect, CredentialsInvariant, RunInvariant, PTL
  DEF Spec, KeyLostOnlyByChange

\* Where the registration and the connector of this execution point: to its own
\* endpoint, unless the one or the other is that of an attempt before.
Registered == "register" \in done \/ cloud.registry = endpoint
Reached    == "connect" \in done \/ cloud.connEndpoint = endpoint

Aims ==
  /\ pc \in {"authorize", "connect", "awaitStore", "attach"} => Registered
  /\ pc = "awaitStore" => cloud.connEndpoint = endpoint
  /\ pc = "attach" => Reached
  /\ pc = "finish" /\ mem.state = "READY" => Registered /\ Reached

LEMMA StepAims ==
  TypeOK /\ TypeOK' /\ CredentialsInv /\ RunInv /\ Aims /\ [Next]_vars => Aims'
<1> SUFFICES ASSUME TypeOK, TypeOK', CredentialsInv, RunInv, Aims, [Next]_vars PROVE Aims'
  OBVIOUS
<1>1. CASE RunStep /\ ~Finish
  <2>1. Writes /\ Makes /\ Leaves
    BY <1>1, RunWrites, RunMakes, RunLeaves
  <2>2. pc' \in {"authorize", "connect", "awaitStore", "attach"} => Registered'
    <3>1. CASE Register
      <4>1. \/ pc' = "finish"
            \/ ReuseRegistration
            \/ cloud' = [cloud EXCEPT !.registry = endpoint]
        BY <3>1 DEF Register, Abort, Fail
      <4>2. cloud \in Cloud /\ done' = done /\ endpoint' = endpoint
        BY <3>1 DEF TypeOK, Register
      <4>3. [cloud EXCEPT !.registry = endpoint].registry = endpoint
        BY <4>2 DEF Cloud
      <4> QED BY <4>1, <4>2, <4>3 DEF Registered, ReuseRegistration
    <3>2. CASE ~Register
      <4>1. pc = "register" => Register
        BY <1>1 DEF RunStep, Preflight, Ingest, DeployNothing, StoreApiKey, CreateService,
           OAuthSkip, RehydrateOauth, DirectOauth, ResolveUpstream, MintSecret, PutClient,
           Authorize, ReuseConnection, SetUpConnector, AwaitDatastore, Attach
      <4>2. pc' \in {"authorize", "connect", "awaitStore", "attach"} =>
              pc \in {"authorize", "connect", "awaitStore", "attach"}
        BY <2>1, <3>2, <4>1, OnwardFacts, PointFacts DEF Leaves
      <4> QED BY <2>1, <3>2, <4>1, <4>2 DEF Leaves, Makes, Aims, Registered
    <3> QED BY <3>1, <3>2
  <2>3. pc' = "awaitStore" => cloud'.connEndpoint = endpoint'
    BY <2>1 DEF Makes, Leaves
  <2>4. pc' = "attach" => Reached'
    <3>1. pc' = "attach" => pc \in {"connect", "awaitStore"}
      BY <2>1, OnwardFacts, PointFacts DEF Leaves
    <3>2. pc = "connect" /\ pc' = "attach" => "connect" \in done
      BY <1>1 DEF RunStep, Preflight, Ingest, DeployNothing, StoreApiKey, CreateService,
         OAuthSkip, RehydrateOauth, DirectOauth, ResolveUpstream, MintSecret, PutClient,
         Register, Authorize, ReuseConnection, SetUpConnector, AwaitDatastore, Attach,
         ReuseDatastore, Fail
    <3> QED BY <2>1, <3>1, <3>2 DEF Makes, Leaves, Aims, Reached
  <2>5. pc' = "finish" /\ mem'.state = "READY" => Registered' /\ Reached'
    BY <2>1 DEF Writes, Makes, Leaves, Aims, Registered, Reached
  <2> QED BY <2>2, <2>3, <2>4, <2>5 DEF Aims
<1>2. CASE Finish \/ Crash \/ Submit \/ \E o \in Overrides : Resume(o)
  BY <1>2, RestCarries DEF Carries, Aims
<1>3. CASE Delete
  BY <1>3, DeleteLeaves DEF Aims
<1>4. CASE UNCHANGED vars
  BY <1>4 DEF vars, execVars, Aims, Registered, Reached
<1> QED BY <1>1, <1>2, <1>3, <1>4 DEF Next

\* A run that succeeds leaves a connector to another endpoint than the one it
\* registered only if it took over the registration or the connector of an
\* attempt before, and answers elsewhere now.
THEOREM StraysOnlyAfterMove == Spec => StraysOnlyByMove
<1>1. Init => Aims
  BY DEF Init, Aims
<1>2. TypeOK /\ TypeOK' /\ CredentialsInv /\ RunInv /\ Aims /\ [Next]_vars =>
        [db.state # "READY" /\ db'.state = "READY" /\ cloud.connEndpoint # cloud.registry =>
           \/ "register" \in done /\ cloud.registry # endpoint
           \/ "connect" \in done /\ cloud.connEndpoint # endpoint]_vars
  <2> SUFFICES ASSUME TypeOK, TypeOK', CredentialsInv, RunInv, Aims, Next,
                      db.state # "READY", db'.state = "READY",
                      cloud.connEndpoint # cloud.registry
               PROVE  \/ "register" \in done /\ cloud.registry # endpoint
                      \/ "connect" \in done /\ cloud.connEndpoint # endpoint
    BY DEF vars
  <2>1. RunStep
    <3>1. db \in Record
      BY DEF TypeOK
    <3>2. Submit \/ (\E o \in Overrides : Resume(o)) => db'.state = "RUNNING"
      BY <3>1 DEF Submit, Resume, Record
    <3> QED BY <3>2, DeleteLeaves DEF Next, Crash
  <2>2. Finish /\ mem.state = "READY"
    BY <2>1, RunStates
  <2>3. Registered /\ Reached
    BY <2>2 DEF Finish, Aims
  <2> QED BY <2>3 DEF Registered, Reached
<1> QED
  BY <1>1, <1>2, StepAims, TypeCorrect, CredentialsInvariant, RunInvariant, PTL
  DEF Spec, StraysOnlyByMove

\* Record r names an Authorization and a connector that present different clients.
Split(r) == r.authorization /\ r.datastore # 0 /\ cloud.authzClient # cloud.connClient

\* One of the two is that of an attempt before, and not of this one's client.
TurnedAway ==
  \/ "authorize" \in done /\ cloud.authzClient # holder
  \/ "connect" \in done /\ cloud.connClient # holder

\* What the executor has in hand is split as the stored record is, or the run has
\* turned away; past the authorization it presents its own client or a reused one.
SplitInv ==
  /\ pc \in BeforeAuthorization /\ Split(mem) => Split(db)
  /\ Split(mem) => Split(db) \/ TurnedAway
  /\ pc \in {"connect", "awaitStore", "attach"} /\ mem.authorization
       => "authorize" \in done \/ cloud.authzClient = holder

\* A credential is written only where the record does not name it yet.
LEMMA WritesOnce ==
  ASSUME CredentialsInv, Makes
  PROVE  /\ mem.authorization => cloud'.authzClient = cloud.authzClient
         /\ mem.datastore # 0 => cloud'.connClient = cloud.connClient
<1>1. pc = "authorize" /\ mem.authorization => ReuseAuthorization
  BY DEF CredentialsInv, InHand, BeforeAuthorization, ReuseAuthorization
<1>2. pc = "connect" /\ mem.datastore # 0 => ReuseDatastore
  BY DEF CredentialsInv, InHand, BeforeDatastore, ReuseDatastore
<1> QED BY <1>1, <1>2 DEF Makes

\* An Authorization that the record comes to name presents this execution's client.
LEMMA AuthorizeActs ==
  ASSUME TypeOK, CredentialsInv, RunInv, Authorize
  PROVE  /\ mem'.authorization => mem.authorization \/ cloud'.authzClient = holder
         /\ pc' = "connect" /\ mem'.authorization
              => "authorize" \in done \/ cloud'.authzClient = holder
         /\ pc' = "connect" /\ holder # None => mem'.authorization
<1>0. mem \in Record /\ cloud \in Cloud /\ mem.state = "RUNNING" /\ pc = "authorize"
  BY DEF TypeOK, RunInv, Phases, Authorize
<1>1. mem.authorization => "authorize" \in done
  BY <1>0 DEF CredentialsInv, InHand, BeforeAuthorization
<1>2. CASE Complete(mem, mem, "authorize", "connect") /\ (holder = None \/ ReuseAuthorization)
  <2>1. Completes(mem, mem, "authorize", "connect")
    BY <1>0, <1>2, CompleteEnds DEF Stages
  <2> QED BY <1>1, <1>2, <2>1 DEF Completes, Kept, ReuseAuthorization
<1>3. CASE /\ cloud' = Authorized
           /\ Complete(mem, [mem EXCEPT !.authorization = TRUE], "authorize", "connect")
  <2> DEFINE k == [mem EXCEPT !.authorization = TRUE]
  <2>1. k \in Record /\ k.state = "RUNNING" /\ k.authorization
    BY <1>0 DEF Record
  <2>2. cloud'.authzClient = holder
    BY <1>0, <1>3 DEF Authorized, Cloud
  <2> HIDE DEF k
  <2>3. Completes(mem, k, "authorize", "connect")
    BY <1>0, <1>3, <2>1, CompleteEnds DEF Stages, k
  <2> QED BY <2>1, <2>2, <2>3 DEF Completes, Kept
<1>4. CASE Abort(mem, "authorize", "call")
  <2>1. Kept(mem', mem) /\ pc' = "finish"
    BY <1>0, <1>4, FailEnds DEF Abort, Stages, Errors
  <2> QED BY <2>1 DEF Kept
<1> QED BY <1>2, <1>3, <1>4 DEF Authorize

LEMMA StepSplit ==
  ASSUME TypeOK, TypeOK', CredentialsInv, RunInv, SplitInv, [Next]_vars
  PROVE  SplitInv' /\ (Split(db)' => Split(db) \/ TurnedAway)
<1>0. /\ db.authorization => mem.authorization
      /\ db.datastore # 0 => mem.datastore # 0
  BY DEF CredentialsInv, StoreLags
<1>1. CASE RunStep /\ ~Finish
  <2>1. Writes /\ Makes /\ Leaves
    BY <1>1, RunWrites, RunMakes, RunLeaves
  <2>2. /\ mem.authorization => cloud'.authzClient = cloud.authzClient
        /\ mem.datastore # 0 => cloud'.connClient = cloud.connClient
    BY <2>1, WritesOnce
  <2>3. pc = "authorize" =>
          /\ mem'.authorization => mem.authorization \/ cloud'.authzClient = holder
          /\ pc' = "connect" /\ mem'.authorization
               => "authorize" \in done \/ cloud'.authzClient = holder
    <3>1. pc = "authorize" => Authorize
      BY <1>1 DEF RunStep, Preflight, Ingest, DeployNothing, StoreApiKey, CreateService,
         OAuthSkip, RehydrateOauth, DirectOauth, ResolveUpstream, MintSecret, PutClient,
         Register, ReuseConnection, SetUpConnector, AwaitDatastore, Attach
    <3> QED BY <3>1, AuthorizeActs
  <2>4. pc \in {"connect", "awaitStore", "attach"} /\ mem.authorization
          => "authorize" \in done \/ cloud.authzClient = holder
    BY DEF SplitInv
  \* A record that was split stays so, and so does the stored one.
  <2>5. mem.authorization /\ mem.datastore # 0 /\ Split(mem)' => Split(mem)
    BY <2>1, <2>2 DEF Split, Writes
  <2>6. Split(mem)' /\ Split(db) => Split(db)'
    BY <1>0, <2>1, <2>2 DEF Split, Writes, Kept
  <2>7. pc = "awaitStore" /\ mem.datastore = 0 /\ Split(mem)'
          => TurnedAway /\ TurnedAway'
    <3>1. SUFFICES ASSUME pc = "awaitStore", mem.datastore = 0, Split(mem)'
                   PROVE  TurnedAway /\ TurnedAway'
      OBVIOUS
    <3>2. /\ cloud'.authzClient = cloud.authzClient /\ cloud'.connClient = cloud.connClient
          /\ mem'.authorization = mem.authorization /\ holder' = holder /\ done' = done
      BY <2>1, <3>1 DEF Makes, Writes, Leaves
    <3>3. cloud.connClient = holder
      BY <3>1 DEF CredentialsInv, InHand
    <3> QED BY <2>4, <3>1, <3>2, <3>3 DEF Split, TurnedAway
  <2>8. Split(mem)' => Split(db)' \/ TurnedAway'
    <3>1. SUFFICES ASSUME Split(mem)' PROVE Split(db)' \/ TurnedAway'
      OBVIOUS
    <3>2. CASE mem.datastore = 0
      <4>1. pc = "awaitStore"
        BY <2>1, <3>1, <3>2 DEF Split, Writes
      <4> QED BY <2>7, <3>1, <3>2, <4>1
    <3>3. CASE mem.datastore # 0 /\ ~mem.authorization
      <4>1. pc = "authorize" /\ cloud'.authzClient = holder
        BY <2>1, <2>3, <3>1, <3>3 DEF Split, Writes
      <4>2. "connect" \in done /\ done' = done /\ holder' = holder
        BY <2>1, <3>3, <4>1 DEF CredentialsInv, InHand, BeforeDatastore, BeforeAuthorization, Leaves
      <4> QED BY <3>1, <4>1, <4>2 DEF Split, TurnedAway
    <3>4. CASE mem.datastore # 0 /\ mem.authorization
      <4>1. Split(mem)
        BY <2>5, <3>1, <3>4
      <4>2. CASE Split(db)
        BY <2>6, <3>1, <4>2
      <4>3. CASE ~Split(db)
        <5>1. TurnedAway /\ pc \notin {"oauth", "putClient"}
          BY <4>1, <4>3 DEF SplitInv, BeforeAuthorization, BeforeClient
        <5> QED BY <2>1, <2>2, <3>4, <5>1 DEF Leaves, TurnedAway
      <4> QED BY <4>2, <4>3
    <3> QED BY <3>2, <3>3, <3>4
  <2>9. pc' \in BeforeAuthorization /\ Split(mem)' => Split(db)'
    <3>1. pc' \in BeforeAuthorization => pc \in BeforeAuthorization \ {"authorize"}
      BY <2>1, OnwardFacts, PointFacts DEF Leaves, BeforeAuthorization, BeforeClient
    <3>2. pc' \in BeforeAuthorization => pc \notin {"authorize", "awaitStore"}
      BY <3>1 DEF BeforeAuthorization, BeforeClient
    <3>3. pc' \in BeforeAuthorization /\ Split(mem)' => Split(mem)
      BY <2>1, <2>5, <3>2 DEF Split, Writes
    <3> QED BY <2>6, <3>1, <3>3 DEF SplitInv
  <2>10. pc' \in {"connect", "awaitStore", "attach"} /\ mem'.authorization
           => "authorize" \in done' \/ cloud'.authzClient = holder'
    <3>1. pc' \in {"connect", "awaitStore", "attach"} =>
            pc \in {"connect", "awaitStore"} \/ (pc = "authorize" /\ pc' = "connect")
      BY <2>1, OnwardFacts, PointFacts DEF Leaves
    <3> QED BY <2>1, <2>3, <2>4, <3>1 DEF Leaves, Makes, Writes
  <2>11. Split(db)' => Split(db) \/ TurnedAway
    <3>1. SUFFICES ASSUME Split(db)' PROVE Split(db) \/ TurnedAway
      OBVIOUS
    <3>2. CASE Kept(db', db)
      BY <1>0, <2>2, <3>1, <3>2 DEF Kept, Split
    <3>3. CASE Kept(db', mem)
      <4>1. Split(mem)
        BY <2>2, <3>1, <3>3 DEF Kept, Split
      <4> QED BY <4>1 DEF SplitInv
    <3>4. CASE Kept(db', mem') /\ pc # "authorize"
      <4>1. Split(mem)' /\ mem'.authorization = mem.authorization
        BY <2>1, <3>1, <3>4 DEF Kept, Split, Writes
      <4>2. mem.datastore = 0 => TurnedAway
        BY <2>1, <2>7, <4>1 DEF Split, Writes
      <4>3. mem.datastore # 0 => Split(mem)
        BY <2>5, <4>1 DEF Split
      <4> QED BY <4>2, <4>3 DEF SplitInv
    <3> QED BY <2>1, <3>2, <3>3, <3>4 DEF Writes
  <2> QED BY <2>8, <2>9, <2>10, <2>11 DEF SplitInv
<1>2. CASE Finish \/ Crash \/ Submit \/ \E o \in Overrides : Resume(o)
  <2>1. Carries
    BY <1>2, RestCarries
  <2>2. Split(mem)' <=> Split(db)'
    BY <2>1 DEF Carries, Split
  <2>3. Split(db)' => Split(db) \/ Split(mem)
    BY <2>1 DEF Carries, Kept, Split
  <2>4. pc' \notin {"connect", "awaitStore", "attach"}
    BY <2>1 DEF Carries
  <2> QED BY <2>2, <2>3, <2>4 DEF SplitInv
<1>3. CASE Delete
  <2>1. ~Split(mem)' /\ ~Split(db)' /\ pc' = "idle"
    BY <1>3, DeleteLeaves DEF Split
  <2> QED BY <2>1 DEF SplitInv
<1>4. CASE UNCHANGED vars
  BY <1>4 DEF vars, execVars, SplitInv, Split, TurnedAway
<1> QED BY <1>1, <1>2, <1>3, <1>4 DEF Next

\* The Authorization and the connector of a run come apart only when it takes over
\* one that an attempt before made, and presents another client now.
THEOREM SplitsOnlyAfterChange == Spec => SplitsOnlyByChange
<1>1. Init => SplitInv
  <2> SUFFICES ASSUME Init PROVE SplitInv
    OBVIOUS
  <2>1. ~mem.authorization /\ pc = "idle"
    BY DEF Init, NoRecord
  <2> QED BY <2>1 DEF SplitInv, Split
<1>2. TypeOK /\ TypeOK' /\ CredentialsInv /\ RunInv /\ SplitInv /\ [Next]_vars =>
        SplitInv' /\ [OneClient /\ ~OneClient' =>
                        \/ "authorize" \in done /\ cloud.authzClient # holder
                        \/ "connect" \in done /\ cloud.connClient # holder]_vars
  BY StepSplit DEF OneClient, Split, TurnedAway
<1> QED
  BY <1>1, <1>2, TypeCorrect, CredentialsInvariant, RunInvariant, PTL
  DEF Spec, SplitsOnlyByChange

\* An app lists no data store but the record's, as long as no write was lost.
TieInv ==
  /\ db.datastore # 0 => db.datastore = mem.datastore
  /\ faults = 0 /\ pc = "attach" => db.datastore = mem.datastore
  /\ faults = 0 /\ ~report.answered => cloud.attached \subseteq {db.datastore} \ {0}

LEMMA FaultsGrow ==
  ASSUME TypeOK, RunStep
  PROVE  faults' = 0 => faults = 0
<1>0. faults \in Nat
  BY DEF TypeOK
<1>1. \A r : Emit(r) => (faults' = 0 => faults = 0)
  BY <1>0 DEF Emit
<1>2. \A p, k, s, next : Complete(p, k, s, next) => (faults' = 0 => faults = 0)
  BY <1>1 DEF Complete
<1>3. \A r, s, e : Abort(r, s, e) => faults' = faults
  BY DEF Abort
<1>4. CASE Preflight \/ Ingest
  BY <1>1, <1>2, <1>3, <1>4 DEF Preflight, Ingest, ProbeExisting, BuildManifest
<1>5. CASE DeployNothing \/ StoreApiKey \/ CreateService
  BY <1>2, <1>3, <1>5 DEF DeployNothing, StoreApiKey, CreateService
<1>6. CASE OAuthSkip \/ RehydrateOauth \/ DirectOauth \/ ResolveUpstream \/ MintSecret \/ PutClient
  BY <1>2, <1>3, <1>6
  DEF OAuthSkip, RehydrateOauth, DirectOauth, ResolveUpstream, MintSecret, PutClient
<1>7. CASE Register \/ Authorize
  BY <1>2, <1>3, <1>7 DEF Register, Authorize
<1>8. CASE ReuseConnection \/ SetUpConnector \/ AwaitDatastore \/ Attach
  BY <1>1, <1>2, <1>3, <1>8 DEF ReuseConnection, SetUpConnector, AwaitDatastore, Attach
<1>9. CASE Finish
  BY <1>0, <1>9 DEF Finish
<1> QED BY <1>4, <1>5, <1>6, <1>7, <1>8, <1>9 DEF RunStep

\* The executor comes to the attachment with a data store that is on the stored
\* record, or its last write was lost.
LEMMA AttachKnown ==
  ASSUME TypeOK, RunInv, ReuseConnection \/ AwaitDatastore, pc' = "attach", faults' = 0
  PROVE  db'.datastore = mem'.datastore
<1>0. mem \in Record /\ mem.state = "RUNNING" /\ faults \in Nat /\ "connect" \in Stages
  BY DEF TypeOK, RunInv, Phases, ReuseConnection, AwaitDatastore, Stages
<1>1. ASSUME NEW m \in Record, Complete(m, m, "connect", "attach")
      PROVE  db'.datastore = mem'.datastore
  <2>1. db' = WithStage(m, "connect") /\ mem' = WithStage(m, "connect")
    BY <1>0, <1>1 DEF Complete, Emit
  <2> QED BY <2>1
<1>2. [mem EXCEPT !.datastore = mem.collection] \in Record
  BY <1>0 DEF Record
<1>3. ~Abort(mem, "connect", "call")
  BY DEF Abort, Fail
<1> QED BY <1>0, <1>1, <1>2, <1>3 DEF ReuseConnection, AwaitDatastore

LEMMA StepTie ==
  TypeOK /\ TypeOK' /\ CredentialsInv /\ RunInv /\ TieInv /\ [Next]_vars => TieInv'
<1> SUFFICES ASSUME TypeOK, TypeOK', CredentialsInv, RunInv, TieInv, [Next]_vars PROVE TieInv'
  OBVIOUS
<1>1. CASE RunStep /\ ~Finish
  <2>1. Writes /\ Makes /\ Leaves /\ (faults' = 0 => faults = 0)
    BY <1>1, RunWrites, RunMakes, RunLeaves, FaultsGrow
  <2>2. mem.datastore # 0 => mem'.datastore = mem.datastore
    BY <2>1 DEF Writes, CredentialsInv, InHand
  <2>3. db.datastore # 0 => db'.datastore = db.datastore
    BY <2>1, <2>2 DEF TieInv, Writes, Kept
  <2>4. db'.datastore # 0 => db'.datastore = mem'.datastore
    BY <2>1, <2>2 DEF TieInv, Writes, Kept
  <2>5. faults' = 0 /\ pc' = "attach" => db'.datastore = mem'.datastore
    <3>1. pc' = "attach" => pc \in {"connect", "awaitStore"}
      BY <2>1, OnwardFacts, PointFacts DEF Leaves
    <3>2. pc' = "attach" => ReuseConnection \/ AwaitDatastore
      BY <1>1, <3>1 DEF RunStep, Preflight, Ingest, DeployNothing, StoreApiKey, CreateService,
         OAuthSkip, RehydrateOauth, DirectOauth, ResolveUpstream, MintSecret, PutClient,
         Register, Authorize, SetUpConnector, Attach, Fail
    <3> QED BY <3>2, AttachKnown
  <2>6. faults' = 0 /\ ~report'.answered => cloud'.attached \subseteq {db'.datastore} \ {0}
    <3>1. pc = "attach" => mem.datastore # 0
      BY DEF RunInv, AtHand
    <3> QED BY <2>1, <2>3, <3>1 DEF TieInv, Makes, Leaves
  <2> QED BY <2>4, <2>5, <2>6 DEF TieInv
<1>2. CASE Finish \/ Crash \/ Submit \/ \E o \in Overrides : Resume(o)
  <2>1. Carries
    BY <1>2, RestCarries
  <2>2. faults' = 0 => faults = 0
    BY <1>2, FaultsGrow DEF RunStep, Crash, Submit, Resume
  <2>3. db.datastore # 0 => db'.datastore = db.datastore
    BY <2>1 DEF Carries, Kept, TieInv
  <2> QED BY <2>1, <2>2, <2>3 DEF Carries, TieInv
<1>3. CASE Delete
  BY <1>3, DeleteLeaves DEF TieInv
<1>4. CASE UNCHANGED vars
  BY <1>4 DEF vars, execVars, TieInv
<1> QED BY <1>1, <1>2, <1>3, <1>4 DEF Next

\* A deletion that reports no error leaves no data store on an app, whether the
\* app is on the stored request or was named by a resume only (delete_mcp).
THEOREM NothingIsLeftTied == Spec => NothingStaysTied
<1>1. Init => TieInv
  BY EmptyIs DEF Init, TieInv, NoRecord
<1>2. TypeOK /\ RunInv /\ TieInv /\ [Next]_vars =>
        [Delete /\ faults = 0 /\ report'.errors = {} => cloud'.attached = {}]_vars
  <2> SUFFICES ASSUME TypeOK, RunInv, TieInv, Delete, faults = 0, report'.errors = {}
               PROVE  cloud'.attached = {}
    OBVIOUS
  <2>1. db.datastore # 0 => db.datastore = db.collection
    BY DEF RunInv, Named
  <2>2. cloud.attached \subseteq {db.datastore} \ {0}
    BY DEF RunInv, Phases, TieInv, Delete
  <2>3. /\ cloud' = Without(cloud, ToRemove(db), db)
        /\ \/ db.collection \notin cloud.attached
           \/ "detach" \in ToRemove(db)
           \/ "collection" \notin ToRemove(db)
    BY DEF Delete
  <2>4. CASE "detach" \in ToRemove(db)
    BY <2>2, <2>3, <2>4 DEF Without
  <2>5. CASE "detach" \notin ToRemove(db)
    <3>1. db.collection # 0 => "collection" \in ToRemove(db)
      BY DEF ToRemove
    <3>2. cloud.attached = {}
      BY <2>1, <2>2, <2>3, <2>5, <3>1
    <3> QED BY <2>3, <2>5, <3>2 DEF Without
  <2> QED BY <2>4, <2>5
<1> QED
  BY <1>1, <1>2, StepTie, TypeCorrect, CredentialsInvariant, RunInvariant, PTL
  DEF Spec, NothingStaysTied

-----------------------------------------------------------------------------
(***************************************************************************)
(* What a run keeps that keeps its kind.  Three hypotheses speak of the    *)
(* run itself, and hold of every run in which no resume changes what they  *)
(* name: how it authenticates, whether its server is its own, whose client *)
(* it presents.                                                            *)
(***************************************************************************)
\* A run that authenticates in way a: what it holds, makes and names.
KindInv(a) ==
  /\ holder # None \/ pc \in {"mint", "putClient"} => a = "oauth_user"
  /\ pc \in {"register", "authorize"} /\ a = "oauth_user" => holder # None
  /\ (pc \in {"connect", "awaitStore", "attach"} \/ mem.state = "READY") /\ a = "oauth_user"
       => mem.authorization
  /\ cloud.authzClient # None /\ ~report.answered => a = "oauth_user"
  /\ cloud.keySecret /\ ~report.answered => a = "api_key"
  /\ a = "api_key" => (mem.service => mem.keySecret) /\ (db.service => db.keySecret)

\* The oauth stage of a run with OAuth ends with a client in hand, of another without.
LEMMA OauthActs ==
  ASSUME RunStep, pc \in {"oauth", "putClient"}
  PROVE  /\ pc' = "register" /\ req.auth = "oauth_user" => holder' # None
         /\ pc = "oauth" /\ (holder' # holder \/ pc' = "mint") => req.auth = "oauth_user"
<1>1. OAuthSkip \/ RehydrateOauth \/ DirectOauth \/ ResolveUpstream \/ PutClient
  BY DEF RunStep, Preflight, Ingest, DeployNothing, StoreApiKey, CreateService, MintSecret,
     Register, Authorize, ReuseConnection, SetUpConnector, AwaitDatastore, Attach, Finish
<1>2. \A r, s, e : (Fail(r, s, e) => pc' = "finish") /\ (Abort(r, s, e) => pc' = "finish")
  BY DEF Fail, Abort
<1>3. \A p, k, s, next : Complete(p, k, s, next) => pc' \in {next, "finish"}
  BY DEF Complete
<1>4. CASE OAuthSkip
  BY <1>3, <1>4 DEF OAuthSkip, NoOauth
<1>5. CASE RehydrateOauth \/ DirectOauth
  BY <1>2, <1>3, <1>5 DEF RehydrateOauth, DirectOauth, NoOauth, None
<1>6. CASE ResolveUpstream
  BY <1>2, <1>6 DEF ResolveUpstream, NoOauth
<1>7. CASE PutClient
  BY <1>2, <1>3, <1>7 DEF PutClient, None
<1> QED BY <1>1, <1>4, <1>5, <1>6, <1>7

LEMMA StepKind ==
  ASSUME NEW a \in AuthKinds, TypeOK, TypeOK', CredentialsInv, RunInv, req.auth = a,
         KindInv(a), [Next]_vars
  PROVE  KindInv(a)'
<1>1. CASE RunStep /\ ~Finish
  <2>1. Writes /\ Makes /\ Leaves
    BY <1>1, RunWrites, RunMakes, RunLeaves
  <2>2. holder' # None \/ pc' \in {"mint", "putClient"} => a = "oauth_user"
    <3>1. pc' = "mint" => pc = "oauth"
      BY <2>1, OnwardFacts, PointFacts DEF Leaves
    <3>2. pc' = "putClient" => pc = "mint"
      BY <2>1, OnwardFacts, PointFacts DEF Leaves
    <3>3. pc = "oauth" /\ (holder' # holder \/ pc' = "mint") => a = "oauth_user"
      BY <1>1, OauthActs
    <3> QED BY <2>1, <3>1, <3>2, <3>3 DEF Leaves, KindInv
  <2>3. pc' \in {"register", "authorize"} /\ a = "oauth_user" => holder' # None
    <3>1. pc' = "register" => pc \in {"oauth", "putClient"}
      BY <2>1, OnwardFacts, PointFacts DEF Leaves
    <3>2. pc' = "authorize" => pc = "register"
      BY <2>1, OnwardFacts, PointFacts DEF Leaves
    <3> QED BY <1>1, <2>1, <3>1, <3>2, OauthActs DEF Leaves, KindInv
  <2>4. (pc' \in {"connect", "awaitStore", "attach"} \/ mem'.state = "READY") /\ a = "oauth_user"
          => mem'.authorization
    <3>1. pc' \in {"connect", "awaitStore", "attach"} =>
            pc \in {"connect", "awaitStore"} \/ (pc = "authorize" /\ pc' = "connect")
      BY <2>1, OnwardFacts, PointFacts DEF Leaves
    <3>2. pc = "authorize" /\ pc' = "connect" /\ a = "oauth_user" => mem'.authorization
      <4>1. pc = "authorize" => Authorize
        BY <1>1 DEF RunStep, Preflight, Ingest, DeployNothing, StoreApiKey, CreateService,
           OAuthSkip, RehydrateOauth, DirectOauth, ResolveUpstream, MintSecret, PutClient,
           Register, ReuseConnection, SetUpConnector, AwaitDatastore, Attach
      <4>2. pc = "authorize" /\ a = "oauth_user" => holder # None
        BY DEF KindInv
      <4> QED BY <4>1, <4>2, AuthorizeActs
    <3> QED BY <2>1, <3>1, <3>2 DEF Writes, KindInv
  <2>5. /\ cloud'.authzClient # None /\ ~report'.answered => a = "oauth_user"
        /\ cloud'.keySecret /\ ~report'.answered => a = "api_key"
    BY <2>1 DEF Makes, Leaves, KindInv
  <2>6. a = "api_key" => (mem'.service => mem'.keySecret) /\ (db'.service => db'.keySecret)
    BY <2>1 DEF Writes, Kept, KindInv
  <2> QED BY <2>2, <2>3, <2>4, <2>5, <2>6 DEF KindInv
<1>2. CASE Finish \/ Crash \/ Submit \/ \E o \in Overrides : Resume(o)
  <2>1. Carries
    BY <1>2, RestCarries
  <2>2. mem'.state = "READY" => mem' = mem
    <3>1. CASE Finish
      BY <2>1, <3>1, RunStates DEF RunStep, Carries
    <3>2. CASE Crash
      BY <2>1, <3>2 DEF Crash, Carries, RunInv, Phases
    <3>3. CASE Submit \/ \E o \in Overrides : Resume(o)
      <4>1. db \in Record
        BY DEF TypeOK
      <4> QED BY <2>1, <3>3, <4>1 DEF Submit, Resume, Record, Carries
    <3> QED BY <1>2, <3>1, <3>2, <3>3
  <2> QED BY <2>1, <2>2 DEF Carries, Kept, KindInv
<1>3. CASE Delete
  BY <1>3, DeleteLeaves DEF KindInv
<1>4. CASE UNCHANGED vars
  BY <1>4 DEF vars, execVars, KindInv
<1> QED BY <1>1, <1>2, <1>3, <1>4 DEF Next

\* The stored request is that of the submission, whatever a resume is given.
LEMMA RequestStays ==
  ASSUME TypeOK, RunInv, [Next]_vars
  PROVE  db'.request = db.request
<1>1. CASE RunStep /\ ~Finish
  BY <1>1, RunWrites DEF Writes, Kept, RunInv, Phases
<1>2. CASE Finish \/ Crash \/ Submit \/ \E o \in Overrides : Resume(o)
  BY <1>2, RestCarries DEF Carries
<1>3. CASE Delete
  BY <1>3, DeleteLeaves
<1> QED BY <1>1, <1>2, <1>3 DEF Next, vars

\* Only resolving the upstream of a run without a client registers one; no step, and
\* no deletion, takes one back.
LEMMA RegisteredSteps ==
  ASSUME TypeOK, [Next]_vars
  PROVE  \/ cloud'.registered = cloud.registered
         \/ ResolveUpstream /\ req.client = None /\ cloud'.registered = cloud.registered + 1
<1>0. cloud \in Cloud
  BY DEF TypeOK
<1>1. CASE \/ Preflight \/ Ingest \/ DeployNothing \/ OAuthSkip \/ RehydrateOauth \/ DirectOauth
           \/ ReuseConnection \/ AwaitDatastore \/ Finish \/ Crash \/ Submit
           \/ (\E o \in Overrides : Resume(o)) \/ UNCHANGED vars
  BY <1>1 DEF Preflight, Ingest, DeployNothing, OAuthSkip, RehydrateOauth, DirectOauth,
     ReuseConnection, AwaitDatastore, Finish, Crash, Submit, Resume, vars
<1>2. CASE StoreApiKey \/ CreateService
  BY <1>0, <1>2 DEF StoreApiKey, CreateService, Served, Cloud
<1>3. CASE ResolveUpstream
  <2>1. \E n \in Registrations(req), k \in Confidential(req) :
          LET asked == [cloud EXCEPT !.registered = @ + n]
          IN  cloud' = asked \/ cloud' = [asked EXCEPT !.upstream = @ \/ k]
    BY <1>3 DEF ResolveUpstream
  <2>2. \E n \in Registrations(req) : cloud'.registered = cloud.registered + n
    BY <1>0, <2>1 DEF Cloud
  <2>3. cloud.registered \in Nat
    BY <1>0 DEF Cloud
  <2> QED BY <1>3, <2>2, <2>3 DEF Registrations
<1>4. CASE MintSecret \/ PutClient
  BY <1>0, <1>4 DEF MintSecret, PutClient, Cloud
<1>5. CASE Register \/ Authorize
  BY <1>0, <1>5 DEF Register, Authorize, Authorized, Cloud
<1>6. CASE SetUpConnector \/ Attach
  BY <1>0, <1>6 DEF SetUpConnector, Attach, Tied, Cloud
<1>7. CASE Delete
  BY <1>7 DEF Delete, Without
<1> QED BY <1>1, <1>2, <1>3, <1>4, <1>5, <1>6, <1>7 DEF Next, RunStep

\* A run registers one client with the upstream an attempt, and none at its first if
\* it brings its own.
RegisteredInv ==
  /\ cloud.registered <= resumes + 1
  /\ pc \in BeforeClient => cloud.registered <= resumes
  /\ db.state = "ABSENT" /\ ~report.answered => cloud.registered = 0
  /\ resumes = 0 => (db.request.client = None <=> req.client = None)
  /\ resumes = 0 /\ req.client # None => cloud.registered = 0

LEMMA StepRegistered ==
  TypeOK /\ RunInv /\ RunInv' /\ RegisteredInv /\ [Next]_vars => RegisteredInv'
<1> SUFFICES ASSUME TypeOK, RunInv, RunInv', RegisteredInv, [Next]_vars
             PROVE  RegisteredInv'
  OBVIOUS
<1>0. /\ cloud.registered \in Nat /\ resumes \in Nat /\ db'.request = db.request
      /\ \/ cloud'.registered = cloud.registered
         \/ ResolveUpstream /\ req.client = None /\ cloud'.registered = cloud.registered + 1
  BY RequestStays, RegisteredSteps DEF TypeOK, Cloud
<1>1. CASE RunStep /\ ~Finish
  <2>1. Leaves /\ resumes' = resumes /\ db'.state = "RUNNING"
    <3>1. pc' # "idle" /\ resumes' = resumes
      BY <1>1, RunStepMoves DEF RunStep, Preflight, Ingest, DeployNothing, StoreApiKey, CreateService, OAuthSkip,
         RehydrateOauth, DirectOauth, ResolveUpstream, MintSecret, PutClient, Register, Authorize,
         ReuseConnection, SetUpConnector, AwaitDatastore, Attach, bounds
    <3> QED BY <1>1, <3>1, RunLeaves DEF RunInv, Phases
  <2>2. pc' \in BeforeClient => pc \in BeforeClient
    BY <2>1, OnwardFacts, PointFacts DEF Leaves, BeforeClient
  <2>3. ResolveUpstream => pc = "oauth" /\ pc' \notin BeforeClient
    BY DEF ResolveUpstream, Fail, BeforeClient
  <2> QED BY <1>0, <2>1, <2>2, <2>3 DEF Leaves, BeforeClient, RegisteredInv
<1>2. CASE Finish \/ Crash
  <2>1. /\ pc' = "idle" /\ req' = db'.request /\ resumes' = resumes /\ cloud' = cloud
        /\ report' = report
    BY <1>2 DEF Finish, Crash, Idle, bounds
  <2>2. db.state = "RUNNING" /\ db'.state # "ABSENT"
    <3>1. pc # "idle" /\ mem.state # "ABSENT"
      BY <1>2 DEF Finish, Crash, RunInv, Phases, Outcome
    <3>2. db.state = "RUNNING" /\ mem \in Record /\ db \in Record
      BY <3>1 DEF RunInv, Phases, TypeOK
    <3>3. \A r \in Record : Crashed(r).state # "ABSENT"
      BY DEF Crashed, Outcome, Record
    <3> QED BY <1>2, <3>1, <3>2, <3>3 DEF Finish, Crash
  <2> QED BY <1>0, <2>1, <2>2 DEF BeforeClient, RegisteredInv
<1>3. CASE Submit
  <2>1. db \in Record /\ db' = [db EXCEPT !.state = "RUNNING"]
    BY <1>3 DEF TypeOK, Submit
  <2>2. db'.state = "RUNNING"
    BY <2>1 DEF Record
  <2> QED BY <1>0, <1>3, <2>2 DEF Submit, bounds, RegisteredInv
<1>4. ASSUME NEW o \in Overrides, Resume(o)
      PROVE  RegisteredInv'
  <2>1. db \in Record /\ db' = [db EXCEPT !.state = "RUNNING", !.error = None, !.failedStage = None]
    BY <1>4 DEF TypeOK, Resume
  <2>2. db'.state = "RUNNING"
    BY <2>1 DEF Record
  <2>3. resumes' = resumes + 1 /\ cloud' = cloud
    BY <1>4 DEF Resume
  <2> QED BY <1>0, <2>2, <2>3 DEF RegisteredInv
<1>5. CASE Delete
  <2>1. /\ req' = db.request /\ report'.answered /\ pc' = "idle" /\ resumes' = resumes
    BY <1>5, DeleteLeaves DEF Delete, bounds
  <2>2. cloud'.registered = cloud.registered
    BY <1>5 DEF Delete, Without
  <2> QED BY <1>0, <2>1, <2>2 DEF BeforeClient, RegisteredInv
<1>6. CASE UNCHANGED vars
  BY <1>6 DEF vars, execVars, RegisteredInv
<1> QED BY <1>1, <1>2, <1>3, <1>4, <1>5, <1>6 DEF Next

LEMMA InitRegistered == Init => RegisteredInv
<1> SUFFICES ASSUME Init PROVE RegisteredInv
  OBVIOUS
<1>1. PICK r \in Requests : req = r /\ db = NoRecord(Redacted(r))
  BY DEF Init
<1>2. r \in Request
  BY <1>1, RequestsAssumption
<1>3. Redacted(r).client = None <=> r.client = None
  BY <1>2 DEF Redacted, Request, None
<1> QED BY <1>1, <1>3, EmptyIs DEF Init, NoRecord, RegisteredInv, BeforeClient

\* What the teardown of a run takes with it that says READY and has kept to one way
\* of authenticating, however often it was resumed: the registration, the
\* Authorization, its collection, its key, and all of a client it presents.  If it was
\* never resumed, all that is left is one client that it registered with the upstream
\* because it brought none; if it was, there may be one of each attempt.
THEOREM TeardownIsCleanAfterResumes ==
  \A a \in AuthKinds : Spec /\ [](req.auth = a) => TeardownAfterResumes
<1> SUFFICES ASSUME NEW a \in AuthKinds
             PROVE  Spec /\ [](req.auth = a) => TeardownAfterResumes
  OBVIOUS
<1>1. Init => KindInv(a)
  <2> SUFFICES ASSUME Init PROVE KindInv(a)
    OBVIOUS
  <2>1. ~mem.service /\ ~db.service /\ mem.state = "ABSENT"
    BY DEF Init, NoRecord
  <2> QED BY <2>1, EmptyIs DEF Init, KindInv
<1>2. TypeOK /\ TypeOK' /\ CredentialsInv /\ RunInv /\ req.auth = a /\ KindInv(a) /\ [Next]_vars
        => KindInv(a)'
  BY StepKind
<1>3. TypeOK /\ CredentialsInv /\ RunInv /\ KindInv(a) /\ [Next]_vars =>
        [Delete /\ db.state = "READY" /\ report'.errors = {} => TakenAlong]_vars
  <2> SUFFICES ASSUME TypeOK, CredentialsInv, RunInv, KindInv(a), Delete, db.state = "READY",
                      report'.errors = {}
               PROVE  TakenAlong
    OBVIOUS
  <2>1. cloud' = Without(cloud, ToRemove(db), db)
    BY DEF Delete
  <2>2. mem = db /\ ~report.answered
    BY DEF Delete, RunInv, Phases
  <2>3. /\ db.registry /\ db.datastore # 0 /\ db.collection # 0
        /\ cloud.authzClient # None => db.authorization
        /\ db.service /\ cloud.keySecret => db.keySecret
    BY <2>2 DEF RunInv, Whole, Usable, Named, KindInv
  <2>4. "proxy" \in {cloud.authzClient, cloud.connClient} => db.proxyClient
    BY <2>3 DEF CredentialsInv, Backed, None
  <2>5. /\ "registry" \in ToRemove(db) /\ "collection" \in ToRemove(db)
        /\ db.authorization => "authorization" \in ToRemove(db)
        /\ db.keySecret => "key" \in ToRemove(db)
        /\ db.proxyClient => {"client", "downstream", "upstream"} \subseteq ToRemove(db)
    BY <2>3 DEF ToRemove
  <2> QED BY <2>1, <2>3, <2>4, <2>5 DEF Without, TypeOK, Cloud, TakenAlong
<1>4. /\ TypeOK /\ RegisteredInv /\ [Next]_vars
      /\ [Delete /\ db.state = "READY" /\ resumes = 0 /\ report'.errors = {} =>
            cloud' = OnlyRegistered(cloud.registered)]_vars
      /\ [Delete /\ db.state = "READY" /\ report'.errors = {} => TakenAlong]_vars
      => [Delete /\ db.state = "READY" /\ report'.errors = {} =>
            /\ TakenAlong /\ FewRegistered
            /\ resumes = 0 => cloud' = OnlyRegistered(cloud.registered)]_vars
  BY DEF FewRegistered, RegisteredInv
<1> QED
  BY <1>1, <1>2, <1>3, <1>4, InitRegistered, StepRegistered, TypeCorrect, CredentialsInvariant,
     RunInvariant, TeardownIsClean, PTL
  DEF Spec, CleanTeardown, TeardownAfterResumes

\* The points of the stages after those of `before'.
Past(p, before) == p \in Points \ ({"idle", "finish"} \union before)

BeforeRegister == BeforeClient \union {"mint", "putClient"}

LEMMA PastFacts ==
  ASSUME NEW p \in Points
  PROVE  /\ Past(p, BeforeRegister)
              <=> p \in {"register", "authorize", "connect", "awaitStore", "attach"}
         /\ Past(p, {"preflight"}) <=> p \in Working \ {"preflight"}
BY DEF Past, Working, Points, BeforeDatastore, BeforeAuthorization, BeforeRegister, BeforeClient

\* A run that presents the client of h: it is what the two resources present.
PresentInv(h) ==
  /\ cloud.authzClient \in {None, h}
  /\ mem.datastore # 0 \/ pc = "awaitStore" => cloud.connClient = h

LEMMA StepPresent ==
  ASSUME NEW h \in Clients, TypeOK, TypeOK', CredentialsInv, RunInv,
         Past(pc, BeforeRegister) => holder = h, PresentInv(h), [Next]_vars
  PROVE  PresentInv(h)'
<1>0. pc \in {"authorize", "connect", "awaitStore"} => holder = h
  BY PastFacts DEF TypeOK
<1>1. CASE RunStep /\ ~Finish
  BY <1>0, <1>1, RunWrites, RunMakes DEF Writes, Makes, PresentInv
<1>2. CASE Finish \/ Crash \/ Submit \/ \E o \in Overrides : Resume(o)
  <2>1. Carries
    BY <1>2, RestCarries
  <2>2. mem'.datastore # 0 => mem.datastore # 0
    BY <2>1 DEF Carries, Kept, CredentialsInv, StoreLags
  <2> QED BY <2>1, <2>2 DEF Carries, PresentInv
<1>3. CASE Delete
  <2>1. mem'.datastore = 0 /\ pc' = "idle" /\ \E gone : cloud' = Without(cloud, gone, db)
    BY <1>3, DeleteLeaves DEF Delete
  <2> QED BY <2>1 DEF Without, PresentInv
<1>4. CASE UNCHANGED vars
  BY <1>4 DEF vars, execVars, PresentInv
<1> QED BY <1>1, <1>2, <1>3, <1>4 DEF Next

LEMMA PresentEnds ==
  ASSUME NEW h \in Clients
  PROVE  /\ Init => PresentInv(h)
         /\ CredentialsInv /\ RunInv /\ PresentInv(h) => OneClient
<1>1. Init => PresentInv(h)
  <2> SUFFICES ASSUME Init PROVE PresentInv(h)
    OBVIOUS
  <2>1. mem.datastore = 0 /\ pc = "idle"
    BY DEF Init, NoRecord
  <2> QED BY <2>1, EmptyIs DEF Init, PresentInv
<1>2. CredentialsInv /\ RunInv /\ PresentInv(h) => OneClient
  <2> SUFFICES ASSUME CredentialsInv, RunInv, PresentInv(h), db.authorization, db.datastore # 0
               PROVE  cloud.authzClient = cloud.connClient
    BY DEF OneClient
  <2>1. mem.datastore # 0 /\ cloud.authzClient # None
    BY DEF CredentialsInv, StoreLags, RunInv, Named
  <2> QED BY <2>1 DEF PresentInv
<1> QED BY <1>1, <1>2

\* If the attempts of a run all present the same client, or all present none, then
\* so do the Authorization and the connector, whichever attempts made the one and
\* the other and whichever failed after making it.
THEOREM OneClientForOneHolder ==
  \A h \in Clients : Spec /\ [](Past(pc, BeforeRegister) => holder = h) => []OneClient
<1> SUFFICES ASSUME NEW h \in Clients
             PROVE  Spec /\ [](Past(pc, BeforeRegister) => holder = h) => []OneClient
  OBVIOUS
<1>1. /\ Init => PresentInv(h)
      /\ CredentialsInv /\ RunInv /\ PresentInv(h) => OneClient
  BY PresentEnds
<1>2. TypeOK /\ TypeOK' /\ CredentialsInv /\ RunInv /\ (Past(pc, BeforeRegister) => holder = h)
        /\ PresentInv(h) /\ [Next]_vars => PresentInv(h)'
  BY StepPresent
<1> QED BY <1>1, <1>2, TypeCorrect, CredentialsInvariant, RunInvariant, PTL DEF Spec

\* The endpoint of a server that exists, or does not.
Answers(e) == IF e THEN "existing" ELSE "generated"

\* A run whose server exists or is made, as e says: what names an endpoint names that.
ServerInv(e) ==
  /\ db.request.url # None => req.url # None /\ (Past(pc, {"preflight"}) => existing)
  /\ {endpoint, mem.registerUrl, db.registerUrl, cloud.registry, cloud.connEndpoint}
       \subseteq {None, Answers(e)}
  /\ mem.datastore # 0 \/ pc = "awaitStore" => cloud.connEndpoint # None

LEMMA StepServer ==
  ASSUME NEW e \in BOOLEAN, TypeOK, TypeOK', CredentialsInv, RunInv,
         Past(pc, {"preflight"}) => existing = e, ServerInv(e), [Next]_vars
  PROVE  ServerInv(e)'
<1>0. /\ mem \in Record /\ db \in Record /\ req \in Request
      /\ db.request \in Request /\ mem.request = db.request /\ pc \in Points
  BY DEF TypeOK, Record, RunInv, Phases
<1>1. CASE RunStep /\ ~Finish
  <2>1. Writes /\ Makes /\ Leaves
    BY <1>1, RunWrites, RunMakes, RunLeaves
  <2>2. req' = req /\ db'.request = db.request
    BY <1>0, <2>1 DEF Writes, Leaves, Kept
  <2>3. db'.request.url # None => req'.url # None /\ (Past(pc', {"preflight"}) => existing')
    <3>1. CASE pc = "preflight"
      <4>1. Preflight
        BY <1>1, <3>1 DEF RunStep, Ingest, DeployNothing, StoreApiKey, CreateService,
           OAuthSkip, RehydrateOauth, DirectOauth, ResolveUpstream, MintSecret, PutClient,
           Register, Authorize, ReuseConnection, SetUpConnector, AwaitDatastore, Attach
      <4>2. req.url # None => existing'
        BY <4>1 DEF Preflight
      <4> QED BY <2>2, <4>2 DEF ServerInv
    <3>2. CASE pc # "preflight"
      <4>1. Past(pc, {"preflight"}) /\ existing' = existing
        BY <1>0, <2>1, <3>2, PastFacts DEF Leaves
      <4> QED BY <2>2, <4>1 DEF ServerInv
    <3> QED BY <3>1, <3>2
  <2>4. endpoint' \in {None, Answers(e)}
    <3>1. CASE pc \in {"deploy", "createService"}
      <4>1. existing = e
        BY <1>0, <3>1, PastFacts, PointFacts
      <4>2. DeployNothing \/ StoreApiKey \/ CreateService
        BY <1>1, <3>1 DEF RunStep, Preflight, Ingest, OAuthSkip, RehydrateOauth, DirectOauth,
           ResolveUpstream, MintSecret, PutClient, Register, Authorize, ReuseConnection,
           SetUpConnector, AwaitDatastore, Attach
      <4>3. CASE DeployNothing
        <5>1. endpoint' = EndpointHere
          BY <4>3 DEF DeployNothing
        <5>2. ~e => mem.request.url = None
          BY <1>0, <3>1, <4>1, PastFacts, PointFacts DEF ServerInv
        <5> QED BY <4>1, <5>1, <5>2 DEF EndpointHere, McpEndpoint, ServerInv, Answers
      <4>4. CASE StoreApiKey \/ CreateService
        <5>1. endpoint' = endpoint \/ (pc = "createService" /\ endpoint' = "generated")
          BY <4>4 DEF StoreApiKey, CreateService
        <5>2. pc = "createService" => ~existing
          BY DEF RunInv, AtHand
        <5> QED BY <4>1, <5>1, <5>2 DEF ServerInv, Answers
      <4> QED BY <4>2, <4>3, <4>4
    <3>2. CASE pc \notin {"deploy", "createService"}
      BY <2>1, <3>2 DEF Leaves, ServerInv
    <3> QED BY <3>1, <3>2
  <2>5. {mem'.registerUrl, db'.registerUrl, cloud'.registry, cloud'.connEndpoint}
          \subseteq {None, Answers(e)}
    BY <2>1 DEF Writes, Makes, Kept, ServerInv
  <2>6. mem'.datastore # 0 \/ pc' = "awaitStore" => cloud'.connEndpoint # None
    BY <2>1 DEF Writes, Makes, ServerInv, RunInv, AtHand
  <2> QED BY <2>3, <2>4, <2>5, <2>6 DEF ServerInv
<1>2. CASE Finish \/ Crash \/ Submit \/ \E o \in Overrides : Resume(o)
  <2>1. Carries
    BY <1>2, RestCarries
  <2>2. db'.request.url # None => req'.url # None
    <3>1. \A o \in Overrides : db.request.url # None => Rehydrate(db.request, o).url # None
      BY <1>0 DEF Rehydrate, DeepMerge, Redacted, Over, Request
    <3> QED BY <2>1, <3>1 DEF Carries, ServerInv
  <2>3. ~Past(pc', {"preflight"})
    BY <2>1 DEF Carries, Past
  <2>4. mem'.datastore # 0 => mem.datastore # 0
    BY <2>1 DEF Carries, Kept, CredentialsInv, StoreLags
  <2> QED BY <2>1, <2>2, <2>3, <2>4 DEF Carries, Kept, ServerInv
<1>3. CASE Delete
  <2>1. /\ mem'.datastore = 0 /\ mem'.registerUrl = None /\ mem' = db' /\ pc' = "idle"
        /\ endpoint' = endpoint /\ req' = db'.request /\ \E gone : cloud' = Without(cloud, gone, db)
    BY <1>3, DeleteLeaves DEF Delete, NoRecord
  <2>2. ~Past(pc', {"preflight"})
    BY <2>1 DEF Past
  <2> QED BY <2>1, <2>2 DEF Without, ServerInv
<1>4. CASE UNCHANGED vars
  BY <1>4 DEF vars, execVars, ServerInv
<1> QED BY <1>1, <1>2, <1>3, <1>4 DEF Next

LEMMA ServerEnds ==
  ASSUME NEW e \in BOOLEAN
  PROVE  /\ Init => ServerInv(e)
         /\ CredentialsInv /\ RunInv /\ ServerInv(e) => ConnectorMatchesRegistration
<1>1. Init => ServerInv(e)
  <2> SUFFICES ASSUME Init PROVE ServerInv(e)
    OBVIOUS
  <2>1. PICK r \in Requests : req = r /\ mem = NoRecord(Redacted(r)) /\ db = NoRecord(Redacted(r))
    BY DEF Init
  <2>2. Redacted(r).url = r.url
    BY RequestsAssumption DEF Redacted, Request
  <2> QED BY <2>1, <2>2, EmptyIs DEF Init, ServerInv, NoRecord, Past
<1>2. CredentialsInv /\ RunInv /\ ServerInv(e) => ConnectorMatchesRegistration
  <2> SUFFICES ASSUME CredentialsInv, RunInv, ServerInv(e), db.state = "READY"
               PROVE  cloud.connEndpoint = cloud.registry
    BY DEF ConnectorMatchesRegistration
  <2>1. db.registry /\ db.datastore # 0
    BY DEF RunInv, Whole, Usable
  <2>2. cloud.registry # None /\ mem.datastore # 0
    BY <2>1 DEF RunInv, Named, CredentialsInv, StoreLags
  <2> QED BY <2>2 DEF ServerInv
<1> QED BY <1>1, <1>2

\* If the attempts of a run all register an existing server, or all deploy one,
\* then the connector of a run that says READY reaches the endpoint that was
\* registered, whichever attempts registered the one and set up the other.
THEOREM ConnectorMatchesOneServer ==
  \A e \in BOOLEAN :
    Spec /\ [](Past(pc, {"preflight"}) => existing = e) => []ConnectorMatchesRegistration
<1> SUFFICES ASSUME NEW e \in BOOLEAN
             PROVE  Spec /\ [](Past(pc, {"preflight"}) => existing = e)
                      => []ConnectorMatchesRegistration
  OBVIOUS
<1>1. /\ Init => ServerInv(e)
      /\ CredentialsInv /\ RunInv /\ ServerInv(e) => ConnectorMatchesRegistration
  BY ServerEnds
<1>2. TypeOK /\ TypeOK' /\ CredentialsInv /\ RunInv /\ (Past(pc, {"preflight"}) => existing = e)
        /\ ServerInv(e) /\ [Next]_vars => ServerInv(e)'
  BY StepServer
<1> QED BY <1>1, <1>2, TypeCorrect, CredentialsInvariant, RunInvariant, PTL DEF Spec

-----------------------------------------------------------------------------
(***************************************************************************)
(* What a resume must not change.  A body that resumes a run is merged     *)
(* into its stored request: a credential, an app, where to stop may be     *)
(* supplied anew.  Three properties hold as long as it does not change the *)
(* kind of run, and each theorem names what must stay.                     *)
(***************************************************************************)
\* No override changes how a server authenticates.
SameAuth == \A r \in Requests : \A o \in Overrides : o.auth \in {None, r.auth}

\* No override names another server, and no document names one.
SameServer ==
  /\ \A r \in Requests : r.docs # "mcp"
  /\ \A o \in Overrides : o.docs # "mcp"
  /\ \A r \in Requests : \A o \in Overrides : o.url \in {None, r.url}

\* No run has a client of its own to go straight with, and none is resumed to.
AlwaysProxied ==
  /\ SameAuth
  /\ \A r \in Requests : ~Direct(r)
  /\ \A o \in Overrides : o.client = "full" => o.proxy = "always"

\* The service, the manifest it is made from and the request go together.
KeyInv ==
  /\ req.auth = db.request.auth /\ \E r \in Requests : req.auth = r.auth
  /\ mem.manifest \in {None, req.auth} /\ db.manifest \in {None, req.auth}
  /\ cloud.service = "api_key" /\ ~report.answered => cloud.keySecret

\* A run keeps its server: what it registers is what its stored request names.
KeepsServer ==
  /\ req.url = db.request.url /\ \E r \in Requests : req.url = r.url
  /\ req.docs # "mcp" /\ db.request.docs # "mcp"
  /\ Past(pc, {"preflight"}) => (existing <=> req.url # None)

\* A run keeps to the proxy: its attempts present the proxy's client, or none.
KeepsClient ==
  /\ req.auth = db.request.auth /\ \E r \in Requests : req.auth = r.auth
  /\ ~Direct(req) /\ ~Direct(db.request)
  /\ holder \in {None, "proxy"}
  /\ pc \in BeforeRegister \union {"idle"} => holder = None
  /\ Past(pc, BeforeRegister) /\ req.auth = "oauth_user" => holder = "proxy"
  /\ holder # None \/ pc \in {"mint", "putClient"} => req.auth = "oauth_user"

\* A service that presents the key is deployed from a manifest of its own kind.
LEMMA StepKey ==
  SameAuth /\ TypeOK /\ TypeOK' /\ RunInv /\ KeyInv /\ [Next]_vars => KeyInv'
<1> SUFFICES ASSUME SameAuth, TypeOK, TypeOK', RunInv, KeyInv, [Next]_vars
             PROVE  KeyInv'
  OBVIOUS
<1>0. mem \in Record /\ db \in Record /\ db.request \in Request /\ mem.request = db.request
  BY DEF TypeOK, Record, RunInv, Phases
<1>1. CASE RunStep /\ ~Finish
  <2>1. Writes /\ Makes
    BY <1>1, RunWrites, RunMakes
  <2>2. req' = req /\ report' = report /\ db'.request = db.request
    BY <1>0, <1>1, <2>1 DEF RunStep, Preflight, Ingest, DeployNothing, StoreApiKey, CreateService,
       OAuthSkip, RehydrateOauth, DirectOauth, ResolveUpstream, MintSecret, PutClient, Register,
       Authorize, ReuseConnection, SetUpConnector, AwaitDatastore, Attach, Writes, Kept
  <2>3. mem'.manifest \in {None, req.auth} /\ db'.manifest \in {None, req.auth}
    BY <2>1 DEF KeyInv, Writes, Kept
  <2>4. cloud'.service = "api_key" /\ ~report'.answered => cloud'.keySecret
    BY <2>1, <2>2 DEF KeyInv, Makes, RunInv, AtHand, None
  <2> QED BY <2>2, <2>3, <2>4 DEF KeyInv
<1>2. CASE Finish \/ Crash \/ Submit \/ \E o \in Overrides : Resume(o)
  <2>1. Carries
    BY <1>2, RestCarries
  <2>2. req'.auth = db.request.auth
    <3>1. ASSUME NEW o \in Overrides, req' = Rehydrate(db.request, o)
          PROVE  req'.auth = db.request.auth
      <4>1. o.auth \in {None, db.request.auth}
        BY DEF KeyInv, SameAuth
      <4> QED BY <1>0, <3>1, <4>1, RehydrateKeeps
    <3> QED BY <2>1, <3>1 DEF Carries, KeyInv
  <2>3. mem'.manifest \in {None, req.auth} /\ db'.manifest \in {None, req.auth}
    BY <2>1 DEF Carries, KeyInv, Kept
  <2> QED BY <2>1, <2>2, <2>3 DEF Carries, KeyInv
<1>3. CASE Delete
  <2>1. /\ db' = NoRecord(db.request) /\ mem' = db' /\ req' = db.request /\ report'.answered
    BY <1>3 DEF Delete, NoRecord
  <2> QED BY <2>1 DEF KeyInv, NoRecord
<1>4. CASE UNCHANGED vars
  BY <1>4 DEF vars, execVars, KeyInv
<1> QED BY <1>1, <1>2, <1>3, <1>4 DEF Next

\* As long as no resume changes how the server authenticates, a service that
\* presents an API key was deployed with the key in Secret Manager, whichever
\* attempt stored it, deployed it or crashed between the two (_store_api_key).
THEOREM KeyAlwaysStored == SameAuth => (Spec => []KeyIsStored)
<1>1. Init => KeyInv
  <2> SUFFICES ASSUME Init PROVE KeyInv
    OBVIOUS
  <2>1. PICK r \in Requests : req = r /\ mem = NoRecord(Redacted(r)) /\ db = NoRecord(Redacted(r))
    BY DEF Init
  <2>2. r \in Request
    BY RequestsAssumption
  <2>3. Redacted(r).auth = r.auth
    BY <2>2 DEF Redacted, Request
  <2> QED BY <2>1, <2>3, EmptyIs DEF Init, KeyInv, NoRecord, None
<1>2. SUFFICES ASSUME SameAuth PROVE Spec => []KeyIsStored
  OBVIOUS
<1>3. TypeOK /\ TypeOK' /\ RunInv /\ KeyInv /\ [Next]_vars => KeyInv'
  BY <1>2, StepKey
<1>4. RunInv /\ KeyInv => KeyIsStored
  BY DEF RunInv, Phases, KeyInv, KeyIsStored
<1> QED BY <1>1, <1>3, <1>4, TypeCorrect, RunInvariant, PTL DEF Spec

LEMMA StepServerKept ==
  SameServer /\ TypeOK /\ TypeOK' /\ RunInv /\ KeepsServer /\ [Next]_vars => KeepsServer'
<1> SUFFICES ASSUME SameServer, TypeOK, TypeOK', RunInv, KeepsServer, [Next]_vars
             PROVE  KeepsServer'
  OBVIOUS
<1>0. /\ db \in Record /\ db.request \in Request /\ db'.request = db.request /\ pc \in Points
  BY RequestStays DEF TypeOK, Record
<1>1. CASE RunStep /\ ~Finish
  <2>1. Leaves
    BY <1>1, RunLeaves
  <2>2. CASE Preflight
    <3>1. existing' = (req.url # None) \/ (req.url = None /\ req.docs = "mcp")
      BY <2>2 DEF Preflight, Detections
    <3> QED BY <1>0, <2>1, <3>1 DEF Leaves, KeepsServer
  <2>3. CASE pc # "preflight"
    <3>1. Past(pc, {"preflight"}) /\ existing' = existing
      BY <1>0, <2>1, <2>3, PastFacts DEF Leaves
    <3> QED BY <1>0, <2>1, <3>1 DEF Leaves, KeepsServer
  <2>4. pc = "preflight" => Preflight
    BY <1>1 DEF RunStep, Ingest, DeployNothing, StoreApiKey, CreateService,
       OAuthSkip, RehydrateOauth, DirectOauth, ResolveUpstream, MintSecret, PutClient,
       Register, Authorize, ReuseConnection, SetUpConnector, AwaitDatastore, Attach
  <2> QED BY <2>2, <2>3, <2>4
<1>2. CASE Finish \/ Crash \/ Submit \/ \E o \in Overrides : Resume(o)
  <2>1. Carries
    BY <1>2, RestCarries
  <2>2. req'.url = db.request.url /\ req'.docs # "mcp"
    <3>1. CASE req' \in {req, db.request}
      BY <3>1 DEF KeepsServer
    <3>2. ASSUME NEW o \in Overrides, req' = Rehydrate(db.request, o)
          PROVE  req'.url = db.request.url /\ req'.docs # "mcp"
      <4>1. o.url \in {None, db.request.url} /\ o.docs # "mcp" /\ db.request.docs # "mcp"
        BY DEF KeepsServer, SameServer
      <4> QED BY <1>0, <3>2, <4>1, RehydrateKeeps
    <3> QED BY <2>1, <3>1, <3>2 DEF Carries
  <2>3. ~Past(pc', {"preflight"})
    BY <2>1 DEF Carries, Past
  <2> QED BY <1>0, <2>2, <2>3 DEF KeepsServer
<1>3. CASE Delete
  <2>1. req' = db.request /\ ~Past(pc', {"preflight"})
    BY <1>3, DeleteLeaves DEF Past
  <2> QED BY <1>0, <2>1 DEF KeepsServer
<1>4. CASE UNCHANGED vars
  BY <1>4 DEF vars, execVars, KeepsServer
<1> QED BY <1>1, <1>2, <1>3, <1>4 DEF Next

\* In particular, if no resume may name another server and no document names one,
\* the connector always reaches the endpoint that was registered.
COROLLARY ConnectorAlwaysMatches == SameServer => (Spec => []ConnectorMatchesRegistration)
<1>1. SUFFICES ASSUME SameServer PROVE Spec => []ConnectorMatchesRegistration
  OBVIOUS
<1> DEFINE Exists(e) == e = (db.request.url # None)
<1>2. Init => KeepsServer /\ (Exists(TRUE) \/ Exists(FALSE))
  <2> SUFFICES ASSUME Init PROVE KeepsServer
    OBVIOUS
  <2>1. PICK r \in Requests : req = r /\ mem = NoRecord(Redacted(r)) /\ db = NoRecord(Redacted(r))
    BY DEF Init
  <2>2. r \in Request
    BY RequestsAssumption
  <2>3. Redacted(r).url = r.url /\ Redacted(r).docs = r.docs
    BY <2>2 DEF Redacted, Request
  <2> QED BY <1>1, <2>1, <2>3 DEF Init, KeepsServer, NoRecord, Past, SameServer
<1>3. TypeOK /\ TypeOK' /\ RunInv /\ KeepsServer /\ [Next]_vars => KeepsServer'
  BY <1>1, StepServerKept
<1>4. TypeOK /\ RunInv /\ [Next]_vars =>
        (Exists(TRUE) => Exists(TRUE)') /\ (Exists(FALSE) => Exists(FALSE)')
  BY RequestStays
<1>5. TypeOK /\ KeepsServer =>
        /\ Exists(TRUE) => (Past(pc, {"preflight"}) => existing = TRUE)
        /\ Exists(FALSE) => (Past(pc, {"preflight"}) => existing = FALSE)
  BY DEF TypeOK, KeepsServer
<1>6. Init => ServerInv(TRUE) /\ ServerInv(FALSE)
  BY ServerEnds
<1>7. TypeOK /\ TypeOK' /\ CredentialsInv /\ RunInv /\ [Next]_vars =>
        /\ (Past(pc, {"preflight"}) => existing = TRUE) /\ ServerInv(TRUE) => ServerInv(TRUE)'
        /\ (Past(pc, {"preflight"}) => existing = FALSE) /\ ServerInv(FALSE) => ServerInv(FALSE)'
  BY StepServer
<1>8. CredentialsInv /\ RunInv /\ (ServerInv(TRUE) \/ ServerInv(FALSE))
        => ConnectorMatchesRegistration
  BY ServerEnds
<1> QED
  BY <1>2, <1>3, <1>4, <1>5, <1>6, <1>7, <1>8, TypeCorrect, CredentialsInvariant, RunInvariant, PTL
  DEF Spec

LEMMA StepClientKept ==
  AlwaysProxied /\ TypeOK /\ TypeOK' /\ CredentialsInv /\ RunInv /\ KeepsClient /\ [Next]_vars
    => KeepsClient'
<1> SUFFICES ASSUME AlwaysProxied, TypeOK, TypeOK', CredentialsInv, RunInv, KeepsClient, [Next]_vars
             PROVE  KeepsClient'
  OBVIOUS
<1>0. /\ db \in Record /\ db.request \in Request /\ db'.request = db.request
      /\ pc \in Points /\ pc' \in Points
  BY RequestStays DEF TypeOK, Record
<1>p. /\ "preflight" \in BeforeRegister /\ {"idle", "finish"} \cap BeforeRegister = {}
      /\ BeforeRegister \subseteq Working
      /\ \A p \in Points : Past(p, BeforeRegister)
                             <=> p \in {"register", "authorize", "connect", "awaitStore", "attach"}
  BY PastFacts, PointFacts DEF BeforeRegister, BeforeClient
<1>1. CASE RunStep /\ ~Finish
  <2>1. Leaves
    BY <1>1, RunLeaves
  <2>2. /\ pc' \in BeforeRegister => pc \in BeforeRegister \ {"putClient"}
        /\ pc' \in {"mint", "putClient"} => pc \in {"oauth", "mint"}
        /\ Past(pc', BeforeRegister) => Past(pc, BeforeRegister) \/ pc' = "register"
        /\ pc' = "register" => pc \in {"oauth", "putClient"}
        /\ pc' # "idle"
    BY <1>0, <1>p, <2>1, OnwardFacts, PointFacts DEF Leaves, BeforeRegister, BeforeClient
  <2>3. pc \in {"oauth", "putClient"} => holder' \in {holder, "proxy"}
                                          /\ (pc' \in BeforeRegister => holder' = holder)
    <3>1. pc \in {"oauth", "putClient"} =>
            OAuthSkip \/ RehydrateOauth \/ DirectOauth \/ ResolveUpstream \/ PutClient
      BY <1>1 DEF RunStep, Preflight, Ingest, DeployNothing, StoreApiKey, CreateService,
         MintSecret, Register, Authorize, ReuseConnection, SetUpConnector, AwaitDatastore, Attach
    <3>2. ~DirectOauth
      BY DEF DirectOauth, KeepsClient
    <3>3. \A p, k, s, next : Complete(p, k, s, next) => pc' \in {next, "finish"}
      BY DEF Complete
    <3>4. {"register", "finish"} \cap BeforeRegister = {}
      BY DEF BeforeRegister, BeforeClient
    <3> QED BY <3>1, <3>2, <3>3, <3>4 DEF OAuthSkip, RehydrateOauth, ResolveUpstream, PutClient
  <2>4. pc \in {"oauth", "putClient"} =>
          /\ pc' = "register" /\ req.auth = "oauth_user" => holder' # None
          /\ pc = "oauth" /\ (holder' # holder \/ pc' = "mint") => req.auth = "oauth_user"
    BY <1>1, OauthActs
  <2>5. holder' \in {None, "proxy"} /\ (pc' \in BeforeRegister \union {"idle"} => holder' = None)
    BY <2>1, <2>2, <2>3 DEF Leaves, KeepsClient
  <2>6. Past(pc', BeforeRegister) /\ req.auth = "oauth_user" => holder' = "proxy"
    <3>1. Past(pc, BeforeRegister) => holder' = holder
      BY <1>0, <1>p, <2>1 DEF Leaves
    <3> QED BY <2>2, <2>4, <2>5, <3>1 DEF KeepsClient
  <2>7. holder' # None \/ pc' \in {"mint", "putClient"} => req.auth = "oauth_user"
    <3>1. pc' = "mint" => pc = "oauth"
      BY <2>1, OnwardFacts, PointFacts DEF Leaves
    <3>2. pc' = "putClient" => pc = "mint"
      BY <2>1, OnwardFacts, PointFacts DEF Leaves
    <3>3. pc = "oauth" /\ (holder' # holder \/ pc' = "mint") => req.auth = "oauth_user"
      BY <1>1, OauthActs
    <3> QED BY <2>1, <3>1, <3>2, <3>3 DEF Leaves, KeepsClient
  <2> QED BY <1>0, <2>1, <2>5, <2>6, <2>7 DEF Leaves, KeepsClient
<1>2. CASE Finish \/ Crash \/ Submit \/ \E o \in Overrides : Resume(o)
  <2>1. Carries
    BY <1>2, RestCarries
  <2>2. req'.auth = db.request.auth /\ ~Direct(req')
    <3>1. CASE req' \in {req, db.request}
      BY <3>1 DEF KeepsClient
    <3>2. ASSUME NEW o \in Overrides, req' = Rehydrate(db.request, o)
          PROVE  req'.auth = db.request.auth /\ ~Direct(req')
      <4>1. o.auth \in {None, db.request.auth} /\ (o.client = "full" => o.proxy = "always")
        BY DEF KeepsClient, AlwaysProxied, SameAuth
      <4> QED BY <1>0, <3>2, <4>1, RehydrateKeeps
    <3> QED BY <1>0, <2>1, <3>1, <3>2 DEF Carries
  <2>3. holder' = None
    BY <2>1 DEF Carries, KeepsClient
  <2>4. pc' \in {"idle", "preflight"} /\ ~Past(pc', BeforeRegister)
    BY <1>p, <2>1 DEF Carries, Past
  <2> QED BY <1>0, <2>2, <2>3, <2>4 DEF KeepsClient, None
<1>3. CASE Delete
  <2>1. req' = db.request /\ holder' = holder /\ pc = "idle" /\ pc' = pc
    BY <1>3, DeleteLeaves
  <2> QED BY <1>0, <2>1 DEF KeepsClient, Past
<1>4. CASE UNCHANGED vars
  BY <1>4 DEF vars, execVars, KeepsClient
<1> QED BY <1>1, <1>2, <1>3, <1>4 DEF Next

\* In particular, if no run has a client of its own to go straight with and no
\* resume may give it one or change how it authenticates, the Authorization and the
\* connector always present the same client.
COROLLARY AlwaysOneClient == AlwaysProxied => (Spec => []OneClient)
<1>1. SUFFICES ASSUME AlwaysProxied PROVE Spec => []OneClient
  OBVIOUS
<1> DEFINE Proxied(b) == b = (db.request.auth = "oauth_user")
<1>2. Init => KeepsClient /\ (Proxied(TRUE) \/ Proxied(FALSE))
  <2> SUFFICES ASSUME Init PROVE KeepsClient
    OBVIOUS
  <2>1. PICK r \in Requests : req = r /\ mem = NoRecord(Redacted(r)) /\ db = NoRecord(Redacted(r))
    BY DEF Init
  <2>2. r \in Request
    BY RequestsAssumption
  <2>3. Redacted(r).auth = r.auth /\ ~Direct(r) /\ ~Direct(Redacted(r))
    BY <1>1, <2>1, <2>2 DEF Redacted, Request, Direct, AlwaysProxied
  <2> QED BY <2>1, <2>3 DEF Init, KeepsClient, NoRecord, Past, None
<1>3. TypeOK /\ TypeOK' /\ CredentialsInv /\ RunInv /\ KeepsClient /\ [Next]_vars => KeepsClient'
  BY <1>1, StepClientKept
<1>4. TypeOK /\ RunInv /\ [Next]_vars =>
        (Proxied(TRUE) => Proxied(TRUE)') /\ (Proxied(FALSE) => Proxied(FALSE)')
  BY RequestStays
<1>5. KeepsClient =>
        /\ Proxied(TRUE) => (Past(pc, BeforeRegister) => holder = "proxy")
        /\ Proxied(FALSE) => (Past(pc, BeforeRegister) => holder = None)
  BY DEF KeepsClient
<1>6. Init => PresentInv("proxy") /\ PresentInv(None)
  BY PresentEnds DEF Clients
<1>7. TypeOK /\ TypeOK' /\ CredentialsInv /\ RunInv /\ [Next]_vars =>
        /\ (Past(pc, BeforeRegister) => holder = "proxy") /\ PresentInv("proxy")
             => PresentInv("proxy")'
        /\ (Past(pc, BeforeRegister) => holder = None) /\ PresentInv(None) => PresentInv(None)'
  BY StepPresent DEF Clients
<1>8. CredentialsInv /\ RunInv /\ (PresentInv("proxy") \/ PresentInv(None)) => OneClient
  BY PresentEnds DEF Clients
<1> QED
  BY <1>2, <1>3, <1>4, <1>5, <1>6, <1>7, <1>8, TypeCorrect, CredentialsInvariant, RunInvariant, PTL
  DEF Spec
=============================================================================
