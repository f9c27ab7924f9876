------------------------------ MODULE Pipeline ------------------------------
(***************************************************************************)
(* One provisioning run of prompt-to-mcp, from POST /v1/mcps to teardown:  *)
(* the eight stages of Pipeline.run, the record they fill in, the copy of  *)
(* that record in the record store, and the resources they create in the   *)
(* cloud.  The executor holds the record in memory (`mem') and publishes   *)
(* it as a whole document (`db'); a crash loses everything but `db' and    *)
(* `cloud'.  Every external call may fail, before or after its effect.     *)
(*                                                                         *)
(* Text, URLs, tool catalogues and timestamps are abstracted: a secret is  *)
(* the number of the mint that produced it, a collection is the number of  *)
(* the attempt that named it, an endpoint is "generated" (our Cloud Run    *)
(* service) or "existing" (somebody else's server).                        *)
(***************************************************************************)
EXTENDS Naturals, FiniteSets

CONSTANTS
  Requests,         \* the requests a client may submit
  Overrides,        \* the bodies a client may resume with
  InvokersNamed,    \* the settings name who may invoke a private service
  UpstreamStatic,   \* the provider of mcp_url requires a static client
  MaxResumes,       \* bound: resumes of the run
  MaxFaults,        \* bound: record-store writes that are lost
  MaxCrashes,       \* bound: crashes of the process running the pipeline
  MaxErrors         \* bound: deletions that fail in one teardown

None == "None"      \* Python's None: absent in a request, ignored in a merge

Stages == {"preflight", "ingest", "deploy", "oauth",
           "register", "authorize", "connect", "attach"}

StageIndex ==
  [s \in Stages |->
     CASE s = "preflight" -> 0 [] s = "ingest"    -> 1 [] s = "deploy"  -> 2
       [] s = "oauth"     -> 3 [] s = "register"  -> 4 [] s = "authorize" -> 5
       [] s = "connect"   -> 6 [] s = "attach"    -> 7]

AuthKinds == {"none", "oauth_user", "google_id_token", "api_key"}
Endpoints == {None, "generated", "existing"}
Clients   == {None, "direct", "proxy"}   \* whose OAuth client is presented
Errors    == {None, "blocked", "url_conflict", "truncated", "no_key",
              "refused", "call", "internal"}

(***************************************************************************)
(* CreateMcpRequest, reduced to the fields that steer the pipeline.        *)
(*   url     the existing server to register, if any                       *)
(*   docs    "api" documents an API, "mcp" a page naming an MCP server,    *)
(*           "big" an API document longer than the stored preview          *)
(*   public  allow_public_unauthenticated                                   *)
(*   client  the oauth block: "full" is UpstreamOAuth.is_complete,         *)
(*           "partial" has everything but the client secret                *)
(***************************************************************************)
Request ==
  [auth   : AuthKinds \union {None},
   url    : {None, "existing"},
   docs   : {None, "api", "mcp", "big"},
   client : {None, "partial", "full"},
   apiKey : {None, "key"},
   proxy  : {None, "auto", "always", "never"},
   engine : {None, "app"},
   public : {None, "no", "yes"},
   stop   : Stages \union {None}]

\* The validator of CreateMcpRequest.
Valid(r) ==
  /\ r.url # None \/ r.docs # None
  /\ r.auth = "oauth_user" /\ r.proxy = "never" => r.client = "full"
  /\ r.auth = "api_key" <=> r.apiKey # None

ASSUME RequestsAssumption ==
  Requests \subseteq {r \in Request : Valid(r) /\ r.auth # None /\ r.proxy # None}
ASSUME OverridesAssumption == Overrides \subseteq Request
ASSUME SettingsAssumption == InvokersNamed \in BOOLEAN /\ UpstreamStatic \in BOOLEAN
ASSUME BoundsAssumption ==
  /\ MaxResumes \in Nat /\ MaxFaults \in Nat
  /\ MaxCrashes \in Nat /\ MaxErrors \in Nat

\* Variant: the fingerprints survive the round trip.
RedactedKeepsFingerprint(r) ==
  [r EXCEPT !.client = IF @ = "full" THEN "fingerprint" ELSE @,
            !.apiKey = IF @ = None THEN @ ELSE "fingerprint"]

\* What the persisted snapshot is still worth: secrets are fingerprints, and
\* a fingerprint is dropped before the request is rebuilt.
Redacted(r) ==
  [r EXCEPT !.client = IF @ = "full" THEN "partial" ELSE @,
            !.apiKey = None]

\* An override that is None does not override: the other value stays.
Over(old, new) == IF new = None THEN old ELSE new

DeepMerge(base, o) ==
  [auth   |-> Over(base.auth, o.auth),     url    |-> Over(base.url, o.url),
   docs   |-> Over(base.docs, o.docs),     client |-> Over(base.client, o.client),
   apiKey |-> Over(base.apiKey, o.apiKey), proxy  |-> Over(base.proxy, o.proxy),
   engine |-> Over(base.engine, o.engine), public |-> Over(base.public, o.public),
   stop   |-> Over(base.stop, o.stop)]

Rehydrate(r, o) == DeepMerge(Redacted(r), o)

(***************************************************************************)
(* McpRecord, and the resources outside this process.                      *)
(***************************************************************************)
States == {"ABSENT", "RUNNING", "STOPPED", "PARTIAL", "FAILED", "READY"}

Record ==
  [state : States, request : Request,
   ok : SUBSET Stages, failedStage : Stages \union {None}, error : Errors,
   manifest : AuthKinds \union {None},    \* the auth kind the manifest carries
   service : BOOLEAN,                     \* cloud_run_url
   keySecret : BOOLEAN,                   \* api_key_secret
   proxyClient : BOOLEAN,                 \* proxy_client_id
   registry : BOOLEAN,                    \* registry_service
   registerUrl : Endpoints,               \* config["register"]["mcp_url"]
   authorization : BOOLEAN,
   collection : Nat, datastore : Nat]     \* 0 is None

Cloud ==
  [service : AuthKinds \union {None},     \* the auth kind it serves, if deployed
   keySecret : BOOLEAN,
   registered : Nat,                      \* clients registered with the upstream
   upstream : BOOLEAN,                    \* the upstream client's secret
   downstream : Nat,                      \* newest synthetic secret, 0 if none
   client : Nat,                          \* secret whose hash the proxy holds
   registry : Endpoints,                  \* the URL our service is bound to
   authzClient : Clients, authzSecret : Nat,
   collections : SUBSET Nat,
   connClient : Clients, connSecret : Nat,
   connEndpoint : Endpoints,              \* what the newest connector reaches
   attached : SUBSET Nat]                 \* data stores on the engine

NoRecord(r) ==
  [state |-> "ABSENT", request |-> r, ok |-> {}, failedStage |-> None,
   error |-> None, manifest |-> None, service |-> FALSE, keySecret |-> FALSE,
   proxyClient |-> FALSE, registry |-> FALSE, registerUrl |-> None,
   authorization |-> FALSE, collection |-> 0, datastore |-> 0]

\* The run has created nothing but n clients of the upstream.
OnlyRegistered(n) ==
  [service |-> None, keySecret |-> FALSE, registered |-> n, upstream |-> FALSE,
   downstream |-> 0, client |-> 0, registry |-> None, authzClient |-> None,
   authzSecret |-> 0, collections |-> {}, connClient |-> None, connSecret |-> 0,
   connEndpoint |-> None, attached |-> {}]

EmptyCloud == OnlyRegistered(0)

VARIABLES
  pc,        \* where the executor is; "idle" when no task runs
  mem,       \* the executor's record
  req,       \* the executor's request, provider defaults applied
  done,      \* stages the resumed record had completed; {} on a first run
  resumed,   \* this execution is a resume
  existing,  \* an existing server is registered, explicit or detected
  endpoint,  \* mcp_endpoint of this execution
  holder,    \* whose OAuth client this execution holds: direct, proxy or None
  secret,    \* the synthetic secret in hand
  db,        \* the record store's document
  cloud,     \* resources outside the process
  minted, named,             \* secrets minted and collection ids made so far
  resumes, faults, crashes,  \* counters for the bounds
  report     \* what the last DELETE answered

execVars == <<pc, mem, req, done, resumed, existing, endpoint, holder, secret>>
vars == <<execVars, db, cloud, minted, named, resumes, faults, crashes, report>>

-----------------------------------------------------------------------------
(***************************************************************************)
(* Derived from the record, and the moves every stage makes.               *)
(***************************************************************************)
McpEndpoint(r) ==
  IF r.service THEN "generated"
  ELSE IF r.registerUrl # None THEN r.registerUrl ELSE r.request.url

Usable(r) == r.registry /\ McpEndpoint(r) # None

\* Variant: the run stops one stage late.
ShouldStopLate(r, stage) ==
  r.stop # None /\ StageIndex[stage] > StageIndex[r.stop]

ShouldStop(r, stage) ==
  r.stop # None /\ StageIndex[stage] >= StageIndex[r.stop]

\* Publishing the record must never fail a run: a lost write is swallowed.
Emit(r) ==
  \/ db' = r /\ UNCHANGED faults
  \/ faults < MaxFaults /\ faults' = faults + 1 /\ UNCHANGED db

WithStage(r, stage) == [r EXCEPT !.ok = @ \union {stage}]

Outcome(r) == IF Usable(r) THEN "PARTIAL" ELSE "FAILED"

\* Variant: the failure is recorded, the state is not.
FailSilently(r, stage, why) ==
  /\ mem' = [r EXCEPT !.failedStage = stage, !.error = why]
  /\ pc' = "finish"

\* The except branch of run: name the outcome, the stage and the error.
Fail(r, stage, why) ==
  /\ mem' = [r EXCEPT !.state = Outcome(r), !.failedStage = stage, !.error = why]
  /\ pc' = "finish"

\* _record_stage or _reuse_stage, then the stop_after check.  `published' is
\* the record the store sees, `kept' the one the executor goes on with.
Complete(published, kept, stage, next) ==
  /\ Emit(WithStage(published, stage))
  /\ IF ShouldStop(req, stage)
     THEN /\ mem' = [WithStage(kept, stage) EXCEPT !.state = "STOPPED"]
          /\ pc' = "finish"
     ELSE /\ mem' = WithStage(kept, stage)
          /\ pc' = next

\* A stage that fails without having published anything.
Abort(r, stage, why) == Fail(r, stage, why) /\ UNCHANGED <<db, faults>>

bounds == <<resumes, crashes>>

-----------------------------------------------------------------------------
(***************************************************************************)
(* Preflight.  An own registration of an explicit mcp_url is a conflict    *)
(* like any other: evaluate does not know which run is asking.             *)
(***************************************************************************)
UrlConflict(listed) ==
  listed /\ req.url # None /\ cloud.registry = req.url

HoldsStaticCredential(kind) == kind \in {"none", "api_key"}

ExposureAllowed == InvokersNamed \/ req.public = "yes"

Blocking(listed) ==
  IF \/ req.url = None /\ HoldsStaticCredential(req.auth) /\ ~ExposureAllowed
     \/ /\ UpstreamStatic /\ req.url # None
        /\ req.auth = "oauth_user" /\ req.client # "full"
  THEN "blocked"
  ELSE IF UrlConflict(listed) THEN "url_conflict" ELSE None

\* Detecting a server in the docs needs a fetch, which may fail silently.
Detections ==
  IF req.url = None /\ req.docs = "mcp" THEN BOOLEAN ELSE {FALSE}

Preflight ==
  /\ pc = "preflight"
  /\ \E found \in Detections : existing' = (req.url # None \/ found)
  /\ \/ Abort(mem, "preflight", "call")
     \/ \E listed \in BOOLEAN :
          IF Blocking(listed) = None
          THEN Complete(mem, mem, "preflight", "ingest")
          ELSE /\ Emit(WithStage(mem, "preflight"))
               /\ Fail(WithStage(mem, "preflight"), "preflight", Blocking(listed))
  /\ UNCHANGED <<req, done, resumed, endpoint, holder, secret>>
  /\ UNCHANGED <<cloud, minted, named, bounds, report>>

-----------------------------------------------------------------------------
(***************************************************************************)
(* Ingest.  A server found in the docs is announced as a completed ingest  *)
(* before it has been reached.                                             *)
(***************************************************************************)
Truncated(r) == r.request.docs = "big"

ReuseManifest ==
  "ingest" \in done /\ mem.manifest # None /\ ~existing

ProbeExisting ==
  \/ Complete(mem, mem, "ingest", "deploy")
  \/ req.url # None /\ Abort(mem, "ingest", "call")
  \/ /\ req.url = None
     /\ Emit(WithStage(mem, "ingest"))
     /\ Fail(WithStage(mem, "ingest"), "ingest", "call")

BuildManifest ==
  \/ LET m == [mem EXCEPT !.manifest = req.auth]
     IN  Complete(m, m, "ingest", "deploy")
  \/ Abort(mem, "ingest", "call")

Ingest ==
  /\ pc = "ingest"
  /\ IF ReuseManifest THEN Complete(mem, mem, "ingest", "deploy")
     ELSE IF resumed /\ ~existing /\ Truncated(mem)
       THEN Abort(mem, "ingest", "truncated")
     ELSE IF existing THEN ProbeExisting
     ELSE BuildManifest
  /\ UNCHANGED <<req, done, resumed, existing, endpoint, holder, secret>>
  /\ UNCHANGED <<cloud, minted, named, bounds, report>>

-----------------------------------------------------------------------------
(***************************************************************************)
(* Deploy: skip, reuse, or store the API key and create the service.  The  *)
(* record learns of either only when both have succeeded.                  *)
(***************************************************************************)
ReuseDeployment == "deploy" \in done /\ McpEndpoint(mem) # None

\* Variant: a reused deployment does not tell where it answers.
EndpointForgotten == IF existing THEN "existing" ELSE endpoint

EndpointHere == IF existing THEN "existing" ELSE McpEndpoint(mem)

DeployNothing ==
  /\ pc = "deploy"
  /\ existing \/ ReuseDeployment
  /\ endpoint' = EndpointHere
  /\ Complete(mem, mem, "deploy", "oauth")
  /\ UNCHANGED <<req, done, resumed, existing, holder, secret>>
  /\ UNCHANGED <<cloud, minted, named, bounds, report>>

\* Variant: a resumed run takes the stored key for granted.
KeyAssumed == req.auth = "api_key" /\ ~resumed

NeedsKey == req.auth = "api_key"

StoreApiKey ==
  /\ pc = "deploy"
  /\ ~existing /\ ~ReuseDeployment
  /\ IF ~NeedsKey
     THEN pc' = "createService" /\ UNCHANGED <<mem, cloud>>
     ELSE IF req.apiKey = None
     THEN Fail(mem, "deploy", "no_key") /\ UNCHANGED cloud
     ELSE \/ /\ cloud' = [cloud EXCEPT !.keySecret = TRUE]
             /\ pc' = "createService" /\ UNCHANGED mem
          \/ /\ cloud' \in {cloud, [cloud EXCEPT !.keySecret = TRUE]}
             /\ Fail(mem, "deploy", "call")
  /\ UNCHANGED <<req, done, resumed, existing, endpoint, holder, secret>>
  /\ UNCHANGED <<db, faults, minted, named, bounds, report>>

Served == [cloud EXCEPT !.service = mem.manifest]

CreateService ==
  /\ pc = "createService"
  /\ IF HoldsStaticCredential(mem.manifest) /\ ~ExposureAllowed
     THEN /\ Abort(mem, "deploy", "refused")
          /\ UNCHANGED <<cloud, endpoint>>
     ELSE \/ LET m == [mem EXCEPT !.service = TRUE,
                                  !.keySecret = (req.auth = "api_key")]
             IN  /\ cloud' = Served
                 /\ endpoint' = "generated"
                 /\ Complete(m, m, "deploy", "oauth")
          \/ /\ cloud' \in {cloud, Served}
             /\ Abort(mem, "deploy", "call")
             /\ UNCHANGED endpoint
  /\ UNCHANGED <<req, done, resumed, existing, holder, secret>>
  /\ UNCHANGED <<minted, named, bounds, report>>

-----------------------------------------------------------------------------
(***************************************************************************)
(* OAuth: reuse the synthetic client, go direct, or provision the proxy.   *)
(***************************************************************************)
Direct(r) == r.proxy # "always" /\ r.client = "full"

\* Variant: every attempt mints a client of its own.
ReuseNoClient == FALSE

ReuseClient == "oauth" \in done /\ mem.proxyClient

\* Variant: a resume takes the stage's being done for having the client.
OauthAlreadyDone == req.auth # "oauth_user" \/ "oauth" \in done

NoOauth == req.auth # "oauth_user"

OAuthSkip ==
  /\ pc = "oauth"
  /\ NoOauth
  /\ Complete(mem, mem, "oauth", "register")
  /\ UNCHANGED <<req, done, resumed, existing, endpoint, holder, secret>>
  /\ UNCHANGED <<cloud, minted, named, bounds, report>>

\* The plaintext is read back from Secret Manager, never minted again.
RehydrateOauth ==
  /\ pc = "oauth"
  /\ ~NoOauth /\ ReuseClient
  /\ \/ /\ cloud.client # 0 /\ cloud.downstream # 0
        /\ holder' = "proxy" /\ secret' = cloud.downstream
        /\ Complete(mem, mem, "oauth", "register")
     \/ Abort(mem, "oauth", "call") /\ UNCHANGED <<holder, secret>>
  /\ UNCHANGED <<req, done, resumed, existing, endpoint>>
  /\ UNCHANGED <<cloud, minted, named, bounds, report>>

DirectOauth ==
  /\ pc = "oauth"
  /\ ~NoOauth /\ ~ReuseClient /\ Direct(req)
  /\ holder' = "direct"
  /\ Complete(mem, mem, "oauth", "register")
  /\ UNCHANGED <<req, done, resumed, existing, endpoint, secret>>
  /\ UNCHANGED <<cloud, minted, named, bounds, report>>

\* What the upstream client comes with: the operator's secret, none for an
\* operator's public client, or whatever registration decides.
Confidential(r) ==
  CASE r.client = "full" -> {TRUE} [] r.client = "partial" -> {FALSE}
    [] OTHER -> BOOLEAN

\* Only a run that brings no client id registers a client, and a registration
\* may have taken effect although its answer is lost or is of no use: then the
\* run goes on with a public client, or fails.
Registrations(r) == IF r.client = None THEN {0, 1} ELSE {0}

\* Discover the authorization server, obtain a client, keep its secret.
ResolveUpstream ==
  /\ pc = "oauth"
  /\ ~NoOauth /\ ~ReuseClient /\ ~Direct(req)
  /\ \E n \in Registrations(req), kept \in Confidential(req) :
       LET asked  == [cloud EXCEPT !.registered = @ + n]
           stored == [asked EXCEPT !.upstream = @ \/ kept]
       IN  /\ kept /\ req.client = None => n = 1
           /\ \/ cloud' = stored /\ pc' = "mint" /\ UNCHANGED mem
              \/ cloud' \in {asked, stored} /\ Fail(mem, "oauth", "call")
  /\ UNCHANGED <<req, done, resumed, existing, endpoint, holder, secret>>
  /\ UNCHANGED <<db, faults, minted, named, bounds, report>>

MintSecret ==
  /\ pc = "mint"
  /\ minted' = minted + 1
  /\ secret' = minted'
  /\ LET stored == [cloud EXCEPT !.downstream = minted']
     IN  \/ cloud' = stored /\ pc' = "putClient" /\ UNCHANGED mem
         \/ cloud' \in {cloud, stored} /\ Fail(mem, "oauth", "call")
  /\ UNCHANGED <<req, done, resumed, existing, endpoint, holder>>
  /\ UNCHANGED <<db, faults, named, bounds, report>>

\* The stage is published before the record names the client.
PutClient ==
  /\ pc = "putClient"
  /\ LET stored == [cloud EXCEPT !.client = secret]
     IN  \/ /\ cloud' = stored /\ holder' = "proxy"
            /\ Complete(mem, [mem EXCEPT !.proxyClient = TRUE], "oauth", "register")
         \/ /\ cloud' \in {cloud, stored} /\ UNCHANGED holder
            /\ Abort(mem, "oauth", "call")
  /\ UNCHANGED <<req, done, resumed, existing, endpoint, secret>>
  /\ UNCHANGED <<minted, named, bounds, report>>

-----------------------------------------------------------------------------
(***************************************************************************)
(* Register.  create_service patches its own service on a 409; reading     *)
(* the registry resource back may fail after the service is on the record. *)
(***************************************************************************)
ReuseRegistration == "register" \in done /\ mem.registry

\* Variant: the registration is named before the call has succeeded.
AskedIsHeld == [mem EXCEPT !.registerUrl = endpoint, !.registry = TRUE]

Asked == [mem EXCEPT !.registerUrl = endpoint]

Register ==
  /\ pc = "register"
  /\ IF ReuseRegistration
     THEN Complete(mem, mem, "register", "authorize") /\ UNCHANGED cloud
     ELSE LET held  == [Asked EXCEPT !.registry = TRUE]
              bound == [cloud EXCEPT !.registry = endpoint]
          IN  \/ /\ cloud' = bound
                 /\ \/ Complete(held, held, "register", "authorize")
                    \/ Abort(held, "register", "call")
              \/ /\ cloud' \in {cloud, bound}
                 /\ Abort(Asked, "register", "call")
  /\ UNCHANGED <<req, done, resumed, existing, endpoint, holder, secret>>
  /\ UNCHANGED <<minted, named, bounds, report>>

-----------------------------------------------------------------------------
(***************************************************************************)
(* Authorize.  The id is fixed by the run, so a repeat patches.            *)
(***************************************************************************)
ReuseAuthorization == "authorize" \in done /\ mem.authorization

\* Variant: an Authorization that is there already is left as it is.
AuthorizedOnce ==
  IF cloud.authzClient # None THEN cloud
  ELSE [cloud EXCEPT !.authzClient = holder, !.authzSecret = secret]

Authorized == [cloud EXCEPT !.authzClient = holder, !.authzSecret = secret]

Authorize ==
  /\ pc = "authorize"
  /\ IF holder = None \/ ReuseAuthorization
     THEN Complete(mem, mem, "authorize", "connect") /\ UNCHANGED cloud
     ELSE \/ /\ cloud' = Authorized
             /\ Complete(mem, [mem EXCEPT !.authorization = TRUE],
                         "authorize", "connect")
          \/ /\ cloud' \in {cloud, Authorized}
             /\ Abort(mem, "authorize", "call")
  /\ UNCHANGED <<req, done, resumed, existing, endpoint, holder, secret>>
  /\ UNCHANGED <<minted, named, bounds, report>>

-----------------------------------------------------------------------------
(***************************************************************************)
(* Connect.  The record names the collection only after the setup call has *)
(* returned.                                                               *)
(***************************************************************************)
ReuseDatastore == "connect" \in done /\ mem.datastore # 0

\* Variant: every attempt names a collection of its own.
FreshCollectionId == named + 1

CollectionId == IF mem.collection # 0 THEN mem.collection ELSE named + 1

ReuseConnection ==
  /\ pc = "connect"
  /\ ReuseDatastore
  /\ Complete(mem, mem, "connect", "attach")
  /\ UNCHANGED <<req, done, resumed, existing, endpoint, holder, secret>>
  /\ UNCHANGED <<cloud, minted, named, bounds, report>>

SetUpConnector ==
  /\ pc = "connect"
  /\ ~ReuseDatastore
  /\ named' = IF mem.collection # 0 THEN named ELSE named + 1
  /\ LET made == [cloud EXCEPT !.collections = @ \union {CollectionId},
                               !.connClient = holder, !.connSecret = secret,
                               !.connEndpoint = endpoint]
     IN  \/ /\ cloud' = made
            /\ mem' = [mem EXCEPT !.collection = CollectionId]
            /\ pc' = "awaitStore"
         \/ cloud' \in {cloud, made} /\ Fail(mem, "connect", "call")
  /\ UNCHANGED <<req, done, resumed, existing, endpoint, holder, secret>>
  /\ UNCHANGED <<db, faults, minted, bounds, report>>

AwaitDatastore ==
  /\ pc = "awaitStore"
  /\ \/ LET m == [mem EXCEPT !.datastore = mem.collection]
        IN  Complete(m, m, "connect", "attach")
     \/ Abort(mem, "connect", "call")
  /\ UNCHANGED <<req, done, resumed, existing, endpoint, holder, secret>>
  /\ UNCHANGED <<cloud, minted, named, bounds, report>>

-----------------------------------------------------------------------------
(***************************************************************************)
(* Attach, and the end of the run.                                         *)
(***************************************************************************)
\* Variant: a resumed run takes the attachment for granted.
TiedOnce ==
  IF req.engine = None \/ resumed THEN cloud
  ELSE [cloud EXCEPT !.attached = @ \union {mem.datastore}]

Tied ==
  IF req.engine = None THEN cloud
  ELSE [cloud EXCEPT !.attached = @ \union {mem.datastore}]

Attach ==
  /\ pc = "attach"
  /\ \/ /\ cloud' = Tied
        /\ Emit(WithStage(mem, "attach"))
        /\ mem' = [WithStage(mem, "attach") EXCEPT !.state = "READY"]
        /\ pc' = "finish"
     \/ /\ req.engine # None
        /\ cloud' \in {cloud, Tied}
        /\ Abort(mem, "attach", "call")
  /\ UNCHANGED <<req, done, resumed, existing, endpoint, holder, secret>>
  /\ UNCHANGED <<minted, named, bounds, report>>

\* What the crash handler of the background task makes of a stored record.
Crashed(r) == [r EXCEPT !.state = Outcome(r), !.error = "internal"]

\* The executor is gone; nothing of it survives.
Idle ==
  /\ pc' = "idle" /\ mem' = db' /\ req' = db'.request
  /\ done' = {} /\ resumed' = FALSE /\ existing' = FALSE
  /\ endpoint' = None /\ holder' = None /\ secret' = 0

\* The last emit and the final put.  If the put fails, the handler rewrites
\* whatever the store holds; in a longer outage that write is lost as well.
Finish ==
  /\ pc = "finish"
  /\ \/ db' = mem /\ UNCHANGED faults
     \/ /\ faults < MaxFaults /\ faults' = faults + 1
        /\ db' \in {Crashed(mem), Crashed(db), db}
  /\ Idle
  /\ UNCHANGED <<cloud, minted, named, bounds, report>>

Crash ==
  /\ pc # "idle" /\ crashes < MaxCrashes
  /\ crashes' = crashes + 1
  /\ UNCHANGED <<db, cloud, minted, named, resumes, faults, report>>
  /\ Idle

-----------------------------------------------------------------------------
(***************************************************************************)
(* The control plane's handlers, for one run: submit, resume, delete.      *)
(* None of them overlaps an execution here; ControlPlane does that part.   *)
(***************************************************************************)
NoReport == [answered |-> FALSE, asked |-> {}, errors |-> {}, stranded |-> FALSE]

Submit ==
  /\ pc = "idle" /\ db.state = "ABSENT" /\ ~report.answered
  /\ db' = [db EXCEPT !.state = "RUNNING"]
  /\ mem' = db'
  /\ pc' = "preflight"
  /\ UNCHANGED <<req, done, resumed, existing, endpoint, holder, secret>>
  /\ UNCHANGED <<cloud, minted, named, bounds, faults, report>>

\* Variant: a finished run may be resumed.
ResumableAlways(r) == r.state \notin {"ABSENT", "RUNNING"}

Resumable(r) == r.state \notin {"ABSENT", "RUNNING", "READY"}

\* A caller that waits (?wait=true) is taken for one that does not: the write that
\* announces the run is then its first emit.  That this emit may be lost, so that
\* the record reads as before until the next one, is left out; ControlPlane tells the
\* two routes apart.
Resume(o) ==
  /\ pc = "idle" /\ resumes < MaxResumes
  /\ Resumable(db)
  /\ Valid(Rehydrate(db.request, o))
  /\ req' = Rehydrate(db.request, o)
  /\ db' = [db EXCEPT !.state = "RUNNING", !.error = None, !.failedStage = None]
  /\ mem' = db'
  /\ done' = db.ok /\ resumed' = TRUE
  /\ pc' = "preflight"
  /\ resumes' = resumes + 1
  /\ UNCHANGED <<existing, endpoint, holder, secret>>
  /\ UNCHANGED <<cloud, minted, named, faults, crashes, report>>

\* Variant: the teardown forgets the real upstream secret.
ToRemoveButUpstream(r) ==
  {"service"}
  \union (IF r.request.engine # None /\ r.datastore # 0 THEN {"detach"} ELSE {})
  \union (IF r.collection # 0 THEN {"collection"} ELSE {})
  \union (IF r.registry THEN {"registry"} ELSE {})
  \union (IF r.authorization THEN {"authorization"} ELSE {})
  \union (IF r.proxyClient THEN {"client", "downstream"} ELSE {})
  \union (IF r.keySecret THEN {"key"} ELSE {})

\* Variant: a collection goes with the app it is on, or stays.
ToRemoveOnApp(r) ==
  IF r.request.engine # None THEN ToRemoveButUpstream(r) \union {"upstream"}
  ELSE ToRemoveButUpstream(r) \ {"collection"}

\* What the record gives a teardown to remove.
ToRemove(r) ==
  {"service"}
  \union (IF r.request.engine # None /\ r.datastore # 0 THEN {"detach"} ELSE {})
  \union (IF r.collection # 0 THEN {"collection"} ELSE {})
  \union (IF r.registry THEN {"registry"} ELSE {})
  \union (IF r.authorization THEN {"authorization"} ELSE {})
  \union (IF r.proxyClient THEN {"client", "downstream", "upstream"} ELSE {})
  \union (IF r.keySecret THEN {"key"} ELSE {})

\* No deletion reaches the authorization server that registered a client.
Without(c, gone, r) ==
  LET Kept(what, default, x) == IF what \in gone THEN default ELSE x
  IN  [service      |-> Kept("service", None, c.service),
       keySecret    |-> Kept("key", FALSE, c.keySecret),
       registered   |-> c.registered,
       upstream     |-> Kept("upstream", FALSE, c.upstream),
       downstream   |-> Kept("downstream", 0, c.downstream),
       client       |-> Kept("client", 0, c.client),
       registry     |-> Kept("registry", None, c.registry),
       authzClient  |-> Kept("authorization", None, c.authzClient),
       authzSecret  |-> Kept("authorization", 0, c.authzSecret),
       collections  |-> Kept("collection", c.collections \ {r.collection}, c.collections),
       connClient   |-> Kept("collection", None, c.connClient),
       connSecret   |-> Kept("collection", 0, c.connSecret),
       connEndpoint |-> Kept("collection", None, c.connEndpoint),
       attached     |-> Kept("detach", c.attached \ {r.datastore}, c.attached)]

\* Every deletion is attempted and every failure collected.  A collection
\* whose data store an engine still lists cannot be removed.
Delete ==
  /\ pc = "idle" /\ db.state # "ABSENT"
  /\ \E failing \in SUBSET ToRemove(db) :
       /\ Cardinality(failing) <= MaxErrors
       /\ LET tied == db.collection \in cloud.attached
                       /\ ("detach" \in failing \/ "detach" \notin ToRemove(db))
              errors == failing \union
                (IF tied THEN {"collection"} \cap ToRemove(db) ELSE {})
          IN  /\ cloud' = Without(cloud, ToRemove(db) \ errors, db)
              /\ report' = [answered |-> TRUE, asked |-> ToRemove(db),
                            errors |-> errors,
                            stranded |-> /\ db.collection # 0
                                         /\ errors \cap {"collection", "detach"} # {}]
  /\ db' = NoRecord(db.request)
  /\ mem' = db' /\ req' = db'.request
  /\ UNCHANGED <<pc, done, resumed, existing, endpoint, holder, secret>>
  /\ UNCHANGED <<minted, named, bounds, faults>>

-----------------------------------------------------------------------------
Init ==
  /\ \E r \in Requests : req = r /\ mem = NoRecord(Redacted(r)) /\ db = NoRecord(Redacted(r))
  /\ pc = "idle" /\ done = {} /\ resumed = FALSE /\ existing = FALSE
  /\ endpoint = None /\ holder = None /\ secret = 0
  /\ cloud = EmptyCloud /\ minted = 0 /\ named = 0
  /\ resumes = 0 /\ faults = 0 /\ crashes = 0 /\ report = NoReport

RunStep ==
  \/ Preflight \/ Ingest \/ DeployNothing \/ StoreApiKey \/ CreateService
  \/ OAuthSkip \/ RehydrateOauth \/ DirectOauth \/ ResolveUpstream
  \/ MintSecret \/ PutClient \/ Register \/ Authorize
  \/ ReuseConnection \/ SetUpConnector \/ AwaitDatastore \/ Attach \/ Finish

Next ==
  \/ Submit \/ Delete \/ Crash \/ RunStep
  \/ \E o \in Overrides : Resume(o)

Spec == Init /\ [][Next]_vars

\* The event loop runs a scheduled task, and every call it makes times out.
FairSpec == Spec /\ WF_vars(RunStep)

-----------------------------------------------------------------------------
(***************************************************************************)
(* Properties.                                                             *)
(***************************************************************************)
\* The executor's way up to each of the stages that write a credential.
BeforeClient == {"preflight", "ingest", "deploy", "createService", "oauth"}
BeforeAuthorization == BeforeClient \union {"mint", "putClient", "register", "authorize"}
BeforeDatastore == BeforeAuthorization \union {"connect"}
Points == BeforeDatastore \union {"idle", "awaitStore", "attach", "finish"}

\* The variables hold what their declarations say.
TypeOK ==
  /\ pc \in Points
  /\ mem \in Record /\ db \in Record /\ cloud \in Cloud /\ req \in Request
  /\ done \subseteq Stages /\ resumed \in BOOLEAN /\ existing \in BOOLEAN
  /\ endpoint \in Endpoints /\ holder \in Clients
  /\ {secret, minted, named, resumes, faults, crashes} \subseteq Nat

\* A run that says READY has every stage behind it, answers somewhere, and its
\* data store exists and, if an app was asked for, is on the app: whatever was
\* lost, reused or resumed on the way (pipeline.run).
ReadyIsWhole ==
  db.state = "READY" =>
    /\ db.ok = Stages
    /\ Usable(db)
    /\ db.datastore # 0 /\ db.datastore \in cloud.collections
    /\ db.request.engine # None => db.datastore \in cloud.attached

\* What the stored record names exists: a resume that trusts a field, and a
\* teardown that deletes by it, never act on a resource that was not created.
RecordIsBacked ==
  /\ db.service => cloud.service # None
  /\ db.keySecret => cloud.keySecret
  /\ db.proxyClient => cloud.client # 0 /\ cloud.downstream # 0
  /\ db.registry => cloud.registry # None
  /\ db.authorization => cloud.authzClient # None
  /\ db.collection # 0 => db.collection \in cloud.collections
  /\ db.datastore # 0 => db.datastore = db.collection

\* The proxy, Secret Manager, the Authorization and the connector agree on the
\* synthetic client's secret, whichever of them an earlier attempt wrote: a
\* secret minted again would make every token exchange fail (_rehydrate_oauth).
SecretsAgree ==
  /\ db.proxyClient => cloud.downstream = cloud.client
  /\ db.authorization /\ cloud.authzClient = "proxy" => cloud.authzSecret = cloud.client
  /\ db.datastore # 0 /\ cloud.connClient = "proxy" => cloud.connSecret = cloud.client

\* What record r implies about the credentials in cloud c, for the executor's record and
\* for the stored one: who names a resource has passed the stage that makes it.
Backed(r, c) ==
  /\ r.proxyClient => "oauth" \in r.ok /\ c.client # 0 /\ c.downstream = c.client
  /\ r.authorization => "authorize" \in r.ok
  /\ r.authorization /\ c.authzClient = "proxy" =>
       r.proxyClient /\ c.authzSecret = c.client
  /\ r.datastore # 0 => "connect" \in r.ok
  /\ r.datastore # 0 /\ c.connClient = "proxy" =>
       r.proxyClient /\ c.connSecret = c.client

NamesNothing(r) == ~r.proxyClient /\ ~r.authorization /\ r.datastore = 0

\* The store's record never names a credential the executor's does not.
StoreLags ==
  /\ db.proxyClient => mem.proxyClient
  /\ db.authorization => mem.authorization
  /\ db.datastore # 0 => mem.datastore # 0

\* What the executor holds at each point of its way: a resource it names before
\* the stage that makes it was named by the record it resumed.
InHand ==
  /\ pc \in BeforeClient /\ mem.proxyClient => "oauth" \in done
  /\ pc \in {"mint", "putClient"} => ~mem.proxyClient
  /\ pc = "putClient" => secret # 0 /\ secret = cloud.downstream
  /\ pc \in BeforeAuthorization /\ mem.authorization => "authorize" \in done
  /\ pc \in BeforeDatastore /\ mem.datastore # 0 => "connect" \in done
  /\ pc = "awaitStore" => mem.datastore = 0 /\ cloud.connClient = holder
                          /\ cloud.connSecret = secret
  /\ holder = "proxy" => mem.proxyClient /\ secret = cloud.client

AtRest ==
  /\ pc = "idle" => mem = db /\ holder = None
  /\ pc # "idle" => mem.state # "ABSENT"
  /\ db.state = "ABSENT" => NamesNothing(db)

\* SecretsAgree made inductive: it holds because of what the executor holds in
\* memory, which no poller sees.
CredentialsInv ==
  Backed(mem, cloud) /\ Backed(db, cloud) /\ StoreLags /\ InHand /\ AtRest

\* The Authorization and the connector present the same OAuth client.
OneClient ==
  db.authorization /\ db.datastore # 0 => cloud.authzClient = cloud.connClient

\* A finished run's connector reaches the endpoint that was registered.
ConnectorMatchesRegistration ==
  db.state = "READY" => cloud.connEndpoint = cloud.registry

\* Once the record names a collection, a resumed run creates no other one.
CollectionStable ==
  [][db.collection # 0 /\ db'.collection # 0
       => cloud'.collections \subseteq cloud.collections]_vars

\* A service that presents an API key was deployed with the key in Secret
\* Manager, whichever attempt deployed it (_store_api_key).
KeyIsStored ==
  db.state # "ABSENT" /\ cloud.service = "api_key" => cloud.keySecret

\* The stage whose calls are made at a point of the executor.
StageAt ==
  [p \in {"deploy", "createService", "oauth", "mint", "putClient", "register",
          "authorize", "connect", "awaitStore", "attach"} |->
     CASE p \in {"deploy", "createService"}     -> "deploy"
       [] p \in {"oauth", "mint", "putClient"}  -> "oauth"
       [] p \in {"connect", "awaitStore"}       -> "connect"
       [] OTHER -> p]

\* Nothing is created in a stage past the one the run was told to stop after.
StopHonoured ==
  [][cloud' # cloud /\ pc # "idle" /\ req.stop # None
       => StageIndex[StageAt[pc]] <= StageIndex[req.stop]]_vars

\* A run registers at most one client an attempt, and none at its first if it brings
\* its own.
FewRegistered ==
  cloud.registered <= IF resumes = 0 /\ db.request.client # None THEN 0 ELSE resumes + 1

\* Deleting a run that succeeded at its first attempt, with no deletion failing,
\* leaves nothing behind that the project holds: teardown knows all that provisioning
\* makes there.  What it leaves are the clients registered with the upstream, although
\* the note says that everything has been removed (main.py:775).
CleanTeardown ==
  [][Delete /\ db.state = "READY" /\ resumes = 0 /\ report'.errors = {}
       => cloud' = OnlyRegistered(cloud.registered)]_vars

\* What a deletion takes along of a run that was resumed: what a failed attempt made
\* and did not record was taken over by the one that succeeded, under the same name.
\* Only a collection has a name of each attempt's own, and a credential may be left
\* of a way the run has turned away from (delete_mcp).
TakenAlong ==
  /\ cloud'.registry = None /\ cloud'.authzClient = None
  /\ db.collection \notin cloud'.collections
  /\ db.service => ~cloud'.keySecret
  /\ "proxy" \in {cloud.authzClient, cloud.connClient} =>
       cloud'.client = 0 /\ cloud'.downstream = 0 /\ ~cloud'.upstream

\* Deleting a run that says READY, with no deletion failing, takes along all of these
\* however often it was resumed.  Of a run that succeeded at its first attempt it leaves
\* only a client registered with the upstream, of a resumed one at most one an attempt:
\* nothing that is deleted reaches the authorization server (dcr.register_client).
TeardownAfterResumes ==
  [][Delete /\ db.state = "READY" /\ report'.errors = {} =>
       /\ TakenAlong /\ FewRegistered
       /\ resumes = 0 => cloud' = OnlyRegistered(cloud.registered)]_vars

\* A data store stays on an app only if the delete says that something is left,
\* also if the app was named by a resume and is not on the stored request, so
\* that nothing is detached: the collection cannot be deleted then (delete_mcp).
NothingStaysTied ==
  [][Delete /\ faults = 0 /\ report'.errors = {} => cloud'.attached = {}]_vars

\* A record that reads RUNNING with nobody at work is that of an executor that
\* was evicted, or cut off from the store: no failure of a call leaves one.
OrphansWereEvicted ==
  db.state = "RUNNING" /\ pc = "idle" => crashes > 0 \/ faults > 0

(***************************************************************************)
(* What a resume that changes the kind of the run can break, and how.      *)
(***************************************************************************)
\* A key that a service presents is missing only since a resume changed the
\* authentication of a run whose manifest was made before (_store_api_key).
KeyLostOnlyByChange ==
  [][KeyIsStored /\ ~KeyIsStored' => pc = "createService" /\ req.auth # "api_key"]_vars

\* The connector of a run that succeeds reaches another endpoint than the
\* registered one only if one of the two was reused, and the run has moved since.
StraysOnlyByMove ==
  [][db.state # "READY" /\ db'.state = "READY" /\ cloud.connEndpoint # cloud.registry =>
       \/ "register" \in done /\ cloud.registry # endpoint
       \/ "connect" \in done /\ cloud.connEndpoint # endpoint]_vars

\* The Authorization and the connector come to present different clients only
\* if one of the two was reused, and the run presents another client now.
SplitsOnlyByChange ==
  [][OneClient /\ ~OneClient' =>
       \/ "authorize" \in done /\ cloud.authzClient # holder
       \/ "connect" \in done /\ cloud.connClient # holder]_vars

\* The record's life is the one RunLifecycle promises.
OutputsOf(r) ==
  {o \in {"service", "keySecret", "client", "registry", "endpoint",
          "authorization", "collection", "datastore"} :
     CASE o = "service"       -> r.service
       [] o = "keySecret"     -> r.keySecret
       [] o = "client"        -> r.proxyClient
       [] o = "registry"      -> r.registry
       [] o = "endpoint"      -> McpEndpoint(r) # None
       [] o = "authorization" -> r.authorization
       [] o = "collection"    -> r.collection # 0
       [] o = "datastore"     -> r.datastore # 0}

Lifecycle == INSTANCE RunLifecycle
  WITH state <- db.state, outputs <- OutputsOf(db), deleted <- report.answered

\* Every step of a run is a step of the lifecycle, or invisible to its poller.
ImplementsLifecycle == Lifecycle!Spec

\* A run that is neither evicted nor cut off from the record store settles.
EveryRunSettles == db.state = "RUNNING" ~> db.state # "RUNNING"
=============================================================================
