# prompt-to-mcp in TLA+

prompt-to-mcp turns documentation of an API into an MCP server that Gemini
Enterprise can call. A control plane runs a pipeline of eight stages that deploys
a Cloud Run service, registers it, obtains OAuth credentials and connects it; an
OAuth proxy then stands between Gemini Enterprise and the upstream's
authorization server for as long as the server lives. Around a run are those who
ask the outside what it is like: the console and the resolution of its form, the
search for the API under a client library, the negotiation of a connector with a
service whose contract moves, and the agent and the canary that watch it. This
directory holds models of these parts, TLC runs over small instances of them,
and proofs for instances of any size.

All paths below are relative to `src/src/prompt_to_mcp/` unless they start with
`src/`.

## The system

| Part | State | Operations | Talks to |
|---|---|---|---|
| Pipeline (`pipeline.py`, `models.py`) | the executor's record, the request with provider defaults applied, the endpoint, OAuth client and secret in hand | preflight, ingest, deploy, oauth, register, authorize, connect, attach | every cloud client; the record store through `on_progress` |
| Control plane (`main.py`) | none of its own: background tasks | create, resume, diagnose, delete, list, bundle | pipeline, record store, cloud clients |
| Record store (`gcp/records.py`) | one document for each run | put (whole document), get, delete | Firestore or a dict |
| Preflight rules (`requirements.py`) | none | `evaluate` | Agent Registry's listing |
| Cloud clients (`gcp/`, `deployer/`) | none: the state is in the cloud | create, find, poll, patch, delete | Google Cloud |
| Connector negotiation (`gcp/discovery_engine.py`) | the body sent and those tried | post, read the complaint, amend, post again | Discovery Engine |
| OAuth proxy (`oauth/proxy.py`, `oauth/store.py`) | clients, sessions, one-time codes | authorize, callback, token | Gemini Enterprise, the upstream, Secret Manager |
| Upstream client (`oauth/dcr.py`, `oauth/metadata.py`) | none | discover, register | the upstream |
| Contract agent, canary (`contract_agent.py`, `canary.py`) | a transcript within a probe budget, collections to clean up | seed, probe, propose; four checks at once | Discovery Engine, a model |
| Prompt resolution (`resolve.py`) | none: the payload carries the answers | resolve, in rounds | the web, Agent Registry's listing |
| SDK agent (`sdk_agent.py`) | documents fetched, paths probed, a base URL | hunt for a specification, fetch, probe, propose | the web, the API, a model |
| Console (`static/app.js`) | the form, the plan shown, the number of the last resolution | type, resolve, create | resolution, control plane |
| Cloud Run deployer (`deployer/cloud_run.py`) | none: the state is in the cloud | create or update a service, let callers in | Cloud Run's IAM policy |
| Ingestion (`ingest/`) | none | fetch, parse, ask a model | the web, Gemini |
| Generated server (`src/runtime/server.py`) | the manifest | forward a call | the upstream |
| Authentication, redaction, diagnosis, bundling, configuration | caches at most | pure functions, mainly | |

What is hard:

* A run takes minutes, makes about thirty calls that change the cloud, and may be
  evicted between any two. The record is the only thing that survives, it is
  published after a stage and not after a call, and a lost write is swallowed
  (`pipeline.py:301`). A resume then decides from the record what to skip.
* One secret lives in four places (Secret Manager, the proxy's client document,
  the Authorization, the connector), each written by a different stage, perhaps
  by different attempts.
* The record that is stored is redacted: a resume works from a request without
  its secrets, merged with what the operator supplies.
* Teardown deletes by the record, in an order that matters once, and any
  deletion may fail.
* Handlers overlap: create, resume, diagnose and delete each read a whole document,
  wait for something slow and write or delete the whole document, without a
  transaction or a precondition; so do the runs that share an app, with its list of
  data stores.
* The proxy's handlers run concurrently in several instances over Firestore, with
  read-then-write sequences in between, and promise one-time codes, a redirect
  pinned on first use, and revocation.
* The connector service is a v1alpha surface whose complaints mislead. A body is
  amended by them, several times over, and must not end up as a connector that
  authenticates nobody; a probe that ought to be refused and is not has made something.
* A model chooses what to fetch and to probe. What it claims has to rest on what was
  answered, its loops have to end, and its budgets are shared with the code's own.
* An IAM policy is read, changed and written while others change it.
* The form is resolved while it is edited, the answers return in any order, and Create
  submits the plan of one of them. What is pasted into the form may be a credential.

`PROJECT.json` lists these hazards one by one, with the line at which each bites
and the properties that would notice.

## Modules

| Module | What it is |
|---|---|
| `Pipeline` | one run from submission to deletion: executor, stored record, cloud |
| `RunLifecycle` | what that promises whoever polls the record |
| `MCPipeline` | the requests and the bodies of resumes that TLC tries |
| `PipelineClaims` | five sentences of the repository that the code does not keep |
| `PipelineProofs` | types, credentials, records, stops, first teardowns and the lifecycle, proved |
| `ResumeProofs` | what resumes can break and what they cannot, teardown after them, and the way forward of a run, proved |
| `ControlPlane` | the control plane's handlers and executions, overlapping, over one record store and one app |
| `MCControlPlane` | the instance TLC checks |
| `ControlPlaneProofs` | types, diagnoses, exclusion, the records' lives and what exists, proved; and that handlers in turn do each other no harm |
| `ConnectorContract` | what the connector service takes, and how the application reads a refusal |
| `ConnectorNegotiation` | one connect stage against that service, from the first body to the data store |
| `ContractProbes` | the contract agent and the canary, over the same contract |
| `ConnectorProofs` | the properties of both, proved for any set of contracts |
| `InvokerPolicy` | deployments and the operator over one service's IAM policy |
| `SdkSearch`, `SearchProofs` | the search for the API under a client library; its properties proved |
| `Resolution` | the dialogue that turns a form into a request |
| `Console` | the form with its resolutions in flight |
| `MCInvestigations` | the instance of these six components that TLC checks |
| `InvestigationsProofs` | the properties of the policy, the dialogue and the form, proved, and then those of all six for their composition |
| `OAuthProxy` | the proxy's handlers, interleaved at their awaits, over either store |
| `Grants` | what the proxy promises of one user's authorization |
| `MCOAuth` | the instance TLC checks, and a sixth such sentence |
| `OAuthProofs` | type correctness, the safety of redemption, pins, revocation and grants, proved |
| `InTurnProofs` | when the proxy over Firestore is as good as over the in-memory store, proved |

### Pipeline

`mem` is the record in the executor, `db` the one in the store, `cloud` what
exists outside. `pc` is the stage the executor is in, split where a stage makes
two calls that can fail separately: `deploy` stores the API key and then creates
the service (`StoreApiKey`, `CreateService`), `oauth` resolves the upstream
client, mints the secret and writes the client document (`ResolveUpstream`,
`MintSecret`, `PutClient`), `connect` sets the connector up and waits for its data
store (`SetUpConnector`, `AwaitDatastore`). Every other stage is one action with
a disjunct for each way it can end. `Complete` is `_record_stage` and
`_reuse_stage` with the `stop_after` check that follows each of them; `Fail` is the
`except` branch of `run`; `Emit` is `_emit`, whose write may be lost. A failing
call may fail before or after its effect. `Crash` is an eviction: all of the
executor's variables go, the store and the cloud stay. `Submit`, `Resume` and
`Delete` are the handlers in `main.py`. `?wait=true` is merged with the announced route: the
write that announces a run is there the first emit, and that this one may be lost is left out
(`ControlPlane` tells the two apart).

Of the upstream authorization server `cloud` has what a run leaves there: the number of clients
registered dynamically (`registered`). `ResolveUpstream` makes one for a run that brings no
client, perhaps without learning of it, and no action takes one away, because nothing in the
code does.

Abstracted: a secret is the number of the mint that made it, a collection the
number of the attempt that named it, an endpoint is generated or existing. A request
keeps the nine fields that steer the pipeline. Provider defaults are applied in the
request from the start, because `req` is what the stages read. Redaction drops the
API key and the client secret, which is what a resume loses.

The history variable `report` is the answer of the last delete; `minted`, `named`,
`resumes`, `faults` and `crashes` number things or count towards a bound.

### ControlPlane

`store` is the record store, `task` the handlers and background tasks in progress,
`services`, `collections` and `engine` what exists outside, `engine` being the list of
data stores of the one app all runs share. A task has the copy of the document it read
(`rec`), the app's list if it has read it (`list`), and a program point. A task goes through
its points in the order of the code: `resume` announces (`Announce`, `main.py:629`),
`Pipeline.run` begins with an emit (`Begin`), deploys, connects and attaches with
an emit after each (`PublishStage`), ends with another (`Conclude`, `Failed`), and the
handler that awaited it writes once more (`Final`, `main.py:461`). If that write fails, the crash
handler of a background task reads whatever document there is now and settles it with the words
"internal error" (`Crashed`, `Rescue`, `main.py:487-493`); the caller of `?wait=true` has no such
handler, which the field `waits` remembers. `Diagnose` and
`CacheDiagnosis` are the two ends of `diagnose_mcp`, `Delete` to `Forget` the teardown;
`Attach`/`Patch` and `Detach`/`Unpatch` are the read and the write of the app's list.
`?wait=true` is the choice `wait`.

A run is reduced to the outputs that others can touch: the service, the collection and its
attachment. A call that fails has no effect here, deletions do not fail and no emit of
the execution is lost, because those are `Pipeline`'s subject (the last write, the crash handler's and
that of a diagnosis may fail); a call that fails and the emit that reports it are one step, since nothing another handler sees happens in between.
The store is Firestore: the in-memory one hands out the stored object itself, so that what
an execution does is visible at once; that case is not modelled.

Three histories carry the argument. A task is `current` while nobody has written the
document since its copy was made; `clobbered` collects the runs whose document was
written by a task that was not; `raced` is set when the app's list was written by
someone who had read an older one. The code prevents neither, and every anomaly
of overlapping handlers has to go through one of them: the invariants say so, by excepting
exactly these runs.

### OAuthProxy

A request in service is an entry of `task`; its `pc` says which await it is at. Over
Firestore every store call is such a point; over the in-memory store a handler
never suspends in a store call, so only the wait for the upstream is (`Turn`).
`pop_session` and `pop_code` are a read and a delete: `Callback`/`PopSession` and
`GetCode`/`PopCode`. `flow` and `issued` say what the session and the code documents
carry; `sessions` and `codes` say which are in the store. A call to Firestore that raises ends the
request with an error wherever it is (`StoreFails`): a session it has taken is lost, a code it did
not get to delete is still there. A flow number stands for the
session's state, its PKCE verifier and the upstream code that comes back for it. Whether
a session or a code has expired, whether the request shows a redirect or a verifier and
which, whether the upstream answers, are all free.

`revoked`, `answered`, `posts` and the fields `late` and `replay` of a task are
history: nothing in the handlers reads them.

### ConnectorContract, ConnectorNegotiation, ContractProbes

A body is the sets of keys of its two untyped maps and the value of `auth_type`. The
service is external and modelled by its `Contract`: which keys either map takes, which
belong to the OAuth group that is all or nothing, what `params` must have, which map is looked
at first, and whether the application can read the complaints at all. The shape of the
checks is what `contract_knowledge.py` records of the real service; every value in it is
free within `Contracts`. `Complaints` gives the first check that fails; `Amendments` is
`amend_connector_body`, which makes one body of a complaint or none.

`Build` is `build_mcp_connector`; `Refuse` one round of `_post_negotiated` with the
amendment, the signatures of what was posted (`Fresh`), the complaint it ends with (`complaint`)
and the bound on rounds; `Accept`, `Break` its other ends; `PollOperation` is `_wait` and `PollDatastore`
`wait_for_mcp_datastore`, each with its deadline as a number of polls. A refusal may also
have a reason that does not lie in the body. `refused` stands for the signatures.

`ContractProbes` has both users of probes. `ProbeShape` is `ProbeHarness.probe`: the
token stripped, the transcript consulted, the budget, the verdict, and the clean-up of
a probe that was taken. `Investigate`, `Seed`, `Turn`, `CallProbe`, `CallPropose`,
`Answered` are the agent's loop with the gate of `_finalise` (`Verified`) and the
finding without the model (`Fallback`). `Ask` and `Cleanup` are the canary's four checks,
which run at once in any order. The agent's reading tools change nothing and
are left out. `excused` is history.

### InvokerPolicy

`Post`, `PostConflict`, `Patch`, `Poll` are `deploy`; `ReadPolicy` and `WritePolicy` are the
two calls of `_grant_invoker` around the change, the second refused when the etag is stale.
`OperatorSets` and `Remove` are others: the operator, another tool, the application's own
delete. An etag is the number of the policy's version.

### SdkSearch

`search` is where `investigate` is. `SeedPage`, `HuntNext`, `HuntOver` and `SeedAdopts` are
`_seed`: the page or the package's metadata, the conventional places of `find_openapi` one by
one, and the specification that was found. `Think` is a turn of the model, the `Call...`
actions its tools, `CallsAnswered` the end of a turn; in the last two turns only those that
end the search are allowed. `Fetch` and `CallProbePath` have the budgets and the transcripts,
in which a failed fetch counts as an answer. `Label` is `match_confirmed`: what backs a tool
is read off the transcript. A path is its sequence of segments, `"*"` a placeholder. The body of
a fetch is cut to 20000 characters: a page is still read after that, a specification is recognised
before it, but a package's metadata is parsed as JSON and yields no place to look at
(`Readable`, `Places`). The grounded web search only returns text, and is left out.

### Resolution

A text is reduced to the credentials in it and what it looks like. The steps of
`_resolve` are operators in its order: `Lifts` (the first credential found becomes the API
key and leaves the texts), `Classified`, `Kind` (guesses confirmed over the network),
`Described` and `Derived`, `Inferred` and `Auth`, `Engine`, `Assemble`, `Left` (the
questions); `PlanFor` is the plan, with each early return. `FillIn`, `Resolve` and `Reply` are
the dialogue over it: answers come back as overrides beside the same form. What the network
says of an input is a `World`, and every round may find another.

### Console

`DoResolve` is `doResolve` up to its request and `AnswerArrives`, `ResolveFails` what is
after it: an answer is taken only if no newer call was made. `SubmitCreate` settles a
resolution first and goes on when it returns, however it does (`GoesOn`); `Created` is the answer
of the control plane, on which the form is wiped of its credentials. What a submission was
made of (`clicked`, `newest`, `went`) is history.

## Runs

| Run | Question | Bounds |
|---|---|---|
| `proxied` | do the record, the proxy, Secret Manager, the Authorization and the connector agree whatever fails? | three kinds of proxied request; 2 resumes, 1 lost write, 1 eviction, 1 failing deletion |
| `mixed` | does the same hold of every kind of request, with resumes that supply secrets, an app, exposure or another stop, and what does a delete leave behind after them? | fourteen requests, five override bodies; same bounds |
| `settles` | does a run settle, and what can a resume break that makes it one of another kind? | fourteen requests, six override bodies (another authentication, server or client, or none); 2 resumes, no lost write, no eviction |
| `control_plane` | what can overlapping handlers do to each other? | 2 runs, 2 handlers or executions at a time, 3 executions; runs and tasks symmetric; once the last execution has begun, states in which something was written over unseen are checked but not gone on from |
| `oauth` | are codes spent, legs matched, pins and revocations kept? | 2 clients, 2 redirects, 2 flows, 1 code, 2 concurrent requests, both stores; all five sets symmetric |
| `investigations` | do negotiation, probes, search, policy, dialogue and form do what they are relied on for, and does each end? | contracts that differ from the known one in up to 2 of 8 respects, 4 rounds, 2 polls; 3 probes and 2 turns; 4 URLs, 3 fetches, 1 probe, 3 turns, 2 origins; 2 deployments, 3 edits; 2 rounds of 43 forms in 17 worlds; 3 resolutions, 1 creation |
| `claim_stop`, `claim_conflict`, `claim_collection`, `claim_reported`, `claim_evicted`, `claim_single_shot` | the sentences below | as small as shows the case |

Why the bounds are enough to be interesting: two resumes make three attempts, so a
resource can be created by the first, reused by the second and needed by the third;
one lost write together with one eviction already puts a resume behind the cloud; any
single one of the deletions fails. Calls are not bounded: each may fail each time it
is made. For the handlers, two at a time are what a race needs, and a handler that has
finished makes room for another, so a chain of them can be as long as it likes (only
executions are counted); three executions let a run be resumed while another shares the
app, or be resumed twice. For the proxy, two requests are what a race needs, two clients what a
stolen code needs, two flows what a mix-up needs; one code can be made of either
flow and presented by both clients. In `investigations` the components share no state
and one runs at a time, because an interleaving of two would add nothing to the states of
either. Two respects in which a contract moves are what a misleading complaint needs
besides the change it is about; four rounds reach every amendment of such a contract. A
hunt of three places with three fetches, one of them spent on the page, has a place beyond
the budget; three turns have one that is free and two that are not. Two deployments
and an operator are what a stale etag needs; two rounds ask a question, have it answered and
ask again; three resolutions are a plan, a click and one that overtakes it. The real
budgets are 4 rounds, 30 probes and 20 turns of the agent, 20 fetches, 25 probes and 16 turns
of the search (`gcp/discovery_engine.py:53`, `contract_agent.py:92`, `sdk_agent.py:54`): beyond
the instance they are left to the proofs, which have no bound.

`CHECK_DEADLOCK FALSE` is set everywhere: a deleted run, handlers whose runs
are all made and deleted, a proxy that has spent its
codes and lost its clients, or an investigation with its finding, has nothing left to do.

Each property of a passing run has a mutant in `PROJECT.json`: a definition of the
model changed the way a plausible bug would change the code, under which TLC finds the
property violated. The variants stand in the modules before what they vary.

Fairness: `EveryRunSettles` is checked under `WF_vars(RunStep)`. An event loop runs the
task it scheduled, and every call the executor makes has a timeout or a deadline
(`gcp/base.py:102`, `gcp/discovery_engine.py:710`), so a step that can be taken is
taken. No fairness is assumed of resumes, deletes, users or evictions. An
evicted run does not settle: its record says RUNNING for good and `resume` answers 409
(`main.py:596`); the run therefore excludes evictions and lost writes.

`EveryInvestigationEnds` is checked under weak fairness of the steps of the negotiation,
the deployments, the probes and the search: each call has a timeout (the HTTP clients set
one, a poll has a deadline) and is followed by the next statement. The end of a turn
(`Answered`, `CallsAnswered`) is fair by itself, because the calls a model makes in a turn are a
finite list and each is answered. No fairness is assumed of what a model chooses, of the
service's work on a data store, of the operator, or of the console.

### What the properties say

Of the pipeline: what the stored record names exists (`RecordIsBacked`); a READY run
is whole (`ReadyIsWhole`); all holders of the synthetic secret agree (`SecretsAgree`);
the Authorization and the connector present the same client (`OneClient`); the
connector reaches what was registered (`ConnectorMatchesRegistration`); a collection
once named is the only one made (`CollectionStable`); nothing is made past the stage to stop
after (`StopHonoured`); the delete of a run that succeeded takes along its registration, Authorization,
collection, key and client, and everything in the project if it succeeded at once; what it leaves at the
upstream is at most one registered client an attempt (`TeardownAfterResumes`); a
data store stays on an app only if the delete says that something is left (`NothingStaysTied`);
the record lives the life of `RunLifecycle` (`ImplementsLifecycle`).

Two more are of runs that a resume makes of another kind, where the parts of a run may come apart
because what earlier attempts made is reused. They come apart in no other way: a served key is not a stored
one only where a service is deployed for another authentication than that of its
manifest (`KeyLostOnlyByChange`), and the Authorization and the connector present different clients
only where one of them was taken over and the run presents another now (`SplitsOnlyByChange`).

Of the handlers: two executions never work on one run (`OneExecution`), and the poller of
a run that is executed reads RUNNING or nothing (`StateTells`), unless a document was
written over unseen; under the same condition a diagnosis is of the execution whose error it stands
beside, though not of its words if the crash handler has replaced them (`DiagnosisFits`); when nobody works on a run, its record names all that exists and a
deleted run has left nothing (`NothingForgotten`); a run that succeeded is on its app
whoever else came and went (`AttachmentsKept`); each record lives the life of
`RunLifecycle` among all the others (`EachLivesOnce`).

Of the proxy: a code anyone was answered about is gone (`PresentedIsSpent`); tokens go to the client whose
flow they come from, for the redirect and the verifier of that flow (`LegsMatch`); with
an atomic store, sessions return to the pinned redirect only (`PinHolds`) and a
deleted client serves nobody who comes later (`RevokedIsInert`); each authorization
is asked for, redeemed and lapses as `Grants` says (`ImplementsGrants`). Over
Firestore `Grants` lets concurrent requests share an authorization, because they can.

Of the connector: a negotiation that gives up on a complaint was hopeless, since nothing that the run
holds would have met the service (`GivesUpRightly`), and what is accepted in the end is what was asked for, with its whole OAuth group and without the
keys alone that the service does not take (`AcceptedAsAsked`). Of the probes: what the agent calls
verified is a shape the service accepts (`VerifiedIsAcceptable`); if a canary is content, every
connector that the application builds, of whatever a run holds, is taken as it is, but for the keys
that no check sends and for what OAUTH wants besides (`QuietMeansAccepted`);
neither leaves a collection it could have deleted (`ProbesLeaveNothing`). Of the policy:
what others granted or revoked since the read survives the write (`GrantsKept`). Of the
search: the model is asked only when no specification within the budget could be had
(`SpecBeforeModel`), unless a package's metadata was not to be had whole. Of the dialogue: a pasted credential is in no text of the request
(`CredentialLifted`), and answered questions do not return (`AnswersConverge`). Of the form:
what is created is the newest plan, of the form as it was clicked or later
(`SubmittedAsTyped`). Of the first four: whatever is started ends (`EveryInvestigationEnds`).
Each names in its comment the case the code does not provide for, and excepts it.

Nothing is said of the labels of a tool. What backs one is `match_confirmed`, word for word, so
that a property could only repeat it; where it could go wrong, with answers of several origins,
it does, as the list below says.

The inductive invariants are proved and not kept as invariants of a run; the properties that
rest on them are. Five more properties are stated in the modules and only proved, because they follow from
the same invariants as one that is checked: a served key is a stored key as long as no resume
changes the authentication (`KeyIsStored`); the connector of a run that succeeds strays from what was
registered only where one of the two was taken over and the run answers elsewhere now
(`StraysOnlyByMove`); a record that reads RUNNING for good was orphaned by an eviction or a lost
write and not by a call that failed (`OrphansWereEvicted`); the delete of a run that succeeded at once
leaves nothing but clients registered with the upstream (`CleanTeardown`); a code presented again after an answer does not reach the upstream
(`ReplayRefused`).

### Where the code and its words differ

* A run stopped early stops again when continued: `_deep_merge` ignores an override of
  None (`pipeline.py:175`, against `main.py:606`). Run `claim_stop`.
* A registered `mcp_url` run that failed later is blocked by its own registration when
  resumed (`requirements.py:482`, against `pipeline.py:733`). Run `claim_conflict`.
* A connect that fails after its effect strands a collection (`pipeline.py:952`, against
  `src/README.md:592`). Run `claim_collection`.
* A failed deletion of anything but the collection is not in `manual_cleanup_required`,
  and the note says all is gone (`main.py:764`, against `src/README.md:726`). Run
  `claim_reported`.
* A run orphaned by an eviction is not resumable: it reads RUNNING for good and `resume`
  answers 409 (`main.py:596`, against `src/README.md:729`). Run `claim_evicted`.
* Two concurrent redemptions over Firestore both reach the upstream
  (`oauth/store.py:233`, against 236). Run `claim_single_shot`.

Five more have no run of their own; what still holds is in the property named:

* A client that a run registered with the upstream survives its deletion, whose note says
  "Everything this run created has been removed" (`pipeline.py:1223`, against `main.py:775`);
  each further attempt registers another. `TeardownAfterResumes` bounds them.
* "A finished run's cause cannot change" (`main.py:664`), but the crash handler replaces the error of
  a run that has finished and keeps the diagnosis (`main.py:490`). `DiagnosisFits` is therefore
  of the execution and not of the words. A run that ended READY may so become PARTIAL (`Recant`).
* Reading the package and hunting for a specification is "a precondition, not a suggestion"
  (`sdk_agent.py:752`), but metadata of more than 20000 characters is cut, is no JSON then, and
  nothing is hunted (`sdk_agent.py:264`, 797). `SpecBeforeModel` excepts it.
* "A live read-only request confirmed the path exists" (`models.py:61`), but the answers of probes are
  kept by path alone and credited to whatever base URL is proposed in the end (`sdk_agent.py:943`).
* A complaint of a missing parameter "means the OAuth group got all the way through validation"
  (`canary.py:268-269`), but the check takes any such complaint for it, also one of a service that
  looks at the parameters first, and its group has neither `scopes` nor `auth_uri_params`, which
  connectors of the application carry. `QuietMeansAccepted` names what may be refused all the same.

The models also show, without a sentence that promises otherwise: two resumes that both
read the settled record both execute the run; the write after a run's last emit can
cover a resume that began in between, or bring a deleted record back; a diagnosis read
while a resume announces itself, and written after that execution has ended, leaves the
run RUNNING with nobody executing it; a progress
write after a delete does the same, and what the run makes from then on is
on a record its owner believes deleted; two runs that attach at once can lose one; secrets stored
before a call that failed are on no record and survive a delete; a direct client
resumed without its secret goes through the proxy while its old Authorization is
reused (so `OneClient` is not claimed of the `mixed` run); over Firestore, concurrent
first uses pin one redirect and serve another, and an `/authorize` that read a client
before a teardown writes it back.

Of the parts around a run they show:

* When the rounds run out, the error is explained with the amendment that was never
  sent (`gcp/discovery_engine.py:597`).
* A service that demands something new of OAuth connectors is not noticed by the canary
  (`canary.py:262`). The agent's gate and the canary both rely on the service
  looking at the action parameters before the others.
* The lost answer of a probe that was taken leaves a collection, and the created collection
  is reported as deleted even if its deletion failed (`contract_agent.py:228`).
* A policy that could not be read is written over without an etag, and what others had granted
  is lost, which the comment calls harmless (`deployer/cloud_run.py:333`).
* The hunt for a specification (the page and 20 places) takes the whole of the 20 fetches,
  so the model does not have its whole budget, and the last place is never tried
  (`sdk_agent.py:845`). A failed fetch is kept for good.
* Only the first credential found is lifted; one given in the form leaves the texts as they
  are; the answer about the description is not looked at (`resolve.py:442`).
* A description that is too short hides the answer to the question it causes, which
  returns however often it is answered (`resolve.py:646`).
* Create settles the resolution first (`static/app.js:377`), but goes on with the
  plan there is if that resolution fails or is overtaken; emptying the form does not
  make an answer under way stale, so that a plan appears for a form that is gone.

## Proofs

The eight `...Proofs` modules are checked by TLAPS for every value of the constants that
satisfies the named assumptions of the modules they extend: requests are valid ones,
bounds are naturals, None and the empty form are not members of the sets beside them, the
credentials there are are finitely many, a path is a sequence of strings, a hunt may fetch
at least once, and no contract has `auth_type` outside the OAuth group (the one assumption about the service,
which `contract_knowledge.py` documents as the group's defining key).

`TypeCorrect`: `TypeOK` is inductive by itself. The lemmas about record and cloud
updates, `Complete`, `Fail` and `Rehydrate` carry it through the actions.

`SecretsAlwaysAgree`: `SecretsAgree` speaks of `db` and `cloud` and is not inductive:
what a later stage writes depends on what the executor holds. `CredentialsInv` adds
that the executor's record agrees with the cloud as well (`Backed`), that the stored
record names no credential the executor's does not (`StoreLags`), what is in hand at each
point of the executor (`InHand`: above all, that a secret in hand as the proxy's is
the one the proxy holds, and that a client already named was named by the record
the run resumed, so that it is reused and not minted again), and that at rest the two
records are one (`AtRest`). It is proved inductive with one step for each action;
`Neutral` disposes of the actions that touch no credential.

`RecordAlwaysBacked`, `ReadyAlwaysWhole`: a record is written at the end of a stage, and the
cloud changes before that, so that neither says what the next stage will find. `RunInv` says
of both records what `CredentialsInv` says of credentials: what each names is in the
cloud (`Named`), by a stage it counts as passed (`Deployed`), and a record that is READY is
whole (`Whole`); the stored one names nothing that the executor's does not (`Lags`), and how the
two, the executor and the last delete go together (`Phases`); the stages the executor
has behind it are those its record counts as passed (`Behind`); what it has in hand at each point
(`AtHand`); and that no override takes an app or an authentication from a request (`Requested`).
There is one lemma for each kind of step (a stage that
completes, one that reuses what it finds, one that fails) and one step for each action.
`CollectionStays` follows: the only step that makes a collection uses the name in the
executor's hand, which by `Lags` is the stored one.

`StopAlwaysHonoured`: `WithinStop` says that the executor is never at a point of a stage
past the one to stop after; each stage ends in a look at it, and a resume begins anew.
`TeardownIsClean`: `Tidy` says that at a first attempt the record, with what is in flight
(`InFlight`), accounts for all that exists in the project, which a resume would no longer allow: a collection
made by a call that was reported as failed is on no record.

`KeyOnlyLostByChange`, `StraysOnlyAfterMove`, `SplitsOnlyAfterChange` are of all requests and all
overrides, without a hypothesis. The body of a resume is merged over the stored request and
may say anything, whereas what earlier attempts made is reused, so the three say at which step, and
of which reuse, a run comes apart. `Aims` says that what a run has not taken over is at the
endpoint it has in hand, and `SplitInv` that a run which comes apart in the executor's hands has
turned away from what it took over (`TurnedAway`).

`OneClientForOneHolder`, `ConnectorMatchesOneServer` turn this round. A behaviour in which every
attempt presents the client `h` (`[](Past(pc, BeforeRegister) => holder = h)`), or in which every
attempt is of an existing server or none is, has one client, or one endpoint, in the end
(`PresentInv`, `ServerInv`). Such a hypothesis is about a behaviour and not about a
constant: every behaviour without a resume satisfies it, and so do resumes that supply a key, an
app, exposure or a stop, if the run goes through the proxy anyway (or has no OAuth) and its server
is not one that a document only may name. `KeyAlwaysStored`, `ConnectorAlwaysMatches` and
`AlwaysOneClient` are of the instances in which it is satisfied always: no override changes the
authentication (`SameAuth`), the server (`SameServer`), or takes the run off the proxy
(`AlwaysProxied`). The instance of `proxied`, which checks the last two, satisfies all three. `KeyInv`
is the invariant of the first; `KeepsServer` and `KeepsClient` say that the other two are cases of
the theorems before.

`TeardownIsCleanAfterResumes` adds to `TeardownIsClean` the runs that were resumed. What a failed
attempt made and did not record is not on the record, and a delete goes by the record. But all names except a collection's are fixed by the
run, so an attempt that succeeds takes over what is there and records it. `KindInv` says which
credentials a run that keeps to one way of authenticating can make at all, and that its record
names them when it is through with the stage that makes them; a run that leaves the key or the
proxy for another way leaves what it had stored behind,
which is why the theorem has the hypothesis `[](req.auth = a)` and the property speaks of
what the run presents. `NothingIsLeftTied`: the delete detaches from the app of the stored request
only, but a data store that is attached belongs to a collection, and the deletion of that
fails while it is; and an app lists no data store but the record's, as long as no write was lost
(`TieInv`). `OrphansAlwaysEvicted` classifies what a step writes to the
store: only a finish settles a run or loses the write that does.

`RunsGoForward` gives each point of the executor a place, and says that each step leads to a later one
whatever fails. It is what `EveryRunSettles` owes to the code: the rest of it is
that each step ends, and the fairness of the scheduler.

`RunImplementsLifecycle`: under the refinement mapping (the stored record's state and outputs, and
whether the delete was answered) each action is a step of `RunLifecycle` or stutters. A write of
the store is the only thing a poller sees, so the step lemmas classify the actions by what
they write; that a write takes back no output is `Lags`, and that a run settles as
what it has built is `RunInv`.

`NoTwoExecutions`, `PollerIsTold`: neither is inductive, and each needs the other. `HandlersInv`
says that an executed run's document is what the execution wrote last, RUNNING and
without an error, or deleted (`Told`), that nobody else has a fresh copy he could
write (`Alone`), and that a run somebody works on was drawn (`Drawn`). A second
execution would have to begin from a document that is settled, a diagnosis from one with
an error: `Told` excludes both. Whoever writes makes all other copies old, and an old
copy written puts the run into `clobbered`: that keeps `Alone`. The proof has a lemma for
each way a handler moves (a write, a last write, a step without one, a call of an
execution) and one step for each action. `DiagnosesFit` rests on `CopiesInv` (below): the crash
handler writes an error beside a diagnosis that it has not made, and that both are of one
execution holds because the document it read was its own execution's last write. Over another's,
which makes the run one of the `clobbered`, it need not be.

`EachRecordLives` says of each record of many, with every other handler at work, what
`RunImplementsLifecycle` says of one run. A handler writes a copy that it read earlier, so a write
may take back what another wrote. `CopiesInv` says that a copy is what was read, and
the document what it was then, until somebody else writes the document (`Faithful`), and
what a copy holds at each point whatever others do (`Holds`). A write over a copy that is
no longer current is recorded in `clobbered`, and the property excepts it, because the code
does not prevent it.

`NothingIsForgotten`, `AttachmentsAlwaysKept`: both speak of runs that nobody works on, and are
disturbed by the steps of those who do. `Ledger` keeps the books in between: of a run that is
`Orderly` (one writer, with a current copy) all that exists is named by that
writer's copy (`Accounts`), and without a writer by the document (`Filed`). A second writer that
joins makes one of the two copies old, and the run is not orderly again until it has been
written over, which makes it one of the `clobbered`, or the older one has left. The delete
takes what its copy names in the order of the code (off the app's list, the engine, the resources,
the document), and `Accounts` says at each point what is left.

`InTurnIsHarmless`: the properties of the handlers except what was written over unseen. A
behaviour in which the handlers of each run take turns (`[]InTurn`), and so do those about to write the
app's list (`[]ListsInTurn`), has nothing to except: whoever is in progress has seen the last
write (`AllSeen`, `ListSeen`), so `clobbered` and `raced` stay empty, and the exclusion of executions,
the books and the lives of the records follow without an exception. The hypotheses
leave all runs free to overlap with each other outside that list; what a lock or a
precondition on the document would have to ensure is exactly these two.

`PresentationSpends`, `ReplaysRefused`, `LegsAlwaysMatch`: `RedemptionInv` adds what the three
rest on: a code is a copy of a session that has gone (`CopiesSession`), documents
in the stores were written (`Exists`), and what a request in service has at each await
(`Serving`). The proof is for any number of clients, flows, codes and concurrent
requests, over either store: the race of two redemptions breaks none of them, because the
loser is no replay and both are the code's own client.

`PinsHold`, `RevokedClientsAreInert` hold of the in-memory store only, and rest on what sets it
apart: a handler that reads a client and writes it back is not interrupted. `AtomicInv` says so
(`AtOneTime`), and that a client has one redirect at most (`PinsOnce`), that whoever is about to
open a session does it for a client that is there and with its pin (`Standing`), and that all sessions
there ever were returned to it (`PinnedFlows`).

`ProxyImplementsGrants`: an authorization is open in `Grants` while a session, a code or a
request in service carries it. Most steps pass it from one of these to the next
(`QuietStep`), some drop it, which is a lapse unless another request has it as well
(`LapseStep`); `PutSession` asks for it and `Exchange` redeems it. That it is redeemed once over the
in-memory store is `SerialInv`: a flow is in one place at a time (`OnePlace`), because
fetching and deleting is not interrupted there. A callback that is about to take a session still finds
it, a flow has one code, one request has it in hand, and what has been posted is in no hands. Over
Firestore nothing of the kind holds, and `Grants` allows for it. `RedeemedOnce` is the sentence of
`claim_single_shot`, for the store it is true of.

`UndisturbedKeepsAll`: of Firestore the same is true as long as no handler is interrupted between
reading a document and writing or deleting it, which is what `Uninterrupted` says of a step (whoever
is between two waits for the upstream is the next to move), and no call to the store raises
(`StoreAnswers`). `UndisturbedIsAtomic` shows, action by
action, that such a behaviour is one of the proxy over the in-memory store. `InTurnProofs`
instantiates `OAuthProofs` for that store (`Atomic`), and cites its theorems. So the gap that the
three properties except, and `claim_single_shot` shows, is that of the two calls, and of nothing else.
A request that dies at the store lets its authorization lapse, if no other has it (`StoreFailsLapses`).

`ConnectorsAreAsAsked`, `GivingUpIsRight`: `NegotiationInv` adds that the body differs from the one
asked for only by keys the contract does not take, and never in the value of `auth_type`
(`Kept`). An accepted body passes the check of the action parameters: with any key of the
OAuth group left in it and OAUTH declared, the group must be whole, because half a group is strange to
the service; and `auth_type`, once dropped, is missed by the last check. No assumption is made
about which complaint a service picks, nor how often. For the second, `WhatMeets` says what a service
that could be met takes, and `CanGoOn` that the amendment of any of its complaints is a body
that was not posted before: a stray key leaves the body or joins what was dropped for good, and a
missing one is in the pool. So the last complaint of a negotiation that ended early (`Closing`) is one
that nothing could have met.

`FindingsHold`, `NothingIsLeft`, `CanariesTell`: `ProbesInv` adds that every accepted probe is of a
body that only lacked the token (`Evidenced`), that every collection left is excused or
belongs to a check not yet cleaned up (`Accounted`), and that the agent and the canary do not run
together (`Apart`). `CanariesTell` then reads the contract off the four answers: `BareContract` what a
connector without sign-in needs, `TokenPermitted` that the token is taken where it is demanded,
`ParamsFirst` what the other order of checks would have shown.

`GrantsAreKept`: `EtagTells` says that a deployment whose etag is the current one has read the
current members: a version number is never used twice. `ModelComesLast`: `SeedInv` says what
is ruled out at each stage of the seed and that each place cost at most one fetch
(`Hunted`), so that the budget is not exhausted before its places are; `SettledStays` carries
it through the model's turns, since what was fetched is never fetched again. `CredentialsAreLifted` and `AnswersAreTaken`: a plan is that of the payload it
is shown with (`DialogueInv`), and the rest is a case analysis of `PlanFor`.
`SubmissionsAreHonest`: no call is newer than the last and the plan shown is the newest
answer (`NewestShown`), so that what goes out (`Honest`) is that plan.

`Composed`, `TypeCorrect` of `MCInvestigations`, `PromisesKept`: the composition runs one
component at a time. Each step of it is a step of one component and leaves the variables of the
others alone, so a behaviour of the composition is a behaviour of each, and what was proved of the
component by itself (`NegotiationInv`, `ProbesInv`, `SearchInv`, `PolicyInv`, `DialogueTypeCorrect`,
`ConsoleInv`) holds in it. The constants are free here as well.

Only model-checked: liveness (`EveryRunSettles`, `EveryInvestigationEnds`), which under
fairness is outside the prover's reach; and the six sentences the code does not keep, each of which
TLC refutes. Every invariant and every action property of a passing run is proved.

## Not modelled, and why

Text: ingestion, the manifest's tools, diagnosis, bundles and redaction as such. They
decide what a tool says and not what exists; the pipeline takes their outcome as a
free choice, the dialogue takes from redaction that a credential is found, and a diagnosis is in
`ControlPlane` a copy of the error it is of. The generated server and the
authentication middleware keep no state that two requests share in a way that a model
would tell apart from one request; the application around the proxy's handlers only routes to
them. Of the console, the list of runs and the drawer only render the record. Of the
cloud clients, a call that only reads is a free answer of the step that makes it. The
search's grounded web query only returns text.

## Plan

1. `Pipeline` with `RunLifecycle`: done. The most important behaviour: a run, its
   failures, resumes and teardown.
2. `OAuthProxy` with `Grants`: done. What serves users afterwards.
3. `ControlPlane` under `RunLifecycle`: done. Overlapping handlers and runs that share an
   app.
4. `ConnectorNegotiation` and `ContractProbes` over one `ConnectorContract`: done, and proved.
5. `InvokerPolicy`, `SdkSearch`, `Resolution`, `Console`: done, and proved.
6. Proofs: every safety invariant and action property that a passing run checks, and both
   refinements, are proved, for the components and for their composition. What a resume that
   changes the kind of a run can break is said by three properties that hold of all overrides,
   and what overlapping handlers or an interrupted proxy can break by what holds without the overlap.
