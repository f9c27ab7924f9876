----------------------------- MODULE MCPipeline -----------------------------
(***************************************************************************)
(* Instances of Pipeline for TLC: the requests of each kind of run, and    *)
(* the bodies its operator may resume it with.                             *)
(***************************************************************************)
EXTENDS Pipeline

Base ==
  [auth |-> "oauth_user", url |-> None, docs |-> "api", client |-> None,
   apiKey |-> None, proxy |-> "auto", engine |-> None, public |-> "no",
   stop |-> None]

NoOverride == [f \in DOMAIN Base |-> None]

\* Runs that go through the OAuth proxy: a generated server with a public
\* client and with a proxied confidential one, and an existing server.
ProxiedRequests ==
  {[Base EXCEPT !.client = "partial", !.engine = "app"],
   [Base EXCEPT !.client = "full", !.proxy = "always"],
   [Base EXCEPT !.url = "existing", !.docs = None]}

\* Runs whose own client goes straight to Gemini Enterprise.
DirectRequests ==
  {[Base EXCEPT !.client = "full"],
   [Base EXCEPT !.client = "full", !.proxy = "never", !.engine = "app"]}

\* Runs without user credentials: a key, nothing, a Google identity.
KeyedRequests ==
  {[Base EXCEPT !.auth = "api_key", !.apiKey = "key", !.public = "yes"],
   [Base EXCEPT !.auth = "none", !.docs = "big"],
   [Base EXCEPT !.auth = "google_id_token", !.engine = "app"]}

\* Documents that may name a server that already runs.
DetectedRequests ==
  {[Base EXCEPT !.docs = "mcp"],
   [Base EXCEPT !.docs = "mcp", !.auth = "none", !.public = "yes"]}

\* Runs told to stop after a stage.
StoppedRequests ==
  {[Base EXCEPT !.stop = s] : s \in {"preflight", "ingest", "oauth", "connect"}}

AllRequests == ProxiedRequests \union DirectRequests \union KeyedRequests
               \union DetectedRequests \union StoppedRequests

NothingSupplied == {NoOverride}

\* Resumes that resupply a secret, name an
\* app, allow exposure, or say anew where to stop.
AnythingSupplied ==
  {NoOverride,
   [NoOverride EXCEPT !.client = "full", !.engine = "app"],
   [NoOverride EXCEPT !.apiKey = "key"],
   [NoOverride EXCEPT !.public = "yes", !.stop = "deploy"],
   [NoOverride EXCEPT !.docs = "api", !.stop = "attach"]}

\* Resumes that make a run one of another kind: of another authentication, of a
\* server of its own, of a client of its own, or of none.
KindChanged ==
  {NoOverride,
   [NoOverride EXCEPT !.auth = "none", !.public = "yes"],
   [NoOverride EXCEPT !.auth = "oauth_user"],
   [NoOverride EXCEPT !.url = "existing"],
   [NoOverride EXCEPT !.client = "full"],
   [NoOverride EXCEPT !.auth = "api_key", !.apiKey = "key", !.public = "yes"]}
=============================================================================
