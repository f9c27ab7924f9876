------------------------------ MODULE SdkSearch ------------------------------
(***************************************************************************)
(* The search for the HTTP API under a client library (sdk_agent.py): the  *)
(* conventional places of a specification first, then a model with tools,  *)
(* and at the end a manifest whose tools say what backs them.              *)
(*                                                                         *)
(* Documents are fetched within a budget and kept; paths are probed within *)
(* a budget and the answers kept.  The web, the API and the model are free.*)
(***************************************************************************)
EXTENDS Naturals, Sequences, FiniteSets

CONSTANTS
  Urls,           \* documents that may be looked at
  References,     \* what docs.sdk may name: a page, or a package's metadata, and
                  \* the conventional places of a specification near it
  Webs,           \* what may stand at each URL
  Origins,        \* https origins an API may be at
  Methods,        \* PROBE_METHODS
  Paths,          \* concrete paths that may be probed, as segments
  Templates,      \* paths of the tools a model may propose; "*" is a placeholder
  FetchBudget,    \* MAX_FETCHES
  ProbeBudget,    \* MAX_PROBES
  TurnBudget      \* MAX_STEPS

\* "long" is a page of which the harness keeps the beginning alone; "unusable"
\* looks like a specification and is none.
Contents == {"page", "long", "spec", "unusable", "absent"}

ASSUME SearchAssumption ==
  /\ References \subseteq [package : BOOLEAN, page : Urls, candidates : Seq(Urls)]
  /\ Webs \subseteq [Urls -> Contents] /\ Webs # {}
  /\ Paths \subseteq Seq(STRING) /\ Templates \subseteq Seq(STRING)
  /\ FetchBudget \in Nat \ {0} /\ ProbeBudget \in Nat /\ TurnBudget \in Nat
  /\ "none" \notin Origins

VARIABLES
  search,      \* where investigate is
  web,         \* what stands at each URL
  reference,   \* the reference resolved
  tried,       \* how many candidates the hunt has tried
  found,       \* the URL the seed found a specification at, if any
  fetches,     \* SdkHarness.fetches
  fetched,     \* SdkHarness._seen_fetch: what each fetch answered
  base,        \* SdkHarness.base_url
  answers,     \* SdkHarness.probes
  turns,       \* turns the model has had
  manifest     \* what was found: its base URL and the evidence of its tools

searchVars ==
  <<search, web, reference, tried, found, fetches, fetched, base, answers, turns, manifest>>

Statuses == {"2xx", "401", "404", "405", "5xx"}

Evidence == {"spec", "probed", "inferred"}

SearchTypeOK ==
  /\ search \in {"idle", "page", "hunting", "adopting", "thinking", "calling",
                 "spec", "agent", "error"}
  /\ web \in [Urls -> Contents]
  /\ reference \subseteq References
  /\ tried \in Nat
  /\ found \subseteq Urls
  /\ fetches \in Nat
  /\ fetched \in [Urls -> Contents \union {"unseen", "error"}]
  /\ base \in Origins \union {"none"}
  /\ answers \subseteq [method : Methods, path : Paths, status : Statuses]
  /\ IsFiniteSet(answers) /\ Cardinality(answers) <= ProbeBudget
  /\ turns \in 0..TurnBudget
  /\ manifest \subseteq [base : Origins, tool : Templates, evidence : Evidence]

SearchInit ==
  /\ search = "idle"
  /\ web = CHOOSE w \in Webs : TRUE
  /\ reference = {} /\ found = {} /\ tried = 0
  /\ fetches = 0 /\ fetched = [u \in Urls |-> "unseen"]
  /\ base = "none" /\ answers = {} /\ turns = 0 /\ manifest = {}

Looked(u) == fetched[u] # "unseen"

LooksLikeSpec(content) == content \in {"spec", "unusable"}

FetchesExhausted == fetches >= FetchBudget

\* One probe too many.
ProbesExhaustedLate == Cardinality(answers) > ProbeBudget

ProbesExhausted == Cardinality(answers) >= ProbeBudget

\* Answered from what was kept, refused by the budget, or fetched and kept;
\* a fetch that fails is kept as well.
Fetch(u, budgeted) ==
  IF Looked(u) \/ (budgeted /\ FetchesExhausted)
  THEN UNCHANGED <<fetches, fetched>>
  ELSE /\ fetches' = fetches + 1
       /\ \E got \in {web[u], "error"} :
            fetched' = [fetched EXCEPT ![u] = IF got = "absent" THEN "error" ELSE got]

ResolveSdk(r) ==
  /\ search = "idle"
  /\ web' \in Webs
  /\ reference' = {r}
  /\ base' \in Origins \union {"none"}
  /\ search' = "page"
  /\ UNCHANGED <<tried, found, fetches, fetched, answers, turns, manifest>>

(***************************************************************************)
(* Before the model is asked                                               *)
(***************************************************************************)

\* The page the reference names, which may itself be a specification; or the
\* metadata of the package it names, where the hunt has its places from.
SeedPage(r) ==
  /\ search = "page"
  /\ Fetch(r.page, TRUE)
  /\ IF ~r.package /\ LooksLikeSpec(fetched'[r.page])
     THEN found' = {r.page} /\ search' = "adopting"
     ELSE UNCHANGED found /\ search' = "hunting"
  /\ UNCHANGED <<web, reference, tried, base, answers, turns, manifest>>

\* Metadata tells where to look if it was fetched and is kept whole: the body of a
\* fetch ends after so many characters, and what is left of longer
\* metadata is no JSON.
Readable(r) == fetched[r.page] \notin {"error", "long"}

\* find_openapi's candidates: none without the package's metadata.
Places(r) == IF r.package /\ ~Readable(r) THEN <<>> ELSE r.candidates

\* The next conventional place, until a specification turns up, the places
\* are through or the budget is.
HuntNext(r) ==
  /\ search = "hunting"
  /\ tried < Len(Places(r)) /\ ~FetchesExhausted
  /\ LET place == Places(r)[tried + 1] IN
     /\ Fetch(place, TRUE)
     /\ IF LooksLikeSpec(fetched'[place])
        THEN found' = {place} /\ search' = "adopting"
        ELSE UNCHANGED <<found, search>>
  /\ tried' = tried + 1
  /\ UNCHANGED <<web, reference, base, answers, turns, manifest>>

\* The last place is left out.
HuntOverEarly(r) ==
  /\ search = "hunting"
  /\ tried + 1 >= Len(Places(r)) \/ FetchesExhausted
  /\ search' = "thinking"
  /\ UNCHANGED <<web, reference, tried, found, fetches, fetched, base, answers, turns, manifest>>

HuntOver(r) ==
  /\ search = "hunting"
  /\ tried >= Len(Places(r)) \/ FetchesExhausted
  /\ search' = "thinking"
  /\ UNCHANGED <<web, reference, tried, found, fetches, fetched, base, answers, turns, manifest>>

\* The tools of a parsed specification: any, each of them exact.
FromSpec == manifest' \in {{[base |-> o, tool |-> t, evidence |-> "spec"] : t \in Templates} : o \in Origins}

\* The specification that was found is parsed; one that only looks like one
\* is a reason to go on with the model.
SeedAdopts ==
  /\ search = "adopting"
  /\ \/ /\ \A u \in found : fetched[u] = "spec"
        /\ search' = "spec"
        /\ FromSpec
     \/ /\ \E u \in found : fetched[u] # "spec"
        /\ search' = "thinking"
        /\ UNCHANGED manifest
  /\ UNCHANGED <<web, reference, tried, found, fetches, fetched, base, answers, turns>>

(***************************************************************************)
(* The model                                                               *)
(***************************************************************************)

\* A turn that is not counted.
ThinkOn ==
  /\ search = "thinking"
  /\ search' \in {"calling", "error"}
  /\ UNCHANGED <<web, reference, tried, found, fetches, fetched, base, answers, turns, manifest>>

\* A turn; or the model cannot be reached, has nothing to call, or has no turn left.
Think ==
  /\ search = "thinking"
  /\ \/ turns < TurnBudget /\ turns' = turns + 1 /\ search' = "calling"
     \/ turns' = turns /\ search' = "error"
  /\ UNCHANGED <<web, reference, tried, found, fetches, fetched, base, answers, manifest>>

\* In the last two turns only the calls that end the search are allowed.
Free == search = "calling" /\ turns + 1 < TurnBudget

\* A fetch of the model's, its own hunts included: each is a series of these.
CallFetch(u) ==
  /\ Free
  /\ Fetch(u, TRUE)
  /\ UNCHANGED <<search, web, reference, tried, found, base, answers, turns, manifest>>

CallSetBase(o) ==
  /\ Free
  /\ base' = o
  /\ UNCHANGED <<search, web, reference, tried, found, fetches, fetched, answers, turns, manifest>>

\* What a status says of a path: a refusal proves it, a failing server nothing.
Classify(status) ==
  CASE status = "401" -> "exists_gated"
    [] status = "405" -> "wrong_method"
    [] status = "404" -> "absent"
    [] status = "2xx" -> "exists"
    [] OTHER -> "inconclusive"

Confirms(a) == Classify(a.status) \in {"exists", "exists_gated", "wrong_method"}

\* Without a base there is nothing to probe; a path once probed is answered
\* from the transcript, whatever the base was then; a placeholder, the URL
\* policy and the budget refuse.
CallProbePath(method, path) ==
  /\ Free
  /\ base # "none"
  /\ ~ProbesExhausted
  /\ \A a \in answers : <<a.method, a.path>> # <<method, path>>
  /\ \E status \in Statuses :
       answers' = answers \union {[method |-> method, path |-> path, status |-> status]}
  /\ UNCHANGED <<search, web, reference, tried, found, fetches, fetched, base, turns, manifest>>

\* The specification the model adopts is fetched without a budget if it has
\* not been looked at; one that cannot be used is answered with an error.
CallUseOpenapi(u) ==
  /\ search = "calling"
  /\ Fetch(u, FALSE)
  /\ \/ fetched'[u] = "spec" /\ search' = "spec" /\ FromSpec
     \/ fetched'[u] # "spec" /\ UNCHANGED <<search, manifest>>
  /\ UNCHANGED <<web, reference, tried, found, base, answers, turns>>

\* A placeholder stands for exactly one segment.
Matches(tool, path) ==
  /\ Len(tool) = Len(path)
  /\ \A i \in DOMAIN tool : tool[i] \in {"*", path[i]}

\* The label comes from the transcript, not from what the model says.
Label(tool) ==
  IF \E a \in answers : Confirms(a) /\ Matches(tool, a.path) THEN "probed" ELSE "inferred"

\* The proposal's base URL, or else the harness's; without a usable one, or
\* without a usable tool, the search has failed.
CallProposeTools ==
  /\ search = "calling"
  /\ \E tools \in SUBSET Templates, o \in Origins \union {base} :
       IF o = "none" \/ tools = {}
       THEN search' = "error" /\ UNCHANGED manifest
       ELSE /\ search' = "agent"
            /\ manifest' = {[base |-> o, tool |-> t, evidence |-> Label(t)] : t \in tools}
  /\ UNCHANGED <<web, reference, tried, found, fetches, fetched, base, answers, turns>>

CallsAnswered ==
  /\ search = "calling"
  /\ search' = "thinking"
  /\ UNCHANGED <<web, reference, tried, found, fetches, fetched, base, answers, turns, manifest>>

SeedStep == (\E r \in reference : SeedPage(r) \/ HuntNext(r) \/ HuntOver(r)) \/ SeedAdopts

CallStep ==
  \/ \E u \in Urls : CallFetch(u) \/ CallUseOpenapi(u)
  \/ \E o \in Origins : CallSetBase(o)
  \/ \E method \in Methods, path \in Paths : CallProbePath(method, path)
  \/ CallProposeTools

SearchStep == SeedStep \/ Think \/ CallStep \/ CallsAnswered

SearchNext == (\E r \in References : ResolveSdk(r)) \/ SearchStep

SearchSpec == SearchInit /\ [][SearchNext]_searchVars

(***************************************************************************)
(* Properties                                                              *)
(***************************************************************************)

\* The model is asked only when no specification can be had without it: one that was found
\* could not be used, and one that stands within the places that the budget
\* reaches could not be fetched.  Except for a package whose metadata was
\* not fetched or is too long to be kept whole: then no place is tried at
\* all, and the model is asked wherever a specification stands (_seed,
\* _package_metadata, investigate).
SpecBeforeModel ==
  turns > 0 =>
    \A r \in reference :
      /\ \A u \in found : fetched[u] # "spec"
      /\ \/ found # {}
         \/ r.package /\ fetched[r.page] \in {"error", "long"}
         \/ \A i \in DOMAIN r.candidates :
              i < FetchBudget /\ web[r.candidates[i]] = "spec" => fetched[r.candidates[i]] = "error"
=============================================================================
