---------------------------- MODULE SearchProofs ----------------------------
(***************************************************************************)
(* What the search for an API has looked at before it asks a model, for    *)
(* any web, references, budgets and templates.                             *)
(***************************************************************************)
EXTENDS SdkSearch, FiniteSetTheorems, TLAPS

\* Looked at, and no specification.
Ruled(u) == Looked(u) /\ ~LooksLikeSpec(fetched[u])

\* The places tried so far are ruled out, and took a fetch each besides the page.
Hunted ==
  /\ found = {} /\ fetches <= tried + 1
  /\ \A r \in reference :
       Looked(r.page) /\ \A i \in DOMAIN Places(r) : i <= tried => Ruled(Places(r)[i])

\* What was found could not be used, or the places within the budget are ruled out.
Settled ==
  /\ \A u \in found : Looked(u) /\ fetched[u] # "spec"
  /\ found = {} => \A r \in reference :
       Looked(r.page) /\ \A i \in DOMAIN Places(r) : i < FetchBudget => Ruled(Places(r)[i])

Seeding == {"idle", "page", "hunting", "adopting"}

\* What has been fetched is what stands there, and the stages of the seed.
SeedInv ==
  /\ \A r, s \in reference : r = s
  /\ \A u \in Urls : fetched[u] \in {"unseen", "error", web[u]}
  /\ search \in {"idle", "page"} => tried = 0 /\ fetches = 0 /\ found = {}
  /\ search = "idle" => \A u \in Urls : ~Looked(u)
  /\ search \in Seeding => turns = 0
  /\ search = "hunting" => Hunted
  /\ search = "adopting" => \E u \in Urls : found = {u} /\ LooksLikeSpec(fetched[u])
  /\ search \in {"thinking", "calling"} \/ turns > 0 => Settled

SearchInv == SearchTypeOK /\ SeedInv

-----------------------------------------------------------------------------
\* A fetch keeps what was fetched before, costs at most one, and tells what stands there.
LEMMA FetchKeeps ==
  ASSUME SearchTypeOK, SeedInv, NEW u \in Urls, NEW budgeted \in BOOLEAN, Fetch(u, budgeted)
  PROVE  /\ fetches' \in Nat /\ fetches' <= fetches + 1
         /\ fetched' \in [Urls -> Contents \union {"unseen", "error"}]
         /\ \A v \in Urls : fetched[v] # "unseen" => fetched'[v] = fetched[v]
         /\ \A v \in Urls : fetched'[v] \in {"unseen", "error", web[v]}
         /\ ~budgeted \/ fetches < FetchBudget => fetched'[u] # "unseen"
<1>1. /\ fetches \in Nat /\ FetchBudget \in Nat
      /\ fetched \in [Urls -> Contents \union {"unseen", "error"}]
      /\ web[u] \in Contents
      /\ \A v \in Urls : fetched[v] \in {"unseen", "error", web[v]}
  BY SearchAssumption DEF SearchTypeOK, SeedInv
<1>2. CASE Looked(u) \/ (budgeted /\ FetchesExhausted)
  BY <1>1, <1>2 DEF Fetch, Looked, FetchesExhausted
<1>3. CASE ~(Looked(u) \/ (budgeted /\ FetchesExhausted))
  <2>1. fetches' = fetches + 1
    BY <1>3 DEF Fetch
  <2>2. PICK got \in {web[u], "error"} :
          fetched' = [fetched EXCEPT ![u] = IF got = "absent" THEN "error" ELSE got]
    BY <1>3 DEF Fetch
  <2> DEFINE kept == IF got = "absent" THEN "error" ELSE got
  <2>3. kept \in {"error", web[u]} /\ kept \in Contents \union {"error"} /\ kept # "unseen"
    BY <1>1 DEF Contents
  <2>4. fetched' = [fetched EXCEPT ![u] = kept]
    BY <2>2
  <2> HIDE DEF kept
  <2> QED
    BY <1>1, <1>3, <2>1, <2>3, <2>4 DEF Looked
<1> QED
  BY <1>2, <1>3

\* What may have happened to the documents in a step.
Grown ==
  /\ fetched' \in [Urls -> Contents \union {"unseen", "error"}]
  /\ \A v \in Urls : fetched[v] # "unseen" => fetched'[v] = fetched[v]

\* The places near a page that was looked at stay what they are.
LEMMA PlacesStay ==
  ASSUME SearchTypeOK, Grown, NEW r \in reference, Looked(r.page)
  PROVE  /\ Places(r)' = Places(r) /\ Looked(r.page)'
         /\ Places(r) \in Seq(Urls)
         /\ DOMAIN Places(r) = 1..Len(Places(r)) /\ Len(Places(r)) \in Nat
<1>1. r.page \in Urls /\ r.candidates \in Seq(Urls)
  BY SearchAssumption DEF SearchTypeOK
<1>2. fetched'[r.page] = fetched[r.page]
  BY <1>1 DEF Grown, Looked
<1>3. Places(r) \in Seq(Urls)
  BY <1>1 DEF Places
<1> QED
  BY <1>2, <1>3 DEF Places, Readable, Looked

\* A document that is ruled out stays so.
LEMMA RuledStays ==
  ASSUME Grown, NEW u \in Urls, Ruled(u)
  PROVE  Ruled(u)'
BY DEF Grown, Ruled, Looked

\* What is settled stays settled.
LEMMA SettledStays ==
  ASSUME SearchTypeOK, Settled, Grown, UNCHANGED <<found, reference>>
  PROVE  Settled'
<1>1. \A u \in found : (Looked(u) /\ fetched[u] # "spec")'
  BY DEF SearchTypeOK, Settled, Grown, Looked
<1>2. ASSUME found = {}, NEW r \in reference
      PROVE  (Looked(r.page)
               /\ \A i \in DOMAIN Places(r) : i < FetchBudget => Ruled(Places(r)[i]))'
  <2>1. Looked(r.page) /\ \A i \in DOMAIN Places(r) : i < FetchBudget => Ruled(Places(r)[i])
    BY <1>2 DEF Settled
  <2>2. \A i \in DOMAIN Places(r) : Places(r)[i] \in Urls
    BY <2>1, PlacesStay
  <2> QED
    BY <2>1, <2>2, PlacesStay, RuledStays
<1> QED
  BY <1>1, <1>2 DEF Settled

-----------------------------------------------------------------------------
\* The page that the reference names.
LEMMA SeedPageKeeps ==
  ASSUME SearchInv, NEW r \in reference, SeedPage(r)
  PROVE  SearchTypeOK' /\ SeedInv'
<1>1. r.page \in Urls /\ \A s \in reference : s = r
  BY SearchAssumption DEF SearchInv, SearchTypeOK, SeedInv
<1>2. fetches = 0 /\ tried = 0 /\ found = {} /\ turns = 0 /\ FetchBudget \in Nat \ {0}
  BY SearchAssumption DEF SearchInv, SeedInv, SeedPage, Seeding
<1>3. /\ fetches' \in Nat /\ fetches' <= fetches + 1
      /\ fetched' \in [Urls -> Contents \union {"unseen", "error"}]
      /\ \A v \in Urls : fetched'[v] \in {"unseen", "error", web[v]}
      /\ fetched'[r.page] # "unseen"
  <2>1. Fetch(r.page, TRUE) /\ SearchTypeOK /\ SeedInv
    BY DEF SearchInv, SeedPage
  <2>2. fetches < FetchBudget
    BY <1>2
  <2> QED
    BY <1>1, <2>1, <2>2, FetchKeeps
<1>4. UNCHANGED <<web, reference, tried, base, answers, turns, manifest>>
  BY DEF SeedPage
<1>5. CASE ~r.package /\ LooksLikeSpec(fetched'[r.page])
  <2>1. found' = {r.page} /\ search' = "adopting"
    BY <1>5 DEF SeedPage
  <2> QED
    BY <1>1, <1>2, <1>3, <1>4, <1>5, <2>1 DEF SearchInv, SearchTypeOK, SeedInv, Seeding
<1>6. CASE ~(~r.package /\ LooksLikeSpec(fetched'[r.page]))
  <2>1. UNCHANGED found /\ search' = "hunting"
    BY <1>6 DEF SeedPage
  <2>2. Hunted'
    <3>1. \A i \in DOMAIN Places(r)' : ~(i <= 0)
      <4>1. r.candidates \in Seq(Urls)
        BY SearchAssumption DEF SearchInv, SearchTypeOK
      <4>2. Places(r)' \in Seq(Urls)
        BY <4>1 DEF Places
      <4> QED
        BY <4>2
    <3> QED
      BY <1>1, <1>2, <1>3, <1>4, <2>1, <3>1 DEF Hunted, Looked
  <2> QED
    BY <1>2, <1>3, <1>4, <2>1, <2>2 DEF SearchInv, SearchTypeOK, SeedInv, Seeding
<1> QED
  BY <1>5, <1>6

\* A place of the hunt.
LEMMA HuntNextKeeps ==
  ASSUME SearchInv, NEW r \in reference, HuntNext(r)
  PROVE  SearchTypeOK' /\ SeedInv'
<1> DEFINE place == Places(r)[tried + 1]
<1>1. \A s \in reference : s = r
  BY DEF SearchInv, SeedInv
<1>2. search = "hunting" /\ Hunted /\ turns = 0 /\ found = {}
  BY DEF SearchInv, SeedInv, HuntNext, Hunted, Seeding
<1>3. Looked(r.page) /\ r.page \in Urls
  BY <1>2, SearchAssumption DEF Hunted, SearchInv, SearchTypeOK
<1>4. tried \in Nat /\ fetches \in Nat /\ FetchBudget \in Nat /\ fetches < FetchBudget
  BY SearchAssumption DEF SearchInv, SearchTypeOK, HuntNext, FetchesExhausted
<1>5. Places(r) \in Seq(Urls) /\ tried < Len(Places(r))
  <2>1. r.candidates \in Seq(Urls)
    BY SearchAssumption DEF SearchInv, SearchTypeOK
  <2> QED
    BY <2>1 DEF Places, HuntNext
<1>6. place \in Urls
  BY <1>4, <1>5
<1>7. Fetch(place, TRUE)
  BY DEF HuntNext
<1> HIDE DEF place
<1>8. /\ fetches' \in Nat /\ fetches' <= fetches + 1
      /\ \A v \in Urls : fetched'[v] \in {"unseen", "error", web[v]}
      /\ Grown /\ fetched'[place] # "unseen"
  BY <1>4, <1>6, <1>7, FetchKeeps DEF SearchInv, Grown
<1>9. UNCHANGED <<web, reference, base, answers, turns, manifest>> /\ tried' = tried + 1
  BY DEF HuntNext
<1>10. CASE LooksLikeSpec(fetched'[place])
  <2>1. found' = {place} /\ search' = "adopting"
    BY <1>10 DEF HuntNext, place
  <2> QED
    BY <1>1, <1>2, <1>4, <1>6, <1>8, <1>9, <1>10, <2>1
    DEF SearchInv, SearchTypeOK, SeedInv, Seeding, Grown
<1>11. CASE ~LooksLikeSpec(fetched'[place])
  <2>1. UNCHANGED <<found, search>>
    BY <1>11 DEF HuntNext, place
  <2>2. Places(r)' = Places(r) /\ Looked(r.page)'
    BY <1>3, <1>8, PlacesStay DEF SearchInv
  <2>3. ASSUME NEW i \in DOMAIN Places(r), i <= tried + 1
        PROVE  /\ fetched'[Places(r)[i]] # "unseen"
               /\ ~LooksLikeSpec(fetched'[Places(r)[i]])
    <3>1. i \in Nat /\ Places(r)[i] \in Urls
      BY <1>5
    <3>2. CASE i <= tried
      BY <1>2, <1>8, <3>1, <3>2 DEF Hunted, Ruled, Looked, Grown
    <3>3. CASE i = tried + 1
      BY <1>8, <1>11, <3>3 DEF place
    <3> QED
      BY <1>4, <2>3, <3>1, <3>2, <3>3
  <2>4. \A i \in DOMAIN Places(r)' : i <= tried' => Ruled(Places(r)[i])'
    BY <1>9, <2>2, <2>3 DEF Ruled, Looked
  <2>5. found' = {} /\ fetches' <= tried' + 1
    BY <1>2, <1>4, <1>8, <1>9, <2>1 DEF Hunted
  <2>6. Hunted'
    BY <1>1, <1>9, <2>2, <2>4, <2>5 DEF Hunted
  <2> QED
    BY <1>1, <1>2, <1>4, <1>8, <1>9, <2>1, <2>6
    DEF SearchInv, SearchTypeOK, SeedInv, Seeding, Grown
<1> QED
  BY <1>10, <1>11

\* The end of the hunt.
LEMMA HuntOverKeeps ==
  ASSUME SearchInv, NEW r \in reference, HuntOver(r)
  PROVE  SearchTypeOK' /\ SeedInv'
<1>1. \A s \in reference : s = r
  BY DEF SearchInv, SeedInv
<1>2. Hunted /\ tried \in Nat /\ fetches \in Nat /\ FetchBudget \in Nat
  BY SearchAssumption DEF SearchInv, SearchTypeOK, SeedInv, HuntOver
<1>3. tried >= Len(Places(r)) \/ fetches >= FetchBudget
  BY DEF HuntOver, FetchesExhausted
<1>4. ASSUME NEW i \in DOMAIN Places(r), i < FetchBudget PROVE Ruled(Places(r)[i])
  <2>1. r.candidates \in Seq(Urls)
    BY SearchAssumption DEF SearchInv, SearchTypeOK
  <2>2. Places(r) \in Seq(Urls)
    BY <2>1 DEF Places
  <2>3. i \in 1..Len(Places(r)) /\ Len(Places(r)) \in Nat
    BY <2>2
  <2>4. fetches <= tried + 1
    BY <1>2 DEF Hunted
  <2>5. i <= tried
    BY <1>2, <1>3, <1>4, <2>3, <2>4
  <2> QED
    BY <1>2, <2>5 DEF Hunted
<1>5. Settled
  BY <1>1, <1>2, <1>4 DEF Settled, Hunted
<1>6. /\ UNCHANGED <<web, reference, tried, found, fetches, fetched, base, answers, turns, manifest>>
      /\ search' = "thinking"
  BY DEF HuntOver
<1>7. Settled'
  BY <1>5, <1>6 DEF Settled, Looked, Places, Readable, Ruled
<1> QED
  BY <1>6, <1>7 DEF SearchInv, SearchTypeOK, SeedInv, Seeding

\* What the seed found is taken, or left to the model.
LEMMA AdoptKeeps ==
  ASSUME SearchInv, SeedAdopts
  PROVE  SearchTypeOK' /\ SeedInv'
<1>1. UNCHANGED <<web, reference, tried, found, fetches, fetched, base, answers, turns>>
  BY DEF SeedAdopts
<1>2. PICK u \in Urls : found = {u} /\ LooksLikeSpec(fetched[u])
  BY DEF SearchInv, SeedInv, SeedAdopts
<1>3. turns = 0
  BY DEF SearchInv, SeedInv, SeedAdopts, Seeding
<1>4. CASE search' = "spec" /\ FromSpec
  <2>1. manifest' \subseteq [base : Origins, tool : Templates, evidence : Evidence]
    BY <1>4 DEF FromSpec, Evidence
  <2> QED
    BY <1>1, <1>3, <1>4, <2>1 DEF SearchInv, SearchTypeOK, SeedInv, Seeding, Looked
<1>5. CASE fetched[u] # "spec" /\ search' = "thinking" /\ UNCHANGED manifest
  <2>1. Settled'
    BY <1>1, <1>2, <1>5 DEF Settled, LooksLikeSpec, Looked
  <2> QED
    BY <1>1, <1>3, <1>5, <2>1 DEF SearchInv, SearchTypeOK, SeedInv, Seeding, Looked
<1> QED
  BY <1>2, <1>4, <1>5 DEF SeedAdopts

-----------------------------------------------------------------------------
\* A step that is settled and looks at no more than documents stays settled.
LEMMA ModelKeeps ==
  ASSUME SearchInv, Settled, Grown, UNCHANGED <<web, found, reference>>,
         search' \in {"thinking", "calling", "spec", "agent", "error"},
         \A v \in Urls : fetched'[v] \in {"unseen", "error", web[v]}
  PROVE  SeedInv'
<1>1. Settled'
  BY SettledStays DEF SearchInv
<1> QED
  BY <1>1 DEF SearchInv, SeedInv, Seeding

\* A probe adds one answer within the budget.
LEMMA ProbePathKeeps ==
  ASSUME SearchTypeOK, NEW method \in Methods, NEW path \in Paths, CallProbePath(method, path)
  PROVE  SearchTypeOK'
<1>1. PICK status \in Statuses :
        answers' = answers \union
          {[method |-> method, path |-> path, status |-> status]}
  BY DEF CallProbePath
<1> DEFINE a == [method |-> method, path |-> path, status |-> status]
<1>2. a \in [method : Methods, path : Paths, status : Statuses]
  BY DEF SearchTypeOK, CallProbePath
<1>3. answers' = answers \union {a}
  BY <1>1
<1> HIDE DEF a
<1>4. IsFiniteSet(answers) /\ Cardinality(answers) \in Nat /\ Cardinality(answers) < ProbeBudget
  BY FS_CardinalityType, SearchAssumption DEF SearchTypeOK, CallProbePath, ProbesExhausted
<1>5. /\ IsFiniteSet(answers')
      /\ Cardinality(answers') = Cardinality(answers) \/ Cardinality(answers') = Cardinality(answers) + 1
  BY <1>3, <1>4, FS_AddElement
<1>6. Cardinality(answers') <= ProbeBudget
  BY <1>4, <1>5, SearchAssumption
<1> QED
  BY <1>2, <1>3, <1>5, <1>6 DEF SearchTypeOK, CallProbePath

\* A proposal ends the search, with or without a manifest.
LEMMA ProposalKeeps ==
  ASSUME SearchTypeOK, CallProposeTools
  PROVE  SearchTypeOK'
<1>1. UNCHANGED <<web, reference, tried, found, fetches, fetched, base, answers, turns>>
  BY DEF CallProposeTools
<1>2. PICK tools \in SUBSET Templates, o \in Origins \union {base} :
        IF o = "none" \/ tools = {}
        THEN search' = "error" /\ UNCHANGED manifest
        ELSE /\ search' = "agent"
             /\ manifest' = {[base |-> o, tool |-> t, evidence |-> Label(t)] : t \in tools}
  BY DEF CallProposeTools
<1>3. CASE o = "none" \/ tools = {}
  BY <1>1, <1>2, <1>3 DEF SearchTypeOK
<1>4. CASE ~(o = "none" \/ tools = {})
  <2>1. /\ search' = "agent"
        /\ manifest' = {[base |-> o, tool |-> t, evidence |-> Label(t)] : t \in tools}
    BY <1>2, <1>4
  <2>2. o \in Origins
    BY <1>4 DEF SearchTypeOK
  <2>3. \A t \in tools : Label(t) \in Evidence
    BY DEF Label, Evidence
  <2>4. manifest' \subseteq [base : Origins, tool : Templates, evidence : Evidence]
    BY <2>1, <2>2, <2>3
  <2> QED
    BY <1>1, <2>1, <2>4 DEF SearchTypeOK
<1> QED
  BY <1>3, <1>4

\* Every step of the search keeps the invariant.
LEMMA SearchStepKeeps == SearchInv /\ [SearchNext]_searchVars => SearchInv'
<1> SUFFICES ASSUME SearchInv, [SearchNext]_searchVars PROVE SearchInv'
  OBVIOUS
<1>1. ASSUME NEW r \in References, ResolveSdk(r) PROVE SearchInv'
  <2>1. SearchTypeOK'
    BY <1>1, SearchAssumption DEF ResolveSdk, SearchInv, SearchTypeOK
  <2>2. SeedInv'
    BY <1>1 DEF ResolveSdk, SearchInv, SeedInv, Seeding, Looked
  <2> QED
    BY <2>1, <2>2 DEF SearchInv
<1>2. ASSUME NEW r \in reference, SeedPage(r) \/ HuntNext(r) \/ HuntOver(r) PROVE SearchInv'
  <2>1. SearchTypeOK' /\ SeedInv'
    BY <1>2, SeedPageKeeps, HuntNextKeeps, HuntOverKeeps
  <2> QED
    BY <2>1 DEF SearchInv
<1>3. CASE SeedAdopts
  BY <1>3, AdoptKeeps DEF SearchInv
<1>4. CASE Think
  <2>1. SearchTypeOK'
    BY <1>4, SearchAssumption DEF Think, SearchInv, SearchTypeOK
  <2>2. Settled /\ Grown /\ UNCHANGED <<web, found, reference>> /\ search' \in {"calling", "error"}
    BY <1>4 DEF Think, SearchInv, SeedInv, SearchTypeOK, Grown
  <2>3. \A v \in Urls : fetched'[v] \in {"unseen", "error", web[v]}
    BY <1>4 DEF Think, SearchInv, SeedInv
  <2> QED
    BY <2>1, <2>2, <2>3, ModelKeeps DEF SearchInv
<1>5. ASSUME NEW u \in Urls, CallFetch(u) PROVE SearchInv'
  <2>1. search = "calling" /\ Fetch(u, TRUE)
    BY <1>5 DEF CallFetch, Free
  <2>2. fetches' \in Nat /\ Grown /\ \A v \in Urls : fetched'[v] \in {"unseen", "error", web[v]}
    BY <2>1, FetchKeeps DEF SearchInv, Grown
  <2>3. Settled
    BY <2>1 DEF SearchInv, SeedInv
  <2>4. SearchTypeOK'
    BY <1>5, <2>2 DEF CallFetch, SearchInv, SearchTypeOK, Grown
  <2> QED
    BY <1>5, <2>1, <2>2, <2>3, <2>4, ModelKeeps DEF CallFetch, SearchInv
<1>6. ASSUME NEW u \in Urls, CallUseOpenapi(u) PROVE SearchInv'
  <2>1. search = "calling" /\ Fetch(u, FALSE)
    BY <1>6 DEF CallUseOpenapi
  <2>2. fetches' \in Nat /\ Grown /\ \A v \in Urls : fetched'[v] \in {"unseen", "error", web[v]}
    BY <2>1, FetchKeeps DEF SearchInv, Grown
  <2>3. Settled
    BY <2>1 DEF SearchInv, SeedInv
  <2>4. \/ search' = "spec" /\ FromSpec
        \/ search' = "calling" /\ UNCHANGED manifest
    BY <1>6, <2>1 DEF CallUseOpenapi
  <2>5. manifest' \subseteq [base : Origins, tool : Templates, evidence : Evidence]
    BY <2>4 DEF FromSpec, Evidence, SearchInv, SearchTypeOK
  <2>6. UNCHANGED <<web, reference, tried, found, base, answers, turns>>
    BY <1>6 DEF CallUseOpenapi
  <2>7. SearchTypeOK'
    BY <2>2, <2>4, <2>5, <2>6 DEF SearchInv, SearchTypeOK, Grown
  <2> QED
    BY <2>2, <2>3, <2>4, <2>6, <2>7, ModelKeeps DEF SearchInv
<1>7. ASSUME NEW o \in Origins, CallSetBase(o) PROVE SearchInv'
  <2>1. /\ search = "calling" /\ search' = "calling" /\ base' = o
        /\ UNCHANGED <<web, reference, tried, found, fetches, fetched, answers, turns, manifest>>
    BY <1>7 DEF CallSetBase, Free
  <2> QED
    BY <2>1, ModelKeeps DEF SearchInv, SearchTypeOK, SeedInv, Grown
<1>8. ASSUME NEW method \in Methods, NEW path \in Paths, CallProbePath(method, path)
      PROVE  SearchInv'
  <2>1. /\ search = "calling" /\ search' = "calling"
        /\ UNCHANGED <<web, reference, tried, found, fetches, fetched, base, turns, manifest>>
    BY <1>8 DEF CallProbePath, Free
  <2>2. SearchTypeOK'
    BY <1>8, ProbePathKeeps DEF SearchInv
  <2> QED
    BY <2>1, <2>2, ModelKeeps DEF SearchInv, SearchTypeOK, SeedInv, Grown
<1>9. CASE CallProposeTools
  <2>1. /\ search = "calling" /\ search' \in {"agent", "error"}
        /\ UNCHANGED <<web, reference, found, fetched>>
    BY <1>9 DEF CallProposeTools
  <2>2. SearchTypeOK'
    BY <1>9, ProposalKeeps DEF SearchInv
  <2> QED
    BY <2>1, <2>2, ModelKeeps DEF SearchInv, SearchTypeOK, SeedInv, Grown
<1>10. CASE CallsAnswered
  <2>1. /\ search = "calling" /\ search' = "thinking"
        /\ UNCHANGED <<web, reference, tried, found, fetches, fetched, base, answers, turns, manifest>>
    BY <1>10 DEF CallsAnswered
  <2> QED
    BY <2>1, ModelKeeps DEF SearchInv, SearchTypeOK, SeedInv, Grown
<1>11. CASE UNCHANGED searchVars
  BY <1>11 DEF searchVars, SearchInv, SearchTypeOK, SeedInv, Hunted, Settled,
               Ruled, Looked, Places, Readable
<1> QED
  BY <1>1, <1>2, <1>3, <1>4, <1>5, <1>6, <1>7, <1>8, <1>9, <1>10, <1>11
  DEF SearchNext, SearchStep, SeedStep, CallStep

-----------------------------------------------------------------------------
\* The invariant of the search: what its stages have looked at (_seed, investigate).
THEOREM SearchInvariant == SearchSpec => []SearchInv
<1>1. SearchInit => SearchInv
  <2> SUFFICES ASSUME SearchInit PROVE SearchInv
    OBVIOUS
  <2>1. \E w \in Webs : TRUE
    BY SearchAssumption
  <2>2. web \in Webs
    BY <2>1 DEF SearchInit
  <2>3. IsFiniteSet(answers) /\ Cardinality(answers) = 0
    BY FS_EmptySet DEF SearchInit
  <2>4. SearchTypeOK
    BY <2>2, <2>3, SearchAssumption DEF SearchInit, SearchTypeOK
  <2> QED
    BY <2>4 DEF SearchInit, SearchInv, SeedInv, Seeding, Looked
<1> QED
  BY <1>1, SearchStepKeeps, PTL DEF SearchSpec

\* The model is asked only after the places within the budget are ruled out, or what
\* was found could not be used, or the metadata named no places (_seed, investigate).
THEOREM ModelComesLast == SearchSpec => []SpecBeforeModel
<1>1. SearchInv => SpecBeforeModel
  <2> SUFFICES ASSUME SearchInv, turns > 0, NEW r \in reference
               PROVE  /\ \A u \in found : fetched[u] # "spec"
                      /\ \/ found # {}
                         \/ r.package /\ fetched[r.page] \in {"error", "long"}
                         \/ \A i \in DOMAIN r.candidates :
                              i < FetchBudget /\ web[r.candidates[i]] = "spec" =>
                                fetched[r.candidates[i]] = "error"
    BY DEF SpecBeforeModel
  <2>1. Settled
    BY DEF SearchInv, SeedInv
  <2>2. r.candidates \in Seq(Urls)
    BY SearchAssumption DEF SearchInv, SearchTypeOK
  <2>3. CASE r.package /\ ~Readable(r)
    BY <2>1, <2>3 DEF Settled, Readable
  <2>4. CASE ~(r.package /\ ~Readable(r))
    <3>1. Places(r) = r.candidates
      BY <2>4 DEF Places
    <3>2. \A i \in DOMAIN r.candidates : r.candidates[i] \in Urls
      BY <2>2
    <3> QED
      BY <2>1, <3>1, <3>2 DEF Settled, Ruled, Looked, LooksLikeSpec, SearchInv, SeedInv
  <2> QED
    BY <2>3, <2>4
<1> QED
  BY <1>1, SearchInvariant, PTL
=============================================================================
