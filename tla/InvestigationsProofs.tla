------------------------ MODULE InvestigationsProofs ------------------------
(***************************************************************************)
(* What a resolution keeps out of the texts of a request, and what it does *)
(* not ask twice, for any forms, worlds, credentials and rounds; what the  *)
(* console submits, for any forms and any number of resolutions in flight, *)
(* answered in any order or not at all; what the grant of the invoker role *)
(* keeps of a policy that others change at the same time; and that the     *)
(* composition the run checks keeps what its six components promise.       *)
(***************************************************************************)
EXTENDS MCInvestigations, ConnectorProofs, SearchProofs, FiniteSetTheorems, TLAPS

(***************************************************************************)
(* The dialogue                                                            *)
(***************************************************************************)

\* The plan that is shown is that of the payload, in some world.
Shows(plan) == \E w \in Worlds : \E p \in Lifts(payload) : plan = PlanFor(p, w)

DialogueInv ==
  /\ payload \in Payload
  /\ round \in 0..Rounds
  /\ \A plan \in answer : Shows(plan)

-----------------------------------------------------------------------------
\* What lifting a credential takes away, and what it leaves.
LEMMA LiftedPayload ==
  ASSUME NEW q \in Payload, NEW p \in Lifts(q)
  PROVE  /\ p \in Payload
         /\ p.overrides.description = q.overrides.description
         /\ p.overrides.client = q.overrides.client
         /\ p.overrides.engine = q.overrides.engine
         /\ p.description.words = q.description.words
         /\ \/ p = q
            \/ \E key \in Found(q) : /\ p.input.keys = q.input.keys \ {key}
                                     /\ p.description.keys = q.description.keys \ {key}
<1>1. CASE p = q
  BY <1>1
<1>2. CASE \E key \in Found(q) :
          p = [Strip(q, key) EXCEPT !.overrides = TakesKey(@, key)]
  <2>1. PICK key \in Found(q) :
          p = [Strip(q, key) EXCEPT !.overrides = TakesKey(@, key)]
    BY <1>2
  <2> DEFINE s == Strip(q, key)
  <2>2. /\ s \in Payload /\ s.overrides = q.overrides
        /\ s.input.keys = q.input.keys \ {key}
        /\ s.description.keys = q.description.keys \ {key}
        /\ s.description.words = q.description.words
    BY DEF Strip, Payload, Description
  <2>3. key \in Credentials
    BY DEF Found, Payload, Description
  <2> HIDE DEF s
  <2> DEFINE o == TakesKey(q.overrides, key)
  <2>4. p = [s EXCEPT !.overrides = o]
    BY <2>1, <2>2 DEF s, Payload
  <2>5. /\ o \in Overrides /\ o.description = q.overrides.description
        /\ o.client = q.overrides.client /\ o.engine = q.overrides.engine
    <3> DEFINE a == IF q.overrides.auth = None THEN "api_key" ELSE q.overrides.auth
    <3>1. q.overrides \in Overrides
      BY DEF Payload
    <3>2. a \in AuthKinds \union {None}
      BY <3>1 DEF Overrides, AuthKinds
    <3>3. o = [q.overrides EXCEPT !.api_key = key, !.auth = a]
      BY <3>1 DEF Overrides, TakesKey
    <3> HIDE DEF a, o
    <3> QED
      BY <2>3, <3>1, <3>2, <3>3 DEF Overrides
  <2> HIDE DEF o
  <2>6. /\ p \in Payload /\ p.overrides = o
        /\ p.input = s.input /\ p.description = s.description
    BY <2>2, <2>4, <2>5 DEF Payload
  <2> QED
    BY <2>2, <2>5, <2>6
<1> QED
  BY <1>1, <1>2 DEF Lifts

\* A payload without a chosen key in which there is at most one credential has
\* none left in its texts.
LEMMA NoneLeft ==
  ASSUME NEW q \in Payload, NEW p \in Lifts(q),
         q.overrides.api_key = None, ~(Cardinality(Found(q)) > 1)
  PROVE  p.input.keys = {} /\ p.description.keys = {}
<1>1. CASE Found(q) = {}
  BY <1>1 DEF Lifts, Found
<1>2. CASE Found(q) # {}
  <2>1. PICK key \in Found(q) :
          p = [Strip(q, key) EXCEPT !.overrides = TakesKey(@, key)]
    BY <1>2 DEF Lifts
  <2>2. /\ p.input.keys = q.input.keys \ {key}
        /\ p.description.keys = q.description.keys \ {key}
    BY <2>1 DEF Strip, Payload, Description
  <2>3. IsFiniteSet(Found(q))
    <3>1. Found(q) \subseteq Credentials
      BY DEF Found, Payload, Description
    <3> QED
      BY <3>1, ResolutionAssumption, FS_Subset
  <2>4. Cardinality(Found(q)) \in Nat /\ Cardinality(Found(q)) # 0
    BY <1>2, <2>3, FS_CardinalityType, FS_EmptySet
  <2>5. Cardinality(Found(q)) = 1
    BY <2>4
  <2>6. PICK x : Found(q) = {x}
    BY <2>3, <2>5, FS_Singleton
  <2> QED
    BY <2>2, <2>6 DEF Found
<1> QED
  BY <1>1, <1>2

\* A request is assembled, or there is none.
LEMMA RequestAssembled ==
  ASSUME NEW p, NEW w, NEW r \in PlanFor(p, w).request
  PROVE  r.keys \subseteq p.input.keys \union Described(p).keys
<1>1. r = Assemble(p, w)
  BY DEF PlanFor, NoPlan
<1>2. Assemble(p, w).keys =
        (IF Classified(p) = "mcp_config" THEN {} ELSE p.input.keys)
          \union (IF Enough(Described(p)) THEN Described(p).keys ELSE {})
  BY DEF Assemble
<1> QED
  BY <1>1, <1>2

\* What the invariant says of a plan about credentials.
LEMMA ShownIsLifted == DialogueInv => CredentialLifted
<1> SUFFICES ASSUME DialogueInv, NEW plan \in answer, NEW r \in plan.request,
                    payload.overrides.api_key = None,
                    ~(Cardinality(Found(payload)) > 1)
             PROVE  r.keys \subseteq payload.overrides.description.keys
  BY DEF CredentialLifted
<1>1. PICK w \in Worlds, p \in Lifts(payload) : plan = PlanFor(p, w)
  BY DEF DialogueInv, Shows
<1>2. p.input.keys = {} /\ p.description.keys = {}
  BY NoneLeft DEF DialogueInv
<1>3. r.keys \subseteq Described(p).keys
  BY <1>1, <1>2, RequestAssembled
<1>4. p.overrides.description = payload.overrides.description
  BY LiftedPayload DEF DialogueInv
<1> QED
  BY <1>2, <1>3, <1>4 DEF Described

\* What a plan asks for is not there.
LEMMA AskedIsMissing ==
  ASSUME NEW p, NEW w
  PROVE  /\ "description" \in PlanFor(p, w).asks => ~Enough(Described(p))
         /\ "oauth_client" \in PlanFor(p, w).asks => ~p.overrides.client
         /\ "engine" \in PlanFor(p, w).asks => Engine(p, w) = None
<1> DEFINE r == Assemble(p, w)
<1>1. r.client = p.overrides.client /\ r.engine = Engine(p, w)
  BY DEF Assemble
<1> HIDE DEF r
<1>2. \/ PlanFor(p, w).asks = {}
      \/ PlanFor(p, w).asks = {"description"} /\ ~Enough(Described(p))
      \/ PlanFor(p, w).asks = Left(r, w)
  BY DEF PlanFor, NoPlan, r
<1>3. /\ "description" \notin Left(r, w)
      /\ "oauth_client" \in Left(r, w) => ~r.client
      /\ "engine" \in Left(r, w) => r.engine = None
  BY DEF Left
<1> QED
  BY <1>1, <1>2, <1>3

\* What the invariant says of a plan about answers.
LEMMA ShownConverges == DialogueInv => AnswersConverge
<1> SUFFICES ASSUME DialogueInv, NEW plan \in answer
             PROVE  /\ "description" \in plan.asks /\ Enough(payload.overrides.description) =>
                         payload.description.words = "few"
                    /\ "oauth_client" \in plan.asks => ~payload.overrides.client
                    /\ "engine" \in plan.asks => payload.overrides.engine = None
  BY DEF AnswersConverge
<1>1. PICK w \in Worlds, p \in Lifts(payload) : plan = PlanFor(p, w)
  BY DEF DialogueInv, Shows
<1>2. /\ p.overrides.description = payload.overrides.description
      /\ p.overrides.client = payload.overrides.client
      /\ p.overrides.engine = payload.overrides.engine
      /\ p.description.words = payload.description.words
      /\ p \in Payload
  BY LiftedPayload DEF DialogueInv
<1>3. "oauth_client" \in plan.asks => ~payload.overrides.client
  BY <1>1, <1>2, AskedIsMissing
<1>4. "engine" \in plan.asks => payload.overrides.engine = None
  <2>1. Engine(p, w) = None => p.overrides.engine = None \/ Cardinality(w.engines) # 1
    BY DEF Engine
  <2>2. CASE p.overrides.engine # None
    <3>1. Engine(p, w) = p.overrides.engine
      BY <2>2 DEF Engine
    <3> QED
      BY <1>1, <2>2, <3>1, AskedIsMissing
  <2> QED
    BY <1>2, <2>2
<1>5. ASSUME "description" \in plan.asks, Enough(payload.overrides.description)
      PROVE  payload.description.words = "few"
  <2>1. ~Enough(Described(p))
    BY <1>1, <1>5, AskedIsMissing
  <2>2. p.description # NoDescription /\ ~Enough(p.description)
    BY <1>2, <1>5, <2>1 DEF Described
  <2>3. p.description \in Description
    BY <1>2 DEF Payload
  <2>4. p.description.words # "none"
    BY <2>2, <2>3 DEF Description, NoDescription, Enough
  <2> QED
    BY <1>2, <2>2, <2>3, <2>4 DEF Description, Enough
<1> QED
  BY <1>3, <1>4, <1>5

-----------------------------------------------------------------------------
\* Every step of the dialogue keeps the invariant.
LEMMA DialogueStepKeeps ==
  DialogueInv /\ [DialogueNext]_dialogueVars => DialogueInv'
<1> SUFFICES ASSUME DialogueInv, [DialogueNext]_dialogueVars PROVE DialogueInv'
  OBVIOUS
<1>1. ASSUME NEW form \in Forms, FillIn(form) PROVE DialogueInv'
  <2>1. form \in Payload /\ payload \in Payload
    BY ResolutionAssumption DEF DialogueInv
  <2> DEFINE o == [form.overrides EXCEPT !.description = payload.overrides.description,
                     !.client = payload.overrides.client, !.engine = payload.overrides.engine]
  <2>2. o \in Overrides
    BY <2>1 DEF Payload, Overrides
  <2>3. payload' = [form EXCEPT !.overrides = o]
    BY <1>1, <2>1 DEF FillIn, Payload
  <2> HIDE DEF o
  <2>4. payload' \in Payload
    BY <2>1, <2>2, <2>3 DEF Payload
  <2> QED
    BY <1>1, <2>4 DEF FillIn, DialogueInv
<1>2. ASSUME NEW w \in Worlds, Resolve(w) PROVE DialogueInv'
  <2>1. UNCHANGED payload /\ round' \in 0..Rounds
    BY <1>2, ResolutionAssumption DEF Resolve, DialogueInv
  <2>2. PICK p \in Lifts(payload) : answer' = {PlanFor(p, w)}
    BY <1>2 DEF Resolve
  <2>3. Lifts(payload') = Lifts(payload)
    BY <2>1
  <2>4. \A plan \in answer' : \E v \in Worlds : \E q \in Lifts(payload') : plan = PlanFor(q, v)
    BY <2>2, <2>3
  <2> QED
    BY <2>1, <2>4 DEF DialogueInv, Shows
<1>3. ASSUME NEW plan \in answer, NEW keys \in SUBSET Credentials, NEW engine \in Engines,
             Reply(plan, [words |-> "enough", keys |-> keys], engine)
      PROVE  DialogueInv'
  <2> DEFINE d == [words |-> "enough", keys |-> keys]
  <2>1. d \in Description /\ payload \in Payload
    BY DEF Description, DialogueInv
  <2> HIDE DEF d
  <2> DEFINE o == [payload.overrides EXCEPT
                     !.description = IF "description" \in plan.asks THEN d ELSE @,
                     !.client = @ \/ "oauth_client" \in plan.asks,
                     !.engine = IF "engine" \in plan.asks THEN engine ELSE @]
  <2>2. o \in Overrides
    BY <2>1 DEF Payload, Overrides
  <2>3. payload' = [payload EXCEPT !.overrides = o]
    BY <1>3, <2>1 DEF Reply, Payload, d
  <2> HIDE DEF o
  <2>4. payload' \in Payload
    BY <2>1, <2>2, <2>3 DEF Payload
  <2> QED
    BY <1>3, <2>4 DEF Reply, DialogueInv
<1>4. CASE UNCHANGED dialogueVars
  BY <1>4 DEF dialogueVars, DialogueInv, Shows
<1> QED
  BY <1>1, <1>2, <1>3, <1>4 DEF DialogueNext

\* A plan is made of what the form and the world can hold.
LEMMA PlanType ==
  ASSUME NEW p \in Payload, NEW w \in World
  PROVE  PlanFor(p, w) \in Plan
<1>1. Auth(p, w) \in AuthKinds
  <2>1. p.overrides.auth \in AuthKinds \union {None} /\ w.scheme \in AuthKinds
    BY DEF Payload, Overrides, World, AuthKinds
  <2>2. Inferred(p, w) \in AuthKinds
    BY <2>1 DEF Inferred, AuthKinds
  <2> QED
    BY <2>1, <2>2 DEF Auth
<1>2. Engine(p, w) \in Engines \union {None}
  <2>1. w.engines \subseteq Engines /\ p.overrides.engine \in Engines \union {None}
    BY DEF World, Payload, Overrides
  <2>2. Cardinality(w.engines) = 1 => \E e \in w.engines : TRUE
    BY FS_EmptySet
  <2> QED
    BY <2>1, <2>2 DEF Engine
<1> DEFINE kept == (IF Classified(p) = "mcp_config" THEN {} ELSE p.input.keys)
                     \union (IF Enough(Described(p)) THEN Described(p).keys ELSE {})
<1>3. kept \subseteq Credentials
  <2>1. p.input.keys \subseteq Credentials
    BY DEF Payload
  <2>2. Described(p) \in Description
    BY DEF Described, Payload, Overrides
  <2>3. Described(p).keys \subseteq Credentials
    BY <2>2 DEF Description
  <2> QED
    BY <2>1, <2>3
<1> DEFINE source == IF Kind(p, w) = "mcp_endpoint" THEN "mcp" ELSE "docs"
           key == IF Auth(p, w) = "api_key" THEN p.overrides.api_key ELSE None
<1>4. source \in {"mcp", "docs"} /\ key \in Credentials \union {None} /\ p.overrides.client \in BOOLEAN
  BY DEF Payload, Overrides
<1>5. Assemble(p, w) = [source |-> source, keys |-> kept, auth |-> Auth(p, w), api_key |-> key,
                        client |-> p.overrides.client, engine |-> Engine(p, w)]
  BY DEF Assemble
<1> HIDE DEF kept, source, key
<1>6. Assemble(p, w) \in Request
  BY <1>1, <1>2, <1>3, <1>4, <1>5 DEF Request
<1>7. Left(Assemble(p, w), w) \subseteq Questions
  BY DEF Left, Questions
<1> QED
  BY <1>6, <1>7 DEF PlanFor, NoPlan, Plan, Questions

\* The invariant of the dialogue: a plan is of the payload it is shown with (_resolve).
THEOREM DialogueInvariant == DialogueSpec => []DialogueInv
<1>1. Blank \in Payload
  <2>1. NoDescription \in Description
    BY DEF NoDescription, Description
  <2>2. Blank.overrides \in Overrides
    BY <2>1 DEF Blank, Overrides
  <2> QED
    BY <2>1, <2>2 DEF Blank, Payload, Looks, Overrides
<1>2. DialogueInit => DialogueInv
  BY <1>1, ResolutionAssumption DEF DialogueInit, DialogueInv
<1> QED
  BY <1>2, DialogueStepKeeps, PTL DEF DialogueSpec

\* What is shown is a plan, and what is sent a payload, in every round (_resolve).
THEOREM DialogueTypeCorrect == DialogueSpec => []DialogueTypeOK
<1>1. DialogueInv => DialogueTypeOK
  <2> SUFFICES ASSUME DialogueInv, NEW plan \in answer PROVE plan \in Plan
    BY DEF DialogueInv, DialogueTypeOK
  <2>1. PICK w \in Worlds, p \in Lifts(payload) : plan = PlanFor(p, w)
    BY DEF DialogueInv, Shows
  <2>2. p \in Payload /\ w \in World
    BY ResolutionAssumption, LiftedPayload DEF DialogueInv
  <2> QED
    BY <2>1, <2>2, PlanType
<1> QED
  BY <1>1, DialogueInvariant, PTL

\* The only credential pasted into a form is in no text of a request, unless it was
\* pasted into the answer about the description (_lift_pasted_credential).
THEOREM CredentialsAreLifted == DialogueSpec => []CredentialLifted
<1> QED
  BY DialogueInvariant, ShownIsLifted, PTL

\* A question that is answered is not asked again, but for the description hidden
\* by one that is too short (_resolve).
THEOREM AnswersAreTaken == DialogueSpec => []AnswersConverge
<1> QED
  BY DialogueInvariant, ShownConverges, PTL

(***************************************************************************)
(* The console                                                             *)
(***************************************************************************)

\* The plan shown is the newest answer, and no answer is newer than its call.
NewestShown ==
  /\ newest <= sent
  /\ \A call \in flying : call.seq <= sent
  /\ \A p \in shown : p.seq = newest

\* What is being submitted was the newest plan, and not older than the click
\* if the resolution of that click was shown.
Honest(s) == s.seq = s.newest /\ (s.went = "well" => s.seq >= s.clicked)

ConsoleInv ==
  ConsoleTypeOK /\ NewestShown /\ \A s \in posting \union created : Honest(s)

-----------------------------------------------------------------------------
\* At most one plan is shown.
LEMMA OnePlan ==
  ASSUME NEW p PROVE Cardinality({p}) <= 1 /\ Cardinality({}) <= 1
<1>1. Cardinality({p}) = 1 /\ Cardinality({}) = 0
  BY FS_Singleton, FS_EmptySet
<1> QED
  BY <1>1

\* A resolution that is started.
LEMMA ResolveKeeps ==
  ASSUME ConsoleInv, NEW clicked \in BOOLEAN, DoResolve(clicked),
         UNCHANGED <<typed, newest, posting, created>>
  PROVE  ConsoleInv'
<1>1. CASE typed = Empty
  <2>1. shown' = {} /\ UNCHANGED <<sent, flying>>
    BY <1>1 DEF DoResolve
  <2> QED
    BY <2>1, OnePlan DEF ConsoleInv, ConsoleTypeOK, NewestShown, Honest
<1>2. CASE typed # Empty
  <2> DEFINE call == [seq |-> sent + 1, form |-> typed, clicked |-> clicked]
  <2>1. sent' = sent + 1 /\ flying' = flying \union {call} /\ UNCHANGED shown
    BY <1>2 DEF DoResolve
  <2>2. call \in Flight /\ call.seq = sent + 1
    BY <1>2 DEF ConsoleInv, ConsoleTypeOK, Flight
  <2> HIDE DEF call
  <2>3. ConsoleTypeOK'
    BY <2>1, <2>2 DEF ConsoleInv, ConsoleTypeOK
  <2>4. NewestShown'
    <3>1. \A c \in flying : c.seq <= sent + 1
      <4>1. ASSUME NEW c \in flying PROVE c.seq <= sent + 1
        <5>1. c.seq \in Nat /\ c.seq <= sent /\ sent \in Nat
          BY DEF ConsoleInv, ConsoleTypeOK, NewestShown, Flight
        <5> QED
          BY <5>1
      <4> QED
        BY <4>1
    <3>2. newest <= sent + 1 /\ sent + 1 <= sent + 1
      BY DEF ConsoleInv, ConsoleTypeOK, NewestShown
    <3> QED
      BY <2>1, <2>2, <3>1, <3>2 DEF ConsoleInv, NewestShown
  <2> QED
    BY <2>3, <2>4 DEF ConsoleInv
<1> QED
  BY <1>1, <1>2

\* A Create that goes on submits honestly.
LEMMA GoesOnHonestly ==
  ASSUME ConsoleInv, NEW call \in flying, NEW plan \in SUBSET Plans, NEW last \in Nat,
         NEW went \in {"well", "failed", "overtaken"}, GoesOn(call, plan, went, last),
         \A p \in plan : p.seq = last /\ (went = "well" => p.seq >= call.seq)
  PROVE  posting' \subseteq Submission /\ \A s \in posting' : Honest(s)
<1>1. CASE UNCHANGED posting
  BY <1>1 DEF ConsoleInv, ConsoleTypeOK
<1>2. CASE \E p \in plan :
             posting' = posting \union {[form |-> p.form, seq |-> p.seq, clicked |-> call.seq,
                                         newest |-> last, went |-> went]}
  <2>1. PICK p \in plan :
          posting' = posting \union {[form |-> p.form, seq |-> p.seq, clicked |-> call.seq,
                                      newest |-> last, went |-> went]}
    BY <1>2
  <2> DEFINE s == [form |-> p.form, seq |-> p.seq, clicked |-> call.seq,
                   newest |-> last, went |-> went]
  <2>2. p.form \in Entries /\ p.seq \in Nat /\ call.seq \in Nat
    BY DEF Plans, ConsoleInv, ConsoleTypeOK, Flight
  <2>3. s \in Submission
    BY <2>2 DEF Submission
  <2>4. Honest(s)
    BY <2>2 DEF Honest
  <2>5. posting' = posting \union {s}
    BY <2>1
  <2> HIDE DEF s
  <2> QED
    BY <2>3, <2>4, <2>5 DEF ConsoleInv, ConsoleTypeOK
<1> QED
  BY <1>1, <1>2 DEF GoesOn

\* An answer that is taken is the newest, and one that is dropped changes nothing.
LEMMA AnswerKeeps ==
  ASSUME ConsoleInv, NEW call \in flying, AnswerArrives(call)
  PROVE  ConsoleInv'
<1>1. call.seq \in Nat /\ call.form \in Entries /\ sent \in Nat /\ newest \in Nat
  BY DEF ConsoleInv, ConsoleTypeOK, Flight
<1>2. flying' \subseteq flying /\ UNCHANGED <<typed, sent, created>>
  BY DEF AnswerArrives
<1>3. CASE Superseded(call)
  <2>1. UNCHANGED <<shown, newest>> /\ GoesOn(call, shown, "overtaken", newest)
    BY <1>3 DEF AnswerArrives
  <2> DEFINE went == "overtaken"
  <2>2. /\ went \in {"well", "failed", "overtaken"} /\ went # "well"
        /\ GoesOn(call, shown, went, newest)
    BY <2>1
  <2> HIDE DEF went
  <2>3. posting' \subseteq Submission /\ \A s \in posting' : Honest(s)
    BY <1>1, <2>2, GoesOnHonestly DEF ConsoleInv, ConsoleTypeOK, NewestShown
  <2> QED
    BY <1>2, <2>1, <2>3 DEF ConsoleInv, ConsoleTypeOK, NewestShown
<1>4. CASE ~Superseded(call)
  <2>1. PICK says \in {"request", "missing", "nothing"} :
          /\ shown' = {[seq |-> call.seq, form |-> call.form, says |-> says]}
          /\ newest' = IF call.seq > newest THEN call.seq ELSE newest
          /\ GoesOn(call, shown', "well", newest')
    BY <1>4 DEF AnswerArrives
  <2>2. call.seq = sent /\ newest <= sent
    BY <1>4 DEF Superseded, ConsoleInv, NewestShown
  <2>3. newest' = call.seq
    BY <1>1, <2>1, <2>2
  <2> DEFINE p == [seq |-> call.seq, form |-> call.form, says |-> says]
  <2>4. p \in Plans /\ p.seq = call.seq
    BY <1>1 DEF Plans
  <2>5. shown' = {p}
    BY <2>1
  <2> HIDE DEF p
  <2>6. shown' \subseteq Plans /\ Cardinality(shown') <= 1 /\ \A q \in shown' : q.seq = newest'
    BY <2>3, <2>4, <2>5, OnePlan
  <2>7. \A q \in shown' : q.seq = newest' /\ ("well" = "well" => q.seq >= call.seq)
    BY <1>1, <2>3, <2>6
  <2>8. newest' \in Nat
    BY <1>1, <2>3
  <2>9. posting' \subseteq Submission /\ \A s \in posting' : Honest(s)
    BY <2>1, <2>6, <2>7, <2>8, GoesOnHonestly
  <2>10. ConsoleTypeOK'
    BY <1>2, <2>6, <2>8, <2>9 DEF ConsoleInv, ConsoleTypeOK
  <2>11. NewestShown'
    BY <1>1, <1>2, <2>2, <2>3, <2>6 DEF ConsoleInv, NewestShown
  <2> QED
    BY <1>2, <2>9, <2>10, <2>11 DEF ConsoleInv
<1> QED
  BY <1>3, <1>4

\* Every step keeps the invariant.
LEMMA ConsoleStepKeeps == ConsoleInv /\ [ConsoleNext]_consoleVars => ConsoleInv'
<1> SUFFICES ASSUME ConsoleInv, [ConsoleNext]_consoleVars PROVE ConsoleInv'
  OBVIOUS
<1>1. ASSUME NEW form \in Entries \union {Empty}, Type(form) PROVE ConsoleInv'
  BY <1>1 DEF Type, ConsoleInv, ConsoleTypeOK, NewestShown
<1>2. CASE Analyse
  BY <1>2, ResolveKeeps DEF Analyse
<1>3. CASE SubmitCreate
  BY <1>3, ResolveKeeps DEF SubmitCreate
<1>4. ASSUME NEW call \in flying, AnswerArrives(call) PROVE ConsoleInv'
  BY <1>4, AnswerKeeps
<1>5. ASSUME NEW call \in flying, ResolveFails(call) PROVE ConsoleInv'
  <2> DEFINE went == IF Superseded(call) THEN "overtaken" ELSE "failed"
  <2>1. /\ flying' \subseteq flying /\ UNCHANGED <<typed, sent, shown, newest, created>>
        /\ GoesOn(call, shown, went, newest)
    BY <1>5 DEF ResolveFails
  <2>2. went \in {"well", "failed", "overtaken"} /\ went # "well"
    OBVIOUS
  <2> HIDE DEF went
  <2>3. posting' \subseteq Submission /\ \A s \in posting' : Honest(s)
    BY <2>1, <2>2, GoesOnHonestly DEF ConsoleInv, ConsoleTypeOK, NewestShown
  <2> QED
    BY <2>1, <2>3 DEF ConsoleInv, ConsoleTypeOK, NewestShown
<1>6. ASSUME NEW s \in posting, Created(s) PROVE ConsoleInv'
  <2>1. typed' \in Entries \union {Empty}
    BY <1>6, ConsoleAssumption DEF Created, ConsoleInv, ConsoleTypeOK
  <2>2. /\ posting' \subseteq posting /\ created' \subseteq created \union posting
        /\ UNCHANGED <<sent, flying, shown, newest>>
    BY <1>6 DEF Created
  <2> QED
    BY <2>1, <2>2 DEF ConsoleInv, ConsoleTypeOK, NewestShown
<1>7. CASE UNCHANGED consoleVars
  BY <1>7 DEF consoleVars, ConsoleInv, ConsoleTypeOK, NewestShown
<1> QED
  BY <1>1, <1>2, <1>3, <1>4, <1>5, <1>6, <1>7 DEF ConsoleNext, ConsoleStep

\* The invariant of the form (doResolve, submitCreate).
THEOREM ConsoleInvariant == ConsoleSpec => []ConsoleInv
<1>1. ConsoleInit => ConsoleInv
  <2> SUFFICES ASSUME ConsoleInit PROVE ConsoleInv
    OBVIOUS
  <2>1. ConsoleTypeOK
    BY OnePlan DEF ConsoleInit, ConsoleTypeOK
  <2> QED
    BY <2>1 DEF ConsoleInit, ConsoleInv, NewestShown
<1> QED
  BY <1>1, ConsoleStepKeeps, PTL DEF ConsoleSpec

\* What is created is the newest plan shown, and made of the form as it stood at
\* the click or later unless the click's own resolution failed or was overtaken.
THEOREM SubmissionsAreHonest == ConsoleSpec => []SubmittedAsTyped
<1>1. ConsoleInv => SubmittedAsTyped
  BY DEF ConsoleInv, Honest, SubmittedAsTyped
<1> QED
  BY <1>1, ConsoleInvariant, PTL

-----------------------------------------------------------------------------
(***************************************************************************)
(* The policy                                                              *)
(***************************************************************************)

\* The etag is worth something: a deployment that holds the policy's etag
\* has read the policy, and no etag is of a policy to come.
EtagTells ==
  \A d \in Deployments :
    /\ \A t \in tag[d] : t <= etag
    /\ exists /\ etag \in tag[d] => seen[d] = members

PolicyInv == PolicyTypeOK /\ EtagTells

-----------------------------------------------------------------------------
\* A new version of the policy makes every etag that was read worthless.
LEMMA NewVersion ==
  ASSUME PolicyInv, etag' = etag + 1, UNCHANGED <<seen, tag>>
  PROVE  EtagTells'
<1> SUFFICES ASSUME NEW d \in Deployments
             PROVE  /\ \A t \in tag[d] : t <= etag + 1
                    /\ etag + 1 \notin tag[d]
  BY DEF EtagTells
<1>1. tag[d] \subseteq Nat /\ etag \in Nat /\ \A t \in tag[d] : t <= etag
  BY DEF PolicyInv, PolicyTypeOK, EtagTells
<1> QED
  BY <1>1

\* A deployment that moves on stays in one of its places.
LEMMA GoesType ==
  ASSUME PolicyTypeOK, NEW d \in Deployments, NEW from,
         NEW to \in {"idle", "posting", "patching", "polling", "reading", "writing", "done", "failed"},
         Goes(d, from, to)
  PROVE  deploying' \in [Deployments -> {"idle", "posting", "patching", "polling", "reading",
                                         "writing", "done", "failed"}]
BY DEF PolicyTypeOK, Goes

\* A step that neither reads nor writes the policy.
LEMMA Elsewhere ==
  ASSUME PolicyInv, UNCHANGED <<exists, members, etag, seen, tag>>
  PROVE  EtagTells'
BY DEF PolicyInv, EtagTells

\* The policy is read, or is taken to be empty.
LEMMA ReadKeeps ==
  ASSUME PolicyInv, NEW d \in Deployments, ReadPolicy(d)
  PROVE  PolicyInv'
<1>1. seen' \in [Deployments -> SUBSET Members] /\ tag' \in [Deployments -> SUBSET Nat]
  BY DEF PolicyInv, PolicyTypeOK, ReadPolicy
<1>2. deploying' \in [Deployments -> {"idle", "posting", "patching", "polling", "reading",
                                      "writing", "done", "failed"}]
  BY DEF PolicyInv, PolicyTypeOK, ReadPolicy, Goes
<1>3. EtagTells'
  <2> SUFFICES ASSUME NEW e \in Deployments
               PROVE  /\ \A t \in tag'[e] : t <= etag
                      /\ exists /\ etag \in tag'[e] => seen'[e] = members
    BY DEF EtagTells, ReadPolicy
  <2>1. CASE e # d
    BY <2>1 DEF PolicyInv, PolicyTypeOK, EtagTells, ReadPolicy
  <2>2. CASE e = d
    <3>1. CASE seen' = [seen EXCEPT ![d] = members] /\ tag' = [tag EXCEPT ![d] = {etag}]
      <4>1. seen'[e] = members /\ tag'[e] = {etag}
        BY <2>2, <3>1 DEF PolicyInv, PolicyTypeOK
      <4>2. etag <= etag
        BY DEF PolicyInv, PolicyTypeOK
      <4> QED
        BY <4>1, <4>2
    <3>2. CASE seen' = [seen EXCEPT ![d] = {}] /\ tag' = [tag EXCEPT ![d] = {}]
      BY <2>2, <3>2 DEF PolicyInv, PolicyTypeOK
    <3> QED
      BY <3>1, <3>2 DEF ReadPolicy
  <2> QED
    BY <2>1, <2>2
<1> QED
  BY <1>1, <1>2, <1>3 DEF PolicyInv, PolicyTypeOK, ReadPolicy

\* The policy is written, or the write is refused.
LEMMA WriteKeeps ==
  ASSUME PolicyInv, NEW d \in Deployments, WritePolicy(d)
  PROVE  PolicyInv'
<1>1. deploying' \in [Deployments -> {"idle", "posting", "patching", "polling", "reading",
                                      "writing", "done", "failed"}]
  BY GoesType DEF PolicyInv, WritePolicy
<1>2. CASE UNCHANGED <<members, etag>>
  BY <1>1, <1>2, Elsewhere DEF PolicyInv, PolicyTypeOK, WritePolicy
<1>3. CASE members' = seen[d] \union Wanted[d] /\ etag' = etag + 1
  <2>1. members' \subseteq Members
    BY <1>3, PolicyAssumption DEF PolicyInv, PolicyTypeOK
  <2>2. EtagTells'
    BY <1>3, NewVersion DEF WritePolicy
  <2> QED
    BY <1>1, <1>3, <2>1, <2>2 DEF PolicyInv, PolicyTypeOK, WritePolicy
<1> QED
  BY <1>2, <1>3 DEF WritePolicy

\* Every step keeps the invariant.
LEMMA PolicyStep == PolicyInv /\ [PolicyNext]_policyVars => PolicyInv'
<1> SUFFICES ASSUME PolicyInv, [PolicyNext]_policyVars PROVE PolicyInv'
  OBVIOUS
<1>1. ASSUME NEW d \in Deployments, Deploy(d) \/ Raises(d) \/ PostConflict(d) \/ Patch(d) \/ Poll(d)
      PROVE  PolicyInv'
  <2>1. deploying' \in [Deployments -> {"idle", "posting", "patching", "polling", "reading",
                                        "writing", "done", "failed"}]
    BY <1>1 DEF PolicyInv, PolicyTypeOK, Goes, Deploy, Raises, PostConflict, Patch, Poll
  <2>2. UNCHANGED <<exists, members, etag, seen, tag>>
    BY <1>1 DEF Deploy, Raises, PostConflict, Patch, Poll
  <2> QED
    BY <2>1, <2>2, Elsewhere DEF PolicyInv, PolicyTypeOK
<1>2. ASSUME NEW d \in Deployments, Post(d) PROVE PolicyInv'
  <2>1. deploying' \in [Deployments -> {"idle", "posting", "patching", "polling", "reading",
                                        "writing", "done", "failed"}]
    BY <1>2, GoesType DEF PolicyInv, Post
  <2>2. EtagTells'
    BY <1>2, NewVersion DEF Post
  <2> QED
    BY <1>2, <2>1, <2>2 DEF PolicyInv, PolicyTypeOK, Post
<1>3. ASSUME NEW d \in Deployments, ReadPolicy(d) PROVE PolicyInv'
  BY <1>3, ReadKeeps
<1>4. ASSUME NEW d \in Deployments, WritePolicy(d) PROVE PolicyInv'
  BY <1>4, WriteKeeps
<1>5. ASSUME NEW set \in SUBSET Members, OperatorSets(set) PROVE PolicyInv'
  BY <1>5, NewVersion DEF OperatorSets, PolicyInv, PolicyTypeOK
<1>6. CASE Remove
  BY <1>6 DEF Remove, PolicyInv, PolicyTypeOK, EtagTells
<1>7. CASE UNCHANGED policyVars
  BY <1>7 DEF policyVars, PolicyInv, PolicyTypeOK, EtagTells
<1> QED
  BY <1>1, <1>2, <1>3, <1>4, <1>5, <1>6, <1>7 DEF PolicyNext, DeployStep

\* The invariant: types, and what an etag tells (_grant_invoker).
THEOREM PolicyInvariant == PolicySpec => []PolicyInv
<1>1. ASSUME PolicyInit PROVE PolicyInv
  <2>1. \A d \in Deployments : tag[d] = {}
    BY <1>1 DEF PolicyInit
  <2>2. EtagTells
    BY <2>1 DEF EtagTells
  <2>3. exists \in BOOLEAN
    BY <1>1 DEF PolicyInit
  <2>4. PolicyTypeOK
    BY <1>1, <2>3 DEF PolicyInit, PolicyTypeOK
  <2> QED
    BY <2>2, <2>4 DEF PolicyInv
<1> QED
  BY <1>1, PolicyStep, PTL DEF PolicySpec

\* In a step that ends a deployment's write, that deployment writes.
LEMMA WritesOnly ==
  ASSUME PolicyInv, [PolicyNext]_policyVars, NEW d \in Deployments, Writes(d)
  PROVE  WritePolicy(d)
<1> USE DEF PolicyInv, PolicyTypeOK, Writes
<1>1. ASSUME NEW e \in Deployments, WritePolicy(e) PROVE WritePolicy(d)
  BY <1>1 DEF WritePolicy, Goes
<1>2. ASSUME NEW e \in Deployments,
             Deploy(e) \/ Raises(e) \/ Post(e) \/ PostConflict(e) \/ Patch(e) \/ Poll(e) \/ ReadPolicy(e)
      PROVE  FALSE
  <2>1. \E from \in {"idle", "posting", "patching", "polling", "reading"} : \E to :
          deploying[e] = from /\ deploying' = [deploying EXCEPT ![e] = to]
    BY <1>2 DEF Deploy, Raises, Post, PostConflict, Patch, Poll, ReadPolicy, Goes
  <2> QED
    BY <2>1
<1>3. \A set \in SUBSET Members : ~OperatorSets(set)
  BY DEF OperatorSets
<1>4. ~Remove /\ ~UNCHANGED policyVars
  BY DEF Remove, policyVars
<1> QED
  BY <1>1, <1>2, <1>3, <1>4 DEF PolicyNext, DeployStep

\* A deployment lets its members in and leaves the rest of the policy as it
\* is at that moment, whatever others do, unless it could not read it.
THEOREM GrantsAreKept == PolicySpec => GrantsKept
<1>1. ASSUME PolicyInv, [PolicyNext]_policyVars,
             NEW d \in Deployments, Writes(d), members' # members
      PROVE  members' = members \union Wanted[d] \/ tag[d] = {}
  <2>1. exists /\ tag[d] \subseteq {etag} /\ members' = seen[d] \union Wanted[d]
    BY <1>1, WritesOnly DEF WritePolicy, Applies
  <2>2. CASE tag[d] = {}
    BY <2>2
  <2>3. CASE tag[d] # {}
    BY <1>1, <2>1, <2>3 DEF PolicyInv, EtagTells
  <2> QED
    BY <2>2, <2>3
<1>2. PolicyInv /\ [PolicyNext]_policyVars =>
        [\A d \in Deployments :
           Writes(d) /\ members' # members =>
             members' = members \union Wanted[d] \/ tag[d] = {}]_policyVars
  BY <1>1
<1> QED
  BY <1>2, PolicyInvariant, PTL DEF PolicySpec, GrantsKept

(***************************************************************************)
(* All of them                                                             *)
(***************************************************************************)

\* A step of one component is a step of that component, and none of the others.
LEMMA EachTakesItsSteps ==
  ASSUME [Next]_vars
  PROVE  /\ [NegotiationNext]_negotiationVars
         /\ [ProbesNext]_probesVars
         /\ [SearchNext]_searchVars
         /\ [PolicyNext]_policyVars
         /\ [DialogueNext]_dialogueVars
         /\ [ConsoleNext]_consoleVars
BY DEF Next, vars, Connecting, Probing, Searching, Deploying, Resolving, Filling

\* A behaviour of all is a behaviour of each (five of which idle), so that what is
\* proved of each of them is proved of what the run checks.
THEOREM Composed ==
  Spec => /\ NegotiationSpec /\ ProbesSpec /\ SearchSpec
          /\ PolicySpec /\ DialogueSpec /\ ConsoleSpec
<1>1. Init => /\ NegotiationInit /\ ProbesInit /\ SearchInit
              /\ PolicyInit /\ DialogueInit /\ ConsoleInit
  BY DEF Init
<1>2. [Next]_vars => /\ [NegotiationNext]_negotiationVars /\ [ProbesNext]_probesVars
                     /\ [SearchNext]_searchVars /\ [PolicyNext]_policyVars
                     /\ [DialogueNext]_dialogueVars /\ [ConsoleNext]_consoleVars
  BY EachTakesItsSteps
<1> QED
  BY <1>1, <1>2, PTL
  DEF Spec, NegotiationSpec, ProbesSpec, SearchSpec, PolicySpec, DialogueSpec, ConsoleSpec

\* Whatever component runs, the state of all of them stays what it may be: no
\* step of one spoils another's bounds (the budgets of sdk_agent.py, the rounds
\* of discovery_engine.py).
THEOREM TypeCorrect == Spec => []TypeOK
<1>1. /\ NegotiationInv => NegotiationTypeOK
      /\ ProbesInv => ProbesTypeOK
      /\ SearchInv => SearchTypeOK
      /\ PolicyInv => PolicyTypeOK
      /\ ConsoleInv => ConsoleTypeOK
  BY DEF NegotiationInv, ProbesInv, SearchInv, PolicyInv, ConsoleInv
<1>2. NegotiationTypeOK /\ ProbesTypeOK /\ SearchTypeOK
        /\ PolicyTypeOK /\ DialogueTypeOK /\ ConsoleTypeOK => TypeOK
  BY DEF TypeOK
<1> QED
  BY <1>1, <1>2, Composed, NegotiationInvariant, ProbesInvariant, SearchInvariant,
     PolicyInvariant, DialogueTypeCorrect, ConsoleInvariant, PTL

\* What each component promises, the composition that the run checks promises
\* for any contracts, webs, policies, forms and bounds: no body is posted twice,
\* a finding is acceptable, the model comes last, grants are kept, a pasted
\* credential is lifted, and what is submitted was shown.
THEOREM PromisesKept ==
  Spec => /\ [](GivesUpRightly /\ AcceptedAsAsked)
          /\ [](VerifiedIsAcceptable /\ ProbesLeaveNothing /\ QuietMeansAccepted)
          /\ []SpecBeforeModel
          /\ GrantsKept
          /\ [](CredentialLifted /\ AnswersConverge)
          /\ []SubmittedAsTyped
<1> QED
  BY Composed, GivingUpIsRight, ConnectorsAreAsAsked, FindingsHold, NothingIsLeft, CanariesTell,
     ModelComesLast, GrantsAreKept, CredentialsAreLifted, AnswersAreTaken,
     SubmissionsAreHonest, PTL
=============================================================================
