------------------------------ MODULE Console ------------------------------
(***************************************************************************)
(* The form of the console (static/app.js) and the control plane it talks  *)
(* to.  The form is resolved while it is filled in, and Create submits the *)
(* request of the latest plan.  Calls are answered in any order, or fail.  *)
(*                                                                         *)
(* A form is a value; what a plan says is reduced to the form it is for,   *)
(* and whether it has a request and what is missing.                       *)
(***************************************************************************)
EXTENDS Naturals, FiniteSets

CONSTANTS
  Entries,        \* what may stand in the form
  Wiped,          \* a form without the credentials in its advanced fields
  Calls,          \* bound on the calls of doResolve
  Creations       \* bound on the runs created

Empty == "empty"

ASSUME ConsoleAssumption ==
  /\ Empty \notin Entries
  /\ Wiped \in [Entries -> Entries]
  /\ Calls \in Nat /\ Creations \in Nat

VARIABLES
  typed,        \* what stands in the form
  sent,         \* resolveSeq
  flying,       \* the resolutions that are not answered
  shown,        \* the plan, if there is one
  newest,       \* history: the last form that was resolved and shown, by number
  posting,      \* the creation that is not answered, if any (the button is disabled)
  created       \* the runs created

consoleVars == <<typed, sent, flying, shown, newest, posting, created>>

\* clicked: the call belongs to a Create, which goes on when it returns.
Flight == [seq : Nat, form : Entries, clicked : BOOLEAN]

Plans == [seq : Nat, form : Entries, says : {"request", "missing", "nothing"}]

\* What is submitted: the plan's form and number; and, as history, the number
\* of the call that Create made, how that went, and what was the newest answer.
Submission ==
  [form : Entries, seq : Nat, clicked : Nat, newest : Nat, went : {"well", "failed", "overtaken"}]

ConsoleTypeOK ==
  /\ typed \in Entries \union {Empty}
  /\ sent \in Nat /\ newest \in Nat
  /\ flying \subseteq Flight
  /\ shown \subseteq Plans /\ Cardinality(shown) <= 1
  /\ posting \subseteq Submission
  /\ created \subseteq Submission

ConsoleInit ==
  /\ typed = Empty
  /\ sent = 0 /\ newest = 0
  /\ flying = {} /\ shown = {} /\ posting = {} /\ created = {}

Type(form) ==
  /\ sent < Calls
  /\ typed' = form
  /\ UNCHANGED <<sent, flying, shown, newest, posting, created>>

\* doResolve: an empty form has no plan, any other is sent with the next number.
DoResolve(clicked) ==
  IF typed = Empty
  THEN shown' = {} /\ UNCHANGED <<sent, flying>>
  ELSE /\ sent' = sent + 1
       /\ flying' = flying \union {[seq |-> sent + 1, form |-> typed, clicked |-> clicked]}
       /\ UNCHANGED shown

\* A field is left, or the typing pauses.
Analyse ==
  /\ sent < Calls
  /\ DoResolve(FALSE)
  /\ UNCHANGED <<typed, newest, posting, created>>

\* Create settles the resolution before it goes on; on an empty form it stops.
SubmitCreate ==
  /\ sent < Calls /\ posting = {}
  /\ DoResolve(TRUE)
  /\ UNCHANGED <<typed, newest, posting, created>>

\* submitCreate goes on with the plan there is: without a request it stops,
\* with something missing it asks; otherwise the plan's request is posted.
GoesOn(call, plan, went, last) ==
  IF ~call.clicked \/ plan = {} THEN UNCHANGED posting
  ELSE \E p \in plan :
    \/ p.says # "request" /\ UNCHANGED posting
    \/ /\ p.says # "nothing"
       /\ posting' = posting \union {[form |-> p.form, seq |-> p.seq, clicked |-> call.seq,
                                      newest |-> last, went |-> went]}

\* Every answer taken for the latest.
NeverSuperseded(call) == FALSE

\* A newer call has been made.
Superseded(call) == call.seq # sent

\* An answer that is superseded is dropped, but a Create that waits for it goes on.
AnswerArrives(call) ==
  /\ flying' = flying \ {call}
  /\ IF Superseded(call)
     THEN UNCHANGED <<shown, newest>> /\ GoesOn(call, shown, "overtaken", newest)
     ELSE \E says \in {"request", "missing", "nothing"} :
            /\ shown' = {[seq |-> call.seq, form |-> call.form, says |-> says]}
            /\ newest' = IF call.seq > newest THEN call.seq ELSE newest
            /\ GoesOn(call, shown', "well", newest')
  /\ UNCHANGED <<typed, sent, created>>

\* A call that fails shows an error and leaves the plan, and a Create that
\* waits for it goes on.
ResolveFails(call) ==
  /\ flying' = flying \ {call}
  /\ GoesOn(call, shown, IF Superseded(call) THEN "overtaken" ELSE "failed", newest)
  /\ UNCHANGED <<typed, sent, shown, newest, created>>

\* The run is accepted, and the credentials are wiped from the form; or it is
\* refused, or the answer is lost.
Created(s) ==
  /\ posting' = posting \ {s}
  /\ \/ /\ Cardinality(created) < Creations
        /\ created' = created \union {s}
        /\ typed' = IF typed = Empty THEN Empty ELSE Wiped[typed]
     \/ UNCHANGED <<created, typed>>
  /\ UNCHANGED <<sent, flying, shown, newest>>

ConsoleStep ==
  \/ \E call \in flying : AnswerArrives(call) \/ ResolveFails(call)
  \/ \E s \in posting : Created(s)

ConsoleNext ==
  \/ \E form \in Entries \union {Empty} : Type(form)
  \/ Analyse \/ SubmitCreate \/ ConsoleStep

ConsoleSpec == ConsoleInit /\ [][ConsoleNext]_consoleVars

(***************************************************************************)
(* Properties                                                              *)
(***************************************************************************)

\* What is created is the newest plan that was shown, and one that was made of
\* the form as it stood at the click or later.  Except when the resolution that
\* Create waits for fails or is overtaken: then an older plan is submitted, of a
\* form that is no longer the one on the screen (submitCreate, doResolve).
SubmittedAsTyped ==
  \A s \in created :
    /\ s.seq = s.newest
    /\ s.went = "well" => s.seq >= s.clicked
=============================================================================
