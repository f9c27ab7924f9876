----------------------------- MODULE OAuthProxy -----------------------------
(***************************************************************************)
(* The OAuth proxy: an authorization server towards Gemini Enterprise and  *)
(* a client towards the real upstream.  /authorize opens a session and     *)
(* sends the user upstream, /callback trades the session for a one-time    *)
(* code, /token trades the code for the upstream's tokens.  Handlers run   *)
(* concurrently, in many instances over Firestore, or on one event loop    *)
(* over the in-memory store; every await is a point where others may run.  *)
(*                                                                         *)
(* A flow stands for the session /authorize opens, with the state, the     *)
(* PKCE verifier and the upstream code that belong to it; presenting f as  *)
(* a verifier matches the challenge of flow f and of no other.             *)
(***************************************************************************)
EXTENDS FiniteSets

CONSTANTS
  Clients,    \* synthetic clients provisioned for Gemini Enterprise
  Redirects,  \* redirect URIs: https, without a fragment
  Flows,      \* bound: sessions ever opened
  Codes,      \* bound: one-time codes ever issued
  Requests,   \* bound: requests served at the same time
  Backends    \* the stores the service may be started with

None == "None"

ASSUME NoneAssumption ==
  None \notin Clients \union Redirects \union Flows \union Codes
ASSUME BackendsAssumption == Backends \subseteq {"memory", "firestore"}

VARIABLES
  backend,   \* the store this deployment uses
  clients,   \* client documents: whether there is one, and what it pins
  flow,      \* what each session carries
  sessions,  \* session documents in the store
  issued,    \* what each code carries
  codes,     \* code documents in the store
  task,      \* the requests being served
  revoked,   \* history: clients deleted by a teardown
  answered,  \* history: codes for which a request has been answered
  posts      \* history: <<code, request>> of each upstream token request

vars == <<backend, clients, flow, sessions, issued, codes, task,
          revoked, answered, posts>>

Client  == [live : BOOLEAN, allowed : SUBSET Redirects, pin : BOOLEAN]
Session == [client : Clients \union {None}, redirect : Redirects \union {None},
            challenge : BOOLEAN]
Code    == [flow : Flows \union {None}, client : Clients \union {None},
            redirect : Redirects \union {None}, challenge : BOOLEAN]
Task ==
  [pc : {"idle", "pin", "session", "popSession", "putCode",
         "getCode", "popCode", "upstream"},
   client : Clients \union {None}, redirect : Redirects \union {None},
   flow : Flows \union {None}, code : Codes \union {None},
   verifier : Flows \union {None},
   late : BOOLEAN,     \* history: arrived after its client was revoked
   replay : BOOLEAN]   \* history: arrived after its code was answered

Fresh == [pc |-> "idle", client |-> None, redirect |-> None, flow |-> None,
          code |-> None, verifier |-> None, late |-> FALSE, replay |-> FALSE]

NoSession == [client |-> None, redirect |-> None, challenge |-> FALSE]
NoCode    == [flow |-> None, client |-> None, redirect |-> None, challenge |-> FALSE]

Init ==
  /\ backend \in Backends
  /\ clients = [c \in Clients |-> [live |-> TRUE, allowed |-> {}, pin |-> TRUE]]
  /\ flow = [f \in Flows |-> NoSession] /\ sessions = {}
  /\ issued = [k \in Codes |-> NoCode] /\ codes = {}
  /\ revoked = {} /\ answered = {} /\ posts = {}
  /\ task = [t \in Requests |-> Fresh]

-----------------------------------------------------------------------------
(***************************************************************************)
(* Scheduling.  The in-memory store never suspends the handler that calls  *)
(* it, so a handler gives way only where it waits for the upstream.        *)
(***************************************************************************)
GivesWay == {"idle", "upstream"}

Turn(t) ==
  backend = "memory" => \A u \in Requests \ {t} : task[u].pc \in GivesWay

Moves(t, to) == task' = [task EXCEPT ![t].pc = to]
Answers(t)   == task' = [task EXCEPT ![t] = Fresh]

docs == <<clients, flow, sessions, issued, codes>>

-----------------------------------------------------------------------------
(***************************************************************************)
(* GET /authorize.  An unknown client or a redirect that is not allowed    *)
(* is refused without an effect.                                           *)
(***************************************************************************)
\* Variant: a pinned client still accepts other redirects.
ValidUnpinned(c, r) == r \in c.allowed \/ c.pin \/ c.allowed # {}

ValidRedirect(c, r) == r \in c.allowed \/ (c.allowed = {} /\ c.pin)

MustPin(c) == c.pin /\ c.allowed = {}

Authorize(t) ==
  /\ task[t].pc = "idle" /\ Turn(t)
  /\ \E c \in Clients, r \in Redirects :
       /\ clients[c].live
       /\ ValidRedirect(clients[c], r)
       /\ task' = [task EXCEPT ![t] =
            [Fresh EXCEPT !.pc = IF MustPin(clients[c]) THEN "pin" ELSE "session",
                          !.client = c, !.redirect = r,
                          !.late = c \in revoked]]
  /\ UNCHANGED <<docs, backend, revoked, answered, posts>>

\* Variant: the list of redirects is wrapped in a list again.
PinnedBare(r) == [live |-> TRUE, allowed |-> {{r}}, pin |-> FALSE]

\* put_client writes the whole document as it was read, with the pin.
Pinned(r) == [live |-> TRUE, allowed |-> {r}, pin |-> FALSE]

PinRedirect(t) ==
  /\ task[t].pc = "pin" /\ Turn(t)
  /\ clients' = [clients EXCEPT ![task[t].client] = Pinned(task[t].redirect)]
  /\ Moves(t, "session")
  /\ UNCHANGED <<flow, sessions, issued, codes>>
  /\ UNCHANGED <<backend, revoked, answered, posts>>

\* The session is stored and the user sent upstream.
PutSession(t) ==
  /\ task[t].pc = "session" /\ Turn(t)
  /\ \E f \in Flows, challenge \in BOOLEAN :
       /\ flow[f] = NoSession
       /\ flow' = [flow EXCEPT ![f] =
            [client |-> task[t].client, redirect |-> task[t].redirect,
             challenge |-> challenge]]
       /\ sessions' = sessions \union {f}
  /\ Answers(t)
  /\ UNCHANGED <<clients, issued, codes>>
  /\ UNCHANGED <<backend, revoked, answered, posts>>

\* A response_type other than code is refused only after the redirect was pinned.
RefuseType(t) ==
  /\ task[t].pc = "session" /\ Turn(t)
  /\ Answers(t)
  /\ UNCHANGED <<docs, backend, revoked, answered, posts>>

-----------------------------------------------------------------------------
(***************************************************************************)
(* GET /callback.  The browser may come back more than once.               *)
(***************************************************************************)
Callback(t) ==
  /\ task[t].pc = "idle" /\ Turn(t)
  /\ \E f \in sessions :
       task' = [task EXCEPT ![t] = [Fresh EXCEPT !.pc = "popSession", !.flow = f]]
  /\ UNCHANGED <<docs, backend, revoked, answered, posts>>

\* Variant: the session survives the return.
SessionKept(f) == sessions

SessionGone(f) == sessions \ {f}

\* Expired or refused upstream, or the upstream's code is there.
PopSession(t) ==
  /\ task[t].pc = "popSession" /\ Turn(t)
  /\ sessions' = SessionGone(task[t].flow)
  /\ \/ Answers(t)
     \/ Moves(t, "putCode")
  /\ UNCHANGED <<clients, flow, issued, codes>>
  /\ UNCHANGED <<backend, revoked, answered, posts>>

PutCode(t) ==
  /\ task[t].pc = "putCode" /\ Turn(t)
  /\ \E k \in Codes :
       /\ issued[k] = NoCode
       /\ issued' = [issued EXCEPT ![k] =
            [flow |-> task[t].flow, client |-> flow[task[t].flow].client,
             redirect |-> flow[task[t].flow].redirect,
             challenge |-> flow[task[t].flow].challenge]]
       /\ codes' = codes \union {k}
  /\ Answers(t)
  /\ UNCHANGED <<clients, flow, sessions>>
  /\ UNCHANGED <<backend, revoked, answered, posts>>

-----------------------------------------------------------------------------
(***************************************************************************)
(* POST /token.  The client authenticates first; then any presentation of  *)
(* a code spends it, and only then is it looked at.                        *)
(***************************************************************************)
\* Variant: a client that was once known stays known.
KnownOnce(c) == TRUE

Known(c) == clients[c].live

Token(t) ==
  /\ task[t].pc = "idle" /\ Turn(t)
  /\ \E c \in Clients, k \in {x \in Codes : issued[x] # NoCode} :
       /\ Known(c)
       /\ task' = [task EXCEPT ![t] =
            [Fresh EXCEPT !.pc = "getCode", !.client = c, !.code = k,
                          !.late = c \in revoked, !.replay = k \in answered]]
  /\ UNCHANGED <<docs, backend, revoked, answered, posts>>

RefreshToken(t) ==
  /\ task[t].pc = "idle" /\ Turn(t)
  /\ \E c \in Clients :
       /\ Known(c)
       /\ task' = [task EXCEPT ![t] =
            [Fresh EXCEPT !.pc = "upstream", !.client = c, !.late = c \in revoked]]
  /\ UNCHANGED <<docs, backend, revoked, answered, posts>>

GetCode(t) ==
  /\ task[t].pc = "getCode" /\ Turn(t)
  /\ IF task[t].code \in codes
     THEN Moves(t, "popCode") /\ UNCHANGED answered
     ELSE Answers(t) /\ answered' = answered \union {task[t].code}
  /\ UNCHANGED <<docs, backend, revoked, posts>>

\* Variant: whoever authenticates may redeem.
AcceptsAnyone(k, c, r, v) ==
  /\ r \in {None, k.redirect}
  /\ k.challenge => v = k.flow

\* What client c has to show for code k: the redirect and the verifier.
Accepts(k, c, r, v) ==
  /\ k.client = c
  /\ r \in {None, k.redirect}
  /\ k.challenge => v = k.flow

\* Variant: a code is deleted only for its owner.
SpentIfOwned(k, c) == IF issued[k].client = c THEN codes \ {k} ELSE codes

Spent(k, c) == codes \ {k}

\* The request's redirect and verifier are first looked at here, and so is the
\* code's age.
PopCode(t) ==
  /\ task[t].pc = "popCode" /\ Turn(t)
  /\ codes' = Spent(task[t].code, task[t].client)
  /\ \E expired \in BOOLEAN, r \in Redirects \union {None}, v \in Flows \union {None} :
       IF ~expired /\ Accepts(issued[task[t].code], task[t].client, r, v)
       THEN /\ task' = [task EXCEPT ![t].pc = "upstream",
                                    ![t].redirect = r, ![t].verifier = v]
            /\ UNCHANGED answered
       ELSE Answers(t) /\ answered' = answered \union {task[t].code}
  /\ UNCHANGED <<clients, flow, sessions, issued>>
  /\ UNCHANGED <<backend, revoked, posts>>

\* The upstream is asked once; whatever it says, or does not, is the answer.
Exchange(t) ==
  /\ task[t].pc = "upstream" /\ Turn(t)
  /\ IF task[t].code = None
     THEN UNCHANGED <<answered, posts>>
     ELSE /\ posts' = posts \union {<<task[t].code, t>>}
          /\ answered' = answered \union {task[t].code}
  /\ Answers(t)
  /\ UNCHANGED <<docs, backend, revoked>>

\* A call to Firestore that raises ends the request with an error: what it had
\* taken from the store is gone with it, a code it did not delete is still there.
\* (A write or a delete that took effect before it raised leaves what PopSession,
\* PopCode and the others leave.)
StoreFails(t) ==
  /\ backend = "firestore"
  /\ task[t].pc \in {"pin", "session", "popSession", "putCode", "getCode", "popCode"}
  /\ Answers(t)
  /\ UNCHANGED <<docs, backend, revoked, answered, posts>>

-----------------------------------------------------------------------------
(***************************************************************************)
(* The teardown's delete_client.                                           *)
(***************************************************************************)
Revoke(c) ==
  /\ clients[c].live
  /\ backend = "memory" => \A t \in Requests : task[t].pc \in GivesWay
  /\ clients' = [clients EXCEPT ![c].live = FALSE]
  /\ revoked' = revoked \union {c}
  /\ UNCHANGED <<flow, sessions, issued, codes>>
  /\ UNCHANGED <<backend, task, answered, posts>>

Serve(t) ==
  \/ Authorize(t) \/ PinRedirect(t) \/ PutSession(t) \/ RefuseType(t)
  \/ Callback(t) \/ PopSession(t) \/ PutCode(t)
  \/ Token(t) \/ RefreshToken(t) \/ GetCode(t) \/ PopCode(t) \/ Exchange(t)
  \/ StoreFails(t)

Next ==
  \/ \E t \in Requests : Serve(t)
  \/ \E c \in Clients : Revoke(c)

Spec == Init /\ [][Next]_vars

-----------------------------------------------------------------------------
(***************************************************************************)
(* Properties.                                                             *)
(***************************************************************************)
\* The variables hold what their declarations say.
TypeOK ==
  /\ backend \in {"memory", "firestore"}
  /\ clients \in [Clients -> Client]
  /\ flow \in [Flows -> Session] /\ sessions \subseteq Flows
  /\ issued \in [Codes -> Code] /\ codes \subseteq Codes
  /\ task \in [Requests -> Task]
  /\ revoked \subseteq Clients /\ answered \subseteq Codes
  /\ posts \subseteq Codes \X Requests

\* "Any presentation of a code spends it, including one by the wrong client"
\* (proxy.py token): a code someone was answered about is not in the store, on
\* either backend and whoever presented it.  (Where Firestore raised, the request
\* ended with an error and says nothing of the code, which may be there still.)
PresentedIsSpent == answered \intersect codes = {}

\* A code presented again, after a request with it was answered, never reaches
\* the upstream: what the deletion on read is for, on either backend.
ReplayRefused ==
  \A t \in Requests : task[t].pc = "upstream" => ~task[t].replay

\* The request is served by what its own client's flow holds.
Entitled(p) ==
  p.pc = "upstream" /\ p.code # None =>
    LET f == issued[p.code].flow
    IN  /\ f # None /\ f \notin sessions
        /\ flow[f].client = p.client
        /\ p.redirect \in {None, flow[f].redirect}
        /\ flow[f].challenge => p.verifier = f

\* The tokens a request obtains are those of a flow its own client began, and
\* it proved that flow's verifier if the flow had a challenge: the session, the
\* code and the request agree although none of them refers to the others.
LegsMatch == \A t \in Requests : Entitled(task[t])

\* What each document and each request in service knows of the flow it serves:
\* a code is a copy of its session, and outlives it.
Copied(k) ==
  issued[k] # NoCode =>
    LET f == issued[k].flow
    IN  /\ f # None /\ f \notin sessions /\ flow[f] # NoSession
        /\ issued[k].client = flow[f].client
        /\ issued[k].redirect = flow[f].redirect
        /\ issued[k].challenge = flow[f].challenge

CopiesSession == \A k \in Codes : Copied(k)

Exists ==
  /\ \A k \in codes \union answered : issued[k] # NoCode
  /\ \A f \in sessions : flow[f] # NoSession

Serving(p) ==
  /\ p.pc \in {"pin", "session"} => p.client # None /\ p.redirect # None
  /\ p.pc \in {"popSession", "putCode"} => p.flow # None /\ flow[p.flow] # NoSession
  /\ p.pc = "putCode" => p.flow \notin sessions
  /\ p.pc \in {"getCode", "popCode"} => p.code # None /\ p.client # None
  /\ p.code # None => issued[p.code] # NoCode
  /\ p.replay => p.code \in answered
  /\ p.pc \in {"popCode", "upstream"} => ~p.replay
  /\ p.pc = "upstream" /\ p.code # None => p.code \notin codes

\* PresentedIsSpent, ReplayRefused and LegsMatch made inductive.
RedemptionInv ==
  /\ CopiesSession /\ Exists
  /\ \A t \in Requests : Serving(task[t])
  /\ PresentedIsSpent /\ LegsMatch

\* The redirect pinned on first use is the only one a client's sessions return
\* to.  It takes the in-memory store: over Firestore two first uses may both find
\* the client unpinned.
PinHolds ==
  backend = "memory" =>
    \A f \in sessions :
      clients[flow[f].client].allowed = {flow[f].redirect}

\* A client deleted by a teardown serves nobody who comes after: it neither
\* opens a session nor reaches the upstream.  Over Firestore an /authorize that
\* read it before the deletion writes it back.
RevokedIsInert ==
  backend = "memory" =>
    /\ \A c \in revoked : ~clients[c].live
    /\ \A t \in Requests : task[t].pc # "idle" => ~task[t].late

\* The flows a request still carries.
InHand(f) ==
  \E t \in Requests :
    \/ task[t].pc \in {"popSession", "putCode"} /\ task[t].flow = f
    \/ /\ task[t].pc \in {"popCode", "upstream"} /\ task[t].code # None
       /\ issued[task[t].code].flow = f

Promise == INSTANCE Grants
  WITH asked <- {f \in Flows : flow[f] # NoSession},
       open <- {f \in Flows : f \in sessions \/ InHand(f)
                                \/ \E k \in codes : issued[k].flow = f},
       redeemed <- {issued[p[1]].flow : p \in posts},
       serial <- (backend = "memory")

\* Each authorization lives once: asked for, redeemed before it lapses, and with
\* the in-memory store at most once.
ImplementsGrants == Promise!Spec
=============================================================================
