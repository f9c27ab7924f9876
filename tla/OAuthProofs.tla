----------------------------- MODULE OAuthProofs -----------------------------
(***************************************************************************)
(* What the OAuth proxy guarantees for any number of clients, flows, codes *)
(* and requests served at once, over either store.                         *)
(***************************************************************************)
EXTENDS MCOAuth, TLAPS

\* What the requests in service know of the flows they carry.
AllServing == \A t \in Requests : Serving(task[t])

\* Documents only ever appear once: what is known of a session or a code stays
\* true of it, and one that was deleted does not come back.
Grows ==
  /\ \A f \in Flows : flow[f] # NoSession =>
       flow'[f] = flow[f] /\ (f \in sessions' => f \in sessions)
  /\ \A k \in Codes : issued[k] # NoCode =>
       issued'[k] = issued[k] /\ (k \in codes' => k \in codes)
  /\ answered \subseteq answered'

-----------------------------------------------------------------------------
\* The record of a request that was answered, and of one that moved on.
LEMMA TaskMoves ==
  ASSUME TypeOK, NEW t \in Requests
  PROVE  /\ Fresh \in Task
         /\ \A to \in {"session", "putCode", "popCode"} :
              Moves(t, to) => task' \in [Requests -> Task]
         /\ Answers(t) => task' \in [Requests -> Task]
<1>1. Fresh \in Task
  BY DEF Fresh, Task
<1>2. ASSUME NEW to \in {"session", "putCode", "popCode"}, Moves(t, to)
      PROVE  task' \in [Requests -> Task]
  <2>1. [task[t] EXCEPT !.pc = to] \in Task
    BY DEF TypeOK, Task
  <2>2. task' = [task EXCEPT ![t] = [task[t] EXCEPT !.pc = to]]
    BY <1>2 DEF Moves, TypeOK
  <2> QED
    BY <2>1, <2>2 DEF TypeOK
<1>3. Answers(t) => task' \in [Requests -> Task]
  BY <1>1 DEF Answers, TypeOK
<1> QED
  BY <1>1, <1>2, <1>3

\* The initial state is well typed.
LEMMA InitType == Init => TypeOK
<1> SUFFICES ASSUME Init PROVE TypeOK
  OBVIOUS
<1>1. Fresh \in Task /\ NoSession \in Session /\ NoCode \in Code
  BY DEF Fresh, Task, NoSession, Session, NoCode, Code
<1>2. [live |-> TRUE, allowed |-> {}, pin |-> TRUE] \in Client
  BY DEF Client
<1> QED
  BY <1>1, <1>2, BackendsAssumption DEF Init, TypeOK

\* Every step keeps the types, given that a request that is being served has
\* read what its next step writes.
LEMMA StepType == TypeOK /\ AllServing /\ [Next]_vars => TypeOK'
<1> SUFFICES ASSUME TypeOK, AllServing, [Next]_vars PROVE TypeOK'
  OBVIOUS
<1> USE DEF TypeOK, docs
<1>1. ASSUME NEW t \in Requests, Authorize(t) PROVE TypeOK'
  <2>1. PICK c \in Clients, r \in Redirects :
          task' = [task EXCEPT ![t] =
            [Fresh EXCEPT !.pc = IF MustPin(clients[c]) THEN "pin" ELSE "session",
                          !.client = c, !.redirect = r, !.late = c \in revoked]]
    BY <1>1 DEF Authorize
  <2>2. [Fresh EXCEPT !.pc = IF MustPin(clients[c]) THEN "pin" ELSE "session",
                      !.client = c, !.redirect = r, !.late = c \in revoked] \in Task
    <3> DEFINE late == c \in revoked
    <3>1. late \in BOOLEAN
      OBVIOUS
    <3> HIDE DEF late
    <3>2. [Fresh EXCEPT !.pc = IF MustPin(clients[c]) THEN "pin" ELSE "session",
                        !.client = c, !.redirect = r, !.late = late] \in Task
      BY <3>1 DEF Fresh, Task
    <3> QED
      BY <3>2 DEF late
  <2> QED
    BY <1>1, <2>1, <2>2 DEF Authorize
<1>2. ASSUME NEW t \in Requests, PinRedirect(t) PROVE TypeOK'
  <2>1. task' \in [Requests -> Task]
    BY <1>2, TaskMoves DEF PinRedirect
  <2>2. task[t].redirect \in Redirects
    BY <1>2 DEF PinRedirect, AllServing, Serving, Task
  <2>3. Pinned(task[t].redirect) \in Client
    BY <2>2 DEF Pinned, Client
  <2> QED
    BY <1>2, <2>1, <2>3 DEF PinRedirect
<1>3. ASSUME NEW t \in Requests, PutSession(t) PROVE TypeOK'
  <2>1. task' \in [Requests -> Task]
    BY <1>3, TaskMoves DEF PutSession
  <2>2. PICK f \in Flows, challenge \in BOOLEAN :
          /\ flow' = [flow EXCEPT ![f] =
               [client |-> task[t].client, redirect |-> task[t].redirect,
                challenge |-> challenge]]
          /\ sessions' = sessions \union {f}
    BY <1>3 DEF PutSession
  <2>3. [client |-> task[t].client, redirect |-> task[t].redirect,
         challenge |-> challenge] \in Session
    BY DEF Task, Session
  <2> QED
    BY <1>3, <2>1, <2>2, <2>3 DEF PutSession
<1>4. ASSUME NEW t \in Requests, RefuseType(t) PROVE TypeOK'
  BY <1>4, TaskMoves DEF RefuseType
<1>5. ASSUME NEW t \in Requests, Callback(t) PROVE TypeOK'
  <2>1. PICK f \in sessions :
          task' = [task EXCEPT ![t] = [Fresh EXCEPT !.pc = "popSession", !.flow = f]]
    BY <1>5 DEF Callback
  <2>2. [Fresh EXCEPT !.pc = "popSession", !.flow = f] \in Task
    BY DEF Fresh, Task
  <2> QED
    BY <1>5, <2>1, <2>2 DEF Callback
<1>6. ASSUME NEW t \in Requests, PopSession(t) PROVE TypeOK'
  BY <1>6, TaskMoves DEF PopSession, SessionGone
<1>7. ASSUME NEW t \in Requests, PutCode(t) PROVE TypeOK'
  <2>1. task' \in [Requests -> Task]
    BY <1>7, TaskMoves DEF PutCode
  <2>2. PICK k \in Codes :
          /\ issued' = [issued EXCEPT ![k] =
               [flow |-> task[t].flow, client |-> flow[task[t].flow].client,
                redirect |-> flow[task[t].flow].redirect,
                challenge |-> flow[task[t].flow].challenge]]
          /\ codes' = codes \union {k}
    BY <1>7 DEF PutCode
  <2>3. task[t].flow \in Flows
    BY <1>7 DEF PutCode, AllServing, Serving, Task
  <2>4. [flow |-> task[t].flow, client |-> flow[task[t].flow].client,
         redirect |-> flow[task[t].flow].redirect,
         challenge |-> flow[task[t].flow].challenge] \in Code
    BY <2>3 DEF Session, Code
  <2> QED
    BY <1>7, <2>1, <2>2, <2>4 DEF PutCode
<1>8. ASSUME NEW t \in Requests, Token(t) PROVE TypeOK'
  <2>1. PICK c \in Clients, k \in Codes :
          task' = [task EXCEPT ![t] =
            [Fresh EXCEPT !.pc = "getCode", !.client = c, !.code = k,
                          !.late = c \in revoked, !.replay = k \in answered]]
    BY <1>8 DEF Token
  <2>2. [Fresh EXCEPT !.pc = "getCode", !.client = c, !.code = k,
                      !.late = c \in revoked, !.replay = k \in answered] \in Task
    <3> DEFINE late == c \in revoked
               replay == k \in answered
    <3>1. late \in BOOLEAN /\ replay \in BOOLEAN
      OBVIOUS
    <3> HIDE DEF late, replay
    <3>2. [Fresh EXCEPT !.pc = "getCode", !.client = c, !.code = k,
                        !.late = late, !.replay = replay] \in Task
      BY <3>1 DEF Fresh, Task
    <3> QED
      BY <3>2 DEF late, replay
  <2> QED
    BY <1>8, <2>1, <2>2 DEF Token
<1>9. ASSUME NEW t \in Requests, RefreshToken(t) PROVE TypeOK'
  <2>1. PICK c \in Clients :
          task' = [task EXCEPT ![t] =
            [Fresh EXCEPT !.pc = "upstream", !.client = c, !.late = c \in revoked]]
    BY <1>9 DEF RefreshToken
  <2>2. [Fresh EXCEPT !.pc = "upstream", !.client = c, !.late = c \in revoked] \in Task
    <3> DEFINE late == c \in revoked
    <3>1. late \in BOOLEAN
      OBVIOUS
    <3> HIDE DEF late
    <3>2. [Fresh EXCEPT !.pc = "upstream", !.client = c, !.late = late] \in Task
      BY <3>1 DEF Fresh, Task
    <3> QED
      BY <3>2 DEF late
  <2> QED
    BY <1>9, <2>1, <2>2 DEF RefreshToken
<1>10. ASSUME NEW t \in Requests, GetCode(t) PROVE TypeOK'
  <2>1. task[t].code \in Codes
    BY <1>10 DEF GetCode, AllServing, Serving, Task
  <2>2. task' \in [Requests -> Task]
    BY <1>10, TaskMoves DEF GetCode
  <2> QED
    BY <1>10, <2>1, <2>2 DEF GetCode
<1>11. ASSUME NEW t \in Requests, PopCode(t) PROVE TypeOK'
  <2>1. task[t].code \in Codes
    BY <1>11 DEF PopCode, AllServing, Serving, Task
  <2>2. ASSUME NEW r \in Redirects \union {None}, NEW v \in Flows \union {None},
               task' = [task EXCEPT ![t].pc = "upstream",
                                    ![t].redirect = r, ![t].verifier = v]
        PROVE  task' \in [Requests -> Task]
    <3>1. [task[t] EXCEPT !.pc = "upstream", !.redirect = r, !.verifier = v] \in Task
      BY DEF Task
    <3>2. task' = [task EXCEPT ![t] =
            [task[t] EXCEPT !.pc = "upstream", !.redirect = r, !.verifier = v]]
      BY <2>2
    <3> QED
      BY <3>1, <3>2
  <2>3. task' \in [Requests -> Task] /\ answered' \subseteq Codes
    BY <1>11, <2>1, <2>2, TaskMoves DEF PopCode
  <2> QED
    BY <1>11, <2>3 DEF PopCode, Spent
<1>12. ASSUME NEW t \in Requests, Exchange(t) PROVE TypeOK'
  <2>1. task[t].code \in Codes \union {None}
    BY DEF Task
  <2>2. posts' \subseteq Codes \X Requests /\ answered' \subseteq Codes
    BY <1>12, <2>1 DEF Exchange
  <2> QED
    BY <1>12, <2>2, TaskMoves DEF Exchange
<1>13. ASSUME NEW c \in Clients, Revoke(c) PROVE TypeOK'
  <2>1. [clients[c] EXCEPT !.live = FALSE] \in Client
    BY DEF Client
  <2>2. clients' = [clients EXCEPT ![c] = [clients[c] EXCEPT !.live = FALSE]]
    BY <1>13 DEF Revoke
  <2> QED
    BY <1>13, <2>1, <2>2 DEF Revoke
<1>14. ASSUME NEW t \in Requests, StoreFails(t) PROVE TypeOK'
  BY <1>14, TaskMoves DEF StoreFails, docs
<1>15. CASE UNCHANGED vars
  BY <1>15 DEF vars
<1> QED
  BY <1>1, <1>2, <1>3, <1>4, <1>5, <1>6, <1>7, <1>8, <1>9, <1>10, <1>11,
     <1>12, <1>13, <1>14, <1>15 DEF Next, Serve

-----------------------------------------------------------------------------
\* No step rewrites a session or a code that exists, or brings back a deleted one.
LEMMA StepGrows == TypeOK /\ [Next]_vars => Grows
<1> SUFFICES ASSUME TypeOK, [Next]_vars PROVE Grows
  OBVIOUS
<1> USE DEF Grows, TypeOK
<1>1. ASSUME UNCHANGED docs, answered \subseteq answered' PROVE Grows
  BY <1>1 DEF docs
<1>2. ASSUME NEW t \in Requests, PutSession(t) PROVE Grows
  BY <1>2 DEF PutSession
<1>3. ASSUME NEW t \in Requests, PutCode(t) PROVE Grows
  BY <1>3 DEF PutCode
<1>4. ASSUME NEW t \in Requests,
             Authorize(t) \/ RefuseType(t) \/ Callback(t) \/ Token(t) \/ RefreshToken(t)
               \/ GetCode(t) \/ Exchange(t) \/ StoreFails(t)
      PROVE  Grows
  BY <1>4, <1>1 DEF Authorize, RefuseType, StoreFails, Callback, Token, RefreshToken, GetCode, Exchange
<1>5. ASSUME NEW t \in Requests, PinRedirect(t) \/ PopSession(t) \/ PopCode(t) PROVE Grows
  BY <1>5 DEF PinRedirect, PopSession, SessionGone, PopCode, Spent
<1>6. ASSUME NEW c \in Clients, Revoke(c) PROVE Grows
  BY <1>6 DEF Revoke
<1>7. CASE UNCHANGED vars
  BY <1>7 DEF vars
<1> QED
  BY <1>2, <1>3, <1>4, <1>5, <1>6, <1>7 DEF Next, Serve

\* What was known of a code is known of it after a step.
LEMMA CopyKeeps ==
  ASSUME TypeOK, Grows, NEW k \in Codes, issued[k] # NoCode, Copied(k)
  PROVE  Copied(k)'
<1>1. issued'[k] = issued[k]
  BY DEF Grows
<1> DEFINE f == issued[k].flow
<1>2. f \in Flows /\ flow[f] # NoSession /\ f \notin sessions
  BY DEF Copied, TypeOK, Code
<1>3. flow'[f] = flow[f] /\ f \notin sessions'
  BY <1>2 DEF Grows
<1> QED
  BY <1>1, <1>2, <1>3 DEF Copied

\* A request another one does not touch keeps its standing.
LEMMA OthersKeep ==
  ASSUME TypeOK, Grows, RedemptionInv, NEW u \in Requests, task'[u] = task[u]
  PROVE  Serving(task[u])' /\ Entitled(task[u])'
<1> DEFINE p == task[u]
<1>1. p \in Task /\ Serving(p) /\ Entitled(p)
  BY DEF TypeOK, RedemptionInv, LegsMatch
<1>2. Serving(task[u])'
  <2>1. ASSUME p.flow # None, flow[p.flow] # NoSession
        PROVE  flow'[p.flow] = flow[p.flow] /\ (p.flow \in sessions' => p.flow \in sessions)
    BY <1>1, <2>1 DEF Grows, Task
  <2>2. ASSUME p.code # None
        PROVE  issued'[p.code] # NoCode /\ (p.code \in codes' => p.code \in codes)
    BY <1>1, <2>2 DEF Grows, Task, Serving
  <2>3. p.code \in answered => p.code \in answered'
    BY DEF Grows
  <2> QED
    BY <1>1, <2>1, <2>2, <2>3 DEF Serving
<1>3. Entitled(task[u])'
  <2> SUFFICES ASSUME p.pc = "upstream", p.code # None PROVE Entitled(task[u])'
    BY DEF Entitled
  <2>1. p.code \in Codes /\ issued[p.code] # NoCode /\ Copied(p.code)
    BY <1>1 DEF Serving, Task, RedemptionInv, CopiesSession
  <2>2. issued'[p.code] = issued[p.code]
    BY <2>1 DEF Grows
  <2> DEFINE f == issued[p.code].flow
  <2>3. f \in Flows /\ flow[f] # NoSession /\ f \notin sessions
    BY <2>1 DEF Copied, TypeOK, Code
  <2>4. flow'[f] = flow[f] /\ f \notin sessions'
    BY <2>3 DEF Grows
  <2> QED
    BY <1>1, <2>2, <2>3, <2>4 DEF Entitled
<1> QED
  BY <1>2, <1>3

\* An idle request has no standing to lose.
LEMMA FreshServes ==
  ASSUME NEW u \in Requests, task'[u] = Fresh
  PROVE  Serving(task[u])' /\ Entitled(task[u])'
BY DEF Fresh, Serving, Entitled

LEMMA InitRedemption == Init => RedemptionInv
<1> SUFFICES ASSUME Init PROVE RedemptionInv
  OBVIOUS
<1>1. CopiesSession /\ Exists /\ PresentedIsSpent
  BY DEF Init, CopiesSession, Copied, Exists, PresentedIsSpent
<1>2. \A t \in Requests : Serving(task[t]) /\ Entitled(task[t])
  BY DEF Init, Fresh, Serving, Entitled
<1> QED
  BY <1>1, <1>2 DEF RedemptionInv, LegsMatch

\* It suffices to look at the request that moved, and at what it wrote.
LEMMA OneMoves ==
  ASSUME TypeOK, Grows, RedemptionInv, NEW t \in Requests,
         \A u \in Requests \ {t} : task'[u] = task[u],
         Serving(task[t])', Entitled(task[t])', Exists', PresentedIsSpent',
         \A k \in Codes : issued[k] = NoCode => Copied(k)'
  PROVE  RedemptionInv'
<1>1. \A u \in Requests : Serving(task[u])' /\ Entitled(task[u])'
  <2> SUFFICES ASSUME NEW u \in Requests, u # t
               PROVE  Serving(task[u])' /\ Entitled(task[u])'
    OBVIOUS
  <2> QED
    BY OthersKeep
<1>2. CopiesSession'
  <2> SUFFICES ASSUME NEW k \in Codes, issued[k] # NoCode PROVE Copied(k)'
    BY DEF CopiesSession
  <2> QED
    BY CopyKeeps DEF RedemptionInv, CopiesSession
<1> QED
  BY <1>1, <1>2 DEF RedemptionInv, LegsMatch

\* When the documents do not change, what exists exists and what is unknown is.
LEMMA SameDocs ==
  ASSUME RedemptionInv, UNCHANGED docs
  PROVE  /\ answered' = answered => Exists' /\ PresentedIsSpent'
         /\ \A k \in Codes : issued[k] = NoCode => Copied(k)'
BY DEF RedemptionInv, docs, Exists, PresentedIsSpent, Copied

\* RedemptionInv is inductive.
LEMMA StepRedemption ==
  TypeOK /\ RedemptionInv /\ [Next]_vars => RedemptionInv'
<1> SUFFICES ASSUME TypeOK, RedemptionInv, [Next]_vars PROVE RedemptionInv'
  OBVIOUS
<1>0. Grows
  BY StepGrows
<1>1. ASSUME NEW t \in Requests, Authorize(t) PROVE RedemptionInv'
  <2>1. /\ Serving(task[t])' /\ Entitled(task[t])'
        /\ \A u \in Requests \ {t} : task'[u] = task[u]
    <3>1. PICK c \in Clients, r \in Redirects :
            task' = [task EXCEPT ![t] =
              [Fresh EXCEPT !.pc = IF MustPin(clients[c]) THEN "pin" ELSE "session",
                            !.client = c, !.redirect = r, !.late = c \in revoked]]
      BY <1>1 DEF Authorize
    <3>2. c # None /\ r # None
      BY NoneAssumption
    <3>3. /\ task'[t].pc \in {"pin", "session"} /\ task'[t].code = None
          /\ task'[t].client = c /\ task'[t].redirect = r /\ ~task'[t].replay
      BY <3>1 DEF Fresh, TypeOK
    <3> QED
      BY <3>1, <3>2, <3>3 DEF Serving, Entitled, TypeOK
  <2> QED
    BY <1>0, <1>1, <2>1, OneMoves, SameDocs DEF Authorize
<1>2. ASSUME NEW t \in Requests, PinRedirect(t) PROVE RedemptionInv'
  <2>1. task' = [task EXCEPT ![t] = [task[t] EXCEPT !.pc = "session"]]
    BY <1>2 DEF PinRedirect, Moves, TypeOK
  <2>2. Serving(task[t])' /\ Entitled(task[t])'
    <3>1. Serving(task[t]) /\ task[t].pc = "pin" /\ task[t] \in Task
      BY <1>2 DEF PinRedirect, RedemptionInv, TypeOK
    <3>2. task'[t] = [task[t] EXCEPT !.pc = "session"]
      BY <2>1 DEF TypeOK
    <3> QED
      BY <1>2, <3>1, <3>2 DEF PinRedirect, Serving, Entitled, Task
  <2>3. Exists' /\ PresentedIsSpent' /\ \A k \in Codes : issued[k] = NoCode => Copied(k)'
    BY <1>2 DEF PinRedirect, RedemptionInv, Exists, PresentedIsSpent, Copied
  <2> QED
    BY <1>0, <2>1, <2>2, <2>3, OneMoves DEF TypeOK
<1>3. ASSUME NEW t \in Requests, PutSession(t) PROVE RedemptionInv'
  <2>1. task'[t] = Fresh /\ \A u \in Requests \ {t} : task'[u] = task[u]
    BY <1>3 DEF PutSession, Answers, TypeOK
  <2>2. PICK f \in Flows, challenge \in BOOLEAN :
          /\ flow[f] = NoSession
          /\ flow' = [flow EXCEPT ![f] =
               [client |-> task[t].client, redirect |-> task[t].redirect,
                challenge |-> challenge]]
          /\ sessions' = sessions \union {f}
    BY <1>3 DEF PutSession
  <2>3. flow'[f] # NoSession
    BY <1>3, <2>2 DEF PutSession, RedemptionInv, Serving, NoSession, TypeOK
  <2>4. Exists' /\ PresentedIsSpent'
    BY <1>3, <2>2, <2>3 DEF PutSession, RedemptionInv, Exists, PresentedIsSpent, TypeOK
  <2>5. \A k \in Codes : issued[k] = NoCode => Copied(k)'
    BY <1>3 DEF PutSession, Copied
  <2> QED
    BY <1>0, <2>1, <2>4, <2>5, FreshServes, OneMoves
<1>4. ASSUME NEW t \in Requests, RefuseType(t) \/ StoreFails(t) PROVE RedemptionInv'
  <2>1. task'[t] = Fresh /\ \A u \in Requests \ {t} : task'[u] = task[u]
    BY <1>4 DEF RefuseType, StoreFails, Answers, TypeOK
  <2> QED
    BY <1>0, <1>4, <2>1, FreshServes, OneMoves, SameDocs DEF RefuseType, StoreFails
<1>5. ASSUME NEW t \in Requests, Callback(t) PROVE RedemptionInv'
  <2>1. /\ Serving(task[t])' /\ Entitled(task[t])'
        /\ \A u \in Requests \ {t} : task'[u] = task[u]
    <3>1. PICK f \in sessions :
            task' = [task EXCEPT ![t] = [Fresh EXCEPT !.pc = "popSession", !.flow = f]]
      BY <1>5 DEF Callback
    <3>2. f # None /\ flow'[f] # NoSession
      BY <1>5, NoneAssumption DEF Callback, docs, TypeOK, RedemptionInv, Exists
    <3>3. /\ task'[t].pc = "popSession" /\ task'[t].code = None
          /\ task'[t].flow = f /\ ~task'[t].replay
      BY <3>1 DEF Fresh, TypeOK
    <3> QED
      BY <3>1, <3>2, <3>3 DEF Serving, Entitled, TypeOK
  <2> QED
    BY <1>0, <1>5, <2>1, OneMoves, SameDocs DEF Callback
<1>6. ASSUME NEW t \in Requests, PopSession(t) PROVE RedemptionInv'
  <2>1. \A u \in Requests \ {t} : task'[u] = task[u]
    BY <1>6 DEF PopSession, Answers, Moves, TypeOK
  <2>2. Serving(task[t])' /\ Entitled(task[t])'
    <3>1. CASE Answers(t)
      BY <3>1, FreshServes DEF Answers, TypeOK
    <3>2. CASE Moves(t, "putCode")
      <4>1. task[t] \in Task /\ Serving(task[t]) /\ task[t].pc = "popSession"
        BY <1>6 DEF PopSession, RedemptionInv, TypeOK
      <4>2. task'[t] = [task[t] EXCEPT !.pc = "putCode"]
        BY <3>2 DEF Moves, TypeOK
      <4> QED
        BY <1>6, <4>1, <4>2 DEF PopSession, SessionGone, Serving, Entitled, Task
    <3> QED
      BY <1>6, <3>1, <3>2 DEF PopSession
  <2>3. Exists' /\ PresentedIsSpent' /\ \A k \in Codes : issued[k] = NoCode => Copied(k)'
    BY <1>6 DEF PopSession, SessionGone, RedemptionInv, Exists, PresentedIsSpent, Copied
  <2> QED
    BY <1>0, <2>1, <2>2, <2>3, OneMoves
<1>7. ASSUME NEW t \in Requests, PutCode(t) PROVE RedemptionInv'
  <2>1. task'[t] = Fresh /\ \A u \in Requests \ {t} : task'[u] = task[u]
    BY <1>7 DEF PutCode, Answers, TypeOK
  <2> DEFINE f == task[t].flow
  <2>2. PICK k \in Codes :
          /\ issued[k] = NoCode
          /\ issued' = [issued EXCEPT ![k] =
               [flow |-> f, client |-> flow[f].client, redirect |-> flow[f].redirect,
                challenge |-> flow[f].challenge]]
          /\ codes' = codes \union {k}
    BY <1>7 DEF PutCode
  <2>3. f # None /\ f \notin sessions /\ flow[f] # NoSession
    BY <1>7 DEF PutCode, RedemptionInv, Serving
  <2>4. issued'[k] # NoCode
    BY <2>2, <2>3 DEF NoCode, TypeOK
  <2>5. Copied(k)'
    BY <1>7, <2>2, <2>3 DEF PutCode, Copied, TypeOK
  <2>6. ASSUME NEW x \in Codes, issued[x] = NoCode PROVE Copied(x)'
    <3>1. CASE x = k
      BY <2>5, <3>1
    <3>2. CASE x # k
      BY <2>2, <2>6, <3>2 DEF Copied, TypeOK
    <3> QED
      BY <3>1, <3>2
  <2>7. k \notin answered
    BY <2>2 DEF RedemptionInv, Exists
  <2>8. Exists' /\ PresentedIsSpent'
    BY <1>7, <2>2, <2>4, <2>7 DEF PutCode, RedemptionInv, Exists, PresentedIsSpent, TypeOK
  <2> QED
    BY <1>0, <2>1, <2>6, <2>8, FreshServes, OneMoves
<1>8. ASSUME NEW t \in Requests, Token(t) PROVE RedemptionInv'
  <2>1. /\ Serving(task[t])' /\ Entitled(task[t])'
        /\ \A u \in Requests \ {t} : task'[u] = task[u]
    <3>1. PICK c \in Clients, k \in {x \in Codes : issued[x] # NoCode} :
            task' = [task EXCEPT ![t] =
              [Fresh EXCEPT !.pc = "getCode", !.client = c, !.code = k,
                            !.late = c \in revoked, !.replay = k \in answered]]
      BY <1>8 DEF Token
    <3>2. c # None /\ k # None /\ issued'[k] # NoCode /\ answered' = answered
      BY <1>8, NoneAssumption DEF Token, docs
    <3>3. /\ task'[t].pc = "getCode" /\ task'[t].code = k /\ task'[t].client = c
          /\ task'[t].replay <=> k \in answered
      BY <3>1 DEF Fresh, TypeOK
    <3> QED
      BY <3>1, <3>2, <3>3 DEF Serving, Entitled, TypeOK
  <2> QED
    BY <1>0, <1>8, <2>1, OneMoves, SameDocs DEF Token
<1>9. ASSUME NEW t \in Requests, RefreshToken(t) PROVE RedemptionInv'
  <2>1. /\ Serving(task[t])' /\ Entitled(task[t])'
        /\ \A u \in Requests \ {t} : task'[u] = task[u]
    <3>1. PICK c \in Clients :
            task' = [task EXCEPT ![t] =
              [Fresh EXCEPT !.pc = "upstream", !.client = c, !.late = c \in revoked]]
      BY <1>9 DEF RefreshToken
    <3>2. task'[t].pc = "upstream" /\ task'[t].code = None /\ ~task'[t].replay
      BY <3>1 DEF Fresh, TypeOK
    <3> QED
      BY <3>1, <3>2 DEF Serving, Entitled, TypeOK
  <2> QED
    BY <1>0, <1>9, <2>1, OneMoves, SameDocs DEF RefreshToken
<1>10. ASSUME NEW t \in Requests, GetCode(t) PROVE RedemptionInv'
  <2>1. task[t] \in Task /\ Serving(task[t]) /\ task[t].pc = "getCode"
        /\ task[t].code \in Codes /\ issued[task[t].code] # NoCode
    BY <1>10 DEF GetCode, RedemptionInv, TypeOK, Serving, Task
  <2>2. \A u \in Requests \ {t} : task'[u] = task[u]
    BY <1>10 DEF GetCode, Answers, Moves, TypeOK
  <2>3. CASE task[t].code \in codes
    <3>1. task'[t] = [task[t] EXCEPT !.pc = "popCode"] /\ answered' = answered
      BY <1>10, <2>3 DEF GetCode, Moves, TypeOK
    <3>2. ~task[t].replay
      BY <2>1, <2>3 DEF Serving, RedemptionInv, PresentedIsSpent
    <3>3. Serving(task[t])' /\ Entitled(task[t])'
      BY <1>10, <2>1, <3>1, <3>2 DEF GetCode, docs, Serving, Entitled, Task
    <3> QED
      BY <1>0, <1>10, <2>2, <3>1, <3>3, OneMoves, SameDocs DEF GetCode
  <2>4. CASE task[t].code \notin codes
    <3>1. task'[t] = Fresh /\ answered' = answered \union {task[t].code}
      BY <1>10, <2>4 DEF GetCode, Answers, TypeOK
    <3>2. Exists' /\ PresentedIsSpent'
      BY <1>10, <2>1, <2>4, <3>1 DEF GetCode, docs, RedemptionInv, Exists, PresentedIsSpent
    <3> QED
      BY <1>0, <1>10, <2>2, <3>1, <3>2, FreshServes, OneMoves, SameDocs DEF GetCode
  <2> QED
    BY <2>3, <2>4
<1>11. ASSUME NEW t \in Requests, PopCode(t) PROVE RedemptionInv'
  <2>1. task[t] \in Task /\ Serving(task[t]) /\ task[t].pc = "popCode"
        /\ task[t].code \in Codes /\ issued[task[t].code] # NoCode
    BY <1>11 DEF PopCode, RedemptionInv, TypeOK, Serving, Task
  <2>2. \A u \in Requests \ {t} : task'[u] = task[u]
    BY <1>11 DEF PopCode, Answers, TypeOK
  <2>3. /\ codes' = codes \ {task[t].code}
        /\ UNCHANGED <<flow, sessions, issued>>
        /\ answered' \in {answered, answered \union {task[t].code}}
    BY <1>11 DEF PopCode, Spent
  <2>4. Exists' /\ PresentedIsSpent' /\ \A k \in Codes : issued[k] = NoCode => Copied(k)'
    BY <2>1, <2>3 DEF RedemptionInv, Exists, PresentedIsSpent, Copied
  <2>5. Serving(task[t])' /\ Entitled(task[t])'
    <3>1. CASE Answers(t)
      BY <3>1, FreshServes DEF Answers, TypeOK
    <3>2. ASSUME NEW r \in Redirects \union {None}, NEW v \in Flows \union {None},
                 Accepts(issued[task[t].code], task[t].client, r, v),
                 task' = [task EXCEPT ![t].pc = "upstream",
                                      ![t].redirect = r, ![t].verifier = v]
          PROVE  Serving(task[t])' /\ Entitled(task[t])'
      <4>1. task'[t] = [task[t] EXCEPT !.pc = "upstream", !.redirect = r, !.verifier = v]
        BY <3>2 DEF TypeOK
      <4>2. Copied(task[t].code)
        BY <2>1 DEF RedemptionInv, CopiesSession
      <4>3. ~task[t].replay
        BY <2>1 DEF Serving
      <4>4. Serving(task[t])'
        BY <2>1, <2>3, <4>1, <4>3 DEF Serving, Task
      <4> DEFINE k == issued[task[t].code]
      <4>5. /\ k.flow # None /\ k.flow \notin sessions
            /\ flow[k.flow].client = task[t].client
            /\ r \in {None, flow[k.flow].redirect}
            /\ flow[k.flow].challenge => v = k.flow
        BY <2>1, <3>2, <4>2 DEF Accepts, Copied
      <4>6. task'[t].code = task[t].code /\ task'[t].client = task[t].client
            /\ task'[t].redirect = r /\ task'[t].verifier = v
        BY <2>1, <4>1 DEF Task
      <4>7. Entitled(task[t])'
        BY <2>3, <4>5, <4>6 DEF Entitled
      <4> QED
        BY <4>4, <4>7
    <3> QED
      BY <1>11, <3>1, <3>2 DEF PopCode
  <2> QED
    BY <1>0, <2>2, <2>4, <2>5, OneMoves
<1>12. ASSUME NEW t \in Requests, Exchange(t) PROVE RedemptionInv'
  <2>1. task'[t] = Fresh /\ \A u \in Requests \ {t} : task'[u] = task[u]
    BY <1>12 DEF Exchange, Answers, TypeOK
  <2>2. Serving(task[t]) /\ task[t].pc = "upstream"
    BY <1>12 DEF Exchange, RedemptionInv
  <2>3. Exists' /\ PresentedIsSpent'
    BY <1>12, <2>2 DEF Exchange, docs, RedemptionInv, Exists, PresentedIsSpent, Serving
  <2> QED
    BY <1>0, <1>12, <2>1, <2>3, FreshServes, OneMoves, SameDocs DEF Exchange
<1>13. ASSUME NEW c \in Clients, Revoke(c) PROVE RedemptionInv'
  BY <1>13 DEF Revoke, RedemptionInv, CopiesSession, Copied, Exists, Serving,
               PresentedIsSpent, LegsMatch, Entitled
<1>14. CASE UNCHANGED vars
  BY <1>14 DEF vars, RedemptionInv, CopiesSession, Copied, Exists, Serving,
               PresentedIsSpent, LegsMatch, Entitled
<1> QED
  BY <1>1, <1>2, <1>3, <1>4, <1>5, <1>6, <1>7, <1>8, <1>9, <1>10, <1>11,
     <1>12, <1>13, <1>14 DEF Next, Serve

-----------------------------------------------------------------------------
\* Types, the inductive invariant and what follows from it hold always.
THEOREM RedemptionInvariant == Spec => [](TypeOK /\ RedemptionInv)
<1>1. Init => TypeOK /\ RedemptionInv
  BY InitType, InitRedemption
<1>2. TypeOK /\ RedemptionInv /\ [Next]_vars => (TypeOK /\ RedemptionInv)'
  BY StepType, StepRedemption DEF RedemptionInv, AllServing
<1> QED
  BY <1>1, <1>2, PTL DEF Spec

\* The variables keep to their declarations.
THEOREM ProxyTypeCorrect == Spec => []TypeOK
BY RedemptionInvariant, PTL

\* Whoever presents a code, and however many do at once, it is spent.
THEOREM PresentationSpends == Spec => []PresentedIsSpent
<1>1. RedemptionInv => PresentedIsSpent
  BY DEF RedemptionInv
<1> QED
  BY <1>1, RedemptionInvariant, PTL

\* A code that someone was answered about never reaches the upstream again.
THEOREM ReplaysRefused == Spec => []ReplayRefused
<1>1. RedemptionInv => ReplayRefused
  BY DEF RedemptionInv, ReplayRefused, Serving
<1> QED
  BY <1>1, RedemptionInvariant, PTL

\* Tokens go to the client whose flow they belong to, and to no other.
THEOREM LegsAlwaysMatch == Spec => []LegsMatch
<1>1. RedemptionInv => LegsMatch
  BY DEF RedemptionInv
<1> QED
  BY <1>1, RedemptionInvariant, PTL

-----------------------------------------------------------------------------
(***************************************************************************)
(* Over the in-memory store one handler at a time is between two waits.    *)
(***************************************************************************)
AtOneTime ==
  \A t, u \in Requests : t # u => task[t].pc \in GivesWay \/ task[u].pc \in GivesWay

\* A client has no redirect yet, or one.
PinsOnce ==
  \A c \in Clients :
    \/ clients[c].allowed = {} /\ clients[c].pin
    \/ \E r \in Redirects : clients[c].allowed = {r}

\* Whoever opens a session does it for a client that is there, and with its pin.
Standing(p) ==
  /\ ~p.late
  /\ p.pc \in {"pin", "session"} =>
       /\ p.client \in Clients /\ clients[p.client].live
       /\ p.pc = "pin" => clients[p.client].allowed = {}
       /\ p.pc = "session" => clients[p.client].allowed = {p.redirect}

\* The sessions there ever were returned to the pin.
PinnedFlows ==
  \A f \in Flows : flow[f] # NoSession =>
    flow[f].client \in Clients /\ clients[flow[f].client].allowed = {flow[f].redirect}

\* PinHolds and RevokedIsInert made inductive.
AtomicInv ==
  backend = "memory" =>
    /\ AtOneTime /\ PinsOnce /\ PinnedFlows
    /\ \A t \in Requests : Standing(task[t])
    /\ \A c \in revoked : ~clients[c].live

LEMMA InitAtomic == Init => AtomicInv
BY DEF Init, AtomicInv, AtOneTime, PinsOnce, PinnedFlows, Standing, Fresh, GivesWay

\* A handler that has the turn leaves the others where they are, between two waits.
LEMMA TurnKeeps ==
  ASSUME TypeOK, AtomicInv, backend = "memory", NEW t \in Requests, Turn(t),
         \A u \in Requests \ {t} : task'[u] = task[u]
  PROVE  AtOneTime' /\ \A u \in Requests \ {t} : task'[u].pc \notin {"pin", "session"} /\ ~task'[u].late
<1>1. \A u \in Requests \ {t} : task'[u].pc \in GivesWay /\ ~task'[u].late
  BY DEF Turn, AtomicInv, Standing
<1> QED
  BY <1>1 DEF AtOneTime, GivesWay

\* A step that leaves clients and sessions as they are.
LEMMA TurnOnly ==
  ASSUME TypeOK, AtomicInv, backend = "memory", NEW t \in Requests, Turn(t),
         \A u \in Requests \ {t} : task'[u] = task[u],
         UNCHANGED <<clients, flow, revoked>>, Standing(task[t])'
  PROVE  AtomicInv'
<1>1. AtOneTime' /\ \A u \in Requests \ {t} : Standing(task[u])'
  BY TurnKeeps DEF Standing
<1>2. PinsOnce' /\ PinnedFlows' /\ \A c \in revoked' : ~clients'[c].live
  BY DEF AtomicInv, PinsOnce, PinnedFlows
<1>3. \A u \in Requests : Standing(task[u])'
  BY <1>1
<1> QED
  BY <1>1, <1>2, <1>3 DEF AtomicInv

\* A request that is answered, or that moves on within its handler past the pin.
LEMMA MovesOn ==
  ASSUME TypeOK, AtomicInv, backend = "memory", NEW t \in Requests, Turn(t),
         UNCHANGED <<clients, flow, revoked>>,
         \/ Answers(t)
         \/ \E to \in {"putCode", "popCode"} : Moves(t, to)
         \/ \E r, v : task' = [task EXCEPT ![t].pc = "upstream",
                                           ![t].redirect = r, ![t].verifier = v]
  PROVE  AtomicInv'
<1>1. \A u \in Requests \ {t} : task'[u] = task[u]
  BY DEF Answers, Moves, TypeOK
<1>2. task'[t].pc \notin {"pin", "session"} /\ ~task'[t].late
  <2>1. task[t] \in Task /\ ~task[t].late
    BY DEF TypeOK, AtomicInv, Standing
  <2>2. CASE Answers(t)
    BY <2>2 DEF Answers, Fresh, TypeOK
  <2>3. CASE \E to \in {"putCode", "popCode"} : Moves(t, to)
    <3>1. PICK to \in {"putCode", "popCode"} : Moves(t, to)
      BY <2>3
    <3>2. task'[t] = [task[t] EXCEPT !.pc = to]
      BY <3>1 DEF Moves, TypeOK
    <3> QED
      BY <2>1, <3>2 DEF Task
  <2>4. CASE \E r, v : task' = [task EXCEPT ![t].pc = "upstream",
                                            ![t].redirect = r, ![t].verifier = v]
    <3>1. PICK r, v : task' = [task EXCEPT ![t].pc = "upstream",
                                           ![t].redirect = r, ![t].verifier = v]
      BY <2>4
    <3>2. task'[t] = [task[t] EXCEPT !.pc = "upstream", !.redirect = r, !.verifier = v]
      BY <3>1 DEF TypeOK
    <3> QED
      BY <2>1, <3>2 DEF Task
  <2> QED
    BY <2>2, <2>3, <2>4
<1>3. Standing(task[t])'
  BY <1>2 DEF Standing
<1> QED
  BY <1>1, <1>3, TurnOnly

\* The first redirect of a client is pinned by a handler that nobody interrupts.
LEMMA PinKeeps ==
  ASSUME TypeOK, RedemptionInv, AtomicInv, backend = "memory",
         NEW t \in Requests, PinRedirect(t)
  PROVE  AtomicInv'
<1> DEFINE c == task[t].client
           r == task[t].redirect
<1>1. /\ task[t] \in Task /\ Serving(task[t]) /\ Standing(task[t]) /\ Turn(t)
      /\ task[t].pc = "pin"
  BY DEF TypeOK, RedemptionInv, AtomicInv, PinRedirect
<1>2. /\ c \in Clients /\ r \in Redirects /\ clients[c].live /\ clients[c].allowed = {}
      /\ ~task[t].late
  BY <1>1 DEF Serving, Standing, Task
<1>3. task'[t] = [task[t] EXCEPT !.pc = "session"] /\ \A u \in Requests \ {t} : task'[u] = task[u]
  BY DEF PinRedirect, Moves, TypeOK
<1>4. clients' = [clients EXCEPT ![c] = Pinned(r)] /\ UNCHANGED <<flow, revoked>>
  BY DEF PinRedirect
<1>5. /\ clients'[c].live /\ clients'[c].allowed = {r}
      /\ \A d \in Clients \ {c} : clients'[d] = clients[d]
  BY <1>2, <1>4 DEF Pinned, TypeOK
<1>6. /\ task'[t].pc = "session" /\ task'[t].client = c /\ task'[t].redirect = r
      /\ ~task'[t].late
  BY <1>1, <1>2, <1>3 DEF Task
<1>7. AtOneTime' /\ \A u \in Requests \ {t} : Standing(task[u])'
  BY <1>1, <1>3, TurnKeeps DEF Standing
<1>8. Standing(task[t])'
  BY <1>2, <1>5, <1>6 DEF Standing
<1>9. PinsOnce'
  BY <1>2, <1>5 DEF AtomicInv, PinsOnce
<1>10. PinnedFlows'
  BY <1>2, <1>4, <1>5 DEF AtomicInv, PinnedFlows
<1>11. \A d \in revoked' : ~clients'[d].live
  BY <1>2, <1>4, <1>5 DEF AtomicInv, TypeOK
<1>12. \A u \in Requests : Standing(task[u])'
  BY <1>7, <1>8
<1> QED
  BY <1>7, <1>9, <1>10, <1>11, <1>12 DEF AtomicInv

\* AtomicInv is inductive.
LEMMA StepAtomic == TypeOK /\ RedemptionInv /\ AtomicInv /\ [Next]_vars => AtomicInv'
<1> SUFFICES ASSUME TypeOK, RedemptionInv, AtomicInv, [Next]_vars, backend' = "memory"
             PROVE  AtomicInv'
  BY DEF AtomicInv
<1>0. backend = "memory"
  BY DEF Next, Serve, Authorize, PinRedirect, PutSession, RefuseType, Callback, PopSession,
         PutCode, Token, RefreshToken, GetCode, PopCode, Exchange, StoreFails, Revoke, vars
<1>1. ASSUME NEW t \in Requests, Authorize(t) PROVE AtomicInv'
  <2>1. PICK c \in Clients, r \in Redirects :
          /\ clients[c].live /\ ValidRedirect(clients[c], r)
          /\ task' = [task EXCEPT ![t] =
               [Fresh EXCEPT !.pc = IF MustPin(clients[c]) THEN "pin" ELSE "session",
                             !.client = c, !.redirect = r, !.late = c \in revoked]]
    BY <1>1 DEF Authorize
  <2>2. Turn(t) /\ UNCHANGED <<clients, flow, revoked>>
        /\ \A u \in Requests \ {t} : task'[u] = task[u]
    BY <1>1, <2>1 DEF Authorize, docs, TypeOK
  <2>3. c \notin revoked
    BY <1>0, <2>1 DEF AtomicInv
  <2>4. /\ task'[t].pc = (IF MustPin(clients[c]) THEN "pin" ELSE "session")
        /\ task'[t].client = c /\ task'[t].redirect = r /\ ~task'[t].late
    BY <2>1, <2>3 DEF Fresh, TypeOK
  <2>5. IF MustPin(clients[c]) THEN clients[c].allowed = {} ELSE clients[c].allowed = {r}
    BY <1>0, <2>1 DEF MustPin, ValidRedirect, AtomicInv, PinsOnce
  <2>6. Standing(task[t])'
    BY <2>1, <2>2, <2>4, <2>5 DEF Standing
  <2> QED
    BY <1>0, <2>2, <2>6, TurnOnly
<1>2. ASSUME NEW t \in Requests, PinRedirect(t) PROVE AtomicInv'
  BY <1>0, <1>2, PinKeeps
<1>3. ASSUME NEW t \in Requests, PutSession(t) PROVE AtomicInv'
  <2>1. PICK f \in Flows, challenge \in BOOLEAN :
          flow' = [flow EXCEPT ![f] =
            [client |-> task[t].client, redirect |-> task[t].redirect, challenge |-> challenge]]
    BY <1>3 DEF PutSession
  <2>2. /\ Turn(t) /\ UNCHANGED <<clients, revoked>>
        /\ task'[t] = Fresh /\ \A u \in Requests \ {t} : task'[u] = task[u]
    BY <1>3 DEF PutSession, Answers, TypeOK
  <2>3. task[t].client \in Clients /\ clients[task[t].client].allowed = {task[t].redirect}
    BY <1>0, <1>3 DEF PutSession, AtomicInv, Standing
  <2>4. PinnedFlows'
    BY <1>0, <2>1, <2>2, <2>3 DEF AtomicInv, PinnedFlows, TypeOK
  <2>5. AtOneTime' /\ \A u \in Requests \ {t} : Standing(task[u])'
    BY <1>0, <2>2, TurnKeeps DEF Standing
  <2>6. Standing(task[t])'
    BY <2>2 DEF Standing, Fresh
  <2>7. \A u \in Requests : Standing(task[u])'
    BY <2>5, <2>6
  <2>8. PinsOnce' /\ \A c \in revoked' : ~clients'[c].live
    BY <1>0, <2>2 DEF AtomicInv, PinsOnce
  <2> QED
    BY <2>4, <2>5, <2>7, <2>8 DEF AtomicInv
<1>4. ASSUME NEW t \in Requests,
             RefuseType(t) \/ PopSession(t) \/ PutCode(t) \/ GetCode(t) \/ PopCode(t) \/ Exchange(t)
      PROVE  AtomicInv'
  <2>1. Turn(t) /\ UNCHANGED <<clients, flow, revoked>>
    BY <1>4 DEF RefuseType, PopSession, PutCode, GetCode, PopCode, Exchange, docs
  <2>2. \/ Answers(t)
        \/ \E to \in {"putCode", "popCode"} : Moves(t, to)
        \/ \E r, v : task' = [task EXCEPT ![t].pc = "upstream",
                                          ![t].redirect = r, ![t].verifier = v]
    BY <1>4 DEF RefuseType, PopSession, PutCode, GetCode, PopCode, Exchange
  <2> QED
    BY <1>0, <2>1, <2>2, MovesOn
<1>5. ASSUME NEW t \in Requests, Callback(t) \/ Token(t) \/ RefreshToken(t) PROVE AtomicInv'
  <2>1. Turn(t) /\ UNCHANGED <<clients, flow, revoked>>
    BY <1>5 DEF Callback, Token, RefreshToken, docs
  <2>2. \A u \in Requests \ {t} : task'[u] = task[u]
    BY <1>5 DEF Callback, Token, RefreshToken, TypeOK
  <2>3. \A c \in Clients : Known(c) => c \notin revoked
    BY <1>0 DEF Known, AtomicInv
  <2>4. task'[t].pc \in {"popSession", "getCode", "upstream"} /\ ~task'[t].late
    <3>1. CASE Callback(t)
      BY <3>1 DEF Callback, Fresh, TypeOK
    <3>2. CASE Token(t)
      <4>1. PICK c \in Clients, k \in {x \in Codes : issued[x] # NoCode} :
              /\ Known(c)
              /\ task' = [task EXCEPT ![t] =
                   [Fresh EXCEPT !.pc = "getCode", !.client = c, !.code = k,
                                 !.late = c \in revoked, !.replay = k \in answered]]
        BY <3>2 DEF Token
      <4>2. task'[t].pc = "getCode" /\ (task'[t].late <=> c \in revoked)
        BY <4>1 DEF Fresh, TypeOK
      <4> QED
        BY <2>3, <4>1, <4>2
    <3>3. CASE RefreshToken(t)
      <4>1. PICK c \in Clients :
              /\ Known(c)
              /\ task' = [task EXCEPT ![t] =
                   [Fresh EXCEPT !.pc = "upstream", !.client = c, !.late = c \in revoked]]
        BY <3>3 DEF RefreshToken
      <4>2. task'[t].pc = "upstream" /\ (task'[t].late <=> c \in revoked)
        BY <4>1 DEF Fresh, TypeOK
      <4> QED
        BY <2>3, <4>1, <4>2
    <3> QED
      BY <1>5, <3>1, <3>2, <3>3
  <2>5. Standing(task[t])'
    BY <2>4 DEF Standing
  <2> QED
    BY <1>0, <2>1, <2>2, <2>5, TurnOnly
<1>6. ASSUME NEW c \in Clients, Revoke(c) PROVE AtomicInv'
  <2>1. /\ \A t \in Requests : task[t].pc \in GivesWay
        /\ UNCHANGED <<task, flow>> /\ revoked' = revoked \union {c}
        /\ clients' = [clients EXCEPT ![c] = [clients[c] EXCEPT !.live = FALSE]]
    BY <1>0, <1>6 DEF Revoke
  <2>2. /\ ~clients'[c].live
        /\ \A d \in Clients : clients'[d].allowed = clients[d].allowed /\ clients'[d].pin = clients[d].pin
        /\ \A d \in Clients \ {c} : clients'[d] = clients[d]
    BY <2>1 DEF TypeOK, Client
  <2>3. AtOneTime' /\ \A t \in Requests : Standing(task[t])'
    BY <1>0, <2>1 DEF AtomicInv, AtOneTime, Standing, GivesWay
  <2>4. PinsOnce' /\ PinnedFlows'
    BY <1>0, <2>1, <2>2 DEF AtomicInv, PinsOnce, PinnedFlows
  <2>5. \A d \in revoked' : ~clients'[d].live
    BY <1>0, <2>1, <2>2 DEF AtomicInv, TypeOK
  <2> QED
    BY <2>3, <2>4, <2>5 DEF AtomicInv
<1>7. CASE UNCHANGED vars
  BY <1>7 DEF vars, AtomicInv, AtOneTime, PinsOnce, PinnedFlows, Standing
<1>8. ASSUME NEW t \in Requests, StoreFails(t) PROVE AtomicInv'
  BY <1>0, <1>8 DEF StoreFails
<1> QED
  BY <1>1, <1>2, <1>3, <1>4, <1>5, <1>6, <1>7, <1>8 DEF Next, Serve

\* The pins and the deletions of clients, over the in-memory store (authorize, token).
THEOREM AtomicInvariant == Spec => []AtomicInv
BY InitAtomic, StepAtomic, RedemptionInvariant, PTL DEF Spec

\* Over the in-memory store the first redirect of a client is its only one, whatever
\* first uses overlap.
THEOREM PinsHold == Spec => []PinHolds
<1>1. RedemptionInv /\ AtomicInv /\ TypeOK => PinHolds
  BY DEF RedemptionInv, AtomicInv, Exists, PinnedFlows, PinHolds, TypeOK
<1> QED
  BY <1>1, AtomicInvariant, RedemptionInvariant, PTL

\* Over the in-memory store nobody is served for a client that was deleted before
\* he came.
THEOREM RevokedClientsAreInert == Spec => []RevokedIsInert
<1>1. AtomicInv => RevokedIsInert
  BY DEF AtomicInv, Standing, RevokedIsInert
<1> QED
  BY <1>1, AtomicInvariant, PTL
-----------------------------------------------------------------------------
(***************************************************************************)
(* Where the grants are: what the proxy does to them is what Grants says.  *)
(***************************************************************************)
\* Over either store a code that was posted was answered about.
Posted == \A p \in posts : p[1] \in answered

\* Over the in-memory store a flow is in one place at a time: in a session that
\* a callback may be about to take, in the callback's hands, in its only code,
\* which a request may be about to take, or in the hands of the one request that
\* took it; once posted, nowhere.
OnePlace ==
  /\ \A t \in Requests :
       /\ task[t].pc = "popSession" => task[t].flow \in sessions
       /\ task[t].pc = "popCode" => task[t].code \in codes
       /\ task[t].pc = "putCode" =>
            \A k \in Codes : issued[k] # NoCode => issued[k].flow # task[t].flow
       /\ task[t].pc = "upstream" /\ task[t].code # None =>
            \A p \in posts : p[1] # task[t].code
  /\ \A j, k \in Codes :
       issued[j] # NoCode /\ issued[k] # NoCode /\ issued[j].flow = issued[k].flow => j = k
  /\ \A t, u \in Requests :
       /\ task[t].pc = "upstream" /\ task[u].pc = "upstream"
       /\ task[t].code # None /\ task[t].code = task[u].code
       => t = u

SerialInv == Posted /\ (backend = "memory" => OnePlace)


LEMMA InitSerial == Init => SerialInv
BY DEF Init, SerialInv, Posted, OnePlace, Fresh

\* The handler that has the turn moves, and nothing is issued or posted.
LEMMA TurnPlaces ==
  ASSUME OnePlace, NEW t \in Requests, backend = "memory", Turn(t),
         \A u \in Requests \ {t} : task'[u] = task[u],
         UNCHANGED <<issued, posts>>,
         task'[t].pc = "popSession" => task'[t].flow \in sessions',
         task'[t].pc = "popCode" => task'[t].code \in codes',
         task'[t].pc = "putCode" =>
           \A k \in Codes : issued[k] # NoCode => issued[k].flow # task'[t].flow,
         task'[t].pc = "upstream" /\ task'[t].code # None =>
           /\ \A p \in posts : p[1] # task'[t].code
           /\ \A u \in Requests \ {t} : task[u].pc = "upstream" => task[u].code # task'[t].code
  PROVE  OnePlace'
<1>1. \A u \in Requests \ {t} : task'[u].pc \in GivesWay
  BY DEF Turn
<1>2. ASSUME NEW u \in Requests
      PROVE  /\ task'[u].pc = "popSession" => task'[u].flow \in sessions'
             /\ task'[u].pc = "popCode" => task'[u].code \in codes'
             /\ task'[u].pc = "putCode" =>
                  \A k \in Codes : issued'[k] # NoCode => issued'[k].flow # task'[u].flow
             /\ task'[u].pc = "upstream" /\ task'[u].code # None =>
                  \A p \in posts' : p[1] # task'[u].code
  <2>1. CASE u = t
    BY <2>1
  <2>2. CASE u # t
    BY <1>1, <2>2 DEF OnePlace, GivesWay
  <2> QED
    BY <2>1, <2>2
<1>3. ASSUME NEW u \in Requests, NEW v \in Requests,
             task'[u].pc = "upstream", task'[v].pc = "upstream",
             task'[u].code # None, task'[u].code = task'[v].code
      PROVE  u = v
  <2>1. CASE u # t /\ v # t
    BY <1>3, <2>1 DEF OnePlace
  <2>2. CASE u = t \/ v = t
    BY <1>3, <2>2
  <2> QED
    BY <2>1, <2>2
<1>4. \A j, k \in Codes :
        issued'[j] # NoCode /\ issued'[k] # NoCode /\ issued'[j].flow = issued'[k].flow => j = k
  BY DEF OnePlace
<1> QED
  BY <1>2, <1>3, <1>4 DEF OnePlace

\* Whatever is answered or begun without a session or a code in hand.
LEMMA EmptyHanded ==
  ASSUME OnePlace, NEW t \in Requests, backend = "memory", Turn(t),
         \A u \in Requests \ {t} : task'[u] = task[u],
         UNCHANGED <<issued, posts>>,
         task'[t].pc \notin {"popSession", "putCode", "popCode"},
         task'[t].pc = "upstream" => task'[t].code = None
  PROVE  OnePlace'
BY TurnPlaces

LEMMA StepPosted == TypeOK /\ Posted /\ [Next]_vars => Posted'
<1> SUFFICES ASSUME TypeOK, Posted, [Next]_vars PROVE Posted'
  OBVIOUS
<1>1. answered \subseteq answered'
  BY StepGrows DEF Grows
<1>2. ASSUME NEW t \in Requests, Exchange(t) PROVE Posted'
  BY <1>1, <1>2 DEF Exchange, Posted
<1>3. CASE UNCHANGED posts
  BY <1>1, <1>3 DEF Posted
<1> QED
  BY <1>2, <1>3 DEF Next, Serve, Authorize, PinRedirect, PutSession, RefuseType, Callback,
         PopSession, PutCode, Token, RefreshToken, GetCode, PopCode, StoreFails, Revoke, vars

LEMMA StepPlaces ==
  ASSUME TypeOK, RedemptionInv, Posted, OnePlace, backend = "memory", [Next]_vars
  PROVE  OnePlace'
<1>0. \A t \in Requests : task[t] \in Task /\ Serving(task[t])
  BY DEF TypeOK, RedemptionInv
<1>1. ASSUME NEW t \in Requests,
             Authorize(t) \/ PutSession(t) \/ RefuseType(t) \/ RefreshToken(t)
      PROVE  OnePlace'
  <2>1. Turn(t) /\ UNCHANGED <<issued, posts>> /\ \A u \in Requests \ {t} : task'[u] = task[u]
    BY <1>1 DEF Authorize, PutSession, RefuseType, RefreshToken, docs, Answers, TypeOK
  <2>2. /\ task'[t].pc \notin {"popSession", "putCode", "popCode"}
        /\ task'[t].pc = "upstream" => task'[t].code = None
    <3>1. CASE Authorize(t)
      <4>1. PICK c \in Clients, r \in Redirects :
              task'[t] = [Fresh EXCEPT !.pc = IF MustPin(clients[c]) THEN "pin" ELSE "session",
                                       !.client = c, !.redirect = r, !.late = c \in revoked]
        BY <3>1 DEF Authorize, TypeOK
      <4>2. task'[t].pc \in {"pin", "session"}
        BY <4>1 DEF Fresh
      <4> QED
        BY <4>2
    <3>2. CASE Answers(t)
      BY <3>2 DEF Answers, Fresh, TypeOK
    <3>3. CASE RefreshToken(t)
      BY <3>3 DEF RefreshToken, Fresh, TypeOK
    <3> QED
      BY <1>1, <3>1, <3>2, <3>3 DEF PutSession, RefuseType
  <2> QED
    BY <2>1, <2>2, EmptyHanded
<1>2. ASSUME NEW t \in Requests, PinRedirect(t) PROVE OnePlace'
  <2>1. Turn(t) /\ UNCHANGED <<issued, posts>> /\ \A u \in Requests \ {t} : task'[u] = task[u]
    BY <1>2 DEF PinRedirect, Moves, TypeOK
  <2>2. task'[t] = [task[t] EXCEPT !.pc = "session"]
    BY <1>2 DEF PinRedirect, Moves, TypeOK
  <2>3. task'[t].pc = "session"
    BY <1>0, <2>2 DEF Task
  <2> QED
    BY <2>1, <2>3, EmptyHanded
<1>3. ASSUME NEW t \in Requests, Callback(t) PROVE OnePlace'
  <2>1. /\ Turn(t) /\ UNCHANGED <<issued, posts, sessions>>
        /\ \A u \in Requests \ {t} : task'[u] = task[u]
    BY <1>3 DEF Callback, docs, TypeOK
  <2>2. PICK f \in sessions : task'[t] = [Fresh EXCEPT !.pc = "popSession", !.flow = f]
    BY <1>3 DEF Callback, TypeOK
  <2>3. task'[t].pc = "popSession" /\ task'[t].flow = f
    BY <2>2 DEF Fresh
  <2> QED
    BY <2>1, <2>3, TurnPlaces
<1>4. ASSUME NEW t \in Requests, PopSession(t) PROVE OnePlace'
  <2>1. /\ Turn(t) /\ UNCHANGED <<issued, posts>> /\ task[t].pc = "popSession"
        /\ \A u \in Requests \ {t} : task'[u] = task[u]
    BY <1>4 DEF PopSession, Answers, Moves, TypeOK
  <2>2. CASE Answers(t)
    <3>1. task'[t].pc = "idle"
      BY <2>2 DEF Answers, Fresh, TypeOK
    <3> QED
      BY <2>1, <3>1, EmptyHanded
  <2>3. CASE Moves(t, "putCode")
    <3>1. task'[t].pc = "putCode" /\ task'[t].flow = task[t].flow
      BY <1>0, <2>3 DEF Moves, TypeOK, Task
    <3>2. task[t].flow \in sessions
      BY <2>1 DEF OnePlace
    <3>3. \A k \in Codes : issued[k] # NoCode => issued[k].flow # task[t].flow
      BY <3>2 DEF RedemptionInv, CopiesSession, Copied
    <3> QED
      BY <2>1, <3>1, <3>3, TurnPlaces
  <2> QED
    BY <1>4, <2>2, <2>3 DEF PopSession
<1>5. ASSUME NEW t \in Requests, PutCode(t) PROVE OnePlace'
  <2>1. /\ task[t].pc = "putCode" /\ posts' = posts /\ Turn(t)
        /\ task'[t] = Fresh /\ \A u \in Requests \ {t} : task'[u] = task[u]
    BY <1>5 DEF PutCode, Answers, TypeOK
  <2>2. PICK k \in Codes :
          /\ issued[k] = NoCode /\ issued'[k].flow = task[t].flow
          /\ \A j \in Codes \ {k} : issued'[j] = issued[j]
    BY <1>5 DEF PutCode, TypeOK
  <2>3. \A j \in Codes : issued[j] # NoCode => issued[j].flow # task[t].flow
    BY <2>1 DEF OnePlace
  <2>4. \A i, j \in Codes :
          issued'[i] # NoCode /\ issued'[j] # NoCode /\ issued'[i].flow = issued'[j].flow => i = j
    BY <2>2, <2>3 DEF OnePlace
  <2>5. \A u \in Requests : task'[u].pc \in GivesWay
    BY <2>1 DEF Turn, GivesWay, Fresh
  <2>6. \A u \in Requests : task'[u].pc = "upstream" => u # t /\ task'[u] = task[u]
    BY <2>1 DEF Fresh
  <2> QED
    BY <2>1, <2>4, <2>5, <2>6 DEF OnePlace, GivesWay
<1>6. ASSUME NEW t \in Requests, Token(t) PROVE OnePlace'
  <2>1. Turn(t) /\ UNCHANGED <<issued, posts>> /\ \A u \in Requests \ {t} : task'[u] = task[u]
    BY <1>6 DEF Token, docs, TypeOK
  <2>2. task'[t].pc = "getCode"
    BY <1>6 DEF Token, Fresh, TypeOK
  <2> QED
    BY <2>1, <2>2, EmptyHanded
<1>7. ASSUME NEW t \in Requests, GetCode(t) PROVE OnePlace'
  <2>1. /\ Turn(t) /\ UNCHANGED <<issued, posts, codes>>
        /\ \A u \in Requests \ {t} : task'[u] = task[u]
    BY <1>7 DEF GetCode, docs, Answers, Moves, TypeOK
  <2>2. CASE task[t].code \in codes
    <3>1. task'[t].pc = "popCode" /\ task'[t].code = task[t].code
      BY <1>0, <1>7, <2>2 DEF GetCode, Moves, TypeOK, Task
    <3> QED
      BY <2>1, <2>2, <3>1, TurnPlaces
  <2>3. CASE task[t].code \notin codes
    <3>1. task'[t].pc = "idle"
      BY <1>7, <2>3 DEF GetCode, Answers, Fresh, TypeOK
    <3> QED
      BY <2>1, <3>1, EmptyHanded
  <2> QED
    BY <2>2, <2>3
<1>8. ASSUME NEW t \in Requests, PopCode(t) PROVE OnePlace'
  <2>1. /\ Turn(t) /\ UNCHANGED <<issued, posts>> /\ task[t].pc = "popCode"
        /\ \A u \in Requests \ {t} : task'[u] = task[u]
    BY <1>8 DEF PopCode, Answers, TypeOK
  <2>2. CASE Answers(t)
    <3>1. task'[t].pc = "idle"
      BY <2>2 DEF Answers, Fresh, TypeOK
    <3> QED
      BY <2>1, <3>1, EmptyHanded
  <2>3. CASE ~Answers(t)
    <3>1. PICK r \in Redirects \union {None}, v \in Flows \union {None} :
            task' = [task EXCEPT ![t].pc = "upstream", ![t].redirect = r, ![t].verifier = v]
      BY <1>8, <2>3 DEF PopCode
    <3>2. task'[t] = [task[t] EXCEPT !.pc = "upstream", !.redirect = r, !.verifier = v]
      BY <3>1 DEF TypeOK
    <3>3. task'[t].pc = "upstream" /\ task'[t].code = task[t].code
      BY <1>0, <3>2 DEF Task
    <3>4. task[t].code \in codes
      BY <2>1 DEF OnePlace
    <3>5. \A p \in posts : p[1] # task[t].code
      BY <3>4 DEF Posted, RedemptionInv, PresentedIsSpent
    <3>6. \A u \in Requests \ {t} : task[u].pc = "upstream" => task[u].code # task[t].code
      <4>1. task[t].code # None
        BY <1>0, <2>1 DEF Serving
      <4> QED
        BY <1>0, <3>4, <4>1 DEF Serving
    <3> QED
      BY <2>1, <3>3, <3>5, <3>6, TurnPlaces
  <2> QED
    BY <2>2, <2>3
<1>9. ASSUME NEW t \in Requests, Exchange(t) PROVE OnePlace'
  <2>1. /\ Turn(t) /\ task[t].pc = "upstream" /\ issued' = issued
        /\ task'[t] = Fresh /\ \A u \in Requests \ {t} : task'[u] = task[u]
        /\ posts' \in {posts, posts \union {<<task[t].code, t>>}}
    BY <1>9 DEF Exchange, docs, Answers, TypeOK
  <2>2. \A u \in Requests : task'[u].pc \in GivesWay
    BY <2>1 DEF Turn, GivesWay, Fresh
  <2>3. \A u \in Requests : task'[u].pc = "upstream" => u # t /\ task'[u] = task[u]
    BY <2>1 DEF Fresh
  <2>4. ASSUME NEW u \in Requests, task'[u].pc = "upstream", task'[u].code # None,
               NEW p \in posts'
        PROVE  p[1] # task'[u].code
    BY <2>1, <2>3, <2>4 DEF OnePlace
  <2> QED
    BY <2>1, <2>2, <2>3, <2>4 DEF OnePlace, GivesWay
<1>10. ASSUME NEW c \in Clients, Revoke(c) PROVE OnePlace'
  BY <1>10 DEF Revoke, OnePlace
<1>11. CASE UNCHANGED vars
  BY <1>11 DEF vars, OnePlace
<1>12. ASSUME NEW t \in Requests, StoreFails(t) PROVE OnePlace'
  BY <1>12 DEF StoreFails
<1> QED
  BY <1>1, <1>2, <1>3, <1>4, <1>5, <1>6, <1>7, <1>8, <1>9, <1>10, <1>11, <1>12 DEF Next, Serve

LEMMA StepSerial == TypeOK /\ RedemptionInv /\ SerialInv /\ [Next]_vars => SerialInv'
<1> SUFFICES ASSUME TypeOK, RedemptionInv, SerialInv, [Next]_vars PROVE SerialInv'
  OBVIOUS
<1>1. backend' = backend
  BY DEF Next, Serve, Authorize, PinRedirect, PutSession, RefuseType, Callback, PopSession,
         PutCode, Token, RefreshToken, GetCode, PopCode, Exchange, StoreFails, Revoke, vars
<1> QED
  BY <1>1, StepPosted, StepPlaces DEF SerialInv

-----------------------------------------------------------------------------
(***************************************************************************)
(* The grants that the documents and the requests in service stand for.    *)
(***************************************************************************)
\* What request t carries of flow f.
Carries(t, f) ==
  \/ task[t].pc \in {"popSession", "putCode"} /\ task[t].flow = f
  \/ /\ task[t].pc \in {"popCode", "upstream"} /\ task[t].code # None
     /\ issued[task[t].code].flow = f

\* Where a flow can be that is not in the hands of another request.
Local(t, f) == f \in sessions \/ Carries(t, f) \/ \E k \in codes : issued[k].flow = f

Asked    == {f \in Flows : flow[f] # NoSession}
Open     == {f \in Flows : f \in sessions \/ InHand(f) \/ \E k \in codes : issued[k].flow = f}
Redeemed == {issued[p[1]].flow : p \in posts}

\* The invariant that keeps a grant of the in-memory store in one place (pop_session,
\* pop_code): what the handlers have in hand, nobody else has.
THEOREM SerialInvariant == Spec => []SerialInv
BY InitSerial, StepSerial, RedemptionInvariant, PTL DEF Spec

\* What store.py says of a store that fetches and deletes in one step: over the
\* in-memory store a code is presented upstream by one request only, once.
THEOREM RedeemedOnce == Spec => [](backend = "memory" => SingleShot)
<1>1. Init => SingleShot
  BY DEF Init, SingleShot
<1>2. /\ TypeOK /\ SerialInv /\ (backend = "memory" => SingleShot) /\ [Next]_vars
      => (backend = "memory" => SingleShot)'
  <2> SUFFICES ASSUME TypeOK, SerialInv, backend = "memory" => SingleShot, [Next]_vars,
                      backend' = "memory"
               PROVE  SingleShot'
    OBVIOUS
  <2>1. OnePlace /\ SingleShot
    BY DEF SerialInv, Next, Serve, Authorize, PinRedirect, PutSession, RefuseType, Callback,
       PopSession, PutCode, Token, RefreshToken, GetCode, PopCode, Exchange, StoreFails, Revoke, vars
  <2>2. CASE UNCHANGED posts
    BY <2>1, <2>2 DEF SingleShot
  <2>3. ASSUME NEW t \in Requests, Exchange(t), task[t].code # None PROVE SingleShot'
    <3>1. posts' = posts \union {<<task[t].code, t>>} /\ \A p \in posts : p[1] # task[t].code
      BY <2>1, <2>3 DEF Exchange, OnePlace
    <3> QED BY <2>1, <3>1 DEF SingleShot
  <2> QED
    BY <2>2, <2>3 DEF Next, Serve, Authorize, PinRedirect, PutSession, RefuseType, Callback,
       PopSession, PutCode, Token, RefreshToken, GetCode, PopCode, Exchange, StoreFails, Revoke, docs, vars
<1> QED BY <1>1, <1>2, ProxyTypeCorrect, SerialInvariant, PTL DEF Spec

LEMMA OpenHeld ==
  ASSUME NEW f \in Flows, NEW t \in Requests
  PROVE  f \in Open <=> Local(t, f) \/ \E u \in Requests \ {t} : Carries(u, f)
BY DEF Open, Local, InHand, Carries

\* A request another one does not touch carries what it carried.
LEMMA CarriesKeep ==
  ASSUME TypeOK, RedemptionInv, Grows, NEW u \in Requests, task'[u] = task[u], NEW f \in Flows
  PROVE  Carries(u, f)' <=> Carries(u, f)
<1>1. task[u] \in Task /\ Serving(task[u])
  BY DEF TypeOK, RedemptionInv
<1>2. task[u].code # None => issued'[task[u].code] = issued[task[u].code]
  BY <1>1 DEF Serving, Grows, Task
<1> QED
  BY <1>2 DEF Carries

\* A flow is as open as before if it is as near as before to the request that moved.
LEMMA OpenMoves ==
  ASSUME TypeOK, RedemptionInv, Grows, NEW t \in Requests,
         \A u \in Requests \ {t} : task'[u] = task[u],
         NEW f \in Flows, Local(t, f)' <=> Local(t, f)
  PROVE  f \in Open' <=> f \in Open
<1>1. f \in Open <=> Local(t, f) \/ \E u \in Requests \ {t} : Carries(u, f)
  BY OpenHeld
<1>2. f \in Open' <=> Local(t, f)' \/ \E u \in Requests \ {t} : Carries(u, f)'
  BY DEF Open, Local, InHand, Carries
<1>3. \A u \in Requests \ {t} : Carries(u, f)' <=> Carries(u, f)
  BY CarriesKeep
<1> QED
  BY <1>1, <1>2, <1>3

\* No step changes the flow of a code that was posted.
LEMMA RedeemedKeeps ==
  ASSUME TypeOK, RedemptionInv, Posted, Grows
  PROVE  {issued'[p[1]].flow : p \in posts} = Redeemed
<1>1. \A p \in posts : p[1] \in Codes /\ issued[p[1]] # NoCode
  BY DEF TypeOK, Posted, RedemptionInv, Exists
<1>2. \A p \in posts : issued'[p[1]] = issued[p[1]]
  BY <1>1 DEF Grows
<1> QED
  BY <1>2 DEF Redeemed

LEMMA AskedKeeps == ASSUME flow' = flow PROVE Asked' = Asked
BY DEF Asked

\* The store is chosen once.
LEMMA BackendStays == [Next]_vars => backend' = backend
BY DEF Next, Serve, Authorize, PinRedirect, PutSession, RefuseType, Callback, PopSession,
       PutCode, Token, RefreshToken, GetCode, PopCode, Exchange, StoreFails, Revoke, vars

LEMMA GrantSame ==
  ASSUME Asked' = Asked, Open' = Open, Redeemed' = Redeemed, backend' = backend
  PROVE  UNCHANGED Promise!vars
BY DEF Promise!vars, Asked, Open, Redeemed

LEMMA GrantAsk ==
  ASSUME NEW f \in Flows, f \notin Asked, Asked' = Asked \union {f}, Open' = Open \union {f},
         Redeemed' = Redeemed, backend' = backend
  PROVE  Promise!Next
BY DEF Promise!Next, Promise!Ask, Asked, Open, Redeemed

LEMMA GrantRedeem ==
  ASSUME NEW f \in Flows, f \in Open, f \notin Redeemed \/ backend # "memory",
         Redeemed' = Redeemed \union {f}, Open' = Open \ {f},
         Asked' = Asked, backend' = backend
  PROVE  Promise!Next
BY DEF Promise!Next, Promise!Redeem, Asked, Open, Redeemed

LEMMA GrantShare ==
  ASSUME NEW f \in Flows, f \in Open, backend # "memory",
         Redeemed' = Redeemed \union {f}, Open' = Open,
         Asked' = Asked, backend' = backend
  PROVE  Promise!Next
BY DEF Promise!Next, Promise!Redeem, Asked, Open, Redeemed

LEMMA GrantLapse ==
  ASSUME NEW f \in Flows, f \in Open, Open' = Open \ {f},
         Redeemed' = Redeemed, Asked' = Asked, backend' = backend
  PROVE  Promise!Next
BY DEF Promise!Next, Promise!Lapse, Asked, Open, Redeemed

\* A step that leaves the request that moves as near to every flow as it was.
LEMMA QuietStep ==
  ASSUME TypeOK, RedemptionInv, Posted, Grows, NEW t \in Requests,
         \A u \in Requests \ {t} : task'[u] = task[u],
         UNCHANGED <<backend, flow, posts>>,
         \A f \in Flows : Local(t, f)' <=> Local(t, f)
  PROVE  UNCHANGED Promise!vars
<1>1. \A f \in Flows : f \in Open' <=> f \in Open
  BY OpenMoves
<1>2. Open' = Open
  BY <1>1 DEF Open
<1>3. Redeemed' = Redeemed
  BY RedeemedKeeps DEF Redeemed
<1> QED
  BY <1>2, <1>3, AskedKeeps, GrantSame

\* A step that takes the request that moves away from the one flow it had.
LEMMA LapseStep ==
  ASSUME TypeOK, RedemptionInv, Posted, Grows, NEW t \in Requests,
         \A u \in Requests \ {t} : task'[u] = task[u],
         UNCHANGED <<backend, flow, posts>>,
         NEW g \in Flows, Local(t, g),
         \A f \in Flows \ {g} : Local(t, f)' <=> Local(t, f)
  PROVE  [Promise!Next]_(Promise!vars)
<1>1. \A f \in Flows \ {g} : f \in Open' <=> f \in Open
  BY OpenMoves
<1>2. g \in Open
  BY OpenHeld
<1>3. Open' = Open \/ Open' = Open \ {g}
  BY <1>1, <1>2 DEF Open
<1>4. Redeemed' = Redeemed
  BY RedeemedKeeps DEF Redeemed
<1> QED
  BY <1>2, <1>3, <1>4, AskedKeeps, GrantSame, GrantLapse

\* A request that is answered has nothing in hand.
LEMMA NothingCarried ==
  ASSUME NEW t \in Requests,
         task'[t].pc \notin {"popSession", "putCode", "popCode"},
         task'[t].pc = "upstream" => task'[t].code = None
  PROVE  \A f \in Flows : ~Carries(t, f)'
BY DEF Carries

\* The code of a presented flow is a copy of a session of that flow.
LEMMA FlowOfCode ==
  ASSUME TypeOK, RedemptionInv, NEW t \in Requests, task[t].code # None
  PROVE  task[t].code \in Codes /\ issued[task[t].code].flow \in Flows
<1>1. task[t].code \in Codes /\ issued[task[t].code] # NoCode
  BY DEF TypeOK, Task, RedemptionInv, Serving
<1>2. Copied(task[t].code) /\ issued[task[t].code] \in Code
  BY <1>1 DEF RedemptionInv, CopiesSession, TypeOK
<1> QED
  BY <1>1, <1>2 DEF Copied, Code

\* /authorize asks for a grant when it stores the session.
LEMMA PutSessionAsks ==
  ASSUME TypeOK, RedemptionInv, Posted, Grows, NEW t \in Requests, PutSession(t)
  PROVE  Promise!Next
<1>1. /\ task'[t] = Fresh /\ \A u \in Requests \ {t} : task'[u] = task[u]
      /\ UNCHANGED <<backend, posts, codes, issued>> /\ task[t].pc = "session"
  BY DEF PutSession, Answers, TypeOK
<1>2. PICK f \in Flows, challenge \in BOOLEAN :
        /\ flow[f] = NoSession
        /\ flow' = [flow EXCEPT ![f] =
             [client |-> task[t].client, redirect |-> task[t].redirect,
              challenge |-> challenge]]
        /\ sessions' = sessions \union {f}
  BY DEF PutSession
<1>3. flow'[f] # NoSession /\ \A g \in Flows \ {f} : flow'[g] = flow[g]
  BY <1>1, <1>2 DEF RedemptionInv, Serving, NoSession, TypeOK
<1>4. f \notin Asked /\ Asked' = Asked \union {f}
  BY <1>2, <1>3 DEF Asked
<1>5. \A g \in Flows : ~Carries(t, g)' /\ ~Carries(t, g)
  BY <1>1 DEF Carries, Fresh
<1>6. \A g \in Flows \ {f} : Local(t, g)' <=> Local(t, g)
  BY <1>1, <1>2, <1>5 DEF Local
<1>7. \A g \in Flows \ {f} : g \in Open' <=> g \in Open
  BY <1>1, <1>6, OpenMoves
<1>8. f \in Open'
  BY <1>2 DEF Open
<1>9. Open' = Open \union {f}
  BY <1>7, <1>8 DEF Open
<1>10. Redeemed' = Redeemed
  BY <1>1, RedeemedKeeps DEF Redeemed
<1> QED
  BY <1>1, <1>4, <1>9, <1>10, GrantAsk

\* /callback takes the session, and the grant is in its hands or has lapsed.
LEMMA PopSessionLapses ==
  ASSUME TypeOK, RedemptionInv, Posted, Grows, NEW t \in Requests, PopSession(t)
  PROVE  [Promise!Next]_(Promise!vars)
<1> DEFINE g == task[t].flow
<1>1. /\ \A u \in Requests \ {t} : task'[u] = task[u]
      /\ UNCHANGED <<backend, flow, posts, codes, issued>> /\ task[t].pc = "popSession"
      /\ sessions' = sessions \ {g}
  BY DEF PopSession, SessionGone, Answers, Moves, TypeOK
<1>2. g \in Flows /\ task[t] \in Task
  BY <1>1 DEF RedemptionInv, Serving, TypeOK, Task
<1>3. Carries(t, g) /\ \A f \in Flows \ {g} : ~Carries(t, f)
  BY <1>1 DEF Carries
<1>4. \A f \in Flows \ {g} : ~Carries(t, f)'
  <2>1. CASE Answers(t)
    BY <2>1 DEF Answers, Carries, Fresh, TypeOK
  <2>2. CASE Moves(t, "putCode")
    <3>1. task'[t].pc = "putCode" /\ task'[t].flow = g
      BY <1>2, <2>2 DEF Moves, TypeOK, Task
    <3> QED
      BY <3>1 DEF Carries
  <2> QED
    BY <2>1, <2>2 DEF PopSession
<1>5. \A f \in Flows \ {g} : Local(t, f)' <=> Local(t, f)
  BY <1>1, <1>3, <1>4 DEF Local
<1>6. Local(t, g)
  BY <1>3 DEF Local
<1> QED
  BY <1>1, <1>2, <1>5, <1>6, LapseStep

\* The grant passes from the callback's hands into its code.
LEMMA PutCodePasses ==
  ASSUME TypeOK, RedemptionInv, Posted, Grows, NEW t \in Requests, PutCode(t)
  PROVE  UNCHANGED Promise!vars
<1> DEFINE g == task[t].flow
<1>1. /\ task'[t] = Fresh /\ \A u \in Requests \ {t} : task'[u] = task[u]
      /\ UNCHANGED <<backend, flow, posts, sessions>> /\ task[t].pc = "putCode"
  BY DEF PutCode, Answers, TypeOK
<1>2. PICK k \in Codes :
        /\ issued[k] = NoCode /\ issued'[k].flow = g
        /\ \A j \in Codes \ {k} : issued'[j] = issued[j]
        /\ codes' = codes \union {k}
  BY DEF PutCode, TypeOK
<1>3. k \notin codes
  BY <1>2 DEF RedemptionInv, Exists
<1>4. \A f \in Flows : Carries(t, f) <=> f = g
  BY <1>1 DEF Carries
<1>5. \A f \in Flows : ~Carries(t, f)'
  BY <1>1 DEF Carries, Fresh
<1>6. ASSUME NEW f \in Flows
      PROVE  (\E j \in codes' : issued'[j].flow = f) <=> f = g \/ \E j \in codes : issued[j].flow = f
  BY <1>2, <1>3 DEF TypeOK
<1>7. \A f \in Flows : Local(t, f)' <=> Local(t, f)
  BY <1>1, <1>4, <1>5, <1>6 DEF Local
<1> QED
  BY <1>1, <1>7, QuietStep

\* /token takes the code from the store: the grant is in its hands, or has lapsed.
LEMMA PopCodeLapses ==
  ASSUME TypeOK, RedemptionInv, Posted, Grows, NEW t \in Requests, PopCode(t)
  PROVE  [Promise!Next]_(Promise!vars)
<1> DEFINE k == task[t].code
           g == issued[k].flow
<1>1. /\ \A u \in Requests \ {t} : task'[u] = task[u]
      /\ UNCHANGED <<backend, flow, posts, sessions, issued>> /\ task[t].pc = "popCode"
      /\ codes' = codes \ {k}
  BY DEF PopCode, Spent, Answers, TypeOK
<1>2. k # None /\ task[t] \in Task
  BY <1>1 DEF RedemptionInv, Serving, TypeOK
<1>3. k \in Codes /\ g \in Flows
  BY <1>2, FlowOfCode
<1>4. Carries(t, g) /\ \A f \in Flows \ {g} : ~Carries(t, f)
  BY <1>1, <1>2 DEF Carries
<1>5. \A f \in Flows \ {g} : ~Carries(t, f)'
  <2>1. CASE Answers(t)
    BY <2>1 DEF Answers, Carries, Fresh, TypeOK
  <2>2. CASE ~Answers(t)
    <3>1. PICK r \in Redirects \union {None}, v \in Flows \union {None} :
            task' = [task EXCEPT ![t].pc = "upstream", ![t].redirect = r, ![t].verifier = v]
      BY <2>2 DEF PopCode
    <3>2. task'[t] = [task[t] EXCEPT !.pc = "upstream", !.redirect = r, !.verifier = v]
      BY <3>1 DEF TypeOK
    <3>3. task'[t].pc = "upstream" /\ task'[t].code = k
      BY <1>2, <3>2 DEF Task
    <3> QED
      BY <1>1, <3>3 DEF Carries
  <2> QED
    BY <2>1, <2>2
<1>6. \A f \in Flows \ {g} :
        (\E j \in codes' : issued'[j].flow = f) <=> \E j \in codes : issued[j].flow = f
  BY <1>1
<1>7. \A f \in Flows \ {g} : Local(t, f)' <=> Local(t, f)
  BY <1>1, <1>4, <1>5, <1>6 DEF Local
<1>8. Local(t, g)
  BY <1>4 DEF Local
<1> QED
  BY <1>1, <1>3, <1>7, <1>8, LapseStep

\* A code that is spent leaves nothing of its flow behind in the in-memory store.
LEMMA LastPlace ==
  ASSUME TypeOK, RedemptionInv, Posted, OnePlace, NEW t \in Requests,
         task[t].pc = "upstream", task[t].code # None
  PROVE  LET g == issued[task[t].code].flow
         IN  /\ g \notin sessions /\ \A j \in codes : issued[j].flow # g
             /\ \A u \in Requests \ {t} : ~Carries(u, g)
             /\ g \notin Redeemed
<1> DEFINE k == task[t].code
           g == issued[k].flow
<1>1. k \in Codes /\ g \in Flows /\ issued[k] # NoCode /\ k \notin codes
  BY FlowOfCode DEF RedemptionInv, Serving
<1>2. \A j \in Codes : issued[j] # NoCode /\ issued[j].flow = g => j = k
  BY <1>1 DEF OnePlace
<1>3. g \notin sessions
  BY <1>1 DEF RedemptionInv, CopiesSession, Copied
<1>4. \A j \in codes : issued[j].flow # g
  BY <1>1, <1>2 DEF RedemptionInv, Exists, TypeOK
<1>5. ASSUME NEW u \in Requests \ {t}, Carries(u, g) PROVE FALSE
  <2>1. CASE task[u].pc = "popSession" /\ task[u].flow = g
    BY <1>3, <2>1 DEF OnePlace
  <2>2. CASE task[u].pc = "putCode" /\ task[u].flow = g
    BY <1>1, <2>2 DEF OnePlace
  <2>3. CASE task[u].pc \in {"popCode", "upstream"} /\ task[u].code # None
             /\ issued[task[u].code].flow = g
    <3>1. task[u].code \in Codes /\ issued[task[u].code] # NoCode
      BY <2>3, FlowOfCode DEF RedemptionInv, Serving
    <3>2. task[u].code = k
      BY <1>2, <2>3, <3>1
    <3>3. CASE task[u].pc = "popCode"
      BY <1>1, <3>2, <3>3 DEF OnePlace
    <3>4. CASE task[u].pc = "upstream"
      BY <3>2, <3>4 DEF OnePlace
    <3> QED
      BY <2>3, <3>3, <3>4
  <2> QED
    BY <1>5, <2>1, <2>2, <2>3 DEF Carries
<1>6. ASSUME NEW p \in posts, issued[p[1]].flow = g PROVE FALSE
  <2>1. p[1] # k
    BY DEF OnePlace
  <2>2. p[1] \in Codes /\ issued[p[1]] # NoCode
    BY DEF Posted, RedemptionInv, Exists, TypeOK
  <2> QED
    BY <1>2, <1>6, <2>1, <2>2
<1> QED
  BY <1>3, <1>4, <1>5, <1>6 DEF Redeemed

\* The upstream is asked: the grant is redeemed, over the in-memory store for the
\* first time and the last.
LEMMA ExchangeRedeems ==
  ASSUME TypeOK, RedemptionInv, SerialInv, Grows, NEW t \in Requests, Exchange(t)
  PROVE  [Promise!Next]_(Promise!vars)
<1> DEFINE k == task[t].code
<1>1. /\ task'[t] = Fresh /\ \A u \in Requests \ {t} : task'[u] = task[u]
      /\ UNCHANGED <<backend, flow, sessions, issued, codes>> /\ task[t].pc = "upstream"
      /\ IF k = None THEN posts' = posts ELSE posts' = posts \union {<<k, t>>}
  BY DEF Exchange, docs, Answers, TypeOK
<1>2. \A f \in Flows : ~Carries(t, f)'
  BY <1>1 DEF Carries, Fresh
<1>3. Posted
  BY DEF SerialInv
<1>4. CASE k = None
  <2>1. \A f \in Flows : ~Carries(t, f)
    BY <1>1, <1>4 DEF Carries
  <2>2. \A f \in Flows : Local(t, f)' <=> Local(t, f)
    BY <1>1, <1>2, <2>1 DEF Local
  <2> QED
    BY <1>1, <1>3, <1>4, <2>2, QuietStep
<1>5. CASE k # None
  <2>1. PICK g \in Flows : g = issued[k].flow
    BY <1>5, FlowOfCode
  <2>2. Carries(t, g) /\ \A f \in Flows \ {g} : ~Carries(t, f)
    BY <1>1, <1>5, <2>1 DEF Carries
  <2>3. \A f \in Flows \ {g} : Local(t, f)' <=> Local(t, f)
    BY <1>1, <1>2, <2>2 DEF Local
  <2>4. \A f \in Flows \ {g} : f \in Open' <=> f \in Open
    BY <1>1, <2>3, OpenMoves
  <2>5. g \in Open
    BY <2>1, <2>2, OpenHeld DEF Local
  <2>6. Open' = Open \/ Open' = Open \ {g}
    BY <2>4, <2>5 DEF Open
  <2>7. Redeemed' = Redeemed \union {g}
    <3>1. Redeemed' = {issued[p[1]].flow : p \in posts \union {<<k, t>>}}
      BY <1>1, <1>5 DEF Redeemed
    <3>2. issued[<<k, t>>[1]].flow = g
      BY <2>1
    <3> HIDE DEF k
    <3> QED
      BY <3>1, <3>2 DEF Redeemed
  <2>8. Asked' = Asked
    BY <1>1, AskedKeeps
  <2>9. CASE backend = "memory"
    <3>1. /\ g \notin sessions /\ \A j \in codes : issued[j].flow # g
          /\ \A u \in Requests \ {t} : ~Carries(u, g)
          /\ g \notin Redeemed
      BY <1>1, <1>3, <1>5, <2>1, <2>9, LastPlace DEF SerialInv
    <3>2. \A u \in Requests \ {t} : ~Carries(u, g)'
      BY <1>1, <2>1, <3>1, CarriesKeep
    <3>3. g \notin Open'
      BY <1>1, <1>2, <2>1, <3>1, <3>2 DEF Open, InHand, Carries
    <3>4. Open' = Open \ {g}
      BY <2>5, <2>6, <3>3
    <3>5. g \notin Redeemed /\ backend' = backend
      BY <1>1, <3>1
    <3>6. Promise!Next
      BY <2>5, <2>7, <2>8, <3>4, <3>5, GrantRedeem
    <3> QED
      BY <3>6
  <2>10. CASE backend # "memory"
    <3>1. backend' = backend
      BY <1>1
    <3>2. Promise!Next
      BY <2>5, <2>6, <2>7, <2>8, <2>10, <3>1, GrantRedeem, GrantShare
    <3> QED
      BY <3>2
  <2> QED
    BY <2>9, <2>10
<1> QED
  BY <1>4, <1>5

\* Requests that do not touch a session or a code leave every grant as it is.
LEMMA IdleGrants ==
  ASSUME TypeOK, RedemptionInv, Posted, Grows, NEW t \in Requests,
         \A u \in Requests \ {t} : task'[u] = task[u],
         UNCHANGED <<backend, flow, posts, sessions, issued, codes>>,
         \A f \in Flows : ~Carries(t, f) \/ Local(t, f)',
         \A f \in Flows : ~Carries(t, f)' \/ Local(t, f)
  PROVE  UNCHANGED Promise!vars
<1>1. \A f \in Flows : Local(t, f)' <=> Local(t, f)
  BY DEF Local
<1> QED
  BY <1>1, QuietStep

\* A request that dies at the store lets go of what it carried, if it carried anything.
LEMMA StoreFailsLapses ==
  ASSUME TypeOK, RedemptionInv, Posted, Grows, NEW t \in Requests, StoreFails(t)
  PROVE  [Promise!Next]_(Promise!vars)
<1>1. /\ task'[t] = Fresh /\ \A u \in Requests \ {t} : task'[u] = task[u]
      /\ UNCHANGED <<backend, flow, posts, sessions, issued, codes>>
  BY DEF StoreFails, docs, Answers, TypeOK
<1>2. \A f \in Flows : ~Carries(t, f)'
  BY <1>1 DEF Carries, Fresh
<1>3. CASE \A f \in Flows : ~Carries(t, f)
  <2>1. UNCHANGED Promise!vars
    BY <1>1, <1>2, <1>3, IdleGrants
  <2> QED BY <2>1
<1>4. ASSUME NEW g \in Flows, Carries(t, g) PROVE [Promise!Next]_(Promise!vars)
  <2>1. \A f \in Flows \ {g} : ~Carries(t, f)
    BY <1>4 DEF Carries
  <2>2. \A f \in Flows \ {g} : Local(t, f)' <=> Local(t, f)
    BY <1>1, <1>2, <2>1 DEF Local
  <2>3. Local(t, g)
    BY <1>4 DEF Local
  <2> QED
    BY <1>1, <2>2, <2>3, LapseStep
<1> QED
  BY <1>3, <1>4

LEMMA StepGrants ==
  ASSUME TypeOK, RedemptionInv, SerialInv, [Next]_vars
  PROVE  [Promise!Next]_(Promise!vars)
<1>0. Grows /\ Posted /\ backend' = backend
  BY StepGrows, BackendStays DEF SerialInv
<1>1. ASSUME NEW t \in Requests,
             Authorize(t) \/ PinRedirect(t) \/ RefuseType(t) \/ Token(t) \/ RefreshToken(t)
      PROVE  UNCHANGED Promise!vars
  <2>1. /\ UNCHANGED <<flow, posts, sessions, issued, codes>>
        /\ \A u \in Requests \ {t} : task'[u] = task[u]
        /\ task[t].pc \in {"idle", "pin", "session"}
    BY <1>1 DEF Authorize, PinRedirect, RefuseType, Token, RefreshToken, docs, Answers, Moves, TypeOK
  <2>2. /\ task'[t].pc \notin {"popSession", "putCode", "popCode"}
        /\ task'[t].pc = "upstream" => task'[t].code = None
    <3>1. CASE Authorize(t)
      <4>1. PICK c \in Clients, r \in Redirects :
              task'[t] = [Fresh EXCEPT !.pc = IF MustPin(clients[c]) THEN "pin" ELSE "session",
                                       !.client = c, !.redirect = r, !.late = c \in revoked]
        BY <3>1 DEF Authorize, TypeOK
      <4>2. task'[t].pc \in {"pin", "session"}
        BY <4>1 DEF Fresh
      <4> QED
        BY <4>2
    <3>2. CASE PinRedirect(t)
      BY <3>2 DEF PinRedirect, Moves, TypeOK, Task
    <3>3. CASE RefuseType(t)
      BY <3>3 DEF RefuseType, Answers, Fresh, TypeOK
    <3>4. CASE Token(t)
      BY <3>4 DEF Token, Fresh, TypeOK
    <3>5. CASE RefreshToken(t)
      BY <3>5 DEF RefreshToken, Fresh, TypeOK
    <3> QED
      BY <1>1, <3>1, <3>2, <3>3, <3>4, <3>5
  <2>3. \A f \in Flows : ~Carries(t, f)'
    BY <2>2, NothingCarried
  <2>4. \A f \in Flows : ~Carries(t, f)
    BY <2>1 DEF Carries
  <2> QED
    BY <1>0, <2>1, <2>3, <2>4, IdleGrants
<1>2. ASSUME NEW t \in Requests, Callback(t) PROVE UNCHANGED Promise!vars
  <2>1. /\ UNCHANGED <<flow, posts, sessions, issued, codes>> /\ task[t].pc = "idle"
        /\ \A u \in Requests \ {t} : task'[u] = task[u]
    BY <1>2 DEF Callback, docs, TypeOK
  <2>2. PICK f \in sessions : task'[t] = [Fresh EXCEPT !.pc = "popSession", !.flow = f]
    BY <1>2 DEF Callback, TypeOK
  <2>3. \A g \in Flows : Carries(t, g)' => g \in sessions
    BY <2>2 DEF Carries, Fresh
  <2>4. \A g \in Flows : ~Carries(t, g)
    BY <2>1 DEF Carries
  <2>5. \A g \in Flows : ~Carries(t, g)' \/ Local(t, g)
    BY <2>3 DEF Local
  <2> QED
    BY <1>0, <2>1, <2>4, <2>5, IdleGrants
<1>3. ASSUME NEW t \in Requests, GetCode(t) PROVE UNCHANGED Promise!vars
  <2>1. /\ UNCHANGED <<flow, posts, sessions, issued, codes>> /\ task[t].pc = "getCode"
        /\ \A u \in Requests \ {t} : task'[u] = task[u]
    BY <1>3 DEF GetCode, docs, Answers, Moves, TypeOK
  <2>2. \A g \in Flows : ~Carries(t, g)
    BY <2>1 DEF Carries
  <2>3. \A g \in Flows : ~Carries(t, g)' \/ Local(t, g)
    <3>1. CASE task[t].code \in codes
      <4>1. task'[t].pc = "popCode" /\ task'[t].code = task[t].code
        BY <1>3, <3>1 DEF GetCode, Moves, TypeOK, Task
      <4> QED
        BY <2>1, <3>1, <4>1 DEF Carries, Local
    <3>2. CASE task[t].code \notin codes
      <4>1. task'[t] = Fresh
        BY <1>3, <3>2 DEF GetCode, Answers, TypeOK
      <4> QED
        BY <4>1 DEF Carries, Fresh
    <3> QED
      BY <3>1, <3>2
  <2> QED
    BY <1>0, <2>1, <2>2, <2>3, IdleGrants
<1>4. ASSUME NEW c \in Clients, Revoke(c) PROVE UNCHANGED Promise!vars
  <2>1. UNCHANGED <<backend, flow, posts, sessions, issued, codes, task>>
    BY <1>4 DEF Revoke
  <2> QED
    BY <2>1 DEF Promise!vars, InHand
<1>5. CASE UNCHANGED vars
  <2>1. UNCHANGED <<backend, flow, posts, sessions, issued, codes, task>>
    BY <1>5 DEF vars
  <2> QED
    BY <2>1 DEF Promise!vars, InHand
<1>6. ASSUME NEW t \in Requests, Serve(t) PROVE [Promise!Next]_(Promise!vars)
  BY <1>0, <1>1, <1>2, <1>3, <1>6, PutSessionAsks, PopSessionLapses, PutCodePasses,
     PopCodeLapses, ExchangeRedeems, StoreFailsLapses DEF Serve
<1> QED
  BY <1>4, <1>5, <1>6 DEF Next

\* Each authorization lives once, whatever requests overlap: asked for, redeemed
\* only while it is open, and over the in-memory store at most once (proxy.py's
\* authorize, callback and token against the two stores).
THEOREM ProxyImplementsGrants == Spec => ImplementsGrants
<1>1. Init => Promise!Init
  BY DEF Init, Promise!Init, InHand, Fresh
<1>2. TypeOK /\ RedemptionInv /\ SerialInv /\ [Next]_vars => [Promise!Next]_(Promise!vars)
  BY StepGrants
<1> QED
  BY <1>1, <1>2, RedemptionInvariant, SerialInvariant, PTL DEF Spec, ImplementsGrants, Promise!Spec
=============================================================================
