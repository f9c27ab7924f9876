---------------------------- MODULE InTurnProofs ----------------------------
(***************************************************************************)
(* Where Firestore is as good as the in-memory store.  A handler between   *)
(* two waits for the upstream is one that has read a document and not yet  *)
(* written or deleted it.  If no other handler moves in the meantime, and  *)
(* no call to the store raises, the proxy over Firestore does nothing that *)
(* it could not do over the in-memory store, so that all it promises there *)
(* it keeps.                                                               *)
(***************************************************************************)
EXTENDS OAuthProofs

\* The same proxy, its documents and its requests, over the in-memory store.
Atomic == INSTANCE OAuthProofs WITH Backends <- {"memory"}, backend <- "memory"

\* Whoever is between two waits is the next to move, before any other handler
\* and before a teardown deletes a client.
Uninterrupted == \A t \in Requests : task[t].pc \in GivesWay \/ task'[t] # task[t]

\* No request is lost at the store: an in-memory store has no call that raises.
StoreAnswers == \A t \in Requests : StoreFails(t) => RefuseType(t) \/ GetCode(t)

Undisturbed == Uninterrupted /\ StoreAnswers

\* A handler changes its own entry.
LEMMA MovesAlone ==
  ASSUME TypeOK, NEW t \in Requests, Serve(t)
  PROVE  \A u \in Requests \ {t} : task'[u] = task[u]
BY DEF TypeOK, Serve, Authorize, PinRedirect, PutSession, RefuseType, Callback, PopSession, PutCode,
       Token, RefreshToken, GetCode, PopCode, Exchange, StoreFails, Moves, Answers

\* Undisturbed, a handler has its turn over the in-memory store as well.
LEMMA HasTurn ==
  ASSUME TypeOK, NEW t \in Requests, Serve(t), Uninterrupted
  PROVE  Atomic!Turn(t)
BY MovesAlone DEF Uninterrupted, Atomic!Turn, GivesWay, Atomic!GivesWay

\* An undisturbed step over either store is one over the in-memory store.
LEMMA AuthorizeAlike ==
  ASSUME NEW t \in Requests, Atomic!Turn(t)
  PROVE  /\ Authorize(t)   => Atomic!Authorize(t)
         /\ PinRedirect(t) => Atomic!PinRedirect(t)
         /\ PutSession(t)  => Atomic!PutSession(t)
         /\ RefuseType(t)  => Atomic!RefuseType(t)
<1>1. Authorize(t) => Atomic!Authorize(t)
  BY DEF Authorize, ValidRedirect, MustPin, Fresh, None, docs,
         Atomic!Authorize, Atomic!ValidRedirect, Atomic!MustPin, Atomic!Fresh, Atomic!None, Atomic!docs
<1>2. PinRedirect(t) => Atomic!PinRedirect(t)
  BY DEF PinRedirect, Pinned, Moves, Atomic!PinRedirect, Atomic!Pinned, Atomic!Moves
<1>3. PutSession(t) => Atomic!PutSession(t)
  BY DEF PutSession, NoSession, Answers, Fresh, None,
         Atomic!PutSession, Atomic!NoSession, Atomic!Answers, Atomic!Fresh, Atomic!None
<1>4. RefuseType(t) => Atomic!RefuseType(t)
  BY DEF RefuseType, Answers, Fresh, None, docs,
         Atomic!RefuseType, Atomic!Answers, Atomic!Fresh, Atomic!None, Atomic!docs
<1> QED BY <1>1, <1>2, <1>3, <1>4

LEMMA CallbackAlike ==
  ASSUME NEW t \in Requests, Atomic!Turn(t)
  PROVE  /\ Callback(t)   => Atomic!Callback(t)
         /\ PopSession(t) => Atomic!PopSession(t)
         /\ PutCode(t)    => Atomic!PutCode(t)
<1>1. Callback(t) => Atomic!Callback(t)
  BY DEF Callback, Fresh, None, docs, Atomic!Callback, Atomic!Fresh, Atomic!None, Atomic!docs
<1>2. PopSession(t) => Atomic!PopSession(t)
  BY DEF PopSession, SessionGone, Moves, Answers, Fresh, None,
         Atomic!PopSession, Atomic!SessionGone, Atomic!Moves, Atomic!Answers, Atomic!Fresh, Atomic!None
<1>3. PutCode(t) => Atomic!PutCode(t)
  BY DEF PutCode, NoCode, Answers, Fresh, None,
         Atomic!PutCode, Atomic!NoCode, Atomic!Answers, Atomic!Fresh, Atomic!None
<1> QED BY <1>1, <1>2, <1>3

LEMMA TokenAlike ==
  ASSUME NEW t \in Requests, Atomic!Turn(t)
  PROVE  /\ Token(t)        => Atomic!Token(t)
         /\ RefreshToken(t) => Atomic!RefreshToken(t)
         /\ GetCode(t)      => Atomic!GetCode(t)
         /\ PopCode(t)      => Atomic!PopCode(t)
         /\ Exchange(t)     => Atomic!Exchange(t)
<1>1. Token(t) => Atomic!Token(t)
  BY DEF Token, Known, NoCode, Fresh, None, docs,
         Atomic!Token, Atomic!Known, Atomic!NoCode, Atomic!Fresh, Atomic!None, Atomic!docs
<1>2. RefreshToken(t) => Atomic!RefreshToken(t)
  BY DEF RefreshToken, Known, Fresh, None, docs,
         Atomic!RefreshToken, Atomic!Known, Atomic!Fresh, Atomic!None, Atomic!docs
<1>3. GetCode(t) => Atomic!GetCode(t)
  BY DEF GetCode, Moves, Answers, Fresh, None, docs,
         Atomic!GetCode, Atomic!Moves, Atomic!Answers, Atomic!Fresh, Atomic!None, Atomic!docs
<1>4. PopCode(t) => Atomic!PopCode(t)
  BY DEF PopCode, Spent, Accepts, Answers, Fresh, None,
         Atomic!PopCode, Atomic!Spent, Atomic!Accepts, Atomic!Answers, Atomic!Fresh, Atomic!None
<1>5. Exchange(t) => Atomic!Exchange(t)
  BY DEF Exchange, Answers, Fresh, None, docs,
         Atomic!Exchange, Atomic!Answers, Atomic!Fresh, Atomic!None, Atomic!docs
<1> QED BY <1>1, <1>2, <1>3, <1>4, <1>5

LEMMA StepsAlike ==
  TypeOK /\ [Next]_vars /\ [Undisturbed]_vars => [Atomic!Next]_(Atomic!vars)
<1> SUFFICES ASSUME TypeOK, [Next]_vars, [Undisturbed]_vars PROVE [Atomic!Next]_(Atomic!vars)
  OBVIOUS
<1>1. CASE UNCHANGED vars
  BY <1>1 DEF vars, Atomic!vars
<1>2. ASSUME NEW t \in Requests, Serve(t), Undisturbed PROVE Atomic!Next
  <2>1. Atomic!Turn(t)
    BY <1>2, HasTurn DEF Undisturbed
  <2>2. Atomic!Serve(t)
    BY <1>2, <2>1, AuthorizeAlike, CallbackAlike, TokenAlike
       DEF Undisturbed, StoreAnswers, Serve, Atomic!Serve
  <2> QED BY <2>2 DEF Atomic!Next
<1>3. ASSUME NEW c \in Clients, Revoke(c), Undisturbed PROVE Atomic!Next
  <2>1. \A t \in Requests : task[t].pc \in Atomic!GivesWay
    BY <1>3 DEF Revoke, Undisturbed, Uninterrupted, GivesWay, Atomic!GivesWay
  <2>2. Atomic!Revoke(c)
    BY <1>3, <2>1 DEF Revoke, Atomic!Revoke
  <2> QED BY <2>2 DEF Atomic!Next
<1> QED BY <1>1, <1>2, <1>3 DEF Next

\* Undisturbed, the proxy over Firestore is the proxy over the in-memory store.
THEOREM UndisturbedIsAtomic == Spec /\ [][Undisturbed]_vars => Atomic!Spec
<1>1. Init => Atomic!Init
  BY DEF Init, NoSession, NoCode, Fresh, None,
         Atomic!Init, Atomic!NoSession, Atomic!NoCode, Atomic!Fresh, Atomic!None
<1> QED BY <1>1, StepsAlike, ProxyTypeCorrect, PTL DEF Spec, Atomic!Spec

\* What store.py and proxy.py promise of one-time codes, pins and revocations, and
\* Firestore's read and write in two calls can break, a proxy over Firestore keeps if
\* its handlers are not interrupted between the two and the store does not fail: a
\* code is presented upstream once, sessions return to the pinned redirect only, a
\* deleted client serves nobody who comes later, and an authorization is redeemed
\* once (of the store in Atomic, PinHolds, RevokedIsInert and ImplementsGrants make
\* no exception).
THEOREM UndisturbedKeepsAll ==
  Spec /\ [][Undisturbed]_vars =>
    [](SingleShot /\ Atomic!PinHolds /\ Atomic!RevokedIsInert) /\ Atomic!ImplementsGrants
<1>1. {"memory"} \subseteq {"memory", "firestore"} /\ Atomic!None \notin Clients \union Redirects \union Flows \union Codes
  BY NoneAssumption DEF None, Atomic!None
<1>2. /\ Atomic!Spec => [](("memory" = "memory") => Atomic!SingleShot)
      /\ Atomic!Spec => []Atomic!PinHolds
      /\ Atomic!Spec => []Atomic!RevokedIsInert
      /\ Atomic!Spec => Atomic!ImplementsGrants
  BY <1>1, Atomic!RedeemedOnce, Atomic!PinsHold, Atomic!RevokedClientsAreInert, Atomic!ProxyImplementsGrants
<1>3. (("memory" = "memory") => Atomic!SingleShot) => SingleShot
  BY DEF SingleShot, Atomic!SingleShot
<1> QED BY <1>2, <1>3, UndisturbedIsAtomic, PTL
=============================================================================
