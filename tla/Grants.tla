------------------------------- MODULE Grants -------------------------------
(***************************************************************************)
(* What the OAuth proxy promises of one user's authorization: it is asked  *)
(* for, it is open until it is redeemed or lapses, and a lapsed one is     *)
(* never redeemed.  With a store that fetches and deletes in one step it   *)
(* is redeemed at most once; with one that does not, requests that are     *)
(* served at the same time may share it.                                   *)
(***************************************************************************)
CONSTANT Flows

VARIABLES asked,     \* authorizations that were ever begun
          open,      \* those that can still be redeemed
          redeemed,  \* those whose upstream code was presented upstream
          serial     \* the store fetches and deletes in one step

vars == <<asked, open, redeemed, serial>>

Init ==
  /\ asked = {} /\ open = {} /\ redeemed = {}
  /\ serial \in BOOLEAN

Ask(f) ==
  /\ f \notin asked
  /\ asked' = asked \union {f} /\ open' = open \union {f}
  /\ UNCHANGED <<redeemed, serial>>

Redeem(f) ==
  /\ f \in open
  /\ serial => f \notin redeemed
  /\ redeemed' = redeemed \union {f}
  /\ open' \in {open \ {f}} \union (IF serial THEN {} ELSE {open})
  /\ UNCHANGED <<asked, serial>>

\* Expired, refused at the upstream, or presented by the wrong hands.
Lapse(f) ==
  /\ f \in open
  /\ open' = open \ {f}
  /\ UNCHANGED <<asked, redeemed, serial>>

Next == \E f \in Flows : Ask(f) \/ Redeem(f) \/ Lapse(f)

Spec == Init /\ [][Next]_vars
=============================================================================
