------------------------------- MODULE MCOAuth -------------------------------
(***************************************************************************)
(* OAuthProxy for TLC, and what store.py says of concurrent redemptions.   *)
(***************************************************************************)
EXTENDS OAuthProxy, TLC

Symmetry == Permutations(Clients) \union Permutations(Redirects)
            \union Permutations(Flows) \union Permutations(Codes)
            \union Permutations(Requests)

\* "Deleting before use makes redemption single-shot even under concurrent
\* requests hitting different Cloud Run instances" (store.py:236): a code is
\* presented upstream by one request only.
SingleShot ==
  \A p, q \in posts : p[1] = q[1] => p = q
=============================================================================
