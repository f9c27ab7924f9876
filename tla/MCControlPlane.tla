--------------------------- MODULE MCControlPlane ---------------------------
(***************************************************************************)
(* ControlPlane for TLC.                                                   *)
(***************************************************************************)
EXTENDS ControlPlane, TLC

Symmetry == Permutations(Mcps) \union Permutations(Tasks)

\* Bound: when the last execution has begun, states in which something was written
\* over unseen are reached and checked, but not gone on from.
Explored == runs < MaxRuns \/ (clobbered = {} /\ ~raced)
=============================================================================
