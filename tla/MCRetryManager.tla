---------------------------- MODULE MCRetryManager -----------------------------
(***************************************************************************)
(* Instance of RetryManager for TLC: two handlers whose priorities are in  *)
(* the opposite order to the one they may be registered in.                *)
(***************************************************************************)
EXTENDS RetryManager, TLC

CONSTANTS c1, c2, c3, c4, h1, h2

\* The calls are alike, for TLC where no liveness is checked.
Symmetry == Permutations(Calls)

MCPriority == [h \in Handlers |-> IF h = h1 THEN 20 ELSE 10]
================================================================================
