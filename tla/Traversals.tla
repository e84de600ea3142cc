----------------------------- MODULE Traversals ------------------------------
(***************************************************************************)
(* The traversals that give control away in the middle, side by side: a    *)
(* scan over a dict that changes between its calls, a safe iterator whose  *)
(* user changes the dict, and the walk over the timers, whose procedures   *)
(* change the list.  One of them is exercised in a behaviour.              *)
(***************************************************************************)
EXTENDS DictScan, DictIter, AeTimers

VARIABLE traversal    \* which one

allvars == <<traversal, vars, itvars, tvars>>

TInit == /\ traversal \in {"scan", "iterator", "timers"}
         /\ Init /\ IterInit /\ TimersInit

TNext == \/ traversal = "scan" /\ Next /\ UNCHANGED <<traversal, itvars, tvars>>
         \/ traversal = "iterator" /\ IterNext /\ UNCHANGED <<traversal, vars, tvars>>
         \/ traversal = "timers" /\ TimersNext /\ UNCHANGED <<traversal, vars, itvars>>

\* What each of them assumes of its surroundings; nothing of it is enabled in
\* the initial state of one that is not exercised.
TSpec == TInit /\ [][TNext]_allvars /\ Fairness /\ IterFairness
=============================================================================
