---------------------------- MODULE MCActionQueue ----------------------------
(***************************************************************************)
(* Small missions for ActionQueue: an inspection, the audit and its two    *)
(* follow-ups.                                                             *)
(***************************************************************************)
EXTENDS ActionQueue

CONSTANTS inspect, audit, patch, tests

MCInitial == <<inspect, audit>>

\* Every call returns to the prompt or ends, under the lock and its timeout in
\* skill_runtime.py. Init, Next and FairSpec treat the sessions alike, so what holds of one
\* session holds of each.
CallsReturn == CallReturns(CHOOSE s \in Session : TRUE)
==============================================================================
