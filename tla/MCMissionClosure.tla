-------------------------- MODULE MCMissionClosure --------------------------
(* Small instances of MissionClosure for TLC: one session at a time with    *)
(* two crashes, and two sessions at once with one.                          *)
EXTENDS MissionClosure, TLC

MCEnvironments ==
    {[sessions |-> 1, openings |-> 4, crashes |-> 2],
     [sessions |-> 2, openings |-> 2, crashes |-> 1]}

Symmetry ==
    Permutations(Session) \cup Permutations(Explanation) \cup Permutations(Stamps)
=============================================================================
