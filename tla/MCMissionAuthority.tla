------------------------- MODULE MCMissionAuthority -------------------------
(* Requests and surroundings for MissionAuthority: two sessions racing over *)
(* one request, one user whose sessions die, and requests whose own         *)
(* constraints or surroundings refuse them.                                 *)
EXTENDS MissionAuthority, TLC

Request(intent, patch, limits) ==
    [intent |-> intent, patch |-> patch, limits |-> limits, text |-> TRUE, inScope |-> TRUE,
     category |-> "software_engineering"]

General == Request("general_mission", FALSE, {})
Memory == Request("record_memory", FALSE, {"private_context_restricted"})
Patching == Request("implement_change", TRUE, {"local_model_only", "network_blocked"})
Changing == Request("implement_change", FALSE, {"local_model_only", "network_blocked"})
Frozen == Request("implement_change", TRUE, {"mutation_forbidden"})
Escaping == [General EXCEPT !.inScope = FALSE]

Env(requests, modes, ready, open, starts, crashes, seconds) ==
    [requests |-> requests, modes |-> modes, ready |-> ready, open |-> open, starts |-> starts,
     crashes |-> crashes, seconds |-> seconds]

All == [s \in Session |-> Providers]
Remote == [s \in Session |-> {"codex", "claude"}]

(* One of two sessions misses a provider: their decisions differ even when *)
(* made in the same second.                                                *)
Uneven == {ready \in [Session -> {Providers, {"codex", "ollama"}}] :
             \E s, t \in Session : ready[s] # ready[t]}

MCEnvironments ==
    {Env({Changing}, {"interactive"}, ready, 2, 2, 0, 1) : ready \in Uneven}
    \cup
    {Env({Changing}, {"interactive"}, All, 2, 2, 0, 2),
     Env({Patching}, {"interactive"}, All, 2, 2, 0, 1),
     Env({Patching}, {"interactive", "one_shot"}, All, 1, 3, 1, 2),
     Env({General, Memory}, {"interactive", "one_shot"}, All, 2, 2, 0, 1),
     Env({General}, {"interactive", "one_shot"}, All, 2, 3, 1, 1),
     Env({Frozen, Patching, Escaping}, {"interactive", "one_shot"}, Remote, 1, 2, 1, 1),
     Env({Frozen, Escaping}, {"interactive", "one_shot"}, All, 1, 2, 0, 1)}

Symmetry == Permutations(Session)
=============================================================================
