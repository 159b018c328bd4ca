---------------------------- MODULE ActionLedger ----------------------------
(***************************************************************************)
(* What the action queue of a mission promises, without locks, claims or   *)
(* leases: every action moves one way through its statuses, its effect     *)
(* happens at most once and only between "running" and a settled status,   *)
(* and a recorded outcome is the outcome of an effect that happened.       *)
(* (tools/hokage_orchestrator/skill_runtime.py, docstrings of ActionQueue, *)
(* approve_and_dispatch and block_interrupted_action_checked.)             *)
(***************************************************************************)
EXTENDS Naturals

CONSTANT Action

VARIABLES
    status,  \* status[a] as the queue file shows it, "absent" when it lists no such action
    runs     \* runs[a]: how often the effect of a was started

Outcomes == {"completed", "failed"}
Settled == Outcomes \cup {"rejected", "blocked"}
Statuses == Settled \cup {"absent", "proposed", "running"}

Move(a, from, to) ==
    /\ status[a] = from
    /\ status' = [status EXCEPT ![a] = to]
    /\ UNCHANGED runs

LedgerInit ==
    /\ status = [a \in Action |-> "absent"]
    /\ runs = [a \in Action |-> 0]

\* Some actions are listed for the first time.
Propose ==
    /\ \E S \in SUBSET {a \in Action : status[a] = "absent"} :
          status' = [a \in Action |-> IF a \in S THEN "proposed" ELSE status[a]]
    /\ UNCHANGED runs

\* The effect of a starts: once, and only while the ledger says "running".
Work(a) ==
    /\ status[a] = "running"
    /\ runs[a] = 0
    /\ runs' = [runs EXCEPT ![a] = 1]
    /\ UNCHANGED status

LedgerNext ==
    \/ Propose
    \/ \E a \in Action :
          \/ Move(a, "proposed", "rejected")
          \/ Move(a, "proposed", "running")
          \/ Work(a)
          \/ \E o \in Outcomes : runs[a] = 1 /\ Move(a, "running", o)
          \/ Move(a, "proposed", "blocked")
          \/ Move(a, "running", "blocked")

LedgerSpec == LedgerInit /\ [][LedgerNext]_<<status, runs>>
=============================================================================
