-------------------------- MODULE MCPlanConversation --------------------------
(* Drafts, families and workers for PlanConversation: a two-step plan whose *)
(* second worker needs what the first produces, plans constrained by the    *)
(* mission, by a change and by the validator's own words, and plans with    *)
(* the defects the validator looks for.                                     *)
EXTENDS PlanConversation

MCContracts ==
    [extract |-> [required |-> {"authorized_local_source"}, produces |-> {"source_fact_cards"}],
     synthesis |-> [required |-> {"source_fact_cards"}, produces |-> {}],
     conduct |-> [required |-> {"user_mission_request", "repository_state", "capability_registry"},
                  produces |-> {}],
     architect |-> [required |-> {"failure_logs"}, produces |-> {}],
     integrate |-> [required |-> {"mission_plan", "dependency_evidence_bundle", "acceptance_criteria"},
                    produces |-> {}]]

MCAllowed == {<<"codex", f>> : f \in DOMAIN MCContracts} \cup {<<"claude", "extract">>}

MCDocs ==
    [agents |-> [present |-> TRUE, private |-> FALSE, refs |-> {"guide", "vault"}],
     guide |-> [present |-> TRUE, private |-> FALSE, refs |-> {"agents", "lost"}],
     vault |-> [present |-> TRUE, private |-> TRUE, refs |-> {}],
     lost |-> [present |-> FALSE, private |-> FALSE, refs |-> {}]]

Task(id, family, inputs, deps) ==
    [id |-> id, family |-> family, provider |-> "codex", inputs |-> inputs, deps |-> deps,
     mutation |-> FALSE, network |-> FALSE, private |-> FALSE, gate |-> "plan_approval",
     tokensIn |-> 1, tokensOut |-> 1, tokens |-> 2]

Extract == Task("t1", "extract", <<"text">>, <<>>)
Synthesis == Task("t2", "synthesis", <<>>, <<"t1">>)

Constraint(source, scope, index, field, op, value) ==
    [id |-> "c1", source |-> source, wellFormed |-> TRUE, scope |-> scope, index |-> index,
     field |-> field, op |-> op, value |-> value]

Draft(mission, tasks, constraints, missing) ==
    LET total == 2 * Len(tasks)
        by(x) == Cardinality({i \in 1..Len(tasks) : tasks[i].family = x}) IN
      [mission |-> mission, tasks |-> tasks, constraints |-> constraints, missing |-> missing,
       status |-> "pending", policies |-> TRUE, boundaries |-> {}, criteria |-> <<TRUE>>,
       budget |-> [max |-> total + 1, reserve |-> 1, providers |-> [codex |-> total],
                   families |-> [f \in {tasks[i].family : i \in 1..Len(tasks)} |-> 2 * by(f)]],
       estimated |-> total + 1]

TwoSteps == Draft("m1", <<Extract, Synthesis>>,
                  <<Constraint("two tasks", "plan", -1, "assignment_count", "at_most", 2)>>,
                  {[kind |-> "file", file |-> "guide"]})
Changed == Draft("m1", <<Extract>>,
                 <<Constraint("codex only", "assignment", 0, "provider", "equals", "codex")>>, {})
Echo == Draft("m1", <<Extract>>,
              <<Constraint("finding", "assignment", 0, "dependencies", "equals", <<>>)>>, {})
Conducted == Draft("m2", <<Task("t1", "conduct", <<>>, <<>>),
                           Task("t2", "integrate", <<>>, <<"t1">>)>>, <<>>, {})
Asking == Draft("m2", <<Extract>>, <<>>, {[kind |-> "human", file |-> "permission"]})
Architect == Draft("m2", <<Task("t1", "architect", <<>>, <<>>)>>, <<>>, {})
Hidden == Draft("m1", <<Task("t1", "extract", <<"text", "private">>, <<>>)>>, <<>>, {})
Overspent == [Conducted EXCEPT !.budget.max = 9]
NotReady == [Conducted EXCEPT !.tasks = <<[Extract EXCEPT !.provider = "claude"]>>,
                              !.budget = [max |-> 3, reserve |-> 1, providers |-> [claude |-> 2],
                                          families |-> [extract |-> 2]],
                              !.estimated = 3]

MCDrafts == {TwoSteps, Changed, Echo, Conducted, Asking, Hidden, Overspent, NotReady}
MCArchitectDrafts == {Conducted, Architect}

Output(outcome, marks, material) ==
    [parsed |-> TRUE, summary |-> TRUE, outcome |-> outcome, satisfied |-> outcome = "completed",
     review |-> "none", marks |-> marks, material |-> material]

\* Materials of two rows, one more than MaxItems: the complete row before or behind the cut.
MCOutputs ==
    {Output("completed", {"source_fact_cards"}, [source_fact_cards |-> <<{"fact", "locator"}, {"fact"}>>]),
     Output("completed", {"source_fact_cards"}, [source_fact_cards |-> <<{"fact"}, {"fact", "locator"}>>]),
     Output("completed", {}, [source_fact_cards |-> <<{"fact", "locator"}>>]),
     Output("blocked", {}, <<>>)}

MCLogs == [dir |-> "plain", files |-> <<"empty", "text">>]

MCChanges == {{"codex only"}}

Scenario(planOnly, requests, t, l, e, k) ==
    [planOnly |-> planOnly, requests |-> requests, turns |-> t, lines |-> l, edits |-> e,
     crashes |-> k, ready |-> {"codex"}]

MCScenarios ==
    {Scenario(FALSE, {{"two tasks"}}, 1, 6, 0, 0), Scenario(TRUE, {{"two tasks"}}, 1, 4, 0, 0),
     Scenario(FALSE, {{"two tasks"}}, 1, 3, 1, 0),
     Scenario(FALSE, {{"two tasks"}, {"codex only"}}, 2, 2, 0, 1)}
MCFirstScenario == {Scenario(FALSE, {{"two tasks"}}, 1, 0, 0, 0)}
=============================================================================
