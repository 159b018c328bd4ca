-------------------------- MODULE MCRepositoryStudy --------------------------
(* Small checkouts and stored studies for RepositoryStudy: a workspace with *)
(* a module, a manifest and an excluded file, and external checkouts with a *)
(* module and its test.                                                     *)
EXTENDS RepositoryStudy, TLC

Python(defs, uses, imports) ==
    [kind |-> "python", defs |-> defs, uses |-> uses, imports |-> imports, scripts |-> {}]

Manifest(targets) ==
    [kind |-> "manifest", defs |-> {}, uses |-> {}, imports |-> {}, scripts |-> targets]

MCFiles == {"app.py", "pyproject.toml", "secret.env", "test_app.py"}

Disk(here) == [f \in MCFiles |-> IF f \in DOMAIN here THEN here[f] ELSE Gone]

App == Python({"main", "unused"}, {"main"}, {})
Helper == Python({"main"}, {"main"}, {})

Workspace ==
    [vcs |-> "git", tracked |-> {"app.py", "pyproject.toml"}, head |-> 0,
     disk |-> Disk(("app.py" :> App) @@ ("secret.env" :> Helper)
                   @@ ("pyproject.toml" :> Manifest({<<"app.py", "main">>, <<"app.py", "start">>})))]

Other ==
    [vcs |-> "none", tracked |-> {}, head |-> 0,
     disk |-> Disk(("app.py" :> Helper) @@ ("test_app.py" :> Python({"check"}, {"main"}, {"app.py"})))]

MCRepo == [r \in Repos |-> IF r = Here THEN Workspace ELSE Other]

\* The pack an acquisition of the checkout gives while nobody edits it.
Stored(r, tb) ==
    LET e == Enumerate(MCRepo[r]) IN
      [file |-> "ok", tb |-> tb, update |-> "absent",
       pack |-> Pack(r, [f \in e.eligible |-> MCRepo[r].disk[f]], e.missing, MCRepo[r])]

Studies(first, second) ==
    [i \in Ids |-> CASE i = 1 -> first [] i = 2 -> second [] OTHER -> NoStudy]

Scenario(st, terminals, hand, t, e, k) ==
    [repo |-> MCRepo, studies |-> st, terminals |-> terminals, hand |-> hand,
     turns |-> t, edits |-> e, crashes |-> k]

Open == External \ PrivateRoot

Both(x, tb) == Studies(Stored(Here, tb), Stored(x, tb))

\* A study nobody closed yet, and what two earlier attempts left when they died.
Unclosed == [i \in Ids |-> IF i = 1 THEN Stored(Here, "awaiting")
                          ELSE [Stored(Here, "awaiting") EXCEPT !.file = "torn"]]

\* The record of an acquisition that read one file before an edit and one after it.
Mixed == Studies([Stored(Here, "awaiting") EXCEPT !.pack.scanned["app.py"] = Helper], NoStudy)

\* Acquisitions with an edit or two between their reads, by one terminal or two; two
\* terminals answer the Teachback of one study and ask for advice; two terminals resume
\* stored studies; a report over two checkouts.
MCScenarios ==
    {Scenario(Studies(NoStudy, NoStudy), 1, 0, 4, 1, 0),
     Scenario(Studies(NoStudy, NoStudy), 1, 0, 2, 2, 1),
     Scenario(Studies(NoStudy, NoStudy), 2, 0, 2, 1, 1),
     Scenario(Mixed, 1, 0, 4, 1, 0),
     Scenario(Unclosed, 2, 1, 4, 0, 0)}
    \cup {Scenario(Both(x, "awaiting"), 2, 0, 3, 0, 1) : x \in External}
    \cup {Scenario(Both(x, "understood"), 1, 1, 4, 1, 0) : x \in Open}

MCEdits == {<<Here, "app.py", Helper>>, <<Here, "app.py", Gone>>, <<Here, "app.py", Link>>,
            <<Here, "pyproject.toml", Manifest({<<"app.py", "main">>})>>}
           \cup {<<x, "test_app.py", Gone>> : x \in External \ PrivateRoot}

Symmetry == Permutations(Session) \cup Permutations(Open)
=============================================================================
