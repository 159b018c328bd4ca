---------------------------- MODULE ReleaseProofs ----------------------------
(***************************************************************************)
(* Proofs about SupervisedRelease and the delivery around it: whatever is  *)
(* published has been tested, whatever is reported closed is, --status and *)
(* preflight agree, and no helper writes over the work of an earlier one.  *)
(*                                                                         *)
(* The argument rests on ReleaseInv.  Evidence travels from the test gate  *)
(* through report files of several executions to the push, the tag and the *)
(* release; ReportInv says what a report file stands for whoever wrote it, *)
(* RunInv what an execution knows at each of its points, and GlobalInv     *)
(* what holds of the refs.  All of it is built from facts that no step     *)
(* takes back (Grows), so each step has only its own execution to justify. *)
(***************************************************************************)
EXTENDS PackageDelivery, SequenceTheorems, TLAPS

\* The commits a branch is made of.
Commit == {"rel", "own", "up"}

\* A branch is a short sequence of commits.
LEMMA BranchesAre ==
    \A b : b \in Branches <=> b \in Seq(Commit) /\ Len(b) <= MaxCommits
  <1>1. ASSUME NEW b \in Branches PROVE b \in Seq(Commit) /\ Len(b) <= MaxCommits
    <2>1. PICK m \in 0..MaxCommits : b \in [1..m -> Commit]
      BY DEF Branches, SeqOf, Commit
    <2> QED
      BY <2>1, BoundsAssumption
  <1>2. ASSUME NEW b \in Seq(Commit), Len(b) <= MaxCommits PROVE b \in Branches
    <2>1. Len(b) \in 0..MaxCommits /\ b \in [1..Len(b) -> Commit]
      BY <1>2, BoundsAssumption
    <2> QED
      BY <2>1 DEF Branches, SeqOf, Commit
  <1> QED
    BY <1>1, <1>2

\* A new commit goes on top of the branch.
LEMMA AppendBranch ==
    ASSUME NEW b \in Branches, NEW c \in Commit
    PROVE  /\ Len(b) \in Nat
           /\ Len(b) < MaxCommits => Append(b, c) \in Branches
           /\ Len(Append(b, c)) = Len(b) + 1
           /\ Append(b, c)[1] = IF b = << >> THEN c ELSE b[1]
           /\ Append(b, c) # << >>
  <1>1. b \in Seq(Commit) /\ Len(b) <= MaxCommits /\ Len(b) \in Nat
    BY BranchesAre
  <1>2. Append(b, c) \in Seq(Commit) /\ Len(Append(b, c)) = Len(b) + 1
    BY <1>1
  <1>3. Append(b, c)[1] = IF b = << >> THEN c ELSE b[1]
    <2>1. CASE b = << >>
      BY <2>1
    <2>2. CASE b # << >>
      <3>1. 1 \in 1..Len(b)
        BY <1>1, <2>2
      <3> QED
        BY <1>1, <2>2, <3>1
    <2> QED
      BY <2>1, <2>2
  <1>4. Append(b, c) # << >>
    BY <1>1, <1>2
  <1>5. ASSUME Len(b) < MaxCommits PROVE Append(b, c) \in Branches
    <2>1. Len(b) + 1 <= MaxCommits
      BY <1>1, <1>5, BoundsAssumption
    <2> QED
      BY <1>2, <2>1, BranchesAre
  <1> QED
    BY <1>1, <1>2, <1>3, <1>4, <1>5

Labels == Ended \cup {"fetch", "preflight", "plan", "planning", "stage", "staged", "commit",
                      "committed", "local", "tests", "testing", "observe", "report",
                      "load", "act", "pushcheck", "push", "pushed", "verify"}
Snapshot == [head : Branches, clean : BOOLEAN, synced : BOOLEAN, tag : Tag \cup {None}]
Gate == [passed : BOOLEAN, head_after : Branches]

\* The memory of an execution, and what a field-wise update of it keeps.
LEMMA MemoryIs ==
    Memory = [pc : Labels, cur : {None, <<"rel">>}, status : EXPECTED_STATES \cup {None},
              step : Steps, mode : {None, "cached", "tests"}, snap : Snapshot \cup {None},
              gate : Gate \cup {None}, report : Report \cup {None}]
  BY DEF Memory, Labels, Snapshot, Gate

\* The two ends and the jumps between labels keep the memory's type.
LEMMA MovesTyped ==
    ASSUME run \in [Run -> Memory], NEW r \in Run
    PROVE  /\ Blocks(r) => run' \in [Run -> Memory] /\ run' = [run EXCEPT ![r] = run'[r]]
           /\ \A pc \in Labels : Goto(r, pc) => run' \in [Run -> Memory] /\ run' = [run EXCEPT ![r] = run'[r]]
           /\ GuardFails(r) => run' \in [Run -> Memory] /\ run' = [run EXCEPT ![r] = run'[r]]
           /\ run[r].step <= MaxTransitions /\ NextGuard(r) =>
                 run' \in [Run -> Memory] /\ run' = [run EXCEPT ![r] = run'[r]]
  <1>1. run[r] \in Memory
    OBVIOUS
  <1>2. 0 \in Steps
    BY BoundsAssumption DEF Steps
  <1>3. [Idle EXCEPT !.pc = "blocked"] \in Memory
    BY <1>2, MemoryIs DEF Idle, Labels, Ended
  <1>4. Blocks(r) => run' \in [Run -> Memory] /\ run' = [run EXCEPT ![r] = run'[r]]
    BY <1>3 DEF Blocks
  <1>5. ASSUME NEW pc \in Labels, Goto(r, pc)
        PROVE  run' \in [Run -> Memory] /\ run' = [run EXCEPT ![r] = run'[r]]
    <2>1. [run[r] EXCEPT !.pc = pc] \in Memory
      BY <1>1, MemoryIs
    <2> QED
      BY <1>5, <2>1 DEF Goto
  <1>6. ASSUME GuardFails(r)
        PROVE  run' \in [Run -> Memory] /\ run' = [run EXCEPT ![r] = run'[r]]
    <2>1. [run[r] EXCEPT !.pc = "local", !.mode = "tests", !.snap = None, !.gate = None,
                         !.report = None] \in Memory
      BY <1>1, MemoryIs DEF Labels
    <2> QED
      BY <1>4, <1>6, <2>1 DEF GuardFails
  <1>7. ASSUME run[r].step <= MaxTransitions, NextGuard(r)
        PROVE  run' \in [Run -> Memory] /\ run' = [run EXCEPT ![r] = run'[r]]
    <2>1. run[r].step + 1 \in Steps
      BY <1>1, <1>7, MemoryIs, BoundsAssumption DEF Steps
    <2>2. [run[r] EXCEPT !.pc = "local", !.step = run[r].step + 1, !.status = None] \in Memory
      BY <1>1, <2>1, MemoryIs DEF Labels
    <2> QED
      BY <1>7, <2>2 DEF NextGuard
  <1> QED
    BY <1>4, <1>5, <1>6, <1>7

-----------------------------------------------------------------------------
(* The inductive invariant.                                                *)

Rel == <<"rel">>
Starts(b) == b # Base /\ b[1] = "rel"

\* The canonical gate has passed on a branch that starts with the planned commit and that
\* the checkout still contains.  It may be longer than the planned commit: a developer may
\* commit between the guard's look at the checkout and the tests.
Passed == \E h \in tested : Starts(h) /\ Len(h) <= Len(head)

Tagged == {"NEEDS_RELEASE_PUBLICATION", "NEEDS_LATEST_PROMOTION", "RELEASE_CLOSED"}
Synced == Tagged \cup {"NEEDS_TAG_CREATION", "NEEDS_TAG_PUBLICATION"}

\* What a status of the guard, given for the planned commit, stands for.
Claims(status) ==
    /\ status \in Synced => Rel \in tested
    /\ status \in Tagged => rtag # None /\ rtag.target = Rel

ReportInv(rep) ==
    rep.passed => Passed /\ (rep.head = Rel => Claims(rep.status))

\* What verify_final has seen of the refs, none of which can be taken back.
RefsTrue ==
    /\ Rel \in tested /\ Starts(main)
    /\ tag # None /\ rtag = tag /\ rtag.target = Rel /\ rtag.annotated

Working == {"local", "tests", "testing", "observe", "report", "load", "act", "pushcheck",
            "push", "pushed", "verify", "closed"}

\* What an execution knows at each point.
RunInv(r) ==
    /\ run[r].pc \in {"fetch", "preflight"} => run[r].cur = None
    /\ run[r].pc \in Working => run[r].cur = Rel /\ Starts(head)
    /\ run[r].pc \in {"plan", "planning"} /\ run[r].cur # None =>
          run[r].cur = Rel /\ Starts(head) /\ Passed /\ run[r].step <= MaxTransitions
    /\ run[r].pc \in {"tests", "testing", "observe"} =>
          /\ run[r].snap \in Snapshot
          /\ run[r].snap.synced /\ run[r].snap.head = Rel => Rel \in tested
    /\ run[r].pc \in {"testing", "observe"} => run[r].gate \in Gate
    /\ run[r].pc = "observe" /\ run[r].gate.passed => Passed
    /\ run[r].pc \in {"report", "load"} => run[r].report \in Report /\ ReportInv(run[r].report)
    /\ run[r].pc = "act" => run[r].status \in EXPECTED_STATES /\ Passed /\ Claims(run[r].status)
    /\ run[r].pc = "pushcheck" => Passed
    /\ run[r].pc \in {"push", "pushed"} => Rel \in tested
    /\ run[r].pc \in {"pushcheck", "push", "pushed"} => run[r].step <= MaxTransitions
    /\ run[r].pc \in {"verify", "closed"} => RefsTrue
    /\ run[r].pc = "closed" => rel.state = "published" /\ rel.titled

\* Nothing that starts with the planned commit is on the remote before that very commit was
\* tested: the push is refused when the checkout is more than one commit ahead.
BranchInv == Starts(main) \/ Starts(track) => Rel \in tested

TagInv == tag # None /\ tag.by = "workflow" => tag.target = Rel /\ Rel \in tested

FileInv ==
    /\ cache \notin {None, Torn} => ReportInv(cache)
    /\ \A n \in Steps : trans[n] \notin {None, Torn} => ReportInv(trans[n])

GlobalInv == BranchInv /\ TagInv /\ FileInv /\ PublishedIsTested

ReleaseInv == TypeOK /\ GlobalInv /\ \A r \in Run : RunInv(r)

\* What no step takes back.
Grows ==
    /\ tested \subseteq tested'
    /\ Len(head) <= Len(head')
    /\ Starts(head) => Starts(head')
    /\ Starts(main) => Starts(main')
    /\ tag # None => tag' = tag
    /\ rtag # None => rtag' = rtag
    /\ rel.state = "published" => rel'.state = "published" /\ rel'.titled = rel.titled

\* A step keeps the invariant and takes nothing back.
Keeps == ReleaseInv' /\ Grows

Local(r) == \A q \in Run \ {r} : run'[q] = run[q]

\* The facts that only grow.
LEMMA PassedGrows ==
    ASSUME TypeOK, TypeOK', Grows
    PROVE  Passed => Passed'
  <1> SUFFICES ASSUME Passed PROVE Passed'
    OBVIOUS
  <1>1. PICK h \in tested : Starts(h) /\ Len(h) <= Len(head)
    BY DEF Passed
  <1>2. h \in Branches /\ head \in Branches /\ head' \in Branches
    BY DEF TypeOK
  <1>3. Len(h) \in Nat /\ Len(head) \in Nat /\ Len(head') \in Nat
    BY <1>2, BranchesAre
  <1> QED
    BY <1>1, <1>3 DEF Grows, Passed, Starts

\* Reports that nobody rewrites stay true.
LEMMA FilesGrow ==
    ASSUME ReleaseInv, TypeOK', Grows, cache' \in {None, Torn, cache},
           \A n \in Steps : trans'[n] \in {None, Torn, trans[n]}
    PROVE  FileInv'
  <1>1. TypeOK /\ FileInv
    BY DEF ReleaseInv, GlobalInv
  <1>2. Passed => Passed'
    BY <1>1, PassedGrows
  <1>3. cache' \notin {None, Torn} => ReportInv(cache)'
    BY <1>1, <1>2 DEF FileInv, ReportInv, Claims, Grows
  <1>4. ASSUME NEW n \in Steps, trans'[n] \notin {None, Torn} PROVE ReportInv(trans[n])'
    BY <1>1, <1>2, <1>4 DEF FileInv, ReportInv, Claims, Grows
  <1> QED
    BY <1>3, <1>4 DEF FileInv

\* An execution that does nothing knows what it knew.
LEMMA OthersKeep ==
    ASSUME TypeOK, TypeOK', Grows, NEW q \in Run, run'[q] = run[q], RunInv(q)
    PROVE  RunInv(q)'
  <1>1. Claims(run[q].status) => Claims(run[q].status)'
    BY DEF Claims, Grows
  <1>2. ReportInv(run[q].report) => ReportInv(run[q].report)'
    BY PassedGrows DEF ReportInv, Claims, Grows
  <1>3. RefsTrue => RefsTrue'
    BY DEF RefsTrue, Grows
  <1>4. Passed => Passed'
    BY PassedGrows
  <1>5. /\ Rel \in tested => Rel \in tested'
        /\ Starts(head) => Starts(head')
        /\ rel.state = "published" /\ rel.titled => rel'.state = "published" /\ rel'.titled
    BY DEF Grows
  <1> QED
    BY <1>1, <1>2, <1>3, <1>4, <1>5 DEF RunInv

\* A step of one execution keeps the invariant when it keeps its own part and the files'.
LEMMA StepKeeps ==
    ASSUME ReleaseInv, TypeOK', Grows, GlobalInv', NEW r \in Run, Local(r), RunInv(r)'
    PROVE  Keeps
  <1>1. ASSUME NEW q \in Run \ {r} PROVE RunInv(q)'
    BY OthersKeep DEF Local, ReleaseInv
  <1> QED
    BY <1>1 DEF ReleaseInv, Keeps

\* A step from outside keeps it when no execution is touched.
LEMMA OutsideKeeps ==
    ASSUME ReleaseInv, TypeOK', Grows, GlobalInv', UNCHANGED run
    PROVE  Keeps
  <1>1. ASSUME NEW q \in Run PROVE RunInv(q)'
    BY OthersKeep DEF ReleaseInv
  <1> QED
    BY <1>1 DEF ReleaseInv, Keeps

-----------------------------------------------------------------------------
(* The steps of an execution that touch nothing but its memory.            *)

\* What holds of the shared state holds still when none of it changes.
LEMMA QuietGlobals ==
    ASSUME ReleaseInv, UNCHANGED <<repo, remote, files, tested>>
    PROVE  GlobalInv' /\ Grows
  <1>1. UNCHANGED <<head, track, main, tag, rtag, rel, cache, trans, tested>>
    BY DEF repo, remote, files
  <1>2. GlobalInv'
    BY <1>1 DEF ReleaseInv, GlobalInv, BranchInv, TagInv, FileInv, PublishedIsTested, ReportInv,
                Passed, Claims, Starts
  <1>3. Len(head) \in Nat
    BY BranchesAre DEF ReleaseInv, TypeOK
  <1> QED
    BY <1>1, <1>2, <1>3 DEF Grows

LEMMA QuietTyped ==
    ASSUME ReleaseInv, UNCHANGED <<repo, remote, files, tested, env, disturbed>>,
           run' \in [Run -> Memory]
    PROVE  TypeOK'
  BY DEF ReleaseInv, TypeOK, repo, remote, files

\* A label is left for another: the rest of the memory stays.
LEMMA GotoFacts ==
    ASSUME run \in [Run -> Memory], NEW r \in Run, NEW label \in Labels, Goto(r, label)
    PROVE  /\ run' \in [Run -> Memory] /\ Local(r)
           /\ run'[r].pc = label /\ run'[r].cur = run[r].cur /\ run'[r].status = run[r].status
           /\ run'[r].step = run[r].step /\ run'[r].mode = run[r].mode
           /\ run'[r].snap = run[r].snap /\ run'[r].gate = run[r].gate
           /\ run'[r].report = run[r].report
  <1>1. run[r] \in Memory
    OBVIOUS
  <1>2. run'[r] = [run[r] EXCEPT !.pc = label] /\ Local(r)
    BY DEF Goto, Local
  <1> QED
    BY <1>1, <1>2, MovesTyped, MemoryIs

LEMMA BlocksFacts ==
    ASSUME run \in [Run -> Memory], NEW r \in Run, Blocks(r)
    PROVE  run' \in [Run -> Memory] /\ Local(r) /\ RunInv(r)'
  <1>1. run'[r] = [Idle EXCEPT !.pc = "blocked"] /\ Local(r)
    BY DEF Blocks, Local
  <1>2. run'[r].pc = "blocked"
    BY <1>1 DEF Idle
  <1> QED
    BY <1>1, <1>2, MovesTyped DEF RunInv, Working

\* The next guard starts from the same commit.
LEMMA NextGuardFacts ==
    ASSUME run \in [Run -> Memory], NEW r \in Run, run[r].step <= MaxTransitions, NextGuard(r),
           run[r].cur = Rel, Starts(head)'
    PROVE  run' \in [Run -> Memory] /\ Local(r) /\ RunInv(r)'
  <1>1. run[r] \in Memory
    OBVIOUS
  <1>2. run'[r] = [run[r] EXCEPT !.pc = "local", !.step = @ + 1, !.status = None] /\ Local(r)
    BY DEF NextGuard, Local
  <1>3. run'[r].pc = "local" /\ run'[r].cur = Rel
    BY <1>1, <1>2, MemoryIs
  <1> QED
    BY <1>2, <1>3, MovesTyped DEF RunInv, Working

\* A guard that fails is repeated with fresh tests or stops the workflow.
LEMMA GuardFailsFacts ==
    ASSUME run \in [Run -> Memory], NEW r \in Run, GuardFails(r),
           run[r].cur = Rel, Starts(head)'
    PROVE  run' \in [Run -> Memory] /\ Local(r) /\ RunInv(r)'
  <1>1. CASE Blocks(r)
    BY <1>1, BlocksFacts
  <1>2. CASE run' = [run EXCEPT ![r].pc = "local", ![r].mode = "tests",
                                ![r].snap = None, ![r].gate = None, ![r].report = None]
    <2>1. run[r] \in Memory
      OBVIOUS
    <2>2. /\ run'[r] = [run[r] EXCEPT !.pc = "local", !.mode = "tests", !.snap = None,
                                      !.gate = None, !.report = None]
          /\ Local(r)
      BY <1>2 DEF Local
    <2>3. run'[r].pc = "local" /\ run'[r].cur = Rel
      BY <2>1, <2>2, MemoryIs
    <2> QED
      BY <2>2, <2>3, MovesTyped DEF RunInv, Working
  <1> QED
    BY <1>1, <1>2 DEF GuardFails

\* The planned commit is a branch of its own, and the only one of length one to start so.
LEMMA RelFacts ==
    /\ Starts(Rel) /\ Len(Rel) = 1
    /\ \A b \in Branches : Starts(b) /\ Len(b) <= 1 => b = Rel
    /\ \A b \in Branches : Starts(b) => IsPrefix(Rel, b)
    /\ \A b, c \in Branches : b # Base /\ IsPrefix(b, c) => c # Base /\ b[1] = c[1]
  <1>1. Starts(Rel) /\ Len(Rel) = 1
    BY DEF Starts, Rel, Base
  <1>2. ASSUME NEW b \in Branches, Starts(b), Len(b) <= 1 PROVE b = Rel
    <2>1. b \in Seq(Commit) /\ b # << >> /\ b[1] = "rel"
      BY <1>2, BranchesAre DEF Starts, Base
    <2>2. Len(b) \in Nat /\ Len(b) # 0
      BY <2>1
    <2>3. Len(b) <= 1
      BY <1>2
    <2>4. Len(b) = 1
      BY <2>2, <2>3
    <2>5. Rel \in Seq(Commit) /\ Rel[1] = "rel"
      BY DEF Rel, Commit
    <2>6. \A i \in 1..Len(b) : b[i] = Rel[i]
      BY <2>1, <2>4, <2>5
    <2> QED
      BY <1>1, <2>1, <2>4, <2>5, <2>6, SeqEqual
  <1>3. ASSUME NEW b \in Branches, Starts(b) PROVE IsPrefix(Rel, b)
    <2>1. b \in Seq(Commit) /\ b # << >> /\ b[1] = "rel"
      BY <1>3, BranchesAre DEF Starts, Base
    <2>2. Len(b) >= 1
      BY <2>1
    <2>3. SubSeq(b, 1, 1) \in Seq(Commit) /\ Len(SubSeq(b, 1, 1)) = 1 /\ SubSeq(b, 1, 1)[1] = b[1]
      BY <2>1, <2>2
    <2>4. Rel \in Seq(Commit) /\ Rel[1] = "rel"
      BY DEF Rel, Commit
    <2>5. SubSeq(Rel, 1, 1) \in Seq(Commit) /\ Len(SubSeq(Rel, 1, 1)) = 1
          /\ SubSeq(Rel, 1, 1)[1] = Rel[1]
      BY <1>1, <2>4
    <2>6. \A i \in 1..1 : SubSeq(Rel, 1, 1)[i] = SubSeq(b, 1, 1)[i]
      BY <2>1, <2>3, <2>4, <2>5
    <2>7. SubSeq(Rel, 1, 1) = SubSeq(b, 1, 1)
      BY <2>3, <2>5, <2>6, SeqEqual
    <2> QED
      BY <1>1, <2>2, <2>7 DEF IsPrefix
  <1>4. ASSUME NEW b \in Branches, NEW c \in Branches, b # Base, IsPrefix(b, c)
        PROVE  c # Base /\ b[1] = c[1]
    <2>1. b \in Seq(Commit) /\ c \in Seq(Commit) /\ Len(b) <= Len(c)
          /\ SubSeq(b, 1, Len(b)) = SubSeq(c, 1, Len(b))
      BY <1>4, BranchesAre DEF IsPrefix
    <2>2. 1 <= Len(b) /\ c # << >>
      BY <1>4, <2>1 DEF Base
    <2>3. SubSeq(b, 1, Len(b))[1] = b[1] /\ SubSeq(c, 1, Len(b))[1] = c[1]
      BY <2>1, <2>2
    <2> QED
      BY <2>1, <2>2, <2>3 DEF Base
  <1> QED
    BY <1>1, <1>2, <1>3, <1>4

\* The push is only reached from a checkout exactly one commit ahead: then the branch the
\* gate passed on is the planned commit, or the remote starts with it already.
LEMMA AheadIsTested ==
    ASSUME ReleaseInv, Passed, Starts(head), Behind(track, head) = 0, Ahead(track, head) = 1
    PROVE  Rel \in tested
  <1>1. /\ head \in Branches /\ track \in Branches /\ tested \subseteq Branches
        /\ BranchInv
    BY DEF ReleaseInv, TypeOK, GlobalInv
  <1>2. Len(head) \in Nat /\ Len(track) \in Nat
    BY <1>1, BranchesAre
  <1>3. CASE Starts(track)
    BY <1>1, <1>3 DEF BranchInv
  <1>4. CASE Len(track) = 0
    <2>1. Len(head) = 1
      BY <1>2, <1>4 DEF Ahead
    <2>2. PICK h \in tested : Starts(h) /\ Len(h) <= 1
      BY <2>1 DEF Passed
    <2> QED
      BY <1>1, <2>2, RelFacts
  <1>5. CASE Len(track) # 0 /\ ~Starts(track)
    <2>1. IsPrefix(track, head)
      BY <1>2, <1>5 DEF Behind
    <2>2. track # Base
      BY <1>5 DEF Base
    <2> QED
      BY <1>1, <1>5, <2>1, <2>2, RelFacts DEF Starts
  <1> QED
    BY <1>3, <1>4, <1>5

\* The files an execution reads are reports of the gate.
LEMMA FileFacts ==
    ASSUME ReleaseInv, NEW r \in Run
    PROVE  /\ run[r] \in Memory
           /\ run[r].step \in Steps
           /\ Evidence(r) \notin {None, Torn} => Evidence(r) \in Report /\ ReportInv(Evidence(r))
           /\ Loaded(r) \notin {None, Torn} => Loaded(r) \in Report /\ ReportInv(Loaded(r))
  <1>1. run[r] \in Memory /\ cache \in Reports /\ trans \in [Steps -> Reports]
    BY DEF ReleaseInv, TypeOK
  <1>2. run[r].step \in Steps
    BY <1>1, MemoryIs
  <1>3. run[r].step # 0 => run[r].step - 1 \in Steps
    BY <1>2, BoundsAssumption DEF Steps
  <1>4. cache \notin {None, Torn} => cache \in Report /\ ReportInv(cache)
    BY <1>1 DEF ReleaseInv, GlobalInv, FileInv, Reports
  <1>5. \A n \in Steps : trans[n] \notin {None, Torn} => trans[n] \in Report /\ ReportInv(trans[n])
    BY <1>1 DEF ReleaseInv, GlobalInv, FileInv, Reports
  <1>6. CASE Evidence(r) = cache
    BY <1>1, <1>2, <1>4, <1>5, <1>6 DEF Loaded
  <1>7. CASE run[r].step # 0 /\ Evidence(r) = trans[run[r].step - 1]
    BY <1>1, <1>2, <1>3, <1>4, <1>5, <1>7 DEF Loaded
  <1> QED
    BY <1>1, <1>6, <1>7 DEF Evidence

\* A step within the memory of r keeps the invariant when it keeps what r knows.
LEMMA MemoryStepKeeps ==
    ASSUME ReleaseInv, NEW r \in Run, run' \in [Run -> Memory], Local(r), RunInv(r)',
           UNCHANGED <<repo, remote, files, tested, env, disturbed>>
    PROVE  Keeps
  BY QuietGlobals, QuietTyped, StepKeeps

\* Looking, deciding and giving up: the steps of an execution outside the guard.
LEMMA DecidingKeeps ==
    ASSUME ReleaseInv, NEW r \in Run,
           \/ Preflight(r) \/ CheckStaged(r) \/ VerifyCommit(r) \/ TransitionsExceeded(r)
           \/ EnsureBetaPlan(r) \/ CheckPush(r) \/ VerifyRefs(r) \/ VerifyRelease(r)
           \/ QueryFails(r)
    PROVE  Keeps
  <1>1. /\ RunInv(r) /\ run \in [Run -> Memory] /\ run[r] \in Memory
        /\ run[r].cur \in {None, Rel}
    BY MemoryIs DEF ReleaseInv, TypeOK, Rel
  <1>2. UNCHANGED <<repo, remote, files, tested, env, disturbed>>
    BY DEF Preflight, CheckStaged, VerifyCommit, TransitionsExceeded, EnsureBetaPlan, CheckPush,
           VerifyRefs, VerifyRelease, QueryFails
  <1>3. UNCHANGED <<head, main, tag, rtag, rel, tested>>
    BY <1>2 DEF repo, remote
  <1>4. CASE Blocks(r)
    BY <1>1, <1>2, <1>4, BlocksFacts, MemoryStepKeeps
  <1>5. CASE Preflight(r) \/ VerifyCommit(r)
    <2>1. CASE Goto(r, "plan") /\ run[r].pc = "preflight"
      <3>1. run' \in [Run -> Memory] /\ Local(r) /\ run'[r].pc = "plan" /\ run'[r].cur = run[r].cur
        BY <1>1, <2>1, GotoFacts DEF Labels
      <3>2. run[r].cur = None
        BY <1>1, <2>1 DEF RunInv
      <3>3. RunInv(r)'
        BY <3>1, <3>2 DEF RunInv, Working
      <3> QED
        BY <1>2, <3>1, <3>3, MemoryStepKeeps
    <2>2. CASE head = Rel /\ run' = [run EXCEPT ![r].pc = "local", ![r].cur = head]
      <3>1. run'[r] = [run[r] EXCEPT !.pc = "local", !.cur = Rel] /\ Local(r)
        BY <1>1, <2>2 DEF Local
      <3>2. run'[r] \in Memory /\ run'[r].pc = "local" /\ run'[r].cur = Rel
        BY <1>1, <3>1, MemoryIs DEF Labels, Rel
      <3>3. run' \in [Run -> Memory]
        BY <1>1, <2>2, <3>2
      <3>4. Starts(head)'
        BY <1>3, <2>2, RelFacts
      <3>5. RunInv(r)'
        BY <3>2, <3>4 DEF RunInv, Working
      <3> QED
        BY <1>2, <3>1, <3>3, <3>5, MemoryStepKeeps
    <2> QED
      BY <1>4, <1>5, <2>1, <2>2 DEF Preflight, VerifyCommit, PreflightMode, Aligned, Rel
  <1>6. CASE CheckStaged(r) /\ ~Blocks(r)
    <2>1. Goto(r, "commit")
      BY <1>6 DEF CheckStaged
    <2>2. run' \in [Run -> Memory] /\ Local(r) /\ run'[r].pc = "commit"
      BY <1>1, <2>1, GotoFacts DEF Labels
    <2>3. RunInv(r)'
      BY <2>2 DEF RunInv, Working
    <2> QED
      BY <1>2, <2>2, <2>3, MemoryStepKeeps
  <1>7. CASE EnsureBetaPlan(r)
    <2>1. Goto(r, "plan") /\ run[r].pc = "act" /\ run[r].step <= MaxTransitions
      BY <1>7 DEF EnsureBetaPlan, Acts
    <2>2. /\ run' \in [Run -> Memory] /\ Local(r) /\ run'[r].pc = "plan"
          /\ run'[r].cur = run[r].cur /\ run'[r].step = run[r].step
      BY <1>1, <2>1, GotoFacts DEF Labels
    <2>3. run[r].cur = Rel /\ Starts(head) /\ Passed
      BY <1>1, <2>1 DEF RunInv, Working
    <2>4. Starts(head)' /\ Passed'
      BY <1>3, <2>3 DEF Passed, Starts
    <2>5. RunInv(r)'
      BY <2>1, <2>2, <2>3, <2>4 DEF RunInv, Working
    <2> QED
      BY <1>2, <2>2, <2>5, MemoryStepKeeps
  <1>8. CASE CheckPush(r) /\ ~Blocks(r)
    <2>1. /\ Goto(r, "push") /\ Behind(track, head) = 0 /\ Ahead(track, head) = 1
          /\ run[r].pc \in {"pushcheck", "act"} /\ run[r].step <= MaxTransitions
      BY <1>1, <1>8 DEF CheckPush, Acts, RunInv
    <2>2. /\ run' \in [Run -> Memory] /\ Local(r) /\ run'[r].pc = "push"
          /\ run'[r].cur = run[r].cur /\ run'[r].step = run[r].step
      BY <1>1, <2>1, GotoFacts DEF Labels
    <2>3. run[r].cur = Rel /\ Starts(head) /\ Passed
      BY <1>1, <2>1 DEF RunInv, Working
    <2>4. Rel \in tested
      BY <2>1, <2>3, AheadIsTested
    <2>5. Starts(head)' /\ Rel \in tested'
      BY <1>3, <2>3, <2>4 DEF Starts
    <2>6. RunInv(r)'
      BY <2>1, <2>2, <2>3, <2>5 DEF RunInv, Working
    <2> QED
      BY <1>2, <2>2, <2>6, MemoryStepKeeps
  <1>9. CASE VerifyRefs(r) /\ ~Blocks(r)
    <2>1. /\ Goto(r, "verify") /\ run[r].pc = "act"
          /\ main = run[r].cur /\ tag # None /\ rtag = tag /\ rtag.target = run[r].cur
          /\ rtag.annotated /\ ExpectedAction[run[r].status] = "complete"
      BY <1>9 DEF VerifyRefs, Acts
    <2>2. run' \in [Run -> Memory] /\ Local(r) /\ run'[r].pc = "verify" /\ run'[r].cur = run[r].cur
      BY <1>1, <2>1, GotoFacts DEF Labels
    <2>3. /\ run[r].cur = Rel /\ Starts(head)
          /\ run[r].status \in EXPECTED_STATES /\ Claims(run[r].status)
      BY <1>1, <2>1 DEF RunInv, Working
    <2>4. run[r].status = "RELEASE_CLOSED"
      BY <2>1, <2>3 DEF ExpectedAction, EXPECTED_STATES
    <2>5. RefsTrue
      BY <2>1, <2>3, <2>4, RelFacts DEF RefsTrue, Claims, Synced, Tagged
    <2>6. Starts(head)' /\ RefsTrue'
      BY <1>3, <2>3, <2>5 DEF RefsTrue, Starts
    <2>7. RunInv(r)'
      BY <2>2, <2>3, <2>6 DEF RunInv, Working
    <2> QED
      BY <1>2, <2>2, <2>7, MemoryStepKeeps
  <1>10. CASE VerifyRelease(r) /\ ~Blocks(r)
    <2>1. /\ Goto(r, "closed") /\ run[r].pc = "verify"
          /\ rel.state = "published" /\ rel.titled
      BY <1>10 DEF VerifyRelease
    <2>2. run' \in [Run -> Memory] /\ Local(r) /\ run'[r].pc = "closed" /\ run'[r].cur = run[r].cur
      BY <1>1, <2>1, GotoFacts DEF Labels, Ended
    <2>3. run[r].cur = Rel /\ Starts(head) /\ RefsTrue
      BY <1>1, <2>1 DEF RunInv, Working
    <2>4. Starts(head)' /\ RefsTrue' /\ rel'.state = "published" /\ rel'.titled
      BY <1>3, <2>1, <2>3 DEF RefsTrue, Starts
    <2>5. RunInv(r)'
      BY <2>2, <2>3, <2>4 DEF RunInv, Working
    <2> QED
      BY <1>2, <2>2, <2>5, MemoryStepKeeps
  <1> QED
    BY <1>4, <1>5, <1>6, <1>7, <1>8, <1>9, <1>10 DEF TransitionsExceeded, QueryFails

-----------------------------------------------------------------------------
(* The closure guard.                                                      *)

\* The choice between the cached evidence and a fresh test run.
LEMMA ChooseEvidenceKeeps ==
    ASSUME ReleaseInv, NEW r \in Run, ChooseEvidence(r)
    PROVE  Keeps
  <1>1. /\ run \in [Run -> Memory] /\ run[r] \in Memory
        /\ run[r].pc = "local" /\ run[r].cur = Rel /\ Starts(head)
    BY DEF ReleaseInv, TypeOK, RunInv, Working, ChooseEvidence
  <1>2. UNCHANGED <<repo, remote, files, tested, env, disturbed>>
    BY DEF ChooseEvidence
  <1>3. PICK mode \in {"cached", "tests"} : run' = [run EXCEPT ![r].mode = mode]
    BY DEF ChooseEvidence
  <1>4. run'[r] = [run[r] EXCEPT !.mode = mode] /\ Local(r)
    BY <1>1, <1>3 DEF Local
  <1>5. run'[r] \in Memory /\ run'[r].pc = "local" /\ run'[r].cur = Rel
    BY <1>1, <1>4, MemoryIs
  <1>6. run' \in [Run -> Memory] /\ Starts(head)'
    BY <1>1, <1>2, <1>3, <1>5 DEF repo, Starts
  <1>7. RunInv(r)'
    BY <1>5, <1>6 DEF RunInv, Working
  <1> QED
    BY <1>2, <1>4, <1>6, <1>7, MemoryStepKeeps

\* The guard looks at the checkout and at the evidence it may reuse.
LEMMA GuardLocalKeeps ==
    ASSUME ReleaseInv, NEW r \in Run, GuardLocal(r)
    PROVE  Keeps
  <1>1. /\ RunInv(r) /\ run \in [Run -> Memory] /\ run[r] \in Memory
        /\ run[r].pc = "local" /\ run[r].cur = Rel /\ Starts(head)
    BY DEF ReleaseInv, TypeOK, RunInv, Working, GuardLocal
  <1>2. UNCHANGED <<repo, remote, files, tested, env, disturbed>>
    BY DEF GuardLocal
  <1>3. UNCHANGED <<head, tested>> /\ Starts(head)'
    BY <1>1, <1>2 DEF repo, Starts
  <1>5. LocalGit \in Snapshot /\ LocalGit.head = head /\ LocalGit.synced = (track = head)
    BY DEF LocalGit, Snapshot, Clean, ReleaseInv, TypeOK
  <1>6. LocalGit.synced /\ LocalGit.head = Rel => Rel \in tested
    BY <1>5, RelFacts DEF ReleaseInv, GlobalInv, BranchInv
  <1>7. CASE GuardFails(r)
    BY <1>1, <1>2, <1>3, <1>7, GuardFailsFacts, MemoryStepKeeps
  <1>8. CASE run' = [run EXCEPT ![r].pc = "tests", ![r].snap = LocalGit]
    <2>1. /\ run'[r] = [run[r] EXCEPT !.pc = "tests", !.snap = LocalGit]
          /\ Local(r)
      BY <1>1, <1>8 DEF Local
    <2>2. /\ run'[r] \in Memory /\ run'[r].pc = "tests" /\ run'[r].cur = Rel
          /\ run'[r].snap = LocalGit
      BY <1>1, <1>5, <2>1, MemoryIs DEF Labels
    <2>3. run' \in [Run -> Memory]
      BY <1>1, <1>8, <2>2
    <2>4. RunInv(r)'
      BY <1>3, <1>5, <1>6, <2>2 DEF RunInv, Working
    <2> QED
      BY <1>2, <2>1, <2>3, <2>4, MemoryStepKeeps
  <1>9. ASSUME Evidence(r) \notin {None, Torn},
               run' = [run EXCEPT ![r].pc = "observe", ![r].snap = LocalGit,
                               ![r].gate = [passed |-> EvidencePasses(Evidence(r), head),
                                            head_after |-> Evidence(r).head_after]]
        PROVE  Keeps
    <2> DEFINE gate == [passed |-> EvidencePasses(Evidence(r), head),
                        head_after |-> Evidence(r).head_after]
    <2>1. Evidence(r) \in Report /\ ReportInv(Evidence(r))
      BY <1>9, FileFacts
    <2>2. gate \in Gate /\ (gate.passed => Passed)
      BY <2>1 DEF Gate, Report, EvidencePasses, ReportInv
    <2> HIDE DEF gate
    <2>3. /\ run'[r] = [run[r] EXCEPT !.pc = "observe", !.snap = LocalGit,
                                      !.gate = gate]
          /\ Local(r)
      BY <1>1, <1>9 DEF Local, gate
    <2>4. /\ run'[r] \in Memory /\ run'[r].pc = "observe" /\ run'[r].cur = Rel
          /\ run'[r].snap = LocalGit /\ run'[r].gate = gate
      BY <1>1, <1>5, <2>2, <2>3, MemoryIs DEF Labels
    <2>5. run' \in [Run -> Memory]
      BY <1>1, <1>9, <2>4
    <2>6. gate.passed => Passed'
      BY <1>3, <2>2 DEF Passed, Starts
    <2>7. RunInv(r)'
      BY <1>3, <1>5, <1>6, <2>2, <2>4, <2>6 DEF RunInv, Working
    <2> QED
      BY <1>2, <2>3, <2>5, <2>7, MemoryStepKeeps
  <1> QED
    BY <1>7, <1>8, <1>9 DEF GuardLocal

\* The canonical tests: what passes is the commit that was checked out all the while.
LEMMA TestsKeep ==
    ASSUME ReleaseInv, NEW r \in Run, StartTests(r) \/ EndTests(r)
    PROVE  Keeps
  <1>1. /\ RunInv(r) /\ run \in [Run -> Memory] /\ run[r] \in Memory /\ head \in Branches
        /\ run[r].pc \in {"tests", "testing"} /\ run[r].cur = Rel /\ Starts(head)
        /\ run[r].snap \in Snapshot
        /\ run[r].snap.synced /\ run[r].snap.head = Rel => Rel \in tested
    BY DEF ReleaseInv, TypeOK, RunInv, Working, StartTests, EndTests
  <1>2. ASSUME NEW pc \in {"testing", "observe"}, NEW gate \in Gate,
               run' = [run EXCEPT ![r].pc = pc, ![r].gate = gate],
               UNCHANGED <<repo, remote, files, env, disturbed>>,
               tested' \in SUBSET Branches, tested \subseteq tested',
               pc = "observe" /\ gate.passed => head \in tested'
        PROVE  Keeps
    <2>0. UNCHANGED <<head, track, main, tag, rtag, rel, cache, trans>>
      BY <1>2 DEF repo, remote, files
    <2>1. /\ run'[r] = [run[r] EXCEPT !.pc = pc, !.gate = gate]
          /\ Local(r)
      BY <1>1, <1>2 DEF Local
    <2>2. /\ run'[r] \in Memory /\ run'[r].pc = pc /\ run'[r].cur = Rel
          /\ run'[r].snap = run[r].snap /\ run'[r].gate = gate
      BY <1>1, <2>1, MemoryIs DEF Labels
    <2>3. run' \in [Run -> Memory]
      BY <1>1, <1>2, <2>2
    <2>4. TypeOK'
      BY <1>2, <2>3 DEF ReleaseInv, TypeOK, repo, remote, files
    <2>5. Len(head) \in Nat
      BY <1>1, BranchesAre
    <2>6. Grows
      BY <1>2, <2>0, <2>5 DEF Grows, Starts
    <2>7. GlobalInv'
      <3>1. BranchInv' /\ TagInv' /\ PublishedIsTested'
        BY <1>2, <2>0 DEF ReleaseInv, GlobalInv, BranchInv, TagInv, PublishedIsTested, Starts
      <3>2. FileInv'
        BY <2>0, <2>4, <2>6, FilesGrow
      <3> QED
        BY <3>1, <3>2 DEF GlobalInv
    <2>8. Starts(head)'
      BY <1>1, <2>0 DEF Starts
    <2>9. pc = "observe" /\ gate.passed => Passed'
      BY <1>1, <1>2, <2>0, <2>5 DEF Passed, Starts
    <2>10. RunInv(r)'
      BY <1>1, <1>2, <2>2, <2>8, <2>9 DEF RunInv, Working
    <2> QED
      BY <2>1, <2>4, <2>6, <2>7, <2>10, StepKeeps
  <1>3. CASE StartTests(r)
    <2>1. [passed |-> FALSE, head_after |-> head] \in Gate /\ tested \in SUBSET Branches
      BY <1>1 DEF Gate, ReleaseInv, TypeOK
    <2> QED
      BY <1>2, <1>3, <2>1 DEF StartTests
  <1>4. CASE EndTests(r)
    <2>1. PICK ok \in BOOLEAN :
            LET passed == ok /\ run[r].gate.head_after = head IN
            /\ run' = [run EXCEPT ![r].pc = "observe",
                                  ![r].gate = [passed |-> passed, head_after |-> head]]
            /\ tested' = IF passed THEN tested \cup {head} ELSE tested
      BY <1>4 DEF EndTests
    <2> DEFINE gate == [passed |-> ok /\ run[r].gate.head_after = head, head_after |-> head]
    <2>2. gate \in Gate
      BY <1>1 DEF Gate
    <2>3. tested \in SUBSET Branches
      BY DEF ReleaseInv, TypeOK
    <2>4. tested' \in SUBSET Branches /\ tested \subseteq tested' /\ (gate.passed => head \in tested')
      BY <1>1, <2>1, <2>3
    <2>5. run' = [run EXCEPT ![r].pc = "observe", ![r].gate = gate]
      BY <2>1
    <2> HIDE DEF gate
    <2> QED
      BY <1>2, <1>4, <2>2, <2>4, <2>5 DEF EndTests
  <1> QED
    BY <1>3, <1>4

\* The statuses the workflow acts on.
LEMMA StatesAre ==
    EXPECTED_STATES = {"BLOCKED_BRANCH_NOT_SYNCED", "NEEDS_TAG_CREATION", "NEEDS_TAG_PUBLICATION",
                       "NEEDS_RELEASE_PUBLICATION", "NEEDS_LATEST_PROMOTION", "RELEASE_CLOSED"}
  BY DEF EXPECTED_STATES, ExpectedAction

\* What a status says of the snapshot it was decided on and of the remote.
LEMMA DecideFacts ==
    ASSUME NEW s \in Snapshot, NEW passed \in BOOLEAN, NEW ok \in BOOLEAN
    PROVE  LET status == DecideStatus(s, passed, ok, ok) IN
           /\ status \in Statuses
           /\ status \in Synced => s.synced
           /\ status \in Tagged => rtag # None /\ rtag.target = s.head
  <1> DEFINE status == DecideStatus(s, passed, ok, ok)
  <1>1. CASE ~s.clean \/ ~passed
    BY <1>1, StatesAre DEF DecideStatus, Statuses, Synced, Tagged
  <1>2. CASE s.clean /\ passed /\ ~s.synced
    BY <1>2, StatesAre DEF DecideStatus, Statuses, Synced, Tagged
  <1>3. ASSUME s.clean, passed, s.synced
        PROVE  status \in Statuses /\ (status \in Tagged => rtag # None /\ rtag.target = s.head)
    <2>1. CASE s.tag = None
      BY <1>3, <2>1, StatesAre DEF DecideStatus, Statuses, Tagged
    <2>2. CASE s.tag # None /\ (s.tag.target # s.head \/ ~ok \/ main # s.head)
      BY <1>3, <2>2, StatesAre DEF DecideStatus, Statuses, Tagged
    <2>3. CASE s.tag # None /\ ~(s.tag.target # s.head \/ ~ok \/ main # s.head) /\ rtag = None
      BY <1>3, <2>3, StatesAre DEF DecideStatus, Statuses, Tagged
    <2>4. CASE /\ s.tag # None /\ ~(s.tag.target # s.head \/ ~ok \/ main # s.head)
               /\ rtag # None /\ (~rtag.annotated \/ rtag.target # s.head)
      BY <1>3, <2>4, StatesAre DEF DecideStatus, Statuses, Tagged
    <2>5. CASE /\ s.tag # None /\ ~(s.tag.target # s.head \/ ~ok \/ main # s.head)
               /\ rtag # None /\ ~(~rtag.annotated \/ rtag.target # s.head)
      BY <1>3, <2>5, StatesAre DEF DecideStatus, Statuses, Tagged
    <2> QED
      BY <2>1, <2>2, <2>3, <2>4, <2>5
  <1> QED
    BY <1>1, <1>2, <1>3

\* The report: a status that names the planned commit stands for what was seen.
LEMMA ReportsKeep ==
    ASSUME ReleaseInv, NEW r \in Run, Observe(r) \/ WriteReport(r)
    PROVE  Keeps
  <1>1. /\ RunInv(r) /\ run \in [Run -> Memory] /\ run[r] \in Memory /\ run[r].step \in Steps
        /\ run[r].pc \in {"observe", "report"} /\ run[r].cur = Rel /\ Starts(head)
    BY FileFacts DEF ReleaseInv, TypeOK, RunInv, Working, Observe, WriteReport
  <1>2. ASSUME NEW pc \in {"report", "load"}, NEW rep \in Report, ReportInv(rep),
               run' \in [Run -> Memory], Local(r), run'[r].pc = pc, run'[r].cur = Rel,
               run'[r].report = rep,
               \/ cache' \in {Torn, rep} /\ UNCHANGED trans
               \/ trans' \in {[trans EXCEPT ![run[r].step] = Torn],
                              [trans EXCEPT ![run[r].step] = rep]} /\ UNCHANGED cache,
               UNCHANGED <<repo, remote, bplan, tested, env, disturbed>>
        PROVE  Keeps
    <2>0. UNCHANGED <<head, track, main, tag, rtag, rel, tested>>
      BY <1>2 DEF repo, remote
    <2>1. cache' \in Reports /\ trans' \in [Steps -> Reports]
      BY <1>1, <1>2 DEF ReleaseInv, TypeOK, Reports
    <2>2. TypeOK'
      BY <1>2, <2>1 DEF ReleaseInv, TypeOK, repo, remote
    <2>3. Len(head) \in Nat
      BY BranchesAre DEF ReleaseInv, TypeOK
    <2>4. Grows
      BY <2>0, <2>3 DEF Grows, Starts
    <2>5. \A x : ReportInv(x) => ReportInv(x)'
      BY <2>0 DEF ReportInv, Claims, Passed, Starts
    <2>6. FileInv'
      <3>1. ASSUME cache' \notin {None, Torn} PROVE ReportInv(cache)'
        BY <1>2, <2>0, <3>1 DEF ReleaseInv, GlobalInv, FileInv, ReportInv, Claims, Passed, Starts
      <3>2. ASSUME NEW n \in Steps, trans'[n] \notin {None, Torn} PROVE ReportInv(trans[n])'
        <4>1. trans'[n] = rep \/ (trans'[n] = trans[n] /\ trans[n] \notin {None, Torn})
          BY <1>1, <1>2, <3>2 DEF ReleaseInv, TypeOK
        <4> QED
          BY <1>2, <2>0, <4>1 DEF ReleaseInv, GlobalInv, FileInv, ReportInv, Claims, Passed, Starts
      <3> QED
        BY <3>1, <3>2 DEF FileInv
    <2>7. GlobalInv'
      BY <2>0, <2>6 DEF ReleaseInv, GlobalInv, BranchInv, TagInv, PublishedIsTested, Starts
    <2>8. Starts(head)' /\ ReportInv(run[r].report)'
      BY <1>1, <1>2, <2>0 DEF Starts, ReportInv, Claims, Passed
    <2>9. RunInv(r)'
      BY <1>2, <2>8 DEF RunInv, Working
    <2> QED
      BY <1>2, <2>2, <2>4, <2>7, <2>9, StepKeeps
  <1>3. CASE Observe(r)
    <2>1. PICK ok \in {TRUE, ~CommandFails} :
            run' = [run EXCEPT ![r].pc = "report",
                             ![r].report = [status |-> DecideStatus(run[r].snap, run[r].gate.passed, ok, ok),
                                            head |-> run[r].snap.head,
                                            passed |-> run[r].gate.passed,
                                            head_after |-> run[r].gate.head_after]]
      BY <1>3 DEF Observe
    <2> DEFINE status == DecideStatus(run[r].snap, run[r].gate.passed, ok, ok)
               rep == [status |-> status, head |-> run[r].snap.head,
                       passed |-> run[r].gate.passed, head_after |-> run[r].gate.head_after]
    <2>2. /\ run[r].snap \in Snapshot /\ run[r].gate \in Gate
          /\ run[r].snap.synced /\ run[r].snap.head = Rel => Rel \in tested
          /\ run[r].gate.passed => Passed
      BY <1>1, <1>3 DEF Observe, RunInv
    <2>3. /\ status \in Statuses
          /\ status \in Synced => run[r].snap.synced
          /\ status \in Tagged => rtag # None /\ rtag.target = run[r].snap.head
      BY <2>2, DecideFacts DEF Gate
    <2> HIDE DEF status
    <2>4. rep \in Report /\ ReportInv(rep)
      BY <2>2, <2>3 DEF Report, Snapshot, Gate, ReportInv, Claims, Synced
    <2> HIDE DEF rep
    <2>5. run'[r] = [run[r] EXCEPT !.pc = "report", !.report = rep] /\ Local(r)
      BY <1>1, <2>1 DEF Local, rep, status
    <2>6. run'[r] \in Memory /\ run'[r].pc = "report" /\ run'[r].cur = Rel /\ run'[r].report = rep
      BY <1>1, <2>4, <2>5, MemoryIs DEF Labels
    <2>7. run' \in [Run -> Memory]
      BY <1>1, <2>1, <2>6
    <2> QED
      BY <1>2, <1>3, <2>4, <2>5, <2>6, <2>7 DEF Observe
  <1>4. CASE WriteReport(r)
    <2>1. Goto(r, "load") /\ run[r].pc = "report"
      BY <1>4 DEF WriteReport
    <2>2. /\ run' \in [Run -> Memory] /\ Local(r) /\ run'[r].pc = "load"
          /\ run'[r].cur = Rel /\ run'[r].report = run[r].report
      BY <1>1, <2>1, GotoFacts DEF Labels
    <2>3. run[r].report \in Report /\ ReportInv(run[r].report)
      BY <1>1, <2>1 DEF RunInv
    <2> QED
      BY <1>2, <1>4, <2>2, <2>3 DEF WriteReport
  <1> QED
    BY <1>3, <1>4

\* The workflow acts on the report it finds, its own or another execution's.
LEMMA LoadKeeps ==
    ASSUME ReleaseInv, NEW r \in Run, LoadReport(r) \/ GuardTimesOut(r)
    PROVE  Keeps
  <1>1. /\ RunInv(r) /\ run \in [Run -> Memory] /\ run[r] \in Memory
        /\ run[r].pc \in {"load", "tests", "testing", "observe"}
        /\ run[r].cur = Rel /\ Starts(head)
    BY DEF ReleaseInv, TypeOK, RunInv, Working, LoadReport, GuardTimesOut
  <1>2. UNCHANGED <<repo, remote, files, tested, env, disturbed>>
    BY DEF LoadReport, GuardTimesOut
  <1>3. UNCHANGED <<head, tested, rtag>> /\ Starts(head)'
    BY <1>1, <1>2 DEF repo, remote, Starts
  <1>4. CASE GuardFails(r)
    BY <1>1, <1>2, <1>3, <1>4, GuardFailsFacts, MemoryStepKeeps
  <1>5. CASE LoadReport(r) /\ ~GuardFails(r)
    <2> DEFINE rep == Loaded(r)
    <2>1. /\ ReportAccepted(r, rep)
          /\ run' = [run EXCEPT ![r].pc = "act", ![r].status = rep.status,
                               ![r].snap = None, ![r].gate = None, ![r].report = None]
      BY <1>5 DEF LoadReport
    <2>2. rep \in Report /\ ReportInv(rep) /\ rep.passed /\ rep.head = Rel
          /\ rep.status \in EXPECTED_STATES
      BY <1>1, <2>1, FileFacts DEF ReportAccepted
    <2>3. Passed /\ Claims(rep.status)
      BY <2>2 DEF ReportInv
    <2> HIDE DEF rep
    <2>4. /\ run'[r] = [run[r] EXCEPT !.pc = "act", !.status = rep.status, !.snap = None,
                                      !.gate = None, !.report = None]
          /\ Local(r)
      BY <1>1, <2>1 DEF Local
    <2>5. /\ run'[r] \in Memory /\ run'[r].pc = "act" /\ run'[r].cur = Rel
          /\ run'[r].status = rep.status
      <3> DEFINE st == rep.status
      <3>1. "act" \in Labels /\ st \in EXPECTED_STATES \cup {None}
        BY <2>2 DEF Labels
      <3>2. run'[r] = [run[r] EXCEPT !.pc = "act", !.status = st, !.snap = None,
                                     !.gate = None, !.report = None]
        BY <2>4
      <3> HIDE DEF st
      <3>3. run'[r] \in Memory
        BY <1>1, <3>1, <3>2, MemoryIs
      <3>4. run'[r].pc = "act" /\ run'[r].cur = Rel /\ run'[r].status = st
        BY <1>1, <3>2, MemoryIs
      <3> QED
        BY <3>3, <3>4 DEF st
    <2>6. run' \in [Run -> Memory]
      BY <1>1, <2>1, <2>5
    <2>7. Passed' /\ Claims(run[r].status)'
      BY <1>3, <2>3, <2>5 DEF Passed, Starts, Claims
    <2>8. RunInv(r)'
      BY <1>3, <2>2, <2>5, <2>7 DEF RunInv, Working
    <2> QED
      BY <1>2, <2>4, <2>6, <2>8, MemoryStepKeeps
  <1> QED
    BY <1>4, <1>5 DEF GuardTimesOut
-----------------------------------------------------------------------------
(* The steps that change the checkout, the remote or the plan.             *)

\* A label of the workflow that carries no promise but the commit worked for.
LEMMA PlainFacts ==
    ASSUME run \in [Run -> Memory], NEW r \in Run, NEW label \in {"preflight", "stage", "staged", "commit", "committed"},
           Goto(r, label), label = "preflight" => run[r].cur = None
    PROVE  run' \in [Run -> Memory] /\ Local(r) /\ RunInv(r)'
  <1>1. /\ run' \in [Run -> Memory] /\ Local(r) /\ run'[r].pc = label
        /\ run'[r].cur = run[r].cur
    BY GotoFacts DEF Labels
  <1> QED
    BY <1>1 DEF RunInv, Working

\* An execution starts with fresh memory, a crash leaves none.
LEMMA StartKeeps ==
    ASSUME ReleaseInv, NEW r \in Run, Start(r) \/ Crash(r)
    PROVE  Keeps
  <1>1. 0 \in Steps /\ run \in [Run -> Memory] /\ trans \in [Steps -> Reports] /\ head \in Branches
    BY BoundsAssumption DEF Steps, ReleaseInv, TypeOK
  <1>2. Idle \in Memory /\ [Idle EXCEPT !.pc = "fetch"] \in Memory
    BY <1>1, MemoryIs DEF Idle, Labels, Ended
  <1>3. /\ UNCHANGED <<repo, remote, bplan, cache, tested, env, disturbed>>
        /\ trans' \in {trans, [n \in Steps |-> None]}
    BY DEF Start, Crash, files
  <1>4. UNCHANGED <<head, track, main, tag, rtag, rel, cache, tested>>
    BY <1>3 DEF repo, remote
  <1>5. /\ run' \in [Run -> Memory] /\ Local(r)
        /\ run'[r].pc \in {"idle", "fetch"} /\ run'[r].cur = None
    BY <1>1, <1>2 DEF Start, Crash, Local, Idle
  <1>6. trans' \in [Steps -> Reports] /\ \A n \in Steps : trans'[n] \in {None, Torn, trans[n]}
    BY <1>1, <1>3 DEF Reports
  <1>7. TypeOK'
    BY <1>3, <1>5, <1>6 DEF ReleaseInv, TypeOK, repo, remote
  <1>8. Len(head) \in Nat
    BY <1>1, BranchesAre
  <1>9. Grows
    BY <1>4, <1>8 DEF Grows, Starts
  <1>10. FileInv'
    BY <1>4, <1>6, <1>7, <1>9, FilesGrow
  <1>11. GlobalInv'
    BY <1>4, <1>10 DEF ReleaseInv, GlobalInv, BranchInv, TagInv, PublishedIsTested, Starts
  <1>12. RunInv(r)'
    BY <1>5 DEF RunInv, Working
  <1> QED
    BY <1>5, <1>7, <1>9, <1>11, <1>12, StepKeeps

\* The fetch, the plan of the beta runtime and the staging touch nothing the invariant
\* rests on but the remote-tracking ref.
LEMMA PlanningKeeps ==
    ASSUME ReleaseInv, NEW r \in Run,
           FetchPreflight(r) \/ TruncateGitPlan(r) \/ WriteGitPlan(r) \/ GitStage(r)
    PROVE  Keeps
  <1>1. /\ RunInv(r) /\ run \in [Run -> Memory] /\ run[r] \in Memory
        /\ run[r].cur \in {None, Rel} /\ head \in Branches
    BY MemoryIs DEF ReleaseInv, TypeOK, Rel
  <1>2. /\ UNCHANGED <<head, stray, main, tag, rtag, rel, cache, trans, tested, env, disturbed>>
        /\ track' \in {track, main}
        /\ bplan' \in {bplan, Torn, "plan"}
        /\ planned' \in {planned, "staged", "partial"}
    BY DEF FetchPreflight, TruncateGitPlan, WriteGitPlan, GitStage, repo, remote, files
  <1>3. ASSUME run' \in [Run -> Memory], Local(r), RunInv(r)' PROVE Keeps
    <2>1. TypeOK'
      BY <1>2, <1>3 DEF ReleaseInv, TypeOK, Planned
    <2>2. Len(head) \in Nat
      BY <1>1, BranchesAre
    <2>3. Grows
      BY <1>2, <2>2 DEF Grows, Starts
    <2>4. FileInv'
      BY <1>2, <2>1, <2>3, FilesGrow
    <2>5. BranchInv' /\ TagInv' /\ PublishedIsTested'
      BY <1>2 DEF ReleaseInv, GlobalInv, BranchInv, TagInv, PublishedIsTested, Starts
    <2> QED
      BY <1>3, <2>1, <2>3, <2>4, <2>5, StepKeeps DEF GlobalInv
  <1>4. CASE Blocks(r)
    BY <1>1, <1>3, <1>4, BlocksFacts
  <1>5. CASE FetchPreflight(r) /\ ~Blocks(r)
    <2>1. Goto(r, "preflight") /\ run[r].cur = None
      BY <1>1, <1>5 DEF FetchPreflight, MayFail, RunInv
    <2> QED
      BY <1>1, <1>3, <2>1, PlainFacts
  <1>6. CASE GitStage(r) /\ ~Blocks(r)
    <2>1. Goto(r, "staged")
      BY <1>6 DEF GitStage, MayFail
    <2> QED
      BY <1>1, <1>3, <2>1, PlainFacts
  <1>7. CASE WriteGitPlan(r) /\ run[r].cur = None
    <2>1. Goto(r, "stage")
      BY <1>7 DEF WriteGitPlan
    <2> QED
      BY <1>1, <1>3, <2>1, PlainFacts
  <1>8. ASSUME NEW label \in {"planning", "pushcheck"}, Goto(r, label),
               run[r].pc \in {"plan", "planning"}, label = "pushcheck" => run[r].cur # None
        PROVE  Keeps
    <2>1. /\ run' \in [Run -> Memory] /\ Local(r) /\ run'[r].pc = label
          /\ run'[r].cur = run[r].cur /\ run'[r].step = run[r].step
      BY <1>1, <1>8, GotoFacts DEF Labels
    <2>2. run[r].cur # None =>
             run[r].cur = Rel /\ Starts(head) /\ Passed /\ run[r].step <= MaxTransitions
      BY <1>1, <1>8 DEF RunInv
    <2>3. run[r].cur # None => Starts(head)' /\ Passed'
      BY <1>2, <2>2 DEF Starts, Passed
    <2>4. RunInv(r)'
      BY <1>8, <2>1, <2>2, <2>3 DEF RunInv, Working
    <2> QED
      BY <1>3, <2>1, <2>4
  <1> QED
    BY <1>4, <1>5, <1>6, <1>7, <1>8 DEF TruncateGitPlan, WriteGitPlan

\* A commit goes on top of the checkout, the workflow's or a developer's.
LEMMA CommitFacts ==
    ASSUME ReleaseInv, NEW c \in Commit, Len(head) < MaxCommits, head' = Append(head, c),
           planned' \in Planned, run' \in [Run -> Memory], disturbed' \in 0..env'.disturbances,
           UNCHANGED <<stray, track, tag, remote, files, tested, env>>
    PROVE  TypeOK' /\ Grows /\ GlobalInv'
  <1>1. head \in Branches /\ UNCHANGED <<track, main, tag, rtag, rel, bplan, cache, trans, tested>>
    BY DEF ReleaseInv, TypeOK, remote, files
  <1>2. /\ Len(head) \in Nat /\ head' \in Branches /\ Len(head') = Len(head) + 1
        /\ head'[1] = (IF head = << >> THEN c ELSE head[1]) /\ head' # << >>
    BY <1>1, AppendBranch
  <1>3. TypeOK'
    BY <1>1, <1>2 DEF ReleaseInv, TypeOK
  <1>4. Starts(head) => Starts(head')
    BY <1>2 DEF Starts, Base
  <1>5. Grows
    BY <1>1, <1>2, <1>4 DEF Grows, Starts
  <1>6. FileInv'
    BY <1>1, <1>3, <1>5, FilesGrow
  <1>7. BranchInv' /\ TagInv' /\ PublishedIsTested'
    BY <1>1 DEF ReleaseInv, GlobalInv, BranchInv, TagInv, PublishedIsTested, Starts
  <1> QED
    BY <1>3, <1>5, <1>6, <1>7 DEF GlobalInv

LEMMA GitCommitKeeps ==
    ASSUME ReleaseInv, NEW r \in Run, GitCommit(r)
    PROVE  Keeps
  <1>1. run \in [Run -> Memory]
    BY DEF ReleaseInv, TypeOK
  <1>2. CASE Blocks(r) /\ UNCHANGED <<head, planned>>
    <2>1. UNCHANGED <<repo, remote, files, tested, env, disturbed>>
      BY <1>2 DEF GitCommit, repo
    <2> QED
      BY <1>1, <1>2, <2>1, BlocksFacts, MemoryStepKeeps
  <1>3. CASE /\ Len(head) < MaxCommits
             /\ head' = Append(head, IF planned = "staged" THEN "rel" ELSE "own")
             /\ planned' = IF planned = "staged" THEN "committed" ELSE "halfway"
             /\ Goto(r, "committed") \/ MayFail(r)
    <2>1. run' \in [Run -> Memory] /\ Local(r) /\ RunInv(r)'
      BY <1>1, <1>3, PlainFacts, BlocksFacts DEF MayFail
    <2>2. PICK c \in Commit : head' = Append(head, c)
      BY <1>3 DEF Commit
    <2>3. planned' \in Planned /\ disturbed' \in 0..env'.disturbances
      BY <1>3 DEF Planned, GitCommit, ReleaseInv, TypeOK
    <2>4. UNCHANGED <<stray, track, tag, remote, files, tested, env>>
      BY DEF GitCommit
    <2> QED
      BY <1>3, <2>1, <2>2, <2>3, <2>4, CommitFacts, StepKeeps
  <1> QED
    BY <1>2, <1>3 DEF GitCommit
\* What an execution about to act has been told.
LEMMA ActsFacts ==
    ASSUME ReleaseInv, NEW r \in Run, NEW a, Acts(r, a)
    PROVE  /\ run \in [Run -> Memory] /\ run[r].cur = Rel /\ Starts(head)
           /\ run[r].step <= MaxTransitions
           /\ run[r].status \in EXPECTED_STATES /\ Claims(run[r].status)
           /\ ExpectedAction[run[r].status] = a
  BY DEF Acts, ReleaseInv, TypeOK, RunInv, Working

\* A transition ends in the next guard, or in an error although its effect stands.
LEMMA DoneFacts ==
    ASSUME ReleaseInv, NEW r \in Run, NEW a, Acts(r, a), Done(r), UNCHANGED head
    PROVE  run' \in [Run -> Memory] /\ Local(r) /\ RunInv(r)'
  <1>1. Starts(head)'
    BY ActsFacts DEF Starts
  <1>2. CASE NextGuard(r)
    BY <1>1, <1>2, ActsFacts, NextGuardFacts
  <1>3. CASE Blocks(r)
    BY <1>3, ActsFacts, BlocksFacts
  <1> QED
    BY <1>2, <1>3 DEF Done, MayFail

\* The push publishes a branch that starts with the tested commit.
LEMMA PushMainKeeps ==
    ASSUME ReleaseInv, NEW r \in Run, PushMain(r)
    PROVE  Keeps
  <1>1. /\ run \in [Run -> Memory] /\ run[r].cur = Rel /\ Starts(head) /\ Rel \in tested
        /\ run[r].step <= MaxTransitions /\ head \in Branches
    BY DEF PushMain, ReleaseInv, TypeOK, RunInv, Working
  <1>2. UNCHANGED <<head, planned, stray, tag, rtag, rel, files, tested, env, disturbed>>
    BY DEF PushMain
  <1>3. CASE Blocks(r) /\ UNCHANGED <<main, track>>
    <2>1. UNCHANGED <<repo, remote, files, tested, env, disturbed>>
      BY <1>2, <1>3 DEF repo, remote
    <2> QED
      BY <1>1, <1>3, <2>1, BlocksFacts, MemoryStepKeeps
  <1>4. CASE main' = head /\ track' \in {track, head} /\ (Goto(r, "pushed") \/ Blocks(r))
    <2>1. Starts(head)'
      BY <1>1, <1>2 DEF Starts
    <2>2. run' \in [Run -> Memory] /\ Local(r) /\ RunInv(r)'
      <3>1. CASE Goto(r, "pushed")
        <4>1. /\ run' \in [Run -> Memory] /\ Local(r) /\ run'[r].pc = "pushed"
              /\ run'[r].cur = run[r].cur /\ run'[r].step = run[r].step
          BY <1>1, <3>1, GotoFacts DEF Labels
        <4> QED
          BY <1>1, <1>2, <2>1, <4>1 DEF RunInv, Working
      <3> QED
        BY <1>1, <1>4, <3>1, BlocksFacts
    <2>3. TypeOK'
      BY <1>1, <1>2, <1>4, <2>2 DEF ReleaseInv, TypeOK, files
    <2>4. Len(head) \in Nat
      BY <1>1, BranchesAre
    <2>5. Grows
      BY <1>1, <1>2, <1>4, <2>4 DEF Grows, Starts
    <2>6. FileInv'
      BY <1>2, <2>3, <2>5, FilesGrow DEF files
    <2>7. BranchInv' /\ TagInv' /\ PublishedIsTested'
      BY <1>1, <1>2 DEF ReleaseInv, GlobalInv, BranchInv, TagInv, PublishedIsTested
    <2> QED
      BY <2>2, <2>3, <2>5, <2>6, <2>7, StepKeeps DEF GlobalInv
  <1> QED
    BY <1>3, <1>4 DEF PushMain, MayFail

\* The fetch after the push moves the tracking ref to what the remote has by then.
LEMMA FetchMainKeeps ==
    ASSUME ReleaseInv, NEW r \in Run, FetchMain(r)
    PROVE  Keeps
  <1>1. /\ run \in [Run -> Memory] /\ run[r].cur = Rel /\ Starts(head) /\ Rel \in tested
        /\ run[r].step <= MaxTransitions /\ head \in Branches
    BY DEF FetchMain, ReleaseInv, TypeOK, RunInv, Working
  <1>2. /\ UNCHANGED <<head, planned, stray, main, tag, rtag, rel, files, tested, env, disturbed>>
        /\ track' \in {track, main} /\ (NextGuard(r) \/ Blocks(r))
    BY DEF FetchMain, MayFail, remote
  <1>3. Starts(head)'
    BY <1>1, <1>2 DEF Starts
  <1>4. run' \in [Run -> Memory] /\ Local(r) /\ RunInv(r)'
    BY <1>1, <1>2, <1>3, NextGuardFacts, BlocksFacts
  <1>5. TypeOK'
    BY <1>1, <1>2, <1>4 DEF ReleaseInv, TypeOK, files
  <1>6. Len(head) \in Nat
    BY <1>1, BranchesAre
  <1>7. Grows
    BY <1>1, <1>2, <1>6 DEF Grows, Starts
  <1>8. FileInv'
    BY <1>2, <1>5, <1>7, FilesGrow DEF files
  <1>9. BranchInv' /\ TagInv' /\ PublishedIsTested'
    BY <1>1, <1>2 DEF ReleaseInv, GlobalInv, BranchInv, TagInv, PublishedIsTested
  <1> QED
    BY <1>4, <1>5, <1>7, <1>8, <1>9, StepKeeps DEF GlobalInv

\* A step that leaves branches, files and evidence alone keeps what is known of the tags
\* and the release when it makes neither of them untrue.
LEMMA PublicationKeeps ==
    ASSUME ReleaseInv, run' \in [Run -> Memory],
           UNCHANGED <<head, planned, stray, track, main, files, tested, env>>,
           disturbed' \in 0..env.disturbances,
           tag' \in Tag \cup {None}, rtag' \in Tag \cup {None}, rel' \in Release,
           tag # None => tag' = tag, rtag # None => rtag' = rtag,
           rel.state = "published" => rel'.state = "published" /\ rel'.titled = rel.titled,
           TagInv', PublishedIsTested'
    PROVE  TypeOK' /\ Grows /\ GlobalInv'
  <1>1. TypeOK'
    BY DEF ReleaseInv, TypeOK, files
  <1>2. Len(head) \in Nat
    BY BranchesAre DEF ReleaseInv, TypeOK
  <1>3. Grows
    BY <1>2 DEF Grows, Starts
  <1>4. FileInv'
    BY <1>1, <1>3, FilesGrow DEF files
  <1>5. BranchInv'
    BY DEF ReleaseInv, GlobalInv, BranchInv, Starts
  <1> QED
    BY <1>1, <1>3, <1>4, <1>5 DEF GlobalInv

LEMMA CreateTagKeeps ==
    ASSUME ReleaseInv, NEW r \in Run, CreateTag(r)
    PROVE  Keeps
  <1>1. /\ run \in [Run -> Memory] /\ run[r].cur = Rel /\ Starts(head)
        /\ run[r].step <= MaxTransitions /\ Rel \in tested
    <2>1. Acts(r, "create_tag")
      BY DEF CreateTag
    <2>2. run[r].status = "NEEDS_TAG_CREATION"
      BY <2>1, ActsFacts, StatesAre DEF ExpectedAction
    <2> QED
      BY <2>1, <2>2, ActsFacts DEF Claims, Synced
  <1>2. UNCHANGED <<head, planned, stray, track, main, rtag, rel, files, tested, env, disturbed>>
    BY DEF CreateTag, remote
  <1>3. CASE UNCHANGED tag /\ (NextGuard(r) \/ Blocks(r))
    <2>1. UNCHANGED <<repo, remote, files, tested, env, disturbed>> /\ Starts(head)'
      BY <1>1, <1>2, <1>3 DEF repo, remote, Starts
    <2>2. run' \in [Run -> Memory] /\ Local(r) /\ RunInv(r)'
      BY <1>1, <1>3, <2>1, NextGuardFacts, BlocksFacts
    <2> QED
      BY <2>1, <2>2, MemoryStepKeeps
  <1>4. CASE /\ tag = None /\ Done(r)
             /\ tag' = [target |-> run[r].cur, annotated |-> TRUE, by |-> "workflow"]
    <2>1. Acts(r, "create_tag") /\ Rel \in Branches
      BY <1>1 DEF CreateTag, ReleaseInv, TypeOK
    <2>2. run' \in [Run -> Memory] /\ Local(r) /\ RunInv(r)'
      BY <1>2, <1>4, <2>1, DoneFacts
    <2>3. tag' \in Tag /\ tag'.target = Rel
      BY <1>1, <1>4, <2>1 DEF Tag
    <2>4. TagInv' /\ PublishedIsTested'
      BY <1>1, <1>2, <2>3 DEF ReleaseInv, GlobalInv, TagInv, PublishedIsTested
    <2>5. rtag' \in Tag \cup {None} /\ rel' \in Release /\ disturbed' \in 0..env.disturbances
      BY <1>2 DEF ReleaseInv, TypeOK
    <2>6. TypeOK' /\ Grows /\ GlobalInv'
      BY <1>2, <1>4, <2>2, <2>3, <2>4, <2>5, PublicationKeeps
    <2> QED
      BY <2>2, <2>6, StepKeeps
  <1> QED
    BY <1>3, <1>4 DEF CreateTag

LEMMA PushTagKeeps ==
    ASSUME ReleaseInv, NEW r \in Run, PushTag(r)
    PROVE  Keeps
  <1>1. Acts(r, "push_tag") /\ run \in [Run -> Memory]
    BY ActsFacts DEF PushTag
  <1>2. UNCHANGED <<repo, main, rel, files, tested, env, disturbed>>
    BY DEF PushTag
  <1>3. CASE Blocks(r) /\ UNCHANGED rtag
    <2>1. UNCHANGED <<repo, remote, files, tested, env, disturbed>>
      BY <1>2, <1>3 DEF remote
    <2> QED
      BY <1>1, <1>3, <2>1, BlocksFacts, MemoryStepKeeps
  <1>4. CASE tag # None /\ rtag \in {None, tag} /\ rtag' = tag /\ Done(r)
    <2>1. UNCHANGED <<head, planned, stray, track, tag>>
      BY <1>2 DEF repo
    <2>2. run' \in [Run -> Memory] /\ Local(r) /\ RunInv(r)'
      BY <1>1, <1>4, <2>1, DoneFacts
    <2>3. TagInv'
      BY <1>2, <2>1 DEF ReleaseInv, GlobalInv, TagInv
    <2>4. PublishedIsTested'
      BY <1>2, <1>4 DEF ReleaseInv, GlobalInv, TagInv, PublishedIsTested, Aligned, Rel
    <2>5. /\ tag' \in Tag \cup {None} /\ rtag' \in Tag \cup {None} /\ rel' \in Release
          /\ disturbed' \in 0..env.disturbances
      BY <1>2, <1>4, <2>1 DEF ReleaseInv, TypeOK
    <2>6. TypeOK' /\ Grows /\ GlobalInv'
      BY <1>2, <1>4, <2>1, <2>2, <2>3, <2>4, <2>5, PublicationKeeps
    <2> QED
      BY <2>2, <2>6, StepKeeps
  <1> QED
    BY <1>3, <1>4 DEF PushTag

LEMMA ReleaseStepsKeep ==
    ASSUME ReleaseInv, NEW r \in Run, PublishRelease(r) \/ PromoteLatest(r)
    PROVE  Keeps
  <1>1. run \in [Run -> Memory] /\ rel \in Release
    BY DEF ReleaseInv, TypeOK
  <1>2. UNCHANGED <<repo, main, rtag, files, tested, env, disturbed>>
    BY DEF PublishRelease, PromoteLatest
  <1>3. UNCHANGED <<head, planned, stray, track, tag>>
    BY <1>2 DEF repo
  <1>4. CASE Blocks(r) /\ UNCHANGED rel
    <2>1. UNCHANGED <<repo, remote, files, tested, env, disturbed>>
      BY <1>2, <1>4 DEF remote
    <2> QED
      BY <1>1, <1>4, <2>1, BlocksFacts, MemoryStepKeeps
  <1>5. ASSUME NEW a, Acts(r, a), Done(r), rel' \in Release,
               rel.state = "published" => rel'.state = "published" /\ rel'.titled = rel.titled,
               rel'.by = "workflow" => rtag # None /\ rtag.target = Rel /\ Rel \in tested
        PROVE  Keeps
    <2>1. run' \in [Run -> Memory] /\ Local(r) /\ RunInv(r)'
      BY <1>3, <1>5, DoneFacts
    <2>2. TagInv' /\ PublishedIsTested'
      BY <1>2, <1>3, <1>5 DEF ReleaseInv, GlobalInv, TagInv, PublishedIsTested, Aligned, Rel
    <2>3. /\ tag' \in Tag \cup {None} /\ rtag' \in Tag \cup {None}
          /\ disturbed' \in 0..env.disturbances
      BY <1>2, <1>3 DEF ReleaseInv, TypeOK
    <2>4. TypeOK' /\ Grows /\ GlobalInv'
      BY <1>2, <1>3, <1>5, <2>1, <2>2, <2>3, PublicationKeeps
    <2> QED
      BY <2>1, <2>4, StepKeeps
  <1>6. CASE PublishRelease(r) /\ ~(Blocks(r) /\ UNCHANGED rel)
    <2>1. /\ Acts(r, "publish_release") /\ Done(r) /\ rel.state = "none"
          /\ rel' = [state |-> "published", titled |-> TRUE, latest |-> TRUE, by |-> "workflow"]
      BY <1>6 DEF PublishRelease
    <2>2. run[r].status = "NEEDS_RELEASE_PUBLICATION"
      BY <2>1, ActsFacts, StatesAre DEF ExpectedAction
    <2>3. rtag # None /\ rtag.target = Rel /\ Rel \in tested
      BY <2>1, <2>2, ActsFacts DEF Claims, Tagged, Synced
    <2>4. rel' \in Release
      BY <2>1 DEF Release
    <2> QED
      BY <1>5, <2>1, <2>3, <2>4
  <1>7. CASE PromoteLatest(r) /\ ~(Blocks(r) /\ UNCHANGED rel)
    <2>1. /\ Acts(r, "promote_latest") /\ Done(r)
          /\ rel' = [rel EXCEPT !.latest = TRUE]
      BY <1>7 DEF PromoteLatest
    <2>2. rel' \in Release /\ rel'.state = rel.state /\ rel'.titled = rel.titled /\ rel'.by = rel.by
      BY <1>1, <2>1 DEF Release
    <2>3. rel'.by = "workflow" => rtag # None /\ rtag.target = Rel /\ Rel \in tested
      BY <2>2 DEF ReleaseInv, GlobalInv, PublishedIsTested, Aligned, Rel
    <2> QED
      BY <1>5, <2>1, <2>2, <2>3
  <1> QED
    BY <1>4, <1>6, <1>7

-----------------------------------------------------------------------------
(* Outside actors.                                                         *)

LEMMA OutsideStepsKeep ==
    ASSUME ReleaseInv, Outside
    PROVE  Keeps
  <1>1. /\ run \in [Run -> Memory] /\ head \in Branches /\ main \in Branches /\ rel \in Release
        /\ tag \in Tag \cup {None} /\ rtag \in Tag \cup {None} /\ UNCHANGED <<run, env, tested>>
    BY DEF ReleaseInv, TypeOK, Outside, UpstreamPush, UpstreamTag, DeveloperCommit, StrayEdit,
           RestoreScope, LightweightTag, Demote, OtherRelease, CleanSandbox
  <1>2. disturbed' \in 0..env.disturbances
    <2>1. env.disturbances \in Nat /\ disturbed \in 0..env.disturbances
      BY EnvironmentsAssumption DEF ReleaseInv, TypeOK, Environment
    <2>2. disturbed' = disturbed \/ (disturbed < env.disturbances /\ disturbed' = disturbed + 1)
      BY DEF Outside, UpstreamPush, UpstreamTag, DeveloperCommit, StrayEdit, RestoreScope,
             LightweightTag, Demote, OtherRelease, CleanSandbox, Disturbs
    <2> QED
      BY <2>1, <2>2
  <1>3. Len(head) \in Nat
    BY <1>1, BranchesAre
  <1>4. CASE UpstreamPush
    <2>1. /\ Len(main) < MaxCommits /\ main' = Append(main, "up")
          /\ UNCHANGED <<head, planned, stray, track, tag, rtag, rel, bplan, cache, trans>>
      BY <1>4 DEF UpstreamPush, repo, files
    <2>2. /\ main' \in Branches /\ main' # << >>
          /\ main'[1] = IF main = << >> THEN "up" ELSE main[1]
      BY <1>1, <2>1, AppendBranch DEF Commit
    <2>3. Starts(main') <=> Starts(main)
      BY <2>2 DEF Starts, Base
    <2>4. TypeOK'
      BY <1>1, <1>2, <2>1, <2>2 DEF ReleaseInv, TypeOK
    <2>5. Grows
      BY <1>1, <1>3, <2>1, <2>3 DEF Grows, Starts
    <2>6. FileInv'
      BY <2>1, <2>4, <2>5, FilesGrow
    <2>7. BranchInv' /\ TagInv' /\ PublishedIsTested'
      BY <1>1, <2>1, <2>3 DEF ReleaseInv, GlobalInv, BranchInv, TagInv, PublishedIsTested, Starts
    <2> QED
      BY <1>1, <2>4, <2>5, <2>6, <2>7, OutsideKeeps DEF GlobalInv
  <1>5. CASE DeveloperCommit
    <2>1. /\ Len(head) < MaxCommits /\ head' = Append(head, "own")
          /\ planned' = IF planned = "staged" THEN "committed" ELSE planned
          /\ UNCHANGED <<stray, track, tag, remote, files, tested, env>>
      BY <1>5 DEF DeveloperCommit
    <2>2. planned' \in Planned
      BY <2>1 DEF ReleaseInv, TypeOK, Planned
    <2>3. TypeOK' /\ Grows /\ GlobalInv'
      BY <1>1, <1>2, <2>1, <2>2, CommitFacts DEF Commit
    <2> QED
      BY <1>1, <2>3, OutsideKeeps
  <1>6. CASE StrayEdit \/ RestoreScope \/ CleanSandbox
    <2>1. UNCHANGED <<head, track, main, tag, rtag, rel, tested, run, env>>
      BY <1>1, <1>6 DEF StrayEdit, RestoreScope, CleanSandbox, repo, remote
    <2>2. /\ planned' \in Planned /\ stray' \in BOOLEAN /\ bplan' \in {None, bplan}
          /\ cache' \in {None, cache} /\ trans' \in {[n \in Steps |-> None], trans}
      BY <1>6 DEF StrayEdit, RestoreScope, CleanSandbox, repo, files, ReleaseInv, TypeOK, Planned
    <2>3. TypeOK'
      BY <1>2, <2>1, <2>2 DEF ReleaseInv, TypeOK, Reports
    <2>4. Grows
      BY <1>3, <2>1 DEF Grows, Starts
    <2>5. FileInv'
      BY <2>2, <2>3, <2>4, FilesGrow
    <2>6. BranchInv' /\ TagInv' /\ PublishedIsTested'
      BY <2>1 DEF ReleaseInv, GlobalInv, BranchInv, TagInv, PublishedIsTested, Starts
    <2> QED
      BY <2>1, <2>3, <2>4, <2>5, <2>6, OutsideKeeps DEF GlobalInv
  <1>7. CASE UpstreamTag \/ LightweightTag \/ Demote \/ OtherRelease
    <2>1. UNCHANGED <<head, planned, stray, track, main, files, tested, env>>
      BY <1>1, <1>7 DEF UpstreamTag, LightweightTag, Demote, OtherRelease, repo, remote
    <2>2. /\ tag' = tag \/ (tag = None /\ tag' = [target |-> head, annotated |-> FALSE, by |-> "outside"])
          /\ rtag' = rtag \/ (rtag = None /\ rtag' = [target |-> main, annotated |-> TRUE, by |-> "outside"])
      BY <1>7 DEF UpstreamTag, LightweightTag, Demote, OtherRelease, repo, remote
    <2>3. /\ tag' \in Tag \cup {None} /\ (tag' = tag \/ tag'.by = "outside")
          /\ rtag' \in Tag \cup {None} /\ (rtag' = rtag \/ rtag'.by = "outside")
      <3>1. /\ [target |-> head, annotated |-> FALSE, by |-> "outside"] \in Tag
            /\ [target |-> main, annotated |-> TRUE, by |-> "outside"] \in Tag
        BY <1>1 DEF Tag
      <3>2. tag' \in Tag \cup {None} /\ rtag' \in Tag \cup {None}
        BY <1>1, <2>2, <3>1
      <3>3. tag' = tag \/ tag'.by = "outside"
        BY <2>2
      <3>4. rtag' = rtag \/ rtag'.by = "outside"
        BY <2>2
      <3> QED
        BY <3>2, <3>3, <3>4
    <2>4. /\ rel' \in Release /\ (rel'.by = rel.by \/ rel'.by = "outside")
          /\ rel.state = "published" => rel'.state = "published" /\ rel'.titled = rel.titled
      <3>1. CASE rel' = rel
        BY <1>1, <3>1
      <3>2. CASE rel' = [rel EXCEPT !.latest = FALSE]
        BY <1>1, <3>2 DEF Release
      <3>3. CASE rel.state = "none" /\ \E s \in {"draft", "prerelease", "published"}, t \in BOOLEAN :
                    rel' = [state |-> s, titled |-> t, latest |-> FALSE, by |-> "outside"]
        BY <3>3 DEF Release
      <3> QED
        BY <1>7, <3>1, <3>2, <3>3 DEF UpstreamTag, LightweightTag, Demote, OtherRelease, remote
    <2>5. TagInv' /\ PublishedIsTested'
      BY <2>1, <2>2, <2>3, <2>4 DEF ReleaseInv, GlobalInv, TagInv, PublishedIsTested
    <2>6. TypeOK' /\ Grows /\ GlobalInv'
      BY <1>1, <1>2, <2>1, <2>2, <2>3, <2>4, <2>5, PublicationKeeps
    <2> QED
      BY <1>1, <2>6, OutsideKeeps
  <1> QED
    BY <1>4, <1>5, <1>6, <1>7 DEF Outside
-----------------------------------------------------------------------------
(* The workflow.                                                           *)

LEMMA InitHolds == Init => ReleaseInv
  <1> SUFFICES ASSUME Init PROVE ReleaseInv
    OBVIOUS
  <1>1. 0 \in Steps
    BY BoundsAssumption DEF Steps
  <1>2. Base \in Branches
    <2>1. Base \in Seq(Commit) /\ Len(Base) = 0
      BY DEF Base
    <2>2. Len(Base) <= MaxCommits
      BY <2>1, BoundsAssumption
    <2> HIDE DEF Base
    <2> QED
      BY <2>1, <2>2, BranchesAre
  <1>3. Idle \in Memory
    BY <1>1, MemoryIs DEF Idle, Labels, Ended
  <1>4. env.disturbances \in Nat
    BY EnvironmentsAssumption DEF Init, Environment
  <1>5. TypeOK
    <2>1. /\ head \in Branches /\ track \in Branches /\ main \in Branches
          /\ planned \in Planned /\ stray \in BOOLEAN
          /\ tag \in Tag \cup {None} /\ rtag \in Tag \cup {None}
      BY <1>2 DEF Init, Planned
    <2>2. rel \in Release
      BY DEF Init, Release
    <2>3. /\ bplan \in {None, Torn, "plan"} /\ cache \in Reports /\ trans \in [Steps -> Reports]
          /\ tested \subseteq Branches /\ run \in [Run -> Memory]
      BY <1>3 DEF Init, Reports
    <2>4. env \in Environments /\ disturbed \in 0 .. env.disturbances
      BY <1>4 DEF Init
    <2> QED
      BY <2>1, <2>2, <2>3, <2>4 DEF TypeOK
  <1>6. GlobalInv
    BY DEF Init, GlobalInv, BranchInv, TagInv, FileInv, PublishedIsTested, Starts
  <1>7. ASSUME NEW r \in Run PROVE RunInv(r)
    BY DEF Init, Idle, RunInv, Working
  <1> QED
    BY <1>5, <1>6, <1>7 DEF ReleaseInv

LEMMA StepsKeep ==
    ASSUME ReleaseInv, NEW r \in Run, Start(r) \/ Step(r) \/ Crash(r)
    PROVE  Keeps
  BY StartKeeps, PlanningKeeps, DecidingKeeps, GitCommitKeeps, ChooseEvidenceKeeps,
     GuardLocalKeeps, TestsKeep, ReportsKeep, LoadKeeps, PushMainKeeps, FetchMainKeeps, CreateTagKeeps, PushTagKeeps, ReleaseStepsKeep
  DEF Step

LEMMA StutterKeeps == ReleaseInv /\ UNCHANGED vars => Keeps
  <1> SUFFICES ASSUME ReleaseInv, UNCHANGED vars PROVE Keeps
    OBVIOUS
  <1>1. UNCHANGED <<repo, remote, files, tested, env, disturbed, run>>
    BY DEF vars, repo, remote, files
  <1>2. TypeOK'
    BY <1>1, QuietTyped DEF ReleaseInv, TypeOK
  <1> QED
    BY <1>1, <1>2, QuietGlobals, OutsideKeeps

\* A closed execution told the truth: the refs and the release verify_final saw are of the
\* kind that nobody takes back.
LEMMA ClosedFromInv == ReleaseInv => ClosedIsTrue
  <1> SUFFICES ASSUME ReleaseInv, NEW r \in Run, run[r].pc = "closed"
               PROVE  /\ run[r].cur \in tested
                      /\ IsPrefix(run[r].cur, main)
                      /\ rtag = tag /\ rtag.target = run[r].cur /\ rtag.annotated
                      /\ rel.state = "published" /\ rel.titled
    BY DEF ClosedIsTrue
  <1>1. run[r].cur = Rel /\ RefsTrue /\ rel.state = "published" /\ rel.titled
    BY DEF ReleaseInv, RunInv, Working
  <1>2. IsPrefix(Rel, main)
    BY <1>1, RelFacts DEF RefsTrue, ReleaseInv, TypeOK
  <1> QED
    BY <1>1, <1>2 DEF RefsTrue

\* The supervised release by itself, any number of executions at any time on one checkout:
\* what they publish has been tested (load_test_evidence, push_tag, publish_release).
THEOREM WorkflowPublishesTested == Spec => []PublishedIsTested
  <1>1. ReleaseInv /\ [Next]_vars => ReleaseInv'
    BY StepsKeep, OutsideStepsKeep, StutterKeeps DEF Next, Keeps
  <1>2. ReleaseInv => PublishedIsTested
    BY DEF ReleaseInv, GlobalInv
  <1> QED
    BY InitHolds, <1>1, <1>2, PTL DEF Spec

\* The same for what an execution reports when it ends as RELEASE_CLOSED (verify_final).
THEOREM WorkflowClosesTruly == Spec => []ClosedIsTrue
  <1>1. ReleaseInv /\ [Next]_vars => ReleaseInv'
    BY StepsKeep, OutsideStepsKeep, StutterKeeps DEF Next, Keeps
  <1> QED
    BY InitHolds, ClosedFromInv, <1>1, PTL DEF Spec

-----------------------------------------------------------------------------
(* The delivery around it.                                                 *)

\* A wrapper that reported PACKAGE_RELEASE_CLOSED saw the refs and the release.
DeliverInv == \A r \in Run : deliver[r].pc = "closed" => RefsTrue /\ rel.state = "published" /\ rel.titled

WrapperLabels == DEnded \cup {"inspect", "helper", "confirm", "accept", "prestatus", "release",
                              "releasing", "status"}
WrapperMemory == [pc : WrapperLabels, before : {None, "package", "changed"}, acted : BOOLEAN,
                  child : Run \cup {None}]
WrapperTyped == deliver \in [Installer -> WrapperMemory] /\ direct \in {"package", "changed"}

DeliveryInv == ReleaseInv /\ WrapperTyped /\ DeliverInv

\* --status with the network calls a release closed only when it is.
LEMMA StatusIsTrue ==
    ASSUME ReleaseInv, NEW remoteOk, InspectReleaseStatus(TRUE, remoteOk) = "RELEASE_CLOSED"
    PROVE  RefsTrue /\ rel.state = "published" /\ rel.titled
  <1>1. /\ Aligned(head) /\ main = head
        /\ tag # None /\ rtag = tag /\ rtag.annotated /\ rtag.target = head
        /\ rel.state = "published" /\ rel.titled
    BY DEF InspectReleaseStatus, DeriveRecoveryState
  <1>2. Starts(main) /\ head = Rel
    BY <1>1, RelFacts DEF Aligned, Rel
  <1> QED
    BY <1>1, <1>2 DEF RefsTrue, ReleaseInv, GlobalInv, BranchInv

\* The step of the release that a step of the delivery takes, if any: one of the workflow or
\* an outside actor, the death of a wrapper, or a change of the checkout's files.
LEMMA UnderlyingStep ==
    ASSUME ReleaseInv, DNext
    PROVE  \/ Outside \/ UNCHANGED vars
           \/ \E r \in Run : Start(r) \/ Step(r) \/ Crash(r)
           \/ /\ planned' \in Planned /\ stray' \in BOOLEAN /\ disturbed' \in 0 .. env.disturbances
              /\ UNCHANGED <<head, track, tag, remote, files, tested, run, env>>
  <1>1. /\ planned \in Planned /\ stray \in BOOLEAN
        /\ env.disturbances \in Nat /\ disturbed \in 0 .. env.disturbances
    BY EnvironmentsAssumption DEF ReleaseInv, TypeOK, Environment
  <1>2. CASE Reextract
    BY <1>1, <1>2 DEF Reextract, Planned
  <1>3. CASE ReleaseNext
    BY <1>3 DEF ReleaseNext
  <1>4. ASSUME NEW p \in Installer, NEW own \in BOOLEAN, NEW foreign \in BOOLEAN,
               HelperWrites(p, own, foreign)
        PROVE  /\ planned' \in Planned /\ stray' \in BOOLEAN /\ disturbed' \in 0 .. env.disturbances
               /\ UNCHANGED <<head, track, tag, remote, files, tested, run, env>>
    BY <1>1, <1>4 DEF HelperWrites, Planned
  <1>5. ASSUME NEW p \in Installer, InstallStep(p) PROVE UNCHANGED vars
    BY <1>5 DEF InstallStep, InspectPackage, HelperEnds, ConfirmInstalled
  <1>6. ASSUME NEW r \in Run, DCrash(r)
        PROVE  /\ planned' \in Planned /\ stray' \in BOOLEAN /\ disturbed' \in 0 .. env.disturbances
               /\ UNCHANGED <<head, track, tag, remote, files, tested, run, env>>
    BY <1>1, <1>6 DEF DCrash, Disturbs, repo
  <1>7. ASSUME NEW r \in Run, StartRelease(r) PROVE \E q \in Run : Start(q)
    BY <1>7 DEF StartRelease
  <1>8. ASSUME NEW r \in Run,
               StartDelivery(r) \/ Accept(r) \/ PreStatus(r) \/ ReleaseEnds(r) \/ FinalStatus(r)
        PROVE  UNCHANGED vars
    BY <1>8 DEF StartDelivery, Accept, PreStatus, ReleaseEnds, FinalStatus
  <1> QED
    BY <1>2, <1>3, <1>4, <1>5, <1>6, <1>7, <1>8 DEF DNext, DStep, Installer

\* Editing the checkout's files keeps the invariant of the release.
LEMMA EditKeeps ==
    ASSUME ReleaseInv, planned' \in Planned, stray' \in BOOLEAN, disturbed' \in 0 .. env.disturbances,
           UNCHANGED <<head, track, tag, remote, files, tested, run, env>>
    PROVE  Keeps
  <1>1. UNCHANGED <<main, rtag, rel, bplan, cache, trans>>
    BY DEF remote, files
  <1>2. TypeOK'
    BY <1>1 DEF ReleaseInv, TypeOK
  <1>3. Len(head) \in Nat
    BY BranchesAre DEF ReleaseInv, TypeOK
  <1>4. Grows
    BY <1>1, <1>3 DEF Grows, Starts
  <1>5. FileInv'
    BY <1>1, <1>2, <1>4, FilesGrow
  <1>6. BranchInv' /\ TagInv' /\ PublishedIsTested'
    BY <1>1 DEF ReleaseInv, GlobalInv, BranchInv, TagInv, PublishedIsTested, Starts
  <1> QED
    BY <1>2, <1>4, <1>5, <1>6, OutsideKeeps DEF GlobalInv

LEMMA ReleaseKept ==
    ASSUME ReleaseInv, [DNext]_allvars
    PROVE  Keeps
  <1>1. CASE UNCHANGED vars
    BY <1>1, StutterKeeps
  <1> QED
    BY <1>1, UnderlyingStep, StepsKeep, OutsideStepsKeep, EditKeeps DEF allvars

\* What the workflow and the outside actors do to the planned paths: none of them extracts
\* the package.
LEMMA NobodyExtracts ==
    ASSUME Outside \/ \E r \in Run : Start(r) \/ Step(r) \/ Crash(r)
    PROVE  planned' = "extracted" => planned = "extracted"
  <1>1. CASE Outside
    BY <1>1 DEF Outside, UpstreamPush, UpstreamTag, DeveloperCommit, StrayEdit, RestoreScope,
             LightweightTag, Demote, OtherRelease, CleanSandbox, repo
  <1>2. ASSUME NEW r \in Run, Start(r) \/ Step(r) \/ Crash(r)
        PROVE  planned' = "extracted" => planned = "extracted"
    <2>1. CASE GitStage(r)
      BY <2>1 DEF GitStage
    <2>2. CASE GitCommit(r)
      BY <2>2 DEF GitCommit
    <2>3. CASE \/ Start(r) \/ Crash(r) \/ FetchPreflight(r) \/ Preflight(r) \/ TruncateGitPlan(r)
               \/ WriteGitPlan(r) \/ CheckStaged(r) \/ VerifyCommit(r)
      BY <2>3 DEF Start, Crash, FetchPreflight, Preflight, TruncateGitPlan, WriteGitPlan,
                  CheckStaged, VerifyCommit, repo
    <2>4. CASE \/ ChooseEvidence(r) \/ GuardLocal(r) \/ StartTests(r) \/ EndTests(r) \/ Observe(r) \/ WriteReport(r)
               \/ LoadReport(r) \/ QueryFails(r) \/ GuardTimesOut(r) \/ TransitionsExceeded(r)
      BY <2>4 DEF ChooseEvidence, GuardLocal, StartTests, EndTests, Observe, WriteReport, LoadReport, QueryFails,
                  GuardTimesOut, TransitionsExceeded, repo
    <2>5. CASE \/ EnsureBetaPlan(r) \/ CheckPush(r) \/ PushMain(r) \/ FetchMain(r)
               \/ CreateTag(r) \/ PushTag(r) \/ PublishRelease(r) \/ PromoteLatest(r) \/ VerifyRefs(r) \/ VerifyRelease(r)
      BY <2>5 DEF EnsureBetaPlan, CheckPush, PushMain, FetchMain, CreateTag, PushTag, PublishRelease,
                  PromoteLatest, VerifyRefs, VerifyRelease, repo
    <2> QED
      BY <1>2, <2>1, <2>2, <2>3, <2>4, <2>5 DEF Step
  <1> QED
    BY <1>1, <1>2

\* What one step does to the installers and wrappers: one of them moves, the installer of a
\* dying wrapper is orphaned, or a new extraction makes their history void.
Moves(p, m) == deliver' = [deliver EXCEPT ![p] = m] /\ direct' \in {direct, "changed"}
Orphans(r) ==
    /\ deliver[r].pc \in {"inspect", "helper", "confirm"} /\ deliver[Orphan].pc \in DEnded
    /\ deliver' = [deliver EXCEPT ![r] = DIdle, ![Orphan] = deliver[r]] /\ direct' = direct
Forgets == deliver' = [p \in Installer |-> [deliver[p] EXCEPT !.acted = FALSE]] /\ direct' = "package"

\* What a wrapper sees that calls the delivery closed.
SeesClosed == UNCHANGED vars /\ \E remoteOk : InspectReleaseStatus(TRUE, remoteOk) = "RELEASE_CLOSED"

\* A label is left for another, or the process ends.
LEMMA WrapperLabelled ==
    ASSUME WrapperTyped, NEW p \in Installer
    PROVE  /\ \A label \in WrapperLabels : DGoto(p, label) =>
                 \E m \in WrapperMemory : m.pc = label /\ deliver' = [deliver EXCEPT ![p] = m]
           /\ DBlocks(p) \/ deliver' = [deliver EXCEPT ![p] = DIdle] =>
                 \E m \in WrapperMemory : m.pc \in {"idle", "blocked"} /\ deliver' = [deliver EXCEPT ![p] = m]
  <1>1. deliver[p] \in WrapperMemory
    BY DEF WrapperTyped
  <1>2. ASSUME NEW label \in WrapperLabels, DGoto(p, label)
        PROVE  \E m \in WrapperMemory : m.pc = label /\ deliver' = [deliver EXCEPT ![p] = m]
    <2> DEFINE m == [deliver[p] EXCEPT !.pc = label]
    <2>1. m \in WrapperMemory /\ m.pc = label /\ deliver' = [deliver EXCEPT ![p] = m]
      BY <1>1, <1>2 DEF DGoto, WrapperMemory
    <2> HIDE DEF m
    <2> QED
      BY <2>1
  <1>3. ASSUME DBlocks(p) \/ deliver' = [deliver EXCEPT ![p] = DIdle]
        PROVE  \E m \in WrapperMemory : m.pc \in {"idle", "blocked"} /\ deliver' = [deliver EXCEPT ![p] = m]
    <2>1. /\ DIdle \in WrapperMemory /\ DIdle.pc = "idle"
          /\ [DIdle EXCEPT !.pc = "blocked"] \in WrapperMemory /\ [DIdle EXCEPT !.pc = "blocked"].pc = "blocked"
      BY DEF DIdle, WrapperMemory, WrapperLabels, DEnded
    <2> QED
      BY <1>3, <2>1 DEF DBlocks
  <1> QED
    BY <1>2, <1>3

\* The steps of an installer up to its last look.
LEMMA InstallerMoves ==
    ASSUME WrapperTyped, NEW p \in Installer, InstallStep(p)
    PROVE  \E m \in WrapperMemory : m.pc # "closed" /\ Moves(p, m)
  <1>1. direct' = direct /\ direct \in {"package", "changed"}
    BY DEF InstallStep, InspectPackage, HelperEnds, ConfirmInstalled, package, WrapperTyped
  <1>2. CASE DBlocks(p)
    BY <1>1, <1>2, WrapperLabelled DEF Moves
  <1>3. CASE InspectPackage(p) /\ ~DBlocks(p)
    <2>1. PICK label \in {"confirm", "helper"} : Proceeds(p, label)
      BY <1>3 DEF InspectPackage
    <2>2. /\ [DIdle EXCEPT !.pc = label, !.before = direct] \in WrapperMemory
          /\ [DIdle EXCEPT !.pc = label, !.before = direct].pc = label
      BY <1>1 DEF DIdle, WrapperMemory, WrapperLabels
    <2> QED
      BY <1>1, <2>1, <2>2 DEF Proceeds, Moves
  <1>4. CASE HelperEnds(p) /\ ~DBlocks(p)
    <2>1. DGoto(p, "confirm")
      BY <1>4 DEF HelperEnds, DMayFail
    <2> QED
      BY <1>1, <2>1, WrapperLabelled DEF Moves, WrapperLabels
  <1>5. CASE ConfirmInstalled(p) /\ ~DBlocks(p)
    <2>1. /\ DIdle \in WrapperMemory /\ DIdle.pc = "idle"
          /\ [DIdle EXCEPT !.pc = "accept"] \in WrapperMemory /\ [DIdle EXCEPT !.pc = "accept"].pc = "accept"
      BY DEF DIdle, WrapperMemory, WrapperLabels, DEnded
    <2>2. deliver' = [deliver EXCEPT ![p] = IF p = Orphan THEN DIdle ELSE [DIdle EXCEPT !.pc = "accept"]]
      BY <1>5 DEF ConfirmInstalled
    <2> QED
      BY <1>1, <2>1, <2>2 DEF Moves
  <1> QED
    BY <1>2, <1>3, <1>4, <1>5 DEF InstallStep

\* The steps of a wrapper around its installer.
LEMMA WrapperSteps ==
    ASSUME WrapperTyped, NEW r \in Run,
           \/ StartDelivery(r) \/ Accept(r) \/ PreStatus(r) \/ StartRelease(r) \/ ReleaseEnds(r)
           \/ FinalStatus(r)
    PROVE  \E m \in WrapperMemory : m.pc # "helper" /\ (m.pc = "closed" => SeesClosed) /\ Moves(r, m)
  <1>1. r \in Installer /\ deliver[r] \in WrapperMemory
    BY DEF Installer, WrapperTyped
  <1>2. UNCHANGED package /\ direct' = direct
    BY DEF StartDelivery, Accept, PreStatus, StartRelease, ReleaseEnds, FinalStatus, package
  <1>3. CASE DBlocks(r)
    BY <1>1, <1>2, <1>3, WrapperLabelled DEF Moves
  <1>4. CASE StartRelease(r)
    <2>1. PICK q \in Run : deliver' = [deliver EXCEPT ![r].pc = "releasing", ![r].child = q]
      BY <1>4 DEF StartRelease
    <2> DEFINE m == [deliver[r] EXCEPT !.pc = "releasing", !.child = q]
    <2>2. m \in WrapperMemory /\ m.pc = "releasing" /\ deliver' = [deliver EXCEPT ![r] = m]
      BY <1>1, <2>1 DEF WrapperMemory, WrapperLabels
    <2> HIDE DEF m
    <2> QED
      BY <1>2, <2>2 DEF Moves
  <1>5. CASE StartDelivery(r) \/ Accept(r) \/ ReleaseEnds(r)
    <2>1. DBlocks(r) \/ \E label \in {"inspect", "prestatus", "release", "status"} : DGoto(r, label)
      BY <1>5 DEF StartDelivery, Accept, ReleaseEnds, DMayFail
    <2> QED
      BY <1>1, <1>2, <1>3, <2>1, WrapperLabelled DEF Moves, WrapperLabels
  <1>6. CASE (PreStatus(r) \/ FinalStatus(r)) /\ ~DBlocks(r)
    <2>1. UNCHANGED vars
      BY <1>6 DEF PreStatus, FinalStatus
    <2>2. DGoto(r, "release") \/ (DGoto(r, "closed") /\ SeesClosed)
      BY <1>6, <2>1 DEF PreStatus, FinalStatus, SeesClosed
    <2> QED
      BY <1>1, <1>2, <2>2, WrapperLabelled DEF Moves, WrapperLabels, DEnded
  <1> QED
    BY <1>3, <1>4, <1>5, <1>6

\* A wrapper reports closure only on a look at the world of that very moment.
LEMMA WrapperMoves ==
    ASSUME WrapperTyped, [DNext]_allvars
    PROVE  /\ WrapperTyped'
           /\ \A r \in Run : deliver'[r].pc = "closed" => deliver[r].pc = "closed" \/ SeesClosed
  <1> DEFINE Promise ==
        /\ WrapperTyped'
        /\ \A r \in Run : deliver'[r].pc = "closed" => deliver[r].pc = "closed" \/ SeesClosed
  <1>0. DIdle \in WrapperMemory /\ DIdle.pc = "idle" /\ Orphan \in Installer /\ Run \subseteq Installer
    BY DEF DIdle, WrapperMemory, WrapperLabels, DEnded, Installer
  <1>1. ASSUME NEW p \in Installer, NEW m \in WrapperMemory, Moves(p, m), m.pc = "closed" => SeesClosed
        PROVE  Promise
    <2>1. WrapperTyped'
      BY <1>1 DEF WrapperTyped, Moves
    <2>2. deliver'[p] = m /\ \A q \in Installer \ {p} : deliver'[q] = deliver[q]
      BY <1>1 DEF WrapperTyped, Moves
    <2> QED
      BY <1>0, <1>1, <2>1, <2>2
  <1>2. ASSUME NEW r \in Run, Orphans(r) PROVE Promise
    <2>1. WrapperTyped'
      BY <1>0, <1>2 DEF WrapperTyped, Orphans
    <2>2. \A q \in Run : deliver'[q] = deliver[q] \/ deliver'[q] = DIdle
      BY <1>0, <1>2, OrphanAssumption DEF WrapperTyped, Orphans
    <2> QED
      BY <1>0, <2>1, <2>2
  <1>3. ASSUME Forgets PROVE Promise
    <2>1. \A p \in Installer : /\ deliver'[p] \in WrapperMemory /\ deliver'[p].pc = deliver[p].pc
      BY <1>3 DEF Forgets, WrapperTyped, WrapperMemory
    <2>2. WrapperTyped'
      BY <1>3, <2>1 DEF Forgets, WrapperTyped
    <2> QED
      BY <1>0, <2>1, <2>2
  <1>4. ASSUME UNCHANGED <<deliver, direct>> PROVE Promise
    BY <1>4 DEF WrapperTyped
  <1>5. ASSUME NEW p \in Installer, NEW own \in BOOLEAN, NEW foreign \in BOOLEAN,
               HelperWrites(p, own, foreign)
        PROVE  Promise
    <2> DEFINE m == [deliver[p] EXCEPT !.acted = @ \/ own]
    <2>1. m \in WrapperMemory /\ m.pc = deliver[p].pc
      BY DEF WrapperTyped, WrapperMemory
    <2>2. m.pc = "helper" /\ Moves(p, m)
      BY <1>5, <2>1 DEF HelperWrites, HelperAtWork, Moves
    <2> HIDE DEF m
    <2> QED
      BY <1>1, <2>1, <2>2
  <1>6. ASSUME NEW r \in Run, DCrash(r) PROVE Promise
    <2>1. direct' = direct
      BY <1>6 DEF DCrash, package
    <2>2. CASE deliver' = [deliver EXCEPT ![r] = DIdle]
      BY <1>0, <1>1, <2>1, <2>2 DEF Moves
    <2> QED
      BY <1>2, <1>6, <2>1, <2>2 DEF DCrash, Orphans
  <1>7. ASSUME Reextract PROVE Promise
    BY <1>3, <1>7 DEF Reextract, Forgets
  <1>8. ASSUME ReleaseNext PROVE Promise
    BY <1>4, <1>8 DEF ReleaseNext, dvars
  <1>9. ASSUME NEW p \in Installer, InstallStep(p) PROVE Promise
    BY <1>1, <1>9, InstallerMoves
  <1>10. ASSUME NEW r \in Run,
               \/ StartDelivery(r) \/ Accept(r) \/ PreStatus(r) \/ StartRelease(r) \/ ReleaseEnds(r)
               \/ FinalStatus(r)
         PROVE Promise
    BY <1>0, <1>1, <1>10, WrapperSteps
  <1> HIDE DEF Promise
  <1>11. Promise
    <2>1. ASSUME NEW r \in Run, StartDelivery(r) \/ DStep(r) \/ DCrash(r) PROVE Promise
      BY <1>0, <1>6, <1>9, <1>10, <2>1 DEF DStep
    <2>2. ASSUME UNCHANGED allvars PROVE Promise
      BY <1>4, <2>2 DEF allvars, dvars
    <2> QED
      BY <1>0, <1>5, <1>7, <1>8, <1>9, <2>1, <2>2 DEF DNext
  <1> QED
    BY <1>11 DEF Promise

\* The inductive step of the delivery.
LEMMA DeliveryKept == DeliveryInv /\ [DNext]_allvars => DeliveryInv'
  <1> SUFFICES ASSUME DeliveryInv, [DNext]_allvars PROVE DeliveryInv'
    OBVIOUS
  <1>1. ReleaseInv' /\ Grows
    BY ReleaseKept DEF DeliveryInv, Keeps
  <1>2. RefsTrue /\ rel.state = "published" /\ rel.titled =>
           (RefsTrue /\ rel.state = "published" /\ rel.titled)'
    BY <1>1 DEF RefsTrue, Grows
  <1>3. ASSUME NEW r \in Run, deliver'[r].pc = "closed"
        PROVE  RefsTrue /\ rel.state = "published" /\ rel.titled
    <2>1. CASE deliver[r].pc = "closed"
      BY <2>1 DEF DeliveryInv, DeliverInv
    <2>2. CASE SeesClosed
      BY <2>2, StatusIsTrue DEF DeliveryInv, SeesClosed
    <2> QED
      BY <1>3, <2>1, <2>2, WrapperMoves DEF DeliveryInv
  <1> QED
    BY <1>1, <1>2, <1>3, WrapperMoves DEF DeliveryInv, DeliverInv

LEMMA DeliveryStarts == DInit => DeliveryInv
  BY InitHolds DEF DInit, DIdle, DeliveryInv, WrapperTyped, WrapperMemory, WrapperLabels, DEnded, DeliverInv,
                   Installer

\* Every ref, file and memory of the release keeps its type under the delivery; in
\* particular every execution works for the exactly planned commit (current_head).
THEOREM TypeCorrect == DSpec => []TypeOK
  <1>1. DeliveryInv => TypeOK
    BY DEF DeliveryInv, ReleaseInv
  <1> QED
    BY DeliveryStarts, DeliveryKept, <1>1, PTL DEF DSpec

\* The tag and the release on the remote are of the tested planned commit, for any number of
\* executions, crashes, failing commands and disturbances (push_tag, publish_release).
THEOREM PublishesTested == DSpec => []PublishedIsTested
  <1>1. DeliveryInv => PublishedIsTested
    BY DEF DeliveryInv, ReleaseInv, GlobalInv
  <1> QED
    BY DeliveryStarts, DeliveryKept, <1>1, PTL DEF DSpec

\* A report of closure, of the workflow or of the wrapper, is true (verify_final,
\* derive_recovery_state).
THEOREM DeliversPublished == DSpec => []DeliveredIsPublished
  <1>1. ASSUME DeliveryInv PROVE DeliveredIsPublished
    <2>1. ClosedIsTrue
      BY <1>1, ClosedFromInv DEF DeliveryInv
    <2>2. ASSUME NEW r \in Run, deliver[r].pc = "closed"
          PROVE  /\ rtag = tag /\ rtag.target \in tested /\ IsPrefix(rtag.target, main)
                 /\ rel.state = "published" /\ rel.titled
      <3>1. RefsTrue /\ rel.state = "published" /\ rel.titled
        BY <1>1, <2>2 DEF DeliveryInv, DeliverInv
      <3>2. IsPrefix(Rel, main)
        BY <1>1, <3>1, RelFacts DEF RefsTrue, DeliveryInv, ReleaseInv, TypeOK
      <3> QED
        BY <3>1, <3>2 DEF RefsTrue
    <2> QED
      BY <2>1, <2>2 DEF DeliveredIsPublished
  <1> QED
    BY DeliveryStarts, DeliveryKept, <1>1, PTL DEF DSpec

\* The only branches the planned commit is at most one commit ahead of.
LEMMA SmallBranches ==
    ASSUME NEW t \in Branches, Rel \in Branches
    PROVE  /\ Behind(Rel, Rel) = 0 /\ Ahead(Rel, Rel) = 0
           /\ Behind(Base, Rel) = 0 /\ Ahead(Base, Rel) = 1
           /\ Behind(t, Rel) \in Nat
           /\ Behind(t, Rel) = 0 => t \in {Base, Rel}
  <1>1. Len(Rel) = 1 /\ Len(Base) = 0 /\ Len(t) \in Nat /\ t \in Seq(Commit)
    BY BranchesAre DEF Rel, Base
  <1>2. IsPrefix(Rel, Rel)
    BY RelFacts
  <1>3. /\ Behind(Rel, Rel) = 0 /\ Ahead(Rel, Rel) = 0
        /\ Behind(Base, Rel) = 0 /\ Ahead(Base, Rel) = 1
        /\ Behind(t, Rel) \in Nat
    BY <1>1, <1>2 DEF Behind, Ahead
  <1>4. ASSUME IsPrefix(t, Rel), t # Base PROVE t = Rel
    <2>1. t[1] = Rel[1] /\ Rel[1] = "rel"
      BY <1>4, RelFacts DEF Rel
    <2>2. Len(t) <= 1
      BY <1>1, <1>4 DEF IsPrefix
    <2> QED
      BY <1>4, <2>1, <2>2, RelFacts DEF Starts
  <1>5. ASSUME ~IsPrefix(t, Rel), Behind(t, Rel) = 0 PROVE t = Base
    BY <1>1, <1>5 DEF Behind, Base
  <1> QED
    BY <1>3, <1>4, <1>5

\* The status that calls a release commit safe to resume and the preflight agree
\* (derive_recovery_state, preflight).
THEOREM ResumesAccepted == DSpec => []ResumeIsAccepted
  <1>1. ASSUME DeliveryInv PROVE ResumeIsAccepted
    <2> SUFFICES ASSUME head # Base, NEW network \in BOOLEAN, SafeToResume(network)
                 PROVE  PreflightMode(IF network THEN main ELSE track) = "resume_committed"
      BY DEF ResumeIsAccepted
    <2>1. head \in Branches /\ main \in Branches /\ track \in Branches
      BY <1>1 DEF DeliveryInv, ReleaseInv, TypeOK
    <2>2. DeriveRecoveryState(network) \notin {"BLOCKED", "NEEDS_PACKAGE_APPLY"}
      BY DEF SafeToResume, InspectReleaseStatus
    <2>3. /\ Aligned(head) /\ Clean
          /\ ~network => ~(Behind(track, head) > 0 \/ Ahead(track, head) > 1)
          /\ network => main \in {Base, head}
      BY <2>2 DEF DeriveRecoveryState
    <2>4. head = Rel
      BY <2>3 DEF Aligned, Rel
    <2> DEFINE t == IF network THEN main ELSE track
    <2>5. t \in {Base, Rel}
      <3>1. CASE network
        BY <2>3, <2>4, <3>1
      <3>2. CASE ~network
        <4>1. Behind(track, Rel) = 0
          BY <2>1, <2>3, <2>4, <3>2, SmallBranches
        <4> QED
          BY <2>1, <2>4, <3>2, <4>1, SmallBranches
      <3> QED
        BY <3>1, <3>2
    <2> HIDE DEF t
    <2>6. Behind(t, Rel) = 0 /\ Ahead(t, Rel) \in {0, 1}
      BY <2>1, <2>4, <2>5, SmallBranches
    <2>7. PreflightMode(t) = "resume_committed"
      BY <2>3, <2>4, <2>5, <2>6 DEF PreflightMode
    <2> QED
      BY <2>7 DEF t
  <1> QED
    BY DeliveryStarts, DeliveryKept, <1>1, PTL DEF DSpec

-----------------------------------------------------------------------------
(* The helper.                                                             *)

\* An extraction is changed by one helper at most, and only by the one that found it fresh,
\* as long as the helpers come one after the other.
HelperInv ==
    /\ applied \in Nat /\ overlapped \in BOOLEAN
    /\ planned = "extracted" => applied = 0
    /\ ~overlapped =>
          /\ applied <= 1
          /\ \A p, q \in Installer : HelperAtWork(p) /\ HelperAtWork(q) => p = q
          /\ \A p \in Installer : HelperAtWork(p) /\ ~deliver[p].acted => applied = 0

LEMMA HelperKept ==
    ASSUME DeliveryInv, HelperInv, [DNext]_allvars
    PROVE  HelperInv'
  <1>1. /\ deliver \in [Installer -> WrapperMemory] /\ WrapperTyped
        /\ Orphan \in Installer /\ Run \subseteq Installer
        /\ DIdle.pc = "idle" /\ DIdle.acted = FALSE
    BY DEF DeliveryInv, WrapperTyped, Installer, DIdle
  <1>2. ASSUME UNCHANGED <<applied, overlapped>>, planned' = "extracted" => planned = "extracted",
               \A p \in Installer : deliver'[p].pc = "helper" => deliver'[p] = deliver[p]
        PROVE  HelperInv'
    BY <1>2 DEF HelperInv, HelperAtWork
  <1>3. ASSUME NEW p \in Installer, NEW m \in WrapperMemory, m.pc # "helper",
               deliver' = [deliver EXCEPT ![p] = m], UNCHANGED <<applied, overlapped, planned>>
        PROVE  HelperInv'
    <2>1. deliver'[p] = m /\ \A q \in Installer \ {p} : deliver'[q] = deliver[q]
      BY <1>1, <1>3
    <2> QED
      BY <1>2, <1>3, <2>1
  <1>4. CASE Reextract
    <2>1. /\ applied' = 0 /\ overlapped' \in BOOLEAN
          /\ overlapped' = \E p, q \in Installer : p # q /\ HelperAtWork(p) /\ HelperAtWork(q)
          /\ \A p \in Installer : deliver'[p].pc = deliver[p].pc
      BY <1>1, <1>4 DEF Reextract, WrapperMemory
    <2> QED
      BY <2>1 DEF HelperInv, HelperAtWork
  <1>5. CASE ReleaseNext
    <2>1. planned' = "extracted" => planned = "extracted"
      BY <1>5, NobodyExtracts DEF ReleaseNext
    <2> QED
      BY <1>2, <1>5, <2>1 DEF ReleaseNext, dvars
  <1>6. ASSUME NEW p \in Installer, NEW own \in BOOLEAN, NEW foreign \in BOOLEAN,
               HelperWrites(p, own, foreign)
        PROVE  HelperInv'
    <2>1. /\ HelperAtWork(p) /\ overlapped' = overlapped
          /\ applied' = IF own /\ ~deliver[p].acted THEN applied + 1 ELSE applied
          /\ planned' = "extracted" => ~own /\ planned = "extracted"
      BY <1>6 DEF HelperWrites
    <2>2. /\ deliver[p].acted \in BOOLEAN /\ deliver'[p].acted = (deliver[p].acted \/ own)
          /\ deliver'[p].pc = deliver[p].pc
          /\ \A q \in Installer \ {p} : deliver'[q] = deliver[q]
      BY <1>1, <1>6 DEF HelperWrites, WrapperMemory
    <2>3. applied' \in Nat /\ (planned' = "extracted" => applied' = 0)
      BY <2>1 DEF HelperInv
    <2>4. ASSUME ~overlapped
          PROVE  /\ applied' <= 1
                 /\ ~deliver'[p].acted => applied' = 0
                 /\ \A q \in Installer \ {p} : ~HelperAtWork(q)
      BY <2>1, <2>2, <2>4 DEF HelperInv
    <2> QED
      BY <2>1, <2>2, <2>3, <2>4 DEF HelperInv, HelperAtWork
  <1>7. ASSUME NEW p \in Installer, InspectPackage(p) PROVE HelperInv'
    <2>1. UNCHANGED <<applied, planned, direct>>
      BY <1>7 DEF InspectPackage, vars
    <2>2. CASE DBlocks(p) /\ UNCHANGED overlapped
      BY <1>1, <1>3, <2>1, <2>2, WrapperLabelled
    <2>3. ASSUME NEW label \in {"confirm", "helper"}, Proceeds(p, label),
                 label = "helper" => planned = "extracted"
          PROVE  HelperInv'
      <3> DEFINE m == [DIdle EXCEPT !.pc = label, !.before = direct]
      <3>1. m.pc = label /\ m.acted = FALSE /\ deliver' = [deliver EXCEPT ![p] = m]
        BY <2>3 DEF Proceeds, DIdle
      <3> HIDE DEF m
      <3>2. deliver'[p] = m /\ \A q \in Installer \ {p} : deliver'[q] = deliver[q]
        BY <1>1, <3>1
      <3>3. overlapped' = (overlapped \/ (label = "helper" /\ \E q \in Installer \ {p} : HelperAtWork(q)))
        BY <2>3 DEF Proceeds
      <3>4. CASE label = "confirm"
        BY <2>1, <3>1, <3>2, <3>3, <3>4 DEF HelperInv, HelperAtWork
      <3>5. CASE label = "helper"
        <4>1. applied = 0
          BY <2>3, <3>5 DEF HelperInv
        <4>2. overlapped' \in BOOLEAN /\ (~overlapped' => \A q \in Installer \ {p} : ~HelperAtWork(q))
          BY <3>3, <3>5 DEF HelperInv
        <4> QED
          BY <2>1, <3>2, <4>1, <4>2 DEF HelperInv, HelperAtWork
      <3> QED
        BY <3>4, <3>5
    <2> QED
      BY <1>7, <2>2, <2>3 DEF InspectPackage, DetermineState
  <1>8. ASSUME NEW p \in Installer, HelperEnds(p) \/ ConfirmInstalled(p) PROVE HelperInv'
    <2>1. UNCHANGED <<applied, overlapped, planned>>
      BY <1>8 DEF HelperEnds, ConfirmInstalled, package, vars
    <2>2. \/ DBlocks(p) \/ DGoto(p, "confirm")
          \/ deliver' = [deliver EXCEPT ![p] = IF p = Orphan THEN DIdle ELSE [DIdle EXCEPT !.pc = "accept"]]
      BY <1>8 DEF HelperEnds, ConfirmInstalled, DMayFail
    <2>3. /\ DIdle \in WrapperMemory /\ [DIdle EXCEPT !.pc = "accept"] \in WrapperMemory
          /\ [DIdle EXCEPT !.pc = "accept"].pc = "accept"
      BY DEF DIdle, WrapperMemory, WrapperLabels, DEnded
    <2>4. \E m \in WrapperMemory : m.pc # "helper" /\ deliver' = [deliver EXCEPT ![p] = m]
      <3>1. CASE DBlocks(p) \/ DGoto(p, "confirm")
        BY <1>1, <3>1, WrapperLabelled DEF WrapperLabels
      <3>2. CASE deliver' = [deliver EXCEPT ![p] = DIdle]
        BY <1>1, <2>3, <3>2
      <3>3. CASE deliver' = [deliver EXCEPT ![p] = [DIdle EXCEPT !.pc = "accept"]]
        BY <2>3, <3>3
      <3> QED
        BY <2>2, <3>1, <3>2, <3>3
    <2> QED
      BY <1>3, <2>1, <2>4
  <1>9. ASSUME NEW r \in Run,
               \/ StartDelivery(r) \/ Accept(r) \/ PreStatus(r) \/ StartRelease(r) \/ ReleaseEnds(r)
               \/ FinalStatus(r)
        PROVE  HelperInv'
    <2>1. UNCHANGED <<applied, overlapped, planned>>
      BY <1>9 DEF StartDelivery, Accept, PreStatus, StartRelease, ReleaseEnds, FinalStatus, Start,
                  package, vars, repo
    <2>2. \E m \in WrapperMemory : m.pc # "helper" /\ deliver' = [deliver EXCEPT ![r] = m]
      BY <1>1, <1>9, WrapperSteps DEF Moves
    <2> QED
      BY <1>1, <1>3, <2>1, <2>2
  <1>10. ASSUME NEW r \in Run, DCrash(r) PROVE HelperInv'
    <2>1. UNCHANGED <<applied, overlapped, planned>>
      BY <1>10 DEF DCrash, package, repo
    <2>2. CASE deliver' = [deliver EXCEPT ![r] = DIdle]
      BY <1>1, <1>3, <2>1, <2>2, WrapperLabelled
    <2>3. CASE Orphans(r)
      <3>1. /\ deliver'[Orphan] = deliver[r] /\ deliver'[r] = DIdle /\ r # Orphan
            /\ \A q \in Installer \ {r, Orphan} : deliver'[q] = deliver[q]
        BY <1>1, <2>3, OrphanAssumption DEF Orphans
      <3> QED
        BY <1>1, <2>1, <3>1 DEF HelperInv, HelperAtWork
    <2> QED
      BY <1>10, <2>2, <2>3 DEF DCrash, Orphans, package
  <1>11. CASE UNCHANGED allvars
    BY <1>2, <1>11 DEF allvars, dvars, vars
  <1> QED
    BY <1>1, <1>4, <1>5, <1>6, <1>7, <1>8, <1>9, <1>10, <1>11 DEF DNext, DStep, InstallStep

\* A second helper run never writes over what a first one changed unless two installers were
\* at work at the same time, for any number of wrappers, deaths, orphaned installers,
\* failures and retries (determine_state, run_helper).
THEOREM HelperOnce == DSpec => []HelperActsOnce
  <1>1. ASSUME DInit PROVE HelperInv
    <2>1. applied = 0 /\ applied \in Nat /\ applied <= 1
      BY <1>1 DEF DInit
    <2>2. overlapped \in BOOLEAN
      BY <1>1, Zenon DEF DInit
    <2>3. \A p \in Installer : ~HelperAtWork(p)
      BY <1>1 DEF DInit, DIdle, HelperAtWork
    <2> QED
      BY <2>1, <2>2, <2>3 DEF HelperInv
  <1>2. DeliveryInv /\ HelperInv /\ [DNext]_allvars => HelperInv'
    BY HelperKept
  <1>3. HelperInv => HelperActsOnce
    BY DEF HelperInv, HelperActsOnce
  <1> QED
    BY DeliveryStarts, DeliveryKept, <1>1, <1>2, <1>3, PTL DEF DSpec
==============================================================================
