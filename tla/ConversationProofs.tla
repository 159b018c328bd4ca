-------------------------- MODULE ConversationProofs --------------------------
(***************************************************************************)
(* Proofs about PlanConversation, for any drafts, families, workers and    *)
(* lines typed: a granted plan was on screen when its command was typed,   *)
(* its constraints cite humans, its evidence is whole, and a worker runs   *)
(* only under a granted plan, on the workspace that plan describes, with   *)
(* the sources its producers delivered.                                    *)
(*                                                                         *)
(* Three arguments carry them.  A challenge is displayed after every line  *)
(* already typed, so a line that copies the last challenge was typed while *)
(* its plan was shown (LineInv).  What the conversation holds is related   *)
(* to the disk by where it is (PhaseInv): the pack of a turn is new, whole *)
(* before the continuity is touched, and the authority of a replan is what *)
(* the continuity records.  What was recorded stays good (Kept).           *)
(***************************************************************************)
EXTENDS PlanConversation, TLAPS

\* The turn the conversation is in names the pack it acquires.
Turn == MaxTurns - left.turns

PackValue == [id : Acquisitions, version : Nat]
RecordedPlan == [draft : Drafts, pack : PackValue, missing : {{}}]
Texts == Changes \cup {{}}
LineValue == [kind : {"yes", "no", "exit", "blank", "change", "command"}, k : Nat, text : Texts,
              saw : RecordedPlan \cup {NoPlan}]
ChallengeValue == [verb : {"aceptar-planificacion", "aprobar-plan", "confirmar-cambios"}, mission : Missions]

ConvFields == {"pc", "request", "plan", "pack", "attempt", "authority", "replan", "ready", "change",
               "next", "evidence"}
LeftFields == {"turns", "lines", "edits", "crashes", "planOnly", "requests"}
ContinuityFields == {"request", "revisions", "changes", "findings", "approval"}

Shown == {"approve", "confirm", "grant"}
Granted == {"truncate", "write", "run"}

ShapeInv ==
    /\ DOMAIN conv = ConvFields /\ DOMAIN left = LeftFields
    /\ left.turns \in 0..MaxTurns /\ world \in Nat
    /\ DOMAIN store = Missions /\ DOMAIN planfile = Missions /\ DOMAIN packs = Acquisitions
    /\ typed \in Seq(LineValue) /\ chal \in Seq(ChallengeValue)
    /\ conv.change \in Texts
    /\ \A x \in DOMAIN conv.evidence : \A id \in DOMAIN conv.evidence[x].material :
          conv.evidence[x].material[id] \in Seq(SUBSET STRING)

\* Every constraint of a draft quotes one of the texts.
Cites(d, texts) ==
    \A j \in 1..Len(d.constraints) : \E text \in texts : d.constraints[j].source \in text

\* The texts a human gave for mission m.
HumanTexts(m) == {store[m].request} \cup Elements(store[m].changes)

\* A revision recorded for mission m.
GoodRevision(m, plan) ==
    /\ plan \in RecordedPlan /\ Cites(plan.draft, HumanTexts(m))
    /\ packs[plan.pack.id] = "whole" /\ plan.pack.id <= Turn

\* The continuity of mission m is well formed and its revisions are good.
Kept(m) ==
    /\ DOMAIN store[m] = ContinuityFields
    /\ store[m].revisions \in Seq(RecordedPlan) /\ store[m].changes \in Seq(Texts)
    /\ \A i \in 1..Len(store[m].revisions) : GoodRevision(m, store[m].revisions[i])

DiskInv == \A m \in Missions : store[m] # Absent => Kept(m)

\* No revision was planned from the pack of this turn.
Fresh ==
    \A m \in Missions : store[m] # Absent =>
        \A i \in 1..Len(store[m].revisions) : store[m].revisions[i].pack.id # Turn

\* The pack of this turn.
Acquired == conv.pack \in PackValue /\ conv.pack.id = Turn

\* The plan in hand was made from the pack in hand.
Drafted == conv.plan \in RecordedPlan /\ conv.plan.pack = conv.pack

\* The continuity of the plan in hand is the one of this request, and its pack is whole.
Opened ==
    LET m == conv.plan.draft.mission IN
      /\ Drafted /\ Kept(m) /\ store[m].request = conv.request
      /\ packs[conv.pack.id] = "whole" /\ conv.pack.id <= Turn

PhaseInv ==
    /\ conv.pc \in {"acquire", "check"} => Fresh /\ Turn \in Acquisitions /\ ~conv.replan
    /\ conv.pc = "check" => Acquired
    /\ conv.pc = "build" /\ ~conv.replan => Fresh /\ Acquired /\ conv.authority = {conv.request}
    /\ conv.pc = "build" /\ conv.replan =>
          Opened /\ conv.authority = HumanTexts(conv.plan.draft.mission)
    /\ conv.pc \in {"persist", "fill"} => Fresh
    /\ conv.pc \in {"persist", "fill", "open"} =>
          Acquired /\ Drafted /\ Cites(conv.plan.draft, {conv.request})
    /\ conv.pc = "open" => packs[conv.pack.id] = "whole"
    /\ conv.pc = "record" => Opened /\ Cites(conv.plan.draft, HumanTexts(conv.plan.draft.mission))
    /\ conv.pc \in Shown => Opened
    /\ conv.pc \in Granted => conv.plan \in RecordedPlan /\ \E g \in granted : g[1] = conv.plan
    /\ conv.pc = "run" => planfile[conv.plan.draft.mission] = conv.plan

\* A typed command copies a challenge that was displayed before it was typed.
LineInv ==
    /\ \A i \in 1..Len(typed) : typed[i].kind = "command" => typed[i].k \in 1..Len(chal)
    /\ conv.pc \in {"confirm", "grant"} =>
          \A i \in 1..Len(typed) :
              typed[i].kind = "command" /\ typed[i].k = Len(chal) => typed[i].saw = conv.plan
    /\ conv.pc = "grant" => chal # <<>> /\ chal[Len(chal)].verb = Verb

HistoryInv == ApprovedWasShown /\ WorkersAreSupervised /\ FedByProducers

PlanInv == ShapeInv /\ DiskInv /\ PhaseInv /\ LineInv /\ HistoryInv
-----------------------------------------------------------------------------
(* What steps leave alone. *)

\* The conversation back at its prompt, or over.
LEMMA PromptFacts ==
    ASSUME NEW r
    PROVE  /\ DOMAIN AtPrompt(r) = ConvFields /\ AtPrompt(r).change = {} /\ AtPrompt(r).pc = "prompt"
           /\ DOMAIN AtPrompt(r).evidence = {} /\ AtPrompt(r).replan = FALSE
           /\ DOMAIN Ended = ConvFields /\ Ended.change = {} /\ Ended.pc = "ended"
           /\ DOMAIN Ended.evidence = {}
<1>1. DOMAIN <<>> = {}
  OBVIOUS
<1>2. /\ DOMAIN AtPrompt(r) = ConvFields /\ AtPrompt(r).change = {} /\ AtPrompt(r).pc = "prompt"
      /\ AtPrompt(r).evidence = <<>> /\ AtPrompt(r).replan = FALSE
  BY DEF AtPrompt, ConvFields
<1>3. /\ DOMAIN Ended = ConvFields /\ Ended.change = {} /\ Ended.pc = "ended" /\ Ended.evidence = <<>>
  BY DEF AtPrompt, ConvFields, Ended
<1> QED BY <1>1, <1>2, <1>3

\* The continuity of m, when nothing takes away what it rests on.
LEMMA KeptStays ==
    ASSUME NEW m \in Missions, Kept(m), DOMAIN store'[m] = ContinuityFields,
           store'[m].request = store[m].request, store'[m].revisions = store[m].revisions,
           store'[m].changes = store[m].changes, Turn \in Int, Turn' \in Int, Turn <= Turn',
           \A i \in 1..Len(store[m].revisions) : packs'[store[m].revisions[i].pack.id] = "whole"
    PROVE  Kept(m)'
<1>1. HumanTexts(m)' = HumanTexts(m)
  BY DEF HumanTexts
<1>2. ASSUME NEW plan, GoodRevision(m, plan), packs'[plan.pack.id] = "whole" PROVE GoodRevision(m, plan)'
  <2>1. plan.pack.id \in Int
    BY <1>2 DEF GoodRevision, RecordedPlan, PackValue, Acquisitions
  <2> QED BY <1>1, <1>2, <2>1 DEF GoodRevision, Cites
<1> QED BY <1>2 DEF Kept

LEMMA TurnIsInt == ASSUME ShapeInv PROVE Turn \in Int /\ Turn \in 0..MaxTurns
  BY PlanAssumption DEF ShapeInv, Turn

\* A step that writes no continuity and no pack, and grants and dispatches nothing.
LEMMA QuietStep ==
    ASSUME PlanInv, ShapeInv', UNCHANGED <<store, packs, granted, ran>>, left'.turns <= left.turns,
           left'.planOnly = left.planOnly
    PROVE  DiskInv' /\ HistoryInv'
<1>1. Turn \in Int /\ Turn' \in Int /\ Turn <= Turn'
  BY PlanAssumption DEF PlanInv, ShapeInv, Turn
<1>2. DiskInv'
  <2> SUFFICES ASSUME NEW m \in Missions, store[m] # Absent PROVE Kept(m)'
    BY DEF DiskInv
  <2>1. Kept(m)
    BY DEF PlanInv, DiskInv
  <2> QED BY <1>1, <2>1, KeptStays DEF Kept, GoodRevision
<1>3. HistoryInv'
  BY DEF PlanInv, HistoryInv, ApprovedWasShown, WorkersAreSupervised, FedByProducers, Verb
<1> QED BY <1>2, <1>3

\* A conversation at its prompt holds nothing.
LEMMA PromptPhase == ASSUME conv.pc \in {"prompt", "ended"} PROVE PhaseInv
  BY DEF PhaseInv, Shown, Granted

\* What the phase says survives when neither the conversation nor the disk changes.
LEMMA PhaseStays ==
    ASSUME PhaseInv, UNCHANGED <<conv, store, packs, planfile, granted>>, left'.turns = left.turns
    PROVE  PhaseInv'
<1>1. Turn' = Turn
  BY DEF Turn
<1>2. Fresh' = Fresh /\ Acquired' = Acquired /\ Drafted' = Drafted
  BY <1>1 DEF Fresh, Acquired, Drafted
<1>3. \A m : HumanTexts(m)' = HumanTexts(m)
  BY DEF HumanTexts
<1>4. \A m : Kept(m)' = Kept(m)
  BY <1>1, <1>3 DEF Kept, GoodRevision, HumanTexts, Cites
<1>5. Opened' = Opened
  BY <1>1, <1>2, <1>4 DEF Opened
<1> QED BY <1>1, <1>2, <1>3, <1>5 DEF PhaseInv, Cites

\* Lines that are read, or wait, while no answer to a challenge is awaited.
LEMMA LinesStay ==
    ASSUME ShapeInv, LineInv, conv'.pc \notin {"confirm", "grant"}, chal' = chal,
           typed' = typed \/ (typed # <<>> /\ typed' = Tail(typed))
    PROVE  LineInv'
<1>1. CASE typed' = typed
  BY <1>1 DEF LineInv
<1>2. CASE typed # <<>> /\ typed' = Tail(typed)
  <2>1. \A i \in 1..Len(typed') : i + 1 \in 1..Len(typed) /\ typed'[i] = typed[i + 1]
    BY <1>2 DEF ShapeInv
  <2> QED BY <2>1 DEF LineInv
<1> QED BY <1>1, <1>2
-----------------------------------------------------------------------------
(* Outside the conversation. *)

LEMMA TypeKeeps == ASSUME PlanInv, NEW line \in Lines, Type(line) PROVE PlanInv'
<1> DEFINE typedLine == [kind |-> line.kind, k |-> line.k, text |-> line.text, saw |-> OnScreen]
<1>0. ShapeInv /\ PhaseInv /\ LineInv
  BY DEF PlanInv
<1>1. /\ typed' = Append(typed, typedLine) /\ UNCHANGED <<store, planfile, packs, world, conv, chal, granted, ran>>
      /\ left' = [left EXCEPT !.lines = @ - 1]
      /\ line.kind = "command" => line.k \in 1..Len(chal)
  BY DEF Type, disk, outside, history
<1>2. left'.turns = left.turns /\ left'.planOnly = left.planOnly /\ DOMAIN left' = LeftFields
  BY <1>0, <1>1 DEF ShapeInv, LeftFields
<1>3. OnScreen \in RecordedPlan \cup {NoPlan} /\ (conv.pc \in Shown => OnScreen = conv.plan)
  BY <1>0 DEF PhaseInv, Opened, Drafted, OnScreen, Shown
<1>4. /\ line.kind \in {"yes", "no", "exit", "blank", "change", "command"} /\ line.k \in Nat
      /\ line.text \in Texts
  BY DEF Lines, Texts
<1>5. typedLine \in LineValue
  BY <1>3, <1>4 DEF LineValue
<1> DEFINE known == typedLine.kind = "command" => typedLine.k \in 1..Len(chal)
           seen == conv.pc \in {"confirm", "grant"} => typedLine.saw = conv.plan
<1>6. known /\ seen
  BY <1>1, <1>3 DEF Shown
<1> HIDE DEF typedLine
<1>7. /\ Len(typed') = Len(typed) + 1 /\ typed'[Len(typed) + 1] = typedLine
      /\ \A i \in 1..Len(typed) : typed'[i] = typed[i]
      /\ typed' \in Seq(LineValue)
  BY <1>0, <1>1, <1>5 DEF ShapeInv
<1>8. ShapeInv'
  BY <1>0, <1>1, <1>2, <1>7 DEF ShapeInv
<1>9. PhaseInv'
  BY <1>0, <1>1, <1>2, PhaseStays
<1>10. \A i \in 1..Len(typed') : i \in 1..Len(typed) \/ i = Len(typed) + 1
  BY <1>0, <1>7 DEF ShapeInv
<1>11. LineInv'
  BY <1>0, <1>1, <1>2, <1>6, <1>7, <1>10 DEF LineInv, Verb
<1> QED BY <1>1, <1>2, <1>8, <1>9, <1>11, QuietStep DEF PlanInv, ShapeInv

LEMMA EditWorkspaceKeeps == ASSUME PlanInv, EditWorkspace PROVE PlanInv'
<1>1. ShapeInv' /\ left'.turns = left.turns /\ left'.planOnly = left.planOnly
  BY DEF EditWorkspace, PlanInv, ShapeInv, LeftFields, disk
<1>2. PhaseInv'
  BY <1>1, PhaseStays DEF EditWorkspace, PlanInv, disk, history
<1>3. LineInv'
  BY <1>1 DEF EditWorkspace, PlanInv, LineInv, Verb
<1> QED BY <1>1, <1>2, <1>3, QuietStep DEF PlanInv, ShapeInv, EditWorkspace, disk, history

LEMMA ProviderChangesKeeps == ASSUME PlanInv, NEW p, ProviderChanges(p) PROVE PlanInv'
<1>1. ShapeInv' /\ left'.turns = left.turns /\ left'.planOnly = left.planOnly
  BY DEF ProviderChanges, PlanInv, ShapeInv, LeftFields, disk
<1>2. PhaseInv'
  BY <1>1, PhaseStays DEF ProviderChanges, PlanInv, disk, history
<1>3. LineInv'
  BY <1>1 DEF ProviderChanges, PlanInv, LineInv, Verb
<1> QED BY <1>1, <1>2, <1>3, QuietStep DEF PlanInv, ShapeInv, ProviderChanges, disk, history

LEMMA CrashKeeps == ASSUME PlanInv, Crash PROVE PlanInv'
<1>1. /\ UNCHANGED <<store, planfile, packs, world, granted, ran>> /\ conv' = AtPrompt(Unprobed)
      /\ typed' = <<>> /\ chal' = <<>> /\ left' = [left EXCEPT !.crashes = @ - 1]
  BY DEF Crash, disk, outside, history
<1>2. left'.turns = left.turns /\ left'.planOnly = left.planOnly /\ DOMAIN left' = LeftFields
  BY <1>1 DEF PlanInv, ShapeInv, LeftFields
<1>3. conv'.pc = "prompt" /\ DOMAIN conv' = ConvFields /\ conv'.change = {} /\ DOMAIN conv'.evidence = {}
  BY <1>1, PromptFacts
<1>4. ShapeInv'
  <2>1. <<>> \in Seq(LineValue) /\ <<>> \in Seq(ChallengeValue)
    OBVIOUS
  <2> QED BY <1>1, <1>2, <1>3, <2>1 DEF PlanInv, ShapeInv, Texts
<1>5. PhaseInv'
  BY <1>3 DEF PhaseInv, Shown, Granted
<1>6. LineInv'
  <2>1. 1..Len(typed') = {}
    BY <1>1
  <2> QED BY <1>3, <2>1 DEF LineInv
<1> QED BY <1>1, <1>2, <1>4, <1>5, <1>6, QuietStep DEF PlanInv, ShapeInv

-----------------------------------------------------------------------------
(* Planning. *)

\* A step of the conversation that reads at most one line and changes no file.
LEMMA QuietConversation ==
    ASSUME PlanInv, UNCHANGED <<store, packs, planfile, world, chal, left, granted, ran>>,
           typed' = typed \/ (typed # <<>> /\ typed' = Tail(typed)),
           DOMAIN conv' = ConvFields, conv'.change \in Texts,
           conv'.evidence = conv.evidence \/ DOMAIN conv'.evidence = {},
           conv'.pc \notin {"confirm", "grant"}, PhaseInv'
    PROVE  PlanInv'
<1>1. typed' \in Seq(LineValue)
  <2>1. typed \in Seq(LineValue)
    BY DEF PlanInv, ShapeInv
  <2>2. typed # <<>> => Tail(typed) \in Seq(LineValue)
    BY <2>1
  <2> QED BY <2>1, <2>2
<1>2. ShapeInv'
  BY <1>1 DEF PlanInv, ShapeInv
<1>3. LineInv'
  BY LinesStay DEF PlanInv
<1> QED BY <1>2, <1>3, QuietStep DEF PlanInv, ShapeInv

\* Back to the prompt, or out.
LEMMA BackKeeps ==
    ASSUME PlanInv, UNCHANGED <<store, packs, planfile, world, chal, left, granted, ran>>,
           typed' = typed \/ (typed # <<>> /\ typed' = Tail(typed)),
           NEW r, conv' = AtPrompt(r) \/ conv' = Ended \/ \E plan : conv' = [AtPrompt(r) EXCEPT !.plan = plan]
    PROVE  PlanInv'
<1>1. /\ DOMAIN conv' = ConvFields /\ conv'.change = {} /\ DOMAIN conv'.evidence = {}
      /\ conv'.pc \in {"prompt", "ended"}
  <2>1. CASE conv' = AtPrompt(r)
    BY <2>1, PromptFacts
  <2>2. CASE conv' = Ended
    BY <2>2, PromptFacts
  <2>3. ASSUME NEW plan, conv' = [AtPrompt(r) EXCEPT !.plan = plan]
        PROVE  /\ DOMAIN conv' = ConvFields /\ conv'.change = {} /\ DOMAIN conv'.evidence = {}
               /\ conv'.pc \in {"prompt", "ended"}
    BY <2>3, PromptFacts DEF ConvFields
  <2> QED BY <2>1, <2>2, <2>3
<1>2. PhaseInv'
  BY <1>1 DEF PhaseInv, Shown, Granted
<1> QED BY <1>1, <1>2, QuietConversation DEF Texts

LEMMA NewMissionKeeps == ASSUME PlanInv, NEW request, NewMission(request) PROVE PlanInv'
<1> DEFINE r == IF conv.ready = Unprobed THEN ready ELSE conv.ready
<1>0. ShapeInv /\ DiskInv
  BY DEF PlanInv
<1>1. /\ UNCHANGED <<store, planfile, packs, world, typed, chal, granted, ran>> /\ left.turns > 0
      /\ left' = [left EXCEPT !.turns = @ - 1]
      /\ conv' = [AtPrompt(r) EXCEPT !.pc = "acquire", !.request = request]
  BY DEF NewMission, disk, outside, history
<1>2. /\ left'.turns = left.turns - 1 /\ left'.planOnly = left.planOnly /\ DOMAIN left' = LeftFields
      /\ left'.turns \in 0..MaxTurns
  BY <1>0, <1>1, PlanAssumption DEF ShapeInv, LeftFields
<1> HIDE DEF r
<1>3. /\ DOMAIN conv' = ConvFields /\ conv'.pc = "acquire" /\ ~conv'.replan /\ conv'.change = {}
      /\ DOMAIN conv'.evidence = {}
  BY <1>1, PromptFacts DEF ConvFields
<1>4. ShapeInv'
  BY <1>0, <1>1, <1>2, <1>3 DEF ShapeInv, Texts
<1>5. Turn' = Turn + 1 /\ Turn \in 0..MaxTurns /\ Turn' \in Acquisitions
  BY <1>0, <1>1, <1>2, PlanAssumption DEF ShapeInv, Turn, Acquisitions
<1>6. Fresh'
  <2> SUFFICES ASSUME NEW m \in Missions, store[m] # Absent, NEW i \in 1..Len(store[m].revisions)
               PROVE  store[m].revisions[i].pack.id # Turn'
    BY <1>1 DEF Fresh
  <2>1. GoodRevision(m, store[m].revisions[i])
    BY <1>0 DEF DiskInv, Kept
  <2> QED BY <1>5, <2>1 DEF GoodRevision, RecordedPlan, PackValue, Acquisitions
<1>7. PhaseInv'
  BY <1>3, <1>5, <1>6 DEF PhaseInv, Shown, Granted
<1>8. LineInv'
  BY <1>0, <1>1, <1>3, LinesStay DEF PlanInv
<1> QED BY <1>1, <1>2, <1>4, <1>7, <1>8, QuietStep DEF PlanInv, ShapeInv

LEMMA AcquireKeeps == ASSUME PlanInv, Acquire PROVE PlanInv'
<1> DEFINE pack == [id |-> MaxTurns - left.turns, version |-> world]
<1>0. ShapeInv /\ PhaseInv
  BY DEF PlanInv
<1>1. /\ UNCHANGED <<store, planfile, packs, world, typed, chal, left, granted, ran>>
      /\ conv.pc = "acquire" /\ conv' = [conv EXCEPT !.pc = "check", !.pack = pack]
  BY DEF Acquire, Stays, disk, outside, history
<1>2. pack \in PackValue /\ pack.id = Turn
  BY <1>0, <1>1 DEF PhaseInv, ShapeInv, PackValue, Turn
<1> HIDE DEF pack
<1>3. /\ DOMAIN conv' = ConvFields /\ conv'.pc = "check" /\ conv'.pack = pack
      /\ conv'.replan = conv.replan /\ conv'.change = conv.change /\ conv'.evidence = conv.evidence
  BY <1>0, <1>1 DEF ShapeInv, ConvFields
<1>4. Fresh' = Fresh /\ Turn' = Turn
  BY <1>1 DEF Fresh, Turn
<1>5. PhaseInv'
  BY <1>0, <1>1, <1>2, <1>3, <1>4 DEF PhaseInv, Acquired, Shown, Granted
<1> QED BY <1>0, <1>1, <1>3, <1>5, QuietConversation DEF ShapeInv

LEMMA CheckCurrentKeeps == ASSUME PlanInv, CheckCurrent PROVE PlanInv'
<1>0. ShapeInv /\ PhaseInv
  BY DEF PlanInv
<1>1. /\ UNCHANGED <<store, planfile, packs, world, typed, chal, left, granted, ran>>
      /\ conv.pc = "check"
  BY DEF CheckCurrent, Stays, disk, outside, history
<1>2. CASE conv' = AtPrompt(conv.ready)
  BY <1>1, <1>2, BackKeeps
<1>3. CASE conv' = [conv EXCEPT !.pc = "build", !.attempt = 1, !.authority = {conv.request}]
  <2>1. /\ DOMAIN conv' = ConvFields /\ conv'.pc = "build" /\ conv'.pack = conv.pack
        /\ conv'.request = conv.request /\ conv'.authority = {conv.request}
        /\ conv'.replan = conv.replan /\ conv'.change = conv.change /\ conv'.evidence = conv.evidence
    BY <1>0, <1>3 DEF ShapeInv, ConvFields
  <2>2. Fresh' = Fresh /\ Acquired' = Acquired
    BY <1>1, <2>1 DEF Fresh, Turn, Acquired
  <2>3. PhaseInv'
    BY <1>0, <1>1, <2>1, <2>2 DEF PhaseInv, Shown, Granted
  <2> QED BY <1>0, <1>1, <2>1, <2>3, QuietConversation DEF ShapeInv
<1> QED BY <1>2, <1>3 DEF CheckCurrent

\* The validator accepts only plans that lack nothing and quote the authority they were given.
LEMMA ValidCites ==
    ASSUME NEW plan, NEW authority, NEW snapshot, Valid(plan, authority, snapshot)
    PROVE  plan.missing = {} /\ Cites(plan.draft, authority)
  BY DEF Valid, ConstraintsHold, Cites

\* A plan the provider drafted from the pack in hand.
LEMMA BuildPlanFacts ==
    ASSUME NEW d \in Drafts, NEW pack
    PROVE  /\ BuildPlan(d, pack).draft = d /\ BuildPlan(d, pack).pack = pack
           /\ pack \in PackValue /\ BuildPlan(d, pack).missing = {} => BuildPlan(d, pack) \in RecordedPlan
  BY DEF BuildPlan, RecordedPlan

\* Writing the findings or the approval of a continuity leaves its revisions good.
LEMMA NoteKeeps ==
    ASSUME ShapeInv, DiskInv, NEW m \in Missions, Kept(m), UNCHANGED <<packs, left>>, NEW c,
           store' = [store EXCEPT ![m] = c], DOMAIN c = ContinuityFields, c.request = store[m].request,
           c.revisions = store[m].revisions, c.changes = store[m].changes
    PROVE  /\ DiskInv' /\ Kept(m)' /\ DOMAIN store' = Missions
           /\ HumanTexts(m)' = HumanTexts(m) /\ store'[m].request = store[m].request
<1>1. Turn \in Int /\ Turn' = Turn
  BY TurnIsInt DEF Turn
<1>2. DOMAIN store' = Missions /\ store'[m] = c /\ \A n \in Missions : n # m => store'[n] = store[n]
  BY DEF ShapeInv
<1>3. ASSUME NEW n \in Missions, store'[n] # Absent PROVE Kept(n)'
  <2>1. CASE n = m
    BY <1>1, <1>2, <2>1, KeptStays DEF Kept, GoodRevision
  <2>2. CASE n # m
    <3>1. Kept(n)
      BY <1>2, <1>3, <2>2 DEF DiskInv
    <3> QED BY <1>1, <1>2, <2>2, <3>1, KeptStays DEF Kept, GoodRevision
  <2> QED BY <2>1, <2>2
<1>4. Kept(m)'
  BY <1>1, <1>2, KeptStays DEF Kept, GoodRevision
<1> QED BY <1>2, <1>3, <1>4 DEF DiskInv, HumanTexts

\* A step that writes the continuity of one mission and neither grants nor dispatches.
LEMMA StoreStep ==
    ASSUME PlanInv, UNCHANGED <<planfile, packs, world, chal, left, granted, ran>>,
           typed' = typed \/ (typed # <<>> /\ typed' = Tail(typed)),
           DOMAIN store' = Missions, DiskInv',
           DOMAIN conv' = ConvFields, conv'.change \in Texts,
           conv'.evidence = conv.evidence \/ DOMAIN conv'.evidence = {},
           conv'.pc \notin {"confirm", "grant"}, PhaseInv'
    PROVE  PlanInv'
<1>1. typed' \in Seq(LineValue)
  <2>1. typed \in Seq(LineValue)
    BY DEF PlanInv, ShapeInv
  <2>2. typed # <<>> => Tail(typed) \in Seq(LineValue)
    BY <2>1
  <2> QED BY <2>1, <2>2
<1>2. ShapeInv'
  BY <1>1 DEF PlanInv, ShapeInv
<1>3. LineInv'
  BY LinesStay DEF PlanInv
<1>4. HistoryInv'
  BY DEF PlanInv, HistoryInv, ApprovedWasShown, WorkersAreSupervised, FedByProducers, Verb
<1> QED BY <1>2, <1>3, <1>4 DEF PlanInv

LEMMA BuildKeeps == ASSUME PlanInv, NEW d \in Drafts, Build(d) PROVE PlanInv'
<1>m. PICK m : m = conv.plan.draft.mission
  OBVIOUS
<1> DEFINE plan == BuildPlan(d, conv.pack)
           ok == (conv.replan => d.mission = m) /\ Valid(plan, conv.authority, conv.ready)
<1>0. ShapeInv /\ PhaseInv /\ DiskInv /\ conv.pc = "build"
  BY DEF PlanInv, Build
<1>1. UNCHANGED <<planfile, packs, world, typed, chal, left, granted, ran>>
  BY DEF Build, outside, history
<1>2. /\ conv' = IF ok THEN [conv EXCEPT !.pc = IF conv.replan THEN "record" ELSE "persist", !.plan = plan]
                 ELSE IF GivesUp(plan) THEN [AtPrompt(conv.ready) EXCEPT !.plan = plan]
                 ELSE [conv EXCEPT !.attempt = @ + 1]
      /\ store' = IF ok \/ ~conv.replan THEN store ELSE [store EXCEPT ![m].findings = @ + 1]
  BY <1>m DEF Build
<1>3. /\ plan.draft = d /\ plan.pack = conv.pack
      /\ conv.pack \in PackValue /\ plan.missing = {} => plan \in RecordedPlan
  BY BuildPlanFacts
<1>4. ok => plan.missing = {} /\ Cites(d, conv.authority)
  BY <1>3, ValidCites
<1>5. ok /\ conv.replan => d.mission = m
  OBVIOUS
<1> HIDE DEF plan, ok
<1>6. conv.replan => Opened /\ conv.authority = HumanTexts(m)
  BY <1>0, <1>m DEF PhaseInv
<1>7. ~conv.replan => Fresh /\ Acquired /\ conv.authority = {conv.request}
  BY <1>0 DEF PhaseInv
<1>8. CASE ok /\ ~conv.replan
  <2>1. /\ DOMAIN conv' = ConvFields /\ conv'.pc = "persist" /\ conv'.plan = plan /\ conv'.pack = conv.pack
        /\ conv'.request = conv.request /\ conv'.change = conv.change /\ conv'.evidence = conv.evidence
    BY <1>0, <1>2, <1>8 DEF ShapeInv, ConvFields
  <2>2. store' = store
    BY <1>2, <1>8
  <2>3. Fresh' = Fresh /\ Acquired' = Acquired
    BY <1>1, <2>1, <2>2 DEF Fresh, Turn, Acquired
  <2>4. Drafted' /\ Cites(plan.draft, {conv.request})
    BY <1>3, <1>4, <1>7, <1>8, <2>1 DEF Drafted, Acquired
  <2>5. PhaseInv'
    BY <1>7, <1>8, <2>1, <2>3, <2>4 DEF PhaseInv, Shown, Granted, Cites
  <2> QED BY <1>0, <1>1, <2>1, <2>2, <2>5, QuietConversation DEF ShapeInv
<1>9. CASE ok /\ conv.replan
  <2>1. /\ DOMAIN conv' = ConvFields /\ conv'.pc = "record" /\ conv'.plan = plan /\ conv'.pack = conv.pack
        /\ conv'.request = conv.request /\ conv'.change = conv.change /\ conv'.evidence = conv.evidence
    BY <1>0, <1>2, <1>9 DEF ShapeInv, ConvFields
  <2>2. store' = store /\ Turn' = Turn
    BY <1>1, <1>2, <1>9 DEF Turn
  <2>3. /\ Kept(m) /\ store[m].request = conv.request /\ packs[conv.pack.id] = "whole" /\ conv.pack.id <= Turn
        /\ conv.pack \in PackValue
    BY <1>6, <1>9, <1>m DEF Opened, Drafted, RecordedPlan
  <2>4. HumanTexts(m)' = HumanTexts(m)
    BY <2>2 DEF HumanTexts
  <2>5. Kept(m)'
    BY <1>1, <2>2, <2>3, <2>4 DEF Kept, GoodRevision, Cites, HumanTexts
  <2>6. plan.draft.mission = m /\ plan \in RecordedPlan
    BY <1>3, <1>4, <1>5, <1>9, <2>3
  <2>7. Opened' /\ Cites(plan.draft, HumanTexts(m)')
    <3>1. Drafted'
      BY <1>3, <2>1, <2>6 DEF Drafted
    <3>2. (conv'.plan).draft.mission = m
      BY <2>1, <2>6
    <3>3. Opened'
      BY <1>1, <2>1, <2>2, <2>3, <2>5, <3>1, <3>2 DEF Opened
    <3>4. Cites(plan.draft, HumanTexts(m)')
      BY <1>3, <1>4, <1>6, <1>9, <2>4
    <3> QED BY <3>3, <3>4
  <2>8. PhaseInv'
    BY <2>1, <2>6, <2>7 DEF PhaseInv, Shown, Granted, Cites, HumanTexts
  <2> QED BY <1>0, <1>1, <2>1, <2>2, <2>8, QuietConversation DEF ShapeInv
<1>10. CASE ~ok /\ ~conv.replan
  <2>1. store' = store
    BY <1>2, <1>10
  <2>2. CASE GivesUp(plan)
    <3>1. conv' = [AtPrompt(conv.ready) EXCEPT !.plan = plan]
      BY <1>2, <1>10, <2>2
    <3> QED BY <1>1, <2>1, <3>1, BackKeeps
  <2>3. CASE ~GivesUp(plan)
    <3>1. /\ DOMAIN conv' = ConvFields /\ conv'.pc = "build" /\ conv'.plan = conv.plan /\ conv'.pack = conv.pack
          /\ conv'.request = conv.request /\ conv'.change = conv.change /\ conv'.evidence = conv.evidence
          /\ conv'.authority = conv.authority /\ conv'.replan = conv.replan
      BY <1>0, <1>2, <1>10, <2>3 DEF ShapeInv, ConvFields
    <3>2. Fresh' = Fresh /\ Acquired' = Acquired
      BY <1>1, <2>1, <3>1 DEF Fresh, Turn, Acquired
    <3>3. PhaseInv'
      BY <1>7, <1>10, <3>1, <3>2 DEF PhaseInv, Shown, Granted
    <3> QED BY <1>0, <1>1, <2>1, <3>1, <3>3, QuietConversation DEF ShapeInv
  <2> QED BY <2>2, <2>3
<1>11. CASE ~ok /\ conv.replan
  <2> DEFINE c == [store[m] EXCEPT !.findings = @ + 1]
  <2>1. m \in Missions /\ Kept(m)
    BY <1>6, <1>11, <1>m, PlanAssumption DEF Opened, Drafted, RecordedPlan
  <2>2. store' = [store EXCEPT ![m] = c]
    BY <1>2, <1>11
  <2>3. /\ DOMAIN c = ContinuityFields /\ c.request = store[m].request
        /\ c.revisions = store[m].revisions /\ c.changes = store[m].changes
    BY <2>1 DEF Kept, ContinuityFields
  <2> HIDE DEF c
  <2>4. /\ DiskInv' /\ Kept(m)' /\ DOMAIN store' = Missions
        /\ HumanTexts(m)' = HumanTexts(m) /\ store'[m].request = store[m].request
    BY <1>0, <1>1, <2>1, <2>2, <2>3, NoteKeeps
  <2>5. CASE GivesUp(plan)
    <3>1. conv' = [AtPrompt(conv.ready) EXCEPT !.plan = plan]
      BY <1>2, <1>11, <2>5
    <3>2. /\ DOMAIN conv' = ConvFields /\ conv'.change = {} /\ DOMAIN conv'.evidence = {} /\ conv'.pc = "prompt"
      BY <3>1, PromptFacts DEF ConvFields
    <3>3. PhaseInv'
      BY <3>2 DEF PhaseInv, Shown, Granted
    <3> QED BY <1>1, <2>4, <3>2, <3>3, StoreStep DEF Texts
  <2>6. CASE ~GivesUp(plan)
    <3>1. /\ DOMAIN conv' = ConvFields /\ conv'.pc = "build" /\ conv'.plan = conv.plan /\ conv'.pack = conv.pack
          /\ conv'.request = conv.request /\ conv'.change = conv.change /\ conv'.evidence = conv.evidence
          /\ conv'.authority = conv.authority /\ conv'.replan
      BY <1>0, <1>2, <1>11, <2>6 DEF ShapeInv, ConvFields
    <3>2. Opened'
      <4>1. (conv'.plan).draft.mission = m /\ Turn' = Turn
        BY <1>1, <1>m, <3>1 DEF Turn
      <4>2. Drafted /\ store[m].request = conv.request /\ packs[conv.pack.id] = "whole" /\ conv.pack.id <= Turn
        BY <1>6, <1>11, <1>m DEF Opened
      <4> QED BY <1>1, <2>4, <3>1, <4>1, <4>2 DEF Opened, Drafted
    <3>3. (conv'.plan).draft.mission = m /\ conv'.authority = HumanTexts(m)'
      BY <1>6, <1>11, <1>m, <2>4, <3>1
    <3>4. PhaseInv'
      BY <3>1, <3>2, <3>3 DEF PhaseInv, Shown, Granted, HumanTexts
    <3> QED BY <1>0, <1>1, <2>4, <3>1, <3>4, StoreStep DEF ShapeInv
  <2> QED BY <2>5, <2>6
<1> QED BY <1>8, <1>9, <1>10, <1>11
\* Failures and closed gates go back to the prompt.
LEMMA FailuresKeep == ASSUME PlanInv, AcquisitionFails \/ BuildFails \/ GateStops PROVE PlanInv'
<1>1. /\ UNCHANGED <<store, planfile, packs, world, typed, chal, left, granted, ran>>
      /\ conv' = AtPrompt(conv.ready)
  BY DEF AcquisitionFails, BuildFails, GateStops, Stays, disk, outside, history
<1> QED BY <1>1, BackKeeps

-----------------------------------------------------------------------------
(* Lines read. *)

LEMMA StrayLineKeeps == ASSUME PlanInv, StrayLine PROVE PlanInv'
<1>1. /\ UNCHANGED <<store, planfile, packs, world, chal, left, granted, ran>>
      /\ typed # <<>> /\ typed' = Tail(typed) /\ conv.pc = "prompt"
  BY DEF StrayLine, Reads, Stays, disk, outside, history
<1>2. CASE conv' = Ended
  BY <1>1, <1>2, BackKeeps
<1>3. CASE conv' = conv
  <2>1. PhaseInv'
    BY <1>1, <1>3 DEF PhaseInv, Shown, Granted
  <2> QED BY <1>1, <1>3, <2>1, QuietConversation DEF PlanInv, ShapeInv
<1> QED BY <1>2, <1>3 DEF StrayLine

LEMMA ReadPendingKeeps == ASSUME PlanInv, ReadPending PROVE PlanInv'
<1>1. /\ UNCHANGED <<store, planfile, packs, world, conv, chal, left, granted, ran>>
      /\ typed # <<>> /\ typed' = Tail(typed) /\ conv.pc = "approve"
  BY DEF ReadPending, Reads, Stays, disk, outside, history
<1>2. PhaseInv'
  BY <1>1, PhaseStays DEF PlanInv
<1> QED BY <1>1, <1>2, QuietConversation DEF PlanInv, ShapeInv

LEMMA ReadExitKeeps == ASSUME PlanInv, ReadExit PROVE PlanInv'
<1>1. /\ UNCHANGED <<store, planfile, packs, world, chal, left, granted, ran>>
      /\ typed # <<>> /\ typed' = Tail(typed) /\ conv' = Ended
  BY DEF ReadExit, Reads, Stays, disk, outside, history
<1> QED BY <1>1, BackKeeps

\* The continuity of the plan on screen.
LEMMA ShownFacts ==
    ASSUME PlanInv, conv.pc \in Shown, NEW m, m = conv.plan.draft.mission
    PROVE  m \in Missions /\ Opened /\ Kept(m) /\ store[m].request = conv.request
  BY PlanAssumption DEF PlanInv, PhaseInv, Opened, Drafted, RecordedPlan

LEMMA ReadNoKeeps == ASSUME PlanInv, ReadNo PROVE PlanInv'
<1>m. PICK m : m = conv.plan.draft.mission
  OBVIOUS
<1> DEFINE c == [store[m] EXCEPT !.approval = "rejected"]
<1>1. /\ UNCHANGED <<planfile, packs, world, chal, left, granted, ran>>
      /\ typed # <<>> /\ typed' = Tail(typed) /\ conv.pc \in Shown
      /\ store' = [store EXCEPT ![m] = c] /\ conv' = AtPrompt(conv.ready)
  BY <1>m DEF ReadNo, Reads, outside, history, Shown
<1>2. m \in Missions /\ Kept(m)
  BY <1>1, <1>m, ShownFacts
<1>3. /\ DOMAIN c = ContinuityFields /\ c.request = store[m].request
      /\ c.revisions = store[m].revisions /\ c.changes = store[m].changes
  BY <1>2 DEF Kept, ContinuityFields
<1> HIDE DEF c
<1>4. DiskInv' /\ DOMAIN store' = Missions
  BY <1>1, <1>2, <1>3, NoteKeeps DEF PlanInv
<1>5. /\ DOMAIN conv' = ConvFields /\ conv'.change = {} /\ DOMAIN conv'.evidence = {}
      /\ conv'.pc = "prompt"
  BY <1>1, PromptFacts
<1>6. PhaseInv'
  BY <1>5 DEF PhaseInv, Shown, Granted
<1> QED BY <1>1, <1>4, <1>5, <1>6, StoreStep DEF Texts

\* Displaying a challenge: no line typed so far copies it.
LEMMA ChallengeKeeps ==
    ASSUME PlanInv, conv.pc = "approve", NEW verb, NEW pc \in {"confirm", "grant"},
           verb \in {"aceptar-planificacion", "aprobar-plan", "confirmar-cambios"}, pc = "grant" => verb = Verb,
           UNCHANGED <<store, planfile, packs, world, left, granted, ran>>,
           typed # <<>>, typed' = Tail(typed),
           chal' = Append(chal, [verb |-> verb, mission |-> conv.plan.draft.mission]),
           DOMAIN conv' = ConvFields, conv'.pc = pc, conv'.change \in Texts,
           conv'.evidence = conv.evidence, conv'.plan = conv.plan, conv'.pack = conv.pack,
           conv'.request = conv.request
    PROVE  PlanInv'
<1>m. PICK m : m = conv.plan.draft.mission
  OBVIOUS
<1> DEFINE challenge == [verb |-> verb, mission |-> m]
<1>0. ShapeInv /\ LineInv /\ PhaseInv
  BY DEF PlanInv
<1>1. /\ m \in Missions /\ Opened /\ Kept(m) /\ store[m].request = conv.request
  BY <1>m, ShownFacts DEF Shown
<1>2. challenge \in ChallengeValue /\ challenge.verb = verb
  BY <1>1 DEF ChallengeValue
<1> HIDE DEF challenge
<1>3. /\ chal' = Append(chal, challenge) /\ chal' \in Seq(ChallengeValue) /\ Len(chal') = Len(chal) + 1
      /\ chal'[Len(chal')] = challenge /\ chal' # <<>> /\ Len(chal) \in Nat
  BY <1>0, <1>2, <1>m DEF ShapeInv, challenge
<1>4. typed' \in Seq(LineValue)
  <2>1. typed \in Seq(LineValue)
    BY <1>0 DEF ShapeInv
  <2> QED BY <2>1
<1>5. ShapeInv'
  BY <1>0, <1>3, <1>4 DEF ShapeInv
<1>6. Opened'
  <2>1. Turn' = Turn /\ (conv'.plan).draft.mission = m
    BY <1>m DEF Turn
  <2>2. Kept(m)'
    BY SMTT(30), <1>1, <2>1 DEF Kept, GoodRevision, Cites, HumanTexts
  <2> QED BY <1>1, <1>m, <2>1, <2>2 DEF Opened, Drafted
<1>7. PhaseInv'
  BY <1>6 DEF PhaseInv, Shown, Granted
<1>8. LineInv'
  <2>1. \A i \in 1..Len(typed') : i + 1 \in 1..Len(typed) /\ typed'[i] = typed[i + 1]
    BY <1>0 DEF ShapeInv
  <2>2. \A i \in 1..Len(typed') : typed'[i].kind = "command" => typed'[i].k \in 1..Len(chal)
    BY <1>0, <2>1 DEF LineInv
  <2>3. \A i \in 1..Len(typed') : typed'[i].kind = "command" =>
            typed'[i].k \in 1..Len(chal') /\ typed'[i].k # Len(chal')
    BY <1>3, <2>2
  <2>4. conv'.pc = "grant" => chal'[Len(chal')].verb = Verb'
    BY <1>2, <1>3 DEF Verb
  <2> QED BY <1>3, <2>3, <2>4 DEF LineInv
<1> QED BY <1>0, <1>5, <1>7, <1>8, QuietStep DEF PlanInv, ShapeInv

LEMMA ReadYesKeeps == ASSUME PlanInv, ReadYes PROVE PlanInv'
<1>1. /\ UNCHANGED <<store, planfile, packs, world, left, granted, ran>>
      /\ typed # <<>> /\ typed' = Tail(typed) /\ conv.pc = "approve"
      /\ chal' = Append(chal, [verb |-> Verb, mission |-> conv.plan.draft.mission])
      /\ conv' = [conv EXCEPT !.pc = "grant"]
  BY DEF ReadYes, Reads, Challenge, disk, outside, history
<1>2. /\ DOMAIN conv' = ConvFields /\ conv'.pc = "grant" /\ conv'.change \in Texts
      /\ conv'.evidence = conv.evidence /\ conv'.plan = conv.plan /\ conv'.pack = conv.pack
      /\ conv'.request = conv.request
  BY <1>1 DEF PlanInv, ShapeInv, ConvFields
<1> DEFINE verb == Verb
<1>3. verb \in {"aceptar-planificacion", "aprobar-plan", "confirmar-cambios"}
  BY DEF Verb
<1>4. \E v : v = Verb /\ v \in {"aceptar-planificacion", "aprobar-plan", "confirmar-cambios"}
  BY <1>3
<1> QED BY <1>1, <1>2, <1>4, ChallengeKeeps

LEMMA ReadChangeKeeps == ASSUME PlanInv, ReadChange PROVE PlanInv'
<1>1. /\ UNCHANGED <<store, planfile, packs, world, left, granted, ran>>
      /\ typed # <<>> /\ typed' = Tail(typed) /\ conv.pc = "approve"
      /\ chal' = Append(chal, [verb |-> "confirmar-cambios", mission |-> conv.plan.draft.mission])
      /\ conv' = [conv EXCEPT !.pc = "confirm", !.change = Head(typed).text]
  BY DEF ReadChange, Reads, disk, outside, history
<1>2. Head(typed) \in LineValue
  BY <1>1 DEF PlanInv, ShapeInv
<1>3. /\ DOMAIN conv' = ConvFields /\ conv'.pc = "confirm" /\ conv'.change \in Texts
      /\ conv'.evidence = conv.evidence /\ conv'.plan = conv.plan /\ conv'.pack = conv.pack
      /\ conv'.request = conv.request
  BY <1>1, <1>2 DEF PlanInv, ShapeInv, ConvFields, LineValue
<1> QED BY <1>1, <1>3, ChallengeKeeps

LEMMA DeclinedKeeps == ASSUME PlanInv, DeclineChange \/ DeclineGrant PROVE PlanInv'
<1>0. ShapeInv /\ PhaseInv
  BY DEF PlanInv
<1>1. /\ UNCHANGED <<store, planfile, packs, world, chal, left, granted, ran>>
      /\ typed # <<>> /\ typed' = Tail(typed) /\ conv.pc \in Shown
      /\ conv' = [conv EXCEPT !.pc = "approve", !.change = {}]
  BY DEF DeclineChange, DeclineGrant, Declined, Reads, Stays, disk, outside, history, Shown
<1>2. /\ DOMAIN conv' = ConvFields /\ conv'.pc = "approve" /\ conv'.change = {}
      /\ conv'.evidence = conv.evidence /\ conv'.plan = conv.plan /\ conv'.pack = conv.pack
      /\ conv'.request = conv.request
  BY <1>0, <1>1 DEF ShapeInv, ConvFields
<1>3. Opened'
  <2>m. PICK m : m = conv.plan.draft.mission
    OBVIOUS
  <2>1. Turn' = Turn /\ (conv'.plan).draft.mission = m
    BY <1>1, <1>2, <2>m DEF Turn
  <2>2. Opened /\ Kept(m) /\ store[m].request = conv.request
    BY <1>1, <2>m, ShownFacts
  <2>3. Kept(m)'
    BY SMTT(30), <1>1, <2>1, <2>2 DEF Kept, GoodRevision, Cites, HumanTexts
  <2> QED BY <1>1, <1>2, <2>1, <2>2, <2>3 DEF Opened, Drafted
<1>4. PhaseInv'
  BY <1>2, <1>3 DEF PhaseInv, Shown, Granted
<1> QED BY <1>1, <1>2, <1>4, QuietConversation DEF Texts
\* One mission's continuity is written, and is good afterwards.
LEMMA WriteKeeps ==
    ASSUME ShapeInv, DiskInv, NEW m \in Missions, UNCHANGED <<packs, left>>, NEW c,
           store' = [store EXCEPT ![m] = c], store'[m] = c => Kept(m)'
    PROVE  DiskInv' /\ DOMAIN store' = Missions /\ store'[m] = c
<1>1. Turn \in Int /\ Turn' = Turn
  BY TurnIsInt DEF Turn
<1>2. DOMAIN store' = Missions /\ store'[m] = c /\ \A n \in Missions : n # m => store'[n] = store[n]
  BY DEF ShapeInv
<1>3. ASSUME NEW n \in Missions, store'[n] # Absent, n # m PROVE Kept(n)'
  <2>1. Kept(n)
    BY <1>2, <1>3 DEF DiskInv
  <2> QED BY <1>1, <1>2, <1>3, <2>1, KeptStays DEF Kept, GoodRevision
<1> QED BY <1>2, <1>3 DEF DiskInv

LEMMA ConfirmChangeKeeps == ASSUME PlanInv, ConfirmChange PROVE PlanInv'
<1>m. PICK m : m = conv.plan.draft.mission
  OBVIOUS
<1> DEFINE changes == Append(store[m].changes, conv.change)
           c == [store[m] EXCEPT !.changes = changes]
<1>0. ShapeInv /\ DiskInv
  BY DEF PlanInv
<1>1. /\ UNCHANGED <<planfile, packs, world, chal, left, granted, ran>>
      /\ typed # <<>> /\ typed' = Tail(typed) /\ conv.pc \in Shown
      /\ store' = [store EXCEPT ![m] = c]
      /\ conv' = [conv EXCEPT !.pc = "build", !.attempt = 1, !.replan = TRUE, !.change = {},
                              !.authority = {conv.request} \cup Elements(changes)]
  BY <1>m DEF ConfirmChange, Reads, outside, history, Shown
<1>2. m \in Missions /\ Opened /\ Kept(m) /\ store[m].request = conv.request
  BY <1>1, <1>m, ShownFacts
<1>3. /\ changes \in Seq(Texts) /\ Elements(store[m].changes) \subseteq Elements(changes)
  <2>1. store[m].changes \in Seq(Texts) /\ conv.change \in Texts
    BY <1>0, <1>2 DEF Kept, ShapeInv
  <2> HIDE DEF Texts
  <2>2. /\ changes \in Seq(Texts) /\ \A i \in 1..Len(store[m].changes) : changes[i] = store[m].changes[i]
        /\ Len(changes) = Len(store[m].changes) + 1
    BY <2>1
  <2> HIDE DEF changes
  <2> QED BY <2>1, <2>2 DEF Elements
<1> HIDE DEF changes
<1>4. /\ DOMAIN c = ContinuityFields /\ c.request = store[m].request
      /\ c.revisions = store[m].revisions /\ c.changes = changes
  BY <1>2 DEF Kept, ContinuityFields
<1> HIDE DEF c
<1>5. ASSUME store'[m] = c PROVE Kept(m)' /\ HumanTexts(m)' = {conv.request} \cup Elements(changes)
  <2>1. Turn' = Turn
    BY <1>1 DEF Turn
  <2>2. HumanTexts(m)' = {store[m].request} \cup Elements(changes) /\ HumanTexts(m) \subseteq HumanTexts(m)'
    BY <1>3, <1>4, <1>5 DEF HumanTexts
  <2>3. ASSUME NEW i \in 1..Len(store[m].revisions) PROVE GoodRevision(m, store[m].revisions[i])'
    <3>1. GoodRevision(m, store[m].revisions[i])
      BY <1>2 DEF Kept
    <3>2. store'[m].revisions[i] = store[m].revisions[i]
      BY <1>4, <1>5
    <3> QED BY <1>1, <2>1, <2>2, <3>1, <3>2 DEF GoodRevision, Cites
  <2>4. store'[m].revisions = store[m].revisions
    BY <1>4, <1>5
  <2>5. \A i \in 1..Len(store[m].revisions) : GoodRevision(m, store[m].revisions[i])'
    BY <2>3
  <2>6. Kept(m)'
    BY <1>2, <1>3, <1>4, <1>5, <2>4, <2>5 DEF Kept
  <2> QED BY <1>2, <2>2, <2>6
<1>6. DiskInv' /\ DOMAIN store' = Missions /\ store'[m] = c
  BY <1>0, <1>1, <1>2, <1>5, WriteKeeps
<1>7. /\ DOMAIN conv' = ConvFields /\ conv'.pc = "build" /\ conv'.change = {} /\ conv'.replan
      /\ conv'.evidence = conv.evidence /\ conv'.plan = conv.plan /\ conv'.pack = conv.pack
      /\ conv'.request = conv.request /\ conv'.authority = {conv.request} \cup Elements(changes)
  BY <1>0, <1>1 DEF ShapeInv, ConvFields
<1>8. Opened' /\ conv'.authority = HumanTexts(m)' /\ (conv'.plan).draft.mission = m
  <2>1. (conv'.plan).draft.mission = m /\ Turn' = Turn
    BY <1>1, <1>7, <1>m DEF Turn
  <2>2. store'[m].request = conv'.request
    BY <1>2, <1>4, <1>6, <1>7
  <2> QED BY <1>1, <1>2, <1>5, <1>6, <1>7, <2>1, <2>2 DEF Opened, Drafted
<1>9. PhaseInv'
  BY <1>7, <1>8 DEF PhaseInv, Shown, Granted, HumanTexts
<1> QED BY <1>1, <1>6, <1>7, <1>9, StoreStep DEF Texts
LEMMA GrantKeeps == ASSUME PlanInv, Grant PROVE PlanInv'
<1>m. PICK m : m = conv.plan.draft.mission
  OBVIOUS
<1> DEFINE c == [store[m] EXCEPT !.approval = "approved"]
           g == <<conv.plan, Head(typed).saw, chal[Head(typed).k].verb>>
<1>0. ShapeInv /\ DiskInv /\ PhaseInv /\ LineInv
  BY DEF PlanInv
<1>1. /\ UNCHANGED <<planfile, packs, world, chal, left, ran>>
      /\ typed # <<>> /\ typed' = Tail(typed) /\ conv.pc = "grant" /\ granted' = granted \cup {g}
      /\ Head(typed).kind = "command" /\ Head(typed).k = Len(chal)
  BY DEF Grant, Reads, Answers, outside
<1>2. \/ conv' = AtPrompt(conv.ready) /\ store' = store
      \/ conv' = [conv EXCEPT !.pc = "truncate"] /\ store' = [store EXCEPT ![m] = c]
  BY <1>m DEF Grant
<1>3. m \in Missions /\ Opened /\ Kept(m)
  BY <1>1, <1>m, ShownFacts DEF Shown
<1>4. g[1] = conv.plan /\ g[2] = conv.plan /\ g[3] = Verb
  <2>1. 1 \in 1..Len(typed) /\ Head(typed) = typed[1]
    BY <1>0, <1>1 DEF ShapeInv
  <2> QED BY <1>0, <1>1, <2>1 DEF LineInv
<1> HIDE DEF g
<1>5. HistoryInv'
  <2>1. Verb' = Verb
    BY <1>1 DEF Verb
  <2>2. ApprovedWasShown'
    BY <1>1, <1>4, <2>1 DEF PlanInv, HistoryInv, ApprovedWasShown
  <2> QED BY <1>1, <2>2 DEF PlanInv, HistoryInv, WorkersAreSupervised, FedByProducers
<1>6. /\ DOMAIN c = ContinuityFields /\ c.request = store[m].request
      /\ c.revisions = store[m].revisions /\ c.changes = store[m].changes
  BY <1>3 DEF Kept, ContinuityFields
<1> HIDE DEF c
<1>7. DiskInv' /\ DOMAIN store' = Missions
  <2>1. CASE store' = store
    <3>1. ASSUME NEW n \in Missions, store[n] # Absent PROVE Kept(n)'
      <4>1. Kept(n)
        BY <1>0, <3>1 DEF DiskInv
      <4>2. Turn \in Int /\ Turn' = Turn
        BY <1>0, <1>1, TurnIsInt DEF Turn
      <4>3. /\ DOMAIN store[n] = ContinuityFields
            /\ \A i \in 1..Len(store[n].revisions) : packs[store[n].revisions[i].pack.id] = "whole"
        BY <4>1 DEF Kept, GoodRevision
      <4>4. Turn <= Turn' /\ Turn' \in Int
        BY <4>2
      <4>5. store'[n] = store[n] /\ packs' = packs
        BY <1>1, <2>1
      <4> QED BY <4>1, <4>2, <4>3, <4>4, <4>5, KeptStays
    <3> QED BY <1>0, <2>1, <3>1 DEF DiskInv, ShapeInv
  <2>2. CASE store' = [store EXCEPT ![m] = c]
    BY <1>0, <1>1, <1>3, <1>6, <2>2, NoteKeeps
  <2> QED BY <1>2, <2>1, <2>2
<1>8. /\ DOMAIN conv' = ConvFields /\ conv'.change \in Texts
      /\ conv'.evidence = conv.evidence \/ DOMAIN conv'.evidence = {}
      /\ \/ conv'.pc = "prompt"
         \/ conv'.pc = "truncate" /\ conv'.plan = conv.plan
  <2>1. CASE conv' = AtPrompt(conv.ready)
    BY <2>1, PromptFacts DEF Texts
  <2>2. CASE conv' = [conv EXCEPT !.pc = "truncate"]
    BY <1>0, <2>2 DEF ShapeInv, ConvFields
  <2> QED BY <1>2, <2>1, <2>2
<1>9. PhaseInv'
  <2>1. conv.plan \in RecordedPlan /\ \E x \in granted' : x[1] = conv.plan
    BY <1>1, <1>3, <1>4 DEF Opened, Drafted
  <2> QED BY <1>8, <2>1 DEF PhaseInv, Shown, Granted
<1>10. typed' \in Seq(LineValue)
  <2>1. typed \in Seq(LineValue)
    BY <1>0 DEF ShapeInv
  <2> QED BY <1>1, <2>1
<1>11. ShapeInv'
  BY <1>0, <1>1, <1>7, <1>8, <1>10 DEF ShapeInv
<1>12. LineInv'
  BY <1>0, <1>1, <1>8, LinesStay
<1> QED BY <1>5, <1>7, <1>9, <1>11, <1>12 DEF PlanInv

-----------------------------------------------------------------------------
(* Recording and writing: the pack, the continuity, the revision, plan.json. *)

\* A step of the conversation that reads no line, grants nothing and dispatches nothing.
LEMMA RecordStep ==
    ASSUME PlanInv, UNCHANGED <<world, typed, chal, left, granted, ran>>,
           DOMAIN store' = Missions, DOMAIN planfile' = Missions, DOMAIN packs' = Acquisitions, DiskInv',
           DOMAIN conv' = ConvFields, conv'.change \in Texts,
           conv'.evidence = conv.evidence \/ DOMAIN conv'.evidence = {},
           conv'.pc \notin {"confirm", "grant"}, PhaseInv'
    PROVE  PlanInv'
<1>1. ShapeInv'
  BY DEF PlanInv, ShapeInv
<1>2. LineInv'
  BY LinesStay DEF PlanInv
<1>3. HistoryInv'
  BY DEF PlanInv, HistoryInv, ApprovedWasShown, WorkersAreSupervised, FedByProducers, Verb
<1> QED BY <1>1, <1>2, <1>3 DEF PlanInv

\* The pack of this turn is written while no revision rests on it.
LEMMA PackKeeps ==
    ASSUME PlanInv, NEW from \in {"persist", "fill"}, conv.pc = from, NEW to, NEW content,
           UNCHANGED <<store, planfile, world, typed, chal, left, granted, ran>>,
           packs' = [packs EXCEPT ![conv.pack.id] = content], conv' = [conv EXCEPT !.pc = to],
           to = "fill" \/ (to = "open" /\ content = "whole")
    PROVE  PlanInv'
<1>0. ShapeInv /\ DiskInv /\ PhaseInv
  BY DEF PlanInv
<1>1. /\ DOMAIN conv' = ConvFields /\ conv'.pc = to /\ conv'.change = conv.change
      /\ conv'.evidence = conv.evidence /\ conv'.plan = conv.plan /\ conv'.pack = conv.pack
      /\ conv'.request = conv.request
  BY <1>0 DEF ShapeInv, ConvFields
<1>2. Fresh /\ Acquired /\ Drafted /\ Cites(conv.plan.draft, {conv.request})
  BY <1>0 DEF PhaseInv
<1>3. /\ DOMAIN packs' = Acquisitions /\ packs'[Turn] = content
      /\ \A a : a # Turn => packs'[a] = packs[a]
  BY <1>0, <1>2 DEF ShapeInv, Acquired, PackValue
<1>4. Turn \in Int /\ Turn' = Turn
  BY <1>0, TurnIsInt DEF Turn
<1>5. DiskInv'
  <2> SUFFICES ASSUME NEW m \in Missions, store[m] # Absent PROVE Kept(m)'
    BY DEF DiskInv
  <2>1. Kept(m)
    BY <1>0 DEF DiskInv
  <2>2. \A i \in 1..Len(store[m].revisions) : packs'[store[m].revisions[i].pack.id] = "whole"
    BY <1>2, <1>3, <2>1 DEF Fresh, Kept, GoodRevision
  <2> QED BY <1>4, <2>1, <2>2, KeptStays DEF Kept
<1>6. Fresh' /\ Acquired' /\ Drafted'
  BY <1>1, <1>2, <1>4 DEF Fresh, Acquired, Drafted
<1>7. PhaseInv'
  <2>1. to = "open" => packs'[(conv'.pack).id] = "whole"
    BY <1>1, <1>2, <1>3 DEF Acquired
  <2> QED BY <1>1, <1>2, <1>6, <2>1 DEF PhaseInv, Shown, Granted, Cites
<1> QED BY <1>0, <1>1, <1>3, <1>5, <1>7, RecordStep DEF ShapeInv

LEMMA CreatePackKeeps == ASSUME PlanInv, CreatePack PROVE PlanInv'
<1>1. /\ UNCHANGED <<store, planfile, world, typed, chal, left, granted, ran>> /\ conv.pc = "persist"
      /\ packs' = [packs EXCEPT ![conv.pack.id] = Torn] /\ conv' = [conv EXCEPT !.pc = "fill"]
  BY DEF CreatePack, outside, history
<1> QED BY <1>1, PackKeeps

LEMMA FillPackKeeps == ASSUME PlanInv, FillPack PROVE PlanInv'
<1>1. /\ UNCHANGED <<store, planfile, world, typed, chal, left, granted, ran>> /\ conv.pc = "fill"
      /\ packs' = [packs EXCEPT ![conv.pack.id] = "whole"] /\ conv' = [conv EXCEPT !.pc = "open"]
  BY DEF FillPack, outside, history
<1> QED BY <1>1, PackKeeps
\* A continuity of this request is at hand: the plan may be recorded in it.
LEMMA OpenContinuityKeeps == ASSUME PlanInv, OpenContinuity PROVE PlanInv'
<1>m. PICK m : m = conv.plan.draft.mission
  OBVIOUS
<1> DEFINE c == NewContinuity(conv.request)
<1>0. ShapeInv /\ DiskInv /\ PhaseInv
  BY DEF PlanInv
<1>1. UNCHANGED <<planfile, packs, world, typed, chal, left, granted, ran>> /\ conv.pc = "open"
  BY DEF OpenContinuity, outside, history
<1>2. \/ store[m] = Absent /\ store' = [store EXCEPT ![m] = c] /\ conv' = [conv EXCEPT !.pc = "record"]
      \/ /\ store[m] # Absent /\ store' = store /\ store[m].request = conv.request
         /\ conv' = [conv EXCEPT !.pc = "record"]
      \/ store' = store /\ conv' = Ended
  BY <1>m DEF OpenContinuity
<1>3. /\ Acquired /\ Drafted /\ Cites(conv.plan.draft, {conv.request})
      /\ packs[conv.pack.id] = "whole" /\ m \in Missions
  BY <1>0, <1>1, <1>m, PlanAssumption DEF PhaseInv, Drafted, RecordedPlan
<1>4. Turn \in Int /\ Turn' = Turn
  BY <1>0, <1>1, TurnIsInt DEF Turn
<1>5. ASSUME conv' = [conv EXCEPT !.pc = "record"], DiskInv', DOMAIN store' = Missions, Kept(m)',
             store'[m].request = conv.request
      PROVE  PlanInv'
  <2>1. /\ DOMAIN conv' = ConvFields /\ conv'.pc = "record" /\ conv'.change = conv.change
        /\ conv'.evidence = conv.evidence /\ conv'.plan = conv.plan /\ conv'.pack = conv.pack
        /\ conv'.request = conv.request
    BY <1>0, <1>5 DEF ShapeInv, ConvFields
  <2>2. (conv'.plan).draft.mission = m
    BY <1>m, <2>1
  <2>3. Drafted' /\ packs'[(conv'.pack).id] = "whole" /\ (conv'.pack).id <= Turn'
    BY <1>1, <1>3, <1>4, <2>1 DEF Drafted, Acquired
  <2>4. Opened'
    BY <1>5, <2>1, <2>2, <2>3 DEF Opened
  <2>5. Cites(conv.plan.draft, HumanTexts(m)')
    BY <1>3, <1>5 DEF Cites, HumanTexts
  <2>6. PhaseInv'
    BY <2>1, <2>2, <2>4, <2>5 DEF PhaseInv, Shown, Granted, Cites, HumanTexts
  <2> QED BY <1>0, <1>1, <1>5, <2>1, <2>6, RecordStep DEF ShapeInv
<1>6. CASE store[m] = Absent /\ store' = [store EXCEPT ![m] = c] /\ conv' = [conv EXCEPT !.pc = "record"]
  <2>1. /\ DOMAIN c = ContinuityFields /\ c.request = conv.request /\ c.revisions = <<>> /\ c.changes = <<>>
    BY DEF NewContinuity, ContinuityFields
  <2> HIDE DEF c
  <2>2. ASSUME store'[m] = c PROVE Kept(m)'
    <3>1. <<>> \in Seq(RecordedPlan) /\ <<>> \in Seq(Texts) /\ 1..Len(<<>>) = {}
      OBVIOUS
    <3> QED BY <2>1, <2>2, <3>1 DEF Kept
  <2>3. DiskInv' /\ DOMAIN store' = Missions /\ store'[m] = c
    BY <1>0, <1>1, <1>3, <1>6, <2>2, WriteKeeps
  <2> QED BY <1>5, <1>6, <2>1, <2>2, <2>3
<1>7. CASE /\ store[m] # Absent /\ store' = store /\ store[m].request = conv.request
           /\ conv' = [conv EXCEPT !.pc = "record"]
  <2>1. ASSUME NEW n \in Missions, store[n] # Absent PROVE Kept(n)'
    <3>1. Kept(n)
      BY <1>0, <2>1 DEF DiskInv
    <3> QED BY <1>1, <1>4, <1>7, <3>1, KeptStays DEF Kept, GoodRevision
  <2>2. DiskInv' /\ DOMAIN store' = Missions /\ Kept(m)'
    BY <1>0, <1>3, <1>7, <2>1 DEF DiskInv, ShapeInv
  <2> QED BY <1>5, <1>7, <2>2
<1>8. CASE store' = store /\ conv' = Ended
  BY <1>1, <1>8, BackKeeps
<1> QED BY <1>2, <1>6, <1>7, <1>8

LEMMA RecordPlanKeeps == ASSUME PlanInv, RecordPlan PROVE PlanInv'
<1>m. PICK m : m = conv.plan.draft.mission
  OBVIOUS
<1>p. PICK plan : plan = conv.plan
  OBVIOUS
<1> DEFINE revisions == Append(store[m].revisions, plan)
           c == [store[m] EXCEPT !.revisions = revisions]
<1>0. ShapeInv /\ DiskInv /\ PhaseInv
  BY DEF PlanInv
<1>1. /\ UNCHANGED <<planfile, packs, world, typed, chal, left, granted, ran>> /\ conv.pc = "record"
      /\ store' = [store EXCEPT ![m] = c] /\ conv' = [conv EXCEPT !.pc = "approve", !.attempt = 0]
  BY <1>m, <1>p DEF RecordPlan, outside, history
<1>2. /\ Opened /\ Cites(plan.draft, HumanTexts(m)) /\ Kept(m) /\ m \in Missions
      /\ store[m].request = conv.request /\ plan \in RecordedPlan /\ plan.pack = conv.pack
  BY <1>0, <1>1, <1>m, <1>p, PlanAssumption DEF PhaseInv, Opened, Drafted, RecordedPlan
<1>3. Turn' = Turn
  BY <1>1 DEF Turn
<1>4. GoodRevision(m, plan)
  BY <1>2 DEF GoodRevision, Opened
<1>5. /\ revisions \in Seq(RecordedPlan)
      /\ \A i \in 1..Len(revisions) : GoodRevision(m, revisions[i])
  <2>1. store[m].revisions \in Seq(RecordedPlan)
    BY <1>2 DEF Kept
  <2> HIDE DEF RecordedPlan
  <2>2. /\ revisions \in Seq(RecordedPlan) /\ Len(revisions) = Len(store[m].revisions) + 1
        /\ revisions[Len(revisions)] = plan /\ Len(store[m].revisions) \in Nat
        /\ \A i \in 1..Len(store[m].revisions) : revisions[i] = store[m].revisions[i]
    BY <1>2, <2>1
  <2> HIDE DEF revisions
  <2>3. \A i \in 1..Len(revisions) : i \in 1..Len(store[m].revisions) \/ i = Len(revisions)
    BY <2>2
  <2> QED BY <1>2, <1>4, <2>2, <2>3 DEF Kept
<1> HIDE DEF revisions
<1>6. /\ DOMAIN c = ContinuityFields /\ c.request = store[m].request
      /\ c.revisions = revisions /\ c.changes = store[m].changes
  BY <1>2 DEF Kept, ContinuityFields
<1> HIDE DEF c
<1>7. ASSUME store'[m] = c PROVE Kept(m)'
  <2>1. HumanTexts(m)' = HumanTexts(m)
    BY <1>6, <1>7 DEF HumanTexts
  <2>2. ASSUME NEW r, GoodRevision(m, r) PROVE GoodRevision(m, r)'
    BY <1>1, <1>3, <2>1, <2>2 DEF GoodRevision, Cites
  <2> QED BY <1>2, <1>5, <1>6, <1>7, <2>2 DEF Kept
<1>8. DiskInv' /\ DOMAIN store' = Missions /\ store'[m] = c
  BY <1>0, <1>1, <1>2, <1>7, WriteKeeps
<1>9. /\ DOMAIN conv' = ConvFields /\ conv'.pc = "approve" /\ conv'.change = conv.change
      /\ conv'.evidence = conv.evidence /\ conv'.plan = conv.plan /\ conv'.pack = conv.pack
      /\ conv'.request = conv.request
  BY <1>0, <1>1 DEF ShapeInv, ConvFields
<1>10. Opened'
  <2>1. (conv'.plan).draft.mission = m /\ store'[m].request = conv'.request
    BY <1>2, <1>6, <1>8, <1>9, <1>m
  <2> QED BY <1>1, <1>2, <1>3, <1>7, <1>8, <1>9, <2>1 DEF Opened, Drafted
<1>11. PhaseInv'
  BY <1>9, <1>10 DEF PhaseInv, Shown, Granted
<1> QED BY <1>0, <1>1, <1>8, <1>9, <1>11, RecordStep DEF ShapeInv

\* Nothing that a continuity rests on is touched.
LEMMA DiskStays ==
    ASSUME ShapeInv, DiskInv, UNCHANGED <<store, packs, left>>
    PROVE  DiskInv'
<1>1. Turn \in Int /\ Turn' = Turn
  BY TurnIsInt DEF Turn
<1>2. ASSUME NEW n \in Missions, store[n] # Absent PROVE Kept(n)'
  <2>1. Kept(n)
    BY <1>2 DEF DiskInv
  <2> QED BY <1>1, <2>1, KeptStays DEF Kept, GoodRevision
<1> QED BY <1>2 DEF DiskInv

LEMMA WritesKeep == ASSUME PlanInv, TruncatePlan \/ WritePlan PROVE PlanInv'
<1>m. PICK m : m = conv.plan.draft.mission
  OBVIOUS
<1>0. ShapeInv /\ DiskInv /\ PhaseInv
  BY DEF PlanInv
<1>1. UNCHANGED <<store, packs, world, typed, chal, left, granted, ran>> /\ conv.pc \in Granted
  BY DEF TruncatePlan, WritePlan, outside, history, Granted
<1>2. \/ conv' = [conv EXCEPT !.pc = "write"] /\ planfile' = [planfile EXCEPT ![m] = Torn]
      \/ /\ conv' = [conv EXCEPT !.pc = "run", !.next = 1]
         /\ planfile' = [planfile EXCEPT ![m] = conv.plan]
  BY <1>m DEF TruncatePlan, WritePlan
<1>3. /\ conv.plan \in RecordedPlan /\ m \in Missions /\ \E g \in granted : g[1] = conv.plan
  BY <1>0, <1>1, <1>m, PlanAssumption DEF PhaseInv, RecordedPlan
<1>4. /\ DOMAIN conv' = ConvFields /\ conv'.change = conv.change /\ conv'.evidence = conv.evidence
      /\ conv'.plan = conv.plan /\ conv'.pc \in {"write", "run"} /\ DOMAIN planfile' = Missions
      /\ conv'.pc = "run" => planfile'[m] = conv.plan
  BY <1>0, <1>2, <1>3 DEF ShapeInv, ConvFields
<1>5. DiskInv'
  BY <1>0, <1>1, DiskStays
<1>6. PhaseInv'
  BY <1>1, <1>3, <1>4, <1>m DEF PhaseInv, Shown, Granted
<1> QED BY <1>0, <1>1, <1>4, <1>5, <1>6, RecordStep DEF ShapeInv
-----------------------------------------------------------------------------
(* The gate in front of a worker. *)

\* The rows handed over are rows of the material.
LEMMA FirstItemsFacts ==
    ASSUME NEW S, NEW s \in Seq(S), NEW row \in Elements(FirstItems(s))
    PROVE  \E k \in 1..MaxItems : k \in DOMAIN s /\ s[k] = row
<1> DEFINE n == IF Len(s) < MaxItems THEN Len(s) ELSE MaxItems
<1>1. n \in Nat /\ n <= Len(s) /\ n <= MaxItems /\ MaxItems \in Nat /\ Len(s) \in Nat
  BY MaxItemsAssumption
<1>2. FirstItems(s) = SubSeq(s, 1, n)
  BY DEF FirstItems
<1> HIDE DEF n
<1>3. Len(SubSeq(s, 1, n)) = n /\ \A i \in 1..n : SubSeq(s, 1, n)[i] = s[i]
  BY <1>1
<1>4. PICK k \in 1..n : row = s[k]
  BY <1>2, <1>3 DEF Elements
<1> QED BY <1>1, <1>4

\* An open gate found the pack current, whether or not the family asks for it.
LEMMA GateIsCurrent ==
    ASSUME NEW plan, NEW i, NEW evidence, GateOpens(plan, i, evidence)
    PROVE  plan.pack.version = world
<1> DEFINE t == plan.draft.tasks[i]
           ctx == GateContext(plan, plan.draft.mission, evidence)
<1>1. CASE "repository_state" \notin Required(t)
  BY <1>1 DEF GateOpens
<1>2. CASE "repository_state" \in Required(t)
  <2>1. ResolveRequiredSources("repository_state", t, ctx, TRUE) = "available"
    BY <1>2 DEF GateOpens, ResolveAll
  <2>2. ctx.pack.version = plan.pack.version /\ ctx.world = world /\ ctx.root /\ ctx.pack.here
    BY DEF GateContext, Context
  <2> HIDE DEF ctx, t
  <2>3. ResolveRequiredSources("repository_state", t, ctx, TRUE) = RepositoryState(ctx)
    <3>1. /\ "repository_state" \in PlanScope /\ "repository_state" \notin StructuralDependency
          /\ "repository_state" \notin AssignmentProduced
      BY DEF PlanScope, StructuralDependency, AssignmentProduced, MaterialKeys
    <3> QED BY <3>1 DEF ResolveRequiredSources, ResolvePlanScope
  <2> QED BY <2>1, <2>2, <2>3 DEF RepositoryState, When
<1> QED BY <1>1, <1>2

\* An open gate found every produced source in the result of a dependency.
LEMMA GateIsFed ==
    ASSUME NEW plan, NEW i, NEW evidence, GateOpens(plan, i, evidence),
           \A x \in DOMAIN evidence : \A id \in DOMAIN evidence[x].material :
               evidence[x].material[id] \in Seq(SUBSET STRING),
           NEW id \in Required(plan.draft.tasks[i]) \cap AssignmentProduced
    PROVE  \E x \in Elements(plan.draft.tasks[i].deps) \cap DOMAIN evidence :
             /\ id \in Contracts[FamilyOf(plan.draft)[x]].produces
             /\ evidence[x].status = "completed" /\ id \in evidence[x].marks
             /\ id \in DOMAIN evidence[x].material
             /\ \E k \in 1..MaxItems : /\ k \in DOMAIN evidence[x].material[id]
                                       /\ MaterialKeys[id] \subseteq evidence[x].material[id][k]
<1> DEFINE t == plan.draft.tasks[i]
           ctx == GateContext(plan, plan.draft.mission, evidence)
<1>1. ResolveRequiredSources(id, t, ctx, TRUE) = "available"
  BY DEF GateOpens, ResolveAll
<1>2. ctx.evidence = evidence /\ ctx.familyOf = FamilyOf(plan.draft) /\ ctx.contracts = Contracts
  BY DEF GateContext, Context
<1> HIDE DEF ctx
<1>3. id \notin PlanScope /\ id \notin StructuralDependency
  BY DEF PlanScope, TaskInputSources, StructuralDependency, AssignmentProduced, MaterialKeys
<1>4. ResolveAssignmentProduced(id, t, ctx, TRUE) = "available"
  BY <1>1, <1>3 DEF ResolveRequiredSources
<1> DEFINE from == Producers(id, t, ctx)
<1>5. /\ from \subseteq DOMAIN evidence
      /\ \E x \in from : id \in Marked(evidence[x]) /\ HasMaterial(id, evidence[x])
  <2>1. from # {} /\ from \subseteq DOMAIN ctx.evidence
    BY <1>4 DEF ResolveAssignmentProduced, NotYet
  <2> HIDE DEF t
  <2>2. When(\E x \in from : id \in Marked(ctx.evidence[x]) /\ HasMaterial(id, ctx.evidence[x])) = "available"
    BY <1>4, <2>1 DEF ResolveAssignmentProduced
  <2> HIDE DEF from
  <2> QED BY <1>2, <2>1, <2>2 DEF When
<1>6. PICK x \in from : id \in Marked(evidence[x]) /\ HasMaterial(id, evidence[x])
  BY <1>5
<1>7. /\ x \in Elements(t.deps) \cap DOMAIN evidence
      /\ id \in Contracts[FamilyOf(plan.draft)[x]].produces
  BY <1>2, <1>5 DEF Producers
<1>8. evidence[x].status = "completed" /\ id \in evidence[x].marks
  BY <1>6 DEF Marked, Readable
<1>9. PICK row \in Elements(FirstItems(evidence[x].material[id])) :
          id \in DOMAIN evidence[x].material /\ MaterialKeys[id] \subseteq row
  BY <1>6 DEF HasMaterial
<1>10. evidence[x].material[id] \in Seq(SUBSET STRING)
  BY <1>7, <1>9
<1>11. \E k \in 1..MaxItems : k \in DOMAIN evidence[x].material[id] /\ evidence[x].material[id][k] = row
  BY <1>10, FirstItemsFacts
<1> QED BY <1>7, <1>8, <1>9, <1>11

LEMMA DispatchKeeps == ASSUME PlanInv, NEW out \in Outputs, Dispatch(out) PROVE PlanInv'
<1> DEFINE plan == conv.plan
           run == [plan |-> plan, version |-> world, next |-> conv.next, evidence |-> conv.evidence]
           record == [status |-> AssignmentStatus(out, Here.family), parsed |-> out.parsed,
                      summary |-> out.summary, marks |-> out.marks, material |-> out.material]
<1>0. ShapeInv /\ DiskInv /\ PhaseInv
  BY DEF PlanInv
<1>1. UNCHANGED <<store, planfile, packs, world, typed, chal, left, granted>> /\ conv.pc = "run"
  BY DEF Dispatch, disk, outside
<1>2. /\ plan \in RecordedPlan /\ planfile[plan.draft.mission] = plan
      /\ \E g \in granted : g[1] = plan
  BY <1>0, <1>1 DEF PhaseInv, Granted
<1>3. GateOpens(plan, conv.next, conv.evidence) /\ ran' = ran \cup {run}
  BY <1>2 DEF Dispatch
<1>4. \/ conv' = [conv EXCEPT !.next = @ + 1, !.evidence = With(@, Here.id, record)]
      \/ conv' = AtPrompt(conv.ready)
  BY DEF Dispatch
<1>5. record.material = out.material
  OBVIOUS
<1> HIDE DEF record
<1>6. /\ DOMAIN conv' = ConvFields /\ conv'.change \in Texts
      /\ \/ conv'.pc = "prompt" /\ DOMAIN conv'.evidence = {}
         \/ conv'.pc = "run" /\ conv'.plan = conv.plan /\ conv'.evidence = With(conv.evidence, Here.id, record)
  <2>1. CASE conv' = AtPrompt(conv.ready)
    BY <2>1, PromptFacts DEF Texts
  <2>2. CASE conv' = [conv EXCEPT !.next = @ + 1, !.evidence = With(@, Here.id, record)]
    BY <1>0, <1>1, <2>2 DEF ShapeInv, ConvFields
  <2> QED BY <1>4, <2>1, <2>2
<1>7. \A x \in DOMAIN conv'.evidence : \A id \in DOMAIN conv'.evidence[x].material :
          conv'.evidence[x].material[id] \in Seq(SUBSET STRING)
  <2>1. CASE DOMAIN conv'.evidence = {}
    BY <2>1
  <2>2. CASE conv'.evidence = With(conv.evidence, Here.id, record)
    <3>1. \A x \in DOMAIN conv'.evidence : conv'.evidence[x] = record
              \/ (x \in DOMAIN conv.evidence /\ conv'.evidence[x] = conv.evidence[x])
      BY <2>2 DEF With
    <3>2. \A id \in DOMAIN record.material : record.material[id] \in Seq(SUBSET STRING)
      BY <1>5, PlanAssumption
    <3> QED BY <1>0, <3>1, <3>2 DEF ShapeInv
  <2> QED BY <1>6, <2>1, <2>2
<1>8. ShapeInv'
  BY <1>0, <1>1, <1>6, <1>7 DEF ShapeInv
<1>9. PhaseInv'
  BY <1>1, <1>2, <1>6 DEF PhaseInv, Shown, Granted
<1>10. DiskInv'
  BY <1>0, <1>1, DiskStays
<1>11. LineInv'
  BY <1>0, <1>1, <1>6, LinesStay DEF PlanInv
<1>12. ApprovedWasShown'
  BY <1>1 DEF PlanInv, HistoryInv, ApprovedWasShown, Verb
<1>13. WorkersAreSupervised'
  <2>1. run.version = run.plan.pack.version /\ \E g \in granted : g[1] = run.plan
    BY <1>2, <1>3, GateIsCurrent
  <2> HIDE DEF run
  <2> QED BY <1>1, <1>3, <2>1 DEF PlanInv, HistoryInv, WorkersAreSupervised
<1>14. FedByProducers'
  <2>1. \A id \in Required(run.plan.draft.tasks[run.next]) \cap AssignmentProduced :
           \E x \in Elements(run.plan.draft.tasks[run.next].deps) \cap DOMAIN run.evidence :
             /\ id \in Contracts[FamilyOf(run.plan.draft)[x]].produces
             /\ run.evidence[x].status = "completed" /\ id \in run.evidence[x].marks
             /\ id \in DOMAIN run.evidence[x].material
             /\ \E k \in 1..MaxItems : /\ k \in DOMAIN run.evidence[x].material[id]
                                       /\ MaterialKeys[id] \subseteq run.evidence[x].material[id][k]
    <3>1. run.plan = plan /\ run.next = conv.next /\ run.evidence = conv.evidence
      OBVIOUS
    <3>2. \A x \in DOMAIN conv.evidence : \A id \in DOMAIN conv.evidence[x].material :
             conv.evidence[x].material[id] \in Seq(SUBSET STRING)
      BY <1>0 DEF ShapeInv
    <3> HIDE DEF run, plan
    <3> QED BY <1>3, <3>1, <3>2, GateIsFed
  <2> HIDE DEF run, plan
  <2> QED BY SMTT(30), <1>3, <2>1 DEF PlanInv, HistoryInv, FedByProducers
<1> QED BY <1>8, <1>9, <1>10, <1>11, <1>12, <1>13, <1>14 DEF PlanInv, HistoryInv
-----------------------------------------------------------------------------
(* The specification. *)

LEMMA InitKeeps == Init => PlanInv
<1> SUFFICES ASSUME Init PROVE PlanInv
  OBVIOUS
<1>1. PICK sc \in Scenarios :
      /\ store = [m \in Missions |-> Absent] /\ planfile = [m \in Missions |-> Absent]
      /\ packs = [a \in Acquisitions |-> Absent] /\ world = 0 /\ conv = AtPrompt(Unprobed)
      /\ typed = <<>> /\ chal = <<>> /\ granted = {} /\ ran = {}
      /\ left = [turns |-> sc.turns, lines |-> sc.lines, edits |-> sc.edits,
                 crashes |-> sc.crashes, planOnly |-> sc.planOnly, requests |-> sc.requests]
  BY DEF Init
<1>2. /\ DOMAIN conv = ConvFields /\ conv.change = {} /\ conv.pc = "prompt" /\ DOMAIN conv.evidence = {}
  BY <1>1, PromptFacts
<1>3. ShapeInv
  <2>1. <<>> \in Seq(LineValue) /\ <<>> \in Seq(ChallengeValue)
    OBVIOUS
  <2>2. left.turns \in 0..MaxTurns /\ DOMAIN left = LeftFields
    BY <1>1, PlanAssumption DEF LeftFields
  <2> QED BY <1>1, <1>2, <2>1, <2>2 DEF ShapeInv, Texts
<1>4. DiskInv
  BY <1>1 DEF DiskInv
<1>5. PhaseInv
  BY <1>2, PromptPhase
<1>6. LineInv
  <2>1. 1..Len(typed) = {}
    BY <1>1
  <2> QED BY <1>2, <2>1 DEF LineInv
<1>7. HistoryInv
  BY <1>1 DEF HistoryInv, ApprovedWasShown, WorkersAreSupervised, FedByProducers
<1> QED BY <1>3, <1>4, <1>5, <1>6, <1>7 DEF PlanInv

\* Nothing happens.
LEMMA StutterKeeps == ASSUME PlanInv, UNCHANGED vars PROVE PlanInv'
<1>1. UNCHANGED <<store, planfile, packs, world, conv, typed, chal, left, granted, ran>>
  BY DEF vars
<1>2. ShapeInv'
  BY <1>1 DEF PlanInv, ShapeInv
<1>3. PhaseInv'
  BY <1>1, PhaseStays DEF PlanInv
<1>4. LineInv'
  BY <1>1 DEF PlanInv, LineInv, Verb
<1> QED BY <1>1, <1>2, <1>3, <1>4, QuietStep DEF PlanInv, ShapeInv

LEMMA NextKeeps == PlanInv /\ [Next]_vars => PlanInv'
<1> SUFFICES ASSUME PlanInv, [Next]_vars PROVE PlanInv'
  OBVIOUS
<1>1. CASE UNCHANGED vars
  BY <1>1, StutterKeeps
<1>2. ASSUME NEW line \in Lines, Type(line) PROVE PlanInv'
  BY <1>2, TypeKeeps
<1>3. ASSUME NEW request \in left.requests, NewMission(request) PROVE PlanInv'
  BY <1>3, NewMissionKeeps
<1>4. CASE Plan
  BY <1>4, AcquireKeeps, CheckCurrentKeeps, FailuresKeep, BuildKeeps DEF Plan
<1>5. CASE Record
  BY <1>5, CreatePackKeeps, FillPackKeeps, OpenContinuityKeeps, RecordPlanKeeps DEF Record
<1>6. CASE Decide
  BY <1>6, StrayLineKeeps, ReadPendingKeeps, ReadExitKeeps, ReadNoKeeps, ReadYesKeeps,
     ReadChangeKeeps, DeclinedKeeps, ConfirmChangeKeeps, GrantKeeps DEF Decide
<1>7. CASE Execute
  BY <1>7, WritesKeep, FailuresKeep, DispatchKeeps DEF Execute
<1>8. CASE EditWorkspace
  BY <1>8, EditWorkspaceKeeps
<1>9. ASSUME NEW t \in Allowed, ProviderChanges(t[1]) PROVE PlanInv'
  BY <1>9, ProviderChangesKeeps
<1>10. CASE Crash
  BY <1>10, CrashKeeps
<1> QED BY <1>1, <1>2, <1>3, <1>4, <1>5, <1>6, <1>7, <1>8, <1>9, <1>10 DEF Next

\* The inductive invariant of the conversation.
THEOREM ConversationInvariance == Spec => []PlanInv
<1>1. PlanInv /\ [Next]_vars => PlanInv'
  BY NextKeeps
<1> QED BY <1>1, InitKeeps, PTL DEF Spec

\* A granted plan was on screen when its command was typed, and the command was
\* the one of that decision, whatever was typed ahead or copied from an earlier
\* challenge (_read_plan_challenge_grant).
THEOREM GrantedWasShown == Spec => []ApprovedWasShown
<1>1. PlanInv => ApprovedWasShown
  BY DEF PlanInv, HistoryInv
<1> QED BY <1>1, ConversationInvariance, PTL

\* Every recorded revision cites only the mission's text and its confirmed
\* changes, however many corrective attempts it took
\* (mission_authority_texts in _approval_loop and _build_validated_plan).
THEOREM HumansDecide == Spec => []AuthorityIsHuman
<1>1. PlanInv => AuthorityIsHuman
  BY DEF PlanInv, DiskInv, Kept, GoodRevision, Cites, HumanTexts, AuthorityIsHuman
<1> QED BY <1>1, ConversationInvariance, PTL

\* The evidence pack of a recorded revision is on disk and whole, wherever the
\* session died (persist_evidence_pack before the continuity is touched).
THEOREM PacksRetained == Spec => []EvidenceIsRetained
<1>1. PlanInv => EvidenceIsRetained
  BY DEF PlanInv, DiskInv, Kept, GoodRevision, EvidenceIsRetained
<1> QED BY <1>1, ConversationInvariance, PTL

\* A worker runs under a granted plan and on the workspace that plan's evidence
\* describes (_required_sources_gate).
THEOREM Supervised == Spec => []WorkersAreSupervised
<1>1. PlanInv => WorkersAreSupervised
  BY DEF PlanInv, HistoryInv
<1> QED BY <1>1, ConversationInvariance, PTL

\* A worker that needs a produced source starts after a dependency delivered it
\* among the rows handed over (_resolve_assignment_produced).
THEOREM Fed == Spec => []FedByProducers
<1>1. PlanInv => FedByProducers
  BY DEF PlanInv, HistoryInv
<1> QED BY <1>1, ConversationInvariance, PTL
==============================================================================
