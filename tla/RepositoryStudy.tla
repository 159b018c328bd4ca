--------------------------- MODULE RepositoryStudy ---------------------------
(***************************************************************************)
(* Repository study in the Konoha conversation: the terminal routing       *)
(* (RepositoryConversation), the study workflow and its private records,   *)
(* the acquisition of evidence packs and their currency check, over        *)
(* checkouts that somebody edits while they are read.                      *)
(*                                                                         *)
(* A file's content stands for its bytes and their SHA-256; it is reduced  *)
(* to what the extraction finds in it: the kind of file, the symbols it    *)
(* defines and uses, the files it imports and the script targets it        *)
(* declares.  A path may also hold nothing (Gone) or a symlink (Link).     *)
(* A pack is its content, without the time stamp; studies are told apart   *)
(* by the number of their record.  A turn that fails says why and returns  *)
(* to the prompt.  What is only displayed (explanations, lists, locators)  *)
(* is left out, and so is the second load some of those displays make.     *)
(***************************************************************************)
EXTENDS Naturals, Sequences, FiniteSets

CONSTANTS
    Here,         \* the workspace repository of the conversation
    External,     \* other local checkouts a turn may name
    PrivateRoot,  \* those whose path carries a private marker
    Session,      \* terminals with a conversation over the same state root
    Files, Private, Ignored, Tests,
                  \* paths; excluded ones, ignored ones, tests
    Gone, Link,   \* a path without a file, a symlink
    None,         \* no repository
    Scenarios,    \* [repo, studies, terminals, hand, turns, edits, crashes]: what
                  \* a behaviour starts with and how much may happen in it
    Edits,        \* <<repository, path, content>> somebody may write
    MaxStudies, MaxTurns  \* bounds on the records and on the turns

ASSUME RepositoryAssumption ==
    /\ Here \notin External /\ PrivateRoot \subseteq External
    /\ None \notin {Here} \cup External
    /\ Private \cup Ignored \cup Tests \subseteq Files
    /\ \A e \in Edits : e[1] \in {Here} \cup External /\ e[2] \in Files

\* The records a behaviour starts with were written by the code: each is of a known
\* checkout, and there is none of a study that was understood but never written.  The
\* terminals may have a study of the workspace at hand already.
ASSUME ScenarioAssumption ==
    \A sc \in Scenarios :
        /\ DOMAIN sc.repo = {Here} \cup External
        /\ \A r \in DOMAIN sc.repo : /\ DOMAIN sc.repo[r] = {"vcs", "tracked", "head", "disk"}
                                    /\ DOMAIN sc.repo[r].disk = Files
        /\ DOMAIN sc.studies = 1..MaxStudies
        /\ \A i \in 1..MaxStudies :
             LET r == sc.studies[i] IN
               /\ DOMAIN r = {"file", "pack", "tb", "update"}
               /\ r.file # "absent" => r.pack.repo \in {Here} \cup External
               /\ r.update = "understood" => r.tb = "understood"
               /\ r.tb = "understood" => r.file # "absent"
        /\ sc.hand # 0 => /\ sc.hand \in 1..MaxStudies
                          /\ sc.studies[sc.hand].file = "ok" /\ sc.studies[sc.hand].pack.repo = Here

VARIABLES
    repo,       \* the checkouts
    study,      \* the records under repository-studies/
    sess,       \* the conversations
    turns, edits, crashes,  \* how many of each may still happen
    consent,    \* checkouts whose displayed command was entered (history)
    closed,     \* studies closed by the exact :entendido (history)
    past,       \* what edits replaced since a session's turn began (history)
    advice      \* studies behind the evidence handed to planning (history)

vars == <<repo, study, sess, turns, edits, crashes, consent, closed, past, advice>>
history == <<consent, closed, past, advice>>
bounds == <<turns, edits, crashes>>

Repos == {Here} \cup External
Ids == 1..MaxStudies

-----------------------------------------------------------------------------
(* Enumeration.  Git is asked for paths only; existence and symlinks are   *)
(* checked on the file system.                                             *)

GitCandidates(v) == v.tracked \cup {f \in Files \ Ignored : v.disk[f] # Gone}

Present(v, C) == {f \in C \ Private : v.disk[f] \notin {Gone, Link}}

EnumerateViaGit(v) ==
    [eligible |-> Present(v, GitCandidates(v)),
     missing |-> {f \in v.tracked \ Private : v.disk[f] = Gone}]

EnumerateViaWalk(v) == [eligible |-> Present(v, Files), missing |-> {}]

Enumerate(v) == IF v.vcs = "git" THEN EnumerateViaGit(v) ELSE EnumerateViaWalk(v)

-----------------------------------------------------------------------------
(* What a pack says of the files it read.                                  *)

Pack(r, scanned, missing, v) ==
    [repo |-> r, scanned |-> scanned, missing |-> missing,
     vcs |-> v.vcs, head |-> v.head]

\* Binary, oversized and unparsable files are hashed and not parsed.
Parsed(p) == {f \in DOMAIN p.scanned : p.scanned[f].kind = "python"}

\* Imports that resolve to another parsed file; the rest are unknowns.
ImportsGraph(p) ==
    {e \in Parsed(p) \X Parsed(p) :
        e[1] # e[2] /\ e[2] \in p.scanned[e[1]].imports}

FanIn(p, f) == Cardinality({e \in ImportsGraph(p) : e[2] = f})

Used(p) == UNION {p.scanned[f].uses : f \in Parsed(p)}

DeadCode(p) ==
    UNION {{f} \X (p.scanned[f].defs \ Used(p)) : f \in {g \in Parsed(p) \ Tests : FanIn(p, g) = 0}}

\* The script targets the manifests declare.
Entrypoints(p) ==
    UNION {p.scanned[f].scripts : f \in {g \in DOMAIN p.scanned : p.scanned[g].kind = "manifest"}}

\* A script target is resolved by its exact module and symbol, never by a
\* parent package.
Unresolved(p) ==
    {t \in Entrypoints(p) : ~(t[1] \in Parsed(p) /\ t[2] \in p.scanned[t[1]].defs)}

Recommendations(p) == DeadCode(p) \cup Unresolved(p)

\* One lesson per category of fact the donor study holds.
Lessons(p) ==
    {c \in {"tests", "capabilities", "relationships"} :
        \/ c = "tests" /\ Parsed(p) \cap Tests # {}
        \/ c = "capabilities" /\ Entrypoints(p) # {}
        \/ c = "relationships" /\ ImportsGraph(p) # {}}

-----------------------------------------------------------------------------
(* Sessions.  "loads" are the studies the turn has yet to load, "got" what *)
(* it loaded; "shown" the checkouts of the commands displayed so far.      *)

Idle == [op |-> "none", then |-> "none", id |-> 0, loads |-> <<>>, got |-> <<>>,
         repo |-> None, todo |-> {}, seen |-> <<>>, missing |-> {}]

NoPending == [repo |-> None, id |-> 0]
NoReport == [items |-> {}, over |-> <<>>]

NewConversation ==
    [pc |-> "prompt", active |-> 0, target |-> 0, known |-> {},
     pending |-> NoPending, cmd |-> 0, shown |-> <<>>, report |-> NoReport, w |-> Idle]

\* A conversation that has activated the study of the workspace, or none yet.
Conversing(hand) ==
    IF hand = 0 THEN NewConversation
    ELSE [NewConversation EXCEPT !.active = hand, !.target = hand, !.known = {hand}]

NoStudy == [file |-> "absent", pack |-> NoPending, tb |-> "awaiting", update |-> "absent"]

Init ==
    /\ \E sc \in Scenarios :
         /\ turns = sc.turns /\ edits = sc.edits /\ crashes = sc.crashes
         /\ \E open \in SUBSET Session :
              /\ Cardinality(open) = sc.terminals
              /\ sess = [s \in Session |-> IF s \in open THEN Conversing(sc.hand)
                                          ELSE [NewConversation EXCEPT !.pc = "closed"]]
         /\ repo = sc.repo
         /\ study = sc.studies
         /\ closed = {i \in Ids : sc.studies[i].tb = "understood"}
    /\ consent = [s \in Session |-> {}]
    /\ past = [s \in Session |-> {}]
    /\ advice = [s \in Session |-> <<>>]

Set(s, c) == sess' = [sess EXCEPT ![s] = c]
Stop(s, c) == Set(s, [c EXCEPT !.pc = "prompt", !.w = Idle])

\* A turn of the human: nothing replaced since, no evidence handed over yet.
Turn(s) ==
    /\ sess[s].pc = "prompt" /\ turns > 0
    /\ turns' = turns - 1
    /\ past' = [past EXCEPT ![s] = {}]
    /\ advice' = [advice EXCEPT ![s] = <<>>]
    /\ UNCHANGED <<repo, edits, crashes>>

Working(c, op, loads) == [c EXCEPT !.pc = "load", !.w = [Idle EXCEPT !.op = op, !.loads = loads]]

-----------------------------------------------------------------------------
(* Opening a study: the workspace at once, another checkout only after its *)
(* own displayed command.                                                  *)

\* _open(): reentry reads the record and compares its root, a new study is
\* acquired first.
Opened(c, r, id) ==
    IF id = 0
    THEN [c EXCEPT !.pc = "enumerate", !.w = [Idle EXCEPT !.op = "activate", !.repo = r]]
    ELSE IF study[id].file = "ok" /\ study[id].pack.repo = r
         THEN Working(c, "activate", <<id>>)
         ELSE c

Unasked(c) == [c EXCEPT !.pending = NoPending, !.cmd = 0]

\* Mutant: a stored study of the checkout is permission enough.
RequestStudy_Resumes(s, r, id) ==
    /\ Turn(s)
    /\ LET c == Unasked(sess[s]) IN
         CASE r \in PrivateRoot -> Set(s, sess[s])
           [] r = Here -> Set(s, Opened(c, r, id))
           [] r \in External \ PrivateRoot /\ id # 0 -> Set(s, Opened(c, r, id))
           [] OTHER -> Set(s, [c EXCEPT !.pending = [repo |-> r, id |-> id],
                                        !.cmd = Len(c.shown) + 1, !.shown = Append(@, r)])
    /\ UNCHANGED <<study, consent, closed>>

RequestStudy(s, r, id) ==
    /\ Turn(s)
    /\ LET c == Unasked(sess[s]) IN
         CASE r \in PrivateRoot -> Set(s, sess[s])
           [] r = Here -> Set(s, Opened(c, r, id))
           [] r \in External \ PrivateRoot /\ id \in c.known /\ study[id].pack.repo = r ->
                Set(s, Working(c, "activate", <<id>>))
           [] OTHER -> Set(s, [c EXCEPT !.pending = [repo |-> r, id |-> id],
                                        !.cmd = Len(c.shown) + 1, !.shown = Append(@, r)])
    /\ UNCHANGED <<study, consent, closed>>

\* Any command this conversation has displayed may be entered, the current one
\* or an earlier one.
EnterCommand(s, k) ==
    /\ Turn(s)
    /\ k \in 1..Len(sess[s].shown)
    /\ IF k = sess[s].cmd /\ sess[s].pending # NoPending
       THEN /\ Set(s, Opened(Unasked(sess[s]), sess[s].pending.repo, sess[s].pending.id))
            /\ consent' = [consent EXCEPT ![s] = @ \cup {sess[s].shown[k]}]
       ELSE UNCHANGED <<sess, consent>>
    /\ UNCHANGED <<study, closed>>

Cancel(s) ==
    /\ Turn(s)
    /\ Set(s, Unasked(sess[s]))
    /\ UNCHANGED <<study, consent, closed>>

Leave(s) ==
    /\ Turn(s)
    /\ Set(s, [Unasked(sess[s]) EXCEPT !.active = 0, !.report = NoReport])
    /\ UNCHANGED <<study, consent, closed>>

-----------------------------------------------------------------------------
(* Turns over a study.                                                     *)

\* "understand this repository": the study at hand, else a new one.
Understood(c) ==
    IF c.target # 0 THEN Working(c, "activate", <<c.target>>)
                    ELSE Opened(Unasked(c), Here, 0)

Responding(c, text) ==
    IF c.active = 0 THEN c
    ELSE [Working(c, "respond", <<c.active>>) EXCEPT !.w.then = text]

\* :entendido, "ok", "repeat": the human's text goes to the Teachback engine,
\* which closes on the exact command alone.
Respond(s, text) ==
    /\ Turn(s)
    /\ Set(s, Responding(sess[s], text))
    /\ UNCHANGED <<study, consent, closed>>

Features == {"action", "evidence", "repository", "study", "clarify", "thanks"}

\* _natural_intent(): a request to act always wins over the words around it.
Intent(F, active) ==
    IF "action" \in F THEN "none"
    ELSE IF "evidence" \in F /\ (active \/ "repository" \in F) THEN "evidence"
    ELSE IF {"study", "repository"} \subseteq F THEN "study"
    ELSE IF active /\ F \cap {"study", "clarify"} # {} THEN "clarify"
    ELSE IF active /\ "thanks" \in F THEN "acknowledge"
    ELSE "none"

Natural(s, F) ==
    /\ Turn(s)
    /\ LET c == sess[s]
           intent == Intent(F, c.active # 0) IN
         CASE intent = "none" \/ (intent = "acknowledge" /\ c.pending # NoPending) ->
                UNCHANGED sess
           [] intent = "study" -> Set(s, Understood(c))
           [] intent = "evidence" /\ c.active = 0 ->
                Set(s, [Understood(c) EXCEPT !.w.then = "question"])
           [] OTHER -> Set(s, Responding(c, "question"))
    /\ UNCHANGED <<study, consent, closed>>

Recommend(s) ==
    /\ Turn(s)
    /\ sess[s].target # 0
    /\ Set(s, Working([sess[s] EXCEPT !.report = NoReport], "recommend", <<sess[s].target>>))
    /\ UNCHANGED <<study, consent, closed>>

Compare(s) ==
    /\ Turn(s)
    /\ sess[s].active # 0 /\ sess[s].target # 0
    /\ Set(s, Working([sess[s] EXCEPT !.report = NoReport], "compare",
                      <<sess[s].active, sess[s].target>>))
    /\ UNCHANGED <<study, consent, closed>>

\* "implement recommendation N": the studies behind the report are loaded again.
Implement(s) ==
    /\ Turn(s)
    /\ sess[s].report # NoReport
    /\ Set(s, Working(sess[s], "implement", sess[s].report.over))
    /\ UNCHANGED <<study, consent, closed>>

-----------------------------------------------------------------------------
(* Reading a checkout, path by path.                                       *)

Quiet == UNCHANGED <<repo, bounds, consent, closed, past>>

\* load_study(): the record, its pack, and the scan scope it must still have.
LoadRecord(s) ==
    /\ sess[s].pc = "load"
    /\ LET c == sess[s]
           r == study[Head(c.w.loads)]
           e == Enumerate(repo[r.pack.repo]) IN
         IF /\ r.file = "ok"
            /\ e.eligible \cup e.missing = DOMAIN r.pack.scanned \cup r.pack.missing
         THEN Set(s, [c EXCEPT !.pc = "read", !.w.repo = r.pack.repo,
                               !.w.got = Append(@, [id |-> Head(c.w.loads), pack |-> r.pack, tb |-> r.tb]),
                               !.w.todo = e.eligible, !.w.missing = e.missing, !.w.seen = <<>>])
         ELSE Stop(s, c)
    /\ UNCHANGED <<study, advice>> /\ Quiet

\* acquire_repo_evidence(): the paths are listed before any is read.
StartScan(s) ==
    /\ sess[s].pc = "enumerate"
    /\ LET e == Enumerate(repo[sess[s].w.repo]) IN
         Set(s, [sess[s] EXCEPT !.pc = "read", !.w.todo = e.eligible, !.w.missing = e.missing])
    /\ UNCHANGED <<study, advice>> /\ Quiet

\* What was read so far, and content v at path f.
With(seen, f, v) == [g \in DOMAIN seen \cup {f} |-> IF g = f THEN v ELSE seen[g]]

\* The reader threads take the paths in any order.  A path that no longer holds
\* a regular file fails the acquisition, and makes a check say stale.
ReadFile(s, f) ==
    /\ sess[s].pc = "read" /\ f \in sess[s].w.todo
    /\ LET v == repo[sess[s].w.repo].disk[f] IN
         IF v \in {Gone, Link} THEN Stop(s, sess[s])
         ELSE Set(s, [sess[s] EXCEPT !.w.todo = @ \ {f}, !.w.seen = With(@, f, v)])
    /\ UNCHANGED <<study, advice>> /\ Quiet

\* Mutant: the paths and HEAD are compared, the digests are not.
Current_PathsOnly(w, v) ==
    LET p == w.got[Len(w.got)].pack IN
      /\ DOMAIN w.seen = DOMAIN p.scanned /\ w.missing = p.missing
      /\ v.vcs = p.vcs /\ v.head = p.head

\* is_evidence_current(): the same scan, digest and HEAD again.
Current(w, v) ==
    LET p == w.got[Len(w.got)].pack IN
      /\ w.seen = p.scanned /\ w.missing = p.missing
      /\ v.vcs = p.vcs /\ v.head = p.head

Acquiring(w) == w.loads = <<>>

ReadIdentity(s) ==
    /\ sess[s].pc = "read" /\ sess[s].w.todo = {}
    /\ LET c == sess[s]
           v == repo[c.w.repo] IN
         CASE Acquiring(c.w) -> Set(s, [c EXCEPT !.pc = "persist",
                                   !.w.got = <<Pack(c.w.repo, c.w.seen, c.w.missing, v)>>,
                                   !.w.seen = <<>>, !.w.missing = {}])
           [] ~Acquiring(c.w) /\ Current(c.w, v) ->
                Set(s, [c EXCEPT !.w.loads = Tail(@), !.w.seen = <<>>, !.w.missing = {},
                                 !.pc = IF Len(c.w.loads) = 1 THEN "finish" ELSE "load"])
           [] OTHER -> Stop(s, c)
    /\ UNCHANGED <<study, advice>> /\ Quiet

-----------------------------------------------------------------------------
(* start_study(): the pack, then study.json, each created and never        *)
(* overwritten.                                                            *)

Persist(s) ==
    /\ sess[s].pc = "persist"
    /\ \E i \in Ids :
         /\ study[i].file = "absent"
         /\ \A j \in 1..(i - 1) : study[j].file # "absent"
         /\ study' = [study EXCEPT ![i].file = "pack", ![i].pack = sess[s].w.got[1]]
         /\ Set(s, [sess[s] EXCEPT !.pc = "create", !.w.id = i, !.w.got = <<>>])
    /\ UNCHANGED advice /\ Quiet

CreateRecord(s) ==
    /\ sess[s].pc = "create"
    /\ study' = [study EXCEPT ![sess[s].w.id].file = "torn"]
    /\ Set(s, [sess[s] EXCEPT !.pc = "fill"])
    /\ UNCHANGED advice /\ Quiet

FillRecord(s) ==
    /\ sess[s].pc = "fill"
    /\ study' = [study EXCEPT ![sess[s].w.id].file = "ok"]
    /\ Set(s, [sess[s] EXCEPT !.pc = "load", !.w.loads = <<sess[s].w.id>>, !.w.id = 0])
    /\ UNCHANGED advice /\ Quiet

-----------------------------------------------------------------------------
(* What a turn does once its studies are loaded and current.               *)

\* _activate(), and the response an evidence question adds to it.
Activate(s) ==
    LET c == sess[s]
        g == c.w.got[1]
        a == [c EXCEPT !.pc = "prompt", !.active = g.id, !.known = @ \cup {g.id},
                       !.target = IF g.pack.repo = Here THEN g.id ELSE @,
                       !.report = NoReport, !.w = Idle] IN
      Set(s, IF c.w.then = "none" THEN a ELSE Responding(a, c.w.then))

\* respond_repository_teachback()
Teachback(tb, text) ==
    IF tb = "understood" \/ text = ":entendido" THEN "understood" ELSE "awaiting"

Reported(s, over, items) ==
    Stop(s, [sess[s] EXCEPT !.report = [items |-> items, over |-> over]])

\* Mutant: a loaded study is taken for an understood one.
AllUnderstood_Loaded(got) == got # <<>>

AllUnderstood(got) == \A i \in 1..Len(got) : got[i].tb = "understood"

Finish(s) ==
    /\ sess[s].pc = "finish"
    /\ LET c == sess[s]
           got == c.w.got IN
         CASE c.w.op = "activate" -> Activate(s) /\ UNCHANGED <<advice, closed>>
           [] c.w.op = "respond" ->
                /\ Set(s, [c EXCEPT !.pc = "update", !.w.id = got[1].id, !.w.got = <<>>,
                             !.w.todo = {}, !.w.then = Teachback(got[1].tb, c.w.then)])
                /\ closed' = IF c.w.then = ":entendido" THEN closed \cup {got[1].id} ELSE closed
                /\ UNCHANGED advice
           [] c.w.op = "recommend" ->
                /\ IF AllUnderstood(got) THEN Reported(s, <<got[1].id>>, Recommendations(got[1].pack))
                                         ELSE Stop(s, c)
                /\ UNCHANGED <<advice, closed>>
           [] c.w.op = "compare" ->
                /\ IF AllUnderstood(got) /\ got[1].pack.repo # got[2].pack.repo
                   THEN Reported(s, <<got[1].id, got[2].id>>, Lessons(got[1].pack))
                   ELSE Stop(s, c)
                /\ UNCHANGED <<advice, closed>>
           [] OTHER ->
                /\ Stop(s, c)
                /\ advice' = [advice EXCEPT ![s] =
                     IF c.report.items = {} THEN <<>>
                     ELSE [i \in 1..Len(c.report.over) |->
                             [id |-> c.report.over[i], pack |-> study[c.report.over[i]].pack]]]
                /\ UNCHANGED closed
    /\ UNCHANGED <<study, repo, bounds, consent, past>>

\* The new record goes to an exclusive temporary file and then replaces the old
\* one; a temporary file left behind stops every later response.
CreateUpdate(s) ==
    /\ sess[s].pc = "update"
    /\ LET i == sess[s].w.id IN
         IF study[i].update = "absent"
         THEN /\ study' = [study EXCEPT ![i].update = "torn"]
              /\ Set(s, [sess[s] EXCEPT !.pc = "write"])
         ELSE Stop(s, sess[s]) /\ UNCHANGED study
    /\ UNCHANGED advice /\ Quiet

WriteUpdate(s) ==
    /\ sess[s].pc = "write"
    /\ study' = [study EXCEPT ![sess[s].w.id].update = sess[s].w.then]
    /\ Set(s, [sess[s] EXCEPT !.pc = "replace"])
    /\ UNCHANGED advice /\ Quiet

ReplaceRecord(s) ==
    /\ sess[s].pc = "replace"
    /\ study' = [study EXCEPT ![sess[s].w.id].tb = study[sess[s].w.id].update,
                              ![sess[s].w.id].update = "absent"]
    /\ Stop(s, sess[s])
    /\ UNCHANGED advice /\ Quiet

-----------------------------------------------------------------------------
(* The world: edits, commits, a terminal closed in the middle of a turn.   *)

Replaced(r, f, v) == past' = [s \in Session |-> past[s] \cup {<<r, f, v>>}]

Edit(r, f, v) ==
    /\ edits > 0 /\ repo[r].disk[f] # v
    /\ edits' = edits - 1
    /\ repo' = [repo EXCEPT ![r].disk[f] = v]
    /\ Replaced(r, f, repo[r].disk[f])
    /\ UNCHANGED <<study, sess, turns, crashes, consent, closed, advice>>

Commit(r) ==
    /\ edits > 0 /\ repo[r].vcs = "git"
    /\ edits' = edits - 1
    /\ repo' = [repo EXCEPT ![r].head = @ + 1]
    /\ Replaced(r, "head", repo[r].head)
    /\ UNCHANGED <<study, sess, turns, crashes, consent, closed, advice>>

Crash(s) ==
    /\ crashes > 0 /\ sess[s].pc # "closed" /\ sess[s] # NewConversation
    /\ crashes' = crashes - 1
    /\ Set(s, NewConversation)
    /\ consent' = [consent EXCEPT ![s] = {}]
    /\ advice' = [advice EXCEPT ![s] = <<>>]
    /\ UNCHANGED <<repo, study, turns, edits, closed, past>>

Say(s) ==
    \/ \E r \in Repos, i \in {0} \cup Ids : RequestStudy(s, r, i)
    \/ \E k \in 1..MaxTurns : EnterCommand(s, k)
    \/ Cancel(s) \/ Leave(s)
    \/ \E text \in {":entendido", "yes"} : Respond(s, text)
    \/ \E F \in SUBSET Features : Natural(s, F)
    \/ Recommend(s) \/ Compare(s) \/ Implement(s)

Continue(s) ==
    \/ LoadRecord(s) \/ StartScan(s) \/ \E f \in Files : ReadFile(s, f)
    \/ ReadIdentity(s) \/ Persist(s) \/ CreateRecord(s) \/ FillRecord(s)
    \/ Finish(s) \/ CreateUpdate(s) \/ WriteUpdate(s) \/ ReplaceRecord(s)

Next ==
    \/ \E s \in Session : Say(s) \/ Continue(s) \/ Crash(s)
    \/ \E e \in Edits : Edit(e[1], e[2], e[3])
    \/ \E r \in Repos : Commit(r)

Spec == Init /\ [][Next]_vars

-----------------------------------------------------------------------------
(* Properties.                                                             *)

\* The records, the conversations and the checkouts keep their shape: a
\* command is expected exactly while a request is pending, and the studies at
\* hand and behind a report were activated in their conversation.
TypeOK ==
    /\ \A i \in Ids : /\ study[i].file \in {"absent", "pack", "torn", "ok"}
                      /\ study[i].tb \in {"awaiting", "understood"}
                      /\ study[i].update \in {"absent", "torn", "awaiting", "understood"}
    /\ \A s \in Session :
         /\ sess[s].known \subseteq Ids
         /\ {sess[s].active, sess[s].target} \subseteq sess[s].known \cup {0}
         /\ (sess[s].cmd # 0) <=> (sess[s].pending # NoPending)
         /\ \A i \in 1..Len(sess[s].report.over) : sess[s].report.over[i] \in sess[s].known
    /\ turns \in 0..MaxTurns /\ edits \in Nat /\ crashes \in Nat

\* Naming an external checkout is not consent: no conversation reads one, keeps
\* a study of one at hand, or loads one again, before the human entered the
\* very command displayed for it in that conversation; resuming a stored study
\* gives no permission either (_request_study, _open, _handle).
ConsentBeforeReading ==
    \A s \in Session : \A r \in External :
        \/ r \in consent[s]
        \/ /\ sess[s].w.repo # r
           /\ \A i \in sess[s].known : study[i].pack.repo # r

\* Evidence handed to planning is current: every path of every study behind it
\* holds what the study read, or held it after the human asked (_report_items
\* loads the studies again, so a report over an edited checkout cannot become
\* planning input).
AdviceIsCurrent ==
    \A s \in Session : \A k \in 1..Len(advice[s]) :
        LET p == advice[s][k].pack IN
          /\ \A f \in DOMAIN p.scanned :
               \/ repo[p.repo].disk[f] = p.scanned[f]
               \/ <<p.repo, f, p.scanned[f]>> \in past[s]
          /\ repo[p.repo].head = p.head \/ <<p.repo, "head", p.head>> \in past[s]

\* Evidence handed to planning rests on studies that a human closed by typing the
\* exact :entendido, whatever the order in which two terminals read and replace a
\* record: a recommendation over a study nobody understood never reaches the
\* planner, and the evidence is that study's own (_understood in learning.py,
\* respond_to_study).
AdviceIsUnderstood ==
    \A s \in Session : \A k \in 1..Len(advice[s]) :
        /\ advice[s][k].id \in closed
        /\ study[advice[s][k].id].pack = advice[s][k].pack

=============================================================================
