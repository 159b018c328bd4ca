----------------------------- MODULE StudyProofs -----------------------------
(***************************************************************************)
(* Proofs about RepositoryStudy, for any checkouts, terminals, stored      *)
(* studies, edits and turns.                                               *)
(*                                                                         *)
(* A record that was created keeps its pack, so what a conversation holds  *)
(* is told by the numbers of studies: those it may read (Held), those that *)
(* were understood (closed).  A turn checks the packs behind its report    *)
(* one after another while checkouts change; what was read is still there  *)
(* or was replaced since the turn began (Was), which no step takes back.   *)
(***************************************************************************)
EXTENDS RepositoryStudy, TLAPS

ConvFields == {"pc", "active", "target", "known", "pending", "cmd", "shown", "report", "w"}
WorkFields == {"op", "then", "id", "loads", "got", "repo", "todo", "seen", "missing"}
StudyFields == {"file", "pack", "tb", "update"}
RepoFields == {"vcs", "tracked", "head", "disk"}
Ops == {"activate", "respond", "recommend", "compare", "implement"}

IsList(q) == Len(q) \in Nat /\ DOMAIN q = 1..Len(q)

-----------------------------------------------------------------------------
(* The invariant.                                                          *)

\* The records written, and what session s may read: the checkouts, the studies.
Filed == {i \in Ids : study[i].file # "absent"}
Allowed(s) == {r \in Repos : r \in External => r \in consent[s]}
Held(s) == {i \in Filed : study[i].pack.repo \in Allowed(s)}

\* Path f of r holds v, or held it since the turn of s began.
Was(s, r, f, v) == repo[r].disk[f] = v \/ <<r, f, v>> \in past[s]
HeadWas(s, r, v) == repo[r].head = v \/ <<r, "head", v>> \in past[s]

WasSeen(s, r, seen) == DOMAIN seen \subseteq Files /\ \A f \in DOMAIN seen : Was(s, r, f, seen[f])

\* The studies whose pack was true of its checkout since the turn of s began.
Fresh(s) ==
    {i \in Filed : LET p == study[i].pack IN
        p.repo \in Repos /\ WasSeen(s, p.repo, p.scanned) /\ HeadWas(s, p.repo, p.head)}

\* How many studies the turn loads.
Wanted(s) ==
    IF sess[s].w.op = "implement" THEN Len(sess[s].report.over)
    ELSE IF sess[s].w.op = "compare" THEN 2 ELSE 1

Taking(s) == sess[s].pc \in {"enumerate", "persist", "create", "fill"}
             \/ (sess[s].pc = "read" /\ sess[s].w.loads = <<>>)
Loading(s) == sess[s].pc \in {"load", "finish"} \/ (sess[s].pc = "read" /\ sess[s].w.loads # <<>>)

\* What a conversation has at hand.
HandInv(s) ==
    LET c == sess[s] IN
      /\ DOMAIN c = ConvFields /\ DOMAIN c.w = WorkFields
      /\ c.known \subseteq Held(s)
      /\ c.active \in c.known \cup {0} /\ c.target \in c.known \cup {0}
      /\ c.shown \in Seq(Repos)
      /\ c.pending # NoPending =>
            /\ c.cmd \in 1..Len(c.shown) /\ c.pending.repo = c.shown[c.cmd]
            /\ c.pending.id \in {0} \cup Ids

\* The report is over studies that were understood.
OverInv(s) ==
    LET c == sess[s] IN
      /\ c.report.over \in Seq(Ids) /\ (c.report = NoReport \/ c.report.over # <<>>)
      /\ \A k \in 1..Len(c.report.over) : c.report.over[k] \in Held(s) \cap closed

RepoInv(s) == sess[s].w.repo = None \/ sess[s].w.repo \in Allowed(s)

\* An acquisition.
TakeInv(s) ==
    LET c == sess[s] IN
      /\ c.w.repo # None /\ c.w.op = "activate"
      /\ c.pc \in {"enumerate", "read"} => c.w.got = <<>> /\ c.w.loads = <<>>
      /\ c.pc = "persist" => c.w.got[1].repo = c.w.repo
      /\ c.pc \in {"create", "fill"} =>
            c.w.got = <<>> /\ c.w.id \in Filed /\ study[c.w.id].pack.repo = c.w.repo

\* The studies a turn has loaded, and those it has yet to load.
GotInv(s) ==
    LET w == sess[s].w IN
      /\ IsList(w.got)
      /\ \A j \in 1..Len(w.got) :
            /\ w.got[j].id \in Held(s) /\ w.got[j].pack = study[w.got[j].id].pack
            /\ w.got[j].tb = "understood" => w.got[j].id \in closed

LoadInv(s) ==
    LET c == sess[s] IN
      /\ c.w.op \in Ops /\ c.w.loads \in Seq(Ids)
      /\ \A j \in 1..Len(c.w.loads) : c.w.loads[j] \in Held(s)
      /\ c.pc \in {"load", "finish"} => Len(c.w.got) + Len(c.w.loads) = Wanted(s)
      /\ c.pc = "load" => c.w.loads # <<>>
      /\ c.pc = "finish" => c.w.loads = <<>>

\* A check of the study loaded last.
ReadInv(s) ==
    LET w == sess[s].w IN
      /\ Len(w.got) + Len(w.loads) = Wanted(s) + 1 /\ w.got # <<>>
      /\ w.got[Len(w.got)].id = w.loads[1]
      /\ w.repo = w.got[Len(w.got)].pack.repo
      /\ WasSeen(s, w.repo, w.seen)

\* The part of the report whose studies were found current in this turn.
CheckedInv(s) ==
    LET over == sess[s].report.over
        loads == sess[s].w.loads IN
      /\ Len(loads) <= Len(over)
      /\ \A j \in 1..Len(loads) : loads[j] = over[Len(over) - Len(loads) + j]
      /\ \A k \in 1..(Len(over) - Len(loads)) : over[k] \in Fresh(s)

\* Replacing a record.
UpdateInv(s) ==
    LET c == sess[s] IN
      /\ c.pc \in {"update", "write", "replace"} => c.w.id \in Filed
      /\ c.pc \in {"update", "write"} /\ c.w.then = "understood" => c.w.id \in closed

WorkInv(s) ==
    /\ RepoInv(s) /\ UpdateInv(s)
    /\ Taking(s) => TakeInv(s)
    /\ Loading(s) => GotInv(s) /\ LoadInv(s)
    /\ Loading(s) /\ sess[s].pc = "read" => ReadInv(s)
    /\ Loading(s) /\ sess[s].w.op = "implement" => CheckedInv(s)

ConvInv(s) == HandInv(s) /\ OverInv(s) /\ WorkInv(s)

\* The records and the checkouts.
WorldInv ==
    /\ DOMAIN sess = Session /\ DOMAIN consent = Session /\ DOMAIN past = Session /\ DOMAIN advice = Session
    /\ DOMAIN study = Ids /\ \A i \in Ids : DOMAIN study[i] = StudyFields
    /\ DOMAIN repo = Repos
    /\ \A r \in Repos : DOMAIN repo[r] = RepoFields /\ DOMAIN repo[r].disk = Files
    /\ \A i \in Ids : /\ study[i].file # "absent" => study[i].pack.repo \in Repos
                      /\ study[i].tb = "understood" \/ study[i].update = "understood" => i \in closed
    /\ closed \subseteq Filed

AdviceInv(s) ==
    \A k \in 1..Len(advice[s]) :
        /\ advice[s][k].id \in closed \cap Fresh(s)
        /\ study[advice[s][k].id].pack = advice[s][k].pack

StudyInv == WorldInv /\ \A s \in Session : ConvInv(s) /\ AdviceInv(s)

-----------------------------------------------------------------------------
(* What a step leaves to a session.                                        *)

\* Records keep their packs, what was understood or permitted stays so.
Grows(t) ==
    /\ \A i \in Ids : study[i].file # "absent" => study'[i].file # "absent" /\ study'[i].pack = study[i].pack
    /\ closed \subseteq closed' /\ consent[t] \subseteq consent'[t]

\* What was read since the turn of t began stays read.
Recalls(t) ==
    \A r \in Repos :
        /\ \A f \in Files : \A v : Was(t, r, f, v) => Was(t, r, f, v)'
        /\ \A v : HeadWas(t, r, v) => HeadWas(t, r, v)'

LEMMA ListFacts ==
    ASSUME NEW q, IsList(q)
    PROVE  Len(q) \in Nat /\ DOMAIN q = 1..Len(q) /\ (q # <<>> => Len(q) \in 1..Len(q))
<1>1. q # <<>> => Len(q) # 0
  BY DEF IsList
<1> QED BY <1>1 DEF IsList

LEMMA EmptyList == IsList(<<>>) /\ Len(<<>>) = 0
  BY DEF IsList

Added(q, e) == Append(q, e)

LEMMA AddedFacts ==
    ASSUME NEW q, IsList(q), NEW e, NEW a, a = Added(q, e)
    PROVE  /\ IsList(a) /\ Len(a) = Len(q) + 1 /\ a # <<>> /\ a[Len(a)] = e
           /\ \A j \in 1..Len(a) : (j \in 1..Len(q) /\ a[j] = q[j]) \/ j = Len(a)
<1>1. Len(a) = Len(q) + 1 /\ DOMAIN a = 1..Len(a)
  BY DEF IsList, Added
<1>2. a[Len(q) + 1] = e /\ \A j \in 1..Len(q) : a[j] = q[j]
  BY DEF IsList, Added
<1> QED BY <1>1, <1>2 DEF IsList

LEMMA HeldGrows ==
    ASSUME NEW t \in Session, Grows(t)
    PROVE  Filed \subseteq Filed' /\ Allowed(t) \subseteq Allowed(t)' /\ Held(t) \subseteq Held(t)'
<1>1. Filed \subseteq Filed' /\ \A i \in Filed : study'[i].pack = study[i].pack
  BY DEF Filed, Grows
<1>2. Allowed(t) \subseteq Allowed(t)'
  BY DEF Allowed, Grows
<1> QED BY <1>1, <1>2 DEF Held

LEMMA FreshGrows ==
    ASSUME NEW t \in Session, Grows(t), Recalls(t)
    PROVE  Fresh(t) \subseteq Fresh(t)'
<1> SUFFICES ASSUME NEW i \in Fresh(t) PROVE i \in Fresh(t)'
  OBVIOUS
<1>1. PICK p : p = study[i].pack
  OBVIOUS
<1>2. i \in Filed' /\ study'[i].pack = p
  BY <1>1, HeldGrows DEF Fresh, Filed, Grows
<1>3. p.repo \in Repos /\ WasSeen(t, p.repo, p.scanned) /\ HeadWas(t, p.repo, p.head)
  BY <1>1 DEF Fresh
<1>4. WasSeen(t, p.repo, p.scanned)' /\ HeadWas(t, p.repo, p.head)'
  BY <1>3 DEF Recalls, WasSeen
<1> QED BY <1>2, <1>3, <1>4 DEF Fresh, WasSeen, HeadWas, Was

\* A session that does nothing keeps what it has.
LEMMA OtherConv ==
    ASSUME NEW t \in Session, Grows(t), Recalls(t), sess'[t] = sess[t], ConvInv(t)
    PROVE  ConvInv(t)'
<1>1. Filed \subseteq Filed' /\ Allowed(t) \subseteq Allowed(t)' /\ Held(t) \subseteq Held(t)'
  BY HeldGrows
<1>2. Fresh(t) \subseteq Fresh(t)' /\ closed \subseteq closed'
  BY FreshGrows DEF Grows
<1>3. \A i \in Held(t) : study'[i].pack = study[i].pack
  BY DEF Held, Filed, Grows
<1>4. HandInv(t)' /\ OverInv(t)'
  BY <1>1, <1>2 DEF ConvInv, HandInv, OverInv
<1>5. RepoInv(t)' /\ UpdateInv(t)'
  BY <1>1, <1>2 DEF ConvInv, WorkInv, RepoInv, UpdateInv
<1>6. Taking(t)' = Taking(t) /\ Loading(t)' = Loading(t) /\ Wanted(t)' = Wanted(t)
  BY DEF Taking, Loading, Wanted
<1>7. TakeInv(t) => TakeInv(t)'
  BY <1>1 DEF TakeInv, Grows, Filed
<1>8. GotInv(t) => GotInv(t)'
  BY <1>1, <1>2, <1>3 DEF GotInv
<1>9. LoadInv(t) => LoadInv(t)'
  BY <1>1, <1>6 DEF LoadInv
<1>10. CheckedInv(t) => CheckedInv(t)'
  BY Zenon, <1>2 DEF CheckedInv
<1>11. GotInv(t) /\ ReadInv(t) => ReadInv(t)'
  <2> SUFFICES ASSUME GotInv(t), ReadInv(t) PROVE ReadInv(t)'
    OBVIOUS
  <2>1. PICK r, seen : r = sess[t].w.repo /\ seen = sess[t].w.seen
    OBVIOUS
  <2>0. Len(sess[t].w.got) \in 1..Len(sess[t].w.got)
    BY Zenon, ListFacts DEF GotInv, ReadInv
  <2>2. r \in Repos /\ WasSeen(t, r, seen)
    BY Zenon, <2>0, <2>1 DEF GotInv, ReadInv, Allowed, Held
  <2>3. WasSeen(t, r, seen)'
    BY <2>2 DEF WasSeen, Recalls
  <2> QED BY Zenon, <1>6, <2>1, <2>3 DEF ReadInv, WasSeen, Was
<1> QED BY <1>4, <1>5, <1>6, <1>7, <1>8, <1>9, <1>10, <1>11 DEF ConvInv, WorkInv

LEMMA OtherAdvice ==
    ASSUME NEW t \in Session, Grows(t), Recalls(t), advice'[t] = advice[t], AdviceInv(t)
    PROVE  AdviceInv(t)'
<1>1. Fresh(t) \subseteq Fresh(t)' /\ closed \subseteq closed'
  BY FreshGrows DEF Grows
<1>2. \A i \in Fresh(t) : study'[i].pack = study[i].pack
  BY DEF Fresh, Filed, Grows
<1> QED BY <1>1, <1>2 DEF AdviceInv

-----------------------------------------------------------------------------
(* Turns.                                                                  *)

\* Everyone but s is where it was.
Others(s) ==
    /\ DOMAIN sess' = Session /\ DOMAIN consent' = Session /\ DOMAIN advice' = Session /\ DOMAIN past' = Session
    /\ \A t \in Session \ {s} :
          /\ sess'[t] = sess[t] /\ consent'[t] = consent[t] /\ advice'[t] = advice[t] /\ past'[t] = past[t]

LEMMA EmptyReport == NoReport.over \in Seq(Ids) /\ \A k : k \notin 1..Len(NoReport.over)
<1>1. NoReport.over = <<>>
  BY DEF NoReport
<1>2. <<>> \in Seq(Ids) /\ Len(<<>>) = 0
  OBVIOUS
<1>3. \A k : k \notin 1..0
  OBVIOUS
<1> QED BY <1>1, <1>2, <1>3

\* A step that leaves the checkouts alone leaves the other sessions theirs.
LEMMA OthersKeep ==
    ASSUME StudyInv, NEW s \in Session, Others(s), repo' = repo, NEW t \in Session \ {s}, Grows(t)
    PROVE  ConvInv(t)' /\ AdviceInv(t)'
<1>1. Recalls(t)
  BY DEF Recalls, Others, Was, HeadWas
<1> QED BY <1>1, OtherConv, OtherAdvice DEF StudyInv, Others

\* The request of a turn stays, is dropped, or is the one displayed last.
Asks(s, o) ==
    \/ o.shown = sess[s].shown /\ (o.pending = NoPending \/ (o.pending = sess[s].pending /\ o.cmd = sess[s].cmd))
    \/ /\ o.pending.repo \in Repos /\ o.pending.id \in {0} \cup Ids
       /\ o.shown = Append(sess[s].shown, o.pending.repo) /\ o.cmd = Len(sess[s].shown) + 1

\* How a turn begins to work: not at all, by acquiring a checkout, or by loading studies.
Begins(s, o) ==
    \/ o.pc = "prompt" /\ o.w = sess[s].w
    \/ /\ o.pc = "enumerate" /\ o.w.op = "activate" /\ o.w.got = <<>> /\ o.w.loads = <<>>
       /\ o.w.repo \in Allowed(s)'
    \/ /\ o.pc = "load" /\ o.w.op \in Ops /\ o.w.got = <<>> /\ o.w.repo = None
       /\ o.w.loads \in Seq(Ids) /\ o.w.loads # <<>>
       /\ \A j \in 1..Len(o.w.loads) : o.w.loads[j] \in Held(s)'
       /\ o.w.op = "compare" => Len(o.w.loads) = 2
       /\ o.w.op = "implement" => o.w.loads = o.report.over
       /\ o.w.op \notin {"compare", "implement"} => Len(o.w.loads) = 1

LEMMA BeginsWork ==
    ASSUME NEW s \in Session, NEW o, sess'[s] = o, o.pc # "prompt", Begins(s, o)
    PROVE  WorkInv(s)'
<1>1. CASE /\ o.pc = "enumerate" /\ o.w.op = "activate" /\ o.w.got = <<>> /\ o.w.loads = <<>>
           /\ o.w.repo \in Allowed(s)'
  <2>1. o.w.repo # None
    BY <1>1, RepositoryAssumption DEF Allowed, Repos
  <2> QED BY <1>1, <2>1 DEF WorkInv, RepoInv, UpdateInv, Taking, Loading, TakeInv
<1>2. CASE /\ o.pc = "load" /\ o.w.op \in Ops /\ o.w.got = <<>> /\ o.w.repo = None
           /\ o.w.loads \in Seq(Ids) /\ o.w.loads # <<>>
           /\ \A j \in 1..Len(o.w.loads) : o.w.loads[j] \in Held(s)'
           /\ o.w.op = "compare" => Len(o.w.loads) = 2
           /\ o.w.op = "implement" => o.w.loads = o.report.over
           /\ o.w.op \notin {"compare", "implement"} => Len(o.w.loads) = 1
  <2>0. Len(o.w.loads) \in Nat /\ Len(o.w.got) = 0 /\ IsList(o.w.got)
    BY <1>2, EmptyList
  <2>1. Wanted(s)' = Len(o.w.loads)
    BY <1>2 DEF Wanted
  <2>2. RepoInv(s)' /\ UpdateInv(s)' /\ ~Taking(s)'
    BY <1>2 DEF RepoInv, UpdateInv, Taking
  <2>3. GotInv(s)'
    BY <2>0 DEF GotInv
  <2>4. LoadInv(s)'
    BY <1>2, <2>0, <2>1 DEF LoadInv
  <2>5. o.w.op = "implement" => CheckedInv(s)'
    <3>1. \A j \in 1..Len(o.w.loads) : Len(o.w.loads) - Len(o.w.loads) + j = j
      BY <2>0
    <3>2. Len(o.w.loads) <= Len(o.w.loads) /\ 1..(Len(o.w.loads) - Len(o.w.loads)) = {}
      BY <2>0
    <3> QED BY <1>2, <3>1, <3>2 DEF CheckedInv
  <2> QED BY <1>2, <2>2, <2>3, <2>4, <2>5 DEF WorkInv
<1> QED BY <1>1, <1>2 DEF Begins

LEMMA TurnKeeps ==
    ASSUME StudyInv, NEW s \in Session, Turn(s), UNCHANGED <<study, closed>>, Others(s),
           consent[s] \subseteq consent'[s],
           NEW o, sess'[s] = o, DOMAIN o = ConvFields, DOMAIN o.w = WorkFields,
           o.known = sess[s].known, o.target = sess[s].target, o.active \in {sess[s].active, 0},
           o.report \in {sess[s].report, NoReport}, Asks(s, o), Begins(s, o)
    PROVE  StudyInv'
<1>0. WorldInv /\ ConvInv(s) /\ repo' = repo /\ advice'[s] = <<>>
  BY DEF StudyInv, Turn, WorldInv
<1>1. \A t \in Session : Grows(t)
  BY <1>0 DEF Grows, Others
<1>2. Filed \subseteq Filed' /\ Allowed(s) \subseteq Allowed(s)' /\ Held(s) \subseteq Held(s)'
  BY <1>1, HeldGrows
<1>3. WorldInv'
  BY <1>0 DEF WorldInv, Others, Filed
<1>4. AdviceInv(s)'
  BY <1>0 DEF AdviceInv
<1>5. HandInv(s)'
  <2>1. o.shown \in Seq(Repos) /\ (o.pending # NoPending =>
            /\ o.cmd \in 1..Len(o.shown) /\ o.pending.repo = o.shown[o.cmd]
            /\ o.pending.id \in {0} \cup Ids)
    <3>1. CASE o.shown = sess[s].shown /\ (o.pending = NoPending \/ (o.pending = sess[s].pending /\ o.cmd = sess[s].cmd))
      BY <1>0, <3>1 DEF ConvInv, HandInv
    <3>2. CASE /\ o.pending.repo \in Repos /\ o.pending.id \in {0} \cup Ids
               /\ o.shown = Append(sess[s].shown, o.pending.repo) /\ o.cmd = Len(sess[s].shown) + 1
      <4>1. sess[s].shown \in Seq(Repos)
        BY <1>0 DEF ConvInv, HandInv
      <4> QED BY <3>2, <4>1
    <3> QED BY <3>1, <3>2 DEF Asks
  <2> QED BY <1>0, <1>2, <2>1 DEF ConvInv, HandInv
<1>6. OverInv(s)'
  <2>2. CASE o.report = NoReport
    BY <2>2, EmptyReport DEF OverInv
  <2>3. CASE o.report = sess[s].report
    BY <1>0, <1>2, <2>3 DEF ConvInv, OverInv
  <2> QED BY <2>2, <2>3
<1>7. WorkInv(s)'
  <2>1. CASE o.pc = "prompt" /\ o.w = sess[s].w
    BY <1>0, <1>2, <2>1 DEF ConvInv, WorkInv, RepoInv, UpdateInv, Taking, Loading
  <2>2. CASE o.pc # "prompt"
    BY <2>2, BeginsWork
  <2> QED BY <2>1, <2>2 DEF Begins
<1>8. \A t \in Session \ {s} : ConvInv(t)' /\ AdviceInv(t)'
  BY <1>0, <1>1, OthersKeep
<1> QED BY <1>3, <1>4, <1>5, <1>6, <1>7, <1>8 DEF StudyInv, ConvInv

\* A turn of s takes nothing from the other sessions.
LEMMA TurnFacts ==
    ASSUME StudyInv, NEW s \in Session, Turn(s), NEW o, sess' = [sess EXCEPT ![s] = o],
           consent' = consent \/ \E r : consent' = [consent EXCEPT ![s] = @ \cup {r}]
    PROVE  Others(s) /\ sess'[s] = o /\ consent[s] \subseteq consent'[s]
  BY DEF StudyInv, WorldInv, Turn, Others
\* The conversation o keeps what c has at hand.
Carries(c, o) ==
    /\ DOMAIN o = ConvFields /\ DOMAIN o.w = WorkFields
    /\ o.known = c.known /\ o.active = c.active /\ o.target = c.target /\ o.report = c.report
    /\ o.pending = c.pending /\ o.cmd = c.cmd /\ o.shown = c.shown

Loads(o, op, loads) ==
    /\ o.pc = "load" /\ o.w.op = op /\ o.w.loads = loads /\ o.w.got = <<>> /\ o.w.repo = None

LEMMA WorkingFacts ==
    ASSUME NEW c, DOMAIN c = ConvFields, NEW op, NEW loads, NEW o, o = Working(c, op, loads)
    PROVE  Carries(c, o) /\ Loads(o, op, loads)
<1>1. /\ DOMAIN o = ConvFields /\ o.w = [Idle EXCEPT !.op = op, !.loads = loads] /\ o.pc = "load"
      /\ o.known = c.known /\ o.active = c.active /\ o.target = c.target /\ o.report = c.report
      /\ o.pending = c.pending /\ o.cmd = c.cmd /\ o.shown = c.shown
  BY DEF Working, ConvFields
<1>2. PICK w : w = [Idle EXCEPT !.op = op, !.loads = loads]
  OBVIOUS
<1>3. DOMAIN w = WorkFields /\ w.op = op /\ w.loads = loads /\ w.got = <<>> /\ w.repo = None
  BY <1>2 DEF Idle, WorkFields
<1> QED BY <1>1, <1>2, <1>3 DEF Carries, Loads

LEMMA OpenedFacts ==
    ASSUME NEW c, DOMAIN c = ConvFields, DOMAIN c.w = WorkFields, NEW r, NEW id, NEW o, o = Opened(c, r, id)
    PROVE  /\ Carries(c, o)
           /\ \/ o = c
              \/ /\ o.pc = "enumerate" /\ o.w.op = "activate" /\ o.w.repo = r
                 /\ o.w.got = <<>> /\ o.w.loads = <<>>
              \/ id # 0 /\ study[id].file = "ok" /\ study[id].pack.repo = r /\ Loads(o, "activate", <<id>>)
<1>1. CASE id = 0
  <2>1. PICK w : w = [Idle EXCEPT !.op = "activate", !.repo = r]
    OBVIOUS
  <2>2. o = [c EXCEPT !.pc = "enumerate", !.w = w]
    BY <1>1, <2>1 DEF Opened
  <2>3. DOMAIN w = WorkFields /\ w.op = "activate" /\ w.loads = <<>> /\ w.got = <<>> /\ w.repo = r
    BY <2>1 DEF Idle, WorkFields
  <2>4. /\ DOMAIN o = ConvFields /\ o.w = w /\ o.pc = "enumerate"
        /\ o.known = c.known /\ o.active = c.active /\ o.target = c.target /\ o.report = c.report
        /\ o.pending = c.pending /\ o.cmd = c.cmd /\ o.shown = c.shown
    BY <2>2 DEF ConvFields
  <2> QED BY <2>3, <2>4 DEF Carries
<1>2. CASE id # 0 /\ study[id].file = "ok" /\ study[id].pack.repo = r
  <2>1. o = Working(c, "activate", <<id>>)
    BY <1>2 DEF Opened
  <2> QED BY <1>2, <2>1, WorkingFacts
<1>3. CASE id # 0 /\ ~(study[id].file = "ok" /\ study[id].pack.repo = r)
  BY <1>3 DEF Opened, Carries
<1> QED BY <1>1, <1>2, <1>3

LEMMA UnaskedFacts ==
    ASSUME NEW c, DOMAIN c = ConvFields, NEW u, u = Unasked(c)
    PROVE  /\ DOMAIN u = ConvFields /\ u.w = c.w /\ u.pc = c.pc /\ u.known = c.known /\ u.active = c.active
           /\ u.target = c.target /\ u.report = c.report /\ u.pending = NoPending /\ u.shown = c.shown
  BY DEF Unasked, ConvFields

\* A single study to load.
LEMMA LoadsOne ==
    ASSUME NEW s \in Session, NEW i \in Held(s)', NEW o, NEW op \in Ops \ {"compare", "implement"},
           Loads(o, op, <<i>>)
    PROVE  Begins(s, o)
<1>1. i \in Ids
  BY DEF Held, Filed
<1>2. PICK q : q = <<i>>
  OBVIOUS
<1>3. q \in Seq(Ids) /\ q # <<>> /\ Len(q) = 1 /\ \A j \in 1..Len(q) : q[j] = i
  BY <1>1, <1>2
<1> QED BY <1>2, <1>3 DEF Begins, Loads

\* Records stay as they were while a human speaks.
LEMMA HeldThen ==
    ASSUME NEW s \in Session, study' = study, consent[s] \subseteq consent'[s]
    PROVE  Held(s) \subseteq Held(s)' /\ Allowed(s) \subseteq Allowed(s)'
  BY DEF Held, Filed, Allowed

\* What a turn needs to know of its session.
LEMMA SessionFacts ==
    ASSUME StudyInv, NEW s \in Session
    PROVE  /\ DOMAIN sess = Session /\ DOMAIN consent = Session
           /\ DOMAIN sess[s] = ConvFields /\ DOMAIN sess[s].w = WorkFields
           /\ sess[s].known \subseteq Held(s)
           /\ sess[s].active \in sess[s].known \cup {0} /\ sess[s].target \in sess[s].known \cup {0}
  BY DEF StudyInv, WorldInv, ConvInv, HandInv

\* A turn that changes nothing.
LEMMA StillKeeps ==
    ASSUME StudyInv, NEW s \in Session, Turn(s), UNCHANGED <<consent, study, closed>>,
           sess' = sess \/ sess' = [sess EXCEPT ![s] = sess[s]]
    PROVE  StudyInv'
<1>1. PICK o : o = sess[s]
  OBVIOUS
<1>2. Others(s) /\ sess'[s] = o /\ consent[s] \subseteq consent'[s]
  BY <1>1 DEF StudyInv, WorldInv, Turn, Others
<1>3. Asks(s, o) /\ Begins(s, o)
  BY <1>1 DEF Asks, Begins, Turn
<1> QED BY <1>1, <1>2, <1>3, TurnKeeps, SessionFacts

\* Opening a checkout that may be read.
LEMMA OpenedBegins ==
    ASSUME NEW s \in Session, study' = study, NEW u, DOMAIN u = ConvFields, DOMAIN u.w = WorkFields,
           u.pc = "prompt", u.w = sess[s].w, NEW r \in Allowed(s)', NEW id \in {0} \cup Ids,
           NEW o, o = Opened(u, r, id)
    PROVE  Carries(u, o) /\ Begins(s, o)
<1>1. /\ Carries(u, o)
      /\ \/ o = u
         \/ /\ o.pc = "enumerate" /\ o.w.op = "activate" /\ o.w.repo = r
            /\ o.w.got = <<>> /\ o.w.loads = <<>>
         \/ id # 0 /\ study[id].file = "ok" /\ study[id].pack.repo = r /\ Loads(o, "activate", <<id>>)
  BY OpenedFacts
<1>2. CASE o = u
  BY <1>1, <1>2 DEF Begins
<1>3. CASE /\ o.pc = "enumerate" /\ o.w.op = "activate" /\ o.w.repo = r
           /\ o.w.got = <<>> /\ o.w.loads = <<>>
  BY <1>1, <1>3 DEF Begins
<1>4. CASE id # 0 /\ study[id].file = "ok" /\ study[id].pack.repo = r /\ Loads(o, "activate", <<id>>)
  <2>1. id \in Held(s)'
    BY <1>4 DEF Held, Filed
  <2> QED BY <1>1, <1>4, <2>1, LoadsOne DEF Ops
<1> QED BY <1>1, <1>2, <1>3, <1>4

LEMMA CancelKeeps == ASSUME StudyInv, NEW s \in Session, Cancel(s) PROVE StudyInv'
<1>1. PICK o : o = Unasked(sess[s])
  OBVIOUS
<1>2. Turn(s) /\ sess' = [sess EXCEPT ![s] = o] /\ UNCHANGED <<study, consent, closed>> /\ sess[s].pc = "prompt"
  BY <1>1 DEF Cancel, Set, Turn
<1>3. Others(s) /\ sess'[s] = o /\ consent[s] \subseteq consent'[s]
  BY <1>2, TurnFacts
<1>4. /\ DOMAIN o = ConvFields /\ o.w = sess[s].w /\ o.pc = "prompt" /\ o.known = sess[s].known
      /\ o.active = sess[s].active /\ o.target = sess[s].target /\ o.report = sess[s].report
      /\ o.pending = NoPending /\ o.shown = sess[s].shown /\ DOMAIN o.w = WorkFields
  BY <1>1, <1>2, SessionFacts, UnaskedFacts
<1>5. Asks(s, o) /\ Begins(s, o)
  BY <1>4 DEF Asks, Begins
<1> QED BY <1>2, <1>3, <1>4, <1>5, TurnKeeps

LEMMA LeaveKeeps == ASSUME StudyInv, NEW s \in Session, Leave(s) PROVE StudyInv'
<1>1. PICK u, o : u = Unasked(sess[s]) /\ o = [u EXCEPT !.active = 0, !.report = NoReport]
  BY Zenon
<1>2. Turn(s) /\ sess' = [sess EXCEPT ![s] = o] /\ UNCHANGED <<study, consent, closed>> /\ sess[s].pc = "prompt"
  BY <1>1 DEF Leave, Set, Turn
<1>3. Others(s) /\ sess'[s] = o /\ consent[s] \subseteq consent'[s]
  BY <1>2, TurnFacts
<1>4. /\ DOMAIN u = ConvFields /\ u.w = sess[s].w /\ u.pc = "prompt" /\ u.known = sess[s].known
      /\ u.target = sess[s].target /\ u.pending = NoPending /\ u.shown = sess[s].shown
      /\ DOMAIN u.w = WorkFields
  BY <1>1, <1>2, SessionFacts, UnaskedFacts
<1>5. /\ DOMAIN o = ConvFields /\ o.w = sess[s].w /\ o.pc = "prompt" /\ o.known = sess[s].known
      /\ o.active = 0 /\ o.target = sess[s].target /\ o.report = NoReport
      /\ o.pending = NoPending /\ o.shown = sess[s].shown /\ DOMAIN o.w = WorkFields
  BY <1>1, <1>4 DEF ConvFields
<1>6. Asks(s, o) /\ Begins(s, o)
  BY <1>5 DEF Asks, Begins
<1> QED BY <1>2, <1>3, <1>5, <1>6, TurnKeeps

LEMMA EnterKeeps == ASSUME StudyInv, NEW s \in Session, NEW k, EnterCommand(s, k) PROVE StudyInv'
<1>1. Turn(s) /\ UNCHANGED <<study, closed>> /\ sess[s].pc = "prompt"
  BY DEF EnterCommand, Turn
<1>2. CASE k = sess[s].cmd /\ sess[s].pending # NoPending
  <2>1. PICK u, r, id, o : /\ u = Unasked(sess[s]) /\ r = sess[s].pending.repo /\ id = sess[s].pending.id
                           /\ o = Opened(u, r, id)
    OBVIOUS
  <2>2. /\ sess' = [sess EXCEPT ![s] = o]
        /\ consent' = [consent EXCEPT ![s] = @ \cup {sess[s].shown[k]}]
    BY <1>2, <2>1 DEF EnterCommand, Set
  <2>3. Others(s) /\ sess'[s] = o /\ consent[s] \subseteq consent'[s]
    BY <1>1, <2>2, TurnFacts
  <2>4. sess[s].shown \in Seq(Repos) /\ k \in 1..Len(sess[s].shown) /\ r = sess[s].shown[k] /\ id \in {0} \cup Ids
    BY <1>2, <2>1 DEF StudyInv, ConvInv, HandInv
  <2>5. r \in Repos /\ r \in consent'[s]
    BY <2>2, <2>4, SessionFacts
  <2>6. r \in Allowed(s)'
    BY <2>5 DEF Allowed
  <2>7. /\ DOMAIN u = ConvFields /\ u.w = sess[s].w /\ u.pc = "prompt" /\ u.known = sess[s].known
        /\ u.target = sess[s].target /\ u.pending = NoPending /\ u.shown = sess[s].shown
        /\ DOMAIN u.w = WorkFields /\ u.active = sess[s].active /\ u.report = sess[s].report
    BY <1>1, <2>1, SessionFacts, UnaskedFacts
  <2>8. Carries(u, o) /\ Begins(s, o)
    BY <1>1, <2>1, <2>4, <2>6, <2>7, OpenedBegins
  <2>9. Asks(s, o)
    BY <2>7, <2>8 DEF Asks, Carries
  <2> QED BY <1>1, <2>3, <2>7, <2>8, <2>9, TurnKeeps DEF Carries
<1>3. CASE UNCHANGED <<sess, consent>>
  BY <1>1, <1>3, StillKeeps
<1> QED BY <1>2, <1>3 DEF EnterCommand
\* A turn that drops the request and opens a checkout.
LEMMA OpenKeeps ==
    ASSUME StudyInv, NEW s \in Session, Turn(s), UNCHANGED <<study, consent, closed>>,
           NEW r \in Allowed(s), NEW id \in {0} \cup Ids, NEW o, sess' = [sess EXCEPT ![s] = o],
           \/ o = Opened(Unasked(sess[s]), r, id)
           \/ o = [Opened(Unasked(sess[s]), r, id) EXCEPT !.w.then = "question"] /\ id = 0
    PROVE  StudyInv'
<1>1. PICK u, p : u = Unasked(sess[s]) /\ p = Opened(u, r, id)
  OBVIOUS
<1>2. Others(s) /\ sess'[s] = o /\ consent[s] \subseteq consent'[s] /\ sess[s].pc = "prompt"
  BY TurnFacts DEF Turn
<1>3. /\ DOMAIN u = ConvFields /\ u.w = sess[s].w /\ u.pc = "prompt" /\ u.known = sess[s].known
      /\ u.target = sess[s].target /\ u.pending = NoPending /\ u.shown = sess[s].shown
      /\ DOMAIN u.w = WorkFields /\ u.active = sess[s].active /\ u.report = sess[s].report
  BY <1>1, <1>2, SessionFacts, UnaskedFacts
<1>4. r \in Allowed(s)'
  BY HeldThen
<1>5. Carries(u, p) /\ Begins(s, p)
  BY <1>1, <1>3, <1>4, OpenedBegins
<1>6. Carries(u, o) /\ Begins(s, o)
  <2>1. CASE o = p
    BY <1>5, <2>1
  <2>2. CASE o = [p EXCEPT !.w.then = "question"] /\ id = 0
    <3>1. /\ p.pc = "enumerate" /\ p.w.op = "activate" /\ p.w.repo = r
          /\ p.w.got = <<>> /\ p.w.loads = <<>> /\ DOMAIN p = ConvFields /\ DOMAIN p.w = WorkFields
      <4>1. p = [u EXCEPT !.pc = "enumerate", !.w = [Idle EXCEPT !.op = "activate", !.repo = r]]
        BY <1>1, <2>2 DEF Opened
      <4>2. p.pc = "enumerate" /\ p.w = [Idle EXCEPT !.op = "activate", !.repo = r]
        BY <1>3, <4>1 DEF ConvFields
      <4> QED BY <1>5, <4>2 DEF Carries, Idle
    <3>2. /\ DOMAIN o = ConvFields /\ o.pc = p.pc /\ o.known = p.known /\ o.active = p.active
          /\ o.target = p.target /\ o.report = p.report /\ o.pending = p.pending /\ o.cmd = p.cmd
          /\ o.shown = p.shown /\ o.w = [p.w EXCEPT !.then = "question"]
      BY <2>2, <3>1 DEF ConvFields
    <3>3. /\ DOMAIN o.w = WorkFields /\ o.w.op = p.w.op /\ o.w.repo = p.w.repo
          /\ o.w.got = p.w.got /\ o.w.loads = p.w.loads
      BY <3>1, <3>2 DEF WorkFields
    <3>4. Carries(u, o)
      BY <1>5, <3>2, <3>3 DEF Carries
    <3>5. Begins(s, o)
      BY <1>4, <3>1, <3>2, <3>3 DEF Begins
    <3> QED BY <3>4, <3>5
  <2> QED BY <1>1, <2>1, <2>2
<1>7. Asks(s, o)
  BY <1>3, <1>6 DEF Asks, Carries
<1> QED BY <1>2, <1>3, <1>6, <1>7, TurnKeeps DEF Carries

\* A turn that loads one study at hand.
LEMMA LoadOneKeeps ==
    ASSUME StudyInv, NEW s \in Session, Turn(s), UNCHANGED <<study, consent, closed>>,
           NEW u, NEW o, sess' = [sess EXCEPT ![s] = o],
           NEW i \in Held(s), NEW op \in Ops \ {"compare", "implement"},
           Carries(u, o), Loads(o, op, <<i>>),
           u.known = sess[s].known, u.active = sess[s].active, u.target = sess[s].target,
           u.report \in {sess[s].report, NoReport}, u.shown = sess[s].shown,
           u.pending = NoPending \/ (u.pending = sess[s].pending /\ u.cmd = sess[s].cmd)
    PROVE  StudyInv'
<1>1. Others(s) /\ sess'[s] = o /\ consent[s] \subseteq consent'[s]
  BY TurnFacts
<1>2. i \in Held(s)'
  BY HeldThen
<1>3. Begins(s, o)
  BY <1>2, LoadsOne
<1>4. Asks(s, o)
  BY DEF Asks, Carries
<1> QED BY <1>1, <1>3, <1>4, TurnKeeps DEF Carries

LEMMA RequestKeeps ==
    ASSUME StudyInv, NEW s \in Session, NEW r \in Repos, NEW id \in {0} \cup Ids, RequestStudy(s, r, id)
    PROVE  StudyInv'
<1>1. PICK u : u = Unasked(sess[s])
  OBVIOUS
<1>2. Turn(s) /\ UNCHANGED <<study, consent, closed>> /\ sess[s].pc = "prompt"
  BY DEF RequestStudy, Turn
<1>3. /\ DOMAIN u = ConvFields /\ u.w = sess[s].w /\ u.pc = "prompt" /\ u.known = sess[s].known
      /\ u.target = sess[s].target /\ u.pending = NoPending /\ u.shown = sess[s].shown
      /\ DOMAIN u.w = WorkFields /\ u.active = sess[s].active /\ u.report = sess[s].report
  BY <1>1, <1>2, SessionFacts, UnaskedFacts
<1>4. CASE r \in PrivateRoot
  <2>1. sess' = [sess EXCEPT ![s] = sess[s]]
    BY <1>4, RepositoryAssumption DEF RequestStudy, Set
  <2> QED BY <1>2, <2>1, StillKeeps
<1>5. CASE r = Here
  <2>1. sess' = [sess EXCEPT ![s] = Opened(Unasked(sess[s]), r, id)]
    BY <1>5, RepositoryAssumption DEF RequestStudy, Set
  <2>2. r \in Allowed(s)
    BY <1>5, RepositoryAssumption DEF Allowed
  <2> QED BY <1>2, <2>1, <2>2, OpenKeeps
<1>6. CASE r \in External \ PrivateRoot /\ id \in u.known /\ study[id].pack.repo = r
  <2>1. PICK o : o = Working(u, "activate", <<id>>)
    OBVIOUS
  <2>2. sess' = [sess EXCEPT ![s] = o]
    BY <1>1, <1>6, <2>1, RepositoryAssumption DEF RequestStudy, Set
  <2>3. Carries(u, o) /\ Loads(o, "activate", <<id>>)
    BY <1>3, <2>1, WorkingFacts
  <2>4. id \in Held(s)
    BY <1>3, <1>6, SessionFacts
  <2> QED BY <1>2, <1>3, <2>2, <2>3, <2>4, LoadOneKeeps DEF Ops
<1>7. CASE r \in External \ PrivateRoot /\ ~(id \in u.known /\ study[id].pack.repo = r)
  <2>1. PICK o : o = [u EXCEPT !.pending = [repo |-> r, id |-> id],
                               !.cmd = Len(u.shown) + 1, !.shown = Append(@, r)]
    OBVIOUS
  <2>2. sess' = [sess EXCEPT ![s] = o]
    BY <1>1, <1>7, <2>1, RepositoryAssumption DEF RequestStudy, Set
  <2>3. Others(s) /\ sess'[s] = o /\ consent[s] \subseteq consent'[s]
    BY <1>2, <2>2, TurnFacts
  <2>4. /\ DOMAIN o = ConvFields /\ o.w = sess[s].w /\ o.pc = "prompt" /\ o.known = sess[s].known
        /\ o.target = sess[s].target /\ o.active = sess[s].active /\ o.report = sess[s].report
        /\ o.pending = [repo |-> r, id |-> id] /\ o.cmd = Len(sess[s].shown) + 1
        /\ o.shown = Append(sess[s].shown, r) /\ DOMAIN o.w = WorkFields
    BY <1>3, <2>1 DEF ConvFields
  <2>5. Asks(s, o) /\ Begins(s, o)
    BY <2>4 DEF Asks, Begins
  <2> QED BY <1>2, <2>3, <2>4, <2>5, TurnKeeps
<1> QED BY <1>4, <1>5, <1>6, <1>7 DEF Repos
\* A change of the word a loading turn goes on with.
LEMMA ThenFacts ==
    ASSUME NEW u, NEW p, NEW text, NEW o, Carries(u, p), o = [p EXCEPT !.w.then = text],
           NEW op, NEW loads, Loads(p, op, loads)
    PROVE  Carries(u, o) /\ Loads(o, op, loads)
<1>1. /\ DOMAIN o = ConvFields /\ o.pc = p.pc /\ o.known = p.known /\ o.active = p.active
      /\ o.target = p.target /\ o.report = p.report /\ o.pending = p.pending /\ o.cmd = p.cmd
      /\ o.shown = p.shown /\ o.w = [p.w EXCEPT !.then = text]
  BY DEF ConvFields, Carries
<1>2. /\ DOMAIN o.w = WorkFields /\ o.w.op = p.w.op /\ o.w.repo = p.w.repo
      /\ o.w.got = p.w.got /\ o.w.loads = p.w.loads
  BY <1>1 DEF WorkFields, Carries
<1> QED BY <1>1, <1>2 DEF Carries, Loads

LEMMA RespondingKeeps ==
    ASSUME StudyInv, NEW s \in Session, Turn(s), UNCHANGED <<study, consent, closed>>, NEW text,
           sess' = [sess EXCEPT ![s] = Responding(sess[s], text)]
    PROVE  StudyInv'
<1>1. CASE sess[s].active = 0
  <2>1. sess' = [sess EXCEPT ![s] = sess[s]]
    BY <1>1 DEF Responding
  <2> QED BY <2>1, StillKeeps
<1>2. CASE sess[s].active # 0
  <2>1. PICK c, p, o : /\ c = sess[s] /\ p = Working(c, "respond", <<c.active>>)
                       /\ o = [p EXCEPT !.w.then = text]
    OBVIOUS
  <2>2. sess' = [sess EXCEPT ![s] = o]
    BY <1>2, <2>1 DEF Responding
  <2>3. Carries(c, p) /\ Loads(p, "respond", <<c.active>>)
    BY <2>1, WorkingFacts, SessionFacts
  <2>4. Carries(c, o) /\ Loads(o, "respond", <<c.active>>)
    BY <2>1, <2>3, ThenFacts
  <2>5. c.active \in Held(s)
    BY <1>2, <2>1, SessionFacts
  <2> QED BY <2>1, <2>2, <2>4, <2>5, LoadOneKeeps DEF Ops
<1> QED BY <1>1, <1>2

LEMMA UnderstoodKeeps ==
    ASSUME StudyInv, NEW s \in Session, Turn(s), UNCHANGED <<study, consent, closed>>, NEW o,
           o = Understood(sess[s]) \/ o = [Understood(sess[s]) EXCEPT !.w.then = "question"],
           sess' = [sess EXCEPT ![s] = o]
    PROVE  StudyInv'
<1>1. CASE sess[s].target # 0
  <2>1. PICK c, p : c = sess[s] /\ p = Working(c, "activate", <<c.target>>)
    OBVIOUS
  <2>2. o = p \/ o = [p EXCEPT !.w.then = "question"]
    BY <1>1, <2>1 DEF Understood
  <2>3. Carries(c, p) /\ Loads(p, "activate", <<c.target>>)
    BY <2>1, WorkingFacts, SessionFacts
  <2>4. Carries(c, o) /\ Loads(o, "activate", <<c.target>>)
    BY <2>2, <2>3, ThenFacts
  <2>5. c.target \in Held(s)
    BY <1>1, <2>1, SessionFacts
  <2> QED BY <2>1, <2>4, <2>5, LoadOneKeeps DEF Ops
<1>2. CASE sess[s].target = 0
  <2>1. \/ o = Opened(Unasked(sess[s]), Here, 0)
        \/ o = [Opened(Unasked(sess[s]), Here, 0) EXCEPT !.w.then = "question"]
    BY <1>2 DEF Understood
  <2>2. Here \in Allowed(s)
    BY RepositoryAssumption DEF Allowed, Repos
  <2> QED BY <2>1, <2>2, OpenKeeps
<1> QED BY <1>1, <1>2

LEMMA RespondKeeps == ASSUME StudyInv, NEW s \in Session, NEW text, Respond(s, text) PROVE StudyInv'
  BY RespondingKeeps DEF Respond, Set

LEMMA NaturalKeeps == ASSUME StudyInv, NEW s \in Session, NEW F, Natural(s, F) PROVE StudyInv'
<1>1. PICK intent : intent = Intent(F, sess[s].active # 0)
  OBVIOUS
<1>2. Turn(s) /\ UNCHANGED <<study, consent, closed>>
  BY DEF Natural
<1>3. CASE intent = "none" \/ (intent = "acknowledge" /\ sess[s].pending # NoPending)
  <2>1. sess' = sess
    BY <1>1, <1>3 DEF Natural
  <2> QED BY <1>2, <2>1, StillKeeps
<1>4. CASE intent = "study"
  <2>1. sess' = [sess EXCEPT ![s] = Understood(sess[s])]
    BY <1>1, <1>4 DEF Natural, Set
  <2> QED BY <1>2, <2>1, UnderstoodKeeps
<1>5. CASE intent = "evidence" /\ sess[s].active = 0
  <2>1. sess' = [sess EXCEPT ![s] = [Understood(sess[s]) EXCEPT !.w.then = "question"]]
    BY <1>1, <1>5 DEF Natural, Set
  <2> QED BY <1>2, <2>1, UnderstoodKeeps
<1>6. CASE /\ intent # "study" /\ ~(intent = "evidence" /\ sess[s].active = 0)
           /\ ~(intent = "none" \/ (intent = "acknowledge" /\ sess[s].pending # NoPending))
  <2>1. sess' = [sess EXCEPT ![s] = Responding(sess[s], "question")]
    BY <1>1, <1>6 DEF Natural, Set
  <2> QED BY <1>2, <2>1, RespondingKeeps
<1> QED BY <1>3, <1>4, <1>5, <1>6

\* The conversation without its report.
LEMMA Unreported ==
    ASSUME NEW c, DOMAIN c = ConvFields, NEW u, u = [c EXCEPT !.report = NoReport]
    PROVE  /\ DOMAIN u = ConvFields /\ u.w = c.w /\ u.known = c.known /\ u.active = c.active
           /\ u.target = c.target /\ u.report = NoReport /\ u.pending = c.pending /\ u.cmd = c.cmd
           /\ u.shown = c.shown
  BY DEF ConvFields

LEMMA RecommendKeeps == ASSUME StudyInv, NEW s \in Session, Recommend(s) PROVE StudyInv'
<1>1. PICK u, i, o : /\ u = [sess[s] EXCEPT !.report = NoReport] /\ i = sess[s].target
                     /\ o = Working(u, "recommend", <<i>>)
  OBVIOUS
<1>2. Turn(s) /\ UNCHANGED <<study, consent, closed>> /\ sess' = [sess EXCEPT ![s] = o] /\ i # 0
  BY <1>1 DEF Recommend, Set
<1>3. /\ DOMAIN u = ConvFields /\ u.known = sess[s].known /\ u.active = sess[s].active
      /\ u.target = sess[s].target /\ u.report = NoReport /\ u.pending = sess[s].pending
      /\ u.cmd = sess[s].cmd /\ u.shown = sess[s].shown
  BY <1>1, SessionFacts, Unreported
<1>4. Carries(u, o) /\ Loads(o, "recommend", <<i>>)
  BY <1>1, <1>3, WorkingFacts
<1>5. i \in Held(s)
  BY <1>1, <1>2, SessionFacts
<1> QED BY <1>2, <1>3, <1>4, <1>5, LoadOneKeeps DEF Ops

LEMMA CompareKeeps == ASSUME StudyInv, NEW s \in Session, Compare(s) PROVE StudyInv'
<1>1. PICK u, i, j, q, o : /\ u = [sess[s] EXCEPT !.report = NoReport] /\ i = sess[s].active
                           /\ j = sess[s].target /\ q = <<i, j>> /\ o = Working(u, "compare", q)
  OBVIOUS
<1>2. /\ Turn(s) /\ UNCHANGED <<study, consent, closed>> /\ sess' = [sess EXCEPT ![s] = o]
      /\ i # 0 /\ j # 0
  BY <1>1 DEF Compare, Set
<1>3. /\ DOMAIN u = ConvFields /\ u.known = sess[s].known /\ u.active = sess[s].active
      /\ u.target = sess[s].target /\ u.report = NoReport /\ u.pending = sess[s].pending
      /\ u.cmd = sess[s].cmd /\ u.shown = sess[s].shown
  BY <1>1, SessionFacts, Unreported
<1>4. Carries(u, o) /\ Loads(o, "compare", q)
  BY <1>1, <1>3, WorkingFacts
<1>5. {i, j} \subseteq Held(s)' /\ {i, j} \subseteq Ids
  BY <1>1, <1>2, SessionFacts, HeldThen DEF Held, Filed
<1>6. q \in Seq(Ids) /\ q # <<>> /\ Len(q) = 2 /\ \A k \in 1..Len(q) : q[k] \in {i, j}
  BY <1>1, <1>5
<1>7. Others(s) /\ sess'[s] = o /\ consent[s] \subseteq consent'[s]
  BY <1>2, TurnFacts
<1>8. Begins(s, o)
  BY <1>4, <1>5, <1>6 DEF Begins, Loads, Ops
<1>9. Asks(s, o)
  BY <1>3, <1>4 DEF Asks, Carries
<1> QED BY <1>2, <1>3, <1>4, <1>7, <1>8, <1>9, TurnKeeps DEF Carries

LEMMA ImplementKeeps == ASSUME StudyInv, NEW s \in Session, Implement(s) PROVE StudyInv'
<1>1. PICK q, o : q = sess[s].report.over /\ o = Working(sess[s], "implement", q)
  OBVIOUS
<1>2. /\ Turn(s) /\ UNCHANGED <<study, consent, closed>> /\ sess' = [sess EXCEPT ![s] = o]
      /\ sess[s].report # NoReport
  BY <1>1 DEF Implement, Set
<1>3. Carries(sess[s], o) /\ Loads(o, "implement", q)
  BY <1>1, WorkingFacts, SessionFacts
<1>4. q \in Seq(Ids) /\ q # <<>> /\ \A k \in 1..Len(q) : q[k] \in Held(s)
  BY <1>1, <1>2 DEF StudyInv, ConvInv, OverInv
<1>5. Others(s) /\ sess'[s] = o /\ consent[s] \subseteq consent'[s]
  BY <1>2, TurnFacts
<1>6. Begins(s, o)
  <2>1. Held(s) \subseteq Held(s)'
    BY <1>2, <1>5, HeldThen
  <2> QED BY <1>1, <1>3, <1>4, <2>1 DEF Begins, Loads, Carries, Ops
<1>7. Asks(s, o)
  BY <1>3 DEF Asks, Carries
<1> QED BY <1>2, <1>3, <1>5, <1>6, <1>7, TurnKeeps DEF Carries
-----------------------------------------------------------------------------
(* Steps of the code.                                                      *)

\* Records are created once and keep their packs.
Recorded == \A i \in Ids : study[i].file # "absent" => study'[i].file # "absent" /\ study'[i].pack = study[i].pack

LEMMA StepKeeps ==
    ASSUME StudyInv, NEW s \in Session, repo' = repo, UNCHANGED <<consent, past>>, Recorded, closed \subseteq closed',
           WorldInv', HandInv(s)', OverInv(s)', WorkInv(s)', NEW o, sess' = [sess EXCEPT ![s] = o],
           NEW a, advice' = advice \/ advice' = [advice EXCEPT ![s] = a], AdviceInv(s)'
    PROVE  StudyInv'
<1>1. Others(s)
  BY DEF StudyInv, WorldInv, Others
<1>2. \A t \in Session : Grows(t)
  BY DEF Grows, Recorded
<1>3. \A t \in Session \ {s} : ConvInv(t)' /\ AdviceInv(t)'
  BY <1>1, <1>2, OthersKeep
<1> QED BY <1>3 DEF StudyInv, ConvInv

\* A session that goes on with its turn keeps what it has at hand.
LEMMA CarryFacts ==
    ASSUME StudyInv, NEW s \in Session, Grows(s), NEW o, sess'[s] = o, Carries(sess[s], o)
    PROVE  HandInv(s)' /\ OverInv(s)'
<1>1. ConvInv(s) /\ Held(s) \subseteq Held(s)' /\ closed \subseteq closed'
  BY HeldGrows DEF StudyInv, Grows
<1>2. HandInv(s)'
  BY <1>1 DEF ConvInv, HandInv, Carries
<1>3. OverInv(s)'
  BY <1>1 DEF ConvInv, OverInv, Carries
<1> QED BY <1>2, <1>3

LEMMA CarryStep ==
    ASSUME StudyInv, NEW s \in Session, repo' = repo, UNCHANGED <<consent, past, advice>>, Recorded,
           closed \subseteq closed', WorldInv', NEW o, sess' = [sess EXCEPT ![s] = o],
           Carries(sess[s], o), WorkInv(s)'
    PROVE  StudyInv'
<1>1. Grows(s) /\ sess'[s] = o /\ AdviceInv(s)
  BY DEF StudyInv, WorldInv, Grows, Recorded
<1>2. HandInv(s)' /\ OverInv(s)'
  BY <1>1, CarryFacts
<1>3. Recalls(s)
  BY DEF Recalls, Was, HeadWas
<1>4. AdviceInv(s)'
  BY <1>1, <1>3, OtherAdvice
<1> QED BY <1>2, <1>4, StepKeeps

LEMMA WorldStays ==
    ASSUME StudyInv, NEW s \in Session, UNCHANGED <<repo, consent, past, study, closed>>,
           NEW o, sess' = [sess EXCEPT ![s] = o], DOMAIN advice' = Session
    PROVE  WorldInv' /\ Recorded
  BY DEF StudyInv, WorldInv, Recorded, Filed

\* Back at the prompt.
LEMMA StopFacts ==
    ASSUME NEW c, DOMAIN c = ConvFields, NEW o, o = [c EXCEPT !.pc = "prompt", !.w = Idle]
    PROVE  Carries(c, o) /\ o.pc = "prompt" /\ o.w = Idle
<1>1. DOMAIN Idle = WorkFields
  BY DEF Idle, WorkFields
<1> QED BY <1>1 DEF Carries, ConvFields

LEMMA StopWork ==
    ASSUME NEW s \in Session, sess'[s].pc = "prompt", sess'[s].w = Idle
    PROVE  WorkInv(s)'
  BY DEF WorkInv, RepoInv, UpdateInv, Taking, Loading, Idle

LEMMA StopKeeps ==
    ASSUME StudyInv, NEW s \in Session, UNCHANGED <<repo, consent, past, advice, study, closed>>,
           Stop(s, sess[s])
    PROVE  StudyInv'
<1>1. PICK o : o = [sess[s] EXCEPT !.pc = "prompt", !.w = Idle]
  OBVIOUS
<1>2. sess' = [sess EXCEPT ![s] = o] /\ sess'[s] = o
  BY <1>1, SessionFacts DEF Stop, Set
<1>3. Carries(sess[s], o) /\ o.pc = "prompt" /\ o.w = Idle
  BY Zenon, <1>1, SessionFacts, StopFacts
<1>4. WorkInv(s)'
  BY <1>2, <1>3, StopWork
<1>5. WorldInv' /\ Recorded
  BY Zenon, <1>2, WorldStays DEF StudyInv, WorldInv
<1> QED BY <1>2, <1>3, <1>4, <1>5, CarryStep

\* What holds of a session at work.
LEMMA WorkFacts ==
    ASSUME StudyInv, NEW s \in Session
    PROVE  /\ WorldInv /\ WorkInv(s) /\ OverInv(s) /\ DOMAIN sess = Session
           /\ DOMAIN sess[s] = ConvFields /\ DOMAIN sess[s].w = WorkFields
  BY DEF StudyInv, WorldInv, ConvInv, HandInv

\* Only the work of a conversation changes.
Moved(c, pc, w) == [c EXCEPT !.pc = pc, !.w = w]

LEMMA MovedFacts ==
    ASSUME NEW c, DOMAIN c = ConvFields, NEW pc, NEW w, DOMAIN w = WorkFields, NEW o, o = Moved(c, pc, w)
    PROVE  Carries(c, o) /\ o.pc = pc /\ o.w = w
  BY DEF Moved, Carries, ConvFields

LEMMA StartScanKeeps == ASSUME StudyInv, NEW s \in Session, StartScan(s) PROVE StudyInv'
<1>1. PICK c, e, w, o : /\ c = sess[s] /\ e = Enumerate(repo[c.w.repo])
                        /\ w = [c.w EXCEPT !.todo = e.eligible, !.missing = e.missing]
                        /\ o = Moved(c, "read", w)
  BY Zenon
<1>2. DOMAIN c = ConvFields /\ DOMAIN c.w = WorkFields /\ c.pc = "enumerate"
  BY <1>1, WorkFacts DEF StartScan
<1>3. /\ UNCHANGED <<repo, consent, past, advice, study, closed>> /\ sess' = [sess EXCEPT ![s] = o]
  <2>1. [c EXCEPT !.pc = "read", !.w.todo = e.eligible, !.w.missing = e.missing] = o
    BY <1>1, <1>2 DEF ConvFields, Moved
  <2> QED BY Zenon, <1>1, <2>1 DEF StartScan, Quiet, Set
<1>4. /\ DOMAIN w = WorkFields /\ w.op = c.w.op /\ w.loads = c.w.loads /\ w.got = c.w.got /\ w.repo = c.w.repo
  BY <1>1, <1>2 DEF WorkFields
<1>5. Carries(c, o) /\ o.pc = "read" /\ o.w = w /\ sess'[s] = o
  <2>1. o = Moved(c, "read", w)
    BY <1>1
  <2>2. Carries(c, o) /\ o.pc = "read" /\ o.w = w
    BY <1>2, <1>4, <2>1, MovedFacts
  <2> QED BY <1>3, <2>2, WorkFacts
<1>6. TakeInv(s) /\ RepoInv(s)
  BY <1>1, <1>2, WorkFacts DEF WorkInv, Taking
<1>7. WorkInv(s)'
  <2>1. Allowed(s)' = Allowed(s)
    BY <1>3 DEF Allowed
  <2>2. w.loads = <<>> /\ w.got = <<>> /\ w.repo # None /\ w.op = "activate" /\ w.repo \in Allowed(s)
    BY <1>1, <1>2, <1>4, <1>6 DEF TakeInv, RepoInv
  <2> QED BY <1>5, <2>1, <2>2 DEF WorkInv, RepoInv, UpdateInv, Taking, Loading, TakeInv
<1>8. WorldInv' /\ Recorded
  BY <1>3, WorldStays, WorkFacts DEF WorldInv
<1> QED BY Zenon, <1>1, <1>3, <1>5, <1>7, <1>8, CarryStep

\* The conversation c once the study g was loaded.
Loaded(c, g, e, m) ==
    [c EXCEPT !.pc = "read", !.w.repo = g.pack.repo, !.w.got = Added(@, g), !.w.todo = e,
              !.w.missing = m, !.w.seen = <<>>]

LEMMA LoadedFacts ==
    ASSUME NEW c, DOMAIN c = ConvFields, DOMAIN c.w = WorkFields, NEW g, NEW e, NEW m, NEW o,
           o = Loaded(c, g, e, m), NEW a, a = Added(c.w.got, g)
    PROVE  /\ Carries(c, o) /\ o.pc = "read" /\ o.w.op = c.w.op /\ o.w.loads = c.w.loads
           /\ o.w.got = a /\ o.w.repo = g.pack.repo /\ o.w.seen = <<>>
<1>1. PICK w : w = [c.w EXCEPT !.repo = g.pack.repo, !.got = a, !.todo = e, !.missing = m, !.seen = <<>>]
  OBVIOUS
<1>2. /\ DOMAIN w = WorkFields /\ w.op = c.w.op /\ w.loads = c.w.loads /\ w.got = a
      /\ w.repo = g.pack.repo /\ w.seen = <<>>
  BY <1>1 DEF WorkFields
<1>3. o.pc = "read" /\ o.w = w /\ DOMAIN o = ConvFields
  BY <1>1 DEF ConvFields, WorkFields, Loaded
<1>4. /\ o.known = c.known /\ o.active = c.active /\ o.target = c.target /\ o.report = c.report
      /\ o.pending = c.pending /\ o.cmd = c.cmd /\ o.shown = c.shown
  BY DEF ConvFields, Loaded
<1> QED BY <1>2, <1>3, <1>4 DEF Carries

LEMMA LoadRecordKeeps == ASSUME StudyInv, NEW s \in Session, LoadRecord(s) PROVE StudyInv'
<1>1. PICK c : c = sess[s]
  OBVIOUS
<1>2. DOMAIN c = ConvFields /\ DOMAIN c.w = WorkFields /\ c.pc = "load"
  BY Zenon, <1>1, WorkFacts DEF LoadRecord
<1>3. UNCHANGED <<repo, consent, past, advice, study, closed>>
  BY Zenon DEF LoadRecord, Quiet
<1>4. CASE Stop(s, sess[s])
  BY <1>3, <1>4, StopKeeps
<1>5. PICK i, e, g, o : /\ i = Head(c.w.loads) /\ e = Enumerate(repo[study[i].pack.repo])
                        /\ g = [id |-> i, pack |-> study[i].pack, tb |-> study[i].tb]
                        /\ o = Loaded(c, g, e.eligible, e.missing)
  OBVIOUS
<1>6. CASE sess' = [sess EXCEPT ![s] = o]
  <2>0. PICK q, got : q = c.w.loads /\ got = Added(c.w.got, g)
    OBVIOUS
  <2>1. /\ Carries(c, o) /\ o.pc = "read" /\ o.w.op = c.w.op /\ o.w.loads = c.w.loads
        /\ o.w.got = got /\ o.w.repo = study[i].pack.repo /\ o.w.seen = <<>>
    <3>1. g.pack = study[i].pack
      BY Zenon, <1>5
    <3>2. PICK l, m : o = Loaded(c, g, l, m)
      BY Zenon, <1>5
    <3> QED BY <1>2, <2>0, <3>1, <3>2, LoadedFacts
  <2>2. q = c.w.loads /\ got = o.w.got
    BY <2>0, <2>1
  <2>3. sess'[s] = o
    BY <1>6, WorkFacts
  <2>4. WorldInv /\ GotInv(s) /\ LoadInv(s) /\ (c.w.op = "implement" => CheckedInv(s))
    BY <1>1, <1>2, WorkFacts DEF WorkInv, Loading
  <2>5. q \in Seq(Ids) /\ q # <<>> /\ i = Head(q)
    BY Zenon, <1>1, <1>2, <1>5, <2>2, <2>4 DEF LoadInv
  <2>6. Len(q) \in Nat /\ 1 \in 1..Len(q) /\ i = q[1]
    BY <2>5
  <2>7. i \in Held(s)
    BY <1>1, <2>2, <2>4, <2>6 DEF LoadInv
  <2>8. IsList(c.w.got) /\ Len(c.w.got) \in Nat
    BY <1>1, <2>4, ListFacts DEF GotInv
  <2>9. /\ IsList(got) /\ Len(got) = Len(c.w.got) + 1 /\ got # <<>> /\ got[Len(got)] = g
        /\ \A j \in 1..Len(got) : (j \in 1..Len(c.w.got) /\ got[j] = c.w.got[j]) \/ j = Len(got)
    BY <2>0, <2>8, AddedFacts
  <2>10. Held(s)' = Held(s) /\ Allowed(s)' = Allowed(s) /\ Fresh(s)' = Fresh(s)
    BY <1>3 DEF Held, Filed, Allowed, Fresh, WasSeen, Was, HeadWas
  <2>11. g.id = i /\ g.pack = study[i].pack /\ (g.tb = "understood" => i \in closed)
    BY Zenon, <1>5, <2>4, <2>7 DEF WorldInv, Held, Filed
  <2>12. GotInv(s)'
    BY ZenonT(60), <1>1, <1>3, <2>2, <2>3, <2>4, <2>7, <2>9, <2>10, <2>11 DEF GotInv
  <2>13. Wanted(s)' = Wanted(s)
    BY <1>1, <2>1, <2>3 DEF Wanted, Carries
  <2>14. LoadInv(s)'
    BY <1>1, <1>2, <2>1, <2>3, <2>4, <2>10 DEF LoadInv
  <2>15. ReadInv(s)'
    <3>1. Len(c.w.got) + Len(q) = Wanted(s)
      BY <1>1, <1>2, <2>2, <2>4 DEF LoadInv
    <3>2. Len(got) + Len(q) = Wanted(s)' + 1
      BY <2>6, <2>8, <2>9, <2>13, <3>1
    <3>3. DOMAIN o.w.seen = {}
      BY <2>1
    <3>4. got[Len(got)].id = q[1] /\ o.w.repo = got[Len(got)].pack.repo
      BY <2>1, <2>6, <2>9, <2>11
    <3> QED BY <2>1, <2>2, <2>3, <2>9, <3>2, <3>3, <3>4 DEF ReadInv, WasSeen
  <2>16. o.w.op = "implement" => CheckedInv(s)'
    BY <1>1, <2>1, <2>3, <2>4, <2>10 DEF CheckedInv, Carries
  <2>17. WorkInv(s)'
    <3>1. study[i].pack.repo \in Allowed(s)
      BY <2>7 DEF Held
    <3>2. RepoInv(s)' /\ UpdateInv(s)' /\ ~Taking(s)'
      BY <2>1, <2>2, <2>3, <2>5, <2>10, <3>1 DEF RepoInv, UpdateInv, Taking
    <3> QED BY <2>3, <2>12, <2>14, <2>15, <2>16, <3>2 DEF WorkInv
  <2>18. WorldInv' /\ Recorded
    BY Zenon, <1>3, <1>6, <2>4, WorldStays DEF WorldInv
  <2> QED BY <1>1, <1>3, <1>6, <2>1, <2>17, <2>18, CarryStep
<1>7. Stop(s, sess[s]) \/ sess' = [sess EXCEPT ![s] = o]
  BY Zenon, <1>1, <1>5 DEF LoadRecord, Set, Loaded, Added
<1> QED BY <1>4, <1>6, <1>7

\* The conversation c once path f was read.
Saw(c, f, v) == [c EXCEPT !.w.todo = @ \ {f}, !.w.seen = With(@, f, v)]

LEMMA SawFacts ==
    ASSUME NEW c, DOMAIN c = ConvFields, DOMAIN c.w = WorkFields, NEW f, NEW v, NEW o, o = Saw(c, f, v)
    PROVE  /\ Carries(c, o) /\ o.pc = c.pc /\ o.w.op = c.w.op /\ o.w.loads = c.w.loads
           /\ o.w.got = c.w.got /\ o.w.repo = c.w.repo /\ o.w.seen = With(c.w.seen, f, v)
           /\ o.w.id = c.w.id /\ o.w.then = c.w.then
<1>1. PICK w : w = [c.w EXCEPT !.todo = @ \ {f}, !.seen = With(@, f, v)]
  OBVIOUS
<1>2. /\ DOMAIN w = WorkFields /\ w.op = c.w.op /\ w.loads = c.w.loads /\ w.got = c.w.got
      /\ w.repo = c.w.repo /\ w.seen = With(c.w.seen, f, v) /\ w.id = c.w.id /\ w.then = c.w.then
  BY <1>1 DEF WorkFields
<1>3. o.w = w /\ DOMAIN o = ConvFields
  BY <1>1 DEF ConvFields, WorkFields, Saw
<1>4. /\ o.known = c.known /\ o.active = c.active /\ o.target = c.target /\ o.report = c.report
      /\ o.pending = c.pending /\ o.cmd = c.cmd /\ o.shown = c.shown /\ o.pc = c.pc
  BY DEF ConvFields, Saw
<1> QED BY <1>2, <1>3, <1>4 DEF Carries

LEMMA ReadFileKeeps == ASSUME StudyInv, NEW s \in Session, NEW f \in Files, ReadFile(s, f) PROVE StudyInv'
<1>1. PICK c : c = sess[s]
  OBVIOUS
<1>2. DOMAIN c = ConvFields /\ DOMAIN c.w = WorkFields /\ c.pc = "read"
  BY <1>1, WorkFacts DEF ReadFile
<1>3. UNCHANGED <<repo, consent, past, advice, study, closed>>
  BY DEF ReadFile, Quiet
<1>4. CASE Stop(s, sess[s])
  BY <1>3, <1>4, StopKeeps
<1>5. ASSUME NEW v, v = repo[c.w.repo].disk[f], NEW o, o = Saw(c, f, v),
             sess' = [sess EXCEPT ![s] = o]
      PROVE  StudyInv'
  <2>1. /\ Carries(c, o) /\ o.pc = c.pc /\ o.w.op = c.w.op /\ o.w.loads = c.w.loads
        /\ o.w.got = c.w.got /\ o.w.repo = c.w.repo /\ o.w.seen = With(c.w.seen, f, v)
    <3>1. o = Saw(c, f, v)
      BY <1>5
    <3> QED BY <1>2, <3>1, SawFacts
  <2>2. sess'[s] = o
    BY <1>5, WorkFacts
  <2>3. WorkInv(s) /\ WorldInv
    BY WorkFacts
  <2>4. Held(s)' = Held(s) /\ Allowed(s)' = Allowed(s) /\ Fresh(s)' = Fresh(s)
    BY <1>3 DEF Held, Filed, Allowed, Fresh, WasSeen, Was, HeadWas
  <2>5. Taking(s)' = Taking(s) /\ Loading(s)' = Loading(s) /\ Wanted(s)' = Wanted(s)
    BY <1>1, <1>2, <2>1, <2>2 DEF Taking, Loading, Wanted, Carries
  <2>6. RepoInv(s)' /\ UpdateInv(s)'
    BY <1>1, <1>2, <2>1, <2>2, <2>3, <2>4 DEF WorkInv, RepoInv, UpdateInv
  <2>7. TakeInv(s) => TakeInv(s)'
    BY <1>1, <1>2, <2>1, <2>2 DEF TakeInv
  <2>8. GotInv(s) => GotInv(s)'
    BY <1>1, <1>3, <2>1, <2>2, <2>4 DEF GotInv
  <2>9. LoadInv(s) => LoadInv(s)'
    BY <1>1, <1>2, <2>1, <2>2, <2>4 DEF LoadInv
  <2>10. CheckedInv(s) => CheckedInv(s)'
    BY <1>1, <2>1, <2>2, <2>4 DEF CheckedInv, Carries
  <2>11. ReadInv(s) => ReadInv(s)'
    <3> SUFFICES ASSUME ReadInv(s) PROVE ReadInv(s)'
      OBVIOUS
    <3>1. PICK r, old, seen : r = c.w.repo /\ old = c.w.seen /\ seen = With(old, f, v)
      OBVIOUS
    <3>2. WasSeen(s, r, old)
      BY <1>1, <3>1 DEF ReadInv
    <3>3. DOMAIN seen = DOMAIN old \cup {f} /\ seen[f] = v /\ \A g \in DOMAIN old \ {f} : seen[g] = old[g]
      BY <3>1 DEF With
    <3>4. WasSeen(s, r, seen)
      BY Zenon, <1>5, <3>1, <3>2, <3>3 DEF WasSeen, Was
    <3>5. DOMAIN seen \subseteq Files /\ \A g \in DOMAIN seen : Was(s, r, g, seen[g])'
      BY <1>3, <3>4 DEF WasSeen, Was
    <3>6. o.w.seen = seen /\ o.w.repo = r
      BY <2>1, <3>1
    <3> QED BY <1>1, <2>1, <2>2, <2>5, <3>5, <3>6 DEF ReadInv, WasSeen, Was
  <2>12. WorkInv(s)'
    BY <1>1, <2>1, <2>2, <2>3, <2>5, <2>6, <2>7, <2>8, <2>9, <2>10, <2>11 DEF WorkInv
  <2>13. WorldInv' /\ Recorded
    BY <1>3, <1>5, <2>3, WorldStays DEF WorldInv
  <2> QED BY Zenon, <1>1, <1>3, <1>5, <2>1, <2>12, <2>13, CarryStep
<1>6. PICK v : v = repo[c.w.repo].disk[f]
  OBVIOUS
<1>7. Stop(s, sess[s]) \/ sess' = [sess EXCEPT ![s] = Saw(c, f, v)]
  BY <1>1, <1>6 DEF ReadFile, Set, Saw
<1> QED BY <1>4, <1>5, <1>6, <1>7
\* The conversation c once its pack p was taken, and once a study was found current.
Packed(c, p) == [c EXCEPT !.pc = "persist", !.w.got = <<p>>, !.w.seen = <<>>, !.w.missing = {}]
Passed(c, pc, q) == [c EXCEPT !.w.loads = q, !.w.seen = <<>>, !.w.missing = {}, !.pc = pc]
Rest(q) == Tail(q)
After(q) == IF Len(q) = 1 THEN "finish" ELSE "load"

LEMMA PackedFacts ==
    ASSUME NEW c, DOMAIN c = ConvFields, DOMAIN c.w = WorkFields, NEW p, NEW o, o = Packed(c, p)
    PROVE  /\ Carries(c, o) /\ o.pc = "persist" /\ o.w.op = c.w.op /\ o.w.got[1] = p /\ o.w.repo = c.w.repo
<1>1. PICK w : w = [c.w EXCEPT !.got = <<p>>, !.seen = <<>>, !.missing = {}]
  OBVIOUS
<1>2. DOMAIN w = WorkFields /\ w.op = c.w.op /\ w.got[1] = p /\ w.repo = c.w.repo
  BY <1>1 DEF WorkFields
<1>3. o = Moved(c, "persist", w)
  BY <1>1 DEF ConvFields, WorkFields, Packed, Moved
<1>4. Carries(c, o) /\ o.pc = "persist" /\ o.w = w
  BY <1>2, <1>3, MovedFacts
<1> QED BY <1>2, <1>4

LEMMA PassedFacts ==
    ASSUME NEW c, DOMAIN c = ConvFields, DOMAIN c.w = WorkFields, NEW pc, NEW q, NEW o, o = Passed(c, pc, q)
    PROVE  /\ Carries(c, o) /\ o.pc = pc /\ o.w.op = c.w.op /\ o.w.got = c.w.got /\ o.w.repo = c.w.repo
           /\ o.w.loads = q
<1>1. PICK w : w = [c.w EXCEPT !.loads = q, !.seen = <<>>, !.missing = {}]
  OBVIOUS
<1>2. DOMAIN w = WorkFields /\ w.op = c.w.op /\ w.got = c.w.got /\ w.repo = c.w.repo /\ w.loads = q
  BY <1>1 DEF WorkFields
<1>3. o = Moved(c, pc, w)
  BY <1>1 DEF ConvFields, WorkFields, Passed, Moved
<1>4. Carries(c, o) /\ o.pc = pc /\ o.w = w
  BY <1>2, <1>3, MovedFacts
<1> QED BY <1>2, <1>4

LEMMA RestFacts ==
    ASSUME NEW S, NEW q \in Seq(S), q # <<>>, NEW t, t = Rest(q)
    PROVE  /\ t \in Seq(S) /\ Len(q) \in Nat \ {0} /\ Len(t) = Len(q) - 1
           /\ \A j \in 1..Len(t) : t[j] = q[j + 1] /\ j + 1 \in 1..Len(q)
           /\ t # <<>> <=> Len(q) # 1
<1>1. t \in Seq(S) /\ Len(q) \in Nat /\ Len(q) # 0 /\ Len(t) = Len(q) - 1 /\ \A j \in 1..Len(t) : t[j] = q[j + 1]
  BY DEF Rest
<1>2. t = <<>> <=> Len(t) = 0
  BY <1>1
<1> QED BY <1>1, <1>2

LEMMA TakenKeeps ==
    ASSUME StudyInv, NEW s \in Session, UNCHANGED <<repo, consent, past, advice, study, closed>>,
           sess[s].pc = "read", sess[s].w.loads = <<>>, NEW p, p.repo = sess[s].w.repo,
           sess' = [sess EXCEPT ![s] = Packed(sess[s], p)]
    PROVE  StudyInv'
<1>1. PICK c, o : c = sess[s] /\ o = Packed(c, p)
  OBVIOUS
<1>2. /\ Carries(c, o) /\ o.pc = "persist" /\ o.w.op = c.w.op /\ o.w.got[1] = p /\ o.w.repo = c.w.repo
  BY <1>1, WorkFacts, PackedFacts
<1>3. sess' = [sess EXCEPT ![s] = o] /\ sess'[s] = o
  BY <1>1, WorkFacts
<1>4. TakeInv(s) /\ RepoInv(s)
  BY WorkFacts DEF WorkInv, Taking
<1>5. Allowed(s)' = Allowed(s)
  BY DEF Allowed
<1>6. WorkInv(s)'
  BY <1>1, <1>2, <1>3, <1>4, <1>5 DEF WorkInv, RepoInv, UpdateInv, Taking, Loading, TakeInv
<1>7. WorldInv' /\ Recorded
  BY Zenon, <1>3, WorldStays, WorkFacts DEF WorldInv
<1> QED BY <1>1, <1>2, <1>3, <1>6, <1>7, CarryStep

\* The study whose check succeeds is fresh.
LEMMA CurrentIsFresh ==
    ASSUME StudyInv, NEW s \in Session, GotInv(s), ReadInv(s),
           Current(sess[s].w, repo[sess[s].w.repo])
    PROVE  sess[s].w.loads[1] \in Fresh(s)
<1>1. PICK w, n, i, p : /\ w = sess[s].w /\ n = Len(w.got) /\ i = w.loads[1] /\ p = w.got[n].pack
  BY Zenon
<1>2. n \in 1..Len(w.got)
  BY Zenon, <1>1, ListFacts DEF GotInv, ReadInv
<1>3. w.got[n].id = i /\ w.repo = p.repo /\ WasSeen(s, w.repo, w.seen)
  BY Zenon, <1>1 DEF ReadInv
<1>4. i \in Held(s) /\ p = study[i].pack
  BY Zenon, <1>1, <1>2, <1>3 DEF GotInv
<1>5. w.seen = p.scanned /\ repo[w.repo].head = p.head
  BY <1>1 DEF Current
<1>6. WasSeen(s, p.repo, p.scanned) /\ HeadWas(s, p.repo, p.head)
  BY <1>3, <1>5 DEF HeadWas
<1>7. i \in Filed /\ p.repo \in Repos
  BY <1>4 DEF Held, Allowed
<1> QED BY Zenon, <1>1, <1>4, <1>6, <1>7 DEF Fresh

LEMMA PassedKeeps ==
    ASSUME StudyInv, NEW s \in Session, UNCHANGED <<repo, consent, past, advice, study, closed>>,
           sess[s].pc = "read", sess[s].w.loads # <<>>, Current(sess[s].w, repo[sess[s].w.repo]),
           sess' = [sess EXCEPT ![s] = Passed(sess[s], After(sess[s].w.loads), Rest(sess[s].w.loads))]
    PROVE  StudyInv'
<1>1. PICK c, l, q, pc, o : /\ c = sess[s] /\ l = c.w.loads /\ q = Rest(l) /\ pc = After(l)
                            /\ o = Passed(c, pc, q)
  OBVIOUS
<1>2. /\ Carries(c, o) /\ o.pc = pc /\ o.w.op = c.w.op /\ o.w.got = c.w.got /\ o.w.repo = c.w.repo
      /\ o.w.loads = q
  <2>1. DOMAIN c = ConvFields /\ DOMAIN c.w = WorkFields /\ o = Passed(c, pc, q)
    BY <1>1, WorkFacts
  <2> QED BY <2>1, PassedFacts
<1>3. sess' = [sess EXCEPT ![s] = o] /\ sess'[s] = o
  BY <1>1, WorkFacts
<1>4. RepoInv(s) /\ GotInv(s) /\ LoadInv(s) /\ ReadInv(s) /\ (c.w.op = "implement" => CheckedInv(s))
  BY <1>1, WorkFacts DEF WorkInv, Loading
<1>5. Held(s)' = Held(s) /\ Allowed(s)' = Allowed(s) /\ Fresh(s)' = Fresh(s)
  BY DEF Held, Filed, Allowed, Fresh, WasSeen, Was, HeadWas
<1>6. l \in Seq(Ids) /\ l # <<>> /\ \A j \in 1..Len(l) : l[j] \in Held(s)
  BY <1>1, <1>4 DEF LoadInv
<1>7. /\ q \in Seq(Ids) /\ Len(l) \in Nat \ {0} /\ Len(q) = Len(l) - 1
      /\ \A j \in 1..Len(q) : q[j] = l[j + 1] /\ j + 1 \in 1..Len(l)
      /\ q # <<>> <=> Len(l) # 1
  BY <1>1, <1>6, RestFacts
<1>7b. Len(l) \in Nat /\ Len(l) > 0 /\ Len(q) = Len(l) - 1
  BY <1>7
<1>8. GotInv(s)'
  BY ZenonT(60), <1>1, <1>2, <1>3, <1>4, <1>5 DEF GotInv
<1>9. Wanted(s)' = Wanted(s)
  <2>1. sess'[s].w.op = sess[s].w.op /\ sess'[s].report = sess[s].report
    BY <1>1, <1>2, <1>3 DEF Carries
  <2> QED BY <2>1 DEF Wanted
<1>10. pc = IF Len(l) = 1 THEN "finish" ELSE "load"
  BY <1>1 DEF After
<1>11. LoadInv(s)'
  <2>1. Len(c.w.got) + Len(q) = Wanted(s)
    <3>1. Len(c.w.got) + Len(l) = Wanted(s) + 1 /\ Len(c.w.got) \in Nat
      BY Zenon, <1>1, <1>4, ListFacts DEF ReadInv, GotInv
    <3>2. Wanted(s) \in Nat
      BY WorkFacts DEF Wanted, OverInv
    <3>3. PICK a \in Nat, b \in Nat, m \in Nat : a = Len(c.w.got) /\ b = Len(l) /\ m = Wanted(s)
      BY <1>7b, <3>1, <3>2
    <3>4. a + b = m + 1 /\ Len(q) = b - 1
      BY <1>7b, <3>1, <3>3
    <3>5. a + (b - 1) = m
      BY <3>4
    <3> QED BY <3>3, <3>4, <3>5
  <2>2. c.w.op \in Ops /\ \A j \in 1..Len(q) : q[j] \in Held(s)
    BY <1>1, <1>4, <1>6, <1>7 DEF LoadInv
  <2> QED BY <1>2, <1>3, <1>5, <1>7, <1>9, <1>10, <2>1, <2>2 DEF LoadInv
<1>12. c.w.op = "implement" => CheckedInv(s)'
  <2> SUFFICES ASSUME c.w.op = "implement" PROVE CheckedInv(s)'
    OBVIOUS
  <2>1. PICK over : over = c.report.over
    OBVIOUS
  <2>2. Len(over) \in Nat
    BY <1>1, <2>1, WorkFacts DEF OverInv
  <2>3. /\ Len(l) <= Len(over) /\ \A j \in 1..Len(l) : l[j] = over[Len(over) - Len(l) + j]
        /\ \A k \in 1..(Len(over) - Len(l)) : over[k] \in Fresh(s)
    BY <1>1, <1>4, <2>1 DEF CheckedInv
  <2>4. l[1] \in Fresh(s)
    BY <1>1, <1>4, CurrentIsFresh
  <2>5. Len(q) <= Len(over)
    BY <1>7, <2>2, <2>3
  <2>6. \A j \in 1..Len(q) : q[j] = over[Len(over) - Len(q) + j]
    <3> SUFFICES ASSUME NEW j \in 1..Len(q) PROVE q[j] = over[Len(over) - Len(q) + j]
      OBVIOUS
    <3>1. Len(over) - Len(q) + j = Len(over) - Len(l) + (j + 1)
      BY <1>7, <2>2
    <3> QED BY <1>7, <2>3, <3>1
  <2>7. \A k \in 1..(Len(over) - Len(q)) : over[k] \in Fresh(s)
    <3> SUFFICES ASSUME NEW k \in 1..(Len(over) - Len(q)) PROVE over[k] \in Fresh(s)
      OBVIOUS
    <3>1. k \in 1..(Len(over) - Len(l)) \/ k = Len(over) - Len(l) + 1
      <4>1. Len(l) <= Len(over)
        BY <2>3
      <4>2. PICK a \in Nat, b \in Nat : a = Len(over) /\ b = Len(l) /\ Len(q) = b - 1 /\ b <= a
        BY <1>7b, <2>2, <4>1
      <4>3. k \in 1..(a - (b - 1))
        BY <4>2
      <4>4. k \in 1..(a - b) \/ k = a - b + 1
        BY <4>2, <4>3
      <4> QED BY <4>2, <4>4
    <3>2. over[Len(over) - Len(l) + 1] = l[1]
      BY <1>7, <2>3
    <3> QED BY <2>3, <2>4, <3>1, <3>2
  <2>8. sess'[s].report.over = over /\ sess'[s].w.loads = q
    BY <1>1, <1>2, <1>3, <2>1 DEF Carries
  <2> QED BY Zenon, <1>5, <2>5, <2>6, <2>7, <2>8 DEF CheckedInv
<1>13. WorkInv(s)'
  <2>1. RepoInv(s)' /\ UpdateInv(s)' /\ ~Taking(s)' /\ o.pc # "read"
    BY <1>1, <1>2, <1>3, <1>4, <1>5, <1>10 DEF RepoInv, UpdateInv, Taking
  <2> QED BY <1>2, <1>3, <1>8, <1>11, <1>12, <2>1 DEF WorkInv
<1>14. WorldInv' /\ Recorded
  BY <1>3, WorldStays, WorkFacts DEF WorldInv
<1> QED BY <1>1, <1>2, <1>3, <1>13, <1>14, CarryStep

LEMMA ReadIdentityKeeps == ASSUME StudyInv, NEW s \in Session, ReadIdentity(s) PROVE StudyInv'
<1>1. PICK c, v, p, q, pc :
         /\ c = sess[s] /\ v = repo[c.w.repo] /\ p = Pack(c.w.repo, c.w.seen, c.w.missing, v)
         /\ q = Rest(c.w.loads) /\ pc = After(c.w.loads)
  OBVIOUS
<1>2. UNCHANGED <<repo, consent, past, advice, study, closed>> /\ c.pc = "read"
  BY <1>1 DEF ReadIdentity, Quiet
<1>3. CASE Stop(s, sess[s])
  BY <1>2, <1>3, StopKeeps
<1>4. CASE c.w.loads = <<>> /\ sess' = [sess EXCEPT ![s] = Packed(c, p)]
  <2>1. p.repo = c.w.repo
    BY <1>1 DEF Pack
  <2> QED BY <1>1, <1>2, <1>4, <2>1, TakenKeeps
<1>5. CASE c.w.loads # <<>> /\ Current(c.w, v) /\ sess' = [sess EXCEPT ![s] = Passed(c, pc, q)]
  BY <1>1, <1>2, <1>5, PassedKeeps
<1>6. \/ Stop(s, sess[s])
      \/ c.w.loads = <<>> /\ sess' = [sess EXCEPT ![s] = Packed(c, p)]
      \/ c.w.loads # <<>> /\ Current(c.w, v) /\ sess' = [sess EXCEPT ![s] = Passed(c, pc, q)]
  <2>1. CASE c.w.loads = <<>>
    BY <1>1, <2>1 DEF ReadIdentity, Acquiring, Packed, Set
  <2>2. CASE c.w.loads # <<>> /\ Current(c.w, v)
    BY <1>1, <2>2 DEF ReadIdentity, Acquiring, Passed, Rest, After, Set
  <2>3. CASE c.w.loads # <<>> /\ ~Current(c.w, v)
    BY <1>1, <2>3 DEF ReadIdentity, Acquiring
  <2> QED BY <2>1, <2>2, <2>3
<1> QED BY <1>3, <1>4, <1>5, <1>6
\* A record that is written again keeps its pack.
LEMMA RecordStays ==
    ASSUME StudyInv, NEW s \in Session, UNCHANGED <<repo, consent, past, advice, closed>>,
           NEW o, sess' = [sess EXCEPT ![s] = o],
           NEW i \in Filed, NEW r, DOMAIN r = StudyFields, r.file # "absent", r.pack = study[i].pack,
           r.tb = "understood" \/ r.update = "understood" => i \in closed,
           study' = [study EXCEPT ![i] = r]
    PROVE  WorldInv' /\ Recorded /\ Filed' = Filed /\ \A j \in Filed : study'[j].pack = study[j].pack
<1>1. WorldInv /\ i \in Ids
  BY DEF StudyInv, Filed
<1>2. DOMAIN study' = Ids /\ study'[i] = r /\ \A j \in Ids \ {i} : study'[j] = study[j]
  BY <1>1 DEF WorldInv
<1>3. Filed' = Filed /\ Recorded
  BY <1>2 DEF Filed, Recorded
<1>4. \A j \in Ids : /\ DOMAIN study'[j] = StudyFields
                     /\ study'[j].file # "absent" => study'[j].pack.repo \in Repos
                     /\ study'[j].tb = "understood" \/ study'[j].update = "understood" => j \in closed
  BY <1>1, <1>2 DEF WorldInv, Filed
<1>5. DOMAIN sess' = Session
  BY <1>1 DEF WorldInv
<1>6. WorldInv'
  BY <1>1, <1>2, <1>3, <1>4, <1>5 DEF WorldInv
<1> QED BY <1>3, <1>6 DEF Recorded, Filed

\* The conversation c once its pack has the number i.
Numbered(c, i) == [c EXCEPT !.pc = "create", !.w.id = i, !.w.got = <<>>]

LEMMA NumberedFacts ==
    ASSUME NEW c, DOMAIN c = ConvFields, DOMAIN c.w = WorkFields, NEW i, NEW o, o = Numbered(c, i)
    PROVE  /\ Carries(c, o) /\ o.pc = "create" /\ o.w.op = c.w.op /\ o.w.got = <<>> /\ o.w.repo = c.w.repo
           /\ o.w.id = i
<1>1. PICK w : w = [c.w EXCEPT !.id = i, !.got = <<>>]
  OBVIOUS
<1>2. DOMAIN w = WorkFields /\ w.op = c.w.op /\ w.got = <<>> /\ w.repo = c.w.repo /\ w.id = i
  BY <1>1 DEF WorkFields
<1>3. o = Moved(c, "create", w)
  BY <1>1 DEF ConvFields, WorkFields, Numbered, Moved
<1>4. Carries(c, o) /\ o.pc = "create" /\ o.w = w
  BY <1>2, <1>3, MovedFacts
<1> QED BY <1>2, <1>4

LEMMA PersistKeeps == ASSUME StudyInv, NEW s \in Session, Persist(s) PROVE StudyInv'
<1>1. PICK i \in Ids : /\ study[i].file = "absent"
                       /\ study' = [study EXCEPT ![i].file = "pack", ![i].pack = sess[s].w.got[1]]
                       /\ Set(s, [sess[s] EXCEPT !.pc = "create", !.w.id = i, !.w.got = <<>>])
  BY Zenon DEF Persist
<1>2. UNCHANGED <<repo, consent, past, advice, closed>> /\ sess[s].pc = "persist"
  BY DEF Persist, Quiet
<1>3. PICK c, o : c = sess[s] /\ o = Numbered(c, i)
  OBVIOUS
<1>4. /\ Carries(c, o) /\ o.pc = "create" /\ o.w.op = c.w.op /\ o.w.got = <<>> /\ o.w.repo = c.w.repo
      /\ o.w.id = i
  BY <1>3, WorkFacts, NumberedFacts
<1>5. sess' = [sess EXCEPT ![s] = o] /\ sess'[s] = o
  BY <1>1, <1>3, WorkFacts DEF Numbered, Set
<1>6. TakeInv(s) /\ RepoInv(s) /\ WorldInv
  BY <1>2, WorkFacts DEF WorkInv, Taking
<1>7. c.w.repo # None /\ c.w.repo \in Allowed(s) /\ c.w.got[1].repo = c.w.repo /\ c.w.op = "activate"
  BY <1>2, <1>3, <1>6 DEF TakeInv, RepoInv
<1>8. /\ DOMAIN study' = Ids /\ DOMAIN study'[i] = StudyFields /\ study'[i].file = "pack"
      /\ study'[i].pack = c.w.got[1] /\ study'[i].tb = study[i].tb /\ study'[i].update = study[i].update
      /\ \A j \in Ids \ {i} : study'[j] = study[j]
  BY <1>1, <1>3, <1>6 DEF WorldInv, StudyFields
<1>9. Recorded /\ Filed \subseteq Filed' /\ i \in Filed'
  BY <1>1, <1>8 DEF Recorded, Filed
<1>10. WorldInv'
  <2>1. c.w.repo \in Repos
    BY <1>7 DEF Allowed
  <2>2. \A j \in Ids : /\ DOMAIN study'[j] = StudyFields
                       /\ study'[j].file # "absent" => study'[j].pack.repo \in Repos
                       /\ study'[j].tb = "understood" \/ study'[j].update = "understood" => j \in closed
    BY <1>6, <1>7, <1>8, <2>1 DEF WorldInv
  <2> QED BY <1>2, <1>5, <1>6, <1>8, <1>9, <2>2 DEF WorldInv
<1>11. WorkInv(s)'
  <2>1. Allowed(s)' = Allowed(s)
    BY <1>2 DEF Allowed
  <2> QED BY <1>4, <1>5, <1>7, <1>8, <1>9, <2>1 DEF WorkInv, RepoInv, UpdateInv, Taking, Loading, TakeInv
<1> QED BY <1>2, <1>3, <1>4, <1>5, <1>9, <1>10, <1>11, CarryStep

\* A session that only moves on while its record is written.
Onward(c, pc) == [c EXCEPT !.pc = pc]

LEMMA OnwardFacts ==
    ASSUME NEW c, DOMAIN c = ConvFields, DOMAIN c.w = WorkFields, NEW pc, NEW o, o = Onward(c, pc)
    PROVE  Carries(c, o) /\ o.pc = pc /\ o.w = c.w
  BY DEF Carries, ConvFields, Onward

LEMMA CreateRecordKeeps == ASSUME StudyInv, NEW s \in Session, CreateRecord(s) PROVE StudyInv'
<1>1. UNCHANGED <<repo, consent, past, advice, closed>> /\ sess[s].pc = "create"
  BY DEF CreateRecord, Quiet
<1>2. PICK c, o : /\ c = sess[s] /\ Carries(c, o) /\ o.pc = "fill" /\ o.w = c.w
                  /\ sess' = [sess EXCEPT ![s] = o] /\ sess'[s] = o
  <2>1. PICK c, o : c = sess[s] /\ o = Onward(c, "fill")
    OBVIOUS
  <2>2. sess' = [sess EXCEPT ![s] = o] /\ sess'[s] = o
    BY <2>1, WorkFacts DEF CreateRecord, Set, Onward
  <2>3. Carries(c, o) /\ o.pc = "fill" /\ o.w = c.w
    BY <2>1, WorkFacts, OnwardFacts
  <2> QED BY <2>1, <2>2, <2>3
<1>3. TakeInv(s) /\ RepoInv(s) /\ WorldInv
  BY <1>1, WorkFacts DEF WorkInv, Taking
<1>4. PICK i, r : i = c.w.id /\ r = [study[i] EXCEPT !.file = "torn"]
  OBVIOUS
<1>5. /\ i \in Filed /\ study[i].pack.repo = c.w.repo /\ c.w.got = <<>> /\ c.w.op = "activate"
      /\ c.w.repo # None /\ c.w.repo \in Allowed(s)
  BY <1>1, <1>2, <1>3, <1>4 DEF TakeInv, RepoInv
<1>6. i \in Ids /\ DOMAIN study[i] = StudyFields
  BY <1>3, <1>5 DEF WorldInv, Filed
<1>7. study' = [study EXCEPT ![i] = r]
  BY <1>2, <1>4 DEF CreateRecord
<1>8. /\ DOMAIN r = StudyFields /\ r.file # "absent" /\ r.pack = study[i].pack
      /\ r.tb = "understood" \/ r.update = "understood" => i \in closed
  BY <1>3, <1>4, <1>6 DEF StudyFields, WorldInv
<1>9. WorldInv' /\ Recorded /\ Filed' = Filed /\ \A j \in Filed : study'[j].pack = study[j].pack
  BY <1>1, <1>2, <1>5, <1>7, <1>8, RecordStays
<1>10. WorkInv(s)'
  <2>1. Allowed(s)' = Allowed(s)
    BY <1>1 DEF Allowed
  <2> QED BY <1>2, <1>4, <1>5, <1>9, <2>1 DEF WorkInv, RepoInv, UpdateInv, Taking, Loading, TakeInv
<1> QED BY <1>1, <1>2, <1>9, <1>10, CarryStep

\* The conversation c once the record of i is complete.
Filled(c, i) == [c EXCEPT !.pc = "load", !.w.loads = <<i>>, !.w.id = 0]

LEMMA FilledFacts ==
    ASSUME NEW c, DOMAIN c = ConvFields, DOMAIN c.w = WorkFields, NEW i, NEW o, o = Filled(c, i)
    PROVE  /\ Carries(c, o) /\ o.pc = "load" /\ o.w.op = c.w.op /\ o.w.got = c.w.got /\ o.w.repo = c.w.repo
           /\ o.w.loads = <<i>>
<1>1. PICK w : w = [c.w EXCEPT !.loads = <<i>>, !.id = 0]
  OBVIOUS
<1>2. DOMAIN w = WorkFields /\ w.op = c.w.op /\ w.got = c.w.got /\ w.repo = c.w.repo /\ w.loads = <<i>>
  BY <1>1 DEF WorkFields
<1>3. o = Moved(c, "load", w)
  BY <1>1 DEF ConvFields, WorkFields, Filled, Moved
<1>4. Carries(c, o) /\ o.pc = "load" /\ o.w = w
  BY <1>2, <1>3, MovedFacts
<1> QED BY <1>2, <1>4

LEMMA FillRecordKeeps == ASSUME StudyInv, NEW s \in Session, FillRecord(s) PROVE StudyInv'
<1>1. UNCHANGED <<repo, consent, past, advice, closed>> /\ sess[s].pc = "fill"
  BY DEF FillRecord, Quiet
<1>2. PICK c, i, r, o, q : /\ c = sess[s] /\ i = c.w.id /\ r = [study[i] EXCEPT !.file = "ok"]
                           /\ o = Filled(c, i) /\ q = o.w.loads
  OBVIOUS
<1>3. sess' = [sess EXCEPT ![s] = o] /\ sess'[s] = o
  BY <1>2, WorkFacts DEF FillRecord, Filled, Set
<1>4. /\ Carries(c, o) /\ o.pc = "load" /\ o.w.op = c.w.op /\ o.w.got = c.w.got /\ o.w.repo = c.w.repo
      /\ q = <<i>>
  BY <1>2, WorkFacts, FilledFacts
<1>5. TakeInv(s) /\ RepoInv(s) /\ WorldInv
  BY <1>1, WorkFacts DEF WorkInv, Taking
<1>6. /\ i \in Filed /\ study[i].pack.repo = c.w.repo /\ c.w.got = <<>> /\ c.w.op = "activate"
      /\ c.w.repo # None /\ c.w.repo \in Allowed(s)
  BY <1>1, <1>2, <1>5 DEF TakeInv, RepoInv
<1>7. i \in Ids /\ DOMAIN study[i] = StudyFields
  BY <1>5, <1>6 DEF WorldInv, Filed
<1>8. study' = [study EXCEPT ![i] = r]
  BY <1>2 DEF FillRecord
<1>9. /\ DOMAIN r = StudyFields /\ r.file # "absent" /\ r.pack = study[i].pack
      /\ r.tb = "understood" \/ r.update = "understood" => i \in closed
  BY <1>2, <1>5, <1>7 DEF StudyFields, WorldInv
<1>10. WorldInv' /\ Recorded /\ Filed' = Filed /\ \A j \in Filed : study'[j].pack = study[j].pack
  BY <1>1, <1>3, <1>6, <1>8, <1>9, RecordStays
<1>11. Allowed(s)' = Allowed(s)
  BY <1>1 DEF Allowed
<1>12. i \in Held(s)'
  BY <1>6, <1>10, <1>11 DEF Held
<1>13. q \in Seq(Ids) /\ q # <<>> /\ Len(q) = 1 /\ \A j \in 1..Len(q) : q[j] = i
  BY <1>4, <1>7
<1>14. WorkInv(s)'
  <2>1. RepoInv(s)' /\ UpdateInv(s)' /\ ~Taking(s)' /\ o.pc # "read"
    BY <1>3, <1>4, <1>6, <1>11 DEF RepoInv, UpdateInv, Taking
  <2>2. Len(o.w.got) = 0 /\ IsList(o.w.got)
    BY <1>4, <1>6, EmptyList
  <2>3. GotInv(s)'
    BY <1>3, <2>2 DEF GotInv
  <2>4. Wanted(s)' = 1
    BY <1>3, <1>4, <1>6 DEF Wanted
  <2>5. LoadInv(s)'
    <3>1. o.w.op \in Ops /\ sess'[s].w.loads = q /\ o.pc = "load"
      BY <1>2, <1>3, <1>4, <1>6 DEF Ops
    <3>2. \A j \in 1..Len(q) : q[j] \in Held(s)'
      BY <1>12, <1>13
    <3>3. Len(o.w.got) + Len(q) = 1
      BY <1>13, <2>2
    <3> QED BY <1>3, <1>13, <2>4, <3>1, <3>2, <3>3 DEF LoadInv
  <2> QED BY <1>3, <1>4, <1>6, <2>1, <2>3, <2>5 DEF WorkInv
<1> QED BY <1>1, <1>2, <1>3, <1>4, <1>10, <1>14, CarryStep
\* A response goes on: its temporary file is created or written.
LEMMA RewriteKeeps ==
    ASSUME StudyInv, NEW s \in Session, UNCHANGED <<repo, consent, past, advice, closed>>,
           NEW c, c = sess[s], c.pc \in {"update", "write"}, NEW pc \in {"write", "replace"},
           c.pc = "update" \/ pc = "replace", NEW o, o = Onward(c, pc), sess' = [sess EXCEPT ![s] = o],
           NEW i, i = c.w.id, NEW u, u = "understood" => i \in closed,
           study' = [study EXCEPT ![i].update = u]
    PROVE  StudyInv'
<1>1. Carries(c, o) /\ o.pc = pc /\ o.w = c.w /\ sess'[s] = o
  BY WorkFacts, OnwardFacts
<1>2. UpdateInv(s) /\ RepoInv(s) /\ WorldInv
  BY WorkFacts DEF WorkInv
<1>3. i \in Filed /\ i \in Ids /\ DOMAIN study[i] = StudyFields /\ (c.w.then = "understood" => i \in closed)
  BY <1>2 DEF UpdateInv, WorldInv, Filed
<1>4. PICK r : r = [study[i] EXCEPT !.update = u]
  OBVIOUS
<1>5. /\ DOMAIN r = StudyFields /\ r.file # "absent" /\ r.pack = study[i].pack
      /\ r.tb = "understood" \/ r.update = "understood" => i \in closed
  BY <1>2, <1>3, <1>4 DEF StudyFields, WorldInv, Filed
<1>6. study' = [study EXCEPT ![i] = r]
  BY <1>4
<1>7. WorldInv' /\ Recorded /\ Filed' = Filed
  BY <1>3, <1>5, <1>6, RecordStays
<1>8. WorkInv(s)'
  <2>1. Allowed(s)' = Allowed(s)
    BY DEF Allowed
  <2>2. RepoInv(s)' /\ UpdateInv(s)'
    BY <1>1, <1>2, <1>3, <1>7, <2>1 DEF RepoInv, UpdateInv
  <2>3. ~Taking(s)' /\ ~Loading(s)'
    BY <1>1 DEF Taking, Loading
  <2> QED BY <2>2, <2>3 DEF WorkInv
<1> QED BY <1>1, <1>7, <1>8, CarryStep

LEMMA CreateUpdateKeeps == ASSUME StudyInv, NEW s \in Session, CreateUpdate(s) PROVE StudyInv'
<1>1. UNCHANGED <<repo, consent, past, advice, closed>> /\ sess[s].pc = "update"
  BY DEF CreateUpdate, Quiet
<1>2. PICK c, i, o : c = sess[s] /\ i = c.w.id /\ o = Onward(c, "write")
  OBVIOUS
<1>3. CASE study[i].update = "absent"
  <2>1. sess' = [sess EXCEPT ![s] = o]
    BY <1>2, <1>3 DEF CreateUpdate, Set, Onward
  <2>2. PICK u : u = "torn"
    OBVIOUS
  <2>3. study' = [study EXCEPT ![i].update = u] /\ u # "understood"
    BY <1>2, <1>3, <2>2 DEF CreateUpdate
  <2> QED BY <1>1, <1>2, <2>1, <2>3, RewriteKeeps
<1>4. CASE study[i].update # "absent"
  <2>1. Stop(s, sess[s]) /\ study' = study
    BY <1>2, <1>4 DEF CreateUpdate
  <2> QED BY <1>1, <2>1, StopKeeps
<1> QED BY <1>3, <1>4

LEMMA WriteUpdateKeeps == ASSUME StudyInv, NEW s \in Session, WriteUpdate(s) PROVE StudyInv'
<1>1. UNCHANGED <<repo, consent, past, advice, closed>> /\ sess[s].pc = "write"
  BY DEF WriteUpdate, Quiet
<1>2. PICK c, i, o, u : c = sess[s] /\ i = c.w.id /\ o = Onward(c, "replace") /\ u = c.w.then
  OBVIOUS
<1>3. study' = [study EXCEPT ![i].update = u] /\ sess' = [sess EXCEPT ![s] = o]
  BY <1>2 DEF WriteUpdate, Set, Onward
<1>4. u = "understood" => i \in closed
  BY <1>1, <1>2, WorkFacts DEF WorkInv, UpdateInv
<1> QED BY <1>1, <1>2, <1>3, <1>4, RewriteKeeps

LEMMA ReplaceRecordKeeps == ASSUME StudyInv, NEW s \in Session, ReplaceRecord(s) PROVE StudyInv'
<1>1. UNCHANGED <<repo, consent, past, advice, closed>> /\ sess[s].pc = "replace"
  BY DEF ReplaceRecord, Quiet
<1>2. PICK c, i, o, r : /\ c = sess[s] /\ i = c.w.id /\ o = Moved(c, "prompt", Idle)
                        /\ r = [study[i] EXCEPT !.tb = study[i].update, !.update = "absent"]
  BY Zenon
<1>3. i \in Filed /\ WorldInv
  BY <1>1, <1>2, WorkFacts DEF WorkInv, UpdateInv
<1>4. i \in Ids /\ DOMAIN study = Ids /\ DOMAIN study[i] = StudyFields
  BY <1>3 DEF WorldInv, Filed
<1>5. study' = [study EXCEPT ![i] = r]
  BY <1>2, <1>4 DEF ReplaceRecord, StudyFields
<1>6. /\ DOMAIN r = StudyFields /\ r.file # "absent" /\ r.pack = study[i].pack
      /\ r.tb = "understood" \/ r.update = "understood" => i \in closed
  BY <1>2, <1>3, <1>4 DEF StudyFields, WorldInv, Filed
<1>7. sess' = [sess EXCEPT ![s] = o] /\ sess'[s] = o
  BY <1>2, WorkFacts DEF ReplaceRecord, Stop, Set, Moved
<1>8. Carries(c, o) /\ o.pc = "prompt" /\ o.w = Idle
  <2>1. DOMAIN Idle = WorkFields
    BY DEF Idle, WorkFields
  <2> QED BY <1>2, <2>1, WorkFacts, MovedFacts
<1>9. WorldInv' /\ Recorded
  BY <1>1, <1>3, <1>5, <1>6, <1>7, RecordStays
<1>10. WorkInv(s)'
  BY <1>7, <1>8, StopWork
<1> QED BY <1>1, <1>2, <1>7, <1>8, <1>9, <1>10, CarryStep
-----------------------------------------------------------------------------
(* What a turn does with the studies it loaded.                            *)

LEMMA FinishFacts ==
    ASSUME StudyInv, NEW s \in Session, sess[s].pc = "finish"
    PROVE  /\ WorldInv /\ GotInv(s) /\ sess[s].w.op \in Ops /\ sess[s].w.loads = <<>>
           /\ RepoInv(s) /\ Len(sess[s].w.got) = Wanted(s)
           /\ sess[s].w.op = "implement" => CheckedInv(s)
<1>1. WorldInv /\ RepoInv(s) /\ GotInv(s) /\ LoadInv(s) /\ (sess[s].w.op = "implement" => CheckedInv(s))
  BY WorkFacts DEF WorkInv, Loading
<1>2. sess[s].w.loads = <<>> /\ sess[s].w.op \in Ops /\ Len(sess[s].w.got) + Len(sess[s].w.loads) = Wanted(s)
  BY <1>1 DEF LoadInv
<1>3. Len(sess[s].w.got) \in Nat /\ Len(sess[s].w.loads) = 0
  BY <1>1, <1>2, ListFacts, EmptyList DEF GotInv
<1>4. Len(sess[s].w.got) = Wanted(s)
  BY <1>2, <1>3
<1> QED BY <1>1, <1>2, <1>4

\* The study loaded at place k.
LEMMA GotFacts ==
    ASSUME StudyInv, NEW s \in Session, sess[s].pc = "finish", NEW k \in 1..Wanted(s),
           NEW g, g = sess[s].w.got[k]
    PROVE  g.id \in Held(s) /\ g.id \in Ids /\ (g.tb = "understood" => g.id \in closed)
  BY FinishFacts DEF GotInv, Held, Filed

\* The conversation once the study i is at hand.
Active(c, i, target) ==
    [c EXCEPT !.pc = "prompt", !.active = i, !.known = @ \cup {i}, !.target = target,
              !.report = NoReport, !.w = Idle]

LEMMA ActiveFacts ==
    ASSUME NEW c, DOMAIN c = ConvFields, NEW i, NEW target, NEW a, a = Active(c, i, target)
    PROVE  /\ DOMAIN a = ConvFields /\ DOMAIN a.w = WorkFields /\ a.pc = "prompt" /\ a.w = Idle
           /\ a.active = i /\ a.known = c.known \cup {i} /\ a.target = target /\ a.report = NoReport
           /\ a.pending = c.pending /\ a.cmd = c.cmd /\ a.shown = c.shown
<1>1. DOMAIN Idle = WorkFields
  BY DEF Idle, WorkFields
<1>2. /\ DOMAIN a = ConvFields /\ a.pc = "prompt" /\ a.w = Idle
      /\ a.active = i /\ a.known = c.known \cup {i} /\ a.target = target /\ a.report = NoReport
      /\ a.pending = c.pending /\ a.cmd = c.cmd /\ a.shown = c.shown
  BY DEF ConvFields, Active
<1> QED BY <1>1, <1>2

\* What a conversation goes on with once its study is at hand: nothing, or a response.
LEMMA ActivatedFacts ==
    ASSUME NEW a, DOMAIN a = ConvFields, DOMAIN a.w = WorkFields, NEW text, NEW o,
           o = a \/ o = Responding(a, text)
    PROVE  Carries(a, o) /\ (o = a \/ Loads(o, "respond", <<a.active>>))
<1>1. CASE o = a
  BY <1>1 DEF Carries
<1>2. CASE o = Responding(a, text) /\ a.active = 0
  BY <1>2 DEF Carries, Responding
<1>3. CASE o = Responding(a, text) /\ a.active # 0
  <2>1. PICK p : p = Working(a, "respond", <<a.active>>)
    OBVIOUS
  <2>2. o = [p EXCEPT !.w.then = text]
    BY <1>3, <2>1 DEF Responding
  <2>3. Carries(a, p) /\ Loads(p, "respond", <<a.active>>)
    BY <2>1, WorkingFacts
  <2> QED BY <2>2, <2>3, ThenFacts
<1> QED BY <1>1, <1>2, <1>3

LEMMA ActivateKeeps ==
    ASSUME StudyInv, NEW s \in Session, UNCHANGED <<repo, consent, past, advice, study, closed>>,
           sess[s].pc = "finish", sess[s].w.op = "activate", Activate(s)
    PROVE  StudyInv'
<1>1. PICK c, g, i, target, text, a, o :
         /\ c = sess[s] /\ g = c.w.got[1] /\ i = g.id /\ text = c.w.then
         /\ target = IF g.pack.repo = Here THEN i ELSE c.target
         /\ a = Active(c, i, target) /\ o = IF text = "none" THEN a ELSE Responding(a, text)
  OBVIOUS
<1>2. sess' = [sess EXCEPT ![s] = o] /\ sess'[s] = o
  BY Zenon, <1>1, WorkFacts DEF Activate, Active, Set
<1>3. i \in Held(s) /\ i \in Ids
  <2>1. 1 \in 1..Wanted(s)
    BY DEF Wanted
  <2> QED BY <1>1, <2>1, GotFacts
<1>4. /\ DOMAIN a = ConvFields /\ DOMAIN a.w = WorkFields /\ a.pc = "prompt" /\ a.w = Idle
      /\ a.active = i /\ a.known = c.known \cup {i} /\ a.target = target /\ a.report = NoReport
      /\ a.pending = c.pending /\ a.cmd = c.cmd /\ a.shown = c.shown
  <2>1. DOMAIN c = ConvFields /\ a = Active(c, i, target)
    BY <1>1, WorkFacts
  <2> QED BY <2>1, ActiveFacts
<1>5. o = a \/ o = Responding(a, text)
  BY Zenon, <1>1
<1>6. Carries(a, o) /\ (o = a \/ Loads(o, "respond", <<i>>))
  BY <1>4, <1>5, ActivatedFacts
<1>7. Held(s)' = Held(s)
  BY DEF Held, Filed, Allowed
<1>8. HandInv(s) /\ target \in {i, c.target}
  BY <1>1 DEF StudyInv, ConvInv
<1>9. HandInv(s)'
  <2>1. /\ c.known \subseteq Held(s) /\ c.target \in c.known \cup {0} /\ c.shown \in Seq(Repos)
        /\ c.pending # NoPending =>
             c.cmd \in 1..Len(c.shown) /\ c.pending.repo = c.shown[c.cmd] /\ c.pending.id \in {0} \cup Ids
    BY <1>1, <1>8 DEF HandInv
  <2>2. o.known \subseteq Held(s)' /\ o.active \in o.known \cup {0} /\ o.target \in o.known \cup {0}
    BY <1>3, <1>4, <1>6, <1>7, <1>8, <2>1 DEF Carries
  <2> QED BY <1>2, <1>4, <1>6, <2>1, <2>2 DEF HandInv, Carries
<1>10. OverInv(s)'
  BY <1>2, <1>4, <1>6, EmptyReport DEF OverInv, Carries
<1>11. WorkInv(s)'
  <2>1. CASE o = a
    BY <1>2, <1>4, <2>1, StopWork
  <2>2. CASE Loads(o, "respond", <<i>>)
    <3>1. Begins(s, o) /\ o.pc = "load"
      BY <1>3, <1>7, <2>2, LoadsOne DEF Ops, Loads
    <3> QED BY <1>2, <3>1, BeginsWork
  <2> QED BY <1>6, <2>1, <2>2
<1>12. WorldInv' /\ Recorded
  BY <1>2, WorldStays, WorkFacts DEF WorldInv
<1>13. AdviceInv(s)'
  <2>1. Grows(s) /\ Recalls(s) /\ AdviceInv(s)
    BY DEF Grows, Recalls, Was, HeadWas, StudyInv
  <2> QED BY <2>1, OtherAdvice
<1> QED BY Zenon, <1>2, <1>9, <1>10, <1>11, <1>12, <1>13, StepKeeps

\* The conversation that closes or repeats the explanation of study i.
Answering(c, i, text) == [c EXCEPT !.pc = "update", !.w.id = i, !.w.got = <<>>, !.w.todo = {}, !.w.then = text]

LEMMA AnsweringFacts ==
    ASSUME NEW c, DOMAIN c = ConvFields, DOMAIN c.w = WorkFields, NEW i, NEW text, NEW o,
           o = Answering(c, i, text)
    PROVE  Carries(c, o) /\ o.pc = "update" /\ o.w.repo = c.w.repo /\ o.w.id = i /\ o.w.then = text
<1>1. PICK w : w = [c.w EXCEPT !.id = i, !.got = <<>>, !.todo = {}, !.then = text]
  OBVIOUS
<1>2. DOMAIN w = WorkFields /\ w.repo = c.w.repo /\ w.id = i /\ w.then = text
  BY <1>1 DEF WorkFields
<1>3. o = Moved(c, "update", w)
  BY Zenon, <1>1 DEF ConvFields, WorkFields, Answering, Moved
<1>4. Carries(c, o) /\ o.pc = "update" /\ o.w = w
  BY <1>2, <1>3, MovedFacts
<1> QED BY <1>2, <1>4

LEMMA AnswerKeeps ==
    ASSUME StudyInv, NEW s \in Session, Finish(s), sess[s].w.op = "respond"
    PROVE  StudyInv'
<1>0. UNCHANGED <<repo, consent, past, advice, study>> /\ sess[s].pc = "finish"
  BY DEF Finish, bounds
<1>1. PICK c, g, i, text, o : /\ c = sess[s] /\ g = c.w.got[1] /\ i = g.id
                              /\ text = Teachback(g.tb, c.w.then) /\ o = Answering(c, i, text)
  OBVIOUS
<1>2. sess' = [sess EXCEPT ![s] = o] /\ sess'[s] = o
  BY Zenon, <1>1, WorkFacts DEF Finish, Answering, Set
<1>3. i \in Held(s) /\ i \in Filed /\ (g.tb = "understood" => i \in closed)
  <2>1. 1 \in 1..Wanted(s)
    BY DEF Wanted
  <2> QED BY <1>0, <1>1, <2>1, GotFacts DEF Held
<1>4. Carries(c, o) /\ o.pc = "update" /\ o.w.repo = c.w.repo /\ o.w.id = i /\ o.w.then = text
  <2>1. DOMAIN c = ConvFields /\ DOMAIN c.w = WorkFields /\ o = Answering(c, i, text)
    BY <1>1, WorkFacts
  <2> QED BY <2>1, AnsweringFacts
<1>5. closed' = IF c.w.then = ":entendido" THEN closed \cup {i} ELSE closed
  BY <1>1 DEF Finish
<1>6. closed \subseteq closed' /\ closed' \subseteq closed \cup {i} /\ (text = "understood" => i \in closed')
  BY <1>1, <1>3, <1>5 DEF Teachback
<1>7. WorldInv' /\ Recorded /\ Filed' = Filed
  <2>1. WorldInv /\ DOMAIN sess' = Session /\ Filed' = Filed
    BY <1>0, <1>2, WorkFacts DEF WorldInv, Filed
  <2> QED BY <1>0, <1>3, <1>6, <2>1 DEF WorldInv, Recorded
<1>8. WorkInv(s)'
  <2>1. Allowed(s)' = Allowed(s) /\ RepoInv(s)
    BY <1>0, FinishFacts DEF Allowed
  <2>2. RepoInv(s)'
    <3>1. o.w.repo = sess[s].w.repo
      BY Zenon, <1>1, <1>4
    <3> QED BY <1>2, <2>1, <3>1 DEF RepoInv
  <2>3. UpdateInv(s)'
    BY <1>2, <1>3, <1>4, <1>6, <1>7 DEF UpdateInv
  <2>4. ~Taking(s)' /\ ~Loading(s)'
    BY <1>2, <1>4 DEF Taking, Loading
  <2> QED BY <2>2, <2>3, <2>4 DEF WorkInv
<1> QED BY Zenon, <1>0, <1>1, <1>2, <1>4, <1>6, <1>7, <1>8, CarryStep
\* The conversation that has a report.
Told(c, report) == [c EXCEPT !.report = report, !.pc = "prompt", !.w = Idle]

LEMMA ToldFacts ==
    ASSUME NEW c, DOMAIN c = ConvFields, NEW report, NEW o, o = Told(c, report)
    PROVE  /\ DOMAIN o = ConvFields /\ DOMAIN o.w = WorkFields /\ o.pc = "prompt" /\ o.w = Idle
           /\ o.known = c.known /\ o.active = c.active /\ o.target = c.target /\ o.report = report
           /\ o.pending = c.pending /\ o.cmd = c.cmd /\ o.shown = c.shown
<1>1. DOMAIN Idle = WorkFields
  BY DEF Idle, WorkFields
<1>2. /\ DOMAIN o = ConvFields /\ o.pc = "prompt" /\ o.w = Idle
      /\ o.known = c.known /\ o.active = c.active /\ o.target = c.target /\ o.report = report
      /\ o.pending = c.pending /\ o.cmd = c.cmd /\ o.shown = c.shown
  BY DEF ConvFields, Told
<1> QED BY <1>1, <1>2

\* A report over studies that were understood.
LEMMA ToldKeeps ==
    ASSUME StudyInv, NEW s \in Session, UNCHANGED <<repo, consent, past, advice, study, closed>>,
           NEW report, report.over \in Seq(Ids), report.over # <<>>,
           \A k \in 1..Len(report.over) : report.over[k] \in Held(s) \cap closed,
           sess' = [sess EXCEPT ![s] = Told(sess[s], report)]
    PROVE  StudyInv'
<1>1. PICK c, o : c = sess[s] /\ o = Told(c, report)
  OBVIOUS
<1>2. sess' = [sess EXCEPT ![s] = o] /\ sess'[s] = o
  BY <1>1, WorkFacts
<1>3. /\ DOMAIN o = ConvFields /\ DOMAIN o.w = WorkFields /\ o.pc = "prompt" /\ o.w = Idle
      /\ o.known = c.known /\ o.active = c.active /\ o.target = c.target /\ o.report = report
      /\ o.pending = c.pending /\ o.cmd = c.cmd /\ o.shown = c.shown
  BY <1>1, WorkFacts, ToldFacts
<1>4. Held(s)' = Held(s) /\ HandInv(s)
  BY DEF Held, Filed, Allowed, StudyInv, ConvInv
<1>5. HandInv(s)'
  BY <1>1, <1>2, <1>3, <1>4 DEF HandInv
<1>6. OverInv(s)'
  BY <1>2, <1>3, <1>4 DEF OverInv
<1>7. WorkInv(s)'
  BY <1>2, <1>3, StopWork
<1>8. WorldInv' /\ Recorded
  BY <1>2, WorldStays, WorkFacts DEF WorldInv
<1>9. AdviceInv(s)'
  <2>1. Grows(s) /\ Recalls(s) /\ AdviceInv(s)
    BY DEF Grows, Recalls, Was, HeadWas, StudyInv
  <2> QED BY <2>1, OtherAdvice
<1> QED BY <1>2, <1>5, <1>6, <1>7, <1>8, <1>9, StepKeeps

LEMMA FinishRecommend ==
    ASSUME StudyInv, NEW s \in Session, Finish(s), sess[s].w.op = "recommend"
    PROVE  StudyInv'
<1>1. UNCHANGED <<repo, consent, past, advice, study, closed>> /\ sess[s].pc = "finish"
  BY DEF Finish, bounds
<1>2. CASE Stop(s, sess[s])
  BY <1>1, <1>2, StopKeeps
<1>3. CASE AllUnderstood(sess[s].w.got) /\ Reported(s, <<sess[s].w.got[1].id>>, Recommendations(sess[s].w.got[1].pack))
  <2>1. PICK got, g, i, q : got = sess[s].w.got /\ g = got[1] /\ i = g.id /\ q = <<i>>
    OBVIOUS
  <2>2. PICK items, report : items = Recommendations(g.pack) /\ report = [items |-> items, over |-> q]
    OBVIOUS
  <2>3. Wanted(s) = 1
    BY DEF Wanted
  <2>4. Len(got) = 1
    BY <1>1, <2>1, <2>3, FinishFacts
  <2>5. g.tb = "understood"
    BY <1>3, <2>1, <2>4 DEF AllUnderstood
  <2>6. i \in Held(s) \cap closed /\ i \in Ids
    BY <1>1, <2>1, <2>3, <2>5, GotFacts
  <2>7. q \in Seq(Ids) /\ q # <<>> /\ \A k \in 1..Len(q) : q[k] = i
    BY <2>1, <2>6
  <2>8. report.over = q
    BY <2>2
  <2>9. sess' = [sess EXCEPT ![s] = Told(sess[s], report)]
    BY <1>3, <2>1, <2>2, WorkFacts DEF Reported, Stop, Set, Told, ConvFields
  <2> QED BY <1>1, <2>6, <2>7, <2>8, <2>9, ToldKeeps
<1> QED BY <1>2, <1>3 DEF Finish

LEMMA FinishCompare ==
    ASSUME StudyInv, NEW s \in Session, Finish(s), sess[s].w.op = "compare"
    PROVE  StudyInv'
<1>1. UNCHANGED <<repo, consent, past, advice, study, closed>> /\ sess[s].pc = "finish"
  BY DEF Finish, bounds
<1>2. CASE Stop(s, sess[s])
  BY <1>1, <1>2, StopKeeps
<1>3. CASE AllUnderstood(sess[s].w.got) /\ Reported(s, <<sess[s].w.got[1].id, sess[s].w.got[2].id>>, Lessons(sess[s].w.got[1].pack))
  <2>1. PICK got, g, h, i, j, q : /\ got = sess[s].w.got /\ g = got[1] /\ h = got[2] /\ i = g.id /\ j = h.id
                                  /\ q = <<i, j>>
    OBVIOUS
  <2>2. PICK items, report : items = Lessons(g.pack) /\ report = [items |-> items, over |-> q]
    OBVIOUS
  <2>3. Wanted(s) = 2
    BY DEF Wanted
  <2>4. Len(got) = 2
    BY <1>1, <2>1, <2>3, FinishFacts
  <2>5. g.tb = "understood" /\ h.tb = "understood"
    BY <1>3, <2>1, <2>4 DEF AllUnderstood
  <2>6. {i, j} \subseteq Held(s) \cap closed /\ {i, j} \subseteq Ids
    <3>1. 1 \in 1..Wanted(s) /\ 2 \in 1..Wanted(s)
      BY <2>3
    <3>2. i \in Held(s) /\ i \in Ids /\ i \in closed
      BY <1>1, <2>1, <2>5, <3>1, GotFacts
    <3>3. j \in Held(s) /\ j \in Ids /\ j \in closed
      BY <1>1, <2>1, <2>5, <3>1, GotFacts
    <3> QED BY <3>2, <3>3
  <2>7. q \in Seq(Ids) /\ q # <<>> /\ \A k \in 1..Len(q) : q[k] \in {i, j}
    BY <2>1, <2>6
  <2>8. report.over = q
    BY <2>2
  <2>9. sess' = [sess EXCEPT ![s] = Told(sess[s], report)]
    BY <1>3, <2>1, <2>2, WorkFacts DEF Reported, Stop, Set, Told, ConvFields
  <2> QED BY <1>1, <2>6, <2>7, <2>8, <2>9, ToldKeeps
<1> QED BY <1>2, <1>3 DEF Finish

\* The studies in the list, each with its pack.
Packs(over) == [i \in 1..Len(over) |-> [id |-> over[i], pack |-> study[over[i]].pack]]

LEMMA FinishImplement ==
    ASSUME StudyInv, NEW s \in Session, Finish(s), sess[s].w.op = "implement"
    PROVE  StudyInv'
<1>1. UNCHANGED <<repo, consent, past, study, closed>> /\ sess[s].pc = "finish"
  BY DEF Finish, bounds
<1>2. PICK c, over, a, o : /\ c = sess[s] /\ over = c.report.over /\ o = Moved(c, "prompt", Idle)
                           /\ a = IF c.report.items = {} THEN <<>> ELSE Packs(over)
  OBVIOUS
<1>3. sess' = [sess EXCEPT ![s] = o] /\ advice' = [advice EXCEPT ![s] = a]
  BY <1>2 DEF Finish, Stop, Set, Moved, Packs
<1>4. sess'[s] = o /\ DOMAIN advice' = Session /\ advice'[s] = a
  BY <1>3, WorkFacts DEF WorldInv
<1>5. Carries(c, o) /\ o.pc = "prompt" /\ o.w = Idle
  <2>1. DOMAIN Idle = WorkFields
    BY DEF Idle, WorkFields
  <2>2. DOMAIN c = ConvFields /\ o = Moved(c, "prompt", Idle)
    BY <1>2, WorkFacts
  <2> QED BY <2>1, <2>2, MovedFacts
<1>6. Fresh(s)' = Fresh(s) /\ Grows(s)
  BY <1>1 DEF Fresh, Filed, WasSeen, Was, HeadWas, Grows
<1>7. HandInv(s)' /\ OverInv(s)'
  BY <1>2, <1>4, <1>5, <1>6, CarryFacts
<1>8. WorkInv(s)'
  BY <1>4, <1>5, StopWork
<1>9. WorldInv' /\ Recorded
  BY <1>1, <1>3, <1>4, WorldStays
<1>10. AdviceInv(s)'
  <2>1. CASE a = <<>>
    BY <1>4, <2>1 DEF AdviceInv
  <2>2. CASE a = Packs(over)
    <3>1. CheckedInv(s) /\ c.w.loads = <<>> /\ OverInv(s)
      BY <1>1, <1>2, FinishFacts, WorkFacts
    <3>2. Len(over) \in Nat /\ \A k \in 1..Len(over) : over[k] \in closed
      BY <1>2, <3>1 DEF OverInv
    <3>3. \A k \in 1..Len(over) : over[k] \in Fresh(s)
      <4>1. Len(c.w.loads) = 0
        BY <3>1, EmptyList
      <4>2. \A k \in 1..(Len(over) - Len(c.w.loads)) : over[k] \in Fresh(s)
        BY <1>2, <3>1 DEF CheckedInv
      <4>3. Len(over) - Len(c.w.loads) = Len(over)
        BY <3>2, <4>1
      <4> QED BY <4>2, <4>3
    <3>4. /\ Len(a) = Len(over)
          /\ \A k \in 1..Len(over) : a[k].id = over[k] /\ a[k].pack = study[over[k]].pack
      BY <2>2, <3>2 DEF Packs
    <3> QED BY <1>1, <1>4, <1>6, <3>2, <3>3, <3>4 DEF AdviceInv
  <2> QED BY <1>2, <2>1, <2>2
<1> QED BY <1>1, <1>3, <1>7, <1>8, <1>9, <1>10, StepKeeps

LEMMA FinishKeeps == ASSUME StudyInv, NEW s \in Session, Finish(s) PROVE StudyInv'
<1>1. sess[s].pc = "finish" /\ sess[s].w.op \in Ops
  BY FinishFacts DEF Finish
<1>2. CASE sess[s].w.op = "activate"
  <2>1. UNCHANGED <<repo, consent, past, advice, study, closed>> /\ Activate(s)
    BY <1>2 DEF Finish, bounds
  <2> QED BY <1>1, <1>2, <2>1, ActivateKeeps
<1> QED BY <1>1, <1>2, AnswerKeeps, FinishRecommend, FinishCompare, FinishImplement DEF Ops
-----------------------------------------------------------------------------
(* The world.                                                              *)

\* An edit or a commit leaves every session what it has: what it read before was replaced since.
LEMMA WorldKeeps ==
    ASSUME StudyInv, UNCHANGED <<study, sess, consent, closed, advice>>, WorldInv',
           \A t \in Session : Recalls(t)
    PROVE  StudyInv'
<1>1. \A t \in Session : Grows(t)
  BY DEF Grows
<1>2. \A t \in Session : ConvInv(t)' /\ AdviceInv(t)'
  BY <1>1, OtherConv, OtherAdvice DEF StudyInv
<1> QED BY <1>2 DEF StudyInv

LEMMA EditKeeps ==
    ASSUME StudyInv, NEW r \in Repos, NEW f \in Files, NEW v, Edit(r, f, v)
    PROVE  StudyInv'
<1>1. /\ UNCHANGED <<study, sess, consent, closed, advice>> /\ repo' = [repo EXCEPT ![r].disk[f] = v]
      /\ past' = [s \in Session |-> past[s] \cup {<<r, f, repo[r].disk[f]>>}] /\ WorldInv
  BY DEF Edit, Replaced, StudyInv
<1>2. /\ DOMAIN repo' = Repos /\ DOMAIN repo'[r] = RepoFields /\ DOMAIN repo'[r].disk = Files
      /\ repo'[r].head = repo[r].head /\ \A g \in Files \ {f} : repo'[r].disk[g] = repo[r].disk[g]
      /\ \A q \in Repos \ {r} : repo'[q] = repo[q]
  BY <1>1 DEF WorldInv, RepoFields
<1>3. WorldInv'
  <2>1. \A q \in Repos : DOMAIN repo'[q] = RepoFields /\ DOMAIN repo'[q].disk = Files
    BY <1>1, <1>2 DEF WorldInv
  <2> QED BY <1>1, <1>2, <2>1 DEF WorldInv, Filed
<1>4. ASSUME NEW t \in Session PROVE Recalls(t)
  <2>1. past[t] \subseteq past'[t] /\ <<r, f, repo[r].disk[f]>> \in past'[t]
    BY <1>1
  <2>2. ASSUME NEW q \in Repos, NEW g \in Files, NEW u, Was(t, q, g, u) PROVE Was(t, q, g, u)'
    <3>1. CASE <<q, g, u>> \in past[t]
      BY <2>1, <3>1 DEF Was
    <3>2. CASE repo[q].disk[g] = u /\ q = r /\ g = f
      BY <2>1, <3>2 DEF Was
    <3>3. CASE repo[q].disk[g] = u /\ ~(q = r /\ g = f)
      BY <1>2, <3>3 DEF Was
    <3> QED BY <2>2, <3>1, <3>2, <3>3 DEF Was
  <2>3. ASSUME NEW q \in Repos, NEW u, HeadWas(t, q, u) PROVE HeadWas(t, q, u)'
    BY <1>2, <2>1, <2>3 DEF HeadWas
  <2> QED BY <2>2, <2>3 DEF Recalls
<1> QED BY <1>1, <1>3, <1>4, WorldKeeps

LEMMA CommitKeeps == ASSUME StudyInv, NEW r \in Repos, Commit(r) PROVE StudyInv'
<1>1. /\ UNCHANGED <<study, sess, consent, closed, advice>> /\ repo' = [repo EXCEPT ![r].head = @ + 1]
      /\ past' = [s \in Session |-> past[s] \cup {<<r, "head", repo[r].head>>}] /\ WorldInv
  BY DEF Commit, Replaced, StudyInv
<1>2. /\ DOMAIN repo' = Repos /\ DOMAIN repo'[r] = RepoFields /\ repo'[r].disk = repo[r].disk
      /\ \A q \in Repos \ {r} : repo'[q] = repo[q]
  BY <1>1 DEF WorldInv, RepoFields
<1>3. WorldInv'
  <2>1. \A q \in Repos : DOMAIN repo'[q] = RepoFields /\ DOMAIN repo'[q].disk = Files
    BY <1>1, <1>2 DEF WorldInv
  <2> QED BY <1>1, <1>2, <2>1 DEF WorldInv, Filed
<1>4. ASSUME NEW t \in Session PROVE Recalls(t)
  <2>1. past[t] \subseteq past'[t] /\ <<r, "head", repo[r].head>> \in past'[t]
    BY <1>1
  <2>2. ASSUME NEW q \in Repos, NEW g \in Files, NEW u, Was(t, q, g, u) PROVE Was(t, q, g, u)'
    <3>1. repo'[q].disk = repo[q].disk
      BY <1>2
    <3> QED BY <2>1, <2>2, <3>1 DEF Was
  <2>3. ASSUME NEW q \in Repos, NEW u, HeadWas(t, q, u) PROVE HeadWas(t, q, u)'
    <3>1. CASE <<q, "head", u>> \in past[t]
      BY <2>1, <3>1 DEF HeadWas
    <3>2. CASE repo[q].head = u /\ q = r
      BY <2>1, <3>2 DEF HeadWas
    <3>3. CASE repo[q].head = u /\ q # r
      BY <1>2, <3>3 DEF HeadWas
    <3> QED BY <2>3, <3>1, <3>2, <3>3 DEF HeadWas
  <2> QED BY <2>2, <2>3 DEF Recalls
<1> QED BY <1>1, <1>3, <1>4, WorldKeeps

\* A conversation at the start with the studies K at hand, or one that is not open.
Blank(c, K) ==
    /\ DOMAIN c = ConvFields /\ c.pc \in {"prompt", "closed"} /\ c.w = Idle /\ c.known = K
    /\ c.active \in K \cup {0} /\ c.target \in K \cup {0}
    /\ c.shown = <<>> /\ c.pending = NoPending /\ c.report = NoReport

LEMMA BlankFacts ==
    /\ Blank(NewConversation, {}) /\ Blank([NewConversation EXCEPT !.pc = "closed"], {})
    /\ Blank(Conversing(0), {})
    /\ \A i : i # 0 => Blank(Conversing(i), {i})
  BY DEF Blank, NewConversation, Conversing, ConvFields

LEMMA BlankConv ==
    ASSUME NEW s \in Session, NEW K \in SUBSET Held(s), Blank(sess[s], K)
    PROVE  ConvInv(s)
<1>1. DOMAIN Idle = WorkFields /\ Idle.repo = None
  BY DEF Idle, WorkFields
<1>2. HandInv(s)
  <2>1. <<>> \in Seq(Repos)
    OBVIOUS
  <2> QED BY <1>1, <2>1 DEF Blank, HandInv
<1>3. OverInv(s)
  BY EmptyReport DEF Blank, OverInv
<1>4. WorkInv(s)
  BY <1>1 DEF Blank, WorkInv, RepoInv, UpdateInv, Taking, Loading
<1> QED BY <1>2, <1>3, <1>4 DEF ConvInv

LEMMA BlankConvNext == ASSUME NEW s \in Session, Blank(sess'[s], {}) PROVE ConvInv(s)'
<1>1. DOMAIN Idle = WorkFields /\ Idle.repo = None
  BY DEF Idle, WorkFields
<1>2. HandInv(s)'
  <2>1. <<>> \in Seq(Repos)
    OBVIOUS
  <2> QED BY <1>1, <2>1 DEF Blank, HandInv
<1>3. OverInv(s)'
  BY EmptyReport DEF Blank, OverInv
<1>4. WorkInv(s)'
  BY <1>1 DEF Blank, WorkInv, RepoInv, UpdateInv, Taking, Loading
<1> QED BY <1>2, <1>3, <1>4 DEF ConvInv

LEMMA CrashKeeps == ASSUME StudyInv, NEW s \in Session, Crash(s) PROVE StudyInv'
<1>1. PICK o : o = NewConversation
  OBVIOUS
<1>2. /\ UNCHANGED <<repo, study, closed, past>> /\ sess' = [sess EXCEPT ![s] = o] /\ WorldInv
      /\ consent' = [consent EXCEPT ![s] = {}] /\ advice' = [advice EXCEPT ![s] = <<>>]
  BY <1>1 DEF Crash, Set, StudyInv
<1>3. Others(s) /\ sess'[s] = o /\ advice'[s] = <<>>
  BY <1>2 DEF WorldInv, Others
<1>4. WorldInv'
  BY <1>2, <1>3 DEF WorldInv, Others, Filed
<1>5. ConvInv(s)'
  BY <1>1, <1>3, BlankFacts, BlankConvNext
<1>6. AdviceInv(s)'
  BY <1>3 DEF AdviceInv
<1>7. \A t \in Session \ {s} : ConvInv(t)' /\ AdviceInv(t)'
  <2>1. \A t \in Session \ {s} : Grows(t)
    BY <1>2, <1>3 DEF Grows, Others
  <2> QED BY <1>2, <1>3, <2>1, OthersKeep
<1> QED BY <1>4, <1>5, <1>6, <1>7 DEF StudyInv

-----------------------------------------------------------------------------
(* The theorems.                                                           *)

LEMMA StudyInit == Init => StudyInv
<1> SUFFICES ASSUME Init PROVE StudyInv
  OBVIOUS
<1>1. PICK sc \in Scenarios :
         /\ repo = sc.repo /\ study = sc.studies /\ closed = {i \in Ids : sc.studies[i].tb = "understood"}
         /\ \E open \in SUBSET Session :
              sess = [s \in Session |-> IF s \in open THEN Conversing(sc.hand)
                                        ELSE [NewConversation EXCEPT !.pc = "closed"]]
  BY DEF Init
<1>2. /\ consent = [s \in Session |-> {}] /\ past = [s \in Session |-> {}] /\ advice = [s \in Session |-> <<>>]
  BY DEF Init
<1>3. PICK open : sess = [s \in Session |-> IF s \in open THEN Conversing(sc.hand)
                                            ELSE [NewConversation EXCEPT !.pc = "closed"]]
  BY <1>1
<1>4. WorldInv
  <2>1. DOMAIN sess = Session
    BY <1>3
  <2> QED BY <1>1, <1>2, <2>1, ScenarioAssumption DEF WorldInv, Repos, Ids, Filed, StudyFields, RepoFields
<1>5. ASSUME NEW s \in Session PROVE ConvInv(s)
  <2>1. sess[s] = Conversing(sc.hand) \/ sess[s] = [NewConversation EXCEPT !.pc = "closed"]
    BY <1>3
  <2>2. sc.hand # 0 => sc.hand \in Held(s)
    <3>1. sc.hand # 0 => sc.hand \in Ids /\ study[sc.hand].file = "ok" /\ study[sc.hand].pack.repo = Here
      BY <1>1, ScenarioAssumption DEF Ids
    <3> QED BY <3>1, RepositoryAssumption DEF Held, Filed, Allowed, Repos
  <2>3. \E K \in SUBSET Held(s) : Blank(sess[s], K)
    <3>1. CASE sess[s] = Conversing(sc.hand) /\ sc.hand # 0
      BY <2>2, <3>1, BlankFacts
    <3>2. CASE sess[s] = Conversing(sc.hand) /\ sc.hand = 0
      BY <3>2, BlankFacts
    <3>3. CASE sess[s] = [NewConversation EXCEPT !.pc = "closed"]
      BY <3>3, BlankFacts
    <3> QED BY <2>1, <3>1, <3>2, <3>3
  <2> QED BY <2>3, BlankConv
<1>6. \A s \in Session : AdviceInv(s)
  BY <1>2 DEF AdviceInv
<1> QED BY <1>4, <1>5, <1>6 DEF StudyInv

LEMMA StudyNext == StudyInv /\ [Next]_vars => StudyInv'
<1> SUFFICES ASSUME StudyInv, [Next]_vars PROVE StudyInv'
  OBVIOUS
<1>1. CASE UNCHANGED vars
  <2>1. UNCHANGED <<study, sess, consent, closed, advice>> /\ repo' = repo /\ past' = past
    BY <1>1 DEF vars
  <2>2. WorldInv'
    BY <2>1 DEF StudyInv, WorldInv, Filed
  <2>3. \A t \in Session : Recalls(t)
    BY <2>1 DEF Recalls, Was, HeadWas
  <2> QED BY <2>1, <2>2, <2>3, WorldKeeps
<1>2. ASSUME NEW s \in Session, Say(s) PROVE StudyInv'
  BY <1>2, RequestKeeps, EnterKeeps, CancelKeeps, LeaveKeeps, RespondKeeps, NaturalKeeps, RecommendKeeps,
     CompareKeeps, ImplementKeeps DEF Say
<1>3. ASSUME NEW s \in Session, Continue(s) PROVE StudyInv'
  BY <1>3, LoadRecordKeeps, StartScanKeeps, ReadFileKeeps, ReadIdentityKeeps, PersistKeeps, CreateRecordKeeps,
     FillRecordKeeps, FinishKeeps, CreateUpdateKeeps, WriteUpdateKeeps, ReplaceRecordKeeps DEF Continue
<1>4. ASSUME NEW s \in Session, Crash(s) PROVE StudyInv'
  BY <1>4, CrashKeeps
<1>5. ASSUME NEW e \in Edits, Edit(e[1], e[2], e[3]) PROVE StudyInv'
  <2>1. e[1] \in Repos /\ e[2] \in Files
    BY RepositoryAssumption DEF Repos
  <2> QED BY <1>5, <2>1, EditKeeps
<1>6. ASSUME NEW r \in Repos, Commit(r) PROVE StudyInv'
  BY <1>6, CommitKeeps
<1> QED BY <1>1, <1>2, <1>3, <1>4, <1>5, <1>6 DEF Next

\* The invariant holds: whatever the terminals, the edits and the crashes, a conversation holds only studies of
\* checkouts it may read, its report is over studies that were understood, and what it has checked in this turn
\* was true since the turn began.
THEOREM StudyInvariance == Spec => []StudyInv
<1> QED BY StudyInit, StudyNext, PTL DEF Spec

\* No conversation reads an external checkout, or has a study of one at hand, before the human entered the command
\* displayed for it (_request_study, _open, _handle).
THEOREM ConsentComesFirst == Spec => []ConsentBeforeReading
<1>1. StudyInv => ConsentBeforeReading
  <2> SUFFICES ASSUME StudyInv, NEW s \in Session, NEW r \in External, r \notin consent[s]
               PROVE  sess[s].w.repo # r /\ \A i \in sess[s].known : study[i].pack.repo # r
    BY DEF ConsentBeforeReading
  <2>1. r \notin Allowed(s) /\ r # None
    BY RepositoryAssumption DEF Allowed
  <2>2. RepoInv(s) /\ HandInv(s)
    BY DEF StudyInv, ConvInv, WorkInv
  <2> QED BY <2>1, <2>2 DEF RepoInv, HandInv, Held
<1> QED BY <1>1, StudyInvariance, PTL

\* Evidence handed to planning holds, or held after the human asked, for every path and HEAD of the studies behind
\* it (_report_items, load_study, is_evidence_current).
THEOREM CurrentAdvice == Spec => []AdviceIsCurrent
<1>1. StudyInv => AdviceIsCurrent
  <2> SUFFICES ASSUME StudyInv, NEW s \in Session, NEW k \in 1..Len(advice[s]), NEW p, p = advice[s][k].pack
               PROVE  /\ \A f \in DOMAIN p.scanned : \/ repo[p.repo].disk[f] = p.scanned[f]
                                                     \/ <<p.repo, f, p.scanned[f]>> \in past[s]
                      /\ repo[p.repo].head = p.head \/ <<p.repo, "head", p.head>> \in past[s]
    BY DEF AdviceIsCurrent
  <2>1. PICK i \in Fresh(s) : study[i].pack = p
    BY DEF StudyInv, AdviceInv
  <2>2. WasSeen(s, p.repo, p.scanned) /\ HeadWas(s, p.repo, p.head)
    BY <2>1 DEF Fresh
  <2> QED BY <2>2 DEF WasSeen, Was, HeadWas
<1> QED BY <1>1, StudyInvariance, PTL

\* Evidence handed to planning rests on studies closed by the exact :entendido, in whatever order two terminals
\* read and replace a record (_understood, respond_to_study).
THEOREM UnderstoodAdvice == Spec => []AdviceIsUnderstood
<1>1. StudyInv => AdviceIsUnderstood
  BY DEF StudyInv, AdviceInv, AdviceIsUnderstood
<1> QED BY <1>1, StudyInvariance, PTL
=============================================================================
