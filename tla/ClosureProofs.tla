---------------------------- MODULE ClosureProofs ----------------------------
(***************************************************************************)
(* Proofs about MissionClosure, for any number of sessions, explanations,  *)
(* stamps, crashes and environments.                                       *)
(*                                                                         *)
(* The invariant has three layers, each proved with the help of the ones   *)
(* before it.  EarnedInv holds whatever the sessions do: a step is only    *)
(* reached after the word that leads to it was typed, and a closure writes *)
(* its outputs in order.  OneInv holds when one session is open at a time: *)
(* the records that were accepted are not written again, so the evidence   *)
(* the closure names is the evidence that is closed.  CalmInv adds that    *)
(* nothing was killed: every file that is torn is being written, and where *)
(* nothing is being written the mission has a next step.                   *)
(***************************************************************************)
EXTENDS MissionClosure, FiniteSetTheorems, TLAPS

ProcFields == {"pc", "offer", "mission", "text", "fp", "id", "at", "k", "file", "val", "then"}

Texts == Explanation \cup {"none"}

\* What a record of file f looks like.
Holds(f, v) ==
    /\ f = "user" => v \in [is : {"user"}, active : BOOLEAN]
    /\ f = "active" => v.is = "active"
    /\ f = "proposal" =>
          v \in [is : {"proposal"}, status : {"proposed", "recorded", "changes_requested"}, sha : Nat]
    /\ f = "review" => v \in [is : {"review"}, version : Nat]
    /\ f = "request" => v \in [is : {"request"}, status : {"awaiting_user_explanation", "recorded"}, sha : Texts]
    /\ f = "teachback" => v \in [is : {"teachback"}, text : Texts]
    /\ f = "closure" => v \in [is : {"closure"}, status : {"proposed", "closed"},
                               id : [review : Nat, teachback : Texts]]

\* Where a session goes on after it wrote file f.
Thens(f) ==
    IF f = "user" THEN {"prompt", "off", "left"}
    ELSE IF f = "active" THEN {"prompt"}
    ELSE IF f = "proposal" THEN {"changes", "request"}
    ELSE IF f = "review" THEN {"mark review"}
    ELSE IF f = "request" THEN {"reviewed", "propose closure"}
    ELSE IF f = "teachback" THEN {"mark teachback"}
    ELSE {"taught", "leave"}

Records == Files \ Outputs
Writes(s) == proc[s].pc \in {"truncate", "write"}
WritesTo(s, f) == Writes(s) /\ proc[s].file = f

-----------------------------------------------------------------------------
(* Whatever the sessions do. *)

ShapeInv ==
    /\ DOMAIN disk = Files /\ DOMAIN proc = Session
    /\ \A s \in Session : DOMAIN proc[s] = ProcFields
    /\ \A f \in Records : disk[f] \in {Absent, Torn} \/ Holds(f, disk[f])

\* What was typed before a record, or an output, came about.
SaidInv ==
    /\ disk["review"] # Absent => <<"review">> \in said
    /\ Readable("teachback") => <<"teachback", disk["teachback"].text>> \in said

EarnedOwn(s) ==
    /\ Writes(s) => /\ proc[s].file \in Records /\ Holds(proc[s].file, proc[s].val)
                    /\ proc[s].then \in Thens(proc[s].file)
    /\ WritesTo(s, "review") => <<"review">> \in said
    /\ WritesTo(s, "teachback") => <<"teachback", proc[s].val.text>> \in said
    /\ proc[s].pc = "beta review" => <<"review">> \in said
    /\ proc[s].pc = "record" => proc[s].text \in Explanation /\ <<"teachback", proc[s].text>> \in said
    /\ proc[s].pc \in Closing => <<"closure">> \in said
    /\ proc[s].pc \in {"gate", "check", "replace"} =>
          {<<"review">>, <<"teachback", proc[s].fp.teachback>>} \subseteq said

\* The outputs before the one at hand are there; alone, they are this closure's.
OutputOwn(s) ==
    proc[s].pc \in {"check", "replace"} =>
        /\ proc[s].k \in 1..6 /\ \A j \in 1..(proc[s].k - 1) : disk[OUTPUTS[j]] # Absent
        /\ "closure" \notin raced =>
              /\ disk["report"] = Absent
              /\ proc[s].k <= 4 => disk["status"] = Absent
              /\ proc[s].k > 2 => disk["decision"].fp = proc[s].fp
              /\ proc[s].k > 4 => disk["status"].fp = proc[s].fp

Exclusion ==
    "closure" \notin raced =>
        \A s, t \in Session : proc[s].pc \in Closing /\ proc[t].pc \in Closing => s = t

EarnedInv ==
    /\ ShapeInv /\ SaidInv /\ ClosedIsEarned /\ ReportIsBacked /\ Exclusion
    /\ \A s \in Session : EarnedOwn(s) /\ OutputOwn(s)

-----------------------------------------------------------------------------
(* One session at a time. *)

Alone == \A s, t \in Session : proc[s].pc # "off" /\ proc[t].pc # "off" => s = t

Evidence == [review |-> Version, teachback |-> disk["teachback"].text]

Reviewed == Status("proposal") = "recorded" /\ ApprovedReview /\ disk["proposal"].sha = Version
Taught == Status("request") = "recorded" /\ ValidRecord /\ disk["request"].sha = disk["teachback"].text

OneDisk ==
    /\ disk["closure"] # Absent => Reviewed /\ Taught
    /\ Readable("closure") => disk["closure"].id = Evidence
    /\ disk["report"] # Absent =>
          disk["report"].fp = Evidence /\ disk["report"].id = Evidence /\ disk["closure"] # Absent
    /\ Status("proposal") = "recorded" => Reviewed
    /\ Status("request") = "recorded" => Taught
    /\ disk["request"] # Absent => Status("proposal") = "recorded"

\* What a session that writes a record must know.
OneWrites(file, val) ==
    /\ file = "review" => Status("proposal") = "proposed"
    /\ file = "proposal" =>
          /\ Status("proposal") # "recorded"
          /\ val.status = "recorded" => ApprovedReview /\ val.sha = Version
          /\ disk["request"] = Absent /\ disk["closure"] = Absent
    /\ file = "request" =>
          /\ Status("proposal") = "recorded" /\ Status("request") # "recorded" /\ disk["closure"] = Absent
          /\ val.status = "recorded" => ValidRecord /\ val.sha = disk["teachback"].text
    /\ file = "teachback" => Status("request") # "recorded" /\ Status("proposal") = "recorded"
    /\ file = "closure" => Reviewed /\ Taught /\ val.id = Evidence

OneOwn(s) ==
    /\ Writes(s) => OneWrites(proc[s].file, proc[s].val)
    /\ (proc[s].pc = "ask" /\ proc[s].offer = "review") \/ proc[s].pc \in {"beta review", "mark review"} =>
          Status("proposal") = "proposed"
    /\ (proc[s].pc = "ask" /\ proc[s].offer = "teachback") \/ proc[s].pc \in {"record", "mark teachback"} =>
          Status("request") # "recorded" /\ Status("proposal") = "recorded"
    /\ (proc[s].pc = "ask" /\ proc[s].offer = "closure") \/ proc[s].pc \in Closing =>
          disk["closure"] # Absent /\ proc[s].id = Evidence
    /\ proc[s].pc \in {"gate", "check", "replace"} => proc[s].fp = Evidence

OneInv == Alone /\ OneDisk /\ \A s \in Session : OneOwn(s)

-----------------------------------------------------------------------------
(* Nothing was killed. *)

Finished == disk["report"] # Absent /\ Status("closure") = "closed"

\* The mission has a next step, or is over.
Placed ==
    \/ Status("proposal") \in {"proposed", "changes_requested"}
    \/ Status("request") = "awaiting_user_explanation"
    \/ Status("request") = "recorded" /\ Readable("closure")

Busy(s) ==
    \/ proc[s].pc \in {"request", "propose closure"}
    \/ Writes(s) /\ proc[s].file \in {"proposal", "request", "closure"}

CalmDisk ==
    /\ \A f \in Records : disk[f] = Torn => \E s \in Session : proc[s].pc = "write" /\ proc[s].file = f
    /\ disk["user"] # Absent
    /\ Readable("user") /\ ~disk["user"].active => Finished
    /\ Status("closure") = "closed" => disk["report"] # Absent
    /\ Placed \/ \E s \in Session : Busy(s)

\* What a session that writes a record is about to do, and may.
CalmWrites(file, val, then) ==
    /\ file = "user" /\ (then = "left" \/ ~val.active) => Finished
    /\ file = "closure" =>
          /\ Readable("user") /\ disk["user"].active
          /\ val.status = "closed" => disk["report"] # Absent
          /\ then = "leave" => val.status = "closed"
    /\ file = "proposal" => val.status = IF then = "request" THEN "recorded" ELSE "changes_requested"
    /\ file = "request" =>
          val.status = IF then = "propose closure" THEN "recorded" ELSE "awaiting_user_explanation"

CalmOwn(s) ==
    /\ Writes(s) => CalmWrites(proc[s].file, proc[s].val, proc[s].then)
    /\ proc[s].pc # "off" /\ ~proc[s].mission =>
          /\ Finished
          /\ proc[s].pc \in {"start", "prompt", "ask", "handoff", "truncate", "write"}
          /\ Writes(s) => proc[s].file \in {"user", "active"} /\ proc[s].then # "left"
          /\ proc[s].pc = "ask" => proc[s].offer = "none"
    /\ proc[s].pc = "ask" /\ proc[s].offer = "none" => Finished \/ Status("proposal") = "changes_requested"
    /\ (proc[s].pc = "ask" /\ proc[s].offer = "closure") \/ proc[s].pc \in Closing \cup {"mark closed"} =>
          Status("closure") = "proposed"
    /\ proc[s].pc = "mark closed" => disk["report"] # Absent
    /\ proc[s].pc \in {"leave", "left"} => Finished
    /\ proc[s].pc = "request" => Status("proposal") = "recorded" /\ disk["request"] = Absent
    /\ proc[s].pc = "propose closure" => Status("proposal") = "recorded" /\ Status("request") = "recorded"

CalmInv == CalmDisk /\ \A s \in Session : CalmOwn(s)

One == env.sessions = 1 => OneInv
Calm == crashes \in Nat /\ (env.sessions = 1 /\ crashes = 0 => CalmInv)
-----------------------------------------------------------------------------
(* Files and sessions. *)

\* The files by name, and the order of the outputs.
LEMMA FileFacts ==
    /\ Outputs = {"memory", "decision", "pack", "status", "notification", "report"}
    /\ Records = {"user", "active", "proposal", "review", "request", "teachback", "closure"}
    /\ Files = Records \cup Outputs /\ Len(OUTPUTS) = 6
    /\ OUTPUTS[1] = "memory" /\ OUTPUTS[2] = "decision" /\ OUTPUTS[3] = "pack"
    /\ OUTPUTS[4] = "status" /\ OUTPUTS[5] = "notification" /\ OUTPUTS[6] = "report"
    /\ \A k \in 1..6 : OUTPUTS[k] \in Outputs
<1>1. /\ Len(OUTPUTS) = 6
      /\ OUTPUTS[1] = "memory" /\ OUTPUTS[2] = "decision" /\ OUTPUTS[3] = "pack"
      /\ OUTPUTS[4] = "status" /\ OUTPUTS[5] = "notification" /\ OUTPUTS[6] = "report"
  BY DEF OUTPUTS
<1>2. \A k \in 1..6 : k = 1 \/ k = 2 \/ k = 3 \/ k = 4 \/ k = 5 \/ k = 6
  OBVIOUS
<1>3. Outputs = {"memory", "decision", "pack", "status", "notification", "report"}
  <2>1. Outputs = {OUTPUTS[i] : i \in 1..6}
    BY <1>1 DEF Outputs
  <2> QED BY <1>1, <1>2, <2>1
<1>4. \A k \in 1..6 : OUTPUTS[k] \in Outputs
  BY <1>1, <1>2, <1>3
<1> QED BY <1>1, <1>3, <1>4 DEF Records, Files

\* A record is no sentinel.
LEMMA HoldsFacts ==
    ASSUME NEW f \in Records, NEW v, Holds(f, v)
    PROVE  v.is = f /\ v \notin {Absent, Torn}
<1>1. v.is = f
  BY FileFacts DEF Holds
<1>2. Absent.is = "absent" /\ Torn.is = "torn" /\ f # "absent" /\ f # "torn"
  BY FileFacts DEF Absent, Torn
<1> QED BY <1>1, <1>2

LEMMA SentinelFacts == Absent # Torn /\ Absent.is = "absent" /\ Torn.is = "torn"
<1>1. Absent.is = "absent" /\ Torn.is = "torn"
  BY DEF Absent, Torn
<1> QED BY <1>1

\* Only session s moves.
Alters(s) ==
    /\ DOMAIN proc' = Session /\ DOMAIN proc'[s] = ProcFields
    /\ \A t \in Session \ {s} : proc'[t] = proc[t]

LEMMA GoFacts ==
    ASSUME ShapeInv, NEW s \in Session, NEW pc, Go(s, pc)
    PROVE  /\ Alters(s) /\ proc'[s].pc = pc /\ proc'[s].offer = proc[s].offer
           /\ proc'[s].mission = proc[s].mission /\ proc'[s].text = proc[s].text
           /\ proc'[s].fp = proc[s].fp /\ proc'[s].id = proc[s].id /\ proc'[s].k = proc[s].k
           /\ proc'[s].file = proc[s].file /\ proc'[s].val = proc[s].val /\ proc'[s].then = proc[s].then
  BY DEF Go, ShapeInv, Alters, ProcFields

LEMMA RaiseFacts ==
    ASSUME ShapeInv, NEW s \in Session, Raise(s)
    PROVE  Alters(s) /\ proc'[s] = Idle /\ proc'[s].pc = "off"
<1>1. DOMAIN Idle = ProcFields /\ Idle.pc = "off"
  BY DEF Idle, ProcFields
<1>2. DOMAIN proc' = Session /\ proc'[s] = Idle /\ \A t \in Session \ {s} : proc'[t] = proc[t]
  BY DEF Raise, ShapeInv
<1> QED BY <1>1, <1>2 DEF Alters

LEMMA WritingFacts ==
    ASSUME ShapeInv, NEW s \in Session, NEW file, NEW val, NEW then, Writing(s, file, val, then)
    PROVE  /\ Alters(s) /\ proc'[s].pc = "truncate" /\ proc'[s].file = file /\ proc'[s].val = val
           /\ proc'[s].then = then /\ proc'[s].mission = proc[s].mission
  BY DEF Writing, ShapeInv, Alters, ProcFields
LEMMA ClearFacts ==
    ASSUME ShapeInv, NEW s \in Session, ClearActive(s), ~Raise(s)
    PROVE  /\ Alters(s) /\ proc'[s].pc = "truncate" /\ proc'[s].file = "active" /\ proc'[s].then = "prompt"
           /\ proc'[s].val = [is |-> "active", state |-> "closed"] /\ proc'[s].mission = FALSE
<1> DEFINE next == [Idle EXCEPT !.pc = "truncate", !.file = "active",
                      !.val = [is |-> "active", state |-> "closed"], !.then = "prompt"]
<1>1. proc' = [proc EXCEPT ![s] = next]
  BY DEF ClearActive
<1>2. /\ DOMAIN next = ProcFields /\ next.pc = "truncate" /\ next.file = "active" /\ next.then = "prompt"
      /\ next.val = [is |-> "active", state |-> "closed"] /\ next.mission = FALSE
  BY DEF Idle, ProcFields
<1> HIDE DEF next
<1>3. DOMAIN proc' = Session /\ proc'[s] = next /\ \A t \in Session \ {s} : proc'[t] = proc[t]
  BY <1>1 DEF ShapeInv
<1> QED BY <1>2, <1>3 DEF Alters

-----------------------------------------------------------------------------
(* Whatever the sessions do: EarnedInv, step by step. *)

\* A step that leaves the outputs alone has only its own session to account for.
LEMMA EarnedStep ==
    ASSUME EarnedInv, NEW s \in Session, Alters(s),
           DOMAIN disk' = Files, \A f \in Outputs : disk'[f] = disk[f],
           \A f \in Records : disk'[f] \in {Absent, Torn} \/ Holds(f, disk'[f]),
           said \subseteq said', raced \subseteq raced',
           SaidInv', Exclusion', EarnedOwn(s)', OutputOwn(s)'
    PROVE  EarnedInv'
<1>1. ShapeInv'
  BY DEF EarnedInv, ShapeInv, Alters
<1>2. ClosedIsEarned' /\ ReportIsBacked'
  BY FileFacts DEF EarnedInv, ClosedIsEarned, ReportIsBacked
<1>3. ASSUME NEW t \in Session PROVE EarnedOwn(t)' /\ OutputOwn(t)'
  <2>1. CASE t = s
    BY <2>1
  <2>2. CASE t # s
    <3>1. proc'[t] = proc[t]
      BY <2>2 DEF Alters
    <3>2. EarnedOwn(t)'
      BY <3>1 DEF EarnedInv, EarnedOwn, Writes, WritesTo
    <3>3. OutputOwn(t)
      BY DEF EarnedInv
    <3>4. \A k \in 1..6 : disk'[OUTPUTS[k]] = disk[OUTPUTS[k]]
      BY FileFacts
    <3>5. OutputOwn(t)'
      BY <3>1, <3>3, <3>4, FileFacts DEF OutputOwn
    <3> QED BY <3>2, <3>5
  <2> QED BY <2>1, <2>2
<1> QED BY <1>1, <1>2, <1>3 DEF EarnedInv

\* The same for a step that leaves all files alone and is not in the closure gate.
LEMMA EarnedQuiet ==
    ASSUME EarnedInv, NEW s \in Session, Alters(s), disk' = disk,
           said \subseteq said', raced \subseteq raced', proc'[s].pc \notin Closing, EarnedOwn(s)'
    PROVE  EarnedInv'
<1>1. SaidInv'
  BY DEF EarnedInv, SaidInv, Readable
<1>2. Exclusion'
  BY DEF EarnedInv, Exclusion, Alters
<1>3. OutputOwn(s)'
  BY DEF OutputOwn, Closing
<1> QED BY <1>1, <1>2, <1>3, EarnedStep DEF EarnedInv, ShapeInv

LEMMA EarnedRaise ==
    ASSUME EarnedInv, NEW s \in Session, Raise(s), disk' = disk, said \subseteq said', raced \subseteq raced'
    PROVE  EarnedInv'
<1>1. Alters(s) /\ proc'[s].pc = "off"
  BY RaiseFacts DEF EarnedInv
<1>2. EarnedOwn(s)' /\ proc'[s].pc \notin Closing
  BY <1>1 DEF EarnedOwn, Closing, Writes, WritesTo
<1> QED BY <1>1, <1>2, EarnedQuiet

\* The pcs that ask nothing of what was typed.
Plain == {"off", "start", "prompt", "ask", "handoff", "changes", "mark review", "request", "reviewed",
          "mark teachback", "propose closure", "taught", "mark closed", "leave", "left"}

LEMMA EarnedPlain ==
    ASSUME EarnedInv, NEW s \in Session, Alters(s), proc'[s].pc \in Plain,
           disk' = disk, said \subseteq said', raced \subseteq raced'
    PROVE  EarnedInv'
<1>1. EarnedOwn(s)' /\ proc'[s].pc \notin Closing
  BY DEF EarnedOwn, Closing, Writes, WritesTo, Plain
<1> QED BY <1>1, EarnedQuiet

LEMMA EarnedWriting ==
    ASSUME EarnedInv, NEW s \in Session, NEW file \in Records, NEW val, NEW then \in Thens(file),
           Writing(s, file, val, then), Holds(file, val),
           disk' = disk, said \subseteq said', raced \subseteq raced',
           file = "review" => <<"review">> \in said',
           file = "teachback" => <<"teachback", val.text>> \in said'
    PROVE  EarnedInv'
<1>1. /\ Alters(s) /\ proc'[s].pc = "truncate" /\ proc'[s].file = file
      /\ proc'[s].val = val /\ proc'[s].then = then
  BY WritingFacts DEF EarnedInv
<1>2. EarnedOwn(s)' /\ proc'[s].pc \notin Closing
  BY <1>1 DEF EarnedOwn, Closing, Writes, WritesTo
<1> QED BY <1>1, <1>2, EarnedQuiet
LEMMA ReadableHolds ==
    ASSUME EarnedInv, NEW f \in Records, Readable(f)
    PROVE  Holds(f, disk[f])
  BY DEF EarnedInv, ShapeInv, Readable

\* What the sessions write has the shape of a record.
LEMMA RecordFacts ==
    /\ \A state : Holds("active", [is |-> "active", state |-> state])
    /\ \A st \in {"proposed", "recorded", "changes_requested"}, n \in Nat :
          Holds("proposal", [is |-> "proposal", status |-> st, sha |-> n])
    /\ \A n \in Nat : Holds("review", [is |-> "review", version |-> n])
    /\ \A st \in {"awaiting_user_explanation", "recorded"}, e \in Texts :
          Holds("request", [is |-> "request", status |-> st, sha |-> e])
    /\ \A e \in Texts : Holds("teachback", [is |-> "teachback", text |-> e])
    /\ \A n \in Nat, e \in Texts :
          Holds("closure", [is |-> "closure", status |-> "proposed",
                            id |-> [review |-> n, teachback |-> e]])
<1>1. \A state : Holds("active", [is |-> "active", state |-> state])
  BY DEF Holds
<1>2. \A st \in {"proposed", "recorded", "changes_requested"}, n \in Nat :
          Holds("proposal", [is |-> "proposal", status |-> st, sha |-> n])
  BY DEF Holds
<1>3. \A n \in Nat : Holds("review", [is |-> "review", version |-> n])
  BY DEF Holds
<1>4. \A st \in {"awaiting_user_explanation", "recorded"}, e \in Texts :
          Holds("request", [is |-> "request", status |-> st, sha |-> e])
  BY DEF Holds
<1>5. \A e \in Texts : Holds("teachback", [is |-> "teachback", text |-> e])
  BY DEF Holds
<1>6. \A n \in Nat, e \in Texts :
          Holds("closure", [is |-> "closure", status |-> "proposed",
                            id |-> [review |-> n, teachback |-> e]])
  BY DEF Holds
<1> QED BY <1>1, <1>2, <1>3, <1>4, <1>5, <1>6

\* The two steps of a plain write.
LEMMA TruncateEarned ==
    ASSUME EarnedInv, NEW s \in Session, Truncate(s)
    PROVE  EarnedInv'
<1>1. proc[s].pc = "truncate" /\ disk' = [disk EXCEPT ![proc[s].file] = Torn] /\ Go(s, "write") /\ Quiet
  BY DEF Truncate
<1>2. /\ Alters(s) /\ proc'[s].pc = "write" /\ proc'[s].file = proc[s].file /\ proc'[s].val = proc[s].val
      /\ proc'[s].then = proc[s].then
  BY <1>1, GoFacts DEF EarnedInv
<1>3. EarnedOwn(s) /\ ShapeInv /\ SaidInv /\ Exclusion
  BY DEF EarnedInv
<1>4. /\ proc[s].file \in Records /\ Holds(proc[s].file, proc[s].val)
      /\ proc[s].file = "review" => <<"review">> \in said
  BY <1>1, <1>3 DEF EarnedOwn, Writes, WritesTo
<1>5. DOMAIN disk' = Files /\ \A f \in Files : disk'[f] = IF f = proc[s].file THEN Torn ELSE disk[f]
  BY <1>1, <1>3, <1>4, FileFacts DEF ShapeInv
<1>6. \A f \in Outputs : disk'[f] = disk[f]
  BY <1>4, <1>5, FileFacts
<1>7. \A f \in Records : disk'[f] \in {Absent, Torn} \/ Holds(f, disk'[f])
  BY <1>3, <1>5, FileFacts DEF ShapeInv
<1>8. said' = said /\ raced' = raced
  BY <1>1 DEF Quiet
<1>9. SaidInv'
  BY <1>3, <1>4, <1>5, <1>8, FileFacts DEF SaidInv, Readable
<1>10. EarnedOwn(s)' /\ OutputOwn(s)' /\ Exclusion'
  <2>1. EarnedOwn(s)'
    BY <1>1, <1>2, <1>3, <1>8 DEF EarnedOwn, Writes, WritesTo, Closing
  <2>2. OutputOwn(s)'
    BY <1>2 DEF OutputOwn
  <2>3. Exclusion'
    BY <1>2, <1>3, <1>8 DEF Exclusion, Alters, Closing
  <2> QED BY <2>1, <2>2, <2>3
<1> QED BY <1>2, <1>5, <1>6, <1>7, <1>8, <1>9, <1>10, EarnedStep

LEMMA WriteFacts ==
    ASSUME EarnedInv, NEW s \in Session, Write(s)
    PROVE  /\ proc[s].pc = "write" /\ Alters(s) /\ Quiet
           /\ proc'[s].pc = proc[s].then /\ proc'[s].mission = proc[s].mission
           /\ proc[s].file \in Records /\ Holds(proc[s].file, proc[s].val)
           /\ proc[s].then \in Thens(proc[s].file) /\ proc[s].then \in Plain
           /\ DOMAIN disk' = Files
           /\ \A f \in Files : disk'[f] = IF f = proc[s].file THEN proc[s].val ELSE disk[f]
<1>1. proc[s].pc = "write" /\ disk' = [disk EXCEPT ![proc[s].file] = proc[s].val] /\ Quiet
  BY DEF Write
<1>2. Alters(s) /\ proc'[s].pc = proc[s].then /\ proc'[s].mission = proc[s].mission
  BY DEF Write, EarnedInv, ShapeInv, Alters, ProcFields
<1>3. /\ proc[s].file \in Records /\ Holds(proc[s].file, proc[s].val)
      /\ proc[s].then \in Thens(proc[s].file)
  BY <1>1 DEF EarnedInv, EarnedOwn, Writes
<1>4. proc[s].then \in Plain
  BY <1>3 DEF Thens, Plain
<1>5. DOMAIN disk' = Files /\ \A f \in Files : disk'[f] = IF f = proc[s].file THEN proc[s].val ELSE disk[f]
  BY <1>1, <1>3, FileFacts DEF EarnedInv, ShapeInv
<1> QED BY <1>1, <1>2, <1>3, <1>4, <1>5

LEMMA WriteEarned ==
    ASSUME EarnedInv, NEW s \in Session, Write(s)
    PROVE  EarnedInv'
<1>1. /\ proc[s].pc = "write" /\ Alters(s) /\ said' = said /\ raced' = raced
      /\ proc'[s].pc = proc[s].then
      /\ proc[s].file \in Records /\ Holds(proc[s].file, proc[s].val)
      /\ proc[s].then \in Plain
      /\ DOMAIN disk' = Files
      /\ \A f \in Files : disk'[f] = IF f = proc[s].file THEN proc[s].val ELSE disk[f]
  BY WriteFacts DEF Quiet
<1>2. EarnedOwn(s) /\ ShapeInv /\ SaidInv /\ Exclusion
  BY DEF EarnedInv
<1>3. /\ proc[s].file = "review" => <<"review">> \in said
      /\ proc[s].file = "teachback" => <<"teachback", proc[s].val.text>> \in said
  BY <1>1, <1>2 DEF EarnedOwn, Writes, WritesTo
<1>4. \A f \in Outputs : disk'[f] = disk[f]
  BY <1>1, FileFacts
<1>5. \A f \in Records : disk'[f] \in {Absent, Torn} \/ Holds(f, disk'[f])
  BY <1>1, <1>2, FileFacts DEF ShapeInv
<1>6. SaidInv'
  BY <1>1, <1>2, <1>3, FileFacts DEF SaidInv, Readable
<1>7. EarnedOwn(s)'
  BY <1>1 DEF EarnedOwn, Closing, Writes, WritesTo, Plain
<1>8. OutputOwn(s)'
  BY <1>1 DEF OutputOwn, Plain
<1>9. Exclusion'
  BY ZenonT(60), <1>1, <1>2 DEF Exclusion, Alters, Closing, Plain
<1> QED BY <1>1, <1>4, <1>5, <1>6, <1>7, <1>8, <1>9, EarnedStep

\* Opening a session, the prompt, /exit and a killed process.
LEMMA SessionEarned ==
    ASSUME EarnedInv, NEW s \in Session,
           Open(s) \/ StartSession(s) \/ Prompt(s) \/ Exit(s) \/ RecordHandoff(s) \/ Crash(s)
    PROVE  EarnedInv'
<1> USE FileFacts
<1>1. CASE Open(s)
  <2>1. Alters(s) /\ proc'[s].pc = "start"
    BY <1>1 DEF Open, EarnedInv, ShapeInv, Alters, ProcFields
  <2> QED BY <1>1, <2>1, EarnedPlain DEF Open, Plain
<1>2. CASE StartSession(s) \/ RecordHandoff(s)
  <2>1. disk' = disk /\ said' = said /\ raced' = raced
    BY <1>2 DEF StartSession, RecordHandoff, Quiet
  <2>2. CASE Readable("user")
    <3>1. PICK then \in {"prompt", "off"} : Writing(s, "user", disk["user"], then)
      BY <1>2, <2>2 DEF StartSession, RecordHandoff
    <3>2. Holds("user", disk["user"]) /\ then \in Thens("user")
      BY <2>2, ReadableHolds DEF Thens
    <3> QED BY <2>1, <3>1, <3>2, EarnedWriting
  <2>3. CASE ~Readable("user")
    BY <1>2, <2>1, <2>3, EarnedRaise DEF StartSession, RecordHandoff
  <2> QED BY <2>2, <2>3
<1>3. CASE Prompt(s)
  <2>1. disk' = disk /\ said' = said /\ raced' = raced
    BY <1>3 DEF Prompt, Quiet
  <2>2. CASE Raise(s)
    BY <2>1, <2>2, EarnedRaise
  <2>3. CASE ~Raise(s)
    <3>1. Alters(s) /\ proc'[s].pc = "ask"
      BY <1>3, <2>3 DEF Prompt, EarnedInv, ShapeInv, Alters, ProcFields
    <3> QED BY <2>1, <3>1, EarnedPlain DEF Plain
  <2> QED BY <2>2, <2>3
<1>4. CASE Exit(s)
  <2>1. Alters(s) /\ proc'[s].pc = "handoff"
    BY <1>4, GoFacts DEF Exit, EarnedInv
  <2> QED BY <1>4, <2>1, EarnedPlain DEF Exit, Plain, Quiet
<1>5. CASE Crash(s)
  BY <1>5, EarnedRaise DEF Crash
<1> QED BY <1>1, <1>2, <1>3, <1>4, <1>5
\* Every update of the active mission.
LEMMA ActiveEarned ==
    ASSUME EarnedInv, NEW s \in Session, NEW state, UpdateActiveState(s, state), Quiet, UNCHANGED disk
    PROVE  EarnedInv'
<1>1. said' = said /\ raced' = raced /\ disk' = disk
  BY DEF Quiet
<1>2. CASE Readable("active")
  <2>1. Writing(s, "active", [is |-> "active", state |-> state], "prompt")
    BY <1>2 DEF UpdateActiveState
  <2>2. "active" \in Records /\ "prompt" \in Thens("active")
    BY FileFacts DEF Thens
  <2>3. Holds("active", [is |-> "active", state |-> state])
    BY RecordFacts
  <2> QED BY <1>1, <2>1, <2>2, <2>3, EarnedWriting
<1>3. CASE ~Readable("active")
  BY <1>1, <1>3, EarnedRaise DEF UpdateActiveState
<1> QED BY <1>2, <1>3

LEMMA VersionFacts ==
    ASSUME EarnedInv
    PROVE  Version \in Nat
<1>1. Readable("review") => disk["review"] \in [is : {"review"}, version : Nat]
  BY ReadableHolds, FileFacts DEF Holds
<1> QED BY <1>1 DEF Version, Readable

\* The review: the phrase, the record, the mark and the Teachback request.
LEMMA ReviewEarned ==
    ASSUME EarnedInv, NEW s \in Session,
           \/ ApproveReview(s) \/ RequestReviewChanges(s) \/ ChangesRequested(s) \/ CmdReview(s)
           \/ MarkReviewRecorded(s) \/ BuildTeachbackRequest(s) \/ ReviewApproved(s)
    PROVE  EarnedInv'
<1> USE FileFacts
<1>1. CASE ApproveReview(s)
  <2>1. said' = said \cup {<<"review">>} /\ raced' = raced /\ disk' = disk /\ Go(s, "beta review")
    BY <1>1 DEF ApproveReview, Typed
  <2>2. Alters(s) /\ proc'[s].pc = "beta review"
    BY <2>1, GoFacts DEF EarnedInv
  <2>3. EarnedOwn(s)' /\ proc'[s].pc \notin Closing
    BY <2>1, <2>2 DEF EarnedOwn, Closing, Writes, WritesTo
  <2> QED BY <2>1, <2>2, <2>3, EarnedQuiet
<1>2. CASE RequestReviewChanges(s)
  <2> DEFINE rec == [is |-> "proposal", status |-> "changes_requested", sha |-> 0]
  <2>1. said \subseteq said' /\ raced' = raced /\ disk' = disk /\ Writing(s, "proposal", rec, "changes")
    BY <1>2 DEF RequestReviewChanges
  <2>2. Holds("proposal", rec) /\ "changes" \in Thens("proposal")
    BY RecordFacts DEF Thens
  <2> HIDE DEF rec
  <2> QED BY <2>1, <2>2, EarnedWriting
<1>3. CASE ChangesRequested(s) \/ ReviewApproved(s)
  <2>1. PICK state : UpdateActiveState(s, state) /\ Quiet /\ UNCHANGED disk
    BY <1>3 DEF ChangesRequested, ReviewApproved
  <2> QED BY <2>1, ActiveEarned
<1>4. CASE CmdReview(s)
  <2>1. said' = said /\ raced' = raced /\ disk' = disk /\ proc[s].pc = "beta review"
    BY <1>4 DEF CmdReview, Quiet
  <2>2. CASE Version < MaxReviews
    <3> DEFINE rec == [is |-> "review", version |-> Version + 1]
    <3>1. Writing(s, "review", rec, "mark review")
      BY <1>4, <2>2 DEF CmdReview
    <3>2. Holds("review", rec) /\ "mark review" \in Thens("review")
      BY VersionFacts, RecordFacts DEF Thens
    <3>3. <<"review">> \in said
      BY <2>1 DEF EarnedInv, EarnedOwn
    <3> HIDE DEF rec
    <3> QED BY <2>1, <3>1, <3>2, <3>3, EarnedWriting
  <2>3. CASE ~(Version < MaxReviews)
    BY <1>4, <2>1, <2>3, EarnedRaise DEF CmdReview
  <2> QED BY <2>2, <2>3
<1>5. CASE MarkReviewRecorded(s)
  <2>1. said' = said /\ raced' = raced /\ disk' = disk
    BY <1>5 DEF MarkReviewRecorded, Quiet
  <2>2. CASE Raise(s)
    BY <2>1, <2>2, EarnedRaise
  <2>3. CASE ~Raise(s)
    <3> DEFINE rec == [is |-> "proposal", status |-> "recorded", sha |-> Version]
    <3>1. Writing(s, "proposal", rec, "request")
      BY <1>5, <2>3 DEF MarkReviewRecorded
    <3>2. Holds("proposal", rec) /\ "request" \in Thens("proposal")
      BY VersionFacts, RecordFacts DEF Thens
    <3> HIDE DEF rec
    <3> QED BY <2>1, <3>1, <3>2, EarnedWriting
  <2> QED BY <2>2, <2>3
<1>6. CASE BuildTeachbackRequest(s)
  <2> DEFINE rec == [is |-> "request", status |-> "awaiting_user_explanation", sha |-> "none"]
  <2>1. said' = said /\ raced' = raced /\ disk' = disk
    BY <1>6 DEF BuildTeachbackRequest, Quiet
  <2>2. Holds("request", rec) /\ "reviewed" \in Thens("request")
    BY RecordFacts DEF Thens, Texts
  <2>3. Raise(s) \/ Go(s, "reviewed") \/ Writing(s, "request", rec, "reviewed")
    BY <1>6 DEF BuildTeachbackRequest
  <2> HIDE DEF rec
  <2>4. CASE Raise(s)
    BY <2>1, <2>4, EarnedRaise
  <2>5. CASE Go(s, "reviewed")
    <3>1. Alters(s) /\ proc'[s].pc \in Plain
      BY <2>5, GoFacts DEF EarnedInv, Plain
    <3> QED BY <2>1, <3>1, EarnedPlain
  <2>6. CASE Writing(s, "request", rec, "reviewed")
    BY <2>1, <2>2, <2>6, EarnedWriting
  <2> QED BY <2>3, <2>4, <2>5, <2>6
<1> QED BY <1>1, <1>2, <1>3, <1>4, <1>5, <1>6

LEMMA TextFacts ==
    ASSUME EarnedInv, ValidRecord
    PROVE  disk["teachback"].text \in Texts /\ <<"teachback", disk["teachback"].text>> \in said
<1>1. Holds("teachback", disk["teachback"])
  BY ReadableHolds, FileFacts DEF ValidRecord
<1>2. disk["teachback"].text \in Texts
  BY <1>1 DEF Holds
<1> QED BY <1>2 DEF EarnedInv, SaidInv, ValidRecord

\* The Teachback: the phrase, the record, the mark and the closure proposal.
LEMMA TeachbackEarned ==
    ASSUME EarnedInv, NEW s \in Session,
           \/ RecordTeachback(s) \/ WriteTeachback(s) \/ MarkTeachbackRecorded(s)
           \/ BuildClosureProposal(s) \/ TeachbackRecorded(s)
    PROVE  EarnedInv'
<1> USE FileFacts
<1>1. CASE RecordTeachback(s)
  <2>1. PICK e \in Explanation : /\ said' = said \cup {<<"teachback", e>>}
                                 /\ proc' = [proc EXCEPT ![s].pc = "record", ![s].text = e]
    BY <1>1 DEF RecordTeachback
  <2>2. raced \subseteq raced' /\ disk' = disk
    BY <1>1 DEF RecordTeachback, Enter
  <2>3. Alters(s) /\ proc'[s].pc = "record" /\ proc'[s].text = e
    BY <2>1 DEF EarnedInv, ShapeInv, Alters, ProcFields
  <2>4. <<"teachback", e>> \in said'
    BY <2>1
  <2>5. EarnedOwn(s)' /\ proc'[s].pc \notin Closing
    BY <2>3, <2>4 DEF EarnedOwn, Closing, Writes, WritesTo
  <2> QED BY <2>1, <2>2, <2>3, <2>5, EarnedQuiet
<1>2. CASE WriteTeachback(s)
  <2> DEFINE rec == [is |-> "teachback", text |-> proc[s].text]
  <2>1. said' = said /\ raced' = raced /\ disk' = disk /\ proc[s].pc = "record"
    BY <1>2 DEF WriteTeachback, Quiet
  <2>2. proc[s].text \in Explanation /\ <<"teachback", proc[s].text>> \in said
    BY <2>1 DEF EarnedInv, EarnedOwn
  <2>3. /\ Holds("teachback", rec) /\ "mark teachback" \in Thens("teachback")
        /\ rec.text = proc[s].text
    BY <2>2, RecordFacts DEF Thens, Texts
  <2>4. Raise(s) \/ Go(s, "mark teachback") \/ Writing(s, "teachback", rec, "mark teachback")
    BY <1>2 DEF WriteTeachback
  <2> HIDE DEF rec
  <2>5. CASE Raise(s)
    BY <2>1, <2>5, EarnedRaise
  <2>6. CASE Go(s, "mark teachback")
    <3>1. Alters(s) /\ proc'[s].pc \in Plain
      BY <2>6, GoFacts DEF EarnedInv, Plain
    <3> QED BY <2>1, <3>1, EarnedPlain
  <2>7. CASE Writing(s, "teachback", rec, "mark teachback")
    BY <2>1, <2>2, <2>3, <2>7, EarnedWriting
  <2> QED BY <2>4, <2>5, <2>6, <2>7
<1>3. CASE MarkTeachbackRecorded(s)
  <2>1. said' = said /\ raced' = raced /\ disk' = disk
    BY <1>3 DEF MarkTeachbackRecorded, Quiet
  <2>2. CASE Readable("request") /\ ValidRecord
    <3> DEFINE rec == [is |-> "request", status |-> "recorded", sha |-> disk["teachback"].text]
    <3>1. Writing(s, "request", rec, "propose closure")
      BY <1>3, <2>2 DEF MarkTeachbackRecorded
    <3>2. Holds("request", rec) /\ "propose closure" \in Thens("request")
      BY <2>2, TextFacts, RecordFacts DEF Thens
    <3> HIDE DEF rec
    <3> QED BY <2>1, <3>1, <3>2, EarnedWriting
  <2>3. CASE ~(Readable("request") /\ ValidRecord)
    BY <1>3, <2>1, <2>3, EarnedRaise DEF MarkTeachbackRecorded
  <2> QED BY <2>2, <2>3
<1>4. CASE BuildClosureProposal(s)
  <2> DEFINE rec == [is |-> "closure", status |-> "proposed",
                     id |-> [review |-> disk["proposal"].sha, teachback |-> disk["request"].sha]]
  <2>1. said' = said /\ raced' = raced /\ disk' = disk
    BY <1>4 DEF BuildClosureProposal, Quiet
  <2>2. \/ Raise(s) \/ Go(s, "taught")
        \/ Writing(s, "closure", rec, "taught") /\ Readable("proposal") /\ Readable("request")
    BY <1>4 DEF BuildClosureProposal, Status
  <2>3. CASE Raise(s)
    BY <2>1, <2>3, EarnedRaise
  <2>4. CASE Go(s, "taught")
    <3>1. Alters(s) /\ proc'[s].pc \in Plain
      BY <2>4, GoFacts DEF EarnedInv, Plain
    <3> QED BY <2>1, <3>1, EarnedPlain
  <2>5. CASE Writing(s, "closure", rec, "taught") /\ Readable("proposal") /\ Readable("request")
    <3>1. Holds("proposal", disk["proposal"]) /\ Holds("request", disk["request"])
      BY <2>5, ReadableHolds
    <3>2. disk["proposal"].sha \in Nat /\ disk["request"].sha \in Texts
      BY <3>1 DEF Holds
    <3>3. Holds("closure", rec) /\ "taught" \in Thens("closure")
      BY <3>2, RecordFacts DEF Thens
    <3> HIDE DEF rec
    <3> QED BY <2>1, <2>5, <3>3, EarnedWriting
  <2> QED BY <2>2, <2>3, <2>4, <2>5
<1>5. CASE TeachbackRecorded(s)
  BY <1>5, ActiveEarned DEF TeachbackRecorded
<1> QED BY <1>1, <1>2, <1>3, <1>4, <1>5
LEMMA ContentFacts ==
    ASSUME NEW s \in Session, NEW f \in Outputs
    PROVE  /\ Content(s, f) # Absent /\ Content(s, f).id = proc[s].id
           /\ f \in {"decision", "status", "report"} => Content(s, f).fp = proc[s].fp
<1>1. Content(s, f).is = f /\ Content(s, f).id = proc[s].id
  BY DEF Content
<1>2. f \in {"decision", "status", "report"} => Content(s, f).fp = proc[s].fp
  BY DEF Content
<1> QED BY <1>1, <1>2, FileFacts, SentinelFacts

\* Moving on to the next output once this one is there.
LEMMA NextOutputFacts ==
    ASSUME EarnedInv, NEW s \in Session, proc[s].pc \in {"check", "replace"},
           proc' = [proc EXCEPT ![s] = NextOutput(s)]
    PROVE  /\ Alters(s) /\ proc[s].k \in 1..6
           /\ proc'[s].mission = proc[s].mission
           /\ proc[s].k = 6 => proc'[s].pc = "mark closed"
           /\ proc[s].k # 6 => /\ proc'[s].pc = "check" /\ proc'[s].k = proc[s].k + 1
                              /\ proc'[s].fp = proc[s].fp /\ proc'[s].id = proc[s].id
<1>1. proc[s].k \in 1..6
  BY DEF EarnedInv, OutputOwn
<1>2. DOMAIN proc = Session /\ DOMAIN proc[s] = ProcFields
  BY DEF EarnedInv, ShapeInv
<1>3. DOMAIN proc' = Session /\ proc'[s] = NextOutput(s) /\ \A t \in Session \ {s} : proc'[t] = proc[t]
  BY <1>2
<1>4. CASE proc[s].k = 6
  BY <1>2, <1>3, <1>4, FileFacts DEF NextOutput, Alters, ProcFields
<1>5. CASE proc[s].k # 6
  BY <1>1, <1>2, <1>3, <1>5, FileFacts DEF NextOutput, Alters, ProcFields
<1> QED BY <1>1, <1>4, <1>5

\* The closure gate up to its outputs: the phrase, the evidence, the fingerprint.
LEMMA GateEarned ==
    ASSUME EarnedInv, NEW s \in Session,
           ApproveClosure(s) \/ ValidateEvidence(s) \/ BuildFingerprint(s) \/ CloseMission(s)
    PROVE  EarnedInv'
<1> USE FileFacts
<1>0. /\ disk' = disk /\ said \subseteq said' /\ raced \subseteq raced'
      /\ ShapeInv /\ SaidInv /\ Exclusion /\ EarnedOwn(s) /\ OutputOwn(s)
  BY DEF ApproveClosure, Typed, Enter, ValidateEvidence, BuildFingerprint, CloseMission, Quiet, EarnedInv
<1>1. SaidInv'
  BY <1>0 DEF SaidInv, Readable
<1>2. CASE Raise(s)
  BY <1>0, <1>2, EarnedRaise
<1>3. ASSUME Alters(s), Exclusion', EarnedOwn(s)', OutputOwn(s)' PROVE EarnedInv'
  BY <1>0, <1>1, <1>3, EarnedStep DEF ShapeInv
<1>4. ASSUME Alters(s), proc[s].pc \in Closing PROVE Exclusion'
  BY <1>0, <1>4 DEF Exclusion, Alters
<1>5. CASE ApproveClosure(s)
  <2>1. Go(s, "validate") /\ <<"closure">> \in said' /\ Enter(s, "closure", Closing)
    BY <1>5 DEF ApproveClosure, Typed
  <2>2. Alters(s) /\ proc'[s].pc = "validate"
    BY <1>0, <2>1, GoFacts
  <2>3. EarnedOwn(s)' /\ OutputOwn(s)'
    BY <2>1, <2>2 DEF EarnedOwn, OutputOwn, Writes, WritesTo
  <2>4. Exclusion'
    <3>1. SUFFICES ASSUME "closure" \notin raced' PROVE \A t \in Session \ {s} : proc[t].pc \notin Closing
      BY <2>2 DEF Exclusion, Alters
    <3> QED BY <2>1, <3>1 DEF Enter
  <2> QED BY <1>3, <2>2, <2>3, <2>4
<1>6. CASE ValidateEvidence(s) /\ ~Raise(s)
  <2>1. Go(s, "hash") /\ proc[s].pc = "validate" /\ said' = said
    BY <1>6 DEF ValidateEvidence, Quiet
  <2>2. Alters(s) /\ proc'[s].pc = "hash"
    BY <1>0, <2>1, GoFacts
  <2>3. EarnedOwn(s)' /\ OutputOwn(s)'
    BY <1>0, <2>1, <2>2 DEF EarnedOwn, OutputOwn, Writes, WritesTo, Closing
  <2> QED BY <1>3, <1>4, <2>1, <2>2, <2>3 DEF Closing
<1>7. CASE BuildFingerprint(s) /\ ~Raise(s)
  <2>1. /\ proc[s].pc = "hash" /\ said' = said /\ Eligible
        /\ proc' = [proc EXCEPT ![s].pc = "gate",
                       ![s].fp = [review |-> Version, teachback |-> disk["teachback"].text]]
    BY <1>7 DEF BuildFingerprint, Quiet
  <2>2. Alters(s) /\ proc'[s].pc = "gate" /\ proc'[s].fp.teachback = disk["teachback"].text
    BY <1>0, <2>1 DEF ShapeInv, Alters, ProcFields
  <2>3. <<"review">> \in said /\ <<"teachback", disk["teachback"].text>> \in said /\ <<"closure">> \in said
    BY <1>0, <2>1, TextFacts DEF SaidInv, Eligible, ApprovedReview, Readable, EarnedOwn, Closing
  <2>4. EarnedOwn(s)' /\ OutputOwn(s)'
    BY <2>1, <2>2, <2>3 DEF EarnedOwn, OutputOwn, Writes, WritesTo
  <2> QED BY <1>3, <1>4, <2>1, <2>2, <2>4 DEF Closing
<1>8. CASE CloseMission(s) /\ ~Raise(s)
  <2>1. proc[s].pc = "gate" /\ said' = said /\ raced' = raced
    BY <1>8 DEF CloseMission, Quiet
  <2>2. CASE Go(s, "mark closed")
    <3>1. Alters(s) /\ proc'[s].pc \in Plain
      BY <1>0, <2>2, GoFacts DEF Plain
    <3> QED BY <1>0, <3>1, EarnedPlain
  <2>3. CASE ~Go(s, "mark closed")
    <3>1. PICK t \in Stamps : proc' = [proc EXCEPT ![s].pc = "check", ![s].at = t, ![s].k = 1]
      BY <1>8, <2>3 DEF CloseMission
    <3>2. disk["status"] = Absent
      BY <1>8, <2>3 DEF CloseMission
    <3>3. disk["report"] = Absent
      BY <3>2 DEF EarnedInv, ReportIsBacked
    <3>4. Alters(s) /\ proc'[s].pc = "check" /\ proc'[s].k = 1 /\ proc'[s].fp = proc[s].fp
      BY <1>0, <3>1 DEF ShapeInv, Alters, ProcFields
    <3>5. EarnedOwn(s)'
      BY <1>0, <2>1, <3>4 DEF EarnedOwn, Writes, WritesTo, Closing
    <3>6. OutputOwn(s)'
      BY <1>0, <3>2, <3>3, <3>4 DEF OutputOwn
    <3> QED BY <1>3, <1>4, <2>1, <3>4, <3>5, <3>6 DEF Closing
  <2> QED BY <2>2, <2>3
<1> QED BY <1>2, <1>5, <1>6, <1>7, <1>8

\* Once output k is there, the next one is at hand.
LEMMA OutputNext ==
    ASSUME NEW s \in Session, OutputOwn(s), NEW k \in 1..5, proc[s].k = k, proc[s].pc \in {"check", "replace"},
           proc'[s].k = k + 1, proc'[s].fp = proc[s].fp, raced' = raced,
           \A f \in Outputs : f # OUTPUTS[k] => disk'[f] = disk[f],
           disk'[OUTPUTS[k]] # Absent,
           OUTPUTS[k] \in {"decision", "status"} => disk'[OUTPUTS[k]].fp = proc[s].fp
    PROVE  OutputOwn(s)'
<1>1. ASSUME NEW j \in 1..k PROVE disk'[OUTPUTS[j]] # Absent
  <2>1. CASE j = k
    BY <2>1
  <2>2. CASE j # k
    <3>1. j \in 1..(k - 1) /\ j \in 1..6
      BY <2>2
    <3>2. disk[OUTPUTS[j]] # Absent /\ OUTPUTS[j] \in Outputs
      BY <3>1, FileFacts DEF OutputOwn
    <3> QED BY <3>2
  <2> QED BY <2>1, <2>2
<1>2. ASSUME "closure" \notin raced
      PROVE  /\ disk'["report"] = Absent
             /\ k + 1 <= 4 => disk'["status"] = Absent
             /\ k + 1 > 2 => disk'["decision"].fp = proc[s].fp
             /\ k + 1 > 4 => disk'["status"].fp = proc[s].fp
  <2>1. /\ disk["report"] = Absent
        /\ k <= 4 => disk["status"] = Absent
        /\ k > 2 => disk["decision"].fp = proc[s].fp
        /\ k > 4 => disk["status"].fp = proc[s].fp
    BY <1>2 DEF OutputOwn
  <2>2. disk'["report"] = disk["report"]
    BY FileFacts
  <2>3. k = 2 \/ disk'["decision"] = disk["decision"]
    BY FileFacts
  <2>4. k = 4 \/ disk'["status"] = disk["status"]
    BY FileFacts
  <2>5. k = 2 => disk'["decision"].fp = proc[s].fp
    BY FileFacts
  <2>6. k = 4 => disk'["status"].fp = proc[s].fp
    BY FileFacts
  <2>7. k + 1 <= 4 => disk'["status"] = Absent
    BY <2>1, <2>4
  <2>8. k + 1 > 2 => disk'["decision"].fp = proc[s].fp
    <3>1. k + 1 > 2 => k = 2 \/ k > 2
      OBVIOUS
    <3> QED BY <2>1, <2>3, <2>5, <3>1
  <2>9. k + 1 > 4 => disk'["status"].fp = proc[s].fp
    <3>1. k + 1 > 4 => k = 4 \/ k > 4
      OBVIOUS
    <3> QED BY <2>1, <2>4, <2>6, <3>1
  <2> QED BY <2>1, <2>2, <2>7, <2>8, <2>9
<1>3. PICK n : n = k + 1
  OBVIOUS
<1>4. n \in 1..6 /\ proc'[s].k = n /\ 1..(n - 1) = 1..k
  BY <1>3
<1>5. \A j \in 1..(n - 1) : disk'[OUTPUTS[j]] # Absent
  BY <1>1, <1>4
<1>6. "closure" \notin raced' =>
          /\ disk'["report"] = Absent
          /\ n <= 4 => disk'["status"] = Absent
          /\ n > 2 => disk'["decision"].fp = proc'[s].fp
          /\ n > 4 => disk'["status"].fp = proc'[s].fp
  BY <1>2, <1>3
<1> QED BY <1>4, <1>5, <1>6 DEF OutputOwn

\* The outputs: one that is there is passed, one that is not is written.
LEMMA OutputEarned ==
    ASSUME EarnedInv, NEW s \in Session, EnsureNewOrIdentical(s)
    PROVE  EarnedInv'
<1>0. /\ disk' = disk /\ said' = said /\ raced' = raced /\ proc[s].pc = "check"
      /\ ShapeInv /\ SaidInv /\ Exclusion /\ EarnedOwn(s) /\ OutputOwn(s)
  BY DEF EnsureNewOrIdentical, Quiet, EarnedInv
<1>1. SaidInv'
  BY <1>0 DEF SaidInv, Readable
<1>2. CASE Raise(s)
  BY <1>0, <1>2, EarnedRaise
<1>3. ASSUME Alters(s), EarnedOwn(s)', OutputOwn(s)' PROVE EarnedInv'
  <2>1. Exclusion'
    BY <1>0, <1>3 DEF Exclusion, Alters, Closing
  <2> QED BY <1>0, <1>1, <1>3, <2>1, EarnedStep DEF ShapeInv
<1>4. CASE Go(s, "replace")
  <2>1. Alters(s) /\ proc'[s].pc = "replace" /\ proc'[s].k = proc[s].k /\ proc'[s].fp = proc[s].fp
    BY <1>0, <1>4, GoFacts
  <2>2. EarnedOwn(s)'
    BY <1>0, <2>1 DEF EarnedOwn, Writes, WritesTo, Closing
  <2>3. OutputOwn(s)'
    BY <1>0, <2>1 DEF OutputOwn
  <2> QED BY <1>3, <2>1, <2>2, <2>3
<1>5. CASE ~Raise(s) /\ ~Go(s, "replace")
  <2>1. PICK k \in 1..6 : k = proc[s].k
    BY <1>0 DEF OutputOwn
  <2> DEFINE f == OUTPUTS[k]
  <2>2. f \in Outputs
    BY FileFacts
  <2>3. Content(s, f) # Absent
    BY <2>2, ContentFacts
  <2>4. proc' = [proc EXCEPT ![s] = NextOutput(s)] /\ Found(s, f) = Content(s, f) /\ Found(s, f) # Absent
    BY <1>5, <2>1, <2>3 DEF EnsureNewOrIdentical
  <2>5. /\ Alters(s)
        /\ k = 6 => proc'[s].pc = "mark closed"
        /\ k # 6 => proc'[s].pc = "check" /\ proc'[s].k = k + 1 /\ proc'[s].fp = proc[s].fp
    BY <1>0, <2>1, <2>4, NextOutputFacts
  <2>6. disk[f] = Content(s, f)
    BY <2>4 DEF Found
  <2>7. disk[f] # Absent /\ (f \in {"decision", "status", "report"} => disk[f].fp = proc[s].fp)
    BY <2>2, <2>6, ContentFacts
  <2>8. CASE k = 6
    BY <1>0, <2>5, <2>8, EarnedPlain DEF Plain
  <2>9. CASE k # 6
    <3>1. EarnedOwn(s)'
      BY <1>0, <2>5, <2>9 DEF EarnedOwn, Writes, WritesTo, Closing
    <3>2. k \in 1..5
      BY <2>9
    <3> HIDE DEF f
    <3>3. \A g \in Outputs : disk'[g] = disk[g]
      BY <1>0
    <3>4. OutputOwn(s)'
      BY <1>0, <2>1, <2>5, <2>7, <2>9, <3>2, <3>3, OutputNext DEF f
    <3> QED BY <1>3, <2>5, <3>1, <3>4
  <2> QED BY <2>8, <2>9
<1> QED BY <1>2, <1>4, <1>5

LEMMA AtomicEarned ==
    ASSUME EarnedInv, NEW s \in Session, AtomicWrite(s)
    PROVE  EarnedInv'
<1>0. /\ said' = said /\ raced' = raced /\ proc[s].pc = "replace"
      /\ ShapeInv /\ SaidInv /\ Exclusion /\ EarnedOwn(s) /\ OutputOwn(s) /\ ReportIsBacked /\ ClosedIsEarned
  BY DEF AtomicWrite, Quiet, EarnedInv
<1>1. PICK k \in 1..6 : k = proc[s].k
  BY <1>0 DEF OutputOwn
<1>2. OUTPUTS[k] \in Outputs
  BY FileFacts
<1>3. PICK f \in Outputs : f = OUTPUTS[k]
  BY <1>2
<1>4. /\ Alters(s)
      /\ k = 6 => proc'[s].pc = "mark closed"
      /\ k # 6 => proc'[s].pc = "check" /\ proc'[s].k = k + 1 /\ proc'[s].fp = proc[s].fp
  <2>1. proc' = [proc EXCEPT ![s] = NextOutput(s)]
    BY DEF AtomicWrite
  <2> QED BY <1>0, <1>1, <2>1, NextOutputFacts
<1>5. DOMAIN disk' = Files /\ \A g \in Files : disk'[g] = IF g = f THEN Content(s, f) ELSE disk[g]
  BY <1>0, <1>1, <1>3, FileFacts DEF AtomicWrite, ShapeInv
<1>6. disk'[f] # Absent /\ (f \in {"decision", "status", "report"} => disk'[f].fp = proc[s].fp)
  BY <1>5, ContentFacts, FileFacts
<1>7. \A g \in Files : g # f => disk'[g] = disk[g]
  BY <1>5
<1>8. {<<"review">>, <<"closure">>, <<"teachback", proc[s].fp.teachback>>} \subseteq said
  BY <1>0 DEF EarnedOwn, Closing
<1>9. ShapeInv'
  BY <1>0, <1>4, <1>5, <1>7, FileFacts DEF ShapeInv, Alters
<1>10. SaidInv'
  BY <1>0, <1>7, FileFacts DEF SaidInv, Readable
<1>11. ClosedIsEarned'
  <2>1. CASE f = "status"
    BY <1>0, <1>6, <1>8, <2>1 DEF ClosedIsEarned
  <2>2. CASE f # "status"
    BY <1>0, <1>7, <2>2, FileFacts DEF ClosedIsEarned
  <2> QED BY <2>1, <2>2
<1>12. ReportIsBacked'
  <2>1. CASE k = 6
    <3>1. f = "report"
      BY <1>3, <2>1, FileFacts
    <3>2. \A j \in 1..5 : disk[OUTPUTS[j]] # Absent
      BY <1>0, <1>1, <2>1 DEF OutputOwn
    <3>3. \A g \in Outputs : disk'[g] # Absent
      BY <1>6, <1>7, <3>1, <3>2, FileFacts
    <3>4. "closure" \notin raced => disk["decision"].fp = proc[s].fp /\ disk["status"].fp = proc[s].fp
      BY <1>0, <1>1, <2>1 DEF OutputOwn
    <3>5. "closure" \notin raced =>
             \A g \in {"decision", "status"} : disk'[g].fp = disk'["report"].fp
      BY <1>6, <1>7, <3>1, <3>4, FileFacts
    <3> QED BY <1>0, <3>3, <3>5 DEF ReportIsBacked
  <2>2. CASE k # 6
    <3>1. f # "report"
      BY <1>3, <2>2, FileFacts
    <3>2. disk'["report"] = disk["report"]
      BY <1>7, <3>1, FileFacts
    <3>3. disk["report"] # Absent => "closure" \in raced /\ \A g \in Outputs : disk[g] # Absent
      BY <1>0 DEF ReportIsBacked, OutputOwn
    <3>4. disk["report"] # Absent => \A g \in Outputs : disk'[g] # Absent
      BY <1>6, <1>7, <3>3, FileFacts
    <3> QED BY <1>0, <3>2, <3>3, <3>4 DEF ReportIsBacked
  <2> QED BY <2>1, <2>2
<1>13. Exclusion'
  <2>1. SUFFICES ASSUME "closure" \notin raced, NEW t \in Session \ {s} PROVE proc'[t].pc \notin Closing
    BY <1>0 DEF Exclusion
  <2>2. proc[t].pc \notin Closing /\ proc'[t] = proc[t]
    BY <1>0, <1>4, <2>1 DEF Exclusion, Alters, Closing
  <2> QED BY <2>2
<1>14. EarnedOwn(s)' /\ OutputOwn(s)'
  <2>1. CASE k = 6
    BY <1>4, <2>1 DEF EarnedOwn, OutputOwn, Writes, WritesTo, Closing
  <2>2. CASE k # 6
    <3>1. EarnedOwn(s)'
      BY <1>0, <1>4, <2>2 DEF EarnedOwn, Writes, WritesTo, Closing
    <3>2. k \in 1..5
      BY <2>2
    <3>3. \A g \in Outputs : g # OUTPUTS[k] => disk'[g] = disk[g]
      BY <1>3, <1>7, FileFacts
    <3>4. OutputOwn(s)'
      BY <1>0, <1>1, <1>3, <1>4, <1>6, <2>2, <3>2, <3>3, OutputNext
    <3> QED BY <3>1, <3>4
  <2> QED BY <2>1, <2>2
<1>15. ASSUME NEW t \in Session, t # s PROVE EarnedOwn(t)' /\ OutputOwn(t)'
  <2>1. proc'[t] = proc[t]
    BY <1>4, <1>15 DEF Alters
  <2>2. EarnedOwn(t) /\ OutputOwn(t)
    BY DEF EarnedInv
  <2>3. EarnedOwn(t)'
    BY <1>0, <2>1, <2>2 DEF EarnedOwn, Writes, WritesTo
  <2>4. CASE "closure" \in raced
    <3>1. \A g \in Outputs : disk[g] # Absent => disk'[g] # Absent
      BY <1>6, <1>7, FileFacts
    <3>2. \A j \in 1..6 : disk[OUTPUTS[j]] # Absent => disk'[OUTPUTS[j]] # Absent
      BY <3>1, FileFacts
    <3> QED BY <1>0, <2>1, <2>2, <2>3, <2>4, <3>2 DEF OutputOwn
  <2>5. CASE "closure" \notin raced
    <3>1. proc[t].pc \notin Closing
      BY <1>0, <1>15, <2>5 DEF Exclusion, Closing
    <3> QED BY <2>1, <2>3, <3>1 DEF OutputOwn, Closing
  <2> QED BY <2>4, <2>5
<1>16. \A t \in Session : EarnedOwn(t)' /\ OutputOwn(t)'
  BY <1>14, <1>15
<1> QED BY <1>9, <1>10, <1>11, <1>12, <1>13, <1>16 DEF EarnedInv

\* After the outputs: the proposal, the user and the active mission are marked.
LEMMA LeaveEarned ==
    ASSUME EarnedInv, NEW s \in Session, MarkClosed(s) \/ MarkMissionClosed(s) \/ ClearActive(s)
    PROVE  EarnedInv'
<1>0. disk' = disk /\ said' = said /\ raced' = raced
  BY DEF MarkClosed, MarkMissionClosed, ClearActive, Quiet
<1>1. CASE Raise(s)
  BY <1>0, <1>1, EarnedRaise
<1>2. CASE MarkClosed(s) /\ ~Raise(s)
  <2> DEFINE rec == [disk["closure"] EXCEPT !.status = "closed"]
  <2>1. Writing(s, "closure", rec, "leave") /\ Readable("closure")
    BY <1>2 DEF MarkClosed
  <2>2. Holds("closure", disk["closure"])
    BY <2>1, ReadableHolds, FileFacts
  <2>3. Holds("closure", rec) /\ "leave" \in Thens("closure")
    BY <2>2 DEF Holds, Thens
  <2> HIDE DEF rec
  <2> QED BY <1>0, <2>1, <2>3, EarnedWriting, FileFacts
<1>3. CASE MarkMissionClosed(s) /\ ~Raise(s)
  <2> DEFINE rec == [disk["user"] EXCEPT !.active = FALSE]
  <2>1. Writing(s, "user", rec, "left") /\ Readable("user")
    BY <1>3 DEF MarkMissionClosed
  <2>2. Holds("user", disk["user"])
    BY <2>1, ReadableHolds, FileFacts
  <2>3. Holds("user", rec) /\ "left" \in Thens("user")
    BY <2>2 DEF Holds, Thens
  <2> HIDE DEF rec
  <2> QED BY <1>0, <2>1, <2>3, EarnedWriting, FileFacts
<1>4. CASE ClearActive(s) /\ ~Raise(s)
  <2>1. /\ Alters(s) /\ proc'[s].pc = "truncate" /\ proc'[s].file = "active" /\ proc'[s].then = "prompt"
        /\ proc'[s].val = [is |-> "active", state |-> "closed"]
    BY <1>4, ClearFacts DEF EarnedInv
  <2>2. Holds("active", proc'[s].val) /\ "active" \in Records /\ "prompt" \in Thens("active")
    BY <2>1, RecordFacts, FileFacts DEF Thens
  <2>3. EarnedOwn(s)' /\ proc'[s].pc \notin Closing
    BY <2>1, <2>2 DEF EarnedOwn, Writes, WritesTo, Closing
  <2> QED BY <1>0, <2>1, <2>3, EarnedQuiet
<1> QED BY <1>1, <1>2, <1>3, <1>4

LEMMA EarnedInit == Init => EarnedInv
<1> SUFFICES ASSUME Init PROVE EarnedInv
  OBVIOUS
<1>1. /\ proc = [s \in Session |-> Idle] /\ raced = {} /\ said = {}
      /\ \A s \in Session : proc[s] = Idle
  BY DEF Init
<1>2. /\ DOMAIN disk = Files
      /\ disk["user"] = [is |-> "user", active |-> TRUE]
      /\ disk["active"] = [is |-> "active", state |-> "awaiting_review_approval"]
      /\ disk["proposal"] = [is |-> "proposal", status |-> "proposed", sha |-> 0]
      /\ \A f \in Files \ {"user", "active", "proposal"} : disk[f] = Absent
  BY FileFacts DEF Init
<1>3. DOMAIN Idle = ProcFields /\ Idle.pc = "off"
  BY DEF Idle, ProcFields
<1>4. ShapeInv
  <2>1. /\ Holds("user", disk["user"]) /\ Holds("active", disk["active"])
        /\ Holds("proposal", disk["proposal"])
    BY <1>2, RecordFacts DEF Holds
  <2>2. DOMAIN proc = Session
    BY <1>1
  <2> QED BY <1>1, <1>2, <1>3, <2>1, <2>2, FileFacts DEF ShapeInv
<1>5. SaidInv /\ ClosedIsEarned /\ ReportIsBacked
  BY <1>2, FileFacts DEF SaidInv, ClosedIsEarned, ReportIsBacked, Readable
<1>6. Exclusion /\ \A s \in Session : EarnedOwn(s) /\ OutputOwn(s)
  BY <1>1, <1>3 DEF Exclusion, EarnedOwn, OutputOwn, Writes, WritesTo, Closing
<1> QED BY <1>4, <1>5, <1>6 DEF EarnedInv

LEMMA EarnedNext == EarnedInv /\ [Next]_vars => EarnedInv'
<1> SUFFICES ASSUME EarnedInv, [Next]_vars PROVE EarnedInv'
  OBVIOUS
<1>1. CASE UNCHANGED vars
  BY ZenonT(60), <1>1 DEF vars, EarnedInv, ShapeInv, SaidInv, ClosedIsEarned, ReportIsBacked, Exclusion, EarnedOwn,
              OutputOwn, Readable, Writes, WritesTo
<1>2. CASE Next
  <2>1. PICK s \in Session : SessionNext(s)
    BY <1>2 DEF Next
  <2> QED BY <2>1, TruncateEarned, WriteEarned, SessionEarned, ReviewEarned, TeachbackEarned, GateEarned,
             OutputEarned, AtomicEarned, LeaveEarned DEF SessionNext
<1> QED BY <1>1, <1>2

\* The invariant of the closure, whatever the sessions do.
THEOREM ClosureInvariance == Spec => []EarnedInv
<1> QED BY EarnedInit, EarnedNext, PTL DEF Spec

\* A closed mission_status.json means that the human approved the review, gave
\* the explanation the closure fingerprinted and approved the closure, for any
\* number of sessions, crashes and retries (ClosedIsEarned).
THEOREM Earned == Spec => []ClosedIsEarned
<1>1. EarnedInv => ClosedIsEarned
  BY DEF EarnedInv
<1> QED BY <1>1, ClosureInvariance, PTL

\* A closure report never stands without the files it lists, and names the same
\* evidence as they do unless two closures ran at once (ReportIsBacked).
THEOREM ReportBacked == Spec => []ReportIsBacked
<1>1. EarnedInv => ReportIsBacked
  BY DEF EarnedInv
<1> QED BY <1>1, ClosureInvariance, PTL
-----------------------------------------------------------------------------
(* One session at a time: OneInv, step by step.  In every step the other   *)
(* sessions are off, so only the files and the session itself matter.      *)

OthersOff(s) == \A t \in Session \ {s} : proc[t].pc = "off"

LEMMA OffFacts ==
    ASSUME OneInv, NEW s \in Session, proc[s].pc # "off"
    PROVE  OthersOff(s)
  BY DEF OneInv, Alone, OthersOff

LEMMA OneStep ==
    ASSUME NEW s \in Session, Alters(s), OthersOff(s), OneDisk', OneOwn(s)'
    PROVE  OneInv'
<1>1. \A t \in Session \ {s} : proc'[t].pc = "off"
  BY DEF Alters, OthersOff
<1>2. Alone'
  BY <1>1 DEF Alone
<1>3. \A t \in Session \ {s} : OneOwn(t)'
  BY <1>1 DEF OneOwn, WritesTo, Writes, Closing
<1> QED BY <1>2, <1>3 DEF OneInv

LEMMA OneDiskSame == ASSUME OneInv, disk' = disk PROVE OneDisk'
  BY DEF OneInv, OneDisk, Reviewed, Taught, Evidence, Version, Status, Readable, ApprovedReview, ValidRecord

\* The pcs that ask nothing of the files while one session is open.
Calmly == {"off", "start", "prompt", "handoff", "changes", "request", "reviewed", "propose closure",
           "taught", "mark closed", "leave", "left"}

LEMMA OnePlain ==
    ASSUME OneInv, NEW s \in Session, Alters(s), OthersOff(s), disk' = disk, proc'[s].pc \in Calmly
    PROVE  OneInv'
<1>1. OneOwn(s)'
  BY DEF OneOwn, WritesTo, Writes, Closing, Calmly
<1> QED BY <1>1, OneStep, OneDiskSame

LEMMA OneRaise ==
    ASSUME EarnedInv, OneInv, NEW s \in Session, Raise(s), OthersOff(s), disk' = disk
    PROVE  OneInv'
<1>1. Alters(s) /\ proc'[s].pc \in Calmly
  BY RaiseFacts DEF EarnedInv, Calmly
<1> QED BY <1>1, OnePlain

LEMMA OneWriting ==
    ASSUME EarnedInv, OneInv, NEW s \in Session, NEW file, NEW val, NEW then,
           Writing(s, file, val, then), OthersOff(s), disk' = disk, OneWrites(file, val)
    PROVE  OneInv'
<1>1. Alters(s) /\ proc'[s].pc = "truncate" /\ proc'[s].file = file /\ proc'[s].val = val
  BY WritingFacts DEF EarnedInv
<1>2. OneWrites(file, val)'
  BY <1>1 DEF OneWrites, Reviewed, Taught, Evidence, Version, Status, Readable, ApprovedReview, ValidRecord
<1>3. OneOwn(s)'
  BY <1>1, <1>2 DEF OneOwn, OneWrites, Writes, Closing
<1> QED BY <1>1, <1>3, OneStep, OneDiskSame
\* A report, a closure proposal and a request only stand on recorded proposals.
LEMMA OneChain ==
    ASSUME OneDisk
    PROVE  /\ disk["request"] # Absent => Status("proposal") = "recorded"
           /\ disk["closure"] # Absent => Status("request") = "recorded" /\ Status("proposal") = "recorded"
           /\ disk["report"] # Absent => disk["closure"] # Absent
  BY DEF OneDisk, Reviewed, Taught

\* What OneDisk says is about six files.
LEMMA DiskFrame ==
    ASSUME OneDisk,
           \A f \in {"proposal", "review", "request", "teachback", "closure", "report"} : disk'[f] = disk[f]
    PROVE  OneDisk'
  BY DEF OneDisk, Reviewed, Taught, Evidence, Version, Status, Readable, ApprovedReview, ValidRecord

LEMMA OneTruncate ==
    ASSUME EarnedInv, OneInv, NEW s \in Session, Truncate(s)
    PROVE  OneInv'
<1>1. proc[s].pc = "truncate" /\ Go(s, "write")
  BY DEF Truncate
<1>2. Alters(s) /\ proc'[s].pc = "write" /\ proc'[s].file = proc[s].file /\ proc'[s].val = proc[s].val
  BY <1>1, GoFacts DEF EarnedInv
<1>3. OthersOff(s) /\ OneDisk /\ OneWrites(proc[s].file, proc[s].val)
  BY <1>1, OffFacts DEF OneInv, OneOwn, Writes
<1>4. PICK f \in Records : f = proc[s].file
  BY <1>1 DEF EarnedInv, EarnedOwn, Writes
<1>5. PICK v : v = proc[s].val
  OBVIOUS
<1>6. \A g \in Files : disk'[g] = IF g = f THEN Torn ELSE disk[g]
  BY <1>4, FileFacts DEF Truncate, EarnedInv, ShapeInv
<1>7. OneWrites(f, v)
  BY <1>3, <1>4, <1>5
<1>8. SUFFICES OneDisk' /\ OneWrites(f, v)'
  <2>1. ASSUME OneWrites(f, v)' PROVE OneOwn(s)'
    BY <1>2, <1>4, <1>5, <2>1 DEF OneOwn, Writes, Closing
  <2> QED BY <1>2, <1>3, <2>1, OneStep
<1> USE FileFacts DEF Reviewed, Taught, Evidence, Version, Status, Readable, ApprovedReview, ValidRecord
<1>9. CASE f \in {"user", "active"}
  <2>1. \A g \in Files \ {"user", "active"} : disk'[g] = disk[g]
    BY <1>6, <1>9
  <2> QED BY <1>3, <1>7, <1>9, <2>1, DiskFrame DEF OneWrites
<1>10. CASE f = "proposal"
  <2>1. disk["closure"] = Absent /\ disk["request"] = Absent /\ disk["report"] = Absent
    BY <1>3, <1>7, <1>10, OneChain DEF OneWrites
  <2> QED BY <1>6, <1>7, <1>10, <2>1 DEF OneDisk, OneWrites
<1>11. CASE f = "review"
  <2>1. disk["closure"] = Absent /\ disk["request"] = Absent /\ disk["report"] = Absent
    BY <1>3, <1>7, <1>11, OneChain DEF OneWrites
  <2> QED BY <1>6, <1>7, <1>11, <2>1 DEF OneDisk, OneWrites
<1>12. CASE f = "request"
  <2>1. disk["closure"] = Absent /\ disk["report"] = Absent
    BY <1>3, <1>7, <1>12, OneChain DEF OneWrites
  <2> QED BY <1>3, <1>6, <1>7, <1>12, <2>1 DEF OneDisk, OneWrites
<1>13. CASE f = "teachback"
  <2>1. disk["closure"] = Absent /\ disk["report"] = Absent
    BY <1>3, <1>7, <1>13, OneChain DEF OneWrites
  <2> QED BY <1>3, <1>6, <1>7, <1>13, <2>1 DEF OneDisk, OneWrites
<1>14. CASE f = "closure"
  BY <1>3, <1>6, <1>7, <1>14, SentinelFacts DEF OneDisk, OneWrites
<1> QED BY <1>9, <1>10, <1>11, <1>12, <1>13, <1>14

LEMMA OneWrite ==
    ASSUME EarnedInv, OneInv, NEW s \in Session, Write(s)
    PROVE  OneInv'
<1>1. /\ proc[s].pc = "write" /\ Alters(s) /\ proc'[s].pc = proc[s].then
      /\ proc[s].file \in Records /\ Holds(proc[s].file, proc[s].val)
      /\ proc[s].then \in Thens(proc[s].file)
      /\ \A f \in Files : disk'[f] = IF f = proc[s].file THEN proc[s].val ELSE disk[f]
  BY WriteFacts
<1>2. OthersOff(s) /\ OneDisk /\ OneWrites(proc[s].file, proc[s].val)
  BY <1>1, OffFacts DEF OneInv, OneOwn, Writes
<1>3. PICK f, v : f \in Records /\ f = proc[s].file /\ v = proc[s].val
  BY <1>1
<1>4. OneWrites(f, v) /\ Holds(f, v) /\ proc'[s].pc \in Thens(f)
  BY <1>1, <1>2, <1>3
<1>5. \A g \in Files : disk'[g] = IF g = f THEN v ELSE disk[g]
  BY <1>1, <1>3
<1>6. v \notin {Absent, Torn}
  BY <1>3, <1>4, HoldsFacts
<1>7. SUFFICES OneDisk' /\ OneOwn(s)'
  BY <1>1, <1>2, OneStep
<1> USE FileFacts DEF Reviewed, Taught, Evidence, Version, Status, Readable, ApprovedReview, ValidRecord
<1>8. f \notin {"review", "teachback"} => OneOwn(s)'
  BY <1>4 DEF Thens, OneOwn, Writes, Closing
<1>9. CASE f \in {"user", "active"}
  <2>1. \A g \in Files \ {"user", "active"} : disk'[g] = disk[g]
    BY <1>5, <1>9
  <2> QED BY <1>2, <1>8, <1>9, <2>1, DiskFrame
<1>10. CASE f = "proposal"
  <2>1. disk["closure"] = Absent /\ disk["request"] = Absent /\ disk["report"] = Absent
    BY <1>2, <1>4, <1>10, OneChain DEF OneWrites
  <2> QED BY <1>4, <1>5, <1>6, <1>8, <1>10, <2>1 DEF OneDisk, OneWrites
<1>11. CASE f = "review"
  <2>1. disk["closure"] = Absent /\ disk["request"] = Absent /\ disk["report"] = Absent
    BY <1>2, <1>4, <1>11, OneChain DEF OneWrites
  <2>2. OneOwn(s)'
    BY <1>4, <1>5, <1>11 DEF OneWrites, OneOwn, Thens, Writes, Closing
  <2> QED BY <1>4, <1>5, <1>11, <2>1, <2>2 DEF OneDisk, OneWrites
<1>12. CASE f = "request"
  <2>1. disk["closure"] = Absent /\ disk["report"] = Absent
    BY <1>2, <1>4, <1>12, OneChain DEF OneWrites
  <2> QED BY <1>2, <1>4, <1>5, <1>6, <1>8, <1>12, <2>1 DEF OneDisk, OneWrites
<1>13. CASE f = "teachback"
  <2>1. disk["closure"] = Absent /\ disk["report"] = Absent
    BY <1>2, <1>4, <1>13, OneChain DEF OneWrites
  <2>2. OneOwn(s)'
    BY ZenonT(60), <1>4, <1>5, <1>13 DEF OneWrites, OneOwn, Thens, Writes, Closing
  <2> QED BY <1>2, <1>4, <1>5, <1>13, <2>1, <2>2 DEF OneDisk, OneWrites
<1>14. CASE f = "closure"
  BY <1>2, <1>4, <1>5, <1>6, <1>8, <1>14 DEF OneDisk, OneWrites
<1> QED BY <1>3, <1>9, <1>10, <1>11, <1>12, <1>13, <1>14
\* While one session is allowed, none is open when one opens.
LEMMA OpenAlone ==
    ASSUME env.sessions = 1, NEW s \in Session, Open(s)
    PROVE  OthersOff(s)
<1> DEFINE S == {t \in Session : proc[t].pc # "off"}
<1>1. IsFiniteSet(S)
  BY BoundAssumption, FS_Subset
<1>2. Cardinality(S) \in Nat /\ Cardinality(S) < 1
  BY <1>1, FS_CardinalityType DEF Open
<1>3. Cardinality(S) = 0
  BY <1>2
<1>4. S = {}
  BY <1>1, <1>3, FS_EmptySet
<1> QED BY <1>4 DEF OthersOff

\* Opening a session, the prompt, /exit and a killed process.
LEMMA OneSession ==
    ASSUME EarnedInv, OneInv, env.sessions = 1, NEW s \in Session,
           Open(s) \/ StartSession(s) \/ Prompt(s) \/ Exit(s) \/ RecordHandoff(s) \/ Crash(s)
    PROVE  OneInv'
<1>0. OthersOff(s) /\ disk' = disk /\ ShapeInv
  <2>1. CASE Open(s)
    BY <2>1, OpenAlone DEF Open, EarnedInv
  <2>2. CASE ~Open(s)
    <3>1. proc[s].pc # "off"
      BY <2>2 DEF StartSession, Prompt, Exit, RecordHandoff, Crash
    <3> QED BY <2>2, <3>1, OffFacts DEF StartSession, Prompt, Exit, RecordHandoff, Crash, EarnedInv
  <2> QED BY <2>1, <2>2
<1>1. CASE Raise(s)
  BY <1>0, <1>1, OneRaise
<1>2. CASE Open(s)
  <2>1. Alters(s) /\ proc'[s].pc = "start"
    BY <1>0, <1>2 DEF Open, ShapeInv, Alters, ProcFields
  <2> QED BY <1>0, <2>1, OnePlain DEF Calmly
<1>3. CASE (StartSession(s) \/ RecordHandoff(s)) /\ ~Raise(s)
  <2>1. PICK then : Writing(s, "user", disk["user"], then)
    BY <1>3 DEF StartSession, RecordHandoff
  <2>2. OneWrites("user", disk["user"])
    BY DEF OneWrites
  <2> QED BY <1>0, <2>1, <2>2, OneWriting
<1>4. CASE Prompt(s) /\ ~Raise(s)
  <2>1. proc' = [proc EXCEPT ![s].pc = "ask", ![s].offer = Offer(s),
                       ![s].id = IF Offer(s) = "closure" THEN disk["closure"].id ELSE NoFp]
    BY <1>4 DEF Prompt
  <2>2. /\ Alters(s) /\ proc'[s].pc = "ask" /\ proc'[s].offer = Offer(s)
        /\ Offer(s) = "closure" => proc'[s].id = disk["closure"].id
    BY <1>0, <2>1 DEF ShapeInv, Alters, ProcFields
  <2>3. /\ Offer(s) = "review" => Status("proposal") = "proposed"
        /\ Offer(s) = "teachback" => Status("request") = "awaiting_user_explanation"
        /\ Offer(s) = "closure" => Status("closure") = "proposed"
    BY DEF Offer
  <2>4. Offer(s) = "teachback" => disk["request"] # Absent
    BY <2>3 DEF Status, Readable
  <2>5. Offer(s) = "teachback" => Status("proposal") = "recorded"
    BY <2>4, OneChain DEF OneInv
  <2>6. Offer(s) = "closure" => Readable("closure") /\ disk["closure"] # Absent
    BY <2>3 DEF Status, Readable
  <2>7. Offer(s) = "closure" => disk["closure"].id = Evidence
    BY <2>6 DEF OneInv, OneDisk
  <2>8. OneOwn(s)'
    <3>1. /\ Status("proposal")' = Status("proposal") /\ Status("request")' = Status("request")
          /\ Evidence' = Evidence /\ disk' = disk
      BY <1>0 DEF Status, Readable, Evidence, Version
    <3> QED BY <2>2, <2>3, <2>5, <2>6, <2>7, <3>1 DEF OneOwn, Writes, Closing
  <2> QED BY <1>0, <2>2, <2>8, OneStep, OneDiskSame
<1>5. CASE Exit(s)
  <2>1. Alters(s) /\ proc'[s].pc = "handoff"
    BY <1>0, <1>5, GoFacts DEF Exit
  <2> QED BY <1>0, <2>1, OnePlain DEF Calmly
<1> QED BY <1>1, <1>2, <1>3, <1>4, <1>5 DEF Crash

LEMMA SameFacts ==
    ASSUME disk' = disk
    PROVE  /\ Status("proposal")' = Status("proposal") /\ Status("request")' = Status("request")
           /\ Status("closure")' = Status("closure") /\ Evidence' = Evidence
  BY DEF Status, Readable, Evidence, Version

LEMMA OneActive ==
    ASSUME EarnedInv, OneInv, NEW s \in Session, NEW state, OthersOff(s), UpdateActiveState(s, state), disk' = disk
    PROVE  OneInv'
<1>1. CASE Raise(s)
  BY <1>1, OneRaise
<1>2. CASE Writing(s, "active", [is |-> "active", state |-> state], "prompt")
  <2>1. OneWrites("active", [is |-> "active", state |-> state])
    BY DEF OneWrites
  <2> QED BY <1>2, <2>1, OneWriting
<1> QED BY <1>1, <1>2 DEF UpdateActiveState

\* The review is recorded once, before there is a request.
LEMMA OneReview ==
    ASSUME EarnedInv, OneInv, NEW s \in Session,
           \/ ApproveReview(s) \/ RequestReviewChanges(s) \/ ChangesRequested(s) \/ CmdReview(s)
           \/ MarkReviewRecorded(s) \/ BuildTeachbackRequest(s) \/ ReviewApproved(s)
    PROVE  OneInv'
<1>0. OthersOff(s) /\ disk' = disk /\ ShapeInv /\ OneDisk /\ OneOwn(s)
  <2>1. proc[s].pc # "off" /\ disk' = disk
    BY DEF ApproveReview, Typed, RequestReviewChanges, ChangesRequested, CmdReview, MarkReviewRecorded,
           BuildTeachbackRequest, ReviewApproved
  <2> QED BY <2>1, OffFacts DEF EarnedInv, OneInv
<1>1. CASE Raise(s)
  BY <1>0, <1>1, OneRaise
<1>2. CASE ApproveReview(s)
  <2>1. Go(s, "beta review") /\ proc[s].pc = "ask" /\ proc[s].offer = "review"
    BY <1>2 DEF ApproveReview, Typed
  <2>2. Alters(s) /\ proc'[s].pc = "beta review"
    BY <1>0, <2>1, GoFacts
  <2>3. OneOwn(s)'
    BY <1>0, <2>1, <2>2, SameFacts DEF OneOwn, Writes, Closing
  <2> QED BY <1>0, <2>2, <2>3, OneStep, OneDiskSame
<1>3. ASSUME Status("proposal") = "proposed" PROVE disk["request"] = Absent /\ disk["closure"] = Absent
  BY <1>0, <1>3, OneChain
<1>4. CASE RequestReviewChanges(s)
  <2> DEFINE rec == [is |-> "proposal", status |-> "changes_requested", sha |-> 0]
  <2>1. Writing(s, "proposal", rec, "changes") /\ proc[s].pc = "ask" /\ proc[s].offer = "review"
    BY <1>4 DEF RequestReviewChanges
  <2>2. Status("proposal") = "proposed"
    BY <1>0, <2>1 DEF OneOwn
  <2>3. OneWrites("proposal", rec)
    BY <1>3, <2>2 DEF OneWrites
  <2> HIDE DEF rec
  <2> QED BY <1>0, <2>1, <2>3, OneWriting
<1>5. CASE ChangesRequested(s) \/ ReviewApproved(s)
  BY <1>0, <1>5, OneActive DEF ChangesRequested, ReviewApproved
<1>6. CASE CmdReview(s) /\ ~Raise(s)
  <2> DEFINE rec == [is |-> "review", version |-> Version + 1]
  <2>1. Writing(s, "review", rec, "mark review") /\ proc[s].pc = "beta review"
    BY <1>6 DEF CmdReview
  <2>2. OneWrites("review", rec)
    BY <1>0, <2>1 DEF OneWrites, OneOwn
  <2> HIDE DEF rec
  <2> QED BY <1>0, <2>1, <2>2, OneWriting
<1>7. CASE MarkReviewRecorded(s) /\ ~Raise(s)
  <2> DEFINE rec == [is |-> "proposal", status |-> "recorded", sha |-> Version]
  <2>1. Writing(s, "proposal", rec, "request") /\ proc[s].pc = "mark review" /\ ApprovedReview
    BY <1>7 DEF MarkReviewRecorded
  <2>2. Status("proposal") = "proposed"
    BY <1>0, <2>1 DEF OneOwn
  <2>3. OneWrites("proposal", rec)
    BY <1>3, <2>1, <2>2 DEF OneWrites
  <2> HIDE DEF rec
  <2> QED BY <1>0, <2>1, <2>3, OneWriting
<1>8. CASE BuildTeachbackRequest(s) /\ ~Raise(s)
  <2> DEFINE rec == [is |-> "request", status |-> "awaiting_user_explanation", sha |-> "none"]
  <2>1. \/ Go(s, "reviewed")
        \/ /\ Writing(s, "request", rec, "reviewed")
           /\ disk["request"] = Absent /\ Status("proposal") = "recorded"
    BY <1>8 DEF BuildTeachbackRequest
  <2>2. CASE Go(s, "reviewed")
    <3>1. Alters(s) /\ proc'[s].pc \in Calmly
      BY <1>0, <2>2, GoFacts DEF Calmly
    <3> QED BY <1>0, <3>1, OnePlain
  <2>3. CASE /\ Writing(s, "request", rec, "reviewed")
             /\ disk["request"] = Absent /\ Status("proposal") = "recorded"
    <3>1. Status("request") # "recorded" /\ disk["closure"] = Absent
      BY <1>0, <2>3, OneChain DEF Status, Readable
    <3>2. OneWrites("request", rec)
      BY <2>3, <3>1 DEF OneWrites
    <3> HIDE DEF rec
    <3> QED BY <1>0, <2>3, <3>2, OneWriting
  <2> QED BY <2>1, <2>2, <2>3
<1> QED BY <1>1, <1>2, <1>4, <1>5, <1>6, <1>7, <1>8
\* The explanation is recorded once, before there is a closure proposal.
LEMMA OneTeachback ==
    ASSUME EarnedInv, OneInv, NEW s \in Session,
           \/ RecordTeachback(s) \/ WriteTeachback(s) \/ MarkTeachbackRecorded(s)
           \/ BuildClosureProposal(s) \/ TeachbackRecorded(s)
    PROVE  OneInv'
<1>0. OthersOff(s) /\ disk' = disk /\ ShapeInv /\ OneDisk /\ OneOwn(s)
  <2>1. proc[s].pc # "off" /\ disk' = disk
    BY DEF RecordTeachback, WriteTeachback, MarkTeachbackRecorded, BuildClosureProposal, TeachbackRecorded
  <2> QED BY <2>1, OffFacts DEF EarnedInv, OneInv
<1>1. CASE Raise(s)
  BY <1>0, <1>1, OneRaise
<1>2. ASSUME Alters(s), proc'[s].pc \in {"record", "mark teachback"},
             Status("request") # "recorded", Status("proposal") = "recorded"
      PROVE  OneInv'
  <2>1. OneOwn(s)'
    BY <1>0, <1>2, SameFacts DEF OneOwn, Writes, Closing
  <2> QED BY <1>0, <1>2, <2>1, OneStep, OneDiskSame
<1>3. CASE RecordTeachback(s)
  <2>1. PICK e \in Explanation : proc' = [proc EXCEPT ![s].pc = "record", ![s].text = e]
    BY <1>3 DEF RecordTeachback
  <2>2. Alters(s) /\ proc'[s].pc = "record"
    BY <1>0, <2>1 DEF ShapeInv, Alters, ProcFields
  <2>3. Status("request") # "recorded" /\ Status("proposal") = "recorded"
    BY <1>0, <1>3 DEF RecordTeachback, OneOwn
  <2> QED BY <1>2, <2>2, <2>3
<1>4. CASE WriteTeachback(s) /\ ~Raise(s)
  <2> DEFINE rec == [is |-> "teachback", text |-> proc[s].text]
  <2>1. Go(s, "mark teachback") \/ Writing(s, "teachback", rec, "mark teachback")
    BY <1>4 DEF WriteTeachback
  <2>2. Status("request") # "recorded" /\ Status("proposal") = "recorded"
    BY <1>0, <1>4 DEF WriteTeachback, OneOwn
  <2>3. OneWrites("teachback", rec)
    BY <2>2 DEF OneWrites
  <2> HIDE DEF rec
  <2>4. CASE Go(s, "mark teachback")
    <3>1. Alters(s) /\ proc'[s].pc = "mark teachback"
      BY <1>0, <2>4, GoFacts
    <3> QED BY <1>2, <2>2, <3>1
  <2>5. CASE Writing(s, "teachback", rec, "mark teachback")
    BY <1>0, <2>3, <2>5, OneWriting
  <2> QED BY <2>1, <2>4, <2>5
<1>5. CASE MarkTeachbackRecorded(s) /\ ~Raise(s)
  <2> DEFINE rec == [is |-> "request", status |-> "recorded", sha |-> disk["teachback"].text]
  <2>1. Writing(s, "request", rec, "propose closure") /\ ValidRecord /\ proc[s].pc = "mark teachback"
    BY <1>5 DEF MarkTeachbackRecorded
  <2>2. Status("request") # "recorded" /\ Status("proposal") = "recorded"
    BY <1>0, <2>1 DEF OneOwn
  <2>3. disk["closure"] = Absent
    BY <1>0, <2>2, OneChain
  <2>4. OneWrites("request", rec)
    BY <2>1, <2>2, <2>3 DEF OneWrites
  <2> HIDE DEF rec
  <2> QED BY <1>0, <2>1, <2>4, OneWriting
<1>6. CASE BuildClosureProposal(s) /\ ~Raise(s)
  <2> DEFINE rec == [is |-> "closure", status |-> "proposed",
                     id |-> [review |-> disk["proposal"].sha, teachback |-> disk["request"].sha]]
  <2>1. \/ Go(s, "taught")
        \/ /\ Writing(s, "closure", rec, "taught")
           /\ Status("proposal") = "recorded" /\ Status("request") = "recorded"
    BY <1>6 DEF BuildClosureProposal
  <2>2. CASE Go(s, "taught")
    <3>1. Alters(s) /\ proc'[s].pc \in Calmly
      BY <1>0, <2>2, GoFacts DEF Calmly
    <3> QED BY <1>0, <3>1, OnePlain
  <2>3. CASE /\ Writing(s, "closure", rec, "taught")
             /\ Status("proposal") = "recorded" /\ Status("request") = "recorded"
    <3>1. Reviewed /\ Taught
      BY <1>0, <2>3 DEF OneDisk
    <3>2. rec.id = Evidence
      BY <3>1 DEF Reviewed, Taught, Evidence
    <3>3. OneWrites("closure", rec)
      BY <3>1, <3>2 DEF OneWrites
    <3> HIDE DEF rec
    <3> QED BY <1>0, <2>3, <3>3, OneWriting
  <2> QED BY <2>1, <2>2, <2>3
<1>7. CASE TeachbackRecorded(s)
  BY <1>0, <1>7, OneActive DEF TeachbackRecorded
<1> QED BY <1>1, <1>3, <1>4, <1>5, <1>6, <1>7

\* The closure gate works on the evidence its proposal names.
LEMMA OneClosure ==
    ASSUME EarnedInv, OneInv, NEW s \in Session,
           \/ ApproveClosure(s) \/ ValidateEvidence(s) \/ BuildFingerprint(s) \/ CloseMission(s)
           \/ EnsureNewOrIdentical(s) \/ MarkClosed(s) \/ MarkMissionClosed(s) \/ ClearActive(s)
    PROVE  OneInv'
<1>0. OthersOff(s) /\ disk' = disk /\ ShapeInv /\ OneDisk /\ OneOwn(s)
  <2>1. proc[s].pc # "off" /\ disk' = disk
    BY DEF ApproveClosure, Typed, ValidateEvidence, BuildFingerprint, CloseMission, EnsureNewOrIdentical,
           MarkClosed, MarkMissionClosed, ClearActive
  <2> QED BY <2>1, OffFacts DEF EarnedInv, OneInv
<1>1. CASE Raise(s)
  BY <1>0, <1>1, OneRaise
<1>2. ASSUME Alters(s), proc'[s].pc \in Closing, proc'[s].id = Evidence, disk["closure"] # Absent,
             proc'[s].pc \in {"gate", "check", "replace"} => proc'[s].fp = Evidence
      PROVE  OneInv'
  <2>1. OneOwn(s)'
    BY <1>0, <1>2, SameFacts DEF OneOwn, Writes, Closing
  <2> QED BY <1>0, <1>2, <2>1, OneStep, OneDiskSame
<1>3. ASSUME proc[s].pc \in Closing \/ (proc[s].pc = "ask" /\ proc[s].offer = "closure")
      PROVE  disk["closure"] # Absent /\ proc[s].id = Evidence
  BY <1>0, <1>3 DEF OneOwn
<1>4. CASE ApproveClosure(s)
  <2>1. Go(s, "validate") /\ proc[s].pc = "ask" /\ proc[s].offer = "closure"
    BY <1>4 DEF ApproveClosure, Typed
  <2>2. Alters(s) /\ proc'[s].pc = "validate" /\ proc'[s].id = proc[s].id
    BY <1>0, <2>1, GoFacts
  <2> QED BY <1>2, <1>3, <2>1, <2>2 DEF Closing
<1>5. CASE ValidateEvidence(s) /\ ~Raise(s)
  <2>1. Go(s, "hash") /\ proc[s].pc = "validate"
    BY <1>5 DEF ValidateEvidence
  <2>2. Alters(s) /\ proc'[s].pc = "hash" /\ proc'[s].id = proc[s].id
    BY <1>0, <2>1, GoFacts
  <2> QED BY <1>2, <1>3, <2>1, <2>2 DEF Closing
<1>6. CASE BuildFingerprint(s) /\ ~Raise(s)
  <2>1. proc[s].pc = "hash" /\ proc' = [proc EXCEPT ![s].pc = "gate", ![s].fp = Evidence]
    BY <1>6 DEF BuildFingerprint, Evidence
  <2>2. Alters(s) /\ proc'[s].pc = "gate" /\ proc'[s].id = proc[s].id /\ proc'[s].fp = Evidence
    BY <1>0, <2>1 DEF ShapeInv, Alters, ProcFields
  <2> QED BY <1>2, <1>3, <2>1, <2>2 DEF Closing
<1>7. CASE CloseMission(s) /\ ~Raise(s)
  <2>1. proc[s].pc = "gate" /\ proc[s].fp = Evidence
    BY <1>0, <1>7 DEF CloseMission, OneOwn
  <2>2. CASE Go(s, "mark closed")
    <3>1. Alters(s) /\ proc'[s].pc \in Calmly
      BY <1>0, <2>2, GoFacts DEF Calmly
    <3> QED BY <1>0, <3>1, OnePlain
  <2>3. CASE ~Go(s, "mark closed")
    <3>1. PICK t \in Stamps : proc' = [proc EXCEPT ![s].pc = "check", ![s].at = t, ![s].k = 1]
      BY <1>7, <2>3 DEF CloseMission
    <3>2. Alters(s) /\ proc'[s].pc = "check" /\ proc'[s].id = proc[s].id /\ proc'[s].fp = proc[s].fp
      BY <1>0, <3>1 DEF ShapeInv, Alters, ProcFields
    <3> QED BY <1>2, <1>3, <2>1, <3>2 DEF Closing
  <2> QED BY <2>2, <2>3
<1>8. CASE EnsureNewOrIdentical(s) /\ ~Raise(s)
  <2>1. proc[s].pc = "check" /\ proc[s].fp = Evidence
    BY <1>0, <1>8 DEF EnsureNewOrIdentical, OneOwn
  <2>2. Go(s, "replace") \/ proc' = [proc EXCEPT ![s] = NextOutput(s)]
    BY <1>8 DEF EnsureNewOrIdentical
  <2>3. CASE Go(s, "replace")
    <3>1. Alters(s) /\ proc'[s].pc = "replace" /\ proc'[s].id = proc[s].id /\ proc'[s].fp = proc[s].fp
      BY <1>0, <2>3, GoFacts
    <3> QED BY <1>2, <1>3, <2>1, <3>1 DEF Closing
  <2>4. CASE proc' = [proc EXCEPT ![s] = NextOutput(s)]
    <3>1. /\ Alters(s)
          /\ proc[s].k = 6 => proc'[s].pc = "mark closed"
          /\ proc[s].k # 6 => proc'[s].pc = "check" /\ proc'[s].fp = proc[s].fp /\ proc'[s].id = proc[s].id
      BY <2>1, <2>4, NextOutputFacts
    <3>2. CASE proc[s].k = 6
      BY <1>0, <3>1, <3>2, OnePlain DEF Calmly
    <3>3. CASE proc[s].k # 6
      BY <1>2, <1>3, <2>1, <3>1, <3>3 DEF Closing
    <3> QED BY <3>2, <3>3
  <2> QED BY <2>2, <2>3, <2>4
<1>9. CASE MarkClosed(s) /\ ~Raise(s)
  <2> DEFINE rec == [disk["closure"] EXCEPT !.status = "closed"]
  <2>1. Writing(s, "closure", rec, "leave") /\ Readable("closure")
    BY <1>9 DEF MarkClosed
  <2>2. Reviewed /\ Taught /\ disk["closure"].id = Evidence
    BY <1>0, <2>1 DEF OneDisk, Readable
  <2>3. Holds("closure", disk["closure"])
    BY <2>1, ReadableHolds, FileFacts
  <2>4. rec.id = disk["closure"].id
    BY <2>3 DEF Holds
  <2>5. OneWrites("closure", rec)
    BY <2>2, <2>4 DEF OneWrites
  <2> HIDE DEF rec
  <2> QED BY <1>0, <2>1, <2>5, OneWriting
<1>10. CASE MarkMissionClosed(s) /\ ~Raise(s)
  <2> DEFINE rec == [disk["user"] EXCEPT !.active = FALSE]
  <2>1. Writing(s, "user", rec, "left")
    BY <1>10 DEF MarkMissionClosed
  <2>2. OneWrites("user", rec)
    BY DEF OneWrites
  <2> HIDE DEF rec
  <2> QED BY <1>0, <2>1, <2>2, OneWriting
<1>11. CASE ClearActive(s) /\ ~Raise(s)
  <2>1. Alters(s) /\ proc'[s].pc = "truncate" /\ proc'[s].file = "active"
    BY <1>0, <1>11, ClearFacts
  <2>2. OneOwn(s)'
    BY <2>1 DEF OneOwn, OneWrites, Writes, Closing
  <2> QED BY <1>0, <2>1, <2>2, OneStep, OneDiskSame
<1> QED BY <1>1, <1>4, <1>5, <1>6, <1>7, <1>8, <1>9, <1>10, <1>11

LEMMA OneAtomic ==
    ASSUME EarnedInv, OneInv, NEW s \in Session, AtomicWrite(s)
    PROVE  OneInv'
<1>0. proc[s].pc = "replace" /\ proc' = [proc EXCEPT ![s] = NextOutput(s)]
  BY DEF AtomicWrite
<1>1. OthersOff(s) /\ OneDisk /\ disk["closure"] # Absent /\ proc[s].id = Evidence /\ proc[s].fp = Evidence
  BY <1>0, OffFacts DEF OneInv, OneOwn, Closing
<1>2. /\ Alters(s) /\ proc[s].k \in 1..6
      /\ proc[s].k = 6 => proc'[s].pc = "mark closed"
      /\ proc[s].k # 6 => proc'[s].pc = "check" /\ proc'[s].fp = proc[s].fp /\ proc'[s].id = proc[s].id
  BY <1>0, NextOutputFacts
<1>3. PICK f \in Outputs : f = OUTPUTS[proc[s].k]
  BY <1>2, FileFacts
<1>4. \A g \in Files : disk'[g] = IF g = f THEN Content(s, f) ELSE disk[g]
  BY <1>3, FileFacts DEF AtomicWrite, EarnedInv, ShapeInv
<1>5. \A g \in Records : disk'[g] = disk[g]
  BY <1>4, FileFacts
<1>6. Evidence' = Evidence
  BY <1>5, FileFacts DEF Evidence, Version
<1>7. disk'["report"] = disk["report"] \/ (disk'["report"].fp = Evidence /\ disk'["report"].id = Evidence)
  BY <1>1, <1>4, ContentFacts, FileFacts
<1>8. OneDisk'
  BY <1>1, <1>5, <1>6, <1>7, FileFacts DEF OneDisk, Reviewed, Taught, Status, Readable, ApprovedReview,
                                          ValidRecord, Version
<1>9. OneOwn(s)'
  <2>1. disk'["closure"] # Absent
    BY <1>1, <1>5, FileFacts
  <2>2. proc'[s].pc = "mark closed" \/ (proc'[s].pc = "check" /\ proc'[s].fp = Evidence /\ proc'[s].id = Evidence)
    BY <1>1, <1>2
  <2> QED BY <1>6, <2>1, <2>2 DEF OneOwn, Writes, Closing
<1> QED BY <1>1, <1>2, <1>8, <1>9, OneStep

LEMMA OneInit == Init => One
<1> SUFFICES ASSUME Init PROVE OneInv
  BY DEF One
<1>1. EarnedInv
  BY EarnedInit
<1>2. \A s \in Session : proc[s].pc = "off"
  BY DEF Init, Idle
<1>3. /\ disk["proposal"] = [is |-> "proposal", status |-> "proposed", sha |-> 0]
      /\ \A f \in {"review", "request", "teachback", "closure", "report"} : disk[f] = Absent
  BY FileFacts DEF Init
<1>4. OneDisk
  BY <1>3 DEF OneDisk, Status, Readable
<1>5. Alone /\ \A s \in Session : OneOwn(s)
  BY <1>2 DEF Alone, OneOwn, Writes, Closing
<1> QED BY <1>4, <1>5 DEF OneInv

LEMMA EnvSame == [Next]_vars => env' = env
<1>1. ASSUME NEW s \in Session, SessionNext(s) PROVE env' = env
  BY <1>1 DEF SessionNext, Quiet, Truncate, Write, Open, StartSession, Prompt, Exit, RecordHandoff,
       ApproveReview, RequestReviewChanges, ChangesRequested, CmdReview, MarkReviewRecorded,
       BuildTeachbackRequest, ReviewApproved, RecordTeachback, WriteTeachback, MarkTeachbackRecorded,
       BuildClosureProposal, TeachbackRecorded, ApproveClosure, ValidateEvidence, BuildFingerprint,
       CloseMission, EnsureNewOrIdentical, AtomicWrite, MarkClosed, MarkMissionClosed, ClearActive, Crash
<1> QED BY <1>1 DEF Next, vars

LEMMA OneNext == EarnedInv /\ One /\ [Next]_vars => One'
<1> SUFFICES ASSUME EarnedInv, One, [Next]_vars, env.sessions = 1 PROVE OneInv'
  BY EnvSame DEF One
<1>0. OneInv
  BY DEF One
<1>1. CASE UNCHANGED vars
  <2>1. disk' = disk /\ proc' = proc
    BY <1>1 DEF vars
  <2>2. OneDisk'
    BY <1>0, <2>1, OneDiskSame
  <2> QED BY ZenonT(60), <1>0, <2>1, <2>2 DEF OneInv, Alone, OneOwn, OneWrites, Reviewed, Taught, Evidence, Version,
                            Status, Readable, ApprovedReview, ValidRecord, Writes
<1>2. CASE Next
  <2>1. PICK s \in Session : SessionNext(s)
    BY <1>2 DEF Next
  <2> QED BY <1>0, <2>1, OneTruncate, OneWrite, OneSession, OneReview, OneTeachback, OneClosure, OneAtomic
          DEF SessionNext
<1> QED BY <1>1, <1>2

\* With one session at a time, over any crashes and retries, the evidence that
\* is closed is the evidence the closure phrase was made from
\* (ClosesWhatWasApproved).
THEOREM ClosesApproved == Spec => []ClosesWhatWasApproved
<1>1. One => ClosesWhatWasApproved
  BY DEF One, OneInv, OneDisk, ClosesWhatWasApproved
<1> QED BY <1>1, OneInit, OneNext, ClosureInvariance, PTL DEF Spec
-----------------------------------------------------------------------------
(* Nothing was killed: CalmInv, step by step.                              *)

TornFree == \A f \in Records : disk[f] # Torn

LEMMA TornFacts ==
    ASSUME CalmInv, NEW s \in Session, OthersOff(s), proc[s].pc # "write"
    PROVE  TornFree
  BY DEF CalmInv, CalmDisk, OthersOff, TornFree

LEMMA CalmStep ==
    ASSUME NEW s \in Session, Alters(s), OthersOff(s), CalmDisk', CalmOwn(s)'
    PROVE  CalmInv'
<1>1. \A t \in Session \ {s} : proc'[t].pc = "off"
  BY DEF Alters, OthersOff
<1>2. \A t \in Session \ {s} : CalmOwn(t)'
  BY <1>1 DEF CalmOwn, Writes, Closing
<1> QED BY <1>2 DEF CalmInv

LEMMA SameCalm ==
    ASSUME disk' = disk
    PROVE  /\ Finished' = Finished /\ Placed' = Placed
           /\ Status("proposal")' = Status("proposal") /\ Status("request")' = Status("request")
           /\ Status("closure")' = Status("closure") /\ Readable("user")' = Readable("user")
  BY DEF Finished, Placed, Status, Readable

\* A step that leaves the files alone keeps the mission's place, or is about to
\* write the next one.
LEMMA CalmQuiet ==
    ASSUME CalmInv, NEW s \in Session, Alters(s), OthersOff(s), disk' = disk, proc[s].pc # "write",
           Placed \/ Busy(s)', CalmOwn(s)'
    PROVE  CalmInv'
<1>1. TornFree
  BY TornFacts
<1>2. CalmDisk'
  BY <1>1, SameCalm DEF CalmInv, CalmDisk, TornFree
<1> QED BY <1>2, CalmStep

LEMMA PlacedFacts ==
    ASSUME CalmInv, NEW s \in Session, OthersOff(s), ~Busy(s)
    PROVE  Placed
<1>1. \A t \in Session \ {s} : ~Busy(t)
  BY DEF OthersOff, Busy, Writes
<1> QED BY <1>1 DEF CalmInv, CalmDisk

LEMMA CalmRaise ==
    ASSUME EarnedInv, CalmInv, NEW s \in Session, OthersOff(s), disk' = disk, Raise(s), Placed, proc[s].pc # "write"
    PROVE  CalmInv'
<1>1. Alters(s) /\ proc'[s].pc = "off"
  BY RaiseFacts DEF EarnedInv
<1>2. CalmOwn(s)'
  BY <1>1 DEF CalmOwn, Writes, Closing
<1> QED BY <1>1, <1>2, CalmQuiet

LEMMA CalmWriting ==
    ASSUME EarnedInv, CalmInv, NEW s \in Session, NEW file, NEW val, NEW then,
           Writing(s, file, val, then), OthersOff(s), disk' = disk, proc[s].pc # "write",
           file \in {"proposal", "request", "closure"} \/ Placed,
           CalmWrites(file, val, then),
           ~proc[s].mission => Finished /\ file \in {"user", "active"} /\ then # "left"
    PROVE  CalmInv'
<1>1. /\ Alters(s) /\ proc'[s].pc = "truncate" /\ proc'[s].file = file /\ proc'[s].val = val
      /\ proc'[s].then = then /\ proc'[s].mission = proc[s].mission
  BY WritingFacts DEF EarnedInv
<1>2. CalmWrites(file, val, then)'
  BY SameCalm DEF CalmWrites
<1>3. CalmOwn(s)'
  BY <1>1, <1>2, SameCalm DEF CalmOwn, Writes, Closing
<1>4. Placed \/ Busy(s)'
  BY <1>1 DEF Busy, Writes
<1> QED BY <1>1, <1>3, <1>4, CalmQuiet

\* Steps to a pc that asks nothing, by a session that has its mission.
Easy == {"beta review", "mark review", "changes", "reviewed", "record", "mark teachback", "taught"}

LEMMA CalmPlain ==
    ASSUME CalmInv, NEW s \in Session, Alters(s), OthersOff(s), disk' = disk, proc[s].pc # "write", Placed,
           proc'[s].pc \in Easy, proc[s].mission, proc'[s].mission = proc[s].mission
    PROVE  CalmInv'
<1>1. CalmOwn(s)'
  BY DEF CalmOwn, Writes, Closing, Easy
<1> QED BY <1>1, CalmQuiet

LEMMA CalmTruncate ==
    ASSUME EarnedInv, OneInv, CalmInv, NEW s \in Session, Truncate(s)
    PROVE  CalmInv'
<1>1. proc[s].pc = "truncate" /\ Go(s, "write")
  BY DEF Truncate
<1>2. /\ Alters(s) /\ proc'[s].pc = "write" /\ proc'[s].file = proc[s].file /\ proc'[s].val = proc[s].val
      /\ proc'[s].then = proc[s].then /\ proc'[s].mission = proc[s].mission
  BY <1>1, GoFacts DEF EarnedInv
<1>3. OthersOff(s)
  BY <1>1, OffFacts
<1>4. PICK f, v, then : f \in Records /\ f = proc[s].file /\ v = proc[s].val /\ then = proc[s].then
  BY <1>1 DEF EarnedInv, EarnedOwn, Writes
<1>5. \A g \in Files : disk'[g] = IF g = f THEN Torn ELSE disk[g]
  BY <1>4, FileFacts DEF Truncate, EarnedInv, ShapeInv
<1>6. /\ CalmDisk /\ CalmWrites(f, v, then)
      /\ ~proc[s].mission => Finished /\ f \in {"user", "active"} /\ then # "left"
  BY <1>1, <1>4 DEF CalmInv, CalmOwn, Writes
<1>7. TornFree
  BY <1>1, <1>3, TornFacts
<1>8. f \notin {"proposal", "request", "closure"} => Placed
  <2>1. f \notin {"proposal", "request", "closure"} => ~Busy(s)
    BY <1>1, <1>4 DEF Busy, Writes
  <2> QED BY <1>3, <2>1, PlacedFacts
<1>9. f \notin {"proposal", "request", "closure"} => Placed'
  BY <1>5, <1>8, FileFacts DEF Placed, Status, Readable
<1>10. f \in {"proposal", "request", "closure"} => Busy(s)'
  BY <1>2, <1>4 DEF Busy, Writes
<1>11. f # "closure" => Finished' = Finished
  BY <1>4, <1>5, FileFacts DEF Finished, Status, Readable
<1>12. disk'["report"] = disk["report"] /\ (Status("closure")' = "closed" => Status("closure") = "closed")
  BY <1>4, <1>5, FileFacts DEF Status, Readable
<1>13. Readable("user")' => disk'["user"] = disk["user"] /\ Readable("user")
  BY <1>5, FileFacts DEF Readable
<1>14. f = "closure" => /\ Readable("user")' /\ disk'["user"] = disk["user"] /\ disk["user"].active
  BY <1>5, <1>6, FileFacts DEF CalmWrites, Readable
<1>15. CalmDisk'
  <2>1. \A g \in Records : disk'[g] = Torn => \E t \in Session : proc'[t].pc = "write" /\ proc'[t].file = g
    BY <1>2, <1>4, <1>5, <1>7, FileFacts DEF TornFree
  <2>2. disk'["user"] # Absent
    BY <1>5, <1>6, FileFacts, SentinelFacts DEF CalmDisk
  <2>3. Readable("user")' /\ ~disk'["user"].active => Finished'
    BY <1>6, <1>11, <1>13, <1>14 DEF CalmDisk
  <2>4. Status("closure")' = "closed" => disk'["report"] # Absent
    BY <1>6, <1>12 DEF CalmDisk
  <2>5. Placed' \/ \E t \in Session : Busy(t)'
    BY <1>9, <1>10
  <2> QED BY <2>1, <2>2, <2>3, <2>4, <2>5 DEF CalmDisk
<1>16. CalmWrites(f, v, then)'
  BY <1>6, <1>11, <1>12, <1>14 DEF CalmWrites
<1>17. CalmOwn(s)'
  <2>1. ~proc'[s].mission => Finished' /\ f \in {"user", "active"} /\ then # "left"
    BY <1>2, <1>6, <1>11
  <2> QED BY <1>2, <1>4, <1>16, <2>1 DEF CalmOwn, Writes, Closing
<1> QED BY <1>2, <1>3, <1>15, <1>17, CalmStep

LEMMA CalmWrite ==
    ASSUME EarnedInv, OneInv, CalmInv, NEW s \in Session, Write(s)
    PROVE  CalmInv'
<1>1. /\ proc[s].pc = "write" /\ Alters(s) /\ proc'[s].pc = proc[s].then /\ proc'[s].mission = proc[s].mission
      /\ proc[s].file \in Records /\ Holds(proc[s].file, proc[s].val)
      /\ proc[s].then \in Thens(proc[s].file)
      /\ \A f \in Files : disk'[f] = IF f = proc[s].file THEN proc[s].val ELSE disk[f]
  BY WriteFacts
<1>2. OthersOff(s)
  BY <1>1, OffFacts
<1>3. PICK f, v, then : f \in Records /\ f = proc[s].file /\ v = proc[s].val /\ then = proc[s].then
  BY <1>1
<1>4. \A g \in Files : disk'[g] = IF g = f THEN v ELSE disk[g]
  BY <1>1, <1>3
<1>5. v \notin {Absent, Torn} /\ Holds(f, v) /\ then \in Thens(f)
  BY <1>1, <1>3, HoldsFacts
<1>6. /\ CalmDisk /\ CalmWrites(f, v, then) /\ OneWrites(f, v)
      /\ ~proc[s].mission => Finished /\ f \in {"user", "active"} /\ then # "left"
  BY <1>1, <1>3 DEF CalmInv, CalmOwn, OneInv, OneOwn, Writes
<1>7. \A g \in Records : g # f => disk[g] # Torn
  BY <1>2, <1>3, <1>6 DEF CalmDisk, OthersOff
<1>8. f \notin {"proposal", "request", "closure"} => Placed
  <2>1. f \notin {"proposal", "request", "closure"} => ~Busy(s)
    BY <1>1, <1>3 DEF Busy, Writes
  <2> QED BY <1>2, <2>1, PlacedFacts
<1>9. f # "closure" => Finished' = Finished
  BY <1>3, <1>4, FileFacts DEF Finished, Status, Readable
<1>10. disk'["report"] = disk["report"]
  BY <1>3, <1>4, FileFacts
<1>11. Placed' \/ Busy(s)'
  <2>1. CASE f \notin {"proposal", "request", "closure"}
    BY <1>4, <1>8, <2>1, FileFacts DEF Placed, Status, Readable
  <2>2. CASE f = "proposal"
    <3>1. Status("proposal")' = v.status
      BY <1>4, <1>5, <2>2, FileFacts DEF Status, Readable
    <3> QED BY <1>1, <1>3, <1>6, <2>2, <3>1 DEF CalmWrites, Placed, Busy
  <2>3. CASE f = "request"
    <3>1. Status("request")' = v.status
      BY <1>4, <1>5, <2>3, FileFacts DEF Status, Readable
    <3> QED BY <1>1, <1>3, <1>6, <2>3, <3>1 DEF CalmWrites, Placed, Busy
  <2>4. CASE f = "closure"
    <3>1. Status("request")' = "recorded" /\ Readable("closure")'
      BY <1>4, <1>5, <1>6, <2>4, FileFacts DEF OneWrites, Taught, Status, Readable
    <3> QED BY <3>1 DEF Placed
  <2> QED BY <2>1, <2>2, <2>3, <2>4
<1>12. f = "closure" => Status("closure")' = v.status
  BY <1>4, <1>5, FileFacts DEF Status, Readable
<1>13. f # "closure" => Status("closure")' = Status("closure")
  BY <1>4, FileFacts DEF Status, Readable
<1>14. CalmDisk'
  <2>1. \A g \in Records : disk'[g] # Torn
    BY <1>4, <1>5, <1>7, FileFacts
  <2>2. disk'["user"] # Absent
    BY <1>4, <1>5, <1>6, FileFacts DEF CalmDisk
  <2>3. Readable("user")' /\ ~disk'["user"].active => Finished'
    <3>1. CASE f = "user"
      BY <1>4, <1>6, <1>9, <3>1, FileFacts DEF CalmWrites
    <3>2. CASE f = "closure"
      BY <1>4, <1>6, <3>2, FileFacts DEF CalmWrites
    <3>3. CASE f \notin {"user", "closure"}
      BY <1>4, <1>6, <1>9, <3>3, FileFacts DEF CalmDisk, Readable
    <3> QED BY <3>1, <3>2, <3>3
  <2>4. Status("closure")' = "closed" => disk'["report"] # Absent
    BY <1>6, <1>10, <1>12, <1>13 DEF CalmDisk, CalmWrites
  <2>5. Placed' \/ \E t \in Session : Busy(t)'
    BY <1>11
  <2> QED BY <2>1, <2>2, <2>3, <2>4, <2>5 DEF CalmDisk
<1>15. proc'[s].pc = then /\ ~Writes(s)' /\ then \notin Closing \cup {"ask", "mark closed"}
  BY <1>1, <1>3, <1>5 DEF Thens, Writes, Closing
<1>16. then \in {"leave", "left"} => Finished'
  <2>1. CASE then = "left"
    <3>1. f = "user"
      BY <1>5, <2>1 DEF Thens
    <3> QED BY <1>6, <1>9, <2>1, <3>1 DEF CalmWrites
  <2>2. CASE then = "leave"
    <3>1. f = "closure"
      BY <1>3, <1>5, <2>2, FileFacts DEF Thens
    <3> QED BY <1>6, <1>10, <1>12, <2>2, <3>1 DEF CalmWrites, Finished
  <2> QED BY <2>1, <2>2
<1>17. then = "request" => Status("proposal")' = "recorded" /\ disk'["request"] = Absent
  <2>1. SUFFICES ASSUME then = "request" PROVE Status("proposal")' = "recorded" /\ disk'["request"] = Absent
    OBVIOUS
  <2>2. f = "proposal"
    BY <1>5, <2>1 DEF Thens
  <2> QED BY <1>4, <1>5, <1>6, <2>1, <2>2, FileFacts DEF CalmWrites, OneWrites, Status, Readable
<1>18. then = "propose closure" => Status("proposal")' = "recorded" /\ Status("request")' = "recorded"
  <2>1. SUFFICES ASSUME then = "propose closure"
                 PROVE  Status("proposal")' = "recorded" /\ Status("request")' = "recorded"
    OBVIOUS
  <2>2. f = "request"
    BY <1>5, <2>1 DEF Thens
  <2> QED BY ZenonT(60), <1>4, <1>5, <1>6, <2>1, <2>2, FileFacts DEF CalmWrites, OneWrites, Status, Readable
<1>19. then # "off" /\ ~proc'[s].mission => Finished' /\ then = "prompt"
  <2>1. ~proc'[s].mission => Finished' /\ f \in {"user", "active"} /\ then # "left"
    BY <1>1, <1>6, <1>9
  <2> QED BY <1>5, <2>1 DEF Thens
<1>20. CalmOwn(s)'
  BY <1>15, <1>16, <1>17, <1>18, <1>19 DEF CalmOwn
<1> QED BY <1>1, <1>2, <1>14, <1>20, CalmStep
\* Opening a session, the prompt and /exit.
LEMMA CalmSession ==
    ASSUME EarnedInv, OneInv, CalmInv, env.sessions = 1, NEW s \in Session,
           Open(s) \/ StartSession(s) \/ Prompt(s) \/ Exit(s) \/ RecordHandoff(s)
    PROVE  CalmInv'
<1>0. /\ OthersOff(s) /\ disk' = disk /\ ShapeInv /\ CalmDisk /\ CalmOwn(s)
      /\ proc[s].pc \in {"off", "start", "prompt", "ask", "handoff"}
  <2>1. CASE Open(s)
    BY <2>1, OpenAlone DEF Open, EarnedInv, CalmInv
  <2>2. CASE ~Open(s)
    <3>1. proc[s].pc \in {"start", "prompt", "ask", "handoff"}
      BY <2>2 DEF StartSession, Prompt, Exit, RecordHandoff
    <3> QED BY <2>2, <3>1, OffFacts DEF StartSession, Prompt, Exit, RecordHandoff, EarnedInv, CalmInv
  <2> QED BY <2>1, <2>2
<1>1. Placed /\ TornFree /\ proc[s].pc # "write"
  <2>1. ~Busy(s)
    BY <1>0 DEF Busy, Writes
  <2> QED BY <1>0, <2>1, PlacedFacts, TornFacts
<1>2. Readable("user") /\ (~disk["user"].active => Finished)
  BY <1>0, <1>1, FileFacts DEF CalmDisk, TornFree, Readable
<1>3. CASE Open(s)
  <2>1. Alters(s) /\ proc'[s].pc = "start" /\ proc'[s].mission = disk["user"].active
    BY <1>0, <1>3 DEF Open, ShapeInv, Alters, ProcFields
  <2>2. CalmOwn(s)'
    BY <1>0, <1>2, <2>1, SameCalm DEF CalmOwn, Writes, Closing
  <2> QED BY <1>0, <1>1, <2>1, <2>2, CalmQuiet
<1>4. CASE StartSession(s) \/ RecordHandoff(s)
  <2>1. PICK then \in {"prompt", "off"} : Writing(s, "user", disk["user"], then)
    BY <1>2, <1>4 DEF StartSession, RecordHandoff
  <2>2. CalmWrites("user", disk["user"], then)
    BY <1>2 DEF CalmWrites
  <2>3. ~proc[s].mission => Finished
    BY <1>0, <1>4 DEF CalmOwn, StartSession, RecordHandoff
  <2> QED BY <1>0, <1>1, <2>1, <2>2, <2>3, CalmWriting
<1>5. CASE Prompt(s)
  <2>1. CASE Raise(s)
    BY <1>0, <1>1, <2>1, CalmRaise
  <2>2. CASE ~Raise(s)
    <3>1. proc' = [proc EXCEPT ![s].pc = "ask", ![s].offer = Offer(s),
                       ![s].id = IF Offer(s) = "closure" THEN disk["closure"].id ELSE NoFp]
      BY <1>5, <2>2 DEF Prompt
    <3>2. /\ Alters(s) /\ proc'[s].pc = "ask" /\ proc'[s].offer = Offer(s)
          /\ proc'[s].mission = proc[s].mission
      BY <1>0, <3>1 DEF ShapeInv, Alters, ProcFields
    <3>3. ~proc[s].mission => Finished
      BY <1>0, <1>5 DEF CalmOwn, Prompt
    <3>4. Offer(s) = "closure" => Status("closure") = "proposed"
      BY DEF Offer
    <3>5. ~proc[s].mission => Offer(s) = "none"
      BY DEF Offer
    <3>6. Offer(s) = "none" => Finished \/ Status("proposal") = "changes_requested"
      <4>1. SUFFICES ASSUME Offer(s) = "none", proc[s].mission, Status("proposal") # "changes_requested"
                     PROVE  Finished
        BY <3>3
      <4>2. /\ Status("proposal") # "proposed" /\ Status("request") # "awaiting_user_explanation"
            /\ Status("closure") # "proposed"
        BY <4>1 DEF Offer
      <4>3. Readable("closure")
        BY <1>1, <4>1, <4>2 DEF Placed
      <4>4. Holds("closure", disk["closure"])
        BY <4>3, ReadableHolds, FileFacts
      <4>5. Status("closure") = "closed"
        BY <4>2, <4>3, <4>4 DEF Holds, Status
      <4> QED BY <1>0, <4>5 DEF CalmDisk, Finished
    <3>7. CalmOwn(s)'
      BY <1>0, <3>2, <3>3, <3>4, <3>5, <3>6, SameCalm DEF CalmOwn, Writes, Closing
    <3> QED BY <1>0, <1>1, <3>2, <3>7, CalmQuiet
  <2> QED BY <2>1, <2>2
<1>6. CASE Exit(s)
  <2>1. Alters(s) /\ proc'[s].pc = "handoff" /\ proc'[s].mission = proc[s].mission
    BY <1>0, <1>6, GoFacts DEF Exit
  <2>2. ~proc[s].mission => Finished
    BY <1>0, <1>6 DEF CalmOwn, Exit
  <2>3. CalmOwn(s)'
    BY <1>0, <2>1, <2>2, SameCalm DEF CalmOwn, Writes, Closing
  <2> QED BY <1>0, <1>1, <2>1, <2>3, CalmQuiet
<1> QED BY <1>3, <1>4, <1>5, <1>6

\* A session that is somewhere in a gate has its mission.
LEMMA MissionFacts ==
    ASSUME CalmInv, NEW s \in Session,
           \/ proc[s].pc \notin {"off", "start", "prompt", "ask", "handoff", "truncate", "write"}
           \/ proc[s].pc = "ask" /\ proc[s].offer # "none"
    PROVE  proc[s].mission
  BY DEF CalmInv, CalmOwn

LEMMA CalmActive ==
    ASSUME EarnedInv, CalmInv, NEW s \in Session, NEW state, OthersOff(s), disk' = disk, Placed,
           proc[s].pc # "write", proc[s].mission, UpdateActiveState(s, state)
    PROVE  CalmInv'
<1> DEFINE rec == [is |-> "active", state |-> state]
<1>1. CalmWrites("active", rec, "prompt")
  BY DEF CalmWrites
<1>2. Raise(s) \/ Writing(s, "active", rec, "prompt")
  BY DEF UpdateActiveState
<1> HIDE DEF rec
<1> QED BY <1>1, <1>2, CalmRaise, CalmWriting

\* From the review to its Teachback request there is always a next step.
LEMMA CalmReview ==
    ASSUME EarnedInv, OneInv, CalmInv, NEW s \in Session,
           \/ ApproveReview(s) \/ RequestReviewChanges(s) \/ ChangesRequested(s) \/ CmdReview(s)
           \/ MarkReviewRecorded(s) \/ ReviewApproved(s)
    PROVE  CalmInv'
<1>0. /\ OthersOff(s) /\ disk' = disk /\ ShapeInv /\ proc[s].mission /\ Placed /\ proc[s].pc # "write"
  <2>1. /\ disk' = disk /\ proc[s].pc \in {"ask", "changes", "beta review", "mark review", "reviewed"}
        /\ proc[s].pc = "ask" => proc[s].offer = "review"
    BY DEF ApproveReview, Typed, RequestReviewChanges, ChangesRequested, CmdReview, MarkReviewRecorded,
           ReviewApproved
  <2>2. ~Busy(s) /\ OthersOff(s)
    BY <2>1, OffFacts DEF Busy, Writes
  <2> QED BY <2>1, <2>2, PlacedFacts, MissionFacts DEF EarnedInv
<1>1. CASE Raise(s)
  BY <1>0, <1>1, CalmRaise
<1>2. CASE ApproveReview(s)
  <2>1. Alters(s) /\ proc'[s].pc = "beta review" /\ proc'[s].mission = proc[s].mission
    BY <1>0, <1>2, GoFacts DEF ApproveReview, Typed
  <2> QED BY <1>0, <2>1, CalmPlain DEF Easy
<1>3. CASE RequestReviewChanges(s)
  <2> DEFINE rec == [is |-> "proposal", status |-> "changes_requested", sha |-> 0]
  <2>1. Writing(s, "proposal", rec, "changes") /\ CalmWrites("proposal", rec, "changes")
    BY <1>3 DEF RequestReviewChanges, CalmWrites
  <2> HIDE DEF rec
  <2> QED BY <1>0, <2>1, CalmWriting
<1>4. CASE ChangesRequested(s) \/ ReviewApproved(s)
  BY <1>0, <1>4, CalmActive DEF ChangesRequested, ReviewApproved
<1>5. CASE CmdReview(s) /\ ~Raise(s)
  <2> DEFINE rec == [is |-> "review", version |-> Version + 1]
  <2>1. Writing(s, "review", rec, "mark review") /\ CalmWrites("review", rec, "mark review")
    BY <1>5 DEF CmdReview, CalmWrites
  <2> HIDE DEF rec
  <2> QED BY <1>0, <2>1, CalmWriting
<1>6. CASE MarkReviewRecorded(s) /\ ~Raise(s)
  <2> DEFINE rec == [is |-> "proposal", status |-> "recorded", sha |-> Version]
  <2>1. Writing(s, "proposal", rec, "request") /\ CalmWrites("proposal", rec, "request")
    BY <1>6 DEF MarkReviewRecorded, CalmWrites
  <2> HIDE DEF rec
  <2> QED BY <1>0, <2>1, CalmWriting
<1> QED BY <1>1, <1>2, <1>3, <1>4, <1>5, <1>6

\* The request follows the recorded review, the closure proposal the recorded
\* Teachback: neither build can fail.
LEMMA CalmBuild ==
    ASSUME EarnedInv, OneInv, CalmInv, NEW s \in Session, BuildTeachbackRequest(s) \/ BuildClosureProposal(s)
    PROVE  CalmInv'
<1>0. /\ OthersOff(s) /\ disk' = disk /\ ShapeInv /\ proc[s].mission /\ CalmDisk /\ CalmOwn(s)
      /\ TornFree /\ proc[s].pc \in {"request", "propose closure"}
  <2>1. disk' = disk /\ proc[s].pc \in {"request", "propose closure"}
    BY DEF BuildTeachbackRequest, BuildClosureProposal
  <2>2. OthersOff(s)
    BY <2>1, OffFacts
  <2> QED BY <2>1, <2>2, TornFacts, MissionFacts DEF EarnedInv, CalmInv
<1>1. CASE BuildTeachbackRequest(s)
  <2> DEFINE rec == [is |-> "request", status |-> "awaiting_user_explanation", sha |-> "none"]
  <2>1. disk["request"] = Absent /\ Status("proposal") = "recorded"
    BY <1>0, <1>1 DEF BuildTeachbackRequest, CalmOwn
  <2>2. disk["request"] # Torn /\ ~Readable("request")
    BY <2>1, SentinelFacts DEF Readable
  <2>3. Writing(s, "request", rec, "reviewed")
    BY <1>1, <2>1, <2>2 DEF BuildTeachbackRequest
  <2>4. CalmWrites("request", rec, "reviewed")
    BY DEF CalmWrites
  <2> HIDE DEF rec
  <2> QED BY <1>0, <2>3, <2>4, CalmWriting
<1>2. CASE BuildClosureProposal(s)
  <2> DEFINE rec == [is |-> "closure", status |-> "proposed",
                     id |-> [review |-> disk["proposal"].sha, teachback |-> disk["request"].sha]]
  <2>1. Status("proposal") = "recorded" /\ Status("request") = "recorded" /\ proc[s].pc # "write"
    BY <1>0, <1>2 DEF BuildClosureProposal, CalmOwn
  <2>2. CASE Readable("closure")
    <3>1. Go(s, "taught")
      BY <1>2, <2>2 DEF BuildClosureProposal, Readable
    <3>2. Alters(s) /\ proc'[s].pc = "taught" /\ proc'[s].mission = proc[s].mission
      BY <1>0, <3>1, GoFacts
    <3>3. Placed
      BY <2>1, <2>2 DEF Placed
    <3> QED BY <1>0, <2>1, <3>2, <3>3, CalmPlain DEF Easy
  <2>3. CASE ~Readable("closure")
    <3>1. disk["closure"] = Absent
      BY <1>0, <2>3, FileFacts DEF Readable, TornFree
    <3>2. Writing(s, "closure", rec, "taught")
      BY <1>2, <2>1, <2>3, <3>1 DEF BuildClosureProposal
    <3>3. ~Finished
      BY <2>3 DEF Finished, Status
    <3>4. Readable("user")
      BY <1>0, FileFacts DEF CalmDisk, TornFree, Readable
    <3>5. disk["user"].active
      BY <1>0, <3>3, <3>4 DEF CalmDisk
    <3>6. CalmWrites("closure", rec, "taught")
      BY <3>4, <3>5 DEF CalmWrites
    <3> HIDE DEF rec
    <3> QED BY <1>0, <2>1, <3>2, <3>6, CalmWriting
  <2> QED BY <2>2, <2>3
<1> QED BY <1>1, <1>2
\* The Teachback keeps the request's place until it is recorded.
LEMMA CalmTeachback ==
    ASSUME EarnedInv, OneInv, CalmInv, NEW s \in Session,
           RecordTeachback(s) \/ WriteTeachback(s) \/ MarkTeachbackRecorded(s) \/ TeachbackRecorded(s)
    PROVE  CalmInv'
<1>0. /\ OthersOff(s) /\ disk' = disk /\ ShapeInv /\ proc[s].mission /\ Placed /\ proc[s].pc # "write"
  <2>1. /\ disk' = disk /\ proc[s].pc \in {"ask", "record", "mark teachback", "taught"}
        /\ proc[s].pc = "ask" => proc[s].offer = "teachback"
    BY DEF RecordTeachback, WriteTeachback, MarkTeachbackRecorded, TeachbackRecorded
  <2>2. ~Busy(s) /\ OthersOff(s)
    BY <2>1, OffFacts DEF Busy, Writes
  <2> QED BY <2>1, <2>2, PlacedFacts, MissionFacts DEF EarnedInv
<1>1. CASE Raise(s)
  BY <1>0, <1>1, CalmRaise
<1>2. CASE RecordTeachback(s)
  <2>1. PICK e \in Explanation : proc' = [proc EXCEPT ![s].pc = "record", ![s].text = e]
    BY <1>2 DEF RecordTeachback
  <2>2. Alters(s) /\ proc'[s].pc = "record" /\ proc'[s].mission = proc[s].mission
    BY <1>0, <2>1 DEF ShapeInv, Alters, ProcFields
  <2> QED BY <1>0, <2>2, CalmPlain DEF Easy
<1>3. CASE WriteTeachback(s) /\ ~Raise(s)
  <2> DEFINE rec == [is |-> "teachback", text |-> proc[s].text]
  <2>1. Go(s, "mark teachback") \/ Writing(s, "teachback", rec, "mark teachback")
    BY <1>3 DEF WriteTeachback
  <2>2. CalmWrites("teachback", rec, "mark teachback")
    BY DEF CalmWrites
  <2> HIDE DEF rec
  <2>3. CASE Go(s, "mark teachback")
    <3>1. Alters(s) /\ proc'[s].pc = "mark teachback" /\ proc'[s].mission = proc[s].mission
      BY <1>0, <2>3, GoFacts
    <3> QED BY <1>0, <3>1, CalmPlain DEF Easy
  <2>4. CASE Writing(s, "teachback", rec, "mark teachback")
    BY <1>0, <2>2, <2>4, CalmWriting
  <2> QED BY <2>1, <2>3, <2>4
<1>4. CASE MarkTeachbackRecorded(s) /\ ~Raise(s)
  <2> DEFINE rec == [is |-> "request", status |-> "recorded", sha |-> disk["teachback"].text]
  <2>1. Writing(s, "request", rec, "propose closure") /\ CalmWrites("request", rec, "propose closure")
    BY <1>4 DEF MarkTeachbackRecorded, CalmWrites
  <2> HIDE DEF rec
  <2> QED BY <1>0, <2>1, CalmWriting
<1>5. CASE TeachbackRecorded(s)
  BY <1>0, <1>5, CalmActive DEF TeachbackRecorded
<1> QED BY <1>1, <1>2, <1>3, <1>4, <1>5

\* The closure gate leaves the proposal open until the report stands.
LEMMA CalmGate ==
    ASSUME EarnedInv, OneInv, CalmInv, NEW s \in Session,
           \/ ApproveClosure(s) \/ ValidateEvidence(s) \/ BuildFingerprint(s) \/ CloseMission(s)
           \/ EnsureNewOrIdentical(s)
    PROVE  CalmInv'
<1>0. /\ OthersOff(s) /\ disk' = disk /\ ShapeInv /\ proc[s].mission /\ Placed /\ proc[s].pc # "write"
      /\ Status("closure") = "proposed"
  <2>1. /\ disk' = disk /\ proc[s].pc \in Closing \cup {"ask"}
        /\ proc[s].pc = "ask" => proc[s].offer = "closure"
    BY DEF ApproveClosure, Typed, ValidateEvidence, BuildFingerprint, CloseMission, EnsureNewOrIdentical, Closing
  <2>2. ~Busy(s) /\ OthersOff(s)
    BY <2>1, OffFacts DEF Busy, Writes, Closing
  <2>3. proc[s].mission
    BY <2>1, MissionFacts DEF Closing
  <2>4. Status("closure") = "proposed"
    BY <2>1 DEF CalmInv, CalmOwn
  <2> QED BY <2>1, <2>2, <2>3, <2>4, PlacedFacts DEF EarnedInv, Closing
<1>1. CASE Raise(s)
  BY <1>0, <1>1, CalmRaise
<1>2. ASSUME Alters(s), proc'[s].mission = proc[s].mission,
             proc'[s].pc \in Closing \/ (proc'[s].pc = "mark closed" /\ disk["report"] # Absent)
      PROVE  CalmInv'
  <2>1. CalmOwn(s)'
    BY <1>0, <1>2, SameCalm DEF CalmOwn, Writes, Closing
  <2> QED BY <1>0, <1>2, <2>1, CalmQuiet
<1>3. CASE ApproveClosure(s) \/ ((ValidateEvidence(s) \/ BuildFingerprint(s)) /\ ~Raise(s))
  <2>1. Alters(s) /\ proc'[s].pc \in {"validate", "hash", "gate"} /\ proc'[s].mission = proc[s].mission
    <3>1. CASE ApproveClosure(s)
      BY <1>0, <3>1, GoFacts DEF ApproveClosure, Typed
    <3>2. CASE ValidateEvidence(s) /\ ~Raise(s)
      <4>1. Go(s, "hash")
        BY <3>2 DEF ValidateEvidence
      <4> QED BY <1>0, <4>1, GoFacts
    <3>3. CASE BuildFingerprint(s) /\ ~Raise(s)
      <4>1. proc' = [proc EXCEPT ![s].pc = "gate",
                       ![s].fp = [review |-> Version, teachback |-> disk["teachback"].text]]
        BY <3>3 DEF BuildFingerprint
      <4> QED BY <1>0, <4>1 DEF ShapeInv, Alters, ProcFields
    <3> QED BY <1>3, <3>1, <3>2, <3>3
  <2> QED BY <1>2, <2>1 DEF Closing
<1>4. CASE CloseMission(s) /\ ~Raise(s)
  <2>1. CASE Go(s, "mark closed") /\ Found(s, "report") # Absent
    <3>1. disk["report"] # Absent
      BY <2>1 DEF Found
    <3>2. Alters(s) /\ proc'[s].pc = "mark closed" /\ proc'[s].mission = proc[s].mission
      BY <1>0, <2>1, GoFacts
    <3> QED BY <1>2, <3>1, <3>2
  <2>2. CASE ~(Go(s, "mark closed") /\ Found(s, "report") # Absent)
    <3>1. PICK t \in Stamps : proc' = [proc EXCEPT ![s].pc = "check", ![s].at = t, ![s].k = 1]
      BY <1>4, <2>2 DEF CloseMission
    <3>2. Alters(s) /\ proc'[s].pc = "check" /\ proc'[s].mission = proc[s].mission
      BY <1>0, <3>1 DEF ShapeInv, Alters, ProcFields
    <3> QED BY <1>2, <3>2 DEF Closing
  <2> QED BY <2>1, <2>2
<1>5. CASE EnsureNewOrIdentical(s) /\ ~Raise(s)
  <2>0. proc[s].pc = "check"
    BY <1>5 DEF EnsureNewOrIdentical
  <2>1. PICK k \in 1..6 : k = proc[s].k
    BY <2>0 DEF EarnedInv, OutputOwn
  <2>2. PICK f \in Outputs : f = OUTPUTS[k]
    BY FileFacts
  <2>3. Content(s, f) # Absent
    BY <2>2, ContentFacts
  <2>4. \/ Go(s, "replace")
        \/ proc' = [proc EXCEPT ![s] = NextOutput(s)] /\ Found(s, f) = Content(s, f)
    BY <1>5, <2>1, <2>2, <2>3 DEF EnsureNewOrIdentical
  <2>5. CASE Go(s, "replace")
    <3>1. Alters(s) /\ proc'[s].pc = "replace" /\ proc'[s].mission = proc[s].mission
      BY <1>0, <2>5, GoFacts
    <3> QED BY <1>2, <3>1 DEF Closing
  <2>6. CASE proc' = [proc EXCEPT ![s] = NextOutput(s)] /\ Found(s, f) = Content(s, f)
    <3>1. /\ Alters(s) /\ proc'[s].mission = proc[s].mission
          /\ k = 6 => proc'[s].pc = "mark closed"
          /\ k # 6 => proc'[s].pc = "check"
      BY <2>0, <2>1, <2>6, NextOutputFacts
    <3>2. disk[f] # Absent
      BY <2>3, <2>6 DEF Found
    <3>3. k = 6 => disk["report"] # Absent
      BY <2>2, <3>2, FileFacts
    <3> QED BY <1>2, <3>1, <3>3 DEF Closing
  <2> QED BY <2>4, <2>5, <2>6
<1> QED BY <1>1, <1>3, <1>4, <1>5

LEMMA CalmAtomic ==
    ASSUME EarnedInv, OneInv, CalmInv, NEW s \in Session, AtomicWrite(s)
    PROVE  CalmInv'
<1>0. proc[s].pc = "replace" /\ proc' = [proc EXCEPT ![s] = NextOutput(s)]
  BY DEF AtomicWrite
<1>1. OthersOff(s) /\ Status("closure") = "proposed" /\ proc[s].mission /\ CalmDisk /\ TornFree /\ Placed
  <2>1. OthersOff(s) /\ ~Busy(s)
    BY <1>0, OffFacts DEF Busy, Writes
  <2>2. Status("closure") = "proposed"
    BY <1>0 DEF CalmInv, CalmOwn, Closing
  <2> QED BY <1>0, <2>1, <2>2, TornFacts, PlacedFacts, MissionFacts DEF CalmInv
<1>2. PICK k \in 1..6 : k = proc[s].k
  BY <1>0 DEF EarnedInv, OutputOwn
<1>3. /\ Alters(s) /\ proc'[s].mission = proc[s].mission
      /\ k = 6 => proc'[s].pc = "mark closed"
      /\ k # 6 => proc'[s].pc = "check"
  BY <1>0, <1>2, NextOutputFacts
<1>4. PICK f \in Outputs : f = OUTPUTS[k]
  BY FileFacts
<1>5. \A g \in Files : disk'[g] = IF g = f THEN Content(s, f) ELSE disk[g]
  BY <1>2, <1>4, FileFacts DEF AtomicWrite, EarnedInv, ShapeInv
<1>6. \A g \in Records : disk'[g] = disk[g]
  BY <1>5, FileFacts
<1>7. disk["report"] # Absent \/ k = 6 => disk'["report"] # Absent
  BY <1>4, <1>5, ContentFacts, FileFacts
<1>8. /\ Placed' = Placed /\ Status("closure")' = Status("closure") /\ Readable("user")' = Readable("user")
  BY <1>6, FileFacts DEF Placed, Status, Readable
<1>9. CalmDisk'
  <2>1. \A g \in Records : disk'[g] # Torn
    BY <1>1, <1>6 DEF TornFree
  <2>2. disk'["user"] = disk["user"]
    BY <1>6, FileFacts
  <2>3. Finished => Finished'
    BY <1>7, <1>8 DEF Finished
  <2> QED BY <1>1, <1>7, <1>8, <2>1, <2>2, <2>3 DEF CalmDisk
<1>10. CalmOwn(s)'
  BY <1>1, <1>3, <1>7, <1>8 DEF CalmOwn, Writes, Closing
<1> QED BY <1>1, <1>3, <1>9, <1>10, CalmStep

\* The proposal is marked closed once the report stands, and only then does the
\* session let go of the mission.
LEMMA CalmLeave ==
    ASSUME EarnedInv, OneInv, CalmInv, NEW s \in Session, MarkClosed(s) \/ MarkMissionClosed(s) \/ ClearActive(s)
    PROVE  CalmInv'
<1>0. /\ OthersOff(s) /\ disk' = disk /\ ShapeInv /\ proc[s].mission /\ Placed /\ proc[s].pc # "write"
      /\ CalmDisk /\ CalmOwn(s) /\ TornFree
  <2>1. disk' = disk /\ proc[s].pc \in {"mark closed", "leave", "left"}
    BY DEF MarkClosed, MarkMissionClosed, ClearActive
  <2>2. ~Busy(s) /\ OthersOff(s)
    BY <2>1, OffFacts DEF Busy, Writes
  <2> QED BY <2>1, <2>2, PlacedFacts, MissionFacts, TornFacts DEF EarnedInv, CalmInv
<1>1. CASE Raise(s)
  BY <1>0, <1>1, CalmRaise
<1>2. CASE MarkClosed(s) /\ ~Raise(s)
  <2> DEFINE rec == [disk["closure"] EXCEPT !.status = "closed"]
  <2>1. Writing(s, "closure", rec, "leave") /\ Readable("closure") /\ proc[s].pc = "mark closed"
    BY <1>2 DEF MarkClosed
  <2>2. Holds("closure", disk["closure"])
    BY <2>1, ReadableHolds, FileFacts
  <2>3. rec.status = "closed"
    BY <2>2 DEF Holds
  <2>4. disk["report"] # Absent /\ ~Finished
    BY <1>0, <2>1 DEF CalmOwn, Finished
  <2>5. Readable("user")
    BY <1>0, FileFacts DEF CalmDisk, TornFree, Readable
  <2>6. disk["user"].active
    BY <1>0, <2>4, <2>5 DEF CalmDisk
  <2>7. CalmWrites("closure", rec, "leave")
    BY <2>3, <2>4, <2>5, <2>6 DEF CalmWrites
  <2> HIDE DEF rec
  <2> QED BY <1>0, <2>1, <2>7, CalmWriting
<1>3. CASE MarkMissionClosed(s) /\ ~Raise(s)
  <2> DEFINE rec == [disk["user"] EXCEPT !.active = FALSE]
  <2>1. Writing(s, "user", rec, "left") /\ proc[s].pc = "leave"
    BY <1>3 DEF MarkMissionClosed
  <2>2. Finished
    BY <1>0, <2>1 DEF CalmOwn
  <2>3. CalmWrites("user", rec, "left")
    BY <2>2 DEF CalmWrites
  <2> HIDE DEF rec
  <2> QED BY <1>0, <2>1, <2>3, CalmWriting
<1>4. CASE ClearActive(s) /\ ~Raise(s)
  <2>1. Alters(s) /\ proc'[s].pc = "truncate" /\ proc'[s].file = "active" /\ proc'[s].then = "prompt"
    BY <1>0, <1>4, ClearFacts
  <2>2. Finished
    BY <1>0, <1>4 DEF ClearActive, CalmOwn
  <2>3. CalmOwn(s)'
    BY <1>0, <2>1, <2>2, SameCalm DEF CalmOwn, CalmWrites, Writes, Closing
  <2> QED BY <1>0, <2>1, <2>3, CalmQuiet
<1> QED BY <1>1, <1>2, <1>3, <1>4

LEMMA CalmInit == Init => Calm
<1> SUFFICES ASSUME Init PROVE CalmInv
  BY DEF Init, Calm
<1>1. \A s \in Session : proc[s].pc = "off"
  BY DEF Init, Idle
<1>2. /\ disk["user"] = [is |-> "user", active |-> TRUE]
      /\ disk["active"] = [is |-> "active", state |-> "awaiting_review_approval"]
      /\ disk["proposal"] = [is |-> "proposal", status |-> "proposed", sha |-> 0]
      /\ \A f \in Files \ {"user", "active", "proposal"} : disk[f] = Absent
  BY FileFacts DEF Init
<1>3. \A f \in Records : disk[f] # Torn
  <2>1. \A f \in {"user", "active", "proposal"} : disk[f].is = f
    BY <1>2
  <2> QED BY <1>2, <2>1, FileFacts, SentinelFacts
<1>4. disk["user"] # Absent /\ disk["proposal"] # Absent /\ disk["user"].active
  <2>1. disk["user"].is = "user" /\ disk["proposal"].is = "proposal"
    BY <1>2
  <2> QED BY <1>2, <2>1, SentinelFacts
<1>5. Status("proposal") = "proposed" /\ Status("closure") = "unreadable"
  BY <1>2, <1>3, <1>4, FileFacts DEF Status, Readable
<1>6. CalmDisk
  BY <1>3, <1>4, <1>5 DEF CalmDisk, Placed
<1>7. \A s \in Session : CalmOwn(s)
  BY <1>1 DEF CalmOwn, Writes, Closing
<1> QED BY <1>6, <1>7 DEF CalmInv

\* Only a killed session counts as a crash.
LEMMA CrashCount ==
    ASSUME NEW s \in Session, SessionNext(s), ~Crash(s)
    PROVE  crashes' = crashes
  BY DEF SessionNext, Quiet, Truncate, Write, Open, StartSession, Prompt, Exit, RecordHandoff,
       ApproveReview, RequestReviewChanges, ChangesRequested, CmdReview, MarkReviewRecorded,
       BuildTeachbackRequest, ReviewApproved, RecordTeachback, WriteTeachback, MarkTeachbackRecorded,
       BuildClosureProposal, TeachbackRecorded, ApproveClosure, ValidateEvidence, BuildFingerprint,
       CloseMission, EnsureNewOrIdentical, AtomicWrite, MarkClosed, MarkMissionClosed, ClearActive

LEMMA CalmNext == EarnedInv /\ One /\ Calm /\ [Next]_vars => Calm'
<1> SUFFICES ASSUME EarnedInv, One, Calm, [Next]_vars PROVE Calm'
  OBVIOUS
<1>1. CASE UNCHANGED vars
  <2>1. disk' = disk /\ proc' = proc /\ env' = env /\ crashes' = crashes
    BY <1>1 DEF vars
  <2>2. \A s \in Session : Busy(s)' = Busy(s)
    BY <2>1 DEF Busy, Writes
  <2>3. CalmInv => CalmInv'
    <3>1. CalmDisk => CalmDisk'
      BY <2>1, <2>2, SameCalm DEF CalmDisk
    <3>2. ASSUME NEW s \in Session, CalmOwn(s) PROVE CalmOwn(s)'
      <4>1. PICK f, v, then : f = proc[s].file /\ v = proc[s].val /\ then = proc[s].then
        OBVIOUS
      <4>2. CalmWrites(f, v, then) => CalmWrites(f, v, then)'
        BY <2>1, SameCalm DEF CalmWrites
      <4> QED BY <2>1, <3>2, <4>1, <4>2, SameCalm DEF CalmOwn, Writes
    <3> QED BY <3>1, <3>2 DEF CalmInv
  <2> QED BY <2>1, <2>3 DEF Calm
<1>2. CASE Next
  <2>1. PICK s \in Session : SessionNext(s)
    BY <1>2 DEF Next
  <2>2. env' = env /\ crashes \in Nat
    BY EnvSame DEF Calm
  <2>3. CASE Crash(s)
    BY <2>2, <2>3 DEF Crash, Calm
  <2>4. CASE ~Crash(s)
    <3>1. crashes' = crashes
      BY <2>1, <2>4, CrashCount
    <3>2. SUFFICES ASSUME env.sessions = 1, crashes = 0 PROVE CalmInv'
      BY <2>2, <3>1 DEF Calm
    <3>3. OneInv /\ CalmInv
      BY <3>2 DEF One, Calm
    <3> QED BY <2>1, <2>4, <3>2, <3>3, CalmTruncate, CalmWrite, CalmSession, CalmReview, CalmBuild,
               CalmTeachback, CalmGate, CalmAtomic, CalmLeave DEF SessionNext
  <2> QED BY <2>3, <2>4
<1> QED BY <1>1, <1>2

\* While no process was killed and one session is open at a time, a session that
\* asks with nothing to offer has a closed mission or one whose review asked for
\* changes (NeverStranded).
THEOREM Unstranded == Spec => []NeverStranded
<1>1. Calm => NeverStranded
  BY DEF Calm, CalmInv, CalmOwn, Finished, NeverStranded
<1> QED BY <1>1, OneInit, OneNext, CalmInit, CalmNext, ClosureInvariance, PTL DEF Spec
==============================================================================
