--------------------------- MODULE AuthorityProofs ---------------------------
(***************************************************************************)
(* Proofs about MissionAuthority, for any number of sessions, requests,    *)
(* seconds and crashes: what was dispatched is bound to the one receipt of *)
(* its mission, respects the limits of its request, and a session takes    *)
(* for authoritative only the decision the receipt froze.                  *)
(*                                                                         *)
(* The charter and decision files prove nothing by themselves: sessions    *)
(* overwrite each other's, also through a temporary another session has    *)
(* renamed.  What carries the argument is the receipt: created once, filled*)
(* by its creator only (Claimed), and never rewritten once readable.       *)
(***************************************************************************)
EXTENDS MissionAuthority, TLAPS

Commands == {"start", "interactive", "one_shot", "approve", "reject"}

\* The points at which a session writes the charter and the decision it holds in cand.
Publishing == {"create_receipt", "write_receipt", "bootstrap", "initialize"}
WritingFiles == {"decision_open", "decision_fill", "decision_rename",
                 "charter_open", "charter_fill", "charter_rename"}

\* Types of the shared files, and of the continuity files.
FilesTyped ==
    /\ env \in Environment /\ clock \in Nat
    /\ decision \in [env.requests -> DecisionFile]
    /\ charter \in [env.requests -> CharterFile]
    /\ temps \in [env.requests -> [decision : DecisionFile, charter : CharterFile]]
    /\ receipt \in [env.requests -> Pair \cup {Absent, Torn}]
    /\ queue \in [env.requests -> QueueValue \cup {Absent}]
    /\ user \in {None, Torn} \cup env.requests
    /\ active \in {Absent, Torn} \cup env.requests

MemoryTyped ==
    /\ DOMAIN pc = Session /\ DOMAIN seen = Session /\ DOMAIN cand = Session
    /\ doing \in [Session -> Commands \cup SKILLS]
    /\ pend \in [Session -> [charter : CharterFile, decision : DecisionFile] \cup {None}]
    /\ auth \in [Session -> DecisionFile \cup {None}]
    /\ mission \in [Session -> env.requests \cup {None}]

\* A decision lies in the directory of its own mission.
InPlace ==
    \A m \in env.requests :
        /\ Readable(decision[m]) => decision[m].request = m
        /\ Readable(temps[m].decision) => temps[m].decision.request = m

\* What a session knows where it is.
SessionInv(s) ==
    /\ pc[s] \in {"start_session", "record_handoff"} => seen[s] \in {None, Torn} \cup env.requests
    /\ pc[s] = "write_active" => seen[s] \in {Absent, Torn} \cup env.requests
    /\ pc[s] \in {"idle", "start_session"} => doing[s] \in {"interactive", "one_shot"}
    /\ pend[s] # None => /\ mission[s] \in env.requests
                         /\ pend[s].charter \in CharterValue
                         /\ pend[s].decision # Absent =>
                               pend[s].decision \in DecisionValue /\ pend[s].decision.request = mission[s]
    /\ pc[s] \in WritingFiles \cup Publishing =>
          cand[s] \in Pair /\ Writing(s) \in env.requests
    /\ (pc[s] \in WritingFiles /\ doing[s] = "approve") \/ pc[s] \in Publishing =>
          /\ doing[s] = "approve" /\ pend[s] # None
          /\ cand[s].decision = pend[s].decision /\ Writing(s) = mission[s]
    /\ pc[s] \in {"set_active", "set_user", "pre_dispatch", "followup"} => mission[s] \in env.requests
    /\ pc[s] = "write_receipt" => receipt[Writing(s)] = Torn
    /\ pc[s] \in {"bootstrap", "initialize"} => receipt[Writing(s)] = Publication(s)
    /\ pc[s] \in {"pre_dispatch", "followup"} => doing[s] \in Listed(mission[s])
    /\ auth[s] # None => auth[s] \in DecisionValue /\ auth[s].request \in env.requests

\* A receipt that is being filled has one writer.
Claimed ==
    \A s, t \in Session :
        pc[s] = "write_receipt" /\ pc[t] = "write_receipt" /\ Writing(s) = Writing(t) => s = t

AuthorityInv ==
    /\ FilesTyped /\ MemoryTyped /\ InPlace /\ Claimed
    /\ \A s \in Session : SessionInv(s)
    /\ OneAuthority /\ LimitsHold /\ SessionSeesReceipt
-----------------------------------------------------------------------------
(* What a step of one session leaves to the others. *)

\* Only the memory of session s may change.
Alone(s) ==
    \A t \in Session \ {s} :
        /\ pc'[t] = pc[t] /\ doing'[t] = doing[t] /\ pend'[t] = pend[t] /\ cand'[t] = cand[t]
        /\ seen'[t] = seen[t] /\ auth'[t] = auth[t] /\ mission'[t] = mission[t]

\* A receipt changes when it is created and when its creator fills it, never again.
WrittenOnce(s) ==
    \A m \in env.requests :
        \/ receipt'[m] = receipt[m]
        \/ receipt[m] = Absent
        \/ receipt[m] = Torn /\ pc[s] = "write_receipt" /\ Writing(s) = m

QueuesGrow == \A m \in env.requests : Listed(m) \subseteq Listed(m)'

\* The decision d is the one the receipt of its mission holds.
Frozen(d) ==
    /\ Readable(receipt[d.request])
    /\ receipt[d.request].decision = d

\* Skill k, dispatched for mission m, was bound to the receipt and within the limits.
Earned(m, k) ==
    /\ Readable(receipt[m])
    /\ queue[m][k].charter = receipt[m].charter
    /\ queue[m][k].decision = receipt[m].decision
    /\ queue[m][k].charter.decision = queue[m][k].decision
    /\ LET p == queue[m][k].decision.provider
           caps == EffectiveCapabilities(k, p) IN
         /\ "mutation_forbidden" \in m.limits => "mutates_files" \notin caps
         /\ "network_blocked" \in m.limits => "external_network" \notin caps
         /\ "local_model_only" \in m.limits /\ k \in PROVIDER_SKILL_IDS => p = "ollama"

LEMMA EarnedIsBoth ==
    OneAuthority /\ LimitsHold <=> \A m \in env.requests : \A k \in Dispatched(m) : Earned(m, k)
  BY DEF OneAuthority, LimitsHold, Earned

LEMMA FilesAreTold == Absent \notin QueueValue /\ Absent \notin Pair /\ Torn \notin Pair
  BY FilesAssumption DEF QueueValue

\* What session t knows survives a step of session s.
LEMMA OthersKnow ==
    ASSUME AuthorityInv, NEW s \in Session, NEW t \in Session \ {s},
           env'.requests = env.requests, Alone(s), WrittenOnce(s), QueuesGrow
    PROVE  SessionInv(t)'
<1>1. /\ pc'[t] = pc[t] /\ doing'[t] = doing[t] /\ pend'[t] = pend[t] /\ cand'[t] = cand[t]
      /\ seen'[t] = seen[t] /\ auth'[t] = auth[t] /\ mission'[t] = mission[t]
  BY DEF Alone
<1>2. SessionInv(t)
  BY DEF AuthorityInv
<1>3. Writing(t)' = Writing(t) /\ Publication(t)' = Publication(t)
  BY <1>1 DEF Writing, Publication
<1>4. pc[t] = "write_receipt" => receipt'[Writing(t)] = Torn
  <2> SUFFICES ASSUME pc[t] = "write_receipt" PROVE receipt'[Writing(t)] = Torn
    OBVIOUS
  <2>1. receipt[Writing(t)] = Torn /\ Writing(t) \in env.requests
    BY <1>2 DEF SessionInv, Publishing
  <2>2. ~(pc[s] = "write_receipt" /\ Writing(s) = Writing(t))
    BY DEF AuthorityInv, Claimed
  <2> QED BY <2>1, <2>2, SentinelsAssumption DEF WrittenOnce
<1>5. pc[t] \in {"bootstrap", "initialize"} => receipt'[Writing(t)] = Publication(t)
  <2> SUFFICES ASSUME pc[t] \in {"bootstrap", "initialize"} PROVE receipt'[Writing(t)] = Publication(t)
    OBVIOUS
  <2>1. receipt[Writing(t)] = Publication(t) /\ Writing(t) \in env.requests /\ cand[t] \in Pair
    BY <1>2 DEF SessionInv, Publishing
  <2>2. Publication(t) \in Pair
    BY <2>1 DEF Publication, Pair
  <2> QED BY <2>1, <2>2, FilesAreTold DEF WrittenOnce
<1>6. pc[t] \in {"pre_dispatch", "followup"} => doing[t] \in Listed(mission[t])'
  <2> SUFFICES ASSUME pc[t] \in {"pre_dispatch", "followup"} PROVE doing[t] \in Listed(mission[t])'
    OBVIOUS
  <2>1. doing[t] \in Listed(mission[t]) /\ mission[t] \in env.requests
    BY <1>2 DEF SessionInv
  <2>2. Listed(mission[t])' = IF queue'[mission[t]] = Absent THEN {} ELSE DOMAIN queue'[mission[t]]
    BY <1>1 DEF Listed
  <2> QED BY <2>1, <2>2 DEF QueuesGrow, Listed
<1>7. (pc[t] = "write_receipt" => receipt[Writing(t)] = Torn)'
  BY <1>1, <1>3, <1>4
<1>8. (pc[t] \in {"bootstrap", "initialize"} => receipt[Writing(t)] = Publication(t))'
  BY <1>1, <1>3, <1>5
<1>9. (pc[t] \in {"pre_dispatch", "followup"} => doing[t] \in Listed(mission[t]))'
  BY <1>1, <1>6
<1> QED BY <1>1, <1>2, <1>3, <1>7, <1>8, <1>9 DEF SessionInv
\* A step of s keeps the invariant when it keeps the types and its own part.
LEMMA StepKeeps ==
    ASSUME AuthorityInv, NEW s \in Session,
           env'.requests = env.requests, Alone(s), WrittenOnce(s), QueuesGrow,
           FilesTyped', MemoryTyped', InPlace', SessionInv(s)',
           pc'[s] = "write_receipt" => receipt[Writing(s)'] = Absent,
           \A m \in env.requests : \A k \in Dispatched(m)' : Earned(m, k)',
           auth'[s] # None => Frozen(auth[s])'
    PROVE  AuthorityInv'
<1>1. \A t \in Session : SessionInv(t)'
  <2> SUFFICES ASSUME NEW t \in Session PROVE SessionInv(t)'
    OBVIOUS
  <2>1. CASE t = s
    BY <2>1
  <2>2. CASE t # s
    BY <2>2, OthersKnow
  <2> QED BY <2>1, <2>2
<1>2. Claimed'
  <2> SUFFICES ASSUME NEW t \in Session, NEW u \in Session,
                      pc'[t] = "write_receipt", pc'[u] = "write_receipt", Writing(t)' = Writing(u)', t # u
               PROVE  FALSE
    BY DEF Claimed
  <2>1. \A x \in Session \ {s} : pc'[x] = pc[x] /\ Writing(x)' = Writing(x)
    BY DEF Alone, Writing
  <2>2. \A x \in Session : pc[x] = "write_receipt" => receipt[Writing(x)] = Torn
    BY DEF AuthorityInv, SessionInv
  <2>3. CASE t = s
    BY <2>1, <2>2, <2>3, SentinelsAssumption
  <2>4. CASE u = s
    BY <2>1, <2>2, <2>4, SentinelsAssumption
  <2>5. CASE t # s /\ u # s
    BY <2>1, <2>5 DEF AuthorityInv, Claimed
  <2> QED BY <2>3, <2>4, <2>5
<1>3. (OneAuthority /\ LimitsHold)'
  BY DEF OneAuthority, LimitsHold, Earned
<1>4. SessionSeesReceipt'
  <2> SUFFICES ASSUME NEW t \in Session, auth'[t] # None PROVE Frozen(auth[t])'
    BY DEF SessionSeesReceipt, Frozen
  <2>1. CASE t = s
    BY <2>1
  <2>2. CASE t # s
    <3>1. auth'[t] = auth[t] /\ auth[t].request \in env.requests
      BY <2>2 DEF Alone, AuthorityInv, SessionInv
    <3>2. Frozen(auth[t])
      BY <3>1 DEF AuthorityInv, SessionSeesReceipt, Frozen
    <3>3. receipt'[auth[t].request] = receipt[auth[t].request]
      BY <3>1, <3>2 DEF WrittenOnce, Frozen, Readable
    <3> QED BY <3>1, <3>2, <3>3 DEF Frozen, Readable
  <2> QED BY <2>1, <2>2
<1> QED BY <1>1, <1>2, <1>3, <1>4 DEF AuthorityInv

\* A step that leaves the mission's files alone.
LEMMA MemoryStepKeeps ==
    ASSUME AuthorityInv, NEW s \in Session, UNCHANGED disk,
           env' \in Environment, env'.requests = env.requests, clock' \in Nat,
           user' \in {None, Torn} \cup env.requests, active' \in {Absent, Torn} \cup env.requests,
           Alone(s), MemoryTyped', SessionInv(s)', pc'[s] # "write_receipt",
           auth'[s] # None => auth'[s] = auth[s] \/ Frozen(auth'[s])
    PROVE  AuthorityInv'
<1>1. FilesTyped'
  BY DEF AuthorityInv, FilesTyped, disk
<1>2. InPlace'
  BY DEF AuthorityInv, InPlace, disk, Readable
<1>3. WrittenOnce(s) /\ QueuesGrow
  BY DEF WrittenOnce, QueuesGrow, Listed, disk
<1>4. \A m \in env.requests : \A k \in Dispatched(m)' : Earned(m, k)'
  BY EarnedIsBoth DEF AuthorityInv, Dispatched, Listed, Earned, Readable, disk
<1>5. auth'[s] # None => Frozen(auth[s])'
  BY DEF AuthorityInv, SessionSeesReceipt, Frozen, Readable, disk
<1> QED BY <1>1, <1>2, <1>3, <1>4, <1>5, StepKeeps

\* A session that is down knows nothing.
LEMMA DownKnowsNothing ==
    ASSUME NEW s \in Session, pc[s] = "down", pend[s] = None, auth[s] = None
    PROVE  SessionInv(s)
  BY DEF SessionInv, WritingFiles, Publishing

LEMMA DieFacts ==
    ASSUME MemoryTyped, NEW s \in Session, Die(s), env'.requests = env.requests
    PROVE  /\ Alone(s) /\ MemoryTyped' /\ SessionInv(s)'
           /\ pc'[s] = "down" /\ auth'[s] = None
<1>1. /\ pc'[s] = "down" /\ doing'[s] = "start" /\ pend'[s] = None /\ auth'[s] = None
      /\ mission'[s] = None
  BY DEF Die, Go, MemoryTyped
<1>2. Alone(s)
  BY DEF Die, Go, MemoryTyped, Alone
<1>3. MemoryTyped'
  BY DEF Die, Go, MemoryTyped, Commands
<1>4. SessionInv(s)'
  BY <1>1 DEF SessionInv, WritingFiles, Publishing
<1> QED BY <1>1, <1>2, <1>3, <1>4

\* Return(s), where an interactive session keeps what it has pending.
LEMMA ReturnFacts ==
    ASSUME MemoryTyped, NEW s \in Session, SessionInv(s), Return(s), env'.requests = env.requests,
           doing[s] # "one_shot" => UNCHANGED memory
    PROVE  /\ Alone(s) /\ MemoryTyped' /\ SessionInv(s)'
           /\ pc'[s] \in {"down", "idle"} /\ auth'[s] \in {None, auth[s]}
<1>1. CASE doing[s] = "one_shot"
  BY <1>1, DieFacts DEF Return
<1>2. CASE doing[s] # "one_shot"
  <2>1. /\ pc'[s] = "idle" /\ doing'[s] = "interactive" /\ UNCHANGED memory
    BY <1>2 DEF Return, Go, MemoryTyped
  <2>2. Alone(s)
    BY <1>2, <2>1 DEF Return, Go, MemoryTyped, Alone, memory
  <2>3. MemoryTyped'
    BY <1>2, <2>1 DEF Return, Go, MemoryTyped, Commands, memory
  <2>4. SessionInv(s)'
    BY <2>1 DEF SessionInv, WritingFiles, Publishing, memory
  <2> QED BY <2>1, <2>2, <2>3, <2>4 DEF memory
<1> QED BY <1>1, <1>2
-----------------------------------------------------------------------------
(* The steps that leave the mission's files alone. *)

LEMMA RestoreFacts ==
    ASSUME AuthorityInv, NEW s \in Session, ~Unreadable, Restore(s)
    PROVE  /\ mission'[s] \in env.requests \cup {None} /\ (mission'[s] # None => mission'[s] = user)
           /\ pend'[s] # None => /\ mission'[s] \in env.requests
                                 /\ pend'[s].charter \in CharterValue
                                 /\ pend'[s].decision \in DecisionFile
                                 /\ pend'[s] = [charter |-> pend'[s].charter, decision |-> pend'[s].decision]
                                 /\ pend'[s].decision # Absent =>
                                      pend'[s].decision \in DecisionValue /\ pend'[s].decision.request = mission'[s]
           /\ auth'[s] # None => auth'[s] \in DecisionValue /\ auth'[s].request \in env.requests /\ Frozen(auth'[s])
<1> DEFINE resumed == Resumable(user) /\ Readable(charter[user])
           proposed == resumed /\ ~IsApproved(charter[user])
<1>0. FilesTyped /\ MemoryTyped /\ InPlace
  BY DEF AuthorityInv
<1>1. /\ mission'[s] = IF Resumable(user) THEN user ELSE None
      /\ pend'[s] = IF proposed THEN [charter |-> charter[user], decision |-> decision[user]] ELSE None
      /\ auth'[s] = IF resumed /\ Authoritative(user) THEN decision[user] ELSE None
  BY <1>0 DEF Restore, MemoryTyped
<1>2. Resumable(user) => user \in env.requests
  BY <1>0 DEF FilesTyped, Resumable, Unreadable
<1>3. resumed => charter[user] \in CharterValue
  BY <1>0, <1>2 DEF FilesTyped, CharterFile, Readable
<1>4. resumed => /\ decision[user] \in DecisionFile
                 /\ Readable(decision[user]) => decision[user] \in DecisionValue /\ decision[user].request = user
  BY <1>0, <1>2 DEF FilesTyped, DecisionFile, Readable, InPlace
<1>5. proposed => decision[user] # Torn
  BY DEF Unreadable
<1>6. resumed /\ Authoritative(user) => Frozen(decision[user])
  BY <1>4 DEF Authoritative, Verified, Frozen
<1>7. pend'[s] # None => proposed /\ pend'[s] = [charter |-> charter[user], decision |-> decision[user]]
  BY <1>1
<1>8. auth'[s] # None => resumed /\ Authoritative(user) /\ auth'[s] = decision[user]
  BY <1>1
<1> HIDE DEF resumed, proposed
<1>9. proposed => resumed /\ Resumable(user)
  BY DEF proposed, resumed
<1>10. mission'[s] \in env.requests \cup {None} /\ (mission'[s] # None => mission'[s] = user)
  BY <1>1, <1>2
<1>11. pend'[s] # None => /\ mission'[s] \in env.requests
                          /\ pend'[s].charter \in CharterValue
                          /\ pend'[s].decision \in DecisionFile
                          /\ pend'[s] = [charter |-> pend'[s].charter, decision |-> pend'[s].decision]
                          /\ pend'[s].decision # Absent =>
                               pend'[s].decision \in DecisionValue /\ pend'[s].decision.request = mission'[s]
  BY <1>1, <1>2, <1>3, <1>4, <1>5, <1>7, <1>9 DEF Readable
<1>12. auth'[s] # None => auth'[s] \in DecisionValue /\ auth'[s].request \in env.requests /\ Frozen(auth'[s])
  BY <1>2, <1>4, <1>6, <1>8 DEF Authoritative, resumed
<1> QED BY <1>10, <1>11, <1>12

LEMMA OpenKeeps ==
    ASSUME AuthorityInv, NEW s \in Session, NEW how, Open(s, how)
    PROVE  AuthorityInv'
<1>0. FilesTyped /\ MemoryTyped /\ env \in Environment /\ env.starts > 0 /\ how \in env.modes
  BY DEF AuthorityInv, FilesTyped, Open
<1>1. /\ UNCHANGED <<disk, clock, user, active>> /\ env' = [env EXCEPT !.starts = @ - 1]
  BY DEF Open, continuity
<1>2. env' \in Environment /\ env'.requests = env.requests /\ how \in {"interactive", "one_shot"}
  BY <1>0, <1>1 DEF Environment
<1>3. CASE UNCHANGED <<pc, doing, pend, cand, seen, auth, mission>>
  <2>1. Alone(s)
    BY <1>3 DEF Alone
  <2>2. MemoryTyped'
    BY <1>0, <1>2, <1>3 DEF MemoryTyped
  <2>3. SessionInv(s)' /\ pc'[s] # "write_receipt"
    BY <1>2, <1>3, <1>1 DEF AuthorityInv, SessionInv, WritingFiles, Publishing, Open
  <2> QED BY <1>0, <1>1, <1>2, <1>3, <2>1, <2>2, <2>3, MemoryStepKeeps DEF FilesTyped
<1>4. CASE /\ ~Unreadable /\ Restore(s) /\ Go(s, "start_session")
           /\ doing' = [doing EXCEPT ![s] = how] /\ seen' = [seen EXCEPT ![s] = user]
           /\ UNCHANGED cand
  <2>1. Alone(s)
    BY <1>0, <1>4 DEF Alone, Restore, Go, MemoryTyped
  <2>2. /\ pc'[s] = "start_session" /\ doing'[s] = how /\ seen'[s] = user
    BY <1>0, <1>4 DEF Go, MemoryTyped
  <2>3. user \in {None, Torn} \cup env.requests
    BY <1>0 DEF FilesTyped
  <2>4. MemoryTyped'
    <3>1. /\ DOMAIN pc' = Session /\ DOMAIN seen' = Session /\ DOMAIN cand' = Session
          /\ doing' \in [Session -> Commands \cup SKILLS]
      BY <1>0, <1>2, <1>4 DEF MemoryTyped, Go, Commands
    <3>2. mission' \in [Session -> env'.requests \cup {None}]
      <4>1. mission'[s] \in env.requests \cup {None}
        BY <1>4, RestoreFacts
      <4> QED BY <1>0, <1>2, <1>4, <4>1 DEF MemoryTyped, Restore
    <3>3. pend' \in [Session -> [charter : CharterFile, decision : DecisionFile] \cup {None}]
      <4>1. pend'[s] \in [charter : CharterFile, decision : DecisionFile] \cup {None}
        <5>1. pend'[s] # None => pend'[s].charter \in CharterFile /\ pend'[s].decision \in DecisionFile
          BY <1>4, RestoreFacts DEF CharterFile
        <5>2. pend'[s] # None => pend'[s] = [charter |-> pend'[s].charter, decision |-> pend'[s].decision]
          BY <1>4, RestoreFacts
        <5> QED BY <5>1, <5>2
      <4> QED BY <1>0, <1>4, <4>1 DEF MemoryTyped, Restore
    <3>4. auth' \in [Session -> DecisionFile \cup {None}]
      <4>1. auth'[s] \in DecisionFile \cup {None}
        BY <1>4, RestoreFacts DEF DecisionFile
      <4> QED BY <1>0, <1>4, <4>1 DEF MemoryTyped, Restore
    <3> QED BY <3>1, <3>2, <3>3, <3>4 DEF MemoryTyped
  <2>5. SessionInv(s)'
    BY <1>2, <1>4, <2>2, <2>3, RestoreFacts DEF SessionInv, WritingFiles, Publishing
  <2>6. auth'[s] # None => Frozen(auth'[s])
    BY <1>4, RestoreFacts
  <2> QED BY <1>0, <1>1, <1>2, <2>1, <2>2, <2>3, <2>4, <2>5, <2>6, MemoryStepKeeps DEF FilesTyped
<1> QED BY <1>3, <1>4 DEF Open

LEMMA WriteUserBackKeeps ==
    ASSUME AuthorityInv, NEW s \in Session, WriteUserBack(s)
    PROVE  AuthorityInv'
<1>0. FilesTyped /\ MemoryTyped /\ SessionInv(s)
  BY DEF AuthorityInv
<1>1. UNCHANGED <<disk, env, active, clock>> /\ user' \in {None, Torn} \cup env.requests
  BY <1>0 DEF WriteUserBack, SessionInv
<1>2. CASE Die(s)
  BY <1>0, <1>1, <1>2, DieFacts, MemoryStepKeeps DEF FilesTyped
<1>3. CASE pc[s] = "start_session" /\ Go(s, "idle") /\ seen' = [seen EXCEPT ![s] = None]
           /\ UNCHANGED <<doing, memory, cand>>
  <2>1. pc'[s] = "idle" /\ Alone(s) /\ MemoryTyped'
    BY <1>0, <1>1, <1>3 DEF Go, MemoryTyped, Alone, memory
  <2>2. SessionInv(s)'
    BY <1>0, <1>1, <1>3, <2>1 DEF SessionInv, WritingFiles, Publishing, memory
  <2> QED BY <1>0, <1>1, <1>3, <2>1, <2>2, MemoryStepKeeps DEF FilesTyped, memory
<1> QED BY <1>2, <1>3 DEF WriteUserBack

LEMMA ExitKeeps ==
    ASSUME AuthorityInv, NEW s \in Session, Exit(s)
    PROVE  AuthorityInv'
<1>0. FilesTyped /\ MemoryTyped /\ SessionInv(s)
  BY DEF AuthorityInv
<1>1. UNCHANGED <<disk, env, user, active, clock>>
  BY DEF Exit, continuity
<1>2. CASE Die(s)
  BY <1>0, <1>1, <1>2, DieFacts, MemoryStepKeeps DEF FilesTyped
<1>3. CASE Go(s, "record_handoff") /\ seen' = [seen EXCEPT ![s] = user]
           /\ UNCHANGED <<doing, memory, cand>>
  <2>1. pc'[s] = "record_handoff" /\ seen'[s] = user /\ Alone(s) /\ MemoryTyped'
    BY <1>0, <1>1, <1>3 DEF Go, MemoryTyped, Alone, memory
  <2>2. SessionInv(s)'
    BY <1>0, <1>1, <1>3, <2>1 DEF SessionInv, WritingFiles, Publishing, memory, FilesTyped
  <2> QED BY <1>0, <1>1, <1>3, <2>1, <2>2, MemoryStepKeeps DEF FilesTyped, memory
<1> QED BY <1>2, <1>3 DEF Exit
LEMMA DecideFacts ==
    ASSUME NEW r \in Requests, NEW ready \in SUBSET Providers, NEW at \in Nat
    PROVE  /\ Decide(r, ready, at) \in DecisionValue
           /\ BuildCharter(Decide(r, ready, at)) \in CharterValue
<1>1. SelectProvider(r, ready) \in ProviderAnswers
  BY DEF ProviderAnswers
<1>2. Decide(r, ready, at) \in DecisionValue
  BY <1>1 DEF Decide, DecisionValue
<1> QED BY <1>2 DEF BuildCharter, CharterValue

LEMMA ProposeKeeps ==
    ASSUME AuthorityInv, NEW s \in Session, NEW r \in env.requests, Propose(s, r)
    PROVE  AuthorityInv'
<1>0. FilesTyped /\ MemoryTyped /\ SessionInv(s)
  BY DEF AuthorityInv
<1>1. UNCHANGED <<disk, env, user, active>>
  BY DEF Propose, continuity
<1>2. PICK at \in clock..env.seconds :
         LET d == Decide(r, env.ready[s], at)
             c == BuildCharter(d)
         IN /\ clock' = at
            /\ CASE ~ValidIntent(r) ->
                      /\ Return(s)
                      /\ IF doing[s] = "one_shot" THEN TRUE ELSE UNCHANGED memory
                 [] ValidIntent(r) /\ (d.provider = Absent \/ ~Constructible(c, d)) -> Die(s)
                 [] OTHER ->
                      /\ Go(s, "decision_open")
                      /\ cand' = [cand EXCEPT ![s] = [charter |-> c, decision |-> d]]
                      /\ UNCHANGED <<doing, memory, seen>>
  BY DEF Propose
<1> DEFINE d == Decide(r, env.ready[s], at)
           c == BuildCharter(d)
<1>3. at \in Nat /\ clock' = at /\ r \in Requests /\ env.ready[s] \in SUBSET Providers
  BY <1>0, <1>2 DEF FilesTyped, Environment
<1>4. CASE ~ValidIntent(r)
  <2>1. Return(s) /\ (doing[s] # "one_shot" => UNCHANGED memory)
    BY <1>2, <1>4
  <2>2. /\ Alone(s) /\ MemoryTyped' /\ SessionInv(s)'
        /\ pc'[s] \in {"down", "idle"} /\ auth'[s] \in {None, auth[s]}
    BY <1>0, <1>1, <2>1, ReturnFacts
  <2> QED BY <1>0, <1>1, <1>3, <2>2, MemoryStepKeeps DEF FilesTyped
<1>5. CASE ValidIntent(r) /\ (d.provider = Absent \/ ~Constructible(c, d))
  <2>1. Die(s)
    BY <1>2, <1>5
  <2> QED BY <1>0, <1>1, <1>3, <2>1, DieFacts, MemoryStepKeeps DEF FilesTyped
<1>6. CASE ValidIntent(r) /\ ~(d.provider = Absent \/ ~Constructible(c, d))
  <2>1. /\ Go(s, "decision_open")
        /\ cand' = [cand EXCEPT ![s] = [charter |-> c, decision |-> d]]
        /\ UNCHANGED <<doing, memory, seen>>
    BY <1>2, <1>6
  <2>2. d \in DecisionValue /\ c \in CharterValue /\ d.request = r
    BY <1>3, DecideFacts DEF Decide
  <2> HIDE DEF d, c
  <2>3. pc'[s] = "decision_open" /\ cand'[s] = [charter |-> c, decision |-> d] /\ Alone(s) /\ MemoryTyped'
    BY <1>0, <1>1, <2>1 DEF Go, MemoryTyped, Alone, memory
  <2>4. cand'[s] \in Pair /\ Writing(s)' = r
    BY <2>2, <2>3 DEF Pair, Writing
  <2>5. doing'[s] # "approve"
    BY <1>0, <2>1 DEF SessionInv, Propose
  <2>6. SessionInv(s)'
    BY <1>0, <1>1, <2>1, <2>3, <2>4, <2>5 DEF SessionInv, WritingFiles, Publishing, memory
  <2> QED BY <1>0, <1>1, <1>3, <2>1, <2>3, <2>6, MemoryStepKeeps DEF FilesTyped, memory
<1> QED BY <1>4, <1>5, <1>6

LEMMA ApproveKeeps ==
    ASSUME AuthorityInv, NEW s \in Session, Approve(s)
    PROVE  AuthorityInv'
<1>0. FilesTyped /\ MemoryTyped /\ SessionInv(s)
  BY DEF AuthorityInv
<1>1. UNCHANGED <<disk, env, user, active, memory, seen>> /\ pc[s] = "idle" /\ pend[s] # None
  BY DEF Approve, continuity
<1>2. CASE UNCHANGED <<pc, doing, clock, cand>>
  <2>1. Alone(s) /\ MemoryTyped'
    BY <1>0, <1>1, <1>2 DEF MemoryTyped, Alone, memory
  <2>2. SessionInv(s)'
    BY <1>0, <1>1, <1>2 DEF SessionInv, WritingFiles, Publishing, memory
  <2> QED BY <1>0, <1>1, <1>2, <2>1, <2>2, MemoryStepKeeps DEF FilesTyped, memory
<1>3. CASE /\ MayApprove(pend[s]) /\ Go(s, "decision_open")
           /\ doing' = [doing EXCEPT ![s] = "approve"]
           /\ clock' \in clock..env.seconds
           /\ cand' = [cand EXCEPT ![s] = [pend[s] EXCEPT !.charter.approved = clock']]
  <2>1. clock' \in Nat
    BY <1>0, <1>3 DEF FilesTyped, Environment
  <2>2. pc'[s] = "decision_open" /\ doing'[s] = "approve" /\ Alone(s)
    BY <1>0, <1>1, <1>3 DEF Go, MemoryTyped, Alone, memory
  <2>3. MemoryTyped'
    BY <1>0, <1>1, <1>3 DEF Go, MemoryTyped, memory, Commands
  <2>4. /\ pend[s] \in [charter : CharterFile, decision : DecisionFile]
        /\ pend[s].charter \in CharterValue /\ pend[s].decision \in DecisionValue
        /\ pend[s].decision.request = mission[s] /\ mission[s] \in env.requests
    BY <1>0, <1>1, <1>3 DEF SessionInv, MemoryTyped, MayApprove
  <2>5. cand'[s] = [pend[s] EXCEPT !.charter.approved = clock']
    BY <1>0, <1>3 DEF MemoryTyped
  <2>6. /\ cand'[s] = [charter |-> [pend[s].charter EXCEPT !.approved = clock'], decision |-> pend[s].decision]
    BY <2>4, <2>5
  <2>7. [pend[s].charter EXCEPT !.approved = clock'] \in CharterValue
    BY <2>1, <2>4 DEF CharterValue
  <2>8. cand'[s] \in Pair /\ cand'[s].decision = pend[s].decision /\ Writing(s)' = mission[s]
    BY <2>4, <2>6, <2>7 DEF Pair, Writing
  <2>9. SessionInv(s)'
    BY <1>0, <1>1, <2>2, <2>4, <2>8 DEF SessionInv, WritingFiles, Publishing, memory
  <2> QED BY <1>0, <1>1, <2>1, <2>2, <2>3, <2>9, MemoryStepKeeps DEF FilesTyped, memory
<1> QED BY <1>2, <1>3 DEF Approve
LEMMA SetActiveKeeps ==
    ASSUME AuthorityInv, NEW s \in Session, SetActive(s)
    PROVE  AuthorityInv'
<1>0. FilesTyped /\ MemoryTyped /\ SessionInv(s)
  BY DEF AuthorityInv
<1>1. UNCHANGED <<disk, env, user, clock>> /\ active' \in env.requests
  BY <1>0 DEF SetActive, SessionInv
<1>2. CASE Die(s)
  BY <1>0, <1>1, <1>2, DieFacts, MemoryStepKeeps DEF FilesTyped
<1>3. CASE Go(s, "set_user") /\ UNCHANGED <<doing, memory, cand, seen>>
  <2>1. pc'[s] = "set_user" /\ Alone(s) /\ MemoryTyped'
    BY <1>0, <1>1, <1>3 DEF Go, MemoryTyped, Alone, memory
  <2>2. SessionInv(s)'
    BY <1>0, <1>1, <1>3, <2>1 DEF SessionInv, WritingFiles, Publishing, memory, SetActive
  <2> QED BY <1>0, <1>1, <1>3, <2>1, <2>2, MemoryStepKeeps DEF FilesTyped, memory
<1> QED BY <1>2, <1>3 DEF SetActive

LEMMA SetUserKeeps ==
    ASSUME AuthorityInv, NEW s \in Session, SetUser(s)
    PROVE  AuthorityInv'
<1>0. FilesTyped /\ MemoryTyped /\ SessionInv(s)
  BY DEF AuthorityInv
<1>1. UNCHANGED <<disk, env, active, clock>> /\ user' \in env.requests
  BY <1>0 DEF SetUser, SessionInv
<1>2. Return(s) /\ (doing[s] # "one_shot" => UNCHANGED memory)
  BY DEF SetUser
<1>3. /\ Alone(s) /\ MemoryTyped' /\ SessionInv(s)'
      /\ pc'[s] \in {"down", "idle"} /\ auth'[s] \in {None, auth[s]}
  BY <1>0, <1>1, <1>2, ReturnFacts
<1> QED BY <1>0, <1>1, <1>3, MemoryStepKeeps DEF FilesTyped

LEMMA BootstrapKeeps ==
    ASSUME AuthorityInv, NEW s \in Session, Bootstrap(s)
    PROVE  AuthorityInv'
<1>0. FilesTyped /\ MemoryTyped /\ SessionInv(s)
  BY DEF AuthorityInv
<1>1. UNCHANGED <<disk, env, user, active, clock>> /\ pc[s] = "bootstrap"
  BY DEF Bootstrap, continuity
<1>2. CASE Die(s)
  BY <1>0, <1>1, <1>2, DieFacts, MemoryStepKeeps DEF FilesTyped
<1>3. CASE Go(s, "initialize") /\ UNCHANGED <<doing, memory, cand, seen>>
  <2>1. pc'[s] = "initialize" /\ Alone(s) /\ MemoryTyped'
    BY <1>0, <1>1, <1>3 DEF Go, MemoryTyped, Alone, memory
  <2>2. SessionInv(s)'
    BY <1>0, <1>1, <1>3, <2>1 DEF SessionInv, WritingFiles, Publishing, memory, disk, Writing, Publication
  <2> QED BY <1>0, <1>1, <1>3, <2>1, <2>2, MemoryStepKeeps DEF FilesTyped, memory
<1> QED BY <1>2, <1>3 DEF Bootstrap

LEMMA ReadActiveKeeps ==
    ASSUME AuthorityInv, NEW s \in Session, ReadActive(s)
    PROVE  AuthorityInv'
<1>0. FilesTyped /\ MemoryTyped /\ SessionInv(s)
  BY DEF AuthorityInv
<1>1. UNCHANGED <<disk, env, user, active, clock>>
  BY DEF ReadActive, continuity
<1>2. CASE Die(s)
  BY <1>0, <1>1, <1>2, DieFacts, MemoryStepKeeps DEF FilesTyped
<1>3. CASE Return(s) /\ UNCHANGED memory
  <2>1. /\ Alone(s) /\ MemoryTyped' /\ SessionInv(s)'
        /\ pc'[s] \in {"down", "idle"} /\ auth'[s] \in {None, auth[s]}
    BY <1>0, <1>1, <1>3, ReturnFacts
  <2> QED BY <1>0, <1>1, <2>1, MemoryStepKeeps DEF FilesTyped
<1>4. CASE /\ active # Torn /\ Go(s, "write_active")
           /\ seen' = [seen EXCEPT ![s] = active] /\ UNCHANGED <<doing, memory, cand>>
  <2>1. pc'[s] = "write_active" /\ seen'[s] = active /\ Alone(s) /\ MemoryTyped'
    BY <1>0, <1>1, <1>4 DEF Go, MemoryTyped, Alone, memory
  <2>2. SessionInv(s)'
    BY <1>0, <1>1, <1>4, <2>1 DEF SessionInv, WritingFiles, Publishing, memory, FilesTyped
  <2> QED BY <1>0, <1>1, <1>4, <2>1, <2>2, MemoryStepKeeps DEF FilesTyped, memory
<1> QED BY <1>2, <1>3, <1>4 DEF ReadActive

LEMMA WriteActiveKeeps ==
    ASSUME AuthorityInv, NEW s \in Session, WriteActive(s)
    PROVE  AuthorityInv'
<1>0. FilesTyped /\ MemoryTyped /\ SessionInv(s)
  BY DEF AuthorityInv
<1>1. UNCHANGED <<disk, env, user, clock>> /\ active' \in {Absent, Torn} \cup env.requests
  BY <1>0 DEF WriteActive, SessionInv
<1>2. Return(s) /\ UNCHANGED memory
  BY DEF WriteActive
<1>3. /\ Alone(s) /\ MemoryTyped' /\ SessionInv(s)'
      /\ pc'[s] \in {"down", "idle"} /\ auth'[s] \in {None, auth[s]}
  BY <1>0, <1>1, <1>2, ReturnFacts
<1> QED BY <1>0, <1>1, <1>3, MemoryStepKeeps DEF FilesTyped

LEMMA RejectKeeps ==
    ASSUME AuthorityInv, NEW s \in Session, Reject(s)
    PROVE  AuthorityInv'
<1>0. FilesTyped /\ MemoryTyped /\ SessionInv(s)
  BY DEF AuthorityInv
<1>1. UNCHANGED <<disk, env, user, active, clock>> /\ pc[s] = "idle"
  BY DEF Reject, continuity
<1>2. CASE Die(s)
  BY <1>0, <1>1, <1>2, DieFacts, MemoryStepKeeps DEF FilesTyped
<1>3. CASE UNCHANGED <<pc, doing, memory, cand, seen>>
  <2>1. Alone(s) /\ MemoryTyped'
    BY <1>0, <1>1, <1>3 DEF MemoryTyped, Alone, memory
  <2>2. SessionInv(s)'
    BY <1>0, <1>1, <1>3 DEF SessionInv, WritingFiles, Publishing, memory
  <2> QED BY <1>0, <1>1, <1>3, <2>1, <2>2, MemoryStepKeeps DEF FilesTyped, memory
<1>4. CASE /\ Go(s, IF user = mission[s] THEN "clear_user" ELSE "read_active")
           /\ doing' = [doing EXCEPT ![s] = "reject"]
           /\ pend' = [pend EXCEPT ![s] = None]
           /\ UNCHANGED <<auth, mission, cand, seen>>
  <2>1. pc'[s] \in {"clear_user", "read_active"} /\ doing'[s] = "reject" /\ pend'[s] = None /\ Alone(s)
    BY <1>0, <1>4 DEF Go, MemoryTyped, Alone
  <2>2. MemoryTyped'
    BY <1>0, <1>1, <1>4 DEF Go, MemoryTyped, Commands
  <2>3. SessionInv(s)'
    BY <1>0, <1>1, <1>4, <2>1 DEF SessionInv, WritingFiles, Publishing
  <2> QED BY <1>0, <1>1, <1>4, <2>1, <2>2, <2>3, MemoryStepKeeps DEF FilesTyped
<1> QED BY <1>2, <1>3, <1>4 DEF Reject

LEMMA ClearUserKeeps ==
    ASSUME AuthorityInv, NEW s \in Session, ClearUser(s)
    PROVE  AuthorityInv'
<1>0. FilesTyped /\ MemoryTyped /\ SessionInv(s)
  BY DEF AuthorityInv
<1>1. /\ UNCHANGED <<disk, env, active, clock, doing, memory, cand, seen>> /\ user' = None
      /\ Go(s, "read_active")
  BY DEF ClearUser
<1>2. pc'[s] = "read_active" /\ Alone(s) /\ MemoryTyped'
  BY <1>0, <1>1 DEF Go, MemoryTyped, Alone, memory
<1>3. SessionInv(s)'
  BY <1>0, <1>1, <1>2 DEF SessionInv, WritingFiles, Publishing, memory
<1> QED BY <1>0, <1>1, <1>2, <1>3, MemoryStepKeeps DEF FilesTyped, memory

LEMMA CrashKeeps ==
    ASSUME AuthorityInv, NEW s \in Session, Crash(s)
    PROVE  AuthorityInv'
<1>0. FilesTyped /\ MemoryTyped
  BY DEF AuthorityInv
<1>1. env' \in Environment /\ env'.requests = env.requests
  BY <1>0 DEF Crash, FilesTyped, Environment
<1>2. /\ UNCHANGED <<disk, clock>> /\ Die(s)
      /\ user' \in {None, Torn} \cup env.requests /\ active' \in {Absent, Torn} \cup env.requests
  BY <1>0 DEF Crash, FilesTyped
<1> QED BY <1>0, <1>1, <1>2, DieFacts, MemoryStepKeeps DEF FilesTyped
-----------------------------------------------------------------------------
(* The steps that write the charter and the decision. *)

LEMMA FileStepKeeps ==
    ASSUME AuthorityInv, NEW s \in Session,
           UNCHANGED <<env, receipt, queue, user, active, clock>>,
           FilesTyped', InPlace', Alone(s), MemoryTyped', SessionInv(s)',
           pc'[s] # "write_receipt", auth'[s] \in {None, auth[s]}
    PROVE  AuthorityInv'
<1>1. WrittenOnce(s) /\ QueuesGrow
  BY DEF WrittenOnce, QueuesGrow, Listed
<1>2. \A m \in env.requests : \A k \in Dispatched(m)' : Earned(m, k)'
  BY EarnedIsBoth DEF AuthorityInv, Dispatched, Listed, Earned, Readable
<1>3. auth'[s] # None => Frozen(auth[s])'
  BY DEF AuthorityInv, SessionSeesReceipt, Frozen, Readable
<1> QED BY <1>1, <1>2, <1>3, StepKeeps

\* The two temporaries and the two files of one mission are assigned values of their types.
LEMMA FilesTypedAfter ==
    ASSUME FilesTyped, InPlace, NEW m \in env.requests,
           UNCHANGED <<env, receipt, queue, user, active, clock>>,
           NEW d \in DecisionFile, NEW c \in CharterFile, NEW td \in DecisionFile, NEW tc \in CharterFile,
           decision' = [decision EXCEPT ![m] = d], charter' = [charter EXCEPT ![m] = c],
           temps' = [temps EXCEPT ![m] = [decision |-> td, charter |-> tc]],
           Readable(d) => d.request = m, Readable(td) => td.request = m
    PROVE  FilesTyped' /\ InPlace'
<1>1. FilesTyped'
  BY DEF FilesTyped
<1>2. InPlace'
  <2> SUFFICES ASSUME NEW n \in env.requests
               PROVE  /\ Readable(decision'[n]) => decision'[n].request = n
                      /\ Readable(temps'[n].decision) => temps'[n].decision.request = n
    BY DEF InPlace, Readable
  <2>1. CASE n = m
    BY <2>1 DEF FilesTyped
  <2>2. CASE n # m
    BY <2>2 DEF InPlace, FilesTyped
  <2> QED BY <2>1, <2>2
<1> QED BY <1>1, <1>2

\* One of the two temporaries of a mission.
LEMMA TempSet ==
    ASSUME FilesTyped, NEW m \in env.requests, NEW x
    PROVE  /\ [temps EXCEPT ![m].decision = x] =
                 [temps EXCEPT ![m] = [decision |-> x, charter |-> temps[m].charter]]
           /\ [temps EXCEPT ![m].charter = x] =
                 [temps EXCEPT ![m] = [decision |-> temps[m].decision, charter |-> x]]
<1>1. temps[m] \in [decision : DecisionFile, charter : CharterFile] /\ m \in DOMAIN temps
  BY DEF FilesTyped
<1>2. [temps[m] EXCEPT !.decision = x] = [decision |-> x, charter |-> temps[m].charter]
  BY <1>1
<1>3. [temps[m] EXCEPT !.charter = x] = [decision |-> temps[m].decision, charter |-> x]
  BY <1>1
<1>4. [temps EXCEPT ![m].decision = x] = [temps EXCEPT ![m] = [decision |-> x, charter |-> temps[m].charter]]
  BY <1>1, <1>2 DEF FilesTyped
<1>5. [temps EXCEPT ![m].charter = x] = [temps EXCEPT ![m] = [decision |-> temps[m].decision, charter |-> x]]
  BY <1>1, <1>3 DEF FilesTyped
<1> QED BY <1>4, <1>5

\* What a session that writes a file holds.
LEMMA WriterFacts ==
    ASSUME AuthorityInv, NEW s \in Session, pc[s] \in WritingFiles \cup Publishing
    PROVE  /\ cand[s] \in Pair /\ Writing(s) \in env.requests
           /\ cand[s].charter \in CharterValue /\ cand[s].decision \in DecisionValue
           /\ cand[s].decision.request = Writing(s)
           /\ decision[Writing(s)] \in DecisionFile /\ charter[Writing(s)] \in CharterFile
           /\ temps[Writing(s)] \in [decision : DecisionFile, charter : CharterFile]
           /\ Readable(decision[Writing(s)]) => decision[Writing(s)].request = Writing(s)
           /\ Readable(temps[Writing(s)].decision) => temps[Writing(s)].decision.request = Writing(s)
<1>1. cand[s] \in Pair /\ Writing(s) \in env.requests
  BY DEF AuthorityInv, SessionInv
<1> QED BY <1>1 DEF AuthorityInv, FilesTyped, InPlace, Pair, Writing

\* A session that goes from one write of the charter and the decision to the next.
LEMMA NextWrite ==
    ASSUME AuthorityInv, NEW s \in Session, pc[s] \in WritingFiles,
           NEW where \in WritingFiles, Go(s, where), UNCHANGED <<env, doing, memory, cand, seen>>
    PROVE  /\ Alone(s) /\ MemoryTyped' /\ SessionInv(s)'
           /\ pc'[s] # "write_receipt" /\ auth'[s] \in {None, auth[s]}
<1>0. MemoryTyped /\ SessionInv(s)
  BY DEF AuthorityInv
<1>1. pc'[s] = where /\ Alone(s) /\ MemoryTyped'
  BY <1>0 DEF Go, MemoryTyped, Alone, memory
<1>2. SessionInv(s)'
  BY <1>0, <1>1 DEF SessionInv, WritingFiles, Publishing, memory, Writing
<1> QED BY <1>1, <1>2 DEF WritingFiles, memory

LEMMA OpenTempKeeps ==
    ASSUME AuthorityInv, NEW s \in Session, OpenTemp(s)
    PROVE  AuthorityInv'
<1> DEFINE m == Writing(s)
<1>0. FilesTyped /\ InPlace /\ pc[s] \in WritingFiles
  BY DEF AuthorityInv, OpenTemp, WritingFiles
<1>1. UNCHANGED <<env, decision, charter, receipt, queue, user, active, clock, doing, memory, cand, seen>>
  BY DEF OpenTemp, continuity
<1>2. /\ m \in env.requests /\ decision[m] \in DecisionFile /\ charter[m] \in CharterFile
      /\ temps[m] \in [decision : DecisionFile, charter : CharterFile]
      /\ Readable(decision[m]) => decision[m].request = m
      /\ Readable(temps[m].decision) => temps[m].decision.request = m
  BY <1>0, WriterFacts
<1> HIDE DEF m
<1>3. FilesTyped' /\ InPlace'
  <2>1. decision' = [decision EXCEPT ![m] = decision[m]] /\ charter' = [charter EXCEPT ![m] = charter[m]]
    BY <1>0, <1>1 DEF FilesTyped
  <2>2. CASE FileOf(s) = "decision"
    <3>1. temps' = [temps EXCEPT ![m] = [decision |-> Torn, charter |-> temps[m].charter]]
      <4>1. temps' = [temps EXCEPT ![m].decision = Torn]
        BY <1>0, <2>2 DEF OpenTemp, m
      <4> QED BY <1>0, <1>2, <4>1, TempSet
    <3> QED BY <1>0, <1>1, <1>2, <2>1, <3>1, FilesTypedAfter DEF DecisionFile, Readable
  <2>3. CASE FileOf(s) = "charter"
    <3>1. temps' = [temps EXCEPT ![m] = [decision |-> temps[m].decision, charter |-> Torn]]
      <4>1. temps' = [temps EXCEPT ![m].charter = Torn]
        BY <1>0, <2>3 DEF OpenTemp, m
      <4> QED BY <1>0, <1>2, <4>1, TempSet
    <3> QED BY <1>0, <1>1, <1>2, <2>1, <3>1, FilesTypedAfter DEF CharterFile, Readable
  <2> QED BY <2>2, <2>3 DEF FileOf
<1>4. Go(s, IF FileOf(s) = "decision" THEN "decision_fill" ELSE "charter_fill")
  BY DEF OpenTemp
<1> DEFINE where == IF FileOf(s) = "decision" THEN "decision_fill" ELSE "charter_fill"
<1>5. where \in WritingFiles
  BY DEF WritingFiles
<1> HIDE DEF where
<1>6. /\ Alone(s) /\ MemoryTyped' /\ SessionInv(s)'
      /\ pc'[s] # "write_receipt" /\ auth'[s] \in {None, auth[s]}
  BY <1>0, <1>1, <1>4, <1>5, NextWrite DEF where
<1> QED BY <1>1, <1>3, <1>6, FileStepKeeps

LEMMA FillTempKeeps ==
    ASSUME AuthorityInv, NEW s \in Session, FillTemp(s)
    PROVE  AuthorityInv'
<1> DEFINE m == Writing(s)
           final == inode[s] = "final"
           temp == inode[s] = "temp"
<1>0. FilesTyped /\ InPlace /\ pc[s] \in WritingFiles
  BY DEF AuthorityInv, FillTemp, WritingFiles
<1>1. UNCHANGED <<env, receipt, queue, user, active, clock, doing, memory, cand, seen>>
  BY DEF FillTemp, continuity
<1>2. /\ m \in env.requests /\ decision[m] \in DecisionFile /\ charter[m] \in CharterFile
      /\ temps[m] \in [decision : DecisionFile, charter : CharterFile]
      /\ Readable(decision[m]) => decision[m].request = m
      /\ Readable(temps[m].decision) => temps[m].decision.request = m
      /\ cand[s].charter \in CharterFile /\ cand[s].decision \in DecisionFile
      /\ cand[s].decision.request = m /\ cand[s] \in Pair
  BY <1>0, WriterFacts DEF CharterFile, DecisionFile
<1> HIDE DEF m
<1>3. FilesTyped' /\ InPlace'
  <2>1. CASE FileOf(s) = "decision"
    <3>1. decision' = [decision EXCEPT ![m] = IF final THEN cand[s].decision ELSE decision[m]]
      BY <1>0, <1>2, <2>1 DEF FillTemp, Fill, FilesTyped, m, Pair
    <3>2. charter' = [charter EXCEPT ![m] = charter[m]]
      BY <1>0, <1>2, <2>1 DEF FillTemp, Fill, FilesTyped, m
    <3>3. temps' = [temps EXCEPT ![m] = [decision |-> IF temp THEN cand[s].decision ELSE temps[m].decision,
                                         charter |-> temps[m].charter]]
      <4>1. temps' = [temps EXCEPT ![m].decision =
                         IF temp THEN cand[s].decision ELSE temps[m].decision]
        BY <1>0, <1>2, <2>1 DEF FillTemp, m, FilesTyped, Pair
      <4> QED BY ZenonT(60), <1>0, <1>2, <4>1, TempSet
    <3> HIDE DEF final, temp
    <3> DEFINE d == IF final THEN cand[s].decision ELSE decision[m]
               td == IF temp THEN cand[s].decision ELSE temps[m].decision
    <3>4. d \in DecisionFile /\ (Readable(d) => d.request = m)
      BY <1>2
    <3>5. td \in DecisionFile /\ (Readable(td) => td.request = m)
      BY <1>2
    <3>6. temps[m].charter \in CharterFile
      BY <1>2
    <3> HIDE DEF d, td
    <3> QED BY <1>0, <1>1, <1>2, <3>1, <3>2, <3>3, <3>4, <3>5, <3>6, FilesTypedAfter DEF d, td
  <2>2. CASE FileOf(s) = "charter"
    <3>1. decision' = [decision EXCEPT ![m] = decision[m]]
      BY <1>0, <1>2, <2>2 DEF FillTemp, Fill, FilesTyped, m
    <3>2. charter' = [charter EXCEPT ![m] = IF final THEN cand[s].charter ELSE charter[m]]
      BY <1>0, <1>2, <2>2 DEF FillTemp, Fill, FilesTyped, m, Pair
    <3>3. temps' = [temps EXCEPT ![m] = [decision |-> temps[m].decision,
                                         charter |-> IF temp THEN cand[s].charter ELSE temps[m].charter]]
      <4>1. temps' = [temps EXCEPT ![m].charter =
                         IF temp THEN cand[s].charter ELSE temps[m].charter]
        BY <1>0, <1>2, <2>2 DEF FillTemp, m, FilesTyped, Pair
      <4> QED BY <1>0, <1>2, <4>1, TempSet
    <3> HIDE DEF final, temp
    <3> DEFINE c == IF final THEN cand[s].charter ELSE charter[m]
               tc == IF temp THEN cand[s].charter ELSE temps[m].charter
    <3>4. c \in CharterFile /\ tc \in CharterFile
      BY <1>2
    <3>5. temps[m].decision \in DecisionFile
      BY <1>2
    <3> HIDE DEF c, tc
    <3> QED BY <1>0, <1>1, <1>2, <3>1, <3>2, <3>3, <3>4, <3>5, FilesTypedAfter DEF c, tc
  <2> QED BY <2>1, <2>2 DEF FileOf
<1> DEFINE where == IF FileOf(s) = "decision" THEN "decision_rename" ELSE "charter_rename"
<1>4. Go(s, where)
  BY DEF FillTemp
<1>5. where \in WritingFiles
  BY DEF WritingFiles
<1> HIDE DEF where
<1>6. /\ Alone(s) /\ MemoryTyped' /\ SessionInv(s)'
      /\ pc'[s] # "write_receipt" /\ auth'[s] \in {None, auth[s]}
  BY <1>0, <1>1, <1>4, <1>5, NextWrite
<1> QED BY <1>1, <1>3, <1>6, FileStepKeeps
LEMMA RenameDecisionKeeps ==
    ASSUME AuthorityInv, NEW s \in Session, RenameDecision(s)
    PROVE  AuthorityInv'
<1> DEFINE m == Writing(s)
<1>0. FilesTyped /\ InPlace /\ MemoryTyped /\ pc[s] \in WritingFiles
  BY DEF AuthorityInv, RenameDecision, WritingFiles
<1>1. UNCHANGED <<env, charter, receipt, queue, user, active, clock>>
  BY DEF RenameDecision, continuity
<1>2. /\ m \in env.requests /\ decision[m] \in DecisionFile /\ charter[m] \in CharterFile
      /\ temps[m] \in [decision : DecisionFile, charter : CharterFile]
      /\ Readable(temps[m].decision) => temps[m].decision.request = m
  BY <1>0, WriterFacts
<1>3. CASE Die(s) /\ UNCHANGED <<decision, temps>>
  BY <1>0, <1>1, <1>3, DieFacts, FileStepKeeps DEF FilesTyped, InPlace, Readable
<1>4. CASE /\ decision' = [decision EXCEPT ![m] = temps[m].decision]
           /\ temps' = [temps EXCEPT ![m].decision = Absent]
           /\ Go(s, "charter_open")
           /\ UNCHANGED <<doing, memory, cand, seen>>
  <2>1. temps' = [temps EXCEPT ![m] = [decision |-> Absent, charter |-> temps[m].charter]]
    BY <1>0, <1>2, <1>4, TempSet
  <2>2. charter' = [charter EXCEPT ![m] = charter[m]]
    BY <1>0, <1>1 DEF FilesTyped
  <2>3. FilesTyped' /\ InPlace'
    <3> DEFINE d == temps[m].decision
               tc == temps[m].charter
    <3>1. Absent \in DecisionFile /\ ~Readable(Absent) /\ d \in DecisionFile /\ tc \in CharterFile
      BY <1>2 DEF DecisionFile, Readable
    <3>2. /\ decision' = [decision EXCEPT ![m] = d]
          /\ temps' = [temps EXCEPT ![m] = [decision |-> Absent, charter |-> tc]]
      BY <1>4, <2>1
    <3>3. Readable(d) => d.request = m
      BY <1>2
    <3> HIDE DEF m, d, tc
    <3> QED BY <1>0, <1>1, <1>2, <2>2, <3>1, <3>2, <3>3, FilesTypedAfter
  <2>4. /\ Alone(s) /\ MemoryTyped' /\ SessionInv(s)'
        /\ pc'[s] # "write_receipt" /\ auth'[s] \in {None, auth[s]}
    BY <1>0, <1>1, <1>4, NextWrite DEF WritingFiles
  <2> QED BY <1>1, <2>3, <2>4, FileStepKeeps
<1> QED BY <1>3, <1>4 DEF RenameDecision

LEMMA RenameCharterKeeps ==
    ASSUME AuthorityInv, NEW s \in Session, RenameCharter(s)
    PROVE  AuthorityInv'
<1> DEFINE m == Writing(s)
<1>0. FilesTyped /\ InPlace /\ MemoryTyped /\ SessionInv(s) /\ pc[s] = "charter_rename" /\ pc[s] \in WritingFiles
  BY DEF AuthorityInv, RenameCharter, WritingFiles
<1>1. UNCHANGED <<env, decision, receipt, queue, user, active, clock>>
  BY DEF RenameCharter, continuity
<1>2. /\ m \in env.requests /\ decision[m] \in DecisionFile /\ charter[m] \in CharterFile
      /\ temps[m] \in [decision : DecisionFile, charter : CharterFile]
      /\ Readable(decision[m]) => decision[m].request = m
      /\ Readable(temps[m].decision) => temps[m].decision.request = m
      /\ cand[s] \in Pair /\ cand[s].charter \in CharterValue /\ cand[s].decision \in DecisionValue
      /\ cand[s].decision.request = m
  BY <1>0, WriterFacts
<1>3. CASE Die(s) /\ UNCHANGED <<charter, temps>>
  BY <1>0, <1>1, <1>3, DieFacts, FileStepKeeps DEF FilesTyped, InPlace, Readable
<1>4. CASE /\ charter' = [charter EXCEPT ![m] = temps[m].charter]
           /\ temps' = [temps EXCEPT ![m].charter = Absent]
           /\ IF doing[s] = "approve"
              THEN /\ Go(s, "create_receipt")
                   /\ UNCHANGED memory
              ELSE /\ Go(s, "set_active")
                   /\ pend' = [pend EXCEPT ![s] = cand[s]]
                   /\ mission' = [mission EXCEPT ![s] = m]
                   /\ UNCHANGED auth
           /\ UNCHANGED <<doing, cand, seen>>
  <2>1. temps' = [temps EXCEPT ![m] = [decision |-> temps[m].decision, charter |-> Absent]]
    BY <1>0, <1>2, <1>4, TempSet
  <2>2. decision' = [decision EXCEPT ![m] = decision[m]]
    BY <1>0, <1>1 DEF FilesTyped
  <2>3. FilesTyped' /\ InPlace'
    <3> DEFINE td == temps[m].decision
               c == temps[m].charter
    <3>1. Absent \in CharterFile /\ td \in DecisionFile /\ c \in CharterFile
      BY <1>2 DEF CharterFile
    <3>2. /\ charter' = [charter EXCEPT ![m] = c]
          /\ temps' = [temps EXCEPT ![m] = [decision |-> td, charter |-> Absent]]
      BY <1>4, <2>1
    <3>3. Readable(td) => td.request = m
      BY <1>2
    <3> HIDE DEF m, td, c
    <3> QED BY <1>0, <1>1, <1>2, <2>2, <3>1, <3>2, <3>3, FilesTypedAfter
  <2>4. CASE doing[s] = "approve"
    <3>1. pc'[s] = "create_receipt" /\ UNCHANGED memory /\ Alone(s) /\ MemoryTyped'
      BY <1>0, <1>1, <1>4, <2>4 DEF Go, MemoryTyped, Alone, memory
    <3>2. SessionInv(s)'
      BY <1>0, <1>1, <1>4, <2>4, <3>1 DEF SessionInv, WritingFiles, Publishing, memory, Writing
    <3> QED BY <1>1, <2>3, <3>1, <3>2, FileStepKeeps DEF memory
  <2>5. CASE doing[s] # "approve"
    <3>1. /\ pc'[s] = "set_active" /\ pend'[s] = cand[s] /\ mission'[s] = m
          /\ doing'[s] = doing[s] /\ cand'[s] = cand[s] /\ auth' = auth /\ seen'[s] = seen[s] /\ Alone(s)
      BY <1>0, <1>4, <2>5 DEF Go, MemoryTyped, Alone
    <3>2. cand[s] \in [charter : CharterFile, decision : DecisionFile]
      BY <1>2 DEF CharterFile, DecisionFile, Pair
    <3>3. MemoryTyped'
      BY <1>0, <1>1, <1>2, <1>4, <2>5, <3>2 DEF Go, MemoryTyped
    <3>4. SessionInv(s)'
      BY <1>0, <1>1, <1>2, <3>1 DEF SessionInv, WritingFiles, Publishing
    <3> QED BY <1>1, <2>3, <3>1, <3>3, <3>4, FileStepKeeps
  <2> QED BY <2>4, <2>5
<1> QED BY <1>3, <1>4 DEF RenameCharter
-----------------------------------------------------------------------------
(* The receipt. *)

\* What s is about to publish is a pair of the mission it approves.
LEMMA PublicationFacts ==
    ASSUME AuthorityInv, NEW s \in Session, pc[s] \in Publishing
    PROVE  /\ Publication(s) \in Pair /\ Publication(s) = cand[s]
           /\ Writing(s) \in env.requests /\ Writing(s) = mission[s]
           /\ doing[s] = "approve" /\ pend[s] # None /\ pend[s].decision = cand[s].decision
           /\ cand[s].decision \in DecisionValue /\ cand[s].decision.request = Writing(s)
<1>1. /\ cand[s] \in Pair /\ Writing(s) \in env.requests /\ Writing(s) = mission[s]
      /\ doing[s] = "approve" /\ pend[s] # None /\ cand[s].decision = pend[s].decision
  BY DEF AuthorityInv, SessionInv
<1> QED BY <1>1 DEF Publication, Pair, Writing

\* Filling in a receipt that was not readable disturbs nothing that rested on a receipt.
LEMMA ReceiptStepKeeps ==
    ASSUME AuthorityInv, NEW s \in Session, NEW m \in env.requests, NEW v \in Pair \cup {Torn},
           UNCHANGED <<env, decision, charter, temps, queue, user, active, clock, doing, memory, cand, seen>>,
           receipt' = [receipt EXCEPT ![m] = v],
           receipt[m] = Absent \/ (receipt[m] = Torn /\ pc[s] = "write_receipt" /\ Writing(s) = m),
           NEW where, Go(s, where), SessionInv(s)',
           where = "write_receipt" => receipt[m] = Absent /\ Writing(s) = m
    PROVE  AuthorityInv'
<1>0. FilesTyped /\ MemoryTyped /\ InPlace
  BY DEF AuthorityInv
<1>1. FilesTyped' /\ InPlace'
  BY <1>0 DEF FilesTyped, InPlace, Readable
<1>2. MemoryTyped' /\ Alone(s) /\ pc'[s] = where
  BY <1>0 DEF MemoryTyped, Alone, memory, Go
<1>3. WrittenOnce(s) /\ QueuesGrow
  BY <1>0 DEF WrittenOnce, QueuesGrow, Listed, FilesTyped
<1>4. \A n \in env.requests : n # m => receipt'[n] = receipt[n]
  BY <1>0 DEF FilesTyped
<1>5. ~Readable(receipt[m])
  BY DEF Readable
<1>6. \A n \in env.requests : \A k \in Dispatched(n)' : Earned(n, k)'
  <2> SUFFICES ASSUME NEW n \in env.requests, NEW k \in Dispatched(n)' PROVE Earned(n, k)'
    OBVIOUS
  <2>1. k \in Dispatched(n)
    BY DEF Dispatched, Listed
  <2>2. Earned(n, k)
    BY <2>1, EarnedIsBoth DEF AuthorityInv
  <2>3. receipt'[n] = receipt[n]
    BY <1>4, <1>5, <2>2 DEF Earned
  <2> QED BY <2>2, <2>3 DEF Earned, Readable
<1>7. auth'[s] # None => Frozen(auth[s])'
  <2> SUFFICES ASSUME auth[s] # None PROVE Frozen(auth[s])'
    BY DEF memory
  <2>1. Frozen(auth[s]) /\ auth[s].request \in env.requests
    BY DEF AuthorityInv, SessionInv, SessionSeesReceipt, Frozen
  <2>2. receipt'[auth[s].request] = receipt[auth[s].request]
    BY <1>4, <1>5, <2>1 DEF Frozen
  <2> QED BY <2>1, <2>2 DEF Frozen, Readable, memory
<1>8. pc'[s] = "write_receipt" => receipt[Writing(s)'] = Absent
  BY <1>2 DEF Writing
<1> QED BY <1>1, <1>2, <1>3, <1>6, <1>7, <1>8, StepKeeps

LEMMA CreateReceiptKeeps ==
    ASSUME AuthorityInv, NEW s \in Session, CreateReceipt(s)
    PROVE  AuthorityInv'
<1> DEFINE m == Writing(s)
<1>0. FilesTyped /\ MemoryTyped /\ InPlace /\ SessionInv(s) /\ pc[s] = "create_receipt"
  BY DEF AuthorityInv, CreateReceipt
<1>1. UNCHANGED <<env, decision, charter, temps, queue, user, active, clock>>
  BY DEF CreateReceipt, continuity
<1>2. m \in env.requests /\ Publication(s) \in Pair
  BY <1>0, PublicationFacts DEF Publishing
<1>3. CASE /\ receipt[m] = Absent /\ receipt' = [receipt EXCEPT ![m] = Torn]
           /\ Go(s, "write_receipt") /\ UNCHANGED <<doing, memory, cand, seen>>
  <2>1. pc'[s] = "write_receipt" /\ receipt'[Writing(s)'] = Torn
    BY <1>0, <1>2, <1>3 DEF Go, MemoryTyped, FilesTyped, Writing
  <2>2. SessionInv(s)'
    BY <1>0, <1>1, <1>3, <2>1 DEF SessionInv, WritingFiles, Publishing, memory, Writing
  <2> QED BY <1>0, <1>1, <1>2, <1>3, <2>2, ReceiptStepKeeps
<1>4. CASE /\ receipt[m] = Publication(s) /\ Go(s, "bootstrap")
           /\ UNCHANGED <<receipt, doing, memory, cand, seen>>
  <2>1. pc'[s] = "bootstrap" /\ Alone(s) /\ MemoryTyped'
    BY <1>0, <1>1, <1>4 DEF Go, MemoryTyped, Alone, memory
  <2>2. SessionInv(s)'
    BY <1>0, <1>1, <1>4, <2>1 DEF SessionInv, WritingFiles, Publishing, memory, Writing, Publication
  <2> QED BY <1>0, <1>1, <1>4, <2>1, <2>2, MemoryStepKeeps DEF FilesTyped, memory, disk
<1>5. CASE Return(s) /\ UNCHANGED <<receipt, memory>>
  <2>1. /\ Alone(s) /\ MemoryTyped' /\ SessionInv(s)'
        /\ pc'[s] \in {"down", "idle"} /\ auth'[s] \in {None, auth[s]}
    BY <1>0, <1>1, <1>5, ReturnFacts
  <2> QED BY <1>0, <1>1, <1>5, <2>1, MemoryStepKeeps DEF FilesTyped, disk
<1> QED BY <1>3, <1>4, <1>5 DEF CreateReceipt

LEMMA WriteReceiptKeeps ==
    ASSUME AuthorityInv, NEW s \in Session, WriteReceipt(s)
    PROVE  AuthorityInv'
<1>0. FilesTyped /\ MemoryTyped /\ SessionInv(s) /\ pc[s] = "write_receipt"
  BY DEF AuthorityInv, WriteReceipt
<1>1. /\ UNCHANGED <<env, decision, charter, temps, queue, user, active, clock, doing, memory, cand, seen>>
      /\ receipt' = [receipt EXCEPT ![Writing(s)] = Publication(s)] /\ Go(s, "bootstrap")
  BY DEF WriteReceipt, continuity
<1>2. Writing(s) \in env.requests /\ Publication(s) \in Pair /\ receipt[Writing(s)] = Torn
  BY <1>0, PublicationFacts DEF Publishing, SessionInv
<1>3. pc'[s] = "bootstrap" /\ receipt'[Writing(s)'] = Publication(s)'
  BY <1>0, <1>1, <1>2 DEF Go, MemoryTyped, FilesTyped, Writing, Publication
<1>4. SessionInv(s)'
  BY <1>0, <1>1, <1>3 DEF SessionInv, WritingFiles, Publishing, memory, Writing
<1> QED BY <1>0, <1>1, <1>2, <1>4, ReceiptStepKeeps
-----------------------------------------------------------------------------
(* The queue. *)

\* What the receipt and the limits ask of a dispatched action a of skill k.
Deserved(m, k, a) ==
    /\ Readable(receipt[m])
    /\ a.charter = receipt[m].charter /\ a.decision = receipt[m].decision
    /\ a.charter.decision = a.decision
    /\ LET caps == EffectiveCapabilities(k, a.decision.provider) IN
         /\ "mutation_forbidden" \in m.limits => "mutates_files" \notin caps
         /\ "network_blocked" \in m.limits => "external_network" \notin caps
         /\ "local_model_only" \in m.limits /\ k \in PROVIDER_SKILL_IDS => a.decision.provider = "ollama"

LEMMA EarnedIsDeserved ==
    ASSUME NEW m, NEW k PROVE Earned(m, k) <=> Deserved(m, k, queue[m][k])
  BY DEF Earned, Deserved

\* A step that assigns the queue of mission m.
LEMMA QueueStepKeeps ==
    ASSUME AuthorityInv, NEW s \in Session, NEW m \in env.requests, NEW q \in QueueValue,
           UNCHANGED <<env, decision, charter, temps, receipt, user, active, clock>>,
           queue' = [queue EXCEPT ![m] = q], Listed(m) \subseteq DOMAIN q,
           \A k \in DOMAIN q : q[k].status \in Outcomes => Deserved(m, k, q[k]),
           Alone(s), MemoryTyped', SessionInv(s)', pc'[s] # "write_receipt",
           auth'[s] # None => auth'[s] = auth[s] \/ Frozen(auth'[s])
    PROVE  AuthorityInv'
<1>0. FilesTyped /\ InPlace
  BY DEF AuthorityInv
<1>1. FilesTyped' /\ InPlace'
  BY <1>0 DEF FilesTyped, InPlace, Readable
<1>2. queue'[m] = q /\ \A n \in env.requests : n # m => queue'[n] = queue[n]
  BY <1>0 DEF FilesTyped
<1>3. WrittenOnce(s) /\ QueuesGrow
  BY <1>2, FilesAreTold DEF WrittenOnce, QueuesGrow, Listed
<1>4. \A n \in env.requests : \A k \in Dispatched(n)' : Earned(n, k)'
  <2> SUFFICES ASSUME NEW n \in env.requests, NEW k \in Dispatched(n)' PROVE Earned(n, k)'
    OBVIOUS
  <2>1. CASE n = m
    <3>1. k \in DOMAIN q /\ q[k].status \in Outcomes /\ queue'[n][k] = q[k]
      BY <1>2, <2>1 DEF Dispatched, Listed
    <3>2. Deserved(m, k, q[k])
      BY <3>1
    <3> QED BY <2>1, <3>1, <3>2 DEF Earned, Deserved, Readable
  <2>2. CASE n # m
    <3>1. k \in Dispatched(n) /\ queue'[n] = queue[n]
      BY <1>2, <2>2 DEF Dispatched, Listed
    <3>2. Earned(n, k)
      BY <3>1, EarnedIsBoth DEF AuthorityInv
    <3> QED BY <3>1, <3>2 DEF Earned, Readable
  <2> QED BY <2>1, <2>2
<1>5. auth'[s] # None => Frozen(auth[s])'
  BY DEF AuthorityInv, SessionSeesReceipt, Frozen, Readable
<1> QED BY <1>1, <1>3, <1>4, <1>5, StepKeeps

LEMMA SkillSets ==
    /\ SKILLS = {"inspect_python_runtime", "inspect_git_status", "run_deterministic_audit_checks",
                 "run_technical_plan", "invoke_local_model_audit", "apply_validated_patch",
                 "run_post_patch_tests"}
    /\ \A r : ProposedSkills(r) \subseteq SKILLS
    /\ \A k : FollowupsOf(k) \subseteq SKILLS
<1>1. SKILLS = {"inspect_python_runtime", "inspect_git_status", "run_deterministic_audit_checks",
                "run_technical_plan", "invoke_local_model_audit", "apply_validated_patch",
                "run_post_patch_tests"}
  BY DEF SKILLS, ToSet, SkillOrder
<1>2. \A r : ProposedSkills(r) \subseteq SKILLS
  BY <1>1 DEF ProposedSkills
<1>3. \A k : FollowupsOf(k) \subseteq SKILLS
  BY <1>1 DEF FollowupsOf
<1> QED BY <1>1, <1>2, <1>3

\* An action that passes the check deserves to run.
LEMMA ValidIsDeserved ==
    ASSUME NEW m, NEW k, NEW a, Valid(m, k, a)
    PROVE  Deserved(m, k, a)
<1>1. /\ Readable(receipt[m]) /\ receipt[m].charter = charter[m] /\ receipt[m].decision = decision[m]
      /\ charter[m].decision = decision[m]
      /\ a.charter = charter[m] /\ a.decision = decision[m]
  BY DEF Valid, Authoritative, Verified, Bound
<1> DEFINE p == a.decision.provider
           caps == EffectiveCapabilities(k, p)
<1>2. Admissible(k, m, p)
  BY DEF Valid
<1>3. /\ "mutation_forbidden" \in m.limits => "mutates_files" \notin caps
      /\ "network_blocked" \in m.limits => "external_network" \notin caps
  BY <1>2 DEF Admissible, Breaks
<1>4. "local_model_only" \in m.limits /\ k \in PROVIDER_SKILL_IDS => p = "ollama"
  BY <1>2 DEF Admissible, Supported, ProviderCapabilities, PROVIDER_SKILL_IDS
<1> QED BY <1>1, <1>3, <1>4 DEF Deserved

\* Setting the status of one action.
LEMMA StatusSet ==
    ASSUME FilesTyped, NEW m \in env.requests, NEW k \in Listed(m), NEW status \in Statuses,
           SetStatus(m, k, status)
    PROVE  \E q \in QueueValue :
             /\ queue' = [queue EXCEPT ![m] = q] /\ DOMAIN q = Listed(m)
             /\ q[k].charter = queue[m][k].charter /\ q[k].decision = queue[m][k].decision
             /\ q[k].status = status
             /\ \A j \in DOMAIN q \ {k} : q[j] = queue[m][j]
<1>1. queue[m] # Absent /\ k \in DOMAIN queue[m] /\ Listed(m) = DOMAIN queue[m] /\ queue[m] \in QueueValue
  BY DEF FilesTyped, Listed
<1>2. PICK skills \in SUBSET SKILLS : queue[m] \in [skills -> ActionValue]
  BY <1>1 DEF QueueValue
<1> DEFINE q == [queue[m] EXCEPT ![k] = [queue[m][k] EXCEPT !.status = status]]
<1>3. queue[m][k] \in ActionValue
  BY <1>1, <1>2
<1>4. /\ [queue[m][k] EXCEPT !.status = status] \in ActionValue
      /\ [queue[m][k] EXCEPT !.status = status].charter = queue[m][k].charter
      /\ [queue[m][k] EXCEPT !.status = status].decision = queue[m][k].decision
      /\ [queue[m][k] EXCEPT !.status = status].status = status
  BY <1>3 DEF ActionValue
<1>5. q \in [skills -> ActionValue]
  BY <1>2, <1>4
<1>6. q \in QueueValue
  BY <1>5 DEF QueueValue
<1>7. /\ DOMAIN q = Listed(m) /\ q[k] = [queue[m][k] EXCEPT !.status = status]
      /\ \A j \in DOMAIN q \ {k} : q[j] = queue[m][j]
  BY <1>1, <1>2
<1>8. queue' = [queue EXCEPT ![m] = q]
  BY DEF SetStatus
<1> HIDE DEF q
<1>9. /\ queue' = [queue EXCEPT ![m] = q] /\ DOMAIN q = Listed(m)
      /\ q[k].charter = queue[m][k].charter /\ q[k].decision = queue[m][k].decision
      /\ q[k].status = status
      /\ \A j \in DOMAIN q \ {k} : q[j] = queue[m][j]
  BY <1>4, <1>7, <1>8
<1> QED BY <1>6, <1>9

LEMMA DispatchedDeserved ==
    ASSUME AuthorityInv, NEW m \in env.requests, NEW k \in Listed(m), queue[m][k].status \in Outcomes
    PROVE  Deserved(m, k, queue[m][k])
  BY EarnedIsBoth, EarnedIsDeserved DEF AuthorityInv, Dispatched

LEMMA InitializeQueueKeeps ==
    ASSUME AuthorityInv, NEW s \in Session, InitializeQueue(s)
    PROVE  AuthorityInv'
<1> DEFINE m == mission[s]
           fresh == [k \in ProposedSkills(m) |-> Action(m, k, "initial")]
           built == IF queue[m] = Absent THEN fresh ELSE queue[m]
<1>0. FilesTyped /\ MemoryTyped /\ SessionInv(s) /\ pc[s] = "initialize"
  BY DEF AuthorityInv, InitializeQueue
<1>1. UNCHANGED <<env, decision, charter, temps, receipt, user, active, clock>>
  BY DEF InitializeQueue, continuity
<1>2. CASE Die(s) /\ UNCHANGED queue
  BY <1>0, <1>1, <1>2, DieFacts, MemoryStepKeeps DEF FilesTyped, disk
<1>3. CASE /\ queue' = [queue EXCEPT ![m] = built]
           /\ auth' = [auth EXCEPT ![s] = pend[s].decision]
           /\ pend' = [pend EXCEPT ![s] = None]
           /\ Go(s, "read_active")
           /\ UNCHANGED <<doing, mission, cand, seen>>
  <2>1. /\ Publication(s) = cand[s] /\ Writing(s) \in env.requests /\ Writing(s) = m
        /\ pend[s].decision = cand[s].decision
        /\ cand[s].decision \in DecisionValue /\ cand[s].decision.request = m
        /\ Publication(s) \in Pair
    BY <1>0, PublicationFacts DEF Publishing
  <2>2. receipt[m] = cand[s]
    BY <1>0, <2>1 DEF SessionInv
  <2>3. Frozen(pend[s].decision)
    BY <2>1, <2>2, FilesAreTold DEF Frozen, Readable
  <2>4. fresh \in QueueValue
    <3>1. \A k \in ProposedSkills(m) : Action(m, k, "initial") \in ActionValue
      BY <1>0, <2>1 DEF Action, ActionValue, Statuses, FilesTyped
    <3>2. fresh \in [ProposedSkills(m) -> ActionValue]
      BY <3>1
    <3> QED BY <3>2, SkillSets DEF QueueValue
  <2>5. \A k \in DOMAIN fresh : fresh[k].status \notin Outcomes
    BY DEF Action, Outcomes
  <2> HIDE DEF fresh
  <2>6. built \in QueueValue /\ Listed(m) \subseteq DOMAIN built
    BY <1>0, <2>1, <2>4 DEF FilesTyped, Listed
  <2>7. \A k \in DOMAIN built : built[k].status \in Outcomes => Deserved(m, k, built[k])
    BY <2>1, <2>5, DispatchedDeserved DEF Listed
  <2>8. /\ pc'[s] = "read_active" /\ auth'[s] = pend[s].decision /\ pend'[s] = None /\ Alone(s)
    BY <1>0, <1>3 DEF Go, MemoryTyped, Alone
  <2>9. MemoryTyped'
    BY <1>0, <1>1, <1>3, <2>1 DEF Go, MemoryTyped, DecisionFile
  <2>10. SessionInv(s)'
    BY <1>0, <1>1, <1>3, <2>1, <2>8 DEF SessionInv, WritingFiles, Publishing
  <2> HIDE DEF m, built
  <2> QED BY <1>1, <1>3, <2>1, <2>3, <2>6, <2>7, <2>8, <2>9, <2>10, QueueStepKeeps
<1> QED BY <1>2, <1>3 DEF InitializeQueue

\* A session that goes on to update active_mission.json.
LEMMA UpdateFacts ==
    ASSUME MemoryTyped, NEW s \in Session, SessionInv(s), NEW k \in Commands \cup SKILLS,
           doing' = [doing EXCEPT ![s] = k], Go(s, "read_active"), UNCHANGED <<env, memory, cand, seen>>
    PROVE  /\ Alone(s) /\ MemoryTyped' /\ SessionInv(s)'
           /\ pc'[s] = "read_active" /\ auth'[s] = auth[s]
<1>1. pc'[s] = "read_active" /\ doing'[s] = k /\ auth' = auth /\ pend' = pend /\ mission' = mission
  BY DEF Go, MemoryTyped, memory
<1>2. Alone(s) /\ MemoryTyped'
  BY <1>1 DEF Go, MemoryTyped, Alone, memory
<1>3. SessionInv(s)'
  BY <1>1 DEF SessionInv, WritingFiles, Publishing
<1> QED BY <1>1, <1>2, <1>3

LEMMA TakeActionKeeps ==
    ASSUME AuthorityInv, NEW s \in Session, TakeAction(s)
    PROVE  AuthorityInv'
<1> DEFINE m == mission[s]
<1>0. FilesTyped /\ MemoryTyped /\ SessionInv(s) /\ m \in env.requests
  BY DEF AuthorityInv, TakeAction, MemoryTyped
<1>1. UNCHANGED <<env, decision, charter, temps, receipt, user, active, clock, memory, cand, seen>>
  BY DEF TakeAction, continuity
<1>2. PICK k \in NextPending(m) :
           /\ doing' = [doing EXCEPT ![s] = k]
           /\ \/ SetStatus(m, k, "running") /\ Go(s, "pre_dispatch")
              \/ Go(s, "read_active") /\ UNCHANGED queue
  BY DEF TakeAction
<1>3. k \in Listed(m)
  BY <1>2 DEF NextPending, Pending
<1> HIDE DEF m
<1>4. k \in SKILLS
  BY <1>0, <1>3 DEF FilesTyped, QueueValue, Listed
<1>5. CASE SetStatus(m, k, "running") /\ Go(s, "pre_dispatch")
  <2>1. PICK q \in QueueValue :
             /\ queue' = [queue EXCEPT ![m] = q] /\ DOMAIN q = Listed(m)
             /\ q[k].status = "running"
             /\ \A j \in DOMAIN q \ {k} : q[j] = queue[m][j]
    BY <1>0, <1>3, <1>5, StatusSet DEF Statuses
  <2>2. \A j \in DOMAIN q : q[j].status \in Outcomes => Deserved(m, j, q[j])
    BY <1>0, <2>1, DispatchedDeserved DEF Outcomes
  <2>3. /\ pc'[s] = "pre_dispatch" /\ doing'[s] = k /\ mission'[s] = m /\ Alone(s)
    BY <1>0, <1>1, <1>2, <1>5 DEF Go, MemoryTyped, Alone, memory, m
  <2>4. MemoryTyped'
    BY <1>0, <1>1, <1>2, <1>4, <1>5 DEF Go, MemoryTyped, memory
  <2>5. Listed(mission[s])' = DOMAIN q
    BY <1>0, <2>1, <2>3, FilesAreTold DEF Listed, FilesTyped
  <2>6. SessionInv(s)'
    BY <1>0, <1>1, <1>3, <2>1, <2>3, <2>5 DEF SessionInv, WritingFiles, Publishing, memory
  <2> QED BY <1>0, <1>1, <2>1, <2>2, <2>3, <2>4, <2>6, QueueStepKeeps DEF memory
<1>6. CASE Go(s, "read_active") /\ UNCHANGED queue
  <2>1. /\ Alone(s) /\ MemoryTyped' /\ SessionInv(s)' /\ pc'[s] = "read_active" /\ auth'[s] = auth[s]
    BY <1>0, <1>1, <1>2, <1>4, <1>6, UpdateFacts
  <2> QED BY <1>0, <1>1, <1>6, <2>1, MemoryStepKeeps DEF FilesTyped, disk
<1> QED BY <1>2, <1>5, <1>6

LEMMA PreDispatchKeeps ==
    ASSUME AuthorityInv, NEW s \in Session, PreDispatch(s)
    PROVE  AuthorityInv'
<1> DEFINE m == mission[s]
           k == doing[s]
<1>0. /\ FilesTyped /\ MemoryTyped /\ SessionInv(s) /\ pc[s] = "pre_dispatch"
      /\ m \in env.requests /\ k \in Listed(m)
  BY DEF AuthorityInv, PreDispatch, SessionInv
<1>1. UNCHANGED <<env, decision, charter, temps, receipt, user, active, clock, doing, memory, cand, seen>>
  BY DEF PreDispatch, continuity
<1>2. doing' = [doing EXCEPT ![s] = k] /\ k \in Commands \cup SKILLS
  BY <1>0, <1>1 DEF MemoryTyped
<1>3. ASSUME NEW outcome \in Outcomes, Valid(m, k, queue[m][k]), SetStatus(m, k, outcome),
             Go(s, IF outcome = "completed" THEN "followup" ELSE "read_active")
      PROVE  AuthorityInv'
  <2>1. Deserved(m, k, queue[m][k])
    BY <1>3, ValidIsDeserved
  <2>0. outcome \in Statuses /\ SetStatus(m, k, outcome)
    BY <1>3 DEF Statuses
  <2> HIDE DEF m, k
  <2>2. PICK q \in QueueValue :
             /\ queue' = [queue EXCEPT ![m] = q] /\ DOMAIN q = Listed(m)
             /\ q[k].charter = queue[m][k].charter /\ q[k].decision = queue[m][k].decision
             /\ \A j \in DOMAIN q \ {k} : q[j] = queue[m][j]
    BY <1>0, <2>0, StatusSet
  <2>3. Deserved(m, k, q[k])
    BY <2>1, <2>2 DEF Deserved
  <2>4. \A j \in DOMAIN q : q[j].status \in Outcomes => Deserved(m, j, q[j])
    BY <1>0, <2>2, <2>3, DispatchedDeserved
  <2>5. /\ Alone(s) /\ MemoryTyped' /\ SessionInv(s)'
        /\ pc'[s] # "write_receipt" /\ auth'[s] = auth[s]
    <3>1. CASE outcome # "completed"
      BY <1>0, <1>1, <1>2, <1>3, <3>1, UpdateFacts
    <3>2. CASE outcome = "completed"
      <4>1. /\ pc'[s] = "followup" /\ doing'[s] = k /\ mission'[s] = m /\ auth'[s] = auth[s]
            /\ Alone(s) /\ MemoryTyped'
        BY <1>0, <1>1, <1>3, <3>2 DEF Go, MemoryTyped, Alone, memory, m, k
      <4>2. Listed(mission[s])' = DOMAIN q
        BY <1>0, <2>2, <4>1, FilesAreTold DEF Listed, FilesTyped
      <4>3. SessionInv(s)'
        BY <1>0, <1>1, <2>2, <4>1, <4>2 DEF SessionInv, WritingFiles, Publishing, memory
      <4> QED BY <4>1, <4>3
    <3> QED BY <3>1, <3>2
  <2> QED BY <1>0, <1>1, <2>2, <2>4, <2>5, QueueStepKeeps
<1>4. CASE Go(s, "read_active") /\ UNCHANGED queue
  <2>1. /\ Alone(s) /\ MemoryTyped' /\ SessionInv(s)' /\ pc'[s] = "read_active" /\ auth'[s] = auth[s]
    BY <1>0, <1>1, <1>2, <1>4, UpdateFacts
  <2> QED BY <1>0, <1>1, <1>4, <2>1, MemoryStepKeeps DEF FilesTyped, disk
<1> QED BY <1>3, <1>4 DEF PreDispatch

LEMMA AppendFollowupKeeps ==
    ASSUME AuthorityInv, NEW s \in Session, AppendFollowup(s)
    PROVE  AuthorityInv'
<1> DEFINE m == mission[s]
<1>0. /\ FilesTyped /\ MemoryTyped /\ SessionInv(s) /\ pc[s] = "followup"
      /\ m \in env.requests /\ doing[s] \in Listed(m)
  BY DEF AuthorityInv, AppendFollowup, SessionInv
<1>1. UNCHANGED <<env, decision, charter, temps, receipt, user, active, clock>>
  BY DEF AppendFollowup, continuity
<1> DEFINE Updates == Go(s, "read_active") /\ UNCHANGED <<doing, memory, cand, seen>>
<1>2. ASSUME Updates
      PROVE  /\ Alone(s) /\ MemoryTyped' /\ SessionInv(s)'
             /\ pc'[s] = "read_active" /\ auth'[s] = auth[s]
  <2>1. doing' = [doing EXCEPT ![s] = doing[s]] /\ doing[s] \in Commands \cup SKILLS
    BY <1>0, <1>2 DEF MemoryTyped
  <2> QED BY <1>0, <1>1, <1>2, <2>1, UpdateFacts
<1>3. CASE Updates /\ UNCHANGED queue
  BY <1>0, <1>1, <1>3, <1>2, MemoryStepKeeps DEF FilesTyped, disk
<1>4. CASE Die(s) /\ UNCHANGED queue
  BY <1>0, <1>1, <1>4, DieFacts, MemoryStepKeeps DEF FilesTyped, disk
<1>5. ASSUME NEW f \in FollowupsOf(doing[s]),
             queue' = [queue EXCEPT ![m] =
               [k \in DOMAIN queue[m] \cup {f} |->
                  IF k \in DOMAIN queue[m] THEN queue[m][k] ELSE Action(m, f, "followup")]],
             Updates
      PROVE  AuthorityInv'
  <2> DEFINE q == [k \in DOMAIN queue[m] \cup {f} |->
                     IF k \in DOMAIN queue[m] THEN queue[m][k] ELSE Action(m, f, "followup")]
  <2>1. /\ Alone(s) /\ MemoryTyped' /\ SessionInv(s)' /\ pc'[s] = "read_active" /\ auth'[s] = auth[s]
    BY <1>5, <1>2
  <2>2. Listed(m) = DOMAIN queue[m] /\ queue[m] \in QueueValue
    BY <1>0 DEF Listed, FilesTyped
  <2>3. PICK skills \in SUBSET SKILLS : queue[m] \in [skills -> ActionValue]
    BY <2>2 DEF QueueValue
  <2>4. Action(m, f, "followup") \in ActionValue /\ Action(m, f, "followup").status \notin Outcomes
    BY <1>0 DEF Action, ActionValue, Statuses, Outcomes, FilesTyped
  <2>5. f \in SKILLS
    BY SkillSets
  <2>6. q \in [skills \cup {f} -> ActionValue]
    BY <2>3, <2>4
  <2>7. q \in QueueValue
    BY <2>5, <2>6 DEF QueueValue
  <2>8. Listed(m) \subseteq DOMAIN q
    BY <2>2
  <2>9. \A k \in DOMAIN q : q[k].status \in Outcomes => Deserved(m, k, q[k])
    BY <1>0, <2>2, <2>4, DispatchedDeserved
  <2>10. queue' = [queue EXCEPT ![m] = q]
    BY <1>5
  <2> HIDE DEF q, m
  <2> QED BY <1>0, <1>1, <2>1, <2>7, <2>8, <2>9, <2>10, QueueStepKeeps
<1> QED BY <1>3, <1>4, <1>5 DEF AppendFollowup

-----------------------------------------------------------------------------
(* The theorems. *)

LEMMA InitKeeps == ASSUME Init PROVE AuthorityInv
<1>1. env \in Environment
  BY EnvironmentAssumption DEF Init
<1>2. FilesTyped /\ MemoryTyped /\ InPlace /\ Claimed
  BY <1>1 DEF Init, FilesTyped, MemoryTyped, InPlace, Claimed, DecisionFile, CharterFile, Readable, Commands
<1>3. \A s \in Session : SessionInv(s)
  BY DownKnowsNothing DEF Init
<1>4. OneAuthority /\ LimitsHold /\ SessionSeesReceipt
  BY DEF Init, OneAuthority, LimitsHold, SessionSeesReceipt, Dispatched, Listed
<1> QED BY <1>2, <1>3, <1>4 DEF AuthorityInv

LEMMA NextKeeps == ASSUME AuthorityInv, [Next]_vars PROVE AuthorityInv'
<1>1. CASE UNCHANGED vars
  <2>1. UNCHANGED <<env, decision, charter, temps, receipt, queue, user, active, clock,
                    pc, doing, pend, cand, seen, auth, mission>>
    BY <1>1 DEF vars, disk, continuity
  <2>2. FilesTyped' /\ MemoryTyped' /\ InPlace'
    BY <2>1 DEF AuthorityInv, FilesTyped, MemoryTyped, InPlace, Readable
  <2>3. Claimed'
    BY <2>1 DEF AuthorityInv, Claimed, Writing
  <2>4. \A s \in Session : SessionInv(s)'
    BY <2>1 DEF AuthorityInv, SessionInv, Writing, Publication, Listed
  <2>5. OneAuthority' /\ LimitsHold'
    BY <2>1 DEF AuthorityInv, OneAuthority, LimitsHold, Dispatched, Listed, Readable
  <2>6. SessionSeesReceipt'
    BY <2>1 DEF AuthorityInv, SessionSeesReceipt, Readable
  <2> QED BY <2>2, <2>3, <2>4, <2>5, <2>6 DEF AuthorityInv
<1>2. ASSUME NEW s \in Session, Step(s) PROVE AuthorityInv'
  BY <1>2, OpenKeeps, WriteUserBackKeeps, ExitKeeps, ProposeKeeps, ApproveKeeps, OpenTempKeeps, FillTempKeeps,
     RenameDecisionKeeps, RenameCharterKeeps, SetActiveKeeps, SetUserKeeps, CreateReceiptKeeps,
     WriteReceiptKeeps, BootstrapKeeps, InitializeQueueKeeps, ReadActiveKeeps, WriteActiveKeeps, RejectKeeps,
     ClearUserKeeps, TakeActionKeeps, PreDispatchKeeps, AppendFollowupKeeps, CrashKeeps DEF Step
<1> QED BY <1>1, <1>2 DEF Next

LEMMA AuthorityInvariance == Spec => []AuthorityInv
  BY InitKeeps, NextKeeps, PTL DEF Spec

\* Whatever sessions proposed, approved, overwrote or lost, every action that ran is
\* bound to the charter and the decision its mission's receipt froze, and the decision
\* is the one that charter was built on (authority.py, charter.py).
THEOREM Authorised == Spec => []OneAuthority
<1>1. AuthorityInv => OneAuthority
  BY DEF AuthorityInv
<1> QED BY <1>1, AuthorityInvariance, PTL

\* No action that ran does what its request excluded: the admissibility of a provider for
\* a skill is checked again when it is dispatched (action_queue.py).
THEOREM Limited == Spec => []LimitsHold
<1>1. AuthorityInv => LimitsHold
  BY DEF AuthorityInv
<1> QED BY <1>1, AuthorityInvariance, PTL

\* The decision a session calls authoritative is the one the receipt holds, for the
\* loser of two simultaneous approvals too (authority.py, run_conversational_hokage.py).
THEOREM SessionsAgree == Spec => []SessionSeesReceipt
<1>1. AuthorityInv => SessionSeesReceipt
  BY DEF AuthorityInv
<1> QED BY <1>1, AuthorityInvariance, PTL
==============================================================================
