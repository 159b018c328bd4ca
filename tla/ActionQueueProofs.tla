-------------------------- MODULE ActionQueueProofs --------------------------
(***************************************************************************)
(* Proofs about ActionQueue, for every set of sessions and actions and all *)
(* faults: its invariants, and that it implements ActionLedger.            *)
(***************************************************************************)
EXTENDS ActionQueue, WellFoundedInduction, TLAPS

\* Being inside a locked section is holding the queue lock.
LockInv == \A s \in Session : pc[s] \in Locked <=> queueLock = s

\* A lease is held exactly while its session is between the CAS to running and the end of
\* the call.
LeaseInv ==
    \A s \in Session, a \in Action : lease[a] = s <=> pc[s] \in Leased /\ target[s] = a

\* Points at which the session has no action in hand.
Unbound == {"off", "loop", "prompt", "init", "init_locked"}

TargetInv == \A s \in Session : pc[s] \notin Unbound => target[s] \in Action

\* What a session knows about its action at each point of approve_and_dispatch.
SessionInv ==
    \A s \in Session :
        /\ pc[s] = "claiming" => status[target[s]] = "proposed" /\ claim[target[s]] = "torn"
        /\ pc[s] = "claimed" => status[target[s]] = "proposed" /\ claim[target[s]] = "valid"
        /\ pc[s] \in Leased => status[target[s]] = "running" /\ claim[target[s]] = "valid"
        /\ pc[s] \in {"predispatch", "dispatch"} => runs[target[s]] = 0
        /\ pc[s] \in Leased \ {"predispatch", "dispatch"} => runs[target[s]] = 1

\* What the files say about the effects.
LedgerInv ==
    \A a \in Action :
        /\ claim[a] = "none" => status[a] \in {"absent", "proposed", "rejected"}
        /\ status[a] = "absent" => claim[a] = "none"
        /\ status[a] = "running" => claim[a] = "valid"
        /\ status[a] \in {"absent", "proposed", "rejected"} => runs[a] = 0
        /\ status[a] \in Outcomes => runs[a] = 1
        /\ runs[a] <= 1

IInv == TypeOK /\ LockInv /\ LeaseInv /\ TargetInv /\ SessionInv /\ LedgerInv

-----------------------------------------------------------------------------

\* The least element that next_pending finds.
LEMMA SmallestExists ==
  ASSUME NEW S, S \subseteq Nat, S # {}
  PROVE  \E k \in S : \A j \in S : k <= j
  <1> DEFINE R == OpToRel(<, Nat)
  <1>1. IsWellFoundedOn(R, Nat)
    BY NatLessThanWellFounded
  <1>2. PICK k \in S : \A j \in S : ~(<<j, k>> \in R)
    <2> HIDE DEF R
    <2> QED BY <1>1, WFMin
  <1>3. \A j \in S : ~(j < k)
    BY <1>2 DEF OpToRel
  <1> QED BY <1>3

\* A session outside approve_and_dispatch moves on and touches neither locks nor files.
LEMMA QuietGo ==
  ASSUME IInv, NEW s \in Session,
         NEW w \in Points \ (Locked \cup Leased),
         pc[s] \notin Locked \cup Leased,
         Go(s, w),
         target' \in [Session -> Action \cup {None}],
         \A r \in Session : r # s => target'[r] = target[r],
         w \notin Unbound => target'[s] \in Action,
         UNCHANGED <<queueLock, lease, status, claim, authority, runs>>,
         review' \in {"none", "torn", "proposed"}
  PROVE  IInv'
  <1>1. pc' = [pc EXCEPT ![s] = w] /\ pc' \in [Session -> Points]
    BY DEF Go, IInv, TypeOK
  <1>2. TypeOK'
    BY <1>1 DEF IInv, TypeOK
  <1>3. LockInv'
    BY <1>1 DEF IInv, TypeOK, LockInv
  <1>4. LeaseInv'
    BY <1>1 DEF IInv, TypeOK, LeaseInv
  <1>5. TargetInv'
    BY <1>1 DEF IInv, TypeOK, TargetInv
  <1>6. SessionInv'
    <2>1. \A r \in Session : r # s => pc'[r] = pc[r] /\ target'[r] = target[r]
      BY <1>1 DEF IInv, TypeOK
    <2>2. pc'[s] = w /\ w \notin Leased /\ w # "claiming" /\ w # "claimed"
      BY <1>1 DEF IInv, TypeOK, Locked
    <2> QED BY <2>1, <2>2 DEF IInv, SessionInv, Leased
  <1>7. LedgerInv'
    BY DEF IInv, LedgerInv
  <1> QED BY <1>2, <1>3, <1>4, <1>5, <1>6, <1>7 DEF IInv

\* Leaving a call: locks, leases and the session's own point.
LEMMA LeaveFacts ==
  ASSUME IInv, NEW s \in Session,
         NEW w \in Points \ (Locked \cup Leased),
         Leave(s, w),
         w \in {"off", "loop"} \/ target[s] \in Action
  PROVE  /\ queueLock' \in Session \cup {None}
         /\ lease' \in [Action -> Session \cup {None}]
         /\ pc' \in [Session -> Points]
         /\ target' \in [Session -> Action \cup {None}]
         /\ LockInv' /\ LeaseInv' /\ TargetInv'
         /\ \A r \in Session : r # s => pc'[r] = pc[r] /\ target'[r] = target[r]
         /\ pc'[s] \notin Leased \cup {"claiming", "claimed"}
  <1>1. /\ pc' = [pc EXCEPT ![s] = w] /\ pc' \in [Session -> Points]
        /\ pc'[s] = w /\ \A r \in Session : r # s => pc'[r] = pc[r]
    BY DEF Leave, Go, IInv, TypeOK
  <1>2. /\ queueLock' \in Session \cup {None}
        /\ queueLock' = IF queueLock = s THEN None ELSE queueLock
    BY DEF Leave, Unlock, IInv, TypeOK
  <1>3. /\ lease' \in [Action -> Session \cup {None}]
        /\ \A a \in Action : lease'[a] = IF lease[a] = s THEN None ELSE lease[a]
    BY DEF Leave, IInv, TypeOK
  <1>4. /\ target' \in [Session -> Action \cup {None}]
        /\ \A r \in Session : r # s => target'[r] = target[r]
        /\ w \notin {"off", "loop"} => target'[s] = target[s]
    BY DEF Leave, IInv, TypeOK
  <1>5. LockInv'
    BY <1>1, <1>2, NoneIsNobody DEF IInv, TypeOK, LockInv
  <1>6. LeaseInv'
    <2> SUFFICES ASSUME NEW r \in Session, NEW a \in Action
                 PROVE  lease'[a] = r <=> pc'[r] \in Leased /\ target'[r] = a
      BY DEF LeaseInv
    <2>1. CASE r = s
      BY <2>1, <1>1, <1>3, NoneIsNobody
    <2>2. CASE r # s
      BY <2>2, <1>1, <1>3, <1>4, NoneIsNobody DEF IInv, LeaseInv
    <2> QED BY <2>1, <2>2
  <1>7. TargetInv'
    BY <1>1, <1>4 DEF IInv, TargetInv, Unbound
  <1> QED BY <1>1, <1>2, <1>3, <1>4, <1>5, <1>6, <1>7 DEF Locked

\* An exception or a return that leaves the files alone.
LEMMA QuietLeave ==
  ASSUME IInv, NEW s \in Session,
         NEW w \in Points \ (Locked \cup Leased),
         Leave(s, w),
         w \in {"off", "loop"} \/ target[s] \in Action,
         UNCHANGED <<status, claim, authority, runs>>,
         review' \in {"none", "torn", "proposed"}
  PROVE  IInv'
  <1>1. TypeOK'
    BY LeaveFacts DEF IInv, TypeOK
  <1>2. SessionInv'
    BY LeaveFacts DEF IInv, SessionInv, Leased
  <1>3. LedgerInv'
    BY DEF IInv, LedgerInv
  <1> QED BY LeaveFacts, <1>1, <1>2, <1>3 DEF IInv

\* A session that leaves and changes the status of the one action a, which no other session
\* has in hand: what remains to be shown is LedgerInv for a.
LEMMA SettleLeave ==
  ASSUME IInv, NEW s \in Session, NEW a \in Action, NEW new \in Statuses,
         NEW w \in Points \ (Locked \cup Leased),
         Leave(s, w),
         w \in {"off", "loop"} \/ target[s] \in Action,
         SetStatus(a, new),
         UNCHANGED <<claim, review, authority, runs>>,
         queueLock = s,
         \A r \in Session : r # s => lease[a] # r,
         claim[a] = "none" => new \in {"absent", "proposed", "rejected"},
         new = "absent" => claim[a] = "none",
         new = "running" => claim[a] = "valid",
         new \in {"absent", "proposed", "rejected"} => runs[a] = 0,
         new \in Outcomes => runs[a] = 1
  PROVE  IInv'
  <1>1. /\ status' = [status EXCEPT ![a] = new] /\ status' \in [Action -> Statuses]
        /\ status'[a] = new /\ \A b \in Action : b # a => status'[b] = status[b]
    BY DEF SetStatus, IInv, TypeOK
  <1>2. TypeOK'
    BY <1>1, LeaveFacts DEF IInv, TypeOK
  <1>3. SessionInv'
    <2>1. \A r \in Session : r # s => pc[r] \notin Locked
      BY DEF IInv, LockInv
    <2>2. \A r \in Session : r # s /\ pc[r] \in Leased => target[r] # a /\ target[r] \in Action
      BY DEF IInv, LeaseInv, TargetInv, Leased, Unbound
    <2> SUFFICES ASSUME NEW r \in Session, r # s
                 PROVE  /\ pc[r] \notin {"claiming", "claimed"}
                        /\ pc[r] \in Leased => status'[target[r]] = status[target[r]]
      BY LeaveFacts DEF IInv, SessionInv, Leased
    <2> QED BY <2>1, <2>2, <1>1 DEF Locked
  <1>4. LedgerInv'
    BY <1>1 DEF IInv, LedgerInv, TypeOK
  <1> QED BY LeaveFacts, <1>2, <1>3, <1>4 DEF IInv

-----------------------------------------------------------------------------

\* The initial states satisfy the inductive invariant.
THEOREM InitInv == Init => IInv
  <1> SUFFICES ASSUME Init PROVE IInv
    OBVIOUS
  <1>1. TypeOK
    BY DEF Init, TypeOK, Statuses, Points, Waiting
  <1>2. \A s \in Session : pc[s] \in {"off", "init"} /\ target[s] = None
    BY DEF Init
  <1>3. LockInv
    BY <1>2, NoneIsNobody DEF Init, LockInv, Locked
  <1>4. LeaseInv
    BY <1>2, NoneIsNobody DEF Init, LeaseInv, Leased
  <1>5. TargetInv
    BY <1>2 DEF TargetInv, Unbound
  <1>6. SessionInv
    BY <1>2 DEF SessionInv, Leased
  <1>7. LedgerInv
    BY DEF Init, LedgerInv, Outcomes
  <1> QED BY <1>1, <1>3, <1>4, <1>5, <1>6, <1>7 DEF IInv

\* Every step of a session at its prompt keeps the invariant.
LEMMA HumanStepKeepsInv ==
  ASSUME IInv, NEW s \in Session, HumanStep(s)
  PROVE  IInv'
  <1> USE DEF files
  <1>t. target \in [Session -> Action \cup {None}] /\ review \in {"none", "torn", "proposed"}
    BY DEF IInv, TypeOK
  <1>w. {"off", "loop", "prompt", "approve", "reject", "recover"}
           \subseteq Points \ (Locked \cup Leased)
    BY DEF Points, Waiting, Locked, Leased
  <1>u. {"off", "loop", "prompt"} \subseteq Unbound
    BY DEF Unbound
  <1>1. ASSUME Open(s) PROVE IInv'
    BY <1>1, <1>t, <1>w, <1>u, QuietGo DEF Open
  <1>2. ASSUME Prompt(s) PROVE IInv'
    <2>1. NextPending \in Action \cup {None}
      <3>1. Listing \in Seq(Action)
        BY ActionsKnown DEF Listing
      <3>2. ASSUME Pending # {} PROVE NextPending \in Action
        <4> DEFINE i == CHOOSE i \in Pending : \A j \in Pending : i <= j
        <4>1. Pending \subseteq Nat
          BY <3>1 DEF Pending
        <4>2. \E k \in Pending : \A j \in Pending : k <= j
          BY <3>2, <4>1, SmallestExists
        <4>3. i \in Pending
          BY <4>2
        <4> HIDE DEF i
        <4>4. i \in 1..Len(Listing)
          BY <4>3 DEF Pending
        <4>5. NextPending = Listing[i]
          BY <3>2 DEF NextPending, i
        <4> QED BY <3>1, <4>4, <4>5
      <3> QED BY <3>2 DEF NextPending
    <2>2. pc[s] \notin Locked \cup Leased
      BY <1>2, <1>w DEF Prompt
    <2>3. CASE review = "torn"
      BY <1>2, <2>2, <2>3, <1>t, <1>w, <1>u, QuietGo DEF Prompt
    <2>4. CASE review # "torn"
      <3>1. Go(s, "prompt") /\ target' = [target EXCEPT ![s] = NextPending]
        BY <1>2, <2>4 DEF Prompt
      <3>2. target' \in [Session -> Action \cup {None}]
        BY <3>1, <2>1, <1>t
      <3>3. \A r \in Session : r # s => target'[r] = target[r]
        BY <3>1, <1>t
      <3>4. UNCHANGED <<queueLock, lease, status, claim, review, authority, runs>>
        BY <1>2 DEF Prompt
      <3> QED BY <3>1, <3>2, <3>3, <3>4, <2>2, <1>t, <1>w, <1>u, QuietGo
    <2> QED BY <2>3, <2>4
  <1>3. ASSUME TypePhrase(s) PROVE IInv'
    <2>1. target[s] \in Action
      BY <1>3, <1>t DEF TypePhrase
    <2> QED BY <1>3, <2>1, <1>t, <1>w, QuietGo DEF TypePhrase
  <1>4. ASSUME TypeOther(s) PROVE IInv'
    BY <1>4, <1>t, <1>w, <1>u, QuietGo DEF TypeOther
  <1>5. ASSUME StartRecovery(s) PROVE IInv'
    BY <1>5, <1>t, <1>w, QuietGo DEF StartRecovery
  <1> QED BY <1>1, <1>2, <1>3, <1>4, <1>5 DEF HumanStep

\* Every step that raises, or leaves a call without changing queue and claims, keeps the
\* invariant: the lock and the lease go, and nothing else was promised.
LEMMA LeavingKeepsInv ==
  ASSUME IInv, NEW s \in Session,
         \/ LockTimeout(s) \/ InitializeRaises(s) \/ ApproveRaises(s) \/ WriteClaimRaises(s)
         \/ StartRaises(s) \/ FinishRaises(s) \/ AppendRaises(s) \/ RejectRaises(s)
         \/ BlockRaises(s) \/ ReviewGate(s) \/ WriteReview(s) \/ WriteReviewRaises(s)
         \/ Crash(s)
  PROVE  IInv'
  <1> USE DEF files
  <1>r. review \in {"none", "torn", "proposed"}
    BY DEF IInv, TypeOK
  <1>w. {"off", "loop", "truncate"} \subseteq Points \ (Locked \cup Leased)
    BY DEF Points, Waiting, Locked, Leased
  <1>q. ASSUME UNCHANGED <<status, claim, authority, runs>>,
               review' \in {"none", "torn", "proposed"},
               Leave(s, "off") \/ Leave(s, "loop")
        PROVE  IInv'
    BY <1>q, <1>w, QuietLeave
  <1>1. CASE LockTimeout(s)
    BY <1>1, <1>q, <1>r DEF LockTimeout
  <1>2. CASE InitializeRaises(s)
    BY <1>2, <1>q, <1>r DEF InitializeRaises
  <1>3. CASE ApproveRaises(s)
    BY <1>3, <1>q, <1>r DEF ApproveRaises
  <1>4. CASE WriteClaimRaises(s)
    BY <1>4, <1>q, <1>r DEF WriteClaimRaises
  <1>5. CASE StartRaises(s)
    BY <1>5, <1>q, <1>r DEF StartRaises
  <1>6. CASE FinishRaises(s)
    BY <1>6, <1>q, <1>r DEF FinishRaises
  <1>7. CASE AppendRaises(s)
    BY <1>7, <1>q, <1>r DEF AppendRaises
  <1>8. CASE RejectRaises(s)
    BY <1>8, <1>q, <1>r DEF RejectRaises
  <1>9. CASE BlockRaises(s)
    BY <1>9, <1>q, <1>r DEF BlockRaises
  <1>10. CASE ReviewGate(s)
    <2>1. CASE Leave(s, "off") \/ Leave(s, "loop")
      BY <1>10, <2>1, <1>q, <1>r DEF ReviewGate
    <2>2. CASE Leave(s, "truncate")
      <3>1. target[s] \in Action
        BY <1>10 DEF ReviewGate, IInv, TargetInv, Unbound
      <3> QED BY <1>10, <2>2, <3>1, <1>w, <1>r, QuietLeave DEF ReviewGate
    <2> QED BY <1>10, <2>1, <2>2 DEF ReviewGate
  <1>11. CASE WriteReview(s)
    BY <1>11, <1>q DEF WriteReview
  <1>12. CASE WriteReviewRaises(s)
    BY <1>12, <1>q, <1>r DEF WriteReviewRaises
  <1>13. CASE Crash(s)
    BY <1>13, <1>q, <1>r DEF Crash
  <1> QED BY <1>1, <1>2, <1>3, <1>4, <1>5, <1>6, <1>7, <1>8, <1>9, <1>10, <1>11, <1>12, <1>13

\* The steps between an action and the prompt that touch neither lock nor queue.
LEMMA WanderingKeepsInv ==
  ASSUME IInv, NEW s \in Session,
         Followup(s) \/ AfterAction(s) \/ LoadForReview(s) \/ TruncateReview(s)
  PROVE  IInv'
  <1> USE DEF files
  <1>t. target \in [Session -> Action \cup {None}] /\ review \in {"none", "torn", "proposed"}
    BY DEF IInv, TypeOK
  <1>w. {"loop", "followup", "next", "append", "review", "gate", "refused", "truncate", "write"}
           \subseteq Points \ (Locked \cup Leased)
    BY DEF Points, Waiting, Locked, Leased
  <1>a. pc[s] \in {"followup", "next", "review", "truncate"} /\ target[s] \in Action
    BY DEF Followup, AfterAction, LoadForReview, TruncateReview, IInv, TargetInv, Unbound
  <1>b. pc[s] \notin Locked \cup Leased
    BY <1>a, <1>w
  <1>1. CASE Followup(s)
    <2>1. FollowupsOf(target[s]) \subseteq Action
      BY ActionsKnown DEF FollowupsOf
    <2>2. /\ target' \in [Session -> Action \cup {None}]
          /\ \A r \in Session : r # s => target'[r] = target[r]
          /\ target'[s] \in Action
      BY <1>1, <2>1, <1>t, <1>a DEF Followup
    <2>3. \E w \in {"next", "append"} : Go(s, w)
      BY <1>1 DEF Followup
    <2> QED BY <1>1, <2>2, <2>3, <1>t, <1>w, <1>b, QuietGo DEF Followup
  <1>2. CASE AfterAction(s)
    <2>1. /\ target' \in [Session -> Action \cup {None}]
          /\ \A r \in Session : r # s => target'[r] = target[r]
          /\ \/ Go(s, "loop")
             \/ Go(s, "review") /\ target'[s] \in Action
      BY <1>2, <1>t, <1>a DEF AfterAction
    <2>2. "loop" \in Unbound
      BY DEF Unbound
    <2> QED BY <1>2, <2>1, <2>2, <1>t, <1>w, <1>b, QuietGo DEF AfterAction
  <1>3. CASE LoadForReview(s)
    <2>1. \E w \in {"gate", "refused"} : Go(s, w)
      BY <1>3 DEF LoadForReview
    <2> QED BY <1>3, <2>1, <1>t, <1>w, <1>a, <1>b, QuietGo DEF LoadForReview
  <1>4. CASE TruncateReview(s)
    BY <1>4, <1>t, <1>w, <1>a, <1>b, QuietGo DEF TruncateReview
  <1> QED BY <1>1, <1>2, <1>3, <1>4

\* The steps that settle an action and leave.
LEMMA SettlingKeepsInv ==
  ASSUME IInv, NEW s \in Session,
         PreDispatchFails(s) \/ FinishAction(s) \/ AppendAction(s) \/ BlockInterrupted(s)
  PROVE  IInv'
  <1> DEFINE a == target[s]
  <1>w. {"off", "loop", "followup", "next"} \subseteq Points \ (Locked \cup Leased)
    BY DEF Points, Waiting, Locked, Leased
  <1>r. review \in {"none", "torn", "proposed"}
    BY DEF IInv, TypeOK
  <1>a. /\ a \in Action
        /\ pc[s] \in Locked
        /\ queueLock = s
    BY DEF PreDispatchFails, FinishAction, AppendAction, BlockInterrupted,
           IInv, TargetInv, LockInv, Unbound, Locked
  <1>1. CASE PreDispatchFails(s)
    <2>1. pc[s] = "predispatch" /\ Leave(s, "loop") /\ UNCHANGED <<claim, review, authority, runs>>
      BY <1>1 DEF PreDispatchFails
    <2>2. lease[a] = s /\ claim[a] = "valid"
      BY <2>1, <1>a DEF IInv, LeaseInv, SessionInv, Leased
    <2>3. CASE UNCHANGED status
      BY <2>1, <2>3, <1>w, <1>r, QuietLeave
    <2>4. CASE SetStatus(a, "blocked")
      <3>1. "blocked" \in Statuses /\ "blocked" \notin Outcomes
        BY DEF Statuses, Terminal, Outcomes
      <3> QED BY <2>1, <2>2, <2>4, <3>1, <1>w, <1>a, SettleLeave
    <2> QED BY <1>1, <2>3, <2>4 DEF PreDispatchFails
  <1>2. CASE FinishAction(s)
    <2> DEFINE new == OutcomeOf(pc[s])
               w == IF pc[s] = "completed_locked" THEN "followup" ELSE "loop"
    <2>1. /\ pc[s] \in {"completed_locked", "failed_locked"} /\ Leave(s, w)
          /\ SetStatus(a, new) /\ UNCHANGED <<claim, review, authority, runs>>
      BY <1>2 DEF FinishAction
    <2>2. lease[a] = s /\ claim[a] = "valid" /\ runs[a] = 1
      BY <2>1, <1>a DEF IInv, LeaseInv, SessionInv, Leased
    <2>3. new \in Outcomes /\ new \in Statuses
          /\ new \notin {"absent", "proposed", "rejected", "running"}
      BY DEF OutcomeOf, Outcomes, Terminal, Statuses
    <2>4. w \in Points \ (Locked \cup Leased)
      BY <1>w
    <2> HIDE DEF new, w
    <2> QED BY <2>1, <2>2, <2>3, <2>4, <1>a, SettleLeave
  <1>3. CASE AppendAction(s)
    <2>1. Leave(s, "next") /\ UNCHANGED <<claim, review, authority, runs>>
      BY <1>3 DEF AppendAction
    <2>2. CASE UNCHANGED status
      BY <2>1, <2>2, <1>w, <1>r, <1>a, QuietLeave
    <2>3. CASE SetStatus(a, "proposed") /\ status[a] = "absent"
      <3>1. "proposed" \in Statuses /\ "proposed" \notin Outcomes
        BY DEF Statuses, Outcomes, Terminal
      <3>2. runs[a] = 0
        BY <2>3, <1>a DEF IInv, LedgerInv
      <3>3. \A r \in Session : lease[a] # r
        BY <2>3, <1>a DEF IInv, LeaseInv, SessionInv
      <3> QED BY <2>1, <2>3, <3>1, <3>2, <3>3, <1>w, <1>a, SettleLeave
    <2> QED BY <1>3, <2>2, <2>3 DEF AppendAction
  <1>4. CASE BlockInterrupted(s)
    <2>1. /\ Leave(s, "off") /\ UNCHANGED <<claim, review, authority, runs>>
          /\ SetStatus(a, "blocked") /\ claim[a] = "valid" /\ lease[a] = None
      BY <1>4 DEF BlockInterrupted
    <2>2. "blocked" \in Statuses /\ "blocked" \notin Outcomes
      BY DEF Statuses, Terminal, Outcomes
    <2> QED BY <2>1, <2>2, <1>w, <1>a, NoneIsNobody, SettleLeave
  <1> QED BY <1>1, <1>2, <1>3, <1>4

\* Taking the queue lock.
LEMMA LockKeepsInv ==
  ASSUME IInv, NEW s \in Session, Lock(s)
  PROVE  IInv'
  <1> DEFINE w == Inside[pc[s]]
  <1>1. /\ pc[s] \in Waiting /\ pc[s] \notin Locked
        /\ w \in Locked /\ w \in Points /\ w \notin {"claiming", "claimed", "predispatch"}
        /\ (w \in Leased <=> pc[s] \in Leased)
        /\ (w = "init_locked" <=> pc[s] = "init")
    BY DEF Lock, Waiting, Inside, Locked, Leased, Points
  <1>2. pc' = [pc EXCEPT ![s] = w] /\ queueLock = None /\ queueLock' = s
    BY DEF Lock, Go
  <1>3. UNCHANGED <<lease, status, claim, review, authority, runs, target>>
    BY DEF Lock, files
  <1> HIDE DEF w
  <1>4. /\ pc' \in [Session -> Points] /\ pc'[s] = w
        /\ \A r \in Session : r # s => pc'[r] = pc[r]
    BY <1>1, <1>2 DEF IInv, TypeOK
  <1>5. TypeOK'
    BY <1>2, <1>3, <1>4 DEF IInv, TypeOK
  <1>6. LockInv'
    BY <1>1, <1>2, <1>4, NoneIsNobody DEF IInv, LockInv
  <1>7. LeaseInv'
    BY <1>1, <1>3, <1>4 DEF IInv, LeaseInv
  <1>8. TargetInv'
    BY <1>1, <1>3, <1>4 DEF IInv, TargetInv, Unbound, Waiting
  <1>9. SessionInv'
    <2>1. w \notin {"claiming", "claimed", "predispatch", "dispatch"}
      BY <1>1 DEF Locked
    <2>2. pc[s] \notin {"predispatch", "dispatch"}
      BY <1>1 DEF Waiting
    <2> QED BY <1>1, <1>3, <1>4, <2>1, <2>2 DEF IInv, SessionInv
  <1>10. LedgerInv'
    BY <1>3 DEF IInv, LedgerInv
  <1> QED BY <1>5, <1>6, <1>7, <1>8, <1>9, <1>10 DEF IInv

\* The queue is created, or left as it is.
LEMMA InitializeKeepsInv ==
  ASSUME IInv, NEW s \in Session, InitializeQueue(s)
  PROVE  IInv'
  <1>1. Leave(s, "loop") /\ UNCHANGED <<claim, review, authority, runs>>
    BY DEF InitializeQueue
  <1>w. "loop" \in Points \ (Locked \cup Leased)
    BY DEF Points, Waiting, Locked, Leased
  <1>2. CASE Listed
    BY <1>1, <1>2, <1>w, QuietLeave DEF InitializeQueue, IInv, TypeOK
  <1>3. CASE ~Listed
    <2>1. /\ status' \in [Action -> Statuses]
          /\ \A a \in Action : status'[a] \in {"absent", "proposed"}
      BY <1>3 DEF InitializeQueue, Listed, IInv, TypeOK, Statuses
    <2>2. \A a \in Action : status[a] = "absent" /\ claim[a] = "none" /\ runs[a] = 0
      BY <1>3 DEF Listed, IInv, TypeOK, LedgerInv
    <2>3. TypeOK'
      BY <1>1, <1>w, <2>1, LeaveFacts DEF IInv, TypeOK
    <2>4. \A r \in Session : pc[r] \notin Leased \cup {"claiming", "claimed"}
      BY <2>2 DEF IInv, SessionInv, TargetInv, Unbound, Leased
    <2>5. SessionInv'
      BY <1>1, <1>w, <2>4, LeaveFacts DEF SessionInv, Leased
    <2>6. LedgerInv'
      BY <1>1, <2>1, <2>2 DEF LedgerInv, Outcomes
    <2> QED BY <1>1, <1>w, <2>3, <2>5, <2>6, LeaveFacts DEF IInv
  <1> QED BY <1>2, <1>3

\* The claim file is created and written.
LEMMA ClaimKeepsInv ==
  ASSUME IInv, NEW s \in Session, CreateClaim(s) \/ WriteClaim(s)
  PROVE  IInv'
  <1> DEFINE a == target[s]
             w == IF CreateClaim(s) THEN "claiming" ELSE "claimed"
             new == IF CreateClaim(s) THEN "torn" ELSE "valid"
  <1>1. /\ pc[s] \in {"approve_locked", "claiming"}
        /\ a \in Action /\ queueLock = s
        /\ status[a] = "proposed" /\ claim[a] # "valid"
    BY DEF CreateClaim, WriteClaim, IInv, TargetInv, LockInv, SessionInv, Unbound, Locked
  <1>2. /\ pc' = [pc EXCEPT ![s] = w] /\ claim' = [claim EXCEPT ![a] = new]
        /\ UNCHANGED <<queueLock, lease, status, review, authority, runs, target>>
    BY DEF CreateClaim, WriteClaim, Go
  <1>3. /\ w \in Locked /\ w \in Points /\ w \notin Leased
        /\ (w = "claiming" => new = "torn") /\ (w = "claimed" => new = "valid")
        /\ new \in {"torn", "valid"}
    BY DEF Locked, Points, Leased
  <1> HIDE DEF w, new
  <1>4. /\ pc' \in [Session -> Points] /\ pc'[s] = w
        /\ \A r \in Session : r # s => pc'[r] = pc[r]
        /\ claim' \in [Action -> {"none", "torn", "valid"}] /\ claim'[a] = new
        /\ \A b \in Action : b # a => claim'[b] = claim[b]
    BY <1>1, <1>2, <1>3 DEF IInv, TypeOK
  <1>5. TypeOK'
    BY <1>2, <1>4 DEF IInv, TypeOK
  <1>6. LockInv'
    BY <1>1, <1>2, <1>3, <1>4 DEF IInv, LockInv, Locked
  <1>7. LeaseInv'
    BY <1>1, <1>2, <1>3, <1>4 DEF IInv, LeaseInv, Leased
  <1>8. TargetInv'
    BY <1>1, <1>2, <1>4 DEF IInv, TargetInv
  <1>9. SessionInv'
    <2> SUFFICES ASSUME NEW r \in Session, r # s
                 PROVE  /\ pc[r] \notin {"claiming", "claimed"}
                        /\ pc[r] \in Leased => claim'[target[r]] = claim[target[r]]
      BY <1>1, <1>2, <1>3, <1>4 DEF IInv, SessionInv, Leased
    <2>1. pc[r] \notin Locked
      BY <1>1 DEF IInv, LockInv
    <2>2. pc[r] \in Leased => target[r] \in Action /\ target[r] # a
      BY <1>1 DEF IInv, SessionInv, TargetInv, Leased, Unbound
    <2> QED BY <2>1, <2>2, <1>4 DEF Locked
  <1>10. LedgerInv'
    BY <1>1, <1>2, <1>3, <1>4 DEF IInv, LedgerInv
  <1> QED BY <1>5, <1>6, <1>7, <1>8, <1>9, <1>10 DEF IInv

\* The lease is taken and the action saved as running.
LEMMA StartRunningKeepsInv ==
  ASSUME IInv, NEW s \in Session, StartRunning(s)
  PROVE  IInv'
  <1> DEFINE a == target[s]
  <1>1. /\ pc[s] = "claimed" /\ a \in Action /\ queueLock = s
        /\ status[a] = "proposed" /\ claim[a] = "valid" /\ lease[a] = None /\ runs[a] = 0
    BY DEF StartRunning, IInv, TargetInv, LockInv, LedgerInv, Unbound, Locked
  <1>2. /\ pc' = [pc EXCEPT ![s] = "predispatch"] /\ lease' = [lease EXCEPT ![a] = s]
        /\ status' = [status EXCEPT ![a] = "running"]
        /\ UNCHANGED <<queueLock, claim, review, authority, runs, target>>
    BY DEF StartRunning, Go, SetStatus
  <1>3. /\ pc' \in [Session -> Points] /\ pc'[s] = "predispatch"
        /\ \A r \in Session : r # s => pc'[r] = pc[r]
        /\ lease' \in [Action -> Session \cup {None}] /\ lease'[a] = s
        /\ \A b \in Action : b # a => lease'[b] = lease[b]
        /\ status' \in [Action -> Statuses] /\ status'[a] = "running"
        /\ \A b \in Action : b # a => status'[b] = status[b]
    <2>1. "predispatch" \in Points /\ "running" \in Statuses
      BY DEF Points, Locked, Statuses
    <2> QED BY <2>1, <1>1, <1>2 DEF IInv, TypeOK
  <1>4. TypeOK'
    BY <1>2, <1>3 DEF IInv, TypeOK
  <1>5. LockInv'
    BY <1>1, <1>2, <1>3 DEF IInv, LockInv, Locked
  <1>6. LeaseInv'
    <2> SUFFICES ASSUME NEW r \in Session, NEW b \in Action
                 PROVE  lease'[b] = r <=> pc'[r] \in Leased /\ target[r] = b
      BY <1>2 DEF LeaseInv
    <2>1. CASE r = s
      BY <2>1, <1>1, <1>3 DEF IInv, LeaseInv, Leased
    <2>2. CASE r # s
      BY <2>2, <1>1, <1>3, NoneIsNobody DEF IInv, LeaseInv
    <2> QED BY <2>1, <2>2
  <1>7. TargetInv'
    BY <1>1, <1>2, <1>3 DEF IInv, TargetInv
  <1>8. SessionInv'
    <2> SUFFICES ASSUME NEW r \in Session, r # s
                 PROVE  /\ pc[r] \notin {"claiming", "claimed"}
                        /\ pc[r] \in Leased => status'[target[r]] = status[target[r]]
      BY <1>1, <1>2, <1>3 DEF IInv, SessionInv, Leased
    <2>1. pc[r] \notin Locked
      BY <1>1 DEF IInv, LockInv
    <2>2. pc[r] \in Leased => target[r] \in Action /\ target[r] # a
      BY <1>1 DEF IInv, SessionInv, TargetInv, Leased, Unbound
    <2> QED BY <2>1, <2>2, <1>3 DEF Locked
  <1>9. LedgerInv'
    BY <1>1, <1>2, <1>3 DEF IInv, LedgerInv, Outcomes
  <1> QED BY <1>4, <1>5, <1>6, <1>7, <1>8, <1>9 DEF IInv

\* The queue lock is given back and the dispatch runs under the lease alone.
LEMMA DispatchKeepsInv ==
  ASSUME IInv, NEW s \in Session, PreDispatch(s) \/ Dispatch(s) \/ DispatchEnds(s)
  PROVE  IInv'
  <1> DEFINE a == target[s]
  <1>1. /\ pc[s] \in {"predispatch", "dispatch", "working"} /\ a \in Action /\ lease[a] = s
        /\ status[a] = "running" /\ claim[a] = "valid"
    BY DEF PreDispatch, Dispatch, DispatchEnds, IInv, TargetInv, LeaseInv, SessionInv,
           Unbound, Leased
  <1>2. PICK w \in {"dispatch", "working", "completed", "failed"} :
           /\ pc' = [pc EXCEPT ![s] = w]
           /\ pc[s] = "predispatch" <=> w = "dispatch"
           /\ pc[s] = "dispatch" <=> w = "working"
    BY <1>1 DEF PreDispatch, Dispatch, DispatchEnds, Go, Outcomes
  <1>3. /\ UNCHANGED <<lease, status, claim, review, authority, target>>
        /\ queueLock' = IF queueLock = s THEN None ELSE queueLock
    BY <1>1 DEF PreDispatch, Dispatch, DispatchEnds, Unlock, files, IInv, LockInv, Locked
  <1>4. /\ w = "dispatch" => UNCHANGED runs /\ runs[a] = 0
        /\ w = "working" => runs' = [runs EXCEPT ![a] = @ + 1] /\ runs[a] = 0
        /\ w \in {"completed", "failed"} => UNCHANGED runs /\ runs[a] = 1
    BY <1>1, <1>2 DEF PreDispatch, Dispatch, DispatchEnds, IInv, SessionInv, Leased
  <1>5. /\ runs' \in [Action -> Nat] /\ runs'[a] = IF w = "dispatch" THEN 0 ELSE 1
        /\ \A b \in Action : b # a => runs'[b] = runs[b]
    BY <1>1, <1>2, <1>4 DEF IInv, TypeOK
  <1>6. /\ pc' \in [Session -> Points] /\ pc'[s] = w /\ w \in Leased /\ w \notin Locked
        /\ \A r \in Session : r # s => pc'[r] = pc[r]
    <2>1. w \in Points /\ w \in Leased /\ w \notin Locked
      BY DEF Points, Leased, Locked
    <2> QED BY <2>1, <1>2 DEF IInv, TypeOK
  <1>7. TypeOK'
    BY <1>3, <1>5, <1>6 DEF IInv, TypeOK
  <1>8. LockInv'
    BY <1>3, <1>6, NoneIsNobody DEF IInv, LockInv
  <1>9. LeaseInv'
    BY <1>1, <1>3, <1>6 DEF IInv, LeaseInv, Leased
  <1>10. TargetInv'
    BY <1>1, <1>3, <1>6 DEF IInv, TargetInv
  <1>11. SessionInv'
    <2> SUFFICES ASSUME NEW r \in Session, r # s
                 PROVE  pc[r] \in Leased => runs'[target[r]] = runs[target[r]]
      BY <1>1, <1>2, <1>3, <1>5, <1>6 DEF IInv, SessionInv, Leased
    <2>1. pc[r] \in Leased => target[r] \in Action /\ target[r] # a
      BY <1>1 DEF IInv, LeaseInv, TargetInv, Leased, Unbound
    <2> QED BY <2>1, <1>5
  <1>12. LedgerInv'
    BY <1>1, <1>3, <1>5 DEF IInv, LedgerInv, Outcomes
  <1> QED BY <1>7, <1>8, <1>9, <1>10, <1>11, <1>12 DEF IInv

\* A rejection, which may go on to append the tests.
LEMMA RejectKeepsInv ==
  ASSUME IInv, NEW s \in Session, RejectAction(s)
  PROVE  IInv'
  <1> DEFINE a == target[s]
             w == IF a = Patch THEN "append" ELSE "next"
  <1>1. /\ pc[s] = "reject_locked" /\ a \in Action /\ queueLock = s
        /\ status[a] = "proposed" /\ claim[a] = "none" /\ runs[a] = 0
    BY DEF RejectAction, IInv, TargetInv, LockInv, LedgerInv, Unbound, Locked
  <1>2. /\ pc' = [pc EXCEPT ![s] = w] /\ status' = [status EXCEPT ![a] = "rejected"]
        /\ UNCHANGED <<lease, claim, review, authority, runs>> /\ queueLock' = None
        /\ target' = [target EXCEPT ![s] = IF a = Patch THEN Tests ELSE a]
    BY <1>1 DEF RejectAction, Go, SetStatus, Unlock
  <1>3. w \in Points /\ w \notin Locked \cup Leased
    BY DEF Points, Waiting, Locked, Leased
  <1> HIDE DEF w
  <1>4. /\ pc' \in [Session -> Points] /\ pc'[s] = w
        /\ \A r \in Session : r # s => pc'[r] = pc[r] /\ target'[r] = target[r]
        /\ target' \in [Session -> Action \cup {None}] /\ target'[s] \in Action
        /\ status' \in [Action -> Statuses] /\ status'[a] = "rejected"
        /\ \A b \in Action : b # a => status'[b] = status[b]
    <2>1. "rejected" \in Statuses
      BY DEF Statuses, Terminal
    <2> QED BY <2>1, <1>1, <1>2, <1>3, ActionsKnown DEF IInv, TypeOK
  <1>5. TypeOK'
    BY <1>2, <1>4 DEF IInv, TypeOK
  <1>6. LockInv'
    BY <1>1, <1>2, <1>3, <1>4, NoneIsNobody DEF IInv, LockInv
  <1>7. LeaseInv'
    BY <1>1, <1>2, <1>3, <1>4 DEF IInv, LeaseInv, Leased
  <1>8. TargetInv'
    BY <1>4 DEF IInv, TargetInv
  <1>9. SessionInv'
    <2> SUFFICES ASSUME NEW r \in Session, r # s
                 PROVE  /\ pc[r] \notin {"claiming", "claimed"}
                        /\ pc[r] \in Leased => status'[target[r]] = status[target[r]]
      BY <1>1, <1>2, <1>3, <1>4 DEF IInv, SessionInv, Leased, Locked
    <2>1. pc[r] \notin Locked
      BY <1>1 DEF IInv, LockInv
    <2>2. pc[r] \in Leased => target[r] \in Action /\ target[r] # a
      BY <1>1 DEF IInv, SessionInv, TargetInv, Leased, Unbound
    <2> QED BY <2>1, <2>2, <1>4 DEF Locked
  <1>10. LedgerInv'
    BY <1>1, <1>2, <1>4 DEF IInv, LedgerInv, Outcomes
  <1> QED BY <1>5, <1>6, <1>7, <1>8, <1>9, <1>10 DEF IInv

\* The authority files are replaced, or nothing happens.
LEMMA EnvironmentKeepsInv ==
  ASSUME IInv, ReplaceCharter \/ UNCHANGED vars
  PROVE  IInv'
  <1>1. UNCHANGED <<queueLock, lease, status, claim, review, runs, pc, target>>
    BY DEF ReplaceCharter, vars, files
  <1>2. authority' \in BOOLEAN
    BY DEF ReplaceCharter, vars, files, IInv, TypeOK
  <1>3. TypeOK'
    BY <1>1, <1>2 DEF IInv, TypeOK
  <1>4. LockInv' /\ LeaseInv' /\ TargetInv'
    BY <1>1 DEF IInv, LockInv, LeaseInv, TargetInv
  <1>5. SessionInv' /\ LedgerInv'
    BY <1>1 DEF IInv, SessionInv, LedgerInv
  <1> QED BY <1>3, <1>4, <1>5 DEF IInv

-----------------------------------------------------------------------------

\* Every step of the queue, its sessions and the faults keeps the inductive invariant.
THEOREM NextKeepsInv == IInv /\ [Next]_vars => IInv'
  <1> SUFFICES ASSUME IInv, [Next]_vars PROVE IInv'
    OBVIOUS
  <1>1. ASSUME NEW s \in Session, CodeStep(s) PROVE IInv'
    BY <1>1, LeavingKeepsInv, WanderingKeepsInv, SettlingKeepsInv, LockKeepsInv,
       InitializeKeepsInv, ClaimKeepsInv, StartRunningKeepsInv, DispatchKeepsInv,
       RejectKeepsInv DEF CodeStep
  <1>2. ASSUME NEW s \in Session, HumanStep(s) PROVE IInv'
    BY <1>2, HumanStepKeepsInv
  <1>3. ASSUME NEW s \in Session, Crash(s) PROVE IInv'
    BY <1>3, LeavingKeepsInv
  <1>4. CASE ReplaceCharter \/ UNCHANGED vars
    BY <1>4, EnvironmentKeepsInv
  <1> QED BY <1>1, <1>2, <1>3, <1>4 DEF Next

\* IInv is an invariant of the queue.
THEOREM Invariance == Spec => []IInv
  BY InitInv, NextKeepsInv, PTL DEF Spec

\* The variables of the queue keep their types.
THEOREM TypeCorrect == Spec => []TypeOK
  <1>1. IInv => TypeOK
    BY DEF IInv
  <1> QED BY <1>1, Invariance, PTL

\* approve_and_dispatch dispatches no action twice, whatever crashes, fails or races.
THEOREM AtMostOnce == Spec => []DispatchedAtMostOnce
  <1>1. IInv => DispatchedAtMostOnce
    BY DEF IInv, LedgerInv, DispatchedAtMostOnce
  <1> QED BY <1>1, Invariance, PTL

\* The statuses in action_queue.json tell truthfully which actions were dispatched.
THEOREM Truthful == Spec => []LedgerIsTruthful
  <1>1. IInv => LedgerIsTruthful
    BY DEF IInv, LedgerInv, LedgerIsTruthful
  <1> QED BY <1>1, Invariance, PTL

\* A running action has a valid claim, and a free lease or a settled status means that no
\* process is behind the action any more: the ground block_interrupted_action_checked
\* stands on.
THEOREM RecoverySound == Spec => []RecoveryIsSound
  <1>1. IInv => RecoveryIsSound
    <2> SUFFICES ASSUME IInv, NEW a \in Action, NEW s \in Session,
                        target[s] = a, pc[s] \in Leased
                 PROVE  status[a] \notin Terminal /\ lease[a] # None
      BY DEF IInv, LedgerInv, RecoveryIsSound
    <2>1. lease[a] = s /\ status[a] = "running"
      BY DEF IInv, LeaseInv, SessionInv
    <2> QED BY <2>1, NoneIsNobody DEF Terminal, Outcomes
  <1> QED BY <1>1, Invariance, PTL

-----------------------------------------------------------------------------
(* The order of the follow-ups.                                            *)

Turns == {"followup", "append", "append_locked"}

\* s owes the follow-up of the audit and has not said yet which one, or brings the patch.
AuditTurn(s) ==
    \/ pc[s] = "followup" /\ target[s] = Audit
    \/ pc[s] \in {"append", "append_locked"} /\ target[s] = Patch

\* s brings the tests.
TestsTurn(s) == pc[s] \in {"append", "append_locked"} /\ target[s] = Tests

\* What a session in the middle of _append_followups_if_needed knows about the queue.
TurnInv(s) ==
    /\ pc[s] \in {"append", "append_locked"} => target[s] \in {Patch, Tests}
    /\ pc[s] = "followup" => status[target[s]] = "completed"
    /\ AuditTurn(s) =>
          status[Audit] = "completed" /\ status[Patch] = "absent" /\ status[Tests] = "absent"
    /\ TestsTurn(s) =>
          status[Audit] = "completed" /\ status[Patch] \in {"absent", "completed", "rejected"}

\* The audit completes once, so its follow-up is in one hand: this is why the tests cannot
\* overtake a patch that is still on its way.
OneHand == \A s, r \in Session : AuditTurn(s) => ~TestsTurn(r) /\ (AuditTurn(r) => r = s)

OrderInv == FollowupsInOrder /\ (\A s \in Session : TurnInv(s)) /\ OneHand

\* Everyone but s is where it was.
Others(s) == \A r \in Session : r # s => pc'[r] = pc[r] /\ target'[r] = target[r]

\* A step after which s has no follow-up in hand, and which moves at most one listed and
\* unsettled action.
LEMMA MoveKeepsOrder ==
  ASSUME IInv, OrderInv, NEW s \in Session, Others(s), pc'[s] \notin Turns,
         NEW a \in Action,
         \A b \in Action : b # a => status'[b] = status[b],
         status'[a] = status[a] \/ (status[a] \in {"proposed", "running"} /\ status'[a] # "absent")
  PROVE  OrderInv'
  <1>a. {Audit, Patch, Tests} \subseteq Action /\ Audit # Patch /\ Audit # Tests /\ Patch # Tests
    BY ActionsKnown, FollowupsAreNew
  <1>1. FollowupsInOrder'
    BY <1>a DEF OrderInv, FollowupsInOrder
  <1>2. ASSUME NEW r \in Session, r # s
        PROVE  /\ TurnInv(r)'
               /\ AuditTurn(r)' <=> AuditTurn(r)
               /\ TestsTurn(r)' <=> TestsTurn(r)
    <2>1. pc'[r] = pc[r] /\ target'[r] = target[r] /\ TurnInv(r)
      BY <1>2 DEF Others, OrderInv
    <2>2. pc[r] = "followup" => target[r] \in Action
      BY DEF IInv, TargetInv, Unbound
    <2> QED BY <1>a, <2>1, <2>2 DEF TurnInv, AuditTurn, TestsTurn
  <1>3. TurnInv(s)' /\ ~AuditTurn(s)' /\ ~TestsTurn(s)'
    BY DEF TurnInv, AuditTurn, TestsTurn, Turns
  <1>4. OneHand'
    BY <1>2, <1>3 DEF OrderInv, OneHand
  <1> QED BY <1>1, <1>2, <1>3, <1>4 DEF OrderInv

\* The same when the queue is left alone.
LEMMA QuietKeepsOrder ==
  ASSUME IInv, OrderInv, NEW s \in Session, Others(s), pc'[s] \notin Turns, UNCHANGED status
  PROVE  OrderInv'
  <1>1. Audit \in Action
    BY ActionsKnown
  <1> QED BY <1>1, MoveKeepsOrder

\* Going and leaving move only the session itself.
LEMMA OnlyMe ==
  ASSUME IInv, NEW s \in Session, NEW w,
         Go(s, w),
         \/ UNCHANGED target
         \/ \E x : target' = [target EXCEPT ![s] = x]
  PROVE  Others(s) /\ pc'[s] = w
  BY DEF IInv, TypeOK, Go, Others

LEMMA OnlyMeLeaves ==
  ASSUME IInv, NEW s \in Session, NEW w, Leave(s, w)
  PROVE  Others(s) /\ pc'[s] = w
  BY DEF IInv, TypeOK, Go, Leave, Others

\* Steps that neither touch the queue file nor take a follow-up in hand.
LEMMA QuietStepsKeepOrder ==
  ASSUME IInv, OrderInv, NEW s \in Session,
         \/ HumanStep(s) \/ Crash(s) \/ LockTimeout(s) \/ InitializeRaises(s)
         \/ CreateClaim(s) \/ ApproveRaises(s) \/ WriteClaim(s) \/ WriteClaimRaises(s)
         \/ StartRaises(s) \/ PreDispatch(s) \/ Dispatch(s) \/ DispatchEnds(s)
         \/ FinishRaises(s) \/ AppendRaises(s) \/ RejectRaises(s) \/ BlockRaises(s)
         \/ AfterAction(s) \/ LoadForReview(s) \/ ReviewGate(s)
         \/ TruncateReview(s) \/ WriteReview(s) \/ WriteReviewRaises(s)
  PROVE  OrderInv'
  <1> USE DEF files
  <1>l. ASSUME NEW w \in {"off", "loop", "truncate"}, Leave(s, w), UNCHANGED status
        PROVE  OrderInv'
    BY <1>l, OnlyMeLeaves, QuietKeepsOrder DEF Turns
  <1>g. ASSUME NEW w, w \notin Turns, Go(s, w), UNCHANGED status,
               UNCHANGED target \/ \E x : target' = [target EXCEPT ![s] = x]
        PROVE  OrderInv'
    BY <1>g, OnlyMe, QuietKeepsOrder
  <1>1. CASE HumanStep(s)
    <2>1. CASE Open(s)
      BY <2>1, <1>g DEF Open, Turns
    <2>2. CASE Prompt(s)
      BY <2>2, <1>g DEF Prompt, Turns
    <2>3. CASE TypePhrase(s)
      BY <2>3, <1>g DEF TypePhrase, Turns
    <2>4. CASE TypeOther(s)
      BY <2>4, <1>g DEF TypeOther, Turns
    <2>5. CASE StartRecovery(s)
      BY <2>5, <1>g DEF StartRecovery, Turns
    <2> QED BY <1>1, <2>1, <2>2, <2>3, <2>4, <2>5 DEF HumanStep
  <1>2. CASE Crash(s)
    BY <1>2, <1>l DEF Crash
  <1>3. CASE LockTimeout(s)
    BY <1>3, <1>l DEF LockTimeout
  <1>4. CASE InitializeRaises(s) \/ ApproveRaises(s) \/ WriteClaimRaises(s) \/ StartRaises(s)
    BY <1>4, <1>l DEF InitializeRaises, ApproveRaises, WriteClaimRaises, StartRaises
  <1>5. CASE FinishRaises(s) \/ AppendRaises(s) \/ RejectRaises(s) \/ BlockRaises(s)
    BY <1>5, <1>l DEF FinishRaises, AppendRaises, RejectRaises, BlockRaises
  <1>6. CASE ReviewGate(s)
    BY <1>6, <1>l DEF ReviewGate
  <1>7. CASE WriteReview(s) \/ WriteReviewRaises(s)
    BY <1>7, <1>l DEF WriteReview, WriteReviewRaises
  <1>8. CASE CreateClaim(s) \/ WriteClaim(s)
    BY <1>8, <1>g DEF CreateClaim, WriteClaim, Turns
  <1>9. CASE PreDispatch(s) \/ Dispatch(s)
    BY <1>9, <1>g DEF PreDispatch, Dispatch, Turns
  <1>10. CASE DispatchEnds(s)
    BY <1>10, <1>g DEF DispatchEnds, Turns, Outcomes
  <1>11. CASE AfterAction(s)
    BY <1>11, <1>g DEF AfterAction, Turns
  <1>12. CASE LoadForReview(s)
    BY <1>12, <1>g DEF LoadForReview, Turns
  <1>13. CASE TruncateReview(s)
    BY <1>13, <1>g DEF TruncateReview, Turns
  <1> QED BY <1>1, <1>2, <1>3, <1>4, <1>5, <1>6, <1>7, <1>8, <1>9, <1>10, <1>11, <1>12, <1>13

\* Steps that settle or start an action, without taking a follow-up in hand.
LEMMA MovingStepsKeepOrder ==
  ASSUME IInv, OrderInv, NEW s \in Session,
         \/ StartRunning(s) \/ PreDispatchFails(s) \/ BlockInterrupted(s)
         \/ FinishAction(s) /\ pc[s] = "failed_locked"
         \/ RejectAction(s) /\ target[s] # Patch
  PROVE  OrderInv'
  <1> DEFINE a == target[s]
  <1>1. pc[s] \in {"claimed", "predispatch", "recover_locked", "failed_locked", "reject_locked"}
    BY DEF StartRunning, PreDispatchFails, BlockInterrupted, RejectAction
  <1>2. a \in Action
    BY <1>1 DEF IInv, TargetInv, Unbound
  <1>3. \/ UNCHANGED status
        \/ \E new \in {"running", "blocked", "failed", "rejected"} :
              SetStatus(a, new) /\ status[a] \in {"proposed", "running"}
    <2>1. CASE StartRunning(s)
      BY <2>1 DEF StartRunning
    <2>2. CASE PreDispatchFails(s)
      BY <2>2 DEF PreDispatchFails
    <2>3. CASE BlockInterrupted(s)
      BY <2>3 DEF BlockInterrupted
    <2>4. CASE FinishAction(s) /\ pc[s] = "failed_locked"
      BY <2>4 DEF FinishAction, OutcomeOf
    <2>5. CASE RejectAction(s)
      BY <2>5 DEF RejectAction
    <2> QED BY <2>1, <2>2, <2>3, <2>4, <2>5
  <1>4. /\ \A b \in Action : b # a => status'[b] = status[b]
        /\ status'[a] = status[a] \/ (status[a] \in {"proposed", "running"} /\ status'[a] # "absent")
    BY <1>2, <1>3 DEF SetStatus, IInv, TypeOK
  <1>5. \E w \in {"predispatch", "loop", "off", "next"} :
           \/ Leave(s, w)
           \/ Go(s, w) /\ (UNCHANGED target \/ \E x : target' = [target EXCEPT ![s] = x])
    <2>1. CASE StartRunning(s)
      BY <2>1 DEF StartRunning
    <2>2. CASE PreDispatchFails(s)
      BY <2>2 DEF PreDispatchFails
    <2>3. CASE BlockInterrupted(s)
      BY <2>3 DEF BlockInterrupted
    <2>4. CASE FinishAction(s) /\ pc[s] = "failed_locked"
      BY <2>4 DEF FinishAction
    <2>5. CASE RejectAction(s) /\ target[s] # Patch
      BY <2>5 DEF RejectAction
    <2> QED BY <2>1, <2>2, <2>3, <2>4, <2>5
  <1>6. Others(s) /\ pc'[s] \notin Turns
    BY <1>5, OnlyMe, OnlyMeLeaves DEF Turns
  <1> HIDE DEF a
  <1> QED BY <1>2, <1>4, <1>6, MoveKeepsOrder

\* The first initialisation lists no follow-up, and finds nobody with one in hand.
LEMMA InitializeKeepsOrder ==
  ASSUME IInv, OrderInv, NEW s \in Session, InitializeQueue(s)
  PROVE  OrderInv'
  <1>a. {Audit, Patch, Tests} \subseteq Action /\ Audit # Patch /\ Audit # Tests /\ Patch # Tests
    BY ActionsKnown, FollowupsAreNew
  <1>1. Others(s) /\ pc'[s] \notin Turns
    BY OnlyMeLeaves DEF InitializeQueue, Turns
  <1>2. CASE Listed
    BY <1>1, <1>2, QuietKeepsOrder DEF InitializeQueue
  <1>3. CASE ~Listed
    <2>1. \A b \in Action : status[b] = "absent"
      BY <1>3 DEF Listed
    <2>2. status'[Patch] = "absent" /\ status'[Tests] = "absent"
      BY <1>3, <1>a, <2>1, FollowupsAreNew DEF InitializeQueue
    <2>3. ASSUME NEW r \in Session PROVE pc[r] \notin Turns
      <3>1. pc[r] \in Turns => target[r] \in Action
        BY DEF IInv, TargetInv, Unbound, Turns
      <3> QED BY <1>a, <2>1, <3>1 DEF OrderInv, TurnInv, AuditTurn, TestsTurn, Turns
    <2>4. \A r \in Session : pc'[r] \notin Turns
      BY <1>1, <2>3 DEF Others
    <2>5. FollowupsInOrder'
      BY <2>2 DEF FollowupsInOrder
    <2>6. \A r \in Session : TurnInv(r)' /\ ~AuditTurn(r)' /\ ~TestsTurn(r)'
      BY <2>4 DEF TurnInv, AuditTurn, TestsTurn, Turns
    <2> QED BY <2>5, <2>6 DEF OrderInv, OneHand
  <1> QED BY <1>2, <1>3

\* A completed action: nobody else can have its follow-ups in hand, it was running until now.
LEMMA CompletionKeepsOrder ==
  ASSUME IInv, OrderInv, NEW s \in Session, FinishAction(s), pc[s] = "completed_locked"
  PROVE  OrderInv'
  <1> DEFINE a == target[s]
  <1>a. {Audit, Patch, Tests} \subseteq Action /\ Audit # Patch /\ Audit # Tests /\ Patch # Tests
    BY ActionsKnown, FollowupsAreNew
  <1>1. a \in Action /\ status[a] = "running"
    BY DEF FinishAction, IInv, TargetInv, Unbound
  <1>2. Leave(s, "followup") /\ status' = [status EXCEPT ![a] = "completed"]
    BY DEF FinishAction, OutcomeOf, SetStatus
  <1>3. Others(s) /\ pc'[s] = "followup" /\ target'[s] = a
    BY <1>2, OnlyMeLeaves DEF Leave, IInv, TypeOK
  <1>4. status'[a] = "completed" /\ \A b \in Action : b # a => status'[b] = status[b]
    BY <1>1, <1>2 DEF IInv, TypeOK
  <1> HIDE DEF a
  <1>5. FollowupsInOrder'
    BY <1>1, <1>4, <1>a DEF OrderInv, FollowupsInOrder
  <1>6. ASSUME NEW r \in Session, r # s
        PROVE  /\ TurnInv(r)'
               /\ AuditTurn(r)' <=> AuditTurn(r)
               /\ TestsTurn(r)' <=> TestsTurn(r)
    <2>1. pc'[r] = pc[r] /\ target'[r] = target[r] /\ TurnInv(r)
      BY <1>3, <1>6 DEF Others, OrderInv
    <2>2. pc[r] = "followup" => target[r] \in Action
      BY DEF IInv, TargetInv, Unbound
    <2> QED BY <1>1, <1>4, <1>a, <2>1, <2>2 DEF TurnInv, AuditTurn, TestsTurn
  <1>7. ~TestsTurn(s)' /\ (AuditTurn(s)' <=> a = Audit)
    BY <1>3 DEF AuditTurn, TestsTurn
  <1>8. a = Audit => status[Patch] = "absent" /\ status[Tests] = "absent"
    BY <1>1 DEF OrderInv, FollowupsInOrder
  <1>9. TurnInv(s)'
    BY <1>3, <1>4, <1>7, <1>8, <1>a DEF TurnInv
  <1>10. ASSUME a = Audit, NEW r \in Session PROVE ~AuditTurn(r) /\ ~TestsTurn(r)
    BY <1>1, <1>10 DEF OrderInv, TurnInv
  <1>11. OneHand'
    BY <1>6, <1>7, <1>10 DEF OrderInv, OneHand
  <1> QED BY <1>5, <1>6, <1>9, <1>11 DEF OrderInv

\* Choosing the follow-up, waiting for the queue lock with it, and rejecting the patch.
LEMMA TurningKeepsOrder ==
  ASSUME IInv, OrderInv, NEW s \in Session,
         \/ Followup(s) \/ Lock(s)
         \/ RejectAction(s) /\ target[s] = Patch
  PROVE  OrderInv'
  <1>a. {Audit, Patch, Tests} \subseteq Action /\ Audit # Patch /\ Audit # Tests /\ Patch # Tests
    BY ActionsKnown, FollowupsAreNew
  <1> USE DEF files
  <1>1. CASE Lock(s)
    <2>1. pc[s] \in Waiting /\ Go(s, Inside[pc[s]]) /\ UNCHANGED <<status, target>>
      BY <1>1 DEF Lock
    <2>2. Others(s) /\ pc'[s] = Inside[pc[s]]
      BY <2>1, OnlyMe
    <2>3. CASE pc[s] # "append"
      <3>1. Inside[pc[s]] \notin Turns
        BY <2>1, <2>3 DEF Waiting, Inside, Turns
      <3> QED BY <2>1, <2>2, <3>1, QuietKeepsOrder
    <2>4. CASE pc[s] = "append"
      <3>1. pc'[s] = "append_locked"
        BY <2>2, <2>4 DEF Waiting, Inside
      <3>2. \A r \in Session : /\ AuditTurn(r)' <=> AuditTurn(r)
                               /\ TestsTurn(r)' <=> TestsTurn(r)
        BY <2>1, <2>2, <2>4, <3>1 DEF AuditTurn, TestsTurn, Others
      <3>3. \A r \in Session : TurnInv(r)'
        BY <2>1, <2>2, <2>4, <3>1, <3>2 DEF OrderInv, TurnInv, Others
      <3> QED BY <2>1, <3>2, <3>3 DEF OrderInv, OneHand, FollowupsInOrder
    <2> QED BY <2>3, <2>4
  <1>2. CASE Followup(s)
    <2>1. pc[s] = "followup" /\ UNCHANGED status /\ TurnInv(s)
      BY <1>2 DEF Followup, OrderInv
    <2>2. CASE Go(s, "next") /\ UNCHANGED target
      BY <2>1, <2>2, OnlyMe, QuietKeepsOrder DEF Turns
    <2>3. CASE \E f \in FollowupsOf(target[s]) :
                  target' = [target EXCEPT ![s] = f] /\ Go(s, "append")
      <3>1. PICK f \in FollowupsOf(target[s]) :
               target' = [target EXCEPT ![s] = f] /\ Go(s, "append")
        BY <2>3
      <3>2. Others(s) /\ pc'[s] = "append" /\ target'[s] = f
        BY <3>1, OnlyMe DEF IInv, TypeOK
      <3>3. \/ target[s] = Audit /\ f \in {Patch, Tests}
            \/ target[s] = Patch /\ f = Tests
        BY <3>1 DEF FollowupsOf
      <3>4. \A r \in Session : r # s => /\ AuditTurn(r)' <=> AuditTurn(r)
                                        /\ TestsTurn(r)' <=> TestsTurn(r)
                                        /\ TurnInv(r)'
        BY <2>1, <3>2 DEF AuditTurn, TestsTurn, TurnInv, Others, OrderInv
      <3>5. CASE target[s] = Audit
        <4>1. AuditTurn(s) /\ status[Audit] = "completed" /\ status[Patch] = "absent"
              /\ status[Tests] = "absent"
          BY <2>1, <3>5 DEF AuditTurn, TurnInv
        <4>2. \A r \in Session : r # s => ~AuditTurn(r) /\ ~TestsTurn(r)
          BY <4>1 DEF OrderInv, OneHand
        <4>3. TurnInv(s)'
          BY <2>1, <3>2, <3>3, <3>5, <4>1, <1>a DEF TurnInv, AuditTurn, TestsTurn
        <4>4. ~(AuditTurn(s)' /\ TestsTurn(s)')
          BY <3>2, <1>a DEF AuditTurn, TestsTurn
        <4>5. OneHand'
          BY <3>4, <4>2, <4>4 DEF OneHand
        <4> QED BY <2>1, <3>4, <4>3, <4>5 DEF OrderInv, FollowupsInOrder
      <3>6. CASE target[s] = Patch
        <4>1. f = Tests /\ status[Patch] = "completed" /\ status[Audit] = "completed"
          BY <2>1, <3>3, <3>6, <1>a DEF TurnInv, OrderInv, FollowupsInOrder
        <4>2. ~AuditTurn(s)' /\ TurnInv(s)'
          BY <2>1, <3>2, <4>1, <1>a DEF TurnInv, AuditTurn, TestsTurn
        <4>3. \A r \in Session : ~AuditTurn(r)
          BY <4>1 DEF OrderInv, TurnInv
        <4>4. OneHand'
          BY <3>4, <4>2, <4>3 DEF OneHand
        <4> QED BY <2>1, <3>4, <4>2, <4>4 DEF OrderInv, FollowupsInOrder
      <3> QED BY <3>3, <3>5, <3>6
    <2> QED BY <1>2, <2>2, <2>3 DEF Followup
  <1>3. CASE RejectAction(s) /\ target[s] = Patch
    <2>1. /\ pc[s] = "reject_locked" /\ status[Patch] = "proposed"
          /\ status' = [status EXCEPT ![Patch] = "rejected"]
          /\ Go(s, "append") /\ target' = [target EXCEPT ![s] = Tests]
      BY <1>3 DEF RejectAction, SetStatus
    <2>2. Others(s) /\ pc'[s] = "append" /\ target'[s] = Tests
      BY <2>1, OnlyMe DEF IInv, TypeOK
    <2>3. status'[Patch] = "rejected" /\ \A b \in Action : b # Patch => status'[b] = status[b]
      BY <2>1, <1>a DEF IInv, TypeOK
    <2>4. status[Audit] = "completed" /\ status[Tests] = "absent"
      BY <2>1 DEF OrderInv, FollowupsInOrder
    <2>5. \A r \in Session : ~AuditTurn(r) /\ ~TestsTurn(r)
      BY <2>1 DEF OrderInv, TurnInv
    <2>6. FollowupsInOrder'
      BY <2>3, <2>4, <1>a DEF FollowupsInOrder
    <2>7. ASSUME NEW r \in Session, r # s PROVE TurnInv(r)' /\ ~AuditTurn(r)'
      <3>1. pc'[r] = pc[r] /\ target'[r] = target[r] /\ TurnInv(r)
        BY <2>2, <2>7 DEF Others, OrderInv
      <3>2. pc[r] = "followup" => target[r] \in Action
        BY DEF IInv, TargetInv, Unbound
      <3> QED BY <2>1, <2>3, <2>5, <3>1, <3>2, <1>a DEF TurnInv, AuditTurn, TestsTurn
    <2>8. TurnInv(s)' /\ ~AuditTurn(s)'
      BY <2>2, <2>3, <2>4, <1>a DEF TurnInv, AuditTurn, TestsTurn
    <2> QED BY <2>6, <2>7, <2>8 DEF OrderInv, OneHand
  <1> QED BY <1>1, <1>2, <1>3

\* A follow-up enters the queue: the patch before any tests, or the tests after the patch.
LEMMA AppendKeepsOrder ==
  ASSUME IInv, OrderInv, NEW s \in Session, AppendAction(s)
  PROVE  OrderInv'
  <1> DEFINE a == target[s]
  <1>a. {Audit, Patch, Tests} \subseteq Action /\ Audit # Patch /\ Audit # Tests /\ Patch # Tests
    BY ActionsKnown, FollowupsAreNew
  <1>1. pc[s] = "append_locked" /\ TurnInv(s) /\ a \in {Patch, Tests} /\ a \in Action
    BY <1>a DEF AppendAction, OrderInv, TurnInv
  <1>2. Others(s) /\ pc'[s] \notin Turns
    BY OnlyMeLeaves DEF AppendAction, Turns
  <1>3. CASE UNCHANGED status
    BY <1>2, <1>3, QuietKeepsOrder
  <1>4. CASE status[a] = "absent" /\ SetStatus(a, "proposed")
    <2>1. status'[a] = "proposed" /\ \A b \in Action : b # a => status'[b] = status[b]
      BY <1>1, <1>4 DEF SetStatus, IInv, TypeOK
    <2>2. FollowupsInOrder'
      BY <1>1, <1>4, <2>1, <1>a
      DEF OrderInv, TurnInv, AuditTurn, TestsTurn, FollowupsInOrder
    <2>3. \A r \in Session : r # s => ~AuditTurn(r)
      BY <1>1 DEF OrderInv, OneHand, AuditTurn, TestsTurn
    <2>4. ASSUME NEW r \in Session, r # s PROVE TurnInv(r)' /\ ~AuditTurn(r)'
      <3>1. pc'[r] = pc[r] /\ target'[r] = target[r] /\ TurnInv(r)
        BY <1>2, <2>4 DEF Others, OrderInv
      <3>2. pc[r] = "followup" => target[r] \in Action /\ target[r] # a
        BY <1>4, <3>1 DEF IInv, TargetInv, Unbound, TurnInv
      <3>3. TestsTurn(r) => a # Patch
        BY <1>1, <1>a DEF OrderInv, OneHand, AuditTurn
      <3> QED BY <1>1, <2>1, <2>3, <2>4, <3>1, <3>2, <3>3, <1>a
           DEF TurnInv, AuditTurn, TestsTurn
    <2>5. TurnInv(s)' /\ ~AuditTurn(s)'
      BY <1>2 DEF TurnInv, AuditTurn, TestsTurn, Turns
    <2> QED BY <2>2, <2>4, <2>5 DEF OrderInv, OneHand
  <1> QED BY <1>3, <1>4 DEF AppendAction

\* Follow-ups enter the queue in the order of _append_followups_if_needed, from however many
\* terminals: no patch without a completed audit, no tests beside an unsettled patch.
THEOREM FollowupOrder == Spec => []FollowupsInOrder
  <1>1. Init => OrderInv
    <2> SUFFICES ASSUME Init PROVE OrderInv
      OBVIOUS
    <2>1. \A s \in Session : pc[s] \notin Turns
      BY DEF Init, Turns
    <2>2. FollowupsInOrder
      BY ActionsKnown DEF Init, FollowupsInOrder
    <2> QED BY <2>1, <2>2 DEF OrderInv, TurnInv, OneHand, AuditTurn, TestsTurn, Turns
  <1>2. IInv /\ OrderInv /\ [Next]_vars => OrderInv'
    <2> SUFFICES ASSUME IInv, OrderInv, [Next]_vars PROVE OrderInv'
      OBVIOUS
    <2>1. ASSUME NEW s \in Session, CodeStep(s) PROVE OrderInv'
      <3>1. FinishAction(s) => pc[s] \in {"completed_locked", "failed_locked"}
        BY DEF FinishAction
      <3> QED BY <2>1, <3>1, QuietStepsKeepOrder, MovingStepsKeepOrder, InitializeKeepsOrder,
                 CompletionKeepsOrder, TurningKeepsOrder, AppendKeepsOrder DEF CodeStep
    <2>2. ASSUME NEW s \in Session, HumanStep(s) \/ Crash(s) PROVE OrderInv'
      BY <2>2, QuietStepsKeepOrder
    <2>3. CASE ReplaceCharter \/ UNCHANGED vars
      <3>1. UNCHANGED <<status, pc, target>>
        BY <2>3 DEF ReplaceCharter, vars, files
      <3> QED BY <3>1
           DEF OrderInv, FollowupsInOrder, TurnInv, OneHand, AuditTurn, TestsTurn
    <2> QED BY <2>1, <2>2, <2>3 DEF Next
  <1>3. OrderInv => FollowupsInOrder
    BY DEF OrderInv
  <1> QED BY <1>1, <1>2, <1>3, Invariance, PTL DEF Spec

-----------------------------------------------------------------------------

\* Steps that leave queue and effects alone are stutters of the ledger; the others are its
\* moves.
LEMMA StepSimulates ==
  ASSUME IInv, NEW s \in Session, CodeStep(s) \/ HumanStep(s) \/ Crash(s)
  PROVE  [Ledger!LedgerNext]_<<status, runs>>
  <1> DEFINE a == target[s]
  <1> USE DEF files
  <1>q. ASSUME UNCHANGED <<status, runs>>
        PROVE  [Ledger!LedgerNext]_<<status, runs>>
    BY <1>q
  <1>m. ASSUME NEW from, NEW to, a \in Action, status[a] = from, SetStatus(a, to),
               UNCHANGED runs,
               \/ <<from, to>> = <<"proposed", "rejected">>
               \/ <<from, to>> = <<"proposed", "running">>
               \/ <<from, to>> = <<"proposed", "blocked">>
               \/ <<from, to>> = <<"running", "blocked">>
               \/ from = "running" /\ to \in {"completed", "failed"} /\ runs[a] = 1
        PROVE  [Ledger!LedgerNext]_<<status, runs>>
    BY <1>m DEF Ledger!LedgerNext, Ledger!Move, Ledger!Outcomes, SetStatus
  <1>b. pc[s] \notin Unbound => a \in Action
    BY DEF IInv, TargetInv
  <1>1. CASE HumanStep(s)
    BY <1>1, <1>q DEF HumanStep, Open, Prompt, TypePhrase, TypeOther, StartRecovery
  <1>2. CASE Crash(s)
    BY <1>2, <1>q DEF Crash
  <1>3. CASE \/ Lock(s) \/ LockTimeout(s) \/ InitializeRaises(s) \/ ApproveRaises(s)
             \/ WriteClaimRaises(s) \/ StartRaises(s) \/ FinishRaises(s) \/ AppendRaises(s)
             \/ RejectRaises(s) \/ BlockRaises(s)
    BY <1>3, <1>q DEF Lock, LockTimeout, InitializeRaises, ApproveRaises, WriteClaimRaises,
       StartRaises, FinishRaises, AppendRaises, RejectRaises, BlockRaises
  <1>4. CASE \/ CreateClaim(s) \/ WriteClaim(s) \/ PreDispatch(s) \/ DispatchEnds(s)
             \/ Followup(s) \/ AfterAction(s) \/ LoadForReview(s) \/ ReviewGate(s)
             \/ TruncateReview(s) \/ WriteReview(s) \/ WriteReviewRaises(s)
    BY <1>4, <1>q DEF CreateClaim, WriteClaim, PreDispatch, DispatchEnds, Followup,
       AfterAction, LoadForReview, ReviewGate, TruncateReview, WriteReview, WriteReviewRaises
  <1>5. CASE InitializeQueue(s)
    <2>1. CASE Listed
      BY <1>5, <2>1, <1>q DEF InitializeQueue
    <2>2. CASE ~Listed
      <3> DEFINE S == {b \in Action : \E i \in 1..Len(Initial) : Initial[i] = b}
      <3>1. \A b \in Action : status[b] = "absent"
        BY <2>2 DEF Listed
      <3>2. S \in SUBSET {b \in Action : status[b] = "absent"}
        BY <3>1
      <3>3. status' = [b \in Action |-> IF b \in S THEN "proposed" ELSE status[b]]
        BY <1>5, <2>2 DEF InitializeQueue
      <3>4. UNCHANGED runs
        BY <1>5 DEF InitializeQueue
      <3> HIDE DEF S
      <3>5. Ledger!Propose
        BY <3>2, <3>3, <3>4 DEF Ledger!Propose
      <3> QED BY <3>5 DEF Ledger!LedgerNext
    <2> QED BY <2>1, <2>2
  <1>6. CASE StartRunning(s)
    BY <1>6, <1>m, <1>b DEF StartRunning, Unbound
  <1>7. CASE PreDispatchFails(s)
    BY <1>7, <1>m, <1>q, <1>b DEF PreDispatchFails, Unbound
  <1>8. CASE Dispatch(s)
    <2>1. a \in Action /\ status[a] = "running" /\ runs[a] = 0
      BY <1>8, <1>b DEF Dispatch, Unbound, IInv, SessionInv, Leased
    <2>2. runs' = [runs EXCEPT ![a] = 1] /\ UNCHANGED status
      BY <1>8, <2>1 DEF Dispatch, IInv, TypeOK
    <2>3. Ledger!Work(a)
      BY <2>1, <2>2 DEF Ledger!Work
    <2> QED BY <2>1, <2>3 DEF Ledger!LedgerNext
  <1>9. CASE FinishAction(s)
    <2>1. /\ a \in Action /\ status[a] = "running" /\ runs[a] = 1 /\ UNCHANGED runs
          /\ SetStatus(a, OutcomeOf(pc[s]))
      BY <1>9, <1>b DEF FinishAction, Unbound, IInv, SessionInv, Leased
    <2>2. OutcomeOf(pc[s]) \in {"completed", "failed"}
      BY DEF OutcomeOf
    <2> QED BY <2>1, <2>2, <1>m
  <1>10. CASE AppendAction(s)
    <2>1. CASE UNCHANGED status
      BY <1>10, <2>1, <1>q DEF AppendAction
    <2>2. CASE status[a] = "absent" /\ SetStatus(a, "proposed")
      <3>1. a \in Action /\ UNCHANGED runs
        BY <1>10, <1>b DEF AppendAction, Unbound
      <3>2. status' = [b \in Action |-> IF b \in {a} THEN "proposed" ELSE status[b]]
        BY <2>2 DEF SetStatus, IInv, TypeOK
      <3>3. {a} \in SUBSET {b \in Action : status[b] = "absent"}
        BY <2>2, <3>1
      <3> QED BY <3>1, <3>2, <3>3 DEF Ledger!LedgerNext, Ledger!Propose
    <2> QED BY <1>10, <2>1, <2>2 DEF AppendAction
  <1>11. CASE RejectAction(s)
    BY <1>11, <1>m, <1>b DEF RejectAction, Unbound
  <1>12. CASE BlockInterrupted(s)
    BY <1>12, <1>m, <1>b DEF BlockInterrupted, Unbound
  <1> QED BY <1>1, <1>2, <1>3, <1>4, <1>5, <1>6, <1>7, <1>8, <1>9, <1>10, <1>11, <1>12
       DEF CodeStep

\* The action queue implements the ledger: one-way statuses, at most one effect, and only
\* while the action is listed as running.
THEOREM Refinement == Spec => ImplementsLedger
  <1>1. Init => Ledger!LedgerInit
    BY DEF Init, Ledger!LedgerInit
  <1>2. IInv /\ [Next]_vars => [Ledger!LedgerNext]_<<status, runs>>
    <2> SUFFICES ASSUME IInv, [Next]_vars PROVE [Ledger!LedgerNext]_<<status, runs>>
      OBVIOUS
    <2>1. CASE \E s \in Session : CodeStep(s) \/ HumanStep(s) \/ Crash(s)
      BY <2>1, StepSimulates
    <2>2. CASE ReplaceCharter \/ UNCHANGED vars
      BY <2>2 DEF ReplaceCharter, vars, files
    <2> QED BY <2>1, <2>2 DEF Next
  <1> QED BY <1>1, <1>2, Invariance, PTL DEF Spec, ImplementsLedger, Ledger!LedgerSpec
=============================================================================
