------------------------- MODULE DurableExecutorRefinement -------------------------
(***************************************************************************)
(* What a step of the executor may never do, and that the executor         *)
(* implements AtMostOnceSubmission.  Every step is first put into one of   *)
(* six kinds, by what it does to the intent rows and the orders; the       *)
(* theorems then go through the kinds and not through the actions.         *)
(***************************************************************************)
EXTENDS DurableExecutorProofs

USE DEF store, leases, local, operator

\* Nothing is decided and nothing is sent.
QuietKind ==
    /\ UNCHANGED <<status, orderId, audit>>
    /\ \A a \in Attempts : order'[a] # "NONE" <=> order[a] # "NONE"

ClaimKind(a) ==
    /\ status[IntentOf[a]] = "ABSENT"
    /\ status' = [status EXCEPT ![IntentOf[a]] = "PENDING"]
    /\ orderId' = [orderId EXCEPT ![IntentOf[a]] = Null]
    /\ UNCHANGED <<order, audit>>

SendKind(a) ==
    /\ pc[a] = "CLAIMED"
    /\ order' = [order EXCEPT ![a] = "INFLIGHT"]
    /\ UNCHANGED <<status, orderId, audit>>

EvidenceKind(k) == Write(k, "UNKNOWN", Null) /\ UNCHANGED <<order, audit>>

\* The sender's own write, after its own call of the gateway.
AnswerKind(a) ==
    /\ pc[a] \in {"CLAIMED", "SENT"} /\ pc'[a] = "RELEASING"
    /\ \/ order[a] \in {"OPEN", "CLOSED"} /\ Write(IntentOf[a], "ACCEPTED", a)
       \/ Write(IntentOf[a], "REJECTED", Null)
       \/ Write(IntentOf[a], "UNKNOWN", Null)
    /\ UNCHANGED <<order, audit>>

OperatorKind(k) ==
    /\ status[k] = "UNKNOWN"
    /\ status' = [status EXCEPT ![k] = "REJECTED"]
    /\ audit' = audit \cup {k}
    /\ UNCHANGED <<orderId, order>>

Kinds ==
    \/ QuietKind
    \/ \E a \in Attempts : ClaimKind(a) \/ SendKind(a) \/ AnswerKind(a)
    \/ \E k \in Keys : EvidenceKind(k) \/ OperatorKind(k)

\* Every step of submit is of one of the kinds.
LEMMA SubmitKind ==
    ASSUME Inductive, NEW a \in Attempts, Submit(a)
    PROVE  Kinds
  <1> USE AttemptsAssumption
  <1>t. TypeOK /\ IntentOf[a] \in Keys /\ snap[a] \in Rows /\ snap[a].orderId = Null
    BY DEF Inductive, TypeOK, ClaimInv, HeldRowsUnidentified
  <1>1. CASE \/ Acquire(a) \/ AcquireRefused(a) \/ Observe(a) \/ ObserveBlind(a)
             \/ Refuse(a) \/ Evaluate(a) \/ ConsumeStart(a) \/ CapReached(a)
             \/ ClaimRefused(a) \/ ClaimFailed(a) \/ FollowUp(a) \/ Release(a)
    <2>1. UNCHANGED <<status, orderId, order, audit>>
      BY <1>1 DEF Acquire, AcquireRefused, Observe, ObserveBlind, Refuse, Evaluate,
                  ConsumeStart, CapReached, ClaimRefused, ClaimFailed, FollowUp, Release
    <2> QED BY <2>1 DEF QuietKind, Kinds
  <1>2. CASE Reconcile(a)
    <2>1. PICK e \in Evidence(snap[a]) : ApplyEvidence(IntentOf[a], snap[a], e)
      BY <1>2 DEF Reconcile
    <2>2. EvidenceKind(IntentOf[a])
      BY <1>t, <1>2, <2>1, EvidenceWritesUnknown DEF Reconcile, EvidenceKind
    <2> QED BY <1>t, <2>2 DEF Kinds
  <1>3. CASE Claim(a)
    <2>1. ClaimKind(a)
      BY <1>3 DEF Claim, MayClaim, ClaimKind
    <2> QED BY <2>1 DEF Kinds
  <1>4. CASE GiveUpBeforeSend(a)
    <2>1. \/ Write(IntentOf[a], "REJECTED", Null)
          \/ Write(IntentOf[a], "UNKNOWN", Null)
      BY <1>t, <1>4, PersistWrites DEF GiveUpBeforeSend, Statuses
    <2>2. AnswerKind(a)
      BY <1>t, <1>4, <2>1 DEF GiveUpBeforeSend, Goto, AnswerKind, TypeOK
    <2> QED BY <2>2 DEF Kinds
  <1>5. CASE SendOrder(a)
    <2>1. SendKind(a)
      BY <1>5 DEF SendOrder, SendKind
    <2> QED BY <2>1 DEF Kinds
  <1>6. CASE Respond(a)
    <2>1. \/ order[a] \in {"OPEN", "CLOSED"} /\ Write(IntentOf[a], "ACCEPTED", a)
          \/ Write(IntentOf[a], "REJECTED", Null)
          \/ Write(IntentOf[a], "UNKNOWN", Null)
      BY <1>t, <1>6, PersistWrites
      DEF Respond, Filled, BrokerRefused, Indeterminate, Statuses
    <2>2. AnswerKind(a)
      BY <1>t, <1>6, <2>1 DEF Respond, Goto, AnswerKind, TypeOK
    <2> QED BY <2>2 DEF Kinds
  <1> QED BY <1>1, <1>2, <1>3, <1>4, <1>5, <1>6 DEF Submit

\* Every step of the specification is of one of the kinds.
LEMMA StepKind == Inductive /\ [Next]_vars => Kinds
  <1> SUFFICES ASSUME Inductive, [Next]_vars PROVE Kinds
    OBVIOUS
  <1>t. /\ TypeOK
        /\ \A k \in Keys : recov[k] \in Rows /\ recov[k].orderId = Null
    BY DEF Inductive, TypeOK, ClaimInv, HeldRowsUnidentified
  <1>1. ASSUME NEW a \in Attempts, Submit(a) PROVE Kinds
    BY <1>1, SubmitKind
  <1>2. ASSUME NEW a \in Attempts, Crash(a) PROVE Kinds
    BY <1>2 DEF Crash, QuietKind, Kinds
  <1>3. ASSUME NEW a \in Attempts, BrokerStep(a) PROVE Kinds
    <2>1. QuietKind
      BY <1>3, <1>t DEF BrokerStep, QuietKind, TypeOK
    <2> QED BY <2>1 DEF Kinds
  <1>4. ASSUME NEW s \in Scopes, RecoverList(s) PROVE Kinds
    BY <1>4 DEF RecoverList, QuietKind, Kinds
  <1>5. ASSUME NEW k \in Keys, RecoverRecord(k) PROVE Kinds
    <2>1. PICK e \in Evidence(recov[k]) : ApplyEvidence(k, recov[k], e)
      BY <1>5 DEF RecoverRecord
    <2>2. EvidenceKind(k)
      BY <1>t, <1>5, <2>1, EvidenceWritesUnknown DEF RecoverRecord, EvidenceKind
    <2> QED BY <2>2 DEF Kinds
  <1>6. ASSUME NEW k \in Keys, InspectIntent(k) PROVE Kinds
    BY <1>6 DEF InspectIntent, QuietKind, Kinds
  <1>7. ASSUME NEW k \in Keys, ConfirmResolution(k) PROVE Kinds
    <2>1. OperatorKind(k)
      BY <1>7 DEF ConfirmResolution, OperatorKind
    <2> QED BY <2>1 DEF Kinds
  <1>8. ASSUME Tick PROVE Kinds
    BY <1>8 DEF Tick, QuietKind, Kinds
  <1>9. ASSUME UNCHANGED vars PROVE Kinds
    BY <1>9 DEF vars, QuietKind, Kinds
  <1> QED BY <1>1, <1>2, <1>3, <1>4, <1>5, <1>6, <1>7, <1>8, <1>9 DEF Next

-----------------------------------------------------------------------------
(***************************************************************************)
(* Action properties                                                       *)
(***************************************************************************)
\* A decided row keeps its decision and its broker identity through a step.
LEMMA DecidedRowKept ==
    ASSUME Inductive, Kinds, NEW k \in Keys, status[k] \in {"ACCEPTED", "REJECTED"}
    PROVE  status'[k] = status[k] /\ orderId'[k] = orderId[k]
  <1> USE AttemptsAssumption
  <1>t. TypeOK /\ ClaimInv
    BY DEF Inductive
  <1>1. CASE QuietKind
    BY <1>1 DEF QuietKind
  <1>2. ASSUME NEW a \in Attempts, ClaimKind(a) PROVE status'[k] = status[k] /\ orderId'[k] = orderId[k]
    BY <1>2, <1>t DEF ClaimKind, TypeOK
  <1>3. ASSUME NEW a \in Attempts, SendKind(a) PROVE status'[k] = status[k] /\ orderId'[k] = orderId[k]
    BY <1>3 DEF SendKind
  <1>4. ASSUME NEW a \in Attempts, AnswerKind(a) PROVE status'[k] = status[k] /\ orderId'[k] = orderId[k]
    <2>1. CASE IntentOf[a] # k
      BY <1>4, <1>t, <2>1 DEF AnswerKind, Write, TypeOK
    <2>2. CASE IntentOf[a] = k /\ status[k] = "REJECTED"
      BY <1>4, <1>t, <2>2 DEF AnswerKind, Write, TypeOK, Unresolved, ClaimInv, IdentityIsExact
    <2>3. CASE IntentOf[a] = k /\ status[k] = "ACCEPTED"
      <3>1. PICK b \in Attempts : orderId[k] = b /\ IntentOf[b] = k /\ Sent(b)
        BY <1>t, <2>3 DEF ClaimInv, IdentityIsExact, Sent
      <3>2. b = a
        BY <1>4, <1>t, <2>3, <3>1 DEF AnswerKind, ClaimInv, ClaimIsUnique, Claimed
      <3> QED BY <1>4, <1>t, <2>3, <3>1, <3>2 DEF AnswerKind, Write, TypeOK, Unresolved
    <2> QED BY <2>1, <2>2, <2>3
  <1>5. ASSUME NEW j \in Keys, EvidenceKind(j) PROVE status'[k] = status[k] /\ orderId'[k] = orderId[k]
    BY <1>5, <1>t DEF EvidenceKind, Write, TypeOK, Unresolved
  <1>6. ASSUME NEW j \in Keys, OperatorKind(j) PROVE status'[k] = status[k] /\ orderId'[k] = orderId[k]
    BY <1>6, <1>t DEF OperatorKind, TypeOK
  <1> QED BY <1>1, <1>2, <1>3, <1>4, <1>5, <1>6 DEF Kinds

\* No late answer, stale reconciliation or stale recovery rewrites a decided
\* row (transition and its table of allowed transitions).
THEOREM DecisionIsFinal == Spec => TerminalIsFinal
  <1>1. Inductive /\ [Next]_vars =>
          [\A k \in Keys : status[k] \in {"ACCEPTED", "REJECTED"} =>
              status'[k] = status[k] /\ orderId'[k] = orderId[k]]_vars
    BY StepKind, DecidedRowKept
  <1> QED BY <1>1, InductiveInvariant, PTL DEF Spec, TerminalIsFinal

\* A row that is decided by a step is decided by its sender or by hand.
LEMMA WhoDecides ==
    ASSUME Inductive, Kinds, NEW k \in Keys, status[k] \in Unresolved,
           status'[k] \in {"ACCEPTED", "REJECTED"}
    PROVE  \/ k \in audit'
           \/ \E a \in Attempts : /\ IntentOf[a] = k
                                  /\ pc[a] \in {"CLAIMED", "SENT"}
                                  /\ pc'[a] = "RELEASING"
  <1> USE AttemptsAssumption DEF Unresolved
  <1>t. TypeOK
    BY DEF Inductive
  <1>1. ~ QuietKind
    BY DEF QuietKind
  <1>2. \A a \in Attempts : ~ ClaimKind(a) /\ ~ SendKind(a)
    BY <1>t DEF ClaimKind, SendKind, TypeOK
  <1>3. \A j \in Keys : ~ EvidenceKind(j)
    BY <1>t DEF EvidenceKind, Write, TypeOK
  <1>4. ASSUME NEW a \in Attempts, AnswerKind(a)
        PROVE  IntentOf[a] = k /\ pc[a] \in {"CLAIMED", "SENT"} /\ pc'[a] = "RELEASING"
    BY <1>4, <1>t DEF AnswerKind, Write, TypeOK
  <1>5. ASSUME NEW j \in Keys, OperatorKind(j) PROVE k \in audit'
    BY <1>5, <1>t DEF OperatorKind, TypeOK
  <1> QED BY <1>1, <1>2, <1>3, <1>4, <1>5 DEF Kinds

\* Reconciliation and recovery never decide an intent: only the answer to its
\* own order or the operator does (reconcile, _recover_record).
THEOREM NobodyGuesses == Spec => OnlySenderOrOperatorResolves
  <1>1. Inductive /\ [Next]_vars =>
          [\A k \in Keys :
              status[k] \in Unresolved /\ status'[k] \in {"ACCEPTED", "REJECTED"} =>
                  \/ k \in audit'
                  \/ \E a \in Attempts : /\ IntentOf[a] = k
                                         /\ pc[a] \in {"CLAIMED", "SENT"}
                                         /\ pc'[a] = "RELEASING"]_vars
    BY StepKind, WhoDecides
  <1> QED BY <1>1, InductiveInvariant, PTL DEF Spec, OnlySenderOrOperatorResolves

-----------------------------------------------------------------------------
(***************************************************************************)
(* Refinement                                                              *)
(***************************************************************************)
Outcomes == [k \in Keys |-> Outcome(k)]
SentKeys == {k \in Keys : \E a \in Attempts : Sent(a) /\ IntentOf[a] = k}

\* The outcome of an intent, status by status.
LEMMA OutcomeIs ==
    ASSUME NEW k \in Keys
    PROVE  /\ status[k] = "ABSENT" => Outcome(k) = "NEW"
           /\ status[k] \in Unresolved => Outcome(k) = "UNDECIDED"
           /\ status[k] = "ACCEPTED" => Outcome(k) = "ACCEPTED"
           /\ status[k] = "REJECTED" => Outcome(k) = "REJECTED"
  BY DEF Outcome, Unresolved

\* The same, after a step.
LEMMA OutcomeWillBe ==
    ASSUME NEW k \in Keys
    PROVE  /\ status'[k] = "ABSENT" => Outcome(k)' = "NEW"
           /\ status'[k] \in Unresolved => Outcome(k)' = "UNDECIDED"
           /\ status'[k] = "ACCEPTED" => Outcome(k)' = "ACCEPTED"
           /\ status'[k] = "REJECTED" => Outcome(k)' = "REJECTED"
  BY DEF Outcome, Unresolved

\* Writing a row changes the outcome of that intent only.
LEMMA OutcomesAfterWrite ==
    ASSUME TypeOK, NEW k \in Keys, NEW to \in Statuses, NEW out,
           status' = [status EXCEPT ![k] = to],
           Outcome(k)' = out
    PROVE  Outcomes' = [Outcomes EXCEPT ![k] = out]
  <1>1. \A j \in Keys : j # k => Outcome(j)' = Outcome(j)
    BY DEF TypeOK, Outcome
  <1>2. \A j \in Keys : Outcomes'[j] = [Outcomes EXCEPT ![k] = out][j]
    BY <1>1 DEF Outcomes
  <1>3. Outcomes' = [j \in Keys |-> Outcomes'[j]]
    BY DEF Outcomes
  <1>4. [Outcomes EXCEPT ![k] = out] = [j \in Keys |-> [Outcomes EXCEPT ![k] = out][j]]
    BY DEF Outcomes
  <1> QED BY <1>2, <1>3, <1>4

\* A row that keeps its outcome leaves the abstract state alone.
LEMMA OutcomesKept ==
    ASSUME \A k \in Keys : Outcome(k)' = Outcome(k)
    PROVE  Outcomes' = Outcomes
  BY DEF Outcomes

\* The keys that were sent change only with the orders.
LEMMA SentKeysKept ==
    ASSUME \A a \in Attempts : order'[a] # "NONE" <=> order[a] # "NONE"
    PROVE  SentKeys' = SentKeys
  BY DEF SentKeys, Sent

\* A guarded update decides an undecided intent or changes no outcome.
LEMMA WriteOutcome ==
    ASSUME TypeOK, NEW k \in Keys, NEW to \in {"ACCEPTED", "REJECTED", "UNKNOWN"}, NEW id,
           Write(k, to, id)
    PROVE  \/ Outcomes' = Outcomes
           \/ /\ to # "UNKNOWN"
              /\ Outcomes[k] = "UNDECIDED"
              /\ Outcomes' = [Outcomes EXCEPT ![k] = to]
  <1>1. CASE status' = status
    BY <1>1, OutcomesKept DEF Outcome
  <1>2. CASE status[k] = to /\ status' = [status EXCEPT ![k] = to]
    <2>1. status' = status
      BY <1>2 DEF TypeOK
    <2> QED BY <2>1, OutcomesKept DEF Outcome
  <1>3. CASE status[k] \in Unresolved /\ status' = [status EXCEPT ![k] = to]
    <2>1. Outcome(k) = "UNDECIDED" /\ Outcomes[k] = "UNDECIDED"
      BY <1>3, OutcomeIs DEF Outcomes
    <2>2. status'[k] = to
      BY <1>3 DEF TypeOK
    <2>3. CASE to = "UNKNOWN"
      <3>1. Outcome(k)' = "UNDECIDED"
        BY <2>2, <2>3, OutcomeWillBe DEF Unresolved
      <3>2. \A j \in Keys : j # k => Outcome(j)' = Outcome(j)
        BY <1>3 DEF TypeOK, Outcome
      <3> QED BY <2>1, <3>1, <3>2, OutcomesKept
    <2>4. CASE to # "UNKNOWN"
      <3>1. Outcome(k)' = to
        BY <2>2, <2>4, OutcomeWillBe
      <3>2. Outcomes' = [Outcomes EXCEPT ![k] = to]
        BY <1>3, <3>1, OutcomesAfterWrite DEF Statuses
      <3> QED BY <2>1, <2>4, <3>2
    <2> QED BY <2>3, <2>4
  <1> QED BY <1>1, <1>2, <1>3 DEF Write

\* Initial states are initial states of the abstract specification.
LEMMA RefinesInit == Init => Lifecycle!Init
  <1> SUFFICES ASSUME Init PROVE Lifecycle!Init
    OBVIOUS
  <1>1. \A k \in Keys : Outcome(k) = "NEW"
    BY OutcomeIs DEF Init
  <1>2. {k \in Keys : \E a \in Attempts : Sent(a) /\ IntentOf[a] = k} = {}
    BY DEF Init, Sent
  <1> QED BY <1>1, <1>2 DEF Init, Lifecycle!Init

\* The abstract steps, spelled out over this module's mapping.
AbstractStep(k) ==
    \/ /\ Outcomes[k] = "NEW" /\ Outcomes' = [Outcomes EXCEPT ![k] = "UNDECIDED"]
       /\ SentKeys' = SentKeys /\ audit' = audit
    \/ /\ k \notin SentKeys /\ (Outcomes[k] = "UNDECIDED" \/ k \in audit)
       /\ SentKeys' = SentKeys \cup {k}
       /\ Outcomes' = Outcomes /\ audit' = audit
    \/ /\ k \in SentKeys
       /\ Outcomes[k] = "UNDECIDED" /\ Outcomes' = [Outcomes EXCEPT ![k] = "ACCEPTED"]
       /\ SentKeys' = SentKeys /\ audit' = audit
    \/ /\ Outcomes[k] = "UNDECIDED" /\ Outcomes' = [Outcomes EXCEPT ![k] = "REJECTED"]
       /\ SentKeys' = SentKeys /\ (audit' = audit \/ audit' = audit \cup {k})

AbstractStutter == Outcomes' = Outcomes /\ SentKeys' = SentKeys /\ audit' = audit

\* Every kind of step is an abstract step or a stutter.
LEMMA KindRefines ==
    ASSUME Inductive, Kinds
    PROVE  AbstractStutter \/ \E k \in Keys : AbstractStep(k)
  <1> USE AttemptsAssumption
  <1>t. TypeOK /\ ClaimInv
    BY DEF Inductive
  <1>1. CASE QuietKind
    <2>1. \A k \in Keys : Outcome(k)' = Outcome(k)
      BY <1>1 DEF QuietKind, Outcome
    <2> QED BY <1>1, <2>1, OutcomesKept, SentKeysKept DEF QuietKind, AbstractStutter
  <1>2. ASSUME NEW a \in Attempts, ClaimKind(a) PROVE AbstractStep(IntentOf[a])
    <2>1. status'[IntentOf[a]] = "PENDING"
      BY <1>2, <1>t DEF ClaimKind, TypeOK
    <2>2. Outcome(IntentOf[a])' = "UNDECIDED"
      BY <2>1, OutcomeWillBe DEF Unresolved
    <2>3. Outcomes' = [Outcomes EXCEPT ![IntentOf[a]] = "UNDECIDED"]
      BY <1>2, <1>t, <2>2, OutcomesAfterWrite DEF ClaimKind, Statuses
    <2>4. Outcomes[IntentOf[a]] = "NEW"
      BY <1>2, OutcomeIs DEF ClaimKind, Outcomes
    <2>5. SentKeys' = SentKeys
      BY <1>2, SentKeysKept DEF ClaimKind
    <2> QED BY <1>2, <2>3, <2>4, <2>5 DEF ClaimKind, AbstractStep
  <1>3. ASSUME NEW a \in Attempts, SendKind(a) PROVE AbstractStep(IntentOf[a])
    <2>1. IntentOf[a] \notin SentKeys
      BY <1>3, <1>t DEF SendKind, SentKeys, ClaimInv, ClaimIsUnique, Claimed,
                        OrderFollowsSteps, Sent
    <2>2. Outcomes[IntentOf[a]] = "UNDECIDED" \/ IntentOf[a] \in audit
      BY <1>3, <1>t, OutcomeIs DEF SendKind, ClaimInv, ClaimIsOpen, Audited, Outcomes
    <2>3. SentKeys' = SentKeys \cup {IntentOf[a]}
      BY <1>3, <1>t DEF SendKind, SentKeys, Sent, TypeOK
    <2>4. \A k \in Keys : Outcome(k)' = Outcome(k)
      BY <1>3 DEF SendKind, Outcome
    <2> QED BY <1>3, <2>1, <2>2, <2>3, <2>4, OutcomesKept DEF SendKind, AbstractStep
  <1>4. ASSUME NEW a \in Attempts, AnswerKind(a)
        PROVE  AbstractStutter \/ AbstractStep(IntentOf[a])
    <2>1. SentKeys' = SentKeys /\ audit' = audit
      BY <1>4, SentKeysKept DEF AnswerKind
    <2>2. CASE order[a] \in {"OPEN", "CLOSED"} /\ Write(IntentOf[a], "ACCEPTED", a)
      <3>1. IntentOf[a] \in SentKeys
        BY <2>2 DEF SentKeys, Sent
      <3> QED BY <1>t, <2>1, <2>2, <3>1, WriteOutcome DEF AbstractStutter, AbstractStep
    <2>3. CASE Write(IntentOf[a], "REJECTED", Null)
      BY <1>t, <2>1, <2>3, WriteOutcome DEF AbstractStutter, AbstractStep
    <2>4. CASE Write(IntentOf[a], "UNKNOWN", Null)
      BY <1>t, <2>1, <2>4, WriteOutcome DEF AbstractStutter
    <2> QED BY <1>4, <2>2, <2>3, <2>4 DEF AnswerKind
  <1>5. ASSUME NEW k \in Keys, EvidenceKind(k) PROVE AbstractStutter
    BY <1>5, <1>t, WriteOutcome, SentKeysKept DEF EvidenceKind, AbstractStutter
  <1>6. ASSUME NEW k \in Keys, OperatorKind(k) PROVE AbstractStep(k)
    <2>1. Outcomes[k] = "UNDECIDED"
      BY <1>6, OutcomeIs DEF OperatorKind, Outcomes, Unresolved
    <2>2. Outcome(k)' = "REJECTED"
      BY <1>6, <1>t, OutcomeWillBe DEF OperatorKind, TypeOK
    <2>3. Outcomes' = [Outcomes EXCEPT ![k] = "REJECTED"]
      BY <1>6, <1>t, <2>2, OutcomesAfterWrite DEF OperatorKind, Statuses
    <2>4. SentKeys' = SentKeys
      BY <1>6, SentKeysKept DEF OperatorKind
    <2> QED BY <1>6, <2>1, <2>3, <2>4 DEF OperatorKind, AbstractStep
  <1> QED BY <1>1, <1>2, <1>3, <1>4, <1>5, <1>6 DEF Kinds

\* An abstract step over the mapping is a step of the abstract specification.
LEMMA AbstractStepIsNext ==
    ASSUME NEW k \in Keys, AbstractStep(k)
    PROVE  Lifecycle!Next
  BY DEF AbstractStep, Outcomes, SentKeys, Lifecycle!Next, Lifecycle!Record, Lifecycle!Send,
         Lifecycle!Accept, Lifecycle!Reject, Lifecycle!RejectByHand, Lifecycle!Decide

\* Every step of the executor is a step of the abstract specification or a
\* stutter.
LEMMA RefinesStep == Inductive /\ [Next]_vars => [Lifecycle!Next]_(Lifecycle!vars)
  <1> SUFFICES ASSUME Inductive, [Next]_vars PROVE [Lifecycle!Next]_(Lifecycle!vars)
    OBVIOUS
  <1>1. AbstractStutter \/ \E k \in Keys : AbstractStep(k)
    BY StepKind, KindRefines
  <1>2. CASE AbstractStutter
    BY <1>2 DEF AbstractStutter, Outcomes, SentKeys, Lifecycle!vars
  <1>3. CASE \E k \in Keys : AbstractStep(k)
    BY <1>3, AbstractStepIsNext
  <1> QED BY <1>1, <1>2, <1>3

\* The executor, with crashes, lapsed leases, recovery and the operator around
\* it, implements the at-most-once life of an intent, for all constants.
THEOREM ExecutorRefines == Spec => ImplementsLifecycle
  <1>1. Init => Lifecycle!Init
    BY RefinesInit
  <1>2. Inductive /\ [Next]_vars => [Lifecycle!Next]_(Lifecycle!vars)
    BY RefinesStep
  <1> QED BY <1>1, <1>2, InductiveInvariant, PTL DEF Spec, ImplementsLifecycle, Lifecycle!Spec
=============================================================================
