--------------------------- MODULE DurableExecutorProofs ---------------------------
(***************************************************************************)
(* Machine-checked proofs about DurableExecutor, for any number of         *)
(* attempts, keys, accounts and symbols, any lease and any clock bound.    *)
(***************************************************************************)
EXTENDS DurableExecutor, FiniteSetTheorems, TLAPS

-----------------------------------------------------------------------------
(***************************************************************************)
(* Type correctness                                                        *)
(***************************************************************************)
\* The store's guarded update keeps the columns in their types.
LEMMA PersistType ==
    ASSUME TypeOK, NEW k \in Keys, NEW to \in Statuses, NEW id \in Attempts \cup {Null},
           Persist(k, to, id)
    PROVE  /\ status' \in [Keys -> Statuses]
           /\ account' \in [Keys -> Scopes \cup {Null}]
           /\ orderId' \in [Keys -> Attempts \cup {Null}]
  BY DEF TypeOK, Persist, Transition, store

\* What get and list_unresolved return is a row.
LEMMA RowType ==
    ASSUME TypeOK, NEW k \in Keys
    PROVE  Row(k) \in Rows
  BY DEF TypeOK, Row, Rows

\* The empty snapshot is a row as well.
LEMMA NoRowType == NoRow \in Rows
  BY DEF NoRow, Rows, Statuses

\* The write that follows the evidence keeps the columns in their types.
LEMMA ApplyEvidenceType ==
    ASSUME TypeOK, NEW k \in Keys, NEW row \in Rows, NEW e, ApplyEvidence(k, row, e)
    PROVE  /\ status' \in [Keys -> Statuses]
           /\ account' \in [Keys -> Scopes \cup {Null}]
           /\ orderId' \in [Keys -> Attempts \cup {Null}]
  <1>1. CASE e = "CONFIRMED_MATCH"
    BY <1>1, PersistType DEF ApplyEvidence, Rows, Statuses
  <1>2. CASE e # "CONFIRMED_MATCH" /\ row.status = "PENDING"
    BY <1>2, PersistType DEF ApplyEvidence, Statuses
  <1>3. CASE e # "CONFIRMED_MATCH" /\ row.status # "PENDING"
    BY <1>3 DEF ApplyEvidence, TypeOK, store
  <1> QED BY <1>1, <1>2, <1>3

\* Counting one submission start keeps the counters natural numbers.
LEMMA IncrementType ==
    ASSUME NEW S, NEW f \in [S -> Nat], NEW x
    PROVE  [f EXCEPT ![x] = f[x] + 1] \in [S -> Nat]
  <1>1. \A y \in S : [f EXCEPT ![x] = f[x] + 1][y] \in Nat
    <2> TAKE y \in S
    <2>1. f[y] \in Nat
      OBVIOUS
    <2>2. CASE y = x
      BY <2>1, <2>2
    <2>3. CASE y # x
      BY <2>1, <2>3
    <2> QED BY <2>2, <2>3
  <1> QED BY <1>1

\* A fresh database and idle attempts are well typed.
LEMMA TypeInit == Init => TypeOK
  BY AttemptsAssumption, BoundsAssumption, NoRowType
  DEF Init, TypeOK, Statuses, PCs, Running, PreClaim, OrderStates, Days

USE DEF store, leases, local, operator

\* Every step of submit keeps the types.
LEMMA SubmitType ==
    ASSUME TypeOK, NEW a \in Attempts, Submit(a)
    PROVE  TypeOK'
  <1> USE AttemptsAssumption, BoundsAssumption
  <1>t. IntentOf[a] \in Keys /\ AccountOf[a] \in Scopes /\ SymbolOf[IntentOf[a]] \in Symbols
    OBVIOUS
  <1>1. CASE Acquire(a)
    BY <1>1 DEF Acquire, TypeOK, Goto, PCs, Running, PreClaim, ReadClock
  <1>2. CASE AcquireRefused(a)
    BY <1>2 DEF AcquireRefused, TypeOK, Goto, PCs
  <1>3. CASE Observe(a)
    BY <1>3 DEF Observe, OpenPositions, TypeOK, Goto, PCs, Running, PreClaim
  <1>4. CASE ObserveBlind(a)
    BY <1>4 DEF ObserveBlind, TypeOK, Goto, PCs, Running, PreClaim
  <1>5. CASE Refuse(a)
    BY <1>5 DEF Refuse, TypeOK, Goto, PCs, Running
  <1>6. CASE Evaluate(a)
    <2>1. pc' \in [Attempts -> PCs] /\ snap' \in [Attempts -> Rows]
      BY <1>6, <1>t, RowType, NoRowType
      DEF Evaluate, AfterApproval, Fetch, TypeOK, Goto, PCs, Running, PreClaim
    <2>2. seen' \in [Attempts -> SUBSET Attempts]
      BY <1>6 DEF Evaluate, TypeOK
    <2>3. UNCHANGED <<store, leases, starts, blind, order, recov, operator, now>>
      BY <1>6 DEF Evaluate
    <2> QED BY <2>1, <2>2, <2>3 DEF TypeOK
  <1>7. CASE Reconcile(a)
    <2>1. PICK e \in Evidence(snap[a]) : ApplyEvidence(IntentOf[a], snap[a], e)
      BY <1>7 DEF Reconcile
    <2>2. snap[a] \in Rows
      BY DEF TypeOK
    <2> QED BY <1>7, <1>t, <2>1, <2>2, ApplyEvidenceType, NoRowType
            DEF Reconcile, TypeOK, Goto, PCs, Running
  <1>8. CASE ConsumeStart(a)
    <2> DEFINE slot == <<AccountOf[a], SymbolOf[IntentOf[a]], Today>>
               Slots == Scopes \X Symbols \X Days
    <2>1. starts' = [starts EXCEPT ![slot] = starts[slot] + 1]
      BY <1>8 DEF ConsumeStart
    <2>2. starts \in [Slots -> Nat]
      BY DEF TypeOK
    <2> HIDE DEF slot, Slots
    <2>3. starts' \in [Slots -> Nat]
      BY <2>1, <2>2, IncrementType
    <2> USE DEF Slots
    <2>4. pc' = [pc EXCEPT ![a] = "COUNTED"] \/ pc' = [pc EXCEPT ![a] = "RELEASING"]
      BY <1>8 DEF ConsumeStart, Goto
    <2>5. UNCHANGED <<store, leases, seen, snap, blind, order, recov, operator, now>>
      BY <1>8 DEF ConsumeStart
    <2> QED BY <2>3, <2>4, <2>5 DEF TypeOK, PCs, Running, PreClaim
  <1>9. CASE CapReached(a)
    BY <1>9 DEF CapReached, TypeOK, Goto, PCs, Running
  <1>10. CASE Claim(a)
    <2>1. /\ status' \in [Keys -> Statuses]
          /\ account' \in [Keys -> Scopes \cup {Null}]
          /\ orderId' \in [Keys -> Attempts \cup {Null}]
      BY <1>10, <1>t DEF Claim, TypeOK, Statuses
    <2>2. pc' \in [Attempts -> PCs]
      BY <1>10 DEF Claim, TypeOK, Goto, PCs, Running
    <2>3. UNCHANGED <<leases, starts, seen, snap, blind, order, recov, operator, now>>
      BY <1>10 DEF Claim
    <2> QED BY <2>1, <2>2, <2>3 DEF TypeOK
  <1>11. CASE ClaimRefused(a) \/ ClaimFailed(a)
    <2>1. pc' \in [Attempts -> PCs]
      BY <1>11 DEF ClaimRefused, ClaimFailed, TypeOK, Goto, PCs, Running
    <2>2. UNCHANGED <<store, leases, starts, seen, snap, blind, order, recov, operator, now>>
      BY <1>11 DEF ClaimRefused, ClaimFailed
    <2> QED BY <2>1, <2>2 DEF TypeOK
  <1>12. CASE FollowUp(a)
    <2>1. pc' \in [Attempts -> PCs] /\ snap' \in [Attempts -> Rows]
      BY <1>12, <1>t, RowType, NoRowType DEF FollowUp, Fetch, TypeOK, Goto, PCs, Running
    <2>2. UNCHANGED <<store, leases, starts, seen, blind, order, recov, operator, now>>
      BY <1>12 DEF FollowUp, Fetch
    <2> QED BY <2>1, <2>2 DEF TypeOK
  <1>13. CASE GiveUpBeforeSend(a)
    <2>1. /\ status' \in [Keys -> Statuses]
          /\ account' \in [Keys -> Scopes \cup {Null}]
          /\ orderId' \in [Keys -> Attempts \cup {Null}]
      BY <1>13, <1>t, PersistType DEF GiveUpBeforeSend, Statuses
    <2> QED BY <1>13, <2>1 DEF GiveUpBeforeSend, TypeOK, Goto, PCs, Running
  <1>14. CASE SendOrder(a)
    BY <1>14 DEF SendOrder, TypeOK, Goto, PCs, Running, OrderStates
  <1>15. CASE Respond(a)
    <2>1. /\ status' \in [Keys -> Statuses]
          /\ account' \in [Keys -> Scopes \cup {Null}]
          /\ orderId' \in [Keys -> Attempts \cup {Null}]
      BY <1>15, <1>t, PersistType DEF Respond, Filled, BrokerRefused, Indeterminate, Statuses
    <2> QED BY <1>15, <2>1 DEF Respond, TypeOK, Goto, PCs, Running
  <1>16. CASE Release(a)
    <2>1. owner' \in [Scopes -> Attempts \cup {Null}] /\ expires' \in [Scopes -> Nat]
      BY <1>16 DEF Release, TypeOK
    <2>2. pc' \in [Attempts -> PCs] /\ seen' \in [Attempts -> SUBSET Attempts]
          /\ snap' \in [Attempts -> Rows]
      BY <1>16, NoRowType DEF Release, Leave, TypeOK, Goto, PCs
    <2>3. UNCHANGED <<store, starts, blind, order, recov, operator, now>>
      BY <1>16 DEF Release
    <2> QED BY <2>1, <2>2, <2>3 DEF TypeOK
  <1> QED
    BY <1>1, <1>2, <1>3, <1>4, <1>5, <1>6, <1>7, <1>8, <1>9, <1>10, <1>11, <1>12,
       <1>13, <1>14, <1>15, <1>16 DEF Submit

\* Every step of the specification keeps the types.
LEMMA TypeStep == TypeOK /\ [Next]_vars => TypeOK'
  <1> SUFFICES ASSUME TypeOK, [Next]_vars PROVE TypeOK'
    OBVIOUS
  <1> USE AttemptsAssumption, BoundsAssumption
  <1>1. ASSUME NEW a \in Attempts, Submit(a) PROVE TypeOK'
    BY <1>1, SubmitType
  <1>2. ASSUME NEW a \in Attempts, Crash(a) PROVE TypeOK'
    <2>1. pc' \in [Attempts -> PCs] /\ seen' \in [Attempts -> SUBSET Attempts]
          /\ snap' \in [Attempts -> Rows]
      BY <1>2, NoRowType DEF Crash, Leave, TypeOK, Goto, PCs
    <2>2. UNCHANGED <<store, leases, starts, blind, order, recov, operator, now>>
      BY <1>2 DEF Crash
    <2> QED BY <2>1, <2>2 DEF TypeOK
  <1>3. ASSUME NEW a \in Attempts, BrokerStep(a) PROVE TypeOK'
    <2>1. order \in [Attempts -> OrderStates]
      BY DEF TypeOK
    <2>2. order' \in [Attempts -> OrderStates]
      BY <1>3, <2>1 DEF BrokerStep, OrderStates
    <2>3. UNCHANGED <<store, leases, starts, local, recov, operator, now>>
      BY <1>3 DEF BrokerStep
    <2> QED BY <2>2, <2>3 DEF TypeOK
  <1>4. ASSUME NEW s \in Scopes, RecoverList(s) PROVE TypeOK'
    BY <1>4, RowType, NoRowType DEF RecoverList, TypeOK
  <1>5. ASSUME NEW k \in Keys, RecoverRecord(k) PROVE TypeOK'
    <2>1. PICK e \in Evidence(recov[k]) : ApplyEvidence(k, recov[k], e)
      BY <1>5 DEF RecoverRecord
    <2>2. recov[k] \in Rows
      BY DEF TypeOK
    <2> QED BY <1>5, <2>1, <2>2, ApplyEvidenceType, NoRowType DEF RecoverRecord, TypeOK
  <1>6. ASSUME NEW k \in Keys, InspectIntent(k) PROVE TypeOK'
    BY <1>6 DEF InspectIntent, TypeOK
  <1>7. ASSUME NEW k \in Keys, ConfirmResolution(k) PROVE TypeOK'
    BY <1>7 DEF ConfirmResolution, TypeOK, Statuses
  <1>8. CASE Tick
    BY <1>8 DEF Tick, TypeOK
  <1>9. CASE UNCHANGED vars
    BY <1>9 DEF vars, TypeOK
  <1> QED BY <1>1, <1>2, <1>3, <1>4, <1>5, <1>6, <1>7, <1>8, <1>9 DEF Next

\* Every reachable state of the executor is well typed, for all constants.
THEOREM TypeCorrect == Spec => []TypeOK
  <1>1. Init => TypeOK
    BY TypeInit
  <1>2. TypeOK /\ [Next]_vars => TypeOK'
    BY TypeStep
  <1> QED BY <1>1, <1>2, PTL DEF Spec

-----------------------------------------------------------------------------
(***************************************************************************)
(* The inductive invariant.  Part one follows one attempt: an attempt that *)
(* claimed its key is the only one that did, and its row stays unresolved  *)
(* until its own answer or the operator decides it.  Rows that callers     *)
(* hold across an await carry no broker identity.                          *)
(***************************************************************************)
Audited(a) == IntentOf[a] \in audit

Claimed(a) == pc[a] \in {"CLAIMED", "SENT"} \/ Sent(a)

ClaimOnRecord ==
    \A a \in Attempts : Claimed(a) =>
        /\ status[IntentOf[a]] # "ABSENT"
        /\ account[IntentOf[a]] = AccountOf[a]

ClaimIsUnique ==
    \A a, b \in Attempts : Claimed(a) /\ Claimed(b) /\ IntentOf[a] = IntentOf[b] => a = b

OrderFollowsSteps ==
    \A a \in Attempts :
        /\ pc[a] \in PreClaim \cup {"IDLE", "CLAIMED"} => order[a] = "NONE"
        /\ pc[a] = "SENT" => Sent(a)

ClaimIsOpen ==
    \A a \in Attempts :
        pc[a] \in {"CLAIMED", "SENT"} => status[IntentOf[a]] \in Unresolved \/ Audited(a)

HeldRowsUnidentified ==
    /\ \A a \in Attempts : snap[a].orderId = Null
    /\ \A k \in Keys : recov[k].orderId = Null

\* Only finitely many attempts ever claimed, however many there are.
FinitelyClaimed == IsFiniteSet({a \in Attempts : Claimed(a)})

ClaimInv ==
    /\ ClaimOnRecord /\ ClaimIsUnique /\ OrderFollowsSteps /\ ClaimIsOpen
    /\ HeldRowsUnidentified /\ LiveOrderOnRecord /\ IdentityIsExact
    /\ FinitelyClaimed

(***************************************************************************)
(* Part two is about the account.  What the acquisition checked stays true *)
(* for as long as the lease row still names its owner: nobody else can     *)
(* claim in that account.  So the position snapshot, and later the checked *)
(* symbol and the counted room, stay a bound on everything that can become *)
(* a position.                                                             *)
(***************************************************************************)
Holds(a) == owner[AccountOf[a]] = a

HolderAlone(a) ==
    pc[a] \in PreClaim /\ Holds(a) =>
        \A k \in Keys :
            status[k] \in Unresolved /\ account[k] = AccountOf[a] => k = IntentOf[a]

Rival(a, b) ==
    /\ Exposed(b)
    /\ AccountOf[b] = AccountOf[a]
    /\ IntentOf[b] # IntentOf[a]
    /\ ~ Audited(b)

SnapshotBounds(a) ==
    pc[a] = "OBSERVED" /\ Holds(a) /\ a \notin blind =>
        /\ IsFiniteSet(seen[a])
        /\ \A b \in Attempts : Rival(a, b) => b \in seen[a]

SymbolStaysFree(a) ==
    pc[a] \in {"READY", "COUNTED"} /\ Holds(a) /\ a \notin blind =>
        \A b \in Attempts : Rival(a, b) => SymbolOf[IntentOf[b]] # SymbolOf[IntentOf[a]]

Rivals(a) == {b \in Attempts : Rival(a, b)}

RoomStaysFree(a) ==
    pc[a] \in {"READY", "COUNTED"} /\ Holds(a) /\ a \notin blind =>
        Cardinality(Rivals(a)) < MaxOpen

PlaceInv(a) ==
    HolderAlone(a) /\ SnapshotBounds(a) /\ SymbolStaysFree(a) /\ RoomStaysFree(a)

\* WithinOpenLimit is not inductive: an excused exposure may end and leave the
\* others.  The unexcused exposures alone never exceed the limit.
Unexcused(s) == {a \in Attempts : AccountOf[a] = s /\ Exposed(a) /\ ~ Excused(a)}

UnexcusedWithinLimit == \A s \in Scopes : Cardinality(Unexcused(s)) <= MaxOpen

AccountInv ==
    /\ \A a \in Attempts : PlaceInv(a)
    /\ OneUnresolvedPerAccount
    /\ NoDuplicateExposure
    /\ UnexcusedWithinLimit

Inductive == TypeOK /\ ClaimInv /\ AccountInv

-----------------------------------------------------------------------------
(***************************************************************************)
(* What the guarded update does to the store                               *)
(***************************************************************************)
\* A write either leaves the store alone, or decides an unresolved row, or
\* repeats the decision the row already carries.
Write(k, to, id) ==
    /\ account' = account
    /\ \/ status' = status /\ orderId' = orderId
       \/ /\ status[k] \in Unresolved \/ status[k] = to
          /\ status' = [status EXCEPT ![k] = to]
          /\ orderId' = [orderId EXCEPT ![k] = id]

\* transition() writes only along its table of allowed transitions.
LEMMA PersistWrites ==
    ASSUME TypeOK, NEW k \in Keys, NEW to \in Statuses, NEW id, Persist(k, to, id)
    PROVE  Write(k, to, id)
  <1>1. status[k] \in Statuses
    BY DEF TypeOK
  <1>2. to \in AllowedTransitions[status[k]] => status[k] \in Unresolved \/ status[k] = to
    BY <1>1 DEF AllowedTransitions, Statuses, Unresolved
  <1> QED BY <1>2 DEF Persist, Transition, Write

\* A row that carries no broker identity is never confirmed: the evidence
\* turns a PENDING row into UNKNOWN at most.
LEMMA EvidenceWritesUnknown ==
    ASSUME TypeOK, NEW k \in Keys, NEW row \in Rows, row.orderId = Null,
           NEW e \in Evidence(row), ApplyEvidence(k, row, e)
    PROVE  Write(k, "UNKNOWN", Null)
  <1>1. e # "CONFIRMED_MATCH"
    BY DEF Evidence
  <1>2. CASE row.status = "PENDING"
    BY <1>1, <1>2, PersistWrites DEF ApplyEvidence, Statuses
  <1>3. CASE row.status # "PENDING"
    BY <1>1, <1>3 DEF ApplyEvidence, Write
  <1> QED BY <1>2, <1>3

-----------------------------------------------------------------------------
(***************************************************************************)
(* Counting                                                                *)
(***************************************************************************)
\* A part of a finite set is finite and has no more elements.
LEMMA PartIsSmaller ==
    ASSUME NEW T, IsFiniteSet(T), NEW S, S \subseteq T
    PROVE  /\ IsFiniteSet(S)
           /\ Cardinality(S) \in Nat /\ Cardinality(T) \in Nat
           /\ Cardinality(S) <= Cardinality(T)
  BY FS_Subset, FS_CardinalityType

\* One element more makes a finite set at most one larger.
LEMMA OneMore ==
    ASSUME NEW T, IsFiniteSet(T), NEW x, NEW S, S \subseteq T \cup {x}
    PROVE  /\ IsFiniteSet(S)
           /\ Cardinality(S) \in Nat /\ Cardinality(T) \in Nat
           /\ Cardinality(S) <= Cardinality(T) + 1
  <1>1. /\ IsFiniteSet(T \cup {x})
        /\ Cardinality(T \cup {x}) = Cardinality(T) \/ Cardinality(T \cup {x}) = Cardinality(T) + 1
    BY FS_AddElement
  <1>2. IsFiniteSet(S) /\ Cardinality(S) <= Cardinality(T \cup {x})
    BY <1>1, FS_Subset
  <1>3. Cardinality(T) \in Nat /\ Cardinality(S) \in Nat /\ Cardinality(T \cup {x}) \in Nat
    BY <1>1, <1>2, FS_CardinalityType
  <1> QED BY <1>1, <1>2, <1>3

\* A step by which nobody claims keeps the claims finite.
LEMMA FinitelyClaimedKept ==
    ASSUME FinitelyClaimed, \A b \in Attempts : Claimed(b)' => Claimed(b)
    PROVE  FinitelyClaimed'
  <1> DEFINE old == {a \in Attempts : Claimed(a)}
             new == {a \in Attempts : Claimed(a)'}
  <1>1. new \subseteq old /\ IsFiniteSet(old)
    BY DEF FinitelyClaimed
  <1>2. IsFiniteSet(new)
    BY <1>1, PartIsSmaller
  <1> QED BY <1>2 DEF FinitelyClaimed

-----------------------------------------------------------------------------
\* The inductive invariant holds of a fresh database.
LEMMA InductiveInit == Init => Inductive
  <1> SUFFICES ASSUME Init PROVE Inductive
    OBVIOUS
  <1>1. TypeOK
    BY TypeInit
  <1>f. FinitelyClaimed
    <2>1. {a \in Attempts : Claimed(a)} = {}
      BY DEF Init, Claimed, Sent
    <2> QED BY <2>1, FS_EmptySet DEF FinitelyClaimed
  <1>2. ClaimInv
    BY <1>f, AttemptsAssumption
    DEF Init, ClaimInv, ClaimOnRecord, ClaimIsUnique, OrderFollowsSteps, ClaimIsOpen,
        HeldRowsUnidentified, LiveOrderOnRecord, IdentityIsExact, Claimed, Sent, NoRow,
        PreClaim
  <1>u. UnexcusedWithinLimit
    <2> SUFFICES ASSUME NEW s \in Scopes PROVE Cardinality(Unexcused(s)) <= MaxOpen
      BY DEF UnexcusedWithinLimit
    <2>1. Unexcused(s) = {}
      BY DEF Init, Unexcused, Exposed
    <2> QED BY <2>1, FS_EmptySet, BoundsAssumption
  <1>3. AccountInv
    BY <1>u, AttemptsAssumption
    DEF Init, AccountInv, PlaceInv, HolderAlone, OneUnresolvedPerAccount, SnapshotBounds,
        SymbolStaysFree, RoomStaysFree, NoDuplicateExposure, SameExposure, Exposed, Unresolved,
        PreClaim
  <1> QED BY <1>1, <1>2, <1>3 DEF Inductive

\* The steps of submit that only move the attempt along, and write no row and
\* no order.
LEMMA QuietStepClaimInv ==
    ASSUME Inductive, NEW a \in Attempts, NEW step \in PCs,
           UNCHANGED <<store, order, audit, recov>>,
           pc' = [pc EXCEPT ![a] = step],
           snap' \in [Attempts -> Rows],
           \A b \in Attempts : snap'[b].orderId = Null,
           step # "CLAIMED", step # "SENT",
           step \in PreClaim => pc[a] \in PreClaim \cup {"IDLE"}, step # "IDLE"
    PROVE  ClaimInv'
  <1> USE AttemptsAssumption DEF Inductive, TypeOK, ClaimInv
  <1>1. ClaimOnRecord'
    BY DEF ClaimOnRecord, Claimed, Sent
  <1>2. ClaimIsUnique'
    BY DEF ClaimIsUnique, Claimed, Sent
  <1>3. OrderFollowsSteps'
    BY DEF OrderFollowsSteps, Sent, PreClaim
  <1>4. ClaimIsOpen'
    BY DEF ClaimIsOpen, Audited
  <1>5. HeldRowsUnidentified'
    BY DEF HeldRowsUnidentified
  <1>6. LiveOrderOnRecord'
    BY DEF LiveOrderOnRecord
  <1>7. IdentityIsExact'
    BY DEF IdentityIsExact
  <1>8. FinitelyClaimed'
    BY FinitelyClaimedKept DEF Claimed, Sent
  <1> QED BY <1>1, <1>2, <1>3, <1>4, <1>5, <1>6, <1>7, <1>8

\* A reconciliation or recovery write: PENDING to UNKNOWN, whoever makes it.
LEMMA UnknownWriteClaimInv ==
    ASSUME Inductive, NEW k \in Keys, Write(k, "UNKNOWN", Null),
           UNCHANGED <<order, audit>>,
           \/ pc' = pc
           \/ \E a \in Attempts : /\ pc[a] = "RECONCILING"
                                  /\ pc' = [pc EXCEPT ![a] = "RELEASING"],
           \A b \in Attempts : snap'[b].orderId = Null,
           \A j \in Keys : recov'[j].orderId = Null
    PROVE  ClaimInv'
  <1> USE AttemptsAssumption DEF Inductive, TypeOK, ClaimInv, Write
  <1>1. ClaimOnRecord'
    BY DEF ClaimOnRecord, Claimed, Sent, Unresolved
  <1>2. ClaimIsUnique'
    BY DEF ClaimIsUnique, Claimed, Sent
  <1>3. OrderFollowsSteps'
    BY DEF OrderFollowsSteps, Sent, PreClaim
  <1>4. ClaimIsOpen'
    BY DEF ClaimIsOpen, Audited, Unresolved
  <1>5. HeldRowsUnidentified'
    BY DEF HeldRowsUnidentified
  <1>6. LiveOrderOnRecord'
    BY DEF LiveOrderOnRecord, Unresolved
  <1>7. IdentityIsExact'
    BY DEF IdentityIsExact, Unresolved
  <1>8. FinitelyClaimed'
    BY FinitelyClaimedKept DEF Claimed, Sent
  <1> QED BY <1>1, <1>2, <1>3, <1>4, <1>5, <1>6, <1>7, <1>8

\* The sender writes what it learnt about its own order.
Learnt(a, to, id) ==
    \/ to = "ACCEPTED" /\ id = a /\ order[a] \in {"OPEN", "CLOSED"}
    \/ to = "REJECTED" /\ id = Null /\ order[a] \in {"NONE", "REFUSED"}
    \/ to = "UNKNOWN" /\ id = Null

\* The sender's own write, of what it learnt about its own order.
LEMMA SenderWriteClaimInv ==
    ASSUME Inductive, NEW a \in Attempts,
           NEW to \in Statuses, NEW id \in Attempts \cup {Null},
           pc[a] \in {"CLAIMED", "SENT"}, pc' = [pc EXCEPT ![a] = "RELEASING"],
           Learnt(a, to, id), Write(IntentOf[a], to, id),
           UNCHANGED <<order, audit, snap, recov>>
    PROVE  ClaimInv'
  <1> USE AttemptsAssumption DEF Inductive, TypeOK, ClaimInv, Write, Learnt
  <1>0. \A b \in Attempts : Claimed(b) /\ IntentOf[b] = IntentOf[a] => b = a
    BY DEF ClaimIsUnique, Claimed
  <1>1. ClaimOnRecord'
    <2>1. \A b \in Attempts : Claimed(b)' => Claimed(b)
      BY DEF Claimed, Sent
    <2>2. \A j \in Keys : status[j] # "ABSENT" => status'[j] # "ABSENT"
      BY DEF Unresolved
    <2> QED BY <2>1, <2>2 DEF ClaimOnRecord
  <1>2. ClaimIsUnique'
    BY DEF ClaimIsUnique, Claimed, Sent
  <1>3. OrderFollowsSteps'
    BY DEF OrderFollowsSteps, Sent, PreClaim
  <1>4. ClaimIsOpen'
    BY <1>0 DEF ClaimIsOpen, Claimed, Audited, Unresolved
  <1>5. HeldRowsUnidentified'
    BY DEF HeldRowsUnidentified
  <1>6. LiveOrderOnRecord'
    BY <1>0 DEF LiveOrderOnRecord, Claimed, Sent, Unresolved
  <1>7. IdentityIsExact'
    BY DEF IdentityIsExact, Unresolved
  <1>8. FinitelyClaimed'
    BY FinitelyClaimedKept DEF Claimed, Sent
  <1> QED BY <1>1, <1>2, <1>3, <1>4, <1>5, <1>6, <1>7, <1>8

\* A successful claim: no other attempt can have claimed the key.
LEMMA ClaimStepClaimInv ==
    ASSUME Inductive, NEW a \in Attempts, Claim(a)
    PROVE  ClaimInv'
  <1> USE AttemptsAssumption DEF Inductive, TypeOK, ClaimInv, Claim, Goto
  <1>0. status[IntentOf[a]] = "ABSENT"
    BY DEF MayClaim
  <1>00. \A b \in Attempts : Claimed(b) => IntentOf[b] # IntentOf[a]
    BY <1>0 DEF ClaimOnRecord
  <1>1. ClaimOnRecord'
    BY <1>00 DEF ClaimOnRecord, Claimed, Sent
  <1>2. ClaimIsUnique'
    BY <1>00 DEF ClaimIsUnique, Claimed, Sent
  <1>3. OrderFollowsSteps'
    BY DEF OrderFollowsSteps, Sent, PreClaim
  <1>4. ClaimIsOpen'
    BY <1>00 DEF ClaimIsOpen, Claimed, Audited, Unresolved
  <1>5. HeldRowsUnidentified'
    BY DEF HeldRowsUnidentified
  <1>6. LiveOrderOnRecord'
    BY <1>00 DEF LiveOrderOnRecord, Claimed, Sent
  <1>7. IdentityIsExact'
    BY DEF IdentityIsExact
  <1>8. FinitelyClaimed'
    <2> DEFINE old == {b \in Attempts : Claimed(b)}
               new == {b \in Attempts : Claimed(b)'}
    <2>1. new \subseteq old \cup {a} /\ IsFiniteSet(old)
      BY DEF FinitelyClaimed, Claimed, Sent
    <2>2. IsFiniteSet(new)
      BY <2>1, OneMore
    <2> QED BY <2>2 DEF FinitelyClaimed
  <1> QED BY <1>1, <1>2, <1>3, <1>4, <1>5, <1>6, <1>7, <1>8

\* Sending the order of a claimed intent.
LEMMA SendStepClaimInv ==
    ASSUME Inductive, NEW a \in Attempts, SendOrder(a)
    PROVE  ClaimInv'
  <1> USE AttemptsAssumption DEF Inductive, TypeOK, ClaimInv, SendOrder, Goto
  <1>0. Claimed(a) /\ order[a] = "NONE"
    BY DEF Claimed, OrderFollowsSteps
  <1>1. ClaimOnRecord'
    BY <1>0 DEF ClaimOnRecord, Claimed, Sent
  <1>2. ClaimIsUnique'
    BY <1>0 DEF ClaimIsUnique, Claimed, Sent
  <1>3. OrderFollowsSteps'
    BY DEF OrderFollowsSteps, Sent, PreClaim
  <1>4. ClaimIsOpen'
    BY DEF ClaimIsOpen, Audited
  <1>5. HeldRowsUnidentified'
    BY DEF HeldRowsUnidentified
  <1>6. LiveOrderOnRecord'
    BY DEF LiveOrderOnRecord, ClaimIsOpen, Audited
  <1>7. IdentityIsExact'
    BY <1>0 DEF IdentityIsExact
  <1>8. FinitelyClaimed'
    BY <1>0, FinitelyClaimedKept DEF Claimed, Sent
  <1> QED BY <1>1, <1>2, <1>3, <1>4, <1>5, <1>6, <1>7, <1>8

\* The broker fills, refuses or closes an order it has.
LEMMA BrokerStepClaimInv ==
    ASSUME Inductive, NEW a \in Attempts, BrokerStep(a)
    PROVE  ClaimInv'
  <1> USE AttemptsAssumption DEF Inductive, TypeOK, ClaimInv, BrokerStep
  <1>0. Sent(a) /\ Sent(a)'
    BY DEF Sent
  <1>1. ClaimOnRecord'
    BY <1>0 DEF ClaimOnRecord, Claimed, Sent
  <1>2. ClaimIsUnique'
    BY <1>0 DEF ClaimIsUnique, Claimed, Sent
  <1>3. OrderFollowsSteps'
    BY <1>0 DEF OrderFollowsSteps, Sent, PreClaim
  <1>4. ClaimIsOpen'
    BY DEF ClaimIsOpen, Audited
  <1>5. HeldRowsUnidentified'
    BY DEF HeldRowsUnidentified
  <1>6. LiveOrderOnRecord'
    BY DEF LiveOrderOnRecord
  <1>7. IdentityIsExact'
    BY DEF IdentityIsExact
  <1>8. FinitelyClaimed'
    BY <1>0, FinitelyClaimedKept DEF Claimed, Sent
  <1> QED BY <1>1, <1>2, <1>3, <1>4, <1>5, <1>6, <1>7, <1>8

\* The operator resolves an UNKNOWN intent by hand.
LEMMA ConfirmClaimInv ==
    ASSUME Inductive, NEW k \in Keys, ConfirmResolution(k)
    PROVE  ClaimInv'
  <1> USE AttemptsAssumption DEF Inductive, TypeOK, ClaimInv, ConfirmResolution
  <1>1. ClaimOnRecord'
    BY DEF ClaimOnRecord, Claimed, Sent
  <1>2. ClaimIsUnique'
    BY DEF ClaimIsUnique, Claimed, Sent
  <1>3. OrderFollowsSteps'
    BY DEF OrderFollowsSteps, Sent, PreClaim
  <1>4. ClaimIsOpen'
    BY DEF ClaimIsOpen, Audited
  <1>5. HeldRowsUnidentified'
    BY DEF HeldRowsUnidentified
  <1>6. LiveOrderOnRecord'
    BY DEF LiveOrderOnRecord
  <1>7. IdentityIsExact'
    BY DEF IdentityIsExact
  <1>8. FinitelyClaimed'
    BY FinitelyClaimedKept DEF Claimed, Sent
  <1> QED BY <1>1, <1>2, <1>3, <1>4, <1>5, <1>6, <1>7, <1>8

-----------------------------------------------------------------------------
(***************************************************************************)
(* The account part.  Most steps add neither an unresolved row nor an      *)
(* exposure: whatever held of an attempt that keeps its place still holds. *)
(***************************************************************************)
NothingAdded ==
    /\ \A k \in Keys :
           status'[k] \in Unresolved => status[k] \in Unresolved /\ account'[k] = account[k]
    /\ \A b \in Attempts : Exposed(b)' => Exposed(b)
    /\ audit \subseteq audit'
    /\ blind \subseteq blind'

KeepsPlace(b) ==
    pc'[b] \in PreClaim /\ Holds(b)' =>
        /\ pc[b] \in PreClaim /\ Holds(b)
        /\ pc'[b] = "OBSERVED" => pc[b] = "OBSERVED" /\ seen'[b] = seen[b]
        /\ pc'[b] \in {"READY", "COUNTED"} => pc[b] \in {"READY", "COUNTED"}

\* Whatever is exposed was claimed, so the exposures are finitely many.
LEMMA ExposedFinite ==
    ASSUME Inductive, NEW S, S \subseteq {b \in Attempts : Exposed(b)}
    PROVE  IsFiniteSet(S) /\ Cardinality(S) \in Nat
  <1>1. S \subseteq {b \in Attempts : Claimed(b)}
    BY DEF Exposed, Claimed, Sent
  <1> QED BY <1>1, PartIsSmaller DEF Inductive, ClaimInv, FinitelyClaimed

\* A step that adds no exposure and forgets no excuse adds no rival.
LEMMA RoomKept ==
    ASSUME Inductive, NothingAdded, NEW a \in Attempts, Cardinality(Rivals(a)) < MaxOpen
    PROVE  Cardinality(Rivals(a)') < MaxOpen
  <1>1. Rivals(a)' \subseteq Rivals(a) /\ Rivals(a) \subseteq {b \in Attempts : Exposed(b)}
    BY DEF Rivals, Rival, Audited, NothingAdded
  <1>2. IsFiniteSet(Rivals(a))
    BY <1>1, ExposedFinite
  <1> QED BY <1>1, <1>2, PartIsSmaller, BoundsAssumption

\* A step that adds nothing to the account keeps the place of an attempt.
LEMMA PlaceKept ==
    ASSUME Inductive, NothingAdded, NEW a \in Attempts, KeepsPlace(a)
    PROVE  PlaceInv(a)'
  <1> USE DEF Inductive, AccountInv, PlaceInv, NothingAdded, KeepsPlace
  <1>0. \A b \in Attempts : Rival(a, b)' => Rival(a, b)
    BY DEF Rival, Audited
  <1>1. HolderAlone(a)'
    BY DEF HolderAlone, Holds
  <1>2. SnapshotBounds(a)'
    BY <1>0 DEF SnapshotBounds, PreClaim
  <1>3. SymbolStaysFree(a)'
    BY <1>0 DEF SymbolStaysFree, PreClaim
  <1>4. RoomStaysFree(a)'
    BY RoomKept DEF RoomStaysFree, PreClaim
  <1> QED BY <1>1, <1>2, <1>3, <1>4

\* A step that adds nothing keeps the statements about whole accounts.
LEMMA AccountsKept ==
    ASSUME Inductive, NothingAdded
    PROVE  OneUnresolvedPerAccount' /\ NoDuplicateExposure' /\ UnexcusedWithinLimit'
  <1> USE DEF Inductive, AccountInv, NothingAdded
  <1>1. OneUnresolvedPerAccount'
    BY DEF OneUnresolvedPerAccount
  <1>2. NoDuplicateExposure'
    BY DEF NoDuplicateExposure, SameExposure, Excused
  <1>3. ASSUME NEW s \in Scopes PROVE Cardinality(Unexcused(s)') <= MaxOpen
    <2>1. Unexcused(s)' \subseteq Unexcused(s) /\ Unexcused(s) \subseteq {b \in Attempts : Exposed(b)}
      BY DEF Unexcused, Excused
    <2>2. IsFiniteSet(Unexcused(s))
      BY <2>1, ExposedFinite
    <2>3. Cardinality(Unexcused(s)) <= MaxOpen
      BY DEF UnexcusedWithinLimit
    <2> QED BY <2>1, <2>2, <2>3, PartIsSmaller, BoundsAssumption
  <1> QED BY <1>1, <1>2, <1>3 DEF UnexcusedWithinLimit

\* So a step that adds nothing and lets nobody into a place is harmless.
LEMMA AccountKept ==
    ASSUME Inductive, NothingAdded, \A b \in Attempts : KeepsPlace(b)
    PROVE  AccountInv'
  BY PlaceKept, AccountsKept DEF AccountInv

\* Everything that is or may become a position is on an unresolved row, is
\* open at the broker, or was resolved by the operator.
LEMMA ExposedAccounted ==
    ASSUME Inductive, NEW b \in Attempts, Exposed(b)
    PROVE  /\ Claimed(b)
           /\ \/ status[IntentOf[b]] \in Unresolved /\ account[IntentOf[b]] = AccountOf[b]
              \/ order[b] = "OPEN"
              \/ Audited(b)
  BY AttemptsAssumption
  DEF Inductive, ClaimInv, Exposed, Claimed, Sent, ClaimOnRecord, ClaimIsOpen,
      LiveOrderOnRecord, Audited

\* A new holder starts with no other unresolved intent in its account.
LEMMA AcquireAccountInv ==
    ASSUME Inductive, NEW a \in Attempts, Acquire(a)
    PROVE  AccountInv'
  <1> USE AttemptsAssumption DEF Inductive, TypeOK, Acquire, Goto
  <1>1. NothingAdded
    BY DEF NothingAdded, Exposed
  <1>2. \A b \in Attempts \ {a} : KeepsPlace(b)
    BY DEF KeepsPlace, Holds
  <1>3. PlaceInv(a)'
    BY DEF PlaceInv, HolderAlone, SnapshotBounds, SymbolStaysFree, RoomStaysFree,
           HasOtherUnresolvedIntent
  <1> QED BY <1>1, <1>2, <1>3, PlaceKept, AccountsKept DEF AccountInv

\* A full position snapshot bounds everything that can become a position.
LEMMA ObserveAccountInv ==
    ASSUME Inductive, NEW a \in Attempts, Observe(a)
    PROVE  AccountInv'
  <1> USE AttemptsAssumption DEF Inductive, TypeOK, Observe, Goto
  <1>1. NothingAdded
    BY DEF NothingAdded, Exposed
  <1>2. \A b \in Attempts \ {a} : KeepsPlace(b)
    BY DEF KeepsPlace, Holds
  <1>3. HolderAlone(a)'
    BY DEF AccountInv, PlaceInv, HolderAlone, Holds, PreClaim
  <1>4. SnapshotBounds(a)'
    <2>f. IsFiniteSet(seen'[a])
      <3>1. seen'[a] \subseteq {b \in Attempts : Exposed(b)}
        BY DEF OpenPositions, Exposed
      <3> QED BY <3>1, ExposedFinite
    <2> SUFFICES ASSUME Holds(a), NEW b \in Attempts, Rival(a, b)
                 PROVE  b \in seen'[a]
      BY <2>f DEF SnapshotBounds, Holds, Rival, Exposed, Audited
    <2>1. IntentOf[b] \in Keys /\ pc[a] \in PreClaim
      BY DEF PreClaim
    <2>2. ~ (status[IntentOf[b]] \in Unresolved /\ account[IntentOf[b]] = AccountOf[b])
      BY <2>1 DEF AccountInv, PlaceInv, HolderAlone, Rival
    <2>3. order[b] = "OPEN"
      BY <2>2, ExposedAccounted DEF Rival
    <2> QED BY <2>3 DEF OpenPositions, Rival
  <1>5. SymbolStaysFree(a)' /\ RoomStaysFree(a)'
    BY DEF SymbolStaysFree, RoomStaysFree
  <1> QED BY <1>1, <1>2, <1>3, <1>4, <1>5, PlaceKept, AccountsKept DEF AccountInv, PlaceInv

\* A failed position read is remembered and promises nothing.
LEMMA ObserveBlindAccountInv ==
    ASSUME Inductive, NEW a \in Attempts, ObserveBlind(a)
    PROVE  AccountInv'
  <1> USE AttemptsAssumption DEF Inductive, TypeOK, ObserveBlind, Goto
  <1>1. NothingAdded
    BY DEF NothingAdded, Exposed
  <1>2. \A b \in Attempts \ {a} : KeepsPlace(b)
    BY DEF KeepsPlace, Holds
  <1>3. PlaceInv(a)'
    BY DEF AccountInv, PlaceInv, HolderAlone, SnapshotBounds, SymbolStaysFree, RoomStaysFree,
           Holds, PreClaim
  <1> QED BY <1>1, <1>2, <1>3, PlaceKept, AccountsKept DEF AccountInv

\* evaluate() and the row that get() returned leave an attempt four ways to go.
LEMMA EvaluateGoes ==
    ASSUME NEW a \in Attempts, Evaluate(a)
    PROVE  \E step \in {"READY", "COUNTED", "RECONCILING", "RELEASING"} : pc' = [pc EXCEPT ![a] = step]
  <1> DEFINE k == IntentOf[a]
  <1>1. CASE status[k] = "ABSENT"
    BY <1>1 DEF Evaluate, AfterApproval, Goto, Unresolved
  <1>2. CASE status[k] \in Unresolved
    BY <1>2 DEF Evaluate, Goto, Unresolved
  <1>3. CASE status[k] # "ABSENT" /\ status[k] \notin Unresolved
    BY <1>3 DEF Evaluate, Goto, Unresolved
  <1> QED BY <1>1, <1>2, <1>3

\* The policy turns the snapshot into a free symbol and into room for one more.
LEMMA EvaluateAccountInv ==
    ASSUME Inductive, NEW a \in Attempts, Evaluate(a)
    PROVE  AccountInv'
  <1> USE AttemptsAssumption DEF Inductive, TypeOK, Evaluate, Goto
  <1>0. PICK step \in {"READY", "COUNTED", "RECONCILING", "RELEASING"} : pc' = [pc EXCEPT ![a] = step]
    BY EvaluateGoes
  <1>1. NothingAdded
    BY <1>0 DEF NothingAdded, Exposed
  <1>2. \A b \in Attempts \ {a} : KeepsPlace(b)
    BY <1>0 DEF KeepsPlace, Holds
  <1>3. HolderAlone(a)'
    BY <1>0 DEF AccountInv, PlaceInv, HolderAlone, Holds, PreClaim
  <1>4. SnapshotBounds(a)'
    BY <1>0 DEF SnapshotBounds
  <1>5. SymbolStaysFree(a)'
    <2> SUFFICES ASSUME Holds(a), a \notin blind, NEW b \in Attempts, Rival(a, b)
                 PROVE  SymbolOf[IntentOf[b]] # SymbolOf[IntentOf[a]]
      BY <1>0 DEF SymbolStaysFree, Holds, Rival, Exposed, Audited
    <2>1. b \in seen[a]
      BY DEF AccountInv, PlaceInv, SnapshotBounds
    <2> QED BY <2>1 DEF PolicyAllows, SymbolTaken
  <1>6. RoomStaysFree(a)'
    <2> SUFFICES ASSUME Holds(a), a \notin blind
                 PROVE  Cardinality(Rivals(a)') < MaxOpen
      BY <1>0 DEF RoomStaysFree, Holds
    <2>1. IsFiniteSet(seen[a]) /\ Rivals(a) \subseteq seen[a]
      BY DEF AccountInv, PlaceInv, SnapshotBounds, Rivals
    <2>2. Cardinality(Rivals(a)) < MaxOpen
      BY <2>1, PartIsSmaller, BoundsAssumption DEF PolicyAllows
    <2> QED BY <1>1, <2>2, RoomKept
  <1> QED BY <1>1, <1>2, <1>3, <1>4, <1>5, <1>6, PlaceKept, AccountsKept DEF AccountInv, PlaceInv

\* The only step that adds an unresolved row and an exposure.
LEMMA ClaimAccountInv ==
    ASSUME Inductive, NEW a \in Attempts, Claim(a)
    PROVE  AccountInv'
  <1> USE AttemptsAssumption DEF Inductive, TypeOK, Claim, Goto
  <1>1. Holds(a) /\ status[IntentOf[a]] = "ABSENT"
    BY DEF MayClaim, Holds
  <1>2. \A k \in Keys : status[k] \in Unresolved => account[k] # AccountOf[a]
    BY <1>1 DEF AccountInv, PlaceInv, HolderAlone, PreClaim, Unresolved
  <1>3. \A b \in Attempts : Exposed(b) => IntentOf[b] # IntentOf[a]
    BY <1>1, ExposedAccounted DEF ClaimInv, ClaimOnRecord
  <1>4. OneUnresolvedPerAccount'
    BY <1>2 DEF AccountInv, OneUnresolvedPerAccount, Unresolved
  <1>5. NoDuplicateExposure'
    <2>1. \A b \in Attempts \ {a} : Exposed(b)' => Exposed(b)
      BY DEF Exposed
    <2>2. \A b \in Attempts \ {a} :
              Exposed(b) /\ AccountOf[b] = AccountOf[a]
                /\ SymbolOf[IntentOf[b]] = SymbolOf[IntentOf[a]]
              => Excused(a) \/ Excused(b)
      BY <1>1, <1>3 DEF AccountInv, PlaceInv, SymbolStaysFree, Rival, Excused, Audited
    <2>3. \A b \in Attempts : Excused(b) = Excused(b)'
      BY DEF Excused
    <2> QED BY <2>1, <2>2, <2>3 DEF AccountInv, NoDuplicateExposure, SameExposure
  <1>6. ASSUME NEW b \in Attempts PROVE PlaceInv(b)'
    <2>1. CASE pc'[b] \notin PreClaim \/ ~ Holds(b)'
      BY <2>1 DEF PlaceInv, HolderAlone, SnapshotBounds, SymbolStaysFree, RoomStaysFree, PreClaim
    <2>2. CASE pc'[b] \in PreClaim /\ Holds(b)'
      <3>1. b # a
        BY <2>2 DEF PreClaim
      <3>2. pc[b] = pc'[b] /\ Holds(b) /\ AccountOf[b] # AccountOf[a]
        BY <1>1, <2>2, <3>1 DEF Holds
      <3>3. HolderAlone(b)'
        BY <3>2 DEF AccountInv, PlaceInv, HolderAlone, Holds
      <3>4. \A c \in Attempts : Rival(b, c)' => Rival(b, c)
        BY <3>2 DEF Rival, Exposed, Audited
      <3>5. SnapshotBounds(b)' /\ SymbolStaysFree(b)'
        BY <3>2, <3>4 DEF AccountInv, PlaceInv, SnapshotBounds, SymbolStaysFree
      <3>6. RoomStaysFree(b)'
        <4> SUFFICES ASSUME Cardinality(Rivals(b)) < MaxOpen
                     PROVE  Cardinality(Rivals(b)') < MaxOpen
          BY <3>2 DEF AccountInv, PlaceInv, RoomStaysFree
        <4>1. Rivals(b)' \subseteq Rivals(b) /\ Rivals(b) \subseteq {c \in Attempts : Exposed(c)}
          BY <3>4 DEF Rivals, Rival
        <4>2. IsFiniteSet(Rivals(b))
          BY <4>1, ExposedFinite
        <4> QED BY <4>1, <4>2, PartIsSmaller, BoundsAssumption
      <3> QED BY <3>3, <3>5, <3>6 DEF PlaceInv
    <2> QED BY <2>1, <2>2
  <1>7. ASSUME NEW s \in Scopes PROVE Cardinality(Unexcused(s)') <= MaxOpen
    <2>1. /\ \A b \in Attempts \ {a} : Exposed(b)' => Exposed(b)
          /\ \A b \in Attempts : Excused(b)' = Excused(b)
      BY DEF Exposed, Excused
    <2>2. CASE s # AccountOf[a] \/ Excused(a)
      <3>1. Unexcused(s)' \subseteq Unexcused(s)
        BY <2>1, <2>2 DEF Unexcused
      <3>2. Unexcused(s) \subseteq {b \in Attempts : Exposed(b)}
        BY DEF Unexcused
      <3>3. IsFiniteSet(Unexcused(s)) /\ Cardinality(Unexcused(s)) <= MaxOpen
        BY <3>2, ExposedFinite DEF AccountInv, UnexcusedWithinLimit
      <3> QED BY <3>1, <3>3, PartIsSmaller, BoundsAssumption
    <2>3. CASE s = AccountOf[a] /\ ~ Excused(a)
      <3>1. Unexcused(s)' \subseteq Rivals(a) \cup {a}
        BY <1>3, <2>1, <2>3 DEF Unexcused, Rivals, Rival, Excused, Audited
      <3>2. Cardinality(Rivals(a)) < MaxOpen
        BY <1>1, <2>3 DEF AccountInv, PlaceInv, RoomStaysFree, Excused
      <3>3. Rivals(a) \subseteq {b \in Attempts : Exposed(b)}
        BY DEF Rivals, Rival
      <3>4. IsFiniteSet(Rivals(a))
        BY <3>3, ExposedFinite
      <3>5. /\ Cardinality(Unexcused(s)') <= Cardinality(Rivals(a)) + 1
            /\ Cardinality(Unexcused(s)') \in Nat /\ Cardinality(Rivals(a)) \in Nat
        BY <3>1, <3>4, OneMore
      <3> QED BY <3>2, <3>5, BoundsAssumption
    <2> QED BY <2>2, <2>3
  <1> QED BY <1>4, <1>5, <1>6, <1>7 DEF AccountInv, UnexcusedWithinLimit

-----------------------------------------------------------------------------
(***************************************************************************)
(* Every step keeps the inductive invariant                                *)
(***************************************************************************)
\* Every step of submit keeps the inductive invariant.
LEMMA SubmitInductive ==
    ASSUME Inductive, NEW a \in Attempts, Submit(a)
    PROVE  ClaimInv' /\ AccountInv'
  <1> USE AttemptsAssumption
  <1>t. TypeOK /\ IntentOf[a] \in Keys
    BY DEF Inductive
  <1>r. \A b \in Attempts : snap[b].orderId = Null
    BY DEF Inductive, ClaimInv, HeldRowsUnidentified
  <1>n. NoRow.orderId = Null
    BY DEF NoRow
  <1>p. PreClaim \subseteq PCs /\ Running \subseteq PCs
    BY DEF PCs, Running
  <1>f. Fetch(a) => snap' \in [Attempts -> Rows] /\ \A b \in Attempts : snap'[b].orderId = Null
    BY <1>t, <1>r, <1>n, RowType, NoRowType
    DEF Fetch, Row, TypeOK, Inductive, ClaimInv, IdentityIsExact, Unresolved
  <1>1. CASE Acquire(a)
    <2>1. ClaimInv'
      BY <1>1, <1>t, <1>r, <1>p, QuietStepClaimInv DEF Acquire, Goto, TypeOK, PreClaim
    <2> QED BY <1>1, <2>1, AcquireAccountInv
  <1>2. CASE AcquireRefused(a)
    <2>1. ClaimInv'
      BY <1>2, <1>t, <1>r, QuietStepClaimInv DEF AcquireRefused, Goto, TypeOK, PreClaim, PCs
    <2>2. NothingAdded /\ \A b \in Attempts : KeepsPlace(b)
      BY <1>2, <1>t DEF AcquireRefused, Goto, TypeOK, NothingAdded, KeepsPlace, Exposed, Holds,
                        PreClaim
    <2> QED BY <2>1, <2>2, AccountKept
  <1>3. CASE Observe(a)
    <2>1. ClaimInv'
      BY <1>3, <1>t, <1>r, <1>p, QuietStepClaimInv DEF Observe, Goto, TypeOK, PreClaim
    <2> QED BY <1>3, <2>1, ObserveAccountInv
  <1>4. CASE ObserveBlind(a)
    <2>1. ClaimInv'
      BY <1>4, <1>t, <1>r, <1>p, QuietStepClaimInv DEF ObserveBlind, Goto, TypeOK, PreClaim
    <2> QED BY <1>4, <2>1, ObserveBlindAccountInv
  <1>5. CASE Refuse(a)
    <2>1. ClaimInv'
      BY <1>5, <1>t, <1>r, QuietStepClaimInv
      DEF Refuse, Goto, TypeOK, PreClaim, PCs, Running
    <2>2. NothingAdded /\ \A b \in Attempts : KeepsPlace(b)
      BY <1>5, <1>t DEF Refuse, Goto, TypeOK, NothingAdded, KeepsPlace, Exposed, Holds, PreClaim
    <2> QED BY <2>1, <2>2, AccountKept
  <1>6. CASE Evaluate(a)
    <2>1. PICK step \in {"READY", "COUNTED", "RECONCILING", "RELEASING"} : pc' = [pc EXCEPT ![a] = step]
      BY <1>6, EvaluateGoes
    <2>2. /\ UNCHANGED <<store, order, audit, recov>>
          /\ Fetch(a) /\ pc[a] = "OBSERVED"
      BY <1>6 DEF Evaluate
    <2>3. ClaimInv'
      BY <2>1, <2>2, <1>f, QuietStepClaimInv DEF PreClaim, PCs, Running
    <2> QED BY <1>6, <2>3, EvaluateAccountInv
  <1>7. CASE Reconcile(a)
    <2>1. PICK e \in Evidence(snap[a]) : ApplyEvidence(IntentOf[a], snap[a], e)
      BY <1>7 DEF Reconcile
    <2>2. Write(IntentOf[a], "UNKNOWN", Null)
      BY <1>t, <1>r, <2>1, EvidenceWritesUnknown DEF TypeOK
    <2>3. /\ pc[a] = "RECONCILING" /\ pc' = [pc EXCEPT ![a] = "RELEASING"]
          /\ snap' = [snap EXCEPT ![a] = NoRow]
          /\ UNCHANGED <<leases, seen, blind, order, recov, audit>>
      BY <1>7 DEF Reconcile, Goto
    <2>4. ClaimInv'
      <3>1. \A b \in Attempts : snap'[b].orderId = Null
        BY <1>t, <1>r, <1>n, <2>3 DEF TypeOK
      <3>2. \A j \in Keys : recov'[j].orderId = Null
        BY <2>3 DEF Inductive, ClaimInv, HeldRowsUnidentified
      <3> QED BY <1>t, <2>2, <2>3, <3>1, <3>2, UnknownWriteClaimInv
    <2>5. NothingAdded /\ \A b \in Attempts : KeepsPlace(b)
      BY <1>t, <2>2, <2>3
      DEF TypeOK, Write, NothingAdded, KeepsPlace, Exposed, Holds, PreClaim, Unresolved
    <2> QED BY <2>4, <2>5, AccountKept
  <1>8. CASE ConsumeStart(a)
    <2>1. /\ pc[a] = "READY"
          /\ \E step \in {"COUNTED", "RELEASING"} : pc' = [pc EXCEPT ![a] = step]
          /\ UNCHANGED <<store, leases, seen, snap, blind, order, recov, audit>>
      BY <1>8 DEF ConsumeStart, Goto
    <2>2. ClaimInv'
      BY <1>t, <1>r, <2>1, QuietStepClaimInv DEF TypeOK, PreClaim, PCs, Running
    <2>3. NothingAdded /\ \A b \in Attempts : KeepsPlace(b)
      BY <1>t, <2>1 DEF TypeOK, NothingAdded, KeepsPlace, Exposed, Holds, PreClaim
    <2> QED BY <2>2, <2>3, AccountKept
  <1>9. CASE CapReached(a)
    <2>1. ClaimInv'
      BY <1>9, <1>t, <1>r, QuietStepClaimInv
      DEF CapReached, Goto, TypeOK, PreClaim, PCs, Running
    <2>2. NothingAdded /\ \A b \in Attempts : KeepsPlace(b)
      BY <1>9, <1>t DEF CapReached, Goto, TypeOK, NothingAdded, KeepsPlace, Exposed, Holds,
                        PreClaim
    <2> QED BY <2>1, <2>2, AccountKept
  <1>10. CASE Claim(a)
    BY <1>10, ClaimStepClaimInv, ClaimAccountInv
  <1>11. CASE ClaimRefused(a) \/ ClaimFailed(a)
    <2>0. /\ \E step \in {"FOLLOWUP", "RELEASING"} : pc' = [pc EXCEPT ![a] = step]
          /\ UNCHANGED <<store, leases, seen, snap, blind, order, recov, audit>>
      BY <1>11 DEF ClaimRefused, ClaimFailed, Goto
    <2>1. ClaimInv'
      BY <2>0, <1>t, <1>r, QuietStepClaimInv DEF TypeOK, PreClaim, PCs, Running
    <2>2. NothingAdded /\ \A b \in Attempts : KeepsPlace(b)
      BY <2>0, <1>t DEF TypeOK, NothingAdded, KeepsPlace, Exposed, Holds, PreClaim
    <2> QED BY <2>1, <2>2, AccountKept
  <1>12. CASE FollowUp(a)
    <2>1. /\ \E step \in {"RECONCILING", "RELEASING"} : pc' = [pc EXCEPT ![a] = step]
          /\ Fetch(a) /\ pc[a] = "FOLLOWUP"
          /\ UNCHANGED <<store, leases, seen, blind, order, recov, audit>>
      BY <1>12 DEF FollowUp, Goto
    <2>2. ClaimInv'
      BY <1>f, <2>1, QuietStepClaimInv DEF PreClaim, PCs, Running
    <2>3. NothingAdded /\ \A b \in Attempts : KeepsPlace(b)
      BY <1>t, <2>1 DEF TypeOK, NothingAdded, KeepsPlace, Exposed, Holds, PreClaim
    <2> QED BY <2>2, <2>3, AccountKept
  <1>13. CASE GiveUpBeforeSend(a)
    <2>1. PICK to \in {"REJECTED", "UNKNOWN"} : Write(IntentOf[a], to, Null)
      BY <1>13, <1>t, PersistWrites DEF GiveUpBeforeSend, Statuses
    <2>2. /\ pc[a] = "CLAIMED" /\ pc' = [pc EXCEPT ![a] = "RELEASING"]
          /\ UNCHANGED <<leases, seen, snap, blind, order, recov, audit>>
      BY <1>13 DEF GiveUpBeforeSend, Goto
    <2>3. Learnt(a, to, Null)
      BY <2>1, <2>2 DEF Learnt, Inductive, ClaimInv, OrderFollowsSteps
    <2>4. ClaimInv'
      <3>1. pc[a] \in {"CLAIMED", "SENT"} /\ UNCHANGED <<order, audit, snap, recov>>
        BY <2>2
      <3>2. Write(IntentOf[a], to, Null)
        BY <2>1
      <3>3. to \in Statuses /\ Null \in Attempts \cup {Null}
        BY <2>1 DEF Statuses
      <3> QED BY <2>2, <2>3, <3>1, <3>2, <3>3, SenderWriteClaimInv
    <2>5. NothingAdded /\ \A b \in Attempts : KeepsPlace(b)
      BY <1>t, <2>1, <2>2
      DEF TypeOK, Write, NothingAdded, KeepsPlace, Exposed, Holds, PreClaim, Unresolved
    <2> QED BY <2>4, <2>5, AccountKept
  <1>14. CASE SendOrder(a)
    <2>1. ClaimInv'
      BY <1>14, SendStepClaimInv
    <2>2. NothingAdded /\ \A b \in Attempts : KeepsPlace(b)
      BY <1>14, <1>t DEF SendOrder, Goto, TypeOK, NothingAdded, KeepsPlace, Exposed, Holds,
                         PreClaim
    <2> QED BY <2>1, <2>2, AccountKept
  <1>15. CASE Respond(a)
    <2>1. PICK to \in {"ACCEPTED", "REJECTED", "UNKNOWN"}, id \in {a, Null} :
              Learnt(a, to, id) /\ Write(IntentOf[a], to, id)
      BY <1>15, <1>t, PersistWrites
      DEF Respond, Filled, BrokerRefused, Indeterminate, Learnt, Statuses
    <2>2. /\ pc[a] = "SENT" /\ pc' = [pc EXCEPT ![a] = "RELEASING"]
          /\ UNCHANGED <<leases, seen, snap, blind, order, recov, audit>>
      BY <1>15 DEF Respond, Goto
    <2>3. ClaimInv'
      <3>1. pc[a] \in {"CLAIMED", "SENT"} /\ UNCHANGED <<order, audit, snap, recov>>
        BY <2>2
      <3>2. Learnt(a, to, id) /\ Write(IntentOf[a], to, id)
        BY <2>1
      <3>3. to \in Statuses /\ id \in Attempts \cup {Null}
        BY <2>1 DEF Statuses
      <3> QED BY <2>2, <3>1, <3>2, <3>3, SenderWriteClaimInv
    <2>4. NothingAdded /\ \A b \in Attempts : KeepsPlace(b)
      BY <1>t, <2>1, <2>2
      DEF TypeOK, Write, NothingAdded, KeepsPlace, Exposed, Holds, PreClaim, Unresolved
    <2> QED BY <2>3, <2>4, AccountKept
  <1>16. CASE Release(a)
    <2>1. /\ pc[a] = "RELEASING" /\ pc' = [pc EXCEPT ![a] = "DONE"]
          /\ seen' = [seen EXCEPT ![a] = {}] /\ snap' = [snap EXCEPT ![a] = NoRow]
          /\ owner' = owner \/ owner' = [owner EXCEPT ![AccountOf[a]] = Null]
          /\ UNCHANGED <<store, blind, order, recov, audit>>
      BY <1>16 DEF Release, Leave, Goto
    <2>2. ClaimInv'
      BY <1>t, <1>r, <1>n, <2>1, NoRowType, QuietStepClaimInv DEF TypeOK, PreClaim, PCs
    <2>3. NothingAdded /\ \A b \in Attempts : KeepsPlace(b)
      BY <1>t, <2>1 DEF TypeOK, NothingAdded, KeepsPlace, Exposed, Holds, PreClaim
    <2> QED BY <2>2, <2>3, AccountKept
  <1> QED
    BY <1>1, <1>2, <1>3, <1>4, <1>5, <1>6, <1>7, <1>8, <1>9, <1>10, <1>11, <1>12,
       <1>13, <1>14, <1>15, <1>16 DEF Submit

\* Every step of the specification keeps the inductive invariant.
LEMMA InductiveStep == Inductive /\ [Next]_vars => Inductive'
  <1> SUFFICES ASSUME Inductive, [Next]_vars PROVE Inductive'
    OBVIOUS
  <1> USE AttemptsAssumption
  <1>t. TypeOK /\ TypeOK'
    BY TypeStep DEF Inductive
  <1>r. /\ \A b \in Attempts : snap[b].orderId = Null
        /\ \A j \in Keys : recov[j].orderId = Null
        /\ NoRow.orderId = Null
    BY DEF Inductive, ClaimInv, HeldRowsUnidentified, NoRow
  <1>1. ASSUME NEW a \in Attempts, Submit(a) PROVE ClaimInv' /\ AccountInv'
    BY <1>1, SubmitInductive
  <1>2. ASSUME NEW a \in Attempts, Crash(a) PROVE ClaimInv' /\ AccountInv'
    <2>1. /\ pc[a] \in Running /\ pc' = [pc EXCEPT ![a] = "CRASHED"]
          /\ seen' = [seen EXCEPT ![a] = {}] /\ snap' = [snap EXCEPT ![a] = NoRow]
          /\ UNCHANGED <<store, leases, blind, order, recov, audit>>
      BY <1>2 DEF Crash, Leave, Goto
    <2>2. ClaimInv'
      BY <1>t, <1>r, <2>1, NoRowType, QuietStepClaimInv DEF TypeOK, PreClaim, PCs
    <2>3. NothingAdded /\ \A b \in Attempts : KeepsPlace(b)
      BY <1>t, <2>1 DEF TypeOK, NothingAdded, KeepsPlace, Exposed, Holds, PreClaim
    <2> QED BY <2>2, <2>3, AccountKept
  <1>3. ASSUME NEW a \in Attempts, BrokerStep(a) PROVE ClaimInv' /\ AccountInv'
    <2>1. ClaimInv'
      BY <1>3, BrokerStepClaimInv
    <2>2. NothingAdded /\ \A b \in Attempts : KeepsPlace(b)
      BY <1>3, <1>t DEF BrokerStep, TypeOK, NothingAdded, KeepsPlace, Exposed, Holds
    <2> QED BY <2>1, <2>2, AccountKept
  <1>4. ASSUME NEW s \in Scopes, RecoverList(s) PROVE ClaimInv' /\ AccountInv'
    <2>1. \A k \in Keys : recov'[k].orderId = Null
      BY <1>4, <1>r DEF RecoverList, Row, Inductive, ClaimInv, IdentityIsExact, Unresolved
    <2>2. UNCHANGED <<store, leases, local, order, operator>>
      BY <1>4 DEF RecoverList
    <2>f. FinitelyClaimed'
      BY <2>2, FinitelyClaimedKept DEF Inductive, ClaimInv, Claimed, Sent
    <2>3. ClaimInv'
      BY <1>r, <2>1, <2>2, <2>f
      DEF Inductive, ClaimInv, ClaimOnRecord, ClaimIsUnique, OrderFollowsSteps, ClaimIsOpen,
          HeldRowsUnidentified, LiveOrderOnRecord, IdentityIsExact, Claimed, Sent, Audited
    <2>4. NothingAdded /\ \A b \in Attempts : KeepsPlace(b)
      BY <2>2 DEF NothingAdded, KeepsPlace, Exposed, Holds
    <2> QED BY <2>3, <2>4, AccountKept
  <1>5. ASSUME NEW k \in Keys, RecoverRecord(k) PROVE ClaimInv' /\ AccountInv'
    <2>1. PICK e \in Evidence(recov[k]) : ApplyEvidence(k, recov[k], e)
      BY <1>5 DEF RecoverRecord
    <2>2. Write(k, "UNKNOWN", Null)
      BY <1>t, <1>r, <2>1, EvidenceWritesUnknown DEF TypeOK
    <2>3. /\ recov' = [recov EXCEPT ![k] = NoRow]
          /\ UNCHANGED <<leases, local, order, audit>>
      BY <1>5 DEF RecoverRecord
    <2>4. \A j \in Keys : recov'[j].orderId = Null
      BY <1>t, <1>r, <2>3 DEF TypeOK
    <2>5. ClaimInv'
      BY <1>r, <2>2, <2>3, <2>4, UnknownWriteClaimInv
    <2>6. NothingAdded /\ \A b \in Attempts : KeepsPlace(b)
      BY <1>t, <2>2, <2>3
      DEF TypeOK, Write, NothingAdded, KeepsPlace, Exposed, Holds, Unresolved
    <2> QED BY <2>5, <2>6, AccountKept
  <1>6. ASSUME UNCHANGED <<store, leases, local, order, recov, audit>>
        PROVE  ClaimInv' /\ AccountInv'
    <2>f. FinitelyClaimed'
      BY <1>6, FinitelyClaimedKept DEF Inductive, ClaimInv, Claimed, Sent
    <2>1. ClaimInv'
      BY <1>6, <2>f
      DEF Inductive, ClaimInv, ClaimOnRecord, ClaimIsUnique, OrderFollowsSteps, ClaimIsOpen,
          HeldRowsUnidentified, LiveOrderOnRecord, IdentityIsExact, Claimed, Sent, Audited
    <2>2. NothingAdded /\ \A b \in Attempts : KeepsPlace(b)
      BY <1>6 DEF NothingAdded, KeepsPlace, Exposed, Holds
    <2> QED BY <2>1, <2>2, AccountKept
  <1>7. ASSUME NEW k \in Keys, InspectIntent(k) PROVE ClaimInv' /\ AccountInv'
    BY <1>6, <1>7 DEF InspectIntent
  <1>8. ASSUME NEW k \in Keys, ConfirmResolution(k) PROVE ClaimInv' /\ AccountInv'
    <2>1. ClaimInv'
      BY <1>8, ConfirmClaimInv
    <2>2. NothingAdded /\ \A b \in Attempts : KeepsPlace(b)
      BY <1>8, <1>t
      DEF ConfirmResolution, TypeOK, NothingAdded, KeepsPlace, Exposed, Holds, Unresolved
    <2> QED BY <2>1, <2>2, AccountKept
  <1>9. ASSUME Tick PROVE ClaimInv' /\ AccountInv'
    <2>1. UNCHANGED <<store, leases, local, order, recov, audit>>
      BY <1>9 DEF Tick, operator
    <2> QED BY <1>6, <2>1
  <1>10. ASSUME UNCHANGED vars PROVE ClaimInv' /\ AccountInv'
    <2>1. UNCHANGED <<store, leases, local, order, recov, audit>>
      BY <1>10 DEF vars, operator
    <2> QED BY <1>6, <2>1
  <1> QED
    BY <1>t, <1>1, <1>2, <1>3, <1>4, <1>5, <1>7, <1>8, <1>9, <1>10 DEF Next, Inductive

\* The inductive invariant holds in every reachable state: who may claim, who
\* may decide, and what a lease holder may still rely on.
THEOREM InductiveInvariant == Spec => []Inductive
  <1>1. Init => Inductive
    BY InductiveInit
  <1>2. Inductive /\ [Next]_vars => Inductive'
    BY InductiveStep
  <1> QED BY <1>1, <1>2, PTL DEF Spec

-----------------------------------------------------------------------------
(***************************************************************************)
(* The safety theorems                                                     *)
(***************************************************************************)
\* No interleaving of submits, lapsed leases, crashes, recoveries and operator
\* resolutions sends two orders for one idempotency key.
THEOREM NoIntentSentTwice == Spec => []AtMostOneOrderPerIntent
  <1>1. Inductive => AtMostOneOrderPerIntent
    BY DEF Inductive, ClaimInv, ClaimIsUnique, Claimed, AtMostOneOrderPerIntent
  <1> QED BY <1>1, InductiveInvariant, PTL

\* An account never has two unresolved intents, whatever the lease length.
THEOREM UnresolvedIsUnique == Spec => []OneUnresolvedPerAccount
  <1>1. Inductive => OneUnresolvedPerAccount
    BY DEF Inductive, AccountInv
  <1> QED BY <1>1, InductiveInvariant, PTL

\* Every order that is or may be filled has a row that says so.
THEOREM NoLostOrder == Spec => []LiveOrderOnRecord
  <1>1. Inductive => LiveOrderOnRecord
    BY DEF Inductive, ClaimInv
  <1> QED BY <1>1, InductiveInvariant, PTL

\* A stored broker identity is that of the intent's own filled order.
THEOREM StoredIdentityIsExact == Spec => []IdentityIsExact
  <1>1. Inductive => IdentityIsExact
    BY DEF Inductive, ClaimInv
  <1> QED BY <1>1, InductiveInvariant, PTL

\* Two attempts of an account are never exposed on one symbol, but for a
\* failed position read or an operator resolution.
THEOREM ExposureIsUnique == Spec => []NoDuplicateExposure
  <1>1. Inductive => NoDuplicateExposure
    BY DEF Inductive, AccountInv
  <1> QED BY <1>1, InductiveInvariant, PTL

\* The open-position limit, checked on a snapshot long before the order is
\* sent, bounds the account's exposure, under the same conditions.
THEOREM OpenLimitHolds == Spec => []WithinOpenLimit
  <1>1. Inductive => WithinOpenLimit
    <2> SUFFICES ASSUME Inductive, NEW s \in Scopes,
                        \A a \in {b \in Attempts : AccountOf[b] = s /\ Exposed(b)} : ~ Excused(a)
                 PROVE  Cardinality({a \in Attempts : AccountOf[a] = s /\ Exposed(a)}) <= MaxOpen
      BY DEF WithinOpenLimit
    <2>1. {a \in Attempts : AccountOf[a] = s /\ Exposed(a)} = Unexcused(s)
      BY DEF Unexcused
    <2> QED BY <2>1 DEF Inductive, AccountInv, UnexcusedWithinLimit
  <1> QED BY <1>1, InductiveInvariant, PTL

-----------------------------------------------------------------------------
(***************************************************************************)
(* The daily cap.  The guard counts before the order is sent, so for an    *)
(* instrument the attempts that were counted and may still send, and those *)
(* that sent, are covered by today's counter and full earlier days.        *)
(***************************************************************************)
Counting(a) == pc[a] = "COUNTED" \/ Claimed(a)

CountedFor(s, y) ==
    {a \in Supervised : Counting(a) /\ AccountOf[a] = s /\ SymbolOf[IntentOf[a]] = y}

StartsWithinCap ==
    \A s \in Scopes, y \in Symbols, d \in Days : starts[<<s, y, d>>] <= DailyCap

CountedWithinStarts ==
    \A s \in Scopes, y \in Symbols :
        /\ IsFiniteSet(CountedFor(s, y))
        /\ Cardinality(CountedFor(s, y)) <= DailyCap * Today + starts[<<s, y, Today>>]

CapInv == TypeOK /\ StartsWithinCap /\ CountedWithinStarts

\* The UTC day is one of the days the counters are kept for.
LEMMA TodayType ==
    ASSUME NEW t \in 0 .. MaxTime
    PROVE  /\ t \div DayLength \in Days /\ t \div DayLength \in Nat
           /\ DailyCap * (t \div DayLength) \in Nat
  <1>1. t \div DayLength \in Days
    BY BoundsAssumption DEF Days
  <1>2. t \div DayLength \in Nat
    BY <1>1 DEF Days
  <1>3. \A d \in Nat : DailyCap * d \in Nat
    BY BoundsAssumption
  <1> QED BY <1>1, <1>2, <1>3

\* The clock never returns to an earlier day.
LEMMA LaterDay ==
    ASSUME NEW t \in Nat
    PROVE  t \div DayLength <= (t + 1) \div DayLength
  BY BoundsAssumption

\* A full day more leaves room for everything counted the day before.
LEMMA DayRollsOver ==
    ASSUME NEW c \in Nat, NEW x \in Nat, NEW d \in Nat, NEW e \in Nat, d < e, x <= c
    PROVE  c * d + x <= c * e
  <1>1. PICK i \in Nat : e = d + 1 + i
    <2>1. e - d - 1 \in Nat /\ e = d + 1 + (e - d - 1)
      OBVIOUS
    <2> QED BY <2>1
  <1>2. c * e = c * d + c + c * i
    BY <1>1
  <1>3. c * i \in Nat /\ c * d \in Nat
    OBVIOUS
  <1> QED BY <1>2, <1>3

\* A step that neither counts nor moves the clock, and by which no attempt of
\* the supervisor becomes one that was counted, keeps the cap.
LEMMA CapKept ==
    ASSUME CapInv, TypeOK', UNCHANGED <<starts, now>>,
           \A a \in Supervised : Counting(a)' => Counting(a)
    PROVE  CapInv'
  <1> USE DEF CapInv
  <1>0. Today \in Days /\ Today' = Today /\ Today \in Nat /\ DailyCap * Today \in Nat
    BY TodayType DEF TypeOK, Today
  <1>1. StartsWithinCap'
    BY DEF StartsWithinCap
  <1>2. ASSUME NEW s \in Scopes, NEW y \in Symbols
        PROVE  /\ IsFiniteSet(CountedFor(s, y)')
               /\ Cardinality(CountedFor(s, y)') <= (DailyCap * Today + starts[<<s, y, Today>>])'
    <2>1. CountedFor(s, y)' \subseteq CountedFor(s, y)
      BY DEF CountedFor
    <2>2. /\ IsFiniteSet(CountedFor(s, y))
          /\ Cardinality(CountedFor(s, y)) <= DailyCap * Today + starts[<<s, y, Today>>]
      BY DEF CountedWithinStarts
    <2>3. starts[<<s, y, Today>>] \in Nat
      BY <1>0 DEF TypeOK
    <2>4. /\ IsFiniteSet(CountedFor(s, y)')
          /\ Cardinality(CountedFor(s, y)') <= Cardinality(CountedFor(s, y))
          /\ Cardinality(CountedFor(s, y)') \in Nat /\ Cardinality(CountedFor(s, y)) \in Nat
      BY <2>1, <2>2, PartIsSmaller
    <2>5. (DailyCap * Today + starts[<<s, y, Today>>])' = DailyCap * Today + starts[<<s, y, Today>>]
      BY <1>0
    <2> QED BY <1>0, <2>2, <2>3, <2>4, <2>5
  <1>3. CountedWithinStarts'
    BY <1>2 DEF CountedWithinStarts
  <1> QED BY <1>1, <1>3

\* consume() counts one start, and at most one attempt joins the counted ones.
LEMMA ConsumeCapInv ==
    ASSUME CapInv, TypeOK', NEW a \in Attempts, ConsumeStart(a)
    PROVE  CapInv'
  <1> USE AttemptsAssumption DEF CapInv
  <1> DEFINE s0 == AccountOf[a]
             y0 == SymbolOf[IntentOf[a]]
  <1>0. Today \in Days /\ Today' = Today /\ Today \in Nat /\ DailyCap * Today \in Nat
    BY TodayType DEF TypeOK, Today, ConsumeStart
  <1>1. /\ starts \in [Scopes \X Symbols \X Days -> Nat]
        /\ s0 \in Scopes /\ y0 \in Symbols
    BY DEF TypeOK
  <1>2. /\ starts[<<s0, y0, Today>>] < DailyCap
        /\ starts' = [starts EXCEPT ![<<s0, y0, Today>>] = starts[<<s0, y0, Today>>] + 1]
    BY DEF ConsumeStart
  <1>3. ASSUME NEW s \in Scopes, NEW y \in Symbols, NEW d \in Days
        PROVE  starts'[<<s, y, d>>] = IF s = s0 /\ y = y0 /\ d = Today
                                      THEN starts[<<s, y, d>>] + 1 ELSE starts[<<s, y, d>>]
    BY <1>1, <1>2
  <1>4. \A b \in Attempts \ {a} : Counting(b)' => Counting(b)
    BY DEF ConsumeStart, Goto, Counting, Claimed, Sent, TypeOK
  <1> HIDE DEF s0, y0
  <1>5. StartsWithinCap'
    <2> SUFFICES ASSUME NEW s \in Scopes, NEW y \in Symbols, NEW d \in Days
                 PROVE  starts'[<<s, y, d>>] <= DailyCap
      BY DEF StartsWithinCap
    <2>1. starts[<<s, y, d>>] \in Nat /\ starts[<<s, y, d>>] <= DailyCap
      BY <1>1 DEF StartsWithinCap
    <2> QED BY <1>2, <1>3, <2>1, BoundsAssumption
  <1>6. ASSUME NEW s \in Scopes, NEW y \in Symbols
        PROVE  /\ IsFiniteSet(CountedFor(s, y)')
               /\ Cardinality(CountedFor(s, y)') <= (DailyCap * Today + starts[<<s, y, Today>>])'
    <2>1. /\ IsFiniteSet(CountedFor(s, y))
          /\ Cardinality(CountedFor(s, y)) <= DailyCap * Today + starts[<<s, y, Today>>]
      BY DEF CountedWithinStarts
    <2>2. starts[<<s, y, Today>>] \in Nat
      BY <1>0, <1>1
    <2>3. (DailyCap * Today + starts[<<s, y, Today>>])' = DailyCap * Today + starts'[<<s, y, Today>>]
      BY <1>0
    <2>4. CASE s = s0 /\ y = y0
      <3>1. CountedFor(s, y)' \subseteq CountedFor(s, y) \cup {a}
        BY <1>4 DEF CountedFor
      <3>2. /\ IsFiniteSet(CountedFor(s, y)')
            /\ Cardinality(CountedFor(s, y)') <= Cardinality(CountedFor(s, y)) + 1
            /\ Cardinality(CountedFor(s, y)') \in Nat /\ Cardinality(CountedFor(s, y)) \in Nat
        BY <2>1, <3>1, OneMore
      <3>3. starts'[<<s, y, Today>>] = starts[<<s, y, Today>>] + 1
        BY <1>0, <1>3, <2>4
      <3> QED BY <1>0, <2>1, <2>2, <2>3, <3>2, <3>3
    <2>5. CASE ~ (s = s0 /\ y = y0)
      <3>1. CountedFor(s, y)' \subseteq CountedFor(s, y)
        BY <1>4, <2>5 DEF CountedFor, s0, y0
      <3>2. /\ IsFiniteSet(CountedFor(s, y)')
            /\ Cardinality(CountedFor(s, y)') <= Cardinality(CountedFor(s, y))
            /\ Cardinality(CountedFor(s, y)') \in Nat /\ Cardinality(CountedFor(s, y)) \in Nat
        BY <2>1, <3>1, PartIsSmaller
      <3>3. starts'[<<s, y, Today>>] = starts[<<s, y, Today>>]
        BY <1>0, <1>3, <2>5
      <3> QED BY <1>0, <2>1, <2>2, <2>3, <3>2, <3>3
    <2> QED BY <2>4, <2>5
  <1>7. CountedWithinStarts'
    BY <1>6 DEF CountedWithinStarts
  <1> QED BY <1>5, <1>7

\* Midnight passes: the day that ends is covered by its full cap.
LEMMA TickCapInv ==
    ASSUME CapInv, TypeOK', Tick
    PROVE  CapInv'
  <1> USE DEF CapInv
  <1>0. /\ Today \in Days /\ Today' \in Days /\ Today \in Nat /\ Today' \in Nat
        /\ DailyCap * Today \in Nat /\ DailyCap * Today' \in Nat
    BY TodayType DEF TypeOK, Today, Tick
  <1>1. Today <= Today'
    <2>1. now \in Nat /\ now' = now + 1
      BY BoundsAssumption DEF TypeOK, Tick
    <2> QED BY <2>1, LaterDay DEF Today
  <1>2. starts' = starts /\ StartsWithinCap'
    BY DEF Tick, StartsWithinCap
  <1>3. ASSUME NEW s \in Scopes, NEW y \in Symbols
        PROVE  /\ IsFiniteSet(CountedFor(s, y)')
               /\ Cardinality(CountedFor(s, y)') <= (DailyCap * Today + starts[<<s, y, Today>>])'
    <2> DEFINE before == starts[<<s, y, Today>>]
               after  == starts[<<s, y, Today'>>]
               n == Cardinality(CountedFor(s, y))
    <2>1. CountedFor(s, y)' = CountedFor(s, y)
      BY DEF Tick, CountedFor, Counting, Claimed, Sent
    <2>2. IsFiniteSet(CountedFor(s, y)) /\ n <= DailyCap * Today + before
      BY DEF CountedWithinStarts
    <2>3. n \in Nat
      BY <2>2, FS_CardinalityType
    <2>4. before \in Nat /\ after \in Nat /\ before <= DailyCap
      BY <1>0 DEF TypeOK, StartsWithinCap
    <2>5. (DailyCap * Today + starts[<<s, y, Today>>])' = DailyCap * Today' + after
      BY <1>2
    <2> HIDE DEF before, after, n
    <2>6. CASE Today' = Today
      <3>1. after = before
        BY <2>6 DEF before, after
      <3>2. n <= DailyCap * Today' + after
        BY <2>2, <2>6, <3>1
      <3> QED BY <2>1, <2>2, <2>5, <3>2 DEF n
    <2>7. CASE Today < Today'
      <3>1. DailyCap * Today + before <= DailyCap * Today'
        BY <1>0, <2>4, <2>7, DayRollsOver, BoundsAssumption
      <3>2. n <= DailyCap * Today' + after
        BY <1>0, <2>2, <2>3, <2>4, <3>1
      <3> QED BY <2>1, <2>2, <2>5, <3>2 DEF n
    <2> QED BY <1>0, <1>1, <2>6, <2>7
  <1>4. CountedWithinStarts'
    BY <1>3 DEF CountedWithinStarts
  <1> QED BY <1>2, <1>4

\* Only ConsumeStart makes an attempt of the supervisor a counted one.
LEMMA SubmitCounts ==
    ASSUME TypeOK, NEW a \in Attempts, Submit(a), ~ ConsumeStart(a)
    PROVE  UNCHANGED <<starts, now>> /\ \A b \in Supervised : Counting(b)' => Counting(b)
  <1> USE AttemptsAssumption DEF TypeOK, Goto, Leave, Counting, Claimed, Sent
  <1>1. CASE Acquire(a) \/ AcquireRefused(a) \/ Observe(a) \/ ObserveBlind(a) \/ Refuse(a)
    BY <1>1 DEF Acquire, AcquireRefused, Observe, ObserveBlind, Refuse
  <1>2. CASE Evaluate(a)
    <2>1. PICK step \in {"READY", "COUNTED", "RECONCILING", "RELEASING"} : pc' = [pc EXCEPT ![a] = step]
      BY <1>2, EvaluateGoes
    <2>2. a \in Supervised => pc'[a] # "COUNTED"
      BY <1>2 DEF Evaluate, AfterApproval, Unresolved
    <2> QED BY <1>2, <2>1, <2>2 DEF Evaluate
  <1>3. CASE Reconcile(a) \/ CapReached(a) \/ ClaimRefused(a) \/ ClaimFailed(a) \/ FollowUp(a)
    BY <1>3 DEF Reconcile, CapReached, ClaimRefused, ClaimFailed, FollowUp
  <1>4. CASE Claim(a) \/ SendOrder(a)
    BY <1>4 DEF Claim, SendOrder
  <1>5. CASE GiveUpBeforeSend(a) \/ Respond(a) \/ Release(a)
    BY <1>5 DEF GiveUpBeforeSend, Respond, Release
  <1> QED BY <1>1, <1>2, <1>3, <1>4, <1>5 DEF Submit

\* Every step of the specification keeps the cap.
LEMMA CapStep == CapInv /\ [Next]_vars => CapInv'
  <1> SUFFICES ASSUME CapInv, [Next]_vars PROVE CapInv'
    OBVIOUS
  <1>t. TypeOK /\ TypeOK'
    BY TypeStep DEF CapInv
  <1>1. ASSUME NEW a \in Attempts, Submit(a) PROVE CapInv'
    BY <1>t, <1>1, SubmitCounts, CapKept, ConsumeCapInv
  <1>2. ASSUME NEW a \in Attempts, Crash(a) PROVE CapInv'
    BY <1>t, <1>2, AttemptsAssumption, CapKept
    DEF Crash, Leave, Goto, TypeOK, Counting, Claimed, Sent
  <1>3. ASSUME NEW a \in Attempts, BrokerStep(a) PROVE CapInv'
    BY <1>t, <1>3, AttemptsAssumption, CapKept DEF BrokerStep, TypeOK, Counting, Claimed, Sent
  <1>4. ASSUME UNCHANGED <<starts, pc, order, now>> PROVE CapInv'
    BY <1>t, <1>4, CapKept DEF Counting, Claimed, Sent
  <1>5. ASSUME NEW s \in Scopes, RecoverList(s) PROVE CapInv'
    BY <1>4, <1>5 DEF RecoverList
  <1>6. ASSUME NEW k \in Keys, RecoverRecord(k) \/ InspectIntent(k) \/ ConfirmResolution(k)
        PROVE  CapInv'
    BY <1>4, <1>6 DEF RecoverRecord, InspectIntent, ConfirmResolution
  <1>7. ASSUME Tick PROVE CapInv'
    BY <1>t, <1>7, TickCapInv
  <1>8. ASSUME UNCHANGED vars PROVE CapInv'
    BY <1>4, <1>8 DEF vars
  <1> QED BY <1>1, <1>2, <1>3, <1>5, <1>6, <1>7, <1>8 DEF Next

\* A fresh database has counted nothing.
LEMMA CapInit == Init => CapInv
  <1> SUFFICES ASSUME Init PROVE CapInv
    OBVIOUS
  <1>1. TypeOK
    BY TypeInit
  <1>2. StartsWithinCap
    BY BoundsAssumption DEF Init, StartsWithinCap
  <1>3. ASSUME NEW s \in Scopes, NEW y \in Symbols
        PROVE  /\ IsFiniteSet(CountedFor(s, y))
               /\ Cardinality(CountedFor(s, y)) <= DailyCap * Today + starts[<<s, y, Today>>]
    <2>1. CountedFor(s, y) = {}
      BY AttemptsAssumption DEF Init, CountedFor, Counting, Claimed, Sent
    <2>2. Today \in Days /\ DailyCap * Today \in Nat
      BY <1>1, TodayType DEF TypeOK, Today
    <2>3. starts[<<s, y, Today>>] \in Nat
      BY <1>1, <2>2 DEF TypeOK
    <2> QED BY <2>1, <2>2, <2>3, FS_EmptySet
  <1> QED BY <1>1, <1>2, <1>3 DEF CapInv, CountedWithinStarts

\* The orders the supervisor sent for an instrument never outnumber what the
\* daily guard allows over the days so far, whatever crashes between counting
\* and sending, for any cap and any day length.
THEOREM DailyCapHolds == Spec => []OrdersWithinDailyCap
  <1>1. Init => CapInv
    BY CapInit
  <1>2. CapInv /\ [Next]_vars => CapInv'
    BY CapStep
  <1>3. CapInv => OrdersWithinDailyCap
    <2> SUFFICES ASSUME CapInv, NEW s \in Scopes, NEW y \in Symbols
                 PROVE  Cardinality({a \in Supervised :
                            Sent(a) /\ AccountOf[a] = s /\ SymbolOf[IntentOf[a]] = y})
                        <= DailyCap * (Today + 1)
      BY DEF OrdersWithinDailyCap
    <2> DEFINE sent == {a \in Supervised :
                           Sent(a) /\ AccountOf[a] = s /\ SymbolOf[IntentOf[a]] = y}
               n == Cardinality(CountedFor(s, y))
               m == starts[<<s, y, Today>>]
    <2>1. sent \subseteq CountedFor(s, y)
      BY DEF CountedFor, Counting, Claimed
    <2>2. Today \in Days /\ Today \in Nat /\ DailyCap * Today \in Nat
      BY TodayType DEF CapInv, TypeOK, Today
    <2>3. m \in Nat /\ m <= DailyCap
      BY <2>2 DEF CapInv, TypeOK, StartsWithinCap
    <2>4. IsFiniteSet(CountedFor(s, y)) /\ n <= DailyCap * Today + m
      BY DEF CapInv, CountedWithinStarts
    <2>5. Cardinality(sent) <= n /\ Cardinality(sent) \in Nat /\ n \in Nat
      BY <2>1, <2>4, PartIsSmaller
    <2>6. DailyCap * (Today + 1) = DailyCap * Today + DailyCap
      BY <2>2, BoundsAssumption
    <2> HIDE DEF sent, n, m
    <2>7. Cardinality(sent) <= DailyCap * (Today + 1)
      BY <2>2, <2>3, <2>4, <2>5, <2>6, BoundsAssumption
    <2> QED BY <2>7 DEF sent
  <1> QED BY <1>1, <1>2, <1>3, PTL DEF Spec

-----------------------------------------------------------------------------
(***************************************************************************)
(* What SubmitEnds and ReservationEnds rest on.  That something happens at *)
(* all is fairness, and left to TLC; that what happens is progress is      *)
(* proved here.                                                            *)
(***************************************************************************)
\* How many steps of submit are left at most.
StepsLeft(step) ==
    CASE step = "IDLE"        -> 8
      [] step = "RESERVED"    -> 7
      [] step = "OBSERVED"    -> 6
      [] step = "READY"       -> 5
      [] step = "COUNTED"     -> 4
      [] step \in {"CLAIMED", "FOLLOWUP"}    -> 3
      [] step \in {"SENT", "RECONCILING"}    -> 2
      [] step = "RELEASING"   -> 1
      [] step \in {"DONE", "CRASHED"}        -> 0

\* A step of a call leaves it fewer steps (AsyncTradeExecutor.submit).
EveryStepDescends ==
    [][\A a \in Attempts :
          /\ StepsLeft(pc'[a]) \in Nat
          /\ pc'[a] = pc[a] \/ StepsLeft(pc'[a]) < StepsLeft(pc[a])]_vars

\* No lease is longer than the configured one (acquire_reservation).
LeaseBounded == \A s \in Scopes : expires[s] <= now + Lease

\* A live lease is neither renewed nor taken over: it stays, or its owner gives it
\* back as its call returns (acquire_reservation, release_reservation).
LiveLeaseStays ==
    [][\A s \in Scopes : Held(s, now) =>
          \/ owner'[s] = owner[s] /\ expires'[s] = expires[s]
          \/ owner'[s] = Null /\ pc'[owner[s]] = "DONE"]_vars

LEMMA StepsCount ==
    /\ StepsLeft("IDLE") = 8 /\ StepsLeft("RESERVED") = 7 /\ StepsLeft("OBSERVED") = 6
    /\ StepsLeft("READY") = 5 /\ StepsLeft("COUNTED") = 4
    /\ StepsLeft("CLAIMED") = 3 /\ StepsLeft("FOLLOWUP") = 3
    /\ StepsLeft("SENT") = 2 /\ StepsLeft("RECONCILING") = 2
    /\ StepsLeft("RELEASING") = 1 /\ StepsLeft("DONE") = 0 /\ StepsLeft("CRASHED") = 0
  BY DEF StepsLeft

\* A step of a call takes it closer to its end and leaves the other calls alone.
LEMMA SubmitDescends ==
    ASSUME TypeOK, NEW a \in Attempts, Submit(a) \/ Crash(a)
    PROVE  StepsLeft(pc'[a]) < StepsLeft(pc[a]) /\ \A b \in Attempts \ {a} : pc'[b] = pc[b]
  <1> DEFINE Ahead(from, to) == pc[a] = from /\ pc' = [pc EXCEPT ![a] = to]
  <1>1. ASSUME NEW from \in PCs, NEW to \in PCs, Ahead(from, to), StepsLeft(to) < StepsLeft(from)
        PROVE  StepsLeft(pc'[a]) < StepsLeft(pc[a]) /\ \A b \in Attempts \ {a} : pc'[b] = pc[b]
    BY <1>1 DEF TypeOK
  <1> USE DEF Goto, PCs, Running, PreClaim
  <1>2. CASE Acquire(a) \/ AcquireRefused(a)
    <2>1. Ahead("IDLE", "RESERVED") \/ Ahead("IDLE", "DONE")
      BY <1>2 DEF Acquire, AcquireRefused
    <2> HIDE DEF Ahead
    <2> QED BY <1>1, <2>1, StepsCount
  <1>3. CASE Observe(a) \/ ObserveBlind(a) \/ Refuse(a)
    <2>1. \/ Ahead("RESERVED", "OBSERVED") \/ Ahead("RESERVED", "RELEASING")
          \/ Ahead("OBSERVED", "RELEASING")
      BY <1>3 DEF Observe, ObserveBlind, Refuse
    <2> HIDE DEF Ahead
    <2> QED BY <1>1, <2>1, StepsCount
  <1>4. CASE Evaluate(a)
    <2>1. \/ Ahead("OBSERVED", "READY") \/ Ahead("OBSERVED", "COUNTED")
          \/ Ahead("OBSERVED", "RECONCILING") \/ Ahead("OBSERVED", "RELEASING")
      BY <1>4, AttemptsAssumption DEF Evaluate, AfterApproval, TypeOK, Statuses, Unresolved
    <2> HIDE DEF Ahead
    <2> QED BY <1>1, <2>1, StepsCount
  <1>5. CASE Reconcile(a)
    <2>1. Ahead("RECONCILING", "RELEASING")
      BY <1>5 DEF Reconcile
    <2> HIDE DEF Ahead
    <2> QED BY <1>1, <2>1, StepsCount
  <1>6. CASE ConsumeStart(a) \/ CapReached(a)
    <2>1. Ahead("READY", "COUNTED") \/ Ahead("READY", "RELEASING")
      BY <1>6 DEF ConsumeStart, CapReached
    <2> HIDE DEF Ahead
    <2> QED BY <1>1, <2>1, StepsCount
  <1>7. CASE Claim(a) \/ ClaimRefused(a) \/ ClaimFailed(a)
    <2>1. \/ Ahead("COUNTED", "CLAIMED") \/ Ahead("COUNTED", "FOLLOWUP")
          \/ Ahead("COUNTED", "RELEASING")
      BY <1>7 DEF Claim, ClaimRefused, ClaimFailed
    <2> HIDE DEF Ahead
    <2> QED BY <1>1, <2>1, StepsCount
  <1>8. CASE FollowUp(a)
    <2>1. Ahead("FOLLOWUP", "RECONCILING") \/ Ahead("FOLLOWUP", "RELEASING")
      BY <1>8 DEF FollowUp
    <2> HIDE DEF Ahead
    <2> QED BY <1>1, <2>1, StepsCount
  <1>9. CASE GiveUpBeforeSend(a) \/ SendOrder(a)
    <2>1. Ahead("CLAIMED", "RELEASING") \/ Ahead("CLAIMED", "SENT")
      BY <1>9 DEF GiveUpBeforeSend, SendOrder
    <2> HIDE DEF Ahead
    <2> QED BY <1>1, <2>1, StepsCount
  <1>10. CASE Respond(a)
    <2>1. Ahead("SENT", "RELEASING")
      BY <1>10 DEF Respond
    <2> HIDE DEF Ahead
    <2> QED BY <1>1, <2>1, StepsCount
  <1>11. CASE Release(a)
    <2>1. Ahead("RELEASING", "DONE")
      BY <1>11 DEF Release, Leave
    <2> HIDE DEF Ahead
    <2> QED BY <1>1, <2>1, StepsCount
  <1>12. CASE Crash(a)
    <2>1. pc[a] \in Running /\ Ahead(pc[a], "CRASHED")
      BY <1>12 DEF Crash, Leave
    <2>2. \A step \in Running : StepsLeft("CRASHED") < StepsLeft(step)
      BY StepsCount
    <2> HIDE DEF Ahead
    <2> QED BY <1>1, <2>1, <2>2
  <1> QED BY <1>2, <1>3, <1>4, <1>5, <1>6, <1>7, <1>8, <1>9, <1>10, <1>11, <1>12 DEF Submit

\* No loop in submit: each step that a call takes leaves it fewer steps, so a call
\* that keeps running ends after eight, whatever the others, the broker, the
\* recovery and the operator do meanwhile (AsyncTradeExecutor.submit).
THEOREM EveryCallDescends == Spec => EveryStepDescends
  <1> DEFINE Descends(a) == pc'[a] = pc[a] \/ StepsLeft(pc'[a]) < StepsLeft(pc[a])
             Down == \A a \in Attempts :
                        /\ StepsLeft(pc'[a]) \in Nat
                        /\ pc'[a] = pc[a] \/ StepsLeft(pc'[a]) < StepsLeft(pc[a])
  <1>1. TypeOK /\ [Next]_vars => [Down]_vars
    <2> SUFFICES ASSUME TypeOK, [Next]_vars, NEW a \in Attempts
                 PROVE  StepsLeft(pc'[a]) \in Nat /\ Descends(a)
      OBVIOUS
    <2>1. TypeOK'
      BY TypeStep
    <2>2. StepsLeft(pc'[a]) \in Nat
      <3>1. pc'[a] \in PCs
        BY <2>1 DEF TypeOK
      <3> QED BY <3>1, StepsCount DEF PCs, Running, PreClaim
    <2>3. ASSUME NEW b \in Attempts, Submit(b) \/ Crash(b) PROVE Descends(a)
      BY <2>3, SubmitDescends
    <2>4. ASSUME pc' = pc PROVE Descends(a)
      BY <2>4
    <2>5. ASSUME NEW b \in Attempts, BrokerStep(b) PROVE pc' = pc
      BY <2>5 DEF BrokerStep
    <2>6. ASSUME NEW s \in Scopes, RecoverList(s) PROVE pc' = pc
      BY <2>6 DEF RecoverList
    <2>7. ASSUME NEW k \in Keys, RecoverRecord(k) \/ InspectIntent(k) \/ ConfirmResolution(k)
          PROVE  pc' = pc
      BY <2>7 DEF RecoverRecord, InspectIntent, ConfirmResolution
    <2>8. ASSUME Tick \/ UNCHANGED vars PROVE pc' = pc
      BY <2>8 DEF Tick, vars
    <2> QED BY <2>2, <2>3, <2>4, <2>5, <2>6, <2>7, <2>8 DEF Next
  <1> QED BY <1>1, TypeCorrect, PTL DEF Spec, EveryStepDescends

\* A call that touches a lease takes one that has lapsed, or gives back its own.
LEMMA LeaseWrites ==
    ASSUME TypeOK, NEW a \in Attempts, Submit(a)
    PROVE  \/ UNCHANGED leases
           \/ \E t \in ReadClock :
                 /\ ~ Held(AccountOf[a], t)
                 /\ owner' = [owner EXCEPT ![AccountOf[a]] = a]
                 /\ expires' = [expires EXCEPT ![AccountOf[a]] = t + Lease]
           \/ /\ owner[AccountOf[a]] = a /\ pc'[a] = "DONE"
              /\ owner' = [owner EXCEPT ![AccountOf[a]] = Null]
              /\ expires' = [expires EXCEPT ![AccountOf[a]] = 0]
  <1>1. CASE Acquire(a)
    BY <1>1 DEF Acquire
  <1>2. CASE Release(a)
    BY <1>2 DEF Release, Leave, Goto, TypeOK
  <1>3. CASE \/ AcquireRefused(a) \/ Observe(a) \/ ObserveBlind(a) \/ Refuse(a) \/ Evaluate(a)
             \/ Reconcile(a) \/ ConsumeStart(a) \/ CapReached(a)
    BY <1>3 DEF AcquireRefused, Observe, ObserveBlind, Refuse, Evaluate, Reconcile, ConsumeStart,
                CapReached
  <1>4. CASE \/ Claim(a) \/ ClaimRefused(a) \/ ClaimFailed(a) \/ FollowUp(a)
             \/ GiveUpBeforeSend(a) \/ SendOrder(a) \/ Respond(a)
    BY <1>4 DEF Claim, ClaimRefused, ClaimFailed, FollowUp, GiveUpBeforeSend, SendOrder, Respond
  <1> QED BY <1>1, <1>2, <1>3, <1>4 DEF Submit

\* Only a call writes a lease, and the clock only goes forward.
LEMMA LeaseData ==
    ASSUME TypeOK, [Next]_vars
    PROVE  /\ UNCHANGED leases \/ (UNCHANGED now /\ \E a \in Attempts : Submit(a))
           /\ now' \in Nat /\ now <= now'
  <1>n. now \in Nat
    BY BoundsAssumption DEF TypeOK
  <1>1. ASSUME NEW a \in Attempts, Submit(a) PROVE UNCHANGED now
    <2>1. CASE \/ Acquire(a) \/ AcquireRefused(a) \/ Observe(a) \/ ObserveBlind(a) \/ Refuse(a)
               \/ Evaluate(a) \/ Reconcile(a) \/ ConsumeStart(a) \/ CapReached(a)
      BY <2>1 DEF Acquire, AcquireRefused, Observe, ObserveBlind, Refuse, Evaluate, Reconcile,
                  ConsumeStart, CapReached
    <2>2. CASE \/ Claim(a) \/ ClaimRefused(a) \/ ClaimFailed(a) \/ FollowUp(a)
               \/ GiveUpBeforeSend(a) \/ SendOrder(a) \/ Respond(a) \/ Release(a)
      BY <2>2 DEF Claim, ClaimRefused, ClaimFailed, FollowUp, GiveUpBeforeSend, SendOrder,
                  Respond, Release
    <2> QED BY <1>1, <2>1, <2>2 DEF Submit
  <1>2. ASSUME NEW a \in Attempts, Crash(a) \/ BrokerStep(a) PROVE UNCHANGED <<leases, now>>
    BY <1>2 DEF Crash, BrokerStep
  <1>3. ASSUME NEW s \in Scopes, RecoverList(s) PROVE UNCHANGED <<leases, now>>
    BY <1>3 DEF RecoverList
  <1>4. ASSUME NEW k \in Keys, RecoverRecord(k) \/ InspectIntent(k) \/ ConfirmResolution(k)
        PROVE  UNCHANGED <<leases, now>>
    BY <1>4 DEF RecoverRecord, InspectIntent, ConfirmResolution
  <1>5. CASE Tick
    BY <1>n, <1>5 DEF Tick
  <1>6. CASE UNCHANGED vars
    BY <1>n, <1>6 DEF vars
  <1> QED BY <1>n, <1>1, <1>2, <1>3, <1>4, <1>5, <1>6 DEF Next

\* A lease ends at most one lease length from now, and a step takes over only a
\* lease that has lapsed.
LEMMA LeaseStep ==
    ASSUME TypeOK, LeaseBounded, [Next]_vars
    PROVE  /\ LeaseBounded'
           /\ \A s \in Scopes : Held(s, now) =>
                 \/ owner'[s] = owner[s] /\ expires'[s] = expires[s]
                 \/ owner'[s] = Null /\ pc'[owner[s]] = "DONE"
  <1>n. /\ now \in Nat /\ Lease \in Nat /\ now' \in Nat /\ now <= now'
        /\ owner \in [Scopes -> Attempts \cup {Null}] /\ expires \in [Scopes -> Nat]
    BY BoundsAssumption, LeaseData DEF TypeOK
  <1>1. CASE UNCHANGED leases
    BY <1>n, <1>1 DEF LeaseBounded
  <1>2. ASSUME NEW a \in Attempts, UNCHANGED now, NEW t \in ReadClock, ~ Held(AccountOf[a], t),
               owner' = [owner EXCEPT ![AccountOf[a]] = a],
               expires' = [expires EXCEPT ![AccountOf[a]] = t + Lease]
        PROVE  /\ LeaseBounded'
               /\ \A s \in Scopes : Held(s, now) =>
                     owner'[s] = owner[s] /\ expires'[s] = expires[s]
    <2>1. t \in Nat /\ t <= now
      BY <1>n DEF ReadClock
    <2>2. ~ Held(AccountOf[a], now)
      BY <1>n, <1>2, <2>1, AttemptsAssumption DEF Held
    <2>3. LeaseBounded'
      BY <1>n, <1>2, <2>1 DEF LeaseBounded
    <2> QED BY <1>n, <1>2, <2>2, <2>3
  <1>3. ASSUME NEW a \in Attempts, UNCHANGED now, owner[AccountOf[a]] = a, pc'[a] = "DONE",
               owner' = [owner EXCEPT ![AccountOf[a]] = Null],
               expires' = [expires EXCEPT ![AccountOf[a]] = 0]
        PROVE  /\ LeaseBounded'
               /\ \A s \in Scopes : \/ owner'[s] = owner[s] /\ expires'[s] = expires[s]
                                    \/ owner'[s] = Null /\ pc'[owner[s]] = "DONE"
    BY <1>n, <1>3 DEF LeaseBounded
  <1> QED BY <1>1, <1>2, <1>3, LeaseData, LeaseWrites

\* A reservation can block an account for one lease length at most: no lease is
\* longer, and no step renews or takes over one that is live, although the store
\* may use a clock that was read before it waited for the database
\* (acquire_reservation, release_reservation).
THEOREM LeasesLapse == Spec => []LeaseBounded /\ LiveLeaseStays
  <1> DEFINE Stays == \A s \in Scopes : Held(s, now) =>
                 \/ owner'[s] = owner[s] /\ expires'[s] = expires[s]
                 \/ owner'[s] = Null /\ pc'[owner[s]] = "DONE"
  <1>1. Init => LeaseBounded
    BY BoundsAssumption DEF Init, LeaseBounded
  <1>2. TypeOK /\ LeaseBounded /\ [Next]_vars => LeaseBounded' /\ [Stays]_vars
    BY LeaseStep
  <1> QED BY <1>1, <1>2, TypeCorrect, PTL DEF Spec, LiveLeaseStays
=============================================================================
