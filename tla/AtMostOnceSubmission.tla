--------------------------- MODULE AtMostOnceSubmission ---------------------------
(***************************************************************************)
(* What the durable execution boundary promises of an intent, without      *)
(* attempts, leases, clocks, snapshots or crashes: it is put on record     *)
(* before it is submitted, submitted at most once and only while its       *)
(* outcome is open, accepted only after it was submitted, and decided      *)
(* once.  Only a decision by hand can meet a submission that comes later.  *)
(***************************************************************************)
CONSTANT Keys

VARIABLES
    outcome,       \* what is on record about each intent
    submitted,     \* intents that were sent to the broker
    byHand         \* intents an operator decided

vars == <<outcome, submitted, byHand>>

TypeOK ==
    /\ outcome \in [Keys -> {"NEW", "UNDECIDED", "ACCEPTED", "REJECTED"}]
    /\ submitted \in SUBSET Keys
    /\ byHand \in SUBSET Keys

Init ==
    /\ outcome = [k \in Keys |-> "NEW"]
    /\ submitted = {}
    /\ byHand = {}

Decide(k, from, to) ==
    /\ outcome[k] = from
    /\ outcome' = [outcome EXCEPT ![k] = to]
    /\ UNCHANGED submitted

Record(k) == Decide(k, "NEW", "UNDECIDED") /\ UNCHANGED byHand

Send(k) ==
    /\ k \notin submitted
    /\ outcome[k] = "UNDECIDED" \/ k \in byHand
    /\ submitted' = submitted \cup {k}
    /\ UNCHANGED <<outcome, byHand>>

Accept(k) == k \in submitted /\ Decide(k, "UNDECIDED", "ACCEPTED") /\ UNCHANGED byHand

Reject(k) == Decide(k, "UNDECIDED", "REJECTED") /\ UNCHANGED byHand

RejectByHand(k) == Decide(k, "UNDECIDED", "REJECTED") /\ byHand' = byHand \cup {k}

Next == \E k \in Keys : Record(k) \/ Send(k) \/ Accept(k) \/ Reject(k) \/ RejectByHand(k)

Spec == Init /\ [][Next]_vars
=============================================================================
