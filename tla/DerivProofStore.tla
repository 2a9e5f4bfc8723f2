---------------------------- MODULE DerivProofStore ----------------------------
(***************************************************************************)
(* The durable half of the Deriv proof governance: the SQLite snapshot of  *)
(* admitted proofs and revocations (deriv_proof_store.py), the desks that  *)
(* load it, extend it in memory and persist it, and the readers that ask   *)
(* it for authority: proof consumption (deriv_proof_consumption.py), the   *)
(* loss model (deriv_loss_model.py), the execution-terms service           *)
(* (deriv_execution_terms.py, deriv_execution_terms_service.py) and the    *)
(* quantity capability (deriv_contract_spec.py).                           *)
(*                                                                         *)
(* An entry is the identity of its proof: what else it carries is given by *)
(* the constant functions below, since entries are immutable.  Admission   *)
(* itself is the subject of DerivProofChain; here it needs an unrevoked,   *)
(* unregistered proof.  A snapshot round trip (payload, hash, canonical    *)
(* form) is the identity on well-formed states and an error on others.     *)
(***************************************************************************)
EXTENDS Naturals, FiniteSets

CONSTANTS
    Desks,             \* processes that edit the store
    Proofs,            \* identities of proofs that may be admitted
    ProofScopes,       \* applicabilities
    ScopeOf,           \* the applicability an entry was admitted for
    ValidFrom, ValidUntil,
    Supported,         \* proofs whose semantics establish terms
    Unspecified,       \* proofs admitted without financial semantics
    EvaluationTimes,   \* instants a request may name as evaluated_at
    RevocationRecords, \* revocations an authority may issue
    NoEntry            \* lookup.entry is None

\* What the code and its configuration guarantee of these values.
ProofConstantsAssumption ==
    /\ ScopeOf \in [Proofs -> ProofScopes]
    /\ ValidFrom \in [Proofs -> Nat] /\ ValidUntil \in [Proofs -> Nat]
    /\ \A p \in Proofs : ValidFrom[p] < ValidUntil[p]
    /\ Supported \cap Unspecified = {}
    /\ EvaluationTimes \subseteq Nat
    /\ NoEntry \notin Proofs
    /\ \A r \in RevocationRecords : r.target \in Proofs

VARIABLES
    snapshot,          \* the row of deriv_proof_state
    damaged,           \* the row no longer matches its hash or schema
    held,              \* the DerivDurableProofState a desk has built
    persisting,        \* where a desk is inside persist()
    answer,            \* what the terms service has just answered
    everPersisted,     \* history: revocations committed so far
    raced              \* history: a desk committed between another's check and write

storeVars == <<snapshot, damaged, held, persisting, answer,
               everPersisted, raced>>

\* A revocation record is [id, kind, target, reason]; candidate, verification
\* and entry of a proof share its name, so its kind and target tell which.
EmptyState == [entries |-> {}, revocations |-> {}]

NoAnswer == [state |-> "NONE", entry |-> NoEntry, scope |-> NoEntry, at |-> 0,
             offered |-> "none", loss |-> "NONE", authorized |-> FALSE]

ConflictingRevocations(revocations) ==
    \E r, s \in revocations :
        /\ r # s
        /\ \/ r.id = s.id
           \/ <<r.kind, r.target>> = <<s.kind, s.target>> /\ r.reason # s.reason

DurableStateOK(state) == ~ ConflictingRevocations(state.revocations)

Revoked(p, revocations) == \E r \in revocations : r.target = p

---------------------------------------------------------------------------
(* Readers.                                                                *)

\* lookup_deriv_proof_registry
Lookup(state, scope) ==
    LET matches == {p \in state.entries : ScopeOf[p] = scope}
    IN IF matches = {} THEN [state |-> "NO_ENTRY", entry |-> NoEntry]
       ELSE IF Cardinality(matches) > 1
            THEN [state |-> "CONFLICTING_STATE", entry |-> NoEntry]
            ELSE LET p == CHOOSE q \in matches : TRUE
                 IN [state |-> IF Revoked(p, state.revocations)
                               THEN "REVOKED_ENTRY" ELSE "ACTIVE_ENTRY_FOUND",
                     entry |-> p]

\* validate_authoritative_proof_for_capability, for a request that names the
\* lineage of proof p (NoEntry: of no entry at all).
Consume(state, scope, p, at) ==
    LET found == Lookup(state, scope)
    IN IF ConflictingRevocations(state.revocations) \/ found.state = "CONFLICTING_STATE"
       THEN "PROOF_CONFLICT"
       ELSE CASE found.state = "NO_ENTRY" -> "PROOF_UNAVAILABLE"
              [] found.state = "REVOKED_ENTRY" -> "PROOF_REVOKED"
              [] OTHER -> IF \/ p # found.entry
                             \/ at < ValidFrom[found.entry]
                             \/ at > ValidUntil[found.entry]
                          THEN "PROOF_UNAVAILABLE" ELSE "PROOF_AVAILABLE"

\* evaluate_authoritative_deriv_loss_model: given is the consumption result the
\* caller holds, inputs whether positive finite inputs were supplied.
LossModel(state, scope, p, at, given, inputs) ==
    LET recomputed == Consume(state, scope, p, at)
    IN CASE recomputed # "PROOF_AVAILABLE" -> "PROOF_UNAVAILABLE"
         [] recomputed = "PROOF_AVAILABLE" /\ given # recomputed -> "LOSS_CONFLICT"
         [] OTHER -> IF inputs THEN "LOSS_MODEL_UNSUPPORTED" ELSE "LOSS_INPUT_INVALID"

\* evaluate_synthetic_deriv_execution_terms.  offered: "none" (no propositions),
\* "unbounded" (no maximum loss), "within" or "beyond" the authorized risk.
Terms(proofState, p, offered) ==
    CASE proofState # "PROOF_AVAILABLE" -> "PROOF_UNAVAILABLE"
      [] proofState = "PROOF_AVAILABLE" /\ (offered = "none" \/ p \notin Supported) ->
           "MODEL_UNSUPPORTED"
      [] OTHER -> CASE offered = "unbounded" -> "FINANCIAL_INPUT_INVALID"
                    [] offered = "beyond" -> "RISK_BOUND_EXCEEDED"
                    [] OTHER -> "TERMS_AVAILABLE"

\* OfflineDerivExecutionTermsService.evaluate
ServiceAnswer(state, unreadable, scope, at, offered) ==
    LET found == Lookup(state, scope)
        consumed == Consume(state, scope, found.entry, at)
    IN CASE unreadable -> "PROOF_STORE_UNAVAILABLE"
         [] ~ unreadable /\ found.state = "NO_ENTRY" -> "PROOF_UNAVAILABLE"
         [] ~ unreadable /\ found.state = "CONFLICTING_STATE" -> "PROOF_CONFLICT"
         [] OTHER -> IF consumed # "PROOF_AVAILABLE" THEN consumed
                     ELSE IF found.entry \in Unspecified THEN "MODEL_UNSUPPORTED"
                     ELSE Terms(consumed, found.entry, offered)

\* evaluate_deriv_quantity_capability: the requirements the specification
\* lacks.  _AUTHORIZED_LOSS_MODEL_PROOFS is empty, so one is always missing,
\* whatever the proof and the loss evaluation say.
AuthorizedLossModelProofs == {}
MissingRequirements(specificationGaps, verifiedProof) ==
    specificationGaps \cup
    (IF verifiedProof = NoEntry THEN {"independently validated loss-model proof"}
     ELSE IF verifiedProof \notin AuthorizedLossModelProofs
          THEN {"authoritative proof registration"} ELSE {})

---------------------------------------------------------------------------
(* Desks.                                                                  *)

StoreInit ==
    /\ snapshot = EmptyState
    /\ damaged = FALSE
    /\ held = [d \in Desks |-> EmptyState]
    /\ persisting = [d \in Desks |-> "idle"]
    /\ answer = NoAnswer
    /\ everPersisted = {}
    /\ raced = FALSE

LoadState(d) ==
    /\ persisting[d] = "idle"
    /\ ~ damaged
    /\ held' = [held EXCEPT ![d] = snapshot]
    /\ UNCHANGED <<snapshot, damaged, persisting, everPersisted, raced>>
    /\ answer' = NoAnswer

\* admit_deriv_proof_registry_entry on the state the desk holds.
AdmitProof(d, p) ==
    /\ persisting[d] = "idle"
    /\ p \notin held[d].entries
    /\ ~ Revoked(p, held[d].revocations)
    /\ held' = [held EXCEPT ![d].entries = @ \cup {p}]
    /\ UNCHANGED <<snapshot, damaged, persisting, everPersisted, raced>>
    /\ answer' = NoAnswer

RecordRevocation(d, r) ==
    /\ persisting[d] = "idle"
    /\ r \notin held[d].revocations
    /\ held' = [held EXCEPT ![d].revocations = @ \cup {r}]
    /\ DurableStateOK(held'[d])
    /\ UNCHANGED <<snapshot, damaged, persisting, everPersisted, raced>>
    /\ answer' = NoAnswer

\* Mutant: the stored revocations are not compared.
PersistCheckEntries(d) ==
    /\ persisting[d] = "idle"
    /\ IF damaged \/ ~ (snapshot.entries \subseteq held[d].entries)
       THEN UNCHANGED persisting
       ELSE persisting' = [persisting EXCEPT ![d] = "checked"]
    /\ UNCHANGED <<snapshot, damaged, held, everPersisted, raced>>
    /\ answer' = NoAnswer

\* persist() up to its transaction: the stored state is loaded and compared.
PersistCheck(d) ==
    /\ persisting[d] = "idle"
    /\ IF damaged \/ ~ (/\ snapshot.entries \subseteq held[d].entries
                        /\ snapshot.revocations \subseteq held[d].revocations)
       THEN UNCHANGED persisting
       ELSE persisting' = [persisting EXCEPT ![d] = "checked"]
    /\ UNCHANGED <<snapshot, damaged, held, everPersisted, raced>>
    /\ answer' = NoAnswer

\* persist(): BEGIN IMMEDIATE, upsert of the single row, commit.
PersistWrite(d) ==
    /\ persisting[d] = "checked"
    /\ snapshot' = held[d]
    /\ damaged' = FALSE
    /\ persisting' = [persisting EXCEPT ![d] = "idle"]
    /\ everPersisted' = everPersisted \cup held[d].revocations
    /\ raced' = (raced \/ \E e \in Desks \ {d} : persisting[e] = "checked")
    /\ UNCHANGED held
    /\ answer' = NoAnswer

\* The process ends, inside persist() or not; what it held is gone.
DeskCrash(d) ==
    /\ held' = [held EXCEPT ![d] = EmptyState]
    /\ persisting' = [persisting EXCEPT ![d] = "idle"]
    /\ UNCHANGED <<snapshot, damaged, everPersisted, raced>>
    /\ answer' = NoAnswer

\* The file is damaged outside the program; load() notices the hash.
DamageSnapshot ==
    /\ ~ damaged
    /\ damaged' = TRUE
    /\ UNCHANGED <<snapshot, held, persisting, everPersisted, raced>>
    /\ answer' = NoAnswer

\* One request to the terms service, with what the loss model and the
\* capability check say of the same proof.
EvaluateTerms(scope, at, offered) ==
    /\ answer = NoAnswer
    /\ answer' = [state |-> ServiceAnswer(snapshot, damaged, scope, at, offered),
                  entry |-> IF damaged THEN NoEntry ELSE Lookup(snapshot, scope).entry,
                  scope |-> scope, at |-> at, offered |-> offered,
                  loss |-> IF damaged THEN "NONE"
                           ELSE LossModel(snapshot, scope, Lookup(snapshot, scope).entry,
                                          at, "PROOF_AVAILABLE", offered # "none"),
                  authorized |-> MissingRequirements({}, Lookup(snapshot, scope).entry) = {}]
    /\ UNCHANGED <<snapshot, damaged, held, persisting, everPersisted, raced>>

StoreNext ==
    \/ \E d \in Desks : LoadState(d) \/ PersistCheck(d) \/ PersistWrite(d) \/ DeskCrash(d)
    \/ \E d \in Desks, p \in Proofs : AdmitProof(d, p)
    \/ \E d \in Desks, r \in RevocationRecords : RecordRevocation(d, r)
    \/ DamageSnapshot
    \/ \E s \in ProofScopes, t \in EvaluationTimes,
          o \in {"none", "unbounded", "within", "beyond"} : EvaluateTerms(s, t, o)

---------------------------------------------------------------------------
StoreTypeOK ==
    /\ snapshot.entries \subseteq Proofs /\ DurableStateOK(snapshot)
    /\ \A d \in Desks : held[d].entries \subseteq Proofs /\ DurableStateOK(held[d])
    /\ persisting \in [Desks -> {"idle", "checked"}]

\* What the terms service says of the state it reads: terms only for the one
\* entry of the exact scope, inside its validity window, with a bounded loss
\* within the authorized risk; neither the loss model nor the capability check
\* turns a proof into an authorized quantity.
TermsSound ==
    /\ answer.state = "TERMS_AVAILABLE" =>
          /\ answer.entry \in Supported
          /\ ScopeOf[answer.entry] = answer.scope
          /\ ValidFrom[answer.entry] <= answer.at /\ answer.at <= ValidUntil[answer.entry]
          /\ answer.offered = "within"
          /\ answer.loss \in {"LOSS_MODEL_UNSUPPORTED", "LOSS_INPUT_INVALID"}
    /\ ~ answer.authorized

\* Of a step: revocation is for ever, across crashes, reloads and stale desks: the terms
\* handed out are sound, and as long as no two persists overlapped (the one case
\* in which persist() can overwrite what it should have refused to alter) every
\* admitted proof stays on file, every committed revocation stays in force, and
\* no proof whose revocation was ever committed gives terms again.
ProofStoreSound ==
    /\ TermsSound'
    /\ ~ raced' =>
          /\ snapshot.entries \subseteq snapshot'.entries
          /\ everPersisted \subseteq snapshot'.revocations
    /\ ~ raced /\ answer' # answer /\ answer'.state = "TERMS_AVAILABLE" =>
          ~ Revoked(answer'.entry, everPersisted)
=============================================================================
