---------------------------- MODULE DerivProofChain ----------------------------
(***************************************************************************)
(* The chain of documents that admits a Deriv loss-model proof: evidence   *)
(* artifacts (deriv_evidence.py), the review decision over them            *)
(* (deriv_evidence_review.py), the proof assessment (deriv_proof_review),  *)
(* the candidate with its independent verification and the eligibility     *)
(* result (deriv_proof_registration.py) and the admission request and      *)
(* registry (deriv_proof_registry.py).                                     *)
(*                                                                         *)
(* Documents are immutable records supplied by their authors; the code     *)
(* compares them pairwise along the chain.  A package holds one document   *)
(* of each kind, the artifact registry, the revocations and the proof      *)
(* registry; desks admit it, revoke and withdraw evidence in any order.    *)
(* An identity is a small string, a SHA-256 of a financial semantics is    *)
(* the semantics itself (the hash is taken to be injective).               *)
(***************************************************************************)
EXTENDS Naturals, Sequences, FiniteSets

CONSTANTS
    NoSemantics,       \* financial_semantics is None
    ChainAttempts      \* bound: admissions tried on one package

\* What the code and its configuration guarantee of these values.
ChainAttemptsAssumption == ChainAttempts \in Nat \ {0}

VARIABLES
    package,           \* the documents and registries the desk works on
    admissionResult,   \* state of the latest admission outcome, "NONE" before
    attempts           \* admissions tried so far

chainVars == <<package, admissionResult, attempts>>

Flag(condition, reason) == IF condition THEN {reason} ELSE {}

\* The reasons a check gives, or the one that says there are none.
ReasonsOr(reasons, clean) == IF reasons = {} THEN {clean} ELSE reasons

Unique(s) == \A i, j \in DOMAIN s : s[i] = s[j] => i = j

---------------------------------------------------------------------------
(* Financial semantics: the aspects _semantic_mismatch_reasons tells apart, *)
(* and the applicability they were written for.                            *)

AspectReason ==
    [semantic_id      |-> "SEMANTIC_ID_MISMATCH",
     semantic_version |-> "SEMANTIC_VERSION_MISMATCH",
     equation         |-> "EQUATION_IDENTITY_MISMATCH",
     operands         |-> "OPERAND_SCHEMA_MISMATCH",
     units            |-> "UNIT_SCHEMA_MISMATCH",
     output           |-> "OUTPUT_SEMANTIC_MISMATCH",
     domain           |-> "DOMAIN_MISMATCH",
     rounding         |-> "ROUNDING_POLICY_MISMATCH"]

SemanticMismatchReasons(left, right) ==
    IF left = right THEN {}
    ELSE IF NoSemantics \in {left, right} THEN {"FINANCIAL_SEMANTICS_MISSING"}
    ELSE LET differing == {a \in DOMAIN AspectReason : left[a] # right[a]}
         IN IF differing = {} THEN {"CANDIDATE_IDENTITY_MISMATCH"}
            ELSE {AspectReason[a] : a \in differing}

---------------------------------------------------------------------------
(* Evidence artifacts and the review decision over them.  evidence is the  *)
(* positionally aligned pair of artifact_ids and artifact_content_hashes.  *)

ArtifactRegistryOK(artifacts) ==
    /\ \A a, b \in DOMAIN artifacts :
          artifacts[a].hash = artifacts[b].hash => a = b
    /\ \A a \in DOMAIN artifacts : \A c, d \in artifacts[a].claims :
          c.claim_id = d.claim_id => c = d

DecisionOK(d) ==
    /\ d.semantics # NoSemantics => d.semantics.scope = d.scope
    /\ Unique([i \in DOMAIN d.evidence |-> d.evidence[i].artifact])
    /\ Unique(d.claims)
    /\ d.reasons # {}
    /\ IF d.state = "APPROVED_FOR_PROOF_REVIEW"
       THEN /\ d.evidence # <<>> /\ d.claims # <<>>
            /\ d.reasons = {"EVIDENCE_SET_COMPLETE"}
       ELSE "EVIDENCE_SET_COMPLETE" \notin d.reasons

Cited(d, artifacts) ==
    {i \in DOMAIN d.evidence : d.evidence[i].artifact \in DOMAIN artifacts}

\* claims_by_id: of two cited artifacts holding the same claim id the later wins.
SelectedClaims(d, artifacts) ==
    LET Holding(id) ==
            {i \in Cited(d, artifacts) :
                \E c \in artifacts[d.evidence[i].artifact].claims : c.claim_id = id}
        Latest(id) == CHOOSE i \in Holding(id) : \A j \in Holding(id) : j <= i
    IN {c \in UNION {artifacts[d.evidence[i].artifact].claims :
                        i \in Cited(d, artifacts)} :
           /\ \E k \in DOMAIN d.claims : d.claims[k] = c.claim_id
           /\ c \in artifacts[d.evidence[Latest(c.claim_id)].artifact].claims}

ObservedEvidenceReasons(d, artifacts) ==
    LET cited == Cited(d, artifacts)
        Artifact(i) == artifacts[d.evidence[i].artifact]
        selected == SelectedClaims(d, artifacts)
    IN  ReasonsOr(
            Flag(d.evidence = <<>> \/ d.claims = <<>>, "MISSING_REQUIRED_CLAIM")
            \cup Flag(\E k \in DOMAIN d.claims :
                         \A c \in selected : c.claim_id # d.claims[k],
                      "MISSING_REQUIRED_CLAIM")
            \cup Flag(cited # DOMAIN d.evidence
                      \/ \E i \in cited : Artifact(i).hash # d.evidence[i].hash,
                      "CONTENT_IDENTITY_MISMATCH")
            \cup Flag(\E i \in cited : Artifact(i).review = "REJECTED",
                      "ARTIFACT_REJECTED")
            \cup Flag(\E i \in cited : Artifact(i).review = "UNREVIEWED",
                      "ARTIFACT_UNREVIEWED")
            \cup Flag(\E c \in selected : c.review = "REJECTED", "CLAIM_REJECTED")
            \cup Flag(\E c \in selected : c.review = "UNREVIEWED", "CLAIM_UNREVIEWED")
            \cup Flag(\E c \in selected : c.scope # d.scope, "APPLICABILITY_MISMATCH")
            \cup Flag(\E c, e \in selected :
                         <<c.kind, c.scope>> = <<e.kind, e.scope>> /\ c.value # e.value,
                      "DUPLICATE_OR_CONFLICTING_CLAIM")
            \cup Flag(d.semantics # NoSemantics
                      /\ ~ \E c \in selected :
                             c.kind = "LOSS_MODEL" /\ c.value = d.semantics,
                      "MISSING_REQUIRED_CLAIM"),
            "EVIDENCE_SET_COMPLETE")

ReviewStands(d) ==
    /\ "CONTENT_IDENTITY_MISMATCH" \notin d.reasons
    /\ CASE d.state = "APPROVED_FOR_PROOF_REVIEW" ->
              d.reasons = {"EVIDENCE_SET_COMPLETE"}
         [] d.state = "REJECTED" ->
              d.reasons \cap {"ARTIFACT_REJECTED", "CLAIM_REJECTED",
                              "APPLICABILITY_MISMATCH",
                              "DUPLICATE_OR_CONFLICTING_CLAIM"} # {}
         [] OTHER ->
              d.reasons \cap {"ARTIFACT_UNREVIEWED", "CLAIM_UNREVIEWED",
                              "MISSING_REQUIRED_CLAIM"} # {}

\* The decision gives exactly the reasons observed, and they bear out its state.
ValidReview(d, artifacts) ==
    ObservedEvidenceReasons(d, artifacts) = d.reasons /\ ReviewStands(d)

---------------------------------------------------------------------------
(* The proof assessment.                                                   *)

AssessmentOK(a) ==
    /\ a.semantics # NoSemantics => a.semantics.scope = a.scope
    /\ IF a.state = "READY"
       THEN a.evidence # <<>> /\ a.claims # <<>> /\ a.reasons = {"REVIEW_PACKAGE_CONSISTENT"}
       ELSE a.reasons # {} /\ "REVIEW_PACKAGE_CONSISTENT" \notin a.reasons

ValidAssessment(a, d, artifacts) ==
    LET identity ==
            Flag(a.decision_id # d.decision_id \/ a.evidence # d.evidence
                 \/ a.semantics # d.semantics, "EVIDENCE_IDENTITY_MISMATCH")
            \cup Flag(a.claims # d.claims, "CLAIM_SET_MISMATCH")
            \cup Flag(a.scope # d.scope, "APPLICABILITY_MISMATCH")
            \cup Flag(~ ValidReview(d, artifacts), "REVIEW_DECISION_STALE")
        approval ==
            IF d.state = "APPROVED_FOR_PROOF_REVIEW" THEN {}
            ELSE {"REVIEW_DECISION_NOT_APPROVED",
                  IF d.state = "REJECTED" THEN "REVIEW_PACKAGE_CONFLICTING"
                                          ELSE "REVIEW_SCOPE_INCOMPLETE"}
    IN /\ identity = {}
       /\ a.reasons = ReasonsOr(approval, "REVIEW_PACKAGE_CONSISTENT")
       /\ CASE a.state = "READY" -> a.reasons = {"REVIEW_PACKAGE_CONSISTENT"}
            [] a.state = "REJECTED" -> "REVIEW_PACKAGE_CONFLICTING" \in a.reasons
            [] OTHER -> "REVIEW_SCOPE_INCOMPLETE" \in a.reasons

---------------------------------------------------------------------------
(* Candidate, independent verification, eligibility.                       *)

CandidateOK(c) ==
    /\ c.evidence # <<>> /\ c.claims # <<>>
    /\ c.valid_until > c.valid_from
    /\ c.semantics # NoSemantics =>
          /\ c.semantics.scope = c.scope
          /\ c.semantics.semantic_id = c.loss_model_id
          /\ c.semantics.semantic_version = c.loss_model_version
          /\ c.semantics = c.material_hash

VerificationOK(v) ==
    /\ CandidateOK(v)
    /\ v.reasons = {CASE v.state = "VERIFIED" -> "CANDIDATE_INDEPENDENTLY_VERIFIED"
                      [] v.state = "REJECTED" -> "CANDIDATE_REJECTED"
                      [] OTHER -> "VERIFICATION_SCOPE_INCOMPLETE"}

RevocationOK(r) == (r.reason = "SUPERSEDED") <=> (r.superseded_by # "none")

Revokes(revocations, kind, id) ==
    {r \in revocations : r.target_kind = kind /\ r.target_id = id}

ReusesRevocationId(revocations) ==
    \E r, s \in revocations : r # s /\ r.revocation_id = s.revocation_id

\* A verification names its candidate in every field but its own id and verdict.
VerificationFields ==
    {"candidate_id", "material_hash", "loss_model_id", "loss_model_version",
     "evidence_source_id", "assessment_id", "decision_id", "evidence", "claims",
     "valid_from", "valid_until"}

EligibilityReasons(p) ==
    LET c == p.candidate
        v == p.verification
        semantics == SemanticMismatchReasons(c.semantics, v.semantics)
    IN  ReasonsOr(
            Flag(~ ValidAssessment(p.assessment, p.decision, p.artifacts),
                 "SOURCE_ASSESSMENT_INVALID")
            \cup Flag(p.assessment.state # "READY", "SOURCE_ASSESSMENT_NOT_READY")
            \cup Flag(p.decision.state # "APPROVED_FOR_PROOF_REVIEW",
                      "ADVISORY_DECISION_NOT_APPROVED")
            \cup Flag(c.assessment_id # p.assessment.assessment_id
                      \/ c.decision_id # p.decision.decision_id,
                      "CANDIDATE_IDENTITY_MISMATCH")
            \cup Flag(c.evidence # p.assessment.evidence, "EVIDENCE_IDENTITY_MISMATCH")
            \cup Flag(c.claims # p.assessment.claims, "CLAIM_SET_MISMATCH")
            \cup Flag(c.scope # p.assessment.scope \/ v.scope # c.scope,
                      "APPLICABILITY_MISMATCH")
            \cup SemanticMismatchReasons(c.semantics, p.assessment.semantics)
            \cup Flag(v.state # "VERIFIED", "INDEPENDENT_VERIFICATION_NOT_VERIFIED")
            \cup Flag((\E f \in VerificationFields : v[f] # c[f]) \/ semantics # {},
                      "INDEPENDENT_VERIFICATION_MISMATCH")
            \cup semantics
            \cup Flag(ReusesRevocationId(p.revocations), "REVOCATION_RECORD_CONFLICT")
            \cup Flag(Revokes(p.revocations, "CANDIDATE", c.candidate_id) # {},
                      "CANDIDATE_REVOKED")
            \cup Flag(Revokes(p.revocations, "INDEPENDENT_VERIFICATION",
                              v.verification_id) # {},
                      "INDEPENDENT_VERIFICATION_REVOKED"),
            "REGISTRATION_CHAIN_COMPLETE")

---------------------------------------------------------------------------
(* Admission into the proof registry, a set of entries.                    *)

RequestOK(q) ==
    /\ q.evidence # <<>> /\ q.claims # <<>>
    /\ q.valid_until > q.valid_from
    /\ q.semantics # NoSemantics => q.semantics.scope = q.scope

\* The proof material and lineage of an entry or request: all but the admission.
AuthorityIdentity(q) ==
    [f \in DOMAIN q \ {"admission_id"} |-> q[f]]

RegistryStateOK(entries) ==
    \A e, g \in entries :
        (\/ e.proof_id = g.proof_id \/ e.admission_id = g.admission_id
         \/ e.candidate_id = g.candidate_id) => e = g

\* Mutant: a revocation of the registered proof itself is forgotten.
RevocationsBeforeProof(q, v, revocations) ==
    Flag(Revokes(revocations, "CANDIDATE", q.candidate_id) # {}, "CANDIDATE_REVOKED")
    \cup Flag(Revokes(revocations, "INDEPENDENT_VERIFICATION", v.verification_id) # {},
              "VERIFICATION_REVOKED")

ValidateRevocations(q, v, revocations) ==
    Flag(ReusesRevocationId(revocations), "REVOCATION_RECORD_CONFLICT")
    \cup Flag(Revokes(revocations, "CANDIDATE", q.candidate_id) # {},
              "CANDIDATE_REVOKED")
    \cup {IF r.reason = "SUPERSEDED" THEN "VERIFICATION_SUPERSEDED"
                                     ELSE "VERIFICATION_REVOKED" :
            r \in Revokes(revocations, "INDEPENDENT_VERIFICATION", v.verification_id)}
    \cup Flag(Revokes(revocations, "REGISTERED_PROOF", q.proof_id) # {},
              "PROOF_REVOKED")

AdmissionReasons(p) ==
    LET q == p.request
        c == p.candidate
    IN Flag(p.eligibility # {"REGISTRATION_CHAIN_COMPLETE"}, "ELIGIBILITY_INVALID")
       \cup Flag({EligibilityReasons(p), p.eligibility}
                     # {{"REGISTRATION_CHAIN_COMPLETE"}}, "ELIGIBILITY_STALE")
       \cup Flag(q.candidate_id # c.candidate_id, "CANDIDATE_MISMATCH")
       \cup Flag(q.material_hash # c.material_hash, "MATERIAL_HASH_MISMATCH")
       \cup Flag(q.verification_id # p.verification.verification_id,
                 "VERIFICATION_MISMATCH")
       \cup Flag(q.assessment_id # p.assessment.assessment_id
                 \/ q.decision_id # p.decision.decision_id, "ADVISORY_CHAIN_MISMATCH")
       \cup Flag(q.evidence # c.evidence, "EVIDENCE_IDENTITY_MISMATCH")
       \cup Flag(q.claims # c.claims, "CLAIM_SET_MISMATCH")
       \cup Flag(q.scope # c.scope, "APPLICABILITY_MISMATCH")
       \cup Flag(\/ \E f \in {"loss_model_id", "loss_model_version",
                              "evidence_source_id", "valid_from", "valid_until"} :
                        q[f] # c[f]
                 \/ q.semantics # c.semantics
                 \/ \E d \in {"verification", "assessment", "decision"} :
                        p[d].semantics # c.semantics,
                 "LOSS_MODEL_IDENTITY_MISMATCH")
       \cup ValidateRevocations(q, p.verification, p.revocations)

AdmissionOutcome(p) ==
    LET q == p.request
        existing == {e \in p.registry : e.proof_id = q.proof_id}
        same == \E e \in existing : AuthorityIdentity(e) = AuthorityIdentity(q)
        conflict == \E e \in p.registry : e.admission_id = q.admission_id
                                          \/ e.candidate_id = q.candidate_id
    IN IF AdmissionReasons(p) # {} THEN "REJECTED"
       ELSE IF same THEN "ALREADY_ADMITTED"
       ELSE IF existing # {} \/ conflict THEN "REJECTED" ELSE "ADMITTED"

---------------------------------------------------------------------------
(* The desk.  Honest is a package whose documents agree; a package differs *)
(* from it in at most two places its authors may have got wrong.           *)

Sem == [a \in DOMAIN AspectReason \cup {"scope"} |-> "one"]
SemWith(a) == [Sem EXCEPT ![a] = "two"]

LossClaim(sem, review, scope) ==
    [claim_id |-> "c1", kind |-> "LOSS_MODEL", value |-> sem,
     review |-> review, scope |-> scope]
StakeClaim(id, sem, review) ==
    [claim_id |-> id, kind |-> "MINIMUM_STAKE", value |-> sem,
     review |-> review, scope |-> "one"]
ArtifactOf(hash, review, claims) == [hash |-> hash, review |-> review, claims |-> claims]

HonestArtifacts ==
    [a1 |-> ArtifactOf("h1", "REVIEWED", {LossClaim(Sem, "REVIEWED", "one")}),
     a2 |-> ArtifactOf("h2", "REVIEWED", {StakeClaim("c2", Sem, "REVIEWED")})]

Lineage ==
    [decision_id |-> "one", evidence |-> <<[artifact |-> "a1", hash |-> "h1"],
                                           [artifact |-> "a2", hash |-> "h2"]>>,
     claims |-> <<"c1", "c2">>, scope |-> "one", semantics |-> Sem,
     assessment_id |-> "one", candidate_id |-> "one", material_hash |-> Sem,
     loss_model_id |-> "one", loss_model_version |-> "one",
     evidence_source_id |-> "one", valid_from |-> 1, valid_until |-> 3,
     verification_id |-> "one", proof_id |-> "one", admission_id |-> "one"]

Carrying(fields) == [f \in fields |-> Lineage[f]]
DecisionFields == {"decision_id", "evidence", "claims", "scope", "semantics"}
AssessmentFields == DecisionFields \cup {"assessment_id"}
CandidateFields == VerificationFields \cup {"scope", "semantics"}
RequestFields == DOMAIN Lineage

Judged(document, state, reasons) ==
    [f \in DOMAIN document \cup {"state", "reasons"} |->
        CASE f = "state" -> state [] f = "reasons" -> reasons
          [] OTHER -> document[f]]

Honest ==
    [artifacts |-> HonestArtifacts,
     decision |-> Judged(Carrying(DecisionFields), "APPROVED_FOR_PROOF_REVIEW",
                         {"EVIDENCE_SET_COMPLETE"}),
     assessment |-> Judged(Carrying(AssessmentFields), "READY",
                           {"REVIEW_PACKAGE_CONSISTENT"}),
     candidate |-> Carrying(CandidateFields),
     verification |-> Judged(Carrying(CandidateFields \cup {"verification_id"}),
                             "VERIFIED", {"CANDIDATE_INDEPENDENTLY_VERIFIED"}),
     request |-> Carrying(RequestFields),
     eligibility |-> {"REGISTRATION_CHAIN_COMPLETE"},
     revocations |-> {}, registry |-> {}]

\* What an author may write instead of the agreed values: one field, or the
\* fields a constructor ties together.
SlipOfAspect(a) ==
    [f \in {"semantics", "material_hash"} \cup
           CASE a = "semantic_id" -> {"loss_model_id"}
             [] a = "semantic_version" -> {"loss_model_version"}
             [] a = "scope" -> {"scope"}
             [] OTHER -> {} |->
        IF f \in {"semantics", "material_hash"} THEN SemWith(a) ELSE "two"]

OneSlip(f, value) == [g \in {f} |-> value]

Slips ==
    {SlipOfAspect(a) : a \in DOMAIN Sem}
    \cup {OneSlip(f, "two") : f \in {"decision_id", "assessment_id", "candidate_id",
              "scope", "evidence_source_id", "loss_model_id", "verification_id",
              "proof_id", "admission_id"}}
    \cup {OneSlip("valid_from", 2), OneSlip("valid_until", 4),
          OneSlip("semantics", NoSemantics), OneSlip("material_hash", SemWith("output")),
          OneSlip("claims", <<"c1">>), OneSlip("claims", <<"c2", "c1">>),
          OneSlip("evidence", <<[artifact |-> "a1", hash |-> "h1"]>>),
          OneSlip("evidence", <<[artifact |-> "a1", hash |-> "h9"],
                                [artifact |-> "a2", hash |-> "h2"]>>)}

Verdicts ==
    {<<"decision", "REJECTED", {"ARTIFACT_REJECTED"}>>,
     <<"decision", "INSUFFICIENT", {"CLAIM_UNREVIEWED"}>>,
     <<"assessment", "REJECTED",
       {"REVIEW_DECISION_NOT_APPROVED", "REVIEW_PACKAGE_CONFLICTING"}>>,
     <<"assessment", "INSUFFICIENT",
       {"REVIEW_DECISION_NOT_APPROVED", "REVIEW_SCOPE_INCOMPLETE"}>>,
     <<"verification", "REJECTED", {"CANDIDATE_REJECTED"}>>,
     <<"verification", "INSUFFICIENT", {"VERIFICATION_SCOPE_INCOMPLETE"}>>}

Documents == {"decision", "assessment", "candidate", "verification", "request"}

\* The slip is made in the documents ds, each in the fields it carries.
Written(p, ds, slip) ==
    [d \in DOMAIN p |->
        IF d \in ds THEN [f \in DOMAIN p[d] |->
                            IF f \in DOMAIN slip THEN slip[f] ELSE p[d][f]]
        ELSE p[d]]

Judgement(p, v) == [p EXCEPT ![v[1]].state = v[2], ![v[1]].reasons = v[3]]

Slipped ==
    {Written(Honest, ds, slip) :
        ds \in {d \in SUBSET Documents : Cardinality(d) \in {1, 2, 5}}, slip \in Slips}
    \cup {Judgement(Honest, v) : v \in Verdicts}
    \cup {Judgement(Judgement(Honest, v), w) : v, w \in Verdicts}
    \cup {[Honest EXCEPT !.eligibility = {"CANDIDATE_REVOKED"}]}

ArtifactSlips ==
    {[HonestArtifacts EXCEPT !.a1 = ArtifactOf("h1", r, {LossClaim(s, k, x)})] :
        r \in {"REVIEWED", "UNREVIEWED", "REJECTED"}, s \in {Sem, SemWith("equation")},
        k \in {"REVIEWED", "UNREVIEWED", "REJECTED"}, x \in {"one", "two"}}
    \cup {[HonestArtifacts EXCEPT !.a2.claims = {StakeClaim("c2", s, "REVIEWED"),
                                                 StakeClaim(i, Sem, "REVIEWED")}] :
             s \in {Sem, SemWith("equation")}, i \in {"c1", "c3"}}

DocumentsOK(p) ==
    /\ ArtifactRegistryOK(p.artifacts)
    /\ DecisionOK(p.decision)
    /\ AssessmentOK(p.assessment)
    /\ CandidateOK(p.candidate)
    /\ VerificationOK(p.verification)
    /\ RequestOK(p.request)

Packages ==
    {p \in Slipped
           \cup {[Judgement(Honest, v) EXCEPT !.artifacts = a] :
                    v \in Verdicts, a \in ArtifactSlips}
           \cup {[Written(Honest, ds, OneSlip("claims", c)) EXCEPT !.artifacts = a] :
                    ds \in {{}, Documents}, c \in {<<"c1">>, <<"c1", "c2", "c3">>},
                    a \in ArtifactSlips} :
        DocumentsOK(p)}

ChainInit ==
    /\ package \in Packages
    /\ admissionResult = "NONE"
    /\ attempts = 0

\* admit_deriv_proof_registry_entry on the current package.
AdmitEntry ==
    /\ attempts < ChainAttempts
    /\ attempts' = attempts + 1
    /\ admissionResult' = AdmissionOutcome(package)
    /\ package' = IF admissionResult' = "ADMITTED"
                  THEN [package EXCEPT !.registry = @ \cup {package.request}]
                  ELSE package

\* The next admission attempt is for a new request of the same lineage, or
\* for the same one again.
Reapply(f) ==
    /\ attempts \in 1 .. ChainAttempts - 1
    /\ package.request[f] = "one"
    /\ package' = [package EXCEPT !.request[f] = "two"]
    /\ UNCHANGED <<admissionResult, attempts>>

\* A governance authority writes a revocation record.
RevokeAuthority(r) ==
    /\ RevocationOK(r)
    /\ attempts < ChainAttempts
    /\ Cardinality(package.revocations) < 1
    /\ package' = [package EXCEPT !.revocations = @ \cup {r}]
    /\ UNCHANGED <<admissionResult, attempts>>

\* DerivEvidenceRegistry.remove.
WithdrawArtifact(a) ==
    /\ a \in DOMAIN package.artifacts
    /\ attempts \in 1 .. ChainAttempts - 1
    /\ package' = [package EXCEPT !.artifacts =
                       [b \in DOMAIN package.artifacts \ {a} |-> package.artifacts[b]]]
    /\ UNCHANGED <<admissionResult, attempts>>

ChainRevocations ==
    {[revocation_id |-> "r1", target_kind |-> k, target_id |-> "one",
      reason |-> "REVOKED", superseded_by |-> "none"] :
        k \in {"CANDIDATE", "INDEPENDENT_VERIFICATION", "REGISTERED_PROOF"}}
    \cup {[revocation_id |-> "r1", target_kind |-> "INDEPENDENT_VERIFICATION",
           target_id |-> "one", reason |-> "SUPERSEDED", superseded_by |-> s] :
              s \in {"none", "two"}}

ChainNext ==
    \/ AdmitEntry
    \/ \E f \in {"admission_id", "proof_id"} : Reapply(f)
    \/ \E r \in ChainRevocations : RevokeAuthority(r)
    \/ \E a \in {"a1", "a2"} : WithdrawArtifact(a)

---------------------------------------------------------------------------
ChainTypeOK ==
    /\ DocumentsOK(package)
    /\ admissionResult \in {"NONE", "ADMITTED", "ALREADY_ADMITTED", "REJECTED"}
    /\ attempts \in 0 .. ChainAttempts

\* Two documents agree when they agree on every field both carry.
Agree(d, e) ==
    \A f \in (DOMAIN d \cap DOMAIN e) \ {"state", "reasons"} : d[f] = e[f]

\* What an admitted lineage must be: all five documents tell one story, each
\* author said yes, and every artifact and claim it names is on file, reviewed
\* and in scope, with nothing contradictory and nothing revoked.
Established(p) ==
    /\ \A d, e \in Documents : Agree(p[d], p[e])
    /\ p.decision.state = "APPROVED_FOR_PROOF_REVIEW"
    /\ p.assessment.state = "READY"
    /\ p.verification.state = "VERIFIED"
    /\ \A i \in DOMAIN p.decision.evidence :
          LET x == p.decision.evidence[i]
          IN /\ x.artifact \in DOMAIN p.artifacts
             /\ p.artifacts[x.artifact].hash = x.hash
             /\ p.artifacts[x.artifact].review = "REVIEWED"
    /\ LET filed == SelectedClaims(p.decision, p.artifacts)
       IN /\ {p.decision.claims[k] : k \in DOMAIN p.decision.claims}
                \subseteq {c.claim_id : c \in filed}
          /\ \A c \in filed : c.review = "REVIEWED" /\ c.scope = p.decision.scope
          /\ \A c, e \in filed : c.kind = e.kind => c.value = e.value
          /\ p.decision.semantics # NoSemantics =>
                \E c \in filed : c.kind = "LOSS_MODEL" /\ c.value = p.decision.semantics
    /\ Revokes(p.revocations, "CANDIDATE", p.candidate.candidate_id) = {}
    /\ Revokes(p.revocations, "INDEPENDENT_VERIFICATION",
               p.verification.verification_id) = {}
    /\ Revokes(p.revocations, "REGISTERED_PROOF", p.request.proof_id) = {}

\* Of a step: an admission succeeds only for an established lineage, judged on the evidence
\* and revocations of that moment and not on the eligibility result it is handed;
\* a second request for a lineage on file is answered from the file, never by a
\* second entry.  (admit_deriv_proof_registry_entry compares neighbours in the
\* chain only; this says the comparisons add up.)
AdmissionSound ==
    /\ attempts' # attempts /\ admissionResult' \in {"ADMITTED", "ALREADY_ADMITTED"} =>
          Established(package)
    /\ RegistryStateOK(package'.registry)
    /\ attempts' # attempts /\ admissionResult' = "REJECTED" =>
          ~ (/\ Established(package)
             /\ package.registry = {}
             /\ package.eligibility = {"REGISTRATION_CHAIN_COMPLETE"})
=============================================================================
