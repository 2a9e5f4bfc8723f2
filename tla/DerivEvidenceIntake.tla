-------------------------- MODULE DerivEvidenceIntake --------------------------
(***************************************************************************)
(* How outside material becomes Deriv evidence: a handoff package          *)
(* (deriv_evidence_handoff.py) is validated and turned into intake         *)
(* records, claims are extracted from them, a verifier attests to the      *)
(* source, and readiness for semantic review is evaluated                  *)
(* (deriv_evidence_intake.py).  Anything may be edited on the way: a field *)
(* of the parcel after it was sealed, the material after it was verified,  *)
(* and a verification or an intake may be revoked before the evaluation.   *)
(*                                                                         *)
(* A SHA-256 is its argument (injective), so a package id is the summary   *)
(* it was computed from.                                                   *)
(***************************************************************************)
EXTENDS Naturals, FiniteSets

CONSTANTS
    Artifacts,         \* artifact ids of the parcel
    RequiredCategories,
    Unset              \* an optional field that is None

\* What the code and its configuration guarantee of these values.
ArtifactsAssumption == Artifacts # {} /\ Cardinality(RequiredCategories) = 2

VARIABLES
    parcel,            \* the handoff package
    intakes,           \* artifact -> intake record, once built
    attestations,      \* artifact -> source verification, once given
    withdrawn,         \* revocations: <<kind, artifact>>
    readiness,         \* answer of the readiness check
    edits              \* edits made so far

intakeVars == <<parcel, intakes, attestations, withdrawn, readiness, edits>>

EvidenceFlag(condition, reason) == IF condition THEN {reason} ELSE {}

---------------------------------------------------------------------------
(* The handoff package.                                                    *)

\* compute_handoff_package_id: what the identity binds.
PackageSummary(p) ==
    [environment |-> p.environment, classification |-> p.classification,
     family |-> p.family, currency |-> p.currency,
     artifacts |-> [a \in DOMAIN p.artifacts |->
                      [category |-> p.artifacts[a].category,
                       source |-> p.artifacts[a].source,
                       hash |-> p.artifacts[a].hash,
                       complete |-> p.artifacts[a].complete]]]

\* An artifact may leave a scope field unset; a set one must equal the package's.
Stated(p, f) == {p.artifacts[a][f] : a \in DOMAIN p.artifacts} \ {Unset}

HandoffReasons(p, expected, enforceProduction) ==
    LET Clash(f) ==
            \/ p[f] # Unset /\ Stated(p, f) \ {p[f]} # {}
            \/ expected[f] # Unset /\ p[f] # expected[f]
    IN EvidenceFlag(p.package_id # PackageSummary(p), "PACKAGE_TAMPERED")
       \cup EvidenceFlag(enforceProduction /\ p.classification # "PRODUCTION",
                         "SYNTHETIC_NOT_PRODUCTION")
       \cup EvidenceFlag(Clash("environment"), "ENVIRONMENT_MISMATCH")
       \cup EvidenceFlag(Clash("currency"), "CURRENCY_MISMATCH")
       \cup EvidenceFlag(Clash("account"), "SCOPE_MISMATCH")
       \cup EvidenceFlag(Clash("family"), "CONTRACT_FAMILY_MISMATCH")
       \cup EvidenceFlag(\E a \in DOMAIN p.artifacts :
                            p.artifacts[a].raw # p.artifacts[a].hash,
                         "RAW_MATERIAL_HASH_MISMATCH")
       \cup EvidenceFlag(\E a \in DOMAIN p.artifacts : ~ p.artifacts[a].complete,
                         "SOURCE_INCOMPLETE")
       \cup EvidenceFlag(\E a \in DOMAIN p.artifacts : ~ p.artifacts[a].known,
                         "PROVENANCE_INCOMPLETE")
       \cup EvidenceFlag(\E f \in {"environment", "currency", "account", "family"} :
                            Cardinality(Stated(p, f)) > 1,
                         "ARTIFACT_METADATA_CONFLICT")
       \cup EvidenceFlag(RequiredCategories \ {p.artifacts[a].category :
                                                  a \in DOMAIN p.artifacts} # {},
                         "MISSING_REQUIRED_CATEGORY")

HandoffState(p, expected, enforceProduction) ==
    LET reasons == HandoffReasons(p, expected, enforceProduction)
    IN CASE p.artifacts = <<>> -> "INSUFFICIENT"
         [] p.artifacts # <<>> /\ reasons = {} -> "ELIGIBLE"
         [] OTHER -> IF "ARTIFACT_METADATA_CONFLICT" \in reasons THEN "CONFLICT"
                     ELSE IF reasons \subseteq {"MISSING_REQUIRED_CATEGORY",
                                                "SOURCE_INCOMPLETE",
                                                "PROVENANCE_INCOMPLETE"}
                          THEN "INSUFFICIENT" ELSE "REJECTED"

NoExpectation == [f \in {"environment", "currency", "account", "family"} |-> Unset]

\* What the desk expects the evidence to be about.
ExpectedScope ==
    [environment |-> "demo", currency |-> "USD", account |-> "acc", family |-> "MULTUP"]

---------------------------------------------------------------------------
(* Intake records.                                                         *)

OrElse(value, default) == IF value = Unset THEN default ELSE value

\* The constructor of an intake record refuses a synthetic source under a
\* production classification and the reverse.
IntakeOK(i) == i.syntheticSource <=> i.classification = "SYNTHETIC"

IntakeOf(p, a) ==
    LET x == p.artifacts[a]
    IN [source |-> x.source, raw |-> x.raw, hash |-> x.hash, fields |-> x.fields,
        fieldsHash |-> x.fields, classification |-> p.classification,
        syntheticSource |-> x.syntheticSource, complete |-> x.complete,
        known |-> x.known,
        environment |-> OrElse(x.environment, p.environment),
        currency |-> OrElse(x.currency, p.currency),
        account |-> OrElse(x.account, p.account),
        family |-> OrElse(x.family, p.family),
        claim |-> x.claim]

\* extract_deriv_semantic_claims: all the declared claims, or none when one of
\* them points at a field that is absent or needs a complete source.
Extracted(i) ==
    IF i.claim.field \in i.fields /\ (i.complete \/ ~ i.claim.needsComplete)
    THEN {[value |-> i.claim.value, supported |-> i.claim.supported,
           source |-> i.source, hash |-> i.hash]}
    ELSE {}

\* A source verification names the material it was given for.
AttestationOf(i) ==
    [source |-> i.source, hash |-> i.hash, fieldsHash |-> i.fieldsHash,
     classification |-> i.classification, environment |-> i.environment,
     currency |-> i.currency, family |-> i.family]

ScopeFields == {"environment", "currency", "family"}

\* What speaks against one record.
RecordReasons(a, is, vs, revoked, claims, expected) ==
    LET i == is[a]
    IN EvidenceFlag(i.classification # "PRODUCTION", "SYNTHETIC_NOT_PRODUCTION")
       \cup EvidenceFlag(i.raw # i.hash, "MATERIAL_HASH_MISMATCH")
       \cup EvidenceFlag(i.fields # i.fieldsHash, "NORMALIZATION_HASH_MISMATCH")
       \cup EvidenceFlag(~ i.known, "PROVENANCE_UNKNOWN")
       \cup EvidenceFlag(~ i.complete, "SOURCE_INCOMPLETE")
       \cup EvidenceFlag(\E f \in ScopeFields \cup {"account"} : i[f] # expected[f],
                         "SCOPE_MISMATCH")
       \cup EvidenceFlag(<<"INTAKE", a>> \in revoked, "EVIDENCE_REVOKED")
       \cup (IF a \notin DOMAIN vs THEN {"SOURCE_NOT_VERIFIED"}
             ELSE IF ~ vs[a].verified THEN {"SOURCE_NOT_VERIFIED"}
             ELSE EvidenceFlag(<<"SOURCE_VERIFICATION", a>> \in revoked,
                               "SOURCE_VERIFICATION_REVOKED")
                  \cup EvidenceFlag(vs[a].of # [AttestationOf(i) EXCEPT
                                        !.hash = i.raw, !.fieldsHash = i.fields],
                                    "MATERIAL_HASH_MISMATCH"))
       \cup EvidenceFlag(claims[a] # Extracted(i) \/ \E c \in claims[a] : ~ c.supported,
                         "CLAIM_BINDING_MISMATCH")

ReadinessReasons(is, vs, revoked, claims, expected) ==
    LET all == UNION {claims[a] : a \in DOMAIN is}
    IN (UNION {RecordReasons(a, is, vs, revoked, claims, expected) : a \in DOMAIN is})
       \cup EvidenceFlag(\E c, d \in all : c.value # d.value, "EVIDENCE_CONFLICT")

ReadinessState(is, vs, revoked, claims, expected) ==
    LET reasons == ReadinessReasons(is, vs, revoked, claims, expected)
    IN CASE DOMAIN is = {} -> "PRODUCTION_EVIDENCE_NOT_AVAILABLE"
         [] DOMAIN is # {} /\ reasons = {} -> "READY"
         [] OTHER -> IF "EVIDENCE_CONFLICT" \in reasons THEN "CONFLICT"
                     ELSE IF reasons \subseteq {"SOURCE_NOT_VERIFIED", "SOURCE_INCOMPLETE",
                                                "PROVENANCE_UNKNOWN"}
                          THEN "INSUFFICIENT" ELSE "REJECTED"

---------------------------------------------------------------------------
(* The desk.                                                               *)

SealedArtifact(category) ==
    [category |-> category, source |-> "vendor", raw |-> "bytes", hash |-> "bytes",
     fields |-> {"limit"}, complete |-> TRUE, known |-> TRUE, syntheticSource |-> FALSE,
     environment |-> Unset, currency |-> Unset, account |-> Unset, family |-> Unset,
     claim |-> [field |-> "limit", needsComplete |-> TRUE, value |-> "v",
                supported |-> TRUE]]

\* A sealed parcel: categories dealt out to the artifacts, its identity computed.
SealedParcels ==
    {[q EXCEPT !.package_id = PackageSummary(q)] :
        q \in {[package_id |-> Unset, environment |-> "demo", classification |-> c,
                family |-> "MULTUP", currency |-> "USD", account |-> "acc",
                artifacts |-> [a \in Artifacts |-> SealedArtifact(deal[a])]] :
                  c \in {"PRODUCTION", "SYNTHETIC"},
                  deal \in [Artifacts -> RequiredCategories]}}

NothingBuilt == [a \in {} |-> Unset]

IntakeInit ==
    /\ parcel \in SealedParcels
    /\ intakes = NothingBuilt
    /\ attestations = NothingBuilt
    /\ withdrawn = {}
    /\ readiness = "NONE"
    /\ edits = 0

\* Values a careless or late edit may leave in a field of an artifact.
Edited(f, old) ==
    CASE f = "raw" -> "other" [] f = "hash" -> "other" [] f = "source" -> "elsewhere"
      [] f = "fields" -> {} [] f = "category" -> CHOOSE c \in RequiredCategories : c # old
      [] f = "environment" -> "real" [] f = "currency" -> "EUR" [] f = "account" -> "acc2"
      [] f = "family" -> "MULTDOWN"
      [] f = "claim" -> [old EXCEPT !.value = "w"]
      [] OTHER -> ~ old

EditArtifact(a, f) ==
    /\ edits < 2 /\ intakes = NothingBuilt
    /\ parcel' = [parcel EXCEPT !.artifacts[a][f] = Edited(f, @)]
    /\ edits' = edits + 1
    /\ UNCHANGED <<intakes, attestations, withdrawn, readiness>>

\* build_candidate_intake_records_from_handoff: all records or an error.
BuildIntakes ==
    /\ intakes = NothingBuilt
    /\ HandoffState(parcel, NoExpectation, FALSE) = "ELIGIBLE"
    /\ \A a \in Artifacts : IntakeOK(IntakeOf(parcel, a))
    /\ intakes' = [a \in Artifacts |-> IntakeOf(parcel, a)]
    /\ UNCHANGED <<parcel, attestations, withdrawn, readiness, edits>>

\* A verifier looks at the material of an intake and attests to it, or not.
VerifySource(a, verified) ==
    /\ a \in DOMAIN intakes /\ a \notin DOMAIN attestations
    /\ attestations' = [b \in DOMAIN attestations \cup {a} |->
           IF b = a THEN [verified |-> verified, of |-> AttestationOf(intakes[a])]
                    ELSE attestations[b]]
    /\ UNCHANGED <<parcel, intakes, withdrawn, readiness, edits>>

\* Intake records are kept by value: a copy made after the attestation may
\* carry other material (what was changed before it, the verifier sees).
EditIntake(a, f) ==
    /\ edits < 2 /\ a \in DOMAIN attestations /\ readiness = "NONE"
    /\ intakes' = [intakes EXCEPT ![a][f] = Edited(f, @)]
    /\ edits' = edits + 1
    /\ UNCHANGED <<parcel, attestations, withdrawn, readiness>>

RevokeEvidence(kind, a) ==
    /\ a \in DOMAIN intakes /\ withdrawn = {} /\ readiness = "NONE"
    /\ withdrawn' = {<<kind, a>>}
    /\ UNCHANGED <<parcel, intakes, attestations, readiness, edits>>

EvaluateReadiness ==
    /\ intakes # NothingBuilt /\ readiness = "NONE"
    /\ readiness' = ReadinessState(intakes, attestations, withdrawn,
                                   [a \in Artifacts |-> Extracted(intakes[a])],
                                   ExpectedScope)
    /\ UNCHANGED <<parcel, intakes, attestations, withdrawn, edits>>

IntakeNext ==
    \/ \E a \in Artifacts, f \in {"raw", "hash", "source", "category", "complete", "known",
                                  "syntheticSource", "environment", "currency", "account",
                                  "family", "fields", "claim"} : EditArtifact(a, f)
    \/ BuildIntakes
    \/ \E a \in Artifacts, v \in BOOLEAN : VerifySource(a, v)
    \/ \E a \in Artifacts, f \in {"raw", "hash", "fields", "complete", "claim"} :
          EditIntake(a, f)
    \/ \E k \in {"INTAKE", "SOURCE_VERIFICATION"}, a \in Artifacts : RevokeEvidence(k, a)
    \/ EvaluateReadiness

---------------------------------------------------------------------------
IntakeTypeOK ==
    /\ DOMAIN parcel.artifacts = Artifacts
    /\ DOMAIN intakes \in {{}, Artifacts}
    /\ DOMAIN attestations \subseteq DOMAIN intakes
    /\ edits \in 0 .. 2

\* Evidence reaches semantic review only as production material that is byte for
\* byte what was sealed and attested, in the expected scope, unrevoked, each
\* required category present: edits between sealing, intake, attestation and
\* evaluation are caught by one of the hashes wherever they fall.
\* (The claim a source field is read as is not bound by any hash: two edited
\* claims that agree pass, so the property does not speak of claim values.)
ReadyEvidenceIsSealedEvidence ==
    readiness = "READY" =>
        \A a \in Artifacts :
            /\ intakes[a].raw = "bytes" /\ intakes[a].source = "vendor"
            /\ intakes[a].classification = "PRODUCTION"
            /\ intakes[a].complete /\ intakes[a].known
            /\ \A f \in DOMAIN ExpectedScope : intakes[a][f] = ExpectedScope[f]
            /\ a \in DOMAIN attestations /\ attestations[a].verified
            /\ attestations[a].of.hash = intakes[a].raw
            /\ withdrawn = {}
            /\ {parcel.artifacts[b].category : b \in Artifacts} = RequiredCategories
=============================================================================
