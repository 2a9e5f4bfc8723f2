------------------------------ MODULE Evidence ------------------------------
(***************************************************************************)
(* The components that collect and judge evidence: proof governance and    *)
(* intake, the historical campaign, the terminal audit, market data,       *)
(* shadow outcomes and the research engines.  They share no state while    *)
(* they run, so a behaviour is of one of them, in the way of Operations:   *)
(* part names it and never changes, the others rest in an initial state.   *)
(***************************************************************************)
EXTENDS
    DerivProofChain, DerivProofStore, DerivEvidenceIntake, HistoricalCampaign,
    TerminalAudit, CandleCache, DatasetBundle, ShadowOutcomes,
    SequentialReplay, BacktestEngine, ExperimentCatalog

(* What the components assume of their constants. *)
ASSUME EvidenceAssumption ==
    /\ ChainAttemptsAssumption
    /\ ProofConstantsAssumption
    /\ ArtifactsAssumption
    /\ HistoricalAssumption
    /\ AuditAssumption
    /\ CacheAssumption
    /\ SeriesAssumption
    /\ ShadowAssumption
    /\ SequentialAssumption
    /\ BacktestAssumption
    /\ CatalogAssumption

VARIABLE part

evidenceVars ==
    <<part, chainVars, storeVars, intakeVars, historicalVars, auditVars,
      cacheVars, bundleVars, shadowVars, sequentialVars, backtestVars,
      catalogVars>>

(***************************************************************************)
(* The specification.  A component that rests does so in one of its        *)
(* initial states; only the proof chain, whose state is a package of       *)
(* documents, rests without one.                                           *)
(***************************************************************************)
NoPackage == <<>>

Init ==
    /\ part \in {"chain", "store", "intake", "historical", "audit", "cache",
                 "bundle", "shadow", "sequential", "backtest", "catalog"}
    /\ IF part = "chain" THEN ChainInit
                         ELSE package = NoPackage /\ admissionResult = "NONE" /\ attempts = 0
    /\ part # "intake" => parcel = CHOOSE p \in SealedParcels : TRUE
    /\ part # "historical" =>
          series = (CHOOSE s \in Datasets : TRUE) /\ signalled = {} /\ passing = {}
    /\ part # "catalog" => files = [i \in ExperimentIds |-> NoRecord]
    /\ StoreInit /\ IntakeInit /\ HistoricalInit /\ AuditInit
    /\ CacheInit /\ BundleInit /\ ShadowInit /\ SequentialInit
    /\ BacktestInit /\ CatalogInit

\* The components that are not the part in question stay as they are.
OthersRest ==
    /\ UNCHANGED part
    /\ part # "chain" => UNCHANGED chainVars
    /\ part # "store" => UNCHANGED storeVars
    /\ part # "intake" => UNCHANGED intakeVars
    /\ part # "historical" => UNCHANGED historicalVars
    /\ part # "audit" => UNCHANGED auditVars
    /\ part # "cache" => UNCHANGED cacheVars
    /\ part # "bundle" => UNCHANGED bundleVars
    /\ part # "shadow" => UNCHANGED shadowVars
    /\ part # "sequential" => UNCHANGED sequentialVars
    /\ part # "backtest" => UNCHANGED backtestVars
    /\ part # "catalog" => UNCHANGED catalogVars

Next ==
    \/ part = "chain" /\ ChainNext /\ OthersRest
    \/ part = "store" /\ StoreNext /\ OthersRest
    \/ part = "intake" /\ IntakeNext /\ OthersRest
    \/ part = "historical" /\ HistoricalNext /\ OthersRest
    \/ part = "audit" /\ AuditNext /\ OthersRest
    \/ part = "cache" /\ CacheNext /\ OthersRest
    \/ part = "bundle" /\ BundleNext /\ OthersRest
    \/ part = "shadow" /\ ShadowNext /\ OthersRest
    \/ part = "sequential" /\ SequentialNext /\ OthersRest
    \/ part = "backtest" /\ BacktestNext /\ OthersRest
    \/ part = "catalog" /\ CatalogNext /\ OthersRest

Spec == Init /\ [][Next]_evidenceVars

(***************************************************************************)
(* Properties: those of the components, several of one concern together.   *)
(***************************************************************************)
(* Each component keeps to the values its code gives its state. *)
EvidenceTypeOK ==
    /\ part = "chain" => ChainTypeOK
    /\ part = "store" => StoreTypeOK
    /\ part = "intake" => IntakeTypeOK
    /\ part = "historical" => HistoricalTypeOK
    /\ part = "audit" => AuditTypeOK
    /\ part = "cache" => CacheTypeOK
    /\ part = "bundle" => BundleTypeOK
    /\ part = "shadow" => ShadowTypeOK
    /\ part = "sequential" => SequentialTypeOK
    /\ part = "backtest" => BacktestTypeOK
    /\ part = "catalog" => CatalogTypeOK

(* Evidence becomes authority only by the book: review material is what    *)
(* was sealed and attested (deriv_evidence_intake.py), and a proof is      *)
(* admitted only on a lineage of documents that agree, are approved, on    *)
(* file and unrevoked at that moment (deriv_proof_registry.py).            *)
EvidenceAdmission ==
    [][/\ part = "chain" => AdmissionSound
       /\ part = "intake" => ReadyEvidenceIsSealedEvidence']_evidenceVars

(* Persisted proof authority survives stale desks and crashes, and no      *)
(* revoked proof gives execution terms (deriv_proof_store.py,              *)
(* deriv_execution_terms_service.py).                                      *)
ProofAuthorityKept == [][part = "store" => ProofStoreSound]_evidenceVars

(* The historical campaign takes candidates in order and publishes only    *)
(* complete evidence decided under one fingerprint (paper_campaign.py).    *)
HistoricalCampaignSound == part = "historical" => HistoricalSound

(* A clean terminal audit hides no phantom, and an unclean one latches the *)
(* stop and ends the loop (continuous_reconciliation.py).                  *)
AuditHidesNothing == part = "audit" => CleanAuditAccounts

(* Candles called current are, acquisitions are complete, and a study runs *)
(* on the candles of one export (api/service.py, the acquisition registry, *)
(* dataset bundles).                                                       *)
ServedDataSound ==
    /\ part = "cache" => CurrentRepliesAreCurrent /\ JobsSound
    /\ part = "bundle" => StudiesAreOfOneExport

(* A decided shadow outcome is what prices did first, and stays            *)
(* (shadow_outcomes.py).                                                   *)
ShadowBookKept == [][part = "shadow" => ShadowBookSound]_evidenceVars

(* The sequential replay's controls, the backtest engine's books and the   *)
(* experiment catalog's records are causal, balanced and kept              *)
(* (sequential_replay.py, backtesting/backtest.py, experiments.py).        *)
ResearchSound ==
    /\ part = "sequential" => SequentialSound
    /\ part = "backtest" => BacktestSound
    /\ part = "catalog" => ExperimentsSound
=============================================================================
