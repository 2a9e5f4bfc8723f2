----------------------------- MODULE EvidenceProofs -----------------------------
(***************************************************************************)
(* Machine-checked proofs about Evidence, for every value of its constants *)
(* the assumptions admit: the proof store, dataset bundles, the candle     *)
(* cache, shadow outcomes, the evidence intake, the proof chain, the       *)
(* historical campaign, the terminal audit, the sequential replay, the     *)
(* experiment catalog and the backtest; then what they say of Evidence.    *)
(***************************************************************************)
EXTENDS Evidence, FiniteSetTheorems, SequenceTheorems, NaturalsInduction, WellFoundedInduction, TLAPS

(***************************************************************************)
(* The proof store.  A desk between its check and its write holds what the *)
(* snapshot holds, unless two persists have overlapped.                    *)
(***************************************************************************)
StoreSpec == StoreInit /\ [][StoreNext]_storeVars

DurableStates ==
    {s \in [entries : SUBSET Proofs, revocations : SUBSET RevocationRecords] : DurableStateOK(s)}

StoreShape ==
    /\ snapshot \in DurableStates /\ held \in [Desks -> DurableStates]
    /\ persisting \in [Desks -> {"idle", "checked"}]

NoUpdateLost ==
    ~raced =>
        /\ everPersisted \subseteq snapshot.revocations
        /\ \A d \in Desks : persisting[d] = "checked" =>
              /\ snapshot.entries \subseteq held[d].entries
              /\ snapshot.revocations \subseteq held[d].revocations

StoreInv == StoreShape /\ NoUpdateLost /\ TermsSound

LEMMA StoreStarts == StoreInit => StoreInv
  <1>1. EmptyState \in DurableStates
    BY DEF EmptyState, DurableStates, DurableStateOK, ConflictingRevocations
  <1> QED BY <1>1 DEF StoreInit, StoreInv, StoreShape, NoUpdateLost, TermsSound, NoAnswer, EmptyState

\* Terms come only from an undamaged store, of the entry it has for the scope, unrevoked
\* and inside its window (deriv_execution_terms_service.py).
LEMMA AnswerIsSound ==
    ASSUME ProofConstantsAssumption, StoreInv, NEW scope \in ProofScopes,
           NEW at \in EvaluationTimes, NEW offered \in {"none", "unbounded", "within", "beyond"},
           EvaluateTerms(scope, at, offered)
    PROVE  /\ TermsSound'
           /\ answer'.state = "TERMS_AVAILABLE" => ~Revoked(answer'.entry, snapshot.revocations)
  <1> DEFINE found == Lookup(snapshot, scope)
             matches == {p \in snapshot.entries : ScopeOf[p] = scope}
             consumed == Consume(snapshot, scope, found.entry, at)
  <1>1. /\ answer'.state = ServiceAnswer(snapshot, damaged, scope, at, offered)
        /\ answer'.entry = IF damaged THEN NoEntry ELSE found.entry
        /\ answer'.scope = scope /\ answer'.at = at /\ answer'.offered = offered
        /\ answer'.loss = IF damaged THEN "NONE"
                          ELSE LossModel(snapshot, scope, found.entry, at, "PROOF_AVAILABLE", offered # "none")
        /\ answer'.authorized = (MissingRequirements({}, found.entry) = {})
    BY DEF EvaluateTerms
  <1>2. ~answer'.authorized
    BY <1>1 DEF MissingRequirements, AuthorizedLossModelProofs
  <1>3. ASSUME answer'.state = "TERMS_AVAILABLE"
        PROVE  /\ answer'.entry \in Supported /\ ScopeOf[answer'.entry] = answer'.scope
               /\ ValidFrom[answer'.entry] <= answer'.at /\ answer'.at <= ValidUntil[answer'.entry]
               /\ answer'.offered = "within"
               /\ answer'.loss \in {"LOSS_MODEL_UNSUPPORTED", "LOSS_INPUT_INVALID"}
               /\ ~Revoked(answer'.entry, snapshot.revocations)
    <2>1. /\ ~damaged /\ consumed = "PROOF_AVAILABLE"
          /\ Terms(consumed, found.entry, offered) = "TERMS_AVAILABLE"
      BY <1>1, <1>3 DEF ServiceAnswer, Consume
    <2>2. offered = "within" /\ found.entry \in Supported
      BY <2>1 DEF Terms
    <2>3. /\ found.state \notin {"CONFLICTING_STATE", "NO_ENTRY", "REVOKED_ENTRY"}
          /\ ~(at < ValidFrom[found.entry]) /\ ~(at > ValidUntil[found.entry])
      BY <2>1 DEF Consume
    <2>4. /\ found.entry \in matches /\ ~Revoked(found.entry, snapshot.revocations)
      <3> DEFINE chosen == CHOOSE q \in matches : TRUE
      <3>2. matches = {} => found = [state |-> "NO_ENTRY", entry |-> NoEntry]
        BY DEF Lookup
      <3>3. matches # {} /\ Cardinality(matches) > 1 =>
              found = [state |-> "CONFLICTING_STATE", entry |-> NoEntry]
        BY DEF Lookup
      <3>4. matches # {} /\ ~(Cardinality(matches) > 1) =>
              found = [state |-> IF Revoked(chosen, snapshot.revocations)
                                 THEN "REVOKED_ENTRY" ELSE "ACTIVE_ENTRY_FOUND",
                       entry |-> chosen]
        BY DEF Lookup
      <3>5. matches # {} => chosen \in matches
        OBVIOUS
      <3> HIDE DEF found, matches, chosen
      <3> QED BY <2>3, <3>2, <3>3, <3>4, <3>5
    <2>5. found.entry \in Proofs /\ ScopeOf[found.entry] = scope
      BY <2>4 DEF StoreInv, StoreShape, DurableStates
    <2>6. at \in Nat /\ ValidFrom[found.entry] \in Nat /\ ValidUntil[found.entry] \in Nat
      BY <2>5 DEF ProofConstantsAssumption
    <2>7. ValidFrom[found.entry] <= at /\ at <= ValidUntil[found.entry]
      BY <2>3, <2>6
    <2>8. answer'.loss \in {"LOSS_MODEL_UNSUPPORTED", "LOSS_INPUT_INVALID"}
      BY <1>1, <2>1 DEF LossModel
    <2>9. answer'.entry = found.entry
      BY <1>1, <2>1
    <2> HIDE DEF found
    <2> QED BY <1>1, <2>2, <2>4, <2>5, <2>7, <2>8, <2>9
  <1> QED BY <1>2, <1>3 DEF TermsSound

LEMMA StoreStep ==
    ASSUME ProofConstantsAssumption, StoreInv, [StoreNext]_storeVars
    PROVE  StoreInv' /\ ProofStoreSound
  <1> USE DEF StoreInv, StoreShape
  <1>1. CASE UNCHANGED storeVars
    BY <1>1 DEF storeVars, NoUpdateLost, TermsSound, ProofStoreSound
  <1>2. \A s \in DurableStates : s.entries \subseteq Proofs /\ s.revocations \subseteq RevocationRecords
    BY DEF DurableStates
  <1>3. ASSUME answer' = NoAnswer PROVE TermsSound' /\ answer'.state # "TERMS_AVAILABLE"
    BY <1>3 DEF NoAnswer, TermsSound
  <1>4. EmptyState \in DurableStates
    BY DEF EmptyState, DurableStates, DurableStateOK, ConflictingRevocations
  <1>5. ASSUME NEW d \in Desks, LoadState(d) PROVE StoreInv' /\ ProofStoreSound
    BY <1>3, <1>5 DEF LoadState, NoUpdateLost, ProofStoreSound
  <1>6. ASSUME NEW d \in Desks, PersistCheck(d) PROVE StoreInv' /\ ProofStoreSound
    BY <1>3, <1>6 DEF PersistCheck, NoUpdateLost, ProofStoreSound
  <1>7. ASSUME NEW d \in Desks, PersistWrite(d) PROVE StoreInv' /\ ProofStoreSound
    <2>1. StoreShape'
      BY <1>7 DEF PersistWrite
    <2>2. NoUpdateLost'
      BY <1>7 DEF PersistWrite, NoUpdateLost
    <2>3. ~raced' => snapshot.entries \subseteq snapshot'.entries
      BY <1>7 DEF PersistWrite, NoUpdateLost
    <2>4. ~raced' => everPersisted \subseteq snapshot'.revocations
      BY <1>7 DEF PersistWrite, NoUpdateLost
    <2>5. answer' = NoAnswer
      BY <1>7 DEF PersistWrite
    <2> QED BY <1>3, <2>1, <2>2, <2>3, <2>4, <2>5 DEF ProofStoreSound
  <1>8. ASSUME NEW d \in Desks, DeskCrash(d) PROVE StoreInv' /\ ProofStoreSound
    BY <1>3, <1>4, <1>8 DEF DeskCrash, NoUpdateLost, ProofStoreSound
  <1>9. ASSUME NEW d \in Desks, NEW p \in Proofs, AdmitProof(d, p) PROVE StoreInv' /\ ProofStoreSound
    <2>1. held'[d] \in DurableStates
      BY <1>9 DEF AdmitProof, DurableStates, DurableStateOK
    <2> QED BY <1>3, <1>9, <2>1 DEF AdmitProof, NoUpdateLost, ProofStoreSound
  <1>10. ASSUME NEW d \in Desks, NEW r \in RevocationRecords, RecordRevocation(d, r)
         PROVE  StoreInv' /\ ProofStoreSound
    <2>1. held'[d] \in DurableStates
      BY <1>10 DEF RecordRevocation, DurableStates
    <2> QED BY <1>3, <1>10, <2>1 DEF RecordRevocation, NoUpdateLost, ProofStoreSound
  <1>11. ASSUME DamageSnapshot PROVE StoreInv' /\ ProofStoreSound
    BY <1>3, <1>11 DEF DamageSnapshot, NoUpdateLost, ProofStoreSound
  <1>12. ASSUME NEW s \in ProofScopes, NEW t \in EvaluationTimes,
                NEW o \in {"none", "unbounded", "within", "beyond"}, EvaluateTerms(s, t, o)
         PROVE  StoreInv' /\ ProofStoreSound
    <2>1. UNCHANGED <<snapshot, damaged, held, persisting, everPersisted, raced>>
      BY <1>12 DEF EvaluateTerms
    <2>2. /\ TermsSound'
          /\ answer'.state = "TERMS_AVAILABLE" => ~Revoked(answer'.entry, snapshot.revocations)
      BY <1>12, AnswerIsSound
    <2>3. StoreInv'
      BY <2>1, <2>2 DEF NoUpdateLost
    <2>4. ~raced => \A p : ~Revoked(p, snapshot.revocations) => ~Revoked(p, everPersisted)
      BY DEF NoUpdateLost, Revoked
    <2> QED BY <2>1, <2>2, <2>3, <2>4 DEF ProofStoreSound, NoUpdateLost
  <1> QED BY <1>1, <1>5, <1>6, <1>7, <1>8, <1>9, <1>10, <1>11, <1>12 DEF StoreNext

\* For any desks, proofs, scopes and revocations: what the store holds stays well formed,
\* and no desk, crash or reader undoes a committed admission or revocation unless two
\* persists overlap (deriv_proof_store.py and the readers of the store).
THEOREM ProofStoreSafe ==
    ASSUME ProofConstantsAssumption
    PROVE  StoreSpec => []StoreTypeOK /\ [][ProofStoreSound]_storeVars
  <1>1. StoreInit => StoreInv
    BY StoreStarts
  <1>2. StoreInv /\ [StoreNext]_storeVars => StoreInv' /\ ProofStoreSound
    BY StoreStep
  <1>3. StoreInv => StoreTypeOK
    BY DEF StoreInv, StoreShape, StoreTypeOK, DurableStates
  <1> QED BY <1>1, <1>2, <1>3, PTL DEF StoreSpec

(***************************************************************************)
(* Dataset bundles.  The manifest names the content it was made from, so a *)
(* verified study has the candles of its manifest's export.                *)
(***************************************************************************)
BundleSpec == BundleInit /\ [][BundleNext]_bundleVars

BundleReads ==
    [manifest : {ManifestOf(s) : s \in Series} \cup {NoManifest}, candles : Series \cup {{}}]

BundleInv ==
    /\ BundleTypeOK /\ StudiesAreOfOneExport
    /\ reading \in BundleReads /\ study \in BundleReads

LEMMA BundleStarts == BundleInit => BundleInv
  BY DEF BundleInit, BundleInv, BundleTypeOK, StudiesAreOfOneExport, BundleReads, NoStudy, NoManifest

LEMMA BundleStep ==
    ASSUME BundleInv, [BundleNext]_bundleVars
    PROVE  BundleInv'
  <1> DEFINE Manifests == {ManifestOf(s) : s \in Series} \cup {NoManifest}
  <1>1. /\ csv \in Series \cup {{}} /\ exporting \in Series \cup {{}} /\ manifestFile \in Manifests
        /\ reading \in BundleReads /\ study \in BundleReads /\ study.candles = study.manifest.hash
    BY DEF BundleInv, BundleTypeOK, StudiesAreOfOneExport
  <1>2. BundleReads = [manifest : Manifests, candles : Series \cup {{}}] /\ NoManifest \in Manifests
    BY DEF BundleReads
  <1>3. NoStudy \in BundleReads /\ NoStudy.manifest = NoManifest
    BY <1>2 DEF NoStudy
  <1>4. exporting # {} => ManifestOf(exporting) \in Manifests
    BY <1>1
  <1> HIDE DEF Manifests
  <1>5. /\ csv' \in Series \cup {{}} /\ exporting' \in Series \cup {{}} /\ manifestFile' \in Manifests
        /\ reading' \in BundleReads /\ study' \in BundleReads /\ study'.candles = study'.manifest.hash
    <2>1. CASE UNCHANGED bundleVars
      BY <1>1, <2>1 DEF bundleVars
    <2>2. CASE WriteCandles
      BY <1>1, <2>2 DEF WriteCandles
    <2>3. CASE WriteManifest
      BY <1>1, <1>4, <2>3 DEF WriteManifest
    <2>4. CASE ReadManifest
      <3>1. reading' = [NoStudy EXCEPT !.manifest = manifestFile]
        BY <2>4 DEF ReadManifest
      <3>2. reading' \in BundleReads
        BY <1>1, <1>2, <1>3, <3>1
      <3> QED BY <1>1, <2>4, <3>2 DEF ReadManifest
    <2>5. CASE ReadCandles
      BY <1>1, <1>2, <1>3, <2>5 DEF ReadCandles
    <2>6. CASE RestoreAndVerify
      <3>1. ManifestOf(reading.candles).hash = reading.candles
        BY DEF ManifestOf
      <3> QED BY <1>1, <1>3, <2>6, <3>1 DEF RestoreAndVerify, Verifies
    <2> QED BY <2>1, <2>2, <2>3, <2>4, <2>5, <2>6 DEF BundleNext
  <1>6. \A r \in BundleReads : r.candles \in Series \cup {{}}
    BY <1>2
  <1> QED BY <1>5, <1>6 DEF BundleInv, BundleTypeOK, StudiesAreOfOneExport, Manifests

\* For any series: wherever exports die and however they interleave with a study's reads,
\* the study runs on the candles its manifest was made from (data/dataset.py).
THEOREM BundlesSafe == BundleSpec => [](BundleTypeOK /\ StudiesAreOfOneExport)
  <1>1. BundleInit => BundleInv
    BY BundleStarts
  <1>2. BundleInv /\ [BundleNext]_bundleVars => BundleInv'
    BY BundleStep
  <1>3. BundleInv => BundleTypeOK /\ StudiesAreOfOneExport
    BY DEF BundleInv
  <1> QED BY <1>1, <1>2, <1>3, PTL DEF BundleSpec

(***************************************************************************)
(* The candle cache.  No bar is stored, or wanted by a gap, before it      *)
(* exists, and a request never wants bars that were open when it began.    *)
(***************************************************************************)
CacheSpec == CacheInit /\ [][CacheNext]_cacheVars

JobStates == {"FREE", "QUEUED", "RUNNING", "SAVED", "COMPLETED", "FAILED"}

BarsExist ==
    /\ \A b \in Stored(cache) : b <= forming
    /\ request.asked <= forming
    /\ sync.at = "gaps" => sync.gaps # {}
    /\ \A g \in sync.gaps : g # {} /\ \A b \in g : b < forming

CacheInv == CacheTypeOK /\ BarsExist /\ CurrentRepliesAreCurrent /\ JobsSound

LEMMA NatHasLeast ==
    ASSUME NEW S \in SUBSET Nat, S # {}
    PROVE  \E x \in S : \A y \in S : x <= y
  <1>1. PICK x \in S : \A y \in S : ~(<<y, x>> \in OpToRel(<, Nat))
    BY NatLessThanWellFounded, WFMin
  <1>2. \A y \in S : ~(y < x)
    BY <1>1 DEF OpToRel
  <1> QED BY <1>2

LEMMA GreatestBar ==
    ASSUME CacheAssumption, NEW S \in SUBSET CacheBars, S # {}
    PROVE  Max(S) \in S /\ \A b \in S : b <= Max(S)
  <1> DEFINE Above == {n \in Nat : \A b \in S : b <= n}
  <1>1. MaxForming \in Nat /\ S \subseteq Nat /\ MaxForming \in Above
    BY DEF CacheAssumption, CacheBars
  <1>2. PICK n \in Above : \A m \in Above : n <= m
    BY <1>1, NatHasLeast
  <1>3. n \in Nat /\ \A b \in S : b <= n
    BY <1>2
  <1>4. n \in S
    <2>1. SUFFICES ASSUME n \notin S PROVE FALSE
      OBVIOUS
    <2>2. PICK b \in S : TRUE
      OBVIOUS
    <2>3. n > 0
      BY <1>1, <1>3, <2>1, <2>2 DEF CacheBars
    <2>4. \A c \in S : c <= n - 1
      BY <1>1, <1>3, <2>1
    <2>5. n - 1 \in Above
      BY <1>3, <2>3, <2>4
    <2> QED BY <1>2, <1>3, <2>5
  <1>5. \A b \in S : n >= b
    BY <1>1, <1>3
  <1>6. Max(S) \in S /\ \A b \in S : Max(S) >= b
    BY <1>4, <1>5 DEF Max
  <1> QED BY <1>1, <1>6

LEMMA LeastBar ==
    ASSUME CacheAssumption, NEW S \in SUBSET CacheBars, S # {}
    PROVE  Min(S) \in S /\ \A b \in S : Min(S) <= b
  <1>1. S \subseteq Nat
    BY DEF CacheAssumption, CacheBars
  <1>2. PICK n \in S : \A m \in S : n <= m
    BY <1>1, NatHasLeast
  <1> QED BY <1>2 DEF Min

\* load_latest gives the newest bar there is (storage.py).
LEMMA LatestLoaded ==
    ASSUME CacheAssumption, NEW c \in Contents, NEW n \in Nat, n > 0, Stored(LoadLatest(c, n)) # {}
    PROVE  /\ Stored(c) # {} /\ Max(Stored(LoadLatest(c, n))) = Max(Stored(c))
           /\ Max(Stored(c)) \in Stored(c)
  <1> DEFINE S == Stored(c)
             L == Stored(LoadLatest(c, n))
             Later(b) == {d \in S : d > b}
  <1>1. S \subseteq CacheBars /\ L = {b \in S : Cardinality(Later(b)) < n}
    BY DEF Stored, LoadLatest, Keep, Contents
  <1>2. S # {} /\ L \subseteq S
    BY <1>1
  <1>3. Max(S) \in S /\ \A b \in S : b <= Max(S)
    BY <1>1, <1>2, GreatestBar
  <1>4. Later(Max(S)) = {}
    BY <1>1, <1>3 DEF CacheBars
  <1>5. Max(S) \in L
    BY <1>1, <1>3, <1>4, FS_EmptySet
  <1>6. Max(L) \in L /\ \A b \in L : b <= Max(L)
    BY <1>1, <1>2, GreatestBar
  <1>7. Max(L) \in Nat /\ Max(S) \in Nat
    BY <1>1, <1>2, <1>3, <1>6 DEF CacheBars
  <1> HIDE DEF S, L
  <1>8. Max(L) = Max(S)
    BY <1>2, <1>3, <1>5, <1>6, <1>7
  <1> QED BY <1>2, <1>3, <1>8 DEF S, L

\* A save of closed bars stores them with final prices and leaves the others alone.
LEMMA ClosedBarsMerged ==
    ASSUME CacheAssumption, CacheTypeOK, NEW bars \in SUBSET CacheBars, \A b \in bars : b < forming
    PROVE  /\ Merged(Reported(bars)) \in Contents
           /\ Stored(Merged(Reported(bars))) = Stored(cache) \cup bars
           /\ \A b \in CacheBars :
                 Merged(Reported(bars))[b] = IF b \in bars THEN "final" ELSE cache[b]
  <1>1. \A b \in CacheBars : Reported(bars)[b] = IF b \in bars THEN "final" ELSE "none"
    BY DEF Reported, CacheBars, CacheTypeOK, CacheAssumption
  <1>2. \A b \in CacheBars :
            Merged(Reported(bars))[b] = IF b \in bars THEN "final" ELSE cache[b]
    BY <1>1 DEF Merged
  <1>3. Merged(Reported(bars)) \in Contents
    BY <1>1 DEF Merged, Contents, CacheTypeOK
  <1> QED BY <1>2, <1>3 DEF Stored

LEMMA ClosedSave ==
    ASSUME CacheAssumption, CacheInv, NEW bars \in SUBSET CacheBars, \A b \in bars : b < forming,
           cache' = Merged(Reported(bars)), frozen \ bars \subseteq frozen'
    PROVE  /\ cache' \in Contents
           /\ \A b \in Stored(cache') : b <= forming
           /\ \A b \in Stored(cache') : cache'[b] = "partial" => b \in frozen'
  <1>1. /\ cache' \in Contents /\ Stored(cache') = Stored(cache) \cup bars
        /\ \A b \in CacheBars : cache'[b] = IF b \in bars THEN "final" ELSE cache[b]
    BY ClosedBarsMerged DEF CacheInv
  <1>2. /\ forming \in Nat /\ CacheBars \subseteq Nat /\ Stored(cache) \subseteq CacheBars
        /\ \A b \in Stored(cache) : b <= forming /\ (cache[b] = "partial" => b \in frozen)
    BY DEF CacheInv, CacheTypeOK, BarsExist, CurrentRepliesAreCurrent, CacheBars, CacheAssumption, Stored
  <1>3. ASSUME NEW b \in Stored(cache') PROVE b <= forming
    <2>1. CASE b \in bars
      BY <1>2, <2>1
    <2>2. CASE b \in Stored(cache)
      BY <1>2, <2>2
    <2> QED BY <1>1, <2>1, <2>2
  <1>4. ASSUME NEW b \in Stored(cache'), cache'[b] = "partial" PROVE b \in frozen'
    <2>1. b \in CacheBars /\ b \notin bars
      BY <1>1, <1>2, <1>4
    <2>2. b \in Stored(cache) /\ cache[b] = "partial"
      BY <1>1, <1>4, <2>1
    <2> QED BY <1>2, <2>1, <2>2
  <1> QED BY <1>1, <1>3, <1>4

LEMMA CacheStarts == CacheAssumption => (CacheInit => CacheInv)
  <1> SUFFICES ASSUME CacheAssumption, CacheInit PROVE CacheInv
    OBVIOUS
  <1> USE DEF CacheInit
  <1>1. NoContent \in Contents /\ Stored(NoContent) = {}
    BY DEF NoContent, Contents, Stored
  <1>2. 1 \in CacheBars /\ MaxForming \in Nat
    BY DEF CacheAssumption, CacheBars
  <1>3. CacheTypeOK
    BY <1>1, <1>2 DEF CacheTypeOK, NoReply, FreeSlot, NoSync
  <1>4. BarsExist /\ CurrentRepliesAreCurrent
    BY <1>1 DEF BarsExist, CurrentRepliesAreCurrent, NoReply, NoSync
  <1>5. ActiveJobs = {} /\ Running = {}
    BY DEF ActiveJobs, Running, FreeSlot
  <1>6. JobsSound
    BY <1>5, FS_EmptySet DEF JobsSound, CacheAssumption
  <1> QED BY <1>3, <1>4, <1>6 DEF CacheInv

\* What one job's step does to the registry: the range is no other active job's, and a
\* job starts to run only below the limit.
LEMMA JobPut ==
    ASSUME CacheAssumption, CacheInv, NEW j \in Jobs, NEW r \in Ranges \cup {{}},
           NEW state \in JobStates, Put(j, r, state),
           state \in {"QUEUED", "RUNNING", "SAVED"} => \A i \in ActiveJobs \ {j} : jobs[i].range # r,
           state \in {"RUNNING", "SAVED"} => j \in Running \/ Cardinality(Running) < MaxConcurrent
    PROVE  /\ jobs' \in [Jobs -> [range : Ranges \cup {{}}, state : JobStates]]
           /\ \A i, k \in ActiveJobs' : jobs'[i].range = jobs'[k].range => i = k
           /\ Cardinality(Running') <= MaxConcurrent
  <1>1. /\ jobs \in [Jobs -> [range : Ranges \cup {{}}, state : JobStates]]
        /\ \A i, k \in ActiveJobs : jobs[i].range = jobs[k].range => i = k
        /\ Cardinality(Running) <= MaxConcurrent /\ MaxConcurrent \in Nat
    BY DEF CacheInv, CacheTypeOK, JobsSound, JobStates, CacheAssumption
  <1>2. jobs' = [jobs EXCEPT ![j] = [range |-> r, state |-> state]]
    BY DEF Put
  <1>3. jobs' \in [Jobs -> [range : Ranges \cup {{}}, state : JobStates]]
    BY <1>1, <1>2
  <1>4. ActiveJobs' \ {j} = ActiveJobs \ {j} /\ Running' \ {j} = Running \ {j}
    BY <1>1, <1>2 DEF ActiveJobs, Running
  <1>5. /\ jobs'[j].range = r /\ jobs'[j].state = state /\ \A i \in Jobs \ {j} : jobs'[i] = jobs[i]
        /\ ActiveJobs \subseteq Jobs /\ ActiveJobs' \subseteq Jobs
    BY <1>1, <1>2 DEF ActiveJobs
  <1>6. j \in ActiveJobs' => state \in {"QUEUED", "RUNNING", "SAVED"}
    BY <1>5 DEF ActiveJobs
  <1>7. ASSUME NEW i \in ActiveJobs', NEW k \in ActiveJobs', jobs'[i].range = jobs'[k].range
        PROVE  i = k
    <2>1. CASE i = j \/ k = j
      BY <1>4, <1>5, <1>6, <1>7, <2>1
    <2>2. CASE i # j /\ k # j
      BY <1>1, <1>4, <1>5, <1>7, <2>2
    <2> QED BY <2>1, <2>2
  <1>8. IsFiniteSet(Running) /\ IsFiniteSet(Running') /\ Cardinality(Running) \in Nat
    <2>1. Running \in SUBSET Jobs /\ Running' \in SUBSET Jobs
      BY DEF Running
    <2> QED BY <2>1, FS_Subset, FS_CardinalityType DEF CacheAssumption
  <1>9. Cardinality(Running') <= MaxConcurrent
    <2>1. CASE j \in Running' /\ j \notin Running
      <3>1. Running' = Running \cup {j} /\ state \in {"RUNNING", "SAVED"}
        BY <1>4, <1>5, <2>1 DEF Running
      <3>2. Cardinality(Running') = Cardinality(Running) + 1
        BY <1>8, <2>1, <3>1, FS_AddElement
      <3> QED BY <1>1, <1>8, <2>1, <3>1, <3>2
    <2>2. CASE ~(j \in Running' /\ j \notin Running)
      <3>1. Running' \in SUBSET Running
        BY <1>4, <2>2
      <3>2. Cardinality(Running') <= Cardinality(Running) /\ Cardinality(Running') \in Nat
        BY <1>8, <3>1, FS_Subset, FS_CardinalityType
      <3> QED BY <1>1, <1>8, <3>2
    <2> QED BY <2>1, <2>2
  <1> QED BY <1>3, <1>7, <1>9

\* The API's answer is at its idle state again and says of the newest bar it shows what
\* the loaded bars say.
LEMMA ReplyShape ==
    ASSUME CacheAssumption, CacheInv, NEW status \in {"CURRENT", "CACHED"},
           NEW asked \in 0 .. MaxForming, NEW bars \in Contents, Reply(status, asked, bars)
    PROVE  /\ request' = [at |-> "idle", asked |-> 0]
           /\ reply' \in [status : {"CURRENT", "CACHED", "UNAVAILABLE"}, asked : 0 .. MaxForming,
                           newest : 0 .. MaxForming, late : BOOLEAN]
           /\ reply'.status = "CURRENT" =>
                 /\ status = "CURRENT" /\ Stored(bars) # {}
                 /\ reply'.asked = asked /\ reply'.newest = Max(Stored(bars))
                 /\ reply'.late = (forming > asked + Count)
  <1>1. request' = [at |-> "idle", asked |-> 0]
    BY DEF Reply
  <1>2. CASE Stored(bars) = {}
    BY <1>1, <1>2 DEF Reply, NoReply, CacheAssumption
  <1>3. CASE Stored(bars) # {}
    <2>1. Stored(bars) \in SUBSET CacheBars
      BY DEF Stored
    <2>2. Max(Stored(bars)) \in 0 .. MaxForming
      BY <1>3, <2>1, GreatestBar DEF CacheBars
    <2>3. reply' = [status |-> status, asked |-> asked, newest |-> Max(Stored(bars)),
                    late |-> forming > asked + Count]
      BY <1>3 DEF Reply
    <2> QED BY <1>1, <1>3, <2>2, <2>3
  <1> QED BY <1>2, <1>3

LEMMA CurrentAnswer ==
    ASSUME CacheAssumption, CacheInv, NEW asked \in 0 .. MaxForming, NEW c \in Contents,
           Reply("CURRENT", asked, LoadLatest(c, Count)),
           Stored(c) # {} /\ forming <= asked + Count => Max(Stored(c)) + 1 + Tolerance >= asked
    PROVE  /\ request' = [at |-> "idle", asked |-> 0]
           /\ reply' \in [status : {"CURRENT", "CACHED", "UNAVAILABLE"}, asked : 0 .. MaxForming,
                           newest : 0 .. MaxForming, late : BOOLEAN]
           /\ reply'.status = "CURRENT" /\ ~reply'.late =>
                 reply'.newest + 1 + Tolerance >= reply'.asked
  <1> DEFINE L == LoadLatest(c, Count)
  <1>1. L \in Contents /\ Count \in Nat /\ Count > 0
    BY DEF LoadLatest, Keep, Contents, CacheAssumption
  <1>2. Stored(L) # {} => Stored(c) # {} /\ Max(Stored(L)) = Max(Stored(c))
    BY <1>1, LatestLoaded
  <1>3. forming \in Nat /\ asked \in Nat
    BY DEF CacheInv, CacheTypeOK, CacheBars, CacheAssumption
  <1> HIDE DEF L
  <1>4. Reply("CURRENT", asked, L)
    BY DEF L
  <1> QED BY <1>1, <1>2, <1>3, <1>4, ReplyShape

\* The API's steps: an answer called CURRENT is loaded from a cache that was fresh, or
\* that had just got the last bar closed when the request began.
LEMMA RequestStep ==
    ASSUME CacheAssumption, CacheInv,
           \/ AnswerFromCache \/ BeginRefresh \/ FinishRefresh
           \/ AnswerUncached \/ AnswerWithoutBroker
    PROVE  CacheInv'
  <1> DEFINE Replies == [status : {"CURRENT", "CACHED", "UNAVAILABLE"}, asked : 0 .. MaxForming,
                         newest : 0 .. MaxForming, late : BOOLEAN]
             Requests == [at : {"idle", "fetching", "uncached"}, asked : 0 .. MaxForming]
             Timely == reply.status = "CURRENT" /\ ~reply.late =>
                           reply.newest + 1 + Tolerance >= reply.asked
             Answered == request' = [at |-> "idle", asked |-> 0] /\ reply' \in Replies /\ Timely'
  <1>1. /\ forming \in 1 .. MaxForming /\ MaxForming \in Nat /\ Count \in Nat /\ Count > 0
        /\ Tolerance \in Nat /\ cache \in Contents /\ Stored(cache) \subseteq CacheBars
        /\ request \in Requests /\ request.asked <= forming /\ reply \in Replies /\ Timely
    BY DEF CacheInv, CacheTypeOK, BarsExist, CurrentRepliesAreCurrent, CacheAssumption, CacheBars, Stored
  <1>2. /\ request.asked \in 0 .. MaxForming /\ request.asked \in Nat /\ forming \in 0 .. MaxForming
        /\ forming \in Nat
    BY <1>1
  <1>3. ASSUME AnswerFromCache PROVE Answered /\ UNCHANGED cache
    <2>1. Stored(cache) # {} /\ ~(forming > Max(Stored(cache)) + 1 + Tolerance)
      BY <1>3 DEF AnswerFromCache, ShouldFetch
    <2>2. Max(Stored(cache)) \in Nat
      BY <1>1, <2>1, GreatestBar DEF CacheBars
    <2>3. Max(Stored(cache)) + 1 + Tolerance >= forming
      BY <1>1, <1>2, <2>1, <2>2
    <2>4. Reply("CURRENT", forming, LoadLatest(cache, Count)) /\ UNCHANGED cache
      BY <1>3 DEF AnswerFromCache
    <2> QED BY <1>1, <1>2, <2>3, <2>4, CurrentAnswer
  <1>4. ASSUME FinishRefresh, request'.at # "uncached"
        PROVE  /\ Answered
               /\ \E bars \in SUBSET CacheBars :
                     (\A b \in bars : b < forming) /\ cache' = Merged(Reported(bars))
    <2> DEFINE B == {b \in LatestClosed(Count + 1) : b < request.asked}
    <2>1. B \in SUBSET CacheBars /\ \A b \in B : b < forming
      BY <1>1 DEF LatestClosed
    <2>2. /\ cache' = Merged(Reported(B))
          /\ Reply("CURRENT", request.asked, LoadLatest(cache', Count))
      BY <1>1, <1>4 DEF FinishRefresh
    <2>3. cache' \in Contents /\ Stored(cache') = Stored(cache) \cup B
      BY <2>1, <2>2, ClosedBarsMerged DEF CacheInv
    <2>4. ASSUME Stored(cache') # {}, forming <= request.asked + Count
          PROVE  Max(Stored(cache')) + 1 + Tolerance >= request.asked
      <3>1. Stored(cache') \in SUBSET CacheBars
        BY <1>1, <2>1, <2>3
      <3>2. Max(Stored(cache')) \in CacheBars /\ \A b \in Stored(cache') : b <= Max(Stored(cache'))
        BY <2>4, <3>1, GreatestBar
      <3>3. Max(Stored(cache')) \in Nat /\ Max(Stored(cache')) >= 1
        BY <1>1, <3>2 DEF CacheBars
      <3>4. CASE request.asked <= 1
        BY <1>1, <1>2, <3>3, <3>4
      <3>5. CASE request.asked > 1
        <4>1. request.asked - 1 \in B
          BY <1>1, <1>2, <2>4, <3>5 DEF LatestClosed, CacheBars
        <4>2. request.asked - 1 <= Max(Stored(cache'))
          BY <2>3, <3>2, <4>1
        <4> QED BY <1>1, <1>2, <3>3, <4>2
      <3> QED BY <1>2, <3>4, <3>5
    <2>5. Answered
      BY <1>2, <2>2, <2>3, <2>4, CurrentAnswer
    <2> QED BY <2>1, <2>2, <2>5
  <1>5. ASSUME AnswerUncached PROVE Answered /\ UNCHANGED cache
    <2> DEFINE B == LatestClosed(Count + 1)
               c == Reported(B)
    <2>1. B \in SUBSET CacheBars /\ (\A b \in B : b < forming) /\ c \in Contents /\ Stored(c) = B
      BY <1>1 DEF LatestClosed, Reported, Contents, Stored, CacheBars
    <2>2. ASSUME Stored(c) # {} PROVE Max(Stored(c)) + 1 + Tolerance >= request.asked
      <3>1. forming > 1
        BY <1>1, <2>1, <2>2 DEF CacheBars
      <3>2. forming - 1 \in B
        BY <1>1, <1>2, <3>1 DEF LatestClosed, CacheBars
      <3>3. forming - 1 <= Max(Stored(c)) /\ Max(Stored(c)) \in Nat
        BY <2>1, <2>2, <3>2, GreatestBar DEF CacheBars
      <3> QED BY <1>1, <1>2, <3>3
    <2>3. Reply("CURRENT", request.asked, LoadLatest(c, Count)) /\ UNCHANGED cache
      BY <1>5 DEF AnswerUncached
    <2> HIDE DEF c
    <2> QED BY <1>2, <2>1, <2>2, <2>3, CurrentAnswer
  <1>6. ASSUME AnswerWithoutBroker PROVE Answered /\ UNCHANGED cache
    <2>1. LoadLatest(cache, Count) \in Contents
      BY <1>1 DEF LoadLatest, Keep, Contents
    <2>2. Reply("CACHED", request.asked, LoadLatest(cache, Count)) /\ UNCHANGED cache
      BY <1>6 DEF AnswerWithoutBroker
    <2> QED BY <1>2, <2>1, <2>2, ReplyShape
  <1>7. ASSUME BeginRefresh
        PROVE  request' \in Requests /\ request'.asked <= forming /\ reply' \in Replies /\ Timely' /\ UNCHANGED cache
    BY <1>1, <1>2, <1>7 DEF BeginRefresh, NoReply
  <1>8. ASSUME FinishRefresh, request'.at = "uncached"
        PROVE  request' \in Requests /\ request'.asked <= forming /\ reply' \in Replies /\ Timely' /\ UNCHANGED cache
    <2>1. request' = [request EXCEPT !.at = "uncached"] /\ UNCHANGED <<cache, reply>>
      BY <1>8 DEF FinishRefresh, Reply
    <2> QED BY <1>1, <2>1
  <1>9. Answered => request' \in Requests /\ request'.asked <= forming /\ reply' \in Replies /\ Timely'
    BY <1>1
  <1>10. UNCHANGED <<forming, frozen, jobs, shortfall, sync>>
    BY DEF AnswerFromCache, BeginRefresh, FinishRefresh, AnswerUncached, AnswerWithoutBroker
  <1>11. request' \in Requests /\ request'.asked <= forming /\ reply' \in Replies /\ Timely'
    BY <1>3, <1>4, <1>5, <1>6, <1>7, <1>8, <1>9
  <1>12. \/ UNCHANGED cache
         \/ \E bars \in SUBSET CacheBars :
                (\A b \in bars : b < forming) /\ cache' = Merged(Reported(bars))
    BY <1>3, <1>4, <1>5, <1>6, <1>7, <1>8
  <1>13. /\ cache' \in Contents /\ \A b \in Stored(cache') : b <= forming
         /\ \A b \in Stored(cache') : cache'[b] = "partial" => b \in frozen
    <2>1. CASE UNCHANGED cache
      BY <2>1 DEF CacheInv, CacheTypeOK, BarsExist, CurrentRepliesAreCurrent
    <2>2. ASSUME NEW bars \in SUBSET CacheBars, \A b \in bars : b < forming,
                 cache' = Merged(Reported(bars))
          PROVE  /\ cache' \in Contents /\ \A b \in Stored(cache') : b <= forming
                 /\ \A b \in Stored(cache') : cache'[b] = "partial" => b \in frozen
      BY <1>10, <2>2, ClosedSave
    <2> QED BY <1>12, <2>1, <2>2
  <1>14. CacheTypeOK'
    BY <1>10, <1>11, <1>13 DEF CacheInv, CacheTypeOK
  <1>15. BarsExist' /\ CurrentRepliesAreCurrent' /\ JobsSound'
    BY <1>10, <1>11, <1>13 DEF CacheInv, BarsExist, CurrentRepliesAreCurrent, JobsSound, ActiveJobs, Running
  <1> QED BY <1>14, <1>15 DEF CacheInv

\* The jobs' steps.  Only a range call stores open bars, and marks them as frozen.
LEMMA JobStep ==
    ASSUME CacheAssumption, CacheInv,
           \/ \E r \in Ranges : SubmitJob(r)
           \/ \E j \in Jobs : RunJob(j) \/ SaveRange(j) \/ FetchRangeFails(j) \/ FinishJob(j) \/ EvictJob(j)
    PROVE  CacheInv'
  <1> DEFINE JobTable == [Jobs -> [range : Ranges \cup {{}}, state : JobStates]]
             Registry ==
                 /\ jobs' \in JobTable
                 /\ \A i, k \in ActiveJobs' : jobs'[i].range = jobs'[k].range => i = k
                 /\ Cardinality(Running') <= MaxConcurrent
             Saved == /\ cache' \in Contents /\ frozen' \subseteq CacheBars
                      /\ \A b \in Stored(cache') : b <= forming
                      /\ \A b \in Stored(cache') : cache'[b] = "partial" => b \in frozen'
  <1>1. /\ jobs \in JobTable /\ \A r \in Ranges : r # {} /\ r \subseteq CacheBars
        /\ \A i, k \in ActiveJobs : jobs[i].range = jobs[k].range => i = k
        /\ forming \in CacheBars /\ CacheBars \subseteq Nat /\ shortfall = {}
        /\ cache \in Contents /\ frozen \subseteq CacheBars
        /\ \A b \in Stored(cache) : b \in CacheBars /\ b <= forming /\ (cache[b] = "partial" => b \in frozen)
    BY DEF CacheInv, CacheTypeOK, BarsExist, CurrentRepliesAreCurrent, JobsSound, JobStates,
           CacheAssumption, CacheBars, Stored
  <1>2. UNCHANGED <<cache, frozen>> => Saved
    BY <1>1
  <1>3. \A r : Complete(r) /\ Found(r) => shortfall' = {}
    BY <1>1 DEF Complete, Found
  <1>4. ASSUME NEW r \in Ranges, SubmitJob(r) PROVE Registry /\ Saved /\ shortfall' = {}
    <2>1. PICK j \in Jobs :
              \/ Complete(r) /\ Put(j, {}, "COMPLETED") /\ Found(r)
              \/ ~Complete(r) /\ Put(j, r, "QUEUED") /\ UNCHANGED shortfall
      BY <1>4 DEF SubmitJob
    <2>2. \A i \in ActiveJobs : jobs[i].range # r
      BY <1>4 DEF SubmitJob
    <2>3. UNCHANGED <<cache, frozen>>
      BY <1>4 DEF SubmitJob
    <2>4. CASE Complete(r) /\ Put(j, {}, "COMPLETED") /\ Found(r)
      <3>1. Registry
        BY <2>4, JobPut DEF JobStates
      <3> QED BY <1>2, <1>3, <2>3, <2>4, <3>1
    <2>5. CASE Put(j, r, "QUEUED") /\ UNCHANGED shortfall
      <3>1. Registry
        BY <2>2, <2>5, JobPut DEF JobStates
      <3> QED BY <1>1, <1>2, <2>3, <2>5, <3>1
    <2> QED BY <2>1, <2>4, <2>5
  <1>5. ASSUME NEW j \in Jobs, j \in ActiveJobs
        PROVE  /\ jobs[j].range \in Ranges \cup {{}}
               /\ \A i \in ActiveJobs \ {j} : jobs[i].range # jobs[j].range
    BY <1>1, <1>5
  <1>6. ASSUME NEW j \in Jobs, RunJob(j) PROVE Registry /\ Saved /\ shortfall' = {}
    <2>1. j \in ActiveJobs /\ Cardinality(Running) < MaxConcurrent /\ Put(j, jobs[j].range, "RUNNING")
      BY <1>6 DEF RunJob, ActiveJobs
    <2>2. Registry
      BY <1>5, <2>1, JobPut DEF JobStates
    <2> QED BY <1>1, <1>2, <1>6, <2>2 DEF RunJob
  <1>7. ASSUME NEW j \in Jobs, SaveRange(j) PROVE Registry /\ Saved /\ shortfall' = {}
    <2> DEFINE fetched == Reported(jobs[j].range)
    <2>1. j \in ActiveJobs /\ j \in Running
      BY <1>7 DEF SaveRange, ActiveJobs, Running
    <2>2. UNCHANGED shortfall
      BY <1>7 DEF SaveRange
    <2>3. Registry
      <3>1. Put(j, jobs[j].range, "SAVED") \/ Put(j, {}, "FAILED")
        BY <1>7 DEF SaveRange
      <3>2. CASE Put(j, jobs[j].range, "SAVED")
        BY <1>5, <2>1, <3>2, JobPut DEF JobStates
      <3>3. CASE Put(j, {}, "FAILED")
        BY <3>3, JobPut DEF JobStates
      <3> QED BY <3>1, <3>2, <3>3
    <2>4. Saved
      <3>1. CASE UNCHANGED <<cache, frozen>>
        BY <1>2, <3>1
      <3>2. CASE /\ cache' = Merged(fetched)
                 /\ frozen' = frozen \cup {b \in Stored(fetched) : fetched[b] = "partial"}
        <4>1. /\ fetched \in Contents /\ \A b \in Stored(fetched) : b \in CacheBars /\ b <= forming
          BY <1>1 DEF Reported, Contents, Stored, CacheBars
        <4> HIDE DEF fetched
        <4>2. /\ cache' \in Contents
              /\ \A b \in CacheBars : cache'[b] = IF fetched[b] = "none" THEN cache[b] ELSE fetched[b]
          BY <1>1, <3>2, <4>1 DEF Merged, Contents
        <4>3. Stored(cache') = Stored(cache) \cup Stored(fetched)
          BY <4>2 DEF Stored
        <4>4. ASSUME NEW b \in Stored(cache'), cache'[b] = "partial" PROVE b \in frozen'
          BY <1>1, <3>2, <4>2, <4>4 DEF Stored
        <4> QED BY <1>1, <3>2, <4>1, <4>2, <4>3, <4>4
      <3> QED BY <1>7, <3>1, <3>2 DEF SaveRange
    <2> QED BY <1>1, <2>2, <2>3, <2>4
  <1>8. ASSUME NEW j \in Jobs, FetchRangeFails(j) PROVE Registry /\ Saved /\ shortfall' = {}
    <2>1. Registry
      BY <1>8, JobPut DEF FetchRangeFails, JobStates
    <2> QED BY <1>1, <1>2, <1>8, <2>1 DEF FetchRangeFails
  <1>9. ASSUME NEW j \in Jobs, FinishJob(j) PROVE Registry /\ Saved /\ shortfall' = {}
    <2>1. Registry
      <3>1. Put(j, {}, "COMPLETED") \/ Put(j, {}, "FAILED")
        BY <1>9 DEF FinishJob
      <3> QED BY <3>1, JobPut DEF JobStates
    <2>2. shortfall' = {}
      BY <1>1, <1>3, <1>9 DEF FinishJob
    <2> QED BY <1>2, <1>9, <2>1, <2>2 DEF FinishJob
  <1>10. ASSUME NEW j \in Jobs, EvictJob(j) PROVE Registry /\ Saved /\ shortfall' = {}
    <2>1. Put(j, {}, "FREE")
      BY <1>10 DEF EvictJob, FreeSlot, Put
    <2>2. Registry
      BY <2>1, JobPut DEF JobStates
    <2> QED BY <1>1, <1>2, <1>10, <2>2 DEF EvictJob
  <1>11. Registry /\ Saved /\ shortfall' = {}
    BY <1>4, <1>6, <1>7, <1>8, <1>9, <1>10
  <1>12. UNCHANGED <<forming, requestVars, sync>>
    BY DEF SubmitJob, RunJob, SaveRange, FetchRangeFails, FinishJob, EvictJob
  <1>13. CacheTypeOK'
    BY <1>11, <1>12 DEF CacheInv, CacheTypeOK, requestVars, JobStates
  <1> QED BY <1>11, <1>12, <1>13
      DEF CacheInv, BarsExist, CurrentRepliesAreCurrent, JobsSound, requestVars

SyncShape(s) ==
    /\ s \in [at : {"idle", "first", "recent", "topup", "gaps"}, wanted : Nat,
              gaps : SUBSET SUBSET CacheBars]
    /\ s.at = "gaps" => s.gaps # {}
    /\ \A g \in s.gaps : g # {} /\ \A b \in g : b < forming

\* find_gaps wants only bars that lie before a stored one.
LEMMA GapsArePast ==
    ASSUME CacheAssumption, forming \in CacheBars, NEW c \in Contents, \A b \in Stored(c) : b <= forming
    PROVE  SyncShape(FillFrom(c)) /\ SyncShape(TopUp(c))
  <1>1. Stored(c) \subseteq CacheBars /\ forming \in Nat /\ MaxForming \in Nat /\ Count \in Nat
    BY DEF Stored, CacheBars, CacheAssumption
  <1>2. ASSUME NEW g \in Gaps(c)
        PROVE  g # {} /\ g \in SUBSET CacheBars /\ \A b \in g : b < forming
    <2>1. PICK a \in Stored(c), z \in Stored(c) : g = a + 1 .. z - 1
      BY <1>2 DEF Gaps
    <2>2. a \in 1 .. MaxForming /\ z \in 1 .. MaxForming /\ z <= forming
      BY <1>1 DEF CacheBars
    <2>3. g # {}
      BY <1>2 DEF Gaps
    <2> QED BY <1>1, <2>1, <2>2, <2>3 DEF CacheBars
  <1>3. SyncShape(NoSync)
    BY DEF SyncShape, NoSync
  <1>4. SyncShape(FillFrom(c))
    <2>1. CASE Gaps(c) = {}
      BY <1>3, <2>1 DEF FillFrom
    <2>2. CASE Gaps(c) # {}
      <3>1. FillFrom(c) = [at |-> "gaps", wanted |-> 0, gaps |-> Gaps(c)]
        BY <2>2 DEF FillFrom
      <3>2. Gaps(c) \in SUBSET SUBSET CacheBars
        BY <1>2
      <3> QED BY <1>2, <2>2, <3>1, <3>2 DEF SyncShape
    <2> QED BY <2>1, <2>2
  <1>5. SyncShape([at |-> "topup", wanted |-> Count, gaps |-> {}])
    BY <1>1 DEF SyncShape
  <1> QED BY <1>4, <1>5 DEF TopUp

LEMMA FirstGap ==
    ASSUME CacheAssumption, NEW G \in SUBSET SUBSET CacheBars, G # {}, \A g \in G : g # {}
    PROVE  \E g \in G : \A h \in G : Min(g) <= Min(h)
  <1> DEFINE U == UNION G
  <1>1. U \in SUBSET CacheBars /\ U # {} /\ CacheBars \subseteq Nat
    BY DEF CacheBars, CacheAssumption
  <1>2. Min(U) \in U /\ \A b \in U : Min(U) <= b
    BY <1>1, LeastBar
  <1>3. PICK g \in G : Min(U) \in g
    BY <1>2
  <1>4. \A h \in G : Min(h) \in h /\ Min(h) \in U /\ Min(h) \in Nat /\ \A b \in h : Min(h) <= b
    BY <1>1, LeastBar
  <1>5. Min(g) <= Min(U) /\ Min(U) \in Nat
    BY <1>1, <1>2, <1>3, <1>4
  <1> HIDE DEF U
  <1> QED BY <1>2, <1>4, <1>5

\* The sync's and the tools' steps store closed bars, or empty the partition.
LEMMA SyncStep ==
    ASSUME CacheAssumption, CacheInv,
           \/ BeginSync \/ SyncRecent \/ FillGap \/ SyncFails
           \/ RefreshTool \/ FlushTool \/ ReacquireTool \/ BarCompletes
    PROVE  CacheInv'
  <1> DEFINE BarsClosed == {b \in CacheBars : b < forming}
             Saved == \E bars \in SUBSET BarsClosed :
                          cache' = Merged(Reported(bars)) /\ frozen' \in {frozen, frozen \ bars}
             Stays == UNCHANGED <<cache, frozen>>
             Kept == /\ cache' \in Contents /\ frozen' \subseteq CacheBars
                     /\ \A b \in Stored(cache') : b <= forming
                     /\ \A b \in Stored(cache') : cache'[b] = "partial" => b \in frozen'
  <1>1. /\ forming \in CacheBars /\ forming \in Nat /\ CacheBars \subseteq Nat /\ MaxForming \in Nat
        /\ Count \in Nat /\ cache \in Contents /\ frozen \subseteq CacheBars
        /\ \A b \in Stored(cache) : b <= forming /\ (cache[b] = "partial" => b \in frozen)
        /\ Stored(cache) \in SUBSET CacheBars /\ request.asked \in Nat /\ request.asked <= forming
    BY DEF CacheInv, CacheTypeOK, BarsExist, CurrentRepliesAreCurrent, CacheAssumption, CacheBars, Stored
  <1>2. SyncShape(sync) /\ SyncShape(NoSync)
    BY DEF CacheInv, CacheTypeOK, BarsExist, SyncShape, NoSync
  <1>3. \A n \in Nat : LatestClosed(n) \in SUBSET BarsClosed
    BY DEF LatestClosed
  <1>4. Saved => Kept
    <2>1. ASSUME NEW bars \in SUBSET BarsClosed, cache' = Merged(Reported(bars)),
                 frozen' \in {frozen, frozen \ bars}
          PROVE  Kept
      <3>1. frozen \ bars \subseteq frozen' /\ frozen' \subseteq CacheBars /\ \A b \in bars : b < forming
        BY <1>1, <2>1
      <3> QED BY <2>1, <3>1, ClosedSave
    <2> QED BY <2>1
  <1>5. Stays => Kept
    BY <1>1
  <1>6. ASSUME NEW bars \in SUBSET BarsClosed, SaveSynced(bars)
        PROVE  Saved
    BY <1>6 DEF SaveSynced
  <1>7. Kept => SyncShape(TopUp(cache')) /\ SyncShape(FillFrom(cache'))
    BY <1>1, GapsArePast
  <1>8. ASSUME BeginSync PROVE Kept /\ SyncShape(sync') /\ UNCHANGED forming
    <2>1. Stays /\ UNCHANGED forming
      BY <1>8 DEF BeginSync
    <2>2. CASE Stored(cache) = {}
      <3>1. sync' = [at |-> "first", wanted |-> Count, gaps |-> {}]
        BY <1>8, <2>2 DEF BeginSync
      <3> QED BY <1>1, <1>5, <2>1, <3>1 DEF SyncShape
    <2>3. CASE Stored(cache) # {}
      <3> DEFINE behind == forming - Max(Stored(cache))
      <3>1. \/ sync' = [at |-> "recent", wanted |-> behind + 1, gaps |-> {}]
            \/ sync' = TopUp(cache)
        BY <1>8, <2>3 DEF BeginSync
      <3>2. Max(Stored(cache)) \in Stored(cache)
        BY <1>1, <2>3, GreatestBar
      <3>3. Max(Stored(cache)) \in Nat /\ Max(Stored(cache)) <= forming
        BY <1>1, <3>2
      <3>4. behind + 1 \in Nat
        BY <1>1, <3>3
      <3>5. SyncShape([at |-> "recent", wanted |-> behind + 1, gaps |-> {}])
        BY <3>4 DEF SyncShape
      <3>6. SyncShape(TopUp(cache))
        BY <1>1, GapsArePast
      <3> QED BY <1>5, <2>1, <3>1, <3>5, <3>6
    <2> QED BY <2>2, <2>3
  <1>9. ASSUME SyncRecent PROVE Kept /\ SyncShape(sync') /\ UNCHANGED forming
    <2>1. sync.wanted \in Nat /\ SaveSynced(LatestClosed(sync.wanted)) /\ UNCHANGED forming
      BY <1>2, <1>9 DEF SyncRecent, SaveSynced, SyncShape
    <2>2. Kept
      BY <1>3, <1>4, <1>6, <2>1
    <2>3. sync' = TopUp(cache') \/ sync' = FillFrom(cache')
      BY <1>9 DEF SyncRecent
    <2> QED BY <1>7, <2>1, <2>2, <2>3
  <1>10. ASSUME FillGap PROVE Kept /\ SyncShape(sync') /\ UNCHANGED forming
    <2> DEFINE gap == CHOOSE g \in sync.gaps : \A h \in sync.gaps : Min(g) <= Min(h)
    <2>1. /\ sync.gaps \in SUBSET SUBSET CacheBars /\ sync.gaps # {} /\ \A g \in sync.gaps : g # {}
          /\ \A g \in sync.gaps : \A b \in g : b < forming
      BY <1>2, <1>10 DEF FillGap, SyncShape
    <2>2. gap \in sync.gaps
      BY <2>1, FirstGap
    <2>3. /\ SaveSynced(gap) \/ SaveSynced({})
          /\ sync' = IF sync.gaps \ {gap} = {} THEN NoSync ELSE [sync EXCEPT !.gaps = sync.gaps \ {gap}]
      BY <1>10 DEF FillGap
    <2> HIDE DEF gap
    <2>4. Kept /\ UNCHANGED forming
      <3>1. gap \in SUBSET BarsClosed /\ {} \in SUBSET BarsClosed
        BY <2>1, <2>2
      <3> QED BY <1>4, <1>6, <2>3, <3>1 DEF SaveSynced
    <2>5. SyncShape(sync')
      <3>1. CASE sync.gaps \ {gap} = {}
        BY <1>2, <2>3, <3>1
      <3>2. CASE sync.gaps \ {gap} # {}
        <4>1. sync' = [sync EXCEPT !.gaps = sync.gaps \ {gap}]
          BY <2>3, <3>2
        <4> QED BY <1>2, <2>1, <3>2, <4>1 DEF SyncShape
      <3> QED BY <3>1, <3>2
    <2> QED BY <2>4, <2>5
  <1>11. ASSUME SyncFails PROVE Kept /\ SyncShape(sync') /\ UNCHANGED forming
    BY <1>2, <1>5, <1>11 DEF SyncFails
  <1>12. ASSUME RefreshTool PROVE Kept /\ UNCHANGED <<sync, forming>>
    <2>1. Saved
      BY <1>1, <1>3, <1>12 DEF RefreshTool
    <2> QED BY <1>4, <1>12, <2>1 DEF RefreshTool
  <1>13. ASSUME FlushTool PROVE Kept /\ UNCHANGED <<sync, forming>>
    <2>1. cache' \in Contents /\ Stored(cache') = {} /\ frozen' = {}
      BY <1>13 DEF FlushTool, NoContent, Contents, Stored
    <2> QED BY <1>13, <2>1 DEF FlushTool
  <1>14. ASSUME ReacquireTool PROVE Kept /\ UNCHANGED <<sync, forming>>
    <2>1. Saved
      BY <1>1, <1>3, <1>14 DEF ReacquireTool
    <2> QED BY <1>4, <1>14, <2>1 DEF ReacquireTool
  <1>15. ASSUME BarCompletes PROVE Stays /\ UNCHANGED sync /\ forming' = forming + 1 /\ forming' \in CacheBars
    BY <1>1, <1>15 DEF BarCompletes, CacheBars
  <1>16. UNCHANGED <<jobs, shortfall, requestVars>>
    BY DEF BeginSync, SyncRecent, FillGap, SyncFails, SaveSynced, RefreshTool, FlushTool,
           ReacquireTool, BarCompletes
  <1>17. forming' \in CacheBars /\ forming' \in Nat /\ forming <= forming'
    BY <1>1, <1>8, <1>9, <1>10, <1>11, <1>12, <1>13, <1>14, <1>15
  <1>18. /\ cache' \in Contents /\ frozen' \subseteq CacheBars
         /\ \A b \in Stored(cache') : b <= forming'
         /\ \A b \in Stored(cache') : cache'[b] = "partial" => b \in frozen'
    <2>1. Kept
      BY <1>5, <1>8, <1>9, <1>10, <1>11, <1>12, <1>13, <1>14, <1>15
    <2>2. ASSUME NEW b \in Stored(cache') PROVE b <= forming'
      <3>1. b \in Nat /\ b <= forming
        BY <1>1, <2>1 DEF Stored
      <3> QED BY <1>1, <1>17, <3>1
    <2> QED BY <2>1, <2>2
  <1>19. /\ sync' \in [at : {"idle", "first", "recent", "topup", "gaps"}, wanted : Nat,
                        gaps : SUBSET SUBSET CacheBars]
         /\ sync'.at = "gaps" => sync'.gaps # {}
         /\ \A g \in sync'.gaps : g # {} /\ \A b \in g : b < forming'
    <2>1. SyncShape(sync')
      BY <1>2, <1>8, <1>9, <1>10, <1>11, <1>12, <1>13, <1>14, <1>15
    <2>2. \A g \in sync'.gaps : g \subseteq CacheBars
      BY <2>1 DEF SyncShape
    <2>3. ASSUME NEW g \in sync'.gaps, NEW b \in g PROVE b < forming'
      <3>1. b \in Nat /\ b < forming
        BY <1>1, <2>1, <2>2 DEF SyncShape
      <3> QED BY <1>1, <1>17, <3>1
    <2> QED BY <2>1, <2>3 DEF SyncShape
  <1>20. request'.asked <= forming'
    BY <1>1, <1>16, <1>17 DEF requestVars
  <1>21. CacheTypeOK'
    BY <1>16, <1>17, <1>18, <1>19 DEF CacheInv, CacheTypeOK, requestVars
  <1>22. BarsExist' /\ CurrentRepliesAreCurrent' /\ JobsSound'
    BY <1>16, <1>18, <1>19, <1>20 DEF CacheInv, BarsExist, CurrentRepliesAreCurrent, JobsSound,
        ActiveJobs, Running, requestVars
  <1> QED BY <1>21, <1>22 DEF CacheInv

LEMMA CacheStep ==
    ASSUME CacheAssumption, CacheInv, [CacheNext]_cacheVars
    PROVE  CacheInv'
  <1>1. CASE UNCHANGED cacheVars
    BY <1>1 DEF cacheVars, CacheInv, CacheTypeOK, BarsExist, CurrentRepliesAreCurrent, JobsSound,
        ActiveJobs, Running
  <1>2. CASE AnswerFromCache \/ BeginRefresh \/ FinishRefresh \/ AnswerUncached \/ AnswerWithoutBroker
    BY <1>2, RequestStep
  <1>3. CASE \/ \E r \in Ranges : SubmitJob(r)
             \/ \E j \in Jobs : RunJob(j) \/ SaveRange(j) \/ FetchRangeFails(j) \/ FinishJob(j) \/ EvictJob(j)
    BY <1>3, JobStep
  <1>4. CASE \/ BeginSync \/ SyncRecent \/ FillGap \/ SyncFails
             \/ RefreshTool \/ FlushTool \/ ReacquireTool \/ BarCompletes
    BY <1>4, SyncStep
  <1> QED BY <1>1, <1>2, <1>3, <1>4 DEF CacheNext

\* For any number of bars, jobs and ranges: what the API calls CURRENT reaches the bars that
\* were closed when it was asked, a bar that is not final was frozen by an acquisition, and
\* a job reported COMPLETED found its range in the store (api/service.py, data/historical.py,
\* research/acquisitions.py).
THEOREM CandlesSafe ==
    ASSUME CacheAssumption
    PROVE  CacheSpec => [](CacheTypeOK /\ CurrentRepliesAreCurrent /\ JobsSound)
  <1>1. CacheInit => CacheInv
    BY CacheStarts
  <1>2. CacheInv /\ [CacheNext]_cacheVars => CacheInv'
    BY CacheStep
  <1>3. CacheInv => CacheTypeOK /\ CurrentRepliesAreCurrent /\ JobsSound
    BY DEF CacheInv
  <1> QED BY <1>1, <1>2, <1>3, PTL DEF CacheSpec

(***************************************************************************)
(* Shadow outcomes.  The first recorded minute that meets a barrier within *)
(* the horizon of a plan decides it, and no later minute changes that.     *)
(***************************************************************************)
ShadowSpec == ShadowInit /\ [][ShadowNext]_shadowVars

ShadowPlans == [close : 1 .. MaxMinutes, valid : BOOLEAN]
OutcomeStates == Decided \cup {"AMBIGUOUS", "UNRESOLVED", "TIMEOUT"}

ShadowShape ==
    /\ minutes \in Seq(MinuteKinds) /\ Len(minutes) <= MaxMinutes
    /\ \A i \in DOMAIN minutes : minutes[i].hit = "unknown" => (i - 1) % BarLength = 0
    /\ plans \subseteq ShadowPlans

\* The bar of a minute, counted from nought, and the minutes that meet a barrier.
BarOf(i) == (i - 1) \div BarLength
MetMinutes(plan) ==
    {i \in DOMAIN minutes :
        /\ BarOf(i) >= plan.close /\ BarOf(i) < plan.close + HorizonBars
        /\ minutes[i].hit # "none"}
FirstMet(plan) == Earliest(MetMinutes(plan))

\* The bars up to last decide the plan.
Decides(plan, last) ==
    /\ MetMinutes(plan) # {}
    /\ BarOf(FirstMet(plan)) + 1 <= last
    /\ minutes[FirstMet(plan)].hit # "unknown"

LEMMA BarsGrow ==
    ASSUME ShadowAssumption, NEW m \in Nat, NEW n \in Nat
    PROVE  /\ m \div BarLength \in Nat /\ m \div BarLength <= m
           /\ m <= n => m \div BarLength <= n \div BarLength
           /\ m \div BarLength = n \div BarLength /\ m % BarLength = 0 => m <= n
  <1>1. BarLength \in Nat \ {0}
    BY DEF ShadowAssumption
  <1> QED BY <1>1, Z3

LEMMA MinuteFacts ==
    ASSUME ShadowAssumption, ShadowShape, NEW i \in DOMAIN minutes
    PROVE  /\ i \in Nat /\ i - 1 \in Nat /\ i <= Len(minutes) /\ BarOf(i) \in Nat
           /\ minutes[i] \in MinuteKinds
           /\ minutes[i].hit \in {"none", "stop", "target", "unknown", "both"}
           /\ minutes[i].hit = "both" => minutes[i].first \in {"stop", "target"}
  <1>1. i \in Nat /\ i - 1 \in Nat /\ i <= Len(minutes) /\ minutes[i] \in MinuteKinds
    BY DEF ShadowShape
  <1>2. BarOf(i) \in Nat
    BY <1>1, BarsGrow DEF BarOf
  <1> QED BY <1>1, <1>2 DEF MinuteKinds

LEMMA EarliestMinute ==
    ASSUME ShadowAssumption, ShadowShape, NEW ms \in SUBSET DOMAIN minutes, ms # {}
    PROVE  Earliest(ms) \in ms /\ \A j \in ms : Earliest(ms) <= j
  <1>1. ms \in SUBSET Nat
    BY MinuteFacts
  <1>2. PICK i \in ms : \A j \in ms : i <= j
    BY <1>1, NatHasLeast
  <1> QED BY <1>2 DEF Earliest

\* What is examined: all minutes of the horizon up to the last bar, in pieces that lie one
\* after the other and each within one bar.
InReach(plan, last) ==
    {i \in DOMAIN minutes :
        /\ BarOf(i) >= plan.close /\ BarOf(i) < plan.close + HorizonBars /\ BarOf(i) + 1 <= last}

LEMMA UnitsInOrder ==
    ASSUME ShadowAssumption, ShadowShape, NEW plan \in ShadowPlans, NEW last \in Nat, NEW fine \in BOOLEAN
    PROVE  /\ \A u \in Examined(plan, last, fine) : u \subseteq InReach(plan, last)
           /\ \A i \in InReach(plan, last) : \E u \in Examined(plan, last, fine) : i \in u
           /\ \A v, w \in Examined(plan, last, fine) :
                 v = w \/ (\A x \in v, y \in w : x < y) \/ (\A x \in v, y \in w : y < x)
           /\ \A v \in Examined(plan, last, fine) : \A x, y \in v : (x - 1) % BarLength = 0 => x <= y
  <1> DEFINE horizon == {b \in plan.close + 1 .. plan.close + HorizonBars : b <= last}
             U == Examined(plan, last, fine)
  <1>1. plan.close \in Nat /\ HorizonBars \in Nat
    BY DEF ShadowPlans, ShadowAssumption
  <1>2. ASSUME NEW b \in horizon, NEW i \in MinutesOf(b)
        PROVE  i \in InReach(plan, last)
    <2>1. i \in DOMAIN minutes /\ BarOf(i) = b - 1 /\ BarOf(i) \in Nat
      BY MinuteFacts DEF MinutesOf, BarOf
    <2> QED BY <1>1, <2>1 DEF InReach
  <1>3. ASSUME NEW i \in InReach(plan, last)
        PROVE  BarOf(i) + 1 \in horizon /\ i \in MinutesOf(BarOf(i) + 1)
    <2>1. i \in DOMAIN minutes /\ BarOf(i) \in Nat
      BY MinuteFacts DEF InReach
    <2> QED BY <1>1, <2>1 DEF InReach, MinutesOf, BarOf
  <1>4. \A i, j \in DOMAIN minutes : BarOf(i) < BarOf(j) => i < j
    <2>1. ASSUME NEW i \in DOMAIN minutes, NEW j \in DOMAIN minutes, ~(i < j)
          PROVE  ~(BarOf(i) < BarOf(j))
      <3>1. i \in Nat /\ i - 1 \in Nat /\ j \in Nat /\ j - 1 \in Nat /\ BarOf(i) \in Nat /\ BarOf(j) \in Nat
        BY MinuteFacts
      <3>2. j - 1 <= i - 1
        BY <2>1, <3>1
      <3>3. BarOf(j) <= BarOf(i)
        BY <3>1, <3>2, BarsGrow DEF BarOf
      <3> QED BY <3>1, <3>3
    <2> QED BY <2>1
  <1>5. \A i, j \in DOMAIN minutes : BarOf(i) = BarOf(j) /\ (i - 1) % BarLength = 0 => i <= j
    <2>1. ASSUME NEW i \in DOMAIN minutes, NEW j \in DOMAIN minutes,
                 BarOf(i) = BarOf(j), (i - 1) % BarLength = 0
          PROVE  i <= j
      <3>1. i \in Nat /\ i - 1 \in Nat /\ j \in Nat /\ j - 1 \in Nat
        BY MinuteFacts
      <3>2. i - 1 <= j - 1
        BY <2>1, <3>1, BarsGrow DEF BarOf
      <3> QED BY <3>1, <3>2
    <2> QED BY <2>1
  <1>6. CASE fine
    <2>1. U = {{i} : i \in UNION {MinutesOf(b) : b \in horizon}}
      BY <1>6 DEF Examined
    <2>2. UNION {MinutesOf(b) : b \in horizon} = InReach(plan, last)
      BY <1>2, <1>3
    <2>3. InReach(plan, last) \subseteq Nat
      BY MinuteFacts DEF InReach
    <2> HIDE DEF U
    <2>4. U = {{i} : i \in InReach(plan, last)}
      BY <2>1, <2>2
    <2>5. \A u \in U : \E i \in InReach(plan, last) : u = {i}
      BY <2>4
    <2>6. /\ \A u \in U : u \subseteq InReach(plan, last)
          /\ \A i \in InReach(plan, last) : \E u \in U : i \in u
      BY <2>4
    <2>7. ASSUME NEW v \in U, NEW w \in U
          PROVE  v = w \/ (\A x \in v, y \in w : x < y) \/ (\A x \in v, y \in w : y < x)
      <3>1. PICK i \in InReach(plan, last) : v = {i}
        BY <2>5
      <3>2. PICK j \in InReach(plan, last) : w = {j}
        BY <2>5
      <3>3. i \in Nat /\ j \in Nat
        BY <2>3
      <3>4. i < j \/ j < i \/ i = j
        BY <3>3
      <3> QED BY <3>1, <3>2, <3>4
    <2>8. ASSUME NEW v \in U, NEW x \in v, NEW y \in v
          PROVE  x <= y
      <3>1. PICK i \in InReach(plan, last) : v = {i}
        BY <2>5
      <3> QED BY <2>3, <3>1
    <2> QED BY <2>6, <2>7, <2>8 DEF U
  <1>7. CASE ~fine
    <2>1. U = {MinutesOf(b) : b \in horizon}
      BY <1>7 DEF Examined
    <2>2. \A u \in U : u \subseteq InReach(plan, last)
      BY <1>2, <2>1
    <2>3. \A i \in InReach(plan, last) : \E u \in U : i \in u
      BY <1>3, <2>1
    <2>4. ASSUME NEW v \in U, NEW w \in U
          PROVE  v = w \/ (\A x \in v, y \in w : x < y) \/ (\A x \in v, y \in w : y < x)
      <3>1. PICK b \in horizon : v = MinutesOf(b)
        BY <2>1
      <3>2. PICK c \in horizon : w = MinutesOf(c)
        BY <2>1
      <3>3. b \in Nat /\ c \in Nat
        BY <1>1
      <3>4. /\ \A x \in v : x \in DOMAIN minutes /\ BarOf(x) = b - 1
            /\ \A y \in w : y \in DOMAIN minutes /\ BarOf(y) = c - 1
        BY <3>1, <3>2 DEF MinutesOf, BarOf
      <3>5. CASE b < c
        BY <1>4, <3>3, <3>4, <3>5
      <3>6. CASE c < b
        BY <1>4, <3>3, <3>4, <3>6
      <3>7. CASE b = c
        BY <3>1, <3>2, <3>7
      <3> QED BY <3>3, <3>5, <3>6, <3>7
    <2>5. ASSUME NEW v \in U, NEW x \in v, NEW y \in v, (x - 1) % BarLength = 0
          PROVE  x <= y
      <3>1. PICK b \in horizon : v = MinutesOf(b)
        BY <2>1
      <3>2. /\ x \in DOMAIN minutes /\ BarOf(x) = b - 1
            /\ y \in DOMAIN minutes /\ BarOf(y) = b - 1
        BY <3>1 DEF MinutesOf, BarOf
      <3> QED BY <1>5, <2>5, <3>2
    <2> QED BY <2>2, <2>3, <2>4, <2>5
  <1> QED BY <1>6, <1>7

(* What a unit of minutes shows: something else than none exactly if one of them does. *)
LEMMA HitFacts ==
    ASSUME ShadowAssumption, ShadowShape, NEW ms \in SUBSET DOMAIN minutes
    PROVE  /\ HitOf(ms) \in {"none", "stop", "target", "unknown", "both"}
           /\ HitOf(ms) # "none" <=> \E i \in ms : minutes[i].hit # "none"
           /\ HitOf(ms) = "unknown" <=> \E i \in ms : minutes[i].hit = "unknown"
           /\ HitOf(ms) \in {"stop", "target"} =>
                 \A i \in ms : minutes[i].hit \in {"none", HitOf(ms)}
  <1>1. \A i \in ms : minutes[i].hit \in {"none", "stop", "target", "unknown", "both"}
    BY MinuteFacts
  <1> DEFINE hits == {minutes[i].hit : i \in ms}
  <1>2. /\ hits \subseteq {"none", "stop", "target", "unknown", "both"}
        /\ \A i \in ms : minutes[i].hit \in hits
        /\ \A h \in hits : \E i \in ms : minutes[i].hit = h
    BY <1>1
  <1>3. HitOf(ms) = IF "unknown" \in hits THEN "unknown"
                    ELSE IF "both" \in hits \/ {"stop", "target"} \subseteq hits THEN "both"
                    ELSE IF "stop" \in hits THEN "stop"
                    ELSE IF "target" \in hits THEN "target" ELSE "none"
    BY DEF HitOf
  <1> HIDE DEF hits
  <1>4. HitOf(ms) \in {"none", "stop", "target", "unknown", "both"}
    BY <1>3
  <1>5. HitOf(ms) # "none" <=> \E h \in hits : h # "none"
    BY <1>2, <1>3
  <1>6. HitOf(ms) = "unknown" <=> "unknown" \in hits
    BY <1>3
  <1>7. HitOf(ms) = "stop" => hits \subseteq {"none", "stop"}
    BY <1>2, <1>3
  <1>8. HitOf(ms) = "target" => hits \subseteq {"none", "target"}
    BY <1>2, <1>3
  <1>9. HitOf(ms) # "none" <=> \E i \in ms : minutes[i].hit # "none"
    BY <1>2, <1>5
  <1>10. HitOf(ms) = "unknown" <=> \E i \in ms : minutes[i].hit = "unknown"
    BY <1>2, <1>6
  <1>11. ASSUME HitOf(ms) \in {"stop", "target"}, NEW i \in ms
         PROVE  minutes[i].hit \in {"none", HitOf(ms)}
    BY <1>2, <1>7, <1>8, <1>11
  <1> QED BY <1>4, <1>9, <1>10, <1>11

\* Ticks tell of a stretch of minutes what its first minute that meets a barrier met.
LEMMA FirstTickIsFirst ==
    ASSUME ShadowAssumption, ShadowShape, NEW plan \in ShadowPlans, MetMinutes(plan) # {},
           NEW ms \in SUBSET DOMAIN minutes, FirstMet(plan) \in ms,
           \A i \in ms : minutes[i].hit # "none" => i \in MetMinutes(plan)
    PROVE  FirstTick(ms) = IF minutes[FirstMet(plan)].hit = "both"
                           THEN minutes[FirstMet(plan)].first ELSE minutes[FirstMet(plan)].hit
  <1> DEFINE met == {j \in ms : minutes[j].hit # "none"}
  <1>1. FirstMet(plan) \in MetMinutes(plan) /\ \A j \in MetMinutes(plan) : FirstMet(plan) <= j
    BY EarliestMinute DEF MetMinutes, FirstMet
  <1>2. FirstMet(plan) \in met /\ met \subseteq MetMinutes(plan) /\ met \in SUBSET DOMAIN minutes
    BY <1>1 DEF MetMinutes
  <1>3. Earliest(met) \in met /\ \A j \in met : Earliest(met) <= j
    BY <1>2, EarliestMinute
  <1>4. Earliest(met) \in Nat /\ FirstMet(plan) \in Nat
    BY <1>2, <1>3, MinuteFacts
  <1>5. Earliest(met) = FirstMet(plan)
    BY <1>1, <1>2, <1>3, <1>4
  <1> QED BY <1>5 DEF FirstTick

LEMMA FirstMetFacts ==
    ASSUME ShadowAssumption, ShadowShape, NEW plan \in ShadowPlans, MetMinutes(plan) # {}
    PROVE  /\ FirstMet(plan) \in MetMinutes(plan)
           /\ \A j \in MetMinutes(plan) : FirstMet(plan) <= j /\ BarOf(FirstMet(plan)) <= BarOf(j)
           /\ MetFirst(plan) = IF minutes[FirstMet(plan)].hit = "both"
                               THEN minutes[FirstMet(plan)].first ELSE minutes[FirstMet(plan)].hit
  <1> DEFINE f == FirstMet(plan)
  <1>1. f \in MetMinutes(plan) /\ \A j \in MetMinutes(plan) : f <= j
    BY EarliestMinute DEF MetMinutes, FirstMet
  <1>2. ASSUME NEW j \in MetMinutes(plan)
        PROVE  BarOf(f) <= BarOf(j)
    <2>1. f \in DOMAIN minutes /\ j \in DOMAIN minutes
      BY <1>1 DEF MetMinutes
    <2>2. f - 1 \in Nat /\ j - 1 \in Nat /\ f - 1 <= j - 1
      BY <1>1, <2>1, MinuteFacts
    <2> QED BY <2>2, BarsGrow DEF BarOf
  <1>3. MetFirst(plan) = FirstTick(MetMinutes(plan))
    BY DEF MetFirst, MetMinutes, BarOf
  <1>4. MetMinutes(plan) \in SUBSET DOMAIN minutes
    BY DEF MetMinutes
  <1> QED BY <1>1, <1>2, <1>3, <1>4, FirstTickIsFirst

\* The unit that decides is the one with the plan's first met minute in it.
MetUnits(plan, last, fine) == {u \in Examined(plan, last, fine) : HitOf(u) # "none"}
FirstUnit(met) == CHOOSE u \in met : \A w \in met : Earliest(u) <= Earliest(w)

LEMMA ChosenUnit ==
    ASSUME ShadowAssumption, ShadowShape, NEW plan \in ShadowPlans, NEW last \in Nat, NEW fine \in BOOLEAN,
           MetUnits(plan, last, fine) # {}
    PROVE  LET u == FirstUnit(MetUnits(plan, last, fine))
           IN  /\ u \in MetUnits(plan, last, fine) /\ u \in SUBSET InReach(plan, last)
               /\ MetMinutes(plan) # {} /\ FirstMet(plan) \in u
  <1> DEFINE f == FirstMet(plan)
             U == Examined(plan, last, fine)
             met == MetUnits(plan, last, fine)
             u == FirstUnit(met)
  <1>1. \A v \in U : v \in SUBSET InReach(plan, last) /\ v \in SUBSET DOMAIN minutes
    BY UnitsInOrder DEF InReach
  <1>2. ASSUME NEW v \in met
        PROVE  /\ v \in U /\ \E i \in v : i \in MetMinutes(plan) /\ BarOf(i) + 1 <= last
               /\ Earliest(v) \in v /\ \A i \in v : Earliest(v) <= i
    <2>1. v \in U /\ v \in SUBSET DOMAIN minutes /\ HitOf(v) # "none"
      BY <1>1, <1>2 DEF MetUnits
    <2>2. PICK i \in v : minutes[i].hit # "none"
      BY <2>1, HitFacts
    <2>3. i \in MetMinutes(plan) /\ BarOf(i) + 1 <= last
      BY <1>1, <2>1, <2>2 DEF InReach, MetMinutes
    <2> QED BY <2>1, <2>3, EarliestMinute
  <1>3. PICK w \in met : TRUE
    OBVIOUS
  <1>4. MetMinutes(plan) # {}
    BY <1>2, <1>3
  <1>5. f \in MetMinutes(plan) /\ \A j \in MetMinutes(plan) : f <= j /\ BarOf(f) <= BarOf(j)
    BY <1>4, FirstMetFacts
  <1>6. f \in DOMAIN minutes /\ f \in Nat /\ BarOf(f) \in Nat
    BY <1>5, MinuteFacts DEF MetMinutes
  <1>7. f \in InReach(plan, last)
    <2>1. PICK i \in w : i \in MetMinutes(plan) /\ BarOf(i) + 1 <= last
      BY <1>2
    <2>2. BarOf(i) \in Nat
      BY <2>1, MinuteFacts DEF MetMinutes
    <2>3. BarOf(f) + 1 <= last
      BY <1>5, <1>6, <2>1, <2>2
    <2> QED BY <1>5, <2>3 DEF InReach, MetMinutes
  <1>8. PICK v \in U : f \in v
    BY <1>7, UnitsInOrder
  <1>9. v \in met
    BY <1>1, <1>5, <1>8, HitFacts DEF MetMinutes, MetUnits
  <1>10. ASSUME NEW x \in met, x # v
         PROVE  ~(Earliest(x) <= Earliest(v)) /\ Earliest(v) <= Earliest(x)
    <2>1. PICK i \in x : i \in MetMinutes(plan)
      BY <1>2
    <2>2. f <= i /\ i \in Nat
      BY <1>5, <2>1, MinuteFacts DEF MetMinutes
    <2>3. (\A a \in x, b \in v : a < b) \/ (\A a \in x, b \in v : b < a)
      BY <1>2, <1>8, <1>10, UnitsInOrder
    <2>4. \A a \in x, b \in v : b < a
      BY <1>6, <1>8, <2>2, <2>3
    <2>5. Earliest(v) < Earliest(x)
      BY <1>2, <1>9, <2>4
    <2>6. Earliest(v) \in Nat /\ Earliest(x) \in Nat
      BY <1>1, <1>2, <1>9, MinuteFacts
    <2> QED BY <2>5, <2>6
  <1>11. Earliest(v) <= Earliest(v)
    <2>1. Earliest(v) \in Nat
      BY <1>1, <1>2, <1>9, MinuteFacts
    <2> QED BY <2>1
  <1>12. \A x \in met : Earliest(v) <= Earliest(x)
    BY <1>10, <1>11
  <1> HIDE DEF met
  <1>13. u \in met /\ \A x \in met : Earliest(u) <= Earliest(x)
    BY <1>9, <1>12 DEF FirstUnit
  <1> HIDE DEF u
  <1>14. u = v
    BY <1>9, <1>10, <1>13
  <1> QED BY <1>1, <1>4, <1>8, <1>9, <1>14 DEF met, u

\* The minute that decides is in reach, and nothing that hides it is.
LEMMA NothingHidesFirst ==
    ASSUME ShadowAssumption, ShadowShape, NEW plan \in ShadowPlans, NEW last \in Nat, NEW fine \in BOOLEAN,
           Decides(plan, last)
    PROVE  /\ plan.close + 1 <= last
           /\ HitOf(MinutesOf(plan.close + 1)) # "unknown"
           /\ \E u \in Examined(plan, last, fine) : HitOf(u) # "none"
           /\ \A u \in Examined(plan, last, fine) : FirstMet(plan) \in u => HitOf(u) # "unknown"
  <1> DEFINE f == FirstMet(plan)
             U == Examined(plan, last, fine)
  <1>1. /\ f \in MetMinutes(plan) /\ \A j \in MetMinutes(plan) : f <= j /\ BarOf(f) <= BarOf(j)
        /\ BarOf(f) + 1 <= last /\ minutes[f].hit # "unknown"
    BY FirstMetFacts DEF Decides
  <1>2. f \in DOMAIN minutes /\ f \in Nat /\ f - 1 \in Nat /\ BarOf(f) \in Nat /\ BarOf(f) >= plan.close
    BY <1>1, MinuteFacts DEF MetMinutes
  <1>3. plan.close \in Nat /\ HorizonBars \in Nat \ {0}
    BY DEF ShadowPlans, ShadowAssumption
  <1>4. plan.close + 1 <= last
    BY <1>1, <1>2, <1>3
  <1>5. f \in InReach(plan, last)
    BY <1>1, <1>2 DEF InReach, MetMinutes
  <1>6. \A u \in U : u \in SUBSET InReach(plan, last) /\ u \in SUBSET DOMAIN minutes
    BY UnitsInOrder DEF InReach
  <1>7. \E u \in U : HitOf(u) # "none"
    <2>1. PICK u \in U : f \in u
      BY <1>5, UnitsInOrder
    <2> QED BY <1>1, <1>6, <2>1, HitFacts DEF MetMinutes
  <1>8. HitOf(MinutesOf(plan.close + 1)) # "unknown"
    <2>1. SUFFICES ASSUME HitOf(MinutesOf(plan.close + 1)) = "unknown"
                   PROVE  FALSE
      OBVIOUS
    <2>2. MinutesOf(plan.close + 1) \in SUBSET DOMAIN minutes
      BY DEF MinutesOf
    <2>3. PICK j \in MinutesOf(plan.close + 1) : minutes[j].hit = "unknown"
      BY <2>1, <2>2, HitFacts
    <2>4. /\ j \in DOMAIN minutes /\ BarOf(j) = plan.close /\ (j - 1) % BarLength = 0
          /\ j \in Nat /\ j - 1 \in Nat
      BY <1>3, <2>3, MinuteFacts DEF MinutesOf, BarOf, ShadowShape
    <2>5. j \in MetMinutes(plan)
      BY <1>3, <2>3, <2>4 DEF MetMinutes
    <2>6. f <= j /\ BarOf(f) = BarOf(j)
      BY <1>1, <1>2, <1>3, <2>4, <2>5
    <2>7. j - 1 <= f - 1
      BY <1>2, <2>4, <2>6, BarsGrow DEF BarOf
    <2>8. f = j
      BY <1>2, <2>4, <2>6, <2>7
    <2> QED BY <1>1, <2>3, <2>8
  <1>9. ASSUME NEW u \in U, f \in u, HitOf(u) = "unknown"
        PROVE  FALSE
    <2>1. PICK j \in u : minutes[j].hit = "unknown"
      BY <1>6, <1>9, HitFacts
    <2>2. /\ j \in DOMAIN minutes /\ (j - 1) % BarLength = 0 /\ j \in Nat
      BY <1>6, <2>1, MinuteFacts DEF ShadowShape
    <2>3. j \in MetMinutes(plan)
      BY <1>6, <2>1 DEF InReach, MetMinutes
    <2>4. j <= f
      BY <1>9, <2>1, <2>2, UnitsInOrder
    <2>5. f = j
      BY <1>1, <1>2, <2>2, <2>3, <2>4
    <2> QED BY <1>1, <2>1, <2>5
  <1> QED BY <1>4, <1>7, <1>8, <1>9

\* resolve_signal over any bars and any detail: it decides only what the prices have
\* decided and then tells the truth; what they have decided it tells or finds ambiguous.
LEMMA ResolveIsTrue ==
    ASSUME ShadowAssumption, ShadowShape, NEW plan \in ShadowPlans, NEW last \in Nat,
           NEW fine \in BOOLEAN, NEW ticks \in BOOLEAN,
           NEW status, status = Resolve(plan, last, fine, ticks).status
    PROVE  /\ status \in OutcomeStates
           /\ status \in Decided => plan.valid /\ Decides(plan, last)
           /\ plan.valid /\ Decides(plan, last) => status \in {StatusOfHit(MetFirst(plan)), "AMBIGUOUS"}
  <1> DEFINE units == Examined(plan, last, fine)
             met == MetUnits(plan, last, fine)
             u == FirstUnit(met)
             f == FirstMet(plan)
             drilled == ticks /\ (Earliest(u) - 1) % BarLength = 0
             untold == plan.close + 1 > last \/ HitOf(MinutesOf(plan.close + 1)) = "unknown" \/ ~plan.valid
  <1>1. CASE untold
    <2>1. status = "UNRESOLVED"
      BY <1>1 DEF Resolve, Outcome
    <2>2. ASSUME plan.valid, Decides(plan, last)
          PROVE  FALSE
      <3>1. plan.close \in Nat
        BY DEF ShadowPlans
      <3> QED BY <1>1, <2>2, <3>1, NothingHidesFirst
    <2> QED BY <2>1, <2>2 DEF OutcomeStates, Decided
  <1>2. CASE ~untold /\ met = {}
    <2>1. ~(\E v \in units : HitOf(v) # "none")
      BY <1>2 DEF MetUnits
    <2>2. status = "TIMEOUT"
      BY <1>2, <2>1 DEF Resolve, Outcome
    <2>3. ~Decides(plan, last)
      BY <2>1, NothingHidesFirst
    <2> QED BY <2>2, <2>3 DEF OutcomeStates, Decided
  <1>3. CASE ~untold /\ met # {}
    <2>1. \E v \in units : HitOf(v) # "none"
      BY <1>3 DEF MetUnits
    <2>2. status = ResolveSequence(units, ticks).status
      BY <1>3, <2>1 DEF Resolve
    <2>3. status = IF HitOf(u) = "both" /\ drilled THEN StatusOfHit(FirstTick(u)) ELSE StatusOfHit(HitOf(u))
      BY <2>2 DEF ResolveSequence, Outcome, MetUnits, FirstUnit
    <2> HIDE DEF u, drilled
    <2>4. /\ u \in met /\ u \in SUBSET InReach(plan, last)
          /\ MetMinutes(plan) # {} /\ f \in u
      BY <1>3, ChosenUnit DEF u
    <2>5. u \in units /\ u \in SUBSET DOMAIN minutes /\ f \in InReach(plan, last) /\ HitOf(u) # "none"
      BY <2>4 DEF InReach, MetUnits
    <2>6. f \in MetMinutes(plan) /\ MetFirst(plan) = IF minutes[f].hit = "both" THEN minutes[f].first ELSE minutes[f].hit
      BY <2>4, FirstMetFacts
    <2>7. /\ BarOf(f) + 1 <= last
          /\ minutes[f].hit \in {"stop", "target", "unknown", "both"}
          /\ minutes[f].hit = "both" => minutes[f].first \in {"stop", "target"}
      BY <2>5, <2>6, MinuteFacts DEF InReach, MetMinutes
    <2>8. FirstTick(u) = MetFirst(plan)
      <3>1. \A i \in u : minutes[i].hit # "none" => i \in MetMinutes(plan)
        BY <2>4 DEF InReach, MetMinutes
      <3> QED BY <2>4, <2>5, <2>6, <3>1, FirstTickIsFirst
    <2>9. CASE HitOf(u) = "unknown"
      <3>1. status = "UNRESOLVED"
        BY <2>3, <2>9 DEF StatusOfHit
      <3>2. ~Decides(plan, last)
        BY <2>4, <2>5, <2>9, NothingHidesFirst
      <3> QED BY <3>1, <3>2 DEF OutcomeStates, Decided
    <2>10. CASE HitOf(u) = "both"
      <3>1. minutes[f].hit # "unknown"
        BY <2>4, <2>5, <2>10, HitFacts
      <3>2. Decides(plan, last) /\ MetFirst(plan) \in {"stop", "target"}
        BY <2>4, <2>6, <2>7, <3>1 DEF Decides
      <3>3. status = IF drilled THEN StatusOfHit(MetFirst(plan)) ELSE "AMBIGUOUS"
        BY <2>3, <2>8, <2>10 DEF StatusOfHit
      <3>4. StatusOfHit(MetFirst(plan)) \in Decided
        BY <3>2 DEF StatusOfHit, Decided
      <3>5. plan.valid
        BY <1>3
      <3> QED BY <3>2, <3>3, <3>4, <3>5 DEF OutcomeStates, Decided
    <2>11. CASE HitOf(u) \in {"stop", "target"}
      <3>1. minutes[f].hit \in {"none", HitOf(u)}
        BY <2>4, <2>5, <2>11, HitFacts
      <3>2. MetFirst(plan) = HitOf(u) /\ minutes[f].hit # "unknown"
        BY <2>6, <2>7, <2>11, <3>1
      <3>3. Decides(plan, last)
        BY <2>4, <2>7, <3>2 DEF Decides
      <3>4. status = StatusOfHit(MetFirst(plan))
        BY <2>3, <2>11, <3>2
      <3>5. StatusOfHit(MetFirst(plan)) \in Decided
        BY <2>11, <3>2 DEF StatusOfHit, Decided
      <3>6. plan.valid
        BY <1>3
      <3> QED BY <3>3, <3>4, <3>5, <3>6 DEF OutcomeStates
    <2>12. HitOf(u) \in {"stop", "target", "unknown", "both"}
      BY <2>5, HitFacts
    <2> QED BY <2>9, <2>10, <2>11, <2>12
  <1> QED BY <1>1, <1>2, <1>3

\* Whether the tick pass decided, it told what prices did first.
LEMMA DecidedIsTrue ==
    ASSUME ShadowAssumption, ShadowShape, NEW plan \in ShadowPlans, NEW last \in Nat,
           NEW fine \in BOOLEAN, NEW ticks \in BOOLEAN,
           Resolve(plan, last, fine, ticks).status \in Decided
    PROVE  plan.valid /\ Decides(plan, last)
           /\ Resolve(plan, last, fine, ticks).status = StatusOfHit(MetFirst(plan))
  <1>1. "AMBIGUOUS" \notin Decided
    BY DEF Decided
  <1> QED BY <1>1, ResolveIsTrue

\* Later minutes change nothing about what is decided.
LEMMA DecisionsStand ==
    ASSUME ShadowAssumption, ShadowShape, NEW plan \in ShadowPlans, NEW last \in Nat, NEW later \in Nat,
           last <= later, Decides(plan, last),
           NEW k \in MinuteKinds, minutes' = Append(minutes, k)
    PROVE  Decides(plan, later)' /\ MetFirst(plan)' = MetFirst(plan)
  <1> DEFINE f == FirstMet(plan)
  <1>1. /\ minutes \in Seq(MinuteKinds)
        /\ DOMAIN minutes' = DOMAIN minutes \cup {Len(minutes) + 1}
        /\ \A i \in DOMAIN minutes : minutes'[i] = minutes[i]
        /\ \A i \in DOMAIN minutes : i \in Nat /\ i < Len(minutes) + 1
    BY DEF ShadowShape
  <1>2. /\ f \in MetMinutes(plan) /\ \A j \in MetMinutes(plan) : f <= j
        /\ MetFirst(plan) = IF minutes[f].hit = "both" THEN minutes[f].first ELSE minutes[f].hit
        /\ BarOf(f) + 1 <= last /\ minutes[f].hit # "unknown"
    BY FirstMetFacts DEF Decides
  <1>3. f \in DOMAIN minutes /\ f \in Nat /\ BarOf(f) \in Nat
    BY <1>2, MinuteFacts DEF MetMinutes
  <1>4. /\ f \in MetMinutes(plan)'
        /\ \A j \in MetMinutes(plan)' : j \in MetMinutes(plan) \/ j = Len(minutes) + 1
    BY <1>1, <1>2, <1>3 DEF MetMinutes, BarOf
  <1>5. \A j \in MetMinutes(plan)' : f <= j /\ (j <= f => j = f) /\ j \in Nat
    BY <1>1, <1>2, <1>3, <1>4 DEF MetMinutes
  <1>6. Earliest(MetMinutes(plan)') = f
    BY <1>3, <1>4, <1>5 DEF Earliest
  <1>7. FirstMet(plan)' = f
    BY <1>6 DEF FirstMet, Earliest
  <1>8. BarOf(f) + 1 <= later
    BY <1>2, <1>3
  <1>9. Decides(plan, later)'
    BY <1>1, <1>2, <1>3, <1>4, <1>7, <1>8 DEF Decides, BarOf
  <1>10. FirstTick(MetMinutes(plan))' = IF minutes[f].hit = "both" THEN minutes[f].first ELSE minutes[f].hit
    <2>1. {j \in MetMinutes(plan)' : minutes'[j].hit # "none"} = MetMinutes(plan)'
      BY DEF MetMinutes
    <2>2. FirstTick(MetMinutes(plan))' =
             LET i == Earliest({j \in MetMinutes(plan)' : minutes'[j].hit # "none"})
             IN IF minutes'[i].hit = "both" THEN minutes'[i].first ELSE minutes'[i].hit
      BY DEF FirstTick, Earliest
    <2> QED BY <1>1, <1>3, <1>6, <2>1, <2>2
  <1>11. MetFirst(plan)' = FirstTick(MetMinutes(plan))'
    BY <1>4 DEF MetFirst, MetMinutes, BarOf
  <1> QED BY <1>2, <1>9, <1>10, <1>11

\* What a source can see, and what it is entitled to say of a plan.
BarsSeen(source) == IF source = "live" THEN TerminalBars ELSE ClosedBars

Entitled(k, status) ==
    status \in Decided =>
        /\ k[2].valid /\ Decides(k[2], BarsSeen(k[1]))
        /\ status = StatusOfHit(MetFirst(k[2]))

OutcomesEntitled(outcomes) ==
    /\ DOMAIN outcomes \subseteq Sources \X plans
    /\ \A k \in DOMAIN outcomes :
          outcomes[k].status \in OutcomeStates /\ Entitled(k, outcomes[k].status)

\* Nothing that is about to be written contradicts the book, unless writes have crossed.
NothingUndone ==
    ~crossed => \A r \in OutcomeResolvers : \A k \in DOMAIN book \cap DOMAIN resolved[r] :
        book[k].status \in Decided => resolved[r][k].status \in {book[k].status, "AMBIGUOUS"}

ShadowInv ==
    /\ ShadowShape /\ crossed \in BOOLEAN
    /\ DOMAIN resolved = OutcomeResolvers
    /\ OutcomesEntitled(book) /\ \A r \in OutcomeResolvers : OutcomesEntitled(resolved[r])
    /\ NothingUndone

LEMMA BarsSeenGrow ==
    ASSUME ShadowAssumption, ShadowShape
    PROVE  /\ ClosedBars \in Nat /\ ClosedBars <= MaxMinutes
           /\ \A source : BarsSeen(source) \in Nat
           /\ \A k \in MinuteKinds : minutes' = Append(minutes, k) =>
                 \A source : BarsSeen(source)' \in Nat /\ BarsSeen(source) <= BarsSeen(source)'
  <1>1. BarLength \in Nat \ {0} /\ MaxMinutes \in Nat
    BY DEF ShadowAssumption
  <1>2. Len(minutes) \in Nat /\ Len(minutes) + BarLength - 1 \in Nat /\ Len(minutes) <= MaxMinutes
    BY <1>1 DEF ShadowShape
  <1>3. ClosedBars \in Nat /\ ClosedBars <= Len(minutes) /\ TerminalBars \in Nat
    BY <1>2, BarsGrow DEF ClosedBars, TerminalBars
  <1>4. ClosedBars <= MaxMinutes
    BY <1>1, <1>2, <1>3
  <1>5. ASSUME NEW k \in MinuteKinds, minutes' = Append(minutes, k)
        PROVE  /\ ClosedBars' \in Nat /\ ClosedBars <= ClosedBars'
               /\ TerminalBars' \in Nat /\ TerminalBars <= TerminalBars'
    <2>1. Len(minutes') = Len(minutes) + 1
      BY <1>5 DEF ShadowShape
    <2>2. /\ Len(minutes') \in Nat /\ Len(minutes') + BarLength - 1 \in Nat
          /\ Len(minutes) <= Len(minutes')
          /\ Len(minutes) + BarLength - 1 <= Len(minutes') + BarLength - 1
      BY <1>1, <1>2, <2>1
    <2>3. ClosedBars' \in Nat /\ ClosedBars <= ClosedBars'
      BY <1>2, <2>2, BarsGrow DEF ClosedBars
    <2>4. TerminalBars' \in Nat /\ TerminalBars <= TerminalBars'
      BY <1>2, <2>2, BarsGrow DEF TerminalBars
    <2> QED BY <2>3, <2>4
  <1> QED BY <1>3, <1>4, <1>5 DEF BarsSeen

LEMMA ShadowStarts ==
    ASSUME ShadowAssumption, ShadowInit
    PROVE  ShadowInv
  <1> USE DEF ShadowInit
  <1>1. DOMAIN NothingResolved = {}
    BY DEF NothingResolved
  <1>2. OutcomesEntitled(book) /\ \A r \in OutcomeResolvers : OutcomesEntitled(resolved[r])
    BY <1>1 DEF OutcomesEntitled
  <1>3. ShadowShape
    BY DEF ShadowShape, ShadowAssumption
  <1> QED BY <1>1, <1>2, <1>3 DEF ShadowInv, NothingUndone

\* What a resolver has read it is entitled to write, and no newer answer is undone by it.
LEMMA ReadIsEntitled ==
    ASSUME ShadowAssumption, ShadowInv, NEW r \in OutcomeResolvers, ReadLive(r) \/ ReadReplay(r)
    PROVE  /\ UNCHANGED <<minutes, plans, book, crossed>>
           /\ DOMAIN resolved' = OutcomeResolvers
           /\ \A s \in OutcomeResolvers \ {r} : resolved'[s] = resolved[s]
           /\ OutcomesEntitled(resolved'[r])
           /\ \A k \in DOMAIN book \cap DOMAIN resolved'[r] :
                 book[k].status \in Decided => resolved'[r][k].status \in {book[k].status, "AMBIGUOUS"}
  <1> USE DEF ShadowInv
  <1>1. plans \subseteq ShadowPlans
    BY DEF ShadowShape
  <1>2. /\ UNCHANGED <<minutes, plans, book, crossed>>
        /\ DOMAIN resolved' = OutcomeResolvers
        /\ \A s \in OutcomeResolvers \ {r} : resolved'[s] = resolved[s]
    BY DEF ReadLive, ReadReplay
  <1>3. ASSUME NEW k \in DOMAIN resolved'[r]
        PROVE  /\ k \in Sources \X plans
               /\ \E fine, ticks \in BOOLEAN :
                     resolved'[r][k].status = Resolve(k[2], BarsSeen(k[1]), fine, ticks).status
    <2>1. CASE ReadLive(r)
      <3>1. PICK fine \in BOOLEAN, ticks \in BOOLEAN :
               resolved'[r] = [j \in {<<"live", p>> : p \in plans} |->
                  LET pass == Resolve(j[2], TerminalBars, fine, FALSE)
                  IN IF pass.status = "AMBIGUOUS"
                     THEN Resolve(j[2], TerminalBars, fine, ticks) ELSE pass]
        BY <2>1 DEF ReadLive
      <3>2. PICK p \in plans : k = <<"live", p>>
        BY <1>3, <3>1
      <3>3. \/ resolved'[r][k] = Resolve(p, TerminalBars, fine, FALSE)
            \/ resolved'[r][k] = Resolve(p, TerminalBars, fine, ticks)
        BY <3>1, <3>2
      <3> QED BY <3>2, <3>3 DEF Sources, BarsSeen
    <2>2. CASE ReadReplay(r)
      <3>1. resolved'[r] = [j \in {<<"replay", p>> : p \in plans} |->
                               Resolve(j[2], ClosedBars, FALSE, FALSE)]
        BY <2>2 DEF ReadReplay
      <3>2. PICK p \in plans : k = <<"replay", p>>
        BY <1>3, <3>1
      <3>3. resolved'[r][k] = Resolve(p, ClosedBars, FALSE, FALSE)
        BY <3>1, <3>2
      <3> QED BY <3>2, <3>3 DEF Sources, BarsSeen
    <2> QED BY <2>1, <2>2
  <1>4. ASSUME NEW k \in DOMAIN resolved'[r]
        PROVE  /\ k \in Sources \X plans
               /\ resolved'[r][k].status \in OutcomeStates
               /\ Entitled(k, resolved'[r][k].status)
               /\ k[2].valid /\ Decides(k[2], BarsSeen(k[1])) =>
                     resolved'[r][k].status \in {StatusOfHit(MetFirst(k[2])), "AMBIGUOUS"}
    <2>1. PICK fine \in BOOLEAN, ticks \in BOOLEAN :
             resolved'[r][k].status = Resolve(k[2], BarsSeen(k[1]), fine, ticks).status
      BY <1>3
    <2>2. k \in Sources \X plans /\ k[2] \in ShadowPlans /\ BarsSeen(k[1]) \in Nat
      BY <1>1, <1>3, BarsSeenGrow
    <2> QED BY <2>1, <2>2, ResolveIsTrue, DecidedIsTrue DEF Entitled
  <1>5. OutcomesEntitled(resolved'[r])
    BY <1>4 DEF OutcomesEntitled
  <1>6. ASSUME NEW k \in DOMAIN book \cap DOMAIN resolved'[r], book[k].status \in Decided
        PROVE  resolved'[r][k].status \in {book[k].status, "AMBIGUOUS"}
    <2>1. Entitled(k, book[k].status)
      BY <1>6 DEF OutcomesEntitled
    <2> QED BY <1>4, <1>6, <2>1 DEF Entitled
  <1> QED BY <1>2, <1>5, <1>6

LEMMA ShadowStep ==
    ASSUME ShadowAssumption, ShadowInv, [ShadowNext]_shadowVars
    PROVE  /\ ShadowInv'
           /\ \A k \in DOMAIN book : book[k].status \in Decided /\ ~crossed' =>
                 book'[k].status \in {book[k].status, "AMBIGUOUS"}
  <1> USE DEF ShadowInv
  <1>1. CASE MinutePasses
    <2>1. PICK kind \in MinuteKinds :
             /\ minutes' = Append(minutes, kind) /\ Len(minutes) < MaxMinutes
             /\ Len(minutes) % BarLength # 0 => kind.hit # "unknown"
      BY <1>1 DEF MinutePasses
    <2>2. UNCHANGED <<plans, book, resolved, crossed>>
      BY <1>1 DEF MinutePasses
    <2>3. ShadowShape'
      <3>1. /\ minutes' \in Seq(MinuteKinds) /\ Len(minutes') = Len(minutes) + 1 /\ Len(minutes) \in Nat
            /\ DOMAIN minutes' = DOMAIN minutes \cup {Len(minutes) + 1}
            /\ \A i \in DOMAIN minutes : minutes'[i] = minutes[i]
            /\ minutes'[Len(minutes) + 1] = kind
        BY <2>1 DEF ShadowShape
      <3>2. Len(minutes') <= MaxMinutes
        BY <2>1, <3>1 DEF ShadowAssumption
      <3>3. (Len(minutes) + 1) - 1 = Len(minutes)
        BY <3>1
      <3>4. ASSUME NEW i \in DOMAIN minutes', minutes'[i].hit = "unknown"
            PROVE  (i - 1) % BarLength = 0
        BY <2>1, <3>1, <3>3, <3>4 DEF ShadowShape
      <3> QED BY <2>2, <3>1, <3>2, <3>4 DEF ShadowShape
    <2>4. ASSUME NEW k \in Sources \X plans, NEW status, Entitled(k, status)
          PROVE  Entitled(k, status)'
      <3>1. k[2] \in ShadowPlans
        BY DEF ShadowShape
      <3>2. BarsSeen(k[1]) \in Nat /\ BarsSeen(k[1])' \in Nat /\ BarsSeen(k[1]) <= BarsSeen(k[1])'
        BY <2>1, BarsSeenGrow
      <3>3. SUFFICES ASSUME status \in Decided
                     PROVE  (k[2].valid /\ Decides(k[2], BarsSeen(k[1])) /\ status = StatusOfHit(MetFirst(k[2])))'
        BY DEF Entitled
      <3>4. k[2].valid /\ Decides(k[2], BarsSeen(k[1])) /\ status = StatusOfHit(MetFirst(k[2]))
        BY <2>4, <3>3 DEF Entitled
      <3>5. PICK later \in Nat : later = BarsSeen(k[1])'
        BY <3>2
      <3>6. Decides(k[2], later)' /\ MetFirst(k[2])' = MetFirst(k[2])
        BY <2>1, <3>1, <3>2, <3>4, <3>5, DecisionsStand
      <3>7. Decides(k[2], BarsSeen(k[1]))'
        BY <3>5, <3>6 DEF Decides
      <3> QED BY <3>4, <3>6, <3>7 DEF StatusOfHit
    <2>5. OutcomesEntitled(book)' /\ \A r \in OutcomeResolvers : OutcomesEntitled(resolved[r])'
      BY <2>2, <2>4 DEF OutcomesEntitled
    <2> QED BY <2>2, <2>3, <2>5 DEF NothingUndone
  <1>2. CASE EmitPlan
    <2>1. PICK valid \in BOOLEAN : plans' = plans \cup {[close |-> ClosedBars, valid |-> valid]}
      BY <1>2 DEF EmitPlan
    <2>2. UNCHANGED <<minutes, book, resolved, crossed>> /\ ClosedBars > 0
      BY <1>2 DEF EmitPlan
    <2>3. [close |-> ClosedBars, valid |-> valid] \in ShadowPlans
      BY <2>2, BarsSeenGrow DEF ShadowPlans, ShadowAssumption
    <2>4. ShadowShape'
      BY <2>1, <2>2, <2>3 DEF ShadowShape
    <2>5. \A k, status : Entitled(k, status)' <=> Entitled(k, status)
      BY <2>2 DEF Entitled, Decides, MetMinutes, FirstMet, Earliest, BarOf, BarsSeen, ClosedBars,
                  TerminalBars, MetFirst, FirstTick, StatusOfHit
    <2>6. OutcomesEntitled(book)' /\ \A r \in OutcomeResolvers : OutcomesEntitled(resolved[r])'
      BY <2>1, <2>2, <2>5 DEF OutcomesEntitled
    <2> QED BY <2>2, <2>4, <2>6 DEF NothingUndone
  <1>3. ASSUME NEW r \in OutcomeResolvers, ReadLive(r) \/ ReadReplay(r)
        PROVE  ShadowInv' /\ book' = book
    <2>1. /\ UNCHANGED <<minutes, plans, book, crossed>>
          /\ DOMAIN resolved' = OutcomeResolvers
          /\ \A s \in OutcomeResolvers \ {r} : resolved'[s] = resolved[s]
          /\ OutcomesEntitled(resolved'[r])
          /\ \A k \in DOMAIN book \cap DOMAIN resolved'[r] :
                book[k].status \in Decided => resolved'[r][k].status \in {book[k].status, "AMBIGUOUS"}
      BY <1>3, ReadIsEntitled
    <2>2. ShadowShape'
      BY <2>1 DEF ShadowShape
    <2>3. \A k, status : Entitled(k, status)' <=> Entitled(k, status)
      BY <2>1 DEF Entitled, Decides, MetMinutes, FirstMet, Earliest, BarOf, BarsSeen, ClosedBars,
                  TerminalBars, MetFirst, FirstTick, StatusOfHit
    <2>4. OutcomesEntitled(book)'
      BY <2>1, <2>3 DEF OutcomesEntitled
    <2>5. ASSUME NEW s \in OutcomeResolvers
          PROVE  OutcomesEntitled(resolved[s])'
      <3>1. OutcomesEntitled(resolved'[s])
        BY <2>1
      <3> QED BY <2>1, <2>3, <3>1 DEF OutcomesEntitled
    <2>6. NothingUndone'
      BY <2>1 DEF NothingUndone
    <2> QED BY <2>1, <2>2, <2>4, <2>5, <2>6
  <1>4. ASSUME NEW r \in OutcomeResolvers, Upsert(r)
        PROVE  /\ ShadowInv'
               /\ \A k \in DOMAIN book : book[k].status \in Decided /\ ~crossed' =>
                     book'[k].status \in {book[k].status, "AMBIGUOUS"}
    <2>1. /\ book' = [k \in DOMAIN book \cup DOMAIN resolved[r] |->
                        IF k \in DOMAIN resolved[r] THEN resolved[r][k] ELSE book[k]]
          /\ crossed' = (crossed \/ \E s \in OutcomeResolvers \ {r} : resolved[s] # NothingResolved)
          /\ resolved' = [resolved EXCEPT ![r] = NothingResolved]
          /\ UNCHANGED <<minutes, plans>>
      BY <1>4 DEF Upsert
    <2>2. ShadowShape' /\ crossed' \in BOOLEAN /\ DOMAIN resolved' = OutcomeResolvers
      BY <2>1 DEF ShadowShape
    <2>3. \A k, status : Entitled(k, status)' <=> Entitled(k, status)
      BY <2>1 DEF Entitled, Decides, MetMinutes, FirstMet, Earliest, BarOf, BarsSeen, ClosedBars,
                  TerminalBars, MetFirst, FirstTick, StatusOfHit
    <2>4. DOMAIN NothingResolved = {}
      BY DEF NothingResolved
    <2>5. OutcomesEntitled(book)'
      <3>1. \A k \in DOMAIN book' :
               \/ book'[k] = book[k] /\ k \in DOMAIN book
               \/ book'[k] = resolved[r][k] /\ k \in DOMAIN resolved[r]
        <4>1. DOMAIN book' = DOMAIN book \cup DOMAIN resolved[r]
          BY <2>1
        <4>2. \A k \in DOMAIN book \cup DOMAIN resolved[r] :
                 book'[k] = IF k \in DOMAIN resolved[r] THEN resolved[r][k] ELSE book[k]
          BY <2>1
        <4> QED BY <4>1, <4>2
      <3>2. OutcomesEntitled(book) /\ OutcomesEntitled(resolved[r])
        OBVIOUS
      <3>3. \A k \in DOMAIN book' :
               /\ k \in Sources \X plans /\ book'[k].status \in OutcomeStates
               /\ Entitled(k, book'[k].status)
        BY <3>1, <3>2 DEF OutcomesEntitled
      <3> QED BY <2>1, <2>3, <3>3 DEF OutcomesEntitled
    <2>6. ASSUME NEW s \in OutcomeResolvers
          PROVE  OutcomesEntitled(resolved[s])'
      <3>1. resolved'[s] = resolved[s] \/ resolved'[s] = NothingResolved
        BY <2>1
      <3> QED BY <2>1, <2>3, <2>4, <3>1 DEF OutcomesEntitled
    <2>7. ASSUME ~crossed', NEW s \in OutcomeResolvers
          PROVE  DOMAIN resolved'[s] = {}
      BY <2>1, <2>4, <2>7
    <2>8. NothingUndone'
      BY <2>7 DEF NothingUndone
    <2>9. ASSUME NEW k \in DOMAIN book, book[k].status \in Decided, ~crossed'
          PROVE  book'[k].status \in {book[k].status, "AMBIGUOUS"}
      <3>1. CASE k \in DOMAIN resolved[r]
        <4>1. ~crossed /\ book'[k] = resolved[r][k]
          BY <2>1, <2>9, <3>1
        <4> QED BY <2>9, <3>1, <4>1 DEF NothingUndone
      <3>2. CASE k \notin DOMAIN resolved[r]
        BY <2>1, <3>2
      <3> QED BY <3>1, <3>2
    <2> QED BY <2>2, <2>5, <2>6, <2>8, <2>9
  <1>5. CASE UNCHANGED shadowVars
    <2>1. UNCHANGED <<minutes, plans, book, resolved, crossed>>
      BY <1>5 DEF shadowVars
    <2>2. \A k, status : Entitled(k, status)' <=> Entitled(k, status)
      BY <2>1 DEF Entitled, Decides, MetMinutes, FirstMet, Earliest, BarOf, BarsSeen, ClosedBars,
                  TerminalBars, MetFirst, FirstTick, StatusOfHit
    <2> QED BY <2>1, <2>2 DEF ShadowShape, OutcomesEntitled, NothingUndone
  <1>6. MinutePasses \/ EmitPlan => book' = book
    BY DEF MinutePasses, EmitPlan
  <1>7. CASE book' = book /\ ShadowInv'
    BY <1>7
  <1> QED BY <1>1, <1>2, <1>3, <1>4, <1>5, <1>6, <1>7 DEF ShadowNext, shadowVars

\* A decided shadow outcome is what prices did first, at either source and with whatever
\* detail, and stays unless two resolvers overlap (research/shadow_outcomes.py).
THEOREM ShadowOutcomesSafe ==
    ASSUME ShadowAssumption
    PROVE  ShadowSpec => [](ShadowTypeOK /\ DecidedOutcomesAreTrue) /\ [][ShadowBookSound]_shadowVars
  <1>1. ShadowInit => ShadowInv
    BY ShadowStarts
  <1>2. ShadowInv /\ [ShadowNext]_shadowVars => ShadowInv'
    BY ShadowStep
  <1>3. ShadowInv => ShadowTypeOK /\ DecidedOutcomesAreTrue
    BY DEF ShadowInv, ShadowTypeOK, DecidedOutcomesAreTrue, ShadowShape, ShadowPlans, OutcomesEntitled,
           Entitled, OutcomeStates
  <1>4. ShadowInv /\ [ShadowNext]_shadowVars /\ DecidedOutcomesAreTrue' => ShadowBookSound
    BY ShadowStep DEF ShadowBookSound
  <1> QED BY <1>1, <1>2, <1>3, <1>4, PTL DEF ShadowSpec

(***************************************************************************)
(* Evidence intake.  The package identity, which no edit reaches, holds    *)
(* what was sealed; what the intake records were built from agrees with    *)
(* it, and an attestation holds the hash it was given for.                 *)
(***************************************************************************)
IntakeSpec == IntakeInit /\ [][IntakeNext]_intakeVars

SealedSummary(summary) ==
    \A a \in Artifacts :
        /\ summary.artifacts[a].category \in RequiredCategories
        /\ summary.artifacts[a].source = "vendor" /\ summary.artifacts[a].hash = "bytes"

ParcelFields == {"package_id", "environment", "classification", "family", "currency", "account", "artifacts"}
ArtifactFields == {"raw", "hash", "source", "category", "complete", "known", "syntheticSource",
                   "environment", "currency", "account", "family", "fields", "claim"}

ParcelShape ==
    /\ DOMAIN parcel = ParcelFields /\ SealedSummary(parcel.package_id)
    /\ DOMAIN parcel.artifacts = Artifacts

\* The categories of the parcel once it is built from, and its records.
BuiltAsSealed ==
    intakes # NothingBuilt =>
        /\ DOMAIN intakes = Artifacts
        /\ {parcel.artifacts[b].category : b \in Artifacts} = RequiredCategories
        /\ \A a \in Artifacts :
              /\ {"source", "hash"} \subseteq DOMAIN intakes[a] /\ intakes[a].source = "vendor"
              /\ a \notin DOMAIN attestations => intakes[a].hash = "bytes"

AttestedAsSealed ==
    /\ DOMAIN attestations \subseteq DOMAIN intakes
    /\ \A a \in DOMAIN attestations : attestations[a].of.hash = "bytes"

IntakeInv ==
    /\ ParcelShape /\ BuiltAsSealed /\ AttestedAsSealed
    /\ withdrawn \subseteq {"INTAKE", "SOURCE_VERIFICATION"} \X Artifacts
    /\ readiness # "NONE" => intakes # NothingBuilt
    /\ edits \in 0 .. 2
    /\ ReadyEvidenceIsSealedEvidence

LEMMA IntakeStarts ==
    ASSUME IntakeInit
    PROVE  IntakeInv
  <1> USE DEF IntakeInit
  <1> DEFINE Draft(c, deal) ==
                 [package_id |-> Unset, environment |-> "demo", classification |-> c, family |-> "MULTUP",
                  currency |-> "USD", account |-> "acc",
                  artifacts |-> [a \in Artifacts |-> SealedArtifact(deal[a])]]
  <1>1. PICK c \in {"PRODUCTION", "SYNTHETIC"}, deal \in [Artifacts -> RequiredCategories] :
          parcel = [Draft(c, deal) EXCEPT !.package_id = PackageSummary(Draft(c, deal))]
    <2> DEFINE drafts == {Draft(k, dealt) : k \in {"PRODUCTION", "SYNTHETIC"},
                                           dealt \in [Artifacts -> RequiredCategories]}
    <2>1. parcel \in {[d EXCEPT !.package_id = PackageSummary(d)] : d \in drafts}
      BY DEF SealedParcels
    <2> HIDE DEF drafts
    <2>2. PICK d \in drafts : parcel = [d EXCEPT !.package_id = PackageSummary(d)]
      BY <2>1
    <2>3. \E k \in {"PRODUCTION", "SYNTHETIC"}, dealt \in [Artifacts -> RequiredCategories] : d = Draft(k, dealt)
      BY <2>2 DEF drafts
    <2> HIDE DEF Draft
    <2> QED BY <2>2, <2>3
  <1> DEFINE q == Draft(c, deal)
  <1>2. parcel.package_id = PackageSummary(q) /\ DOMAIN parcel = ParcelFields /\ parcel.artifacts = q.artifacts
    BY <1>1 DEF ParcelFields
  <1>3. SealedSummary(parcel.package_id)
    <2>1. DOMAIN q.artifacts = Artifacts /\ \A a \in Artifacts : q.artifacts[a] = SealedArtifact(deal[a])
      OBVIOUS
    <2>2. \A a \in Artifacts : /\ q.artifacts[a].category \in RequiredCategories
                               /\ q.artifacts[a].source = "vendor" /\ q.artifacts[a].hash = "bytes"
      BY <2>1 DEF SealedArtifact
    <2>3. PackageSummary(q).artifacts =
             [a \in DOMAIN q.artifacts |-> [category |-> q.artifacts[a].category,
                                            source |-> q.artifacts[a].source,
                                            hash |-> q.artifacts[a].hash,
                                            complete |-> q.artifacts[a].complete]]
      BY DEF PackageSummary
    <2> HIDE DEF q
    <2> QED BY <1>2, <2>1, <2>2, <2>3 DEF SealedSummary
  <1>4. ParcelShape
    BY <1>1, <1>2, <1>3 DEF ParcelShape
  <1>5. DOMAIN attestations = {}
    BY DEF NothingBuilt
  <1> QED BY <1>4, <1>5 DEF IntakeInv, BuiltAsSealed, AttestedAsSealed, ReadyEvidenceIsSealedEvidence

\* What an eligible handoff says of the parcel: its identity holds what it carries.
LEMMA EligibleIsSealed ==
    ASSUME ParcelShape, HandoffState(parcel, NoExpectation, FALSE) = "ELIGIBLE"
    PROVE  /\ {parcel.artifacts[b].category : b \in Artifacts} = RequiredCategories
           /\ \A a \in Artifacts : parcel.artifacts[a].source = "vendor" /\ parcel.artifacts[a].hash = "bytes"
  <1>1. HandoffReasons(parcel, NoExpectation, FALSE) = {}
    BY DEF HandoffState
  <1>2. /\ parcel.package_id = PackageSummary(parcel)
        /\ RequiredCategories \ {parcel.artifacts[a].category : a \in DOMAIN parcel.artifacts} = {}
    BY <1>1 DEF HandoffReasons, EvidenceFlag
  <1>3. PackageSummary(parcel).artifacts =
           [a \in DOMAIN parcel.artifacts |-> [category |-> parcel.artifacts[a].category,
                                               source |-> parcel.artifacts[a].source,
                                               hash |-> parcel.artifacts[a].hash,
                                               complete |-> parcel.artifacts[a].complete]]
    BY DEF PackageSummary
  <1>4. \A a \in Artifacts : /\ parcel.artifacts[a].category \in RequiredCategories
                             /\ parcel.artifacts[a].source = "vendor" /\ parcel.artifacts[a].hash = "bytes"
    BY <1>2, <1>3 DEF ParcelShape, SealedSummary
  <1> QED BY <1>2, <1>4 DEF ParcelShape

\* Readiness is an answer about every record: no reason against any of them.
LEMMA ReadyMeansClean ==
    ASSUME NEW is, NEW vs, NEW revoked, NEW claims, NEW expected,
           ReadinessState(is, vs, revoked, claims, expected) = "READY",
           NEW a \in DOMAIN is
    PROVE  /\ is[a].classification = "PRODUCTION" /\ is[a].raw = is[a].hash
           /\ is[a].known /\ is[a].complete
           /\ \A f \in ScopeFields \cup {"account"} : is[a][f] = expected[f]
           /\ <<"INTAKE", a>> \notin revoked /\ <<"SOURCE_VERIFICATION", a>> \notin revoked
           /\ a \in DOMAIN vs /\ vs[a].verified
           /\ vs[a].of.hash = is[a].raw
  <1>1. ReadinessReasons(is, vs, revoked, claims, expected) = {}
    BY DEF ReadinessState
  <1> DEFINE i == is[a]
  <1>2. RecordReasons(a, is, vs, revoked, claims, expected) = {}
    BY <1>1 DEF ReadinessReasons
  <1>4. /\ i.classification = "PRODUCTION" /\ i.raw = i.hash /\ i.known /\ i.complete
        /\ \A f \in ScopeFields \cup {"account"} : i[f] = expected[f]
        /\ <<"INTAKE", a>> \notin revoked
    BY <1>2 DEF RecordReasons, EvidenceFlag
  <1>5. /\ a \in DOMAIN vs /\ vs[a].verified /\ <<"SOURCE_VERIFICATION", a>> \notin revoked
        /\ vs[a].of = [AttestationOf(i) EXCEPT !.hash = i.raw, !.fieldsHash = i.fields]
    BY <1>2 DEF RecordReasons, EvidenceFlag
  <1>6. vs[a].of.hash = i.raw
    BY <1>5 DEF AttestationOf
  <1> QED BY <1>4, <1>5, <1>6

LEMMA IntakeStep ==
    ASSUME ArtifactsAssumption, IntakeInv, [IntakeNext]_intakeVars
    PROVE  IntakeInv'
  <1> USE DEF IntakeInv
  <1>1. ASSUME NEW a \in Artifacts, NEW f \in ArtifactFields, EditArtifact(a, f)
        PROVE  IntakeInv'
    <2>1. /\ parcel' = [parcel EXCEPT !.artifacts[a][f] = Edited(f, @)] /\ intakes = NothingBuilt
          /\ edits < 2 /\ edits' = edits + 1
          /\ UNCHANGED <<intakes, attestations, withdrawn, readiness>>
      BY <1>1 DEF EditArtifact
    <2>2. ParcelShape'
      <3>1. /\ DOMAIN parcel' = DOMAIN parcel /\ parcel'.package_id = parcel.package_id
            /\ DOMAIN parcel'.artifacts = DOMAIN parcel.artifacts
        BY <2>1 DEF ParcelShape, ParcelFields
      <3> QED BY <3>1 DEF ParcelShape, SealedSummary
    <2> QED BY <2>1, <2>2 DEF BuiltAsSealed, AttestedAsSealed, ReadyEvidenceIsSealedEvidence
  <1>2. CASE BuildIntakes
    <2>1. /\ intakes = NothingBuilt /\ HandoffState(parcel, NoExpectation, FALSE) = "ELIGIBLE"
          /\ intakes' = [a \in Artifacts |-> IntakeOf(parcel, a)]
          /\ UNCHANGED <<parcel, attestations, withdrawn, readiness, edits>>
      BY <1>2 DEF BuildIntakes
    <2>2. DOMAIN intakes = {} /\ DOMAIN attestations = {} /\ readiness = "NONE"
      BY <2>1 DEF NothingBuilt, AttestedAsSealed
    <2>3. DOMAIN intakes' = Artifacts /\ intakes' # NothingBuilt
      BY <2>1, <2>2 DEF ArtifactsAssumption
    <2>4. \A a \in Artifacts : /\ {"source", "hash"} \subseteq DOMAIN intakes'[a]
                               /\ intakes'[a].source = "vendor" /\ intakes'[a].hash = "bytes"
      BY <2>1, EligibleIsSealed DEF IntakeOf
    <2>5. BuiltAsSealed'
      BY <2>1, <2>3, <2>4, EligibleIsSealed DEF BuiltAsSealed
    <2> QED BY <2>1, <2>2, <2>3, <2>5 DEF ParcelShape, AttestedAsSealed, ReadyEvidenceIsSealedEvidence
  <1>3. ASSUME NEW a \in Artifacts, NEW verified \in BOOLEAN, VerifySource(a, verified)
        PROVE  IntakeInv'
    <2>1. /\ a \in DOMAIN intakes /\ a \notin DOMAIN attestations
          /\ attestations' = [b \in DOMAIN attestations \cup {a} |->
                IF b = a THEN [verified |-> verified, of |-> AttestationOf(intakes[a])] ELSE attestations[b]]
          /\ UNCHANGED <<parcel, intakes, withdrawn, readiness, edits>>
      BY <1>3 DEF VerifySource
    <2>2. intakes # NothingBuilt
      BY <2>1 DEF NothingBuilt
    <2>3. intakes[a].hash = "bytes"
      BY <2>1, <2>2 DEF BuiltAsSealed
    <2>4. /\ DOMAIN attestations' = DOMAIN attestations \cup {a}
          /\ \A b \in DOMAIN attestations : attestations'[b] = attestations[b]
          /\ attestations'[a].of = AttestationOf(intakes[a])
      BY <2>1
    <2>5. AttestedAsSealed'
      BY <2>1, <2>3, <2>4 DEF AttestedAsSealed, AttestationOf
    <2>6. BuiltAsSealed'
      BY <2>1, <2>4 DEF BuiltAsSealed
    <2>7. readiness # "READY"
      BY <2>1 DEF ReadyEvidenceIsSealedEvidence
    <2> QED BY <2>1, <2>5, <2>6, <2>7 DEF ParcelShape, ReadyEvidenceIsSealedEvidence
  <1>4. ASSUME NEW a \in Artifacts, NEW f \in {"raw", "hash", "fields", "complete", "claim"}, EditIntake(a, f)
        PROVE  IntakeInv'
    <2>1. /\ a \in DOMAIN attestations /\ readiness = "NONE" /\ edits < 2 /\ edits' = edits + 1
          /\ intakes' = [intakes EXCEPT ![a][f] = Edited(f, @)]
          /\ UNCHANGED <<parcel, attestations, withdrawn, readiness>>
      BY <1>4 DEF EditIntake
    <2>2. a \in DOMAIN intakes
      BY <2>1 DEF AttestedAsSealed
    <2>3. intakes # NothingBuilt
      BY <2>2 DEF NothingBuilt
    <2>4. DOMAIN intakes' = Artifacts /\ DOMAIN intakes = Artifacts
      BY <2>1, <2>3 DEF BuiltAsSealed
    <2>5. /\ \A b \in Artifacts \ {a} : intakes'[b] = intakes[b]
          /\ DOMAIN intakes'[a] = DOMAIN intakes[a]
          /\ intakes'[a].source = intakes[a].source
      BY <2>1, <2>2, <2>3, <2>4 DEF BuiltAsSealed
    <2>6. BuiltAsSealed'
      BY <2>1, <2>3, <2>4, <2>5 DEF BuiltAsSealed
    <2>7. AttestedAsSealed'
      BY <2>1, <2>4 DEF AttestedAsSealed
    <2> QED BY <2>1, <2>6, <2>7 DEF ParcelShape, ReadyEvidenceIsSealedEvidence
  <1>5. ASSUME NEW kind \in {"INTAKE", "SOURCE_VERIFICATION"}, NEW a \in Artifacts, RevokeEvidence(kind, a)
        PROVE  IntakeInv'
    <2>1. /\ withdrawn' = {<<kind, a>>} /\ readiness = "NONE"
          /\ UNCHANGED <<parcel, intakes, attestations, readiness, edits>>
      BY <1>5 DEF RevokeEvidence
    <2> QED BY <2>1 DEF ParcelShape, BuiltAsSealed, AttestedAsSealed, ReadyEvidenceIsSealedEvidence
  <1>6. CASE EvaluateReadiness
    <2>1. /\ intakes # NothingBuilt
          /\ readiness' = ReadinessState(intakes, attestations, withdrawn,
                                         [a \in Artifacts |-> Extracted(intakes[a])], ExpectedScope)
          /\ UNCHANGED <<parcel, intakes, attestations, withdrawn, edits>>
      BY <1>6 DEF EvaluateReadiness
    <2>2. DOMAIN intakes = Artifacts
      BY <2>1 DEF BuiltAsSealed
    <2>3. ASSUME readiness' = "READY"
          PROVE  ReadyEvidenceIsSealedEvidence'
      <3>1. ASSUME NEW a \in Artifacts
            PROVE  /\ intakes[a].classification = "PRODUCTION" /\ intakes[a].raw = intakes[a].hash
                   /\ intakes[a].known /\ intakes[a].complete
                   /\ \A f \in ScopeFields \cup {"account"} : intakes[a][f] = ExpectedScope[f]
                   /\ <<"INTAKE", a>> \notin withdrawn /\ <<"SOURCE_VERIFICATION", a>> \notin withdrawn
                   /\ a \in DOMAIN attestations /\ attestations[a].verified
                   /\ attestations[a].of.hash = intakes[a].raw
        <4> DEFINE claims == [b \in Artifacts |-> Extracted(intakes[b])]
        <4>1. ReadinessState(intakes, attestations, withdrawn, claims, ExpectedScope) = "READY"
          BY <2>1, <2>3
        <4> HIDE DEF claims
        <4> QED BY <2>2, <4>1, ReadyMeansClean
      <3>2. withdrawn = {}
        <4>1. ASSUME NEW w \in withdrawn
              PROVE  FALSE
          <5>1. PICK kind \in {"INTAKE", "SOURCE_VERIFICATION"}, a \in Artifacts : w = <<kind, a>>
            BY <4>1
          <5> QED BY <3>1, <4>1, <5>1
        <4> QED BY <4>1
      <3>3. DOMAIN ExpectedScope = ScopeFields \cup {"account"}
        BY DEF ExpectedScope, ScopeFields
      <3>4. \A a \in Artifacts : intakes[a].raw = "bytes" /\ intakes[a].source = "vendor"
        BY <2>1, <3>1 DEF BuiltAsSealed, AttestedAsSealed
      <3>5. {parcel.artifacts[b].category : b \in Artifacts} = RequiredCategories
        BY <2>1 DEF BuiltAsSealed
      <3> QED BY <2>1, <3>1, <3>2, <3>3, <3>4, <3>5 DEF ReadyEvidenceIsSealedEvidence
    <2>4. ReadyEvidenceIsSealedEvidence'
      BY <2>3 DEF ReadyEvidenceIsSealedEvidence
    <2> QED BY <2>1, <2>4 DEF ParcelShape, BuiltAsSealed, AttestedAsSealed
  <1>7. CASE UNCHANGED intakeVars
    BY <1>7 DEF intakeVars, ParcelShape, BuiltAsSealed, AttestedAsSealed, ReadyEvidenceIsSealedEvidence
  <1> QED BY <1>1, <1>2, <1>3, <1>4, <1>5, <1>6, <1>7 DEF IntakeNext, ArtifactFields

\* Evidence reaches review only as production material that is byte for byte what was sealed
\* and attested (broker/deriv_evidence_handoff.py, broker/deriv_evidence_intake.py).
THEOREM IntakeSafe ==
    ASSUME ArtifactsAssumption
    PROVE  IntakeSpec => [](IntakeTypeOK /\ ReadyEvidenceIsSealedEvidence)
  <1>1. IntakeInv => IntakeTypeOK
    <2>1. DOMAIN NothingBuilt = {}
      BY DEF NothingBuilt
    <2> QED BY <2>1 DEF IntakeInv, IntakeTypeOK, ParcelShape, BuiltAsSealed, AttestedAsSealed
  <1>2. IntakeInv => ReadyEvidenceIsSealedEvidence
    BY DEF IntakeInv
  <1> QED BY <1>1, <1>2, IntakeStarts, IntakeStep, PTL DEF IntakeSpec

(***************************************************************************)
(* Proof governance.  The comparisons along the chain are between          *)
(* neighbours; for every package of documents, and not only those of the   *)
(* model, they add up to an established lineage, and miss none.            *)
(***************************************************************************)
Reviews == {"REVIEWED", "UNREVIEWED", "REJECTED"}

ArtifactsShape(artifacts) ==
    \A a \in DOMAIN artifacts :
        artifacts[a].review \in Reviews /\ \A c \in artifacts[a].claims : c.review \in Reviews

PackageFields == Documents \cup {"artifacts", "eligibility", "revocations", "registry"}

PackageShape(p) ==
    /\ DOMAIN p = PackageFields
    /\ DOMAIN p.decision = DecisionFields \cup {"state", "reasons"}
    /\ DOMAIN p.assessment = AssessmentFields \cup {"state", "reasons"}
    /\ DOMAIN p.candidate = CandidateFields
    /\ DOMAIN p.verification = CandidateFields \cup {"verification_id", "state", "reasons"}
    /\ DOMAIN p.request = RequestFields
    /\ ArtifactsShape(p.artifacts)

\* Every document says what the request says of a field.
OneStory(p) ==
    \A d \in Documents : \A f \in DOMAIN p[d] \ {"state", "reasons"} :
        f \in DOMAIN p.request /\ p[d][f] = p.request[f]

LEMMA MismatchReasons ==
    ASSUME NEW left, NEW right
    PROVE  /\ SemanticMismatchReasons(left, right) = {} <=> left = right
           /\ "REGISTRATION_CHAIN_COMPLETE" \notin SemanticMismatchReasons(left, right)
  <1> DEFINE differing == {a \in DOMAIN AspectReason : left[a] # right[a]}
  <1>1. SemanticMismatchReasons(left, right) =
          IF left = right THEN {}
          ELSE IF NoSemantics \in {left, right} THEN {"FINANCIAL_SEMANTICS_MISSING"}
          ELSE IF differing = {} THEN {"CANDIDATE_IDENTITY_MISMATCH"}
               ELSE {AspectReason[a] : a \in differing}
    BY DEF SemanticMismatchReasons
  <1>2. \A a \in DOMAIN AspectReason : AspectReason[a] # "REGISTRATION_CHAIN_COMPLETE"
    BY DEF AspectReason
  <1> HIDE DEF differing
  <1>3. differing # {} => {AspectReason[a] : a \in differing} # {}
    OBVIOUS
  <1>4. "REGISTRATION_CHAIN_COMPLETE" \notin {AspectReason[a] : a \in differing}
    BY <1>2 DEF differing
  <1> QED BY <1>1, <1>3, <1>4

\* An eligible lineage: nothing speaks against it.
LEMMA EligibleLineage ==
    ASSUME NEW p
    PROVE  EligibilityReasons(p) = {"REGISTRATION_CHAIN_COMPLETE"} <=>
             /\ ValidAssessment(p.assessment, p.decision, p.artifacts)
             /\ p.assessment.state = "READY" /\ p.decision.state = "APPROVED_FOR_PROOF_REVIEW"
             /\ p.candidate.assessment_id = p.assessment.assessment_id
             /\ p.candidate.decision_id = p.decision.decision_id
             /\ p.candidate.evidence = p.assessment.evidence /\ p.candidate.claims = p.assessment.claims
             /\ p.candidate.scope = p.assessment.scope /\ p.verification.scope = p.candidate.scope
             /\ p.candidate.semantics = p.assessment.semantics
             /\ p.verification.state = "VERIFIED"
             /\ \A f \in VerificationFields : p.verification[f] = p.candidate[f]
             /\ p.candidate.semantics = p.verification.semantics
             /\ ~ReusesRevocationId(p.revocations)
             /\ Revokes(p.revocations, "CANDIDATE", p.candidate.candidate_id) = {}
             /\ Revokes(p.revocations, "INDEPENDENT_VERIFICATION", p.verification.verification_id) = {}
  <1> DEFINE c == p.candidate
             v == p.verification
             semantics == SemanticMismatchReasons(c.semantics, v.semantics)
             upstream == SemanticMismatchReasons(c.semantics, p.assessment.semantics)
             reasons ==
                Flag(~ ValidAssessment(p.assessment, p.decision, p.artifacts), "SOURCE_ASSESSMENT_INVALID")
                \cup Flag(p.assessment.state # "READY", "SOURCE_ASSESSMENT_NOT_READY")
                \cup Flag(p.decision.state # "APPROVED_FOR_PROOF_REVIEW", "ADVISORY_DECISION_NOT_APPROVED")
                \cup Flag(c.assessment_id # p.assessment.assessment_id
                          \/ c.decision_id # p.decision.decision_id, "CANDIDATE_IDENTITY_MISMATCH")
                \cup Flag(c.evidence # p.assessment.evidence, "EVIDENCE_IDENTITY_MISMATCH")
                \cup Flag(c.claims # p.assessment.claims, "CLAIM_SET_MISMATCH")
                \cup Flag(c.scope # p.assessment.scope \/ v.scope # c.scope, "APPLICABILITY_MISMATCH")
                \cup upstream
                \cup Flag(v.state # "VERIFIED", "INDEPENDENT_VERIFICATION_NOT_VERIFIED")
                \cup Flag((\E f \in VerificationFields : v[f] # c[f]) \/ semantics # {},
                          "INDEPENDENT_VERIFICATION_MISMATCH")
                \cup semantics
                \cup Flag(ReusesRevocationId(p.revocations), "REVOCATION_RECORD_CONFLICT")
                \cup Flag(Revokes(p.revocations, "CANDIDATE", c.candidate_id) # {}, "CANDIDATE_REVOKED")
                \cup Flag(Revokes(p.revocations, "INDEPENDENT_VERIFICATION", v.verification_id) # {},
                          "INDEPENDENT_VERIFICATION_REVOKED")
  <1>1. EligibilityReasons(p) = ReasonsOr(reasons, "REGISTRATION_CHAIN_COMPLETE")
    BY DEF EligibilityReasons
  <1>2. /\ semantics = {} <=> c.semantics = v.semantics
        /\ upstream = {} <=> c.semantics = p.assessment.semantics
        /\ "REGISTRATION_CHAIN_COMPLETE" \notin semantics \cup upstream
    BY MismatchReasons
  <1> HIDE DEF semantics, upstream
  <1>3. "REGISTRATION_CHAIN_COMPLETE" \notin reasons
    BY <1>2 DEF Flag
  <1>4. EligibilityReasons(p) = {"REGISTRATION_CHAIN_COMPLETE"} <=> reasons = {}
    <2> HIDE DEF reasons
    <2> QED BY <1>1, <1>3 DEF ReasonsOr
  <1>5. reasons = {} <=>
          /\ ValidAssessment(p.assessment, p.decision, p.artifacts)
          /\ p.assessment.state = "READY" /\ p.decision.state = "APPROVED_FOR_PROOF_REVIEW"
          /\ c.assessment_id = p.assessment.assessment_id
          /\ c.decision_id = p.decision.decision_id
          /\ c.evidence = p.assessment.evidence /\ c.claims = p.assessment.claims
          /\ c.scope = p.assessment.scope /\ v.scope = c.scope
          /\ upstream = {} /\ v.state = "VERIFIED"
          /\ \A f \in VerificationFields : v[f] = c[f]
          /\ semantics = {}
          /\ ~ReusesRevocationId(p.revocations)
          /\ Revokes(p.revocations, "CANDIDATE", c.candidate_id) = {}
          /\ Revokes(p.revocations, "INDEPENDENT_VERIFICATION", v.verification_id) = {}
    BY DEF Flag
  <1> QED BY <1>2, <1>4, <1>5

\* What an evidence review that found nothing has seen.
LEMMA CompleteEvidence ==
    ASSUME NEW d, NEW artifacts
    PROVE  ObservedEvidenceReasons(d, artifacts) = {"EVIDENCE_SET_COMPLETE"} <=>
             LET selected == SelectedClaims(d, artifacts)
             IN /\ d.evidence # <<>> /\ d.claims # <<>>
                /\ \A k \in DOMAIN d.claims : \E c \in selected : c.claim_id = d.claims[k]
                /\ \A i \in DOMAIN d.evidence :
                      /\ d.evidence[i].artifact \in DOMAIN artifacts
                      /\ artifacts[d.evidence[i].artifact].hash = d.evidence[i].hash
                      /\ artifacts[d.evidence[i].artifact].review \notin {"REJECTED", "UNREVIEWED"}
                /\ \A c \in selected : c.review \notin {"REJECTED", "UNREVIEWED"} /\ c.scope = d.scope
                /\ \A c, e \in selected : <<c.kind, c.scope>> = <<e.kind, e.scope>> => c.value = e.value
                /\ d.semantics # NoSemantics =>
                      \E c \in selected : c.kind = "LOSS_MODEL" /\ c.value = d.semantics
  <1> DEFINE cited == Cited(d, artifacts)
             Artifact(i) == artifacts[d.evidence[i].artifact]
             selected == SelectedClaims(d, artifacts)
             reasons ==
                Flag(d.evidence = <<>> \/ d.claims = <<>>, "MISSING_REQUIRED_CLAIM")
                \cup Flag(\E k \in DOMAIN d.claims : \A c \in selected : c.claim_id # d.claims[k],
                          "MISSING_REQUIRED_CLAIM")
                \cup Flag(cited # DOMAIN d.evidence \/ \E i \in cited : Artifact(i).hash # d.evidence[i].hash,
                          "CONTENT_IDENTITY_MISMATCH")
                \cup Flag(\E i \in cited : Artifact(i).review = "REJECTED", "ARTIFACT_REJECTED")
                \cup Flag(\E i \in cited : Artifact(i).review = "UNREVIEWED", "ARTIFACT_UNREVIEWED")
                \cup Flag(\E c \in selected : c.review = "REJECTED", "CLAIM_REJECTED")
                \cup Flag(\E c \in selected : c.review = "UNREVIEWED", "CLAIM_UNREVIEWED")
                \cup Flag(\E c \in selected : c.scope # d.scope, "APPLICABILITY_MISMATCH")
                \cup Flag(\E c, e \in selected :
                             <<c.kind, c.scope>> = <<e.kind, e.scope>> /\ c.value # e.value,
                          "DUPLICATE_OR_CONFLICTING_CLAIM")
                \cup Flag(d.semantics # NoSemantics
                          /\ ~ \E c \in selected : c.kind = "LOSS_MODEL" /\ c.value = d.semantics,
                          "MISSING_REQUIRED_CLAIM")
  <1>1. ObservedEvidenceReasons(d, artifacts) = ReasonsOr(reasons, "EVIDENCE_SET_COMPLETE")
    BY DEF ObservedEvidenceReasons
  <1>2. cited = DOMAIN d.evidence <=> \A i \in DOMAIN d.evidence : d.evidence[i].artifact \in DOMAIN artifacts
    BY DEF Cited
  <1> HIDE DEF cited, selected
  <1>3. "EVIDENCE_SET_COMPLETE" \notin reasons
    BY DEF Flag
  <1>4. ObservedEvidenceReasons(d, artifacts) = {"EVIDENCE_SET_COMPLETE"} <=> reasons = {}
    <2> HIDE DEF reasons
    <2> QED BY <1>1, <1>3 DEF ReasonsOr
  <1>5. reasons = {} <=>
          /\ ~(d.evidence = <<>> \/ d.claims = <<>>)
          /\ ~(\E k \in DOMAIN d.claims : \A c \in selected : c.claim_id # d.claims[k])
          /\ ~(cited # DOMAIN d.evidence \/ \E i \in cited : Artifact(i).hash # d.evidence[i].hash)
          /\ ~(\E i \in cited : Artifact(i).review = "REJECTED")
          /\ ~(\E i \in cited : Artifact(i).review = "UNREVIEWED")
          /\ ~(\E c \in selected : c.review = "REJECTED")
          /\ ~(\E c \in selected : c.review = "UNREVIEWED")
          /\ ~(\E c \in selected : c.scope # d.scope)
          /\ ~(\E c, e \in selected : <<c.kind, c.scope>> = <<e.kind, e.scope>> /\ c.value # e.value)
          /\ ~(d.semantics # NoSemantics
               /\ ~ \E c \in selected : c.kind = "LOSS_MODEL" /\ c.value = d.semantics)
    BY DEF Flag
  <1> HIDE DEF reasons
  <1> QED BY <1>2, <1>4, <1>5 DEF selected

\* An assessment of an approved decision that gives no reason is valid exactly if the two
\* agree and the evidence bears the decision out.
LEMMA ApprovedAssessment ==
    ASSUME NEW a, NEW d, NEW artifacts,
           d.state = "APPROVED_FOR_PROOF_REVIEW", d.reasons = {"EVIDENCE_SET_COMPLETE"},
           a.state = "READY", a.reasons = {"REVIEW_PACKAGE_CONSISTENT"}
    PROVE  ValidAssessment(a, d, artifacts) <=>
             /\ a.decision_id = d.decision_id /\ a.evidence = d.evidence /\ a.semantics = d.semantics
             /\ a.claims = d.claims /\ a.scope = d.scope
             /\ ObservedEvidenceReasons(d, artifacts) = {"EVIDENCE_SET_COMPLETE"}
  <1>1. ReviewStands(d)
    BY DEF ReviewStands
  <1>2. ValidReview(d, artifacts) <=> ObservedEvidenceReasons(d, artifacts) = {"EVIDENCE_SET_COMPLETE"}
    BY <1>1 DEF ValidReview
  <1> DEFINE identity ==
                Flag(a.decision_id # d.decision_id \/ a.evidence # d.evidence
                     \/ a.semantics # d.semantics, "EVIDENCE_IDENTITY_MISMATCH")
                \cup Flag(a.claims # d.claims, "CLAIM_SET_MISMATCH")
                \cup Flag(a.scope # d.scope, "APPLICABILITY_MISMATCH")
                \cup Flag(~ ValidReview(d, artifacts), "REVIEW_DECISION_STALE")
  <1>3. ValidAssessment(a, d, artifacts) <=> identity = {}
    <2> HIDE DEF identity
    <2>1. ReasonsOr({}, "REVIEW_PACKAGE_CONSISTENT") = {"REVIEW_PACKAGE_CONSISTENT"}
      BY DEF ReasonsOr
    <2> QED BY <2>1 DEF ValidAssessment, identity
  <1>4. identity = {} <=>
          /\ ~(a.decision_id # d.decision_id \/ a.evidence # d.evidence \/ a.semantics # d.semantics)
          /\ ~(a.claims # d.claims) /\ ~(a.scope # d.scope) /\ ValidReview(d, artifacts)
    BY DEF Flag
  <1> HIDE DEF identity
  <1> QED BY <1>2, <1>3, <1>4

\* What an admission compares.
LEMMA CleanAdmission ==
    ASSUME NEW p
    PROVE  AdmissionReasons(p) = {} <=>
             /\ p.eligibility = {"REGISTRATION_CHAIN_COMPLETE"}
             /\ EligibilityReasons(p) = {"REGISTRATION_CHAIN_COMPLETE"}
             /\ p.request.candidate_id = p.candidate.candidate_id
             /\ p.request.material_hash = p.candidate.material_hash
             /\ p.request.verification_id = p.verification.verification_id
             /\ p.request.assessment_id = p.assessment.assessment_id
             /\ p.request.decision_id = p.decision.decision_id
             /\ p.request.evidence = p.candidate.evidence /\ p.request.claims = p.candidate.claims
             /\ p.request.scope = p.candidate.scope
             /\ \A f \in {"loss_model_id", "loss_model_version", "evidence_source_id",
                          "valid_from", "valid_until"} : p.request[f] = p.candidate[f]
             /\ p.request.semantics = p.candidate.semantics
             /\ \A d \in {"verification", "assessment", "decision"} :
                   p[d].semantics = p.candidate.semantics
             /\ ~ReusesRevocationId(p.revocations)
             /\ Revokes(p.revocations, "CANDIDATE", p.request.candidate_id) = {}
             /\ Revokes(p.revocations, "INDEPENDENT_VERIFICATION", p.verification.verification_id) = {}
             /\ Revokes(p.revocations, "REGISTERED_PROOF", p.request.proof_id) = {}
  <1> DEFINE q == p.request
             c == p.candidate
             v == p.verification
             revoked == Revokes(p.revocations, "INDEPENDENT_VERIFICATION", v.verification_id)
             superseded == {IF r.reason = "SUPERSEDED" THEN "VERIFICATION_SUPERSEDED"
                                                       ELSE "VERIFICATION_REVOKED" : r \in revoked}
  <1>1. ValidateRevocations(q, v, p.revocations) = {} <=>
          /\ ~ReusesRevocationId(p.revocations)
          /\ Revokes(p.revocations, "CANDIDATE", q.candidate_id) = {}
          /\ revoked = {}
          /\ Revokes(p.revocations, "REGISTERED_PROOF", q.proof_id) = {}
    <2>1. superseded = {} <=> revoked = {}
      <3> HIDE DEF revoked
      <3> QED OBVIOUS
    <2>2. ValidateRevocations(q, v, p.revocations) =
            Flag(ReusesRevocationId(p.revocations), "REVOCATION_RECORD_CONFLICT")
            \cup Flag(Revokes(p.revocations, "CANDIDATE", q.candidate_id) # {}, "CANDIDATE_REVOKED")
            \cup superseded
            \cup Flag(Revokes(p.revocations, "REGISTERED_PROOF", q.proof_id) # {}, "PROOF_REVOKED")
      BY DEF ValidateRevocations
    <2> HIDE DEF superseded, revoked
    <2> QED BY <2>1, <2>2 DEF Flag
  <1>2. AdmissionReasons(p) = {} <=>
          /\ p.eligibility = {"REGISTRATION_CHAIN_COMPLETE"}
          /\ {EligibilityReasons(p), p.eligibility} = {{"REGISTRATION_CHAIN_COMPLETE"}}
          /\ q.candidate_id = c.candidate_id /\ q.material_hash = c.material_hash
          /\ q.verification_id = v.verification_id
          /\ q.assessment_id = p.assessment.assessment_id /\ q.decision_id = p.decision.decision_id
          /\ q.evidence = c.evidence /\ q.claims = c.claims /\ q.scope = c.scope
          /\ ~(\/ \E f \in {"loss_model_id", "loss_model_version", "evidence_source_id",
                              "valid_from", "valid_until"} : q[f] # c[f]
               \/ q.semantics # c.semantics
               \/ \E d \in {"verification", "assessment", "decision"} : p[d].semantics # c.semantics)
          /\ ValidateRevocations(q, v, p.revocations) = {}
    BY DEF AdmissionReasons, Flag
  <1>3. {EligibilityReasons(p), p.eligibility} = {{"REGISTRATION_CHAIN_COMPLETE"}} <=>
          /\ EligibilityReasons(p) = {"REGISTRATION_CHAIN_COMPLETE"}
          /\ p.eligibility = {"REGISTRATION_CHAIN_COMPLETE"}
    OBVIOUS
  <1> QED BY <1>1, <1>2, <1>3

\* Documents that tell one story agree with one another, and the reverse.
LEMMA OneStoryIsAgreement ==
    ASSUME NEW p, PackageShape(p)
    PROVE  OneStory(p) <=> \A d, e \in Documents : Agree(p[d], p[e])
  <1>1. /\ "request" \in Documents
        /\ \A d \in Documents : DOMAIN p[d] \ {"state", "reasons"} \subseteq DOMAIN p.request
    BY DEF PackageShape, Documents, DecisionFields, AssessmentFields, CandidateFields, VerificationFields,
           RequestFields, Lineage
  <1>2. ASSUME OneStory(p), NEW d \in Documents, NEW e \in Documents
        PROVE  Agree(p[d], p[e])
    BY <1>2 DEF OneStory, Agree
  <1>3. ASSUME \A d, e \in Documents : Agree(p[d], p[e])
        PROVE  OneStory(p)
    <2>1. \A d \in Documents : Agree(p[d], p["request"])
      BY <1>1, <1>3
    <2> QED BY <1>1, <2>1 DEF OneStory, Agree
  <1> QED BY <1>2, <1>3

\* An admission is of an established lineage, whatever the documents.
LEMMA AdmittedIsEstablished ==
    ASSUME NEW p, PackageShape(p), DocumentsOK(p), AdmissionReasons(p) = {}
    PROVE  Established(p)
  <1>1. EligibilityReasons(p) = {"REGISTRATION_CHAIN_COMPLETE"}
    BY CleanAdmission
  <1>2. /\ ValidAssessment(p.assessment, p.decision, p.artifacts)
        /\ p.assessment.state = "READY" /\ p.decision.state = "APPROVED_FOR_PROOF_REVIEW"
        /\ p.verification.state = "VERIFIED"
    BY <1>1, EligibleLineage
  <1>3. /\ p.decision.reasons = {"EVIDENCE_SET_COMPLETE"}
        /\ p.assessment.reasons = {"REVIEW_PACKAGE_CONSISTENT"}
    BY <1>2 DEF DocumentsOK, DecisionOK, AssessmentOK
  <1>4. /\ p.assessment.decision_id = p.decision.decision_id /\ p.assessment.evidence = p.decision.evidence
        /\ p.assessment.semantics = p.decision.semantics
        /\ p.assessment.claims = p.decision.claims /\ p.assessment.scope = p.decision.scope
        /\ ObservedEvidenceReasons(p.decision, p.artifacts) = {"EVIDENCE_SET_COMPLETE"}
    BY <1>2, <1>3, ApprovedAssessment
  <1>5. OneStory(p)
    <2>1. \A f \in DOMAIN p.candidate : f \in DOMAIN p.request /\ p.candidate[f] = p.request[f]
      BY <1>1, CleanAdmission, EligibleLineage
      DEF PackageShape, CandidateFields, VerificationFields, RequestFields, Lineage
    <2>2. \A f \in DOMAIN p.verification \ {"state", "reasons"} :
             f \in DOMAIN p.request /\ p.verification[f] = p.request[f]
      BY <1>1, <2>1, CleanAdmission, EligibleLineage
      DEF PackageShape, CandidateFields, VerificationFields, RequestFields, Lineage
    <2>3. \A f \in DOMAIN p.assessment \ {"state", "reasons"} :
             f \in DOMAIN p.request /\ p.assessment[f] = p.request[f]
      BY <1>1, <1>4, CleanAdmission, EligibleLineage
      DEF PackageShape, AssessmentFields, DecisionFields, RequestFields, Lineage
    <2>4. \A f \in DOMAIN p.decision \ {"state", "reasons"} :
             f \in DOMAIN p.request /\ p.decision[f] = p.request[f]
      BY <1>1, <1>4, CleanAdmission, EligibleLineage
      DEF PackageShape, DecisionFields, RequestFields, Lineage
    <2> QED BY <2>1, <2>2, <2>3, <2>4 DEF OneStory, Documents
  <1>6. \A d, e \in Documents : Agree(p[d], p[e])
    BY <1>5, OneStoryIsAgreement
  <1> DEFINE filed == SelectedClaims(p.decision, p.artifacts)
  <1>7. /\ \A k \in DOMAIN p.decision.claims : \E c \in filed : c.claim_id = p.decision.claims[k]
        /\ \A i \in DOMAIN p.decision.evidence :
              /\ p.decision.evidence[i].artifact \in DOMAIN p.artifacts
              /\ p.artifacts[p.decision.evidence[i].artifact].hash = p.decision.evidence[i].hash
              /\ p.artifacts[p.decision.evidence[i].artifact].review \notin {"REJECTED", "UNREVIEWED"}
        /\ \A c \in filed : c.review \notin {"REJECTED", "UNREVIEWED"} /\ c.scope = p.decision.scope
        /\ \A c, e \in filed : <<c.kind, c.scope>> = <<e.kind, e.scope>> => c.value = e.value
        /\ p.decision.semantics # NoSemantics =>
              \E c \in filed : c.kind = "LOSS_MODEL" /\ c.value = p.decision.semantics
    BY <1>4, CompleteEvidence
  <1>8. /\ \A i \in DOMAIN p.decision.evidence :
              p.artifacts[p.decision.evidence[i].artifact].review = "REVIEWED"
        /\ \A c \in filed : c.review \in Reviews
    <2>1. \A a \in DOMAIN p.artifacts :
             p.artifacts[a].review \in Reviews /\ \A c \in p.artifacts[a].claims : c.review \in Reviews
      BY DEF PackageShape, ArtifactsShape
    <2>2. ASSUME NEW c \in filed
          PROVE  \E a \in DOMAIN p.artifacts : c \in p.artifacts[a].claims
      <3>1. c \in UNION {p.artifacts[p.decision.evidence[i].artifact].claims : i \in Cited(p.decision, p.artifacts)}
        BY <2>2 DEF SelectedClaims
      <3>2. PICK i \in Cited(p.decision, p.artifacts) : c \in p.artifacts[p.decision.evidence[i].artifact].claims
        BY <3>1
      <3> QED BY <3>2 DEF Cited
    <2> HIDE DEF filed
    <2>3. \A c \in filed : c.review \in Reviews
      BY <2>1, <2>2
    <2>4. ASSUME NEW i \in DOMAIN p.decision.evidence
          PROVE  p.artifacts[p.decision.evidence[i].artifact].review = "REVIEWED"
      BY <1>7, <2>1 DEF Reviews
    <2> QED BY <2>3, <2>4
  <1> HIDE DEF filed
  <1>9. /\ {p.decision.claims[k] : k \in DOMAIN p.decision.claims} \subseteq {c.claim_id : c \in filed}
        /\ \A c \in filed : c.review = "REVIEWED" /\ c.scope = p.decision.scope
        /\ \A c, e \in filed : c.kind = e.kind => c.value = e.value
    BY <1>7, <1>8 DEF Reviews
  <1>10. /\ Revokes(p.revocations, "CANDIDATE", p.candidate.candidate_id) = {}
         /\ Revokes(p.revocations, "INDEPENDENT_VERIFICATION", p.verification.verification_id) = {}
         /\ Revokes(p.revocations, "REGISTERED_PROOF", p.request.proof_id) = {}
    BY <1>1, CleanAdmission, EligibleLineage
  <1> QED BY <1>2, <1>6, <1>7, <1>8, <1>9, <1>10 DEF Established, filed

\* And an established lineage is admitted to an empty registry.
LEMMA EstablishedIsAdmitted ==
    ASSUME NEW p, PackageShape(p), DocumentsOK(p), Established(p), ~ReusesRevocationId(p.revocations),
           p.eligibility = {"REGISTRATION_CHAIN_COMPLETE"}
    PROVE  AdmissionReasons(p) = {}
  <1>1. OneStory(p)
    BY OneStoryIsAgreement DEF Established
  <1>2. /\ p.decision.state = "APPROVED_FOR_PROOF_REVIEW" /\ p.assessment.state = "READY"
        /\ p.verification.state = "VERIFIED"
    BY DEF Established
  <1>3. /\ p.decision.reasons = {"EVIDENCE_SET_COMPLETE"} /\ p.decision.evidence # <<>> /\ p.decision.claims # <<>>
        /\ p.assessment.reasons = {"REVIEW_PACKAGE_CONSISTENT"}
    BY <1>2 DEF DocumentsOK, DecisionOK, AssessmentOK
  <1>4. /\ \A f \in DecisionFields : p.decision[f] = p.request[f]
        /\ \A f \in AssessmentFields : p.assessment[f] = p.request[f]
        /\ \A f \in CandidateFields : p.candidate[f] = p.request[f]
        /\ \A f \in CandidateFields \cup {"verification_id"} : p.verification[f] = p.request[f]
    BY <1>1 DEF OneStory, PackageShape, Documents, DecisionFields, AssessmentFields, CandidateFields,
                VerificationFields
  <1>5. ObservedEvidenceReasons(p.decision, p.artifacts) = {"EVIDENCE_SET_COMPLETE"}
    <2> DEFINE filed == SelectedClaims(p.decision, p.artifacts)
    <2>1. /\ {p.decision.claims[k] : k \in DOMAIN p.decision.claims} \subseteq {c.claim_id : c \in filed}
          /\ \A i \in DOMAIN p.decision.evidence :
                /\ p.decision.evidence[i].artifact \in DOMAIN p.artifacts
                /\ p.artifacts[p.decision.evidence[i].artifact].hash = p.decision.evidence[i].hash
                /\ p.artifacts[p.decision.evidence[i].artifact].review = "REVIEWED"
          /\ \A c \in filed : c.review = "REVIEWED" /\ c.scope = p.decision.scope
          /\ \A c, e \in filed : c.kind = e.kind => c.value = e.value
          /\ p.decision.semantics # NoSemantics =>
                \E c \in filed : c.kind = "LOSS_MODEL" /\ c.value = p.decision.semantics
      BY DEF Established
    <2> HIDE DEF filed
    <2>2. \A k \in DOMAIN p.decision.claims : \E c \in filed : c.claim_id = p.decision.claims[k]
      BY <2>1
    <2>3. \A c, e \in filed : <<c.kind, c.scope>> = <<e.kind, e.scope>> => c.value = e.value
      BY <2>1
    <2> QED BY <1>3, <2>1, <2>2, <2>3, CompleteEvidence DEF filed
  <1>6. ValidAssessment(p.assessment, p.decision, p.artifacts)
    <2>1. /\ p.assessment.decision_id = p.decision.decision_id /\ p.assessment.evidence = p.decision.evidence
          /\ p.assessment.semantics = p.decision.semantics
          /\ p.assessment.claims = p.decision.claims /\ p.assessment.scope = p.decision.scope
      BY <1>4 DEF DecisionFields, AssessmentFields
    <2> QED BY <1>2, <1>3, <1>5, <2>1, ApprovedAssessment
  <1>7. /\ Revokes(p.revocations, "CANDIDATE", p.candidate.candidate_id) = {}
        /\ Revokes(p.revocations, "INDEPENDENT_VERIFICATION", p.verification.verification_id) = {}
        /\ Revokes(p.revocations, "REGISTERED_PROOF", p.request.proof_id) = {}
    BY DEF Established
  <1>8. EligibilityReasons(p) = {"REGISTRATION_CHAIN_COMPLETE"}
    BY <1>2, <1>4, <1>6, <1>7, EligibleLineage
    DEF DecisionFields, AssessmentFields, CandidateFields, VerificationFields
  <1> QED BY <1>4, <1>7, <1>8, CleanAdmission
      DEF DecisionFields, AssessmentFields, CandidateFields, VerificationFields

ChainSpec == ChainInit /\ [][ChainNext]_chainVars

OneRevocationAtMost(revocations) == revocations = {} \/ \E r : revocations = {r}

ChainInv ==
    /\ PackageShape(package) /\ DocumentsOK(package)
    /\ OneRevocationAtMost(package.revocations)
    /\ RegistryStateOK(package.registry)
    /\ admissionResult \in {"NONE", "ADMITTED", "ALREADY_ADMITTED", "REJECTED"}
    /\ attempts \in 0 .. ChainAttempts

\* The packages of the model have their shape: a slip or a verdict changes no field set.
FreshPackage(p) == PackageShape(p) /\ p.revocations = {} /\ p.registry = {}

LEMMA HonestIsFresh == FreshPackage(Honest)
  <1>1. ASSUME NEW document, NEW state, NEW reasons
        PROVE  DOMAIN Judged(document, state, reasons) = DOMAIN document \cup {"state", "reasons"}
    BY DEF Judged
  <1>2. \A fields : DOMAIN Carrying(fields) = fields
    BY DEF Carrying
  <1>3. ArtifactsShape(HonestArtifacts)
    BY DEF ArtifactsShape, HonestArtifacts, ArtifactOf, LossClaim, StakeClaim, Reviews
  <1>4. /\ DOMAIN Honest = PackageFields
        /\ Honest.decision = Judged(Carrying(DecisionFields), "APPROVED_FOR_PROOF_REVIEW",
                                    {"EVIDENCE_SET_COMPLETE"})
        /\ Honest.assessment = Judged(Carrying(AssessmentFields), "READY", {"REVIEW_PACKAGE_CONSISTENT"})
        /\ Honest.candidate = Carrying(CandidateFields)
        /\ Honest.verification = Judged(Carrying(CandidateFields \cup {"verification_id"}), "VERIFIED",
                                        {"CANDIDATE_INDEPENDENTLY_VERIFIED"})
        /\ Honest.request = Carrying(RequestFields) /\ Honest.artifacts = HonestArtifacts
        /\ Honest.revocations = {} /\ Honest.registry = {}
    BY DEF Honest, PackageFields, Documents
  <1>5. /\ DOMAIN Honest.decision = DecisionFields \cup {"state", "reasons"}
        /\ DOMAIN Honest.assessment = AssessmentFields \cup {"state", "reasons"}
        /\ DOMAIN Honest.candidate = CandidateFields
        /\ DOMAIN Honest.verification = CandidateFields \cup {"verification_id", "state", "reasons"}
        /\ DOMAIN Honest.request = RequestFields
    <2>1. DOMAIN Honest.decision = DecisionFields \cup {"state", "reasons"}
      <3>1. DOMAIN Judged(Carrying(DecisionFields), "APPROVED_FOR_PROOF_REVIEW", {"EVIDENCE_SET_COMPLETE"})
              = DOMAIN Carrying(DecisionFields) \cup {"state", "reasons"}
        BY DEF Judged
      <3> QED BY <1>2, <1>4, <3>1
    <2>2. DOMAIN Honest.assessment = AssessmentFields \cup {"state", "reasons"}
      <3>1. DOMAIN Judged(Carrying(AssessmentFields), "READY", {"REVIEW_PACKAGE_CONSISTENT"})
              = DOMAIN Carrying(AssessmentFields) \cup {"state", "reasons"}
        BY DEF Judged
      <3> QED BY <1>2, <1>4, <3>1
    <2>3. DOMAIN Honest.candidate = CandidateFields /\ DOMAIN Honest.request = RequestFields
      BY <1>2, <1>4
    <2>4. DOMAIN Honest.verification = (CandidateFields \cup {"verification_id"}) \cup {"state", "reasons"}
      <3>1. DOMAIN Judged(Carrying(CandidateFields \cup {"verification_id"}), "VERIFIED", {"CANDIDATE_INDEPENDENTLY_VERIFIED"})
              = DOMAIN Carrying(CandidateFields \cup {"verification_id"}) \cup {"state", "reasons"}
        BY DEF Judged
      <3> QED BY <1>2, <1>4, <3>1
    <2> QED BY <2>1, <2>2, <2>3, <2>4
  <1> QED BY <1>3, <1>4, <1>5 DEF FreshPackage, PackageShape

LEMMA WritingKeepsShape ==
    ASSUME NEW p, FreshPackage(p)
    PROVE  /\ \A slip : \A ds \in SUBSET Documents : FreshPackage(Written(p, ds, slip))
           /\ \A v \in Verdicts : FreshPackage(Judgement(p, v))
           /\ \A reasons : FreshPackage([p EXCEPT !.eligibility = reasons])
           /\ \A artifacts : ArtifactsShape(artifacts) => FreshPackage([p EXCEPT !.artifacts = artifacts])
  <1> USE DEF FreshPackage, PackageShape
  <1>1. ASSUME NEW ds \in SUBSET Documents, NEW slip
        PROVE  FreshPackage(Written(p, ds, slip))
    <2> DEFINE w == Written(p, ds, slip)
    <2>1. DOMAIN w = DOMAIN p /\ \A d \in DOMAIN p : d \notin ds => w[d] = p[d]
      BY DEF Written
    <2>2. \A d \in DOMAIN p : d \in ds => DOMAIN w[d] = DOMAIN p[d]
      BY DEF Written
    <2> HIDE DEF w
    <2>3. \A d \in Documents : d \in DOMAIN p /\ DOMAIN w[d] = DOMAIN p[d]
      BY <2>1, <2>2 DEF PackageFields
    <2>4. w.artifacts = p.artifacts /\ w.revocations = p.revocations /\ w.registry = p.registry
      BY <2>1 DEF PackageFields, Documents
    <2>5. FreshPackage(w)
      BY <2>1, <2>3, <2>4 DEF Documents
    <2> QED BY <2>5 DEF w
  <1>2. ASSUME NEW v \in Verdicts
        PROVE  FreshPackage(Judgement(p, v))
    <2>1. v[1] \in Documents
      BY DEF Verdicts, Documents
    <2> DEFINE w == Judgement(p, v)
    <2>2. DOMAIN w = DOMAIN p /\ \A d \in DOMAIN p : DOMAIN w[d] = DOMAIN p[d] /\ (d # v[1] => w[d] = p[d])
      BY DEF Judgement
    <2> HIDE DEF w
    <2>3. \A d \in Documents : d \in DOMAIN p /\ DOMAIN w[d] = DOMAIN p[d]
      BY <2>2 DEF PackageFields
    <2>4. w.artifacts = p.artifacts /\ w.revocations = p.revocations /\ w.registry = p.registry
      BY <2>1, <2>2 DEF PackageFields, Documents
    <2>5. FreshPackage(w)
      BY <2>2, <2>3, <2>4 DEF Documents
    <2> QED BY <2>5 DEF w
  <1>3. ASSUME NEW reasons
        PROVE  FreshPackage([p EXCEPT !.eligibility = reasons])
    BY DEF PackageFields, Documents
  <1>4. ASSUME NEW artifacts, ArtifactsShape(artifacts)
        PROVE  FreshPackage([p EXCEPT !.artifacts = artifacts])
    BY <1>4 DEF PackageFields, Documents
  <1> QED BY <1>1, <1>2, <1>3, <1>4

LEMMA SlippedArtifacts == \A artifacts \in ArtifactSlips : ArtifactsShape(artifacts)
  <1>1. /\ DOMAIN HonestArtifacts = {"a1", "a2"} /\ DOMAIN HonestArtifacts.a2 = {"hash", "review", "claims"}
        /\ HonestArtifacts.a1.review = "REVIEWED" /\ HonestArtifacts.a2.review = "REVIEWED"
        /\ \A a \in {"a1", "a2"} : \A c \in HonestArtifacts[a].claims : c.review = "REVIEWED"
    BY DEF HonestArtifacts, ArtifactOf, LossClaim, StakeClaim
  <1>2. ASSUME NEW r \in Reviews, NEW sem, NEW k \in Reviews, NEW x
        PROVE  ArtifactsShape([HonestArtifacts EXCEPT !.a1 = ArtifactOf("h1", r, {LossClaim(sem, k, x)})])
    BY <1>1 DEF ArtifactsShape, ArtifactOf, LossClaim, Reviews
  <1>3. ASSUME NEW sem, NEW i
        PROVE  ArtifactsShape([HonestArtifacts EXCEPT !.a2.claims = {StakeClaim("c2", sem, "REVIEWED"),
                                                                     StakeClaim(i, Sem, "REVIEWED")}])
    BY <1>1 DEF ArtifactsShape, StakeClaim, Reviews
  <1> QED BY <1>2, <1>3 DEF ArtifactSlips, Reviews

LEMMA PackagesAreFresh == \A p \in Packages : FreshPackage(p) /\ DocumentsOK(p)
  <1>1. ASSUME NEW p \in Slipped
        PROVE  FreshPackage(p)
    <2>1. CASE \E ds \in SUBSET Documents, slip \in Slips : p = Written(Honest, ds, slip)
      BY <2>1, HonestIsFresh, WritingKeepsShape
    <2>2. CASE \E v \in Verdicts : p = Judgement(Honest, v)
      BY <2>2, HonestIsFresh, WritingKeepsShape
    <2>3. CASE \E v, w \in Verdicts : p = Judgement(Judgement(Honest, v), w)
      <3>1. PICK v \in Verdicts, w \in Verdicts : p = Judgement(Judgement(Honest, v), w)
        BY <2>3
      <3>2. FreshPackage(Judgement(Honest, v))
        BY HonestIsFresh, WritingKeepsShape
      <3> QED BY <3>1, <3>2, WritingKeepsShape
    <2>4. CASE p = [Honest EXCEPT !.eligibility = {"CANDIDATE_REVOKED"}]
      BY <2>4, HonestIsFresh, WritingKeepsShape
    <2>5. {ds \in SUBSET Documents : Cardinality(ds) \in {1, 2, 5}} \subseteq SUBSET Documents
      OBVIOUS
    <2> QED BY <2>1, <2>2, <2>3, <2>4, <2>5 DEF Slipped
  <1>2. ASSUME NEW v \in Verdicts, NEW a \in ArtifactSlips
        PROVE  FreshPackage([Judgement(Honest, v) EXCEPT !.artifacts = a])
    BY HonestIsFresh, WritingKeepsShape, SlippedArtifacts
  <1>3. ASSUME NEW ds \in {{}, Documents}, NEW slip, NEW a \in ArtifactSlips
        PROVE  FreshPackage([Written(Honest, ds, slip) EXCEPT !.artifacts = a])
    BY HonestIsFresh, WritingKeepsShape, SlippedArtifacts
  <1>4. ASSUME NEW p \in Packages
        PROVE  FreshPackage(p) /\ DocumentsOK(p)
    <2> DEFINE judged == {[Judgement(Honest, v) EXCEPT !.artifacts = a] : v \in Verdicts, a \in ArtifactSlips}
               written == {[Written(Honest, ds, OneSlip("claims", c)) EXCEPT !.artifacts = a] :
                             ds \in {{}, Documents}, c \in {<<"c1">>, <<"c1", "c2", "c3">>}, a \in ArtifactSlips}
    <2>1. DocumentsOK(p) /\ p \in Slipped \cup judged \cup written
      BY DEF Packages
    <2>2. \A q \in judged : FreshPackage(q)
      BY <1>2
    <2>3. \A q \in written : FreshPackage(q)
      BY <1>3
    <2> HIDE DEF judged, written
    <2> QED BY <1>1, <2>1, <2>2, <2>3
  <1> QED BY <1>4

LEMMA ChainStarts ==
    ASSUME ChainAttemptsAssumption, ChainInit
    PROVE  ChainInv
  <1>1. FreshPackage(package) /\ DocumentsOK(package)
    BY PackagesAreFresh DEF ChainInit
  <1> QED BY <1>1 DEF ChainInit, ChainInv, FreshPackage, OneRevocationAtMost, RegistryStateOK,
                      ChainAttemptsAssumption

\* Documents keep their shape, whatever the registry and the revocations hold, and with
\* another identity on the request or evidence withdrawn.
LEMMA DocumentsStand ==
    ASSUME NEW p, PackageShape(p), DocumentsOK(p), NEW q, DOMAIN q = DOMAIN p,
           \A d \in DOMAIN p : d \notin {"registry", "revocations"} => q[d] = p[d]
    PROVE  PackageShape(q) /\ DocumentsOK(q)
  <1>1. \A d \in Documents \cup {"artifacts"} : q[d] = p[d]
    BY DEF PackageShape, PackageFields, Documents
  <1>2. /\ q.decision = p.decision /\ q.assessment = p.assessment /\ q.candidate = p.candidate
        /\ q.verification = p.verification /\ q.request = p.request /\ q.artifacts = p.artifacts
    BY <1>1 DEF Documents
  <1> QED BY <1>2 DEF PackageShape, DocumentsOK

LEMMA ShapeStands ==
    ASSUME NEW p, PackageShape(p), DocumentsOK(p)
    PROVE  /\ \A f \in {"admission_id", "proof_id"} :
                LET q == [p EXCEPT !.request[f] = "two"]
                IN  /\ PackageShape(q) /\ DocumentsOK(q) /\ q.registry = p.registry
                    /\ q.revocations = p.revocations
           /\ \A a : LET q == [p EXCEPT !.artifacts =
                                 [b \in DOMAIN p.artifacts \ {a} |-> p.artifacts[b]]]
                    IN  /\ PackageShape(q) /\ DocumentsOK(q) /\ q.registry = p.registry
                        /\ q.revocations = p.revocations
  <1>2. Documents \cup {"artifacts", "eligibility", "revocations", "registry"} = DOMAIN p
    BY DEF PackageShape, PackageFields
  <1>5. ASSUME NEW f \in {"admission_id", "proof_id"}, NEW q, q = [p EXCEPT !.request[f] = "two"]
        PROVE  /\ PackageShape(q) /\ DocumentsOK(q) /\ q.registry = p.registry
               /\ q.revocations = p.revocations
    <2>1. /\ DOMAIN q = DOMAIN p /\ \A d \in DOMAIN p : d # "request" => q[d] = p[d]
          /\ q.request = [p.request EXCEPT ![f] = "two"]
      BY <1>2, <1>5 DEF Documents
    <2>2. DOMAIN q.request = DOMAIN p.request /\ \A g \in DOMAIN p.request : g # f => q.request[g] = p.request[g]
      BY <2>1
    <2>3. RequestOK(p.request) /\ DOMAIN p.request = RequestFields
      BY DEF DocumentsOK, PackageShape
    <2>4. {"evidence", "claims", "valid_from", "valid_until", "semantics", "scope"} \subseteq RequestFields
      BY DEF RequestFields, Lineage
    <2>5. RequestOK(q.request)
      BY <2>2, <2>3, <2>4 DEF RequestOK
    <2>6. /\ q.decision = p.decision /\ q.assessment = p.assessment /\ q.candidate = p.candidate
          /\ q.verification = p.verification /\ q.artifacts = p.artifacts
          /\ q.registry = p.registry /\ q.revocations = p.revocations
      BY <1>2, <2>1 DEF Documents
    <2> QED BY <2>1, <2>2, <2>5, <2>6 DEF PackageShape, DocumentsOK
  <1>6. ASSUME NEW a, NEW q, q = [p EXCEPT !.artifacts = [b \in DOMAIN p.artifacts \ {a} |-> p.artifacts[b]]]
        PROVE  /\ PackageShape(q) /\ DocumentsOK(q) /\ q.registry = p.registry
               /\ q.revocations = p.revocations
    <2>1. /\ DOMAIN q = DOMAIN p /\ \A d \in DOMAIN p : d # "artifacts" => q[d] = p[d]
          /\ q.artifacts = [b \in DOMAIN p.artifacts \ {a} |-> p.artifacts[b]]
      BY <1>2, <1>6
    <2>2. /\ q.decision = p.decision /\ q.assessment = p.assessment /\ q.candidate = p.candidate
          /\ q.verification = p.verification /\ q.request = p.request
          /\ q.registry = p.registry /\ q.revocations = p.revocations
      BY <1>2, <2>1 DEF Documents
    <2>3. DOMAIN q.artifacts \subseteq DOMAIN p.artifacts /\ \A b \in DOMAIN q.artifacts : q.artifacts[b] = p.artifacts[b]
      BY <2>1
    <2>4. ArtifactsShape(q.artifacts) /\ ArtifactRegistryOK(q.artifacts)
      BY <2>3 DEF PackageShape, ArtifactsShape, DocumentsOK, ArtifactRegistryOK
    <2> QED BY <2>1, <2>2, <2>4 DEF PackageShape, DocumentsOK
  <1> QED BY <1>5, <1>6

LEMMA ChainStep ==
    ASSUME ChainAttemptsAssumption, ChainInv, [ChainNext]_chainVars
    PROVE  ChainInv' /\ AdmissionSound
  <1> USE DEF ChainInv
  <1>1. CASE AdmitEntry
    <2>1. /\ attempts < ChainAttempts /\ attempts' = attempts + 1
          /\ admissionResult' = AdmissionOutcome(package)
          /\ package' = IF admissionResult' = "ADMITTED"
                        THEN [package EXCEPT !.registry = package.registry \cup {package.request}]
                        ELSE package
      BY <1>1 DEF AdmitEntry
    <2> DEFINE existing == {e \in package.registry : e.proof_id = package.request.proof_id}
               same == \E e \in existing : AuthorityIdentity(e) = AuthorityIdentity(package.request)
               conflict == \E e \in package.registry : e.admission_id = package.request.admission_id
                                                       \/ e.candidate_id = package.request.candidate_id
    <2>2. admissionResult' = IF AdmissionReasons(package) # {} THEN "REJECTED"
                             ELSE IF same THEN "ALREADY_ADMITTED"
                             ELSE IF existing # {} \/ conflict THEN "REJECTED" ELSE "ADMITTED"
      BY <2>1 DEF AdmissionOutcome
    <2>3. admissionResult' \in {"ADMITTED", "ALREADY_ADMITTED"} => Established(package)
      BY <2>2, AdmittedIsEstablished
    <2>4. ASSUME admissionResult' = "REJECTED", Established(package), package.registry = {},
                 package.eligibility = {"REGISTRATION_CHAIN_COMPLETE"}
          PROVE  FALSE
      <3>1. ~ReusesRevocationId(package.revocations)
        BY DEF ReusesRevocationId, OneRevocationAtMost
      <3>2. AdmissionReasons(package) = {}
        BY <2>4, <3>1, EstablishedIsAdmitted
      <3>3. existing = {} /\ ~conflict /\ ~same
        BY <2>4
      <3> HIDE DEF existing, conflict, same
      <3> QED BY <2>2, <2>4, <3>2, <3>3
    <2>5. CASE admissionResult' = "ADMITTED"
      <3>1. ~conflict /\ existing = {}
        BY <2>2, <2>5
      <3>2. /\ PackageShape(package') /\ DocumentsOK(package')
            /\ package'.registry = package.registry \cup {package.request}
            /\ package'.revocations = package.revocations
        <4>1. /\ DOMAIN package' = DOMAIN package
              /\ \A d \in DOMAIN package : d # "registry" => package'[d] = package[d]
              /\ package'.registry = package.registry \cup {package.request}
          BY <2>1, <2>5 DEF PackageShape, PackageFields
        <4>2. package'.revocations = package.revocations
          BY <4>1 DEF PackageShape, PackageFields
        <4> QED BY <4>1, <4>2, DocumentsStand
      <3>3. RegistryStateOK(package'.registry)
        BY <3>1, <3>2 DEF RegistryStateOK
      <3> QED BY <2>1, <2>3, <2>5, <3>2, <3>3 DEF AdmissionSound, ChainAttemptsAssumption
    <2>6. CASE admissionResult' # "ADMITTED"
      <3>1. package' = package
        BY <2>1, <2>6
      <3>2. admissionResult' \in {"REJECTED", "ALREADY_ADMITTED"}
        BY <2>2, <2>6
      <3> QED BY <2>1, <2>3, <2>4, <3>1, <3>2 DEF AdmissionSound, ChainAttemptsAssumption
    <2> QED BY <2>5, <2>6
  <1>2. ASSUME NEW f \in {"admission_id", "proof_id"}, Reapply(f)
        PROVE  ChainInv' /\ AdmissionSound
    <2>1. package' = [package EXCEPT !.request[f] = "two"] /\ UNCHANGED <<admissionResult, attempts>>
      BY <1>2 DEF Reapply
    <2>2. /\ PackageShape(package') /\ DocumentsOK(package') /\ package'.registry = package.registry
          /\ package'.revocations = package.revocations
      BY <2>1, ShapeStands
    <2> QED BY <2>1, <2>2 DEF AdmissionSound
  <1>3. ASSUME NEW r \in ChainRevocations, RevokeAuthority(r)
        PROVE  ChainInv' /\ AdmissionSound
    <2>1. /\ package' = [package EXCEPT !.revocations = package.revocations \cup {r}]
          /\ Cardinality(package.revocations) < 1 /\ UNCHANGED <<admissionResult, attempts>>
      BY <1>3 DEF RevokeAuthority
    <2>2. package.revocations = {}
      <3>1. \A x : Cardinality({x}) = 1
        BY FS_Singleton
      <3>2. ASSUME NEW x, package.revocations = {x}
            PROVE  FALSE
        <4>1. Cardinality(package.revocations) = 1
          BY <3>1, <3>2
        <4> QED BY <2>1, <4>1
      <3> QED BY <3>2 DEF OneRevocationAtMost
    <2>3. /\ PackageShape(package') /\ DocumentsOK(package') /\ package'.registry = package.registry
          /\ package'.revocations = {r}
      <3>1. /\ DOMAIN package' = DOMAIN package
            /\ \A d \in DOMAIN package : d # "revocations" => package'[d] = package[d]
            /\ package'.revocations = {r}
        BY <2>1, <2>2 DEF PackageShape, PackageFields
      <3>2. package'.registry = package.registry
        BY <3>1 DEF PackageShape, PackageFields
      <3> QED BY <3>1, <3>2, DocumentsStand
    <2> QED BY <2>1, <2>3 DEF AdmissionSound, OneRevocationAtMost
  <1>4. ASSUME NEW a \in {"a1", "a2"}, WithdrawArtifact(a)
        PROVE  ChainInv' /\ AdmissionSound
    <2>1. /\ package' = [package EXCEPT !.artifacts =
                            [b \in DOMAIN package.artifacts \ {a} |-> package.artifacts[b]]]
          /\ UNCHANGED <<admissionResult, attempts>>
      BY <1>4 DEF WithdrawArtifact
    <2>2. /\ PackageShape(package') /\ DocumentsOK(package') /\ package'.registry = package.registry
          /\ package'.revocations = package.revocations
      BY <2>1, ShapeStands
    <2> QED BY <2>1, <2>2 DEF AdmissionSound
  <1>5. CASE UNCHANGED chainVars
    BY <1>5 DEF chainVars, AdmissionSound
  <1> QED BY <1>1, <1>2, <1>3, <1>4, <1>5 DEF ChainNext

\* An admission is of an established lineage, judged at that moment; an established one is
\* not refused by an empty registry; and entries never collide
\* (broker/deriv_proof_registry.py, admit_deriv_proof_registry_entry).
THEOREM AdmissionSafe ==
    ASSUME ChainAttemptsAssumption
    PROVE  ChainSpec => []ChainTypeOK /\ [][AdmissionSound]_chainVars
  <1>1. ChainInv => ChainTypeOK
    BY DEF ChainInv, ChainTypeOK
  <1> QED BY <1>1, ChainStarts, ChainStep, PTL DEF ChainSpec

(***************************************************************************)
(* The historical campaign.  A candle is decided while the runtime's row   *)
(* shows it PROCESSING, and a row left so by a death is never claimed      *)
(* again: that is why no event is told twice.                              *)
(***************************************************************************)
HistoricalSpec == HistoricalInit /\ [][HistoricalNext]_historicalVars

Times == {series[i] : i \in DOMAIN series}
FirstCandles(n) == {series[i] : i \in 1 .. n}
Recorded == DOMAIN diagnostics.records
Done == Cardinality(Recorded)

Stages == {"down", "claim", "decide", "save", "submit", "publish", "record", "tell",
           "seal", "finish", "replace"}
PendingCandidates == [signal : Nat, confirmed : BOOLEAN]
CampaignProcesses ==
    [stage : Stages, next : Nat, pending : PendingCandidates, signal : BOOLEAN,
     action : {"NONE", "IGNORED", "BLOCKED", "OPENED"}, entry : Nat, position : Nat, closed : BOOLEAN]
EventTypes == {"CANDIDATE", "OVERLAP", "CONFIRMED", "CONFIRMATION_FAILED", "DISPOSITION", "ENTRY",
               "RISK", "POLICY", "OPENED", "CLOSED"}
CampaignEvents == [type : EventTypes, candidate : Nat, at : Nat]
OnCandle == {"decide", "save", "submit", "publish", "record"}

CampaignShape ==
    /\ series \in Datasets
    /\ DOMAIN diagnostics = {"status", "records"} /\ DOMAIN sealed = {"status", "fingerprint"}
    /\ diagnostics.status \in {"NONE", "RUNNING", "FAILED", "COMPLETED"}
    /\ sealed.status \in {"NONE", "RUNNING", "COMPLETED"}
    /\ summaryOut \in {"none", "published"}
    /\ obsRow \in [at : Nat, state : {"PROCESSING", "COMPLETE"}]
    /\ openBeat \in 0 .. 1 /\ failures \in Nat
    /\ confirmFile \in PendingCandidates
    /\ proc \in CampaignProcesses
    /\ proc.stage = "down" => proc = NoProcess
    /\ events \in Seq(CampaignEvents)

\* The records are of the first candles; the row is of one of them or of the next.
RecordsFollow ==
    /\ Done \in 0 .. Len(series) /\ Recorded = FirstCandles(Done)
    /\ obsRow.at # 0 => \E i \in DOMAIN series : i <= Done + 1 /\ obsRow.at = series[i]
    /\ proc.stage \in OnCandle \cup {"claim"} => proc.next = Done + 1
    /\ proc.stage \in OnCandle => Done < Len(series)
    /\ proc.stage = "tell" => proc.next = Done /\ Done > 0
    /\ proc.stage \in {"decide", "save", "submit"} =>
          obsRow.at = Candle /\ obsRow.state = "PROCESSING"
    /\ proc.stage \in {"seal", "finish", "replace"} => Done = Len(series)

\* One fingerprint, and nothing is completed before what it rests on.
CompletedInOrder ==
    /\ summaryOut = "published" => diagnostics.status = "COMPLETED" /\ proc.stage = "down"
    /\ diagnostics.status = "COMPLETED" =>
          /\ sealed.status = "COMPLETED" /\ Done = Len(series)
          /\ proc.stage \in {"down", "replace"}
    /\ proc.stage = "replace" => diagnostics.status = "COMPLETED"
    /\ sealed.status = "COMPLETED" => proc.stage \in {"down", "finish", "replace"}
    /\ proc.stage = "finish" => sealed.status = "COMPLETED"
    /\ proc.stage # "down" => sealed.status # "NONE" /\ code = sealed.fingerprint
    /\ decidedUnder \subseteq {sealed.fingerprint}
    /\ sealed.status = "NONE" => decidedUnder = {}

\* An event is of a candle with a record, or of that of the row.
EventsDated ==
    \A i \in DOMAIN events :
        LET e == events[i] IN
        /\ e.at \in Times /\ e.candidate <= e.at
        /\ e.at \in Recorded \/ e.at = obsRow.at
        /\ e.type \in {"POLICY", "OPENED", "CLOSED"} => e.at \in Recorded
        /\ e.type \in {"CANDIDATE", "OVERLAP"} => e.candidate = e.at
        /\ proc.stage = "decide" => e.at # Candle
        /\ proc.stage = "tell" /\ e.type \in {"POLICY", "OPENED", "CLOSED"} => e.at # Candle

PendingKnown(p) ==
    p \notin {NoPending, Absent} =>
        LET c == p.signal IN
        /\ c # 0 /\ Occurs("CANDIDATE", c, c)
        /\ p.confirmed => c + 1 \in passing
                          /\ Before(Event("CANDIDATE", c, c), Event("CONFIRMED", c, c + 1))

CandidatesKnown ==
    /\ PendingKnown(proc.pending) /\ proc.pending # Absent /\ PendingKnown(confirmFile)
    /\ \/ proc.stage \in {"save", "submit"} /\ proc.entry # 0
       \/ proc.stage \in {"publish", "record", "tell"} /\ proc.action \in {"OPENED", "BLOCKED"}
       => Occurs("ENTRY", proc.entry, Candle)

Ends(c) ==
    {j \in DOMAIN events : events[j].candidate = c
                           /\ events[j].type \in {"CONFIRMATION_FAILED", "DISPOSITION"}}

\* As long as nothing failed.
NothingMissed ==
    failures = 0 =>
        /\ proc.stage = "down" =>
              \/ diagnostics.status = "COMPLETED"
              \/ events = <<>> /\ obsRow.at = 0
        /\ proc.stage \notin {"decide", "save", "submit"} => obsRow.state = "COMPLETE"
        /\ proc.stage \in {"publish", "record"} => obsRow.at = Candle
        /\ proc.stage \notin OnCandle => obsRow.at \in Recorded \cup {0}
        /\ proc.stage \in {"save", "submit", "publish", "record"} => proc.signal = (Candle \in signalled)
        /\ \A k \in Recorded : diagnostics.records[k] = (k \in signalled)
        /\ \A c \in Times : Occurs("CANDIDATE", c, c) =>
              IF proc.pending.signal = c THEN Ends(c) = {} ELSE \E j \in DOMAIN events : Ends(c) = {j}
        /\ proc.stage \in {"seal", "finish", "replace"} => proc.pending = NoPending

HistoricalInv ==
    /\ CampaignShape /\ RecordsFollow /\ CompletedInOrder
    /\ EventsDated /\ CandidatesKnown /\ NothingMissed /\ CandidatesInOrder

LEMMA CandleTimes ==
    ASSUME HistoricalAssumption, series \in Datasets
    PROVE  /\ Len(series) \in Nat /\ DOMAIN series = 1 .. Len(series)
           /\ \A i \in DOMAIN series : series[i] \in Nat \ {0}
           /\ \A i, j \in DOMAIN series : i < j => series[i] < series[j]
           /\ \A i, j \in DOMAIN series : series[i] = series[j] => i = j
  <1>1. series \in Seq(Nat \ {0}) /\ \A i, j \in DOMAIN series : i < j => series[i] < series[j]
    BY DEF HistoricalAssumption
  <1>2. Len(series) \in Nat /\ DOMAIN series = 1 .. Len(series)
    BY <1>1
  <1>3. \A i \in DOMAIN series : series[i] \in Nat \ {0}
    BY <1>1
  <1>4. ASSUME NEW i \in DOMAIN series, NEW j \in DOMAIN series, series[i] = series[j]
        PROVE  i = j
    <2>1. ~(series[i] < series[j]) /\ ~(series[j] < series[i])
      BY <1>3, <1>4
    <2>2. ~(i < j) /\ ~(j < i)
      BY <1>1, <2>1
    <2> QED BY <1>2, <2>2
  <1> QED BY <1>1, <1>2, <1>3, <1>4

LEMMA FirstCandlesCounted ==
    ASSUME HistoricalAssumption, series \in Datasets, NEW n \in 0 .. Len(series)
    PROVE  /\ Cardinality(FirstCandles(n)) = n
           /\ \A i \in DOMAIN series : series[i] \in FirstCandles(n) <=> i <= n
           /\ FirstCandles(n) \subseteq Times
  <1>1. Len(series) \in Nat /\ DOMAIN series = 1 .. Len(series) /\ 1 .. n \subseteq DOMAIN series
    BY CandleTimes
  <1>2. \A i \in DOMAIN series : series[i] \in FirstCandles(n) <=> i <= n
    BY <1>1, CandleTimes DEF FirstCandles
  <1>3. FirstCandles(n) \subseteq Times
    BY <1>1 DEF FirstCandles, Times
  <1> DEFINE f == [i \in 1 .. n |-> series[i]]
  <1>4. f \in Bijection(1 .. n, FirstCandles(n))
    <2>1. f \in [1 .. n -> FirstCandles(n)]
      BY DEF FirstCandles
    <2>2. \A i, j \in 1 .. n : f[i] = f[j] => i = j
      BY <1>1, CandleTimes
    <2>3. \A t \in FirstCandles(n) : \E i \in 1 .. n : f[i] = t
      BY DEF FirstCandles
    <2> QED BY <2>1, <2>2, <2>3 DEF Bijection, Injection, Surjection, IsInjective
  <1>5. IsFiniteSet(1 .. n) /\ Cardinality(1 .. n) = n
    BY FS_Interval
  <1>6. Cardinality(FirstCandles(n)) = Cardinality(1 .. n)
    BY <1>4, <1>5, FS_Bijection DEF ExistsBijection
  <1> QED BY <1>2, <1>3, <1>5, <1>6

\* While nothing is told, what was told stands.
LEMMA QuietEvents ==
    ASSUME UNCHANGED <<events, passing>>, failures \in Nat, failures' \in Nat, failures' >= failures
    PROVE  /\ \A type, c, at : Occurs(type, c, at)' <=> Occurs(type, c, at)
           /\ \A a, b : Before(a, b)' <=> Before(a, b)
           /\ \A c : Ends(c)' = Ends(c)
           /\ CandidatesInOrder => CandidatesInOrder'
  <1>1. \A type, c, at : Occurs(type, c, at)' <=> Occurs(type, c, at)
    BY DEF Occurs
  <1>2. \A a, b : Before(a, b)' <=> Before(a, b)
    BY DEF Before
  <1>3. \A c : Ends(c)' = Ends(c)
    BY DEF Ends
  <1>4. failures > 0 => failures' > 0
    OBVIOUS
  <1>5. CandidatesInOrder => CandidatesInOrder'
    BY <1>2, <1>4 DEF CandidatesInOrder
  <1> QED BY <1>1, <1>2, <1>3, <1>5

LEMMA CampaignStarts ==
    ASSUME HistoricalAssumption, HistoricalInit
    PROVE  HistoricalInv
  <1> USE DEF HistoricalInit
  <1>1. Recorded = {} /\ Done = 0
    BY FS_EmptySet DEF Recorded, Done
  <1>2. Len(series) \in Nat
    BY CandleTimes
  <1>3. FirstCandles(0) = {}
    BY DEF FirstCandles
  <1>4. CampaignShape
    BY DEF CampaignShape, NoProcess, CampaignProcesses, Stages, PendingCandidates, NoPending, Absent, NoSignal
  <1>5. RecordsFollow
    BY <1>1, <1>2, <1>3 DEF RecordsFollow, OnCandle, NoProcess
  <1>6. CompletedInOrder
    BY DEF CompletedInOrder, NoProcess
  <1>7. EventsDated /\ CandidatesKnown /\ CandidatesInOrder
    BY DEF EventsDated, CandidatesKnown, PendingKnown, CandidatesInOrder, NoProcess, NoPending, Absent
  <1>8. NothingMissed
    BY <1>1 DEF NothingMissed, NoProcess, OnCandle, Occurs
  <1> QED BY <1>4, <1>5, <1>6, <1>7, <1>8 DEF HistoricalInv

(* Starting, and starting in vain. *)
LEMMA StartStep ==
    ASSUME HistoricalAssumption, HistoricalInv, NEW resume \in BOOLEAN,
           StartCampaign(resume) \/ StartBlocked(resume)
    PROVE  HistoricalInv'
  <1> USE DEF HistoricalInv
  <1>1. /\ proc = NoProcess /\ diagnostics.status # "COMPLETED" /\ sealed.status # "COMPLETED"
        /\ resume => confirmFile # Absent
        /\ sealed.status # "NONE" => sealed.fingerprint = code
        /\ sealed' = [status |-> "RUNNING", fingerprint |-> code]
        /\ confirmFile' = IF resume THEN confirmFile ELSE NoPending
        /\ UNCHANGED <<series, signalled, passing, code, events, obsRow, openBeat, summaryOut, decidedUnder>>
    BY DEF StartCampaign, StartBlocked, MayStart, inputs
  <1>2. \/ /\ proc' = [NoProcess EXCEPT !.stage = "claim", !.pending = confirmFile', !.next = Done + 1]
           /\ UNCHANGED failures
           /\ diagnostics' = [diagnostics EXCEPT !.status = IF diagnostics.status = "NONE" THEN "RUNNING"
                                                             ELSE diagnostics.status]
        \/ /\ UNCHANGED proc /\ failures' = failures + 1
           /\ diagnostics' = [diagnostics EXCEPT !.status = "FAILED"]
    BY DEF StartCampaign, StartBlocked, Done, Recorded
  <1>3. /\ DOMAIN diagnostics' = {"status", "records"} /\ diagnostics'.records = diagnostics.records
        /\ diagnostics'.status \in {"RUNNING", "FAILED"} /\ Recorded' = Recorded /\ Done' = Done
    BY <1>1, <1>2 DEF CampaignShape, Recorded, Done
  <1>4. confirmFile' \in PendingCandidates /\ confirmFile' \in {confirmFile, NoPending} /\ NoPending # Absent
    BY <1>1 DEF CampaignShape, PendingCandidates, NoPending, Absent
  <1>5. Done \in Nat /\ proc.stage = "down"
    BY <1>1, CandleTimes DEF CampaignShape, RecordsFollow, NoProcess
  <1>6. \/ proc' = [stage |-> "claim", next |-> Done + 1, pending |-> confirmFile', signal |-> NoSignal,
                    action |-> "NONE", entry |-> 0, position |-> 0, closed |-> FALSE]
           /\ UNCHANGED failures /\ confirmFile' # Absent
        \/ proc' = NoProcess /\ failures' = failures + 1
    BY <1>1, <1>2, <1>4 DEF NoProcess
  <1>7. failures \in Nat /\ failures' \in Nat /\ failures' >= failures
    BY <1>6 DEF CampaignShape
  <1>8. /\ \A type, c, at : Occurs(type, c, at)' <=> Occurs(type, c, at)
        /\ \A a, b : Before(a, b)' <=> Before(a, b)
        /\ \A c : Ends(c)' = Ends(c)
        /\ CandidatesInOrder'
    BY <1>1, <1>7, QuietEvents
  <1>9. CampaignShape'
    <2>1. proc' \in CampaignProcesses /\ (proc'.stage = "down" => proc' = NoProcess)
      <3>1. CASE proc' = NoProcess
        BY <1>1, <3>1 DEF CampaignShape
      <3>2. CASE proc' # NoProcess
        <4>1. proc' = [stage |-> "claim", next |-> Done + 1, pending |-> confirmFile', signal |-> NoSignal,
                       action |-> "NONE", entry |-> 0, position |-> 0, closed |-> FALSE]
          BY <1>6, <3>2
        <4> QED BY <1>4, <1>5, <4>1 DEF CampaignProcesses, Stages, NoSignal
      <3> QED BY <3>1, <3>2
    <2>2. DOMAIN sealed' = {"status", "fingerprint"} /\ sealed'.status = "RUNNING"
      BY <1>1
    <2> QED BY <1>1, <1>3, <1>4, <1>7, <2>1, <2>2 DEF CampaignShape
  <1>10. RecordsFollow'
    BY <1>1, <1>3, <1>5, <1>6 DEF RecordsFollow, NoProcess, OnCandle, FirstCandles
  <1>11. CompletedInOrder'
    BY <1>1, <1>3, <1>5, <1>6 DEF CompletedInOrder, NoProcess, CampaignShape
  <1>12. EventsDated'
    BY <1>1, <1>3, <1>5, <1>6 DEF EventsDated, NoProcess, Times
  <1>13. PendingKnown(confirmFile)'
    BY <1>1, <1>4, <1>8 DEF CandidatesKnown, PendingKnown
  <1>14. CandidatesKnown'
    BY <1>6, <1>13, <1>4 DEF CandidatesKnown, PendingKnown, NoProcess
  <1>15. NothingMissed'
    <2>1. SUFFICES ASSUME failures' = 0 PROVE NothingMissed'
      BY DEF NothingMissed
    <2>2. failures = 0 /\ proc'.stage = "claim" /\ events = <<>> /\ obsRow.at = 0 /\ obsRow.state = "COMPLETE"
      BY <1>1, <1>5, <1>6, <1>7, <2>1 DEF NothingMissed, CampaignShape
    <2>3. \A c : ~Occurs("CANDIDATE", c, c)
      BY <2>2 DEF Occurs
    <2> QED BY <1>1, <1>3, <1>8, <2>2, <2>3 DEF NothingMissed, OnCandle
  <1> QED BY <1>8, <1>9, <1>10, <1>11, <1>12, <1>14, <1>15

LEMMA ClaimStep ==
    ASSUME HistoricalAssumption, HistoricalInv, ClaimCandle
    PROVE  HistoricalInv'
  <1> USE DEF HistoricalInv
  <1>1. /\ proc.stage = "claim" /\ proc.next <= Len(series)
        /\ UNCHANGED <<series, signalled, passing, code, diagnostics, sealed, events, confirmFile, openBeat,
                       summaryOut, failures, decidedUnder>>
    BY DEF ClaimCandle, inputs
  <1>2. \/ /\ obsRow.state = "PROCESSING" \/ Candle <= obsRow.at
           /\ proc' = [proc EXCEPT !.stage = "record", !.action = "IGNORED", !.closed = FALSE]
           /\ UNCHANGED obsRow
        \/ /\ obsRow.state # "PROCESSING" /\ ~(Candle <= obsRow.at)
           /\ obsRow' = [at |-> Candle, state |-> "PROCESSING"]
           /\ \E out \in BOOLEAN : proc' = [proc EXCEPT !.stage = "decide", !.closed = out]
    BY DEF ClaimCandle
  <1>3. /\ Len(series) \in Nat /\ DOMAIN series = 1 .. Len(series)
        /\ \A i \in DOMAIN series : series[i] \in Nat \ {0}
        /\ \A i, j \in DOMAIN series : i < j => series[i] < series[j]
        /\ \A i, j \in DOMAIN series : series[i] = series[j] => i = j
    BY CandleTimes DEF CampaignShape
  <1>0. proc'.next = proc.next /\ proc'.pending = proc.pending
    BY <1>2 DEF CampaignShape, CampaignProcesses
  <1>4. /\ proc.next = Done + 1 /\ Done \in Nat /\ Done < Len(series)
        /\ Done' = Done /\ Recorded' = Recorded /\ Candle' = Candle /\ Candle \in Nat \ {0}
        /\ Candle = series[Done + 1]
    <2>1. proc.next = Done + 1 /\ Done \in Nat
      BY <1>1, <1>3 DEF RecordsFollow
    <2>2. Done < Len(series) /\ Done + 1 \in DOMAIN series
      BY <1>1, <1>3, <2>1
    <2>3. Done' = Done /\ Recorded' = Recorded /\ Candle' = Candle
      BY <1>0, <1>1 DEF Recorded, Done, Candle
    <2> QED BY <1>3, <2>1, <2>2, <2>3 DEF Candle
  <1>5. Candle \notin Recorded
    <2>1. series \in Datasets /\ Done \in 0 .. Len(series) /\ Recorded = FirstCandles(Done)
      BY DEF CampaignShape, RecordsFollow
    <2>2. series[Done + 1] \in FirstCandles(Done) <=> Done + 1 <= Done
      BY <1>3, <1>4, <2>1, FirstCandlesCounted
    <2> QED BY <1>4, <2>1, <2>2
  <1>14. \/ obsRow' = obsRow /\ proc'.stage = "record"
         \/ obsRow' = [at |-> Candle, state |-> "PROCESSING"] /\ proc'.stage = "decide"
    BY <1>2 DEF CampaignShape, CampaignProcesses
  <1>6. /\ proc'.stage \in {"record", "decide"} /\ proc'.next = proc.next /\ proc'.pending = proc.pending
        /\ proc' \in CampaignProcesses
        /\ proc'.stage = "record" => proc'.action = "IGNORED"
    BY <1>2 DEF CampaignShape, CampaignProcesses, Stages
  <1>7. /\ \A type, c, at : Occurs(type, c, at)' <=> Occurs(type, c, at)
        /\ \A a, b : Before(a, b)' <=> Before(a, b)
        /\ \A c : Ends(c)' = Ends(c)
        /\ CandidatesInOrder'
    BY <1>1, QuietEvents DEF CampaignShape
  <1>8. CampaignShape'
    <2>1. obsRow' \in [at : Nat, state : {"PROCESSING", "COMPLETE"}]
      BY <1>4, <1>14 DEF CampaignShape
    <2>2. proc'.stage # "down"
      BY <1>6
    <2> QED BY <1>1, <1>6, <2>1, <2>2 DEF CampaignShape
  <1>9. RecordsFollow'
    <2>1. Done' \in 0 .. Len(series') /\ Recorded' = FirstCandles(Done)'
      BY <1>1, <1>4 DEF RecordsFollow, FirstCandles
    <2>2. obsRow'.at # 0 => \E i \in DOMAIN series : i <= Done + 1 /\ obsRow'.at = series[i]
      <3>1. Done + 1 \in DOMAIN series
        BY <1>3, <1>4
      <3>2. obsRow'.at \in {obsRow.at, series[Done + 1]}
        BY <1>4, <1>14
      <3> QED BY <1>4, <3>1, <3>2 DEF RecordsFollow
    <2>3. proc'.stage = "decide" => obsRow'.at = Candle /\ obsRow'.state = "PROCESSING"
      BY <1>14
    <2> QED BY <1>1, <1>4, <1>6, <2>1, <2>2, <2>3 DEF RecordsFollow, OnCandle
  <1>10. CompletedInOrder'
    BY <1>1, <1>4, <1>6 DEF CompletedInOrder
  <1>11. EventsDated'
    <2>1. ASSUME NEW i \in DOMAIN events
          PROVE  /\ events[i].at \in Recorded \/ (events[i].at = obsRow.at /\ obsRow' = obsRow)
                 /\ proc'.stage = "decide" => events[i].at # Candle
      <3>1. CASE obsRow' = obsRow /\ proc'.stage = "record"
        BY <2>1, <3>1 DEF EventsDated
      <3>2. CASE proc'.stage = "decide" /\ ~(Candle <= obsRow.at)
        <4>1. events[i].at \in Times /\ obsRow.at \in Nat
          BY DEF EventsDated, CampaignShape
        <4>2. events[i].at \in Recorded \/ events[i].at = obsRow.at
          BY DEF EventsDated
        <4>3. CASE events[i].at = obsRow.at
          <5>1. PICK k \in DOMAIN series : k <= Done + 1 /\ obsRow.at = series[k]
            BY <1>3, <4>1, <4>3 DEF RecordsFollow, Times
          <5>2. k # Done + 1
            BY <1>4, <3>2, <5>1
          <5>3. series[k] \in FirstCandles(Done)
            BY <1>3, <1>4, <5>1, <5>2 DEF FirstCandles
          <5> QED BY <1>5, <4>3, <5>1, <5>3 DEF RecordsFollow
        <4> QED BY <1>5, <4>2, <4>3
      <3> QED BY <1>2, <3>1, <3>2 DEF CampaignShape, CampaignProcesses
    <2>2. Times' = Times /\ proc'.stage # "tell"
      BY <1>1, <1>6 DEF Times
    <2> QED BY <1>1, <1>4, <2>1, <2>2 DEF EventsDated
  <1>12. CandidatesKnown'
    BY <1>1, <1>6, <1>7 DEF CandidatesKnown, PendingKnown
  <1>13. NothingMissed'
    <2>1. SUFFICES ASSUME failures' = 0 PROVE NothingMissed'
      BY DEF NothingMissed
    <2>2. failures = 0 /\ obsRow.state = "COMPLETE" /\ obsRow.at \in Recorded \cup {0}
      BY <1>1, <2>1 DEF NothingMissed, OnCandle
    <2>3. ~(Candle <= obsRow.at)
      <3>1. CASE obsRow.at = 0
        BY <1>4, <3>1
      <3>2. CASE obsRow.at \in Recorded
        <4>1. PICK k \in 1 .. Done : obsRow.at = series[k]
          BY <3>2 DEF RecordsFollow, FirstCandles
        <4>2. k < Done + 1 /\ k \in DOMAIN series /\ Done + 1 \in DOMAIN series
          BY <1>3, <1>4
        <4>3. series[k] < series[Done + 1] /\ series[k] \in Nat
          BY <1>3, <4>2
        <4> QED BY <1>4, <4>1, <4>3
      <3> QED BY <2>2, <3>1, <3>2
    <2>4. proc'.stage = "decide"
      BY <1>2, <2>2, <2>3 DEF CampaignShape, CampaignProcesses
    <2> QED BY <1>1, <1>4, <1>6, <1>7, <2>2, <2>4 DEF NothingMissed, OnCandle, Times
  <1> QED BY <1>7, <1>8, <1>9, <1>10, <1>11, <1>12, <1>13

\* What a step leaves in place that records and tells nothing.
LEMMA QuietStep ==
    ASSUME HistoricalAssumption, HistoricalInv,
           UNCHANGED <<series, signalled, passing, events>>,
           diagnostics'.records = diagnostics.records, obsRow'.at = obsRow.at,
           failures' \in {failures, failures + 1},
           proc'.stage \notin {"decide", "tell"}
    PROVE  /\ Recorded' = Recorded /\ Done' = Done /\ FirstCandles(Done)' = FirstCandles(Done)
           /\ Times' = Times
           /\ proc'.next = proc.next => Candle' = Candle
           /\ \A type, c, at : Occurs(type, c, at)' <=> Occurs(type, c, at)
           /\ \A a, b : Before(a, b)' <=> Before(a, b)
           /\ \A c : Ends(c)' = Ends(c)
           /\ CandidatesInOrder' /\ EventsDated'
  <1> USE DEF HistoricalInv
  <1>1. Recorded' = Recorded /\ Done' = Done /\ FirstCandles(Done)' = FirstCandles(Done) /\ Times' = Times
    BY DEF Recorded, Done, FirstCandles, Times
  <1>2. proc'.next = proc.next => Candle' = Candle
    BY DEF Candle
  <1>3. failures \in Nat /\ failures' \in Nat /\ failures' >= failures
    BY DEF CampaignShape
  <1>4. /\ \A type, c, at : Occurs(type, c, at)' <=> Occurs(type, c, at)
        /\ \A a, b : Before(a, b)' <=> Before(a, b)
        /\ \A c : Ends(c)' = Ends(c)
        /\ CandidatesInOrder'
    BY <1>3, QuietEvents
  <1>5. EventsDated'
    BY <1>1 DEF EventsDated
  <1> QED BY <1>1, <1>2, <1>4, <1>5

\* The saved file, the venue, the heartbeat: the steps of a candle that record and tell nothing.
LEMMA CandleStep ==
    ASSUME HistoricalAssumption, HistoricalInv,
           SavePending \/ SubmitCandidate \/ PublishBeat \/ CycleRaises
    PROVE  HistoricalInv'
  <1> USE DEF HistoricalInv
  <1>1. /\ UNCHANGED <<series, signalled, passing, code, diagnostics, sealed, events, summaryOut, decidedUnder>>
        /\ proc.stage \in OnCandle /\ proc'.stage \in OnCandle \ {"decide"}
        /\ proc'.next = proc.next /\ proc'.pending = proc.pending
        /\ proc'.signal = proc.signal /\ proc'.entry = proc.entry
    <2>1. CASE SavePending
      BY <2>1 DEF SavePending, inputs, OnCandle, CampaignShape, CampaignProcesses
    <2>2. CASE SubmitCandidate
      <3>1. /\ proc.stage = "submit"
            /\ \E action \in {"NONE", "BLOCKED", "OPENED"}, position \in {0, proc.position, proc.entry} :
                  proc' = [proc EXCEPT !.stage = "publish", !.action = action, !.position = position]
            /\ UNCHANGED <<series, signalled, passing, code, diagnostics, sealed, events, summaryOut, decidedUnder>>
        BY <2>2 DEF SubmitCandidate, inputs
      <3>2. PICK action \in {"NONE", "BLOCKED", "OPENED"}, position \in {0, proc.position, proc.entry} :
                  proc' = [proc EXCEPT !.stage = "publish", !.action = action, !.position = position]
        BY <3>1
      <3> QED BY <3>1, <3>2 DEF OnCandle, CampaignShape, CampaignProcesses
    <2>3. CASE PublishBeat
      BY <2>3 DEF PublishBeat, inputs, OnCandle, CampaignShape, CampaignProcesses
    <2>4. CASE CycleRaises
      BY <2>4 DEF CycleRaises, inputs, durable, OnCandle, CampaignShape, CampaignProcesses
    <2> QED BY <2>1, <2>2, <2>3, <2>4
  <1>2. /\ proc' \in CampaignProcesses /\ obsRow' \in [at : Nat, state : {"PROCESSING", "COMPLETE"}]
        /\ obsRow'.at = obsRow.at /\ openBeat' \in 0 .. 1 /\ confirmFile' \in {confirmFile, proc.pending}
        /\ failures' \in {failures, failures + 1}
    <2>1. CASE SavePending
      BY <2>1 DEF SavePending, CampaignShape, CampaignProcesses, Stages
    <2>2. CASE SubmitCandidate
      <3>1. /\ \E action \in {"NONE", "BLOCKED", "OPENED"}, position \in {0, proc.position, proc.entry} :
                  proc' = [proc EXCEPT !.stage = "publish", !.action = action, !.position = position]
            /\ obsRow' = [obsRow EXCEPT !.state = "COMPLETE"] /\ UNCHANGED <<openBeat, confirmFile, failures>>
        BY <2>2 DEF SubmitCandidate
      <3>2. PICK action \in {"NONE", "BLOCKED", "OPENED"}, position \in {0, proc.position, proc.entry} :
                  proc' = [proc EXCEPT !.stage = "publish", !.action = action, !.position = position]
        BY <3>1
      <3>3. proc \in CampaignProcesses /\ position \in Nat
        BY DEF CampaignShape, CampaignProcesses
      <3>4. proc' \in CampaignProcesses
        BY <3>2, <3>3 DEF CampaignProcesses, Stages
      <3>5. obsRow' \in [at : Nat, state : {"PROCESSING", "COMPLETE"}] /\ obsRow'.at = obsRow.at
        BY <3>1 DEF CampaignShape
      <3> QED BY <3>1, <3>4, <3>5 DEF CampaignShape
    <2>3. CASE PublishBeat
      BY <2>3 DEF PublishBeat, CampaignShape, CampaignProcesses, Stages
    <2>4. CASE CycleRaises
      BY <2>4 DEF CycleRaises, durable, CampaignShape, CampaignProcesses, Stages
    <2> QED BY <2>1, <2>2, <2>3, <2>4
  <1>3. /\ Recorded' = Recorded /\ Done' = Done /\ FirstCandles(Done)' = FirstCandles(Done)
        /\ Times' = Times /\ Candle' = Candle
        /\ \A type, c, at : Occurs(type, c, at)' <=> Occurs(type, c, at)
        /\ \A a, b : Before(a, b)' <=> Before(a, b)
        /\ \A c : Ends(c)' = Ends(c)
        /\ CandidatesInOrder' /\ EventsDated'
    BY <1>1, <1>2, QuietStep DEF OnCandle
  <1>4. CampaignShape'
    BY <1>1, <1>2 DEF CampaignShape, CampaignProcesses, OnCandle
  <1>5. proc'.stage \in {"submit"} => obsRow'.state = "PROCESSING"
    BY DEF SavePending, SubmitCandidate, PublishBeat, CycleRaises, CampaignShape, CampaignProcesses, RecordsFollow
  <1>6. proc'.stage = "submit" => proc.stage = "save"
    BY DEF SavePending, SubmitCandidate, PublishBeat, CycleRaises, CampaignShape, CampaignProcesses
  <1>7. proc'.stage # "save"
    BY DEF SavePending, SubmitCandidate, PublishBeat, CycleRaises, CampaignShape, CampaignProcesses
  <1>8. RecordsFollow'
    BY <1>1, <1>2, <1>3, <1>5, <1>6, <1>7 DEF RecordsFollow, OnCandle
  <1>9. CompletedInOrder'
    BY <1>1, <1>3 DEF CompletedInOrder, OnCandle
  <1>10. /\ proc'.stage = "submit" => proc.stage = "save"
         /\ proc'.stage \in {"publish", "record"} /\ proc'.action \in {"OPENED", "BLOCKED"} =>
               \/ proc.stage = "submit" /\ proc.entry # 0
               \/ proc.stage = "publish" /\ proc.action \in {"OPENED", "BLOCKED"}
    BY DEF SavePending, SubmitCandidate, PublishBeat, CycleRaises, CampaignShape, CampaignProcesses
  <1>11. CandidatesKnown'
    <2>1. PendingKnown(proc.pending)' /\ PendingKnown(confirmFile)' /\ proc'.pending # Absent
      BY <1>1, <1>2, <1>3 DEF CandidatesKnown, PendingKnown
    <2> QED BY <1>1, <1>3, <1>7, <1>10, <2>1 DEF CandidatesKnown, OnCandle
  <1>12. NothingMissed'
    <2>1. SUFFICES ASSUME failures' = 0 PROVE NothingMissed'
      BY DEF NothingMissed
    <2>2. failures = 0 /\ ~CycleRaises
      BY <1>2, <2>1 DEF CycleRaises, CampaignShape
    <2>3. proc'.stage \in {"publish", "record"} => obsRow'.state = "COMPLETE" /\ proc.stage \in {"submit", "publish"}
      <3>1. CASE SavePending
        BY <3>1 DEF SavePending, CampaignShape, CampaignProcesses
      <3>2. CASE SubmitCandidate
        BY <3>2 DEF SubmitCandidate, CampaignShape, CampaignProcesses
      <3>3. CASE PublishBeat
        BY <2>2, <3>3 DEF PublishBeat, CampaignShape, CampaignProcesses, NothingMissed
      <3> QED BY <2>2, <3>1, <3>2, <3>3
    <2>4. proc.stage # "decide" /\ proc.stage # "record"
      BY <2>2 DEF SavePending, SubmitCandidate, PublishBeat
    <2>5. obsRow'.at = Candle
      BY <1>1, <1>2, <2>2, <2>4 DEF RecordsFollow, NothingMissed, OnCandle
    <2>6. proc'.signal = (Candle \in signalled)
      BY <1>1, <2>2, <2>4 DEF NothingMissed, OnCandle
    <2> QED BY <1>1, <1>3, <2>2, <2>3, <2>5, <2>6 DEF NothingMissed, OnCandle
  <1> QED BY <1>3, <1>4, <1>8, <1>9, <1>11, <1>12

LEMMA RecordStep ==
    ASSUME HistoricalAssumption, HistoricalInv, AppendRecord
    PROVE  HistoricalInv'
  <1> USE DEF HistoricalInv
  <1>1. /\ proc.stage = "record" /\ proc' = [proc EXCEPT !.stage = "tell"]
        /\ diagnostics' = [diagnostics EXCEPT !.records =
                              AppendedRecord(diagnostics.records, Candle, proc.signal)]
        /\ UNCHANGED <<series, signalled, passing, code, sealed, events, confirmFile, obsRow, openBeat,
                       summaryOut, failures, decidedUnder>>
    BY DEF AppendRecord, inputs
  <1>2. /\ proc' \in CampaignProcesses /\ proc'.stage = "tell" /\ proc'.next = proc.next
        /\ proc'.pending = proc.pending /\ proc'.entry = proc.entry /\ proc'.action = proc.action
    BY <1>1 DEF CampaignShape, CampaignProcesses, Stages
  <1>3. /\ DOMAIN diagnostics' = {"status", "records"} /\ diagnostics'.status = diagnostics.status
        /\ diagnostics'.records = AppendedRecord(diagnostics.records, Candle, proc.signal)
    BY <1>1 DEF CampaignShape
  <1>4. /\ Recorded' = Recorded \cup {Candle}
        /\ \A k \in Recorded' : diagnostics'.records[k] =
              IF k \in Recorded THEN diagnostics.records[k] ELSE proc.signal
    BY <1>3 DEF Recorded, AppendedRecord
  <1>5. /\ Len(series) \in Nat /\ DOMAIN series = 1 .. Len(series) /\ series \in Datasets
        /\ Done \in Nat /\ Done < Len(series) /\ proc.next = Done + 1 /\ Recorded = FirstCandles(Done)
    BY <1>1, CandleTimes DEF CampaignShape, RecordsFollow, OnCandle
  <1>6. Candle = series[Done + 1] /\ Candle' = Candle
    BY <1>1, <1>2, <1>5 DEF Candle
  <1>7. Recorded' = FirstCandles(Done + 1)
    BY <1>4, <1>5, <1>6 DEF FirstCandles
  <1>8. Done' = Done + 1
    <2>1. Done + 1 \in 0 .. Len(series)
      BY <1>5
    <2>2. Cardinality(FirstCandles(Done + 1)) = Done + 1
      BY <1>5, <2>1, FirstCandlesCounted
    <2> QED BY <1>7, <2>2 DEF Done
  <1>9. Candle \notin Recorded
    <2>1. Done \in 0 .. Len(series) /\ Done + 1 \in DOMAIN series
      BY <1>5
    <2>2. series[Done + 1] \in FirstCandles(Done) <=> Done + 1 <= Done
      BY <1>5, <2>1, FirstCandlesCounted
    <2> QED BY <1>5, <1>6, <2>2
  <1>10. /\ \A type, c, at : Occurs(type, c, at)' <=> Occurs(type, c, at)
         /\ \A a, b : Before(a, b)' <=> Before(a, b)
         /\ \A c : Ends(c)' = Ends(c)
         /\ CandidatesInOrder'
    BY <1>1, QuietEvents DEF CampaignShape
  <1>11. CampaignShape'
    BY <1>1, <1>2, <1>3 DEF CampaignShape
  <1>12. RecordsFollow'
    <2>1. Done' \in 0 .. Len(series') /\ Recorded' = FirstCandles(Done)'
      BY <1>1, <1>5, <1>7, <1>8 DEF FirstCandles
    <2>2. obsRow'.at # 0 => \E i \in DOMAIN series' : i <= Done' + 1 /\ obsRow'.at = series'[i]
      BY <1>1, <1>5, <1>8 DEF RecordsFollow
    <2>3. proc'.stage = "tell" /\ proc'.next = Done' /\ Done' > 0
      BY <1>2, <1>5, <1>8
    <2> QED BY <2>1, <2>2, <2>3 DEF RecordsFollow, OnCandle
  <1>13. CompletedInOrder'
    BY <1>1, <1>2, <1>3 DEF CompletedInOrder
  <1>14. EventsDated'
    BY <1>1, <1>2, <1>4, <1>6, <1>9 DEF EventsDated, Times
  <1>15. CandidatesKnown'
    BY <1>1, <1>2, <1>6, <1>10 DEF CandidatesKnown, PendingKnown
  <1>16. NothingMissed'
    <2>1. SUFFICES ASSUME failures' = 0 PROVE NothingMissed'
      BY DEF NothingMissed
    <2>2. failures = 0 /\ obsRow.state = "COMPLETE" /\ obsRow.at = Candle /\ proc.signal = (Candle \in signalled)
      BY <1>1, <2>1 DEF NothingMissed
    <2>3. \A k \in Recorded' : diagnostics'.records[k] = (k \in signalled')
      BY <1>1, <1>4, <2>2 DEF NothingMissed
    <2>4. \A c \in Times' : Occurs("CANDIDATE", c, c)' =>
              IF proc'.pending.signal = c THEN Ends(c)' = {} ELSE \E j \in DOMAIN events' : Ends(c)' = {j}
      BY <1>1, <1>2, <1>10, <2>2 DEF NothingMissed, Times
    <2> QED BY <1>1, <1>2, <1>4, <2>2, <2>3, <2>4 DEF NothingMissed, OnCandle
  <1> QED BY <1>10, <1>11, <1>12, <1>13, <1>14, <1>15, <1>16

\* The end of a run, a death, and another code on disk.
LEMMA EndStep ==
    ASSUME HistoricalAssumption, HistoricalInv,
           Seal \/ FinishSession \/ PublishSummary \/ CampaignDies \/ CodeChanges
    PROVE  HistoricalInv'
  <1> USE DEF HistoricalInv
  <1>1. /\ UNCHANGED <<series, signalled, passing, events, confirmFile, obsRow, openBeat, decidedUnder>>
        /\ failures' \in {failures, failures + 1}
    BY DEF Seal, FinishSession, PublishSummary, CampaignDies, CodeChanges, inputs, durable
  <1>2. /\ DOMAIN diagnostics' = {"status", "records"} /\ diagnostics'.records = diagnostics.records
        /\ diagnostics'.status \in {"NONE", "RUNNING", "FAILED", "COMPLETED"}
    BY DEF Seal, FinishSession, PublishSummary, CampaignDies, CodeChanges, inputs, durable, CampaignShape
  <1>3. /\ DOMAIN sealed' = {"status", "fingerprint"} /\ sealed'.fingerprint = sealed.fingerprint
        /\ sealed'.status \in {sealed.status, "COMPLETED"}
    BY DEF Seal, FinishSession, PublishSummary, CampaignDies, CodeChanges, inputs, durable, CampaignShape
  <1>4. /\ proc' \in CampaignProcesses
        /\ proc' = NoProcess \/ (proc'.stage = "finish" /\ proc.stage = "seal" /\ proc'.pending = proc.pending)
                             \/ (proc'.stage = "replace" /\ proc.stage = "finish" /\ proc'.pending = proc.pending)
    <2>1. NoProcess \in CampaignProcesses
      BY DEF NoProcess, CampaignProcesses, Stages, PendingCandidates, NoPending, NoSignal
    <2>2. CASE Seal
      BY <2>2 DEF Seal, CampaignShape, CampaignProcesses, Stages
    <2>3. CASE FinishSession
      BY <2>3 DEF FinishSession, CampaignShape, CampaignProcesses, Stages
    <2>4. CASE PublishSummary \/ CampaignDies \/ CodeChanges
      BY <2>1, <2>4 DEF PublishSummary, CampaignDies, CodeChanges
    <2> QED BY <2>2, <2>3, <2>4
  <1>5. NoProcess.stage = "down" /\ NoProcess.pending = NoPending
    BY DEF NoProcess
  <1>6. /\ Recorded' = Recorded /\ Done' = Done /\ FirstCandles(Done)' = FirstCandles(Done)
        /\ Times' = Times
        /\ \A type, c, at : Occurs(type, c, at)' <=> Occurs(type, c, at)
        /\ \A a, b : Before(a, b)' <=> Before(a, b)
        /\ \A c : Ends(c)' = Ends(c)
        /\ CandidatesInOrder' /\ EventsDated'
    BY <1>1, <1>2, <1>4, <1>5, QuietStep
  <1>7. CampaignShape'
    <2>1. summaryOut' \in {"none", "published"}
      BY DEF Seal, FinishSession, PublishSummary, CampaignDies, CodeChanges, durable, CampaignShape
    <2> QED BY <1>1, <1>2, <1>3, <1>4, <2>1 DEF CampaignShape
  <1>8. RecordsFollow'
    BY <1>1, <1>4, <1>5, <1>6 DEF RecordsFollow, OnCandle
  <1>9. CompletedInOrder'
    <2>1. CASE Seal
      <3>1. /\ proc.stage = "seal" /\ proc'.stage = "finish" /\ sealed'.status = "COMPLETED"
            /\ UNCHANGED <<diagnostics, summaryOut, code>>
        BY <2>1 DEF Seal, inputs, CampaignShape, CampaignProcesses
      <3> QED BY <1>1, <1>3, <1>6, <3>1 DEF CompletedInOrder
    <2>2. CASE FinishSession
      <3>1. /\ proc.stage = "finish" /\ proc'.stage = "replace" /\ diagnostics'.status = "COMPLETED"
            /\ UNCHANGED <<sealed, summaryOut, code>>
        BY <2>2 DEF FinishSession, inputs, CampaignShape, CampaignProcesses
      <3> QED BY <1>1, <1>3, <1>6, <3>1 DEF CompletedInOrder, RecordsFollow
    <2>3. CASE PublishSummary
      <3>1. /\ proc.stage = "replace" /\ proc'.stage = "down" /\ summaryOut' = "published"
            /\ UNCHANGED <<sealed, diagnostics, code>>
        BY <2>3 DEF PublishSummary, inputs, NoProcess
      <3> QED BY <1>1, <1>3, <1>6, <3>1 DEF CompletedInOrder
    <2>4. CASE CampaignDies
      <3>1. /\ proc # NoProcess /\ proc'.stage = "down" /\ diagnostics'.status \in {diagnostics.status, "FAILED"}
            /\ UNCHANGED <<sealed, summaryOut, code>>
        BY <2>4 DEF CampaignDies, inputs, NoProcess, CampaignShape
      <3>2. proc.stage # "down"
        BY <3>1 DEF CampaignShape
      <3> QED BY <1>1, <1>3, <1>6, <3>1, <3>2 DEF CompletedInOrder
    <2>5. CASE CodeChanges
      <3>1. /\ proc.stage = "down" /\ UNCHANGED <<sealed, diagnostics, summaryOut, proc>>
        BY <2>5 DEF CodeChanges, durable, NoProcess
      <3> QED BY <1>1, <1>3, <1>6, <3>1 DEF CompletedInOrder
    <2> QED BY <2>1, <2>2, <2>3, <2>4, <2>5
  <1>10. CandidatesKnown'
    <2>1. NoPending # Absent
      BY DEF NoPending, Absent
    <2>2. proc'.stage \notin {"save", "submit", "publish", "record", "tell"}
      BY <1>4, <1>5
    <2>3. proc'.pending \in {proc.pending, NoPending}
      BY <1>4, <1>5
    <2> QED BY <1>1, <1>6, <2>1, <2>2, <2>3 DEF CandidatesKnown, PendingKnown
  <1>11. NothingMissed'
    <2>1. SUFFICES ASSUME failures' = 0 PROVE NothingMissed'
      BY DEF NothingMissed
    <2>2. failures = 0 /\ ~CampaignDies /\ ~CodeChanges
      BY <1>1, <2>1 DEF CampaignDies, CodeChanges, CampaignShape
    <2>3. proc.stage \in {"seal", "finish", "replace"} /\ proc.pending = NoPending
      BY <2>2 DEF Seal, FinishSession, PublishSummary, NothingMissed
    <2>4. proc'.stage \in {"down", "finish", "replace"} /\ proc'.pending = NoPending
      BY <1>4, <1>5, <2>3
    <2>5. proc'.stage = "down" => diagnostics'.status = "COMPLETED"
      <3>1. CASE PublishSummary
        BY <3>1 DEF PublishSummary, CompletedInOrder
      <3>2. CASE Seal \/ FinishSession
        BY <3>2 DEF Seal, FinishSession, CampaignShape, CampaignProcesses
      <3> QED BY <2>2, <3>1, <3>2
    <2> QED BY <1>1, <1>2, <1>6, <2>2, <2>3, <2>4, <2>5 DEF NothingMissed, OnCandle
  <1> QED BY <1>6, <1>7, <1>8, <1>9, <1>10, <1>11

\* What appended events leave of the earlier ones.
LEMMA EventsAppended ==
    ASSUME events \in Seq(CampaignEvents), events' \in Seq(CampaignEvents),
           Len(events) <= Len(events'), \A i \in DOMAIN events : events'[i] = events[i]
    PROVE  /\ DOMAIN events \subseteq DOMAIN events' /\ DOMAIN events = 1 .. Len(events)
           /\ DOMAIN events' = 1 .. Len(events') /\ Len(events) \in Nat /\ Len(events') \in Nat
           /\ \A type, c, at : Occurs(type, c, at) => Occurs(type, c, at)'
           /\ \A a, b : Before(a, b) => Before(a, b)'
  <1>1. /\ DOMAIN events = 1 .. Len(events) /\ DOMAIN events' = 1 .. Len(events')
        /\ Len(events) \in Nat /\ Len(events') \in Nat
    OBVIOUS
  <1>2. DOMAIN events \subseteq DOMAIN events'
    BY <1>1
  <1>3. ASSUME NEW type, NEW c, NEW at, Occurs(type, c, at)
        PROVE  Occurs(type, c, at)'
    <2>1. PICK i \in DOMAIN events : events[i] = Event(type, c, at)
      BY <1>3 DEF Occurs
    <2>2. i \in DOMAIN events' /\ events'[i] = Event(type, c, at)
      BY <1>2, <2>1
    <2> QED BY <2>2 DEF Occurs, Event
  <1>4. ASSUME NEW a, NEW b, Before(a, b)
        PROVE  Before(a, b)'
    <2>1. PICK i \in DOMAIN events, j \in DOMAIN events : i < j /\ events[i] = a /\ events[j] = b
      BY <1>4 DEF Before
    <2>2. i \in DOMAIN events' /\ j \in DOMAIN events' /\ events'[i] = a /\ events'[j] = b
      BY <1>2, <2>1
    <2> QED BY <2>1, <2>2 DEF Before
  <1> QED BY <1>1, <1>2, <1>3, <1>4

EventInOrder(e) ==
    LET c == e.candidate IN
    /\ e.type = "ENTRY" =>
          /\ e.at = c + 2 /\ c + 1 \in passing
          /\ Before(Event("CANDIDATE", c, c), Event("CONFIRMED", c, c + 1))
          /\ Before(Event("CONFIRMED", c, c + 1), e)
    /\ e.type = "OPENED" =>
          Before(Event("ENTRY", c, e.at), e) /\ Before(Event("POLICY", c, e.at), e)

\* New events, each of another type and none of an earlier event's candle and type, that are
\* in order themselves.
LEMMA NothingRepeated ==
    ASSUME CandidatesInOrder, events \in Seq(CampaignEvents), events' \in Seq(CampaignEvents),
           Len(events) <= Len(events'), \A i \in DOMAIN events : events'[i] = events[i],
           failures' = failures, passing' = passing,
           \A i, j \in DOMAIN events' \ DOMAIN events : i # j => events'[i].type # events'[j].type,
           \A i \in DOMAIN events, j \in DOMAIN events' \ DOMAIN events :
               events'[i] # events'[j] \/ (events'[j].type = "DISPOSITION" /\ failures > 0),
           \A e \in CampaignEvents :
               (\E i \in DOMAIN events' \ DOMAIN events : e = events'[i]) => EventInOrder(e)'
    PROVE  CandidatesInOrder'
  <1>1. /\ DOMAIN events \subseteq DOMAIN events'
        /\ \A a, b : Before(a, b) => Before(a, b)'
    BY EventsAppended
  <1>2. ASSUME NEW i \in DOMAIN events', NEW j \in DOMAIN events', i # j, events'[i] = events'[j]
        PROVE  events'[i].type = "DISPOSITION" /\ failures' > 0
    <2>1. CASE i \in DOMAIN events /\ j \in DOMAIN events
      <3>1. events[i] = events[j] /\ events'[i] = events[i]
        BY <1>2, <2>1
      <3> QED BY <1>2, <2>1, <3>1 DEF CandidatesInOrder
    <2>2. CASE i \in DOMAIN events /\ j \notin DOMAIN events
      BY <1>2, <2>2
    <2>3. CASE i \notin DOMAIN events /\ j \in DOMAIN events
      BY <1>2, <2>3
    <2>4. CASE i \notin DOMAIN events /\ j \notin DOMAIN events
      BY <1>2, <2>4
    <2> QED BY <2>1, <2>2, <2>3, <2>4
  <1>3. ASSUME NEW e \in CampaignEvents, NEW i \in DOMAIN events', e = events'[i]
        PROVE  EventInOrder(e)'
    <2>1. CASE i \notin DOMAIN events
      BY <1>3, <2>1
    <2>2. CASE i \in DOMAIN events
      <3>1. e = events[i]
        BY <1>3, <2>2
      <3>2. EventInOrder(e)
        BY <2>2, <3>1 DEF CandidatesInOrder, EventInOrder, Event
      <3> QED BY <1>1, <3>2 DEF EventInOrder, Event
    <2> QED BY <2>1, <2>2
  <1>4. \A i \in DOMAIN events' : events'[i] \in CampaignEvents
    OBVIOUS
  <1>5. ASSUME NEW i \in DOMAIN events'
        PROVE  EventInOrder(events[i])'
    <2>1. PICK e \in CampaignEvents : e = events'[i]
      BY <1>4
    <2>2. EventInOrder(e)'
      BY <1>3, <2>1
    <2> QED BY <2>1, <2>2 DEF EventInOrder, Before
  <1> QED BY <1>2, <1>5 DEF CandidatesInOrder, EventInOrder

\* Where the events of three appended pieces come to stand.
ThreePieces(a, b, d) ==
    /\ events' \in Seq(CampaignEvents) /\ Len(events) <= Len(events')
    /\ \A i \in DOMAIN events : events'[i] = events[i]
    /\ \A i \in DOMAIN a : events'[Len(events) + i] = a[i]
                           /\ Len(events) + i \in DOMAIN events' \ DOMAIN events
    /\ \A i \in DOMAIN b : events'[Len(events) + Len(a) + i] = b[i]
                           /\ Len(events) + Len(a) + i \in DOMAIN events' \ DOMAIN events
    /\ \A i \in DOMAIN d : events'[Len(events) + Len(a) + Len(b) + i] = d[i]
                           /\ Len(events) + Len(a) + Len(b) + i \in DOMAIN events' \ DOMAIN events
    /\ \A j \in DOMAIN events' \ DOMAIN events :
          \/ \E i \in DOMAIN a : j = Len(events) + i
          \/ \E i \in DOMAIN b : j = Len(events) + Len(a) + i
          \/ \E i \in DOMAIN d : j = Len(events) + Len(a) + Len(b) + i

\* Events appended in three pieces.
LEMMA PiecesAppended ==
    ASSUME NEW a \in Seq(CampaignEvents), NEW b \in Seq(CampaignEvents), NEW d \in Seq(CampaignEvents),
           events \in Seq(CampaignEvents), events' = ((events \o a) \o b) \o d
    PROVE  ThreePieces(a, b, d)
  <1> DEFINE s1 == events \o a
             s2 == s1 \o b
  <1>1. /\ s1 \in Seq(CampaignEvents) /\ Len(s1) = Len(events) + Len(a)
        /\ \A i \in 1 .. Len(events) + Len(a) : s1[i] = IF i <= Len(events) THEN events[i] ELSE a[i - Len(events)]
    BY ConcatProperties
  <1> HIDE DEF s1
  <1>2. /\ s2 \in Seq(CampaignEvents) /\ Len(s2) = Len(s1) + Len(b)
        /\ \A i \in 1 .. Len(s1) + Len(b) : s2[i] = IF i <= Len(s1) THEN s1[i] ELSE b[i - Len(s1)]
    <2>1. s1 \in Seq(CampaignEvents)
      BY <1>1
    <2> QED BY <2>1, ConcatProperties
  <1> HIDE DEF s2
  <1>3. /\ events' \in Seq(CampaignEvents) /\ Len(events') = Len(s2) + Len(d)
        /\ \A i \in 1 .. Len(s2) + Len(d) : events'[i] = IF i <= Len(s2) THEN s2[i] ELSE d[i - Len(s2)]
    <2>1. events' = s2 \o d
      BY DEF s1, s2
    <2> QED BY <1>2, <2>1, ConcatProperties
  <1>4. /\ DOMAIN events = 1 .. Len(events) /\ Len(events) \in Nat /\ DOMAIN events' = 1 .. Len(events')
        /\ DOMAIN a = 1 .. Len(a) /\ Len(a) \in Nat /\ DOMAIN b = 1 .. Len(b) /\ Len(b) \in Nat
        /\ DOMAIN d = 1 .. Len(d) /\ Len(d) \in Nat
    BY <1>3
  <1>5. ASSUME NEW i \in DOMAIN events
        PROVE  events'[i] = events[i]
    BY <1>1, <1>2, <1>3, <1>4
  <1>6. ASSUME NEW i \in DOMAIN a
        PROVE  events'[Len(events) + i] = a[i] /\ Len(events) + i \in DOMAIN events' \ DOMAIN events
    <2>1. Len(events) + i \in 1 .. Len(events) + Len(a) /\ ~(Len(events) + i <= Len(events))
          /\ (Len(events) + i) - Len(events) = i
      BY <1>4
    <2> QED BY <1>1, <1>2, <1>3, <1>4, <2>1
  <1>7. ASSUME NEW i \in DOMAIN b
        PROVE  /\ events'[Len(events) + Len(a) + i] = b[i]
               /\ Len(events) + Len(a) + i \in DOMAIN events' \ DOMAIN events
    <2>1. Len(s1) + i \in 1 .. Len(s1) + Len(b) /\ ~(Len(s1) + i <= Len(s1)) /\ (Len(s1) + i) - Len(s1) = i
      BY <1>1, <1>4
    <2> QED BY <1>1, <1>2, <1>3, <1>4, <2>1
  <1>8. ASSUME NEW i \in DOMAIN d
        PROVE  /\ events'[Len(events) + Len(a) + Len(b) + i] = d[i]
               /\ Len(events) + Len(a) + Len(b) + i \in DOMAIN events' \ DOMAIN events
    <2>1. Len(s2) + i \in 1 .. Len(s2) + Len(d) /\ ~(Len(s2) + i <= Len(s2)) /\ (Len(s2) + i) - Len(s2) = i
      BY <1>1, <1>2, <1>4
    <2> QED BY <1>1, <1>2, <1>3, <1>4, <2>1
  <1>9. ASSUME NEW j \in DOMAIN events' \ DOMAIN events
        PROVE  \/ \E i \in DOMAIN a : j = Len(events) + i
               \/ \E i \in DOMAIN b : j = Len(events) + Len(a) + i
               \/ \E i \in DOMAIN d : j = Len(events) + Len(a) + Len(b) + i
    <2>1. j \in Nat /\ j > Len(events) /\ j <= Len(events) + Len(a) + Len(b) + Len(d)
      BY <1>1, <1>2, <1>3, <1>4
    <2>2. CASE j <= Len(events) + Len(a)
      <3>1. j - Len(events) \in DOMAIN a /\ j = Len(events) + (j - Len(events))
        BY <1>4, <2>1, <2>2
      <3> QED BY <3>1
    <2>3. CASE j > Len(events) + Len(a) /\ j <= Len(events) + Len(a) + Len(b)
      <3>1. j - (Len(events) + Len(a)) \in DOMAIN b /\ j = Len(events) + Len(a) + (j - (Len(events) + Len(a)))
        BY <1>4, <2>1, <2>3
      <3> QED BY <3>1
    <2>4. CASE j > Len(events) + Len(a) + Len(b)
      <3>1. /\ j - (Len(events) + Len(a) + Len(b)) \in DOMAIN d
            /\ j = Len(events) + Len(a) + Len(b) + (j - (Len(events) + Len(a) + Len(b)))
        BY <1>4, <2>1, <2>4
      <3> QED BY <3>1
    <2> QED BY <1>4, <2>1, <2>2, <2>3, <2>4
  <1>10. Len(events) <= Len(events')
    BY <1>1, <1>2, <1>3, <1>4
  <1> QED BY <1>3, <1>5, <1>6, <1>7, <1>8, <1>9, <1>10 DEF ThreePieces

\* The confirmation of a pending candidate, state by state.
LEMMA ObservedStates ==
    ASSUME NEW p \in PendingCandidates, NEW t \in Nat
    PROVE  LET seen == Observe(p, t) IN
           \/ p = NoPending /\ seen.state = "NO_PENDING" /\ seen.left = NoPending
           \/ /\ p # NoPending /\ ~p.confirmed /\ t = p.signal + 1 /\ t \in passing
              /\ seen.state = "CONFIRMED" /\ seen.left = [signal |-> p.signal, confirmed |-> TRUE]
           \/ /\ p # NoPending /\ seen.left = NoPending
              /\ seen.state \in {"CONFIRMATION_FAILED", "INCOMPLETE_CONFIRMATION", "INCOMPLETE_ENTRY"}
           \/ /\ p # NoPending /\ p.confirmed /\ t = p.signal + 2
              /\ seen.state = "ENTRY_DUE" /\ seen.left = NoPending
           \/ /\ p # NoPending /\ p.confirmed /\ t = p.signal + 1
              /\ seen.state = "DUPLICATE" /\ seen.left = p
           \/ p # NoPending /\ seen.state = "PENDING" /\ seen.left = p
  <1>1. p.signal \in Nat /\ p.confirmed \in BOOLEAN
    BY DEF PendingCandidates
  <1>2. CASE p = NoPending
    <2>1. Observe(p, t) = [state |-> "NO_PENDING", left |-> NoPending]
      BY <1>2 DEF Observe
    <2> QED BY <1>2, <2>1
  <1>3. CASE p # NoPending /\ t > p.signal + 1 /\ ~p.confirmed
    <2>1. Observe(p, t) = [state |-> "INCOMPLETE_CONFIRMATION", left |-> NoPending]
      BY <1>1, <1>3 DEF Observe
    <2> QED BY <1>3, <2>1
  <1>4. CASE p # NoPending /\ t = p.signal + 1
    <2>1. Observe(p, t) = IF p.confirmed THEN [state |-> "DUPLICATE", left |-> p]
                          ELSE IF t \in passing
                          THEN [state |-> "CONFIRMED", left |-> [signal |-> p.signal, confirmed |-> TRUE]]
                          ELSE [state |-> "CONFIRMATION_FAILED", left |-> NoPending]
      BY <1>1, <1>4 DEF Observe
    <2>2. CASE p.confirmed
      <3>1. Observe(p, t) = [state |-> "DUPLICATE", left |-> p]
        BY <2>1, <2>2
      <3> QED BY <1>4, <2>2, <3>1
    <2>3. CASE ~p.confirmed /\ t \in passing
      <3>1. Observe(p, t) = [state |-> "CONFIRMED", left |-> [signal |-> p.signal, confirmed |-> TRUE]]
        BY <2>1, <2>3
      <3>2. /\ Observe(p, t).state = "CONFIRMED"
            /\ Observe(p, t).left = [signal |-> p.signal, confirmed |-> TRUE]
        BY <3>1
      <3> QED BY <1>4, <2>3, <3>2
    <2>4. CASE ~p.confirmed /\ t \notin passing
      <3>1. Observe(p, t) = [state |-> "CONFIRMATION_FAILED", left |-> NoPending]
        BY <2>1, <2>4
      <3> QED BY <1>4, <3>1
    <2> QED BY <2>2, <2>3, <2>4
  <1>5. CASE p # NoPending /\ p.confirmed /\ t > p.signal + 2
    <2>1. Observe(p, t) = [state |-> "INCOMPLETE_ENTRY", left |-> NoPending]
      BY <1>1, <1>5 DEF Observe
    <2> QED BY <1>5, <2>1
  <1>6. CASE p # NoPending /\ p.confirmed /\ t = p.signal + 2
    <2>1. Observe(p, t) = [state |-> "ENTRY_DUE", left |-> NoPending]
      BY <1>1, <1>6 DEF Observe
    <2> QED BY <1>6, <2>1
  <1>7. CASE p # NoPending /\ t < p.signal + 1
    <2>1. Observe(p, t) = [state |-> "PENDING", left |-> p]
      BY <1>1, <1>7 DEF Observe
    <2> QED BY <1>7, <2>1
  <1> QED BY <1>1, <1>2, <1>3, <1>4, <1>5, <1>6, <1>7

PendingVerdicts == {"CONFIRMED", "CONFIRMATION_FAILED", "INCOMPLETE_CONFIRMATION", "INCOMPLETE_ENTRY", "ENTRY_DUE",
             "DUPLICATE"}
PendingVerdictType(state) == IF state \in {"CONFIRMED", "CONFIRMATION_FAILED"} THEN state ELSE "DISPOSITION"

\* What a decision tells: of a new candidate, of the pending one, of an entry.
LEMMA DecisionTold ==
    ASSUME HistoricalAssumption, HistoricalInv, Decide,
           NEW t, t = Candle, t \in Nat, NEW c, c = proc.pending.signal, NEW state, state = Observe(proc.pending, t).state,
           NEW first, first = IF proc.pending = NoPending THEN "CANDIDATE" ELSE "OVERLAP"
    PROVE  /\ events' \in Seq(CampaignEvents) /\ Len(events) <= Len(events')
           /\ \A i \in DOMAIN events : events'[i] = events[i]
           /\ \A j \in DOMAIN events' \ DOMAIN events :
                 \/ t \in signalled /\ events'[j] = Event(first, t, t)
                 \/ state \in PendingVerdicts /\ events'[j] = Event(PendingVerdictType(state), c, t)
                 \/ state = "ENTRY_DUE" /\ events'[j] \in {Event("ENTRY", c, t), Event("RISK", c, t)}
           /\ \A i, j \in DOMAIN events' \ DOMAIN events : i # j => events'[i].type # events'[j].type
           /\ t \in signalled => \E j \in DOMAIN events' \ DOMAIN events : events'[j] = Event(first, t, t)
           /\ state \in PendingVerdicts =>
                 \E j \in DOMAIN events' \ DOMAIN events : events'[j] = Event(PendingVerdictType(state), c, t)
           /\ state = "ENTRY_DUE" => \E j \in DOMAIN events' \ DOMAIN events : events'[j] = Event("ENTRY", c, t)
  <1> DEFINE new == t \in signalled
             a == IF new THEN <<Event(first, t, t)>> ELSE <<>>
             b == IF state \in PendingVerdicts THEN <<Event(PendingVerdictType(state), c, t)>> ELSE <<>>
             d == IF state = "ENTRY_DUE" THEN <<Event("ENTRY", c, t), Event("RISK", c, t)>> ELSE <<>>
  <1>1. events' = ((events \o a) \o b) \o d
    <2>1. a = IF new THEN <<Event(IF new /\ proc.pending = NoPending THEN "CANDIDATE" ELSE "OVERLAP", t, t)>>
              ELSE <<>>
      OBVIOUS
    <2>2. b = IF state \in {"CONFIRMED", "CONFIRMATION_FAILED"} THEN <<Event(state, c, t)>>
              ELSE IF state \in {"INCOMPLETE_CONFIRMATION", "INCOMPLETE_ENTRY", "ENTRY_DUE", "DUPLICATE"}
              THEN <<Event("DISPOSITION", c, t)>> ELSE <<>>
      BY DEF PendingVerdictType, PendingVerdicts
    <2> HIDE DEF a, b
    <2> QED BY <2>1, <2>2 DEF Decide
  <1>2. /\ events \in Seq(CampaignEvents) /\ c \in Nat
        /\ t \in Nat
    BY DEF HistoricalInv, CampaignShape, CampaignProcesses, PendingCandidates
  <1>3. first \in {"CANDIDATE", "OVERLAP"} /\ PendingVerdictType(state) \in {"CONFIRMED", "CONFIRMATION_FAILED", "DISPOSITION"}
    BY DEF PendingVerdictType
  <1>4. \A type \in EventTypes : \A n \in Nat :
           /\ Event(type, n, t) \in CampaignEvents /\ Event(type, n, t).type = type
    BY <1>2 DEF Event, CampaignEvents
  <1>5. /\ Event(first, t, t) \in CampaignEvents /\ Event(first, t, t).type = first
        /\ Event(PendingVerdictType(state), c, t) \in CampaignEvents
        /\ Event(PendingVerdictType(state), c, t).type = PendingVerdictType(state)
        /\ Event("ENTRY", c, t) \in CampaignEvents /\ Event("ENTRY", c, t).type = "ENTRY"
        /\ Event("RISK", c, t) \in CampaignEvents /\ Event("RISK", c, t).type = "RISK"
    <2>1. {first, PendingVerdictType(state), "ENTRY", "RISK"} \subseteq EventTypes
      BY <1>3 DEF EventTypes
    <2> QED BY <1>2, <1>4, <2>1
  <1>6. /\ a \in Seq(CampaignEvents) /\ Len(a) = IF new THEN 1 ELSE 0
        /\ \A i \in DOMAIN a : new /\ i = 1 /\ a[i] = Event(first, t, t)
        /\ new => 1 \in DOMAIN a /\ a[1] = Event(first, t, t)
    BY <1>5
  <1>7. /\ b \in Seq(CampaignEvents) /\ Len(b) = IF state \in PendingVerdicts THEN 1 ELSE 0
        /\ \A i \in DOMAIN b : state \in PendingVerdicts /\ i = 1 /\ b[i] = Event(PendingVerdictType(state), c, t)
        /\ state \in PendingVerdicts => 1 \in DOMAIN b /\ b[1] = Event(PendingVerdictType(state), c, t)
    BY <1>5
  <1>8. /\ d \in Seq(CampaignEvents) /\ Len(d) = IF state = "ENTRY_DUE" THEN 2 ELSE 0
        /\ \A i \in DOMAIN d : /\ state = "ENTRY_DUE"
                               /\ \/ i = 1 /\ d[i] = Event("ENTRY", c, t)
                                  \/ i = 2 /\ d[i] = Event("RISK", c, t)
        /\ state = "ENTRY_DUE" => 1 \in DOMAIN d /\ d[1] = Event("ENTRY", c, t)
    <2>1. CASE state = "ENTRY_DUE"
      <3>1. d = <<Event("ENTRY", c, t), Event("RISK", c, t)>>
        BY <2>1
      <3> HIDE DEF d
      <3>2. d \in Seq(CampaignEvents) /\ Len(d) = 2 /\ DOMAIN d = 1 .. 2
            /\ d[1] = Event("ENTRY", c, t) /\ d[2] = Event("RISK", c, t)
        BY <1>5, <3>1
      <3>3. \A i \in 1 .. 2 : i = 1 \/ i = 2
        OBVIOUS
      <3> QED BY <2>1, <3>2, <3>3
    <2>2. CASE state # "ENTRY_DUE"
      BY <2>2
    <2> QED BY <2>1, <2>2
  <1> HIDE DEF a, b, d
  <1>9. /\ events' \in Seq(CampaignEvents) /\ Len(events) <= Len(events')
        /\ \A i \in DOMAIN events : events'[i] = events[i]
        /\ \A i \in DOMAIN a : events'[Len(events) + i] = a[i]
                               /\ Len(events) + i \in DOMAIN events' \ DOMAIN events
        /\ \A i \in DOMAIN b : events'[Len(events) + Len(a) + i] = b[i]
                               /\ Len(events) + Len(a) + i \in DOMAIN events' \ DOMAIN events
        /\ \A i \in DOMAIN d : events'[Len(events) + Len(a) + Len(b) + i] = d[i]
                               /\ Len(events) + Len(a) + Len(b) + i \in DOMAIN events' \ DOMAIN events
        /\ \A j \in DOMAIN events' \ DOMAIN events :
              \/ \E i \in DOMAIN a : j = Len(events) + i
              \/ \E i \in DOMAIN b : j = Len(events) + Len(a) + i
              \/ \E i \in DOMAIN d : j = Len(events) + Len(a) + Len(b) + i
    <2>1. a \in Seq(CampaignEvents) /\ b \in Seq(CampaignEvents) /\ d \in Seq(CampaignEvents)
      BY <1>6, <1>7, <1>8
    <2>2. ThreePieces(a, b, d)
      BY <1>1, <1>2, <2>1, PiecesAppended
    <2> QED BY <2>2 DEF ThreePieces
  <1>10. ASSUME NEW j \in DOMAIN events' \ DOMAIN events
         PROVE  \/ new /\ j = Len(events) + 1 /\ events'[j] = Event(first, t, t)
                \/ /\ state \in PendingVerdicts /\ j = Len(events) + Len(a) + 1
                   /\ events'[j] = Event(PendingVerdictType(state), c, t)
                \/ /\ state = "ENTRY_DUE" /\ j = Len(events) + Len(a) + Len(b) + 1
                   /\ events'[j] = Event("ENTRY", c, t)
                \/ /\ state = "ENTRY_DUE" /\ j = Len(events) + Len(a) + Len(b) + 2
                   /\ events'[j] = Event("RISK", c, t)
    <2>1. CASE \E i \in DOMAIN a : j = Len(events) + i
      BY <1>6, <1>9, <2>1
    <2>2. CASE \E i \in DOMAIN b : j = Len(events) + Len(a) + i
      BY <1>7, <1>9, <2>2
    <2>3. CASE \E i \in DOMAIN d : j = Len(events) + Len(a) + Len(b) + i
      BY <1>8, <1>9, <2>3
    <2> QED BY <1>9, <2>1, <2>2, <2>3
  <1>11. ASSUME NEW i \in DOMAIN events' \ DOMAIN events, NEW j \in DOMAIN events' \ DOMAIN events, i # j
         PROVE  events'[i].type # events'[j].type
    <2>1. \/ i = Len(events) + 1 /\ events'[i].type \in {"CANDIDATE", "OVERLAP"}
          \/ /\ i = Len(events) + Len(a) + 1
             /\ events'[i].type \in {"CONFIRMED", "CONFIRMATION_FAILED", "DISPOSITION"}
          \/ i = Len(events) + Len(a) + Len(b) + 1 /\ events'[i].type = "ENTRY"
          \/ i = Len(events) + Len(a) + Len(b) + 2 /\ events'[i].type = "RISK"
      BY <1>3, <1>5, <1>10
    <2>2. \/ j = Len(events) + 1 /\ events'[j].type \in {"CANDIDATE", "OVERLAP"}
          \/ /\ j = Len(events) + Len(a) + 1
             /\ events'[j].type \in {"CONFIRMED", "CONFIRMATION_FAILED", "DISPOSITION"}
          \/ j = Len(events) + Len(a) + Len(b) + 1 /\ events'[j].type = "ENTRY"
          \/ j = Len(events) + Len(a) + Len(b) + 2 /\ events'[j].type = "RISK"
      BY <1>3, <1>5, <1>10
    <2> QED BY <1>11, <2>1, <2>2
  <1>12. /\ new => \E j \in DOMAIN events' \ DOMAIN events : events'[j] = Event(first, t, t)
         /\ state \in PendingVerdicts => \E j \in DOMAIN events' \ DOMAIN events : events'[j] = Event(PendingVerdictType(state), c, t)
         /\ state = "ENTRY_DUE" => \E j \in DOMAIN events' \ DOMAIN events : events'[j] = Event("ENTRY", c, t)
    <2>1. ASSUME new PROVE \E j \in DOMAIN events' \ DOMAIN events : events'[j] = Event(first, t, t)
      <3>1. 1 \in DOMAIN a /\ a[1] = Event(first, t, t)
        BY <1>6, <2>1
      <3>2. Len(events) + 1 \in DOMAIN events' \ DOMAIN events /\ events'[Len(events) + 1] = Event(first, t, t)
        BY <1>9, <3>1
      <3> QED BY <3>2
    <2>2. ASSUME state \in PendingVerdicts
          PROVE \E j \in DOMAIN events' \ DOMAIN events : events'[j] = Event(PendingVerdictType(state), c, t)
      <3>1. 1 \in DOMAIN b /\ b[1] = Event(PendingVerdictType(state), c, t)
        BY <1>7, <2>2
      <3>2. /\ Len(events) + Len(a) + 1 \in DOMAIN events' \ DOMAIN events
            /\ events'[Len(events) + Len(a) + 1] = Event(PendingVerdictType(state), c, t)
        BY <1>9, <3>1
      <3> QED BY <3>2
    <2>3. ASSUME state = "ENTRY_DUE"
          PROVE \E j \in DOMAIN events' \ DOMAIN events : events'[j] = Event("ENTRY", c, t)
      <3>1. 1 \in DOMAIN d /\ d[1] = Event("ENTRY", c, t)
        BY <1>8, <2>3
      <3>2. /\ Len(events) + Len(a) + Len(b) + 1 \in DOMAIN events' \ DOMAIN events
            /\ events'[Len(events) + Len(a) + Len(b) + 1] = Event("ENTRY", c, t)
        BY <1>9, <3>1
      <3> QED BY <3>2
    <2> QED BY <2>1, <2>2, <2>3
  <1> QED BY <1>9, <1>10, <1>11, <1>12

\* What there was before the decision on a candle: events of earlier candles only.
LEMMA BeforeDeciding ==
    ASSUME HistoricalAssumption, HistoricalInv, proc.stage = "decide"
    PROVE  /\ Candle \in Times /\ Candle \in Nat \ {0} /\ Candle = series[Done + 1]
           /\ proc.next = Done + 1 /\ Done \in Nat /\ Done < Len(series)
           /\ obsRow.at = Candle /\ obsRow.state = "PROCESSING"
           /\ \A i \in DOMAIN events : events[i].at < Candle /\ events[i].candidate < Candle
           /\ \A k \in Times : k \in Nat \ {0}
  <1> USE DEF HistoricalInv
  <1>1. /\ Len(series) \in Nat /\ DOMAIN series = 1 .. Len(series)
        /\ \A i \in DOMAIN series : series[i] \in Nat \ {0}
        /\ \A i, j \in DOMAIN series : i < j => series[i] < series[j]
    BY CandleTimes DEF CampaignShape
  <1>2. /\ proc.next = Done + 1 /\ Done \in Nat /\ Done < Len(series) /\ Recorded = FirstCandles(Done)
        /\ obsRow.at = Candle /\ obsRow.state = "PROCESSING"
    BY <1>1 DEF RecordsFollow, OnCandle
  <1>3. Done + 1 \in DOMAIN series /\ Candle = series[Done + 1]
    BY <1>1, <1>2 DEF Candle
  <1>4. Candle \in Times /\ Candle \in Nat \ {0}
    BY <1>1, <1>3 DEF Times
  <1>5. ASSUME NEW i \in DOMAIN events
        PROVE  events[i].at < Candle /\ events[i].candidate < Candle
    <2>1. events[i].at \in Recorded
      BY <1>2 DEF EventsDated
    <2>2. PICK k \in 1 .. Done : events[i].at = series[k]
      BY <1>2, <2>1 DEF FirstCandles
    <2>3. k \in DOMAIN series /\ k < Done + 1
      BY <1>1, <1>2
    <2>4. events[i].at < Candle
      BY <1>1, <1>3, <2>2, <2>3
    <2>5. events[i].at \in Nat /\ events[i].candidate \in Nat /\ events[i].candidate <= events[i].at
      <3>1. events[i] \in CampaignEvents
        BY DEF CampaignShape
      <3> QED BY <3>1 DEF CampaignEvents, EventsDated
    <2> QED BY <1>4, <2>4, <2>5
  <1>6. \A k \in Times : k \in Nat \ {0}
    BY <1>1 DEF Times
  <1> QED BY <1>2, <1>3, <1>4, <1>5, <1>6

\* The pending candidate was signalled, and confirmed if it says so, at earlier candles: a
\* second confirmation of it is never seen.
LEMMA PendingIsEarlier ==
    ASSUME HistoricalAssumption, HistoricalInv, proc.stage = "decide",
           NEW p, p = proc.pending, NEW t, t = Candle, NEW c, c = p.signal
    PROVE  LET seen == Observe(p, t) IN
           /\ p \in PendingCandidates /\ c \in Nat
           /\ p # NoPending =>
                 /\ c # 0 /\ c < t /\ Occurs("CANDIDATE", c, c)
                 /\ p.confirmed => /\ c + 1 < t /\ c + 1 \in passing
                                   /\ Before(Event("CANDIDATE", c, c), Event("CONFIRMED", c, c + 1))
           /\ \/ p = NoPending /\ seen.state = "NO_PENDING" /\ seen.left = NoPending
              \/ /\ p # NoPending /\ t = c + 1 /\ t \in passing
                 /\ seen.state = "CONFIRMED" /\ seen.left = [signal |-> c, confirmed |-> TRUE]
              \/ /\ p # NoPending /\ seen.left = NoPending
                 /\ seen.state \in {"CONFIRMATION_FAILED", "INCOMPLETE_CONFIRMATION", "INCOMPLETE_ENTRY"}
              \/ /\ p # NoPending /\ p.confirmed /\ t = c + 2
                 /\ seen.state = "ENTRY_DUE" /\ seen.left = NoPending
              \/ p # NoPending /\ seen.state = "PENDING" /\ seen.left = p
  <1>1. p \in PendingCandidates /\ c \in Nat
    BY DEF HistoricalInv, CampaignShape, CampaignProcesses, PendingCandidates
  <1>2. /\ t \in Nat
        /\ \A i \in DOMAIN events : events[i].at < t
    BY BeforeDeciding
  <1>3. ASSUME p # NoPending
        PROVE  /\ c # 0 /\ c < t /\ Occurs("CANDIDATE", c, c)
               /\ p.confirmed => /\ c + 1 < t /\ c + 1 \in passing
                                 /\ Before(Event("CANDIDATE", c, c), Event("CONFIRMED", c, c + 1))
    <2>1. /\ c # 0 /\ Occurs("CANDIDATE", c, c)
          /\ p.confirmed => c + 1 \in passing
                            /\ Before(Event("CANDIDATE", c, c), Event("CONFIRMED", c, c + 1))
      BY <1>3 DEF HistoricalInv, CandidatesKnown, PendingKnown
    <2>2. c < t
      <3>1. PICK i \in DOMAIN events : events[i] = Event("CANDIDATE", c, c)
        BY <2>1 DEF Occurs
      <3> QED BY <1>2, <3>1 DEF Event
    <2>3. p.confirmed => c + 1 < t
      <3>1. SUFFICES ASSUME p.confirmed PROVE c + 1 < t
        OBVIOUS
      <3>2. PICK j \in DOMAIN events : events[j] = Event("CONFIRMED", c, c + 1)
        BY <2>1, <3>1 DEF Before
      <3> QED BY <1>2, <3>2 DEF Event
    <2> QED BY <2>1, <2>2, <2>3
  <1>4. ~(p # NoPending /\ p.confirmed /\ t = p.signal + 1)
    BY <1>1, <1>2, <1>3
  <1> QED BY <1>1, <1>2, <1>3, <1>4, ObservedStates

\* The state a decision leaves the process in.
LEMMA DecidedProcess ==
    ASSUME HistoricalAssumption, HistoricalInv, Decide,
           NEW p, p = proc.pending, NEW t, t = Candle
    PROVE  /\ proc.stage = "decide" /\ proc'.stage = "save" /\ proc'.next = proc.next
           /\ proc'.signal = (t \in signalled)
           /\ proc'.entry = IF Observe(p, t).state = "ENTRY_DUE" THEN p.signal ELSE 0
           /\ proc'.pending = IF t \in signalled /\ p = NoPending
                              THEN [signal |-> t, confirmed |-> FALSE] ELSE Observe(p, t).left
           /\ proc'.pending \in PendingCandidates /\ proc' \in CampaignProcesses
           /\ decidedUnder' = decidedUnder \cup {code} /\ Candle' = t
           /\ UNCHANGED <<series, signalled, passing, code, diagnostics, sealed, confirmFile, obsRow,
                          openBeat, summaryOut, failures>>
  <1> DEFINE due == Observe(p, t).state = "ENTRY_DUE"
             kept == IF t \in signalled /\ p = NoPending
                     THEN [signal |-> t, confirmed |-> FALSE] ELSE Observe(p, t).left
             entry == IF due THEN p.signal ELSE 0
             new == t \in signalled
  <1>1. /\ proc.stage = "decide" /\ decidedUnder' = decidedUnder \cup {code}
        /\ proc' = [proc EXCEPT !.stage = "save", !.signal = new, !.entry = entry, !.pending = kept]
        /\ UNCHANGED <<series, signalled, passing, code, diagnostics, sealed, confirmFile, obsRow,
                       openBeat, summaryOut, failures>>
    BY DEF Decide, inputs
  <1>2. t \in Nat
    BY <1>1, BeforeDeciding
  <1>3. p \in PendingCandidates /\ p.signal \in Nat
    BY <1>1, PendingIsEarlier
  <1>4. Observe(p, t).left \in {NoPending, p, [signal |-> p.signal, confirmed |-> TRUE]}
    BY <1>1, PendingIsEarlier
  <1>5. kept \in PendingCandidates
    <2>1. /\ NoPending \in PendingCandidates
          /\ [signal |-> p.signal, confirmed |-> TRUE] \in PendingCandidates
          /\ [signal |-> t, confirmed |-> FALSE] \in PendingCandidates
      BY <1>2, <1>3 DEF NoPending, PendingCandidates
    <2> QED BY <1>3, <1>4, <2>1
  <1>6. entry \in Nat /\ new \in BOOLEAN
    BY <1>3
  <1>7. proc \in CampaignProcesses
    BY DEF HistoricalInv, CampaignShape
  <1> HIDE DEF kept, entry, new
  <1>8. /\ proc'.stage = "save" /\ proc'.next = proc.next /\ proc'.signal = new
        /\ proc'.entry = entry /\ proc'.pending = kept /\ proc' \in CampaignProcesses
    BY <1>1, <1>5, <1>6, <1>7 DEF CampaignProcesses, Stages
  <1>9. Candle' = t
    BY <1>1, <1>8 DEF Candle
  <1> QED BY <1>1, <1>5, <1>8, <1>9 DEF kept, entry, new

LEMMA DecidedStep ==
    ASSUME HistoricalAssumption, HistoricalInv, Decide,
           NEW t, t = Candle, NEW p, p = proc.pending, NEW c, c = p.signal,
           NEW state, state = Observe(p, t).state,
           NEW first, first = IF p = NoPending THEN "CANDIDATE" ELSE "OVERLAP"
    PROVE  HistoricalInv'
  <1> DEFINE New == DOMAIN events' \ DOMAIN events
  <1>1. /\ proc.stage = "decide" /\ proc'.stage = "save" /\ proc'.next = proc.next
        /\ proc'.signal = (t \in signalled)
        /\ proc'.entry = IF state = "ENTRY_DUE" THEN c ELSE 0
        /\ proc'.pending = IF t \in signalled /\ p = NoPending
                           THEN [signal |-> t, confirmed |-> FALSE] ELSE Observe(p, t).left
        /\ proc' \in CampaignProcesses
        /\ decidedUnder' = decidedUnder \cup {code} /\ Candle' = t
        /\ UNCHANGED <<series, signalled, passing, code, diagnostics, sealed, confirmFile, obsRow,
                       openBeat, summaryOut, failures>>
    BY DecidedProcess
  <1>2. /\ t \in Times /\ t \in Nat \ {0} /\ proc.next = Done + 1 /\ Done \in Nat /\ Done < Len(series)
        /\ obsRow.at = t /\ obsRow.state = "PROCESSING"
        /\ \A i \in DOMAIN events : events[i].at < t /\ events[i].candidate < t
        /\ \A k \in Times : k \in Nat \ {0}
    BY <1>1, BeforeDeciding
  <1>3. /\ p \in PendingCandidates /\ c \in Nat
        /\ p # NoPending =>
              /\ c # 0 /\ c < t /\ Occurs("CANDIDATE", c, c)
              /\ p.confirmed => /\ c + 1 < t /\ c + 1 \in passing
                                /\ Before(Event("CANDIDATE", c, c), Event("CONFIRMED", c, c + 1))
        /\ \/ p = NoPending /\ state = "NO_PENDING" /\ Observe(p, t).left = NoPending
           \/ /\ p # NoPending /\ t = c + 1 /\ t \in passing
              /\ state = "CONFIRMED" /\ Observe(p, t).left = [signal |-> c, confirmed |-> TRUE]
           \/ /\ p # NoPending /\ Observe(p, t).left = NoPending
              /\ state \in {"CONFIRMATION_FAILED", "INCOMPLETE_CONFIRMATION", "INCOMPLETE_ENTRY"}
           \/ /\ p # NoPending /\ p.confirmed /\ t = c + 2
              /\ state = "ENTRY_DUE" /\ Observe(p, t).left = NoPending
           \/ p # NoPending /\ state = "PENDING" /\ Observe(p, t).left = p
    BY <1>1, PendingIsEarlier
  <1>4. /\ events' \in Seq(CampaignEvents) /\ Len(events) <= Len(events')
        /\ \A i \in DOMAIN events : events'[i] = events[i]
        /\ \A j \in New :
              \/ t \in signalled /\ events'[j] = Event(first, t, t)
              \/ state \in PendingVerdicts /\ events'[j] = Event(PendingVerdictType(state), c, t)
              \/ state = "ENTRY_DUE" /\ events'[j] \in {Event("ENTRY", c, t), Event("RISK", c, t)}
        /\ \A i, j \in New : i # j => events'[i].type # events'[j].type
        /\ t \in signalled => \E j \in New : events'[j] = Event(first, t, t)
        /\ state \in PendingVerdicts => \E j \in New : events'[j] = Event(PendingVerdictType(state), c, t)
        /\ state = "ENTRY_DUE" => \E j \in New : events'[j] = Event("ENTRY", c, t)
    BY <1>2, DecisionTold
  <1>5. events \in Seq(CampaignEvents)
    BY DEF HistoricalInv, CampaignShape
  <1>6. /\ DOMAIN events \subseteq DOMAIN events' /\ DOMAIN events = 1 .. Len(events)
        /\ DOMAIN events' = 1 .. Len(events') /\ Len(events) \in Nat /\ Len(events') \in Nat
        /\ \A type, k, at : Occurs(type, k, at) => Occurs(type, k, at)'
        /\ \A x, y : Before(x, y) => Before(x, y)'
    BY <1>4, <1>5, EventsAppended
  <1>7. NoPending = [signal |-> 0, confirmed |-> FALSE] /\ Absent = [signal |-> 0, confirmed |-> TRUE]
    BY DEF NoPending, Absent
  <1>8. first \in {"CANDIDATE", "OVERLAP"} /\ PendingVerdictType(state) \in {"CONFIRMED", "CONFIRMATION_FAILED", "DISPOSITION"}
    BY DEF PendingVerdictType
  <1>9. ASSUME NEW j \in New
        PROVE  /\ events'[j].at = t /\ events'[j].candidate \in {t, c} /\ (p = NoPending => events'[j].candidate = t)
               /\ events'[j].type \in {"CANDIDATE", "OVERLAP"} =>
                     events'[j].candidate = t /\ t \in signalled /\ events'[j].type = first
               /\ events'[j].type = "ENTRY" => state = "ENTRY_DUE" /\ events'[j] = Event("ENTRY", c, t)
               /\ events'[j].type \in {"CONFIRMATION_FAILED", "DISPOSITION"} =>
                     state \in PendingVerdicts /\ events'[j] = Event(PendingVerdictType(state), c, t)
               /\ events'[j].type \notin {"POLICY", "OPENED", "CLOSED"}
    <2>1. CASE t \in signalled /\ events'[j] = Event(first, t, t)
      BY <1>8, <2>1 DEF Event
    <2>2. CASE state \in PendingVerdicts /\ events'[j] = Event(PendingVerdictType(state), c, t)
      BY <1>3, <1>8, <2>2 DEF Event, PendingVerdicts
    <2>3. CASE state = "ENTRY_DUE" /\ events'[j] \in {Event("ENTRY", c, t), Event("RISK", c, t)}
      BY <1>3, <2>3 DEF Event
    <2> QED BY <1>4, <2>1, <2>2, <2>3
  <1>10. CampaignShape'
    BY <1>1, <1>4 DEF HistoricalInv, CampaignShape
  <1>11. RecordsFollow'
    BY <1>1, <1>2 DEF HistoricalInv, RecordsFollow, OnCandle, Recorded, Done, FirstCandles
  <1>12. CompletedInOrder'
    BY <1>1 DEF HistoricalInv, CompletedInOrder, Done, Recorded
  <1>13. EventsDated'
    <2>1. ASSUME NEW i \in DOMAIN events'
          PROVE  /\ events'[i].at \in Times /\ events'[i].candidate <= events'[i].at
                 /\ events'[i].at \in Recorded \/ events'[i].at = obsRow.at
                 /\ events'[i].type \in {"POLICY", "OPENED", "CLOSED"} => events'[i].at \in Recorded
                 /\ events'[i].type \in {"CANDIDATE", "OVERLAP"} => events'[i].candidate = events'[i].at
      <3>1. CASE i \in DOMAIN events
        BY <1>4, <3>1 DEF HistoricalInv, EventsDated
      <3>2. CASE i \in New
        <4>1. events'[i].candidate <= t
          BY <1>2, <1>3, <1>9, <3>2
        <4> QED BY <1>2, <1>9, <3>2, <4>1
      <3> QED BY <3>1, <3>2
    <2>2. Times' = Times /\ Recorded' = Recorded
      BY <1>1 DEF Times, Recorded
    <2> QED BY <1>1, <2>1, <2>2 DEF EventsDated
  <1>14. CandidatesInOrder'
    <2>1. \A i \in DOMAIN events, j \in New :
              events'[i] # events'[j] \/ (events'[j].type = "DISPOSITION" /\ failures > 0)
      <3>1. ASSUME NEW i \in DOMAIN events, NEW j \in New
            PROVE  events'[i] # events'[j]
        <4>1. events'[i].at # events'[j].at
          BY <1>2, <1>4, <1>9
        <4> QED BY <4>1
      <3> QED BY <3>1
    <2>2. ASSUME NEW e \in CampaignEvents, NEW i \in New, e = events'[i]
          PROVE  EventInOrder(e)'
      <3>1. CASE e.type # "ENTRY"
        BY <1>9, <2>2, <3>1 DEF EventInOrder
      <3>2. CASE e.type = "ENTRY"
        <4>1. state = "ENTRY_DUE" /\ e = Event("ENTRY", c, t) /\ p # NoPending /\ p.confirmed /\ t = c + 2
          BY <1>3, <1>9, <2>2, <3>2
        <4>2. c + 1 \in passing /\ Before(Event("CANDIDATE", c, c), Event("CONFIRMED", c, c + 1))
          BY <1>3, <4>1
        <4>3. PICK j \in DOMAIN events : events[j] = Event("CONFIRMED", c, c + 1)
          BY <4>2 DEF Before
        <4>4. j \in DOMAIN events' /\ events'[j] = Event("CONFIRMED", c, c + 1) /\ j < i
          BY <1>4, <1>6, <4>3
        <4>5. Before(Event("CONFIRMED", c, c + 1), e)'
          <5>1. \E x, y \in DOMAIN events' : x < y /\ events'[x] = Event("CONFIRMED", c, c + 1) /\ events'[y] = e
            BY <2>2, <4>4
          <5> QED BY <5>1 DEF Before, Event
        <4>6. Before(Event("CANDIDATE", c, c), Event("CONFIRMED", c, c + 1))'
          BY <1>6, <4>2
        <4>7. e.candidate = c /\ e.at = t /\ e.type = "ENTRY"
          BY <4>1 DEF Event
        <4> QED BY <1>1, <4>1, <4>2, <4>5, <4>6, <4>7 DEF EventInOrder, Event
      <3> QED BY <3>1, <3>2
    <2>3. \A e \in CampaignEvents :
               (\E i \in DOMAIN events' \ DOMAIN events : e = events'[i]) => EventInOrder(e)'
      BY <2>2
    <2> QED BY <1>1, <1>4, <1>5, <2>1, <2>3, NothingRepeated DEF HistoricalInv
  <1>15. ASSUME NEW k, Occurs("CANDIDATE", k, k)'
         PROVE  k # t => Occurs("CANDIDATE", k, k)
    <2>1. PICK i \in DOMAIN events' : events'[i] = Event("CANDIDATE", k, k)
      BY <1>15 DEF Occurs, Event
    <2>2. CASE i \in DOMAIN events
      BY <1>4, <2>1, <2>2 DEF Occurs
    <2>3. CASE i \in New
      BY <1>9, <2>1, <2>3 DEF Event
    <2> QED BY <2>1, <2>2, <2>3
  <1>16. CandidatesKnown'
    <2>1. ASSUME NEW q, PendingKnown(q), q \in PendingCandidates
          PROVE  PendingKnown(q)'
      BY <1>1, <1>6, <2>1 DEF PendingKnown
    <2>2. PendingKnown(confirmFile)'
      BY <1>1, <2>1 DEF HistoricalInv, CampaignShape, CandidatesKnown
    <2>3. PICK q \in PendingCandidates : q = proc'.pending
      BY <1>1 DEF CampaignProcesses
    <2>8. PendingKnown(q)' /\ q # Absent
      <3>4. CASE t \in signalled /\ p = NoPending
        <4>1. q = [signal |-> t, confirmed |-> FALSE]
          BY <1>1, <2>3, <3>4
        <4>2. Occurs("CANDIDATE", t, t)'
          <5>1. first = "CANDIDATE"
            BY <3>4
          <5>2. PICK j \in New : events'[j] = Event(first, t, t)
            BY <1>4, <3>4
          <5> QED BY <5>1, <5>2 DEF Occurs, Event
        <4>3. PendingKnown(q)' /\ q # Absent
          <5>1. q.signal = t /\ ~q.confirmed
            BY <4>1
          <5> QED BY <1>2, <1>7, <4>2, <5>1 DEF PendingKnown
        <4> QED BY <2>3, <4>3
      <3>5. CASE ~(t \in signalled /\ p = NoPending) /\ Observe(p, t).left = NoPending
        <4>1. q = NoPending
          BY <1>1, <2>3, <3>5
        <4> QED BY <1>7, <2>3, <4>1 DEF PendingKnown
      <3>6. CASE ~(t \in signalled /\ p = NoPending) /\ p # NoPending /\ Observe(p, t).left = p
        <4>1. q = p
          BY <1>1, <2>3, <3>6
        <4>2. PendingKnown(p) /\ p # Absent
          BY DEF HistoricalInv, CandidatesKnown
        <4> QED BY <2>1, <2>3, <4>1, <4>2
      <3>7. CASE /\ ~(t \in signalled /\ p = NoPending) /\ p # NoPending /\ t = c + 1 /\ t \in passing
                 /\ state = "CONFIRMED" /\ Observe(p, t).left = [signal |-> c, confirmed |-> TRUE]
        <4>1. q = [signal |-> c, confirmed |-> TRUE]
          BY <1>1, <2>3, <3>7
        <4>2. Occurs("CANDIDATE", c, c) /\ c # 0
          BY <1>3, <3>7
        <4>3. PICK i \in DOMAIN events : events[i] = Event("CANDIDATE", c, c)
          BY <4>2 DEF Occurs
        <4>4. PICK j \in New : events'[j] = Event("CONFIRMED", c, t)
          BY <1>4, <3>7 DEF PendingVerdicts, PendingVerdictType
        <4>5. i \in DOMAIN events' /\ events'[i] = Event("CANDIDATE", c, c) /\ i < j
          BY <1>4, <1>6, <4>3
        <4>6. Before(Event("CANDIDATE", c, c), Event("CONFIRMED", c, c + 1))'
          BY <3>7, <4>4, <4>5 DEF Before, Event
        <4>7. q.signal = c /\ q.confirmed
          BY <4>1
        <4>8. PendingKnown(q)' /\ q # Absent
          BY <1>1, <1>6, <1>7, <3>7, <4>2, <4>6, <4>7 DEF PendingKnown
        <4> QED BY <2>3, <4>8
      <3> QED BY <1>3, <3>4, <3>5, <3>6, <3>7
    <2>9. PICK m \in Nat : m = proc'.entry
      BY <1>1 DEF CampaignProcesses
    <2>10. m # 0 => Occurs("ENTRY", m, t)'
      <3>1. SUFFICES ASSUME m # 0 PROVE Occurs("ENTRY", m, t)'
        OBVIOUS
      <3>2. state = "ENTRY_DUE" /\ m = c
        BY <1>1, <2>9, <3>1
      <3>3. PICK j \in New : events'[j] = Event("ENTRY", c, t)
        BY <1>4, <3>2
      <3> QED BY <3>2, <3>3 DEF Occurs, Event
    <2> QED BY <1>1, <2>2, <2>3, <2>8, <2>9, <2>10 DEF CandidatesKnown, PendingKnown, Occurs
  <1>17. NothingMissed'
    <2>1. SUFFICES ASSUME failures' = 0 PROVE NothingMissed'
      BY DEF NothingMissed
    <2>2. /\ failures = 0 /\ \A k \in Recorded : diagnostics.records[k] = (k \in signalled)
          /\ \A k \in Times : Occurs("CANDIDATE", k, k) =>
                IF p.signal = k THEN Ends(k) = {} ELSE \E j \in DOMAIN events : Ends(k) = {j}
      BY <1>1, <2>1 DEF HistoricalInv, NothingMissed
    <2>3. ASSUME NEW k, state \notin PendingVerdicts \ {"CONFIRMED"} \/ k # c
          PROVE  Ends(k)' = Ends(k)
      <3>1. ASSUME NEW j \in New
            PROVE  ~(events'[j].candidate = k /\ events'[j].type \in {"CONFIRMATION_FAILED", "DISPOSITION"})
        <4>1. SUFFICES ASSUME events'[j].type \in {"CONFIRMATION_FAILED", "DISPOSITION"}
                       PROVE  events'[j].candidate # k
          OBVIOUS
        <4>2. state \in PendingVerdicts /\ events'[j] = Event(PendingVerdictType(state), c, t)
          BY <1>9, <4>1
        <4>3. PendingVerdictType(state) # "CONFIRMED"
          BY <4>1, <4>2 DEF Event
        <4>4. state # "CONFIRMED"
          BY <4>3 DEF PendingVerdictType
        <4> QED BY <2>3, <4>2, <4>4 DEF Event
      <3> QED BY <1>4, <1>6, <3>1 DEF Ends
    <2>4. ASSUME NEW k \in Times, Occurs("CANDIDATE", k, k)'
          PROVE  IF proc'.pending.signal = k THEN Ends(k)' = {} ELSE \E j \in DOMAIN events' : Ends(k)' = {j}
      <3>1. k # 0
        BY <1>2, <2>4
      <3>2. CASE k = t
        <4>1. PICK i \in DOMAIN events' : events'[i] = Event("CANDIDATE", t, t)
          BY <2>4, <3>2 DEF Occurs, Event
        <4>2. i \in New
          BY <1>2, <1>4, <4>1 DEF Event
        <4>3. first = "CANDIDATE" /\ t \in signalled
          BY <1>9, <4>1, <4>2 DEF Event
        <4>4. p = NoPending
          BY <4>3
        <4>5. proc'.pending = [signal |-> t, confirmed |-> FALSE]
          BY <1>1, <4>3, <4>4
        <4>6. Ends(t) = {}
          BY <1>2 DEF Ends
        <4>7. state = "NO_PENDING"
          BY <1>3, <4>4
        <4>8. Ends(t)' = {}
          BY <2>3, <4>6, <4>7 DEF PendingVerdicts
        <4> QED BY <3>2, <4>5, <4>8
      <3>3. CASE k # t
        <4>1. Occurs("CANDIDATE", k, k)
          BY <1>15, <2>4, <3>3
        <4>2. IF c = k THEN Ends(k) = {} ELSE \E j \in DOMAIN events : Ends(k) = {j}
          BY <2>2, <4>1
        <4>3. CASE k # c
          <5>1. proc'.pending.signal # k
            <6>1. proc'.pending \in {[signal |-> t, confirmed |-> FALSE], NoPending, p,
                                     [signal |-> c, confirmed |-> TRUE]}
              BY <1>1, <1>3
            <6>2. proc'.pending.signal \in {t, 0, c}
              BY <1>7, <6>1
            <6> QED BY <3>1, <3>3, <4>3, <6>2
          <5>2. PICK j \in DOMAIN events : Ends(k) = {j}
            BY <4>2, <4>3
          <5>3. Ends(k)' = {j} /\ j \in DOMAIN events'
            BY <1>6, <2>3, <4>3, <5>2
          <5> QED BY <5>1, <5>3
        <4>4. CASE k = c /\ state \in PendingVerdicts \ {"CONFIRMED"}
          <5>1. p # NoPending
            BY <1>7, <3>1, <4>4
          <5>2. proc'.pending = NoPending
            BY <1>1, <1>3, <4>4, <5>1 DEF PendingVerdicts
          <5>3. proc'.pending.signal # k
            BY <1>7, <3>1, <5>2
          <5>4. Ends(k) = {}
            BY <4>2, <4>4
          <5>5. PICK j \in New : events'[j] = Event(PendingVerdictType(state), c, t)
            BY <1>4, <4>4
          <5>6. PendingVerdictType(state) \in {"CONFIRMATION_FAILED", "DISPOSITION"}
            BY <4>4 DEF PendingVerdictType, PendingVerdicts
          <5>7. /\ j \in DOMAIN events' /\ events'[j].candidate = k
                /\ events'[j].type = PendingVerdictType(state)
            BY <4>4, <5>5 DEF Event
          <5>8. ASSUME NEW i \in DOMAIN events', events'[i].candidate = k,
                       events'[i].type \in {"CONFIRMATION_FAILED", "DISPOSITION"}
                PROVE  i = j
            <6>1. i \notin DOMAIN events
              BY <1>4, <5>4, <5>8 DEF Ends
            <6>2. events'[i] = Event(PendingVerdictType(state), c, t)
              BY <1>9, <5>8, <6>1
            <6> QED BY <1>4, <5>5, <6>1, <6>2
          <5>9. Ends(k)' = {j}
            BY <5>6, <5>7, <5>8 DEF Ends
          <5> QED BY <5>3, <5>7, <5>9
        <4>5. CASE k = c /\ state \notin PendingVerdicts \ {"CONFIRMED"}
          <5>1. p # NoPending
            BY <1>7, <3>1, <4>5
          <5>2. Observe(p, t).left = p \/ Observe(p, t).left = [signal |-> c, confirmed |-> TRUE]
            BY <1>3, <4>5, <5>1 DEF PendingVerdicts
          <5>3. proc'.pending.signal = c
            BY <1>1, <5>1, <5>2
          <5>4. Ends(k)' = {}
            BY <2>3, <4>2, <4>5
          <5> QED BY <4>5, <5>3, <5>4
        <4> QED BY <4>3, <4>4, <4>5
      <3> QED BY <3>2, <3>3
    <2>5. Times' = Times /\ Recorded' = Recorded /\ diagnostics' = diagnostics /\ signalled' = signalled
      BY <1>1 DEF Times, Recorded
    <2> QED BY <1>1, <2>1, <2>2, <2>4, <2>5 DEF NothingMissed, OnCandle
  <1> QED BY <1>10, <1>11, <1>12, <1>13, <1>14, <1>16, <1>17 DEF HistoricalInv

LEMMA DecideStep ==
    ASSUME HistoricalAssumption, HistoricalInv, Decide
    PROVE  HistoricalInv'
  BY DecidedStep

(* The position told of, and the end of the candidates. *)
LEMMA PositionTold ==
    ASSUME HistoricalAssumption, HistoricalInv, TellPosition,
           NEW t, t = Candle, t \in Nat, NEW c, c = proc.entry, NEW action, action = proc.action
    PROVE  /\ events' \in Seq(CampaignEvents) /\ Len(events) <= Len(events')
           /\ \A i \in DOMAIN events : events'[i] = events[i]
           /\ \A j \in DOMAIN events' \ DOMAIN events :
                 \/ /\ action \in {"OPENED", "BLOCKED"} /\ j = Len(events) + 1
                    /\ events'[j] = Event("POLICY", c, t)
                 \/ action = "OPENED" /\ j = Len(events) + 2 /\ events'[j] = Event("OPENED", c, t)
                 \/ events'[j] = Event("CLOSED", 0, t)
           /\ \A i, j \in DOMAIN events' \ DOMAIN events : i # j => events'[i].type # events'[j].type
           /\ action = "OPENED" => /\ Len(events) + 1 \in DOMAIN events'
                                   /\ events'[Len(events) + 1] = Event("POLICY", c, t)
  <1> DEFINE a == CASE action = "OPENED" -> <<Event("POLICY", c, t), Event("OPENED", c, t)>>
                    [] action = "BLOCKED" -> <<Event("POLICY", c, t)>>
                    [] OTHER -> <<>>
             b == IF proc.closed THEN <<Event("CLOSED", 0, t)>> ELSE <<>>
             d == <<>>
  <1>1. events' = (events \o a) \o b
    BY DEF TellPosition
  <1>2. events \in Seq(CampaignEvents) /\ c \in Nat /\ action \in {"NONE", "IGNORED", "BLOCKED", "OPENED"}
    BY DEF HistoricalInv, CampaignShape, CampaignProcesses
  <1>3. /\ Event("POLICY", c, t) \in CampaignEvents /\ Event("POLICY", c, t).type = "POLICY"
        /\ Event("OPENED", c, t) \in CampaignEvents /\ Event("OPENED", c, t).type = "OPENED"
        /\ Event("CLOSED", 0, t) \in CampaignEvents /\ Event("CLOSED", 0, t).type = "CLOSED"
    BY <1>2 DEF Event, CampaignEvents, EventTypes
  <1>4. /\ a \in Seq(CampaignEvents)
        /\ \A i \in DOMAIN a : \/ i = 1 /\ action \in {"OPENED", "BLOCKED"} /\ a[i] = Event("POLICY", c, t)
                               \/ i = 2 /\ action = "OPENED" /\ a[i] = Event("OPENED", c, t)
        /\ action = "OPENED" => 1 \in DOMAIN a /\ a[1] = Event("POLICY", c, t)
    <2>1. CASE action = "OPENED"
      <3>1. a = <<Event("POLICY", c, t), Event("OPENED", c, t)>>
        BY <2>1
      <3> HIDE DEF a
      <3>2. /\ a \in Seq(CampaignEvents) /\ DOMAIN a = 1 .. 2
            /\ a[1] = Event("POLICY", c, t) /\ a[2] = Event("OPENED", c, t)
        BY <1>3, <3>1
      <3>3. \A i \in 1 .. 2 : i = 1 \/ i = 2
        OBVIOUS
      <3> QED BY <2>1, <3>2, <3>3
    <2>2. CASE action = "BLOCKED"
      <3>1. a = <<Event("POLICY", c, t)>>
        BY <2>2
      <3> HIDE DEF a
      <3> QED BY <1>3, <2>2, <3>1
    <2>3. CASE action \notin {"OPENED", "BLOCKED"}
      <3>1. a = <<>>
        BY <2>3
      <3> HIDE DEF a
      <3> QED BY <2>3, <3>1
    <2> QED BY <2>1, <2>2, <2>3
  <1>5. /\ b \in Seq(CampaignEvents)
        /\ \A i \in DOMAIN b : i = 1 /\ b[i] = Event("CLOSED", 0, t)
    BY <1>3
  <1>6. d \in Seq(CampaignEvents) /\ DOMAIN d = {}
    OBVIOUS
  <1> HIDE DEF a, b
  <1>7. events' = ((events \o a) \o b) \o d
    <2>1. (events \o a) \o b \in Seq(CampaignEvents)
      BY <1>2, <1>4, <1>5, ConcatProperties
    <2> QED BY <1>1, <2>1, ConcatEmptySeq
  <1> HIDE DEF d
  <1>8. ThreePieces(a, b, d)
    BY <1>2, <1>4, <1>5, <1>6, <1>7, PiecesAppended
  <1>9. /\ events' \in Seq(CampaignEvents) /\ Len(events) <= Len(events')
        /\ \A i \in DOMAIN events : events'[i] = events[i]
        /\ \A i \in DOMAIN a : events'[Len(events) + i] = a[i]
                               /\ Len(events) + i \in DOMAIN events' \ DOMAIN events
        /\ \A i \in DOMAIN b : events'[Len(events) + Len(a) + i] = b[i]
        /\ \A j \in DOMAIN events' \ DOMAIN events :
              \/ \E i \in DOMAIN a : j = Len(events) + i
              \/ \E i \in DOMAIN b : j = Len(events) + Len(a) + i
    BY <1>6, <1>8 DEF ThreePieces
  <1>10. ASSUME NEW j \in DOMAIN events' \ DOMAIN events
         PROVE  \/ /\ action \in {"OPENED", "BLOCKED"} /\ j = Len(events) + 1
                   /\ events'[j] = Event("POLICY", c, t)
                \/ action = "OPENED" /\ j = Len(events) + 2 /\ events'[j] = Event("OPENED", c, t)
                \/ j = Len(events) + Len(a) + 1 /\ events'[j] = Event("CLOSED", 0, t)
    <2>1. CASE \E i \in DOMAIN a : j = Len(events) + i
      BY <1>4, <1>9, <2>1
    <2>2. CASE \E i \in DOMAIN b : j = Len(events) + Len(a) + i
      BY <1>5, <1>9, <2>2
    <2> QED BY <1>9, <2>1, <2>2
  <1>11. ASSUME NEW i \in DOMAIN events' \ DOMAIN events, NEW j \in DOMAIN events' \ DOMAIN events, i # j
         PROVE  events'[i].type # events'[j].type
    <2>1. \/ i = Len(events) + 1 /\ events'[i].type = "POLICY"
          \/ i = Len(events) + 2 /\ events'[i].type = "OPENED"
          \/ i = Len(events) + Len(a) + 1 /\ events'[i].type = "CLOSED"
      BY <1>3, <1>10
    <2>2. \/ j = Len(events) + 1 /\ events'[j].type = "POLICY"
          \/ j = Len(events) + 2 /\ events'[j].type = "OPENED"
          \/ j = Len(events) + Len(a) + 1 /\ events'[j].type = "CLOSED"
      BY <1>3, <1>10
    <2> QED BY <1>11, <2>1, <2>2
  <1>12. action = "OPENED" => /\ Len(events) + 1 \in DOMAIN events'
                              /\ events'[Len(events) + 1] = Event("POLICY", c, t)
    BY <1>4, <1>9
  <1> QED BY <1>9, <1>10, <1>11, <1>12

LEMMA ToldStep ==
    ASSUME HistoricalAssumption, HistoricalInv, TellPosition,
           NEW t, t = Candle, NEW c, c = proc.entry, NEW action, action = proc.action
    PROVE  HistoricalInv'
  <1> DEFINE New == DOMAIN events' \ DOMAIN events
  <1>1. /\ proc.stage = "tell"
        /\ proc' = [proc EXCEPT !.stage = "claim", !.next = proc.next + 1, !.action = "NONE", !.closed = FALSE]
        /\ UNCHANGED <<series, signalled, passing, code, diagnostics, sealed, confirmFile, obsRow, openBeat,
                       summaryOut, failures, decidedUnder>>
    BY DEF TellPosition, inputs
  <1>2. /\ proc' \in CampaignProcesses /\ proc'.stage = "claim" /\ proc'.next = proc.next + 1
        /\ proc'.pending = proc.pending
    <2>1. proc \in CampaignProcesses /\ proc.next \in Nat
      BY DEF HistoricalInv, CampaignShape, CampaignProcesses
    <2>2. PICK n \in Nat : n = proc.next + 1
      BY <2>1
    <2>3. proc' = [proc EXCEPT !.stage = "claim", !.next = n, !.action = "NONE", !.closed = FALSE]
      BY <1>1, <2>2
    <2> QED BY <2>1, <2>2, <2>3 DEF CampaignProcesses, Stages
  <1>3. /\ proc.next = Done /\ Done \in Nat /\ Done > 0 /\ Recorded = FirstCandles(Done)
        /\ Done \in 0 .. Len(series)
    BY <1>1, CandleTimes DEF HistoricalInv, CampaignShape, RecordsFollow
  <1>4. t \in Recorded /\ t \in Times /\ t \in Nat
    <2>1. /\ DOMAIN series = 1 .. Len(series) /\ Len(series) \in Nat
          /\ \A i \in DOMAIN series : series[i] \in Nat \ {0}
      BY CandleTimes DEF HistoricalInv, CampaignShape
    <2>2. t = series[Done] /\ Done \in DOMAIN series
      BY <1>3, <2>1 DEF Candle
    <2> QED BY <1>3, <2>1, <2>2 DEF FirstCandles, Times
  <1>5. /\ events' \in Seq(CampaignEvents) /\ Len(events) <= Len(events')
        /\ \A i \in DOMAIN events : events'[i] = events[i]
        /\ \A j \in New :
              \/ /\ action \in {"OPENED", "BLOCKED"} /\ j = Len(events) + 1
                 /\ events'[j] = Event("POLICY", c, t)
              \/ action = "OPENED" /\ j = Len(events) + 2 /\ events'[j] = Event("OPENED", c, t)
              \/ events'[j] = Event("CLOSED", 0, t)
        /\ \A i, j \in New : i # j => events'[i].type # events'[j].type
        /\ action = "OPENED" => /\ Len(events) + 1 \in DOMAIN events'
                                /\ events'[Len(events) + 1] = Event("POLICY", c, t)
    BY <1>4, PositionTold
  <1>6. events \in Seq(CampaignEvents) /\ c \in Nat
    BY DEF HistoricalInv, CampaignShape, CampaignProcesses
  <1>7. /\ DOMAIN events \subseteq DOMAIN events' /\ DOMAIN events = 1 .. Len(events)
        /\ DOMAIN events' = 1 .. Len(events') /\ Len(events) \in Nat /\ Len(events') \in Nat
        /\ \A type, k, at : Occurs(type, k, at) => Occurs(type, k, at)'
        /\ \A x, y : Before(x, y) => Before(x, y)'
    BY <1>5, <1>6, EventsAppended
  <1>8. ASSUME action \in {"OPENED", "BLOCKED"}
        PROVE  \E i \in DOMAIN events : events[i] = Event("ENTRY", c, t)
    BY <1>1, <1>8 DEF HistoricalInv, CandidatesKnown, Occurs
  <1>9. action \in {"OPENED", "BLOCKED"} => c <= t
    <2>1. SUFFICES ASSUME action \in {"OPENED", "BLOCKED"} PROVE c <= t
      OBVIOUS
    <2>2. PICK i \in DOMAIN events : events[i] = Event("ENTRY", c, t)
      BY <1>8, <2>1
    <2> QED BY <2>2 DEF HistoricalInv, EventsDated, Event
  <1>10. ASSUME NEW j \in New
         PROVE  /\ events'[j].at = t /\ events'[j].candidate <= t
                /\ events'[j].type \in {"POLICY", "OPENED", "CLOSED"}
                /\ events'[j].type = "OPENED" => /\ action = "OPENED" /\ j = Len(events) + 2
                                                 /\ events'[j] = Event("OPENED", c, t)
    BY <1>4, <1>5, <1>9 DEF Event
  <1>11. CampaignShape'
    BY <1>1, <1>2, <1>5 DEF HistoricalInv, CampaignShape
  <1>12. RecordsFollow'
    BY <1>1, <1>2, <1>3 DEF HistoricalInv, RecordsFollow, OnCandle, Recorded, Done, FirstCandles
  <1>13. CompletedInOrder'
    BY <1>1, <1>2 DEF HistoricalInv, CompletedInOrder, Done, Recorded
  <1>14. EventsDated'
    <2>1. ASSUME NEW i \in DOMAIN events'
          PROVE  /\ events'[i].at \in Times /\ events'[i].candidate <= events'[i].at
                 /\ events'[i].at \in Recorded \/ events'[i].at = obsRow.at
                 /\ events'[i].type \in {"POLICY", "OPENED", "CLOSED"} => events'[i].at \in Recorded
                 /\ events'[i].type \in {"CANDIDATE", "OVERLAP"} => events'[i].candidate = events'[i].at
      <3>1. CASE i \in DOMAIN events
        BY <1>5, <3>1 DEF HistoricalInv, EventsDated
      <3>2. CASE i \in New
        BY <1>4, <1>10, <3>2
      <3> QED BY <3>1, <3>2
    <2>2. Times' = Times /\ Recorded' = Recorded
      BY <1>1 DEF Times, Recorded
    <2> QED BY <1>1, <1>2, <2>1, <2>2 DEF EventsDated
  <1>15. CandidatesInOrder'
    <2>1. ASSUME NEW i \in DOMAIN events, NEW j \in New
          PROVE  events'[i] # events'[j]
      <3>1. SUFFICES ASSUME events'[i] = events'[j] PROVE FALSE
        OBVIOUS
      <3>2. events[i].type \in {"POLICY", "OPENED", "CLOSED"} /\ events[i].at = t
        BY <1>5, <1>10, <3>1
      <3> QED BY <1>1, <3>2 DEF HistoricalInv, EventsDated
    <2>2. ASSUME NEW e \in CampaignEvents, NEW i \in New, e = events'[i]
          PROVE  EventInOrder(e)'
      <3>1. CASE e.type # "OPENED"
        BY <1>10, <2>2, <3>1 DEF EventInOrder
      <3>2. CASE e.type = "OPENED"
        <4>1. action = "OPENED" /\ i = Len(events) + 2 /\ e = Event("OPENED", c, t)
          BY <1>10, <2>2, <3>2
        <4>2. PICK k \in DOMAIN events : events[k] = Event("ENTRY", c, t)
          BY <1>8, <4>1
        <4>3. /\ k \in DOMAIN events' /\ k < i /\ events'[k] = Event("ENTRY", c, t)
              /\ Len(events) + 1 \in DOMAIN events' /\ Len(events) + 1 < i
              /\ events'[Len(events) + 1] = Event("POLICY", c, t)
          BY <1>5, <1>7, <4>1, <4>2
        <4>4. Before(Event("ENTRY", c, t), e)' /\ Before(Event("POLICY", c, t), e)'
          <5>1. /\ \E x, y \in DOMAIN events' : x < y /\ events'[x] = Event("ENTRY", c, t) /\ events'[y] = e
                /\ \E x, y \in DOMAIN events' : x < y /\ events'[x] = Event("POLICY", c, t) /\ events'[y] = e
            BY <2>2, <4>3
          <5> QED BY <5>1 DEF Before, Event
        <4>5. e.candidate = c /\ e.at = t /\ e.type = "OPENED"
          BY <4>1 DEF Event
        <4> QED BY <4>4, <4>5 DEF EventInOrder, Event
      <3> QED BY <3>1, <3>2
    <2>3. \A e \in CampaignEvents :
               (\E i \in DOMAIN events' \ DOMAIN events : e = events'[i]) => EventInOrder(e)'
      BY <2>2
    <2> QED BY <1>1, <1>5, <1>6, <2>1, <2>3, NothingRepeated DEF HistoricalInv
  <1>16. CandidatesKnown'
    BY <1>1, <1>2, <1>7 DEF HistoricalInv, CandidatesKnown, PendingKnown
  <1>17. NothingMissed'
    <2>1. SUFFICES ASSUME failures' = 0 PROVE NothingMissed'
      BY DEF NothingMissed
    <2>2. \A k : Ends(k)' = Ends(k)
      BY <1>5, <1>7, <1>10 DEF Ends
    <2>3. ASSUME NEW k, Occurs("CANDIDATE", k, k)'
          PROVE  Occurs("CANDIDATE", k, k)
      <3>1. PICK i \in DOMAIN events' : events'[i] = Event("CANDIDATE", k, k)
        BY <2>3 DEF Occurs, Event
      <3>2. i \in DOMAIN events
        BY <1>10, <3>1 DEF Event
      <3> QED BY <1>5, <3>1, <3>2 DEF Occurs
    <2>4. Times' = Times /\ Recorded' = Recorded
      BY <1>1 DEF Times, Recorded
    <2>5. \A k \in Times : Occurs("CANDIDATE", k, k)' =>
              IF proc'.pending.signal = k THEN Ends(k)' = {} ELSE \E j \in DOMAIN events' : Ends(k)' = {j}
      BY <1>1, <1>2, <1>7, <2>1, <2>2, <2>3 DEF HistoricalInv, NothingMissed
    <2> QED BY <1>1, <1>2, <2>1, <2>4, <2>5 DEF HistoricalInv, NothingMissed, OnCandle
  <1> QED BY <1>11, <1>12, <1>13, <1>14, <1>15, <1>16, <1>17 DEF HistoricalInv

LEMMA TellStep ==
    ASSUME HistoricalAssumption, HistoricalInv, TellPosition
    PROVE  HistoricalInv'
  BY ToldStep

LEMMA FinishedStep ==
    ASSUME HistoricalAssumption, HistoricalInv, FinishCandidates,
           NEW p, p = proc.pending, NEW c, c = p.signal, NEW last, last = series[Len(series)]
    PROVE  HistoricalInv'
  <1> DEFINE New == DOMAIN events' \ DOMAIN events
  <1>1. /\ proc.stage = "claim" /\ proc.next > Len(series)
        /\ events' = IF p = NoPending THEN events ELSE Append(events, Event("DISPOSITION", c, last))
        /\ confirmFile' = NoPending
        /\ proc' = [proc EXCEPT !.stage = "seal", !.pending = NoPending]
        /\ UNCHANGED <<series, signalled, passing, code, diagnostics, sealed, obsRow, openBeat, summaryOut,
                       failures, decidedUnder>>
    BY DEF FinishCandidates, inputs
  <1>2. NoPending = [signal |-> 0, confirmed |-> FALSE] /\ Absent = [signal |-> 0, confirmed |-> TRUE]
        /\ NoPending \in PendingCandidates /\ NoPending # Absent /\ NoPending.signal = 0
    BY DEF NoPending, Absent, PendingCandidates
  <1>3. proc' \in CampaignProcesses /\ proc'.stage = "seal" /\ proc'.pending = NoPending
    BY <1>1, <1>2 DEF HistoricalInv, CampaignShape, CampaignProcesses, Stages
  <1>4. /\ DOMAIN series = 1 .. Len(series) /\ Len(series) \in Nat
        /\ \A i \in DOMAIN series : series[i] \in Nat \ {0}
        /\ \A i, j \in DOMAIN series : i < j => series[i] < series[j]
    BY CandleTimes DEF HistoricalInv, CampaignShape
  <1>5. Done = Len(series) /\ Recorded = Times
    BY <1>1, <1>4 DEF HistoricalInv, RecordsFollow, FirstCandles, Times
  <1>6. /\ p \in PendingCandidates /\ c \in Nat
        /\ p # NoPending => c # 0 /\ \E i \in DOMAIN events : events[i] = Event("CANDIDATE", c, c)
    <2>1. p \in PendingCandidates /\ p # Absent /\ PendingKnown(p)
      BY DEF HistoricalInv, CampaignShape, CampaignProcesses, CandidatesKnown
    <2> QED BY <2>1 DEF PendingCandidates, PendingKnown, Occurs
  <1>7. p # NoPending => c \in Times /\ last \in Times /\ c <= last /\ last \in Nat
    <2>1. SUFFICES ASSUME p # NoPending PROVE c \in Times /\ last \in Times /\ c <= last /\ last \in Nat
      OBVIOUS
    <2>2. PICK i \in DOMAIN events : events[i] = Event("CANDIDATE", c, c)
      BY <1>6, <2>1
    <2>3. c \in Times
      BY <2>2 DEF HistoricalInv, EventsDated, Event
    <2>4. PICK k \in DOMAIN series : c = series[k]
      BY <2>3 DEF Times
    <2>5. Len(series) \in DOMAIN series /\ (k = Len(series) \/ k < Len(series))
      BY <1>4
    <2>6. last \in Times /\ last \in Nat
      BY <1>4, <2>5 DEF Times
    <2>7. c <= last
      BY <1>4, <2>4, <2>5, <2>6
    <2> QED BY <2>3, <2>6, <2>7
  <1>8. events \in Seq(CampaignEvents)
    BY DEF HistoricalInv, CampaignShape
  <1>9. /\ Event("DISPOSITION", c, last).type = "DISPOSITION" /\ Event("DISPOSITION", c, last).candidate = c
        /\ Event("DISPOSITION", c, last).at = last
        /\ p # NoPending => Event("DISPOSITION", c, last) \in CampaignEvents
    BY <1>6, <1>7 DEF Event, CampaignEvents, EventTypes
  <1>10. /\ events' \in Seq(CampaignEvents) /\ Len(events) <= Len(events')
         /\ \A i \in DOMAIN events : events'[i] = events[i]
         /\ \A j \in New : p # NoPending /\ j = Len(events) + 1 /\ events'[j] = Event("DISPOSITION", c, last)
         /\ p # NoPending => /\ Len(events) + 1 \in New
                             /\ events'[Len(events) + 1] = Event("DISPOSITION", c, last)
    <2>1. CASE p = NoPending
      <3>1. events' = events
        BY <1>1, <2>1
      <3> QED BY <1>8, <2>1, <3>1
    <2>2. CASE p # NoPending
      <3>1. PICK e \in CampaignEvents : e = Event("DISPOSITION", c, last)
        BY <1>9, <2>2
      <3>2. events' = Append(events, e)
        BY <1>1, <2>2, <3>1
      <3> QED BY <1>8, <2>2, <3>1, <3>2
    <2> QED BY <2>1, <2>2
  <1>11. /\ DOMAIN events \subseteq DOMAIN events' /\ DOMAIN events = 1 .. Len(events)
         /\ DOMAIN events' = 1 .. Len(events') /\ Len(events) \in Nat /\ Len(events') \in Nat
         /\ \A type, k, at : Occurs(type, k, at) => Occurs(type, k, at)'
         /\ \A x, y : Before(x, y) => Before(x, y)'
    BY <1>8, <1>10, EventsAppended
  <1>12. CampaignShape'
    BY <1>1, <1>2, <1>3, <1>10 DEF HistoricalInv, CampaignShape
  <1>13. RecordsFollow'
    BY <1>1, <1>3, <1>5 DEF HistoricalInv, RecordsFollow, OnCandle, Recorded, Done, FirstCandles
  <1>14. CompletedInOrder'
    BY <1>1, <1>3 DEF HistoricalInv, CompletedInOrder, Done, Recorded
  <1>15. EventsDated'
    <2>1. ASSUME NEW i \in DOMAIN events'
          PROVE  /\ events'[i].at \in Times /\ events'[i].candidate <= events'[i].at
                 /\ events'[i].at \in Recorded \/ events'[i].at = obsRow.at
                 /\ events'[i].type \in {"POLICY", "OPENED", "CLOSED"} => events'[i].at \in Recorded
                 /\ events'[i].type \in {"CANDIDATE", "OVERLAP"} => events'[i].candidate = events'[i].at
      <3>1. CASE i \in DOMAIN events
        BY <1>10, <3>1 DEF HistoricalInv, EventsDated
      <3>2. CASE i \in New
        BY <1>5, <1>7, <1>9, <1>10, <3>2
      <3> QED BY <3>1, <3>2
    <2>2. Times' = Times /\ Recorded' = Recorded
      BY <1>1 DEF Times, Recorded
    <2> QED BY <1>1, <1>3, <2>1, <2>2 DEF EventsDated
  <1>16. failures = 0 => IF p = NoPending THEN TRUE ELSE Ends(c) = {}
    <2>1. SUFFICES ASSUME failures = 0, p # NoPending PROVE Ends(c) = {}
      OBVIOUS
    <2>2. c \in Times /\ Occurs("CANDIDATE", c, c)
      BY <1>6, <1>7, <2>1 DEF Occurs
    <2> QED BY <2>1, <2>2 DEF HistoricalInv, NothingMissed
  <1>17. CandidatesInOrder'
    <2>1. ASSUME NEW i \in DOMAIN events, NEW j \in New
          PROVE  events'[i] # events'[j] \/ (events'[j].type = "DISPOSITION" /\ failures > 0)
      <3>1. p # NoPending /\ events'[j] = Event("DISPOSITION", c, last)
        BY <1>10
      <3>2. CASE failures > 0
        BY <1>9, <3>1, <3>2
      <3>3. CASE ~(failures > 0)
        <4>1. failures = 0
          BY <3>3 DEF HistoricalInv, CampaignShape
        <4>2. Ends(c) = {}
          BY <1>16, <3>1, <4>1
        <4> QED BY <1>9, <1>10, <3>1, <4>2 DEF Ends
      <3> QED BY <3>2, <3>3
    <2>2. ASSUME NEW e \in CampaignEvents, NEW i \in New, e = events'[i]
          PROVE  EventInOrder(e)'
      BY <1>9, <1>10, <2>2 DEF EventInOrder
    <2>3. \A e \in CampaignEvents :
               (\E i \in DOMAIN events' \ DOMAIN events : e = events'[i]) => EventInOrder(e)'
      BY <2>2
    <2>4. \A i, j \in DOMAIN events' \ DOMAIN events : i # j => events'[i].type # events'[j].type
      BY <1>10
    <2> QED BY <1>1, <1>8, <1>10, <2>1, <2>3, <2>4, NothingRepeated DEF HistoricalInv
  <1>18. CandidatesKnown'
    BY <1>1, <1>2, <1>3 DEF HistoricalInv, CandidatesKnown, PendingKnown
  <1>19. NothingMissed'
    <2>1. SUFFICES ASSUME failures' = 0 PROVE NothingMissed'
      BY DEF NothingMissed
    <2>2. Times' = Times /\ Recorded' = Recorded /\ failures = 0
      BY <1>1, <2>1 DEF Times, Recorded
    <2>3. ASSUME NEW k \in Times, Occurs("CANDIDATE", k, k)'
          PROVE  proc'.pending.signal # k /\ \E j \in DOMAIN events' : Ends(k)' = {j}
      <3>1. k # 0 /\ proc'.pending.signal # k
        BY <1>2, <1>3, <1>4 DEF Times
      <3>2. PICK i \in DOMAIN events' : events'[i] = Event("CANDIDATE", k, k)
        BY <2>3 DEF Occurs, Event
      <3>3. i \in DOMAIN events
        BY <1>9, <1>10, <3>2 DEF Event
      <3>4. Occurs("CANDIDATE", k, k)
        BY <1>10, <3>2, <3>3 DEF Occurs
      <3>5. IF c = k THEN Ends(k) = {} ELSE \E j \in DOMAIN events : Ends(k) = {j}
        BY <2>2, <3>4 DEF HistoricalInv, NothingMissed
      <3>6. CASE c = k
        <4>1. p # NoPending
          <5>1. p = NoPending => c = 0
            BY <1>2
          <5> QED BY <3>1, <3>6, <5>1
        <4>2. PICK j \in New : j = Len(events) + 1 /\ events'[j] = Event("DISPOSITION", c, last)
          BY <1>10, <4>1
        <4>3. Ends(k)' = {j}
          BY <1>9, <1>10, <1>11, <3>5, <3>6, <4>2 DEF Ends
        <4> QED BY <3>1, <4>3
      <3>7. CASE c # k
        <4>1. PICK j \in DOMAIN events : Ends(k) = {j}
          BY <3>5, <3>7
        <4>2. Ends(k)' = Ends(k)
          BY <1>9, <1>10, <1>11, <3>7 DEF Ends
        <4> QED BY <1>11, <3>1, <4>1, <4>2
      <3> QED BY <3>6, <3>7
    <2>4. /\ obsRow.state = "COMPLETE" /\ obsRow.at \in Recorded \cup {0}
          /\ \A k \in Recorded : diagnostics.records[k] = (k \in signalled)
      BY <1>1, <2>2 DEF HistoricalInv, NothingMissed, OnCandle
    <2> QED BY <1>1, <1>3, <2>1, <2>2, <2>3, <2>4 DEF NothingMissed, OnCandle
  <1> QED BY <1>12, <1>13, <1>14, <1>15, <1>17, <1>18, <1>19 DEF HistoricalInv

LEMMA FinishStep ==
    ASSUME HistoricalAssumption, HistoricalInv, FinishCandidates
    PROVE  HistoricalInv'
  BY FinishedStep

LEMMA HistoricalStep ==
    ASSUME HistoricalAssumption, HistoricalInv, [HistoricalNext]_historicalVars
    PROVE  HistoricalInv'
  <1>1. CASE HistoricalNext
    BY <1>1, StartStep, ClaimStep, DecideStep, CandleStep, RecordStep, TellStep, FinishStep, EndStep
    DEF HistoricalNext
  <1>2. CASE UNCHANGED historicalVars
    <2>1. UNCHANGED <<series, signalled, passing, code, diagnostics, sealed, events, confirmFile, obsRow,
                      openBeat, summaryOut, proc, failures, decidedUnder>>
      BY <1>2 DEF historicalVars
    <2>2. /\ Recorded' = Recorded /\ Done' = Done /\ Times' = Times /\ Candle' = Candle
          /\ \A n : FirstCandles(n)' = FirstCandles(n)
      BY <2>1 DEF Recorded, Done, Times, Candle, FirstCandles
    <2>3. /\ \A type, c, at : Occurs(type, c, at)' <=> Occurs(type, c, at)
          /\ \A a, b : Before(a, b)' <=> Before(a, b)
          /\ \A c : Ends(c)' = Ends(c)
      BY <2>1 DEF Occurs, Before, Ends
    <2>4. CampaignShape' /\ RecordsFollow' /\ CompletedInOrder'
      BY <2>1, <2>2 DEF HistoricalInv, CampaignShape, RecordsFollow, CompletedInOrder, OnCandle, FirstCandles
    <2>5. EventsDated' /\ CandidatesInOrder'
      BY <2>1, <2>2, <2>3 DEF HistoricalInv, EventsDated, CandidatesInOrder
    <2>6. CandidatesKnown'
      BY <2>1, <2>2, <2>3 DEF HistoricalInv, CandidatesKnown, PendingKnown
    <2>7. NothingMissed'
      BY <2>1, <2>2, <2>3 DEF HistoricalInv, NothingMissed, OnCandle
    <2> QED BY <2>4, <2>5, <2>6, <2>7 DEF HistoricalInv
  <1> QED BY <1>1, <1>2

LEMMA HistoricalFollows ==
    ASSUME HistoricalAssumption, HistoricalInv
    PROVE  HistoricalTypeOK /\ HistoricalSound
  <1> USE DEF HistoricalInv
  <1>1. /\ Recorded = FirstCandles(Done) /\ Done \in 0 .. Len(series) /\ series \in Datasets
        /\ DOMAIN series = 1 .. Len(series) /\ Len(series) \in Nat
        /\ \A i \in DOMAIN series : series[i] \in Nat \ {0}
    BY CandleTimes DEF CampaignShape, RecordsFollow
  <1>2. HistoricalTypeOK
    <2>1. Recorded \subseteq Times
      BY <1>1, FirstCandlesCounted
    <2> QED BY <2>1 DEF HistoricalTypeOK, CampaignShape, Recorded, Times
  <1>3. diagnostics.status = "COMPLETED" => Recorded = Times
    BY <1>1 DEF CompletedInOrder, FirstCandles, Times
  <1>4. Cardinality(decidedUnder) <= 1
    <2>1. decidedUnder \subseteq {sealed.fingerprint}
      BY DEF CompletedInOrder
    <2>2. decidedUnder = {} \/ decidedUnder = {sealed.fingerprint}
      BY <2>1
    <2>3. \A x : Cardinality({x}) = 1
      BY FS_Singleton
    <2>4. Cardinality({}) = 0
      BY FS_EmptySet
    <2>5. Cardinality(decidedUnder) \in {0, 1}
      BY <2>2, <2>3, <2>4
    <2> QED BY <2>5
  <1>5. ASSUME diagnostics.status = "COMPLETED", failures = 0,
               NEW i \in DOMAIN events, events[i].type = "CANDIDATE"
        PROVE  Cardinality(Ends(events[i].candidate)) = 1
    <2>1. PICK c \in Times : events[i].candidate = c /\ events[i].at = c
      BY <1>5 DEF EventsDated
    <2>2. events[i] \in CampaignEvents
      BY DEF CampaignShape
    <2>3. events[i] = Event("CANDIDATE", c, c)
      BY <1>5, <2>1, <2>2 DEF CampaignEvents, Event
    <2>4. Occurs("CANDIDATE", c, c) /\ c # 0
      BY <1>1, <2>3 DEF Occurs, Times
    <2>5. proc.pending = NoPending
      <3>1. NoProcess.pending = NoPending
        BY DEF NoProcess
      <3> QED BY <1>5, <3>1 DEF CompletedInOrder, CampaignShape, NothingMissed
    <2>6. NoPending.signal = 0
      BY DEF NoPending
    <2>7. PICK j \in DOMAIN events : Ends(c) = {j}
      BY <1>5, <2>4, <2>5, <2>6 DEF NothingMissed
    <2> QED BY <2>1, <2>7, FS_Singleton
  <1>6. SummariesAreComplete
    BY <1>3, <1>4, <1>5 DEF SummariesAreComplete, CompletedInOrder, NothingMissed, Recorded, Times, Ends
  <1> QED BY <1>2, <1>6 DEF HistoricalSound

\* Through deaths, resumes and plain restarts of a campaign, an entry is of a candidate confirmed
\* at the next candle and made at the one after, no evidence is told twice but a candidate's end,
\* and a published summary is of sealed evidence and a record of every candle under one fingerprint;
\* nothing having failed, each record is of its own candle and each candidate came to one end.
THEOREM HistoricalSafe ==
    ASSUME HistoricalAssumption
    PROVE  HistoricalSpec => [](HistoricalTypeOK /\ HistoricalSound)
  <1>1. HistoricalInit => HistoricalInv
    BY CampaignStarts
  <1>2. HistoricalInv /\ [HistoricalNext]_historicalVars => HistoricalInv'
    BY HistoricalStep
  <1>3. HistoricalInv => HistoricalTypeOK /\ HistoricalSound
    BY HistoricalFollows
  <1> QED BY <1>1, <1>2, <1>3, PTL DEF HistoricalSpec

(***************************************************************************)
(* The terminal audit.                                                     *)
(***************************************************************************)
AuditSpec == AuditInit /\ [][AuditNext]_auditVars

TradesDiffer ==
    \A m, n \in DOMAIN trades : m # n => trades[m].id = NoId \/ trades[m].id # trades[n].id

AuditInv ==
    /\ AuditTypeOK /\ TradesDiffer
    /\ report = "unclean" => latched /\ stopSetting /\ ~auditing

\* A finite set of places has a first and a last one.
LEMMA FirstAndLast ==
    ASSUME NEW N \in Nat, NEW S \in SUBSET (1 .. N), S # {}
    PROVE  Max(S) \in S /\ Min(S) \in S
  <1>1. \E x \in S : \A y \in S : x <= y
    <2>1. S \in SUBSET Nat
      OBVIOUS
    <2> QED BY <2>1, NatHasLeast
  <1>2. \E x \in S : \A y \in S : x >= y
    <2> DEFINE T == {n \in Nat : \A y \in S : y <= n}
    <2>1. N \in T
      OBVIOUS
    <2>2. PICK n \in T : \A m \in T : n <= m
      <3>1. T \in SUBSET Nat /\ T # {}
        BY <2>1
      <3> HIDE DEF T
      <3> QED BY <3>1, NatHasLeast
    <2>3. ASSUME n \notin S PROVE FALSE
      <3>1. n - 1 \in Nat
        <4>1. PICK y \in S : TRUE
          OBVIOUS
        <4>2. y \in 1 .. N /\ y <= n /\ n \in Nat
          OBVIOUS
        <4> QED BY <4>2
      <3>2. \A y \in S : y <= n - 1
        BY <2>3
      <3> QED BY <3>1, <3>2, <2>2
    <2> QED BY <2>3
  <1> QED BY <1>1, <1>2 DEF Max, Min

\* The matched ids are what the recursion says: it has a solution over any listing.
NextMatched(known, k, before) ==
    before \cup ({trades[n].id : n \in MatchOf(known, listing[k], before)} \ {NoId})
Matches(f, known, n) ==
    f = [k \in 0 .. n |-> IF k = 0 THEN {} ELSE NextMatched(known, k, f[k - 1])]

LEMMA MatchingExists ==
    ASSUME NEW known, NEW n \in Nat
    PROVE  \E f : Matches(f, known, n)
  <1> DEFINE S == {m \in Nat : ~\E f : Matches(f, known, m)}
  <1> SUFFICES ASSUME S # {} PROVE FALSE
    OBVIOUS
  <1>1. PICK m \in S : \A k \in S : m <= k
    <2>1. S \in SUBSET Nat
      OBVIOUS
    <2> HIDE DEF S
    <2> QED BY <2>1, NatHasLeast
  <1>2. CASE m = 0
    <2> DEFINE f == [k \in 0 .. 0 |-> {}]
    <2>1. f = [k \in 0 .. 0 |-> IF k = 0 THEN {} ELSE NextMatched(known, k, f[k - 1])]
      OBVIOUS
    <2>2. Matches(f, known, m)
      BY <2>1, <1>2 DEF Matches
    <2> QED BY <2>2
  <1>3. CASE m # 0
    <2>1. m \in Nat /\ m - 1 \in Nat /\ m - 1 \notin S
      BY <1>1, <1>3
    <2>2. PICK g : Matches(g, known, m - 1)
      BY <2>1
    <2>3. \A k \in 0 .. m - 1 : g[k] = IF k = 0 THEN {} ELSE NextMatched(known, k, g[k - 1])
      BY <2>2 DEF Matches
    <2> DEFINE f == [k \in 0 .. m |-> IF k = m THEN NextMatched(known, m, g[m - 1]) ELSE g[k]]
    <2>4. ASSUME NEW k \in 0 .. m
          PROVE  f[k] = IF k = 0 THEN {} ELSE NextMatched(known, k, f[k - 1])
      <3>1. CASE k = m
        <4>1. f[k - 1] = g[m - 1] /\ k # 0
          BY <3>1, <2>1, <1>3
        <4>2. f[k] = NextMatched(known, m, g[m - 1])
          BY <3>1
        <4> QED BY <3>1, <4>1, <4>2
      <3>2. CASE k # m
        <4>1. k \in 0 .. m - 1 /\ f[k] = g[k]
          BY <3>2, <2>1
        <4>2. CASE k = 0
          BY <4>1, <4>2, <2>3
        <4>3. CASE k # 0
          <5>1. f[k - 1] = g[k - 1]
            BY <4>1, <4>3, <2>1
          <5>2. g[k] = NextMatched(known, k, g[k - 1])
            BY <4>1, <4>3, <2>3
          <5> QED BY <4>1, <4>3, <5>1, <5>2
        <4> QED BY <4>2, <4>3
      <3> QED BY <3>1, <3>2
    <2>5. Matches(f, known, m)
      <3>1. f = [k \in 0 .. m |-> f[k]]
        OBVIOUS
      <3> HIDE DEF f
      <3> QED BY <3>1, <2>4 DEF Matches
    <2> QED BY <2>5
  <1> QED BY <1>2, <1>3

LEMMA MatchedIdsRecur ==
    ASSUME NEW known, Len(listing) \in Nat
    PROVE  /\ MatchedIds(known)[0] = {}
           /\ \A k \in 1 .. Len(listing) :
                 MatchedIds(known)[k] = NextMatched(known, k, MatchedIds(known)[k - 1])
  <1> DEFINE f == MatchedIds(known)
  <1>1. f = CHOOSE g : Matches(g, known, Len(listing))
    BY DEF MatchedIds, Matches, NextMatched
  <1>2. Matches(f, known, Len(listing))
    BY <1>1, MatchingExists
  <1> HIDE DEF f
  <1>3. \A k \in 0 .. Len(listing) : f[k] = IF k = 0 THEN {} ELSE NextMatched(known, k, f[k - 1])
    BY <1>2 DEF Matches
  <1>4. f[0] = {} /\ \A k \in 1 .. Len(listing) : f[k] = NextMatched(known, k, f[k - 1])
    BY <1>3
  <1> QED BY <1>4 DEF f

\* What a position is matched with: one gathered trade at most.
MatchAt(known, k) == MatchOf(known, listing[k], MatchedIds(known)[k - 1])

LEMMA OneMatch ==
    ASSUME NEW known \in SUBSET DOMAIN trades, AuditTypeOK, NEW k
    PROVE  MatchAt(known, k) = {} \/ \E n \in known : MatchAt(known, k) = {n}
  <1>1. Len(trades) \in Nat /\ DOMAIN trades = 1 .. Len(trades)
    BY DEF AuditTypeOK
  <1>2. \A S \in SUBSET known : S # {} => Max(S) \in known /\ Min(S) \in known
    BY <1>1, FirstAndLast
  <1> QED BY <1>2 DEF MatchAt, MatchOf, TradesById, Unmatched

\* A matched id was matched at some position.
LEMMA MatchedSomewhere ==
    ASSUME NEW known, Len(listing) \in Nat, NEW id \in MatchedIds(known)[Len(listing)]
    PROVE  \E k \in 1 .. Len(listing) : \E n \in MatchAt(known, k) : trades[n].id = id
  <1> DEFINE f == MatchedIds(known)
             S == {k \in 0 .. Len(listing) : id \in f[k]}
  <1>1. PICK k \in S : \A j \in S : k <= j
    <2>1. S \in SUBSET Nat /\ S # {}
      OBVIOUS
    <2> HIDE DEF S
    <2> QED BY <2>1, NatHasLeast
  <1>2. k # 0
    BY MatchedIdsRecur
  <1>3. k \in 1 .. Len(listing) /\ id \notin f[k - 1]
    BY <1>1, <1>2
  <1>4. id \in f[k] /\ f[k] = NextMatched(known, k, f[k - 1])
    BY <1>3, MatchedIdsRecur
  <1> QED BY <1>3, <1>4 DEF NextMatched, MatchAt

LEMMA CleanlyMatched ==
    ASSUME AuditInv, NEW known \in SUBSET DOMAIN trades, CleanlyAudited(known), NEW k \in DOMAIN listing
    PROVE  \E n \in known :
              /\ MatchAt(known, k) = {n} /\ listing[k].ours
              /\ trades[n].symbol = listing[k].symbol /\ trades[n].side = listing[k].side
  <1>1. AuditPosition(known, k) = {}
    BY DEF CleanlyAudited, Discrepancies
  <1>2. MatchAt(known, k) # {}
    BY <1>1 DEF AuditPosition, MatchAt
  <1>3. PICK n \in known : MatchAt(known, k) = {n}
    BY <1>2, OneMatch DEF AuditInv
  <1>4. Mismatches(listing[k], trades[n]) = {}
    BY <1>1, <1>3 DEF AuditPosition, MatchAt
  <1>5. /\ listing[k].symbol = trades[n].symbol /\ listing[k].side = trades[n].side
        /\ listing[k].ours
    BY <1>4 DEF Mismatches
  <1> QED BY <1>3, <1>5

\* A clean audit: each tracked id was matched at a position of its own, on its symbol.
LEMMA CleanAuditIsSound ==
    ASSUME AuditInv, NEW known \in SUBSET DOMAIN trades, CleanlyAudited(known)
    PROVE  \A s \in AuditSymbols : Cardinality(TrackedIdsOn(known, s)) <= Cardinality(OpenOn(s))
  <1> SUFFICES ASSUME NEW s \in AuditSymbols
               PROVE  Cardinality(TrackedIdsOn(known, s)) <= Cardinality(OpenOn(s))
    OBVIOUS
  <1>1. Len(listing) \in Nat /\ DOMAIN listing = 1 .. Len(listing)
    BY DEF AuditInv, AuditTypeOK
  <1>2. ASSUME NEW n \in TrackedIdsOn(known, s)
        PROVE  \E k \in OpenOn(s) : MatchAt(known, k) = {n}
    <2>1. n \in known /\ n \in DOMAIN trades /\ trades[n].symbol = s /\ trades[n].id # NoId
      BY DEF TrackedIdsOn
    <2>2. Phantoms(known) = {}
      <3>1. (IF Phantoms(known) = {} THEN {} ELSE {"PHANTOM_INTERNAL_POSITION"}) = {}
        BY DEF CleanlyAudited, Discrepancies
      <3> QED BY <3>1
    <2>3. trades[n].id \in MatchedIds(known)[Len(listing)]
      BY <2>1, <2>2 DEF Phantoms
    <2>4. PICK k \in 1 .. Len(listing) : \E m \in MatchAt(known, k) : trades[m].id = trades[n].id
      BY <2>3, <1>1, MatchedSomewhere
    <2>5. PICK m \in known : /\ MatchAt(known, k) = {m} /\ trades[m].symbol = listing[k].symbol
      BY <1>1, CleanlyMatched
    <2>6. m = n
      BY <2>1, <2>4, <2>5 DEF AuditInv, TradesDiffer
    <2> QED BY <2>1, <2>4, <2>5, <2>6, <1>1 DEF OpenOn
  <1> DEFINE f == [n \in TrackedIdsOn(known, s) |-> CHOOSE k \in OpenOn(s) : MatchAt(known, k) = {n}]
  <1>3. \A n \in TrackedIdsOn(known, s) : f[n] \in OpenOn(s) /\ MatchAt(known, f[n]) = {n}
    BY <1>2
  <1>4. f \in Injection(TrackedIdsOn(known, s), OpenOn(s))
    <2>1. f \in [TrackedIdsOn(known, s) -> OpenOn(s)]
      BY <1>3
    <2>2. \A m, n \in TrackedIdsOn(known, s) : f[m] = f[n] => m = n
      <3> HIDE DEF f
      <3> QED BY <1>3
    <2> HIDE DEF f
    <2> QED BY <2>1, <2>2 DEF Injection, IsInjective
  <1>5. IsFiniteSet(OpenOn(s))
    <2>1. IsFiniteSet(1 .. Len(listing))
      BY <1>1, FS_Interval
    <2>2. OpenOn(s) \subseteq 1 .. Len(listing)
      BY <1>1 DEF OpenOn
    <2> QED BY <2>1, <2>2, FS_Subset
  <1> QED BY <1>4, <1>5, FS_Injection

LEMMA AuditStarts == AuditAssumption => (AuditInit => AuditInv)
  <1> SUFFICES ASSUME AuditAssumption, AuditInit PROVE AuditInv
    OBVIOUS
  <1>1. listing = <<>> /\ trades = <<>> /\ Len(listing) = 0 /\ Len(trades) = 0
    BY DEF AuditInit
  <1>2. Len(listing) <= MaxListed /\ Len(trades) <= MaxListed
    BY <1>1 DEF AuditAssumption
  <1>3. listing \in Seq(AuditPositions) /\ trades \in Seq(TrackedTrades) /\ DOMAIN trades = {}
    BY <1>1
  <1> QED BY <1>2, <1>3 DEF AuditInit, AuditInv, AuditTypeOK, TradesDiffer

LEMMA AuditStep == AuditAssumption => (AuditInv /\ [AuditNext]_auditVars => AuditInv')
  <1> SUFFICES ASSUME AuditAssumption, AuditInv, [AuditNext]_auditVars PROVE AuditInv'
    OBVIOUS
  <1>1. CASE UNCHANGED auditVars
    BY <1>1 DEF auditVars, AuditInv, AuditTypeOK, TradesDiffer
  <1>2. CASE AuditPass
    BY <1>2 DEF AuditPass, Trip, AuditInv, AuditTypeOK, TradesDiffer
  <1>3. CASE PositionAppears
    <2>1. PICK p \in AuditPositions : listing' = Append(listing, p)
      BY <1>3 DEF PositionAppears
    <2>2. listing' \in Seq(AuditPositions) /\ Len(listing') = Len(listing) + 1 /\ Len(listing) \in Nat
      BY <2>1 DEF AuditInv, AuditTypeOK
    <2>3. Len(listing') <= MaxListed
      BY <1>3, <2>2 DEF PositionAppears, AuditAssumption
    <2> QED BY <1>3, <2>2, <2>3 DEF PositionAppears, AuditInv, AuditTypeOK, TradesDiffer
  <1>4. CASE PositionVanishes
    <2>1. listing' = Tail(listing) /\ listing \in Seq(AuditPositions) /\ listing # <<>>
      BY <1>4 DEF PositionVanishes, AuditInv, AuditTypeOK
    <2>2. listing' \in Seq(AuditPositions) /\ Len(listing') = Len(listing) - 1 /\ Len(listing) \in Nat
      BY <2>1
    <2>3. Len(listing') <= MaxListed
      BY <2>2 DEF AuditInv, AuditTypeOK, AuditAssumption
    <2> QED BY <1>4, <2>2, <2>3 DEF PositionVanishes, AuditInv, AuditTypeOK, TradesDiffer
  <1>5. CASE TradeTracked
    <2>1. PICK t \in TrackedTrades :
             /\ \A i \in 1 .. Len(trades) : trades[i].id \notin {t.id} \ {NoId}
             /\ trades' = Append(trades, t)
      BY <1>5 DEF TradeTracked
    <2>2. trades \in Seq(TrackedTrades) /\ Len(trades) < MaxListed
      BY <1>5 DEF TradeTracked, AuditInv, AuditTypeOK
    <2>3. /\ trades' \in Seq(TrackedTrades) /\ Len(trades) \in Nat /\ Len(trades') = Len(trades) + 1
          /\ DOMAIN trades = 1 .. Len(trades) /\ DOMAIN trades' = 1 .. Len(trades) + 1
          /\ trades'[Len(trades) + 1] = t /\ \A i \in DOMAIN trades : trades'[i] = trades[i]
      BY <2>1, <2>2
    <2>4. Len(trades') <= MaxListed
      BY <2>2, <2>3 DEF AuditAssumption
    <2>5. TradesDiffer'
      <3> SUFFICES ASSUME NEW m \in DOMAIN trades', NEW n \in DOMAIN trades', m # n
                   PROVE  trades'[m].id = NoId \/ trades'[m].id # trades'[n].id
        BY DEF TradesDiffer
      <3>1. CASE m \in DOMAIN trades /\ n \in DOMAIN trades
        BY <3>1, <2>3 DEF AuditInv, TradesDiffer
      <3>2. CASE m = Len(trades) + 1 /\ n \in DOMAIN trades
        BY <3>2, <2>1, <2>3
      <3>3. CASE n = Len(trades) + 1 /\ m \in DOMAIN trades
        BY <3>3, <2>1, <2>3
      <3> QED BY <3>1, <3>2, <3>3, <2>3
    <2> QED BY <1>5, <2>3, <2>4, <2>5 DEF TradeTracked, AuditInv, AuditTypeOK
  <1>6. CASE RestartAuditor
    BY <1>6 DEF RestartAuditor, AuditInv, AuditTypeOK, TradesDiffer
  <1> QED BY <1>1, <1>2, <1>3, <1>4, <1>5, <1>6 DEF AuditNext

\* A clean audit hides no phantom, however positions and trades are paired and listed, and an
\* unclean one latches the stop and ends the loop (TerminalReconciliationAuditor.audit,
\* reconcile_and_protect).
THEOREM AuditSafe ==
    ASSUME AuditAssumption
    PROVE  AuditSpec => [](AuditTypeOK /\ CleanAuditAccounts)
  <1>1. AuditInv => AuditTypeOK /\ CleanAuditAccounts
    <2> SUFFICES ASSUME AuditInv PROVE AuditTypeOK /\ CleanAuditAccounts
      OBVIOUS
    <2>1. \A known \in AuditedTrades : known \in SUBSET DOMAIN trades
      BY DEF AuditedTrades, Readable
    <2>2. \A known \in AuditedTrades : CleanlyAudited(known) =>
             \A s \in AuditSymbols : Cardinality(TrackedIdsOn(known, s)) <= Cardinality(OpenOn(s))
      BY <2>1, CleanAuditIsSound
    <2>3. ASSUME NEW known \in AuditedTrades, CleanlyAudited(known), NEW k \in DOMAIN listing
          PROVE  /\ listing[k].ours
                 /\ \E n \in known :
                       trades[n].symbol = listing[k].symbol /\ trades[n].side = listing[k].side
      BY <2>1, <2>3, CleanlyMatched
    <2> QED BY <2>2, <2>3 DEF CleanAuditAccounts, AuditInv
  <1> QED BY AuditStarts, AuditStep, <1>1, PTL DEF AuditSpec

(***************************************************************************)
(* The sequential replay.                                                  *)
(***************************************************************************)
SequentialSpec == SequentialInit /\ [][SequentialNext]_sequentialVars

ReplayTrades == [instrument : Instruments, entry : Nat, release : Nat, loss : BOOLEAN]

ReplayShape ==
    /\ taken \in Seq(ReplayTrades) /\ walked \in 0 .. LastBar
    /\ openUntil \in [Instruments -> Nat]
    /\ lossRun \in Nat /\ breakerOpen \in BOOLEAN /\ entryLag \in BOOLEAN
    /\ breakerDay \in ReplayDays \cup {-1}
    /\ lossRun <= LossBreaker /\ (breakerOpen <=> lossRun >= LossBreaker)

\* Trades of one instrument follow each other, and the last release is remembered.
HoldingsApart ==
    /\ \A n \in DOMAIN taken :
          /\ taken[n].entry <= taken[n].release
          /\ taken[n].release <= openUntil[taken[n].instrument]
    /\ \A m, n \in DOMAIN taken : m < n /\ taken[m].instrument = taken[n].instrument =>
          taken[m].release <= taken[n].entry

CapsKept ==
    \A d \in ReplayDays :
        /\ Cardinality(OnDay(d)) <= GlobalCap
        /\ \A i \in Instruments : Cardinality(OnDayOf(d, i)) <= InstrumentCap

\* The past of day d, those of them from m on, and what the breaker needs to know of a
\* day: its past end in a losing run no longer than the count.
DayIn(past, d) == {n \in DOMAIN past : ReplayDay(past[n].entry) = d}
TailIn(past, d, m) == {k \in DayIn(past, d) : m <= k}
RunCounted(past, d, count) ==
    \A m \in DayIn(past, d) : (\A k \in TailIn(past, d, m) : past[k].loss) =>
        Cardinality(TailIn(past, d, m)) <= count

LosingRunBefore(past, d, n) ==
    \E m \in DayIn(past, d) :
        /\ m < n
        /\ Cardinality({k \in DayIn(past, d) : k \in m .. n - 1}) >= LossBreaker
        /\ \A k \in DayIn(past, d) : k \in m .. n - 1 => past[k].loss
NoneAfterLosingRun(past) ==
    \A d \in ReplayDays : \A n \in DayIn(past, d) : ~LosingRunBefore(past, d, n)

DaysUpTo(past, d) == \A n \in DOMAIN past : ReplayDay(past[n].entry) <= d

\* Entries in the order of their signals: no trade is of a later day than the breaker's.
BreakerCounts ==
    ~entryLag =>
        /\ breakerDay <= ReplayDay(walked) /\ DaysUpTo(taken, breakerDay)
        /\ RunCounted(taken, breakerDay, lossRun) /\ NoneAfterLosingRun(taken)

ControlsAddUp ==
    /\ controls.requested = controls.generated + controls.shortfall
    /\ controls.requested <= Len(taken)

SequentialInv == ReplayShape /\ HoldingsApart /\ CapsKept /\ BreakerCounts /\ ControlsAddUp

LEMMA DaysOrdered ==
    ASSUME SequentialAssumption, NEW a \in Nat, NEW b \in Nat, a <= b
    PROVE  /\ ReplayDay(a) \in Nat /\ ReplayDay(b) \in Nat
           /\ ReplayDay(a) <= ReplayDay(b)
  <1> DEFINE k == BarsPerDay
             p == ReplayDay(a)
             q == ReplayDay(b)
  <1>1. k \in Nat \ {0}
    BY DEF SequentialAssumption
  <1>2. p \in Nat /\ q \in Nat
    BY <1>1 DEF ReplayDay
  <1>3. a = k * p + (a % k) /\ b = k * q + (b % k) /\ a % k \in 0 .. k - 1 /\ b % k \in 0 .. k - 1
    BY <1>1 DEF ReplayDay
  <1>4. ASSUME q < p PROVE FALSE
    <2>1. k * (q + 1) <= k * p
      <3>1. p - (q + 1) \in Nat
        BY <1>2, <1>4
      <3>2. k * (p - (q + 1)) \in Nat /\ k * (p - (q + 1)) = k * p - k * (q + 1)
        BY <3>1, <1>1, <1>2
      <3> QED BY <3>2, <1>1, <1>2
    <2>2. k * (q + 1) = k * q + k
      BY <1>1, <1>2
    <2>3. k * q \in Nat /\ k * p \in Nat
      BY <1>1, <1>2
    <2> HIDE DEF k, p, q
    <2> QED BY <2>1, <2>2, <2>3, <1>3, <1>1
  <1> QED BY <1>2, <1>4

LEMMA TradeDays ==
    ASSUME SequentialAssumption, taken \in Seq(ReplayTrades), NEW n \in DOMAIN taken
    PROVE  ReplayDay(taken[n].entry) \in Nat
  <1>1. taken[n].entry \in Nat
    <2>1. taken[n] \in ReplayTrades
      OBVIOUS
    <2> QED BY <2>1 DEF ReplayTrades
  <1>2. \A t \in Nat : ReplayDay(t) \in Nat
    BY DaysOrdered
  <1> QED BY <1>1, <1>2

LEMMA TakenFinite ==
    ASSUME taken \in Seq(ReplayTrades)
    PROVE  /\ Len(taken) \in Nat /\ DOMAIN taken = 1 .. Len(taken)
           /\ \A S \in SUBSET DOMAIN taken :
                 IsFiniteSet(S) /\ Cardinality(S) \in Nat /\ Cardinality(S) <= Len(taken)
  <1>1. Len(taken) \in Nat /\ DOMAIN taken = 1 .. Len(taken)
    OBVIOUS
  <1>2. IsFiniteSet(DOMAIN taken) /\ Cardinality(DOMAIN taken) = Len(taken)
    BY <1>1, FS_Interval
  <1> QED BY <1>1, <1>2, FS_Subset, FS_CardinalityType

\* What a candidate is that passes every check.
LEMMA NoReasonToSkip ==
    ASSUME NEW i, NEW close, NEW entry, NEW status, SkipReason(i, close, entry, status) = "none"
    PROVE  /\ ~(close < openUntil[i])
           /\ ~BreakerOpenOn(ReplayDay(entry))
           /\ ~(Cardinality(OnDay(ReplayDay(entry))) >= GlobalCap)
           /\ ~(Cardinality(OnDayOf(ReplayDay(entry), i)) >= InstrumentCap)
  <1> DEFINE d == ReplayDay(entry)
             checks == <<
               <<close < openUntil[i], "open_position">>,
               <<Results(status) = {}, "not_entered_or_unresolved">>,
               <<BreakerOpenOn(d), "consecutive_loss_breaker">>,
               <<realized[d] <= -LossStop, "daily_loss_stop">>,
               <<Cardinality(OnDay(d)) >= GlobalCap, "global_daily_cap">>,
               <<Cardinality(OnDayOf(d, i)) >= InstrumentCap, "instrument_daily_cap">>>>
             failed == {n \in DOMAIN checks : checks[n][1]}
  <1>1. SkipReason(i, close, entry, status) =
           IF failed = {} THEN "none"
           ELSE checks[CHOOSE n \in failed : \A k \in failed : n <= k][2]
    BY DEF SkipReason
  <1>2. DOMAIN checks = 1 .. 6
    OBVIOUS
  <1>3. ASSUME failed # {} PROVE FALSE
    <2>1. \E n \in failed : \A k \in failed : n <= k
      <3>1. failed \in SUBSET Nat
        BY <1>2
      <3> HIDE DEF failed
      <3> QED BY <3>1, <1>3, NatHasLeast
    <2>2. (CHOOSE n \in failed : \A k \in failed : n <= k) \in 1 .. 6
      BY <1>2, <2>1
    <2>3. \A n \in 1 .. 6 : checks[n][2] # "none"
      OBVIOUS
    <2> QED BY <1>1, <1>3, <2>2, <2>3
  <1>4. \A n \in 1 .. 6 : ~checks[n][1]
    BY <1>2, <1>3
  <1>5. ~checks[1][1] /\ ~checks[3][1] /\ ~checks[5][1] /\ ~checks[6][1]
    BY <1>4
  <1> QED BY <1>5

LEMMA SequentialStarts == SequentialAssumption => (SequentialInit => SequentialInv)
  <1> SUFFICES ASSUME SequentialAssumption, SequentialInit PROVE SequentialInv
    OBVIOUS
  <1>1. taken = <<>> /\ DOMAIN taken = {}
    BY DEF SequentialInit
  <1>2. \A d, i : OnDay(d) = {} /\ OnDayOf(d, i) = {}
    BY <1>1 DEF OnDay, OnDayOf
  <1>3. ReplayShape
    <2>1. breakerOpen \in BOOLEAN /\ entryLag \in BOOLEAN /\ ~breakerOpen /\ lossRun = 0
      BY DEF SequentialInit
    <2>2. lossRun <= LossBreaker /\ ~(lossRun >= LossBreaker)
      BY <2>1 DEF SequentialAssumption
    <2>3. /\ taken \in Seq(ReplayTrades) /\ walked \in 0 .. LastBar
          /\ openUntil \in [Instruments -> Nat] /\ breakerDay \in ReplayDays \cup {-1}
      BY <1>1 DEF SequentialInit, SequentialAssumption
    <2> QED BY <2>1, <2>2, <2>3 DEF ReplayShape
  <1>4. CapsKept
    BY <1>2, FS_EmptySet DEF CapsKept, SequentialAssumption
  <1>5. -1 <= ReplayDay(0)
    <2>1. ReplayDay(0) \in Nat
      BY DaysOrdered
    <2> QED BY <2>1
  <1>6. BreakerCounts
    <2>1. breakerDay <= ReplayDay(walked)
      BY <1>5 DEF SequentialInit
    <2>2. \A d : DayIn(taken, d) = {}
      BY <1>1 DEF DayIn
    <2> QED BY <1>1, <2>1, <2>2 DEF BreakerCounts, DaysUpTo, RunCounted, NoneAfterLosingRun
  <1>7. HoldingsApart /\ ControlsAddUp
    BY <1>1 DEF HoldingsApart, ControlsAddUp, SequentialInit, NotDrawn
  <1> QED BY <1>3, <1>4, <1>6, <1>7 DEF SequentialInv

\* When a candidate reached the breaker on day d without being taken: a later day starts
\* without past and without losses.
LEMMA SkipKeeps ==
    ASSUME SequentialAssumption, SequentialInv, NEW i \in Instruments, NEW close \in walked .. LastBar,
           NEW gap \in 0 .. 1, NEW status, SkipCandidate(i, close, close + gap, status)
    PROVE  SequentialInv'
  <1> DEFINE entry == close + gap
             d == ReplayDay(entry)
  <1>1. /\ walked' = close /\ entryLag' = (entryLag \/ entry # close)
        /\ UNCHANGED <<openUntil, taken, realized, controls>>
        /\ \/ UNCHANGED <<lossRun, breakerOpen, breakerDay>>
           \/ lossRun' = LossRunOn(d) /\ breakerOpen' = BreakerOpenOn(d) /\ breakerDay' = d
    BY DEF SkipCandidate
  <1>2. /\ walked \in Nat /\ close \in Nat /\ entry \in Nat /\ LastBar \in Nat
        /\ walked <= close /\ close <= LastBar /\ close <= entry /\ entry <= LastBar + 1
    BY DEF SequentialInv, ReplayShape, SequentialAssumption
  <1>3. d \in ReplayDays
    BY <1>2, DaysOrdered DEF ReplayDays
  <1>4. ReplayShape'
    <2>1. LossBreaker \in Nat \ {0}
      BY DEF SequentialAssumption
    <2>2. /\ lossRun' \in Nat /\ breakerOpen' \in BOOLEAN /\ lossRun' <= LossBreaker
          /\ (breakerOpen' <=> lossRun' >= LossBreaker)
      <3>1. CASE UNCHANGED <<lossRun, breakerOpen, breakerDay>>
        BY <3>1 DEF SequentialInv, ReplayShape
      <3>2. CASE breakerDay = d /\ lossRun' = lossRun /\ (breakerOpen' <=> breakerOpen)
                 /\ breakerOpen' \in BOOLEAN
        BY <3>2 DEF SequentialInv, ReplayShape
      <3>3. CASE lossRun' = 0 /\ ~breakerOpen' /\ breakerOpen' \in BOOLEAN
        BY <3>3, <2>1
      <3> QED BY <1>1, <3>1, <3>2, <3>3 DEF LossRunOn, BreakerOpenOn
    <2>3. breakerDay' \in ReplayDays' \cup {-1}
      BY <1>1, <1>3 DEF SequentialInv, ReplayShape, ReplayDays
    <2>4. entryLag' \in BOOLEAN /\ walked' \in 0 .. LastBar
      BY <1>1, <1>2 DEF SequentialInv, ReplayShape
    <2> QED BY <1>1, <2>2, <2>3, <2>4 DEF SequentialInv, ReplayShape
  <1>5. HoldingsApart' /\ CapsKept' /\ ControlsAddUp'
    BY <1>1 DEF SequentialInv, HoldingsApart, CapsKept, ControlsAddUp, OnDay, OnDayOf, ReplayDays
  <1>6. BreakerCounts'
    <2> SUFFICES ASSUME ~entryLag' PROVE BreakerCounts'
      BY DEF BreakerCounts
    <2>1. ~entryLag /\ entry = close
      BY <1>1 DEF SequentialInv, ReplayShape
    <2>2. ReplayDay(walked) <= ReplayDay(close) /\ ReplayDay(walked) \in Nat /\ ReplayDay(close) \in Nat
      BY <1>2, DaysOrdered
    <2>3. breakerDay <= ReplayDay(walked) /\ breakerDay \in Int
      BY <2>1, <1>3 DEF SequentialInv, BreakerCounts, ReplayShape, ReplayDays
    <2>4. /\ DaysUpTo(taken, breakerDay) /\ RunCounted(taken, breakerDay, lossRun)
          /\ NoneAfterLosingRun(taken)
      BY <2>1 DEF SequentialInv, BreakerCounts
    <2>5. NoneAfterLosingRun(taken)' /\ taken' = taken
      BY <2>4, <1>1 DEF NoneAfterLosingRun, ReplayDays, LosingRunBefore, DayIn
    <2>6. CASE UNCHANGED <<lossRun, breakerOpen, breakerDay>>
      <3>1. DaysUpTo(taken, breakerDay)' /\ RunCounted(taken, breakerDay, lossRun)'
        BY <2>4, <2>6, <1>1 DEF DaysUpTo, RunCounted, TailIn, DayIn
      <3>2. breakerDay' <= ReplayDay(walked')
        BY <2>2, <2>3, <2>6, <1>1
      <3> QED BY <3>1, <3>2, <2>5 DEF BreakerCounts
    <2>7. CASE lossRun' = LossRunOn(d) /\ breakerOpen' = BreakerOpenOn(d) /\ breakerDay' = d
      <3>1. DaysUpTo(taken, d)
        BY TradeDays, <2>1, <2>2, <2>3, <2>4 DEF DaysUpTo, SequentialInv, ReplayShape
      <3>2. RunCounted(taken, d, lossRun')
        <4>1. CASE d = breakerDay
          BY <4>1, <2>4, <2>7 DEF LossRunOn
        <4>2. CASE d # breakerDay
          <5>1. DayIn(taken, d) = {}
            BY <4>2, TradeDays, <2>1, <2>2, <2>3, <2>4 DEF DayIn, DaysUpTo, SequentialInv, ReplayShape
          <5> QED BY <5>1 DEF RunCounted
        <4> QED BY <4>1, <4>2
      <3>3. DaysUpTo(taken', breakerDay') /\ RunCounted(taken', breakerDay', lossRun')
        BY <3>1, <3>2, <2>5, <2>7
      <3>4. breakerDay' <= ReplayDay(walked')
        BY <2>1, <2>2, <2>7, <1>1
      <3> QED BY <3>3, <3>4, <2>5 DEF BreakerCounts
    <2> QED BY <2>6, <2>7, <1>1
  <1> QED BY <1>4, <1>5, <1>6 DEF SequentialInv

LEMMA TakeKeeps ==
    ASSUME SequentialAssumption, SequentialInv, NEW i \in Instruments, NEW close \in walked .. LastBar,
           NEW gap \in 0 .. 1, NEW status, NEW length \in Nat, controls = NotDrawn,
           TakeCandidate(i, close, close + gap, status, close + gap + length)
    PROVE  SequentialInv'
  <1> DEFINE entry == close + gap
             release == close + gap + length
             d == ReplayDay(entry)
             last == Len(taken) + 1
  <1>1. PICK lost \in BOOLEAN :
          /\ taken' = Append(taken, [instrument |-> i, entry |-> entry, release |-> release, loss |-> lost])
          /\ lossRun' = IF lost THEN LossRunOn(d) + 1 ELSE 0
          /\ breakerOpen' = (lost /\ LossRunOn(d) + 1 >= LossBreaker)
          /\ breakerDay' = d /\ walked' = close
          /\ openUntil' = [openUntil EXCEPT ![i] = release]
          /\ entryLag' = (entryLag \/ entry # close) /\ controls' = controls
    <2>1. PICK r \in Results(status) :
            /\ taken' = Append(taken, [instrument |-> i, entry |-> entry, release |-> release, loss |-> r[2] < 0])
            /\ lossRun' = IF r[2] < 0 THEN LossRunOn(d) + 1 ELSE 0
            /\ breakerOpen' = (r[2] < 0 /\ LossRunOn(d) + 1 >= LossBreaker)
            /\ breakerDay' = d
      BY DEF TakeCandidate
    <2>2. /\ walked' = close /\ openUntil' = [openUntil EXCEPT ![i] = release]
          /\ entryLag' = (entryLag \/ entry # close) /\ controls' = controls
      BY DEF TakeCandidate
    <2>3. (r[2] < 0) \in BOOLEAN
      OBVIOUS
    <2> WITNESS (r[2] < 0) \in BOOLEAN
    <2> QED BY <2>1, <2>2
  <1>2. /\ openUntil[i] <= close /\ ~BreakerOpenOn(d)
        /\ ~(Cardinality(OnDay(d)) >= GlobalCap) /\ ~(Cardinality(OnDayOf(d, i)) >= InstrumentCap)
    <2>1. SkipReason(i, close, entry, status) = "none"
      BY DEF TakeCandidate
    <2>2. openUntil[i] \in Nat /\ close \in Nat
      BY DEF SequentialInv, ReplayShape, SequentialAssumption
    <2> QED BY <2>1, <2>2, NoReasonToSkip
  <1>3. /\ walked \in Nat /\ close \in Nat /\ entry \in Nat /\ release \in Nat /\ LastBar \in Nat
        /\ walked <= close /\ close <= LastBar /\ close <= entry /\ entry <= LastBar + 1 /\ entry <= release
    BY DEF SequentialInv, ReplayShape, SequentialAssumption
  <1>4. d \in ReplayDays /\ d \in Nat
    BY <1>3, DaysOrdered DEF ReplayDays
  <1>5. taken \in Seq(ReplayTrades) /\ lossRun \in Nat /\ LossBreaker \in Nat \ {0}
    BY DEF SequentialInv, ReplayShape, SequentialAssumption
  <1> DEFINE trade == [instrument |-> i, entry |-> entry, release |-> release, loss |-> lost]
  <1>6. /\ trade \in ReplayTrades /\ taken' \in Seq(ReplayTrades)
        /\ Len(taken) \in Nat /\ DOMAIN taken = 1 .. Len(taken) /\ DOMAIN taken' = 1 .. last
        /\ Len(taken') = last
        /\ taken'[last] = trade /\ \A n \in DOMAIN taken : taken'[n] = taken[n] /\ n < last
    <2>1. trade \in ReplayTrades
      BY <1>3 DEF ReplayTrades
    <2>2. taken' = Append(taken, trade)
      BY <1>1
    <2> HIDE DEF trade
    <2> QED BY <2>1, <2>2, <1>5
  <1>7. ReplayShape'
    <2>1. LossRunOn(d) \in Nat /\ LossRunOn(d) < LossBreaker
      BY <1>2, <1>5 DEF SequentialInv, ReplayShape, LossRunOn, BreakerOpenOn
    <2>2. openUntil' \in [Instruments -> Nat]
      BY <1>1, <1>3 DEF SequentialInv, ReplayShape
    <2>3. entryLag' \in BOOLEAN /\ walked' \in 0 .. LastBar
      BY <1>1, <1>3 DEF SequentialInv, ReplayShape
    <2>4. lossRun' \in Nat /\ lossRun' <= LossBreaker /\ breakerOpen' \in BOOLEAN
          /\ (breakerOpen' <=> lossRun' >= LossBreaker)
      <3>1. CASE lost
        <4>1. lossRun' = LossRunOn(d) + 1
          BY <3>1, <1>1
        <4>2. breakerOpen' \in BOOLEAN /\ (breakerOpen' <=> LossRunOn(d) + 1 >= LossBreaker)
          BY <3>1, <1>1
        <4> QED BY <4>1, <4>2, <2>1, <1>5
      <3>2. CASE ~lost
        <4>1. lossRun' = 0 /\ ~breakerOpen' /\ breakerOpen' \in BOOLEAN
          BY <3>2, <1>1
        <4> QED BY <4>1, <1>5
      <3> QED BY <3>1, <3>2
    <2>5. breakerDay' \in ReplayDays' \cup {-1}
      BY <1>1, <1>4 DEF ReplayDays
    <2> QED BY <2>2, <2>3, <2>4, <2>5, <1>6 DEF ReplayShape
  <1>8. HoldingsApart'
    <2>1. \A n \in DOMAIN taken : taken[n] \in ReplayTrades
      BY <1>5
    <2>2. openUntil' [i] = release /\ \A j \in Instruments : j # i => openUntil'[j] = openUntil[j]
      BY <1>1 DEF SequentialInv, ReplayShape
    <2>3. openUntil[i] \in Nat /\ openUntil[i] <= entry
      BY <1>2, <1>3 DEF SequentialInv, ReplayShape
    <2>4. \A n \in DOMAIN taken :
             /\ taken[n].entry <= taken[n].release
             /\ taken[n].release <= openUntil[taken[n].instrument]
      BY DEF SequentialInv, HoldingsApart
    <2>5. \A n \in DOMAIN taken : taken[n].instrument = i => taken[n].release <= entry
      BY <2>1, <2>3, <2>4, <1>3 DEF ReplayTrades
    <2>6. ASSUME NEW n \in DOMAIN taken'
          PROVE  /\ taken'[n].entry <= taken'[n].release
                 /\ taken'[n].release <= openUntil'[taken'[n].instrument]
      <3>1. CASE n = last
        BY <3>1, <1>3, <1>6, <2>2
      <3>2. CASE n \in DOMAIN taken
        <4>1. taken'[n] = taken[n] /\ taken[n] \in ReplayTrades
          BY <3>2, <1>6, <2>1
        <4>2. CASE taken[n].instrument = i
          BY <4>1, <4>2, <3>2, <2>2, <2>4, <2>5, <1>3 DEF ReplayTrades
        <4>3. CASE taken[n].instrument # i
          BY <4>1, <4>3, <3>2, <2>2, <2>4 DEF ReplayTrades
        <4> QED BY <4>2, <4>3
      <3> QED BY <3>1, <3>2, <1>6
    <2>7. ASSUME NEW m \in DOMAIN taken', NEW n \in DOMAIN taken', m < n,
                 taken'[m].instrument = taken'[n].instrument
          PROVE  taken'[m].release <= taken'[n].entry
      <3>1. m \in DOMAIN taken
        BY <2>7, <1>6
      <3>2. CASE n = last
        BY <3>1, <3>2, <2>5, <2>7, <1>6
      <3>3. CASE n \in DOMAIN taken
        BY <3>1, <3>3, <2>7, <1>6 DEF SequentialInv, HoldingsApart
      <3> QED BY <3>2, <3>3, <1>6
    <2> QED BY <2>6, <2>7 DEF HoldingsApart
  <1>9. /\ OnDay(d)' = OnDay(d) \cup {last} /\ last \notin OnDay(d)
        /\ \A c : c # d => OnDay(c)' = OnDay(c)
        /\ \A c : OnDay(c) \subseteq DOMAIN taken
    BY <1>6 DEF OnDay
  <1>10. CapsKept'
    <2>1. GlobalCap \in Nat /\ InstrumentCap \in Nat
      BY DEF SequentialAssumption
    <2> SUFFICES ASSUME NEW c \in ReplayDays, NEW j \in Instruments
                 PROVE  Cardinality(OnDay(c)') <= GlobalCap /\ Cardinality(OnDayOf(c, j)') <= InstrumentCap
      BY DEF CapsKept, ReplayDays
    <2>2. Cardinality(OnDay(c)) <= GlobalCap /\ Cardinality(OnDayOf(c, j)) <= InstrumentCap
      BY DEF SequentialInv, CapsKept
    <2>3. /\ IsFiniteSet(OnDay(c)) /\ Cardinality(OnDay(c)) \in Nat
          /\ IsFiniteSet(OnDayOf(c, j)) /\ Cardinality(OnDayOf(c, j)) \in Nat
      BY TakenFinite, <1>5 DEF OnDay, OnDayOf
    <2>4. OnDayOf(c, j)' = IF c = d /\ j = i THEN OnDayOf(c, j) \cup {last} ELSE OnDayOf(c, j)
      BY <1>6, <1>9 DEF OnDayOf
    <2>5. last \notin OnDay(c) /\ last \notin OnDayOf(c, j)
      BY <1>6 DEF OnDay, OnDayOf
    <2>6. Cardinality(OnDay(c)') <= GlobalCap
      <3>1. CASE c = d
        <4>1. Cardinality(OnDay(c) \cup {last}) = Cardinality(OnDay(c)) + 1
          BY <2>3, <2>5, FS_AddElement
        <4>2. Cardinality(OnDay(c)) < GlobalCap
          BY <3>1, <2>1, <2>3, <1>2
        <4>3. OnDay(c)' = OnDay(c) \cup {last}
          BY <3>1, <1>9
        <4> QED BY <4>1, <4>2, <4>3, <2>1, <2>3
      <3>2. CASE c # d
        BY <3>2, <2>2, <1>9
      <3> QED BY <3>1, <3>2
    <2>7. Cardinality(OnDayOf(c, j)') <= InstrumentCap
      <3>1. CASE c = d /\ j = i
        <4>1. Cardinality(OnDayOf(c, j) \cup {last}) = Cardinality(OnDayOf(c, j)) + 1
          BY <2>3, <2>5, FS_AddElement
        <4>2. Cardinality(OnDayOf(c, j)) < InstrumentCap
          BY <3>1, <2>1, <2>3, <1>2
        <4>3. OnDayOf(c, j)' = OnDayOf(c, j) \cup {last}
          BY <3>1, <2>4
        <4> QED BY <4>1, <4>2, <4>3, <2>1, <2>3
      <3>2. CASE ~(c = d /\ j = i)
        BY <3>2, <2>2, <2>4
      <3> QED BY <3>1, <3>2
    <2> QED BY <2>6, <2>7
  <1>11. BreakerCounts'
    <2> SUFFICES ASSUME ~entryLag' PROVE BreakerCounts'
      BY DEF BreakerCounts
    <2>1. ~entryLag /\ entry = close
      BY <1>1 DEF SequentialInv, ReplayShape
    <2>2. ReplayDay(walked) <= d /\ ReplayDay(walked) \in Nat
      BY <2>1, <1>3, DaysOrdered
    <2>3. breakerDay <= ReplayDay(walked) /\ breakerDay \in Int
      BY <2>1 DEF SequentialInv, BreakerCounts, ReplayShape, ReplayDays
    <2>4. /\ DaysUpTo(taken, breakerDay) /\ RunCounted(taken, breakerDay, lossRun)
          /\ NoneAfterLosingRun(taken)
      BY <2>1 DEF SequentialInv, BreakerCounts
    <2>5. /\ DayIn(taken', d) = DayIn(taken, d) \cup {last}
          /\ \A c : c # d => DayIn(taken', c) = DayIn(taken, c)
          /\ \A c : DayIn(taken, c) \subseteq DOMAIN taken
      BY <1>6 DEF DayIn
    <2>6. d # breakerDay => DayIn(taken, d) = {}
      BY TradeDays, <2>2, <2>3, <2>4, <1>4, <1>5 DEF DayIn, DaysUpTo
    <2>7. DaysUpTo(taken', d)
      BY TradeDays, <2>2, <2>3, <2>4, <1>4, <1>5, <1>6 DEF DaysUpTo
    <2>8. \A c, m : IsFiniteSet(TailIn(taken, c, m)) /\ Cardinality(TailIn(taken, c, m)) \in Nat
      BY TakenFinite, <1>5 DEF TailIn, DayIn
    <2>9. RunCounted(taken', d, lossRun')
      <3> SUFFICES ASSUME NEW m \in DayIn(taken', d), \A k \in TailIn(taken', d, m) : taken'[k].loss
                   PROVE  Cardinality(TailIn(taken', d, m)) <= lossRun'
        BY DEF RunCounted
      <3>1. TailIn(taken', d, m) = TailIn(taken, d, m) \cup {last} /\ last \notin TailIn(taken, d, m)
        BY <1>6, <2>5 DEF TailIn
      <3>2. Cardinality(TailIn(taken', d, m)) = Cardinality(TailIn(taken, d, m)) + 1
        BY <3>1, <2>8, FS_AddElement
      <3>3. lost
        BY <3>1, <1>6
      <3>4. lossRun' = LossRunOn(d) + 1
        BY <3>3, <1>1
      <3>5. Cardinality(TailIn(taken, d, m)) <= LossRunOn(d) /\ LossRunOn(d) \in Nat
        <4>1. CASE m = last
          <5>1. TailIn(taken, d, m) = {}
            BY <4>1, <1>6, <2>5 DEF TailIn
          <5>2. Cardinality(TailIn(taken, d, m)) = 0
            BY <5>1, FS_EmptySet
          <5> QED BY <5>2, <1>5 DEF LossRunOn
        <4>2. CASE m # last
          <5>1. m \in DayIn(taken, d) /\ d = breakerDay
            BY <4>2, <2>5, <2>6
          <5>2. \A k \in TailIn(taken, d, m) : taken[k].loss
            BY <3>1, <1>6, <2>5 DEF TailIn
          <5>3. Cardinality(TailIn(taken, d, m)) <= lossRun
            BY <5>1, <5>2, <2>4 DEF RunCounted
          <5> QED BY <5>1, <5>3, <1>5 DEF LossRunOn
        <4> QED BY <4>1, <4>2
      <3> QED BY <3>2, <3>4, <3>5, <2>8
    <2>10. NoneAfterLosingRun(taken')
      <3> SUFFICES ASSUME NEW c \in ReplayDays, NEW n \in DayIn(taken', c), LosingRunBefore(taken', c, n)
                   PROVE  FALSE
        BY DEF NoneAfterLosingRun
      <3>1. PICK m \in DayIn(taken', c) :
               /\ m < n /\ Cardinality({k \in DayIn(taken', c) : k \in m .. n - 1}) >= LossBreaker
               /\ \A k \in DayIn(taken', c) : k \in m .. n - 1 => taken'[k].loss
        BY DEF LosingRunBefore
      <3>2. m \in 1 .. last /\ n \in 1 .. last /\ m \in DOMAIN taken
        BY <3>1, <1>6 DEF DayIn
      <3>3. m \in DayIn(taken, c)
            /\ {k \in DayIn(taken', c) : k \in m .. n - 1} = {k \in DayIn(taken, c) : k \in m .. n - 1}
        BY <3>2, <1>6, <2>5
      <3>4. \A k \in DayIn(taken, c) : k \in m .. n - 1 => taken[k].loss
        BY <3>1, <1>6, <2>5
      <3>5. CASE n \in DayIn(taken, c)
        <4>1. LosingRunBefore(taken, c, n)
          BY <3>1, <3>3, <3>4 DEF LosingRunBefore
        <4> QED BY <4>1, <3>5, <2>4 DEF NoneAfterLosingRun
      <3>6. CASE n = last /\ c = d
        <4>1. d = breakerDay
          BY <3>3, <3>6, <2>6
        <4>2. {k \in DayIn(taken, c) : k \in m .. n - 1} = TailIn(taken, d, m)
          BY <3>6, <3>2, <1>6, <2>5 DEF TailIn
        <4>3. \A k \in TailIn(taken, d, m) : taken[k].loss
          BY <3>4, <3>6, <3>2, <1>6, <2>5 DEF TailIn
        <4>4. Cardinality(TailIn(taken, d, m)) <= lossRun
          BY <4>1, <4>3, <3>3, <3>6, <2>4 DEF RunCounted
        <4>5. Cardinality(TailIn(taken, d, m)) >= LossBreaker
          BY <4>2, <3>1, <3>3
        <4>6. lossRun >= LossBreaker
          BY <4>4, <4>5, <2>8, <1>5
        <4> QED BY <4>1, <4>6, <1>2 DEF SequentialInv, ReplayShape, BreakerOpenOn
      <3> QED BY <3>5, <3>6, <2>5
    <2>11. /\ DaysUpTo(taken', breakerDay') /\ RunCounted(taken', breakerDay', lossRun')
           /\ breakerDay' <= ReplayDay(walked')
      BY <2>1, <2>7, <2>9, <1>1, <1>4
    <2> QED BY <2>10, <2>11 DEF BreakerCounts, NoneAfterLosingRun, ReplayDays, LosingRunBefore
  <1>12. ControlsAddUp'
    <2>1. controls.requested = controls.generated + controls.shortfall /\ controls.requested = 0
      BY DEF SequentialInv, ControlsAddUp, NotDrawn
    <2>2. controls' = controls
      BY <1>1
    <2> QED BY <2>1, <2>2, <1>6 DEF ControlsAddUp
  <1> QED BY <1>7, <1>8, <1>10, <1>11, <1>12 DEF SequentialInv

LEMMA DrawKeeps ==
    ASSUME SequentialAssumption, SequentialInv, DrawControls
    PROVE  SequentialInv'
  <1> DEFINE Strata(buys) == {StratumOf(n) : n \in buys}
             Drawn(buys, eligible) == {e \in Strata(buys) \X (1 .. MaxControls) :
                        e[2] <= eligible[e[1]] /\ e[2] <= StratumCount(buys, e[1])}
  <1>1. PICK buys \in SUBSET DOMAIN taken : \E eligible \in [Strata(buys) -> 0 .. MaxControls] :
          \E planned \in 0 .. Cardinality(Drawn(buys, eligible)) :
             controls' = [requested |-> Cardinality(buys), generated |-> planned,
                          shortfall |-> (Cardinality(buys) - Cardinality(Drawn(buys, eligible)))
                                        + (Cardinality(Drawn(buys, eligible)) - planned)]
    BY DEF DrawControls
  <1>9. PICK eligible : \E planned \in 0 .. Cardinality(Drawn(buys, eligible)) :
             controls' = [requested |-> Cardinality(buys), generated |-> planned,
                          shortfall |-> (Cardinality(buys) - Cardinality(Drawn(buys, eligible)))
                                        + (Cardinality(Drawn(buys, eligible)) - planned)]
    BY <1>1
  <1> DEFINE drawn == Cardinality(Drawn(buys, eligible))
             strata == Strata(buys)
  <1>2. UNCHANGED <<walked, openUntil, taken, realized, lossRun, breakerOpen, breakerDay, entryLag>>
    BY DEF DrawControls
  <1>3. taken \in Seq(ReplayTrades) /\ MaxControls \in Nat
    BY DEF SequentialInv, ReplayShape, SequentialAssumption
  <1>4. IsFiniteSet(buys) /\ Cardinality(buys) \in Nat /\ Cardinality(buys) <= Len(taken)
    BY <1>3, TakenFinite
  <1>5. drawn \in Nat
    <2>1. IsFiniteSet(strata)
      <3>1. [n \in buys |-> StratumOf(n)] \in Surjection(buys, strata)
        BY DEF Surjection
      <3> HIDE DEF strata
      <3> QED BY <3>1, <1>4, FS_Surjection
    <2>2. IsFiniteSet(1 .. MaxControls)
      BY <1>3, FS_Interval
    <2>3. Drawn(buys, eligible) \subseteq strata \X (1 .. MaxControls)
      OBVIOUS
    <2> HIDE DEF strata, Drawn
    <2>4. IsFiniteSet(strata \X (1 .. MaxControls))
      BY <2>1, <2>2, FS_Product
    <2> QED BY <2>3, <2>4, FS_Subset, FS_CardinalityType
  <1>6. ControlsAddUp'
    <2> HIDE DEF drawn
    <2>1. PICK planned \in 0 .. drawn :
             controls' = [requested |-> Cardinality(buys), generated |-> planned,
                          shortfall |-> (Cardinality(buys) - drawn) + (drawn - planned)]
      BY <1>9 DEF drawn
    <2>2. Len(taken') = Len(taken)
      BY <1>2
    <2> QED BY <2>1, <2>2, <1>4, <1>5 DEF ControlsAddUp
  <1>7. ReplayShape' /\ HoldingsApart' /\ CapsKept'
    BY <1>2 DEF SequentialInv, ReplayShape, HoldingsApart, CapsKept, ReplayDays, OnDay, OnDayOf
  <1>8. BreakerCounts'
    BY <1>2 DEF SequentialInv, BreakerCounts
  <1> QED BY <1>6, <1>7, <1>8 DEF SequentialInv

LEMMA SequentialStep ==
    SequentialAssumption => (SequentialInv /\ [SequentialNext]_sequentialVars => SequentialInv')
  <1> SUFFICES ASSUME SequentialAssumption, SequentialInv, [SequentialNext]_sequentialVars
               PROVE  SequentialInv'
    OBVIOUS
  <1>1. CASE UNCHANGED sequentialVars
    <2>1. UNCHANGED <<walked, openUntil, taken, realized, lossRun, breakerOpen, breakerDay, entryLag, controls>>
      BY <1>1 DEF sequentialVars
    <2>2. ReplayShape' /\ HoldingsApart' /\ CapsKept' /\ ControlsAddUp'
      BY <2>1 DEF SequentialInv, ReplayShape, HoldingsApart, CapsKept, ControlsAddUp, ReplayDays, OnDay, OnDayOf
    <2>3. BreakerCounts'
      BY <2>1 DEF SequentialInv, BreakerCounts, ReplayDays, DaysUpTo, RunCounted, NoneAfterLosingRun,
                  LosingRunBefore, TailIn, DayIn
    <2> QED BY <2>2, <2>3 DEF SequentialInv
  <1>2. CASE WalkCandidate
    <2>1. LongestTrade \in Nat
      BY DEF SequentialAssumption
    <2>2. PICK i \in Instruments, close \in walked .. LastBar, gap \in 0 .. 1,
               status \in {"TP", "SL", "TIMEOUT", "AMBIGUOUS", "UNRESOLVED"} :
             \/ SkipCandidate(i, close, close + gap, status)
             \/ \E length \in 0 .. LongestTrade :
                   TakeCandidate(i, close, close + gap, status, close + gap + length)
      BY <1>2 DEF WalkCandidate
    <2>3. CASE SkipCandidate(i, close, close + gap, status)
      BY <2>3, SkipKeeps
    <2>4. ASSUME NEW length \in 0 .. LongestTrade,
                 TakeCandidate(i, close, close + gap, status, close + gap + length)
          PROVE  SequentialInv'
      <3>1. length \in Nat /\ controls = NotDrawn
        BY <2>1, <1>2 DEF WalkCandidate
      <3> QED BY <3>1, <2>4, TakeKeeps
    <2> QED BY <2>2, <2>3, <2>4
  <1>3. CASE DrawControls
    BY <1>3, DrawKeeps
  <1> QED BY <1>1, <1>2, <1>3 DEF SequentialNext

\* The replay never holds an instrument twice, keeps its daily caps, enters no trade on a day
\* whose breaker is open while entries follow their signals, and accounts for every control
\* (research/sequential_replay.py, _simulate_trades, build_stratified_random_specs).
THEOREM ReplaySafe ==
    ASSUME SequentialAssumption
    PROVE  SequentialSpec => [](SequentialTypeOK /\ SequentialSound)
  <1>1. SequentialInv => SequentialTypeOK /\ SequentialSound
    <2> SUFFICES ASSUME SequentialInv PROVE SequentialTypeOK /\ SequentialSound
      OBVIOUS
    <2>1. SequentialTypeOK
      BY DEF SequentialInv, ReplayShape, HoldingsApart, SequentialTypeOK, SequentialAssumption
    <2>2. ASSUME ~entryLag, NEW d \in ReplayDays, NEW n \in OnDay(d)
          PROVE  ~AfterLosingRun(d, n)
      <3>1. OnDay(d) = DayIn(taken, d)
        BY DEF OnDay, DayIn
      <3>2. ~LosingRunBefore(taken, d, n)
        BY <2>2, <3>1 DEF SequentialInv, BreakerCounts, NoneAfterLosingRun
      <3> QED BY <3>1, <3>2 DEF LosingRunBefore, AfterLosingRun
    <2> QED BY <2>1, <2>2 DEF SequentialInv, HoldingsApart, CapsKept, ControlsAddUp, SequentialSound
  <1> QED BY SequentialStarts, SequentialStep, <1>1, PTL DEF SequentialSpec

(***************************************************************************)
(* The experiment catalog.                                                 *)
(***************************************************************************)
CatalogSpec == CatalogInit /\ [][CatalogNext]_catalogVars

\* The records of runs: a partition is only taken from a bundle that can be split.
RunRecord(r, id) ==
    \E tool \in ExperimentTools, p \in Partitions, c \in Configurations :
        r = RecordOf(id, tool, p, c) /\ (p # "FULL" => SplitPossible)

CatalogShape ==
    /\ DOMAIN files = ExperimentIds
    /\ \A i \in ExperimentIds : files[i] \in {NoRecord, LegacyRecord(i)} \/ RunRecord(files[i], i)
    /\ DOMAIN runner = Runners
    /\ \A r \in Runners :
          /\ DOMAIN runner[r] = {"step", "record", "outcome"}
          /\ runner[r].step \in RunnerSteps
          /\ runner[r].outcome \in {"none", "saved", "conflict", "error"}

\* What a runner holds, and what the directory has of it.
RunnersSound ==
    \A r \in Runners :
        /\ runner[r].step # "idle" =>
              runner[r].record.id \in ExperimentIds /\ RunRecord(runner[r].record, runner[r].record.id)
        /\ runner[r].step = "linked" => files[runner[r].record.id] = runner[r].record
        /\ runner[r].step # "done" => runner[r].outcome = "none"
        /\ runner[r].outcome = "saved" => files[runner[r].record.id] = runner[r].record
        /\ runner[r].outcome = "conflict" =>
              files[runner[r].record.id] \notin {NoRecord, runner[r].record}

CatalogInv == CatalogShape /\ RunnersSound

LEMMA RecordsDiffer ==
    ASSUME NEW id, NEW r, RunRecord(r, id)
    PROVE  r # NoRecord /\ r.id = id /\ r.schema = 2
  <1>1. PICK tool \in ExperimentTools, p \in Partitions, c \in Configurations : r = RecordOf(id, tool, p, c)
    BY DEF RunRecord
  <1>2. r.schema = 2 /\ r.id = id
    BY <1>1 DEF RecordOf
  <1> QED BY <1>2 DEF NoRecord

LEMMA CatalogStarts == CatalogInit => CatalogInv
  <1> SUFFICES ASSUME CatalogInit PROVE CatalogInv
    OBVIOUS
  <1>1. \A i \in ExperimentIds : files[i] \in {NoRecord, LegacyRecord(i)}
    BY DEF CatalogInit
  <1>2. \A r \in Runners : runner[r] = [step |-> "idle", record |-> NoRecord, outcome |-> "none"]
    BY DEF CatalogInit
  <1> QED BY <1>1, <1>2 DEF CatalogInit, CatalogInv, CatalogShape, RunnersSound, RunnerSteps

\* What runner r knows, as a predicate of what it holds and of the directory.
Holding(mine, directory) ==
    /\ mine.step \in RunnerSteps /\ mine.outcome \in {"none", "saved", "conflict", "error"}
    /\ mine.step # "idle" =>
          mine.record.id \in ExperimentIds /\ RunRecord(mine.record, mine.record.id)
    /\ mine.step = "linked" => directory[mine.record.id] = mine.record
    /\ mine.step # "done" => mine.outcome = "none"
    /\ mine.outcome = "saved" => directory[mine.record.id] = mine.record
    /\ mine.outcome = "conflict" => directory[mine.record.id] \notin {NoRecord, mine.record}

\* A file, once there, stays, and a move of one runner leaves the others.
LEMMA RunnerStep ==
    ASSUME CatalogInv, NEW r \in Runners,
           DOMAIN runner' = Runners, DOMAIN runner'[r] = {"step", "record", "outcome"},
           \A q \in Runners : q # r => runner'[q] = runner[q],
           Holding(runner'[r], files'),
           DOMAIN files' = ExperimentIds,
           \A i \in ExperimentIds :
              \/ files'[i] = files[i]
              \/ files[i] = NoRecord /\ RunRecord(files'[i], i)
    PROVE  CatalogInv'
  <1>1. \A i \in ExperimentIds : files[i] # NoRecord => files'[i] = files[i]
    OBVIOUS
  <1>2. \A i \in ExperimentIds :
           files'[i] \in {NoRecord, LegacyRecord(i)} \/ RunRecord(files'[i], i)
    BY DEF CatalogInv, CatalogShape
  <1>3. ASSUME NEW q \in Runners
        PROVE  Holding(runner'[q], files') /\ DOMAIN runner'[q] = {"step", "record", "outcome"}
    <2>1. CASE q = r
      BY <2>1
    <2>2. CASE q # r
      <3>1. runner'[q] = runner[q] /\ DOMAIN runner[q] = {"step", "record", "outcome"}
        BY <2>2 DEF CatalogInv, CatalogShape
      <3>2. Holding(runner[q], files)
        BY DEF CatalogInv, CatalogShape, RunnersSound, Holding
      <3>3. runner[q].step # "idle" => runner[q].record # NoRecord
        BY <3>2, RecordsDiffer DEF Holding
      <3> QED BY <3>1, <3>2, <3>3, <1>1 DEF Holding
    <2> QED BY <2>1, <2>2
  <1>4. CatalogShape'
    BY <1>2, <1>3 DEF CatalogShape, Holding, NoRecord, LegacyRecord, RunRecord, ExperimentTools, Partitions, RecordOf,
          RunnerSteps, SplitPossible, TrainEnd, ValidationEnd
  <1>5. RunnersSound'
    BY <1>3 DEF RunnersSound, Holding
  <1> QED BY <1>4, <1>5 DEF CatalogInv

\* RunnerMoves keeps the record.
LEMMA MoveStep ==
    ASSUME CatalogInv, NEW r \in Runners, NEW step, NEW outcome, RunnerMoves(r, step, outcome)
    PROVE  /\ DOMAIN runner' = Runners /\ DOMAIN runner'[r] = {"step", "record", "outcome"}
           /\ \A q \in Runners : q # r => runner'[q] = runner[q]
           /\ runner'[r].step = step /\ runner'[r].outcome = outcome
           /\ runner'[r].record = runner[r].record
  BY DEF RunnerMoves, CatalogInv, CatalogShape

LEMMA CatalogStep == CatalogInv /\ [CatalogNext]_catalogVars => CatalogInv'
  <1> SUFFICES ASSUME CatalogInv, [CatalogNext]_catalogVars PROVE CatalogInv'
    OBVIOUS
  <1>1. CASE UNCHANGED catalogVars
    BY <1>1 DEF catalogVars, CatalogInv, CatalogShape, RunnersSound, RunRecord
  <1>2. \A r \in Runners : Holding(runner[r], files)
    BY DEF CatalogInv, CatalogShape, RunnersSound, Holding
  <1>3. DOMAIN files = ExperimentIds /\ DOMAIN runner = Runners
    BY DEF CatalogInv, CatalogShape
  <1>4. ASSUME NEW r \in Runners, NEW id \in ExperimentIds, NEW t \in ExperimentTools, NEW p \in Partitions,
               NEW c \in Configurations, RunExperiment(r, id, t, p, c)
        PROVE  CatalogInv'
    <2> DEFINE record == RecordOf(id, t, p, c)
               new == [step |-> "ran", record |-> record, outcome |-> "none"]
    <2>1. runner' = [runner EXCEPT ![r] = new] /\ files' = files
      BY <1>4 DEF RunExperiment
    <2>2. RunRecord(record, id) /\ record.id = id
      BY <1>4 DEF RunExperiment, RunRecord, RecordOf
    <2> HIDE DEF record
    <2>3. runner'[r] = new /\ DOMAIN runner' = Runners /\ \A q \in Runners : q # r => runner'[q] = runner[q]
      BY <2>1, <1>3
    <2>4. Holding(new, files')
      BY <2>2 DEF Holding, RunnerSteps
    <2> QED BY <2>1, <2>3, <2>4, <1>3, RunnerStep
  <1>5. ASSUME NEW r \in Runners, SaveExperiment(r)
        PROVE  CatalogInv'
    <2>1. runner[r].step = "ran" /\ files' = files
      BY <1>5 DEF SaveExperiment
    <2>2. \E step, outcome :
             /\ RunnerMoves(r, step, outcome)
             /\ \/ /\ step = "done" /\ outcome = SaveSettles(r)
                   /\ files[runner[r].record.id] # NoRecord
                \/ step = "temporary" /\ outcome = "none"
      BY <1>5 DEF SaveExperiment
    <2>3. PICK step, outcome :
             /\ RunnerMoves(r, step, outcome)
             /\ \/ /\ step = "done" /\ outcome = SaveSettles(r)
                   /\ files[runner[r].record.id] # NoRecord
                \/ step = "temporary" /\ outcome = "none"
      BY <2>2
    <2>4. Holding(runner'[r], files')
      BY <2>1, <2>3, <1>2, MoveStep DEF Holding, SaveSettles, RunnerSteps
    <2> QED BY <2>1, <2>3, <2>4, <1>3, MoveStep, RunnerStep
  <1>6. ASSUME NEW r \in Runners, LinkExperiment(r)
        PROVE  CatalogInv'
    <2> DEFINE id == runner[r].record.id
    <2>1. runner[r].step = "temporary"
      BY <1>6 DEF LinkExperiment
    <2>2. id \in ExperimentIds /\ RunRecord(runner[r].record, id)
      BY <2>1, <1>2 DEF Holding
    <2>3. CASE files[id] = NoRecord
      <3>1. RunnerMoves(r, "linked", "none") /\ files' = [files EXCEPT ![id] = runner[r].record]
        BY <1>6, <2>3 DEF LinkExperiment
      <3>2. DOMAIN files' = ExperimentIds /\ files'[id] = runner[r].record
            /\ \A i \in ExperimentIds : i # id => files'[i] = files[i]
        BY <3>1, <2>2, <1>3
      <3>3. Holding(runner'[r], files')
        BY <3>1, <3>2, <2>2, MoveStep DEF Holding, RunnerSteps
      <3> QED BY <3>1, <3>2, <3>3, <2>2, <2>3, MoveStep, RunnerStep
    <2>4. CASE files[id] # NoRecord
      <3>1. RunnerMoves(r, "done", SaveSettles(r)) /\ files' = files
        BY <1>6, <2>4 DEF LinkExperiment
      <3>2. Holding(runner'[r], files')
        BY <3>1, <2>2, <2>4, MoveStep DEF Holding, SaveSettles, RunnerSteps
      <3> QED BY <3>1, <3>2, <1>3, MoveStep, RunnerStep
    <2> QED BY <2>3, <2>4
  <1>7. ASSUME NEW r \in Runners, UnlinkTemporary(r) \/ SaveFails(r) \/ RunnerDies(r)
        PROVE  CatalogInv'
    <2>1. PICK outcome \in {"saved", "error", "none"} :
             RunnerMoves(r, "done", outcome) /\ (outcome = "saved" => runner[r].step = "linked")
      BY <1>7 DEF UnlinkTemporary, SaveFails, RunnerDies
    <2>2. runner[r].step # "idle" /\ files' = files
      BY <1>7 DEF UnlinkTemporary, SaveFails, RunnerDies
    <2>3. Holding(runner'[r], files')
      BY <2>1, <2>2, <1>2, MoveStep DEF Holding, RunnerSteps
    <2> QED BY <2>1, <2>2, <2>3, <1>3, MoveStep, RunnerStep
  <1> QED BY <1>1, <1>4, <1>5, <1>6, <1>7 DEF CatalogNext

LEMMA CatalogIsSound ==
    ASSUME CatalogAssumption, CatalogInv
    PROVE  CatalogTypeOK /\ ExperimentsSound
  <1>1. CatalogTypeOK
    BY RecordsDiffer DEF CatalogInv, CatalogShape, CatalogTypeOK, LegacyRecord, RunnersSound
  <1>2. TotalCandles \in Int /\ TrainEnd \in Int /\ ValidationEnd \in Int
    BY DEF CatalogAssumption, TrainEnd, ValidationEnd
  <1>3. ASSUME NEW a \in Catalogued, FullyReproducible(a)
        PROVE  \E id \in ExperimentIds : RunRecord(a, id)
    BY <1>3 DEF Catalogued, FullyReproducible, CatalogInv, CatalogShape, LegacyRecord
  <1>4. PartitionsApart
    <2> SUFFICES ASSUME NEW a \in Catalogued, NEW b \in Catalogued,
                        FullyReproducible(a), FullyReproducible(b)
                 PROVE  /\ a.result[3] \subseteq CandlesOf(a.partition)
                        /\ a.partition = "TRAIN" /\ b.partition \in {"VALIDATION", "OOS"}
                              => a.dataset \cap b.result[3] = {}
      BY DEF PartitionsApart
    <2>1. PICK p \in Partitions : a.partition = p /\ a.dataset = Given(p) /\ a.result[3] = Evaluated(p)
      BY <1>3 DEF RunRecord, RecordOf, ResultOf
    <2>2. PICK q \in Partitions : /\ b.partition = q /\ b.result[3] = Evaluated(q)
                                  /\ q # "FULL" => SplitPossible
      BY <1>3 DEF RunRecord, RecordOf, ResultOf
    <2>3. ASSUME p = "TRAIN", q \in {"VALIDATION", "OOS"}
          PROVE  Given(p) \cap Evaluated(q) = {}
      <3>1. SplitPossible
        BY <2>2, <2>3
      <3>2. Given(p) = 0 .. TrainEnd - 1
        BY <2>3 DEF Given, CandlesOf
      <3>3. \A i \in CandlesOf(q) : i >= TrainEnd
        BY <2>3, <3>1, <1>2 DEF CandlesOf, SplitPossible
      <3> QED BY <3>2, <3>3, <1>2 DEF Evaluated
    <2> QED BY <2>1, <2>2, <2>3 DEF Evaluated
  <1>5. ASSUME NEW a \in Catalogued, NEW b \in Catalogued, Classification(a, b) = "IDENTICAL_RESULT"
        PROVE  ControlledComparison(a, b) /\ a.config = b.config
    <2>1. FullyReproducible(a) /\ FullyReproducible(b) /\ a.result = b.result
      BY <1>5 DEF Classification
    <2>2. PICK p \in Partitions, c \in Configurations :
             a.dataset = Given(p) /\ a.config = c /\ a.result = <<Given(p), c, Evaluated(p)>>
      BY <1>3, <2>1 DEF RunRecord, RecordOf, ResultOf
    <2>3. PICK q \in Partitions, d \in Configurations :
             b.dataset = Given(q) /\ b.config = d /\ b.result = <<Given(q), d, Evaluated(q)>>
      BY <1>3, <2>1 DEF RunRecord, RecordOf, ResultOf
    <2>4. /\ a.result[1] = a.dataset /\ a.result[2] = a.config
          /\ b.result[1] = b.dataset /\ b.result[2] = b.config
      BY <2>2, <2>3
    <2> QED BY <2>1, <2>4 DEF ControlledComparison
  <1>6. SavesAreKept
    BY <1>5 DEF SavesAreKept, CatalogInv, RunnersSound
  <1> QED BY <1>1, <1>4, <1>6 DEF ExperimentsSound

\* A catalogued experiment answers for its run: partitions of one bundle stay apart, and no
\* concurrent save, crash or failed write changes, mixes or loses a record that save said is
\* there (ExperimentCatalog.save, run_partition_experiment, compare_experiment_records).
THEOREM ExperimentsSafe ==
    ASSUME CatalogAssumption
    PROVE  CatalogSpec => [](CatalogTypeOK /\ ExperimentsSound)
  <1>1. CatalogInv => CatalogTypeOK /\ ExperimentsSound
    BY CatalogIsSound
  <1> QED BY CatalogStarts, CatalogStep, <1>1, PTL DEF CatalogSpec

(***************************************************************************)
(* The backtest.                                                           *)
(***************************************************************************)
BacktestSpec == BacktestInit /\ [][BacktestNext]_backtestVars

ExitReasons == {"STOP_LOSS", "TAKE_PROFIT", "TIMEOUT", "END_OF_DATA"}
PendingEntries == [direction : {"BUY", "SELL"}, signal : Nat]
HeldPositions == [direction : {"BUY", "SELL"}, signal : Nat, entered : Nat, price : Int,
                  quantity : Nat, before : Nat]
ClosedTrades == [signal : Nat, entered : Nat, exited : Nat, reason : ExitReasons,
                 before : Nat, after : Nat, net : Int]

BacktestShape ==
    /\ candle \in 0 .. LastCandle /\ balance \in Nat /\ finished \in BOOLEAN
    /\ pendingEntry \in PendingEntries \cup {NoPendingEntry}
    /\ holding \in HeldPositions \cup {NoHolding}
    /\ results \in Seq(ClosedTrades) /\ equity \in Seq(Nat) /\ Len(equity) = Len(results) + 1
    /\ wins \in Nat /\ losses \in Nat /\ wins + losses <= Len(results)

RiskOf(cash) == (cash * RiskPercent) \div 100
LastExit == IF results = <<>> THEN 0 ELSE results[Len(results)].exited

\* A signal comes after the last exit and is spent by one entry; what is held was sized for
\* the balance there is.
EntriesInOrder ==
    /\ LastExit <= candle
    /\ pendingEntry = NoPendingEntry \/ holding = NoHolding
    /\ pendingEntry # NoPendingEntry => LastExit <= pendingEntry.signal /\ pendingEntry.signal <= candle
    /\ holding # NoHolding =>
          /\ LastExit <= holding.signal /\ holding.signal < holding.entered
          /\ holding.entered <= candle /\ candle - holding.entered + 1 < MaxHoldingCandles
          /\ holding.before = balance /\ StopDistance * holding.quantity <= RiskOf(balance)

TradeSound(t) ==
    /\ t.signal < t.entered /\ t.entered <= t.exited
    /\ t.exited - t.entered < MaxHoldingCandles
    /\ t.net >= -RiskOf(t.before) - FeePerTrade

TradesSound ==
    \A n \in DOMAIN results :
        /\ TradeSound(results[n])
        /\ n > 1 => results[n - 1].exited <= results[n].signal
        /\ equity[n] = results[n].before /\ equity[n + 1] = equity[n] + results[n].net

BacktestInv ==
    /\ BacktestShape /\ EntriesInOrder /\ TradesSound
    /\ balance = equity[Len(equity)]

---------------------------------------------------------------------------
\* Arithmetic of risk and size.
LEMMA QuotientBelow ==
    ASSUME NEW a \in Nat, NEW d \in Nat \ {0}
    PROVE  a \div d \in Nat /\ (a \div d) * d <= a
  <1>1. a = d * (a \div d) + (a % d) /\ a % d \in 0 .. d - 1 /\ a \div d \in Nat
    OBVIOUS
  <1>2. d * (a \div d) = (a \div d) * d
    BY <1>1
  <1> QED BY <1>1, <1>2

LEMMA ProductsOrdered ==
    ASSUME NEW a \in Int, NEW b \in Int, NEW q \in Nat, a <= b
    PROVE  a * q \in Int /\ b * q \in Int /\ a * q <= b * q
  <1>1. b - a \in Nat
    OBVIOUS
  <1>2. (b - a) * q \in Nat /\ (b - a) * q = b * q - a * q /\ a * q \in Int /\ b * q \in Int
    BY <1>1
  <1> QED BY <1>2

LEMMA QuantityIsCovered ==
    ASSUME BacktestAssumption, NEW cash \in Nat
    PROVE  AuthorizedQuantity(cash) \in Nat /\ StopDistance * AuthorizedQuantity(cash) <= cash
  <1>1. StopDistance \in Nat \ {0} /\ QuantityIncrement \in Nat \ {0}
    BY DEF BacktestAssumption
  <1> DEFINE a == cash \div StopDistance
             b == a \div QuantityIncrement
             q == b * QuantityIncrement
  <1>2. a \in Nat /\ a * StopDistance <= cash
    BY <1>1, QuotientBelow
  <1>3. b \in Nat /\ q <= a
    BY <1>1, <1>2, QuotientBelow
  <1>4. q \in Nat
    BY <1>1, <1>3
  <1>5. q * StopDistance <= a * StopDistance /\ q * StopDistance = StopDistance * q
    BY <1>1, <1>2, <1>3, <1>4, ProductsOrdered
  <1>6. AuthorizedQuantity(cash) = q
    BY DEF AuthorizedQuantity
  <1>7. q * StopDistance \in Nat /\ a * StopDistance \in Nat
    BY <1>1, <1>2, <1>4
  <1> HIDE DEF a, q
  <1> QED BY <1>2, <1>4, <1>5, <1>6, <1>7

LEMMA RiskIsCash ==
    ASSUME BacktestAssumption, NEW cash \in Nat
    PROVE  RiskOf(cash) \in Nat
  <1>1. cash * RiskPercent \in Nat
    BY DEF BacktestAssumption
  <1> QED BY <1>1, QuotientBelow DEF RiskOf

---------------------------------------------------------------------------
\* A position that was opened as the code opens one; the candle at which it is closed; and an
\* exit no worse than its stop.
Positioned(p, index) ==
    /\ p \in HeldPositions /\ index \in Nat
    /\ LastExit <= p.signal /\ p.signal < p.entered /\ p.entered <= index
    /\ index - p.entered < MaxHoldingCandles
    /\ p.before = balance /\ StopDistance * p.quantity <= RiskOf(balance)

GainAt(p, price) == IF p.direction = "BUY" THEN price - p.price ELSE p.price - price
ExitSound(p, exit) ==
    /\ exit.reason \in ExitReasons /\ exit.price \in Int
    /\ GainAt(p, exit.price) >= -StopDistance

LEMMA CloseKeeps ==
    ASSUME BacktestAssumption, BacktestInv, NEW p, NEW exit, NEW index, index <= candle',
           Positioned(p, index), ExitSound(p, exit), CloseTrade(p, exit, index)
    PROVE  /\ balance' \in Nat /\ results' \in Seq(ClosedTrades) /\ equity' \in Seq(Nat)
           /\ Len(equity') = Len(results') + 1 /\ holding' = NoHolding
           /\ wins' \in Nat /\ losses' \in Nat /\ wins' + losses' <= Len(results')
           /\ LastExit' = index /\ TradesSound' /\ balance' = equity'[Len(equity')]
  <1> DEFINE gross == GainAt(p, exit.price) * p.quantity
             after == CashAfter(gross)
             net == after - p.before
             trade == [signal |-> p.signal, entered |-> p.entered, exited |-> index,
                       reason |-> exit.reason, before |-> p.before, after |-> after, net |-> net]
  <1>1. /\ balance' = after /\ results' = Append(results, trade) /\ equity' = Append(equity, after)
        /\ wins' = wins + (IF net > 0 THEN 1 ELSE 0)
        /\ losses' = losses + (IF net < 0 THEN 1 ELSE 0)
        /\ holding' = NoHolding
    BY DEF CloseTrade, GainAt
  <1>2. /\ p \in HeldPositions /\ index \in Nat /\ p.price \in Int /\ p.quantity \in Nat
        /\ p.before \in Nat /\ p.signal \in Nat /\ p.entered \in Nat /\ p.before = balance
        /\ balance \in Nat /\ FeePerTrade \in Nat /\ StopDistance \in Nat
        /\ exit.price \in Int
    BY DEF Positioned, HeldPositions, BacktestAssumption, ExitSound
  <1>3. GainAt(p, exit.price) \in Int /\ GainAt(p, exit.price) >= -StopDistance
    BY <1>2 DEF GainAt, ExitSound
  <1>4. gross \in Int /\ gross >= -RiskOf(balance) /\ RiskOf(balance) \in Nat
    <2>1. (-StopDistance) * p.quantity <= gross /\ gross \in Int
      BY <1>2, <1>3, ProductsOrdered
    <2>2. (-StopDistance) * p.quantity = -(StopDistance * p.quantity) /\ StopDistance * p.quantity \in Nat
      BY <1>2
    <2>3. RiskOf(balance) \in Nat
      BY <1>2, RiskIsCash
    <2>4. StopDistance * p.quantity <= RiskOf(balance)
      BY DEF Positioned
    <2> HIDE DEF gross
    <2> QED BY <2>1, <2>2, <2>3, <2>4
  <1>5. after \in Nat /\ after >= balance + gross - FeePerTrade
    <2> HIDE DEF gross
    <2> QED BY <1>2, <1>4 DEF CashAfter
  <1>6. net \in Int /\ net >= -RiskOf(p.before) - FeePerTrade
    <2>1. after - balance >= -RiskOf(balance) - FeePerTrade /\ after - balance \in Int
      <3> HIDE DEF gross, after
      <3> QED BY <1>2, <1>4, <1>5
    <2> HIDE DEF after
    <2> QED BY <2>1, <1>2
  <1>7. trade \in ClosedTrades /\ TradeSound(trade)
    <2> HIDE DEF net, after
    <2> QED BY <1>2, <1>5, <1>6 DEF ClosedTrades, TradeSound, Positioned, ExitSound
  <1>8. trade.before = balance /\ trade.net = after - balance /\ trade.exited = index /\ trade.signal = p.signal
    BY <1>2
  <1> HIDE DEF trade, after, gross
  <1>9. /\ results \in Seq(ClosedTrades) /\ equity \in Seq(Nat)
        /\ Len(results) \in Nat /\ Len(equity) = Len(results) + 1
        /\ DOMAIN results = 1 .. Len(results) /\ DOMAIN equity = 1 .. Len(results) + 1
    BY DEF BacktestInv, BacktestShape
  <1>10. /\ results' \in Seq(ClosedTrades) /\ Len(results') = Len(results) + 1
         /\ DOMAIN results' = 1 .. Len(results) + 1
         /\ results'[Len(results) + 1] = trade
         /\ \A n \in 1 .. Len(results) : results'[n] = results[n]
    BY <1>1, <1>7, <1>9
  <1>11. /\ equity' \in Seq(Nat) /\ Len(equity') = Len(results) + 2
         /\ equity'[Len(results) + 2] = after
         /\ \A n \in 1 .. Len(results) + 1 : equity'[n] = equity[n]
    BY <1>1, <1>5, <1>9
  <1>12. wins' \in Nat /\ losses' \in Nat /\ wins' + losses' <= Len(results')
    <2>1. wins \in Nat /\ losses \in Nat /\ wins + losses <= Len(results)
      BY DEF BacktestInv, BacktestShape
    <2> HIDE DEF net
    <2> QED BY <2>1, <1>1, <1>6, <1>9, <1>10
  <1>13. LastExit' = index
    <2>1. results' # <<>> /\ results'[Len(results')].exited = index
      BY <1>8, <1>9, <1>10
    <2> QED BY <2>1 DEF LastExit
  <1>14. TradesSound'
    <2> SUFFICES ASSUME NEW n \in DOMAIN results'
                 PROVE  /\ TradeSound(results'[n])
                        /\ n > 1 => results'[n - 1].exited <= results'[n].signal
                        /\ equity'[n] = results'[n].before /\ equity'[n + 1] = equity'[n] + results'[n].net
      BY DEF TradesSound, TradeSound, RiskOf
    <2>1. CASE n \in 1 .. Len(results)
      <3>0. /\ n \in Nat /\ n \in 1 .. Len(results) + 1 /\ n + 1 \in 1 .. Len(results) + 1
            /\ (n > 1 => n - 1 \in 1 .. Len(results))
        BY <2>1, <1>9
      <3>1. results'[n] = results[n] /\ equity'[n] = equity[n] /\ equity'[n + 1] = equity[n + 1]
            /\ (n > 1 => results'[n - 1] = results[n - 1])
        <4> DEFINE top == Len(results)
        <4>1. /\ \A i \in 1 .. top : results'[i] = results[i]
              /\ \A i \in 1 .. top + 1 : equity'[i] = equity[i]
          BY <1>10, <1>11
        <4> HIDE DEF top
        <4>2. /\ n \in 1 .. top /\ n \in 1 .. top + 1 /\ n + 1 \in 1 .. top + 1
              /\ (n > 1 => n - 1 \in 1 .. top)
          BY <2>1, <3>0 DEF top
        <4> QED BY <4>1, <4>2, Zenon
      <3> QED BY <2>1, <3>1, <1>9 DEF BacktestInv, TradesSound
    <2>2. CASE n = Len(results) + 1
      <3>0. n \in 1 .. Len(results) + 1 /\ n + 1 = Len(results) + 2
        BY <2>2, <1>9
      <3>1. results'[n] = trade /\ equity'[n] = equity[n] /\ equity'[n + 1] = after
        BY <2>2, <3>0, <1>10, <1>11, Zenon
      <3>2. equity[n] = balance
        BY <2>2, <1>9 DEF BacktestInv
      <3>3. equity'[n] = results'[n].before /\ equity'[n + 1] = equity'[n] + results'[n].net
        BY <3>1, <3>2, <1>2, <1>5, <1>8
      <3>4. n > 1 => results'[n - 1].exited <= results'[n].signal
        <4>1. n > 1 => n - 1 = Len(results) /\ results'[n - 1] = results[Len(results)] /\ results # <<>>
          BY <2>2, <1>9, <1>10
        <4>2. n > 1 => LastExit = results[Len(results)].exited
          BY <4>1 DEF LastExit
        <4>3. LastExit <= p.signal
          BY DEF Positioned
        <4> QED BY <4>1, <4>2, <4>3, <3>1, <1>8
      <3> QED BY <3>1, <3>3, <3>4, <1>7
    <2> QED BY <2>1, <2>2, <1>10
  <1>15. balance' = equity'[Len(equity')]
    BY <1>1, <1>9, <1>11
  <1> QED BY <1>1, <1>5, <1>9, <1>10, <1>11, <1>12, <1>13, <1>14, <1>15

LEMMA EntrySound ==
    ASSUME BacktestAssumption, BacktestInv, pendingEntry # NoPendingEntry,
           NEW open \in Nat, EnterAt(open, candle + 1) # NoHolding
    PROVE  Positioned(EnterAt(open, candle + 1), candle + 1)
  <1> DEFINE risk == RiskOf(balance)
             entry == EnterAt(open, candle + 1)
  <1>1. /\ balance \in Nat /\ candle \in Nat /\ Adverse \in Nat /\ MaxHoldingCandles \in Nat \ {0}
        /\ pendingEntry \in PendingEntries
    BY DEF BacktestInv, BacktestShape, BacktestAssumption
  <1>2. risk \in Nat /\ AuthorizedQuantity(risk) \in Nat /\ StopDistance * AuthorizedQuantity(risk) <= risk
    BY <1>1, RiskIsCash, QuantityIsCovered
  <1>3. entry = [direction |-> pendingEntry.direction, signal |-> pendingEntry.signal, entered |-> candle + 1,
             price |-> IF pendingEntry.direction = "BUY" THEN open + Adverse ELSE open - Adverse,
             quantity |-> AuthorizedQuantity(risk), before |-> balance]
    BY DEF EnterAt, RiskOf
  <1>4. LastExit <= pendingEntry.signal /\ pendingEntry.signal <= candle
    BY DEF BacktestInv, EntriesInOrder
  <1> HIDE DEF risk, entry
  <1>5. entry \in HeldPositions
    BY <1>1, <1>2, <1>3 DEF HeldPositions, PendingEntries
  <1>6. /\ entry.signal = pendingEntry.signal /\ entry.entered = candle + 1 /\ entry.before = balance
        /\ entry.quantity = AuthorizedQuantity(risk) /\ pendingEntry.signal \in Nat
    BY <1>1, <1>3 DEF PendingEntries
  <1>7. /\ entry.signal < entry.entered /\ entry.entered <= candle + 1 /\ (candle + 1) - entry.entered < MaxHoldingCandles
        /\ LastExit <= entry.signal /\ candle + 1 \in Nat
    BY <1>1, <1>4, <1>6
  <1>8. Positioned(entry, candle + 1)
    <2>1. StopDistance * entry.quantity <= RiskOf(balance)
      BY <1>2, <1>6 DEF risk
    <2>2. entry.before = balance
      BY <1>6
    <2> QED BY <2>1, <2>2, <1>5, <1>7 DEF Positioned
  <1> QED BY <1>8 DEF entry

\* Whatever ends a position inside a candle, it is no worse than the stop.
LEMMA ExitNoWorse ==
    ASSUME BacktestAssumption, NEW p \in HeldPositions, NEW bar, NEW index \in Nat,
           bar.low \in Nat, bar.high \in Nat, bar.close \in Nat,
           bar.low <= bar.close, bar.close <= bar.high,
           ExitOf(p, bar, index).reason # "NONE"
    PROVE  ExitSound(p, ExitOf(p, bar, index))
  <1>1. p.price \in Int /\ StopDistance \in Nat /\ TargetDistance \in Nat /\ p.direction \in {"BUY", "SELL"}
    BY DEF HeldPositions, BacktestAssumption
  <1>2. CASE ExitOf(p, bar, index) = [reason |-> "STOP_LOSS", price |-> StopOf(p)]
    BY <1>1, <1>2 DEF ExitSound, GainAt, StopOf, ExitReasons
  <1>3. CASE ExitOf(p, bar, index) = [reason |-> "TAKE_PROFIT", price |-> TargetOf(p)]
    BY <1>1, <1>3 DEF ExitSound, GainAt, TargetOf, ExitReasons
  <1>4. CASE /\ ExitOf(p, bar, index) = [reason |-> "TIMEOUT", price |-> bar.close]
             /\ ~(IF p.direction = "BUY" THEN bar.low <= StopOf(p) ELSE bar.high >= StopOf(p))
    BY <1>1, <1>4 DEF ExitSound, GainAt, StopOf, ExitReasons
  <1> QED BY <1>2, <1>3, <1>4 DEF ExitOf

\* A position that stays open has time left.
LEMMA HeldHasTime ==
    ASSUME NEW p, NEW bar, NEW index, ExitOf(p, bar, index).reason = "NONE"
    PROVE  ~(index - p.entered + 1 >= MaxHoldingCandles)
  BY DEF ExitOf

LEMMA BacktestStarts == BacktestAssumption => (BacktestInit => BacktestInv)
  <1> SUFFICES ASSUME BacktestAssumption, BacktestInit PROVE BacktestInv
    OBVIOUS
  <1>1. /\ results = <<>> /\ equity = <<StartingBalance>> /\ Len(results) = 0 /\ Len(equity) = 1
        /\ DOMAIN results = {} /\ results \in Seq(ClosedTrades) /\ StartingBalance \in Nat
        /\ equity \in Seq(Nat) /\ equity[1] = StartingBalance
    BY DEF BacktestInit, BacktestAssumption
  <1>2. BacktestShape
    <2>1. LastCandle \in Nat
      BY DEF BacktestAssumption
    <2>2. candle \in 0 .. LastCandle
      BY <2>1 DEF BacktestInit
    <2>3. /\ balance \in Nat /\ finished \in BOOLEAN
          /\ pendingEntry \in PendingEntries \cup {NoPendingEntry}
          /\ holding \in HeldPositions \cup {NoHolding}
      BY <1>1 DEF BacktestInit
    <2>4. wins \in Nat /\ losses \in Nat /\ wins + losses <= Len(results) /\ Len(equity) = Len(results) + 1
      BY <1>1 DEF BacktestInit
    <2> QED BY <1>1, <2>2, <2>3, <2>4 DEF BacktestShape
  <1>3. EntriesInOrder
    BY <1>1 DEF BacktestInit, EntriesInOrder, LastExit
  <1> QED BY <1>1, <1>2, <1>3 DEF BacktestInit, BacktestInv, TradesSound

LEMMA EvaluateKeeps ==
    ASSUME BacktestAssumption, BacktestInv, EvaluateCandle
    PROVE  BacktestInv'
  <1> DEFINE index == candle + 1
  <1>1. candle' = index /\ finished' = finished /\ index \in Nat /\ candle \in Nat /\ index <= LastCandle
    BY DEF EvaluateCandle, BacktestInv, BacktestShape, BacktestAssumption
  <1>2a. PICK open \in BarPrices : \E bar \in CandleShapes(open) : ProcessCandle(bar, index)
    BY DEF EvaluateCandle
  <1>2. PICK bar \in CandleShapes(open) : ProcessCandle(bar, index)
    BY <1>2a
  <1>3. /\ bar.open = open /\ open \in Nat /\ bar.low \in Nat /\ bar.high \in Nat /\ bar.close \in Nat
        /\ bar.low <= bar.close /\ bar.close <= bar.high
    BY DEF CandleShapes, BacktestAssumption
  <1>4. PICK direction \in {"BUY", "SELL", "NO_TRADE"}, approved \in BOOLEAN :
           QueueSignal(direction, approved, index)
    BY DEF EvaluateCandle
  <1> DEFINE entered == holding = NoHolding /\ pendingEntry # NoPendingEntry /\ index > pendingEntry.signal
             p == IF entered THEN EnterAt(open, index) ELSE holding
             exit == ExitOf(p, bar, index)
  <1>5. IF p # NoHolding /\ exit.reason # "NONE" THEN CloseTrade(p, exit, index)
        ELSE holding' = p /\ UNCHANGED <<balance, results, equity, wins, losses>>
    BY <1>2, <1>3 DEF ProcessCandle
  <1>6. p # NoHolding => Positioned(p, index)
    <2>1. CASE entered
      BY <2>1, <1>3, EntrySound
    <2>2. CASE ~entered /\ holding # NoHolding
      <3>1. holding \in HeldPositions /\ MaxHoldingCandles \in Nat
        BY <2>2 DEF BacktestInv, BacktestShape, BacktestAssumption
      <3>2. holding.entered \in Nat /\ index \in Nat
        BY <3>1, <1>1 DEF HeldPositions
      <3>3. /\ LastExit <= holding.signal /\ holding.signal < holding.entered
            /\ holding.entered <= candle /\ candle - holding.entered + 1 < MaxHoldingCandles
            /\ holding.before = balance /\ StopDistance * holding.quantity <= RiskOf(balance)
        BY <2>2 DEF BacktestInv, EntriesInOrder
      <3>4. holding.entered <= index /\ index - holding.entered < MaxHoldingCandles
        BY <3>1, <3>2, <3>3, <1>1
      <3> QED BY <2>2, <3>1, <3>2, <3>3, <3>4 DEF Positioned
    <2> QED BY <2>1, <2>2
  <1> HIDE DEF p, exit
  <1> DEFINE left == IF holding = NoHolding THEN NoPendingEntry ELSE pendingEntry
  <1>7. left = NoPendingEntry
    BY DEF BacktestInv, EntriesInOrder
  <1>8. /\ pendingEntry' \in {NoPendingEntry, [direction |-> direction, signal |-> index]}
        /\ pendingEntry' # NoPendingEntry =>
              /\ holding' = NoHolding /\ direction \in {"BUY", "SELL"}
              /\ pendingEntry' = [direction |-> direction, signal |-> index]
    BY <1>4, <1>7 DEF QueueSignal
  <1>9. pendingEntry' \in PendingEntries \cup {NoPendingEntry}
        /\ (pendingEntry' # NoPendingEntry => pendingEntry'.signal = index)
    BY <1>1, <1>8 DEF PendingEntries
  <1>10. CASE p # NoHolding /\ exit.reason # "NONE"
    <2>1. CloseTrade(p, exit, index)
      BY <1>5, <1>10
    <2>2. ExitSound(p, exit)
      BY <1>1, <1>3, <1>6, <1>10, ExitNoWorse DEF exit, Positioned
    <2>3. index <= candle'
      BY <1>1
    <2>4. /\ balance' \in Nat /\ results' \in Seq(ClosedTrades) /\ equity' \in Seq(Nat)
          /\ Len(equity') = Len(results') + 1 /\ holding' = NoHolding
          /\ wins' \in Nat /\ losses' \in Nat /\ wins' + losses' <= Len(results')
          /\ LastExit' = index /\ TradesSound' /\ balance' = equity'[Len(equity')]
      BY <2>1, <2>2, <2>3, <1>6, <1>10, CloseKeeps
    <2>5. BacktestShape'
      BY <2>4, <1>1, <1>9 DEF BacktestInv, BacktestShape
    <2>6. EntriesInOrder'
      BY <2>4, <1>1, <1>9 DEF EntriesInOrder
    <2> QED BY <2>4, <2>5, <2>6 DEF BacktestInv
  <1>11. CASE ~(p # NoHolding /\ exit.reason # "NONE")
    <2>1. holding' = p /\ UNCHANGED <<balance, results, equity, wins, losses>>
      BY <1>5, <1>11
    <2>2. p # NoHolding => p \in HeldPositions
      BY <1>6 DEF Positioned
    <2>3. BacktestShape'
      BY <2>1, <2>2, <1>1, <1>9 DEF BacktestInv, BacktestShape
    <2>4. LastExit' = LastExit /\ LastExit <= candle
      BY <2>1 DEF LastExit, BacktestInv, EntriesInOrder
    <2>5. LastExit \in Nat
      <3>1. results # <<>> => results[Len(results)] \in ClosedTrades
        BY DEF BacktestInv, BacktestShape
      <3> QED BY <3>1 DEF LastExit, ClosedTrades
    <2>6. LastExit' <= candle' /\ LastExit' <= index
      BY <2>4, <2>5, <1>1
    <2>7. holding' # NoHolding =>
             /\ LastExit' <= holding'.signal /\ holding'.signal < holding'.entered
             /\ holding'.entered <= candle' /\ candle' - holding'.entered + 1 < MaxHoldingCandles
             /\ holding'.before = balance' /\ StopDistance * holding'.quantity <= RiskOf(balance')
      <3> SUFFICES ASSUME p # NoHolding
                   PROVE  /\ LastExit <= p.signal /\ p.signal < p.entered
                          /\ p.entered <= index /\ index - p.entered + 1 < MaxHoldingCandles
                          /\ p.before = balance /\ StopDistance * p.quantity <= RiskOf(balance)
        BY <2>1, <2>4, <1>1
      <3>1. Positioned(p, index)
        BY <1>6
      <3>2. ~(index - p.entered + 1 >= MaxHoldingCandles)
        BY <1>11, HeldHasTime DEF exit
      <3>3. p.entered \in Nat /\ MaxHoldingCandles \in Nat
        BY <3>1 DEF Positioned, HeldPositions, BacktestAssumption
      <3> QED BY <3>1, <3>2, <3>3, <1>1 DEF Positioned
    <2>8. EntriesInOrder'
      BY <2>6, <2>7, <1>1, <1>8, <1>9 DEF EntriesInOrder, RiskOf
    <2>9. TradesSound' /\ balance' = equity'[Len(equity')]
      BY <2>1 DEF BacktestInv, TradesSound, TradeSound, RiskOf
    <2> QED BY <2>3, <2>8, <2>9 DEF BacktestInv
  <1> QED BY <1>10, <1>11

LEMMA FinishKeeps ==
    ASSUME BacktestAssumption, BacktestInv, FinishBacktest
    PROVE  BacktestInv'
  <1>1. /\ finished' = TRUE /\ pendingEntry' = NoPendingEntry /\ candle' = candle /\ candle \in Nat
    BY DEF FinishBacktest, BacktestInv, BacktestShape
  <1>2. CASE holding = NoHolding
    <2>1. UNCHANGED <<balance, holding, results, equity, wins, losses, candle>>
      BY <1>1, <1>2 DEF FinishBacktest
    <2>2. BacktestShape' /\ EntriesInOrder'
      BY <2>1, <1>1, <1>2 DEF BacktestInv, BacktestShape, EntriesInOrder, LastExit
    <2>3. TradesSound' /\ balance' = equity'[Len(equity')]
      BY <2>1 DEF BacktestInv, TradesSound, TradeSound, RiskOf
    <2> QED BY <2>2, <2>3 DEF BacktestInv
  <1>3. CASE holding # NoHolding
    <2>1. PICK close \in BarPrices :
            /\ IF holding.direction = "BUY" THEN close > StopOf(holding) /\ close < TargetOf(holding)
                                            ELSE close < StopOf(holding) /\ close > TargetOf(holding)
            /\ CloseTrade(holding, [reason |-> "END_OF_DATA", price |-> close], candle)
      BY <1>3 DEF FinishBacktest
    <2> DEFINE exit == [reason |-> "END_OF_DATA", price |-> close]
    <2>2. holding \in HeldPositions /\ MaxHoldingCandles \in Nat /\ close \in Nat /\ StopDistance \in Nat
      BY <1>3 DEF BacktestInv, BacktestShape, BacktestAssumption
    <2>3. holding.entered \in Nat /\ holding.price \in Int
      BY <2>2 DEF HeldPositions
    <2>4. candle - holding.entered < MaxHoldingCandles
      BY <2>2, <2>3, <1>1, <1>3 DEF BacktestInv, EntriesInOrder
    <2>5. Positioned(holding, candle)
      BY <2>2, <2>4, <1>1, <1>3 DEF Positioned, BacktestInv, EntriesInOrder
    <2>6. ExitSound(holding, exit)
      BY <2>1, <2>2, <2>3 DEF ExitSound, GainAt, StopOf, ExitReasons
    <2>7. candle <= candle' /\ CloseTrade(holding, exit, candle)
      BY <2>1, <1>1
    <2> HIDE DEF exit
    <2>8. /\ balance' \in Nat /\ results' \in Seq(ClosedTrades) /\ equity' \in Seq(Nat)
          /\ Len(equity') = Len(results') + 1 /\ holding' = NoHolding
          /\ wins' \in Nat /\ losses' \in Nat /\ wins' + losses' <= Len(results')
          /\ LastExit' = candle /\ TradesSound' /\ balance' = equity'[Len(equity')]
      BY <2>5, <2>6, <2>7, CloseKeeps
    <2>9. BacktestShape' /\ EntriesInOrder'
      BY <2>8, <1>1 DEF BacktestInv, BacktestShape, EntriesInOrder
    <2> QED BY <2>8, <2>9 DEF BacktestInv
  <1> QED BY <1>2, <1>3

LEMMA BacktestStep == BacktestAssumption => (BacktestInv /\ [BacktestNext]_backtestVars => BacktestInv')
  <1> SUFFICES ASSUME BacktestAssumption, BacktestInv, [BacktestNext]_backtestVars PROVE BacktestInv'
    OBVIOUS
  <1>1. CASE UNCHANGED backtestVars
    <2>1. UNCHANGED <<candle, balance, pendingEntry, holding, results, equity, wins, losses, finished>>
      BY <1>1 DEF backtestVars
    <2> QED BY <2>1 DEF BacktestInv, BacktestShape, EntriesInOrder, LastExit, TradesSound, TradeSound, RiskOf
  <1> QED BY <1>1, EvaluateKeeps, FinishKeeps DEF BacktestNext

---------------------------------------------------------------------------
\* The report's two recursions: both have a solution over any curve and any closed.
Solves(f, v0, g, n) == f[0] = v0 /\ \A k \in 1 .. n : f[k] = g[k][f[k - 1]]

LEMMA RecursionExists ==
    ASSUME NEW V, NEW v0 \in V, NEW g \in [Nat -> [V -> V]], NEW n \in Nat
    PROVE  \E f \in [0 .. n -> V] : Solves(f, v0, g, n)
  <1> USE DEF Solves
  <1> DEFINE S == {m \in Nat : ~\E f \in [0 .. m -> V] : Solves(f, v0, g, m)}
  <1> SUFFICES ASSUME S # {} PROVE FALSE
    OBVIOUS
  <1>1. PICK m \in S : \A k \in S : m <= k
    <2>1. S \in SUBSET Nat
      OBVIOUS
    <2> HIDE DEF S
    <2> QED BY <2>1, NatHasLeast
  <1>2. CASE m = 0
    <2> DEFINE f == [k \in 0 .. 0 |-> v0]
    <2>1. f \in [0 .. m -> V] /\ Solves(f, v0, g, m)
      BY <1>2
    <2> QED BY <2>1
  <1>3. CASE m # 0
    <2>0. m \in Nat
      OBVIOUS
    <2>1. m \in Nat /\ m - 1 \in Nat /\ m - 1 \notin S
      <3>1. m - 1 \in Nat /\ ~(m <= m - 1)
        BY <2>0, <1>3
      <3> HIDE DEF S
      <3> QED BY <2>0, <3>1, <1>1
    <2>2. PICK h \in [0 .. m - 1 -> V] : Solves(h, v0, g, m - 1)
      BY <2>1
    <2> DEFINE f == [k \in 0 .. m |-> IF k = m THEN g[m][h[m - 1]] ELSE h[k]]
    <2>3. /\ h[m - 1] \in V /\ \A k \in 0 .. m - 1 : h[k] \in V
          /\ g[m][h[m - 1]] \in V
      BY <2>1, <2>2
    <2>4. f \in [0 .. m -> V]
      BY <2>1, <2>3
    <2>5. /\ \A k \in 0 .. m - 1 : f[k] = h[k]
          /\ f[m] = g[m][h[m - 1]]
      BY <2>1
    <2> HIDE DEF f
    <2>6. f[0] = v0
      BY <2>1, <2>2, <2>5
    <2>7. ASSUME NEW k \in 1 .. m PROVE f[k] = g[k][f[k - 1]]
      <3>1. k - 1 \in 0 .. m - 1 /\ f[k - 1] = h[k - 1]
        BY <2>1, <2>5
      <3>2. CASE k = m
        BY <3>1, <3>2, <2>5
      <3>3. CASE k # m
        <4>1. k \in 1 .. m - 1 /\ k \in 0 .. m - 1
          BY <3>3, <2>1
        <4>2. f[k] = h[k] /\ h[k] = g[k][h[k - 1]]
          BY <4>1, <2>2, <2>5
        <4> QED BY <3>1, <4>2
      <3> QED BY <3>2, <3>3
    <2> QED BY <2>4, <2>6, <2>7
  <1> QED BY <1>2, <1>3

LEMMA MaxIs ==
    ASSUME NEW S \in SUBSET Int, NEW x \in S, \A y \in S : y <= x
    PROVE  Max(S) = x
  <1>1. \A y \in S : x >= y
    OBVIOUS
  <1>2. \A z \in S : (\A y \in S : z >= y) => z = x
    <2> SUFFICES ASSUME NEW z \in S, \A y \in S : z >= y PROVE z = x
      OBVIOUS
    <2>1. z \in Int /\ x \in Int /\ z >= x /\ z <= x
      OBVIOUS
    <2> QED BY <2>1
  <1> QED BY <1>1, <1>2 DEF Max

LEMMA MaxOfTwo ==
    ASSUME NEW a \in Int, NEW b \in Int
    PROVE  Max({a, b}) = IF a >= b THEN a ELSE b
  <1>1. CASE a >= b
    BY <1>1, MaxIs
  <1>2. CASE ~(a >= b)
    BY <1>2, MaxIs
  <1> QED BY <1>1, <1>2

\* The drawdown: the running peak and the deepest fall below it.
DrawNext(curve, n, before) ==
    LET peak == Max({before.peak, curve[n]})
    IN [peak |-> peak, deepest |-> Max({before.deepest, peak - curve[n]})]
Draws(f, curve) ==
    f = [n \in DOMAIN curve |-> IF n = 1 THEN [peak |-> curve[1], deepest |-> 0]
                                ELSE DrawNext(curve, n, f[n - 1])]

LEMMA DrawExists ==
    ASSUME NEW curve \in Seq(Int), Len(curve) > 0
    PROVE  \E f \in [1 .. Len(curve) -> [peak : Int, deepest : Int]] : Draws(f, curve)
  <1> DEFINE V == [peak : Int, deepest : Int]
             m == Len(curve)
             first == [peak |-> curve[1], deepest |-> 0]
             Fall(k, v) == IF k \in 1 .. m - 1 THEN DrawNext(curve, k + 1, v) ELSE v
             g == [k \in Nat |-> [v \in V |-> Fall(k, v)]]
  <1>1. m \in Nat /\ m - 1 \in Nat /\ DOMAIN curve = 1 .. m /\ \A n \in 1 .. m : curve[n] \in Int
    OBVIOUS
  <1>2. first \in V
    BY <1>1
  <1>3. ASSUME NEW n \in 1 .. m, NEW v \in V PROVE DrawNext(curve, n, v) \in V
    <2>1. v.peak \in Int /\ v.deepest \in Int /\ curve[n] \in Int
      BY <1>1
    <2>2. Max({v.peak, curve[n]}) \in Int
      BY <2>1, MaxOfTwo
    <2>3. Max({v.peak, curve[n]}) - curve[n] \in Int
      BY <2>1, <2>2
    <2>4. Max({v.deepest, Max({v.peak, curve[n]}) - curve[n]}) \in Int
      BY <2>1, <2>3, MaxOfTwo
    <2> QED BY <2>2, <2>4 DEF DrawNext
  <1> HIDE DEF V
  <1>4. g \in [Nat -> [V -> V]]
    <2>1. ASSUME NEW k \in Nat, NEW v \in V PROVE Fall(k, v) \in V
      BY <1>1, <1>3
    <2> HIDE DEF Fall
    <2> QED BY <2>1
  <1>5a. PICK h \in [0 .. m - 1 -> V] : Solves(h, first, g, m - 1)
    <2> HIDE DEF g, first, m
    <2> QED BY <1>1, <1>2, <1>4, RecursionExists
  <1>5. h[0] = first /\ \A k \in 1 .. m - 1 : h[k] = g[k][h[k - 1]]
    <2> HIDE DEF g, first, m
    <2> QED BY <1>5a DEF Solves
  <1> DEFINE f == [n \in 1 .. m |-> h[n - 1]]
  <1>6. f \in [1 .. m -> V]
    BY <1>1
  <1>7. ASSUME NEW n \in 1 .. m
        PROVE  f[n] = IF n = 1 THEN first ELSE DrawNext(curve, n, f[n - 1])
    <2>1. CASE n = 1
      BY <2>1, <1>1, <1>5
    <2>2. CASE n # 1
      <3>1. n - 1 \in 1 .. m - 1 /\ n - 1 \in 0 .. m - 1 /\ n - 2 \in 0 .. m - 1 /\ (n - 1) - 1 = n - 2
            /\ n - 1 \in Nat /\ (n - 1) + 1 = n /\ n - 1 \in 1 .. m
        BY <2>2, <1>1
      <3>2. f[n] = h[n - 1] /\ f[n - 1] = h[n - 2] /\ h[n - 2] \in V
        BY <3>1
      <3>3. h[n - 1] = g[n - 1][h[n - 2]]
        <4> HIDE DEF g
        <4>1. h[n - 1] = g[n - 1][h[(n - 1) - 1]]
          BY <3>1, <1>5, Zenon
        <4> QED BY <3>1, <4>1, Zenon
      <3>4. g[n - 1][h[n - 2]] = Fall(n - 1, h[n - 2])
        BY <3>1, <3>2
      <3>5. Fall(n - 1, h[n - 2]) = DrawNext(curve, n, h[n - 2])
        BY <3>1
      <3> QED BY <2>2, <3>2, <3>3, <3>4, <3>5
    <2> QED BY <2>1, <2>2
  <1>8. Draws(f, curve)
    <2>1. f = [n \in 1 .. m |-> f[n]]
      BY <1>6
    <2> HIDE DEF f
    <2> QED BY <2>1, <1>1, <1>7 DEF Draws
  <1> QED BY <1>6, <1>8 DEF V

\* What the recursion has found after n points of the curve.
WorstUpTo(v, curve, n) ==
    /\ v.peak \in Int /\ v.deepest \in Int
    /\ \E i \in 1 .. n : v.peak = curve[i]
    /\ \A i \in 1 .. n : curve[i] <= v.peak
    /\ \E i, j \in 1 .. n : i <= j /\ v.deepest = curve[i] - curve[j]
    /\ \A i, j \in 1 .. n : i <= j => curve[i] - curve[j] <= v.deepest

LEMMA WorstOfOne ==
    ASSUME NEW curve \in Seq(Int), Len(curve) > 0
    PROVE  WorstUpTo([peak |-> curve[1], deepest |-> 0], curve, 1)
  <1>1. curve[1] \in Int /\ 1 .. 1 = {1} /\ 1 <= 1 /\ 0 = curve[1] - curve[1] /\ curve[1] <= curve[1]
    OBVIOUS
  <1> QED BY <1>1 DEF WorstUpTo

LEMMA WorstOfMore ==
    ASSUME NEW curve \in Seq(Int), NEW n \in 2 .. Len(curve), NEW v, WorstUpTo(v, curve, n - 1)
    PROVE  WorstUpTo(DrawNext(curve, n, v), curve, n)
  <1> DEFINE peak == Max({v.peak, curve[n]})
             deepest == Max({v.deepest, peak - curve[n]})
             w == DrawNext(curve, n, v)
  <1>1. /\ n \in Nat /\ n - 1 \in Nat /\ 1 .. n - 1 \subseteq 1 .. n /\ n \in 1 .. n
        /\ \A i \in 1 .. n : i = n \/ i \in 1 .. n - 1
        /\ \A i \in 1 .. n : curve[i] \in Int /\ i \in Nat
    OBVIOUS
  <1>2. v.peak \in Int /\ v.deepest \in Int /\ curve[n] \in Int
    BY <1>1 DEF WorstUpTo
  <1>3. peak = (IF v.peak >= curve[n] THEN v.peak ELSE curve[n]) /\ peak \in Int
    BY <1>2, MaxOfTwo
  <1>4. /\ deepest = (IF v.deepest >= peak - curve[n] THEN v.deepest ELSE peak - curve[n])
        /\ deepest \in Int
    <2> HIDE DEF peak
    <2>1. peak - curve[n] \in Int
      BY <1>2, <1>3
    <2> QED BY <1>2, <2>1, MaxOfTwo
  <1>5. w.peak = peak /\ w.deepest = deepest
    BY DEF DrawNext
  <1> HIDE DEF w, peak, deepest
  <1>5a. v.deepest <= deepest /\ peak - curve[n] <= deepest
    BY <1>2, <1>3, <1>4
  <1>5b. peak \in Int /\ deepest \in Int
    BY <1>3, <1>4
  <1>6. \E i \in 1 .. n : peak = curve[i]
    BY <1>1, <1>3 DEF WorstUpTo
  <1>7. \A i \in 1 .. n : curve[i] <= peak
    <2> TAKE i \in 1 .. n
    <2>1. CASE i = n
      BY <2>1, <1>2, <1>3
    <2>2. CASE i \in 1 .. n - 1
      <3>1. curve[i] <= v.peak /\ curve[i] \in Int
        BY <2>2, <1>1 DEF WorstUpTo
      <3> QED BY <3>1, <1>2, <1>3
    <2> QED BY <1>1, <2>1, <2>2
  <1>8. \E i, j \in 1 .. n : i <= j /\ deepest = curve[i] - curve[j]
    <2>1. CASE deepest = v.deepest
      BY <1>1, <2>1 DEF WorstUpTo
    <2>2. CASE deepest = peak - curve[n]
      <3>1. PICK i \in 1 .. n : peak = curve[i]
        BY <1>6
      <3>2. i <= n /\ deepest = curve[i] - curve[n] /\ n \in 1 .. n
        BY <2>2, <3>1, <1>1
      <3> QED BY <3>2
    <2> QED BY <1>4, <2>1, <2>2
  <1>9. \A i, j \in 1 .. n : i <= j => curve[i] - curve[j] <= deepest
    <2> SUFFICES ASSUME NEW i \in 1 .. n, NEW j \in 1 .. n, i <= j
                 PROVE  curve[i] - curve[j] <= deepest
      OBVIOUS
    <2>1. curve[i] \in Int /\ curve[j] \in Int
      BY <1>1
    <2>2. CASE j = n
      <3>1. curve[i] <= peak /\ curve[j] = curve[n]
        BY <1>7, <2>2
      <3>2. peak - curve[j] <= deepest
        BY <3>1, <1>5a
      <3>3. \A a, b, c, d \in Int : a <= b /\ b - c <= d => a - c <= d
        OBVIOUS
      <3> QED BY <2>1, <3>1, <3>2, <3>3, <1>5b
    <2>3. CASE j \in 1 .. n - 1
      <3>1. i \in 1 .. n - 1
        BY <2>3, <1>1
      <3>2. curve[i] - curve[j] <= v.deepest
        BY <2>3, <3>1 DEF WorstUpTo
      <3> QED BY <2>1, <3>2, <1>2, <1>4, <1>5a
    <2> QED BY <1>1, <2>2, <2>3
  <1>10. WorstUpTo(w, curve, n)
    BY <1>3, <1>4, <1>5, <1>6, <1>7, <1>8, <1>9 DEF WorstUpTo
  <1> QED BY <1>10 DEF w

LEMMA DrawdownIsDeepest ==
    ASSUME NEW curve \in Seq(Int), Len(curve) > 0
    PROVE  Drawdown(curve) =
              Max({curve[p[1]] - curve[p[2]] :
                      p \in {q \in (DOMAIN curve) \X (DOMAIN curve) : q[1] <= q[2]}})
  <1> DEFINE f == CHOOSE f : Draws(f, curve)
             m == Len(curve)
             Falls == {curve[p[1]] - curve[p[2]] :
                          p \in {q \in (DOMAIN curve) \X (DOMAIN curve) : q[1] <= q[2]}}
  <1>1. Drawdown(curve) = f[m].deepest
    BY DEF Drawdown, Draws, DrawNext
  <1>2. Draws(f, curve)
    BY DrawExists
  <1> HIDE DEF f
  <1>3. m \in Nat /\ DOMAIN curve = 1 .. m /\ m \in 1 .. m /\ \A i \in 1 .. m : curve[i] \in Int
    OBVIOUS
  <1>4. \A n \in 1 .. m : f[n] = IF n = 1 THEN [peak |-> curve[1], deepest |-> 0]
                                 ELSE DrawNext(curve, n, f[n - 1])
    BY <1>2, <1>3 DEF Draws
  <1>5. WorstUpTo(f[m], curve, m)
    <2> DEFINE S == {n \in 1 .. m : ~WorstUpTo(f[n], curve, n)}
    <2> SUFFICES ASSUME S # {} PROVE FALSE
      BY <1>3
    <2>1. PICK n \in S : \A k \in S : n <= k
      <3>1. S \in SUBSET Nat
        OBVIOUS
      <3> HIDE DEF S
      <3> QED BY <3>1, NatHasLeast
    <2>2. n \in 1 .. m /\ ~WorstUpTo(f[n], curve, n)
      OBVIOUS
    <2>3. CASE n = 1
      BY <2>2, <2>3, <1>4, WorstOfOne
    <2>4. CASE n # 1
      <3>1. n - 1 \in 1 .. m /\ n \in 2 .. m /\ ~(n <= n - 1)
        BY <2>2, <2>4
      <3>2. WorstUpTo(f[n - 1], curve, n - 1)
        BY <3>1, <2>1
      <3>3. f[n] = DrawNext(curve, n, f[n - 1])
        BY <2>2, <2>4, <1>4
      <3> QED BY <3>1, <3>2, <3>3, <2>2, WorstOfMore
    <2> QED BY <2>3, <2>4
  <1>6. Falls \in SUBSET Int
    BY <1>3
  <1>7. f[m].deepest \in Falls
    <2>1. PICK i \in 1 .. m, j \in 1 .. m : i <= j /\ f[m].deepest = curve[i] - curve[j]
      BY <1>5 DEF WorstUpTo
    <2>2. <<i, j>> \in {q \in (DOMAIN curve) \X (DOMAIN curve) : q[1] <= q[2]}
      BY <2>1, <1>3
    <2>3. f[m].deepest = curve[<<i, j>>[1]] - curve[<<i, j>>[2]]
      BY <2>1
    <2> QED BY <2>2, <2>3
  <1>8. \A y \in Falls : y <= f[m].deepest
    <2> SUFFICES ASSUME NEW p \in {q \in (DOMAIN curve) \X (DOMAIN curve) : q[1] <= q[2]}
                 PROVE  curve[p[1]] - curve[p[2]] <= f[m].deepest
      OBVIOUS
    <2>1. p[1] \in 1 .. m /\ p[2] \in 1 .. m /\ p[1] <= p[2]
      BY <1>3
    <2> QED BY <2>1, <1>5 DEF WorstUpTo
  <1> HIDE DEF Falls, m
  <1>9. Max(Falls) = f[m].deepest
    BY <1>6, <1>7, <1>8, MaxIs
  <1> QED BY <1>1, <1>9 DEF Falls

\* The losing run: how many of the last closed lost, and the longest run so far.
Lost(closed, i, j) == \A k \in i .. j : closed[k].net < 0
RunNext(closed, n, before) ==
    LET here == IF closed[n].net < 0 THEN before[1] + 1 ELSE 0
    IN <<here, Max({before[2], here})>>
Counts(f, closed) ==
    f = [n \in 0 .. Len(closed) |-> IF n = 0 THEN <<0, 0>> ELSE RunNext(closed, n, f[n - 1])]

LEMMA CountExists ==
    ASSUME NEW closed, Len(closed) \in Nat
    PROVE  \E f : Counts(f, closed)
  <1> DEFINE V == Int \X Int
             m == Len(closed)
             first == <<0, 0>>
             g == [k \in Nat |-> [v \in V |-> RunNext(closed, k, v)]]
  <1>1. first \in V /\ m \in Nat
    OBVIOUS
  <1>2. ASSUME NEW k \in Nat, NEW v \in V PROVE RunNext(closed, k, v) \in V
    <2> DEFINE here == IF closed[k].net < 0 THEN v[1] + 1 ELSE 0
    <2>1. here \in Int /\ v[2] \in Int
      OBVIOUS
    <2> HIDE DEF here
    <2>2. Max({v[2], here}) \in Int
      BY <2>1, MaxOfTwo
    <2>3. RunNext(closed, k, v) = <<here, Max({v[2], here})>>
      BY DEF RunNext, here
    <2> QED BY <2>1, <2>2, <2>3
  <1> HIDE DEF V
  <1>3. g \in [Nat -> [V -> V]]
    BY <1>2
  <1>4. PICK f \in [0 .. m -> V] : Solves(f, first, g, m)
    <2> HIDE DEF g, first, m
    <2> QED BY <1>1, <1>3, RecursionExists
  <1>5. f[0] = first /\ \A k \in 1 .. m : f[k] = g[k][f[k - 1]]
    <2> HIDE DEF g, first, m
    <2> QED BY <1>4 DEF Solves
  <1>6. ASSUME NEW n \in 0 .. m
        PROVE  f[n] = IF n = 0 THEN <<0, 0>> ELSE RunNext(closed, n, f[n - 1])
    <2>1. CASE n = 0
      BY <2>1, <1>5
    <2>2. CASE n # 0
      <3>1. n \in 1 .. m /\ n \in Nat /\ n - 1 \in 0 .. m
        BY <2>2, <1>1
      <3>2. f[n - 1] \in V /\ f[n] = g[n][f[n - 1]]
        BY <3>1, <1>5
      <3> QED BY <2>2, <3>1, <3>2
    <2> QED BY <2>1, <2>2
  <1>7. f = [n \in 0 .. m |-> f[n]]
    OBVIOUS
  <1>8. Counts(f, closed)
    BY <1>6, <1>7 DEF Counts
  <1> QED BY <1>8

LongestUpTo(v, closed, n) ==
    /\ v[1] \in 0 .. n /\ v[2] \in Nat
    /\ Lost(closed, n - v[1] + 1, n)
    /\ v[1] < n => ~(closed[n - v[1]].net < 0)
    /\ v[2] = 0 \/ \E i, j \in 1 .. n : i <= j /\ Lost(closed, i, j) /\ v[2] = j - i + 1
    /\ \A i, j \in 1 .. n : i <= j /\ Lost(closed, i, j) => j - i + 1 <= v[2]

LEMMA LongestOfNone ==
    ASSUME NEW closed
    PROVE  LongestUpTo(<<0, 0>>, closed, 0)
  <1>1. 1 .. 0 = {}
    OBVIOUS
  <1>2. Lost(closed, 1, 0) /\ 0 - 0 + 1 = 1
    BY <1>1 DEF Lost
  <1> QED BY <1>1, <1>2 DEF LongestUpTo

LEMMA LongestOfMore ==
    ASSUME NEW closed, NEW n \in Nat \ {0}, NEW v, LongestUpTo(v, closed, n - 1)
    PROVE  LongestUpTo(RunNext(closed, n, v), closed, n)
  <1> DEFINE here == IF closed[n].net < 0 THEN v[1] + 1 ELSE 0
             best == Max({v[2], here})
             w == RunNext(closed, n, v)
  <1>1. /\ n \in Nat /\ n - 1 \in Nat /\ 1 .. n - 1 \subseteq 1 .. n /\ n \in 1 .. n
        /\ \A i \in 1 .. n : i = n \/ i \in 1 .. n - 1
        /\ \A i \in 1 .. n : i \in Nat
    OBVIOUS
  <1>2. /\ v[1] \in 0 .. n - 1 /\ v[2] \in Nat /\ v[1] \in Nat
        /\ Lost(closed, n - 1 - v[1] + 1, n - 1)
        /\ v[1] < n - 1 => ~(closed[n - 1 - v[1]].net < 0)
    BY <1>1 DEF LongestUpTo
  <1>3. here \in 0 .. n /\ here \in Nat
    BY <1>1, <1>2
  <1>4. best \in Nat /\ v[2] <= best /\ here <= best /\ (best = v[2] \/ best = here)
    <2> HIDE DEF here
    <2>1. Max({v[2], here}) = IF v[2] >= here THEN v[2] ELSE here
      BY <1>2, <1>3, MaxOfTwo
    <2> QED BY <2>1, <1>2, <1>3
  <1>5. w[1] = here /\ w[2] = best
    BY DEF RunNext
  <1>6. Lost(closed, n - here + 1, n)
    <2>1. CASE closed[n].net < 0
      <3>1. here = v[1] + 1
        BY <2>1
      <3> HIDE DEF here
      <3> SUFFICES ASSUME NEW k \in n - here + 1 .. n PROVE closed[k].net < 0
        BY DEF Lost
      <3>2. CASE k = n
        BY <2>1, <3>2
      <3>3. CASE k # n
        <4>1. k \in n - 1 - v[1] + 1 .. n - 1
          BY <3>1, <3>3, <1>1, <1>2
        <4> QED BY <4>1, <1>2 DEF Lost
      <3> QED BY <3>2, <3>3
    <2>2. CASE ~(closed[n].net < 0)
      <3>1. here = 0 /\ n - here + 1 .. n = {}
        BY <2>2, <1>1
      <3> QED BY <3>1 DEF Lost
    <2> QED BY <2>1, <2>2
  <1>7. here < n => ~(closed[n - here].net < 0)
    <2>1. CASE closed[n].net < 0
      <3>1. here = v[1] + 1 /\ n - here = n - 1 - v[1] /\ (here < n => v[1] < n - 1)
        BY <2>1, <1>1, <1>2
      <3> HIDE DEF here
      <3> QED BY <3>1, <1>2
    <2>2. CASE ~(closed[n].net < 0)
      <3>1. here = 0 /\ n - here = n
        BY <2>2, <1>1
      <3> HIDE DEF here
      <3> QED BY <2>2, <3>1
    <2> QED BY <2>1, <2>2
  <1> HIDE DEF here, best, w
  <1>8. best = 0 \/ \E i, j \in 1 .. n : i <= j /\ Lost(closed, i, j) /\ best = j - i + 1
    <2>1. CASE best = v[2]
      BY <2>1, <1>1 DEF LongestUpTo
    <2>2. CASE best = here /\ here # 0
      <3>1. n - here + 1 \in 1 .. n /\ n - here + 1 <= n /\ best = n - (n - here + 1) + 1
        BY <2>2, <1>1, <1>3
      <3> QED BY <3>1, <1>1, <1>6
    <2> QED BY <2>1, <2>2, <1>4
  <1>9. \A i, j \in 1 .. n : i <= j /\ Lost(closed, i, j) => j - i + 1 <= best
    <2> SUFFICES ASSUME NEW i \in 1 .. n, NEW j \in 1 .. n, i <= j, Lost(closed, i, j)
                 PROVE  j - i + 1 <= best
      OBVIOUS
    <2>1. i \in Nat /\ j \in Nat
      OBVIOUS
    <2>2. CASE j = n
      <3>1. n - i + 1 <= here
        <4> SUFFICES ASSUME ~(n - i + 1 <= here) PROVE FALSE
          OBVIOUS
        <4>1. here < n /\ n - here \in i .. j
          BY <2>1, <2>2, <1>1, <1>3
        <4>2. closed[n - here].net < 0
          BY <4>1 DEF Lost
        <4> QED BY <4>1, <4>2, <1>7
      <3>2. n - i + 1 \in Int
        BY <2>1, <1>1
      <3> QED BY <2>2, <3>1, <3>2, <1>3, <1>4
    <2>3. CASE j \in 1 .. n - 1
      <3>1. i \in 1 .. n - 1
        BY <2>3, <1>1
      <3>2. j - i + 1 <= v[2]
        BY <2>3, <3>1 DEF LongestUpTo
      <3> QED BY <2>1, <3>2, <1>2, <1>4
    <2> QED BY <1>1, <2>2, <2>3
  <1>10. LongestUpTo(w, closed, n)
    BY <1>3, <1>4, <1>5, <1>6, <1>7, <1>8, <1>9 DEF LongestUpTo
  <1> QED BY <1>10 DEF w

LEMMA LossesAreLongest ==
    ASSUME NEW T, NEW closed \in Seq(T)
    PROVE  ConsecutiveLosses(closed) =
              Max({0} \cup {p[2] - p[1] + 1 : p \in {q \in (DOMAIN closed) \X (DOMAIN closed) :
                  q[1] <= q[2] /\ \A k \in q[1] .. q[2] : closed[k].net < 0}})
  <1> DEFINE f == CHOOSE f : Counts(f, closed)
             m == Len(closed)
             Runs == {q \in (DOMAIN closed) \X (DOMAIN closed) :
                        q[1] <= q[2] /\ \A k \in q[1] .. q[2] : closed[k].net < 0}
             Lengths == {0} \cup {p[2] - p[1] + 1 : p \in Runs}
  <1>1. ConsecutiveLosses(closed) = f[m][2]
    BY DEF ConsecutiveLosses, Counts, RunNext
  <1>2. m \in Nat /\ DOMAIN closed = 1 .. m
    OBVIOUS
  <1>3. Counts(f, closed)
    BY <1>2, CountExists
  <1> HIDE DEF f
  <1>4. \A n \in 0 .. m : f[n] = IF n = 0 THEN <<0, 0>> ELSE RunNext(closed, n, f[n - 1])
    BY <1>3 DEF Counts
  <1>5. LongestUpTo(f[m], closed, m)
    <2> DEFINE S == {n \in 0 .. m : ~LongestUpTo(f[n], closed, n)}
    <2> SUFFICES ASSUME S # {} PROVE FALSE
      BY <1>2
    <2>1. PICK n \in S : \A k \in S : n <= k
      <3>1. S \in SUBSET Nat
        OBVIOUS
      <3> HIDE DEF S
      <3> QED BY <3>1, NatHasLeast
    <2>2. n \in 0 .. m /\ ~LongestUpTo(f[n], closed, n)
      OBVIOUS
    <2>3. CASE n = 0
      BY <2>2, <2>3, <1>4, LongestOfNone
    <2>4. CASE n # 0
      <3>1. n - 1 \in 0 .. m /\ n \in Nat \ {0} /\ ~(n <= n - 1)
        BY <2>2, <2>4
      <3>2. LongestUpTo(f[n - 1], closed, n - 1)
        BY <3>1, <2>1
      <3>3. f[n] = RunNext(closed, n, f[n - 1])
        BY <2>2, <2>4, <1>4
      <3> QED BY <3>1, <3>2, <3>3, <2>2, LongestOfMore
    <2> QED BY <2>3, <2>4
  <1>6. \A p \in Runs : p[1] \in 1 .. m /\ p[2] \in 1 .. m /\ p[1] <= p[2] /\ Lost(closed, p[1], p[2])
    BY <1>2 DEF Lost
  <1>7. \A i, j \in 1 .. m : i <= j /\ Lost(closed, i, j) => <<i, j>> \in Runs
    BY <1>2 DEF Lost
  <1> HIDE DEF Runs, m
  <1>8. Lengths \in SUBSET Int
    BY <1>2, <1>6
  <1>9. f[m][2] \in Lengths
    <2>1. CASE f[m][2] = 0
      BY <2>1
    <2>2. CASE f[m][2] # 0
      <3>1. PICK i \in 1 .. m, j \in 1 .. m :
               i <= j /\ Lost(closed, i, j) /\ f[m][2] = j - i + 1
        BY <2>2, <1>5 DEF LongestUpTo
      <3>2. <<i, j>> \in Runs /\ f[m][2] = <<i, j>>[2] - <<i, j>>[1] + 1
        BY <3>1, <1>7
      <3> QED BY <3>2
    <2> QED BY <2>1, <2>2
  <1>10. \A y \in Lengths : y <= f[m][2]
    <2>1. f[m][2] \in Nat
      BY <1>5 DEF LongestUpTo
    <2>2. ASSUME NEW p \in Runs PROVE p[2] - p[1] + 1 <= f[m][2]
      BY <1>5, <1>6 DEF LongestUpTo
    <2> QED BY <2>1, <2>2
  <1> HIDE DEF Lengths
  <1>11. Max(Lengths) = f[m][2]
    BY <1>8, <1>9, <1>10, MaxIs
  <1> QED BY <1>1, <1>11 DEF Lengths, Runs, m

---------------------------------------------------------------------------
LEMMA BacktestIsSound ==
    ASSUME BacktestAssumption, BacktestInv
    PROVE  BacktestTypeOK /\ BacktestSound
  <1>1. /\ balance = equity[Len(equity)] /\ wins + losses <= Len(results)
        /\ \A n \in DOMAIN results :
              equity[n] = results[n].before /\ equity[n + 1] = equity[n] + results[n].net
    BY DEF BacktestInv, BacktestShape, TradesSound
  <1>2. equity \in Seq(Int) /\ Len(equity) > 0
    <2>1. equity \in Seq(Nat) /\ Len(equity) = Len(results) + 1 /\ Len(results) \in Nat
      BY DEF BacktestInv, BacktestShape
    <2> QED BY <2>1
  <1>3. results \in Seq(ClosedTrades)
    BY DEF BacktestInv, BacktestShape
  <1>4. BooksBalance
    BY <1>1, <1>2, <1>3, DrawdownIsDeepest, LossesAreLongest DEF BooksBalance
  <1>5. TradesAreCausal
    BY DEF BacktestInv, EntriesInOrder, TradesSound, TradeSound, RiskOf, TradesAreCausal
  <1>6. BacktestTypeOK
    BY DEF BacktestInv, BacktestShape, BacktestTypeOK, PendingEntries, HeldPositions,
           NoPendingEntry, NoHolding
  <1> QED BY <1>4, <1>5, <1>6 DEF BacktestSound

\* Nothing is decided on a price it could not have known, one position is held at a time, no
\* trade loses more than it risked and its fee, and the report's drawdown and losing run are the
\* worst the equity curve and the closed contain (backtesting/).
THEOREM BacktestSafe ==
    ASSUME BacktestAssumption PROVE BacktestSpec => [](BacktestTypeOK /\ BacktestSound)
  <1>1. BacktestInit => BacktestInv
    BY BacktestStarts
  <1>2. BacktestInv /\ [BacktestNext]_backtestVars => BacktestInv'
    BY BacktestStep
  <1>3. BacktestInv => BacktestTypeOK /\ BacktestSound
    BY BacktestIsSound
  <1> QED BY <1>1, <1>2, <1>3, PTL DEF BacktestSpec

(***************************************************************************)
(* The composition: a step of Evidence is a step of each component or      *)
(* leaves it alone.                                                        *)
(***************************************************************************)
LEMMA PartsStep ==
    ASSUME [Next]_evidenceVars
    PROVE  /\ [StoreNext]_storeVars /\ [CacheNext]_cacheVars /\ [BundleNext]_bundleVars
           /\ [ShadowNext]_shadowVars /\ [IntakeNext]_intakeVars /\ [ChainNext]_chainVars
           /\ [HistoricalNext]_historicalVars /\ [AuditNext]_auditVars
           /\ [SequentialNext]_sequentialVars /\ [CatalogNext]_catalogVars
           /\ [BacktestNext]_backtestVars /\ part' = part
  <1>1. CASE UNCHANGED evidenceVars
    BY <1>1 DEF evidenceVars
  <1>2. CASE Next
    BY <1>2 DEF Next, OthersRest
  <1> QED BY <1>1, <1>2

\* Persisted proof authority survives stale desks and crashes, and no revoked proof gives
\* execution terms (deriv_proof_store.py, deriv_execution_terms_service.py).
THEOREM ProofAuthorityIsKept == Spec => ProofAuthorityKept
  <1>1. Init => StoreInv
    BY StoreStarts DEF Init
  <1>2. StoreInv /\ [Next]_evidenceVars => StoreInv' /\ ProofStoreSound
    BY PartsStep, StoreStep, EvidenceAssumption
  <1>3. StoreInv /\ [Next]_evidenceVars => StoreInv' /\ (part = "store" => ProofStoreSound)
    BY <1>2
  <1> QED BY <1>1, <1>3, PTL DEF Spec, ProofAuthorityKept

\* Candles called current are, acquisitions are complete, and a study runs on the candles of
\* one export (api/service.py, research/acquisitions.py, data/dataset.py).
THEOREM ServedDataIsSound == Spec => []ServedDataSound
  <1>1. Init => CacheInit /\ BundleInit
    BY DEF Init
  <1>2. [Next]_evidenceVars => [CacheNext]_cacheVars /\ [BundleNext]_bundleVars
    BY PartsStep
  <1>3. CacheSpec => [](CacheTypeOK /\ CurrentRepliesAreCurrent /\ JobsSound)
    BY CandlesSafe, EvidenceAssumption
  <1>4. BundleSpec => [](BundleTypeOK /\ StudiesAreOfOneExport)
    BY BundlesSafe
  <1>5. (CacheTypeOK /\ CurrentRepliesAreCurrent /\ JobsSound) /\ (BundleTypeOK /\ StudiesAreOfOneExport)
        => ServedDataSound
    BY DEF ServedDataSound
  <1> QED BY <1>1, <1>2, <1>3, <1>4, <1>5, PTL DEF Spec, CacheSpec, BundleSpec

\* The historical campaign takes candidates in order and publishes only complete evidence
\* decided under one fingerprint (tools/paper_campaign.py).
THEOREM HistoricalCampaignIsSound == Spec => []HistoricalCampaignSound
  <1>1. Init => HistoricalInit
    BY DEF Init
  <1>2. [Next]_evidenceVars => [HistoricalNext]_historicalVars
    BY PartsStep
  <1>3. HistoricalSpec => [](HistoricalTypeOK /\ HistoricalSound)
    BY HistoricalSafe, EvidenceAssumption
  <1>4. HistoricalTypeOK /\ HistoricalSound => HistoricalCampaignSound
    BY DEF HistoricalCampaignSound
  <1> QED BY <1>1, <1>2, <1>3, <1>4, PTL DEF Spec, HistoricalSpec

\* A decided shadow outcome is what prices did first, and stays (shadow_outcomes.py).
THEOREM ShadowBookIsKept == Spec => ShadowBookKept
  <1>1. Init => ShadowInit
    BY DEF Init
  <1>2. [Next]_evidenceVars => [ShadowNext]_shadowVars
    BY PartsStep
  <1>3. ShadowSpec => [](ShadowTypeOK /\ DecidedOutcomesAreTrue) /\ [][ShadowBookSound]_shadowVars
    BY ShadowOutcomesSafe, EvidenceAssumption
  <1>4. [ShadowBookSound]_shadowVars /\ DecidedOutcomesAreTrue' => (part = "shadow" => ShadowBookSound)
    BY DEF ShadowBookSound, shadowVars
  <1> QED BY <1>1, <1>2, <1>3, <1>4, PTL DEF Spec, ShadowSpec, ShadowBookKept

\* Evidence becomes authority only by the book: what reaches review is what was sealed and
\* attested, and a proof is admitted on an established lineage, judged at that moment
\* (deriv_evidence_intake.py, deriv_proof_registry.py).
THEOREM EvidenceIsAdmitted == Spec => EvidenceAdmission
  <1> DEFINE Kept == IntakeInv /\ (part = "chain" => ChainInv)
  <1>1. Init => Kept
    BY IntakeStarts, ChainStarts, EvidenceAssumption DEF Init
  <1>2. Kept /\ [Next]_evidenceVars => Kept' /\ (part = "chain" => AdmissionSound)
    BY PartsStep, IntakeStep, ChainStep, EvidenceAssumption
  <1>3. Kept' => ReadyEvidenceIsSealedEvidence'
    BY DEF IntakeInv
  <1> HIDE DEF Kept
  <1> QED BY <1>1, <1>2, <1>3, PTL DEF Spec, EvidenceAdmission

\* A clean terminal audit hides no phantom, and an unclean one latches the stop and ends the
\* loop (execution/continuous_reconciliation.py).
THEOREM AuditIsHonest == Spec => []AuditHidesNothing
  <1>1. Init => AuditInit
    BY DEF Init
  <1>2. [Next]_evidenceVars => [AuditNext]_auditVars
    BY PartsStep
  <1>3. AuditSpec => [](AuditTypeOK /\ CleanAuditAccounts)
    BY AuditSafe, EvidenceAssumption
  <1>4. AuditTypeOK /\ CleanAuditAccounts => AuditHidesNothing
    BY DEF AuditHidesNothing
  <1> QED BY <1>1, <1>2, <1>3, <1>4, PTL DEF Spec, AuditSpec

\* The sequential replay's controls, the backtest's books and the experiment catalog's records
\* are causal, balanced and kept (sequential_replay.py, backtesting/, experiments.py).
THEOREM ResearchIsSound == Spec => []ResearchSound
  <1>1. Init => SequentialInit /\ BacktestInit /\ CatalogInit
    BY DEF Init
  <1>2. [Next]_evidenceVars =>
           [SequentialNext]_sequentialVars /\ [BacktestNext]_backtestVars /\ [CatalogNext]_catalogVars
    BY PartsStep
  <1>3. SequentialSpec => [](SequentialTypeOK /\ SequentialSound)
    BY ReplaySafe, EvidenceAssumption
  <1>4. BacktestSpec => [](BacktestTypeOK /\ BacktestSound)
    BY BacktestSafe, EvidenceAssumption
  <1>5. CatalogSpec => [](CatalogTypeOK /\ ExperimentsSound)
    BY ExperimentsSafe, EvidenceAssumption
  <1>6. (SequentialTypeOK /\ SequentialSound) /\ (BacktestTypeOK /\ BacktestSound)
        /\ (CatalogTypeOK /\ ExperimentsSound) => ResearchSound
    BY DEF ResearchSound
  <1> QED BY <1>1, <1>2, <1>3, <1>4, <1>5, <1>6, PTL
          DEF Spec, SequentialSpec, BacktestSpec, CatalogSpec

\* Each component keeps to the values its code gives its state.
THEOREM EvidenceTyped == Spec => []EvidenceTypeOK
  <1> DEFINE Kept == part = "chain" => ChainInv
             Others == /\ StoreInit /\ IntakeInit /\ CacheInit /\ BundleInit
                       /\ ShadowInit /\ HistoricalInit /\ AuditInit /\ SequentialInit /\ BacktestInit /\ CatalogInit
             Steps == /\ [StoreNext]_storeVars /\ [IntakeNext]_intakeVars /\ [CacheNext]_cacheVars
                      /\ [BundleNext]_bundleVars /\ [ShadowNext]_shadowVars
                      /\ [HistoricalNext]_historicalVars /\ [AuditNext]_auditVars
                      /\ [SequentialNext]_sequentialVars /\ [BacktestNext]_backtestVars
                      /\ [CatalogNext]_catalogVars
  <1>1. Init => Kept /\ Others
    BY ChainStarts, EvidenceAssumption DEF Init
  <1>2. Kept /\ [Next]_evidenceVars => Kept' /\ Steps
    BY PartsStep, ChainStep, EvidenceAssumption
  <1>3. Kept => (part = "chain" => ChainTypeOK)
    BY DEF ChainInv, ChainTypeOK
  <1>4. /\ StoreSpec => []StoreTypeOK /\ [][ProofStoreSound]_storeVars
        /\ IntakeSpec => [](IntakeTypeOK /\ ReadyEvidenceIsSealedEvidence)
        /\ CacheSpec => [](CacheTypeOK /\ CurrentRepliesAreCurrent /\ JobsSound)
        /\ BundleSpec => [](BundleTypeOK /\ StudiesAreOfOneExport)
        /\ ShadowSpec => [](ShadowTypeOK /\ DecidedOutcomesAreTrue) /\ [][ShadowBookSound]_shadowVars
        /\ HistoricalSpec => [](HistoricalTypeOK /\ HistoricalSound)
        /\ AuditSpec => [](AuditTypeOK /\ CleanAuditAccounts)
        /\ SequentialSpec => [](SequentialTypeOK /\ SequentialSound)
        /\ BacktestSpec => [](BacktestTypeOK /\ BacktestSound)
        /\ CatalogSpec => [](CatalogTypeOK /\ ExperimentsSound)
    BY ProofStoreSafe, IntakeSafe, CandlesSafe, BundlesSafe, ShadowOutcomesSafe, HistoricalSafe,
       AuditSafe, ReplaySafe, BacktestSafe, ExperimentsSafe, EvidenceAssumption
  <1>5. StoreTypeOK /\ IntakeTypeOK /\ (part = "chain" => ChainTypeOK) /\ CacheTypeOK
        /\ BundleTypeOK /\ ShadowTypeOK /\ HistoricalTypeOK /\ AuditTypeOK /\ SequentialTypeOK
        /\ BacktestTypeOK /\ CatalogTypeOK => EvidenceTypeOK
    BY DEF EvidenceTypeOK
  <1> HIDE DEF Kept
  <1> QED BY <1>1, <1>2, <1>3, <1>4, <1>5, PTL
          DEF Spec, StoreSpec, IntakeSpec, CacheSpec, BundleSpec, ShadowSpec, HistoricalSpec,
              AuditSpec, SequentialSpec, BacktestSpec, CatalogSpec
=============================================================================
