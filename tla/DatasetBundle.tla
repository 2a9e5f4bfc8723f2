----------------------------- MODULE DatasetBundle -----------------------------
(***************************************************************************)
(* The frozen dataset bundle of a market: candles.csv and manifest.json,   *)
(* written by the research batch from the candle cache and loaded by a     *)
(* study (data/dataset.py, research/runner.py).                            *)
(*                                                                         *)
(* Each file is replaced by a rename, the pair is not: an export may die   *)
(* between the two, fail on the second and then delete the first, or run   *)
(* while a study in another process is between its reads.  A series is a   *)
(* set of <<bar, price>> candles, at most one per bar; its hash identifies *)
(* it.  Number formatting and the checks of single prices are left out.    *)
(***************************************************************************)
EXTENDS Naturals, FiniteSets, FiniteSetsExt

CONSTANT Series        \* the candle series the cache may hold when exported

\* What the code and its configuration guarantee of these values.
SeriesAssumption == \A s \in Series : s # {}

VARIABLES
    csv, manifestFile,  \* the files; {} and NoManifest when absent
    exporting,          \* the series being exported, {} when idle
    reading,            \* a study between its reads: [manifest, candles]
    study               \* what it ran on: [manifest, candles]

bundleVars == <<csv, manifestFile, exporting, reading, study>>

NoManifest == [first |-> 0, last |-> 0, count |-> 0, hash |-> {}]
NoStudy == [manifest |-> NoManifest, candles |-> {}]
BarsOf(s) == {c[1] : c \in s}

\* build_dataset_manifest over candle_content_hash.
ManifestOf(s) ==
    [first |-> Min(BarsOf(s)), last |-> Max(BarsOf(s)), count |-> Cardinality(s), hash |-> s]

\* Mutant: the range and the count are compared, the content is not.
VerifiesShape(m, s) ==
    s # {} /\ [ManifestOf(s) EXCEPT !.hash = {}] = [m EXCEPT !.hash = {}]

\* verify_dataset_manifest.
Verifies(m, s) == s # {} /\ ManifestOf(s) = m

BundleInit ==
    /\ csv = {} /\ manifestFile = NoManifest /\ exporting = {}
    /\ reading = NoStudy /\ study = NoStudy

\* export_dataset_bundle: the candles first.
WriteCandles ==
    /\ exporting = {}
    /\ \E s \in Series : csv' = s /\ exporting' = s
    /\ UNCHANGED <<manifestFile, reading, study>>

\* Then the manifest; if it cannot be written the candles are removed, and if
\* the process dies in between they stay.
WriteManifest ==
    /\ exporting # {} /\ exporting' = {}
    /\ \/ manifestFile' = ManifestOf(exporting) /\ UNCHANGED csv
       \/ csv' = {} /\ UNCHANGED manifestFile
       \/ UNCHANGED <<csv, manifestFile>>
    /\ UNCHANGED <<reading, study>>

\* load_dataset_bundle: load_dataset_manifest, then load_candle_csv; a missing
\* file is refused.
ReadManifest ==
    /\ reading.manifest = NoManifest /\ manifestFile # NoManifest
    /\ reading' = [NoStudy EXCEPT !.manifest = manifestFile]
    /\ UNCHANGED <<csv, manifestFile, exporting, study>>

ReadCandles ==
    /\ reading.manifest # NoManifest /\ reading.candles = {}
    /\ reading' = IF csv = {} THEN NoStudy ELSE [reading EXCEPT !.candles = csv]
    /\ UNCHANGED <<csv, manifestFile, exporting, study>>

\* The file is read a second time for the sources of its rows and must have as
\* many; the bundle is verified and the study runs, or it is refused.
RestoreAndVerify ==
    /\ reading.candles # {} /\ reading' = NoStudy
    /\ IF Cardinality(csv) = Cardinality(reading.candles)
          /\ Verifies(reading.manifest, reading.candles)
       THEN study' = reading
       ELSE UNCHANGED study
    /\ UNCHANGED <<csv, manifestFile, exporting>>

BundleNext ==
    WriteCandles \/ WriteManifest \/ ReadManifest \/ ReadCandles \/ RestoreAndVerify

BundleTypeOK ==
    /\ csv \in Series \cup {{}} /\ exporting \in Series \cup {{}}
    /\ manifestFile \in {ManifestOf(s) : s \in Series} \cup {NoManifest}
    /\ {reading.candles, study.candles} \subseteq Series \cup {{}}

(* A study never runs on the candles of one export under the manifest of    *)
(* another, wherever exports die and however they interleave with its       *)
(* reads.                                                                   *)
StudiesAreOfOneExport == study.candles = study.manifest.hash
=============================================================================
