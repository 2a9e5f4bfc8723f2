--------------------------- MODULE ExperimentCatalog ---------------------------
(***************************************************************************)
(* Research experiments: a frozen dataset split in time order              *)
(* (research/splits.py), a backtest over one partition of it               *)
(* (research/runner.py, backtesting/backtest.py), the record of that run   *)
(* and the directory of records (research/experiments.py) into which       *)
(* several runners save at once and from which the API lists and compares  *)
(* (api/research.py).                                                      *)
(*                                                                         *)
(* A backtest is deterministic: its result is named by the candles it was  *)
(* given, its configuration and the range it evaluated.                    *)
(***************************************************************************)
EXTENDS Integers, Sequences, FiniteSets

CONSTANTS
    Runners,            \* processes that run and save experiments
    ExperimentIds,
    Configurations,     \* strategy, risk and execution settings
    TotalCandles,       \* candles of the frozen bundle
    TrainPercent, ValidationPercent,
    Warmup              \* _WARMUP_CANDLES

\* What the code and its configuration guarantee of these values.
CatalogAssumption ==
    /\ TotalCandles \in Nat \ {0} /\ Warmup \in Nat
    /\ TrainPercent \in 1 .. 99 /\ ValidationPercent \in 1 .. 99
    /\ TrainPercent + ValidationPercent < 100

VARIABLES
    files,       \* <id>.experiment.json, by id: a record or NoRecord
    runner       \* each runner: [step, record, outcome]

catalogVars == <<files, runner>>

Partitions == {"TRAIN", "VALIDATION", "OOS", "FULL"}
ExperimentTools == {"runner", "frozen", "simulation"}
RunnerSteps == {"idle", "ran", "temporary", "linked", "done"}

\* No file, or no run.
NoRecord == [schema |-> 0]

---------------------------------------------------------------------------
\* chronological_split: the candles of each partition, by index from 0.
TrainEnd == (TotalCandles * TrainPercent) \div 100
ValidationEnd == TrainEnd + (TotalCandles * ValidationPercent) \div 100
SplitPossible ==
    TotalCandles >= 3 /\ TrainEnd > 0 /\ ValidationEnd > TrainEnd /\ ValidationEnd < TotalCandles
CandlesOf(p) ==
    CASE p = "TRAIN"      -> 0 .. TrainEnd - 1
      [] p = "VALIDATION" -> TrainEnd .. ValidationEnd - 1
      [] p = "OOS"        -> ValidationEnd .. TotalCandles - 1
      [] p = "FULL"       -> 0 .. TotalCandles - 1

\* run_partition_experiment hands TRAIN its own candles only; the others get the
\* whole bundle, earlier candles as warm-up, and a range to evaluate.
Given(p) == IF p = "TRAIN" THEN CandlesOf("TRAIN") ELSE CandlesOf("FULL")
Evaluated(p) == {i \in CandlesOf(p) : i >= Warmup}

\* _WARMUP_CANDLES is a precondition of run_backtest.
EnoughCandles(p) == Cardinality(Given(p)) > Warmup

\* backtest_run_fingerprint and the result: the fingerprint covers the candles and
\* the configuration, not the evaluated range.
Fingerprint(p, c) == <<Given(p), c>>
ResultOf(p, c) == <<Given(p), c, Evaluated(p)>>

\* build_experiment_record.  Who wrote a record decides the names of its metrics.
RecordOf(id, tool, p, c) ==
    [schema |-> 2, id |-> id, tool |-> tool, partition |-> p, dataset |-> Given(p),
     fingerprint |-> Fingerprint(p, c), result |-> ResultOf(p, c), config |-> c]

\* A file of schema 1: load_experiment_record reads it as LEGACY_INCOMPLETE.
LegacyRecord(id) ==
    [schema |-> 1, id |-> id, tool |-> "runner", partition |-> "TRAIN", dataset |-> {},
     fingerprint |-> <<>>, result |-> <<>>, config |-> "legacy"]
FullyReproducible(r) == r.schema = 2

CatalogInit ==
    /\ \E old \in {{}} \cup {{i} : i \in ExperimentIds} :
          files = [i \in ExperimentIds |-> IF i \in old THEN LegacyRecord(i) ELSE NoRecord]
    /\ runner = [r \in Runners |-> [step |-> "idle", record |-> NoRecord, outcome |-> "none"]]

---------------------------------------------------------------------------
RunnerMoves(r, step, outcome) ==
    runner' = [runner EXCEPT ![r].step = step, ![r].outcome = outcome]

\* run_partition_experiment up to the save; the frozen-performance and simulation
\* tools run over all candles.
RunExperiment(r, id, tool, p, c) ==
    /\ runner[r].step = "idle"
    /\ IF tool = "runner" THEN SplitPossible ELSE p = "FULL"
    /\ EnoughCandles(p)
    /\ runner' = [runner EXCEPT ![r] = [step |-> "ran", record |-> RecordOf(id, tool, p, c),
                                        outcome |-> "none"]]
    /\ UNCHANGED files

\* save finds a file under the id: the same content is a success, another a conflict.
SaveSettles(r) ==
    IF files[runner[r].record.id] = runner[r].record THEN "saved" ELSE "conflict"

\* save up to its temporary file.
SaveExperiment(r) ==
    /\ runner[r].step = "ran"
    /\ IF files[runner[r].record.id] # NoRecord
       THEN RunnerMoves(r, "done", SaveSettles(r)) ELSE RunnerMoves(r, "temporary", "none")
    /\ UNCHANGED files

\* os.link: exclusive.  The loser compares with what the winner linked.
LinkExperiment(r) ==
    /\ runner[r].step = "temporary"
    /\ LET id == runner[r].record.id
       IN IF files[id] = NoRecord
          THEN files' = [files EXCEPT ![id] = runner[r].record] /\ RunnerMoves(r, "linked", "none")
          ELSE RunnerMoves(r, "done", SaveSettles(r)) /\ UNCHANGED files

\* temporary.unlink: when it fails, save raises although the record is published.
UnlinkTemporary(r) ==
    /\ runner[r].step = "linked"
    /\ \E outcome \in {"saved", "error"} : RunnerMoves(r, "done", outcome)
    /\ UNCHANGED files

\* A failed write or link of the temporary file.
SaveFails(r) ==
    /\ runner[r].step = "temporary"
    /\ RunnerMoves(r, "done", "error")
    /\ UNCHANGED files

RunnerDies(r) ==
    /\ runner[r].step \in {"ran", "temporary", "linked"}
    /\ RunnerMoves(r, "done", "none")
    /\ UNCHANGED files

\* discover and load read whole files; filtering, order and page are left out.
Catalogued == {files[i] : i \in ExperimentIds} \ {NoRecord}

\* compare_experiment_records.
Classification(a, b) ==
    IF ~(FullyReproducible(a) /\ FullyReproducible(b)) THEN "LEGACY_OR_INCOMPLETE"
    ELSE IF a.result = b.result THEN "IDENTICAL_RESULT"
    ELSE IF a.fingerprint = b.fingerprint THEN "SAME_RUN_CONFIGURATION_DIFFERENT_OBSERVATION"
    ELSE IF a.dataset = b.dataset THEN "SAME_DATASET_DIFFERENT_CONFIGURATION"
    ELSE "DIFFERENT_DATASET"
ControlledComparison(a, b) ==
    FullyReproducible(a) /\ FullyReproducible(b) /\ a.dataset = b.dataset

CatalogNext ==
    \/ \E r \in Runners :
          \/ \E id \in ExperimentIds, t \in ExperimentTools, p \in Partitions, c \in Configurations :
                RunExperiment(r, id, t, p, c)
          \/ SaveExperiment(r) \/ LinkExperiment(r) \/ UnlinkTemporary(r)
          \/ SaveFails(r) \/ RunnerDies(r)

---------------------------------------------------------------------------
CatalogTypeOK ==
    /\ \A i \in ExperimentIds : files[i] = NoRecord \/ files[i].id = i
    /\ \A r \in Runners : /\ runner[r].step \in RunnerSteps
                          /\ runner[r].outcome \in {"none", "saved", "conflict", "error"}

\* Two experiments never read each other's candles as their own: the partitions of one
\* bundle are apart, a TRAIN run is not given a later candle, and no run takes its
\* results from outside its partition.
PartitionsApart ==
    \A a, b \in {x \in Catalogued : FullyReproducible(x)} :
        /\ a.result[3] \subseteq CandlesOf(a.partition)
        /\ a.partition = "TRAIN" /\ b.partition \in {"VALIDATION", "OOS"}
              => a.dataset \cap b.result[3] = {}

\* What save answered stays true of the directory: a saved record is there under its
\* id, a conflict means the id holds other content, and comparisons that call two
\* results identical compare runs of one configuration over the same candles.
SavesAreKept ==
    /\ \A r \in Runners :
          /\ runner[r].outcome = "saved" => files[runner[r].record.id] = runner[r].record
          /\ runner[r].outcome = "conflict" =>
                files[runner[r].record.id] \notin {NoRecord, runner[r].record}
    /\ \A a, b \in Catalogued :
          Classification(a, b) = "IDENTICAL_RESULT" =>
              ControlledComparison(a, b) /\ a.config = b.config

\* A catalogued experiment answers for its run: neither a concurrent save nor a crash
\* or failed write changes, mixes or loses it (ExperimentCatalog.save, load,
\* run_partition_experiment, chronological_split, compare_experiment_records).
ExperimentsSound == PartitionsApart /\ SavesAreKept
=============================================================================
