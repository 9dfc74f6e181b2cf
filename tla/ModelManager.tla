------------------------------ MODULE ModelManager ------------------------------
(***************************************************************************)
(* src/ai/model_manager.py: models, their versions and which of them is in *)
(* production.  The label of a version is chosen by the caller and need    *)
(* not be new; what MLflow stores is told apart by its run.  No method     *)
(* suspends.  MLflow may raise wherever it is called.                      *)
(***************************************************************************)
EXTENDS Naturals, Sequences, SequencesExt

CONSTANTS
  Models,                     \* ids that register_model issues, each once
  Labels,                     \* what callers call a version
  MaxSaves                    \* bound on the versions saved of a model

ASSUME ModelsAssumption == MaxSaves \in Nat /\ "none" \notin Labels

VARIABLES models,             \* the registry
          versions,           \* saved versions of each model, in order
          production,         \* production_models: the label promoted last
          performance,        \* the run whose metrics are filed under a label
          promoted            \* history: the run each promotion referred to

modelVars == <<models, versions, production, performance, promoted>>

NotRegistered == [pc |-> "none", measurable |-> FALSE, loadable |-> FALSE,
                  status |-> "none", current |-> "none"]

\* No run, and the run of a version: it is numbered by its place.
NoRun == 0
MlflowRuns == 1..MaxSaves

ModelsInit ==
  /\ models = [m \in Models |-> NotRegistered]
  /\ versions = [m \in Models |-> <<>>]
  /\ production = [m \in Models |-> "none"]
  /\ performance = [m \in Models |-> [v \in Labels |-> [run |-> NoRun, of |-> "none"]]]
  /\ promoted = [m \in Models |-> NoRun]

ModelsTypeOK ==
  /\ models \in [Models ->
       [pc: {"none", "registered", "deleted"}, measurable: BOOLEAN,
        loadable: BOOLEAN, status: {"none", "development", "production"},
        current: Labels \cup {"none"}]]
  /\ versions \in [Models -> Seq(Labels)]
  /\ \A m \in Models : Len(versions[m]) <= MaxSaves
  /\ production \in [Models -> Labels \cup {"none"}]
  /\ performance \in [Models -> [Labels ->
       [run: MlflowRuns \cup {NoRun}, of: Labels \cup {"none"}]]]
  /\ promoted \in [Models -> MlflowRuns \cup {NoRun}]

\* A mutant of RunOf: the newest version of a label is taken.
RunOfNewest(m, v) ==
  LET there == {i \in DOMAIN versions[m] : versions[m][i] = v}
  IN  IF there = {} THEN NoRun
      ELSE CHOOSE i \in there : \A j \in there : j <= i

\* The first version of a label: the loop of load_model stops at it.
RunOf(m, v) ==
  LET there == {i \in DOMAIN versions[m] : versions[m][i] = v}
  IN  IF there = {} THEN NoRun
      ELSE CHOOSE i \in there : \A j \in there : i <= j

\* The label load_model goes by: the one in production, whatever version it was
\* asked for, unless it was asked for another stage.
Asked(m, v, stage) ==
  IF stage = "production" /\ production[m] # "none" THEN production[m]
  ELSE IF v = "none" /\ versions[m] # <<>> THEN Last(versions[m])
  ELSE v

\* load_model: the run it loads, NoRun for an exception; of a framework it does
\* not know it loads nothing.
LoadModel(m, v, stage) ==
  IF models[m].loadable THEN RunOf(m, Asked(m, v, stage)) ELSE NoRun

--------------------------------------------------------------------------------
RegisterModel(m) ==
  /\ models[m].pc = "none"
  /\ \E measurable, loadable \in BOOLEAN :
       models' = [models EXCEPT ![m] =
         [pc |-> "registered", measurable |-> measurable, loadable |-> loadable,
          status |-> "development", current |-> "none"]]
  /\ UNCHANGED <<versions, production, performance, promoted>>

\* When MLflow raises, nothing is saved.
SaveModelVersion(m, v) ==
  /\ models[m].pc = "registered" /\ Len(versions[m]) < MaxSaves
  /\ versions' = [versions EXCEPT ![m] = Append(@, v)]
  /\ models' = [models EXCEPT ![m].current = IF @ = "none" THEN v ELSE @]
  /\ UNCHANGED <<production, performance, promoted>>

PromoteToProduction(m, v) ==
  /\ v \in ToSet(versions[m])
  /\ production' = [production EXCEPT ![m] = v]
  /\ models' = [models EXCEPT ![m].status = "production", ![m].current = v]
  /\ promoted' = [promoted EXCEPT ![m] = RunOf(m, v)]
  /\ UNCHANGED <<versions, performance>>

\* evaluate_model loads with the stage left at "production"; only
\* classifications and regressions have metrics.
EvaluateModel(m, v) ==
  /\ LoadModel(m, v, "production") # NoRun
  /\ models[m].measurable
  /\ performance' = [performance EXCEPT ![m][v] =
       [run |-> LoadModel(m, v, "production"), of |-> production[m]]]
  /\ UNCHANGED <<models, versions, production, promoted>>

\* delete_model forgets everything but the metrics.
DeleteModel(m) ==
  /\ models[m].pc = "registered"
  /\ models' = [models EXCEPT ![m] = [NotRegistered EXCEPT !.pc = "deleted"]]
  /\ versions' = [versions EXCEPT ![m] = <<>>]
  /\ production' = [production EXCEPT ![m] = "none"]
  /\ promoted' = [promoted EXCEPT ![m] = NoRun]
  /\ UNCHANGED performance

ModelsNext ==
  \E m \in Models :
    \/ RegisterModel(m) \/ DeleteModel(m)
    \/ \E v \in Labels :
         SaveModelVersion(m, v) \/ PromoteToProduction(m, v) \/ EvaluateModel(m, v)

--------------------------------------------------------------------------------
\* ProductionServesPromoted: what load_model serves by default from a model in
\* production is the run that was under the label when it was promoted, however
\* many versions of that label are saved later; and metrics filed under a label
\* of a registered model are those of its first version, unless the model was
\* in production under another label when it was evaluated.
ProductionServesPromoted ==
  \A m \in Models :
    /\ production[m] # "none" =>
         RunOf(m, Asked(m, "none", "production")) = promoted[m]
    /\ models[m].pc = "registered" =>
         \A v \in Labels :
           performance[m][v].run \in {NoRun, RunOf(m, v)}
             \/ performance[m][v].of \notin {"none", v}
================================================================================
