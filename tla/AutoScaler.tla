------------------------------- MODULE AutoScaler ------------------------------
(***************************************************************************)
(* src/autonomous/auto_scaler.py for one tool: loops, of which start makes *)
(* one more each time, and load simulations decide how many workers there  *)
(* should be and then create or remove them one by one, half a second      *)
(* apart.  The load is always 0, because get_pool_stats has no utilization;*)
(* the depth of the queue and the predicted demand are left open.  Nothing *)
(* reads the cooldown of a policy.                                         *)
(*                                                                         *)
(* The pool is the one WorkerPool is about, seen here as a number: it grows*)
(* and shrinks by itself, for its own reasons and up to its own limit.     *)
(***************************************************************************)
EXTENDS Integers, FiniteSets, FiniteSetsExt

CONSTANTS
  Scalers,                    \* coroutines that evaluate: loops and simulations
  ScalePolicies,              \* policies define_scaling_policy may set
  MaxPool                     \* bound on the workers of the tool, and on those
                              \* the pool adds itself between two decisions

ASSUME ScalingAssumption ==
  /\ MaxPool \in Nat /\ IsFiniteSet(Scalers) /\ Scalers # {}
  /\ ScalePolicies # {} /\ IsFiniteSet(ScalePolicies)
  /\ ScalePolicies \subseteq
       [min: Nat, max: 0..MaxPool, up: Nat \ {0}, down: Nat \ {0}]

VARIABLES isRunning,
          scalePolicy,        \* scaling_policies[tool], or the default
          workers,            \* how many workers the pool has
          scaler,             \* what each coroutine does, and how often still
          highest,            \* history: the largest maximum in force so far
          own                 \* history: workers the pool has added itself since
                              \* the last decision to add some

scalingVars == <<isRunning, scalePolicy, workers, scaler, highest, own>>

NotScaling == [pc |-> "off", simulates |-> FALSE, left |-> 0]

ScalingInit ==
  /\ isRunning = FALSE
  /\ scalePolicy \in ScalePolicies
  /\ workers \in 0..scalePolicy.max
  /\ scaler = [e \in Scalers |-> NotScaling]
  /\ highest = scalePolicy.max /\ own = 0

ScalingTypeOK ==
  /\ isRunning \in BOOLEAN /\ scalePolicy \in ScalePolicies
  /\ workers \in 0..MaxPool /\ highest \in Nat /\ own \in 0..MaxPool
  /\ scaler \in [Scalers ->
       [pc: {"off", "asleep", "adds", "removes"}, simulates: BOOLEAN,
        left: 0..MaxPool]]

\* start: a new loop, whatever runs already.  simulate_load evaluates as often
\* as its profile says, whether the loop runs or not.
Start(e) ==
  /\ scaler[e].pc = "off"
  /\ isRunning' = TRUE
  /\ scaler' = [scaler EXCEPT ![e].pc = "asleep"]
  /\ UNCHANGED <<scalePolicy, workers, highest, own>>

SimulateLoad(e) ==
  /\ scaler[e].pc = "off"
  /\ scaler' = [scaler EXCEPT ![e].pc = "asleep", ![e].simulates = TRUE]
  /\ UNCHANGED <<isRunning, scalePolicy, workers, highest, own>>

\* stop takes effect when a loop comes round; a simulation ends by itself.
Stop == isRunning' = FALSE /\ UNCHANGED <<scalePolicy, workers, scaler, highest, own>>

Ends(e) ==
  /\ scaler[e].pc = "asleep"
  /\ scaler[e].simulates \/ ~isRunning
  /\ scaler' = [scaler EXCEPT ![e] = NotScaling]
  /\ UNCHANGED <<isRunning, scalePolicy, workers, highest, own>>

DefineScalingPolicy(p) ==
  /\ scalePolicy' = p
  /\ highest' = Max({highest, p.max})
  /\ UNCHANGED <<isRunning, workers, scaler, own>>

\* A mutant of WorkersToAdd: the maximum does not limit a step.
WorkersToAddFreely == scalePolicy.up

\* _make_scaling_decision, from the number of workers there are now.
WorkersToAdd == Min({workers + scalePolicy.up, scalePolicy.max}) - workers
WorkersToRemove == workers - Max({workers - scalePolicy.down, scalePolicy.min})

Evaluates(e) == scaler[e].pc = "asleep" /\ (scaler[e].simulates \/ isRunning)

DecidesToAdd(e) ==
  /\ Evaluates(e) /\ workers < scalePolicy.max
  /\ scaler' = [scaler EXCEPT ![e].pc = "adds", ![e].left = WorkersToAdd]
  /\ own' = 0
  /\ UNCHANGED <<isRunning, scalePolicy, workers, highest>>

DecidesToRemove(e) ==
  /\ Evaluates(e) /\ workers > scalePolicy.min
  /\ scaler' = [scaler EXCEPT ![e].pc = "removes", ![e].left = WorkersToRemove]
  /\ UNCHANGED <<isRunning, scalePolicy, workers, highest, own>>

\* One turn of _execute_scaling_decision, up to its sleep; or its exception,
\* which the loop catches.
After(e, left) ==
  scaler' = [scaler EXCEPT ![e].left = left,
                           ![e].pc = IF left = 0 THEN "asleep" ELSE @]

AddsWorker(e) ==
  /\ scaler[e].pc = "adds" /\ workers < MaxPool
  /\ \/ workers' = workers + 1 /\ After(e, scaler[e].left - 1)
     \/ workers' = workers /\ After(e, 0)
  /\ UNCHANGED <<isRunning, scalePolicy, highest, own>>

\* _remove_idle_worker removes nothing when no worker has been used and is idle.
RemovesWorker(e) ==
  /\ scaler[e].pc = "removes"
  /\ workers' \in {workers, workers - 1} \cap Nat
  /\ After(e, scaler[e].left - 1)
  /\ UNCHANGED <<isRunning, scalePolicy, highest, own>>

\* The pool loses workers to its own scaling down, and gains them: for a call
\* that finds none available, by its own scaling up, and by recovery, which
\* appends the worker that replaces another.
PoolLosesWorker ==
  /\ workers > 0 /\ workers' = workers - 1
  /\ UNCHANGED <<isRunning, scalePolicy, scaler, highest, own>>

PoolGainsWorker ==
  /\ workers < MaxPool /\ workers' = workers + 1
  /\ own < MaxPool /\ own' = own + 1
  /\ UNCHANGED <<isRunning, scalePolicy, scaler, highest>>

ScalingNext ==
  \/ Stop \/ PoolLosesWorker \/ PoolGainsWorker
  \/ \E p \in ScalePolicies : DefineScalingPolicy(p)
  \/ \E e \in Scalers :
       \/ Start(e) \/ SimulateLoad(e) \/ Ends(e)
       \/ DecidesToAdd(e) \/ DecidesToRemove(e)
       \/ AddsWorker(e) \/ RemovesWorker(e)

--------------------------------------------------------------------------------
Adding == {e \in Scalers : scaler[e].pc = "adds"}

\* OvershootByScalers: a decision is stale when it is carried out, and nothing
\* looks at the number of workers again.  But the workers there are and those
\* still to come never exceed the largest maximum by more than one step of
\* each further coroutine and what the pool, which knows nothing of the policy,
\* has added itself since the last decision; however loops, simulations,
\* policies, gains and losses fall together.
OvershootByScalers ==
  workers + MapThenSumSet(LAMBDA e : scaler[e].left, Adding)
    <= highest + own + (Cardinality(Scalers) - 1) * Max({p.up : p \in ScalePolicies})
================================================================================
