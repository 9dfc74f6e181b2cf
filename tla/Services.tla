-------------------------------- MODULE Services -------------------------------
(***************************************************************************)
(* The services around the scheduler: src/src/workflow, api, gateway,      *)
(* tenant, reporting, autonomous, ai, and the parts of scheduler,          *)
(* orchestrator, models and tools that no execution of HybridScheduler     *)
(* reaches.  Each component has a module, where its state, its actions and *)
(* its properties are.  In the source no operation of one changes what     *)
(* another keeps, so the interleavings of two of them show nothing that    *)
(* each alone does not: a behaviour is that of one component, the others   *)
(* are as they are when they are constructed.  Objects that they share with*)
(* parts modelled elsewhere may change under them: the worker pool gains   *)
(* and loses workers while the auto-scaler works on it.                    *)
(***************************************************************************)
EXTENDS ApprovalWorkflow, SLAManager, TaskAssignment, RateLimitMiddleware,
        ToolRateLimiter, StateManager, CommunicationBus, APIKeyManager, DAGModel,
        AutoScaler, ReportScheduler, Application, TenantManager, Quotas,
        DAGExecution, ModelManager, TaskLifecycle

VARIABLE part                 \* the component whose behaviour this is

Parts == {"approvals", "sla", "assignment", "limits", "buckets", "state", "bus",
          "keys", "dag", "scaling", "reports", "application", "tenants",
          "quotas", "execution", "models", "lifecycle"}

vars == <<approvalVars, slaVars, assignmentVars, limitVars, bucketVars, stateVars,
          busVars, keyVars, dagVars, scalingVars, reportVars, applicationVars,
          tenantVars, quotaVars, dagExecutionVars, modelVars, lifecycleVars, part>>

\* A component that does not move has the first of its configurations.
Resting ==
  /\ part # "limits" => strategy = "memory"
  /\ part # "buckets" => ~redis
  /\ part # "reports" => cron
  /\ part # "scaling" => /\ scalePolicy = CHOOSE p \in ScalePolicies : TRUE
                         /\ workers = 0

Init ==
  /\ part \in Parts
  /\ ApprovalInit /\ SlaInit /\ AssignmentInit /\ LimitsInit /\ BucketsInit
  /\ StateInit /\ BusInit /\ KeysInit /\ DAGInit /\ ScalingInit /\ ReportsInit
  /\ ApplicationInit /\ TenantsInit /\ QuotasInit /\ DAGExecutionInit
  /\ ModelsInit /\ LifecycleInit
  /\ Resting

\* What a step of component p leaves as it is.
OthersRest(p) ==
  /\ UNCHANGED part
  /\ p # "approvals" => UNCHANGED approvalVars
  /\ p # "sla" => UNCHANGED slaVars
  /\ p # "assignment" => UNCHANGED assignmentVars
  /\ p # "limits" => UNCHANGED limitVars
  /\ p # "buckets" => UNCHANGED bucketVars
  /\ p # "state" => UNCHANGED stateVars
  /\ p # "bus" => UNCHANGED busVars
  /\ p # "keys" => UNCHANGED keyVars
  /\ p # "dag" => UNCHANGED dagVars
  /\ p # "scaling" => UNCHANGED scalingVars
  /\ p # "reports" => UNCHANGED reportVars
  /\ p # "application" => UNCHANGED applicationVars
  /\ p # "tenants" => UNCHANGED tenantVars
  /\ p # "quotas" => UNCHANGED quotaVars
  /\ p # "execution" => UNCHANGED dagExecutionVars
  /\ p # "models" => UNCHANGED modelVars
  /\ p # "lifecycle" => UNCHANGED lifecycleVars

Next ==
  \/ part = "approvals" /\ ApprovalNext /\ OthersRest("approvals")
  \/ part = "sla" /\ SlaNext /\ OthersRest("sla")
  \/ part = "assignment" /\ AssignmentNext /\ OthersRest("assignment")
  \/ part = "limits" /\ LimitsNext /\ OthersRest("limits")
  \/ part = "buckets" /\ BucketsNext /\ OthersRest("buckets")
  \/ part = "state" /\ StateNext /\ OthersRest("state")
  \/ part = "bus" /\ BusNext /\ OthersRest("bus")
  \/ part = "keys" /\ KeysNext /\ OthersRest("keys")
  \/ part = "dag" /\ DAGNext /\ OthersRest("dag")
  \/ part = "scaling" /\ ScalingNext /\ OthersRest("scaling")
  \/ part = "reports" /\ ReportsNext /\ OthersRest("reports")
  \/ part = "application" /\ ApplicationNext /\ OthersRest("application")
  \/ part = "tenants" /\ TenantsNext /\ OthersRest("tenants")
  \/ part = "quotas" /\ QuotasNext /\ OthersRest("quotas")
  \/ part = "execution" /\ DAGExecutionNext /\ OthersRest("execution")
  \/ part = "models" /\ ModelsNext /\ OthersRest("models")
  \/ part = "lifecycle" /\ LifecycleNext /\ OthersRest("lifecycle")

Spec == Init /\ [][Next]_vars

--------------------------------------------------------------------------------
TypeOK ==
  /\ part \in Parts
  /\ ApprovalTypeOK /\ SlaTypeOK /\ AssignmentTypeOK /\ LimitsTypeOK
  /\ BucketsTypeOK /\ StateTypeOK /\ BusTypeOK /\ KeysTypeOK /\ DAGTypeOK
  /\ ScalingTypeOK /\ ReportsTypeOK /\ ApplicationTypeOK /\ TenantsTypeOK
  /\ QuotasTypeOK /\ DAGExecutionTypeOK /\ ModelsTypeOK /\ LifecycleTypeOK

\* BoundsHold: what the five counting components promise of their limits, each
\* as far as its code keeps it: no window of the middleware, no bucket of the
\* tools' limiter and no quota period lets more through than its limit (plus
\* what the code adds to it), no invoice bills more than was counted, and the
\* pool exceeds its maximum by no more than the scalers can add at once and
\* what it adds itself.
BoundsHold ==
  /\ WindowBounded /\ BucketBounded /\ PeriodBounded
  /\ BilledUnlessTrimmed /\ OvershootByScalers

\* RecordsHold: what the components that keep records promise of them: the audit
\* of the application has every request once, the results of execute_dag miss
\* only tasks behind a failure, the model that serves is the one promoted, an
\* execution that ended has its outcome, and a directory has a context.
RecordsHold ==
  /\ AuditComplete /\ RunningBehindFailure /\ ProductionServesPromoted
  /\ OutcomeRecorded /\ DirectoriesOfContexts

--------------------------------------------------------------------------------
(* The instance for TLC: for each component the smallest numbers with which  *)
(* its interesting cases happen.                                             *)

\* The middleware checks two limits in turn.
MCLimits == <<"tenant", "default">>

\* One limit of the tools: the buckets of two are independent.
MCScopes == <<"default">>

\* Two pools that share an agent.
MCPoolAgents == [p |-> {1, 2}, q |-> {2, 3}]
MCStrategy == [p |-> "round_robin", q |-> "least_loaded"]

MCDuration == <<2, 1, 1, 3>>
MCLevels == << <<"a", "b">>, <<"c">> >>

\* As define_scaling_policy may set them: with a small step down and a large one.
MCScalePolicies == {[min |-> 1, max |-> 2, up |-> 2, down |-> 1],
                    [min |-> 1, max |-> 3, up |-> 1, down |-> 2]}
================================================================================
