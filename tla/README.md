# A TLA+ model of the orchestration core

The platform accepts a security goal, plans it as a graph of tasks with a
language model, runs the tasks through agents, tools and containers, and wraps
that in recovery, quotas, workflows and reporting.  It is one Python process
with one asyncio event loop.  A coroutine runs undisturbed between two
suspensions, and everything that can go wrong by interleaving goes wrong at a
suspension, so the models are built from *what happens between two suspensions*:
each action is one such segment, and a program counter names the suspension the
coroutine waits in.  An `await` of a coroutine that itself never suspends (the
in-memory stores, the circuit breaker, the synchronous Docker client) is not a
suspension.

## Parts of the system

| part (under `src/src`) | state | operations | hard behaviour |
|---|---|---|---|
| `recovery/circuit_breaker.py` | a record per circuit | `can_execute`, `record_*`, `reset_circuit` | late results, test calls that never report |
| `recovery/retry_manager.py` | none of its own | `execute_with_retry` | concurrent calls of one function, back-off sleeps |
| `recovery/fallback_manager.py` | handler list per function | `register_fallback`, `get_fallback` | a live list iterated across awaits |
| `recovery/escalation_manager.py` | active escalations | `escalate`, `acknowledge`, `resolve` | long sleeps before anything is stored |
| `scheduler/hybrid_scheduler.py` | one record per execution | schedule, plan, execute, cancel | detached tasks, cancellation between steps |
| `scheduler/budget_tracker.py` | limit and spent per execution | initialise, check, add | checked once, spent piecemeal |
| `scheduler/quota_manager.py` | counters per tenant | check, start, end | counters nobody moves |
| `agents/planner` | plan cache by goal | `create_plan` | DAG objects shared between executions |
| `agents/verifier`, `models/dag.py` | the DAG | `add_edge`, levels, validation | cycle tests |
| `orchestrator/agent_orchestrator.py` | agents, scores | `route_task_to_agent` | failing agents, last resort |
| `workers/worker_pool.py`, `container.py` | worker lists, containers | execute, create, recover, scale | four loops over one live list |
| `domain_agents/*` | memory of an agent, retry counter in the context | `execute` with its phases, `_self_heal` | an exception handler that runs everything again |
| `orchestrator/communication_bus.py` | subscribers, history, dead letters | publish, subscribe, unsubscribe, clean up | a live list iterated across awaits, replay |
| `orchestrator/state_manager.py` | versioned state, cache, snapshots | get, update, snapshot, restore | a cache updated before its check |
| `scheduler/lifecycle_manager.py`, `task_context.py` | execution records, contexts, directories | update, notify, create, clean up | listeners that register listeners |
| `tools/*` | registry, cache, costs, buckets | route, execute, limit | cost checked before an await, fallback tools |
| `workflow/*` | workflow instances, human tasks, approvals, SLAs | advance, approve, assign, track | human answers racing deadlines and monitors |
| `api/*` | requests, background jobs, windows | handle request, monitor, call webhook | order of layers, limits at their boundary |
| `gateway/*` | keys, quotas | generate, rotate, revoke, check | boundaries of periods, rotations of rotations |
| `autonomous/*` | policies, decisions | evaluate, scale, simulate | decisions that are stale when carried out |
| `reporting/scheduler` | jobs, executions | schedule, pause, run | executions longer than the sleep of the loop |
| `ai/model_manager.py` | models, versions, promotions | save, promote, load, evaluate | labels that are used twice |
| `tenant/*` | tenants, schemas, usage | create, suspend, track, invoice | lists that are cut, months that turn |
| `monitoring`, `security`, `governance`, `reporting/dashboards`, `predictive`, `knowledge_graph`, `integrations`, `observability` | caches and histories | rules, reports, estimates, HTTP clients | mostly data and I/O |

`PROJECT.json` lists all of them with their files and says which are modelled.

How they interact.  `HybridScheduler.schedule_execution` starts a detached
planning task, which calls the planner, the verifier and the budget tracker and
starts a detached execution task, which calls
`AgentOrchestrator.route_task_to_agent` for each task.  An agent (or, as a last
resort, the tools through `RetryManager.execute_with_retry`) goes to the tool
router, which runs the tool on the worker pool.  All parts share the event loop
and each other's live lists and dictionaries.  In front of the scheduler stand the
HTTP application and its middleware.  The services around it (approvals, SLAs, task
assignment, keys, quotas, tenants, reports, model management, auto-scaling, the
bus, the state manager, the lifecycle manager) are objects of their own: no
operation of one changes what another keeps, and most are constructed by nobody but
their callers to come.  What they share they share with the core: the auto-scaler
works on the worker pool of `app.py`, which grows and shrinks by itself, and
`execute_dag` on plans that other executions run.

## Modules

| module | models | state and its counterpart |
|---|---|---|
| `Breaker` | abstract specification of a circuit breaker | `state`, `probes` |
| `CircuitBreaker` | `circuit_breaker.py`, one circuit | `circuit` = the record in `self.circuits`, `now` |
| `FallbackManager` | `fallback_manager.py`, one function | `fallbacks` = the sorted list |
| `RetryManager` | `execute_with_retry`, composing the two with the escalation manager | `pc`, `attempt`, `cursor` = local state of each call |
| `RetryManagerProofs` | theorems about `RetryManager` | |
| `ExecutionIds` | the process ids | |
| `BudgetTracker` | `budget_tracker.py` | `budgets` = `active_budgets` |
| `PlannerAgent` | the plan cache and the DAG objects | `plan_cache`, `dags` = task statuses of each DAG object |
| `AgentOrchestrator` | `route_task_to_agent` | `best`, `agent` = local state of the routing |
| `HybridScheduler` | `hybrid_scheduler.py`, composing the three | `status` = the status in `active_executions`, `pc`, `dag`, `stage`, `failed` = local state of the coroutine, `stored` = results in memory |
| `OrchestrationProofs` | theorems about `HybridScheduler` and `DomainAgents` | |
| `ContainerManager` | `container.py`, the container of each worker | `container` = what the Docker daemon says of it, `commands` = the calls whose command runs in it |
| `WorkflowEngine` | `workflow_engine.py`, one instance | `instance` = `instance["status"]`, `stepStatus` = `step.status`; `runner`, `at`, `attempt` = local state of each `_execute_workflow`; `request`, `decisions` = its approval request |
| `WorkflowEngineProofs` | theorems about `WorkflowEngine` | |
| `ToolRegistry` | `tool_registry.py`, one capability | `tools`, `capability_index` |
| `ToolCache` | `tool_cache.py` | `redis` = the values at the server, `local_cache` |
| `CostTracker` | `cost_tracker.py` | `usage` = what the records of each user and tenant add up to |
| `ToolRouter` | `tool_router.py`, composing the three | `pc`, `available_tools`, `selected`, `cursor`, `got` = local state of each call; `tried` is kept to state a property |
| `ToolRouterProofs` | theorems about `ToolRouter` | |
| `DomainAgents` | `domain_agents`, composed with `AgentOrchestrator` | `place`, `tools`, `at` = local state of a task's `execute`, `retryCount` in its context, `perf` = `agent_performance`; `rounds` is kept to state a property |
| `Decision` | abstract specification of a request that is decided once | `outcome` |
| `ApprovalWorkflow` | `approval_workflow.py` | `request` = `approval_requests`, `late` = requests past their deadline |
| `SLAManager` | `sla_manager.py`, one track | `current` = the entry of `sla_tracking`, `track` = the records, `monitor` = each `_monitor_sla` |
| `TaskAssignment` | `task_assignment.py` | `workload`, `assigned` = counts of `assignment_history` |
| `DAGModel` | `models/dag.py`, the planner's edges, `agents/verifier` | `edges` with multiplicity, `verdict` of `validate_dag` |
| `DAGExecution` | `execute_dag`, `cancel_execution`, `get_execution_status` | `exec` = `active_executions`, `dag` = statuses of the shared graph, `coroutine` = the tasks of each level |
| `CommunicationBus` | `communication_bus.py`, one topic | `topic`, `history`, `letters`; `publication`, `replaying` = the loops under way |
| `StateManager` | `state_manager.py`, one key | `stored` in Redis, `cached`, `snapshot`, `call` = each operation |
| `TaskLifecycle` | `lifecycle_manager.py`, `task_context.py` | `record`, `listeners`, `update` = each caller in `_notify_listeners`; `contexts`, `tempDirs`, `disk` |
| `RateLimitMiddleware` | `rate_limit.py`, its four strategies | `log`, `counter`, `expiry`, `arrival` = each request |
| `ToolRateLimiter` | `tools/rate_limiter.py` | `bucket`, `capacity`, `check` = each `check_limits` |
| `Application` | `app.py`, `routes/v1/hybrid.py`, auth, audit | `server`, `requests`, `jobs` = background tasks, `webhooks` |
| `APIKeyManager` | `api_key_manager.py`, one tenant | `keys` in the order of their making |
| `Quotas` | `quota_enforcer.py`, `quota_manager.py` | `quota`, `calls`; `caps`, `running`, `counted` |
| `TenantManager` | `tenant_manager.py`, billing | `tenants`, `schemas`, `usage`, `aggregated` |
| `AutoScaler` | `auto_scaler.py`, one tool | `workers`, `scalePolicy`, `scaler` = each loop or simulation |
| `ReportScheduler` | `report_scheduler.py`, one job | `job`, `wakes`, `execution` = each `_execute_job` |
| `ModelManager` | `model_manager.py` | `models`, `versions`, `production`, `performance` |
| `Services` | the services above, one at a time | `part` = the one whose behaviour it is |
| `ServicesProofs` | theorems about single components of `Services` | |
| `JointProofs` | theorems about `BoundsHold`, `RecordsHold` and `TypeOK` of `Services` | |
| `WorkerPool` | `worker_pool.py`, one tool | `pool` = `worker_pools[tool]`, `status`, `attempts` = `_recovery_attempts`; `pc`, `on`, `health`, `cursor`, `patient`, `scaler` = local state of the calls and the two loops |
| `WorkerPoolProofs` | theorems about `WorkerPool` | |
| `SequenceLemmas` | lemmas about sequences, sums and graphs that the proofs share | |

`MCRetryManager` and `MCToolRouter` give TLC its instances of these two modules; the
instances of `WorkerPool`, `Services`, `WorkflowEngine` and `HybridScheduler` are the
definitions at the end of the modules themselves, which only the `.cfg` files use.

Definitions named "A mutant of ..." are not part of a specification.  Each is a
plausible bug, used in place of the definition it names to show that a property
would notice it.  Where a property joins several parts (`BoundsHold`,
`RecordsHold`), each part has such a definition in its module.  Variables whose
comment says *history* are not in the code and are kept to state a property.

### Recovery

Each member of `Calls` is one `execute_with_retry` of the same function.  It
suspends in the function, the back-off sleep, a fallback handler and the sleep
of the escalation policy.  `circuit` is shared by all calls.  Any exception type
may or may not be one that `retry_on` lists.  The default policies escalate by
sleeping and then fail in a log line (`logging` is not imported there), so a
call that finds no fallback ends with that error.  A handler that returns `None`
ends the search for a fallback, is counted a success and lets the call escalate;
`unvisited` keeps the handlers behind it, which are never tried, and
`NoHandlerSkipped` says that nobody else is.

### Scheduling

Each member of `Executions` is one `schedule_execution`.  A DAG object is named
after the execution whose planning created it; `dag[p]` says which object an
execution runs, so sharing through the plan cache is explicit.  A plan is a
chain of one or two tasks, because nothing else gets past the planner and the
verifier (the comment of `PlannerAgent` says why).  Consequently a level has one
task and `asyncio.gather` one result.  The verdict of the verifier is
nondeterministic.  Prices are uniform in the code (0.01 per task) and counted in
tenths of it: a task is estimated at 10 and costs 9.  Quotas are never
configured or counted by any code, and are left out.

### Worker pool

Each member of `Tasks` is one call of `execute`; beside them run the health loop
(with `debug_containers` at its start) and the auto-scaler.  All of them read and
change one list of workers.  They suspend while a container is created, while a
command runs, and for the loops between two rounds; the Docker client is
synchronous, so checking, stopping and removing a container suspends nothing.
`cursor` is the position of the `for` statement in the live list: the list may
grow or shrink under it while the loop waits for a new worker.  Containers die at
any time.  Each request to Docker may raise, whether or not it was carried out
(`MaxFaults` bounds how often): `check_health` then calls a container unhealthy that
runs a command; a recovery or a scale-down leaves the container as it was, stopped
or gone, and goes on or gives up as the handlers of the code do; a creation may
leave behind the container it has started.  `stray` keeps the workers whose container
was left running like that.  `current_task` is always `None` because the tool router does not pass
the key it is read from; `permanent_failure` only marks workers that the number
of attempts excludes already.  The code makes two attempts to recover a worker where
its comments say one; the range of `attempts` in `TypeOK` is that of the code.

### Workflow engine

Each member of `Runners` is one coroutine of `_execute_workflow`.  The first is
made by `start_workflow`, any other by `resume_workflow`, which neither waits for
the coroutine that pause never stopped nor starts where it left off; all share
the step objects and the status of the instance.  A coroutine suspends before it
starts, in the wait for an approval, in the handler and in the sleep between two
attempts; `GoesOn` is what it does from one of these to the next.  Conditions
have any outcome, since handlers change the context.  Two defects shape the
model: a workflow with an SLA does not start (`timedelta` is not imported), and a
step that names approvers raises in `assign_task`, after its approval.

### Tool routing

Each member of `Calls` is one `route_and_execute` for the same capability.  A
call suspends in Redis (twice: `get` and `set`) and while a tool runs; the
registry and the cost tracker suspend nothing.  What `find_tools_by_capability`
returned stays with the call.  The load balancer may select any tool.  A command
to Redis may raise, before or after the server has carried it out: in `get` that
ends the call, in `set` it counts as a failure of the tool.  A result is
represented by what the cache must know of it: whether its tool allows caching
and whether it came from the selected tool or a fallback.  Budgets are those an
operator has set; no code in the repository calls `set_budget`.  Costs are counted
in units of the estimate.  The start-up registers discovered tools over the
built-in ones, so a name may occur twice in the index (with the default tools,
`nmap` does), before there are calls; later only new names are registered.

### Domain agents

A task is routed to the best agent and, if that raises, to the others in turn.
Agents differ in what they override: the recon and scanner agents have an
`execute` of their own, the others inherit that of the base class, with or without
risk assessment and the bus.  A task suspends in its memory queries, its tools and
its messages; each of these may raise.  `_self_heal` is called by the exception
handler and calls `execute` again with a context that carries the retry counter.
Three defects shape the model: `_assess_risk` is not defined, so an agent that plans
with it raises, and the findings of the recon agent are filed with a wrong call.
And no inherited `execute` returns: with a bus its learnings are filed with the same
wrong call, without one its result asks the task for a `to_dict` it has not
(`ResultRaises`).  So only the agents with an `execute` of their own return.

### Services

`Services` joins the models of the services around the scheduler.  Since no
operation of one changes what another keeps, an interleaving of two shows nothing
that each alone does not: `part` is chosen at the beginning and only that component
moves, together with what changes it from outside (the worker pool under the
auto-scaler).  Inside it the callers, monitors, loops and the clock interleave.
Failures are those of the calls a component awaits: in `StateManager` every request
to Redis may raise, and those that write also after Redis has applied them; callbacks
and listeners may raise where the code calls them.  The limiters take Redis as there
or not there for good: what a request to Redis that raises in between would leave is
not modelled for them.  The bucket of the tools keeps one rate, which
`configure_limit` could change as well as the capacity.

Most of them are sequential between two suspensions, and what is hard is which
suspensions there are.  A monitor of `SLAManager` waits for callbacks and goes on
with the time it read before; `publish` and `_notify_listeners` go through live
collections across awaits; `StateManager` writes its cache before it watches the
key in Redis; the token bucket of the tools reads the time before its script runs;
`execute_dag` awaits all tasks of a level and then reads their results in order; a
scaling decision is carried out half a second at a time.  The rest
(`ApprovalWorkflow`, `TaskAssignment`, `APIKeyManager`, `Quotas`, `TenantManager`,
`ModelManager`, `DAGModel`) does not suspend at all: there the sequence of calls is
what matters.

Defects that shape these models: the process id a route issues is never that of
the scheduler, so its monitors run out and no webhook is called; a versioned update of the
state manager returns False or raises (`pipe.multi()` returns nothing to await), and
a listener that raises makes a set raise after it is stored (no `logger` there); `create_tenant` raises after the schema; the dead letter processor dies of
its first letter; the cycle test of `add_edge` says yes only when it meets its target
a second time, and the validator, which does find cycles, then recurses for ever;
the pool reports no `utilization`, so the load the auto-scaler sees is 0.

## Runs

| run | question | result |
|---|---|---|
| `retry` | Do four concurrent retried calls keep the circuit a breaker, leave it a way out of HALF_OPEN, and pass over no handler? | holds, for a circuit whose test calls all report, and for handlers that are not behind one that returned `None` |
| `retry_ends` | Does every such call end? | holds (three calls) |
| `open_fails_fast` | Does an OPEN circuit fail fast for the recovery timeout? | violated: OPEN turns HALF_OPEN at the next new call, because no operation assigns `last_failure_time` |
| `scheduler` | Are completions honest, budgets kept, reports equal to stored results, agents all tried, executions finite, with plans shared? | holds |
| `cancel` | Does a cancelled execution stay cancelled? | violated: the next step of the coroutine overwrites the status |
| `pool` | Does a command have its container to itself, what kills one or leaves a container behind, and is a worker given up for recovery out of use? | holds as far as Docker answers: a recovery may kill a command (the health check errs), and a recovery or creation that raised may leave a container behind; workers that are `stray` for that, or that `debug_containers` started again, are excepted from the first |
| `removed` | Is a worker that scale-down removed out of the pool? | violated: recovery enters a new worker twice, and scale-down removes its container and one of the entries |
| `tools` | Does the cache hold only what may be cached, and is a budget exceeded by no more than the runs under way? | holds |
| `all_failed` | Has a call that reports that all tools failed run them all? | violated: the fallback leaves out the first tool, whichever was selected |
| `agents` | Does self-healing begin a bounded number of rounds, and does every routed task end? | holds |
| `services` | Are limits, records, decisions and orders of the seventeen services kept? | holds, each property as far as its comment says |
| `workflow` | Is a running instance being run, a completed one without failures, a step that needs approval approved, and does each coroutine end? | holds |

Bounds.  `retry`: four calls, one retry, a failure threshold of 2, one counted
test call, two successes to close, two handlers whose priorities reverse their
registration.  Three calls are needed for a call of the CLOSED period to report
while two test calls are out, and a fourth for one to be refused then; a
threshold of 2 makes "one failure short" exist.  The calls are alike and the
properties safety, so they are taken up to symmetry.  The liveness run has three
calls and no symmetry.
The clock is bounded by `MaxTime`; since `last_failure_time` is never assigned
it only shows in `last_state_change`.  `scheduler`: two executions of the same
goal (so that the cache can hand one the other's plan at any point of its run),
no limit, a limit of one task and one of two, two agents.  `pool`: two calls
(taken up to symmetry), so that one can return late from a worker that was recovered
while the other has its successor or competes for its place; two requests to Docker
that raise (`MaxFaults`), so that the check of a running container errs and its stop
fails too; at most three workers are ever made (`MaxWorkers`: a
creation beyond it fails, as any creation may), which is enough for a worker, its
replacement and one more beside them, and for an entry of a worker to precede
another one that recovery is waiting for.  `workflow`: two steps of any of four
kinds (retried; approved; approved with approvers named; conditional), two
coroutines: one to fail or wait at a step that the other has passed or has still
to come to.  Decisions may be changed any number of times.  `tools`: two calls with
one cache key, of two users who share a tenant, with limits of one and two
estimates and a cost of up to two, so that both calls pass the same check; up to
three registrations (`MaxIndex`), of two names, so that a name can occur twice and
a tool be found by one call and not by the other.

`agents` (the module needs no instance of its own): two tasks, three agents of
which any may be of any kind, one retry (three in the code: a second would repeat
the first) and one recommended tool.

`services`: for each component as many callers as its hazard takes.  Three
requests at a limit of one, through two limits, for twice the period and more
(`RateLimitMiddleware`); three calls of a bucket that is configured anew
(`ToolRateLimiter`; the buckets of two limits are independent); three operations on
a key; two publications and two subscribers; three keys, so that a rotation can be
rotated; graphs of up to four tasks and edges, parallel ones included, which is
enough for a diamond and for a cycle that is noticed late; two scalers under two
policies; three executions of a report at a period of two sleeps; two tracked
periods of one SLA; two pools that share an agent; one connection with one job
whose monitor looks twice; two days in a month, two events that are kept; periods
of one and two hours; two executions of one DAG with two levels; three versions
under two labels; two updaters, one listener that may register one more, two
contexts.  What these bounds leave out is named in the comments of the constants:
clocks end (`Horizon`, `LastTime`, `EndOfTime`, `Calendar`, `LastMinute`,
`EndOfYear`, `LastHour`), and so do counts (`MaxAssigned`, `MaxKeys`, `MaxEdges`,
`MaxPool`, `Executes`, `MaxJobs`, `MaxTracked`, `MaxRunning`, `MaxSaves`,
`MaxListeners`, `MaxContexts`); at such a bound a component stops, so deadlock is
not checked in this run.

Fairness.  A call that has started goes on (`retry`): functions, handlers and
sleeps end.  A coroutine of the engine goes on once it is made, after a sleep,
and in a wait or a handler that has a timeout; nobody must ever approve, and a
handler without a timeout need not return (`workflow`).  The coroutine of a scheduled execution goes on (`scheduler`): the
event loop runs every ready task, the language model answers or raises, agents
return or raise.  Nothing forces a call or an execution to start, a cancel or
a reset to happen.  The specification of the worker pool states no fairness: a
command has no timeout (the parameter is not used), so nothing there must end;
for the same reason that of the tool router states none.  A task of an agent goes on
(`agents`): tools, memory and bus answer or raise; each task's steps are weakly
fair, nothing forces a task to be routed.  `Services` states none: its loops run
for ever, its callers are not obliged to call, and what it promises is safety.

What the properties of `services` do not promise.  Each comment says how far the
code keeps what its name suggests: two fixed windows may touch and the token bucket
of the middleware refuses nobody (`WindowBounded`); a month with more events than are
kept is billed too little (`BilledUnlessTrimmed`); a pool exceeds the maximum of its policy by a
step of each further coroutine and by what it adds itself for its own reasons
(`OvershootByScalers`); a report that outlasts the
sleep of the loop is started again (`RunAgainOnlyAfterOverlap`); an unsubscription
makes a publication step over somebody (`MissedOnlyByUnsubscribe`); a rotation of a
revoked key yields an active one (`OneActivePerFamily`); a refused value stays in the cache, where
`get_state` finds it, and a snapshot carries it into Redis (`RefusedStaysOut`); an interrupted notification loses the result of
an execution (`OutcomeRecorded`).

## Proofs

`RetryManagerProofs`, `OrchestrationProofs`, `WorkflowEngineProofs`,
`ToolRouterProofs`, `WorkerPoolProofs`, `ServicesProofs` and `JointProofs` prove, for
every value of the constants that satisfies the named assumptions, the safety
properties that the runs `retry`, `scheduler`, `agents`, `workflow`, `tools`, `pool`
and `services` check on small instances.  `SequenceLemmas` holds the facts about
sequences, sums and graphs that several of them need.

`RetryManager` (assumptions `BreakerConfig`, `PriorityAssumption`, `RetryConfig`:
positive thresholds, priorities and retries that are natural numbers, finitely
many calls).

- `TypeCorrect`, `ClosedIsFresh`: one inductive invariant, `TypedInv`.  That a
  closed circuit is below its threshold needs nothing but the type of its record,
  because every transition to CLOSED resets the counter.
- `RefinesBreaker`: the circuit implements `Breaker`.  Every step of a call is a
  step of the abstract breaker or leaves it alone; the lemma `StepsOfCircuit`
  does the steps of the circuit once, for all the actions that contain them.
- `AtMostOneMore`, `HalfOpenIsNeverStranded`: the counter `half_open_calls` does
  not count the call that moved the circuit to HALF_OPEN, so what is inductive is
  the relation between the counter and the set of calls let through, and between
  the successes counted, the calls let through and those that have reported.  The
  second theorem assumes that `success_threshold` is at most
  `half_open_max_calls + 1`.  Without that the circuit can stay HALF_OPEN for ever.
- `HandlersAllVisited`: `SearchAhead` says that a handler a search has still to
  visit is behind its cursor, and so is, when the call escalates, one that a handler
  returning `None` has left untried.  `WithHandlerInserts` is the lemma it rests on: an
  insertion into the sorted list moves nothing back.

`HybridScheduler` (assumptions `LimitsAssumption`, `GoalAssumption`,
`NumAgentsAssumption`, `NoExecutionAssumption`).  The inductive invariant `IInv`
joins the types, `PlansFixed` and, for each execution, `Good`.

- `PlansFixed` is what sharing needs: a plan that is in use or in the cache
  belongs to an execution whose planning is over, so nobody makes it again, and
  its length does not change though its statuses do.  `OneIsEnough` uses it to
  reduce every step to the execution that makes it.
- `GoodBudget`: what was spent is 9 for each result, and the estimate of 10 for
  each task was within the limit.  `BudgetIsKept` follows because there are never
  more results than tasks.
- `GoodRun`: at level k there are k - 1 results.  That a failure is never passed
  over (`NoFailurePassed`) does not come from `continue_on_error` but from
  `update_dag`, which raises on the status of the failed task (`ResultRecorded`).
  `CompletionIsHonest` rests on it.
- `GoodReport` and `GoodRoute` give `ReportsAgree` and `ToolsAreLast`.

`DomainAgents` (the assumptions of the module: finitely many agents, retries and
recoveries that are natural numbers).  The retry counter of a task is shared by all
agents that are tried with it, so no agent has a budget of its own and `RoundsBounded`
is not inductive.  `AgentsInv`, which the run checks, counts what was begun: the best
agent alone tries again, and it has begun once more than it has retried; each of the
others has begun at most once for itself and once for each retry of the counter, so
that their beginnings are at most the agents tried so far and the retries that they
share.

`WorkflowEngine` (assumption `WorkflowAssumption`: at least one step, definitions
of the right type).  `RunningIsBeingRun` is the argument that matters: a coroutine
that comes to the end without all steps done leaves the status as it is, so the
invariant `RunInv` says that in a running instance every step is done or lies
ahead of an active coroutine.  Passing a step marks it done, failing at one marks
the instance failed, and a resumed coroutine has all steps ahead.  `Ready` is that
fact in the middle of a segment, and `GoesOnKeeps` carries it to the next
suspension.  `ApprovalComesFirst` needs that an approved request has a decision
to approve (`ApprovalInv`); a decision that is changed later takes nothing back.

`ToolRouter` (assumptions `RouterAssumption`: finitely many calls, each with a key
and payers; `CostAssumption`: limits and costs that are natural numbers).
`OvershootBounded` is not inductive: what may be spent is bounded by what is spent
and what the calls that were admitted may still cost.  `Committed` says that, for
each user and tenant, usage, one estimate and `MaxCost` for each of its running
calls stay within the limit and `MaxCost` for each call it can have.  Admission
needs the check of the budget, charging takes a call out of the set of running
ones, and a new month only takes away.  `CacheIsHonest` needs `InHand`: a call
between Redis and the local copy holds a result that may be cached.

`WorkerPool` (assumptions `MaxPerToolAssumption`, `MaxWorkersAssumption`: at least one
worker).  One inductive invariant carries `TypeOK`, `OneCommandPerContainer`,
`NoContainerLeaks`, `RecoveredIsOutOfUse` and the action property `NoCommandKilled`.

- Workers get their numbers in turn, the list has only workers that were created,
  and whatever runs is in it or was left running by a step that raised (`Listed`).
- `WaitsAlone`: of the calls that wait with a worker there is one, and the worker is
  busy, or given up by recovery and not running (`Held`); except for workers that
  `debug_containers` started again or that are `stray`.  That is why scale-down, which
  removes available workers, kills no command; that recovery may is part of what
  `NoCommandKilled` says.
- `OutOfUse`: a worker for which recovery was attempted stays unhealthy and does not
  run unless it is `stray`, also while the health loop waits for its replacement
  (`HealthLoop`).  A `stray` worker that is found running is set available again, under
  the command it may still run, because `current_task` is `None`.

`Services`.  A behaviour of `Services` is one of a single component, so each property
reduces to a specification of that component alone; the lemmas named `...OfServices`
make the reduction.  `ServicesProofs` has the properties that a run states of one
component.

- `OneActivePerFamily` (`KeysAssumption`).  The keys are numbered without gaps, so the
  number that `generate_key` or `rotate_key` takes is free (`NextKeyIsFree`), and every
  key has the family of a number that is taken, so a new family has nobody in it
  before its founder.  In `RotateKeyKeeps` the new key takes the place of an active old
  one, or is the one that `spare` counts.
- `ImplementsDecision`.  Every step of the workflow of approvals is a step of
  `Decision` or changes no answer.  `ApprovalInv` says that a pending request has heard
  nobody: one approval is enough for a decision, and so is one rejection.
- `MetIsNotBreached` (`SLAAssumption`).  A monitor goes on after the callbacks with the
  time it read before them.  `RecordIsOfThePast`: a breach was found at a time the
  record has lived through.  `MonitorIsOfThePast`: the time a waiting monitor goes on
  with is no later than the end of a record completed meanwhile.
- `NeverFarBehind` (`PoolsAssumption`) is inductive with its types: an agent who could
  have taken every task was among those the choice was made from, so whoever was
  chosen was not ahead of that agent.
- `RefusedStaysOut` (`NoValueAssumption`).  What was ever stored in Redis, answered or
  not, is the value of an unversioned set, or what a snapshot brought back; listeners
  are told what was stored, and a call returns True only after it was.
- `MissedOnlyByUnsubscribe`.  `Served` says, for each publication, that whoever was
  subscribed at its beginning has been given the message or is still ahead in the
  live list, unless somebody left it.
- `RunAgainOnlyAfterOverlap` (`ReportsAssumption`).  `OneAfterAnother`: without an
  overlap each execution is over before the next is created, and the job is not due
  before the time that the last one planned.

- `ValidatedRunsInOrder` (`DAGAssumption`).  The search for a cycle goes on for as many
  rounds as there are tasks.  A round that finds nothing new is the last one, and each
  other one finds a task, so what is reached is closed (`ReachedIsClosed`).  In a graph
  without a cycle the number of tasks that lead to a task grows along each edge
  (`LeadingTo`, `RankWithoutCycle`).  By that rank the recursive functions of levels and
  of durations exist and satisfy their equations; then a task is on a later level than
  what it depends on, and no path is longer than the length that `validate_dag` gives.

`JointProofs` has the properties that join several components.  `RecordsHold`:

- the audit log (`ApplicationAssumption`).  The audit is the fourth layer, no layer
  above it answers by itself, and the answer passes it again on the way out, so by
  the place of a request one knows what is in the log.
- the statuses of a DAG that `execute_dag` leaves (`LevelsAssumption`).  `AccountsFor`: a
  task that says it is running is in the level of a call that goes on, or behind the
  failure a call raised on; a call that goes on over no error has the results of
  all levels it has passed.
- the model that serves (`ModelsAssumption`).  `ModelKept`: the label in production is
  that of a version, and the run that was promoted is the first of that label
  (`FirstRun`), which is the one `load_model` finds.
- the outcome of an execution and the directories of its contexts
  (`LifecycleAssumption`).  Whoever has set the status will note the outcome
  (`WillNote`) unless its notification was interrupted; the directory of a context
  whose task has no other is there as long as the context lives (`ContextKept`).

`BoundsHold`:

- the windows of the middleware (`LimitsAssumption` of `RateLimitMiddleware`).  In memory
  and with a sliding window, what passed is in the log, or a later entry lies a
  period after it.  With a fixed window a counter has a beginning: what has passed
  since is counted, together with the one request whose expiry is not set yet, and
  what passed in the period before is at most the limit.  That is exactly the fact
  that two windows may touch.  The token bucket is excepted: a request that finds no
  token passes all the same.
- the bucket of the tools' limiter (`BucketAssumption`).  `Balanced`: what was granted
  and what is left is at most the capacity and the rate times the seconds up to the
  last refill.  It holds although the time is read before the script runs and may
  be older than the last refill, because the time then goes back on both sides.
- the quotas (`QuotasAssumption`).  What was granted in the period of the last reset is
  part of the usage and within the limit, and nothing was granted after it.
- the invoices (`TenantsAssumption`).  `Agree`, for every first day m: the list of a
  tenant has from m on no more than was counted, in number and in amount; if it has
  as many it has as much; and it has as many unless an event of such a day was
  dropped, after which the list, which is in order, is full of events from m on.
  The invariant has to speak of every m because the month may turn at any step.
- the scalers (`ScalingAssumption`).  The workers there are and those that all
  coroutines have still to create stay within the highest maximum, one step for
  each coroutine but one, and `own`, what the pool has added since the last decision
  to add: calls, its own scaling and recovery know nothing of the policy.

`TypeOK` of `Services` (`ServicesTypeCorrect`) joins a lemma `...TypeCorrect` for each of
the seventeen components.  For most of them the invariants above do not give the
ranges that a type names, and a further inductive conjunct does:

- keys: each rotation counted in `spare` made a key, so there are no more than keys;
- bus (`CallbacksAssumption`: finitely many subscribers): a list has no more of them
  than have joined, and the loop of `publish` stops one behind its end;
- reports: the next run of a schedule is no more than a period away;
- application: a request is no further down than the routes, because it is either at a
  layer the audit invariant knows or where it was; the jobs are no more than were asked
  for, and a webhook belongs to one of them;
- windows of the middleware: a key's counter is no more than the requests that have
  passed the key, were refused by it, or have been counted and wait to be judged
  (`CountedRequests`);
- buckets: a call that still asks has a scope left to ask for, so `Scopes` is not empty;
- scalers: a coroutine that creates or removes has a worker left to create or remove,
  and a policy's maximum is within the bound on the pool;
- models: no promotion and no metric has the number of a version above `MaxSaves`;
- tenants: the events of one day are no more than all that were tracked.

The assumptions that are new with this theorem restrict the instance, not the code:
`Calendar` has a day (`KeysAssumption`), `MaxAssigned` is a number (`PoolsAssumption`), a
limiter has a scope (`BucketAssumption`), no policy wants more workers than `MaxPool`
(`ScalingAssumption`).

Sums.  The module of folds defines a sum by recursion over a `CHOOSE`n element, and
the induction theorems of the library cannot be used here.  `SequenceLemmas` shows
that the function of the fold exists by taking a set of the smallest size for which
it does not, and proves the same way that any element may be taken first, that a sum
changes by what one term changes, and what bounds it.  The longest distance in a graph
is such a function too: `LongestExists` takes a task of the smallest rank for which it
does not exist.

Only model-checked: termination (`CallsEnd`, `EveryExecutionEnds`, `EveryRunnerEnds`,
`EveryTaskEnds`), which needs fairness.

## What is left out

Of the modelled parts: statistics and history queries, log and alert texts, the
scores by which agents and workers are chosen (any choice is allowed), the ages
and clocks that only delay a step, clean-up at shutdown, and the client of the
message or container services.  Of the rest: format conversion, HTTP clients of
external services, dashboards, floating-point estimators and loggers, which have
no state whose changes could interfere.  Some parts cannot run at all: the
constructors of `SelfHealingEngine`, `AlertManager` and the training pipeline use names
that their modules do not import, and `workers/ml/worker.py` is not valid Python.
`PROJECT.json` gives the reason for each.

## Plan

Done: recovery, scheduling, worker pool, workflow engine, tool routing, domain
agents, and the services that keep state of their own; every safety property and action
property that a run checks is proved.  What is left, in this order:

1. Of the modelled parts: request and reply of the bus (the timeout raises
   `NameError`), invalidation and `get_or_compute` of the tool cache, the portal
   service, cost alerts, and a composition of the tool router with the worker pool.
2. Role inheritance of `rbac.py` and evaluation order of `abac.py` as pure
   algorithms; the conditions of `conditional_branching.py`, which no workflow uses.
