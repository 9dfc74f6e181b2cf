------------------------------- MODULE Application ------------------------------
(***************************************************************************)
(* src/api: the application as app.py builds and starts it, the middleware *)
(* a request goes through, and the routes of routes/v1/hybrid.py with the  *)
(* background tasks they leave behind.  The route issues a process id of   *)
(* its own; the scheduler makes another one, by which alone it knows the   *)
(* execution.  What an execution does is module HybridScheduler; here it   *)
(* goes through its phases or fails.                                       *)
(***************************************************************************)
EXTENDS Naturals, Sequences, SequencesExt

CONSTANTS
  Connections,                \* of clients, each with one request at a time
  MaxJobs,                    \* bound on the executions that are asked for
  MaxAttempts                 \* how often a monitor looks (60 in the code)

ASSUME ApplicationAssumption == MaxJobs \in Nat /\ MaxAttempts \in Nat \ {0}

VARIABLES server,             \* the lifespan of the application
          connected,          \* scheduler.orchestrator is set
          requests,           \* where each request is, and its state
          jobs,               \* background tasks, in the order they are added
          webhooks            \* jobs whose webhook has been called

applicationVars == <<server, connected, requests, jobs, webhooks>>

\* A mutant of Registered: the rate limit is registered after the audit log.
RegisteredLimitLast ==
  <<"correlation", "https_redirect", "trusted_host", "cors", "gzip",
    "authentication", "audit", "rate_limit", "encryption", "process_time",
    "log_requests">>

\* create_app adds the middleware in this order; the last one added is the
\* first a request meets.
Registered ==
  <<"correlation", "https_redirect", "trusted_host", "cors", "gzip",
    "authentication", "rate_limit", "audit", "encryption", "process_time",
    "log_requests">>

Stack == Reverse(Registered)

Phases == <<"pending", "planning", "validating", "ready", "executing", "completed">>
Over == {"completed", "failed"}

NotReceived == [pc |-> "none", layer |-> 0, audited |-> {}, id |-> "none",
              answer |-> 0]

ApplicationInit ==
  /\ server = "off" /\ connected = FALSE
  /\ requests = [r \in Connections |-> NotReceived]
  /\ jobs = <<>>
  /\ webhooks = {}

ApplicationTypeOK ==
  /\ server \in {"off", "building", "up", "failed", "stopped"}
  /\ connected \in BOOLEAN
  /\ requests \in [Connections ->
       [pc: {"none", "in", "out", "raised", "over"}, layer: 0..Len(Stack) + 1,
        audited: SUBSET {"request", "response"},
        id: {"none", "middleware", "dependency"},
        answer: {0, 200, 202, 204, 307, 400, 404, 422, 429, 500}]]
  /\ jobs \in Seq([pc: {"queued", "monitored", "over"}, webhook: BOOLEAN,
                   attempt: 0..MaxAttempts, cancelled: BOOLEAN,
                   phase: ToSet(Phases) \cup {"none", "failed"}])
  /\ Len(jobs) <= MaxJobs
  /\ webhooks \subseteq DOMAIN jobs

--------------------------------------------------------------------------------
(* lifespan: the components are built, the scheduler is connected, and only  *)
(* then are requests accepted.  An exception on the way ends the start.      *)

Startup ==
  /\ server = "off" /\ server' = "building"
  /\ UNCHANGED <<connected, requests, jobs, webhooks>>

InitOrchestratorComponents ==
  /\ server = "building"
  /\ \/ connected' = TRUE /\ server' = "up"
     \/ connected' = connected /\ server' = "failed"
  /\ UNCHANGED <<requests, jobs, webhooks>>

\* The server waits for the requests it has.
Shutdown ==
  /\ server = "up" /\ \A r \in Connections : requests[r].pc \in {"none", "over"}
  /\ server' = "stopped"
  /\ UNCHANGED <<connected, requests, jobs, webhooks>>

--------------------------------------------------------------------------------
(* The middleware.                                                           *)

Receive(r) ==
  /\ server = "up" /\ requests[r].pc \in {"none", "over"}
  /\ requests' = [requests EXCEPT ![r] =
       [NotReceived EXCEPT !.pc = "in", !.layer = 1]]
  /\ UNCHANGED <<server, connected, jobs, webhooks>>

LayerOf(r) == Stack[requests[r].layer]
AtRoute(r) == requests[r].pc = "in" /\ requests[r].layer = Len(Stack) + 1
AtLayer(r) == requests[r].pc = "in" /\ requests[r].layer <= Len(Stack)

\* What a layer notes on the way in.  Authentication lets every request pass:
\* its excluded paths have "/" among them, with which every path begins.
Noted(r) ==
  CASE LayerOf(r) = "log_requests" ->
         [requests[r] EXCEPT !.id = "middleware"]
    [] LayerOf(r) = "audit" -> [requests[r] EXCEPT !.audited = {"request"}]
    [] OTHER -> requests[r]

PassesOn(r) ==
  /\ AtLayer(r)
  /\ requests' = [requests EXCEPT ![r] = [Noted(r) EXCEPT !.layer = @ + 1]]
  /\ UNCHANGED <<server, connected, jobs, webhooks>>

\* The layers that may answer themselves: the windows of the rate limit are
\* module RateLimitMiddleware.
Refusals == [rate_limit |-> 429, trusted_host |-> 400, https_redirect |-> 307]

Refuses(r) ==
  /\ AtLayer(r) /\ LayerOf(r) \in DOMAIN Refusals
  /\ requests' = [requests EXCEPT ![r].pc = "out", ![r].layer = @ - 1,
                                ![r].answer = Refusals[LayerOf(r)]]
  /\ UNCHANGED <<server, connected, jobs, webhooks>>

\* The way out; an exception passes every layer by, and internal_error_handler
\* answers.
PassesOut(r) ==
  /\ requests[r].pc = "out" /\ requests[r].layer > 0
  /\ requests' = [requests EXCEPT
       ![r].layer = @ - 1,
       ![r].audited = IF LayerOf(r) = "audit" THEN @ \cup {"response"} ELSE @]
  /\ UNCHANGED <<server, connected, jobs, webhooks>>

Responds(r) ==
  /\ \/ requests[r].pc = "out" /\ requests[r].layer = 0
     \/ requests[r].pc = "raised"
  /\ requests' = [requests EXCEPT ![r].pc = "over"]
  /\ UNCHANGED <<server, connected, jobs, webhooks>>

--------------------------------------------------------------------------------
(* The routes.                                                               *)

Answered(r, code) ==
  [requests[r] EXCEPT !.pc = "out", !.layer = @ - 1, !.answer = code]

NewJob(webhook) == [pc |-> "queued", webhook |-> webhook, attempt |-> 0,
                    phase |-> "none", cancelled |-> FALSE]

\* get_request_id makes a new id for a request that brings none, although
\* log_requests has given it one: the answer then shows another id than the log.
RequestId(r, bringsOne) == IF bringsOne THEN requests[r].id ELSE "dependency"

ExecuteGoal(r) ==
  /\ AtRoute(r) /\ Len(jobs) < MaxJobs
  /\ \E webhook \in BOOLEAN : jobs' = Append(jobs, NewJob(webhook))
  /\ \E bringsOne \in BOOLEAN :
       requests' = [requests EXCEPT ![r] =
         [Answered(r, 202) EXCEPT !.id = RequestId(r, bringsOne)]]
  /\ UNCHANGED <<server, connected, webhooks>>

BatchExecute(r) ==
  /\ AtRoute(r)
  /\ \E n \in 1..MaxJobs :
       /\ Len(jobs) + n <= MaxJobs
       /\ jobs' = jobs \o [i \in 1..n |-> NewJob(FALSE)]
  /\ requests' = [requests EXCEPT ![r] = Answered(r, 200)]
  /\ UNCHANGED <<server, connected, webhooks>>

\* schedule_execution checks the expression and keeps nothing.
ScheduleExecution(r) ==
  /\ AtRoute(r)
  /\ \E code \in {200, 422} : requests' = [requests EXCEPT ![r] = Answered(r, code)]
  /\ UNCHANGED <<server, connected, jobs, webhooks>>

\* What the scheduler says of an id: nothing of one a route has issued.
Ids == [by: {"route", "scheduler"}, job: 1..MaxJobs]
StatusOf(id) ==
  IF \/ id.by = "route" \/ id.job \notin DOMAIN jobs
     \/ jobs[id.job].phase = "none"
  THEN "none"
  ELSE IF jobs[id.job].cancelled THEN "cancelled" ELSE jobs[id.job].phase

\* A phase the responses have no word for, and a pending execution, which has
\* no updated_at, do not fit the response of the route.
HasResponse(id) == StatusOf(id) # "ready" /\ jobs[id.job].phase # "pending"

GetExecutionStatus(r) ==
  /\ AtRoute(r)
  /\ \E id \in Ids :
       requests' = [requests EXCEPT ![r] =
         Answered(r, IF StatusOf(id) = "none" THEN 404
                     ELSE IF HasResponse(id) THEN 200 ELSE 500)]
  /\ UNCHANGED <<server, connected, jobs, webhooks>>

\* list_executions goes through all executions, or those of one status: a
\* ready one, which the list has no word for, ends it with an exception.
ListExecutions(r) ==
  /\ AtRoute(r)
  /\ \E filtered \in BOOLEAN :
       requests' = [requests EXCEPT ![r] =
         IF ~filtered /\ \E j \in DOMAIN jobs :
              StatusOf([by |-> "scheduler", job |-> j]) = "ready"
         THEN [@ EXCEPT !.pc = "raised", !.answer = 500]
         ELSE Answered(r, 200)]
  /\ UNCHANGED <<server, connected, jobs, webhooks>>

CancelExecution(r) ==
  /\ AtRoute(r)
  /\ \E id \in Ids :
       LET may == StatusOf(id) \notin Over \cup {"none", "cancelled"}
       IN  /\ requests' = [requests EXCEPT ![r] = Answered(r, IF may THEN 204 ELSE 404)]
           /\ jobs' = IF may THEN [jobs EXCEPT ![id.job].cancelled = TRUE] ELSE jobs
  /\ UNCHANGED <<server, connected, webhooks>>

--------------------------------------------------------------------------------
(* What goes on in the background.                                           *)

\* process_hybrid_execution: the scheduler takes the execution, or raises; its
\* handler looks for the id of the route among the executions, in vain.
ProcessHybridExecution(j) ==
  /\ jobs[j].pc = "queued"
  /\ \/ connected /\ jobs' = [jobs EXCEPT ![j].pc = "monitored", ![j].phase = "pending"]
     \/ jobs' = [jobs EXCEPT ![j].pc = "over"]
  /\ UNCHANGED <<server, connected, requests, webhooks>>

\* The execution; whatever it enters takes the place of "cancelled".
ExecutionAdvances(j) ==
  /\ \E i \in 1..Len(Phases) - 1 :
       /\ jobs[j].phase = Phases[i]
       /\ \E next \in {Phases[i + 1], "failed"} :
            jobs' = [jobs EXCEPT ![j].phase = next, ![j].cancelled = FALSE]
  /\ UNCHANGED <<server, connected, requests, webhooks>>

\* monitor_execution asks for the id of the route.
Watches(j) == [by |-> "route", job |-> j]
ExecutionOver(j) == StatusOf(Watches(j)) \in Over \cup {"cancelled"}

MonitorExecution(j) ==
  /\ jobs[j].pc = "monitored"
  /\ jobs[j].attempt < MaxAttempts /\ ~ExecutionOver(j)
  /\ jobs' = [jobs EXCEPT ![j].attempt = @ + 1]
  /\ UNCHANGED <<server, connected, requests, webhooks>>

\* send_webhook_notification: the call is made once, whatever becomes of it; no
\* status to send is an exception.
SendWebhook(j) == IF jobs[j].webhook /\ StatusOf(Watches(j)) # "none" THEN {j} ELSE {}

MonitorFinishes(j) ==
  /\ jobs[j].pc = "monitored"
  /\ jobs[j].attempt = MaxAttempts \/ ExecutionOver(j)
  /\ jobs' = [jobs EXCEPT ![j].pc = "over"]
  /\ webhooks' = webhooks \cup SendWebhook(j)
  /\ UNCHANGED <<server, connected, requests>>

ApplicationNext ==
  \/ Startup \/ InitOrchestratorComponents \/ Shutdown
  \/ \E r \in Connections :
       \/ Receive(r) \/ PassesOn(r) \/ Refuses(r) \/ PassesOut(r) \/ Responds(r)
       \/ ExecuteGoal(r) \/ BatchExecute(r) \/ ScheduleExecution(r)
       \/ GetExecutionStatus(r) \/ ListExecutions(r) \/ CancelExecution(r)
  \/ \E j \in DOMAIN jobs :
       \/ ProcessHybridExecution(j) \/ ExecutionAdvances(j)
       \/ MonitorExecution(j) \/ MonitorFinishes(j)

--------------------------------------------------------------------------------
\* AuditComplete: the audit log has the request and the answer of everything
\* that was answered, what the rate limit and the layers below refused too; only
\* of a request whose route raised it has no answer.
AuditComplete ==
  \A r \in Connections :
    /\ requests[r].pc = "over" => "request" \in requests[r].audited
    /\ requests[r].pc = "over" /\ requests[r].answer # 500 =>
         "response" \in requests[r].audited
================================================================================
