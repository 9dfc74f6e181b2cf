------------------------------- MODULE JointProofs ------------------------------
(***************************************************************************)
(* Theorems about the properties of Services that join several components, *)
(* for every value of their constants: each component's part is proved     *)
(* from an inductive invariant of that component, and the parts together   *)
(* are the property.                                                       *)
(***************************************************************************)
EXTENDS ServicesProofs

--------------------------------------------------------------------------------
(***************************************************************************)
(* Application: the audit log.                                             *)
(***************************************************************************)
ApplicationSpec == ApplicationInit /\ [][ApplicationNext]_applicationVars

RequestPlaces == {"none", "in", "out", "raised", "over"}
Audits == SUBSET {"request", "response"}
RequestIds == {"none", "middleware", "dependency"}
StatusCodes == {0, 200, 202, 204, 307, 400, 404, 422, 429, 500}
HttpRequests == [pc: RequestPlaces, layer: Nat, audited: Audits,
                 id: RequestIds, answer: StatusCodes]

\* What the log has of a request by the layer it is at: the audit is the fourth
\* layer, and no layer above it answers by itself.
AuditedSoFar(q) ==
  /\ q.pc = "in" =>
       q.layer \in 1..12 /\ (q.layer > 4 => "request" \in q.audited)
  /\ q.pc = "out" =>
       /\ q.layer \in 0..11 /\ "request" \in q.audited
       /\ q.layer < 4 => "response" \in q.audited
  /\ q.pc = "raised" => "request" \in q.audited /\ q.answer = 500
  /\ q.pc = "over" =>
       /\ "request" \in q.audited
       /\ q.answer # 500 => "response" \in q.audited

AuditInv ==
  /\ requests \in [Connections -> HttpRequests]
  /\ \A r \in Connections : AuditedSoFar(requests[r])

\* The audit is the fourth layer; those that may refuse are below it.
LEMMA LayersBelowAudit ==
  /\ Len(Stack) = 11
  /\ \A k \in 1..11 : /\ Stack[k] = "audit" <=> k = 4
                      /\ Stack[k] \in DOMAIN Refusals => k > 4
<1>1. Len(Registered) = 11
  BY DEF Registered
<1>2. Stack = [k \in 1..11 |-> Registered[12 - k]]
  BY <1>1 DEF Stack, Reverse
<1>3. Len(Stack) = 11
  <2> DEFINE F == [k \in 1..11 |-> Registered[12 - k]]
  <2>1. F \in Seq({Registered[k] : k \in 1..11})
    <3>1. F \in [1..11 -> {Registered[k] : k \in 1..11}]
      OBVIOUS
    <3> QED BY <3>1, IsASeq
  <2>2. DOMAIN F = 1..11 /\ DOMAIN F = 1..Len(F) /\ Len(F) \in Nat
    BY <2>1, LenProperties
  <2>3. Len(F) = 11
    BY <2>2
  <2> QED BY <1>2, <2>3
<1>4. DOMAIN Refusals = {"rate_limit", "trusted_host", "https_redirect"}
  BY DEF Refusals
<1>5. /\ Registered[1] = "correlation" /\ Registered[2] = "https_redirect"
      /\ Registered[3] = "trusted_host" /\ Registered[4] = "cors"
      /\ Registered[5] = "gzip" /\ Registered[6] = "authentication"
      /\ Registered[7] = "rate_limit" /\ Registered[8] = "audit"
      /\ Registered[9] = "encryption" /\ Registered[10] = "process_time"
      /\ Registered[11] = "log_requests"
  BY DEF Registered
<1>6. ASSUME NEW k \in 1..11
      PROVE  /\ Stack[k] = "audit" <=> k = 4
             /\ Stack[k] \in DOMAIN Refusals => k > 4
  <2>1. Stack[k] = Registered[12 - k]
    BY <1>2
  <2>2. k \in {1, 2, 3, 4, 5, 6, 7, 8, 9, 10, 11}
    OBVIOUS
  <2> QED BY <1>4, <1>5, <2>1, <2>2
<1> QED BY <1>3, <1>6

\* A step that moves one request keeps the invariant if it keeps it for that one.
LEMMA RequestMoves ==
  ASSUME AuditInv, NEW r \in Connections, NEW new \in HttpRequests, AuditedSoFar(new),
         requests' = [requests EXCEPT ![r] = new]
  PROVE  AuditInv'
<1>1. requests' \in [Connections -> HttpRequests]
  BY DEF AuditInv
<1>2. \A q \in Connections : requests'[q] = IF q = r THEN new ELSE requests[q]
  BY DEF AuditInv
<1>3. \A q \in Connections : AuditedSoFar(requests'[q])
  BY <1>2 DEF AuditInv
<1> QED BY <1>1, <1>3 DEF AuditInv

\* A request with another layer and another audit.
WithAudit(q, n, audit) == [q EXCEPT !.layer = n, !.audited = audit]

LEMMA RequestAudited ==
  ASSUME NEW q \in HttpRequests, NEW n \in Nat, NEW audit \in Audits
  PROVE  WithAudit(q, n, audit) \in HttpRequests
BY DEF HttpRequests, WithAudit

\* The answer of a route goes out below the last layer.
LEMMA RouteAnswers ==
  ASSUME AuditInv, NEW r \in Connections, AtRoute(r),
         NEW code \in StatusCodes
  PROVE  /\ Answered(r, code) \in HttpRequests
         /\ AuditedSoFar(Answered(r, code))
         /\ Answered(r, code).pc = "out" /\ Answered(r, code).layer = 11
         /\ "request" \in Answered(r, code).audited
<1>1. /\ requests[r] \in HttpRequests /\ AuditedSoFar(requests[r])
      /\ requests[r].pc = "in" /\ requests[r].layer = 12
  BY LayersBelowAudit DEF AuditInv, AtRoute
<1>2. "request" \in requests[r].audited
  BY <1>1 DEF AuditedSoFar
<1>3. Answered(r, code)
        = [requests[r] EXCEPT !.pc = "out", !.layer = requests[r].layer - 1, !.answer = code]
  BY <1>1 DEF Answered
<1>4. Answered(r, code) \in HttpRequests
  <2>1. "out" \in RequestPlaces /\ requests[r].layer - 1 \in Nat
    BY <1>1 DEF RequestPlaces
  <2> QED BY <1>1, <1>3, <2>1 DEF HttpRequests
<1>5. /\ Answered(r, code).pc = "out" /\ Answered(r, code).layer = 11
      /\ Answered(r, code).audited = requests[r].audited
  BY <1>1, <1>3 DEF HttpRequests
<1> QED BY <1>2, <1>4, <1>5 DEF AuditedSoFar

\* The layers of the middleware.
LEMMA MiddlewareKeeps ==
  ASSUME AuditInv, NEW r \in Connections,
         Receive(r) \/ PassesOn(r) \/ Refuses(r) \/ PassesOut(r) \/ Responds(r)
  PROVE  AuditInv'
<1> DEFINE q == requests[r]
           new == requests'[r]
<1>1. q \in HttpRequests /\ AuditedSoFar(q) /\ DOMAIN requests = Connections
  BY DEF AuditInv
<1>2. CASE Receive(r)
  <2>1. requests' = [requests EXCEPT ![r] = [NotReceived EXCEPT !.pc = "in", !.layer = 1]]
    BY <1>2 DEF Receive
  <2>2. [NotReceived EXCEPT !.pc = "in", !.layer = 1] \in HttpRequests
    <3>1. /\ "in" \in RequestPlaces /\ {} \in Audits /\ "none" \in RequestIds
          /\ 0 \in StatusCodes
      BY DEF RequestPlaces, RequestIds, StatusCodes, Audits
    <3> QED BY <3>1 DEF NotReceived, HttpRequests
  <2>3. AuditedSoFar([NotReceived EXCEPT !.pc = "in", !.layer = 1])
    BY DEF NotReceived, AuditedSoFar
  <2> QED BY <2>1, <2>2, <2>3, RequestMoves
<1>3. CASE PassesOn(r)
  <2>1. /\ requests' = [requests EXCEPT ![r] = new] /\ new = [Noted(r) EXCEPT !.layer = @ + 1]
        /\ q.pc = "in" /\ q.layer \in 1..11
    BY <1>1, <1>3, LayersBelowAudit DEF PassesOn, AtLayer, AuditedSoFar, HttpRequests
  <2>2. Noted(r) \in HttpRequests
    BY <1>1 DEF Noted, HttpRequests, RequestIds, Audits
  <2>3. /\ Noted(r).pc = "in" /\ Noted(r).layer = q.layer
        /\ q.layer = 4 => "request" \in Noted(r).audited
        /\ q.layer # 4 => Noted(r).audited = q.audited
    <3>1. LayerOf(r) = "audit" <=> q.layer = 4
      BY <2>1, LayersBelowAudit DEF LayerOf
    <3>2. CASE LayerOf(r) = "log_requests"
      BY <1>1, <2>1, <3>1, <3>2 DEF Noted, HttpRequests
    <3>3. CASE LayerOf(r) = "audit"
      BY <1>1, <2>1, <3>1, <3>3 DEF Noted, HttpRequests
    <3>4. CASE LayerOf(r) \notin {"log_requests", "audit"}
      BY <1>1, <2>1, <3>1, <3>4 DEF Noted
    <3> QED BY <3>2, <3>3, <3>4
  <2>4. /\ new \in HttpRequests /\ new.pc = "in" /\ new.layer = q.layer + 1
        /\ new.audited = Noted(r).audited
    BY <2>1, <2>2, <2>3 DEF HttpRequests
  <2>5. AuditedSoFar(new)
    BY <1>1, <2>1, <2>3, <2>4 DEF AuditedSoFar
  <2> QED BY <2>1, <2>4, <2>5, RequestMoves
<1>4. CASE Refuses(r)
  <2>1. /\ requests' = [requests EXCEPT ![r].pc = "out", ![r].layer = @ - 1,
                                        ![r].answer = Refusals[LayerOf(r)]]
        /\ q.pc = "in" /\ q.layer \in 5..11
    BY <1>1, <1>4, LayersBelowAudit DEF Refuses, AtLayer, LayerOf, AuditedSoFar, HttpRequests
  <2>2. Refusals[LayerOf(r)] \in StatusCodes /\ "out" \in RequestPlaces
    BY <1>4 DEF Refuses, Refusals, StatusCodes, RequestPlaces
  <2>3. new = [q EXCEPT !.pc = "out", !.layer = q.layer - 1, !.answer = Refusals[LayerOf(r)]]
    BY <1>1, <2>1
  <2>4. /\ new \in HttpRequests /\ new.pc = "out" /\ new.layer = q.layer - 1
        /\ new.audited = q.audited
    BY <1>1, <2>1, <2>2, <2>3 DEF HttpRequests
  <2>5. AuditedSoFar(new)
    BY <1>1, <2>1, <2>4 DEF AuditedSoFar
  <2>6. requests' = [requests EXCEPT ![r] = new]
    BY <1>1, <2>1, <2>3
  <2> QED BY <2>4, <2>5, <2>6, RequestMoves
<1>5. CASE PassesOut(r)
  <2> DEFINE noted == IF LayerOf(r) = "audit" THEN q.audited \cup {"response"} ELSE q.audited
  <2>1. /\ requests' = [requests EXCEPT ![r].layer = @ - 1,
             ![r].audited = IF LayerOf(r) = "audit" THEN @ \cup {"response"} ELSE @]
        /\ q.pc = "out" /\ q.layer \in 1..11
    BY <1>1, <1>5 DEF PassesOut, AuditedSoFar, HttpRequests
  <2>2. LayerOf(r) = "audit" <=> q.layer = 4
    BY <2>1, LayersBelowAudit DEF LayerOf
  <2>3. new = [q EXCEPT !.layer = q.layer - 1, !.audited = noted]
    BY <1>1, <2>1
  <2>4. /\ new \in HttpRequests /\ new.pc = "out" /\ new.layer = q.layer - 1
        /\ new.audited = noted
    <3>1. noted \in Audits
      BY <1>1 DEF HttpRequests, Audits
    <3>2. q.layer - 1 \in Nat
      BY <2>1
    <3> HIDE DEF noted
    <3>3. new \in HttpRequests
      <4>1. q \in HttpRequests
        BY <1>1
      <4>2. PICK n \in Nat : n = q.layer - 1
        BY <3>2
      <4>3. new = WithAudit(q, n, noted)
        BY <2>3, <4>2 DEF WithAudit
      <4> HIDE DEF q
      <4> QED BY <3>1, <4>1, <4>3, RequestAudited
    <3> QED BY <1>1, <2>1, <2>3, <3>3 DEF HttpRequests
  <2>5. AuditedSoFar(new)
    BY <1>1, <2>1, <2>2, <2>4 DEF AuditedSoFar
  <2>6. requests' = [requests EXCEPT ![r] = new]
    BY <1>1, <2>1, <2>3
  <2> QED BY <2>4, <2>5, <2>6, RequestMoves
<1>6. CASE Responds(r)
  <2>1. /\ requests' = [requests EXCEPT ![r].pc = "over"]
        /\ \/ q.pc = "out" /\ q.layer = 0
           \/ q.pc = "raised"
    BY <1>6 DEF Responds
  <2>2. new = [q EXCEPT !.pc = "over"]
    BY <1>1, <2>1
  <2>3. /\ new \in HttpRequests /\ new.pc = "over" /\ new.answer = q.answer
        /\ new.audited = q.audited
    BY <1>1, <2>2 DEF HttpRequests, RequestPlaces
  <2>4. AuditedSoFar(new)
    BY <1>1, <2>1, <2>3 DEF AuditedSoFar
  <2>5. requests' = [requests EXCEPT ![r] = new]
    BY <1>1, <2>1, <2>2
  <2> QED BY <2>3, <2>4, <2>5, RequestMoves
<1> QED BY <1>2, <1>3, <1>4, <1>5, <1>6

\* A request whose route raised has been noted if it was before.
Raised(q) == [q EXCEPT !.pc = "raised", !.answer = 500]

LEMMA RaisedRequest ==
  ASSUME NEW q \in HttpRequests, "request" \in q.audited
  PROVE  Raised(q) \in HttpRequests /\ AuditedSoFar(Raised(q))
<1>1. "raised" \in RequestPlaces /\ 500 \in StatusCodes
  BY DEF RequestPlaces, StatusCodes
<1>2. [q EXCEPT !.pc = "raised"] \in HttpRequests
  BY <1>1 DEF HttpRequests
<1>3. PICK p \in HttpRequests : p = [q EXCEPT !.pc = "raised"]
  BY <1>2
<1>4. p.pc = "raised" /\ p.audited = q.audited
  BY <1>3 DEF HttpRequests
<1>5. Raised(q) = [p EXCEPT !.answer = 500]
  BY <1>3 DEF Raised
<1>6. [p EXCEPT !.answer = 500] \in HttpRequests
  BY <1>1 DEF HttpRequests
<1>7. /\ [p EXCEPT !.answer = 500].pc = "raised"
      /\ [p EXCEPT !.answer = 500].answer = 500
      /\ [p EXCEPT !.answer = 500].audited = q.audited
  BY <1>4 DEF HttpRequests
<1> QED BY <1>5, <1>6, <1>7 DEF AuditedSoFar

\* The routes.
LEMMA RoutesKeep ==
  ASSUME AuditInv, NEW r \in Connections,
         \/ ExecuteGoal(r) \/ BatchExecute(r) \/ ScheduleExecution(r)
         \/ GetExecutionStatus(r) \/ ListExecutions(r) \/ CancelExecution(r)
  PROVE  AuditInv'
<1> DEFINE q == requests[r]
           Reply(code) == [requests EXCEPT ![r] = Answered(r, code)]
<1>0. /\ 200 \in StatusCodes /\ 202 \in StatusCodes /\ 204 \in StatusCodes
      /\ 404 \in StatusCodes /\ 422 \in StatusCodes /\ 500 \in StatusCodes
  BY DEF StatusCodes
<1>1. AtRoute(r) /\ q \in HttpRequests /\ AuditedSoFar(q) /\ DOMAIN requests = Connections
  BY DEF AuditInv, ExecuteGoal, BatchExecute, ScheduleExecution, GetExecutionStatus,
         ListExecutions, CancelExecution
<1>2. ASSUME NEW code \in StatusCodes, requests' = Reply(code)
      PROVE  AuditInv'
  <2>1. PICK new : new = Answered(r, code)
    OBVIOUS
  <2>2. new \in HttpRequests /\ AuditedSoFar(new)
    BY <1>1, <2>1, RouteAnswers
  <2>3. requests' = [requests EXCEPT ![r] = new]
    BY <1>2, <2>1
  <2> QED BY <2>2, <2>3, RequestMoves
<1>3. CASE ExecuteGoal(r)
  <2>1. PICK bringsOne \in BOOLEAN :
          requests' = [requests EXCEPT ![r] =
            [Answered(r, 202) EXCEPT !.id = RequestId(r, bringsOne)]]
    BY <1>3 DEF ExecuteGoal
  <2> DEFINE new == [Answered(r, 202) EXCEPT !.id = RequestId(r, bringsOne)]
  <2>2. /\ Answered(r, 202) \in HttpRequests /\ AuditedSoFar(Answered(r, 202))
        /\ Answered(r, 202).pc = "out"
    BY <1>0, <1>1, RouteAnswers
  <2>3. RequestId(r, bringsOne) \in RequestIds
    BY <1>1 DEF RequestId, HttpRequests, RequestIds
  <2>4. /\ new \in HttpRequests /\ new.pc = "out" /\ new.layer = Answered(r, 202).layer
        /\ new.audited = Answered(r, 202).audited
    BY <2>2, <2>3 DEF HttpRequests
  <2>5. AuditedSoFar(new)
    BY <2>2, <2>4 DEF AuditedSoFar
  <2> QED BY <2>1, <2>4, <2>5, RequestMoves
<1>4. CASE BatchExecute(r)
  <2>1. requests' = Reply(200)
    BY <1>4 DEF BatchExecute
  <2> HIDE DEF Reply
  <2> QED BY <1>0, <1>2, <2>1
<1>5. CASE ScheduleExecution(r)
  <2>1. PICK code \in {200, 422} : requests' = [requests EXCEPT ![r] = Answered(r, code)]
    BY <1>5, Zenon DEF ScheduleExecution
  <2>2. requests' = Reply(code)
    BY <2>1
  <2> HIDE DEF Reply
  <2> QED BY <1>0, <1>2, <2>1, <2>2
<1>6. CASE GetExecutionStatus(r)
  <2>1. requests' = Reply(200) \/ requests' = Reply(404) \/ requests' = Reply(500)
    BY <1>6 DEF GetExecutionStatus
  <2> HIDE DEF Reply
  <2> QED BY <1>0, <1>2, <2>1
<1>7. CASE ListExecutions(r)
  <2>1. CASE requests' = Reply(200)
    <3> HIDE DEF Reply
    <3> QED BY <1>0, <1>2, <2>1
  <2>2. CASE requests' = [requests EXCEPT ![r] = [@ EXCEPT !.pc = "raised", !.answer = 500]]
    <3>1. requests' = [requests EXCEPT ![r] = Raised(q)]
      BY <2>2 DEF Raised
    <3>2. q \in HttpRequests /\ "request" \in q.audited
      <4>1. q.pc = "in" /\ q.layer > 4
        BY <1>1, LayersBelowAudit DEF AtRoute
      <4> QED BY <1>1, <4>1 DEF AuditedSoFar
    <3>3. PICK new : new = Raised(q)
      OBVIOUS
    <3>4. new \in HttpRequests /\ AuditedSoFar(new)
      <4> HIDE DEF q
      <4> QED BY <3>2, <3>3, RaisedRequest
    <3>5. requests' = [requests EXCEPT ![r] = new]
      BY <3>1, <3>3
    <3> QED BY <3>4, <3>5, RequestMoves
  <2> QED BY <1>7, <2>1, <2>2 DEF ListExecutions
<1>8. CASE CancelExecution(r)
  <2>1. requests' = Reply(204) \/ requests' = Reply(404)
    BY <1>8 DEF CancelExecution
  <2> HIDE DEF Reply
  <2> QED BY <1>0, <1>2, <2>1
<1> QED BY <1>3, <1>4, <1>5, <1>6, <1>7, <1>8

\* A behaviour of Services is one of the application.
LEMMA ApplicationOfServices == Spec => ApplicationSpec
<1>1. Init => ApplicationInit
  BY DEF Init
<1>2. [Next]_vars => [ApplicationNext]_applicationVars
  BY DEF Next, OthersRest, vars
<1> QED BY <1>1, <1>2, PTL DEF Spec, ApplicationSpec

LEMMA AuditInductive == ApplicationSpec => []AuditInv
<1>1. ApplicationInit => AuditInv
  <2> SUFFICES ASSUME ApplicationInit PROVE AuditInv
    OBVIOUS
  <2>1. NotReceived \in HttpRequests /\ AuditedSoFar(NotReceived)
    BY DEF NotReceived, HttpRequests, AuditedSoFar, RequestPlaces, RequestIds, StatusCodes,
           Audits
  <2> QED BY <2>1 DEF ApplicationInit, AuditInv
<1>2. AuditInv /\ [ApplicationNext]_applicationVars => AuditInv'
  <2> SUFFICES ASSUME AuditInv, [ApplicationNext]_applicationVars PROVE AuditInv'
    OBVIOUS
  <2>1. CASE UNCHANGED requests
    BY <2>1 DEF AuditInv
  <2>2. CASE Startup \/ InitOrchestratorComponents \/ Shutdown
    BY <2>1, <2>2 DEF Startup, InitOrchestratorComponents, Shutdown
  <2>3. ASSUME NEW r \in Connections,
               \/ Receive(r) \/ PassesOn(r) \/ Refuses(r) \/ PassesOut(r) \/ Responds(r)
               \/ ExecuteGoal(r) \/ BatchExecute(r) \/ ScheduleExecution(r)
               \/ GetExecutionStatus(r) \/ ListExecutions(r) \/ CancelExecution(r)
        PROVE  AuditInv'
    BY <2>3, MiddlewareKeeps, RoutesKeep
  <2>4. ASSUME NEW j \in DOMAIN jobs,
               \/ ProcessHybridExecution(j) \/ ExecutionAdvances(j)
               \/ MonitorExecution(j) \/ MonitorFinishes(j)
        PROVE  AuditInv'
    BY <2>1, <2>4 DEF ProcessHybridExecution, ExecutionAdvances, MonitorExecution,
                      MonitorFinishes
  <2>5. CASE UNCHANGED applicationVars
    BY <2>1, <2>5 DEF applicationVars
  <2> QED BY <2>2, <2>3, <2>4, <2>5 DEF ApplicationNext
<1> QED BY <1>1, <1>2, PTL DEF ApplicationSpec

\* The audit log has every request that was answered, and its answer unless the
\* route raised, whichever layer answered.
LEMMA AuditCompleteAlways == Spec => []AuditComplete
<1>1. AuditInv => AuditComplete
  BY DEF AuditInv, AuditedSoFar, AuditComplete
<1> QED BY <1>1, AuditInductive, ApplicationOfServices, PTL

\* What the types of the application say beyond AuditInv: no request is further
\* down than the routes, and the jobs are as many as may be asked for.
JobPhases == ToSet(Phases) \cup {"none", "failed"}
BackgroundJobs == [pc: {"queued", "monitored", "over"}, webhook: BOOLEAN,
               attempt: 0..MaxAttempts, cancelled: BOOLEAN, phase: JobPhases]

LayersBounded == \A r \in Connections : requests[r].layer <= 12

JobsTyped ==
  /\ server \in {"off", "building", "up", "failed", "stopped"} /\ connected \in BOOLEAN
  /\ jobs \in Seq(BackgroundJobs) /\ Len(jobs) <= MaxJobs
  /\ webhooks \subseteq DOMAIN jobs

\* A request that comes to its end stays at its layer; any other has one the
\* audit knows.
LEMMA LayersKept ==
  ASSUME AuditInv, AuditInv', LayersBounded, [ApplicationNext]_applicationVars
  PROVE  LayersBounded'
<1>1. /\ requests \in [Connections -> HttpRequests] /\ \A r \in Connections : AuditedSoFar(requests[r])
      /\ \A r \in Connections : AuditedSoFar(requests'[r])
  BY DEF AuditInv
<1>2. ASSUME NEW r \in Connections, NEW new, requests' = [requests EXCEPT ![r] = new],
             new.pc \in {"in", "out"} \/ new.layer = requests[r].layer
      PROVE  LayersBounded'
  <2>1. /\ requests'[r] = new
        /\ \A q \in Connections \ {r} : requests'[q] = requests[q]
    BY <1>1, <1>2
  <2>2. requests'[r].layer <= 12
    <3>1. CASE new.pc = "in"
      BY <1>1, <2>1, <3>1 DEF AuditedSoFar
    <3>2. CASE new.pc = "out"
      BY <1>1, <2>1, <3>2 DEF AuditedSoFar
    <3>3. CASE new.layer = requests[r].layer
      BY <2>1, <3>3 DEF LayersBounded
    <3> QED BY <1>2, <3>1, <3>2, <3>3
  <2> QED BY <2>1, <2>2 DEF LayersBounded
<1>3. CASE UNCHANGED requests
  BY <1>3 DEF LayersBounded
<1>4. CASE Startup \/ InitOrchestratorComponents \/ Shutdown \/ UNCHANGED applicationVars
  BY <1>3, <1>4 DEF Startup, InitOrchestratorComponents, Shutdown, applicationVars
<1>18. ASSUME NEW j \in DOMAIN jobs,
              \/ ProcessHybridExecution(j) \/ ExecutionAdvances(j)
              \/ MonitorExecution(j) \/ MonitorFinishes(j)
       PROVE  LayersBounded'
  <2>1. UNCHANGED requests
    BY <1>18 DEF ProcessHybridExecution, ExecutionAdvances, MonitorExecution, MonitorFinishes
  <2> QED BY <1>3, <2>1
<1>5. ASSUME NEW r \in Connections PROVE requests[r] \in HttpRequests
  BY <1>1
<1>6. ASSUME NEW r \in Connections, Receive(r) PROVE LayersBounded'
  <2>1. [NotReceived EXCEPT !.pc = "in", !.layer = 1].pc = "in"
    BY DEF NotReceived
  <2> QED BY <1>2, <1>6, <2>1 DEF Receive
<1>7. ASSUME NEW r \in Connections, PassesOn(r) PROVE LayersBounded'
  <2> DEFINE new == [Noted(r) EXCEPT !.layer = @ + 1]
  <2>1. requests' = [requests EXCEPT ![r] = new] /\ requests[r].pc = "in"
    BY <1>7 DEF PassesOn, AtLayer
  <2>2. Noted(r) \in HttpRequests /\ Noted(r).pc = "in"
    BY <1>5, <2>1 DEF Noted, HttpRequests, RequestIds, Audits
  <2>3. new.pc = "in"
    BY <2>2 DEF HttpRequests
  <2> HIDE DEF new
  <2> QED BY <1>2, <2>1, <2>3
<1>8. ASSUME NEW r \in Connections, Refuses(r) PROVE LayersBounded'
  <2> DEFINE new == [requests[r] EXCEPT !.pc = "out", !.layer = requests[r].layer - 1,
                                        !.answer = Refusals[LayerOf(r)]]
  <2>1. requests' = [requests EXCEPT ![r] = new]
    BY <1>1, <1>8 DEF Refuses
  <2>2. new.pc = "out"
    BY <1>5 DEF HttpRequests
  <2> HIDE DEF new
  <2> QED BY <1>2, <2>1, <2>2
<1>9. ASSUME NEW r \in Connections, PassesOut(r) PROVE LayersBounded'
  <2> DEFINE noted == IF LayerOf(r) = "audit" THEN requests[r].audited \cup {"response"}
                      ELSE requests[r].audited
             new == [requests[r] EXCEPT !.layer = requests[r].layer - 1, !.audited = noted]
  <2>1. requests' = [requests EXCEPT ![r] = new] /\ requests[r].pc = "out"
    BY <1>1, <1>9 DEF PassesOut
  <2>2. new.pc = "out"
    <3> HIDE DEF noted
    <3> QED BY <1>5, <2>1 DEF HttpRequests
  <2> HIDE DEF new
  <2> QED BY <1>2, <2>1, <2>2
<1>10. ASSUME NEW r \in Connections, Responds(r) PROVE LayersBounded'
  <2> DEFINE new == [requests[r] EXCEPT !.pc = "over"]
  <2>1. requests' = [requests EXCEPT ![r] = new]
    BY <1>1, <1>10 DEF Responds
  <2>2. new.layer = requests[r].layer
    BY <1>5 DEF HttpRequests
  <2> HIDE DEF new
  <2> QED BY <1>2, <2>1, <2>2
<1>11. ASSUME NEW r \in Connections, AtRoute(r), NEW code,
              requests' = [requests EXCEPT ![r] = Answered(r, code)]
       PROVE  LayersBounded'
  <2>1. Answered(r, code).pc = "out"
    BY <1>5 DEF Answered, HttpRequests
  <2> QED BY <1>2, <1>11, <2>1
<1>12. ASSUME NEW r \in Connections, ExecuteGoal(r) PROVE LayersBounded'
  <2>1. PICK id : requests' = [requests EXCEPT ![r] = [Answered(r, 202) EXCEPT !.id = id]]
    BY <1>12 DEF ExecuteGoal
  <2>2. AtRoute(r) /\ 202 \in StatusCodes
    BY <1>12 DEF ExecuteGoal, StatusCodes
  <2>3. Answered(r, 202) \in HttpRequests /\ Answered(r, 202).pc = "out"
    BY <2>2, RouteAnswers
  <2>4. [Answered(r, 202) EXCEPT !.id = id].pc = "out"
    BY <2>3 DEF HttpRequests
  <2> QED BY <1>2, <2>1, <2>4
<1>13. ASSUME NEW r \in Connections, BatchExecute(r) PROVE LayersBounded'
  BY <1>11, <1>13 DEF BatchExecute
<1>14. ASSUME NEW r \in Connections, ScheduleExecution(r) PROVE LayersBounded'
  BY <1>11, <1>14 DEF ScheduleExecution
<1>15. ASSUME NEW r \in Connections, GetExecutionStatus(r) PROVE LayersBounded'
  <2>1. AtRoute(r) /\ \E code : requests' = [requests EXCEPT ![r] = Answered(r, code)]
    <3>1. PICK id \in Ids :
            requests' = [requests EXCEPT ![r] =
              Answered(r, IF StatusOf(id) = "none" THEN 404
                          ELSE IF HasResponse(id) THEN 200 ELSE 500)]
      BY <1>15 DEF GetExecutionStatus
    <3> DEFINE code == IF StatusOf(id) = "none" THEN 404
                       ELSE IF HasResponse(id) THEN 200 ELSE 500
    <3>2. requests' = [requests EXCEPT ![r] = Answered(r, code)]
      BY <3>1
    <3> HIDE DEF code
    <3> QED BY <1>15, <3>2 DEF GetExecutionStatus
  <2> QED BY <1>11, <2>1
<1>16. ASSUME NEW r \in Connections, ListExecutions(r) PROVE LayersBounded'
  <2>1. AtRoute(r)
    BY <1>16 DEF ListExecutions
  <2>2. \/ requests' = [requests EXCEPT ![r] = Answered(r, 200)]
        \/ requests' = [requests EXCEPT ![r] = Raised(requests[r])]
    BY <1>16 DEF ListExecutions, Raised
  <2>3. Raised(requests[r]).layer = requests[r].layer
    BY <1>5 DEF Raised, HttpRequests
  <2> QED BY <1>2, <1>11, <2>1, <2>2, <2>3
<1>17. ASSUME NEW r \in Connections, CancelExecution(r) PROVE LayersBounded'
  <2>1. AtRoute(r) /\ \E code : requests' = [requests EXCEPT ![r] = Answered(r, code)]
    BY <1>17 DEF CancelExecution
  <2> QED BY <1>11, <2>1
<1> QED BY <1>4, <1>6, <1>7, <1>8, <1>9, <1>10, <1>12, <1>13, <1>14, <1>15, <1>16, <1>17, <1>18
        DEF ApplicationNext

\* The phases of an execution.
LEMMA PhasesInOrder ==
  /\ Len(Phases) = 6 /\ "pending" \in JobPhases
  /\ \A i \in 1..Len(Phases) - 1 : Phases[i + 1] \in JobPhases
<1>1. Phases \in Seq({Phases[i] : i \in 1..6}) /\ Len(Phases) = 6 /\ Phases[1] = "pending"
  <2>1. Len(Phases) = 6 /\ Phases[1] = "pending"
    BY DEF Phases
  <2>2. Phases \in [1..6 -> {Phases[i] : i \in 1..6}]
    <3>1. Phases = [i \in 1..6 |-> Phases[i]]
      BY DEF Phases
    <3> QED BY <3>1
  <2> DEFINE S == {Phases[i] : i \in 1..6}
  <2>3. Phases \in Seq(S)
    <3>1. PICK n \in Nat : n = 6
      OBVIOUS
    <3>2. Phases \in [1..n -> S]
      BY <2>2, <3>1
    <3> HIDE DEF S
    <3> QED BY <3>2
  <2> QED BY <2>1, <2>3
<1>2. ToSet(Phases) = {Phases[i] : i \in 1..6}
  BY <1>1, ToSetOfSeq
<1> QED BY <1>1, <1>2 DEF JobPhases

\* What a step of one job leaves of the list.
LEMMA JobMoves ==
  ASSUME JobsTyped, NEW k \in DOMAIN jobs, NEW new \in BackgroundJobs,
         jobs' = [jobs EXCEPT ![k] = new], server' = server, connected' = connected,
         webhooks' \subseteq webhooks \cup {k}
  PROVE  JobsTyped'
<1>1. jobs \in [1..Len(jobs) -> BackgroundJobs] /\ Len(jobs) \in Nat
  BY LenProperties DEF JobsTyped
<1>2. jobs' \in [1..Len(jobs) -> BackgroundJobs]
  BY <1>1
<1>3. jobs' \in Seq(BackgroundJobs)
  BY <1>1, <1>2, IsASeq
<1>4. Len(jobs') = Len(jobs) /\ DOMAIN jobs' = DOMAIN jobs
  <2>1. DOMAIN jobs' = 1..Len(jobs') /\ Len(jobs') \in Nat
    BY <1>3, LenProperties
  <2> QED BY <1>1, <1>2, <2>1
<1> QED BY <1>3, <1>4 DEF JobsTyped

\* Jobs that are added behind the others.
LEMMA JobsAdded ==
  ASSUME JobsTyped, NEW n \in Nat, NEW more \in Seq(BackgroundJobs), Len(more) = n,
         Len(jobs) + n <= MaxJobs, jobs' = jobs \o more, UNCHANGED <<server, connected, webhooks>>
  PROVE  JobsTyped'
<1>1. jobs \in Seq(BackgroundJobs) /\ Len(jobs) \in Nat /\ DOMAIN jobs = 1..Len(jobs)
  BY LenProperties DEF JobsTyped
<1>2. jobs' \in Seq(BackgroundJobs) /\ Len(jobs') = Len(jobs) + n
  BY <1>1, ConcatProperties
<1>3. DOMAIN jobs' = 1..Len(jobs')
  BY <1>2, LenProperties
<1>4. DOMAIN jobs \subseteq DOMAIN jobs'
  BY <1>1, <1>2, <1>3
<1> QED BY <1>2, <1>4 DEF JobsTyped

\* Every step of the application keeps the jobs.
LEMMA JobsKept ==
  ASSUME JobsTyped, [ApplicationNext]_applicationVars
  PROVE  JobsTyped'
<1>1. ASSUME NEW k \in DOMAIN jobs PROVE jobs[k] \in BackgroundJobs
  BY LenProperties, ElementOfSeq DEF JobsTyped
<1>2. \A webhook \in BOOLEAN : NewJob(webhook) \in BackgroundJobs
  <2>1. 0 \in 0..MaxAttempts /\ "none" \in JobPhases
    BY ApplicationAssumption DEF JobPhases
  <2> QED BY <2>1 DEF NewJob, BackgroundJobs
<1>3. ASSUME UNCHANGED <<jobs, webhooks>>,
             server' \in {"off", "building", "up", "failed", "stopped"}, connected' \in BOOLEAN
      PROVE  JobsTyped'
  BY <1>3 DEF JobsTyped
<1>4. CASE UNCHANGED <<server, connected, jobs, webhooks>>
  BY <1>4 DEF JobsTyped
<1>5. CASE Startup \/ InitOrchestratorComponents \/ Shutdown
  BY <1>3, <1>5 DEF Startup, InitOrchestratorComponents, Shutdown, JobsTyped
<1>6. ASSUME NEW r \in Connections,
             \/ Receive(r) \/ PassesOn(r) \/ Refuses(r) \/ PassesOut(r) \/ Responds(r)
             \/ ScheduleExecution(r) \/ GetExecutionStatus(r) \/ ListExecutions(r)
      PROVE  JobsTyped'
  BY <1>4, <1>6 DEF Receive, PassesOn, Refuses, PassesOut, Responds, ScheduleExecution,
     GetExecutionStatus, ListExecutions
<1>7. ASSUME NEW r \in Connections, ExecuteGoal(r) PROVE JobsTyped'
  <2>1. PICK webhook \in BOOLEAN : jobs' = Append(jobs, NewJob(webhook))
    BY <1>7 DEF ExecuteGoal
  <2>2. Len(jobs) < MaxJobs /\ UNCHANGED <<server, connected, webhooks>>
    BY <1>7 DEF ExecuteGoal
  <2>3. PICK new \in BackgroundJobs : jobs' = Append(jobs, new)
    BY <1>2, <2>1
  <2>4. jobs \in Seq(BackgroundJobs) /\ Len(jobs) \in Nat /\ DOMAIN jobs = 1..Len(jobs)
    BY LenProperties DEF JobsTyped
  <2>5. jobs' \in Seq(BackgroundJobs) /\ Len(jobs') = Len(jobs) + 1
    BY <2>3, <2>4, AppendProperties
  <2>6. DOMAIN jobs \subseteq DOMAIN jobs'
    <3>1. DOMAIN jobs' = 1..Len(jobs')
      BY <2>5, LenProperties
    <3> QED BY <2>4, <2>5, <3>1
  <2> QED BY <2>2, <2>4, <2>5, <2>6, ApplicationAssumption DEF JobsTyped
<1>8. ASSUME NEW r \in Connections, BatchExecute(r) PROVE JobsTyped'
  <2>1. PICK n \in 1..MaxJobs : /\ Len(jobs) + n <= MaxJobs
                                /\ jobs' = jobs \o [i \in 1..n |-> NewJob(FALSE)]
    BY <1>8 DEF BatchExecute
  <2>2. n \in Nat /\ UNCHANGED <<server, connected, webhooks>>
    BY <1>8, ApplicationAssumption DEF BatchExecute
  <2>3. PICK more : more = [i \in 1..n |-> NewJob(FALSE)]
    OBVIOUS
  <2>4. more \in [1..n -> BackgroundJobs]
    BY <1>2, <2>3
  <2>5. more \in Seq(BackgroundJobs)
    BY <2>2, <2>4, IsASeq
  <2>6. Len(more) = n
    <3>1. DOMAIN more = 1..Len(more) /\ Len(more) \in Nat
      BY <2>5, LenProperties
    <3> QED BY <2>2, <2>4, <3>1
  <2> QED BY <2>1, <2>2, <2>3, <2>5, <2>6, JobsAdded
<1>9. ASSUME NEW r \in Connections, CancelExecution(r) PROVE JobsTyped'
  <2>1. PICK id \in Ids :
          LET may == StatusOf(id) \notin Over \cup {"none", "cancelled"}
          IN  jobs' = IF may THEN [jobs EXCEPT ![id.job].cancelled = TRUE] ELSE jobs
    BY <1>9 DEF CancelExecution
  <2>2. UNCHANGED <<server, connected, webhooks>>
    BY <1>9 DEF CancelExecution
  <2>3. CASE StatusOf(id) \in Over \cup {"none", "cancelled"}
    BY <1>4, <2>1, <2>2, <2>3
  <2>4. CASE StatusOf(id) \notin Over \cup {"none", "cancelled"}
    <3> DEFINE k == id.job
               new == [jobs[k] EXCEPT !.cancelled = TRUE]
    <3>1. k \in DOMAIN jobs /\ jobs' = [jobs EXCEPT ![k] = new]
      BY <2>1, <2>4 DEF StatusOf
    <3>2. new \in BackgroundJobs
      BY <1>1, <3>1 DEF BackgroundJobs
    <3> HIDE DEF k, new
    <3> QED BY <2>2, <3>1, <3>2, JobMoves
  <2> QED BY <2>3, <2>4
<1>10. ASSUME NEW j \in DOMAIN jobs, ProcessHybridExecution(j) PROVE JobsTyped'
  <2> DEFINE old == jobs[j]
  <2>1. /\ UNCHANGED <<server, connected, webhooks>>
        /\ \/ jobs' = [jobs EXCEPT ![j] = [old EXCEPT !.pc = "monitored", !.phase = "pending"]]
           \/ jobs' = [jobs EXCEPT ![j] = [old EXCEPT !.pc = "over"]]
    BY <1>10 DEF ProcessHybridExecution
  <2>2. /\ [old EXCEPT !.pc = "monitored", !.phase = "pending"] \in BackgroundJobs
        /\ [old EXCEPT !.pc = "over"] \in BackgroundJobs
    BY <1>1, PhasesInOrder DEF BackgroundJobs
  <2>3. PICK new \in BackgroundJobs : jobs' = [jobs EXCEPT ![j] = new]
    BY <2>1, <2>2
  <2> QED BY <2>1, <2>3, JobMoves
<1>11. ASSUME NEW j \in DOMAIN jobs, ExecutionAdvances(j) PROVE JobsTyped'
  <2>1. PICK i \in 1..Len(Phases) - 1 :
          /\ jobs[j].phase = Phases[i]
          /\ \E next \in {Phases[i + 1], "failed"} :
               jobs' = [jobs EXCEPT ![j].phase = next, ![j].cancelled = FALSE]
    BY <1>11, Zenon DEF ExecutionAdvances
  <2>2. PICK next \in {Phases[i + 1], "failed"} :
          jobs' = [jobs EXCEPT ![j].phase = next, ![j].cancelled = FALSE]
    BY <2>1
  <2>3. next \in JobPhases
    BY PhasesInOrder DEF JobPhases
  <2> DEFINE new == [jobs[j] EXCEPT !.phase = next, !.cancelled = FALSE]
  <2>4. new \in BackgroundJobs /\ jobs' = [jobs EXCEPT ![j] = new]
    BY <1>1, <2>2, <2>3 DEF BackgroundJobs
  <2>5. UNCHANGED <<server, connected, webhooks>>
    BY <1>11 DEF ExecutionAdvances
  <2> HIDE DEF new
  <2> QED BY <2>4, <2>5, JobMoves
<1>12. ASSUME NEW j \in DOMAIN jobs, MonitorExecution(j) PROVE JobsTyped'
  <2> DEFINE new == [jobs[j] EXCEPT !.attempt = @ + 1]
  <2>1. jobs' = [jobs EXCEPT ![j] = new] /\ UNCHANGED <<server, connected, webhooks>>
    BY <1>12 DEF MonitorExecution
  <2>2. jobs[j].attempt + 1 \in 0..MaxAttempts
    BY <1>1, <1>12, ApplicationAssumption DEF MonitorExecution, BackgroundJobs
  <2>3. new \in BackgroundJobs
    BY <1>1, <2>2 DEF BackgroundJobs
  <2> HIDE DEF new
  <2> QED BY <2>1, <2>3, JobMoves
<1>13. ASSUME NEW j \in DOMAIN jobs, MonitorFinishes(j) PROVE JobsTyped'
  <2> DEFINE new == [jobs[j] EXCEPT !.pc = "over"]
  <2>1. /\ jobs' = [jobs EXCEPT ![j] = new] /\ UNCHANGED <<server, connected>>
        /\ webhooks' \subseteq webhooks \cup {j}
    BY <1>13 DEF MonitorFinishes, SendWebhook
  <2>2. new \in BackgroundJobs
    BY <1>1 DEF BackgroundJobs
  <2> HIDE DEF new
  <2> QED BY <2>1, <2>2, JobMoves
<1>14. CASE UNCHANGED applicationVars
  BY <1>4, <1>14 DEF applicationVars
<1> QED BY <1>5, <1>6, <1>7, <1>8, <1>9, <1>10, <1>11, <1>12, <1>13, <1>14 DEF ApplicationNext

\* The server, its requests and the jobs have the types of the module.
LEMMA ApplicationTypeCorrect == ApplicationSpec => []ApplicationTypeOK
<1>1. ApplicationInit => LayersBounded /\ JobsTyped
  <2> SUFFICES ASSUME ApplicationInit PROVE LayersBounded /\ JobsTyped
    OBVIOUS
  <2>1. <<>> \in Seq(BackgroundJobs) /\ Len(<<>>) <= MaxJobs
    BY ApplicationAssumption, EmptySeq
  <2>2. LayersBounded
    BY DEF ApplicationInit, LayersBounded, NotReceived
  <2>3. /\ server = "off" /\ connected = FALSE /\ jobs = <<>> /\ webhooks = {}
    BY DEF ApplicationInit
  <2>4. JobsTyped
    BY <2>1, <2>3 DEF JobsTyped
  <2> QED BY <2>2, <2>4
<1>2. AuditInv /\ AuditInv' /\ LayersBounded /\ [ApplicationNext]_applicationVars => LayersBounded'
  BY LayersKept
<1>3. JobsTyped /\ [ApplicationNext]_applicationVars => JobsTyped'
  BY JobsKept
<1>4. AuditInv /\ LayersBounded /\ JobsTyped => ApplicationTypeOK
  <2> SUFFICES ASSUME AuditInv, LayersBounded, JobsTyped PROVE ApplicationTypeOK
    OBVIOUS
  <2>1. \A r \in Connections : requests[r].layer \in 0..Len(Stack) + 1
    BY LayersBelowAudit DEF AuditInv, LayersBounded, HttpRequests
  <2>2. requests \in [Connections ->
          [pc: RequestPlaces, layer: 0..Len(Stack) + 1, audited: Audits,
           id: RequestIds, answer: StatusCodes]]
    BY <2>1 DEF AuditInv, HttpRequests
  <2> QED BY <2>2 DEF JobsTyped, ApplicationTypeOK, RequestPlaces, Audits, RequestIds,
             StatusCodes, BackgroundJobs, JobPhases
<1> QED BY <1>1, <1>2, <1>3, <1>4, AuditInductive, PTL DEF ApplicationSpec

--------------------------------------------------------------------------------
(***************************************************************************)
(* ModelManager.                                                           *)
(***************************************************************************)
ModelsSpec == ModelsInit /\ [][ModelsNext]_modelVars

ModelRecords ==
  [pc: {"none", "registered", "deleted"}, measurable: BOOLEAN, loadable: BOOLEAN,
   status: {"none", "development", "production"}, current: Labels \cup {"none"}]

Measurements == [run: Nat, of: Labels \cup {"none"}]

\* The first place of a label in a list of versions.
FirstRun(list, v) ==
  LET there == {i \in DOMAIN list : list[i] = v}
  IN  IF there = {} THEN NoRun
      ELSE CHOOSE i \in there : \A j \in there : i <= j

\* Metrics filed under a label are those of its first version, or say that
\* another label was in production.
Filed(list, v, m) ==
  m.run \in {NoRun, FirstRun(list, v)} \/ m.of \notin {"none", v}

\* What is known of a model: the label in production is that of a version, and
\* before anything is registered there is nothing.
ModelKept(m) ==
  /\ production[m] # "none" =>
       /\ production[m] \in ToSet(versions[m])
       /\ promoted[m] = FirstRun(versions[m], production[m])
  /\ models[m].pc = "none" =>
       /\ versions[m] = <<>> /\ production[m] = "none"
       /\ \A v \in Labels : performance[m][v].run = NoRun
  /\ models[m].pc = "registered" =>
       \A v \in Labels : Filed(versions[m], v, performance[m][v])

ModelsTyped ==
  /\ models \in [Models -> ModelRecords]
  /\ versions \in [Models -> Seq(Labels)]
  /\ production \in [Models -> Labels \cup {"none"}]
  /\ performance \in [Models -> [Labels -> Measurements]]
  /\ promoted \in [Models -> Nat]

ModelsInv == ModelsTyped /\ \A m \in Models : ModelKept(m)

\* A label that occurs has a first place, which is one of its own; one that does
\* not has none.
LEMMA FirstRunIsFirst ==
  ASSUME NEW S, NEW list \in Seq(S), NEW v
  PROVE  /\ v \notin ToSet(list) => FirstRun(list, v) = NoRun
         /\ v \in ToSet(list) =>
              /\ FirstRun(list, v) \in 1..Len(list) /\ list[FirstRun(list, v)] = v
              /\ \A i \in 1..Len(list) : list[i] = v => FirstRun(list, v) <= i
<1> DEFINE there == {i \in DOMAIN list : list[i] = v}
<1>1. DOMAIN list = 1..Len(list) /\ Len(list) \in Nat
  BY LenProperties
<1>2. ToSet(list) = {list[i] : i \in 1..Len(list)}
  BY ToSetOfSeq
<1>3. CASE v \notin ToSet(list)
  <2>1. there = {}
    BY <1>1, <1>2, <1>3
  <2> QED BY <1>3, <2>1 DEF FirstRun
<1>4. CASE v \in ToSet(list)
  <2>1. there # {} /\ there \subseteq Nat
    BY <1>1, <1>2, <1>4
  <2>2. \E i \in there : \A j \in there : i <= j
    BY <2>1, LeastElement
  <2>3. FirstRun(list, v) = CHOOSE i \in there : \A j \in there : i <= j
    BY <2>1 DEF FirstRun
  <2>4. FirstRun(list, v) \in there /\ \A j \in there : FirstRun(list, v) <= j
    BY <2>2, <2>3
  <2> QED BY <1>1, <1>4, <2>4
<1> QED BY <1>3, <1>4

\* Saving a version leaves the first place of a label where it is.
LEMMA FirstRunStays ==
  ASSUME NEW S, NEW list \in Seq(S), NEW e \in S, NEW v \in ToSet(list)
  PROVE  FirstRun(Append(list, e), v) = FirstRun(list, v)
<1> DEFINE new == Append(list, e)
           old == FirstRun(list, v)
           now == FirstRun(new, v)
<1>1. /\ new \in Seq(S) /\ Len(list) \in Nat /\ Len(new) = Len(list) + 1
      /\ \A i \in 1..Len(list) : new[i] = list[i]
      /\ v \in ToSet(new)
  BY LenProperties, AppendProperties, ToSetOfAppend
<1>2. /\ old \in 1..Len(list) /\ list[old] = v
      /\ \A i \in 1..Len(list) : list[i] = v => old <= i
  BY FirstRunIsFirst
<1>3. /\ now \in 1..Len(new) /\ new[now] = v
      /\ \A i \in 1..Len(new) : new[i] = v => now <= i
  BY <1>1, FirstRunIsFirst
<1> HIDE DEF new, old, now
<1>4. old \in 1..Len(new) /\ new[old] = v
  BY <1>1, <1>2
<1>5. now <= old
  BY <1>3, <1>4
<1>6. now \in 1..Len(list) /\ list[now] = v
  BY <1>1, <1>2, <1>3, <1>5
<1>7. old <= now
  BY <1>2, <1>6
<1> QED BY <1>1, <1>2, <1>3, <1>5, <1>7 DEF new, old, now

\* load_model goes by the label in production, if there is one.
LEMMA LoadedRun ==
  ASSUME ModelsInv, NEW m \in Models, NEW v \in Labels,
         LoadModel(m, v, "production") # NoRun
  PROVE  LET p == production[m]
             run == LoadModel(m, v, "production")
         IN  /\ run \in Nat
             /\ run = IF p = "none" THEN FirstRun(versions[m], v)
                      ELSE FirstRun(versions[m], p)
             /\ models[m].pc # "none"
<1>1. v # "none"
  BY ModelsAssumption
<1>2. Asked(m, v, "production") = IF production[m] = "none" THEN v ELSE production[m]
  BY <1>1 DEF Asked
<1>3. LoadModel(m, v, "production") = FirstRun(versions[m], Asked(m, v, "production"))
  BY DEF LoadModel, RunOf, FirstRun
<1>4. versions[m] \in Seq(Labels) /\ ModelKept(m)
  BY DEF ModelsInv, ModelsTyped
<1>5. FirstRun(versions[m], Asked(m, v, "production")) \in Nat
  <2>1. Len(versions[m]) \in Nat
    BY <1>4, LenProperties
  <2> QED BY <1>4, <2>1, FirstRunIsFirst DEF NoRun
<1>6. models[m].pc # "none"
  <2> SUFFICES ASSUME models[m].pc = "none" PROVE FALSE
    OBVIOUS
  <2>1. versions[m] = <<>>
    BY <1>4 DEF ModelKept
  <2>2. FirstRun(versions[m], Asked(m, v, "production")) = NoRun
    BY <1>4, <2>1, ToSetOfEmpty, FirstRunIsFirst
  <2> QED BY <1>3, <2>2
<1> QED BY <1>2, <1>3, <1>5, <1>6

LEMMA RegisterModelKeeps ==
  ASSUME ModelsInv, NEW m \in Models, RegisterModel(m)
  PROVE  ModelsInv'
<1>1. PICK measurable \in BOOLEAN, loadable \in BOOLEAN :
        models' = [models EXCEPT ![m] =
          [pc |-> "registered", measurable |-> measurable, loadable |-> loadable,
           status |-> "development", current |-> "none"]]
  BY DEF RegisterModel
<1> DEFINE new == [pc |-> "registered", measurable |-> measurable, loadable |-> loadable,
                   status |-> "development", current |-> "none"]
<1>2. new \in ModelRecords /\ new.pc = "registered"
  BY DEF ModelRecords
<1>3. models' = [models EXCEPT ![m] = new]
  BY <1>1
<1> HIDE DEF new
<1>4. UNCHANGED <<versions, production, performance, promoted>> /\ models[m].pc = "none"
  BY DEF RegisterModel
<1>5. ModelsTyped'
  BY <1>2, <1>3, <1>4 DEF ModelsInv, ModelsTyped
<1>6. ASSUME NEW k \in Models PROVE ModelKept(k)'
  <2>1. ModelKept(k) /\ models'[k] = IF k = m THEN new ELSE models[k]
    BY <1>3 DEF ModelsInv, ModelsTyped
  <2>2. CASE k = m
    BY <1>2, <1>4, <2>1, <2>2 DEF ModelKept, Filed
  <2>3. CASE k # m
    BY <1>4, <2>1, <2>3 DEF ModelKept
  <2> QED BY <2>2, <2>3
<1> QED BY <1>5, <1>6 DEF ModelsInv

LEMMA SaveModelVersionKeeps ==
  ASSUME ModelsInv, NEW m \in Models, NEW v \in Labels, SaveModelVersion(m, v)
  PROVE  ModelsInv'
<1> DEFINE list == versions[m]
           new == Append(list, v)
           now == IF models[m].current = "none" THEN v ELSE models[m].current
<1>1. /\ versions' = [versions EXCEPT ![m] = new]
      /\ models' = [models EXCEPT ![m].current = now]
      /\ UNCHANGED <<production, performance, promoted>> /\ models[m].pc = "registered"
  BY DEF SaveModelVersion
<1>2. /\ list \in Seq(Labels) /\ new \in Seq(Labels)
      /\ ToSet(list) \subseteq ToSet(new) /\ now \in Labels \cup {"none"}
      /\ models[m] \in ModelRecords
  BY ToSetOfAppend DEF ModelsInv, ModelsTyped, ModelRecords
<1>3. /\ \A u \in ToSet(list) : FirstRun(new, u) = FirstRun(list, u)
      /\ \A u : u \notin ToSet(list) => FirstRun(list, u) = NoRun
  BY <1>2, FirstRunStays, FirstRunIsFirst
<1> HIDE DEF list, new, now
<1>4. ModelsTyped'
  <2>1. models' \in [Models -> ModelRecords]
    BY <1>1, <1>2 DEF ModelsInv, ModelsTyped, ModelRecords
  <2>2. versions' \in [Models -> Seq(Labels)]
    BY <1>1, <1>2 DEF ModelsInv, ModelsTyped
  <2> QED BY <1>1, <2>1, <2>2 DEF ModelsInv, ModelsTyped
<1>5. ASSUME NEW k \in Models PROVE ModelKept(k)'
  <2>1. ModelKept(k) /\ versions'[k] = IF k = m THEN new ELSE versions[k]
    BY <1>1 DEF ModelsInv, ModelsTyped
  <2>2. models'[k].pc = models[k].pc
    BY <1>1, <1>2 DEF ModelsInv, ModelsTyped, ModelRecords
  <2>3. CASE k # m
    BY <1>1, <2>1, <2>2, <2>3 DEF ModelKept
  <2>4. CASE k = m
    <3>1. production[m] # "none" =>
            /\ production[m] \in ToSet(new)
            /\ promoted[m] = FirstRun(new, production[m])
      BY <1>2, <1>3, <2>1, <2>4 DEF ModelKept, list
    <3>2. ASSUME NEW u \in Labels PROVE Filed(new, u, performance[m][u])
      <4>1. Filed(list, u, performance[m][u])
        BY <1>1, <2>1, <2>4 DEF ModelKept, list
      <4> QED BY <1>3, <4>1 DEF Filed
    <3> QED BY <1>1, <2>1, <2>2, <2>4, <3>1, <3>2 DEF ModelKept
  <2> QED BY <2>3, <2>4
<1> QED BY <1>4, <1>5 DEF ModelsInv

LEMMA PromoteToProductionKeeps ==
  ASSUME ModelsInv, NEW m \in Models, NEW v \in Labels, PromoteToProduction(m, v)
  PROVE  ModelsInv'
<1>1. /\ v \in ToSet(versions[m])
      /\ production' = [production EXCEPT ![m] = v]
      /\ models' = [models EXCEPT ![m].status = "production", ![m].current = v]
      /\ promoted' = [promoted EXCEPT ![m] = FirstRun(versions[m], v)]
      /\ UNCHANGED <<versions, performance>>
  BY DEF PromoteToProduction, RunOf, FirstRun
<1>2. versions[m] \in Seq(Labels) /\ models[m] \in ModelRecords
  BY DEF ModelsInv, ModelsTyped
<1>3. FirstRun(versions[m], v) \in Nat
  <2>1. Len(versions[m]) \in Nat
    BY <1>2, LenProperties
  <2> QED BY <1>1, <1>2, <2>1, FirstRunIsFirst
<1>4. ModelsTyped'
  <2>1. models' \in [Models -> ModelRecords]
    BY <1>1, <1>2 DEF ModelsInv, ModelsTyped, ModelRecords
  <2> QED BY <1>1, <1>3, <2>1 DEF ModelsInv, ModelsTyped
<1>5. ASSUME NEW k \in Models PROVE ModelKept(k)'
  <2>1. /\ ModelKept(k) /\ models'[k].pc = models[k].pc
        /\ production'[k] = IF k = m THEN v ELSE production[k]
        /\ promoted'[k] = IF k = m THEN FirstRun(versions[m], v) ELSE promoted[k]
    BY <1>1, <1>2 DEF ModelsInv, ModelsTyped, ModelRecords
  <2>2. CASE k # m
    BY <1>1, <2>1, <2>2 DEF ModelKept
  <2>3. CASE k = m
    <3>1. models[m].pc # "none"
      BY <1>1, <2>1, <2>3, ToSetOfEmpty DEF ModelKept
    <3> QED BY <1>1, <2>1, <2>3, <3>1 DEF ModelKept
  <2> QED BY <2>2, <2>3
<1> QED BY <1>4, <1>5 DEF ModelsInv

LEMMA EvaluateModelKeeps ==
  ASSUME ModelsInv, NEW m \in Models, NEW v \in Labels, EvaluateModel(m, v)
  PROVE  ModelsInv'
<1> DEFINE run == LoadModel(m, v, "production")
           new == [run |-> run, of |-> production[m]]
<1>1. /\ run # NoRun /\ performance' = [performance EXCEPT ![m][v] = new]
      /\ UNCHANGED <<models, versions, production, promoted>>
  BY DEF EvaluateModel
<1>2. /\ run \in Nat /\ models[m].pc # "none"
      /\ run = IF production[m] = "none" THEN FirstRun(versions[m], v)
               ELSE FirstRun(versions[m], production[m])
  BY <1>1, LoadedRun
<1>3. new \in Measurements /\ new.run = run /\ new.of = production[m]
  BY <1>2 DEF Measurements, ModelsInv, ModelsTyped
<1> HIDE DEF new, run
<1>4. Filed(versions[m], v, new)
  BY <1>2, <1>3 DEF Filed
<1>5. performance' \in [Models -> [Labels -> Measurements]]
  BY <1>1, <1>3 DEF ModelsInv, ModelsTyped
<1>6. ASSUME NEW k \in Models PROVE ModelKept(k)'
  <2>1. ModelKept(k)
    BY DEF ModelsInv
  <2>2. \A u \in Labels : performance'[k][u] = IF k = m /\ u = v THEN new
                                               ELSE performance[k][u]
    BY <1>1 DEF ModelsInv, ModelsTyped
  <2>3. CASE k # m
    BY <1>1, <2>1, <2>2, <2>3 DEF ModelKept
  <2>4. CASE k = m
    BY <1>1, <1>2, <1>4, <2>1, <2>2, <2>4 DEF ModelKept
  <2> QED BY <2>3, <2>4
<1> QED BY <1>1, <1>5, <1>6 DEF ModelsInv, ModelsTyped

LEMMA DeleteModelKeeps ==
  ASSUME ModelsInv, NEW m \in Models, DeleteModel(m)
  PROVE  ModelsInv'
<1> DEFINE new == [NotRegistered EXCEPT !.pc = "deleted"]
<1>1. /\ models' = [models EXCEPT ![m] = new]
      /\ versions' = [versions EXCEPT ![m] = <<>>]
      /\ production' = [production EXCEPT ![m] = "none"]
      /\ promoted' = [promoted EXCEPT ![m] = NoRun]
      /\ UNCHANGED performance
  BY DEF DeleteModel
<1>2. new \in ModelRecords /\ new.pc = "deleted"
  BY DEF NotRegistered, ModelRecords
<1> HIDE DEF new
<1>3. <<>> \in Seq(Labels) /\ NoRun \in Nat
  BY DEF NoRun
<1>4. ModelsTyped'
  BY <1>1, <1>2, <1>3 DEF ModelsInv, ModelsTyped
<1>5. ASSUME NEW k \in Models PROVE ModelKept(k)'
  <2>1. /\ ModelKept(k) /\ models'[k] = IF k = m THEN new ELSE models[k]
        /\ versions'[k] = IF k = m THEN <<>> ELSE versions[k]
        /\ production'[k] = IF k = m THEN "none" ELSE production[k]
        /\ promoted'[k] = IF k = m THEN NoRun ELSE promoted[k]
    BY <1>1 DEF ModelsInv, ModelsTyped
  <2>2. CASE k = m
    BY <1>2, <2>1, <2>2 DEF ModelKept
  <2>3. CASE k # m
    BY <1>1, <2>1, <2>3 DEF ModelKept
  <2> QED BY <2>2, <2>3
<1> QED BY <1>4, <1>5 DEF ModelsInv

\* A behaviour of Services is one of the model manager.
LEMMA ModelsOfServices == Spec => ModelsSpec
<1>1. Init => ModelsInit
  BY DEF Init
<1>2. [Next]_vars => [ModelsNext]_modelVars
  BY DEF Next, OthersRest, vars
<1> QED BY <1>1, <1>2, PTL DEF Spec, ModelsSpec

LEMMA ModelsInductive == ModelsSpec => []ModelsInv
<1>1. ModelsInit => ModelsInv
  <2> SUFFICES ASSUME ModelsInit PROVE ModelsInv
    OBVIOUS
  <2>1. NotRegistered \in ModelRecords /\ NotRegistered.pc = "none"
    BY DEF NotRegistered, ModelRecords
  <2>2. <<>> \in Seq(Labels) /\ NoRun \in Nat
    BY DEF NoRun
  <2>3. ModelsTyped
    BY <2>1, <2>2 DEF ModelsInit, ModelsTyped, Measurements
  <2> QED BY <2>1, <2>3 DEF ModelsInit, ModelsInv, ModelKept
<1>2. ModelsInv /\ [ModelsNext]_modelVars => ModelsInv'
  <2> SUFFICES ASSUME ModelsInv, [ModelsNext]_modelVars PROVE ModelsInv'
    OBVIOUS
  <2>1. CASE UNCHANGED modelVars
    BY <2>1 DEF modelVars, ModelsInv, ModelsTyped, ModelKept
  <2> QED BY <2>1, RegisterModelKeeps, SaveModelVersionKeeps, PromoteToProductionKeeps,
             EvaluateModelKeeps, DeleteModelKeeps DEF ModelsNext
<1> QED BY <1>1, <1>2, PTL DEF ModelsSpec

\* load_model serves by default what promote_to_production was asked to promote,
\* and evaluate_model files the metrics of another version under a label only
\* while another label is in production.
LEMMA ProductionServesPromotedAlways == Spec => []ProductionServesPromoted
<1>1. ModelsInv => ProductionServesPromoted
  <2> SUFFICES ASSUME ModelsInv, NEW m \in Models
               PROVE  /\ production[m] # "none" =>
                           RunOf(m, Asked(m, "none", "production")) = promoted[m]
                      /\ models[m].pc = "registered" =>
                           \A v \in Labels :
                             performance[m][v].run \in {NoRun, RunOf(m, v)}
                               \/ performance[m][v].of \notin {"none", v}
    BY DEF ProductionServesPromoted
  <2>1. ModelKept(m)
    BY DEF ModelsInv
  <2>2. \A v : RunOf(m, v) = FirstRun(versions[m], v)
    BY DEF RunOf, FirstRun
  <2>3. production[m] # "none" => Asked(m, "none", "production") = production[m]
    BY DEF Asked
  <2> QED BY <2>1, <2>2, <2>3 DEF ModelKept, Filed
<1> QED BY <1>1, ModelsInductive, ModelsOfServices, PTL

\* What the types of the model manager say beyond ModelsInv: no run has a number
\* above that of the versions a model may have.
RunsNumbered ==
  \A m \in Models :
    /\ Len(versions[m]) <= MaxSaves /\ promoted[m] <= MaxSaves
    /\ \A v \in Labels : performance[m][v].run <= MaxSaves

\* The first version of a label is one of those saved.
LEMMA FirstRunIsSaved ==
  ASSUME ModelsInv, RunsNumbered, NEW m \in Models, NEW v
  PROVE  FirstRun(versions[m], v) <= MaxSaves
<1>1. /\ versions[m] \in Seq(Labels) /\ Len(versions[m]) \in Nat
      /\ Len(versions[m]) <= MaxSaves /\ MaxSaves \in Nat
  <2>1. versions[m] \in Seq(Labels)
    BY DEF ModelsInv, ModelsTyped
  <2> QED BY <2>1, LenProperties, ModelsAssumption DEF RunsNumbered
<1>2. CASE v \in ToSet(versions[m])
  <2>1. FirstRun(versions[m], v) \in 1..Len(versions[m])
    BY <1>1, <1>2, FirstRunIsFirst
  <2> QED BY <1>1, <2>1
<1>3. CASE v \notin ToSet(versions[m])
  <2>1. FirstRun(versions[m], v) = NoRun
    BY <1>1, <1>3, FirstRunIsFirst
  <2> QED BY <1>1, <2>1 DEF NoRun
<1> QED BY <1>2, <1>3

\* Every step of the model manager keeps the numbers of runs.
LEMMA ModelsTypeKept ==
  ASSUME ModelsInv, RunsNumbered, [ModelsNext]_modelVars
  PROVE  RunsNumbered'
<1>1. /\ \A m \in Models : versions[m] \in Seq(Labels)
      /\ versions \in [Models -> Seq(Labels)] /\ promoted \in [Models -> Nat]
      /\ performance \in [Models -> [Labels -> Measurements]]
      /\ MaxSaves \in Nat
  BY ModelsAssumption DEF ModelsInv, ModelsTyped
<1>2. CASE UNCHANGED <<versions, performance, promoted>>
  BY <1>2 DEF RunsNumbered
<1>3. ASSUME NEW m \in Models, RegisterModel(m) PROVE RunsNumbered'
  BY <1>2, <1>3 DEF RegisterModel
<1>4. ASSUME NEW m \in Models, NEW v \in Labels, SaveModelVersion(m, v)
      PROVE  RunsNumbered'
  <2> DEFINE new == Append(versions[m], v)
  <2>1. /\ versions' = [versions EXCEPT ![m] = new]
        /\ UNCHANGED <<performance, promoted>> /\ Len(versions[m]) < MaxSaves
    BY <1>4 DEF SaveModelVersion
  <2>2. Len(new) = Len(versions[m]) + 1 /\ Len(versions[m]) \in Nat
    BY <1>1, AppendProperties, LenProperties
  <2> HIDE DEF new
  <2>3. \A k \in Models : Len(versions'[k]) <= MaxSaves
    <3> TAKE k \in Models
    <3>1. versions'[k] = IF k = m THEN new ELSE versions[k]
      BY <1>1, <2>1
    <3>2. Len(new) <= MaxSaves
      BY <1>1, <2>1, <2>2
    <3> QED BY <3>1, <3>2 DEF RunsNumbered
  <2> QED BY <2>1, <2>3 DEF RunsNumbered
<1>5. ASSUME NEW m \in Models, NEW v \in Labels, PromoteToProduction(m, v)
      PROVE  RunsNumbered'
  <2> DEFINE run == FirstRun(versions[m], v)
  <2>1. promoted' = [promoted EXCEPT ![m] = run] /\ UNCHANGED <<versions, performance>>
    BY <1>5 DEF PromoteToProduction, RunOf, FirstRun
  <2>2. run <= MaxSaves
    BY FirstRunIsSaved
  <2> HIDE DEF run
  <2>3. \A k \in Models : promoted'[k] = IF k = m THEN run ELSE promoted[k]
    BY <1>1, <2>1
  <2> QED BY <2>1, <2>2, <2>3 DEF RunsNumbered
<1>6. ASSUME NEW m \in Models, NEW v \in Labels, EvaluateModel(m, v)
      PROVE  RunsNumbered'
  <2> DEFINE run == LoadModel(m, v, "production")
             new == [run |-> run, of |-> production[m]]
  <2>1. /\ run # NoRun /\ performance' = [performance EXCEPT ![m][v] = new]
        /\ UNCHANGED <<versions, promoted>>
    BY <1>6 DEF EvaluateModel
  <2>2. run \in {FirstRun(versions[m], v), FirstRun(versions[m], production[m])}
    BY <2>1, LoadedRun
  <2>3. new.run <= MaxSaves
    <3> HIDE DEF run
    <3> QED BY <2>2, FirstRunIsSaved
  <2> HIDE DEF new, run
  <2>4. \A k \in Models : \A u \in Labels :
          performance'[k][u] = IF k = m /\ u = v THEN new ELSE performance[k][u]
    BY <1>1, <2>1
  <2> QED BY <2>1, <2>3, <2>4 DEF RunsNumbered
<1>7. ASSUME NEW m \in Models, DeleteModel(m) PROVE RunsNumbered'
  <2>1. /\ versions' = [versions EXCEPT ![m] = <<>>]
        /\ promoted' = [promoted EXCEPT ![m] = NoRun] /\ UNCHANGED performance
    BY <1>7 DEF DeleteModel
  <2>2. Len(<<>>) <= MaxSaves /\ NoRun <= MaxSaves
    BY <1>1, EmptySeq DEF NoRun
  <2>3. \A k \in Models : /\ versions'[k] = IF k = m THEN <<>> ELSE versions[k]
                          /\ promoted'[k] = IF k = m THEN NoRun ELSE promoted[k]
    BY <1>1, <2>1
  <2> QED BY <2>1, <2>2, <2>3 DEF RunsNumbered
<1>8. CASE UNCHANGED modelVars
  BY <1>2, <1>8 DEF modelVars
<1> QED BY <1>3, <1>4, <1>5, <1>6, <1>7, <1>8 DEF ModelsNext

\* The models, their versions and metrics have the types of the module.
LEMMA ModelsTypeCorrect == ModelsSpec => []ModelsTypeOK
<1>1. ModelsInit => RunsNumbered
  <2> SUFFICES ASSUME ModelsInit PROVE RunsNumbered
    OBVIOUS
  <2>1. Len(<<>>) <= MaxSaves /\ NoRun <= MaxSaves
    BY ModelsAssumption, EmptySeq DEF NoRun
  <2> QED BY <2>1 DEF ModelsInit, RunsNumbered
<1>2. ModelsInv /\ RunsNumbered /\ [ModelsNext]_modelVars => RunsNumbered'
  BY ModelsTypeKept
<1>3. ModelsInv /\ RunsNumbered => ModelsTypeOK
  <2> SUFFICES ASSUME ModelsInv, RunsNumbered PROVE ModelsTypeOK
    OBVIOUS
  <2>1. \A n \in Nat : n <= MaxSaves => n \in MlflowRuns \cup {NoRun}
    BY ModelsAssumption DEF MlflowRuns, NoRun
  <2>2. promoted \in [Models -> MlflowRuns \cup {NoRun}]
    BY <2>1 DEF ModelsInv, ModelsTyped, RunsNumbered
  <2>3. \A m \in Models, v \in Labels :
          performance[m][v] \in [run: MlflowRuns \cup {NoRun}, of: Labels \cup {"none"}]
    <3> TAKE m \in Models, v \in Labels
    <3>1. performance[m][v] \in Measurements /\ performance[m][v].run <= MaxSaves
      BY DEF ModelsInv, ModelsTyped, RunsNumbered
    <3> QED BY <2>1, <3>1 DEF Measurements
  <2>4. performance \in [Models -> [Labels ->
          [run: MlflowRuns \cup {NoRun}, of: Labels \cup {"none"}]]]
    BY <2>3 DEF ModelsInv, ModelsTyped
  <2> QED BY <2>2, <2>4 DEF ModelsInv, ModelsTyped, ModelsTypeOK, RunsNumbered, ModelRecords
<1> QED BY <1>1, <1>2, <1>3, ModelsInductive, PTL DEF ModelsSpec

--------------------------------------------------------------------------------
(***************************************************************************)
(* TaskLifecycle: the outcomes of executions.                              *)
(***************************************************************************)
LifecycleSpec == LifecycleInit /\ [][LifecycleNext]_lifecycleVars

StatusNames == LifecycleStatuses \cup {"none"}
ExecutionRecord == [status: StatusNames, result: BOOLEAN, error: BOOLEAN]
UpdateRecords ==
  [pc: {"idle", "listener"}, method: Methods \cup {"none"},
   process: Processes \cup {"none"}, status: StatusNames,
   at: 0..MaxListeners, size: 0..MaxListeners]

\* What a method that waits for a listener is about to note.
WillNote(step, p, method) == step.process = p /\ step.method = method

\* A status that is an outcome comes with what the method notes behind the
\* notification, or the method that set it has still to note it.
OutcomeKept(p) ==
  p \notin interrupted =>
    /\ record[p].status = "completed" =>
         record[p].result \/ \E u \in Updaters : WillNote(update[u], p, "complete_execution")
    /\ record[p].status = "failed" =>
         record[p].error \/ \E u \in Updaters : WillNote(update[u], p, "fail_execution")

OutcomeTyped ==
  /\ record \in [Processes -> ExecutionRecord]
  /\ listeners \in Seq(LifecycleStatuses \cup {"any"}) /\ Len(listeners) <= MaxListeners
  /\ update \in [Updaters -> UpdateRecords]
  /\ interrupted \subseteq Processes

\* A caller that is in no method notes nothing; one that is knows its execution.
UpdateKept(u) ==
  /\ update[u].pc = "idle" => update[u].method = "none"
  /\ update[u].pc = "listener" => update[u].process \in Processes

OutcomeInv ==
  /\ OutcomeTyped
  /\ \A u \in Updaters : UpdateKept(u)
  /\ \A p \in Processes : OutcomeKept(p)

\* The numbers of the listeners that are called are numbers of listeners.
LEMMA CalledAreListeners ==
  ASSUME OutcomeTyped, NEW i \in Nat \ {0}, NEW status, CalledFrom(i, status) # {}
  PROVE  Min(CalledFrom(i, status)) \in 0..MaxListeners
<1> DEFINE next == CalledFrom(i, status)
<1>1. Len(listeners) \in Nat /\ Len(listeners) <= MaxListeners /\ MaxListeners \in Nat
  BY LenProperties, LifecycleAssumption DEF OutcomeTyped
<1>2. next \subseteq i..Len(listeners) /\ next \subseteq Nat
  BY <1>1 DEF CalledFrom
<1>3. \E least \in next : \A k \in next : least <= k
  BY <1>2, LeastElement
<1>4. Min(next) \in next
  BY <1>3 DEF Min
<1> QED BY <1>1, <1>2, <1>4

\* _notify_listeners, and what the method notes behind it, keep the invariant
\* when the method has set the status it notes an outcome for.
LEMMA NotifyKeeps ==
  ASSUME OutcomeInv, NEW u \in Updaters, NEW step \in UpdateRecords,
         NEW i \in Nat \ {0}, NEW now \in [Processes -> ExecutionRecord],
         step.process \in Processes, Notify(u, step, i, now),
         UNCHANGED <<listeners, interrupted>>,
         \A p \in Processes \ interrupted :
           /\ now[p].status = "completed" =>
                \/ now[p].result \/ WillNote(step, p, "complete_execution")
                \/ \E w \in Updaters \ {u} : WillNote(update[w], p, "complete_execution")
           /\ now[p].status = "failed" =>
                \/ now[p].error \/ WillNote(step, p, "fail_execution")
                \/ \E w \in Updaters \ {u} : WillNote(update[w], p, "fail_execution")
  PROVE  OutcomeInv'
<1> DEFINE next == CalledFrom(i, step.status)
<1>1. /\ update \in [Updaters -> UpdateRecords]
      /\ \A w \in Updaters : UpdateKept(w)
      /\ OutcomeTyped
  BY DEF OutcomeInv, OutcomeTyped
<1>2. CASE next # {}
  <2> DEFINE new == [step EXCEPT !.pc = "listener", !.at = Min(next)]
  <2>1. update' = [update EXCEPT ![u] = new] /\ record' = now
    BY <1>2 DEF Notify
  <2>2. Min(next) \in 0..MaxListeners
    BY <1>1, <1>2, CalledAreListeners
  <2>3. /\ new \in UpdateRecords /\ new.pc = "listener"
        /\ new.process = step.process /\ new.method = step.method
    BY <2>2 DEF UpdateRecords
  <2> HIDE DEF new
  <2>4. \A w \in Updaters : update'[w] = IF w = u THEN new ELSE update[w]
    BY <1>1, <2>1
  <2>5. OutcomeTyped'
    <3>1. update' \in [Updaters -> UpdateRecords]
      BY <1>1, <2>1, <2>3
    <3> QED BY <1>1, <2>1, <3>1 DEF OutcomeTyped
  <2>6. \A w \in Updaters : UpdateKept(w)'
    BY <1>1, <2>3, <2>4 DEF UpdateKept
  <2>7. ASSUME NEW p \in Processes PROVE OutcomeKept(p)'
    <3>1. /\ \A method : WillNote(step, p, method) <=> WillNote(update'[u], p, method)
          /\ \A w \in Updaters \ {u} : \A method :
               WillNote(update[w], p, method) <=> WillNote(update'[w], p, method)
      BY <2>3, <2>4 DEF WillNote
    <3> QED BY <2>1, <3>1 DEF OutcomeKept
  <2> QED BY <2>5, <2>6, <2>7 DEF OutcomeInv
<1>3. CASE next = {}
  <2> DEFINE noted == Recorded(now[step.process], step.method)
  <2>1. /\ update' = [update EXCEPT ![u] = NoUpdate]
        /\ record' = [now EXCEPT ![step.process] = noted]
    BY <1>3 DEF Notify
  <2>2. /\ NoUpdate \in UpdateRecords /\ NoUpdate.pc = "idle" /\ NoUpdate.method = "none"
    BY LifecycleAssumption DEF NoUpdate, UpdateRecords, StatusNames
  <2>3. /\ noted \in ExecutionRecord /\ noted.status = now[step.process].status
        /\ now[step.process].result => noted.result
        /\ now[step.process].error => noted.error
        /\ step.method = "complete_execution" => noted.result
        /\ step.method = "fail_execution" => noted.error
    BY DEF Recorded, ExecutionRecord
  <2> HIDE DEF noted
  <2>4. \A w \in Updaters : update'[w] = IF w = u THEN NoUpdate ELSE update[w]
    BY <1>1, <2>1
  <2>5. OutcomeTyped'
    <3>1. update' \in [Updaters -> UpdateRecords]
      BY <1>1, <2>1, <2>2
    <3>2. record' \in [Processes -> ExecutionRecord]
      BY <2>1, <2>3
    <3> QED BY <1>1, <3>1, <3>2 DEF OutcomeTyped
  <2>6. \A w \in Updaters : UpdateKept(w)'
    BY <1>1, <2>2, <2>4 DEF UpdateKept
  <2>7. ASSUME NEW p \in Processes PROVE OutcomeKept(p)'
    <3>1. \A w \in Updaters \ {u} : \A method :
            WillNote(update[w], p, method) <=> WillNote(update'[w], p, method)
      BY <2>4 DEF WillNote
    <3>2. record'[p] = IF p = step.process THEN noted ELSE now[p]
      BY <2>1
    <3>3. CASE p = step.process
      <4>1. /\ WillNote(step, p, "complete_execution") => noted.result
            /\ WillNote(step, p, "fail_execution") => noted.error
            /\ now[p].result => noted.result
            /\ now[p].error => noted.error
            /\ now[p].status = noted.status
        BY <2>3, <3>3 DEF WillNote
      <4>2. p \notin interrupted /\ noted.status = "completed" =>
              \/ noted.result
              \/ \E w \in Updaters : WillNote(update'[w], p, "complete_execution")
        BY <3>1, <4>1, Zenon
      <4>3. p \notin interrupted /\ noted.status = "failed" =>
              \/ noted.error
              \/ \E w \in Updaters : WillNote(update'[w], p, "fail_execution")
        BY <3>1, <4>1, Zenon
      <4> QED BY <3>2, <3>3, <4>2, <4>3 DEF OutcomeKept
    <3>4. CASE p # step.process
      BY <3>1, <3>2, <3>4 DEF OutcomeKept, WillNote
    <3> QED BY <3>3, <3>4
  <2> QED BY <2>5, <2>6, <2>7 DEF OutcomeInv
<1> QED BY <1>2, <1>3

LEMMA UpdateKeeps ==
  ASSUME OutcomeInv, NEW u \in Updaters, NEW p \in Processes, Update(u, p)
  PROVE  OutcomeInv'
<1>1. PICK m \in Methods :
        \E s \in IF m \in DOMAIN OutcomeStatus THEN {OutcomeStatus[m]} ELSE PlainStatuses :
          Notify(u, [NoUpdate EXCEPT !.method = m, !.process = p, !.status = s,
                                     !.size = Len(listeners)],
                 1, [record EXCEPT ![p].status = s])
  BY DEF Update
<1>2. PICK s \in IF m \in DOMAIN OutcomeStatus THEN {OutcomeStatus[m]} ELSE PlainStatuses :
        Notify(u, [NoUpdate EXCEPT !.method = m, !.process = p, !.status = s,
                                   !.size = Len(listeners)],
               1, [record EXCEPT ![p].status = s])
  BY <1>1
<1> DEFINE step == [NoUpdate EXCEPT !.method = m, !.process = p, !.status = s,
                                    !.size = Len(listeners)]
           now == [record EXCEPT ![p].status = s]
<1>3. /\ s \in StatusNames
      /\ s = "completed" => m = "complete_execution"
      /\ s = "failed" => m = "fail_execution"
  <2>1. DOMAIN OutcomeStatus = {"complete_execution", "fail_execution"}
    BY DEF OutcomeStatus
  <2>2. /\ OutcomeStatus["complete_execution"] = "completed"
        /\ OutcomeStatus["fail_execution"] = "failed"
    BY DEF OutcomeStatus
  <2>3. CASE m \in DOMAIN OutcomeStatus
    <3>1. s = OutcomeStatus[m]
      BY <2>3
    <3> QED BY <2>1, <2>2, <2>3, <3>1 DEF StatusNames, LifecycleStatuses
  <2>4. CASE m \notin DOMAIN OutcomeStatus
    BY <2>4 DEF PlainStatuses, StatusNames, LifecycleStatuses
  <2> QED BY <2>3, <2>4
<1>4. Len(listeners) \in 0..MaxListeners /\ 0 \in 0..MaxListeners
  BY LenProperties, LifecycleAssumption DEF OutcomeInv, OutcomeTyped
<1>5. step \in UpdateRecords /\ step.process = p /\ step.method = m
  BY <1>3, <1>4 DEF NoUpdate, UpdateRecords
<1>6. /\ record \in [Processes -> ExecutionRecord] /\ now \in [Processes -> ExecutionRecord]
      /\ \A q \in Processes :
           now[q] = IF q = p THEN [record[p] EXCEPT !.status = s] ELSE record[q]
      /\ now[p].status = s
  BY <1>3 DEF OutcomeInv, OutcomeTyped, ExecutionRecord
<1>7. update[u].method = "none" /\ UNCHANGED <<listeners, interrupted>>
  BY DEF Update, OutcomeInv, UpdateKept
<1>8. Notify(u, step, 1, now)
  BY <1>2
<1> HIDE DEF step, now
<1>9. ASSUME NEW q \in Processes \ interrupted
      PROVE  /\ now[q].status = "completed" =>
                  \/ now[q].result \/ WillNote(step, q, "complete_execution")
                  \/ \E w \in Updaters \ {u} : WillNote(update[w], q, "complete_execution")
             /\ now[q].status = "failed" =>
                  \/ now[q].error \/ WillNote(step, q, "fail_execution")
                  \/ \E w \in Updaters \ {u} : WillNote(update[w], q, "fail_execution")
  <2>1. CASE q = p
    BY <1>3, <1>5, <1>6, <2>1 DEF WillNote
  <2>2. CASE q # p
    <3>1. now[q] = record[q] /\ OutcomeKept(q)
      BY <1>6, <2>2 DEF OutcomeInv
    <3>2. /\ ~WillNote(update[u], q, "complete_execution")
          /\ ~WillNote(update[u], q, "fail_execution")
      BY <1>7 DEF WillNote
    <3> QED BY <3>1, <3>2 DEF OutcomeKept
  <2> QED BY <2>1, <2>2
<1> QED BY <1>5, <1>6, <1>7, <1>8, <1>9, NotifyKeeps

LEMMA ListenerReturnsKeeps ==
  ASSUME OutcomeInv, NEW u \in Updaters, ListenerReturns(u)
  PROVE  OutcomeInv'
<1>1. /\ update[u] \in UpdateRecords /\ update[u].pc = "listener"
      /\ update[u].process \in Processes /\ record \in [Processes -> ExecutionRecord]
      /\ update[u].at + 1 \in Nat \ {0}
      /\ Notify(u, update[u], update[u].at + 1, record)
      /\ UNCHANGED <<listeners, interrupted>>
  BY LifecycleAssumption DEF ListenerReturns, OutcomeInv, OutcomeTyped, UpdateKept, UpdateRecords
<1>2. \A p \in Processes \ interrupted :
        /\ record[p].status = "completed" =>
             \/ record[p].result \/ WillNote(update[u], p, "complete_execution")
             \/ \E w \in Updaters \ {u} : WillNote(update[w], p, "complete_execution")
        /\ record[p].status = "failed" =>
             \/ record[p].error \/ WillNote(update[u], p, "fail_execution")
             \/ \E w \in Updaters \ {u} : WillNote(update[w], p, "fail_execution")
  BY DEF OutcomeInv, OutcomeKept
<1> QED BY <1>1, <1>2, NotifyKeeps

LEMMA ListenerInterruptsKeeps ==
  ASSUME OutcomeInv, NEW u \in Updaters, ListenerInterrupts(u)
  PROVE  OutcomeInv'
<1> DEFINE gone == update[u].process
<1>1. /\ update \in [Updaters -> UpdateRecords] /\ update[u].pc = "listener"
      /\ gone \in Processes
      /\ interrupted' = interrupted \cup {gone}
      /\ update' = [update EXCEPT ![u] = NoUpdate] /\ UNCHANGED <<record, listeners>>
  BY DEF ListenerInterrupts, OutcomeInv, OutcomeTyped, UpdateKept
<1>2. NoUpdate \in UpdateRecords /\ NoUpdate.pc = "idle" /\ NoUpdate.method = "none"
  BY LifecycleAssumption DEF NoUpdate, UpdateRecords, StatusNames
<1>3. \A w \in Updaters : update'[w] = IF w = u THEN NoUpdate ELSE update[w]
  BY <1>1
<1>4. OutcomeTyped'
  BY <1>1, <1>2 DEF OutcomeInv, OutcomeTyped
<1>5. \A w \in Updaters : UpdateKept(w)'
  BY <1>2, <1>3 DEF OutcomeInv, UpdateKept
<1>6. ASSUME NEW p \in Processes, p \notin interrupted' PROVE OutcomeKept(p)'
  <2>1. p # gone /\ p \notin interrupted /\ OutcomeKept(p)
    BY <1>1, <1>6 DEF OutcomeInv
  <2>2. \A w \in Updaters : \A method :
          WillNote(update[w], p, method) => w # u /\ WillNote(update'[w], p, method)
    BY <1>3, <2>1 DEF WillNote
  <2> QED BY <1>1, <2>1, <2>2 DEF OutcomeKept
<1>7. \A p \in Processes : OutcomeKept(p)'
  BY <1>6 DEF OutcomeKept
<1> QED BY <1>4, <1>5, <1>7 DEF OutcomeInv

\* A behaviour of Services is one of the lifecycle manager and the contexts.
LEMMA LifecycleOfServices == Spec => LifecycleSpec
<1>1. Init => LifecycleInit
  BY DEF Init
<1>2. [Next]_vars => [LifecycleNext]_lifecycleVars
  BY DEF Next, OthersRest, vars
<1> QED BY <1>1, <1>2, PTL DEF Spec, LifecycleSpec

LEMMA OutcomeInductive == LifecycleSpec => []OutcomeInv
<1>1. LifecycleInit => OutcomeInv
  <2> SUFFICES ASSUME LifecycleInit PROVE OutcomeInv
    OBVIOUS
  <2>1. NoUpdate \in UpdateRecords /\ NoUpdate.pc = "idle" /\ NoUpdate.method = "none"
    BY LifecycleAssumption DEF NoUpdate, UpdateRecords, StatusNames
  <2>2. NoRecord \in ExecutionRecord /\ NoRecord.status = "none"
    BY DEF NoRecord, ExecutionRecord, StatusNames
  <2>3. listeners \in Seq(LifecycleStatuses \cup {"any"}) /\ Len(listeners) = 0
    BY DEF LifecycleInit
  <2>4. OutcomeTyped
    BY <2>1, <2>2, <2>3, LifecycleAssumption DEF LifecycleInit, OutcomeTyped
  <2> QED BY <2>1, <2>2, <2>4 DEF LifecycleInit, OutcomeInv, UpdateKept, OutcomeKept
<1>2. OutcomeInv /\ [LifecycleNext]_lifecycleVars => OutcomeInv'
  <2> SUFFICES ASSUME OutcomeInv, [LifecycleNext]_lifecycleVars PROVE OutcomeInv'
    OBVIOUS
  <2>1. CASE UNCHANGED <<record, listeners, update, interrupted>>
    BY <2>1 DEF OutcomeInv, OutcomeTyped, UpdateKept, OutcomeKept
  <2>2. ASSUME NEW p \in Processes, CreateLifecycle(p) PROVE OutcomeInv'
    <3>1. Fresh \in ExecutionRecord /\ Fresh.status = "pending"
      BY DEF Fresh, ExecutionRecord, StatusNames, LifecycleStatuses
    <3>2. /\ record' = [record EXCEPT ![p] = Fresh]
          /\ UNCHANGED <<listeners, update, interrupted>>
      BY <2>2 DEF CreateLifecycle
    <3>3. OutcomeTyped'
      BY <3>1, <3>2 DEF OutcomeInv, OutcomeTyped
    <3>4. ASSUME NEW q \in Processes PROVE OutcomeKept(q)'
      <4>1. OutcomeKept(q) /\ record'[q] = IF q = p THEN Fresh ELSE record[q]
        BY <3>2 DEF OutcomeInv, OutcomeTyped
      <4> QED BY <3>1, <3>2, <4>1 DEF OutcomeKept
    <3> QED BY <3>2, <3>3, <3>4 DEF OutcomeInv, UpdateKept
  <2>3. CASE OnStatusChange
    <3>1. PICK status \in {"any"} \cup {"completed"} : listeners' = Append(listeners, status)
      BY <2>3 DEF OnStatusChange
    <3>2. /\ Len(listeners) < MaxListeners /\ UNCHANGED <<record, update, interrupted>>
          /\ status \in LifecycleStatuses \cup {"any"}
      BY <2>3 DEF OnStatusChange, LifecycleStatuses
    <3>3. /\ listeners' \in Seq(LifecycleStatuses \cup {"any"})
          /\ Len(listeners') = Len(listeners) + 1 /\ Len(listeners) \in Nat
      BY <3>1, <3>2, AppendProperties, LenProperties DEF OutcomeInv, OutcomeTyped
    <3>4. OutcomeTyped'
      BY <3>2, <3>3, LifecycleAssumption DEF OutcomeInv, OutcomeTyped
    <3> QED BY <3>2, <3>4 DEF OutcomeInv, UpdateKept, OutcomeKept
  <2>4. ASSUME NEW t \in ContextTasks, CreateContext(t) PROVE OutcomeInv'
    BY <2>1, <2>4 DEF CreateContext
  <2>5. ASSUME NEW k \in DOMAIN contexts, SetOutput(k) \/ CleanupContext(k) PROVE OutcomeInv'
    BY <2>1, <2>5 DEF SetOutput, CleanupContext
  <2>6. CASE UNCHANGED lifecycleVars
    BY <2>1, <2>6 DEF lifecycleVars
  <2> QED BY <2>2, <2>3, <2>4, <2>5, <2>6, UpdateKeeps, ListenerReturnsKeeps,
             ListenerInterruptsKeeps DEF LifecycleNext
<1> QED BY <1>1, <1>2, PTL DEF LifecycleSpec

\* An execution that complete_execution or fail_execution has ended has its
\* result or its error, whatever updates of it overtake each other in their
\* notifications, unless a listener has interrupted one.
LEMMA OutcomeRecordedAlways == Spec => []OutcomeRecorded
<1>1. OutcomeInv => OutcomeRecorded
  BY DEF OutcomeInv, OutcomeKept, OutcomeRecorded, WillNote
<1> QED BY <1>1, OutcomeInductive, LifecycleOfServices, PTL

--------------------------------------------------------------------------------
(***************************************************************************)
(* TaskLifecycle: contexts and their directories.                          *)
(***************************************************************************)
ContextRecords == [task: ContextTasks, live: BOOLEAN, outputs: SUBSET {"key"}]

\* No other context is of the same task.
Alone(k) == \A other \in DOMAIN contexts \ {k} : contexts[other].task # contexts[k].task

ContextKept(k) ==
  Alone(k) => /\ contexts[k].live <=> k \in disk
              /\ contexts[k].live => tempDirs[contexts[k].task] = k

\* A directory is of a context, and filed under no task but that of the context.
ContextsInv ==
  /\ contexts \in Seq(ContextRecords) /\ Len(contexts) <= MaxContexts
  /\ tempDirs \in [ContextTasks -> Nat]
  /\ disk \subseteq DOMAIN contexts
  /\ \A t \in ContextTasks : tempDirs[t] # 0 =>
       tempDirs[t] \in DOMAIN contexts /\ contexts[tempDirs[t]].task = t
  /\ \A k \in DOMAIN contexts : ContextKept(k)

LEMMA CreateContextKeeps ==
  ASSUME ContextsInv, NEW t \in ContextTasks, CreateContext(t)
  PROVE  ContextsInv'
<1> DEFINE k == Len(contexts) + 1
<1>1. /\ Len(contexts) < MaxContexts
      /\ contexts' = Append(contexts, NewContext(t))
      /\ tempDirs' = [tempDirs EXCEPT ![t] = k] /\ disk' = disk \cup {k}
  BY DEF CreateContext
<1>2. NewContext(t) \in ContextRecords /\ NewContext(t).task = t /\ NewContext(t).live
  BY DEF NewContext, ContextRecords
<1>3. /\ DOMAIN contexts = 1..Len(contexts) /\ Len(contexts) \in Nat
      /\ \A j \in DOMAIN contexts : contexts[j] \in ContextRecords
  BY LenProperties, ElementOfSeq DEF ContextsInv
<1>4. /\ contexts' \in Seq(ContextRecords) /\ Len(contexts') = k
      /\ DOMAIN contexts' = DOMAIN contexts \cup {k}
      /\ \A j \in DOMAIN contexts : contexts'[j] = contexts[j]
      /\ contexts'[k] = NewContext(t)
  <2>1. /\ contexts' \in Seq(ContextRecords) /\ Len(contexts') = k
        /\ \A j \in 1..Len(contexts) : contexts'[j] = contexts[j]
        /\ contexts'[k] = NewContext(t)
    BY <1>1, <1>2, AppendProperties DEF ContextsInv
  <2>2. DOMAIN contexts' = 1..k
    BY <2>1, LenProperties
  <2> QED BY <1>3, <2>1, <2>2
<1>5. k \in Nat /\ k # 0 /\ k \notin DOMAIN contexts /\ k <= MaxContexts
  BY <1>1, <1>3, LifecycleAssumption
<1> HIDE DEF k
<1>6. \A s \in ContextTasks : tempDirs'[s] = IF s = t THEN k ELSE tempDirs[s]
  BY <1>1 DEF ContextsInv
<1>7. tempDirs' \in [ContextTasks -> Nat] /\ disk' \subseteq DOMAIN contexts'
  BY <1>1, <1>4, <1>5 DEF ContextsInv
<1>8. \A s \in ContextTasks : tempDirs'[s] # 0 =>
        tempDirs'[s] \in DOMAIN contexts' /\ contexts'[tempDirs'[s]].task = s
  BY <1>2, <1>4, <1>6 DEF ContextsInv
<1>9. ASSUME NEW j \in DOMAIN contexts' PROVE ContextKept(j)'
  <2>1. CASE j = k
    BY <1>1, <1>2, <1>4, <1>6, <2>1 DEF ContextKept
  <2>2. CASE j # k
    <3>1. j \in DOMAIN contexts /\ contexts'[j] = contexts[j]
      BY <1>4, <2>2
    <3>2. contexts[j].task \in ContextTasks
      BY <1>3, <3>1 DEF ContextRecords
    <3>3. SUFFICES ASSUME Alone(j)'
                   PROVE  /\ contexts'[j].live <=> j \in disk'
                          /\ contexts'[j].live => tempDirs'[contexts'[j].task] = j
      BY DEF ContextKept
    <3>4. Alone(j)
      BY <1>4, <3>1, <3>3 DEF Alone
    <3>5. contexts[j].task # t
      BY <1>2, <1>4, <2>2, <3>1, <3>3 DEF Alone
    <3>6. ContextKept(j)
      BY <3>1 DEF ContextsInv
    <3> QED BY <1>1, <1>6, <2>2, <3>1, <3>2, <3>4, <3>5, <3>6 DEF ContextKept
  <2> QED BY <2>1, <2>2
<1> QED BY <1>4, <1>5, <1>7, <1>8, <1>9 DEF ContextsInv

\* What set_output and cleanup_context leave of the list.
LEMMA ContextMoves ==
  ASSUME ContextsInv, NEW k \in DOMAIN contexts, NEW new \in ContextRecords,
         new.task = contexts[k].task, contexts' = [contexts EXCEPT ![k] = new]
  PROVE  /\ contexts' \in Seq(ContextRecords) /\ Len(contexts') = Len(contexts)
         /\ DOMAIN contexts' = DOMAIN contexts
         /\ \A j \in DOMAIN contexts : contexts'[j] = IF j = k THEN new ELSE contexts[j]
         /\ \A j \in DOMAIN contexts : contexts'[j].task = contexts[j].task
         /\ \A j \in DOMAIN contexts : Alone(j)' => Alone(j)
<1>1. contexts \in [1..Len(contexts) -> ContextRecords] /\ Len(contexts) \in Nat
  BY LenProperties DEF ContextsInv
<1>2. contexts' \in [1..Len(contexts) -> ContextRecords]
  BY <1>1
<1>3. contexts' \in Seq(ContextRecords)
  BY <1>1, <1>2, IsASeq
<1>4. Len(contexts') = Len(contexts) /\ DOMAIN contexts' = DOMAIN contexts
  <2>1. DOMAIN contexts' = 1..Len(contexts') /\ Len(contexts') \in Nat
    BY <1>3, LenProperties
  <2> QED BY <1>1, <1>2, <2>1
<1>5. \A j \in DOMAIN contexts : contexts'[j] = IF j = k THEN new ELSE contexts[j]
  OBVIOUS
<1> QED BY <1>3, <1>4, <1>5 DEF Alone

LEMMA SetOutputKeeps ==
  ASSUME ContextsInv, NEW k \in DOMAIN contexts, SetOutput(k)
  PROVE  ContextsInv'
<1> DEFINE new == [contexts[k] EXCEPT !.outputs = {"key"}]
<1>1. /\ contexts' = [contexts EXCEPT ![k] = new] /\ UNCHANGED <<tempDirs, disk>>
  BY DEF SetOutput
<1>2. contexts[k] \in ContextRecords
  BY LenProperties, ElementOfSeq DEF ContextsInv
<1>3. /\ new \in ContextRecords /\ new.task = contexts[k].task
      /\ new.live = contexts[k].live
  BY <1>2 DEF ContextRecords
<1> HIDE DEF new
<1>4. /\ contexts' \in Seq(ContextRecords) /\ Len(contexts') = Len(contexts)
      /\ DOMAIN contexts' = DOMAIN contexts
      /\ \A j \in DOMAIN contexts : contexts'[j] = IF j = k THEN new ELSE contexts[j]
      /\ \A j \in DOMAIN contexts : contexts'[j].task = contexts[j].task
      /\ \A j \in DOMAIN contexts : Alone(j)' => Alone(j)
  BY <1>1, <1>3, ContextMoves
<1>5. \A j \in DOMAIN contexts : ContextKept(j)'
  BY <1>1, <1>3, <1>4 DEF ContextsInv, ContextKept
<1> QED BY <1>1, <1>4, <1>5 DEF ContextsInv

LEMMA CleanupContextKeeps ==
  ASSUME ContextsInv, NEW k \in DOMAIN contexts, CleanupContext(k)
  PROVE  ContextsInv'
<1> DEFINE new == [contexts[k] EXCEPT !.live = FALSE, !.outputs = {}]
           t == contexts[k].task
<1>1. /\ contexts[k].live /\ contexts' = [contexts EXCEPT ![k] = new]
      /\ disk' = disk \ {tempDirs[t]} /\ tempDirs' = [tempDirs EXCEPT ![t] = 0]
  BY DEF CleanupContext
<1>2. contexts[k] \in ContextRecords
  BY LenProperties, ElementOfSeq DEF ContextsInv
<1>3. /\ new \in ContextRecords /\ new.task = t /\ t \in ContextTasks /\ ~new.live
  BY <1>2 DEF ContextRecords
<1> HIDE DEF new
<1>4. /\ contexts' \in Seq(ContextRecords) /\ Len(contexts') = Len(contexts)
      /\ DOMAIN contexts' = DOMAIN contexts
      /\ \A j \in DOMAIN contexts : contexts'[j] = IF j = k THEN new ELSE contexts[j]
      /\ \A j \in DOMAIN contexts : contexts'[j].task = contexts[j].task
      /\ \A j \in DOMAIN contexts : Alone(j)' => Alone(j)
  BY <1>1, <1>3, ContextMoves
<1>5. tempDirs' \in [ContextTasks -> Nat]
  BY <1>1 DEF ContextsInv
<1>6. \A s \in ContextTasks : tempDirs'[s] = IF s = t THEN 0 ELSE tempDirs[s]
  BY <1>1 DEF ContextsInv
<1>7. disk' \subseteq DOMAIN contexts'
  BY <1>1, <1>4 DEF ContextsInv
<1>8. \A s \in ContextTasks : tempDirs'[s] # 0 =>
        tempDirs'[s] \in DOMAIN contexts' /\ contexts'[tempDirs'[s]].task = s
  BY <1>4, <1>6 DEF ContextsInv
<1>9. ASSUME NEW j \in DOMAIN contexts PROVE ContextKept(j)'
  <2>1. SUFFICES ASSUME Alone(j)'
                 PROVE  /\ contexts'[j].live <=> j \in disk'
                        /\ contexts'[j].live => tempDirs'[contexts'[j].task] = j
    BY DEF ContextKept
  <2>2. Alone(j) /\ ContextKept(j)
    BY <1>4, <2>1 DEF ContextsInv
  <2>3. CASE j = k
    <3>1. tempDirs[t] = k
      BY <1>1, <2>2, <2>3 DEF ContextKept
    <3> QED BY <1>1, <1>3, <1>4, <2>3, <3>1
  <2>4. CASE j # k
    <3>1. contexts[j].task # t
      BY <2>2, <2>4 DEF Alone
    <3>2. contexts[j].task \in ContextTasks /\ j # 0
      <4>1. contexts[j] \in ContextRecords /\ j \in 1..Len(contexts)
        BY LenProperties, ElementOfSeq DEF ContextsInv
      <4> QED BY <4>1 DEF ContextRecords
    <3>3. tempDirs[t] # j
      BY <1>3, <3>1, <3>2 DEF ContextsInv
    <3> QED BY <1>1, <1>4, <1>6, <2>2, <2>4, <3>1, <3>2, <3>3 DEF ContextKept
  <2> QED BY <2>3, <2>4
<1> QED BY <1>4, <1>5, <1>7, <1>8, <1>9 DEF ContextsInv

LEMMA ContextsInductive == LifecycleSpec => []ContextsInv
<1>1. LifecycleInit => ContextsInv
  <2> SUFFICES ASSUME LifecycleInit PROVE ContextsInv
    OBVIOUS
  <2>1. contexts = <<>> /\ contexts \in Seq(ContextRecords) /\ Len(contexts) = 0
    BY DEF LifecycleInit
  <2>2. DOMAIN contexts = {}
    BY <2>1, LenProperties, SMT
  <2> QED BY <2>1, <2>2, LifecycleAssumption DEF LifecycleInit, ContextsInv
<1>2. ContextsInv /\ [LifecycleNext]_lifecycleVars => ContextsInv'
  <2> SUFFICES ASSUME ContextsInv, [LifecycleNext]_lifecycleVars PROVE ContextsInv'
    OBVIOUS
  <2>1. CASE UNCHANGED <<contexts, tempDirs, disk>>
    BY <2>1 DEF ContextsInv, ContextKept, Alone
  <2>2. ASSUME NEW p \in Processes, CreateLifecycle(p) PROVE ContextsInv'
    BY <2>1, <2>2 DEF CreateLifecycle, Untouched
  <2>3. ASSUME NEW p \in Processes, NEW u \in Updaters, Update(u, p) PROVE ContextsInv'
    BY <2>1, <2>3 DEF Update, Untouched
  <2>4. CASE OnStatusChange
    BY <2>1, <2>4 DEF OnStatusChange, Untouched
  <2>5. ASSUME NEW u \in Updaters, ListenerReturns(u) \/ ListenerInterrupts(u)
        PROVE  ContextsInv'
    BY <2>1, <2>5 DEF ListenerReturns, ListenerInterrupts, Untouched
  <2>6. CASE UNCHANGED lifecycleVars
    BY <2>1, <2>6 DEF lifecycleVars
  <2> QED BY <2>2, <2>3, <2>4, <2>5, <2>6, CreateContextKeeps, SetOutputKeeps,
             CleanupContextKeeps DEF LifecycleNext
<1> QED BY <1>1, <1>2, PTL DEF LifecycleSpec

\* The directory of a context lives as long as the context, and is the one its
\* paths are in, as long as create_context has made no other for the same task.
LEMMA DirectoriesOfContextsAlways == Spec => []DirectoriesOfContexts
<1>1. ContextsInv => DirectoriesOfContexts
  BY DEF ContextsInv, ContextKept, Alone, DirectoriesOfContexts, TempFilePath
<1> QED BY <1>1, ContextsInductive, LifecycleOfServices, PTL

\* The executions, their listeners and the contexts have the types of the module:
\* the parts of the two invariants together.
LEMMA LifecycleTypeCorrect == LifecycleSpec => []LifecycleTypeOK
<1>1. OutcomeInv /\ ContextsInv => LifecycleTypeOK
  <2> SUFFICES ASSUME OutcomeInv, ContextsInv PROVE LifecycleTypeOK
    OBVIOUS
  <2>1. DOMAIN contexts \subseteq Contexts
    <3>1. DOMAIN contexts = 1..Len(contexts) /\ Len(contexts) \in Nat
      BY LenProperties DEF ContextsInv
    <3> QED BY <3>1, LifecycleAssumption DEF ContextsInv, Contexts
  <2>2. tempDirs \in [ContextTasks -> Contexts \cup {0}] /\ disk \subseteq Contexts
    BY <2>1 DEF ContextsInv
  <2> QED BY <2>2 DEF OutcomeInv, OutcomeTyped, ContextsInv, LifecycleTypeOK,
             ExecutionRecord, UpdateRecords, StatusNames, ContextRecords
<1> QED BY <1>1, OutcomeInductive, ContextsInductive, PTL

--------------------------------------------------------------------------------
(***************************************************************************)
(* DAGExecution: what stays running in the shared DAG.                     *)
(***************************************************************************)
DAGExecutionSpec == DAGExecutionInit /\ [][DAGExecutionNext]_dagExecutionVars

ExecRecords ==
  [pc: {"none", "active", "returned", "raised"}, level: 0..Len(Levels),
   goesOn: BOOLEAN, status: {"none", "running", "cancelled"},
   results: SUBSET DagTasks]

\* The tasks of the levels in front of level l.
TasksBefore(l) == UNION {ToSet(Levels[k]) : k \in 1..l - 1}

\* A call that does not go on after an error has the results of all levels it
\* has passed.
CallKept(c) ==
  /\ exec[c].pc = "active" => exec[c].level \in 1..Len(Levels)
  /\ exec[c].pc = "active" /\ ~exec[c].goesOn => exec[c].results = TasksBefore(exec[c].level)
  /\ exec[c].pc = "returned" /\ ~exec[c].goesOn => exec[c].results = DagTasks

\* A call accounts for a task that says it is running: it has the task in its
\* level, or it raised in front of it.
AccountsFor(c, t) ==
  \/ exec[c].pc = "active" /\ t \in LevelTasks(c)
  \/ exec[c].pc = "raised" /\ Behind(t, failedAt[c])

DAGExecutionInv ==
  /\ exec \in [Calls -> ExecRecords]
  /\ dag \in [DagTasks -> TaskStatuses]
  /\ failedAt \in [Calls -> DagTasks \cup {"none"}]
  /\ \A c \in Calls : CallKept(c)
  /\ \A t \in DagTasks : dag[t] = "running" => \E c \in Calls : AccountsFor(c, t)

\* The levels of a plan.
LEMMA LevelTypes ==
  /\ Len(Levels) \in Nat \ {0} /\ DOMAIN Levels = 1..Len(Levels)
  /\ \A l \in 1..Len(Levels) :
       /\ Levels[l] \in Seq(DagTasks) /\ Len(Levels[l]) \in Nat
       /\ DOMAIN Levels[l] = 1..Len(Levels[l])
       /\ ToSet(Levels[l]) = {Levels[l][i] : i \in 1..Len(Levels[l])}
       /\ ToSet(Levels[l]) \subseteq DagTasks
<1>1. Len(Levels) \in Nat /\ DOMAIN Levels = 1..Len(Levels)
  BY LevelsAssumption, LenProperties
<1>2. Len(Levels) # 0
  BY LevelsAssumption, EmptySeq
<1>3. ASSUME NEW l \in 1..Len(Levels)
      PROVE  /\ Levels[l] \in Seq(DagTasks) /\ Len(Levels[l]) \in Nat
             /\ DOMAIN Levels[l] = 1..Len(Levels[l])
             /\ ToSet(Levels[l]) = {Levels[l][i] : i \in 1..Len(Levels[l])}
             /\ ToSet(Levels[l]) \subseteq DagTasks
  <2>1. Levels[l] \in Seq(DagTasks)
    BY LevelsAssumption, ElementOfSeq
  <2> QED BY <2>1, ToSetOfSeq, LenProperties
<1> QED BY <1>1, <1>2, <1>3

\* The tasks in front of the next level, and those of all levels.
LEMMA TasksOfLevels ==
  /\ TasksBefore(1) = {}
  /\ \A l \in 1..Len(Levels) :
       TasksBefore(l + 1) = TasksBefore(l) \cup ToSet(Levels[l])
  /\ TasksBefore(Len(Levels) + 1) = DagTasks
<1>1. TasksBefore(1) = {}
  BY DEF TasksBefore
<1>2. ASSUME NEW l \in 1..Len(Levels)
      PROVE  TasksBefore(l + 1) = TasksBefore(l) \cup ToSet(Levels[l])
  <2>1. 1..(l + 1) - 1 = (1..l - 1) \cup {l}
    BY LevelTypes
  <2> QED BY <2>1 DEF TasksBefore
<1>3. TasksBefore(Len(Levels) + 1) = DagTasks
  <2>1. 1..(Len(Levels) + 1) - 1 = DOMAIN Levels
    BY LevelTypes
  <2> QED BY <2>1 DEF TasksBefore, DagTasks
<1> QED BY <1>1, <1>2, <1>3

\* A step of one call that keeps what is known of it, and the account of the
\* running tasks, keeps the invariant.
LEMMA CoroutineMoves ==
  ASSUME DAGExecutionInv, NEW c \in Calls, NEW new \in ExecRecords,
         exec' = [exec EXCEPT ![c] = new],
         dag' \in [DagTasks -> TaskStatuses],
         failedAt' \in [Calls -> DagTasks \cup {"none"}],
         \A b \in Calls : b # c => failedAt'[b] = failedAt[b],
         CallKept(c)',
         \A t \in DagTasks : dag'[t] = "running" =>
           \/ AccountsFor(c, t)'
           \/ dag[t] = "running" /\ ~AccountsFor(c, t)
  PROVE  DAGExecutionInv'
<1>1. /\ exec' \in [Calls -> ExecRecords]
      /\ \A b \in Calls : exec'[b] = IF b = c THEN new ELSE exec[b]
  BY DEF DAGExecutionInv
<1>2. \A b \in Calls : CallKept(b)'
  BY <1>1 DEF DAGExecutionInv, CallKept
<1>3. ASSUME NEW t \in DagTasks, dag'[t] = "running"
      PROVE  \E b \in Calls : AccountsFor(b, t)'
  <2>1. CASE AccountsFor(c, t)'
    BY <2>1
  <2>2. CASE dag[t] = "running" /\ ~AccountsFor(c, t)
    <3>1. PICK b \in Calls : AccountsFor(b, t)
      BY <2>2 DEF DAGExecutionInv
    <3>2. b # c
      BY <2>2, <3>1
    <3>3. AccountsFor(b, t)'
      BY <1>1, <3>1, <3>2 DEF AccountsFor, LevelTasks, LevelOf
    <3> QED BY <3>3
  <2> QED BY <1>3, <2>1, <2>2
<1> QED BY <1>1, <1>2, <1>3 DEF DAGExecutionInv

\* What the results of a level make of the statuses.
LEMMA SettledStatuses ==
  ASSUME DAGExecutionInv, NEW c \in Calls, exec[c].pc = "active",
         NEW last \in 0..Len(LevelOf(c))
  PROVE  /\ Settled(c, last) \in [DagTasks -> TaskStatuses]
         /\ \A t \in DagTasks : Settled(c, last)[t] = "running" =>
              dag[t] = "running" /\ \A i \in 1..last : LevelOf(c)[i] # t
BY DEF Settled, TaskStatuses, DAGExecutionInv

LEMMA ExecuteDagKeeps ==
  ASSUME DAGExecutionInv, NEW c \in Calls, ExecuteDag(c)
  PROVE  DAGExecutionInv'
<1>1. PICK goesOn \in BOOLEAN :
        exec' = [exec EXCEPT ![c] = [pc |-> "active", level |-> 1, goesOn |-> goesOn,
                                     status |-> "running", results |-> {}]]
  BY DEF ExecuteDag
<1> DEFINE new == [pc |-> "active", level |-> 1, goesOn |-> goesOn,
                   status |-> "running", results |-> {}]
<1>2. /\ exec' = [exec EXCEPT ![c] = new] /\ dag' = Running(dag, 1)
      /\ UNCHANGED failedAt /\ exec[c].pc = "none"
  BY <1>1 DEF ExecuteDag
<1>3. /\ new \in ExecRecords /\ new.pc = "active" /\ new.level = 1 /\ new.results = {}
  <2>1. 1 \in 0..Len(Levels) /\ {} \in SUBSET DagTasks
    BY LevelTypes
  <2> QED BY <2>1 DEF ExecRecords
<1> HIDE DEF new
<1>4. exec'[c] = new
  BY <1>2 DEF DAGExecutionInv
<1>5. CallKept(c)'
  <2>1. exec'[c].level = 1 /\ exec'[c].level \in 1..Len(Levels)
    BY <1>3, <1>4, LevelTypes
  <2>2. TasksBefore(exec'[c].level) = {}
    BY <2>1, TasksOfLevels
  <2> QED BY <1>3, <1>4, <2>1, <2>2 DEF CallKept
<1>6. dag' \in [DagTasks -> TaskStatuses]
  BY <1>2 DEF Running, TaskStatuses, DAGExecutionInv
<1>7. ASSUME NEW t \in DagTasks, dag'[t] = "running"
      PROVE  AccountsFor(c, t)' \/ (dag[t] = "running" /\ ~AccountsFor(c, t))
  <2>1. CASE t \in ToSet(Levels[1])
    BY <1>3, <1>4, <2>1 DEF AccountsFor, LevelTasks, LevelOf
  <2>2. CASE t \notin ToSet(Levels[1])
    BY <1>2, <1>7, <2>2 DEF Running, AccountsFor
  <2> QED BY <2>1, <2>2
<1> QED BY <1>2, <1>3, <1>5, <1>6, <1>7, CoroutineMoves DEF DAGExecutionInv

LEMMA LevelFailsKeeps ==
  ASSUME DAGExecutionInv, NEW c \in Calls, LevelFails(c)
  PROVE  DAGExecutionInv'
<1>1. PICK first \in Failures(c) :
        /\ dag' = Settled(c, first)
        /\ failedAt' = [failedAt EXCEPT ![c] = LevelOf(c)[first]]
  BY DEF LevelFails
<1> DEFINE new == [exec[c] EXCEPT !.pc = "raised"]
           l == exec[c].level
<1>2. exec' = [exec EXCEPT ![c] = new] /\ exec[c].pc = "active"
  BY DEF LevelFails, LevelEnded
<1>3. /\ new \in ExecRecords /\ new.pc = "raised" /\ exec'[c] = new
      /\ l \in 1..Len(Levels) /\ CallKept(c)
  BY <1>2 DEF DAGExecutionInv, ExecRecords, CallKept
<1>4. /\ LevelOf(c) = Levels[l] /\ Levels[l] \in Seq(DagTasks)
      /\ DOMAIN Levels[l] = 1..Len(Levels[l]) /\ Len(Levels[l]) \in Nat
      /\ l \in DOMAIN Levels
      /\ ToSet(Levels[l]) = {Levels[l][i] : i \in 1..Len(Levels[l])}
      /\ ToSet(Levels[l]) \subseteq DagTasks
  BY <1>3, LevelTypes DEF LevelOf
<1>5. first \in 1..Len(Levels[l])
  BY <1>4 DEF Failures
<1>6. Levels[l][first] \in DagTasks
  BY <1>4, <1>5
<1> HIDE DEF new
<1>7. /\ failedAt' \in [Calls -> DagTasks \cup {"none"}]
      /\ \A b \in Calls : b # c => failedAt'[b] = failedAt[b]
      /\ failedAt'[c] = Levels[l][first]
  BY <1>1, <1>4, <1>6 DEF DAGExecutionInv
<1>8. /\ dag' \in [DagTasks -> TaskStatuses]
      /\ \A t \in DagTasks : dag'[t] = "running" =>
           dag[t] = "running" /\ \A i \in 1..first : LevelOf(c)[i] # t
  <2>1. first \in 0..Len(LevelOf(c))
    BY <1>4, <1>5
  <2> QED BY <1>1, <1>2, <2>1, SettledStatuses
<1>9. ASSUME NEW t \in DagTasks, dag'[t] = "running"
      PROVE  AccountsFor(c, t)' \/ (dag[t] = "running" /\ ~AccountsFor(c, t))
  <2>1. CASE t \in LevelTasks(c)
    <3>1. PICK i \in 1..Len(Levels[l]) : Levels[l][i] = t
      BY <1>4, <2>1 DEF LevelTasks
    <3>2. i > first
      BY <1>4, <1>5, <1>8, <1>9, <3>1
    <3>3. Behind(t, Levels[l][first])
      BY <1>4, <1>5, <3>1, <3>2 DEF Behind
    <3> QED BY <1>3, <1>7, <3>3 DEF AccountsFor
  <2>2. CASE t \notin LevelTasks(c)
    BY <1>2, <1>8, <1>9, <2>2 DEF AccountsFor
  <2> QED BY <2>1, <2>2
<1>10. CallKept(c)'
  BY <1>3 DEF CallKept
<1> QED BY <1>2, <1>3, <1>7, <1>8, <1>9, <1>10, CoroutineMoves

LEMMA LevelSucceedsKeeps ==
  ASSUME DAGExecutionInv, NEW c \in Calls, LevelSucceeds(c)
  PROVE  DAGExecutionInv'
<1> DEFINE l == exec[c].level
           last == l = Len(Levels)
           settled == Settled(c, Len(LevelOf(c)))
           answers == InState(c, "answered") \cap LevelTasks(c)
           new == [exec[c] EXCEPT !.results = @ \cup answers,
                                  !.pc = IF last THEN "returned" ELSE @,
                                  !.level = IF last THEN @ ELSE l + 1]
<1>1. /\ exec[c].pc = "active" /\ Failures(c) = {} /\ UNCHANGED failedAt
      /\ \A t \in LevelTasks(c) : coroutine[c][t] \in {"answered", "raised"}
      /\ exec' = [exec EXCEPT ![c].results = @ \cup answers,
                              ![c].pc = IF last THEN "returned" ELSE @,
                              ![c].level = IF last THEN @ ELSE l + 1]
      /\ dag' = IF last THEN settled ELSE Running(settled, l + 1)
  BY DEF LevelSucceeds, LevelEnded
<1>2. /\ exec \in [Calls -> ExecRecords] /\ exec[c] \in ExecRecords /\ CallKept(c)
      /\ l \in 1..Len(Levels)
  BY <1>1 DEF DAGExecutionInv, CallKept
<1>3. exec' = [exec EXCEPT ![c] = new]
  BY <1>1, <1>2
<1>4. /\ LevelOf(c) = Levels[l] /\ LevelTasks(c) = ToSet(Levels[l])
      /\ DOMAIN Levels[l] = 1..Len(Levels[l]) /\ Len(Levels[l]) \in Nat
      /\ ToSet(Levels[l]) = {Levels[l][i] : i \in 1..Len(Levels[l])}
      /\ ToSet(Levels[l]) \subseteq DagTasks
  BY <1>2, LevelTypes DEF LevelOf, LevelTasks
<1>5. ~exec[c].goesOn => answers = LevelTasks(c)
  <2> SUFFICES ASSUME ~exec[c].goesOn, NEW t \in LevelTasks(c) PROVE t \in answers
    OBVIOUS
  <2>1. PICK i \in DOMAIN LevelOf(c) : LevelOf(c)[i] = t
    BY <1>4
  <2>2. coroutine[c][t] # "raised"
    BY <1>1, <2>1 DEF Failures
  <2> QED BY <1>1, <1>4, <2>2 DEF InState
<1>6. answers \subseteq DagTasks
  BY <1>4
<1> HIDE DEF answers
<1>7. /\ new \in ExecRecords
      /\ new.results = exec[c].results \cup answers
      /\ new.pc = IF last THEN "returned" ELSE "active"
      /\ new.level = IF last THEN l ELSE l + 1
      /\ new.goesOn = exec[c].goesOn
  <2>1. /\ (IF last THEN "returned" ELSE exec[c].pc) \in {"none", "active", "returned", "raised"}
        /\ (IF last THEN l ELSE l + 1) \in 0..Len(Levels)
        /\ exec[c].results \cup answers \in SUBSET DagTasks
    BY <1>1, <1>2, <1>6, LevelTypes DEF ExecRecords
  <2> DEFINE pc2 == IF last THEN "returned" ELSE exec[c].pc
             level2 == IF last THEN l ELSE l + 1
             results2 == exec[c].results \cup answers
  <2>2. new = [exec[c] EXCEPT !.results = results2, !.pc = pc2, !.level = level2]
    OBVIOUS
  <2>3. pc2 = IF last THEN "returned" ELSE "active"
    BY <1>1
  <2> HIDE DEF pc2, level2, results2, new
  <2>4. /\ new \in ExecRecords /\ new.results = results2 /\ new.pc = pc2
        /\ new.level = level2 /\ new.goesOn = exec[c].goesOn
    BY <1>2, <2>1, <2>2 DEF ExecRecords, pc2, level2, results2
  <2> QED BY <2>3, <2>4 DEF level2, results2
<1> HIDE DEF new
<1>8. exec'[c] = new
  BY <1>2, <1>3
<1>9. CallKept(c)'
  <2>1. ~new.goesOn => new.results = TasksBefore(l + 1)
    BY <1>1, <1>2, <1>4, <1>5, <1>7, TasksOfLevels DEF CallKept
  <2>2. CASE last
    BY <1>7, <1>8, <2>1, <2>2, TasksOfLevels DEF CallKept
  <2>3. CASE ~last
    <3>1. l + 1 \in 1..Len(Levels)
      BY <1>2, <2>3, LevelTypes
    <3> QED BY <1>7, <1>8, <2>1, <2>3, <3>1 DEF CallKept
  <2> QED BY <2>2, <2>3
<1>10. /\ settled \in [DagTasks -> TaskStatuses]
       /\ \A t \in DagTasks : settled[t] = "running" => dag[t] = "running" /\ t \notin LevelTasks(c)
  <2>1. Len(LevelOf(c)) \in 0..Len(LevelOf(c))
    BY <1>4
  <2> QED BY <1>1, <1>4, <2>1, SettledStatuses
<1> HIDE DEF settled
<1>11. dag' \in [DagTasks -> TaskStatuses]
  BY <1>1, <1>10 DEF Running, TaskStatuses
<1>12. ASSUME NEW t \in DagTasks, dag'[t] = "running"
       PROVE  AccountsFor(c, t)' \/ (dag[t] = "running" /\ ~AccountsFor(c, t))
  <2>1. CASE ~last /\ t \in ToSet(Levels[l + 1])
    BY <1>7, <1>8, <2>1 DEF AccountsFor, LevelTasks, LevelOf
  <2>2. CASE last \/ t \notin ToSet(Levels[l + 1])
    <3>1. settled[t] = "running"
      BY <1>1, <1>12, <2>2 DEF Running
    <3> QED BY <1>1, <1>10, <3>1 DEF AccountsFor
  <2> QED BY <2>1, <2>2
<1> QED BY <1>1, <1>3, <1>7, <1>9, <1>11, <1>12, CoroutineMoves DEF DAGExecutionInv

LEMMA CancelKeeps ==
  ASSUME DAGExecutionInv, NEW c \in Calls, CancelDagExecution(c)
  PROVE  DAGExecutionInv'
<1> DEFINE new == [exec[c] EXCEPT !.status = "cancelled"]
<1>1. exec' = [exec EXCEPT ![c] = new] /\ UNCHANGED <<dag, failedAt>>
  BY DEF CancelDagExecution
<1>2. /\ exec \in [Calls -> ExecRecords] /\ exec[c] \in ExecRecords /\ CallKept(c)
  BY DEF DAGExecutionInv
<1>3. /\ new \in ExecRecords /\ new.pc = exec[c].pc /\ new.level = exec[c].level
      /\ new.goesOn = exec[c].goesOn /\ new.results = exec[c].results
  BY <1>2 DEF ExecRecords
<1> HIDE DEF new
<1>4. exec'[c] = new
  BY <1>1, <1>2
<1>5. CallKept(c)'
  BY <1>2, <1>3, <1>4 DEF CallKept
<1>6. \A t \in DagTasks : AccountsFor(c, t)' <=> AccountsFor(c, t)
  BY <1>1, <1>3, <1>4 DEF AccountsFor, LevelTasks, LevelOf
<1> QED BY <1>1, <1>3, <1>5, <1>6, CoroutineMoves DEF DAGExecutionInv

\* A behaviour of Services is one of execute_dag.
LEMMA DAGExecutionOfServices == Spec => DAGExecutionSpec
<1>1. Init => DAGExecutionInit
  BY DEF Init
<1>2. [Next]_vars => [DAGExecutionNext]_dagExecutionVars
  BY DEF Next, OthersRest, vars
<1> QED BY <1>1, <1>2, PTL DEF Spec, DAGExecutionSpec

LEMMA DAGExecutionInductive == DAGExecutionSpec => []DAGExecutionInv
<1>1. DAGExecutionInit => DAGExecutionInv
  <2> SUFFICES ASSUME DAGExecutionInit PROVE DAGExecutionInv
    OBVIOUS
  <2> DEFINE new == [pc |-> "none", level |-> 0, goesOn |-> FALSE,
                     status |-> "none", results |-> {}]
  <2>1. new \in ExecRecords /\ new.pc = "none"
    <3>1. 0 \in 0..Len(Levels) /\ {} \in SUBSET DagTasks
      BY LevelTypes
    <3> QED BY <3>1 DEF ExecRecords
  <2>2. exec = [c \in Calls |-> new]
    BY DEF DAGExecutionInit
  <2> HIDE DEF new
  <2> QED BY <2>1, <2>2 DEF DAGExecutionInit, DAGExecutionInv, CallKept, TaskStatuses
<1>2. DAGExecutionInv /\ [DAGExecutionNext]_dagExecutionVars => DAGExecutionInv'
  <2> SUFFICES ASSUME DAGExecutionInv, [DAGExecutionNext]_dagExecutionVars
               PROVE  DAGExecutionInv'
    OBVIOUS
  <2>1. CASE UNCHANGED <<dag, exec, failedAt>>
    BY <2>1 DEF DAGExecutionInv, CallKept, AccountsFor, LevelTasks, LevelOf
  <2>2. ASSUME NEW c \in Calls, EnterSemaphore(c) PROVE DAGExecutionInv'
    BY <2>1, <2>2 DEF EnterSemaphore
  <2>3. ASSUME NEW c \in Calls, NEW t \in DagTasks, TaskEnds(c, t) PROVE DAGExecutionInv'
    BY <2>1, <2>3 DEF TaskEnds
  <2>4. CASE UNCHANGED dagExecutionVars
    BY <2>1, <2>4 DEF dagExecutionVars
  <2> QED BY <2>2, <2>3, <2>4, ExecuteDagKeeps, LevelFailsKeeps, LevelSucceedsKeeps,
             CancelKeeps DEF DAGExecutionNext
<1> QED BY <1>1, <1>2, PTL DEF DAGExecutionSpec

\* A task that still says it is running after all calls of execute_dag are over
\* stands behind the task whose exception ended one, and a call that returned
\* without going on after errors has all results.
LEMMA RunningBehindFailureAlways == Spec => []RunningBehindFailure
<1>1. DAGExecutionInv => RunningBehindFailure
  BY DEF DAGExecutionInv, CallKept, AccountsFor, RunningBehindFailure
<1> QED BY <1>1, DAGExecutionInductive, DAGExecutionOfServices, PTL

\* What the types of execute_dag say beyond DAGExecutionInv: of the tasks of a call.
CoroutinePlaces == {"none", "waiting", "running", "answered", "raised"}
CoroutinesTyped == coroutine \in [Calls -> [DagTasks -> CoroutinePlaces]]

\* Every step of a call keeps them.
LEMMA DAGExecutionTypeKept ==
  ASSUME CoroutinesTyped, [DAGExecutionNext]_dagExecutionVars
  PROVE  CoroutinesTyped'
<1>1. ASSUME NEW c \in Calls, NEW level \in [DagTasks -> CoroutinePlaces],
             coroutine' = [coroutine EXCEPT ![c] = level]
      PROVE  CoroutinesTyped'
  BY <1>1 DEF CoroutinesTyped
<1>2. ASSUME NEW c \in Calls, NEW t, NEW place \in CoroutinePlaces,
             coroutine' = [coroutine EXCEPT ![c][t] = place]
      PROVE  CoroutinesTyped'
  BY <1>2 DEF CoroutinesTyped
<1>3. /\ [t \in DagTasks |-> "none"] \in [DagTasks -> CoroutinePlaces]
      /\ \A l : Gathered(l) \in [DagTasks -> CoroutinePlaces]
  BY DEF Gathered, CoroutinePlaces
<1>4. CASE UNCHANGED coroutine
  BY <1>4 DEF CoroutinesTyped
<1>5. ASSUME NEW c \in Calls, ExecuteDag(c) PROVE CoroutinesTyped'
  BY <1>1, <1>3, <1>5 DEF ExecuteDag
<1>6. ASSUME NEW c \in Calls, EnterSemaphore(c) PROVE CoroutinesTyped'
  BY <1>2, <1>6 DEF EnterSemaphore, CoroutinePlaces
<1>7. ASSUME NEW c \in Calls, CancelDagExecution(c) PROVE CoroutinesTyped'
  BY <1>4, <1>7 DEF CancelDagExecution
<1>8. ASSUME NEW c \in Calls, NEW t \in DagTasks, TaskEnds(c, t) PROVE CoroutinesTyped'
  BY <1>2, <1>8 DEF TaskEnds, CoroutinePlaces
<1>9. ASSUME NEW c \in Calls, LevelFails(c) PROVE CoroutinesTyped'
  BY <1>1, <1>3, <1>9 DEF LevelFails
<1>10. ASSUME NEW c \in Calls, LevelSucceeds(c) PROVE CoroutinesTyped'
  <2> DEFINE new == IF exec[c].level = Len(Levels) THEN [t \in DagTasks |-> "none"]
                    ELSE Gathered(exec[c].level + 1)
  <2>1. coroutine' = [coroutine EXCEPT ![c] = new]
    BY <1>10 DEF LevelSucceeds
  <2>2. new \in [DagTasks -> CoroutinePlaces]
    BY <1>3
  <2> HIDE DEF new
  <2> QED BY <1>1, <2>1, <2>2
<1>11. CASE UNCHANGED dagExecutionVars
  BY <1>4, <1>11 DEF dagExecutionVars
<1> QED BY <1>5, <1>6, <1>7, <1>8, <1>9, <1>10, <1>11 DEF DAGExecutionNext

\* The calls of execute_dag and the DAG they share have the types of the module.
LEMMA DAGExecutionTypeCorrect == DAGExecutionSpec => []DAGExecutionTypeOK
<1>1. DAGExecutionInit => CoroutinesTyped
  BY DEF DAGExecutionInit, CoroutinesTyped, CoroutinePlaces
<1>2. CoroutinesTyped /\ [DAGExecutionNext]_dagExecutionVars => CoroutinesTyped'
  BY DAGExecutionTypeKept
<1>3. DAGExecutionInv /\ CoroutinesTyped => DAGExecutionTypeOK
  BY DEF DAGExecutionInv, CoroutinesTyped, CoroutinePlaces, DAGExecutionTypeOK, ExecRecords
<1> QED BY <1>1, <1>2, <1>3, DAGExecutionInductive, PTL DEF DAGExecutionSpec

--------------------------------------------------------------------------------
(***************************************************************************)
(* RateLimitMiddleware: what passes in a window.                          *)
(***************************************************************************)
LimitsSpec == LimitsInit /\ [][LimitsNext]_limitVars

Times == 1..LastTime
ArrivalPlaces == {"waiting", "stamped", "counted", "admitted", "refused"}
ArrivalRecords == [pc: ArrivalPlaces, key: Nat, now: Nat]

Window(P, w) == {p \in P : w - Period < p /\ p <= w}
Windowed(P, n) == \A w \in Times : Cardinality(Window(P, w)) <= n

\* In memory and in the sliding window: what passed is in the log, or so long ago
\* that a later entry has taken it out.
Logged(P, L) == \A p \in P : p \in L \/ \E e \in L : e >= p + Period

LogKept(k) == Logged(passed[k], log[k]) /\ Windowed(passed[k], MaxRequests)

\* In the fixed window: a count began at a time, and the count before it ended.
\* What passed since is counted, with the request whose expiry is not set yet.
PassedBefore(P, begin) == {p \in P : begin - Period < p /\ p < begin}
PassedSince(P, begin) == {p \in P : p >= begin}
Uncertain(k) == {r \in Arrivals : arrival[r].pc = "counted" /\ arrival[r].key = k}
Passing(k) == IF Uncertain(k) # {} THEN 1 ELSE 0

CountKept(k, begin) ==
  /\ begin <= time /\ \A p \in passed[k] : p < time
  /\ expiry[k] # 0 => expiry[k] >= begin + Period
  /\ counter[k] = 0 => expiry[k] = 0
  /\ \A r \in Uncertain(k) : /\ begin <= arrival[r].now /\ arrival[r].now < time
                             /\ counter[k] # 0 /\ expiry[k] = 0
                             /\ Uncertain(k) = {r}
  /\ Cardinality(PassedBefore(passed[k], begin)) <= MaxRequests
  /\ Cardinality(PassedSince(passed[k], begin)) <= MaxRequests
  /\ Cardinality(PassedSince(passed[k], begin)) + Passing(k) <= counter[k]
  /\ MaxRequests # 0 => Cardinality(PassedSince(passed[k], begin)) + Passing(k) <= MaxRequests
  /\ Windowed(passed[k], 2 * MaxRequests)

LimitsTyped ==
  /\ strategy \in Strategies /\ time \in Times
  /\ arrival \in [Arrivals -> ArrivalRecords]
  /\ log \in [Keys -> SUBSET Times] /\ passed \in [Keys -> SUBSET Times]
  /\ counter \in [Keys -> Nat] /\ expiry \in [Keys -> Nat]

RequestFits(r) ==
  /\ arrival[r].pc = "stamped" => strategy = "sliding-window"
  /\ arrival[r].pc = "counted" => strategy = "fixed-window"
  /\ arrival[r].pc \in {"stamped", "counted"} => arrival[r].now \in Times

KeyKept(k) ==
  /\ strategy \in {"memory", "sliding-window"} => LogKept(k)
  /\ strategy \notin {"memory", "sliding-window"} => log[k] = {}
  /\ strategy = "fixed-window" => \E begin \in Nat : CountKept(k, begin)

LimitInv ==
  /\ LimitsTyped
  /\ \A r \in Arrivals : RequestFits(r)
  /\ \A k \in Keys : KeyKept(k)

\* Sets of times are finite, and so are their windows.
LEMMA SomeTimes ==
  ASSUME NEW P, P \subseteq Times
  PROVE  /\ IsFiniteSet(P) /\ Cardinality(P) \in Nat
         /\ \A p \in P : p \in Nat /\ p # 0
         /\ \A w : Window(P, w) \subseteq P
         /\ \A b : PassedBefore(P, b) \subseteq P /\ PassedSince(P, b) \subseteq P
<1>1. IsFiniteSet(Times) /\ \A p \in Times : p \in Nat /\ p # 0
  BY FS_Interval, LimitsAssumption DEF Times
<1> QED BY <1>1, FS_Subset, FS_CardinalityType DEF Window, PassedBefore, PassedSince

\* Part of a set of times, and a set with one time more.
LEMMA FewerTimes ==
  ASSUME NEW P, P \subseteq Times, NEW Q, Q \subseteq P
  PROVE  Cardinality(Q) <= Cardinality(P) /\ Cardinality(Q) \in Nat
BY SomeTimes, FS_Subset, FS_CardinalityType

LEMMA OneTimeMore ==
  ASSUME NEW P, P \subseteq Times, NEW t \in Times
  PROVE  /\ P \cup {t} \subseteq Times
         /\ Cardinality(P \cup {t}) <= Cardinality(P) + 1
         /\ t \notin P => Cardinality(P \cup {t}) = Cardinality(P) + 1
<1>1. IsFiniteSet(P) /\ Cardinality(P) \in Nat
  BY SomeTimes
<1>2. Cardinality(P \cup {t}) = IF t \in P THEN Cardinality(P) ELSE Cardinality(P) + 1
  BY <1>1, FS_AddElement
<1>3. P \cup {t} \subseteq Times
  OBVIOUS
<1> QED BY <1>1, <1>2, <1>3

\* An entry that is counted takes only what is out of its window from the log;
\* and what passes with no later entry there passes within the limit.
LEMMA LogCounts ==
  ASSUME NEW P, NEW L, P \subseteq Times, L \subseteq Times, Logged(P, L),
         NEW now \in Times, NEW W, W = {e \in L : e > now - Period} \cup {now},
         NEW n \in Nat, Windowed(P, n)
  PROVE  /\ W \subseteq Times
         /\ Logged(P, W)
         /\ (\A e \in L : ~(e > now)) /\ Cardinality(W) <= n
              => Logged(P \cup {now}, W) /\ Windowed(P \cup {now}, n)
<1>1. /\ Period \in Nat \ {0} /\ now \in Int
      /\ \A p \in P : p \in Int
      /\ \A e \in L : e \in Int
  BY SomeTimes, LimitsAssumption DEF Times
<1>2. W \subseteq Times
  OBVIOUS
<1>3. \A e \in W : e \in Int
  BY <1>1
<1>4. ASSUME NEW p \in P PROVE p \in W \/ \E e \in W : e >= p + Period
  <2>1. CASE p \in L
    <3>1. CASE p > now - Period
      BY <2>1, <3>1
    <3>2. CASE ~(p > now - Period)
      BY <1>1, <3>2
    <3> QED BY <3>1, <3>2
  <2>2. CASE p \notin L
    <3>1. PICK e \in L : e >= p + Period
      BY <2>2 DEF Logged
    <3>2. CASE e > now - Period
      BY <3>1, <3>2
    <3>3. CASE ~(e > now - Period)
      BY <1>1, <3>1, <3>3
    <3> QED BY <3>2, <3>3
  <2> QED BY <2>1, <2>2
<1>5. ASSUME \A e \in L : ~(e > now), Cardinality(W) <= n, NEW w \in Times
      PROVE  Cardinality(Window(P \cup {now}, w)) <= n
  <2>1. w \in Int
    BY SomeTimes DEF Times
  <2>2. CASE w >= now
    <3>1. ASSUME NEW p \in P, w - Period < p, p <= w PROVE p \in W
      <4>1. CASE p \in L
        BY <1>1, <1>5, <2>1, <2>2, <3>1, <4>1
      <4>2. CASE p \notin L
        <5>1. PICK e \in L : e >= p + Period
          BY <4>2 DEF Logged
        <5> QED BY <1>1, <1>5, <2>1, <2>2, <3>1, <5>1
      <4> QED BY <4>1, <4>2
    <3>2. Window(P \cup {now}, w) \subseteq W
      BY <3>1 DEF Window
    <3>3. /\ Cardinality(Window(P \cup {now}, w)) <= Cardinality(W)
          /\ Cardinality(Window(P \cup {now}, w)) \in Nat /\ Cardinality(W) \in Nat
      BY <1>2, <3>2, FewerTimes, SomeTimes
    <3> QED BY <1>5, <3>3
  <2>3. CASE w < now
    <3>1. Window(P \cup {now}, w) = Window(P, w)
      BY <1>1, <2>1, <2>3 DEF Window
    <3> QED BY <1>5, <3>1 DEF Windowed
  <2> QED BY <1>1, <2>1, <2>2, <2>3
<1> QED BY <1>2, <1>4, <1>5 DEF Logged, Windowed

\* A time of the present count is added.
LEMMA CountAdds ==
  ASSUME NEW P, P \subseteq Times, NEW begin \in Nat, NEW t \in Times, begin <= t,
         Cardinality(PassedBefore(P, begin)) <= MaxRequests,
         Windowed(P, 2 * MaxRequests),
         Cardinality(PassedSince(P, begin)) + 1 <= MaxRequests
  PROVE  /\ PassedBefore(P \cup {t}, begin) = PassedBefore(P, begin)
         /\ Cardinality(PassedSince(P \cup {t}, begin)) <= Cardinality(PassedSince(P, begin)) + 1
         /\ Windowed(P \cup {t}, 2 * MaxRequests)
<1>1. /\ Period \in Nat \ {0} /\ MaxRequests \in Nat /\ t \in Int
      /\ \A p \in P : p \in Int
  BY SomeTimes, LimitsAssumption DEF Times
<1>2. PassedBefore(P \cup {t}, begin) = PassedBefore(P, begin)
  BY <1>1 DEF PassedBefore
<1>3. PassedSince(P \cup {t}, begin) = PassedSince(P, begin) \cup {t}
  BY <1>1 DEF PassedSince
<1>4. /\ PassedBefore(P, begin) \subseteq Times /\ PassedSince(P, begin) \subseteq Times
      /\ IsFiniteSet(PassedBefore(P, begin)) /\ Cardinality(PassedBefore(P, begin)) \in Nat
      /\ IsFiniteSet(PassedSince(P, begin)) /\ Cardinality(PassedSince(P, begin)) \in Nat
  BY SomeTimes
<1>5. /\ PassedSince(P, begin) \cup {t} \subseteq Times
      /\ Cardinality(PassedSince(P, begin) \cup {t}) <= Cardinality(PassedSince(P, begin)) + 1
  BY <1>4, OneTimeMore
<1>6. ASSUME NEW w \in Times
      PROVE  Cardinality(Window(P \cup {t}, w)) <= 2 * MaxRequests
  <2>1. w \in Int
    BY DEF Times
  <2>2. CASE w < begin
    <3>1. Window(P \cup {t}, w) = Window(P, w)
      BY <1>1, <2>1, <2>2 DEF Window
    <3> QED BY <3>1 DEF Windowed
  <2>3. CASE w >= begin
    <3> DEFINE A == PassedBefore(P, begin)
               B == PassedSince(P, begin) \cup {t}
    <3>1. Window(P \cup {t}, w) \subseteq A \cup B
      <4>1. ASSUME NEW p \in P, w - Period < p, p <= w PROVE p \in A \cup B
        <5>1. p \in Int /\ (p >= begin \/ (p < begin /\ begin - Period < p))
          BY <1>1, <2>1, <2>3, <4>1
        <5> QED BY <5>1 DEF PassedBefore, PassedSince
      <4> QED BY <4>1 DEF Window
    <3>2. A \cup B \subseteq Times /\ IsFiniteSet(A) /\ IsFiniteSet(B)
          /\ Cardinality(A) \in Nat /\ Cardinality(B) \in Nat
      BY <1>4, <1>5, SomeTimes
    <3>3. A \cap B = {}
      <4>1. ASSUME NEW p \in A, p \in B PROVE FALSE
        <5>1. p \in Int /\ p < begin /\ p >= begin
          BY <1>1, <4>1 DEF PassedBefore, PassedSince
        <5> QED BY <5>1
      <4> QED BY <4>1
    <3> HIDE DEF A, B
    <3>4. Cardinality(A \cup B) = Cardinality(A) + Cardinality(B)
      <4>1. Cardinality(A \cup B)
              = Cardinality(A) + Cardinality(B) - Cardinality(A \cap B)
        BY <3>2, FS_Union
      <4>2. Cardinality(A \cap B) = 0
        BY <3>3, FS_EmptySet
      <4> QED BY <3>2, <4>1, <4>2
    <3>5. Cardinality(Window(P \cup {t}, w)) <= Cardinality(A \cup B)
          /\ Cardinality(Window(P \cup {t}, w)) \in Nat
      BY <3>1, <3>2, FewerTimes
    <3>6. Cardinality(A) <= MaxRequests /\ Cardinality(B) <= MaxRequests
      BY <1>1, <1>4, <1>5, <3>2 DEF A, B
    <3> QED BY <1>1, <3>2, <3>4, <3>5, <3>6
  <2> QED BY <2>1, <2>2, <2>3
<1> QED BY <1>2, <1>3, <1>5, <1>6 DEF Windowed

\* What an answer does to the request and to what its key let pass.
LEMMA AnswerChanges ==
  ASSUME LimitsTyped, NEW r \in Arrivals, arrival[r].key \in Keys,
         NEW number \in Nat, NEW now \in Times, Answer(r, number, now)
  PROVE  /\ arrival' \in [Arrivals -> ArrivalRecords]
         /\ passed' \in [Keys -> SUBSET Times]
         /\ \A q \in Arrivals \ {r} : arrival'[q] = arrival[q]
         /\ \A k \in Keys \ {arrival[r].key} : passed'[k] = passed[k]
         /\ arrival'[r].pc \notin {"stamped", "counted"}
         /\ arrival'[r].key \in {arrival[r].key, arrival[r].key + 1}
         /\ number > MaxRequests => passed' = passed
         /\ ~(number > MaxRequests) =>
              /\ arrival'[r].key = arrival[r].key + 1
              /\ passed'[arrival[r].key] =
                   IF \E e \in log[arrival[r].key] : e > now THEN passed[arrival[r].key]
                   ELSE passed[arrival[r].key] \cup {now}
<1> DEFINE key == arrival[r].key
<1>1. /\ arrival \in [Arrivals -> ArrivalRecords] /\ passed \in [Keys -> SUBSET Times]
      /\ arrival[r] \in ArrivalRecords /\ key \in Nat
      /\ "refused" \in ArrivalPlaces /\ "waiting" \in ArrivalPlaces
      /\ "admitted" \in ArrivalPlaces
  BY DEF LimitsTyped, ArrivalRecords, ArrivalPlaces
<1>2. CASE number > MaxRequests
  <2>1. arrival' = [arrival EXCEPT ![r].pc = "refused"] /\ passed' = passed
    BY <1>2 DEF Answer
  <2>2. [arrival[r] EXCEPT !.pc = "refused"] \in ArrivalRecords
    BY <1>1 DEF ArrivalRecords
  <2>3. arrival' \in [Arrivals -> ArrivalRecords]
    BY <1>1, <2>1, <2>2
  <2>4. arrival'[r].pc = "refused" /\ arrival'[r].key = key
    BY <1>1, <2>1 DEF ArrivalRecords
  <2>5. \A q \in Arrivals \ {r} : arrival'[q] = arrival[q]
    BY <1>1, <2>1
  <2> QED BY <1>1, <1>2, <2>1, <2>3, <2>4, <2>5
<1>3. CASE ~(number > MaxRequests)
  <2> DEFINE new == [pc |-> IF key = Len(Limits) THEN "admitted" ELSE "waiting",
                     key |-> key + 1, now |-> 0]
             let == IF \E e \in log[key] : e > now THEN passed[key]
                    ELSE passed[key] \cup {now}
  <2>1. arrival' = [arrival EXCEPT ![r] = new] /\ passed' = [passed EXCEPT ![key] = let]
    BY <1>3 DEF Answer, KeyOf
  <2>2. /\ new \in ArrivalRecords /\ new.key = key + 1
        /\ new.pc \notin {"stamped", "counted"}
    BY <1>1 DEF ArrivalRecords
  <2>3. let \in SUBSET Times
    BY <1>1
  <2> HIDE DEF new, let
  <2>4. /\ arrival' \in [Arrivals -> ArrivalRecords] /\ arrival'[r] = new
        /\ \A q \in Arrivals \ {r} : arrival'[q] = arrival[q]
    BY <1>1, <2>1, <2>2
  <2>5. /\ passed' \in [Keys -> SUBSET Times] /\ passed'[key] = let
        /\ \A k \in Keys \ {key} : passed'[k] = passed[k]
    BY <1>1, <2>1, <2>3
  <2> QED BY <1>3, <2>2, <2>4, <2>5 DEF let
<1> QED BY <1>2, <1>3

\* A key that neither the clock nor a request at another key changes.
LEMMA KeyRests ==
  ASSUME LimitsTyped, LimitsTyped', NEW k \in Keys, KeyKept(k), strategy' = strategy,
         time <= time', log'[k] = log[k], passed'[k] = passed[k],
         counter'[k] = counter[k], expiry'[k] = expiry[k],
         Uncertain(k)' = Uncertain(k),
         \A q \in Uncertain(k) : arrival'[q].now = arrival[q].now,
         \A q \in Arrivals : arrival[q].key > k => arrival'[q].key > k
  PROVE  KeyKept(k)'
<1>1. strategy \in {"memory", "sliding-window"} => LogKept(k)'
  BY DEF KeyKept, LogKept, Logged, Windowed, Window, Times
<1>2. strategy \notin {"memory", "sliding-window"} => log'[k] = {}
  BY DEF KeyKept
<1>3. ASSUME strategy = "fixed-window" PROVE (\E begin \in Nat : CountKept(k, begin))'
  <2>1. PICK begin \in Nat : CountKept(k, begin)
    BY <1>3 DEF KeyKept
  <2>2. /\ time \in Nat /\ time' \in Nat /\ passed[k] \subseteq Times
        /\ \A p \in Times : p \in Nat
        /\ arrival \in [Arrivals -> ArrivalRecords]
    BY LimitsAssumption DEF LimitsTyped, Times
  <2>3. Passing(k)' = Passing(k)
    BY DEF Passing
  <2>4. begin <= time' /\ \A p \in passed'[k] : p < time'
    BY <2>1, <2>2 DEF CountKept
  <2>5. \A r \in Uncertain(k)' : /\ begin <= arrival'[r].now /\ arrival'[r].now < time'
                                 /\ counter'[k] # 0 /\ expiry'[k] = 0
                                 /\ Uncertain(k)' = {r}
    <3> SUFFICES ASSUME NEW r \in Uncertain(k)
                 PROVE  /\ begin <= arrival'[r].now /\ arrival'[r].now < time'
                        /\ counter'[k] # 0 /\ expiry'[k] = 0
                        /\ Uncertain(k)' = {r}
      OBVIOUS
    <3>1. arrival[r].now \in Nat
      BY <2>2 DEF Uncertain, ArrivalRecords
    <3>2. /\ begin <= arrival[r].now /\ arrival[r].now < time
          /\ counter[k] # 0 /\ expiry[k] = 0 /\ Uncertain(k) = {r}
      BY <2>1 DEF CountKept
    <3> QED BY <2>2, <3>1, <3>2
  <2>6. CountKept(k, begin)'
    BY <2>1, <2>3, <2>4, <2>5 DEF CountKept, Windowed, Times
  <2> QED BY <2>6
<1> QED BY <1>1, <1>2, <1>3 DEF KeyKept

\* The keys at which a step of request r does not count.
LEMMA OtherKeysRest ==
  ASSUME LimitInv, LimitsTyped', strategy' = strategy, time <= time',
         NEW r \in Arrivals, arrival[r].key \in Keys,
         \A q \in Arrivals \ {r} : arrival'[q] = arrival[q],
         arrival'[r].key \in {arrival[r].key, arrival[r].key + 1},
         arrival'[r].pc = "counted" => arrival'[r].key = arrival[r].key,
         \A k \in Keys \ {arrival[r].key} :
           /\ log'[k] = log[k] /\ passed'[k] = passed[k]
           /\ counter'[k] = counter[k] /\ expiry'[k] = expiry[k]
  PROVE  \A k \in Keys \ {arrival[r].key} : KeyKept(k)'
<1> SUFFICES ASSUME NEW k \in Keys \ {arrival[r].key} PROVE KeyKept(k)'
  OBVIOUS
<1>1. LimitsTyped /\ k \in Keys
  BY DEF LimitInv
<1>2. KeyKept(k)
  BY DEF LimitInv
<1>3. Uncertain(k)' = Uncertain(k)
  BY DEF Uncertain
<1>4. \A q \in Uncertain(k) : arrival'[q].now = arrival[q].now
  BY DEF Uncertain
<1>5. ASSUME NEW q \in Arrivals, arrival[q].key > k PROVE arrival'[q].key > k
  <2>1. arrival[q].key \in Nat /\ k \in Int
    BY <1>1 DEF LimitsTyped, ArrivalRecords, Keys
  <2>2. CASE q = r
    BY <1>5, <2>1, <2>2
  <2>3. CASE q # r
    BY <1>5, <2>3
  <2> QED BY <2>2, <2>3
<1>6. /\ log'[k] = log[k] /\ passed'[k] = passed[k]
      /\ counter'[k] = counter[k] /\ expiry'[k] = expiry[k]
  OBVIOUS
<1> QED BY <1>1, <1>2, <1>3, <1>4, <1>5, <1>6, KeyRests

\* A request that counts itself in the log of its key.
LEMMA CountsInKeeps ==
  ASSUME LimitInv, strategy \in {"memory", "sliding-window"}, strategy' = strategy,
         NEW r \in Arrivals, arrival[r].key \in Keys, NEW now \in Times,
         CountsIn(r, now), time' \in Times, time <= time',
         counter' = counter, expiry' = expiry
  PROVE  LimitInv'
<1>0. PICK key : key = arrival[r].key
  OBVIOUS
<1>1. LimitsTyped /\ key \in Keys /\ LogKept(key)
  BY <1>0 DEF LimitInv, KeyKept
<1>2. PICK P : P = passed[key]
  OBVIOUS
<1>3. PICK L : L = log[key]
  OBVIOUS
<1>4. PICK W : W = {e \in L : e > now - Period} \cup {now}
  OBVIOUS
<1>5. log' = [log EXCEPT ![key] = W] /\ Answer(r, Cardinality(W), now)
  BY <1>0, <1>3, <1>4 DEF CountsIn, KeyOf, Recent
<1>6. /\ P \subseteq Times /\ L \subseteq Times /\ Logged(P, L)
      /\ MaxRequests \in Nat
  BY <1>1, <1>2, <1>3, LimitsAssumption DEF LimitsTyped, LogKept
<1>7. Windowed(P, MaxRequests)
  BY <1>1, <1>2 DEF LogKept
<1>8. /\ W \subseteq Times
      /\ Logged(P, W)
      /\ (\A e \in L : ~(e > now)) /\ Cardinality(W) <= MaxRequests
           => Logged(P \cup {now}, W) /\ Windowed(P \cup {now}, MaxRequests)
  BY <1>4, <1>6, <1>7, LogCounts
<1>9. Cardinality(W) \in Nat
  BY <1>8, SomeTimes
<1>10. /\ arrival' \in [Arrivals -> ArrivalRecords]
       /\ passed' \in [Keys -> SUBSET Times]
       /\ \A q \in Arrivals \ {r} : arrival'[q] = arrival[q]
       /\ \A k \in Keys \ {key} : passed'[k] = passed[k]
       /\ arrival'[r].pc \notin {"stamped", "counted"}
       /\ arrival'[r].key \in {key, key + 1}
       /\ Cardinality(W) > MaxRequests => passed' = passed
       /\ ~(Cardinality(W) > MaxRequests) =>
            passed'[key] = IF \E e \in L : e > now THEN P ELSE P \cup {now}
  BY <1>0, <1>1, <1>2, <1>3, <1>5, <1>9, AnswerChanges
<1>11. /\ log' \in [Keys -> SUBSET Times] /\ log'[key] = W
       /\ \A k \in Keys \ {key} : log'[k] = log[k]
  BY <1>1, <1>5, <1>8 DEF LimitsTyped
<1>12. LimitsTyped'
  BY <1>1, <1>10, <1>11 DEF LimitsTyped, Strategies, Times
<1>13. \A k \in Keys \ {key} : KeyKept(k)'
  BY <1>0, <1>10, <1>11, <1>12, OtherKeysRest
<1>14. LogKept(key)'
  <2>1. CASE Cardinality(W) > MaxRequests
    BY <1>2, <1>7, <1>8, <1>10, <1>11, <2>1 DEF LogKept
  <2>2. CASE ~(Cardinality(W) > MaxRequests)
    <3>1. Cardinality(W) <= MaxRequests
      BY <1>6, <1>9, <2>2
    <3>2. CASE \E e \in L : e > now
      <4>1. passed'[key] = P
        BY <1>10, <2>2, <3>2
      <4> QED BY <1>7, <1>8, <1>11, <4>1 DEF LogKept
    <3>3. CASE ~\E e \in L : e > now
      <4>1. passed'[key] = P \cup {now}
        BY <1>10, <2>2, <3>3
      <4>2. Logged(P \cup {now}, W) /\ Windowed(P \cup {now}, MaxRequests)
        BY <1>8, <3>1, <3>3
      <4> QED BY <1>11, <4>1, <4>2 DEF LogKept
    <3> QED BY <3>2, <3>3
  <2> QED BY <2>1, <2>2
<1>15. KeyKept(key)'
  BY <1>14 DEF KeyKept
<1>16. \A q \in Arrivals : RequestFits(q)'
  BY <1>10 DEF RequestFits, LimitInv
<1> QED BY <1>12, <1>13, <1>15, <1>16 DEF LimitInv

\* What a count and the request that waits to set its expiry leave to let pass.
LEMMA CountTypes ==
  ASSUME LimitsTyped, NEW k \in Keys, NEW begin \in Nat
  PROVE  /\ passed[k] \subseteq Times /\ counter[k] \in Nat /\ expiry[k] \in Nat
         /\ time \in Nat /\ time \in Times /\ MaxRequests \in Nat /\ Period \in Nat
         /\ Cardinality(PassedBefore(passed[k], begin)) \in Nat
         /\ Cardinality(PassedSince(passed[k], begin)) \in Nat
         /\ Passing(k) \in {0, 1}
         /\ \A p \in passed[k] : p \in Nat
<1>1. /\ passed[k] \subseteq Times /\ counter[k] \in Nat /\ expiry[k] \in Nat
      /\ time \in Times
  BY DEF LimitsTyped
<1>2. time \in Nat /\ MaxRequests \in Nat /\ Period \in Nat
  BY <1>1, LimitsAssumption DEF Times
<1>3. /\ PassedBefore(passed[k], begin) \subseteq Times
      /\ PassedSince(passed[k], begin) \subseteq Times
  BY <1>1, SomeTimes
<1>4. /\ Cardinality(PassedBefore(passed[k], begin)) \in Nat
      /\ Cardinality(PassedSince(passed[k], begin)) \in Nat
  BY <1>3, SomeTimes
<1>5. \A p \in passed[k] : p \in Nat
  BY <1>1, SomeTimes
<1> QED BY <1>1, <1>2, <1>4, <1>5 DEF Passing

\* The first request of a count: its expiry is still to be set.
LEMMA CountBegins ==
  ASSUME LimitsTyped, LimitsTyped', NEW k \in Keys, NEW begin \in Nat,
         CountKept(k, begin), counter[k] = 0, NEW r \in Arrivals,
         time' = time + 1, counter'[k] = 1, expiry'[k] = expiry[k],
         passed'[k] = passed[k],
         arrival'[r].pc = "counted", arrival'[r].key = k, arrival'[r].now = time,
         \A q \in Arrivals \ {r} : arrival'[q] = arrival[q]
  PROVE  CountKept(k, begin)'
<1>1. /\ passed[k] \subseteq Times /\ time \in Nat /\ MaxRequests \in Nat
      /\ Cardinality(PassedSince(passed[k], begin)) \in Nat
      /\ \A p \in passed[k] : p \in Nat
  BY CountTypes
<1>2. Uncertain(k) = {}
  BY DEF CountKept
<1>3. Uncertain(k)' = {r}
  BY <1>2 DEF Uncertain
<1>4. Passing(k) = 0 /\ Passing(k)' = 1
  BY <1>2, <1>3 DEF Passing
<1>5. Cardinality(PassedSince(passed[k], begin)) = 0
  BY <1>1, <1>4 DEF CountKept
<1>6. begin <= time' /\ \A p \in passed'[k] : p < time'
  BY <1>1 DEF CountKept
<1>7. \A q \in Uncertain(k)' : /\ begin <= arrival'[q].now /\ arrival'[q].now < time'
                               /\ counter'[k] # 0 /\ expiry'[k] = 0
                               /\ Uncertain(k)' = {q}
  BY <1>1, <1>3 DEF CountKept
<1>8. /\ Cardinality(PassedSince(passed'[k], begin)) <= MaxRequests
      /\ Cardinality(PassedSince(passed'[k], begin)) + Passing(k)' <= counter'[k]
      /\ MaxRequests # 0
           => Cardinality(PassedSince(passed'[k], begin)) + Passing(k)' <= MaxRequests
  BY <1>1, <1>4, <1>5
<1>9. /\ expiry'[k] # 0 => expiry'[k] >= begin + Period
      /\ counter'[k] = 0 => expiry'[k] = 0
      /\ Cardinality(PassedBefore(passed'[k], begin)) <= MaxRequests
      /\ Windowed(passed'[k], 2 * MaxRequests)
  BY DEF CountKept
<1>10. Windowed(passed[k], 2 * MaxRequests)'
  BY <1>9 DEF Windowed, Times, Window
<1> QED BY <1>6, <1>7, <1>8, <1>9, <1>10 DEF CountKept

\* A request that is answered in the present count, at a time of the count: a
\* further one, or the one that has set the expiry.
LEMMA CountGoesOn ==
  ASSUME LimitsTyped, LimitsTyped', NEW k \in Keys, NEW begin \in Nat,
         CountKept(k, begin), time' \in {time, time + 1},
         NEW now \in Times, begin <= now, now < time',
         expiry'[k] # 0 => expiry'[k] >= begin + Period,
         counter'[k] # 0,
         \A q \in Uncertain(k)' : q \in Uncertain(k) /\ arrival'[q] = arrival[q]
                                  /\ expiry'[k] = 0,
         NEW free \in Nat,
         Cardinality(PassedSince(passed[k], begin)) + Passing(k)' + free <= counter'[k],
         MaxRequests # 0
           => Cardinality(PassedSince(passed[k], begin)) + Passing(k)' + free <= MaxRequests,
         \/ passed'[k] = passed[k]
         \/ passed'[k] = passed[k] \cup {now} /\ free = 1 /\ MaxRequests # 0
  PROVE  CountKept(k, begin)'
<1>1. /\ passed[k] \subseteq Times /\ time \in Nat /\ MaxRequests \in Nat
      /\ Cardinality(PassedBefore(passed[k], begin)) \in Nat
      /\ Cardinality(PassedSince(passed[k], begin)) \in Nat
      /\ Passing(k) \in {0, 1}
      /\ \A p \in passed[k] : p \in Nat
  BY CountTypes
<1>2. Passing(k)' \in {0, 1} /\ counter'[k] \in Nat /\ time' \in Nat
  BY <1>1 DEF Passing, LimitsTyped
<1>3. begin <= time' /\ \A p \in passed'[k] : p < time'
  BY <1>1 DEF CountKept, Times
<1>4. \A q \in Uncertain(k)' : /\ begin <= arrival'[q].now /\ arrival'[q].now < time'
                               /\ counter'[k] # 0 /\ expiry'[k] = 0
                               /\ Uncertain(k)' = {q}
  <2> SUFFICES ASSUME NEW q \in Uncertain(k)'
               PROVE  /\ begin <= arrival'[q].now /\ arrival'[q].now < time'
                      /\ counter'[k] # 0 /\ expiry'[k] = 0
                      /\ Uncertain(k)' = {q}
    OBVIOUS
  <2>1. q \in Uncertain(k) /\ arrival'[q] = arrival[q] /\ expiry'[k] = 0
    OBVIOUS
  <2>2. begin <= arrival[q].now /\ arrival[q].now < time /\ Uncertain(k) = {q}
    BY <2>1 DEF CountKept
  <2>3. arrival[q].now \in Nat
    BY <2>1 DEF Uncertain, LimitsTyped, ArrivalRecords
  <2>4. Uncertain(k)' = {q}
    BY <2>2
  <2> QED BY <1>1, <2>1, <2>2, <2>3, <2>4
<1>5. /\ Cardinality(PassedBefore(passed[k], begin)) <= MaxRequests
      /\ Cardinality(PassedSince(passed[k], begin)) <= MaxRequests
      /\ Windowed(passed[k], 2 * MaxRequests)
  BY DEF CountKept
<1>6. /\ Cardinality(PassedBefore(passed'[k], begin)) <= MaxRequests
      /\ Cardinality(PassedSince(passed'[k], begin)) <= MaxRequests
      /\ Cardinality(PassedSince(passed'[k], begin)) + Passing(k)' <= counter'[k]
      /\ MaxRequests # 0
           => Cardinality(PassedSince(passed'[k], begin)) + Passing(k)' <= MaxRequests
      /\ Windowed(passed'[k], 2 * MaxRequests)
  <2>1. CASE passed'[k] = passed[k]
    <3>1. /\ Cardinality(PassedBefore(passed'[k], begin)) = Cardinality(PassedBefore(passed[k], begin))
          /\ Cardinality(PassedSince(passed'[k], begin)) = Cardinality(PassedSince(passed[k], begin))
          /\ Windowed(passed'[k], 2 * MaxRequests)
      BY <1>5, <2>1
    <3> QED BY <1>1, <1>2, <1>5, <3>1
  <2>2. CASE passed'[k] = passed[k] \cup {now} /\ free = 1 /\ MaxRequests # 0
    <3>1. Cardinality(PassedSince(passed[k], begin)) + 1 <= MaxRequests
      BY <1>1, <1>2, <2>2
    <3>2. PICK P : P = passed[k]
      OBVIOUS
    <3>3. P \subseteq Times /\ Cardinality(PassedBefore(P, begin)) <= MaxRequests
      BY <1>1, <1>5, <3>2
    <3>4. Windowed(P, 2 * MaxRequests) /\ Cardinality(PassedSince(P, begin)) + 1 <= MaxRequests
      BY <1>5, <3>1, <3>2
    <3>5. /\ PassedBefore(P \cup {now}, begin) = PassedBefore(P, begin)
          /\ Cardinality(PassedSince(P \cup {now}, begin)) <= Cardinality(PassedSince(P, begin)) + 1
          /\ Windowed(P \cup {now}, 2 * MaxRequests)
      BY <3>3, <3>4, CountAdds
    <3>6. Cardinality(PassedSince(P \cup {now}, begin)) \in Nat
      BY <3>3, OneTimeMore, SomeTimes
    <3>7. passed'[k] = P \cup {now}
      BY <2>2, <3>2
    <3> QED BY <1>1, <1>2, <2>2, <3>1, <3>2, <3>3, <3>5, <3>6, <3>7
  <2> QED BY <2>1, <2>2
<1>7. Windowed(passed[k], 2 * MaxRequests)'
  BY <1>6 DEF Windowed, Times, Window
<1> QED BY <1>3, <1>4, <1>6, <1>7 DEF CountKept

\* A request of the fixed window.
LEMMA IncrementsKeeps ==
  ASSUME LimitInv, NEW r \in Arrivals, Increments(r)
  PROVE  LimitInv'
<1>0. PICK key : key = arrival[r].key
  OBVIOUS
<1>1. /\ LimitsTyped /\ key \in Keys /\ strategy = "fixed-window" /\ strategy' = strategy
      /\ arrival[r].pc = "waiting" /\ time' = time + 1 /\ time < LastTime
      /\ counter' = [counter EXCEPT ![key] = @ + 1] /\ log' = log /\ expiry' = expiry
  BY <1>0 DEF Increments, Checking, KeyOf, Ticks, LimitInv
<1>2. /\ time \in Times /\ time \in Nat /\ time' \in Times /\ MaxRequests \in Nat
      /\ counter \in [Keys -> Nat] /\ counter[key] \in Nat /\ log[key] = {}
      /\ arrival \in [Arrivals -> ArrivalRecords] /\ arrival[r] \in ArrivalRecords
      /\ key \in Nat
  BY <1>1, LimitsAssumption DEF LimitInv, LimitsTyped, KeyKept, Times, Keys
<1>3. /\ counter' \in [Keys -> Nat] /\ counter'[key] = counter[key] + 1
      /\ \A k \in Keys \ {key} : counter'[k] = counter[k]
  BY <1>1, <1>2
<1>4. PICK begin \in Nat : CountKept(key, begin)
  BY <1>1 DEF LimitInv, KeyKept
<1>5. r \notin Uncertain(key)
  BY <1>1 DEF Uncertain
<1>6. CASE counter[key] = 0
  <2> DEFINE new == [[arrival[r] EXCEPT !.pc = "counted"] EXCEPT !.now = time]
  <2>1. /\ arrival' = [arrival EXCEPT ![r].pc = "counted", ![r].now = time]
        /\ passed' = passed
    BY <1>0, <1>6 DEF Increments, KeyOf
  <2>2. /\ new \in ArrivalRecords /\ new.pc = "counted" /\ new.key = key /\ new.now = time
    BY <1>0, <1>2 DEF ArrivalRecords, ArrivalPlaces
  <2>3. arrival' = [arrival EXCEPT ![r] = new]
    BY <1>2, <2>1
  <2> HIDE DEF new
  <2>4. /\ arrival' \in [Arrivals -> ArrivalRecords] /\ arrival'[r] = new
        /\ \A q \in Arrivals \ {r} : arrival'[q] = arrival[q]
    BY <1>2, <2>2, <2>3
  <2>5. LimitsTyped'
    BY <1>1, <1>2, <1>3, <2>1, <2>4 DEF LimitsTyped
  <2>6. arrival'[r].pc = "counted" /\ arrival'[r].key = key /\ arrival'[r].now = time
    BY <2>2, <2>4
  <2>7. \A k \in Keys \ {key} : KeyKept(k)'
    <3>1. \A k \in Keys \ {key} :
             /\ log'[k] = log[k] /\ passed'[k] = passed[k]
             /\ counter'[k] = counter[k] /\ expiry'[k] = expiry[k]
      BY <1>1, <1>3, <2>1
    <3>2. time <= time'
      BY <1>1, <1>2
    <3> QED BY <1>0, <1>1, <2>4, <2>5, <2>6, <3>1, <3>2, OtherKeysRest
  <2>8. CountKept(key, begin)'
    <3>1. /\ counter'[key] = 1 /\ expiry'[key] = expiry[key]
          /\ passed'[key] = passed[key]
      BY <1>1, <1>3, <1>6, <2>1
    <3> QED BY <1>1, <1>4, <1>6, <2>4, <2>5, <2>6, <3>1, CountBegins
  <2>9. KeyKept(key)'
    BY <1>1, <1>2, <2>8 DEF KeyKept
  <2>10. \A q \in Arrivals : RequestFits(q)'
    BY <1>1, <1>2, <2>4, <2>6 DEF RequestFits, LimitInv
  <2> QED BY <2>5, <2>7, <2>9, <2>10 DEF LimitInv
<1>7. CASE counter[key] # 0
  <2>1. PICK number : number = counter[key] + 1
    OBVIOUS
  <2>2. number \in Nat /\ Answer(r, number, time)
    BY <1>0, <1>2, <1>7, <2>1 DEF Increments, KeyOf
  <2>3. /\ arrival' \in [Arrivals -> ArrivalRecords]
        /\ passed' \in [Keys -> SUBSET Times]
        /\ \A q \in Arrivals \ {r} : arrival'[q] = arrival[q]
        /\ \A k \in Keys \ {key} : passed'[k] = passed[k]
        /\ arrival'[r].pc \notin {"stamped", "counted"}
        /\ arrival'[r].key \in {key, key + 1}
        /\ number > MaxRequests => passed' = passed
        /\ ~(number > MaxRequests) => passed'[key] = passed[key] \cup {time}
    BY <1>0, <1>1, <1>2, <2>2, AnswerChanges
  <2>4. LimitsTyped'
    BY <1>1, <1>2, <1>3, <2>3 DEF LimitsTyped
  <2>5. \A k \in Keys \ {key} : KeyKept(k)'
    <3>1. \A k \in Keys \ {key} :
             /\ log'[k] = log[k] /\ passed'[k] = passed[k]
             /\ counter'[k] = counter[k] /\ expiry'[k] = expiry[k]
      BY <1>1, <1>3, <2>3
    <3>2. time <= time'
      BY <1>1, <1>2
    <3> QED BY <1>0, <1>1, <2>3, <2>4, <3>1, <3>2, OtherKeysRest
  <2>6. Uncertain(key)' = Uncertain(key)
    BY <1>5, <2>3 DEF Uncertain
  <2>7. \A q \in Uncertain(key)' : q \in Uncertain(key) /\ arrival'[q] = arrival[q]
                                   /\ expiry'[key] = 0
    BY <1>1, <1>4, <1>5, <2>3, <2>6 DEF Uncertain, CountKept
  <2>8. /\ begin <= time /\ time < time'
        /\ expiry'[key] # 0 => expiry'[key] >= begin + Period
        /\ counter'[key] # 0 /\ time' \in {time, time + 1}
    BY <1>1, <1>2, <1>3, <1>4 DEF CountKept
  <2>9. /\ Passing(key)' = Passing(key) /\ Passing(key) \in {0, 1}
        /\ Cardinality(PassedSince(passed[key], begin)) \in Nat
        /\ Cardinality(PassedSince(passed[key], begin)) + Passing(key) <= counter[key]
        /\ MaxRequests # 0
             => Cardinality(PassedSince(passed[key], begin)) + Passing(key) <= MaxRequests
    BY <1>1, <1>4, <2>6, CountTypes DEF CountKept, Passing
  <2>10. CountKept(key, begin)'
    <3>1. CASE number > MaxRequests
      <4>1. passed'[key] = passed[key]
        BY <2>3, <3>1
      <4>2. /\ Cardinality(PassedSince(passed[key], begin)) + Passing(key)' + 0 <= counter'[key]
            /\ MaxRequests # 0
               => Cardinality(PassedSince(passed[key], begin)) + Passing(key)' + 0 <= MaxRequests
        BY <1>2, <1>3, <2>9
      <4> QED BY <1>1, <1>2, <1>4, <2>4, <2>7, <2>8, <4>1, <4>2, CountGoesOn
    <3>2. CASE ~(number > MaxRequests)
      <4>1. passed'[key] = passed[key] \cup {time} /\ MaxRequests # 0
        BY <1>2, <2>1, <2>3, <3>2
      <4>2. /\ Cardinality(PassedSince(passed[key], begin)) + Passing(key)' + 1 <= counter'[key]
            /\ MaxRequests # 0
               => Cardinality(PassedSince(passed[key], begin)) + Passing(key)' + 1 <= MaxRequests
        BY <1>2, <1>3, <2>1, <2>9, <3>2
      <4> QED BY <1>1, <1>2, <1>4, <2>4, <2>7, <2>8, <4>1, <4>2, CountGoesOn
    <3> QED BY <3>1, <3>2
  <2>11. KeyKept(key)'
    BY <1>1, <1>2, <2>10 DEF KeyKept
  <2>12. \A q \in Arrivals : RequestFits(q)'
    BY <1>1, <1>2, <2>3 DEF RequestFits, LimitInv
  <2> QED BY <2>4, <2>5, <2>11, <2>12 DEF LimitInv
<1> QED BY <1>6, <1>7

\* The request that gives its count an end.
LEMMA SetsExpiryKeeps ==
  ASSUME LimitInv, NEW r \in Arrivals, SetsExpiry(r)
  PROVE  LimitInv'
<1>0. PICK key : key = arrival[r].key
  OBVIOUS
<1>1. PICK now : now = arrival[r].now
  OBVIOUS
<1>2. /\ LimitsTyped /\ key \in Keys /\ strategy' = strategy
      /\ arrival[r].pc = "counted" /\ time' = time /\ counter' = counter /\ log' = log
      /\ expiry' = [expiry EXCEPT ![key] = time + Period] /\ Answer(r, 1, now)
  BY <1>0, <1>1 DEF SetsExpiry, Checking, KeyOf, LimitInv
<1>3. /\ strategy = "fixed-window" /\ now \in Times /\ log[key] = {}
  BY <1>1, <1>2 DEF LimitInv, RequestFits, KeyKept
<1>4. /\ time \in Times /\ time \in Nat /\ now \in Nat
      /\ MaxRequests \in Nat /\ Period \in Nat \ {0}
      /\ expiry \in [Keys -> Nat] /\ arrival \in [Arrivals -> ArrivalRecords]
      /\ counter[key] \in Nat
  BY <1>2, <1>3, LimitsAssumption DEF LimitsTyped, Times
<1>5. /\ expiry' \in [Keys -> Nat] /\ expiry'[key] = time + Period
      /\ \A k \in Keys \ {key} : expiry'[k] = expiry[k]
  BY <1>2, <1>4
<1>6. PICK begin \in Nat : CountKept(key, begin)
  BY <1>2, <1>3 DEF LimitInv, KeyKept
<1>7. r \in Uncertain(key)
  BY <1>0, <1>2 DEF Uncertain
<1>8. /\ begin <= now /\ now < time /\ counter[key] # 0 /\ Uncertain(key) = {r}
      /\ begin <= time
  BY <1>1, <1>6, <1>7 DEF CountKept
<1>9. /\ arrival' \in [Arrivals -> ArrivalRecords]
      /\ passed' \in [Keys -> SUBSET Times]
      /\ \A q \in Arrivals \ {r} : arrival'[q] = arrival[q]
      /\ \A k \in Keys \ {key} : passed'[k] = passed[k]
      /\ arrival'[r].pc \notin {"stamped", "counted"}
      /\ arrival'[r].key \in {key, key + 1}
      /\ 1 > MaxRequests => passed' = passed
      /\ ~(1 > MaxRequests) => passed'[key] = passed[key] \cup {now}
  BY <1>0, <1>2, <1>3, AnswerChanges
<1>10. LimitsTyped'
  BY <1>2, <1>5, <1>9 DEF LimitsTyped
<1>11. \A k \in Keys \ {key} : KeyKept(k)'
  <2>1. \A k \in Keys \ {key} :
           /\ log'[k] = log[k] /\ passed'[k] = passed[k]
           /\ counter'[k] = counter[k] /\ expiry'[k] = expiry[k]
    BY <1>2, <1>5, <1>9
  <2>2. time <= time'
    BY <1>2, <1>4
  <2> QED BY <1>0, <1>2, <1>9, <1>10, <2>1, <2>2, OtherKeysRest
<1>12. Uncertain(key)' = {}
  BY <1>8, <1>9 DEF Uncertain
<1>13. /\ Passing(key)' = 0 /\ Passing(key) = 1
       /\ Cardinality(PassedSince(passed[key], begin)) \in Nat
       /\ Cardinality(PassedSince(passed[key], begin)) + Passing(key) <= counter[key]
       /\ MaxRequests # 0
            => Cardinality(PassedSince(passed[key], begin)) + Passing(key) <= MaxRequests
  BY <1>2, <1>6, <1>8, <1>12, CountTypes DEF CountKept, Passing
<1>14. /\ now < time' /\ counter'[key] # 0 /\ time' \in {time, time + 1}
       /\ expiry'[key] # 0 => expiry'[key] >= begin + Period
  BY <1>2, <1>4, <1>5, <1>8
<1>15. \A q \in Uncertain(key)' : q \in Uncertain(key) /\ arrival'[q] = arrival[q]
                                  /\ expiry'[key] = 0
  BY <1>12
<1>16. CountKept(key, begin)'
  <2>1. CASE 1 > MaxRequests
    <3>1. passed'[key] = passed[key]
      BY <1>9, <2>1
    <3>2. /\ Cardinality(PassedSince(passed[key], begin)) + Passing(key)' + 0 <= counter'[key]
          /\ MaxRequests # 0
             => Cardinality(PassedSince(passed[key], begin)) + Passing(key)' + 0 <= MaxRequests
      BY <1>2, <1>4, <1>13
    <3> QED BY <1>2, <1>3, <1>6, <1>8, <1>10, <1>14, <1>15, <3>1, <3>2, CountGoesOn
  <2>2. CASE ~(1 > MaxRequests)
    <3>1. passed'[key] = passed[key] \cup {now} /\ MaxRequests # 0
      BY <1>4, <1>9, <2>2
    <3>2. /\ Cardinality(PassedSince(passed[key], begin)) + Passing(key)' + 1 <= counter'[key]
          /\ MaxRequests # 0
             => Cardinality(PassedSince(passed[key], begin)) + Passing(key)' + 1 <= MaxRequests
      BY <1>2, <1>4, <1>13, <2>2
    <3> QED BY <1>2, <1>3, <1>6, <1>8, <1>10, <1>14, <1>15, <3>1, <3>2, CountGoesOn
  <2> QED BY <2>1, <2>2
<1>17. KeyKept(key)'
  BY <1>2, <1>3, <1>16 DEF KeyKept
<1>18. \A q \in Arrivals : RequestFits(q)'
  BY <1>2, <1>9 DEF RequestFits, LimitInv
<1> QED BY <1>10, <1>11, <1>17, <1>18 DEF LimitInv

\* The count of a key ends: what passed since it began is what passed in the
\* period before now.
LEMMA WindowExpiresKeeps ==
  ASSUME LimitInv, NEW key \in Keys, WindowExpires(key)
  PROVE  LimitInv'
<1>1. /\ LimitsTyped /\ expiry[key] # 0 /\ expiry[key] <= time
      /\ counter' = [counter EXCEPT ![key] = 0] /\ expiry' = [expiry EXCEPT ![key] = 0]
      /\ strategy' = strategy /\ time' = time /\ arrival' = arrival /\ log' = log
      /\ passed' = passed
  BY DEF WindowExpires, LimitInv
<1>2. /\ counter' \in [Keys -> Nat] /\ counter'[key] = 0
      /\ expiry' \in [Keys -> Nat] /\ expiry'[key] = 0
      /\ \A k \in Keys \ {key} : counter'[k] = counter[k] /\ expiry'[k] = expiry[k]
  BY <1>1 DEF LimitsTyped
<1>3. LimitsTyped'
  BY <1>1, <1>2 DEF LimitsTyped
<1>4. ASSUME NEW k \in Keys \ {key} PROVE KeyKept(k)'
  <2>1. KeyKept(k) /\ time <= time' /\ k \in Keys
    BY <1>1, LimitsAssumption DEF LimitInv, LimitsTyped, Times
  <2>2. Uncertain(k)' = Uncertain(k)
    BY <1>1 DEF Uncertain
  <2> QED BY <1>1, <1>2, <1>3, <2>1, <2>2, KeyRests
<1>5. /\ strategy' \in {"memory", "sliding-window"} => LogKept(key)'
      /\ strategy' \notin {"memory", "sliding-window"} => log'[key] = {}
  BY <1>1 DEF LimitInv, KeyKept, LogKept, Logged, Windowed, Window, Times
<1>6. ASSUME strategy = "fixed-window" PROVE CountKept(key, time)'
  <2>1. PICK begin \in Nat : CountKept(key, begin)
    BY <1>6 DEF LimitInv, KeyKept
  <2>2. /\ passed[key] \subseteq Times /\ expiry[key] \in Nat /\ time \in Nat
        /\ MaxRequests \in Nat /\ Period \in Nat
        /\ Cardinality(PassedSince(passed[key], begin)) \in Nat
        /\ \A p \in passed[key] : p \in Nat
    BY <1>1, CountTypes
  <2>3. Uncertain(key) = {} /\ Uncertain(key)' = {}
    BY <1>1, <2>1 DEF CountKept, Uncertain
  <2>4. Passing(key)' = 0
    BY <2>3 DEF Passing
  <2>5. /\ \A p \in passed[key] : p < time
        /\ expiry[key] >= begin + Period
        /\ Cardinality(PassedSince(passed[key], begin)) <= MaxRequests
        /\ Windowed(passed[key], 2 * MaxRequests)
    BY <1>1, <2>1 DEF CountKept
  <2>6. Cardinality(PassedBefore(passed[key], time)) <= MaxRequests
    <3>1. PassedBefore(passed[key], time) \subseteq PassedSince(passed[key], begin)
      BY <1>1, <2>2, <2>5 DEF PassedBefore, PassedSince
    <3>2. PassedSince(passed[key], begin) \subseteq Times
      BY <2>2, SomeTimes
    <3>3. /\ Cardinality(PassedBefore(passed[key], time)) <= Cardinality(PassedSince(passed[key], begin))
          /\ Cardinality(PassedBefore(passed[key], time)) \in Nat
      BY <3>1, <3>2, FewerTimes
    <3> QED BY <2>2, <2>5, <3>3
  <2>7. Cardinality(PassedSince(passed[key], time)) = 0
    <3>1. PassedSince(passed[key], time) = {}
      BY <2>2, <2>5 DEF PassedSince
    <3> QED BY <3>1, FS_EmptySet
  <2>8. /\ time' <= time' /\ \A p \in passed'[key] : p < time'
        /\ expiry'[key] # 0 => expiry'[key] >= time' + Period
        /\ counter'[key] = 0 => expiry'[key] = 0
    BY <1>1, <1>2, <2>2, <2>5
  <2>9. \A r \in Uncertain(key)' : /\ time' <= arrival'[r].now /\ arrival'[r].now < time'
                                   /\ counter'[key] # 0 /\ expiry'[key] = 0
                                   /\ Uncertain(key)' = {r}
    BY <2>3
  <2>10. /\ Cardinality(PassedBefore(passed'[key], time')) <= MaxRequests
         /\ Cardinality(PassedSince(passed'[key], time')) = 0
    BY <1>1, <2>6, <2>7
  <2>11. /\ Cardinality(PassedSince(passed'[key], time')) <= MaxRequests
         /\ Cardinality(PassedSince(passed'[key], time')) + Passing(key)' <= counter'[key]
         /\ MaxRequests # 0
              => Cardinality(PassedSince(passed'[key], time')) + Passing(key)' <= MaxRequests
    BY <1>2, <2>2, <2>4, <2>10
  <2>12. Windowed(passed[key], 2 * MaxRequests)'
    BY <1>1, <2>5 DEF Windowed, Times, Window
  <2> QED BY <2>8, <2>9, <2>10, <2>11, <2>12 DEF CountKept
<1>7. KeyKept(key)'
  <2>1. time' \in Nat
    BY <1>1, LimitsAssumption DEF LimitsTyped, Times
  <2>2. strategy' = "fixed-window" => (\E begin \in Nat : CountKept(key, begin))'
    <3> SUFFICES ASSUME strategy' = "fixed-window"
                 PROVE  (\E begin \in Nat : CountKept(key, begin))'
      OBVIOUS
    <3>1. PICK begin : begin = time
      OBVIOUS
    <3>2. begin \in Nat /\ begin = time'
      BY <1>1, <2>1, <3>1
    <3>3. CountKept(key, begin)'
      BY <1>1, <1>6, <3>1, <3>2 DEF CountKept, PassedBefore, PassedSince
    <3> QED BY <3>2, <3>3
  <2> QED BY <1>5, <2>2 DEF KeyKept
<1>8. \A q \in Arrivals : RequestFits(q)'
  BY <1>1 DEF RequestFits, LimitInv
<1> QED BY <1>3, <1>4, <1>7, <1>8 DEF LimitInv

\* A step that changes only the clock, and a request that waits.
LEMMA ClockKeeps ==
  ASSUME LimitInv, strategy' = strategy, time' \in Times, time <= time',
         arrival' \in [Arrivals -> ArrivalRecords],
         \A q \in Arrivals :
           \/ arrival'[q] = arrival[q]
           \/ /\ arrival[q].pc = "waiting" /\ arrival'[q].pc = "stamped"
              /\ arrival'[q].key = arrival[q].key /\ arrival'[q].now \in Times
              /\ strategy = "sliding-window",
         log' = log, counter' = counter, expiry' = expiry, passed' = passed
  PROVE  LimitInv'
<1>1. LimitsTyped /\ LimitsTyped'
  BY DEF LimitInv, LimitsTyped
<1>2. ASSUME NEW k \in Keys PROVE KeyKept(k)'
  <2>1. KeyKept(k)
    BY DEF LimitInv
  <2>2. Uncertain(k)' = Uncertain(k)
    BY DEF Uncertain
  <2>3. /\ \A q \in Uncertain(k) : arrival'[q].now = arrival[q].now
        /\ \A q \in Arrivals : arrival[q].key > k => arrival'[q].key > k
    BY DEF Uncertain
  <2> QED BY <1>1, <2>1, <2>2, <2>3, KeyRests
<1>3. \A q \in Arrivals : RequestFits(q)'
  BY DEF RequestFits, LimitInv
<1> QED BY <1>1, <1>2, <1>3 DEF LimitInv

\* The token bucket admits.
LEMMA BucketAdmitsKeeps ==
  ASSUME LimitInv, NEW r \in Arrivals, BucketAdmits(r)
  PROVE  LimitInv'
<1>0. PICK key : key = arrival[r].key
  OBVIOUS
<1>1. /\ LimitsTyped /\ key \in Keys /\ strategy = "token-bucket" /\ strategy' = strategy
      /\ arrival[r].pc = "waiting" /\ time' = time + 1 /\ time < LastTime
      /\ counter' = counter /\ log' = log /\ expiry' = expiry
      /\ Answer(r, MaxRequests, time)
  BY <1>0 DEF BucketAdmits, Checking, KeyOf, Ticks, LimitInv
<1>2. /\ time \in Times /\ time \in Nat /\ time' \in Times /\ MaxRequests \in Nat
      /\ log[key] = {} /\ key \in Nat
      /\ arrival \in [Arrivals -> ArrivalRecords] /\ passed[key] \subseteq Times
  BY <1>1, LimitsAssumption DEF LimitInv, LimitsTyped, KeyKept, Times, Keys
<1>3. /\ arrival' \in [Arrivals -> ArrivalRecords]
      /\ passed' \in [Keys -> SUBSET Times]
      /\ \A q \in Arrivals \ {r} : arrival'[q] = arrival[q]
      /\ \A k \in Keys \ {key} : passed'[k] = passed[k]
      /\ arrival'[r].pc \notin {"stamped", "counted"}
      /\ ~(MaxRequests > MaxRequests) => /\ arrival'[r].key = key + 1
                                         /\ passed'[key] = passed[key] \cup {time}
  BY <1>0, <1>1, <1>2, AnswerChanges
<1>4. arrival'[r].key = key + 1 /\ passed'[key] = passed[key] \cup {time}
  BY <1>2, <1>3
<1>5. LimitsTyped'
  BY <1>1, <1>2, <1>3 DEF LimitsTyped
<1>6. \A k \in Keys \ {key} : KeyKept(k)'
  <2>1. \A k \in Keys \ {key} :
           /\ log'[k] = log[k] /\ passed'[k] = passed[k]
           /\ counter'[k] = counter[k] /\ expiry'[k] = expiry[k]
    BY <1>1, <1>3
  <2>2. time <= time' /\ arrival'[r].key \in {key, key + 1}
    BY <1>1, <1>2, <1>4
  <2> QED BY <1>0, <1>1, <1>3, <1>5, <2>1, <2>2, OtherKeysRest
<1>7. KeyKept(key)'
  BY <1>1, <1>2 DEF KeyKept
<1>8. \A q \in Arrivals : RequestFits(q)'
  BY <1>1, <1>3 DEF RequestFits, LimitInv
<1> QED BY <1>5, <1>6, <1>7, <1>8 DEF LimitInv

\* Every step of the middleware.
LEMMA LimitStepsKeep ==
  ASSUME LimitInv, [LimitsNext]_limitVars
  PROVE  LimitInv'
<1>1. /\ time \in Times /\ time \in Nat /\ arrival \in [Arrivals -> ArrivalRecords]
      /\ \A n \in Nat : n \in Times => n + 1 \in Times \/ ~(n < LastTime)
  BY LimitsAssumption DEF LimitInv, LimitsTyped, Times
<1>2. CASE UNCHANGED limitVars
  BY <1>1, <1>2, ClockKeeps DEF limitVars
<1>3. CASE TimePasses
  BY <1>1, <1>3, ClockKeeps DEF TimePasses, Ticks
<1>4. ASSUME NEW k \in Keys, WindowExpires(k) PROVE LimitInv'
  BY <1>4, WindowExpiresKeeps
<1>5. ASSUME NEW r \in Arrivals, CountInMemory(r) PROVE LimitInv'
  <2>1. /\ strategy \in {"memory", "sliding-window"} /\ strategy' = strategy
        /\ arrival[r].key \in Keys /\ CountsIn(r, time) /\ counter' = counter
        /\ expiry' = expiry
    BY <1>5 DEF CountInMemory, Checking
  <2>2. time' \in Times /\ time <= time'
    BY <1>1, <1>5 DEF CountInMemory, Ticks
  <2> QED BY <1>1, <2>1, <2>2, CountsInKeeps
<1>6. ASSUME NEW r \in Arrivals, PipelineRuns(r) PROVE LimitInv'
  <2>1. PICK now : now = arrival[r].now
    OBVIOUS
  <2>2. /\ strategy \in {"memory", "sliding-window"} /\ strategy' = strategy
        /\ arrival[r].key \in Keys /\ CountsIn(r, now) /\ counter' = counter
        /\ expiry' = expiry /\ now \in Times
    BY <1>6, <2>1 DEF PipelineRuns, Checking, LimitInv, RequestFits
  <2>3. time' \in Times /\ time <= time'
    BY <1>1, <1>6 DEF PipelineRuns
  <2> QED BY <2>2, <2>3, CountsInKeeps
<1>7. ASSUME NEW r \in Arrivals, ReadsTime(r) PROVE LimitInv'
  <2> DEFINE new == [[arrival[r] EXCEPT !.pc = "stamped"] EXCEPT !.now = time]
  <2>1. /\ arrival' = [arrival EXCEPT ![r].pc = "stamped", ![r].now = time]
        /\ strategy = "sliding-window" /\ arrival[r].pc = "waiting"
        /\ strategy' = strategy /\ log' = log /\ counter' = counter /\ expiry' = expiry
        /\ passed' = passed
    BY <1>7 DEF ReadsTime, Checking
  <2>2. /\ new \in ArrivalRecords /\ new.pc = "stamped" /\ new.key = arrival[r].key
        /\ new.now = time
    BY <1>1 DEF ArrivalRecords, ArrivalPlaces
  <2>3. arrival' = [arrival EXCEPT ![r] = new]
    BY <1>1, <2>1
  <2> HIDE DEF new
  <2>4. /\ arrival' \in [Arrivals -> ArrivalRecords] /\ arrival'[r] = new
        /\ \A q \in Arrivals \ {r} : arrival'[q] = arrival[q]
    BY <1>1, <2>2, <2>3
  <2>5. \A q \in Arrivals :
           \/ arrival'[q] = arrival[q]
           \/ /\ arrival[q].pc = "waiting" /\ arrival'[q].pc = "stamped"
              /\ arrival'[q].key = arrival[q].key /\ arrival'[q].now \in Times
              /\ strategy = "sliding-window"
    BY <1>1, <2>1, <2>2, <2>4
  <2>6. time' \in Times /\ time <= time'
    BY <1>1, <1>7 DEF ReadsTime, Ticks
  <2> QED BY <2>1, <2>4, <2>5, <2>6, ClockKeeps
<1> QED BY <1>2, <1>3, <1>4, <1>5, <1>6, <1>7, IncrementsKeeps, SetsExpiryKeeps,
           BucketAdmitsKeeps DEF LimitsNext

\* A behaviour of Services is one of the middleware.
LEMMA LimitsOfServices == Spec => LimitsSpec
<1>1. Init => LimitsInit
  BY DEF Init
<1>2. [Next]_vars => [LimitsNext]_limitVars
  BY DEF Next, OthersRest, vars
<1> QED BY <1>1, <1>2, PTL DEF Spec, LimitsSpec

LEMMA LimitsInductive == LimitsSpec => []LimitInv
<1>1. LimitsInit => LimitInv
  <2> SUFFICES ASSUME LimitsInit PROVE LimitInv
    OBVIOUS
  <2>1. Waiting \in ArrivalRecords /\ Waiting.pc = "waiting"
    BY DEF Waiting, ArrivalRecords, ArrivalPlaces
  <2>2. /\ arrival \in [Arrivals -> ArrivalRecords]
        /\ \A r \in Arrivals : arrival[r].pc = "waiting"
        /\ time = 1 /\ time \in Times
        /\ \A k \in Keys : log[k] = {} /\ passed[k] = {} /\ counter[k] = 0 /\ expiry[k] = 0
    BY <2>1, LimitsAssumption DEF LimitsInit, Times
  <2>3. LimitsTyped
    BY <2>2 DEF LimitsInit, LimitsTyped
  <2>4. \A r \in Arrivals : RequestFits(r)
    BY <2>2 DEF RequestFits
  <2>5. ASSUME NEW k \in Keys PROVE KeyKept(k)
    <3>1. /\ log[k] = {} /\ passed[k] = {} /\ counter[k] = 0 /\ expiry[k] = 0
          /\ Uncertain(k) = {} /\ MaxRequests \in Nat
      BY <2>2, LimitsAssumption DEF Uncertain
    <3>2. /\ \A w : Window({}, w) = {} /\ \A b : PassedBefore({}, b) = {} /\ PassedSince({}, b) = {}
          /\ Cardinality({}) = 0
      BY FS_EmptySet DEF Window, PassedBefore, PassedSince
    <3>3. /\ Windowed(passed[k], MaxRequests) /\ Windowed(passed[k], 2 * MaxRequests)
          /\ Logged(passed[k], log[k])
      <4>1. \A n \in Nat : Windowed({}, n)
        BY <3>2 DEF Windowed
      <4>2. MaxRequests \in Nat /\ 2 * MaxRequests \in Nat
        BY <3>1
      <4>3. Logged({}, {})
        BY DEF Logged
      <4> QED BY <3>1, <4>1, <4>2, <4>3
    <3>4. CountKept(k, 0)
      <4>1. Passing(k) = 0
        BY <3>1 DEF Passing
      <4>2. /\ Cardinality(PassedBefore(passed[k], 0)) = 0
            /\ Cardinality(PassedSince(passed[k], 0)) = 0
        BY <3>1, <3>2
      <4> QED BY <2>2, <3>1, <3>3, <4>1, <4>2 DEF CountKept
    <3> QED BY <3>1, <3>3, <3>4 DEF KeyKept, LogKept
  <2> QED BY <2>3, <2>4, <2>5 DEF LimitInv
<1>2. LimitInv /\ [LimitsNext]_limitVars => LimitInv'
  BY LimitStepsKeep
<1> QED BY <1>1, <1>2, PTL DEF LimitsSpec

\* In every period a limit of the middleware lets pass no more requests than its
\* strategy keeps to: the limit, or twice the limit; unless it is the token
\* bucket, which keeps to nothing.
LEMMA WindowBoundedAlways == Spec => []WindowBounded
<1>1. LimitInv => WindowBounded
  <2> SUFFICES ASSUME LimitInv, strategy # "token-bucket", NEW k \in Keys, NEW w \in Times
               PROVE  Cardinality({p \in passed[k] : w - Period < p /\ p <= w}) <= Burst
    BY DEF WindowBounded, Times
  <2>1. {p \in passed[k] : w - Period < p /\ p <= w} = Window(passed[k], w)
    BY DEF Window
  <2>2. /\ strategy \in Strategies /\ passed[k] \subseteq Times /\ KeyKept(k)
    BY DEF LimitInv, LimitsTyped
  <2>3. CASE strategy \in {"memory", "sliding-window"}
    <3>1. Burst = MaxRequests
      BY <2>3 DEF Burst
    <3>2. Windowed(passed[k], MaxRequests)
      BY <2>2, <2>3 DEF KeyKept, LogKept
    <3> QED BY <2>1, <3>1, <3>2 DEF Windowed
  <2>4. CASE strategy = "fixed-window"
    <3>1. Burst = 2 * MaxRequests
      BY <2>4 DEF Burst
    <3>2. Windowed(passed[k], 2 * MaxRequests)
      BY <2>2, <2>4 DEF KeyKept, CountKept
    <3> QED BY <2>1, <3>1, <3>2 DEF Windowed
  <2> QED BY <2>2, <2>3, <2>4 DEF Strategies
<1> QED BY <1>1, LimitsInductive, LimitsOfServices, PTL

\* What the types of the middleware say beyond LimitInv.  The requests a key has
\* counted are behind it, or it is about to answer or has refused them; its
\* counter, of which the window may end, counts no others.
CountedRequests(k) ==
  {r \in Arrivals : \/ arrival[r].key > k
                    \/ arrival[r].key = k /\ arrival[r].pc \in {"counted", "refused"}}

LimitsBounded ==
  /\ \A r \in Arrivals : arrival[r].key \in 1..Len(Limits) + 1 /\ arrival[r].now \in 0..LastTime
  /\ \A k \in Keys : counter[k] <= Cardinality(CountedRequests(k)) /\ expiry[k] <= LastTime + Period

\* How a request changes by an answer.
LEMMA AnsweredRequest ==
  ASSUME LimitInv, LimitsBounded, NEW r \in Arrivals, arrival[r].key \in Keys,
         NEW number, NEW now, Answer(r, number, now)
  PROVE  /\ \A q \in Arrivals \ {r} : arrival'[q] = arrival[q]
         /\ arrival'[r].key \in 1..Len(Limits) + 1 /\ arrival'[r].now \in 0..LastTime
         /\ \/ arrival'[r].key = arrival[r].key /\ arrival'[r].pc = "refused"
            \/ arrival'[r].key = arrival[r].key + 1
<1>1. /\ arrival \in [Arrivals -> ArrivalRecords] /\ Len(Limits) \in Nat /\ LastTime \in Nat
      /\ arrival[r].now \in 0..LastTime
  BY LimitsAssumption DEF LimitInv, LimitsTyped, LimitsBounded
<1>2. CASE number > MaxRequests
  <2> DEFINE new == [arrival[r] EXCEPT !.pc = "refused"]
  <2>1. arrival' = [arrival EXCEPT ![r] = new]
    BY <1>2 DEF Answer
  <2>2. new.pc = "refused" /\ new.key = arrival[r].key /\ new.now = arrival[r].now
    BY <1>1 DEF ArrivalRecords
  <2> HIDE DEF new
  <2>3. arrival'[r] = new /\ \A q \in Arrivals \ {r} : arrival'[q] = arrival[q]
    BY <1>1, <2>1
  <2>4. arrival[r].key \in 1..Len(Limits) + 1
    BY DEF LimitsBounded
  <2> QED BY <1>1, <2>2, <2>3, <2>4
<1>3. CASE ~(number > MaxRequests)
  <2> DEFINE new == [pc |-> IF arrival[r].key = Len(Limits) THEN "admitted" ELSE "waiting",
                     key |-> arrival[r].key + 1, now |-> 0]
  <2>1. arrival' = [arrival EXCEPT ![r] = new]
    BY <1>3 DEF Answer, KeyOf
  <2>2. new.key = arrival[r].key + 1 /\ new.now = 0
    OBVIOUS
  <2> HIDE DEF new
  <2>3. arrival'[r] = new /\ \A q \in Arrivals \ {r} : arrival'[q] = arrival[q]
    BY <1>1, <2>1
  <2>4. arrival[r].key + 1 \in 1..Len(Limits) + 1 /\ 0 \in 0..LastTime
    BY <1>1 DEF Keys
  <2> QED BY <2>2, <2>3, <2>4
<1> QED BY <1>2, <1>3

\* A step of one request, which the counter of its key may count.
LEMMA RequestCounts ==
  ASSUME LimitInv, LimitsBounded, NEW r \in Arrivals,
         \A q \in Arrivals \ {r} : arrival'[q] = arrival[q],
         arrival'[r].key \in 1..Len(Limits) + 1, arrival'[r].now \in 0..LastTime,
         arrival[r].pc # "refused",
         \/ arrival'[r].key = arrival[r].key /\ arrival'[r].pc \in {"counted", "refused"}
         \/ arrival'[r].key = arrival[r].key /\ arrival[r].pc # "counted"
         \/ arrival'[r].key = arrival[r].key + 1,
         \A k \in Keys : expiry'[k] <= LastTime + Period,
         \A k \in Keys :
           \/ counter'[k] = counter[k]
           \/ /\ counter'[k] = counter[k] + 1 /\ k = arrival[r].key
              /\ arrival[r].pc = "waiting"
              /\ arrival'[r].key = k => arrival'[r].pc \in {"counted", "refused"}
  PROVE  LimitsBounded'
<1>1. /\ arrival \in [Arrivals -> ArrivalRecords] /\ counter \in [Keys -> Nat]
      /\ Len(Limits) \in Nat
  BY LimitsAssumption DEF LimitInv, LimitsTyped
<1>2. /\ arrival[r].key \in Nat /\ arrival'[r].key \in Nat
      /\ \A q \in Arrivals : arrival[q].key \in Nat
      /\ Keys \subseteq Nat
  BY <1>1 DEF ArrivalRecords, Keys
<1>3. ASSUME NEW k \in Keys PROVE counter'[k] <= Cardinality(CountedRequests(k)')
  <2>1. /\ IsFiniteSet(CountedRequests(k)) /\ IsFiniteSet(CountedRequests(k)')
        /\ Cardinality(CountedRequests(k)) \in Nat /\ Cardinality(CountedRequests(k)') \in Nat
    <3>1. CountedRequests(k) \subseteq Arrivals /\ CountedRequests(k)' \subseteq Arrivals
      BY DEF CountedRequests
    <3> QED BY <3>1, FS_Subset, FS_CardinalityType, LimitsAssumption
  <2>2. CountedRequests(k) \subseteq CountedRequests(k)'
    <3> SUFFICES ASSUME NEW q \in CountedRequests(k) PROVE q \in CountedRequests(k)'
      OBVIOUS
    <3>1. CASE q # r
      BY <3>1 DEF CountedRequests
    <3>2. CASE q = r
      <4>1. /\ r \in Arrivals /\ k \in Nat
            /\ \/ arrival[r].key > k
               \/ arrival[r].key = k /\ arrival[r].pc \in {"counted", "refused"}
        BY <1>2, <3>2 DEF CountedRequests
      <4>2. \/ arrival'[r].key > k
            \/ arrival'[r].key = k /\ arrival'[r].pc \in {"counted", "refused"}
        BY <1>2, <4>1
      <4> QED BY <3>2, <4>2 DEF CountedRequests
    <3> QED BY <3>1, <3>2
  <2>3. counter[k] \in Nat /\ counter[k] <= Cardinality(CountedRequests(k))
    BY <1>1 DEF LimitsBounded
  <2>4. CASE counter'[k] = counter[k]
    <3>1. Cardinality(CountedRequests(k)) <= Cardinality(CountedRequests(k)')
      BY <2>1, <2>2, FS_Subset
    <3> QED BY <2>1, <2>3, <2>4, <3>1
  <2>5. CASE counter'[k] # counter[k]
    <3>1. /\ counter'[k] = counter[k] + 1 /\ k = arrival[r].key
          /\ arrival[r].pc = "waiting"
          /\ arrival'[r].key = k => arrival'[r].pc \in {"counted", "refused"}
      BY <2>5
    <3>2. r \notin CountedRequests(k) /\ r \in CountedRequests(k)'
      BY <1>2, <3>1 DEF CountedRequests
    <3>3. /\ IsFiniteSet(CountedRequests(k) \cup {r})
          /\ Cardinality(CountedRequests(k) \cup {r}) = Cardinality(CountedRequests(k)) + 1
      BY <2>1, <3>2, FS_AddElement
    <3>4. Cardinality(CountedRequests(k) \cup {r}) <= Cardinality(CountedRequests(k)')
      BY <2>1, <2>2, <3>2, FS_Subset
    <3> QED BY <2>1, <2>3, <3>1, <3>3, <3>4
  <2> QED BY <2>4, <2>5
<1>4. ASSUME NEW q \in Arrivals
      PROVE  arrival'[q].key \in 1..Len(Limits) + 1 /\ arrival'[q].now \in 0..LastTime
  BY DEF LimitsBounded
<1> QED BY <1>3, <1>4 DEF LimitsBounded

\* Every step of the middleware keeps the bounds.
LEMMA LimitsTypeKept ==
  ASSUME LimitInv, LimitsBounded, [LimitsNext]_limitVars
  PROVE  LimitsBounded'
<1>1. /\ arrival \in [Arrivals -> ArrivalRecords] /\ counter \in [Keys -> Nat]
      /\ expiry \in [Keys -> Nat] /\ time \in 1..LastTime /\ LastTime \in Nat /\ Period \in Nat
      /\ \A k \in Keys : expiry[k] <= LastTime + Period
      /\ \A k \in Keys : counter[k] <= Cardinality(CountedRequests(k))
      /\ time \in Nat
  BY LimitsAssumption DEF LimitInv, LimitsTyped, LimitsBounded, Times
<1>2. ASSUME UNCHANGED <<arrival, counter, expiry>> PROVE LimitsBounded'
  BY <1>2 DEF LimitsBounded, CountedRequests
<1>3. CASE TimePasses \/ UNCHANGED limitVars
  BY <1>2, <1>3 DEF TimePasses, limitVars
<1>4. ASSUME NEW k \in Keys, WindowExpires(k) PROVE LimitsBounded'
  <2>1. /\ counter' = [counter EXCEPT ![k] = 0] /\ expiry' = [expiry EXCEPT ![k] = 0]
        /\ UNCHANGED arrival
    BY <1>4 DEF WindowExpires
  <2>2. \A j \in Keys : CountedRequests(j)' = CountedRequests(j)
    BY <2>1 DEF CountedRequests
  <2>3. \A j \in Keys : Cardinality(CountedRequests(j)) \in Nat
    <3>1. \A j \in Keys : CountedRequests(j) \subseteq Arrivals
      BY DEF CountedRequests
    <3> QED BY <3>1, FS_Subset, FS_CardinalityType, LimitsAssumption
  <2>4. \A j \in Keys : /\ counter'[j] <= Cardinality(CountedRequests(j))
                        /\ expiry'[j] <= LastTime + Period
    <3> TAKE j \in Keys
    <3>1. CASE j = k
      <4>1. counter'[j] = 0 /\ expiry'[j] = 0
        BY <1>1, <2>1, <3>1
      <4> QED BY <1>1, <2>3, <4>1
    <3>2. CASE j # k
      <4>1. counter'[j] = counter[j] /\ expiry'[j] = expiry[j]
        BY <1>1, <2>1, <3>2
      <4> QED BY <1>1, <4>1
    <3> QED BY <3>1, <3>2
  <2> QED BY <2>1, <2>2, <2>4 DEF LimitsBounded
<1>5. ASSUME NEW r \in Arrivals, NEW number, NEW now, Answer(r, number, now),
             arrival[r].key \in Keys, arrival[r].pc # "refused", UNCHANGED counter,
             \A k \in Keys : expiry'[k] <= LastTime + Period
      PROVE  LimitsBounded'
  <2>1. /\ \A q \in Arrivals \ {r} : arrival'[q] = arrival[q]
        /\ arrival'[r].key \in 1..Len(Limits) + 1 /\ arrival'[r].now \in 0..LastTime
        /\ \/ arrival'[r].key = arrival[r].key /\ arrival'[r].pc = "refused"
           \/ arrival'[r].key = arrival[r].key + 1
    BY <1>5, AnsweredRequest
  <2>2. \A k \in Keys : counter'[k] = counter[k]
    BY <1>5
  <2> QED BY <1>5, <2>1, <2>2, RequestCounts
<1>6. ASSUME NEW r \in Arrivals, CountInMemory(r) \/ PipelineRuns(r) \/ BucketAdmits(r)
      PROVE  LimitsBounded'
  <2>1. arrival[r].key \in Keys /\ arrival[r].pc # "refused" /\ UNCHANGED <<counter, expiry>>
    BY <1>6 DEF CountInMemory, PipelineRuns, BucketAdmits, Checking
  <2>2. \E number, now : Answer(r, number, now)
    BY <1>6 DEF CountInMemory, PipelineRuns, BucketAdmits, CountsIn
  <2> QED BY <1>1, <1>5, <2>1, <2>2
<1>7. ASSUME NEW r \in Arrivals, SetsExpiry(r) PROVE LimitsBounded'
  <2>1. /\ arrival[r].key \in Keys /\ arrival[r].pc # "refused" /\ UNCHANGED counter
        /\ expiry' = [expiry EXCEPT ![arrival[r].key] = time + Period]
        /\ Answer(r, 1, arrival[r].now)
    BY <1>7 DEF SetsExpiry, Checking, KeyOf
  <2>2. time + Period <= LastTime + Period
    BY <1>1
  <2>3. \A k \in Keys : expiry'[k] <= LastTime + Period
    BY <1>1, <2>1, <2>2
  <2> QED BY <1>5, <2>1, <2>3
<1>8. ASSUME NEW r \in Arrivals, NEW new \in ArrivalRecords,
             arrival' = [arrival EXCEPT ![r] = new], new.key = arrival[r].key, new.now = time,
             arrival[r].pc = "waiting"
      PROVE  /\ \A q \in Arrivals \ {r} : arrival'[q] = arrival[q]
             /\ arrival'[r] = new
             /\ arrival'[r].key \in 1..Len(Limits) + 1 /\ arrival'[r].now \in 0..LastTime
  <2>1. arrival'[r] = new /\ \A q \in Arrivals \ {r} : arrival'[q] = arrival[q]
    BY <1>1, <1>8
  <2>2. arrival[r].key \in 1..Len(Limits) + 1 /\ time \in 0..LastTime
    BY <1>1 DEF LimitsBounded
  <2> QED BY <1>8, <2>1, <2>2
<1>9. ASSUME NEW r \in Arrivals, ReadsTime(r) PROVE LimitsBounded'
  <2> DEFINE new == [[arrival[r] EXCEPT !.pc = "stamped"] EXCEPT !.now = time]
  <2>1. /\ new \in ArrivalRecords /\ new.key = arrival[r].key /\ new.now = time
        /\ arrival' = [arrival EXCEPT ![r] = new] /\ arrival[r].pc = "waiting"
        /\ UNCHANGED <<counter, expiry>>
    BY <1>1, <1>9 DEF ReadsTime, Checking, ArrivalRecords, ArrivalPlaces
  <2> HIDE DEF new
  <2>2. /\ \A q \in Arrivals \ {r} : arrival'[q] = arrival[q]
        /\ arrival'[r].key \in 1..Len(Limits) + 1 /\ arrival'[r].now \in 0..LastTime
        /\ arrival'[r].key = arrival[r].key
    BY <1>8, <2>1
  <2> QED BY <1>1, <2>1, <2>2, RequestCounts
<1>10. ASSUME NEW r \in Arrivals, Increments(r) PROVE LimitsBounded'
  <2>1. /\ arrival[r].key \in Keys /\ arrival[r].pc = "waiting" /\ UNCHANGED expiry
        /\ counter' = [counter EXCEPT ![arrival[r].key] = @ + 1]
    BY <1>10 DEF Increments, Checking, KeyOf
  <2>2. \A k \in Keys : counter'[k] = IF k = arrival[r].key THEN counter[k] + 1 ELSE counter[k]
    BY <1>1, <2>1
  <2>3. CASE counter[arrival[r].key] = 0
    <3> DEFINE new == [[arrival[r] EXCEPT !.pc = "counted"] EXCEPT !.now = time]
    <3>1. /\ new \in ArrivalRecords /\ new.key = arrival[r].key /\ new.now = time
          /\ new.pc = "counted" /\ arrival' = [arrival EXCEPT ![r] = new]
      BY <1>1, <1>10, <2>3 DEF Increments, KeyOf, ArrivalRecords, ArrivalPlaces
    <3> HIDE DEF new
    <3>2. /\ \A q \in Arrivals \ {r} : arrival'[q] = arrival[q]
          /\ arrival'[r].key \in 1..Len(Limits) + 1 /\ arrival'[r].now \in 0..LastTime
          /\ arrival'[r].key = arrival[r].key /\ arrival'[r].pc = "counted"
      BY <1>8, <2>1, <3>1
    <3> QED BY <1>1, <2>1, <2>2, <3>2, RequestCounts
  <2>4. CASE counter[arrival[r].key] # 0
    <3>1. Answer(r, counter[arrival[r].key] + 1, time)
      BY <1>10, <2>4 DEF Increments, KeyOf
    <3>2. /\ \A q \in Arrivals \ {r} : arrival'[q] = arrival[q]
          /\ arrival'[r].key \in 1..Len(Limits) + 1 /\ arrival'[r].now \in 0..LastTime
          /\ \/ arrival'[r].key = arrival[r].key /\ arrival'[r].pc = "refused"
             \/ arrival'[r].key = arrival[r].key + 1
      BY <2>1, <3>1, AnsweredRequest
    <3>3. \A k \in Keys :
            \/ counter'[k] = counter[k]
            \/ /\ counter'[k] = counter[k] + 1 /\ k = arrival[r].key
               /\ arrival[r].pc = "waiting"
               /\ arrival'[r].key = k => arrival'[r].pc \in {"counted", "refused"}
      <4>1. arrival[r].key + 1 # arrival[r].key
        BY <1>1 DEF ArrivalRecords
      <4> QED BY <2>1, <2>2, <3>2, <4>1
    <3> QED BY <1>1, <2>1, <3>2, <3>3, RequestCounts
  <2> QED BY <2>3, <2>4
<1> QED BY <1>3, <1>4, <1>6, <1>7, <1>9, <1>10 DEF LimitsNext

\* The requests, logs and counters of the middleware have the types of the module.
LEMMA LimitsTypeCorrect == LimitsSpec => []LimitsTypeOK
<1>1. LimitsInit => LimitsBounded
  <2> SUFFICES ASSUME LimitsInit PROVE LimitsBounded
    OBVIOUS
  <2>1. 1 \in 1..Len(Limits) + 1 /\ 0 \in 0..LastTime /\ 0 <= LastTime + Period
    BY LimitsAssumption
  <2>2. \A r \in Arrivals : arrival[r].key = 1 /\ arrival[r].now = 0
    BY DEF LimitsInit, Waiting
  <2>3. \A k \in Keys : Cardinality(CountedRequests(k)) \in Nat
    <3>1. \A k \in Keys : CountedRequests(k) \subseteq Arrivals
      BY DEF CountedRequests
    <3> QED BY <3>1, FS_Subset, FS_CardinalityType, LimitsAssumption
  <2>4. \A k \in Keys : counter[k] = 0 /\ expiry[k] = 0
    BY DEF LimitsInit
  <2> QED BY <2>1, <2>2, <2>3, <2>4 DEF LimitsBounded
<1>2. LimitInv /\ LimitsBounded /\ [LimitsNext]_limitVars => LimitsBounded'
  BY LimitsTypeKept
<1>3. LimitInv /\ LimitsBounded => LimitsTypeOK
  <2> SUFFICES ASSUME LimitInv, LimitsBounded PROVE LimitsTypeOK
    OBVIOUS
  <2>1. counter \in [Keys -> 0..Cardinality(Arrivals)]
    <3>1. ASSUME NEW k \in Keys PROVE counter[k] \in 0..Cardinality(Arrivals)
      <4>1. /\ Cardinality(CountedRequests(k)) <= Cardinality(Arrivals)
            /\ Cardinality(CountedRequests(k)) \in Nat /\ Cardinality(Arrivals) \in Nat
        <5>1. CountedRequests(k) \subseteq Arrivals
          BY DEF CountedRequests
        <5> QED BY <5>1, FS_Subset, FS_CardinalityType, LimitsAssumption
      <4>2. counter[k] \in Nat /\ counter[k] <= Cardinality(CountedRequests(k))
        BY DEF LimitInv, LimitsTyped, LimitsBounded
      <4> QED BY <4>1, <4>2
    <3> QED BY <3>1 DEF LimitInv, LimitsTyped
  <2>2. expiry \in [Keys -> 0..LastTime + Period]
    <3>1. \A k \in Keys : expiry[k] \in 0..LastTime + Period
      BY LimitsAssumption DEF LimitInv, LimitsTyped, LimitsBounded
    <3> QED BY <3>1 DEF LimitInv, LimitsTyped
  <2>3. arrival \in [Arrivals -> [pc: ArrivalPlaces, key: 1..Len(Limits) + 1, now: 0..LastTime]]
    BY DEF LimitInv, LimitsTyped, LimitsBounded, ArrivalRecords
  <2> QED BY <2>1, <2>2, <2>3 DEF LimitInv, LimitsTyped, LimitsTypeOK, ArrivalPlaces, Times
<1> QED BY <1>1, <1>2, <1>3, LimitsInductive, PTL DEF LimitsSpec

--------------------------------------------------------------------------------
(***************************************************************************)
(* ToolRateLimiter: what a bucket grants.                                 *)
(***************************************************************************)
BucketsSpec == BucketsInit /\ [][BucketsNext]_bucketVars

CheckPlaces == {"asks", "script", "allowed", "refused"}
Checkings == [pc: CheckPlaces, scope: Nat, now: Nat]
Buckets == [tokens: Nat, last: Nat, capacity: Nat]
Grants == [tokens: Nat, since: Nat, capacity: Nat]

\* What was granted and what is left came with the bucket, or since then.
Balanced(b, g) ==
  b # NoBucket =>
    /\ b.last <= seconds
    /\ g.tokens + b.tokens <= g.capacity + Rate * (b.last - g.since)

BucketInv ==
  /\ redis \in BOOLEAN /\ seconds \in Nat
  /\ capacity \in [Scope -> Nat \ {0}]
  /\ bucket \in [Scope -> Buckets] /\ granted \in [Scope -> Grants]
  /\ check \in [Checks -> Checkings]
  /\ \A k \in Checks : /\ check[k].now <= seconds
                       /\ check[k].pc = "script" => redis
  /\ \A s \in Scope : Balanced(bucket[s], granted[s])

\* What comes back adds up, also when the time goes back.
LEMMA RateAddsUp ==
  ASSUME NEW now \in Int, NEW last \in Int, NEW since \in Int
  PROVE  /\ Rate * (now - since) = Rate * (last - since) + (now - last) * Rate
         /\ Rate * (now - since) \in Int /\ Rate * (last - since) \in Int
         /\ (now - last) * Rate \in Int
         /\ now >= last => (now - last) * Rate >= 0
<1>1. Rate \in Int /\ Rate >= 0
  BY BucketAssumption
<1>2. Rate * (now - since) = Rate * (last - since) + (now - last) * Rate
  BY <1>1
<1>3. now >= last => (now - last) * Rate >= 0
  BY <1>1
<1> QED BY <1>1, <1>2, <1>3

\* A bucket after it was asked at a time, which only without Redis must be after
\* its last refill.
LEMMA AskedBucket ==
  ASSUME BucketInv, NEW s \in Scope, NEW now \in Nat, now <= seconds,
         redis \/ now = seconds
  PROVE  LET tokens == Tokens(s, now)
             cap == Capacity(s)
         IN  /\ cap \in Nat /\ tokens \in Int
             /\ ~redis => tokens \in Nat
             /\ bucket[s] = NoBucket => tokens = cap /\ tokens \in Nat \ {0}
             /\ bucket[s] # NoBucket =>
                  granted[s].tokens + tokens
                    <= granted[s].capacity + Rate * (now - granted[s].since)
<1> DEFINE b == bucket[s]
           g == granted[s]
           t == b.tokens + (now - b.last) * Rate
<1>1. /\ b \in Buckets /\ g \in Grants /\ capacity[s] \in Nat \ {0}
      /\ Balanced(b, g) /\ seconds \in Nat
  BY DEF BucketInv
<1>2. /\ b.tokens \in Nat /\ b.last \in Nat /\ b.capacity \in Nat
      /\ g.tokens \in Nat /\ g.since \in Nat /\ g.capacity \in Nat
  BY <1>1 DEF Buckets, Grants
<1>3. Capacity(s) \in Nat
  BY <1>1, <1>2 DEF Capacity
<1>4. CASE b = NoBucket
  BY <1>1, <1>3, <1>4 DEF Tokens, Capacity
<1>5. CASE b # NoBucket
  <2>1. /\ b.last <= seconds
        /\ g.tokens + b.tokens <= g.capacity + Rate * (b.last - g.since)
    BY <1>1, <1>5 DEF Balanced
  <2>2. Tokens(s, now) = IF t < Capacity(s) THEN t ELSE Capacity(s)
    BY <1>5 DEF Tokens, Refilled
  <2>3. /\ Rate * (now - g.since) = Rate * (b.last - g.since) + (now - b.last) * Rate
        /\ Rate * (now - g.since) \in Int /\ Rate * (b.last - g.since) \in Int
        /\ (now - b.last) * Rate \in Int
        /\ now >= b.last => (now - b.last) * Rate >= 0
    <3>1. now \in Int /\ b.last \in Int /\ g.since \in Int
      BY <1>2
    <3> QED BY <3>1, RateAddsUp, Zenon
  <2>4. t \in Int /\ (~redis => t >= 0)
    BY <1>1, <1>2, <2>1, <2>3
  <2>5. g.tokens + t <= g.capacity + Rate * (now - g.since)
    BY <1>2, <2>1, <2>3
  <2>6. Tokens(s, now) \in Int /\ Tokens(s, now) <= t
    BY <1>3, <2>2, <2>4
  <2>7. ~redis => Tokens(s, now) \in Nat
    BY <1>3, <2>2, <2>4
  <2>8. g.tokens + Tokens(s, now) <= g.capacity + Rate * (now - g.since)
    <3> HIDE DEF t
    <3> QED BY <1>2, <2>3, <2>4, <2>5, <2>6
  <2> QED BY <1>3, <1>5, <2>6, <2>7, <2>8
<1> QED BY <1>4, <1>5

\* A step that moves one check and touches one bucket at most.
LEMMA BucketMoves ==
  ASSUME BucketInv, NEW k \in Checks, NEW new \in Checkings,
         check' = [check EXCEPT ![k] = new], new.now <= seconds,
         new.pc = "script" => redis,
         NEW s, NEW b, NEW g,
         s \in Scope => b \in Buckets /\ g \in Grants /\ Balanced(b, g),
         bucket' = [bucket EXCEPT ![s] = b], granted' = [granted EXCEPT ![s] = g],
         redis' = redis, seconds' = seconds, capacity' = capacity
  PROVE  BucketInv'
<1>1. check' \in [Checks -> Checkings]
  BY DEF BucketInv
<1>2. \A j \in Checks : check'[j].now <= seconds /\ (check'[j].pc = "script" => redis)
  BY DEF BucketInv
<1>3. bucket' \in [Scope -> Buckets] /\ granted' \in [Scope -> Grants]
  BY DEF BucketInv
<1>4. \A r \in Scope : Balanced(bucket'[r], granted'[r])
  BY DEF BucketInv
<1>5. \A r \in Scope : Balanced(bucket[r], granted[r])'
  BY <1>4 DEF Balanced
<1>6. /\ redis' \in BOOLEAN /\ seconds' \in Nat /\ capacity' \in [Scope -> Nat \ {0}]
      /\ \A j \in Checks : check'[j].now <= seconds' /\ (check'[j].pc = "script" => redis')
  BY <1>2 DEF BucketInv
<1> QED BY <1>1, <1>3, <1>5, <1>6 DEF BucketInv

\* The script takes a token, or refuses.
LEMMA ConsumeKeeps ==
  ASSUME BucketInv, NEW k \in Checks, NEW now \in Nat, now <= seconds,
         redis \/ now = seconds, Consume(k, now),
         redis' = redis, seconds' = seconds, capacity' = capacity
  PROVE  BucketInv'
<1> DEFINE s == check[k].scope
           tokens == Tokens(s, now)
           kept == [tokens |-> tokens, last |-> now, capacity |-> Capacity(s)]
<1>1. /\ check[k] \in Checkings /\ s \in Nat /\ seconds \in Nat
      /\ check[k].now \in Nat /\ check[k].now <= seconds
  BY DEF BucketInv, Checkings
<1>2. bucket = [bucket EXCEPT ![s] = bucket[s]] /\ granted = [granted EXCEPT ![s] = granted[s]]
  BY DEF BucketInv
<1>3. s \in Scope => bucket[s] \in Buckets /\ granted[s] \in Grants /\ Balanced(bucket[s], granted[s])
  BY DEF BucketInv
<1>4. s \in Scope =>
        /\ Capacity(s) \in Nat /\ tokens \in Int
        /\ ~redis => tokens \in Nat
        /\ bucket[s] = NoBucket => tokens = Capacity(s) /\ tokens \in Nat \ {0}
        /\ bucket[s] # NoBucket =>
             granted[s].tokens + tokens
               <= granted[s].capacity + Rate * (now - granted[s].since)
  BY AskedBucket
<1>5. CASE tokens >= 1
  <2> DEFINE b == [tokens |-> tokens - 1, last |-> now, capacity |-> Capacity(s)]
             g == IF bucket[s] = NoBucket
                  THEN [tokens |-> 1, since |-> now, capacity |-> Capacity(s)]
                  ELSE [granted[s] EXCEPT !.tokens = @ + 1]
             new == [pc |-> IF s = Len(Scopes) THEN "allowed" ELSE "asks",
                     scope |-> s + 1, now |-> 0]
  <2>1. /\ bucket' = [bucket EXCEPT ![s] = b] /\ check' = [check EXCEPT ![k] = new]
        /\ granted' = [granted EXCEPT ![s] = g]
    <3>1. [kept EXCEPT !.tokens = @ - 1] = b
      OBVIOUS
    <3>2. bucket' = [bucket EXCEPT ![s] = [kept EXCEPT !.tokens = @ - 1]]
      BY <1>5, Zenon DEF Consume, LastRefill
    <3>3. check' = [check EXCEPT ![k] = new]
      BY <1>5, Zenon DEF Consume
    <3>4. bucket' = [bucket EXCEPT ![s] = b]
      <4> HIDE DEF kept, b, s
      <4> QED BY <3>1, <3>2
    <3>5. granted' = [granted EXCEPT ![s] = g]
      <4>1. CASE bucket[s] = NoBucket
        BY <1>5, <4>1 DEF Consume
      <4>2. CASE bucket[s] # NoBucket
        BY <1>5, <4>2 DEF Consume
      <4> QED BY <4>1, <4>2
    <3> QED BY <3>3, <3>4, <3>5, Zenon
  <2>2. new \in Checkings /\ new.now <= seconds /\ new.pc # "script"
    BY <1>1 DEF Checkings, CheckPlaces
  <2>3. ASSUME s \in Scope PROVE b \in Buckets /\ g \in Grants /\ Balanced(b, g)
    <3>1. Capacity(s) \in Nat /\ tokens - 1 \in Nat
      BY <1>4, <1>5, <2>3
    <3>2. b \in Buckets
      <4> HIDE DEF tokens
      <4> QED BY <3>1 DEF Buckets
    <3>3. CASE bucket[s] = NoBucket
      <4>1. g = [tokens |-> 1, since |-> now, capacity |-> Capacity(s)]
        BY <3>3
      <4>2. g \in Grants
        BY <3>1, <4>1 DEF Grants
      <4>3. tokens = Capacity(s) /\ Rate * (now - now) = 0
        BY <1>4, <2>3, <3>3, BucketAssumption
      <4>4. Balanced(b, g)
        BY <3>1, <4>1, <4>3 DEF Balanced
      <4> QED BY <3>2, <4>2, <4>4
    <3>4. CASE bucket[s] # NoBucket
      <4>1. g = [granted[s] EXCEPT !.tokens = @ + 1]
        BY <3>4
      <4>2. g \in Grants /\ g.tokens = granted[s].tokens + 1
            /\ g.capacity = granted[s].capacity /\ g.since = granted[s].since
        BY <1>3, <2>3, <4>1 DEF Grants
      <4>3. granted[s].tokens + tokens <= g.capacity + Rate * (now - g.since)
        BY <1>4, <2>3, <3>4, <4>2
      <4>4. granted[s].tokens \in Nat /\ g.tokens + b.tokens = granted[s].tokens + tokens
        BY <1>3, <1>4, <2>3, <4>2 DEF Grants
      <4>5. Balanced(b, g)
        BY <4>3, <4>4 DEF Balanced
      <4> QED BY <3>2, <4>2, <4>5
    <3> QED BY <3>3, <3>4
  <2> HIDE DEF b, g, new, s
  <2> QED BY <2>1, <2>2, <2>3, BucketMoves
<1>6. CASE ~(tokens >= 1)
  <2> DEFINE new == [check[k] EXCEPT !.pc = "refused"]
  <2>1. check' = [check EXCEPT ![k] = new] /\ granted' = granted
    BY <1>6 DEF Consume, BucketInv, Checkings
  <2>2. new \in Checkings /\ new.now <= seconds /\ new.pc # "script"
    BY <1>1 DEF Checkings, CheckPlaces
  <2>3. CASE redis
    <3>1. bucket' = [bucket EXCEPT ![s] = bucket[s]] /\ granted' = [granted EXCEPT ![s] = granted[s]]
      BY <1>2, <1>6, <2>1, <2>3 DEF Consume
    <3> HIDE DEF s, new
    <3> QED BY <1>3, <2>1, <2>2, <3>1, BucketMoves
  <2>4. CASE ~redis
    <3>1. bucket' = [bucket EXCEPT ![s] = kept] /\ granted' = [granted EXCEPT ![s] = granted[s]]
      BY <1>2, <1>6, <2>1, <2>4 DEF Consume, LastRefill
    <3>2. ASSUME s \in Scope PROVE kept \in Buckets /\ Balanced(kept, granted[s])
      <4>1. Capacity(s) \in Nat /\ tokens \in Nat /\ bucket[s] # NoBucket
        BY <1>4, <1>6, <2>4, <3>2
      <4>2. kept \in Buckets
        <5> HIDE DEF tokens
        <5> QED BY <4>1 DEF Buckets
      <4>3. granted[s].tokens + tokens
              <= granted[s].capacity + Rate * (now - granted[s].since)
        BY <1>4, <3>2, <4>1
      <4> QED BY <4>2, <4>3 DEF Balanced
    <3> HIDE DEF s, new, kept
    <3> QED BY <1>3, <2>1, <2>2, <3>1, <3>2, BucketMoves
  <2> QED BY <2>3, <2>4
<1> QED BY <1>5, <1>6

\* A behaviour of Services is one of the limiter of the tools.
LEMMA BucketsOfServices == Spec => BucketsSpec
<1>1. Init => BucketsInit
  BY DEF Init
<1>2. [Next]_vars => [BucketsNext]_bucketVars
  BY DEF Next, OthersRest, vars
<1> QED BY <1>1, <1>2, PTL DEF Spec, BucketsSpec

LEMMA BucketInductive == BucketsSpec => []BucketInv
<1>1. BucketsInit => BucketInv
  <2> SUFFICES ASSUME BucketsInit PROVE BucketInv
    OBVIOUS
  <2>1. (CHOOSE c \in Capacities : TRUE) \in Nat \ {0}
    BY BucketAssumption
  <2>2. NoBucket \in Buckets
    BY DEF NoBucket, Buckets
  <2>3. [tokens |-> 0, since |-> 0, capacity |-> 0] \in Grants
    BY DEF Grants
  <2>4. [pc |-> "asks", scope |-> 1, now |-> 0] \in Checkings
    BY DEF Checkings, CheckPlaces
  <2>5. \A k \in Checks : check[k].now = 0 /\ check[k].pc = "asks"
    BY DEF BucketsInit
  <2>6. /\ capacity \in [Scope -> Nat \ {0}] /\ bucket \in [Scope -> Buckets]
        /\ granted \in [Scope -> Grants] /\ check \in [Checks -> Checkings]
    BY <2>1, <2>2, <2>3, <2>4 DEF BucketsInit
  <2>7. \A s \in Scope : Balanced(bucket[s], granted[s])
    BY DEF BucketsInit, Balanced
  <2>8. redis \in BOOLEAN /\ seconds = 0
    BY DEF BucketsInit
  <2> QED BY <2>5, <2>6, <2>7, <2>8 DEF BucketInv
<1>2. BucketInv /\ [BucketsNext]_bucketVars => BucketInv'
  <2> SUFFICES ASSUME BucketInv, [BucketsNext]_bucketVars PROVE BucketInv'
    OBVIOUS
  <2>1. CASE SecondPasses
    <3>1. seconds \in Nat /\ seconds' = seconds + 1
      BY <2>1 DEF SecondPasses, BucketInv
    <3>2. \A s \in Scope : bucket[s].last \in Nat
      BY DEF BucketInv, Buckets
    <3>3. \A s \in Scope : Balanced(bucket[s], granted[s])'
      BY <2>1, <3>1, <3>2 DEF SecondPasses, Balanced, BucketInv
    <3>4. \A k \in Checks : check[k].now <= seconds'
      BY <3>1 DEF BucketInv, Checkings
    <3> QED BY <2>1, <3>1, <3>3, <3>4 DEF SecondPasses, BucketInv
  <2>2. ASSUME NEW s \in Scope, ResetLimit(s) PROVE BucketInv'
    <3>1. bucket' \in [Scope -> Buckets]
      BY <2>2 DEF ResetLimit, BucketInv, NoBucket, Buckets
    <3>2. \A r \in Scope : bucket'[r] = IF r = s THEN NoBucket ELSE bucket[r]
      BY <2>2 DEF ResetLimit, BucketInv
    <3>3. \A r \in Scope : Balanced(bucket[r], granted[r])'
      BY <2>2, <3>2 DEF ResetLimit, Balanced, BucketInv
    <3> QED BY <2>2, <3>1, <3>3 DEF ResetLimit, BucketInv
  <2>3. ASSUME NEW s \in Scope, NEW c \in Capacities, ConfigureLimit(s, c)
        PROVE  BucketInv'
    <3>1. capacity' \in [Scope -> Nat \ {0}]
      BY <2>3, BucketAssumption DEF ConfigureLimit, BucketInv
    <3> QED BY <2>3, <3>1 DEF ConfigureLimit, BucketInv, Balanced
  <2>4. ASSUME NEW k \in Checks, CheckLocally(k) PROVE BucketInv'
    <3>1. seconds \in Nat /\ seconds <= seconds
      BY DEF BucketInv
    <3> QED BY <2>4, <3>1, ConsumeKeeps DEF CheckLocally
  <2>5. ASSUME NEW k \in Checks, AsksScript(k) PROVE BucketInv'
    <3> DEFINE new == [check[k] EXCEPT !.pc = "script", !.now = seconds]
    <3>1. check[k] \in Checkings /\ seconds \in Nat
      BY DEF BucketInv
    <3>2. new \in Checkings /\ new.now = seconds
      BY <3>1 DEF Checkings, CheckPlaces
    <3>3. check' = [check EXCEPT ![k] = new]
      BY <2>5 DEF AsksScript, BucketInv, Checkings
    <3>4. \A j \in Checks : check'[j] = IF j = k THEN new ELSE check[j]
      BY <3>3 DEF BucketInv
    <3>5. check' \in [Checks -> Checkings]
      BY <3>2, <3>3 DEF BucketInv
    <3>6. \A j \in Checks : check'[j].now <= seconds /\ (check'[j].pc = "script" => redis)
      <4> HIDE DEF new
      <4> QED BY <2>5, <3>1, <3>2, <3>4 DEF AsksScript, BucketInv
    <3> QED BY <2>5, <3>5, <3>6 DEF AsksScript, BucketInv, Balanced
  <2>6. ASSUME NEW k \in Checks, ScriptRuns(k) PROVE BucketInv'
    <3>1. check[k].now \in Nat /\ check[k].now <= seconds /\ redis
      BY <2>6 DEF ScriptRuns, BucketInv, Checkings
    <3> QED BY <2>6, <3>1, ConsumeKeeps DEF ScriptRuns
  <2>7. CASE UNCHANGED bucketVars
    BY <2>7 DEF bucketVars, BucketInv, Balanced
  <2> QED BY <2>1, <2>2, <2>3, <2>4, <2>5, <2>6, <2>7 DEF BucketsNext
<1> QED BY <1>1, <1>2, PTL DEF BucketsSpec

\* A bucket grants no more than its capacity and what has come back.
LEMMA BucketBoundedAlways == Spec => []BucketBounded
<1>1. BucketInv => BucketBounded
  <2> SUFFICES ASSUME BucketInv, NEW s \in Scope, bucket[s] # NoBucket
               PROVE  granted[s].tokens
                        <= granted[s].capacity + Rate * (seconds - granted[s].since)
    BY DEF BucketBounded
  <2>1. /\ bucket[s].tokens \in Nat /\ bucket[s].last \in Nat /\ seconds \in Nat
        /\ granted[s].tokens \in Nat /\ granted[s].since \in Nat
        /\ granted[s].capacity \in Nat
        /\ bucket[s].last <= seconds
        /\ granted[s].tokens + bucket[s].tokens
             <= granted[s].capacity + Rate * (bucket[s].last - granted[s].since)
    BY DEF BucketInv, Buckets, Grants, Balanced
  <2>2. /\ Rate * (seconds - granted[s].since)
             = Rate * (bucket[s].last - granted[s].since)
                 + (seconds - bucket[s].last) * Rate
        /\ Rate * (seconds - granted[s].since) \in Int
        /\ Rate * (bucket[s].last - granted[s].since) \in Int
        /\ (seconds - bucket[s].last) * Rate \in Int
        /\ (seconds - bucket[s].last) * Rate >= 0
    <3>1. seconds \in Int /\ bucket[s].last \in Int /\ granted[s].since \in Int
      BY <2>1
    <3>2. seconds >= bucket[s].last
      BY <2>1
    <3> QED BY <3>1, <3>2, RateAddsUp, Zenon
  <2> DEFINE all == Rate * (seconds - granted[s].since)
             until == Rate * (bucket[s].last - granted[s].since)
             more == (seconds - bucket[s].last) * Rate
  <2>3. /\ all = until + more /\ all \in Int /\ until \in Int /\ more \in Int /\ more >= 0
        /\ granted[s].tokens + bucket[s].tokens <= granted[s].capacity + until
    BY <2>1, <2>2, Zenon
  <2>4. granted[s].tokens <= granted[s].capacity + all
    <3> HIDE DEF all, until, more
    <3> QED BY <2>1, <2>3
  <2> QED BY <2>4
<1> QED BY <1>1, BucketInductive, BucketsOfServices, PTL

\* The types of the buckets.  A call that still asks has a key to ask for.
BucketsTyped ==
  /\ seconds <= EndOfTime /\ capacity \in [Scope -> Capacities]
  /\ \A s \in Scope :
       /\ bucket[s].capacity \in Capacities \cup {0}
       /\ granted[s].since <= EndOfTime /\ granted[s].capacity \in Capacities \cup {0}
  /\ \A k \in Checks :
       /\ check[k].scope \in 1..Len(Scopes) + 1
       /\ check[k].pc \in {"asks", "script"} => check[k].scope \in Scope

LEMMA ConsumeTyped ==
  ASSUME BucketInv, BucketsTyped, NEW k \in Checks, NEW now \in Nat, now <= seconds,
         Consume(k, now), check[k].scope \in Scope,
         seconds' = seconds, capacity' = capacity
  PROVE  BucketsTyped'
<1> DEFINE s == check[k].scope
<1>1. /\ seconds \in Nat /\ EndOfTime \in Nat /\ Len(Scopes) \in Nat \ {0}
      /\ bucket \in [Scope -> Buckets] /\ granted \in [Scope -> Grants]
      /\ check \in [Checks -> Checkings] /\ seconds <= EndOfTime
  BY BucketAssumption DEF BucketInv, BucketsTyped
<1>2. PICK cap : cap = Capacity(s)
  OBVIOUS
<1>3. cap \in Capacities \cup {0}
  BY <1>2 DEF Capacity, BucketsTyped
<1>4. PICK tokens : tokens = Tokens(s, now)
  OBVIOUS
<1>5. /\ \A r \in Scope : bucket'[r].capacity \in {bucket[r].capacity, cap}
      /\ \A r \in Scope : /\ granted'[r].since \in {granted[r].since, now}
                          /\ granted'[r].capacity \in {granted[r].capacity, cap}
      /\ \A j \in Checks : j # k => check'[j] = check[j]
      /\ \/ check'[k].scope = s /\ check'[k].pc = "refused"
         \/ /\ check'[k].scope = s + 1
            /\ check'[k].pc = IF s = Len(Scopes) THEN "allowed" ELSE "asks"
  <2> DEFINE kept == [tokens |-> tokens, last |-> now, capacity |-> cap]
  <2>1. CASE tokens >= 1
    <3>1. PICK b : b = [kept EXCEPT !.tokens = @ - 1]
      OBVIOUS
    <3>2. bucket' = [bucket EXCEPT ![s] = b]
      BY <1>2, <1>4, <2>1, <3>1 DEF Consume, LastRefill
    <3>3. PICK g : g = IF bucket[s] = NoBucket
                       THEN [tokens |-> 1, since |-> now, capacity |-> cap]
                       ELSE [granted[s] EXCEPT !.tokens = @ + 1]
      OBVIOUS
    <3>4. granted' = [granted EXCEPT ![s] = g]
      BY <1>2, <1>4, <2>1, <3>3 DEF Consume
    <3>5. PICK new : new = [pc |-> IF s = Len(Scopes) THEN "allowed" ELSE "asks",
                            scope |-> s + 1, now |-> 0]
      OBVIOUS
    <3>6. check' = [check EXCEPT ![k] = new]
      BY <1>4, <2>1, <3>5 DEF Consume
    <3>7. b.capacity = cap
      BY <3>1
    <3>8. granted[s] \in Grants
      BY <1>1
    <3>9. g.since \in {granted[s].since, now} /\ g.capacity \in {granted[s].capacity, cap}
      BY <3>3, <3>8 DEF Grants
    <3>10. new.scope = s + 1 /\ new.pc = IF s = Len(Scopes) THEN "allowed" ELSE "asks"
      BY <3>5
    <3> QED BY <1>1, <3>2, <3>4, <3>6, <3>7, <3>9, <3>10
  <2>2. CASE ~(tokens >= 1)
    <3>1. granted' = granted
      BY <1>4, <2>2 DEF Consume
    <3>2. check' = [check EXCEPT ![k] = [check[k] EXCEPT !.pc = "refused"]]
      BY <1>1, <1>4, <2>2 DEF Consume
    <3>3. check[k] \in Checkings
      BY <1>1
    <3>4. check'[k] = [check[k] EXCEPT !.pc = "refused"]
      BY <1>1, <3>2
    <3>5. check'[k].scope = s /\ check'[k].pc = "refused"
      BY <3>3, <3>4 DEF Checkings
    <3>6. bucket' = bucket \/ bucket' = [bucket EXCEPT ![s] = kept]
      BY <1>2, <1>4, <2>2 DEF Consume, LastRefill
    <3>7. \A r \in Scope : bucket'[r].capacity \in {bucket[r].capacity, cap}
      BY <1>1, <3>6
    <3> QED BY <1>1, <3>1, <3>2, <3>5, <3>7
  <2> QED BY <2>1, <2>2
<1>6. /\ s \in 1..Len(Scopes) + 1 /\ s + 1 \in 1..Len(Scopes) + 1
      /\ s # Len(Scopes) => s + 1 \in Scope
  BY <1>1 DEF Scope
<1>7. ASSUME NEW r \in Scope
      PROVE  /\ bucket'[r].capacity \in Capacities \cup {0}
             /\ granted'[r].since <= EndOfTime /\ granted'[r].capacity \in Capacities \cup {0}
  <2>1. granted[r].since \in Nat
    BY <1>1 DEF Grants
  <2> QED BY <1>1, <1>3, <1>5, <2>1 DEF BucketsTyped
<1>8. ASSUME NEW j \in Checks
      PROVE  /\ check'[j].scope \in 1..Len(Scopes) + 1
             /\ check'[j].pc \in {"asks", "script"} => check'[j].scope \in Scope
  <2>1. CASE j = k
    <3> HIDE DEF s
    <3> QED BY <1>5, <1>6, <2>1
  <2>2. CASE j # k
    BY <1>5, <2>2 DEF BucketsTyped
  <2> QED BY <2>1, <2>2
<1> QED BY <1>7, <1>8 DEF BucketsTyped

LEMMA BucketsTypeKept ==
  ASSUME BucketInv, BucketsTyped, [BucketsNext]_bucketVars
  PROVE  BucketsTyped'
<1>1. /\ seconds \in Nat /\ EndOfTime \in Nat
      /\ bucket \in [Scope -> Buckets] /\ check \in [Checks -> Checkings]
  BY BucketAssumption DEF BucketInv
<1>2. CASE SecondPasses
  BY <1>1, <1>2 DEF SecondPasses, BucketsTyped
<1>3. ASSUME NEW s \in Scope, ResetLimit(s) PROVE BucketsTyped'
  <2>1. \A r \in Scope : bucket'[r] = IF r = s THEN NoBucket ELSE bucket[r]
    BY <1>1, <1>3 DEF ResetLimit
  <2>2. \A r \in Scope : bucket'[r].capacity \in Capacities \cup {0}
    BY <2>1 DEF BucketsTyped, NoBucket
  <2> QED BY <1>3, <2>2 DEF ResetLimit, BucketsTyped
<1>4. ASSUME NEW s \in Scope, NEW c \in Capacities, ConfigureLimit(s, c)
      PROVE  BucketsTyped'
  BY <1>4 DEF ConfigureLimit, BucketsTyped
<1>5. ASSUME NEW k \in Checks, CheckLocally(k) PROVE BucketsTyped'
  BY <1>1, <1>5, ConsumeTyped DEF CheckLocally, BucketsTyped
<1>6. ASSUME NEW k \in Checks, AsksScript(k) PROVE BucketsTyped'
  <2>1. check' = [check EXCEPT ![k].pc = "script", ![k].now = seconds]
        /\ check[k].pc = "asks" /\ check[k] \in Checkings
    BY <1>1, <1>6 DEF AsksScript
  <2>2. \A j \in Checks : j # k => check'[j] = check[j]
    BY <1>1, <2>1
  <2>3. check'[k].scope = check[k].scope
    BY <1>1, <2>1 DEF Checkings
  <2>4. check[k].scope \in Scope
    BY <2>1 DEF BucketsTyped
  <2>5. \A j \in Checks :
          /\ check'[j].scope \in 1..Len(Scopes) + 1
          /\ check'[j].pc \in {"asks", "script"} => check'[j].scope \in Scope
    BY <2>2, <2>3, <2>4 DEF BucketsTyped
  <2> QED BY <1>6, <2>5 DEF AsksScript, BucketsTyped
<1>7. ASSUME NEW k \in Checks, ScriptRuns(k) PROVE BucketsTyped'
  <2>1. check[k].now \in Nat /\ check[k].now <= seconds
    BY <1>1 DEF BucketInv, Checkings
  <2> QED BY <1>7, <2>1, ConsumeTyped DEF ScriptRuns, BucketsTyped
<1>8. CASE UNCHANGED bucketVars
  BY <1>8 DEF bucketVars, BucketsTyped
<1> QED BY <1>2, <1>3, <1>4, <1>5, <1>6, <1>7, <1>8 DEF BucketsNext

LEMMA BucketsTypeCorrect == BucketsSpec => []BucketsTypeOK
<1>1. BucketsInit => BucketsTyped
  <2> SUFFICES ASSUME BucketsInit PROVE BucketsTyped
    OBVIOUS
  <2>1. /\ 1 \in Scope /\ 1 \in 1..Len(Scopes) + 1 /\ 0 <= EndOfTime
        /\ (CHOOSE c \in Capacities : TRUE) \in Capacities
    BY BucketAssumption DEF Scope
  <2>2. capacity \in [Scope -> Capacities]
    BY <2>1 DEF BucketsInit
  <2>3. \A s \in Scope : bucket[s].capacity = 0 /\ granted[s].since = 0 /\ granted[s].capacity = 0
    BY DEF BucketsInit, NoBucket
  <2>4. \A k \in Checks : check[k].scope = 1
    BY DEF BucketsInit
  <2>5. seconds = 0
    BY DEF BucketsInit
  <2> QED BY <2>1, <2>2, <2>3, <2>4, <2>5 DEF BucketsTyped
<1>2. BucketInv /\ BucketsTyped /\ [BucketsNext]_bucketVars => BucketsTyped'
  BY BucketsTypeKept
<1>3. BucketInv /\ BucketsTyped => BucketsTypeOK
  <2> SUFFICES ASSUME BucketInv, BucketsTyped PROVE BucketsTypeOK
    OBVIOUS
  <2>1. seconds \in 0..EndOfTime /\ EndOfTime \in Nat
    BY BucketAssumption DEF BucketInv, BucketsTyped
  <2>2. ASSUME NEW s \in Scope
        PROVE  /\ bucket[s] \in [tokens: Nat, last: 0..EndOfTime, capacity: Capacities \cup {0}]
               /\ granted[s] \in [tokens: Nat, since: 0..EndOfTime, capacity: Capacities \cup {0}]
    <3>1. bucket[s] \in Buckets /\ granted[s] \in Grants
      BY DEF BucketInv
    <3>2. bucket[s].last <= seconds
      BY <2>1, <3>1 DEF BucketInv, Balanced, NoBucket
    <3>3. bucket[s].last \in 0..EndOfTime /\ granted[s].since \in 0..EndOfTime
      BY <2>1, <3>1, <3>2 DEF BucketsTyped, Buckets, Grants
    <3> QED BY <3>1, <3>3 DEF BucketsTyped, Buckets, Grants
  <2>3. ASSUME NEW k \in Checks
        PROVE  check[k] \in [pc: {"asks", "script", "allowed", "refused"},
                              scope: 1..Len(Scopes) + 1, now: 0..EndOfTime]
    <3>1. check[k] \in Checkings /\ check[k].now <= seconds
      BY DEF BucketInv
    <3>2. check[k].now \in 0..EndOfTime
      BY <2>1, <3>1 DEF Checkings
    <3> QED BY <3>1, <3>2 DEF BucketsTyped, Checkings, CheckPlaces
  <2> QED BY <2>1, <2>2, <2>3 DEF BucketInv, BucketsTyped, BucketsTypeOK
<1> QED BY <1>1, <1>2, <1>3, BucketInductive, PTL DEF BucketsSpec

--------------------------------------------------------------------------------
(***************************************************************************)
(* Quotas: what a period lets through.                                    *)
(***************************************************************************)
QuotasSpec == QuotasInit /\ [][QuotasNext]_quotaVars

\* A later hour is in no earlier period.
LEMMA PeriodsInOrder ==
  ASSUME NEW p \in Nat \ {0}, NEW a \in Nat, NEW b \in Nat, a <= b
  PROVE  a \div p <= b \div p /\ a \div p \in Nat
<1>1. /\ a \div p \in Int /\ b \div p \in Int
  BY SMT
<1>2. /\ p * (a \div p) <= a /\ a < p * (a \div p) + p
  BY SMT
<1>3. /\ p * (b \div p) <= b /\ b < p * (b \div p) + p
  BY SMT
<1> DEFINE x == a \div p
           y == b \div p
<1>4. x <= y
  <2> HIDE DEF x, y
  <2>1. SUFFICES ASSUME y + 1 <= x PROVE FALSE
    BY <1>1 DEF x, y
  <2>2. p * (y + 1) <= p * x
    BY <2>1, <1>1 DEF x, y
  <2> QED BY <1>1, <1>2, <1>3, <2>2 DEF x, y
<1> QED BY <1>4

QuotaRecords == [limit: Nat, period: Nat, resetAt: Hours]

\* The hours of the period in which the usage was last reset.
SinceReset == {h \in Hours : h \div quota.period = quota.resetAt \div quota.period}

\* What was granted in the period of the last reset is part of the usage and
\* within the limit; nothing was granted after it.
QuotaKept ==
  /\ \A h \in Hours :
       conceded[h] # 0 => h \div quota.period <= quota.resetAt \div quota.period
  /\ \A h \in SinceReset : conceded[h] <= calls[h]
  /\ CallsIn(conceded, SinceReset) <= quota.limit

QuotaInv ==
  /\ hour \in Hours /\ quota \in QuotaRecords /\ quota.resetAt <= hour
  /\ calls \in [Hours -> Nat] /\ conceded \in [Hours -> Nat]
  /\ quota.period # 0 => QuotaKept

\* The calls of a period are a sum over its hours.
LEMMA CallsInIsSum == \A f, S : CallsIn(f, S) = SumOver(f, S)
BY DEF CallsIn, SumOver

\* There are finitely many hours, and no call in any is a record of calls.
LEMMA HoursFinite ==
  /\ IsFiniteSet(Hours) /\ Hours \subseteq Nat
  /\ NoCalls \in [Hours -> Nat]
<1>1. LastHour \in Nat
  BY QuotasAssumption
<1>2. IsFiniteSet(0..LastHour)
  BY <1>1, FS_Interval
<1> QED BY <1>1, <1>2 DEF Hours, NoCalls

\* Nothing granted in some hours is no call in them.
LEMMA NothingGranted ==
  ASSUME NEW f, NEW S, S \subseteq Hours, \A h \in S : f[h] = 0
  PROVE  CallsIn(f, S) = 0
<1>1. IsFiniteSet(S)
  BY HoursFinite, FS_Subset
<1>2. (\A h \in S : f[h] \in Int) /\ {} \subseteq S /\ \A h \in S \ {} : f[h] = 0
  OBVIOUS
<1>3. SumOver(f, S) = SumOver(f, {})
  BY <1>1, <1>2, SumOfZeros
<1> QED BY <1>3, SumOverEmpty, CallsInIsSum

\* A call that is checked against the quotas.
LEMMA CheckQuotaKeeps ==
  ASSUME QuotaInv, NEW amount \in Nat, CheckQuota(amount)
  PROVE  QuotaInv'
<1> DEFINE p == quota.period
           now == {h \in Hours : h \div p = hour \div p}
<1>1. /\ hour \in Hours /\ hour \in Nat /\ quota \in QuotaRecords
      /\ p \in Nat \ {0} /\ quota.resetAt \in Hours /\ quota.resetAt \in Nat
      /\ quota.limit \in Nat /\ quota.resetAt <= hour
      /\ calls \in [Hours -> Nat] /\ conceded \in [Hours -> Nat] /\ QuotaKept
  BY HoursFinite DEF QuotaInv, QuotaRecords, CheckQuota
<1>2. quota.resetAt \div p <= hour \div p
  BY <1>1, PeriodsInOrder
<1>3. \A h \in Hours : h \div p \in Int
  <2> TAKE h \in Hours
  <2>1. h \in Nat /\ h <= h
    BY HoursFinite
  <2> QED BY <1>1, <2>1, PeriodsInOrder
<1>4. /\ ResetAt \in Hours /\ ResetAt \div p = hour \div p /\ ResetAt <= hour
  BY <1>1, <1>2, <1>3 DEF ResetAt, ShouldReset
<1>5. /\ UsageNow \in [Hours -> Nat]
      /\ \A h \in Hours : conceded[h] # 0 => h \div p <= hour \div p
      /\ \A h \in now : conceded[h] <= UsageNow[h]
      /\ CallsIn(conceded, now) <= quota.limit
  <2>1. CASE ShouldReset
    <3>1. UsageNow = NoCalls /\ \A h \in now : conceded[h] = 0
      BY <1>1, <1>2, <1>3, <2>1 DEF QuotaKept, UsageNow, ShouldReset
    <3>2. CallsIn(conceded, now) = 0
      BY <3>1, NothingGranted
    <3>3. \A h \in now : conceded[h] <= UsageNow[h]
      BY <3>1 DEF NoCalls
    <3>4. \A h \in Hours : conceded[h] # 0 => h \div p <= hour \div p
      BY <1>1, <1>2, <1>3 DEF QuotaKept
    <3> QED BY <1>1, <3>1, <3>2, <3>3, <3>4, HoursFinite
  <2>2. CASE ~ShouldReset
    <3>1. UsageNow = calls /\ quota.resetAt \div p = hour \div p
      BY <1>1, <1>2, <1>3, <2>2 DEF UsageNow, ShouldReset
    <3>2. now = SinceReset
      BY <3>1 DEF SinceReset
    <3> QED BY <1>1, <3>1, <3>2 DEF QuotaKept
  <2> QED BY <2>1, <2>2
<1>6. /\ quota' \in QuotaRecords /\ quota'.period = p /\ quota'.limit = quota.limit
      /\ quota'.resetAt = ResetAt /\ hour' = hour
  BY <1>1, <1>4 DEF CheckQuota, QuotaRecords
<1>7. SinceReset' = now
  BY <1>4, <1>6 DEF SinceReset, Hours
<1>8. quota'.resetAt \div quota'.period = hour \div p
  BY <1>4, <1>6
<1> DEFINE within == CallsIn(UsageNow, Hours) + amount <= quota.limit
<1>9. CallsIn(UsageNow, Hours) \in Nat
  <2>1. \A h \in Hours : UsageNow[h] \in Nat
    BY <1>5
  <2> QED BY <2>1, SumIsNat, HoursFinite, CallsInIsSum
<1>10. CASE ~within
  <2>1. calls' = UsageNow /\ conceded' = conceded
    BY <1>1, <1>9, <1>10 DEF CheckQuota
  <2>2. QuotaKept'
    <3>1. \A h \in Hours : conceded'[h] # 0 => h \div quota'.period <= quota'.resetAt \div quota'.period
      BY <1>5, <1>6, <1>8, <2>1
    <3>2. \A h \in SinceReset' : conceded'[h] <= calls'[h]
      BY <1>5, <1>7, <2>1
    <3>3. CallsIn(conceded', SinceReset') <= quota'.limit
      BY <1>5, <1>6, <1>7, <2>1
    <3> QED BY <3>1, <3>2, <3>3 DEF QuotaKept, Hours
  <2> QED BY <1>1, <1>4, <1>5, <1>6, <2>1, <2>2 DEF QuotaInv, Hours, QuotaRecords
<1>11. CASE within
  <2>1. /\ calls' = [UsageNow EXCEPT ![hour] = @ + amount]
        /\ conceded' = [conceded EXCEPT ![hour] = @ + amount]
    BY <1>1, <1>9, <1>11 DEF CheckQuota
  <2>2. calls' \in [Hours -> Nat] /\ conceded' \in [Hours -> Nat]
    BY <1>1, <1>5, <2>1
  <2>3. \A h \in Hours :
          /\ conceded'[h] = IF h = hour THEN conceded[h] + amount ELSE conceded[h]
          /\ calls'[h] = IF h = hour THEN UsageNow[h] + amount ELSE UsageNow[h]
    BY <1>1, <1>5, <2>1
  <2>4. \A h \in Hours : conceded'[h] # 0 => h \div p <= hour \div p
    BY <1>3, <1>5, <2>3
  <2>5. \A h \in now : conceded'[h] <= calls'[h]
    BY <1>1, <1>5, <2>3
  <2>6. CallsIn(conceded', now) <= quota.limit
    <3>1. now \subseteq Hours /\ IsFiniteSet(now) /\ hour \in now
      BY <1>1, HoursFinite, FS_Subset
    <3>2. /\ \A h \in now : conceded[h] \in Int /\ conceded'[h] \in Int
          /\ \A h \in now : UsageNow[h] \in Int
          /\ \A h \in Hours : UsageNow[h] \in Nat
          /\ \A h \in now \ {hour} : conceded'[h] = conceded[h]
          /\ conceded'[hour] = conceded[hour] + amount
      BY <1>1, <1>5, <2>2, <2>3
    <3> HIDE DEF now
    <3>3. SumOver(conceded', now) = SumOver(conceded, now) - conceded[hour] + conceded'[hour]
      BY <3>1, <3>2, SumOfChanged
    <3>4. SumOver(conceded, now) <= SumOver(UsageNow, now)
      BY <1>5, <3>1, <3>2, SumAtMost
    <3>5. SumOver(UsageNow, now) <= SumOver(UsageNow, Hours)
      BY <3>1, <3>2, HoursFinite, SumOfPart
    <3>6. /\ SumOver(conceded, now) \in Int /\ SumOver(UsageNow, now) \in Int
          /\ SumOver(UsageNow, Hours) \in Int /\ conceded[hour] \in Int
      BY <1>9, <3>1, <3>2, SumIsInt, CallsInIsSum
    <3>7. SumOver(UsageNow, Hours) + amount <= quota.limit
      BY <1>11, CallsInIsSum
    <3> QED BY <1>1, <3>2, <3>3, <3>4, <3>5, <3>6, <3>7, CallsInIsSum
  <2>7. QuotaKept'
    <3>1. \A h \in Hours : conceded'[h] # 0 => h \div quota'.period <= quota'.resetAt \div quota'.period
      BY <1>6, <1>8, <2>4
    <3>2. \A h \in SinceReset' : conceded'[h] <= calls'[h]
      BY <1>7, <2>5
    <3>3. CallsIn(conceded', SinceReset') <= quota'.limit
      BY <1>6, <1>7, <2>6
    <3> QED BY <3>1, <3>2, <3>3 DEF QuotaKept, Hours
  <2> QED BY <1>1, <1>4, <1>6, <2>2, <2>7 DEF QuotaInv, Hours, QuotaRecords
<1> QED BY <1>10, <1>11

\* A behaviour of Services is one of the quotas.
LEMMA QuotasOfServices == Spec => QuotasSpec
<1>1. Init => QuotasInit
  BY DEF Init
<1>2. [Next]_vars => [QuotasNext]_quotaVars
  BY DEF Next, OthersRest, vars
<1> QED BY <1>1, <1>2, PTL DEF Spec, QuotasSpec

LEMMA QuotaInductive == QuotasSpec => []QuotaInv
<1>1. QuotasInit => QuotaInv
  <2> SUFFICES ASSUME QuotasInit PROVE QuotaInv
    OBVIOUS
  <2>1. 0 \in Hours
    BY QuotasAssumption DEF Hours
  <2>2. NoQuota \in QuotaRecords /\ NoQuota.period = 0 /\ NoQuota.resetAt = 0
    BY <2>1 DEF NoQuota, QuotaRecords
  <2> QED BY <2>1, <2>2, HoursFinite DEF QuotasInit, QuotaInv
<1>2. QuotaInv /\ [QuotasNext]_quotaVars => QuotaInv'
  <2> SUFFICES ASSUME QuotaInv, [QuotasNext]_quotaVars PROVE QuotaInv'
    OBVIOUS
  <2>1. ASSUME UNCHANGED <<quota, calls, conceded>>, hour' \in Hours, hour <= hour'
        PROVE  QuotaInv'
    <3>1. QuotaKept' <=> QuotaKept
      BY <2>1 DEF QuotaKept, SinceReset, Hours
    <3>2. quota.resetAt <= hour'
      <4>1. quota.resetAt \in Nat /\ hour \in Nat /\ hour' \in Nat /\ quota.resetAt <= hour
        BY <2>1, HoursFinite DEF QuotaInv, QuotaRecords
      <4> QED BY <2>1, <4>1
    <3>3. quota'.period # 0 => QuotaKept'
      BY <2>1, <3>1 DEF QuotaInv
    <3>4. /\ hour' \in Hours' /\ quota' \in QuotaRecords' /\ quota'.resetAt <= hour'
          /\ calls' \in [Hours' -> Nat] /\ conceded' \in [Hours' -> Nat]
      BY <2>1, <3>2 DEF QuotaInv, Hours, QuotaRecords
    <3> QED BY <3>3, <3>4 DEF QuotaInv
  <2>2. hour \in Hours /\ hour \in Nat
    BY HoursFinite DEF QuotaInv
  <2>3. CASE HourPasses
    <3>1. hour' \in Hours /\ hour <= hour'
      BY <2>2, <2>3, QuotasAssumption DEF HourPasses, Hours
    <3> QED BY <2>1, <2>3, <3>1 DEF HourPasses
  <2>4. CASE CheckExecutions \/ StartExecution \/ EndExecution
    BY <2>1, <2>2, <2>4 DEF CheckExecutions, StartExecution, EndExecution
  <2>5. ASSUME NEW o \in Owners, NEW type, NEW limit, Configure(o, type, limit)
        PROVE  QuotaInv'
    BY <2>1, <2>2, <2>5 DEF Configure
  <2>6. ASSUME NEW limit \in QuotaLimits, NEW period \in Periods, SetQuota(limit, period)
        PROVE  QuotaInv'
    <3>1. /\ quota' \in QuotaRecords /\ quota'.resetAt = hour /\ quota'.limit \in Nat
          /\ conceded' = NoCalls /\ hour' = hour /\ calls' = calls
      BY <2>2, <2>6, QuotasAssumption DEF SetQuota, QuotaRecords
    <3>2. \A h \in Hours : conceded'[h] = 0
      BY <3>1 DEF NoCalls
    <3>3. \A h \in SinceReset' : h \in Hours /\ conceded'[h] <= calls'[h]
      BY <3>1, <3>2 DEF SinceReset, QuotaInv, Hours
    <3>4. CallsIn(conceded', SinceReset') = 0
      BY <3>2, <3>3, NothingGranted
    <3>5. QuotaKept'
      BY <3>1, <3>2, <3>3, <3>4 DEF QuotaKept, Hours
    <3>6. /\ hour' \in Hours /\ quota'.resetAt <= hour'
          /\ calls' \in [Hours -> Nat] /\ conceded' \in [Hours -> Nat]
      BY <2>2, <3>1, HoursFinite DEF QuotaInv
    <3>7. Hours' = Hours /\ QuotaRecords' = QuotaRecords
      BY DEF Hours, QuotaRecords
    <3> QED BY <3>1, <3>5, <3>6, <3>7 DEF QuotaInv
  <2>7. ASSUME NEW amount \in 1..MaxAmount, CheckQuota(amount) PROVE QuotaInv'
    <3>1. amount \in Nat
      BY QuotasAssumption
    <3> QED BY <2>7, <3>1, CheckQuotaKeeps
  <2>8. CASE UNCHANGED quotaVars
    BY <2>1, <2>2, <2>8 DEF quotaVars
  <2> QED BY <2>3, <2>4, <2>5, <2>6, <2>7, <2>8 DEF QuotasNext
<1> QED BY <1>1, <1>2, PTL DEF QuotasSpec

\* In one period of the calendar no more is granted than the quota allows.
LEMMA PeriodBoundedAlways == Spec => []PeriodBounded
<1>1. QuotaInv => PeriodBounded
  <2> SUFFICES ASSUME QuotaInv, quota.period # 0
               PROVE  CallsIn(conceded, ThisPeriod) <= quota.limit
    BY DEF PeriodBounded
  <2>1. /\ hour \in Nat /\ quota.resetAt \in Nat /\ quota.period \in Nat \ {0}
        /\ quota.resetAt <= hour /\ quota.limit \in Nat /\ QuotaKept
        /\ conceded \in [Hours -> Nat]
    BY HoursFinite DEF QuotaInv, QuotaRecords
  <2>2. /\ quota.resetAt \div quota.period <= hour \div quota.period
        /\ \A h \in Hours : h \div quota.period \in Int
    <3>1. \A h \in Hours : h \in Nat /\ h <= h
      BY HoursFinite
    <3>2. quota.resetAt \div quota.period <= hour \div quota.period
      BY <2>1, PeriodsInOrder
    <3>3. \A h \in Hours : h \div quota.period \in Int
      BY <2>1, <3>1, PeriodsInOrder
    <3> QED BY <3>2, <3>3
  <2>3. hour \in Hours /\ quota.resetAt \in Hours
    BY DEF QuotaInv, QuotaRecords
  <2>4. CASE quota.resetAt \div quota.period = hour \div quota.period
    <3>1. ThisPeriod = SinceReset
      BY <2>4 DEF ThisPeriod, SinceReset
    <3> QED BY <2>1, <3>1 DEF QuotaKept
  <2>5. CASE quota.resetAt \div quota.period < hour \div quota.period
    <3>1. \A h \in ThisPeriod : h \in Hours /\ conceded[h] = 0
      BY <2>1, <2>2, <2>3, <2>5 DEF ThisPeriod, QuotaKept
    <3>2. CallsIn(conceded, ThisPeriod) = 0
      BY <3>1, NothingGranted
    <3> QED BY <2>1, <3>2
  <2> QED BY <2>2, <2>3, <2>4, <2>5
<1> QED BY <1>1, QuotaInductive, QuotasOfServices, PTL

\* What the types of the quotas say beyond QuotaInv.
CapRecords == [concurrent: SUBSET CapLimits, monthly: SUBSET CapLimits]

QuotasTyped ==
  /\ quota.limit \in QuotaLimits \cup {0} /\ quota.period \in Periods \cup {0}
  /\ caps \in [Owners -> CapRecords]
  /\ running \in [Owners -> 0..MaxRunning] /\ counted \in [Owners -> 0..MaxRunning]
  /\ outcome \in {"none", "passed", "exceeded"}

\* Every step of the quotas keeps the types.
LEMMA QuotasTypeKept ==
  ASSUME QuotaInv, QuotasTyped, [QuotasNext]_quotaVars
  PROVE  QuotasTyped'
<1>1. /\ quota \in QuotaRecords /\ caps \in [Owners -> CapRecords]
      /\ running \in [Owners -> 0..MaxRunning] /\ counted \in [Owners -> 0..MaxRunning]
      /\ MaxRunning \in Nat
  BY QuotasAssumption DEF QuotaInv, QuotasTyped
<1>2. ASSUME UNCHANGED <<caps, running, counted, outcome>>,
             quota'.limit \in QuotaLimits \cup {0}, quota'.period \in Periods \cup {0}
      PROVE  QuotasTyped'
  BY <1>2 DEF QuotasTyped
<1>3. CASE UNCHANGED <<quota, caps, running, counted, outcome>>
  BY <1>2, <1>3 DEF QuotasTyped
<1>4. CASE HourPasses \/ UNCHANGED quotaVars
  BY <1>3, <1>4 DEF HourPasses, quotaVars
<1>5. CASE CheckExecutions
  BY <1>5 DEF CheckExecutions, QuotasTyped
<1>6. CASE StartExecution
  <2>1. /\ running' = [o \in Owners |-> running[o] + 1]
        /\ counted' = [o \in Owners |-> counted[o] + 1]
        /\ \A o \in Owners : running[o] + 1 \in 0..MaxRunning /\ counted[o] + 1 \in 0..MaxRunning
        /\ UNCHANGED <<quota, caps, outcome>>
    BY <1>1, <1>6 DEF StartExecution
  <2> QED BY <2>1 DEF QuotasTyped
<1>7. CASE EndExecution
  <2>1. /\ running' = [o \in Owners |-> IF running[o] > 0 THEN running[o] - 1 ELSE 0]
        /\ \A o \in Owners : (IF running[o] > 0 THEN running[o] - 1 ELSE 0) \in 0..MaxRunning
        /\ UNCHANGED <<quota, caps, counted, outcome>>
    BY <1>1, <1>7 DEF EndExecution
  <2> QED BY <2>1 DEF QuotasTyped
<1>8. ASSUME NEW limit \in QuotaLimits, NEW period \in Periods, SetQuota(limit, period)
      PROVE  QuotasTyped'
  BY <1>2, <1>8 DEF SetQuota
<1>9. ASSUME NEW o \in Owners, NEW type \in {"concurrent", "monthly"},
             NEW limit \in CapLimits, Configure(o, type, limit)
      PROVE  QuotasTyped'
  <2>1. /\ [caps[o] EXCEPT !.concurrent = {limit}] \in CapRecords
        /\ [caps[o] EXCEPT !.monthly = {limit}] \in CapRecords
    BY <1>1 DEF CapRecords
  <2>2. caps' \in [Owners -> CapRecords]
    <3>1. CASE type = "concurrent"
      BY <1>1, <1>9, <2>1, <3>1 DEF Configure
    <3>2. CASE type = "monthly"
      BY <1>1, <1>9, <2>1, <3>2 DEF Configure
    <3> QED BY <3>1, <3>2
  <2> QED BY <1>9, <2>2 DEF Configure, QuotasTyped
<1>10. ASSUME NEW amount \in 1..MaxAmount, CheckQuota(amount) PROVE QuotasTyped'
  <2>1. quota'.limit = quota.limit /\ quota'.period = quota.period
    BY <1>1, <1>10 DEF CheckQuota, QuotaRecords
  <2>2. UNCHANGED <<caps, running, counted, outcome>>
    BY <1>10 DEF CheckQuota
  <2> QED BY <1>2, <2>1, <2>2 DEF QuotasTyped
<1> QED BY <1>4, <1>5, <1>6, <1>7, <1>8, <1>9, <1>10 DEF QuotasNext

\* The quotas of the gateway and of the scheduler have the types of the module.
LEMMA QuotasTypeCorrect == QuotasSpec => []QuotasTypeOK
<1>1. QuotasInit => QuotasTyped
  <2> SUFFICES ASSUME QuotasInit PROVE QuotasTyped
    OBVIOUS
  <2>1. 0 \in 0..MaxRunning
    BY QuotasAssumption
  <2>2. [concurrent |-> {}, monthly |-> {}] \in CapRecords
    BY DEF CapRecords
  <2> QED BY <2>1, <2>2 DEF QuotasInit, QuotasTyped, NoQuota
<1>2. QuotaInv /\ QuotasTyped /\ [QuotasNext]_quotaVars => QuotasTyped'
  BY QuotasTypeKept
<1>3. QuotaInv /\ QuotasTyped => QuotasTypeOK
  <2> SUFFICES ASSUME QuotaInv, QuotasTyped PROVE QuotasTypeOK
    OBVIOUS
  <2>1. quota \in [limit: QuotaLimits \cup {0}, period: Periods \cup {0}, resetAt: Hours]
    BY DEF QuotaInv, QuotasTyped, QuotaRecords
  <2> QED BY <2>1 DEF QuotaInv, QuotasTyped, QuotasTypeOK, CapRecords
<1> QED BY <1>1, <1>2, <1>3, QuotaInductive, PTL DEF QuotasSpec

--------------------------------------------------------------------------------
(***************************************************************************)
(* TenantManager: what an invoice counts.                                 *)
(***************************************************************************)
TenantsSpec == TenantsInit /\ [][TenantsNext]_tenantVars

Events == [day: Dates, amount: Amounts]

\* What the events of a list are worth, and those of them from a day on.
Worths(list, worth) == [i \in 1..Len(list) |-> worth[list[i]]]
Worth(list, worth) == SumOver(Worths(list, worth), 1..Len(list))
AmountsFrom(m) == [e \in Events |-> IF e.day >= m THEN e.amount ELSE 0]
OnesFrom(m) == [e \in Events |-> IF e.day >= m THEN 1 ELSE 0]

\* What has been counted by day, from a day on.
From(count, m) == [d \in Dates |-> IF d >= m THEN count[d] ELSE 0]
Counted(count, m) == SumOver(From(count, m), Dates)

\* The list of a tenant has no more than was counted; it has all of it from a day
\* on unless an event of such a day was dropped, and then it is full of them.
AgreeFor(list, number, sum, m) ==
  /\ Worth(list, OnesFrom(m)) <= Counted(number, m)
  /\ Worth(list, AmountsFrom(m)) <= Counted(sum, m)
  /\ Worth(list, OnesFrom(m)) = Counted(number, m)
       => Worth(list, AmountsFrom(m)) = Counted(sum, m)
  /\ Len(list) < History \/ list[1].day < m
       => Worth(list, OnesFrom(m)) = Counted(number, m)

Agree(t, m) == AgreeFor(usage[t], events[t], aggregated[t], m)

InOrder(list) == \A i, j \in 1..Len(list) : i <= j => list[i].day <= list[j].day

UsageKept(t) ==
  /\ Len(usage[t]) <= History
  /\ InOrder(usage[t])
  /\ \A i \in 1..Len(usage[t]) : usage[t][i].day <= date
  /\ \A d \in Dates : d > date => aggregated[t][d] = 0 /\ events[t][d] = 0
  /\ \A m \in Nat : Agree(t, m)

TenantInv ==
  /\ date \in Dates
  /\ usage \in [Tenants -> Seq(Events)]
  /\ aggregated \in [Tenants -> [Dates -> Nat]]
  /\ events \in [Tenants -> [Dates -> Nat]]
  /\ \A t \in Tenants : UsageKept(t)

\* The list after an event.
LEMMA ListKept ==
  ASSUME NEW list \in Seq(Events), Len(list) <= History, NEW e \in Events
  PROVE  /\ Kept(Append(list, e)) \in Seq(Events)
         /\ Len(list) < History =>
              /\ Len(Kept(Append(list, e))) = Len(list) + 1
              /\ \A k \in 1..Len(list) : Kept(Append(list, e))[k] = list[k]
              /\ Kept(Append(list, e))[Len(list) + 1] = e
         /\ ~(Len(list) < History) =>
              /\ Len(list) = History
              /\ Len(Kept(Append(list, e))) = Len(list)
              /\ \A k \in 1..Len(list) - 1 : Kept(Append(list, e))[k] = list[k + 1]
              /\ Kept(Append(list, e))[Len(list)] = e
<1>1. PICK longer : longer = Append(list, e)
  OBVIOUS
<1>2. /\ longer \in Seq(Events) /\ Len(longer) = Len(list) + 1
      /\ \A k \in 1..Len(list) : longer[k] = list[k]
      /\ longer[Len(list) + 1] = e
  BY <1>1, AppendProperties
<1>3. Len(list) \in Nat /\ History \in Nat \ {0}
  BY LenProperties, TenantsAssumption
<1>4. CASE Len(list) < History
  <2>1. ~(Len(longer) > History)
    BY <1>2, <1>3, <1>4
  <2>2. Kept(longer) = longer
    BY <2>1 DEF Kept
  <2> QED BY <1>1, <1>2, <1>4, <2>2
<1>5. CASE ~(Len(list) < History)
  <2>1. Len(list) = History /\ Len(longer) > History /\ Len(longer) - History + 1 = 2
    BY <1>2, <1>3, <1>5
  <2>2. Kept(longer) = SubSeq(longer, 2, Len(list) + 1)
    BY <1>2, <2>1 DEF Kept
  <2>3. /\ 2 \in Int /\ Len(list) + 1 \in Int
        /\ \A k \in 2..Len(list) + 1 : longer[k] \in Events
    <3>1. \A k \in 1..Len(longer) : longer[k] \in Events
      BY <1>2, ElementOfSeq
    <3> QED BY <1>2, <1>3, <3>1
  <2>4. PICK n : n = Len(list) + 1
    OBVIOUS
  <2>5. /\ SubSeq(longer, 2, n) \in Seq(Events)
        /\ Len(SubSeq(longer, 2, n)) = IF 2 <= n THEN n - 2 + 1 ELSE 0
        /\ \A k \in 1..n - 2 + 1 : SubSeq(longer, 2, n)[k] = longer[2 + k - 1]
    BY <2>3, <2>4, SubSeqProperties
  <2>6. /\ Kept(longer) \in Seq(Events)
        /\ Len(Kept(longer)) = Len(list)
        /\ \A k \in 1..Len(list) : Kept(longer)[k] = longer[k + 1]
    <3>1. 2 <= n /\ n - 2 + 1 = Len(list)
      BY <1>3, <2>1, <2>4
    <3>2. \A k \in 1..Len(list) : 2 + k - 1 = k + 1
      BY <1>3
    <3> QED BY <2>2, <2>4, <2>5, <3>1, <3>2
  <2>7. \A k \in 1..Len(list) - 1 : Kept(longer)[k] = list[k + 1]
    <3>1. \A k \in 1..Len(list) - 1 : k \in 1..Len(list) /\ k + 1 \in 1..Len(list)
      BY <1>3
    <3> QED BY <1>2, <2>6, <3>1
  <2>8. Kept(longer)[Len(list)] = e
    <3>1. Len(list) \in 1..Len(list)
      BY <1>3, <2>1
    <3> QED BY <1>2, <2>6, <3>1
  <2> QED BY <1>1, <1>5, <2>1, <2>6, <2>7, <2>8
<1> QED BY <1>4, <1>5

\* What the list is then worth.
LEMMA WorthKept ==
  ASSUME NEW list \in Seq(Events), Len(list) <= History, NEW e \in Events,
         NEW worth \in [Events -> Nat]
  PROVE  /\ Worth(list, worth) \in Nat
         /\ Len(list) < History =>
              Worth(Kept(Append(list, e)), worth) = Worth(list, worth) + worth[e]
         /\ ~(Len(list) < History) =>
              /\ list[1] \in Events
              /\ Worth(Kept(Append(list, e)), worth)
                   = Worth(list, worth) + worth[e] - worth[list[1]]
<1>1. PICK n : n = Len(list)
  OBVIOUS
<1>2. PICK K : K = Kept(Append(list, e))
  OBVIOUS
<1>3. /\ K \in Seq(Events) /\ n \in Nat
      /\ n < History => /\ Len(K) = n + 1
                        /\ \A k \in 1..n : K[k] = list[k]
                        /\ K[n + 1] = e
      /\ ~(n < History) => /\ n = History /\ Len(K) = n
                           /\ \A k \in 1..n - 1 : K[k] = list[k + 1]
                           /\ K[n] = e
  BY <1>1, <1>2, ListKept, LenProperties
<1>4. \A k \in 1..n : list[k] \in Events
  BY <1>1, ElementOfSeq
<1>5. PICK f : f = Worths(list, worth)
  OBVIOUS
<1>6. \A k \in 1..n : f[k] = worth[list[k]] /\ f[k] \in Nat
  BY <1>1, <1>4, <1>5 DEF Worths
<1>7. Worth(list, worth) = SumOver(f, 1..n)
  BY <1>1, <1>5 DEF Worth
<1>8. PICK g : g = [k \in 1..n + 1 |-> IF k = n + 1 THEN worth[e] ELSE f[k]]
  OBVIOUS
<1>9. /\ \A k \in 1..n + 1 : g[k] \in Nat
      /\ \A k \in 1..n : f[k] = g[k]
      /\ g[n + 1] = worth[e]
  <2>1. \A k \in 1..n + 1 : k = n + 1 \/ k \in 1..n
    BY <1>3
  <2>2. \A k \in 1..n : k \in 1..n + 1 /\ k # n + 1
    BY <1>3
  <2>3. n + 1 \in 1..n + 1
    BY <1>3
  <2> QED BY <1>6, <1>8, <2>1, <2>2, <2>3
<1>10. /\ SumOver(g, 1..n + 1) = SumOver(f, 1..n) + g[n + 1]
       /\ SumOver(f, 1..n) \in Nat
  BY <1>3, <1>9, SumOfLonger
<1>11. CASE n < History
  <2>1. PICK h : h = Worths(K, worth)
    OBVIOUS
  <2>2. Worth(K, worth) = SumOver(h, 1..n + 1)
    BY <1>3, <1>11, <2>1 DEF Worth
  <2>3. \A k \in 1..n + 1 : h[k] = g[k]
    <3>1. \A k \in 1..n + 1 : h[k] = worth[K[k]]
      BY <1>3, <1>11, <2>1 DEF Worths
    <3>2. \A k \in 1..n + 1 : k = n + 1 \/ k \in 1..n
      BY <1>3
    <3>3. \A k \in 1..n : h[k] = g[k]
      <4>1. \A k \in 1..n : k \in 1..n + 1 /\ K[k] = list[k]
        BY <1>3, <1>11
      <4> QED BY <1>6, <1>9, <3>1, <4>1
    <3>4. h[n + 1] = g[n + 1]
      BY <1>3, <1>9, <1>11, <3>1
    <3> QED BY <3>2, <3>3, <3>4
  <2>4. IsFiniteSet(1..n + 1)
    BY <1>3, FS_Interval
  <2>5. SumOver(h, 1..n + 1) = SumOver(g, 1..n + 1)
    BY <2>3, <2>4, SumOfSame
  <2> QED BY <1>1, <1>2, <1>7, <1>9, <1>10, <1>11, <2>2, <2>5
<1>12. CASE ~(n < History)
  <2>1. PICK h : h = Worths(K, worth)
    OBVIOUS
  <2>2. Worth(K, worth) = SumOver(h, 1..n)
    BY <1>3, <1>12, <2>1 DEF Worth
  <2>3. \A k \in 1..n : h[k] = g[k + 1]
    <3>1. \A k \in 1..n : h[k] = worth[K[k]]
      BY <1>3, <1>12, <2>1 DEF Worths
    <3>2. ASSUME NEW k \in 1..n PROVE h[k] = g[k + 1]
      <4>1. CASE k = n
        BY <1>3, <1>9, <1>12, <3>1, <4>1
      <4>2. CASE k # n
        <5>1. k \in 1..n - 1 /\ k + 1 \in 1..n
          BY <1>3, <4>2
        <5>2. h[k] = worth[list[k + 1]]
          BY <1>3, <1>12, <3>1, <5>1
        <5> QED BY <1>6, <1>9, <5>1, <5>2
      <4> QED BY <4>1, <4>2
    <3> QED BY <3>2
  <2>4. n # 0 /\ 1 \in 1..n
    BY <1>3, <1>12, TenantsAssumption
  <2>5. SumOver(h, 1..n) = SumOver(f, 1..n) + g[n + 1] - f[1]
    <3>1. \A k \in 1..n : g[k + 1] \in Int /\ h[k] = g[k + 1]
      <4>1. \A k \in 1..n : k + 1 \in 1..n + 1
        BY <1>3
      <4> QED BY <1>9, <2>3, <4>1
    <3>2. SumOver(h, 1..n) = SumOver(g, 2..n + 1)
      <4>1. n \in Nat
        BY <1>3
      <4> QED BY <3>1, <4>1, SumOfShifted, Zenon
    <3>3. /\ SumOver(g, 1..n + 1) = g[1] + SumOver(g, 2..n + 1)
          /\ SumOver(g, 2..n + 1) \in Nat
      BY <1>3, <1>9, SumOfTail
    <3>4. /\ f[1] = g[1] /\ g[1] \in Nat /\ g[n + 1] \in Nat
      <4>1. 1 \in 1..n + 1 /\ n + 1 \in 1..n + 1
        BY <1>3, <2>4
      <4> QED BY <1>9, <2>4, <4>1
    <3>5. SumOver(f, 1..n) \in Int /\ SumOver(g, 1..n + 1) = SumOver(f, 1..n) + g[n + 1]
      BY <1>10
    <3> QED BY <3>2, <3>3, <3>4, <3>5
  <2>6. f[1] = worth[list[1]] /\ list[1] \in Events
    BY <1>4, <1>6, <2>4
  <2> QED BY <1>1, <1>2, <1>7, <1>9, <1>10, <1>12, <2>2, <2>5, <2>6
<1> QED BY <1>11, <1>12, <1>7, <1>10

\* What an event and the worths of events are.
LEMMA EventTypes ==
  /\ \A x \in Events : /\ x.day \in Dates /\ x.day \in Nat
                       /\ x.amount \in Amounts /\ x.amount \in Nat
  /\ \A m \in Nat : /\ OnesFrom(m) \in [Events -> Nat]
                    /\ AmountsFrom(m) \in [Events -> Nat]
<1>1. \A x \in Events : x.day \in Dates /\ x.amount \in Amounts
  BY DEF Events
<1>2. \A d \in Dates : d \in Nat
  BY DEF Dates
<1>3. \A x \in Events : x.day \in Nat /\ x.amount \in Nat
  BY <1>1, <1>2, TenantsAssumption
<1>4. ASSUME NEW m \in Nat
      PROVE  OnesFrom(m) \in [Events -> Nat] /\ AmountsFrom(m) \in [Events -> Nat]
  BY <1>3 DEF OnesFrom, AmountsFrom
<1> QED BY <1>1, <1>3, <1>4

Calendars == [Dates -> Nat]

\* A count by day to which an amount of a day has been added.
Adds(after, count, today, amount) ==
  /\ after[today] = count[today] + amount
  /\ \A d \in Dates \ {today} : after[d] = count[d]

\* What has been counted after an event of today.
LEMMA CountedMore ==
  ASSUME NEW count \in Calendars, NEW after \in Calendars,
         NEW today \in Dates, NEW amount \in Nat, NEW m \in Nat,
         Adds(after, count, today, amount)
  PROVE  /\ Counted(count, m) \in Nat
         /\ today >= m => Counted(after, m) = Counted(count, m) + amount
         /\ ~(today >= m) => Counted(after, m) = Counted(count, m)
<1>1. PICK f : f = From(count, m)
  OBVIOUS
<1>2. PICK g : g = From(after, m)
  OBVIOUS
<1>3. IsFiniteSet(Dates)
  <2>1. 0 \in Int /\ EndOfYear \in Int
    BY TenantsAssumption
  <2> QED BY <2>1, FS_Interval DEF Dates
<1>4. /\ \A d \in Dates : f[d] \in Nat /\ f[d] \in Int /\ g[d] \in Int
      /\ \A d \in Dates \ {today} : g[d] = f[d]
      /\ f[today] \in Nat
      /\ g[today] = f[today] + IF today >= m THEN amount ELSE 0
  BY <1>1, <1>2 DEF From, Adds, Calendars
<1>5. SumOver(g, Dates) = SumOver(f, Dates) - f[today] + g[today]
  BY <1>3, <1>4, SumOfChanged
<1>6. SumOver(f, Dates) \in Nat
  BY <1>3, <1>4, SumIsNat
<1>7. (IF today >= m THEN amount ELSE 0) \in Nat
  OBVIOUS
<1>8. Counted(count, m) = SumOver(f, Dates)
  BY <1>1 DEF Counted
<1>9. Counted(after, m) = SumOver(g, Dates)
  BY <1>2 DEF Counted
<1> QED BY <1>4, <1>5, <1>6, <1>7, <1>8, <1>9

\* What has been counted after an event, by the worth of the event.
LEMMA CountedAfter ==
  ASSUME NEW number \in Calendars, NEW number2 \in Calendars,
         NEW sum \in Calendars, NEW sum2 \in Calendars,
         NEW e \in Events, NEW m \in Nat,
         Adds(number2, number, e.day, 1), Adds(sum2, sum, e.day, e.amount)
  PROVE  /\ Counted(number, m) \in Nat /\ Counted(sum, m) \in Nat
         /\ Counted(number2, m) = Counted(number, m) + OnesFrom(m)[e]
         /\ Counted(sum2, m) = Counted(sum, m) + AmountsFrom(m)[e]
<1>1. /\ OnesFrom(m)[e] = IF e.day >= m THEN 1 ELSE 0
      /\ AmountsFrom(m)[e] = IF e.day >= m THEN e.amount ELSE 0
  BY DEF OnesFrom, AmountsFrom
<1>2. PICK when : when = e.day
  OBVIOUS
<1>3. PICK added : added = e.amount
  OBVIOUS
<1>4. when \in Dates /\ when \in Nat /\ added \in Nat
  BY <1>2, <1>3, EventTypes
<1>5. Adds(number2, number, when, 1) /\ Adds(sum2, sum, when, added)
  BY <1>2, <1>3
<1>6. /\ Counted(number, m) \in Nat
      /\ when >= m => Counted(number2, m) = Counted(number, m) + 1
      /\ ~(when >= m) => Counted(number2, m) = Counted(number, m)
  BY <1>4, <1>5, CountedMore
<1>7. /\ Counted(sum, m) \in Nat
      /\ when >= m => Counted(sum2, m) = Counted(sum, m) + added
      /\ ~(when >= m) => Counted(sum2, m) = Counted(sum, m)
  BY <1>4, <1>5, CountedMore
<1> QED BY <1>1, <1>2, <1>3, <1>6, <1>7

\* An event is tracked: the list and the sums by day still agree.
LEMMA AgreeAfter ==
  ASSUME NEW list \in Seq(Events), NEW e \in Events, NEW m \in Nat,
         NEW number, NEW number2, NEW sum, NEW sum2,
         Len(list) <= History, InOrder(list),
         \A i \in 1..Len(list) : list[i].day <= e.day,
         Counted(number, m) \in Nat, Counted(sum, m) \in Nat,
         Counted(number2, m) = Counted(number, m) + OnesFrom(m)[e],
         Counted(sum2, m) = Counted(sum, m) + AmountsFrom(m)[e],
         AgreeFor(list, number, sum, m)
  PROVE  AgreeFor(Kept(Append(list, e)), number2, sum2, m)
<1>1. /\ OnesFrom(m) \in [Events -> Nat] /\ AmountsFrom(m) \in [Events -> Nat]
      /\ e.day \in Dates /\ e.amount \in Nat /\ e.day \in Nat
  BY EventTypes
<1>2. PICK one : one = OnesFrom(m)[e]
  OBVIOUS
<1>3. PICK amount : amount = AmountsFrom(m)[e]
  OBVIOUS
<1>4. /\ one = IF e.day >= m THEN 1 ELSE 0
      /\ amount = IF e.day >= m THEN e.amount ELSE 0
      /\ one \in Nat /\ amount \in Nat
  BY <1>1, <1>2, <1>3 DEF OnesFrom, AmountsFrom
<1>5. PICK C : C = Worth(list, OnesFrom(m))
  OBVIOUS
<1>6. PICK S : S = Worth(list, AmountsFrom(m))
  OBVIOUS
<1>7. PICK CE : CE = Counted(number, m)
  OBVIOUS
<1>8. PICK CA : CA = Counted(sum, m)
  OBVIOUS
<1>9. CE \in Nat /\ Counted(number2, m) = CE + one
  BY <1>2, <1>7
<1>10. CA \in Nat /\ Counted(sum2, m) = CA + amount
  BY <1>3, <1>8
<1>11. PICK K : K = Kept(Append(list, e))
  OBVIOUS
<1>12. PICK first : first = list[1]
  OBVIOUS
<1>13. PICK n : n = Len(list)
  OBVIOUS
<1>14. /\ C \in Nat
       /\ n < History => Worth(K, OnesFrom(m)) = C + one
       /\ ~(n < History) =>
            /\ first \in Events
            /\ Worth(K, OnesFrom(m)) = C + one - OnesFrom(m)[first]
  BY <1>1, <1>2, <1>5, <1>11, <1>12, <1>13, WorthKept
<1>15. /\ S \in Nat
       /\ n < History => Worth(K, AmountsFrom(m)) = S + amount
       /\ ~(n < History) =>
             Worth(K, AmountsFrom(m)) = S + amount - AmountsFrom(m)[first]
  BY <1>1, <1>3, <1>6, <1>11, <1>12, <1>13, WorthKept
<1>16. /\ C <= CE /\ S <= CA /\ (C = CE => S = CA)
       /\ n < History => C = CE
       /\ first.day < m => C = CE
  BY <1>5, <1>6, <1>7, <1>8, <1>12, <1>13 DEF AgreeFor
<1>17. PICK C2 : C2 = Worth(K, OnesFrom(m))
  OBVIOUS
<1>18. PICK S2 : S2 = Worth(K, AmountsFrom(m))
  OBVIOUS
<1>19. /\ C2 <= CE + one /\ S2 <= CA + amount
       /\ C2 = CE + one => S2 = CA + amount
       /\ Len(K) < History \/ K[1].day < m => C2 = CE + one
  <2>1. CASE n < History
    <3>1. C2 = C + one /\ S2 = S + amount /\ C = CE /\ S = CA
      BY <1>14, <1>15, <1>16, <1>17, <1>18, <2>1
    <3> QED BY <1>4, <1>9, <1>10, <3>1
  <2>2. CASE ~(n < History)
    <3>1. first \in Events /\ first.day \in Nat /\ first.amount \in Nat
      BY <1>14, <2>2, EventTypes
    <3>2. PICK lost : lost = OnesFrom(m)[first]
      OBVIOUS
    <3>3. PICK less : less = AmountsFrom(m)[first]
      OBVIOUS
    <3>4. /\ lost = IF first.day >= m THEN 1 ELSE 0
          /\ less = IF first.day >= m THEN first.amount ELSE 0
      BY <3>1, <3>2, <3>3 DEF OnesFrom, AmountsFrom
    <3>5. /\ lost \in {0, 1} /\ less \in Nat /\ (lost = 0 => less = 0)
          /\ first.day < m <=> lost = 0
      BY <3>1, <3>4
    <3>6. C2 = C + one - lost /\ S2 = S + amount - less
      BY <1>14, <1>15, <1>17, <1>18, <2>2, <3>2, <3>3
    <3>7. n = History /\ n \in Nat \ {0} /\ Len(K) = n
          /\ (\A k \in 1..n - 1 : K[k] = list[k + 1])
          /\ K[n] = e
      BY <1>11, <1>13, <2>2, ListKept, TenantsAssumption
    <3>8. first.day <= K[1].day /\ K[1].day \in Nat
      <4>1. CASE n = 1
        <5>1. first.day <= e.day /\ K[1] = e
          BY <1>12, <1>13, <3>7, <4>1
        <5> QED BY <1>1, <5>1
      <4>2. CASE n # 1
        <5>1. 1 \in 1..n - 1 /\ 1 + 1 \in 1..n /\ 1 \in 1..n /\ 1 <= 1 + 1
          BY <3>7, <4>2
        <5>2. K[1] = list[1 + 1] /\ list[1].day <= list[1 + 1].day
          BY <1>13, <3>7, <5>1 DEF InOrder
        <5>3. list[1 + 1] \in Events
          BY <1>13, <5>1, ElementOfSeq
        <5>4. list[1 + 1].day \in Nat
          BY <5>3, EventTypes
        <5> QED BY <1>12, <5>2, <5>4
      <4> QED BY <4>1, <4>2
    <3>9. Len(K) < History \/ K[1].day < m => lost = 0
      BY <3>1, <3>5, <3>7, <3>8
    <3>10. lost = 0 => C = CE
      BY <1>16, <3>5
    <3>11. /\ C2 <= CE + one
           /\ lost = 0 => C2 = CE + one
           /\ C2 = CE + one => lost = 0
      BY <1>4, <1>9, <1>14, <1>16, <3>5, <3>6, <3>10
    <3>12. /\ S2 <= CA + amount
           /\ lost = 0 => S2 = CA + amount
      <4>1. /\ S \in Nat /\ CA \in Nat /\ amount \in Nat /\ less \in Nat /\ S <= CA
            /\ lost = 0 => less = 0 /\ S = CA
        BY <1>4, <1>10, <1>15, <1>16, <3>5, <3>10
      <4>2. S2 = S + amount - less
        BY <3>6
      <4> QED BY <4>1, <4>2
    <3>13. C2 = CE + one => S2 = CA + amount
      BY <3>11, <3>12
    <3>14. Len(K) < History \/ K[1].day < m => C2 = CE + one
      BY <3>9, <3>11
    <3>15. C2 <= CE + one /\ S2 <= CA + amount
      BY <3>11, <3>12
    <3> QED BY <3>13, <3>14, <3>15
  <2> QED BY <2>1, <2>2
<1>20. /\ Worth(K, OnesFrom(m)) <= Counted(number2, m)
       /\ Worth(K, AmountsFrom(m)) <= Counted(sum2, m)
       /\ Worth(K, OnesFrom(m)) = Counted(number2, m)
            => Worth(K, AmountsFrom(m)) = Counted(sum2, m)
       /\ Len(K) < History \/ K[1].day < m => Worth(K, OnesFrom(m)) = Counted(number2, m)
  BY <1>9, <1>10, <1>17, <1>18, <1>19
<1> QED BY <1>11, <1>20 DEF AgreeFor

\* The list stays sorted by day, and its days past.
LEMMA ListInOrder ==
  ASSUME NEW list \in Seq(Events), NEW e \in Events, NEW K,
         Len(list) <= History, InOrder(list),
         \A i \in 1..Len(list) : list[i].day <= e.day,
         K = Kept(Append(list, e))
  PROVE  /\ K \in Seq(Events) /\ Len(K) <= History /\ InOrder(K)
         /\ \A i \in 1..Len(K) : K[i].day <= e.day
<1>1. PICK n : n = Len(list)
  OBVIOUS
<1>0. n \in Nat /\ History \in Nat /\ n <= History
  BY <1>1, LenProperties, TenantsAssumption
<1>2. /\ n \in Nat /\ History \in Nat /\ n <= History /\ K \in Seq(Events)
      /\ n < History => /\ Len(K) = n + 1
                        /\ \A k \in 1..n : K[k] = list[k]
                        /\ K[n + 1] = e
      /\ ~(n < History) => /\ n = History /\ Len(K) = n
                           /\ \A k \in 1..n - 1 : K[k] = list[k + 1]
                           /\ K[n] = e
  BY <1>0, <1>1, ListKept
<1>3. /\ e.day \in Nat
      /\ \A k \in 1..n : list[k].day \in Nat
  <2>1. \A k \in 1..n : list[k] \in Events
    BY <1>1, ElementOfSeq
  <2> QED BY <2>1, EventTypes
<1>4. /\ \A k \in 1..n : list[k].day <= e.day
      /\ \A i, j \in 1..n : i <= j => list[i].day <= list[j].day
  BY <1>1 DEF InOrder
<1>5. CASE n < History
  <2>1. Len(K) = n + 1 /\ \A k \in 1..Len(K) : k \in 1..n \/ k = n + 1
    BY <1>2, <1>5
  <2>2. \A k \in 1..Len(K) : K[k].day <= e.day
    BY <1>2, <1>3, <1>4, <1>5, <2>1
  <2>3. ASSUME NEW i \in 1..Len(K), NEW j \in 1..Len(K), i <= j
        PROVE  K[i].day <= K[j].day
    <3>1. CASE j = n + 1
      BY <1>2, <1>5, <2>2, <3>1
    <3>2. CASE j # n + 1
      <4>1. i \in 1..n /\ j \in 1..n
        BY <1>2, <2>1, <2>3, <3>2
      <4> QED BY <1>2, <1>4, <1>5, <2>3, <4>1
    <3> QED BY <3>1, <3>2
  <2> QED BY <1>2, <1>5, <2>1, <2>2, <2>3 DEF InOrder
<1>6. CASE ~(n < History)
  <2>1. Len(K) = n /\ \A k \in 1..Len(K) : k \in 1..n - 1 \/ k = n
    BY <1>2, <1>6
  <2>2. \A k \in 1..n - 1 : K[k] = list[k + 1] /\ k + 1 \in 1..n
    BY <1>2, <1>6
  <2>3. \A k \in 1..Len(K) : K[k].day <= e.day
    <3>1. \A k \in 1..n - 1 : K[k].day <= e.day
      BY <1>4, <2>2
    <3>2. K[n].day <= e.day
      BY <1>2, <1>3, <1>6
    <3> QED BY <2>1, <3>1, <3>2
  <2>4. ASSUME NEW i \in 1..Len(K), NEW j \in 1..Len(K), i <= j
        PROVE  K[i].day <= K[j].day
    <3>1. CASE j = n
      BY <1>2, <1>6, <2>3, <3>1
    <3>2. CASE j # n
      <4>1. i \in 1..n - 1 /\ j \in 1..n - 1
        BY <1>2, <2>1, <2>4, <3>2
      <4>2. i + 1 <= j + 1
        BY <1>2, <2>4, <4>1
      <4> QED BY <1>4, <2>2, <4>1, <4>2
    <3> QED BY <3>1, <3>2
  <2> QED BY <1>2, <1>6, <2>1, <2>3, <2>4 DEF InOrder
<1> QED BY <1>5, <1>6

\* An event is tracked.
LEMMA TrackUsageKeeps ==
  ASSUME TenantInv, NEW t \in Tenants, NEW amount \in Amounts, TrackUsage(t, amount)
  PROVE  TenantInv'
<1>1. PICK e : e = [day |-> date, amount |-> amount]
  OBVIOUS
<1>2. PICK K : K = Kept(Append(usage[t], e))
  OBVIOUS
<1>3. /\ usage' = [usage EXCEPT ![t] = K] /\ date' = date
      /\ aggregated' = [aggregated EXCEPT ![t][date] = @ + amount]
      /\ events' = [events EXCEPT ![t][date] = @ + 1]
  BY <1>1, <1>2 DEF TrackUsage
<1>4. /\ date \in Dates /\ usage \in [Tenants -> Seq(Events)]
      /\ aggregated \in [Tenants -> [Dates -> Nat]]
      /\ events \in [Tenants -> [Dates -> Nat]]
      /\ amount \in Nat /\ \A d \in Dates : d \in Nat
  BY TenantsAssumption DEF TenantInv, Dates
<1>5. e \in Events /\ e.day = date /\ e.amount = amount
  BY <1>1, <1>4 DEF Events
<1>6. UsageKept(t)
  BY DEF TenantInv
<1>7. /\ K \in Seq(Events) /\ Len(K) <= History /\ InOrder(K)
      /\ \A i \in 1..Len(K) : K[i].day <= date
  <2>1. PICK list : list = usage[t]
    OBVIOUS
  <2>2. /\ list \in Seq(Events) /\ Len(list) <= History /\ InOrder(list)
        /\ \A i \in 1..Len(list) : list[i].day <= e.day
        /\ K = Kept(Append(list, e))
    BY <1>2, <1>4, <1>5, <1>6, <2>1 DEF UsageKept
  <2>3. /\ K \in Seq(Events) /\ Len(K) <= History /\ InOrder(K)
        /\ \A i \in 1..Len(K) : K[i].day <= e.day
    BY <1>5, <2>2, ListInOrder
  <2> QED BY <1>5, <2>3
<1>8. /\ usage' \in [Tenants -> Seq(Events)] /\ usage'[t] = K
      /\ \A u \in Tenants \ {t} : usage'[u] = usage[u]
  BY <1>3, <1>4, <1>7
<1>9. /\ aggregated' \in [Tenants -> [Dates -> Nat]]
      /\ aggregated'[t][date] = aggregated[t][date] + amount
      /\ \A d \in Dates \ {date} : aggregated'[t][d] = aggregated[t][d]
      /\ \A u \in Tenants \ {t} : aggregated'[u] = aggregated[u]
  BY <1>3, <1>4
<1>10. /\ events' \in [Tenants -> [Dates -> Nat]]
       /\ events'[t][date] = events[t][date] + 1
       /\ \A d \in Dates \ {date} : events'[t][d] = events[t][d]
       /\ \A u \in Tenants \ {t} : events'[u] = events[u]
  BY <1>3, <1>4
<1>11. ASSUME NEW m \in Nat PROVE Agree(t, m)'
  <2>1. PICK list : list = usage[t]
    OBVIOUS
  <2>2. PICK number : number = events[t]
    OBVIOUS
  <2>3. PICK sum : sum = aggregated[t]
    OBVIOUS
  <2>4. PICK number2 : number2 = events'[t]
    OBVIOUS
  <2>5. PICK sum2 : sum2 = aggregated'[t]
    OBVIOUS
  <2>6. /\ number \in Calendars /\ sum \in Calendars
        /\ number2 \in Calendars /\ sum2 \in Calendars
    BY <1>4, <1>9, <1>10, <2>2, <2>3, <2>4, <2>5 DEF Calendars
  <2>7. Adds(number2, number, e.day, 1) /\ Adds(sum2, sum, e.day, e.amount)
    BY <1>5, <1>9, <1>10, <2>2, <2>3, <2>4, <2>5 DEF Adds
  <2>8. /\ Counted(number, m) \in Nat /\ Counted(sum, m) \in Nat
        /\ Counted(number2, m) = Counted(number, m) + OnesFrom(m)[e]
        /\ Counted(sum2, m) = Counted(sum, m) + AmountsFrom(m)[e]
    BY <1>5, <1>11, <2>6, <2>7, CountedAfter
  <2>9. /\ list \in Seq(Events) /\ Len(list) <= History /\ InOrder(list)
        /\ \A i \in 1..Len(list) : list[i].day <= e.day
        /\ K = Kept(Append(list, e))
        /\ AgreeFor(list, number, sum, m)
    BY <1>2, <1>4, <1>5, <1>6, <2>1, <2>2, <2>3 DEF UsageKept, Agree
  <2>10. AgreeFor(K, number2, sum2, m)
    BY <1>5, <2>8, <2>9, AgreeAfter
  <2> QED BY <1>8, <2>4, <2>5, <2>10 DEF Agree
<1>12. UsageKept(t)'
  <2>1. \A d \in Dates : d > date' => aggregated'[t][d] = 0 /\ events'[t][d] = 0
    BY <1>3, <1>4, <1>6, <1>9, <1>10 DEF UsageKept
  <2>2. /\ Len(usage'[t]) <= History /\ InOrder(usage'[t])
        /\ \A i \in 1..Len(usage'[t]) : usage'[t][i].day <= date'
    BY <1>3, <1>7, <1>8
  <2>3. InOrder(usage[t])'
    BY <2>2 DEF InOrder
  <2> QED BY <1>11, <2>1, <2>2, <2>3 DEF UsageKept
<1>13. ASSUME NEW u \in Tenants \ {t} PROVE UsageKept(u)'
  <2>1. /\ UsageKept(u) /\ usage'[u] = usage[u] /\ aggregated'[u] = aggregated[u]
        /\ events'[u] = events[u]
    BY <1>8, <1>9, <1>10 DEF TenantInv
  <2>2. \A m \in Nat : Agree(u, m)'
    BY <2>1 DEF UsageKept, Agree
  <2>3. InOrder(usage[u])'
    BY <2>1 DEF UsageKept, InOrder
  <2> QED BY <1>3, <2>1, <2>2, <2>3 DEF UsageKept
<1> QED BY <1>3, <1>4, <1>8, <1>9, <1>10, <1>12, <1>13 DEF TenantInv

\* Amounts are natural numbers.
LEMMA WorthOfList ==
  ASSUME NEW list \in Seq(Events), NEW worth \in [Events -> Nat]
  PROVE  Worth(list, worth) \in Nat
<1>1. PICK f : f = Worths(list, worth)
  OBVIOUS
<1>2. PICK S : S = 1..Len(list)
  OBVIOUS
<1>3. \A i \in S : list[i] \in Events
  BY <1>2, ElementOfSeq
<1>4. \A i \in S : f[i] \in Nat
  BY <1>1, <1>2, <1>3 DEF Worths
<1>5. IsFiniteSet(S)
  <2>1. 1 \in Int /\ Len(list) \in Int
    BY LenProperties
  <2> QED BY <1>2, <2>1, FS_Interval
<1>6. SumOver(f, S) \in Nat
  BY <1>4, <1>5, SumIsNat
<1> QED BY <1>1, <1>2, <1>6 DEF Worth

LEMMA CountedIsNat ==
  ASSUME NEW count \in Calendars, NEW m \in Nat
  PROVE  Counted(count, m) \in Nat
<1>1. PICK f : f = From(count, m)
  OBVIOUS
<1>2. \A d \in Dates : f[d] \in Nat
  BY <1>1 DEF From, Calendars
<1>3. IsFiniteSet(Dates)
  <2>1. 0 \in Int /\ EndOfYear \in Int
    BY TenantsAssumption
  <2> QED BY <2>1, FS_Interval DEF Dates
<1>4. SumOver(f, Dates) \in Nat
  BY <1>2, <1>3, SumIsNat
<1> QED BY <1>1, <1>4 DEF Counted

\* The other methods leave the events and the sums alone.
LEMMA TenantStepsKeep ==
  ASSUME TenantInv, [TenantsNext]_tenantVars
  PROVE  TenantInv'
<1>1. ASSUME date' \in Dates, date <= date', usage' = usage, aggregated' = aggregated,
             events' = events
      PROVE  TenantInv'
  <2>1. \A d \in Dates : d \in Nat
    BY DEF Dates
  <2>2. date \in Nat /\ date' \in Nat
    BY <1>1, <2>1 DEF TenantInv
  <2>3. ASSUME NEW t \in Tenants PROVE UsageKept(t)'
    <3>1. UsageKept(t) /\ usage[t] \in Seq(Events)
      BY DEF TenantInv
    <3>2. \A m \in Nat : Agree(t, m)'
      BY <1>1, <3>1 DEF UsageKept, Agree
    <3>3. ASSUME NEW i \in 1..Len(usage[t]) PROVE usage[t][i].day <= date'
      <4>1. usage[t][i] \in Events /\ usage[t][i].day <= date
        BY <3>1, ElementOfSeq DEF UsageKept
      <4>2. usage[t][i].day \in Nat
        BY <4>1, EventTypes
      <4> QED BY <1>1, <2>2, <4>1, <4>2
    <3>4. \A d \in Dates : d > date' => aggregated[t][d] = 0 /\ events[t][d] = 0
      BY <1>1, <2>1, <2>2, <3>1 DEF UsageKept
    <3>5. InOrder(usage[t])' /\ Len(usage[t]) <= History
      BY <1>1, <3>1 DEF UsageKept, InOrder
    <3> QED BY <1>1, <3>2, <3>3, <3>4, <3>5 DEF UsageKept
  <2> QED BY <1>1, <2>3 DEF TenantInv
<1>2. /\ date \in Dates /\ date <= date
      /\ date < EndOfYear => date + 1 \in Dates /\ date <= date + 1
  BY TenantsAssumption DEF TenantInv, Dates
<1>3. CASE UNCHANGED tenantVars
  BY <1>1, <1>2, <1>3 DEF tenantVars
<1>4. CASE Midnight
  BY <1>1, <1>2, <1>4 DEF Midnight
<1>5. ASSUME NEW t \in Tenants,
             \/ CreateTenant(t) \/ ActivateTenant(t) \/ SuspendTenant(t)
             \/ DeleteTenant(t)
      PROVE  TenantInv'
  BY <1>1, <1>2, <1>5
     DEF CreateTenant, ActivateTenant, SuspendTenant, DeleteTenant, SetsTenant
<1>6. ASSUME NEW t \in Tenants, NEW amount \in Amounts, SetTenantQuotas(t, amount)
      PROVE  TenantInv'
  BY <1>1, <1>2, <1>6 DEF SetTenantQuotas
<1>7. ASSUME NEW t \in Tenants, NEW u \in Tenants, CreateRelationship(t, u)
      PROVE  TenantInv'
  BY <1>1, <1>2, <1>7 DEF CreateRelationship
<1> QED BY <1>3, <1>4, <1>5, <1>6, <1>7, TrackUsageKeeps DEF TenantsNext

\* The sum over the events of a month is what they are worth.
LEMMA UsageIsWorth ==
  ASSUME NEW t, NEW m \in Nat, usage[t] \in Seq(Events)
  PROVE  UsageSince(t, m) = Worth(usage[t], AmountsFrom(m))
<1>1. PICK list : list = usage[t]
  OBVIOUS
<1>2. PICK places : places = {i \in DOMAIN list : list[i].day >= m}
  OBVIOUS
<1>3. PICK f : f = Worths(list, AmountsFrom(m))
  OBVIOUS
<1>4. /\ list \in Seq(Events) /\ DOMAIN list = 1..Len(list) /\ Len(list) \in Nat
      /\ \A i \in 1..Len(list) : list[i] \in Events
  BY <1>1, LenProperties, ElementOfSeq
<1>5. \A i \in 1..Len(list) :
        /\ f[i] = IF list[i].day >= m THEN list[i].amount ELSE 0
        /\ f[i] \in Int
  <2>1. ASSUME NEW i \in 1..Len(list)
        PROVE  /\ f[i] = IF list[i].day >= m THEN list[i].amount ELSE 0
               /\ f[i] \in Int
    <3>1. f[i] = AmountsFrom(m)[list[i]]
      BY <1>3 DEF Worths
    <3>2. PICK e : e = list[i]
      OBVIOUS
    <3>3. e \in Events /\ e.amount \in Nat
      BY <1>4, <3>2, EventTypes
    <3>4. AmountsFrom(m)[e] = IF e.day >= m THEN e.amount ELSE 0
      BY <3>3 DEF AmountsFrom
    <3> QED BY <3>1, <3>2, <3>3, <3>4
  <2> QED BY <2>1
<1>6. /\ places \subseteq 1..Len(list) /\ IsFiniteSet(1..Len(list)) /\ IsFiniteSet(places)
      /\ \A i \in places : f[i] = list[i].amount
      /\ \A i \in (1..Len(list)) \ places : f[i] = 0
  <2>1. places \subseteq 1..Len(list)
    BY <1>2, <1>4
  <2>2. 1 \in Int /\ Len(list) \in Int
    BY <1>4
  <2>3. IsFiniteSet(1..Len(list))
    BY <2>2, FS_Interval
  <2>4. /\ \A i \in places : f[i] = list[i].amount
        /\ \A i \in (1..Len(list)) \ places : f[i] = 0
    BY <1>2, <1>4, <1>5
  <2>5. IsFiniteSet(places)
    BY <2>1, <2>3, FS_Subset
  <2> QED BY <2>1, <2>3, <2>4, <2>5
<1> DEFINE Rec(it) == it = [s \in SUBSET places |->
                IF s = {} THEN 0
                ELSE list[CHOOSE x \in s : TRUE].amount
                       + it[s \ {CHOOSE x \in s : TRUE}]]
<1>7. \A it : Rec(it) <=> Partial(f, SUBSET places, it)
  <2> TAKE it
  <2>1. \A s \in SUBSET places : s # {} => Chosen(s) \in places
    BY <1>6, FS_Subset, ChosenOfSmaller
  <2>2. \A s \in SUBSET places :
          (IF s = {} THEN 0 ELSE list[Chosen(s)].amount + it[s \ {Chosen(s)}])
            = (IF s = {} THEN 0 ELSE f[Chosen(s)] + it[s \ {Chosen(s)}])
    BY <1>6, <2>1
  <2>3. Rec(it) <=> it = [s \in SUBSET places |->
           IF s = {} THEN 0 ELSE list[Chosen(s)].amount + it[s \ {Chosen(s)}]]
    BY DEF Chosen
  <2> QED BY <2>2, <2>3 DEF Partial
<1>8. \E it : Rec(it)
  <2> HIDE DEF Rec
  <2> QED BY <1>6, <1>7, PartialSums
<1>9. Rec(CHOOSE it : Rec(it))
  <2> HIDE DEF Rec
  <2> QED BY <1>8
<1>10. UsageSince(t, m) = (CHOOSE it : Rec(it))[places]
  BY <1>1, <1>2 DEF UsageSince, MapThenSumSet, MapThenFoldSet
<1>11. (CHOOSE it : Rec(it))[places] = SumOver(f, places)
  <2> HIDE DEF Rec
  <2>1. Partial(f, SUBSET places, CHOOSE it : Rec(it))
    BY <1>7, <1>9
  <2> QED BY <1>6, <2>1, SumOfTerms
<1>12. SumOver(f, 1..Len(list)) = SumOver(f, places)
  <2>1. PICK S : S = 1..Len(list)
    OBVIOUS
  <2>2. /\ IsFiniteSet(S) /\ places \subseteq S
        /\ \A i \in S : f[i] \in Int
        /\ \A i \in S \ places : f[i] = 0
    BY <1>5, <1>6, <2>1
  <2>3. SumOver(f, S) = SumOver(f, places)
    BY <2>2, SumOfZeros
  <2> QED BY <2>1, <2>3
<1> QED BY <1>1, <1>3, <1>10, <1>11, <1>12 DEF Worth

\* The sum by day since a month began is all that was counted since.
LEMMA MonthIsCounted ==
  ASSUME NEW count \in Calendars, date \in Dates, NEW m \in Nat, m = MonthBegins,
         \A d \in Dates : d > date => count[d] = 0
  PROVE  OfThisMonth(count) = Counted(count, m)
<1>1. PICK f : f = From(count, m)
  OBVIOUS
<1>2. PICK month : month = m..date
  OBVIOUS
<1>3. /\ \A d \in Dates : d \in Nat /\ f[d] = (IF d >= m THEN count[d] ELSE 0)
      /\ \A d \in Dates : f[d] \in Int
  BY <1>1 DEF From, Dates, Calendars
<1>4. month \subseteq Dates /\ \A d \in Dates \ month : d < m \/ d > date
  BY <1>2, TenantsAssumption DEF Dates
<1>5. IsFiniteSet(Dates) /\ IsFiniteSet(month)
  <2>1. 0 \in Int /\ EndOfYear \in Int
    BY TenantsAssumption
  <2>2. IsFiniteSet(Dates)
    BY <2>1, FS_Interval DEF Dates
  <2> QED BY <1>4, <2>2, FS_Subset
<1>6. \A d \in Dates \ month : f[d] = 0
  BY <1>3, <1>4
<1>7. SumOver(f, Dates) = SumOver(f, month)
  BY <1>3, <1>4, <1>5, <1>6, SumOfZeros
<1>8. \A d \in month : f[d] = count[d]
  BY <1>2, <1>3, <1>4
<1>9. SumOver(f, month) = SumOver(count, month)
  BY <1>5, <1>8, SumOfSame
<1>10. OfThisMonth(count) = SumOver(count, month)
  BY <1>2 DEF OfThisMonth, SumOver
<1> QED BY <1>1, <1>7, <1>9, <1>10 DEF Counted

\* A behaviour of Services is one of the tenants.
LEMMA TenantsOfServices == Spec => TenantsSpec
<1>1. Init => TenantsInit
  BY DEF Init
<1>2. [Next]_vars => [TenantsNext]_tenantVars
  BY DEF Next, OthersRest, vars
<1> QED BY <1>1, <1>2, PTL DEF Spec, TenantsSpec

LEMMA TenantsInductive == TenantsSpec => []TenantInv
<1>1. TenantsInit => TenantInv
  <2> SUFFICES ASSUME TenantsInit PROVE TenantInv
    OBVIOUS
  <2>1. /\ date = 0 /\ date \in Dates /\ History \in Nat
        /\ \A t \in Tenants : /\ usage[t] = <<>>
                              /\ aggregated[t] = [d \in Dates |-> 0]
                              /\ events[t] = [d \in Dates |-> 0]
    BY TenantsAssumption DEF TenantsInit, Dates
  <2>2. /\ usage \in [Tenants -> Seq(Events)]
        /\ aggregated \in [Tenants -> [Dates -> Nat]]
        /\ events \in [Tenants -> [Dates -> Nat]]
    BY DEF TenantsInit
  <2>3. <<>> \in Seq(Events) /\ Len(<<>>) = 0 /\ 1..0 = {}
    BY EmptySeq
  <2>4. ASSUME NEW m \in Nat, NEW worth PROVE Worth(<<>>, worth) = 0
    BY <2>3, SumOverEmpty DEF Worth
  <2>5. ASSUME NEW m \in Nat PROVE Counted([d \in Dates |-> 0], m) = 0
    <3>1. PICK f : f = From([d \in Dates |-> 0], m)
      OBVIOUS
    <3>2. \A d \in Dates : f[d] = 0
      BY <3>1 DEF From
    <3>3. IsFiniteSet(Dates)
      <4>1. 0 \in Int /\ EndOfYear \in Int
        BY TenantsAssumption
      <4> QED BY <4>1, FS_Interval DEF Dates
    <3>4. SumOver(f, Dates) = SumOver(f, {})
      <4>1. {} \subseteq Dates /\ \A d \in Dates : f[d] \in Int
        BY <3>2
      <4>2. \A d \in Dates \ {} : f[d] = 0
        BY <3>2
      <4> QED BY <3>3, <4>1, <4>2, SumOfZeros
    <3> QED BY <3>1, <3>4, SumOverEmpty DEF Counted
  <2>6. ASSUME NEW t \in Tenants PROVE UsageKept(t)
    <3>1. \A m \in Nat : Agree(t, m)
      <4> TAKE m \in Nat
      <4>1. /\ Worth(usage[t], OnesFrom(m)) = 0 /\ Worth(usage[t], AmountsFrom(m)) = 0
        BY <2>1, <2>4
      <4>2. Counted(events[t], m) = 0 /\ Counted(aggregated[t], m) = 0
        BY <2>1, <2>5
      <4> QED BY <4>1, <4>2 DEF Agree, AgreeFor
    <3> QED BY <2>1, <2>3, <3>1 DEF UsageKept, InOrder
  <2> QED BY <2>1, <2>2, <2>6 DEF TenantInv
<1>2. TenantInv /\ [TenantsNext]_tenantVars => TenantInv'
  BY TenantStepsKeep
<1> QED BY <1>1, <1>2, PTL DEF TenantsSpec

\* The invoice bills no more than was counted, and as much unless the month has
\* more events than the list keeps.
LEMMA BilledUnlessTrimmedAlways == Spec => []BilledUnlessTrimmed
<1>1. TenantInv => BilledUnlessTrimmed
  <2> SUFFICES ASSUME TenantInv, NEW t \in Tenants
               PROVE  LET used == OfThisMonth(aggregated[t])
                          over == IF used > Included THEN used - Included ELSE 0
                      IN  /\ Overage(t) <= over
                          /\ OfThisMonth(events[t]) <= History => Overage(t) = over
    BY DEF BilledUnlessTrimmed
  <2>1. PICK m : m = MonthBegins
    OBVIOUS
  <2>2. /\ date \in Dates /\ date \in Nat /\ UsageKept(t) /\ usage[t] \in Seq(Events)
        /\ aggregated[t] \in Calendars /\ events[t] \in Calendars
    BY DEF TenantInv, Dates, Calendars
  <2>3. m \in Nat
    <3>1. date \div MonthLength \in Nat
      BY <2>2, TenantsAssumption, SMT
    <3> DEFINE months == date \div MonthLength
    <3> HIDE DEF months
    <3>2. months * MonthLength \in Nat
      BY <3>1, TenantsAssumption DEF months
    <3> QED BY <2>1, <3>2 DEF MonthBegins, months
  <2>4. Agree(t, m)
    BY <2>2, <2>3 DEF UsageKept
  <2>5. PICK billed : billed = UsageSince(t, MonthBegins)
    OBVIOUS
  <2>6. billed = Worth(usage[t], AmountsFrom(m))
    BY <2>1, <2>2, <2>3, <2>5, UsageIsWorth
  <2>7. PICK used : used = OfThisMonth(aggregated[t])
    OBVIOUS
  <2>8. used = Counted(aggregated[t], m)
    BY <2>1, <2>2, <2>3, <2>7, MonthIsCounted DEF UsageKept
  <2>9. PICK number : number = OfThisMonth(events[t])
    OBVIOUS
  <2>10. number = Counted(events[t], m)
    BY <2>1, <2>2, <2>3, <2>9, MonthIsCounted DEF UsageKept
  <2>11. billed <= used
    BY <2>4, <2>6, <2>8 DEF Agree, AgreeFor
  <2>12. billed \in Nat /\ used \in Nat /\ number \in Nat /\ Included \in Nat
    <3>1. billed \in Nat
      BY <2>2, <2>3, <2>6, EventTypes, WorthOfList
    <3>2. used \in Nat /\ number \in Nat
      BY <2>2, <2>3, <2>8, <2>10, CountedIsNat
    <3> QED BY <3>1, <3>2, TenantsAssumption
  <2>13. ASSUME number <= History PROVE billed = used
    <3>1. PICK listed : listed = Worth(usage[t], OnesFrom(m))
      OBVIOUS
    <3>2. /\ listed <= number
          /\ listed = number => billed = used
          /\ Len(usage[t]) < History \/ usage[t][1].day < m => listed = number
      BY <2>4, <2>6, <2>8, <2>10, <3>1 DEF Agree, AgreeFor
    <3>3. listed \in Nat
      BY <2>2, <2>3, <3>1, EventTypes, WorthOfList
    <3>4. CASE Len(usage[t]) < History \/ usage[t][1].day < m
      BY <3>2, <3>4
    <3>5. CASE ~(Len(usage[t]) < History \/ usage[t][1].day < m)
      <4>1. PICK list : list = usage[t]
        OBVIOUS
      <4>2. /\ list \in Seq(Events) /\ Len(list) \in Nat /\ Len(list) = History
            /\ ~(list[1].day < m) /\ InOrder(list) /\ 1 \in 1..Len(list)
        BY <2>2, <3>5, <4>1, LenProperties, TenantsAssumption DEF UsageKept
      <4>3. ASSUME NEW i \in 1..Len(list) PROVE OnesFrom(m)[list[i]] = 1
        <5>1. list[i] \in Events /\ list[1] \in Events
          BY <4>2, ElementOfSeq
        <5>2. list[i].day \in Nat /\ list[1].day \in Nat
          BY <5>1, EventTypes
        <5>3. list[1].day <= list[i].day
          BY <4>2 DEF InOrder
        <5>4. list[i].day >= m
          BY <2>3, <4>2, <5>2, <5>3
        <5> QED BY <5>1, <5>4 DEF OnesFrom
      <4>4. PICK f : f = Worths(list, OnesFrom(m))
        OBVIOUS
      <4>5. \A i \in 1..Len(list) : f[i] = 1
        BY <4>3, <4>4 DEF Worths
      <4>6. PICK S : S = 1..Len(list)
        OBVIOUS
      <4>7. IsFiniteSet(S) /\ Cardinality(S) = History
        <5>1. 1 \in Int /\ Len(list) \in Int
          BY <4>2
        <5>2. /\ IsFiniteSet(1..Len(list))
              /\ Cardinality(1..Len(list)) = IF 1 > Len(list) THEN 0
                                             ELSE Len(list) - 1 + 1
          BY <5>1, FS_Interval
        <5> QED BY <4>2, <4>6, <5>2, TenantsAssumption
      <4>8. SumOver(f, S) = History
        BY <4>5, <4>6, <4>7, SumOfOnes
      <4>9. listed = History
        BY <3>1, <4>1, <4>4, <4>6, <4>8 DEF Worth
      <4> QED BY <2>12, <2>13, <3>2, <3>3, <4>9, TenantsAssumption
    <3> QED BY <3>4, <3>5
  <2>14. Overage(t) = IF billed > Included THEN billed - Included ELSE 0
    BY <2>5 DEF Overage
  <2>15. PICK over : over = IF used > Included THEN used - Included ELSE 0
    OBVIOUS
  <2>16. Overage(t) <= over
    BY <2>11, <2>12, <2>14, <2>15
  <2>17. number <= History => Overage(t) = over
    BY <2>13, <2>14, <2>15
  <2> QED BY <2>7, <2>9, <2>15, <2>16, <2>17
<1> QED BY <1>1, TenantsInductive, TenantsOfServices, PTL

\* What the types of the tenants say beyond TenantInv.
TenantPlaces == {"none", "pending", "active", "suspended", "deleted"}

TenantsTyped ==
  /\ tenants \in [Tenants -> TenantPlaces]
  /\ schemas \subseteq Tenants /\ related \subseteq Tenants \X Tenants
  /\ limits \in [Tenants -> SUBSET Amounts]
  /\ \A t \in Tenants : Cardinality(limits[t]) <= 1
  /\ \A t \in Tenants : \A d \in Dates : events[t][d] <= MaxTracked

\* The events of a day are no more than all those that are tracked.
LEMMA DayOfTracked ==
  ASSUME TenantInv, NEW t \in Tenants, Tracked(t) < MaxTracked, NEW d \in Dates
  PROVE  events[t][d] + 1 <= MaxTracked
<1>1. PICK count : count = events[t]
  OBVIOUS
<1>2. IsFiniteSet(Dates) /\ \A e \in Dates : count[e] \in Nat
  <2>1. 0 \in Int /\ EndOfYear \in Int
    BY TenantsAssumption
  <2>2. IsFiniteSet(Dates)
    BY <2>1, FS_Interval DEF Dates
  <2> QED BY <1>1, <2>2 DEF TenantInv
<1>3. Tracked(t) = SumOver(events[t], Dates)
  BY DEF Tracked, SumOver
<1>4. SumOver(count, {d}) <= SumOver(count, Dates)
  <2>1. {d} \subseteq Dates
    OBVIOUS
  <2> QED BY <1>2, <2>1, SumOfPart
<1>5. SumOver(count, {d}) = count[d]
  <2>1. IsFiniteSet({d}) /\ d \in {d} /\ {d} \ {d} = {}
    BY FS_Singleton
  <2>2. \A e \in {d} : count[e] \in Int
    BY <1>2
  <2>3. SumOver(count, {d}) = count[d] + SumOver(count, {d} \ {d})
    BY <2>1, <2>2, SumWithout
  <2>4. SumOver(count, {d} \ {d}) = 0
    BY <2>1, SumOverEmpty
  <2> QED BY <1>2, <2>3, <2>4
<1>6. SumOver(count, Dates) \in Nat /\ count[d] \in Nat
  BY <1>2, SumIsNat
<1> QED BY <1>1, <1>3, <1>4, <1>5, <1>6, TenantsAssumption

\* Every step of the tenants keeps the types.
LEMMA TenantsTypeKept ==
  ASSUME TenantInv, TenantsTyped, [TenantsNext]_tenantVars
  PROVE  TenantsTyped'
<1>1. CASE UNCHANGED <<tenants, schemas, limits, related, events>>
  BY <1>1 DEF TenantsTyped, Dates
<1>2. CASE Midnight \/ UNCHANGED tenantVars
  BY <1>1, <1>2 DEF Midnight, tenantVars
<1>3. ASSUME NEW t \in Tenants, NEW status \in TenantPlaces,
             tenants' = [tenants EXCEPT ![t] = status], schemas' \subseteq schemas \cup {t},
             UNCHANGED <<limits, related, events>>
      PROVE  TenantsTyped'
  BY <1>3 DEF TenantsTyped, Dates
<1>4. ASSUME NEW t \in Tenants,
             CreateTenant(t) \/ ActivateTenant(t) \/ SuspendTenant(t) \/ DeleteTenant(t)
      PROVE  TenantsTyped'
  <2>1. CASE CreateTenant(t)
    BY <1>3, <2>1 DEF CreateTenant, TenantPlaces
  <2>2. CASE ActivateTenant(t)
    BY <1>3, <2>2 DEF ActivateTenant, SetsTenant, TenantPlaces
  <2>3. CASE SuspendTenant(t)
    BY <1>3, <2>3 DEF SuspendTenant, SetsTenant, TenantPlaces
  <2>4. CASE DeleteTenant(t)
    BY <1>3, <2>4 DEF DeleteTenant, SetsTenant, TenantPlaces
  <2> QED BY <1>4, <2>1, <2>2, <2>3, <2>4
<1>5. ASSUME NEW t \in Tenants, NEW amount \in Amounts, SetTenantQuotas(t, amount)
      PROVE  TenantsTyped'
  <2>1. /\ limits' = [limits EXCEPT ![t] = {amount}]
        /\ UNCHANGED <<tenants, schemas, related, events>>
    BY <1>5 DEF SetTenantQuotas
  <2>2. Cardinality({amount}) = 1
    BY FS_Singleton
  <2>3. \A u \in Tenants : limits'[u] = IF u = t THEN {amount} ELSE limits[u]
    BY <2>1 DEF TenantsTyped
  <2>4. \A u \in Tenants : Cardinality(limits'[u]) <= 1
    <3> TAKE u \in Tenants
    <3>1. CASE u = t
      BY <2>2, <2>3, <3>1
    <3>2. CASE u # t
      BY <2>3, <3>2 DEF TenantsTyped
    <3> QED BY <3>1, <3>2
  <2>5. limits' \in [Tenants -> SUBSET Amounts]
    BY <2>1 DEF TenantsTyped
  <2> QED BY <2>1, <2>4, <2>5 DEF TenantsTyped, Dates
<1>6. ASSUME NEW t \in Tenants, NEW u \in Tenants, CreateRelationship(t, u)
      PROVE  TenantsTyped'
  BY <1>6 DEF CreateRelationship, TenantsTyped, Dates
<1>7. ASSUME NEW t \in Tenants, NEW amount \in Amounts, TrackUsage(t, amount)
      PROVE  TenantsTyped'
  <2>1. /\ Tracked(t) < MaxTracked /\ UNCHANGED <<tenants, schemas, limits, related>>
        /\ events' = [events EXCEPT ![t][date] = @ + 1]
    BY <1>7 DEF TrackUsage
  <2>2. events[t][date] + 1 <= MaxTracked
    BY <2>1, DayOfTracked DEF TenantInv
  <2>3. ASSUME NEW u \in Tenants, NEW d \in Dates PROVE events'[u][d] <= MaxTracked
    <3>1. events \in [Tenants -> [Dates -> Nat]] /\ date \in Dates
      BY DEF TenantInv
    <3>2. events'[u][d] = IF u = t /\ d = date THEN events[t][date] + 1 ELSE events[u][d]
      BY <2>1, <3>1
    <3>3. events[u][d] <= MaxTracked
      BY DEF TenantsTyped
    <3> QED BY <2>2, <3>2, <3>3
  <2> QED BY <2>1, <2>3 DEF TenantsTyped, Dates
<1> QED BY <1>2, <1>4, <1>5, <1>6, <1>7 DEF TenantsNext

\* The tenants, what they use and what is counted have the types of the module.
LEMMA TenantsTypeCorrect == TenantsSpec => []TenantsTypeOK
<1>1. TenantsInit => TenantsTyped
  <2> SUFFICES ASSUME TenantsInit PROVE TenantsTyped
    OBVIOUS
  <2>1. Cardinality({}) <= 1
    BY FS_EmptySet
  <2>2. \A t \in Tenants : \A d \in Dates : events[t][d] <= MaxTracked
    BY TenantsAssumption DEF TenantsInit
  <2> QED BY <2>1, <2>2 DEF TenantsInit, TenantsTyped, TenantPlaces
<1>2. TenantInv /\ TenantsTyped /\ [TenantsNext]_tenantVars => TenantsTyped'
  BY TenantsTypeKept
<1>3. TenantInv /\ TenantsTyped => TenantsTypeOK
  <2> SUFFICES ASSUME TenantInv, TenantsTyped PROVE TenantsTypeOK
    OBVIOUS
  <2>1. events \in [Tenants -> [Dates -> 0..MaxTracked]]
    <3>1. \A t \in Tenants : \A d \in Dates : events[t][d] \in 0..MaxTracked
      BY TenantsAssumption DEF TenantInv, TenantsTyped
    <3> QED BY <3>1 DEF TenantInv
  <2>2. \A t \in Tenants :
          /\ limits[t] \subseteq Amounts /\ Cardinality(limits[t]) <= 1
          /\ usage[t] \in Seq([day: Dates, amount: Amounts]) /\ Len(usage[t]) <= History
    BY DEF TenantInv, TenantsTyped, UsageKept, Events
  <2> QED BY <2>1, <2>2 DEF TenantInv, TenantsTyped, TenantsTypeOK, TenantPlaces
<1> QED BY <1>1, <1>2, <1>3, TenantsInductive, PTL DEF TenantsSpec

--------------------------------------------------------------------------------
(***************************************************************************)
(* AutoScaler: by how much the pool may exceed its maximum.               *)
(***************************************************************************)
ScalingSpec == ScalingInit /\ [][ScalingNext]_scalingVars

LargestStep == Max({p.up : p \in ScalePolicies})

\* What each coroutine has still to create.
StillToAdd == [e \in Scalers |-> IF scaler[e].pc = "adds" THEN scaler[e].left ELSE 0]

ScalerPlaces == {"off", "asleep", "adds", "removes"}
ScalerRecords == [pc: ScalerPlaces, simulates: BOOLEAN, left: Int]

\* A coroutine that adds has at least one worker to add and at most a step; the
\* workers there are and those to come stay within the bound.
ScalingInv ==
  /\ scalePolicy \in ScalePolicies /\ scalePolicy.max <= highest
  /\ workers \in Nat /\ highest \in Nat /\ own \in Nat
  /\ scaler \in [Scalers -> ScalerRecords]
  /\ \A e \in Scalers : scaler[e].pc = "adds" => scaler[e].left \in 1..LargestStep
  /\ workers + SumOver(StillToAdd, Scalers)
       <= highest + own + (Cardinality(Scalers) - 1) * LargestStep

\* What a policy may be.
LEMMA StepsAreBounded ==
  /\ LargestStep \in Nat
  /\ \A p \in ScalePolicies : /\ p.up \in Nat \ {0} /\ p.up <= LargestStep
                              /\ p.max \in Nat /\ p.min \in Nat /\ p.down \in Nat
<1> DEFINE Ups == {p.up : p \in ScalePolicies}
<1>1. \A p \in ScalePolicies : /\ p.up \in Nat \ {0} /\ p.max \in Nat
                               /\ p.min \in Nat /\ p.down \in Nat
  BY ScalingAssumption
<1>2. IsFiniteSet(Ups)
  <2>1. [p \in ScalePolicies |-> p.up] \in Surjection(ScalePolicies, Ups)
    BY DEF Surjection
  <2> QED BY <2>1, FS_Surjection, ScalingAssumption
<1>3. Ups \subseteq Int /\ Ups # {}
  BY <1>1, ScalingAssumption
<1>4. Max(Ups) \in Ups /\ \A x \in Ups : x <= Max(Ups)
  <2> HIDE DEF Ups
  <2> QED BY <1>2, <1>3, MaxOfFinite
<1> QED BY <1>1, <1>4 DEF LargestStep

LEMMA StillToAddTypes ==
  ASSUME ScalingInv
  PROVE  /\ \A e \in Scalers : StillToAdd[e] \in 0..LargestStep
         /\ \A e \in Scalers : StillToAdd[e] \in Int /\ StillToAdd[e] <= LargestStep
         /\ SumOver(StillToAdd, Scalers) \in Int
<1>1. \A e \in Scalers : StillToAdd[e] \in 0..LargestStep
  BY StepsAreBounded DEF ScalingInv, StillToAdd
<1>2. \A e \in Scalers : StillToAdd[e] \in Int /\ StillToAdd[e] <= LargestStep
  BY <1>1, StepsAreBounded
<1> QED BY <1>1, <1>2, SumIsInt, ScalingAssumption

\* The sum the property takes is that of what is still to add.
LEMMA SumOfAdding ==
  ASSUME ScalingInv
  PROVE  MapThenSumSet(LAMBDA e : scaler[e].left, Adding) = SumOver(StillToAdd, Scalers)
<1> DEFINE Rec(it) == it = [s \in SUBSET Adding |->
                IF s = {} THEN 0
                ELSE scaler[CHOOSE x \in s : TRUE].left
                       + it[s \ {CHOOSE x \in s : TRUE}]]
<1>1. Adding \subseteq Scalers /\ IsFiniteSet(Adding)
  BY FS_Subset, ScalingAssumption DEF Adding
<1>2. \A it : Rec(it) <=> Partial(StillToAdd, SUBSET Adding, it)
  <2> TAKE it
  <2>1. \A s \in SUBSET Adding : s # {} => Chosen(s) \in Adding
    BY <1>1, FS_Subset, ChosenOfSmaller
  <2>2. \A s \in SUBSET Adding :
          (IF s = {} THEN 0 ELSE scaler[Chosen(s)].left + it[s \ {Chosen(s)}])
            = (IF s = {} THEN 0 ELSE StillToAdd[Chosen(s)] + it[s \ {Chosen(s)}])
    BY <2>1 DEF StillToAdd, Adding
  <2>3. Rec(it) <=> it = [s \in SUBSET Adding |->
           IF s = {} THEN 0 ELSE scaler[Chosen(s)].left + it[s \ {Chosen(s)}]]
    BY DEF Chosen
  <2> QED BY <2>2, <2>3 DEF Partial
<1>3. \E it : Rec(it)
  <2> HIDE DEF Rec
  <2> QED BY <1>1, <1>2, PartialSums
<1>4. Rec(CHOOSE it : Rec(it))
  <2> HIDE DEF Rec
  <2> QED BY <1>3
<1>5. MapThenSumSet(LAMBDA e : scaler[e].left, Adding) = (CHOOSE it : Rec(it))[Adding]
  BY DEF MapThenSumSet, MapThenFoldSet
<1>6. (CHOOSE it : Rec(it))[Adding] = SumOver(StillToAdd, Adding)
  <2> HIDE DEF Rec
  <2>1. Partial(StillToAdd, SUBSET Adding, CHOOSE it : Rec(it))
    BY <1>2, <1>4
  <2> QED BY <1>1, <2>1, SumOfTerms
<1>7. SumOver(StillToAdd, Scalers) = SumOver(StillToAdd, Adding)
  <2>1. \A e \in Scalers \ Adding : StillToAdd[e] = 0
    BY DEF Adding, StillToAdd
  <2>2. IsFiniteSet(Scalers) /\ \A e \in Scalers : StillToAdd[e] \in Int
    BY StillToAddTypes, ScalingAssumption
  <2> QED BY <1>1, <2>1, <2>2, SumOfZeros
<1> QED BY <1>5, <1>6, <1>7

\* A step of one coroutine, by what it has then to add.
LEMMA ScalerMoves ==
  ASSUME ScalingInv, NEW e \in Scalers, NEW new \in ScalerRecords,
         scaler' = [scaler EXCEPT ![e] = new],
         new.pc = "adds" => new.left \in 1..LargestStep
  PROVE  /\ scaler' \in [Scalers -> ScalerRecords]
         /\ \A d \in Scalers : scaler'[d].pc = "adds" => scaler'[d].left \in 1..LargestStep
         /\ SumOver(StillToAdd', Scalers)
              = SumOver(StillToAdd, Scalers) - StillToAdd[e]
                  + (IF new.pc = "adds" THEN new.left ELSE 0)
<1>1. scaler' \in [Scalers -> ScalerRecords]
  BY DEF ScalingInv
<1>2. \A d \in Scalers : scaler'[d] = IF d = e THEN new ELSE scaler[d]
  BY DEF ScalingInv
<1>3. \A d \in Scalers : scaler'[d].pc = "adds" => scaler'[d].left \in 1..LargestStep
  BY <1>2 DEF ScalingInv
<1>4. /\ \A d \in Scalers \ {e} : StillToAdd'[d] = StillToAdd[d]
      /\ StillToAdd'[e] = IF new.pc = "adds" THEN new.left ELSE 0
  BY <1>2 DEF StillToAdd
<1>5. \A d \in Scalers : StillToAdd[d] \in Int /\ StillToAdd'[d] \in Int
  BY <1>1, <1>3, StillToAddTypes, StepsAreBounded DEF StillToAdd
<1>6. SumOver(StillToAdd', Scalers)
        = SumOver(StillToAdd, Scalers) - StillToAdd[e] + StillToAdd'[e]
  BY <1>4, <1>5, SumOfChanged, ScalingAssumption
<1> QED BY <1>1, <1>3, <1>4, <1>6

\* The lesser and the greater of two numbers.
LEMMA OfTwo ==
  ASSUME NEW a \in Int, NEW b \in Int
  PROVE  /\ Min({a, b}) = IF a <= b THEN a ELSE b
         /\ Max({a, b}) = IF a >= b THEN a ELSE b
<1>1. \E x \in {a, b} : \A y \in {a, b} : x <= y
  OBVIOUS
<1>2. \E x \in {a, b} : \A y \in {a, b} : x >= y
  OBVIOUS
<1>3. Min({a, b}) \in {a, b} /\ \A y \in {a, b} : Min({a, b}) <= y
  BY <1>1 DEF Min
<1>4. Max({a, b}) \in {a, b} /\ \A y \in {a, b} : Max({a, b}) >= y
  BY <1>2 DEF Max
<1> QED BY <1>3, <1>4

\* A step by which one coroutine has no more to add than it or the pool loses.
LEMMA NoMoreToCome ==
  ASSUME ScalingInv, NEW e \in Scalers, NEW new \in ScalerRecords,
         scaler' = [scaler EXCEPT ![e] = new],
         new.pc = "adds" => new.left \in 1..LargestStep,
         workers' \in Nat,
         workers' + (IF new.pc = "adds" THEN new.left ELSE 0) <= workers + StillToAdd[e],
         UNCHANGED <<scalePolicy, highest, own>>
  PROVE  ScalingInv'
<1> DEFINE more == IF new.pc = "adds" THEN new.left ELSE 0
           bound == highest + own + (Cardinality(Scalers) - 1) * LargestStep
<1>1. /\ scaler' \in [Scalers -> ScalerRecords]
      /\ \A d \in Scalers : scaler'[d].pc = "adds" => scaler'[d].left \in 1..LargestStep
      /\ SumOver(StillToAdd', Scalers)
           = SumOver(StillToAdd, Scalers) - StillToAdd[e] + more
  BY ScalerMoves
<1>2. workers + SumOver(StillToAdd, Scalers) <= bound
  BY DEF ScalingInv
<1>3. /\ workers \in Nat /\ SumOver(StillToAdd, Scalers) \in Int
      /\ StillToAdd[e] \in Int /\ more \in Int
  BY StillToAddTypes, StepsAreBounded DEF ScalingInv, ScalerRecords
<1>4. bound \in Int
  <2>1. Cardinality(Scalers) \in Nat
    BY FS_CardinalityType, ScalingAssumption
  <2>2. LargestStep \in Nat /\ highest \in Nat /\ own \in Nat
    BY StepsAreBounded DEF ScalingInv
  <2> QED BY <2>1, <2>2
<1>5. workers' + SumOver(StillToAdd', Scalers) <= bound
  <2> HIDE DEF bound, more
  <2> QED BY <1>1, <1>2, <1>3, <1>4 DEF more
<1>6. bound' = bound /\ LargestStep' = LargestStep
  BY DEF LargestStep
<1> QED BY <1>1, <1>5, <1>6 DEF ScalingInv

\* A decision to add: whoever else adds has at most a step to go.
LEMMA DecidesToAddKeeps ==
  ASSUME ScalingInv, NEW e \in Scalers, DecidesToAdd(e)
  PROVE  ScalingInv'
<1> DEFINE new == [scaler[e] EXCEPT !.pc = "adds", !.left = WorkersToAdd]
<1>1. /\ scalePolicy.up \in Nat \ {0} /\ scalePolicy.up <= LargestStep
      /\ scalePolicy.max \in Nat /\ scalePolicy.max <= highest
      /\ workers \in Nat /\ highest \in Nat /\ LargestStep \in Nat
      /\ workers < scalePolicy.max /\ scaler[e].pc = "asleep"
  BY StepsAreBounded DEF ScalingInv, DecidesToAdd, Evaluates
<1>2. /\ WorkersToAdd \in 1..LargestStep
      /\ workers + WorkersToAdd <= highest
  <2>1. workers + scalePolicy.up \in Int /\ scalePolicy.max \in Int
    BY <1>1
  <2>2. Min({workers + scalePolicy.up, scalePolicy.max})
          = IF workers + scalePolicy.up <= scalePolicy.max
            THEN workers + scalePolicy.up ELSE scalePolicy.max
    BY <2>1, OfTwo
  <2> QED BY <1>1, <2>2 DEF WorkersToAdd
<1>3. new \in ScalerRecords /\ new.pc = "adds" /\ new.left = WorkersToAdd
  <2>1. scaler[e] \in ScalerRecords /\ WorkersToAdd \in Int /\ "adds" \in ScalerPlaces
    BY <1>1, <1>2 DEF ScalingInv, ScalerPlaces
  <2> QED BY <2>1 DEF ScalerRecords
<1>4. scaler' = [scaler EXCEPT ![e] = new]
  BY <1>1 DEF DecidesToAdd, ScalingInv, ScalerRecords
<1>5. UNCHANGED <<scalePolicy, workers, highest>> /\ own' = 0
  BY DEF DecidesToAdd
<1> HIDE DEF new
<1>6. /\ scaler' \in [Scalers -> ScalerRecords]
      /\ \A d \in Scalers : scaler'[d].pc = "adds" => scaler'[d].left \in 1..LargestStep
      /\ SumOver(StillToAdd', Scalers)
           = SumOver(StillToAdd, Scalers) - StillToAdd[e] + WorkersToAdd
  BY <1>2, <1>3, <1>4, ScalerMoves
<1>7. SumOver(StillToAdd, Scalers) <= (Cardinality(Scalers) - 1) * LargestStep
  <2>1. IsFiniteSet(Scalers \ {e}) /\ Cardinality(Scalers \ {e}) = Cardinality(Scalers) - 1
    BY FS_RemoveElement, ScalingAssumption
  <2>2. SumOver(StillToAdd, Scalers) = StillToAdd[e] + SumOver(StillToAdd, Scalers \ {e})
    BY StillToAddTypes, SumWithout, ScalingAssumption
  <2>3. SumOver(StillToAdd, Scalers \ {e}) <= Cardinality(Scalers \ {e}) * LargestStep
    <3>1. LargestStep \in Int
      BY StepsAreBounded
    <3>2. \A d \in Scalers \ {e} : StillToAdd[d] \in Int /\ StillToAdd[d] <= LargestStep
      BY StillToAddTypes
    <3> QED BY <2>1, <3>1, <3>2, SumOfBounded
  <2>4. StillToAdd[e] = 0
    BY <1>1 DEF StillToAdd
  <2>5. SumOver(StillToAdd, Scalers \ {e}) \in Int
    BY <2>1, StillToAddTypes, SumIsInt
  <2> QED BY <2>1, <2>2, <2>3, <2>4, <2>5
<1>8. (Cardinality(Scalers) - 1) * LargestStep \in Int
  BY <1>1, FS_CardinalityType, ScalingAssumption
<1>9. workers' + SumOver(StillToAdd', Scalers)
        <= highest + own' + (Cardinality(Scalers) - 1) * LargestStep
  <2>1. SumOver(StillToAdd, Scalers) \in Int /\ StillToAdd[e] = 0
    BY <1>1, StillToAddTypes DEF StillToAdd
  <2>2. workers' = workers /\ own' = 0
    BY <1>5
  <2> QED BY <1>1, <1>2, <1>6, <1>7, <1>8, <2>1, <2>2
<1>10. LargestStep' = LargestStep
  BY DEF LargestStep
<1> QED BY <1>5, <1>6, <1>9, <1>10 DEF ScalingInv

\* A coroutine that does not add before or after its step.
LEMMA WithoutAddingKeeps ==
  ASSUME ScalingInv, NEW e \in Scalers, NEW new \in ScalerRecords, new.pc # "adds",
         scaler' = [scaler EXCEPT ![e] = new], workers' \in {workers, workers - 1} \cap Nat,
         scalePolicy' = scalePolicy, highest' = highest, own' = own
  PROVE  ScalingInv'
<1>1. StillToAdd[e] \in Nat /\ workers \in Nat
  BY StillToAddTypes, StepsAreBounded DEF ScalingInv
<1>2. workers' + (IF new.pc = "adds" THEN new.left ELSE 0) <= workers + StillToAdd[e]
  BY <1>1
<1>3. new.pc = "adds" => new.left \in 1..LargestStep
  OBVIOUS
<1> QED BY <1>2, <1>3, NoMoreToCome

\* A coroutine creates one worker.
LEMMA AddsWorkerKeeps ==
  ASSUME ScalingInv, NEW e \in Scalers, AddsWorker(e)
  PROVE  ScalingInv'
<1>1. /\ scaler[e] \in ScalerRecords /\ scaler[e].pc = "adds"
      /\ scaler[e].left \in 1..LargestStep /\ LargestStep \in Nat /\ workers \in Nat
      /\ StillToAdd[e] = scaler[e].left
  BY StepsAreBounded DEF ScalingInv, AddsWorker, StillToAdd
<1>2. PICK left \in {scaler[e].left - 1, 0} :
        /\ After(e, left)
        /\ workers' = IF left = scaler[e].left - 1 /\ workers' # workers
                      THEN workers + 1 ELSE workers
  BY <1>1 DEF AddsWorker
<1> DEFINE new == [scaler[e] EXCEPT !.left = left,
                                    !.pc = IF left = 0 THEN "asleep" ELSE scaler[e].pc]
<1>3. left \in Int /\ left >= 0 /\ left < scaler[e].left
  BY <1>1, <1>2
<1>4. /\ new \in ScalerRecords /\ new.left = left
      /\ new.pc = IF left = 0 THEN "asleep" ELSE "adds"
  BY <1>1, <1>3 DEF ScalerRecords, ScalerPlaces
<1>5. scaler' = [scaler EXCEPT ![e] = new]
  BY <1>1, <1>2 DEF After, ScalingInv, ScalerRecords
<1> HIDE DEF new
<1>6. new.pc = "adds" => new.left \in 1..LargestStep
  BY <1>1, <1>3, <1>4
<1>7. /\ workers' \in Nat
      /\ workers' + (IF new.pc = "adds" THEN new.left ELSE 0) <= workers + StillToAdd[e]
  BY <1>1, <1>2, <1>3, <1>4
<1>8. UNCHANGED <<scalePolicy, highest, own>>
  BY DEF AddsWorker
<1> QED BY <1>4, <1>5, <1>6, <1>7, <1>8, NoMoreToCome

\* The steps of a coroutine that adds nothing.
LEMMA OtherStepsKeep ==
  ASSUME ScalingInv, NEW e \in Scalers,
         Start(e) \/ SimulateLoad(e) \/ Ends(e) \/ DecidesToRemove(e) \/ RemovesWorker(e)
  PROVE  ScalingInv'
<1>1. /\ scaler[e] \in ScalerRecords /\ scaler[e].left \in Int
      /\ workers \in Nat /\ scaler \in [Scalers -> ScalerRecords]
  BY DEF ScalingInv, ScalerRecords
<1>2. CASE Start(e)
  <2> DEFINE new == [scaler[e] EXCEPT !.pc = "asleep"]
  <2>1. new \in ScalerRecords /\ new.pc # "adds" /\ scaler' = [scaler EXCEPT ![e] = new]
    BY <1>1, <1>2 DEF Start, ScalerRecords, ScalerPlaces
  <2>2. /\ workers' \in {workers, workers - 1} \cap Nat
        /\ scalePolicy' = scalePolicy /\ highest' = highest /\ own' = own
    BY <1>1, <1>2 DEF Start
  <2> HIDE DEF new
  <2> QED BY <1>1, <2>1, <2>2, WithoutAddingKeeps
<1>3. CASE SimulateLoad(e)
  <2> DEFINE new == [scaler[e] EXCEPT !.pc = "asleep", !.simulates = TRUE]
  <2>1. new \in ScalerRecords /\ new.pc # "adds" /\ scaler' = [scaler EXCEPT ![e] = new]
    BY <1>1, <1>3 DEF SimulateLoad, ScalerRecords, ScalerPlaces
  <2>2. /\ workers' \in {workers, workers - 1} \cap Nat
        /\ scalePolicy' = scalePolicy /\ highest' = highest /\ own' = own
    BY <1>1, <1>3 DEF SimulateLoad
  <2> HIDE DEF new
  <2> QED BY <1>1, <2>1, <2>2, WithoutAddingKeeps
<1>4. CASE Ends(e)
  <2>1. NotScaling \in ScalerRecords /\ NotScaling.pc # "adds"
    BY DEF NotScaling, ScalerRecords, ScalerPlaces
  <2>2. /\ workers' \in {workers, workers - 1} \cap Nat
        /\ scalePolicy' = scalePolicy /\ highest' = highest /\ own' = own
        /\ scaler' = [scaler EXCEPT ![e] = NotScaling]
    BY <1>1, <1>4 DEF Ends
  <2> QED BY <1>1, <2>1, <2>2, WithoutAddingKeeps
<1>5. CASE DecidesToRemove(e)
  <2> DEFINE new == [scaler[e] EXCEPT !.pc = "removes", !.left = WorkersToRemove]
  <2>1. WorkersToRemove \in Int
    <3>1. workers - scalePolicy.down \in Int /\ scalePolicy.min \in Int
      BY <1>1, StepsAreBounded DEF ScalingInv
    <3>2. Max({workers - scalePolicy.down, scalePolicy.min}) \in Int
      BY <3>1, OfTwo
    <3> QED BY <1>1, <3>2 DEF WorkersToRemove
  <2>2. new \in ScalerRecords /\ new.pc # "adds" /\ scaler' = [scaler EXCEPT ![e] = new]
    BY <1>1, <1>5, <2>1 DEF DecidesToRemove, ScalerRecords, ScalerPlaces
  <2>3. /\ workers' \in {workers, workers - 1} \cap Nat
        /\ scalePolicy' = scalePolicy /\ highest' = highest /\ own' = own
    BY <1>1, <1>5 DEF DecidesToRemove
  <2> HIDE DEF new
  <2> QED BY <1>1, <2>2, <2>3, WithoutAddingKeeps
<1>6. CASE RemovesWorker(e)
  <2> DEFINE left == scaler[e].left - 1
             new == [scaler[e] EXCEPT !.left = left,
                                      !.pc = IF left = 0 THEN "asleep" ELSE scaler[e].pc]
  <2>1. scaler[e].pc = "removes" /\ workers' \in {workers, workers - 1} \cap Nat
    BY <1>1, <1>6 DEF RemovesWorker
  <2>2. new \in ScalerRecords /\ new.pc # "adds"
    <3>1. left \in Int /\ (IF left = 0 THEN "asleep" ELSE scaler[e].pc) \in ScalerPlaces \ {"adds"}
      BY <1>1, <2>1 DEF ScalerPlaces
    <3> HIDE DEF left
    <3> QED BY <1>1, <3>1 DEF ScalerRecords
  <2>3. scaler' = [scaler EXCEPT ![e] = new]
    BY <1>1, <1>6 DEF RemovesWorker, After, ScalerRecords
  <2>4. scalePolicy' = scalePolicy /\ highest' = highest /\ own' = own
    BY <1>6 DEF RemovesWorker
  <2> HIDE DEF new
  <2> QED BY <2>1, <2>2, <2>3, <2>4, WithoutAddingKeeps
<1> QED BY <1>2, <1>3, <1>4, <1>5, <1>6

\* A behaviour of Services is one of the scalers.
LEMMA ScalingOfServices == Spec => ScalingSpec
<1>1. Init => ScalingInit
  BY DEF Init
<1>2. [Next]_vars => [ScalingNext]_scalingVars
  BY DEF Next, OthersRest, vars
<1> QED BY <1>1, <1>2, PTL DEF Spec, ScalingSpec

LEMMA ScalingInductive == ScalingSpec => []ScalingInv
<1>1. ScalingInit => ScalingInv
  <2> SUFFICES ASSUME ScalingInit PROVE ScalingInv
    OBVIOUS
  <2>1. NotScaling \in ScalerRecords /\ NotScaling.pc # "adds"
    BY DEF NotScaling, ScalerRecords, ScalerPlaces
  <2>2. /\ scaler \in [Scalers -> ScalerRecords]
        /\ \A e \in Scalers : scaler[e].pc # "adds" /\ StillToAdd[e] = 0
    BY <2>1 DEF ScalingInit, StillToAdd
  <2>3. SumOver(StillToAdd, Scalers) = 0
    <3>1. SumOver(StillToAdd, Scalers) = SumOver(StillToAdd, {})
      <4>1. \A e \in Scalers : StillToAdd[e] \in Int
        BY <2>2
      <4>2. \A e \in Scalers \ {} : StillToAdd[e] = 0
        BY <2>2
      <4> QED BY <4>1, <4>2, SumOfZeros, ScalingAssumption
    <3> QED BY <3>1, SumOverEmpty
  <2>4. /\ scalePolicy \in ScalePolicies /\ highest = scalePolicy.max
        /\ scalePolicy.max \in Nat /\ workers \in 0..scalePolicy.max /\ own = 0
    BY StepsAreBounded DEF ScalingInit
  <2>5. (Cardinality(Scalers) - 1) * LargestStep \in Nat
    <3>1. Cardinality(Scalers) \in Nat /\ Cardinality(Scalers) # 0
      BY FS_CardinalityType, FS_EmptySet, ScalingAssumption
    <3> QED BY <3>1, StepsAreBounded
  <2>6. workers + SumOver(StillToAdd, Scalers)
          <= highest + own + (Cardinality(Scalers) - 1) * LargestStep
    BY <2>3, <2>4, <2>5
  <2> QED BY <2>2, <2>4, <2>6 DEF ScalingInv
<1>2. ScalingInv /\ [ScalingNext]_scalingVars => ScalingInv'
  <2> SUFFICES ASSUME ScalingInv, [ScalingNext]_scalingVars PROVE ScalingInv'
    OBVIOUS
  <2>1. ASSUME workers' \in Nat, own' \in Nat, workers' - own' <= workers - own,
               highest' \in Nat,
               highest <= highest', scalePolicy' \in ScalePolicies,
               scalePolicy'.max <= highest', scaler' = scaler
        PROVE  ScalingInv'
    <3>1. StillToAdd' = StillToAdd /\ LargestStep' = LargestStep
      BY <2>1 DEF StillToAdd, LargestStep
    <3>2. /\ SumOver(StillToAdd, Scalers) \in Int
          /\ (Cardinality(Scalers) - 1) * LargestStep \in Int
      BY StillToAddTypes, StepsAreBounded, FS_CardinalityType, ScalingAssumption
    <3>3. workers \in Nat /\ own \in Nat /\ highest \in Nat
      BY DEF ScalingInv
    <3>4. workers + SumOver(StillToAdd, Scalers)
            <= highest + own + (Cardinality(Scalers) - 1) * LargestStep
      BY DEF ScalingInv
    <3>5. workers' + SumOver(StillToAdd', Scalers)
            <= highest' + own' + (Cardinality(Scalers) - 1) * LargestStep
      <4>1. PICK sum \in Int, steps \in Int :
              /\ sum = SumOver(StillToAdd, Scalers)
              /\ steps = (Cardinality(Scalers) - 1) * LargestStep
        BY <3>2
      <4>2. workers \in Int /\ own \in Int /\ highest \in Int
        BY <3>3
      <4>3. workers' \in Int /\ own' \in Int /\ highest' \in Int
        BY <2>1
      <4>4. workers' - own' <= workers - own /\ highest <= highest'
        BY <2>1, Zenon
      <4>5. workers + sum <= highest + own + steps
        BY <3>4, <4>1
      <4>6. workers' + sum <= highest' + own' + steps
        <5>1. PICK w \in Int, o \in Int, h \in Int :
                w = workers /\ o = own /\ h = highest
          BY <4>2
        <5>2. PICK w1 \in Int, o1 \in Int, h1 \in Int :
                w1 = workers' /\ o1 = own' /\ h1 = highest'
          BY <4>3
        <5>3. w1 - o1 <= w - o /\ h <= h1 /\ w + sum <= h + o + steps
          BY <4>4, <4>5, <5>1, <5>2, Zenon
        <5>4. w1 + sum <= h1 + o1 + steps
          BY <5>3
        <5> QED BY <5>2, <5>4, Zenon
      <4> QED BY <3>1, <4>1, <4>6
    <3> QED BY <2>1, <3>1, <3>5 DEF ScalingInv
  <2>2. workers \in Nat /\ highest \in Nat /\ own \in Nat
        /\ scalePolicy \in ScalePolicies /\ scalePolicy.max <= highest
    BY DEF ScalingInv
  <2>3. CASE Stop
    BY <2>1, <2>2, <2>3 DEF Stop
  <2>4. CASE PoolLosesWorker \/ PoolGainsWorker
    BY <2>1, <2>2, <2>4 DEF PoolLosesWorker, PoolGainsWorker
  <2>5. ASSUME NEW p \in ScalePolicies, DefineScalingPolicy(p) PROVE ScalingInv'
    <3>1. p.max \in Int /\ highest \in Int
      BY <2>2, StepsAreBounded
    <3>2. highest' = IF highest >= p.max THEN highest ELSE p.max
      BY <2>5, <3>1, OfTwo DEF DefineScalingPolicy
    <3>3. p.max \in Nat
      BY StepsAreBounded
    <3> QED BY <2>1, <2>2, <2>5, <3>2, <3>3 DEF DefineScalingPolicy
  <2>6. CASE UNCHANGED scalingVars
    BY <2>1, <2>2, <2>6 DEF scalingVars
  <2> QED BY <2>3, <2>4, <2>5, <2>6, OtherStepsKeep, DecidesToAddKeeps, AddsWorkerKeeps
          DEF ScalingNext
<1> QED BY <1>1, <1>2, PTL DEF ScalingSpec

\* The workers of the pool and those the scalers have still to create exceed the
\* largest maximum by no more than a step of each further scaler and what the
\* pool has added itself since the last decision to add.
LEMMA OvershootByScalersAlways == Spec => []OvershootByScalers
<1>1. ScalingInv => OvershootByScalers
  BY SumOfAdding DEF ScalingInv, OvershootByScalers, LargestStep
<1> QED BY <1>1, ScalingInductive, ScalingOfServices, PTL

\* What the types of the scalers say beyond ScalingInv.  A coroutine that adds or
\* removes has a worker left to add or to remove, and never more than a pool has.
ScalingTyped ==
  /\ isRunning \in BOOLEAN /\ workers <= MaxPool
  /\ \A e \in Scalers : scaler[e].left \in 0..MaxPool
  /\ \A e \in Scalers : scaler[e].pc \in {"adds", "removes"} => scaler[e].left # 0

\* A decision is of at least one worker and of no more than the pool may have.
LEMMA DecisionsAreSmall ==
  ASSUME ScalingInv, ScalingTyped
  PROVE  /\ workers < scalePolicy.max => WorkersToAdd \in 1..MaxPool
         /\ workers > scalePolicy.min => WorkersToRemove \in 1..MaxPool
<1>1. /\ scalePolicy.up \in Nat \ {0} /\ scalePolicy.max \in 0..MaxPool
      /\ scalePolicy.min \in Nat /\ scalePolicy.down \in Nat \ {0}
      /\ workers \in Nat /\ workers <= MaxPool /\ MaxPool \in Nat
  BY ScalingAssumption DEF ScalingInv, ScalingTyped
<1>2. Min({workers + scalePolicy.up, scalePolicy.max})
        = IF workers + scalePolicy.up <= scalePolicy.max
          THEN workers + scalePolicy.up ELSE scalePolicy.max
  <2>1. workers + scalePolicy.up \in Int /\ scalePolicy.max \in Int
    BY <1>1
  <2> QED BY <2>1, OfTwo
<1>3. Max({workers - scalePolicy.down, scalePolicy.min})
        = IF workers - scalePolicy.down >= scalePolicy.min
          THEN workers - scalePolicy.down ELSE scalePolicy.min
  <2>1. workers - scalePolicy.down \in Int /\ scalePolicy.min \in Int
    BY <1>1
  <2> QED BY <2>1, OfTwo
<1>4. workers < scalePolicy.max => WorkersToAdd \in 1..MaxPool
  BY <1>1, <1>2 DEF WorkersToAdd
<1>5. workers > scalePolicy.min => WorkersToRemove \in 1..MaxPool
  BY <1>1, <1>3 DEF WorkersToRemove
<1> QED BY <1>4, <1>5

\* A step of one coroutine.
LEMMA ScalerTyped ==
  ASSUME ScalingInv, ScalingTyped, NEW e \in Scalers, NEW new \in ScalerRecords,
         scaler' = [scaler EXCEPT ![e] = new], new.left \in 0..MaxPool,
         new.pc \in {"adds", "removes"} => new.left # 0,
         isRunning' \in BOOLEAN, workers' <= MaxPool
  PROVE  ScalingTyped'
<1>1. \A d \in Scalers : scaler'[d] = IF d = e THEN new ELSE scaler[d]
  BY DEF ScalingInv
<1> QED BY <1>1 DEF ScalingTyped

\* Every step of the scalers keeps the types.
LEMMA ScalingTypeKept ==
  ASSUME ScalingInv, ScalingTyped, [ScalingNext]_scalingVars
  PROVE  ScalingTyped'
<1>1. /\ workers \in Nat /\ workers <= MaxPool /\ isRunning \in BOOLEAN /\ MaxPool \in Nat
      /\ scaler \in [Scalers -> ScalerRecords]
  BY ScalingAssumption DEF ScalingInv, ScalingTyped
<1>2. ASSUME workers' <= MaxPool, isRunning' \in BOOLEAN, scaler' = scaler PROVE ScalingTyped'
  BY <1>2 DEF ScalingTyped
<1>3. CASE Stop
  BY <1>1, <1>2, <1>3 DEF Stop
<1>4. CASE PoolLosesWorker
  <2>1. workers' <= MaxPool
    BY <1>1, <1>4 DEF PoolLosesWorker
  <2> QED BY <1>1, <1>2, <1>4, <2>1 DEF PoolLosesWorker
<1>8. CASE PoolGainsWorker
  <2>1. workers' <= MaxPool
    BY <1>1, <1>8 DEF PoolGainsWorker
  <2> QED BY <1>1, <1>2, <1>8, <2>1 DEF PoolGainsWorker
<1>5. ASSUME NEW p \in ScalePolicies, DefineScalingPolicy(p) PROVE ScalingTyped'
  BY <1>1, <1>2, <1>5 DEF DefineScalingPolicy
<1>6. CASE UNCHANGED scalingVars
  BY <1>1, <1>2, <1>6 DEF scalingVars
<1>7. ASSUME NEW e \in Scalers,
             \/ Start(e) \/ SimulateLoad(e) \/ Ends(e)
             \/ DecidesToAdd(e) \/ DecidesToRemove(e) \/ AddsWorker(e) \/ RemovesWorker(e)
      PROVE  ScalingTyped'
  <2> DEFINE old == scaler[e]
  <2>1. /\ old \in ScalerRecords /\ old.left \in 0..MaxPool
        /\ old.pc \in {"adds", "removes"} => old.left # 0
    BY <1>1 DEF ScalingTyped
  <2>2. CASE Start(e)
    <3> DEFINE new == [old EXCEPT !.pc = "asleep"]
    <3>1. /\ new \in ScalerRecords /\ new.pc = "asleep" /\ new.left = old.left
          /\ scaler' = [scaler EXCEPT ![e] = new]
      BY <1>1, <2>1, <2>2 DEF Start, ScalerRecords, ScalerPlaces
    <3>2. isRunning' \in BOOLEAN /\ workers' <= MaxPool
      BY <1>1, <2>2 DEF Start
    <3> HIDE DEF new, old
    <3> QED BY <2>1, <3>1, <3>2, ScalerTyped
  <2>3. CASE SimulateLoad(e)
    <3> DEFINE new == [old EXCEPT !.pc = "asleep", !.simulates = TRUE]
    <3>1. /\ new \in ScalerRecords /\ new.pc = "asleep" /\ new.left = old.left
          /\ scaler' = [scaler EXCEPT ![e] = new]
      BY <1>1, <2>1, <2>3 DEF SimulateLoad, ScalerRecords, ScalerPlaces
    <3>2. isRunning' \in BOOLEAN /\ workers' <= MaxPool
      BY <1>1, <2>3 DEF SimulateLoad
    <3> HIDE DEF new, old
    <3> QED BY <2>1, <3>1, <3>2, ScalerTyped
  <2>4. CASE Ends(e)
    <3>1. /\ NotScaling \in ScalerRecords /\ NotScaling.pc = "off" /\ NotScaling.left = 0
      BY DEF NotScaling, ScalerRecords, ScalerPlaces
    <3>2. /\ scaler' = [scaler EXCEPT ![e] = NotScaling]
          /\ isRunning' \in BOOLEAN /\ workers' <= MaxPool
      BY <1>1, <2>4 DEF Ends
    <3>3. 0 \in 0..MaxPool
      BY <1>1
    <3> QED BY <3>1, <3>2, <3>3, ScalerTyped
  <2>5. CASE DecidesToAdd(e)
    <3>1. WorkersToAdd \in 1..MaxPool
      BY <2>5, DecisionsAreSmall DEF DecidesToAdd
    <3> DEFINE new == [old EXCEPT !.pc = "adds", !.left = WorkersToAdd]
    <3>2. /\ new \in ScalerRecords /\ new.left = WorkersToAdd
          /\ scaler' = [scaler EXCEPT ![e] = new]
      <4>1. WorkersToAdd \in Int
        BY <1>1, <3>1
      <4> QED BY <1>1, <2>1, <2>5, <4>1 DEF DecidesToAdd, ScalerRecords, ScalerPlaces
    <3>3. isRunning' \in BOOLEAN /\ workers' <= MaxPool
      BY <1>1, <2>5 DEF DecidesToAdd
    <3>4. WorkersToAdd \in 0..MaxPool /\ WorkersToAdd # 0
      BY <1>1, <3>1
    <3> HIDE DEF new, old
    <3> QED BY <3>2, <3>3, <3>4, ScalerTyped
  <2>6. CASE DecidesToRemove(e)
    <3>1. WorkersToRemove \in 1..MaxPool
      BY <2>6, DecisionsAreSmall DEF DecidesToRemove
    <3> DEFINE new == [old EXCEPT !.pc = "removes", !.left = WorkersToRemove]
    <3>2. /\ new \in ScalerRecords /\ new.left = WorkersToRemove
          /\ scaler' = [scaler EXCEPT ![e] = new]
      <4>1. WorkersToRemove \in Int
        BY <1>1, <3>1
      <4> QED BY <1>1, <2>1, <2>6, <4>1 DEF DecidesToRemove, ScalerRecords, ScalerPlaces
    <3>3. isRunning' \in BOOLEAN /\ workers' <= MaxPool
      BY <1>1, <2>6 DEF DecidesToRemove
    <3>4. WorkersToRemove \in 0..MaxPool /\ WorkersToRemove # 0
      BY <1>1, <3>1
    <3> HIDE DEF new, old
    <3> QED BY <3>2, <3>3, <3>4, ScalerTyped
  <2>7. ASSUME NEW left \in {old.left - 1, 0}, After(e, left),
               old.pc \in {"adds", "removes"}, workers' <= MaxPool, isRunning' = isRunning
        PROVE  ScalingTyped'
    <3> DEFINE new == [old EXCEPT !.left = left,
                                  !.pc = IF left = 0 THEN "asleep" ELSE old.pc]
    <3>1. left \in 0..MaxPool
      BY <1>1, <2>1, <2>7
    <3>2. (IF left = 0 THEN "asleep" ELSE old.pc) \in ScalerPlaces /\ left \in Int
      BY <2>7, <3>1 DEF ScalerPlaces
    <3>3. /\ new \in ScalerRecords /\ new.left = left
          /\ new.pc = IF left = 0 THEN "asleep" ELSE old.pc
      BY <2>1, <3>2 DEF ScalerRecords
    <3>4. scaler' = [scaler EXCEPT ![e] = new]
      BY <1>1, <2>1, <2>7 DEF After, ScalerRecords
    <3>5. new.pc \in {"adds", "removes"} => new.left # 0
      BY <3>3
    <3> HIDE DEF new, old
    <3> QED BY <1>1, <2>7, <3>1, <3>3, <3>4, <3>5, ScalerTyped
  <2>8. CASE AddsWorker(e)
    <3>1. /\ old.pc = "adds" /\ workers' <= MaxPool /\ isRunning' = isRunning
          /\ After(e, old.left - 1) \/ After(e, 0)
      BY <1>1, <2>8 DEF AddsWorker
    <3> QED BY <2>7, <3>1
  <2>9. CASE RemovesWorker(e)
    <3>1. workers' \in {workers, workers - 1}
      BY <2>9 DEF RemovesWorker
    <3>2. workers' <= MaxPool
      BY <1>1, <3>1
    <3>3. old.pc = "removes" /\ isRunning' = isRunning /\ After(e, old.left - 1)
      BY <2>9 DEF RemovesWorker
    <3> QED BY <2>7, <3>2, <3>3
  <2> QED BY <1>7, <2>2, <2>3, <2>4, <2>5, <2>6, <2>8, <2>9
<1> QED BY <1>3, <1>4, <1>5, <1>6, <1>7, <1>8 DEF ScalingNext

\* The pool adds itself no more than the bound.
OwnTyped == own \in 0..MaxPool

LEMMA OwnBounded == ScalingSpec => []OwnTyped
<1>1. ScalingInit => OwnTyped
  BY ScalingAssumption DEF ScalingInit, OwnTyped
<1>2. OwnTyped /\ [ScalingNext]_scalingVars => OwnTyped'
  <2> SUFFICES ASSUME own \in 0..MaxPool, [ScalingNext]_scalingVars
               PROVE  own' \in 0..MaxPool
    BY DEF OwnTyped
  <2>1. own' \in {own, 0} \/ (own < MaxPool /\ own' = own + 1)
    BY DEF ScalingNext, scalingVars, Stop, PoolLosesWorker, PoolGainsWorker,
           DefineScalingPolicy, Start, SimulateLoad, Ends, DecidesToAdd, DecidesToRemove,
           AddsWorker, RemovesWorker
  <2> QED BY <2>1, ScalingAssumption
<1> QED BY <1>1, <1>2, PTL DEF ScalingSpec

\* The scalers and their policies have the types of the module.
LEMMA ScalingTypeCorrect == ScalingSpec => []ScalingTypeOK
<1>1. ScalingInit => ScalingTyped
  <2> SUFFICES ASSUME ScalingInit PROVE ScalingTyped
    OBVIOUS
  <2>1. workers <= MaxPool /\ 0 \in 0..MaxPool
    <3>1. scalePolicy.max \in 0..MaxPool /\ workers \in 0..scalePolicy.max /\ MaxPool \in Nat
      BY ScalingAssumption DEF ScalingInit
    <3> QED BY <3>1
  <2>2. \A e \in Scalers : scaler[e].pc = "off" /\ scaler[e].left = 0
    BY DEF ScalingInit, NotScaling
  <2> QED BY <2>1, <2>2 DEF ScalingInit, ScalingTyped
<1>2. ScalingInv /\ ScalingTyped /\ [ScalingNext]_scalingVars => ScalingTyped'
  BY ScalingTypeKept
<1>3. ScalingInv /\ ScalingTyped /\ OwnTyped => ScalingTypeOK
  <2> SUFFICES ASSUME ScalingInv, ScalingTyped, own \in 0..MaxPool PROVE ScalingTypeOK
    BY DEF OwnTyped
  <2>1. workers \in 0..MaxPool
    BY ScalingAssumption DEF ScalingInv, ScalingTyped
  <2>2. \A e \in Scalers : scaler[e] \in [pc: ScalerPlaces, simulates: BOOLEAN, left: 0..MaxPool]
    BY DEF ScalingInv, ScalingTyped, ScalerRecords
  <2> QED BY <2>1, <2>2 DEF ScalingInv, ScalingTyped, ScalingTypeOK, ScalerPlaces
<1> QED BY <1>1, <1>2, <1>3, ScalingInductive, OwnBounded, PTL DEF ScalingSpec

--------------------------------------------------------------------------------
\* What the components that keep records promise of them: the audit log of the
\* application, the results and statuses of execute_dag, the model load_model
\* serves, the outcomes complete_execution and fail_execution note, and the
\* directories of contexts.
THEOREM RecordsHoldAlways == Spec => []RecordsHold
BY AuditCompleteAlways, RunningBehindFailureAlways, ProductionServesPromotedAlways,
   OutcomeRecordedAlways, DirectoriesOfContextsAlways, PTL DEF RecordsHold

\* What the components that count promise of their limits: the windows of the
\* middleware, the buckets of the tools' limiter, the periods of the quotas, the
\* invoices of a month, and the workers the scalers add.
THEOREM BoundsHoldAlways == Spec => []BoundsHold
BY WindowBoundedAlways, BucketBoundedAlways, PeriodBoundedAlways,
   BilledUnlessTrimmedAlways, OvershootByScalersAlways, PTL DEF BoundsHold

\* The state of every component has the types its module gives it: each from what
\* its code keeps of its own records, and the component that moves is one of them.
THEOREM ServicesTypeCorrect == Spec => []TypeOK
<1> DEFINE PartKept == part \in Parts
<1>1. Init => PartKept
  BY DEF Init
<1>2. PartKept /\ [Next]_vars => PartKept'
  <2> SUFFICES ASSUME PartKept, [Next]_vars PROVE PartKept'
    OBVIOUS
  <2>1. UNCHANGED part
    BY DEF Next, vars, OthersRest
  <2> QED BY <2>1
<1>3. Spec => []PartKept
  BY <1>1, <1>2, PTL DEF Spec
<1>4. Spec => [](ApprovalTypeOK /\ SlaTypeOK /\ AssignmentTypeOK /\ LimitsTypeOK)
  BY ApprovalOfServices, ApprovalTypeCorrect, SlaOfServices, SlaTypeCorrect,
     AssignmentOfServices, AssignmentTypeCorrect, LimitsOfServices, LimitsTypeCorrect, PTL
<1>5. Spec => [](BucketsTypeOK /\ StateTypeOK /\ BusTypeOK /\ KeysTypeOK /\ DAGTypeOK)
  BY BucketsOfServices, BucketsTypeCorrect, StateOfServices, StateTypeCorrect,
     BusOfServices, BusTypeCorrect, KeysOfServices, KeysTypeCorrect,
     DAGOfServices, DAGTypeCorrect, PTL
<1>6. Spec => [](ScalingTypeOK /\ ReportsTypeOK /\ ApplicationTypeOK /\ TenantsTypeOK)
  BY ScalingOfServices, ScalingTypeCorrect, ReportsOfServices, ReportsTypeCorrect,
     ApplicationOfServices, ApplicationTypeCorrect, TenantsOfServices, TenantsTypeCorrect, PTL
<1>7. Spec => [](QuotasTypeOK /\ DAGExecutionTypeOK /\ ModelsTypeOK /\ LifecycleTypeOK)
  BY QuotasOfServices, QuotasTypeCorrect, DAGExecutionOfServices, DAGExecutionTypeCorrect,
     ModelsOfServices, ModelsTypeCorrect, LifecycleOfServices, LifecycleTypeCorrect, PTL
<1> QED BY <1>3, <1>4, <1>5, <1>6, <1>7, PTL DEF TypeOK
================================================================================
