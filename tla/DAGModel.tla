-------------------------------- MODULE DAGModel -------------------------------
(***************************************************************************)
(* src/models/dag.py and src/agents/verifier: a plan is built task by task *)
(* and edge by edge, and then verified.  Tasks are numbered in the order   *)
(* they are added.  add_edge may add an edge twice, so edges are counted.  *)
(***************************************************************************)
EXTENDS Integers, FiniteSets, FiniteSetsExt

CONSTANTS
  MaxNodes,                   \* bound on the tasks of the plan
  MaxEdges,                   \* bound on its edges
  Duration                    \* estimated_duration_seconds of each task

ASSUME DAGAssumption ==
  /\ MaxNodes \in Nat /\ MaxEdges \in Nat
  /\ Duration \in [1..MaxNodes -> Nat]

VARIABLES nodes,              \* how many tasks there are
          flawed,             \* a task no agent can handle, or not allowed
          edges,              \* how often each edge is there
          verdict             \* what validate_dag said

dagVars == <<nodes, flawed, edges, verdict>>

DAGInit ==
  /\ nodes = 0 /\ flawed = FALSE
  /\ edges = [e \in (1..MaxNodes) \X (1..MaxNodes) |-> 0]
  /\ verdict = "none"

DAGTypeOK ==
  /\ nodes \in 0..MaxNodes /\ flawed \in BOOLEAN
  /\ edges \in [(1..MaxNodes) \X (1..MaxNodes) -> 0..MaxEdges]
  /\ verdict \in {"none", "valid", "refused", "raised"}

Edges(from, to) == MapThenSumSet(LAMBDA e : edges[e], from \X to)

\* The tasks the search finds: n and those it leads to.
ReachedFrom(n) ==
  LET reached[k \in 0..nodes] ==
        IF k = 0 THEN {n}
        ELSE LET found == reached[k - 1]
             IN  found \cup {m \in 1..nodes : \E p \in found : edges[<<p, m>>] > 0}
  IN  reached[nodes]

\* _has_path.
HasPath(n, m) == m \in ReachedFrom(n)

Before(n) == {m \in 1..nodes : edges[<<m, n>>] > 0}

\* What the verifier looks at in a task: the capabilities it asks for, of which
\* one agent must have all, the cpu and memory, the tool it names and the names
\* of its parameters.
Agents == {{"port_scan", "vuln_scan", "web_scan", "network_scan"},
           {"network_scan", "port_scan"}, {"exploit"}, {"validation"}}
TaskNodes == [capabilities: {{}, {"port_scan"}, {"port_scan", "exploit"}},
              tooLarge: BOOLEAN, toolAllowed: BOOLEAN, sensitive: BOOLEAN]

CannotBeHandled(task) == \A a \in Agents : ~(task.capabilities \subseteq a)
ViolatesPolicy(task) == task.sensitive \/ ~task.toolAllowed

AddNode(task) ==
  /\ verdict = "none" /\ nodes < MaxNodes
  /\ nodes' = nodes + 1
  /\ flawed' = (flawed \/ CannotBeHandled(task) \/ task.tooLarge
                     \/ ViolatesPolicy(task))
  /\ UNCHANGED <<edges, verdict>>

\* _would_create_cycle searches from the task the edge leaves, and answers yes
\* when it comes to the other task a second time.
WouldCreateCycle(from, to) ==
  Edges(ReachedFrom(from), {to}) >= IF from = to THEN 1 ELSE 2

AddEdge(from, to) ==
  /\ verdict = "none"
  /\ Edges(1..nodes, 1..nodes) < MaxEdges
  /\ ~WouldCreateCycle(from, to)
  /\ edges' = [edges EXCEPT ![<<from, to>>] = @ + 1]
  /\ UNCHANGED <<nodes, flawed, verdict>>

HasCycle == \E n \in 1..nodes : \E m \in ReachedFrom(n) : edges[<<m, n>>] > 0

Isolated == {n \in 1..nodes : Edges({n}, 1..nodes) + Edges(1..nodes, {n}) = 0}

\* get_level of the parallelism check, which ends when there is no cycle.
Level ==
  LET level[n \in 1..nodes] ==
        IF Before(n) = {} THEN 0 ELSE Max({level[m] : m \in Before(n)}) + 1
  IN  level

\* A mutant of ExecutionOrder: the first of the levels before decides.
LevelByNearest ==
  LET level[n \in 1..nodes] ==
        IF Before(n) = {} THEN 0 ELSE Min({level[m] : m \in Before(n)}) + 1
  IN  level

\* get_execution_order: the tasks of one level are run together.
ExecutionOrder == Level

\* _find_critical_path: the distance of a task from where its path begins,
\* which does not count the first task.
Distance ==
  LET dist[n \in 1..nodes] ==
        IF Before(n) = {} THEN 0
        ELSE Max({dist[m] : m \in Before(n)}) + Duration[n]
  IN  dist

ParallelismErrors ==
  LET level == Level
  IN  \E n, m \in 1..nodes : n # m /\ level[n] = level[m] /\ HasPath(n, m)

\* validate_dag: a cycle is found, but then get_level recurses for ever and
\* the RecursionError takes the place of the list of errors.
ValidateDag ==
  /\ verdict = "none" /\ nodes > 0
  /\ verdict' = IF HasCycle THEN "raised"
                ELSE IF \/ nodes > 1 /\ Isolated # {}
                        \/ ParallelismErrors
                        \/ flawed
                     THEN "refused" ELSE "valid"
  /\ UNCHANGED <<nodes, flawed, edges>>

DAGNext ==
  \/ \E task \in TaskNodes : AddNode(task)
  \/ \E from, to \in 1..nodes : AddEdge(from, to)
  \/ ValidateDag

--------------------------------------------------------------------------------
Paths == {p \in UNION {[1..k -> 1..nodes] : k \in 1..nodes} :
            \A i \in 1..Cardinality(DOMAIN p) - 1 : edges[<<p[i], p[i + 1]>>] > 0}

\* ValidatedRunsInOrder: although add_edge lets cycles in, a plan that passes
\* the verifier has none; no task of it runs together with, or before, a task
\* it depends on along whatever path; and no path from a first task is longer
\* than the critical one.
ValidatedRunsInOrder ==
  verdict = "valid" =>
    LET level == ExecutionOrder
        longest == LET dist == Distance IN Max({dist[n] : n \in 1..nodes})
    IN  \A p \in Paths :
          LET k == Cardinality(DOMAIN p)
          IN  /\ k > 1 => p[1] # p[k] /\ level[p[1]] < level[p[k]]
              /\ Before(p[1]) = {} =>
                   MapThenSumSet(LAMBDA i : Duration[p[i]], 2..k) <= longest
================================================================================
