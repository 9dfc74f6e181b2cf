------------------------------ MODULE WorkerPool -------------------------------
(***************************************************************************)
(* src/workers/worker_pool.py: the workers of one tool and the parties that*)
(* change their list between suspensions: the calls of execute, the health *)
(* loop with debug_containers and recovery, and the auto-scaler.           *)
(*                                                                         *)
(* The key "execution_id" that execute reads is not among those its only   *)
(* caller passes, so current_task is always None.  permanent_failure marks *)
(* workers the number of attempts excludes anyway.  Task queues, worker_   *)
(* status and networks are written and never read.  The age of a worker,   *)
(* which exempts it from the health check for a minute, and the load that  *)
(* decides between available workers are left open.                        *)
(***************************************************************************)
EXTENDS ContainerManager, SequencesExt

CONSTANT MaxPerTool           \* max_workers_per_tool

ASSUME MaxPerToolAssumption == MaxPerTool \in Nat \ {0}

MinPerTool == 1               \* min_workers_per_tool

VARIABLES pool,       \* worker_pools[tool]: a list, a worker may occur twice
          status,     \* worker["status"], "none" before it is created
          used,       \* workers with tasks_completed > 0
          attempts,   \* _recovery_attempts
          pc,         \* where each call of execute is
          on,         \* the worker whose container it uses, 0 for none
          health,     \* where the health loop is
          cursor,     \* its position in the list
          patient,    \* the worker it recovers, 0 for none
          scaler,     \* where the auto-scaler is
          restarted,  \* history: workers debug_containers started again
          stray       \* history: workers whose container a recovery or a creation
                      \* that raised has left running

taskVars == <<pc, on>>
loopVars == <<health, cursor, patient, restarted>>
healthVars == <<loopVars, stray>>
workerVars == <<status, used, attempts>>
vars == <<containerVars, pool, workerVars, taskVars, healthVars, scaler>>

PoolStatuses == {"none", "available", "busy", "unhealthy"}

\* The registration of the tool has made the first worker, or failed to.
Init ==
  /\ \E first \in {{}, {1}} :
       /\ container = [w \in Workers |-> IF w \in first THEN "running" ELSE "none"]
       /\ status = [w \in Workers |-> IF w \in first THEN "available" ELSE "none"]
       /\ pool = SetToSeq(first)
  /\ commands = [w \in Workers |-> {}] /\ faults = 0
  /\ used = {} /\ restarted = {} /\ stray = {}
  /\ attempts = [w \in Workers |-> 0]
  /\ pc = [t \in Tasks |-> "new"] /\ on = [t \in Tasks |-> 0]
  /\ health = "starting" /\ cursor = 0 /\ patient = 0
  /\ scaler = "idle"

Pooled == ToSet(pool)
WithStatus(s) == {i \in DOMAIN pool : status[pool[i]] = s}
--------------------------------------------------------------------------------
(***************************************************************************)
(* The end of _create_worker: the container runs and the worker is appended*)
(* to the list.  A creation that raises makes no worker, and may leave the *)
(* container running that it has started.                                  *)
(***************************************************************************)
Fresh == Cardinality({w \in Workers : container[w] # "none"}) + 1

CanCreate == Fresh \in Workers

ListWithNew == Append(pool, Fresh)
StatusWithNew == [status EXCEPT ![Fresh] = "available"]
ContainersWithNew == [container EXCEPT ![Fresh] = "running"]

Create ==
  /\ CanCreate
  /\ status' = StatusWithNew
  /\ container' = ContainersWithNew
  /\ UNCHANGED <<commands, faults, used, attempts>>

CreationRaises ==
  /\ \/ UNCHANGED <<container, stray>>
     \/ /\ CanCreate
        /\ container' = ContainersWithNew
        /\ stray' = stray \cup {Fresh}
  /\ UNCHANGED <<commands, faults>>
--------------------------------------------------------------------------------
(***************************************************************************)
(* execute.  A call that ends here without a result of the worker goes on  *)
(* to the direct execution of the tool, or its exception to the router.    *)
(***************************************************************************)
GoTo(t, place, w) ==
  /\ pc' = [pc EXCEPT ![t] = place]
  /\ on' = [on EXCEPT ![t] = w]

\* A mutant of Free: the test of the status is forgotten.
FreeAlways(w) == status' = [status EXCEPT ![w] = "available"]

\* The finally clause.
Free(w) == status' = [status EXCEPT ![w] = IF @ = "unhealthy" THEN @ ELSE "available"]

\* A mutant of Available: a busy worker will do.
AvailableOrBusy(w, statuses) == statuses[w] \in {"available", "busy"}

\* What _get_available_worker looks for.
Available(w, statuses) == statuses[w] = "available"

\* The call takes an available worker of the list and its command starts, or
\* execute_in_container raises at once.
Take(t, list, statuses, containers) ==
  \E w \in ToSet(list) :
    /\ Available(w, statuses)
    /\ \/ /\ containers[w] # "gone"
          /\ status' = [statuses EXCEPT ![w] = "busy"]
          /\ ExecuteIn(w, t, containers)
          /\ GoTo(t, "running", w)
       \/ /\ status' = [statuses EXCEPT ![w] = "unhealthy"]
          /\ ExecuteRaises(w, containers)
          /\ GoTo(t, "ended", 0)

NoneAvailable == ~\E w \in Pooled : Available(w, status)

Execute(t) ==
  /\ pc[t] = "new"
  /\ Take(t, pool, status, container)
  /\ UNCHANGED <<pool, used, attempts, healthVars, scaler>>

ExecuteScalesUp(t) ==
  /\ pc[t] = "new"
  /\ NoneAvailable
  /\ Len(pool) < MaxPerTool
  /\ GoTo(t, "creating", 0)
  /\ UNCHANGED <<containerVars, pool, workerVars, healthVars, scaler>>

ExecuteDirectly(t) ==
  /\ pc[t] = "new"
  /\ NoneAvailable
  /\ Len(pool) >= MaxPerTool
  /\ GoTo(t, "ended", 0)
  /\ UNCHANGED <<containerVars, pool, workerVars, healthVars, scaler>>

\* The new worker is in the list; the call takes it, or another one that has
\* become available, in the same step.
ExecuteWithNew(t) ==
  /\ pc[t] = "creating"
  /\ CanCreate
  /\ pool' = ListWithNew
  /\ Take(t, ListWithNew, StatusWithNew, ContainersWithNew)
  /\ UNCHANGED <<used, attempts, healthVars, scaler>>

CreationFails(t) ==
  /\ pc[t] = "creating"
  /\ CreationRaises
  /\ GoTo(t, "ended", 0)
  /\ UNCHANGED <<pool, workerVars, loopVars, scaler>>

CommandReturns(t) ==
  /\ pc[t] = "running"
  /\ CommandOver(on[t], t)
  /\ used' = used \cup {on[t]}
  /\ Free(on[t])
  /\ GoTo(t, "ended", 0)
  /\ UNCHANGED <<pool, attempts, healthVars, scaler>>

CommandRaises(t) ==
  /\ pc[t] = "running"
  /\ CommandOver(on[t], t)
  /\ status' = [status EXCEPT ![on[t]] = "unhealthy"]
  /\ GoTo(t, "ended", 0)
  /\ UNCHANGED <<pool, used, attempts, healthVars, scaler>>
--------------------------------------------------------------------------------
(***************************************************************************)
(* _health_check_loop.                                                     *)
(***************************************************************************)
\* debug_containers, half a minute after the start: a stopped container is
\* started and its worker set available whatever it is doing.  Docker may not
\* answer for some workers, and raise for others after it has started them.
DebugContainers ==
  \E found \in SUBSET Pooled :
    LET stopped == {w \in found : container[w] = "stopped"}
        gone == {w \in found : container[w] = "gone"}
    IN  \E raised \in SUBSET stopped :
          /\ health = "starting"
          /\ health' = "idle"
          /\ container' = [w \in Workers |-> IF w \in stopped THEN "running" ELSE container[w]]
          /\ status' = [w \in Workers |-> IF w \in stopped \ raised THEN "available"
                                          ELSE IF w \in gone THEN "unhealthy"
                                          ELSE status[w]]
          /\ restarted' = stopped
          /\ Faults(Cardinality(Pooled \ found) + Cardinality(raised))
          /\ UNCHANGED <<commands, pool, used, attempts, taskVars,
                         cursor, patient, stray, scaler>>

\* A mutant of MayRecover: recovery without end.
MayRecoverAlways(w) == attempts[w] <= 2

\* Not more than one attempt was made so far.
MayRecover(w) == attempts[w] <= 1

\* The loop goes through the list from position i on.  It checks the workers old
\* enough (a minute, so none created in this step), sets those that were unhealthy
\* for no reason available again and forgets their attempts, and stops at the
\* first one reported unhealthy: that one is set so, its container discarded as
\* far as Docker does it, and the loop waits for two seconds and a new worker.
Scan(i, list, statuses, containers, left) ==
  \E old \in SUBSET Pooled :
    LET checked == {k \in i..Len(list) : list[k] \in old /\ MayRecover(list[k])}
        sick == {k \in checked : ~Healthy(list[k])}
        healed(ks) == {list[k] : k \in {k \in ks : status[list[k]] = "unhealthy"}}
        healedStatus(ks) ==
          [w \in Workers |-> IF w \in healed(ks) THEN "available" ELSE statuses[w]]
        forgotten(ks) == [w \in Workers |-> IF w \in healed(ks) THEN 0 ELSE attempts[w]]
    IN  \/ /\ sick = {}
           /\ status' = healedStatus(checked) /\ attempts' = forgotten(checked)
           /\ container' = containers
           /\ health' = "idle" /\ cursor' = 0 /\ patient' = 0
           /\ stray' = left
           /\ UNCHANGED <<commands, faults>>
        \/ \E k \in checked :
             LET w == list[k]
                 before == {l \in checked : l < k}
             IN  /\ before \cap sick = {}
                 /\ status' = [healedStatus(before) EXCEPT ![w] = "unhealthy"]
                 /\ attempts' = [forgotten(before) EXCEPT ![w] = @ + 1]
                 /\ \E wrong \in {IF Healthy(w) THEN 1 ELSE 0} :
                      \/ Discarded(w, containers) /\ Faults(wrong)
                      \/ DiscardRaises(w, containers) /\ Faults(wrong + 1)
                 /\ stray' = left \cup {v \in {w} : container'[v] = "running"}
                 /\ health' = "recovering" /\ cursor' = k /\ patient' = w

CheckHealth ==
  /\ health = "idle"
  /\ Scan(1, pool, status, container, stray)
  /\ UNCHANGED <<pool, used, taskVars, restarted, scaler>>

\* The new worker is appended, and takes the place of the one it replaces too;
\* the loop goes on behind the position it was at.
Recovered ==
  LET place == SelectInSeq(pool, LAMBDA v : v = patient)
      list == ReplaceAt(ListWithNew, place, Fresh)
  IN  /\ health = "recovering"
      /\ CanCreate
      /\ pool' = list
      /\ Scan(cursor + 1, list, StatusWithNew, ContainersWithNew, stray)
      /\ UNCHANGED <<used, taskVars, restarted, scaler>>

RecoveryFails ==
  /\ health = "recovering"
  /\ \/ Scan(cursor + 1, pool, status, container, stray)
     \/ /\ CanCreate
        /\ Scan(cursor + 1, pool, status, ContainersWithNew, stray \cup {Fresh})
  /\ UNCHANGED <<pool, used, taskVars, restarted, scaler>>
--------------------------------------------------------------------------------
(***************************************************************************)
(* _auto_scaler_loop: scale_up_threshold is 0.8, scale_down_threshold 0.1. *)
(***************************************************************************)
Busy == Cardinality(WithStatus("busy"))

ScaleUp ==
  /\ scaler = "idle"
  /\ pool # <<>> /\ Len(pool) < MaxPerTool
  /\ 10 * Busy >= 8 * Len(pool)
  /\ scaler' = "creating"
  /\ UNCHANGED <<containerVars, pool, workerVars, taskVars, healthVars>>

ScaledUp ==
  /\ scaler = "creating"
  /\ scaler' = "idle"
  /\ Create /\ pool' = ListWithNew
  /\ UNCHANGED <<taskVars, healthVars>>

ScaleUpFails ==
  /\ scaler = "creating"
  /\ scaler' = "idle"
  /\ CreationRaises
  /\ UNCHANGED <<pool, workerVars, taskVars, loopVars>>

\* An idle worker, for _remove_idle_worker.
Idle(w) == Available(w, status) /\ w \in used

\* _remove_idle_worker takes the oldest one: its container, then one of its
\* places in the list, which it keeps when Docker raises.
RemoveIdle ==
  /\ scaler = "idle"
  /\ Len(pool) > MinPerTool
  /\ 10 * Busy <= Len(pool)
  /\ \E w \in Pooled :
       /\ Idle(w)
       /\ \A v \in Pooled : Idle(v) => w <= v
       /\ container[w] # "gone"
       /\ \/ Discarded(w, container) /\ pool' = RemoveFirst(pool, w) /\ UNCHANGED faults
          \/ DiscardRaises(w, container) /\ pool' = pool /\ Faults(1)
  /\ UNCHANGED <<workerVars, taskVars, healthVars, scaler>>
--------------------------------------------------------------------------------
\* The environment: a container stops by itself.
Dies(w) ==
  /\ ContainerDies(w)
  /\ UNCHANGED <<pool, workerVars, taskVars, healthVars, scaler>>

Next ==
  \/ \E t \in Tasks :
       \/ Execute(t) \/ ExecuteScalesUp(t) \/ ExecuteDirectly(t)
       \/ ExecuteWithNew(t) \/ CreationFails(t)
       \/ CommandReturns(t) \/ CommandRaises(t)
  \/ DebugContainers \/ CheckHealth \/ Recovered \/ RecoveryFails
  \/ ScaleUp \/ ScaledUp \/ ScaleUpFails \/ RemoveIdle
  \/ \E w \in Workers : Dies(w)

Spec == Init /\ [][Next]_vars
--------------------------------------------------------------------------------
(***************************************************************************)
(* The type invariant.  The bound on attempts is the one the code keeps: it*)
(* makes two attempts for a worker, not one as its comments "Max 1 recovery*)
(* attempt" and "Only allow 1 recovery attempt per worker" say.            *)
(***************************************************************************)
TypeOK ==
  /\ ContainerTypeOK
  /\ pool \in Seq(Workers)
  /\ status \in [Workers -> PoolStatuses]
  /\ used \subseteq Workers /\ restarted \subseteq Workers /\ stray \subseteq Workers
  /\ attempts \in [Workers -> 0..2]
  /\ pc \in [Tasks -> {"new", "creating", "running", "ended"}]
  /\ on \in [Tasks -> Workers \cup {0}]
  /\ health \in {"starting", "idle", "recovering"}
  /\ cursor \in Nat /\ patient \in Workers \cup {0}
  /\ scaler \in {"idle", "creating"}

(***************************************************************************)
(* A container runs one command at a time, of a call that is waiting for   *)
(* it, through every creation, recovery and removal around it; except where*)
(* debug_containers set the worker of a running call available, or check_  *)
(* health said no of a container that runs and recovery failed to stop it: *)
(* current_task being None, the loop may set that worker available again   *)
(* under its command.                                                      *)
(***************************************************************************)
OneCommandPerContainer ==
  \A w \in Workers \ (restarted \cup stray) :
    /\ Cardinality(commands[w]) <= 1
    /\ \A t \in commands[w] : on[t] = w /\ status[w] = "busy"

(***************************************************************************)
(* Nothing but a recovery takes the container from under a command: scale- *)
(* down never does, if the worker was neither started again by debug_      *)
(* containers nor survived a recovery.                                     *)
(***************************************************************************)
NoCommandKilled ==
  [][\A w \in Workers \ (restarted \cup stray) :
       commands[w] # {} /\ container'[w] = "gone" => attempts'[w] > attempts[w]]_vars

(***************************************************************************)
(* A container that runs is that of a worker in the list, unless a recovery*)
(* failed to stop it or the creation that started it raised: scale-down and*)
(* recovery leave no other behind, no replacement overwrites a worker that *)
(* runs, and no two creations lose a worker between them.                  *)
(***************************************************************************)
NoContainerLeaks ==
  \A w \in Workers :
    container[w] = "running" => w \in Pooled \cup stray

(***************************************************************************)
(* A worker recovery was attempted for is offered to no call, neither by   *)
(* one that returns late nor by the loop, until the loop finds its         *)
(* container running; and it runs only if recovery failed to stop it.  So  *)
(* a worker that recovery really gave up stays out of use for good.        *)
(***************************************************************************)
RecoveredIsOutOfUse ==
  \A w \in Workers :
    attempts[w] > 0 =>
      /\ status[w] = "unhealthy"
      /\ container[w] = "running" => w \in stray

(***************************************************************************)
(* "Remove an idle worker" (_remove_idle_worker): once scale-down has      *)
(* removed a container and taken its worker from the list, the list offers *)
(* that worker no more.                                                    *)
(***************************************************************************)
RemovedIsNotOffered ==
  [][\A w \in Workers :
       Len(pool') < Len(pool) /\ container'[w] # container[w] => w \notin Pooled']_vars

\* The calls are alike, for TLC.
Symmetry == Permutations(Tasks)
================================================================================
