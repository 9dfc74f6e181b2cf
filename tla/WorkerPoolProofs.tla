---------------------------- MODULE WorkerPoolProofs ---------------------------
(***************************************************************************)
(* Theorems about WorkerPool, for any number of calls and of workers.      *)
(*                                                                         *)
(* Several actions first create a worker and then, in the same step, take  *)
(* one or look at their health.  The parts of the invariant are therefore  *)
(* stated of a list, of statuses and of containers, as Take and Scan are:  *)
(* those of the state, or those with the new worker.                       *)
(***************************************************************************)
EXTENDS WorkerPool, SequenceLemmas

ContainerStates == {"none", "running", "stopped", "gone"}

\* Workers get the numbers in turn; the list has created ones only, and
\* whatever runs is in it or left running by a step that raised.
Listed(list, cs, left) ==
  /\ \E n \in 0..MaxWorkers : {w \in Workers : cs[w] # "none"} = 1..n
  /\ \A w \in ToSet(list) : cs[w] # "none"
  /\ \A w \in Workers : cs[w] = "running" => w \in ToSet(list) \cup left

OutOfUse(statuses, cs, left) ==
  \A w \in Workers :
    attempts[w] > 0 =>
      /\ statuses[w] = "unhealthy" /\ cs[w] # "none"
      /\ cs[w] = "running" => w \in left

\* A command runs in a container that runs, of a call that waits for it there.
CommandsAwaited(cs) ==
  \A w \in Workers : \A t \in commands[w] :
    pc[t] = "running" /\ on[t] = w /\ cs[w] = "running"

RunsIn(t, w) == pc[t] = "running" /\ on[t] = w

\* The worker of a waiting call is busy, or given up by recovery and stopped.
Held(w, statuses, cs) ==
  \/ attempts[w] = 0 /\ statuses[w] = "busy" /\ cs[w] # "gone"
  \/ attempts[w] > 0 /\ cs[w] # "running"

\* Of the calls that wait for a worker, with or without a command, there is
\* one, and the worker is held for it; except those that debug_containers has
\* restarted or that are left running.
WaitsAlone(statuses, cs, left) ==
  /\ \A t \in Tasks : pc[t] = "running" => on[t] \in Workers /\ cs[on[t]] # "none"
  /\ \A w \in Workers \ (restarted \cup left) : \A t \in Tasks :
       RunsIn(t, w) => /\ Held(w, statuses, cs)
                       /\ \A u \in Tasks : RunsIn(u, w) => u = t

\* Before debug_containers nothing was recovered; while the loop waits for a
\* new worker, the one it replaces is given up.
HealthLoop ==
  /\ health = "starting" => restarted = {} /\ \A w \in Workers : attempts[w] = 0
  /\ health = "recovering" => patient \in Workers /\ attempts[patient] > 0

\* TypeOK of what Take and Scan get, and of the rest.
TypedPool(list, statuses, cs, left) ==
  /\ left \subseteq Workers
  /\ list \in Seq(Workers)
  /\ statuses \in [Workers -> PoolStatuses]
  /\ cs \in [Workers -> ContainerStates]

TypedRest ==
  /\ commands \in [Workers -> SUBSET Tasks] /\ faults \in Nat
  /\ used \subseteq Workers /\ restarted \subseteq Workers
  /\ attempts \in [Workers -> 0..2]
  /\ pc \in [Tasks -> {"new", "creating", "running", "ended"}]
  /\ on \in [Tasks -> Workers \cup {0}]
  /\ health \in {"starting", "idle", "recovering"}
  /\ cursor \in Nat /\ patient \in Workers \cup {0}
  /\ scaler \in {"idle", "creating"}

Good(list, statuses, cs, left) ==
  /\ TypedPool(list, statuses, cs, left)
  /\ Listed(list, cs, left)
  /\ OutOfUse(statuses, cs, left)
  /\ CommandsAwaited(cs)
  /\ WaitsAlone(statuses, cs, left)

IInv == Good(pool, status, container, stray) /\ TypedRest /\ HealthLoop
--------------------------------------------------------------------------------
(***************************************************************************)
(* Creating a worker.                                                      *)
(***************************************************************************)
\* The number a new worker gets is one no worker has.
LEMMA FreshIsNew ==
  ASSUME MaxWorkersAssumption, Listed(pool, container, stray), CanCreate,
         container \in [Workers -> ContainerStates]
  PROVE  /\ Fresh \in Workers /\ container[Fresh] = "none"
         /\ \E n \in 0..MaxWorkers : {w \in Workers : ContainersWithNew[w] # "none"} = 1..n
<1>1. PICK n \in 0..MaxWorkers : {w \in Workers : container[w] # "none"} = 1..n
  BY DEF Listed
<1>2. n \in Nat /\ Cardinality(1..n) = n
  BY FS_Interval DEF MaxWorkersAssumption
<1>3. Fresh = n + 1
  BY <1>1, <1>2 DEF Fresh
<1>4. n + 1 \in Workers /\ n + 1 \in 0..MaxWorkers /\ n + 1 \notin 1..n
  BY <1>2, <1>3 DEF CanCreate, Workers, MaxWorkersAssumption
<1>5. container[n + 1] = "none"
  BY <1>1, <1>4
<1>6. ASSUME NEW w \in Workers
      PROVE  ContainersWithNew[w] # "none" <=> w \in 1..n + 1
  <2>1. ContainersWithNew[w] = IF w = n + 1 THEN "running" ELSE container[w]
    BY <1>3 DEF ContainersWithNew
  <2>2. w \in 1..n + 1 <=> w = n + 1 \/ w \in 1..n
    BY <1>2 DEF Workers, MaxWorkersAssumption
  <2> QED BY <1>1, <2>1, <2>2
<1>7. 1..n + 1 \subseteq Workers
  BY <1>2, <1>4 DEF Workers, MaxWorkersAssumption
<1>8. {w \in Workers : ContainersWithNew[w] # "none"} = 1..n + 1
  BY <1>6, <1>7
<1> QED BY <1>3, <1>4, <1>5, <1>8

\* The list, the statuses and the containers with a new worker are as good as
\* those without.
LEMMA CreateKeeps ==
  ASSUME MaxWorkersAssumption, Good(pool, status, container, stray), TypedRest, CanCreate
  PROVE  /\ Good(ListWithNew, StatusWithNew, ContainersWithNew, stray)
         /\ ToSet(ListWithNew) = Pooled \cup {Fresh}
         /\ \A w \in Pooled : /\ StatusWithNew[w] = status[w]
                              /\ ContainersWithNew[w] = container[w]
<1> DEFINE f == Fresh
<1>1. TypedPool(pool, status, container, stray) /\ Listed(pool, container, stray)
  BY DEF Good
<1>2. f \in Workers /\ container[f] = "none"
  BY <1>1, FreshIsNew DEF TypedPool
<1>3. /\ ListWithNew \in Seq(Workers)
      /\ ToSet(ListWithNew) = Pooled \cup {f}
      /\ Pooled \subseteq Workers
  BY <1>1, <1>2, ToSetOfAppend, ToSetOfSeq DEF TypedPool, ListWithNew, Pooled
<1>4. StatusWithNew = [status EXCEPT ![f] = "available"]
  BY DEF StatusWithNew
<1>5. ContainersWithNew = [container EXCEPT ![f] = "running"]
  BY DEF ContainersWithNew
<1>6. \E n \in 0..MaxWorkers : {w \in Workers : ContainersWithNew[w] # "none"} = 1..n
  BY <1>1, FreshIsNew DEF TypedPool
<1> HIDE DEF f
<1>7. TypedPool(ListWithNew, StatusWithNew, ContainersWithNew, stray)
  BY <1>1, <1>2, <1>3, <1>4, <1>5 DEF TypedPool, PoolStatuses, ContainerStates
<1>8. \A w \in Workers : ContainersWithNew[w] = IF w = f THEN "running" ELSE container[w]
  BY <1>1, <1>5 DEF TypedPool
<1>9. \A w \in Workers : StatusWithNew[w] = IF w = f THEN "available" ELSE status[w]
  BY <1>1, <1>4 DEF TypedPool
<1>10. Listed(ListWithNew, ContainersWithNew, stray)
  <2>1. ASSUME NEW w \in ToSet(ListWithNew) PROVE ContainersWithNew[w] # "none"
    BY <1>1, <1>2, <1>3, <1>8 DEF Listed, Pooled
  <2>2. ASSUME NEW w \in Workers, ContainersWithNew[w] = "running"
        PROVE  w \in ToSet(ListWithNew) \cup stray
    BY <1>1, <1>3, <1>8, <2>2 DEF Listed, Pooled
  <2> QED BY <1>6, <2>1, <2>2 DEF Listed
<1>11. attempts[f] = 0 /\ commands[f] = {}
  <2>1. attempts[f] \in 0..2 /\ ~(attempts[f] > 0)
    BY <1>2 DEF TypedRest, Good, OutOfUse
  <2>2. commands[f] \subseteq Tasks /\ ~\E t \in commands[f] : TRUE
    BY <1>2 DEF TypedRest, Good, CommandsAwaited
  <2> QED BY <2>1, <2>2
<1>12. OutOfUse(StatusWithNew, ContainersWithNew, stray)
  BY <1>8, <1>9, <1>11 DEF Good, OutOfUse
<1>13. CommandsAwaited(ContainersWithNew)
  BY <1>8, <1>11 DEF Good, CommandsAwaited
<1>14. \A t \in Tasks : pc[t] = "running" => on[t] # f
  BY <1>2 DEF Good, WaitsAlone
<1>15. WaitsAlone(StatusWithNew, ContainersWithNew, stray)
  BY <1>8, <1>9, <1>14 DEF Good, WaitsAlone, RunsIn, Held
<1>16. \A w \in Pooled : w # f
  BY <1>1, <1>2 DEF Listed, Pooled
<1> QED BY <1>3, <1>7, <1>8, <1>9, <1>10, <1>12, <1>13, <1>15, <1>16 DEF Good, f

\* So they are with a container that a creation which raised leaves running.
LEMMA RaisedKeeps ==
  ASSUME MaxWorkersAssumption, Good(pool, status, container, stray), TypedRest, CanCreate
  PROVE  /\ Good(pool, status, ContainersWithNew, stray \cup {Fresh})
         /\ \A w \in Pooled : ContainersWithNew[w] = container[w] /\ w # Fresh
<1> DEFINE f == Fresh
           left == stray \cup {f}
<1>1. TypedPool(pool, status, container, stray) /\ Listed(pool, container, stray)
  BY DEF Good
<1>2. f \in Workers /\ container[f] = "none"
  BY <1>1, FreshIsNew DEF TypedPool
<1>3. ContainersWithNew = [container EXCEPT ![f] = "running"]
  BY DEF ContainersWithNew
<1>4. \E n \in 0..MaxWorkers : {w \in Workers : ContainersWithNew[w] # "none"} = 1..n
  BY <1>1, FreshIsNew DEF TypedPool
<1>5. ToSet(pool) \subseteq Workers
  BY <1>1, ToSetOfSeq DEF TypedPool
<1> HIDE DEF f
<1>6. \A w \in Workers : ContainersWithNew[w] = IF w = f THEN "running" ELSE container[w]
  BY <1>1, <1>3 DEF TypedPool
<1>7. TypedPool(pool, status, ContainersWithNew, left)
  BY <1>1, <1>2, <1>3 DEF TypedPool, ContainerStates
<1>8. Listed(pool, ContainersWithNew, left)
  BY <1>1, <1>2, <1>4, <1>5, <1>6 DEF Listed
<1>9. attempts[f] = 0 /\ commands[f] = {}
  <2>1. attempts[f] \in 0..2 /\ ~(attempts[f] > 0)
    BY <1>2 DEF TypedRest, Good, OutOfUse
  <2>2. commands[f] \subseteq Tasks /\ ~\E t \in commands[f] : TRUE
    BY <1>2 DEF TypedRest, Good, CommandsAwaited
  <2> QED BY <2>1, <2>2
<1>10. OutOfUse(status, ContainersWithNew, left)
  BY <1>6, <1>9 DEF Good, OutOfUse
<1>11. CommandsAwaited(ContainersWithNew)
  BY <1>6, <1>9 DEF Good, CommandsAwaited
<1>12. \A t \in Tasks : pc[t] = "running" => on[t] # f
  BY <1>2 DEF Good, WaitsAlone
<1>13. WaitsAlone(status, ContainersWithNew, left)
  BY <1>6, <1>12 DEF Good, WaitsAlone, RunsIn, Held
<1>14. \A w \in Pooled : w # f /\ w \in Workers
  BY <1>1, <1>2, <1>5 DEF Listed, Pooled
<1> QED BY <1>6, <1>7, <1>8, <1>10, <1>11, <1>13, <1>14 DEF Good, f

\* A list that has lost no worker whose container runs, unless it is left
\* running, is as good.
LEMMA OtherList ==
  ASSUME NEW list, NEW statuses, NEW cs, NEW left, Good(list, statuses, cs, left),
         NEW other \in Seq(Workers), ToSet(other) \subseteq ToSet(list),
         \A w \in ToSet(list) : cs[w] = "running" => w \in ToSet(other) \cup left
  PROVE  Good(other, statuses, cs, left)
BY DEF Good, TypedPool, Listed

\* What discarding a container comes to, whether Docker raises or not.
LEMMA AfterDiscard ==
  ASSUME NEW w, NEW cs, Discarded(w, cs) \/ DiscardRaises(w, cs)
  PROVE  \E state \in {cs[w], "stopped", "gone"} :
           /\ container' = [cs EXCEPT ![w] = state]
           /\ commands' = [commands EXCEPT ![w] = IF state = "running" THEN @ ELSE {}]
BY DEF Discarded, DiscardRaises

--------------------------------------------------------------------------------
(***************************************************************************)
(* The step of execute that takes a worker, and that of the health loop    *)
(* that goes on with its list, from a good list, statuses and containers.  *)
(***************************************************************************)
\* No command loses its container but by a recovery, except where debug_
\* containers restarted it or a recovery left it running.
NoneKilled ==
  \A w \in Workers \ (restarted \cup stray) :
    commands[w] # {} /\ container'[w] = "gone" => attempts'[w] > attempts[w]

LEMMA TakeKeeps ==
  ASSUME MaxWorkersAssumption, NEW t \in Tasks, NEW list, NEW statuses, NEW cs,
         Good(list, statuses, cs, stray), TypedRest, HealthLoop, pc[t] # "running",
         Take(t, list, statuses, cs), pool' = list,
         UNCHANGED <<used, attempts, healthVars, scaler>>
  PROVE  IInv' /\ NoneKilled
<1>1. TypedPool(list, statuses, cs, stray) /\ Listed(list, cs, stray)
  BY DEF Good
<1>2. PICK w \in ToSet(list) :
        /\ statuses[w] = "available"
        /\ \/ /\ cs[w] # "gone"
              /\ status' = [statuses EXCEPT ![w] = "busy"]
              /\ ExecuteIn(w, t, cs)
              /\ GoTo(t, "running", w)
           \/ /\ status' = [statuses EXCEPT ![w] = "unhealthy"]
              /\ ExecuteRaises(w, cs)
              /\ GoTo(t, "ended", 0)
  BY DEF Take, Available
<1>3. w \in Workers /\ cs[w] # "none"
  BY <1>1, <1>2, ToSetOfSeq DEF TypedPool, Listed
<1>4. attempts[w] = 0
  <2>1. attempts[w] \in 0..2 /\ ~(attempts[w] > 0)
    BY <1>2, <1>3 DEF TypedRest, Good, OutOfUse
  <2> QED BY <2>1
<1>5. w \notin restarted \cup stray => ~\E u \in Tasks : RunsIn(u, w)
  BY <1>2, <1>3, <1>4 DEF Good, WaitsAlone, Held
<1>6. /\ attempts' = attempts /\ restarted' = restarted /\ used' = used
      /\ health' = health /\ cursor' = cursor /\ patient' = patient
      /\ scaler' = scaler /\ stray' = stray
  BY DEF healthVars, loopVars
<1>7. CASE /\ cs[w] # "gone"
           /\ status' = [statuses EXCEPT ![w] = "busy"]
           /\ ExecuteIn(w, t, cs)
           /\ GoTo(t, "running", w)
  <2>1. /\ container' = [cs EXCEPT ![w] = "running"]
        /\ commands' = [commands EXCEPT ![w] = @ \cup {t}]
        /\ pc' = [pc EXCEPT ![t] = "running"]
        /\ on' = [on EXCEPT ![t] = w]
        /\ faults' = faults
    BY <1>7 DEF ExecuteIn, GoTo
  <2>2. TypedPool(pool, status, container, stray)' /\ TypedRest'
    BY <1>1, <1>3, <1>6, <1>7, <2>1 DEF TypedPool, TypedRest, PoolStatuses, ContainerStates
  <2>3. \A v \in Workers : /\ container'[v] = IF v = w THEN "running" ELSE cs[v]
                           /\ status'[v] = IF v = w THEN "busy" ELSE statuses[v]
                           /\ commands'[v] = IF v = w THEN commands[w] \cup {t} ELSE commands[v]
    BY <1>1, <1>7, <2>1 DEF TypedPool, TypedRest
  <2>4. \A u \in Tasks : /\ pc'[u] = IF u = t THEN "running" ELSE pc[u]
                         /\ on'[u] = IF u = t THEN w ELSE on[u]
    BY <2>1 DEF TypedRest
  <2>5. Listed(pool, container, stray)'
    <3>1. {v \in Workers : container'[v] # "none"} = {v \in Workers : cs[v] # "none"}
      BY <1>3, <2>3
    <3>2. \A v \in ToSet(list) : v \in Workers
      BY <1>1, ToSetOfSeq DEF TypedPool
    <3>3. /\ \E n \in 0..MaxWorkers : {v \in Workers : container'[v] # "none"} = 1..n
          /\ \A v \in ToSet(list) : container'[v] # "none"
          /\ \A v \in Workers : container'[v] = "running" => v \in ToSet(list) \cup stray
      BY <1>1, <1>2, <2>3, <3>1, <3>2 DEF Listed
    <3> QED BY <1>6, <3>3 DEF Listed
  <2>6. OutOfUse(status, container, stray)'
    BY <1>4, <1>6, <2>3 DEF Good, OutOfUse
  <2>7. CommandsAwaited(container)'
    <3>1. \A v \in Workers : t \notin commands[v]
      BY DEF Good, CommandsAwaited
    <3>2. \A v \in Workers : commands[v] \subseteq Tasks
      BY DEF TypedRest
    <3>3. ASSUME NEW v \in Workers, NEW u \in commands'[v]
          PROVE  pc'[u] = "running" /\ on'[u] = v /\ container'[v] = "running"
      <4>1. CASE u = t
        BY <2>3, <2>4, <3>1, <3>3, <4>1
      <4>2. CASE u # t
        <5>1. u \in commands[v] /\ u \in Tasks
          BY <2>3, <3>2, <3>3, <4>2
        <5> QED BY <2>3, <2>4, <4>2, <5>1 DEF Good, CommandsAwaited
      <4> QED BY <4>1, <4>2
    <3> QED BY <3>3 DEF CommandsAwaited
  <2>8. WaitsAlone(status, container, stray)'
    <3>1. \A u \in Tasks : pc'[u] = "running" => on'[u] \in Workers /\ container'[on'[u]] # "none"
      BY <1>3, <2>3, <2>4 DEF Good, WaitsAlone
    <3>2. \A u \in Tasks, v \in Workers :
            RunsIn(u, v)' <=> IF u = t THEN v = w ELSE RunsIn(u, v)
      BY <2>4 DEF RunsIn
    <3>3. ASSUME NEW v \in Workers \ (restarted \cup stray), NEW u \in Tasks, RunsIn(u, v)'
          PROVE  /\ Held(v, status, container)'
                 /\ \A x \in Tasks : RunsIn(x, v)' => x = u
      <4>1. CASE v = w
        BY <1>3, <1>4, <1>5, <1>6, <2>3, <3>2, <3>3, <4>1 DEF Held
      <4>2. CASE v # w
        BY <1>6, <2>3, <3>2, <3>3, <4>2 DEF Good, WaitsAlone, Held
      <4> QED BY <4>1, <4>2
    <3> QED BY <1>6, <3>1, <3>3 DEF WaitsAlone
  <2>9. HealthLoop'
    BY <1>6 DEF HealthLoop
  <2>10. NoneKilled
    BY <2>3 DEF NoneKilled, Good, CommandsAwaited
  <2> QED BY <2>2, <2>5, <2>6, <2>7, <2>8, <2>9, <2>10 DEF IInv, Good
<1>8. CASE /\ status' = [statuses EXCEPT ![w] = "unhealthy"]
           /\ ExecuteRaises(w, cs)
           /\ GoTo(t, "ended", 0)
  <2>1. /\ container' = cs /\ commands' = commands
        /\ pc' = [pc EXCEPT ![t] = "ended"]
        /\ on' = [on EXCEPT ![t] = 0]
        /\ faults' \in Nat
    BY <1>8 DEF GoTo, ExecuteRaises, Faults, TypedRest
  <2>2. TypedPool(pool, status, container, stray)' /\ TypedRest'
    BY <1>1, <1>3, <1>6, <1>8, <2>1 DEF TypedPool, TypedRest, PoolStatuses
  <2>3. \A v \in Workers : status'[v] = IF v = w THEN "unhealthy" ELSE statuses[v]
    BY <1>1, <1>8 DEF TypedPool
  <2>4. \A u \in Tasks : /\ pc'[u] = IF u = t THEN "ended" ELSE pc[u]
                         /\ on'[u] = IF u = t THEN 0 ELSE on[u]
    BY <2>1 DEF TypedRest
  <2>5. Listed(pool, container, stray)'
    BY <1>1, <1>6, <2>1 DEF Listed
  <2>6. OutOfUse(status, container, stray)'
    BY <1>4, <1>6, <2>1, <2>3 DEF Good, OutOfUse
  <2>7. CommandsAwaited(container)'
    BY <2>1, <2>4 DEF Good, CommandsAwaited, TypedRest
  <2>8. WaitsAlone(status, container, stray)'
    <3>1. \A u \in Tasks, v \in Workers : RunsIn(u, v)' => u # t /\ RunsIn(u, v)
      BY <2>4 DEF RunsIn
    <3>2. \A u \in Tasks : pc'[u] = "running" => on'[u] \in Workers /\ container'[on'[u]] # "none"
      BY <2>1, <2>4 DEF Good, WaitsAlone
    <3>3. ASSUME NEW v \in Workers \ (restarted \cup stray), NEW u \in Tasks, RunsIn(u, v)'
          PROVE  /\ Held(v, status, container)'
                 /\ \A x \in Tasks : RunsIn(x, v)' => x = u
      <4>1. v # w
        BY <1>5, <3>1, <3>3
      <4> QED BY <1>6, <2>1, <2>3, <3>1, <3>3, <4>1 DEF Good, WaitsAlone, Held
    <3> QED BY <1>6, <3>2, <3>3 DEF WaitsAlone
  <2>9. HealthLoop'
    BY <1>6 DEF HealthLoop
  <2>10. NoneKilled
    BY <2>1 DEF NoneKilled, Good, CommandsAwaited
  <2> QED BY <2>2, <2>5, <2>6, <2>7, <2>8, <2>9, <2>10 DEF IInv, Good
<1> QED BY <1>2, <1>7, <1>8

\* The workers that the loop looks at were in the list before the step, so what
\* the loop reads of them is what it finds with a new worker, too.
LEMMA ScanKeeps ==
  ASSUME MaxWorkersAssumption, NEW i \in Nat \ {0}, NEW list, NEW statuses, NEW cs,
         NEW left, Good(list, statuses, cs, left), TypedRest,
         \A w \in Pooled : /\ statuses[w] = status[w] /\ cs[w] = container[w]
                           /\ w \in left => w \in stray,
         Scan(i, list, statuses, cs, left), pool' = list,
         UNCHANGED <<used, taskVars, restarted, scaler>>
  PROVE  IInv' /\ NoneKilled
<1> DEFINE checkedIn(old) == {k \in i..Len(list) : list[k] \in old /\ MayRecover(list[k])}
           sickIn(old) == {k \in checkedIn(old) : ~Healthy(list[k])}
           healedIn(ks) == {list[k] : k \in {k \in ks : status[list[k]] = "unhealthy"}}
           statusesAfter(healed) == [w \in Workers |-> IF w \in healed THEN "available" ELSE statuses[w]]
           attemptsAfter(healed) == [w \in Workers |-> IF w \in healed THEN 0 ELSE attempts[w]]
           Idles(healed) ==
             /\ status' = statusesAfter(healed) /\ attempts' = attemptsAfter(healed)
             /\ container' = cs /\ stray' = left /\ UNCHANGED <<commands, faults>>
             /\ health' = "idle" /\ cursor' = 0 /\ patient' = 0
           Recovers(healed, k) ==
             /\ status' = [statusesAfter(healed) EXCEPT ![list[k]] = "unhealthy"]
             /\ attempts' = [attemptsAfter(healed) EXCEPT ![list[k]] = @ + 1]
             /\ \E wrong \in {IF Healthy(list[k]) THEN 1 ELSE 0} :
                  \/ Discarded(list[k], cs) /\ Faults(wrong)
                  \/ DiscardRaises(list[k], cs) /\ Faults(wrong + 1)
             /\ stray' = left \cup {v \in {list[k]} : container'[v] = "running"}
             /\ health' = "recovering" /\ cursor' = k /\ patient' = list[k]
<1>1. PICK old \in SUBSET Pooled :
        \/ sickIn(old) = {} /\ Idles(healedIn(checkedIn(old)))
        \/ \E k \in checkedIn(old) :
             LET before == {l \in checkedIn(old) : l < k}
             IN  before \cap sickIn(old) = {} /\ Recovers(healedIn(before), k)
  BY DEF Scan
<1>2. \A ks \in SUBSET checkedIn(old) :
        ks \cap sickIn(old) = {} =>
          \A w \in healedIn(ks) :
            w \in Pooled /\ container[w] = "running" /\ status[w] = "unhealthy"
  BY DEF Healthy
<1>3. PICK healed \in SUBSET Pooled :
        /\ \A w \in healed : container[w] = "running" /\ status[w] = "unhealthy"
        /\ \/ Idles(healed)
           \/ \E k \in checkedIn(old) : Recovers(healed, k)
  <2>1. CASE sickIn(old) = {} /\ Idles(healedIn(checkedIn(old)))
    <3>1. checkedIn(old) \cap sickIn(old) = {}
      BY <2>1
    <3> HIDE DEF checkedIn, sickIn, Idles, Recovers, healedIn
    <3>2. \A w \in healedIn(checkedIn(old)) :
            w \in Pooled /\ container[w] = "running" /\ status[w] = "unhealthy"
      BY <1>2, <3>1
    <3> QED BY <2>1, <3>2
  <2>2. ASSUME NEW k \in checkedIn(old), NEW before \in SUBSET checkedIn(old),
               before \cap sickIn(old) = {}, Recovers(healedIn(before), k)
        PROVE  \E healed \in SUBSET Pooled :
                 /\ \A w \in healed : container[w] = "running" /\ status[w] = "unhealthy"
                 /\ Recovers(healed, k)
    <3> HIDE DEF checkedIn, sickIn, Idles, Recovers, healedIn
    <3>1. \A w \in healedIn(before) :
            w \in Pooled /\ container[w] = "running" /\ status[w] = "unhealthy"
      BY <1>2, <2>2
    <3> QED BY <2>2, <3>1
  <2> HIDE DEF Idles, Recovers, healedIn, sickIn
  <2>3. \A k \in checkedIn(old) : {l \in checkedIn(old) : l < k} \in SUBSET checkedIn(old)
    OBVIOUS
  <2> HIDE DEF checkedIn
  <2> QED BY <1>1, <2>1, <2>2, <2>3
<1>4. TypedPool(list, statuses, cs, left) /\ Listed(list, cs, left)
  BY DEF Good
<1>5. /\ Len(list) \in Nat
      /\ ToSet(list) = {list[k] : k \in 1..Len(list)}
      /\ \A k \in 1..Len(list) : list[k] \in Workers
  BY <1>4, ToSetOfSeq, ElementOfSeq DEF TypedPool
<1>6. \A k \in checkedIn(old) : /\ k \in Nat /\ k \in 1..Len(list)
                                /\ list[k] \in Pooled /\ attempts[list[k]] <= 1
  BY <1>5 DEF MayRecover
<1>7. /\ pc' = pc /\ on' = on /\ used' = used /\ restarted' = restarted
      /\ scaler' = scaler
  BY DEF taskVars
<1> DEFINE given == statusesAfter(healed)
           tried == attemptsAfter(healed)
<1>8. /\ given = [w \in Workers |-> IF w \in healed THEN "available" ELSE statuses[w]]
      /\ tried = [w \in Workers |-> IF w \in healed THEN 0 ELSE attempts[w]]
  OBVIOUS
<1> HIDE DEF given, tried, checkedIn
<1>9. \A w \in healed : statuses[w] = "unhealthy" /\ cs[w] = "running"
  BY <1>3
<1>10. /\ given \in [Workers -> PoolStatuses]
       /\ tried \in [Workers -> 0..2]
  BY <1>4, <1>8 DEF TypedPool, TypedRest, PoolStatuses
<1>11. \A w \in Workers : /\ w \in healed => given[w] = "available" /\ tried[w] = 0
                          /\ w \notin healed => given[w] = statuses[w] /\ tried[w] = attempts[w]
  BY <1>8
<1>12. \A w \in healed \ (restarted \cup left) : w \in Workers => ~\E u \in Tasks : RunsIn(u, w)
  BY <1>9 DEF Good, WaitsAlone, Held
<1>13. ASSUME Idles(healed) PROVE IInv' /\ NoneKilled
  <2>1. /\ status' = given /\ attempts' = tried
        /\ container' = cs /\ stray' = left /\ commands' = commands /\ faults' = faults
        /\ health' = "idle" /\ cursor' = 0 /\ patient' = 0
    BY <1>13 DEF given, tried
  <2>2. TypedPool(pool, status, container, stray)' /\ TypedRest'
    BY <1>4, <1>7, <1>10, <2>1 DEF TypedPool, TypedRest
  <2>3. Listed(pool, container, stray)'
    BY <1>4, <2>1 DEF Listed
  <2>4. OutOfUse(status, container, stray)'
    BY <1>11, <2>1 DEF Good, OutOfUse
  <2>5. CommandsAwaited(container)'
    BY <1>7, <2>1 DEF Good, CommandsAwaited
  <2>6. WaitsAlone(status, container, stray)'
    BY <1>7, <1>11, <1>12, <2>1 DEF Good, WaitsAlone, Held, RunsIn
  <2>7. HealthLoop'
    BY <2>1 DEF HealthLoop
  <2>8. NoneKilled
    BY <2>1 DEF NoneKilled, Good, CommandsAwaited
  <2> QED BY <2>2, <2>3, <2>4, <2>5, <2>6, <2>7, <2>8 DEF IInv, Good
<1>14. ASSUME NEW k \in checkedIn(old), Recovers(healed, k) PROVE IInv' /\ NoneKilled
  <2> DEFINE w == list[k]
  <2>1. /\ k \in Nat /\ w \in Pooled /\ w \in Workers /\ w \in ToSet(list)
        /\ attempts[w] \in 0..1
    BY <1>5, <1>6 DEF TypedRest
  <2>2. Discarded(w, cs) \/ DiscardRaises(w, cs)
    BY <1>14
  <2>3. PICK state \in {cs[w], "stopped", "gone"} :
          /\ container' = [cs EXCEPT ![w] = state]
          /\ commands' = [commands EXCEPT ![w] = IF state = "running" THEN @ ELSE {}]
    BY <2>2, AfterDiscard
  <2>4. faults' \in Nat
    BY <1>14 DEF Faults, TypedRest
  <2>5. /\ status' = [given EXCEPT ![w] = "unhealthy"]
        /\ attempts' = [tried EXCEPT ![w] = @ + 1]
        /\ stray' = left \cup {v \in {w} : container'[v] = "running"}
        /\ health' = "recovering" /\ cursor' = k /\ patient' = w
    BY <1>14 DEF given, tried
  <2> HIDE DEF w
  <2>6. cs[w] # "none" /\ state # "none" /\ state \in ContainerStates
    BY <1>4, <2>1 DEF Listed, TypedPool, ContainerStates
  <2>7. \A v \in Workers : /\ container'[v] = IF v = w THEN state ELSE cs[v]
                           /\ status'[v] = IF v = w THEN "unhealthy" ELSE given[v]
                           /\ attempts'[v] = IF v = w THEN tried[w] + 1 ELSE tried[v]
    BY <1>4, <1>10, <2>1, <2>3, <2>5 DEF TypedPool
  <2>8. \A v \in Workers :
          commands'[v] = IF v = w /\ state # "running" THEN {} ELSE commands[v]
    BY <2>1, <2>3 DEF TypedRest
  <2>9. tried[w] \in 0..1 /\ attempts'[w] \in 1..2
    <3>1. tried[w] \in 0..1
      BY <1>11, <2>1
    <3> QED BY <2>1, <2>7, <3>1
  <2>10. /\ left \subseteq stray' /\ stray' \subseteq left \cup {w}
         /\ state = "running" => w \in stray'
    BY <2>1, <2>5, <2>7
  <2>11. TypedPool(pool, status, container, stray)'
    BY <1>4, <1>10, <2>1, <2>3, <2>5, <2>6, <2>10 DEF TypedPool, PoolStatuses, ContainerStates
  <2>12. TypedRest'
    <3>1. attempts' \in [Workers -> 0..2]
      BY <1>10, <2>1, <2>5, <2>9
    <3>2. commands' \in [Workers -> SUBSET Tasks]
      BY <2>3 DEF TypedRest
    <3> QED BY <1>7, <2>1, <2>4, <2>5, <3>1, <3>2 DEF TypedRest
  <2>13. Listed(pool, container, stray)'
    <3>1. {v \in Workers : container'[v] # "none"} = {v \in Workers : cs[v] # "none"}
      BY <2>6, <2>7
    <3>2. \A v \in ToSet(list) : v \in Workers
      BY <1>5
    <3>3. /\ \E n \in 0..MaxWorkers : {v \in Workers : container'[v] # "none"} = 1..n
          /\ \A v \in ToSet(list) : container'[v] # "none"
          /\ \A v \in Workers : container'[v] = "running" => v \in ToSet(list) \cup stray'
      BY <1>4, <2>1, <2>6, <2>7, <2>10, <3>1, <3>2 DEF Listed
    <3> QED BY <3>3 DEF Listed
  <2>14. OutOfUse(status, container, stray)'
    BY <1>11, <2>6, <2>7, <2>10 DEF Good, OutOfUse
  <2>15. CommandsAwaited(container)'
    BY <1>7, <2>6, <2>7, <2>8 DEF Good, CommandsAwaited
  <2>16. WaitsAlone(status, container, stray)'
    <3>1. \A u \in Tasks : pc'[u] = "running" => on'[u] \in Workers /\ container'[on'[u]] # "none"
      BY <1>7, <2>6, <2>7 DEF Good, WaitsAlone
    <3>2. ASSUME NEW v \in Workers \ (restarted \cup stray'), NEW u \in Tasks, RunsIn(u, v)'
          PROVE  /\ Held(v, status, container)'
                 /\ \A x \in Tasks : RunsIn(x, v)' => x = u
      <4>1. RunsIn(u, v) /\ v \notin restarted \cup left
        BY <1>7, <2>10, <3>2 DEF RunsIn
      <4>2. v \notin healed /\ Held(v, statuses, cs)
        BY <1>12, <4>1 DEF Good, WaitsAlone
      <4>3. \A x \in Tasks : RunsIn(x, v)' => x = u
        BY <1>7, <4>1 DEF RunsIn, Good, WaitsAlone
      <4>4. CASE v = w
        BY <2>7, <2>9, <2>10, <3>2, <4>3, <4>4 DEF Held
      <4>5. CASE v # w
        BY <1>11, <2>7, <4>2, <4>3, <4>5 DEF Held
      <4> QED BY <4>4, <4>5
    <3> QED BY <1>7, <3>1, <3>2 DEF WaitsAlone
  <2>17. HealthLoop'
    BY <2>1, <2>5, <2>9 DEF HealthLoop
  <2>18. NoneKilled
    <3> SUFFICES ASSUME NEW v \in Workers \ (restarted \cup stray),
                        commands[v] # {}, container'[v] = "gone"
                 PROVE  attempts'[v] > attempts[v]
      BY DEF NoneKilled
    <3>1. cs[v] = "running"
      <4>1. PICK t \in commands[v] : TRUE
        OBVIOUS
      <4> QED BY <4>1 DEF Good, CommandsAwaited
    <3>2. v = w
      BY <2>7, <3>1
    <3>3. w \notin left
      BY <2>1, <3>2
    <3>4. attempts[w] = 0
      BY <2>1, <3>1, <3>2, <3>3 DEF Good, OutOfUse
    <3> QED BY <2>9, <3>2, <3>4
  <2> QED BY <2>11, <2>12, <2>13, <2>14, <2>15, <2>16, <2>17, <2>18 DEF IInv, Good
<1> QED BY <1>3, <1>13, <1>14
--------------------------------------------------------------------------------
(***************************************************************************)
(* The other steps.                                                        *)
(***************************************************************************)
\* A step that moves a call that waits for no worker.
LEMMA MoveKeeps ==
  ASSUME IInv, NEW t \in Tasks, NEW place \in {"creating", "ended"},
         pc[t] # "running", GoTo(t, place, 0),
         UNCHANGED <<containerVars, pool, workerVars, healthVars, scaler>>
  PROVE  IInv' /\ NoneKilled
<1>1. /\ container' = container /\ commands' = commands /\ pool' = pool
      /\ status' = status /\ used' = used /\ attempts' = attempts
      /\ health' = health /\ cursor' = cursor /\ patient' = patient
      /\ restarted' = restarted /\ scaler' = scaler
      /\ stray' = stray /\ faults' = faults
  BY DEF containerVars, workerVars, healthVars, loopVars
<1>2. /\ pc' = [pc EXCEPT ![t] = place] /\ on' = [on EXCEPT ![t] = 0]
  BY DEF GoTo
<1>3. TypedRest'
  BY <1>1, <1>2 DEF IInv, TypedRest
<1>4. \A u \in Tasks : /\ pc'[u] = IF u = t THEN place ELSE pc[u]
                       /\ on'[u] = IF u = t THEN 0 ELSE on[u]
  BY <1>2 DEF IInv, TypedRest
<1>5. TypedPool(pool, status, container, stray)' /\ Listed(pool, container, stray)'
  BY <1>1 DEF IInv, Good, TypedPool, Listed
<1>6. OutOfUse(status, container, stray)' /\ HealthLoop'
  BY <1>1 DEF IInv, Good, OutOfUse, HealthLoop
<1>7. CommandsAwaited(container)' /\ NoneKilled
  BY <1>1, <1>4 DEF IInv, Good, CommandsAwaited, TypedRest, NoneKilled
<1>8. WaitsAlone(status, container, stray)'
  <2>1. \A u \in Tasks, v \in Workers : RunsIn(u, v)' => RunsIn(u, v)
    BY <1>4 DEF RunsIn
  <2>2. \A u \in Tasks : pc'[u] = "running" => on'[u] \in Workers /\ container'[on'[u]] # "none"
    BY <1>1, <1>4 DEF IInv, Good, WaitsAlone, Held
  <2> QED BY <1>1, <2>1, <2>2 DEF IInv, Good, WaitsAlone, Held
<1> QED BY <1>3, <1>5, <1>6, <1>7, <1>8 DEF IInv, Good

\* A call whose command is over leaves its worker, which was its alone, with a
\* status that keeps one given up by recovery out of use.
LEMMA CommandOverKeeps ==
  ASSUME IInv, NEW t \in Tasks, pc[t] = "running", CommandOver(on[t], t),
         GoTo(t, "ended", 0), NEW after \in {"available", "unhealthy"},
         status' = [status EXCEPT ![on[t]] = after],
         status[on[t]] = "unhealthy" => after = "unhealthy",
         used' \subseteq used \cup {on[t]},
         UNCHANGED <<pool, attempts, healthVars, scaler>>
  PROVE  IInv' /\ NoneKilled
<1> DEFINE w == on[t]
<1>1. w \in Workers
  BY DEF IInv, Good, WaitsAlone, Held
<1>2. /\ commands' = [commands EXCEPT ![w] = @ \ {t}]
      /\ container' = container /\ pool' = pool /\ attempts' = attempts
      /\ health' = health /\ cursor' = cursor /\ patient' = patient
      /\ restarted' = restarted /\ scaler' = scaler
      /\ stray' = stray /\ faults' = faults
      /\ pc' = [pc EXCEPT ![t] = "ended"] /\ on' = [on EXCEPT ![t] = 0]
  BY DEF CommandOver, GoTo, healthVars, loopVars
<1>3. RunsIn(t, w)
  BY DEF RunsIn
<1>4. /\ status' = [status EXCEPT ![w] = after] /\ used' \subseteq used \cup {w}
      /\ status[w] = "unhealthy" => after = "unhealthy"
  OBVIOUS
<1> HIDE DEF w
<1>5. TypedRest' /\ TypedPool(pool, status, container, stray)'
  BY <1>1, <1>2, <1>4 DEF IInv, Good, TypedRest, TypedPool, PoolStatuses
<1>6. Listed(pool, container, stray)'
  BY <1>2 DEF IInv, Good, Listed
<1>7. \A v \in Workers : /\ status'[v] = IF v = w THEN after ELSE status[v]
                         /\ commands'[v] = IF v = w THEN commands[w] \ {t} ELSE commands[v]
  BY <1>2, <1>4 DEF IInv, Good, TypedPool, TypedRest
<1>8. \A u \in Tasks : /\ pc'[u] = IF u = t THEN "ended" ELSE pc[u]
                       /\ on'[u] = IF u = t THEN 0 ELSE on[u]
  BY <1>2 DEF IInv, TypedRest
<1>9. OutOfUse(status, container, stray)' /\ HealthLoop'
  BY <1>2, <1>4, <1>7 DEF IInv, Good, OutOfUse, HealthLoop
<1>10. CommandsAwaited(container)'
  <2> SUFFICES ASSUME NEW v \in Workers, NEW u \in commands'[v]
               PROVE  pc'[u] = "running" /\ on'[u] = v /\ container'[v] = "running"
    BY DEF CommandsAwaited
  <2>1. u \in commands[v] /\ commands[v] \subseteq Tasks
    BY <1>7 DEF IInv, TypedRest
  <2>2. pc[u] = "running" /\ on[u] = v /\ container[v] = "running"
    BY <2>1 DEF IInv, Good, CommandsAwaited
  <2>3. u # t
    BY <1>3, <1>7, <2>2 DEF RunsIn
  <2> QED BY <1>2, <1>8, <2>1, <2>2, <2>3
<1>11. WaitsAlone(status, container, stray)'
  <2>1. \A u \in Tasks, v \in Workers : RunsIn(u, v)' => RunsIn(u, v) /\ u # t
    BY <1>8 DEF RunsIn
  <2>2. \A u \in Tasks : pc'[u] = "running" => on'[u] \in Workers /\ container'[on'[u]] # "none"
    BY <1>2, <1>8 DEF IInv, Good, WaitsAlone, Held
  <2>3. ASSUME NEW v \in Workers \ (restarted \cup stray), NEW u \in Tasks, RunsIn(u, v)'
        PROVE  /\ Held(v, status, container)'
               /\ \A x \in Tasks : RunsIn(x, v)' => x = u
    <3>1. v # w
      BY <1>1, <1>3, <2>1, <2>3 DEF IInv, Good, WaitsAlone, Held
    <3> QED BY <1>2, <1>7, <2>1, <2>3, <3>1 DEF IInv, Good, WaitsAlone, Held
  <2> QED BY <1>2, <2>2, <2>3 DEF WaitsAlone
<1>12. NoneKilled
  BY <1>2 DEF IInv, Good, CommandsAwaited, NoneKilled
<1> QED BY <1>5, <1>6, <1>9, <1>10, <1>11, <1>12 DEF IInv, Good

LEMMA CommandReturnsKeeps ==
  ASSUME IInv, NEW t \in Tasks, CommandReturns(t)
  PROVE  IInv' /\ NoneKilled
<1> DEFINE after == IF status[on[t]] = "unhealthy" THEN "unhealthy" ELSE "available"
<1>1. after \in {"available", "unhealthy"} /\ (status[on[t]] = "unhealthy" => after = "unhealthy")
  OBVIOUS
<1>2. on[t] \in Workers /\ status \in [Workers -> PoolStatuses]
  BY DEF CommandReturns, IInv, Good, WaitsAlone, TypedPool
<1>3. status' = [status EXCEPT ![on[t]] = after]
  BY <1>2 DEF CommandReturns, Free
<1>4. /\ pc[t] = "running" /\ CommandOver(on[t], t) /\ GoTo(t, "ended", 0)
      /\ used' \subseteq used \cup {on[t]}
      /\ UNCHANGED <<pool, attempts, healthVars, scaler>>
  BY DEF CommandReturns
<1> HIDE DEF after
<1> QED BY <1>1, <1>3, <1>4, CommandOverKeeps

LEMMA CommandRaisesKeeps ==
  ASSUME IInv, NEW t \in Tasks, CommandRaises(t)
  PROVE  IInv' /\ NoneKilled
<1>1. /\ pc[t] = "running" /\ CommandOver(on[t], t) /\ GoTo(t, "ended", 0)
      /\ used' \subseteq used \cup {on[t]}
      /\ status' = [status EXCEPT ![on[t]] = "unhealthy"]
      /\ UNCHANGED <<pool, attempts, healthVars, scaler>>
  BY DEF CommandRaises
<1> QED BY <1>1, CommandOverKeeps

\* Nothing was recovered yet, so nothing recovered is set available; the
\* workers whose call may find another one are those restarted.
LEMMA DebugContainersKeeps ==
  ASSUME MaxWorkersAssumption, IInv, DebugContainers
  PROVE  IInv' /\ NoneKilled
<1>1. Pooled \subseteq Workers /\ IsFiniteSet(Workers)
  <2>1. Pooled \subseteq Workers
    BY ToSetOfSeq DEF IInv, Good, TypedPool, Pooled
  <2>2. MaxWorkers \in Int /\ 1 \in Int
    BY DEF MaxWorkersAssumption
  <2>3. IsFiniteSet(Workers)
    BY <2>2, FS_Interval DEF Workers
  <2> QED BY <2>1, <2>3
<1>2. PICK found \in SUBSET Pooled :
        \E raised \in SUBSET {w \in found : container[w] = "stopped"} :
          LET stopped == {w \in found : container[w] = "stopped"}
              gone == {w \in found : container[w] = "gone"}
          IN  /\ health = "starting" /\ health' = "idle" /\ restarted' = stopped
              /\ container' = [w \in Workers |-> IF w \in stopped THEN "running" ELSE container[w]]
              /\ status' = [w \in Workers |-> IF w \in stopped \ raised THEN "available"
                                              ELSE IF w \in gone THEN "unhealthy"
                                              ELSE status[w]]
              /\ Faults(Cardinality(Pooled \ found) + Cardinality(raised))
  BY DEF DebugContainers
<1> DEFINE stopped == {w \in found : container[w] = "stopped"}
           gone == {w \in found : container[w] = "gone"}
<1>3. PICK raised \in SUBSET stopped :
        /\ health = "starting" /\ health' = "idle" /\ restarted' = stopped
        /\ container' = [w \in Workers |-> IF w \in stopped THEN "running" ELSE container[w]]
        /\ status' = [w \in Workers |-> IF w \in stopped \ raised THEN "available"
                                        ELSE IF w \in gone THEN "unhealthy" ELSE status[w]]
        /\ Faults(Cardinality(Pooled \ found) + Cardinality(raised))
  BY <1>2
<1>4. /\ \A w \in stopped : container[w] = "stopped"
      /\ \A w \in gone : container[w] = "gone"
      /\ stopped \subseteq Pooled
  OBVIOUS
<1>5. /\ commands' = commands /\ pool' = pool /\ used' = used /\ attempts' = attempts
      /\ pc' = pc /\ on' = on /\ cursor' = cursor /\ patient' = patient
      /\ scaler' = scaler /\ stray' = stray
  BY DEF DebugContainers, taskVars
<1> HIDE DEF stopped, gone
<1>6. faults' \in Nat
  <2>1. Pooled \ found \subseteq Workers /\ raised \subseteq Workers
    BY <1>1, <1>4
  <2>2. IsFiniteSet(Pooled \ found) /\ IsFiniteSet(raised)
    BY <1>1, <2>1, FS_Subset
  <2>3. Cardinality(Pooled \ found) \in Nat /\ Cardinality(raised) \in Nat
    BY <2>2, FS_CardinalityType
  <2> QED BY <1>3, <2>3 DEF Faults, IInv, TypedRest
<1>7. restarted = {} /\ \A w \in Workers : attempts[w] = 0
  BY <1>3 DEF IInv, HealthLoop
<1>8. stopped \subseteq Workers
  BY <1>1, <1>4
<1>9. /\ container' \in [Workers -> ContainerStates]
      /\ status' \in [Workers -> PoolStatuses]
  BY <1>3 DEF IInv, Good, TypedPool, PoolStatuses, ContainerStates
<1>10. TypedPool(pool, status, container, stray)' /\ TypedRest'
  BY <1>3, <1>5, <1>6, <1>8, <1>9 DEF IInv, Good, TypedPool, TypedRest
<1>11. \A w \in Workers : container'[w] = IF w \in stopped THEN "running" ELSE container[w]
  BY <1>3
<1>12. Listed(pool, container, stray)'
  <2>1. {w \in Workers : container'[w] # "none"} = {w \in Workers : container[w] # "none"}
    BY <1>4, <1>11
  <2>2. /\ \E n \in 0..MaxWorkers : {w \in Workers : container'[w] # "none"} = 1..n
        /\ \A w \in ToSet(pool) : container'[w] # "none"
        /\ \A w \in Workers : container'[w] = "running" => w \in ToSet(pool) \cup stray
    BY <1>1, <1>4, <1>11, <2>1 DEF IInv, Good, Listed, Pooled
  <2> QED BY <1>5, <2>2 DEF Listed
<1>13. OutOfUse(status, container, stray)' /\ HealthLoop'
  BY <1>3, <1>5, <1>7 DEF OutOfUse, HealthLoop
<1>14. CommandsAwaited(container)'
  BY <1>5, <1>11 DEF IInv, Good, CommandsAwaited
<1>15. WaitsAlone(status, container, stray)'
  <2>1. \A t \in Tasks : pc'[t] = "running" => on'[t] \in Workers /\ container'[on'[t]] # "none"
    BY <1>5, <1>11 DEF IInv, Good, WaitsAlone
  <2>2. ASSUME NEW w \in Workers \ (stopped \cup stray), NEW t \in Tasks, RunsIn(t, w)'
        PROVE  /\ Held(w, status, container)'
               /\ \A u \in Tasks : RunsIn(u, w)' => u = t
    <3>1. RunsIn(t, w) /\ \A u \in Tasks : RunsIn(u, w)' => RunsIn(u, w)
      BY <1>5, <2>2 DEF RunsIn
    <3>2. /\ status[w] = "busy" /\ container[w] # "gone"
          /\ \A u \in Tasks : RunsIn(u, w) => u = t
      BY <1>7, <2>2, <3>1 DEF IInv, Good, WaitsAlone, Held
    <3>3. w \notin gone /\ status'[w] = "busy" /\ container'[w] # "gone"
      BY <1>3, <1>4, <2>2, <3>2
    <3> QED BY <1>5, <1>7, <3>1, <3>2, <3>3 DEF Held
  <2> QED BY <1>3, <1>5, <2>1, <2>2 DEF WaitsAlone
<1>16. NoneKilled
  BY <1>11 DEF IInv, Good, CommandsAwaited, NoneKilled
<1> QED BY <1>10, <1>12, <1>13, <1>14, <1>15, <1>16 DEF IInv, Good

\* An available worker has no call that waits for it, unless it was restarted
\* or left running.
LEMMA RemoveIdleKeeps ==
  ASSUME IInv, RemoveIdle
  PROVE  IInv' /\ NoneKilled
<1>1. PICK w \in Pooled :
        /\ status[w] = "available"
        /\ \/ Discarded(w, container) /\ pool' = RemoveFirst(pool, w) /\ UNCHANGED faults
           \/ DiscardRaises(w, container) /\ pool' = pool /\ Faults(1)
  BY DEF RemoveIdle, Idle, Available
<1>2. PICK state \in {container[w], "stopped", "gone"} :
        /\ container' = [container EXCEPT ![w] = state]
        /\ commands' = [commands EXCEPT ![w] = IF state = "running" THEN @ ELSE {}]
  BY <1>1, AfterDiscard
<1>3. /\ status' = status /\ used' = used /\ attempts' = attempts
      /\ pc' = pc /\ on' = on /\ health' = health /\ cursor' = cursor
      /\ patient' = patient /\ restarted' = restarted /\ scaler' = scaler
      /\ stray' = stray
  BY DEF RemoveIdle, workerVars, taskVars, healthVars, loopVars
<1>4. faults' \in Nat
  BY <1>1 DEF Faults, IInv, TypedRest
<1>5. /\ Pooled \subseteq Workers /\ Pooled = ToSet(pool)
      /\ pool' \in Seq(Workers)
      /\ ToSet(pool') \subseteq ToSet(pool)
      /\ ToSet(pool) \ {w} \subseteq ToSet(pool')
      /\ pool' = pool \/ state = "gone"
  <2>1. pool \in Seq(Workers)
    BY DEF IInv, Good, TypedPool
  <2>2. Pooled \subseteq Workers /\ Pooled = ToSet(pool)
    BY <2>1, ToSetOfSeq DEF Pooled
  <2>3. CASE pool' = pool
    BY <2>1, <2>2, <2>3
  <2>4. CASE Discarded(w, container) /\ pool' = RemoveFirst(pool, w)
    <3>1. w \in Workers /\ container' = [container EXCEPT ![w] = "gone"]
      BY <2>2, <2>4 DEF Discarded
    <3>2. container'[w] = "gone" /\ container'[w] = state
      BY <1>2, <3>1 DEF IInv, Good, TypedPool
    <3> QED BY <2>1, <2>2, <2>4, <3>2, ToSetOfRemoveFirst
  <2> QED BY <1>1, <2>3, <2>4
<1>6. w \in Workers /\ container[w] # "none" /\ state # "none" /\ state \in ContainerStates
  <2>1. w \in Workers /\ container[w] # "none" /\ container[w] \in ContainerStates
    BY <1>1, <1>5 DEF IInv, Good, Listed, TypedPool
  <2> QED BY <2>1 DEF ContainerStates
<1>7. ~(attempts[w] > 0)
  BY <1>1, <1>6 DEF IInv, Good, OutOfUse
<1>8. w \notin restarted \cup stray => ~\E t \in Tasks : RunsIn(t, w)
  BY <1>1, <1>6, <1>7 DEF IInv, Good, WaitsAlone, Held
<1>9. \A v \in Workers :
        /\ container'[v] = IF v = w THEN state ELSE container[v]
        /\ commands'[v] = IF v = w /\ state # "running" THEN {} ELSE commands[v]
  BY <1>2 DEF IInv, Good, TypedPool, TypedRest
<1>10. TypedPool(pool, status, container, stray)' /\ TypedRest'
  <2>1. commands' \in [Workers -> SUBSET Tasks]
    BY <1>2 DEF IInv, TypedRest
  <2>2. container' \in [Workers -> ContainerStates]
    BY <1>2, <1>6 DEF IInv, Good, TypedPool
  <2> QED BY <1>3, <1>4, <1>5, <2>1, <2>2 DEF IInv, Good, TypedPool, TypedRest
<1>11. Listed(pool, container, stray)'
  <2>1. {v \in Workers : container'[v] # "none"} = {v \in Workers : container[v] # "none"}
    BY <1>6, <1>9
  <2>2. \A v \in ToSet(pool') : container'[v] # "none"
    BY <1>5, <1>6, <1>9 DEF IInv, Good, Listed
  <2>3. \A v \in Workers : container'[v] = "running" => v \in ToSet(pool') \cup stray
    BY <1>1, <1>5, <1>9 DEF IInv, Good, Listed
  <2> QED BY <1>3, <2>1, <2>2, <2>3 DEF IInv, Good, Listed
<1>12. OutOfUse(status, container, stray)' /\ HealthLoop'
  BY <1>3, <1>7, <1>9 DEF IInv, Good, OutOfUse, HealthLoop
<1>13. CommandsAwaited(container)'
  BY <1>3, <1>6, <1>9 DEF IInv, Good, CommandsAwaited
<1>14. WaitsAlone(status, container, stray)'
  <2>1. \A t \in Tasks : pc'[t] = "running" => on'[t] \in Workers /\ container'[on'[t]] # "none"
    BY <1>3, <1>6, <1>9 DEF IInv, Good, WaitsAlone
  <2>2. ASSUME NEW v \in Workers \ (restarted \cup stray), NEW t \in Tasks, RunsIn(t, v)'
        PROVE  /\ Held(v, status, container)'
               /\ \A u \in Tasks : RunsIn(u, v)' => u = t
    <3>1. RunsIn(t, v) /\ \A u \in Tasks : RunsIn(u, v)' => RunsIn(u, v)
      BY <1>3, <2>2 DEF RunsIn
    <3>2. v # w
      BY <1>8, <2>2, <3>1
    <3> QED BY <1>3, <1>9, <2>2, <3>1, <3>2 DEF IInv, Good, WaitsAlone, Held
  <2> QED BY <1>3, <2>1, <2>2 DEF WaitsAlone
<1>15. NoneKilled
  <2>1. w \notin restarted \cup stray => commands[w] = {}
    <3>1. \A t \in commands[w] : t \in Tasks /\ RunsIn(t, w)
      BY <1>6 DEF IInv, Good, TypedRest, CommandsAwaited, RunsIn
    <3> QED BY <1>8, <3>1
  <2>2. \A v \in Workers : container[v] = "gone" => commands[v] = {}
    BY DEF IInv, Good, CommandsAwaited
  <2> QED BY <1>9, <2>1, <2>2 DEF NoneKilled
<1> QED BY <1>10, <1>11, <1>12, <1>13, <1>14, <1>15 DEF IInv, Good

LEMMA DiesKeeps ==
  ASSUME IInv, NEW w \in Workers, Dies(w)
  PROVE  IInv' /\ NoneKilled
<1>1. /\ container[w] = "running"
      /\ container' = [container EXCEPT ![w] = "stopped"]
      /\ commands' = [commands EXCEPT ![w] = {}]
      /\ pool' = pool /\ status' = status /\ used' = used /\ attempts' = attempts
      /\ pc' = pc /\ on' = on /\ health' = health /\ cursor' = cursor
      /\ patient' = patient /\ restarted' = restarted /\ scaler' = scaler
      /\ stray' = stray /\ faults' = faults
  BY DEF Dies, ContainerDies, workerVars, taskVars, healthVars, loopVars
<1>2. \A v \in Workers : /\ container'[v] = IF v = w THEN "stopped" ELSE container[v]
                         /\ commands'[v] = IF v = w THEN {} ELSE commands[v]
  BY <1>1 DEF IInv, Good, TypedPool, TypedRest
<1>3. TypedPool(pool, status, container, stray)' /\ TypedRest'
  BY <1>1 DEF IInv, Good, TypedPool, TypedRest, ContainerStates
<1>4. Listed(pool, container, stray)'
  <2>1. {v \in Workers : container'[v] # "none"} = {v \in Workers : container[v] # "none"}
    BY <1>1, <1>2
  <2>2. ToSet(pool) \subseteq Workers
    BY ToSetOfSeq DEF IInv, Good, TypedPool
  <2>3. /\ \A v \in ToSet(pool) : container'[v] # "none"
        /\ \A v \in Workers : container'[v] = "running" => v \in ToSet(pool) \cup stray
    BY <1>2, <2>2 DEF IInv, Good, Listed
  <2> QED BY <1>1, <2>1, <2>3 DEF IInv, Good, Listed
<1>5. OutOfUse(status, container, stray)' /\ HealthLoop'
  BY <1>1, <1>2 DEF IInv, Good, OutOfUse, HealthLoop
<1>6. CommandsAwaited(container)' /\ NoneKilled
  BY <1>1, <1>2 DEF IInv, Good, CommandsAwaited, NoneKilled
<1>7. WaitsAlone(status, container, stray)'
  BY <1>1, <1>2 DEF IInv, Good, WaitsAlone, Held, RunsIn
<1> QED BY <1>3, <1>4, <1>5, <1>6, <1>7 DEF IInv, Good
--------------------------------------------------------------------------------
(***************************************************************************)
(* The invariant is inductive.                                             *)
(***************************************************************************)
\* The pool of Init: a list of the workers of a set of none or one.
LEMMA ListOfFirst ==
  ASSUME NEW first \in {{}, {1}}
  PROVE  SetToSeq(first) \in Seq(first) /\ ToSet(SetToSeq(first)) = first
<1> DEFINE n == Cardinality(first)
<1>1. n = IF first = {} THEN 0 ELSE 1
  BY FS_EmptySet, FS_Singleton
<1>2. \E f \in [1..n -> first] : IsInjective(f)
  <2>1. CASE first = {}
    <3>1. 1..n = {}
      BY <1>1, <2>1
    <3>2. [k \in 1..n |-> k] \in [1..n -> first]
      BY <2>1, <3>1
    <3> QED BY <3>1, <3>2 DEF IsInjective
  <2>2. CASE first = {1}
    <3>1. 1..n = {1}
      BY <1>1, <2>2
    <3>2. [k \in 1..n |-> 1] \in [1..n -> first]
      BY <2>2, <3>1
    <3>3. IsInjective([k \in 1..n |-> 1])
      BY <3>1 DEF IsInjective
    <3> QED BY <3>2, <3>3
  <2> QED BY <2>1, <2>2
<1>3. SetToSeq(first) \in [1..n -> first]
  BY <1>2 DEF SetToSeq
<1> DEFINE list == SetToSeq(first)
<1> HIDE DEF list
<1>4. n \in Nat
  BY <1>1
<1> HIDE DEF n
<1>5. list \in Seq(first)
  BY <1>3, <1>4, SeqDef DEF list
<1>6. ToSet(list) = {list[k] : k \in 1..n}
  BY <1>3 DEF ToSet, list
<1>7. ToSet(list) = first
  <2>1. CASE first = {}
    BY <1>5, <2>1, ToSetOfSeq
  <2>2. CASE first = {1}
    <3>1. 1 \in 1..n
      BY <1>1, <2>2 DEF n
    <3>2. list[1] \in first
      BY <1>3, <3>1 DEF list
    <3> QED BY <1>5, <1>6, <2>2, <3>1, <3>2, ToSetOfSeq
  <2> QED BY <2>1, <2>2
<1> QED BY <1>5, <1>7 DEF list

LEMMA InitIsGood ==
  ASSUME MaxWorkersAssumption, Init
  PROVE  IInv
<1>1. PICK first \in {{}, {1}} :
        /\ container = [w \in Workers |-> IF w \in first THEN "running" ELSE "none"]
        /\ status = [w \in Workers |-> IF w \in first THEN "available" ELSE "none"]
        /\ pool = SetToSeq(first)
  BY DEF Init
<1>2. /\ commands = [w \in Workers |-> {}]
      /\ used = {} /\ restarted = {} /\ stray = {} /\ faults = 0
      /\ attempts = [w \in Workers |-> 0]
      /\ pc = [t \in Tasks |-> "new"] /\ on = [t \in Tasks |-> 0]
      /\ health = "starting" /\ cursor = 0 /\ patient = 0
      /\ scaler = "idle"
  BY DEF Init
<1>3. pool \in Seq(first) /\ ToSet(pool) = first
  BY <1>1, ListOfFirst
<1>4. first \subseteq Workers /\ 1 \in Workers /\ 0 \in 0..MaxWorkers /\ 1 \in 0..MaxWorkers
  BY DEF Workers, MaxWorkersAssumption
<1>5. pool \in Seq(Workers)
  BY <1>3, <1>4, SeqMonotonic
<1>6. TypedPool(pool, status, container, stray) /\ TypedRest
  BY <1>1, <1>2, <1>5 DEF TypedPool, TypedRest, PoolStatuses, ContainerStates
<1>7. \A w \in Workers : container[w] # "none" <=> w \in first
  BY <1>1
<1>8. {w \in Workers : container[w] # "none"} = first
  BY <1>4, <1>7
<1>9. first = 1..0 \/ first = 1..1
  BY <1>1
<1>10. \E n \in 0..MaxWorkers : {w \in Workers : container[w] # "none"} = 1..n
  BY <1>4, <1>8, <1>9
<1>11. Listed(pool, container, stray)
  BY <1>1, <1>3, <1>4, <1>7, <1>10 DEF Listed
<1>12. OutOfUse(status, container, stray) /\ CommandsAwaited(container) /\ HealthLoop
  BY <1>2 DEF OutOfUse, CommandsAwaited, HealthLoop
<1>13. WaitsAlone(status, container, stray)
  BY <1>2 DEF WaitsAlone, RunsIn
<1> QED BY <1>6, <1>11, <1>12, <1>13 DEF IInv, Good

LEMMA ExecuteKeeps ==
  ASSUME MaxWorkersAssumption, IInv, NEW t \in Tasks,
         \/ Execute(t) \/ ExecuteScalesUp(t) \/ ExecuteDirectly(t)
         \/ ExecuteWithNew(t)
  PROVE  IInv' /\ NoneKilled
<1>1. CASE Execute(t)
  BY <1>1, TakeKeeps DEF Execute, IInv
<1>2. CASE ExecuteScalesUp(t)
  <2>1. GoTo(t, "creating", 0) /\ pc[t] # "running"
    BY <1>2 DEF ExecuteScalesUp
  <2> QED BY <1>2, <2>1, MoveKeeps DEF ExecuteScalesUp
<1>3. CASE ExecuteDirectly(t)
  <2>1. GoTo(t, "ended", 0) /\ pc[t] # "running"
    BY <1>3 DEF ExecuteDirectly
  <2> QED BY <1>3, <2>1, MoveKeeps DEF ExecuteDirectly
<1>4. CASE ExecuteWithNew(t)
  <2>1. Good(ListWithNew, StatusWithNew, ContainersWithNew, stray)
    BY <1>4, CreateKeeps DEF ExecuteWithNew, IInv
  <2> QED BY <1>4, <2>1, TakeKeeps DEF ExecuteWithNew, IInv
<1> QED BY <1>1, <1>2, <1>3, <1>4

\* The worker that a new one replaces in the list is given up: its container
\* does not run, or is left running.
LEMMA HealthKeeps ==
  ASSUME MaxWorkersAssumption, IInv, CheckHealth \/ Recovered \/ RecoveryFails
  PROVE  IInv' /\ NoneKilled
<1>1. CASE CheckHealth
  <2>1. Scan(1, pool, status, container, stray) /\ 1 \in Nat \ {0}
    BY <1>1 DEF CheckHealth
  <2> QED BY <1>1, <2>1, ScanKeeps DEF CheckHealth, IInv
<1>2. cursor + 1 \in Nat \ {0}
  BY DEF IInv, TypedRest
<1>3. CASE Recovered
  <2> DEFINE place == SelectInSeq(pool, LAMBDA v : v = patient)
             list == ReplaceAt(ListWithNew, place, Fresh)
  <2>1. /\ pool' = list
        /\ Scan(cursor + 1, list, StatusWithNew, ContainersWithNew, stray)
        /\ CanCreate /\ health = "recovering"
        /\ UNCHANGED <<used, taskVars, restarted, scaler>>
    BY <1>3 DEF Recovered
  <2>2. /\ Good(ListWithNew, StatusWithNew, ContainersWithNew, stray)
        /\ ToSet(ListWithNew) = Pooled \cup {Fresh}
        /\ \A w \in Pooled : /\ StatusWithNew[w] = status[w]
                             /\ ContainersWithNew[w] = container[w]
    BY <2>1, CreateKeeps DEF IInv
  <2>3. /\ Fresh \in Workers /\ container[Fresh] = "none"
        /\ container \in [Workers -> ContainerStates] /\ pool \in Seq(Workers)
    BY <2>1, FreshIsNew DEF IInv, Good, TypedPool
  <2>4. place \in 0..Len(pool) /\ (place \in 1..Len(pool) => pool[place] = patient)
    BY <2>3, FirstPlace, ZenonT(60) DEF SelectInSeq
  <2>5. /\ ListWithNew \in Seq(Workers)
        /\ Len(pool) \in Nat
        /\ \A k \in 1..Len(pool) : ListWithNew[k] = pool[k]
    BY <2>3, AppendProperties, LenProperties DEF ListWithNew
  <2>6. place \in Nat /\ (place \in 1..Len(ListWithNew) => ListWithNew[place] = patient)
    <3>1. place \in 1..Len(ListWithNew) => place \in 1..Len(pool)
      BY <2>4, <2>5
    <3> QED BY <2>4, <2>5, <3>1
  <2> HIDE DEF place
  <2>7. /\ list \in Seq(Workers)
        /\ ToSet(list) \subseteq ToSet(ListWithNew) \cup {Fresh}
        /\ ToSet(ListWithNew) \ {patient} \subseteq ToSet(list)
    BY <2>3, <2>5, <2>6, ToSetOfReplaceAt
  <2>8. ContainersWithNew[patient] = "running" => patient \in stray
    <3>1. /\ patient \in Workers /\ container[patient] # "none"
          /\ container[patient] = "running" => patient \in stray
      BY <2>1 DEF IInv, HealthLoop, Good, OutOfUse
    <3> QED BY <2>3, <3>1 DEF ContainersWithNew
  <2> HIDE DEF list
  <2>9. Good(list, StatusWithNew, ContainersWithNew, stray)
    BY <2>2, <2>7, <2>8, OtherList
  <2> QED BY <1>2, <2>1, <2>2, <2>9, ScanKeeps DEF IInv
<1>4. CASE RecoveryFails
  <2>1. CASE Scan(cursor + 1, pool, status, container, stray)
    BY <1>2, <1>4, <2>1, ScanKeeps DEF RecoveryFails, IInv
  <2>2. CASE CanCreate /\ Scan(cursor + 1, pool, status, ContainersWithNew, stray \cup {Fresh})
    <3>1. /\ Good(pool, status, ContainersWithNew, stray \cup {Fresh})
          /\ \A w \in Pooled : ContainersWithNew[w] = container[w] /\ w # Fresh
      BY <2>2, RaisedKeeps DEF IInv
    <3> QED BY <1>2, <1>4, <2>2, <3>1, ScanKeeps DEF RecoveryFails, IInv
  <2> QED BY <1>4, <2>1, <2>2 DEF RecoveryFails
<1> QED BY <1>1, <1>3, <1>4

\* A creation that raises ends the call, or the turn of the auto-scaler.
LEMMA CreationRaisesKeeps ==
  ASSUME MaxWorkersAssumption, IInv, ScaleUpFails \/ \E t \in Tasks : CreationFails(t)
  PROVE  IInv' /\ NoneKilled
<1>1. /\ commands' = commands /\ faults' = faults /\ pool' = pool /\ status' = status
      /\ used' = used /\ attempts' = attempts /\ health' = health /\ cursor' = cursor
      /\ patient' = patient /\ restarted' = restarted /\ scaler' \in {scaler, "idle"}
  BY DEF ScaleUpFails, CreationFails, CreationRaises, workerVars, loopVars
<1>2. /\ pc' \in [Tasks -> {"new", "creating", "running", "ended"}]
      /\ on' \in [Tasks -> Workers \cup {0}]
      /\ \A t \in Tasks : \A w : RunsIn(t, w)' <=> RunsIn(t, w)
      /\ \A t \in Tasks : pc'[t] = "running" <=> pc[t] = "running"
  <2>1. CASE ScaleUpFails
    BY <2>1 DEF ScaleUpFails, taskVars, RunsIn, IInv, TypedRest
  <2>2. ASSUME NEW t \in Tasks, CreationFails(t)
        PROVE  /\ pc[t] = "creating"
               /\ pc' = [pc EXCEPT ![t] = "ended"] /\ on' = [on EXCEPT ![t] = 0]
    BY <2>2 DEF CreationFails, GoTo
  <2>3. CASE \E t \in Tasks : CreationFails(t)
    BY <2>2, <2>3 DEF RunsIn, IInv, TypedRest
  <2> QED BY <2>1, <2>3
<1>3. /\ Good(pool, status, container', stray')
      /\ \A w \in Workers : container'[w] = "gone" => container[w] = "gone"
  <2>1. CASE UNCHANGED <<container, stray>>
    BY <2>1 DEF IInv
  <2>2. CASE CanCreate /\ container' = ContainersWithNew /\ stray' = stray \cup {Fresh}
    <3>1. Good(pool, status, ContainersWithNew, stray \cup {Fresh})
      BY <2>2, RaisedKeeps DEF IInv
    <3>2. Fresh \in Workers /\ container \in [Workers -> ContainerStates]
      BY <2>2 DEF CanCreate, IInv, Good, TypedPool
    <3> QED BY <2>2, <3>1, <3>2 DEF ContainersWithNew
  <2> QED BY <2>1, <2>2 DEF ScaleUpFails, CreationFails, CreationRaises
<1>4. Good(pool, status, container, stray)'
  <2>1. TypedPool(pool, status, container, stray)' /\ Listed(pool, container, stray)'
    BY <1>1, <1>3 DEF Good, TypedPool, Listed
  <2>2. OutOfUse(status, container, stray)'
    BY <1>1, <1>3 DEF Good, OutOfUse
  <2>3. CommandsAwaited(container)'
    BY <1>1, <1>2, <1>3 DEF Good, CommandsAwaited, RunsIn, IInv, TypedRest
  <2>4. WaitsAlone(status, container, stray)'
    <3>1. \A t \in Tasks : pc'[t] = "running" => on'[t] \in Workers /\ container'[on'[t]] # "none"
      BY <1>2, <1>3 DEF Good, WaitsAlone, RunsIn
    <3> QED BY <1>1, <1>2, <1>3, <3>1 DEF Good, WaitsAlone, Held
  <2> QED BY <2>1, <2>2, <2>3, <2>4 DEF Good
<1>5. TypedRest' /\ HealthLoop'
  BY <1>1, <1>2 DEF IInv, TypedRest, HealthLoop
<1>6. NoneKilled
  BY <1>3 DEF IInv, Good, CommandsAwaited, NoneKilled
<1> QED BY <1>4, <1>5, <1>6 DEF IInv

LEMMA ScalerKeeps ==
  ASSUME MaxWorkersAssumption, IInv, ScaleUp \/ ScaledUp
  PROVE  IInv' /\ NoneKilled
<1>1. /\ commands' = commands /\ used' = used /\ attempts' = attempts
      /\ pc' = pc /\ on' = on /\ health' = health /\ cursor' = cursor
      /\ patient' = patient /\ restarted' = restarted
      /\ scaler' \in {"idle", "creating"} /\ stray' = stray /\ faults' = faults
  BY DEF ScaleUp, ScaledUp, Create, containerVars, workerVars, taskVars, healthVars, loopVars
<1>2. Good(pool', status', container', stray)
  <2>1. CASE ScaledUp
    <3>1. /\ CanCreate /\ pool' = ListWithNew
          /\ status' = StatusWithNew /\ container' = ContainersWithNew
      BY <2>1 DEF ScaledUp, Create
    <3> QED BY <3>1, CreateKeeps DEF IInv
  <2>2. CASE ScaleUp
    <3>1. pool' = pool /\ status' = status /\ container' = container
      BY <2>2 DEF ScaleUp, containerVars, workerVars
    <3> QED BY <3>1 DEF IInv
  <2> QED BY <2>1, <2>2
<1>3. Good(pool, status, container, stray)'
  <2>1. TypedPool(pool, status, container, stray)' /\ Listed(pool, container, stray)'
    BY <1>1, <1>2 DEF Good, TypedPool, Listed
  <2>2. OutOfUse(status, container, stray)' /\ CommandsAwaited(container)'
    BY <1>1, <1>2 DEF Good, OutOfUse, CommandsAwaited
  <2>3. WaitsAlone(status, container, stray)'
    BY <1>1, <1>2 DEF Good, WaitsAlone, Held, RunsIn
  <2> QED BY <2>1, <2>2, <2>3 DEF Good
<1>4. TypedRest' /\ HealthLoop'
  BY <1>1 DEF IInv, TypedRest, HealthLoop
<1>5. NoneKilled
  BY <1>2 DEF Good, CommandsAwaited, NoneKilled
<1> QED BY <1>3, <1>4, <1>5 DEF IInv

LEMMA NextKeeps ==
  ASSUME MaxWorkersAssumption, IInv, [Next]_vars
  PROVE  IInv' /\ NoneKilled
<1>1. CASE \E t \in Tasks :
             \/ Execute(t) \/ ExecuteScalesUp(t) \/ ExecuteDirectly(t)
             \/ ExecuteWithNew(t)
  BY <1>1, ExecuteKeeps
<1>2. CASE \E t \in Tasks : CommandReturns(t) \/ CommandRaises(t)
  BY <1>2, CommandReturnsKeeps, CommandRaisesKeeps
<1>3. CASE DebugContainers
  BY <1>3, DebugContainersKeeps
<1>4. CASE CheckHealth \/ Recovered \/ RecoveryFails
  BY <1>4, HealthKeeps
<1>5. CASE ScaleUp \/ ScaledUp
  BY <1>5, ScalerKeeps
<1>6. CASE RemoveIdle
  BY <1>6, RemoveIdleKeeps
<1>7. CASE \E w \in Workers : Dies(w)
  BY <1>7, DiesKeeps
<1>9. CASE ScaleUpFails \/ \E t \in Tasks : CreationFails(t)
  BY <1>9, CreationRaisesKeeps
<1>8. CASE UNCHANGED vars
  <2>1. /\ container' = container /\ commands' = commands /\ pool' = pool
        /\ status' = status /\ used' = used /\ attempts' = attempts
        /\ pc' = pc /\ on' = on /\ health' = health /\ cursor' = cursor
        /\ patient' = patient /\ restarted' = restarted /\ scaler' = scaler
      /\ stray' = stray /\ faults' = faults
    BY <1>8 DEF vars, containerVars, workerVars, taskVars, healthVars, loopVars
  <2>2. Good(pool, status, container, stray)'
    BY <2>1 DEF IInv, Good, TypedPool, Listed, OutOfUse, CommandsAwaited, WaitsAlone, Held, RunsIn
  <2>3. TypedRest' /\ HealthLoop'
    BY <2>1 DEF IInv, TypedRest, HealthLoop
  <2>4. NoneKilled
    BY <2>1 DEF IInv, Good, CommandsAwaited, NoneKilled
  <2> QED BY <2>2, <2>3, <2>4 DEF IInv
<1> QED BY <1>1, <1>2, <1>3, <1>4, <1>5, <1>6, <1>7, <1>8, <1>9 DEF Next

\* The invariant holds whatever number of calls, workers and containers that
\* stop there are.
THEOREM Inductive == Spec => []IInv
<1>1. Init => IInv
  BY MaxWorkersAssumption, InitIsGood
<1>2. IInv /\ [Next]_vars => IInv'
  BY MaxWorkersAssumption, NextKeeps
<1> QED BY <1>1, <1>2, PTL DEF Spec

\* Every variable of the worker pool keeps its type.
THEOREM TypeCorrect == Spec => []TypeOK
<1>1. IInv => TypeOK
  BY DEF IInv, Good, TypedPool, TypedRest, TypeOK, ContainerTypeOK, ContainerStates
<1> QED BY <1>1, Inductive, PTL

\* A container runs one command at a time, of the call that waits for it,
\* except where debug_containers set the worker of a running call available or
\* a recovery failed to stop it.
THEOREM OneCommandPerContainerAlways == Spec => []OneCommandPerContainer
<1>1. IInv => OneCommandPerContainer
  <2> SUFFICES ASSUME IInv, NEW w \in Workers \ (restarted \cup stray)
               PROVE  /\ Cardinality(commands[w]) <= 1
                      /\ \A t \in commands[w] : on[t] = w /\ status[w] = "busy"
    BY DEF OneCommandPerContainer
  <2>1. \A t \in commands[w] : /\ t \in Tasks /\ RunsIn(t, w)
                               /\ container[w] = "running"
    BY DEF IInv, Good, TypedRest, CommandsAwaited, RunsIn
  <2>2. \A t \in commands[w] : on[t] = w /\ status[w] = "busy"
    BY <2>1 DEF IInv, Good, WaitsAlone, Held, RunsIn
  <2>3. \A t, u \in commands[w] : u = t
    BY <2>1 DEF IInv, Good, WaitsAlone, Held
  <2>4. Cardinality(commands[w]) <= 1
    <3>1. CASE commands[w] = {}
      BY <3>1, FS_EmptySet
    <3>2. CASE commands[w] # {}
      <4>1. PICK t \in commands[w] : TRUE
        BY <3>2
      <4>2. commands[w] = {t}
        BY <2>3, <4>1
      <4>3. Cardinality({t}) = 1
        BY FS_Singleton
      <4> QED BY <4>2, <4>3
    <3> QED BY <3>1, <3>2
  <2> QED BY <2>2, <2>4
<1> QED BY <1>1, Inductive, PTL

\* Whatever runs is in the list, or left by a recovery or a creation that raised:
\* scale-down, recovery and concurrent creations leave nothing else behind.
THEOREM NoContainerLeaksEver == Spec => []NoContainerLeaks
<1>1. IInv => NoContainerLeaks
  BY DEF IInv, Good, Listed, NoContainerLeaks, Pooled
<1> QED BY <1>1, Inductive, PTL

\* A worker that recovery was attempted for is offered to no call, and runs only
\* where recovery failed to stop it.
THEOREM RecoveredIsOutOfUseAlways == Spec => []RecoveredIsOutOfUse
<1>1. IInv => RecoveredIsOutOfUse
  BY DEF IInv, Good, OutOfUse, RecoveredIsOutOfUse
<1> QED BY <1>1, Inductive, PTL

\* No step but a recovery removes a container that a command of a call runs in,
\* except where debug_containers restarted it or a recovery left it running.
THEOREM NoCommandKilledEver == Spec => NoCommandKilled
<1>1. IInv /\ [Next]_vars => NoneKilled
  BY MaxWorkersAssumption, NextKeeps
<1>2. IInv /\ [Next]_vars
        => [\A w \in Workers \ (restarted \cup stray) :
              commands[w] # {} /\ container'[w] = "gone" => attempts'[w] > attempts[w]]_vars
  BY <1>1 DEF NoneKilled
<1> QED BY <1>2, Inductive, PTL DEF Spec, NoCommandKilled
================================================================================
