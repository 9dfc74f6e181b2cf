--------------------------- MODULE ToolRouterProofs ----------------------------
(***************************************************************************)
(* Theorems about ToolRouter, for any number of calls, tools, keys, users  *)
(* and tenants, any budgets and any bound on the cost of a run.  That a    *)
(* budget is exceeded by a bounded amount is inductive together with the   *)
(* number of calls that were admitted and have not been charged yet.       *)
(***************************************************************************)
EXTENDS ToolRouter, FiniteSetTheorems, SequenceTheorems, TLAPS

\* What a call holds that may go into the cache.
InHand ==
  \A c \in Calls :
    pc[c] \in {"fetched", "storing", "stored"} => MayBeCached(got[c])

\* The calls at e's expense that are admitted and not charged yet.
Running(e) == {c \in CallsOf(e) : pc[c] = "running"}

\* What is spent and what may still be.
Committed(e) ==
  \/ usage[e] = 0 /\ Running(e) = {}
  \/ usage[e] + Estimate + MaxCost * Cardinality(Running(e))
       <= Limits[e] + MaxCost * Cardinality(CallsOf(e))

BudgetInv == \A e \in Payers : Committed(e)

IInv == TypeOK /\ InHand /\ OnlyCacheableIsCached /\ BudgetInv

\* A step of c that takes it to `place` and leaves the other calls alone.
Moves(c, place) ==
  /\ pc' = [pc EXCEPT ![c] = place] /\ place \in Places
  /\ available_tools' \in [Calls -> Seq(Definitions)]
  /\ selected' \in [Calls -> Nat] /\ cursor' \in [Calls -> Nat]
  /\ tried' \in [Calls -> SUBSET Nat]
  /\ got' \in [Calls -> Results \cup {NoResult}]
  /\ \A d \in Calls : d # c =>
       /\ available_tools'[d] = available_tools[d] /\ selected'[d] = selected[d]
       /\ cursor'[d] = cursor[d] /\ tried'[d] = tried[d] /\ got'[d] = got[d]
--------------------------------------------------------------------------------
LEMMA TimesMonotone ==
  ASSUME NEW m \in Nat, NEW a \in Nat, NEW b \in Nat, a <= b
  PROVE  m * a <= m * b
<1>1. b - a \in Nat /\ m * (b - a) >= 0
  OBVIOUS
<1>2. m * b = m * a + m * (b - a)
  OBVIOUS
<1> QED BY <1>1, <1>2

LEMMA SomeRunning ==
  ASSUME IsFiniteSet(Calls), NEW e \in Payers
  PROVE  /\ IsFiniteSet(CallsOf(e)) /\ Cardinality(CallsOf(e)) \in Nat
         /\ IsFiniteSet(Running(e)) /\ Cardinality(Running(e)) \in Nat
         /\ Cardinality(Running(e)) <= Cardinality(CallsOf(e))
<1>1. CallsOf(e) \subseteq Calls /\ Running(e) \subseteq CallsOf(e)
  BY DEF CallsOf, Running
<1>2. IsFiniteSet(CallsOf(e))
  BY <1>1, FS_Subset
<1> QED BY <1>1, <1>2, FS_Subset, FS_CardinalityType

\* Where nothing is charged and nobody is admitted, no more is committed.
LEMMA BudgetShrinks ==
  ASSUME TypeOK, BudgetInv, RouterAssumption, CostAssumption,
         usage' = usage, \A e \in Payers : Running(e)' \subseteq Running(e)
  PROVE  BudgetInv'
<1> SUFFICES ASSUME NEW e \in Payers PROVE Committed(e)'
  BY DEF BudgetInv
<1>1. IsFiniteSet(Calls)
  BY DEF RouterAssumption
<1>2. /\ IsFiniteSet(Running(e)) /\ Cardinality(Running(e)) \in Nat
      /\ Cardinality(CallsOf(e)) \in Nat
  BY <1>1, SomeRunning
<1>3. Running(e)' \subseteq Running(e)
  OBVIOUS
<1>4. Cardinality(Running(e)') \in Nat /\ Cardinality(Running(e)') <= Cardinality(Running(e))
  BY <1>2, <1>3, FS_Subset, FS_CardinalityType
<1>5. CASE usage[e] = 0 /\ Running(e) = {}
  BY <1>3, <1>5 DEF Committed
<1>6. CASE usage[e] + Estimate + MaxCost * Cardinality(Running(e))
             <= Limits[e] + MaxCost * Cardinality(CallsOf(e))
  <2> DEFINE a == MaxCost * Cardinality(Running(e)')
             b == MaxCost * Cardinality(Running(e))
             n == MaxCost * Cardinality(CallsOf(e))
  <2>1. MaxCost \in Nat /\ Estimate \in Nat /\ Limits[e] \in Nat /\ usage[e] \in Nat
    BY DEF CostAssumption, TypeOK, CostTypeOK
  <2>2. a <= b
    BY <1>2, <1>4, <2>1, TimesMonotone
  <2>3. a \in Nat /\ b \in Nat /\ n \in Nat
    BY <1>2, <1>4, <2>1
  <2>4. usage[e] + Estimate + b <= Limits[e] + n
    BY <1>6
  <2> HIDE DEF a, b, n
  <2>5. usage[e] + Estimate + a <= Limits[e] + n
    BY <2>1, <2>2, <2>3, <2>4
  <2>6. usage'[e] + Estimate + a <= Limits[e] + n
    BY <2>5
  <2> QED BY <2>6 DEF Committed, a, n, CallsOf
<1> QED BY <1>5, <1>6 DEF BudgetInv, Committed

\* A call is admitted: its run may cost what one of its payer's calls may cost.
LEMMA AdmissionKeepsBudget ==
  ASSUME TypeOK, BudgetInv, RouterAssumption, CostAssumption, NEW c \in Calls,
         pc[c] = "fetched", CheckBudget(PayersOf[c]),
         usage' = usage, pc' = [pc EXCEPT ![c] = "running"]
  PROVE  BudgetInv'
<1> SUFFICES ASSUME NEW e \in Payers PROVE Committed(e)'
  BY DEF BudgetInv
<1>1. CASE c \notin CallsOf(e)
  <2>1. Running(e)' = Running(e)
    BY <1>1 DEF Running, CallsOf, TypeOK
  <2>2. Committed(e)
    BY DEF BudgetInv
  <2> QED BY <2>1, <2>2 DEF Committed, CallsOf
<1>2. CASE c \in CallsOf(e)
  <2>1. Running(e)' \subseteq CallsOf(e) /\ IsFiniteSet(CallsOf(e))
    BY SomeRunning DEF Running, CallsOf, RouterAssumption
  <2>2. /\ Cardinality(Running(e)') \in Nat /\ Cardinality(CallsOf(e)) \in Nat
        /\ Cardinality(Running(e)') <= Cardinality(CallsOf(e))
    BY <2>1, FS_Subset, FS_CardinalityType
  <2> DEFINE a == MaxCost * Cardinality(Running(e)')
             n == MaxCost * Cardinality(CallsOf(e))
  <2>3. MaxCost \in Nat /\ Estimate \in Nat /\ Limits[e] \in Nat /\ usage[e] \in Nat
    BY DEF CostAssumption, TypeOK, CostTypeOK
  <2>4. a <= n /\ a \in Nat /\ n \in Nat
    BY <2>2, <2>3, TimesMonotone
  <2>5. usage[e] + Estimate <= Limits[e]
    BY <1>2 DEF CheckBudget, CallsOf
  <2> HIDE DEF a, n
  <2>6. usage[e] + Estimate + a <= Limits[e] + n
    BY <2>3, <2>4, <2>5
  <2>7. usage'[e] + Estimate + a <= Limits[e] + n
    BY <2>6
  <2> QED BY <2>7 DEF Committed, a, n, CallsOf
<1> QED BY <1>1, <1>2

\* A run is charged: what it costs was committed.
LEMMA ChargeKeepsBudget ==
  ASSUME TypeOK, BudgetInv, RouterAssumption, CostAssumption, NEW c \in Calls,
         NEW cost \in 0..MaxCost, pc[c] = "running", TrackUsage(PayersOf[c], cost),
         NEW place, place # "running", pc' = [pc EXCEPT ![c] = place]
  PROVE  BudgetInv'
<1> SUFFICES ASSUME NEW e \in Payers PROVE Committed(e)'
  BY DEF BudgetInv
<1>1. CASE c \notin CallsOf(e)
  <2>1. Running(e)' = Running(e) /\ usage'[e] = usage[e]
    BY <1>1 DEF Running, CallsOf, TypeOK, TrackUsage
  <2>2. Committed(e)
    BY DEF BudgetInv
  <2> QED BY <2>1, <2>2 DEF Committed, CallsOf
<1>2. CASE c \in CallsOf(e)
  <2>1. c \in Running(e) /\ Running(e)' = Running(e) \ {c} /\ usage'[e] = usage[e] + cost
    BY <1>2 DEF Running, CallsOf, TypeOK, TrackUsage
  <2>2. IsFiniteSet(Running(e)) /\ Cardinality(Running(e)) \in Nat
        /\ Cardinality(CallsOf(e)) \in Nat
    BY SomeRunning DEF RouterAssumption
  <2>3. Cardinality(Running(e)') = Cardinality(Running(e)) - 1
    BY <2>1, <2>2, FS_RemoveElement
  <2>4. Cardinality(Running(e)') \in Nat
    BY <2>1, <2>2, FS_RemoveElement, FS_CardinalityType
  <2> DEFINE a == MaxCost * Cardinality(Running(e)')
             b == MaxCost * Cardinality(Running(e))
             n == MaxCost * Cardinality(CallsOf(e))
  <2>5. MaxCost \in Nat /\ Estimate \in Nat /\ Limits[e] \in Nat /\ usage[e] \in Nat
    BY DEF CostAssumption, TypeOK, CostTypeOK
  <2>6. b = a + MaxCost
    BY <2>2, <2>3, <2>4, <2>5
  <2>7. a \in Nat /\ n \in Nat
    BY <2>2, <2>4, <2>5
  <2>8. usage[e] + Estimate + b <= Limits[e] + n
    BY <2>1 DEF BudgetInv, Committed
  <2> HIDE DEF a, b, n
  <2>9. usage[e] + cost + Estimate + a <= Limits[e] + n
    BY <2>5, <2>6, <2>7, <2>8
  <2>10. usage'[e] + Estimate + a <= Limits[e] + n
    BY <2>1, <2>9
  <2> QED BY <2>10 DEF Committed, a, n, CallsOf
<1> QED BY <1>1, <1>2

\* A new month only takes away.
LEMMA NewMonthKeepsBudget ==
  ASSUME TypeOK, BudgetInv, RouterAssumption, CostAssumption, NewMonth, pc' = pc
  PROVE  BudgetInv'
<1> SUFFICES ASSUME NEW e \in Payers PROVE Committed(e)'
  BY DEF BudgetInv
<1>1. Running(e)' = Running(e) /\ usage'[e] = 0
  BY DEF Running, CallsOf, NewMonth
<1>2. usage[e] \in Nat /\ Estimate \in Nat /\ Limits[e] \in Nat
  BY DEF CostAssumption, TypeOK, CostTypeOK
<1> DEFINE b == MaxCost * Cardinality(Running(e))
           n == MaxCost * Cardinality(CallsOf(e))
<1>3. b \in Nat /\ n \in Nat
  BY SomeRunning DEF RouterAssumption, CostAssumption
<1>4. Running(e) = {} \/ usage[e] + Estimate + b <= Limits[e] + n
  BY DEF BudgetInv, Committed
<1> HIDE DEF b, n
<1>5. Running(e) = {} \/ usage'[e] + Estimate + b <= Limits[e] + n
  BY <1>1, <1>2, <1>3, <1>4
<1> QED BY <1>1, <1>5 DEF Committed, b, n, CallsOf
--------------------------------------------------------------------------------
\* It is enough to look at the call that makes the step.
LEMMA MovesKeepTypes ==
  ASSUME TypeOK, NEW c \in Calls, NEW place, Moves(c, place), Positioned(c)',
         RegistryTypeOK', CacheTypeOK', CostTypeOK'
  PROVE  TypeOK'
<1>1. pc' \in [Calls -> Places] /\ \A d \in Calls : d # c => pc'[d] = pc[d]
  BY DEF TypeOK, Moves
<1>2. ASSUME NEW d \in Calls, d # c PROVE Positioned(d)'
  BY <1>1, <1>2 DEF TypeOK, Moves, Positioned, Found
<1>3. \A d \in Calls : Positioned(d)'
  BY <1>2
<1> QED BY <1>1, <1>3 DEF TypeOK, Moves

LEMMA MovesKeepInHand ==
  ASSUME TypeOK, InHand, NEW c \in Calls, NEW place, Moves(c, place),
         place \in {"fetched", "storing", "stored"} => MayBeCached(got'[c])
  PROVE  InHand'
<1>1. pc'[c] = place /\ \A d \in Calls : d # c => pc'[d] = pc[d] /\ got'[d] = got[d]
  BY DEF TypeOK, Moves
<1> QED BY <1>1 DEF InHand, MayBeCached

LEMMA MovesKeepBudget ==
  ASSUME TypeOK, BudgetInv, RouterAssumption, CostAssumption,
         NEW c \in Calls, NEW place, Moves(c, place), place # "running", usage' = usage
  PROVE  BudgetInv'
<1>1. \A e \in Payers : Running(e)' \subseteq Running(e)
  BY DEF TypeOK, Moves, Running, CallsOf
<1> QED BY <1>1, BudgetShrinks

\* A step that touches nothing but the call itself.
LEMMA OwnStepKeeps ==
  ASSUME IInv, RouterAssumption, CostAssumption, NEW c \in Calls, NEW place,
         Moves(c, place), place # "running", Positioned(c)',
         UNCHANGED <<registry, cache, usage>>,
         place \in {"fetched", "storing", "stored"} => MayBeCached(got'[c])
  PROVE  IInv'
<1>1. /\ tools' = tools /\ capability_index' = capability_index
      /\ redis' = redis /\ local_cache' = local_cache /\ usage' = usage
  BY DEF registry, cache
<1>2. RegistryTypeOK' /\ CacheTypeOK' /\ CostTypeOK'
  BY <1>1 DEF IInv, TypeOK, RegistryTypeOK, CacheTypeOK, CostTypeOK
<1>3. TypeOK' /\ InHand'
  BY <1>2, MovesKeepTypes, MovesKeepInHand DEF IInv
<1>4. OnlyCacheableIsCached'
  BY <1>1 DEF IInv, OnlyCacheableIsCached, MayBeCached
<1>5. BudgetInv'
  BY <1>1, MovesKeepBudget DEF IInv
<1> QED BY <1>3, <1>4, <1>5 DEF IInv

\* A step that writes a value that may be cached to Redis or to the local copy.
LEMMA CacheStepKeeps ==
  ASSUME IInv, RouterAssumption, CostAssumption, NEW c \in Calls, NEW place,
         Moves(c, place), place # "running", Positioned(c)',
         UNCHANGED <<registry, usage>>, got' = got, MayBeCached(got[c]),
         CopyLocally(KeyOf[c], got[c]) \/ StoreInRedis(KeyOf[c], got[c])
  PROVE  IInv'
<1>1. /\ tools' = tools /\ capability_index' = capability_index
      /\ usage' = usage /\ got[c] \in Results \cup {NoResult} /\ KeyOf[c] \in Keys
  BY DEF registry, IInv, TypeOK, RouterAssumption
<1>2. RegistryTypeOK' /\ CostTypeOK'
  BY <1>1 DEF IInv, TypeOK, RegistryTypeOK, CostTypeOK
<1>3. CacheTypeOK'
  BY <1>1 DEF IInv, TypeOK, CacheTypeOK, CopyLocally, StoreInRedis
<1>4. OnlyCacheableIsCached'
  BY <1>1 DEF IInv, TypeOK, CacheTypeOK, OnlyCacheableIsCached, MayBeCached, CopyLocally,
              StoreInRedis
<1>5. MayBeCached(got'[c])
  OBVIOUS
<1>6. TypeOK' /\ InHand'
  BY <1>2, <1>3, <1>5, MovesKeepTypes, MovesKeepInHand DEF IInv
<1>7. BudgetInv'
  BY <1>1, MovesKeepBudget DEF IInv
<1> QED BY <1>4, <1>6, <1>7 DEF IInv
--------------------------------------------------------------------------------
\* What find_tools_by_capability hands out are definitions.
LEMMA ToolsFound ==
  ASSUME RegistryTypeOK
  PROVE  FindTools \in Seq(Definitions)
<1>1. DOMAIN capability_index = 1..Len(capability_index) /\ Len(capability_index) \in Nat
  BY DEF RegistryTypeOK
<1>2. FindTools \in [1..Len(capability_index) -> Definitions]
  BY <1>1 DEF FindTools, RegistryTypeOK
<1> HIDE DEF FindTools
<1> QED BY <1>1, <1>2, SeqDef

LEMMA BeginsKeeps ==
  ASSUME IInv, RouterAssumption, CostAssumption, NEW c \in Calls,
         FindsNothing(c) \/ FindsCopy(c) \/ AsksRedis(c)
  PROVE  IInv'
<1>1. PICK place \in {"failed", "returned", "getting"}, result \in Results \cup {NoResult} :
        Begins(c, place, result)
  BY DEF FindsNothing, FindsCopy, AsksRedis, IInv, TypeOK, CacheTypeOK, RouterAssumption
<1>2. FindTools \in Seq(Definitions)
  BY ToolsFound DEF IInv, TypeOK
<1>3. Moves(c, place) /\ UNCHANGED <<registry, cache, usage>>
  BY <1>1, <1>2 DEF Begins, GoTo, Moves, Places, IInv, TypeOK
<1>4. pc'[c] = place /\ tried'[c] = {}
  BY <1>1 DEF Begins, GoTo, IInv, TypeOK
<1>5. Positioned(c)'
  BY <1>4 DEF Positioned
<1> QED BY <1>3, <1>5, OwnStepKeeps

LEMMA FetchKeeps ==
  ASSUME IInv, RouterAssumption, CostAssumption, NEW c \in Calls,
         RedisAnswers(c) \/ GetRaises(c) \/ Refused(c)
  PROVE  IInv'
<1>1. TypeOK /\ KeyOf[c] \in Keys /\ redis[KeyOf[c]] \in Results \cup {NoResult}
  BY DEF IInv, TypeOK, CacheTypeOK, RouterAssumption
<1>2. CASE RedisAnswers(c)
  <2>1. Moves(c, "fetched") /\ UNCHANGED <<registry, cache, usage>>
    BY <1>1, <1>2 DEF RedisAnswers, GoTo, Moves, Places, TypeOK
  <2>2. pc'[c] = "fetched" /\ got'[c] = redis[KeyOf[c]] /\ tried' = tried
        /\ available_tools' = available_tools
    BY <1>1, <1>2 DEF RedisAnswers, GoTo, TypeOK
  <2>3. MayBeCached(got'[c])
    BY <1>1, <2>2 DEF IInv, OnlyCacheableIsCached
  <2>4. Positioned(c)'
    BY <1>1, <2>2 DEF Positioned, Found, TypeOK
  <2> QED BY <2>1, <2>3, <2>4, OwnStepKeeps
<1>3. CASE GetRaises(c) \/ Refused(c)
  <2>1. Moves(c, "failed") /\ UNCHANGED <<registry, cache, usage>>
    BY <1>1, <1>3 DEF GetRaises, Refused, GoTo, Moves, Places, TypeOK
  <2>2. pc'[c] = "failed" /\ tried' = tried /\ available_tools' = available_tools
    BY <1>1, <1>3 DEF GetRaises, Refused, GoTo, TypeOK
  <2>3. Positioned(c)'
    BY <1>1, <2>2 DEF Positioned, Found, TypeOK
  <2> QED BY <2>1, <2>3, OwnStepKeeps
<1> QED BY <1>2, <1>3

LEMMA CacheWriteKeeps ==
  ASSUME IInv, RouterAssumption, CostAssumption, NEW c \in Calls,
         CacheHit(c) \/ RedisStores(c) \/ Stored(c)
  PROVE  IInv'
<1>1. TypeOK /\ MayBeCached(got[c])
  BY DEF IInv, InHand, CacheHit, RedisStores, Stored
<1>2. CASE CacheHit(c) \/ Stored(c)
  <2>1. Moves(c, "returned") /\ UNCHANGED <<registry, usage>> /\ got' = got
    BY <1>1, <1>2 DEF CacheHit, Stored, GoTo, Moves, Places, TypeOK
  <2>2. pc'[c] = "returned" /\ tried' = tried /\ available_tools' = available_tools
        /\ CopyLocally(KeyOf[c], got[c])
    BY <1>1, <1>2 DEF CacheHit, Stored, GoTo, TypeOK
  <2>3. Positioned(c)'
    BY <1>1, <2>2 DEF Positioned, Found, TypeOK
  <2> QED BY <1>1, <2>1, <2>2, <2>3, CacheStepKeeps
<1>3. CASE RedisStores(c)
  <2>1. Moves(c, "stored") /\ UNCHANGED <<registry, usage>> /\ got' = got
    BY <1>1, <1>3 DEF RedisStores, GoTo, Moves, Places, TypeOK
  <2>2. /\ pc[c] = "storing" /\ pc'[c] = "stored" /\ tried' = tried
        /\ available_tools' = available_tools /\ selected' = selected
        /\ StoreInRedis(KeyOf[c], got[c])
    BY <1>1, <1>3 DEF RedisStores, GoTo, TypeOK
  <2>3. Positioned(c)'
    BY <1>1, <2>2 DEF Positioned, Found, TypeOK
  <2> QED BY <1>1, <2>1, <2>2, <2>3, CacheStepKeeps
<1> QED BY <1>2, <1>3

\* The next fallback tool, or the end of the list.
LEMMA FallBackKeeps ==
  ASSUME IInv, RouterAssumption, CostAssumption, NEW c \in Calls,
         NEW i \in Nat \ {0}, FallBackTo(c, i)
  PROVE  IInv'
<1>1. TypeOK /\ available_tools[c] \in Seq(Definitions)
  BY DEF IInv, TypeOK
<1>2. available_tools' = available_tools /\ selected' = selected
      /\ UNCHANGED <<registry, cache, usage>>
      /\ got' = [got EXCEPT ![c] = NoResult]
  BY DEF FallBackTo
<1>3. CASE MoreTools(c, i)
  <2>1. /\ cursor' = [cursor EXCEPT ![c] = i]
        /\ tried' = [tried EXCEPT ![c] = @ \cup {i}]
        /\ pc' = [pc EXCEPT ![c] = "fallback"]
    BY <1>3 DEF FallBackTo, GoTo
  <2>2. i \in Found(c)
    BY <1>1, <1>3 DEF MoreTools, Found
  <2>3. Moves(c, "fallback")
    BY <1>1, <1>2, <2>1 DEF Moves, Places, TypeOK
  <2>4. pc'[c] = "fallback" /\ cursor'[c] = i /\ tried'[c] = tried[c] \cup {i}
    BY <1>1, <2>1 DEF TypeOK
  <2>5. Positioned(c)'
    BY <1>1, <1>2, <2>2, <2>4 DEF Positioned, Found, TypeOK
  <2> QED BY <1>2, <2>3, <2>5, OwnStepKeeps
<1>4. CASE ~MoreTools(c, i)
  <2>1. cursor' = cursor /\ tried' = tried /\ pc' = [pc EXCEPT ![c] = "failed"]
    BY <1>4 DEF FallBackTo, GoTo
  <2>2. Moves(c, "failed") /\ pc'[c] = "failed"
    BY <1>1, <1>2, <2>1 DEF Moves, Places, TypeOK
  <2>3. Positioned(c)'
    BY <1>1, <1>2, <2>1, <2>2 DEF Positioned, Found, TypeOK
  <2> QED BY <1>2, <2>2, <2>3, OwnStepKeeps
<1> QED BY <1>3, <1>4

\* What a tool that was found has produced.
LEMMA ResultTyped ==
  ASSUME TypeOK, RouterAssumption, NEW c \in Calls, NEW i \in Found(c),
         NEW by \in {"selected", "fallback"}
  PROVE  ResultOf(c, i, by) \in Results
<1>1. available_tools[c][i] \in Definitions
  BY DEF TypeOK, Found
<1> QED BY <1>1 DEF ResultOf, RouterAssumption, RouterResults, Definitions

LEMMA SelectKeeps ==
  ASSUME IInv, RouterAssumption, CostAssumption, NEW c \in Calls, NEW i \in Found(c),
         SelectTool(c, i)
  PROVE  IInv'
<1>1. TypeOK /\ available_tools[c] \in Seq(Definitions)
  BY DEF IInv, TypeOK
<1>2. i \in Nat
  BY <1>1 DEF Found
<1>3. /\ pc' = [pc EXCEPT ![c] = "running"] /\ usage' = usage
      /\ selected' = [selected EXCEPT ![c] = i] /\ tried' = [tried EXCEPT ![c] = {i}]
      /\ available_tools' = available_tools /\ cursor' = cursor /\ got' = got
      /\ tools' = tools /\ capability_index' = capability_index
      /\ redis' = redis /\ local_cache' = local_cache
  BY DEF SelectTool, GoTo, registry, cache
<1>4. Moves(c, "running")
  BY <1>1, <1>2, <1>3 DEF Moves, Places, TypeOK
<1>5. pc'[c] = "running" /\ selected'[c] = i /\ tried'[c] = {i}
  BY <1>1, <1>3 DEF TypeOK
<1>6. Positioned(c)'
  BY <1>3, <1>5 DEF Positioned, Found
<1>7. RegistryTypeOK' /\ CacheTypeOK' /\ CostTypeOK'
  BY <1>1, <1>3 DEF TypeOK, RegistryTypeOK, CacheTypeOK, CostTypeOK
<1>8. TypeOK' /\ InHand'
  BY <1>4, <1>6, <1>7, MovesKeepTypes, MovesKeepInHand DEF IInv
<1>9. OnlyCacheableIsCached'
  BY <1>3 DEF IInv, OnlyCacheableIsCached, MayBeCached
<1>10. BudgetInv'
  BY <1>1, <1>3, AdmissionKeepsBudget DEF IInv, SelectTool
<1> QED BY <1>8, <1>9, <1>10 DEF IInv

LEMMA ToolReturnsKeeps ==
  ASSUME IInv, RouterAssumption, CostAssumption, NEW c \in Calls,
         NEW cost \in 0..MaxCost, NEW no_cache \in BOOLEAN, ToolReturns(c, cost, no_cache)
  PROVE  IInv'
<1> DEFINE place == IF ShouldCache(c, no_cache) THEN "storing" ELSE "returned"
           result == ResultOf(c, selected[c], "selected")
<1>1. TypeOK /\ pc[c] = "running" /\ selected[c] \in Found(c)
  BY DEF IInv, TypeOK, Positioned, ToolReturns
<1>2. result \in Results
  BY <1>1, ResultTyped
<1>3. place \in {"storing", "returned"} /\ (place = "storing" => MayBeCached(result))
  BY DEF ShouldCache, MayBeCached, ResultOf
<1>4. /\ pc' = [pc EXCEPT ![c] = place] /\ got' = [got EXCEPT ![c] = result]
      /\ TrackUsage(PayersOf[c], cost)
      /\ available_tools' = available_tools /\ selected' = selected
      /\ cursor' = cursor /\ tried' = tried
      /\ tools' = tools /\ capability_index' = capability_index
      /\ redis' = redis /\ local_cache' = local_cache
  BY DEF ToolReturns, GoTo, registry, cache
<1> HIDE DEF place, result
<1>5. Moves(c, place) /\ pc'[c] = place /\ got'[c] = result
  BY <1>1, <1>2, <1>3, <1>4 DEF Moves, Places, TypeOK
<1>6. Positioned(c)'
  BY <1>1, <1>3, <1>4, <1>5 DEF TypeOK, Positioned, Found
<1>7. CostTypeOK'
  BY <1>1, <1>4 DEF TypeOK, CostTypeOK, TrackUsage, CostAssumption
<1>8. RegistryTypeOK' /\ CacheTypeOK'
  BY <1>1, <1>4 DEF TypeOK, RegistryTypeOK, CacheTypeOK
<1>9. MayBeCached(got'[c]) \/ place = "returned"
  BY <1>3, <1>5
<1>10. TypeOK' /\ InHand'
  BY <1>5, <1>6, <1>7, <1>8, <1>9, MovesKeepTypes, MovesKeepInHand DEF IInv
<1>11. OnlyCacheableIsCached'
  BY <1>4 DEF IInv, OnlyCacheableIsCached, MayBeCached
<1>12. BudgetInv'
  BY <1>1, <1>3, <1>4, ChargeKeepsBudget DEF IInv
<1> QED BY <1>10, <1>11, <1>12 DEF IInv

LEMMA FailureKeeps ==
  ASSUME IInv, RouterAssumption, CostAssumption, NEW c \in Calls,
         ToolRaises(c) \/ FallbackReturns(c) \/ FallbackRaises(c)
  PROVE  IInv'
<1>1. TypeOK /\ (pc[c] = "fallback" => cursor[c] \in Found(c)) /\ cursor[c] \in Nat
  BY DEF IInv, TypeOK, Positioned
<1>2. CASE ToolRaises(c)
  BY <1>2, FallBackKeeps DEF ToolRaises
<1>3. CASE FallbackRaises(c)
  <2>1. cursor[c] + 1 \in Nat \ {0} /\ FallBackTo(c, cursor[c] + 1)
    BY <1>1, <1>3 DEF FallbackRaises
  <2> QED BY <2>1, FallBackKeeps
<1>4. CASE FallbackReturns(c)
  <2>1. ResultOf(c, cursor[c], "fallback") \in Results
    BY <1>1, <1>4, ResultTyped DEF FallbackReturns
  <2>2. Moves(c, "returned") /\ UNCHANGED <<registry, cache, usage>>
    BY <1>1, <1>4, <2>1 DEF FallbackReturns, GoTo, Moves, Places, TypeOK
  <2>3. pc'[c] = "returned" /\ tried' = tried /\ available_tools' = available_tools
    BY <1>1, <1>4 DEF FallbackReturns, GoTo, TypeOK
  <2>4. Positioned(c)'
    BY <1>1, <2>3 DEF Positioned, Found, TypeOK
  <2> QED BY <2>2, <2>4, OwnStepKeeps
<1> QED BY <1>2, <1>3, <1>4

\* A step in which no call takes part.
LEMMA EnvironmentKeeps ==
  ASSUME IInv, RouterAssumption, CostAssumption, UNCHANGED local,
         RegistryTypeOK', CacheTypeOK', CostTypeOK', OnlyCacheableIsCached', BudgetInv'
  PROVE  IInv'
<1>1. /\ pc' = pc /\ available_tools' = available_tools /\ selected' = selected
      /\ cursor' = cursor /\ tried' = tried /\ got' = got
  BY DEF local
<1>2. TypeOK'
  BY <1>1 DEF IInv, TypeOK, Positioned, Found
<1>3. InHand'
  BY <1>1 DEF IInv, InHand, MayBeCached
<1> QED BY <1>2, <1>3 DEF IInv

LEMMA RegisterKeeps ==
  ASSUME IInv, RouterAssumption, CostAssumption,
         NEW t \in Definitions, Registers(t)
  PROVE  IInv'
<1>1. TypeOK /\ t.name \in Names /\ capability_index \in Seq(Names)
  BY DEF IInv, TypeOK, RegistryTypeOK, Definitions
<1>2. redis' = redis /\ local_cache' = local_cache /\ usage' = usage /\ pc' = pc
      /\ UNCHANGED local
  BY DEF Registers, cache, local
<1>3. tools' = [tools EXCEPT ![t.name] = t]
      /\ capability_index' = Append(capability_index, t.name)
  BY DEF Registers, RegisterTool
<1>4. /\ tools' \in [Names -> Definitions \cup {NoTool}]
      /\ tools'[t.name] = t /\ \A n \in Names : n # t.name => tools'[n] = tools[n]
  BY <1>1, <1>3 DEF TypeOK, RegistryTypeOK
<1>5. ASSUME NEW i \in DOMAIN capability_index'
      PROVE  tools'[capability_index'[i]] \in Definitions
  <2>1. CASE i = Len(capability_index) + 1
    BY <1>1, <1>3, <1>4, <2>1
  <2>2. CASE i # Len(capability_index) + 1
    <3>1. i \in DOMAIN capability_index /\ capability_index'[i] = capability_index[i]
          /\ capability_index[i] \in Names
      BY <1>1, <1>3, <2>2
    <3>2. tools[capability_index[i]] \in Definitions
      BY <1>1, <3>1 DEF TypeOK, RegistryTypeOK
    <3> QED BY <1>4, <3>1, <3>2
  <2> QED BY <2>1, <2>2
<1>6. capability_index' \in Seq(Names)
  BY <1>1, <1>3
<1>7. RegistryTypeOK'
  BY <1>4, <1>5, <1>6 DEF RegistryTypeOK
<1>8. CacheTypeOK' /\ CostTypeOK' /\ OnlyCacheableIsCached'
  BY <1>1, <1>2 DEF IInv, TypeOK, CacheTypeOK, CostTypeOK, OnlyCacheableIsCached, MayBeCached
<1>9. \A e \in Payers : Running(e)' \subseteq Running(e)
  BY <1>2 DEF Running, CallsOf
<1>10. BudgetInv'
  BY <1>2, <1>9, BudgetShrinks DEF IInv
<1> QED BY <1>2, <1>7, <1>8, <1>10, EnvironmentKeeps

LEMMA ExpiryKeeps ==
  ASSUME IInv, RouterAssumption, CostAssumption,
         NEW k \in Keys, Expires(k), UNCHANGED <<registry, usage, local>>
  PROVE  IInv'
<1>1. TypeOK /\ tools' = tools /\ capability_index' = capability_index /\ usage' = usage
      /\ pc' = pc
  BY DEF IInv, registry, local
<1>2. RegistryTypeOK' /\ CostTypeOK'
  BY <1>1 DEF TypeOK, RegistryTypeOK, CostTypeOK
<1>3. CacheTypeOK'
  BY <1>1 DEF TypeOK, CacheTypeOK, Expires
<1>4. OnlyCacheableIsCached'
  BY <1>1 DEF IInv, TypeOK, CacheTypeOK, OnlyCacheableIsCached, MayBeCached, Expires
<1>5. \A e \in Payers : Running(e)' \subseteq Running(e)
  BY <1>1 DEF Running, CallsOf
<1>6. BudgetInv'
  BY <1>1, <1>5, BudgetShrinks DEF IInv
<1> QED BY <1>2, <1>3, <1>4, <1>6, EnvironmentKeeps

LEMMA NewMonthKeeps ==
  ASSUME IInv, RouterAssumption, CostAssumption,
         NewMonth, UNCHANGED <<registry, cache, local>>
  PROVE  IInv'
<1>1. TypeOK /\ tools' = tools /\ capability_index' = capability_index /\ redis' = redis
      /\ local_cache' = local_cache /\ pc' = pc
  BY DEF IInv, registry, cache, local
<1>2. RegistryTypeOK' /\ CacheTypeOK' /\ CostTypeOK'
  BY <1>1 DEF TypeOK, RegistryTypeOK, CacheTypeOK, CostTypeOK, NewMonth
<1>3. OnlyCacheableIsCached'
  BY <1>1 DEF IInv, OnlyCacheableIsCached, MayBeCached
<1>4. BudgetInv'
  BY <1>1, NewMonthKeepsBudget DEF IInv
<1> QED BY <1>2, <1>3, <1>4, EnvironmentKeeps
--------------------------------------------------------------------------------
LEMMA InitEstablishes ==
  ASSUME Init, RouterAssumption, CostAssumption
  PROVE  IInv
<1> USE DEF Init, RegistryInit, CacheInit, CostInit
<1>1. TypeOK
  BY DEF TypeOK, RegistryTypeOK, CacheTypeOK, CostTypeOK, Places, Positioned
<1>2. InHand /\ OnlyCacheableIsCached
  BY DEF InHand, OnlyCacheableIsCached, MayBeCached
<1>3. BudgetInv
  BY DEF BudgetInv, Committed, Running, CallsOf
<1> QED BY <1>1, <1>2, <1>3 DEF IInv

LEMMA NextKeeps ==
  ASSUME IInv, RouterAssumption, CostAssumption, [Next]_vars
  PROVE  IInv'
<1>1. ASSUME NEW c \in Calls, CallStep(c) PROVE IInv'
  <2>1. CASE FindsNothing(c) \/ FindsCopy(c) \/ AsksRedis(c)
    BY <2>1, BeginsKeeps
  <2>2. CASE RedisAnswers(c) \/ GetRaises(c) \/ Refused(c)
    BY <2>2, FetchKeeps
  <2>3. CASE CacheHit(c) \/ RedisStores(c) \/ Stored(c)
    BY <2>3, CacheWriteKeeps
  <2>4. CASE \E i \in Found(c) : SelectTool(c, i)
    BY <2>4, SelectKeeps
  <2>5. CASE \E cost \in 0..MaxCost, no_cache \in BOOLEAN : ToolReturns(c, cost, no_cache)
    BY <2>5, ToolReturnsKeeps
  <2>6. CASE ToolRaises(c) \/ FallbackReturns(c) \/ FallbackRaises(c)
    BY <2>6, FailureKeeps
  <2> QED BY <1>1, <2>1, <2>2, <2>3, <2>4, <2>5, <2>6 DEF CallStep
<1>2. CASE Environment
  BY <1>2, RegisterKeeps, ExpiryKeeps, NewMonthKeeps DEF Environment
<1>3. CASE UNCHANGED vars
  <2>1. /\ UNCHANGED local /\ pc' = pc /\ usage' = usage /\ redis' = redis
        /\ tools' = tools /\ capability_index' = capability_index
        /\ local_cache' = local_cache
    BY <1>3 DEF vars, registry, cache, local
  <2>2. \A e \in Payers : Running(e)' \subseteq Running(e)
    BY <2>1 DEF Running, CallsOf
  <2>3. BudgetInv'
    BY <2>1, <2>2, BudgetShrinks DEF IInv
  <2>4. RegistryTypeOK' /\ CacheTypeOK' /\ CostTypeOK' /\ OnlyCacheableIsCached'
    BY <2>1 DEF IInv, TypeOK, RegistryTypeOK, CacheTypeOK, CostTypeOK,
                OnlyCacheableIsCached, MayBeCached
  <2> QED BY <2>1, <2>3, <2>4, EnvironmentKeeps
<1> QED BY <1>1, <1>2, <1>3 DEF Next

LEMMA Invariance == Spec => []IInv
<1>1. RouterAssumption /\ CostAssumption
  BY RouterAssumption, CostAssumption
<1>2. Init => IInv
  BY <1>1, InitEstablishes
<1>3. IInv /\ [Next]_vars => IInv'
  BY <1>1, NextKeeps
<1> QED BY <1>2, <1>3, PTL DEF Spec

(***************************************************************************)
(* Every position a call holds is one of a tool it found, whatever is      *)
(* registered while it runs: the fallback loop never leaves the list.      *)
(***************************************************************************)
THEOREM RouterTypeCorrect == Spec => []TypeOK
<1>1. IInv => TypeOK
  BY DEF IInv
<1> QED BY <1>1, Invariance, PTL

(***************************************************************************)
(* No result of a tool whose results may not be cached, and none of a      *)
(* fallback tool, is ever in Redis or in the copy of the process.          *)
(***************************************************************************)
THEOREM CacheIsHonest == Spec => []OnlyCacheableIsCached
<1>1. IInv => OnlyCacheableIsCached
  BY DEF IInv
<1> QED BY <1>1, Invariance, PTL

(***************************************************************************)
(* A budget is exceeded by no more than the cost of the runs that can be   *)
(* under way at a time, although it is checked before a run and charged    *)
(* after it.                                                               *)
(***************************************************************************)
THEOREM OvershootBounded == Spec => []OvershootIsBounded
<1>1. ASSUME IInv PROVE OvershootIsBounded
  <2> SUFFICES ASSUME NEW e \in Payers, usage[e] > 0
               PROVE  usage[e] + Estimate <= Limits[e] + MaxCost * Cardinality(CallsOf(e))
    BY DEF OvershootIsBounded
  <2> DEFINE b == MaxCost * Cardinality(Running(e))
             n == MaxCost * Cardinality(CallsOf(e))
  <2>1. usage[e] \in Nat /\ Estimate \in Nat /\ Limits[e] \in Nat
    BY <1>1, CostAssumption DEF IInv, TypeOK, CostTypeOK
  <2>2. b \in Nat /\ n \in Nat
    BY SomeRunning, RouterAssumption, CostAssumption
  <2>3. usage[e] + Estimate + b <= Limits[e] + n
    BY <1>1, <2>1 DEF IInv, BudgetInv, Committed
  <2> HIDE DEF b, n
  <2>4. usage[e] + Estimate <= Limits[e] + n
    BY <2>1, <2>2, <2>3
  <2> QED BY <2>4 DEF n
<1>2. IInv => OvershootIsBounded
  BY <1>1
<1> QED BY <1>2, Invariance, PTL
================================================================================
