------------------------------ MODULE ToolRouter -------------------------------
(***************************************************************************)
(* src/tools/tool_router.py, composed with the registry, the cache and the *)
(* cost tracker: concurrent calls of route_and_execute for one capability. *)
(* A call suspends in Redis (get and set) and in the worker pool.          *)
(***************************************************************************)
EXTENDS ToolRegistry, ToolCache, CostTracker, FiniteSets

CONSTANTS Calls,              \* calls that may be under way at a time
          KeyOf,              \* the cache key of the task and params of each
          PayersOf            \* its user and its tenant

\* A result: from a tool whose results may be cached or not, which was the
\* selected one or a fallback.
RouterResults == [cacheable : BOOLEAN, by : {"selected", "fallback"}]

ASSUME RouterAssumption ==
  /\ IsFiniteSet(Calls)
  /\ KeyOf \in [Calls -> Keys] /\ PayersOf \in [Calls -> SUBSET Payers]
  /\ Results = RouterResults /\ NoResult \notin Results

VARIABLES pc,                 \* where each call is
          available_tools,    \* the definitions it found
          selected,           \* the position of the tool it selected
          cursor,             \* the position of the fallback tool that runs
          tried,              \* the positions that have run, kept to state a property
          got                 \* the result it has in hand or returned

local == <<pc, available_tools, selected, cursor, tried, got>>
vars == <<registry, cache, usage, local>>

Init ==
  /\ RegistryInit /\ CacheInit /\ CostInit
  /\ pc = [c \in Calls |-> "idle"]
  /\ available_tools = [c \in Calls |-> <<>>]
  /\ selected = [c \in Calls |-> 0]
  /\ cursor = [c \in Calls |-> 0]
  /\ tried = [c \in Calls |-> {}]
  /\ got = [c \in Calls |-> NoResult]

GoTo(c, place) == pc' = [pc EXCEPT ![c] = place]

Found(c) == DOMAIN available_tools[c]
--------------------------------------------------------------------------------
(***************************************************************************)
(* route_and_execute up to the run of the tool.                            *)
(***************************************************************************)
Over(c) == pc[c] \in {"idle", "returned", "failed"}

\* A call without a tool for its capability raises at once.
Begins(c, place, result) ==
  /\ Over(c)
  /\ available_tools' = [available_tools EXCEPT ![c] = FindTools]
  /\ selected' = [selected EXCEPT ![c] = 0]
  /\ cursor' = [cursor EXCEPT ![c] = 0]
  /\ tried' = [tried EXCEPT ![c] = {}]
  /\ got' = [got EXCEPT ![c] = result]
  /\ GoTo(c, place)
  /\ UNCHANGED <<registry, cache, usage>>

FindsNothing(c) == capability_index = <<>> /\ Begins(c, "failed", NoResult)

FindsCopy(c) ==
  /\ capability_index # <<>> /\ local_cache[KeyOf[c]] # NoResult
  /\ Begins(c, "returned", local_cache[KeyOf[c]])

AsksRedis(c) ==
  /\ capability_index # <<>> /\ local_cache[KeyOf[c]] = NoResult
  /\ Begins(c, "getting", NoResult)

\* Redis answers; the call resumes later.
RedisAnswers(c) ==
  /\ pc[c] = "getting"
  /\ got' = [got EXCEPT ![c] = redis[KeyOf[c]]]
  /\ GoTo(c, "fetched")
  /\ UNCHANGED <<registry, cache, usage, available_tools, selected, cursor, tried>>

\* get raises outside the try statement: the call ends.
GetRaises(c) ==
  /\ pc[c] = "getting"
  /\ GoTo(c, "failed")
  /\ UNCHANGED <<registry, cache, usage, available_tools, selected, cursor, tried, got>>

CacheHit(c) ==
  /\ pc[c] = "fetched" /\ got[c] # NoResult
  /\ CopyLocally(KeyOf[c], got[c])
  /\ GoTo(c, "returned")
  /\ UNCHANGED <<registry, usage, available_tools, selected, cursor, tried, got>>

\* Any tool may be selected; the selection raises if none has the version asked for.
SelectTool(c, i) ==
  /\ pc[c] = "fetched" /\ got[c] = NoResult
  /\ CheckBudget(PayersOf[c])
  /\ selected' = [selected EXCEPT ![c] = i]
  /\ tried' = [tried EXCEPT ![c] = {i}]
  /\ GoTo(c, "running")
  /\ UNCHANGED <<registry, cache, usage, available_tools, cursor, got>>

Refused(c) ==
  /\ pc[c] = "fetched" /\ got[c] = NoResult
  /\ GoTo(c, "failed")
  /\ UNCHANGED <<registry, cache, usage, available_tools, selected, cursor, tried, got>>
--------------------------------------------------------------------------------
(***************************************************************************)
(* The run of the selected tool and of the fallback tools.                 *)
(***************************************************************************)
ResultOf(c, i, by) ==
  [cacheable |-> available_tools[c][i].cacheable, by |-> by]

\* A mutant of ShouldCache: only the request decides.
ShouldCacheUnlessDisabled(c, no_cache) == ~no_cache

ShouldCache(c, no_cache) ==
  ~no_cache /\ available_tools[c][selected[c]].cacheable

ToolReturns(c, cost, no_cache) ==
  /\ pc[c] = "running"
  /\ TrackUsage(PayersOf[c], cost)
  /\ got' = [got EXCEPT ![c] = ResultOf(c, selected[c], "selected")]
  /\ GoTo(c, IF ShouldCache(c, no_cache) THEN "storing" ELSE "returned")
  /\ UNCHANGED <<registry, cache, available_tools, selected, cursor, tried>>

RedisStores(c) ==
  /\ pc[c] = "storing"
  /\ StoreInRedis(KeyOf[c], got[c])
  /\ GoTo(c, "stored")
  /\ UNCHANGED <<registry, usage, available_tools, selected, cursor, tried, got>>

Stored(c) ==
  /\ pc[c] = "stored"
  /\ CopyLocally(KeyOf[c], got[c])
  /\ GoTo(c, "returned")
  /\ UNCHANGED <<registry, usage, available_tools, selected, cursor, tried, got>>

\* A mutant of MoreTools: the end of the list is not seen.
MoreToolsOffByOne(c, i) == i <= Len(available_tools[c]) + 1

\* There is a tool at position i.
MoreTools(c, i) == i <= Len(available_tools[c])

\* The fallback tool at position i runs, or there is none and the call fails.
FallBackTo(c, i) ==
  /\ got' = [got EXCEPT ![c] = NoResult]
  /\ \/ /\ MoreTools(c, i)
        /\ cursor' = [cursor EXCEPT ![c] = i]
        /\ tried' = [tried EXCEPT ![c] = @ \cup {i}]
        /\ GoTo(c, "fallback")
     \/ /\ ~MoreTools(c, i)
        /\ GoTo(c, "failed")
        /\ UNCHANGED <<cursor, tried>>
  /\ UNCHANGED <<registry, cache, usage, available_tools, selected>>

\* The tool raises, or the command to store its result does.  The fallback tools
\* are those after the first one, whichever was selected.
ToolRaises(c) ==
  /\ pc[c] \in {"running", "storing", "stored"}
  /\ FallBackTo(c, 2)

FallbackReturns(c) ==
  /\ pc[c] = "fallback"
  /\ got' = [got EXCEPT ![c] = ResultOf(c, cursor[c], "fallback")]
  /\ GoTo(c, "returned")
  /\ UNCHANGED <<registry, cache, usage, available_tools, selected, cursor, tried>>

FallbackRaises(c) ==
  /\ pc[c] = "fallback"
  /\ FallBackTo(c, cursor[c] + 1)
--------------------------------------------------------------------------------
CallStep(c) ==
  \/ FindsNothing(c) \/ FindsCopy(c) \/ AsksRedis(c)
  \/ RedisAnswers(c) \/ GetRaises(c) \/ CacheHit(c)
  \/ \E i \in Found(c) : SelectTool(c, i)
  \/ Refused(c)
  \/ \E cost \in 0..MaxCost, no_cache \in BOOLEAN : ToolReturns(c, cost, no_cache)
  \/ RedisStores(c) \/ Stored(c)
  \/ ToolRaises(c) \/ FallbackReturns(c) \/ FallbackRaises(c)

\* The start-up registers tools again before there are calls; a later scan
\* registers those it does not know.
Registers(t) ==
  /\ tools[t.name] = NoTool \/ \A c \in Calls : pc[c] = "idle"
  /\ RegisterTool(t)
  /\ UNCHANGED <<cache, usage, local>>

Environment ==
  \/ \E t \in Definitions : Registers(t)
  \/ /\ \E k \in Keys : Expires(k)
     /\ UNCHANGED <<registry, usage, local>>
  \/ /\ NewMonth
     /\ UNCHANGED <<registry, cache, local>>

Next == (\E c \in Calls : CallStep(c)) \/ Environment

Spec == Init /\ [][Next]_vars
--------------------------------------------------------------------------------
Places == {"idle", "getting", "fetched", "running", "storing", "stored", "fallback",
           "returned", "failed"}

Positioned(c) ==
  /\ pc[c] \in {"running", "storing", "stored"} => selected[c] \in Found(c)
  /\ pc[c] = "fallback" => cursor[c] \in Found(c)
  /\ tried[c] \subseteq Found(c)

TypeOK ==
  /\ RegistryTypeOK /\ CacheTypeOK /\ CostTypeOK
  /\ pc \in [Calls -> Places]
  /\ available_tools \in [Calls -> Seq(Definitions)]
  /\ selected \in [Calls -> Nat] /\ cursor \in [Calls -> Nat]
  /\ tried \in [Calls -> SUBSET Nat]
  /\ got \in [Calls -> Results \cup {NoResult}]
  /\ \A c \in Calls : Positioned(c)

(***************************************************************************)
(* A result in Redis or in the process is one of a tool that allows it to  *)
(* be cached, and never one of a fallback tool: however calls of one key,  *)
(* expiry and failures of Redis interleave.                                *)
(***************************************************************************)
MayBeCached(v) == v = NoResult \/ (v.cacheable /\ v.by = "selected")

OnlyCacheableIsCached ==
  \A k \in Keys : MayBeCached(redis[k]) /\ MayBeCached(local_cache[k])

(***************************************************************************)
(* The budget is checked before the run and charged after it.  What is     *)
(* tracked, with the estimate of one more run, exceeds a limit by the cost *)
(* of the runs that can be under way at a time and by no more.             *)
(***************************************************************************)
CallsOf(e) == {c \in Calls : e \in PayersOf[c]}

OvershootIsBounded ==
  \A e \in Payers :
    usage[e] > 0 =>
      usage[e] + Estimate <= Limits[e] + MaxCost * Cardinality(CallsOf(e))

(***************************************************************************)
(* "All tools failed": a call that gives up after its fallback tools has   *)
(* run every tool it found.                                                *)
(***************************************************************************)
AllToolsFailed ==
  \A c \in Calls :
    pc[c] = "failed" /\ cursor[c] # 0 =>
      {available_tools[c][i].name : i \in Found(c)} =
        {available_tools[c][i].name : i \in tried[c]}
================================================================================
