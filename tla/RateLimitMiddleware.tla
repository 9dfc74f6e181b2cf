-------------------------- MODULE RateLimitMiddleware --------------------------
(***************************************************************************)
(* src/api/middleware/rate_limit.py: requests that pass a chain of limits  *)
(* (endpoint, user, tenant, default), counted in memory or in Redis by one *)
(* of three strategies.  Two requests never read the same time, which in   *)
(* Redis would make them one member of the window.                         *)
(***************************************************************************)
EXTENDS Integers, FiniteSets, Sequences

CONSTANTS
  Arrivals,                   \* requests to the server
  Limits,                     \* the keys of the limits, in the order of the chain
  MaxRequests,                \* of every limit
  Period,                     \* of every limit
  LastTime                    \* bound on the clock

ASSUME LimitsAssumption ==
  /\ MaxRequests \in Nat /\ Period \in Nat \ {0} /\ LastTime \in Nat \ {0}
  /\ IsFiniteSet(Arrivals) /\ Len(Limits) \in Nat

VARIABLES strategy,           \* settings, "memory" when there is no Redis
          time,
          arrival,            \* the state of each request
          log,                \* memory_storage, or the sorted set of each key
          counter,            \* the fixed-window counter of each key
          expiry,             \* when the counter expires, 0 for never
          passed              \* history: times at which a key let a request pass

limitVars == <<strategy, time, arrival, log, counter, expiry, passed>>

Strategies == {"memory", "sliding-window", "fixed-window", "token-bucket"}
Keys == 1..Len(Limits)
Waiting == [pc |-> "waiting", key |-> 1, now |-> 0]

LimitsInit ==
  /\ strategy \in Strategies
  /\ time = 1
  /\ arrival = [r \in Arrivals |-> Waiting]
  /\ log = [k \in Keys |-> {}]
  /\ counter = [k \in Keys |-> 0]
  /\ expiry = [k \in Keys |-> 0]
  /\ passed = [k \in Keys |-> {}]

LimitsTypeOK ==
  /\ strategy \in Strategies
  /\ time \in 1..LastTime
  /\ arrival \in [Arrivals ->
       [pc: {"waiting", "stamped", "counted", "admitted", "refused"},
        key: 1..Len(Limits) + 1, now: 0..LastTime]]
  /\ log \in [Keys -> SUBSET (1..LastTime)]
  /\ counter \in [Keys -> 0..Cardinality(Arrivals)]
  /\ expiry \in [Keys -> 0..LastTime + Period]
  /\ passed \in [Keys -> SUBSET (1..LastTime)]

\* dispatch: a request begins with the first limit.
Checking(r, pc) == arrival[r].pc = pc /\ arrival[r].key \in Keys
KeyOf(r) == arrival[r].key

Ticks == time' = time + 1

TimePasses ==
  /\ time < LastTime
  /\ Ticks
  /\ UNCHANGED <<strategy, arrival, log, counter, expiry, passed>>

\* _check_limit refuses when more than MaxRequests have been counted; the
\* limits before this one keep their count.
Answer(r, number, now) ==
  IF number > MaxRequests
  THEN /\ arrival' = [arrival EXCEPT ![r].pc = "refused"]
       /\ UNCHANGED passed
  ELSE /\ passed' = [passed EXCEPT ![KeyOf(r)] =
            IF \E e \in log[KeyOf(r)] : e > now THEN @ ELSE @ \cup {now}]
       /\ arrival' = [arrival EXCEPT
            ![r] = [pc |-> IF KeyOf(r) = Len(Limits) THEN "admitted" ELSE "waiting",
                    key |-> KeyOf(r) + 1, now |-> 0]]

\* A mutant of Recent: an entry is dropped one unit too early.
RecentButOne(k, now) == {e \in log[k] : e > now - Period + 1}

\* The entries that are still in the window.
Recent(k, now) == {e \in log[k] : e > now - Period}

CountsIn(r, now) ==
  LET window == Recent(KeyOf(r), now) \cup {now}
  IN  /\ log' = [log EXCEPT ![KeyOf(r)] = window]
      /\ Answer(r, Cardinality(window), now)

\* _check_memory_limit, which does not suspend.
CountInMemory(r) ==
  /\ strategy = "memory" /\ Checking(r, "waiting")
  /\ time < LastTime /\ Ticks
  /\ CountsIn(r, time)
  /\ UNCHANGED <<strategy, counter, expiry>>

\* The sliding window reads the time, and the pipeline runs when Redis gets it.
ReadsTime(r) ==
  /\ strategy = "sliding-window" /\ Checking(r, "waiting")
  /\ time < LastTime /\ Ticks
  /\ arrival' = [arrival EXCEPT ![r].pc = "stamped", ![r].now = time]
  /\ UNCHANGED <<strategy, log, counter, expiry, passed>>

PipelineRuns(r) ==
  /\ Checking(r, "stamped")
  /\ CountsIn(r, arrival[r].now)
  /\ UNCHANGED <<strategy, time, counter, expiry>>

\* The fixed window counts, and gives the first count of a window its end.
Increments(r) ==
  /\ strategy = "fixed-window" /\ Checking(r, "waiting")
  /\ time < LastTime /\ Ticks
  /\ counter' = [counter EXCEPT ![KeyOf(r)] = @ + 1]
  /\ IF counter[KeyOf(r)] = 0
     THEN /\ arrival' = [arrival EXCEPT ![r].pc = "counted", ![r].now = time]
          /\ UNCHANGED passed
     ELSE Answer(r, counter[KeyOf(r)] + 1, time)
  /\ UNCHANGED <<strategy, log, expiry>>

SetsExpiry(r) ==
  /\ Checking(r, "counted")
  /\ expiry' = [expiry EXCEPT ![KeyOf(r)] = time + Period]
  /\ Answer(r, 1, arrival[r].now)
  /\ UNCHANGED <<strategy, time, log, counter>>

WindowExpires(k) ==
  /\ expiry[k] # 0 /\ expiry[k] <= time
  /\ counter' = [counter EXCEPT ![k] = 0]
  /\ expiry' = [expiry EXCEPT ![k] = 0]
  /\ UNCHANGED <<strategy, time, arrival, log, passed>>

\* The token bucket returns at most MaxRequests, which is not more than
\* MaxRequests: what the bucket holds decides nothing.
BucketAdmits(r) ==
  /\ strategy = "token-bucket" /\ Checking(r, "waiting")
  /\ time < LastTime /\ Ticks
  /\ Answer(r, MaxRequests, time)
  /\ UNCHANGED <<strategy, log, counter, expiry>>

LimitsNext ==
  \/ TimePasses
  \/ \E k \in Keys : WindowExpires(k)
  \/ \E r \in Arrivals :
       \/ CountInMemory(r) \/ ReadsTime(r) \/ PipelineRuns(r)
       \/ Increments(r) \/ SetsExpiry(r) \/ BucketAdmits(r)

--------------------------------------------------------------------------------
Burst == IF strategy = "fixed-window" THEN 2 * MaxRequests ELSE MaxRequests

\* WindowBounded: how many requests a limit lets pass in any period, by the
\* times they read.  In memory and in the sliding window at most MaxRequests,
\* but for requests whose pipeline ran after that of a later one: the later
\* one may have removed what they should have counted.  Two fixed windows may
\* touch.  Of the token bucket, which refuses nothing, there is nothing to say.
WindowBounded ==
  strategy # "token-bucket" =>
    \A k \in Keys, w \in 1..LastTime :
      Cardinality({p \in passed[k] : w - Period < p /\ p <= w}) <= Burst
================================================================================
