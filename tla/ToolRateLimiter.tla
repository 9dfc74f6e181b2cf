---------------------------- MODULE ToolRateLimiter ----------------------------
(***************************************************************************)
(* src/tools/rate_limiter.py: token buckets for the global, the tenant and *)
(* the user limit of a tool, in Redis or, without it, in the process.      *)
(* A token is the unit; Rate tokens come back in a unit of time.  The rate *)
(* stays as it is: a configure_limit that changes it, too, has the time    *)
(* since the last refill counted at the new rate, which is left out.       *)
(***************************************************************************)
EXTENDS Integers, Sequences

CONSTANTS
  Checks,                     \* calls of check_limits
  Scopes,                     \* the keys a call consumes from, in their order
  Rate,
  Capacities,                 \* what configure_limit may set
  EndOfTime                   \* bound on the clock

ASSUME BucketAssumption ==
  /\ Rate \in Nat /\ EndOfTime \in Nat /\ Len(Scopes) \in Nat \ {0}
  /\ Capacities \subseteq Nat \ {0} /\ Capacities # {}

VARIABLES redis,              \* whether there is Redis
          seconds,            \* the clock
          capacity,           \* the configured capacity of each key
          bucket,             \* the bucket of each key
          check,              \* the state of each call
          granted             \* history: tokens consumed since the bucket exists

bucketVars == <<redis, seconds, capacity, bucket, check, granted>>

Scope == 1..Len(Scopes)
NoBucket == [tokens |-> 0, last |-> 0, capacity |-> 0]

BucketsInit ==
  /\ redis \in BOOLEAN
  /\ seconds = 0
  /\ capacity = [s \in Scope |-> CHOOSE c \in Capacities : TRUE]
  /\ bucket = [s \in Scope |-> NoBucket]
  /\ check = [k \in Checks |-> [pc |-> "asks", scope |-> 1, now |-> 0]]
  /\ granted = [s \in Scope |-> [tokens |-> 0, since |-> 0, capacity |-> 0]]

BucketsTypeOK ==
  /\ redis \in BOOLEAN
  /\ seconds \in 0..EndOfTime
  /\ capacity \in [Scope -> Capacities]
  /\ bucket \in [Scope ->
       [tokens: Nat, last: 0..EndOfTime, capacity: Capacities \cup {0}]]
  /\ check \in [Checks ->
       [pc: {"asks", "script", "allowed", "refused"}, scope: 1..Len(Scopes) + 1,
        now: 0..EndOfTime]]
  /\ granted \in [Scope ->
       [tokens: Nat, since: 0..EndOfTime, capacity: Capacities \cup {0}]]

SecondPasses ==
  /\ seconds < EndOfTime
  /\ seconds' = seconds + 1
  /\ UNCHANGED <<redis, capacity, bucket, check, granted>>

\* configure_limit: a bucket in the process keeps the capacity it began with.
ConfigureLimit(s, c) ==
  /\ capacity' = [capacity EXCEPT ![s] = c]
  /\ UNCHANGED <<redis, seconds, bucket, check, granted>>

\* reset_limit; in Redis a bucket also expires.
ResetLimit(s) ==
  /\ bucket' = [bucket EXCEPT ![s] = NoBucket]
  /\ UNCHANGED <<redis, seconds, capacity, check, granted>>

\* The tokens of a bucket at a time, which may be before its last refill.
Refilled(b, cap, now) ==
  LET t == b.tokens + (now - b.last) * Rate IN IF t < cap THEN t ELSE cap

Capacity(s) == IF redis \/ bucket[s] = NoBucket THEN capacity[s] ELSE bucket[s].capacity

Tokens(s, now) ==
  IF bucket[s] = NoBucket THEN capacity[s] ELSE Refilled(bucket[s], Capacity(s), now)

\* A mutant of LastRefill: the time of the refill is not noted.
LastRefillKept(s, now) == IF bucket[s] = NoBucket THEN now ELSE bucket[s].last

LastRefill(s, now) == now

\* One token, atomically: in the script, or under the lock of the bucket.  A
\* bucket in the process notes the refill even when it refuses.
Consume(k, now) ==
  LET s == check[k].scope
      tokens == Tokens(s, now)
      kept == [tokens |-> tokens, last |-> LastRefill(s, now),
               capacity |-> Capacity(s)]
  IN  IF tokens >= 1
      THEN /\ bucket' = [bucket EXCEPT ![s] = [kept EXCEPT !.tokens = @ - 1]]
           /\ granted' = [granted EXCEPT ![s] =
                IF bucket[s] = NoBucket
                THEN [tokens |-> 1, since |-> now, capacity |-> Capacity(s)]
                ELSE [granted[s] EXCEPT !.tokens = @ + 1]]
           /\ check' = [check EXCEPT ![k] =
                [pc |-> IF s = Len(Scopes) THEN "allowed" ELSE "asks",
                 scope |-> s + 1, now |-> 0]]
      ELSE /\ bucket' = IF redis THEN bucket ELSE [bucket EXCEPT ![s] = kept]
           /\ check' = [check EXCEPT ![k].pc = "refused"]
           /\ UNCHANGED granted

\* _check_local_limit.
CheckLocally(k) ==
  /\ ~redis /\ check[k].pc = "asks"
  /\ Consume(k, seconds)
  /\ UNCHANGED <<redis, seconds, capacity>>

\* _check_redis_limit reads the time before it calls the script.
AsksScript(k) ==
  /\ redis /\ check[k].pc = "asks"
  /\ check' = [check EXCEPT ![k].pc = "script", ![k].now = seconds]
  /\ UNCHANGED <<redis, seconds, capacity, bucket, granted>>

ScriptRuns(k) ==
  /\ check[k].pc = "script"
  /\ Consume(k, check[k].now)
  /\ UNCHANGED <<redis, seconds, capacity>>

BucketsNext ==
  \/ SecondPasses
  \/ \E s \in Scope : ResetLimit(s) \/ \E c \in Capacities : ConfigureLimit(s, c)
  \/ \E k \in Checks : CheckLocally(k) \/ AsksScript(k) \/ ScriptRuns(k)

--------------------------------------------------------------------------------
\* BucketBounded: a bucket never grants more than its capacity and what has
\* come back since it exists, although calls read the time before the script
\* runs, the script may see the time go back, and the limit is configured
\* anew.
BucketBounded ==
  \A s \in Scope :
    bucket[s] # NoBucket =>
      granted[s].tokens <= granted[s].capacity + Rate * (seconds - granted[s].since)
================================================================================
