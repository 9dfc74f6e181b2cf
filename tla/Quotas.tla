--------------------------------- MODULE Quotas ---------------------------------
(***************************************************************************)
(* src/gateway/analytics/quota_enforcer.py and src/scheduler/              *)
(* quota_manager.py: the quota of calls of one tenant at the gateway, by a *)
(* period of the calendar, and the quotas of executions the scheduler asks *)
(* about.  No method suspends.                                             *)
(***************************************************************************)
EXTENDS Naturals, FiniteSets, FiniteSetsExt

CONSTANTS
  Periods,                    \* lengths of the periods: hour and day
  QuotaLimits,                \* limits that are set at the gateway
  CapLimits,                  \* and for the scheduler
  MaxAmount,                  \* largest amount asked for at once
  Owners,                     \* a tenant and a user of the scheduler
  MaxRunning,                 \* bound on executions that run
  LastHour                    \* bound on the clock

ASSUME QuotasAssumption ==
  /\ Periods \subseteq Nat \ {0}
  /\ QuotaLimits \subseteq Nat /\ CapLimits \subseteq Nat
  /\ MaxAmount \in Nat /\ MaxRunning \in Nat /\ LastHour \in Nat

VARIABLES hour,               \* the clock
          quota,              \* of the enforcer: limit, period, reset_at
          calls,              \* usage of the enforcer, by hour
          conceded,           \* history: calls granted since the quota was set
          caps,               \* limits of CONCURRENT and MONTHLY_EXECUTIONS
          running,            \* active_executions
          counted,            \* increment_usage, under the key with a prefix
          outcome             \* of the last check_quota of the scheduler

quotaVars == <<hour, quota, calls, conceded, caps, running, counted,
               outcome>>

Hours == 0..LastHour
NoQuota == [limit |-> 0, period |-> 0, resetAt |-> 0]
NoCalls == [h \in Hours |-> 0]
CallsIn(used, hours) == MapThenSumSet(LAMBDA h : used[h], hours)

QuotasInit ==
  /\ hour = 0 /\ quota = NoQuota /\ calls = NoCalls /\ conceded = NoCalls
  /\ caps = [o \in Owners |-> [concurrent |-> {}, monthly |-> {}]]
  /\ running = [o \in Owners |-> 0] /\ counted = [o \in Owners |-> 0]
  /\ outcome = "none"

QuotasTypeOK ==
  /\ hour \in Hours
  /\ quota \in [limit: QuotaLimits \cup {0}, period: Periods \cup {0}, resetAt: Hours]
  /\ calls \in [Hours -> Nat] /\ conceded \in [Hours -> Nat]
  /\ caps \in [Owners -> [concurrent: SUBSET CapLimits, monthly: SUBSET CapLimits]]
  /\ running \in [Owners -> 0..MaxRunning] /\ counted \in [Owners -> 0..MaxRunning]
  /\ outcome \in {"none", "passed", "exceeded"}

HourPasses ==
  /\ hour < LastHour /\ hour' = hour + 1
  /\ UNCHANGED <<quota, calls, conceded, caps, running, counted, outcome>>

--------------------------------------------------------------------------------
(* The gateway.                                                              *)

\* set_quota keeps the usage, also that of a period that is over.
SetQuota(limit, period) ==
  /\ quota' = [limit |-> limit, period |-> period, resetAt |-> hour]
  /\ conceded' = NoCalls
  /\ UNCHANGED <<hour, calls, caps, running, counted, outcome>>

\* A mutant of ShouldReset: the time since the reset counts, not the calendar.
ShouldResetAlways == hour > quota.resetAt

\* _should_reset: another hour, another day has begun.
ShouldReset == quota.resetAt \div quota.period < hour \div quota.period

UsageNow == IF ShouldReset THEN NoCalls ELSE calls
ResetAt == IF ShouldReset THEN hour ELSE quota.resetAt

\* check_quota, for a tenant that has one: usage over the limit is refused,
\* and a period that has passed is reset in any case.
CheckQuota(amount) ==
  /\ quota.period # 0
  /\ quota' = [quota EXCEPT !.resetAt = ResetAt]
  /\ IF CallsIn(UsageNow, Hours) + amount > quota.limit
     THEN calls' = UsageNow /\ UNCHANGED conceded
     ELSE /\ calls' = [UsageNow EXCEPT ![hour] = @ + amount]
          /\ conceded' = [conceded EXCEPT ![hour] = @ + amount]
  /\ UNCHANGED <<hour, caps, running, counted, outcome>>

--------------------------------------------------------------------------------
(* The scheduler.                                                            *)

\* configure_tenant_quota, configure_user_quota.
Configure(o, type, limit) ==
  /\ caps' = [caps EXCEPT ![o][type] = {limit}]
  /\ UNCHANGED <<hour, quota, calls, conceded, running, counted, outcome>>

\* _check_quota_value looks its usage up without the prefix under which
\* start_execution counts it, and so finds none; quotas of executions at a time
\* are looked at twice, in the count of them and in that usage.
UsageFound(o) == 0

Available(o) ==
  /\ \A limit \in caps[o].concurrent : running[o] < limit /\ UsageFound(o) < limit
  /\ \A limit \in caps[o].monthly : UsageFound(o) < limit

\* check_quota raises at the first quota that is not available.
CheckExecutions ==
  /\ outcome' = IF \A o \in Owners : Available(o) THEN "passed" ELSE "exceeded"
  /\ UNCHANGED <<hour, quota, calls, conceded, caps, running, counted>>

\* start_execution and end_execution, which the scheduler does not call: they
\* check nothing.
StartExecution ==
  /\ \A o \in Owners : running[o] < MaxRunning /\ counted[o] < MaxRunning
  /\ running' = [o \in Owners |-> running[o] + 1]
  /\ counted' = [o \in Owners |-> counted[o] + 1]
  /\ UNCHANGED <<hour, quota, calls, conceded, caps, outcome>>

EndExecution ==
  /\ running' = [o \in Owners |-> IF running[o] > 0 THEN running[o] - 1 ELSE 0]
  /\ UNCHANGED <<hour, quota, calls, conceded, caps, counted, outcome>>

QuotasNext ==
  \/ HourPasses \/ CheckExecutions \/ StartExecution \/ EndExecution
  \/ \E limit \in QuotaLimits, period \in Periods : SetQuota(limit, period)
  \/ \E o \in Owners, type \in {"concurrent", "monthly"}, limit \in CapLimits :
       Configure(o, type, limit)
  \/ \E amount \in 1..MaxAmount : CheckQuota(amount)

--------------------------------------------------------------------------------
ThisPeriod == {h \in Hours : h \div quota.period = hour \div quota.period}

\* PeriodBounded: in one period of the calendar no more is granted than the
\* quota allows, since it was set, in whatever hours of the period it is asked
\* for and whichever quota, of another period, was set before.
PeriodBounded ==
  quota.period # 0 => CallsIn(conceded, ThisPeriod) <= quota.limit
================================================================================
