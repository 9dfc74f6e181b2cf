------------------------------ MODULE TenantManager ------------------------------
(***************************************************************************)
(* src/tenant: the tenants with their schemas, quotas and relationships,   *)
(* and what each of them uses (of one resource), aggregates and is billed. *)
(* No method suspends.  create_tenant never gets past the schema: the key  *)
(* of a tenant is derived from settings, a name its module does not have,  *)
(* so tenants get no key, namespace, network, quotas or configuration.     *)
(***************************************************************************)
EXTENDS Naturals, Sequences, SequencesExt, FiniteSets, FiniteSetsExt

CONSTANTS
  Tenants,
  Amounts,                    \* amounts of the resource that are tracked
  History,                    \* events that are kept (10000 in the code)
  Included,                   \* what the tier of a tenant includes
  MonthLength, EndOfYear,     \* bounds of the calendar, in days
  MaxTracked                  \* bound on the events of a tenant

ASSUME TenantsAssumption ==
  /\ Amounts \subseteq Nat /\ IsFiniteSet(Amounts)
  /\ History \in Nat \ {0} /\ MonthLength \in Nat \ {0}
  /\ Included \in Nat /\ EndOfYear \in Nat /\ MaxTracked \in Nat

VARIABLES date,               \* the day
          tenants,            \* status of each tenant
          schemas,            \* tenants with a schema
          limits,             \* quota of the resource, if quotas are set
          related,            \* relationships
          usage,              \* the events that are kept
          aggregated,         \* amounts by day
          events              \* history: how many events each month has had

tenantVars == <<date, tenants, schemas, limits, related, usage, aggregated, events>>

Dates == 0..EndOfYear

TenantsInit ==
  /\ date = 0
  /\ tenants = [t \in Tenants |-> "none"]
  /\ schemas = {} /\ related = {}
  /\ limits = [t \in Tenants |-> {}]
  /\ usage = [t \in Tenants |-> <<>>]
  /\ aggregated = [t \in Tenants |-> [d \in Dates |-> 0]]
  /\ events = [t \in Tenants |-> [d \in Dates |-> 0]]

TenantsTypeOK ==
  /\ date \in Dates
  /\ tenants \in [Tenants -> {"none", "pending", "active", "suspended", "deleted"}]
  /\ schemas \subseteq Tenants /\ related \subseteq Tenants \X Tenants
  /\ \A t \in Tenants :
       /\ limits[t] \subseteq Amounts /\ Cardinality(limits[t]) <= 1
       /\ usage[t] \in Seq([day: Dates, amount: Amounts]) /\ Len(usage[t]) <= History
  /\ aggregated \in [Tenants -> [Dates -> Nat]]
  /\ events \in [Tenants -> [Dates -> 0..MaxTracked]]

Midnight ==
  /\ date < EndOfYear /\ date' = date + 1
  /\ UNCHANGED <<tenants, schemas, limits, related, usage, aggregated, events>>

\* create_tenant stores the tenant and its schema, and raises.
CreateTenant(t) ==
  /\ tenants[t] = "none"
  /\ tenants' = [tenants EXCEPT ![t] = "pending"]
  /\ schemas' = schemas \cup {t}
  /\ UNCHANGED <<date, limits, related, usage, aggregated, events>>

\* activate_tenant and suspend_tenant take any tenant, a deleted one too.
SetsTenant(t, status) ==
  /\ tenants[t] # "none"
  /\ tenants' = [tenants EXCEPT ![t] = status]
  /\ UNCHANGED <<date, limits, related, usage, aggregated, events>>

ActivateTenant(t) == SetsTenant(t, "active") /\ UNCHANGED schemas
SuspendTenant(t) == SetsTenant(t, "suspended") /\ UNCHANGED schemas

\* delete_tenant keeps the record, the quotas and the usage.
DeleteTenant(t) == SetsTenant(t, "deleted") /\ schemas' = schemas \ {t}

SetTenantQuotas(t, limit) ==
  /\ limits' = [limits EXCEPT ![t] = {limit}]
  /\ UNCHANGED <<date, tenants, schemas, related, usage, aggregated, events>>

CreateRelationship(t, u) ==
  /\ related' = related \cup {<<t, u>>}
  /\ UNCHANGED <<date, tenants, schemas, limits, usage, aggregated, events>>

\* A mutant of Kept: the oldest events are kept instead of the latest.
KeptOldest(past) == IF Len(past) > History THEN SubSeq(past, 1, History) ELSE past

\* A mutant of Kept: the list is cut one event too late.
KeptOneMore(past) == IF Len(past) > History + 1
                       THEN SubSeq(past, Len(past) - History, Len(past)) ELSE past

\* The history that is kept of a log: its last events.
Kept(past) == IF Len(past) > History
                THEN SubSeq(past, Len(past) - History + 1, Len(past)) ELSE past

Tracked(t) == MapThenSumSet(LAMBDA d : events[t][d], Dates)

TrackUsage(t, amount) ==
  /\ Tracked(t) < MaxTracked
  /\ usage' = [usage EXCEPT ![t] = Kept(Append(@, [day |-> date, amount |-> amount]))]
  /\ aggregated' = [aggregated EXCEPT ![t][date] = @ + amount]
  /\ events' = [events EXCEPT ![t][date] = @ + 1]
  /\ UNCHANGED <<date, tenants, schemas, limits, related>>

TenantsNext ==
  \/ Midnight
  \/ \E t \in Tenants :
       \/ CreateTenant(t) \/ ActivateTenant(t) \/ SuspendTenant(t) \/ DeleteTenant(t)
       \/ \E amount \in Amounts : SetTenantQuotas(t, amount) \/ TrackUsage(t, amount)
       \/ \E u \in Tenants : CreateRelationship(t, u)

--------------------------------------------------------------------------------
\* get_tenant_usage from a day on.
UsageSince(t, first) ==
  MapThenSumSet(LAMBDA i : usage[t][i].amount,
                {i \in DOMAIN usage[t] : usage[t][i].day >= first})

MonthBegins == (date \div MonthLength) * MonthLength

\* calculate_invoice: what goes beyond the tier's amount in this month.
Overage(t) ==
  LET used == UsageSince(t, MonthBegins)
  IN  IF used > Included THEN used - Included ELSE 0

OfThisMonth(count) == MapThenSumSet(LAMBDA d : count[d], MonthBegins..date)

\* BilledUnlessTrimmed: the invoice of a month counts from the list of events,
\* the statistics from the sums by day.  The two agree, whatever was dropped of
\* earlier months, as long as the month itself has no more events than the list
\* keeps; and then nobody is billed more than was counted.
BilledUnlessTrimmed ==
  \A t \in Tenants :
    LET used == OfThisMonth(aggregated[t])
        over == IF used > Included THEN used - Included ELSE 0
    IN  /\ Overage(t) <= over
        /\ OfThisMonth(events[t]) <= History => Overage(t) = over
================================================================================
