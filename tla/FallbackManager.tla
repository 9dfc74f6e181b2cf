---------------------------- MODULE FallbackManager ----------------------------
(***************************************************************************)
(* src/recovery/fallback_manager.py: the fallback handlers registered for  *)
(* one function, in the order get_fallback tries them.  get_fallback       *)
(* iterates over the live list and suspends in every coroutine handler, so *)
(* register_fallback may insert and re-sort while a search is under way.   *)
(* The counters of successes and failures are left out.                    *)
(***************************************************************************)
EXTENDS Naturals, Sequences, FiniteSets

CONSTANTS Handlers,          \* the fallback handlers that may be registered
          Priority           \* the priority each is registered with

ASSUME PriorityAssumption == Priority \in [Handlers -> Nat]

VARIABLE fallbacks           \* self.fallbacks[func_name], sorted by priority

FallbackInit == fallbacks = <<>>

FallbackTypeOK == fallbacks \in Seq(Handlers)

\* Handlers at the positions ps of the list.
HandlersAt(ps) == {fallbacks[p] : p \in ps}

Registered == HandlersAt(DOMAIN fallbacks)

\* append, then a stable sort by ascending priority: the new handler goes
\* behind those whose priority number is not greater than its own.
WithHandler(h) ==
  LET k == Cardinality({p \in DOMAIN fallbacks : Priority[fallbacks[p]] <= Priority[h]})
  IN  SubSeq(fallbacks, 1, k) \o <<h>> \o SubSeq(fallbacks, k + 1, Len(fallbacks))

\* register_fallback; each handler is registered once.
RegisterFallback(h) ==
  /\ h \notin Registered
  /\ fallbacks' = WithHandler(h)
================================================================================
