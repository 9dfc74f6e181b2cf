------------------------------ MODULE StateManager -----------------------------
(***************************************************************************)
(* src/orchestrator/state_manager.py: one key of the state kept in Redis,  *)
(* behind a cache that is written first and never refreshed, with the      *)
(* snapshots of that key.  A value is named by the call that set it.       *)
(* Without a version a value is stored as version 1, and nothing stores a  *)
(* higher one: the transaction of a versioned update raises.  Redis may    *)
(* raise in place of every answer, and a listener may raise, which its     *)
(* handler turns into a NameError of its own: no logger is imported.       *)
(***************************************************************************)
EXTENDS FiniteSets

CONSTANTS Clients,            \* calls of the state manager
          NoValue

ASSUME NoValueAssumption == NoValue \notin Clients

VARIABLES stored,             \* the value of the key in Redis
          cached,             \* cache[key]
          snapshot,           \* the value in the last snapshot
          watched,            \* watch_state has been called
          call,               \* the operation, its value and its state
          notified,           \* history: values listeners were told
          storedOnce          \* history: values Redis has held

stateVars == <<stored, cached, snapshot, watched, call, notified, storedOnce>>

Values == Clients \cup {NoValue}
Idle == [op |-> "none", pc |-> "idle", value |-> NoValue, matches |-> FALSE]

StateInit ==
  /\ stored = NoValue
  /\ cached = NoValue
  /\ snapshot = NoValue
  /\ watched = FALSE
  /\ call = [c \in Clients |-> Idle]
  /\ notified = {}
  /\ storedOnce = {}

StateTypeOK ==
  /\ stored \in Values /\ cached \in Values /\ snapshot \in Values
  /\ watched \in BOOLEAN
  /\ call \in [Clients ->
       [op: {"none", "set", "update", "get", "delete", "snapshot", "restore"},
        pc: {"idle", "set", "watch", "notify", "keys", "get", "got", "delete",
             "true", "false", "raised"},
        value: Values, matches: BOOLEAN]]
  /\ notified \subseteq Clients /\ storedOnce \subseteq Clients

To(c, pc) == call' = [call EXCEPT ![c].pc = pc]
Others == <<watched, notified, storedOnce>>

\* watch_state.
WatchState == watched' = TRUE /\ UNCHANGED <<stored, cached, snapshot, call, notified, storedOnce>>

\* set_state writes the cache before it asks Redis; with a version it watches
\* the key, and matches says whether version 1 is expected.
Sets(c, op, value, next, matches) ==
  /\ cached' = value
  /\ call' = [call EXCEPT ![c] = [op |-> op, pc |-> next, value |-> value,
                                  matches |-> matches]]
  /\ UNCHANGED <<stored, snapshot, Others>>

SetState(c) ==
  /\ call[c].pc = "idle"
  /\ \/ Sets(c, "set", c, "set", FALSE)
     \/ \E matches \in BOOLEAN : Sets(c, "update", c, "watch", matches)

\* A set or a deletion may be applied and its answer lost.
RedisStores(c) ==
  /\ call[c].pc = "set"
  /\ stored' = call[c].value
  /\ storedOnce' = storedOnce \cup {call[c].value}
  /\ \E pc \in {"notify", "raised"} : To(c, pc)
  /\ UNCHANGED <<cached, snapshot, watched, notified>>

\* A mutant of VersionCheck: the value is sent before the version is compared.
VersionCheckLate(c) ==
  /\ call[c].pc = "watch"
  /\ stored' = call[c].value
  /\ storedOnce' = storedOnce \cup {call[c].value}
  /\ To(c, IF stored # NoValue /\ ~call[c].matches THEN "false" ELSE "raised")
  /\ UNCHANGED <<cached, snapshot, watched, notified>>

\* The version check: a mismatch returns False, a match raises, because
\* pipe.multi() cannot be awaited.  The cache keeps the value either way.
VersionCheck(c) ==
  /\ call[c].pc = "watch"
  /\ To(c, IF stored # NoValue /\ ~call[c].matches THEN "false" ELSE "raised")
  /\ UNCHANGED <<stored, cached, snapshot, Others>>

\* _notify_listeners; one that raises ends the call after Redis has stored.
NotifyListeners(c) ==
  /\ call[c].pc = "notify"
  /\ notified' = IF watched THEN notified \cup {call[c].value} ELSE notified
  /\ \/ To(c, "true")
     \/ watched /\ To(c, "raised")
  /\ UNCHANGED <<stored, cached, snapshot, watched, storedOnce>>

\* get_state: the cache, or Redis; create_snapshot reads its keys through it.
Begins(c, op, pc) ==
  /\ call[c].pc = "idle"
  /\ call' = [call EXCEPT ![c].op = op, ![c].pc = pc]
  /\ UNCHANGED <<stored, cached, snapshot, Others>>

GetState(c) == Begins(c, "get", "get")

\* create_snapshot ends with a set of its own; if that raises, nobody has the
\* name of the snapshot.
Finishes(c, value) ==
  \/ /\ To(c, "true")
     /\ snapshot' = IF call[c].op = "snapshot" THEN value ELSE snapshot
  \/ /\ call[c].op = "snapshot"
     /\ To(c, "raised")
     /\ UNCHANGED snapshot

CacheAnswers(c) ==
  /\ call[c].pc = "get" /\ cached # NoValue
  /\ Finishes(c, cached)
  /\ UNCHANGED <<stored, cached, Others>>

RedisReads(c) ==
  /\ call[c].pc = "get" /\ cached = NoValue
  /\ call' = [call EXCEPT ![c].pc = "got", ![c].value = stored]
  /\ UNCHANGED <<stored, cached, snapshot, Others>>

\* The answer of Redis is cached when it arrives, over what is there by then.
Caches(c) ==
  /\ call[c].pc = "got"
  /\ cached' = IF call[c].value = NoValue THEN cached ELSE call[c].value
  /\ Finishes(c, call[c].value)
  /\ UNCHANGED <<stored, Others>>

\* delete_state.
DeleteState(c) ==
  /\ call[c].pc = "idle"
  /\ cached' = NoValue
  /\ call' = [call EXCEPT ![c].op = "delete", ![c].pc = "delete"]
  /\ UNCHANGED <<stored, snapshot, Others>>

RedisDeletes(c) ==
  /\ call[c].pc = "delete"
  /\ stored' = NoValue
  /\ \E pc \in {"true", "raised"} : To(c, pc)
  /\ UNCHANGED <<cached, snapshot, Others>>

\* create_snapshot asks Redis for the keys and get_state for their values, so
\* it takes what is cached.
CreateSnapshot(c) == Begins(c, "snapshot", "keys")

RedisListsKeys(c) ==
  /\ call[c].pc = "keys"
  /\ IF stored = NoValue THEN Finishes(c, NoValue)
     ELSE To(c, "get") /\ UNCHANGED snapshot
  /\ UNCHANGED <<stored, cached, Others>>

\* Redis raises without having done what it was asked.
RedisRaises(c) ==
  /\ \/ call[c].pc \in {"set", "watch", "keys", "delete"}
     \/ call[c].pc = "get" /\ cached = NoValue
  /\ To(c, "raised")
  /\ UNCHANGED <<stored, cached, snapshot, Others>>

\* restore_snapshot sets what the snapshot has, without a version.
RestoreSnapshot(c) ==
  /\ call[c].pc = "idle" /\ snapshot # NoValue
  /\ Sets(c, "restore", snapshot, "set", FALSE)

StateNext ==
  \/ WatchState
  \/ \E c \in Clients :
       \/ SetState(c) \/ RedisStores(c) \/ VersionCheck(c) \/ NotifyListeners(c)
       \/ GetState(c) \/ CacheAnswers(c) \/ RedisReads(c) \/ Caches(c)
       \/ DeleteState(c) \/ RedisDeletes(c)
       \/ CreateSnapshot(c) \/ RedisListsKeys(c) \/ RestoreSnapshot(c)
       \/ RedisRaises(c)

--------------------------------------------------------------------------------
\* RefusedStaysOut: an update with a version that is refused or raises reaches
\* neither Redis nor a listener by itself.  It does stay in the cache, so the one
\* way out is a snapshot, which takes cached values, and its restoration.  And a
\* value that get_state answers from the cache and Redis never held comes from a
\* call that has not returned True.
RefusedStaysOut ==
  /\ \A c \in Clients :
       /\ call[c].op = "update" /\ call[c].pc \in {"false", "raised"}
       /\ c \in notified \cup storedOnce
       => \E d \in Clients : call[d].op = "restore" /\ call[d].value = c
  /\ cached \in Clients \ storedOnce => call[cached].pc # "true"
================================================================================
