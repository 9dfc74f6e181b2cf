------------------------------- MODULE ToolCache -------------------------------
(***************************************************************************)
(* src/tools/tool_cache.py as the router uses it: get and set.  A value is *)
(* in Redis, and a copy that lives at most a minute in the process.  The   *)
(* invalidation of keys and tags is never called.  The client of Redis is  *)
(* made without connecting, so it is always there and any command may raise*)
(* while Redis is out of reach.                                            *)
(***************************************************************************)
CONSTANTS Keys,               \* cache keys
          Results,            \* what is cached
          NoResult

VARIABLES redis,              \* the value Redis holds for each key
          local_cache         \* self.local_cache

cache == <<redis, local_cache>>

CacheInit ==
  /\ redis = [k \in Keys |-> NoResult]
  /\ local_cache = [k \in Keys |-> NoResult]

CacheTypeOK ==
  /\ redis \in [Keys -> Results \cup {NoResult}]
  /\ local_cache \in [Keys -> Results \cup {NoResult}]

\* get finds the value in Redis: it is copied.
CopyLocally(k, v) ==
  /\ local_cache' = [local_cache EXCEPT ![k] = v]
  /\ UNCHANGED redis

\* set, at the server and then in the process.
StoreInRedis(k, v) ==
  /\ redis' = [redis EXCEPT ![k] = v]
  /\ UNCHANGED local_cache

\* The time to live of a value is over.
Expires(k) ==
  \/ /\ redis' = [redis EXCEPT ![k] = NoResult]
     /\ UNCHANGED local_cache
  \/ /\ local_cache' = [local_cache EXCEPT ![k] = NoResult]
     /\ UNCHANGED redis
================================================================================
