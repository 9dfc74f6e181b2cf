----------------------------- MODULE APIKeyManager -----------------------------
(***************************************************************************)
(* src/gateway/developer_portal/api_key_manager.py: the keys of a tenant.  *)
(* No method suspends.  Keys are numbered as they are generated; a key     *)
(* carries the key it descends from by rotation.  Two requests never fall  *)
(* on one unit of the clock.  Permissions, names and the usage history are *)
(* data.                                                                   *)
(***************************************************************************)
EXTENDS Naturals, FiniteSets

CONSTANTS
  MaxKeys,                    \* bound on the keys that are generated
  RateLimit,                  \* requests of a key in a period
  KeyPeriod,
  Calendar                    \* bound on the clock

ASSUME KeysAssumption ==
  /\ MaxKeys \in Nat /\ RateLimit \in Nat
  /\ KeyPeriod \in Nat \ {0} /\ Calendar \in Nat \ {0}

VARIABLES day,                \* the clock
          keys,               \* api_keys, by the order of their generation
          spare               \* history: rotations of keys that were inactive

keyVars == <<day, keys, spare>>

KeyIds == 1..MaxKeys
NoKey == [active |-> FALSE, family |-> 0, expires |-> 0, requests |-> {}]
Generated == {k \in KeyIds : keys[k] # NoKey}

KeysInit ==
  /\ day = 1
  /\ keys = [k \in KeyIds |-> NoKey]
  /\ spare = [f \in KeyIds |-> 0]

KeysTypeOK ==
  /\ day \in 1..Calendar
  /\ keys \in [KeyIds -> [active: BOOLEAN, family: 0..MaxKeys,
                          expires: 0..Calendar + 1, requests: SUBSET (1..Calendar)]]
  /\ spare \in [KeyIds -> 0..MaxKeys]

DayPasses == day < Calendar /\ day' = day + 1 /\ UNCHANGED <<keys, spare>>

NewKey(family, expires) ==
  [active |-> TRUE, family |-> family, expires |-> expires, requests |-> {}]

\* generate_key.
GenerateKey(expires) ==
  /\ Cardinality(Generated) < MaxKeys
  /\ LET k == Cardinality(Generated) + 1
     IN  keys' = [keys EXCEPT ![k] = NewKey(k, expires)]
  /\ UNCHANGED <<day, spare>>

\* validate_key: the key is the tenant's, active and not expired.
ValidateKey(k) == keys[k].active /\ day <= keys[k].expires

\* check_rate_limit, which the gateway asks for a valid key; a request that
\* is refused is not counted.
CheckRateLimit(k) ==
  LET recent == {t \in keys[k].requests : t > day - KeyPeriod}
  IN  /\ ValidateKey(k)
      /\ Cardinality(recent) < RateLimit
      /\ day \notin recent
      /\ keys' = [keys EXCEPT ![k].requests = recent \cup {day}]
      /\ UNCHANGED <<day, spare>>

\* revoke_key.
RevokeKey(k) ==
  /\ k \in Generated
  /\ keys' = [keys EXCEPT ![k].active = FALSE]
  /\ UNCHANGED <<day, spare>>

\* A mutant of RotateKey: the old key stays active.
RotateKeepsOld(k) ==
  /\ k \in Generated /\ Cardinality(Generated) < MaxKeys
  /\ keys' = [keys EXCEPT
       ![Cardinality(Generated) + 1] = NewKey(keys[k].family, Calendar + 1)]
  /\ spare' = [spare EXCEPT ![keys[k].family] = IF keys[k].active THEN @ ELSE @ + 1]
  /\ UNCHANGED day

\* rotate_key finds the key whether it is active, revoked or expired; the new
\* key has the default lifetime and a window of requests of its own.
RotateKey(k) ==
  /\ k \in Generated /\ Cardinality(Generated) < MaxKeys
  /\ keys' = [keys EXCEPT
       ![Cardinality(Generated) + 1] = NewKey(keys[k].family, Calendar + 1),
       ![k].active = FALSE]
  /\ spare' = [spare EXCEPT ![keys[k].family] = IF keys[k].active THEN @ ELSE @ + 1]
  /\ UNCHANGED day

KeysNext ==
  \/ DayPasses
  \/ \E expires \in 1..Calendar : GenerateKey(expires)
  \/ \E k \in KeyIds : CheckRateLimit(k) \/ RevokeKey(k) \/ RotateKey(k)

--------------------------------------------------------------------------------
ActiveIn(f) == {k \in Generated : keys[k].family = f /\ keys[k].active}

\* OneActivePerFamily: of the keys that descend from one key by rotation at
\* most one is active, whatever is revoked, expires and is rotated in which
\* order, but for each rotation of a key that was inactive already: that one
\* hands out an active key without taking one back.
OneActivePerFamily ==
  \A f \in KeyIds : Cardinality(ActiveIn(f)) <= 1 + spare[f]
================================================================================
