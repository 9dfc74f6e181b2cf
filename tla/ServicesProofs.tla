----------------------------- MODULE ServicesProofs ----------------------------
(***************************************************************************)
(* Theorems about the components of Services, for every value of their     *)
(* constants.  A step of Services is a step of one component and leaves the*)
(* others as they are, so each theorem is about the component's own        *)
(* specification first and then about that of Services.                    *)
(***************************************************************************)
EXTENDS Services, SequenceLemmas

--------------------------------------------------------------------------------
(***************************************************************************)
(* APIKeyManager.                                                          *)
(***************************************************************************)
KeysSpec == KeysInit /\ [][KeysNext]_keyVars

KeyRecords == [active: BOOLEAN, family: 0..MaxKeys, expires: Nat, requests: SUBSET Nat]

\* The first n numbers are taken, and each key has the family of one of them.
NumberedTo(n) ==
  /\ Generated = 1..n
  /\ \A k \in 1..n : keys[k].family \in 1..n

\* The keys are numbered without gaps, so a new family has no key before the
\* one that founds it; of each family one more is active at most than
\* rotations were spare.
KeysInv ==
  /\ day \in Nat
  /\ keys \in [KeyIds -> KeyRecords]
  /\ spare \in [KeyIds -> Nat]
  /\ \E n \in 0..MaxKeys : NumberedTo(n)
  /\ OneActivePerFamily

\* The active keys of a family are finitely many, so they can be counted.
LEMMA ActiveIsFinite ==
  ASSUME KeysAssumption, NEW f
  PROVE  IsFiniteSet(ActiveIn(f)) /\ Cardinality(ActiveIn(f)) \in Nat
<1>1. IsFiniteSet(KeyIds)
  BY FS_Interval DEF KeyIds, KeysAssumption
<1>2. ActiveIn(f) \subseteq KeyIds
  BY DEF ActiveIn, Generated
<1> QED BY <1>1, <1>2, FS_Subset, FS_CardinalityType

\* The number that generate_key and rotate_key take is one no key has.
LEMMA NextKeyIsFree ==
  ASSUME KeysAssumption, KeysInv, Cardinality(Generated) < MaxKeys
  PROVE  \E n \in 0..MaxKeys - 1 : /\ NumberedTo(n)
                                   /\ Cardinality(Generated) + 1 = n + 1
                                   /\ n + 1 \in KeyIds
                                   /\ n + 1 \notin Generated
<1>1. PICK n \in 0..MaxKeys : NumberedTo(n)
  BY DEF KeysInv
<1>2. Cardinality(1..n) = n
  BY FS_Interval DEF KeysAssumption
<1>3. Cardinality(Generated) = n
  BY <1>1, <1>2 DEF NumberedTo
<1>4. n \in 0..MaxKeys - 1 /\ n + 1 \in KeyIds /\ n + 1 \notin 1..n
  BY <1>3 DEF KeyIds, KeysAssumption
<1> QED BY <1>1, <1>3, <1>4 DEF NumberedTo

\* A step that makes one key more, of a family f, leaves the numbering
\* without gaps; generate_key and rotate_key are such steps.
LEMMA OneKeyMore ==
  ASSUME KeysAssumption, keys \in [KeyIds -> KeyRecords], keys' \in [KeyIds -> KeyRecords],
         NEW n \in 0..MaxKeys - 1, NumberedTo(n),
         keys'[n + 1].active, keys'[n + 1].family \in 1..n + 1,
         \A k \in KeyIds \ {n + 1} : keys'[k].family = keys[k].family,
         \A k \in KeyIds \ (1..n + 1) : keys'[k] = keys[k]
  PROVE  NumberedTo(n + 1)'
<1>1. ASSUME NEW k \in KeyIds
      PROVE  keys'[k] # NoKey <=> k \in 1..n + 1
  <2>1. CASE k = n + 1
    BY <2>1 DEF NoKey, KeysAssumption
  <2>2. CASE k \in 1..n
    <3>1. keys'[k].family \in 1..n
      BY <2>2, <1>1 DEF NumberedTo, KeyIds, KeysAssumption
    <3>2. NoKey.family \notin 1..n
      BY DEF NoKey, KeysAssumption
    <3> QED BY <3>1, <3>2, <2>2 DEF KeysAssumption
  <2>3. CASE k \notin 1..n + 1
    <3>1. k \notin Generated
      BY <2>3 DEF NumberedTo, KeysAssumption
    <3> QED BY <3>1, <2>3 DEF Generated
  <2> QED BY <2>1, <2>2, <2>3 DEF KeyIds, KeysAssumption
<1>2. 1..n + 1 \subseteq KeyIds
  BY DEF KeyIds, KeysAssumption
<1>3. Generated' = 1..n + 1
  BY <1>1, <1>2 DEF Generated, KeyIds
<1>4. ASSUME NEW k \in 1..n + 1
      PROVE  keys'[k].family \in 1..n + 1
  <2>1. CASE k = n + 1
    BY <2>1
  <2>2. CASE k \in 1..n
    BY <2>2, <1>2 DEF NumberedTo, KeysAssumption
  <2> QED BY <2>1, <2>2 DEF KeysAssumption
<1> QED BY <1>3, <1>4 DEF NumberedTo

\* A key that is not generated is not active: the families can be counted
\* among all numbers.
LEMMA ActiveAmongAll ==
  ASSUME NEW f
  PROVE  /\ ActiveIn(f) = {k \in KeyIds : keys[k].family = f /\ keys[k].active}
         /\ ActiveIn(f)' = {k \in KeyIds : keys'[k].family = f /\ keys'[k].active}
  BY DEF ActiveIn, Generated, NoKey, KeyIds

\* A step that leaves the families of the keys, generates none and activates
\* none keeps the invariant; check_rate_limit and revoke_key are such steps.
LEMMA NoKeyMore ==
  ASSUME KeysAssumption, KeysInv, keys' \in [KeyIds -> KeyRecords], day' \in Nat,
         spare' = spare,
         \A k \in KeyIds : keys'[k].family = keys[k].family,
         \A k \in KeyIds : keys'[k].active => keys[k].active,
         \A k \in KeyIds \ Generated : keys'[k] = keys[k]
  PROVE  KeysInv'
<1>1. PICK n \in 0..MaxKeys : NumberedTo(n)
  BY DEF KeysInv
<1>2. ASSUME NEW k \in KeyIds
      PROVE  keys'[k] # NoKey <=> k \in Generated
  <2>1. CASE k \in Generated
    <3>1. keys'[k].family \in 1..n
      BY <1>1, <2>1 DEF NumberedTo
    <3>2. NoKey.family \notin 1..n
      BY DEF NoKey, KeysAssumption
    <3> QED BY <3>1, <3>2, <2>1
  <2>2. CASE k \notin Generated
    BY <2>2 DEF Generated
  <2> QED BY <2>1, <2>2
<1>3. Generated' = Generated
  BY <1>2 DEF Generated, KeyIds
<1>4. NumberedTo(n)'
  <2>1. 1..n \subseteq KeyIds
    BY DEF KeyIds, KeysAssumption
  <2> QED BY <1>1, <1>3, <2>1 DEF NumberedTo
<1>5. ASSUME NEW f \in KeyIds
      PROVE  Cardinality(ActiveIn(f)') <= 1 + spare'[f]
  <2>1. ActiveIn(f)' \subseteq ActiveIn(f)
    BY ActiveAmongAll
  <2>2. IsFiniteSet(ActiveIn(f)) /\ Cardinality(ActiveIn(f)) \in Nat
    BY ActiveIsFinite
  <2>3. Cardinality(ActiveIn(f)') \in Nat /\ Cardinality(ActiveIn(f)') <= Cardinality(ActiveIn(f))
    BY <2>1, <2>2, FS_Subset, FS_CardinalityType
  <2>4. Cardinality(ActiveIn(f)) <= 1 + spare[f] /\ spare[f] \in Nat
    BY DEF KeysInv, OneActivePerFamily
  <2> QED BY <2>2, <2>3, <2>4
<1> QED BY <1>4, <1>5 DEF KeysInv, OneActivePerFamily

\* A new family has its founder alone.
LEMMA GenerateKeyKeeps ==
  ASSUME KeysAssumption, KeysInv, NEW expires \in 1..Calendar, GenerateKey(expires)
  PROVE  KeysInv'
<1>1. PICK n \in 0..MaxKeys - 1 :
        /\ NumberedTo(n)
        /\ Cardinality(Generated) + 1 = n + 1
        /\ n + 1 \in KeyIds
        /\ n + 1 \notin Generated
  BY NextKeyIsFree DEF GenerateKey
<1> DEFINE new == NewKey(n + 1, expires)
<1>2. new \in KeyRecords /\ new.active /\ new.family = n + 1
  BY <1>1 DEF NewKey, KeyRecords, KeyIds, KeysAssumption
<1>3. keys' = [keys EXCEPT ![n + 1] = new] /\ keys \in [KeyIds -> KeyRecords]
  BY <1>1 DEF GenerateKey, KeysInv
<1> HIDE DEF new
<1>4. /\ keys' \in [KeyIds -> KeyRecords]
      /\ keys'[n + 1] = new
      /\ \A k \in KeyIds \ {n + 1} : keys'[k] = keys[k]
  BY <1>1, <1>2, <1>3
<1>5. NumberedTo(n + 1)'
  <2>1. \A k \in KeyIds \ (1..n + 1) : keys'[k] = keys[k]
    BY <1>4 DEF KeysAssumption
  <2> QED BY <1>1, <1>2, <1>3, <1>4, <2>1, OneKeyMore DEF KeysAssumption
<1>6. ASSUME NEW f \in KeyIds
      PROVE  Cardinality(ActiveIn(f)') <= 1 + spare'[f]
  <2>1. spare[f] \in Nat /\ spare' = spare /\ Cardinality(ActiveIn(f)) <= 1 + spare[f]
    BY DEF KeysInv, GenerateKey, OneActivePerFamily
  <2>2. CASE f = n + 1
    <3>1. ActiveIn(f) = {}
      BY <1>1, <2>2 DEF ActiveIn, NumberedTo, KeysAssumption
    <3>2. ASSUME NEW j \in KeyIds
          PROVE  j \in ActiveIn(f)' <=> j = n + 1
      <4>1. CASE j = n + 1
        BY <4>1, <2>2, <1>2, <1>4, ActiveAmongAll
      <4>2. CASE j # n + 1
        BY <4>2, <3>1, <1>4, ActiveAmongAll
      <4> QED BY <4>1, <4>2
    <3>3. ActiveIn(f)' = {n + 1}
      BY <3>2, <1>1, ActiveAmongAll
    <3>4. Cardinality({n + 1}) = 1
      BY FS_Singleton
    <3> QED BY <3>3, <3>4, <2>1
  <2>3. CASE f # n + 1
    <3>1. n + 1 \notin ActiveIn(f)
      BY <1>1 DEF ActiveIn
    <3>2. ASSUME NEW j \in KeyIds
          PROVE  j \in ActiveIn(f)' <=> j \in ActiveIn(f)
      <4>1. CASE j = n + 1
        BY <4>1, <3>1, <2>3, <1>2, <1>4, ActiveAmongAll
      <4>2. CASE j # n + 1
        BY <4>2, <1>4, ActiveAmongAll
      <4> QED BY <4>1, <4>2
    <3>3. ActiveIn(f)' = ActiveIn(f)
      BY <3>2, ActiveAmongAll, ZenonT(60)
    <3> QED BY <3>3, <2>1
  <2> QED BY <2>2, <2>3
<1>7. (n + 1) \in 0..MaxKeys
  BY DEF KeysAssumption
<1> QED BY <1>4, <1>5, <1>6, <1>7 DEF KeysInv, OneActivePerFamily, GenerateKey

\* A rotated key is replaced in its family when it was active; the new key is
\* one more when it was not, and the rotation is counted as spare.
LEMMA RotateKeyKeeps ==
  ASSUME KeysAssumption, KeysInv, NEW k \in KeyIds, RotateKey(k)
  PROVE  KeysInv'
<1>1. PICK n \in 0..MaxKeys - 1 :
        /\ NumberedTo(n)
        /\ Cardinality(Generated) + 1 = n + 1
        /\ n + 1 \in KeyIds
        /\ n + 1 \notin Generated
  BY NextKeyIsFree DEF RotateKey
<1> DEFINE family == keys[k].family
           new == NewKey(family, Calendar + 1)
           old == [keys[k] EXCEPT !.active = FALSE]
<1>2. family \in 1..n /\ family \in KeyIds /\ k # n + 1 /\ k \in 1..n
  BY <1>1 DEF RotateKey, NumberedTo, KeyIds, KeysAssumption
<1>3. keys \in [KeyIds -> KeyRecords] /\ keys[k] \in KeyRecords
  BY DEF KeysInv
<1>4. new \in KeyRecords /\ new.active /\ new.family = family
  BY <1>2 DEF NewKey, KeyRecords, KeyIds, KeysAssumption
<1>5. old \in KeyRecords /\ ~old.active /\ old.family = family
  BY <1>3 DEF KeyRecords
<1>6. keys' = [keys EXCEPT ![n + 1] = new, ![k] = old]
  BY <1>1, <1>2, <1>3 DEF RotateKey
<1>7. spare' = [spare EXCEPT ![family] = IF keys[k].active THEN @ ELSE @ + 1]
  BY DEF RotateKey
<1>8. keys[k].family = family
  OBVIOUS
<1> HIDE DEF new, old, family
<1>9. /\ keys' \in [KeyIds -> KeyRecords]
      /\ keys'[n + 1] = new
      /\ keys'[k] = old
      /\ \A j \in KeyIds \ {n + 1, k} : keys'[j] = keys[j]
  BY <1>1, <1>2, <1>3, <1>4, <1>5, <1>6
<1>10. NumberedTo(n + 1)'
  <2>1. \A j \in KeyIds \ {n + 1} : keys'[j].family = keys[j].family
    BY <1>5, <1>8, <1>9
  <2>2. \A j \in KeyIds \ (1..n + 1) : keys'[j] = keys[j]
    BY <1>2, <1>9 DEF KeysAssumption
  <2>3. keys'[n + 1].active /\ keys'[n + 1].family \in 1..n + 1
    BY <1>2, <1>4, <1>9 DEF KeysAssumption
  <2> QED BY <1>1, <1>3, <1>9, <2>1, <2>2, <2>3, OneKeyMore
<1>11. spare \in [KeyIds -> Nat]
  BY DEF KeysInv
<1>12. spare' \in [KeyIds -> Nat]
  BY <1>2, <1>7, <1>11
<1>13. ASSUME NEW f \in KeyIds
       PROVE  Cardinality(ActiveIn(f)') <= 1 + spare'[f]
  <2>1. /\ spare[f] \in Nat
        /\ Cardinality(ActiveIn(f)) <= 1 + spare[f]
        /\ IsFiniteSet(ActiveIn(f)) /\ Cardinality(ActiveIn(f)) \in Nat
    BY ActiveIsFinite DEF KeysInv, OneActivePerFamily
  <2>2. n + 1 \notin ActiveIn(f)
    BY <1>1 DEF ActiveIn
  <2>3. CASE f # family
    <3>1. ASSUME NEW j \in KeyIds
          PROVE  j \in ActiveIn(f)' <=> j \in ActiveIn(f)
      <4>1. CASE j = n + 1
        BY <4>1, <1>4, <1>9, <2>2, <2>3, ActiveAmongAll
      <4>2. CASE j = k
        BY <4>2, <1>5, <1>8, <1>9, <2>3, ActiveAmongAll
      <4>3. CASE j \notin {n + 1, k}
        BY <4>3, <1>9, ActiveAmongAll
      <4> QED BY <4>1, <4>2, <4>3
    <3>2. ActiveIn(f)' = ActiveIn(f)
      <4>1. ActiveIn(f) \subseteq KeyIds /\ ActiveIn(f)' \subseteq KeyIds
        BY ActiveAmongAll
      <4> QED BY <3>1, <4>1
    <3>3. spare'[f] = spare[f]
      BY <1>2, <1>7, <1>11, <2>3
    <3> QED BY <3>2, <3>3, <2>1
  <2>4. CASE f = family /\ keys[k].active
    <3>1. k \in ActiveIn(f)
      BY <1>8, <2>4, ActiveAmongAll
    <3>2. ActiveIn(f)' = (ActiveIn(f) \ {k}) \cup {n + 1}
      BY <1>1, <1>4, <1>5, <1>9, <2>2, <2>4, ActiveAmongAll
    <3>3. /\ IsFiniteSet(ActiveIn(f) \ {k})
          /\ Cardinality(ActiveIn(f) \ {k}) = Cardinality(ActiveIn(f)) - 1
      BY <3>1, <2>1, FS_RemoveElement
    <3>4. n + 1 \notin ActiveIn(f) \ {k}
      BY <2>2
    <3>5. Cardinality(ActiveIn(f)') = Cardinality(ActiveIn(f) \ {k}) + 1
      BY <3>2, <3>3, <3>4, FS_AddElement
    <3>6. spare'[f] = spare[f]
      BY <1>2, <1>7, <1>11, <2>4
    <3> QED BY <3>3, <3>5, <3>6, <2>1
  <2>5. CASE f = family /\ ~keys[k].active
    <3>1. ActiveIn(f)' = ActiveIn(f) \cup {n + 1}
      BY <1>1, <1>4, <1>5, <1>9, <2>2, <2>5, ActiveAmongAll
    <3>2. Cardinality(ActiveIn(f)') = Cardinality(ActiveIn(f)) + 1
      BY <3>1, <2>1, <2>2, FS_AddElement
    <3>3. spare'[f] = spare[f] + 1
      BY <1>2, <1>7, <1>11, <2>5
    <3> QED BY <3>2, <3>3, <2>1
  <2> QED BY <2>3, <2>4, <2>5
<1>14. (n + 1) \in 0..MaxKeys /\ day' \in Nat
  BY DEF KeysAssumption, RotateKey, KeysInv
<1> QED BY <1>9, <1>10, <1>12, <1>13, <1>14 DEF KeysInv, OneActivePerFamily

\* A request changes the window of an active key, which is a generated one.
LEMMA CheckRateLimitKeeps ==
  ASSUME KeysAssumption, KeysInv, NEW k \in KeyIds, CheckRateLimit(k)
  PROVE  KeysInv'
<1> DEFINE kept == {t \in keys[k].requests : t > day - KeyPeriod} \cup {day}
           served == [keys[k] EXCEPT !.requests = kept]
<1>1. keys \in [KeyIds -> KeyRecords] /\ keys[k] \in KeyRecords /\ day \in Nat
  BY DEF KeysInv
<1>2. kept \in SUBSET Nat
  BY <1>1 DEF KeyRecords
<1>3. keys' = [keys EXCEPT ![k] = served] /\ day' = day /\ spare' = spare
  BY <1>1 DEF CheckRateLimit
<1> HIDE DEF kept
<1>4. /\ served \in KeyRecords
      /\ served.family = keys[k].family
      /\ served.active = keys[k].active
  BY <1>1, <1>2 DEF KeyRecords
<1>5. k \in Generated
  BY DEF CheckRateLimit, ValidateKey, Generated, NoKey
<1> HIDE DEF served
<1>6. /\ keys' \in [KeyIds -> KeyRecords]
      /\ keys'[k] = served
      /\ \A j \in KeyIds \ {k} : keys'[j] = keys[j]
  BY <1>1, <1>3, <1>4
<1> QED BY <1>1, <1>3, <1>4, <1>5, <1>6, NoKeyMore

\* A key that is revoked stays in its family.
LEMMA RevokeKeyKeeps ==
  ASSUME KeysAssumption, KeysInv, NEW k \in KeyIds, RevokeKey(k)
  PROVE  KeysInv'
<1> DEFINE revoked == [keys[k] EXCEPT !.active = FALSE]
<1>1. keys \in [KeyIds -> KeyRecords] /\ keys[k] \in KeyRecords /\ day \in Nat
  BY DEF KeysInv
<1>2. revoked \in KeyRecords /\ revoked.family = keys[k].family /\ ~revoked.active
  BY <1>1 DEF KeyRecords
<1>3. keys' = [keys EXCEPT ![k] = revoked] /\ day' = day /\ spare' = spare
  BY <1>1 DEF RevokeKey
<1>4. k \in Generated
  BY DEF RevokeKey
<1> HIDE DEF revoked
<1>5. /\ keys' \in [KeyIds -> KeyRecords]
      /\ keys'[k] = revoked
      /\ \A j \in KeyIds \ {k} : keys'[j] = keys[j]
  BY <1>1, <1>2, <1>3
<1> QED BY <1>1, <1>2, <1>3, <1>4, <1>5, NoKeyMore

\* A behaviour of Services is one of the key manager.
LEMMA KeysOfServices == Spec => KeysSpec
<1>1. Init => KeysInit
  BY DEF Init
<1>2. [Next]_vars => [KeysNext]_keyVars
  BY DEF Next, OthersRest, vars
<1> QED BY <1>1, <1>2, PTL DEF Spec, KeysSpec

LEMMA KeysInductive == KeysSpec => []KeysInv
<1> USE KeysAssumption
<1>1. KeysInit => KeysInv
  <2> SUFFICES ASSUME KeysInit PROVE KeysInv
    OBVIOUS
  <2>1. NoKey \in KeyRecords
    BY DEF NoKey, KeyRecords, KeysAssumption
  <2>2. Generated = {}
    BY DEF KeysInit, Generated
  <2>3. NumberedTo(0)
    BY <2>2 DEF NumberedTo
  <2>4. ASSUME NEW f \in KeyIds
        PROVE  Cardinality(ActiveIn(f)) <= 1 + spare[f]
    <3>1. ActiveIn(f) = {}
      BY <2>2 DEF ActiveIn
    <3>2. Cardinality({}) = 0
      BY FS_EmptySet
    <3> QED BY <3>1, <3>2 DEF KeysInit
  <2>5. 0 \in 0..MaxKeys
    BY DEF KeysAssumption
  <2> QED BY <2>1, <2>3, <2>4, <2>5 DEF KeysInit, KeysInv, OneActivePerFamily
<1>2. KeysInv /\ [KeysNext]_keyVars => KeysInv'
  <2> SUFFICES ASSUME KeysInv, [KeysNext]_keyVars PROVE KeysInv'
    OBVIOUS
  <2>1. CASE DayPasses
    <3>1. keys' = keys /\ spare' = spare /\ day' \in Nat
      BY <2>1 DEF DayPasses, KeysInv
    <3> QED BY <3>1, NoKeyMore DEF KeysInv
  <2>2. ASSUME NEW expires \in 1..Calendar, GenerateKey(expires) PROVE KeysInv'
    BY <2>2, GenerateKeyKeeps
  <2>3. ASSUME NEW k \in KeyIds, CheckRateLimit(k) PROVE KeysInv'
    BY <2>3, CheckRateLimitKeeps
  <2>4. ASSUME NEW k \in KeyIds, RevokeKey(k) PROVE KeysInv'
    BY <2>4, RevokeKeyKeeps
  <2>5. ASSUME NEW k \in KeyIds, RotateKey(k) PROVE KeysInv'
    BY <2>5, RotateKeyKeeps
  <2>6. CASE UNCHANGED keyVars
    <3>1. keys' = keys /\ spare' = spare /\ day' = day
      BY <2>6 DEF keyVars
    <3> QED BY <3>1, NoKeyMore DEF KeysInv
  <2> QED BY <2>1, <2>2, <2>3, <2>4, <2>5, <2>6 DEF KeysNext
<1> QED BY <1>1, <1>2, PTL DEF KeysSpec

\* Whatever is generated, used, revoked and rotated in which order, a family
\* has at most one active key but for the rotations of keys that were inactive.
THEOREM OneActivePerFamilyAlways == Spec => []OneActivePerFamily
<1>1. KeysInv => OneActivePerFamily
  BY DEF KeysInv
<1> QED BY <1>1, KeysInductive, KeysOfServices, PTL

\* The types of the keys.  Each rotation that is counted as spare made a key.
KeysTyped ==
  KeysTypeOK /\ \A f \in KeyIds : spare[f] <= Cardinality(Generated)

\* A step that leaves the families takes no number back.
LEMMA NumbersStayTaken ==
  ASSUME KeysAssumption, KeysInv, KeysInv',
         \A k \in Generated : keys'[k].family = keys[k].family
  PROVE  /\ Generated \subseteq Generated' /\ IsFiniteSet(Generated')
         /\ Cardinality(Generated) \in 0..MaxKeys /\ Cardinality(Generated') \in 0..MaxKeys
         /\ Cardinality(Generated) <= Cardinality(Generated')
         /\ Generated' # Generated => Cardinality(Generated) + 1 <= Cardinality(Generated')
<1>1. PICK n \in 0..MaxKeys : NumberedTo(n)
  BY DEF KeysInv
<1>2. PICK m \in 0..MaxKeys : NumberedTo(m)'
  BY DEF KeysInv
<1>3. n \in Nat /\ m \in Nat /\ Generated = 1..n /\ Generated' = 1..m
  BY <1>1, <1>2, KeysAssumption DEF NumberedTo
<1>4. /\ IsFiniteSet(1..m)
      /\ Cardinality(1..n) = n /\ Cardinality(1..m) = m
  <2>1. \A k \in Nat : IsFiniteSet(1..k) /\ Cardinality(1..k) = k
    BY FS_Interval
  <2> QED BY <1>3, <2>1
<1>5. Generated \subseteq Generated'
  <2> SUFFICES ASSUME NEW k \in Generated PROVE k \in Generated'
    OBVIOUS
  <2>1. keys[k].family \in 1..n /\ k \in KeyIds
    BY <1>1, <1>3 DEF NumberedTo, Generated
  <2>2. keys'[k].family # NoKey.family
    BY <2>1, <1>3 DEF NoKey
  <2> QED BY <2>1, <2>2 DEF Generated
<1>6. n <= m /\ (n = m => Generated' = Generated)
  <2>1. CASE n = 0
    BY <1>3, <2>1
  <2>2. CASE n # 0
    <3>1. n \in 1..m
      BY <1>3, <1>5, <2>2
    <3> QED BY <1>3, <3>1
  <2> QED BY <2>1, <2>2
<1> QED BY <1>1, <1>2, <1>3, <1>4, <1>5, <1>6

LEMMA KeysTypeKept ==
  ASSUME KeysAssumption, KeysInv, KeysInv', KeysTyped, [KeysNext]_keyVars
  PROVE  KeysTyped'
<1> DEFINE Record == [active: BOOLEAN, family: 0..MaxKeys,
                      expires: 0..Calendar + 1, requests: SUBSET (1..Calendar)]
<1>1. /\ day \in 1..Calendar /\ keys \in [KeyIds -> Record]
      /\ spare \in [KeyIds -> 0..MaxKeys]
      /\ \A f \in KeyIds : spare[f] <= Cardinality(Generated)
  BY DEF KeysTyped, KeysTypeOK
<1>2. ASSUME NEW k \in KeyIds, NEW e \in 0..Calendar + 1
      PROVE  NewKey(k, e) \in Record
  BY <1>2, KeysAssumption DEF NewKey, KeyIds
<1>3. ASSUME day' \in 1..Calendar, keys' \in [KeyIds -> Record], spare' = spare,
             \A k \in Generated : keys'[k].family = keys[k].family
      PROVE  KeysTyped'
  <2> HIDE DEF Record
  <2>1. Cardinality(Generated) <= Cardinality(Generated')
        /\ Cardinality(Generated) \in Nat /\ Cardinality(Generated') \in Nat
    BY <1>3, NumbersStayTaken, KeysAssumption
  <2>2. \A f \in KeyIds : spare[f] \in Nat
    BY <1>1, KeysAssumption
  <2>3. \A f \in KeyIds : spare'[f] <= Cardinality(Generated')
    BY <1>1, <1>3, <2>1, <2>2
  <2> QED BY <1>1, <1>3, <2>3 DEF KeysTyped, KeysTypeOK, Record
<1>4. CASE DayPasses
  <2>1. day' \in 1..Calendar /\ keys' = keys /\ spare' = spare
    BY <1>1, <1>4, KeysAssumption DEF DayPasses
  <2> QED BY <1>1, <1>3, <2>1
<1>5. ASSUME NEW k \in KeyIds, NEW new \in Record, keys' = [keys EXCEPT ![k] = new],
             day' = day, spare' = spare, k \in Generated => new.family = keys[k].family
      PROVE  KeysTyped'
  <2> HIDE DEF Record
  <2>1. /\ keys' \in [KeyIds -> Record]
        /\ \A j \in KeyIds : keys'[j] = IF j = k THEN new ELSE keys[j]
    BY <1>1, <1>5
  <2>2. \A j \in Generated : j \in KeyIds
    BY DEF Generated
  <2> QED BY <1>1, <1>3, <1>5, <2>1, <2>2
<1>6. ASSUME NEW expires \in 1..Calendar, GenerateKey(expires) PROVE KeysTyped'
  <2>1. PICK k \in KeyIds : k \notin Generated /\ k = Cardinality(Generated) + 1
    BY <1>6, NextKeyIsFree DEF GenerateKey
  <2>2. NewKey(k, expires) \in Record
    BY <1>2, KeysAssumption
  <2>3. keys' = [keys EXCEPT ![k] = NewKey(k, expires)] /\ day' = day /\ spare' = spare
    BY <1>6, <2>1 DEF GenerateKey
  <2> HIDE DEF Record
  <2> QED BY <1>5, <2>1, <2>2, <2>3
<1>7. ASSUME NEW k \in KeyIds, CheckRateLimit(k) \/ RevokeKey(k) PROVE KeysTyped'
  <2>1. keys[k] \in Record
    BY <1>1
  <2>2. PICK new \in Record : keys' = [keys EXCEPT ![k] = new] /\ new.family = keys[k].family
    <3>1. CASE CheckRateLimit(k)
      <4> DEFINE kept == {t \in keys[k].requests : t > day - KeyPeriod} \cup {day}
      <4>1. kept \in SUBSET (1..Calendar)
        BY <1>1, <2>1
      <4>2. keys' = [keys EXCEPT ![k] = [keys[k] EXCEPT !.requests = kept]]
        BY <1>1, <3>1 DEF CheckRateLimit
      <4> HIDE DEF kept
      <4>3. [keys[k] EXCEPT !.requests = kept] \in Record
            /\ [keys[k] EXCEPT !.requests = kept].family = keys[k].family
        BY <2>1, <4>1
      <4> HIDE DEF Record
      <4> QED BY <4>2, <4>3
    <3>2. CASE RevokeKey(k)
      <4>1. keys' = [keys EXCEPT ![k] = [keys[k] EXCEPT !.active = FALSE]]
        BY <1>1, <3>2 DEF RevokeKey
      <4>2. [keys[k] EXCEPT !.active = FALSE] \in Record
            /\ [keys[k] EXCEPT !.active = FALSE].family = keys[k].family
        BY <2>1
      <4> HIDE DEF Record
      <4> QED BY <4>1, <4>2
    <3> QED BY <1>7, <3>1, <3>2
  <2>3. day' = day /\ spare' = spare
    BY <1>7 DEF CheckRateLimit, RevokeKey
  <2> HIDE DEF Record
  <2> QED BY <1>5, <2>2, <2>3
<1>8. ASSUME NEW k \in KeyIds, RotateKey(k) PROVE KeysTyped'
  <2>1. PICK n \in KeyIds : n \notin Generated /\ n = Cardinality(Generated) + 1
    BY <1>8, NextKeyIsFree DEF RotateKey
  <2>2. PICK family : family = keys[k].family
    OBVIOUS
  <2>3. k \in Generated /\ family \in KeyIds
    <3>1. PICK m \in 0..MaxKeys : NumberedTo(m)
      BY DEF KeysInv
    <3> QED BY <1>8, <2>2, <3>1, KeysAssumption DEF RotateKey, NumberedTo, KeyIds
  <2>4. PICK new : new = NewKey(family, Calendar + 1)
    OBVIOUS
  <2>5. new \in Record /\ new.active
    BY <1>2, <2>3, <2>4, KeysAssumption DEF NewKey
  <2>6. PICK old : old = [keys[k] EXCEPT !.active = FALSE]
    OBVIOUS
  <2>7. old \in Record /\ old.family = keys[k].family
    BY <1>1, <2>6
  <2> HIDE DEF Record
  <2>8. keys' = [keys EXCEPT ![n] = new, ![k] = old]
    BY <1>1, <1>8, <2>1, <2>2, <2>3, <2>4, <2>6 DEF RotateKey
  <2>9. /\ spare' = [spare EXCEPT ![family] = IF keys[k].active THEN @ ELSE @ + 1]
        /\ day' = day
    BY <1>8, <2>2 DEF RotateKey
  <2>10. /\ keys' \in [KeyIds -> Record] /\ keys'[n] = new
         /\ \A j \in Generated : keys'[j].family = keys[j].family
    BY <1>1, <2>1, <2>3, <2>5, <2>7, <2>8 DEF Generated
  <2>11. n \in Generated'
    BY <2>1, <2>5, <2>10 DEF Generated, NoKey
  <2>12. /\ Cardinality(Generated) + 1 <= Cardinality(Generated')
         /\ Cardinality(Generated) \in Nat /\ Cardinality(Generated') \in 0..MaxKeys
    BY <2>1, <2>10, <2>11, NumbersStayTaken, KeysAssumption
  <2>13. ASSUME NEW f \in KeyIds
         PROVE  spare'[f] \in 0..MaxKeys /\ spare'[f] <= Cardinality(Generated')
    <3>1. spare[f] \in Nat /\ spare[f] <= Cardinality(Generated)
      BY <1>1, KeysAssumption
    <3>2. spare'[f] \in {spare[f], spare[f] + 1}
      BY <1>1, <2>9
    <3> QED BY <2>12, <3>1, <3>2, KeysAssumption
  <2>14. spare' \in [KeyIds -> 0..MaxKeys]
    BY <1>1, <2>9, <2>13
  <2> QED BY <1>1, <2>9, <2>10, <2>13, <2>14 DEF KeysTyped, KeysTypeOK, Record
<1>9. CASE UNCHANGED keyVars
  BY <1>1, <1>3, <1>9 DEF keyVars
<1> QED BY <1>4, <1>6, <1>7, <1>8, <1>9 DEF KeysNext

LEMMA KeysTypeCorrect == KeysSpec => []KeysTypeOK
<1>1. KeysInit => KeysTyped
  <2> SUFFICES ASSUME KeysInit PROVE KeysTyped
    OBVIOUS
  <2>1. Generated = {} /\ Cardinality({}) = 0
    BY FS_EmptySet DEF KeysInit, Generated
  <2> QED BY <2>1, KeysAssumption DEF KeysInit, KeysTyped, KeysTypeOK, NoKey
<1>2. KeysInv /\ KeysInv' /\ KeysTyped /\ [KeysNext]_keyVars => KeysTyped'
  BY KeysTypeKept, KeysAssumption
<1>3. KeysTyped => KeysTypeOK
  BY DEF KeysTyped
<1> QED BY <1>1, <1>2, <1>3, KeysInductive, PTL DEF KeysSpec

--------------------------------------------------------------------------------
(***************************************************************************)
(* ApprovalWorkflow implements Decision.                                   *)
(***************************************************************************)
ApprovalSpec == ApprovalInit /\ [][ApprovalNext]_approvalVars

RequestRecords ==
  [status: {"pending", "approved", "rejected", "expired"}, deadline: BOOLEAN,
   policy: Policies, decisions: Seq({"approved", "rejected"})]

\* A request that is pending has heard nobody: one approval is enough, and so
\* is one rejection.
ApprovalInv ==
  /\ request \in [Requests -> RequestRecords \cup {NoRequest}]
  /\ \A r \in Requests : request[r].status = "pending" => request[r].decisions = <<>>

\* The refinement mapping of ApprovalDecision.
OutcomeOf == [r \in Requests |-> Outcome(request[r].status)]
VotesOf == [r \in Requests |->
              IF request[r] = NoRequest THEN {}
              ELSE {Outcome(d) : d \in ToSet(request[r].decisions)}]

LEMMA NoVotes == {Outcome(d) : d \in ToSet(<<>>)} = {}
BY ToSetOfEmpty

LEMMA RequestTypes ==
  ASSUME ApprovalInv, NEW r \in Requests
  PROVE  /\ request[r] = NoRequest <=> request[r].status = "none"
         /\ request[r] # NoRequest => request[r] \in RequestRecords
         /\ request[r].status \in {"none", "pending", "approved", "rejected", "expired"}
         /\ request[r].status = "pending" =>
              OutcomeOf[r] = "open" /\ VotesOf[r] = {}
<1>1. request[r] \in RequestRecords \cup {NoRequest}
  BY DEF ApprovalInv
<1>2. /\ request[r] = NoRequest <=> request[r].status = "none"
      /\ request[r] # NoRequest => request[r] \in RequestRecords
      /\ request[r].status \in {"none", "pending", "approved", "rejected", "expired"}
  BY <1>1 DEF RequestRecords, NoRequest
<1>3. ASSUME request[r].status = "pending"
      PROVE  OutcomeOf[r] = "open" /\ VotesOf[r] = {}
  <2>1. request[r].decisions = <<>>
    BY <1>3 DEF ApprovalInv
  <2>2. VotesOf[r] = {}
    BY <2>1, NoVotes DEF VotesOf
  <2>3. OutcomeOf[r] = "open"
    BY <1>3 DEF OutcomeOf, Outcome
  <2> QED BY <2>2, <2>3
<1> QED BY <1>2, <1>3

LEMMA CreateRequestAsks ==
  ASSUME ApprovalInv, NEW r \in Requests, NEW d \in BOOLEAN, NEW p \in Policies,
         CreateRequest(r, d, p)
  PROVE  ApprovalInv' /\ ApprovalDecision!Ask(r)
<1> DEFINE new == [status |-> "pending", deadline |-> d, policy |-> p, decisions |-> <<>>]
<1>1. request[r] = NoRequest /\ request' = [request EXCEPT ![r] = new]
  BY DEF CreateRequest
<1>2. new \in RequestRecords /\ new.status = "pending" /\ new.decisions = <<>>
  BY EmptySeq DEF RequestRecords
<1> HIDE DEF new
<1>3. \A q \in Requests : request'[q] = IF q = r THEN new ELSE request[q]
  BY <1>1 DEF ApprovalInv
<1>4. request' \in [Requests -> RequestRecords \cup {NoRequest}]
  BY <1>1, <1>2 DEF ApprovalInv
<1>5. ApprovalInv'
  BY <1>2, <1>3, <1>4 DEF ApprovalInv
<1>6. /\ OutcomeOf[r] = "none" /\ OutcomeOf'[r] = "open"
      /\ VotesOf[r] = {} /\ VotesOf'[r] = {}
  <2>1. OutcomeOf[r] = "none" /\ VotesOf[r] = {}
    BY <1>1 DEF OutcomeOf, VotesOf, Outcome, NoRequest
  <2>2. OutcomeOf'[r] = "open" /\ VotesOf'[r] = {}
    <3>1. request'[r].status = "pending" /\ request'[r].decisions = <<>>
      BY <1>2, <1>3
    <3>2. VotesOf'[r] = {}
      BY <3>1, NoVotes DEF VotesOf
    <3>3. OutcomeOf'[r] = "open"
      BY <3>1 DEF OutcomeOf, Outcome
    <3> QED BY <3>2, <3>3
  <2> QED BY <2>1, <2>2
<1>7. \A q \in Requests : q # r => OutcomeOf'[q] = OutcomeOf[q] /\ VotesOf'[q] = VotesOf[q]
  BY <1>3 DEF OutcomeOf, VotesOf
<1>8. OutcomeOf' = [OutcomeOf EXCEPT ![r] = "open"] /\ VotesOf' = VotesOf
  BY <1>6, <1>7 DEF OutcomeOf, VotesOf
<1> QED BY <1>5, <1>6, <1>8 DEF ApprovalDecision!Ask, OutcomeOf, VotesOf

\* approve and reject: the first decision is the last.
LEMMA DecidedVotes ==
  ASSUME ApprovalInv, NEW r \in Requests, NEW decision \in {"approved", "rejected"},
         request[r].status = "pending", Decided(r, decision, TRUE)
  PROVE  ApprovalInv' /\ ApprovalDecision!Vote(r)
<1> DEFINE new == [request[r] EXCEPT !.decisions = Append(@, decision), !.status = decision]
<1>1. request[r] \in RequestRecords /\ request[r].decisions = <<>>
      /\ OutcomeOf[r] = "open" /\ VotesOf[r] = {}
  BY RequestTypes DEF ApprovalInv
<1>2. request' = [request EXCEPT ![r] = new]
  BY DEF ApprovalInv, Decided
<1>3. /\ Append(<<>>, decision) \in Seq({"approved", "rejected"})
      /\ ToSet(Append(<<>>, decision)) = {decision}
  <2>1. <<>> \in Seq({"approved", "rejected"})
    BY EmptySeq
  <2>2. ToSet(Append(<<>>, decision)) = ToSet(<<>>) \cup {decision}
    BY <2>1, ToSetOfAppend
  <2> QED BY <2>1, <2>2, ToSetOfEmpty, AppendProperties
<1>4. new \in RequestRecords /\ new.status = decision
      /\ new.decisions = Append(<<>>, decision)
  BY <1>1, <1>3 DEF RequestRecords
<1> HIDE DEF new
<1>5. \A q \in Requests : request'[q] = IF q = r THEN new ELSE request[q]
  BY <1>2 DEF ApprovalInv
<1>6. request' \in [Requests -> RequestRecords \cup {NoRequest}]
  BY <1>2, <1>4 DEF ApprovalInv
<1>7. ApprovalInv'
  BY <1>4, <1>5, <1>6 DEF ApprovalInv
<1>8. OutcomeOf'[r] = Outcome(decision) /\ VotesOf'[r] = {Outcome(decision)}
  <2>1. request'[r].status = decision /\ request'[r] # NoRequest
        /\ ToSet(request'[r].decisions) = {decision}
    BY <1>3, <1>4, <1>5 DEF NoRequest
  <2>2. VotesOf'[r] = {Outcome(decision)}
    BY <2>1 DEF VotesOf
  <2>3. OutcomeOf'[r] = Outcome(decision)
    BY <2>1 DEF OutcomeOf
  <2> QED BY <2>2, <2>3
<1>9. \A q \in Requests : q # r => OutcomeOf'[q] = OutcomeOf[q] /\ VotesOf'[q] = VotesOf[q]
  BY <1>5 DEF OutcomeOf, VotesOf
<1>10. /\ OutcomeOf' = [OutcomeOf EXCEPT ![r] = Outcome(decision)]
       /\ VotesOf' = [VotesOf EXCEPT ![r] = {Outcome(decision)}]
  <2>1. OutcomeOf' = [q \in Requests |-> OutcomeOf'[q]]
        /\ VotesOf' = [q \in Requests |-> VotesOf'[q]]
        /\ OutcomeOf = [q \in Requests |-> OutcomeOf[q]]
        /\ VotesOf = [q \in Requests |-> VotesOf[q]]
    BY DEF OutcomeOf, VotesOf
  <2> QED BY <1>8, <1>9, <2>1
<1>11. Outcome("approved") = "yes" /\ Outcome("rejected") = "no"
  BY DEF Outcome
<1> QED BY <1>1, <1>7, <1>10, <1>11 DEF ApprovalDecision!Vote, OutcomeOf, VotesOf

\* check_deadlines decides what is late, without a vote, or nothing.
LEMMA CheckDeadlinesLapses ==
  ASSUME ApprovalInv, CheckDeadlines
  PROVE  /\ ApprovalInv'
         /\ ApprovalDecision!Lapse \/ UNCHANGED <<OutcomeOf, VotesOf>>
<1> DEFINE Late == {r \in Requests : request[r].status = "pending" /\ r \in late}
           by(r) == IF request[r].policy = "auto_approve" THEN "approved" ELSE "expired"
<1>1. request' = [r \in Requests |->
                    IF r \in Late THEN [request[r] EXCEPT !.status = by(r)] ELSE request[r]]
  BY DEF CheckDeadlines
<1>2. ASSUME NEW r \in Late
      PROVE  /\ request[r] \in RequestRecords /\ request'[r] \in RequestRecords
             /\ request'[r].status = by(r) /\ request'[r].decisions = <<>>
             /\ OutcomeOf[r] = "open" /\ VotesOf[r] = {}
             /\ r \in Requests /\ by(r) \in {"approved", "expired"}
  <2>1. /\ request[r] \in RequestRecords /\ request[r].decisions = <<>>
        /\ OutcomeOf[r] = "open" /\ VotesOf[r] = {}
    BY RequestTypes DEF ApprovalInv
  <2>2. request'[r] = [request[r] EXCEPT !.status = by(r)] /\ by(r) \in {"approved", "expired"}
    BY <1>1
  <2> HIDE DEF by
  <2>3. request'[r] \in RequestRecords
        /\ request'[r].status = by(r) /\ request'[r].decisions = <<>>
    BY <2>1, <2>2 DEF RequestRecords
  <2> QED BY <2>1, <2>2, <2>3
<1> HIDE DEF by
<1>3. \A r \in Requests : r \notin Late => request'[r] = request[r]
  BY <1>1
<1>4. request' \in [Requests -> RequestRecords \cup {NoRequest}]
  <2>1. \A r \in Requests : request'[r] \in RequestRecords \cup {NoRequest}
    BY <1>2, <1>3 DEF ApprovalInv
  <2> QED BY <1>1, <2>1
<1>5. ApprovalInv'
  <2> SUFFICES ASSUME NEW r \in Requests, request'[r].status = "pending"
               PROVE  request'[r].decisions = <<>>
    BY <1>4 DEF ApprovalInv
  <2>1. r \notin Late
    BY <1>2
  <2> QED BY <1>3, <2>1 DEF ApprovalInv
<1> HIDE DEF Late
<1>6. \A r \in Requests : r \notin Late =>
        OutcomeOf'[r] = OutcomeOf[r] /\ VotesOf'[r] = VotesOf[r]
  BY <1>3 DEF OutcomeOf, VotesOf
<1>7. \A r \in Late : OutcomeOf'[r] \in {"yes", "expired"} /\ VotesOf'[r] = {}
  <2> TAKE r \in Late
  <2>1. /\ request'[r].status \in {"approved", "expired"} /\ request'[r].decisions = <<>>
        /\ r \in Requests
    BY <1>2
  <2>2. VotesOf'[r] = {}
    BY <2>1, NoVotes DEF VotesOf
  <2>3. OutcomeOf'[r] \in {"yes", "expired"}
    BY <2>1 DEF OutcomeOf, Outcome
  <2> QED BY <2>2, <2>3
<1>8. VotesOf' = VotesOf
  <2>1. \A r \in Requests : VotesOf'[r] = VotesOf[r]
    BY <1>2, <1>6, <1>7
  <2> QED BY <2>1 DEF VotesOf
<1>9. CASE Late = {}
  <2>1. \A r \in Requests : OutcomeOf'[r] = OutcomeOf[r]
    BY <1>6, <1>9
  <2>2. OutcomeOf' = OutcomeOf
    BY <2>1 DEF OutcomeOf
  <2> QED BY <1>5, <1>8, <2>2
<1>10. CASE Late # {}
  <2> DEFINE as == [r \in Late |-> OutcomeOf'[r]]
  <2>1. Late \in SUBSET {r \in Requests : OutcomeOf[r] = "open" /\ VotesOf[r] = {}}
    BY <1>2
  <2>2. as \in [Late -> {"yes", "expired"}]
    BY <1>7
  <2>3. OutcomeOf' = [r \in Requests |-> IF r \in Late THEN as[r] ELSE OutcomeOf[r]]
    <3>1. \A r \in Requests : OutcomeOf'[r] = IF r \in Late THEN as[r] ELSE OutcomeOf[r]
      BY <1>6
    <3> QED BY <3>1 DEF OutcomeOf
  <2>4. ApprovalDecision!Lapse
    BY <1>8, <1>10, <2>1, <2>2, <2>3 DEF ApprovalDecision!Lapse, OutcomeOf, VotesOf
  <2> QED BY <1>5, <2>4
<1> QED BY <1>9, <1>10

LEMMA ApprovalNextDecides ==
  ASSUME ApprovalInv, [ApprovalNext]_approvalVars
  PROVE  ApprovalInv' /\ (ApprovalDecision!Next \/ UNCHANGED <<OutcomeOf, VotesOf>>)
<1>1. CASE CheckDeadlines
  BY <1>1, CheckDeadlinesLapses DEF ApprovalDecision!Next
<1>2. ASSUME NEW r \in Requests, NEW d \in BOOLEAN, NEW p \in Policies,
             \/ CreateRequest(r, d, p)
             \/ CreateFromTemplate(r, [deadline |-> d, policy |-> p])
      PROVE  ApprovalInv' /\ ApprovalDecision!Next
  <2>1. CreateRequest(r, d, p)
    BY <1>2 DEF CreateFromTemplate
  <2> QED BY <2>1, CreateRequestAsks DEF ApprovalDecision!Next
<1>3. ASSUME NEW r \in Requests, Approve(r) \/ Reject(r)
      PROVE  ApprovalInv' /\ ApprovalDecision!Next
  <2>1. PICK decision \in {"approved", "rejected"} :
          request[r].status = "pending" /\ Decided(r, decision, TRUE)
    <3>1. CASE Reject(r)
      BY <3>1 DEF Reject
    <3>2. CASE Approve(r)
      <4>1. request[r].status = "pending" /\ request[r].decisions = <<>>
        BY <3>2 DEF Approve, ApprovalInv
      <4>2. IsApprovalComplete(Append(<<>>, "approved"))
        <5>1. <<>> \in Seq({"approved"}) /\ Len(<<>>) = 0
          BY EmptySeq
        <5>2. Append(<<>>, "approved")[1] = "approved" /\ Len(Append(<<>>, "approved")) = 1
          BY <5>1, AppendProperties
        <5> QED BY <5>2 DEF IsApprovalComplete, Contains
      <4>3. IsApprovalComplete(Append(request[r].decisions, "approved")) = TRUE
        BY <4>1, <4>2 DEF IsApprovalComplete, Contains
      <4>4. Decided(r, "approved", TRUE)
        BY <3>2, <4>3 DEF Approve, Decided
      <4> QED BY <4>1, <4>4
    <3> QED BY <1>3, <3>1, <3>2
  <2> QED BY <2>1, DecidedVotes DEF ApprovalDecision!Next
<1>4. CASE request' = request
  BY <1>4 DEF ApprovalInv, OutcomeOf, VotesOf
<1>5. ASSUME NEW r \in Requests, DeadlinePasses(r)
      PROVE  request' = request
  BY <1>5 DEF DeadlinePasses
<1> QED BY <1>1, <1>2, <1>3, <1>4, <1>5 DEF ApprovalNext, approvalVars

\* A behaviour of Services is one of the workflow of approvals.
LEMMA ApprovalOfServices == Spec => ApprovalSpec
<1>1. Init => ApprovalInit
  BY DEF Init
<1>2. [Next]_vars => [ApprovalNext]_approvalVars
  BY DEF Next, OthersRest, vars
<1> QED BY <1>1, <1>2, PTL DEF Spec, ApprovalSpec

\* A request is decided once and for good, and by no vote after that, in
\* whatever order approve, reject and check_deadlines are called and deadlines
\* pass: every step of the workflow is one of Decision, or changes no answer.
THEOREM DecisionImplemented == Spec => ImplementsDecision
<1>1. ApprovalInit => ApprovalInv /\ ApprovalDecision!Init
  <2> SUFFICES ASSUME ApprovalInit PROVE ApprovalInv /\ ApprovalDecision!Init
    OBVIOUS
  <2>1. \A r \in Requests : request[r] = NoRequest /\ request[r].status = "none"
    BY DEF ApprovalInit, NoRequest
  <2>2. ApprovalInv
    BY <2>1 DEF ApprovalInit, ApprovalInv
  <2>3. OutcomeOf = [r \in Requests |-> "none"] /\ VotesOf = [r \in Requests |-> {}]
    BY <2>1 DEF OutcomeOf, VotesOf, Outcome
  <2> QED BY <2>2, <2>3 DEF ApprovalDecision!Init, OutcomeOf, VotesOf
<1>2. ApprovalInv /\ [ApprovalNext]_approvalVars =>
        ApprovalInv' /\ [ApprovalDecision!Next]_<<OutcomeOf, VotesOf>>
  BY ApprovalNextDecides
<1> QED BY <1>1, <1>2, ApprovalOfServices, PTL
        DEF ApprovalSpec, ImplementsDecision, ApprovalDecision!Spec, OutcomeOf, VotesOf

\* The types of the requests, which are those of the invariant.
LEMMA ApprovalTypeCorrect == ApprovalSpec => []ApprovalTypeOK
<1> DEFINE Typed == ApprovalInv /\ late \subseteq Requests
<1>1. ApprovalInit => Typed
  <2> SUFFICES ASSUME ApprovalInit PROVE Typed
    OBVIOUS
  <2>1. \A r \in Requests : request[r] = NoRequest /\ request[r].status = "none"
    BY DEF ApprovalInit, NoRequest
  <2> QED BY <2>1 DEF ApprovalInit, ApprovalInv
<1>2. Typed /\ [ApprovalNext]_approvalVars => Typed'
  <2> SUFFICES ASSUME Typed, [ApprovalNext]_approvalVars PROVE Typed'
    OBVIOUS
  <2>1. late' \subseteq Requests
    BY DEF ApprovalNext, CheckDeadlines, CreateRequest, CreateFromTemplate, Approve, Reject,
           DeadlinePasses, approvalVars
  <2> QED BY <2>1, ApprovalNextDecides
<1>3. Typed => ApprovalTypeOK
  <2> SUFFICES ASSUME Typed, NEW r \in Requests
               PROVE  \/ request[r] = NoRequest
                      \/ /\ request[r].status \in {"pending", "approved", "rejected", "expired"}
                         /\ request[r].deadline \in BOOLEAN
                         /\ request[r].policy \in Policies
                         /\ request[r].decisions \in Seq({"approved", "rejected"})
    BY DEF ApprovalTypeOK
  <2>1. request[r] \in RequestRecords \cup {NoRequest}
    BY DEF ApprovalInv
  <2> QED BY <2>1 DEF RequestRecords
<1> HIDE DEF Typed
<1> QED BY <1>1, <1>2, <1>3, PTL DEF ApprovalSpec

--------------------------------------------------------------------------------
(***************************************************************************)
(* SLAManager.                                                             *)
(***************************************************************************)
SlaSpec == SlaInit /\ [][SlaNext]_slaVars

HasRecord(k) == k \in Tracks /\ track[k].status # Untracked

\* What is known of a record: it is not of the future, and a breach was found
\* at a time the record has lived through.
RecordIsOfThePast(k) ==
  /\ track[k].start <= clock /\ track[k].end <= clock
  /\ track[k].breached =>
       /\ HasRecord(k)
       /\ clock - track[k].start >= Target
       /\ track[k].status = "completed" => track[k].end - track[k].start >= Target
  /\ track[k].status = "completed" /\ track[k].met
       => track[k].end - track[k].start <= Target

\* A monitor that waits for a callback goes on with a time that the record of
\* a workflow completed meanwhile has not left behind.
MonitorIsOfThePast(k) ==
  /\ monitor[k].pc # "off" => HasRecord(current)
  /\ monitor[k].pc \notin {"off", "created"} => HasRecord(monitor[k].record)
  /\ monitor[k].now <= clock
  /\ monitor[k].pc \in {"warning", "critical"}
       => \/ track[monitor[k].record].status = "in_progress"
          \/ monitor[k].now <= track[monitor[k].record].end

SlaInv ==
  /\ SlaTypeOK
  /\ current # Untracked => HasRecord(current)
  /\ \A k \in Tracks : RecordIsOfThePast(k) /\ MonitorIsOfThePast(k)

TrackRecords ==
  [start: 0..Horizon, status: {Untracked, "in_progress", "completed"},
   sent: SUBSET {"warning", "critical"}, breached: BOOLEAN, met: BOOLEAN,
   end: 0..Horizon]

MonitorRecords ==
  [pc: {"off", "created", "awake", "warning", "critical", "asleep", "over"},
   record: Tracks \cup {Untracked}, now: 0..Horizon]

LEMMA SlaTypes ==
  SlaTypeOK <=> /\ clock \in 0..Horizon
                /\ current \in Tracks \cup {Untracked}
                /\ track \in [Tracks -> TrackRecords]
                /\ monitor \in [Tracks -> MonitorRecords]
BY DEF SlaTypeOK, TrackRecords, MonitorRecords

\* The loop goes on with a time of which the record it watches still holds.
LEMMA GoesOnKeeps ==
  ASSUME SlaInv, NEW k \in Tracks, NEW now \in 0..Horizon,
         NEW sent \in SUBSET {"warning", "critical"},
         monitor[k].pc \notin {"off", "created"}, now <= clock,
         \/ Watched(k).status = "in_progress"
         \/ now <= Watched(k).end,
         GoesOn(k, now, sent)
  PROVE  SlaInv'
<1> DEFINE r == monitor[k].record
           stop == NextStop(k, now, sent)
<1>1. /\ clock \in 0..Horizon /\ current \in Tracks \cup {Untracked}
      /\ track \in [Tracks -> TrackRecords] /\ monitor \in [Tracks -> MonitorRecords]
      /\ Warning \in Nat /\ Target \in Nat /\ Horizon \in Nat
  BY SlaTypes, SLAAssumption DEF SlaInv
<1>2. r \in Tracks /\ HasRecord(r) /\ track[r] \in TrackRecords
  BY <1>1 DEF SlaInv, MonitorIsOfThePast, HasRecord
<1>3. stop \in {"warning", "critical", "over", "asleep"}
  BY DEF NextStop
<1>4. stop = "over" => now - track[r].start >= Target
  BY DEF NextStop, IsOver, Watched
<1> HIDE DEF stop
<1>5. /\ clock' = clock /\ current' = current
      /\ monitor' = [monitor EXCEPT ![k].pc = stop, ![k].now = now]
      /\ track' = [track EXCEPT ![r].sent = sent, ![r].breached = @ \/ stop = "over"]
  BY DEF GoesOn, stop
<1> HIDE DEF r
<1>6. ASSUME NEW j \in Tracks
      PROVE  /\ track'[j].start = track[j].start /\ track'[j].status = track[j].status
             /\ track'[j].met = track[j].met /\ track'[j].end = track[j].end
             /\ track'[j].breached => track[j].breached \/ (j = r /\ stop = "over")
             /\ track'[j] \in TrackRecords
  <2>1. track[j] \in TrackRecords
    BY <1>1
  <2>2. CASE j = r
    <3>1. track'[j] = [track[r] EXCEPT !.sent = sent, !.breached = @ \/ stop = "over"]
      BY <1>1, <1>5, <2>2
    <3> QED BY <2>1, <2>2, <3>1 DEF TrackRecords
  <2>3. CASE j # r
    BY <1>1, <1>5, <2>1, <2>3
  <2> QED BY <2>2, <2>3
<1>7. ASSUME NEW j \in Tracks
      PROVE  /\ monitor'[j] \in MonitorRecords
             /\ monitor'[j].record = monitor[j].record
             /\ j # k => monitor'[j] = monitor[j]
             /\ j = k => monitor'[j].pc = stop /\ monitor'[j].now = now
  BY <1>1, <1>3, <1>5 DEF MonitorRecords
<1>8. SlaTypeOK'
  <2>1. track' \in [Tracks -> TrackRecords] /\ monitor' \in [Tracks -> MonitorRecords]
    BY <1>1, <1>5, <1>6, <1>7
  <2> QED BY <1>1, <1>5, <2>1 DEF SlaTypeOK, TrackRecords, MonitorRecords
<1>9. \A j : HasRecord(j)' <=> HasRecord(j)
  BY <1>6 DEF HasRecord
<1>10. ASSUME NEW j \in Tracks PROVE RecordIsOfThePast(j)'
  <2>1. /\ clock \in Nat /\ track[j].start \in Nat /\ track[j].end \in Nat /\ now \in Nat
        /\ track[j].status \in {Untracked, "in_progress", "completed"}
    BY <1>1 DEF TrackRecords
  <2>2. RecordIsOfThePast(j)
    BY DEF SlaInv
  <2>3. CASE j = r /\ stop = "over"
    <3>1. clock - track[j].start >= Target
      BY <1>1, <1>4, <2>1, <2>3
    <3>2. track[j].status = "completed" => track[j].end - track[j].start >= Target
      BY <1>1, <1>4, <2>1, <2>3 DEF Watched, r
    <3> QED BY <1>2, <1>5, <1>6, <1>9, <2>2, <2>3, <3>1, <3>2 DEF RecordIsOfThePast
  <2>4. CASE ~(j = r /\ stop = "over")
    BY <1>5, <1>6, <1>9, <2>2, <2>4 DEF RecordIsOfThePast
  <2> QED BY <2>3, <2>4
<1>11. ASSUME NEW j \in Tracks PROVE MonitorIsOfThePast(j)'
  <2>1. MonitorIsOfThePast(j) /\ MonitorIsOfThePast(k)
    BY DEF SlaInv
  <2>2. CASE j = k
    <3>0. PICK rec \in Tracks : rec = r
      BY <1>2
    <3>1. /\ monitor'[k].record = rec /\ monitor'[k].now = now /\ monitor[k].pc # "off"
          /\ clock' = clock /\ current' = current
      BY <1>5, <1>7, <3>0 DEF r
    <3>2. HasRecord(current)' /\ HasRecord(rec)'
      <4>1. HasRecord(current) /\ HasRecord(rec)
        BY <1>2, <2>1, <3>0, <3>1 DEF MonitorIsOfThePast
      <4>2. \A i \in Tracks : track'[i].status = track[i].status
        BY <1>6
      <4> QED BY <3>1, <4>1, <4>2 DEF HasRecord
    <3>3. track'[rec].status = "in_progress" \/ now <= track'[rec].end
      <4>1. track[rec].status = "in_progress" \/ now <= track[rec].end
        BY <3>0 DEF Watched, r
      <4> QED BY <1>6, <4>1
    <3>4. monitor'[k].now <= clock'
      BY <3>1
    <3>5. MonitorIsOfThePast(k)'
      BY <3>1, <3>2, <3>3, <3>4 DEF MonitorIsOfThePast
    <3> QED BY <2>2, <3>5
  <2>3. CASE j # k
    <3>1. monitor[j].pc \in {"warning", "critical"} => monitor[j].record \in Tracks
      BY <2>1 DEF MonitorIsOfThePast, HasRecord
    <3> DEFINE rec == monitor[j].record
    <3>2. monitor'[j] = monitor[j] /\ clock' = clock /\ current' = current
      BY <1>5, <1>7, <2>3
    <3>3. monitor[j].pc \in {"warning", "critical"} =>
            track'[rec].status = track[rec].status /\ track'[rec].end = track[rec].end
      BY <1>6, <3>1
    <3>4. (HasRecord(current) => HasRecord(current)') /\ (HasRecord(rec) => HasRecord(rec)')
      BY <1>9, <3>2
    <3> QED BY <2>1, <3>2, <3>3, <3>4 DEF MonitorIsOfThePast
  <2> QED BY <2>2, <2>3
<1> QED BY <1>5, <1>8, <1>9, <1>10, <1>11 DEF SlaInv

\* A step of a monitor that leaves the records as they are.
LEMMA MonitorMovesKeeps ==
  ASSUME SlaInv, NEW k \in Tracks, NEW new \in MonitorRecords,
         monitor' = [monitor EXCEPT ![k] = new],
         monitor[k].pc # "off", new.now = monitor[k].now,
         new.pc \in {"awake", "over"}, HasRecord(new.record),
         UNCHANGED <<clock, current, track>>
  PROVE  SlaInv'
<1>1. monitor \in [Tracks -> MonitorRecords]
  BY SlaTypes DEF SlaInv
<1>2. \A j \in Tracks : monitor'[j] = IF j = k THEN new ELSE monitor[j]
  BY <1>1
<1>3. SlaTypeOK'
  <2>1. monitor' \in [Tracks -> MonitorRecords]
    BY <1>1
  <2> QED BY <2>1 DEF SlaInv, SlaTypeOK, MonitorRecords
<1>4. \A j : HasRecord(j)' <=> HasRecord(j)
  BY DEF HasRecord
<1>5. \A j \in Tracks : RecordIsOfThePast(j)'
  BY <1>4 DEF SlaInv, RecordIsOfThePast
<1>6. \A j \in Tracks : MonitorIsOfThePast(j)'
  BY <1>2, <1>4 DEF SlaInv, MonitorIsOfThePast
<1> QED BY <1>3, <1>4, <1>5, <1>6 DEF SlaInv

LEMMA SlaNextKeeps ==
  ASSUME SlaInv, [SlaNext]_slaVars
  PROVE  SlaInv'
<1>1. /\ clock \in 0..Horizon /\ current \in Tracks \cup {Untracked}
      /\ track \in [Tracks -> TrackRecords] /\ monitor \in [Tracks -> MonitorRecords]
      /\ Warning \in Nat /\ Target \in Nat /\ Horizon \in Nat
  BY SlaTypes, SLAAssumption DEF SlaInv
<1>2. CASE Tick
  <2>1. /\ clock' = clock + 1 /\ clock' \in 0..Horizon /\ clock \in Nat
        /\ UNCHANGED <<current, track, monitor>>
    BY <1>1, <1>2 DEF Tick
  <2>2. SlaTypeOK'
    BY <2>1 DEF SlaInv, SlaTypeOK
  <2>3. \A j : HasRecord(j)' <=> HasRecord(j)
    BY <2>1 DEF HasRecord
  <2>4. ASSUME NEW j \in Tracks PROVE RecordIsOfThePast(j)' /\ MonitorIsOfThePast(j)'
    <3>1. track[j].start \in Nat /\ track[j].end \in Nat /\ monitor[j].now \in Nat
      BY <1>1 DEF TrackRecords, MonitorRecords
    <3>2. RecordIsOfThePast(j)'
      BY <1>1, <2>1, <2>3, <3>1 DEF SlaInv, RecordIsOfThePast
    <3>3. MonitorIsOfThePast(j)'
      BY <1>1, <2>1, <2>3, <3>1 DEF SlaInv, MonitorIsOfThePast
    <3> QED BY <3>2, <3>3
  <2> QED BY <2>1, <2>2, <2>3, <2>4 DEF SlaInv
<1>3. CASE CompleteWorkflow
  <2>1. current \in Tracks /\ HasRecord(current) /\ track[current] \in TrackRecords
    BY <1>1, <1>3 DEF CompleteWorkflow, SlaInv
  <2> DEFINE met == clock - track[current].start <= Target
  <2>2. /\ track' = [track EXCEPT ![current].status = "completed",
                                  ![current].end = clock, ![current].met = met]
        /\ UNCHANGED <<clock, current, monitor>>
    BY <1>3 DEF CompleteWorkflow
  <2>10. met \in BOOLEAN
    OBVIOUS
  <2>11. met => clock - track[current].start <= Target
    OBVIOUS
  <2> HIDE DEF met
  <2>3. ASSUME NEW j \in Tracks
        PROVE  /\ track'[j] \in TrackRecords
               /\ track'[j].start = track[j].start /\ track'[j].breached = track[j].breached
               /\ j # current => track'[j] = track[j]
               /\ j = current => /\ track'[j].status = "completed" /\ track'[j].end = clock
                                 /\ track'[j].met => met
    <3>1. track[j] \in TrackRecords
      BY <1>1
    <3>2. CASE j = current
      <4>1. track'[j] = [track[j] EXCEPT !.status = "completed", !.end = clock, !.met = met]
        BY <1>1, <2>2, <3>2
      <4>2. track'[j] \in TrackRecords
        BY <1>1, <2>10, <3>1, <4>1 DEF TrackRecords
      <4>3. /\ track'[j].start = track[j].start /\ track'[j].breached = track[j].breached
            /\ track'[j].status = "completed" /\ track'[j].end = clock
            /\ track'[j].met = met
        BY <3>1, <4>1 DEF TrackRecords
      <4> QED BY <3>2, <4>2, <4>3
    <3>3. CASE j # current
      BY <1>1, <2>2, <3>1, <3>3
    <3> QED BY <3>2, <3>3
  <2>4. SlaTypeOK'
    <3>1. track' \in [Tracks -> TrackRecords]
      BY <1>1, <2>2, <2>3
    <3> QED BY <2>2, <3>1 DEF SlaInv, SlaTypeOK, TrackRecords
  <2>5. \A j : HasRecord(j)' <=> HasRecord(j)
    BY <2>1, <2>3 DEF HasRecord, Untracked
  <2>6. ASSUME NEW j \in Tracks PROVE RecordIsOfThePast(j)'
    <3>1. clock \in Nat /\ track[j].start \in Nat /\ RecordIsOfThePast(j)
      BY <1>1 DEF TrackRecords, SlaInv
    <3>2. CASE j = current
      BY <1>1, <2>2, <2>3, <2>5, <2>11, <3>1, <3>2 DEF RecordIsOfThePast
    <3>3. CASE j # current
      BY <2>2, <2>3, <2>5, <3>1, <3>3 DEF RecordIsOfThePast
    <3> QED BY <3>2, <3>3
  <2>7. ASSUME NEW j \in Tracks PROVE MonitorIsOfThePast(j)'
    <3>1. MonitorIsOfThePast(j) /\ monitor[j].now \in Nat
      BY <1>1 DEF SlaInv, MonitorRecords
    <3>2. monitor[j].pc \in {"warning", "critical"} => monitor[j].record \in Tracks
      BY <3>1 DEF MonitorIsOfThePast, HasRecord
    <3> QED BY <2>2, <2>3, <2>5, <3>1, <3>2, ZenonT(60) DEF MonitorIsOfThePast
  <2> QED BY <2>1, <2>2, <2>4, <2>5, <2>6, <2>7 DEF SlaInv
<1>4. ASSUME NEW k \in Tracks, TrackWorkflow(k)
      PROVE  SlaInv'
  <2>1. /\ track[k].status = Untracked /\ clock' = clock /\ current' = k
        /\ track' = [track EXCEPT ![k].start = clock, ![k].status = "in_progress"]
        /\ monitor' = [monitor EXCEPT ![k].pc = "created"]
    BY <1>4 DEF TrackWorkflow
  <2>2. ASSUME NEW j \in Tracks
        PROVE  /\ track'[j] \in TrackRecords
               /\ track'[j].breached = track[j].breached /\ track'[j].end = track[j].end
               /\ j # k => track'[j] = track[j]
               /\ j = k => track'[j].status = "in_progress" /\ track'[j].start = clock
    BY <1>1, <2>1, ZenonT(60) DEF TrackRecords
  <2>3. ASSUME NEW j \in Tracks
        PROVE  /\ monitor'[j] \in MonitorRecords
               /\ monitor'[j].now = monitor[j].now /\ monitor'[j].record = monitor[j].record
               /\ monitor'[j].pc = IF j = k THEN "created" ELSE monitor[j].pc
    BY <1>1, <2>1 DEF MonitorRecords
  <2>4. SlaTypeOK'
    <3>1. track' \in [Tracks -> TrackRecords] /\ monitor' \in [Tracks -> MonitorRecords]
      BY <1>1, <2>1, <2>2, <2>3
    <3> QED BY <2>1, <3>1 DEF SlaInv, SlaTypeOK, TrackRecords, MonitorRecords
  <2>5. HasRecord(k)' /\ \A j : HasRecord(j) => HasRecord(j)' /\ j # k
    BY <2>1, <2>2 DEF HasRecord, Untracked
  <2>6. ASSUME NEW j \in Tracks PROVE RecordIsOfThePast(j)'
    <3>1. clock \in Nat /\ track[j].end \in Nat /\ RecordIsOfThePast(j)
      BY <1>1 DEF TrackRecords, SlaInv
    <3>2. CASE j = k
      <4>1. ~track[j].breached
        BY <2>1, <3>1, <3>2 DEF RecordIsOfThePast, HasRecord
      <4>2. ~track'[j].breached
        BY <2>2, <4>1
      <4>3. /\ track'[j].status = "in_progress" /\ track'[j].start = clock
            /\ track'[j].end = track[j].end /\ track[j].end <= clock
        BY <2>2, <3>1, <3>2 DEF RecordIsOfThePast
      <4> QED BY <2>1, <3>1, <4>2, <4>3 DEF RecordIsOfThePast
    <3>3. CASE j # k
      BY <2>1, <2>2, <2>5, <3>1, <3>3 DEF RecordIsOfThePast
    <3> QED BY <3>2, <3>3
  <2>7. ASSUME NEW j \in Tracks PROVE MonitorIsOfThePast(j)'
    <3>1. MonitorIsOfThePast(j)
      BY DEF SlaInv
    <3>2. CASE j = k
      BY <2>1, <2>3, <2>5, <3>1, <3>2 DEF MonitorIsOfThePast
    <3>3. CASE j # k
      <4>1. monitor[j].pc \in {"warning", "critical"} =>
              monitor[j].record \in Tracks /\ monitor[j].record # k
        BY <2>5, <3>1 DEF MonitorIsOfThePast, HasRecord
      <4> DEFINE rec == monitor[j].record
      <4>2. /\ monitor'[j].pc = monitor[j].pc /\ monitor'[j].now = monitor[j].now
            /\ monitor'[j].record = rec
        BY <2>3, <3>3
      <4>3. monitor[j].pc \in {"warning", "critical"} => track'[rec] = track[rec]
        BY <2>2, <4>1
      <4>4. HasRecord(rec) => HasRecord(rec)'
        BY <2>5, <4>2
      <4> QED BY <2>1, <2>5, <3>1, <4>2, <4>3, <4>4 DEF MonitorIsOfThePast
    <3> QED BY <3>2, <3>3
  <2> QED BY <2>1, <2>4, <2>5, <2>6, <2>7 DEF SlaInv
<1>5. ASSUME NEW k \in Tracks, MonitorLooks(k)
      PROVE  SlaInv'
  <2>1. /\ monitor[k].pc = "awake" /\ Watched(k).status = "in_progress"
        /\ GoesOn(k, clock, Watched(k).sent)
    BY <1>5 DEF MonitorLooks
  <2>2. Watched(k) \in TrackRecords
    BY <1>1, <2>1 DEF SlaInv, MonitorIsOfThePast, HasRecord, Watched
  <2> QED BY <1>1, <2>1, <2>2, GoesOnKeeps DEF TrackRecords
<1>6. ASSUME NEW k \in Tracks, MonitorNotified(k)
      PROVE  SlaInv'
  <2>1. /\ monitor[k].pc \in {"warning", "critical"}
        /\ GoesOn(k, monitor[k].now, Watched(k).sent \cup {monitor[k].pc})
    BY <1>6 DEF MonitorNotified
  <2>2. Watched(k) \in TrackRecords /\ monitor[k].now \in 0..Horizon
    BY <1>1, <2>1 DEF SlaInv, MonitorIsOfThePast, HasRecord, Watched, MonitorRecords
  <2>3. /\ monitor[k].now <= clock
        /\ Watched(k).status = "in_progress" \/ monitor[k].now <= Watched(k).end
    BY <2>1 DEF SlaInv, MonitorIsOfThePast, Watched
  <2>4. Watched(k).sent \cup {monitor[k].pc} \in SUBSET {"warning", "critical"}
    BY <2>1, <2>2 DEF TrackRecords
  <2> QED BY <2>1, <2>2, <2>3, <2>4, GoesOnKeeps
<1>7. ASSUME NEW k \in Tracks, MonitorBegins(k) \/ MonitorEnds(k) \/ MonitorWakes(k)
      PROVE  SlaInv'
  <2>1. monitor[k] \in MonitorRecords /\ MonitorIsOfThePast(k)
    BY <1>1 DEF SlaInv
  <2>2. PICK new \in MonitorRecords :
          /\ monitor' = [monitor EXCEPT ![k] = new]
          /\ new.now = monitor[k].now /\ new.pc \in {"awake", "over"}
          /\ HasRecord(new.record)
    <3>1. CASE MonitorBegins(k)
      <4> DEFINE new == [monitor[k] EXCEPT !.pc = "awake", !.record = current]
      <4>1. monitor' = [monitor EXCEPT ![k] = new]
        BY <1>1, <3>1 DEF MonitorBegins
      <4>2. new \in MonitorRecords /\ new.now = monitor[k].now /\ new.pc = "awake"
            /\ new.record = current
        BY <1>1, <2>1 DEF MonitorRecords
      <4>3. HasRecord(current)
        BY <2>1, <3>1 DEF MonitorBegins, MonitorIsOfThePast
      <4> QED BY <4>1, <4>2, <4>3
    <3>2. ASSUME NEW pc \in {"awake", "over"}, monitor[k].pc \in {"awake", "asleep"},
                 monitor' = [monitor EXCEPT ![k].pc = pc]
          PROVE  \E new \in MonitorRecords :
                    /\ monitor' = [monitor EXCEPT ![k] = new]
                    /\ new.now = monitor[k].now /\ new.pc \in {"awake", "over"}
                    /\ HasRecord(new.record)
      <4> DEFINE new == [monitor[k] EXCEPT !.pc = pc]
      <4>1. monitor' = [monitor EXCEPT ![k] = new]
        BY <1>1, <3>2
      <4>2. new \in MonitorRecords /\ new.now = monitor[k].now /\ new.pc = pc
            /\ new.record = monitor[k].record
        BY <1>1, <2>1 DEF MonitorRecords
      <4>3. HasRecord(monitor[k].record)
        BY <2>1, <3>2 DEF MonitorIsOfThePast
      <4> QED BY <4>1, <4>2, <4>3
    <3>3. CASE MonitorEnds(k) \/ MonitorWakes(k)
      <4>1. \E pc \in {"awake", "over"} :
              monitor[k].pc \in {"awake", "asleep"} /\ monitor' = [monitor EXCEPT ![k].pc = pc]
        BY <3>3 DEF MonitorEnds, MonitorWakes
      <4> QED BY <3>2, <4>1
    <3> QED BY <1>7, <3>1, <3>3
  <2>3. monitor[k].pc # "off" /\ UNCHANGED <<clock, current, track>>
    BY <1>7 DEF MonitorBegins, MonitorEnds, MonitorWakes
  <2> QED BY <2>2, <2>3, MonitorMovesKeeps
<1>8. CASE UNCHANGED slaVars
  BY <1>8 DEF slaVars, SlaInv, SlaTypeOK, RecordIsOfThePast, MonitorIsOfThePast, HasRecord
<1> QED BY <1>2, <1>3, <1>4, <1>5, <1>6, <1>7, <1>8 DEF SlaNext, MonitorStep

\* A behaviour of Services is one of the SLA manager.
LEMMA SlaOfServices == Spec => SlaSpec
<1>1. Init => SlaInit
  BY DEF Init
<1>2. [Next]_vars => [SlaNext]_slaVars
  BY DEF Next, OthersRest, vars
<1> QED BY <1>1, <1>2, PTL DEF Spec, SlaSpec

LEMMA SlaInductive == SlaSpec => []SlaInv
<1>1. SlaInit => SlaInv
  <2> SUFFICES ASSUME SlaInit PROVE SlaInv
    OBVIOUS
  <2>1. NotTracked \in TrackRecords /\ NotMonitoring \in MonitorRecords
    BY SLAAssumption DEF NotTracked, TrackRecords, NotMonitoring, MonitorRecords
  <2>2. SlaTypeOK
    BY <2>1, SlaTypes, SLAAssumption DEF SlaInit
  <2>3. \A k \in Tracks : RecordIsOfThePast(k) /\ MonitorIsOfThePast(k)
    BY DEF SlaInit, NotTracked, NotMonitoring, RecordIsOfThePast, MonitorIsOfThePast,
           HasRecord, Untracked
  <2> QED BY <2>2, <2>3 DEF SlaInit, SlaInv
<1>2. SlaInv /\ [SlaNext]_slaVars => SlaInv'
  BY SlaNextKeeps
<1> QED BY <1>1, <1>2, PTL DEF SlaSpec

\* A workflow that completed within its target is not reported as a breach but
\* at the instant of the deadline, although _monitor_sla goes on after the
\* callbacks with the time it read before them and complete_workflow may come
\* in between.
THEOREM MetIsNotBreachedAlways == Spec => []MetIsNotBreached
<1>1. SlaInv => MetIsNotBreached
  <2> SUFFICES ASSUME SlaInv, NEW k \in Tracks, track[k].status = "completed",
                      track[k].met, track[k].breached
               PROVE  track[k].end - track[k].start = Target
    BY DEF MetIsNotBreached
  <2>1. track[k].end \in Nat /\ track[k].start \in Nat /\ Target \in Nat
    BY SlaTypes, SLAAssumption DEF SlaInv, TrackRecords
  <2> QED BY <2>1 DEF SlaInv, RecordIsOfThePast
<1> QED BY <1>1, SlaInductive, SlaOfServices, PTL

LEMMA SlaTypeCorrect == SlaSpec => []SlaTypeOK
<1>1. SlaInv => SlaTypeOK
  BY DEF SlaInv
<1> QED BY <1>1, SlaInductive, PTL

--------------------------------------------------------------------------------
(***************************************************************************)
(* TaskAssignment.                                                         *)
(***************************************************************************)
AssignmentSpec == AssignmentInit /\ [][AssignmentNext]_assignmentVars

AssignmentInv ==
  /\ assigned \in [Workers -> Nat]
  /\ NeverFarBehind

\* An agent who could have taken every task was among those the choice was
\* made from, so whoever was chosen was not ahead of that agent.
LEMMA AssignTaskKeeps ==
  ASSUME AssignmentInv, NEW pool \in Pools, NEW needsSkill, NEW limit,
         AssignTask(pool, needsSkill, limit)
  PROVE  AssignmentInv'
<1> DEFINE among == Eligible(pool, needsSkill, limit)
<1>1. PICK chosen \in Selectable(pool, among) :
        assigned' = [assigned EXCEPT ![chosen] = @ + 1]
  BY DEF AssignTask
<1>2. passedOver' = passedOver \cup (PoolAgents[pool] \ among)
  BY DEF AssignTask
<1>3. among \subseteq PoolAgents[pool] /\ PoolAgents[pool] \subseteq Workers
  BY PoolsAssumption DEF Eligible
<1> HIDE DEF among
<1>4. /\ chosen \in among
      /\ Strategy[pool] = "round_robin" =>
           \A a \in among : assigned[chosen] < assigned[a]
                            \/ (assigned[chosen] = assigned[a] /\ chosen <= a)
  BY DEF Selectable, FewestOf
<1>5. /\ assigned \in [Workers -> Nat]
      /\ \A a \in Workers : assigned'[a] = IF a = chosen THEN assigned[a] + 1 ELSE assigned[a]
  BY <1>1 DEF AssignmentInv
<1>6. assigned' \in [Workers -> Nat]
  <2>1. assigned[chosen] + 1 \in Nat
    BY <1>3, <1>4, <1>5
  <2> QED BY <1>1, <1>5, <2>1
<1>7. ASSUME NEW other \in Pools, Strategy[other] = "round_robin",
             NEW a \in PoolAgents[other], NEW b \in PoolAgents[other],
             a \notin passedOver', OnlyIn(other, b)
      PROVE  assigned'[b] <= assigned'[a] + 1
  <2>1. a \in Workers /\ b \in Workers
    BY PoolsAssumption
  <2>2. assigned[a] \in Nat /\ assigned[b] \in Nat /\ assigned[b] <= assigned[a] + 1
    BY <1>2, <1>5, <1>7, <2>1 DEF AssignmentInv, NeverFarBehind
  <2>3. CASE b = chosen
    <3>1. pool = other
      BY <1>3, <1>4, <1>7, <2>3 DEF OnlyIn
    <3>2. a \in among
      BY <1>2, <1>7, <3>1
    <3>3. assigned[b] <= assigned[a]
      BY <1>4, <1>7, <2>2, <2>3, <3>1, <3>2
    <3> QED BY <1>5, <2>1, <2>2, <2>3, <3>3
  <2>4. CASE b # chosen
    BY <1>5, <2>1, <2>2, <2>4
  <2> QED BY <2>3, <2>4
<1> QED BY <1>6, <1>7 DEF AssignmentInv, NeverFarBehind, OnlyIn

\* A behaviour of Services is one of the assignment of tasks.
LEMMA AssignmentOfServices == Spec => AssignmentSpec
<1>1. Init => AssignmentInit
  BY DEF Init
<1>2. [Next]_vars => [AssignmentNext]_assignmentVars
  BY DEF Next, OthersRest, vars
<1> QED BY <1>1, <1>2, PTL DEF Spec, AssignmentSpec

\* An agent of a round-robin pool who was eligible for every task is never more
\* than one assignment behind an agent of that pool alone: _select_agent goes
\* by the history of assignments, which no completion and no registration of
\* a pool touches.
THEOREM NeverFarBehindAlways == Spec => []NeverFarBehind
<1>1. AssignmentInit => AssignmentInv
  <2> SUFFICES ASSUME AssignmentInit PROVE AssignmentInv
    OBVIOUS
  <2>1. assigned \in [Workers -> Nat] /\ \A a \in Workers : assigned[a] = 0
    BY DEF AssignmentInit
  <2>2. \A pool \in Pools : PoolAgents[pool] \subseteq Workers
    BY PoolsAssumption
  <2>3. NeverFarBehind
    BY <2>1, <2>2 DEF NeverFarBehind
  <2> QED BY <2>1, <2>3 DEF AssignmentInv
<1>2. AssignmentInv /\ [AssignmentNext]_assignmentVars => AssignmentInv'
  <2> SUFFICES ASSUME AssignmentInv, [AssignmentNext]_assignmentVars
               PROVE  AssignmentInv'
    OBVIOUS
  <2>1. ASSUME UNCHANGED <<assigned, passedOver>>
        PROVE  AssignmentInv'
    BY <2>1 DEF AssignmentInv, NeverFarBehind, OnlyIn
  <2>2. ASSUME NEW pool \in Pools, RegisterPool(pool)
        PROVE  AssignmentInv'
    BY <2>1, <2>2 DEF RegisterPool
  <2>3. ASSUME NEW a \in Workers, CompleteTask(a)
        PROVE  AssignmentInv'
    BY <2>1, <2>3 DEF CompleteTask
  <2>4. CASE UNCHANGED assignmentVars
    BY <2>1, <2>4 DEF assignmentVars
  <2> QED BY <2>2, <2>3, <2>4, AssignTaskKeeps DEF AssignmentNext
<1>3. AssignmentInv => NeverFarBehind
  BY DEF AssignmentInv
<1> QED BY <1>1, <1>2, <1>3, AssignmentOfServices, PTL DEF AssignmentSpec

LEMMA AssignmentTypeCorrect == AssignmentSpec => []AssignmentTypeOK
<1>1. AssignmentInit => AssignmentTypeOK
  BY PoolsAssumption DEF AssignmentInit, AssignmentTypeOK
<1>2. AssignmentTypeOK /\ [AssignmentNext]_assignmentVars => AssignmentTypeOK'
  <2> SUFFICES ASSUME AssignmentTypeOK, [AssignmentNext]_assignmentVars
               PROVE  AssignmentTypeOK'
    OBVIOUS
  <2>1. ASSUME NEW pool \in Pools, RegisterPool(pool) PROVE AssignmentTypeOK'
    BY <2>1 DEF RegisterPool, AssignmentTypeOK
  <2>2. ASSUME NEW pool \in Pools, NEW needsSkill \in BOOLEAN, NEW limit \in {0, 1},
               AssignTask(pool, needsSkill, limit)
        PROVE  AssignmentTypeOK'
    <3> DEFINE among == Eligible(pool, needsSkill, limit)
    <3>1. /\ among \subseteq PoolAgents[pool] /\ PoolAgents[pool] \subseteq Workers
      BY PoolsAssumption DEF Eligible
    <3> HIDE DEF among
    <3>2. Selectable(pool, among) \subseteq Workers
      BY <3>1 DEF Selectable, FewestOf
    <3>3. PICK chosen \in Selectable(pool, among) :
            /\ assigned[chosen] < MaxAssigned
            /\ workload' = [workload EXCEPT ![chosen] = @ + 1]
            /\ assigned' = [assigned EXCEPT ![chosen] = @ + 1]
      BY <2>2 DEF AssignTask, among
    <3>4. chosen \in Workers
      BY <3>2, <3>3
    <3>5. workload \in [Workers -> Int] /\ assigned \in [Workers -> 0..MaxAssigned]
      BY DEF AssignmentTypeOK
    <3>6. assigned[chosen] + 1 \in 0..MaxAssigned
      BY <3>3, <3>4, <3>5, PoolsAssumption
    <3>7. assigned' \in [Workers -> 0..MaxAssigned]
      BY <3>3, <3>5, <3>6
    <3>8. workload' \in [Workers -> Int]
      BY <3>3, <3>4, <3>5
    <3>9. registered' \subseteq Pools /\ passedOver' \subseteq Workers
      BY <2>2, <3>1 DEF AssignTask, AssignmentTypeOK
    <3> QED BY <3>7, <3>8, <3>9 DEF AssignmentTypeOK
  <2>3. ASSUME NEW a \in Workers, CompleteTask(a) PROVE AssignmentTypeOK'
    BY <2>3 DEF CompleteTask, AssignmentTypeOK
  <2>4. CASE UNCHANGED assignmentVars
    BY <2>4 DEF assignmentVars, AssignmentTypeOK
  <2> QED BY <2>1, <2>2, <2>3, <2>4 DEF AssignmentNext
<1> QED BY <1>1, <1>2, PTL DEF AssignmentSpec

--------------------------------------------------------------------------------
(***************************************************************************)
(* StateManager.                                                           *)
(***************************************************************************)
StateSpec == StateInit /\ [][StateNext]_stateVars

Restored(v) == \E d \in Clients : call[d].op = "restore" /\ call[d].value = v

\* A value names the call that set it.
Written(v) == v \in Clients => call[v].op \in {"set", "update"}

\* The states a call goes through, with the values Redis has held so far: an
\* update with a version never stores.
Fits(c, r, once) ==
  /\ r.op = "update" => r.pc \in {"watch", "false", "raised"}
  /\ r.op \in {"set", "restore"} => r.pc \in {"set", "notify", "true", "raised"}
  /\ r.pc \in {"set", "notify"} =>
       /\ r.op = "restore" \/ (r.op = "set" /\ r.value = c)
       /\ r.value \in Clients
  /\ r.pc = "notify" => r.value \in once
  /\ r.op = "set" /\ r.pc = "true" => c \in once

\* Redis holds what was set without a version, and what a snapshot brought
\* back; listeners are told what Redis has stored.
StateInv ==
  /\ StateTypeOK
  /\ \A c \in Clients : Fits(c, call[c], storedOnce) /\ Written(call[c].value)
  /\ Written(stored) /\ Written(cached) /\ Written(snapshot)
  /\ \A v \in storedOnce : Restored(v) \/ call[v].op = "set"
  /\ notified \subseteq storedOnce

CallRecords ==
  [op: {"none", "set", "update", "get", "delete", "snapshot", "restore"},
   pc: {"idle", "set", "watch", "notify", "keys", "get", "got", "delete",
        "true", "false", "raised"},
   value: Values, matches: BOOLEAN]

\* Any step of one call: it begins an operation or goes on with the one it has,
\* and moves values that are already about, or its own.
LEMMA CallMoves ==
  ASSUME StateInv, StateTypeOK', NEW c \in Clients, NEW new \in CallRecords,
         call' = [call EXCEPT ![c] = new],
         call[c].pc = "idle" \/ (new.op = call[c].op),
         Fits(c, new, storedOnce'),
         \/ new.value \in {call[c].value, stored, snapshot}
         \/ new.value = c /\ new.op \in {"set", "update"},
         stored' \in {stored, new.value, NoValue},
         cached' \in {cached, new.value, NoValue},
         snapshot' \in {snapshot, cached, new.value, NoValue},
         NoValue \notin Clients,
         storedOnce \subseteq storedOnce',
         \A v \in storedOnce' \ storedOnce :
            v = new.value /\ (new.op = "restore" \/ (new.op = "set" /\ v = c)),
         call[c].op = "restore" => new.value = call[c].value,
         notified' \subseteq storedOnce'
  PROVE  StateInv'
<1>1. /\ call \in [Clients -> CallRecords]
      /\ storedOnce \subseteq Clients /\ storedOnce' \subseteq Clients
  BY DEF StateInv, StateTypeOK, CallRecords
<1>2. \A d \in Clients : call'[d] = IF d = c THEN new ELSE call[d]
  BY <1>1
<1>3. call[c].op \in {"set", "update", "restore"} => new.op = call[c].op
  BY DEF StateInv, Fits
<1>4. \A v : Restored(v) => Restored(v)'
  BY <1>2, <1>3 DEF Restored
<1>5. \A v : Written(v) => Written(v)'
  BY <1>2, <1>3 DEF Written
<1>6. Written(new.value)' /\ Written(NoValue)'
  <2>1. CASE new.value \in {call[c].value, stored, snapshot}
    BY <1>5, <2>1 DEF StateInv, Written
  <2>2. CASE new.value = c /\ new.op \in {"set", "update"}
    BY <1>2, <2>2 DEF Written
  <2> QED BY <2>1, <2>2
<1>7. Written(stored)' /\ Written(cached)' /\ Written(snapshot)'
  <2>1. Written(stored) /\ Written(cached) /\ Written(snapshot)
    BY DEF StateInv
  <2> QED BY <1>5, <1>6, <2>1 DEF Written
<1>8. ASSUME NEW d \in Clients
      PROVE  Fits(d, call'[d], storedOnce') /\ Written(call[d].value)'
  <2>1. CASE d = c
    BY <1>2, <1>6, <2>1 DEF Written
  <2>2. CASE d # c
    <3>1. Fits(d, call[d], storedOnce) /\ Written(call[d].value) /\ call'[d] = call[d]
      BY <1>2, <2>2 DEF StateInv
    <3>2. Fits(d, call'[d], storedOnce')
      BY <3>1 DEF Fits
    <3>3. Written(call[d].value)'
      BY <1>5, <3>1 DEF Written
    <3> QED BY <3>2, <3>3
  <2> QED BY <2>1, <2>2
<1>9. ASSUME NEW v \in storedOnce'
      PROVE  Restored(v)' \/ call'[v].op = "set"
  <2>1. CASE v \in storedOnce
    <3>1. v \in Clients /\ (Restored(v) \/ call[v].op = "set")
      BY <1>1, <2>1 DEF StateInv
    <3> QED BY <1>2, <1>3, <1>4, <3>1
  <2>2. CASE v \notin storedOnce
    <3>1. v = new.value /\ (new.op = "restore" \/ (new.op = "set" /\ v = c))
      BY <2>2
    <3> QED BY <1>2, <3>1 DEF Restored
  <2> QED BY <2>1, <2>2
<1> QED BY <1>7, <1>8, <1>9 DEF StateInv

LEMMA StateNextKeeps ==
  ASSUME StateInv, [StateNext]_stateVars, NoValue \notin Clients
  PROVE  StateInv'
<1>1. /\ StateTypeOK
      /\ call \in [Clients -> CallRecords]
      /\ stored \in Values /\ cached \in Values /\ snapshot \in Values
      /\ watched \in BOOLEAN
      /\ notified \subseteq Clients /\ storedOnce \subseteq Clients
      /\ notified \subseteq storedOnce
      /\ NoValue \in Values
  BY DEF StateInv, StateTypeOK, CallRecords, Values
<1>2. CASE WatchState
  BY <1>2 DEF WatchState, StateInv, StateTypeOK, Restored, Written
<1>3. ASSUME NEW c \in Clients, SetState(c) \/ RestoreSnapshot(c)
      PROVE  StateInv'
  <2>1. PICK op \in {"set", "update", "restore"}, value \in Clients, next \in {"set", "watch"},
             matches \in BOOLEAN :
          /\ call[c].pc = "idle"
          /\ op \in {"set", "update"} => value = c
          /\ op = "restore" => value = snapshot
          /\ next = IF op = "update" THEN "watch" ELSE "set"
          /\ Sets(c, op, value, next, matches)
    BY <1>1, <1>3 DEF SetState, RestoreSnapshot, Values
  <2> DEFINE new == [op |-> op, pc |-> next, value |-> value, matches |-> matches]
  <2>2. /\ new \in CallRecords /\ new.op = op /\ new.pc = next /\ new.value = value
    BY DEF CallRecords, Values
  <2>3. /\ call' = [call EXCEPT ![c] = new] /\ storedOnce' = storedOnce
        /\ notified' = notified /\ stored' = stored /\ snapshot' = snapshot
        /\ watched' = watched /\ cached' = value
    BY <2>1 DEF Sets, Others
  <2> HIDE DEF new
  <2>4. StateTypeOK'
    BY <1>1, <2>2, <2>3 DEF StateTypeOK, CallRecords, Values
  <2>5. Fits(c, new, storedOnce') /\ call[c].op # "restore"
    BY <2>1, <2>2 DEF Fits, StateInv
  <2> QED BY <1>1, <2>1, <2>2, <2>3, <2>4, <2>5, CallMoves
<1>4. ASSUME NEW c \in Clients, RedisStores(c) \/ NotifyListeners(c)
      PROVE  StateInv'
  <2>1. PICK pc1 \in {"notify", "true", "raised"} :
          /\ call' = [call EXCEPT ![c].pc = pc1]
          /\ pc1 = "true" => call[c].pc = "notify"
    BY <1>4 DEF RedisStores, NotifyListeners, To
  <2> DEFINE new == [call[c] EXCEPT !.pc = pc1]
  <2>2. call[c] \in CallRecords /\ Fits(c, call[c], storedOnce)
    BY <1>1 DEF StateInv
  <2>3. /\ new \in CallRecords /\ new.pc = pc1 /\ new.op = call[c].op
        /\ new.value = call[c].value
    BY <2>2 DEF CallRecords
  <2>4. call' = [call EXCEPT ![c] = new]
    BY <1>1, <2>1
  <2> HIDE DEF new
  <2>5. /\ call[c].pc \in {"set", "notify"} /\ new.value \in Clients
        /\ new.op = "restore" \/ (new.op = "set" /\ new.value = c)
    BY <1>4, <2>2, <2>3 DEF RedisStores, NotifyListeners, Fits
  <2>6. /\ storedOnce' \in {storedOnce, storedOnce \cup {new.value}}
        /\ new.value \in storedOnce'
        /\ notified' \subseteq notified \cup {new.value} /\ notified' \subseteq storedOnce'
        /\ stored' \in {stored, new.value}
        /\ cached' = cached /\ snapshot' = snapshot /\ watched' = watched
    BY <1>1, <1>4, <2>2, <2>3 DEF RedisStores, NotifyListeners, Fits
  <2>7. StateTypeOK'
    BY <1>1, <2>3, <2>4, <2>5, <2>6 DEF StateTypeOK, CallRecords, Values
  <2>8. Fits(c, new, storedOnce')
    BY <2>3, <2>5, <2>6 DEF Fits
  <2> QED BY <2>3, <2>4, <2>5, <2>6, <2>7, <2>8, CallMoves
<1>5. ASSUME NEW c \in Clients,
             \/ VersionCheck(c) \/ CacheAnswers(c) \/ Caches(c)
             \/ RedisDeletes(c) \/ RedisListsKeys(c) \/ RedisRaises(c)
      PROVE  StateInv'
  <2>1. PICK pc1 \in {"true", "false", "raised", "get"} :
          /\ call' = [call EXCEPT ![c].pc = pc1]
          /\ pc1 \in {"true", "get"} => call[c].pc \in {"get", "got", "delete", "keys"}
          /\ pc1 = "false" => call[c].pc = "watch"
    BY <1>5 DEF VersionCheck, CacheAnswers, Caches, RedisDeletes, RedisListsKeys, RedisRaises,
                Finishes, To
  <2> DEFINE new == [call[c] EXCEPT !.pc = pc1]
  <2>2. call[c] \in CallRecords /\ Fits(c, call[c], storedOnce)
    BY <1>1 DEF StateInv
  <2>3. /\ new \in CallRecords /\ new.pc = pc1 /\ new.op = call[c].op
        /\ new.value = call[c].value
    BY <2>2 DEF CallRecords
  <2>4. call' = [call EXCEPT ![c] = new]
    BY <1>1, <2>1
  <2> HIDE DEF new
  <2>5. /\ storedOnce' = storedOnce /\ notified' = notified /\ watched' = watched
        /\ stored' \in {stored, NoValue}
        /\ cached' \in {cached, new.value}
        /\ snapshot' \in {snapshot, cached, new.value, NoValue}
    <3>1. CASE VersionCheck(c) \/ RedisDeletes(c) \/ RedisRaises(c)
      BY <3>1 DEF VersionCheck, RedisDeletes, RedisRaises, Others
    <3>2. CASE CacheAnswers(c) \/ Caches(c) \/ RedisListsKeys(c)
      BY <2>3, <3>2 DEF CacheAnswers, Caches, RedisListsKeys, Finishes, Others
    <3> QED BY <1>5, <3>1, <3>2
  <2>6. call[c].pc \in {"set", "watch", "get", "got", "delete", "keys"}
    BY <1>5 DEF VersionCheck, CacheAnswers, Caches, RedisDeletes, RedisListsKeys, RedisRaises
  <2>7. Fits(c, new, storedOnce')
    BY <2>1, <2>2, <2>3, <2>5, <2>6 DEF Fits
  <2>8. StateTypeOK'
    <3>1. new.value \in Values
      BY <2>3 DEF CallRecords
    <3> QED BY <1>1, <2>3, <2>4, <2>5, <3>1 DEF StateTypeOK, CallRecords
  <2> QED BY <1>1, <2>3, <2>4, <2>5, <2>7, <2>8, CallMoves
<1>6. ASSUME NEW c \in Clients, RedisReads(c)
      PROVE  StateInv'
  <2> DEFINE new == [call[c] EXCEPT !.pc = "got", !.value = stored]
  <2>1. /\ call[c] \in CallRecords /\ Fits(c, call[c], storedOnce) /\ call[c].pc = "get"
        /\ call' = [call EXCEPT ![c].pc = "got", ![c].value = stored]
        /\ storedOnce' = storedOnce /\ notified' = notified /\ watched' = watched
        /\ stored' = stored /\ cached' = cached /\ snapshot' = snapshot
    BY <1>1, <1>6 DEF RedisReads, Others, StateInv
  <2>2. /\ new \in CallRecords /\ new.pc = "got" /\ new.op = call[c].op
        /\ new.value = stored
    BY <1>1, <2>1 DEF CallRecords
  <2>3. call' = [call EXCEPT ![c] = new]
    BY <1>1, <2>1
  <2> HIDE DEF new
  <2>4. StateTypeOK' /\ Fits(c, new, storedOnce') /\ call[c].op # "restore"
    <3>1. StateTypeOK'
      <4>1. call' \in [Clients -> CallRecords]
        BY <1>1, <2>2, <2>3
      <4> QED BY <1>1, <2>1, <4>1 DEF StateTypeOK, CallRecords
    <3>2. Fits(c, new, storedOnce') /\ call[c].op # "restore"
      BY <2>1, <2>2 DEF Fits
    <3> QED BY <3>1, <3>2
  <2> QED BY <1>1, <2>1, <2>2, <2>3, <2>4, CallMoves
<1>7. ASSUME NEW c \in Clients, GetState(c) \/ DeleteState(c) \/ CreateSnapshot(c)
      PROVE  StateInv'
  <2>1. PICK op \in {"get", "delete", "snapshot"}, pc1 \in {"get", "delete", "keys"} :
          call' = [call EXCEPT ![c].op = op, ![c].pc = pc1]
    BY <1>7 DEF GetState, DeleteState, CreateSnapshot, Begins
  <2> DEFINE new == [call[c] EXCEPT !.op = op, !.pc = pc1]
  <2>2. /\ call[c] \in CallRecords /\ Fits(c, call[c], storedOnce) /\ call[c].pc = "idle"
        /\ storedOnce' = storedOnce /\ notified' = notified /\ watched' = watched
        /\ stored' = stored /\ cached' \in {cached, NoValue} /\ snapshot' = snapshot
    BY <1>1, <1>7 DEF GetState, DeleteState, CreateSnapshot, Begins, Others, StateInv
  <2>3. /\ new \in CallRecords /\ new.pc = pc1 /\ new.op = op
        /\ new.value = call[c].value
    BY <2>2 DEF CallRecords
  <2>4. call' = [call EXCEPT ![c] = new]
    BY <1>1, <2>1
  <2> HIDE DEF new
  <2>5. StateTypeOK'
    BY <1>1, <2>2, <2>3, <2>4 DEF StateTypeOK, CallRecords
  <2>6. Fits(c, new, storedOnce') /\ call[c].op # "restore"
    BY <2>2, <2>3 DEF Fits
  <2> QED BY <1>1, <2>2, <2>3, <2>4, <2>5, <2>6, CallMoves
<1>8. CASE UNCHANGED stateVars
  BY <1>8 DEF stateVars, StateInv, StateTypeOK, Restored, Written
<1> QED BY <1>2, <1>3, <1>4, <1>5, <1>6, <1>7, <1>8 DEF StateNext

\* A behaviour of Services is one of the state manager.
LEMMA StateOfServices == Spec => StateSpec
<1>1. Init => StateInit
  BY DEF Init
<1>2. [Next]_vars => [StateNext]_stateVars
  BY DEF Next, OthersRest, vars
<1> QED BY <1>1, <1>2, PTL DEF Spec, StateSpec

LEMMA StateInductive == StateSpec => []StateInv
<1>1. StateInit => StateInv
  <2> SUFFICES ASSUME StateInit PROVE StateInv
    OBVIOUS
  <2>1. Idle \in CallRecords /\ NoValue \in Values
    BY DEF Idle, CallRecords, Values
  <2>2. /\ call \in [Clients -> CallRecords]
        /\ \A c \in Clients : call[c].op = "none" /\ call[c].pc = "idle" /\ call[c].value = NoValue
    BY <2>1 DEF StateInit, Idle
  <2>3. StateTypeOK
    BY <2>1, <2>2 DEF StateInit, StateTypeOK, CallRecords
  <2> QED BY <2>2, <2>3, NoValueAssumption DEF StateInit, StateInv, Fits, Written
<1>2. StateInv /\ [StateNext]_stateVars => StateInv'
  BY StateNextKeeps, NoValueAssumption
<1> QED BY <1>1, <1>2, PTL DEF StateSpec

\* An update with a version that was refused or raised is neither in Redis nor
\* told to a listener, ever, unless a snapshot brought it back, and what only the
\* cache has is of a call that has not returned True, whatever number of callers
\* interleave and whatever calls of Redis raise.
THEOREM RefusedStaysOutAlways == Spec => []RefusedStaysOut
<1>1. StateInv => RefusedStaysOut
  BY DEF StateInv, Fits, Written, StateTypeOK, RefusedStaysOut, Restored
<1> QED BY <1>1, StateInductive, StateOfServices, PTL

LEMMA StateTypeCorrect == StateSpec => []StateTypeOK
<1>1. StateInv => StateTypeOK
  BY DEF StateInv
<1> QED BY <1>1, StateInductive, PTL

--------------------------------------------------------------------------------
(***************************************************************************)
(* CommunicationBus.                                                       *)
(***************************************************************************)
BusSpec == BusInit /\ [][BusNext]_busVars

PublicationRecords ==
  [pc: {"new", "telling", "over"}, next: Nat \ {0}, owed: SUBSET Callbacks,
   dropped: Seq(Callbacks)]

\* Subscriber c has been given the message p, or the loop has yet to reach it.
StillServed(p, c) ==
  \/ p \in told[c]
  \/ \E k \in 1..Len(ListOf(p)) : publication[p].next <= k /\ ListOf(p)[k] = c

Served(p) ==
  /\ publication[p].pc = "new" => publication[p].next = 1 /\ publication[p].dropped = <<>>
  /\ publication[p].pc = "telling" /\ p \notin unsubscribed
       => \A c \in publication[p].owed : StillServed(p, c)
  /\ publication[p].pc = "over" /\ p \notin unsubscribed
       => \A c \in publication[p].owed : p \in told[c]

BusTypes ==
  /\ topic \in Seq(Callbacks)
  /\ history \in Seq(Publications)
  /\ replaying \in [Callbacks -> Seq(Publications)]
  /\ told \in [Callbacks -> SUBSET Publications]
  /\ publication \in [Publications -> PublicationRecords]

BusInv == BusTypes /\ \A p \in Publications : Served(p)

LEMMA ListOfTypes ==
  ASSUME BusTypes, NEW p \in Publications
  PROVE  /\ publication[p] \in PublicationRecords
         /\ publication[p].next \in Nat /\ publication[p].owed \subseteq Callbacks
         /\ ListOf(p) \in Seq(Callbacks) /\ Len(ListOf(p)) \in Nat
         /\ \A k \in 1..Len(ListOf(p)) : ListOf(p)[k] \in Callbacks
<1>1. /\ publication[p] \in PublicationRecords
      /\ publication[p].next \in Nat /\ publication[p].owed \subseteq Callbacks
      /\ publication[p].dropped \in Seq(Callbacks)
  BY DEF BusTypes, PublicationRecords
<1>2. ListOf(p) \in Seq(Callbacks)
  BY <1>1 DEF ListOf, BusTypes
<1> QED BY <1>1, <1>2, LenProperties, ElementOfSeq

\* What a step that does not touch publication p owes to it: the subscribers it
\* has told stay told and the list it goes through keeps its places.
LEMMA OthersAreServed ==
  ASSUME BusInv, NEW p \in Publications,
         publication'[p] = publication[p],
         p \in unsubscribed => p \in unsubscribed',
         \A c \in Callbacks : told[c] \subseteq told'[c],
         \/ topic' = topic
         \/ \E c \in Callbacks : topic' = Append(topic, c)
  PROVE  Served(p)'
<1>1. Served(p) /\ BusTypes
  BY DEF BusInv
<1>2. /\ Len(ListOf(p)) \in Nat /\ publication[p].owed \subseteq Callbacks
      /\ Len(topic) \in Nat /\ topic \in Seq(Callbacks)
  BY <1>1, ListOfTypes, LenProperties DEF BusTypes
<1>3. \/ ListOf(p)' = ListOf(p)
      \/ ListOf(p) = topic /\ ListOf(p)' = topic'
  BY DEF ListOf
<1>4. /\ Len(ListOf(p)') \in Nat /\ Len(ListOf(p)) <= Len(ListOf(p)')
      /\ \A k \in 1..Len(ListOf(p)) : ListOf(p)'[k] = ListOf(p)[k]
  <2>1. CASE topic' = topic
    BY <1>2, <1>3, <2>1
  <2>2. ASSUME NEW c \in Callbacks, topic' = Append(topic, c)
        PROVE  /\ Len(topic') = Len(topic) + 1
               /\ \A k \in 1..Len(topic) : topic'[k] = topic[k]
    BY <1>2, <2>2, AppendProperties
  <2> QED BY <1>2, <1>3, <2>1, <2>2
<1>5. ASSUME NEW c \in Callbacks, StillServed(p, c)
      PROVE  StillServed(p, c)'
  BY <1>2, <1>4, <1>5 DEF StillServed
<1> QED BY <1>1, <1>2, <1>5 DEF Served

\* A step of one publication alone.
LEMMA PublicationMoves ==
  ASSUME BusInv, NEW p \in Publications, NEW new \in PublicationRecords,
         publication' = [publication EXCEPT ![p] = new],
         UNCHANGED <<topic, replaying, unsubscribed>>,
         history' \in Seq(Publications),
         told' \in [Callbacks -> SUBSET Publications],
         \A c \in Callbacks : told[c] \subseteq told'[c],
         publication'[p] = new => Served(p)'
  PROVE  BusInv'
<1>1. publication \in [Publications -> PublicationRecords]
  BY DEF BusInv, BusTypes
<1>2. \A q \in Publications : publication'[q] = IF q = p THEN new ELSE publication[q]
  BY <1>1
<1>3. publication' \in [Publications -> PublicationRecords]
  BY <1>1
<1>4. BusTypes'
  BY <1>3 DEF BusInv, BusTypes
<1>5. ASSUME NEW q \in Publications PROVE Served(q)'
  <2>1. CASE q = p
    BY <1>2, <2>1
  <2>2. CASE q # p
    BY <1>2, <2>2, OthersAreServed
  <2> QED BY <2>1, <2>2
<1> QED BY <1>4, <1>5 DEF BusInv

LEMMA PublishKeeps ==
  ASSUME BusInv, NEW p \in Publications, NEW persist, Publish(p, persist)
  PROVE  BusInv'
<1> DEFINE new == [publication[p] EXCEPT
                     !.pc = IF topic = <<>> THEN "over" ELSE "telling", !.owed = ToSet(topic)]
<1>1. /\ publication[p] \in PublicationRecords /\ topic \in Seq(Callbacks)
      /\ publication \in [Publications -> PublicationRecords]
      /\ history \in Seq(Publications) /\ told \in [Callbacks -> SUBSET Publications]
  BY DEF BusInv, BusTypes
<1>2. /\ publication[p].pc = "new" /\ UNCHANGED <<topic, replaying, told, unsubscribed>>
      /\ history' = IF persist THEN Append(history, p) ELSE history
      /\ publication' = [publication EXCEPT ![p].pc = IF topic = <<>> THEN "over" ELSE "telling",
                                            ![p].owed = ToSet(topic)]
  BY DEF Publish
<1>3. publication[p].next = 1 /\ publication[p].dropped = <<>>
  BY <1>2 DEF BusInv, Served
<1>4. publication' = [publication EXCEPT ![p] = new]
  BY <1>1, <1>2
<1>5. /\ ToSet(topic) \subseteq Callbacks /\ Len(topic) \in Nat
      /\ ToSet(topic) = {topic[k] : k \in 1..Len(topic)}
  BY <1>1, ToSetOfSeq
<1>6. /\ new \in PublicationRecords /\ new.next = 1 /\ new.dropped = <<>>
      /\ new.owed = ToSet(topic)
      /\ new.pc = IF topic = <<>> THEN "over" ELSE "telling"
  BY <1>1, <1>3, <1>5 DEF PublicationRecords
<1> HIDE DEF new
<1>7. history' \in Seq(Publications)
  BY <1>1, <1>2, AppendProperties
<1>8. ASSUME publication'[p] = new PROVE Served(p)'
  <2>1. ListOf(p)' = topic
    BY <1>2, <1>6, <1>8 DEF ListOf
  <2>2. CASE topic = <<>>
    <3>1. ToSet(topic) = {}
      BY <1>5, <2>2
    <3> QED BY <1>6, <1>8, <2>2, <3>1 DEF Served
  <2>3. CASE topic # <<>>
    <3>1. \A c \in ToSet(topic) : StillServed(p, c)'
      BY <1>5, <1>6, <1>8, <2>1 DEF StillServed
    <3> QED BY <1>6, <1>8, <2>3, <3>1 DEF Served
  <2> QED BY <2>2, <2>3
<1> QED BY <1>1, <1>2, <1>4, <1>6, <1>7, <1>8, PublicationMoves

\* The loop goes one place on, and the subscriber at this place has been told.
LEMMA TellNextKeeps ==
  ASSUME BusInv, NEW p \in Publications, TellNext(p)
  PROVE  BusInv'
<1> DEFINE place == publication[p].next
           c == ListOf(p)[place]
           new == [publication[p] EXCEPT !.next = place + 1]
<1>1. /\ publication[p] \in PublicationRecords /\ place \in Nat \ {0}
      /\ publication[p].owed \subseteq Callbacks
      /\ Len(ListOf(p)) \in Nat
      /\ \A k \in 1..Len(ListOf(p)) : ListOf(p)[k] \in Callbacks
  BY ListOfTypes DEF BusInv, PublicationRecords
<1>2. /\ publication[p].pc = "telling" /\ place <= Len(ListOf(p))
      /\ told' = [told EXCEPT ![c] = @ \cup {p}]
      /\ UNCHANGED <<topic, history, replaying, unsubscribed>>
  BY DEF TellNext, Telling
<1>3. publication' = [publication EXCEPT ![p].next = place + 1]
  BY DEF TellNext, AfterError
<1>4. publication' = [publication EXCEPT ![p] = new]
  BY <1>3 DEF BusInv, BusTypes
<1>5. /\ new \in PublicationRecords /\ new.next = place + 1 /\ new.pc = "telling"
      /\ new.dropped = publication[p].dropped /\ new.owed = publication[p].owed
  BY <1>1, <1>2 DEF PublicationRecords
<1>6. c \in Callbacks
  BY <1>1, <1>2
<1>7. /\ told' \in [Callbacks -> SUBSET Publications]
      /\ \A d \in Callbacks : told[d] \subseteq told'[d]
      /\ p \in told'[c]
  BY <1>2, <1>6 DEF BusInv, BusTypes
<1> HIDE DEF new
<1>8. ASSUME publication'[p] = new PROVE Served(p)'
  <2>1. ListOf(p)' = ListOf(p)
    BY <1>2, <1>5, <1>8 DEF ListOf
  <2>2. ASSUME NEW d \in publication[p].owed, p \notin unsubscribed
        PROVE  StillServed(p, d)'
    <3>1. StillServed(p, d) /\ d \in Callbacks
      BY <1>1, <1>2, <2>2 DEF BusInv, Served
    <3>2. CASE p \in told[d]
      BY <1>7, <3>1, <3>2 DEF StillServed
    <3>3. ASSUME NEW k \in 1..Len(ListOf(p)), place <= k, ListOf(p)[k] = d
          PROVE  StillServed(p, d)'
      <4>1. CASE k = place
        BY <1>7, <3>3, <4>1 DEF StillServed
      <4>2. CASE k # place
        <5>1. place + 1 <= k
          BY <1>1, <3>3, <4>2
        <5> QED BY <1>5, <1>8, <2>1, <3>3, <5>1 DEF StillServed
      <4> QED BY <4>1, <4>2
    <3> QED BY <3>1, <3>2, <3>3 DEF StillServed
  <2> QED BY <1>2, <1>5, <1>8, <2>2 DEF Served
<1>9. history' \in Seq(Publications)
  BY <1>2 DEF BusInv, BusTypes
<1> QED BY <1>2, <1>4, <1>5, <1>7, <1>8, <1>9, PublicationMoves

LEMMA PublishReturnsKeeps ==
  ASSUME BusInv, NEW p \in Publications, PublishReturns(p)
  PROVE  BusInv'
<1> DEFINE new == [publication[p] EXCEPT !.pc = "over"]
<1>1. /\ publication[p] \in PublicationRecords /\ publication[p].next \in Nat
      /\ Len(ListOf(p)) \in Nat
  BY ListOfTypes DEF BusInv
<1>2. /\ publication[p].pc = "telling" /\ publication[p].next > Len(ListOf(p))
      /\ publication' = [publication EXCEPT ![p].pc = "over"]
      /\ UNCHANGED <<topic, history, replaying, told, unsubscribed>>
  BY DEF PublishReturns, Telling
<1>3. publication' = [publication EXCEPT ![p] = new]
  BY <1>2 DEF BusInv, BusTypes
<1>4. new \in PublicationRecords /\ new.pc = "over" /\ new.owed = publication[p].owed
  BY <1>1 DEF PublicationRecords
<1> HIDE DEF new
<1>5. p \notin unsubscribed => \A c \in publication[p].owed : p \in told[c]
  <2> SUFFICES ASSUME p \notin unsubscribed, NEW c \in publication[p].owed
               PROVE  p \in told[c]
    OBVIOUS
  <2>1. StillServed(p, c)
    BY <1>2 DEF BusInv, Served
  <2> QED BY <1>1, <1>2, <2>1 DEF StillServed
<1>6. publication'[p] = new => Served(p)'
  BY <1>2, <1>4, <1>5 DEF Served
<1>7. history' \in Seq(Publications) /\ told' \in [Callbacks -> SUBSET Publications]
  BY <1>2 DEF BusInv, BusTypes
<1> QED BY <1>2, <1>3, <1>4, <1>6, <1>7, PublicationMoves

LEMMA SubscribersKeep ==
  ASSUME BusInv, NEW c \in Callbacks, Subscribe(c) \/ Replay(c)
  PROVE  BusInv'
<1>1. publication' = publication /\ unsubscribed' = unsubscribed
  BY DEF Subscribe, Replay
<1>2. CASE Subscribe(c)
  <2>1. /\ topic' = Append(topic, c) /\ UNCHANGED <<history, told>>
        /\ replaying' = [replaying EXCEPT ![c] = history]
    BY <1>2 DEF Subscribe
  <2>2. topic' \in Seq(Callbacks) /\ replaying' \in [Callbacks -> Seq(Publications)]
    BY <2>1, AppendProperties DEF BusInv, BusTypes
  <2>3. BusTypes'
    BY <1>1, <2>1, <2>2 DEF BusInv, BusTypes
  <2>4. \A p \in Publications : Served(p)'
    BY <1>1, <2>1, OthersAreServed
  <2> QED BY <2>3, <2>4 DEF BusInv
<1>3. CASE Replay(c)
  <2>1. /\ replaying[c] # <<>> /\ UNCHANGED <<topic, history>>
        /\ told' = [told EXCEPT ![c] = @ \cup {Head(replaying[c])}]
        /\ replaying' = [replaying EXCEPT ![c] = Tail(@)]
    BY <1>3 DEF Replay
  <2>2. Head(replaying[c]) \in Publications /\ Tail(replaying[c]) \in Seq(Publications)
    BY <2>1, HeadTailProperties DEF BusInv, BusTypes
  <2>3. /\ replaying' \in [Callbacks -> Seq(Publications)]
        /\ told' \in [Callbacks -> SUBSET Publications]
        /\ \A d \in Callbacks : told[d] \subseteq told'[d]
    BY <2>1, <2>2 DEF BusInv, BusTypes
  <2>4. BusTypes'
    BY <1>1, <2>1, <2>3 DEF BusInv, BusTypes
  <2>5. \A p \in Publications : Served(p)'
    BY <1>1, <2>1, <2>3, OthersAreServed
  <2> QED BY <2>4, <2>5 DEF BusInv
<1> QED BY <1>2, <1>3

\* An unsubscription excuses every publication that is under way.
LEMMA UnsubscribeKeeps ==
  ASSUME BusInv, NEW c \in Callbacks, Unsubscribe(c)
  PROVE  BusInv'
<1>1. /\ topic' = RemoveFirst(topic, c) /\ unsubscribed' = unsubscribed \cup Telling
      /\ UNCHANGED <<history, publication, replaying, told>>
  BY DEF Unsubscribe
<1>2. topic' \in Seq(Callbacks)
  BY <1>1, ToSetOfRemoveFirst DEF BusInv, BusTypes
<1>3. BusTypes'
  BY <1>1, <1>2 DEF BusInv, BusTypes
<1>4. \A p \in Publications : Served(p)'
  BY <1>1 DEF BusInv, Served, Telling
<1> QED BY <1>3, <1>4 DEF BusInv

\* The loops under way take the list with them.
LEMMA CleanupKeeps ==
  ASSUME BusInv, CleanupExecution
  PROVE  BusInv'
<1>1. /\ topic # <<>> /\ topic' = <<>> /\ history' = <<>>
      /\ UNCHANGED <<replaying, told, unsubscribed>>
      /\ publication' = [p \in Publications |->
           IF p \in Telling /\ publication[p].dropped = <<>>
           THEN [publication[p] EXCEPT !.dropped = topic] ELSE publication[p]]
  BY DEF CleanupExecution
<1>2. topic \in Seq(Callbacks) /\ \A p \in Publications : publication[p] \in PublicationRecords
  BY DEF BusInv, BusTypes
<1>3. ASSUME NEW p \in Publications
      PROVE  /\ publication'[p] \in PublicationRecords
             /\ publication'[p].pc = publication[p].pc
             /\ publication'[p].next = publication[p].next
             /\ publication'[p].owed = publication[p].owed
             /\ publication[p].pc # "telling" => publication'[p].dropped = publication[p].dropped
             /\ publication[p].pc = "telling" => ListOf(p)' = ListOf(p)
  <2>1. CASE p \in Telling /\ publication[p].dropped = <<>>
    <3>1. publication'[p] = [publication[p] EXCEPT !.dropped = topic]
      BY <1>1, <2>1
    <3> QED BY <1>1, <1>2, <2>1, <3>1 DEF PublicationRecords, ListOf, Telling
  <2>2. CASE ~(p \in Telling /\ publication[p].dropped = <<>>)
    <3>1. publication'[p] = publication[p]
      BY <1>1, <2>2
    <3> QED BY <1>2, <2>2, <3>1 DEF ListOf, Telling
  <2> QED BY <2>1, <2>2
<1>4. BusTypes'
  <2>1. publication' \in [Publications -> PublicationRecords]
    BY <1>1, <1>3
  <2>2. topic' \in Seq(Callbacks) /\ history' \in Seq(Publications)
    BY <1>1, EmptySeq
  <2> QED BY <1>1, <2>1, <2>2 DEF BusInv, BusTypes
<1>5. ASSUME NEW p \in Publications PROVE Served(p)'
  <2>1. publication[p].pc = "telling" =>
          \A c : StillServed(p, c)' <=> StillServed(p, c)
    BY <1>1, <1>3 DEF StillServed
  <2> QED BY <1>1, <1>3, <2>1 DEF BusInv, Served
<1> QED BY <1>4, <1>5 DEF BusInv

\* A behaviour of Services is one of the bus.
LEMMA BusOfServices == Spec => BusSpec
<1>1. Init => BusInit
  BY DEF Init
<1>2. [Next]_vars => [BusNext]_busVars
  BY DEF Next, OthersRest, vars
<1> QED BY <1>1, <1>2, PTL DEF Spec, BusSpec

LEMMA BusInductive == BusSpec => []BusInv
<1>1. BusInit => BusInv
  <2> SUFFICES ASSUME BusInit PROVE BusInv
    OBVIOUS
  <2>1. NotPublished \in PublicationRecords
    BY EmptySeq DEF NotPublished, PublicationRecords
  <2>2. BusTypes
    BY <2>1, EmptySeq DEF BusInit, BusTypes
  <2>3. \A p \in Publications : Served(p)
    BY DEF BusInit, NotPublished, Served
  <2> QED BY <2>2, <2>3 DEF BusInv
<1>2. BusInv /\ [BusNext]_busVars => BusInv'
  <2> SUFFICES ASSUME BusInv, [BusNext]_busVars PROVE BusInv'
    OBVIOUS
  <2>1. CASE ProcessDeadLetter \/ UNCHANGED busVars
    <3>1. UNCHANGED <<topic, history, replaying, told, publication, unsubscribed>>
      BY <2>1 DEF ProcessDeadLetter, busVars
    <3> QED BY <3>1 DEF BusInv, BusTypes, Served, StillServed, ListOf
  <2> QED BY <2>1, SubscribersKeep, UnsubscribeKeeps, PublishKeeps, TellNextKeeps,
             PublishReturnsKeeps, CleanupKeeps DEF BusNext
<1> QED BY <1>1, <1>2, PTL DEF BusSpec

\* A subscriber that was there when a message was published has been given it
\* when publish returns, unless somebody unsubscribed meanwhile: subscriptions,
\* exceptions and a cleanup of the topic leave the loop its places.
THEOREM MissedOnlyByUnsubscribeAlways == Spec => []MissedOnlyByUnsubscribe
<1>1. BusInv => MissedOnlyByUnsubscribe
  BY DEF BusInv, Served, MissedOnlyByUnsubscribe
<1> QED BY <1>1, BusInductive, BusOfServices, PTL

\* The types of the bus.  A list has no more subscribers than have joined, and a
\* loop goes no further than the end of its list and one.
BusTyped ==
  /\ joined \subseteq Callbacks /\ unsubscribed \subseteq Publications
  /\ letters \subseteq Publications /\ processor \in BOOLEAN
  /\ Len(topic) <= Cardinality(joined)
  /\ \A p \in Publications :
       /\ Len(publication[p].dropped) <= Cardinality(joined)
       /\ publication[p].next <= Cardinality(Callbacks) + 1

\* Those who have joined can be counted.
LEMMA JoinedAreCounted ==
  ASSUME NEW J, J \subseteq Callbacks
  PROVE  /\ IsFiniteSet(J) /\ Cardinality(J) \in Nat /\ Cardinality(Callbacks) \in Nat
         /\ Cardinality(J) <= Cardinality(Callbacks)
         /\ \A c : c \notin J => Cardinality(J \cup {c}) = Cardinality(J) + 1
BY CallbacksAssumption, FS_Subset, FS_CardinalityType, FS_AddElement

LEMMA BusTypeKept ==
  ASSUME BusInv, BusInv', BusTyped, [BusNext]_busVars
  PROVE  BusTyped'
<1>1. /\ Cardinality(joined) \in Nat /\ Cardinality(Callbacks) \in Nat
      /\ Cardinality(joined) <= Cardinality(Callbacks)
      /\ \A c : c \notin joined => Cardinality(joined \cup {c}) = Cardinality(joined) + 1
  BY JoinedAreCounted DEF BusTyped
<1>2. /\ topic \in Seq(Callbacks) /\ Len(topic) \in Nat
      /\ publication \in [Publications -> PublicationRecords]
      /\ \A p \in Publications :
           /\ publication[p].dropped \in Seq(Callbacks)
           /\ Len(publication[p].dropped) \in Nat /\ publication[p].next \in Nat
  BY LenProperties DEF BusInv, BusTypes, PublicationRecords
<1>3. ASSUME UNCHANGED <<topic, joined, publication, processor>>,
             unsubscribed' \subseteq Publications, letters' \subseteq Publications
      PROVE  BusTyped'
  BY <1>3 DEF BusTyped
<1>4. ASSUME NEW p \in Publications, NEW new \in PublicationRecords,
             publication' = [publication EXCEPT ![p] = new],
             new.dropped = publication[p].dropped,
             new.next <= Cardinality(Callbacks) + 1,
             UNCHANGED <<topic, joined, unsubscribed, processor>>, letters' \subseteq Publications
      PROVE  BusTyped'
  <2>1. \A q \in Publications : publication'[q] = IF q = p THEN new ELSE publication[q]
    BY <1>2, <1>4
  <2> QED BY <1>4, <2>1 DEF BusTyped
<1>5. ASSUME NEW c \in Callbacks, Subscribe(c) PROVE BusTyped'
  <2>1. /\ c \notin joined /\ joined' = joined \cup {c} /\ topic' = Append(topic, c)
        /\ UNCHANGED <<publication, unsubscribed, letters, processor>>
    BY <1>5 DEF Subscribe
  <2>2. Len(topic') = Len(topic) + 1 /\ Cardinality(joined') = Cardinality(joined) + 1
    BY <1>1, <1>2, <2>1, AppendProperties
  <2>3. \A p \in Publications : Len(publication[p].dropped) <= Cardinality(joined')
    BY <1>1, <1>2, <2>2 DEF BusTyped
  <2>4. Len(topic') <= Cardinality(joined')
    BY <1>1, <1>2, <2>2 DEF BusTyped
  <2>5. joined' \subseteq Callbacks
    BY <2>1 DEF BusTyped
  <2> QED BY <2>1, <2>3, <2>4, <2>5 DEF BusTyped
<1>6. ASSUME NEW c \in Callbacks, Replay(c) PROVE BusTyped'
  BY <1>3, <1>6 DEF Replay, BusTyped
<1>7. ASSUME NEW c \in Callbacks, Unsubscribe(c) PROVE BusTyped'
  <2>1. /\ topic' = RemoveFirst(topic, c) /\ unsubscribed' \subseteq Publications
        /\ UNCHANGED <<joined, publication, letters, processor>>
    BY <1>7 DEF Unsubscribe, Telling, BusTyped
  <2>2. Len(topic') \in 0..Len(topic)
    BY <1>2, <2>1, ToSetOfRemoveFirst
  <2> QED BY <1>1, <1>2, <2>1, <2>2 DEF BusTyped
<1>8. ASSUME NEW p \in Publications, NEW persist \in BOOLEAN, Publish(p, persist)
      PROVE  BusTyped'
  <2> DEFINE new == [publication[p] EXCEPT
                       !.pc = IF topic = <<>> THEN "over" ELSE "telling", !.owed = ToSet(topic)]
  <2>1. publication[p] \in PublicationRecords
    BY <1>2
  <2>2. ToSet(topic) \subseteq Callbacks
    BY <1>2, ToSetOfSeq
  <2>3. /\ publication' = [publication EXCEPT ![p] = new]
        /\ UNCHANGED <<topic, joined, unsubscribed, letters, processor>>
    BY <1>2, <1>8 DEF Publish
  <2>4. /\ new \in PublicationRecords /\ new.dropped = publication[p].dropped
        /\ new.next = publication[p].next
    BY <2>1, <2>2 DEF PublicationRecords
  <2> HIDE DEF new
  <2> QED BY <1>4, <2>3, <2>4 DEF BusTyped
<1>9. ASSUME NEW p \in Publications, TellNext(p) PROVE BusTyped'
  <2> DEFINE place == publication[p].next
             new == [publication[p] EXCEPT !.next = place + 1]
  <2>1. publication[p] \in PublicationRecords /\ place \in Nat
    BY <1>2
  <2>2. /\ publication' = [publication EXCEPT ![p].next = place + 1]
        /\ letters' \subseteq Publications
        /\ place <= Len(ListOf(p))
        /\ UNCHANGED <<topic, joined, unsubscribed, processor>>
    BY <1>9 DEF TellNext, AfterError, BusTyped
  <2>3. publication' = [publication EXCEPT ![p] = new]
    BY <1>2, <2>2
  <2>4. Len(ListOf(p)) <= Cardinality(joined) /\ Len(ListOf(p)) \in Nat
    BY <1>2 DEF ListOf, BusTyped
  <2>5. place + 1 <= Cardinality(Callbacks) + 1
    BY <1>1, <2>1, <2>2, <2>4
  <2>6. /\ new \in PublicationRecords /\ new.dropped = publication[p].dropped
        /\ new.next = place + 1
    BY <2>1 DEF PublicationRecords
  <2> HIDE DEF new, place
  <2> QED BY <1>4, <2>2, <2>3, <2>5, <2>6
<1>10. ASSUME NEW p \in Publications, PublishReturns(p) PROVE BusTyped'
  <2> DEFINE new == [publication[p] EXCEPT !.pc = "over"]
  <2>1. publication[p] \in PublicationRecords
    BY <1>2
  <2>2. /\ publication' = [publication EXCEPT ![p] = new]
        /\ UNCHANGED <<topic, joined, unsubscribed, letters, processor>>
    BY <1>2, <1>10 DEF PublishReturns
  <2>3. /\ new \in PublicationRecords /\ new.dropped = publication[p].dropped
        /\ new.next = publication[p].next
    BY <2>1 DEF PublicationRecords
  <2> HIDE DEF new
  <2> QED BY <1>4, <2>2, <2>3 DEF BusTyped
<1>11. CASE ProcessDeadLetter
  BY <1>11 DEF ProcessDeadLetter, BusTyped
<1>12. CASE CleanupExecution
  <2>1. /\ topic' = <<>> /\ UNCHANGED <<joined, unsubscribed, letters, processor>>
        /\ publication' = [p \in Publications |->
             IF p \in Telling /\ publication[p].dropped = <<>>
             THEN [publication[p] EXCEPT !.dropped = topic] ELSE publication[p]]
    BY <1>12 DEF CleanupExecution
  <2>2. ASSUME NEW p \in Publications
        PROVE  /\ Len(publication'[p].dropped) <= Cardinality(joined)
               /\ publication'[p].next = publication[p].next
    <3>1. publication[p] \in PublicationRecords
      BY <1>2
    <3>2. CASE p \in Telling /\ publication[p].dropped = <<>>
      <4>1. publication'[p] = [publication[p] EXCEPT !.dropped = topic]
        BY <2>1, <3>2
      <4>2. publication'[p].dropped = topic /\ publication'[p].next = publication[p].next
        BY <3>1, <4>1 DEF PublicationRecords
      <4> QED BY <4>2 DEF BusTyped
    <3>3. CASE ~(p \in Telling /\ publication[p].dropped = <<>>)
      BY <2>1, <3>3 DEF BusTyped
    <3> QED BY <3>2, <3>3
  <2>3. Len(topic') = 0
    BY <2>1, EmptySeq
  <2> QED BY <1>1, <2>1, <2>2, <2>3 DEF BusTyped
<1>13. CASE UNCHANGED busVars
  BY <1>3, <1>13 DEF busVars, BusTyped
<1> QED BY <1>5, <1>6, <1>7, <1>8, <1>9, <1>10, <1>11, <1>12, <1>13 DEF BusNext

LEMMA BusTypeCorrect == BusSpec => []BusTypeOK
<1>1. BusInit => BusTyped
  <2> SUFFICES ASSUME BusInit PROVE BusTyped
    OBVIOUS
  <2>1. Len(<<>>) = 0 /\ Cardinality({}) = 0 /\ Cardinality(Callbacks) \in Nat
    BY EmptySeq, FS_EmptySet, CallbacksAssumption, FS_CardinalityType
  <2>2. \A p \in Publications : publication[p].next = 1 /\ publication[p].dropped = <<>>
    BY DEF BusInit, NotPublished
  <2> QED BY <2>1, <2>2 DEF BusInit, BusTyped
<1>2. BusInv /\ BusInv' /\ BusTyped /\ [BusNext]_busVars => BusTyped'
  BY BusTypeKept
<1>3. BusInv /\ BusTyped => BusTypeOK
  <2> SUFFICES ASSUME BusInv, BusTyped PROVE BusTypeOK
    OBVIOUS
  <2>1. \A p \in Publications : publication[p] \in PublicationRecords
    BY DEF BusInv, BusTypes
  <2>2. Cardinality(Callbacks) \in Nat
    BY CallbacksAssumption, FS_CardinalityType
  <2>3. ASSUME NEW p \in Publications
        PROVE  /\ publication[p].pc \in {"new", "telling", "over"}
               /\ publication[p].next \in 1..Cardinality(Callbacks) + 1
               /\ publication[p].owed \subseteq Callbacks
               /\ publication[p].dropped \in Seq(Callbacks)
    BY <2>1, <2>2 DEF PublicationRecords, BusTyped
  <2> QED BY <2>3 DEF BusInv, BusTypes, BusTyped, BusTypeOK
<1> QED BY <1>1, <1>2, <1>3, BusInductive, PTL DEF BusSpec

--------------------------------------------------------------------------------
(***************************************************************************)
(* ReportScheduler.                                                        *)
(***************************************************************************)
ReportsSpec == ReportsInit /\ [][ReportsNext]_reportVars

JobRecords == [status: {"none", "active", "paused", "deleted"}, nextRun: Nat]
ExecutionRecords == [pc: {"none", "created", "running", "over"}, start: Nat]

Created == {x \in Runs : execution[x].pc # "none"}

\* Without an overlap the executions follow one another, and the schedule goes
\* from each to the next: the job is not due before the time that the last one
\* planned, and an execution is created when the job is due.
OneAfterAnother ==
  /\ \A x, y \in Runs : x < y /\ y \in Created => execution[x].pc = "over"
  /\ job.status # "deleted" =>
       \A x \in Runs :
         /\ execution[x].pc = "over" => NextRun(execution[x].start) <= job.nextRun
         /\ execution[x].pc = "created" => job.nextRun <= minute
  /\ \A x, y \in Runs :
       x < y /\ execution[y].pc = "running" => NextRun(execution[x].start) <= execution[y].start

ReportsInv ==
  /\ minute \in Nat
  /\ job \in JobRecords
  /\ execution \in [Runs -> ExecutionRecords]
  /\ \A x \in Runs : execution[x].start <= minute
  /\ \E n \in Nat : Created = Runs \cap 1..n
  /\ job.status = "none" => Created = {}
  /\ ~overlap => OneAfterAnother

\* The next run of a schedule is not in the past.
LEMMA NextRunIsLater ==
  ASSUME ReportsAssumption, NEW from \in Nat
  PROVE  NextRun(from) \in Nat /\ from <= NextRun(from)
<1>1. Every \in Nat \ {0}
  BY DEF ReportsAssumption
<1> DEFINE q == from \div Every
<1>2. /\ q \in Nat
      /\ from < (q + 1) * Every
      /\ (q + 1) * Every \in Nat
  BY <1>1
<1> QED BY <1>1, <1>2 DEF NextRun

\* A new execution gets the first number that is free.
LEMMA NewIsNext ==
  ASSUME ReportsAssumption, ReportsInv, NEW x \in Runs, x = Cardinality(Created) + 1
  PROVE  Created = 1..x - 1
<1>1. PICK n \in Nat : Created = Runs \cap 1..n
  BY DEF ReportsInv
<1>2. PICK m \in Nat : Created = 1..m
  <2>1. CASE n <= Executes
    BY <1>1, <2>1 DEF Runs, ReportsAssumption
  <2>2. CASE n > Executes
    BY <1>1, <2>2 DEF Runs, ReportsAssumption
  <2> QED BY <2>1, <2>2 DEF ReportsAssumption
<1>3. Cardinality(1..m) = m
  BY FS_Interval
<1> QED BY <1>2, <1>3

\* A step that leaves the executions, and the time of the next run unless no
\* execution has been created.
LEMMA ScheduleMoves ==
  ASSUME ReportsInv,
         minute' \in Nat, minute <= minute',
         job' \in JobRecords,
         job'.nextRun = job.nextRun \/ Created = {},
         job.status = "deleted" => job'.status = "deleted",
         job'.status = "none" => job.status = "none",
         UNCHANGED <<cron, execution, overlap>>
  PROVE  ReportsInv'
<1>1. /\ minute \in Nat /\ job \in JobRecords /\ execution \in [Runs -> ExecutionRecords]
      /\ Created' = Created
  BY DEF ReportsInv, Created
<1>2. \A x \in Runs : execution[x].start \in Nat
  BY <1>1 DEF ExecutionRecords
<1>3. \A x \in Runs : execution[x].start <= minute'
  BY <1>1, <1>2 DEF ReportsInv
<1>4. \A from : NextRun(from)' = NextRun(from)
  BY DEF NextRun
<1>5. ASSUME OneAfterAnother PROVE OneAfterAnother'
  <2>1. ASSUME job'.status # "deleted", NEW x \in Runs
        PROVE  /\ execution[x].pc = "over" => NextRun(execution[x].start) <= job'.nextRun
               /\ execution[x].pc = "created" => job'.nextRun <= minute'
    <3>1. job.nextRun \in Nat
      BY <1>1 DEF JobRecords
    <3> QED BY <1>1, <1>5, <2>1, <3>1 DEF OneAfterAnother, Created
  <2> QED BY <1>1, <1>4, <1>5, <2>1 DEF OneAfterAnother
<1>6. job'.status = "none" => Created' = {}
  BY <1>1 DEF ReportsInv
<1> QED BY <1>1, <1>3, <1>5, <1>6 DEF ReportsInv

\* What the steps of one execution have in common.
LEMMA ExecutionMoves ==
  ASSUME ReportsInv, NEW x \in Runs, NEW new \in ExecutionRecords,
         execution' = [execution EXCEPT ![x] = new],
         new.pc # "none", new.start <= minute,
         x \notin Created => \E n \in Nat : Created \cup {x} = Runs \cap 1..n,
         job' \in JobRecords, job'.status # "none",
         minute' = minute,
         ~overlap' => OneAfterAnother'
  PROVE  ReportsInv'
<1>1. /\ minute \in Nat /\ execution \in [Runs -> ExecutionRecords]
  BY DEF ReportsInv
<1>2. \A y \in Runs : execution'[y] = IF y = x THEN new ELSE execution[y]
  BY <1>1
<1>3. execution' \in [Runs -> ExecutionRecords]
  BY <1>1
<1>4. Created' = Created \cup {x}
  BY <1>2 DEF Created
<1>5. \E n \in Nat : Created' = Runs \cap 1..n
  <2>1. CASE x \in Created
    <3>1. Created' = Created
      BY <1>4, <2>1
    <3> QED BY <3>1 DEF ReportsInv
  <2>2. CASE x \notin Created
    BY <1>4, <2>2
  <2> QED BY <2>1, <2>2
<1>6. \A y \in Runs : execution'[y].start <= minute'
  BY <1>2 DEF ReportsInv
<1> QED BY <1>1, <1>3, <1>5, <1>6 DEF ReportsInv

\* The loop creates an execution when the job is due.
LEMMA LoopLooksKeeps ==
  ASSUME ReportsInv, LoopLooks
  PROVE  ReportsInv'
<1>1. /\ minute' = minute /\ cron' = cron /\ job' = job /\ job.status # "none"
      /\ minute \in Nat /\ job \in JobRecords /\ execution \in [Runs -> ExecutionRecords]
  BY DEF LoopLooks, ReportsInv
<1>2. CASE ~Due
  BY <1>1, <1>2, ScheduleMoves DEF LoopLooks
<1>3. CASE Due
  <2>1. PICK x \in Runs :
          /\ x = Cardinality(Created) + 1
          /\ execution' = [execution EXCEPT ![x].pc = "created"]
          /\ overlap' = (overlap \/ \E y \in Runs : execution[y].pc \in {"created", "running"})
    BY <1>3 DEF LoopLooks, Created
  <2>2. Created = 1..x - 1
    BY <2>1, NewIsNext, ReportsAssumption
  <2>3. x \in Nat /\ x \notin Created /\ execution[x].pc = "none"
    BY <2>2, ReportsAssumption DEF Runs, Created
  <2>4. Created \cup {x} = Runs \cap 1..x
    BY <2>2, ReportsAssumption DEF Runs
  <2> DEFINE new == [execution[x] EXCEPT !.pc = "created"]
  <2>5. execution' = [execution EXCEPT ![x] = new]
    BY <1>1, <2>1
  <2>6. new \in ExecutionRecords /\ new.pc = "created" /\ new.start = execution[x].start
    BY <1>1 DEF ExecutionRecords
  <2> HIDE DEF new
  <2>7. \A y \in Runs : execution'[y] = IF y = x THEN new ELSE execution[y]
    BY <1>1, <2>5
  <2>8. ASSUME ~overlap' PROVE OneAfterAnother'
    <3>1. OneAfterAnother /\ \A y \in Runs : execution[y].pc \notin {"created", "running"}
      BY <2>1, <2>8 DEF ReportsInv
    <3>2. \A y \in Runs : y \in Created => execution[y].pc = "over"
      BY <1>1, <3>1 DEF Created, ExecutionRecords
    <3>3. \A from : NextRun(from)' = NextRun(from)
      BY <1>1 DEF NextRun
    <3>4. ASSUME NEW a \in Runs, NEW b \in Runs, a < b, b \in Created'
          PROVE  execution'[a].pc = "over"
      <4>1. b \in Created \cup {x}
        BY <2>7, <3>4 DEF Created
      <4>2. a \in Created /\ a # x
        BY <2>2, <2>3, <3>4, <4>1, ReportsAssumption DEF Runs
      <4> QED BY <2>7, <3>2, <4>2
    <3>5. ASSUME NEW a \in Runs
          PROVE  /\ execution'[a].pc = "over" => NextRun(execution'[a].start) <= job'.nextRun
                 /\ execution'[a].pc = "created" => job'.nextRun <= minute'
      <4>1. CASE a = x
        BY <1>1, <1>3, <2>6, <2>7, <4>1 DEF Due
      <4>2. CASE a # x
        BY <1>1, <1>3, <2>7, <3>1, <4>2 DEF Due, OneAfterAnother
      <4> QED BY <4>1, <4>2
    <3>6. \A a \in Runs : execution'[a].pc # "running"
      BY <2>6, <2>7, <3>1
    <3> QED BY <3>3, <3>4, <3>5, <3>6 DEF OneAfterAnother
  <2>9. new.start <= minute
    BY <2>6 DEF ReportsInv
  <2> QED BY <1>1, <2>3, <2>4, <2>5, <2>6, <2>8, <2>9, ExecutionMoves
<1> QED BY <1>2, <1>3

\* The execution that begins is the only one that is not over, and the job was
\* due when it was created.
LEMMA ExecuteJobKeeps ==
  ASSUME ReportsInv, NEW x \in Runs, ExecuteJob(x)
  PROVE  ReportsInv'
<1>1. /\ minute' = minute /\ cron' = cron /\ job' = job /\ overlap' = overlap
      /\ execution[x].pc = "created" /\ x \in Created
      /\ minute \in Nat /\ job \in JobRecords /\ execution \in [Runs -> ExecutionRecords]
  BY DEF ExecuteJob, ReportsInv, Created
<1> DEFINE new == IF job.status = "deleted" THEN [execution[x] EXCEPT !.pc = "over"]
                  ELSE [pc |-> "running", start |-> minute]
<1>2. execution' = [execution EXCEPT ![x] = new]
  BY <1>1 DEF ExecuteJob
<1>3. /\ new \in ExecutionRecords /\ new.pc \in {"over", "running"}
      /\ job.status = "deleted" => new.pc = "over" /\ new.start = execution[x].start
      /\ job.status # "deleted" => new.pc = "running" /\ new.start = minute
  BY <1>1 DEF ExecutionRecords
<1> HIDE DEF new
<1>4. \A y \in Runs : execution'[y] = IF y = x THEN new ELSE execution[y]
  BY <1>1, <1>2
<1>5. new.start <= minute
  BY <1>1, <1>3 DEF ReportsInv
<1>6. job.status # "none"
  BY <1>1 DEF ReportsInv
<1>7. ASSUME ~overlap' PROVE OneAfterAnother'
  <2>1. OneAfterAnother
    BY <1>1, <1>7 DEF ReportsInv
  <2>2. \A from : NextRun(from)' = NextRun(from)
    BY <1>1 DEF NextRun
  <2>3. Created' = Created
    BY <1>1, <1>3, <1>4 DEF Created
  <2>4. \A a \in Runs : a < x => execution[a].pc = "over"
    BY <1>1, <2>1 DEF OneAfterAnother
  <2>5. \A a \in Runs : x < a => a \notin Created
    BY <1>1, <2>1 DEF OneAfterAnother
  <2>6. ASSUME NEW a \in Runs, NEW b \in Runs, a < b, b \in Created'
        PROVE  execution'[a].pc = "over"
    BY <1>4, <2>1, <2>3, <2>5, <2>6 DEF OneAfterAnother
  <2>7. ASSUME job'.status # "deleted", NEW a \in Runs
        PROVE  /\ execution'[a].pc = "over" => NextRun(execution'[a].start) <= job'.nextRun
               /\ execution'[a].pc = "created" => job'.nextRun <= minute'
    <3>1. CASE a = x
      BY <1>1, <1>3, <1>4, <2>7, <3>1
    <3>2. CASE a # x
      BY <1>1, <1>4, <2>1, <2>7, <3>2 DEF OneAfterAnother
    <3> QED BY <3>1, <3>2
  <2>8. ASSUME NEW a \in Runs, NEW b \in Runs, a < b, execution'[b].pc = "running"
        PROVE  NextRun(execution'[a].start) <= execution'[b].start
    <3>1. CASE b = x
      <4>1. job.status # "deleted" /\ execution'[b].start = minute
        BY <1>3, <1>4, <2>8, <3>1
      <4>2. a # x /\ execution[a].pc = "over"
        BY <2>4, <2>8, <3>1, ReportsAssumption DEF Runs
      <4>3. NextRun(execution[a].start) <= job.nextRun /\ job.nextRun <= minute
        BY <1>1, <2>1, <4>1, <4>2 DEF OneAfterAnother
      <4>4. execution[a].start \in Nat /\ job.nextRun \in Nat
        BY <1>1 DEF ExecutionRecords, JobRecords
      <4>5. NextRun(execution[a].start) \in Nat
        BY <4>4, NextRunIsLater, ReportsAssumption
      <4>6. execution'[a].start = execution[a].start
        BY <1>4, <4>2
      <4> HIDE DEF new
      <4> QED BY <1>1, <4>1, <4>3, <4>4, <4>5, <4>6
    <3>2. CASE b # x
      <4>1. b \in Created /\ execution[b].pc = "running"
        BY <1>4, <2>8, <3>2 DEF Created
      <4>2. ~(b < x) /\ ~(x < b)
        BY <2>4, <2>5, <4>1
      <4> QED BY <3>2, <4>2, ReportsAssumption DEF Runs
    <3> QED BY <3>1, <3>2
  <2> QED BY <2>2, <2>6, <2>7, <2>8 DEF OneAfterAnother
<1>8. new.pc # "none"
  BY <1>3
<1> QED BY <1>1, <1>2, <1>3, <1>5, <1>6, <1>7, <1>8, ExecutionMoves

\* The execution that ends began after the times all the earlier ones planned,
\* so the time that it plans is later than those.
LEMMA ExecutionEndsKeeps ==
  ASSUME ReportsInv, NEW x \in Runs, ExecutionEnds(x)
  PROVE  ReportsInv'
<1> DEFINE start == execution[x].start
           next == NextRun(start)
           new == [execution[x] EXCEPT !.pc = "over"]
<1>1. /\ minute' = minute /\ cron' = cron /\ overlap' = overlap
      /\ execution[x].pc = "running" /\ x \in Created
      /\ job' = [job EXCEPT !.nextRun = next]
      /\ minute \in Nat /\ job \in JobRecords /\ execution \in [Runs -> ExecutionRecords]
  BY DEF ExecutionEnds, ReportsInv, Created
<1>2. execution' = [execution EXCEPT ![x] = new]
  BY <1>1 DEF ExecutionEnds
<1>3. new \in ExecutionRecords /\ new.pc = "over" /\ new.start = start
  BY <1>1 DEF ExecutionRecords
<1>4. start \in Nat /\ start <= minute
  BY <1>1 DEF ReportsInv, ExecutionRecords
<1>5. next \in Nat /\ start <= next
  BY <1>4, NextRunIsLater, ReportsAssumption
<1> HIDE DEF new, next
<1>6. job' \in JobRecords /\ job'.status = job.status /\ job'.nextRun = next
  BY <1>1, <1>5 DEF JobRecords
<1>7. \A y \in Runs : execution'[y] = IF y = x THEN new ELSE execution[y]
  BY <1>1, <1>2
<1>8. job.status # "none"
  BY <1>1 DEF ReportsInv
<1>9. ASSUME ~overlap' PROVE OneAfterAnother'
  <2>1. OneAfterAnother
    BY <1>1, <1>9 DEF ReportsInv
  <2>2. \A from : NextRun(from)' = NextRun(from)
    BY <1>1 DEF NextRun
  <2>3. Created' = Created
    BY <1>1, <1>3, <1>7 DEF Created
  <2>4. \A a \in Runs : a < x => execution[a].pc = "over"
    BY <1>1, <2>1 DEF OneAfterAnother
  <2>5. \A a \in Runs : x < a => a \notin Created
    BY <1>1, <2>1 DEF OneAfterAnother
  <2>6. ASSUME NEW a \in Runs, NEW b \in Runs, a < b, b \in Created'
        PROVE  execution'[a].pc = "over"
    BY <1>3, <1>7, <2>1, <2>3, <2>6 DEF OneAfterAnother
  <2>7. ASSUME NEW a \in Runs
        PROVE  /\ execution'[a].pc = "over" => NextRun(execution'[a].start) <= job'.nextRun
               /\ execution'[a].pc # "created"
    <3>1. CASE a = x
      <4>1. execution'[a].start = start /\ execution'[a].pc = "over"
        BY <1>3, <1>7, <3>1
      <4> QED BY <1>5, <1>6, <4>1 DEF next
    <3>2. CASE a < x
      <4>1. execution'[a] = execution[a] /\ execution[a].start \in Nat
        BY <1>1, <1>7, <3>2, ReportsAssumption DEF Runs, ExecutionRecords
      <4>2. NextRun(execution[a].start) <= start /\ NextRun(execution[a].start) \in Nat
        BY <1>1, <2>1, <3>2, <4>1, NextRunIsLater, ReportsAssumption DEF OneAfterAnother
      <4>3. NextRun(execution[a].start) <= next
        BY <1>4, <1>5, <4>2
      <4>4. execution[a].pc = "over"
        BY <2>4, <3>2
      <4> QED BY <1>6, <4>1, <4>3, <4>4
    <3>3. CASE x < a
      <4>1. execution'[a].pc = "none"
        BY <1>7, <2>5, <3>3, ReportsAssumption DEF Created, Runs
      <4> QED BY <4>1
    <3> QED BY <3>1, <3>2, <3>3, ReportsAssumption DEF Runs
  <2>8. \A a \in Runs : execution'[a].pc # "running"
    <3> TAKE a \in Runs
    <3>1. CASE a = x
      BY <1>3, <1>7, <3>1
    <3>2. CASE a < x
      BY <1>7, <2>4, <3>2, ReportsAssumption DEF Runs
    <3>3. CASE x < a
      BY <1>7, <2>5, <3>3, ReportsAssumption DEF Created, Runs
    <3> QED BY <3>1, <3>2, <3>3, ReportsAssumption DEF Runs
  <2> QED BY <2>2, <2>6, <2>7, <2>8 DEF OneAfterAnother
<1>10. new.pc # "none" /\ new.start <= minute /\ job'.status # "none"
  BY <1>3, <1>4, <1>6, <1>8
<1> QED BY <1>1, <1>2, <1>3, <1>6, <1>9, <1>10, ExecutionMoves

\* A behaviour of Services is one of the scheduler of reports.
LEMMA ReportsOfServices == Spec => ReportsSpec
<1>1. Init => ReportsInit
  BY DEF Init
<1>2. [Next]_vars => [ReportsNext]_reportVars
  BY DEF Next, OthersRest, vars
<1> QED BY <1>1, <1>2, PTL DEF Spec, ReportsSpec

\* Between the starts of two executions lies a time of the schedule, however
\* late _scheduler_loop wakes and whatever is paused, resumed or deleted, unless
\* an execution has begun before another had ended.
THEOREM RunAgainOnlyAfterOverlapAlways == Spec => []RunAgainOnlyAfterOverlap
<1>1. ReportsInit => ReportsInv
  <2> SUFFICES ASSUME ReportsInit PROVE ReportsInv
    OBVIOUS
  <2>1. /\ execution \in [Runs -> ExecutionRecords]
        /\ \A x \in Runs : execution[x].pc = "none" /\ execution[x].start = 0
    BY DEF ReportsInit, NotExecuted, ExecutionRecords
  <2>2. Created = {} /\ Created = Runs \cap 1..0
    BY <2>1 DEF Created
  <2>3. OneAfterAnother
    BY <2>1 DEF OneAfterAnother, Created
  <2>4. minute \in Nat /\ job \in JobRecords /\ \A x \in Runs : execution[x].start <= minute
    BY <2>1 DEF ReportsInit, JobRecords
  <2> QED BY <2>1, <2>2, <2>3, <2>4 DEF ReportsInv
<1>2. ReportsInv /\ [ReportsNext]_reportVars => ReportsInv'
  <2> SUFFICES ASSUME ReportsInv, [ReportsNext]_reportVars PROVE ReportsInv'
    OBVIOUS
  <2>1. minute \in Nat /\ job \in JobRecords
    BY DEF ReportsInv
  <2>2. CASE MinutePasses
    BY <2>1, <2>2, ScheduleMoves DEF MinutePasses
  <2>3. CASE ScheduleJob
    <3>1. NextRun(minute) \in Nat
      BY <2>1, NextRunIsLater, ReportsAssumption
    <3>2. job' \in JobRecords /\ Created = {}
      BY <2>3, <3>1 DEF ScheduleJob, JobRecords, ReportsInv
    <3> QED BY <2>1, <2>3, <3>2, ScheduleMoves DEF ScheduleJob
  <2>4. CASE PauseJob \/ ResumeJob \/ DeleteJob
    <3>1. PICK status \in {"active", "paused", "deleted"} :
            job.status \in {"active", "paused"} /\ JobBecomes(status)
      BY <2>4 DEF PauseJob, ResumeJob, DeleteJob
    <3>2. job' \in JobRecords /\ job'.status = status /\ job'.nextRun = job.nextRun
      BY <2>1, <3>1 DEF JobBecomes, JobRecords
    <3> QED BY <2>1, <3>1, <3>2, ScheduleMoves DEF JobBecomes
  <2>5. CASE UNCHANGED reportVars
    BY <2>1, <2>5, ScheduleMoves DEF reportVars
  <2> QED BY <2>2, <2>3, <2>4, <2>5, LoopLooksKeeps, ExecuteJobKeeps, ExecutionEndsKeeps
          DEF ReportsNext
<1>3. ReportsInv => RunAgainOnlyAfterOverlap
  BY DEF ReportsInv, OneAfterAnother, RunAgainOnlyAfterOverlap, NextRun
<1> QED BY <1>1, <1>2, <1>3, ReportsOfServices, PTL DEF ReportsSpec

\* The next run of a schedule is no more than a period away.
LEMMA NextRunIsNear ==
  ASSUME NEW from \in Nat
  PROVE  NextRun(from) \in 0..from + Every
<1>1. Every \in Nat \ {0}
  BY ReportsAssumption
<1> DEFINE q == from \div Every
<1>2. q \in Nat /\ q * Every <= from /\ (q + 1) * Every = q * Every + Every
      /\ q * Every \in Nat
  BY <1>1
<1>3. (q + 1) * Every \in 0..from + Every
  BY <1>1, <1>2
<1> QED BY <1>1, <1>3 DEF NextRun

LEMMA ReportsTypeKept ==
  ASSUME ReportsTypeOK, [ReportsNext]_reportVars
  PROVE  ReportsTypeOK'
<1> DEFINE JobRecord == [status: {"none", "active", "paused", "deleted"},
                         nextRun: 0..LastMinute + Every]
           RunRecord == [pc: {"none", "created", "running", "over"}, start: 0..LastMinute]
<1>1. /\ minute \in 0..LastMinute /\ cron \in BOOLEAN /\ overlap \in BOOLEAN
      /\ job \in JobRecord /\ wakes \in 0..LastMinute + Nap
      /\ execution \in [Runs -> RunRecord]
      /\ LastMinute \in Nat /\ Every \in Nat /\ Nap \in Nat
  BY ReportsAssumption DEF ReportsTypeOK
<1>2. ASSUME NEW from \in 0..LastMinute PROVE NextRun(from) \in 0..LastMinute + Every
  <2>1. NextRun(from) \in 0..from + Every /\ from \in Nat
    BY <1>1, NextRunIsNear
  <2> QED BY <1>1, <2>1
<1>3. ASSUME NEW x \in Runs, NEW new \in RunRecord, execution' = [execution EXCEPT ![x] = new]
      PROVE  execution' \in [Runs -> RunRecord]
  <2> HIDE DEF RunRecord
  <2> QED BY <1>1, <1>3
<1>4. CASE MinutePasses
  <2>1. minute' \in 0..LastMinute
    BY <1>1, <1>4 DEF MinutePasses
  <2> QED BY <1>1, <1>4, <2>1 DEF MinutePasses, ReportsTypeOK
<1>5. CASE ScheduleJob
  <2>1. job' \in JobRecord /\ wakes' \in 0..LastMinute + Nap
    BY <1>1, <1>2, <1>5 DEF ScheduleJob
  <2> QED BY <1>1, <1>5, <2>1 DEF ScheduleJob, ReportsTypeOK
<1>6. ASSUME NEW status \in {"paused", "active", "deleted"}, JobBecomes(status)
      PROVE  ReportsTypeOK'
  <2>1. job' \in JobRecord
    BY <1>1, <1>6 DEF JobBecomes
  <2> QED BY <1>1, <1>6, <2>1 DEF JobBecomes, ReportsTypeOK
<1>7. CASE LoopLooks
  <2>1. wakes' \in 0..LastMinute + Nap
    BY <1>1, <1>7 DEF LoopLooks
  <2>2. execution' \in [Runs -> RunRecord] /\ overlap' \in BOOLEAN
    <3>1. CASE ~Due
      BY <1>1, <1>7, <3>1 DEF LoopLooks
    <3>2. CASE Due
      <4>1. PICK x \in Runs :
              /\ execution' = [execution EXCEPT ![x].pc = "created"]
              /\ overlap' = (overlap \/ \E y \in Runs :
                               execution[y].pc \in {"created", "running"})
        BY <1>7, <3>2 DEF LoopLooks
      <4>2. execution' = [execution EXCEPT ![x] = [execution[x] EXCEPT !.pc = "created"]]
        BY <1>1, <4>1
      <4>3. [execution[x] EXCEPT !.pc = "created"] \in RunRecord
        BY <1>1
      <4>4. overlap' \in BOOLEAN
        BY <4>1
      <4> HIDE DEF RunRecord
      <4> QED BY <1>3, <4>2, <4>3, <4>4
    <3> QED BY <3>1, <3>2
  <2> QED BY <1>1, <1>7, <2>1, <2>2 DEF LoopLooks, ReportsTypeOK
<1>8. ASSUME NEW x \in Runs, ExecuteJob(x) PROVE ReportsTypeOK'
  <2> DEFINE new == IF job.status = "deleted" THEN [execution[x] EXCEPT !.pc = "over"]
                    ELSE [pc |-> "running", start |-> minute]
  <2>1. execution' = [execution EXCEPT ![x] = new]
    BY <1>1, <1>8 DEF ExecuteJob
  <2>2. new \in RunRecord
    BY <1>1
  <2> HIDE DEF new
  <2>3. execution' \in [Runs -> RunRecord]
    BY <1>3, <2>1, <2>2
  <2> QED BY <1>1, <1>8, <2>3 DEF ExecuteJob, ReportsTypeOK
<1>9. ASSUME NEW x \in Runs, ExecutionEnds(x) PROVE ReportsTypeOK'
  <2>1. execution' = [execution EXCEPT ![x] = [execution[x] EXCEPT !.pc = "over"]]
    BY <1>1, <1>9 DEF ExecutionEnds
  <2>2. [execution[x] EXCEPT !.pc = "over"] \in RunRecord
        /\ execution[x].start \in 0..LastMinute
    BY <1>1
  <2>3. execution' \in [Runs -> RunRecord]
    <3> HIDE DEF RunRecord
    <3> QED BY <1>3, <2>1, <2>2
  <2>4. job' \in JobRecord
    <3>1. PICK next : next = NextRun(execution[x].start)
      OBVIOUS
    <3>2. next \in 0..LastMinute + Every
      BY <1>2, <2>2, <3>1
    <3>3. job' = [job EXCEPT !.nextRun = next]
      BY <1>9, <3>1 DEF ExecutionEnds
    <3> QED BY <1>1, <3>2, <3>3
  <2> QED BY <1>1, <1>9, <2>3, <2>4 DEF ExecutionEnds, ReportsTypeOK
<1>10. CASE UNCHANGED reportVars
  BY <1>1, <1>10 DEF reportVars, ReportsTypeOK
<1> QED BY <1>4, <1>5, <1>6, <1>7, <1>8, <1>9, <1>10
        DEF ReportsNext, PauseJob, ResumeJob, DeleteJob

LEMMA ReportsTypeCorrect == ReportsSpec => []ReportsTypeOK
<1>1. ReportsInit => ReportsTypeOK
  <2> SUFFICES ASSUME ReportsInit PROVE ReportsTypeOK
    OBVIOUS
  <2>1. 0 \in 0..LastMinute /\ 0 \in 0..LastMinute + Every /\ 0 \in 0..LastMinute + Nap
    BY ReportsAssumption
  <2>2. job \in [status: {"none", "active", "paused", "deleted"},
                 nextRun: 0..LastMinute + Every]
    BY <2>1 DEF ReportsInit
  <2>3. NotExecuted \in [pc: {"none", "created", "running", "over"}, start: 0..LastMinute]
    BY <2>1 DEF NotExecuted
  <2> QED BY <2>1, <2>2, <2>3 DEF ReportsInit, ReportsTypeOK
<1>2. ReportsTypeOK /\ [ReportsNext]_reportVars => ReportsTypeOK'
  BY ReportsTypeKept
<1> QED BY <1>1, <1>2, PTL DEF ReportsSpec
--------------------------------------------------------------------------------
(***************************************************************************)
(* DAGModel.                                                               *)
(***************************************************************************)
DAGSpec == DAGInit /\ [][DAGNext]_dagVars

\* A plan that has been validated has no cycle, and is never changed again.
DAGInv == DAGTypeOK /\ (verdict = "valid" => ~HasCycle)

\* What one step of the search widens a set of tasks to.
Widened == [s \in SUBSET (1..nodes) |->
              s \cup {m \in 1..nodes : \E p \in s : edges[<<p, m>>] > 0}]

LEMMA WidenedSets ==
  ASSUME NEW s \in SUBSET (1..nodes)
  PROVE  /\ Widened[s] = s \cup {m \in 1..nodes : \E p \in s : edges[<<p, m>>] > 0}
         /\ s \subseteq Widened[s] /\ Widened[s] \subseteq 1..nodes
BY DEF Widened

\* The recursive function of ReachedFrom.
SearchedFrom(n, it) ==
  it = [k \in 0..nodes |->
          IF k = 0 THEN {n}
          ELSE it[k - 1] \cup {m \in 1..nodes : \E p \in it[k - 1] : edges[<<p, m>>] > 0}]

LEMMA SearchOfWidened ==
  ASSUME nodes \in Nat, NEW n \in 1..nodes, NEW it
  PROVE  /\ Search({n}, Widened, nodes, it) => SearchedFrom(n, it)
         /\ SearchedFrom(n, it) => Search({n}, Widened, nodes, it)
<1> DEFINE Bad == {k \in 0..nodes : ~(it[k] \in SUBSET (1..nodes))}
           Rest(k) == it[k - 1] \cup {m \in 1..nodes : \E p \in it[k - 1] : edges[<<p, m>>] > 0}
<1>1. ASSUME Bad = {}
      PROVE  \A k \in 1..nodes : Widened[it[k - 1]] = Rest(k)
  <2> TAKE k \in 1..nodes
  <2>1. k - 1 \in 0..nodes
    OBVIOUS
  <2>2. PICK s \in SUBSET (1..nodes) : s = it[k - 1]
    BY <1>1, <2>1
  <2>3. Widened[s] = s \cup {m \in 1..nodes : \E p \in s : edges[<<p, m>>] > 0}
    BY WidenedSets
  <2> QED BY <2>2, <2>3
<1>2. ASSUME it[0] = {n},
             \A k \in 1..nodes : it[k] = Rest(k) \/ it[k] = Widened[it[k - 1]]
      PROVE  Bad = {}
  <2>1. SUFFICES ASSUME Bad # {} PROVE FALSE
    OBVIOUS
  <2>2. PICK least \in Bad : \A k \in Bad : least <= k
    <3>1. Bad \subseteq Nat
      OBVIOUS
    <3> HIDE DEF Bad
    <3> QED BY <2>1, <3>1, LeastElement
  <2>3. least \in 1..nodes /\ least - 1 \in 0..nodes /\ ~(it[least] \in SUBSET (1..nodes))
    BY <1>2, <2>2
  <2>4. PICK s \in SUBSET (1..nodes) : s = it[least - 1]
    <3>1. least - 1 \notin Bad
      BY <2>2, <2>3
    <3> QED BY <2>3, <3>1
  <2>5. it[least] = s \cup {m \in 1..nodes : \E p \in s : edges[<<p, m>>] > 0}
    <3>1. it[least] = Rest(least) \/ it[least] = Widened[it[least - 1]]
      BY <1>2, <2>3
    <3> QED BY <2>4, <3>1, WidenedSets
  <2> QED BY <2>3, <2>5
<1>3. \A k \in 0..nodes : k # 0 => k \in 1..nodes
  OBVIOUS
<1>4. 0 \in 0..nodes /\ \A k \in 1..nodes : k \in 0..nodes /\ k # 0
  OBVIOUS
<1>5. ASSUME Search({n}, Widened, nodes, it)
      PROVE  SearchedFrom(n, it)
  <2>1. it = [k \in 0..nodes |-> IF k = 0 THEN {n} ELSE Widened[it[k - 1]]]
    BY <1>5 DEF Search
  <2>2. it[0] = {n} /\ \A k \in 1..nodes : it[k] = Widened[it[k - 1]]
    BY <1>4, <2>1
  <2>3. \A k \in 1..nodes : Widened[it[k - 1]] = Rest(k)
    BY <1>1, <1>2, <2>2
  <2>4. \A k \in 0..nodes : (IF k = 0 THEN {n} ELSE Widened[it[k - 1]])
                               = IF k = 0 THEN {n} ELSE Rest(k)
    BY <1>3, <2>3
  <2>5. it = [k \in 0..nodes |-> IF k = 0 THEN {n} ELSE Rest(k)]
    <3> HIDE DEF Rest
    <3> QED BY <2>1, <2>4
  <2> QED BY <2>5 DEF SearchedFrom
<1>6. ASSUME SearchedFrom(n, it)
      PROVE  Search({n}, Widened, nodes, it)
  <2>1. it = [k \in 0..nodes |-> IF k = 0 THEN {n} ELSE Rest(k)]
    BY <1>6 DEF SearchedFrom
  <2>2. it[0] = {n} /\ \A k \in 1..nodes : it[k] = Rest(k)
    <3> HIDE DEF Rest
    <3> QED BY <1>4, <2>1
  <2>3. \A k \in 1..nodes : Widened[it[k - 1]] = Rest(k)
    BY <1>1, <1>2, <2>2
  <2>4. \A k \in 0..nodes : (IF k = 0 THEN {n} ELSE Rest(k))
                               = IF k = 0 THEN {n} ELSE Widened[it[k - 1]]
    BY <1>3, <2>3
  <2>5. it = [k \in 0..nodes |-> IF k = 0 THEN {n} ELSE Widened[it[k - 1]]]
    <3> HIDE DEF Rest
    <3> QED BY <2>1, <2>4
  <2> QED BY <2>5 DEF Search
<1> QED BY <1>5, <1>6

\* The search begins with the task itself and ends with a set no edge leaves.
LEMMA ReachedIsClosed ==
  ASSUME nodes \in Nat, NEW n \in 1..nodes
  PROVE  /\ n \in ReachedFrom(n) /\ ReachedFrom(n) \subseteq 1..nodes
         /\ \A p \in ReachedFrom(n) : \A m \in 1..nodes :
              edges[<<p, m>>] > 0 => m \in ReachedFrom(n)
<1> DEFINE Rec(it) == it = [k \in 0..nodes |->
              IF k = 0 THEN {n}
              ELSE it[k - 1] \cup {m \in 1..nodes : \E p \in it[k - 1] : edges[<<p, m>>] > 0}]
<1>1. ReachedFrom(n) = (CHOOSE it : Rec(it))[nodes]
  BY DEF ReachedFrom
<1>2. \E it : Rec(it)
  <2>1. PICK it : Search({n}, Widened, nodes, it)
    BY SearchExists
  <2>2. SearchedFrom(n, it)
    BY <2>1, SearchOfWidened
  <2>3. Rec(it)
    BY <2>2 DEF SearchedFrom
  <2> HIDE DEF Rec
  <2> QED BY <2>3
<1>3. Rec(CHOOSE it : Rec(it))
  <2> HIDE DEF Rec
  <2> QED BY <1>2
<1>4. PICK it : it = CHOOSE jt : Rec(jt)
  OBVIOUS
<1>5. SearchedFrom(n, it) /\ ReachedFrom(n) = it[nodes]
  <2>1. Rec(it) /\ ReachedFrom(n) = it[nodes]
    <3> HIDE DEF Rec
    <3> QED BY <1>1, <1>3, <1>4
  <2> QED BY <2>1 DEF SearchedFrom
<1>6. Search({n}, Widened, nodes, it)
  BY <1>5, SearchOfWidened
<1>7. \A s \in SUBSET (1..nodes) : s \subseteq Widened[s] /\ Widened[s] \subseteq 1..nodes
  BY WidenedSets
<1>8. it[nodes] \subseteq 1..nodes /\ n \in it[nodes] /\ Widened[it[nodes]] = it[nodes]
  <2>1. PICK step, size, start : step = Widened /\ size = nodes /\ start = {n}
    OBVIOUS
  <2>2. /\ size \in Nat /\ n \in 1..size /\ start = {n} /\ Search(start, step, size, it)
        /\ \A s \in SUBSET (1..size) : s \subseteq step[s] /\ step[s] \subseteq 1..size
    BY <1>6, <1>7, <2>1
  <2>3. it[size] \subseteq 1..size /\ n \in it[size] /\ step[it[size]] = it[size]
    BY <2>2, SearchCloses
  <2> QED BY <2>1, <2>3
<1>9. PICK s \in SUBSET (1..nodes) : s = it[nodes]
  BY <1>8
<1>10. s = s \cup {m \in 1..nodes : \E p \in s : edges[<<p, m>>] > 0}
  BY <1>8, <1>9, WidenedSets
<1> QED BY <1>5, <1>8, <1>9, <1>10

\* The tasks that lead to n. Without a cycle, those of a task before n are fewer: so
\* their number is a rank that grows along every edge.
LeadingTo(n) == {m \in 1..nodes : n \in ReachedFrom(m)}

LEMMA RankWithoutCycle ==
  ASSUME nodes \in Nat, ~HasCycle
  PROVE  \E rank \in [1..nodes -> Nat] :
           /\ \A n \in 1..nodes : rank[n] < nodes + 1
           /\ \A n \in 1..nodes : \A m \in Before(n) : rank[m] < rank[n]
<1>1. IsFiniteSet(1..nodes) /\ Cardinality(1..nodes) = nodes
  <2>1. nodes \in Int /\ 1 \in Int
    OBVIOUS
  <2> QED BY <2>1, FS_Interval
<1>2. ASSUME NEW n \in 1..nodes
      PROVE  /\ IsFiniteSet(LeadingTo(n)) /\ Cardinality(LeadingTo(n)) \in Nat
             /\ Cardinality(LeadingTo(n)) < nodes + 1
  <2>1. LeadingTo(n) \subseteq 1..nodes
    BY DEF LeadingTo
  <2>2. IsFiniteSet(LeadingTo(n)) /\ Cardinality(LeadingTo(n)) <= nodes
    BY <1>1, <2>1, FS_Subset
  <2>3. Cardinality(LeadingTo(n)) \in Nat
    BY <2>2, FS_CardinalityType
  <2> QED BY <2>2, <2>3
<1>3. ASSUME NEW n \in 1..nodes, NEW m \in Before(n)
      PROVE  Cardinality(LeadingTo(m)) < Cardinality(LeadingTo(n))
  <2>1. m \in 1..nodes /\ edges[<<m, n>>] > 0
    BY DEF Before
  <2>2. LeadingTo(m) \subseteq LeadingTo(n)
    <3> SUFFICES ASSUME NEW a \in LeadingTo(m) PROVE a \in LeadingTo(n)
      OBVIOUS
    <3>1. a \in 1..nodes /\ m \in ReachedFrom(a)
      BY DEF LeadingTo
    <3>2. n \in ReachedFrom(a)
      BY <2>1, <3>1, ReachedIsClosed
    <3> QED BY <3>1, <3>2 DEF LeadingTo
  <2>3. n \in LeadingTo(n)
    BY ReachedIsClosed DEF LeadingTo
  <2>4. n \notin LeadingTo(m)
    BY <2>1 DEF LeadingTo, HasCycle
  <2>5. PICK A, B : A = LeadingTo(m) /\ B = LeadingTo(n)
    OBVIOUS
  <2>6. IsFiniteSet(B) /\ A \in SUBSET B /\ A # B
    BY <1>2, <2>2, <2>3, <2>4, <2>5
  <2>7. Cardinality(A) <= Cardinality(B) /\ Cardinality(A) # Cardinality(B)
    BY <2>6, FS_Subset
  <2>8. Cardinality(A) \in Nat /\ Cardinality(B) \in Nat
    BY <1>2, <2>1, <2>5
  <2> QED BY <2>5, <2>7, <2>8
<1>4. PICK rank : rank = [n \in 1..nodes |-> Cardinality(LeadingTo(n))]
  OBVIOUS
<1>5. \A n \in 1..nodes : rank[n] = Cardinality(LeadingTo(n))
  BY <1>4
<1>6. rank \in [1..nodes -> Nat]
  BY <1>2, <1>4
<1>7. \A n \in 1..nodes : \A m \in Before(n) : m \in 1..nodes
  BY DEF Before
<1> QED BY <1>2, <1>3, <1>5, <1>6, <1>7

\* The recursive functions of Level and Distance: w is what a task adds.
Weighted(w, it) ==
  it = [n \in 1..nodes |-> IF Before(n) = {} THEN 0
                           ELSE Max({it[m] : m \in Before(n)}) + w[n]]

\* In a plan without a cycle they exist, and grow along each edge.
LEMMA WeightedPaths ==
  ASSUME nodes \in Nat, ~HasCycle, NEW w \in [1..nodes -> Nat]
  PROVE  /\ \E it : Weighted(w, it)
         /\ \A it : Weighted(w, it) =>
              /\ \A n \in 1..nodes : it[n] \in Nat
              /\ \A n \in 1..nodes : Before(n) = {} => it[n] = 0
              /\ \A n \in 1..nodes : \A m \in Before(n) : it[m] + w[n] <= it[n]
<1>1. PICK rank \in [1..nodes -> Nat] :
        /\ \A n \in 1..nodes : rank[n] < nodes + 1
        /\ \A n \in 1..nodes : \A m \in Before(n) : rank[m] < rank[n]
  BY RankWithoutCycle
<1>2. PICK T, before : T = 1..nodes /\ before = [n \in T |-> Before(n)]
  OBVIOUS
<1>3. /\ before \in [T -> SUBSET T] /\ \A n \in T : before[n] = Before(n)
  BY <1>2 DEF Before
<1>4. /\ rank \in [T -> Nat] /\ w \in [T -> Nat]
      /\ \A x \in T : \A m \in before[x] : rank[m] < rank[x]
      /\ nodes + 1 \in Nat /\ \A x \in T : rank[x] < nodes + 1
  BY <1>1, <1>2, <1>3
<1>5. \A x \in T : IsFiniteSet(before[x])
  <2>1. nodes \in Int /\ 1 \in Int
    OBVIOUS
  <2>2. IsFiniteSet(T)
    BY <1>2, <2>1, FS_Interval
  <2> QED BY <1>3, <2>2, FS_Subset
<1>6. ASSUME NEW it
      PROVE  Longest(T, before, w, it) <=> Weighted(w, it)
  <2>1. \A n \in T : (IF before[n] = {} THEN 0 ELSE Max({it[m] : m \in before[n]}) + w[n])
                     = IF Before(n) = {} THEN 0 ELSE Max({it[m] : m \in Before(n)}) + w[n]
    BY <1>3
  <2> QED BY <1>2, <2>1 DEF Longest, Weighted
<1>7. \E it : Longest(T, before, w, it)
  <2>1. PICK n : n = nodes + 1
    OBVIOUS
  <2>2. n \in Nat /\ \A x \in T : rank[x] < n
    BY <1>4, <2>1
  <2> QED BY <1>3, <1>4, <2>2, LongestExists
<1>8. ASSUME NEW it, Weighted(w, it)
      PROVE  /\ \A n \in 1..nodes : it[n] \in Nat
             /\ \A n \in 1..nodes : Before(n) = {} => it[n] = 0
             /\ \A n \in 1..nodes : \A m \in Before(n) : it[m] + w[n] <= it[n]
  <2>1. Longest(T, before, w, it)
    BY <1>6, <1>8
  <2>2. /\ \A x \in T : it[x] \in Nat
        /\ \A x \in T : before[x] = {} => it[x] = 0
        /\ \A x \in T : \A m \in before[x] : it[m] + w[x] <= it[x]
    BY <1>3, <1>4, <1>5, <2>1, LongestGrows
  <2> QED BY <1>2, <1>3, <2>2
<1> QED BY <1>6, <1>7, <1>8

\* The recursions of get_level and of the critical path are such functions.
LEMMA LevelIsWeighted ==
  ASSUME nodes \in Nat, ~HasCycle
  PROVE  \E w \in [1..nodes -> Nat] : Weighted(w, Level) /\ \A n \in 1..nodes : w[n] = 1
<1> DEFINE Rec(it) == it = [n \in 1..nodes |->
              IF Before(n) = {} THEN 0 ELSE Max({it[m] : m \in Before(n)}) + 1]
<1>1. Level = CHOOSE it : Rec(it)
  BY DEF Level
<1>2. PICK w : w = [n \in 1..nodes |-> 1]
  OBVIOUS
<1>3. w \in [1..nodes -> Nat] /\ \A n \in 1..nodes : w[n] = 1
  BY <1>2
<1>4. \A it : Rec(it) <=> Weighted(w, it)
  BY <1>3 DEF Weighted
<1>5. Rec(CHOOSE it : Rec(it))
  <2>1. \E it : Rec(it)
    <3> HIDE DEF Rec
    <3> QED BY <1>3, <1>4, WeightedPaths
  <2> HIDE DEF Rec
  <2> QED BY <2>1
<1>6. Weighted(w, Level)
  <2> HIDE DEF Rec
  <2> QED BY <1>1, <1>4, <1>5
<1> QED BY <1>3, <1>6

LEMMA DistanceIsWeighted ==
  ASSUME DAGTypeOK, ~HasCycle
  PROVE  \E w \in [1..nodes -> Nat] :
           Weighted(w, Distance) /\ \A n \in 1..nodes : w[n] = Duration[n]
<1> DEFINE Rec(it) == it = [n \in 1..nodes |->
              IF Before(n) = {} THEN 0 ELSE Max({it[m] : m \in Before(n)}) + Duration[n]]
<1>1. Distance = CHOOSE it : Rec(it)
  BY DEF Distance
<1>2. PICK w : w = [n \in 1..nodes |-> Duration[n]]
  OBVIOUS
<1>3. w \in [1..nodes -> Nat] /\ \A n \in 1..nodes : w[n] = Duration[n]
  <2>1. nodes \in 0..MaxNodes /\ MaxNodes \in Nat
    BY DAGAssumption DEF DAGTypeOK
  <2>2. \A n \in 1..nodes : n \in 1..MaxNodes
    BY <2>1
  <2>3. \A n \in 1..nodes : Duration[n] \in Nat
    BY <2>2, DAGAssumption
  <2> QED BY <1>2, <2>3
<1>4. \A it : Rec(it) <=> Weighted(w, it)
  BY <1>3 DEF Weighted
<1>5. nodes \in Nat
  BY DAGAssumption DEF DAGTypeOK
<1>6. Rec(CHOOSE it : Rec(it))
  <2>1. \E it : Rec(it)
    <3> HIDE DEF Rec
    <3> QED BY <1>3, <1>4, <1>5, WeightedPaths
  <2> HIDE DEF Rec
  <2> QED BY <2>1
<1>7. Weighted(w, Distance)
  <2> HIDE DEF Rec
  <2> QED BY <1>1, <1>4, <1>6
<1> QED BY <1>3, <1>7

\* A path is a function over its first places, each task before the next one.
LEMMA PathSteps ==
  ASSUME nodes \in Nat, NEW p \in Paths
  PROVE  \E k \in 1..nodes :
           /\ p \in [1..k -> 1..nodes] /\ Cardinality(DOMAIN p) = k
           /\ \A i \in 1..k - 1 : p[i] \in Before(p[i + 1])
<1>1. PICK k \in 1..nodes : p \in [1..k -> 1..nodes]
  BY DEF Paths
<1>2. DOMAIN p = 1..k
  BY <1>1
<1>3. Cardinality(1..k) = k
  <2>1. k \in Int /\ 1 \in Int /\ k >= 1
    OBVIOUS
  <2> QED BY <2>1, FS_Interval
<1>4. Cardinality(DOMAIN p) = k
  BY <1>2, <1>3
<1>5. \A i \in 1..Cardinality(DOMAIN p) - 1 : edges[<<p[i], p[i + 1]>>] > 0
  BY DEF Paths
<1>6. ASSUME NEW i \in 1..k - 1
      PROVE  p[i] \in Before(p[i + 1])
  <2>1. i \in 1..k /\ i + 1 \in 1..k
    BY <1>1
  <2>2. p[i] \in 1..nodes /\ edges[<<p[i], p[i + 1]>>] > 0
    BY <1>1, <1>4, <1>5, <2>1
  <2> QED BY <2>2 DEF Before
<1> QED BY <1>1, <1>4, <1>6

\* What the tasks of a path add, the first one left out.
LEMMA PathAdds ==
  ASSUME nodes \in Nat, ~HasCycle, NEW w \in [1..nodes -> Nat], NEW it, Weighted(w, it),
         NEW k \in 1..nodes, NEW p \in [1..k -> 1..nodes],
         \A i \in 1..k - 1 : p[i] \in Before(p[i + 1]),
         NEW f, \A i \in 1..k : f[i] = w[p[i]]
  PROVE  it[p[1]] + SumOver(f, 2..k) <= it[p[k]]
<1>1. /\ \A n \in 1..nodes : it[n] \in Nat
      /\ \A n \in 1..nodes : \A m \in Before(n) : it[m] + w[n] <= it[n]
  BY WeightedPaths
<1>2. PICK T : T = 1..nodes
  OBVIOUS
<1>3. ASSUME NEW i \in 1..k - 1
      PROVE  it[p[i]] + w[p[i + 1]] <= it[p[i + 1]]
  <2>1. i + 1 \in 1..k
    OBVIOUS
  <2>2. p[i + 1] \in 1..nodes
    BY <2>1
  <2> QED BY <1>1, <2>2
<1>4. k \in Nat \ {0}
  OBVIOUS
<1>5. w \in [T -> Nat] /\ p \in [1..k -> T] /\ \A x \in T : it[x] \in Nat
  BY <1>1, <1>2
<1> QED BY <1>3, <1>4, <1>5, PathWeighs

\* The sum of ValidatedRunsInOrder is the sum of the durations along the path.
LEMMA DurationsAdded ==
  ASSUME NEW p, NEW f, NEW S, IsFiniteSet(S), \A i \in S : f[i] = Duration[p[i]]
  PROVE  MapThenSumSet(LAMBDA i : Duration[p[i]], S) = SumOver(f, S)
<1> DEFINE Rec(it) == it = [s \in SUBSET S |->
                IF s = {} THEN 0
                ELSE Duration[p[CHOOSE x \in s : TRUE]] + it[s \ {CHOOSE x \in s : TRUE}]]
<1>1. \A it : Rec(it) <=> Partial(f, SUBSET S, it)
  <2> TAKE it
  <2>1. \A s \in SUBSET S : s # {} => Chosen(s) \in S
    BY FS_Subset, ChosenOfSmaller
  <2>2. \A s \in SUBSET S :
          (IF s = {} THEN 0 ELSE Duration[p[Chosen(s)]] + it[s \ {Chosen(s)}])
            = (IF s = {} THEN 0 ELSE f[Chosen(s)] + it[s \ {Chosen(s)}])
    BY <2>1
  <2>3. Rec(it) <=> it = [s \in SUBSET S |->
           IF s = {} THEN 0 ELSE Duration[p[Chosen(s)]] + it[s \ {Chosen(s)}]]
    BY DEF Chosen
  <2> QED BY <2>2, <2>3 DEF Partial
<1>2. \E it : Rec(it)
  <2> HIDE DEF Rec
  <2> QED BY <1>1, PartialSums
<1>3. Rec(CHOOSE it : Rec(it))
  <2> HIDE DEF Rec
  <2> QED BY <1>2
<1>4. MapThenSumSet(LAMBDA i : Duration[p[i]], S) = (CHOOSE it : Rec(it))[S]
  BY DEF MapThenSumSet, MapThenFoldSet
<1>5. (CHOOSE it : Rec(it))[S] = SumOver(f, S)
  <2> HIDE DEF Rec
  <2>1. Partial(f, SUBSET S, CHOOSE it : Rec(it))
    BY <1>1, <1>3
  <2> QED BY <2>1, SumOfTerms
<1> QED BY <1>4, <1>5

LEMMA RunsInOrder ==
  ASSUME DAGTypeOK, ~HasCycle, NEW p \in Paths, NEW k, k = Cardinality(DOMAIN p)
  PROVE  /\ k > 1 => p[1] # p[k] /\ Level[p[1]] < Level[p[k]]
         /\ Before(p[1]) = {} =>
              MapThenSumSet(LAMBDA i : Duration[p[i]], 2..k)
                <= Max({Distance[n] : n \in 1..nodes})
<1>1. nodes \in Nat
  BY DAGAssumption DEF DAGTypeOK
<1>2. /\ k \in 1..nodes /\ p \in [1..k -> 1..nodes]
      /\ \A i \in 1..k - 1 : p[i] \in Before(p[i + 1])
  BY <1>1, PathSteps
<1>3. p[1] \in 1..nodes /\ p[k] \in 1..nodes /\ k \in Int /\ 2 \in Int
  BY <1>2
<1>4. IsFiniteSet(2..k) /\ Cardinality(2..k) = IF 2 > k THEN 0 ELSE k - 2 + 1
  BY <1>3, FS_Interval
<1>5. ASSUME k > 1
      PROVE  p[1] # p[k] /\ Level[p[1]] < Level[p[k]]
  <2>1. PICK w \in [1..nodes -> Nat] : Weighted(w, Level) /\ \A n \in 1..nodes : w[n] = 1
    BY <1>1, LevelIsWeighted
  <2>2. PICK f : f = [i \in 1..k |-> 1]
    OBVIOUS
  <2>3. \A i \in 1..k : f[i] = w[p[i]] /\ f[i] = 1
    BY <1>2, <2>1, <2>2
  <2>4. PICK it : it = Level
    OBVIOUS
  <2>5. it[p[1]] + SumOver(f, 2..k) <= it[p[k]]
    BY <1>1, <1>2, <2>1, <2>3, <2>4, PathAdds
  <2>6. SumOver(f, 2..k) = k - 1
    <3>1. \A i \in 2..k : i \in 1..k
      BY <1>2
    <3>2. SumOver(f, 2..k) = Cardinality(2..k)
      BY <1>4, <2>3, <3>1, SumOfOnes
    <3> QED BY <1>3, <1>4, <1>5, <3>2
  <2>7. it[p[1]] \in Nat /\ it[p[k]] \in Nat
    BY <1>1, <1>3, <2>1, <2>4, WeightedPaths
  <2>8. it[p[1]] < it[p[k]]
    BY <1>3, <1>5, <2>5, <2>6, <2>7
  <2>9. p[1] # p[k]
    BY <2>7, <2>8
  <2> QED BY <2>4, <2>8, <2>9
<1>6. MapThenSumSet(LAMBDA i : Duration[p[i]], 2..k) <= Max({Distance[n] : n \in 1..nodes})
  <2>1. PICK w \in [1..nodes -> Nat] :
          Weighted(w, Distance) /\ \A n \in 1..nodes : w[n] = Duration[n]
    BY DistanceIsWeighted
  <2>2. PICK f : f = [i \in 1..k |-> Duration[p[i]]]
    OBVIOUS
  <2>3. \A i \in 1..k : f[i] = w[p[i]] /\ f[i] = Duration[p[i]]
    BY <1>2, <2>1, <2>2
  <2>4. PICK it : it = Distance
    OBVIOUS
  <2>5. it[p[1]] + SumOver(f, 2..k) <= it[p[k]]
    BY <1>1, <1>2, <2>1, <2>3, <2>4, PathAdds
  <2>6. \A n \in 1..nodes : it[n] \in Nat
    BY <1>1, <2>1, <2>4, WeightedPaths
  <2>7. \A i \in 2..k : i \in 1..k
    BY <1>2
  <2>8. MapThenSumSet(LAMBDA i : Duration[p[i]], 2..k) = SumOver(f, 2..k)
    <3>1. PICK S : S = 2..k
      OBVIOUS
    <3>2. IsFiniteSet(S) /\ \A i \in S : f[i] = Duration[p[i]]
      BY <1>4, <2>3, <2>7, <3>1
    <3>3. MapThenSumSet(LAMBDA i : Duration[p[i]], S) = SumOver(f, S)
      BY <3>2, DurationsAdded, ZenonT(60)
    <3> QED BY <3>1, <3>3
  <2>9. SumOver(f, 2..k) \in Nat
    <3>1. \A i \in 2..k : f[i] \in Nat
      BY <1>2, <2>3, <2>7
    <3> QED BY <1>4, <3>1, SumIsNat
  <2>10. PICK B : B = 1..nodes
    OBVIOUS
  <2>11. Max({it[n] : n \in B}) \in Nat /\ it[p[k]] <= Max({it[n] : n \in B})
    <3>1. nodes \in Int /\ 1 \in Int
      BY <1>1
    <3>2. IsFiniteSet(B) /\ B # {} /\ \A n \in B : it[n] \in Nat
      BY <1>3, <2>6, <2>10, <3>1, FS_Interval
    <3> QED BY <1>3, <2>10, <3>2, MaxOfWeights
  <2>12. it[p[1]] \in Nat /\ it[p[k]] \in Nat
    BY <1>3, <2>6
  <2>13. SumOver(f, 2..k) <= Max({it[n] : n \in B})
    BY <2>5, <2>9, <2>11, <2>12
  <2> QED BY <2>4, <2>8, <2>10, <2>13
<1> QED BY <1>5, <1>6

\* The steps: a plan under construction is not valid yet, and ValidateDag refuses
\* every cycle.
LEMMA EdgesCounted ==
  ASSUME DAGTypeOK, NEW from \in 1..nodes, NEW to \in 1..nodes
  PROVE  /\ <<from, to>> \in (1..MaxNodes) \X (1..MaxNodes)
         /\ edges[<<from, to>>] <= Edges(1..nodes, 1..nodes)
         /\ Edges(1..nodes, 1..nodes) \in Nat
<1>1. nodes \in Nat /\ MaxNodes \in Nat /\ MaxEdges \in Nat /\ nodes <= MaxNodes
  BY DAGAssumption DEF DAGTypeOK
<1>2. (1..nodes) \X (1..nodes) \subseteq (1..MaxNodes) \X (1..MaxNodes)
  BY <1>1
<1>3. PICK S : S = (1..nodes) \X (1..nodes)
  OBVIOUS
<1>4. \A e \in S : edges[e] \in Nat
  BY <1>1, <1>2, <1>3 DEF DAGTypeOK
<1>5. IsFiniteSet(S)
  <2>1. 1 \in Int /\ nodes \in Int
    BY <1>1
  <2>2. IsFiniteSet(1..nodes)
    BY <2>1, FS_Interval
  <2> QED BY <1>3, <2>2, FS_Product
<1>6. Edges(1..nodes, 1..nodes) = SumOver(edges, S)
  BY <1>3 DEF Edges, SumOver
<1>7. SumOver(edges, S) \in Nat
  BY <1>4, <1>5, SumIsNat
<1>8. PICK e : e = <<from, to>>
  OBVIOUS
<1>9. e \in S
  BY <1>3, <1>8
<1>10. edges[e] <= SumOver(edges, S)
  <2>1. SumOver(edges, S) = edges[e] + SumOver(edges, S \ {e})
    <3>1. \A x \in S : edges[x] \in Int
      BY <1>4
    <3> QED BY <1>5, <1>9, <3>1, SumWithout
  <2>2. IsFiniteSet(S \ {e}) /\ \A x \in S \ {e} : edges[x] \in Nat
    BY <1>4, <1>5, FS_Subset
  <2>3. SumOver(edges, S \ {e}) \in Nat
    BY <2>2, SumIsNat
  <2> QED BY <1>4, <1>9, <2>1, <2>3
<1> QED BY <1>2, <1>3, <1>6, <1>7, <1>8, <1>9, <1>10

LEMMA DAGStep ==
  ASSUME DAGInv, [DAGNext]_dagVars
  PROVE  DAGInv'
<1>0. DAGTypeOK /\ MaxNodes \in Nat /\ MaxEdges \in Nat
  BY DAGAssumption DEF DAGInv
<1>1. ASSUME NEW task \in TaskNodes, AddNode(task) PROVE DAGInv'
  <2>1. /\ nodes' = nodes + 1 /\ nodes < MaxNodes /\ flawed' \in BOOLEAN
        /\ edges' = edges /\ verdict' = verdict /\ verdict = "none"
    BY <1>0, <1>1 DEF AddNode
  <2>2. nodes' \in 0..MaxNodes
    BY <1>0, <2>1 DEF DAGTypeOK
  <2> QED BY <1>0, <2>1, <2>2 DEF DAGInv, DAGTypeOK
<1>2. ASSUME NEW from \in 1..nodes, NEW to \in 1..nodes, AddEdge(from, to) PROVE DAGInv'
  <2>1. /\ edges' = [edges EXCEPT ![<<from, to>>] = edges[<<from, to>>] + 1]
        /\ Edges(1..nodes, 1..nodes) < MaxEdges
        /\ nodes' = nodes /\ flawed' = flawed /\ verdict' = verdict /\ verdict = "none"
    BY <1>2 DEF AddEdge
  <2>2. PICK e \in (1..MaxNodes) \X (1..MaxNodes) : e = <<from, to>>
    BY <1>0, EdgesCounted
  <2>3. edges[e] \in Nat /\ edges[e] <= Edges(1..nodes, 1..nodes)
        /\ Edges(1..nodes, 1..nodes) \in Nat
    BY <1>0, <2>2, EdgesCounted DEF DAGTypeOK
  <2>4. edges[e] + 1 \in 0..MaxEdges
    BY <1>0, <2>1, <2>3
  <2>5. edges' = [edges EXCEPT ![e] = edges[e] + 1]
    BY <2>1, <2>2
  <2> QED BY <1>0, <2>1, <2>4, <2>5 DEF DAGInv, DAGTypeOK
<1>3. CASE ValidateDag
  <2>1. /\ verdict' \in {"raised", "refused", "valid"}
        /\ verdict' = "valid" => ~HasCycle
        /\ nodes' = nodes /\ edges' = edges /\ flawed' = flawed
    BY <1>3 DEF ValidateDag
  <2>2. HasCycle' <=> HasCycle
    BY <2>1 DEF HasCycle, ReachedFrom
  <2> QED BY <1>0, <2>1, <2>2 DEF DAGInv, DAGTypeOK
<1>4. CASE UNCHANGED dagVars
  <2>1. nodes' = nodes /\ edges' = edges /\ flawed' = flawed /\ verdict' = verdict
    BY <1>4 DEF dagVars
  <2>2. HasCycle' <=> HasCycle
    BY <2>1 DEF HasCycle, ReachedFrom
  <2> QED BY <2>1, <2>2 DEF DAGInv, DAGTypeOK
<1> QED BY <1>1, <1>2, <1>3, <1>4 DEF DAGNext

LEMMA DAGInitially == DAGInit => DAGInv
<1> SUFFICES ASSUME DAGInit PROVE DAGInv
  OBVIOUS
<1>1. 0 \in 0..MaxNodes /\ 0 \in 0..MaxEdges
  BY DAGAssumption
<1>2. edges \in [(1..MaxNodes) \X (1..MaxNodes) -> 0..MaxEdges]
  BY <1>1 DEF DAGInit
<1> QED BY <1>1, <1>2 DEF DAGInit, DAGInv, DAGTypeOK

LEMMA ValidHasNoCycle == DAGInv => ValidatedRunsInOrder
<1> SUFFICES ASSUME DAGInv, verdict = "valid", NEW p \in Paths, NEW k, k = Cardinality(DOMAIN p)
             PROVE  /\ k > 1 => p[1] # p[k] /\ Level[p[1]] < Level[p[k]]
                    /\ Before(p[1]) = {} =>
                         MapThenSumSet(LAMBDA i : Duration[p[i]], 2..k)
                           <= Max({Distance[n] : n \in 1..nodes})
  BY DEF ValidatedRunsInOrder, ExecutionOrder
<1>1. DAGTypeOK /\ ~HasCycle
  BY DEF DAGInv
<1> QED BY <1>1, RunsInOrder

\* A behaviour of Services is one of the construction of a plan.
LEMMA DAGOfServices == Spec => DAGSpec
<1>1. Init => DAGInit
  BY DEF Init
<1>2. [Next]_vars => [DAGNext]_dagVars
  BY DEF Next, OthersRest, vars
<1> QED BY <1>1, <1>2, PTL DEF Spec, DAGSpec

\* A plan that validate_dag accepts has no cycle, however add_edge let one in, so the
\* levels of get_execution_order and the distances of the critical path, which are
\* recursions over the tasks before each, are defined and grow along every path: of
\* plans of any size and any durations.
THEOREM ValidatedRunsInOrderAlways == Spec => []ValidatedRunsInOrder
<1>1. DAGInv /\ [DAGNext]_dagVars => DAGInv'
  BY DAGStep
<1> QED BY <1>1, DAGInitially, ValidHasNoCycle, DAGOfServices, PTL DEF DAGSpec

LEMMA DAGTypeCorrect == DAGSpec => []DAGTypeOK
<1>1. DAGInv /\ [DAGNext]_dagVars => DAGInv'
  BY DAGStep
<1>2. DAGInv => DAGTypeOK
  BY DEF DAGInv
<1> QED BY <1>1, <1>2, DAGInitially, PTL DEF DAGSpec
================================================================================
