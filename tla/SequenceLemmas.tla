----------------------------- MODULE SequenceLemmas ----------------------------
(***************************************************************************)
(* What the operations on Python's lists that the modules use keep of their*)
(* elements: append, the replacement of an element and remove, which takes *)
(* the first occurrence; what sums over finite sets are; what a search in  *)
(* a graph finds, and how long its paths are.  The modules of proofs cite  *)
(* them.                                                                   *)
(***************************************************************************)
EXTENDS Naturals, SequencesExt, FiniteSetTheorems, SequenceTheorems,
        WellFoundedInduction, NaturalsInduction, TLAPS

\* The elements are those at the positions.
LEMMA ToSetOfSeq ==
  ASSUME NEW S, NEW list \in Seq(S)
  PROVE  /\ ToSet(list) = {list[k] : k \in 1..Len(list)}
         /\ ToSet(list) \subseteq S
         /\ Len(list) \in Nat
<1>1. DOMAIN list = 1..Len(list) /\ Len(list) \in Nat
  BY LenProperties
<1>2. \A k \in 1..Len(list) : list[k] \in S
  BY ElementOfSeq
<1> QED BY <1>1, <1>2 DEF ToSet

LEMMA ToSetOfEmpty == ToSet(<<>>) = {}
<1>1. DOMAIN <<>> = {}
  <2>1. <<>> \in Seq({}) /\ Len(<<>>) = 0
    BY EmptySeq
  <2>2. DOMAIN <<>> = 1..0
    BY <2>1, LenProperties, SMT
  <2> QED BY <2>2
<1> QED BY <1>1 DEF ToSet

LEMMA ToSetOfAppend ==
  ASSUME NEW S, NEW list \in Seq(S), NEW e \in S
  PROVE  /\ Append(list, e) \in Seq(S)
         /\ Len(Append(list, e)) = Len(list) + 1
         /\ ToSet(Append(list, e)) = ToSet(list) \cup {e}
<1>1. /\ Append(list, e) \in Seq(S)
      /\ Len(Append(list, e)) = Len(list) + 1
      /\ \A k \in 1..Len(list) : Append(list, e)[k] = list[k]
      /\ Append(list, e)[Len(list) + 1] = e
  BY AppendProperties
<1>2. Len(list) \in Nat /\ ToSet(list) = {list[k] : k \in 1..Len(list)}
  BY ToSetOfSeq
<1>3. ToSet(Append(list, e)) = {Append(list, e)[k] : k \in 1..Len(list) + 1}
  BY <1>1, ToSetOfSeq
<1>4. 1..Len(list) + 1 = 1..Len(list) \cup {Len(list) + 1}
  BY <1>2
<1>5. ASSUME NEW x
      PROVE  x \in ToSet(Append(list, e)) <=> x \in ToSet(list) \cup {e}
  <2>1. x \in ToSet(Append(list, e))
          <=> \E k \in 1..Len(list) \cup {Len(list) + 1} : x = Append(list, e)[k]
    BY <1>3, <1>4
  <2>2. x \in ToSet(list) <=> \E k \in 1..Len(list) : x = list[k]
    BY <1>2
  <2> QED BY <1>1, <2>1, <2>2
<1>6. ToSet(Append(list, e)) = ToSet(list) \cup {e}
  BY <1>5
<1> QED BY <1>1, <1>6

\* A place that holds x, or none, gets e: no other element is lost.
LEMMA ToSetOfReplaceAt ==
  ASSUME NEW S, NEW list \in Seq(S), NEW e \in S, NEW x, NEW place \in Nat,
         place \in 1..Len(list) => list[place] = x
  PROVE  /\ ReplaceAt(list, place, e) \in Seq(S)
         /\ ToSet(ReplaceAt(list, place, e)) \subseteq ToSet(list) \cup {e}
         /\ ToSet(list) \ {x} \subseteq ToSet(ReplaceAt(list, place, e))
<1> DEFINE new == ReplaceAt(list, place, e)
<1>1. list \in [1..Len(list) -> S] /\ Len(list) \in Nat /\ DOMAIN list = 1..Len(list)
  BY LenProperties
<1>2. CASE place \in 1..Len(list)
  <2>1. /\ new \in Seq(S)
        /\ Len(new) = Len(list)
        /\ \A j \in 1..Len(list) : new[j] = IF j = place THEN e ELSE list[j]
    BY <1>2, ExceptSeq DEF ReplaceAt
  <2> HIDE DEF new
  <2>2. ToSet(new) = {new[k] : k \in 1..Len(list)}
    BY <2>1, ToSetOfSeq
  <2>3. ToSet(list) = {list[k] : k \in 1..Len(list)}
    BY ToSetOfSeq
  <2>4. ToSet(new) \subseteq ToSet(list) \cup {e}
    BY <2>1, <2>2, <2>3
  <2>5. ToSet(list) \ {x} \subseteq ToSet(new)
    BY <1>2, <2>1, <2>2, <2>3
  <2> QED BY <2>1, <2>4, <2>5 DEF new
<1>3. CASE place \notin 1..Len(list)
  <2>1. new = list
    BY <1>1, <1>3 DEF ReplaceAt
  <2> QED BY <2>1
<1> QED BY <1>2, <1>3

\* A set of numbers has a least one, as min() of a list of positions.
LEMMA LeastElement ==
  ASSUME NEW I, I \subseteq Nat, I # {}
  PROVE  \E least \in I : \A k \in I : least <= k
<1>1. PICK least \in I : \A k \in I : ~(<<k, least>> \in OpToRel(<, Nat))
  BY NatLessThanWellFounded, WFMin
<1>2. ASSUME NEW k \in I PROVE least <= k
  <2>1. k \in Nat /\ least \in Nat
    OBVIOUS
  <2>2. ~(<<k, least>> \in OpToRel(<, Nat))
    BY <1>1
  <2>3. ~(k < least)
    BY <2>1, <2>2 DEF OpToRel
  <2> QED BY <2>1, <2>3
<1> QED BY <1>2

\* The place that SelectInSeq finds.
LEMMA FirstPlace ==
  ASSUME NEW S, NEW list \in Seq(S), NEW x
  PROVE  LET places == {k \in 1..Len(list) : list[k] = x}
             place == IF places # {} THEN Min(places) ELSE 0
         IN  /\ place \in 0..Len(list)
             /\ place \in 1..Len(list) => list[place] = x
             /\ x \in ToSet(list) => place \in 1..Len(list)
<1> DEFINE I == {k \in 1..Len(list) : list[k] = x}
<1>1. Len(list) \in Nat /\ ToSet(list) = {list[k] : k \in 1..Len(list)}
  BY ToSetOfSeq
<1>3. CASE I = {}
  BY <1>1, <1>3
<1>4. CASE I # {}
  <2>1. I \subseteq Nat
    BY <1>1
  <2>2. \E least \in I : \A k \in I : least <= k
    BY <1>4, <2>1, LeastElement
  <2>3. Min(I) \in I
    BY <2>2 DEF Min
  <2> QED BY <1>1, <1>4, <2>3
<1> QED BY <1>3, <1>4

\* RemoveFirst loses nothing but x.
LEMMA ToSetOfRemoveFirst ==
  ASSUME NEW S, NEW list \in Seq(S), NEW x
  PROVE  /\ RemoveFirst(list, x) \in Seq(S)
         /\ ToSet(RemoveFirst(list, x)) \subseteq ToSet(list)
         /\ ToSet(list) \ {x} \subseteq ToSet(RemoveFirst(list, x))
         /\ Len(RemoveFirst(list, x)) \in 0..Len(list)
<1> DEFINE place == SelectInSeq(list, LAMBDA v : v = x)
<1>1. Len(list) \in Nat /\ ToSet(list) = {list[k] : k \in 1..Len(list)}
  BY ToSetOfSeq
<1>2. CASE x \notin ToSet(list)
  <2>1. RemoveFirst(list, x) = list
    BY <1>1, <1>2 DEF RemoveFirst
  <2> QED BY <1>1, <2>1
<1>3. CASE x \in ToSet(list)
  <2>1. place \in 1..Len(list) /\ list[place] = x
    BY <1>3, FirstPlace DEF SelectInSeq
  <2>2. \E k \in 1..Len(list) : list[k] = x
    BY <2>1
  <2>3. RemoveFirst(list, x) = RemoveAt(list, place)
    BY <2>2 DEF RemoveFirst
  <2> HIDE DEF place
  <2> DEFINE before == SubSeq(list, 1, place - 1)
             after == SubSeq(list, place + 1, Len(list))
  <2>4. \A k \in 1..Len(list) : list[k] \in S
    BY ElementOfSeq
  <2>5. /\ before \in Seq(S)
        /\ Len(before) = place - 1
        /\ \A k \in 1..place - 1 : before[k] = list[k]
    <3>1. 1 \in Int /\ place - 1 \in Int /\ \A k \in 1..place - 1 : list[k] \in S
      BY <1>1, <2>1, <2>4
    <3>2. /\ before \in Seq(S)
          /\ Len(before) = IF 1 <= place - 1 THEN place - 1 - 1 + 1 ELSE 0
          /\ \A k \in 1..place - 1 - 1 + 1 : before[k] = list[1 + k - 1]
      BY <3>1, SubSeqProperties
    <3> QED BY <1>1, <2>1, <3>2
  <2>6. /\ after \in Seq(S)
        /\ Len(after) = Len(list) - place
        /\ \A k \in 1..Len(list) - place : after[k] = list[place + k]
    <3>1. place + 1 \in Int /\ Len(list) \in Int /\ \A k \in place + 1..Len(list) : list[k] \in S
      BY <1>1, <2>1, <2>4
    <3>2. /\ after \in Seq(S)
          /\ Len(after) = IF place + 1 <= Len(list) THEN Len(list) - (place + 1) + 1 ELSE 0
          /\ \A k \in 1..Len(list) - (place + 1) + 1 : after[k] = list[place + 1 + k - 1]
      BY <3>1, SubSeqProperties
    <3> QED BY <1>1, <2>1, <3>2
  <2>7. RemoveAt(list, place) = before \o after
    BY DEF RemoveAt
  <2> HIDE DEF before, after
  <2> DEFINE new == before \o after
  <2>8. /\ new \in Seq(S)
        /\ Len(new) = Len(before) + Len(after)
        /\ \A k \in 1..Len(before) + Len(after) : new[k] =
              IF k <= Len(before) THEN before[k] ELSE after[k - Len(before)]
    BY <2>5, <2>6, ConcatProperties
  <2> HIDE DEF new
  <2>9. Len(new) = Len(list) - 1 /\ ToSet(new) = {new[k] : k \in 1..Len(list) - 1}
    <3>1. Len(new) = Len(list) - 1
      BY <1>1, <2>1, <2>5, <2>6, <2>8
    <3> QED BY <2>8, <3>1, ToSetOfSeq
  <2>10. ASSUME NEW k \in 1..Len(list) - 1
         PROVE  /\ k <= place - 1 => new[k] = list[k]
                /\ k > place - 1 => new[k] = list[k + 1]
    <3>1. CASE k <= place - 1
      BY <1>1, <2>1, <2>5, <2>8, <2>9, <3>1
    <3>2. CASE k > place - 1
      <4>1. k - (place - 1) \in 1..Len(list) - place /\ place + (k - (place - 1)) = k + 1
        BY <1>1, <2>1, <3>2
      <4>2. new[k] = after[k - (place - 1)]
        BY <1>1, <2>1, <2>5, <2>8, <2>9, <3>2
      <4>3. after[k - (place - 1)] = list[k + 1]
        BY <2>6, <4>1
      <4> QED BY <1>1, <2>1, <3>2, <4>2, <4>3
    <3> QED BY <1>1, <2>1, <3>1, <3>2
  <2>11. ASSUME NEW k \in 1..Len(list) - 1
         PROVE  new[k] \in ToSet(list)
    <3>1. /\ k \in 1..Len(list) /\ k + 1 \in 1..Len(list)
          /\ k <= place - 1 \/ k > place - 1
      BY <1>1, <2>1
    <3> QED BY <1>1, <2>10, <3>1
  <2>12. ASSUME NEW k \in 1..Len(list), list[k] # x
         PROVE  list[k] \in ToSet(new)
    <3>1. CASE k < place
      <4>1. k \in 1..Len(list) - 1 /\ k <= place - 1
        BY <1>1, <2>1, <3>1
      <4> QED BY <2>9, <2>10, <4>1
    <3>2. CASE k > place
      <4>1. k - 1 \in 1..Len(list) - 1 /\ k - 1 > place - 1 /\ k - 1 + 1 = k
        BY <1>1, <2>1, <3>2
      <4>2. new[k - 1] = list[k]
        BY <2>10, <4>1
      <4> QED BY <2>9, <4>1, <4>2
    <3> QED BY <1>1, <2>1, <2>12, <3>1, <3>2
  <2>13. ToSet(new) \subseteq ToSet(list)
    BY <2>9, <2>11
  <2>14. ToSet(list) \ {x} \subseteq ToSet(new)
    BY <1>1, <2>12
  <2>15. Len(new) \in 0..Len(list)
    BY <1>1, <2>1, <2>9
  <2> QED BY <2>3, <2>7, <2>8, <2>13, <2>14, <2>15 DEF new
<1> QED BY <1>2, <1>3
--------------------------------------------------------------------------------
(***************************************************************************)
(* Sums of natural numbers and integers over a finite set, as the fold of  *)
(* MapThenSumSet makes them.                                               *)
(***************************************************************************)
SumOver(f, S) == MapThenSumSet(LAMBDA x : f[x], S)

\* The element the fold takes first.
Chosen(s) == CHOOSE x \in s : TRUE

\* The sums over some sets by one another: the function the fold defines.
Partial(f, sets, it) ==
  it = [s \in sets |-> IF s = {} THEN 0 ELSE f[Chosen(s)] + it[s \ {Chosen(s)}]]

LEMMA ChosenOfSmaller ==
  ASSUME NEW s, s # {}, IsFiniteSet(s)
  PROVE  /\ Chosen(s) \in s
         /\ IsFiniteSet(s \ {Chosen(s)})
         /\ Cardinality(s) \in Nat \ {0}
         /\ Cardinality(s \ {Chosen(s)}) = Cardinality(s) - 1
<1>1. Chosen(s) \in s
  BY DEF Chosen
<1>2. Cardinality(s) \in Nat /\ Cardinality(s) # 0
  BY FS_CardinalityType, FS_EmptySet
<1> QED BY <1>1, <1>2, FS_RemoveElement

\* The function exists: there are sums over the sets of each size.
LEMMA PartialSums ==
  ASSUME NEW f, NEW S, IsFiniteSet(S)
  PROVE  \E it : Partial(f, SUBSET S, it)
<1> DEFINE Small(n) == {s \in SUBSET S : Cardinality(s) <= n}
           Bad == {n \in Nat : \A it : ~Partial(f, Small(n), it)}
<1>1. \A s \in SUBSET S : IsFiniteSet(s) /\ Cardinality(s) \in Nat
  BY FS_Subset, FS_CardinalityType
<1>2. Bad = {}
  <2>1. SUFFICES ASSUME Bad # {} PROVE FALSE
    OBVIOUS
  <2>2. PICK least \in Bad : \A k \in Bad : least <= k
    BY <2>1, LeastElement
  <2>3. least # 0
    <3> DEFINE it == [s \in Small(0) |-> 0]
    <3>1. \A s \in Small(0) : s = {}
      <4> TAKE s \in Small(0)
      <4>1. IsFiniteSet(s) /\ Cardinality(s) = 0
        BY <1>1
      <4> QED BY <4>1, FS_EmptySet
    <3>2. Partial(f, Small(0), it)
      BY <3>1 DEF Partial
    <3> QED BY <2>2, <3>2
  <2>4. least - 1 \in Nat \ Bad
    BY <2>2, <2>3
  <2>5. PICK it : Partial(f, Small(least - 1), it)
    BY <2>4
  <2> DEFINE new == [s \in Small(least) |->
                       IF s = {} THEN 0 ELSE f[Chosen(s)] + it[s \ {Chosen(s)}]]
  <2>6. \A s \in Small(least - 1) : s \in Small(least) /\ new[s] = it[s]
    <3> TAKE s \in Small(least - 1)
    <3>1. s \in Small(least)
      BY <1>1, <2>2
    <3>2. it[s] = IF s = {} THEN 0 ELSE f[Chosen(s)] + it[s \ {Chosen(s)}]
      BY <2>5 DEF Partial
    <3> QED BY <3>1, <3>2
  <2>7. \A s \in Small(least) : s # {} => s \ {Chosen(s)} \in Small(least - 1)
    BY <1>1, <2>2, ChosenOfSmaller
  <2>8. Partial(f, Small(least), new)
    <3>1. \A s \in Small(least) :
            (IF s = {} THEN 0 ELSE f[Chosen(s)] + it[s \ {Chosen(s)}])
              = IF s = {} THEN 0 ELSE f[Chosen(s)] + new[s \ {Chosen(s)}]
      BY <2>6, <2>7
    <3>2. new = [s \in Small(least) |->
                   IF s = {} THEN 0 ELSE f[Chosen(s)] + new[s \ {Chosen(s)}]]
      <4> HIDE DEF Small
      <4> QED BY <3>1
    <3> QED BY <3>2 DEF Partial
  <2> QED BY <2>2, <2>8
<1>3. Small(Cardinality(S)) = SUBSET S
  BY FS_Subset
<1>4. Cardinality(S) \in Nat \ Bad
  BY <1>2, FS_CardinalityType
<1> QED BY <1>3, <1>4

\* And it is one function, for a set and its subsets.
LEMMA PartialOfPart ==
  ASSUME NEW f, NEW S, NEW T, NEW it, NEW jt,
         IsFiniteSet(S), T \subseteq S,
         Partial(f, SUBSET S, it), Partial(f, SUBSET T, jt)
  PROVE  \A s \in SUBSET T : it[s] = jt[s]
<1> DEFINE Bad == {Cardinality(s) : s \in {s \in SUBSET T : it[s] # jt[s]}}
<1>1. \A s \in SUBSET T : IsFiniteSet(s) /\ Cardinality(s) \in Nat /\ s \in SUBSET S
  BY FS_Subset, FS_CardinalityType
<1>2. Bad = {}
  <2>1. SUFFICES ASSUME Bad # {} PROVE FALSE
    OBVIOUS
  <2>2. PICK least \in Bad : \A k \in Bad : least <= k
    <3>1. Bad \subseteq Nat
      BY <1>1
    <3> HIDE DEF Bad
    <3> QED BY <2>1, <3>1, LeastElement
  <2>3. PICK s \in SUBSET T : it[s] # jt[s] /\ least = Cardinality(s)
    BY <2>2
  <2>4. /\ it[s] = IF s = {} THEN 0 ELSE f[Chosen(s)] + it[s \ {Chosen(s)}]
        /\ jt[s] = IF s = {} THEN 0 ELSE f[Chosen(s)] + jt[s \ {Chosen(s)}]
    BY <1>1 DEF Partial
  <2>5. s # {}
    BY <2>3, <2>4
  <2>6. Chosen(s) \in s /\ Cardinality(s \ {Chosen(s)}) = Cardinality(s) - 1
    BY <1>1, <2>5, ChosenOfSmaller
  <2>7. it[s \ {Chosen(s)}] = jt[s \ {Chosen(s)}]
    <3>1. s \ {Chosen(s)} \in SUBSET T
      BY <2>3
    <3>2. SUFFICES ASSUME it[s \ {Chosen(s)}] # jt[s \ {Chosen(s)}] PROVE FALSE
      OBVIOUS
    <3>3. Cardinality(s \ {Chosen(s)}) \in Bad
      BY <3>1, <3>2
    <3>4. Cardinality(s) <= Cardinality(s) - 1
      BY <2>2, <2>3, <2>6, <3>3
    <3> QED BY <1>1, <3>4
  <2> QED BY <2>3, <2>4, <2>5, <2>7
<1> QED BY <1>2

\* Only the terms of the set matter.
LEMMA PartialOfSame ==
  ASSUME NEW f, NEW g, NEW S, NEW it, IsFiniteSet(S), \A x \in S : f[x] = g[x],
         Partial(f, SUBSET S, it)
  PROVE  Partial(g, SUBSET S, it)
<1>1. \A s \in SUBSET S : s # {} => Chosen(s) \in S
  BY FS_Subset, ChosenOfSmaller
<1>2. \A s \in SUBSET S :
        (IF s = {} THEN 0 ELSE f[Chosen(s)] + it[s \ {Chosen(s)}])
          = IF s = {} THEN 0 ELSE g[Chosen(s)] + it[s \ {Chosen(s)}]
  BY <1>1
<1> QED BY <1>2 DEF Partial

\* The first step of a sum: the element taken first, and the rest.
LEMMA SumUnfolds ==
  ASSUME NEW f, NEW S, IsFiniteSet(S)
  PROVE  \E it : Partial(f, SUBSET S, it) /\ SumOver(f, S) = it[S]
<1> DEFINE Rec(it) == it = [s \in SUBSET S |->
                IF s = {} THEN 0
                ELSE f[CHOOSE x \in s : TRUE] + it[s \ {CHOOSE x \in s : TRUE}]]
<1>1. SumOver(f, S) = (CHOOSE it : Rec(it))[S]
  BY DEF SumOver, MapThenSumSet, MapThenFoldSet
<1>2. \E it : Rec(it)
  <2>1. PICK it : Partial(f, SUBSET S, it)
    BY PartialSums
  <2>2. Rec(it)
    BY <2>1 DEF Partial, Chosen
  <2> HIDE DEF Rec
  <2> QED BY <2>2
<1>3. Rec(CHOOSE it : Rec(it))
  <2> HIDE DEF Rec
  <2> QED BY <1>2
<1> QED BY <1>1, <1>3 DEF Partial, Chosen

\* Nothing adds up to nothing.
LEMMA SumOverEmpty == ASSUME NEW f PROVE SumOver(f, {}) = 0
<1>1. PICK it : Partial(f, SUBSET {}, it) /\ SumOver(f, {}) = it[{}]
  BY SumUnfolds, FS_EmptySet
<1> QED BY <1>1 DEF Partial

\* Two functions that agree on the set have the same sum over it.
LEMMA SumOfSame ==
  ASSUME NEW f, NEW g, NEW S, IsFiniteSet(S), \A x \in S : f[x] = g[x]
  PROVE  SumOver(f, S) = SumOver(g, S)
<1>1. PICK it : Partial(f, SUBSET S, it) /\ SumOver(f, S) = it[S]
  BY SumUnfolds
<1>2. PICK jt : Partial(g, SUBSET S, jt) /\ SumOver(g, S) = jt[S]
  BY SumUnfolds
<1>3. Partial(f, SUBSET S, it) /\ Partial(g, SUBSET S, it)
  BY <1>1, PartialOfSame
<1>4. \A s \in SUBSET S : jt[s] = it[s]
  <2>1. Partial(g, SUBSET S, jt) /\ S \subseteq S
    BY <1>2
  <2> QED BY <1>3, <2>1, PartialOfPart
<1> QED BY <1>1, <1>2, <1>4

\* The element that CHOOSE takes first.
LEMMA SumWithoutChosen ==
  ASSUME NEW f, NEW S, IsFiniteSet(S), S # {}
  PROVE  /\ Chosen(S) \in S
         /\ SumOver(f, S) = f[Chosen(S)] + SumOver(f, S \ {Chosen(S)})
<1>1. PICK T : T = S \ {Chosen(S)}
  OBVIOUS
<1>2. Chosen(S) \in S /\ IsFiniteSet(T) /\ T \subseteq S
  BY <1>1, ChosenOfSmaller
<1>3. PICK it : Partial(f, SUBSET S, it) /\ SumOver(f, S) = it[S]
  BY SumUnfolds
<1>4. PICK jt : Partial(f, SUBSET T, jt) /\ SumOver(f, T) = jt[T]
  BY <1>2, SumUnfolds
<1>5. \A s \in SUBSET T : it[s] = jt[s]
  <2>1. Partial(f, SUBSET S, it)
    BY <1>3
  <2>2. Partial(f, SUBSET T, jt)
    BY <1>4
  <2> QED BY <1>2, <2>1, <2>2, PartialOfPart
<1>6. it[S] = f[Chosen(S)] + it[T]
  BY <1>1, <1>3 DEF Partial
<1> QED BY <1>1, <1>2, <1>3, <1>4, <1>5, <1>6

\* No set of the smallest size lacks a property that smaller sets have.
LEMMA SmallestSet ==
  ASSUME NEW S, IsFiniteSet(S), NEW Bad, Bad \subseteq SUBSET S, Bad # {}
  PROVE  \E s \in Bad : /\ IsFiniteSet(s)
                        /\ \A x \in s : s \ {x} \notin Bad
<1> DEFINE Sizes == {Cardinality(s) : s \in Bad}
<1>1. \A s \in SUBSET S : IsFiniteSet(s) /\ Cardinality(s) \in Nat
  BY FS_Subset, FS_CardinalityType
<1>2. PICK least \in Sizes : \A k \in Sizes : least <= k
  <2>1. Sizes \subseteq Nat /\ Sizes # {}
    BY <1>1
  <2> HIDE DEF Sizes
  <2> QED BY <2>1, LeastElement
<1>3. PICK s \in Bad : least = Cardinality(s)
  BY <1>2
<1>4. ASSUME NEW x \in s, s \ {x} \in Bad PROVE FALSE
  <2>1. Cardinality(s \ {x}) = Cardinality(s) - 1
    BY <1>1, FS_RemoveElement
  <2>2. Cardinality(s) <= Cardinality(s) - 1
    BY <1>2, <1>3, <1>4, <2>1
  <2> QED BY <1>1, <2>2
<1> QED BY <1>1, <1>4

\* A sum of integers is an integer,
LEMMA SumIsInt ==
  ASSUME NEW f, NEW S, IsFiniteSet(S), \A x \in S : f[x] \in Int
  PROVE  SumOver(f, S) \in Int
<1> DEFINE Bad == {s \in SUBSET S : SumOver(f, s) \notin Int}
<1>1. SUFFICES ASSUME Bad # {} PROVE FALSE
  OBVIOUS
<1>2. PICK s \in Bad : IsFiniteSet(s) /\ \A x \in s : s \ {x} \notin Bad
  <2> HIDE DEF Bad
  <2>1. Bad \subseteq SUBSET S
    BY DEF Bad
  <2> QED BY <1>1, <2>1, SmallestSet
<1>3. s # {}
  BY <1>2, SumOverEmpty
<1>4. Chosen(s) \in s /\ SumOver(f, s) = f[Chosen(s)] + SumOver(f, s \ {Chosen(s)})
  BY <1>2, <1>3, SumWithoutChosen
<1>5. s \ {Chosen(s)} \in SUBSET S /\ s \ {Chosen(s)} \notin Bad
  BY <1>2, <1>4
<1> QED BY <1>2, <1>4, <1>5

\* and a sum of natural numbers is a natural number.
LEMMA SumIsNat ==
  ASSUME NEW f, NEW S, IsFiniteSet(S), \A x \in S : f[x] \in Nat
  PROVE  SumOver(f, S) \in Nat
<1> DEFINE Bad == {s \in SUBSET S : SumOver(f, s) \notin Nat}
<1>1. SUFFICES ASSUME Bad # {} PROVE FALSE
  OBVIOUS
<1>2. PICK s \in Bad : IsFiniteSet(s) /\ \A x \in s : s \ {x} \notin Bad
  <2> HIDE DEF Bad
  <2>1. Bad \subseteq SUBSET S
    BY DEF Bad
  <2> QED BY <1>1, <2>1, SmallestSet
<1>3. s # {}
  BY <1>2, SumOverEmpty
<1>4. Chosen(s) \in s /\ SumOver(f, s) = f[Chosen(s)] + SumOver(f, s \ {Chosen(s)})
  BY <1>2, <1>3, SumWithoutChosen
<1>5. s \ {Chosen(s)} \in SUBSET S /\ s \ {Chosen(s)} \notin Bad
  BY <1>2, <1>4
<1> QED BY <1>2, <1>4, <1>5

\* Any element may be taken first.
LEMMA SumWithout ==
  ASSUME NEW f, NEW S, IsFiniteSet(S), \A x \in S : f[x] \in Int, NEW y \in S
  PROVE  SumOver(f, S) = f[y] + SumOver(f, S \ {y})
<1> DEFINE Bad == {s \in SUBSET S :
                     \E x \in s : SumOver(f, s) # f[x] + SumOver(f, s \ {x})}
<1>1. SUFFICES ASSUME Bad # {} PROVE FALSE
  OBVIOUS
<1>2. PICK s \in Bad : IsFiniteSet(s) /\ \A x \in s : s \ {x} \notin Bad
  <2>1. Bad \subseteq SUBSET S
    OBVIOUS
  <2> HIDE DEF Bad
  <2> QED BY <1>1, <2>1, SmallestSet
<1>3. PICK z \in s : s \subseteq S /\ SumOver(f, s) # f[z] + SumOver(f, s \ {z})
  BY <1>2
<1>4. PICK x : x = Chosen(s)
  OBVIOUS
<1>5. x \in s /\ SumOver(f, s) = f[x] + SumOver(f, s \ {x})
  BY <1>2, <1>3, <1>4, SumWithoutChosen
<1>6. x # z
  BY <1>3, <1>5
<1> DEFINE r == s \ {x, z}
<1>7. \A t \in SUBSET S : IsFiniteSet(t) /\ SumOver(f, t) \in Int
  BY FS_Subset, SumIsInt
<1>8. SumOver(f, s \ {x}) = f[z] + SumOver(f, r)
  <2>1. (s \ {x}) \ {z} = r /\ z \in s \ {x} /\ s \ {x} \in SUBSET S
    BY <1>3, <1>6
  <2>2. s \ {x} \notin Bad
    BY <1>2, <1>5
  <2> QED BY <2>1, <2>2
<1>9. SumOver(f, s \ {z}) = f[x] + SumOver(f, r)
  <2>1. (s \ {z}) \ {x} = r /\ x \in s \ {z} /\ s \ {z} \in SUBSET S
    BY <1>3, <1>5, <1>6
  <2>2. s \ {z} \notin Bad
    BY <1>2
  <2> QED BY <2>1, <2>2
<1>10. f[x] \in Int /\ f[z] \in Int /\ SumOver(f, r) \in Int
  BY <1>3, <1>5, <1>7
<1> QED BY <1>3, <1>5, <1>8, <1>9, <1>10

\* A sum over a set with one element more.
LEMMA SumWith ==
  ASSUME NEW f, NEW S, IsFiniteSet(S), NEW y, y \notin S,
         \A x \in S \cup {y} : f[x] \in Int
  PROVE  SumOver(f, S \cup {y}) = SumOver(f, S) + f[y]
<1> DEFINE T == S \cup {y}
<1>1. IsFiniteSet(T) /\ y \in T /\ T \ {y} = S
  BY FS_AddElement
<1>2. SumOver(f, T) = f[y] + SumOver(f, T \ {y})
  <2> HIDE DEF T
  <2> QED BY <1>1, SumWithout DEF T
<1>3. SumOver(f, S) \in Int /\ f[y] \in Int
  BY SumIsInt
<1>4. SumOver(f, T) = f[y] + SumOver(f, S)
  BY <1>1, <1>2
<1> HIDE DEF T
<1> QED BY <1>3, <1>4 DEF T

\* A sum after one term has changed.
LEMMA SumOfChanged ==
  ASSUME NEW f, NEW g, NEW S, IsFiniteSet(S), NEW y \in S,
         \A x \in S : f[x] \in Int /\ g[x] \in Int,
         \A x \in S \ {y} : g[x] = f[x]
  PROVE  SumOver(g, S) = SumOver(f, S) - f[y] + g[y]
<1>1. IsFiniteSet(S \ {y})
  BY FS_RemoveElement
<1>2. /\ SumOver(f, S) = f[y] + SumOver(f, S \ {y})
      /\ SumOver(g, S) = g[y] + SumOver(g, S \ {y})
  BY SumWithout
<1>3. SumOver(f, S \ {y}) = SumOver(g, S \ {y})
  BY <1>1, SumOfSame
<1>4. SumOver(f, S \ {y}) \in Int
  BY <1>1, SumIsInt
<1> QED BY <1>2, <1>3, <1>4

\* Terms of nothing may be left out.
LEMMA SumOfZeros ==
  ASSUME NEW f, NEW S, IsFiniteSet(S), \A x \in S : f[x] \in Int,
         NEW T, T \subseteq S, \A x \in S \ T : f[x] = 0
  PROVE  SumOver(f, S) = SumOver(f, T)
<1> DEFINE Bad == {s \in SUBSET S : SumOver(f, s) # SumOver(f, s \cap T)}
<1>1. SUFFICES ASSUME Bad # {} PROVE FALSE
  <2>1. S \cap T = T
    OBVIOUS
  <2> QED BY <2>1
<1>2. PICK s \in Bad : IsFiniteSet(s) /\ \A x \in s : s \ {x} \notin Bad
  <2>1. Bad \subseteq SUBSET S
    OBVIOUS
  <2> HIDE DEF Bad
  <2> QED BY <1>1, <2>1, SmallestSet
<1>3. PICK x \in s : x \notin T
  <2>1. SUFFICES ASSUME s \subseteq T PROVE FALSE
    OBVIOUS
  <2>2. s \cap T = s
    BY <2>1
  <2> QED BY <1>2, <2>2
<1>4. (s \ {x}) \cap T = s \cap T /\ s \ {x} \in SUBSET S /\ s \ {x} \notin Bad
  BY <1>2, <1>3
<1>5. SumOver(f, s \ {x}) = SumOver(f, s \cap T)
  BY <1>4
<1>6. SumOver(f, s) = f[x] + SumOver(f, s \ {x})
  BY <1>2, SumWithout, SMTT(30)
<1>7. f[x] = 0 /\ SumOver(f, s \ {x}) \in Int
  BY <1>2, <1>3, SumIsInt, FS_RemoveElement
<1> QED BY <1>2, <1>5, <1>6, <1>7

\* A sum of smaller terms is not greater.
LEMMA SumAtMost ==
  ASSUME NEW f, NEW g, NEW S, IsFiniteSet(S),
         \A x \in S : f[x] \in Int /\ g[x] \in Int /\ f[x] <= g[x]
  PROVE  SumOver(f, S) <= SumOver(g, S)
<1> DEFINE Bad == {s \in SUBSET S : ~(SumOver(f, s) <= SumOver(g, s))}
<1>1. SUFFICES ASSUME Bad # {} PROVE FALSE
  OBVIOUS
<1>2. PICK s \in Bad : IsFiniteSet(s) /\ \A x \in s : s \ {x} \notin Bad
  <2>1. Bad \subseteq SUBSET S
    OBVIOUS
  <2> HIDE DEF Bad
  <2> QED BY <1>1, <2>1, SmallestSet
<1>3. s # {}
  BY <1>2, SumOverEmpty
<1>4. PICK x \in s : TRUE
  BY <1>3
<1>5. /\ SumOver(f, s) = f[x] + SumOver(f, s \ {x})
      /\ SumOver(g, s) = g[x] + SumOver(g, s \ {x})
  BY <1>2, SumWithout
<1>6. SumOver(f, s \ {x}) <= SumOver(g, s \ {x})
  BY <1>2, <1>4
<1>7. SumOver(f, s \ {x}) \in Int /\ SumOver(g, s \ {x}) \in Int
  BY <1>2, SumIsInt, FS_RemoveElement
<1> QED BY <1>2, <1>4, <1>5, <1>6, <1>7

\* Part of a sum of natural numbers.
LEMMA SumOfPart ==
  ASSUME NEW f, NEW S, IsFiniteSet(S), \A x \in S : f[x] \in Nat,
         NEW T, T \subseteq S
  PROVE  SumOver(f, T) <= SumOver(f, S)
<1> DEFINE g == [x \in S |-> IF x \in T THEN f[x] ELSE 0]
<1>1. \A x \in S : g[x] \in Int /\ f[x] \in Int /\ g[x] <= f[x]
  OBVIOUS
<1>2. SumOver(g, S) <= SumOver(f, S)
  BY <1>1, SumAtMost
<1>3. SumOver(g, S) = SumOver(g, T)
  <2>1. \A x \in S \ T : g[x] = 0
    OBVIOUS
  <2> HIDE DEF g
  <2> QED BY <1>1, <2>1, SumOfZeros
<1>4. SumOver(g, T) = SumOver(f, T)
  <2>1. \A x \in T : g[x] = f[x]
    OBVIOUS
  <2> HIDE DEF g
  <2> QED BY <2>1, SumOfSame, FS_Subset
<1> QED BY <1>2, <1>3, <1>4

\* The fold that SumOver stands for, written with other terms.
LEMMA SumOfTerms ==
  ASSUME NEW f, NEW S, IsFiniteSet(S), NEW it, Partial(f, SUBSET S, it)
  PROVE  SumOver(f, S) = it[S]
<1>1. PICK jt : Partial(f, SUBSET S, jt) /\ SumOver(f, S) = jt[S]
  BY SumUnfolds
<1>2. \A s \in SUBSET S : it[s] = jt[s]
  <2>1. Partial(f, SUBSET S, jt) /\ S \subseteq S
    BY <1>1
  <2> QED BY <2>1, PartialOfPart
<1> QED BY <1>1, <1>2

\* Terms that are at most b add up to at most b for each element.
LEMMA SumOfBounded ==
  ASSUME NEW f, NEW S, IsFiniteSet(S), NEW b \in Int,
         \A x \in S : f[x] \in Int /\ f[x] <= b
  PROVE  SumOver(f, S) <= Cardinality(S) * b
<1> DEFINE Bad == {s \in SUBSET S : ~(SumOver(f, s) <= Cardinality(s) * b)}
<1>1. SUFFICES ASSUME Bad # {} PROVE FALSE
  OBVIOUS
<1>2. PICK s \in Bad : IsFiniteSet(s) /\ \A x \in s : s \ {x} \notin Bad
  <2>1. Bad \subseteq SUBSET S
    OBVIOUS
  <2> HIDE DEF Bad
  <2> QED BY <1>1, <2>1, SmallestSet
<1>3. s # {}
  <2>1. SUFFICES ASSUME s = {} PROVE FALSE
    OBVIOUS
  <2>2. SumOver(f, s) = 0 /\ Cardinality(s) = 0
    BY <2>1, SumOverEmpty, FS_EmptySet
  <2>3. ~(SumOver(f, s) <= Cardinality(s) * b)
    BY <1>2
  <2> QED BY <2>2, <2>3
<1>4. PICK x \in s : TRUE
  BY <1>3
<1>5. SumOver(f, s) = f[x] + SumOver(f, s \ {x})
  BY <1>2, SumWithout
<1>6. SumOver(f, s \ {x}) <= Cardinality(s \ {x}) * b
  BY <1>2, <1>4
<1>7. /\ SumOver(f, s \ {x}) \in Int /\ Cardinality(s) \in Nat
      /\ Cardinality(s \ {x}) = Cardinality(s) - 1
  BY <1>2, SumIsInt, FS_RemoveElement, FS_CardinalityType
<1>8. (Cardinality(s) - 1) * b = Cardinality(s) * b - b
  BY <1>7
<1>9. f[x] \in Int /\ f[x] <= b /\ ~(SumOver(f, s) <= Cardinality(s) * b)
  BY <1>2, <1>4
<1>10. Cardinality(s) * b \in Int
  BY <1>7
<1> QED BY <1>5, <1>6, <1>7, <1>8, <1>9, <1>10

\* The terms of a list without the first, each at the place before its own.
LEMMA SumOfShifted ==
  ASSUME NEW f, NEW g, NEW n \in Nat,
         \A k \in 1..n : f[k + 1] \in Int /\ g[k] = f[k + 1]
  PROVE  SumOver(g, 1..n) = SumOver(f, 2..n + 1)
<1> DEFINE Bad == {k \in 0..n : SumOver(g, 1..k) # SumOver(f, 2..k + 1)}
<1>1. SUFFICES ASSUME Bad # {} PROVE FALSE
  OBVIOUS
<1>2. PICK k \in Bad : \A j \in Bad : k <= j
  <2>1. Bad \subseteq Nat
    OBVIOUS
  <2> HIDE DEF Bad
  <2> QED BY <1>1, <2>1, LeastElement
<1>3. k # 0
  <2>1. 1..0 = {} /\ 2..0 + 1 = {}
    OBVIOUS
  <2> QED BY <1>2, <2>1, SumOverEmpty
<1>4. k - 1 \in 0..n /\ k - 1 \notin Bad /\ k \in 1..n
  BY <1>2, <1>3
<1>5. SumOver(g, 1..k - 1) = SumOver(f, 2..k)
  BY <1>4
<1>6. 1..k = (1..k - 1) \cup {k} /\ k \notin 1..k - 1
  BY <1>4
<1>7. 2..k + 1 = (2..k) \cup {k + 1} /\ k + 1 \notin 2..k
  BY <1>4
<1>8. IsFiniteSet(1..k - 1) /\ IsFiniteSet(2..k)
  <2>1. k \in Int /\ k - 1 \in Int /\ 1 \in Int /\ 2 \in Int
    BY <1>4
  <2> QED BY <2>1, FS_Interval
<1>9. \A j \in (1..k - 1) \cup {k} : g[j] \in Int
  BY <1>4
<1>10. \A j \in (2..k) \cup {k + 1} : f[j] \in Int
  <2> TAKE j \in (2..k) \cup {k + 1}
  <2>1. j - 1 \in 1..n /\ (j - 1) + 1 = j
    BY <1>4
  <2> QED BY <2>1
<1>11. SumOver(g, (1..k - 1) \cup {k}) = SumOver(g, 1..k - 1) + g[k]
  BY <1>6, <1>9, <1>8, SumWith, ZenonT(60)
<1>12. SumOver(f, (2..k) \cup {k + 1}) = SumOver(f, 2..k) + f[k + 1]
  BY <1>7, <1>10, <1>8, SumWith, ZenonT(60)
<1>13. g[k] = f[k + 1]
  BY <1>4
<1> QED BY <1>2, <1>5, <1>6, <1>7, <1>11, <1>12, <1>13

\* A finite set of numbers has a greatest.
LEMMA MaxOfFinite ==
  ASSUME NEW S, IsFiniteSet(S), S \subseteq Int, S # {}
  PROVE  Max(S) \in S /\ \A x \in S : x <= Max(S)
<1> DEFINE Top(s) == \E x \in s : \A y \in s : x >= y
           Bad == {s \in SUBSET S : s # {} /\ ~Top(s)}
<1>1. Bad = {}
  <2>1. SUFFICES ASSUME Bad # {} PROVE FALSE
    OBVIOUS
  <2>2. PICK s \in Bad : IsFiniteSet(s) /\ \A x \in s : s \ {x} \notin Bad
    <3>1. Bad \subseteq SUBSET S
      OBVIOUS
    <3> HIDE DEF Bad
    <3> QED BY <2>1, <3>1, SmallestSet
  <2>3. s # {} /\ s \subseteq S /\ ~Top(s)
    BY <2>2
  <2>4. PICK x \in s : TRUE
    BY <2>3
  <2>5. CASE s \ {x} = {}
    <3>1. s = {x} /\ x \in Int
      BY <2>3, <2>4, <2>5
    <3> QED BY <2>3, <3>1
  <2>6. CASE s \ {x} # {}
    <3>1. PICK z \in s \ {x} : \A y \in s \ {x} : z >= y
      BY <2>2, <2>4, <2>6
    <3>2. z \in Int /\ x \in Int /\ z \in s /\ \A y \in s : y \in Int
      BY <2>3, <2>4, <3>1
    <3>3. CASE z >= x
      BY <2>3, <3>1, <3>2, <3>3
    <3>4. CASE x > z
      <4>1. \A y \in s : x >= y
        BY <3>1, <3>2, <3>4
      <4> QED BY <2>3, <2>4, <4>1
    <3> QED BY <3>2, <3>3, <3>4
  <2> QED BY <2>5, <2>6
<1>2. \E x \in S : \A y \in S : x >= y
  <2>1. S \in SUBSET S /\ S \notin Bad
    BY <1>1
  <2> QED BY <2>1
<1>3. Max(S) \in S /\ \A y \in S : Max(S) >= y
  BY <1>2 DEF Max
<1> QED BY <1>3

\* A sum of ones.
LEMMA SumOfOnes ==
  ASSUME NEW f, NEW S, IsFiniteSet(S), \A x \in S : f[x] = 1
  PROVE  SumOver(f, S) = Cardinality(S)
<1> DEFINE Bad == {s \in SUBSET S : SumOver(f, s) # Cardinality(s)}
<1>1. SUFFICES ASSUME Bad # {} PROVE FALSE
  OBVIOUS
<1>2. PICK s \in Bad : IsFiniteSet(s) /\ \A x \in s : s \ {x} \notin Bad
  <2>1. Bad \subseteq SUBSET S
    OBVIOUS
  <2> HIDE DEF Bad
  <2> QED BY <1>1, <2>1, SmallestSet
<1>3. s \in SUBSET S /\ SumOver(f, s) # Cardinality(s)
  BY <1>2
<1>4. s # {}
  BY <1>3, SumOverEmpty, FS_EmptySet
<1>5. /\ Chosen(s) \in s
      /\ SumOver(f, s) = f[Chosen(s)] + SumOver(f, s \ {Chosen(s)})
  BY <1>2, <1>4, SumWithoutChosen
<1>6. Cardinality(s \ {Chosen(s)}) = Cardinality(s) - 1 /\ Cardinality(s) \in Nat
  BY <1>2, <1>4, ChosenOfSmaller
<1>7. SumOver(f, s \ {Chosen(s)}) = Cardinality(s \ {Chosen(s)})
  BY <1>2, <1>3, <1>5
<1>8. f[Chosen(s)] = 1
  BY <1>3, <1>5
<1> QED BY <1>3, <1>5, <1>6, <1>7, <1>8

\* The sum of a list that gets a term at its end, and perhaps loses its first.
LEMMA SumOfLonger ==
  ASSUME NEW n \in Nat, NEW f, NEW g, \A k \in 1..n + 1 : g[k] \in Nat,
         \A k \in 1..n : f[k] = g[k]
  PROVE  /\ SumOver(g, 1..n + 1) = SumOver(f, 1..n) + g[n + 1]
         /\ SumOver(f, 1..n) \in Nat
<1>1. IsFiniteSet(1..n)
  BY FS_Interval
<1>2. n + 1 \notin 1..n /\ 1..n + 1 = 1..n \cup {n + 1}
  OBVIOUS
<1>3. \A k \in 1..n \cup {n + 1} : g[k] \in Int
  BY <1>2
<1>4. SumOver(g, 1..n \cup {n + 1}) = SumOver(g, 1..n) + g[n + 1]
  <2>1. PICK S : S = 1..n
    OBVIOUS
  <2>2. PICK y : y = n + 1
    OBVIOUS
  <2>3. IsFiniteSet(S) /\ y \notin S /\ \A k \in S \cup {y} : g[k] \in Int
    BY <1>1, <1>2, <1>3, <2>1, <2>2
  <2>4. SumOver(g, S \cup {y}) = SumOver(g, S) + g[y]
    BY <2>3, SumWith
  <2> QED BY <2>1, <2>2, <2>4
<1>5. SumOver(f, 1..n) = SumOver(g, 1..n)
  BY <1>1, SumOfSame
<1>6. SumOver(f, 1..n) \in Nat
  <2>1. \A k \in 1..n : f[k] \in Nat
    BY <1>2
  <2> QED BY <1>1, <2>1, SumIsNat
<1> QED BY <1>2, <1>4, <1>5, <1>6

\* A sum without its first place.
LEMMA SumOfTail ==
  ASSUME NEW n \in Nat, NEW g, \A k \in 1..n + 1 : g[k] \in Nat
  PROVE  /\ SumOver(g, 1..n + 1) = g[1] + SumOver(g, 2..n + 1)
         /\ SumOver(g, 2..n + 1) \in Nat
<1>1. /\ IsFiniteSet(1..n + 1) /\ 1 \in 1..n + 1 /\ (1..n + 1) \ {1} = 2..n + 1
      /\ \A k \in 1..n + 1 : g[k] \in Int
  <2>1. 1 \in Int /\ n + 1 \in Int
    OBVIOUS
  <2>2. IsFiniteSet(1..n + 1)
    BY <2>1, FS_Interval
  <2> QED BY <2>2
<1>2. SumOver(g, 1..n + 1) = g[1] + SumOver(g, (1..n + 1) \ {1})
  <2>1. PICK S : S = 1..n + 1
    OBVIOUS
  <2>2. PICK y : y = 1
    OBVIOUS
  <2>3. IsFiniteSet(S) /\ y \in S /\ \A k \in S : g[k] \in Int
    BY <1>1, <2>1, <2>2
  <2>4. SumOver(g, S) = g[y] + SumOver(g, S \ {y})
    BY <2>3, SumWithout
  <2> QED BY <2>1, <2>2, <2>4
<1>3. SumOver(g, 2..n + 1) \in Nat
  <2>1. IsFiniteSet(2..n + 1) /\ \A k \in 2..n + 1 : g[k] \in Nat
    BY FS_Interval
  <2> QED BY <2>1, SumIsNat
<1> QED BY <1>1, <1>2, <1>3
--------------------------------------------------------------------------------
(***************************************************************************)
(* Graphs: the sets a search finds, one after another, and the weights of  *)
(* the longest paths of a graph without cycles, as recursive functions     *)
(* define them.                                                            *)
(***************************************************************************)

\* The sets a search finds from first: step is what each one is widened to.
Search(first, step, k, it) ==
  it = [i \in 0..k |-> IF i = 0 THEN first ELSE step[it[i - 1]]]

\* The function exists: there are the first sets, up to any number.
LEMMA SearchExists ==
  ASSUME NEW first, NEW step, NEW n \in Nat
  PROVE  \E it : Search(first, step, n, it)
<1> DEFINE Bad == {k \in Nat : \A it : ~Search(first, step, k, it)}
<1>1. Bad = {}
  <2>1. SUFFICES ASSUME Bad # {} PROVE FALSE
    OBVIOUS
  <2>2. PICK least \in Bad : \A k \in Bad : least <= k
    BY <2>1, LeastElement
  <2>3. least # 0
    <3> DEFINE it == [i \in 0..0 |-> first]
    <3>1. Search(first, step, 0, it)
      BY DEF Search
    <3> QED BY <2>2, <3>1
  <2>4. least - 1 \in Nat \ Bad
    BY <2>2, <2>3
  <2>5. PICK it : Search(first, step, least - 1, it)
    BY <2>4
  <2> DEFINE new == [i \in 0..least |-> IF i = 0 THEN first ELSE step[it[i - 1]]]
  <2>6. \A i \in 0..least - 1 : i \in 0..least /\ new[i] = it[i]
    BY <2>2, <2>5 DEF Search
  <2>7. \A i \in 0..least : (IF i = 0 THEN first ELSE step[it[i - 1]])
                              = IF i = 0 THEN first ELSE step[new[i - 1]]
    <3> TAKE i \in 0..least
    <3>1. i # 0 => i - 1 \in 0..least - 1
      BY <2>2
    <3> HIDE DEF new
    <3> QED BY <2>6, <3>1
  <2>8. Search(first, step, least, new)
    BY <2>7 DEF Search
  <2> QED BY <2>2, <2>8
<1> QED BY <1>1

\* What a search in n tasks finds in n steps includes the first task, and cannot be
\* widened any more: each step that does finds one task more.
LEMMA SearchCloses ==
  ASSUME NEW n \in Nat, NEW first \in 1..n, NEW step, NEW it,
         NEW start, start = {first}, Search(start, step, n, it),
         \A s \in SUBSET (1..n) : s \subseteq step[s] /\ step[s] \subseteq 1..n
  PROVE  /\ it[n] \subseteq 1..n /\ first \in it[n]
         /\ step[it[n]] = it[n]
<1> DEFINE Good(k) == /\ it[k] \subseteq 1..n /\ first \in it[k]
                      /\ step[it[k]] = it[k] \/ Cardinality(it[k]) >= k + 1
           Bad == {k \in 0..n : ~Good(k)}
<1>1. it[0] = {first} /\ \A k \in 1..n : it[k] = step[it[k - 1]]
  <2>1. 0 \in 0..n /\ \A k \in 1..n : k \in 0..n /\ k # 0
    OBVIOUS
  <2>2. \A k \in 0..n : it[k] = IF k = 0 THEN {first} ELSE step[it[k - 1]]
    BY DEF Search
  <2> QED BY <2>1, <2>2
<1>2. \A s \in SUBSET (1..n) : /\ IsFiniteSet(s) /\ Cardinality(s) \in Nat
                               /\ Cardinality(s) <= n
  <2>1. IsFiniteSet(1..n) /\ Cardinality(1..n) = n
    <3>1. n \in Int /\ 1 \in Int
      OBVIOUS
    <3> QED BY <3>1, FS_Interval
  <2> TAKE s \in SUBSET (1..n)
  <2>2. IsFiniteSet(s) /\ Cardinality(s) <= Cardinality(1..n)
    BY <2>1, FS_Subset
  <2>3. Cardinality(s) \in Nat
    BY <2>2, FS_CardinalityType
  <2> QED BY <2>1, <2>2, <2>3
<1>3. Bad = {}
  <2>1. SUFFICES ASSUME Bad # {} PROVE FALSE
    OBVIOUS
  <2>2. PICK least \in Bad : \A k \in Bad : least <= k
    <3>1. Bad \subseteq Nat
      OBVIOUS
    <3> HIDE DEF Bad
    <3> QED BY <2>1, <3>1, LeastElement
  <2>3. Good(0)
    <3>1. Cardinality({first}) = 1
      BY FS_Singleton
    <3> QED BY <1>1, <3>1
  <2>4. least \in 1..n /\ least - 1 \in 0..n /\ ~Good(least)
    BY <2>2, <2>3
  <2>5. Good(least - 1)
    <3>1. least - 1 \notin Bad
      BY <2>2, <2>4
    <3> HIDE DEF Good
    <3> QED BY <2>4, <3>1
  <2>6. it[least] = step[it[least - 1]]
    BY <1>1, <2>4
  <2>7. PICK old \in SUBSET (1..n) : old = it[least - 1]
    BY <2>5
  <2>8. /\ first \in old /\ it[least] = step[old]
        /\ old \subseteq step[old] /\ step[old] \subseteq 1..n
        /\ step[old] = old \/ Cardinality(old) >= least
    BY <2>4, <2>5, <2>6, <2>7
  <2>9. CASE step[old] = old
    BY <2>4, <2>8, <2>9
  <2>10. CASE step[old] # old
    <3>1. Cardinality(old) <= Cardinality(step[old]) /\ Cardinality(old) # Cardinality(step[old])
      BY <1>2, <2>8, <2>10, FS_Subset
    <3>2. Cardinality(old) \in Nat /\ Cardinality(step[old]) \in Nat
      BY <1>2, <2>8
    <3>3. Cardinality(step[old]) >= least + 1
      BY <2>4, <2>8, <2>10, <3>1, <3>2
    <3> QED BY <2>4, <2>8, <3>3
  <2> QED BY <2>9, <2>10
<1>4. Good(n)
  <2> HIDE DEF Good
  <2> QED BY <1>3
<1> QED BY <1>2, <1>4

\* The weights of the longest paths to some tasks: before are the tasks before each.
Longest(dom, before, w, it) ==
  it = [x \in dom |-> IF before[x] = {} THEN 0
                      ELSE Max({it[m] : m \in before[x]}) + w[x]]

\* The largest of the weights of finitely many tasks.
LEMMA MaxOfWeights ==
  ASSUME NEW B, IsFiniteSet(B), B # {}, NEW it, \A m \in B : it[m] \in Nat
  PROVE  /\ Max({it[m] : m \in B}) \in Nat
         /\ \A m \in B : it[m] <= Max({it[m2] : m2 \in B})
<1> DEFINE S == {it[m] : m \in B}
<1>1. IsFiniteSet(S)
  <2> DEFINE f == [m \in B |-> it[m]]
  <2>1. f \in Surjection(B, S)
    BY DEF Surjection
  <2> HIDE DEF f, S
  <2> QED BY <2>1, FS_Surjection
<1>2. S \subseteq Nat /\ S # {} /\ S \subseteq Int
  OBVIOUS
<1>3. Max(S) \in S /\ \A x \in S : x <= Max(S)
  <2> HIDE DEF S
  <2> QED BY <1>1, <1>2, MaxOfFinite
<1> QED BY <1>2, <1>3

\* The function exists when something, rank, grows from each task to the next: there
\* are the weights of the tasks of lower rank than any number.
LEMMA LongestExists ==
  ASSUME NEW T, NEW before \in [T -> SUBSET T], NEW w, NEW rank \in [T -> Nat],
         \A x \in T : \A m \in before[x] : rank[m] < rank[x],
         NEW n \in Nat, \A x \in T : rank[x] < n
  PROVE  \E it : Longest(T, before, w, it)
<1> DEFINE Low(k) == {x \in T : rank[x] < k}
           Bad == {k \in Nat : \A it : ~Longest(Low(k), before, w, it)}
<1>1. Bad = {}
  <2>1. SUFFICES ASSUME Bad # {} PROVE FALSE
    OBVIOUS
  <2>2. PICK least \in Bad : \A k \in Bad : least <= k
    <3>1. Bad \subseteq Nat
      OBVIOUS
    <3> HIDE DEF Bad
    <3> QED BY <2>1, <3>1, LeastElement
  <2>3. least # 0
    <3>1. Low(0) = {}
      OBVIOUS
    <3>2. PICK it : it = [x \in {} |-> 0]
      OBVIOUS
    <3>3. Longest({}, before, w, it)
      BY <3>2 DEF Longest
    <3> QED BY <2>2, <3>1, <3>3
  <2>4. least \in Nat /\ least - 1 \in Nat /\ least - 1 \notin Bad
    BY <2>2, <2>3
  <2>5. PICK it : Longest(Low(least - 1), before, w, it)
    BY <2>4
  <2> DEFINE Weight(f, x) == IF before[x] = {} THEN 0
                             ELSE Max({f[m] : m \in before[x]}) + w[x]
             new == [x \in Low(least) |-> Weight(it, x)]
  <2>6. \A x \in Low(least - 1) : x \in Low(least) /\ new[x] = it[x]
    <3> TAKE x \in Low(least - 1)
    <3>1. x \in Low(least)
      BY <2>4
    <3>2. it[x] = Weight(it, x)
      BY <2>5 DEF Longest
    <3> QED BY <3>1, <3>2
  <2>7. \A x \in Low(least) : before[x] \subseteq Low(least - 1)
    <3> TAKE x \in Low(least)
    <3>1. rank[x] \in Nat /\ rank[x] < least /\ before[x] \subseteq T
      OBVIOUS
    <3>2. ASSUME NEW m \in before[x] PROVE m \in Low(least - 1)
      <4>1. m \in T /\ rank[m] \in Nat /\ rank[m] < rank[x]
        BY <3>1
      <4> QED BY <2>4, <3>1, <4>1
    <3> QED BY <3>2
  <2>8. \A x \in Low(least) : Weight(it, x) = Weight(new, x)
    <3> TAKE x \in Low(least)
    <3>1. \A m \in before[x] : new[m] = it[m]
      BY <2>6, <2>7
    <3>2. {new[m] : m \in before[x]} = {it[m] : m \in before[x]}
      <4> HIDE DEF new
      <4> QED BY <3>1
    <3> HIDE DEF new
    <3> QED BY <3>2
  <2>9. new = [x \in Low(least) |-> Weight(new, x)]
    <3>1. new = [x \in Low(least) |-> Weight(it, x)]
      OBVIOUS
    <3> HIDE DEF new, Weight, Low
    <3> QED BY <2>8, <3>1
  <2>10. Longest(Low(least), before, w, new)
    <3> HIDE DEF new
    <3> QED BY <2>9 DEF Longest
  <2> QED BY <2>2, <2>10
<1>2. Low(n) = T
  OBVIOUS
<1> QED BY <1>1, <1>2

\* Whatever function has these weights has numbers, which grow along each edge by
\* the weight of the task it leads to.
LEMMA LongestGrows ==
  ASSUME NEW T, NEW before \in [T -> SUBSET T], NEW w \in [T -> Nat],
         NEW rank \in [T -> Nat], \A x \in T : IsFiniteSet(before[x]),
         \A x \in T : \A m \in before[x] : rank[m] < rank[x],
         NEW it, Longest(T, before, w, it)
  PROVE  /\ \A x \in T : it[x] \in Nat
         /\ \A x \in T : before[x] = {} => it[x] = 0
         /\ \A x \in T : \A m \in before[x] : it[m] + w[x] <= it[x]
<1>1. \A x \in T : it[x] = IF before[x] = {} THEN 0
                           ELSE Max({it[m] : m \in before[x]}) + w[x]
  BY DEF Longest
<1> DEFINE Bad == {rank[x] : x \in {y \in T : it[y] \notin Nat}}
<1>2. Bad = {}
  <2>1. SUFFICES ASSUME Bad # {} PROVE FALSE
    OBVIOUS
  <2>2. PICK least \in Bad : \A k \in Bad : least <= k
    <3>1. Bad \subseteq Nat
      OBVIOUS
    <3> HIDE DEF Bad
    <3> QED BY <2>1, <3>1, LeastElement
  <2>3. PICK x \in T : it[x] \notin Nat /\ least = rank[x]
    BY <2>2
  <2>4. before[x] # {} /\ it[x] = Max({it[m] : m \in before[x]}) + w[x]
    BY <1>1, <2>3
  <2>5. \A m \in before[x] : it[m] \in Nat
    <3> SUFFICES ASSUME NEW m \in before[x], it[m] \notin Nat PROVE FALSE
      OBVIOUS
    <3>1. m \in T /\ rank[m] \in Nat /\ rank[x] \in Nat /\ rank[m] < rank[x]
      OBVIOUS
    <3>2. rank[m] \in Bad
      BY <3>1
    <3>3. rank[x] <= rank[m]
      BY <2>2, <2>3, <3>2
    <3> QED BY <3>1, <3>3
  <2>6. Max({it[m] : m \in before[x]}) \in Nat
    <3>1. PICK B : B = before[x]
      OBVIOUS
    <3>2. Max({it[m] : m \in B}) \in Nat
      BY <2>4, <2>5, <3>1, MaxOfWeights
    <3> QED BY <3>1, <3>2
  <2>7. w[x] \in Nat
    OBVIOUS
  <2> QED BY <2>3, <2>4, <2>6, <2>7
<1>3. \A x \in T : it[x] \in Nat
  BY <1>2
<1>4. ASSUME NEW x \in T, NEW m \in before[x]
      PROVE  it[m] + w[x] <= it[x]
  <2>1. PICK B : B = before[x]
    OBVIOUS
  <2>2. \A m2 \in B : it[m2] \in Nat
    BY <1>3, <2>1
  <2>3. /\ Max({it[m2] : m2 \in B}) \in Nat
        /\ it[m] <= Max({it[m2] : m2 \in B})
    BY <1>4, <2>1, <2>2, MaxOfWeights
  <2>4. it[x] = Max({it[m2] : m2 \in B}) + w[x]
    BY <1>1, <1>4, <2>1
  <2>5. w[x] \in Nat /\ it[m] \in Nat
    BY <1>4, <2>1, <2>2
  <2> QED BY <2>3, <2>4, <2>5
<1> QED BY <1>1, <1>3, <1>4

\* So along a path they grow by what its tasks weigh, the first one left out.
LEMMA PathWeighs ==
  ASSUME NEW T, NEW w \in [T -> Nat], NEW it, \A x \in T : it[x] \in Nat,
         NEW k \in Nat \ {0}, NEW p \in [1..k -> T],
         \A i \in 1..k - 1 : it[p[i]] + w[p[i + 1]] <= it[p[i + 1]],
         NEW f, \A i \in 1..k : f[i] = w[p[i]]
  PROVE  it[p[1]] + SumOver(f, 2..k) <= it[p[k]]
<1> DEFINE Bad == {j \in 1..k : ~(it[p[1]] + SumOver(f, 2..j) <= it[p[j]])}
<1>1. Bad = {}
  <2>1. SUFFICES ASSUME Bad # {} PROVE FALSE
    OBVIOUS
  <2>2. PICK least \in Bad : \A j \in Bad : least <= j
    <3>1. Bad \subseteq Nat
      OBVIOUS
    <3> HIDE DEF Bad
    <3> QED BY <2>1, <3>1, LeastElement
  <2>3. 1 \notin Bad
    <3>1. 2..1 = {} /\ it[p[1]] \in Nat
      OBVIOUS
    <3>2. SumOver(f, {}) = 0
      BY SumOverEmpty
    <3> QED BY <3>1, <3>2
  <2>4. least \in 2..k /\ least - 1 \in 1..k - 1 /\ least - 1 \in 1..k
    BY <2>2, <2>3
  <2>5. PICK j \in 1..k - 1 : least = j + 1
    BY <2>4
  <2>6. j \in 1..k /\ j + 1 \in 1..k /\ j \in Nat
    BY <2>5
  <2>7. j \notin Bad
    BY <2>2, <2>5, <2>6
  <2>8. it[p[1]] + SumOver(f, 2..j) <= it[p[j]]
    BY <2>6, <2>7
  <2>9. it[p[j]] + f[j + 1] <= it[p[j + 1]]
    BY <2>6
  <2>10. SumOver(f, 2..j) \in Nat /\ SumOver(f, 2..j + 1) = SumOver(f, 2..j) + f[j + 1]
    <3>1. 2..j + 1 = (2..j) \cup {j + 1} /\ j + 1 \notin 2..j
      <4>1. j + 1 \in 2..j + 1 /\ j + 1 \notin 2..j
        BY <2>6
      <4>2. \A x : x \in 2..j + 1 <=> x \in 2..j \/ x = j + 1
        BY <2>6, SMTT(30)
      <4> QED BY <4>1, <4>2
    <3>2. PICK S : S = 2..j
      OBVIOUS
    <3>3. IsFiniteSet(S)
      <4>1. 2 \in Int /\ j \in Int
        BY <2>6
      <4> QED BY <3>2, <4>1, FS_Interval
    <3>4. \A x \in S \cup {j + 1} : f[x] \in Nat
      <4>1. \A x \in S \cup {j + 1} : x \in 1..k
        BY <2>6, <3>2
      <4> QED BY <4>1
    <3>5. SumOver(f, S) \in Nat
      BY <3>3, <3>4, SumIsNat
    <3>6. SumOver(f, S \cup {j + 1}) = SumOver(f, S) + f[j + 1]
      <4>1. PICK y : y = j + 1
        OBVIOUS
      <4>2. y \notin S /\ \A x \in S \cup {y} : f[x] \in Int
        BY <3>1, <3>2, <3>4, <4>1
      <4>3. SumOver(f, S \cup {y}) = SumOver(f, S) + f[y]
        BY <3>3, <4>2, SumWith
      <4> QED BY <4>1, <4>3
    <3> QED BY <3>1, <3>2, <3>5, <3>6
  <2>11. it[p[1]] \in Nat /\ it[p[j]] \in Nat /\ it[p[j + 1]] \in Nat /\ f[j + 1] \in Nat
    BY <2>6
  <2>12. it[p[1]] + SumOver(f, 2..j + 1) <= it[p[j + 1]]
    <3>1. PICK a \in Nat, b \in Nat, c \in Nat, d \in Nat, s \in Nat :
            /\ a = it[p[1]] /\ b = it[p[j]] /\ c = it[p[j + 1]] /\ d = f[j + 1]
            /\ s = SumOver(f, 2..j)
      BY <2>10, <2>11
    <3>2. a + s <= b /\ b + d <= c
      BY <2>8, <2>9, <3>1
    <3>3. a + (s + d) <= c
      BY <3>2
    <3> QED BY <2>10, <3>1, <3>3
  <2> QED BY <2>2, <2>5, <2>12
<1>2. k \in 1..k
  OBVIOUS
<1> QED BY <1>1, <1>2
================================================================================
