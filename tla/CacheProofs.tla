---------------------------- MODULE CacheProofs -----------------------------
(***************************************************************************)
(* The cache keeps its promise, for every set of keys, values and lifetimes*)
(* and every size.  The argument: _next_expiry is a lower bound, so what   *)
(* _purge_expired leaves is exactly the live entries whether it scans or   *)
(* not; after a purge the dictionary IS the abstract cache.                *)
(***************************************************************************)
EXTENDS TTLCache, TLAPS, FiniteSetTheorems

OneEntryPerKey == \A d, e \in entries : d.key = e.key => d = e

\* The inductive invariant.
CacheInv == TypeOK /\ NextExpiryIsLowerBound /\ OneEntryPerKey

\* n bounds the expiry of every entry of E from below.
Bounds(n, E) == \A e \in E : n # Inf /\ n <= e.expires

\* Whatever _purge_expired decides, what it leaves are the live entries, when
\* the bound it looks at is a lower bound.
LEMMA PurgedIsLive ==
    ASSUME NEW E \in SUBSET Entry, NEW n \in Nat \cup {Inf}, NEW now \in Nat, Bounds(n, E)
    PROVE  Purged(E, n, now) = Live(E, now)
BY InfAssumption DEF Bounds, Purged, Live, Before, Entry

\* The bound _purge_expired leaves bounds what it leaves, and has its type.
LEMMA PurgedBoundIsBound ==
    ASSUME NEW E \in SUBSET Entry, NEW n \in Nat \cup {Inf}, NEW now \in Nat, Bounds(n, E),
           PurgedBound(E, n, now)
    PROVE  /\ nextExpiry' \in Nat \cup {Inf}
           /\ Bounds(nextExpiry', Purged(E, n, now))
<1>1. CASE Before(now, n)
  BY <1>1 DEF PurgedBound, Purged
<1>2. CASE ~Before(now, n)
  <2>1. /\ nextExpiry' \in {e.expires : e \in Live(E, now)} \cup {Inf}
        /\ IsEarliest(nextExpiry', Live(E, now))
    BY <1>2 DEF PurgedBound
  <2>2. Purged(E, n, now) = Live(E, now)
    BY <1>2 DEF Purged
  <2>3. \A e \in Live(E, now) : e.expires \in Nat
    BY DEF Live, Entry
  <2>4. nextExpiry' \in Nat \cup {Inf}
    BY <2>1, <2>3
  <2>5. Bounds(nextExpiry', Live(E, now))
    BY <2>1, <2>3, InfAssumption DEF Bounds, IsEarliest
  <2> QED BY <2>2, <2>4, <2>5
<1> QED BY <1>1, <1>2

\* set() lowers the bound when the new entry ends first.
LEMMA LowerIsBound ==
    ASSUME NEW E \in SUBSET Entry, NEW n \in Nat \cup {Inf}, Bounds(n, E), NEW e \in Entry
    PROVE  /\ Lower(n, e.expires) \in Nat \cup {Inf}
           /\ Bounds(Lower(n, e.expires), Store(E, e))
           /\ Store(E, e) \in SUBSET Entry
<1>1. e.expires \in Nat /\ \A d \in E : d.expires \in Nat
  BY DEF Entry
<1>2. CASE n = Inf
  BY <1>1, <1>2, InfAssumption DEF Bounds, Lower, Before, Store
<1>3. CASE n \in Nat
  BY <1>1, <1>3, InfAssumption DEF Bounds, Lower, Before, Store
<1> QED BY <1>2, <1>3

\* An order of Key stays one.
LEMMA OrderType ==
    ASSUME NEW R \in SUBSET (Key \X Key), NEW K \in SUBSET Key, NEW k \in Key
    PROVE  /\ OrderOn(R, K) \in SUBSET (Key \X Key)
           /\ MoveToEnd(R, K, k) \in SUBSET (Key \X Key)
BY DEF OrderOn, MoveToEnd

\* The keys of well-typed entries are keys.
LEMMA KeysType == ASSUME NEW E \in SUBSET Entry PROVE Keys(E) \in SUBSET Key
BY DEF Keys, Entry

-----------------------------------------------------------------------------

\* A new cache satisfies the invariant.
LEMMA CacheInit == Init => CacheInv
BY TimeAssumption DEF Init, CacheInv, TypeOK, NextExpiryIsLowerBound, OneEntryPerKey

\* The invariant survives a step that only drops entries and keeps the bound.
LEMMA FewerEntries ==
    ASSUME CacheInv, entries' \subseteq entries, clock' \in 0..MaxTime,
           older' \in SUBSET (Key \X Key), nextExpiry' = nextExpiry
    PROVE  CacheInv'
BY DEF CacheInv, TypeOK, NextExpiryIsLowerBound, OneEntryPerKey

\* del of one key drops entries and keeps the order well typed.
LEMMA DelStep ==
    ASSUME CacheInv, NEW k \in Key, Del(k)
    PROVE  entries' \subseteq entries /\ older' \in SUBSET (Key \X Key)
<1>1. entries' \subseteq entries
  BY DEF Del, Remove
<1>2. Keys(entries') \in SUBSET Key
  BY <1>1, KeysType DEF CacheInv, TypeOK
<1>3. older' \in SUBSET (Key \X Key)
  BY <1>2, OrderType DEF Del, CacheInv, TypeOK
<1> QED BY <1>1, <1>3

\* set() preserves the invariant: it lowers the bound before it purges.
LEMMA SetInv ==
    ASSUME CacheInv, NEW k \in Key, NEW v \in Value, NEW ttl \in TTL, Set(k, v, ttl)
    PROVE  CacheInv'
<1> DEFINE e == [key |-> k, value |-> v, expires |-> clock + ttl]
           stored == Store(entries, e)
           order  == MoveToEnd(older, Keys(stored), k)
           bound  == Lower(nextExpiry, clock + ttl)
           kept   == Purged(stored, bound, clock)
<1>0. clock \in Nat /\ ttl \in Nat
  BY TTLAssumption, TimeAssumption DEF CacheInv, TypeOK
<1>1. e \in Entry /\ e.expires = clock + ttl
  BY <1>0 DEF Entry
<1>2. Bounds(nextExpiry, entries) /\ nextExpiry \in Nat \cup {Inf} /\ entries \in SUBSET Entry
      /\ older \in SUBSET (Key \X Key)
  BY DEF CacheInv, TypeOK, NextExpiryIsLowerBound, Bounds
<1>3. bound \in Nat \cup {Inf} /\ Bounds(bound, stored) /\ stored \in SUBSET Entry
  <2> HIDE DEF e
  <2> QED BY <1>1, <1>2, LowerIsBound
<1>4. /\ entries' = MostRecent(kept, order)
      /\ older' = OrderOn(order, Keys(entries'))
      /\ PurgedBound(stored, bound, clock)
      /\ clock' = clock
  BY DEF Set
<1>5. OneEntryPerKey /\ \A d \in stored : d = e \/ (d \in entries /\ d.key # e.key)
  BY DEF CacheInv, Store
<1> HIDE DEF e, stored, order, bound, kept
<1>6. nextExpiry' \in Nat \cup {Inf} /\ Bounds(nextExpiry', kept)
  BY <1>0, <1>3, <1>4, PurgedBoundIsBound DEF kept
<1>7. kept \subseteq stored
  BY DEF kept, Purged, Live
<1>8. entries' \subseteq kept
  BY <1>4 DEF MostRecent
<1>9. entries' \in SUBSET Entry
  BY <1>3, <1>7, <1>8
<1>10. older' \in SUBSET (Key \X Key)
  BY <1>2, <1>3, <1>4, <1>9, KeysType, OrderType DEF order
<1>11. TypeOK'
  BY <1>4, <1>6, <1>9, <1>10 DEF CacheInv, TypeOK
<1>12. NextExpiryIsLowerBound'
  BY <1>6, <1>8 DEF NextExpiryIsLowerBound, Bounds
<1>13. OneEntryPerKey'
  BY <1>5, <1>7, <1>8 DEF OneEntryPerKey
<1> QED BY <1>11, <1>12, <1>13 DEF CacheInv

\* _purge_expired preserves the invariant, whether it scans or not.
LEMMA PurgeInv == ASSUME CacheInv, PurgeExpired PROVE CacheInv'
<1>1. clock \in Nat /\ Bounds(nextExpiry, entries) /\ nextExpiry \in Nat \cup {Inf}
      /\ entries \in SUBSET Entry /\ older \in SUBSET (Key \X Key)
  BY TimeAssumption DEF CacheInv, TypeOK, NextExpiryIsLowerBound, Bounds
<1>2. /\ entries' = Purged(entries, nextExpiry, clock)
      /\ older' = OrderOn(older, Keys(entries'))
      /\ PurgedBound(entries, nextExpiry, clock)
      /\ clock' = clock
  BY DEF PurgeExpired
<1>3. nextExpiry' \in Nat \cup {Inf} /\ Bounds(nextExpiry', entries')
  BY <1>1, <1>2, PurgedBoundIsBound
<1>4. entries' \subseteq entries
  BY <1>2 DEF Purged, Live
<1>5. older' \in SUBSET (Key \X Key)
  <2>1. entries' \in SUBSET Entry
    BY <1>1, <1>4
  <2> QED BY <1>1, <1>2, <2>1, KeysType DEF OrderOn
<1>6. TypeOK' /\ NextExpiryIsLowerBound' /\ OneEntryPerKey'
  BY <1>1, <1>2, <1>3, <1>4, <1>5
     DEF CacheInv, TypeOK, NextExpiryIsLowerBound, OneEntryPerKey, Bounds
<1> QED BY <1>6 DEF CacheInv

\* Every call preserves the invariant.
LEMMA CacheStep == CacheInv /\ [Next]_vars => CacheInv'
<1> SUFFICES ASSUME CacheInv, [Next]_vars PROVE CacheInv'
  OBVIOUS
<1>0. entries \in SUBSET Entry /\ older \in SUBSET (Key \X Key) /\ clock \in 0..MaxTime
  BY DEF CacheInv, TypeOK
<1>1. CASE Tick
  BY <1>1, <1>0, TimeAssumption, FewerEntries DEF Tick
<1>2. CASE Clear
  BY <1>2, <1>0 DEF Clear, CacheInv, TypeOK, NextExpiryIsLowerBound, OneEntryPerKey
<1>3. CASE Length \/ Iterate
  BY <1>3, PurgeInv DEF Length, Iterate
<1>4. ASSUME NEW k \in Key, Delete(k) PROVE CacheInv'
  BY <1>4, <1>0, DelStep, FewerEntries DEF Delete
<1>5. ASSUME NEW k \in Key, Contains(k) PROVE CacheInv'
  BY <1>5, <1>0, DelStep, FewerEntries DEF Contains
<1>6. ASSUME NEW k \in Key, NEW v \in Value, NEW ttl \in TTL, Set(k, v, ttl) PROVE CacheInv'
  BY <1>6, SetInv
<1>7. ASSUME NEW k \in Key, NEW now \in 0..MaxTime, Get(k, now) PROVE CacheInv'
  <2>1. CASE Del(k)
    BY <2>1, <1>7, <1>0, DelStep, FewerEntries DEF Get
  <2>2. CASE UNCHANGED entries
    <3>1. older' \in SUBSET (Key \X Key)
      <4>1. CASE older' = older
        BY <4>1, <1>0
      <4>2. CASE older' = MoveToEnd(older, Keys(entries), k)
        BY <4>2, <1>0, KeysType, OrderType
      <4>3. CASE Del(k)
        BY <4>3, DelStep
      <4> QED BY <1>7, <4>1, <4>2, <4>3 DEF Get
    <3> QED BY <2>2, <3>1, <1>7, <1>0, FewerEntries DEF Get
  <2> QED BY <2>1, <2>2, <1>7 DEF Get
<1>8. CASE UNCHANGED vars
  BY <1>8 DEF vars, CacheInv, TypeOK, NextExpiryIsLowerBound, OneEntryPerKey
<1> QED BY <1>1, <1>2, <1>3, <1>4, <1>5, <1>6, <1>7, <1>8 DEF Next

\* CacheInv holds in every reachable state.
THEOREM CacheInductive == Spec => []CacheInv
BY CacheInit, CacheStep, PTL DEF Spec

\* The cache's state keeps its type.
THEOREM CacheTypeCorrect == Spec => []TypeOK
<1>1. CacheInv => TypeOK
  BY DEF CacheInv
<1> QED BY <1>1, CacheInductive, PTL

\* The comment in _purge_expired is right: the cached bound is never larger than
\* the earliest expiry.
THEOREM BoundNeverLate == Spec => []NextExpiryIsLowerBound
<1>1. CacheInv => NextExpiryIsLowerBound
  BY DEF CacheInv
<1> QED BY <1>1, CacheInductive, PTL
-----------------------------------------------------------------------------
(* The order of the keys and the size bound *)

\* R orders K: no two keys are each used before the other, and of any keys one
\* was used first.
Ordered(R, K) ==
    /\ R \subseteq K \X K
    /\ \A a, b \in K : <<a, b>> \in R => <<b, a>> \notin R
    /\ \A S \in SUBSET K : S # {} => \E a \in S : \A b \in S : b # a => <<a, b>> \in R

DictInv ==
    /\ Ordered(older, Keys(entries))
    /\ IsFiniteSet(entries) /\ Cardinality(entries) <= MaxSize

\* Fewer keys are ordered by the same order.
LEMMA OrderedOn ==
    ASSUME NEW R, NEW K, Ordered(R, K), NEW L \in SUBSET K
    PROVE  Ordered(OrderOn(R, L), L)
<1>1. \A a, b : <<a, b>> \in OrderOn(R, L) <=> <<a, b>> \in R /\ a \in L /\ b \in L
  BY DEF OrderOn
<1>2. OrderOn(R, L) \subseteq L \X L
  BY DEF OrderOn, Ordered
<1>3. \A a, b \in L : <<a, b>> \in OrderOn(R, L) => <<b, a>> \notin OrderOn(R, L)
  BY <1>1 DEF Ordered
<1>4. ASSUME NEW S \in SUBSET L, S # {}
      PROVE  \E a \in S : \A b \in S : b # a => <<a, b>> \in OrderOn(R, L)
  <2>1. PICK a \in S : \A b \in S : b # a => <<a, b>> \in R
    BY <1>4 DEF Ordered
  <2> QED BY <1>1, <2>1
<1> QED BY <1>2, <1>3, <1>4 DEF Ordered

\* A key moved to the end is ordered after all others.
LEMMA OrderedMove ==
    ASSUME NEW R, NEW J, Ordered(R, J), NEW K, NEW k \in K, K \ {k} \subseteq J
    PROVE  Ordered(MoveToEnd(R, K, k), K)
<1> DEFINE L == K \ {k}
           M == MoveToEnd(R, K, k)
<1>1. \A a, b : <<a, b>> \in M <=> (<<a, b>> \in R /\ a \in L /\ b \in L) \/ (a \in L /\ b = k)
  BY DEF MoveToEnd, OrderOn
<1>2. M \subseteq K \X K
  BY DEF MoveToEnd, OrderOn, Ordered
<1>3. \A a, b \in K : <<a, b>> \in M => <<b, a>> \notin M
  BY <1>1 DEF Ordered
<1>4. ASSUME NEW S \in SUBSET K, S # {}
      PROVE  \E a \in S : \A b \in S : b # a => <<a, b>> \in M
  <2>1. CASE S \ {k} = {}
    BY <1>4, <2>1
  <2>2. CASE S \ {k} # {}
    <3>1. PICK a \in S \ {k} : \A b \in S \ {k} : b # a => <<a, b>> \in R
      BY <2>2 DEF Ordered
    <3> QED BY <1>1, <3>1
  <2> QED BY <2>1, <2>2
<1> HIDE DEF M
<1> QED BY <1>2, <1>3, <1>4 DEF Ordered, M

\* Fewer entries, in the same order, are a dictionary still.
LEMMA FewerDict ==
    ASSUME DictInv, entries' \subseteq entries, older' = OrderOn(older, Keys(entries'))
    PROVE  DictInv'
<1>1. Keys(entries') \in SUBSET Keys(entries)
  BY DEF Keys
<1>2. Ordered(older, Keys(entries))
  BY DEF DictInv
<1>3. Ordered(older', Keys(entries'))
  BY <1>1, <1>2, OrderedOn
<1>4. IsFiniteSet(entries') /\ Cardinality(entries') <= Cardinality(entries)
  BY FS_Subset DEF DictInv
<1>5. Cardinality(entries) \in Nat /\ Cardinality(entries') \in Nat
  BY <1>4, FS_CardinalityType DEF DictInv
<1>6. Cardinality(entries') <= MaxSize
  BY <1>4, <1>5, MaxSizeAssumption DEF DictInv
<1> QED BY <1>3, <1>4, <1>6 DEF DictInv

\* Of an ordered dictionary with one entry too many, the entry used first goes.
LEMMA EvictionSuffices ==
    ASSUME NEW E, IsFiniteSet(E), Cardinality(E) <= MaxSize + 1, NEW R,
           Ordered(R, Keys(E)), \A d, e \in E : d.key = e.key => d = e
    PROVE  Cardinality(MostRecent(E, R)) <= MaxSize
<1> DEFINE Left == MostRecent(E, R)
<1>1. Left \in SUBSET E
  BY DEF MostRecent
<1>2. /\ IsFiniteSet(Left) /\ Cardinality(Left) \in Nat /\ Cardinality(E) \in Nat
      /\ Cardinality(Left) <= Cardinality(E)
  BY <1>1, FS_Subset, FS_CardinalityType
<1>3. CASE Cardinality(E) <= MaxSize
  BY <1>2, <1>3, MaxSizeAssumption
<1>4. CASE Cardinality(E) = MaxSize + 1
  <2>1. E # {} /\ Keys(E) # {}
    BY <1>4, FS_EmptySet, MaxSizeAssumption DEF Keys
  <2>2. PICK first \in Keys(E) : \A b \in Keys(E) : b # first => <<first, b>> \in R
    BY <2>1 DEF Ordered
  <2>3. PICK e \in E : e.key = first
    BY <2>2 DEF Keys
  <2> DEFINE after == {d \in E : <<e.key, d.key>> \in R}
  <2>4. E \ {e} \in SUBSET after /\ after \in SUBSET E
    BY <2>2, <2>3 DEF Keys
  <2>5. IsFiniteSet(E \ {e}) /\ Cardinality(E \ {e}) = MaxSize
    <3>1. IsFiniteSet(E \ {e}) /\ Cardinality(E \ {e}) = Cardinality(E) - 1
      BY <2>3, FS_RemoveElement
    <3> QED BY <1>4, <3>1, MaxSizeAssumption
  <2>6. IsFiniteSet(after) /\ Cardinality(after) \in Nat
    BY <2>4, FS_Subset, FS_CardinalityType
  <2>7. Cardinality(after) >= MaxSize
    BY <2>4, <2>5, <2>6, FS_Subset, MaxSizeAssumption
  <2>8. e \notin Left
    BY <2>6, <2>7, MaxSizeAssumption DEF MostRecent
  <2>9. Left \in SUBSET (E \ {e})
    BY <1>1, <2>8
  <2> QED BY <2>5, <2>9, FS_Subset
<1> QED BY <1>2, <1>3, <1>4, MaxSizeAssumption

\* set() leaves a dictionary: one entry more, at the end, and one less if it is
\* one too many.
LEMMA SetDict ==
    ASSUME CacheInv, DictInv, NEW k \in Key, NEW v \in Value, NEW ttl \in TTL, Set(k, v, ttl)
    PROVE  DictInv'
<1> DEFINE e == [key |-> k, value |-> v, expires |-> clock + ttl]
           others == Remove(entries, k)
           stored == Store(entries, e)
           order  == MoveToEnd(older, Keys(stored), k)
           kept   == Purged(stored, Lower(nextExpiry, clock + ttl), clock)
<1>1. entries' = MostRecent(kept, order) /\ older' = OrderOn(order, Keys(entries'))
  BY DEF Set
<1>2. stored = others \cup {e} /\ e.key = k
  BY DEF Store, Remove
<1>3. \A d, c \in stored : d.key = c.key => d = c
  BY <1>2 DEF CacheInv, OneEntryPerKey, Remove
<1>4. others \in SUBSET entries
  BY DEF Remove
<1> HIDE DEF e, others, stored, order, kept
<1>5. k \in Keys(stored) /\ Keys(stored) \ {k} \subseteq Keys(entries)
  BY <1>2, <1>4 DEF Keys
<1>6. Ordered(order, Keys(stored))
  BY <1>5, OrderedMove DEF order, DictInv
<1>7. kept \in SUBSET stored
  BY DEF kept, Purged, Live
<1>8. /\ IsFiniteSet(others) /\ Cardinality(others) \in Nat /\ Cardinality(others) <= MaxSize
  <2>1. IsFiniteSet(others) /\ Cardinality(others) <= Cardinality(entries)
    BY <1>4, FS_Subset DEF DictInv
  <2>2. Cardinality(entries) \in Nat /\ Cardinality(others) \in Nat
    BY <2>1, FS_CardinalityType DEF DictInv
  <2> QED BY <2>1, <2>2, MaxSizeAssumption DEF DictInv
<1>9. IsFiniteSet(stored) /\ Cardinality(stored) \in Nat /\ Cardinality(stored) <= MaxSize + 1
  <2>1. /\ IsFiniteSet(others \cup {e})
        /\ Cardinality(others \cup {e}) = IF e \in others THEN Cardinality(others) ELSE Cardinality(others) + 1
    BY <1>8, FS_AddElement
  <2> QED BY <1>2, <1>8, <2>1, MaxSizeAssumption
<1>10. IsFiniteSet(kept) /\ Cardinality(kept) <= MaxSize + 1
  <2>1. IsFiniteSet(kept) /\ Cardinality(kept) <= Cardinality(stored)
    BY <1>7, <1>9, FS_Subset
  <2>2. Cardinality(kept) \in Nat
    BY <2>1, FS_CardinalityType
  <2> QED BY <1>9, <2>1, <2>2, MaxSizeAssumption
<1>11. Cardinality(entries') <= MaxSize
  <2> DEFINE rest == OrderOn(order, Keys(kept))
  <2>1. Keys(kept) \in SUBSET Keys(stored)
    BY <1>7 DEF Keys
  <2>2. Ordered(rest, Keys(kept))
    BY <1>6, <2>1, OrderedOn
  <2>3. \A d, c \in kept : <<d.key, c.key>> \in order <=> <<d.key, c.key>> \in rest
    BY DEF OrderOn, Keys
  <2>4. MostRecent(kept, order) = MostRecent(kept, rest)
    <3>1. \A d \in kept : {c \in kept : <<d.key, c.key>> \in order} = {c \in kept : <<d.key, c.key>> \in rest}
      BY <2>3
    <3> QED BY <3>1 DEF MostRecent
  <2>5. \A d, c \in kept : d.key = c.key => d = c
    BY <1>3, <1>7
  <2> HIDE DEF rest
  <2> QED BY <1>1, <1>10, <2>2, <2>4, <2>5, EvictionSuffices
<1>12. entries' \in SUBSET kept /\ Keys(entries') \in SUBSET Keys(stored)
  BY <1>1, <1>7 DEF MostRecent, Keys
<1>13. IsFiniteSet(entries')
  BY <1>10, <1>12, FS_Subset
<1>14. Ordered(older', Keys(entries'))
  BY <1>1, <1>6, <1>12, OrderedOn
<1> QED BY <1>11, <1>13, <1>14 DEF DictInv

\* Every call leaves a dictionary.
LEMMA DictStep == CacheInv /\ DictInv /\ [Next]_vars => DictInv'
<1> SUFFICES ASSUME CacheInv, DictInv, [Next]_vars PROVE DictInv'
  OBVIOUS
<1>1. ASSUME UNCHANGED <<entries, older>> PROVE DictInv'
  BY <1>1 DEF DictInv
<1>2. ASSUME NEW k \in Key, Del(k) PROVE DictInv'
  BY <1>2, FewerDict DEF Del, Remove
<1>3. CASE Tick
  BY <1>1, <1>3 DEF Tick
<1>4. CASE Clear
  BY <1>4, FS_EmptySet, MaxSizeAssumption DEF Clear, DictInv, Ordered, Keys
<1>5. CASE Length \/ Iterate
  BY <1>5, FewerDict DEF Length, Iterate, PurgeExpired, Purged, Live
<1>6. ASSUME NEW k \in Key, Delete(k) PROVE DictInv'
  BY <1>2, <1>6 DEF Delete
<1>7. ASSUME NEW k \in Key, Contains(k) PROVE DictInv'
  BY <1>1, <1>2, <1>7 DEF Contains
<1>8. ASSUME NEW k \in Key, NEW v \in Value, NEW ttl \in TTL, Set(k, v, ttl) PROVE DictInv'
  BY <1>8, SetDict
<1>9. ASSUME NEW k \in Key, NEW now \in 0..MaxTime, Get(k, now) PROVE DictInv'
  <2>1. CASE k \in Keys(entries) /\ older' = MoveToEnd(older, Keys(entries), k) /\ entries' = entries
    <3>1. Ordered(older', Keys(entries))
      BY <2>1, OrderedMove DEF DictInv
    <3> QED BY <2>1, <3>1 DEF DictInv
  <2> QED BY <1>1, <1>2, <1>9, <2>1 DEF Get, Keys
<1>10. CASE UNCHANGED vars
  BY <1>1, <1>10 DEF vars
<1> QED BY <1>3, <1>4, <1>5, <1>6, <1>7, <1>8, <1>9, <1>10 DEF Next

\* The dictionary stays one for every set of keys and every size: one entry per
\* key, all in one line of recency, and never more than _max_size of them, however
\* expired, replaced, read and evicted entries follow each other.
THEOREM DictStays == Spec => []OrderedAndBounded
<1>1. Init => DictInv
  BY FS_EmptySet, MaxSizeAssumption DEF Init, DictInv, Ordered, Keys
<1>2. CacheInv /\ DictInv => OrderedAndBounded
  <2> SUFFICES ASSUME CacheInv, DictInv PROVE OrderedAndBounded
    OBVIOUS
  <2>1. \A a, b \in Keys(entries) : a # b => (<<a, b>> \in older) # (<<b, a>> \in older)
    <3> SUFFICES ASSUME NEW a \in Keys(entries), NEW b \in Keys(entries), a # b
                 PROVE  (<<a, b>> \in older \/ <<b, a>> \in older) /\ ~(<<a, b>> \in older /\ <<b, a>> \in older)
      OBVIOUS
    <3> DEFINE S == {a, b}
    <3>1. S \in SUBSET Keys(entries) /\ S # {}
      OBVIOUS
    <3> HIDE DEF S
    <3>2. \E c \in S : \A x \in S : x # c => <<c, x>> \in older
      BY <3>1 DEF DictInv, Ordered
    <3> QED BY <3>2 DEF S, DictInv, Ordered
  <2>2. \A p \in older : p[1] # p[2] /\ {p[1], p[2]} \subseteq Keys(entries)
    BY DEF DictInv, Ordered
  <2> QED BY <2>1, <2>2 DEF CacheInv, OneEntryPerKey, DictInv, OrderedAndBounded
<1> QED BY <1>1, <1>2, DictStep, CacheInductive, PTL DEF Spec

-----------------------------------------------------------------------------
(* The refinement *)

\* The abstract cache as it shows in the dictionary.
live == Live(entries, clock)
recency == OrderOn(older, Keys(live))
ended == Ended(entries, clock)

\* A new cache is a new abstract cache.
LEMMA InitKeeps == Init => Promise!Init
<1> SUFFICES ASSUME Init PROVE Promise!Init
  OBVIOUS
<1>1. Live(entries, clock) = {} /\ OrderOn(older, Keys(Live(entries, clock))) = {}
  BY DEF Init, Live, OrderOn
<1>2. Ended(entries, clock) = {}
  BY DEF Init, Ended
<1> QED BY <1>1, <1>2 DEF Init, Promise!Init

\* A step that takes entries out and leaves the clock alone ends nothing.
LEMMA NothingEnds ==
    ASSUME clock' = clock, entries' \subseteq entries
    PROVE  ended' \subseteq ended
BY DEF ended, Ended

\* del of one key leaves nothing of it among what has ended.
LEMMA DelForgets ==
    ASSUME NEW k \in Key, Del(k), clock' = clock
    PROVE  Promise!Forget(k)
<1>1. Ended(entries, clock)' \subseteq {e \in Ended(entries, clock) : e.key # k}
  BY DEF Del, Remove, Ended
<1> QED BY <1>1 DEF Promise!Forget

\* A step that leaves the clock alone and removes no live entry, and keeps the
\* order of the live ones, is invisible.
LEMMA Invisible ==
    ASSUME CacheInv, clock' = clock, entries' \subseteq entries, Live(entries, clock) \subseteq entries',
           older' = older \/ older' = OrderOn(older, Keys(entries'))
    PROVE  live' = live /\ recency' = recency
<1>1. live' = live
  BY DEF live, Live
<1>2. Keys(live) \subseteq Keys(entries')
  BY DEF live, Keys
<1>3. recency' = recency
  BY <1>1, <1>2 DEF recency, OrderOn
<1> QED BY <1>1, <1>3

\* del of one key drops it from the abstract cache.
LEMMA DelKeeps ==
    ASSUME CacheInv, NEW k \in Key, Del(k), clock' = clock
    PROVE  live' = Remove(live, k) /\ recency' = OrderOn(recency, Keys(live'))
<1>1. live' = Remove(live, k)
  BY DEF Del, live, Live, Remove
<1>2. Keys(live') \subseteq Keys(entries') /\ Keys(live') \subseteq Keys(live)
  BY <1>1 DEF Keys, live, Live, Remove
<1>3. recency' = OrderOn(recency, Keys(live'))
  BY <1>2 DEF recency, OrderOn, Del
<1> QED BY <1>1, <1>3

\* move_to_end commutes with looking at live keys only.
LEMMA MoveRestrict ==
    ASSUME NEW R \in SUBSET (Key \X Key), NEW K \in SUBSET Key, NEW S \in SUBSET K,
           NEW k \in S, NEW A \in SUBSET (Key \X Key), A = OrderOn(R, S) \/ A = OrderOn(R, S \ {k})
    PROVE  MoveToEnd(A, S, k) = OrderOn(MoveToEnd(R, K, k), S)
<1>1. ASSUME NEW p \in Key \X Key
      PROVE  p \in MoveToEnd(A, S, k) <=> p \in OrderOn(MoveToEnd(R, K, k), S)
  BY DEF MoveToEnd, OrderOn
<1>2. MoveToEnd(A, S, k) \in SUBSET (Key \X Key)
  BY OrderType
<1>3. OrderOn(MoveToEnd(R, K, k), S) \in SUBSET (Key \X Key)
  BY OrderType
<1> QED BY <1>1, <1>2, <1>3

\* Eviction looks only at the order of the entries it is given.
LEMMA MostRecentRestrict ==
    ASSUME NEW E \in SUBSET Entry, NEW R
    PROVE  MostRecent(E, R) = MostRecent(E, OrderOn(R, Keys(E)))
<1>1. ASSUME NEW e \in E
      PROVE  {d \in E : <<e.key, d.key>> \in R} = {d \in E : <<e.key, d.key>> \in OrderOn(R, Keys(E))}
  BY DEF OrderOn, Keys
<1> QED BY <1>1 DEF MostRecent

\* The abstract module works on the same dictionary.
LEMMA SameDict ==
    /\ \A E : Promise!Keys(E) = Keys(E)
    /\ \A E, e : Promise!Store(E, e) = Store(E, e)
    /\ \A E, k : Promise!Remove(E, k) = Remove(E, k)
    /\ \A R, K : Promise!OrderOn(R, K) = OrderOn(R, K)
    /\ \A R, K, k : Promise!MoveToEnd(R, K, k) = MoveToEnd(R, K, k)
    /\ \A S : Promise!Cardinality(S) = Cardinality(S)
    /\ \A E, R : Promise!MostRecent(E, R) = MostRecent(E, R)
<1>1. \A E : Promise!Keys(E) = Keys(E)
  BY DEF Keys, Promise!Keys
<1>2. \A E, e : Promise!Store(E, e) = Store(E, e)
  BY DEF Store, Promise!Store
<1>3. \A E, k : Promise!Remove(E, k) = Remove(E, k)
  BY DEF Remove, Promise!Remove
<1>4. \A R, K : Promise!OrderOn(R, K) = OrderOn(R, K)
  BY DEF OrderOn, Promise!OrderOn
<1>5. \A R, K, k : Promise!MoveToEnd(R, K, k) = MoveToEnd(R, K, k)
  BY <1>4 DEF MoveToEnd, Promise!MoveToEnd
<1>6. \A S : Promise!Cardinality(S) = Cardinality(S)
  BY DEF Cardinality, Promise!Cardinality
<1>7. \A E, R : Promise!MostRecent(E, R) = MostRecent(E, R)
  BY <1>6 DEF MostRecent, Promise!MostRecent
<1> QED BY <1>1, <1>2, <1>3, <1>4, <1>5, <1>6, <1>7

\* Time passing expires the same entries in both.
LEMMA TickKeeps == ASSUME CacheInv, Tick PROVE Promise!Tick
<1>1. live' = {e \in live : clock' < e.expires}
  BY TimeAssumption DEF Tick, live, Live, CacheInv, TypeOK, Entry
<1>2. recency' = OrderOn(recency, Keys(live'))
  <2>1. Keys(live') \subseteq Keys(live)
    BY <1>1 DEF Keys
  <2> QED BY <2>1 DEF recency, OrderOn, Tick
<1>3. ended' \subseteq ended \cup (live \ live')
  BY TimeAssumption DEF Tick, ended, Ended, live, Live, CacheInv, TypeOK, Entry
<1> QED BY <1>1, <1>2, <1>3, SameDict DEF Tick, Promise!Tick, live, recency, ended

\* set() evicts what the abstract cache evicts: the purge before the eviction
\* has left the live entries only.
LEMMA SetKeeps ==
    ASSUME CacheInv, NEW k \in Key, NEW v \in Value, NEW ttl \in TTL, Set(k, v, ttl)
    PROVE  Promise!Set(k, v, ttl)
<1> DEFINE e == [key |-> k, value |-> v, expires |-> clock + ttl]
           stored == Store(entries, e)
           order  == MoveToEnd(older, Keys(stored), k)
           bound  == Lower(nextExpiry, clock + ttl)
           kept   == Live(stored, clock)
           astored == Store(live, e)
           aorder == MoveToEnd(recency, Keys(astored), k)
<1>0. clock \in Nat /\ ttl \in Nat /\ clock < clock + ttl
  BY TTLAssumption, TimeAssumption DEF CacheInv, TypeOK
<1>1. e \in Entry /\ e.expires = clock + ttl /\ e.key = k
  BY <1>0 DEF Entry
<1>2. Bounds(nextExpiry, entries) /\ nextExpiry \in Nat \cup {Inf} /\ entries \in SUBSET Entry
      /\ older \in SUBSET (Key \X Key)
  BY DEF CacheInv, TypeOK, NextExpiryIsLowerBound, Bounds
<1>3. /\ entries' = MostRecent(Purged(stored, bound, clock), order)
      /\ older' = OrderOn(order, Keys(entries'))
      /\ ret' = <<"set", None>>
      /\ clock' = clock
  BY DEF Set
<1>4. SUFFICES /\ live' = MostRecent(astored, aorder)
               /\ recency' = OrderOn(aorder, Keys(live'))
               /\ ended' = {}
  BY <1>3, SameDict DEF Promise!Set, Promise!Forget, live, recency, ended
<1> HIDE DEF e
<1>5. bound \in Nat \cup {Inf} /\ Bounds(bound, stored) /\ stored \in SUBSET Entry
  BY <1>1, <1>2, LowerIsBound
<1>6. Purged(stored, bound, clock) = kept
  <2> HIDE DEF stored, bound
  <2> QED BY <1>0, <1>5, PurgedIsLive
<1>7. kept = astored
  BY <1>0, <1>1 DEF Live, Store, live
<1>8. e \in astored /\ live \in SUBSET Entry /\ astored \in SUBSET Entry /\ astored \subseteq stored
  BY <1>1, <1>2 DEF Store, live, Live
<1>9. k \in Keys(astored) /\ Keys(astored) \subseteq Keys(stored) /\ Keys(stored) \in SUBSET Key
      /\ Keys(astored) \ {k} \subseteq Keys(live)
  BY <1>1, <1>5, <1>8 DEF Keys, Store, Entry
<1>10. aorder = OrderOn(order, Keys(astored))
  <2> DEFINE S == Keys(astored)
             A == OrderOn(older, S \ {k})
  <2>1. MoveToEnd(A, S, k) = OrderOn(order, S)
    <3>1. A \in SUBSET (Key \X Key)
      BY <1>2 DEF OrderOn
    <3> HIDE DEF A, S
    <3> QED BY <1>2, <1>9, <3>1, MoveRestrict DEF A, S
  <2>2. OrderOn(A, S \ {k}) = OrderOn(recency, S \ {k})
    BY <1>9 DEF OrderOn, recency
  <2>3. MoveToEnd(A, S, k) = aorder
    BY <2>2 DEF MoveToEnd
  <2> QED BY <2>1, <2>3
<1> HIDE DEF stored, order, bound, kept, astored, aorder
<1>11. entries' = MostRecent(astored, aorder)
  BY <1>3, <1>6, <1>7, <1>8, <1>10, MostRecentRestrict
<1>12. entries' \subseteq astored
  BY <1>11 DEF MostRecent
<1>13. live' = entries'
  BY <1>3, <1>7, <1>12 DEF live, Live, kept
<1>14. Keys(entries') \subseteq Keys(astored)
  BY <1>12 DEF Keys
<1>15. recency' = OrderOn(aorder, Keys(entries'))
  BY <1>3, <1>10, <1>13, <1>14 DEF recency, OrderOn
<1>16. ended' = {}
  BY <1>0, <1>3, <1>5, <1>7, <1>8, <1>12 DEF ended, Ended, kept, Live, Entry
<1> QED BY <1>11, <1>13, <1>15, <1>16

\* A purge is invisible, and what it leaves is the abstract cache.
LEMMA PurgeKeeps ==
    ASSUME CacheInv, PurgeExpired
    PROVE  live' = live /\ recency' = recency /\ entries' = live /\ ended' \subseteq ended
<1>1. clock \in Nat /\ Bounds(nextExpiry, entries) /\ nextExpiry \in Nat \cup {Inf}
      /\ entries \in SUBSET Entry
  BY TimeAssumption DEF CacheInv, TypeOK, NextExpiryIsLowerBound, Bounds
<1>2. entries' = live
  BY <1>1, PurgedIsLive DEF PurgeExpired, live
<1>3. entries' \subseteq entries /\ Live(entries, clock) \subseteq entries'
  BY <1>2 DEF live, Live
<1> QED BY <1>2, <1>3, Invisible, NothingEnds DEF PurgeExpired

\* At most one live entry has a given key, and the dictionary holds it.
LEMMA LiveEntry ==
    ASSUME CacheInv, NEW k \in Key
    PROVE  /\ \A e \in entries : e.key = k /\ clock < e.expires => e \in live
           /\ \A e \in entries : e.key = k /\ e.expires <= clock => k \notin Keys(live)
           /\ k \in Keys(live) <=> \E e \in entries : e.key = k /\ clock < e.expires
           /\ live \subseteq entries /\ live \in SUBSET Entry
           /\ \A d, e \in live : d.key = e.key => d = e
<1>1. live \subseteq entries /\ live \in SUBSET Entry
  BY DEF live, Live, CacheInv, TypeOK
<1>2. \A d, e \in entries : d.key = e.key => d = e
  BY DEF CacheInv, OneEntryPerKey
<1>3. clock \in Nat /\ \A e \in entries : e.expires \in Nat
  BY TimeAssumption DEF CacheInv, TypeOK, Entry
<1>4. \A e : e \in live <=> e \in entries /\ clock < e.expires
  BY DEF live, Live
<1> QED BY <1>1, <1>2, <1>3, <1>4 DEF Keys

\* get() with any reading of the clock is an abstract get.
LEMMA GetKeeps ==
    ASSUME CacheInv, NEW k \in Key, NEW now \in 0..MaxTime, Get(k, now)
    PROVE  Promise!Get(k, now)
<1>0. clock' = clock /\ clock \in Nat /\ now \in Nat /\ entries \in SUBSET Entry
      /\ older \in SUBSET (Key \X Key) /\ recency \in SUBSET (Key \X Key)
      /\ Keys(live) \in SUBSET Key /\ Keys(entries) \in SUBSET Key /\ Keys(live) \subseteq Keys(entries)
  BY TimeAssumption, LiveEntry, KeysType DEF Get, CacheInv, TypeOK, recency, OrderOn, Keys
<1>1. CASE k \notin Keys(entries) /\ ret' = <<"get", None>> /\ UNCHANGED <<entries, older>>
  <2>1. live' = live /\ recency' = recency
    BY <1>0, <1>1 DEF live, recency
  <2>2. \A e \in live : e.key # k
    BY <1>0, <1>1 DEF Keys
  <2>3. live = Remove(live, k) /\ recency = OrderOn(recency, Keys(live))
    BY <2>2 DEF Remove, recency, OrderOn
  <2>4. Promise!Forget(k)
    BY <1>0, <1>1 DEF Promise!Forget, Ended, Keys
  <2> QED BY <1>0, <1>1, <2>1, <2>2, <2>3, <2>4, SameDict DEF Promise!Get, Promise!Drop, live, recency
<1>2. ASSUME NEW e \in entries, e.key = k, e.expires <= now, ret' = <<"get", None>>, Del(k)
      PROVE  Promise!Get(k, now)
  <2>1. \A d \in live : d.key = k => d.expires <= now
    BY <1>2, LiveEntry DEF CacheInv, OneEntryPerKey
  <2>2. live' = Remove(live, k) /\ recency' = OrderOn(recency, Keys(live'))
    BY <1>0, <1>2, DelKeeps
  <2>3. Promise!Forget(k)
    BY <1>0, <1>2, DelForgets
  <2> QED BY <1>0, <1>2, <2>1, <2>2, <2>3, SameDict DEF Promise!Get, Promise!Drop, live, recency
<1>3. ASSUME NEW e \in entries, e.key = k, now < e.expires, ret' = <<"get", e.value>>,
             older' = MoveToEnd(older, Keys(entries), k), UNCHANGED entries
      PROVE  Promise!Get(k, now)
  <2>1. live' = live /\ ended' = ended
    BY <1>0, <1>3 DEF live, ended
  <2>2. e.expires \in Nat /\ e.value \in Value
    BY <1>0 DEF Entry
  <2>3. CASE clock < e.expires
    <3>1. e \in live /\ k \in Keys(live)
      BY <1>3, <2>3, LiveEntry DEF Keys
    <3>2. MoveToEnd(recency, Keys(live), k) = OrderOn(older', Keys(live))
      BY <1>0, <1>3, <3>1, MoveRestrict DEF recency
    <3>3. recency' = MoveToEnd(recency, Keys(live), k)
      BY <2>1, <3>2 DEF recency
    <3> QED BY <1>0, <1>3, <2>1, <3>1, <3>3, SameDict DEF Promise!Get, live, recency, ended
  <2>4. CASE e.expires <= clock
    <3>1. k \notin Keys(live)
      BY <1>3, <2>4, LiveEntry
    <3>2. OrderOn(older', Keys(live)) = OrderOn(older, Keys(live))
      <4>1. \A p \in Key \X Key : p \in OrderOn(older', Keys(live)) <=> p \in OrderOn(older, Keys(live))
        BY <1>0, <1>3, <3>1 DEF OrderOn, MoveToEnd
      <4>2. older' \in SUBSET (Key \X Key)
        BY <1>0, <1>3, OrderType
      <4> QED BY <1>0, <4>1, <4>2 DEF OrderOn
    <3>3. recency' = recency
      BY <2>1, <3>2 DEF recency
    <3>4. e \in ended
      BY <2>4 DEF ended, Ended
    <3> QED BY <1>0, <1>3, <2>1, <3>3, <3>4 DEF Promise!Get, live, recency, ended
  <2> QED BY <1>0, <2>2, <2>3, <2>4
<1> QED BY <1>1, <1>2, <1>3 DEF Get

\* delete() reports whether a live entry was removed.
LEMMA DeleteKeeps == ASSUME CacheInv, NEW k \in Key, Delete(k) PROVE Promise!Delete(k)
<1>1. live' = Remove(live, k) /\ recency' = OrderOn(recency, Keys(live'))
  BY DelKeeps DEF Delete
<1>2. Promise!Forget(k)
  BY DelForgets DEF Delete
<1> QED BY <1>1, <1>2, SameDict DEF Delete, Promise!Delete, Promise!Drop, live, recency

\* __contains__ drops only what the abstract cache no longer holds.
LEMMA ContainsKeeps == ASSUME CacheInv, NEW k \in Key, Contains(k) PROVE Promise!Contains(k)
<1>0. clock' = clock
  BY DEF Contains
<1>1. CASE /\ \E e \in entries : e.key = k /\ e.expires <= clock
           /\ ret' = <<"contains", FALSE>>
           /\ Del(k)
  <2>1. k \notin Keys(live)
    BY <1>1, LiveEntry
  <2>2. \A e \in live : e.key # k
    BY <2>1 DEF Keys
  <2>3. live' = live /\ recency' = recency
    <3>1. live' = Remove(live, k) /\ recency' = OrderOn(recency, Keys(live'))
      BY <1>0, <1>1, DelKeeps
    <3>2. live' = live
      BY <3>1, <2>2 DEF Remove
    <3> QED BY <3>1, <3>2 DEF recency, OrderOn
  <2>4. (k \in Keys(live)) = FALSE
    BY <2>1
  <2>5. ended' \subseteq ended
    BY <1>0, <1>1, NothingEnds DEF Del, Remove
  <2> QED
    BY <1>0, <1>1, <2>3, <2>4, <2>5, SameDict DEF Promise!Contains, Promise!Ask, live, recency, ended
<1>2. CASE /\ \A e \in entries : e.key = k => clock < e.expires
           /\ ret' = <<"contains", k \in Keys(entries)>>
           /\ UNCHANGED <<entries, older>>
  <2>1. live' = live /\ recency' = recency /\ ended' = ended
    BY <1>0, <1>2 DEF live, recency, ended
  <2>2. (k \in Keys(entries)) = (k \in Keys(live))
    BY <1>2, LiveEntry DEF Keys
  <2> QED
    BY <1>0, <1>2, <2>1, <2>2, SameDict DEF Promise!Contains, Promise!Ask, live, recency, ended
<1> QED BY <1>1, <1>2 DEF Contains

\* Every call is a call of the abstract cache, or is not seen by it.
LEMMA StepKeeps == CacheInv /\ [Next]_vars => [Promise!Next]_(Promise!vars)
<1> SUFFICES ASSUME CacheInv, [Next]_vars PROVE [Promise!Next]_(Promise!vars)
  OBVIOUS
<1>1. CASE Tick
  BY <1>1, TickKeeps DEF Promise!Next
<1>2. CASE Clear
  <2>1. live' = {} /\ recency' = {} /\ ended' = {}
    BY <1>2 DEF Clear, live, recency, ended, Live, Ended, OrderOn
  <2> QED BY <1>2, <2>1 DEF Clear, Promise!Clear, Promise!Next, live, recency, ended
<1>3. CASE Length
  BY <1>3, PurgeKeeps, SameDict
     DEF Length, PurgeExpired, Promise!Length, Promise!Ask, Promise!Next, live, recency, ended
<1>4. CASE Iterate
  BY <1>4, PurgeKeeps, SameDict
     DEF Iterate, PurgeExpired, Promise!Iterate, Promise!Ask, Promise!Next, live, recency, ended
<1>5. ASSUME NEW k \in Key, Delete(k) PROVE Promise!Next
  BY <1>5, DeleteKeeps DEF Promise!Next
<1>6. ASSUME NEW k \in Key, Contains(k) PROVE Promise!Next
  BY <1>6, ContainsKeeps DEF Promise!Next
<1>7. ASSUME NEW k \in Key, NEW v \in Value, NEW ttl \in TTL, Set(k, v, ttl) PROVE Promise!Next
  BY <1>7, SetKeeps DEF Promise!Next
<1>8. ASSUME NEW k \in Key, NEW now \in 0..MaxTime, Get(k, now) PROVE Promise!Next
  BY <1>8, GetKeeps DEF Promise!Next
<1>9. CASE UNCHANGED vars
  BY <1>9 DEF vars, Promise!vars, Live, Ended, OrderOn, Keys
<1> QED BY <1>1, <1>2, <1>3, <1>4, <1>5, <1>6, <1>7, <1>8, <1>9 DEF Next

\* TTLCache implements LiveCache: lazy removal and the cached bound cannot be
\* seen from outside.
THEOREM CacheRefines == Spec => KeepsPromise
BY InitKeeps, StepKeeps, CacheInductive, PTL DEF Spec, KeepsPromise, Promise!Spec
=============================================================================
