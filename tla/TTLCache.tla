------------------------------ MODULE TTLCache ------------------------------
(***************************************************************************)
(* src/cache/ttl_cache.py.  Every public method holds the lock from its    *)
(* first access to its last, so a call is one action.  Entries outlive     *)
(* their expiry until something removes them, and _next_expiry is a cached *)
(* bound that lets _purge_expired skip its scan.                           *)
(***************************************************************************)
EXTENDS OrderedDict

CONSTANTS
    Key, Value,
    TTL,       \* lifetimes callers use, default_ttl among them
    MaxTime,   \* bound: last reading of the clock
    Inf,       \* math.inf
    None       \* Python's None

ASSUME TTLAssumption == TTL \subseteq Nat \ {0}
ASSUME TimeAssumption == MaxTime \in Nat
ASSUME InfAssumption == Inf \notin Nat

VARIABLES
    clock,        \* time.monotonic()
    entries,      \* _entries: the records
    older,        \* _entries: their order
    nextExpiry,   \* _next_expiry
    ret           \* what the last call returned

vars == <<clock, entries, older, nextExpiry, ret>>

Entry == [key : Key, value : Value, expires : Nat]

TypeOK ==
    /\ clock \in 0..MaxTime
    /\ entries \subseteq Entry
    /\ older \subseteq Key \X Key
    /\ nextExpiry \in Nat \cup {Inf}

Init ==
    /\ clock = 0
    /\ entries = {}
    /\ older = {}
    /\ nextExpiry = Inf
    /\ ret = <<"init", None>>

-----------------------------------------------------------------------------

Live(E, now) == {e \in E : now < e.expires}
Ended(E, now) == {e \in E : e.expires <= now}

\* Mutant of Before: nothing is purged at the moment of the bound itself.
BeforeOrAt(now, bound) == bound = Inf \/ now <= bound

\* now < bound, which is always so of math.inf
Before(now, bound) == bound = Inf \/ now < bound

\* Mutant of Lower: the bound follows the entry stored last.
LowerOverwrites(bound, expires) == expires

\* The bound once an entry that ends at "expires" is stored.
Lower(bound, expires) == IF Before(expires, bound) THEN expires ELSE bound

\* n is the bound _purge_expired computes: min(..., default=math.inf)
IsEarliest(n, E) ==
    /\ E = {} => n = Inf
    /\ E # {} => n \in {e.expires : e \in E} /\ \A e \in E : n <= e.expires

\* _purge_expired, when E, its order and the bound are given: entries that
\* stay, and (as the last conjunct of an action) the bound it leaves.
Purged(E, bound, now) == IF Before(now, bound) THEN E ELSE Live(E, now)

PurgedBound(E, bound, now) ==
    IF Before(now, bound)
    THEN nextExpiry' = bound
    ELSE /\ nextExpiry' \in {e.expires : e \in Live(E, now)} \cup {Inf}
         /\ IsEarliest(nextExpiry', Live(E, now))

-----------------------------------------------------------------------------

Tick ==
    /\ clock < MaxTime
    /\ clock' = clock + 1
    /\ UNCHANGED <<entries, older, nextExpiry, ret>>

Set(k, v, ttl) ==
    LET stored == Store(entries, [key |-> k, value |-> v, expires |-> clock + ttl])
        order  == MoveToEnd(older, Keys(stored), k)
        bound  == Lower(nextExpiry, clock + ttl)
    IN  /\ entries' = MostRecent(Purged(stored, bound, clock), order)
        /\ older' = OrderOn(order, Keys(entries'))
        /\ PurgedBound(stored, bound, clock)
        /\ ret' = <<"set", None>>
        /\ UNCHANGED clock

\* del self._entries[key]
Del(k) ==
    /\ entries' = Remove(entries, k)
    /\ older' = OrderOn(older, Keys(entries'))

\* now is _resolve_now's result: the clock's reading when the caller gives
\* none, the caller's own otherwise.  A wall-clock reading is shifted by the
\* wall clock's current reading, which may have been set meanwhile, so it can
\* land anywhere on the line of the monotonic clock.
Get(k, now) ==
    /\ \/ /\ k \notin Keys(entries)
          /\ ret' = <<"get", None>>
          /\ UNCHANGED <<entries, older>>
       \/ \E e \in entries :
             /\ e.key = k /\ e.expires <= now
             /\ ret' = <<"get", None>>
             /\ Del(k)
       \/ \E e \in entries :
             /\ e.key = k /\ now < e.expires
             /\ ret' = <<"get", e.value>>
             /\ older' = MoveToEnd(older, Keys(entries), k)
             /\ UNCHANGED entries
    /\ UNCHANGED <<clock, nextExpiry>>

Delete(k) ==
    /\ Del(k)
    /\ ret' = <<"delete", k \in Keys(Live(entries, clock))>>
    /\ UNCHANGED <<clock, nextExpiry>>

\* __contains__
Contains(k) ==
    /\ \/ /\ \E e \in entries : e.key = k /\ e.expires <= clock
          /\ ret' = <<"contains", FALSE>>
          /\ Del(k)
       \/ /\ \A e \in entries : e.key = k => clock < e.expires
          /\ ret' = <<"contains", k \in Keys(entries)>>
          /\ UNCHANGED <<entries, older>>
    /\ UNCHANGED <<clock, nextExpiry>>

\* Mutant of Clear: the bound is reset to None instead of math.inf.
ClearToNone ==
    /\ entries' = {}
    /\ older' = {}
    /\ nextExpiry' = None
    /\ ret' = <<"clear", None>>
    /\ UNCHANGED clock

Clear ==
    /\ entries' = {}
    /\ older' = {}
    /\ nextExpiry' = Inf
    /\ ret' = <<"clear", None>>
    /\ UNCHANGED clock

\* _purge_expired(self._clock()) on the cache as it is
PurgeExpired ==
    /\ entries' = Purged(entries, nextExpiry, clock)
    /\ older' = OrderOn(older, Keys(entries'))
    /\ PurgedBound(entries, nextExpiry, clock)
    /\ UNCHANGED clock

\* __len__
Length == PurgeExpired /\ ret' = <<"len", Cardinality(entries')>>

\* __iter__
Iterate == PurgeExpired /\ ret' = <<"iter", Keys(entries')>>

Next ==
    \/ Tick \/ Clear \/ Length \/ Iterate
    \/ \E k \in Key :
          \/ Delete(k) \/ Contains(k)
          \/ \E v \in Value, ttl \in TTL : Set(k, v, ttl)
          \/ \E now \in 0..MaxTime : Get(k, now)

Spec == Init /\ [][Next]_vars

-----------------------------------------------------------------------------
(* Properties *)

\* "_next_expiry is never larger than the real minimum expiry": however many
\* entries were deleted, replaced or evicted since it was computed, skipping
\* the scan of _purge_expired leaves no expired entry behind.
NextExpiryIsLowerBound == \A e \in entries : nextExpiry # Inf /\ nextExpiry <= e.expires

\* The OrderedDict stays one: one entry per key, all of them in one line of
\* recency, and no more than _max_size of them even counting expired ones.
OrderedAndBounded ==
    /\ \A d, e \in entries : d.key = e.key => d = e
    /\ \A a, b \in Keys(entries) : a # b => (<<a, b>> \in older) # (<<b, a>> \in older)
    /\ \A p \in older : p[1] # p[2] /\ {p[1], p[2]} \subseteq Keys(entries)
    /\ Cardinality(entries) <= MaxSize

Promise == INSTANCE LiveCache WITH
    live <- Live(entries, clock),
    older <- OrderOn(older, Keys(Live(entries, clock))),
    ended <- Ended(entries, clock)

\* Seen through its live entries, the cache keeps LiveCache's promise: nothing
\* expired at the reading get() is called with is returned, nothing expired is
\* counted, an ended entry is not seen again once its key is set or deleted,
\* and a live entry is evicted only when the live entries alone exceed
\* _max_size.
KeepsPromise == Promise!Spec
=============================================================================
