----------------------------- MODULE LiveCache ------------------------------
(***************************************************************************)
(* What TTLCache promises its callers: a bounded map that holds live       *)
(* entries only.  An entry is gone the moment its lifetime ends, nothing   *)
(* expired is ever counted, and an entry is evicted only when more than    *)
(* MaxSize LIVE entries would be held, the least recently used one first.  *)
(* There is no lazy removal and no cached expiry here.  Only a caller with *)
(* a clock of its own, behind the cache's, can still see an entry that has *)
(* ended, and only while its own clock is before the end of that entry.    *)
(***************************************************************************)
EXTENDS OrderedDict

CONSTANTS Key, Value, TTL, MaxTime, None

VARIABLES
    clock,   \* time.monotonic()
    live,    \* the entries held
    older,   \* their order of use
    ended,   \* entries whose lifetime ended: forgotten sooner or later, never made up
    ret      \* what the last call returned

vars == <<clock, live, older, ended, ret>>

Init == clock = 0 /\ live = {} /\ older = {} /\ ended = {} /\ ret = <<"init", None>>

Tick ==
    /\ clock < MaxTime
    /\ clock' = clock + 1
    /\ live' = {e \in live : clock' < e.expires}
    /\ older' = OrderOn(older, Keys(live'))
    /\ ended' \subseteq ended \cup (live \ live')
    /\ UNCHANGED ret

\* What has ended stays at most where it is, and nothing of k is left of it.
Forget(k) == ended' \subseteq {e \in ended : e.key # k}

Set(k, v, ttl) ==
    LET stored == Store(live, [key |-> k, value |-> v, expires |-> clock + ttl])
        order  == MoveToEnd(older, Keys(stored), k)
    IN  /\ live' = MostRecent(stored, order)
        /\ older' = OrderOn(order, Keys(live'))
        /\ Forget(k)
        /\ ret' = <<"set", None>>
        /\ UNCHANGED clock

\* Drop k, whether it is held or not.
Drop(k) ==
    /\ live' = Remove(live, k)
    /\ older' = OrderOn(older, Keys(live'))
    /\ Forget(k)
    /\ UNCHANGED clock

\* A caller may bring a reading of its own.  One that is behind the clock may
\* still be shown the entry that was held under k when its lifetime ended, if
\* it has not ended at the caller's own reading: no caller is ever shown an
\* entry that is expired by the clock he asks with.
Get(k, now) ==
    \/ \E e \in live :
          /\ e.key = k /\ now < e.expires
          /\ older' = MoveToEnd(older, Keys(live), k)
          /\ ret' = <<"get", e.value>>
          /\ UNCHANGED <<clock, live, ended>>
    \/ /\ \A e \in live : e.key = k => e.expires <= now
       /\ Drop(k)
       /\ ret' = <<"get", None>>
    \/ \E e \in ended :
          /\ e.key = k /\ now < e.expires
          /\ ret' = <<"get", e.value>>
          /\ UNCHANGED <<clock, live, older, ended>>

Delete(k) == Drop(k) /\ ret' = <<"delete", k \in Keys(live)>>

\* A question changes nothing, except that it may let go of what has ended.
Ask(answer) ==
    /\ ret' = answer
    /\ ended' \subseteq ended
    /\ UNCHANGED <<clock, live, older>>

Contains(k) == Ask(<<"contains", k \in Keys(live)>>)

Clear ==
    /\ live' = {} /\ older' = {} /\ ended' = {}
    /\ ret' = <<"clear", None>>
    /\ UNCHANGED clock

Length == Ask(<<"len", Cardinality(live)>>)

Iterate == Ask(<<"iter", Keys(live)>>)

Next ==
    \/ Tick \/ Clear \/ Length \/ Iterate
    \/ \E k \in Key :
          \/ Delete(k) \/ Contains(k)
          \/ \E v \in Value, ttl \in TTL : Set(k, v, ttl)
          \/ \E now \in 0..MaxTime : Get(k, now)

Spec == Init /\ [][Next]_vars
=============================================================================
