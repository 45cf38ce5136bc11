---------------------------- MODULE OrderedDict -----------------------------
(***************************************************************************)
(* Python's collections.OrderedDict as src/cache/ttl_cache.py uses it.  The*)
(* dictionary is a set of entries, at most one per key; its order is the   *)
(* relation "older": <<a, b>> is in it when a was used before b.           *)
(***************************************************************************)
EXTENDS Naturals, FiniteSets

CONSTANT MaxSize   \* _max_size

ASSUME MaxSizeAssumption == MaxSize \in Nat \ {0}

Keys(E) == {e.key : e \in E}

\* d[e.key] = e
Store(E, e) == {d \in E : d.key # e.key} \cup {e}

\* del d[k], which drops k from the order as well
Remove(E, k) == {d \in E : d.key # k}

OrderOn(older, K) == {p \in older : p[1] \in K /\ p[2] \in K}

\* d.move_to_end(k) in a dictionary with the keys K
MoveToEnd(older, K, k) == OrderOn(older, K \ {k}) \cup ((K \ {k}) \X {k})

\* Mutant of MostRecent: one entry too many is kept.
MostRecentOffByOne(E, older) ==
    {e \in E : Cardinality({d \in E : <<e.key, d.key>> \in older}) <= MaxSize}

\* while len(d) > _max_size: d.popitem(last=False).  What stays are the entries
\* with fewer than MaxSize entries used after them.
MostRecent(E, older) ==
    {e \in E : Cardinality({d \in E : <<e.key, d.key>> \in older}) < MaxSize}
=============================================================================
