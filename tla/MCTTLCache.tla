----------------------------- MODULE MCTTLCache -----------------------------
(* TLC instance of TTLCache: keys and values are interchangeable.          *)
EXTENDS TTLCache, TLC

Symmetry == Permutations(Key) \cup Permutations(Value)
=============================================================================
