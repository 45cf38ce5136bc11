SPECIFICATION Spec
CONSTANTS
    Key = {a, b, c}
    Value = {u, v}
    TTL = {1, 2, 4}
    MaxTime = 6
    MaxSize = 2
    Inf = Inf
    None = None
SYMMETRY Symmetry
INVARIANTS TypeOK NextExpiryIsLowerBound OrderedAndBounded
PROPERTIES KeepsPromise
