SPECIFICATION Spec
CONSTANTS
    r = r
    d = d
    e = e
    f = f
    g = g
    fine = fine
    other = other
    x = x
    y = y
    None = None
    Depth = 2
    Obj = {r, d, e, f, g}
    File = {f, g}
    Root = r
    Value = {fine, other}
    Block = {x, y}
    SealId <- IdSeal
    SealMeta <- MetaSeal
    Canonical <- Content
    Chunk = 2
    Worlds <- WorldSet
    MaxSize = 3
    MaxChanges = 2
INVARIANTS TypeOK PathStays ReadIsAtomic NoHandleLeft
PROPERTIES NoStepBack AsOneLook CallEnds
CHECK_DEADLOCK FALSE
