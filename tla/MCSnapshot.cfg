SPECIFICATION Spec
CONSTANTS
    Names = {1, 2, 3, 4}
    Id = {f, g, h, i}
    new = new
    old = old
    Content = {new, old}
    Latest <- LatestFiles
    Old <- OldFiles
    None = None
    MaxPages = 3
    MaxEntries = 3
    MaxChanges = 3
SYMMETRY Symmetry
INVARIANTS TypeOK SnapshotIsAtomic VerdictIsTrue
PROPERTY AsOneLook
CHECK_DEADLOCK FALSE
