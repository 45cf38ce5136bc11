SPECIFICATION Spec
CONSTANTS
    c = c
    d = d
    Sid = {c, d}
    active = active
    terminal = terminal
    draft = draft
    Case = {active, terminal, draft}
    Frozen = {active, terminal}
    Nonce = {n1, n2}
    Inputs <- InputSet
    Garbled = Garbled
    None = None
    MaxCalls = 2
    MaxEdits = 2
SYMMETRY Symmetry
INVARIANTS TypeOK HeadIsFresh AuthorityChain
CHECK_DEADLOCK FALSE
