SPECIFICATION Spec
CONSTANTS
    Word = 24
    MaxPage = 20
    Header = 3
    Align = 4
    MaxToken = 14
    TokenUser = 3
    MinSid = 3
    MaxSub = 2
    Limit = 21
    MaxDigits = 3
    Base = {2, 9}
INVARIANTS InBounds NoOverlap DecimalIsExact
PROPERTIES NoStepBack DecoderEnds
CHECK_DEADLOCK FALSE
