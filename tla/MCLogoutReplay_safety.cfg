SPECIFICATION Spec
CONSTANTS
    t1 = t1
    t2 = t2
    Token = {t1, t2}
    Millis = 2
    Window = 2
    Skew = 1
    Limit = 1
    MaxSecond = 5
    Never = Never
SYMMETRY Tokens
INVARIANTS
    OnlyEarlyArrivalsTwice
    ReplaysBounded
