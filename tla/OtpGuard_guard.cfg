SPECIFICATION Spec
SYMMETRY Symmetry
CONSTANTS
    Requests = {r1, r2}
    Codes = {c1, c2}
    NoCode = NoCode
    MaxAttempts = 2
    AttemptWindow = 2
    SendMax = 2
    SendWindow = 2
    CodeLife = 2
    MaxTime = 2
    MaxCalls = 4
INVARIANTS
    SingleUse
    GuessesCapped
    OneCodeUnlessOverlapped
