\* As IdCards_photos.cfg: what the comment in register claims of a failure.
SPECIFICATION Spec
CHECK_DEADLOCK FALSE
SYMMETRY Symmetry

CONSTANTS
    Cards = {c1, c2}
    People = {p}
    Nobody = Nobody
    Idle = Idle
    Requests = {r1, r2}
    Faults = {"cutoff", "database", "storage"}
INVARIANTS
    FailuresLeaveNothing
