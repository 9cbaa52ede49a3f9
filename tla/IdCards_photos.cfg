\* One person who registers twice at once, two requests, every fault.  The end is
\* when both folders are used up.
SPECIFICATION Spec
CHECK_DEADLOCK FALSE
SYMMETRY Symmetry

CONSTANTS
    Cards = {c1, c2}
    People = {p}
    Nobody = Nobody
    Idle = Idle
    Requests = {r1, r2}
    Faults = {"cutoff", "database", "storage"}
INVARIANTS
    ReviewHasPhotos
    OrphansAreExplained
    DecisionDropsPhotos
