\* One event and one contest, one team and one announcement that two requests are about.
SPECIFICATION Spec
SYMMETRY Symmetry
CONSTANTS
    EventIds = {e}
    Contests = {c}
    Teams = {t}
    Posts = {p}
    Bodies = {b1, b2}
    None = None
    Requests = {r1, r2}
INVARIANTS
    TeamIsOneForm
    KeyRefusalsAreRaces
    LabelHasLink
