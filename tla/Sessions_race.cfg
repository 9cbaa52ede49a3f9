\* Two requests in flight at once: one founder, one member.
CONSTANTS
    NoUser = NoUser
    Users = {a, b}
    Founders = {a}
    Requests = {r1, r2}
    Decisions = {"approve", "reject", "ban", "reactivate", "role", "email", "delete"}
    Bodies <- MCFewBodies
    MaxTime = 2
    MaxTokens = 2
SPECIFICATION Spec
\* Every account may end up deleted and the clock at its bound.
CHECK_DEADLOCK FALSE
SYMMETRY Symmetry
INVARIANTS
    TypeOK
    CutRevokesIssuedTokens
    SessionCarriesCurrentRoles
    RejectedHasNoSession
PROPERTIES
    LastAdminGoesInRacesOnly
