SPECIFICATION Spec
SYMMETRY Symmetry
CONSTANTS
    Users = {u1, u2}
    Emails = {s, o}
    Student = {s}
    Shouted = {}
    NoEmail = NoEmail
    NoUser = NoUser
    Requests = {r1, r2}
    Endpoints = {"register", "verify", "resend", "forgot", "reset", "claim", "confirm", "approve", "reject", "ban", "reactivate", "email", "delete"}
INVARIANTS
    PastVerificationIsProved
PROPERTIES
    BanHoldsOutOfReach
