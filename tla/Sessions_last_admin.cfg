\* Two admins demote each other at the same time.
CONSTANTS
    NoUser = NoUser
    Users = {a, b}
    Founders = {a, b}
    Requests = {r1, r2}
    Decisions = {"role"}
    Bodies <- MCFewBodies
    MaxTime = 2
    MaxTokens = 2
SPECIFICATION Spec
INVARIANT
    SomeAdminRemains
