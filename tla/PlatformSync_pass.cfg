\* One member who goes back and forth between two AtCoder handles and none.  Of the
\* two calls for solve counts, which are alike, one may fail by itself.
SPECIFICATION FairSpec
CONSTANTS
    Members = {m}
    AtcoderHandles = {a, b}
    CodeforcesHandles = {c}
    NoHandle = NoHandle
    Idle = Idle
    Requests = {r}
    Jobs = {j}
    Faults = {"cutoff", "database", "restart", "charts"}
INVARIANTS
    TypeOK
    SyncedRowIsOfOneHandle
PROPERTIES
    
    ProfileFollowsHandle
