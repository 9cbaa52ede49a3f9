SPECIFICATION AppSpec
CONSTANTS
    login = login
    analyze = analyze
    Keys = {login, analyze}
    Analyzers = {analyze}
    Limit <- OwnLimit
    Window <- OwnWindow
    MaxLag = 1
    MaxTracked = 1
    MaxTime = 3
    MaxCalls = 4
    ResultLife = 3
    MaxResults = 2
    MaxRunning = 2
INVARIANTS
    AppTypeOK
    SafeKeysAreLimited
    LostOnlyToNewer
    CacheIsBounded
PROPERTIES
    KeepsPromise
