SPECIFICATION BackupSpec
CONSTANTS
    Keep = 3
    MaxRuns = 5
INVARIANTS
    FailuresCostOneEach
    SilenceIsSuccess
