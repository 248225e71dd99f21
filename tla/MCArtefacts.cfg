CONSTANTS
    Path = {bin, src}
    Admin = {a1}
    Backends <- MCBackends
    Grace = 2
    MaxRows = 2
    MaxTime = 3
    MaxFaults = 1
    MaxCrashes = 1
SPECIFICATION Spec
INVARIANTS
    NothingDeleted
    LedgerMatchesDisk
