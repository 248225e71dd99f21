CONSTANTS
    bash = bash
    forged = forged
    Anchor = {bash, forged}
    Builtin = {bash}
    Version <- MCVersion
    Name <- MCName
    Binary = {bin}
    Caller = {c1, c2, c3}
    MaxFaults = 1
    MaxRestarts = 2
SYMMETRY Callers
CONSTRAINT NotRaced
SPECIFICATION Spec
INVARIANTS
    IndexesAgree
    RestartKeeps
    DeprecatedStays
