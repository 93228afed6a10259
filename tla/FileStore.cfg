\* Three releases, two faults, one stop and two moves of the operator.
SPECIFICATION Spec
CONSTANTS
    r1 = r1
    r2 = r2
    bad = bad
    Releases <- MCReleases
    Invalid <- MCInvalid
    Absent = Absent
    Partial = Partial
    Own = Own
    MaxFaults = 2
    MaxAborts = 1
    MaxUser = 2
    MaxLeftovers = 3
INVARIANTS
    IInv
    OnlyValidated
PROPERTIES
    WholeOrAbsent
    CleansUp
    FillsOnlyMissing
    ReplacesAtOnce
