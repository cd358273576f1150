SPECIFICATION Spec
CONSTANTS
    Channels = {0, 1}
    MaxItems = 2
    Calls = {c1, c2}
    Ids = {i1, i2}
    Schedules = {s1}
    Absent = Absent
    Invalid = Invalid
    Powers = {1, 3}
    Times = {0, 2, 5}
    Buckets = {1, 3}
    MIN_BUCKET = 2
    MAX_RANGE = 4
    WINDOW = 3
    MaxSamples = 3
    MaxBacks = 1
    Requests = {q1, q2, q3}
    Dates = {d1, d2}
    MaxCount = 1
    None = None
SYMMETRY Symmetry
INVARIANTS
    PayloadsRead
    DeleteTruthful
    PowerReported
    DaysCurrent
PROPERTIES
    SerialRulesExact
