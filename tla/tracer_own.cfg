SPECIFICATION Spec
CONSTANTS
    t1 = t1
    t2 = t2
    t3 = t3
    a = a
    b = b
    c = c
    None = None
    Threads = {t1, t2, t3}
    Runs = {a, b, c}
    RunOf <- MCOwnRuns
    EventTypes = {"proposed", "authorized"}
    Payloads = {0}
    MaxRecords = 2
INVARIANTS
    SequenceIsPosition
PROPERTIES
    ImplementsLog
    ListedRunsGetEvents
CHECK_DEADLOCK FALSE
