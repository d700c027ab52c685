SPECIFICATION Spec
CONSTANTS
    t1 = t1
    t2 = t2
    t3 = t3
    a = a
    b = b
    c = c
    None = None
    Threads = {t1, t2, t3}
    Runs = {a, b, c}
    RunOf <- MCOwnRuns
    EventTypes = {"proposed", "authorized"}
    Payloads = {0}
    MaxRecords = 1
INVARIANTS
    ListedRunsHaveEvents

CHECK_DEADLOCK FALSE
