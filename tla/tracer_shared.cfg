SPECIFICATION Spec
CONSTANTS
    t1 = t1
    t2 = t2
    t3 = t3
    a = a
    b = b
    c = c
    None = None
    Threads = {t1, t2, t3}
    Runs = {a, b, c}
    RunOf <- MCSharedRun
    EventTypes = {"proposed"}
    Payloads = {0}
    MaxRecords = 3
INVARIANTS
    SharedRunsKeepEvents
PROPERTIES
    TracesGrow
CHECK_DEADLOCK FALSE
