SPECIFICATION Spec
CONSTANTS
    T1 = T1
    T2 = T2
    T3 = T3
    T4 = T4
    T5 = T5
    damaged = damaged
    noteA = noteA
    malformed = malformed
    None = None
    isError = isError
    TicketIds = {T1, T2, T3, T4, T5}
    NoteTexts = {noteA}
    Reasons = {damaged}
    Digits = {"0"}
    Sessions = {1, 2}
    Calls <- MCCalls
    Seed <- MCSeed
    OneLoop = FALSE
    MaxServed = 3
INVARIANTS
    SharedStoreInventsNothing
CHECK_DEADLOCK FALSE
