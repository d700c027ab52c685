SPECIFICATION WrapperSpec
CONSTANTS
    c1 = c1
    c2 = c2
    c3 = c3
    w1 = w1
    T1 = T1
    T2 = T2
    damaged = damaged
    noteA = noteA
    None = None
    TicketIds = {T1, T2}
    NoteTexts = {noteA}
    Reasons = {damaged}
    Digits = {"0"}
    Callers = {c1, c2, c3}
    Wrappers = {w1}
    WrapperOf <- MCWrapperOfShared
    Commands <- MCOneCommand
    Tickets <- MCTickets
    MaxAttempts = {2}
    ShouldFail = {FALSE, TRUE}
    Stubbed = {}
    StubReturns <- MCStubReturns
    Overlap = TRUE
INVARIANTS
    AtMostOnce
