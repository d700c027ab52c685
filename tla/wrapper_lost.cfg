SPECIFICATION WrapperSpec
CONSTANTS
    c1 = c1
    c2 = c2
    c3 = c3
    w1 = w1
    T1 = T1
    T2 = T2
    damaged = damaged
    noteA = noteA
    None = None
    TicketIds = {T1, T2}
    NoteTexts = {noteA}
    Reasons = {damaged}
    Digits = {"0"}
    Callers = {c1, c2}
    Wrappers = {w1}
    WrapperOf <- MCWrapperOfShared
    Commands <- MCCommands
    Tickets <- MCTickets
    MaxAttempts = {0, 2}
    ShouldFail = {TRUE}
    Stubbed = {"issue_refund"}
    StubReturns <- MCStubReturns
    Overlap = FALSE
INVARIANTS
    RunsAreRemembered
