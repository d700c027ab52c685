SPECIFICATION DeskSpec
CONSTANTS
    r1 = r1
    r2 = r2
    r3 = r3
    r4 = r4
    w1 = w1
    w2 = w2
    w3 = w3
    T1 = T1
    T2 = T2
    damaged = damaged
    lost = lost
    noteA = noteA
    None = None
    TicketIds = {T1, T2}
    NoteTexts = {noteA}
    Reasons = {damaged, lost}
    Digits = {"0"}
    Callers = {r1, r2, r3}
    Wrappers = {w1}
    WrapperOf <- MCWrapperShared
    Commands <- MCOneCommand
    Tickets <- MCTickets
    Proposals <- MCOneOrder
    MaxAttempts = {3}
    ShouldFail = {FALSE, TRUE}
    Stubbed = {}
    StubReturns <- MCTickets
    ProposeMayRaise = TRUE
    Overlap = TRUE
    Timeouts = TRUE
    FirstTicket <- MCFirstTicket
INVARIANTS
    PaidWithinEligibility
CHECK_DEADLOCK FALSE
