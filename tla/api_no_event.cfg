SPECIFICATION ApiSpec
CONSTANTS
    r1 = r1
    r2 = r2
    w1 = w1
    w2 = w2
    T1 = T1
    T2 = T2
    damaged = damaged
    noteA = noteA
    None = None
    Blank = Blank
    NotIterable = NotIterable
    TicketIds = {T1, T2}
    NoteTexts = {noteA}
    Reasons = {damaged}
    Digits = {"0"}
    Callers = {r1, r2}
    Wrappers = {w1, w2}
    WrapperOf <- MCWrapperEach
    Commands <- MCCommands
    Tickets <- MCTickets
    Proposals <- MCProposals
    MaxAttempts = {3}
    ShouldFail = {FALSE}
    Stubbed = {}
    StubReturns <- MCTickets
    ProposeMayRaise = TRUE
    Overlap = TRUE
    Contents <- MCContents
    Requests <- MCRequests
INVARIANTS
    EveryTaskLeavesAnEvent
CHECK_DEADLOCK FALSE
