SPECIFICATION Spec
CONSTANTS
    r1 = r1
    r2 = r2
    w1 = w1
    w2 = w2
    T1 = T1
    T2 = T2
    damaged = damaged
    noteA = noteA
    malformed = malformed
    None = None
    TicketIds = {T1, T2}
    NoteTexts = {noteA}
    Reasons = {damaged}
    Digits = {"0"}
    Callers = {r1, r2}
    Wrappers = {w1}
    WrapperOf <- MCWrapperShared
    Commands <- MCFewCommands
    Tickets <- MCFewTickets
    Proposals <- MCFewProposals
    MaxAttempts = {3}
    ShouldFail = {FALSE, TRUE}
    Stubbed = {"add_ticket_note"}
    StubReturns <- MCFewTickets
    ProposeMayRaise = TRUE
    Overlap = FALSE
INVARIANTS
    OnlyAuthorizedEffects
    StatusFollowsEvidence
    TraceTellsTheRun
    ReplaysAgree
PROPERTIES
    RunsEnd
CHECK_DEADLOCK FALSE
