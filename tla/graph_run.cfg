SPECIFICATION Spec
CONSTANTS
    r1 = r1
    r2 = r2
    w1 = w1
    w2 = w2
    T1 = T1
    T2 = T2
    damaged = damaged
    noteA = noteA
    malformed = malformed
    None = None
    TicketIds = {T1, T2}
    NoteTexts = {noteA}
    Reasons = {damaged}
    Digits = {"0"}
    Callers = {r1}
    Wrappers = {w1}
    WrapperOf <- MCWrapperShared
    Commands <- MCCommands
    Tickets <- MCTickets
    Proposals <- MCProposals
    MaxAttempts = {3}
    ShouldFail = {FALSE, TRUE}
    Stubbed = {"issue_refund", "update_ticket_status"}
    StubReturns <- MCTickets
    ProposeMayRaise = TRUE
    Overlap = TRUE
INVARIANTS
    GraphTypeOK
    OnlyAuthorizedEffects
    DenialsNameTheirCause
    StatusFollowsEvidence
    CompletedShowsTheEffect
    TraceTellsTheRun
CHECK_DEADLOCK FALSE
