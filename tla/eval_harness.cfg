SPECIFICATION Spec
CONSTANTS
    T1 = T1
    T2 = T2
    damaged = damaged
    noteA = noteA
    None = None
    TicketIds = {T1, T2}
    NoteTexts = {noteA}
    Reasons = {damaged}
    Digits = {"0"}
    Proposals <- MCProposals
    Harnesses = {1, 2}
    Lists <- MCLists
    Answers <- MCAnswers
    MaxTime = 2
INVARIANTS
    TypeOK
    ToolsAreRestored
    ResultsAreTheirOwn
    OutcomesTellTheRun
    FilesTellTheRun
    StubsOnlyFailRuns
PROPERTIES
    HarnessesEnd
CHECK_DEADLOCK FALSE
