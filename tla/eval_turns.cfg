SPECIFICATION Spec
CONSTANTS
    T1 = T1
    T2 = T2
    damaged = damaged
    noteA = noteA
    None = None
    TicketIds = {T1, T2}
    NoteTexts = {noteA}
    Reasons = {damaged}
    Digits = {"0"}
    Proposals <- MCProposals
    Harnesses = {1, 2}
    Lists <- MCTurns
    Answers <- MCAnswers
    MaxTime = 2
INVARIANTS
    ScriptsArePlayed
CHECK_DEADLOCK FALSE
