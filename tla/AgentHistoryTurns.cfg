SPECIFICATION FairSpec
CONSTANTS
    MaxContext = 6
    CompactKeep = 3
    TurnLimit = 3
    TurnMsgs = 4
    TurnKeep = 3
    SaveMsgs = 4
    SaveInterval = 2
    Steps <- MCSteps
    Keeps = {2, 3}
    Commands = {"resume", "save"}
    MaxCalls = 2
    MaxTurns = 2
    MaxManual = 0
    MaxMistaken = 1
INVARIANTS CallsAreAnswered IdleIsRestorable
PROPERTIES EveryTurnEnds
