SPECIFICATION Spec
CONSTANTS
    Actions = {1, 2, 3}
    Edits = {1}
    Verifies = {2, 3}
    Prefix <- MCPrefix
    Size = 9
    MaxCalls = 14
    Steps <- MCSteps
    MaxPar = 2
INVARIANTS TurnInv SentBackWhenDue
