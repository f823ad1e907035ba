SPECIFICATION DetectorSpec
CONSTANTS
    Actions = {1, 2, 3}
    Size = 9
    MaxCalls = 11
INVARIANTS DetectsExactly
