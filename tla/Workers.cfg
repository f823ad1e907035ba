SPECIFICATION Spec
CONSTANTS
    Profiles <- MCProfiles
    Calls <- MCCalls
    Roles <- MCRoles
    MaxCands = 2
    SubTurns = 1
    MaxEdits = 1
    Landlock = TRUE
INVARIANTS SpeculationInv CwdAgrees
PROPERTIES  StrictIsContained FailedChangesNothing EveryCallReturns
