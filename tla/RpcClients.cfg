SPECIFICATION RpcSpec
CONSTANTS
    Polls = 3
    MaxCalls = 4
    MaxNoise = 2
INVARIANTS RpcInv
PROPERTIES AnswersMatch EveryCallReturns
CHECK_DEADLOCK FALSE
