SPECIFICATION Spec
CONSTANTS
    Lines <- MCLines
    MaxLines = 3
    max_retries = 3
    Retry_After = {0, 10, 100}
    RetryCap = 30
INVARIANTS AssembledAsSent WaitIsBounded AnsweredOnce ScavengedOnce
PROPERTIES EveryCompletionReturns
CHECK_DEADLOCK FALSE
