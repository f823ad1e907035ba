SPECIFICATION Spec
CONSTANTS
    Agent = {belya, almaz}
    Handlers = {almaz}
    Actions = {"ping", "consult"}
    NoAgent = NoAgent
    MaxAsks = 2
    MaxConns = 2
    MaxDeaths = 1
INVARIANTS MeshInv AnswerIsOwn
PROPERTIES EveryMeshCallReturns
CHECK_DEADLOCK FALSE
