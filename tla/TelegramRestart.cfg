SPECIFICATION Spec
CONSTANTS
    Kinds = {"text", "restart"}
    Setups = {{}}
    Limit = 1
    MaxEvents = 2
    Polls = 1
    MaxChunks = 2
    MaxPrompts = 1
    MaxDeaths = 0
PROPERTIES RestartGoesOn
