SPECIFICATION Spec
CONSTANTS
    Kinds = {"text", "clear", "compact", "save", "resume", "turbo_on", "turbo_min", "turbo_off", "restart"}
    Setups = {{"discord", "slack"}}
    Limit = 1
    MaxEvents = 3
    Polls = 1
    MaxChunks = 3
    MaxPrompts = 2
    MaxDeaths = 1
INVARIANTS BotInv PressCountsOnce OffMeansOff TurnsSurvive
PROPERTIES TurnsInOrder DeliveryIsWhole ChannelsKeepApart EveryTextIsTakenUp
