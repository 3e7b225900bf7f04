SPECIFICATION Spec
CONSTANTS
    sport = sport
    news = news
    None = None
    Topics = {sport}
    CleanSession = TRUE
    Refusals = {}
    MaxConnects = 2
    MaxMsgId = 1
    ConnectIn = {"DISCONNECTED", "DISCONNECTING"}
    Reentered = {}
    MaxNested = 1
    PollsHandshake = FALSE
INVARIANT HookWatchesSocket
