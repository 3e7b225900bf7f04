SPECIFICATION FairSpec
CONSTANTS
    sport = sport
    news = news
    None = None
    Topics = {sport, news}
    CleanSession = TRUE
    Refusals = {"connection", "subscription"}
    MaxConnects = 3
    MaxMsgId = 3
    ConnectIn = {"DISCONNECTED"}
    Reentered = {"refused", "disconnect"}
    MaxNested = 3
    PollsHandshake = TRUE
INVARIANTS
    TypeOK
    HookWatchesSocket
    PolledWhileConnecting
    SubscriptionStateTells
    RegistryTellsBroker
PROPERTIES
    AttemptsEnd
