SPECIFICATION FairSpec
CONSTANTS
    main = main
    worker = worker
    poster = poster
    app = app
    r1 = r1
    None = None
    Threads = {main, poster}
    Loops = {main}
    Main = main
    Receivers = {app, r1}
    App = app
    PostHome <- OneOnMain
    DestroyHome <- OneOnMain
    FilterAccepts = {"User"}
    FiltersSpareTarget = TRUE
    JoinBeforeClose = TRUE
    MaxQueue = 3
    MaxDeferred = 1
INVARIANTS
    TypeOK
PROPERTIES
    KeepsPromise
    QuitEndsExec
    DeferredSlotsRun
    DeleteLaterDestroys
CHECK_DEADLOCK FALSE
