SPECIFICATION Spec
CONSTANTS
    main = main
    worker = worker
    poster = poster
    app = app
    r1 = r1
    None = None
    Threads = {main, worker}
    Loops = {main, worker}
    Main = main
    Receivers = {app, r1}
    App = app
    PostHome <- OneOnMain
    DestroyHome <- OneOnWorker
    FilterAccepts = {"User"}
    FiltersSpareTarget = TRUE
    JoinBeforeClose = TRUE
    MaxQueue = 2
    MaxDeferred = 1
INVARIANTS
    NoLostWakeup
    QueuesNameTheLiving
PROPERTIES
    KeepsOrder
CHECK_DEADLOCK FALSE
