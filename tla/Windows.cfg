SPECIFICATION MCSpec
CONSTANTS
    Platforms = {"xcb", "win32", "wayland", "android"}
    Widths = {1, 2}
    Heights = {1}
    Buttons = {"left", "right"}
    Wheel = "wheel"
    Scales = {1, 2}
    Bounds <- SomeBounds
    MaxIds = 2
    MaxEvents = 2
    MaxPixels = 4
    Reach = 2
    Centres = {0, 1}
    MaxMoves = 3
    MaxPosted = 2
    MaxMessages = 2
    MaxWire = 3
    MaxRequests = 2
    WinTimers = {t1, t2}
    Ids = {1, 2}
    Notifiers <- SetNotifiers
    Unwatchable = {4}
    MaxReports = 2
INVARIANTS
    EventsFindTheLiving
    WindowAgrees
    PointerAgrees
    SlotsAgree
    Win32TimersAgree
    CursorAgrees
    NothingIsSleptOver
PROPERTIES
    NoStepOverreacts
    StepsAreReal
    EverythingIsHandled
CHECK_DEADLOCK FALSE
