SPECIFICATION TmSpec
CONSTANTS
    None = None
    Timers = {t1, t2}
    Intervals = {0, 1, 2}
    SlotsTouchReported = TRUE
INVARIANTS
    NeverBlocksInRead
