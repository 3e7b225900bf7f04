SPECIFICATION MCSpec
CONSTANTS
    sock = sock
    other = other
    file = file
    nread = nread
    nwrite = nwrite
    nother = nother
    nfile = nfile
    Null = Null
    Notifiers = {nread, nwrite, nother, nfile}
    Fds = {sock, other, file}
    FdOf <- FourFds
    TypeOf <- FourTypes
    Unpollable = {file}
    HandlersDropCurrent = TRUE
    ReuseFds = FALSE
    Duplicates = FALSE
    MaxBatch = 2
    None = None
    Timers = {t1, t2}
    Intervals = {0, 1}
    SlotsTouchReported = FALSE
PROPERTIES
    PokesNobodyElse
