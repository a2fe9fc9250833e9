SPECIFICATION Spec
CONSTANTS
    Proxies = {p1, p2, p3}
    Tgz = {p1, p2}
    TarGz = {}
    InteractiveDownload = {TRUE, FALSE}
    InteractiveLoad = {TRUE, FALSE}
    OneAnnouncePerRun = {TRUE, FALSE}
    Delays = {0, 1}
    Cuts = {2, 5}
    DefaultDelay = 2
    AnnounceStart = 1
    SecondsPerMinute = 2
    MonthDays = 4
INVARIANTS NobodyIsForgotten RecordsAreTrue
PROPERTY EveryTypeIsAnnounced
