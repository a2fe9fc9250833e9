SPECIFICATION Spec
CONSTANTS
    Proxies = {p1, p2}
    Tgz = {p1}
    TarGz = {p2}
    InteractiveDownload = {FALSE}
    InteractiveLoad = {FALSE}
    OneAnnouncePerRun = {FALSE}
    Delays = {1}
    Cuts = {5}
    DefaultDelay = 2
    AnnounceStart = 1
    SecondsPerMinute = 2
    MonthDays = 2
PROPERTY EveryTypeIsAnnounced
