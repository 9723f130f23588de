SPECIFICATION Spec
CONSTANTS
    Hosts <- MCHosts
    Ports = {1}
    Site <- MCSite
    Home <- MCHome
    FirstWait = 2
    MaxBackoff = 8
    ShortWait = 1
    RedirectWaits = {0, 12}
    ConnectTimeout = 1
    Inactivity = 1
    MaxLine = 1
    SocketRoom = 1
    MaxInbound = 1
    MaxQueued = 1
    MaxFruitless = 3
INVARIANTS
    TypeOK
    StaysAtSite
    WholeLines
    NothingOfALostSession
PROPERTIES
    DeadPoolNotHammered
    HearsOrDials
CHECK_DEADLOCK FALSE
