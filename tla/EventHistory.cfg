CONSTANTS
    Fractions <- MCFractions
    Day = 2
    Offsets <- MCOffsets
    Zone <- MCZone
    DefaultDays = 1
    MaxDays = 2
    Settings = {1, 3}
    Hosts = {"h1"}
    Purgers = {"ticker"}
    Ticker = "ticker"
    MaxSec = 5
    MaxAsked = 2
SPECIFICATION FairSpec
INVARIANTS
    TypeOK
    HistoryAgrees
    TodayCounted
PROPERTIES
    PurgeAccuracy
    OldEventsGo
