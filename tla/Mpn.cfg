SPECIFICATION FairSpec
CONSTANTS
    plain = plain
    hinted = hinted
    again = again
    mpn = mpn
    x = x
    y = y
    NoMaker = NoMaker
    Similar = Similar
    NoFlight = NoFlight
    Click = {plain, hinted, again}
    Mpn = {mpn}
    Maker = {x, y}
    MpnOf <- MCMpnOf
    HintOf <- TrioHintOf
    Refresh = {}
CONSTRAINT TwoFlights
INVARIANTS
    TypeOK
    SingleFlight
    HintedCardsStayHinted
    MissesStayApart
    CacheIsFinal
    AtMostFiveRequests
PROPERTY EveryClickAnswers
