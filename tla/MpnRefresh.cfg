SPECIFICATION FairSpec
CONSTANTS
    plain = plain
    hinted = hinted
    again = again
    mpn = mpn
    x = x
    y = y
    NoMaker = NoMaker
    Similar = Similar
    NoFlight = NoFlight
    Click = {plain, again}
    Mpn = {mpn}
    Maker = {x, y}
    MpnOf <- MCMpnOf
    HintOf <- AgainHintOf
    Refresh = {again}
PROPERTY RefreshIsRemembered
