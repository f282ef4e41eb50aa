SPECIFICATION FairSpec
CONSTANTS
    s1 = s1
    s2 = s2
    live = live
    short = short
    compel = compel
    compelLive = compelLive
    compelKey = compelKey
    liveKey = liveKey
    compelRow = compelRow
    OldGoods = OldGoods
    NoGoods = NoGoods
    Search = {s1, s2}
    Key = {compelKey}
    Alias = {compel}
    Row = {compelRow}
    KeyOf <- PairKeyOf
    AliasOf <- CompelAliasOf
    RowOf <- CompelRowOf
    TooShort = {}
    WithCache = {s1}
PROPERTIES
    EveryCallAnswers
    EveryRaceIsCounted
    CachedGoodsAreStored
