SPECIFICATION Spec
CONSTANTS
    s1 = s1
    s2 = s2
    live = live
    short = short
    compel = compel
    compelLive = compelLive
    compelKey = compelKey
    liveKey = liveKey
    compelRow = compelRow
    OldGoods = OldGoods
    NoGoods = NoGoods
    Search = {s1, s2, live, short}
    Key = {compelKey, liveKey}
    Alias = {compel, compelLive}
    Row = {compelRow}
    KeyOf <- AllKeyOf
    AliasOf <- LiveAliasOf
    RowOf <- LiveRowOf
    TooShort = {short}
    WithCache = {s1}
CONSTRAINT PairOrLive
INVARIANTS
    TypeOK
    CacheHoldsApiGoods
    FallbackIsRecorded
    SuccessWasReturned
    StoredGoodsWereReturned
PROPERTIES
    LateFailureIsSilent
    ImplementsBreaker
