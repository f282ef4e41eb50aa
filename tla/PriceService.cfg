SPECIFICATION MCSpec
CONSTANTS
    elcopro = elcopro
    compel = compel
    mars = mars
    rct = rct
    i1 = i1
    i2 = i2
    i3 = i3
    Everyone = Everyone
    NoOne = NoOne
    Unknown = Unknown
    Supplier = {elcopro, compel, mars, rct}
    ApiSupplier = {elcopro, compel}
    Caller = {elcopro, rct}
    Known <- MCKnown
    Dealers = {compel, mars}
    Item = {i1, i2, i3}
    Numeric = {i1, i2}
    Shelves <- MCShelves
    Parallel = 2
    MaxCodes = 3
    Changing = {compel, i1}
INVARIANTS
    EachSupplierOnce
    CallersSeeTheirOwn
    AnswersAreTheirOwn
    StockIsSellable
PROPERTY EveryRequestEnds
CHECK_DEADLOCK FALSE
