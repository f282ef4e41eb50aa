CONSTANTS
    NaN = NaN
    None = None
    c1 = c1
    c2 = c2
    Codes <- MCCodes
    Rows <- MCRows
    MaxRows = 3
    MaxPacks = 12
    Year = 2026
    Scale = 10
SPECIFICATION Spec
INVARIANTS
    BandsChargeTheTariff
    DuplicatesCollapse
    StockAddsUp
    WholesaleFromTheSum
CHECK_DEADLOCK FALSE
