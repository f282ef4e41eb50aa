SPECIFICATION MCSpec
CONSTANTS
    max232 = max232
    elcopro = elcopro
    compel = compel
    pack = pack
    usd = usd
    eur = eur
    cron = cron
    post = post
    zip = zip
    csv = csv
    other = other
    Good = {max232}
    Client = {elcopro, compel}
    Param = {pack}
    Value = {1}
    None = None
    Op = {1, 2, 3}
    Currency = {RUB, usd, eur}
    RUB = RUB
    Update = {cron, post}
    NoRate = NoRate
    Earlier = Earlier
    MaxRestarts = 1
    File = {zip, csv, other}
    Ours = {zip, csv}
    Turn = {1, 2}
    MaxUploads = 1
    MaxOutages = 1
    r1 = r1
    r2 = r2
    r3 = r3
    r4 = r4
    Request = {r1, r2, r3, r4}
    MinInterval = 3
    Boot = 3
    Horizon = 12
INVARIANTS
    UpdatesTakeEffect
    Spaced
PROPERTIES
    BindingsSurvive
    EveryUploadLeaves
    FirstCalledFirst
    ImplementsLimiter
    EveryRequestGoesOut
CHECK_DEADLOCK FALSE
