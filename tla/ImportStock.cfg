SPECIFICATION Spec
CONSTANTS
    cron = cron
    job = job
    search = search
    bind = bind
    code1 = code1
    code2 = code2
    Import = {cron, job}
    Search = {search}
    Binding = {bind}
    Code = {code1, code2}
    Absent = Absent
    Empty = Empty
    Swept = Swept
    CleanupAge = 1
    Kept = Kept
    Before = Before
    Horizon = 2
SYMMETRY Codes
CONSTRAINT OneMoreActor
INVARIANTS
    ImportReplacesStock
    ClearsComeLast
