\* A client is authorized before the first template is answered.
CONSTANTS
    a = a
    b = b
    c = c
    NoJob = NoJob
    IdLimit = 4
    Client = {m1}
    Call = {k1}
    Template <- MCTemplate
SPECIFICATION PoolSpec
INVARIANTS
    NotifyHasJob
