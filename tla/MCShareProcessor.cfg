\* One client, shares of two difficulties, two jobs, under a daemon whose
\* requests end.  The process may end too: no deadlock is looked for.
CONSTANTS
    a = a
    b = b
    NoJob = NoJob
    IdLimit = 3
    Client = {m1}
    Nonce = {1, 2}
    Difficulty = {1}
    PortDifficulty = 3
    MaxUnheard = 2
    Template <- MCTemplate
SPECIFICATION FairShareSpec
CHECK_DEADLOCK FALSE
INVARIANTS
    ShareTypeOK
    ReportedBlocksAreAccepted
PROPERTIES
    ImplementsLedger
    CountsOnTheTipOnly
    BlockIsNeverLow
    
    BlockSharesAreReported
