\* Two names, three authorize requests; authorizeFn calls back at once or in
\* any later turn; a client may come before the first job.
CONSTANTS
    Name = {x, y}
    PortDifficulty = 2
    Difficulty <- MCDifficulty
    JobDifficulty = {1, 3}
    MaxWorker = 3
    MaxChunk = 3
    CallsBackLater = TRUE
    NoWorker = NoWorker
SPECIFICATION FairClientSpec
INVARIANTS
    ClientTypeOK
    OnlyAcceptedWorkersEarn
    RemovedWorkersEarnNothing
    AuthorizedMinersKnowTheirTarget
PROPERTIES
    RefusalEndsService
    IdleClientsGo
CHECK_DEADLOCK FALSE
