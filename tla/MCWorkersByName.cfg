\* Two authorize requests under way.
CONSTANTS
    Name = {x, y}
    PortDifficulty = 1
    Difficulty <- MCDifficulty
    JobDifficulty = {2}
    MaxWorker = 3
    MaxChunk = 2
    CallsBackLater = TRUE
    NoWorker = NoWorker
SPECIFICATION ClientSpec
INVARIANTS
    WorkersByName
CHECK_DEADLOCK FALSE
