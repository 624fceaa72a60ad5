\* A client subscribes.
CONSTANTS
    Name = {x, y}
    PortDifficulty = 1
    Difficulty <- MCDifficulty
    JobDifficulty = {2}
    MaxWorker = 3
    MaxChunk = 2
    CallsBackLater = FALSE
    NoWorker = NoWorker
SPECIFICATION ClientSpec
INVARIANTS
    HandledIsNotUnknown
CHECK_DEADLOCK FALSE
