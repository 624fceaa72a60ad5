\* One miner, two requests under way, two job ids.
CONSTANTS
    a = a
    b = b
    c = c
    NoJob = NoJob
    IdLimit = 3
    Client = {m1}
    Call = {k1, k2}
    Template <- MCTemplate
SPECIFICATION FairPoolSpec
INVARIANTS
    PoolTypeOK
    MinersWorkIsValid
PROPERTIES
    WorkIsDroppedOnlyForANewBlock
    FollowsTip
