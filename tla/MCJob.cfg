\* Two jobs of any two templates, in one second or in two, in 2020 and where
\* the seconds of int32 end.
CONSTANTS
    PoolAddress <- MCPoolAddress
    Signature <- MCSignature
    Founder <- MCFounder
    Template <- MCTemplate
    Share <- MCShare
    FirstSecond <- MCFirstSecond
    MaxTick = 1
    MaxJob = 2
SPECIFICATION AssemblySpec
INVARIANTS
    AssemblyTypeOK
    CoinbaseIsReadable
    EveryoneIsPaid
    BlockHasItsRoot
    MinersWorkOnTheJob
    CountedTwiceOnlyInASecond
    ThrownForAReason
CHECK_DEADLOCK FALSE
