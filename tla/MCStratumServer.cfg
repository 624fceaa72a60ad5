\* Two connections at a time, six in all; three subscription ids and four
\* values of extraNonce1.  The model ends when the connections are used up.
CONSTANTS
    Conn = {c1, c2}
    Stream <- MCStream
    MaxChunk = 2
    MaxBuffer = 3
    SubLimit = 3
    NonceLimit = 4
    MaxMade = 6
    NoConn = NoConn
SPECIFICATION ServerSpec
INVARIANTS
    ServerTypeOK
    MessagesComeWhole
    OnlyLargeMessagesFlood
    OwnExtraNonce
    LostOnlyToANamesake
CHECK_DEADLOCK FALSE
