\* Two calls of start() with every end of their requests.  The model ends
\* when no request is left.
CONSTANTS
    Start = {s1, s2}
    NoStart = NoStart
    Request <- MCRequest
SPECIFICATION FairStartSpec
INVARIANTS
    StartTypeOK
    OneStartServes
    ServesOnlyWithTheDaemon
PROPERTIES
    ImplementsRpc
    StartEndsUnlessUnheard
CHECK_DEADLOCK FALSE
