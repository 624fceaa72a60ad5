\* The server is stopped while a client is connected.
CONSTANTS
    a = a
    b = b
    c = c
    NoJob = NoJob
    IdLimit = 4
    Client = {m1}
    Call = {k1}
    Template <- MCTemplate
SPECIFICATION FairPoolSpec
PROPERTIES
    StoppedServerSendsNoWork
