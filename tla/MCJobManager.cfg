\* Every order of template answers; four job ids, so that the counter wraps
\* while jobs of one block are still valid.
CONSTANTS
    a = a
    b = b
    c = c
    d = d
    NoJob = NoJob
    IdLimit = 5
    Template <- MCTemplate
SPECIFICATION JobSpec
INVARIANTS
    JobTypeOK
    ValidJobsShareTip
    FreeIdFirst
    ValidAreYoungest
PROPERTIES
    HeightNeverDrops
    ImplementsWorkBook
