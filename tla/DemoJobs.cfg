\* Two submissions of one job and one of another, two places in the queue, two tasks, two
\* failed calls of Redis, a restart.
SPECIFICATION Spec
CONSTANTS
    s1 = s1  s2 = s2  s3 = s3
    j1 = j1  j2 = j2
    Jobs = {j1, j2}
    Submissions = {s1, s2, s3}
    JobOf <- MCJobOf
    MaxQueueDepth = 2
    Slots = {w1, w2}
    None = None
    MaxFaults = 2
    MaxRestarts = 1
INVARIANTS
    TypeOK
    RecordsAreTrue
PROPERTIES
    Deduplicated
    EveryRecordSettles
