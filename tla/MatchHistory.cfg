SPECIFICATION Spec
CONSTANTS
    m1 = m1  m2 = m2
    Matches = {m1, m2}
    Rows <- MCRows
    Foreign <- MCForeign
    Histories <- MCHistories
    Requests = {r1, r2}
    None = None
    MaxBuffer = 3
    MaxCall = 2
    MaxFailures = 2
    MaxRestarts = 1
INVARIANTS
    TypeOK
    AnswersAreKept
PROPERTY EveryRowIsStored
