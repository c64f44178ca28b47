\* One download at a time, so that results come back in the order of the batch; a
\* batch of one, so that the newer match, which can never be fetched, is in the way of
\* the older; one transient failure, one restart, one upload of the HLTV scraper.
SPECIFICATION FairSpec
CONSTANTS
    Matches = {m1, m2}
    Unfetchable = {m2}
    Concurrency = 1
    BatchLimit = 1
    MaxAttempts = 2
    MaxFaults = 1
    MaxRestarts = 1
    MaxHltv = 1
INVARIANTS
    TypeOK
    UploadedHasArrived
    OneVerdict
    RefetchedOnlyAfterFailure
PROPERTIES
    EveryReplayArrives
