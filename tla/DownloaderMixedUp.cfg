\* Two downloads at a time.
SPECIFICATION Spec
CONSTANTS
    Matches = {m1, m2}
    Unfetchable = {m2}
    Concurrency = 2
    BatchLimit = 2
    MaxAttempts = 2
    MaxFaults = 0
    MaxRestarts = 0
    MaxHltv = 0
INVARIANTS
    UploadedHasArrived
