SPECIFICATION EngineSpec
CONSTANTS
    c1 = c1  c2 = c2  c3 = c3
    k1 = k1  k2 = k2
    g1 = g1  g2 = g2
    Calls = {c1, c2, c3}
    Keys = {k1, k2}
    KeysOf <- MCKeysOf
    GroupOf <- MCGroupOf
    Tolerant <- MCTolerant
    MaxVersion = 1
    Waiting = Waiting
    Failed = Failed
    ChanCap = 1
    MaxBatch = 2
    MaxErrors = 1
    Unread = Unread
INVARIANT EngineTypeOK
PROPERTIES
    ImplementsLookup
    EveryCallEnds
