\* Two requests of an address and one with an API key, of a kind chosen at the start.
SPECIFICATION Spec
CONSTANTS
    r1 = r1
    r2 = r2
    r3 = r3
    ip = ip
    custom = custom
    disabled = disabled
    Requests = {r1, r2, r3}
    Callers = {ip, custom, disabled}
    Askers <- Ask
    Keyed = {custom, disabled}
    Invalid = {disabled}
    Quotas <- OfTheRoute
    Custom <- OfTheKeys
    EmergencyMode = FALSE
    Keep = 3
    Route = route
    Never = never
    MaxTime = 3
    MaxFaults = 1
SYMMETRY Symmetry
INVARIANTS
    TypeOK
    WindowHolds
    GlobalHolds
    OnlyTheAdmittedCount
