\* One thread; no network faults: a get of an absent key answers 404.
CONSTANTS
    c1 = c1
    c2 = c2
    k1 = k1
    p1 = p1
    Callers <- MCCallers1
    Keys <- MCKeys
    Payloads <- MCPayloads
    Empty = Empty
    Absent = Absent
    NoVal = NoVal
    Ops = {"get", "put"}
    BodyKinds = {"bytes"}
    InjectedCodes = {}
    MaxFaults = 0
SPECIFICATION Spec
INVARIANT RetriesOnlyTransient
