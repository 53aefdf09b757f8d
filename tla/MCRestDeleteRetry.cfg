\* One thread stores an object and deletes it; one lost reply.
CONSTANTS
    c1 = c1
    c2 = c2
    k1 = k1
    p1 = p1
    Callers <- MCCallers1
    Keys <- MCKeys
    Payloads <- MCPayloads
    Empty = Empty
    Absent = Absent
    NoVal = NoVal
    Ops = {"put", "delete"}
    BodyKinds = {"bytes"}
    InjectedCodes = {}
    MaxFaults = 1
SPECIFICATION Spec
INVARIANT DeleteNotFoundMeansAbsent
