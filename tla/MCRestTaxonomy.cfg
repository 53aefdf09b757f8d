\* One thread; one fault, which may be a 403 refusal or a reset reply body.
CONSTANTS
    c1 = c1
    c2 = c2
    k1 = k1
    p1 = p1
    Callers <- MCCallers1
    Keys <- MCKeys
    Payloads <- MCPayloads
    Empty = Empty
    Absent = Absent
    NoVal = NoVal
    Ops = {"get", "put"}
    BodyKinds = {"bytes"}
    InjectedCodes = {403}
    MaxFaults = 1
SPECIFICATION Spec
INVARIANT ErrorsInTaxonomy
