\* Two threads share one RestClient over one key; one fault
\* (lost requests, lost replies, refusals with 400/401/403/500) on top of the
\* 404s and 500s that the server itself answers.
CONSTANTS
    c1 = c1
    c2 = c2
    k1 = k1
    p1 = p1
    Callers <- MCCallers
    Keys <- MCKeys
    Payloads <- MCPayloads
    Empty = Empty
    Absent = Absent
    NoVal = NoVal
    Ops <- RestOps
    BodyKinds = {"bytes", "stream"}
    InjectedCodes = {400, 401, 403, 500}
    MaxFaults = 1
SPECIFICATION Spec
SYMMETRY MCSymmetry
INVARIANT TypeOK
INVARIANT ReraisesLastAttempt
