\* Two threads share one GrpcClient: puts, deletes, unary calls, get and get_stream (resumed, abandoned, failing or cancelled mid-stream) and close.
CONSTANTS
    c1 = c1  c2 = c2  a = a  b = b
    Absent = Absent
    Callers <- MCCallers
    Chunks <- MCChunks
    MaxLen <- MCMaxLen
    FailCodes <- MCDeadline
    MaxFaults <- MCMaxFaults
SPECIFICATION Spec
INVARIANT TypeOK
PROPERTY ImplementsContract
SYMMETRY MCSymmetry
