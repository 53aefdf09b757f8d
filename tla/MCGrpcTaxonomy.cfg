\* One thread, RPC failures only with codes _handle_grpc_error names, and close: does every error the adapter raises belong to the taxonomy?
CONSTANTS
    c1 = c1  c2 = c2  a = a  b = b
    Absent = Absent
    Callers <- MCOneCaller
    Chunks <- MCChunks
    MaxLen <- MCMaxLen
    FailCodes <- MCMappedCodes
    MaxFaults <- MCMaxFaults
SPECIFICATION Spec
INVARIANT GrpcErrorsInTaxonomy
