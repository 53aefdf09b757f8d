---------------------------- MODULE MCGrpcClient ----------------------------
(* Small instances of GrpcClient for TLC.                                  *)
EXTENDS GrpcClient, TLC

CONSTANTS c1, c2, a, b

MCCallers == {c1, c2}
MCOneCaller == {c1}
MCChunks == {a, b}
MCMaxLen == 2

(* Codes _handle_grpc_error maps to a taxonomy kind.  A deadline is the    *)
(* failure after which a put may still have been applied.                   *)
MCMappedCodes == {"DEADLINE_EXCEEDED", "UNAVAILABLE"}
MCDeadline == {"DEADLINE_EXCEEDED"}
MCMaxFaults == 1

(* Callers are interchangeable, and so are the chunks.                     *)
MCSymmetry == Permutations(MCCallers) \cup Permutations(MCChunks)
=============================================================================
