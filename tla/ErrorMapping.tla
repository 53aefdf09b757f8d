---------------------------- MODULE ErrorMapping ----------------------------
(***************************************************************************)
(* The SDK's error taxonomy (objstore/exceptions.py) and the rules each    *)
(* adapter uses to turn a transport's failure signal into an exception.   *)
(* An error is named by the Python class the SDK raises.                   *)
(***************************************************************************)
EXTENDS Naturals

(* The taxonomy classes of exceptions.py that name one error kind.         *)
Taxonomy == {"ObjectNotFoundError", "ValidationError", "AuthenticationError",
             "ServerError", "ConnectionError", "TimeoutError"}

(* The kinds the retry policy of the specification may retry.              *)
Transient == {"ConnectionError", "TimeoutError"}

(***************************************************************************)
(* RestClient._handle_error and QuicClient._handle_error: the status code  *)
(* of a reply that is not the operation's success code.  A code none of    *)
(* the branches names raises the base class ObjectStoreError.              *)
(***************************************************************************)
HandleError(code) ==
    CASE code = 404 -> "ObjectNotFoundError"
      [] code = 401 -> "AuthenticationError"
      [] code = 400 -> "ValidationError"
      [] code >= 500 -> "ServerError"
      [] OTHER -> "ObjectStoreError"

(***************************************************************************)
(* GrpcClient._handle_grpc_error: the status code of an RpcError.          *)
(***************************************************************************)
HandleGrpcError(code) ==
    CASE code = "NOT_FOUND" -> "ObjectNotFoundError"
      [] code = "DEADLINE_EXCEEDED" -> "TimeoutError"
      [] code = "UNAVAILABLE" -> "ConnectionError"
      [] code = "INTERNAL" -> "ServerError"
      [] OTHER -> "ObjectStoreError"
=============================================================================
