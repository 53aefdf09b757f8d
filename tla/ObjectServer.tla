---------------------------- MODULE ObjectServer ----------------------------
(***************************************************************************)
(* The go-objstore server as the Python SDK sees it over its HTTP API.     *)
(* The server is not part of src/ (only the SDK is), so what it does with  *)
(* a request is taken from the specification (section 4.1) and from what   *)
(* the SDK's handlers expect of it; it is the environment of the adapter   *)
(* modules.  A store maps every key to the bytes held under it or Absent.  *)
(* Object contents are model values; Empty stands for b"".                 *)
(***************************************************************************)
EXTENDS Naturals

CONSTANTS
    Keys,       \* object keys the callers use
    Payloads,   \* non-empty object contents
    Empty,      \* the empty byte string b""
    Absent      \* no object stored under the key

ASSUME ServerAssumption ==
    /\ Keys # {}
    /\ Payloads # {}
    /\ Empty \notin Payloads
    /\ Absent \notin Payloads \cup {Empty}

Data == Payloads \cup {Empty}

Stores == [Keys -> Data \cup {Absent}]

(***************************************************************************)
(* An HTTP reply: its status code and whether its JSON "message" says the  *)
(* object was not found (the server answers 500 with such a message for a  *)
(* delete of an absent key, see the comment at rest_client.py:275).        *)
(***************************************************************************)
Codes == {200, 201, 400, 401, 403, 404, 500}

Replies == [code : Codes, notFoundMsg : BOOLEAN]

Reply(code) == [code |-> code, notFoundMsg |-> FALSE]

(***************************************************************************)
(* What the server may do with a request that reaches it: the reply and    *)
(* the store after it.  PUT /objects/k stores the body and answers 201;    *)
(* GET and HEAD of an object or its metadata answer 200 or 404; DELETE of  *)
(* a present key removes it and answers 200, and of an absent key answers  *)
(* 200, 404, or 500 with a "not found" message.                            *)
(***************************************************************************)
ServePut(store, k, body) ==
    {[reply |-> Reply(201), store |-> [store EXCEPT ![k] = body]]}

ServeRead(store, k) ==
    {[reply |-> Reply(IF store[k] = Absent THEN 404 ELSE 200), store |-> store]}

ServeDelete(store, k) ==
    IF store[k] # Absent
    THEN {[reply |-> Reply(200), store |-> [store EXCEPT ![k] = Absent]]}
    ELSE {[reply |-> r, store |-> store] :
            r \in {Reply(200), Reply(404), [code |-> 500, notFoundMsg |-> TRUE]}}

(* GET /objects (list) and GET /health answer 200.                        *)
ServeAlways(store) == {[reply |-> Reply(200), store |-> store]}

(* PUT /metadata/k of a present key answers 200, or 201 (specification,   *)
(* section 9: both are success); POST /archive of a present key answers   *)
(* 200, or 500 when the destination is not supported (section 4.1).  For  *)
(* an absent key both answer 404.  Neither changes the object's bytes.    *)
ServeKeyed(store, k, codes) ==
    {[reply |-> Reply(c), store |-> store] : c \in IF store[k] = Absent THEN {404} ELSE codes}

Serve(op, store, k, body) ==
    CASE op = "put"             -> ServePut(store, k, body)
      [] op = "delete"          -> ServeDelete(store, k)
      [] op \in {"list", "health"} -> ServeAlways(store)
      [] op = "update_metadata" -> ServeKeyed(store, k, {200, 201})
      [] op = "archive"         -> ServeKeyed(store, k, {200, 500})
      [] OTHER                  -> ServeRead(store, k)

(***************************************************************************)
(* A request the server refuses without touching the store (bad request,   *)
(* unauthenticated, forbidden, internal error), one of the given codes.    *)
(***************************************************************************)
Reject(store, codes) ==
    {[reply |-> Reply(c), store |-> store] : c \in codes}
=============================================================================
