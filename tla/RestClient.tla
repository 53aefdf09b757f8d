----------------------------- MODULE RestClient -----------------------------
(***************************************************************************)
(* objstore/rest_client.py: the REST adapter and the retry policy that     *)
(* wraps every one of its operations.  Each method carries the tenacity    *)
(* decorator @retry(stop=stop_after_attempt(3), wait=wait_exponential(    *)
(* multiplier=1, min=1, max=10), reraise=True) with no retry predicate,   *)
(* so an attempt that raises any exception is tried again until the third *)
(* attempt, whose exception is re-raised.                                  *)
(*                                                                         *)
(* Callers are threads sharing one RestClient (one requests.Session).  A   *)
(* call is Invoke, then Attempt and Retry until Return.  One attempt is    *)
(* the body of the decorated method: it reads the request body, sends the *)
(* request, and either the request is lost before the server (connection  *)
(* refused, connect timeout), or the server serves it and its reply is    *)
(* delivered or lost (read timeout, reset while reading the reply).        *)
(* Network faults and server refusals together are bounded by MaxFaults.  *)
(***************************************************************************)
EXTENDS ObjectServer, ErrorMapping, Sequences

CONSTANTS
    Callers,        \* threads calling the one client
    Ops,            \* the RestClient methods the callers use
    BodyKinds,      \* "bytes" or "stream" (a file-like object) for put
    InjectedCodes,  \* error codes the server may answer any request with
    MaxFaults,      \* bound on lost requests, lost replies and refusals
    NoVal           \* the value part of a result that carries none

RestOps == {"put", "get", "delete", "exists", "list", "get_metadata",
            "update_metadata", "health", "archive"}

ASSUME RestAssumption ==
    /\ Callers # {}
    /\ Ops # {} /\ Ops \subseteq RestOps
    /\ BodyKinds # {} /\ BodyKinds \subseteq {"bytes", "stream"}
    /\ InjectedCodes \subseteq {400, 401, 403, 500}
    /\ MaxFaults \in Nat
    /\ NoVal \notin Data \cup BOOLEAN \cup {Absent}

VARIABLES
    store,      \* the server's objects
    pc,         \* per caller: "idle", "attempt" (about to run the body), "decide"
    call,       \* per caller: the current call's method, key, data and body kind
    hist,       \* per caller: the outcomes of the current call's attempts
    ret,        \* per caller: what its last call returned or raised
    streamAt,   \* per caller: position of a file-like body, "start" or "end"
    wrote,      \* per caller: what this call's attempts left under the key: the
                \* bodies a put stored, Absent for an object a delete removed
    faults      \* faults injected so far

vars == <<store, pc, call, hist, ret, streamAt, wrote, faults>>

(* The outcome of an attempt: "ok" with a value, or the class it raised.   *)
Ok(v) == [kind |-> "ok", val |-> v]
Err(cls) == [kind |-> cls, val |-> NoVal]

ErrorKinds == Taxonomy \cup {"ObjectStoreError", "ChunkedEncodingError"}

Outcomes == [kind : {"ok"} \cup ErrorKinds, val : Data \cup BOOLEAN \cup {NoVal}]

LastOf(s) == s[Len(s)]

(***************************************************************************)
(* The tenacity decorator: stop_after_attempt(3), and the default retry    *)
(* predicate retry_if_exception_type(Exception), true of every exception.  *)
(***************************************************************************)
StopAfter == 3

RetryOn(o) == o.kind # "ok"

(***************************************************************************)
(* put: "if isinstance(data, bytes): body_data = data else: body_data =    *)
(* data.read()".  A file-like body is read to its end by the first attempt *)
(* and a later attempt reads b"" from it.                                  *)
(***************************************************************************)
SentBody(c) ==
    IF call[c].body = "bytes" \/ streamAt[c] = "start" THEN call[c].data ELSE Empty

(***************************************************************************)
(* How each method turns a delivered reply into its result; cur is what    *)
(* the server held under the key when it served the request.              *)
(***************************************************************************)
(* The shape of every method but get, delete and exists: a reply with one *)
(* of the method's success codes is a result, any other goes through      *)
(* _handle_error, which raises.                                           *)
OkOn(r, codes) == IF r.code \in codes THEN Ok(NoVal) ELSE Err(HandleError(r.code))

PutResult(r) == OkOn(r, {201})

(* Mutant: get returns the body whatever the status.                      *)
GetResultIgnoresStatus(r, cur) == Ok(cur)

GetResult(r, cur) == IF r.code = 200 THEN Ok(cur) ELSE Err(HandleError(r.code))

DeleteResult(r) ==
    IF r.code = 200 THEN Ok(NoVal)
    ELSE IF r.code = 500 /\ r.notFoundMsg THEN Err("ObjectNotFoundError")
    ELSE Err(HandleError(r.code))

ExistsResult(r) == Ok(r.code = 200)

ListResult(r) == OkOn(r, {200})

MetadataResult(r) == OkOn(r, {200})

(* "Server may return 201 if it creates a metadata object instead of      *)
(* updating": both are success.                                           *)
UpdateMetadataResult(r) == OkOn(r, {200, 201})

HealthResult(r) == OkOn(r, {200})

ArchiveResult(r) == OkOn(r, {200})

Result(op, r, cur) ==
    CASE op = "put"             -> PutResult(r)
      [] op = "get"             -> GetResult(r, cur)
      [] op = "delete"          -> DeleteResult(r)
      [] op = "exists"          -> ExistsResult(r)
      [] op = "list"            -> ListResult(r)
      [] op = "get_metadata"    -> MetadataResult(r)
      [] op = "update_metadata" -> UpdateMetadataResult(r)
      [] op = "health"          -> HealthResult(r)
      [] op = "archive"         -> ArchiveResult(r)

(***************************************************************************)
(* The exceptions an attempt raises when the network fails.  requests      *)
(* raises Timeout (caught as TimeoutError) or ConnectionError (caught as   *)
(* ConnectionError); a connection reset while the body of a reply is read  *)
(* raises ChunkedEncodingError, which no except clause catches.  A HEAD    *)
(* reply has no body.                                                      *)
(***************************************************************************)
LostRequestErrors == {"ConnectionError", "TimeoutError"}

LostReplyErrors(op) ==
    {"ConnectionError", "TimeoutError"}
        \cup (IF op = "exists" THEN {} ELSE {"ChunkedEncodingError"})

-----------------------------------------------------------------------------

(* The call record of a caller that has not called yet.                    *)
NoCall == [op |-> "get", key |-> CHOOSE k \in Keys : TRUE, data |-> Empty, body |-> "bytes"]

Init ==
    /\ store = [k \in Keys |-> Absent]
    /\ pc = [c \in Callers |-> "idle"]
    /\ call = [c \in Callers |-> NoCall]
    /\ hist = [c \in Callers |-> <<>>]
    /\ ret = [c \in Callers |-> Ok(NoVal)]
    /\ streamAt = [c \in Callers |-> "start"]
    /\ wrote = [c \in Callers |-> {}]
    /\ faults = 0

(* A caller invokes a method; only put takes data and a body kind.         *)
Invoke(c) ==
    /\ pc[c] = "idle"
    /\ \E op \in Ops, k \in Keys :
       \E d \in (IF op = "put" THEN Data ELSE {Empty}),
          b \in (IF op = "put" THEN BodyKinds ELSE {"bytes"}) :
          call' = [call EXCEPT ![c] = [op |-> op, key |-> k, data |-> d, body |-> b]]
    /\ pc' = [pc EXCEPT ![c] = "attempt"]
    /\ hist' = [hist EXCEPT ![c] = <<>>]
    /\ streamAt' = [streamAt EXCEPT ![c] = "start"]
    /\ wrote' = [wrote EXCEPT ![c] = {}]
    /\ UNCHANGED <<store, ret, faults>>

(* The request never reaches the server.                                   *)
RequestLost(c) ==
    /\ faults < MaxFaults
    /\ faults' = faults + 1
    /\ \E e \in LostRequestErrors : hist' = [hist EXCEPT ![c] = Append(@, Err(e))]
    /\ UNCHANGED <<store, wrote>>

(* What serving the request left under the key, as far as the call's own *)
(* effect goes: the body a put stored, or Absent when a delete removed    *)
(* the object that was there.                                             *)
Effect(op, s, cur, k) ==
    IF op = "put" /\ s.reply.code = 201 THEN {s.store[k]}
    ELSE IF op = "delete" /\ cur # Absent /\ s.store[k] = Absent THEN {Absent}
    ELSE {}

(* The server's answer s reaches the client, or is lost on the way back   *)
(* (read timeout, reset); used counts the faults including this attempt's. *)
Answer(c, s, used) ==
    LET op == call[c].op IN
    /\ store' = s.store
    /\ wrote' = [wrote EXCEPT ![c] = @ \cup Effect(op, s, store[call[c].key], call[c].key)]
    /\ \/ /\ hist' = [hist EXCEPT ![c] = Append(@, Result(op, s.reply, store[call[c].key]))]
          /\ faults' = used
       \/ /\ used < MaxFaults
          /\ faults' = used + 1
          /\ \E e \in LostReplyErrors(op) : hist' = [hist EXCEPT ![c] = Append(@, Err(e))]

(* The server serves the request.                                          *)
RequestServed(c, body) ==
    \E s \in Serve(call[c].op, store, call[c].key, body) : Answer(c, s, faults)

(* The server refuses the request with one of InjectedCodes.               *)
RequestRefused(c) ==
    /\ faults < MaxFaults
    /\ \E s \in Reject(store, InjectedCodes) : Answer(c, s, faults + 1)

(* One run of the decorated method's body.                                 *)
Attempt(c) ==
    /\ pc[c] = "attempt"
    /\ pc' = [pc EXCEPT ![c] = "decide"]
    /\ streamAt' = [streamAt EXCEPT ![c] =
                      IF call[c].op = "put" /\ call[c].body = "stream" THEN "end" ELSE @]
    /\ RequestLost(c) \/ RequestServed(c, SentBody(c)) \/ RequestRefused(c)
    /\ UNCHANGED <<call, ret>>

(* Mutant: stop_after_attempt(4) instead of 3.                            *)
RetryOneMore(c) ==
    /\ pc[c] = "decide"
    /\ RetryOn(LastOf(hist[c]))
    /\ Len(hist[c]) < StopAfter + 1
    /\ pc' = [pc EXCEPT ![c] = "attempt"]
    /\ UNCHANGED <<store, call, hist, ret, streamAt, wrote, faults>>

(* tenacity: the attempt raised and the stop condition does not hold yet;  *)
(* it sleeps wait_exponential and calls the body again.                    *)
Retry(c) ==
    /\ pc[c] = "decide"
    /\ RetryOn(LastOf(hist[c]))
    /\ Len(hist[c]) < StopAfter
    /\ pc' = [pc EXCEPT ![c] = "attempt"]
    /\ UNCHANGED <<store, call, hist, ret, streamAt, wrote, faults>>

(* tenacity: the attempt returned, or the stop condition holds and, as     *)
(* reraise=True, the last attempt's exception is raised to the caller.     *)
Return(c) ==
    /\ pc[c] = "decide"
    /\ ~RetryOn(LastOf(hist[c])) \/ Len(hist[c]) >= StopAfter
    /\ ret' = [ret EXCEPT ![c] = LastOf(hist[c])]
    /\ pc' = [pc EXCEPT ![c] = "idle"]
    /\ UNCHANGED <<store, call, hist, streamAt, wrote, faults>>

Next == \E c \in Callers : Invoke(c) \/ Attempt(c) \/ Retry(c) \/ Return(c)

Spec == Init /\ [][Next]_vars

-----------------------------------------------------------------------------
(***************************************************************************)
(* Properties.                                                             *)
(***************************************************************************)

CallRecords == [op : RestOps, key : Keys, data : Data, body : {"bytes", "stream"}]

(* Every variable holds a value of its type.                               *)
TypeOK ==
    /\ store \in Stores
    /\ pc \in [Callers -> {"idle", "attempt", "decide"}]
    /\ call \in [Callers -> CallRecords]
    /\ hist \in [Callers -> Seq(Outcomes)]
    /\ ret \in [Callers -> Outcomes]
    /\ streamAt \in [Callers -> {"start", "end"}]
    /\ wrote \in [Callers -> SUBSET (Data \cup {Absent})]
    /\ faults \in 0..MaxFaults

(***************************************************************************)
(* The tenacity contract of every RestClient method: a call that has       *)
(* returned made between one and three attempts, every attempt but the     *)
(* last raised, and what the caller got is exactly the last attempt's      *)
(* outcome: its value, or (reraise=True) its exception, after exactly      *)
(* three attempts.  It takes a retry loop over several faults of the       *)
(* network and the server to exercise.                                     *)
(***************************************************************************)
ReraisesLastAttempt ==
    \A c \in Callers :
       (pc[c] = "idle" /\ hist[c] # <<>>) =>
          /\ Len(hist[c]) \in 1..StopAfter
          /\ \A i \in 1..Len(hist[c]) - 1 : RetryOn(hist[c][i])
          /\ ret[c] = LastOf(hist[c])
          /\ RetryOn(ret[c]) => Len(hist[c]) = StopAfter

(***************************************************************************)
(* Retry policy of the specification (section 4.4): an attempt is retried  *)
(* only after a ConnectionError or TimeoutError, and only for the          *)
(* idempotent-safe operations get, exists, list, getMetadata, health and   *)
(* delete; a put is never retried.                                         *)
(***************************************************************************)
Idempotent == {"get", "exists", "list", "get_metadata", "health", "delete"}

RetriesOnlyTransient ==
    \A c \in Callers :
       Len(hist[c]) > 1 =>
          /\ call[c].op \in Idempotent
          /\ \A i \in 1..Len(hist[c]) - 1 : hist[c][i].kind \in Transient

(***************************************************************************)
(* A put stores only the caller's data: no attempt of a put call ever      *)
(* leaves anything else under the key (section 8 of the specification:     *)
(* put(k, data) followed by get(k) returns exactly data).                  *)
(***************************************************************************)
PutOnlyWritesCallerData ==
    \A c \in Callers : call[c].op = "put" => wrote[c] \subseteq {call[c].data}

(***************************************************************************)
(* A delete that raised ObjectNotFoundError did not remove the object      *)
(* itself: section 4.1 of the specification lets delete report NotFound   *)
(* for an absent key and passes the server's answer through unmodified,   *)
(* so NotFound must mean the key was absent, not that this very call had  *)
(* already removed it in an attempt whose reply was lost.                 *)
(***************************************************************************)
DeleteNotFoundMeansAbsent ==
    \A c \in Callers :
       (pc[c] = "idle" /\ hist[c] # <<>> /\ call[c].op = "delete"
          /\ ret[c].kind = "ObjectNotFoundError") => Absent \notin wrote[c]

(***************************************************************************)
(* Every error a call raises is one of the taxonomy's kinds (section 4.4:  *)
(* the mapping from native failures is total, unmapped signals become      *)
(* ServerError).                                                           *)
(***************************************************************************)
ErrorsInTaxonomy ==
    \A c \in Callers : RetryOn(ret[c]) => ret[c].kind \in Taxonomy
=============================================================================
