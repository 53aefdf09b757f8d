# TLA+ models of the go-objstore Python SDK

This directory holds TLA+ models of the Python SDK in
`src/api/sdks/python/objstore/`. It contains TLC configurations that
model-check them on small instances and TLAPS proofs of their main invariants and of the gRPC adapter's refinement of the operation contract.
`PROJECT.json` lists the components, runs, mutants, the definition-to-source
map, the findings, the hazards and the theorems.

## 1. The system

The SDK lets a program reach a go-objstore server over one of three
protocols, all behind one façade.

| Part | Source | Role |
|---|---|---|
| Error taxonomy | `exceptions.py` | `ObjectStoreError` and its subclasses: `ObjectNotFoundError`, `ValidationError`, `AuthenticationError`, `ServerError`, `ConnectionError`, `TimeoutError`. |
| REST adapter | `rest_client.py` | `RestClient` has one `requests.Session`. It has about 20 methods, and each carries the tenacity decorator `@retry(stop=stop_after_attempt(3), wait=wait_exponential(1, 1, 10), reraise=True)`. Non-success statuses go through `_handle_error`. `requests.Timeout` and `requests.ConnectionError` become the SDK's `TimeoutError` and `ConnectionError`. |
| gRPC adapter | `grpc_client.py` | `GrpcClient` holds one channel and stub and never retries. An `RpcError` goes through `_handle_grpc_error`. `get` concatenates a stream of response messages. |
| QUIC adapter | `quic_client.py` | `QuicClient` holds one `httpx.AsyncClient`. It has the same paths as REST, written as coroutines, and never retries. `get_stream` is an async generator. |
| Façade and bridge | `client.py` | `ObjectStoreClient` picks one adapter at construction time. For QUIC it runs each coroutine through `_run_async`: `asyncio.run` when no loop runs on the thread, otherwise a worker thread with its own loop that is joined before returning. `get_stream` drives an async generator from a fresh loop. |
| Data model | `models.py` | These are pydantic value records. The only behaviour is `LifecyclePolicy.model_post_init`, which derives the retention from `age_days`. |

How the parts interact: a caller calls the façade, which calls the selected
adapter, which calls the server. For REST, tenacity wraps each adapter method.
Results and exceptions come back unchanged through the façade.

### State, operations and what makes them hard

- **REST.**
  - State: the server's objects, and per calling thread the current call, its attempts and what it returned.
  - Operations: put (bytes or a file-like body), get, get_stream, delete, exists, list, get/update_metadata, health, archive, and lifecycle and replication policy calls.
  - Hard parts: the retry loop over lost requests, lost or reset replies and server refusals. Threads share one session. A file-like body is read once, inside the retried method.
- **gRPC.**
  - State: the channel (open or closed), and per calling thread the response stream it is reading.
  - Operations: the same contract, with no retry.
  - Hard parts: `get` assembles a message stream that may fail midway, and `get_stream` hands out chunks across yields. Another thread may close the channel under a stream. The error mapping is a different table from REST's.
- **QUIC and the bridge.**
  - State: the AsyncClient, the event loops of the calling thread and of the worker, and the worker thread.
  - Hard parts: a call made while a loop is running must be offloaded. An exception must cross a thread boundary. The AsyncClient is reused across loops that `asyncio.run` closes. A streaming generator must be released when the caller abandons it.

### Properties per component, from the code and the specification

- REST retry: a returned call made 1..3 attempts, all but the last raised, and the caller got the last outcome (`ReraisesLastAttempt`). Retry only transient errors of idempotent-safe operations (`RetriesOnlyTransient`, specification §4.4). A delete that reports NotFound did not itself remove the object (`DeleteNotFoundMeansAbsent`, §4.1). (The `max_retries` given to `RestClient` is stored at line 63 and read by nothing: every decorator hard-codes three attempts, which is what the model does.) A put stores only the caller's data (`PutOnlyWritesCallerData`, §8). Errors stay inside the taxonomy (`ErrorsInTaxonomy`, §4.4). That `exists` turns a 401 or a 500 into False (line 382) is a defect of one call, not checked by a run.
- gRPC: what `get` and `get_stream` hand out is the object's bytes in wire order, all of them on a normal return, and every call is one atomic step of the operation contract (`ImplementsContract`, the refinement of `ObjectStoreContract`, §4.1, §5). Every error is in the taxonomy (`GrpcErrorsInTaxonomy`, §4.4).
- Bridge: no loop the SDK opens outlives its call (`NoLeakedLoops`, §4.3, §5); every call hands control back (`CallsReturn`); no second loop is driven on a thread whose loop runs (`NoNestedDrive`, §4.3); a request only uses a connection of the loop that drives it (`NoStaleLoopUse`); an abandoned stream gives its connection back (`StreamReleased`, §4.3).

## 2. Modules

| Module | Models | Status |
|---|---|---|
| `ObjectServer` | The server's behaviour as the SDK sees it, for the object routes: put stores and answers 201; get/HEAD answer 200 or 404; delete of an absent key answers 200, 404 or a not-found 500 (all three are valid server behaviours per §4.1 and the comment at `rest_client.py:275`); a refusal with a chosen error code leaves the store alone. The server is not under `src/`, so this module is modelled from the specification. | done |
| `ErrorMapping` | The taxonomy classes, `RestClient._handle_error` (`HandleError`) and `GrpcClient._handle_grpc_error` (`HandleGrpcError`). | done |
| `RestClient` | The REST adapter's put/get/delete/exists/list/get_metadata/update_metadata/health/archive under the tenacity decorator, with concurrent callers. | done |
| `MCRestClient` | Model values and symmetry for TLC. | done |
| `RestClientProofs` | TLAPS proofs for `RestClient`. | done |
| `AsyncBridgeProofs` | TLAPS proofs for `AsyncBridge`. | done |
| `AsyncBridge` | The façade's QUIC paths (`_run_async`, `get_stream`, `close` in `client.py`) and the QUIC adapter's use of its one `httpx.AsyncClient` pool. | done |
| `MCAsyncBridge` | Model values, bounds and symmetry for TLC. | done |
| `GrpcClient` | The gRPC adapter: every method, `get` and `get_stream` message by message, `close`, and calls on a closed channel. | done |
| `MCGrpcClient` | Model values, bounds and symmetry for TLC. | done |
| `GrpcClientProofs` | TLAPS proofs for `GrpcClient`: type correctness. | done |
| `GrpcContractProofs` | TLAPS proof that `GrpcClient` implements `ObjectStoreContract`. | done |
| `ObjectStoreContract` | The abstract operation contract (§4.1, §5) for one key: every write, removal and inspection is one atomic step, and a download serves the object as it was when it opened, byte by byte in order. `GrpcClient` is shown to implement it. | done |

### RestClient: state and actions against the code

| Variable | Code |
|---|---|
| `store` | The objects the server holds (key → contents or `Absent`). |
| `pc[c]` | Where thread `c` is: `idle`; `attempt`, inside tenacity just before calling the method body; or `decide`, in tenacity after the body returned or raised. |
| `call[c]` | The method and its arguments: key, data, and whether `data` is `bytes` or a file-like object. |
| `hist[c]` | The outcome of every attempt of the current call, either a value or the exception class raised. |
| `ret[c]` | What the call returned or raised to the caller. |
| `streamAt[c]` | The position of a file-like body: `start`, or `end` after `data.read()`. |
| `wrote[c]` | History only: what the current call's attempts left under the key: the bodies a put stored, and `Absent` when a delete removed the object (`Effect`). |
| `faults` | The number of faults injected so far, bounded by `MaxFaults`. |

The actions:

- `Invoke(c)` is the call entry.
- `Attempt(c)` is one run of the method body (`rest_client.py:137-173` for put, and likewise for the other methods). Everything one attempt does is one step:
  - It reads the body (`SentBody`, lines 141-144).
  - It sends the request, which then either:
    - never reaches the server (`RequestLost`, the except clauses at lines 170-173);
    - is served (`RequestServed`, via `ObjectServer.Serve`);
    - or is refused with an injected code (`RequestRefused`).
  - The served or refused reply is delivered to the method (`Answer`), or lost on the way back as a read timeout or reset. A lost reply raises `TimeoutError`, `ConnectionError` or, for a reset while reading a body, the uncaught `ChunkedEncodingError`.
  - The delivered reply becomes the method's result (`PutResult`, `GetResult`, `DeleteResult`, `ExistsResult`, `ListResult`, `MetadataResult`, `UpdateMetadataResult`, `HealthResult`, `ArchiveResult`, with `HandleError` for the other statuses). All but get, delete and exists share one shape, `OkOn`: a success code gives a result, any other goes through `_handle_error`. `update_metadata` takes 200 and 201 as success (the comment at lines 463-464).
- `Retry(c)` and `Return(c)` are tenacity's decision after the attempt (lines 113-117):
  - With the default predicate, every exception is retried (`RetryOn`) until `stop_after_attempt(3)` (`StopAfter`).
  - `reraise=True` then returns the last attempt's exception (`LastOf`).
  - The exponential wait is time only, so the model leaves it out.

### AsyncBridge: state and actions against the code

Each caller thread makes one façade call at a time. A call is `unary` (every QUIC method but `get_stream` and `close`, since they all enter `_run_async` the same way), `stream` or `close`. Data is abstracted away; what is kept is which loop drives each coroutine, on which thread, and which pooled connection, opened on which loop, a request uses.

| Variable | Code |
|---|---|
| `pc[t]` | `idle`; `run`, inside `asyncio.run`; `join`, blocked in `thread.join()`; `stream`, holding the `get_stream` generator; `pull`, inside `loop.run_until_complete(async_gen.__anext__())`. |
| `ctx[t]` | Whether an event loop is running on the caller's thread (the caller is a coroutine). |
| `drive[t]`, `loopSt` | The loop the SDK created for the call, and per loop whether it is open or closed. A loop id is reused once no call and no connection refers to it, so the model stays finite without bounding the number of calls. |
| `worker[t]` | The `run_in_thread` thread: started, running its loop, done. |
| `co[t]`, `pos[t]`, `holds[t]` | The coroutine's progress, the chunks a stream yielded, the pool slot in use. |
| `out[t]`, `ret[t]` | What the coroutine produced (the worker's `result`/`exception`), and what the caller got. |
| `conn`, `clientOpen` | The `httpx.AsyncClient` pool: per slot, free, idle or busy, and the loop the connection was opened on; whether `aclose()` ran. |

The actions:

- `Invoke(t)`: the caller's call. From a thread with a running loop it starts a worker. Otherwise `asyncio.run` opens a loop. `self._event_loop` is never assigned, so the reuse branch at lines 171-172 is dead. A `get_stream` call only creates the generator.
- `WorkerBegin`, `WorkerEnd` and `Join` are the offload branch (lines 139-163). `Join` re-raises inside the `try` whose `except RuntimeError` belongs to `get_running_loop()`. A `RuntimeError` from the worker therefore turns into `asyncio.run(coro)` on the caller's thread (`pc = "run"`, then `Refused`).
- `RunEnd`: `asyncio.run` closes its loop and returns or raises.
- `Acquire`, `Respond`, `StreamChunk` and `CloseClient` are the adapter's use of the pool:
  - A request takes an idle connection whatever loop it was opened on. Failing that, it opens one on the running loop. Failing that, it times out.
  - A response on a connection of a closed loop raises `RuntimeError("Event loop is closed")`. On another thread's live loop the outcome is left open.
  - Leaving `async with client.stream` releases the connection.
- `Pull`, `StreamEnd` and `Abandon` are `ObjectStoreClient.get_stream`'s driver:
  - The first `next()` creates and sets a loop.
  - The `finally` closes the loop on exhaustion, on an error and on abandonment.
  - On abandonment nothing closes the async generators, so the connection stays busy.
- `Refused`: `asyncio.run` or `run_until_complete` on a thread whose loop runs raises at once.

### GrpcClient: state and actions against the code

Callers are threads sharing one `GrpcClient`. An object is the sequence of messages the server streams for the key; a message carries one chunk or none (a metadata-only message). Metadata and the proto conversions are left out.

| Variable | Code |
|---|---|
| `pc[c]` | `idle`; `recv`, inside `for response in responses`; `yielded`, a `get_stream` generator suspended at `yield response.data`. |
| `op[c]`, `ret[c]` | The method of the caller's call and how it ended (normal return, the class `_handle_grpc_error` raised, grpcio's `ValueError`, or an abandoned stream). |
| `rest[c]`, `snap[c]`, `got[c]` | The chunks not read yet, the object the stream serves, and the chunks `get` has appended (`data += response.data`) or `get_stream` has yielded. |
| `store`, `channelOpen`, `faults` | The server's object, whether `close()` ran, and the injected RPC failures. |

The actions:

- `Put`, `Delete`, `Exists`, `ListCall`, `MetadataCall`, `ServiceCall`, `PolicyCall` and `ReplicationCall` are one RPC each. `Query` is the shape of all but put and delete; they record the method as `unary`, because nothing the properties see tells them apart. An `RpcError` goes through `_handle_grpc_error` (`RpcFails`). A failed put may still have been stored, and a failed delete may still have removed the object, as with a deadline that expires on the way back.
- `OpenGet` is `stub.Get`. The server streams its current object or answers NOT_FOUND.
- `Receive` is one turn of the response loop: `get` appends the message's chunk, and `get_stream` yields it and suspends. An object is the sequence of chunks the server streams, one per message. A message whose data field is empty is left out: `get` appends `b""` and `get_stream` skips it (`if response.data`), so its receipt changes nothing a caller or a property sees. `Resume` and `Abandon` are the caller's `next()` and its dropping of the generator.
- `StreamFails` is a failed status mid-stream: a server fault, or CANCELLED after another thread's `close()`. `Finish` is the OK end of the stream.
- `Close` is `channel.close()`, which is idempotent. `CallClosed` is any method after it: the stub raises `ValueError`, which no `except grpc.RpcError` catches.

The server side (the order of messages, NOT_FOUND for an absent key, failure codes) is modelled from the specification.

### ObjectStoreContract and the refinement

`ObjectStoreContract` is the abstract specification of §4.1 and §5 for one key. Its object `obj` is a byte sequence or `Absent`. Per caller it has a state (`idle` or `open`), the object a download serves (`src`), the bytes handed out (`seen`) and the last outcome (`res`). Its steps are:

- `Write` and `Erase`: success means the change took effect. An error may or may not have: a written object may or may not have been replaced, and an erased one may or may not be gone (a deadline cannot tell).
- `Inspect`: any call that only reads leaves the object alone.
- `Open`, `Deliver`, `Complete` and `Stop`: a download fixes its source when it opens, hands out one byte at a time in order, succeeds only after the last one, and may stop early with an error or because the caller dropped it.

`GrpcClient` defines `Contract == INSTANCE ObjectStoreContract WITH ...`, and `ImplementsContract == Contract!Spec` is checked as a `PROPERTY`. The refinement mapping:

- `obj` is the stored object, `store`, and `Bytes` are the chunk values.
- A caller is `open` whenever it is not idle.
- `src` is the snapshot its stream opened on (`snap`), and `seen` is `got`.
- `res` is `ret` folded to ok / error / dropped / none (`Outcome`).

Under this mapping `OpenGet` is `Open`. `Receive` is `Deliver`, and `Resume` a stutter. `Finish` is `Complete`. `StreamFails` (a server fault, or CANCELLED after a concurrent close) and `Abandon` are `Stop`. `Put`, `Delete` and the unary calls are `Write`, `Erase` and `Inspect`, and so are `Close` and `CallClosed`, which leave the object alone. The mutant `ReceiveOverwrites` (a receive that replaces `got` instead of appending) breaks the refinement.

## 3. Runs

| Run | Cfg | Expect | Shows |
|---|---|---|---|
| `rest_retry` | `MCRestClient.cfg` | pass | Two threads, one key, all nine modelled methods, byte and file-like bodies, and one injected fault of any kind. Checks `TypeOK` and `ReraisesLastAttempt`. |
| `rest_retry_class` | `MCRestRetryClass.cfg` | violation | `RetriesOnlyTransient`: a get of an absent key is retried on 404. |
| `rest_delete_retry` | `MCRestDeleteRetry.cfg` | violation | `DeleteNotFoundMeansAbsent`: one thread puts and deletes; the delete removes the object, its reply times out, the retry is answered 404, and the caller gets `ObjectNotFoundError` for a delete that took effect. |
| `rest_stream_put` | `MCRestStreamPut.cfg` | violation | `PutOnlyWritesCallerData`: a put of a file-like body that fails after reading is retried and stores `b""`. |
| `rest_taxonomy` | `MCRestTaxonomy.cfg` | violation | `ErrorsInTaxonomy`: a get of an absent key is answered 404 twice, and its third attempt is refused with 403; `_handle_error` raises the base `ObjectStoreError` for it, and the decorator re-raises that. |
| `bridge_liveness` | `MCBridgeLiveness.cfg` | pass | Two threads, unary calls and close from both contexts, one pool slot. Checks `CallsReturn` only (no symmetry, as the run checks liveness). Its states are a subset of `bridge_streams`', which checks `TypeOK` and `NoLeakedLoops`. |
| `bridge_streams` | `MCBridgeStreams.cfg` | pass | The same with `get_stream` too, streams of two chunks. Checks `TypeOK` and `NoLeakedLoops`. |
| `bridge_stale` | `MCBridgeStale.cfg` | violation | `NoStaleLoopUse`: one thread, two sequential gets. The second is sent on the connection of the loop `asyncio.run` closed after the first. |
| `bridge_nested` | `MCBridgeNested.cfg` | violation | `NoNestedDrive`: one thread, unary calls and `get_stream` from both contexts. The shortest trace is `get_stream` iterated from a coroutine, which calls `run_until_complete` on the caller's thread. The same run also reaches a get from a plain thread, then one from a coroutine: the worker hits the stale connection, and its `RuntimeError` sends `_run_async` into `asyncio.run` on the caller's running loop. That is the only trace when `Kinds` is `{"unary"}`. |
| `bridge_stream_leak` | `MCBridgeStreamLeak.cfg` | violation | `StreamReleased`: a stream abandoned after its first chunk keeps its connection busy. |
| `grpc_streams` | `MCGrpcClient.cfg` | pass | Two threads share one `GrpcClient` with every method, including streams that are resumed, abandoned, failing or cancelled by a concurrent close. Checks `TypeOK` and `ImplementsContract`, the refinement of `ObjectStoreContract` (103,830 distinct states, about 20 seconds). RPC failures are DEADLINE_EXCEEDED only here: which code fails changes no state the contract sees, only the class `ret` records. |
| `grpc_taxonomy` | `MCGrpcTaxonomy.cfg` | violation | `GrpcErrorsInTaxonomy`: one thread, and the server fails only with codes `_handle_grpc_error` names; `close()` followed by a put raises `ValueError`. This run does not exercise the unmapped codes (INVALID_ARGUMENT, UNAUTHENTICATED) or CANCELLED from a concurrent close. That those raise the base `ObjectStoreError` is read off the `else` branch at line 760, not shown by TLC. |

**Bounds.**
- There is one key and one payload value. Properties relate a caller's call to its own attempts and to what the server held, and a second key adds nothing those properties tell apart.
- There are two callers, interchangeable under symmetry.
- `MaxFaults = 1` bounds the injected faults: lost request, lost or reset reply, or refusal.
- The server's own 404s, and its three answers to a delete of an absent key, are not bounded. They already drive calls through all three attempts, so every branch of tenacity's decision is reached, including a raise after the third attempt. A fault on top of them mixes the outcomes within one call.
- With `MaxFaults = 2` the state space grows several-fold with no new kind of outcome.

- The bridge runs use two threads, one pool slot (so reuse and pool exhaustion both happen) and as many loop ids as slots plus threads. With that many ids an idle caller can always get a fresh loop. Two chunks per stream let a stream be abandoned between two yields. The violation runs use one thread where one suffices, so their traces are the sequential ones a user meets first.

- The gRPC runs use two callers and two chunk values, both interchangeable under symmetry. Objects have up to two chunks, so a stream can be read in two turns. One RPC failure is drawn from a mapped code and an unmapped one. A stream can then fail after its first chunk, and a concurrent close can cancel it.

**Fairness.**
- The REST and gRPC runs assume none and check safety only.
- `AsyncBridge.Spec` assumes weak fairness of each thread's SDK steps (`SDKStep`): the worker, the coroutine's steps on its loop, and the ends of `asyncio.run`, `join` and `run_until_complete`. The OS schedules every thread, and each SDK loop runs only the one coroutine it was created for, so a step that stays enabled is taken.
- The caller's own steps (`Invoke`, `Pull`, `Abandon`) get no fairness: a caller may stop at any time.

## 4. Proofs

`RestClientProofs` proves these theorems for every value of the constants allowed by `RestAssumption` and `ServerAssumption`:

- `TypeCorrect`: `Spec => []TypeOK`.
- `RetryContract`: `Spec => []ReraisesLastAttempt`.

Neither invariant is inductive on its own. `Return` reads the last attempt's outcome, so typing needs that a deciding caller has made at least one attempt. The retry contract needs to know what a caller's history looks like at each point of the loop. The strengthening is `IInv == TypeOK /\ \A c : CallInv(c)`, where `CallInv(c)` says:

- before an attempt: fewer than three attempts were made, and all of them raised;
- when deciding: one to three attempts were made, and all but the last raised;
- once returned: the caller holds the last outcome, and holds an error only after three attempts.

`IInvInit` and `IInvStep` prove the invariant initial and inductive. The step proof has one case per action, and under it one case for the acting caller and one for the others. Three lemmas carry the parts that need care:

- `AnswerStep`: a delivered or lost reply appends one well-typed outcome.
- `AttemptStep`: what one attempt changes.
- `StopBound`: tenacity raises only when the stop condition fired.

The arithmetic on `Len` is done on a hidden name (`DEFINE n == Len(s)` then `HIDE`), because the SMT backend does not relate `Len` of a typed sequence to integer bounds directly.

TLC checks on small instances what is not proved:
- the violation runs;
- any liveness property (TLAPS cannot reason about `ENABLED` or fairness);
- what recursive operators compute over all inputs.

`AsyncBridgeProofs` proves, for every value of the constants allowed by `BridgeAssumption`:

- `BridgeTypeCorrect`: `Spec => []TypeOK`.
- `LoopsReleased`: `Spec => []NoLeakedLoops`.

`NoLeakedLoops` is not inductive on its own. `Join` sets a thread idle without closing anything, so the proof needs to know that a finished worker has already closed its loop. It also needs a thread with no loop yet not to be the witness for an open one. The strengthening is `BInv == TypeOK /\ NoLeakedLoops /\ \A t : ThreadInv(t)`, where `ThreadInv(t)` says:

- a thread has no loop while idle, before its worker or stream body created one, and after `Join` handed a `RuntimeError` to `asyncio.run`;
- a finished worker's loop is closed;
- the worker exists exactly while the caller joins;
- only a `get_stream` call is at a stream point or has an open body;
- a coroutine with a request or stream open holds a pool slot.

There is one lemma per action (`InvokeBInv` ... `AbandonBInv`), each proving the three conjuncts. Three helper lemmas carry the typing:

- `SendOutcomesType`: a request's outcomes are among `Results`.
- `OpenConnLoop`: an open connection names an SDK loop.
- `ReleasedType`: a released slot is well formed.

`CallsReturn` is a liveness property and stays with TLC.

`GrpcClientProofs` proves, for every value of the constants allowed by `GrpcAssumption`:

- `GrpcTypeCorrect`: `Spec => []TypeOK`.

`TypeOK` is not inductive: `Receive` appends a message's data to `got[c]`, and nothing in `TypeOK` stops `got[c]` from growing past `MaxLen`. The inductive invariant `IInv` adds that what a caller has received plus what its stream still holds is at most `MaxLen`, `Len(got[c]) + Len(rest[c]) <= MaxLen`. This holds because a receive moves one chunk from `rest[c]` to `got[c]`, and a stream opens on an object of at most `MaxLen` chunks. The proof has one lemma per action. Two lemmas carry the sequence facts:

- `SeqOfMember`: `SeqOf(S, n)` is the set of sequences over `S` of length at most `n`.
- `ClearBound`: clearing a caller's `got` keeps the bound.

The arithmetic on lengths of primed functions is done on hidden names, as in `RestClientProofs`.

`GrpcContractProofs` proves, for every value of the constants allowed by `GrpcAssumption`:

- `GrpcRefinesContract`: `Spec => ImplementsContract`. `GrpcClient` implements `ObjectStoreContract` under the mapping of §2.

The proof follows the usual refinement layout:

1. `Spec => [](IInv /\ StreamInv)`.
2. `InitRefines`: `Init` maps to `Contract!Init`.
3. `StepRefines`: a step of `Next` from a state satisfying both invariants maps to a `Contract!Next` step or to a stutter of the contract's variables.
4. The final step combines them with PTL.

The invariant the step needs is `StreamInv`: for an open call, `snap[c] = got[c] \o rest[c]`. In words, what the caller has been handed, followed by what its stream still holds, is exactly the object the stream opened on. Without it, `Finish` (the stream ends, `rest[c] = <<>>`) could not be shown to be `Complete`, which requires `seen = src`. Likewise `Receive` could not be shown to be `Deliver`, which requires the next chunk to be `src[Len(seen) + 1]`. `StreamInv` is preserved because a receive moves the head of `rest[c]` to the end of `got[c]` (lemma `MoveHead`, from associativity of `\o`), and because each other action either leaves the caller's three sequences alone or ends its call.

`StepRefines` has one lemma per action: `PutIsWrite`, `DeleteIsErase`, `QueryIsInspect`, `OpenGetIsOpen`, `ReceiveIsDeliver`, `StreamFailsIsStop`, `AbandonIsStop`, `FinishIsComplete` and `CloseIsInspect`. It rests on three lemmas about the mapping:

- `OutcomeValues`: what `Outcome` gives for each kind of ending, and that every class `_handle_grpc_error` raises maps to `error`.
- `ObjectsAreContents`: the adapter's objects are the contract's contents.
- `DownloadEnds`: ending a call closes exactly that caller's download.

An earlier version of the model streamed messages whose data field could be empty, and mapped objects through the concatenation of their chunks with `FlattenSeq`, a recursive function. What that computes for every input needs induction over sequences, which the installed provers cannot do, so the refinement was then only model-checked. Receiving an empty message changes nothing a caller sees (see §2), so the model now streams the chunks themselves. This made the mapping the identity on objects and the refinement provable. The mutant `ReceiveOverwrites` still breaks the refinement under TLC.

## 5. Not modelled (yet)

- The exponential wait: it is only time.
- URL construction, headers and JSON bodies: data layout.
- Logging.
- REST `get_stream` (a generator under `@retry`: the decorator wraps only the creation of the generator, so no streamed request is ever retried), the lifecycle-policy and replication methods and `close`. The policy methods have the same decorator and `_handle_error` shape as the modelled ones, but the server's policy state is not described by the specification.
- The gRPC adapter's metadata (`get` keeps the last copy a message bears, §4.2 says the first): it is abstracted away, and the two differ only when the server sends two different copies.
- The gRPC server's answers are modelled from the specification; no server code is in the repository.
- A unary gRPC call is one atomic step, so another thread's `close()` cancelling a unary call in flight is not modelled; only streams are cancelled part way.
- In `AsyncBridge` a full pool fails at once, where httpx fails after its pool timeout. A request that fails with a timeout or a connect error gives its connection back idle. No property depends on either.
- The QUIC adapter's per-method status handling: the same `_handle_error` pattern as REST, abstracted in `AsyncBridge` to a taxonomy error.
- `asyncio.set_event_loop(loop)` in `get_stream` leaves the caller's thread with a closed loop as its current loop. No property is about it.
- Whether tearing down a stale connection in `close()` raises: `CloseClient` allows either outcome, because it depends on the asyncio transport.
- The server's storage engine and its lifecycle and replication logic: out of the SDK.
