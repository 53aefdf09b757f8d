---------------------------- MODULE AsyncBridge ----------------------------
(***************************************************************************)
(* The façade's bridge from synchronous calls to the QUIC adapter's        *)
(* coroutines (client.py: ObjectStoreClient._run_async, get_stream and     *)
(* close) together with the one httpx.AsyncClient that every coroutine     *)
(* shares (quic_client.py).  Each caller thread makes one call at a time.  *)
(*                                                                         *)
(* The data is abstracted away: a call is "unary" (put, get, delete, ...   *)
(* all go through _run_async the same way), "stream" (get_stream) or       *)
(* "close".  What is kept is the control: which event loop drives a        *)
(* coroutine, on which thread, when a loop is created and closed, which    *)
(* pooled connection a request uses and which loop that connection was     *)
(* opened on, and what the caller finally gets back.                       *)
(***************************************************************************)
EXTENDS Naturals, FiniteSets

CONSTANTS
    Threads,    \* caller threads sharing one ObjectStoreClient
    LoopIds,    \* event loops the SDK creates; an id is reused once nothing refers to it
    Slots,      \* connection slots of the AsyncClient's pool
    Contexts,   \* "sync": no loop runs on the caller's thread; "async": one does
    Kinds,      \* "unary", "stream", "close"
    StreamLen,  \* chunks of a streamed object
    NoLoop, NoSlot

\* An idle caller never needs to wait for a loop id: at most one id per slot
\* and per other thread is referenced.
ASSUME BridgeAssumption ==
    /\ Contexts \subseteq {"sync", "async"} /\ Contexts # {}
    /\ Kinds \subseteq {"unary", "stream", "close"} /\ Kinds # {}
    /\ StreamLen \in Nat \ {0}
    /\ NoLoop \notin LoopIds /\ NoSlot \notin Slots
    /\ Cardinality(LoopIds) >= Cardinality(Slots) + Cardinality(Threads)

VARIABLES
    pc,         \* caller thread: idle, run (in asyncio.run), join (in thread.join),
                \* stream (holds the get_stream generator), pull (in run_until_complete)
    ctx,        \* whether the caller's thread runs an event loop during the call
    kind,       \* the call being made
    drive,      \* the SDK loop driving the call's coroutine
    worker,     \* the offload thread of _run_async
    co,         \* the coroutine: start, req (request on a connection), body (stream open), done
    pos,        \* chunks a stream has yielded
    holds,      \* the pool slot the coroutine uses
    out,        \* what the coroutine returned or raised (the worker's result/exception)
    ret,        \* what the façade call returned or raised to the caller
    loopSt,     \* free, open or closed, per SDK loop
    conn,       \* the pool: per slot its state and the loop it was opened on
    clientOpen  \* the AsyncClient has not been aclose()d

vars == <<pc, ctx, kind, drive, worker, co, pos, holds, out, ret, loopSt, conn, clientOpen>>

\* Outcomes: a value, an SDK taxonomy error (mapped status, TimeoutError from a
\* read or pool timeout, ConnectionError), an httpx error the adapter does not
\* catch, a RuntimeError from the loop machinery, and the RuntimeError of
\* driving a loop on a thread whose loop runs.
Results == {"ok", "TaxonomyError", "HttpxError", "RuntimeError", "NestedRunError"}
NoneYet == "none"

Init ==
    /\ pc = [t \in Threads |-> "idle"]
    /\ ctx = [t \in Threads |-> "sync"]
    /\ kind = [t \in Threads |-> "unary"]
    /\ drive = [t \in Threads |-> NoLoop]
    /\ worker = [t \in Threads |-> "none"]
    /\ co = [t \in Threads |-> "done"]
    /\ pos = [t \in Threads |-> 0]
    /\ holds = [t \in Threads |-> NoSlot]
    /\ out = [t \in Threads |-> NoneYet]
    /\ ret = [t \in Threads |-> NoneYet]
    /\ loopSt = [l \in LoopIds |-> "free"]
    /\ conn = [s \in Slots |-> [st |-> "none", loop |-> NoLoop]]
    /\ clientOpen = TRUE

(***************************************************************************)
(* asyncio.new_event_loop(): a loop object no connection or call refers to. *)
(***************************************************************************)
FreeLoops ==
    {l \in LoopIds : /\ loopSt[l] # "open"
                     /\ \A s \in Slots : conn[s].st = "none" \/ conn[s].loop # l
                     /\ \A u \in Threads : drive[u] # l}

OpenLoop(t, l) ==
    /\ drive' = [drive EXCEPT ![t] = l]
    /\ loopSt' = [loopSt EXCEPT ![l] = "open"]

CloseLoop(t) == loopSt' = [loopSt EXCEPT ![drive[t]] = "closed"]

\* The coroutine of t can make progress: its loop is being run, by the caller
\* thread itself (asyncio.run, run_until_complete) or by the worker.
LoopRuns(t) ==
    /\ drive[t] # NoLoop
    /\ \/ pc[t] = "run" /\ ctx[t] = "sync"
       \/ pc[t] = "pull" /\ ctx[t] = "sync"
       \/ pc[t] = "join" /\ worker[t] = "running"

(***************************************************************************)
(* A façade call.  A unary or close call enters _run_async: when a loop    *)
(* runs on the thread, get_running_loop() succeeds and a worker thread is  *)
(* started and joined; otherwise it raises RuntimeError and asyncio.run    *)
(* creates a loop and runs the coroutine on it (self._event_loop is never  *)
(* assigned, so the reuse branch is dead).  A get_stream call only creates *)
(* the generator: its body starts at the first next().                     *)
(***************************************************************************)
Invoke(t) ==
    /\ pc[t] = "idle"
    /\ \E k \in Kinds, c \in Contexts :
        /\ kind' = [kind EXCEPT ![t] = k]
        /\ ctx' = [ctx EXCEPT ![t] = c]
        /\ co' = [co EXCEPT ![t] = "start"]
        /\ out' = [out EXCEPT ![t] = NoneYet]
        /\ pos' = [pos EXCEPT ![t] = 0]
        /\ \/ /\ k = "stream"
              /\ pc' = [pc EXCEPT ![t] = "stream"]
              /\ UNCHANGED <<drive, loopSt, worker>>
           \/ /\ k # "stream" /\ c = "async"
              /\ pc' = [pc EXCEPT ![t] = "join"]
              /\ worker' = [worker EXCEPT ![t] = "started"]
              /\ UNCHANGED <<drive, loopSt>>
           \/ /\ k # "stream" /\ c = "sync"
              /\ pc' = [pc EXCEPT ![t] = "run"]
              /\ \E l \in FreeLoops : OpenLoop(t, l)
              /\ UNCHANGED worker
    /\ UNCHANGED <<holds, ret, conn, clientOpen>>

\* A worker that hands the coroutine to the caller's own loop
\* (run_coroutine_threadsafe) can only run it once the caller stops blocking.
WorkerBeginOnCallerLoop(t) ==
    /\ worker[t] = "started" /\ pc[t] # "join"
    /\ worker' = [worker EXCEPT ![t] = "running"]
    /\ \E l \in FreeLoops : OpenLoop(t, l)
    /\ UNCHANGED <<pc, ctx, kind, co, pos, holds, out, ret, conn, clientOpen>>

\* run_in_thread: new_event_loop(), set_event_loop(), run_until_complete(coro).
WorkerBegin(t) ==
    /\ worker[t] = "started"
    /\ worker' = [worker EXCEPT ![t] = "running"]
    /\ \E l \in FreeLoops : OpenLoop(t, l)
    /\ UNCHANGED <<pc, ctx, kind, co, pos, holds, out, ret, conn, clientOpen>>

(***************************************************************************)
(* The coroutine's request through the shared AsyncClient.  httpx takes an *)
(* idle pooled connection when there is one, whatever loop it was opened   *)
(* on; otherwise it opens one on the running loop in a free slot; with no  *)
(* slot left the pool times out (httpx.PoolTimeout, a TimeoutException, so *)
(* the adapter raises TimeoutError).  A closed client raises RuntimeError. *)
(***************************************************************************)
IdleSlots == {s \in Slots : conn[s].st = "idle"}
EmptySlots == {s \in Slots : conn[s].st = "none"}
Closed == [st |-> "none", loop |-> NoLoop]

Fail(t, r) ==
    /\ co' = [co EXCEPT ![t] = "done"]
    /\ out' = [out EXCEPT ![t] = r]
    /\ UNCHANGED <<conn, holds>>

Acquire(t) ==
    /\ LoopRuns(t) /\ kind[t] # "close" /\ co[t] = "start"
    /\ \/ ~clientOpen /\ Fail(t, "RuntimeError")
       \/ clientOpen /\ IdleSlots = {} /\ EmptySlots = {} /\ Fail(t, "TaxonomyError")
       \/ /\ clientOpen
          /\ \E s \in IF IdleSlots # {} THEN IdleSlots ELSE EmptySlots :
               /\ conn' = [conn EXCEPT ![s] = [st |-> "busy",
                               loop |-> IF s \in IdleSlots THEN conn[s].loop ELSE drive[t]]]
               /\ holds' = [holds EXCEPT ![t] = s]
               /\ co' = [co EXCEPT ![t] = "req"]
          /\ UNCHANGED out
    /\ UNCHANGED <<pc, ctx, kind, drive, worker, pos, ret, loopSt, clientOpen>>

\* What a request on slot s, made from loop l, comes to.  On its own loop:
\* a value, a mapped status or timeout, or an httpx error the adapter does not
\* catch.  On a connection whose loop was closed, asyncio's transport raises
\* RuntimeError("Event loop is closed").  On another thread's live loop the
\* outcome is undefined.  A connection closed under the request by aclose()
\* fails it.
SendOutcomes(s, l) ==
    IF conn[s].st = "none" THEN {"HttpxError"}
    ELSE IF conn[s].loop = l THEN {"ok", "TaxonomyError", "HttpxError"}
    ELSE IF loopSt[conn[s].loop] = "closed" THEN {"RuntimeError"}
    ELSE {"ok", "RuntimeError", "HttpxError"}

\* Leaving "async with client.stream(...)" or finishing client.get(): the
\* response is closed and the connection returns to the pool, unless the
\* error broke it.
ReleasedKeepsLoop(s, r) ==
    IF r \in {"ok", "TaxonomyError"} /\ conn[s].st # "none"
    THEN [st |-> "idle", loop |-> conn[s].loop] ELSE [st |-> "none", loop |-> conn[s].loop]

Released(s, r) ==
    IF r \in {"ok", "TaxonomyError"} /\ conn[s].st # "none"
    THEN [st |-> "idle", loop |-> conn[s].loop] ELSE Closed

Respond(t) ==
    /\ LoopRuns(t) /\ co[t] = "req"
    /\ \E r \in SendOutcomes(holds[t], drive[t]) :
         IF kind[t] = "stream" /\ r = "ok"
         THEN \* status 200: the generator yields its first chunk to the caller
              /\ co' = [co EXCEPT ![t] = "body"]
              /\ pos' = [pos EXCEPT ![t] = 1]
              /\ pc' = [pc EXCEPT ![t] = "stream"]
              /\ UNCHANGED <<conn, holds, out>>
         ELSE /\ conn' = [conn EXCEPT ![holds[t]] = Released(holds[t], r)]
              /\ holds' = [holds EXCEPT ![t] = NoSlot]
              /\ co' = [co EXCEPT ![t] = "done"]
              /\ out' = [out EXCEPT ![t] = r]
              /\ UNCHANGED <<pc, pos>>
    /\ UNCHANGED <<ctx, kind, drive, worker, ret, loopSt, clientOpen>>

\* One __anext__ of an open stream: the next chunk, the end of aiter_bytes
\* (the response is closed), or a read error inside "async with".
StreamChunk(t) ==
    /\ LoopRuns(t) /\ co[t] = "body"
    /\ \/ /\ pos[t] < StreamLen
          /\ pos' = [pos EXCEPT ![t] = @ + 1]
          /\ pc' = [pc EXCEPT ![t] = "stream"]
          /\ UNCHANGED <<conn, holds, co, out>>
       \/ /\ pos[t] = StreamLen
          /\ conn' = [conn EXCEPT ![holds[t]] = Released(holds[t], "ok")]
          /\ holds' = [holds EXCEPT ![t] = NoSlot]
          /\ co' = [co EXCEPT ![t] = "done"]
          /\ out' = [out EXCEPT ![t] = "ok"]
          /\ UNCHANGED <<pc, pos>>
       \/ /\ \E r \in {"TaxonomyError", "HttpxError"} : out' = [out EXCEPT ![t] = r]
          /\ conn' = [conn EXCEPT ![holds[t]] = Closed]
          /\ holds' = [holds EXCEPT ![t] = NoSlot]
          /\ co' = [co EXCEPT ![t] = "done"]
          /\ UNCHANGED <<pc, pos>>
    /\ UNCHANGED <<ctx, kind, drive, worker, ret, loopSt, clientOpen>>

\* QuicClient.close(): AsyncClient.aclose() closes every pooled connection,
\* in use or not; a second aclose() does nothing.  Closing the transport of a
\* connection whose loop is not the running one may raise RuntimeError.
CloseClient(t) ==
    /\ LoopRuns(t) /\ kind[t] = "close" /\ co[t] = "start"
    /\ \E r \in IF clientOpen /\ \E s \in Slots : conn[s].st # "none" /\ conn[s].loop # drive[t]
                THEN {"ok", "RuntimeError"} ELSE {"ok"} :
         out' = [out EXCEPT ![t] = r]
    /\ conn' = [s \in Slots |-> Closed]
    /\ clientOpen' = FALSE
    /\ co' = [co EXCEPT ![t] = "done"]
    /\ UNCHANGED <<pc, ctx, kind, drive, worker, pos, holds, ret, loopSt>>

(***************************************************************************)
(* How a call ends.                                                        *)
(***************************************************************************)

\* asyncio.run returns: it closes its loop, then returns or raises the outcome.
RunEndNoClose(t) ==
    /\ pc[t] = "run" /\ ctx[t] = "sync" /\ co[t] = "done"
    /\ ret' = [ret EXCEPT ![t] = out[t]]
    /\ pc' = [pc EXCEPT ![t] = "idle"]
    /\ drive' = [drive EXCEPT ![t] = NoLoop]
    /\ UNCHANGED <<ctx, kind, worker, co, pos, holds, out, loopSt, conn, clientOpen>>

RunEnd(t) ==
    /\ pc[t] = "run" /\ ctx[t] = "sync" /\ co[t] = "done"
    /\ CloseLoop(t)
    /\ ret' = [ret EXCEPT ![t] = out[t]]
    /\ pc' = [pc EXCEPT ![t] = "idle"]
    /\ drive' = [drive EXCEPT ![t] = NoLoop]
    /\ UNCHANGED <<ctx, kind, worker, co, pos, holds, out, conn, clientOpen>>

\* run_in_thread ends: "except Exception" stores what the coroutine raised
\* (every outcome here is an Exception), and "finally" closes new_loop.
WorkerEnd(t) ==
    /\ worker[t] = "running" /\ co[t] = "done"
    /\ worker' = [worker EXCEPT ![t] = "done"]
    /\ CloseLoop(t)
    /\ UNCHANGED <<pc, ctx, kind, drive, co, pos, holds, out, ret, conn, clientOpen>>

\* thread.join() returns.  "raise exception" sits inside the try whose
\* "except RuntimeError" is meant for get_running_loop(): a RuntimeError the
\* coroutine raised lands there, and the handler calls asyncio.run(coro) on
\* the thread whose loop is running.
Join(t) ==
    /\ pc[t] = "join" /\ worker[t] = "done"
    /\ worker' = [worker EXCEPT ![t] = "none"]
    /\ drive' = [drive EXCEPT ![t] = NoLoop]
    /\ IF out[t] = "RuntimeError"
       THEN /\ pc' = [pc EXCEPT ![t] = "run"]
            /\ UNCHANGED ret
       ELSE /\ pc' = [pc EXCEPT ![t] = "idle"]
            /\ ret' = [ret EXCEPT ![t] = out[t]]
    /\ UNCHANGED <<ctx, kind, co, pos, holds, out, loopSt, conn, clientOpen>>

\* asyncio.run() and run_until_complete() on a thread whose loop is running
\* raise RuntimeError at once; for get_stream, "finally" closes its loop.
Refused(t) ==
    /\ pc[t] \in {"run", "pull"} /\ ctx[t] = "async"
    /\ ret' = [ret EXCEPT ![t] = "NestedRunError"]
    /\ pc' = [pc EXCEPT ![t] = "idle"]
    /\ IF pc[t] = "pull" THEN CloseLoop(t) ELSE UNCHANGED loopSt
    /\ drive' = [drive EXCEPT ![t] = NoLoop]
    /\ co' = [co EXCEPT ![t] = "done"]
    /\ UNCHANGED <<ctx, kind, worker, pos, holds, out, conn, clientOpen>>

(***************************************************************************)
(* ObjectStoreClient.get_stream for QUIC.  The caller's next() runs the    *)
(* generator body: on the first one it creates and sets a new loop, then   *)
(* each next() is loop.run_until_complete(async_gen.__anext__()).          *)
(***************************************************************************)
Pull(t) ==
    /\ pc[t] = "stream" /\ co[t] \in {"start", "body"}
    /\ pc' = [pc EXCEPT ![t] = "pull"]
    /\ IF co[t] = "start"
       THEN \E l \in FreeLoops : OpenLoop(t, l)
       ELSE UNCHANGED <<drive, loopSt>>
    /\ UNCHANGED <<ctx, kind, worker, co, pos, holds, out, ret, conn, clientOpen>>

\* StopAsyncIteration breaks the loop, an exception propagates; "finally"
\* closes the loop either way.
StreamEnd(t) ==
    /\ pc[t] = "pull" /\ ctx[t] = "sync" /\ co[t] = "done"
    /\ CloseLoop(t)
    /\ ret' = [ret EXCEPT ![t] = out[t]]
    /\ pc' = [pc EXCEPT ![t] = "idle"]
    /\ drive' = [drive EXCEPT ![t] = NoLoop]
    /\ UNCHANGED <<ctx, kind, worker, co, pos, holds, out, conn, clientOpen>>

\* The caller stops iterating.  Before the first next() the body never ran.
\* Mid-stream, GeneratorExit at the yield runs "finally: loop.close()"; the
\* async generators are never closed, so "async with client.stream" is never
\* left and the response keeps its connection.
Abandon(t) ==
    /\ pc[t] = "stream"
    /\ pc' = [pc EXCEPT ![t] = "idle"]
    /\ ret' = [ret EXCEPT ![t] = "ok"]
    /\ co' = [co EXCEPT ![t] = "done"]
    /\ IF co[t] = "body" THEN CloseLoop(t) ELSE UNCHANGED loopSt
    /\ drive' = [drive EXCEPT ![t] = NoLoop]
    /\ holds' = [holds EXCEPT ![t] = NoSlot]
    /\ UNCHANGED <<ctx, kind, worker, pos, out, conn, clientOpen>>

\* The steps the SDK takes on its own once a call is made; the caller's own
\* steps are Invoke, Pull and Abandon.
SDKStep(t) ==
    \/ WorkerBegin(t) \/ Acquire(t) \/ Respond(t) \/ StreamChunk(t)
    \/ CloseClient(t) \/ RunEnd(t) \/ WorkerEnd(t) \/ Join(t)
    \/ Refused(t) \/ StreamEnd(t)

Next == \E t \in Threads : Invoke(t) \/ Pull(t) \/ Abandon(t) \/ SDKStep(t)

\* Threads are scheduled by the OS and each loop runs only this coroutine,
\* so a step the SDK can keep taking is eventually taken.
Spec == Init /\ [][Next]_vars /\ \A t \in Threads : WF_vars(SDKStep(t))

-----------------------------------------------------------------------------
(***************************************************************************)
(* Properties                                                              *)
(***************************************************************************)

\* Every variable holds a value of its kind; a pooled connection that is
\* open was opened on some SDK loop.
TypeOK ==
    /\ pc \in [Threads -> {"idle", "run", "join", "stream", "pull"}]
    /\ ctx \in [Threads -> Contexts \cup {"sync"}]
    /\ kind \in [Threads -> Kinds \cup {"unary"}]
    /\ drive \in [Threads -> LoopIds \cup {NoLoop}]
    /\ worker \in [Threads -> {"none", "started", "running", "done"}]
    /\ co \in [Threads -> {"start", "req", "body", "done"}]
    /\ pos \in [Threads -> 0..StreamLen]
    /\ holds \in [Threads -> Slots \cup {NoSlot}]
    /\ out \in [Threads -> Results \cup {NoneYet}]
    /\ ret \in [Threads -> Results \cup {NoneYet}]
    /\ loopSt \in [LoopIds -> {"free", "open", "closed"}]
    /\ conn \in [Slots -> {Closed} \cup [st : {"idle", "busy"}, loop : LoopIds]]
    /\ clientOpen \in BOOLEAN

\* The event loops the SDK creates (asyncio.run's, the worker's, get_stream's)
\* are open only while the call that created them is under way: no façade call
\* leaves a loop behind (specification §4.3, §5).
NoLeakedLoops ==
    \A l \in LoopIds : loopSt[l] = "open" => \E t \in Threads : drive[t] = l /\ pc[t] # "idle"

\* A thread whose own event loop is running never tries to drive a second
\* loop itself (specification §4.3): _run_async offloads such calls to a worker,
\* and get_stream's run_until_complete must not run there.
NoNestedDrive ==
    \A t \in Threads : ctx[t] = "async" => pc[t] \notin {"run", "pull"}

\* A request is only ever sent on a connection opened on the loop that drives
\* it: the shared AsyncClient never hands a coroutine a connection of a closed
\* loop or of another thread's loop.
NoStaleLoopUse ==
    \A t \in Threads :
        (co[t] \in {"req", "body"} /\ conn[holds[t]].st # "none") => conn[holds[t]].loop = drive[t]

\* Every busy pooled connection belongs to a call still under way: an
\* abandoned get_stream gives its connection back to the pool.
StreamReleased ==
    \A s \in Slots : conn[s].st = "busy" => \E t \in Threads : holds[t] = s

\* A call into the SDK (asyncio.run, the joined worker, a next() of a stream)
\* always hands control back to the caller.
CallsReturn ==
    \A t \in Threads : pc[t] \in {"run", "join", "pull"} ~> pc[t] \in {"idle", "stream"}

=============================================================================
