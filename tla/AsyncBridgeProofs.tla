------------------------- MODULE AsyncBridgeProofs -------------------------
(***************************************************************************)
(* TLAPS proofs for AsyncBridge: every step keeps the state well typed,    *)
(* and no event loop the SDK opens outlives the call that opened it.       *)
(***************************************************************************)
EXTENDS AsyncBridge, TLAPS

(***************************************************************************)
(* Where a thread's loop reference stands at each point of a call.  A      *)
(* thread has no loop while idle, before its worker or stream body has     *)
(* created one, and after Join handed a RuntimeError to asyncio.run; a     *)
(* finished worker has closed its loop; the worker exists exactly while    *)
(* the caller is joining; a held stream is either unstarted or open, and  *)
(* only a get_stream call is ever at a stream point or has an open body.   *)
(***************************************************************************)
ThreadInv(t) ==
    /\ (\/ pc[t] = "idle"
        \/ pc[t] = "stream" /\ co[t] = "start"
        \/ worker[t] = "started"
        \/ pc[t] = "run" /\ ctx[t] = "async") => drive[t] = NoLoop
    /\ worker[t] = "done" => drive[t] = NoLoop \/ loopSt[drive[t]] = "closed"
    /\ (worker[t] # "none") <=> (pc[t] = "join")
    /\ pc[t] = "stream" => co[t] \in {"start", "body"}
    /\ pc[t] \in {"run", "join"} => kind[t] # "stream"
    /\ pc[t] \in {"stream", "pull"} => kind[t] = "stream"
    /\ co[t] = "body" => pc[t] \in {"stream", "pull"}
    /\ co[t] \in {"req", "body"} => holds[t] \in Slots

BInv == TypeOK /\ NoLeakedLoops /\ \A t \in Threads : ThreadInv(t)


(***************************************************************************)
(* Facts about the helpers the actions are built from.                     *)
(***************************************************************************)
\* The values a pool slot can hold.
ConnVals == {Closed} \cup [st : {"idle", "busy"}, loop : LoopIds]

\* A request's outcome is always one of the modelled outcomes.
LEMMA SendOutcomesType ==
    ASSUME NEW s, NEW l
    PROVE  SendOutcomes(s, l) \subseteq Results
BY DEF SendOutcomes, Results

\* An open pooled connection was opened on an SDK loop.
LEMMA OpenConnLoop ==
    ASSUME TypeOK, NEW s \in Slots, conn[s].st # "none"
    PROVE  conn[s].loop \in LoopIds
BY DEF TypeOK, Closed

\* Releasing a connection leaves a well-formed slot.
LEMMA ReleasedType ==
    ASSUME TypeOK, NEW s \in Slots, NEW r
    PROVE  Released(s, r) \in ConnVals
<1>1. CASE r \in {"ok", "TaxonomyError"} /\ conn[s].st # "none"
  BY <1>1, OpenConnLoop DEF Released, ConnVals
<1>2. CASE ~(r \in {"ok", "TaxonomyError"} /\ conn[s].st # "none")
  BY <1>2 DEF Released, ConnVals
<1>3. QED  BY <1>1, <1>2

\* The initial state: nothing is open, no thread has a loop.
LEMMA InitBInv == Init => BInv
BY BridgeAssumption DEF Init, BInv, TypeOK, NoLeakedLoops, ThreadInv, Closed, NoneYet, Results

\* Invoke keeps the invariant.
LEMMA InvokeBInv ==
    ASSUME BInv, NEW t \in Threads, Invoke(t)
    PROVE  BInv'
<1> USE BridgeAssumption
<1>1. TypeOK'
  BY DEF BInv, Invoke, TypeOK, FreeLoops, OpenLoop, NoneYet, Results
<1>2. NoLeakedLoops'
  BY DEF BInv, Invoke, TypeOK, NoLeakedLoops, ThreadInv, FreeLoops, OpenLoop
<1>3. \A u \in Threads : ThreadInv(u)'
  BY DEF BInv, Invoke, TypeOK, ThreadInv, FreeLoops, OpenLoop
<1>4. QED  BY <1>1, <1>2, <1>3 DEF BInv

\* WorkerBegin keeps the invariant.
LEMMA WorkerBeginBInv ==
    ASSUME BInv, NEW t \in Threads, WorkerBegin(t)
    PROVE  BInv'
<1> USE BridgeAssumption
<1>1. TypeOK'
  BY DEF BInv, WorkerBegin, TypeOK, FreeLoops, OpenLoop, NoneYet, Results
<1>2. NoLeakedLoops'
  BY DEF BInv, WorkerBegin, TypeOK, NoLeakedLoops, ThreadInv, FreeLoops, OpenLoop
<1>3. \A u \in Threads : ThreadInv(u)'
  BY DEF BInv, WorkerBegin, TypeOK, ThreadInv, FreeLoops, OpenLoop
<1>4. QED  BY <1>1, <1>2, <1>3 DEF BInv

\* Acquire keeps the invariant.
LEMMA AcquireBInv ==
    ASSUME BInv, NEW t \in Threads, Acquire(t)
    PROVE  BInv'
<1> USE BridgeAssumption
<1>1. TypeOK'
  <2>1. drive[t] \in LoopIds  BY DEF BInv, TypeOK, Acquire, LoopRuns
  <2>2. conn \in [Slots -> ConnVals]  BY DEF BInv, TypeOK, ConnVals
  <2>3. CASE ~clientOpen
    BY <2>3 DEF BInv, Acquire, TypeOK, Fail, Results
  <2>4. CASE clientOpen /\ IdleSlots = {} /\ EmptySlots = {}
    BY <2>4 DEF BInv, Acquire, TypeOK, Fail, Results
  <2>5. CASE clientOpen /\ ~(IdleSlots = {} /\ EmptySlots = {})
    <3>1. PICK s \in IF IdleSlots # {} THEN IdleSlots ELSE EmptySlots :
               /\ conn' = [conn EXCEPT ![s] = [st |-> "busy",
                               loop |-> IF s \in IdleSlots THEN conn[s].loop ELSE drive[t]]]
               /\ holds' = [holds EXCEPT ![t] = s]
               /\ co' = [co EXCEPT ![t] = "req"]
      BY <2>5 DEF Acquire, Fail
    <3>2. s \in Slots  BY DEF IdleSlots, EmptySlots
    <3>3. s \in IdleSlots => conn[s].loop \in LoopIds
      BY <3>2, OpenConnLoop DEF BInv, IdleSlots
    <3>4. [st |-> "busy", loop |-> IF s \in IdleSlots THEN conn[s].loop ELSE drive[t]] \in ConnVals
      BY <2>1, <3>3 DEF ConnVals
    <3>5. conn' \in [Slots -> ConnVals]  BY <2>2, <3>1, <3>2, <3>4
    <3>6. QED  BY <2>5, <3>1, <3>2, <3>5 DEF BInv, Acquire, TypeOK, ConnVals
  <2>6. QED  BY <2>3, <2>4, <2>5
<1>2. NoLeakedLoops'
  BY DEF BInv, Acquire, TypeOK, NoLeakedLoops, ThreadInv, LoopRuns, Fail, IdleSlots, EmptySlots
<1>3. \A u \in Threads : ThreadInv(u)'
  BY DEF BInv, Acquire, TypeOK, ThreadInv, LoopRuns, Fail, IdleSlots, EmptySlots
<1>4. QED  BY <1>1, <1>2, <1>3 DEF BInv

\* Respond keeps the invariant.
LEMMA RespondBInv ==
    ASSUME BInv, NEW t \in Threads, Respond(t)
    PROVE  BInv'
<1> USE BridgeAssumption
<1>1. TypeOK'
  <2>1. holds[t] \in Slots  BY DEF BInv, ThreadInv, Respond
  <2>2. conn \in [Slots -> ConnVals]  BY DEF BInv, TypeOK, ConnVals
  <2>3. PICK r \in SendOutcomes(holds[t], drive[t]) :
         IF kind[t] = "stream" /\ r = "ok"
         THEN /\ co' = [co EXCEPT ![t] = "body"]
              /\ pos' = [pos EXCEPT ![t] = 1]
              /\ pc' = [pc EXCEPT ![t] = "stream"]
              /\ UNCHANGED <<conn, holds, out>>
         ELSE /\ conn' = [conn EXCEPT ![holds[t]] = Released(holds[t], r)]
              /\ holds' = [holds EXCEPT ![t] = NoSlot]
              /\ co' = [co EXCEPT ![t] = "done"]
              /\ out' = [out EXCEPT ![t] = r]
              /\ UNCHANGED <<pc, pos>>
    BY DEF Respond
  <2>4. r \in Results  BY <2>3, SendOutcomesType
  <2>5. CASE kind[t] = "stream" /\ r = "ok"
    BY <2>3, <2>5 DEF BInv, Respond, TypeOK
  <2>6. CASE ~(kind[t] = "stream" /\ r = "ok")
    <3>1. Released(holds[t], r) \in ConnVals  BY <2>1, ReleasedType DEF BInv
    <3>2. conn' \in [Slots -> ConnVals]  BY <2>1, <2>2, <2>3, <2>6, <3>1
    <3>3. QED  BY <2>3, <2>4, <2>6, <3>2 DEF BInv, Respond, TypeOK, ConnVals
  <2>7. QED  BY <2>5, <2>6
<1>2. NoLeakedLoops'
  BY DEF BInv, Respond, TypeOK, NoLeakedLoops, ThreadInv, LoopRuns, SendOutcomes, Released, Closed
<1>3. \A u \in Threads : ThreadInv(u)'
  BY DEF BInv, Respond, TypeOK, ThreadInv, LoopRuns, SendOutcomes, Released, Closed
<1>4. QED  BY <1>1, <1>2, <1>3 DEF BInv

\* StreamChunk keeps the invariant.
LEMMA StreamChunkBInv ==
    ASSUME BInv, NEW t \in Threads, StreamChunk(t)
    PROVE  BInv'
<1> USE BridgeAssumption
<1>1. TypeOK'
  BY DEF BInv, StreamChunk, TypeOK, LoopRuns, Released, Closed, NoneYet, Results
<1>2. NoLeakedLoops'
  BY DEF BInv, StreamChunk, TypeOK, NoLeakedLoops, ThreadInv, LoopRuns, Released, Closed
<1>3. \A u \in Threads : ThreadInv(u)'
  BY DEF BInv, StreamChunk, TypeOK, ThreadInv, LoopRuns, Released, Closed
<1>4. QED  BY <1>1, <1>2, <1>3 DEF BInv

\* CloseClient keeps the invariant.
LEMMA CloseClientBInv ==
    ASSUME BInv, NEW t \in Threads, CloseClient(t)
    PROVE  BInv'
<1> USE BridgeAssumption
<1>1. TypeOK'
  <2>1. PICK r \in IF clientOpen /\ \E s \in Slots : conn[s].st # "none" /\ conn[s].loop # drive[t]
                   THEN {"ok", "RuntimeError"} ELSE {"ok"} :
           out' = [out EXCEPT ![t] = r]
    BY DEF CloseClient
  <2>2. r \in Results  BY <2>1 DEF Results
  <2>3. conn' \in [Slots -> ConnVals]  BY DEF CloseClient, ConnVals
  <2>4. QED  BY <2>1, <2>2, <2>3 DEF BInv, CloseClient, TypeOK, ConnVals
<1>2. NoLeakedLoops'
  BY DEF BInv, CloseClient, TypeOK, NoLeakedLoops, ThreadInv, LoopRuns, Closed
<1>3. \A u \in Threads : ThreadInv(u)'
  BY DEF BInv, CloseClient, TypeOK, ThreadInv, LoopRuns, Closed
<1>4. QED  BY <1>1, <1>2, <1>3 DEF BInv

\* RunEnd keeps the invariant.
LEMMA RunEndBInv ==
    ASSUME BInv, NEW t \in Threads, RunEnd(t)
    PROVE  BInv'
<1> USE BridgeAssumption
<1>1. TypeOK'
  BY DEF BInv, RunEnd, TypeOK, CloseLoop, NoneYet, Results
<1>2. NoLeakedLoops'
  BY DEF BInv, RunEnd, TypeOK, NoLeakedLoops, ThreadInv, CloseLoop
<1>3. \A u \in Threads : ThreadInv(u)'
  BY DEF BInv, RunEnd, TypeOK, ThreadInv, CloseLoop
<1>4. QED  BY <1>1, <1>2, <1>3 DEF BInv

\* WorkerEnd keeps the invariant.
LEMMA WorkerEndBInv ==
    ASSUME BInv, NEW t \in Threads, WorkerEnd(t)
    PROVE  BInv'
<1> USE BridgeAssumption
<1>1. TypeOK'
  BY DEF BInv, WorkerEnd, TypeOK, CloseLoop, NoneYet, Results
<1>2. NoLeakedLoops'
  BY DEF BInv, WorkerEnd, TypeOK, NoLeakedLoops, ThreadInv, CloseLoop
<1>3. \A u \in Threads : ThreadInv(u)'
  BY DEF BInv, WorkerEnd, TypeOK, ThreadInv, CloseLoop
<1>4. QED  BY <1>1, <1>2, <1>3 DEF BInv

\* Join keeps the invariant.
LEMMA JoinBInv ==
    ASSUME BInv, NEW t \in Threads, Join(t)
    PROVE  BInv'
<1> USE BridgeAssumption
<1>1. TypeOK'
  BY DEF BInv, Join, TypeOK, NoneYet, Results
<1>2. NoLeakedLoops'
  BY DEF BInv, Join, TypeOK, NoLeakedLoops, ThreadInv
<1>3. \A u \in Threads : ThreadInv(u)'
  BY DEF BInv, Join, TypeOK, ThreadInv
<1>4. QED  BY <1>1, <1>2, <1>3 DEF BInv

\* Refused keeps the invariant.
LEMMA RefusedBInv ==
    ASSUME BInv, NEW t \in Threads, Refused(t)
    PROVE  BInv'
<1> USE BridgeAssumption
<1>1. TypeOK'
  BY DEF BInv, Refused, TypeOK, CloseLoop, NoneYet, Results
<1>2. NoLeakedLoops'
  BY DEF BInv, Refused, TypeOK, NoLeakedLoops, ThreadInv, CloseLoop
<1>3. \A u \in Threads : ThreadInv(u)'
  BY DEF BInv, Refused, TypeOK, ThreadInv, CloseLoop
<1>4. QED  BY <1>1, <1>2, <1>3 DEF BInv

\* Pull keeps the invariant.
LEMMA PullBInv ==
    ASSUME BInv, NEW t \in Threads, Pull(t)
    PROVE  BInv'
<1> USE BridgeAssumption
<1>1. TypeOK'
  BY DEF BInv, Pull, TypeOK, FreeLoops, OpenLoop, NoneYet, Results
<1>2. NoLeakedLoops'
  BY DEF BInv, Pull, TypeOK, NoLeakedLoops, ThreadInv, FreeLoops, OpenLoop
<1>3. \A u \in Threads : ThreadInv(u)'
  BY DEF BInv, Pull, TypeOK, ThreadInv, FreeLoops, OpenLoop
<1>4. QED  BY <1>1, <1>2, <1>3 DEF BInv

\* StreamEnd keeps the invariant.
LEMMA StreamEndBInv ==
    ASSUME BInv, NEW t \in Threads, StreamEnd(t)
    PROVE  BInv'
<1> USE BridgeAssumption
<1>1. TypeOK'
  BY DEF BInv, StreamEnd, TypeOK, CloseLoop, NoneYet, Results
<1>2. NoLeakedLoops'
  BY DEF BInv, StreamEnd, TypeOK, NoLeakedLoops, ThreadInv, CloseLoop
<1>3. \A u \in Threads : ThreadInv(u)'
  BY DEF BInv, StreamEnd, TypeOK, ThreadInv, CloseLoop
<1>4. QED  BY <1>1, <1>2, <1>3 DEF BInv

\* Abandon keeps the invariant.
LEMMA AbandonBInv ==
    ASSUME BInv, NEW t \in Threads, Abandon(t)
    PROVE  BInv'
<1> USE BridgeAssumption
<1>1. TypeOK'
  BY DEF BInv, Abandon, TypeOK, CloseLoop, NoneYet, Results
<1>2. NoLeakedLoops'
  BY DEF BInv, Abandon, TypeOK, NoLeakedLoops, ThreadInv, CloseLoop
<1>3. \A u \in Threads : ThreadInv(u)'
  BY DEF BInv, Abandon, TypeOK, ThreadInv, CloseLoop
<1>4. QED  BY <1>1, <1>2, <1>3 DEF BInv

\* Every step of the bridge, or a stutter, keeps the invariant.
LEMMA BInvStep == BInv /\ [Next]_vars => BInv'
<1> SUFFICES ASSUME BInv, [Next]_vars PROVE BInv'
  OBVIOUS
<1>1. CASE \E t \in Threads : Invoke(t) \/ Pull(t) \/ Abandon(t) \/ SDKStep(t)
  <2>1. PICK t \in Threads : Invoke(t) \/ Pull(t) \/ Abandon(t) \/ SDKStep(t)
    BY <1>1
  <2>2. QED
    BY <2>1, InvokeBInv, WorkerBeginBInv, AcquireBInv, RespondBInv, StreamChunkBInv, CloseClientBInv, RunEndBInv, WorkerEndBInv, JoinBInv, RefusedBInv, PullBInv, StreamEndBInv, AbandonBInv DEF SDKStep
<1>2. CASE UNCHANGED vars
  BY <1>2 DEF vars, BInv, TypeOK, NoLeakedLoops, ThreadInv
<1>3. QED  BY <1>1, <1>2 DEF Next

(***************************************************************************)
(* The theorems.                                                           *)
(***************************************************************************)

\* Every reachable state of the bridge is well typed: in particular an open
\* pooled connection always names the SDK loop it was opened on, and every
\* outcome a caller gets is one of the modelled ones.
THEOREM BridgeTypeCorrect == Spec => []TypeOK
<1>1. Init => BInv  BY InitBInv
<1>2. BInv /\ [Next]_vars => BInv'  BY BInvStep
<1>3. BInv => TypeOK  BY DEF BInv
<1>4. QED  BY <1>1, <1>2, <1>3, PTL DEF Spec

\* _run_async and get_stream never leave an event loop open once the call
\* that created it has ended: asyncio.run, the worker's finally and
\* get_stream's finally close every loop on every path, abandonment and the
\* misrouted RuntimeError included.
THEOREM LoopsReleased == Spec => []NoLeakedLoops
<1>1. Init => BInv  BY InitBInv
<1>2. BInv /\ [Next]_vars => BInv'  BY BInvStep
<1>3. BInv => NoLeakedLoops  BY DEF BInv
<1>4. QED  BY <1>1, <1>2, <1>3, PTL DEF Spec

=============================================================================
