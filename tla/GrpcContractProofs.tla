------------------------- MODULE GrpcContractProofs -------------------------
(***************************************************************************)
(* The gRPC adapter implements the operation contract: every behaviour of  *)
(* GrpcClient, seen through the refinement mapping of module GrpcClient,   *)
(* is a behaviour of ObjectStoreContract, for every set of callers and     *)
(* chunk values, every object length, fault bound and set of failure       *)
(* codes.                                                                  *)
(***************************************************************************)
EXTENDS GrpcClientProofs

(***************************************************************************)
(* The invariant the refinement rests on.  While a caller's stream is open *)
(* what get has appended, or get_stream has yielded, followed by what the  *)
(* stream still holds is exactly the object the stream opened on.  It is   *)
(* what makes every Receive hand out the next chunk of that object, and a  *)
(* Finish return only once all of it was handed out.                       *)
(***************************************************************************)
StreamInv ==
    \A c \in Callers : pc[c] # "idle" => snap[c] = got[c] \o rest[c]

(* Moving the head of r to the end of g keeps their concatenation.         *)
LEMMA MoveHead ==
    ASSUME NEW S, NEW g \in Seq(S), NEW r \in Seq(S), r # <<>>
    PROVE  Append(g, Head(r)) \o Tail(r) = g \o r
<1>1. /\ Head(r) \in S
      /\ Tail(r) \in Seq(S)
      /\ Len(Tail(r)) = Len(r) - 1
      /\ \A i \in 1 .. Len(Tail(r)) : Tail(r)[i] = r[i + 1]
    BY HeadTailProperties
<1>2. Len(r) \in Nat \ {0} /\ Head(r) = r[1]
    BY LenProperties, EmptySeq
<1> DEFINE h == <<Head(r)>> \o Tail(r)
<1>3. <<Head(r)>> \in Seq(S) /\ Len(<<Head(r)>>) = 1
    BY <1>1, EmptySeq, AppendProperties
<1>4. /\ h \in Seq(S)
      /\ Len(h) = Len(r)
      /\ \A i \in 1 .. Len(r) : h[i] = r[i]
    <2>1. /\ h \in Seq(S)
          /\ Len(h) = 1 + Len(Tail(r))
          /\ \A i \in 1 .. 1 + Len(Tail(r)) :
                 h[i] = IF i <= 1 THEN <<Head(r)>>[i] ELSE Tail(r)[i - 1]
        BY <1>1, <1>3, ConcatProperties
    <2>2. QED
        BY <1>1, <1>2, <2>1
<1>5. h = r
    BY <1>4, SeqEqual
<1>6. Append(g, Head(r)) = g \o <<Head(r)>>
    BY <1>1, AppendIsConcat
<1>7. (g \o <<Head(r)>>) \o Tail(r) = g \o h
    BY <1>1, <1>3, ConcatAssociative
<1>8. QED
    BY <1>5, <1>6, <1>7

(* A step that leaves every stream alone and clears got only of an idle   *)
(* caller keeps StreamInv: the calls that are one RPC, close, and a call   *)
(* on the closed channel.                                                  *)
LEMMA IdleCallStream ==
    ASSUME TypeOK, StreamInv, NEW c \in Callers, pc[c] = "idle",
           pc' = pc, rest' = rest, snap' = snap,
           got' = [got EXCEPT ![c] = <<>>]
    PROVE  StreamInv'
BY DEF StreamInv, TypeOK

(* A step of caller c after which c is idle or its stream satisfies the   *)
(* invariant, and that leaves the other callers alone, keeps StreamInv.     *)
LEMMA OwnStream ==
    ASSUME StreamInv, NEW c \in Callers,
           pc'[c] = "idle" \/ snap'[c] = got'[c] \o rest'[c],
           \A d \in Callers \ {c} :
               /\ pc'[d] = pc[d]
               /\ got'[d] = got[d] /\ rest'[d] = rest[d] /\ snap'[d] = snap[d]
    PROVE  StreamInv'
BY DEF StreamInv

-----------------------------------------------------------------------------
(* StreamInv holds initially and is kept by every action.                  *)

LEMMA InitStream == Init => StreamInv
BY DEF Init, StreamInv

(* stub.Get opens the stream on the stored object, with nothing received. *)
LEMMA OpenGetStream ==
    ASSUME IInv, StreamInv, NEW c \in Callers, OpenGet(c)
    PROVE  StreamInv'
<1>0. TypeOK
    BY DEF IInv
<1>1. PICK o \in {"get", "get_stream"} : Call(c, o)
    BY DEF OpenGet
<1>2. CASE /\ store # Absent
           /\ pc' = [pc EXCEPT ![c] = "recv"]
           /\ rest' = [rest EXCEPT ![c] = store]
           /\ snap' = [snap EXCEPT ![c] = store]
    <2>1. store \in Seq(Chunks)
        BY <1>0, <1>2, ObjectType DEF TypeOK
    <2>2. <<>> \o store = store
        BY <2>1, ConcatEmptySeq
    <2>3. got'[c] = <<>> /\ rest'[c] = store /\ snap'[c] = store
        BY <1>0, <1>1, <1>2 DEF Call, TypeOK
    <2>4. snap'[c] = got'[c] \o rest'[c]
        BY <2>2, <2>3
    <2>5. QED
        BY <1>0, <1>1, <1>2, <2>4, OwnStream DEF Call, TypeOK
<1>3. CASE UNCHANGED <<pc, rest, snap>>
    BY <1>0, <1>1, <1>3, IdleCallStream DEF Call
<1>4. QED
    BY <1>2, <1>3 DEF OpenGet

(* One turn of the response loop moves the head of rest to the end of got.*)
LEMMA ReceiveStream ==
    ASSUME IInv, StreamInv, NEW c \in Callers, Receive(c)
    PROVE  StreamInv'
<1>0. TypeOK
    BY DEF IInv
<1>1. got[c] \in Seq(Chunks) /\ rest[c] \in Seq(Chunks) /\ rest[c] # <<>>
    BY <1>0, ObjectType DEF Receive, TypeOK
<1>2. Append(got[c], Head(rest[c])) \o Tail(rest[c]) = got[c] \o rest[c]
    BY <1>1, MoveHead
<1>3. snap'[c] = got'[c] \o rest'[c]
    <2>1. snap[c] = got[c] \o rest[c]
        BY DEF Receive, StreamInv
    <2>2. /\ got'[c] = Append(got[c], Head(rest[c]))
          /\ rest'[c] = Tail(rest[c])
          /\ snap'[c] = snap[c]
        BY <1>0 DEF Receive, TypeOK
    <2>3. QED
        BY <1>2, <2>1, <2>2
<1>4. QED
    BY <1>0, <1>3, OwnStream DEF Receive, TypeOK

LEMMA StepStream == IInv /\ StreamInv /\ [Next]_vars => StreamInv'
<1> SUFFICES ASSUME IInv, StreamInv, [Next]_vars PROVE StreamInv'
    OBVIOUS
<1>0. TypeOK
    BY DEF IInv
<1>1. CASE UNCHANGED vars
    BY <1>1 DEF vars, StreamInv
<1>2. ASSUME NEW c \in Callers, Put(c) \/ Delete(c) \/ Query(c)
      PROVE  StreamInv'
    BY <1>0, <1>2, IdleCallStream DEF Put, Delete, Query, Call
<1>3. ASSUME NEW c \in Callers,
             \/ Exists(c) \/ ListCall(c) \/ MetadataCall(c) \/ ServiceCall(c)
             \/ PolicyCall(c) \/ ReplicationCall(c)
      PROVE  StreamInv'
    BY <1>2, <1>3 DEF Exists, ListCall, MetadataCall, ServiceCall, PolicyCall,
                      ReplicationCall
<1>4. ASSUME NEW c \in Callers, StreamFails(c) \/ Finish(c) \/ Abandon(c)
      PROVE  StreamInv'
    BY <1>0, <1>4, OwnStream DEF StreamFails, Finish, Abandon, TypeOK
<1>5. ASSUME NEW c \in Callers, Resume(c)
      PROVE  StreamInv'
    <2>1. snap'[c] = got'[c] \o rest'[c]
        BY <1>5 DEF Resume, StreamInv
    <2>2. QED
        BY <1>0, <1>5, <2>1, OwnStream DEF Resume, TypeOK
<1>6. ASSUME NEW c \in Callers, Close(c) \/ CallClosed(c)
      PROVE  StreamInv'
    BY <1>0, <1>6, IdleCallStream DEF Close, CallClosed
<1>7. QED
    BY <1>1, <1>2, <1>3, <1>4, <1>5, <1>6, OpenGetStream, ReceiveStream DEF Next

-----------------------------------------------------------------------------
(***************************************************************************)
(* Lemmas on the refinement mapping.                                       *)
(***************************************************************************)

(* How each outcome of a call reads in the contract: every exception the  *)
(* adapter raises is an error.                                             *)
LEMMA OutcomeValues ==
    /\ Outcome("ok") = "ok"
    /\ Outcome(NoneYet) = "none"
    /\ Outcome("abandoned") = "dropped"
    /\ Outcome("ValueError") = "error"
    /\ \A code : Outcome(HandleGrpcError(code)) = "error"
<1>1. \A code : HandleGrpcError(code) \in
          {"ObjectNotFoundError", "TimeoutError", "ConnectionError", "ServerError",
           "ObjectStoreError"}
    BY DEF HandleGrpcError
<1>2. \A r \in {"ObjectNotFoundError", "TimeoutError", "ConnectionError",
                 "ServerError", "ObjectStoreError", "ValueError"} :
          Outcome(r) = "error"
    BY DEF Outcome, NoneYet
<1>3. QED
    BY <1>1, <1>2 DEF Outcome, NoneYet

(* The objects the server can hold are the contract's contents.           *)
LEMMA ObjectsAreContents == Contract!Contents = Objects
BY GotType DEF Contract!Contents

(* Changing one caller's outcome changes that caller's contract result.   *)
LEMMA OutcomesExcept ==
    ASSUME TypeOK, NEW c \in Callers, NEW r, ret' = [ret EXCEPT ![c] = r]
    PROVE  Outcomes' = [Outcomes EXCEPT ![c] = Outcome(r)]
BY DEF Outcomes, TypeOK

(* A failed RPC is an error in the contract.                               *)
LEMMA RpcFailsOutcome ==
    ASSUME TypeOK, NEW c \in Callers, RpcFails(c)
    PROVE  Outcomes' = [Outcomes EXCEPT ![c] = "error"]
<1>1. PICK code \in FailCodes : ret' = [ret EXCEPT ![c] = HandleGrpcError(code)]
    BY DEF RpcFails
<1>2. Outcomes' = [Outcomes EXCEPT ![c] = Outcome(HandleGrpcError(code))]
    BY <1>1, OutcomesExcept
<1>3. QED
    BY <1>2, OutcomeValues

(* A step that leaves pc alone leaves every download as it was.            *)
LEMMA DownloadsUnchanged ==
    ASSUME pc' = pc
    PROVE  Downloads' = Downloads
BY DEF Downloads

(* A step that ends one caller's stream closes its download.             *)
LEMMA DownloadEnds ==
    ASSUME TypeOK, NEW c \in Callers, pc' = [pc EXCEPT ![c] = "idle"]
    PROVE  Downloads' = [Downloads EXCEPT ![c] = "idle"]
BY DEF Downloads, TypeOK

(* A call that starts at an idle caller begins a contract call.            *)
LEMMA CallBegins ==
    ASSUME NEW c \in Callers, NEW o, Call(c, o)
    PROVE  Contract!Begin(c)
BY DEF Call, Contract!Begin, Downloads

-----------------------------------------------------------------------------
(***************************************************************************)
(* Every action of the adapter is a step of the contract.                  *)
(***************************************************************************)

(* put writes the object, or fails having written it or not.               *)
LEMMA PutIsWrite ==
    ASSUME IInv, NEW c \in Callers, Put(c)
    PROVE  Contract!Write(c)
<1>0. TypeOK
    BY DEF IInv
<1>1. Contract!Begin(c)
    BY CallBegins DEF Put
<1>2. Downloads' = Downloads /\ snap' = snap
    BY DownloadsUnchanged DEF Put
<1>3. PICK o \in Objects :
         \/ store' = o /\ ret' = [ret EXCEPT ![c] = "ok"] /\ UNCHANGED faults
         \/ RpcFails(c) /\ store' \in {store, o}
    BY DEF Put
<1>4. CASE store' = o /\ ret' = [ret EXCEPT ![c] = "ok"]
    <2>1. Outcomes' = [Outcomes EXCEPT ![c] = "ok"]
        BY <1>0, <1>4, OutcomesExcept, OutcomeValues
    <2>2. store' \in Contract!Contents
        BY <1>4, ObjectsAreContents
    <2>3. QED
        BY <1>1, <1>2, <2>1, <2>2 DEF Contract!Write
<1>5. CASE RpcFails(c) /\ store' \in {store, o}
    <2>1. Outcomes' = [Outcomes EXCEPT ![c] = "error"]
        BY <1>0, <1>5, RpcFailsOutcome
    <2>2. store' \in Contract!Contents \cup {store}
        BY <1>5, ObjectsAreContents
    <2>3. QED
        BY <1>1, <1>2, <2>1, <2>2 DEF Contract!Write
<1>6. QED
    BY <1>3, <1>4, <1>5

(* delete removes the object, or of an absent key reports success or       *)
(* NOT_FOUND, or fails with the object left alone or already removed.       *)
LEMMA DeleteIsErase ==
    ASSUME IInv, NEW c \in Callers, Delete(c)
    PROVE  Contract!Erase(c)
<1>0. TypeOK
    BY DEF IInv
<1>1. Contract!Begin(c)
    BY CallBegins DEF Delete
<1>2. Downloads' = Downloads /\ snap' = snap
    BY DownloadsUnchanged DEF Delete
<1>3. CASE store' = Absent /\ ret' = [ret EXCEPT ![c] = "ok"]
    <2>1. Outcomes' = [Outcomes EXCEPT ![c] = "ok"]
        BY <1>0, <1>3, OutcomesExcept, OutcomeValues
    <2>2. QED
        BY <1>1, <1>2, <1>3, <2>1 DEF Contract!Erase
<1>4. CASE store' = store /\ ret' = [ret EXCEPT ![c] = HandleGrpcError("NOT_FOUND")]
    <2>1. Outcomes' = [Outcomes EXCEPT ![c] = Outcome(HandleGrpcError("NOT_FOUND"))]
        BY <1>0, <1>4, OutcomesExcept
    <2>2. Outcome(HandleGrpcError("NOT_FOUND")) = "error"
        BY OutcomeValues
    <2>3. QED
        BY <1>1, <1>2, <1>4, <2>1, <2>2 DEF Contract!Erase
<1>5. CASE RpcFails(c) /\ store' \in {store, Absent}
    <2>1. Outcomes' = [Outcomes EXCEPT ![c] = "error"]
        BY <1>0, <1>5, RpcFailsOutcome
    <2>2. QED
        BY <1>1, <1>2, <1>5, <2>1 DEF Contract!Erase
<1>6. QED
    BY <1>3, <1>4, <1>5 DEF Delete

(* A unary call inspects the object and leaves it alone.                    *)
LEMMA QueryIsInspect ==
    ASSUME IInv, NEW c \in Callers, Query(c)
    PROVE  Contract!Inspect(c)
<1>0. TypeOK
    BY DEF IInv
<1>1. Contract!Begin(c)
    BY CallBegins DEF Query
<1>2. Downloads' = Downloads /\ snap' = snap /\ store' = store
    BY DownloadsUnchanged DEF Query
<1>3. Outcomes' \in {[Outcomes EXCEPT ![c] = r] : r \in {"ok", "error"}}
    <2>1. CASE ret' = [ret EXCEPT ![c] = "ok"]
        <3>1. Outcomes' = [Outcomes EXCEPT ![c] = "ok"]
            BY <1>0, <2>1, OutcomesExcept, OutcomeValues
        <3>2. QED
            BY <3>1
    <2>2. CASE RpcFails(c)
        BY <1>0, <2>2, RpcFailsOutcome
    <2>3. QED
        BY <2>1, <2>2 DEF Query
<1>4. QED
    BY <1>1, <1>2, <1>3 DEF Contract!Inspect

(* stub.Get opens a download of the stored object, or fails like a unary  *)
(* call that inspected it.                                                  *)
LEMMA OpenGetIsOpen ==
    ASSUME IInv, NEW c \in Callers, OpenGet(c)
    PROVE  Contract!Open(c) \/ Contract!Inspect(c)
<1>0. TypeOK
    BY DEF IInv
<1>1. Contract!Begin(c)
    BY CallBegins DEF OpenGet
<1>2. store' = store
    BY DEF OpenGet
<1>3. CASE /\ store # Absent
           /\ pc' = [pc EXCEPT ![c] = "recv"]
           /\ snap' = [snap EXCEPT ![c] = store]
           /\ ret' = [ret EXCEPT ![c] = NoneYet]
    <2>1. Downloads' = [Downloads EXCEPT ![c] = "open"]
        BY <1>0, <1>3 DEF Downloads, TypeOK
    <2>2. Outcomes' = [Outcomes EXCEPT ![c] = "none"]
        BY <1>0, <1>3, OutcomesExcept, OutcomeValues
    <2>3. Contract!Open(c)
        BY <1>1, <1>2, <1>3, <2>1, <2>2 DEF Contract!Open
    <2>4. QED
        BY <2>3
<1>4. CASE /\ ret' = [ret EXCEPT ![c] = HandleGrpcError("NOT_FOUND")]
           /\ UNCHANGED <<pc, snap>>
    <2>1. Outcomes' = [Outcomes EXCEPT ![c] = Outcome(HandleGrpcError("NOT_FOUND"))]
        BY <1>0, <1>4, OutcomesExcept
    <2>2. Outcome(HandleGrpcError("NOT_FOUND")) = "error"
        BY OutcomeValues
    <2>3. Downloads' = Downloads
        BY <1>4, DownloadsUnchanged
    <2>4. Contract!Inspect(c)
        BY <1>1, <1>2, <1>4, <2>1, <2>2, <2>3 DEF Contract!Inspect
    <2>5. QED
        BY <2>4
<1>5. CASE RpcFails(c) /\ UNCHANGED <<pc, snap>>
    <2>1. Outcomes' = [Outcomes EXCEPT ![c] = "error"]
        BY <1>0, <1>5, RpcFailsOutcome
    <2>2. Downloads' = Downloads
        BY <1>5, DownloadsUnchanged
    <2>3. Contract!Inspect(c)
        BY <1>1, <1>2, <1>5, <2>1, <2>2 DEF Contract!Inspect
    <2>4. QED
        BY <2>3
<1>6. QED
    BY <1>3, <1>4, <1>5 DEF OpenGet

(* One turn of the response loop hands out the next chunk of the object   *)
(* the stream opened on.                                                    *)
LEMMA ReceiveIsDeliver ==
    ASSUME IInv, StreamInv, NEW c \in Callers, Receive(c)
    PROVE  Contract!Deliver(c)
<1>0. TypeOK
    BY DEF IInv
<1>1. /\ got[c] \in Seq(Chunks) /\ rest[c] \in Seq(Chunks) /\ rest[c] # <<>>
      /\ snap[c] = got[c] \o rest[c]
    BY <1>0, ObjectType DEF Receive, StreamInv, TypeOK
<1>2. /\ Len(rest[c]) \in Nat \ {0}
      /\ Len(got[c]) \in Nat
      /\ Head(rest[c]) = rest[c][1]
    BY <1>1, LenProperties, EmptySeq
<1> DEFINE a == Len(got[c])
           b == Len(rest[c])
<1>3. /\ Len(got[c] \o rest[c]) = a + b
      /\ \A i \in 1 .. a + b :
             (got[c] \o rest[c])[i] = IF i <= a THEN got[c][i] ELSE rest[c][i - a]
    BY <1>1, ConcatProperties
<1>4. a \in Nat /\ b \in Nat \ {0}
    BY <1>2
<1> HIDE DEF a, b
<1>9. a + 1 \in 1 .. a + b /\ ~(a + 1 <= a) /\ (a + 1) - a = 1 /\ a < a + b
    BY <1>4
<1>10. Len(got[c]) < Len(snap[c]) /\ snap[c][Len(got[c]) + 1] = Head(rest[c])
    <2>1. (got[c] \o rest[c])[a + 1] = rest[c][1]
        BY <1>3, <1>9
    <2>2. QED
        BY <1>1, <1>2, <1>3, <1>9, <2>1 DEF a, b
<1>5. got' = [got EXCEPT ![c] = Append(got[c], snap[c][Len(got[c]) + 1])]
    BY <1>10 DEF Receive
<1>6. Downloads[c] = "open" /\ Downloads' = Downloads
    <2>1. PICK x \in {"recv", "yielded"} : pc' = [pc EXCEPT ![c] = x]
        BY DEF Receive
    <2>2. Downloads' = [Downloads EXCEPT ![c] = "open"]
        BY <1>0, <2>1 DEF Downloads, TypeOK
    <2>3. Downloads[c] = "open"
        BY DEF Receive, Downloads
    <2>4. QED
        BY <2>2, <2>3 DEF Downloads
<1>7. Outcomes' = Outcomes
    BY DEF Receive, Outcomes
<1>8. QED
    BY <1>10, <1>5, <1>6, <1>7 DEF Receive, Contract!Deliver

(* A stream that fails, or that its caller drops, stops the download.      *)
LEMMA StreamFailsIsStop ==
    ASSUME IInv, NEW c \in Callers, StreamFails(c)
    PROVE  Contract!Stop(c)
<1>0. TypeOK
    BY DEF IInv
<1>1. Downloads[c] = "open" /\ Downloads' = [Downloads EXCEPT ![c] = "idle"]
    BY <1>0, DownloadEnds DEF StreamFails, Downloads
<1>2. Outcomes' = [Outcomes EXCEPT ![c] = "error"]
    <2>1. CASE RpcFails(c)
        BY <1>0, <2>1, RpcFailsOutcome
    <2>2. CASE ret' = [ret EXCEPT ![c] = HandleGrpcError("CANCELLED")]
        <3>1. Outcomes' = [Outcomes EXCEPT ![c] = Outcome(HandleGrpcError("CANCELLED"))]
            BY <1>0, <2>2, OutcomesExcept
        <3>2. Outcome(HandleGrpcError("CANCELLED")) = "error"
            BY OutcomeValues
        <3>3. QED
            BY <3>1, <3>2
    <2>3. QED
        BY <2>1, <2>2 DEF StreamFails
<1>3. QED
    BY <1>1, <1>2 DEF StreamFails, Contract!Stop

LEMMA AbandonIsStop ==
    ASSUME IInv, NEW c \in Callers, Abandon(c)
    PROVE  Contract!Stop(c)
<1>0. TypeOK
    BY DEF IInv
<1>1. Downloads[c] = "open" /\ Downloads' = [Downloads EXCEPT ![c] = "idle"]
    BY <1>0, DownloadEnds DEF Abandon, Downloads
<1>2. Outcomes' = [Outcomes EXCEPT ![c] = "dropped"]
    BY <1>0, OutcomesExcept, OutcomeValues DEF Abandon
<1>3. QED
    BY <1>1, <1>2 DEF Abandon, Contract!Stop

(* The stream ends with OK only once all of the object was handed out.     *)
LEMMA FinishIsComplete ==
    ASSUME IInv, StreamInv, NEW c \in Callers, Finish(c)
    PROVE  Contract!Complete(c)
<1>0. TypeOK
    BY DEF IInv
<1>1. got[c] = snap[c]
    <2>1. got[c] \in Seq(Chunks) /\ snap[c] = got[c] \o <<>>
        BY <1>0, ObjectType DEF Finish, StreamInv, TypeOK
    <2>2. QED
        BY <2>1, ConcatEmptySeq
<1>2. Downloads[c] = "open" /\ Downloads' = [Downloads EXCEPT ![c] = "idle"]
    BY <1>0, DownloadEnds DEF Finish, Downloads
<1>3. Outcomes' = [Outcomes EXCEPT ![c] = "ok"]
    BY <1>0, OutcomesExcept, OutcomeValues DEF Finish
<1>4. QED
    BY <1>1, <1>2, <1>3 DEF Finish, Contract!Complete

(* close() and a call on the closed channel inspect nothing and end.       *)
LEMMA CloseIsInspect ==
    ASSUME IInv, NEW c \in Callers, Close(c) \/ CallClosed(c)
    PROVE  Contract!Inspect(c)
<1>0. TypeOK
    BY DEF IInv
<1>1. Contract!Begin(c) /\ Downloads' = Downloads
    BY DownloadsUnchanged DEF Close, CallClosed, Contract!Begin, Downloads
<1>2. Outcomes' \in {[Outcomes EXCEPT ![c] = r] : r \in {"ok", "error"}}
    <2>1. CASE Close(c)
        <3>1. Outcomes' = [Outcomes EXCEPT ![c] = Outcome("ok")]
            BY <1>0, <2>1, OutcomesExcept DEF Close
        <3>2. QED
            BY <3>1, OutcomeValues
    <2>2. CASE CallClosed(c)
        <3>1. Outcomes' = [Outcomes EXCEPT ![c] = Outcome("ValueError")]
            BY <1>0, <2>2, OutcomesExcept DEF CallClosed
        <3>2. QED
            BY <3>1, OutcomeValues
    <2>3. QED
        BY <2>1, <2>2
<1>3. QED
    BY <1>1, <1>2 DEF Close, CallClosed, Contract!Inspect

(* The initial state is the contract's: no object, no download, no outcome.*)
LEMMA InitRefines == Init => Contract!Init
<1> SUFFICES ASSUME Init PROVE Contract!Init
    OBVIOUS
<1>1. Downloads = [c \in Callers |-> "idle"]
    BY DEF Init, Downloads
<1>2. Outcomes = [c \in Callers |-> "none"]
    BY OutcomeValues DEF Init, Outcomes
<1>3. QED
    BY <1>1, <1>2 DEF Init, Contract!Init

(* Every step of the adapter is a step of the contract or leaves what the  *)
(* contract sees unchanged (a get_stream caller's next(), a stutter).      *)
LEMMA StepRefines ==
    IInv /\ StreamInv /\ [Next]_vars => [Contract!Next]_Contract!vars
<1> SUFFICES ASSUME IInv, StreamInv, [Next]_vars
             PROVE  [Contract!Next]_<<store, Downloads, snap, got, Outcomes>>
    BY DEF Contract!vars
<1>1. CASE UNCHANGED vars
    BY <1>1, DownloadsUnchanged DEF vars, Outcomes
<1>2. ASSUME NEW c \in Callers, Resume(c)
      PROVE  UNCHANGED <<store, Downloads, snap, got, Outcomes>>
    <2>1. Downloads' = Downloads
        BY <1>2 DEF Resume, Downloads, IInv, TypeOK
    <2>2. QED
        BY <1>2, <2>1 DEF Resume, Outcomes
<1>3. ASSUME NEW c \in Callers,
             \/ Exists(c) \/ ListCall(c) \/ MetadataCall(c) \/ ServiceCall(c)
             \/ PolicyCall(c) \/ ReplicationCall(c)
      PROVE  Contract!Inspect(c)
    BY <1>3, QueryIsInspect DEF Exists, ListCall, MetadataCall, ServiceCall,
                                PolicyCall, ReplicationCall
<1>4. ASSUME NEW c \in Callers,
             \/ Put(c) \/ Delete(c) \/ OpenGet(c) \/ Receive(c) \/ StreamFails(c)
             \/ Finish(c) \/ Abandon(c) \/ Close(c) \/ CallClosed(c)
      PROVE  Contract!Next
    <2>1. \/ Contract!Write(c) \/ Contract!Erase(c) \/ Contract!Inspect(c)
          \/ Contract!Open(c) \/ Contract!Deliver(c) \/ Contract!Complete(c)
          \/ Contract!Stop(c)
        BY <1>4, PutIsWrite, DeleteIsErase, OpenGetIsOpen, ReceiveIsDeliver,
           StreamFailsIsStop, FinishIsComplete, AbandonIsStop, CloseIsInspect
    <2>2. QED
        BY <2>1 DEF Contract!Next
<1>5. ASSUME NEW c \in Callers, Contract!Inspect(c)
      PROVE  Contract!Next
    BY <1>5 DEF Contract!Next
<1>6. QED
    BY <1>1, <1>2, <1>3, <1>4, <1>5 DEF Next

-----------------------------------------------------------------------------
(***************************************************************************)
(* The gRPC adapter implements the operation contract of specification     *)
(* sections 4.1 and 5 (property ImplementsContract), for every number of   *)
(* threads sharing the client, every object length and every number of     *)
(* RPC failures: put, delete and the unary calls act on the object         *)
(* atomically and report failure only where the contract allows it; get   *)
(* and get_stream hand out the chunks of the object their stream opened    *)
(* on, one at a time in wire order, and return normally only once all of   *)
(* them were handed out, even when another thread writes, deletes or       *)
(* closes the channel meanwhile.                                           *)
(***************************************************************************)
THEOREM GrpcRefinesContract == Spec => ImplementsContract
<1>1. Spec => [](IInv /\ StreamInv)
    BY InitIInv, StepIInv, InitStream, StepStream, PTL DEF Spec
<1>2. QED
    BY <1>1, InitRefines, StepRefines, PTL DEF Spec, ImplementsContract, Contract!Spec

=============================================================================
