-------------------------- MODULE GrpcClientProofs --------------------------
(***************************************************************************)
(* Proofs about the gRPC adapter (module GrpcClient), for every set of     *)
(* callers and chunk values, every object length, fault bound and set of   *)
(* failure codes.                                                          *)
(***************************************************************************)
EXTENDS GrpcClient, SequenceTheorems, TLAPS

(***************************************************************************)
(* TypeOK is not inductive: Receive appends a message's chunk to got, and  *)
(* only the messages still to come bound how long got can grow.  What a    *)
(* caller has received plus what its stream still holds never exceeds      *)
(* MaxLen.                                                                 *)
(***************************************************************************)
IInv ==
    /\ TypeOK
    /\ \A c \in Callers : Len(got[c]) + Len(rest[c]) <= MaxLen

(***************************************************************************)
(* Lemmas on the sets the model is built from.                             *)
(***************************************************************************)

(* SeqOf(S, n) holds exactly the sequences over S of length at most n.     *)
LEMMA SeqOfMember ==
    ASSUME NEW S, NEW n \in Nat, NEW s
    PROVE  s \in SeqOf(S, n) <=> s \in Seq(S) /\ Len(s) <= n
<1>1. ASSUME s \in SeqOf(S, n) PROVE s \in Seq(S) /\ Len(s) <= n
    <2>1. PICK m \in 0..n : s \in [1..m -> S]
        BY <1>1 DEF SeqOf
    <2>2. s \in Seq(S)
        BY <2>1, SeqDef
    <2>3. Len(s) = m
        BY <2>1, <2>2, LenProperties
    <2>4. QED
        BY <2>2, <2>3
<1>2. ASSUME s \in Seq(S), Len(s) <= n PROVE s \in SeqOf(S, n)
    <2>1. Len(s) \in 0..n /\ s \in [1..Len(s) -> S]
        BY <1>2, LenProperties
    <2>2. QED
        BY <2>1 DEF SeqOf
<1>3. QED
    BY <1>1, <1>2

(* The empty sequence is in every SeqOf.                                  *)
LEMMA EmptyInSeqOf ==
    ASSUME NEW S, NEW n \in Nat
    PROVE  <<>> \in SeqOf(S, n) /\ Len(<<>>) = 0
<1>1. <<>> \in Seq(S) /\ Len(<<>>) = 0
    BY EmptySeq
<1>2. <<>> \in SeqOf(S, n) <=> (<<>> \in Seq(S) /\ Len(<<>>) <= n)
    BY SeqOfMember
<1>3. QED
    BY <1>1, <1>2

(* The server's objects are sequences of chunks no longer than MaxLen.     *)
LEMMA ObjectType ==
    ASSUME NEW o \in Objects
    PROVE  o \in Seq(Chunks) /\ Len(o) <= MaxLen
BY SeqOfMember, GrpcAssumption DEF Objects

(* A sequence is an object exactly when it holds chunks, at most MaxLen.   *)
LEMMA GotType ==
    ASSUME NEW g
    PROVE  g \in Objects <=> g \in Seq(Chunks) /\ Len(g) <= MaxLen
BY SeqOfMember, GrpcAssumption DEF Objects

(* Every way a call can end is one of Results.                             *)
LEMMA FailResults ==
    /\ \A code \in FailCodes : HandleGrpcError(code) \in Results
    /\ HandleGrpcError("NOT_FOUND") \in Results
    /\ HandleGrpcError("CANCELLED") \in Results
    /\ {"ok", "abandoned", "ValueError", NoneYet} \subseteq Results
BY DEF Results

(* RpcFails keeps the returned outcomes and the fault count well typed.    *)
LEMMA RpcFailsType ==
    ASSUME TypeOK, NEW c \in Callers, RpcFails(c)
    PROVE  ret' \in [Callers -> Results] /\ faults' \in 0..MaxFaults
BY FailResults, GrpcAssumption DEF RpcFails, TypeOK

(* A call that starts on the open channel clears got and leaves the length *)
(* bound to what it does with rest.                                        *)
LEMMA CallType ==
    ASSUME TypeOK, NEW c \in Callers, NEW o \in Ops, Call(c, o)
    PROVE  /\ op' \in [Callers -> Ops \cup {NoneYet}]
           /\ got' \in [Callers -> Objects]
           /\ Len(got'[c]) = 0
           /\ \A d \in Callers \ {c} : got'[d] = got[d]
<1>1. <<>> \in Objects /\ Len(<<>>) = 0
    BY EmptyInSeqOf, GrpcAssumption DEF Objects
<1>2. QED
    BY <1>1 DEF Call, TypeOK

(* Clearing a caller's got keeps the length bound while rest is unchanged.*)
LEMMA ClearBound ==
    ASSUME IInv, NEW c \in Callers, got' = [got EXCEPT ![c] = <<>>], rest' = rest
    PROVE  \A d \in Callers : Len(got'[d]) + Len(rest'[d]) <= MaxLen
<1> TAKE d \in Callers
<1>1. CASE d = c
    <2>1. Len(got'[c]) = 0
        BY EmptySeq DEF IInv, TypeOK
    <2>2. Len(rest[c]) <= MaxLen /\ Len(rest[c]) \in Nat
        BY ObjectType, LenProperties DEF IInv, TypeOK
    <2> DEFINE x == Len(got'[d])
               y == Len(rest'[d])
    <2>3. x = 0 /\ y = Len(rest[c])
        BY <1>1, <2>1
    <2>4. y <= MaxLen /\ y \in Nat /\ MaxLen \in Nat
        BY <2>2, <2>3, GrpcAssumption
    <2> HIDE DEF x, y
    <2>5. x + y <= MaxLen
        BY <2>3, <2>4
    <2>6. QED
        BY <2>5 DEF x, y
<1>2. CASE d # c
    BY <1>2 DEF IInv, TypeOK
<1>3. QED
    BY <1>1, <1>2

(* A call that leaves rest alone keeps the length bound: its own got is   *)
(* empty and its rest is an object.                                        *)
LEMMA CallBound ==
    ASSUME IInv, NEW c \in Callers, NEW o \in Ops, Call(c, o), rest' = rest
    PROVE  \A d \in Callers : Len(got'[d]) + Len(rest'[d]) <= MaxLen
<1> TAKE d \in Callers
<1>1. CASE d = c
    <2>1. Len(got'[c]) = 0
        BY CallType DEF IInv
    <2>2. Len(rest[c]) <= MaxLen
        BY ObjectType DEF IInv, TypeOK
    <2>3. QED
        BY <1>1, <2>1, <2>2
<1>2. CASE d # c
    BY <1>2, CallType DEF IInv
<1>3. QED
    BY <1>1, <1>2

(* The invariant follows from the types of the primed variables and the    *)
(* length bound in the next state.                                         *)
LEMMA NextIInv ==
    ASSUME pc' \in [Callers -> {"idle", "recv", "yielded"}],
           op' \in [Callers -> Ops \cup {NoneYet}],
           rest' \in [Callers -> Objects],
           got' \in [Callers -> Objects],
           snap' \in [Callers -> Objects],
           ret' \in [Callers -> Results],
           store' \in Objects \cup {Absent},
           channelOpen' \in BOOLEAN,
           faults' \in 0..MaxFaults,
           \A d \in Callers : Len(got'[d]) + Len(rest'[d]) <= MaxLen
    PROVE  IInv'
BY DEF IInv, TypeOK

-----------------------------------------------------------------------------
(***************************************************************************)
(* The invariant holds initially and is kept by every action.              *)
(***************************************************************************)

LEMMA InitIInv == Init => IInv
<1> SUFFICES ASSUME Init PROVE IInv
    OBVIOUS
<1>1. <<>> \in Objects /\ Len(<<>>) = 0
    BY EmptyInSeqOf, GrpcAssumption DEF Objects
<1>2. NoneYet \in Results /\ 0 \in 0..MaxFaults
    BY FailResults, GrpcAssumption
<1>3. QED
    BY <1>1, <1>2, GrpcAssumption DEF Init, IInv, TypeOK, Ops

(* The unary methods, put and delete: one RPC that leaves pc, rest and     *)
(* snap alone.                                                              *)
LEMMA PutIInv ==
    ASSUME IInv, NEW c \in Callers, Put(c)
    PROVE  IInv'
<1>0. TypeOK
    BY DEF IInv
<1>1. Call(c, "put") /\ "put" \in Ops
    BY DEF Put, Ops
<1>2. PICK o \in Objects :
         \/ store' = o /\ ret' = [ret EXCEPT ![c] = "ok"] /\ UNCHANGED faults
         \/ RpcFails(c) /\ store' \in {store, o}
    BY DEF Put
<1>3. ret' \in [Callers -> Results] /\ faults' \in 0..MaxFaults /\ store' \in Objects \cup {Absent}
    <2>1. CASE store' = o /\ ret' = [ret EXCEPT ![c] = "ok"] /\ UNCHANGED faults
        BY <1>0, <2>1, FailResults DEF TypeOK
    <2>2. CASE RpcFails(c) /\ store' \in {store, o}
        BY <1>0, <2>2, RpcFailsType DEF TypeOK
    <2>3. QED
        BY <1>2, <2>1, <2>2
<1>4. \A d \in Callers : Len(got'[d]) + Len(rest'[d]) <= MaxLen
    BY <1>1, CallBound DEF Put
<1>5. QED
    BY <1>0, <1>1, <1>3, <1>4, CallType, NextIInv DEF Put, TypeOK

LEMMA DeleteIInv ==
    ASSUME IInv, NEW c \in Callers, Delete(c)
    PROVE  IInv'
<1>0. TypeOK
    BY DEF IInv
<1>1. Call(c, "delete") /\ "delete" \in Ops
    BY DEF Delete, Ops
<1>2. ret' \in [Callers -> Results] /\ faults' \in 0..MaxFaults /\ store' \in Objects \cup {Absent}
    <2>1. CASE store # Absent /\ store' = Absent /\ ret' = [ret EXCEPT ![c] = "ok"] /\ UNCHANGED faults
        BY <1>0, <2>1, FailResults DEF TypeOK
    <2>2. CASE store = Absent /\ UNCHANGED <<store, faults>>
               /\ ret' \in {[ret EXCEPT ![c] = r] : r \in {"ok", HandleGrpcError("NOT_FOUND")}}
        BY <1>0, <2>2, FailResults DEF TypeOK
    <2>3. CASE RpcFails(c) /\ store' \in {store, Absent}
        BY <1>0, <2>3, RpcFailsType DEF TypeOK
    <2>4. QED
        BY <2>1, <2>2, <2>3 DEF Delete
<1>3. \A d \in Callers : Len(got'[d]) + Len(rest'[d]) <= MaxLen
    BY <1>1, CallBound DEF Delete
<1>4. QED
    BY <1>0, <1>1, <1>2, <1>3, CallType, NextIInv DEF Delete, TypeOK

LEMMA QueryIInv ==
    ASSUME IInv, NEW c \in Callers, Query(c)
    PROVE  IInv'
<1>0. TypeOK
    BY DEF IInv
<1>1. Call(c, "unary") /\ "unary" \in Ops
    BY DEF Query, Ops
<1>2. ret' \in [Callers -> Results] /\ faults' \in 0..MaxFaults
    <2>1. CASE ret' = [ret EXCEPT ![c] = "ok"] /\ UNCHANGED faults
        BY <1>0, <2>1, FailResults DEF TypeOK
    <2>2. CASE RpcFails(c)
        BY <1>0, <2>2, RpcFailsType
    <2>3. QED
        BY <2>1, <2>2 DEF Query
<1>3. \A d \in Callers : Len(got'[d]) + Len(rest'[d]) <= MaxLen
    BY <1>1, CallBound DEF Query
<1>4. QED
    BY <1>0, <1>1, <1>2, <1>3, CallType, NextIInv DEF Query, TypeOK

(* stub.Get: the stream opens on the stored object, or the call fails.     *)
LEMMA OpenGetIInv ==
    ASSUME IInv, NEW c \in Callers, OpenGet(c)
    PROVE  IInv'
<1>0. TypeOK
    BY DEF IInv
<1>1. PICK o \in {"get", "get_stream"} : Call(c, o)
    BY DEF OpenGet
<1>2. o \in Ops
    BY DEF Ops
<1>3. CASE /\ store # Absent
           /\ pc' = [pc EXCEPT ![c] = "recv"]
           /\ rest' = [rest EXCEPT ![c] = store]
           /\ snap' = [snap EXCEPT ![c] = store]
           /\ ret' = [ret EXCEPT ![c] = NoneYet]
           /\ UNCHANGED faults
    <2>1. store \in Objects /\ Len(store) <= MaxLen
        BY <1>0, <1>3, ObjectType DEF TypeOK
    <2>2. \A d \in Callers : Len(got'[d]) + Len(rest'[d]) <= MaxLen
        <3> TAKE d \in Callers
        <3>1. CASE d = c
            BY <1>0, <1>1, <1>2, <1>3, <2>1, <3>1, CallType DEF TypeOK
        <3>2. CASE d # c
            BY <1>0, <1>1, <1>2, <1>3, <3>2, CallType DEF IInv, TypeOK
        <3>3. QED
            BY <3>1, <3>2
    <2>3. QED
        BY <1>0, <1>1, <1>2, <1>3, <2>1, <2>2, FailResults, CallType, NextIInv
        DEF OpenGet, TypeOK
<1>4. CASE /\ store = Absent
           /\ ret' = [ret EXCEPT ![c] = HandleGrpcError("NOT_FOUND")]
           /\ UNCHANGED <<pc, rest, snap, faults>>
    BY <1>0, <1>1, <1>2, <1>4, FailResults, CallType, CallBound, NextIInv
    DEF OpenGet, TypeOK
<1>5. CASE RpcFails(c) /\ UNCHANGED <<pc, rest, snap>>
    BY <1>0, <1>1, <1>2, <1>5, RpcFailsType, CallType, CallBound, NextIInv
    DEF OpenGet, TypeOK
<1>6. QED
    BY <1>3, <1>4, <1>5 DEF OpenGet

(* One turn of the response loop moves one chunk from rest to got.         *)
LEMMA ReceiveIInv ==
    ASSUME IInv, NEW c \in Callers, Receive(c)
    PROVE  IInv'
<1>0. TypeOK
    BY DEF IInv
<1> DEFINE m == Head(rest[c])
<1>1. /\ got' = [got EXCEPT ![c] = Append(got[c], m)]
      /\ rest' = [rest EXCEPT ![c] = Tail(rest[c])]
      /\ pc' \in [Callers -> {"idle", "recv", "yielded"}]
      /\ rest[c] # <<>>
      /\ UNCHANGED <<op, snap, ret, store, channelOpen, faults>>
    BY <1>0 DEF Receive, TypeOK
<1>2. rest[c] \in Seq(Chunks) /\ Len(rest[c]) <= MaxLen
    BY <1>0, ObjectType DEF TypeOK
<1>3. /\ m \in Chunks
      /\ Tail(rest[c]) \in Seq(Chunks)
      /\ Len(Tail(rest[c])) = Len(rest[c]) - 1
      /\ Len(rest[c]) \in Nat \ {0}
    BY <1>1, <1>2, HeadTailProperties, EmptySeq
<1>5. got[c] \in Seq(Chunks) /\ Len(got[c]) + Len(rest[c]) <= MaxLen
    BY <1>0, GotType, GrpcAssumption DEF IInv, TypeOK
<1>6. /\ Append(got[c], m) \in Seq(Chunks)
      /\ Len(Append(got[c], m)) = Len(got[c]) + 1
    BY <1>3, <1>5, AppendProperties
<1>7. /\ Len(Append(got[c], m)) + Len(Tail(rest[c])) <= MaxLen
      /\ Len(Append(got[c], m)) <= MaxLen
      /\ Len(Tail(rest[c])) <= MaxLen
    <2> DEFINE a == Len(got[c])
               r == Len(rest[c])
               g == Len(Append(got[c], m))
               t == Len(Tail(rest[c]))
    <2>1. a \in Nat /\ r \in Nat \ {0} /\ a + r <= MaxLen
        BY <1>3, <1>5, LenProperties
    <2>2. g = a + 1 /\ t = r - 1
        BY <1>3, <1>6
    <2>3. MaxLen \in Nat
        BY GrpcAssumption
    <2> HIDE DEF a, r, g, t
    <2>4. g + t <= MaxLen /\ g <= MaxLen /\ t <= MaxLen
        BY <2>1, <2>2, <2>3
    <2>5. QED
        BY <2>4 DEF g, t
<1>8. Append(got[c], m) \in Objects /\ Tail(rest[c]) \in Objects
    BY <1>3, <1>6, <1>7, GotType
<1>9. \A d \in Callers : Len(got'[d]) + Len(rest'[d]) <= MaxLen
    <2> TAKE d \in Callers
    <2>1. CASE d = c
        BY <1>0, <1>1, <1>7, <2>1 DEF TypeOK
    <2>2. CASE d # c
        BY <1>0, <1>1, <2>2 DEF IInv, TypeOK
    <2>3. QED
        BY <2>1, <2>2
<1>10. QED
    BY <1>0, <1>1, <1>8, <1>9, NextIInv DEF TypeOK

(* A stream that fails drops what it had not read; got is kept.            *)
LEMMA StreamFailsIInv ==
    ASSUME IInv, NEW c \in Callers, StreamFails(c)
    PROVE  IInv'
<1>0. TypeOK
    BY DEF IInv
<1>1. ret' \in [Callers -> Results] /\ faults' \in 0..MaxFaults
    <2>1. CASE RpcFails(c)
        BY <1>0, <2>1, RpcFailsType
    <2>2. CASE ret' = [ret EXCEPT ![c] = HandleGrpcError("CANCELLED")] /\ UNCHANGED faults
        BY <1>0, <2>2, FailResults DEF TypeOK
    <2>3. QED
        BY <2>1, <2>2 DEF StreamFails
<1>2. <<>> \in Objects /\ Len(<<>>) = 0
    BY EmptyInSeqOf, GrpcAssumption DEF Objects
<1>3. \A d \in Callers : Len(got'[d]) + Len(rest'[d]) <= MaxLen
    <2> TAKE d \in Callers
    <2> DEFINE x == Len(got'[d])
               y == Len(rest'[d])
    <2>1. x \in Nat /\ x <= MaxLen
        BY <1>0, GotType, LenProperties, GrpcAssumption DEF StreamFails, TypeOK
    <2>2. y \in Nat /\ (x + y <= MaxLen \/ y = 0)
        BY <1>0, <1>2 DEF StreamFails, IInv, TypeOK
    <2>3. MaxLen \in Nat
        BY GrpcAssumption
    <2> HIDE DEF x, y
    <2>4. x + y <= MaxLen
        BY <2>1, <2>2, <2>3
    <2>5. QED
        BY <2>4 DEF x, y
<1>4. QED
    BY <1>0, <1>1, <1>2, <1>3, NextIInv DEF StreamFails, TypeOK

(* The stream ends with OK, a get_stream caller resumes or drops it.       *)
LEMMA FinishIInv ==
    ASSUME IInv, NEW c \in Callers, Finish(c)
    PROVE  IInv'
BY FailResults, NextIInv DEF Finish, IInv, TypeOK

LEMMA ResumeIInv ==
    ASSUME IInv, NEW c \in Callers, Resume(c)
    PROVE  IInv'
BY NextIInv DEF Resume, IInv, TypeOK

LEMMA AbandonIInv ==
    ASSUME IInv, NEW c \in Callers, Abandon(c)
    PROVE  IInv'
<1>0. TypeOK
    BY DEF IInv
<1>1. <<>> \in Objects /\ Len(<<>>) = 0
    BY EmptyInSeqOf, GrpcAssumption DEF Objects
<1>2. \A d \in Callers : Len(got'[d]) + Len(rest'[d]) <= MaxLen
    <2> TAKE d \in Callers
    <2> DEFINE x == Len(got'[d])
               y == Len(rest'[d])
    <2>1. x \in Nat /\ x <= MaxLen
        BY <1>0, GotType, LenProperties, GrpcAssumption DEF Abandon, TypeOK
    <2>2. y \in Nat /\ (x + y <= MaxLen \/ y = 0)
        BY <1>0, <1>1 DEF Abandon, IInv, TypeOK
    <2>3. MaxLen \in Nat
        BY GrpcAssumption
    <2> HIDE DEF x, y
    <2>4. x + y <= MaxLen
        BY <2>1, <2>2, <2>3
    <2>5. QED
        BY <2>4 DEF x, y
<1>3. QED
    BY <1>0, <1>1, <1>2, FailResults, NextIInv DEF Abandon, TypeOK

(* close() and a call on the closed channel clear got and touch no stream. *)
LEMMA CloseIInv ==
    ASSUME IInv, NEW c \in Callers, Close(c)
    PROVE  IInv'
<1>1. <<>> \in Objects
    BY EmptyInSeqOf, GrpcAssumption DEF Objects
<1>2. \A d \in Callers : Len(got'[d]) + Len(rest'[d]) <= MaxLen
    BY ClearBound DEF Close
<1>3. QED
    BY <1>1, <1>2, FailResults, NextIInv DEF Close, IInv, TypeOK, Ops

LEMMA CallClosedIInv ==
    ASSUME IInv, NEW c \in Callers, CallClosed(c)
    PROVE  IInv'
<1>1. <<>> \in Objects
    BY EmptyInSeqOf, GrpcAssumption DEF Objects
<1>2. \A d \in Callers : Len(got'[d]) + Len(rest'[d]) <= MaxLen
    BY ClearBound DEF CallClosed
<1>3. QED
    BY <1>1, <1>2, FailResults, NextIInv DEF CallClosed, IInv, TypeOK, Ops

(* Every step of Next, and a stuttering step, keeps the invariant.         *)
LEMMA StepIInv == IInv /\ [Next]_vars => IInv'
<1> SUFFICES ASSUME IInv, [Next]_vars PROVE IInv'
    OBVIOUS
<1>1. CASE UNCHANGED vars
    BY <1>1 DEF vars, IInv, TypeOK
<1>2. ASSUME NEW c \in Callers,
             \/ Exists(c) \/ ListCall(c) \/ MetadataCall(c) \/ ServiceCall(c)
             \/ PolicyCall(c) \/ ReplicationCall(c)
      PROVE  IInv'
    BY <1>2, QueryIInv DEF Exists, ListCall, MetadataCall, ServiceCall, PolicyCall,
                           ReplicationCall
<1>3. QED
    BY <1>1, <1>2, PutIInv, DeleteIInv, OpenGetIInv, ReceiveIInv, StreamFailsIInv,
       FinishIInv, ResumeIInv, AbandonIInv, CloseIInv, CallClosedIInv DEF Next

-----------------------------------------------------------------------------
(***************************************************************************)
(* Type correctness of the gRPC adapter model: for any callers, chunk      *)
(* values, object length and fault bound, every variable of every          *)
(* reachable state holds a value of its type; in particular what get has   *)
(* appended or get_stream has yielded never exceeds the longest object.    *)
(***************************************************************************)
THEOREM GrpcTypeCorrect == Spec => []TypeOK
<1>1. IInv => TypeOK
    BY DEF IInv
<1>2. QED
    BY <1>1, InitIInv, StepIInv, PTL DEF Spec
=============================================================================
