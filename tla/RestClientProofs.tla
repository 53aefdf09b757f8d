-------------------------- MODULE RestClientProofs --------------------------
(***************************************************************************)
(* Proofs about the REST adapter and its retry loop (module RestClient),   *)
(* for every set of callers, keys, contents, injected codes and every     *)
(* fault bound.                                                            *)
(***************************************************************************)
EXTENDS RestClient, SequenceTheorems, TLAPS

(***************************************************************************)
(* Lemmas on the operators the actions are built from.                     *)
(***************************************************************************)

(* _handle_error maps every status code to one of the SDK's classes.       *)
LEMMA HandleErrorKind ==
    ASSUME NEW code \in Codes
    PROVE  HandleError(code) \in ErrorKinds
BY DEF HandleError, ErrorKinds, Taxonomy, Codes

(* What the server does keeps the store well typed, answers with a reply, *)
(* answers a read with 200 only when the key holds data, and answers a    *)
(* put with 201 after storing the body.                                   *)
LEMMA ServeType ==
    ASSUME NEW op \in RestOps, NEW st \in Stores, NEW k \in Keys,
           NEW b \in Data, NEW s \in Serve(op, st, k, b)
    PROVE  /\ s.store \in Stores
           /\ s.reply \in Replies
           /\ (op = "get" /\ s.reply.code = 200) => st[k] \in Data
           /\ (op = "put" /\ s.reply.code = 201) => s.store[k] \in Data
<1>1. CASE op = "put"
    <2>1. s = [reply |-> Reply(201), store |-> [st EXCEPT ![k] = b]]
        BY <1>1 DEF Serve, ServePut
    <2>2. [st EXCEPT ![k] = b] \in Stores
        BY DEF Stores, Data
    <2>3. QED
        BY <1>1, <2>1, <2>2 DEF Replies, Reply, Codes, Stores
<1>2. CASE op = "delete"
    <2>1. CASE st[k] # Absent
        <3>1. s = [reply |-> Reply(200), store |-> [st EXCEPT ![k] = Absent]]
            BY <1>2, <2>1 DEF Serve, ServeDelete
        <3>2. [st EXCEPT ![k] = Absent] \in Stores
            BY DEF Stores
        <3>3. QED
            BY <1>2, <3>1, <3>2 DEF Replies, Reply, Codes
    <2>2. CASE st[k] = Absent
        <3>1. PICK r \in {Reply(200), Reply(404), [code |-> 500, notFoundMsg |-> TRUE]} :
                 s = [reply |-> r, store |-> st]
            BY <1>2, <2>2 DEF Serve, ServeDelete
        <3>2. r \in Replies
            <4>1. CASE r = Reply(200)
                BY <4>1 DEF Replies, Reply, Codes
            <4>2. CASE r = Reply(404)
                BY <4>2 DEF Replies, Reply, Codes
            <4>3. CASE r = [code |-> 500, notFoundMsg |-> TRUE]
                BY <4>3 DEF Replies, Codes
            <4>4. QED
                BY <3>1, <4>1, <4>2, <4>3
        <3>3. QED
            BY <1>2, <3>1, <3>2
    <2>3. QED
        BY <2>1, <2>2
<1>3. CASE op \in {"get", "exists", "get_metadata"}
    <2>1. s = [reply |-> Reply(IF st[k] = Absent THEN 404 ELSE 200), store |-> st]
        BY <1>3 DEF Serve, ServeRead
    <2>2. st[k] \in Data \cup {Absent}
        BY DEF Stores
    <2>3. QED
        BY <1>3, <2>1, <2>2 DEF Replies, Reply, Codes
<1>4. CASE op \in {"list", "health"}
    <2>1. s = [reply |-> Reply(200), store |-> st]
        BY <1>4 DEF Serve, ServeAlways
    <2>2. QED
        BY <1>4, <2>1 DEF Replies, Reply, Codes
<1>5. CASE op \in {"update_metadata", "archive"}
    <2>1. PICK c \in {200, 201, 404, 500} : s = [reply |-> Reply(c), store |-> st]
        BY <1>5 DEF Serve, ServeKeyed
    <2>2. QED
        BY <1>5, <2>1 DEF Replies, Reply, Codes
<1>6. QED
    BY <1>1, <1>2, <1>3, <1>4, <1>5 DEF RestOps

(* A refusal leaves the store alone and answers neither 200 nor 201.       *)
LEMMA RejectType ==
    ASSUME NEW st \in Stores, NEW s \in Reject(st, InjectedCodes)
    PROVE  /\ s.store = st
           /\ s.reply \in Replies
           /\ s.reply.code \notin {200, 201}
<1>1. PICK c \in InjectedCodes : s = [reply |-> Reply(c), store |-> st]
    BY DEF Reject
<1>2. c \in {400, 401, 403, 500}
    BY RestAssumption
<1>3. QED
    BY <1>1, <1>2 DEF Replies, Reply, Codes

(* A delivered reply becomes an outcome of the right type.                 *)
LEMMA ResultType ==
    ASSUME NEW op \in RestOps, NEW r \in Replies, NEW cur,
           (op = "get" /\ r.code = 200) => cur \in Data
    PROVE  Result(op, r, cur) \in Outcomes
<1>1. HandleError(r.code) \in ErrorKinds
    BY HandleErrorKind DEF Replies
<1>2. Ok(NoVal) \in Outcomes /\ \A b \in BOOLEAN : Ok(b) \in Outcomes
    BY DEF Ok, Outcomes
<1>3. \A e \in ErrorKinds : Err(e) \in Outcomes
    BY DEF Err, Outcomes
<1>4. "ObjectNotFoundError" \in ErrorKinds
    BY DEF ErrorKinds, Taxonomy
<1>5. QED
    BY <1>1, <1>2, <1>3, <1>4
    DEF Result, PutResult, GetResult, DeleteResult, ExistsResult, ListResult,
        MetadataResult, UpdateMetadataResult, HealthResult, ArchiveResult, OkOn,
        RestOps, Ok, Outcomes

(* The errors of a lost request or reply are outcomes.                     *)
LEMMA LostErrorType ==
    ASSUME NEW op
    PROVE  \A e \in LostRequestErrors \cup LostReplyErrors(op) : Err(e) \in Outcomes
BY DEF LostRequestErrors, LostReplyErrors, Err, Outcomes, ErrorKinds, Taxonomy

(* The last element of a non-empty sequence is one of its elements.       *)
LEMMA LastOfType ==
    ASSUME NEW S, NEW s \in Seq(S), s # <<>>
    PROVE  LastOf(s) \in S
<1>1. Len(s) \in 1..Len(s)
    BY EmptySeq, LenProperties
<1>2. QED
    BY <1>1, ElementOfSeq DEF LastOf

(* A history of one to three attempts is not empty.                        *)
LEMMA HistNonEmpty ==
    ASSUME NEW S, NEW s \in Seq(S), Len(s) \in 1..StopAfter
    PROVE  s # <<>>
<1> DEFINE n == Len(s)
<1>1. n \in 1..3
    BY DEF StopAfter
<1>2. s = <<>> => n = 0
    BY EmptySeq
<1> HIDE DEF n
<1>3. QED
    BY <1>1, <1>2

(* tenacity returns an exception only when stop_after_attempt(3) fired.    *)
LEMMA StopBound ==
    ASSUME NEW S, NEW s \in Seq(S), NEW P,
           Len(s) \in 1..StopAfter, ~P \/ Len(s) >= StopAfter
    PROVE  P => Len(s) = StopAfter
<1> DEFINE n == Len(s)
<1>1. n \in Nat /\ n \in 1..3 /\ (~P \/ n >= 3)
    BY LenProperties DEF StopAfter
<1> HIDE DEF n
<1>2. P => n = 3
    BY <1>1
<1>3. QED
    BY <1>2 DEF StopAfter, n

-----------------------------------------------------------------------------
(***************************************************************************)
(* Type correctness.                                                       *)
(***************************************************************************)

(* A reply that reaches the client, or is lost on the way back, keeps the *)
(* store and the written contents well typed and appends one outcome to   *)
(* the caller's history.                                                  *)
LEMMA AnswerStep ==
    ASSUME TypeOK, NEW c \in Callers, NEW s, NEW used \in 0..MaxFaults,
           s.store \in Stores, s.reply \in Replies,
           (call[c].op = "get" /\ s.reply.code = 200) => store[call[c].key] \in Data,
           (call[c].op = "put" /\ s.reply.code = 201) => s.store[call[c].key] \in Data,
           Answer(c, s, used)
    PROVE  /\ store' \in Stores
           /\ wrote' \in [Callers -> SUBSET (Data \cup {Absent})]
           /\ faults' \in 0..MaxFaults
           /\ \E o \in Outcomes : hist' = [hist EXCEPT ![c] = Append(hist[c], o)]
<1> DEFINE op == call[c].op
           k == call[c].key
<1>1. op \in RestOps /\ k \in Keys
    BY DEF TypeOK, CallRecords
<1>2. store' \in Stores
    BY DEF Answer
<1>3. wrote' \in [Callers -> SUBSET (Data \cup {Absent})]
    <2>1. Effect(op, s, store[k], k) \subseteq Data \cup {Absent}
        BY <1>1 DEF Effect, Stores
    <2>2. QED
        BY <2>1 DEF Answer, TypeOK
<1>4. CASE /\ hist' = [hist EXCEPT ![c] = Append(hist[c], Result(op, s.reply, store[k]))]
           /\ faults' = used
    <2>1. Result(op, s.reply, store[k]) \in Outcomes
        BY <1>1, ResultType
    <2>2. QED
        BY <1>2, <1>3, <1>4, <2>1
<1>5. CASE /\ used < MaxFaults
           /\ faults' = used + 1
           /\ \E e \in LostReplyErrors(op) : hist' = [hist EXCEPT ![c] = Append(hist[c], Err(e))]
    <2>1. PICK e \in LostReplyErrors(op) : hist' = [hist EXCEPT ![c] = Append(hist[c], Err(e))]
        BY <1>5
    <2>2. Err(e) \in Outcomes
        BY LostErrorType
    <2>3. faults' \in 0..MaxFaults
        BY <1>5, RestAssumption
    <2>4. QED
        BY <1>2, <1>3, <2>1, <2>2, <2>3
<1>6. QED
    BY <1>4, <1>5 DEF Answer

(* One attempt keeps every variable well typed, appends one outcome to its *)
(* caller's history, moves it to the decision and leaves the call records  *)
(* and returned values alone.                                              *)
LEMMA AttemptStep ==
    ASSUME TypeOK, NEW c \in Callers, Attempt(c)
    PROVE  /\ TypeOK'
           /\ \E o \in Outcomes : hist' = [hist EXCEPT ![c] = Append(hist[c], o)]
           /\ pc' = [pc EXCEPT ![c] = "decide"]
           /\ call' = call /\ ret' = ret
<1> DEFINE op == call[c].op
           k == call[c].key
           Appended == \E o \in Outcomes : hist' = [hist EXCEPT ![c] = Append(hist[c], o)]
<1>1. op \in RestOps /\ k \in Keys /\ SentBody(c) \in Data
    BY DEF TypeOK, CallRecords, SentBody, Data
<1>2. /\ pc' = [pc EXCEPT ![c] = "decide"]
      /\ pc' \in [Callers -> {"idle", "attempt", "decide"}]
      /\ streamAt' \in [Callers -> {"start", "end"}]
      /\ call' = call /\ ret' = ret
    BY DEF Attempt, TypeOK
<1>3. /\ store' \in Stores
      /\ wrote' \in [Callers -> SUBSET (Data \cup {Absent})]
      /\ faults' \in 0..MaxFaults
      /\ Appended
    <2>1. CASE RequestLost(c)
        <3>1. PICK e \in LostRequestErrors : hist' = [hist EXCEPT ![c] = Append(hist[c], Err(e))]
            BY <2>1 DEF RequestLost
        <3>2. Err(e) \in Outcomes
            BY LostErrorType
        <3>3. faults' \in 0..MaxFaults
            BY <2>1, RestAssumption DEF RequestLost, TypeOK
        <3>4. QED
            BY <2>1, <3>1, <3>2, <3>3 DEF RequestLost, TypeOK
    <2>2. CASE RequestServed(c, SentBody(c))
        <3>1. PICK s \in Serve(op, store, k, SentBody(c)) : Answer(c, s, faults)
            BY <2>2 DEF RequestServed
        <3>2. /\ s.store \in Stores /\ s.reply \in Replies
              /\ (op = "get" /\ s.reply.code = 200) => store[k] \in Data
              /\ (op = "put" /\ s.reply.code = 201) => s.store[k] \in Data
            BY <1>1, ServeType DEF TypeOK
        <3>3. QED
            BY <3>1, <3>2, AnswerStep DEF TypeOK
    <2>3. CASE RequestRefused(c)
        <3>1. PICK s \in Reject(store, InjectedCodes) : Answer(c, s, faults + 1)
            BY <2>3 DEF RequestRefused
        <3>2. /\ s.store \in Stores /\ s.reply \in Replies
              /\ s.reply.code \notin {200, 201}
            BY RejectType DEF TypeOK
        <3>3. faults + 1 \in 0..MaxFaults
            BY <2>3, RestAssumption DEF RequestRefused, TypeOK
        <3>4. QED
            BY <3>1, <3>2, <3>3, AnswerStep
    <2>4. QED
        BY <2>1, <2>2, <2>3 DEF Attempt
<1>4. hist' \in [Callers -> Seq(Outcomes)]
    <2>1. PICK o \in Outcomes : hist' = [hist EXCEPT ![c] = Append(hist[c], o)]
        BY <1>3
    <2>2. Append(hist[c], o) \in Seq(Outcomes)
        BY AppendProperties DEF TypeOK
    <2>3. QED
        BY <2>1, <2>2 DEF TypeOK
<1>5. QED
    BY <1>2, <1>3, <1>4 DEF TypeOK

-----------------------------------------------------------------------------
(***************************************************************************)
(* The inductive invariant.  TypeOK alone is not inductive: Return reads   *)
(* the last attempt's outcome, so it needs that a deciding caller has one. *)
(* CallInv states, for each caller, what its retry loop has done so far:   *)
(* before an attempt every earlier attempt raised and fewer than three     *)
(* were made; when deciding, one to three were made and all but the last  *)
(* raised; once returned, the caller holds the last outcome, and an error *)
(* only after three attempts.                                             *)
(***************************************************************************)
CallInv(c) ==
    /\ pc[c] = "attempt" =>
          /\ Len(hist[c]) < StopAfter
          /\ \A i \in 1..Len(hist[c]) : RetryOn(hist[c][i])
    /\ pc[c] = "decide" =>
          /\ Len(hist[c]) \in 1..StopAfter
          /\ \A i \in 1..Len(hist[c]) - 1 : RetryOn(hist[c][i])
    /\ (pc[c] = "idle" /\ hist[c] # <<>>) =>
          /\ Len(hist[c]) \in 1..StopAfter
          /\ \A i \in 1..Len(hist[c]) - 1 : RetryOn(hist[c][i])
          /\ ret[c] = LastOf(hist[c])
          /\ RetryOn(ret[c]) => Len(hist[c]) = StopAfter

IInv == TypeOK /\ \A c \in Callers : CallInv(c)

(* IInv holds initially and is kept by every step.                        *)
LEMMA IInvInit == Init => IInv
<1> SUFFICES ASSUME Init PROVE IInv
    OBVIOUS
<1>1. NoCall \in CallRecords
    BY ServerAssumption DEF NoCall, CallRecords, RestOps, Data
<1>2. Ok(NoVal) \in Outcomes
    BY DEF Ok, Outcomes
<1>3. store \in Stores
    BY DEF Init, Stores
<1>4. TypeOK
    BY <1>1, <1>2, <1>3, RestAssumption DEF Init, TypeOK
<1>5. \A c \in Callers : CallInv(c)
    BY <1>1 DEF Init, CallInv, NoCall
<1>6. QED
    BY <1>4, <1>5 DEF IInv

LEMMA IInvStep == IInv /\ [Next]_vars => IInv'
<1> SUFFICES ASSUME IInv, [Next]_vars PROVE IInv'
    OBVIOUS
<1> USE DEF IInv
<1>1. ASSUME NEW c \in Callers, Invoke(c) PROVE IInv'
    <2>1. PICK op \in Ops, k \in Keys :
             \E d \in (IF op = "put" THEN Data ELSE {Empty}),
                b \in (IF op = "put" THEN BodyKinds ELSE {"bytes"}) :
                call' = [call EXCEPT ![c] = [op |-> op, key |-> k, data |-> d, body |-> b]]
        BY <1>1 DEF Invoke
    <2>2. call' \in [Callers -> CallRecords]
        BY <2>1, RestAssumption DEF TypeOK, CallRecords, Data
    <2>3. TypeOK'
        BY <1>1, <2>2, EmptySeq DEF Invoke, TypeOK
    <2>4. \A d \in Callers : CallInv(d)'
        BY <1>1, <2>1 DEF Invoke, CallInv, TypeOK, StopAfter
    <2>5. QED
        BY <2>3, <2>4
<1>2. ASSUME NEW c \in Callers, Attempt(c) PROVE IInv'
    <2>1. TypeOK'
        BY <1>2, AttemptStep
    <2>2. PICK o \in Outcomes : hist' = [hist EXCEPT ![c] = Append(hist[c], o)]
        BY <1>2, AttemptStep
    <2>3. /\ pc' = [pc EXCEPT ![c] = "decide"]
          /\ call' = call /\ ret' = ret
        BY <1>2, AttemptStep
    <2>4. CallInv(c)'
        <3>1. hist[c] \in Seq(Outcomes) /\ pc[c] = "attempt"
            BY <1>2 DEF TypeOK, Attempt
        <3>2. /\ Len(hist'[c]) = Len(hist[c]) + 1
              /\ \A i \in 1..Len(hist[c]) : hist'[c][i] = hist[c][i]
              /\ hist'[c][Len(hist[c]) + 1] = o
            BY <2>2, <3>1, AppendProperties DEF TypeOK
        <3>3. Len(hist[c]) \in Nat
            BY <3>1, LenProperties
        <3>4. QED
            BY <2>2, <2>3, <3>1, <3>2, <3>3 DEF CallInv, StopAfter, TypeOK
    <2>5. ASSUME NEW d \in Callers, d # c PROVE CallInv(d)'
        BY <2>2, <2>3, <2>5 DEF CallInv, TypeOK, LastOf
    <2>6. QED
        BY <2>1, <2>4, <2>5
<1>3. ASSUME NEW c \in Callers, Retry(c) PROVE IInv'
    <2>1. TypeOK'
        BY <1>3 DEF Retry, TypeOK
    <2>2. CallInv(c)'
        <3>1. Len(hist[c]) \in 1..StopAfter /\ Len(hist[c]) < StopAfter
            BY <1>3 DEF Retry, CallInv
        <3>2. \A i \in 1..Len(hist[c]) : RetryOn(hist[c][i])
            BY <1>3, <3>1 DEF Retry, CallInv, LastOf
        <3>3. QED
            BY <1>3, <3>1, <3>2 DEF Retry, CallInv
    <2>3. ASSUME NEW d \in Callers, d # c PROVE CallInv(d)'
        BY <1>3, <2>3 DEF Retry, CallInv, TypeOK
    <2>4. QED
        BY <2>1, <2>2, <2>3
<1>4. ASSUME NEW c \in Callers, Return(c) PROVE IInv'
    <2>1. /\ pc[c] = "decide"
          /\ ~RetryOn(LastOf(hist[c])) \/ Len(hist[c]) >= StopAfter
          /\ ret' = [ret EXCEPT ![c] = LastOf(hist[c])]
          /\ pc' = [pc EXCEPT ![c] = "idle"]
          /\ UNCHANGED <<store, call, hist, streamAt, wrote, faults>>
        BY <1>4 DEF Return
    <2>2. /\ hist[c] \in Seq(Outcomes)
          /\ Len(hist[c]) \in 1..StopAfter
          /\ \A i \in 1..Len(hist[c]) - 1 : RetryOn(hist[c][i])
        BY <2>1 DEF CallInv, TypeOK
    <2>3. hist[c] # <<>>
        BY <2>2, HistNonEmpty
    <2>4. LastOf(hist[c]) \in Outcomes
        BY <2>2, <2>3, LastOfType
    <2>5. TypeOK'
        BY <2>1, <2>4 DEF TypeOK
    <2>6. RetryOn(LastOf(hist[c])) => Len(hist[c]) = StopAfter
        BY <2>1, <2>2, StopBound
    <2>7. CallInv(c)'
        BY <2>1, <2>2, <2>3, <2>6 DEF CallInv, TypeOK
    <2>8. ASSUME NEW d \in Callers, d # c PROVE CallInv(d)'
        BY <2>1, <2>8 DEF CallInv, TypeOK
    <2>9. QED
        BY <2>5, <2>7, <2>8
<1>5. CASE UNCHANGED vars
    BY <1>5 DEF vars, TypeOK, CallInv
<1>6. QED
    BY <1>1, <1>2, <1>3, <1>4, <1>5 DEF Next

(* TypeOK holds in every reachable state.                                  *)
THEOREM TypeCorrect == Spec => []TypeOK
<1>1. IInv => TypeOK
    BY DEF IInv
<1>2. QED
    BY <1>1, IInvInit, IInvStep, PTL DEF Spec

(***************************************************************************)
(* The retry contract of every RestClient method (stop after three         *)
(* attempts, re-raise the last exception) holds for every configuration.   *)
(***************************************************************************)
THEOREM RetryContract == Spec => []ReraisesLastAttempt
<1>1. IInv => ReraisesLastAttempt
    BY DEF IInv, CallInv, ReraisesLastAttempt
<1>2. QED
    BY <1>1, IInvInit, IInvStep, PTL DEF Spec

=============================================================================
