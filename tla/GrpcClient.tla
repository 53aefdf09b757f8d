----------------------------- MODULE GrpcClient -----------------------------
(***************************************************************************)
(* The gRPC adapter (objstore/grpc_client.py): one GrpcClient, shared by   *)
(* the threads in Callers, over one insecure channel to a server holding   *)
(* one key.                                                                *)
(*                                                                         *)
(* Every method makes exactly one RPC and sends an RpcError through        *)
(* _handle_grpc_error; there is no retry.  A unary RPC is one step.  Get   *)
(* is server-streaming: get() concatenates the messages as they arrive,    *)
(* get_stream() yields each non-empty message's data to its caller and is  *)
(* suspended at the yield until the caller asks for the next chunk or      *)
(* drops the iterator.  close() closes the channel: a call made after it   *)
(* raises grpcio's ValueError (not an RpcError), and a stream still being  *)
(* read gets CANCELLED.                                                    *)
(*                                                                         *)
(* An object is the sequence of chunks the server streams for it, one per  *)
(* message.  A message bearing only metadata changes nothing the model     *)
(* tracks (get appends b"", get_stream's 'if response.data' skips it), so  *)
(* receiving one is a stutter and the model leaves such messages out.      *)
(* What the server answers is modelled from the specification (the server *)
(* is not part of the SDK): a read streams the object as it was when the   *)
(* stream opened, a read or delete of an absent key may be NOT_FOUND, and  *)
(* any RPC may fail with a status of FailCodes, at most MaxFaults times.   *)
(***************************************************************************)
EXTENDS Naturals, Sequences, SequencesExt, ErrorMapping

CONSTANTS
    Callers,    \* threads calling the one client
    Chunks,     \* the data one message can carry
    MaxLen,     \* the most messages an object is streamed in
    FailCodes,  \* the gRPC status codes an RPC may fail with
    MaxFaults,  \* bound on the injected RPC failures
    Absent      \* the server holds nothing under the key

(* What the server can hold under the key: the chunks it streams.          *)
Objects == SeqOf(Chunks, MaxLen)

ASSUME GrpcAssumption ==
    /\ MaxLen \in Nat \ {0}
    /\ MaxFaults \in Nat
    /\ Absent \notin Objects

VARIABLES
    pc,          \* per caller: idle, recv (reading the response stream), yielded
    op,          \* per caller: the method of its current or last call
    rest,        \* per caller: the messages of its stream not read yet
    got,         \* per caller: the data received so far (get) or yielded (get_stream)
    snap,        \* per caller: the object its open stream serves
    ret,         \* per caller: how its last call ended
    store,       \* the server's object under the key
    channelOpen, \* self.channel has not been closed
    faults       \* RPC failures so far

vars == <<pc, op, rest, got, snap, ret, store, channelOpen, faults>>

(* The methods as the model tells them apart: "unary" is any method whose   *)
(* one RPC leaves the key's object alone (exists, list, the metadata,       *)
(* health, archive, policy and replication methods).                        *)
Ops == {"put", "get", "get_stream", "delete", "unary", "close"}

NoneYet == "none"

(* The outcomes of a call: normal return, an abandoned get_stream, the      *)
(* class _handle_grpc_error raises, or grpcio's ValueError.                 *)
Results == {"ok", "abandoned", "ValueError", NoneYet}
           \cup {HandleGrpcError(c) : c \in FailCodes \cup {"NOT_FOUND", "CANCELLED"}}

Init ==
    /\ pc = [c \in Callers |-> "idle"]
    /\ op = [c \in Callers |-> NoneYet]
    /\ rest = [c \in Callers |-> <<>>]
    /\ got = [c \in Callers |-> <<>>]
    /\ snap = [c \in Callers |-> <<>>]
    /\ ret = [c \in Callers |-> NoneYet]
    /\ store = Absent
    /\ channelOpen = TRUE
    /\ faults = 0

(* Caller c starts a call of method o on the open channel.                 *)
Call(c, o) ==
    /\ pc[c] = "idle"
    /\ channelOpen
    /\ op' = [op EXCEPT ![c] = o]
    /\ got' = [got EXCEPT ![c] = <<>>]

(* The RPC fails with one of FailCodes; except grpc.RpcError hands it to    *)
(* _handle_grpc_error, which raises.                                       *)
RpcFails(c) ==
    /\ faults < MaxFaults
    /\ faults' = faults + 1
    /\ \E code \in FailCodes : ret' = [ret EXCEPT ![c] = HandleGrpcError(code)]

(* put: one Put RPC.  A failure may come after the server stored the data  *)
(* (a deadline that expired on the way back).                              *)
Put(c) ==
    /\ Call(c, "put")
    /\ \E d \in Objects :
          \/ /\ store' = d
             /\ ret' = [ret EXCEPT ![c] = "ok"]
             /\ UNCHANGED faults
          \/ /\ RpcFails(c)
             /\ store' \in {store, d}
    /\ UNCHANGED <<pc, rest, snap, channelOpen>>

(* delete: one Delete RPC; of an absent key the server answers success     *)
(* false or NOT_FOUND.  A failure may come after the server removed the     *)
(* object (a deadline that expired on the way back).                        *)
Delete(c) ==
    /\ Call(c, "delete")
    /\ \/ /\ store # Absent
          /\ store' = Absent
          /\ ret' = [ret EXCEPT ![c] = "ok"]
          /\ UNCHANGED faults
       \/ /\ store = Absent
          /\ ret' \in {[ret EXCEPT ![c] = r] : r \in {"ok", HandleGrpcError("NOT_FOUND")}}
          /\ UNCHANGED <<store, faults>>
       \/ /\ RpcFails(c)
          /\ store' \in {store, Absent}
    /\ UNCHANGED <<pc, rest, snap, channelOpen>>

(* A unary RPC that changes nothing this model tracks: it returns, or its   *)
(* RpcError is handed to _handle_grpc_error.                                *)
Query(c) ==
    /\ Call(c, "unary")
    /\ \/ /\ ret' = [ret EXCEPT ![c] = "ok"]
          /\ UNCHANGED faults
       \/ RpcFails(c)
    /\ UNCHANGED <<pc, rest, snap, store, channelOpen>>

(* exists: one Exists RPC, its errors through _handle_grpc_error.           *)
Exists(c) == Query(c)

(* The other unary methods, grouped by what they touch; each is one RPC    *)
(* whose RpcError goes through _handle_grpc_error.                          *)
(* list.                                                                    *)
ListCall(c) == Query(c)

(* get_metadata and update_metadata.                                        *)
MetadataCall(c) == Query(c)

(* health and archive.                                                      *)
ServiceCall(c) == Query(c)

(* add_policy, remove_policy, get_policies and apply_policies.              *)
PolicyCall(c) == Query(c)

(* The replication methods.                                                 *)
ReplicationCall(c) == Query(c)

(* get / get_stream: stub.Get opens the response stream.  The server        *)
(* streams the object as it is now, or answers NOT_FOUND for an absent key. *)
OpenGet(c) ==
    /\ \E o \in {"get", "get_stream"} : Call(c, o)
    /\ \/ /\ store # Absent
          /\ pc' = [pc EXCEPT ![c] = "recv"]
          /\ rest' = [rest EXCEPT ![c] = store]
          /\ snap' = [snap EXCEPT ![c] = store]
          /\ ret' = [ret EXCEPT ![c] = NoneYet]
          /\ UNCHANGED faults
       \/ /\ store = Absent
          /\ ret' = [ret EXCEPT ![c] = HandleGrpcError("NOT_FOUND")]
          /\ UNCHANGED <<pc, rest, snap, faults>>
       \/ /\ RpcFails(c)
          /\ UNCHANGED <<pc, rest, snap>>
    /\ UNCHANGED <<store, channelOpen>>

(* Mutant of Receive: data = response.data in place of data += ...       *)
ReceiveOverwrites(c) ==
    /\ pc[c] = "recv"
    /\ rest[c] # <<>>
    /\ got' = [got EXCEPT ![c] = <<Head(rest[c])>>]
    /\ pc' = [pc EXCEPT ![c] = IF op[c] = "get_stream" THEN "yielded" ELSE "recv"]
    /\ rest' = [rest EXCEPT ![c] = Tail(rest[c])]
    /\ UNCHANGED <<op, snap, ret, store, channelOpen, faults>>

(* One turn of 'for response in responses': get appends response.data to  *)
(* data; get_stream yields it (it is not empty).  A message already on its *)
(* way is delivered even if the channel was closed meanwhile.               *)
Receive(c) ==
    /\ pc[c] = "recv"
    /\ rest[c] # <<>>
    /\ got' = [got EXCEPT ![c] = Append(got[c], Head(rest[c]))]
    /\ pc' = [pc EXCEPT ![c] = IF op[c] = "get_stream" THEN "yielded" ELSE "recv"]
    /\ rest' = [rest EXCEPT ![c] = Tail(rest[c])]
    /\ UNCHANGED <<op, snap, ret, store, channelOpen, faults>>

(* The stream ends in an error status: a server fault, or CANCELLED        *)
(* because another thread closed the channel.                               *)
StreamFails(c) ==
    /\ pc[c] = "recv"
    /\ \/ RpcFails(c)
       \/ /\ ~channelOpen
          /\ ret' = [ret EXCEPT ![c] = HandleGrpcError("CANCELLED")]
          /\ UNCHANGED faults
    /\ pc' = [pc EXCEPT ![c] = "idle"]
    /\ rest' = [rest EXCEPT ![c] = <<>>]
    /\ UNCHANGED <<op, got, snap, store, channelOpen>>

(* The stream ends with OK: get returns data, get_stream is exhausted.      *)
Finish(c) ==
    /\ pc[c] = "recv"
    /\ rest[c] = <<>>
    /\ pc' = [pc EXCEPT ![c] = "idle"]
    /\ ret' = [ret EXCEPT ![c] = "ok"]
    /\ UNCHANGED <<op, rest, got, snap, store, channelOpen, faults>>

(* The caller of get_stream asks for the next chunk.                       *)
Resume(c) ==
    /\ pc[c] = "yielded"
    /\ pc' = [pc EXCEPT ![c] = "recv"]
    /\ UNCHANGED <<op, rest, got, snap, ret, store, channelOpen, faults>>

(* Mutant of Abandon: a broad 'except Exception' around the loop catches  *)
(* GeneratorExit and calls _handle_grpc_error, whose error.code() raises    *)
(* AttributeError.                                                          *)
AbandonHandled(c) ==
    /\ pc[c] = "yielded"
    /\ pc' = [pc EXCEPT ![c] = "idle"]
    /\ rest' = [rest EXCEPT ![c] = <<>>]
    /\ ret' = [ret EXCEPT ![c] = "AttributeError"]
    /\ UNCHANGED <<op, got, snap, store, channelOpen, faults>>

(* The caller drops the get_stream iterator at a yield: GeneratorExit is   *)
(* not an RpcError and ends the generator; the call object is cancelled     *)
(* when it is collected.                                                    *)
Abandon(c) ==
    /\ pc[c] = "yielded"
    /\ pc' = [pc EXCEPT ![c] = "idle"]
    /\ rest' = [rest EXCEPT ![c] = <<>>]
    /\ ret' = [ret EXCEPT ![c] = "abandoned"]
    /\ UNCHANGED <<op, got, snap, store, channelOpen, faults>>

(* close: 'if self.channel: self.channel.close()'; the channel object is   *)
(* always truthy and closing it again does nothing.                         *)
Close(c) ==
    /\ pc[c] = "idle"
    /\ op' = [op EXCEPT ![c] = "close"]
    /\ got' = [got EXCEPT ![c] = <<>>]
    /\ channelOpen' = FALSE
    /\ ret' = [ret EXCEPT ![c] = "ok"]
    /\ UNCHANGED <<pc, rest, snap, store, faults>>

(* Any RPC method after close: the stub raises ValueError ('Cannot invoke  *)
(* RPC on closed channel!'), which no except clause of the adapter catches. *)
CallClosed(c) ==
    /\ pc[c] = "idle"
    /\ ~channelOpen
    /\ \E o \in Ops \ {"close"} : op' = [op EXCEPT ![c] = o]
    /\ got' = [got EXCEPT ![c] = <<>>]
    /\ ret' = [ret EXCEPT ![c] = "ValueError"]
    /\ UNCHANGED <<pc, rest, snap, store, channelOpen, faults>>

Next ==
    \E c \in Callers :
        \/ Put(c) \/ Delete(c) \/ Exists(c) \/ ListCall(c) \/ MetadataCall(c)
        \/ ServiceCall(c) \/ PolicyCall(c) \/ ReplicationCall(c) \/ OpenGet(c)
        \/ Receive(c) \/ StreamFails(c) \/ Finish(c) \/ Resume(c) \/ Abandon(c)
        \/ Close(c) \/ CallClosed(c)

Spec == Init /\ [][Next]_vars

-----------------------------------------------------------------------------
(* Type invariant.                                                         *)
TypeOK ==
    /\ pc \in [Callers -> {"idle", "recv", "yielded"}]
    /\ op \in [Callers -> Ops \cup {NoneYet}]
    /\ rest \in [Callers -> Objects]
    /\ got \in [Callers -> Objects]
    /\ snap \in [Callers -> Objects]
    /\ ret \in [Callers -> Results]
    /\ store \in Objects \cup {Absent}
    /\ channelOpen \in BOOLEAN
    /\ faults \in 0..MaxFaults

(***************************************************************************)
(* The refinement mapping to the operation contract: the object is the     *)
(* chunks the server holds, a caller has a download open while it reads or *)
(* is suspended at a yield, the download serves the object its stream     *)
(* opened on, and what get appended or get_stream yielded is what the      *)
(* download handed out.                                                     *)
(***************************************************************************)
Outcome(r) ==
    CASE r = "ok" -> "ok"
      [] r = NoneYet -> "none"
      [] r = "abandoned" -> "dropped"
      [] OTHER -> "error"

(* Per caller: a download is open while it reads or waits at a yield.    *)
Downloads == [c \in Callers |-> IF pc[c] = "idle" THEN "idle" ELSE "open"]

(* Per caller: how its last call ended, in the contract's terms.          *)
Outcomes == [c \in Callers |-> Outcome(ret[c])]

Contract == INSTANCE ObjectStoreContract WITH
    Bytes <- Chunks,
    MaxBytes <- MaxLen,
    obj <- store,
    st <- Downloads,
    src <- snap,
    seen <- got,
    res <- Outcomes

(***************************************************************************)
(* GrpcClient implements the operation contract (specification 4.1 and 5) *)
(* whatever other threads do meanwhile: every put, delete and unary call   *)
(* acts on the object atomically, and get and get_stream hand out the      *)
(* bytes of the object their stream opened on, one at a time in wire       *)
(* order, and return normally only once all of them were handed out, even  *)
(* when empty messages, failures mid-stream, abandonment and a concurrent  *)
(* close interleave with them.                                             *)
(***************************************************************************)
ImplementsContract == Contract!Spec

(***************************************************************************)
(* Specification 4.4: the error mapping is total, every failure reaches    *)
(* the caller as one of the taxonomy's kinds (unmapped signals as Server). *)
(* Checked against _handle_grpc_error's else branch and the ValueError a   *)
(* call on a closed channel raises.                                        *)
(***************************************************************************)
GrpcErrorsInTaxonomy ==
    \A c \in Callers : ret[c] \in {"ok", "abandoned", NoneYet} \cup Taxonomy
=============================================================================
