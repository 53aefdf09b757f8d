------------------------- MODULE ObjectStoreContract -------------------------
(***************************************************************************)
(* The operation contract of specification section 4.1 for one key, as an *)
(* abstract specification an adapter is shown to implement.  The object is *)
(* a sequence of bytes or Absent, and every call changes it atomically:    *)
(*                                                                         *)
(*   - a write or a removal that reports success has taken effect, one     *)
(*     that reports an error may or may not have (a timeout cannot tell);  *)
(*   - a call that only inspects the object leaves it alone;               *)
(*   - a download serves the object as it was when the download opened,    *)
(*     hands its bytes to the caller one at a time in order (section 5,    *)
(*     "chunk order matches wire arrival order"), and reports success only *)
(*     once it has handed out all of them; it may stop early with an error *)
(*     or because the caller dropped it.                                   *)
(***************************************************************************)
EXTENDS Naturals, Sequences

CONSTANTS
    Callers,   \* the callers of the adapter
    Bytes,     \* the values one byte (chunk) of an object can take
    MaxBytes,  \* the longest object
    Absent     \* no object under the key

(* The objects the key can hold: at most MaxBytes bytes.                   *)
Contents == {v \in Seq(Bytes) : Len(v) <= MaxBytes}

VARIABLES
    obj,   \* the object under the key
    st,    \* per caller: "idle", or "open" while a download is in progress
    src,   \* per caller: the object its download serves
    seen,  \* per caller: the bytes its download handed out so far
    res    \* per caller: "ok", "error", "dropped", or "none" (no outcome yet)

vars == <<obj, st, src, seen, res>>

Init ==
    /\ obj = Absent
    /\ st = [c \in Callers |-> "idle"]
    /\ src = [c \in Callers |-> <<>>]
    /\ seen = [c \in Callers |-> <<>>]
    /\ res = [c \in Callers |-> "none"]

(* A call begins: nothing of an earlier download is in hand.               *)
Begin(c) ==
    /\ st[c] = "idle"
    /\ seen' = [seen EXCEPT ![c] = <<>>]

Write(c) ==
    /\ Begin(c)
    /\ \/ obj' \in Contents /\ res' = [res EXCEPT ![c] = "ok"]
       \/ obj' \in Contents \cup {obj} /\ res' = [res EXCEPT ![c] = "error"]
    /\ UNCHANGED <<st, src>>

Erase(c) ==
    /\ Begin(c)
    /\ \/ obj' = Absent /\ res' = [res EXCEPT ![c] = "ok"]
       \/ obj' \in {obj, Absent} /\ res' = [res EXCEPT ![c] = "error"]
    /\ UNCHANGED <<st, src>>

Inspect(c) ==
    /\ Begin(c)
    /\ res' \in {[res EXCEPT ![c] = r] : r \in {"ok", "error"}}
    /\ UNCHANGED <<obj, st, src>>

Open(c) ==
    /\ Begin(c)
    /\ obj # Absent
    /\ st' = [st EXCEPT ![c] = "open"]
    /\ src' = [src EXCEPT ![c] = obj]
    /\ res' = [res EXCEPT ![c] = "none"]
    /\ UNCHANGED obj

Deliver(c) ==
    /\ st[c] = "open"
    /\ Len(seen[c]) < Len(src[c])
    /\ seen' = [seen EXCEPT ![c] = Append(@, src[c][Len(seen[c]) + 1])]
    /\ UNCHANGED <<obj, st, src, res>>

Complete(c) ==
    /\ st[c] = "open"
    /\ seen[c] = src[c]
    /\ st' = [st EXCEPT ![c] = "idle"]
    /\ res' = [res EXCEPT ![c] = "ok"]
    /\ UNCHANGED <<obj, src, seen>>

Stop(c) ==
    /\ st[c] = "open"
    /\ st' = [st EXCEPT ![c] = "idle"]
    /\ res' \in {[res EXCEPT ![c] = r] : r \in {"error", "dropped"}}
    /\ UNCHANGED <<obj, src, seen>>

Next ==
    \E c \in Callers :
        Write(c) \/ Erase(c) \/ Inspect(c) \/ Open(c) \/ Deliver(c)
        \/ Complete(c) \/ Stop(c)

Spec == Init /\ [][Next]_vars
=============================================================================
